--------------------------- MODULE BatchSummaries ---------------------------
(***************************************************************************)
(* The analysis of several classes at once: analyze_classes in             *)
(* solver/class/batch.rs.  Classes are analyzed one by one, each by the    *)
(* whole loop over its methods; when what is known of a method changes,    *)
(* the classes that call it are analyzed again.                            *)
(*                                                                         *)
(* What the loop over the methods makes of one class is a parameter:       *)
(* module ClassSummaries has it.  A class is its index in the batch and a  *)
(* method its index in the class; infer_classes rejects two classes of one *)
(* name, and the JVM two methods of one name and descriptor.  The maps of  *)
(* the code hold NoValue, or NoIndex, where there is no entry.             *)
(***************************************************************************)
EXTENDS Integers, Sequences

CONSTANTS
    Batches,            \* the batches one of which is analyzed
    Configs,            \* [unbounded, maxWorkItems, strict]
    ClassCount(_),      \* classes.len()
    MethodCount(_, _),  \* class.methods.len()
    Callers(_, _, _),   \* batch_summary_callers of a method of a class, ascending
    Values, NoValue,    \* inferred types, and Option::None
    Indices, NoIndex,   \* parameter indices, and Option::None
    Kinds,              \* the kinds of diagnostics that a strict run refuses
    Analysis(_, _, _)   \* analyze_class_with_method_summaries: batch, class, environment

Classes(b) == 1..ClassCount(b)
MethodsOf(b, c) == 1..MethodCount(b, c)

PerMethod(b, S) ==
    {f \in [Classes(b) -> UNION {[MethodsOf(b, c) -> S] : c \in Classes(b)}] :
        \A c \in Classes(b) : f[c] \in [MethodsOf(b, c) -> S]}

Environments(b) == [returns : PerMethod(b, Values \cup {NoValue}),
                    parameters : PerMethod(b, Indices \cup {NoIndex})]

Analyses(b, c) ==
    [returns : [MethodsOf(b, c) -> Values \cup {NoValue}],
     parameters : [MethodsOf(b, c) -> Indices \cup {NoIndex}],
     diagnostics : SUBSET Kinds]

Members(s) == {s[n] : n \in DOMAIN s}

(* What a class uses of the others, as the requeueing has it: the resolver *)
(* never answers for the class under analysis.                             *)
Used(b, c, env) ==
    LET calls(d, m) == d # c /\ c \in Members(Callers(b, d, m))
    IN  [returns |-> [d \in Classes(b) |-> [m \in MethodsOf(b, d) |->
                        IF calls(d, m) THEN env.returns[d][m] ELSE NoValue]],
         parameters |-> [d \in Classes(b) |-> [m \in MethodsOf(b, d) |->
                        IF calls(d, m) THEN env.parameters[d][m] ELSE NoIndex]]]

ASSUME BatchAssumption ==
    \A b \in Batches :
        /\ ClassCount(b) \in Nat
        /\ \A c \in Classes(b) :
              /\ MethodCount(b, c) \in Nat
              /\ \A m \in MethodsOf(b, c) : Callers(b, c, m) \in Seq(Classes(b))

ASSUME AnalysisAssumption ==
    \A b \in Batches : \A c \in Classes(b) : \A env \in Environments(b) :
        Analysis(b, c, env) \in Analyses(b, c)

(* An analysis depends only on what it would be repeated for.              *)
ASSUME UsesAssumption ==
    \A b \in Batches : \A c \in Classes(b) : \A env \in Environments(b) :
        Analysis(b, c, env) = Analysis(b, c, Used(b, c, env))

ASSUME ConfigAssumption ==
    \A config \in Configs : /\ config.unbounded \in BOOLEAN
                            /\ config.maxWorkItems \in Nat
                            /\ config.strict \in BOOLEAN

ASSUME NoneAssumption == NoValue \notin Values /\ NoIndex \notin Indices

VARIABLES
    batch, config,          \* what is analyzed, chosen at the start
    worklist, scheduled,    \* the queue of classes and the flag of each
    analyzed,               \* the classes that have an analysis
    analyses,               \* their last ones
    returns, parameters,    \* summaries and returned_parameters, by class and method
    reanalysisItems,
    changed,                \* methods of the last class whose callers are still to be told
    pending,                \* the callers of one of them
    complete,               \* analysis_complete
    outcome                 \* running, collecting, ok or strictError

vars == <<batch, config, worklist, scheduled, analyzed, analyses, returns, parameters,
          reanalysisItems, changed, pending, complete, outcome>>

Environment == [returns |-> returns, parameters |-> parameters]

-----------------------------------------------------------------------------
Init ==
    /\ batch \in Batches
    /\ config \in Configs
    /\ worklist = [n \in Classes(batch) |-> n]
    /\ scheduled = Classes(batch)
    /\ analyzed = {}
    /\ analyses = [c \in {} |-> NoValue]
    /\ returns = [c \in Classes(batch) |-> [m \in MethodsOf(batch, c) |-> NoValue]]
    /\ parameters = [c \in Classes(batch) |-> [m \in MethodsOf(batch, c) |-> NoIndex]]
    /\ reanalysisItems = 0
    /\ changed = {}
    /\ pending = <<>>
    /\ complete = TRUE
    /\ outcome = "running"

Idle == outcome = "running" /\ changed = {} /\ pending = <<>>

Pop ==
    /\ Idle
    /\ worklist # <<>>
    /\ worklist' = Tail(worklist)
    /\ scheduled' = scheduled \ {Head(worklist)}

(* Only a second analysis of a class counts, and only against a bound.     *)
CountReanalysis ==
    reanalysisItems' = IF Head(worklist) \in analyzed /\ ~config.unbounded
                       THEN reanalysisItems + 1 ELSE reanalysisItems

BudgetExceeded ==
    /\ Head(worklist) \in analyzed
    /\ ~config.unbounded
    /\ reanalysisItems + 1 > config.maxWorkItems

StopAtBudget ==
    /\ Pop
    /\ CountReanalysis
    /\ BudgetExceeded
    /\ complete' = FALSE
    /\ outcome' = "collecting"
    /\ UNCHANGED <<batch, config, analyzed, analyses, returns, parameters, changed, pending>>

(* The class-level analysis of a strict run fails on any diagnostic.       *)
Rejected(result) == config.strict /\ result.diagnostics # {}

(* Mutation: a relation to a parameter that changed alone goes unnoticed.  *)
ReturnChanged(c, m, result) == result.returns[m] # returns[c][m]

(* Mutation: what the update reports is not whether it changed anything.   *)
AlwaysChanged(c, m, result) == TRUE

SummaryChanged(c, m, result) ==
    result.returns[m] # returns[c][m] \/ result.parameters[m] # parameters[c][m]

(* update_batch_method_summaries.                                          *)
Learn(c, result) ==
    /\ analyzed' = analyzed \cup {c}
    /\ analyses' = [d \in analyzed \cup {c} |-> IF d = c THEN result ELSE analyses[d]]
    /\ returns' = [returns EXCEPT ![c] = result.returns]
    /\ parameters' = [parameters EXCEPT ![c] = result.parameters]
    /\ changed' = {<<c, m>> : m \in {m \in MethodsOf(batch, c) : SummaryChanged(c, m, result)}}

Result == Analysis(batch, Head(worklist), Environment)

AnalyzeClass ==
    /\ Pop
    /\ CountReanalysis
    /\ ~BudgetExceeded
    /\ ~Rejected(Result)
    /\ Learn(Head(worklist), Result)
    /\ UNCHANGED <<batch, config, pending, complete, outcome>>

(* The question mark on the class-level analysis: the whole batch fails.   *)
RejectClass ==
    /\ Pop
    /\ CountReanalysis
    /\ ~BudgetExceeded
    /\ Rejected(Result)
    /\ outcome' = "strictError"
    /\ UNCHANGED <<batch, config, analyzed, analyses, returns, parameters, changed, pending,
                   complete>>

(* The changed methods in the order of the class.                          *)
NextKey ==
    /\ pending = <<>>
    /\ \E key \in changed :
          /\ \A other \in changed : key[2] <= other[2]
          /\ pending' = Callers(batch, key[1], key[2])
          /\ changed' = changed \ {key}
    /\ UNCHANGED <<batch, config, worklist, scheduled, analyzed, analyses, returns,
                   parameters, reanalysisItems, complete, outcome>>

(* Mutation: a class that waits is queued again.                           *)
ScheduleTwice(c) ==
    /\ worklist' = Append(worklist, c)
    /\ scheduled' = scheduled \cup {c}

(* Mutation: push_front for push_back.                                     *)
ScheduleFirst(c) ==
    /\ worklist' = IF c \in scheduled THEN worklist ELSE <<c>> \o worklist
    /\ scheduled' = scheduled \cup {c}

Schedule(c) ==
    /\ worklist' = IF c \in scheduled THEN worklist ELSE Append(worklist, c)
    /\ scheduled' = scheduled \cup {c}

(* One caller is scheduled again; the class itself may be among them.      *)
Requeue ==
    /\ pending # <<>>
    /\ Schedule(Head(pending))
    /\ pending' = Tail(pending)
    /\ UNCHANGED <<batch, config, analyzed, analyses, returns, parameters, reanalysisItems,
                   changed, complete, outcome>>

Converge ==
    /\ Idle
    /\ worklist = <<>>
    /\ outcome' = "collecting"
    /\ UNCHANGED <<batch, config, worklist, scheduled, analyzed, analyses, returns,
                   parameters, reanalysisItems, changed, pending, complete>>

(* The kinds reported of a class in the end.                               *)
Diagnostics(c) ==
    analyses[c].diagnostics \cup (IF complete THEN {} ELSE {"AnalysisLimitReached"})

(* The second strict check: what the batch itself has added.               *)
Collect ==
    /\ outcome = "collecting"
    /\ outcome' = IF config.strict /\ \E c \in analyzed : Diagnostics(c) # {}
                  THEN "strictError" ELSE "ok"
    /\ UNCHANGED <<batch, config, worklist, scheduled, analyzed, analyses, returns,
                   parameters, reanalysisItems, changed, pending, complete>>

Next == StopAtBudget \/ AnalyzeClass \/ RejectClass \/ NextKey \/ Requeue \/ Converge \/ Collect

Spec == Init /\ [][Next]_vars
(* One thread runs the loop and nothing blocks it: it keeps taking steps.  *)
FairSpec == Spec /\ WF_vars(Next)

(* Mutation: the summaries of a loop that was cut short are published.     *)
UnclearedReturn(c, m) == analyses[c].returns[m]

(* What the caller gets: mark_batch_analysis_incomplete clears what every  *)
(* method returns when the summaries did not converge.                     *)
PublishedReturn(c, m) == IF complete THEN analyses[c].returns[m] ELSE NoValue
PublishedParameter(c, m) == IF complete THEN analyses[c].parameters[m] ELSE NoIndex

-----------------------------------------------------------------------------
(* Every variable of analyze_classes keeps its type.                       *)
TypeOK ==
    /\ batch \in Batches
    /\ config \in Configs
    /\ worklist \in Seq(Classes(batch))
    /\ scheduled \subseteq Classes(batch)
    /\ analyzed \subseteq Classes(batch)
    /\ DOMAIN analyses = analyzed
    /\ \A c \in analyzed : analyses[c] \in Analyses(batch, c)
    /\ Environment \in Environments(batch)
    /\ reanalysisItems \in Nat
    /\ \A key \in changed : /\ key = <<key[1], key[2]>>
                            /\ key[1] \in Classes(batch)
                            /\ key[2] \in MethodsOf(batch, key[1])
    /\ pending \in Seq(Classes(batch))
    /\ complete \in BOOLEAN
    /\ outcome \in {"running", "collecting", "ok", "strictError"}

(* No class waits twice, the flags say who waits, and classes that were    *)
(* never analyzed wait before those that wait again.                       *)
WorklistConsistent ==
    /\ \A i, j \in DOMAIN worklist : worklist[i] = worklist[j] => i = j
    /\ scheduled = {worklist[n] : n \in DOMAIN worklist}
    /\ outcome # "strictError" => Classes(batch) \ analyzed \subseteq scheduled
    /\ \A i, j \in DOMAIN worklist :
          worklist[i] \in analyzed /\ worklist[j] \notin analyzed => j < i

(* The expect on every analysis never panics: only a strict error leaves a *)
(* class without one, and then none is asked for.                          *)
EveryClassAnalyzed == outcome \in {"collecting", "ok"} => analyzed = Classes(batch)

(* Someone has still to be told of c.                                      *)
WaitsFor(c) ==
    \/ c \in scheduled
    \/ c \in Members(pending)
    \/ \E key \in changed : c \in Members(Callers(batch, key[1], key[2]))

(* An analysis that what is known by now would make different is one that  *)
(* is going to be repeated, whichever class changed what and when.         *)
NoStaleClass ==
    complete /\ outcome # "strictError" =>
        \A c \in analyzed : WaitsFor(c) \/ analyses[c] = Analysis(batch, c, Environment)

(* "automatically consume that class's converged return summary" (api.rs): *)
(* what the caller is told of a class is what its analysis finds when it   *)
(* is told of the other classes what the caller is told of them.           *)
PublishedAreJustified ==
    outcome = "ok" =>
        LET told == [returns |-> [c \in Classes(batch) |->
                                    [m \in MethodsOf(batch, c) |-> PublishedReturn(c, m)]],
                     parameters |-> [c \in Classes(batch) |->
                                    [m \in MethodsOf(batch, c) |-> PublishedParameter(c, m)]]]
            justifies(c, m, result) == /\ result.returns[m] = PublishedReturn(c, m)
                                       /\ result.parameters[m] = PublishedParameter(c, m)
        IN  \A c \in Classes(batch) : \A m \in MethodsOf(batch, c) :
                PublishedReturn(c, m) # NoValue \/ PublishedParameter(c, m) # NoIndex =>
                    justifies(c, m, Analysis(batch, c, told))

(* The summaries converge, where each new analysis only narrows them.      *)
Termination == <>(outcome \notin {"running", "collecting"})
=============================================================================
