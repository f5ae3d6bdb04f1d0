--------------------------- MODULE ClassSummaries ---------------------------
(***************************************************************************)
(* The analysis of one class: analyze_class_with_method_summaries in       *)
(* solver/class/summaries.rs with the static fields of solver/fields.rs.   *)
(* Methods are analyzed one by one; when what is known of a method or a    *)
(* field changes, the methods that use it are analyzed again.              *)
(*                                                                         *)
(* What analyze_method makes of one method is a parameter: module          *)
(* MethodAnalysis has it.  A method is its index in the class, no two of   *)
(* which have one name and descriptor (the code's summary maps are keyed   *)
(* by these, and would be shared); a summary map is a total function that  *)
(* holds NoValue where the code has no entry.                              *)
(***************************************************************************)
EXTENDS Integers, Sequences

CONSTANTS
    Classes,            \* the classes one of which is analyzed
    Configs,            \* [unbounded, maxWorkItems, strict]
    MethodCount(_),     \* class.methods.len()
    Callers(_, _),      \* local_summary_callers of one method, ascending
    Fields(_),          \* the static fields of the class that it mentions
    Readers(_, _),      \* local_field_readers of one field, ascending
    Values, NoValue,    \* inferred types, and Option::None
    Indices, NoIndex,   \* parameter indices, and Option::None
    Kinds,              \* the kinds of diagnostics that a strict run refuses
    Lowered(_),         \* those of the class file itself
    Analysis(_, _, _)   \* analyze_method: class, method, environment

MethodsOf(c) == 1..MethodCount(c)

Environments(c) ==
    [returns : [MethodsOf(c) -> Values \cup {NoValue}],
     parameters : [MethodsOf(c) -> Indices \cup {NoIndex}],
     fields : [Fields(c) -> Values \cup {NoValue}]]

Analyses(c) ==
    [ret : Values \cup {NoValue}, param : Indices \cup {NoIndex},
     puts : [Fields(c) -> Values \cup {NoValue}], diagnostics : SUBSET Kinds]

Members(s) == {s[n] : n \in DOMAIN s}

(* What a method uses of an environment, as the requeueing has it.         *)
Used(c, m, env) ==
    LET calls(k) == m \in Members(Callers(c, k))
        reads(f) == m \in Members(Readers(c, f))
    IN  [returns |-> [k \in MethodsOf(c) |-> IF calls(k) THEN env.returns[k] ELSE NoValue],
         parameters |-> [k \in MethodsOf(c) |-> IF calls(k) THEN env.parameters[k] ELSE NoIndex],
         fields |-> [f \in Fields(c) |-> IF reads(f) THEN env.fields[f] ELSE NoValue]]

ASSUME ClassAssumption ==
    \A c \in Classes :
        /\ MethodCount(c) \in Nat
        /\ Lowered(c) \subseteq Kinds
        /\ \A m \in MethodsOf(c) : Callers(c, m) \in Seq(MethodsOf(c))
        /\ \A f \in Fields(c) : Readers(c, f) \in Seq(MethodsOf(c))

ASSUME AnalysisAssumption ==
    \A c \in Classes : \A m \in MethodsOf(c) : \A env \in Environments(c) :
        Analysis(c, m, env) \in Analyses(c)

(* An analysis depends only on what it would be repeated for.              *)
ASSUME UsesAssumption ==
    \A c \in Classes : \A m \in MethodsOf(c) : \A env \in Environments(c) :
        Analysis(c, m, env) = Analysis(c, m, Used(c, m, env))

ASSUME ConfigAssumption ==
    \A c \in Configs : /\ c.unbounded \in BOOLEAN
                       /\ c.maxWorkItems \in Nat
                       /\ c.strict \in BOOLEAN

ASSUME NoneAssumption == NoValue \notin Values /\ NoIndex \notin Indices

VARIABLES
    class, config,          \* what is analyzed, chosen at the start
    worklist, scheduled,    \* the queue of methods and the flag of each
    analyzed,               \* the methods that have an analysis
    analyses,               \* their last ones
    returns, parameters,    \* summaries and returned_parameters
    fields,                 \* field_summaries
    reanalysisItems,
    pending, changedFields, \* whom the last analysis has still to requeue
    complete,               \* summary_analysis_complete
    outcome                 \* running, collecting, ok or strictError

vars == <<class, config, worklist, scheduled, analyzed, analyses, returns, parameters,
          fields, reanalysisItems, pending, changedFields, complete, outcome>>

Environment == [returns |-> returns, parameters |-> parameters, fields |-> fields]

-----------------------------------------------------------------------------
Init ==
    /\ class \in Classes
    /\ config \in Configs
    /\ worklist = [n \in MethodsOf(class) |-> n]
    /\ scheduled = MethodsOf(class)
    /\ analyzed = {}
    /\ analyses = [m \in {} |-> NoValue]
    /\ returns = [m \in MethodsOf(class) |-> NoValue]
    /\ parameters = [m \in MethodsOf(class) |-> NoIndex]
    /\ fields = [f \in Fields(class) |-> NoValue]
    /\ reanalysisItems = 0
    /\ pending = <<>>
    /\ changedFields = {}
    /\ complete = TRUE
    /\ outcome = "running"

Idle == outcome = "running" /\ pending = <<>> /\ changedFields = {}

Pop ==
    /\ Idle
    /\ worklist # <<>>
    /\ worklist' = Tail(worklist)
    /\ scheduled' = scheduled \ {Head(worklist)}

(* Only a second analysis of a method counts, and only against a bound:    *)
(* nothing reads the counter of an unbounded analysis, and it stays 0.     *)
CountReanalysis ==
    reanalysisItems' = IF Head(worklist) \in analyzed /\ ~config.unbounded
                       THEN reanalysisItems + 1 ELSE reanalysisItems

BudgetExceeded ==
    /\ Head(worklist) \in analyzed
    /\ ~config.unbounded
    /\ reanalysisItems + 1 > config.maxWorkItems

StopAtBudget ==
    /\ Pop
    /\ CountReanalysis
    /\ BudgetExceeded
    /\ complete' = FALSE
    /\ outcome' = "collecting"
    /\ UNCHANGED <<class, config, analyzed, analyses, returns, parameters, fields,
                   pending, changedFields>>

(* update_local_static_field_summaries: an entry is replaced, never taken  *)
(* away.                                                                   *)
UpdatedFields(result) ==
    [f \in Fields(class) |-> IF result.puts[f] = NoValue THEN fields[f] ELSE result.puts[f]]

(* Mutation: a relation to a parameter that changed alone goes unnoticed.  *)
ReturnChanged(m, result) == result.ret # returns[m]

(* Mutation: what the update functions report is not whether they changed. *)
AlwaysChanged(m, result) == TRUE

SummaryChanged(m, result) == result.ret # returns[m] \/ result.param # parameters[m]

(* The three updates of what is known, and whom they concern.              *)
Learn(m, result) ==
    /\ analyzed' = analyzed \cup {m}
    /\ analyses' = [k \in analyzed \cup {m} |-> IF k = m THEN result ELSE analyses[k]]
    /\ returns' = [returns EXCEPT ![m] = result.ret]
    /\ parameters' = [parameters EXCEPT ![m] = result.param]
    /\ fields' = UpdatedFields(result)
    /\ changedFields' = {f \in Fields(class) : UpdatedFields(result)[f] # fields[f]}
    /\ pending' = IF SummaryChanged(m, result) THEN Callers(class, m) ELSE <<>>

(* The analysis of the next method.                                        *)
AnalyzeMethod ==
    /\ Pop
    /\ CountReanalysis
    /\ ~BudgetExceeded
    /\ Learn(Head(worklist), Analysis(class, Head(worklist), Environment))
    /\ UNCHANGED <<class, config, complete, outcome>>

(* Mutation: a method that waits is queued again.                          *)
ScheduleTwice(m) ==
    /\ worklist' = Append(worklist, m)
    /\ scheduled' = scheduled \cup {m}

(* Mutation: push_front for push_back.                                     *)
ScheduleFirst(m) ==
    /\ worklist' = IF m \in scheduled THEN worklist ELSE <<m>> \o worklist
    /\ scheduled' = scheduled \cup {m}

Schedule(m) ==
    /\ worklist' = IF m \in scheduled THEN worklist ELSE Append(worklist, m)
    /\ scheduled' = scheduled \cup {m}

(* One caller, or one reader of a changed field, is scheduled again.       *)
Requeue ==
    /\ pending # <<>>
    /\ Schedule(Head(pending))
    /\ pending' = Tail(pending)
    /\ UNCHANGED <<class, config, analyzed, analyses, returns, parameters, fields,
                   reanalysisItems, changedFields, complete, outcome>>

(* The changed fields come out of a hash map, in any order.                *)
NextField ==
    /\ pending = <<>>
    /\ \E f \in changedFields :
          /\ pending' = Readers(class, f)
          /\ changedFields' = changedFields \ {f}
    /\ UNCHANGED <<class, config, worklist, scheduled, analyzed, analyses, returns,
                   parameters, fields, reanalysisItems, complete, outcome>>

Converge ==
    /\ Idle
    /\ worklist = <<>>
    /\ outcome' = "collecting"
    /\ UNCHANGED <<class, config, worklist, scheduled, analyzed, analyses, returns,
                   parameters, fields, reanalysisItems, pending, changedFields, complete>>

(* The kinds reported in the end: of the class, the budget, the methods.   *)
Diagnostics ==
    Lowered(class) \cup UNION {analyses[m].diagnostics : m \in analyzed}
        \cup (IF complete THEN {} ELSE {"AnalysisLimitReached"})

(* A strict run fails on any of them.                                      *)
Collect ==
    /\ outcome = "collecting"
    /\ outcome' = IF config.strict /\ Diagnostics # {} THEN "strictError" ELSE "ok"
    /\ UNCHANGED <<class, config, worklist, scheduled, analyzed, analyses, returns,
                   parameters, fields, reanalysisItems, pending, changedFields, complete>>

Next == StopAtBudget \/ AnalyzeMethod \/ Requeue \/ NextField \/ Converge \/ Collect

Spec == Init /\ [][Next]_vars
(* One thread runs the loop and nothing blocks it: it keeps taking steps.  *)
FairSpec == Spec /\ WF_vars(Next)

(* Mutation: the summaries of a loop that was cut short are published.     *)
UnclearedReturn(m) == analyses[m].ret

(* What the caller gets: mark_analysis_incomplete clears what a method     *)
(* returns when the summaries did not converge.                            *)
PublishedReturn(m) == IF complete THEN analyses[m].ret ELSE NoValue
PublishedParameter(m) == IF complete THEN analyses[m].param ELSE NoIndex

-----------------------------------------------------------------------------
TypeOK ==
    /\ class \in Classes
    /\ config \in Configs
    /\ worklist \in Seq(MethodsOf(class))
    /\ scheduled \subseteq MethodsOf(class)
    /\ analyzed \subseteq MethodsOf(class)
    /\ analyses \in [analyzed -> Analyses(class)]
    /\ Environment \in Environments(class)
    /\ reanalysisItems \in Nat
    /\ pending \in Seq(MethodsOf(class))
    /\ changedFields \subseteq Fields(class)
    /\ complete \in BOOLEAN
    /\ outcome \in {"running", "collecting", "ok", "strictError"}

(* No method waits twice, the flags say who waits, and methods that were   *)
(* never analyzed wait before those that wait again.                       *)
WorklistConsistent ==
    /\ \A i, j \in DOMAIN worklist : worklist[i] = worklist[j] => i = j
    /\ scheduled = {worklist[n] : n \in DOMAIN worklist}
    /\ MethodsOf(class) \ analyzed \subseteq scheduled
    /\ \A i, j \in DOMAIN worklist :
          worklist[i] \in analyzed /\ worklist[j] \notin analyzed => j < i

(* The expect on every analysis never panics: the budget only counts       *)
(* second analyses, so even a budget of one leaves none without a first.   *)
EveryMethodAnalyzed == outcome # "running" => analyzed = MethodsOf(class)

(* Someone has still to be told of m.                                      *)
WaitsFor(m) ==
    \/ m \in scheduled
    \/ m \in Members(pending)
    \/ \E f \in changedFields : m \in Members(Readers(class, f))

(* An analysis that what is known by now would make different is one that  *)
(* is going to be repeated: no change of a summary passes its users by,    *)
(* recursive calls included.                                               *)
NoStaleAnalysis ==
    complete =>
        \A m \in analyzed : WaitsFor(m) \/ analyses[m] = Analysis(class, m, Environment)

(* What the caller is told a method returns is what the analysis of that   *)
(* method finds when every call is given what the caller is told: the      *)
(* published summaries justify each other, and a budget publishes none.    *)
PublishedAreJustified ==
    outcome = "ok" =>
        LET told == [returns |-> [k \in MethodsOf(class) |-> PublishedReturn(k)],
                     parameters |-> [k \in MethodsOf(class) |-> PublishedParameter(k)],
                     fields |-> fields]
            justifies(m, result) == /\ result.ret = PublishedReturn(m)
                                    /\ result.param = PublishedParameter(m)
        IN  \A m \in MethodsOf(class) :
                PublishedReturn(m) # NoValue \/ PublishedParameter(m) # NoIndex =>
                    justifies(m, Analysis(class, m, told))

(* The summaries converge, where each new analysis only narrows them.      *)
Termination == <>(outcome \notin {"running", "collecting"})
=============================================================================
