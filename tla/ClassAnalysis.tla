--------------------------- MODULE ClassAnalysis ---------------------------
(***************************************************************************)
(* The bytecode side of the class-level loop of module ClassSummaries:     *)
(* which methods use which methods and static fields of their own class    *)
(* (solver/class/resolution.rs, solver/fields.rs), and the analysis of one *)
(* method in its environment (solver/class/summaries.rs).                  *)
(*                                                                         *)
(* A class is a record: name, final, finalMethods and methods, a sequence  *)
(* of methods with their graphs.                                           *)
(***************************************************************************)
EXTENDS MethodAnalysis

-----------------------------------------------------------------------------
(* The loop of MethodSolver on bytecode, run to its end, as a value: what  *)
(* the loop over the methods calls analyze_method for.                     *)

(* Mutation: a block is queued only when it is first reached.              *)
ReceiveFirst(s, send, h) ==
    LET known == send.target \in DOMAIN s.incoming
        merged == IF known THEN MergeFrame(s.incoming[send.target], send.frame, h)
                           ELSE send.frame
    IN  [s EXCEPT !.incoming = [b \in DOMAIN @ \cup {send.target} |->
                                   IF b = send.target THEN merged ELSE @[b]],
                  !.queue = IF known THEN @ ELSE Append(@, send.target)]

(* merge_frame and Worklist::enqueue on one state of the loop.             *)
Receive(s, send, h) ==
    LET known == send.target \in DOMAIN s.incoming
        mismatch == known /\ HeightMismatch(s.incoming[send.target], send.frame)
        replace(merged) ==
            LET changed == ~known \/ merged # s.incoming[send.target]
            IN  [s EXCEPT
                    !.incoming = [b \in DOMAIN @ \cup {send.target} |->
                                     IF b = send.target THEN merged ELSE @[b]],
                    !.queue = IF changed /\ send.target \notin Range(@)
                              THEN Append(@, send.target) ELSE @,
                    !.diagnostics = @ \cup (IF mismatch THEN {"StackHeightMismatch"} ELSE {})]
    IN  replace(IF known THEN MergeFrame(s.incoming[send.target], send.frame, h)
                         ELSE send.frame)

RECURSIVE SolveFrom(_, _, _, _)
SolveFrom(method, env, config, s) ==
    LET b == Head(s.queue)
        popped == [s EXCEPT !.queue = Tail(@), !.total = @ + 1, !.visits[b] = @ + 1]
        limited == [popped EXCEPT !.complete = FALSE,
                                  !.diagnostics = @ \cup {"AnalysisLimitReached"}]
        visited == [popped EXCEPT
                       !.diagnostics = @ \cup BlockReports(method, b, s.incoming[b], env)]
    IN  IF s.queue = <<>> THEN s
        ELSE IF ~config.unbounded /\ popped.total > config.maxWorkItems THEN limited
        ELSE IF ~config.unbounded /\ popped.visits[b] > config.maxBlockIterations
             THEN SolveFrom(method, env, config, limited)
        ELSE SolveFrom(method, env, config,
                 FoldLeft(LAMBDA acc, send : Receive(acc, send, env.hierarchy), visited,
                          BlockPropagations(method, b, s.incoming[b], env)))

SolveFrames(method, env, config) ==
    LET entry == IF method.code = <<>> THEN {} ELSE {FirstOffset}
    IN  SolveFrom(method, env, config,
            [incoming |-> [b \in entry |-> EntryFrame(method)],
             queue |-> SetToSeq(entry), total |-> 0,
             visits |-> [b \in DOMAIN method.graph |-> 0],
             complete |-> TRUE, diagnostics |-> CfgDiagnostics(method)])

AnalyzeMethod(method, env, config) ==
    LET concluded(solved) ==
            Concluded(method, env, solved, Observations(method, solved.incoming, env))
    IN  concluded(SolveFrames(method, env, config))

-----------------------------------------------------------------------------
(* The methods of a class and what they use.                               *)

LocalMethods(class) == DOMAIN class.methods
MethodKeys(class) == {MethodKey(class.methods[m]) : m \in LocalMethods(class)}

(* Of methods with one name and descriptor, the map has the last.          *)
LocalMethodIndex(class, key) ==
    CHOOSE m \in LocalMethods(class) :
        /\ MethodKey(class.methods[m]) = key
        /\ \A k \in LocalMethods(class) : MethodKey(class.methods[k]) = key => k <= m

(* A call that a summary may answer: a virtual one is taken to be, since   *)
(* only the frame tells whether its receiver is exact.                     *)
CallsLocal(class, i, key) ==
    /\ i.op \in {"invokevirtual", "invokespecial", "invokestatic"}
    /\ i.member # Unresolved
    /\ i.member.owner = class.name
    /\ i.member = key

(* Mutation: a caller is only one that calls virtually.                    *)
VirtualCallers(class, m) ==
    SelectSeq([k \in LocalMethods(class) |-> k], LAMBDA k :
        \E i \in Range(class.methods[k].code) :
            i.op = "invokevirtual" /\ CallsLocal(class, i, MethodKey(class.methods[m])))

LocalCallers(class, m) ==
    LET key == MethodKey(class.methods[m])
        calls(k) == \E i \in Range(class.methods[k].code) : CallsLocal(class, i, key)
    IN  IF LocalMethodIndex(class, key) # m THEN <<>>
        ELSE SelectSeq([k \in LocalMethods(class) |-> k], calls)

ReadsLocal(class, i, key) ==
    i.op = "getstatic" /\ i.member # Unresolved /\ i.member.owner = class.name /\ i.member = key

LocalReaders(class, key) ==
    SelectSeq([k \in LocalMethods(class) |-> k], LAMBDA k :
        \E i \in Range(class.methods[k].code) : ReadsLocal(class, i, key))

LocalFields(class) ==
    {i.member : i \in {i \in UNION {Range(class.methods[m].code) : m \in LocalMethods(class)} :
                         i.op \in {"getstatic", "putstatic"} /\ i.member # Unresolved
                         /\ i.member.owner = class.name}}

-----------------------------------------------------------------------------
(* The resolvers that one analyze_method is given: env is an environment   *)
(* of module ClassSummaries, external what is supplied from outside.       *)
ResolverEnvironment(class, env, external) ==
    [owner |-> class.name, classFinal |-> class.final, finalMethods |-> class.finalMethods,
     supplied |-> external.supplied, suppliedFields |-> external.suppliedFields,
     batch |-> external.batch, hierarchy |-> external.hierarchy,
     returns |-> [key \in MethodKeys(class) |-> env.returns[LocalMethodIndex(class, key)]],
     parameters |-> [key \in MethodKeys(class) |-> env.parameters[LocalMethodIndex(class, key)]],
     fields |-> env.fields]

AnalysisOf(class, m, env, external, config) ==
    LET all(result) ==
            [ret |-> result.ret, param |-> result.param, diagnostics |-> result.diagnostics,
             puts |-> [f \in LocalFields(class) |-> Lookup(result.puts, f)]]
    IN  all(AnalyzeMethod(class.methods[m], ResolverEnvironment(class, env, external), config))
=============================================================================
