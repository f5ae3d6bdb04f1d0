-------------------------- MODULE MCClassSummaries --------------------------
(***************************************************************************)
(* Classes of three methods: every way each of them can call none, one or  *)
(* two of them.  A method returns the greatest of its own value and of     *)
(* what it calls and reads, taking the greatest for whatever is unknown;   *)
(* it returns its parameter when all it calls do.  Method 1 assigns two    *)
(* static fields: what it computes to F, and that to G only when it is not *)
(* the greatest.                                                           *)
(***************************************************************************)
EXTENDS ClassSummaries, FiniteSets, SequencesExt

Three == 1..3
None == -1
Greatest == 1
CallSets == {{}, {2}, {3}, {2, 3}, {1, 3}}
MCClasses == [calls : [Three -> CallSets], reads : {{2}, {1, 3}}]
Base == <<0, 0, 1>>

Ascending(S) == SelectSeq(<<1, 2, 3>>, LAMBDA m : m \in S)
MCMethodCount(c) == 3
MCCallers(c, m) == Ascending({k \in Three : m \in c.calls[k]})
MCFields(c) == {"F", "G"}
ReadersOf(c, f) == IF f = "F" THEN c.reads ELSE {3}
MCReaders(c, f) == Ascending(ReadersOf(c, f))

Known(value) == IF value = None THEN Greatest ELSE value
MCAnalysis(c, m, env) ==
    LET seen == {Base[m]} \cup {Known(env.returns[k]) : k \in c.calls[m]}
                \cup {Known(env.fields[f]) : f \in {f \in {"F", "G"} : m \in ReadersOf(c, f)}}
        ret == CHOOSE n \in seen : \A k \in seen : k <= n
    IN  [ret |-> IF m = 1 THEN None ELSE ret,
         param |-> IF \A k \in c.calls[m] : env.parameters[k] = 1 THEN 1 ELSE 0,
         puts |-> [f \in {"F", "G"} |->
                     IF m = 1 /\ (f = "G" => ret # Greatest) THEN ret ELSE None],
         diagnostics |-> IF m = 2 /\ ret = Greatest THEN {"UnsupportedInstruction"} ELSE {}]

MCLowered(c) == {}
MCConfigs ==
    {[unbounded |-> TRUE, maxWorkItems |-> 1, strict |-> FALSE],
     [unbounded |-> FALSE, maxWorkItems |-> 1, strict |-> FALSE],
     [unbounded |-> FALSE, maxWorkItems |-> 2, strict |-> TRUE]}
=============================================================================
