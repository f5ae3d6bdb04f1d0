-------------------------- MODULE MCBatchSummaries --------------------------
(***************************************************************************)
(* Batches of three classes, the first of two methods: every way each of   *)
(* the four methods can call one or two others.  A method returns the      *)
(* greatest of its own value and of what it calls, taking the greatest for *)
(* whatever is unknown, and its parameter when all it calls do; the method *)
(* of class 3 returns nothing at all when it finds the least.  A call to   *)
(* the class itself is answered by the loop inside the class.              *)
(***************************************************************************)
EXTENDS BatchSummaries, FiniteSets, SequencesExt

None == -1
Greatest == 1
Keys == {<<1, 1>>, <<1, 2>>, <<2, 1>>, <<3, 1>>}
Calls ==
    (<<1, 1>> :> {{}, {<<2, 1>>}, {<<3, 1>>}, {<<1, 2>>, <<2, 1>>}})
    @@ (<<1, 2>> :> {{}, {<<2, 1>>}, {<<1, 1>>, <<3, 1>>}})
    @@ (<<2, 1>> :> {{}, {<<1, 1>>}, {<<3, 1>>}, {<<1, 2>>, <<2, 1>>}})
    @@ (<<3, 1>> :> {{}, {<<1, 1>>}, {<<2, 1>>, <<3, 1>>}})
MCBatches == {b \in [Keys -> UNION {Calls[k] : k \in Keys}] : \A k \in Keys : b[k] \in Calls[k]}
Base(key) == IF key = <<2, 1>> THEN 1 ELSE 0

MCClassCount(b) == 3
MCMethodCount(b, c) == IF c = 1 THEN 2 ELSE 1
MCCallers(b, c, m) ==
    SelectSeq(<<1, 2, 3>>, LAMBDA d : \E key \in Keys : key[1] = d /\ <<c, m>> \in b[key])

Known(value) == IF value = None THEN Greatest ELSE value
CalledAbroad(b, key) == {k \in b[key] : k[1] # key[1]}

MCAnalysis(b, c, env) ==
    LET seen(m) == {Base(<<c, m>>)}
                   \cup {Known(env.returns[k[1]][k[2]]) : k \in CalledAbroad(b, <<c, m>>)}
        greatest(m) == IF Greatest \in seen(m) THEN Greatest ELSE 0
        forwards(m) == \A k \in CalledAbroad(b, <<c, m>>) :
                           env.parameters[k[1]][k[2]] = 1 /\ env.returns[k[1]][k[2]] # None
        silent(m) == c = 3 /\ greatest(m) # Greatest
        methods == 1..MCMethodCount(b, c)
    IN  [returns |-> [m \in methods |-> IF silent(m) THEN None ELSE greatest(m)],
         parameters |-> [m \in methods |-> IF ~silent(m) /\ forwards(m) THEN 1 ELSE 0],
         diagnostics |-> IF c = 1 /\ greatest(2) = Greatest THEN {"UnsupportedInstruction"} ELSE {}]

MCConfigs ==
    {[unbounded |-> TRUE, maxWorkItems |-> 1, strict |-> FALSE],
     [unbounded |-> FALSE, maxWorkItems |-> 1, strict |-> FALSE],
     [unbounded |-> FALSE, maxWorkItems |-> 2, strict |-> TRUE]}
=============================================================================
