--------------------------- MODULE MCMethodSolver ---------------------------
(***************************************************************************)
(* The worklist loop on every control-flow graph of three blocks with at   *)
(* most two edges each.  A state is a set of facts; an edge adds the fact  *)
(* named after the block it leaves, and the second edge of block 2 is      *)
(* feasible only once fact 3 has arrived, as a nullness branch becomes     *)
(* feasible when its operand stops being known.                            *)
(***************************************************************************)
EXTENDS MethodSolver, FiniteSets

GraphBlocks == 1..3
MCFrames == SUBSET GraphBlocks

Edges == {<<>>} \cup {<<t>> : t \in GraphBlocks} \cup (GraphBlocks \X GraphBlocks)
MCMethods == [GraphBlocks -> Edges] \cup {<<>>}    \* and a method without code

MCConfigs ==
    {[unbounded |-> TRUE, maxWorkItems |-> 0, maxBlockIterations |-> 0],
     [unbounded |-> FALSE, maxWorkItems |-> 3, maxBlockIterations |-> 9],
     [unbounded |-> FALSE, maxWorkItems |-> 9, maxBlockIterations |-> 1]}

MCBlocks(m) == DOMAIN m
MCEntryBlock(m) == 1
MCEntryState(m) == {}

Feasible(b, n, f) == b = 2 /\ n = 2 => 3 \in f
MCPropagations(m, b, f) ==
    LET sends(n) == IF n \in DOMAIN m[b] /\ Feasible(b, n, f)
                    THEN <<[target |-> m[b][n], frame |-> f \cup {b}]>> ELSE <<>>
    IN  sends(1) \o sends(2)
MCReports(m, b, f) == IF b = 3 /\ 2 \in f THEN {"StackUnderflow"} ELSE {}
MCMerge(a, b) == a \cup b
MCMismatch(a, b) == (3 \in a) # (3 \in b)
MCCovers(a, b) == b \subseteq a
=============================================================================
