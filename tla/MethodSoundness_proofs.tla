------------------------ MODULE MethodSoundness_proofs ------------------------
(***************************************************************************)
(* The analysis of a method and its runs, for every method, class world,   *)
(* hierarchy that is right about it and limits: what the worklist loop     *)
(* ends with is closed (lemma EndedIsClosed), and so, by the theorems of   *)
(* MethodRuns_proofs, describes all runs.                                  *)
(*                                                                         *)
(* The loop takes frames that are typed; that the transfer keeps them so   *)
(* is shown for frames with the origins of any set (lemma TransferIn),     *)
(* which with all origins is their type, and with the origins given        *)
(* elsewhere that an origin is new where it is given.                      *)
(***************************************************************************)
EXTENDS MethodSoundness, MethodRuns_proofs

-----------------------------------------------------------------------------
(* Recursive functions over sequences.                                     *)

LEMMA AppendedSeq ==
    ASSUME NEW S, NEW acc \in Seq(S), NEW x \in S
    PROVE  Append(acc, x) \in Seq(S) /\ Range(Append(acc, x)) = Range(acc) \cup {x}
<1>1. /\ Append(acc, x) \in Seq(S)
      /\ DOMAIN Append(acc, x) = 1..(Len(acc) + 1) /\ DOMAIN acc = 1..Len(acc)
      /\ Len(acc) \in Nat
      /\ \A k \in 1..Len(acc) : Append(acc, x)[k] = acc[k]
      /\ Append(acc, x)[Len(acc) + 1] = x
  OBVIOUS
<1>2. 1..(Len(acc) + 1) = 1..Len(acc) \cup {Len(acc) + 1}
  BY <1>1
<1> QED BY <1>1, <1>2 DEF Range

LEMMA JoinedSeq ==
    ASSUME NEW S, NEW a \in Seq(S), NEW b \in Seq(S)
    PROVE  a \o b \in Seq(S) /\ Range(a \o b) = Range(a) \cup Range(b)
<1>1. /\ a \o b \in Seq(S)
      /\ DOMAIN (a \o b) = 1..(Len(a) + Len(b))
      /\ DOMAIN a = 1..Len(a) /\ DOMAIN b = 1..Len(b)
      /\ Len(a) \in Nat /\ Len(b) \in Nat
      /\ \A k \in 1..Len(a) : (a \o b)[k] = a[k]
      /\ \A k \in 1..Len(b) : (a \o b)[Len(a) + k] = b[k]
  OBVIOUS
<1>2. \A k \in 1..(Len(a) + Len(b)) :
         k \in 1..Len(a) \/ (k - Len(a) \in 1..Len(b) /\ k = Len(a) + (k - Len(a)))
  BY <1>1
<1>3. ASSUME NEW k \in DOMAIN (a \o b) PROVE (a \o b)[k] \in Range(a) \cup Range(b)
  <2>1. CASE k \in 1..Len(a)
    BY <1>1, <2>1 DEF Range
  <2>2. CASE k - Len(a) \in 1..Len(b) /\ k = Len(a) + (k - Len(a))
    <3>1. (a \o b)[k] = b[k - Len(a)]
      BY <1>1, <2>2
    <3> QED BY <1>1, <2>2, <3>1 DEF Range
  <2> QED BY <1>1, <1>2, <2>1, <2>2
<1>4. \A k \in 1..Len(a) : k \in DOMAIN (a \o b)
  BY <1>1
<1>5. \A k \in 1..Len(b) : Len(a) + k \in DOMAIN (a \o b)
  BY <1>1
<1> QED BY <1>1, <1>3, <1>4, <1>5 DEF Range

(* Sequences that each hold the one before and something more.             *)
Gathers(f, S, d, held) ==
    /\ f[0] = <<>>
    /\ \A n \in 0..(d - 1) : f[n] \in Seq(S) =>
          f[n + 1] \in Seq(S) /\ Range(f[n + 1]) = Range(f[n]) \cup held[n + 1]

LEMMA Gathered ==
    ASSUME NEW S, NEW d \in Nat, NEW held, NEW f, Gathers(f, S, d, held)
    PROVE  f[d] \in Seq(S) /\ Range(f[d]) = UNION {held[n] : n \in 1..d}
<1> DEFINE T == {n \in 0..d : f[n] \in Seq(S) /\ Range(f[n]) = UNION {held[k] : k \in 1..n}}
<1>1. 0 \in T
  <2>1. Range(<<>>) = {} /\ <<>> \in Seq(S)
    BY DEF Range
  <2>2. UNION {held[k] : k \in 1..0} = {}
    OBVIOUS
  <2>3. f[0] \in Seq(S) /\ Range(f[0]) = UNION {held[k] : k \in 1..0}
    BY <2>1, <2>2, Zenon DEF Gathers
  <2>4. 0 \in 0..d
    OBVIOUS
  <2> QED BY <2>3, <2>4, Zenon
<1>2. ASSUME NEW n \in 0..(d - 1), n \in T PROVE n + 1 \in T
  <2>1. n + 1 \in 1..d /\ n + 1 \in 0..d /\ n + 1 - 1 = n
    OBVIOUS
  <2>2. f[n] \in Seq(S) /\ Range(f[n]) = UNION {held[k] : k \in 1..n}
    BY <1>2
  <2>3. f[n + 1] \in Seq(S) /\ Range(f[n + 1]) = Range(f[n]) \cup held[n + 1]
    BY <2>2, Zenon DEF Gathers
  <2>4. 1..(n + 1) = 1..n \cup {n + 1}
    OBVIOUS
  <2>5. UNION {held[k] : k \in 1..(n + 1)} = (UNION {held[k] : k \in 1..n}) \cup held[n + 1]
    BY <2>4
  <2> QED BY <2>1, <2>2, <2>3, <2>5
<1> HIDE DEF T
<1>3. 0..d \subseteq T
  BY <1>1, <1>2, InductionUpTo, Zenon
<1> QED BY <1>3 DEF T

LEMMA PickedSeq ==
    ASSUME NEW S, NEW s \in Seq(S), NEW places
    PROVE  /\ Picked(s, places) \in Seq(S)
           /\ Range(Picked(s, places)) = {s[n] : n \in DOMAIN s \cap places}
<1> DEFINE d == Len(s)
           next(acc, n) == IF n \in places THEN Append(acc, s[n]) ELSE acc
           step == [x \in Nat \X Seq(S) |-> IF x[1] \in 1..d THEN next(x[2], x[1]) ELSE x[2]]
           held == [n \in 1..d |-> IF n \in places THEN {s[n]} ELSE {}]
           Is(f) == f = [n \in 0..d |-> IF n = 0 THEN <<>>
                            ELSE IF n \in places THEN Append(f[n - 1], s[n]) ELSE f[n - 1]]
           picked == CHOOSE f : Is(f)
<1>1. d \in Nat /\ DOMAIN s = 1..d /\ \A n \in 1..d : s[n] \in S
  OBVIOUS
<1>2. Picked(s, places) = picked[d]
  BY DEF Picked
<1> HIDE DEF d
<1>3. ASSUME NEW acc \in Seq(S), NEW n \in 1..d
      PROVE  next(acc, n) \in Seq(S) /\ Range(next(acc, n)) = Range(acc) \cup held[n]
  BY <1>1, AppendedSeq
<1>4. step \in [Nat \X Seq(S) -> Seq(S)]
  <2> HIDE DEF next
  <2> QED BY <1>3
<1>5. Is(picked)
  <2>1. PICK f : Iterates(f, Seq(S), <<>>, step, d)
    <3> HIDE DEF step
    <3>1. <<>> \in Seq(S)
      OBVIOUS
    <3> QED BY <1>1, <1>4, <3>1, Iteration
  <2>2. /\ f \in [0..d -> Seq(S)] /\ f[0] = <<>>
        /\ \A n \in 1..d : f[n] = step[<<n, f[n - 1]>>]
    <3> HIDE DEF step
    <3> QED BY <2>1 DEF Iterates
  <2>3. ASSUME NEW n \in 1..d PROVE f[n] = next(f[n - 1], n)
    <3> HIDE DEF next
    <3>1. n \in Nat /\ n - 1 \in 0..d
      BY <1>1
    <3>2. <<n, f[n - 1]>> \in Nat \X Seq(S)
      BY <2>2, <3>1
    <3>3. step[<<n, f[n - 1]>>] = next(f[n - 1], n)
      BY <3>2
    <3> HIDE DEF step
    <3> QED BY <2>2, <3>3
  <2>4. Is(f)
    <3> HIDE DEF step
    <3>1. \A n \in 0..d : n # 0 => n \in 1..d
      BY <1>1
    <3>2. \A n \in 0..d : f[n] = IF n = 0 THEN <<>>
              ELSE IF n \in places THEN Append(f[n - 1], s[n]) ELSE f[n - 1]
      BY <2>2, <2>3, <3>1
    <3> QED BY <2>2, <3>2
  <2> HIDE DEF Is
  <2> QED BY <2>4
<1> HIDE DEF picked
<1>6. picked[0] = <<>>
  BY <1>1, <1>5
<1>7. ASSUME NEW n \in 1..d PROVE picked[n] = next(picked[n - 1], n)
  <2>1. n \in 0..d /\ n # 0
    BY <1>1
  <2> QED BY <1>5, <2>1
<1>8. picked[d] \in Seq(S) /\ Range(picked[d]) = UNION {held[n] : n \in 1..d}
  <2> HIDE DEF next, held, Is, step
  <2>1. ASSUME NEW n \in 0..(d - 1), picked[n] \in Seq(S)
        PROVE  /\ picked[n + 1] \in Seq(S)
               /\ Range(picked[n + 1]) = Range(picked[n]) \cup held[n + 1]
    <3>1. n + 1 \in 1..d /\ n + 1 - 1 = n
      BY <1>1
    <3>2. picked[n + 1] = next(picked[n], n + 1)
      BY <1>7, <3>1
    <3> QED BY <1>3, <2>1, <3>1, <3>2
  <2>2. Gathers(picked, S, d, held)
    BY <1>6, <2>1 DEF Gathers
  <2> QED BY <1>1, <2>2, Gathered
<1>9. UNION {held[n] : n \in 1..d} = {s[n] : n \in DOMAIN s \cap places}
  BY <1>1
<1> QED BY <1>2, <1>8, <1>9

(* The first of equal members stays, so none is lost.                      *)
LEMMA WithoutRepeatsSeq ==
    ASSUME NEW S, NEW s \in Seq(S)
    PROVE  WithoutRepeats(s) \in Seq(S) /\ Range(WithoutRepeats(s)) = Range(s)
<1> DEFINE firsts == {n \in DOMAIN s : \A earlier \in 1..(n - 1) : s[earlier] # s[n]}
<1>1. WithoutRepeats(s) = Picked(s, firsts)
  BY DEF WithoutRepeats
<1>2. WithoutRepeats(s) \in Seq(S) /\ Range(WithoutRepeats(s)) = {s[n] : n \in DOMAIN s \cap firsts}
  <2> HIDE DEF firsts
  <2> QED BY <1>1, PickedSeq
<1>3. ASSUME NEW n \in DOMAIN s PROVE \E k \in firsts : s[k] = s[n]
  <2> DEFINE T == {k \in DOMAIN s : s[k] = s[n]}
  <2>1. DOMAIN s = 1..Len(s) /\ Len(s) \in Nat
    OBVIOUS
  <2>2. PICK k \in T : \A j \in T : k <= j
    <3>1. T \subseteq Nat /\ T # {}
      BY <2>1
    <3> HIDE DEF T
    <3> QED BY <3>1, LeastNumber
  <2>3. \A earlier \in 1..(k - 1) : earlier \in DOMAIN s /\ earlier \notin T
    BY <2>1, <2>2
  <2> QED BY <2>2, <2>3
<1>4. {s[n] : n \in DOMAIN s \cap firsts} = Range(s)
  <2>1. firsts \subseteq DOMAIN s
    OBVIOUS
  <2> HIDE DEF firsts
  <2> QED BY <1>3, <2>1 DEF Range
<1> QED BY <1>2, <1>4

-----------------------------------------------------------------------------
(* The graph of a method.                                                  *)

LEMMA GraphIs ==
    ASSUME NEW m \in Methods
    PROVE  \A b \in BlockStarts(m) :
              /\ m.graph[b].last = BlockEnd(m, b)
              /\ m.graph[b].successors = Successors(m, b)
              /\ m.graph[b].exceptions = ExceptionSuccessors(m, b)
<1>1. m.graph = BuildCfg(m)
  BY GraphsAssumption
<1>2. ASSUME NEW b \in BlockStarts(m)
      PROVE  BuildCfg(m)[b] = [last |-> BlockEnd(m, b),
                               successors |-> Successors(m, b),
                               exceptions |-> ExceptionSuccessors(m, b)]
  BY DEF BuildCfg
<1>3. ASSUME NEW b \in BlockStarts(m)
      PROVE  /\ BuildCfg(m)[b].last = BlockEnd(m, b)
             /\ BuildCfg(m)[b].successors = Successors(m, b)
             /\ BuildCfg(m)[b].exceptions = ExceptionSuccessors(m, b)
  <2> DEFINE l == BlockEnd(m, b)
             s == Successors(m, b)
             x == ExceptionSuccessors(m, b)
             g == BuildCfg(m)[b]
  <2>1. g = [last |-> l, successors |-> s, exceptions |-> x]
    BY <1>2
  <2> HIDE DEF l, s, x, g
  <2>2. g.last = l /\ g.successors = s /\ g.exceptions = x
    BY <2>1
  <2> QED BY <2>2 DEF l, s, x, g
<1> QED BY <1>1, <1>3, Zenon

LEMMA CodeParts ==
    ASSUME NEW m \in Methods
    PROVE  /\ Len(m.code) \in Nat /\ DOMAIN m.code = 1..Len(m.code)
           /\ Offsets(m) = 1..Len(m.code)
           /\ DOMAIN m.graph = BlockStarts(m)
           /\ DOMAIN m.graph \subseteq 1..Len(m.code)
           /\ m.code # <<>> => FirstOffset \in DOMAIN m.graph
<1>1. m.code \in Seq(Range(m.code))
  BY MethodsAssumption
<1>2. Len(m.code) \in Nat /\ DOMAIN m.code = 1..Len(m.code)
  BY <1>1
<1>3. DOMAIN m.graph = BlockStarts(m)
  BY GraphsAssumption DEF BuildCfg
<1>4. BlockStarts(m) \subseteq Offsets(m)
  BY DEF BlockStarts
<1>5. m.code # <<>> => 1 \in 1..Len(m.code)
  BY <1>1, <1>2
<1>6. FirstOffset \in Offsets(m) => FirstOffset \in BlockStarts(m)
  BY DEF BlockStarts
<1> QED BY <1>2, <1>3, <1>4, <1>5, <1>6 DEF Offsets, FirstOffset

(* Whatever follows the end of a block starts one.                         *)
LEMMA StartsThere ==
    ASSUME NEW m \in Methods, NEW at \in DOMAIN m.code, EndsBlock(m.code[at].op), at < Len(m.code)
    PROVE  at + 1 \in DOMAIN m.graph
<1>1. at + 1 \in Offsets(m)
  BY CodeParts
<1>2. at + 1 \in {n + 1 : n \in {k \in DOMAIN m.code : EndsBlock(m.code[k].op)}}
  OBVIOUS
<1>3. at + 1 \in BlockStarts(m)
  BY <1>1, <1>2 DEF BlockStarts
<1> QED BY <1>3, CodeParts

LEMMA BlockParts ==
    ASSUME NEW m \in Methods, NEW b \in DOMAIN m.graph
    PROVE  /\ m.graph[b].last \in b..Len(m.code)
           /\ \A at \in (b + 1)..m.graph[b].last : at \notin DOMAIN m.graph
           /\ \A at \in b..(m.graph[b].last - 1) : ~EndsBlock(m.code[at].op)
<1> DEFINE later == {n \in BlockStarts(m) : n > b}
           last == m.graph[b].last
           Ends(x) == x + 1 \in later /\ \A n \in later : x < n
<1>1. /\ Len(m.code) \in Nat /\ DOMAIN m.code = 1..Len(m.code) /\ Offsets(m) = 1..Len(m.code)
      /\ DOMAIN m.graph = BlockStarts(m) /\ BlockStarts(m) \subseteq 1..Len(m.code)
  BY CodeParts
<1>2. last = BlockEnd(m, b)
  BY <1>1, GraphIs
<1>3. CASE later = {}
  <2>1. last = Len(m.code)
    BY <1>2, <1>3 DEF BlockEnd
  <2>2. \A n \in DOMAIN m.graph : ~(n > b)
    BY <1>1, <1>3
  <2>3. last \in b..Len(m.code) /\ \A at \in (b + 1)..last : at \notin DOMAIN m.graph
    BY <1>1, <2>1, <2>2
  <2> QED BY <1>1, <2>1, <2>3, StartsThere
<1>4. CASE later # {}
  <2>1. PICK next \in later : \A n \in later : next <= n
    <3>1. later \subseteq Nat
      BY <1>1
    <3> HIDE DEF later
    <3> QED BY <1>4, <3>1, LeastNumber
  <2>2. next - 1 \in Offsets(m) /\ Ends(next - 1)
    BY <1>1, <2>1
  <2>3. last = CHOOSE x \in Offsets(m) : Ends(x)
    BY <1>2, <1>4 DEF BlockEnd
  <2>4. last \in Offsets(m) /\ Ends(last)
    <3> HIDE DEF Ends, last
    <3> QED BY <2>2, <2>3
  <2>5. last \in b..Len(m.code) /\ \A at \in (b + 1)..last : at \notin DOMAIN m.graph
    BY <1>1, <2>4
  <2>6. ASSUME NEW at \in b..(last - 1) PROVE ~EndsBlock(m.code[at].op)
    <3>1. at \in DOMAIN m.code /\ at < Len(m.code) /\ at + 1 \in (b + 1)..last
      BY <1>1, <2>5
    <3> QED BY <2>5, <3>1, StartsThere
  <2> QED BY <2>5, <2>6
<1> QED BY <1>3, <1>4

(* Every instruction is in at most one block.                              *)
LEMMA BlocksAreDisjoint ==
    ASSUME NEW m \in Methods, NEW b \in DOMAIN m.graph, NEW c \in DOMAIN m.graph,
           NEW at \in b..m.graph[b].last, at \in c..m.graph[c].last
    PROVE  b = c
<1>1. b \in Nat /\ c \in Nat /\ m.graph[b].last \in Nat /\ m.graph[c].last \in Nat /\ at \in Nat
  BY CodeParts, BlockParts
<1>2. b \notin (c + 1)..m.graph[c].last /\ c \notin (b + 1)..m.graph[b].last
  BY BlockParts
<1> QED BY <1>1, <1>2

LEMMA RangeSeq ==
    ASSUME NEW S, NEW s \in Seq(S)
    PROVE  s \in Seq(Range(s)) /\ Range(s) \subseteq S
BY DEF Range

(* An instruction that ends no block goes on to the next.                  *)
LEMMA InsideBlock ==
    ASSUME NEW m \in Methods, NEW at \in DOMAIN m.code, ~EndsBlock(m.code[at].op)
    PROVE  /\ OrdinarySuccessors(m, at) = FallThrough(m, at)
           /\ m.code[at].op \notin ConditionOps \cup {"ret"}
BY DEF EndsBlock, OrdinarySuccessors, TerminatesExecution

LEMMA EdgesOf ==
    \A e :
        /\ <<e>> \in Seq(Range(<<e>>)) /\ Range(<<e>>) = {e}
        /\ <<>> \in Seq(Range(<<>>)) /\ Range(<<>>) = {}
<1> TAKE e
<1>1. Range(<<e>>) = {e}
  BY DEF Range
<1>2. Range(<<>>) = {}
  BY DEF Range
<1> QED BY <1>1, <1>2

LEMMA OrdinarySuccessorsSeq ==
    ASSUME NEW m \in Methods, NEW at \in DOMAIN m.code
    PROVE  /\ OrdinarySuccessors(m, at) \in Seq(Range(OrdinarySuccessors(m, at)))
           /\ \A e \in Range(OrdinarySuccessors(m, at)) :
                 /\ e = Edge(e.kind, e.target)
                 /\ \/ e.target \in Range(InstructionTargets(m.code[at]))
                    \/ at < Len(m.code) /\ e = Edge("fallThrough", at + 1)
<1> DEFINE i == m.code[at]
           o == OrdinarySuccessors(m, at)
           on == Edge("fallThrough", at + 1)
           branch == Edge("branch", i.target)
<1>1. \A kind, target : Edge(kind, target).kind = kind /\ Edge(kind, target).target = target
  BY DEF Edge
<1>2. CASE i.op \in SwitchOps
  <2>1. o = [n \in DOMAIN i.targets |-> Edge("switch", i.targets[n])]
    BY <1>2 DEF OrdinarySuccessors, SwitchOps, ConditionOps, CompareOps, Edge, FallThrough,
               TerminatesExecution, ValueReturnOps
  <2>2. InstructionTargets(i) = i.targets
    BY <1>2 DEF InstructionTargets
  <2>3. i.targets \in Seq(Range(i.targets))
    BY <1>2, LiteralsAssumption DEF Literals
  <2>4. DOMAIN i.targets = 1..Len(i.targets) /\ Len(i.targets) \in Nat
    BY <2>3
  <2> HIDE DEF i
  <2>5. o \in Seq(Range(o))
    <3>1. \A n \in 1..Len(i.targets) : Edge("switch", i.targets[n]) \in Range(o)
      BY <2>1, <2>4 DEF Range
    <3> HIDE DEF o
    <3> QED BY <2>1, <2>4, <3>1
  <2>6. \A e \in Range(o) : \E n \in DOMAIN i.targets : e = Edge("switch", i.targets[n])
    BY <2>1 DEF Range
  <2> HIDE DEF o
  <2>7. \A n \in DOMAIN i.targets : i.targets[n] \in Range(i.targets)
    BY DEF Range
  <2> QED BY <1>1, <2>2, <2>5, <2>6, <2>7 DEF i, o
<1>3. ASSUME i.op \notin SwitchOps
      PROVE  \/ o = <<>>
             \/ o = FallThrough(m, at)
             \/ InstructionTargets(i) = <<i.target>> /\ o \in {<<branch>>, <<branch>> \o FallThrough(m, at)}
  <2>1. CASE i.op \in {"goto", "jsr"}
    BY <1>3, <2>1 DEF OrdinarySuccessors, InstructionTargets
  <2>2. CASE i.op \in ConditionOps \cup CompareOps
    BY <1>3, <2>2 DEF OrdinarySuccessors, InstructionTargets, ConditionOps, CompareOps
  <2>3. CASE i.op \notin {"goto", "jsr"} /\ i.op \notin ConditionOps \cup CompareOps
    BY <1>3, <2>3 DEF OrdinarySuccessors
  <2> QED BY <2>1, <2>2, <2>3
<1>4. FallThrough(m, at) = <<>> \/ (at < Len(m.code) /\ FallThrough(m, at) = <<on>>)
  BY DEF FallThrough
<1>5. CASE i.op \notin SwitchOps
  <2> DEFINE alone == <<branch>>
             more == FallThrough(m, at)
             S == {branch, on}
  <2>1. InstructionTargets(i) = <<i.target>> => i.target \in Range(InstructionTargets(i))
    BY EdgesOf
  <2>2. /\ alone \in Seq(S) /\ Range(alone) = {branch}
        /\ more \in Seq(S) /\ Range(more) \subseteq {on}
        /\ on \in Range(more) => at < Len(m.code)
    <3> HIDE DEF branch, on
    <3>1. alone \in Seq(S) /\ <<on>> \in Seq(S) /\ <<>> \in Seq(S)
      OBVIOUS
    <3>2. Range(alone) = {branch} /\ Range(<<on>>) = {on} /\ Range(<<>>) = {}
      BY EdgesOf, Zenon
    <3> QED BY <1>4, <3>1, <3>2
  <2>3. \/ o = <<>>
        \/ o = more
        \/ InstructionTargets(i) = <<i.target>> /\ o \in {alone, alone \o more}
    BY <1>3, <1>5
  <2>4. alone \o more \in Seq(S) /\ Range(alone \o more) = Range(alone) \cup Range(more)
    <3> HIDE DEF alone, more, S
    <3> QED BY <2>2, JoinedSeq
  <2>5. <<>> \in Seq(S) /\ Range(<<>>) = {}
    <3> HIDE DEF S
    <3> QED BY EdgesOf
  <2>6. branch = Edge(branch.kind, branch.target) /\ on = Edge(on.kind, on.target)
        /\ branch.target = i.target
    BY <1>1
  <2> HIDE DEF o, i, on, branch, alone, more
  <2>7. /\ o \in Seq(S)
        /\ \A x \in Range(o) : \/ x = on /\ at < Len(m.code)
                               \/ x = branch /\ InstructionTargets(i) = <<i.target>>
    BY <2>2, <2>3, <2>4, <2>5
  <2>8. o \in Seq(Range(o))
    <3> HIDE DEF S
    <3> QED BY <2>7, RangeSeq
  <2> QED BY <2>1, <2>6, <2>7, <2>8 DEF o, i, on
<1> QED BY <1>2, <1>5

(* An end of a block that is not the end of the code has a block behind it. *)
LEMMA BlockBehind ==
    ASSUME NEW m \in Methods, NEW b \in DOMAIN m.graph, m.graph[b].last < Len(m.code)
    PROVE  m.graph[b].last + 1 \in DOMAIN m.graph
<1> DEFINE later == {n \in BlockStarts(m) : n > b}
           last == m.graph[b].last
           Ends(x) == x + 1 \in later /\ \A n \in later : x < n
<1>1. /\ Len(m.code) \in Nat /\ DOMAIN m.code = 1..Len(m.code) /\ Offsets(m) = 1..Len(m.code)
      /\ DOMAIN m.graph = BlockStarts(m) /\ BlockStarts(m) \subseteq 1..Len(m.code)
  BY CodeParts
<1>2. last = BlockEnd(m, b)
  BY <1>1, GraphIs
<1>3. later # {}
  <2>1. ASSUME later = {} PROVE FALSE
    <3>1. last = Len(m.code)
      BY <1>2, <2>1 DEF BlockEnd
    <3> QED BY <1>1, <3>1
  <2> QED BY <2>1
<1>4. PICK next \in later : \A n \in later : next <= n
  <2>1. later \subseteq Nat
    BY <1>1
  <2> HIDE DEF later
  <2> QED BY <1>3, <2>1, LeastNumber
<1>5. next - 1 \in Offsets(m) /\ Ends(next - 1)
  BY <1>1, <1>4
<1>6. last = CHOOSE x \in Offsets(m) : Ends(x)
  BY <1>2, <1>3 DEF BlockEnd
<1>7. Ends(last)
  <2> HIDE DEF Ends, last
  <2> QED BY <1>5, <1>6
<1> QED BY <1>1, <1>7

LEMMA TargetsStartBlocks ==
    ASSUME NEW m \in Methods, NEW b \in DOMAIN m.graph, NEW at, at = m.graph[b].last,
           NEW e \in Range(OrdinarySuccessors(m, at)), e.target \in Offsets(m)
    PROVE  e.target \in DOMAIN m.graph
<1>1. at \in DOMAIN m.code /\ at \in Nat /\ b \in Nat /\ Len(m.code) \in Nat
  BY CodeParts, BlockParts
<1>2. CASE e.target \in Range(InstructionTargets(m.code[at]))
  <2>1. e.target \in BlockStarts(m)
    BY <1>1, <1>2 DEF BlockStarts
  <2> QED BY <2>1, CodeParts
<1>3. CASE at < Len(m.code) /\ e = Edge("fallThrough", at + 1)
  <2>1. e.target = at + 1
    BY <1>3 DEF Edge
  <2> QED BY <1>3, <2>1, BlockBehind
<1> QED BY <1>1, <1>2, <1>3, OrdinarySuccessorsSeq

LEMMA SuccessorParts ==
    ASSUME NEW m \in Methods, NEW b \in DOMAIN m.graph
    PROVE  /\ m.graph[b].successors \in Seq(Range(m.graph[b].successors))
           /\ Range(m.graph[b].successors) =
                 {e \in Range(OrdinarySuccessors(m, m.graph[b].last)) : e.target \in Offsets(m)}
           /\ \A e \in Range(m.graph[b].successors) : e.target \in DOMAIN m.graph
<1> DEFINE last == m.graph[b].last
           wanted == OrdinarySuccessors(m, last)
           there == {n \in DOMAIN wanted : wanted[n].target \in Offsets(m)}
           picked == Picked(wanted, there)
           S == Range(wanted)
<1>1. last = BlockEnd(m, b) /\ m.graph[b].successors = Successors(m, b)
  BY CodeParts, GraphIs
<1>2. m.graph[b].successors = WithoutRepeats(picked)
  BY <1>1 DEF Successors
<1>3. last \in DOMAIN m.code
  BY CodeParts, BlockParts
<1>4. wanted \in Seq(S)
  BY <1>3, OrdinarySuccessorsSeq
<1> HIDE DEF wanted, last
<1>5. picked \in Seq(S) /\ Range(picked) = {wanted[n] : n \in DOMAIN wanted \cap there}
  <2> HIDE DEF there, S
  <2> QED BY <1>4, PickedSeq
<1>6. {wanted[n] : n \in DOMAIN wanted \cap there} = {e \in S : e.target \in Offsets(m)}
  BY DEF Range
<1>7. /\ m.graph[b].successors \in Seq(S)
      /\ Range(m.graph[b].successors) = {e \in S : e.target \in Offsets(m)}
  <2> HIDE DEF picked, S, there
  <2> QED BY <1>2, <1>5, <1>6, WithoutRepeatsSeq
<1>8. m.graph[b].successors \in Seq(Range(m.graph[b].successors))
  <2> HIDE DEF S
  <2> QED BY <1>7, RangeSeq
<1> QED BY <1>7, <1>8, TargetsStartBlocks DEF wanted, last

(* The edges to the handlers that cover an instruction, as a set.          *)
ThrownTo(m, at) ==
    {[at |-> at, target |-> h.at, catchType |-> h.catchType] :
        h \in {x \in Range(m.handlers) : /\ MayThrow(m.code[at].op)
                                         /\ x.from <= at /\ at < x.to
                                         /\ x.at \in Offsets(m)}}

LEMMA ExceptionEdgesSeq ==
    ASSUME NEW m \in Methods, NEW at
    PROVE  /\ ExceptionEdges(m, at) \in Seq(ThrownTo(m, at))
           /\ Range(ExceptionEdges(m, at)) = ThrownTo(m, at)
<1> DEFINE hs == m.handlers
           places == {n \in DOMAIN hs : hs[n].from <= at /\ at < hs[n].to /\ hs[n].at \in Offsets(m)}
           live == IF MayThrow(m.code[at].op) THEN Picked(hs, places) ELSE <<>>
           edge(h) == [at |-> at, target |-> h.at, catchType |-> h.catchType]
           covering == {x \in Range(hs) : /\ MayThrow(m.code[at].op)
                                          /\ x.from <= at /\ at < x.to
                                          /\ x.at \in Offsets(m)}
<1>1. hs \in Seq(Range(hs))
  BY MethodsAssumption
<1>2. ExceptionEdges(m, at) = [n \in DOMAIN live |-> edge(live[n])]
  BY DEF ExceptionEdges
<1>3. Picked(hs, places) \in Seq(Range(hs)) /\ Range(Picked(hs, places)) = {hs[n] : n \in DOMAIN hs \cap places}
  <2> DEFINE S == Range(hs)
  <2> HIDE DEF hs, places, S
  <2>1. hs \in Seq(S)
    BY <1>1 DEF S
  <2> QED BY <2>1, PickedSeq DEF S
<1>4. live \in Seq(Range(hs)) /\ Range(live) = covering
  <2>1. CASE MayThrow(m.code[at].op)
    <3>1. {hs[n] : n \in DOMAIN hs \cap places} = covering
      BY <2>1 DEF Range
    <3> HIDE DEF hs, places, covering
    <3> QED BY <1>3, <2>1, <3>1
  <2>2. CASE ~MayThrow(m.code[at].op)
    <3>1. live = <<>> /\ covering = {}
      BY <2>2
    <3> HIDE DEF live, covering
    <3> QED BY <3>1, EdgesOf
  <2> QED BY <2>1, <2>2
<1>5. ThrownTo(m, at) = {edge(h) : h \in covering}
  BY DEF ThrownTo
<1> HIDE DEF live, edge, covering, hs
<1>6. DOMAIN live = 1..Len(live) /\ Len(live) \in Nat
  BY <1>4
<1>7. Range(ExceptionEdges(m, at)) = {edge(h) : h \in Range(live)}
  BY <1>2 DEF Range
<1>8. Range(ExceptionEdges(m, at)) = ThrownTo(m, at)
  BY <1>4, <1>5, <1>7
<1>9. \A n \in DOMAIN live : edge(live[n]) \in ThrownTo(m, at)
  BY <1>2, <1>8 DEF Range
<1> QED BY <1>2, <1>6, <1>8, <1>9

LEMMA ExceptionParts ==
    ASSUME NEW m \in Methods, NEW b \in DOMAIN m.graph
    PROVE  /\ m.graph[b].exceptions \in Seq(Range(m.graph[b].exceptions))
           /\ Range(m.graph[b].exceptions) = UNION {ThrownTo(m, at) : at \in b..m.graph[b].last}
           /\ \A x \in Range(m.graph[b].exceptions) : x.target \in DOMAIN m.graph
<1> DEFINE last == m.graph[b].last
           d == last - b + 1
           S == UNION {ThrownTo(m, at) : at \in b..last}
           next(acc, n) == acc \o ExceptionEdges(m, b + n - 1)
           step == [x \in Nat \X Seq(S) |-> IF x[1] \in 1..d THEN next(x[2], x[1]) ELSE x[2]]
           held == [n \in 1..d |-> ThrownTo(m, b + n - 1)]
           Is(f) == f = [n \in 0..d |-> IF n = 0 THEN <<>>
                                        ELSE f[n - 1] \o ExceptionEdges(m, b + n - 1)]
           edges == CHOOSE f : Is(f)
<1>1. last = BlockEnd(m, b) /\ m.graph[b].exceptions = ExceptionSuccessors(m, b)
  BY CodeParts, GraphIs
<1>2. m.graph[b].exceptions = WithoutRepeats(edges[d])
  BY <1>1 DEF ExceptionSuccessors
<1>3. last \in Nat /\ b \in Nat /\ b <= last
  BY CodeParts, BlockParts
<1> HIDE DEF last
<1>4. d \in Nat
  BY <1>3
<1>5. ASSUME NEW acc \in Seq(S), NEW n \in 1..d
      PROVE  next(acc, n) \in Seq(S) /\ Range(next(acc, n)) = Range(acc) \cup held[n]
  <2> DEFINE at == b + n - 1
             more == ExceptionEdges(m, at)
  <2>1. at \in b..last
    BY <1>3
  <2>2. ThrownTo(m, at) \subseteq S
    BY <2>1
  <2>3. more \in Seq(ThrownTo(m, at)) /\ Range(more) = ThrownTo(m, at)
    BY ExceptionEdgesSeq
  <2>4. held[n] = ThrownTo(m, at)
    OBVIOUS
  <2>5. next(acc, n) = acc \o more
    OBVIOUS
  <2> HIDE DEF more, at, S, next, held
  <2>6. more \in Seq(S)
    BY <2>2, <2>3
  <2> QED BY <2>3, <2>4, <2>5, <2>6, JoinedSeq
<1>6. step \in [Nat \X Seq(S) -> Seq(S)]
  <2> HIDE DEF next, S
  <2> QED BY <1>5
<1> HIDE DEF d
<1>7. Is(edges)
  <2>1. PICK f : Iterates(f, Seq(S), <<>>, step, d)
    <3>1. <<>> \in Seq(S)
      OBVIOUS
    <3> HIDE DEF step, S
    <3> QED BY <1>4, <1>6, <3>1, Iteration
  <2>2. /\ f \in [0..d -> Seq(S)] /\ f[0] = <<>>
        /\ \A n \in 1..d : f[n] = step[<<n, f[n - 1]>>]
    <3> HIDE DEF step, S
    <3> QED BY <2>1 DEF Iterates
  <2>3. ASSUME NEW n \in 1..d PROVE f[n] = next(f[n - 1], n)
    <3> HIDE DEF next, S
    <3>1. n \in Nat /\ n - 1 \in 0..d
      BY <1>4
    <3>2. <<n, f[n - 1]>> \in Nat \X Seq(S)
      BY <2>2, <3>1
    <3>3. step[<<n, f[n - 1]>>] = next(f[n - 1], n)
      BY <3>2
    <3> HIDE DEF step
    <3> QED BY <2>2, <3>3
  <2>4. Is(f)
    <3> HIDE DEF step, S
    <3>1. \A n \in 0..d : n # 0 => n \in 1..d
      BY <1>4
    <3>2. \A n \in 0..d : f[n] = IF n = 0 THEN <<>> ELSE f[n - 1] \o ExceptionEdges(m, b + n - 1)
      BY <2>2, <2>3, <3>1
    <3> QED BY <2>2, <3>2
  <2> HIDE DEF Is
  <2> QED BY <2>4
<1> HIDE DEF edges
<1>8. edges[0] = <<>>
  BY <1>4, <1>7
<1>9. ASSUME NEW n \in 1..d PROVE edges[n] = next(edges[n - 1], n)
  <2>1. n \in 0..d /\ n # 0
    BY <1>4
  <2> QED BY <1>7, <2>1
<1>10. edges[d] \in Seq(S) /\ Range(edges[d]) = UNION {held[n] : n \in 1..d}
  <2> HIDE DEF next, held, Is, step, S
  <2>1. ASSUME NEW n \in 0..(d - 1), edges[n] \in Seq(S)
        PROVE  /\ edges[n + 1] \in Seq(S)
               /\ Range(edges[n + 1]) = Range(edges[n]) \cup held[n + 1]
    <3>1. n + 1 \in 1..d /\ n + 1 - 1 = n
      BY <1>4
    <3>2. edges[n + 1] = next(edges[n], n + 1)
      BY <1>9, <3>1
    <3> QED BY <1>5, <2>1, <3>1, <3>2
  <2>2. Gathers(edges, S, d, held)
    BY <1>8, <2>1 DEF Gathers
  <2> QED BY <1>4, <2>2, Gathered
<1>11. UNION {held[n] : n \in 1..d} = S
  <2>1. ASSUME NEW at \in b..last PROVE at - b + 1 \in 1..d /\ held[at - b + 1] = ThrownTo(m, at)
    <3>1. at - b + 1 \in 1..d /\ b + (at - b + 1) - 1 = at
      BY <1>3 DEF d
    <3> QED BY <3>1
  <2>2. ASSUME NEW n \in 1..d PROVE b + n - 1 \in b..last /\ held[n] = ThrownTo(m, b + n - 1)
    BY <1>3 DEF d
  <2> HIDE DEF held
  <2> QED BY <2>1, <2>2
<1>12. m.graph[b].exceptions \in Seq(S) /\ Range(m.graph[b].exceptions) = S
  <2> HIDE DEF S, held
  <2> QED BY <1>2, <1>10, <1>11, WithoutRepeatsSeq
<1>13. ASSUME NEW at \in b..last, NEW x \in ThrownTo(m, at) PROVE x.target \in DOMAIN m.graph
  <2>1. PICK h \in Range(m.handlers) :
           h.at \in Offsets(m) /\ x = [at |-> at, target |-> h.at, catchType |-> h.catchType]
    BY DEF ThrownTo
  <2>2. x.target = h.at
    BY <2>1
  <2>3. h.at \in UNION {{y.from, y.to, y.at} : y \in Range(m.handlers)}
    OBVIOUS
  <2>4. h.at \in BlockStarts(m)
    BY <2>1, <2>3 DEF BlockStarts
  <2> QED BY <2>2, <2>4, CodeParts
<1> QED BY <1>12, <1>13 DEF last

-----------------------------------------------------------------------------
(* Frames with origins of a set only: what the operations make of them.    *)

LEMMA FrameWithParts ==
    ASSUME NEW O, NEW f \in FramesWith(O)
    PROVE  /\ f = [locals |-> f.locals, stack |-> f.stack]
           /\ f.stack \in Seq(SlotsWith(O)) /\ Len(f.stack) \in Nat
           /\ f.locals \in Seq(SlotsWith(O)) /\ Len(f.locals) \in Nat
BY DEF FramesWith

LEMMA FrameOfParts ==
    ASSUME NEW O, NEW locals \in Seq(SlotsWith(O)), NEW stack \in Seq(SlotsWith(O))
    PROVE  [locals |-> locals, stack |-> stack] \in FramesWith(O)
BY DEF FramesWith

LEMMA ConflictIsType == Conflict \in AllTypes /\ Bottom \in AllTypes
BY DEF AllTypes, SingleTypes

LEMMA DropWith ==
    ASSUME NEW O, NEW f \in FramesWith(O), NEW n \in Nat
    PROVE  Drop(f, n) \in FramesWith(O)
<1> DEFINE k == IF Len(f.stack) > n THEN Len(f.stack) - n ELSE 0
           p == SubSeq(f.stack, 1, k)
           S == SlotsWith(O)
<1>1. f.stack \in Seq(S) /\ Len(f.stack) \in Nat
  BY FrameWithParts
<1>2. k \in 0..Len(f.stack)
  BY <1>1
<1>3. Drop(f, n) = [f EXCEPT !.stack = p]
  BY DEF Drop
<1> HIDE DEF k, S
<1>4. p \in Seq(S)
  BY <1>1, <1>2
<1> HIDE DEF p
<1>5. Drop(f, n) = [locals |-> f.locals, stack |-> p]
  BY <1>3, FrameWithParts
<1> QED BY <1>4, <1>5, FrameWithParts, FrameOfParts DEF S

LEMMA TopWith ==
    ASSUME NEW O, None \in O, NEW f \in FramesWith(O)
    PROVE  Top(f) \in SlotsWith(O)
<1>1. CASE f.stack = <<>>
  BY <1>1, ConflictIsType, PlainSlotWith DEF Top
<1>2. CASE f.stack # <<>>
  <2> DEFINE S == SlotsWith(O)
  <2>1. f.stack \in Seq(S)
    BY FrameWithParts
  <2> HIDE DEF S
  <2>2. f.stack[Len(f.stack)] \in S
    BY <1>2, <2>1
  <2> QED BY <1>2, <2>2 DEF Top, Last, S
<1> QED BY <1>1, <1>2

LEMMA PeekWith ==
    ASSUME NEW O, None \in O, NEW f \in FramesWith(O), NEW n \in Nat \ {0}
    PROVE  Peek(f, n) \in SlotsWith(O)
<1>1. n - 1 \in Nat
  OBVIOUS
<1> QED BY <1>1, DropWith, TopWith DEF Peek

LEMMA PushAllWith ==
    ASSUME NEW O, NEW f \in FramesWith(O), NEW slots \in Seq(SlotsWith(O))
    PROVE  PushAll(f, slots) \in FramesWith(O)
<1> DEFINE S == SlotsWith(O)
           p == f.stack \o slots
<1>1. f.stack \in Seq(S) /\ slots \in Seq(S)
  BY FrameWithParts
<1> HIDE DEF S
<1>2. p \in Seq(S)
  BY <1>1
<1>3. PushAll(f, slots) = [f EXCEPT !.stack = p]
  BY DEF PushAll
<1> HIDE DEF p
<1>4. PushAll(f, slots) = [locals |-> f.locals, stack |-> p]
  BY <1>3, FrameWithParts
<1> QED BY <1>2, <1>4, FrameWithParts, FrameOfParts DEF S

LEMMA PushWith ==
    ASSUME NEW O, NEW f \in FramesWith(O), NEW slot \in SlotsWith(O)
    PROVE  Push(f, slot) \in FramesWith(O)
<1> DEFINE S == SlotsWith(O)
           p == Append(f.stack, slot)
<1>1. f.stack \in Seq(S) /\ slot \in S
  BY FrameWithParts
<1> HIDE DEF S
<1>2. p \in Seq(S)
  BY <1>1
<1>3. Push(f, slot) = [f EXCEPT !.stack = p]
  BY DEF Push
<1> HIDE DEF p
<1>4. Push(f, slot) = [locals |-> f.locals, stack |-> p]
  BY <1>3, FrameWithParts
<1> QED BY <1>2, <1>4, FrameWithParts, FrameOfParts DEF S

LEMMA LocalSlotWith ==
    ASSUME NEW O, None \in O, NEW f \in FramesWith(O), NEW n \in Nat
    PROVE  LocalSlot(f, n) \in SlotsWith(O)
<1> DEFINE S == SlotsWith(O)
<1>1. f.locals \in Seq(S)
  BY FrameWithParts
<1>2. EmptySlot \in S
  BY ConflictIsType, PlainSlotWith DEF EmptySlot
<1> HIDE DEF S
<1> QED BY <1>1, <1>2 DEF LocalSlot, S

LEMMA SlotForgets ==
    ASSUME NEW O, NEW slot \in SlotsWith(O)
    PROVE  [slot EXCEPT !.fact = None] \in SlotsWith(O)
<1>1. [slot EXCEPT !.fact = None] = [type |-> slot.type, origin |-> slot.origin,
                                     targets |-> slot.targets, fact |-> None]
  BY SlotWithParts
<1> QED BY <1>1, SlotWithParts, SlotOfParts

LEMMA SlotOriginated ==
    ASSUME NEW O, NEW slot \in SlotsWith(O), NEW origin \in O
    PROVE  [slot EXCEPT !.origin = origin] \in SlotsWith(O)
<1>1. [slot EXCEPT !.origin = origin] = [type |-> slot.type, origin |-> origin,
                                         targets |-> slot.targets, fact |-> slot.fact]
  BY SlotWithParts
<1> QED BY <1>1, SlotWithParts, SlotOfParts

LEMMA SlotTyped ==
    ASSUME NEW O, NEW slot \in SlotsWith(O), NEW type \in AllTypes, type # Conflict
    PROVE  [slot EXCEPT !.type = type] \in SlotsWith(O)
<1>1. [slot EXCEPT !.type = type] = [type |-> type, origin |-> slot.origin,
                                     targets |-> slot.targets, fact |-> slot.fact]
  BY SlotWithParts
<1> QED BY <1>1, SlotWithParts, SlotOfParts

LEMMA SetLocalWith ==
    ASSUME NEW O, None \in O, NEW f \in FramesWith(O), NEW slot \in SlotsWith(O), NEW local \in Nat
    PROVE  SetLocal(f, local, slot) \in FramesWith(O)
<1> DEFINE S == SlotsWith(O)
           wide == IsCategoryTwo(slot.type)
           needed == local + (IF wide THEN 2 ELSE 1)
           length == IF Len(f.locals) < needed THEN needed ELSE Len(f.locals)
           l == [i \in 1..length |->
                   IF i = local + 1 THEN [slot EXCEPT !.fact = None]
                   ELSE IF wide /\ i = local + 2 THEN EmptySlot
                   ELSE Resize(f.locals, length)[i]]
<1>1. f.locals \in Seq(S) /\ Len(f.locals) \in Nat /\ DOMAIN f.locals = 1..Len(f.locals)
  BY FrameWithParts
<1>2. EmptySlot \in S /\ [slot EXCEPT !.fact = None] \in S
  BY ConflictIsType, PlainSlotWith, SlotForgets DEF EmptySlot
<1>3. length \in Nat
  <2> HIDE DEF wide
  <2> QED BY <1>1
<1>4. SetLocal(f, local, slot) = [f EXCEPT !.locals = l]
  BY DEF SetLocal
<1> HIDE DEF S, wide, length
<1>5. \A i \in 1..length : Resize(f.locals, length)[i] \in S
  BY <1>1, <1>2 DEF Resize
<1>6. \A i \in 1..length : l[i] \in S
  BY <1>2, <1>5
<1>7. l \in Seq(S)
  <2>1. l \in [1..length -> S]
    BY <1>6
  <2> HIDE DEF l
  <2> QED BY <1>3, <2>1
<1> HIDE DEF l
<1>8. SetLocal(f, local, slot) = [locals |-> l, stack |-> f.stack]
  BY <1>4, FrameWithParts
<1> QED BY <1>7, <1>8, FrameWithParts, FrameOfParts DEF S

LEMMA StoreLocalWith ==
    ASSUME NEW O, None \in O, NEW f \in FramesWith(O), NEW slot \in SlotsWith(O), NEW local \in Nat,
           NEW at, StoreOrigin(local, at) \in O
    PROVE  StoreLocal(f, local, slot, at) \in FramesWith(O)
BY SlotOriginated, SetLocalWith DEF StoreLocal

(* A constructor call retypes, and what it retypes is no conflict.         *)
LEMMA RetypedWith ==
    ASSUME NEW O, NEW slots \in Seq(SlotsWith(O)), NEW l, DOMAIN l = DOMAIN slots, l = [n \in DOMAIN slots |-> l[n]],
           NEW class \in KnownClasses,
           \A n \in DOMAIN slots : l[n] \in {slots[n], [slots[n] EXCEPT !.type = Exact(class)]}
    PROVE  l \in Seq(SlotsWith(O))
<1> DEFINE S == SlotsWith(O)
<1>1. Exact(class) \in AllTypes /\ Exact(class) # Conflict
  BY KnownReference DEF Exact, Conflict, AllTypes, SingleTypes
<1>2. DOMAIN slots = 1..Len(slots) /\ Len(slots) \in Nat /\ \A n \in DOMAIN slots : slots[n] \in S
  OBVIOUS
<1>3. \A n \in DOMAIN slots : [slots[n] EXCEPT !.type = Exact(class)] \in S
  BY <1>1, <1>2, SlotTyped
<1> HIDE DEF S
<1>4. \A n \in DOMAIN slots : l[n] \in S
  BY <1>2, <1>3
<1>5. l \in [1..Len(slots) -> S]
  BY <1>2, <1>4
<1> QED BY <1>2, <1>5 DEF S

LEMMA AfterConstructorWith ==
    ASSUME NEW O, NEW f \in FramesWith(O), NEW i, NEW receiver \in SlotsWith(O),
           i.member.name = "<init>" => i.member.owner \in KnownClasses
    PROVE  AfterConstructor(i, f, receiver) \in FramesWith(O)
<1>1. CASE i.member.name # "<init>" \/ ~HasReceiver(i)
  BY <1>1 DEF AfterConstructor
<1>2. CASE receiver.type.k \notin {"uninitialized", "uninitializedThis"}
  BY <1>2 DEF AfterConstructor
<1>3. CASE /\ i.member.name = "<init>" /\ HasReceiver(i)
           /\ receiver.type.k = "uninitialized"
  <2> DEFINE class == i.member.owner
             ready(slot) == IF slot.type.k = "uninitialized" /\ slot.type.at = receiver.type.at
                            THEN [slot EXCEPT !.type = Exact(class)] ELSE slot
             l == [n \in DOMAIN f.locals |-> ready(f.locals[n])]
             t == [n \in DOMAIN f.stack |-> ready(f.stack[n])]
  <2>1. AfterConstructor(i, f, receiver) = [locals |-> l, stack |-> t]
    BY <1>3 DEF AfterConstructor, ReplaceUninitialized, Initialize, RetypeSlots
  <2>2. class \in KnownClasses
    BY <1>3
  <2>3. l \in Seq(SlotsWith(O)) /\ t \in Seq(SlotsWith(O))
    BY <2>2, RetypedWith, FrameWithParts
  <2> QED BY <2>1, <2>3, FrameOfParts
<1>4. CASE /\ i.member.name = "<init>" /\ HasReceiver(i)
           /\ receiver.type.k = "uninitializedThis"
  <2> DEFINE class == receiver.type.c
             ready(slot) == IF slot.type.k = "uninitializedThis"
                            THEN [slot EXCEPT !.type = Exact(class)] ELSE slot
             l == [n \in DOMAIN f.locals |-> ready(f.locals[n])]
             t == [n \in DOMAIN f.stack |-> ready(f.stack[n])]
  <2>1. AfterConstructor(i, f, receiver) = [locals |-> l, stack |-> t]
    BY <1>4 DEF AfterConstructor, ReplaceUninitializedThis, Initialize, RetypeSlots
  <2>2. class \in KnownClasses
    <3>1. receiver.type \in SingleTypes
      BY <1>4, SlotWithParts, AlternativesOrSingle
    <3>2. \A r \in KnownReferences : r.k # "uninitializedThis"
      BY KnownReference
    <3> QED BY <1>4, <3>1, <3>2 DEF SingleTypes, Bottom, Float, Long, Double, Null, Unknown, ReturnAddress,
               Conflict
  <2>3. l \in Seq(SlotsWith(O)) /\ t \in Seq(SlotsWith(O))
    BY <2>2, RetypedWith, FrameWithParts
  <2> QED BY <2>1, <2>3, FrameOfParts
<1> QED BY <1>1, <1>2, <1>3, <1>4

USE DEF ConstantOps, LoadOps, StoreOps, ArrayStoreOps, ConditionOps, CompareOps, SwitchOps,
        ValueReturnOps, InvokeOps, ShuffleOps, BinaryOps, ConvertOps, PrimitiveLoadOps
-----------------------------------------------------------------------------
(* The effect of an instruction on frames with the origins of a set.       *)

EffectIn(O, effect) == effect.pops \in Nat /\ effect.pushes \in Seq(SlotsWith(O))

LEMMA OnePushedIn ==
    ASSUME NEW O, NEW n \in Nat, NEW slot \in SlotsWith(O)
    PROVE  EffectIn(O, [pops |-> n, pushes |-> <<slot>>])
<1> DEFINE S == SlotsWith(O)
           e == [pops |-> n, pushes |-> <<slot>>]
<1>1. slot \in S
  OBVIOUS
<1> HIDE DEF S
<1>2. <<slot>> \in Seq(S)
  BY <1>1
<1>3. e.pops = n /\ e.pushes = <<slot>>
  OBVIOUS
<1> HIDE DEF e
<1> QED BY <1>2, <1>3 DEF EffectIn, S, e

LEMMA NonePushedIn ==
    ASSUME NEW O, NEW n \in Nat
    PROVE  EffectIn(O, [pops |-> n, pushes |-> <<>>])
<1> DEFINE S == SlotsWith(O)
           e == [pops |-> n, pushes |-> <<>>]
<1>1. <<>> \in Seq(S) /\ e.pops = n /\ e.pushes = <<>>
  OBVIOUS
<1> HIDE DEF e
<1> QED BY <1>1 DEF EffectIn, S, e

LEMMA PlainPushedIn ==
    ASSUME NEW O, None \in O, NEW n \in Nat, NEW type \in AllTypes
    PROVE  EffectIn(O, [pops |-> n, pushes |-> <<Plain(type)>>])
BY PlainSlotWith, OnePushedIn

LEMMA SimpleTypes ==
    /\ {Bottom, Float, Long, Double, Null, Unknown, ReturnAddress, Conflict, Int32, Boolean} \subseteq AllTypes
    /\ \A S \in SUBSET {"boolean", "byte", "char", "short", "int"} : Integral(S) \in AllTypes
    /\ KnownReferences \subseteq AllTypes
<1>1. \A S \in SUBSET {"boolean", "byte", "char", "short", "int"} : Integral(S) \in AllTypes
  BY DEF Integral, AllTypes, SingleTypes
<1>2. Int32 \in AllTypes /\ Boolean \in AllTypes
  BY <1>1 DEF Int32, Boolean
<1> QED BY <1>1, <1>2 DEF AllTypes, SingleTypes

(* An instruction with its method, and a frame it works on.                *)
Worked(m, at, O, f) ==
    /\ m \in Methods
    /\ at \in DOMAIN m.code
    /\ None \in O
    /\ OriginGiven(m, at) \subseteq O
    /\ f \in FramesWith(O)

LEMMA WorkedFacts ==
    ASSUME NEW m, NEW at, NEW O, NEW f, Worked(m, at, O, f)
    PROVE  /\ Literals(m, m.code[at]) /\ Operands(m, m.code[at])
           /\ at \in Nat /\ Len(m.code) \in Nat
           /\ \A n \in Nat \ {0} : Peek(f, n) \in SlotsWith(O) /\ Peek(f, n).type \in AllTypes
<1>1. Literals(m, m.code[at]) /\ Operands(m, m.code[at])
  BY LiteralsAssumption, MethodsAssumption DEF Worked
<1>2. at \in Nat /\ Len(m.code) \in Nat
  BY CodeParts DEF Worked
<1>3. \A n \in Nat \ {0} : Peek(f, n) \in SlotsWith(O) /\ Peek(f, n).type \in AllTypes
  BY PeekWith, SlotWithParts DEF Worked
<1> QED BY <1>1, <1>2, <1>3

LEMMA ConstantsIn ==
    ASSUME NEW m, NEW at, NEW O, NEW f, Worked(m, at, O, f), m.code[at].op \in ConstantOps
    PROVE  EffectIn(O, StackEffect(m, at, f, Env(m)))
<1>1. StackEffect(m, at, f, Env(m)) = [pops |-> 0, pushes |-> <<Plain(ConstantType(m.code[at]))>>]
  BY DEF StackEffect
<1>2. ConstantType(m.code[at]) \in AllTypes
  BY WorkedFacts DEF Literals
<1> QED BY <1>1, <1>2, PlainPushedIn DEF Worked

LEMMA ArithmeticIn ==
    ASSUME NEW m, NEW at, NEW O, NEW f, Worked(m, at, O, f),
           m.code[at].op \in BinaryOps \cup ConvertOps \cup {"lneg", "fneg", "dneg", "arraylength"}
    PROVE  EffectIn(O, StackEffect(m, at, f, Env(m)))
<1> DEFINE i == m.code[at]
<1>1. CASE i.op \in BinaryOps
  <2>1. StackEffect(m, at, f, Env(m)) = [pops |-> 2, pushes |-> <<Plain(BinaryResult(i.op))>>]
    BY <1>1 DEF StackEffect
  <2>2. BinaryResult(i.op) \in AllTypes
    BY <1>1, SimpleTypes DEF BinaryResult
  <2> QED BY <2>1, <2>2, PlainPushedIn DEF Worked
<1>2. CASE i.op \in ConvertOps
  <2>1. StackEffect(m, at, f, Env(m)) = [pops |-> 1, pushes |-> <<Plain(ConvertResult(i.op))>>]
    BY <1>2 DEF StackEffect
  <2>2. ConvertResult(i.op) \in AllTypes
    <3>1. Integral({"byte"}) \in AllTypes /\ Integral({"char"}) \in AllTypes /\ Integral({"short"}) \in AllTypes
      BY SimpleTypes
    <3> QED BY <1>2, <3>1, SimpleTypes DEF ConvertResult
  <2> QED BY <2>1, <2>2, PlainPushedIn DEF Worked
<1>3. CASE i.op \in {"lneg", "fneg", "dneg"}
  <2>1. StackEffect(m, at, f, Env(m)) = [pops |-> 1, pushes |-> <<Plain(Peek(f, 1).type)>>]
    BY <1>3 DEF StackEffect
  <2>2. Peek(f, 1).type \in AllTypes
    BY WorkedFacts
  <2> QED BY <2>1, <2>2, PlainPushedIn DEF Worked
<1>4. CASE i.op = "arraylength"
  <2>1. StackEffect(m, at, f, Env(m)) = [pops |-> 1, pushes |-> <<Plain(Int32)>>]
    BY <1>4 DEF StackEffect
  <2> QED BY <2>1, SimpleTypes, PlainPushedIn DEF Worked
<1> QED BY <1>1, <1>2, <1>3, <1>4

LEMMA PopsIn ==
    ASSUME NEW m, NEW at, NEW O, NEW f, Worked(m, at, O, f),
           m.code[at].op \in {"pop2", "pop", "athrow", "monitor", "putstatic", "putfield"}
               \cup ArrayStoreOps \cup ConditionOps \cup SwitchOps \cup ValueReturnOps \cup CompareOps
    PROVE  EffectIn(O, StackEffect(m, at, f, Env(m)))
<1> DEFINE i == m.code[at]
<1>1. CASE i.op \in {"pop2", "putstatic", "putfield"} \cup ArrayStoreOps \cup CompareOps
  <2>1. CASE i.op = "pop2"
    <3>1. \E n \in {1, 2} : StackEffect(m, at, f, Env(m)) = [pops |-> n, pushes |-> <<>>]
      BY <2>1 DEF StackEffect
    <3> QED BY <3>1, NonePushedIn
  <2>2. CASE i.op \in {"putstatic", "putfield"}
    <3>1. \E n \in {1, 2} : StackEffect(m, at, f, Env(m)) = [pops |-> n, pushes |-> <<>>]
      BY <2>2 DEF StackEffect
    <3> QED BY <3>1, NonePushedIn
  <2>3. CASE i.op \in ArrayStoreOps
    <3>1. StackEffect(m, at, f, Env(m)) = [pops |-> 3, pushes |-> <<>>]
      BY <2>3 DEF StackEffect
    <3> QED BY <3>1, NonePushedIn
  <2>4. CASE i.op \in CompareOps
    <3>1. StackEffect(m, at, f, Env(m)) = [pops |-> 2, pushes |-> <<>>]
      BY <2>4 DEF StackEffect
    <3> QED BY <3>1, NonePushedIn
  <2> QED BY <1>1, <2>1, <2>2, <2>3, <2>4
<1>2. CASE i.op \in {"pop", "athrow", "monitor"} \cup ConditionOps \cup SwitchOps \cup ValueReturnOps
  <2>1. StackEffect(m, at, f, Env(m)) = [pops |-> 1, pushes |-> <<>>]
    BY <1>2 DEF StackEffect
  <2> QED BY <2>1, NonePushedIn
<1> QED BY <1>1, <1>2

(* What a shuffle puts back.                                               *)
LEMMA OrderedIn ==
    ASSUME NEW S, NEW v \in [1..4 -> S], NEW order \in Seq(1..4)
    PROVE  [k \in DOMAIN order |-> v[order[k]]] \in Seq(S)
<1> DEFINE p == [k \in DOMAIN order |-> v[order[k]]]
<1>1. DOMAIN order = 1..Len(order) /\ Len(order) \in Nat /\ \A k \in DOMAIN order : order[k] \in 1..4
  OBVIOUS
<1>2. p \in [1..Len(order) -> S]
  BY <1>1
<1> HIDE DEF p
<1> QED BY <1>1, <1>2

LEMMA ShufflesIn ==
    ASSUME NEW m, NEW at, NEW O, NEW f, Worked(m, at, O, f), m.code[at].op \in ShuffleOps
    PROVE  EffectIn(O, StackEffect(m, at, f, Env(m)))
<1> DEFINE i == m.code[at]
           S == SlotsWith(O)
           v == [n \in 1..4 |-> Peek(f, n)]
           take(n, order) == [pops |-> n, pushes |-> [k \in DOMAIN order |-> v[order[k]]]]
           wide(n) == IsCategoryTwo(v[n].type)
<1>1. StackEffect(m, at, f, Env(m)) = Shuffle(i.op, f)
  BY DEF StackEffect
<1>2. v \in [1..4 -> S]
  BY WorkedFacts
<1>3. ASSUME NEW n \in Nat, NEW order \in Seq(1..4) PROVE EffectIn(O, take(n, order))
  <2> DEFINE p == [k \in DOMAIN order |-> v[order[k]]]
             e == take(n, order)
  <2>1. p \in Seq(S)
    <3> HIDE DEF v, S
    <3> QED BY <1>2, OrderedIn
  <2>2. e = [pops |-> n, pushes |-> p]
    OBVIOUS
  <2> HIDE DEF p, take
  <2>3. e.pops = n /\ e.pushes = p
    BY <2>2
  <2> HIDE DEF e
  <2> QED BY <2>1, <2>3 DEF EffectIn, e
<1>4. Shuffle(i.op, f) \in {take(1, <<1, 1>>), take(2, <<1, 2>>), take(2, <<1, 2, 1>>),
                            take(3, <<1, 3, 2, 1>>), take(2, <<2, 1, 2, 1>>),
                            take(3, <<2, 1, 3, 2, 1>>), take(4, <<2, 1, 4, 3, 2, 1>>)}
  <2> DEFINE a == take(1, <<1, 1>>)
             b == take(2, <<1, 2>>)
             c == take(2, <<1, 2, 1>>)
             d == take(3, <<1, 3, 2, 1>>)
             e == take(2, <<2, 1, 2, 1>>)
             g == take(3, <<2, 1, 3, 2, 1>>)
             h == take(4, <<2, 1, 4, 3, 2, 1>>)
  <2>1. Shuffle(i.op, f) =
           CASE i.op = "dup" -> a
             [] i.op = "swap" -> b
             [] i.op = "dup_x1" -> c
             [] i.op = "dup_x2" -> IF wide(2) THEN c ELSE d
             [] i.op = "dup2" -> IF wide(1) THEN a ELSE e
             [] i.op = "dup2_x1" -> IF wide(1) THEN c ELSE g
             [] i.op = "dup2_x2" ->
                IF wide(1) /\ wide(2) THEN c
                ELSE IF wide(1) THEN d
                ELSE IF wide(3) THEN g
                ELSE h
    BY Zenon DEF Shuffle
  <2> HIDE DEF a, b, c, d, e, g, h, wide
  <2>2. Shuffle(i.op, f) \in {a, b, c, d, e, g, h}
    BY <2>1
  <2> QED BY <2>2 DEF a, b, c, d, e, g, h
<1>5. /\ <<1, 1>> \in Seq(1..4) /\ <<1, 2>> \in Seq(1..4) /\ <<1, 2, 1>> \in Seq(1..4)
      /\ <<1, 3, 2, 1>> \in Seq(1..4) /\ <<2, 1, 2, 1>> \in Seq(1..4)
      /\ <<2, 1, 3, 2, 1>> \in Seq(1..4) /\ <<2, 1, 4, 3, 2, 1>> \in Seq(1..4)
  OBVIOUS
<1> HIDE DEF take
<1> QED BY <1>1, <1>3, <1>4, <1>5

(* The join over the alternatives, one after the other.                    *)
ElementJoined(type, acc, n) ==
    IF ReferenceOrder[n] \in type.among
    THEN Join(acc, ElementOfArray(ReferenceOrder[n]), NoHierarchy) ELSE acc
FirstElement(type) == IF type.among \subseteq KnownReferences THEN Bottom ELSE Unknown

LEMMA ElementsJoined ==
    ASSUME NEW type \in AllTypes, type.k = "alternatives"
    PROVE  \E joined \in [0..Len(ReferenceOrder) -> AllTypes] :
              /\ joined[0] = FirstElement(type)
              /\ \A n \in 1..Len(ReferenceOrder) : joined[n] = ElementJoined(type, joined[n - 1], n)
              /\ ReferenceElement(type) = joined[Len(ReferenceOrder)]
<1> DEFINE last == Len(ReferenceOrder)
           first == FirstElement(type)
           next(acc, n) == ElementJoined(type, acc, n)
           Is(f) == f = [n \in 0..last |-> IF n = 0
                            THEN IF type.among \subseteq KnownReferences THEN Bottom ELSE Unknown
                            ELSE IF ReferenceOrder[n] \in type.among
                            THEN Join(f[n - 1], ElementOfArray(ReferenceOrder[n]), NoHierarchy)
                            ELSE f[n - 1]]
           step == [x \in Nat \X AllTypes |-> IF x[1] \in 1..last THEN next(x[2], x[1]) ELSE x[2]]
           joined == CHOOSE f : Is(f)
<1>1. last \in Nat /\ \A n \in 1..last : ReferenceOrder[n] \in KnownReferences
  BY KnownReference
<1>2. KnownReferences \subseteq SingleTypes /\ first \in AllTypes
  BY DEF SingleTypes, AllTypes, FirstElement
<1>3. ReferenceElement(type) = joined[last]
  BY DEF ReferenceElement
<1> HIDE DEF last, first
<1>4. ASSUME NEW acc \in AllTypes, NEW n \in 1..last PROVE next(acc, n) \in AllTypes
  <2> DEFINE e == ElementOfArray(ReferenceOrder[n])
  <2>1. e \in AllTypes
    BY <1>1, <1>2, ElementIsType
  <2>2. Joins(Supertypes, Join(acc, e, NoHierarchy), acc, e)
    BY <2>1, HierarchyIsRight, JoinCovers
  <2> QED BY <2>2 DEF Joins, ElementJoined
<1>5. step \in [Nat \X AllTypes -> AllTypes]
  <2> HIDE DEF next
  <2> QED BY <1>4
<1>6. PICK f : Iterates(f, AllTypes, first, step, last)
  <2> HIDE DEF step
  <2> QED BY <1>1, <1>2, <1>5, Iteration
<1>7. f \in [0..last -> AllTypes] /\ f[0] = first /\ \A n \in 1..last : f[n] = step[<<n, f[n - 1]>>]
  <2> HIDE DEF step
  <2> QED BY <1>6 DEF Iterates
<1>8. ASSUME NEW n \in 1..last PROVE f[n] = next(f[n - 1], n)
  <2> HIDE DEF next
  <2>1. n \in Nat /\ n - 1 \in 0..last
    BY <1>1
  <2>2. <<n, f[n - 1]>> \in Nat \X AllTypes
    BY <1>7, <2>1
  <2>3. step[<<n, f[n - 1]>>] = next(f[n - 1], n)
    BY <2>2
  <2> QED BY <1>7, <2>3
<1>9. Is(f)
  <2> HIDE DEF step
  <2>1. \A n \in 0..last : n # 0 => n \in 1..last
    BY <1>1
  <2>2. \A n \in 0..last : f[n] = IF n = 0
            THEN IF type.among \subseteq KnownReferences THEN Bottom ELSE Unknown
            ELSE IF ReferenceOrder[n] \in type.among
            THEN Join(f[n - 1], ElementOfArray(ReferenceOrder[n]), NoHierarchy)
            ELSE f[n - 1]
    BY <1>7, <1>8, <2>1 DEF first, FirstElement, ElementJoined
  <2> QED BY <1>7, <2>2
<1>10. Is(joined)
  <2> HIDE DEF Is
  <2> QED BY <1>9
<1> HIDE DEF joined
<1>11. \A n \in 0..last : joined[n] = f[n]
  <2> DEFINE T == {n \in 0..last : joined[n] = f[n]}
  <2>1. 0 \in T
    BY <1>1, <1>9, <1>10
  <2>2. ASSUME NEW n \in 0..(last - 1), n \in T PROVE n + 1 \in T
    <3>1. n + 1 \in 0..last /\ n + 1 # 0 /\ n + 1 - 1 = n
      BY <1>1
    <3> QED BY <1>9, <1>10, <2>2, <3>1
  <2> HIDE DEF T
  <2>3. 0..last \subseteq T
    BY <1>1, <2>1, <2>2, InductionUpTo, Zenon
  <2> QED BY <2>3 DEF T
<1>12. last \in 0..last
  BY <1>1
<1> HIDE DEF Is, next, step
<1> QED BY <1>3, <1>7, <1>8, <1>11, <1>12 DEF last, first, next

LEMMA ReferenceElementIsType ==
    ASSUME NEW type \in AllTypes
    PROVE  ReferenceElement(type) \in AllTypes
<1>1. CASE type.k # "alternatives"
  <2>1. type \in SingleTypes
    BY <1>1, AlternativesOrSingle
  <2> QED BY <1>1, <2>1, ElementIsType DEF ReferenceElement
<1>2. CASE type.k = "alternatives"
  <2>1. Len(ReferenceOrder) \in 0..Len(ReferenceOrder)
    BY KnownReference
  <2> QED BY <1>2, <2>1, ElementsJoined
<1> QED BY <1>1, <1>2

LEMMA ArrayLoadsIn ==
    ASSUME NEW m, NEW at, NEW O, NEW f, Worked(m, at, O, f),
           m.code[at].op \in PrimitiveLoadOps \cup {"aaload"}
    PROVE  EffectIn(O, StackEffect(m, at, f, Env(m)))
<1> DEFINE i == m.code[at]
           array == Peek(f, 2).type
<1>1. array \in AllTypes
  BY WorkedFacts
<1>2. CASE i.op \in PrimitiveLoadOps
  <2>1. StackEffect(m, at, f, Env(m)) = [pops |-> 2, pushes |-> <<Plain(PrimitiveElement(i.op, array))>>]
    BY <1>2 DEF StackEffect
  <2>2. PrimitiveElement(i.op, array) \in AllTypes
    <3>1. CASE i.op \in {"laload", "faload", "daload"}
      BY <3>1, SimpleTypes DEF PrimitiveElement
    <3>2. CASE i.op \notin {"laload", "faload", "daload"}
      <4>1. \E K \in SUBSET {"boolean", "byte", "char", "short", "int"} :
               PrimitiveElement(i.op, array) = Integral(K)
        BY <1>2, <3>2 DEF PrimitiveElement
      <4> QED BY <4>1, SimpleTypes
    <3> QED BY <3>1, <3>2
  <2> QED BY <2>1, <2>2, PlainPushedIn DEF Worked
<1>3. CASE i.op = "aaload"
  <2>1. StackEffect(m, at, f, Env(m)) = [pops |-> 2, pushes |-> <<Plain(ReferenceElement(array))>>]
    BY <1>3 DEF StackEffect
  <2> QED BY <1>1, <2>1, ReferenceElementIsType, PlainPushedIn DEF Worked
<1> QED BY <1>2, <1>3


LEMMA FieldsIn ==
    ASSUME NEW m, NEW at, NEW O, NEW f, Worked(m, at, O, f),
           m.code[at].op \in {"getstatic", "getfield"}
    PROVE  EffectIn(O, StackEffect(m, at, f, Env(m)))
<1> DEFINE i == m.code[at]
<1>1. \E n \in {0, 1} : StackEffect(m, at, f, Env(m)) = [pops |-> n, pushes |-> <<Plain(FieldType(i, Env(m)))>>]
  <2>1. CASE i.op = "getstatic"
    <3>1. StackEffect(m, at, f, Env(m)) = [pops |-> 0, pushes |-> <<Plain(FieldType(i, Env(m)))>>]
      BY <2>1 DEF StackEffect
    <3> QED BY <3>1
  <2>2. CASE i.op = "getfield"
    <3>1. StackEffect(m, at, f, Env(m)) = [pops |-> 1, pushes |-> <<Plain(FieldType(i, Env(m)))>>]
      BY <2>2 DEF StackEffect
    <3> QED BY <3>1
  <2> QED BY <2>1, <2>2
<1>2. FieldType(i, Env(m)) \in AllTypes
  <2>1. CASE i.member = Unresolved
    BY <2>1, SimpleTypes DEF FieldType
  <2>2. CASE i.member # Unresolved
    <3>1. /\ TypeOfDescriptor(i.member.descriptor) \in AllTypes
          /\ StaticFieldValue(Env(m), i.member) \in AllTypes \cup {None}
      BY <2>2, WorkedFacts DEF Literals
    <3> QED BY <2>2, <3>1 DEF FieldType
  <2> QED BY <2>1, <2>2
<1> QED BY <1>1, <1>2, PlainPushedIn DEF Worked

LEMMA CreationsIn ==
    ASSUME NEW m, NEW at, NEW O, NEW f, Worked(m, at, O, f), ~NamesNoMethod(m.code[at]),
           m.code[at].op \in {"invokedynamic", "new", "newarray", "multianewarray"}
    PROVE  EffectIn(O, StackEffect(m, at, f, Env(m)))
<1> DEFINE i == m.code[at]
<1>1. CASE i.op = "invokedynamic"
  <2>1. StackEffect(m, at, f, Env(m)) =
           [pops |-> Len(i.params),
            pushes |-> IF i.ret = Void THEN <<>> ELSE <<Plain(TypeOfDescriptor(i.ret))>>]
    BY <1>1 DEF StackEffect
  <2>2. Len(i.params) \in Nat /\ (i.ret # Void => TypeOfDescriptor(i.ret) \in AllTypes)
    BY <1>1, WorkedFacts DEF Literals, NamesNoMethod
  <2>3. CASE i.ret = Void
    BY <2>1, <2>2, <2>3, NonePushedIn
  <2>4. CASE i.ret # Void
    BY <2>1, <2>2, <2>4, PlainPushedIn DEF Worked
  <2> QED BY <2>3, <2>4
<1>2. CASE i.op = "new"
  <2> DEFINE slot == Slot(Uninitialized(i.class, at), AllocationOrigin(at))
  <2>1. StackEffect(m, at, f, Env(m)) = [pops |-> 0, pushes |-> <<slot>>]
    BY <1>2 DEF StackEffect
  <2>2. Uninitialized(i.class, at) \in AllTypes /\ Uninitialized(i.class, at) # Conflict
    <3>1. i.class \in KnownClasses /\ at \in Nat
      BY <1>2, WorkedFacts DEF Literals
    <3> QED BY <3>1 DEF Uninitialized, Conflict, AllTypes, SingleTypes
  <2>3. AllocationOrigin(at) \in O
    BY <1>2 DEF Worked, OriginGiven
  <2>4. slot \in SlotsWith(O)
    BY <2>2, <2>3, UnknownTargetsTyped, SlotOfParts DEF Slot
  <2> QED BY <2>1, <2>4, OnePushedIn
<1>3. CASE i.op = "newarray"
  <2>1. StackEffect(m, at, f, Env(m)) = [pops |-> 1, pushes |-> <<Plain(NewArrayType(i.element))>>]
    BY <1>3 DEF StackEffect
  <2>2. NewArrayType(i.element) \in AllTypes
    BY <1>3, WorkedFacts DEF Literals
  <2> QED BY <2>1, <2>2, PlainPushedIn DEF Worked
<1>4. CASE i.op = "multianewarray"
  <2>1. StackEffect(m, at, f, Env(m)) = [pops |-> i.dims, pushes |-> <<Plain(ArrayRef(i.array))>>]
    BY <1>4 DEF StackEffect
  <2>2. i.dims \in Nat /\ ArrayRef(i.array) \in AllTypes
    BY <1>4, WorkedFacts, SimpleTypes DEF Literals
  <2> QED BY <2>1, <2>2, PlainPushedIn DEF Worked
<1> QED BY <1>1, <1>2, <1>3, <1>4

LEMMA KnownIsNoConflict == Conflict \notin KnownReferences /\ Unknown # Conflict /\ Null # Conflict
<1>1. \A r \in KnownReferences : r.k # "conflict"
  BY KnownReference
<1> QED BY <1>1 DEF Conflict, Unknown, Null

LEMMA TestsIn ==
    ASSUME NEW m, NEW at, NEW O, NEW f, Worked(m, at, O, f),
           m.code[at].op \in {"checkcast", "instanceof", "jsr"}
    PROVE  EffectIn(O, StackEffect(m, at, f, Env(m)))
<1> DEFINE i == m.code[at]
           top == Peek(f, 1)
<1>1. top \in SlotsWith(O) /\ at \in Nat
  BY WorkedFacts
<1>2. i.op \in {"checkcast", "instanceof"} => i.type \in AllTypes \ {Conflict}
  BY WorkedFacts, SimpleTypes, KnownIsNoConflict DEF Operands
<1>3. CASE i.op = "checkcast"
  <2> DEFINE type == IF top.type = Null THEN Null ELSE i.type
             slot == [top EXCEPT !.type = type]
  <2>1. StackEffect(m, at, f, Env(m)) = [pops |-> 1, pushes |-> <<slot>>]
    BY <1>3 DEF StackEffect
  <2>2. type \in AllTypes /\ type # Conflict
    BY <1>2, <1>3, SimpleTypes, KnownIsNoConflict
  <2> HIDE DEF type, top
  <2>3. slot \in SlotsWith(O)
    BY <1>1, <2>2, SlotTyped
  <2> QED BY <2>1, <2>3, OnePushedIn
<1>4. CASE i.op = "instanceof"
  <2> DEFINE fact == IF top.origin = None \/ i.type = Unknown THEN None
                     ELSE [origin |-> top.origin, reference |-> i.type]
             slot == [Plain(Boolean) EXCEPT !.fact = fact]
  <2>1. StackEffect(m, at, f, Env(m)) = [pops |-> 1, pushes |-> <<slot>>]
    BY <1>4 DEF StackEffect
  <2>2. fact \in {None} \cup [origin : O, reference : AllTypes]
    <3>1. top.origin \in O
      BY <1>1, SlotWithParts
    <3> QED BY <1>2, <1>4, <3>1
  <2> HIDE DEF fact
  <2>3. slot = [type |-> Boolean, origin |-> None, targets |-> UnknownTargets, fact |-> fact]
    BY DEF Plain, Slot
  <2>4. slot \in SlotsWith(O)
    BY <2>2, <2>3, SimpleTypes, UnknownTargetsTyped, SlotOfParts DEF Worked
  <2> QED BY <2>1, <2>4, OnePushedIn
<1>5. CASE i.op = "jsr"
  <2> DEFINE targets == IF at < Len(m.code) THEN Targets({at + 1}) ELSE UnknownTargets
             slot == [Plain(ReturnAddress) EXCEPT !.targets = targets]
  <2>1. StackEffect(m, at, f, Env(m)) = [pops |-> 0, pushes |-> <<slot>>]
    BY <1>5 DEF StackEffect
  <2>2. targets \in [known : BOOLEAN, at : SUBSET Nat]
    BY <1>1, UnknownTargetsTyped DEF Targets
  <2> HIDE DEF targets
  <2>3. slot = [type |-> ReturnAddress, origin |-> None, targets |-> targets, fact |-> None]
    BY DEF Plain, Slot
  <2>4. ReturnAddress # Conflict
    BY DEF ReturnAddress, Conflict
  <2>5. slot \in SlotsWith(O)
    BY <2>2, <2>3, <2>4, SimpleTypes, SlotOfParts DEF Worked
  <2> QED BY <2>1, <2>5, OnePushedIn
<1> QED BY <1>3, <1>4, <1>5

(* What a call pushes is nothing, or a slot.                               *)
LEMMA CallResultIn ==
    ASSUME NEW m, NEW at, NEW O, NEW f, Worked(m, at, O, f), ~NamesNoMethod(m.code[at]),
           m.code[at].op \in InvokeOps, m.code[at].member.owner # NoClass
    PROVE  \/ CallResult(m, m.code[at], f, Env(m)) = <<>>
           \/ \E slot \in SlotsWith(O) : CallResult(m, m.code[at], f, Env(m)) = <<slot>>
<1> DEFINE i == m.code[at]
           d == i.member.descriptor
           exact == ReceiverIsExactAllocation(m, i, Receiver(i, f))
           summary == ResolveMethodSummary(i, Env(m), exact)
           argument == ResolveReturnedParameter(i, Env(m), exact, summary, f)
           index == ReturnedParameterForCall(Env(m), i.member, InvocationKind(i.op), exact)
<1>1. i.member # Unresolved /\ d.params \in Seq(Range(d.params))
  BY WorkedFacts DEF NamesNoMethod, Operands
<1>2. CASE d.ret = Void
  BY <1>2 DEF CallResult
<1>3. CASE d.ret # Void
  <2>1. TypeOfDescriptor(d.ret) \in AllTypes
    BY <1>1, <1>3, WorkedFacts DEF Literals
  <2>2. summary = None \/ summary \in AllTypes
    <3>1. exact \in BOOLEAN
      BY DEF ReceiverIsExactAllocation
    <3>2. ReturnTypeForCall(Env(m), i.member, InvocationKind(i.op), exact) \in AllTypes \cup {None}
      BY <1>1, <3>1, WorkedFacts DEF Literals
    <3> QED BY <3>2 DEF ResolveMethodSummary
  <2>3. CASE argument = <<>>
    <3>1. \E type \in AllTypes : CallResult(m, i, f, Env(m)) = <<Plain(type)>>
      BY <1>3, <2>1, <2>2, <2>3 DEF CallResult
    <3> QED BY <3>1, PlainSlotWith DEF Worked
  <2>4. CASE argument # <<>>
    <3> DEFINE given == Argument(i, f, index)
               sharper == summary # None /\ summary # TypeOfDescriptor(d.params[index]) /\ given.type # Null
               value == IF sharper THEN [given EXCEPT !.type = summary] ELSE given
    <3>1. CallResult(m, i, f, Env(m)) = argument
      BY <1>3, <2>4 DEF CallResult
    <3>2. argument = IF index \in DOMAIN d.params /\ SummaryMatches(d.ret, value.type)
                     THEN <<value>> ELSE <<>>
      BY DEF ResolveReturnedParameter
    <3>3. index \in DOMAIN d.params /\ argument = <<value>>
      BY <2>4, <3>2
    <3>4. given \in SlotsWith(O)
      <4>1. ArgumentCount(i) + 1 - index \in Nat \ {0}
        BY <1>1, <3>3 DEF ArgumentCount
      <4> QED BY <4>1, WorkedFacts DEF Argument
    <3>5. summary # Conflict
      <4>1. ASSUME summary = Conflict PROVE SummaryMatches(d.ret, Conflict)
        <5>1. summary # None
          BY <4>1 DEF Conflict, None
        <5> QED BY <4>1, <5>1 DEF ResolveMethodSummary
      <4>2. ~ValueMatchesDescriptor(d.ret, Conflict)
        BY DEF ValueMatchesDescriptor, ReferenceMatches, IsIntegral, Conflict
      <4> QED BY <4>1, <4>2 DEF SummaryMatches
    <3> HIDE DEF given, summary, argument
    <3>6. value \in SlotsWith(O)
      BY <2>2, <3>4, <3>5, SlotTyped
    <3> QED BY <3>1, <3>3, <3>6
  <2> QED BY <2>3, <2>4
<1> QED BY <1>2, <1>3

LEMMA CallsIn ==
    ASSUME NEW m, NEW at, NEW O, NEW f, Worked(m, at, O, f), ~NamesNoMethod(m.code[at]),
           m.code[at].op \in InvokeOps
    PROVE  /\ EffectIn(O, StackEffect(m, at, f, Env(m)))
           /\ Receiver(m.code[at], f) \in SlotsWith(O)
           /\ m.code[at].member.name = "<init>" => m.code[at].member.owner \in KnownClasses
<1> DEFINE i == m.code[at]
           pops == ArgumentCount(i) + (IF HasReceiver(i) THEN 1 ELSE 0)
           pushes == IF i.member.owner = NoClass THEN ArrayCallResult(i) ELSE CallResult(m, i, f, Env(m))
<1>1. i.member # Unresolved
  BY DEF NamesNoMethod
<1>2. ArgumentCount(i) \in Nat
  <2>1. i.member.descriptor.params \in Seq(Range(i.member.descriptor.params))
    BY WorkedFacts DEF Operands
  <2> QED BY <2>1 DEF ArgumentCount
<1>3. StackEffect(m, at, f, Env(m)) = [pops |-> pops, pushes |-> pushes]
  BY DEF StackEffect
<1>4. pushes = <<>> \/ \E slot \in SlotsWith(O) : pushes = <<slot>>
  <2>1. CASE i.member.owner = NoClass
    <3>1. /\ ArrayRef(i.member.array) \in AllTypes
          /\ i.member.descriptor.ret = Void \/ TypeOfDescriptor(i.member.descriptor.ret) \in AllTypes
      BY <1>1, <2>1, WorkedFacts DEF Literals
    <3>2. pushes = <<>> \/ \E type \in AllTypes : pushes = <<Plain(type)>>
      BY <2>1, <3>1 DEF ArrayCallResult
    <3> QED BY <3>2, PlainSlotWith DEF Worked
  <2>2. CASE i.member.owner # NoClass
    BY <2>2, CallResultIn
  <2> QED BY <2>1, <2>2
<1>5. pops \in Nat
  BY <1>2
<1>6. EffectIn(O, StackEffect(m, at, f, Env(m)))
  <2> HIDE DEF pops, pushes
  <2> QED BY <1>3, <1>4, <1>5, OnePushedIn, NonePushedIn
<1>7. Receiver(i, f) \in SlotsWith(O)
  <2>1. ArgumentCount(i) + 1 \in Nat \ {0}
    BY <1>2
  <2> QED BY <2>1, WorkedFacts, ConflictIsType, PlainSlotWith DEF Receiver, EmptySlot, Worked
<1>8. i.member.name = "<init>" => i.member.owner \in KnownClasses
  BY <1>1, WorkedFacts DEF Literals
<1> QED BY <1>6, <1>7, <1>8


LEMMA EffectsIn ==
    ASSUME NEW m, NEW at, NEW O, NEW f, Worked(m, at, O, f), ~NamesNoMethod(m.code[at])
    PROVE  EffectIn(O, StackEffect(m, at, f, Env(m)))
<1> DEFINE op == m.code[at].op
           arithmetic == BinaryOps \cup ConvertOps \cup {"lneg", "fneg", "dneg", "arraylength"}
           pops == {"pop2", "pop", "athrow", "monitor", "putstatic", "putfield"}
               \cup ArrayStoreOps \cup ConditionOps \cup SwitchOps \cup ValueReturnOps \cup CompareOps
           loads == PrimitiveLoadOps \cup {"aaload"}
           fields == {"getstatic", "getfield"}
           creations == {"invokedynamic", "new", "newarray", "multianewarray"}
           tests == {"checkcast", "instanceof", "jsr"}
<1>1. CASE op \in ConstantOps
  BY <1>1, ConstantsIn
<1>2. CASE op \in ShuffleOps
  BY <1>2, ShufflesIn
<1>3. CASE op \in arithmetic
  BY <1>3, ArithmeticIn
<1>4. CASE op \in pops
  BY <1>4, PopsIn
<1>5. CASE op \in loads
  BY <1>5, ArrayLoadsIn
<1>6. CASE op \in fields
  BY <1>6, FieldsIn
<1>7. CASE op \in creations
  BY <1>7, CreationsIn
<1>8. CASE op \in tests
  BY <1>8, TestsIn
<1>9. CASE op \in InvokeOps
  BY <1>9, CallsIn
<1>10. CASE /\ op \notin ConstantOps /\ op \notin ShuffleOps /\ op \notin arithmetic
            /\ op \notin pops /\ op \notin loads /\ op \notin fields
            /\ op \notin creations /\ op \notin tests /\ op \notin InvokeOps
  <2>1. StackEffect(m, at, f, Env(m)) = [pops |-> 0, pushes |-> <<>>]
    BY <1>10 DEF StackEffect
  <2> QED BY <2>1, NonePushedIn
<1> HIDE DEF arithmetic, pops, loads, fields, creations, tests
<1> QED BY <1>1, <1>2, <1>3, <1>4, <1>5, <1>6, <1>7, <1>8, <1>9, <1>10

(* The origins that a frame has after an instruction and not before.       *)
OriginMade(m, at) ==
    IF m.code[at].op = "iinc" THEN {StoreOrigin(m.code[at].local, FirstOffset)}
    ELSE OriginGiven(m, at)

(* The frame after an instruction is a frame, and has no other new origin. *)
LEMMA TransferIn ==
    ASSUME NEW m \in Methods, NEW at \in DOMAIN m.code, NEW O, None \in O,
           OriginMade(m, at) \subseteq O, NEW f \in FramesWith(O)
    PROVE  Transfer(m, at, f, Env(m)) \in FramesWith(O)
<1> DEFINE i == m.code[at]
           effect == StackEffect(m, at, f, Env(m))
<1>1. Worked(m, at, O, f)
  BY DEF Worked, OriginMade, OriginGiven
<1>2. Operands(m, i)
  BY <1>1, WorkedFacts
<1>3. i.op \in LoadOps \cup StoreOps \cup {"iinc"} => i.local \in Nat
  <2>1. m.maxLocals \in Nat
    BY MethodsAssumption
  <2> QED BY <1>2, <2>1 DEF Operands, Slots
<1>4. CASE i.op \in LoadOps
  <2> DEFINE slot == LocalSlot(f, i.local)
  <2>1. Transfer(m, at, f, Env(m)) = PushLocal(f, i.local, m.hints, at)
    BY <1>4 DEF Transfer, NamesNoMethod
  <2>2. slot \in SlotsWith(O)
    BY <1>3, <1>4, LocalSlotWith
  <2>3. RefineIntegral(m.hints, i.local, at, slot.type) = slot.type
    BY MethodsAssumption DEF RefineIntegral
  <2>4. PushLocal(f, i.local, m.hints, at) =
            Push(f, [slot EXCEPT !.type = RefineIntegral(m.hints, i.local, at, slot.type)])
    BY DEF PushLocal
  <2>5. [slot EXCEPT !.type = slot.type] = slot
    <3> HIDE DEF slot
    <3> QED BY <2>2, SlotWithParts
  <2> HIDE DEF slot
  <2>6. Transfer(m, at, f, Env(m)) = Push(f, slot)
    BY <2>1, <2>3, <2>4, <2>5
  <2> QED BY <2>2, <2>6, PushWith
<1>5. CASE i.op \in StoreOps
  <2>1. Transfer(m, at, f, Env(m)) = StoreLocal(Drop(f, 1), i.local, Peek(f, 1), at)
    BY <1>5 DEF Transfer, NamesNoMethod
  <2>2. Drop(f, 1) \in FramesWith(O) /\ Peek(f, 1) \in SlotsWith(O)
    BY <1>1, DropWith, WorkedFacts
  <2>3. StoreOrigin(i.local, at) \in O
    BY <1>5 DEF OriginMade, OriginGiven
  <2> QED BY <1>3, <1>5, <2>1, <2>2, <2>3, StoreLocalWith
<1>6. CASE i.op = "iinc"
  <2> DEFINE slot == Slot(Int32, StoreOrigin(i.local, FirstOffset))
  <2>1. Transfer(m, at, f, Env(m)) = SetLocal(f, i.local, slot)
    BY <1>6 DEF Transfer, NamesNoMethod
  <2>2. StoreOrigin(i.local, FirstOffset) \in O
    BY <1>6 DEF OriginMade
  <2>3. slot \in SlotsWith(O)
    <3>1. Int32 # Conflict
      BY DEF Int32, Integral, Conflict
    <3> QED BY <2>2, <3>1, SimpleTypes, UnknownTargetsTyped, SlotOfParts DEF Slot
  <2> HIDE DEF slot
  <2> QED BY <1>3, <1>6, <2>1, <2>3, SetLocalWith
<1>7. CASE NamesNoMethod(i)
  <2> DEFINE none == <<>>
  <2>1. Transfer(m, at, f, Env(m)) = [f EXCEPT !.stack = none]
    BY <1>7 DEF Transfer, NamesNoMethod
  <2>2. none \in Seq(SlotsWith(O))
    OBVIOUS
  <2> HIDE DEF none
  <2>3. Transfer(m, at, f, Env(m)) = [locals |-> f.locals, stack |-> none]
    BY <2>1, FrameWithParts
  <2> QED BY <2>2, <2>3, FrameWithParts, FrameOfParts
<1>8. CASE i.op \notin LoadOps \cup StoreOps \cup {"iinc"} /\ ~NamesNoMethod(i)
  <2>1. Transfer(m, at, f, Env(m)) = Applied(i, f, effect)
    BY <1>8 DEF Transfer
  <2>2. effect.pops \in Nat /\ effect.pushes \in Seq(SlotsWith(O))
    BY <1>1, <1>8, EffectsIn DEF EffectIn
  <2> HIDE DEF effect
  <2>3. Drop(f, effect.pops) \in FramesWith(O)
    BY <2>2, DropWith
  <2>4. CASE i.op \in InvokeOps
    <3>1. AfterConstructor(i, Drop(f, effect.pops), Receiver(i, f)) \in FramesWith(O)
      BY <1>1, <1>8, <2>3, <2>4, CallsIn, AfterConstructorWith
    <3> QED BY <2>1, <2>2, <2>4, <3>1, PushAllWith DEF Applied
  <2>5. CASE i.op \notin InvokeOps
    BY <2>1, <2>2, <2>3, <2>5, PushAllWith DEF Applied
  <2> QED BY <2>4, <2>5
<1> QED BY <1>4, <1>5, <1>6, <1>7, <1>8

LEMMA EntryIn ==
    ASSUME NEW m \in Methods
    PROVE  EntryFrame(m) \in FramesWith({None} \cup [k : {"entry"}, slot : Nat])
<1> DEFINE O == {None} \cup [k : {"entry"}, slot : Nat]
           S == SlotsWith(O)
           last == Len(m.params)
           slots == ParameterSlots(m)
           length == IF last # 0 THEN slots[last] + SlotWidth(m.params[last])
                     ELSE IF m.static THEN m.maxLocals ELSE 1
           l == [k \in 1..length |-> EntrySlot(m, k - 1)]
           none == <<>>
<1>1. EntryFrame(m) = [locals |-> l, stack |-> none]
  BY DEF EntryFrame
<1>2. m.params \in Seq(Range(m.params)) /\ m.maxLocals \in Nat
  BY MethodsAssumption
<1>3. last \in Nat /\ DOMAIN m.params = 1..last
  BY <1>2
<1>4. \A d : SlotWidth(d) \in {1, 2}
  BY DEF SlotWidth
<1>5. length \in Nat
  <2>1. CASE last = 0
    BY <1>2, <2>1
  <2>2. CASE last # 0
    <3>1. last \in 1..last
      BY <1>3, <2>2
    <3>2. slots[last] \in Nat
      BY <1>3, <2>2, <3>1, ParameterSlotsIncrease
    <3> HIDE DEF slots, last
    <3> QED BY <1>4, <2>2, <3>2
  <2> QED BY <2>1, <2>2
<1>6. ASSUME NEW n \in Nat PROVE EntrySlot(m, n) \in S
  <2>1. EntryOrigin(n) \in O /\ EntryOrigin(0) \in O
    BY DEF EntryOrigin
  <2>2. CASE n = 0 /\ ~m.static
    <3> DEFINE type == IF m.constructor THEN UninitializedThis(m.owner) ELSE Exact(m.owner)
    <3>1. m.owner \in KnownClasses
      BY <2>2, LiteralsAssumption
    <3>2. type \in AllTypes
      <4>1. UninitializedThis(m.owner) \in AllTypes
        BY <3>1 DEF UninitializedThis, AllTypes, SingleTypes
      <4>2. Exact(m.owner) \in AllTypes
        BY <3>1, KnownReference, SimpleTypes
      <4> QED BY <4>1, <4>2
    <3>3. EntrySlot(m, n) = Slot(type, EntryOrigin(0))
      BY <2>2 DEF EntrySlot
    <3> HIDE DEF type
    <3> QED BY <2>1, <3>2, <3>3, UnknownTargetsTyped, SlotOfParts DEF Slot
  <2>3. CASE ~(n = 0 /\ ~m.static) /\ ParameterAtSlot(m, n) = NoParameter
    <3>1. EntrySlot(m, n) = EmptySlot
      BY <2>3 DEF EntrySlot
    <3> QED BY <3>1, ConflictIsType, PlainSlotWith DEF EmptySlot
  <2>4. CASE ~(n = 0 /\ ~m.static) /\ ParameterAtSlot(m, n) # NoParameter
    <3> DEFINE type == TypeOfDescriptor(m.params[ParameterAtSlot(m, n)])
    <3>1. type \in AllTypes
      BY <2>4, ParameterThere, LiteralsAssumption
    <3>2. EntrySlot(m, n) = Slot(type, EntryOrigin(n))
      BY <2>4 DEF EntrySlot
    <3> HIDE DEF type
    <3> QED BY <2>1, <3>1, <3>2, UnknownTargetsTyped, SlotOfParts DEF Slot
  <2> QED BY <2>2, <2>3, <2>4
<1> HIDE DEF length, S
<1>7. l \in [1..length -> S]
  BY <1>5, <1>6
<1> HIDE DEF l
<1>8. l \in Seq(S) /\ none \in Seq(S)
  BY <1>5, <1>7
<1> HIDE DEF none
<1> QED BY <1>1, <1>8, FrameOfParts DEF S

LEMMA ExceptionFrameIn ==
    ASSUME NEW m \in Methods, NEW O, None \in O, NEW f \in FramesWith(O), NEW h \in Range(m.handlers)
    PROVE  ExceptionFrame(f, h.catchType) \in FramesWith(O)
<1> DEFINE S == SlotsWith(O)
           slot == Plain(Exact(IF h.catchType = NoCatchType THEN Throwable ELSE h.catchType))
<1>1. (IF h.catchType = NoCatchType THEN Throwable ELSE h.catchType) \in KnownClasses
  BY LiteralsAssumption
<1>2. slot \in S
  <2>1. \A c \in KnownClasses : Exact(c) \in AllTypes
    BY KnownReference, SimpleTypes
  <2> QED BY <1>1, <2>1, PlainSlotWith
<1> DEFINE caught == <<slot>>
<1>3. ExceptionFrame(f, h.catchType) = [locals |-> f.locals, stack |-> caught]
  BY DEF ExceptionFrame
<1> HIDE DEF slot, S
<1>4. caught \in Seq(S)
  BY <1>2
<1> HIDE DEF caught
<1> QED BY <1>3, <1>4, FrameWithParts, FrameOfParts DEF S

LEMMA EdgeFrameIn ==
    ASSUME NEW O, NEW f \in FramesWith(O), NEW operand \in SlotsWith(O), NEW op, NEW kind
    PROVE  EdgeFrame(op, kind, operand, f) \in FramesWith(O)
<1> DEFINE S == SlotsWith(O)
           fact == operand.fact
           refine(slot) == slot.origin = fact.origin /\ IsReference(slot.type)
           l == [n \in DOMAIN f.locals |->
                    IF refine(f.locals[n])
                    THEN [f.locals[n] EXCEPT !.type = fact.reference, !.targets = UnknownTargets]
                    ELSE f.locals[n]]
<1>1. CASE fact = None
  BY <1>1 DEF EdgeFrame
<1>2. CASE fact # None
  <2>1. fact.reference \in AllTypes
    BY <1>2, SlotWithParts
  <2>2. f.locals \in Seq(S) /\ DOMAIN f.locals = 1..Len(f.locals) /\ Len(f.locals) \in Nat
        /\ \A n \in DOMAIN f.locals : f.locals[n] \in S
    BY FrameWithParts
  <2>3. ASSUME NEW slot \in S
        PROVE  [slot EXCEPT !.type = fact.reference, !.targets = UnknownTargets] \in S
    <3> DEFINE type == fact.reference
    <3>1. type \in AllTypes
      BY <2>1
    <3> HIDE DEF type
    <3>2. slot \in SlotsWith(O)
      BY DEF S
    <3>3. /\ UnknownTargets \in [known : BOOLEAN, at : SUBSET Nat]
          /\ slot.origin \in O /\ slot.fact \in {None} \cup [origin : O, reference : AllTypes]
      BY <3>2, SlotWithParts, UnknownTargetsTyped
    <3>4. [slot EXCEPT !.type = type, !.targets = UnknownTargets] \in S
      BY <3>1, <3>2, <3>3 DEF SlotsWith, S
    <3> QED BY <3>4 DEF type
  <2>4. RefineOrigin(f, fact) = [f EXCEPT !.locals = l]
    BY DEF RefineOrigin
  <2> HIDE DEF S, fact, refine
  <2>5. \A n \in DOMAIN f.locals : l[n] \in S
    BY <2>2, <2>3
  <2>6. l \in Seq(S)
    <3>1. l \in [1..Len(f.locals) -> S]
      BY <2>2, <2>5
    <3> HIDE DEF l
    <3> QED BY <2>2, <3>1
  <2> HIDE DEF l
  <2>7. RefineOrigin(f, fact) = [locals |-> l, stack |-> f.stack]
    BY <2>4, FrameWithParts
  <2>8. RefineOrigin(f, fact) \in FramesWith(O)
    BY <2>6, <2>7, FrameWithParts, FrameOfParts DEF S
  <2> QED BY <2>8 DEF EdgeFrame, fact
<1> QED BY <1>1, <1>2

-----------------------------------------------------------------------------
(* The frames within a block.                                              *)

LEMMA OriginsMade ==
    ASSUME NEW m \in Methods, NEW at \in DOMAIN m.code
    PROVE  OriginMade(m, at) \subseteq Origins /\ OriginGiven(m, at) \subseteq Origins
<1> DEFINE i == m.code[at]
<1>1. i.op \in StoreOps \cup {"iinc"} => i.local \in Nat
  BY MethodsAssumption DEF Operands, Slots
<1>2. at \in Nat /\ FirstOffset \in Nat
  BY CodeParts DEF FirstOffset
<1>3. \A n, l \in Nat : StoreOrigin(l, n) \in Origins /\ AllocationOrigin(n) \in Origins
  BY DEF Origins, StoreOrigin, AllocationOrigin
<1> QED BY <1>1, <1>2, <1>3 DEF OriginMade, OriginGiven

LEMMA NoneIsOrigin == None \in Origins /\ AllFrames = FramesWith(Origins) /\ AllSlots = SlotsWith(Origins)
BY DEF Origins, AllFrames, AllSlots

LEMMA FramesInSteps ==
    ASSUME NEW m \in Methods, NEW b \in DOMAIN m.graph, NEW f \in AllFrames
    PROVE  /\ DOMAIN FramesIn(m, b, f, Env(m)) = b..(m.graph[b].last + 1)
           /\ FramesIn(m, b, f, Env(m))[b] = f
           /\ \A at \in b..m.graph[b].last :
                 FramesIn(m, b, f, Env(m))[at + 1] = Transfer(m, at, FramesIn(m, b, f, Env(m))[at], Env(m))
<1> DEFINE last == m.graph[b].last
           d == last - b + 1
           next(g, n) == Transfer(m, b + n - 1, g, Env(m))
           step == [x \in Nat \X AllFrames |-> IF x[1] \in 1..d THEN next(x[2], x[1]) ELSE x[2]]
           F == FramesIn(m, b, f, Env(m))
           Is(g) == g = [at \in b..(last + 1) |->
                            IF at = b THEN f ELSE Transfer(m, at - 1, g[at - 1], Env(m))]
<1>1. F = CHOOSE g : Is(g)
  BY DEF FramesIn
<1>2. last \in Nat /\ b \in Nat /\ b <= last /\ b..last \subseteq DOMAIN m.code
  BY CodeParts, BlockParts
<1> HIDE DEF last, F
<1>3. d \in Nat /\ b + d = last + 1
  BY <1>2
<1>4. ASSUME NEW g \in AllFrames, NEW n \in 1..d PROVE next(g, n) \in AllFrames
  <2>1. b + n - 1 \in DOMAIN m.code
    BY <1>2
  <2> QED BY <2>1, OriginsMade, NoneIsOrigin, TransferIn
<1>5. step \in [Nat \X AllFrames -> AllFrames]
  <2> HIDE DEF next
  <2> QED BY <1>4
<1> HIDE DEF d
<1>6. PICK g : Iterates(g, AllFrames, f, step, d)
  <2> HIDE DEF step
  <2> QED BY <1>3, <1>5, Iteration
<1>7. g \in [0..d -> AllFrames] /\ g[0] = f /\ \A n \in 1..d : g[n] = step[<<n, g[n - 1]>>]
  <2> HIDE DEF step
  <2> QED BY <1>6 DEF Iterates
<1>8. ASSUME NEW n \in 1..d PROVE g[n] = next(g[n - 1], n)
  <2> HIDE DEF next
  <2>1. n \in Nat /\ n - 1 \in 0..d
    BY <1>3
  <2>2. <<n, g[n - 1]>> \in Nat \X AllFrames
    BY <1>7, <2>1
  <2>3. step[<<n, g[n - 1]>>] = next(g[n - 1], n)
    BY <2>2
  <2> QED BY <1>7, <2>3
<1> DEFINE h == [at \in b..(last + 1) |-> g[at - b]]
<1>9. Is(h)
  <2>1. ASSUME NEW at \in b..(last + 1), at # b
        PROVE  h[at] = Transfer(m, at - 1, h[at - 1], Env(m))
    <3>1. /\ at - b \in 1..d /\ at - 1 \in b..(last + 1)
          /\ b + (at - b) - 1 = at - 1 /\ (at - b) - 1 = (at - 1) - b
      BY <1>2, <1>3, <2>1
    <3>2. g[at - b] = Transfer(m, at - 1, g[(at - 1) - b], Env(m))
      BY <1>8, <3>1
    <3> QED BY <3>1, <3>2
  <2>2. b \in b..(last + 1) /\ h[b] = f
    BY <1>2, <1>7
  <2> HIDE DEF step
  <2>3. \A at \in b..(last + 1) : h[at] = IF at = b THEN f ELSE Transfer(m, at - 1, h[at - 1], Env(m))
    BY <2>1, <2>2
  <2>4. DOMAIN h = b..(last + 1) /\ h = [at \in b..(last + 1) |-> h[at]]
    OBVIOUS
  <2> HIDE DEF h
  <2> QED BY <2>3, <2>4
<1>10. Is(F)
  <2> HIDE DEF Is, h
  <2> QED BY <1>1, <1>9
<1>11. DOMAIN F = b..(last + 1)
  BY <1>10
<1>12. F[b] = f
  BY <1>2, <1>10
<1>13. \A x \in b..(last + 1) : F[x] = IF x = b THEN f ELSE Transfer(m, x - 1, F[x - 1], Env(m))
  BY <1>10
<1>14. ASSUME NEW at \in b..last PROVE F[at + 1] = Transfer(m, at, F[at], Env(m))
  <2>1. at + 1 \in b..(last + 1) /\ at + 1 # b /\ (at + 1) - 1 = at
    BY <1>2
  <2> HIDE DEF Is, h
  <2>2. F[at + 1] = Transfer(m, (at + 1) - 1, F[(at + 1) - 1], Env(m))
    BY <1>13, <2>1
  <2> QED BY <2>1, <2>2
<1> HIDE DEF Is, h
<1> QED BY <1>11, <1>12, <1>14 DEF F, last

LEMMA FramesInWith ==
    ASSUME NEW m \in Methods, NEW b \in DOMAIN m.graph, NEW O, None \in O, O \subseteq Origins,
           NEW f \in FramesWith(O), NEW end \in b..(m.graph[b].last + 1),
           \A at \in b..(end - 1) : OriginMade(m, at) \subseteq O
    PROVE  \A at \in b..end : FramesIn(m, b, f, Env(m))[at] \in FramesWith(O)
<1> DEFINE last == m.graph[b].last
           F == FramesIn(m, b, f, Env(m))
           d == end - b
           T == {n \in 0..d : F[b + n] \in FramesWith(O)}
<1>1. last \in Nat /\ b \in Nat /\ b <= last /\ b..last \subseteq DOMAIN m.code
  BY CodeParts, BlockParts
<1>2. F[b] = f /\ \A at \in b..last : F[at + 1] = Transfer(m, at, F[at], Env(m))
  <2>1. f \in AllFrames
    BY SlotsAmongAll
  <2> QED BY <2>1, FramesInSteps
<1> HIDE DEF last, F
<1>3. end \in b..(last + 1)
  BY DEF last
<1>4. d \in Nat
  BY <1>1, <1>3
<1>5. 0 \in T
  <2>1. b + 0 = b
    BY <1>1
  <2> QED BY <1>2, <1>4, <2>1
<1>6. ASSUME NEW n \in 0..(d - 1), n \in T PROVE n + 1 \in T
  <2>1. /\ b + n \in b..last /\ b + n \in b..(end - 1) /\ b + (n + 1) = (b + n) + 1
        /\ n + 1 \in 0..d
    BY <1>1, <1>3
  <2>2. F[b + n] \in FramesWith(O) /\ b + n \in DOMAIN m.code
    BY <1>1, <1>6, <2>1
  <2>3. Transfer(m, b + n, F[b + n], Env(m)) \in FramesWith(O)
    BY <2>1, <2>2, TransferIn
  <2> QED BY <1>2, <2>1, <2>3
<1> HIDE DEF T
<1>7. 0..d \subseteq T
  BY <1>4, <1>5, <1>6, InductionUpTo, Zenon
<1>8. ASSUME NEW at \in b..end PROVE F[at] \in FramesWith(O)
  <2>1. at - b \in 0..d /\ b + (at - b) = at
    BY <1>1, <1>3
  <2>2. F[b + (at - b)] \in FramesWith(O)
    BY <1>7, <2>1 DEF T
  <2> QED BY <2>1, <2>2
<1> QED BY <1>8 DEF F

-----------------------------------------------------------------------------
(* What a visit sends.                                                     *)

OrdinarySends(m, b, F) ==
    {Send(e.target, EdgeFrame(m.code[m.graph[b].last].op, e.kind, Top(F[m.graph[b].last]),
                              F[m.graph[b].last + 1])) :
        e \in {x \in Range(m.graph[b].successors) :
                  EdgeIsFeasible(m.code[m.graph[b].last].op, x.kind, Top(F[m.graph[b].last]))}}
ThrownSends(m, b, F) ==
    {Send(x.target, ExceptionFrame(F[x.at], x.catchType)) : x \in Range(m.graph[b].exceptions)}
ReturnedSends(m, b, F) ==
    {Send(at, F[m.graph[b].last + 1]) : at \in ReturnAddresses(m, b, F).at \cap DOMAIN m.graph}

LEMMA SendsAre ==
    ASSUME NEW m \in Methods, NEW b \in DOMAIN m.graph, NEW F, NEW S,
           OrdinarySends(m, b, F) \cup ThrownSends(m, b, F) \cup ReturnedSends(m, b, F) \subseteq S
    PROVE  /\ SendsOf(m, b, F) \in Seq(S)
           /\ Range(SendsOf(m, b, F)) =
                 OrdinarySends(m, b, F) \cup ThrownSends(m, b, F) \cup ReturnedSends(m, b, F)
<1> DEFINE last == m.graph[b].last
           op == m.code[last].op
           operand == Top(F[last])
<1>1. ExceptionSends(m, b, F) \in Seq(S) /\ Range(ExceptionSends(m, b, F)) = ThrownSends(m, b, F)
  <2> DEFINE exceptions == m.graph[b].exceptions
             send(x) == Send(x.target, ExceptionFrame(F[x.at], x.catchType))
             sends == [n \in DOMAIN exceptions |-> send(exceptions[n])]
  <2>1. ExceptionSends(m, b, F) = sends
    BY DEF ExceptionSends
  <2>2. exceptions \in Seq(Range(exceptions))
    BY ExceptionParts
  <2>3. ThrownSends(m, b, F) = {send(x) : x \in Range(exceptions)}
    BY DEF ThrownSends
  <2> HIDE DEF exceptions, send
  <2>4. DOMAIN exceptions = 1..Len(exceptions) /\ Len(exceptions) \in Nat
    BY <2>2
  <2>5. Range(sends) = ThrownSends(m, b, F)
    BY <2>3 DEF Range
  <2>6. sends \in [1..Len(exceptions) -> S]
    BY <2>4, <2>5 DEF Range
  <2> HIDE DEF sends
  <2> QED BY <2>1, <2>4, <2>5, <2>6
<1>2. SuccessorSends(m, b, F) \in Seq(S) /\ Range(SuccessorSends(m, b, F)) = OrdinarySends(m, b, F)
  <2> DEFINE successors == m.graph[b].successors
             send(e) == Send(e.target, EdgeFrame(op, e.kind, operand, F[last + 1]))
             places == {n \in DOMAIN successors : EdgeIsFeasible(op, successors[n].kind, operand)}
             feasible == Picked(successors, places)
             sends == [n \in DOMAIN feasible |-> send(feasible[n])]
             R == Range(successors)
  <2>1. SuccessorSends(m, b, F) = sends
    BY DEF SuccessorSends
  <2>2. successors \in Seq(R)
    BY SuccessorParts
  <2>3. OrdinarySends(m, b, F) = {send(e) : e \in {x \in R : EdgeIsFeasible(op, x.kind, operand)}}
    BY DEF OrdinarySends
  <2> HIDE DEF successors, send, op, operand
  <2>4. feasible \in Seq(R) /\ Range(feasible) = {successors[n] : n \in DOMAIN successors \cap places}
    <3> HIDE DEF R, places
    <3> QED BY <2>2, PickedSeq
  <2>5. {successors[n] : n \in DOMAIN successors \cap places} = {x \in R : EdgeIsFeasible(op, x.kind, operand)}
    BY DEF Range
  <2> HIDE DEF feasible, places, R
  <2>6. DOMAIN feasible = 1..Len(feasible) /\ Len(feasible) \in Nat
    BY <2>4
  <2>7. Range(sends) = {send(e) : e \in Range(feasible)}
    BY DEF Range
  <2>8. Range(sends) = OrdinarySends(m, b, F)
    BY <2>3, <2>4, <2>5, <2>7
  <2>9. sends \in [1..Len(feasible) -> S]
    BY <2>6, <2>8 DEF Range
  <2> HIDE DEF sends
  <2> QED BY <2>1, <2>6, <2>8, <2>9
<1>3. ReturnSends(m, b, F) \in Seq(S) /\ Range(ReturnSends(m, b, F)) = ReturnedSends(m, b, F)
  <2> DEFINE known == ReturnAddresses(m, b, F).at \cap DOMAIN m.graph
             all == [at \in DOMAIN m.code |-> at]
             sorted == Picked(all, known)
             sends == [n \in DOMAIN sorted |-> Send(sorted[n], F[last + 1])]
             N == DOMAIN m.code
  <2>1. ReturnSends(m, b, F) = sends
    BY DEF ReturnSends
  <2>2. ReturnedSends(m, b, F) = {Send(at, F[last + 1]) : at \in known}
    BY DEF ReturnedSends
  <2>3. known \subseteq N /\ N = 1..Len(m.code) /\ Len(m.code) \in Nat
    BY CodeParts
  <2> HIDE DEF known
  <2>4. all \in Seq(N) /\ DOMAIN all = N /\ \A at \in N : all[at] = at
    BY <2>3
  <2> HIDE DEF all, N
  <2>5. sorted \in Seq(N) /\ Range(sorted) = {all[at] : at \in DOMAIN all \cap known}
    BY <2>4, PickedSeq
  <2>6. {all[at] : at \in DOMAIN all \cap known} = known
    BY <2>3, <2>4
  <2> HIDE DEF sorted
  <2>7. DOMAIN sorted = 1..Len(sorted) /\ Len(sorted) \in Nat
    BY <2>5
  <2>8. Range(sends) = {Send(at, F[last + 1]) : at \in Range(sorted)}
    BY DEF Range
  <2>9. Range(sends) = ReturnedSends(m, b, F)
    BY <2>2, <2>5, <2>6, <2>8
  <2>10. sends \in [1..Len(sorted) -> S]
    BY <2>7, <2>9 DEF Range
  <2> HIDE DEF sends
  <2> QED BY <2>1, <2>7, <2>9, <2>10
<1> DEFINE x == ExceptionSends(m, b, F)
           s == SuccessorSends(m, b, F)
           r == ReturnSends(m, b, F)
<1>4. SendsOf(m, b, F) = (x \o s) \o r
  BY DEF SendsOf
<1> HIDE DEF x, s, r
<1>5. x \o s \in Seq(S) /\ Range(x \o s) = Range(x) \cup Range(s)
  BY <1>1, <1>2, JoinedSeq DEF x, s
<1> DEFINE xs == x \o s
<1> HIDE DEF xs
<1>6. xs \in Seq(S) /\ r \in Seq(S)
  BY <1>3, <1>5 DEF r, xs
<1>7. xs \o r \in Seq(S) /\ Range(xs \o r) = Range(xs) \cup Range(r)
  BY <1>6, JoinedSeq
<1> QED BY <1>1, <1>2, <1>3, <1>4, <1>5, <1>7 DEF x, s, r, xs

-----------------------------------------------------------------------------
LEMMA VisitSendsIn ==
    ASSUME NEW m \in Methods, NEW b \in DOMAIN m.graph, NEW O, None \in O, O \subseteq Origins,
           NEW f \in FramesWith(O),
           \A at \in b..m.graph[b].last : OriginMade(m, at) \subseteq O
    PROVE  VisitSends(m, b, f) \in Seq([target : DOMAIN m.graph, frame : FramesWith(O)])
<1> DEFINE last == m.graph[b].last
           F == FramesIn(m, b, f, Env(m))
           S == [target : DOMAIN m.graph, frame : FramesWith(O)]
<1>1. last \in Nat /\ b \in Nat /\ b <= last /\ b..last \subseteq DOMAIN m.code
  BY CodeParts, BlockParts
<1>2. ASSUME NEW at \in b..(last + 1) PROVE F[at] \in FramesWith(O)
  <2>1. last + 1 \in b..(last + 1) /\ (last + 1) - 1 = last
    BY <1>1
  <2> QED BY <2>1, FramesInWith
<1> HIDE DEF F
<1>3. ASSUME NEW t \in DOMAIN m.graph, NEW g \in FramesWith(O) PROVE Send(t, g) \in S
  BY DEF Send
<1>4. last \in b..(last + 1) /\ last + 1 \in b..(last + 1)
  BY <1>1
<1>5. Top(F[last]) \in SlotsWith(O)
  BY <1>2, <1>4, TopWith
<1> HIDE DEF S
<1>6. OrdinarySends(m, b, F) \subseteq S
  <2>1. ASSUME NEW e \in Range(m.graph[b].successors)
        PROVE  Send(e.target, EdgeFrame(m.code[last].op, e.kind, Top(F[last]), F[last + 1])) \in S
    <3>1. EdgeFrame(m.code[last].op, e.kind, Top(F[last]), F[last + 1]) \in FramesWith(O)
      BY <1>2, <1>4, <1>5, EdgeFrameIn
    <3>2. e.target \in DOMAIN m.graph
      BY SuccessorParts
    <3> QED BY <1>3, <3>1, <3>2
  <2> QED BY <2>1 DEF OrdinarySends
<1>7. ThrownSends(m, b, F) \subseteq S
  <2>1. ASSUME NEW x \in Range(m.graph[b].exceptions)
        PROVE  Send(x.target, ExceptionFrame(F[x.at], x.catchType)) \in S
    <3>1. PICK at \in b..last : x \in ThrownTo(m, at)
      BY ExceptionParts
    <3>2. PICK h \in Range(m.handlers) : x = [at |-> at, target |-> h.at, catchType |-> h.catchType]
      BY <3>1 DEF ThrownTo
    <3>3. x.at = at /\ x.catchType = h.catchType /\ at \in b..(last + 1)
      BY <1>1, <3>2
    <3>4. ExceptionFrame(F[x.at], x.catchType) \in FramesWith(O)
      BY <1>2, <3>3, ExceptionFrameIn
    <3>5. x.target \in DOMAIN m.graph
      BY ExceptionParts
    <3> QED BY <1>3, <3>4, <3>5
  <2> QED BY <2>1 DEF ThrownSends
<1>8. ReturnedSends(m, b, F) \subseteq S
  BY <1>2, <1>3, <1>4 DEF ReturnedSends
<1>9. SendsOf(m, b, F) \in Seq(S)
  BY <1>6, <1>7, <1>8, SendsAre
<1> QED BY <1>9 DEF VisitSends, BlockPropagations, F, S

-----------------------------------------------------------------------------
(* Where the origins of a block are not yet.                               *)

(* The origins a block's instructions give; but a first instruction that   *)
(* stores pops an empty stack, and its origin is that of increments too.   *)
NewAt(m, at) ==
    IF at = FirstOffset /\ m.code[at].op \in StoreOps THEN {} ELSE OriginGiven(m, at)
NewIn(m, b) == UNION {NewAt(m, at) : at \in b..m.graph[b].last}
Apart(m, b) == Origins \ NewIn(m, b)

LEMMA ApartParts ==
    ASSUME NEW m \in Methods, NEW b \in DOMAIN m.graph
    PROVE  /\ None \in Apart(m, b) /\ Apart(m, b) \subseteq Origins
           /\ {None} \cup [k : {"entry"}, slot : Nat] \subseteq Apart(m, b)
<1>1. \A at : \A o \in NewAt(m, at) : o.k \in {"allocation", "store"} /\ o # None
  BY DEF NewAt, OriginGiven, AllocationOrigin, StoreOrigin, None
<1> QED BY <1>1 DEF Apart, NewIn, Origins

LEMMA MadeElsewhere ==
    ASSUME NEW m \in Methods, NEW at \in DOMAIN m.code, NEW other \in DOMAIN m.code, at # other
    PROVE  OriginMade(m, other) \subseteq Origins \ NewAt(m, at)
<1>1. OriginMade(m, other) \subseteq Origins
  BY OriginsMade
<1>2. ASSUME NEW o \in OriginMade(m, other), o \in NewAt(m, at) PROVE FALSE
  BY <1>2 DEF NewAt, OriginGiven, OriginMade, AllocationOrigin, StoreOrigin
<1> QED BY <1>1, <1>2

LEMMA MadeInOtherBlock ==
    ASSUME NEW m \in Methods, NEW b \in DOMAIN m.graph, NEW c \in DOMAIN m.graph, b # c,
           NEW at \in c..m.graph[c].last
    PROVE  OriginMade(m, at) \subseteq Apart(m, b)
<1>1. /\ at \in DOMAIN m.code
      /\ \A x \in b..m.graph[b].last : x \in DOMAIN m.code /\ x # at
  BY CodeParts, BlockParts, BlocksAreDisjoint
<1>2. OriginMade(m, at) \subseteq Origins
  BY <1>1, OriginsMade
<1>3. ASSUME NEW x \in b..m.graph[b].last PROVE OriginMade(m, at) \cap NewAt(m, x) = {}
  BY <1>1, MadeElsewhere
<1> QED BY <1>2, <1>3 DEF Apart, NewIn

LEMMA FramesWiden ==
    ASSUME NEW O, NEW P, O \subseteq P
    PROVE  FramesWith(O) \subseteq FramesWith(P)
<1>1. \A slot \in SlotsWith(O) : slot \in SlotsWith(P)
  BY DEF SlotsWith
<1> DEFINE S == SlotsWith(O)
           T == SlotsWith(P)
<1>2. S \subseteq T
  BY <1>1
<1> HIDE DEF S, T
<1>3. Seq(S) \subseteq Seq(T)
  BY <1>2
<1> QED BY <1>3 DEF FramesWith, S, T

(* Before an instruction of the block, its origin is still not there.      *)
LEMMA NewWithin ==
    ASSUME NEW m \in Methods, NEW b \in DOMAIN m.graph, NEW f \in FramesWith(Apart(m, b)),
           NEW at \in b..m.graph[b].last
    PROVE  FramesIn(m, b, f, Env(m))[at] \in FramesWith(Origins \ NewAt(m, at))
<1> DEFINE O == Origins \ NewAt(m, at)
<1>1. Apart(m, b) \subseteq O /\ None \in O /\ O \subseteq Origins
  BY ApartParts DEF Apart, NewIn
<1>2. /\ at \in DOMAIN m.code /\ at \in b..(m.graph[b].last + 1)
      /\ \A x \in b..(at - 1) : x \in DOMAIN m.code /\ x # at
  BY CodeParts, BlockParts
<1>3. \A x \in b..(at - 1) : OriginMade(m, x) \subseteq O
  BY <1>2, MadeElsewhere
<1> HIDE DEF O
<1>4. f \in FramesWith(O)
  BY <1>1, FramesWiden
<1>5. \A x \in b..at : FramesIn(m, b, f, Env(m))[x] \in FramesWith(O)
  BY <1>1, <1>2, <1>3, <1>4, FramesInWith
<1>6. at \in b..at
  BY <1>2
<1> QED BY <1>5, <1>6 DEF O

LEMMA VisitSendsApart ==
    ASSUME NEW m \in Methods, NEW b \in DOMAIN m.graph, NEW c \in DOMAIN m.graph, b # c,
           NEW f \in FramesWith(Apart(m, b))
    PROVE  VisitSends(m, c, f) \in Seq([target : DOMAIN m.graph, frame : FramesWith(Apart(m, b))])
BY ApartParts, MadeInOtherBlock, VisitSendsIn

-----------------------------------------------------------------------------
(* The loop of the whole: what MethodSolver takes of its parameters.       *)
Loop == INSTANCE MethodSolver_proofs WITH
    Frames <- AllFrames,
    Blocks <- GraphBlocks,
    EntryBlock <- GraphEntry,
    EntryState <- EntryFrame,
    Propagations <- VisitSends,
    Reports <- VisitReports,
    Merge <- MergedFrame,
    Mismatch <- HeightMismatch,
    Covers <- StandsForFrame

LEMMA EntryApart ==
    ASSUME NEW m \in Methods, NEW b \in DOMAIN m.graph
    PROVE  EntryFrame(m) \in FramesWith(Apart(m, b))
BY EntryIn, ApartParts, FramesWiden

LEMMA EntryIsFrame ==
    ASSUME NEW m \in Methods
    PROVE  EntryFrame(m) \in AllFrames
<1>1. {None} \cup [k : {"entry"}, slot : Nat] \subseteq Origins
  BY DEF Origins
<1> QED BY <1>1, EntryIn, SlotsAmongAll

LEMMA LimitsAreNotVisits ==
    ASSUME NEW m, NEW b, NEW f
    PROVE  "AnalysisLimitReached" \notin VisitReports(m, b, f)
<1>1. \A at, g : "AnalysisLimitReached" \notin TransferDiagnostics(m, at, g, Env(m))
  BY DEF TransferDiagnostics
<1> QED BY <1>1 DEF VisitReports, BlockReports, ReportsOf

LEMMA LoopGraph == Loop!GraphAssumption
<1> SUFFICES ASSUME NEW m \in Methods
             PROVE  /\ GraphBlocks(m) # {} => GraphEntry(m) \in GraphBlocks(m)
                    /\ EntryFrame(m) \in AllFrames
                    /\ \A b \in GraphBlocks(m), f \in AllFrames :
                          /\ VisitSends(m, b, f)
                                \in Seq([target : GraphBlocks(m), frame : AllFrames])
                          /\ "AnalysisLimitReached" \notin VisitReports(m, b, f)
  OBVIOUS
<1>1. GraphBlocks(m) # {} => GraphEntry(m) \in GraphBlocks(m)
  <2>1. GraphBlocks(m) # {} => m.code # <<>>
    BY CodeParts DEF GraphBlocks
  <2> QED BY <2>1, CodeParts DEF GraphBlocks, GraphEntry
<1>2. ASSUME NEW b \in GraphBlocks(m), NEW f \in AllFrames
      PROVE  VisitSends(m, b, f) \in Seq([target : GraphBlocks(m), frame : AllFrames])
  <2>1. b \in DOMAIN m.graph /\ GraphBlocks(m) = DOMAIN m.graph
    BY DEF GraphBlocks
  <2>2. \A at \in b..m.graph[b].last : OriginMade(m, at) \subseteq Origins
    BY <2>1, CodeParts, BlockParts, OriginsMade
  <2>3. f \in FramesWith(Origins)
    BY NoneIsOrigin
  <2>4. VisitSends(m, b, f) \in Seq([target : DOMAIN m.graph, frame : FramesWith(Origins)])
    BY <2>1, <2>2, <2>3, NoneIsOrigin, VisitSendsIn
  <2> QED BY <2>1, <2>4, NoneIsOrigin
<1> QED BY <1>1, <1>2, EntryIsFrame, LimitsAreNotVisits

LEMMA LoopMerge == Loop!MergeAssumption
<1>1. RightAboutValues(Hierarchy, Supertypes)
  BY HierarchyIsRight
<1>2. \A a, b \in AllFrames :
          /\ MergedFrame(a, b) \in AllFrames
          /\ StandsForFrame(MergedFrame(a, b), a) /\ StandsForFrame(MergedFrame(a, b), b)
  BY <1>1, MergeFrameCovers DEF MergedFrame, StandsForFrame
<1>3. \A a \in AllFrames : StandsForFrame(a, a) /\ ~HeightMismatch(a, a)
  BY CoveringIsReflexive DEF StandsForFrame, HeightMismatch
<1>4. \A a, b, c \in AllFrames :
          StandsForFrame(a, b) /\ StandsForFrame(b, c) => StandsForFrame(a, c)
  BY CoveringIsTransitive DEF StandsForFrame
<1>5. \A a, b, c \in AllFrames : ~HeightMismatch(a, b) =>
          (HeightMismatch(MergedFrame(a, b), c) <=> HeightMismatch(a, c))
  BY <1>1, MergeFrameCovers DEF HeightMismatch, MergedFrame
<1> QED BY <1>2, <1>3, <1>4, <1>5

LEMMA LoopStarts == Solver!Init => Loop!ClosureInv
BY LoopGraph, LoopMerge, LimitsAssumption, Loop!ClosureInit DEF Solver!Init, Loop!Init, Solver!EntryBlocks, Loop!EntryBlocks

LEMMA LoopsAreOne == (Solver!Next <=> Loop!Next)
<1>1. Solver!StopAtWorkItemLimit <=> Loop!StopAtWorkItemLimit
  BY DEF Solver!StopAtWorkItemLimit, Loop!StopAtWorkItemLimit, Solver!WorkItemsExceeded,
         Loop!WorkItemsExceeded, Solver!Pop, Loop!Pop, Solver!Idle, Loop!Idle,
         Solver!Counted, Loop!Counted
<1>2. Solver!SkipBlock <=> Loop!SkipBlock
  BY DEF Solver!SkipBlock, Loop!SkipBlock, Solver!WorkItemsExceeded, Loop!WorkItemsExceeded,
         Solver!CountVisit, Loop!CountVisit, Solver!BlockIterationsExceeded,
         Loop!BlockIterationsExceeded, Solver!Pop, Loop!Pop, Solver!Idle, Loop!Idle,
         Solver!Counted, Loop!Counted
<1>3. Solver!VisitBlock <=> Loop!VisitBlock
  BY DEF Solver!VisitBlock, Loop!VisitBlock, Solver!WorkItemsExceeded,
         Loop!WorkItemsExceeded, Solver!CountVisit, Loop!CountVisit,
         Solver!BlockIterationsExceeded, Loop!BlockIterationsExceeded, Solver!Pop, Loop!Pop,
         Solver!Idle, Loop!Idle, Solver!Counted, Loop!Counted
<1>4. Solver!PropagateFrame <=> Loop!PropagateFrame
  BY DEF Solver!PropagateFrame, Loop!PropagateFrame, Solver!Enqueue, Loop!Enqueue,
         Solver!Unchanged, Loop!Unchanged, Solver!Merged, Loop!Merged
<1>5. Solver!Finish <=> Loop!Finish
  BY DEF Solver!Finish, Loop!Finish, Solver!Idle, Loop!Idle
<1>6. Solver!Next <=> Loop!Next
  BY <1>1, <1>2, <1>3, <1>4, <1>5 DEF Solver!Next, Loop!Next
<1> QED BY <1>6

LEMMA LoopSteps == Loop!ClosureInv /\ [Solver!Next]_solverVars => Loop!ClosureInv'
<1>1. Loop!ConfigAssumption
  BY LimitsAssumption
<1>2. Loop!ClosureInv /\ [Loop!Next]_(Loop!vars) => Loop!ClosureInv'
  BY LoopGraph, LoopMerge, <1>1, Loop!ClosureStep
<1>3. [Solver!Next]_solverVars => [Loop!Next]_(Loop!vars)
  BY LoopsAreOne DEF solverVars, Loop!vars
<1> QED BY <1>2, <1>3

-----------------------------------------------------------------------------
(* No origin is met before the instruction that gives it, at the head of a *)
(* loop either: until a block is reached nothing on its way to any block   *)
(* has an origin from it, and what is there first stays when others merge. *)
OriginsApart ==
    \A b \in DOMAIN method.graph :
        IF b \in DOMAIN incoming THEN incoming[b] \in FramesWith(Apart(method, b))
        ELSE /\ \A c \in DOMAIN incoming : incoming[c] \in FramesWith(Apart(method, b))
             /\ \A n \in DOMAIN outgoing : outgoing[n].frame \in FramesWith(Apart(method, b))

LEMMA LoopTyped ==
    ASSUME Loop!TypeInv
    PROVE  /\ method \in Methods
           /\ DOMAIN incoming \subseteq DOMAIN method.graph
           /\ \A b \in DOMAIN incoming : incoming[b] \in AllFrames
           /\ outgoing \in Seq([target : DOMAIN method.graph, frame : AllFrames])
BY DEF Loop!TypeInv, Loop!TypeOK, GraphBlocks

LEMMA ApartStarts == Loop!Init => OriginsApart
<1> SUFFICES ASSUME Loop!Init PROVE OriginsApart
  OBVIOUS
<1>1. /\ method \in Methods /\ outgoing = <<>>
      /\ \A b \in DOMAIN incoming : incoming[b] = EntryFrame(method)
  BY DEF Loop!Init
<1> QED BY <1>1, EntryApart DEF OriginsApart

(* What a visit sends.                                                     *)
LEMMA VisitStaysApart ==
    ASSUME Loop!TypeInv, OriginsApart, Loop!VisitBlock
    PROVE  OriginsApart'
<1>1. /\ current' \in DOMAIN incoming
      /\ method' = method /\ incoming' = incoming
      /\ outgoing' = VisitSends(method, current', incoming[current'])
  BY LoopGraph, LoopMerge, LimitsAssumption, Loop!PopTyped DEF Loop!VisitBlock, Loop!Pop
<1>2. ASSUME NEW b \in DOMAIN method.graph, b \notin DOMAIN incoming, NEW n \in DOMAIN outgoing'
      PROVE  outgoing'[n].frame \in FramesWith(Apart(method, b))
  <2> DEFINE S == [target : DOMAIN method.graph, frame : FramesWith(Apart(method, b))]
  <2>1. current' \in DOMAIN method.graph /\ b # current' /\ method \in Methods
    BY <1>1, <1>2, LoopTyped
  <2>2. incoming[current'] \in FramesWith(Apart(method, b))
    BY <1>1, <1>2 DEF OriginsApart
  <2>3. outgoing' \in Seq(S)
    BY <1>1, <2>1, <2>2, VisitSendsApart
  <2> HIDE DEF S
  <2>4. outgoing'[n] \in S
    BY <1>2, <2>3
  <2> QED BY <2>4 DEF S
<1> QED BY <1>1, <1>2 DEF OriginsApart

(* A frame that is sent becomes the state of the block or part of it.      *)
LEMMA MergeStaysApart ==
    ASSUME Loop!TypeInv, OriginsApart, Loop!PropagateFrame
    PROVE  OriginsApart'
<1> DEFINE t == outgoing[sent + 1].target
           f == outgoing[sent + 1].frame
<1>1. /\ method' = method /\ outgoing' = outgoing
      /\ incoming' = [b \in DOMAIN incoming \cup {t} |->
                         IF b = t THEN Loop!Merged(t, f) ELSE incoming[b]]
  BY DEF Loop!PropagateFrame
<1>2. sent + 1 \in DOMAIN outgoing /\ f \in AllFrames
  BY LoopGraph, LoopMerge, LimitsAssumption, Loop!NextSendTyped DEF Loop!PropagateFrame
<1>3. Loop!Merged(t, f) = IF t \in DOMAIN incoming
                          THEN MergeFrame(incoming[t], f, Hierarchy) ELSE f
  BY DEF Loop!Merged, MergedFrame
<1> HIDE DEF t, f
<1>4. ASSUME NEW b \in DOMAIN method.graph, NEW g \in FramesWith(Apart(method, b))
      PROVE  MergeFrame(g, f, Hierarchy) \in FramesWith(Apart(method, b))
  <2>1. method \in Methods
    BY LoopTyped
  <2> QED BY <1>2, <2>1, ApartParts, HierarchyIsRight, MergeFrameCoversWith
<1>5. ASSUME NEW b \in DOMAIN method.graph, b \notin DOMAIN incoming
      PROVE  f \in FramesWith(Apart(method, b))
  BY <1>2, <1>5 DEF OriginsApart, f
<1>6. ASSUME NEW b \in DOMAIN method.graph, b \in DOMAIN incoming'
      PROVE  incoming'[b] \in FramesWith(Apart(method, b))
  BY <1>1, <1>3, <1>4, <1>5, <1>6 DEF OriginsApart
<1>7. ASSUME NEW b \in DOMAIN method.graph, b \notin DOMAIN incoming'
      PROVE  /\ \A c \in DOMAIN incoming' : incoming'[c] \in FramesWith(Apart(method, b))
             /\ \A n \in DOMAIN outgoing : outgoing[n].frame \in FramesWith(Apart(method, b))
  BY <1>1, <1>3, <1>4, <1>5, <1>7 DEF OriginsApart
<1> QED BY <1>1, <1>6, <1>7 DEF OriginsApart

LEMMA ApartSteps ==
    ASSUME Loop!TypeInv, OriginsApart, [Loop!Next]_(Loop!vars)
    PROVE  OriginsApart'
<1>1. CASE Loop!StopAtWorkItemLimit \/ Loop!SkipBlock \/ Loop!Finish \/ UNCHANGED Loop!vars
  BY <1>1 DEF Loop!StopAtWorkItemLimit, Loop!SkipBlock, Loop!Finish, Loop!vars, OriginsApart
<1> QED BY <1>1, VisitStaysApart, MergeStaysApart DEF Loop!Next

-----------------------------------------------------------------------------
(* The frames that are read off the states of the blocks.                  *)

(* The frame of an instruction, by the block it is in.                     *)
LEMMA ObservedAt ==
    ASSUME NEW m \in Methods, NEW in, DOMAIN in \subseteq DOMAIN m.graph,
           NEW b \in DOMAIN in, NEW at \in b..m.graph[b].last
    PROVE  /\ at \in DOMAIN Observations(m, in, Env(m))
           /\ Observations(m, in, Env(m))[at] = FramesIn(m, b, in[b], Env(m))[at]
<1> DEFINE reached == {c \in DOMAIN m.graph : c \in DOMAIN in}
           within(x) == CHOOSE c \in reached : c <= x /\ x <= m.graph[c].last
           covered == UNION {c..m.graph[c].last : c \in reached}
           inside == [c \in reached |-> FramesIn(m, c, in[c], Env(m))]
           frames == Observations(m, in, Env(m))
<1>1. frames = [x \in covered |-> inside[within(x)][x]]
  BY DEF Observations
<1>2. \A c \in reached : m.graph[c].last \in Nat /\ c \in Nat /\ c <= m.graph[c].last
  BY CodeParts, BlockParts
<1>3. b \in reached /\ b <= at /\ at <= m.graph[b].last /\ at \in Nat
  BY <1>2
<1>4. within(at) \in reached /\ within(at) <= at /\ at <= m.graph[within(at)].last
  BY <1>3
<1> HIDE DEF within
<1>5. at \in within(at)..m.graph[within(at)].last
  BY <1>2, <1>3, <1>4
<1>6. within(at) = b
  BY <1>3, <1>4, <1>5, BlocksAreDisjoint
<1>7. at \in covered /\ inside[b] = FramesIn(m, b, in[b], Env(m))
  BY <1>3
<1> HIDE DEF frames, covered, inside
<1> QED BY <1>1, <1>6, <1>7 DEF frames

LEMMA Observed ==
    ASSUME NEW m \in Methods, NEW in, DOMAIN in \subseteq DOMAIN m.graph,
           \A b \in DOMAIN in : in[b] \in AllFrames
    PROVE  /\ DOMAIN Observations(m, in, Env(m)) = UNION {b..m.graph[b].last : b \in DOMAIN in}
           /\ \A b \in DOMAIN in :
                 b \in DOMAIN Observations(m, in, Env(m)) /\ Observations(m, in, Env(m))[b] = in[b]
<1>1. DOMAIN Observations(m, in, Env(m)) = UNION {b..m.graph[b].last : b \in DOMAIN in}
  <2>1. {c \in DOMAIN m.graph : c \in DOMAIN in} = DOMAIN in
    OBVIOUS
  <2> QED BY <2>1 DEF Observations
<1>2. ASSUME NEW b \in DOMAIN in
      PROVE  b \in DOMAIN Observations(m, in, Env(m)) /\ Observations(m, in, Env(m))[b] = in[b]
  <2>1. b \in DOMAIN m.graph /\ b \in b..m.graph[b].last
    BY CodeParts, BlockParts
  <2>2. FramesIn(m, b, in[b], Env(m))[b] = in[b]
    BY <2>1, FramesInSteps
  <2> QED BY <2>1, <2>2, ObservedAt
<1> QED BY <1>1, <1>2

LEMMA ObservedIn ==
    ASSUME NEW m, NEW in, NEW S,
           \A at \in DOMAIN Observations(m, in, Env(m)) : Observations(m, in, Env(m))[at] \in S
    PROVE  Observations(m, in, Env(m)) \in [DOMAIN Observations(m, in, Env(m)) -> S]
<1> DEFINE frames == Observations(m, in, Env(m))
<1>1. frames = [at \in DOMAIN frames |-> frames[at]]
  BY DEF Observations
<1> HIDE DEF frames
<1> QED BY <1>1 DEF frames

-----------------------------------------------------------------------------
(* An analysis that may conclude: the states are closed under what visits  *)
(* send, nothing was reported, and origins are apart.                      *)
Ended(m, in) ==
    /\ m \in Methods
    /\ DOMAIN in \subseteq DOMAIN m.graph
    /\ \A b \in DOMAIN in : in[b] \in FramesWith(Apart(m, b))
    /\ m.code # <<>> /\ CfgDiagnostics(m) = {}
    /\ FirstOffset \in DOMAIN in /\ Admits(in[FirstOffset], EntryFrame(m))
    /\ \A b \in DOMAIN in :
          /\ VisitReports(m, b, in[b]) = {}
          /\ \A s \in Range(VisitSends(m, b, in[b])) :
                s.target \in DOMAIN in /\ Admits(in[s.target], s.frame)

(* An instruction of a block that was reached.                             *)
Stands(m, in, b, at) == Ended(m, in) /\ b \in DOMAIN in /\ at \in b..m.graph[b].last

LEMMA StandsParts ==
    ASSUME NEW m, NEW in, NEW b, NEW at, Stands(m, in, b, at)
    PROVE  LET F == FramesIn(m, b, in[b], Env(m))
               frames == Observations(m, in, Env(m))
           IN  /\ m \in Methods /\ b \in DOMAIN m.graph
               /\ in[b] \in FramesWith(Apart(m, b)) /\ in[b] \in AllFrames
               /\ at \in DOMAIN m.code /\ at \in Nat /\ m.graph[b].last \in Nat
               /\ frames[at] = F[at] /\ F[at] \in AllFrames
               /\ F[at + 1] = Transfer(m, at, F[at], Env(m))
               /\ at < m.graph[b].last => frames[at + 1] = F[at + 1] /\ at + 1 \in DOMAIN frames
<1> DEFINE F == FramesIn(m, b, in[b], Env(m))
           frames == Observations(m, in, Env(m))
<1>1. /\ m \in Methods /\ b \in DOMAIN m.graph /\ b \in DOMAIN in
      /\ in[b] \in FramesWith(Apart(m, b))
      /\ DOMAIN in \subseteq DOMAIN m.graph
      /\ at \in b..m.graph[b].last
  BY DEF Stands, Ended
<1>2. \A c \in DOMAIN in : in[c] \in AllFrames
  BY ApartParts, SlotsAmongAll DEF Stands, Ended
<1>3. /\ m.graph[b].last \in Nat /\ b \in Nat /\ at \in Nat /\ at \in DOMAIN m.code
      /\ b..m.graph[b].last \subseteq DOMAIN m.code
      /\ m.graph[b].last + 1 \in b..(m.graph[b].last + 1)
      /\ (m.graph[b].last + 1) - 1 = m.graph[b].last
      /\ at \in b..(m.graph[b].last + 1)
  BY <1>1, CodeParts, BlockParts
<1>4. F[at] \in AllFrames
  <2>1. \A x \in b..m.graph[b].last : OriginMade(m, x) \subseteq Origins
    BY <1>1, <1>3, OriginsMade
  <2>2. \A x \in b..(m.graph[b].last + 1) : F[x] \in FramesWith(Origins)
    BY <1>1, <1>2, <1>3, <2>1, NoneIsOrigin, FramesInWith
  <2> QED BY <1>3, <2>2, NoneIsOrigin
<1>5. F[at + 1] = Transfer(m, at, F[at], Env(m))
  BY <1>1, <1>2, FramesInSteps
<1>6. \A x \in b..m.graph[b].last : frames[x] = F[x] /\ x \in DOMAIN frames
  <2>1. ASSUME NEW x \in b..m.graph[b].last
        PROVE  /\ x \in DOMAIN Observations(m, in, Env(m))
               /\ Observations(m, in, Env(m))[x] = FramesIn(m, b, in[b], Env(m))[x]
    <3>1. b \in DOMAIN in /\ m \in Methods /\ DOMAIN in \subseteq DOMAIN m.graph
      BY <1>1
    <3> HIDE DEF F, frames
    <3> QED BY <3>1, ObservedAt
  <2> QED BY <2>1
<1>7. at < m.graph[b].last => at + 1 \in b..m.graph[b].last
  BY <1>1, <1>3
<1> HIDE DEF F, frames
<1> QED BY <1>1, <1>2, <1>3, <1>4, <1>5, <1>6, <1>7 DEF F, frames

(* What was sent was received.                                             *)
LEMMA SentIsAdmitted ==
    ASSUME NEW m, NEW in, NEW b, NEW at, Stands(m, in, b, at)
    PROVE  LET F == FramesIn(m, b, in[b], Env(m))
           IN  \A s \in OrdinarySends(m, b, F) \cup ThrownSends(m, b, F) \cup ReturnedSends(m, b, F) :
                   AdmitsAt(Observations(m, in, Env(m)), s.target, s.frame)
<1> DEFINE F == FramesIn(m, b, in[b], Env(m))
           all == OrdinarySends(m, b, F) \cup ThrownSends(m, b, F) \cup ReturnedSends(m, b, F)
<1>1. /\ m \in Methods /\ b \in DOMAIN m.graph /\ b \in DOMAIN in
      /\ DOMAIN in \subseteq DOMAIN m.graph
      /\ \A s \in Range(VisitSends(m, b, in[b])) :
            s.target \in DOMAIN in /\ Admits(in[s.target], s.frame)
  BY DEF Stands, Ended
<1>2. \A c \in DOMAIN in : in[c] \in AllFrames
  BY ApartParts, SlotsAmongAll DEF Stands, Ended
<1>3. Range(VisitSends(m, b, in[b])) = all
  BY <1>1, SendsAre DEF VisitSends, BlockPropagations
<1>4. \A c \in DOMAIN in : c \in DOMAIN Observations(m, in, Env(m)) /\ Observations(m, in, Env(m))[c] = in[c]
  BY <1>1, <1>2, Observed
<1> HIDE DEF all
<1>5. \A s \in all : AdmitsAt(Observations(m, in, Env(m)), s.target, s.frame)
  BY <1>1, <1>3, <1>4 DEF AdmitsAt
<1> QED BY <1>5 DEF all

LEMMA TargetsAreOffsets ==
    ASSUME NEW m \in Methods, CfgDiagnostics(m) = {}, m.code # <<>>
    PROVE  /\ \A at \in DOMAIN m.code : Range(InstructionTargets(m.code[at])) \subseteq Offsets(m)
           /\ \A h \in Range(m.handlers) : h.at \in Offsets(m)
BY DEF CfgDiagnostics

LEMMA SuccessorsAreOffsets ==
    ASSUME NEW m \in Methods, CfgDiagnostics(m) = {}, m.code # <<>>, NEW at \in DOMAIN m.code,
           NEW e \in Range(OrdinarySuccessors(m, at))
    PROVE  e.target \in Offsets(m)
<1>1. Range(InstructionTargets(m.code[at])) \subseteq Offsets(m)
  BY TargetsAreOffsets
<1> QED BY <1>1, OrdinarySuccessorsSeq, CodeParts DEF Edge

-----------------------------------------------------------------------------
LEMMA ReportedNothing ==
    ASSUME NEW m, NEW in, NEW b, NEW at, Stands(m, in, b, at)
    PROVE  LET F == FramesIn(m, b, in[b], Env(m))
           IN  /\ TransferDiagnostics(m, at, F[at], Env(m)) = {}
               /\ ReturnAddresses(m, b, F).known
               /\ ReturnAddresses(m, b, F).at \subseteq DOMAIN m.graph
<1> DEFINE F == FramesIn(m, b, in[b], Env(m))
<1>1. VisitReports(m, b, in[b]) = {} /\ at \in b..m.graph[b].last
  BY DEF Stands, Ended
<1>2. ReportsOf(m, b, F, Env(m)) = {}
  BY <1>1 DEF VisitReports, BlockReports
<1> HIDE DEF F
<1>3. TransferDiagnostics(m, at, F[at], Env(m)) = {}
  BY <1>1, <1>2 DEF ReportsOf
<1>4. ReturnAddresses(m, b, F).known /\ ReturnAddresses(m, b, F).at \subseteq DOMAIN m.graph
  BY <1>2 DEF ReportsOf
<1> QED BY <1>3, <1>4 DEF F

LEMMA AdmitsItself ==
    ASSUME NEW f
    PROVE  Admits(f, f)
BY CoveringIsReflexive DEF Admits, HeightMismatch

(* Along the edges at the end of a block, and from one instruction of the  *)
(* block to the next.                                                      *)
LEMMA EdgesEnd ==
    ASSUME NEW m, NEW in, NEW b, NEW at, Stands(m, in, b, at)
    PROVE  LET frames == Observations(m, in, Env(m))
           IN  EdgesClosed(m, frames, at, Transfer(m, at, frames[at], Env(m)))
<1> DEFINE F == FramesIn(m, b, in[b], Env(m))
           frames == Observations(m, in, Env(m))
           op == m.code[at].op
<1>1. /\ m \in Methods /\ b \in DOMAIN m.graph
      /\ at \in DOMAIN m.code /\ at \in Nat /\ m.graph[b].last \in Nat
      /\ frames[at] = F[at] /\ F[at + 1] = Transfer(m, at, F[at], Env(m))
      /\ at < m.graph[b].last => frames[at + 1] = F[at + 1] /\ at + 1 \in DOMAIN frames
  BY StandsParts
<1>2. /\ m.code # <<>> /\ CfgDiagnostics(m) = {} /\ at \in b..m.graph[b].last /\ b \in DOMAIN in
  BY DEF Stands, Ended
<1>3. \A s \in OrdinarySends(m, b, F) : AdmitsAt(frames, s.target, s.frame)
  BY SentIsAdmitted
<1> HIDE DEF F, frames
<1> SUFFICES ASSUME NEW e \in Range(OrdinarySuccessors(m, at)),
                    EdgeIsFeasible(op, e.kind, Top(F[at]))
             PROVE  AdmitsAt(frames, e.target, EdgeFrame(op, e.kind, Top(F[at]), F[at + 1]))
  BY <1>1 DEF EdgesClosed, frames
<1>4. CASE at = m.graph[b].last
  <2>1. e \in Range(m.graph[b].successors)
    BY <1>1, <1>2, <1>4, SuccessorsAreOffsets, SuccessorParts
  <2>2. Send(e.target, EdgeFrame(op, e.kind, Top(F[at]), F[at + 1])) \in OrdinarySends(m, b, F)
    BY <1>4, <2>1 DEF OrdinarySends
  <2> QED BY <1>3, <2>2 DEF Send
<1>5. CASE at # m.graph[b].last
  <2>1. at < m.graph[b].last /\ at \in b..(m.graph[b].last - 1)
    BY <1>1, <1>2, <1>5, CodeParts, BlockParts
  <2>2. ~EndsBlock(op)
    BY <1>1, <2>1, BlockParts
  <2>3. OrdinarySuccessors(m, at) = FallThrough(m, at) /\ op \notin {"ifeq", "ifne"}
    BY <1>1, <2>2, InsideBlock
  <2>4. e = Edge("fallThrough", at + 1)
    <3>1. FallThrough(m, at) \in {<<Edge("fallThrough", at + 1)>>, <<>>}
      BY DEF FallThrough
    <3> QED BY <2>3, <3>1, EdgesOf
  <2>5. e.target = at + 1
    BY <2>4 DEF Edge
  <2>6. EdgeFrame(op, e.kind, Top(F[at]), F[at + 1]) = F[at + 1]
    BY <2>3 DEF EdgeFrame, InstanceofTrueEdge
  <2> QED BY <1>1, <2>1, <2>5, <2>6, AdmitsItself DEF AdmitsAt
<1> QED BY <1>4, <1>5

LEMMA HandlersEnd ==
    ASSUME NEW m, NEW in, NEW b, NEW at, Stands(m, in, b, at)
    PROVE  HandlersClosed(m, Observations(m, in, Env(m)), at)
<1> DEFINE F == FramesIn(m, b, in[b], Env(m))
           frames == Observations(m, in, Env(m))
<1>1. m \in Methods /\ b \in DOMAIN m.graph /\ frames[at] = F[at]
  BY StandsParts
<1>2. /\ m.code # <<>> /\ CfgDiagnostics(m) = {} /\ at \in b..m.graph[b].last
  BY DEF Stands, Ended
<1>3. \A s \in ThrownSends(m, b, F) : AdmitsAt(frames, s.target, s.frame)
  BY SentIsAdmitted
<1> HIDE DEF F, frames
<1>4. ASSUME NEW h \in Range(m.handlers), MayThrow(m.code[at].op), h.from <= at, at < h.to
      PROVE  AdmitsAt(frames, h.at, ExceptionFrame(frames[at], h.catchType))
  <2> DEFINE x == [at |-> at, target |-> h.at, catchType |-> h.catchType]
  <2>1. h.at \in Offsets(m)
    BY <1>1, <1>2, TargetsAreOffsets
  <2>2. x \in ThrownTo(m, at)
    BY <1>4, <2>1 DEF ThrownTo
  <2>3. x \in Range(m.graph[b].exceptions)
    BY <1>1, <1>2, <2>2, ExceptionParts
  <2>4. Send(x.target, ExceptionFrame(F[x.at], x.catchType)) \in ThrownSends(m, b, F)
    BY <2>3 DEF ThrownSends
  <2>5. AdmitsAt(frames, x.target, ExceptionFrame(F[x.at], x.catchType))
    BY <1>3, <2>4 DEF Send
  <2> QED BY <1>1, <2>5
<1> QED BY <1>4 DEF HandlersClosed, frames

LEMMA ReturnsEnd ==
    ASSUME NEW m, NEW in, NEW b, NEW at, Stands(m, in, b, at)
    PROVE  LET frames == Observations(m, in, Env(m))
           IN  ReturnsClosed(m, frames, at, Transfer(m, at, frames[at], Env(m)))
<1> DEFINE F == FramesIn(m, b, in[b], Env(m))
           frames == Observations(m, in, Env(m))
<1>1. /\ m \in Methods /\ b \in DOMAIN m.graph /\ at \in b..m.graph[b].last
      /\ at \in Nat /\ m.graph[b].last \in Nat
      /\ frames[at] = F[at] /\ F[at + 1] = Transfer(m, at, F[at], Env(m))
  BY StandsParts DEF Stands
<1>2. \A s \in ReturnedSends(m, b, F) : AdmitsAt(frames, s.target, s.frame)
  BY SentIsAdmitted
<1>3. ReturnAddresses(m, b, F).known /\ ReturnAddresses(m, b, F).at \subseteq DOMAIN m.graph
  BY ReportedNothing
<1> HIDE DEF F, frames
<1> SUFFICES ASSUME m.code[at].op = "ret"
             PROVE  LET targets == LocalSlot(F[at], m.code[at].local).targets
                    IN  targets.known /\ \A t \in targets.at : AdmitsAt(frames, t, F[at + 1])
  BY <1>1 DEF ReturnsClosed, frames
<1>4. at = m.graph[b].last
  <2>1. EndsBlock(m.code[at].op)
    BY DEF EndsBlock
  <2>2. at \notin b..(m.graph[b].last - 1)
    BY <1>1, <2>1, BlockParts
  <2> QED BY <1>1, <2>2, CodeParts
<1>5. ReturnAddresses(m, b, F) = LocalSlot(F[at], m.code[at].local).targets
  BY <1>4 DEF ReturnAddresses
<1>6. ASSUME NEW t \in ReturnAddresses(m, b, F).at PROVE AdmitsAt(frames, t, F[at + 1])
  <2>1. Send(t, F[at + 1]) \in ReturnedSends(m, b, F)
    BY <1>3, <1>4 DEF ReturnedSends
  <2> QED BY <1>2, <2>1 DEF Send
<1> QED BY <1>3, <1>5, <1>6

LEMMA OriginsEnd ==
    ASSUME NEW m, NEW in, NEW b, NEW at, Stands(m, in, b, at)
    PROVE  OriginsAreNew(m, Observations(m, in, Env(m))[at], at)
<1> DEFINE F == FramesIn(m, b, in[b], Env(m))
           O == Origins \ NewAt(m, at)
           f == F[at]
<1>1. /\ m \in Methods /\ b \in DOMAIN m.graph /\ at \in b..m.graph[b].last
      /\ in[b] \in FramesWith(Apart(m, b)) /\ at \in DOMAIN m.code
      /\ Observations(m, in, Env(m))[at] = f
  BY StandsParts DEF Stands
<1>2. f \in FramesWith(O)
  BY <1>1, NewWithin
<1>3. OriginGiven(m, at) = NewAt(m, at)
  <2>1. CASE at = FirstOffset /\ m.code[at].op \in StoreOps
    <3>1. at = b /\ F[b] = in[b] /\ FirstOffset \in DOMAIN in /\ Admits(in[FirstOffset], EntryFrame(m))
      <4>1. FirstOffset \in DOMAIN in /\ Admits(in[FirstOffset], EntryFrame(m))
            /\ DOMAIN in \subseteq DOMAIN m.graph
        BY DEF Stands, Ended
      <4>2. FirstOffset \in FirstOffset..m.graph[FirstOffset].last
        BY <1>1, <4>1, CodeParts, BlockParts
      <4>3. b = FirstOffset
        BY <1>1, <2>1, <4>1, <4>2, BlocksAreDisjoint
      <4>4. in[b] \in AllFrames
        BY <1>1, ApartParts, SlotsAmongAll
      <4> QED BY <1>1, <2>1, <4>1, <4>3, <4>4, FramesInSteps
    <3>2. Len(f.stack) = 0
      BY <2>1, <3>1 DEF Admits, HeightMismatch, EntryFrame
    <3>3. TransferDiagnostics(m, at, f, Env(m)) = {}
      BY ReportedNothing
    <3> HIDE DEF F, f
    <3> QED BY <2>1, <3>2, <3>3 DEF TransferDiagnostics
  <2>2. CASE ~(at = FirstOffset /\ m.code[at].op \in StoreOps)
    BY <2>2 DEF NewAt
  <2> QED BY <2>1, <2>2
<1>4. None \in O
  BY ApartParts DEF NewAt, OriginGiven, Origins, AllocationOrigin, StoreOrigin, None
<1> HIDE DEF F, f, O
<1>5. \A slot \in SlotsWith(O) : OriginsOf(slot) \subseteq O
  BY <1>4, SlotWithParts DEF OriginsOf
<1>6. \A n \in Slots(m) : LocalSlot(f, n) \in SlotsWith(O)
  BY <1>2, <1>4, LocalSlotWith DEF Slots
<1>7. \A n \in DOMAIN f.stack : f.stack[n] \in SlotsWith(O)
  <2> DEFINE S == SlotsWith(O)
  <2>1. f.stack \in Seq(S)
    BY <1>2, FrameWithParts
  <2> HIDE DEF S
  <2>2. \A n \in DOMAIN f.stack : f.stack[n] \in S
    BY <2>1
  <2> QED BY <2>2 DEF S
<1> QED BY <1>1, <1>3, <1>5, <1>6, <1>7 DEF OriginsAreNew, O

LEMMA EndedIsClosed ==
    ASSUME NEW m, NEW in, Ended(m, in)
    PROVE  Closed(Env(m), m, Observations(m, in, Env(m)))
<1> DEFINE frames == Observations(m, in, Env(m))
<1>1. /\ m \in Methods /\ DOMAIN in \subseteq DOMAIN m.graph
      /\ FirstOffset \in DOMAIN in /\ Admits(in[FirstOffset], EntryFrame(m))
  BY DEF Ended
<1>2. \A b \in DOMAIN in : in[b] \in AllFrames
  BY ApartParts, SlotsAmongAll DEF Ended
<1>3. /\ DOMAIN frames = UNION {b..m.graph[b].last : b \in DOMAIN in}
      /\ \A b \in DOMAIN in : b \in DOMAIN frames /\ frames[b] = in[b]
  BY <1>1, <1>2, Observed
<1> HIDE DEF frames
<1>4. AdmitsAt(frames, FirstOffset, EntryFrame(m))
  BY <1>1, <1>3 DEF AdmitsAt
<1>5. ASSUME NEW at \in DOMAIN frames
      PROVE  LET after == Transfer(m, at, frames[at], Env(m))
             IN  /\ frames[at] \in AllFrames /\ at \in DOMAIN m.code
                 /\ TransferDiagnostics(m, at, frames[at], Env(m)) = {}
                 /\ EdgesClosed(m, frames, at, after)
                 /\ HandlersClosed(m, frames, at)
                 /\ ReturnsClosed(m, frames, at, after)
                 /\ OriginsAreNew(m, frames[at], at)
  <2>1. PICK b \in DOMAIN in : at \in b..m.graph[b].last
    BY <1>3
  <2>2. Stands(m, in, b, at)
    BY <2>1 DEF Stands
  <2>3. frames[at] \in AllFrames /\ at \in DOMAIN m.code
        /\ frames[at] = FramesIn(m, b, in[b], Env(m))[at]
    BY <2>2, StandsParts DEF frames
  <2>4. TransferDiagnostics(m, at, frames[at], Env(m)) = {}
    BY <2>2, <2>3, ReportedNothing
  <2>5. EdgesClosed(m, frames, at, Transfer(m, at, frames[at], Env(m)))
    BY <2>2, EdgesEnd DEF frames
  <2>6. HandlersClosed(m, frames, at)
    BY <2>2, HandlersEnd DEF frames
  <2>7. ReturnsClosed(m, frames, at, Transfer(m, at, frames[at], Env(m)))
    BY <2>2, ReturnsEnd DEF frames
  <2>8. OriginsAreNew(m, frames[at], at)
    BY <2>2, OriginsEnd DEF frames
  <2> QED BY <2>3, <2>4, <2>5, <2>6, <2>7, <2>8
<1>6. frames \in [DOMAIN frames -> AllFrames]
  BY <1>5, ObservedIn DEF frames
<1>7. DOMAIN frames \subseteq DOMAIN m.code
  BY <1>5
<1> QED BY <1>4, <1>5, <1>6, <1>7 DEF Closed, frames

-----------------------------------------------------------------------------
(* One type per slot for the whole method: what rows of types hold of a    *)
(* value in a slot, and that merging rows loses none of it.                *)

TypeAt(row, n) == IF n < Len(row) THEN row[n + 1] ELSE Bottom
Rows == Seq(AllTypes)

LEMMA TypeAtIsType ==
    ASSUME NEW row \in Rows, NEW n \in Nat
    PROVE  TypeAt(row, n) \in AllTypes
<1>1. n < Len(row) => row[n + 1] \in AllTypes
  BY DEF Rows
<1> QED BY <1>1, ConflictIsType DEF TypeAt

LEMMA TypesOfFrame ==
    ASSUME NEW f \in AllFrames
    PROVE  TypesOf(f.locals) \in Rows
<1>1. f.locals \in Seq(AllSlots) /\ \A slot \in AllSlots : slot.type \in AllTypes
  BY FrameParts, SlotParts
<1>2. DOMAIN f.locals = 1..Len(f.locals) /\ \A n \in DOMAIN f.locals : f.locals[n] \in AllSlots
  <2> DEFINE S == AllSlots
  <2> HIDE DEF S
  <2>1. f.locals \in Seq(S)
    BY <1>1 DEF S
  <2> QED BY <2>1 DEF S
<1>3. Len(f.locals) \in Nat /\ \A n \in DOMAIN f.locals : f.locals[n].type \in AllTypes
  BY <1>1, <1>2
<1> QED BY <1>2, <1>3 DEF TypesOf, Rows

(* A slot that holds nothing is described by any type.                     *)
LEMMA BottomIsLeast ==
    ASSUME NEW t, NEW v, Describes(Bottom, v)
    PROVE  Describes(t, v)
BY DEF Describes, DescribesIn, DescribesOne, Bottom, Conflict, Unknown, IsReference, IsIntegral,
       Long, ReturnAddress

LEMMA MergeTypesCovers ==
    ASSUME NEW a \in Rows, NEW b \in Rows
    PROVE  /\ MergeTypes(a, b) \in Rows
           /\ \A n \in Nat, v \in Values :
                 Describes(TypeAt(a, n), v) \/ Describes(TypeAt(b, n), v)
                     => Describes(TypeAt(MergeTypes(a, b), n), v)
<1> DEFINE longer == IF Len(a) < Len(b) THEN Len(b) ELSE Len(a)
           row == [n \in 1..longer |->
                      IF n > Len(b) THEN a[n]
                      ELSE JoinLocal(IF n > Len(a) THEN Bottom ELSE a[n], b[n], NoHierarchy)]
<1>1. MergeTypes(a, b) = row
  BY DEF MergeTypes
<1>2. /\ Len(a) \in Nat /\ Len(b) \in Nat /\ longer \in Nat
      /\ Len(a) <= longer /\ Len(b) <= longer
      /\ (longer = Len(a) \/ longer = Len(b))
  BY DEF Rows
<1>3. /\ \A n \in 1..Len(a) : a[n] \in AllTypes
      /\ \A n \in 1..Len(b) : b[n] \in AllTypes
  BY DEF Rows
<1> HIDE DEF longer
<1>4. ASSUME NEW n \in Nat, n < longer
      PROVE  /\ row[n + 1] \in AllTypes
             /\ \A v \in Values :
                    Describes(TypeAt(a, n), v) \/ Describes(TypeAt(b, n), v)
                        => Describes(row[n + 1], v)
  <2>1. n + 1 \in 1..longer
    BY <1>2, <1>4
  <2>2. CASE n + 1 > Len(b)
    <3>1. row[n + 1] = a[n + 1] /\ n + 1 \in 1..Len(a)
      BY <1>2, <1>4, <2>1, <2>2
    <3>2. TypeAt(a, n) = a[n + 1] /\ TypeAt(b, n) = Bottom
      BY <1>2, <2>2, <3>1 DEF TypeAt
    <3> HIDE DEF row
    <3> QED BY <1>3, <3>1, <3>2, BottomIsLeast
  <2>3. CASE n + 1 <= Len(b)
    <3> DEFINE left == TypeAt(a, n)
    <3>1. left = IF n + 1 > Len(a) THEN Bottom ELSE a[n + 1]
      BY <1>2 DEF TypeAt
    <3>2. TypeAt(b, n) = b[n + 1] /\ b[n + 1] \in AllTypes
      BY <1>2, <1>3, <2>3 DEF TypeAt
    <3>3. left \in AllTypes
      BY TypeAtIsType
    <3>4. row[n + 1] = JoinLocal(left, b[n + 1], NoHierarchy)
      <4> HIDE DEF left
      <4> QED BY <1>2, <2>1, <2>3, <3>1
    <3> HIDE DEF row, left
    <3>5. Joins(Supertypes, row[n + 1], left, b[n + 1])
      BY <3>2, <3>3, <3>4, HierarchyIsRight, JoinLocalCovers
    <3> QED BY <3>2, <3>5 DEF Joins, StandsFor, Describes, left
  <2> QED BY <1>2, <2>2, <2>3
<1>5. row \in Seq(AllTypes) /\ Len(row) = longer
  <2>1. \A n \in 1..longer : n - 1 \in Nat /\ n - 1 < longer /\ n - 1 + 1 = n
    BY <1>2
  <2>2. \A n \in 1..longer : row[n] \in AllTypes
    <3> HIDE DEF row
    <3> QED BY <1>4, <2>1
  <2>3. DOMAIN row = 1..longer /\ row = [n \in 1..longer |-> row[n]]
    OBVIOUS
  <2> HIDE DEF row
  <2>4. row \in [1..longer -> AllTypes]
    BY <2>2, <2>3
  <2> QED BY <1>2, <2>3, <2>4
<1>6. ASSUME NEW n \in Nat, NEW v \in Values,
             Describes(TypeAt(a, n), v) \/ Describes(TypeAt(b, n), v)
      PROVE  Describes(TypeAt(row, n), v)
  <2>1. CASE n < longer
    <3> HIDE DEF row
    <3>1. TypeAt(row, n) = row[n + 1]
      BY <1>5, <2>1 DEF TypeAt
    <3> QED BY <1>4, <1>6, <2>1, <3>1
  <2>2. CASE ~(n < longer)
    <3>1. TypeAt(a, n) = Bottom /\ TypeAt(b, n) = Bottom
      BY <1>2, <2>2 DEF TypeAt
    <3> QED BY <1>6, <3>1, BottomIsLeast
  <2> QED BY <2>1, <2>2
<1> HIDE DEF row
<1> QED BY <1>1, <1>5, <1>6 DEF Rows

(* The type of a slot in merged rows is the join of those in the rows.     *)
LEMMA MergeTypesAt ==
    ASSUME NEW T \in SUBSET AllTypes, Bottom \in T,
           \A x, y \in T : JoinLocal(x, y, NoHierarchy) \in T,
           NEW a \in Rows, NEW b \in Rows, NEW n \in Nat, TypeAt(a, n) \in T, TypeAt(b, n) \in T
    PROVE  TypeAt(MergeTypes(a, b), n) \in T
<1> DEFINE longer == IF Len(a) < Len(b) THEN Len(b) ELSE Len(a)
           row == [k \in 1..longer |->
                      IF k > Len(b) THEN a[k]
                      ELSE JoinLocal(IF k > Len(a) THEN Bottom ELSE a[k], b[k], NoHierarchy)]
<1>1. MergeTypes(a, b) = row
  BY DEF MergeTypes
<1>2. /\ Len(a) \in Nat /\ Len(b) \in Nat /\ longer \in Nat
      /\ Len(a) <= longer /\ Len(b) <= longer
      /\ (longer = Len(a) \/ longer = Len(b))
  BY DEF Rows
<1> HIDE DEF longer
<1>3. Len(row) = longer
  BY <1>2
<1>4. CASE n < longer
  <2>1. n + 1 \in 1..longer
    BY <1>2, <1>4
  <2>2. row[n + 1] = IF n + 1 > Len(b) THEN a[n + 1]
                     ELSE JoinLocal(IF n + 1 > Len(a) THEN Bottom ELSE a[n + 1], b[n + 1], NoHierarchy)
    BY <2>1
  <2>3. TypeAt(row, n) = row[n + 1]
    <3> HIDE DEF row
    <3> QED BY <1>3, <1>4 DEF TypeAt
  <2> HIDE DEF row
  <2>4. CASE n + 1 > Len(b)
    <3>1. TypeAt(a, n) = a[n + 1]
      BY <1>2, <1>4, <2>4 DEF TypeAt
    <3> QED BY <1>1, <2>2, <2>3, <2>4, <3>1
  <2>5. CASE ~(n + 1 > Len(b))
    <3>1. TypeAt(b, n) = b[n + 1]
      BY <1>2, <2>5 DEF TypeAt
    <3>2. TypeAt(a, n) = IF n + 1 > Len(a) THEN Bottom ELSE a[n + 1]
      BY <1>2 DEF TypeAt
    <3>3. row[n + 1] = JoinLocal(TypeAt(a, n), TypeAt(b, n), NoHierarchy)
      BY <2>2, <2>5, <3>1, <3>2
    <3> QED BY <1>1, <2>3, <3>3
  <2> QED BY <2>4, <2>5
<1>5. CASE ~(n < longer)
  <2> HIDE DEF row
  <2> QED BY <1>1, <1>3, <1>5 DEF TypeAt
<1> HIDE DEF row
<1> QED BY <1>1, <1>4, <1>5

RowCovers(wide, row) ==
    \A n \in Nat, v \in Values : Describes(TypeAt(row, n), v) => Describes(TypeAt(wide, n), v)

(* Types merged row by row, from the first.                                *)
Merges(merged, first, rows) ==
    /\ merged[0] = first
    /\ \A n \in 1..Len(rows) : merged[n] = MergeTypes(merged[n - 1], rows[n])
    /\ MergedTypes(first, rows) = merged[Len(rows)]

LEMMA MergedInSteps ==
    ASSUME NEW first \in Rows, NEW rows \in Seq(Rows)
    PROVE  \E merged : Merges(merged, first, rows)
<1> DEFINE d == Len(rows)
           next(acc, n) == MergeTypes(acc, rows[n])
           step == [x \in Nat \X Rows |-> IF x[1] \in 1..d THEN next(x[2], x[1]) ELSE x[2]]
           Is(f) == f = [n \in 0..d |-> IF n = 0 THEN first ELSE MergeTypes(f[n - 1], rows[n])]
           merged == CHOOSE f : Is(f)
<1> HIDE DEF Rows
<1>1. d \in Nat /\ DOMAIN rows = 1..d /\ \A n \in 1..d : rows[n] \in Rows
  OBVIOUS
<1>2. MergedTypes(first, rows) = merged[d]
  BY DEF MergedTypes
<1> HIDE DEF d
<1>3. ASSUME NEW acc \in Rows, NEW n \in 1..d
      PROVE  next(acc, n) \in Rows
  BY <1>1, MergeTypesCovers
<1>4. step \in [Nat \X Rows -> Rows]
  <2> HIDE DEF next
  <2> QED BY <1>3
<1>5. Is(merged)
  <2>1. PICK f : Iterates(f, Rows, first, step, d)
    <3> HIDE DEF step
    <3> QED BY <1>1, <1>4, Iteration
  <2>2. /\ f \in [0..d -> Rows] /\ f[0] = first
        /\ \A n \in 1..d : f[n] = step[<<n, f[n - 1]>>]
    <3> HIDE DEF step
    <3> QED BY <2>1 DEF Iterates
  <2>3. ASSUME NEW n \in 1..d PROVE f[n] = next(f[n - 1], n)
    <3> HIDE DEF next
    <3>1. n \in Nat /\ n - 1 \in 0..d
      BY <1>1
    <3>2. <<n, f[n - 1]>> \in Nat \X Rows
      BY <2>2, <3>1
    <3>3. step[<<n, f[n - 1]>>] = next(f[n - 1], n)
      BY <3>2
    <3> HIDE DEF step
    <3> QED BY <2>2, <3>3
  <2>4. Is(f)
    <3> HIDE DEF step
    <3>1. \A n \in 0..d : n # 0 => n \in 1..d
      BY <1>1
    <3>2. \A n \in 0..d : f[n] = IF n = 0 THEN first ELSE MergeTypes(f[n - 1], rows[n])
      BY <2>2, <2>3, <3>1
    <3> QED BY <2>2, <3>2
  <2> HIDE DEF Is
  <2> QED BY <2>4
<1> HIDE DEF merged
<1>6. merged[0] = first
  BY <1>1, <1>5
<1>7. ASSUME NEW n \in 1..d PROVE merged[n] = MergeTypes(merged[n - 1], rows[n])
  <2>1. n \in 0..d /\ n # 0
    BY <1>1
  <2> QED BY <1>5, <2>1
<1>8. Merges(merged, first, rows)
  BY <1>2, <1>6, <1>7 DEF Merges, d
<1> QED BY <1>8

(* What is true of the types in one slot of every row, and is kept by a    *)
(* join, is true of the merged type: true for being in a set.              *)
LEMMA MergedTypesIn ==
    ASSUME NEW T \in SUBSET AllTypes, Bottom \in T,
           \A a, b \in T : JoinLocal(a, b, NoHierarchy) \in T,
           NEW first \in Rows, NEW rows \in Seq(Rows), NEW slot \in Nat,
           TypeAt(first, slot) \in T, \A row \in Range(rows) : TypeAt(row, slot) \in T
    PROVE  TypeAt(MergedTypes(first, rows), slot) \in T
<1> DEFINE d == Len(rows)
<1>1. d \in Nat /\ DOMAIN rows = 1..d /\ \A n \in 1..d : rows[n] \in Rows
  OBVIOUS
<1>2. PICK merged : Merges(merged, first, rows)
  BY MergedInSteps
<1>3. /\ merged[0] = first /\ MergedTypes(first, rows) = merged[d]
      /\ \A n \in 1..d : merged[n] = MergeTypes(merged[n - 1], rows[n])
  BY <1>2 DEF Merges
<1>4. \A n \in 1..d : TypeAt(rows[n], slot) \in T
  BY <1>1 DEF Range
<1> HIDE DEF d
<1> DEFINE N == {n \in 0..d : merged[n] \in Rows /\ TypeAt(merged[n], slot) \in T}
<1>5. 0 \in N
  BY <1>1, <1>3
<1>6. ASSUME NEW n \in 0..(d - 1), n \in N PROVE n + 1 \in N
  <2>1. n + 1 \in 1..d /\ n + 1 - 1 = n /\ n + 1 \in 0..d
    BY <1>1
  <2>2. merged[n + 1] = MergeTypes(merged[n], rows[n + 1])
    BY <1>3, <2>1
  <2>3. merged[n] \in Rows /\ TypeAt(merged[n], slot) \in T
    BY <1>6
  <2>4. rows[n + 1] \in Rows /\ TypeAt(rows[n + 1], slot) \in T
    BY <1>1, <1>4, <2>1
  <2>5. merged[n + 1] \in Rows
    BY <2>2, <2>3, <2>4, MergeTypesCovers
  <2>6. TypeAt(merged[n + 1], slot) \in T
    BY <2>2, <2>3, <2>4, MergeTypesAt
  <2> QED BY <2>1, <2>5, <2>6
<1> HIDE DEF N
<1>7. 0..d \subseteq N
  BY <1>1, <1>5, <1>6, InductionUpTo, Zenon
<1>8. d \in N
  BY <1>1, <1>7
<1> QED BY <1>3, <1>8 DEF N

LEMMA MergedTypesCover ==
    ASSUME NEW first \in Rows, NEW rows \in Seq(Rows)
    PROVE  /\ MergedTypes(first, rows) \in Rows
           /\ \A row \in Range(rows) : RowCovers(MergedTypes(first, rows), row)
<1> DEFINE d == Len(rows)
<1>1. d \in Nat /\ DOMAIN rows = 1..d /\ \A n \in 1..d : rows[n] \in Rows
  OBVIOUS
<1>2. PICK merged : Merges(merged, first, rows)
  BY MergedInSteps
<1>3. /\ merged[0] = first /\ MergedTypes(first, rows) = merged[d]
      /\ \A n \in 1..d : merged[n] = MergeTypes(merged[n - 1], rows[n])
  BY <1>2 DEF Merges
<1> HIDE DEF d
<1> DEFINE T == {n \in 0..d : merged[n] \in Rows /\ \A k \in 1..n : RowCovers(merged[n], rows[k])}
<1>4. 0 \in T
  BY <1>1, <1>3
<1>5. ASSUME NEW n \in 0..(d - 1), n \in T PROVE n + 1 \in T
  <2>1. n + 1 \in 1..d /\ n + 1 - 1 = n /\ n + 1 \in 0..d
    BY <1>1
  <2>2. merged[n + 1] = MergeTypes(merged[n], rows[n + 1])
    BY <1>3, <2>1
  <2>3. /\ merged[n + 1] \in Rows
        /\ RowCovers(merged[n + 1], merged[n]) /\ RowCovers(merged[n + 1], rows[n + 1])
    <3>1. merged[n] \in Rows /\ rows[n + 1] \in Rows
      BY <1>1, <1>5, <2>1
    <3> QED BY <2>2, <3>1, MergeTypesCovers DEF RowCovers
  <2>4. ASSUME NEW k \in 1..(n + 1) PROVE RowCovers(merged[n + 1], rows[k])
    <3>1. CASE k = n + 1
      BY <2>3, <3>1
    <3>2. CASE k # n + 1
      <4>1. k \in 1..n
        BY <3>2
      <4>2. RowCovers(merged[n], rows[k])
        BY <1>5, <4>1
      <4> QED BY <2>3, <4>2 DEF RowCovers
    <3> QED BY <3>1, <3>2
  <2> QED BY <2>1, <2>3, <2>4
<1> HIDE DEF T
<1>6. 0..d \subseteq T
  BY <1>1, <1>4, <1>5, InductionUpTo, Zenon
<1>7. d \in T
  BY <1>1, <1>6
<1> QED BY <1>1, <1>3, <1>7 DEF T, Range

(* A join makes no unknown reference where there was none.                 *)
Known(t) == Unknown \notin Members(t)

LEMMA JoinKeepsKnown ==
    ASSUME NEW a \in AllTypes, NEW b \in AllTypes, Known(a), Known(b)
    PROVE  Known(JoinLocal(a, b, NoHierarchy))
<1> DEFINE h == NoHierarchy
           S == Members(a) \cup Members(b)
<1>1. JoinLocal(a, b, h) = IF Join(a, b, h) = Conflict THEN Alternatives(S) ELSE Join(a, b, h)
  BY DEF JoinLocal, Members
<1>2. Known(Alternatives(S))
  BY DEF Known, Alternatives, Members
<1>3. Join(a, b, h) = Conflict \/ Known(Join(a, b, h))
  <2>1. CASE HasReferenceCandidates(a) /\ HasReferenceCandidates(b)
    <3> DEFINE known == S \ {Null}
               common == CommonReference(known, h)
    <3>1. ReferenceCandidates(a) = Members(a) /\ ReferenceCandidates(b) = Members(b)
      BY DEF ReferenceCandidates, Members
    <3>2. Join(a, b, h) = JoinReferences(S, h) /\ Unknown \notin S
      BY <2>1, <3>1 DEF Join, Known
    <3>3. ASSUME NEW t \in AllTypes, HasReferenceCandidates(t)
          PROVE  Members(t) \subseteq Candidates
      <4>1. \A m \in Members(t) : IsReference(m)
        BY <3>3 DEF HasReferenceCandidates, Members, IsReference
      <4> QED BY <4>1, MembersOfType, CandidatesAreTypes
    <3>4. S \subseteq Candidates
      BY <2>1, <3>3
    <3>5. known \in SUBSET KnownReferences
      BY <3>2, <3>4 DEF Candidates
    <3>6. JoinReferences(S, h) = IF known = {} THEN Null
                                 ELSE IF common = None THEN Alternatives(known) ELSE common
      BY <3>2 DEF JoinReferences
    <3> HIDE DEF S, known, common
    <3>7. known # {} => common = None \/ common \in KnownReferences
      BY <3>5, HierarchyIsRight, CommonReferenceCovers DEF common
    <3>8. \A r \in KnownReferences : Known(r)
      BY KnownReference DEF Known, Members, Unknown
    <3>9. Known(Null)
      BY DEF Known, Members, Null, Unknown
    <3>10. Known(Alternatives(known))
      BY <3>2 DEF Known, Members, Alternatives, known
    <3> QED BY <3>2, <3>6, <3>7, <3>8, <3>9, <3>10
  <2>2. CASE /\ ~(HasReferenceCandidates(a) /\ HasReferenceCandidates(b))
             /\ IsIntegral(a) /\ IsIntegral(b)
    BY <2>2 DEF Join, Integral, Known, Members, Unknown
  <2>3. CASE /\ ~(HasReferenceCandidates(a) /\ HasReferenceCandidates(b))
             /\ ~(IsIntegral(a) /\ IsIntegral(b))
    BY <2>3 DEF Join
  <2> QED BY <2>1, <2>2, <2>3
<1> QED BY <1>1, <1>2, <1>3

(* No parameter is of an unknown type.                                     *)
LEMMA EntryIsKnown ==
    ASSUME NEW m \in Methods, NEW n \in Nat
    PROVE  Known(TypeAt(TypesOf(EntryFrame(m).locals), n))
<1> DEFINE l == EntryFrame(m).locals
<1>1. /\ l \in Seq(AllSlots) /\ Len(l) \in Nat /\ DOMAIN l = 1..Len(l)
      /\ TypesOf(l) = [k \in 1..Len(l) |-> l[k].type]
  <2>1. l \in Seq(AllSlots)
    BY EntryIsFrame, FrameParts
  <2>2. Len(l) \in Nat /\ DOMAIN l = 1..Len(l)
    BY <2>1
  <2> QED BY <2>1, <2>2 DEF TypesOf
<1>2. \A k \in DOMAIN l : l[k] = EntrySlot(m, k - 1)
  BY DEF EntryFrame
<1>3. Known(Bottom)
  BY DEF Known, Members, Bottom, Unknown
<1>4. ASSUME NEW k \in Nat PROVE Known(EntrySlot(m, k).type)
  <2> DEFINE p == ParameterAtSlot(m, k)
  <2>1. CASE k = 0 /\ ~m.static
    BY <2>1 DEF EntrySlot, Slot, UninitializedThis, Exact, Known, Members, Unknown
  <2>2. CASE ~(k = 0 /\ ~m.static) /\ p = NoParameter
    BY <1>3, <2>2 DEF EntrySlot, EmptySlot, Plain, Slot
  <2>3. CASE ~(k = 0 /\ ~m.static) /\ p # NoParameter
    <3>1. p \in DOMAIN m.params
      BY <2>3, ParameterThere
    <3>2. m.params[p].d \in SmallIntegrals \cup {"long", "float", "double", "class", "array"}
      BY <3>1, LiteralsAssumption
    <3>3. EntrySlot(m, k).type = TypeOfDescriptor(m.params[p])
      BY <2>3 DEF EntrySlot, Slot
    <3> HIDE DEF p
    <3>4. TypeOfDescriptor(m.params[p]) \in
             {Integral({m.params[p].d}), Long, Float, Double, Exact(m.params[p].c), ArrayRef(m.params[p])}
      BY <3>2 DEF TypeOfDescriptor
    <3> QED BY <3>3, <3>4 DEF Integral, Long, Float, Double, Exact, ArrayRef, Known, Members, Unknown
  <2> QED BY <2>1, <2>2, <2>3
<1> HIDE DEF l
<1>5. CASE n < Len(l)
  <2>1. n + 1 \in 1..Len(l) /\ n + 1 - 1 = n /\ Len(TypesOf(l)) = Len(l)
    BY <1>1, <1>5
  <2>2. TypeAt(TypesOf(l), n) = EntrySlot(m, n).type
    BY <1>1, <1>2, <1>5, <2>1 DEF TypeAt
  <2> QED BY <1>4, <2>2 DEF l
<1>6. CASE ~(n < Len(l))
  <2>1. Len(TypesOf(l)) = Len(l)
    BY <1>1
  <2> QED BY <1>3, <1>6, <2>1 DEF TypeAt, l
<1> QED BY <1>5, <1>6 DEF l

(* refine_catch_local_types changes nothing, for any method and any states *)
(* and observations: a slot that every row leaves empty or types exactly   *)
(* is never merged to the unknown reference, the only one it would refine. *)
THEOREM CatchRefinementIsIdle ==
    ASSUME NEW m \in Methods, NEW rows \in Seq(Rows)
    PROVE  LET types == MergedTypes(TypesOf(EntryFrame(m).locals), rows)
           IN  RefineCatchLocals(m, types, rows) = types
<1> DEFINE first == TypesOf(EntryFrame(m).locals)
           types == MergedTypes(first, rows)
           stores(h, slot) == /\ h.at \in Offsets(m)
                              /\ m.code[h.at].op = "astore"
                              /\ m.code[h.at].local = slot
           caught(slot) == {IF h.catchType = NoCatchType THEN Throwable ELSE h.catchType :
                               h \in {x \in Range(m.handlers) : stores(x, slot)}}
           values(slot) == {r[slot + 1] : r \in {x \in Range(rows) : slot < Len(x)}}
           fits(slot) == /\ values(slot) \subseteq {Bottom} \cup {Exact(c) : c \in caught(slot)}
                         /\ values(slot) \ {Bottom} # {}
           refines(n) == Cardinality(caught(n - 1)) > 1 /\ types[n] = Unknown /\ fits(n - 1)
           refined == [n \in DOMAIN types |-> IF refines(n) THEN Exact(Throwable) ELSE types[n]]
           T == {t \in AllTypes : Known(t)}
<1>1. RefineCatchLocals(m, types, rows) = refined
  BY DEF RefineCatchLocals
<1>2. first \in Rows
  BY EntryIsFrame, TypesOfFrame
<1>3. types \in Rows
  <2> HIDE DEF first
  <2> QED BY <1>2, MergedTypesCover
<1>4. Bottom \in T /\ \A a, b \in T : JoinLocal(a, b, NoHierarchy) \in T
  <2>1. Bottom \in T
    BY ConflictIsType DEF Known, Members, Bottom, Unknown
  <2>2. ASSUME NEW a \in T, NEW b \in T PROVE JoinLocal(a, b, NoHierarchy) \in T
    BY HierarchyIsRight, JoinLocalCovers, JoinKeepsKnown DEF Joins
  <2> QED BY <2>1, <2>2
<1>5. ASSUME NEW slot \in Nat, fits(slot), NEW row \in Range(rows)
      PROVE  TypeAt(row, slot) \in T
  <2>1. row \in Rows
    <3> HIDE DEF Rows
    <3> QED BY DEF Range
  <2>2. TypeAt(row, slot) \in AllTypes
    BY <2>1, TypeAtIsType
  <2>3. CASE slot < Len(row)
    <3>1. row[slot + 1] \in values(slot) /\ TypeAt(row, slot) = row[slot + 1]
      BY <2>3 DEF TypeAt
    <3>2. row[slot + 1] = Bottom \/ \E c : row[slot + 1] = Exact(c)
      <4> HIDE DEF values, caught
      <4> QED BY <1>5, <3>1
    <3>3. Known(row[slot + 1])
      <4> HIDE DEF values, caught, fits
      <4>1. Known(Bottom) /\ \A c : Known(Exact(c))
        BY DEF Known, Members, Bottom, Exact, Unknown
      <4> QED BY <3>2, <4>1
    <3> HIDE DEF values, caught, fits
    <3> QED BY <2>2, <3>1, <3>3
  <2>4. CASE ~(slot < Len(row))
    BY <1>4, <2>4 DEF TypeAt
  <2> QED BY <2>3, <2>4
<1>6. ASSUME NEW n \in DOMAIN types PROVE ~refines(n)
  <2>1. /\ n - 1 \in Nat /\ n - 1 < Len(types) /\ n - 1 + 1 = n
    BY <1>3 DEF Rows
  <2>2. SUFFICES ASSUME types[n] = Unknown, fits(n - 1) PROVE FALSE
    OBVIOUS
  <2> HIDE DEF fits, refines, values, caught
  <2>3. \A row \in Range(rows) : TypeAt(row, n - 1) \in T
    BY <1>5, <2>1, <2>2
  <2>4. TypeAt(first, n - 1) \in T
    <3> HIDE DEF first
    <3>1. TypeAt(first, n - 1) \in AllTypes
      BY <1>2, <2>1, TypeAtIsType
    <3>2. Known(TypeAt(first, n - 1))
      BY <2>1, EntryIsKnown DEF first
    <3> QED BY <3>1, <3>2
  <2>5. T \in SUBSET AllTypes
    OBVIOUS
  <2> HIDE DEF T, first
  <2>6. TypeAt(types, n - 1) \in T
    BY <1>2, <1>4, <2>1, <2>3, <2>4, <2>5, MergedTypesIn
  <2> HIDE DEF types
  <2>7. TypeAt(types, n - 1) = Unknown
    BY <2>1, <2>2 DEF TypeAt
  <2> QED BY <2>6, <2>7 DEF T, Known, Members, Unknown
<1>7. refined = types
  <2>1. DOMAIN types = 1..Len(types) /\ types = [n \in 1..Len(types) |-> types[n]]
    <3> HIDE DEF types
    <3> QED BY <1>3 DEF Rows
  <2> HIDE DEF types, refines
  <2> QED BY <1>6, <2>1
<1> HIDE DEF refined, types
<1> QED BY <1>1, <1>7 DEF types

(* The rows that the types are merged from: what the analysis says of each *)
(* instruction is among them.                                              *)
LEMMA ObservedRows ==
    ASSUME NEW m \in Methods, NEW F, F \in [DOMAIN F -> AllFrames], DOMAIN F \subseteq DOMAIN m.code
    PROVE  /\ ObservedLocals(m, F) \in Seq(Rows)
           /\ \A at \in DOMAIN F : TypesOf(F[at].locals) \in Range(ObservedLocals(m, F))
<1> DEFINE places == [at \in DOMAIN m.code |-> at]
           offsets == Picked(places, DOMAIN F)
           row(at) == LocalTypesAt(F[at], m.hints, at)
<1>1. Len(m.code) \in Nat /\ DOMAIN m.code = 1..Len(m.code)
  BY CodeParts
<1>2. places \in Seq(DOMAIN m.code) /\ DOMAIN places = DOMAIN m.code
  BY <1>1
<1> HIDE DEF places
<1>3. offsets \in Seq(DOMAIN m.code)
      /\ Range(offsets) = {places[n] : n \in DOMAIN places \cap DOMAIN F}
  BY <1>2, PickedSeq
<1>4. Range(offsets) = DOMAIN F
  BY <1>2, <1>3 DEF places
<1>5. ObservedLocals(m, F) = [n \in DOMAIN offsets |-> row(offsets[n])]
  BY DEF ObservedLocals, places
<1>6. ASSUME NEW at \in DOMAIN F PROVE row(at) = TypesOf(F[at].locals) /\ row(at) \in Rows
  <2>1. \A i \in DOMAIN F[at].locals :
           RefineIntegral(m.hints, i - 1, at, F[at].locals[i].type) = F[at].locals[i].type
    BY MethodsAssumption DEF RefineIntegral
  <2>2. row(at) = TypesOf(F[at].locals)
    BY <2>1 DEF LocalTypesAt, TypesOf
  <2>3. F[at] \in AllFrames
    OBVIOUS
  <2> QED BY <2>2, <2>3, TypesOfFrame
<1> HIDE DEF row, offsets
<1>7. DOMAIN offsets = 1..Len(offsets) /\ Len(offsets) \in Nat
  BY <1>3
<1>8. \A n \in DOMAIN offsets : row(offsets[n]) \in Rows
  BY <1>4, <1>6 DEF Range
<1>9. ObservedLocals(m, F) \in Seq(Rows)
  <2> HIDE DEF Rows
  <2> QED BY <1>5, <1>7, <1>8
<1>10. ASSUME NEW at \in DOMAIN F PROVE TypesOf(F[at].locals) \in Range(ObservedLocals(m, F))
  <2>1. PICK n \in DOMAIN offsets : offsets[n] = at
    BY <1>4 DEF Range
  <2> QED BY <1>5, <1>6, <2>1 DEF Range
<1> QED BY <1>9, <1>10

LEMMA LocalTypesCover ==
    ASSUME NEW m \in Methods,
           NEW in, \A b \in DOMAIN in : in[b] \in AllFrames, NEW order \in Seq(DOMAIN in),
           NEW F, F \in [DOMAIN F -> AllFrames], DOMAIN F \subseteq DOMAIN m.code,
           NEW at \in DOMAIN F
    PROVE  RowCovers(LocalTypes(m, in, order, F), TypesOf(F[at].locals))
<1> DEFINE first == TypesOf(EntryFrame(m).locals)
           states == [n \in DOMAIN order |-> TypesOf(in[order[n]].locals)]
           rows == states \o ObservedLocals(m, F)
           types == MergedTypes(first, rows)
           row == TypesOf(F[at].locals)
<1>1. LocalTypes(m, in, order, F) = RefineCatchLocals(m, types, rows)
  BY DEF LocalTypes
<1>2. first \in Rows
  BY EntryIsFrame, TypesOfFrame
<1>3. states \in Seq(Rows)
  <2>1. DOMAIN order = 1..Len(order) /\ Len(order) \in Nat /\ \A n \in DOMAIN order : order[n] \in DOMAIN in
    OBVIOUS
  <2>2. \A n \in DOMAIN order : in[order[n]] \in AllFrames
    BY <2>1
  <2>3. \A n \in DOMAIN order : TypesOf(in[order[n]].locals) \in Rows
    BY <2>2, TypesOfFrame
  <2> HIDE DEF Rows
  <2> QED BY <2>1, <2>3
<1> HIDE DEF first, states
<1>4. rows \in Seq(Rows) /\ row \in Range(rows)
  <2> HIDE DEF Rows
  <2>1. ObservedLocals(m, F) \in Seq(Rows) /\ row \in Range(ObservedLocals(m, F))
    BY ObservedRows
  <2> HIDE DEF row
  <2> QED BY <1>3, <2>1, JoinedSeq
<1> HIDE DEF rows, row
<1>5. types \in Rows /\ RowCovers(types, row)
  BY <1>2, <1>4, MergedTypesCover
<1>6. RefineCatchLocals(m, types, rows) = types
  BY <1>4, CatchRefinementIsIdle DEF first
<1> HIDE DEF types
<1> QED BY <1>1, <1>5, <1>6 DEF row

(* Beyond the locals of a frame a slot is empty, as it is in its types.    *)
LEMMA TypeOfLocal ==
    ASSUME NEW f \in AllFrames, NEW n \in Nat
    PROVE  TypeAt(TypesOf(f.locals), n) = LocalSlot(f, n).type
<1>1. f.locals \in Seq(AllSlots)
  BY FrameParts
<1>2. /\ DOMAIN f.locals = 1..Len(f.locals) /\ Len(f.locals) \in Nat
      /\ DOMAIN TypesOf(f.locals) = 1..Len(f.locals)
      /\ Len(TypesOf(f.locals)) = Len(f.locals)
  BY <1>1 DEF TypesOf
<1>3. n < Len(f.locals) <=> n + 1 \in DOMAIN f.locals
  BY <1>2
<1>4. EmptySlot.type = Bottom
  BY DEF EmptySlot, Plain, Slot
<1>5. n + 1 \in DOMAIN f.locals => TypesOf(f.locals)[n + 1] = f.locals[n + 1].type
  BY DEF TypesOf
<1> QED BY <1>2, <1>3, <1>4, <1>5 DEF TypeAt, LocalSlot

-----------------------------------------------------------------------------
(* The analysis and the run as a whole.                                    *)
TypesCover == \A at \in DOMAIN before : RowCovers(localTypes, TypesOf(before[at].locals))

WholeInv ==
    /\ Loop!ClosureInv
    /\ OriginsApart
    /\ machine # NoMachine => RunInv /\ TypesCover /\ ~running

LEMMA ConclusionEnds ==
    ASSUME Loop!ClosureInv, OriginsApart, Concluding
    PROVE  Ended(method, incoming)
<1>1. /\ ~running /\ analysisComplete /\ diagnostics = {}
      /\ CfgDiagnostics(method) = {} /\ method.code # <<>>
  BY DEF Concluding
<1>2. Loop!TypeInv
  BY DEF Loop!ClosureInv
<1>3. /\ method \in Methods /\ DOMAIN incoming \subseteq DOMAIN method.graph
      /\ FirstOffset \in DOMAIN method.graph
  BY <1>1, <1>2, LoopTyped, CodeParts
<1>4. Loop!CompleteIsClosed
  BY LoopGraph, LoopMerge, LimitsAssumption, Loop!ClosureInvImplies
<1>5. \A t, f : Loop!Received(t, f) => t \in DOMAIN incoming /\ Admits(incoming[t], f)
  BY <1>1 DEF Loop!Received, StandsForFrame, Admits
<1>6. FirstOffset \in DOMAIN incoming /\ Admits(incoming[FirstOffset], EntryFrame(method))
  BY <1>1, <1>3, <1>4, <1>5 DEF Loop!CompleteIsClosed, GraphBlocks, GraphEntry
<1>7. ASSUME NEW b \in DOMAIN incoming
      PROVE  /\ VisitReports(method, b, incoming[b]) = {}
             /\ \A s \in Range(VisitSends(method, b, incoming[b])) :
                   s.target \in DOMAIN incoming /\ Admits(incoming[s.target], s.frame)
  <2> DEFINE sends == VisitSends(method, b, incoming[b])
  <2>1. VisitReports(method, b, incoming[b]) = {} /\ Loop!AllReceived(sends)
    BY <1>1, <1>4 DEF Loop!CompleteIsClosed
  <2> HIDE DEF sends
  <2>2. \A n \in DOMAIN sends : Loop!Received(sends[n].target, sends[n].frame)
    BY <2>1 DEF Loop!AllReceived
  <2>3. \A s \in Range(sends) : s.target \in DOMAIN incoming /\ Admits(incoming[s.target], s.frame)
    BY <1>5, <2>2 DEF Range
  <2> QED BY <2>1, <2>3 DEF sends
<1>8. \A b \in DOMAIN incoming : incoming[b] \in FramesWith(Apart(method, b))
  BY <1>3 DEF OriginsApart
<1> QED BY <1>1, <1>3, <1>6, <1>7, <1>8 DEF Ended

LEMMA EntryRuns ==
    ASSUME NEW m \in Methods, NEW F, Closed(Env(m), m, F), Verified(m, F), NEW s \in EntryStates(m)
    PROVE  RunFits(m, F, s, s)
<1>1. /\ FrameFits(m, s, EntryFrame(m), s)
      /\ s.pc = FirstOffset /\ s.status = "running"
  BY EntryFits
<1>2. AdmitsAt(F, FirstOffset, EntryFrame(m))
  BY DEF Closed
<1> QED BY <1>1, <1>2, Lands

LEMMA WholeStarts == WholeInit => WholeInv
<1> SUFFICES ASSUME WholeInit PROVE WholeInv
  OBVIOUS
<1>1. Solver!Init /\ machine = NoMachine
  BY DEF WholeInit
<1>2. Loop!Init
  BY <1>1 DEF Solver!Init, Loop!Init, Solver!EntryBlocks, Loop!EntryBlocks
<1>3. OriginsApart
  BY <1>2, ApartStarts
<1> QED BY <1>1, <1>3, LoopStarts DEF WholeInv

LEMMA WholeSteps == WholeInv /\ [WholeNext]_wholeVars => WholeInv'
<1> SUFFICES ASSUME WholeInv, [WholeNext]_wholeVars PROVE WholeInv'
  OBVIOUS
<1>1. Loop!ClosureInv /\ OriginsApart /\ Loop!TypeInv
  BY DEF WholeInv, Loop!ClosureInv
<1>2. [Solver!Next]_solverVars
  BY DEF WholeNext, wholeVars, Analyze, Start, Run
<1>3. Loop!ClosureInv' /\ OriginsApart'
  <2>1. [Loop!Next]_(Loop!vars)
    BY <1>2, LoopsAreOne DEF solverVars, Loop!vars
  <2> QED BY <1>1, <1>2, <2>1, LoopSteps, ApartSteps
<1>4. CASE Analyze
  <2>1. machine' = machine /\ (~running => ~Solver!Next)
    BY <1>4 DEF Analyze, Solver!Next, Solver!StopAtWorkItemLimit, Solver!SkipBlock, Solver!VisitBlock,
                Solver!PropagateFrame, Solver!Finish, Solver!Pop, Solver!Idle
  <2>2. machine' = NoMachine
    BY <1>4, <2>1 DEF WholeInv, Analyze
  <2> QED BY <1>3, <2>2 DEF WholeInv
<1>5. CASE Start
  <2>1. /\ Concluding /\ before' = Observations(method, incoming, Env(method))
        /\ Verified(method, before') /\ machine' \in EntryStates(method) /\ entry' = machine'
        /\ method' = method /\ running' = running
    BY <1>5 DEF Start, solverVars
  <2>2. method \in Methods
    BY <1>1, LoopTyped
  <2>3. Closed(Env(method), method, before')
    BY <1>1, <2>1, ConclusionEnds, EndedIsClosed
  <2>4. RunFits(method, before', machine', machine')
    BY <2>1, <2>2, <2>3, EntryRuns
  <2>5. TypesCover'
    <3>1. PICK order \in Orders(DOMAIN incoming) :
             localTypes' = LocalTypes(method, incoming, order, before')
      BY <1>5 DEF Start
    <3>2. /\ DOMAIN incoming \in SUBSET DOMAIN method.graph
          /\ \A b \in DOMAIN incoming : incoming[b] \in AllFrames
      BY <1>1, LoopTyped
    <3>3. order \in Seq(DOMAIN incoming)
      BY <2>2, <3>1, <3>2, OrdersAssumption
    <3>4. before' \in [DOMAIN before' -> AllFrames] /\ DOMAIN before' \subseteq DOMAIN method.code
      BY <2>3 DEF Closed
    <3>5. \A at \in DOMAIN before' : RowCovers(localTypes', TypesOf(before'[at].locals))
      BY <2>1, <2>2, <3>1, <3>2, <3>3, <3>4, LocalTypesCover
    <3> QED BY <3>5 DEF TypesCover
  <2> QED BY <1>3, <2>1, <2>2, <2>3, <2>4, <2>5 DEF WholeInv, RunInv, Concluding
<1>6. CASE Run
  <2>1. machine # NoMachine /\ method' = method /\ running' = running /\ Execute
    BY <1>6 DEF Run, Execute, NoMachine, solverVars
  <2>2. RunInv' /\ ~running'
    BY <2>1, RunKeeps DEF WholeInv
  <2>3. TypesCover'
    BY <1>6, <2>1 DEF WholeInv, TypesCover, Run, Execute
  <2> QED BY <1>3, <2>2, <2>3 DEF WholeInv
<1>7. CASE UNCHANGED wholeVars
  BY <1>3, <1>7 DEF WholeInv, wholeVars, solverVars, RunInv, TypesCover
<1> QED BY <1>4, <1>5, <1>6, <1>7 DEF WholeNext

(* Throughout the analysis nothing that a visit sent is lost and origins   *)
(* are apart; once the machine runs, it fits the frames it runs beside,    *)
(* and the types of the slots cover those frames.                          *)
THEOREM WholeIsSound == WholeSpec => []WholeInv
<1> QED BY WholeStarts, WholeSteps, PTL DEF WholeSpec

LEMMA NothingRunsYet ==
    ASSUME machine = NoMachine
    PROVE  /\ FramesDescribeRuns /\ OriginsIdentify /\ LocalTypesDescribe
           /\ ReturnsDescribed /\ ReturnedParameterIsArgument
BY DEF NoMachine, FramesDescribeRuns, OriginsIdentify, LocalTypesDescribe, ReturnsDescribed,
       ReturnedParameterIsArgument

(* A value that fits its frame fits the type of its slot.                  *)
LEMMA RunFitsTypes == RunInv /\ TypesCover => LocalTypesDescribe
<1> SUFFICES ASSUME RunInv, TypesCover, machine.status \in {"running", "returned"},
                    NEW n \in DOMAIN machine.locals
             PROVE  Describes(TypeAt(localTypes, n), machine.locals[n])
  BY DEF LocalTypesDescribe, TypeAt
<1> DEFINE f == before[machine.pc]
           v == machine.locals[n]
<1>1. machine.pc \in DOMAIN before /\ FrameFits(method, entry, f, machine)
  BY DEF RunInv, RunFits
<1>2. method \in Methods /\ f \in AllFrames
  BY <1>1 DEF RunInv, Closed
<1>3. n \in Slots(method) /\ n \in Nat
  <2>1. machine.locals \in [Slots(method) -> RunValues(method)]
    BY <1>1 DEF FrameFits, Machine
  <2>2. method.maxLocals \in Nat
    BY <1>2, MethodsAssumption
  <2>3. n \in Slots(method)
    BY <2>1
  <2> QED BY <2>2, <2>3 DEF Slots
<1> HIDE DEF f, v
<1>4. Typed(method, LocalSlot(f, n), v)
  BY <1>1, <1>2, <1>3, LocalPair DEF v
<1>5. v \in Values /\ Describes(LocalSlot(f, n).type, v)
  BY <1>2, <1>4, MethodsAssumption DEF Typed, SlotDescribes, Describes
<1>6. RowCovers(localTypes, TypesOf(f.locals))
  BY <1>1 DEF TypesCover, f
<1>7. TypeAt(TypesOf(f.locals), n) = LocalSlot(f, n).type
  BY <1>2, <1>3, TypeOfLocal
<1> QED BY <1>3, <1>5, <1>6, <1>7 DEF RowCovers, v

(* The loop that ends complete and without a diagnostic leaves frames that *)
(* are closed under every step of the machine: along the edges of the      *)
(* graph that are feasible, into handlers, and back from subroutines.      *)
THEOREM EndsClosed == WholeSpec => []FramesAreClosed
<1>1. WholeInv => FramesAreClosed
  BY ConclusionEnds, EndedIsClosed DEF WholeInv, FramesAreClosed
<1> QED BY <1>1, WholeIsSound, PTL

(* For every method, class world, right hierarchy and limits, whatever a   *)
(* complete analysis without a diagnostic says of an instruction describes *)
(* every state in which the method can be there.                           *)
THEOREM AnalyzedRunsAreDescribed == WholeSpec => []FramesDescribeRuns
<1>1. WholeInv => FramesDescribeRuns
  BY RunDescribes, NothingRunsYet DEF WholeInv
<1> QED BY <1>1, WholeIsSound, PTL

(* The origins in the frames an analysis ends with identify values.        *)
THEOREM AnalyzedOriginsIdentify == WholeSpec => []OriginsIdentify
<1>1. WholeInv => OriginsIdentify
  BY RunIdentifies, NothingRunsYet DEF WholeInv
<1> QED BY <1>1, WholeIsSound, PTL

(* The one type a slot gets for the whole method, in whatever order the    *)
(* states of the blocks are merged, describes everything ever in the slot. *)
THEOREM LocalTypesAreRight == WholeSpec => []LocalTypesDescribe
<1>1. WholeInv => LocalTypesDescribe
  BY RunFitsTypes, NothingRunsYet DEF WholeInv
<1> QED BY <1>1, WholeIsSound, PTL

(* What a method returns is described by the return type the analysis      *)
(* infers for it, and some type is inferred if it can return at all.       *)
THEOREM InferredReturnsAreRight == WholeSpec => []ReturnsDescribed
<1>1. WholeInv => ReturnsDescribed
  BY RunReturns, NothingRunsYet DEF WholeInv
<1> QED BY <1>1, WholeIsSound, PTL

(* When the analysis infers that a parameter is returned, it is.           *)
THEOREM InferredParametersAreRight == WholeSpec => []ReturnedParameterIsArgument
<1>1. WholeInv => ReturnedParameterIsArgument
  BY RunReturnsParameter, NothingRunsYet DEF WholeInv
<1> QED BY <1>1, WholeIsSound, PTL
=============================================================================
