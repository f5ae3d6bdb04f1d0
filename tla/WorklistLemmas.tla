--------------------------- MODULE WorklistLemmas ---------------------------
(***************************************************************************)
(* What the proofs about both worklist loops use of sequences whose        *)
(* members are distinct.                                                   *)
(***************************************************************************)
EXTENDS Integers, Sequences, TLAPS

LEMMA ElementOfSeq ==
    ASSUME NEW S, NEW q \in Seq(S), NEW n \in DOMAIN q
    PROVE  q[n] \in S
  OBVIOUS

(* A bound queue of distinct members: what taking its head and appending   *)
(* a new member do to the set of its members.                              *)
LEMMA TailOfDistinct ==
    ASSUME NEW S, NEW q \in Seq(S), q # <<>>,
           \A i, j \in DOMAIN q : q[i] = q[j] => i = j
    PROVE  /\ Tail(q) \in Seq(S)
           /\ Head(q) \in S
           /\ \A i, j \in DOMAIN Tail(q) : Tail(q)[i] = Tail(q)[j] => i = j
           /\ {Tail(q)[i] : i \in DOMAIN Tail(q)} = {q[i] : i \in DOMAIN q} \ {Head(q)}
  <1>1. /\ Tail(q) \in Seq(S)
        /\ Head(q) = q[1]
        /\ Len(q) \in Nat \ {0}
        /\ DOMAIN q = 1..Len(q)
        /\ DOMAIN Tail(q) = 1..(Len(q) - 1)
        /\ \A i \in 1..(Len(q) - 1) : Tail(q)[i] = q[i + 1]
    OBVIOUS
  <1>2. \A i \in 1..Len(q) : q[i] \in S
    OBVIOUS
  <1>3. \A i, j \in DOMAIN Tail(q) : Tail(q)[i] = Tail(q)[j] => i = j
    BY <1>1
  <1>4. ASSUME NEW x
        PROVE  x \in {Tail(q)[i] : i \in DOMAIN Tail(q)}
                  <=> x \in {q[i] : i \in DOMAIN q} \ {Head(q)}
    <2>1. ASSUME NEW i \in DOMAIN Tail(q), x = Tail(q)[i]
          PROVE  x \in {q[k] : k \in DOMAIN q} \ {Head(q)}
      BY <1>1, <2>1
    <2>2. ASSUME NEW k \in DOMAIN q, x = q[k], x # Head(q)
          PROVE  x \in {Tail(q)[i] : i \in DOMAIN Tail(q)}
      <3>1. k - 1 \in DOMAIN Tail(q) /\ Tail(q)[k - 1] = x
        BY <1>1, <2>2
      <3> QED BY <3>1
    <2> QED BY <2>1, <2>2
  <1>5. {Tail(q)[i] : i \in DOMAIN Tail(q)} = {q[i] : i \in DOMAIN q} \ {Head(q)}
    BY <1>4, Zenon
  <1>6. Head(q) \in S
    BY <1>1, <1>2
  <1> QED BY <1>1, <1>3, <1>5, <1>6

LEMMA AppendToDistinct ==
    ASSUME NEW S, NEW q \in Seq(S), NEW e \in S,
           \A i, j \in DOMAIN q : q[i] = q[j] => i = j,
           e \notin {q[i] : i \in DOMAIN q}
    PROVE  /\ Append(q, e) \in Seq(S)
           /\ \A i, j \in DOMAIN Append(q, e) : Append(q, e)[i] = Append(q, e)[j] => i = j
           /\ {Append(q, e)[i] : i \in DOMAIN Append(q, e)} = {q[i] : i \in DOMAIN q} \cup {e}
  <1>1. /\ Append(q, e) \in Seq(S)
        /\ Len(q) \in Nat
        /\ DOMAIN q = 1..Len(q)
        /\ DOMAIN Append(q, e) = 1..(Len(q) + 1)
        /\ \A i \in 1..Len(q) : Append(q, e)[i] = q[i]
        /\ Append(q, e)[Len(q) + 1] = e
    OBVIOUS
  <1>2. \A i, j \in DOMAIN Append(q, e) : Append(q, e)[i] = Append(q, e)[j] => i = j
    BY <1>1
  <1>3. ASSUME NEW x
        PROVE  x \in {Append(q, e)[i] : i \in DOMAIN Append(q, e)}
                  <=> x \in {q[i] : i \in DOMAIN q} \cup {e}
    <2>1. ASSUME NEW i \in DOMAIN q, x = q[i]
          PROVE  x \in {Append(q, e)[k] : k \in DOMAIN Append(q, e)}
      <3>1. i \in DOMAIN Append(q, e) /\ Append(q, e)[i] = x
        BY <1>1, <2>1
      <3> QED BY <3>1
    <2>2. e \in {Append(q, e)[k] : k \in DOMAIN Append(q, e)}
      <3>1. Len(q) + 1 \in DOMAIN Append(q, e)
        BY <1>1
      <3> QED BY <1>1, <3>1
    <2>3. ASSUME NEW i \in DOMAIN Append(q, e), x = Append(q, e)[i]
          PROVE  x \in {q[k] : k \in DOMAIN q} \cup {e}
      BY <1>1, <2>3
    <2> QED BY <2>1, <2>2, <2>3
  <1>4. {Append(q, e)[i] : i \in DOMAIN Append(q, e)} = {q[i] : i \in DOMAIN q} \cup {e}
    BY <1>3, Zenon
  <1> QED BY <1>1, <1>2, <1>4

(* The place a member has in such a sequence, before and after.            *)
LEMMA PlaceInTail ==
    ASSUME NEW S, NEW q \in Seq(S), q # <<>>
    PROVE  /\ DOMAIN q = 1..Len(q) /\ Len(q) \in Nat
           /\ q[1] = Head(q)
           /\ \A i \in DOMAIN Tail(q) : i + 1 \in DOMAIN q /\ Tail(q)[i] = q[i + 1]
  OBVIOUS

LEMMA PlaceInAppend ==
    ASSUME NEW S, NEW q \in Seq(S), NEW e
    PROVE  \A i \in DOMAIN Append(q, e) :
              \/ i \in DOMAIN q /\ Append(q, e)[i] = q[i] /\ i <= Len(q)
              \/ i = Len(q) + 1 /\ Append(q, e)[i] = e
  OBVIOUS

(* Taking the head away loses no other member.                             *)
LEMMA MembersOfTail ==
    ASSUME NEW S, NEW q \in Seq(S), q # <<>>
    PROVE  {q[i] : i \in DOMAIN q} = {Head(q)} \cup {Tail(q)[i] : i \in DOMAIN Tail(q)}
  <1>1. /\ DOMAIN q = 1..Len(q) /\ Len(q) \in Nat \ {0}
        /\ q[1] = Head(q)
        /\ DOMAIN Tail(q) = 1..(Len(q) - 1)
        /\ \A i \in DOMAIN Tail(q) : Tail(q)[i] = q[i + 1]
    OBVIOUS
  <1>2. ASSUME NEW k \in DOMAIN q
        PROVE  q[k] \in {Head(q)} \cup {Tail(q)[i] : i \in DOMAIN Tail(q)}
    <2>1. CASE k = 1
      BY <1>1, <2>1
    <2>2. CASE k # 1
      <3>1. k - 1 \in DOMAIN Tail(q) /\ Tail(q)[k - 1] = q[k]
        BY <1>1, <2>2
      <3> QED BY <3>1
    <2> QED BY <2>1, <2>2
  <1>3. ASSUME NEW i \in DOMAIN Tail(q)
        PROVE  Tail(q)[i] \in {q[k] : k \in DOMAIN q}
    <2>1. i + 1 \in DOMAIN q /\ Tail(q)[i] = q[i + 1]
      BY <1>1
    <2> QED BY <2>1
  <1>4. Head(q) \in {q[k] : k \in DOMAIN q}
    <2>1. 1 \in DOMAIN q
      BY <1>1
    <2> QED BY <1>1, <2>1
  <1> QED BY <1>2, <1>3, <1>4
=============================================================================
