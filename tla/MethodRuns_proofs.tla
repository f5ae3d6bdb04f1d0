--------------------------- MODULE MethodRuns_proofs ---------------------------
(***************************************************************************)
(* Three results, each on top of the one before, for every set of classes  *)
(* and every hierarchy that is right about them: merged frames describe    *)
(* all that was merged into them; frames that are closed describe every    *)
(* run of their method; and frames that are closed under what they say     *)
(* themselves of the methods called describe every run of a program.       *)
(***************************************************************************)
EXTENDS ProgramRuns, MergePoint, WellFoundedInduction, FiniteSetTheorems, TLAPS

-----------------------------------------------------------------------------
(* Induction over numbers, for a set of them in place of a predicate.      *)

LEMMA LeastNumber ==
    ASSUME NEW T, T \subseteq Nat, T # {}
    PROVE  \E n \in T : \A m \in T : n <= m
<1>1. PICK n \in T : \A m \in T : ~(<<m, n>> \in OpToRel(<, Nat))
  BY NatLessThanWellFounded, WFMin, Zenon
<1>2. \A m \in T : ~(m < n)
  BY <1>1 DEF OpToRel
<1> QED BY <1>2

LEMMA InductionUpTo ==
    ASSUME NEW d \in Nat, NEW T, 0 \in T, \A n \in 0..(d - 1) : n \in T => n + 1 \in T
    PROVE  0..d \subseteq T
<1> SUFFICES ASSUME 0..d \ T # {} PROVE FALSE
  OBVIOUS
<1>1. PICK n \in 0..d \ T : \A m \in 0..d \ T : n <= m
  <2> 0..d \ T \subseteq Nat
    OBVIOUS
  <2> QED BY LeastNumber
<1>2. n - 1 \in 0..(d - 1) /\ n - 1 \in T
  BY <1>1
<1> QED BY <1>1, <1>2

(* A function defined by recursion over an interval exists.                *)
Iterates(f, S, first, step, d) ==
    /\ f \in [0..d -> S]
    /\ f[0] = first
    /\ \A n \in 1..d : f[n] = step[<<n, f[n - 1]>>]

LEMMA Iteration ==
    ASSUME NEW S, NEW first \in S, NEW step \in [Nat \X S -> S], NEW d \in Nat
    PROVE  \E f : Iterates(f, S, first, step, d)
<1> DEFINE T == {e \in Nat : \E f : Iterates(f, S, first, step, e)}
<1>1. 0 \in T
  <2> Iterates([n \in 0..0 |-> first], S, first, step, 0)
    BY DEF Iterates
  <2> QED OBVIOUS
<1>2. ASSUME NEW e \in 0..(d - 1), e \in T PROVE e + 1 \in T
  <2>1. PICK f : Iterates(f, S, first, step, e)
    BY <1>2
  <2> DEFINE g == [n \in 0..(e + 1) |-> IF n = e + 1 THEN step[<<n, f[e]>>] ELSE f[n]]
  <2>2. Iterates(g, S, first, step, e + 1)
    BY <2>1 DEF Iterates
  <2> HIDE DEF g
  <2> QED BY <2>2
<1> HIDE DEF T
<1>3. 0..d \subseteq T
  BY <1>1, <1>2, InductionUpTo, Zenon
<1>4. d \in T
  BY <1>3
<1> QED BY <1>4 DEF T

LEMMA LeastValue ==
    ASSUME NEW S, S # {}, NEW f \in [S -> Nat]
    PROVE  \E a \in S : \A b \in S : f[a] <= f[b]
<1> DEFINE T == {f[a] : a \in S}
<1>1. T \subseteq Nat /\ T # {}
  OBVIOUS
<1>2. PICK n \in T : \A m \in T : n <= m
  BY <1>1, LeastNumber
<1> QED BY <1>2

-----------------------------------------------------------------------------
(* Common supertypes.                                                      *)

LEMMA KnownReference ==
    /\ KnownReferences = {ReferenceOrder[i] : i \in 1..Len(ReferenceOrder)}
    /\ Len(ReferenceOrder) \in Nat
    /\ \A r \in KnownReferences :
          \/ r.k = "exact" /\ r = Exact(r.c) /\ r.c \in KnownClasses
          \/ r.k = "array" /\ r = ArrayRef(r.d)
    /\ \A c \in KnownClasses : Exact(c) \in KnownReferences
    /\ Object \in KnownClasses
<1>1. DOMAIN ReferenceOrder = 1..Len(ReferenceOrder) /\ Len(ReferenceOrder) \in Nat
  BY ReferenceOrderAssumption
<1>2. KnownReferences = {ReferenceOrder[i] : i \in 1..Len(ReferenceOrder)}
  BY <1>1 DEF KnownReferences, Range
<1>3. \A r \in KnownReferences : \/ r.k = "exact" /\ r = Exact(r.c)
                                 \/ r.k = "array" /\ r = ArrayRef(r.d)
  BY ReferenceOrderAssumption DEF KnownReferences
<1>4. \A c \in KnownClasses : Exact(c) \in KnownReferences
  BY <1>3 DEF KnownClasses
<1>5. Object \in KnownClasses
  <2>1. Exact(Object) \in KnownReferences
    BY ReferenceOrderAssumption DEF KnownReferences
  <2>2. Exact(Object).k = "exact" /\ Exact(Object).c = Object
    BY DEF Exact
  <2> QED BY <2>1, <2>2 DEF KnownClasses
<1> QED BY <1>1, <1>2, <1>3, <1>4, <1>5 DEF KnownClasses

(* What ancestor_distances collects, level by level, and the level at      *)
(* which it finds a class first.                                           *)
Depth(h) == Cardinality(DOMAIN h) + 1
Reaches(reach, h, root) ==
    /\ reach \in [0..Depth(h) -> SUBSET KnownClasses]
    /\ reach[0] = {root}
    /\ \A n \in 0..(Depth(h) - 1) :
          reach[n + 1] = reach[n] \cup UNION {DirectSupertypes(h, c) : c \in reach[n]}
    /\ AncestorDistances(h, root) \in [reach[Depth(h)] -> 0..Depth(h)]
    /\ \A c \in reach[Depth(h)] :
          LET n == AncestorDistances(h, root)[c]
          IN  c \in reach[n] /\ \A m \in 0..(n - 1) : c \notin reach[m]

LEMMA AncestorsReached ==
    ASSUME NEW h, NEW supertypes, RightIn(h, supertypes), NEW root \in KnownClasses
    PROVE  Depth(h) \in Nat /\ \E reach : Reaches(reach, h, root)
<1> DEFINE depth == Depth(h)
           next(C) == C \cup UNION {DirectSupertypes(h, c) : c \in C}
           Is(f) == f = [n \in 0..depth |-> IF n = 0 THEN {root} ELSE next(f[n - 1])]
           step == [x \in Nat \X SUBSET KnownClasses |-> next(x[2])]
           reach == CHOOSE f : Is(f)
<1>1. depth \in Nat
  BY FS_CardinalityType DEF RightIn, Depth
<1>2. \A c \in KnownClasses : DirectSupertypes(h, c) \subseteq KnownClasses \cap supertypes[c]
  BY DEF DirectSupertypes, RightIn
<1>3. step \in [Nat \X SUBSET KnownClasses -> SUBSET KnownClasses]
  BY <1>2
<1>4. Is(reach)
  <2>1. PICK f : Iterates(f, SUBSET KnownClasses, {root}, step, depth)
    <3>1. {root} \in SUBSET KnownClasses
      OBVIOUS
    <3> HIDE DEF step, depth
    <3> QED BY <1>1, <1>3, <3>1, Iteration
  <2>2. /\ f \in [0..depth -> SUBSET KnownClasses]
        /\ f[0] = {root}
        /\ \A n \in 1..depth : f[n] = step[<<n, f[n - 1]>>]
    <3> HIDE DEF step, depth
    <3> QED BY <2>1 DEF Iterates
  <2> HIDE DEF depth, next
  <2>3. ASSUME NEW n \in 1..depth PROVE f[n] = next(f[n - 1])
    <3>1. n \in Nat /\ n - 1 \in 0..depth
      BY <1>1
    <3>2. <<n, f[n - 1]>> \in Nat \X SUBSET KnownClasses
      BY <2>2, <3>1
    <3>3. step[<<n, f[n - 1]>>] = next(f[n - 1])
      BY <3>2
    <3> QED BY <2>2, <3>3
  <2>4. Is(f)
    <3>1. \A n \in 0..depth : n # 0 => n \in 1..depth
      BY <1>1
    <3>2. \A n \in 0..depth : f[n] = IF n = 0 THEN {root} ELSE next(f[n - 1])
      BY <2>2, <2>3, <3>1
    <3> QED BY <2>2, <3>2
  <2> QED BY <2>4
<1> HIDE DEF reach
<1> DEFINE nearest(c, n) == c \in reach[n] /\ \A m \in 0..(n - 1) : c \notin reach[m]
<1>5. ASSUME NEW c \in reach[depth] PROVE \E n \in 0..depth : nearest(c, n)
  <2> DEFINE T == {n \in 0..depth : c \in reach[n]}
  <2>1. T \subseteq Nat /\ depth \in T
    BY <1>1
  <2>2. PICK n \in T : \A m \in T : n <= m
    <3> HIDE DEF T
    <3> QED BY <2>1, LeastNumber
  <2> QED BY <1>1, <2>2
<1>6. AncestorDistances(h, root) =
          [c \in reach[depth] |-> CHOOSE n \in 0..depth : nearest(c, n)]
  BY DEF AncestorDistances, reach, Depth
<1>7. \A c \in reach[depth] : (CHOOSE n \in 0..depth : nearest(c, n)) \in 0..depth
  <2> HIDE DEF nearest, depth
  <2> QED BY <1>5
<1>8. /\ reach \in [0..depth -> SUBSET KnownClasses] /\ reach[0] = {root}
      /\ \A n \in 0..(depth - 1) : reach[n + 1] = next(reach[n])
  <2> DEFINE T == {n \in 0..depth : reach[n] \subseteq KnownClasses}
  <2>1. /\ DOMAIN reach = 0..depth /\ reach[0] = {root}
        /\ reach = [n \in DOMAIN reach |-> reach[n]]
    BY <1>1, <1>4
  <2>2. ASSUME NEW n \in 0..(depth - 1) PROVE reach[n + 1] = next(reach[n])
    BY <1>1, <1>4
  <2> HIDE DEF depth, Is
  <2>3. 0 \in T
    BY <1>1, <2>1
  <2>4. ASSUME NEW n \in 0..(depth - 1), n \in T PROVE n + 1 \in T
    BY <1>1, <1>2, <2>2, <2>4
  <2> HIDE DEF T
  <2>5. 0..depth \subseteq T
    BY <1>1, <2>3, <2>4, InductionUpTo, Zenon
  <2> HIDE DEF next
  <2>6. \A n \in 0..depth : reach[n] \in SUBSET KnownClasses
    BY <2>5 DEF T
  <2> QED BY <2>1, <2>2, <2>6
<1> DEFINE l == AncestorDistances(h, root)
<1>9. ASSUME NEW c \in reach[depth] PROVE l[c] \in 0..depth /\ nearest(c, l[c])
  <2>1. l[c] = CHOOSE n \in 0..depth : nearest(c, n)
    BY <1>6
  <2> HIDE DEF nearest, depth
  <2> QED BY <1>5, <2>1
<1>10. l = [c \in reach[depth] |-> l[c]]
  BY <1>6
<1> HIDE DEF l, depth, Is
<1> QED BY <1>1, <1>8, <1>9, <1>10 DEF Reaches, l, depth

LEMMA ReachedParts ==
    ASSUME NEW h, NEW supertypes, RightIn(h, supertypes), NEW root, NEW reach,
           Reaches(reach, h, root)
    PROVE  /\ Depth(h) \in Nat
           /\ \A c \in KnownClasses : DirectSupertypes(h, c) \subseteq KnownClasses \cap supertypes[c]
           /\ DOMAIN AncestorDistances(h, root) = reach[Depth(h)]
           /\ \A n \in 0..Depth(h) : reach[n] \subseteq KnownClasses
<1>1. Depth(h) \in Nat
  BY FS_CardinalityType DEF RightIn, Depth
<1>2. \A c \in KnownClasses : DirectSupertypes(h, c) \subseteq KnownClasses \cap supertypes[c]
  BY DEF DirectSupertypes, RightIn
<1> QED BY <1>1, <1>2 DEF Reaches

(* What ancestor_distances finds are supertypes, each at some distance.    *)
LEMMA AncestorsAreSupertypes ==
    ASSUME NEW h, NEW supertypes, RightIn(h, supertypes), NEW root \in KnownClasses
    PROVE  /\ AncestorDistances(h, root) \in [DOMAIN AncestorDistances(h, root) -> Nat]
           /\ DOMAIN AncestorDistances(h, root) \subseteq KnownClasses \cap supertypes[root]
<1> DEFINE l == AncestorDistances(h, root)
           depth == Depth(h)
<1>1. depth \in Nat
  BY AncestorsReached
<1>2. PICK reach : Reaches(reach, h, root)
  BY AncestorsReached
<1>3. /\ \A c \in KnownClasses : DirectSupertypes(h, c) \subseteq KnownClasses \cap supertypes[c]
      /\ l \in [reach[depth] -> 0..depth]
      /\ reach[0] = {root}
      /\ \A n \in 0..depth : reach[n] \subseteq KnownClasses
      /\ \A n \in 0..(depth - 1) :
            reach[n + 1] = reach[n] \cup UNION {DirectSupertypes(h, c) : c \in reach[n]}
  <2>1. /\ \A c \in KnownClasses : DirectSupertypes(h, c) \subseteq KnownClasses \cap supertypes[c]
        /\ \A n \in 0..depth : reach[n] \subseteq KnownClasses
    BY <1>2, ReachedParts
  <2> QED BY <1>2, <2>1 DEF Reaches
<1> DEFINE T == {n \in 0..depth : reach[n] \subseteq supertypes[root]}
<1> HIDE DEF l, depth
<1>4. 0 \in T
  BY <1>1, <1>3 DEF RightIn
<1>5. ASSUME NEW n \in 0..(depth - 1), n \in T PROVE n + 1 \in T
  <2>1. n \in 0..depth /\ n + 1 \in 0..depth
    BY <1>1
  <2>2. \A c \in reach[n] : DirectSupertypes(h, c) \subseteq supertypes[root]
    BY <1>3, <1>5, <2>1 DEF RightIn
  <2> QED BY <1>3, <1>5, <2>1, <2>2
<1> HIDE DEF T
<1>6. 0..depth \subseteq T
  BY <1>1, <1>4, <1>5, InductionUpTo, Zenon
<1>7. reach[depth] \subseteq KnownClasses \cap supertypes[root]
  BY <1>1, <1>3, <1>6 DEF T
<1>8. l \in [DOMAIN l -> Nat] /\ DOMAIN l = reach[depth]
  BY <1>1, <1>3
<1> QED BY <1>7, <1>8 DEF l

(* In a tree the ancestors of a class are on one line: one that is at     *)
(* least as far as another is an ancestor of that one.                     *)
OneParent(h) ==
    \A c \in KnownClasses : \A d, e \in DirectSupertypes(h, c) : d = e

LEMMA AncestorsAreOnOneLine ==
    ASSUME NEW h, NEW supertypes, RightIn(h, supertypes), OneParent(h),
           NEW root \in KnownClasses,
           NEW near \in DOMAIN AncestorDistances(h, root),
           NEW far \in DOMAIN AncestorDistances(h, root),
           AncestorDistances(h, root)[near] <= AncestorDistances(h, root)[far]
    PROVE  far \in DOMAIN AncestorDistances(h, near)
<1> DEFINE depth == Depth(h)
           l == AncestorDistances(h, root)
           parents(C) == UNION {DirectSupertypes(h, c) : c \in C}
<1>1. depth \in Nat /\ near \in KnownClasses
  BY AncestorsReached, AncestorsAreSupertypes
<1>2. PICK reach : Reaches(reach, h, root)
  BY AncestorsReached
<1>3. PICK above : Reaches(above, h, near)
  BY <1>1, AncestorsReached
<1>4. /\ reach[0] = {root}
      /\ \A n \in 0..(depth - 1) : reach[n + 1] = reach[n] \cup parents(reach[n])
      /\ \A n \in 0..depth : reach[n] \subseteq KnownClasses
      /\ l[near] \in 0..depth /\ near \in reach[l[near]]
      /\ \A m \in 0..(l[near] - 1) : near \notin reach[m]
      /\ l[far] \in 0..depth /\ far \in reach[l[far]]
      /\ \A m \in 0..(l[far] - 1) : far \notin reach[m]
  BY <1>2, ReachedParts DEF Reaches
<1>5. /\ above[0] = {near}
      /\ \A n \in 0..(depth - 1) : above[n + 1] = above[n] \cup parents(above[n])
      /\ DOMAIN AncestorDistances(h, near) = above[depth]
  BY <1>3, ReachedParts DEF Reaches
<1> HIDE DEF depth, l
(* The classes that a level is the first to have: one at most.             *)
<1> DEFINE fresh(n) == IF n = 0 THEN {root} ELSE reach[n] \ reach[n - 1]
<1>6. ASSUME NEW n \in 0..(depth - 1), NEW d \in fresh(n + 1)
      PROVE  \E c \in fresh(n) : d \in DirectSupertypes(h, c)
  <2>1. n \in Nat /\ n + 1 # 0 /\ (n + 1) - 1 = n
    BY <1>1
  <2>2. d \in reach[n + 1] /\ d \notin reach[n]
    BY <1>6, <2>1
  <2>3. PICK c \in reach[n] : d \in DirectSupertypes(h, c)
    BY <1>4, <2>2
  <2>4. CASE n = 0
    BY <1>4, <2>3, <2>4
  <2>5. CASE n # 0
    <3>1. n - 1 \in 0..(depth - 1) /\ (n - 1) + 1 = n
      BY <1>1, <2>5
    <3>2. reach[n] = reach[n - 1] \cup parents(reach[n - 1])
      BY <1>4, <3>1
    <3>3. c \notin reach[n - 1]
      BY <2>2, <2>3, <3>2
    <3> QED BY <2>3, <2>5, <3>3
  <2> QED BY <2>4, <2>5
<1>7. \A n \in 0..depth : fresh(n) \subseteq reach[n]
  BY <1>4
<1> HIDE DEF fresh, parents
<1>8. \A n \in 0..depth : \A c, d \in fresh(n) : c = d
  <2> DEFINE T == {n \in 0..depth : \A c, d \in fresh(n) : c = d}
  <2>1. 0 \in T
    BY <1>1 DEF fresh
  <2>2. ASSUME NEW n \in 0..(depth - 1), n \in T PROVE n + 1 \in T
    <3>1. n \in 0..depth /\ n + 1 \in 0..depth
      BY <1>1
    <3>2. ASSUME NEW c \in fresh(n + 1), NEW d \in fresh(n + 1) PROVE c = d
      <4>1. PICK x \in fresh(n) : c \in DirectSupertypes(h, x)
        BY <1>6
      <4>2. PICK y \in fresh(n) : d \in DirectSupertypes(h, y)
        BY <1>6
      <4>3. x = y /\ x \in KnownClasses
        BY <1>4, <1>7, <2>2, <3>1, <4>1, <4>2
      <4> QED BY <4>1, <4>2, <4>3 DEF OneParent
    <3> QED BY <3>1, <3>2
  <2> HIDE DEF T
  <2>3. 0..depth \subseteq T
    BY <1>1, <2>1, <2>2, InductionUpTo, Zenon
  <2> QED BY <2>3 DEF T
<1>9. near \in fresh(l[near]) /\ far \in fresh(l[far])
  <2>1. ASSUME NEW c, NEW n \in 0..depth, c \in reach[n], \A m \in 0..(n - 1) : c \notin reach[m]
        PROVE  c \in fresh(n)
    <3>1. n # 0 => n - 1 \in 0..(n - 1)
      BY <1>1
    <3> QED BY <1>4, <2>1, <3>1 DEF fresh
  <2> QED BY <1>4, <2>1
<1> DEFINE rest == l[far] - l[near]
<1>10. rest \in Nat /\ l[near] \in Nat /\ l[far] = l[near] + rest /\ l[near] + rest <= depth
  BY <1>1, <1>4 DEF l
<1> HIDE DEF rest
<1>11. fresh(l[near] + rest) \subseteq above[rest]
  <2> DEFINE T == {k \in 0..rest : fresh(l[near] + k) \subseteq above[k]}
  <2>1. 0 \in T
    <3>1. l[near] + 0 = l[near] /\ 0 \in 0..rest
      BY <1>10
    <3>2. fresh(l[near]) \subseteq {near}
      BY <1>4, <1>8, <1>9
    <3> QED BY <1>5, <3>1, <3>2
  <2>2. ASSUME NEW k \in 0..(rest - 1), k \in T PROVE k + 1 \in T
    <3>1. /\ k + 1 \in 0..rest /\ k \in 0..(depth - 1)
          /\ l[near] + k \in 0..(depth - 1) /\ (l[near] + k) + 1 = l[near] + (k + 1)
      BY <1>1, <1>10
    <3>2. ASSUME NEW d \in fresh(l[near] + (k + 1)) PROVE d \in above[k + 1]
      <4>1. PICK c \in fresh(l[near] + k) : d \in DirectSupertypes(h, c)
        BY <1>6, <3>1
      <4>2. c \in above[k]
        BY <2>2, <4>1
      <4> QED BY <1>5, <3>1, <4>1, <4>2 DEF parents
    <3> QED BY <3>1, <3>2
  <2> HIDE DEF T
  <2>3. 0..rest \subseteq T
    BY <1>10, <2>1, <2>2, InductionUpTo, Zenon
  <2> QED BY <1>10, <2>3 DEF T
<1>12. above[rest] \subseteq above[depth]
  <2> DEFINE more == depth - rest
             T == {k \in 0..more : above[rest] \subseteq above[rest + k]}
  <2>1. more \in Nat /\ rest + more = depth
    BY <1>1, <1>10
  <2> HIDE DEF more
  <2>2. 0 \in T
    BY <1>10, <2>1
  <2>3. ASSUME NEW k \in 0..(more - 1), k \in T PROVE k + 1 \in T
    <3>1. k + 1 \in 0..more /\ rest + k \in 0..(depth - 1) /\ (rest + k) + 1 = rest + (k + 1)
      BY <1>1, <1>10, <2>1
    <3>2. above[rest + k] \subseteq above[rest + (k + 1)]
      BY <1>5, <3>1
    <3> QED BY <2>3, <3>1, <3>2
  <2> HIDE DEF T
  <2>4. 0..more \subseteq T
    BY <2>1, <2>2, <2>3, InductionUpTo, Zenon
  <2> QED BY <2>1, <2>4 DEF T
<1> QED BY <1>5, <1>9, <1>10, <1>11, <1>12

(* The nearest shared ancestor is a shared one: of the least furthest      *)
(* distance, of those the least total, of those the least name.            *)
LEMMA NearestIsShared ==
    ASSUME NEW S, NEW T, NEW l \in [S -> Nat], NEW r \in [T -> Nat],
           S \cap T # {}, S \subseteq KnownClasses
    PROVE  /\ NearestShared(l, r) \in S \cap T
           /\ \A c \in S \cap T : LET a == NearestShared(l, r) IN l[a] <= l[c] \/ r[a] <= r[c]
<1> DEFINE shared == S \cap T
           furthest(c) == IF l[c] < r[c] THEN r[c] ELSE l[c]
           total(c) == l[c] + r[c]
           nearer(a, b) == \/ furthest(a) < furthest(b)
                           \/ furthest(a) = furthest(b) /\ total(a) < total(b)
                           \/ /\ furthest(a) = furthest(b)
                              /\ total(a) = total(b)
                              /\ NameRank(a) <= NameRank(b)
<1>1. \A c \in shared : furthest(c) \in Nat /\ total(c) \in Nat
  OBVIOUS
<1>2. \A c \in shared : NameRank(c) \in Nat
  <2> TAKE c \in shared
  <2>1. \E i \in DOMAIN ReferenceOrder : ReferenceOrder[i] = Exact(c)
    BY KnownReference, ReferenceOrderAssumption
  <2>2. DOMAIN ReferenceOrder \subseteq Nat
    BY ReferenceOrderAssumption
  <2> QED BY <2>1, <2>2 DEF NameRank
<1> DEFINE F == [c \in shared |-> furthest(c)]
<1>3. PICK x \in shared : \A b \in shared : furthest(x) <= furthest(b)
  <2>1. F \in [shared -> Nat]
    BY <1>1
  <2>2. PICK x \in shared : \A b \in shared : F[x] <= F[b]
    <3> HIDE DEF F, shared
    <3> QED BY <2>1, LeastValue DEF shared
  <2> QED BY <2>2
<1> DEFINE near == {c \in shared : furthest(c) = furthest(x)}
           G == [c \in near |-> total(c)]
<1>4. PICK y \in near : \A b \in near : total(y) <= total(b)
  <2>1. G \in [near -> Nat] /\ near # {}
    BY <1>1
  <2>2. PICK y \in near : \A b \in near : G[y] <= G[b]
    <3> HIDE DEF G, near
    <3> QED BY <2>1, LeastValue
  <2> QED BY <2>2
<1> DEFINE nearest == {c \in near : total(c) = total(y)}
           H == [c \in nearest |-> NameRank(c)]
<1>5. PICK z \in nearest : \A b \in nearest : NameRank(z) <= NameRank(b)
  <2>1. H \in [nearest -> Nat] /\ nearest # {}
    BY <1>2
  <2>2. PICK z \in nearest : \A b \in nearest : H[z] <= H[b]
    <3> HIDE DEF H, nearest
    <3> QED BY <2>1, LeastValue
  <2> QED BY <2>2
<1>6. \A b \in shared : nearer(z, b)
  <2> TAKE b \in shared
  <2>1. furthest(z) = furthest(x) /\ total(z) = total(y)
    BY <1>5
  <2>2. furthest(x) <= furthest(b)
    BY <1>3
  <2>3. CASE furthest(x) < furthest(b)
    BY <2>1, <2>3
  <2>4. CASE furthest(x) = furthest(b)
    <3>1. total(y) <= total(b)
      BY <1>4, <2>4
    <3>2. CASE total(y) < total(b)
      BY <2>1, <2>4, <3>2
    <3>3. CASE total(y) = total(b)
      <4>1. NameRank(z) <= NameRank(b)
        BY <1>5, <2>4, <3>3
      <4> QED BY <2>1, <2>4, <3>3, <4>1
    <3> QED
      <4> HIDE DEF total
      <4>1. total(y) \in Nat /\ total(b) \in Nat
        BY <1>1, <1>4
      <4> QED BY <3>1, <3>2, <3>3, <4>1
  <2> QED
    <3>1. furthest(x) \in Nat /\ furthest(b) \in Nat
      BY <1>1, <1>3
    <3> HIDE DEF furthest
    <3> QED BY <2>2, <2>3, <2>4, <3>1
<1>7. NearestShared(l, r) = CHOOSE a \in shared : \A b \in shared : nearer(a, b)
  BY DEF NearestShared
<1> DEFINE a == NearestShared(l, r)
<1>8. a \in shared /\ \A b \in shared : nearer(a, b)
  <2> HIDE DEF nearer
  <2> QED BY <1>5, <1>6, <1>7
<1> HIDE DEF a
<1>9. \A c \in shared : l[a] <= l[c] \/ r[a] <= r[c]
  BY <1>8
<1> QED BY <1>8, <1>9 DEF a

LEMMA CommonSupertypeIsAbove ==
    ASSUME NEW h, NEW supertypes, RightIn(h, supertypes),
           NEW left \in KnownClasses, NEW right \in KnownClasses
    PROVE  \/ CommonSupertype(h, left, right) = NoClass
           \/ CommonSupertype(h, left, right)
                 \in KnownClasses \cap supertypes[left] \cap supertypes[right]
<1>1. \A c \in KnownClasses : {c, Object} \subseteq supertypes[c]
  BY DEF RightIn
<1>2. CASE left = right
  BY <1>1, <1>2 DEF CommonSupertype
<1>3. CASE left # right /\ Object \in {left, right}
  BY <1>1, <1>3, KnownReference DEF CommonSupertype
<1>4. CASE left # right /\ Object \notin {left, right}
  <2> DEFINE l == AncestorDistances(h, left)
             r == AncestorDistances(h, right)
  <2>1. CommonSupertype(h, left, right) = NearestShared(l, r)
    BY <1>4 DEF CommonSupertype
  <2>2. CASE DOMAIN l \cap DOMAIN r = {}
    BY <2>1, <2>2 DEF NearestShared
  <2>3. CASE DOMAIN l \cap DOMAIN r # {}
    <3>1. l \in [DOMAIN l -> Nat] /\ DOMAIN l \subseteq KnownClasses \cap supertypes[left]
      BY AncestorsAreSupertypes
    <3>2. r \in [DOMAIN r -> Nat] /\ DOMAIN r \subseteq KnownClasses \cap supertypes[right]
      BY AncestorsAreSupertypes
    <3> HIDE DEF l, r
    <3>3. NearestShared(l, r) \in DOMAIN l \cap DOMAIN r
      BY <2>3, <3>1, <3>2, NearestIsShared
    <3> QED BY <2>1, <3>1, <3>2, <3>3
  <2> QED BY <2>2, <2>3
<1> QED BY <1>2, <1>3, <1>4

-----------------------------------------------------------------------------
(* The common supertype in a tree: its supertypes are those that the two   *)
(* classes share.                                                          *)

LEMMA TreeParts ==
    ASSUME NEW w, RightIn(w.hierarchy, w.supertypes), Tree(w)
    PROVE  /\ OneParent(w.hierarchy)
           /\ Object \in KnownClasses
           /\ w.supertypes[Object] = {Object}
           /\ \A c \in KnownClasses : /\ {c, Object} \subseteq w.supertypes[c]
                                      /\ w.supertypes[c] \subseteq KnownClasses
                                      /\ \A d \in w.supertypes[c] :
                                            w.supertypes[d] \subseteq w.supertypes[c]
           /\ \A c \in KnownClasses \ {Object} :
                 w.supertypes[c] = DOMAIN AncestorDistances(w.hierarchy, c)
<1>1. OneParent(w.hierarchy)
  BY DEF OneParent, DirectSupertypes, Tree
<1>2. Object \in KnownClasses
  BY KnownReference
<1>3. \A c \in KnownClasses : /\ {c, Object} \subseteq w.supertypes[c]
                              /\ \A d \in w.supertypes[c] :
                                    w.supertypes[d] \subseteq w.supertypes[c]
  BY DEF RightIn
<1>4. /\ w.supertypes[Object] = {Object}
      /\ \A c \in KnownClasses \ {Object} :
            w.supertypes[c] = DOMAIN AncestorDistances(w.hierarchy, c)
  BY DEF Tree
<1>5. ASSUME NEW c \in KnownClasses PROVE w.supertypes[c] \subseteq KnownClasses
  <2>1. CASE c = Object
    BY <1>2, <1>4, <2>1
  <2>2. CASE c # Object
    <3>1. DOMAIN AncestorDistances(w.hierarchy, c) \subseteq KnownClasses
      BY AncestorsAreSupertypes
    <3> QED BY <1>4, <2>2, <3>1
  <2> QED BY <2>1, <2>2
<1> QED BY <1>1, <1>2, <1>3, <1>4, <1>5

LEMMA TreeCommonSupertype ==
    ASSUME NEW w, RightIn(w.hierarchy, w.supertypes), Tree(w),
           NEW left \in KnownClasses, NEW right \in KnownClasses
    PROVE  LET common == CommonSupertype(w.hierarchy, left, right)
           IN  /\ common \in KnownClasses
               /\ w.supertypes[common] = w.supertypes[left] \cap w.supertypes[right]
<1> DEFINE h == w.hierarchy
           supertypes == w.supertypes
           common == CommonSupertype(h, left, right)
<1>1. CASE left = right
  BY <1>1 DEF CommonSupertype
<1>2. CASE left # right /\ Object \in {left, right}
  <2>1. common = Object
    BY <1>2 DEF CommonSupertype
  <2>2. supertypes[Object] = {Object} /\ Object \in supertypes[left] /\ Object \in supertypes[right]
    BY TreeParts
  <2> HIDE DEF common, supertypes
  <2>3. supertypes[left] \cap supertypes[right] = {Object}
    BY <1>2, <2>2
  <2>4. common \in KnownClasses /\ supertypes[common] = supertypes[left] \cap supertypes[right]
    BY <2>1, <2>2, <2>3, TreeParts
  <2> QED BY <2>4 DEF common, supertypes
<1>3. CASE left # right /\ Object \notin {left, right}
  <2> DEFINE l == AncestorDistances(h, left)
             r == AncestorDistances(h, right)
  <2>1. common = NearestShared(l, r)
    BY <1>3 DEF CommonSupertype
  <2>2. /\ supertypes[left] = DOMAIN l /\ supertypes[right] = DOMAIN r
        /\ Object \in supertypes[left] /\ Object \in supertypes[right]
        /\ supertypes[left] \subseteq KnownClasses
    BY <1>3, TreeParts
  <2>3. l \in [DOMAIN l -> Nat] /\ r \in [DOMAIN r -> Nat]
    BY AncestorsAreSupertypes
  <2>4. /\ common \in DOMAIN l \cap DOMAIN r
        /\ \A s \in DOMAIN l \cap DOMAIN r : l[common] <= l[s] \/ r[common] <= r[s]
    <3> HIDE DEF l, r, common, supertypes
    <3> QED BY <2>1, <2>2, <2>3, NearestIsShared
  <2>5. common \in KnownClasses
    BY <2>2, <2>4
  <2>6. ASSUME NEW s \in supertypes[left] \cap supertypes[right] PROVE s \in supertypes[common]
    <3>1. l[common] <= l[s] \/ r[common] <= r[s]
      BY <2>2, <2>4
    <3>2. ASSUME l[common] <= l[s] PROVE s \in DOMAIN AncestorDistances(h, common)
      BY <2>2, <2>4, <3>2, TreeParts, AncestorsAreOnOneLine
    <3>3. ASSUME r[common] <= r[s] PROVE s \in DOMAIN AncestorDistances(h, common)
      BY <2>2, <2>4, <3>3, TreeParts, AncestorsAreOnOneLine
    <3>4. s \in DOMAIN AncestorDistances(h, common)
      BY <3>1, <3>2, <3>3
    <3> QED BY <2>5, <3>4, AncestorsAreSupertypes
  <2>7. supertypes[common] \subseteq supertypes[left] \cap supertypes[right]
    BY <2>2, <2>4, TreeParts
  <2> QED BY <2>5, <2>6, <2>7
<1> QED BY <1>1, <1>2, <1>3

-----------------------------------------------------------------------------
(* A type stands for another: it describes each value the other does.      *)

StandsFor(supertypes, wide, type) ==
    \A v \in Values : DescribesIn(supertypes, type, v) => DescribesIn(supertypes, wide, v)

(* The hierarchy is right about the classes of the values considered.      *)
RightAboutValues(h, supertypes) ==
    /\ RightIn(h, supertypes)
    /\ \A v \in Values : v.v = "object" => v.class \in DOMAIN supertypes

LEMMA NoHierarchyIsRight ==
    ASSUME NEW h, NEW supertypes, RightAboutValues(h, supertypes)
    PROVE  RightAboutValues(NoHierarchy, supertypes)
<1>1. DOMAIN NoHierarchy = {}
  BY DEF NoHierarchy
<1>2. IsFiniteSet(DOMAIN NoHierarchy)
  BY <1>1, FS_EmptySet
<1> QED BY <1>1, <1>2 DEF RightAboutValues, RightIn

(* What the classes and array types of the instance describe.              *)
LEMMA ReferenceDescribes ==
    ASSUME NEW supertypes, NEW r \in KnownReferences, NEW v
    PROVE  DescribesIn(supertypes, r, v) <=>
               v = Unset \/ v = NullRef \/ InstanceIn(supertypes, r, v)
<1>1. r.k \in {"exact", "array"}
  BY KnownReference
<1> QED BY <1>1 DEF DescribesIn, DescribesOne, IsReference, IsIntegral, Conflict, Unknown,
                    Long, ReturnAddress

(* A join of two references describes the values of both.                  *)
LEMMA JoinReferenceCovers ==
    ASSUME NEW h, NEW supertypes, RightAboutValues(h, supertypes),
           NEW a \in KnownReferences, NEW b \in KnownReferences
    PROVE  \/ JoinReference(a, b, h) = None
           \/ /\ JoinReference(a, b, h) \in KnownReferences
              /\ StandsFor(supertypes, JoinReference(a, b, h), a)
              /\ StandsFor(supertypes, JoinReference(a, b, h), b)
<1>1. CASE a = b
  BY <1>1 DEF JoinReference, StandsFor
<1>2. CASE a # b /\ a.k = "exact" /\ b.k = "exact"
  <2> DEFINE c == CommonSupertype(h, a.c, b.c)
             j == ExactOrNone(c)
  <2>1. JoinReference(a, b, h) = j
    BY <1>2 DEF JoinReference
  <2>2. a.c \in KnownClasses /\ b.c \in KnownClasses
    BY <1>2 DEF KnownClasses
  <2>3. \/ c = NoClass
        \/ c \in KnownClasses \cap supertypes[a.c] \cap supertypes[b.c]
    BY <2>2, CommonSupertypeIsAbove DEF RightAboutValues
  <2> HIDE DEF c
  <2>4. CASE c = NoClass
    BY <2>1, <2>4 DEF ExactOrNone
  <2>5. CASE c # NoClass
    <3>1. /\ j \in KnownReferences
          /\ j.k = "exact"
          /\ j.c = c
      BY <2>3, <2>5, KnownReference DEF ExactOrNone, Exact
    <3> HIDE DEF j
    <3>2. ASSUME NEW r \in KnownReferences, r.k = "exact", r.c \in KnownClasses,
                 c \in supertypes[r.c]
          PROVE  StandsFor(supertypes, j, r)
      <4> SUFFICES ASSUME NEW v \in Values, InstanceIn(supertypes, r, v)
                   PROVE  InstanceIn(supertypes, j, v)
        BY <3>1, ReferenceDescribes DEF StandsFor
      <4>1. CASE v.v = "object"
        <5>1. v.class \in DOMAIN supertypes /\ r.c \in supertypes[v.class]
          BY <3>2, <4>1 DEF RightAboutValues, InstanceIn
        <5>2. c \in supertypes[v.class]
          BY <3>2, <5>1 DEF RightAboutValues, RightIn
        <5> QED BY <3>1, <4>1, <5>2 DEF InstanceIn
      <4>2. CASE v.v = "array"
        <5>1. r.c \in ArraySupertypes
          BY <3>2, <4>2 DEF InstanceIn
        <5>2. r.c \in DOMAIN supertypes
          BY <3>2 DEF RightAboutValues, RightIn
        <5>3. c \in ArraySupertypes
          BY <3>2, <5>1, <5>2 DEF RightAboutValues, RightIn
        <5> QED BY <3>1, <4>2, <5>3 DEF InstanceIn
      <4>3. CASE v.v \notin {"object", "array"}
        BY <4>3 DEF InstanceIn
      <4> QED BY <4>1, <4>2, <4>3
    <3> QED BY <1>2, <2>1, <2>2, <2>3, <2>5, <3>1, <3>2
  <2> QED BY <2>4, <2>5
<1>3. CASE a # b /\ {a.k, b.k} = {"exact", "array"}
  <2> DEFINE class == IF a.k = "exact" THEN a ELSE b
             array == IF a.k = "exact" THEN b ELSE a
  <2>1. class \in KnownReferences /\ class.k = "exact" /\ array.k = "array"
    BY <1>3
  <2>2. JoinReference(a, b, h) = IF class.c \in ArraySupertypes THEN class ELSE None
    BY <1>3 DEF JoinReference
  <2>3. CASE class.c \in ArraySupertypes
    <3>1. StandsFor(supertypes, class, array)
      <4>1. array \in KnownReferences
        OBVIOUS
      <4> HIDE DEF class, array
      <4> SUFFICES ASSUME NEW v \in Values, InstanceIn(supertypes, array, v)
                   PROVE  InstanceIn(supertypes, class, v)
        BY <2>1, <4>1, ReferenceDescribes DEF StandsFor
      <4>2. v.v = "array"
        BY <2>1 DEF InstanceIn
      <4> QED BY <2>1, <2>3, <4>2 DEF InstanceIn
    <3>2. StandsFor(supertypes, class, class)
      BY DEF StandsFor
    <3>3. {a, b} = {class, array}
      OBVIOUS
    <3> HIDE DEF class, array
    <3> QED BY <2>1, <2>2, <2>3, <3>1, <3>2, <3>3
  <2>4. CASE class.c \notin ArraySupertypes
    BY <2>2, <2>4
  <2> QED BY <2>3, <2>4
<1>4. CASE a # b /\ ~(a.k = "exact" /\ b.k = "exact") /\ {a.k, b.k} # {"exact", "array"}
  BY <1>4 DEF JoinReference
<1> QED BY <1>1, <1>2, <1>3, <1>4

(* The fold over several references, step by step in their order.          *)
FoldsReferences(f, known, h) ==
    /\ f[0] = Bottom
    /\ \A n \in 1..Len(ReferenceOrder) :
          f[n] = IF ReferenceOrder[n] \in known
                 THEN FoldReference(f[n - 1], ReferenceOrder[n], h) ELSE f[n - 1]
    /\ CommonReference(known, h) = f[Len(ReferenceOrder)]

LEMMA CommonReferenceFolds ==
    ASSUME NEW h, NEW supertypes, RightAboutValues(h, supertypes),
           NEW known \in SUBSET KnownReferences
    PROVE  \E f : FoldsReferences(f, known, h)
<1> DEFINE last == Len(ReferenceOrder)
           next(acc, n) ==
               IF ReferenceOrder[n] \in known
               THEN FoldReference(acc, ReferenceOrder[n], h) ELSE acc
           Is(f) == f = [n \in 0..last |-> IF n = 0 THEN Bottom ELSE
                            IF ReferenceOrder[n] \in known
                            THEN FoldReference(f[n - 1], ReferenceOrder[n], h)
                            ELSE f[n - 1]]
           S == {Bottom, None} \cup KnownReferences
           step == [x \in Nat \X S |-> IF x[1] \in 1..last THEN next(x[2], x[1]) ELSE x[2]]
           folded == CHOOSE f : Is(f)
<1>1. last \in Nat /\ \A n \in 1..last : ReferenceOrder[n] \in KnownReferences
  BY KnownReference
<1> HIDE DEF last
<1>2. \A r \in KnownReferences : r # Bottom /\ r # None
  BY KnownReference DEF Bottom, None
<1>3. Bottom # None
  BY DEF Bottom, None
<1>4. ASSUME NEW acc \in S, NEW n \in 1..last PROVE next(acc, n) \in S
  BY <1>1, <1>4, JoinReferenceCovers DEF FoldReference
<1>5. step \in [Nat \X S -> S]
  <2> HIDE DEF next, S
  <2> QED BY <1>4
<1>6. Is(folded)
  <2>1. PICK f : Iterates(f, S, Bottom, step, last)
    <3>1. Bottom \in S
      OBVIOUS
    <3> HIDE DEF step, S
    <3> QED BY <1>1, <1>5, <3>1, Iteration
  <2>2. /\ f \in [0..last -> S]
        /\ f[0] = Bottom
        /\ \A n \in 1..last : f[n] = step[<<n, f[n - 1]>>]
    <3> HIDE DEF step, S
    <3> QED BY <2>1 DEF Iterates
  <2>3. ASSUME NEW n \in 1..last PROVE f[n] = next(f[n - 1], n)
    <3> HIDE DEF next, S
    <3>1. n \in Nat /\ n - 1 \in 0..last
      BY <1>1
    <3>2. <<n, f[n - 1]>> \in Nat \X S
      BY <2>2, <3>1
    <3>3. step[<<n, f[n - 1]>>] = next(f[n - 1], n)
      BY <3>2
    <3> QED BY <2>2, <3>3
  <2>4. Is(f)
    <3> HIDE DEF step
    <3>1. \A n \in 0..last : n # 0 => n \in 1..last
      BY <1>1
    <3>2. \A n \in 0..last : f[n] = IF n = 0 THEN Bottom ELSE
                                   IF ReferenceOrder[n] \in known
                                   THEN FoldReference(f[n - 1], ReferenceOrder[n], h)
                                   ELSE f[n - 1]
      BY <2>2, <2>3, <3>1
    <3> QED BY <2>2, <3>2
  <2> HIDE DEF Is
  <2> QED BY <2>4
<1> HIDE DEF folded
<1>7. folded[0] = Bottom
  BY <1>1, <1>6
<1>8. ASSUME NEW n \in 1..last PROVE folded[n] = next(folded[n - 1], n)
  BY <1>1, <1>6
<1>9. CommonReference(known, h) = folded[last]
  BY DEF CommonReference, folded, last, Is
<1> QED BY <1>7, <1>8, <1>9 DEF FoldsReferences, last

(* The fold over several references describes the values of them all: by   *)
(* induction over how far it has come.                                     *)
LEMMA CommonReferenceCovers ==
    ASSUME NEW h, NEW supertypes, RightAboutValues(h, supertypes),
           NEW known \in SUBSET KnownReferences, known # {}
    PROVE  \/ CommonReference(known, h) = None
           \/ /\ CommonReference(known, h) \in KnownReferences
              /\ \A r \in known : StandsFor(supertypes, CommonReference(known, h), r)
<1> DEFINE last == Len(ReferenceOrder)
           next(acc, n) ==
               IF ReferenceOrder[n] \in known
               THEN FoldReference(acc, ReferenceOrder[n], h) ELSE acc
<1>1. last \in Nat /\ \A n \in 1..last : ReferenceOrder[n] \in KnownReferences
  BY KnownReference
<1>2. \A r \in KnownReferences : r # Bottom /\ r # None
  BY KnownReference DEF Bottom, None
<1>3. Bottom # None
  BY DEF Bottom, None
<1>4. PICK folded : FoldsReferences(folded, known, h)
  BY CommonReferenceFolds
<1>5. folded[0] = Bottom
  BY <1>4 DEF FoldsReferences
<1>6. ASSUME NEW n \in 1..last PROVE folded[n] = next(folded[n - 1], n)
  BY <1>4 DEF FoldsReferences
<1> DEFINE Covered(acc, n) ==
               \/ acc = None
               \/ acc = Bottom /\ \A i \in 1..n : ReferenceOrder[i] \notin known
               \/ /\ acc \in KnownReferences
                  /\ \A i \in 1..n : ReferenceOrder[i] \in known =>
                        StandsFor(supertypes, acc, ReferenceOrder[i])
           T == {n \in 0..last : Covered(folded[n], n)}
<1>7. 0 \in T
  BY <1>1, <1>5
<1>8. ASSUME NEW n \in 0..(last - 1), n \in T PROVE n + 1 \in T
  <2> DEFINE acc == folded[n]
             r == ReferenceOrder[n + 1]
  <2>1. n + 1 \in 1..last /\ folded[n + 1] = next(acc, n + 1) /\ r \in KnownReferences
    BY <1>1, <1>6
  <2>2. Covered(acc, n)
    BY <1>8
  <2>3. \A i \in 1..(n + 1) : i \in 1..n \/ i = n + 1
    BY <1>1
  <2> HIDE DEF acc
  <2>4. CASE r \notin known
    <3>1. folded[n + 1] = acc
      BY <2>1, <2>4
    <3> HIDE DEF next
    <3> QED BY <2>1, <2>2, <2>3, <2>4, <3>1
  <2>5. CASE r \in known
    <3>1. folded[n + 1] = FoldReference(acc, r, h)
      BY <2>1, <2>5
    <3> HIDE DEF next
    <3>2. CASE acc = None
      BY <2>1, <3>1, <3>2 DEF FoldReference
    <3>3. CASE acc = Bottom /\ \A i \in 1..n : ReferenceOrder[i] \notin known
      <4>1. folded[n + 1] = r
        BY <1>3, <3>1, <3>3 DEF FoldReference
      <4>2. StandsFor(supertypes, r, r)
        BY DEF StandsFor
      <4> QED BY <2>1, <2>3, <3>3, <4>1, <4>2
    <3>4. CASE /\ acc \in KnownReferences
               /\ \A i \in 1..n : ReferenceOrder[i] \in known =>
                        StandsFor(supertypes, acc, ReferenceOrder[i])
      <4> DEFINE j == JoinReference(acc, r, h)
      <4>1. folded[n + 1] = j
        BY <1>2, <3>1, <3>4 DEF FoldReference
      <4>2. \/ j = None
            \/ /\ j \in KnownReferences
               /\ StandsFor(supertypes, j, acc)
               /\ StandsFor(supertypes, j, r)
        BY <2>1, <3>4, JoinReferenceCovers
      <4> HIDE DEF j
      <4>3. StandsFor(supertypes, j, acc) =>
                \A i \in 1..n : ReferenceOrder[i] \in known =>
                    StandsFor(supertypes, j, ReferenceOrder[i])
        BY <3>4 DEF StandsFor
      <4> QED BY <2>1, <2>3, <4>1, <4>2, <4>3
    <3> QED BY <2>2, <3>2, <3>3, <3>4
  <2> QED BY <2>4, <2>5
<1>9. Covered(folded[last], last)
  <2> HIDE DEF T
  <2>1. 0..last \subseteq T
    BY <1>1, <1>7, <1>8, InductionUpTo, Zenon
  <2> QED BY <1>1, <2>1 DEF T
<1>10. CommonReference(known, h) = folded[last]
  BY <1>4 DEF FoldsReferences
<1>11. \A r \in known : \E i \in 1..last : ReferenceOrder[i] = r
  BY KnownReference
<1>12. PICK r \in known : TRUE
  OBVIOUS
<1>13. ~(\A i \in 1..last : ReferenceOrder[i] \notin known)
  BY <1>11, <1>12
<1> HIDE DEF next, T
<1>14. ASSUME folded[last] # None
       PROVE  /\ folded[last] \in KnownReferences
              /\ \A q \in known : StandsFor(supertypes, folded[last], q)
  BY <1>9, <1>11, <1>13, <1>14
<1> QED BY <1>10, <1>14

(* Of two references the fold is their join, in one order or the other: at *)
(* each point it has come to neither of them, to one, or to both.          *)
LEMMA CommonReferenceOfTwo ==
    ASSUME NEW h, NEW supertypes, RightAboutValues(h, supertypes),
           NEW p \in KnownReferences, NEW q \in KnownReferences
    PROVE  CommonReference({p, q}, h) \in {JoinReference(p, q, h), JoinReference(q, p, h)}
<1> DEFINE last == Len(ReferenceOrder)
           seen(n) == {ReferenceOrder[i] : i \in 1..n} \cap {p, q}
           joins == {JoinReference(p, q, h), JoinReference(q, p, h)}
<1>1. /\ last \in Nat
      /\ \A r \in {p, q} : \E i \in 1..last : ReferenceOrder[i] = r
      /\ \A i, j \in 1..last : ReferenceOrder[i] = ReferenceOrder[j] => i = j
  BY KnownReference, ReferenceOrderAssumption
<1>2. \A r \in {p, q} : r # Bottom /\ r # None
  BY KnownReference DEF Bottom, None
<1>3. Bottom # None
  BY DEF Bottom, None
<1>4. PICK f : FoldsReferences(f, {p, q}, h)
  BY CommonReferenceFolds
<1>5. /\ f[0] = Bottom
      /\ \A n \in 1..last : f[n] = IF ReferenceOrder[n] \in {p, q}
                                   THEN FoldReference(f[n - 1], ReferenceOrder[n], h)
                                   ELSE f[n - 1]
      /\ CommonReference({p, q}, h) = f[last]
  BY <1>4 DEF FoldsReferences
<1> HIDE DEF last, joins
<1> DEFINE Folded(n) ==
               \/ seen(n) = {} /\ f[n] = Bottom
               \/ seen(n) = {f[n]} /\ f[n] \in {p, q}
               \/ seen(n) = {p, q} /\ f[n] \in joins
           T == {n \in 0..last : Folded(n)}
<1>6. 0 \in T
  <2>1. seen(0) = {}
    OBVIOUS
  <2> QED BY <1>1, <1>5, <2>1
<1>7. ASSUME NEW n \in 0..(last - 1), n \in T PROVE n + 1 \in T
  <2> DEFINE r == ReferenceOrder[n + 1]
  <2>1. n + 1 \in 1..last /\ n + 1 \in 0..last /\ (n + 1) - 1 = n /\ n \in Nat
    BY <1>1
  <2>2. seen(n + 1) = seen(n) \cup ({r} \cap {p, q}) /\ r \notin seen(n)
    <3>1. 1..(n + 1) = 1..n \cup {n + 1} /\ n + 1 \notin 1..n /\ 1..n \subseteq 1..last
      BY <1>1, <2>1
    <3>2. {ReferenceOrder[i] : i \in 1..(n + 1)} = {ReferenceOrder[i] : i \in 1..n} \cup {r}
      BY <3>1
    <3>3. r \notin {ReferenceOrder[i] : i \in 1..n}
      BY <1>1, <2>1, <3>1
    <3> QED BY <3>2, <3>3
  <2>3. f[n + 1] = IF r \in {p, q} THEN FoldReference(f[n], r, h) ELSE f[n]
    BY <1>5, <2>1
  <2>4. Folded(n)
    BY <1>7
  <2> HIDE DEF seen, r
  <2>5. CASE r \notin {p, q}
    BY <2>1, <2>2, <2>3, <2>4, <2>5
  <2>6. CASE r \in {p, q} /\ seen(n) = {} /\ f[n] = Bottom
    <3>1. f[n + 1] = r
      BY <1>3, <2>3, <2>6 DEF FoldReference
    <3> QED BY <2>1, <2>2, <2>6, <3>1
  <2>7. CASE r \in {p, q} /\ seen(n) = {f[n]} /\ f[n] \in {p, q}
    <3>1. f[n + 1] = JoinReference(f[n], r, h)
      BY <1>2, <2>3, <2>7 DEF FoldReference
    <3>2. f[n] # r /\ seen(n + 1) = {p, q}
      BY <2>2, <2>7
    <3>3. f[n + 1] \in joins
      BY <2>7, <3>1, <3>2 DEF joins
    <3> QED BY <2>1, <3>2, <3>3
  <2>8. CASE r \in {p, q} /\ seen(n) = {p, q}
    BY <2>2, <2>8
  <2> QED BY <2>4, <2>5, <2>6, <2>7, <2>8
<1>8. Folded(last)
  <2> HIDE DEF T
  <2>1. 0..last \subseteq T
    BY <1>1, <1>6, <1>7, InductionUpTo, Zenon
  <2> QED BY <1>1, <2>1 DEF T
<1>9. {p, q} \subseteq seen(last)
  BY <1>1
<1> HIDE DEF seen
<1>10. CASE seen(last) = {f[last]} /\ f[last] \in {p, q}
  <2>1. p = q /\ f[last] = p
    BY <1>9, <1>10
  <2>2. JoinReference(p, q, h) = p
    BY <2>1 DEF JoinReference
  <2> QED BY <1>5, <2>1, <2>2
<1> QED BY <1>5, <1>8, <1>9, <1>10 DEF joins

-----------------------------------------------------------------------------
(* The joins of types.                                                     *)

Candidates == {Null, Unknown} \cup KnownReferences

LEMMA CandidatesAreTypes ==
    /\ Candidates \subseteq SingleTypes
    /\ \A t \in SingleTypes : IsReference(t) => t \in Candidates
    /\ \A t \in SingleTypes : t.k # "alternatives"
    /\ \A t \in Candidates : t # Conflict /\ t # ReturnAddress /\ t # Bottom
    /\ \A t \in Candidates : IsReference(t)
<1>1. Candidates \subseteq SingleTypes
  BY DEF Candidates, SingleTypes
<1>2. \A t \in KnownReferences : t.k \in {"exact", "array"}
  BY KnownReference
<1>3. ASSUME NEW t \in SingleTypes PROVE (IsReference(t) => t \in Candidates) /\ t.k # "alternatives"
  BY <1>2 DEF SingleTypes, Candidates, IsReference, Null, Unknown, Bottom, Float, Long, Double,
              ReturnAddress, Conflict
<1>4. ASSUME NEW t \in Candidates
      PROVE  t # Conflict /\ t # ReturnAddress /\ t # Bottom /\ IsReference(t)
  BY <1>2 DEF Candidates, IsReference, Null, Unknown, Conflict, ReturnAddress, Bottom
<1> QED BY <1>1, <1>3, <1>4

LEMMA ReadyDescribed ==
    ASSUME NEW supertypes, NEW t \in Candidates, NEW v, DescribesIn(supertypes, t, v)
    PROVE  v = Unset \/ Ready(v)
<1>1. CASE t \in KnownReferences
  BY <1>1, ReferenceDescribes DEF Ready, InstanceIn, NullRef
<1>2. CASE t \in {Null, Unknown}
  BY <1>2 DEF DescribesIn, DescribesOne, Null, Unknown, IsReference, IsIntegral, Conflict, Long,
              ReturnAddress, Ready, NullRef
<1> QED BY <1>1, <1>2 DEF Candidates

LEMMA NullDescribes ==
    ASSUME NEW supertypes, NEW v, DescribesIn(supertypes, Null, v)
    PROVE  v = Unset \/ v = NullRef
BY DEF DescribesIn, DescribesOne, Null, Unknown, IsReference, IsIntegral, Conflict, Long,
       ReturnAddress, NullRef

(* The join of several references describes what any of them does.         *)
LEMMA JoinReferencesCovers ==
    ASSUME NEW h, NEW supertypes, RightAboutValues(h, supertypes),
           NEW refs \in SUBSET Candidates, refs # {}
    PROVE  /\ JoinReferences(refs, h) \in AllTypes
           /\ JoinReferences(refs, h) # ReturnAddress
           /\ \A r \in refs : StandsFor(supertypes, JoinReferences(refs, h), r)
<1> DEFINE known == refs \ {Null}
           common == CommonReference(known, h)
           joined == JoinReferences(refs, h)
<1>1. CASE Unknown \in refs
  <2>1. joined = Unknown
    BY <1>1 DEF JoinReferences
  <2>2. Unknown \in AllTypes /\ Unknown # ReturnAddress
    BY DEF AllTypes, SingleTypes, Unknown, ReturnAddress
  <2>3. ASSUME NEW r \in refs PROVE StandsFor(supertypes, Unknown, r)
    <3> SUFFICES ASSUME NEW v \in Values, DescribesIn(supertypes, r, v)
                 PROVE  DescribesIn(supertypes, Unknown, v)
      BY DEF StandsFor
    <3> QED BY ReadyDescribed DEF DescribesIn, DescribesOne
  <2> HIDE DEF joined
  <2> QED BY <2>1, <2>2, <2>3 DEF joined
<1>2. CASE Unknown \notin refs /\ known = {}
  <2>1. joined = Null
    BY <1>2 DEF JoinReferences
  <2>2. Null \in AllTypes /\ Null # ReturnAddress
    BY DEF AllTypes, SingleTypes, Null, ReturnAddress
  <2>3. \A r \in refs : StandsFor(supertypes, Null, r)
    BY <1>2 DEF StandsFor
  <2> HIDE DEF joined
  <2> QED BY <2>1, <2>2, <2>3 DEF joined
<1>3. CASE Unknown \notin refs /\ known # {}
  <2>1. known \in SUBSET KnownReferences
    BY <1>3 DEF Candidates
  <2>2. joined = IF common = None THEN Alternatives(known) ELSE common
    BY <1>3 DEF JoinReferences
  <2>3. \/ common = None
        \/ common \in KnownReferences /\ \A r \in known : StandsFor(supertypes, common, r)
    BY <1>3, <2>1, CommonReferenceCovers
  <2>4. CASE common = None
    <3>1. joined = Alternatives(known)
      BY <2>2, <2>4
    <3>2. Alternatives(known) \in AllTypes
      BY <1>3, CandidatesAreTypes DEF AllTypes, Alternatives
    <3>3. Alternatives(known) # ReturnAddress
      BY DEF Alternatives, ReturnAddress
    <3> HIDE DEF joined, common
    <3>4. ASSUME NEW r \in refs PROVE StandsFor(supertypes, Alternatives(known), r)
      <4> SUFFICES ASSUME NEW v \in Values, DescribesIn(supertypes, r, v)
                   PROVE  \E t \in known : DescribesOne(supertypes, t, v)
        BY DEF StandsFor, DescribesIn, Alternatives
      <4>1. CASE r = Null
        <5>1. PICK t \in known : TRUE
          BY <1>3
        <5>2. IsReference(t)
          BY CandidatesAreTypes
        <5> QED BY <4>1, <5>2, NullDescribes DEF DescribesOne
      <4>2. CASE r # Null
        <5>1. r \in known /\ r.k # "alternatives"
          BY <4>2, CandidatesAreTypes
        <5> QED BY <5>1 DEF DescribesIn
      <4> QED BY <4>1, <4>2
    <3> QED BY <3>1, <3>2, <3>3, <3>4 DEF joined
  <2>5. CASE common # None
    <3>1. joined = common
      BY <2>2, <2>5
    <3> HIDE DEF joined, common
    <3>2. common \in Candidates
      BY <2>3, <2>5 DEF Candidates
    <3>3. common \in AllTypes /\ common # ReturnAddress /\ IsReference(common)
      BY <3>2, CandidatesAreTypes DEF AllTypes
    <3>4. ASSUME NEW r \in refs PROVE StandsFor(supertypes, common, r)
      <4>1. CASE r = Null
        BY <3>3, <4>1, NullDescribes DEF StandsFor, DescribesIn, DescribesOne
      <4>2. CASE r # Null
        BY <2>3, <2>5, <4>2
      <4> QED BY <4>1, <4>2
    <3> QED BY <3>1, <3>3, <3>4 DEF joined
  <2> QED BY <2>4, <2>5
<1> QED BY <1>1, <1>2, <1>3

(* The members of a type: the alternatives, or the type alone.             *)
Members(t) == IF t.k = "alternatives" THEN t.among ELSE {t}

(* What a member contributes to the values of a type.                      *)
Contributes(supertypes, m, v) == DescribesOne(supertypes, m, v) \/ InitializedSince(m, v)

LEMMA MembersOfType ==
    ASSUME NEW t \in AllTypes
    PROVE  /\ Members(t) \in (SUBSET SingleTypes) \ {{}}
           /\ t.k # "alternatives" => t \in SingleTypes
           /\ \A supertypes, v : DescribesIn(supertypes, t, v) =>
                  \E m \in Members(t) : Contributes(supertypes, m, v)
<1>1. CASE t \in SingleTypes
  <2>1. t.k # "alternatives"
    BY <1>1, CandidatesAreTypes
  <2> QED BY <1>1, <2>1 DEF Members, DescribesIn, Contributes
<1>2. CASE t \in [k : {"alternatives"}, among : (SUBSET SingleTypes) \ {{}}]
  <2>1. t.k = "alternatives" /\ t.among \in (SUBSET SingleTypes) \ {{}}
    BY <1>2
  <2>2. PICK m \in t.among : TRUE
    BY <2>1
  <2>3. ASSUME NEW supertypes, NEW v, DescribesOne(supertypes, t, v) PROVE v = Unset
    BY <2>1, <2>3 DEF DescribesOne, Unknown, IsReference, IsIntegral, Conflict, Long, ReturnAddress
  <2>4. \A supertypes : DescribesOne(supertypes, m, Unset)
    BY DEF DescribesOne
  <2> QED BY <2>1, <2>2, <2>3, <2>4 DEF Members, DescribesIn, Contributes
<1> QED BY <1>1, <1>2 DEF AllTypes

LEMMA BottomDescribesNothing ==
    ASSUME NEW supertypes, NEW wide
    PROVE  StandsFor(supertypes, wide, Bottom)
BY DEF StandsFor, DescribesIn, DescribesOne, Bottom, Unknown, IsReference, IsIntegral,
       Conflict, Long, ReturnAddress

LEMMA ConflictDescribesAll ==
    ASSUME NEW supertypes, NEW type
    PROVE  StandsFor(supertypes, Conflict, type)
BY DEF StandsFor, DescribesIn, DescribesOne

LEMMA IntegralDescribes ==
    ASSUME NEW supertypes, NEW t, IsIntegral(t), NEW v
    PROVE  DescribesIn(supertypes, t, v) <=>
               v = Unset \/ (v.v = "int" /\ \E kind \in t.of : InRange(kind, v.n))
BY DEF DescribesIn, DescribesOne, IsReference, IsIntegral, Conflict, Unknown, Long, ReturnAddress

(* What a join promises of both its sides.                                 *)
Joins(supertypes, joined, a, b) ==
    /\ joined \in AllTypes
    /\ StandsFor(supertypes, joined, a)
    /\ StandsFor(supertypes, joined, b)
    /\ joined = ReturnAddress => {a, b} \subseteq {Bottom, ReturnAddress}

LEMMA ReferencesJoin ==
    ASSUME NEW h, NEW supertypes, RightAboutValues(h, supertypes),
           NEW a \in AllTypes, NEW b \in AllTypes,
           HasReferenceCandidates(a), HasReferenceCandidates(b)
    PROVE  Joins(supertypes, Join(a, b, h), a, b) /\ Conflict \notin {a, b}
<1> DEFINE refs == ReferenceCandidates(a) \cup ReferenceCandidates(b)
           joined == JoinReferences(refs, h)
<1>1. Join(a, b, h) = joined
  BY DEF Join
<1>2. ASSUME NEW t \in AllTypes, HasReferenceCandidates(t)
      PROVE  /\ ReferenceCandidates(t) = Members(t)
             /\ ReferenceCandidates(t) \in (SUBSET Candidates) \ {{}}
             /\ t # Conflict
  <2>1. ReferenceCandidates(t) = Members(t)
    BY DEF ReferenceCandidates, Members
  <2>2. \A m \in Members(t) : IsReference(m)
    BY <1>2 DEF HasReferenceCandidates, Members, IsReference
  <2>3. Members(t) \in (SUBSET Candidates) \ {{}}
    BY <2>2, MembersOfType, CandidatesAreTypes
  <2>4. t # Conflict
    BY <1>2 DEF HasReferenceCandidates, IsReference, Conflict
  <2> QED BY <2>1, <2>3, <2>4
<1>3. refs \in SUBSET Candidates /\ refs # {}
  BY <1>2
<1>4. /\ joined \in AllTypes
      /\ joined # ReturnAddress
      /\ \A r \in refs : StandsFor(supertypes, joined, r)
  <2> HIDE DEF refs
  <2> QED BY <1>3, JoinReferencesCovers
<1> HIDE DEF joined
<1>5. ASSUME NEW t \in AllTypes, Members(t) \subseteq refs PROVE StandsFor(supertypes, joined, t)
  <2> HIDE DEF refs
  <2> SUFFICES ASSUME NEW v \in Values, DescribesIn(supertypes, t, v)
               PROVE  DescribesIn(supertypes, joined, v)
    BY DEF StandsFor
  <2>1. PICK m \in Members(t) : Contributes(supertypes, m, v)
    BY MembersOfType
  <2>2. IsReference(m)
    BY <1>3, <1>5, CandidatesAreTypes
  <2>3. DescribesIn(supertypes, m, v)
    BY <2>1, <2>2 DEF Contributes, InitializedSince, IsReference, DescribesIn
  <2> QED BY <1>4, <1>5, <2>3 DEF StandsFor
<1> QED BY <1>1, <1>2, <1>4, <1>5 DEF Joins

(* Join describes what either side does; conflict is never left again.     *)
LEMMA JoinCovers ==
    ASSUME NEW h, NEW supertypes, RightAboutValues(h, supertypes),
           NEW a \in AllTypes, NEW b \in AllTypes
    PROVE  /\ Joins(supertypes, Join(a, b, h), a, b)
           /\ Conflict \in {a, b} => Join(a, b, h) = Conflict
<1>1. CASE HasReferenceCandidates(a) /\ HasReferenceCandidates(b)
  BY <1>1, ReferencesJoin
<1> DEFINE joined == Integral(a.of \cup b.of)
<1>2. CASE /\ ~(HasReferenceCandidates(a) /\ HasReferenceCandidates(b))
           /\ IsIntegral(a) /\ IsIntegral(b)
  <2>1. Join(a, b, h) = joined
    BY <1>2 DEF Join
  <2>2. ASSUME NEW t \in AllTypes, IsIntegral(t)
        PROVE  t.of \in SUBSET {"boolean", "byte", "char", "short", "int"} /\ t # Conflict
    <3>1. \A r \in KnownReferences : r.k \in {"exact", "array"}
      BY KnownReference
    <3> QED BY <2>2, <3>1 DEF AllTypes, SingleTypes, IsIntegral, Conflict, Bottom, Float, Long,
                              Double, Null, Unknown, ReturnAddress
  <2>3. joined \in AllTypes /\ IsIntegral(joined) /\ joined # ReturnAddress
    BY <1>2, <2>2 DEF Integral, IsIntegral, AllTypes, SingleTypes, ReturnAddress
  <2>4. StandsFor(supertypes, joined, a) /\ StandsFor(supertypes, joined, b)
    <3>1. joined.of = a.of \cup b.of
      BY DEF Integral
    <3> HIDE DEF joined
    <3> QED BY <1>2, <2>3, <3>1, IntegralDescribes DEF StandsFor
  <2> HIDE DEF joined
  <2> QED BY <1>2, <2>1, <2>2, <2>3, <2>4 DEF Joins
<1>3. CASE /\ ~(HasReferenceCandidates(a) /\ HasReferenceCandidates(b))
           /\ ~(IsIntegral(a) /\ IsIntegral(b))
  <2>1. Join(a, b, h) = IF a = Bottom THEN b ELSE IF b = Bottom THEN a
                        ELSE IF a = b /\ a.k # "alternatives" THEN a ELSE Conflict
    BY <1>3 DEF Join
  <2>2. Conflict \in AllTypes /\ Conflict # ReturnAddress
    BY DEF AllTypes, SingleTypes, Conflict, ReturnAddress
  <2>3. StandsFor(supertypes, a, a) /\ StandsFor(supertypes, b, b)
    BY DEF StandsFor
  <2>4. Bottom # Conflict /\ Bottom # ReturnAddress
    BY DEF Bottom, Conflict, ReturnAddress
  <2>5. CASE Bottom \in {a, b}
    BY <2>1, <2>3, <2>4, <2>5, BottomDescribesNothing DEF Joins
  <2>6. CASE Bottom \notin {a, b} /\ a = b /\ a.k # "alternatives"
    BY <2>1, <2>3, <2>6 DEF Joins
  <2>7. CASE Bottom \notin {a, b} /\ ~(a = b /\ a.k # "alternatives")
    BY <2>1, <2>2, <2>7, ConflictDescribesAll DEF Joins
  <2> QED BY <2>5, <2>6, <2>7
<1> QED BY <1>1, <1>2, <1>3

(* A type of a class is that class alone.                                  *)
LEMMA ExactTypes ==
    ASSUME NEW t \in AllTypes, t.k = "exact"
    PROVE  t = Exact(t.c) /\ t.c \in KnownClasses
<1>1. t \in KnownReferences
  BY DEF AllTypes, SingleTypes, Bottom, Float, Long, Double, Null, Unknown, ReturnAddress, Conflict
<1> QED BY <1>1, KnownReference

(* In a tree the join of two classes is a class again, and its supertypes  *)
(* are those that the two share.                                           *)
LEMMA JoinOfClasses ==
    ASSUME NEW w, RightAboutValues(w.hierarchy, w.supertypes), Tree(w),
           NEW a \in KnownClasses, NEW b \in KnownClasses
    PROVE  \E c \in KnownClasses :
              /\ Join(Exact(a), Exact(b), w.hierarchy) = Exact(c)
              /\ w.supertypes[c] = w.supertypes[a] \cap w.supertypes[b]
<1> DEFINE h == w.hierarchy
           refs == {Exact(a), Exact(b)}
           joinsTo(t, c) == /\ t = Exact(c)
                            /\ c \in KnownClasses
                            /\ w.supertypes[c] = w.supertypes[a] \cap w.supertypes[b]
<1>1. ASSUME NEW x \in KnownClasses, NEW y \in KnownClasses, {x, y} = {a, b}
      PROVE  joinsTo(JoinReference(Exact(x), Exact(y), h), CommonSupertype(h, x, y))
  <2> DEFINE common == CommonSupertype(h, x, y)
  <2>1. /\ common \in KnownClasses
        /\ w.supertypes[common] = w.supertypes[x] \cap w.supertypes[y]
    BY TreeCommonSupertype DEF RightAboutValues
  <2>2. x = y => common = x
    BY DEF CommonSupertype
  <2> HIDE DEF common
  <2>3. common # NoClass
    BY <2>1, NoClassAssumption
  <2>4. Exact(x) = Exact(y) => x = y
    BY DEF Exact
  <2>5. Exact(x).k = "exact" /\ Exact(y).k = "exact" /\ Exact(x).c = x /\ Exact(y).c = y
    BY DEF Exact
  <2>6. JoinReference(Exact(x), Exact(y), h) = Exact(common)
    <3>1. CASE x = y
      BY <2>2, <3>1 DEF JoinReference
    <3>2. CASE x # y
      <4>1. JoinReference(Exact(x), Exact(y), h) = ExactOrNone(common)
        BY <2>4, <2>5, <3>2 DEF JoinReference, common
      <4> QED BY <2>3, <4>1 DEF ExactOrNone
    <3> QED BY <3>1, <3>2
  <2>7. w.supertypes[x] \cap w.supertypes[y] = w.supertypes[a] \cap w.supertypes[b]
    BY <1>1
  <2> QED BY <2>1, <2>6, <2>7 DEF common
<1>2. Exact(a) \in KnownReferences /\ Exact(b) \in KnownReferences
  BY KnownReference
<1>3. \E c : joinsTo(CommonReference(refs, h), c)
  <2> HIDE DEF joinsTo
  <2>1. CommonReference(refs, h) \in {JoinReference(Exact(a), Exact(b), h),
                                      JoinReference(Exact(b), Exact(a), h)}
    BY <1>2, CommonReferenceOfTwo
  <2>2. /\ \E c : joinsTo(JoinReference(Exact(a), Exact(b), h), c)
        /\ \E c : joinsTo(JoinReference(Exact(b), Exact(a), h), c)
    BY <1>1
  <2> QED BY <2>1, <2>2
<1>4. Join(Exact(a), Exact(b), h) = JoinReferences(refs, h)
  BY DEF Join, HasReferenceCandidates, IsReference, ReferenceCandidates, Exact
<1>5. CommonReference(refs, h) # None
  BY <1>3 DEF Exact, None
<1>6. JoinReferences(refs, h) = CommonReference(refs, h)
  <2>1. Null \notin refs /\ Unknown \notin refs
    BY DEF Exact, Null, Unknown
  <2>2. refs \ {Null} = refs /\ refs # {}
    BY <2>1
  <2> HIDE DEF refs
  <2> QED BY <1>5, <2>1, <2>2 DEF JoinReferences
<1> QED BY <1>3, <1>4, <1>6

(* So does the join of locals, which keeps alternatives for a conflict.    *)
LEMMA JoinLocalCovers ==
    ASSUME NEW h, NEW supertypes, RightAboutValues(h, supertypes),
           NEW a \in AllTypes, NEW b \in AllTypes
    PROVE  Joins(supertypes, JoinLocal(a, b, h), a, b)
<1>1. JoinLocal(a, b, h) = IF Join(a, b, h) = Conflict
                           THEN Alternatives(Members(a) \cup Members(b))
                           ELSE Join(a, b, h)
  BY DEF JoinLocal, Members
<1>2. CASE Join(a, b, h) = Conflict
  <2> DEFINE S == Members(a) \cup Members(b)
  <2>1. S \in (SUBSET SingleTypes) \ {{}}
    BY MembersOfType
  <2>2. ASSUME NEW t \in AllTypes, Members(t) \subseteq S
        PROVE  StandsFor(supertypes, Alternatives(S), t)
    <3> HIDE DEF S
    <3> SUFFICES ASSUME NEW v \in Values, DescribesIn(supertypes, t, v)
                 PROVE  \E m \in S : Contributes(supertypes, m, v)
      BY DEF StandsFor, DescribesIn, Alternatives, Contributes
    <3> QED BY <2>2, MembersOfType
  <2>3. Alternatives(S) \in AllTypes /\ Alternatives(S) # ReturnAddress
    <3> HIDE DEF S
    <3> QED BY <2>1 DEF Alternatives, AllTypes, ReturnAddress
  <2>4. JoinLocal(a, b, h) = Alternatives(S)
    BY <1>1, <1>2
  <2>5. Members(a) \subseteq S /\ Members(b) \subseteq S
    OBVIOUS
  <2> HIDE DEF S
  <2> QED BY <2>2, <2>3, <2>4, <2>5 DEF Joins
<1>3. CASE Join(a, b, h) # Conflict
  BY <1>1, <1>3, JoinCovers
<1> QED BY <1>2, <1>3

-----------------------------------------------------------------------------
(* The merge of frames.                                                    *)

LEMMA SlotWithParts ==
    ASSUME NEW O, NEW slot \in SlotsWith(O)
    PROVE  /\ slot = [type |-> slot.type, origin |-> slot.origin,
                      targets |-> slot.targets, fact |-> slot.fact]
           /\ slot.type \in AllTypes
           /\ slot.origin \in O
           /\ slot.targets \in [known : BOOLEAN, at : SUBSET Nat]
           /\ slot.fact \in {None} \cup [origin : O, reference : AllTypes]
           /\ slot.type = Conflict => slot.targets = UnknownTargets
BY DEF SlotsWith

LEMMA SlotParts ==
    ASSUME NEW slot \in AllSlots
    PROVE  /\ slot.type \in AllTypes
           /\ slot.origin \in Origins
           /\ slot.targets \in [known : BOOLEAN, at : SUBSET Nat]
           /\ slot.fact \in {None} \cup [origin : Origins, reference : AllTypes]
           /\ slot.type = Conflict => slot.targets = UnknownTargets
BY SlotWithParts DEF AllSlots

LEMMA SlotOfParts ==
    ASSUME NEW O, NEW type \in AllTypes, NEW origin \in O,
           NEW targets \in [known : BOOLEAN, at : SUBSET Nat],
           NEW fact \in {None} \cup [origin : O, reference : AllTypes],
           type = Conflict => targets = UnknownTargets
    PROVE  [type |-> type, origin |-> origin, targets |-> targets, fact |-> fact] \in SlotsWith(O)
BY DEF SlotsWith

LEMMA SlotsAmongAll ==
    ASSUME NEW O, O \subseteq Origins
    PROVE  SlotsWith(O) \subseteq AllSlots /\ FramesWith(O) \subseteq AllFrames
<1>1. \A slot \in SlotsWith(O) : slot \in SlotsWith(Origins)
  <2> TAKE slot \in SlotsWith(O)
  <2>1. slot.origin \in Origins /\ slot.fact \in {None} \cup [origin : Origins, reference : AllTypes]
    BY SlotWithParts
  <2> QED BY <2>1, SlotWithParts, SlotOfParts
<1> QED BY <1>1 DEF AllSlots, AllFrames, FramesWith

LEMMA UnknownTargetsTyped ==
    /\ UnknownTargets \in [known : BOOLEAN, at : SUBSET Nat]
    /\ ~UnknownTargets.known
BY DEF UnknownTargets

LEMMA PlainSlotWith ==
    ASSUME NEW O, None \in O, NEW type \in AllTypes
    PROVE  Plain(type) \in SlotsWith(O)
BY UnknownTargetsTyped, SlotOfParts DEF Plain, Slot

LEMMA PlainSlot ==
    ASSUME NEW type \in AllTypes
    PROVE  Plain(type) \in AllSlots
BY PlainSlotWith DEF AllSlots, Origins

LEMMA MergeSlotCovers ==
    ASSUME NEW O, None \in O, NEW supertypes, NEW a \in SlotsWith(O), NEW b \in AllSlots,
           NEW merged, Joins(supertypes, merged, a.type, b.type)
    PROVE  /\ MergeSlot(a, b, merged) \in SlotsWith(O)
           /\ CoversSlot(supertypes, MergeSlot(a, b, merged), a)
           /\ CoversSlot(supertypes, MergeSlot(a, b, merged), b)
<1> DEFINE m == MergeSlot(a, b, merged)
           addresses == {s \in {a, b} : s.type = ReturnAddress}
<1>1. /\ m.type = merged
      /\ m.origin = IF a.origin = b.origin THEN a.origin ELSE None
      /\ m.targets = MergedTargets(a, b, merged)
      /\ m.fact = IF a.fact = b.fact THEN a.fact ELSE None
  BY DEF MergeSlot
<1>2. MergedTargets(a, b, merged) =
          IF merged = ReturnAddress /\ \A s \in addresses : s.targets.known
          THEN Targets(UNION {s.targets.at : s \in addresses})
          ELSE UnknownTargets
  BY DEF MergedTargets
<1>3. /\ m.targets \in [known : BOOLEAN, at : SUBSET Nat]
      /\ m.targets.known => /\ merged = ReturnAddress
                            /\ \A s \in addresses : s.targets.known
                            /\ \A s \in addresses : s.targets.at \subseteq m.targets.at
      /\ merged # ReturnAddress => m.targets = UnknownTargets
  <2>1. \A s \in addresses : s.targets.at \in SUBSET Nat
    BY SlotParts, SlotWithParts
  <2>2. UnknownTargets \in [known : BOOLEAN, at : SUBSET Nat] /\ ~UnknownTargets.known
    BY DEF UnknownTargets
  <2> DEFINE all == UNION {s.targets.at : s \in addresses}
  <2>3. all \in SUBSET Nat /\ \A s \in addresses : s.targets.at \subseteq all
    BY <2>1
  <2> HIDE DEF all
  <2>4. /\ Targets(all) \in [known : BOOLEAN, at : SUBSET Nat]
        /\ Targets(all).at = all
    BY <2>3 DEF Targets
  <2>5. m.targets = IF merged = ReturnAddress /\ \A s \in addresses : s.targets.known
                    THEN Targets(all) ELSE UnknownTargets
    BY <1>1, <1>2 DEF all
  <2> HIDE DEF m, addresses
  <2> QED BY <2>2, <2>3, <2>4, <2>5
<1>4. m \in SlotsWith(O)
  <2>2. /\ m.origin \in O
        /\ m.fact \in {None} \cup [origin : O, reference : AllTypes]
        /\ m.type \in AllTypes
    BY <1>1, SlotWithParts DEF Joins
  <2>3. m = [type |-> m.type, origin |-> m.origin, targets |-> m.targets, fact |-> m.fact]
    BY DEF MergeSlot
  <2>4. merged = Conflict => m.targets = UnknownTargets
    BY <1>3 DEF Conflict, ReturnAddress
  <2> HIDE DEF m
  <2> QED BY <1>1, <1>3, <2>2, <2>3, <2>4, SlotOfParts
<1>5. ASSUME NEW slot \in {a, b} PROVE Widens(supertypes, m, slot)
  <2> SUFFICES ASSUME NEW v \in Values, SlotDescribes(supertypes, slot, v)
               PROVE  SlotDescribes(supertypes, m, v)
    BY DEF Widens
  <2>1. DescribesIn(supertypes, merged, v)
    BY <1>5 DEF SlotDescribes, Joins, StandsFor
  <2>2. ASSUME v.v = "address", m.targets.known PROVE v.at \in m.targets.at
    <3>1. slot.type \in {Bottom, ReturnAddress}
      BY <1>3, <1>5, <2>2 DEF Joins
    <3>2. slot.type # Bottom
      BY <2>2 DEF SlotDescribes, DescribesIn, DescribesOne, Bottom, Unknown, IsReference,
                  IsIntegral, Conflict, Long, ReturnAddress, Unset
    <3>3. slot \in addresses
      BY <1>5, <3>1, <3>2
    <3> QED BY <1>3, <2>2, <3>3 DEF SlotDescribes
  <2> HIDE DEF m
  <2> QED BY <1>1, <2>1, <2>2 DEF SlotDescribes
<1>6. KeepsIdentity(m, a) /\ KeepsIdentity(m, b)
  BY <1>1 DEF KeepsIdentity
<1> HIDE DEF m
<1> QED BY <1>4, <1>5, <1>6 DEF CoversSlot, m

LEMMA SlotCoversItself ==
    ASSUME NEW supertypes, NEW slot
    PROVE  CoversSlot(supertypes, slot, slot)
BY DEF CoversSlot, Widens, KeepsIdentity

LocalsCover(supertypes, wide, slots) ==
    \A i \in DOMAIN slots : i \in DOMAIN wide /\ CoversSlot(supertypes, wide[i], slots[i])

LEMMA MergeLocalsCovers ==
    ASSUME NEW O, None \in O, NEW h, NEW supertypes, RightAboutValues(h, supertypes),
           NEW a \in Seq(SlotsWith(O)), NEW b \in Seq(AllSlots), O \subseteq Origins
    PROVE  /\ MergeLocals(a, b, h) \in Seq(SlotsWith(O))
           /\ LocalsCover(supertypes, MergeLocals(a, b, h), a)
           /\ LocalsCover(supertypes, MergeLocals(a, b, h), b)
<1> DEFINE length == IF Len(a) < Len(b) THEN Len(b) ELSE Len(a)
           old == Resize(a, length)
           same(i) == old[i].origin # None /\ old[i].origin = b[i].origin
           hierarchy(i) == IF same(i) THEN h ELSE NoHierarchy
           merged(i) == JoinLocal(old[i].type, b[i].type, hierarchy(i))
           slot(i) == IF i <= Len(b) THEN MergeSlot(old[i], b[i], merged(i)) ELSE old[i]
           m == MergeLocals(a, b, h)
<1>1. m = [i \in 1..length |-> slot(i)]
  BY DEF MergeLocals
<1>2. /\ length \in Nat /\ Len(a) <= length /\ Len(b) <= length
      /\ DOMAIN a = 1..Len(a) /\ DOMAIN b = 1..Len(b)
      /\ Len(a) \in Nat /\ Len(b) \in Nat
  OBVIOUS
<1>3. ASSUME NEW i \in 1..length
      PROVE  old[i] \in SlotsWith(O) /\ (i <= Len(a) => old[i] = a[i])
  <2>1. EmptySlot \in SlotsWith(O)
    BY PlainSlotWith DEF EmptySlot, AllTypes, SingleTypes
  <2>2. old[i] = IF i <= Len(a) THEN a[i] ELSE EmptySlot
    BY DEF Resize
  <2>3. i <= Len(a) => a[i] \in SlotsWith(O)
    BY <1>2
  <2> HIDE DEF old
  <2> QED BY <2>1, <2>2, <2>3
<1> HIDE DEF m, length, old
<1>4. ASSUME NEW i \in 1..length
      PROVE  /\ slot(i) \in SlotsWith(O)
             /\ i <= Len(a) => CoversSlot(supertypes, slot(i), a[i])
             /\ i <= Len(b) => CoversSlot(supertypes, slot(i), b[i])
  <2>1. CASE i <= Len(b)
    <3>1. b[i] \in AllSlots /\ old[i] \in SlotsWith(O) /\ old[i] \in AllSlots
      BY <1>2, <1>3, <2>1, SlotsAmongAll
    <3>2. RightAboutValues(hierarchy(i), supertypes)
      BY NoHierarchyIsRight
    <3> HIDE DEF hierarchy
    <3>3. Joins(supertypes, merged(i), old[i].type, b[i].type)
      BY <3>1, <3>2, SlotParts, JoinLocalCovers
    <3> HIDE DEF merged
    <3>4. slot(i) = MergeSlot(old[i], b[i], merged(i))
      BY <2>1
    <3> QED BY <1>3, <3>1, <3>3, <3>4, MergeSlotCovers
  <2>2. CASE ~(i <= Len(b))
    BY <1>3, <2>2, SlotCoversItself
  <2> QED BY <2>1, <2>2
<1> HIDE DEF slot
<1>5. m \in Seq(SlotsWith(O)) /\ DOMAIN m = 1..length
  BY <1>1, <1>2, <1>4
<1>6. LocalsCover(supertypes, m, a) /\ LocalsCover(supertypes, m, b)
  BY <1>1, <1>2, <1>4 DEF LocalsCover
<1> QED BY <1>5, <1>6 DEF m

StackCovers(supertypes, wide, slots) ==
    \A i \in DOMAIN slots :
        /\ i \in DOMAIN wide
        /\ Widens(supertypes, wide[i], slots[i])
        /\ wide[i].type # Conflict =>
              slots[i].type # Conflict /\ Len(wide) = Len(slots)
        /\ Len(wide) = Len(slots) => KeepsIdentity(wide[i], slots[i])

(* Slots in conflict cover any stack that is not higher.                   *)
LEMMA ConflictsCover ==
    ASSUME NEW supertypes, NEW wide \in Seq(AllSlots), NEW slots \in Seq(AllSlots),
           Len(slots) <= Len(wide), \A i \in DOMAIN wide : wide[i].type = Conflict,
           Len(wide) = Len(slots) => \A i \in DOMAIN wide : KeepsIdentity(wide[i], slots[i])
    PROVE  StackCovers(supertypes, wide, slots)
<1> SUFFICES ASSUME NEW i \in DOMAIN slots
             PROVE  i \in DOMAIN wide /\ Widens(supertypes, wide[i], slots[i])
  BY DEF StackCovers
<1>1. i \in DOMAIN wide
  OBVIOUS
<1>2. wide[i] \in AllSlots /\ wide[i].type = Conflict
  BY <1>1
<1>3. ~wide[i].targets.known
  BY <1>2, SlotParts, UnknownTargetsTyped
<1> QED BY <1>1, <1>2, <1>3 DEF Widens, SlotDescribes, DescribesIn, DescribesOne

LEMMA MergeStacksCovers ==
    ASSUME NEW O, None \in O, NEW h, NEW supertypes, RightAboutValues(h, supertypes),
           NEW a \in Seq(SlotsWith(O)), NEW b \in Seq(AllSlots), O \subseteq Origins
    PROVE  /\ MergeStacks(a, b, h) \in Seq(SlotsWith(O))
           /\ Len(a) = Len(b) => Len(MergeStacks(a, b, h)) = Len(a)
           /\ StackCovers(supertypes, MergeStacks(a, b, h), a)
           /\ StackCovers(supertypes, MergeStacks(a, b, h), b)
<1> DEFINE m == MergeStacks(a, b, h)
<1>1. DOMAIN a = 1..Len(a) /\ DOMAIN b = 1..Len(b) /\ Len(a) \in Nat /\ Len(b) \in Nat
  OBVIOUS
<1>2. CASE Len(a) = Len(b)
  <2> DEFINE joined(i) == Join(a[i].type, b[i].type, h)
             slot(i) == MergeSlot(a[i], b[i], joined(i))
  <2>1. m = [i \in DOMAIN a |-> slot(i)]
    BY <1>2 DEF MergeStacks
  <2>2. ASSUME NEW i \in DOMAIN a
        PROVE  /\ slot(i) \in SlotsWith(O)
               /\ CoversSlot(supertypes, slot(i), a[i])
               /\ CoversSlot(supertypes, slot(i), b[i])
               /\ slot(i).type # Conflict => Conflict \notin {a[i].type, b[i].type}
    <3>1. a[i] \in SlotsWith(O) /\ a[i] \in AllSlots /\ b[i] \in AllSlots
      BY <1>1, <1>2, SlotsAmongAll
    <3>2. /\ Joins(supertypes, joined(i), a[i].type, b[i].type)
          /\ Conflict \in {a[i].type, b[i].type} => joined(i) = Conflict
      BY <3>1, SlotParts, JoinCovers
    <3>3. slot(i).type = joined(i)
      BY DEF MergeSlot
    <3> HIDE DEF joined
    <3>4. slot(i) = MergeSlot(a[i], b[i], joined(i))
      OBVIOUS
    <3> HIDE DEF slot
    <3> QED BY <3>1, <3>2, <3>3, <3>4, MergeSlotCovers
  <2> HIDE DEF slot, m
  <2>3. m \in Seq(SlotsWith(O)) /\ Len(m) = Len(a)
    BY <1>1, <2>1, <2>2
  <2>4. StackCovers(supertypes, m, a) /\ StackCovers(supertypes, m, b)
    BY <1>1, <1>2, <2>1, <2>2 DEF StackCovers, CoversSlot
  <2> QED BY <2>3, <2>4 DEF m
<1>3. CASE Len(a) # Len(b)
  <2> DEFINE height == IF Len(a) < Len(b) THEN Len(b) ELSE Len(a)
             conflict == [i \in 1..height |-> Plain(Conflict)]
             settled == [i \in DOMAIN a |-> a[i].type] = [i \in 1..height |-> Conflict]
  <2>1. m = IF settled THEN a ELSE conflict
    BY <1>3 DEF MergeStacks
  <2>2. height \in Nat /\ Len(a) <= height /\ Len(b) <= height
    BY <1>1
  <2> HIDE DEF height
  <2>3. /\ conflict \in Seq(SlotsWith(O)) /\ Len(conflict) = height
        /\ \A i \in DOMAIN conflict : /\ conflict[i].type = Conflict
                                      /\ \A slot : KeepsIdentity(conflict[i], slot)
    <3>1. /\ Plain(Conflict) \in SlotsWith(O) /\ Plain(Conflict).type = Conflict
          /\ \A slot : KeepsIdentity(Plain(Conflict), slot)
      BY PlainSlotWith DEF AllTypes, SingleTypes, Plain, Slot, KeepsIdentity
    <3> QED BY <2>2, <3>1
  <2> HIDE DEF conflict
  <2>4. ASSUME settled
        PROVE  /\ Len(a) = height
               /\ \A i \in DOMAIN a : a[i].type = Conflict
    <3>1. 1..Len(a) = 1..height
      BY <1>1, <2>4
    <3>2. Len(a) = height
      <4>1. height \in 1..height => height \in 1..Len(a)
        BY <3>1
      <4>2. Len(a) \in Nat
        OBVIOUS
      <4> QED BY <2>2, <4>1, <4>2
    <3>3. \A i \in 1..height : [j \in DOMAIN a |-> a[j].type][i] = Conflict
      BY <2>4
    <3> QED BY <1>1, <3>2, <3>3
  <2> HIDE DEF settled, m
  <2>5. /\ m \in Seq(SlotsWith(O)) /\ Len(m) = height
        /\ \A i \in DOMAIN m : m[i].type = Conflict
    BY <2>1, <2>3, <2>4
  <2>6. m \in Seq(AllSlots) /\ a \in Seq(AllSlots)
    BY <2>5, SlotsAmongAll
  <2>7. Len(m) = Len(a) => \A i \in DOMAIN m : KeepsIdentity(m[i], a[i])
    BY <2>1, <2>3, SlotCoversItself DEF CoversSlot
  <2>8. Len(m) = Len(b) => \A i \in DOMAIN m : KeepsIdentity(m[i], b[i])
    <3>1. Len(m) = Len(b) => ~settled
      BY <1>3, <2>4, <2>5
    <3> QED BY <2>1, <2>3, <3>1
  <2> QED BY <1>3, <2>2, <2>5, <2>6, <2>7, <2>8, ConflictsCover DEF m
<1> QED BY <1>2, <1>3

LEMMA CoversFrameParts ==
    ASSUME NEW supertypes, NEW wide, NEW f
    PROVE  CoversFrame(supertypes, wide, f) <=>
               /\ LocalsCover(supertypes, wide.locals, f.locals)
               /\ StackCovers(supertypes, wide.stack, f.stack)
BY DEF CoversFrame, LocalsCover, StackCovers, CoversSlot

(* A frame that covers another covers whatever the other does.             *)
LEMMA CoveringIsTransitive ==
    ASSUME NEW supertypes,
           NEW f \in AllFrames, NEW g \in AllFrames, NEW k \in AllFrames,
           CoversFrame(supertypes, f, g), CoversFrame(supertypes, g, k)
    PROVE  CoversFrame(supertypes, f, k)
<1>1. \A r, s, t : Widens(supertypes, r, s) /\ Widens(supertypes, s, t)
                      => Widens(supertypes, r, t)
  BY DEF Widens
<1>2. \A r, s, t : KeepsIdentity(r, s) /\ KeepsIdentity(s, t) => KeepsIdentity(r, t)
  BY DEF KeepsIdentity
<1>3. ASSUME NEW i \in DOMAIN k.locals
      PROVE  i \in DOMAIN f.locals /\ CoversSlot(supertypes, f.locals[i], k.locals[i])
  BY <1>1, <1>2 DEF CoversFrame, CoversSlot
<1>4. Len(f.stack) = Len(k.stack) => Len(f.stack) = Len(g.stack)
  <2> SUFFICES ASSUME Len(f.stack) = Len(k.stack) PROVE Len(f.stack) = Len(g.stack)
    OBVIOUS
  <2>0. /\ DOMAIN f.stack = 1..Len(f.stack) /\ Len(f.stack) \in Nat
        /\ DOMAIN g.stack = 1..Len(g.stack) /\ Len(g.stack) \in Nat
        /\ DOMAIN k.stack = 1..Len(k.stack) /\ Len(k.stack) \in Nat
    BY DEF AllFrames, FramesWith
  <2>1. /\ \A n \in 1..Len(k.stack) : n \in 1..Len(g.stack)
        /\ \A n \in 1..Len(g.stack) : n \in 1..Len(f.stack)
    BY <2>0 DEF CoversFrame
  <2> QED BY <2>0, <2>1
<1>5. ASSUME NEW i \in DOMAIN k.stack
      PROVE  /\ i \in DOMAIN f.stack
             /\ Widens(supertypes, f.stack[i], k.stack[i])
             /\ f.stack[i].type # Conflict =>
                   k.stack[i].type # Conflict /\ Len(f.stack) = Len(k.stack)
             /\ Len(f.stack) = Len(k.stack) => KeepsIdentity(f.stack[i], k.stack[i])
  BY <1>1, <1>2, <1>4 DEF CoversFrame
<1> QED BY <1>3, <1>5 DEF CoversFrame

LEMMA CoveringIsReflexive ==
    ASSUME NEW supertypes, NEW f
    PROVE  CoversFrame(supertypes, f, f)
BY DEF CoversFrame, CoversSlot, Widens, KeepsIdentity

LEMMA MergeFrameCoversWith ==
    ASSUME NEW O, None \in O, O \subseteq Origins,
           NEW h, NEW supertypes, RightAboutValues(h, supertypes),
           NEW f \in FramesWith(O), NEW g \in AllFrames
    PROVE  /\ MergeFrame(f, g, h) \in FramesWith(O)
           /\ ~HeightMismatch(f, g) => ~HeightMismatch(MergeFrame(f, g, h), f)
           /\ CoversFrame(supertypes, MergeFrame(f, g, h), f)
           /\ CoversFrame(supertypes, MergeFrame(f, g, h), g)
<1> DEFINE m == MergeFrame(f, g, h)
<1>1. /\ f.locals \in Seq(SlotsWith(O)) /\ f.stack \in Seq(SlotsWith(O))
      /\ g.locals \in Seq(AllSlots) /\ g.stack \in Seq(AllSlots)
  BY DEF AllFrames, AllSlots, FramesWith
<1>2. /\ m.locals = MergeLocals(f.locals, g.locals, h)
      /\ m.stack = MergeStacks(f.stack, g.stack, h)
      /\ m = [locals |-> m.locals, stack |-> m.stack]
  BY DEF MergeFrame
<1> HIDE DEF m
<1>3. /\ m.locals \in Seq(SlotsWith(O))
      /\ LocalsCover(supertypes, m.locals, f.locals)
      /\ LocalsCover(supertypes, m.locals, g.locals)
  BY <1>1, <1>2, MergeLocalsCovers
<1>4. /\ m.stack \in Seq(SlotsWith(O))
      /\ Len(f.stack) = Len(g.stack) => Len(m.stack) = Len(f.stack)
      /\ StackCovers(supertypes, m.stack, f.stack)
      /\ StackCovers(supertypes, m.stack, g.stack)
  <2> DEFINE a == f.stack
             b == g.stack
  <2>1. a \in Seq(SlotsWith(O)) /\ b \in Seq(AllSlots) /\ m.stack = MergeStacks(a, b, h)
    BY <1>1, <1>2
  <2> HIDE DEF a, b
  <2>2. /\ m.stack \in Seq(SlotsWith(O))
        /\ Len(a) = Len(b) => Len(m.stack) = Len(a)
        /\ StackCovers(supertypes, m.stack, a)
        /\ StackCovers(supertypes, m.stack, b)
    BY <2>1, MergeStacksCovers
  <2> QED BY <2>2 DEF a, b
<1>5. m \in FramesWith(O)
  BY <1>2, <1>3, <1>4 DEF FramesWith
<1> QED BY <1>3, <1>4, <1>5, CoversFrameParts DEF m, HeightMismatch

LEMMA MergeFrameCovers ==
    ASSUME NEW h, NEW supertypes, RightAboutValues(h, supertypes),
           NEW f \in AllFrames, NEW g \in AllFrames
    PROVE  /\ MergeFrame(f, g, h) \in AllFrames
           /\ ~HeightMismatch(f, g) => ~HeightMismatch(MergeFrame(f, g, h), f)
           /\ CoversFrame(supertypes, MergeFrame(f, g, h), f)
           /\ CoversFrame(supertypes, MergeFrame(f, g, h), g)
<1>1. None \in Origins
  BY DEF Origins
<1> QED BY <1>1, MergeFrameCoversWith DEF AllFrames

-----------------------------------------------------------------------------
(* The merge point.                                                        *)

(* Type correctness: what is merged is a frame again, of types the inferer *)
(* has, however many frames arrive.                                        *)
TypeOK ==
    /\ world \in Worlds
    /\ arrived \subseteq AllFrames
    /\ frame \in AllFrames

LEMMA WorldsAreRight ==
    ASSUME NEW w \in Worlds
    PROVE  RightAboutValues(w.hierarchy, w.supertypes)
BY WorldAssumption DEF RightAboutValues

LEMMA InitCovers == Init => TypeOK /\ ArrivalsDescribed
BY ArrivalsAssumption, CoveringIsReflexive DEF Init, TypeOK, ArrivalsDescribed

LEMMA ArriveCovers ==
    TypeOK /\ ArrivalsDescribed /\ [Next]_vars => TypeOK' /\ ArrivalsDescribed'
<1> SUFFICES ASSUME TypeOK, ArrivalsDescribed, [Next]_vars
             PROVE  TypeOK' /\ ArrivalsDescribed'
  OBVIOUS
<1>1. CASE Arrive
  <2>1. PICK f \in Arrivals : /\ arrived' = arrived \cup {f}
                              /\ frame' = MergeFrame(frame, f, world.hierarchy)
                              /\ world' = world
    BY <1>1 DEF Arrive
  <2>2. f \in AllFrames
    BY ArrivalsAssumption
  <2>3. /\ frame' \in AllFrames
        /\ CoversFrame(world.supertypes, frame', frame)
        /\ CoversFrame(world.supertypes, frame', f)
    BY <2>1, <2>2, WorldsAreRight, MergeFrameCovers DEF TypeOK
  <2>4. ASSUME NEW g \in arrived' PROVE CoversFrame(world.supertypes, frame', g)
    <3>1. CASE g \in arrived
      BY <2>3, <3>1, CoveringIsTransitive DEF ArrivalsDescribed, TypeOK
    <3>2. CASE g = f
      BY <2>3, <3>2
    <3> QED BY <2>1, <3>1, <3>2
  <2> QED BY <2>1, <2>2, <2>3, <2>4 DEF TypeOK, ArrivalsDescribed
<1>2. CASE UNCHANGED vars
  BY <1>2 DEF vars, TypeOK, ArrivalsDescribed
<1> QED BY <1>1, <1>2 DEF Next

THEOREM MergesAreFrames == Spec => []TypeOK
<1>1. TypeOK /\ ArrivalsDescribed /\ [Next]_vars => (TypeOK /\ ArrivalsDescribed)'
  BY ArriveCovers
<1> QED BY <1>1, InitCovers, PTL DEF Spec

THEOREM ArrivalsAlwaysDescribed == Spec => []ArrivalsDescribed
<1>1. TypeOK /\ ArrivalsDescribed /\ [Next]_vars => (TypeOK /\ ArrivalsDescribed)'
  BY ArriveCovers
<1> QED BY <1>1, InitCovers, PTL DEF Spec

(* The merged stack is as high as one of those that arrived.               *)
HeightOfSome == \E g \in arrived : Len(frame.stack) = Len(g.stack)

LEMMA MergedHeight ==
    ASSUME NEW a \in Seq(AllSlots), NEW b \in Seq(AllSlots), NEW h
    PROVE  Len(MergeStacks(a, b, h)) \in {Len(a), Len(b)}
<1> DEFINE height == IF Len(a) < Len(b) THEN Len(b) ELSE Len(a)
           conflicts == [i \in 1..height |-> Plain(Conflict)]
<1>1. Len(a) \in Nat /\ Len(b) \in Nat /\ DOMAIN a = 1..Len(a)
  OBVIOUS
<1>2. CASE Len(a) = Len(b)
  <2>1. MergeStacks(a, b, h) =
            [i \in 1..Len(a) |-> MergeSlot(a[i], b[i], Join(a[i].type, b[i].type, h))]
    BY <1>1, <1>2 DEF MergeStacks
  <2> QED BY <1>1, <2>1
<1>3. CASE Len(a) # Len(b)
  <2>1. MergeStacks(a, b, h) \in {a, conflicts}
    BY <1>3 DEF MergeStacks
  <2>2. height \in Nat /\ Len(conflicts) = height
    BY <1>1
  <2> QED BY <2>1, <2>2
<1> QED BY <1>2, <1>3

(* One operand: what arrived before has its least common superclass, and   *)
(* the join with what arrives now has that of all.                         *)
LEMMA ArriveIsLeast ==
    TypeOK /\ HeightOfSome /\ TreeJoinIsLeast /\ [Next]_vars => HeightOfSome' /\ TreeJoinIsLeast'
<1> SUFFICES ASSUME TypeOK, HeightOfSome, TreeJoinIsLeast, [Next]_vars
             PROVE  HeightOfSome' /\ TreeJoinIsLeast'
  OBVIOUS
<1>1. CASE Arrive
  <2> DEFINE s == world.supertypes
             h == world.hierarchy
             stack == frame.stack
             type(g, i) == g.stack[i].type
  <2>1. PICK f \in Arrivals : /\ arrived' = arrived \cup {f}
                              /\ frame' = MergeFrame(frame, f, h)
                              /\ world' = world
    BY <1>1 DEF Arrive
  <2>2. /\ frame.stack \in Seq(AllSlots) /\ f.stack \in Seq(AllSlots)
        /\ frame'.stack = MergeStacks(frame.stack, f.stack, h)
    BY <2>1, ArrivalsAssumption DEF TypeOK, AllFrames, FramesWith, AllSlots, MergeFrame
  <2>3. RightAboutValues(h, s)
    BY WorldsAreRight DEF TypeOK
  <2>4. HeightOfSome'
    <3>1. Len(frame'.stack) \in {Len(frame.stack), Len(f.stack)}
      BY <2>2, MergedHeight
    <3> QED BY <2>1, <3>1 DEF HeightOfSome
  <2>5. ASSUME NEW i \in DOMAIN frame'.stack, ClassesAt(i)', Tree(world)
        PROVE  LET merged == frame'.stack[i].type
               IN  /\ merged.k = "exact"
                   /\ merged.c \in CommonAt(i)'
                   /\ CommonAt(i)' \subseteq s[merged.c]
    <3>1. /\ \A g \in arrived : Len(g.stack) = Len(frame'.stack) /\ type(g, i).k = "exact"
          /\ Len(f.stack) = Len(frame'.stack) /\ type(f, i).k = "exact"
      BY <2>1, <2>5 DEF ClassesAt
    <3>2. Len(frame.stack) = Len(f.stack)
      BY <3>1 DEF HeightOfSome
    <3>3. /\ frame'.stack =
                [n \in DOMAIN stack |-> MergeSlot(stack[n], f.stack[n],
                                                  Join(stack[n].type, type(f, n), h))]
          /\ DOMAIN stack = 1..Len(stack) /\ DOMAIN f.stack = 1..Len(f.stack)
      BY <2>2, <3>2 DEF MergeStacks
    <3>4. /\ i \in DOMAIN stack /\ i \in DOMAIN f.stack
          /\ Len(frame'.stack) = Len(stack)
          /\ frame'.stack[i].type = Join(stack[i].type, type(f, i), h)
      BY <3>1, <3>2, <3>3 DEF MergeSlot
    <3>5. ClassesAt(i)
      BY <3>1, <3>4 DEF ClassesAt
    <3>6. /\ stack[i].type.k = "exact"
          /\ stack[i].type.c \in CommonAt(i)
          /\ CommonAt(i) \subseteq s[stack[i].type.c]
      BY <2>5, <3>4, <3>5 DEF TreeJoinIsLeast
    <3>7. /\ stack[i].type = Exact(stack[i].type.c) /\ stack[i].type.c \in KnownClasses
          /\ type(f, i) = Exact(type(f, i).c) /\ type(f, i).c \in KnownClasses
      BY <2>2, <3>1, <3>4, <3>6, SlotParts, ExactTypes
    <3> DEFINE p == stack[i].type.c
               q == type(f, i).c
    <3>8. PICK c \in KnownClasses : Join(Exact(p), Exact(q), h) = Exact(c) /\ s[c] = s[p] \cap s[q]
      <4>1. p \in KnownClasses /\ q \in KnownClasses
        BY <3>7
      <4> HIDE DEF p, q
      <4> QED BY <2>3, <2>5, <4>1, JoinOfClasses
    <3>9. frame'.stack[i].type = Exact(c)
      BY <3>4, <3>7, <3>8
    <3>10. CommonAt(i)' = CommonAt(i) \cap s[q]
      <4>1. CommonAt(i)' = {t \in KnownClasses : \A g \in arrived' : t \in s[type(g, i).c]}
        BY <2>1 DEF CommonAt
      <4>2. CommonAt(i) = {t \in KnownClasses : \A g \in arrived : t \in s[type(g, i).c]}
        BY DEF CommonAt
      <4> QED BY <2>1, <4>1, <4>2
    <3>11. /\ \A x \in KnownClasses : x \in s[x] /\ s[x] \subseteq KnownClasses
           /\ \A x \in DOMAIN s : \A y \in s[x] : s[y] \subseteq s[x]
      BY <2>3, <2>5, TreeParts DEF RightAboutValues, RightIn
    <3>12. CommonAt(i) = s[p]
      <4>1. ASSUME NEW t \in s[p], NEW g \in arrived PROVE t \in s[type(g, i).c]
        <5>1. p \in s[type(g, i).c]
          BY <3>6 DEF CommonAt
        <5>2. type(g, i).c \in DOMAIN s
          <6>1. type(g, i).c \in KnownClasses
            BY <3>1, <3>3, <3>4, <3>2, SlotParts, ExactTypes DEF TypeOK, AllFrames, FramesWith, AllSlots
          <6> QED BY <2>3, <6>1 DEF RightAboutValues, RightIn
        <5> QED BY <3>11, <5>1, <5>2
      <4>2. s[p] \subseteq CommonAt(i)
        BY <3>7, <3>11, <4>1 DEF CommonAt
      <4> QED BY <3>6, <4>2
    <3>13. CommonAt(i)' = s[c] /\ c \in s[c]
      BY <3>8, <3>10, <3>11, <3>12
    <3>14. Exact(c).k = "exact" /\ Exact(c).c = c
      BY DEF Exact
    <3> QED BY <3>9, <3>13, <3>14
  <2> QED BY <2>1, <2>4, <2>5 DEF TreeJoinIsLeast
<1>2. CASE UNCHANGED vars
  BY <1>2 DEF vars, HeightOfSome, TreeJoinIsLeast, ClassesAt, CommonAt
<1> QED BY <1>1, <1>2 DEF Next

LEMMA InitIsLeast == Init => HeightOfSome /\ TreeJoinIsLeast
<1> SUFFICES ASSUME Init PROVE HeightOfSome /\ TreeJoinIsLeast
  OBVIOUS
<1>1. PICK f \in AllFrames : arrived = {f} /\ frame = f
  BY ArrivalsAssumption DEF Init
<1>2. ASSUME NEW i \in DOMAIN frame.stack, ClassesAt(i), Tree(world)
      PROVE  LET merged == frame.stack[i].type
             IN  /\ merged.k = "exact"
                 /\ merged.c \in CommonAt(i)
                 /\ CommonAt(i) \subseteq world.supertypes[merged.c]
  <2> DEFINE c == f.stack[i].type.c
  <2>1. f.stack[i].type.k = "exact" /\ f.stack[i] \in AllSlots
    BY <1>1, <1>2 DEF ClassesAt, AllFrames, FramesWith, AllSlots
  <2>2. c \in KnownClasses
    BY <2>1, SlotParts, ExactTypes
  <2>3. CommonAt(i) = {t \in KnownClasses : t \in world.supertypes[c]}
    BY <1>1 DEF CommonAt
  <2>4. c \in world.supertypes[c]
    BY <2>2, WorldAssumption DEF Init, RightIn
  <2> QED BY <1>1, <2>1, <2>2, <2>3, <2>4
<1> QED BY <1>1, <1>2 DEF HeightOfSome, TreeJoinIsLeast

(* In a tree of classes the merges of operands lose no precision: one that *)
(* is of a class on every way is of the least class above them all, for    *)
(* every tree, every set of frames and every order of their arrival.       *)
THEOREM TreeJoinsAreLeast == Spec => []TreeJoinIsLeast
<1> DEFINE IInv == TypeOK /\ ArrivalsDescribed /\ HeightOfSome /\ TreeJoinIsLeast
<1>1. Init => IInv
  BY InitCovers, InitIsLeast
<1>2. IInv /\ [Next]_vars => IInv'
  BY ArriveCovers, ArriveIsLeast
<1>3. IInv => TreeJoinIsLeast
  OBVIOUS
<1> QED BY <1>1, <1>2, <1>3, PTL DEF Spec

(* The merge of the frames and what they stand for is as the loop of the   *)
(* method engine takes its merges: MergeAssumption of MethodSolver.        *)
THEOREM MergesFitTheLoop ==
    \A w \in Worlds :
        LET Covers(f, g) == CoversFrame(w.supertypes, f, g)
            Merge(f, g) == MergeFrame(f, g, w.hierarchy)
        IN  /\ \A f \in AllFrames : Covers(f, f) /\ ~HeightMismatch(f, f)
            /\ \A f, g, k \in AllFrames : Covers(f, g) /\ Covers(g, k) => Covers(f, k)
            /\ \A f, g \in AllFrames :
                  Merge(f, g) \in AllFrames /\ Covers(Merge(f, g), f) /\ Covers(Merge(f, g), g)
            /\ \A f, g, k \in AllFrames :
                  ~HeightMismatch(f, g) =>
                      (HeightMismatch(Merge(f, g), k) <=> HeightMismatch(f, k))
<1> SUFFICES ASSUME NEW w \in Worlds
             PROVE  /\ \A f \in AllFrames : CoversFrame(w.supertypes, f, f) /\ ~HeightMismatch(f, f)
                    /\ \A f, g, k \in AllFrames :
                          CoversFrame(w.supertypes, f, g) /\ CoversFrame(w.supertypes, g, k)
                              => CoversFrame(w.supertypes, f, k)
                    /\ \A f, g \in AllFrames :
                          /\ MergeFrame(f, g, w.hierarchy) \in AllFrames
                          /\ CoversFrame(w.supertypes, MergeFrame(f, g, w.hierarchy), f)
                          /\ CoversFrame(w.supertypes, MergeFrame(f, g, w.hierarchy), g)
                    /\ \A f, g, k \in AllFrames :
                          ~HeightMismatch(f, g) =>
                              (HeightMismatch(MergeFrame(f, g, w.hierarchy), k)
                                  <=> HeightMismatch(f, k))
  OBVIOUS
<1>1. RightAboutValues(w.hierarchy, w.supertypes)
  BY WorldsAreRight
<1>2. \A f, g \in AllFrames : ~HeightMismatch(f, g)
          => Len(MergeFrame(f, g, w.hierarchy).stack) = Len(f.stack)
  BY <1>1, MergeFrameCovers DEF HeightMismatch
<1> QED BY <1>1, <1>2, CoveringIsReflexive, CoveringIsTransitive, MergeFrameCovers DEF HeightMismatch

-----------------------------------------------------------------------------
(* The inductive invariant: what the pairs of a slot and the value in it   *)
(* have in common, from one instruction to the next.                       *)

(* The origin of a slot says where its value is from: e is the state the   *)
(* machine started in.                                                     *)
OriginFits(m, e, slot, v) ==
    /\ slot.origin.k = "entry" =>
          /\ slot.origin.slot \in Slots(m)
          /\ (m.constructor => slot.origin.slot # 0) => v = e.locals[slot.origin.slot]
    /\ slot.origin.k = "allocation" =>
          v.v \in {"raw", "object"} /\ v.class = m.code[slot.origin.at].class
    /\ slot.origin.k = "store" /\ slot.origin.at = FirstOffset => v.v = "int"

Typed(m, slot, v) ==
    /\ v \in RunValues(m)
    /\ SlotDescribes(Supertypes, slot, v)
    /\ v.v = "raw" => v.class = m.code[v.at].class

(* The result of an instanceof test that was passed: whatever has the      *)
(* origin of the tested value is an instance.                              *)
Justified(P, fact, v) ==
    v.v = "int" /\ v # IntValue(0) =>
        \A p \in P : p[1].origin = fact.origin /\ p[2].v \notin {"int", "unset"}
                        => InstanceOf(fact.reference, p[2])

SameOrigin(p, q) ==
    p[1].origin # None /\ p[1].origin = q[1].origin /\ p[2] # Unset /\ q[2] # Unset

Sound(m, e, P) ==
    /\ \A p \in P : Typed(m, p[1], p[2])
    /\ \A p \in P : p[2] # Unset => OriginFits(m, e, p[1], p[2])
    /\ \A p, q \in P : SameOrigin(p, q) =>
          p[2] = q[2] \/ (p[2].v = "int" /\ q[2].v = "int")
    /\ \A p \in P : p[1].fact # None /\ p[2] # Unset =>
          p[1].fact.origin # None /\ Justified(P, p[1].fact, p[2])

-----------------------------------------------------------------------------
(* From the pairs before a step to those after it.                         *)

(* What the pair says of identity and of tests, one that was there said.   *)
Derived(P, q) ==
    q[2] # Unset =>
        /\ q[1].origin = None \/ \E p \in P : p[1].origin = q[1].origin /\ p[2] = q[2]
        /\ q[1].fact # None => q[1].fact.origin # None /\ Justified(P, q[1].fact, q[2])

LEMMA UnsetFits ==
    /\ Unset.v = "unset"
    /\ \A m : Unset \in RunValues(m)
    /\ \A m, slot : Typed(m, slot, Unset)
BY DEF Unset, RunValues, Typed, SlotDescribes, DescribesIn, DescribesOne

LEMMA DerivedIsSound ==
    ASSUME NEW m, NEW e, NEW P, NEW Q, Sound(m, e, P),
           \A q \in Q : Typed(m, q[1], q[2]) /\ Derived(P, q)
    PROVE  Sound(m, e, Q)
<1>1. ASSUME NEW q \in Q, q[2] # Unset, q[1].origin # None
      PROVE  \E p \in P : p[1].origin = q[1].origin /\ p[2] = q[2]
  BY <1>1 DEF Derived
<1>2. ASSUME NEW q \in Q, q[2] # Unset PROVE OriginFits(m, e, q[1], q[2])
  <2>1. CASE q[1].origin = None
    BY <2>1 DEF OriginFits, None
  <2>2. CASE q[1].origin # None
    <3>1. PICK p \in P : p[1].origin = q[1].origin /\ p[2] = q[2]
      BY <1>1, <1>2, <2>2
    <3>2. OriginFits(m, e, p[1], p[2])
      BY <1>2, <3>1 DEF Sound
    <3> QED BY <3>1, <3>2 DEF OriginFits
  <2> QED BY <2>1, <2>2
<1>3. ASSUME NEW q \in Q, NEW r \in Q, SameOrigin(q, r)
      PROVE  q[2] = r[2] \/ (q[2].v = "int" /\ r[2].v = "int")
  <2>1. PICK p \in P : p[1].origin = q[1].origin /\ p[2] = q[2]
    BY <1>1, <1>3 DEF SameOrigin
  <2>2. PICK s \in P : s[1].origin = r[1].origin /\ s[2] = r[2]
    BY <1>1, <1>3 DEF SameOrigin
  <2>3. SameOrigin(p, s)
    BY <1>3, <2>1, <2>2 DEF SameOrigin
  <2> QED BY <2>1, <2>2, <2>3 DEF Sound
<1>4. ASSUME NEW q \in Q, q[1].fact # None, q[2] # Unset
      PROVE  q[1].fact.origin # None /\ Justified(Q, q[1].fact, q[2])
  <2>1. q[1].fact.origin # None /\ Justified(P, q[1].fact, q[2])
    BY <1>4 DEF Derived
  <2>2. ASSUME NEW r \in Q, r[1].origin = q[1].fact.origin, r[2].v \notin {"int", "unset"}
        PROVE  \E p \in P : p[1].origin = q[1].fact.origin /\ p[2] = r[2]
    BY <1>1, <2>1, <2>2, UnsetFits
  <2> QED BY <2>1, <2>2 DEF Justified
<1> QED BY <1>2, <1>3, <1>4 DEF Sound

(* A pair with an origin that no other has, or the next of the integers    *)
(* that share theirs.                                                      *)
LEMMA AddedIsSound ==
    ASSUME NEW m, NEW e, NEW P, Sound(m, e, P), NEW slot, NEW v,
           Typed(m, slot, v), OriginFits(m, e, slot, v), slot.fact = None,
           \/ \A p \in P : slot.origin \notin OriginsOf(p[1])
           \/ v.v = "int" /\ slot.origin.k = "store" /\ slot.origin.at = FirstOffset
    PROVE  Sound(m, e, P \cup {<<slot, v>>})
<1> DEFINE n == <<slot, v>>
           Q == P \cup {n}
<1>1. n[1] = slot /\ n[2] = v
  OBVIOUS
<1> HIDE DEF n
<1>2. ASSUME NEW p \in P, p[1].origin = slot.origin, p[2] # Unset PROVE p[2].v = "int" /\ v.v = "int"
  <2>1. OriginFits(m, e, p[1], p[2])
    BY <1>2 DEF Sound
  <2>2. slot.origin \in OriginsOf(p[1])
    BY <1>2 DEF OriginsOf
  <2> QED BY <1>2, <2>1, <2>2 DEF OriginFits
<1>3. \A q \in Q : q[2] # Unset => OriginFits(m, e, q[1], q[2])
  BY <1>1 DEF Sound
<1>4. \A q, r \in Q : SameOrigin(q, r) => q[2] = r[2] \/ (q[2].v = "int" /\ r[2].v = "int")
  BY <1>1, <1>2 DEF Sound, SameOrigin
<1>5. ASSUME NEW q \in Q, q[1].fact # None, q[2] # Unset
      PROVE  q[1].fact.origin # None /\ Justified(Q, q[1].fact, q[2])
  <2>1. q \in P /\ q[1].fact.origin # None /\ Justified(P, q[1].fact, q[2])
    BY <1>1, <1>5 DEF Sound
  <2>2. slot.origin = q[1].fact.origin => v.v = "int"
    BY <1>5, <2>1 DEF OriginsOf
  <2> QED BY <1>1, <2>1, <2>2 DEF Justified
<1>6. \A q \in Q : Typed(m, q[1], q[2])
  BY <1>1 DEF Sound
<1> QED BY <1>3, <1>4, <1>5, <1>6 DEF Sound, n

LEMMA HeldIsDerived ==
    ASSUME NEW m, NEW e, NEW P, Sound(m, e, P), NEW p \in P
    PROVE  Typed(m, p[1], p[2]) /\ Derived(P, p)
BY DEF Sound, Derived

-----------------------------------------------------------------------------
(* The invariant of the run, and how a step comes to keep it.              *)

Cells(f, locals, stack) ==
    {<<LocalSlot(f, n), locals[n]>> : n \in DOMAIN locals}
    \cup {<<f.stack[n], stack[n]>> : n \in DOMAIN stack}

Machine(m, s) ==
    /\ s = [pc |-> s.pc, locals |-> s.locals, stack |-> s.stack,
            status |-> s.status, result |-> s.result]
    /\ s.locals \in [Slots(m) -> RunValues(m)]
    /\ s.stack \in Seq(RunValues(m))

(* The frame f says of the machine what it should.                         *)
FrameFits(m, e, f, s) ==
    /\ Machine(m, s)
    /\ Len(f.stack) = Len(s.stack) /\ DOMAIN f.stack = DOMAIN s.stack
    /\ Sound(m, e, Cells(f, s.locals, s.stack))

RunFits(m, frames, e, s) ==
    s.status \in {"running", "returned"} =>
        /\ s.pc \in DOMAIN frames
        /\ FrameFits(m, e, frames[s.pc], s)
        /\ s.status = "returned" =>
              /\ m.code[s.pc].op \in ValueReturnOps \cup {"return"}
              /\ m.code[s.pc].op \in ValueReturnOps =>
                    s.stack # <<>> /\ s.result = At(s, 1) /\ s.result # Unset

LEMMA AdmittedIsSound ==
    ASSUME NEW m \in Methods, NEW e, NEW f, NEW s, FrameFits(m, e, f, s),
           NEW wide \in AllFrames, Admits(wide, f)
    PROVE  FrameFits(m, e, wide, s)
<1> DEFINE P == Cells(f, s.locals, s.stack)
           Q == Cells(wide, s.locals, s.stack)
<1>1. RunValues(m) \subseteq Values
  BY MethodsAssumption
<1>2. s.stack \in Seq(RunValues(m)) /\ wide.stack \in Seq(AllSlots)
  BY DEF FrameFits, Machine, AllFrames, FramesWith, AllSlots
<1>3. DOMAIN s.stack = 1..Len(s.stack) /\ DOMAIN wide.stack = 1..Len(wide.stack)
  BY <1>2
<1>4. Sound(m, e, P) /\ DOMAIN f.stack = DOMAIN s.stack /\ Len(f.stack) = Len(s.stack)
  BY DEF FrameFits
<1>5. ASSUME NEW a, NEW b, NEW v, CoversSlot(Supertypes, a, b), <<b, v>> \in P
      PROVE  Typed(m, a, v) /\ Derived(P, <<a, v>>)
  <2> HIDE DEF P
  <2>1. Typed(m, b, v) /\ Derived(P, <<b, v>>)
    BY <1>4, <1>5, HeldIsDerived
  <2>2. Typed(m, a, v)
    BY <1>1, <1>5, <2>1 DEF Typed, CoversSlot, Widens
  <2> QED BY <1>5, <2>1, <2>2 DEF Derived, CoversSlot, KeepsIdentity
<1>6. DOMAIN s.locals = Slots(m)
  BY DEF FrameFits, Machine
<1>7. ASSUME NEW q \in Q PROVE Typed(m, q[1], q[2]) /\ Derived(P, q)
  <2>1. CASE q \in {<<LocalSlot(wide, n), s.locals[n]>> : n \in DOMAIN s.locals}
    <3>1. PICK n \in Slots(m) : q = <<LocalSlot(wide, n), s.locals[n]>>
      BY <1>6, <2>1
    <3>2. <<LocalSlot(f, n), s.locals[n]>> \in P
      BY <1>6 DEF Cells
    <3>3. CASE n + 1 \in DOMAIN f.locals
      <4>1. CoversSlot(Supertypes, LocalSlot(wide, n), LocalSlot(f, n))
        BY <3>3 DEF Admits, CoversFrame, LocalSlot
      <4> HIDE DEF P
      <4> QED BY <1>5, <3>1, <3>2, <4>1
    <3>4. CASE n + 1 \notin DOMAIN f.locals
      <4>1. Typed(m, EmptySlot, s.locals[n])
        <5>1. LocalSlot(f, n) = EmptySlot
          BY <3>4 DEF LocalSlot
        <5> HIDE DEF P
        <5> QED BY <1>4, <3>2, <5>1, HeldIsDerived
      <4>2. q[2] = Unset
        BY <3>1, <4>1 DEF Typed, SlotDescribes, EmptySlot, Plain, Slot, Bottom, DescribesIn,
                          DescribesOne, Conflict, Unknown, IsReference, IsIntegral, Long, ReturnAddress
      <4> QED BY <4>2, UnsetFits DEF Derived
    <3> QED BY <3>3, <3>4
  <2>2. CASE q \in {<<wide.stack[n], s.stack[n]>> : n \in DOMAIN s.stack}
    <3>1. PICK n \in DOMAIN s.stack : q = <<wide.stack[n], s.stack[n]>>
      BY <2>2
    <3>2. <<f.stack[n], s.stack[n]>> \in P
      BY DEF Cells
    <3>3. CoversSlot(Supertypes, wide.stack[n], f.stack[n])
      BY <1>4 DEF Admits, HeightMismatch, CoversFrame, CoversSlot
    <3> HIDE DEF P
    <3> QED BY <1>5, <3>1, <3>2, <3>3
  <2> QED BY <2>1, <2>2 DEF Cells
<1>8. Sound(m, e, Q)
  <2> HIDE DEF P, Q
  <2> QED BY <1>4, <1>7, DerivedIsSound
<1>9. Len(wide.stack) = Len(s.stack)
  BY <1>4 DEF Admits, HeightMismatch
<1> QED BY <1>3, <1>8, <1>9 DEF FrameFits

LEMMA Lands ==
    ASSUME NEW m \in Methods, NEW frames, NEW e, Closed(Env(m), m, frames),
           NEW f, NEW s, FrameFits(m, e, f, s), s.status = "running",
           AdmitsAt(frames, s.pc, f)
    PROVE  RunFits(m, frames, e, s)
<1>1. s.pc \in DOMAIN frames /\ frames[s.pc] \in AllFrames /\ Admits(frames[s.pc], f)
  BY DEF Closed, AdmitsAt
<1> QED BY <1>1, AdmittedIsSound DEF RunFits

-----------------------------------------------------------------------------
(* Sequences with something taken off and something put on.                *)

Spliced(S, T, s, n, t, r) ==
    /\ r \in Seq(S \cup T)
    /\ Len(r) = Len(s) - n + Len(t)
    /\ \A k \in 1..(Len(s) - n) : r[k] = s[k]
    /\ \A k \in 1..Len(t) : r[Len(s) - n + k] = t[k]

LEMMA PoppedAndPushed ==
    ASSUME NEW S, NEW T, NEW s \in Seq(S), NEW t \in Seq(T), NEW n \in 0..Len(s)
    PROVE  Spliced(S, T, s, n, t, SubSeq(s, 1, Len(s) - n) \o t)
<1> DEFINE p == SubSeq(s, 1, Len(s) - n)
<1>1. Len(s) \in Nat /\ Len(t) \in Nat
  OBVIOUS
<1>2. p \in Seq(S) /\ Len(p) = Len(s) - n /\ \A k \in 1..(Len(s) - n) : p[k] = s[k]
  BY <1>1
<1>3. p \in Seq(S \cup T) /\ t \in Seq(S \cup T)
  BY <1>1, <1>2
<1> HIDE DEF p
<1>4. /\ p \o t \in Seq(S \cup T)
      /\ Len(p \o t) = Len(p) + Len(t)
      /\ \A k \in 1..Len(p) : (p \o t)[k] = p[k]
      /\ \A k \in 1..Len(t) : (p \o t)[Len(p) + k] = t[k]
  BY <1>1, <1>3
<1> QED BY <1>1, <1>2, <1>4 DEF p, Spliced

-----------------------------------------------------------------------------
(* The top of the stack, in the frame and in the machine.                  *)

LEMMA FrameParts ==
    ASSUME NEW f \in AllFrames
    PROVE  /\ f = [locals |-> f.locals, stack |-> f.stack]
           /\ f.stack \in Seq(AllSlots) /\ Len(f.stack) \in Nat
           /\ f.locals \in Seq(AllSlots) /\ Len(f.locals) \in Nat
BY DEF AllFrames, FramesWith, AllSlots

LEMMA Pushed ==
    ASSUME NEW a, NEW b, NEW slots
    PROVE  PushAll([locals |-> a, stack |-> b], slots) = [locals |-> a, stack |-> b \o slots]
<1> DEFINE g == [locals |-> a, stack |-> b]
           c == b \o slots
<1>1. PushAll(g, slots) = [g EXCEPT !.stack = c]
  BY DEF PushAll
<1> HIDE DEF c
<1>2. [g EXCEPT !.stack = c] = [locals |-> a, stack |-> c]
  OBVIOUS
<1> QED BY <1>1, <1>2 DEF c

LEMMA PushedAndDropped ==
    ASSUME NEW f \in AllFrames, NEW n \in Nat, n <= Len(f.stack)
    PROVE  /\ Drop(f, n) = [locals |-> f.locals, stack |-> SubSeq(f.stack, 1, Len(f.stack) - n)]
           /\ \A slots : PushAll(Drop(f, n), slots) =
                  [locals |-> f.locals, stack |-> SubSeq(f.stack, 1, Len(f.stack) - n) \o slots]
<1> DEFINE k == IF Len(f.stack) > n THEN Len(f.stack) - n ELSE 0
           p == SubSeq(f.stack, 1, k)
<1>1. k = Len(f.stack) - n
  BY FrameParts
<1>2. Drop(f, n) = [f EXCEPT !.stack = p]
  BY DEF Drop
<1> HIDE DEF p
<1>3. Drop(f, n) = [locals |-> f.locals, stack |-> p]
  BY <1>2, FrameParts
<1> QED BY <1>1, <1>3, Pushed, Zenon DEF p

LEMMA PeekIsTop ==
    ASSUME NEW f \in AllFrames, NEW n \in 1..Len(f.stack)
    PROVE  Peek(f, n) = f.stack[Len(f.stack) - n + 1] /\ Peek(f, n) \in AllSlots
<1> DEFINE r == SubSeq(f.stack, 1, Len(f.stack) - (n - 1))
<1>1. f.stack \in Seq(AllSlots) /\ f.locals \in Seq(AllSlots)
      /\ f = [locals |-> f.locals, stack |-> f.stack]
  BY DEF AllFrames, FramesWith, AllSlots
<1>2. Len(f.stack) \in Nat
  BY <1>1
<1>3. r \in Seq(AllSlots) /\ Len(r) = Len(f.stack) - n + 1 /\ r # <<>>
      /\ r[Len(r)] = f.stack[Len(f.stack) - n + 1]
  BY <1>1, <1>2
<1>4. Drop(f, n - 1).stack = r
  BY <1>1, <1>2 DEF Drop
<1>5. Top(Drop(f, n - 1)) = r[Len(r)]
  <2> HIDE DEF r
  <2> QED BY <1>3, <1>4 DEF Top, Last
<1>6. f.stack[Len(f.stack) - n + 1] \in AllSlots
  BY <1>1, <1>2
<1> QED BY <1>3, <1>5, <1>6 DEF Peek

LEMMA TopIsPeek ==
    ASSUME NEW f \in AllFrames, f.stack # <<>>
    PROVE  Top(f) = Peek(f, 1) /\ 1 \in 1..Len(f.stack)
<1>1. f.stack \in Seq(AllSlots)
  BY DEF AllFrames, FramesWith, AllSlots
<1>2. Len(f.stack) \in Nat \ {0}
  BY <1>1
<1>3. 1 \in 1..Len(f.stack)
  BY <1>2
<1>4. Peek(f, 1) = f.stack[Len(f.stack)]
  <2>1. Len(f.stack) - 1 + 1 = Len(f.stack)
    BY <1>2
  <2> QED BY <1>3, <2>1, PeekIsTop
<1> QED BY <1>3, <1>4 DEF Top, Last

(* What the machine has there is in the pair of that slot.                 *)
LEMMA PeekedPair ==
    ASSUME NEW m, NEW e, NEW f \in AllFrames, NEW s, FrameFits(m, e, f, s),
           NEW n \in 1..Len(f.stack)
    PROVE  /\ <<Peek(f, n), At(s, n)>> \in Cells(f, s.locals, s.stack)
           /\ Typed(m, Peek(f, n), At(s, n))
           /\ Peek(f, n) \in AllSlots
<1>1. s.stack \in Seq(RunValues(m)) /\ Len(f.stack) = Len(s.stack)
  BY DEF FrameFits, Machine
<1>2. Len(s.stack) \in Nat
  BY <1>1
<1>3. At(s, n) = s.stack[Len(f.stack) - n + 1] /\ Len(f.stack) - n + 1 \in DOMAIN s.stack
  BY <1>1, <1>2 DEF At
<1>4. <<Peek(f, n), At(s, n)>> \in Cells(f, s.locals, s.stack)
  BY <1>3, PeekIsTop DEF Cells
<1>5. Sound(m, e, Cells(f, s.locals, s.stack))
  BY DEF FrameFits
<1> QED BY <1>4, <1>5, PeekIsTop DEF Sound

LEMMA LocalPair ==
    ASSUME NEW m, NEW e, NEW f \in AllFrames, NEW s, FrameFits(m, e, f, s), NEW n \in Slots(m)
    PROVE  /\ <<LocalSlot(f, n), s.locals[n]>> \in Cells(f, s.locals, s.stack)
           /\ Typed(m, LocalSlot(f, n), s.locals[n])
           /\ LocalSlot(f, n) \in AllSlots
<1>1. s.locals \in [Slots(m) -> RunValues(m)] /\ Sound(m, e, Cells(f, s.locals, s.stack))
  BY DEF FrameFits, Machine
<1>2. <<LocalSlot(f, n), s.locals[n]>> \in Cells(f, s.locals, s.stack)
  BY <1>1 DEF Cells
<1>3. LocalSlot(f, n) \in AllSlots
  <2>1. EmptySlot \in AllSlots
    BY PlainSlot DEF EmptySlot, AllTypes, SingleTypes
  <2>2. f.locals \in Seq(AllSlots)
    BY DEF AllFrames, FramesWith, AllSlots
  <2> QED BY <2>1, <2>2 DEF LocalSlot
<1> QED BY <1>1, <1>2, <1>3 DEF Sound

LEMMA JumpParts ==
    ASSUME NEW m, NEW s, Machine(m, s), NEW pc, NEW stack
    PROVE  Jump(s, pc, stack) = [pc |-> pc, locals |-> s.locals, stack |-> stack,
                                 status |-> s.status, result |-> s.result]
<1> DEFINE t == [pc |-> pc, locals |-> s.locals, stack |-> s.stack,
                 status |-> s.status, result |-> s.result]
<1>1. DOMAIN s = {"pc", "locals", "stack", "status", "result"}
  BY DEF Machine
<1>2. [s EXCEPT !.pc = pc] = t
  BY <1>1
<1>3. [t EXCEPT !.stack = stack] = [pc |-> pc, locals |-> s.locals, stack |-> stack,
                                    status |-> s.status, result |-> s.result]
  OBVIOUS
<1>4. Jump(s, pc, stack) = [[s EXCEPT !.pc = pc] EXCEPT !.stack = stack]
  BY DEF Jump
<1> QED BY <1>2, <1>3, <1>4

(* The slots pushed in the frame and the values pushed by the machine.     *)
PushesFit(m, P, T, slots, values) ==
    /\ slots \in Seq(T) /\ values \in Seq(RunValues(m))
    /\ Len(slots) = Len(values)
    /\ \A k \in 1..Len(slots) :
          Typed(m, slots[k], values[k]) /\ Derived(P, <<slots[k], values[k]>>)

(* The instruction takes n values off and puts some back: what they say  *)
(* is said in P, with what is said of the machine before.                  *)
LEMMA SpliceFits ==
    ASSUME NEW m, NEW e, NEW f \in AllFrames, NEW s, FrameFits(m, e, f, s),
           NEW n \in Nat, n <= Len(f.stack), NEW T, NEW slots, NEW values,
           NEW P, Sound(m, e, P), Cells(f, s.locals, s.stack) \subseteq P,
           PushesFit(m, P, T, slots, values),
           NEW pc
    PROVE  FrameFits(m, e, PushAll(Drop(f, n), slots), Jump(s, pc, Pops(s, n) \o values))
<1> DEFINE g == PushAll(Drop(f, n), slots)
           K == Pops(s, n) \o values
           t == Jump(s, pc, K)
           d == Len(s.stack) - n
<1>1. /\ s.stack \in Seq(RunValues(m)) /\ Len(f.stack) = Len(s.stack)
      /\ f.stack \in Seq(AllSlots) /\ f = [locals |-> f.locals, stack |-> f.stack]
  BY DEF FrameFits, Machine, AllFrames, FramesWith, AllSlots
<1>2. /\ Len(s.stack) \in Nat /\ Len(values) \in Nat /\ Len(slots) \in Nat /\ d \in Nat
      /\ n \in 0..Len(s.stack) /\ n \in 0..Len(f.stack)
      /\ slots \in Seq(T) /\ values \in Seq(RunValues(m)) /\ Len(slots) = Len(values)
  BY <1>1 DEF PushesFit
<1>3. g = [locals |-> f.locals, stack |-> SubSeq(f.stack, 1, Len(f.stack) - n) \o slots]
  BY PushedAndDropped
<1>4. /\ K \in Seq(RunValues(m)) /\ Len(K) = d + Len(values)
      /\ \A k \in 1..d : K[k] = s.stack[k]
      /\ \A k \in 1..Len(values) : K[d + k] = values[k]
  <2>1. K = SubSeq(s.stack, 1, Len(s.stack) - n) \o values
    BY DEF Pops
  <2>2. RunValues(m) \cup RunValues(m) = RunValues(m)
    OBVIOUS
  <2> HIDE DEF K
  <2>3. Spliced(RunValues(m), RunValues(m), s.stack, n, values, K)
    BY <1>1, <1>2, <2>1, PoppedAndPushed
  <2> QED BY <2>2, <2>3 DEF Spliced
<1>5. /\ g.stack \in Seq(AllSlots \cup T) /\ Len(g.stack) = d + Len(slots)
      /\ \A k \in 1..d : g.stack[k] = f.stack[k]
      /\ \A k \in 1..Len(slots) : g.stack[d + k] = slots[k]
  <2>1. g.stack = SubSeq(f.stack, 1, Len(f.stack) - n) \o slots
    BY <1>3
  <2> HIDE DEF g
  <2>2. Spliced(AllSlots, T, f.stack, n, slots, g.stack)
    BY <1>1, <1>2, <2>1, PoppedAndPushed
  <2> QED BY <1>1, <2>2 DEF Spliced
<1>6. DOMAIN g.stack = 1..(d + Len(slots)) /\ DOMAIN K = 1..(d + Len(slots))
  <2> HIDE DEF g, K
  <2> QED BY <1>2, <1>4, <1>5
<1>7. ASSUME NEW q \in Cells(g, s.locals, K) PROVE Typed(m, q[1], q[2]) /\ Derived(P, q)
  <2>1. CASE q \in {<<LocalSlot(g, k), s.locals[k]>> : k \in DOMAIN s.locals}
    <3>1. q \in P
      BY <1>3, <2>1 DEF Cells, LocalSlot
    <3> QED BY <1>1, <3>1, HeldIsDerived
  <2>2. CASE q \in {<<g.stack[k], K[k]>> : k \in DOMAIN K}
    <3>1. PICK k \in 1..(d + Len(slots)) : q = <<g.stack[k], K[k]>>
      BY <1>6, <2>2
    <3>2. CASE k \in 1..d
      <4>1. q = <<f.stack[k], s.stack[k]>> /\ k \in DOMAIN s.stack
        <5> HIDE DEF g, K
        <5> QED BY <1>1, <1>2, <1>4, <1>5, <3>1, <3>2
      <4>2. q \in P
        BY <4>1 DEF Cells
      <4> QED BY <1>1, <4>2, HeldIsDerived
    <3>3. CASE k \notin 1..d
      <4> DEFINE j == k - d
      <4>1. j \in 1..Len(slots) /\ k = d + j
        <5> HIDE DEF d
        <5> QED BY <1>2, <3>3
      <4> HIDE DEF j, g, K
      <4>2. q = <<slots[j], values[j]>>
        BY <1>2, <1>4, <1>5, <3>1, <4>1
      <4> QED BY <4>1, <4>2 DEF PushesFit
    <3> QED BY <3>2, <3>3
  <2> QED BY <2>1, <2>2 DEF Cells
<1>8. Sound(m, e, Cells(g, s.locals, K))
  <2> HIDE DEF g, K
  <2> QED BY <1>1, <1>7, DerivedIsSound
<1>9. t = [pc |-> pc, locals |-> s.locals, stack |-> K, status |-> s.status, result |-> s.result]
  BY JumpParts DEF FrameFits
<1>10. s.locals \in [Slots(m) -> RunValues(m)]
  BY DEF FrameFits, Machine
<1> HIDE DEF g, K, t
<1> QED BY <1>2, <1>4, <1>5, <1>6, <1>8, <1>9, <1>10 DEF FrameFits, Machine, g, t, K

LEMMA EffectFits ==
    ASSUME NEW m, NEW e, NEW f \in AllFrames, NEW s, FrameFits(m, e, f, s),
           NEW n \in Nat, n <= Len(f.stack), NEW T, NEW slots, NEW values,
           PushesFit(m, Cells(f, s.locals, s.stack), T, slots, values),
           NEW pc
    PROVE  FrameFits(m, e, PushAll(Drop(f, n), slots), Jump(s, pc, Pops(s, n) \o values))
<1>1. Sound(m, e, Cells(f, s.locals, s.stack))
  BY DEF FrameFits
<1> QED BY <1>1, SpliceFits

LEMMA NothingPushed ==
    ASSUME NEW m, NEW e, NEW f \in AllFrames, NEW s, FrameFits(m, e, f, s),
           NEW n \in Nat, n <= Len(f.stack),
           NEW pc
    PROVE  FrameFits(m, e, PushAll(Drop(f, n), <<>>), Jump(s, pc, Pops(s, n) \o <<>>))
<1>1. PushesFit(m, Cells(f, s.locals, s.stack), {}, <<>>, <<>>)
  BY DEF PushesFit
<1> QED BY <1>1, EffectFits

LEMMA OnePushed ==
    ASSUME NEW m, NEW e, NEW f \in AllFrames, NEW s, FrameFits(m, e, f, s),
           NEW n \in Nat, n <= Len(f.stack), NEW slot, NEW v, Typed(m, slot, v),
           Derived(Cells(f, s.locals, s.stack), <<slot, v>>),
           NEW pc
    PROVE  FrameFits(m, e, PushAll(Drop(f, n), <<slot>>), Jump(s, pc, Pops(s, n) \o <<v>>))
<1>1. v \in RunValues(m)
  BY DEF Typed
<1>2. PushesFit(m, Cells(f, s.locals, s.stack), {slot}, <<slot>>, <<v>>)
  BY <1>1 DEF PushesFit
<1> QED BY <1>2, EffectFits

-----------------------------------------------------------------------------
(* The values of a declared type, and the slots that say no more than a    *)
(* type.                                                                   *)

LEMMA ValuesOfType ==
    ASSUME NEW m, NEW place \in Places(m), NEW d, NEW v \in ValuesOf(d, place)
    PROVE  /\ v \in RunValues(m)
           /\ Describes(TypeOfDescriptor(d), v)
           /\ v.v \notin {"raw", "rawThis", "address", "unset"}
<1> USE DEF Describes, DescribesIn, DescribesOne, InstanceIn, IsReference, IsIntegral
<1>1. CASE d.d = "class"
  <2>1. TypeOfDescriptor(d) = Exact(d.c)
    BY <1>1 DEF TypeOfDescriptor, SmallIntegrals
  <2>2. v \in {NullRef} \cup ObjectsOf({c \in Instantiable : d.c \in Supertypes[c]}, place)
              \cup ArraysOf({a \in Arrays : d.c \in ArraySupertypes}, place)
    BY <1>1 DEF ValuesOf, SmallIntegrals
  <2>3. v \in RunValues(m)
    BY <2>2 DEF RunValues, ObjectsOf, ArraysOf
  <2> QED BY <2>1, <2>2, <2>3 DEF ObjectsOf, ArraysOf, Obj, ArrayObj, NullRef, Exact
<1>2. CASE d.d = "array"
  <2>1. TypeOfDescriptor(d) = ArrayRef(d)
    BY <1>2 DEF TypeOfDescriptor, SmallIntegrals
  <2>2. v \in {NullRef} \cup ArraysOf({a \in Arrays : IsSubtypeArray(Supertypes, a, d)}, place)
    BY <1>2 DEF ValuesOf, SmallIntegrals
  <2>3. v \in RunValues(m)
    BY <2>2 DEF RunValues, ArraysOf
  <2> QED BY <2>1, <2>2, <2>3 DEF ArraysOf, ArrayObj, NullRef, ArrayRef
<1>3. CASE d.d = "long"
  BY <1>3 DEF ValuesOf, TypeOfDescriptor, SmallIntegrals, RunValues, LongValue, Long
<1>4. CASE d.d \in SmallIntegrals
  <2>1. TypeOfDescriptor(d) = Integral({d.d})
    BY <1>4 DEF TypeOfDescriptor, SmallIntegrals
  <2>2. v \in IntsOf(d.d)
    BY <1>4 DEF ValuesOf, SmallIntegrals
  <2>3. PICK n \in Ints : InRange(d.d, n) /\ v = IntValue(n)
    BY <2>2 DEF IntsOf
  <2>4. v \in RunValues(m)
    BY <2>3 DEF RunValues
  <2> QED BY <2>1, <2>3, <2>4 DEF IntValue, Integral
<1> QED BY <1>1, <1>2, <1>3, <1>4 DEF ValuesOf

LEMMA PlainFits ==
    ASSUME NEW m, NEW type, NEW v \in RunValues(m), Describes(type, v), v.v # "raw"
    PROVE  Typed(m, Plain(type), v) /\ \A P : Derived(P, <<Plain(type), v>>)
BY DEF Typed, Derived, Plain, Slot, UnknownTargets, SlotDescribes, Describes

LEMMA IntegersFit ==
    ASSUME NEW m, NEW kind \in SmallIntegrals, NEW v \in IntsOf(kind)
    PROVE  v \in RunValues(m) /\ v.v = "int" /\ Describes(Integral({kind}), v)
<1>1. PICK n \in Ints : InRange(kind, n) /\ v = IntValue(n)
  BY DEF IntsOf
<1> QED BY <1>1 DEF RunValues, IntValue, Integral, Describes, DescribesIn, DescribesOne, IsIntegral

-----------------------------------------------------------------------------
(* A running machine beside frames that are closed and fit it.             *)

(* No object that is not initialized is an argument.                       *)
ArgumentsAreReady(m, e) ==
    \A n \in Slots(m) : (m.constructor => n # 0) => e.locals[n].v \notin {"raw", "rawThis"}

Scene(m, F, e, s) ==
    /\ m \in Methods
    /\ Closed(Env(m), m, F)
    /\ Verified(m, F)
    /\ ArgumentsAreReady(m, e)
    /\ s.status = "running"
    /\ RunFits(m, F, e, s)

LEMMA SceneFacts ==
    ASSUME NEW m, NEW F, NEW e, NEW s, Scene(m, F, e, s)
    PROVE  LET f == F[s.pc]
               i == m.code[s.pc]
               after == Transfer(m, s.pc, f, Env(m))
           IN  /\ m \in Methods /\ Closed(Env(m), m, F) /\ s.status = "running"
               /\ s.pc \in 1..Len(m.code) /\ Len(m.code) \in Nat
               /\ f \in AllFrames /\ FrameFits(m, e, f, s)
               /\ Operands(m, i) /\ VerifiedAt(m, f, s.pc)
               /\ TransferDiagnostics(m, s.pc, f, Env(m)) = {}
               /\ EdgesClosed(m, F, s.pc, after)
               /\ HandlersClosed(m, F, s.pc)
               /\ ReturnsClosed(m, F, s.pc, after)
               /\ OriginsAreNew(m, f, s.pc)
<1>1. s.pc \in DOMAIN F /\ FrameFits(m, e, F[s.pc], s)
  BY DEF Scene, RunFits
<1>2. s.pc \in DOMAIN m.code /\ F[s.pc] \in AllFrames
  BY <1>1 DEF Scene, Closed
<1>3. m.code \in Seq(Range(m.code)) /\ Operands(m, m.code[s.pc])
  BY <1>2, MethodsAssumption DEF Scene
<1>4. DOMAIN m.code = 1..Len(m.code) /\ Len(m.code) \in Nat
  BY <1>3
<1> QED BY <1>1, <1>2, <1>3, <1>4 DEF Scene, Closed, Verified

(* An instruction that ends no block leads to the one behind it.           *)
LEMMA NextClosed ==
    ASSUME NEW m, NEW F, NEW e, NEW s, Scene(m, F, e, s), ~EndsBlock(m.code[s.pc].op)
    PROVE  AdmitsAt(F, s.pc + 1, Transfer(m, s.pc, F[s.pc], Env(m)))
<1> DEFINE i == m.code[s.pc]
           edge == [target |-> s.pc + 1, kind |-> "fallThrough"]
<1>1. s.pc < Len(m.code)
  BY SceneFacts DEF VerifiedAt, EndsBlock, TerminatesExecution
<1>2. OrdinarySuccessors(m, s.pc) = <<edge>>
  BY <1>1 DEF OrdinarySuccessors, Edge, FallThrough, EndsBlock, TerminatesExecution, SwitchOps, ConditionOps, CompareOps
<1>3. edge \in Range(OrdinarySuccessors(m, s.pc)) /\ edge.kind = "fallThrough" /\ edge.target = s.pc + 1
  BY <1>2 DEF Range
<1>4. EdgeIsFeasible(i.op, edge.kind, Top(F[s.pc]))
  BY DEF EdgeIsFeasible, EndsBlock, ConditionOps
<1>5. EdgeFrame(i.op, edge.kind, Top(F[s.pc]), Transfer(m, s.pc, F[s.pc], Env(m)))
          = Transfer(m, s.pc, F[s.pc], Env(m))
  BY DEF EdgeFrame, InstanceofTrueEdge, EndsBlock, ConditionOps
<1> HIDE DEF edge
<1> QED BY <1>3, <1>4, <1>5, SceneFacts DEF EdgesClosed

LEMMA FallsThrough ==
    ASSUME NEW m, NEW F, NEW e, NEW s, Scene(m, F, e, s), ~EndsBlock(m.code[s.pc].op),
           NEW t, FrameFits(m, e, Transfer(m, s.pc, F[s.pc], Env(m)), t),
           t.pc = s.pc + 1, t.status = "running"
    PROVE  RunFits(m, F, e, t)
BY NextClosed, SceneFacts, Lands

(* What most instructions do to the frame.                                 *)
LEMMA EffectOf ==
    ASSUME NEW m, NEW F, NEW e, NEW s, Scene(m, F, e, s),
           m.code[s.pc].op \notin LoadOps \cup StoreOps \cup InvokeOps \cup {"iinc", "invokedynamic"},
           NEW n \in Nat, NEW slots,
           StackEffect(m, s.pc, F[s.pc], Env(m)) = [pops |-> n, pushes |-> slots]
    PROVE  /\ n <= Len(F[s.pc].stack)
           /\ Transfer(m, s.pc, F[s.pc], Env(m)) = PushAll(Drop(F[s.pc], n), slots)
<1>1. ~NamesNoMethod(m.code[s.pc])
  BY DEF NamesNoMethod
<1>2. TransferDiagnostics(m, s.pc, F[s.pc], Env(m)) = {} /\ Len(F[s.pc].stack) \in Nat
  BY SceneFacts, FrameParts
<1>3. ~(n > Len(F[s.pc].stack))
  BY <1>1, <1>2 DEF TransferDiagnostics
<1>4. Transfer(m, s.pc, F[s.pc], Env(m)) = PushAll(Drop(F[s.pc], n), slots)
  BY <1>1 DEF Transfer, Applied
<1> QED BY <1>2, <1>3, <1>4

LEMMA JumpGoes ==
    ASSUME NEW m, NEW s, Machine(m, s), NEW pc, NEW stack
    PROVE  Jump(s, pc, stack).pc = pc /\ Jump(s, pc, stack).status = s.status
BY JumpParts

(* One value is pushed, with a slot that says no more than its type.       *)
LEMMA YieldFits ==
    ASSUME NEW m, NEW F, NEW e, NEW s, Scene(m, F, e, s), ~EndsBlock(m.code[s.pc].op),
           m.code[s.pc].op \notin LoadOps \cup StoreOps \cup InvokeOps \cup {"iinc", "invokedynamic"},
           NEW n \in Nat, NEW slot,
           StackEffect(m, s.pc, F[s.pc], Env(m)) = [pops |-> n, pushes |-> <<slot>>],
           NEW values,
           \A v \in values : Typed(m, slot, v) /\ Derived(Cells(F[s.pc], s.locals, s.stack), <<slot, v>>)
    PROVE  \A t \in Yield(s, n, values) : RunFits(m, F, e, t)
<1> SUFFICES ASSUME NEW v \in values PROVE RunFits(m, F, e, Continue(s, n, <<v>>))
  BY DEF Yield
<1>1. n <= Len(F[s.pc].stack) /\ Transfer(m, s.pc, F[s.pc], Env(m)) = PushAll(Drop(F[s.pc], n), <<slot>>)
  BY EffectOf
<1>2. F[s.pc] \in AllFrames /\ FrameFits(m, e, F[s.pc], s) /\ s.status = "running"
  BY SceneFacts
<1>3. FrameFits(m, e, PushAll(Drop(F[s.pc], n), <<slot>>), Continue(s, n, <<v>>))
  BY <1>1, <1>2, OnePushed DEF Continue
<1>4. Continue(s, n, <<v>>).pc = s.pc + 1 /\ Continue(s, n, <<v>>).status = "running"
  BY <1>2, JumpGoes DEF Continue, FrameFits
<1> QED BY <1>1, <1>3, <1>4, FallsThrough

LEMMA PopFits ==
    ASSUME NEW m, NEW F, NEW e, NEW s, Scene(m, F, e, s), ~EndsBlock(m.code[s.pc].op),
           m.code[s.pc].op \notin LoadOps \cup StoreOps \cup InvokeOps \cup {"iinc", "invokedynamic"},
           NEW n \in Nat,
           StackEffect(m, s.pc, F[s.pc], Env(m)) = [pops |-> n, pushes |-> <<>>]
    PROVE  RunFits(m, F, e, Continue(s, n, <<>>))
<1>1. n <= Len(F[s.pc].stack) /\ Transfer(m, s.pc, F[s.pc], Env(m)) = PushAll(Drop(F[s.pc], n), <<>>)
  BY EffectOf
<1>2. F[s.pc] \in AllFrames /\ FrameFits(m, e, F[s.pc], s) /\ s.status = "running"
  BY SceneFacts
<1>3. FrameFits(m, e, PushAll(Drop(F[s.pc], n), <<>>), Continue(s, n, <<>>))
  BY <1>1, <1>2, NothingPushed DEF Continue
<1>4. Continue(s, n, <<>>).pc = s.pc + 1 /\ Continue(s, n, <<>>).status = "running"
  BY <1>2, JumpGoes DEF Continue, FrameFits
<1> QED BY <1>1, <1>3, <1>4, FallsThrough

-----------------------------------------------------------------------------
(* The instructions one by one.  First those that push a value of a type   *)
(* that the instruction tells.                                             *)

USE DEF ConstantOps, LoadOps, StoreOps, ArrayStoreOps, ConditionOps, CompareOps, SwitchOps,
        ValueReturnOps, InvokeOps, ShuffleOps, BinaryOps, ConvertOps, PrimitiveLoadOps

LEMMA StuckFits ==
    ASSUME NEW m, NEW F, NEW e, NEW s, Scene(m, F, e, s)
    PROVE  \A t \in {Stuck(s)} : RunFits(m, F, e, t)
<1>1. Machine(m, s)
  BY SceneFacts DEF FrameFits
<1>2. DOMAIN s = {"pc", "locals", "stack", "status", "result"}
  BY <1>1 DEF Machine
<1>3. Stuck(s).status = "stuck"
  BY <1>2 DEF Stuck
<1> QED BY <1>3 DEF RunFits

LEMMA ConstantsDescribed ==
    ASSUME NEW m
    PROVE  /\ NullRef \in RunValues(m) /\ NullRef.v # "raw" /\ Describes(Null, NullRef)
           /\ LongValue \in RunValues(m) /\ LongValue.v # "raw" /\ Describes(Long, LongValue)
           /\ \A n \in Ints : /\ IntValue(n) \in RunValues(m) /\ IntValue(n).v # "raw"
                             /\ Describes(IntegralForConstant(n), IntValue(n))
<1>1. /\ NullRef \in RunValues(m) /\ LongValue \in RunValues(m)
      /\ \A n \in Ints : IntValue(n) \in RunValues(m)
  BY DEF RunValues
<1>2. NullRef.v # "raw" /\ LongValue.v # "raw" /\ \A n : IntValue(n).v = "int" /\ IntValue(n).n = n
  BY DEF NullRef, LongValue, IntValue
<1>3. Describes(Null, NullRef) /\ Describes(Long, LongValue)
  BY DEF Describes, DescribesIn, DescribesOne, IsReference, Null
<1>4. ASSUME NEW n \in Ints PROVE Describes(IntegralForConstant(n), IntValue(n))
  <2> DEFINE A == IF n \in {0, 1} THEN {"boolean"} ELSE {}
             B == IF n + 128 \in 0..255 THEN {"byte"} ELSE {}
             C == IF n + 32768 \in 0..65535 THEN {"short"} ELSE {}
             D == IF n \in 0..65535 THEN {"char"} ELSE {}
             S == {"int"} \cup A \cup B \cup C \cup D
  <2>0. IntegralForConstant(n) = Integral(S)
    BY DEF IntegralForConstant
  <2> HIDE DEF A, B, C, D
  <2>1. IntegralForConstant(n) = Integral(S) /\ "int" \in S
    BY <2>0
  <2> HIDE DEF S
  <2>2. InRange("int", n)
    BY DEF InRange
  <2>3. IsIntegral(Integral(S)) /\ Integral(S).of = S
    BY DEF IsIntegral, Integral
  <2> QED BY <1>2, <2>1, <2>2, <2>3, Zenon DEF Describes, DescribesIn, DescribesOne
<1> QED BY <1>1, <1>2, <1>3, <1>4

LEMMA ConstantsRun ==
    ASSUME NEW m, NEW F, NEW e, NEW s, Scene(m, F, e, s),
           m.code[s.pc].op \in {"aconst_null", "iconst", "lconst"}
    PROVE  \A t \in Normal(m, s, Truth) : RunFits(m, F, e, t)
<1> DEFINE i == m.code[s.pc]
           type == ConstantType(i)
           v == CASE i.op = "aconst_null" -> NullRef
                  [] i.op = "iconst" -> IntValue(i.n)
                  [] i.op = "lconst" -> LongValue
<1>1. Normal(m, s, Truth) = Yield(s, 0, {v})
  <2>1. CASE i.op = "aconst_null"
    BY <2>1 DEF Normal
  <2>2. CASE i.op = "iconst"
    BY <2>2 DEF Normal
  <2>3. CASE i.op = "lconst"
    BY <2>3 DEF Normal
  <2> QED BY <2>1, <2>2, <2>3
<1>2. StackEffect(m, s.pc, F[s.pc], Env(m)) = [pops |-> 0, pushes |-> <<Plain(type)>>]
  BY DEF StackEffect
<1>3. v \in RunValues(m) /\ Describes(type, v) /\ v.v # "raw"
  <2>1. CASE i.op = "aconst_null"
    BY <2>1, ConstantsDescribed DEF ConstantType
  <2>2. CASE i.op = "iconst"
    <3>1. i.n \in Ints
      BY <2>2, SceneFacts DEF Operands
    <3>2. v = IntValue(i.n) /\ type = IntegralForConstant(i.n)
      BY <2>2 DEF ConstantType
    <3> HIDE DEF v, type
    <3> QED BY <3>1, <3>2, ConstantsDescribed
  <2>3. CASE i.op = "lconst"
    BY <2>3, ConstantsDescribed DEF ConstantType
  <2> QED BY <2>1, <2>2, <2>3
<1> HIDE DEF type, v
<1>4. \A w \in {v} : Typed(m, Plain(type), w)
                        /\ Derived(Cells(F[s.pc], s.locals, s.stack), <<Plain(type), w>>)
  BY <1>3, PlainFits
<1>5. i.op \notin LoadOps \cup StoreOps \cup InvokeOps \cup {"iinc", "invokedynamic"} /\ ~EndsBlock(i.op)
  BY DEF EndsBlock
<1> QED BY <1>1, <1>2, <1>4, <1>5, YieldFits

LEMMA ArithmeticRuns ==
    ASSUME NEW m, NEW F, NEW e, NEW s, Scene(m, F, e, s),
           m.code[s.pc].op \in {"iadd", "i2b"}
    PROVE  \A t \in Normal(m, s, Truth) : RunFits(m, F, e, t)
<1> DEFINE i == m.code[s.pc]
           kind == IF i.op = "iadd" THEN "int" ELSE "byte"
           n == IF i.op = "iadd" THEN 2 ELSE 1
<1>1. Normal(m, s, Truth) \in {Yield(s, n, IntsOf(kind)), {Stuck(s)}}
  <2>1. CASE i.op = "iadd"
    BY <2>1 DEF Normal
  <2>2. CASE i.op = "i2b"
    BY <2>2 DEF Normal
  <2> QED BY <2>1, <2>2
<1>2. StackEffect(m, s.pc, F[s.pc], Env(m)) = [pops |-> n, pushes |-> <<Plain(Integral({kind}))>>]
  <2>1. CASE i.op = "iadd"
    BY <2>1 DEF StackEffect, BinaryResult, Int32
  <2>2. CASE i.op = "i2b"
    BY <2>2 DEF StackEffect, ConvertResult
  <2> QED BY <2>1, <2>2
<1>3. n \in Nat /\ kind \in SmallIntegrals
  BY DEF SmallIntegrals
<1>4. i.op \notin LoadOps \cup StoreOps \cup InvokeOps \cup {"iinc", "invokedynamic"} /\ ~EndsBlock(i.op)
  BY DEF EndsBlock
<1> HIDE DEF n, kind
<1>5. \A v \in IntsOf(kind) :
          Typed(m, Plain(Integral({kind})), v)
          /\ Derived(Cells(F[s.pc], s.locals, s.stack), <<Plain(Integral({kind})), v>>)
  BY <1>3, IntegersFit, PlainFits
<1>6. \A t \in Yield(s, n, IntsOf(kind)) : RunFits(m, F, e, t)
  BY <1>2, <1>3, <1>4, <1>5, YieldFits
<1> QED BY <1>1, <1>6, StuckFits

LEMMA PopsRun ==
    ASSUME NEW m, NEW F, NEW e, NEW s, Scene(m, F, e, s),
           m.code[s.pc].op \in {"pop", "putstatic"}
    PROVE  \A t \in Normal(m, s, Truth) : RunFits(m, F, e, t)
<1> DEFINE i == m.code[s.pc]
<1>1. Normal(m, s, Truth) \in {{Continue(s, 1, <<>>)}, {Stuck(s)}}
  BY DEF Normal
<1>2. StackEffect(m, s.pc, F[s.pc], Env(m)) = [pops |-> 1, pushes |-> <<>>]
  BY DEF StackEffect
<1>4. i.op \notin LoadOps \cup StoreOps \cup InvokeOps \cup {"iinc", "invokedynamic"} /\ ~EndsBlock(i.op)
  BY DEF EndsBlock
<1> QED BY <1>1, <1>2, <1>4, PopFits, StuckFits

LEMMA FieldReadsRun ==
    ASSUME NEW m, NEW F, NEW e, NEW s, Scene(m, F, e, s),
           m.code[s.pc].op = "getstatic"
    PROVE  \A t \in Normal(m, s, Truth) : RunFits(m, F, e, t)
<1> DEFINE i == m.code[s.pc]
           type == FieldType(i, Env(m))
<1>1. Normal(m, s, Truth) = Yield(s, 0, Reads(i, Truth))
  BY DEF Normal
<1>2. StackEffect(m, s.pc, F[s.pc], Env(m)) = [pops |-> 0, pushes |-> <<Plain(type)>>]
  BY DEF StackEffect
<1>3. i.op \notin LoadOps \cup StoreOps \cup InvokeOps \cup {"iinc", "invokedynamic"} /\ ~EndsBlock(i.op)
  BY DEF EndsBlock
<1>4. i.member # Unresolved
  <2>1. TransferDiagnostics(m, s.pc, F[s.pc], Env(m)) = {}
    BY SceneFacts
  <2> QED BY <2>1 DEF TransferDiagnostics
<1>5. i \in Instructions(m, {"getstatic"}) /\ m \in Methods
  BY SceneFacts DEF Instructions, Range
<1>6. ASSUME NEW v \in Reads(i, Truth)
      PROVE  Typed(m, Plain(type), v) /\ Derived(Cells(F[s.pc], s.locals, s.stack), <<Plain(type), v>>)
  <2>1. v \in ValuesOf(i.member.descriptor, 0)
    BY DEF Reads
  <2>2. 0 \in Places(m)
    BY SceneFacts, MethodsAssumption DEF Places
  <2>3. /\ v \in RunValues(m) /\ Describes(TypeOfDescriptor(i.member.descriptor), v)
        /\ v.v \notin {"raw", "rawThis", "address", "unset"}
    BY <2>1, <2>2, ValuesOfType
  <2>4. StaticFieldValue(Env(m), i.member) # None
        /\ ValueMatchesDescriptor(i.member.descriptor, StaticFieldValue(Env(m), i.member))
            => Describes(StaticFieldValue(Env(m), i.member), v)
    BY <1>4, <1>5, FieldsAreAsTold
  <2>5. Describes(type, v)
    BY <1>4, <2>3, <2>4 DEF FieldType
  <2> HIDE DEF type
  <2> QED BY <2>3, <2>5, PlainFits
<1> QED BY <1>1, <1>2, <1>3, <1>6, YieldFits

-----------------------------------------------------------------------------
(* Copies of what is on the stack and in the locals.                       *)

LEMMA PeekedFits ==
    ASSUME NEW m, NEW e, NEW f \in AllFrames, NEW s, FrameFits(m, e, f, s),
           NEW n \in 1..Len(f.stack)
    PROVE  /\ Typed(m, Peek(f, n), At(s, n))
           /\ Derived(Cells(f, s.locals, s.stack), <<Peek(f, n), At(s, n)>>)
           /\ At(s, n) \in RunValues(m)
<1> DEFINE P == Cells(f, s.locals, s.stack)
           p == <<Peek(f, n), At(s, n)>>
<1>1. p \in P /\ p[1] = Peek(f, n) /\ p[2] = At(s, n)
  BY PeekedPair
<1>2. Sound(m, e, P)
  BY DEF FrameFits
<1> HIDE DEF P, p
<1>3. Typed(m, p[1], p[2]) /\ Derived(P, p)
  BY <1>1, <1>2, HeldIsDerived
<1> QED BY <1>1, <1>3 DEF P, p, Typed

LEMMA EffectRuns ==
    ASSUME NEW m, NEW F, NEW e, NEW s, Scene(m, F, e, s), ~EndsBlock(m.code[s.pc].op),
           m.code[s.pc].op \notin LoadOps \cup StoreOps \cup InvokeOps \cup {"iinc", "invokedynamic"},
           NEW n \in Nat, NEW T, NEW slots, NEW values,
           StackEffect(m, s.pc, F[s.pc], Env(m)) = [pops |-> n, pushes |-> slots],
           PushesFit(m, Cells(F[s.pc], s.locals, s.stack), T, slots, values)
    PROVE  RunFits(m, F, e, Continue(s, n, values))
<1>1. n <= Len(F[s.pc].stack) /\ Transfer(m, s.pc, F[s.pc], Env(m)) = PushAll(Drop(F[s.pc], n), slots)
  BY EffectOf
<1>2. F[s.pc] \in AllFrames /\ FrameFits(m, e, F[s.pc], s) /\ s.status = "running"
  BY SceneFacts
<1>3. FrameFits(m, e, PushAll(Drop(F[s.pc], n), slots), Continue(s, n, values))
  BY <1>1, <1>2, EffectFits DEF Continue
<1>4. Continue(s, n, values).pc = s.pc + 1 /\ Continue(s, n, values).status = "running"
  BY <1>2, JumpGoes DEF Continue, FrameFits
<1> QED BY <1>1, <1>3, <1>4, FallsThrough

LEMMA PushesOfThree ==
    ASSUME NEW m, NEW P, NEW x, NEW a, NEW y, NEW b,
           Typed(m, x, a), Derived(P, <<x, a>>), a \in RunValues(m),
           Typed(m, y, b), Derived(P, <<y, b>>), b \in RunValues(m)
    PROVE  /\ PushesFit(m, P, {x, y}, <<x, y>>, <<a, b>>)
           /\ PushesFit(m, P, {x, y}, <<x, y, x>>, <<a, b, a>>)
<1>1. PushesFit(m, P, {x, y}, <<x, y>>, <<a, b>>)
  <2>1. /\ <<x, y>> \in Seq({x, y}) /\ <<a, b>> \in Seq(RunValues(m))
        /\ Len(<<x, y>>) = 2 /\ Len(<<a, b>>) = 2
    OBVIOUS
  <2>2. ASSUME NEW k \in 1..2
        PROVE  Typed(m, <<x, y>>[k], <<a, b>>[k]) /\ Derived(P, <<<<x, y>>[k], <<a, b>>[k]>>)
    <3>1. \/ <<x, y>>[k] = x /\ <<a, b>>[k] = a
          \/ <<x, y>>[k] = y /\ <<a, b>>[k] = b
      OBVIOUS
    <3> QED BY <3>1, Zenon
  <2> QED BY <2>1, <2>2 DEF PushesFit
<1>2. PushesFit(m, P, {x, y}, <<x, y, x>>, <<a, b, a>>)
  <2>1. /\ <<x, y, x>> \in Seq({x, y}) /\ <<a, b, a>> \in Seq(RunValues(m))
        /\ Len(<<x, y, x>>) = 3 /\ Len(<<a, b, a>>) = 3
    OBVIOUS
  <2>2. ASSUME NEW k \in 1..3
        PROVE  Typed(m, <<x, y, x>>[k], <<a, b, a>>[k])
               /\ Derived(P, <<<<x, y, x>>[k], <<a, b, a>>[k]>>)
    <3>1. \/ <<x, y, x>>[k] = x /\ <<a, b, a>>[k] = a
          \/ <<x, y, x>>[k] = y /\ <<a, b, a>>[k] = b
      OBVIOUS
    <3> QED BY <3>1, Zenon
  <2> QED BY <2>1, <2>2 DEF PushesFit
<1> QED BY <1>1, <1>2

LEMMA ShufflesRun ==
    ASSUME NEW m, NEW F, NEW e, NEW s, Scene(m, F, e, s), m.code[s.pc].op \in ShuffleOps
    PROVE  \A t \in Normal(m, s, Truth) : RunFits(m, F, e, t)
<1> DEFINE i == m.code[s.pc]
           f == F[s.pc]
           P == Cells(f, s.locals, s.stack)
           a == At(s, 1)
           b == At(s, 2)
           x == Peek(f, 1)
           y == Peek(f, 2)
<1>1. StackEffect(m, s.pc, f, Env(m)) = Shuffle(i.op, f)
  BY DEF StackEffect
<1>2. i.op \notin LoadOps \cup StoreOps \cup InvokeOps \cup {"iinc", "invokedynamic"} /\ ~EndsBlock(i.op)
  BY DEF EndsBlock
<1>3. f \in AllFrames /\ FrameFits(m, e, f, s) /\ Len(f.stack) \in Nat
  BY SceneFacts, FrameParts
<1>4. ASSUME NEW n \in Nat, n \in {1, 2}, NEW slots, Shuffle(i.op, f) = [pops |-> n, pushes |-> slots]
      PROVE  /\ Typed(m, x, a) /\ Derived(P, <<x, a>>) /\ a \in RunValues(m)
             /\ n = 2 => Typed(m, y, b) /\ Derived(P, <<y, b>>) /\ b \in RunValues(m)
  <2>1. n <= Len(f.stack)
    BY <1>1, <1>2, <1>4, EffectOf
  <2>2. 1 \in 1..Len(f.stack) /\ (n = 2 => 2 \in 1..Len(f.stack))
    BY <1>3, <1>4, <2>1
  <2> QED BY <1>3, <2>2, PeekedFits
<1>5. CASE i.op = "dup"
  <2>1. Normal(m, s, Truth) \in {{Continue(s, 1, <<a, a>>)}, {Stuck(s)}}
    BY <1>5 DEF Normal
  <2>2. Shuffle(i.op, f) = [pops |-> 1, pushes |-> <<x, x>>]
    BY <1>5 DEF Shuffle
  <2> HIDE DEF a, x, f, P
  <2>3. PushesFit(m, P, {x}, <<x, x>>, <<a, a>>)
    BY <1>4, <2>2 DEF PushesFit
  <2>4. RunFits(m, F, e, Continue(s, 1, <<a, a>>))
    BY <1>1, <1>2, <2>2, <2>3, EffectRuns DEF P, f
  <2> QED BY <2>1, <2>4, StuckFits
<1>6. CASE i.op = "swap"
  <2>1. Normal(m, s, Truth) \in {{Continue(s, 2, <<a, b>>)}, {Stuck(s)}}
    BY <1>6 DEF Normal
  <2>2. Shuffle(i.op, f) = [pops |-> 2, pushes |-> <<x, y>>]
    BY <1>6 DEF Shuffle
  <2> HIDE DEF a, b, x, y, f, P
  <2>3. PushesFit(m, P, {x, y}, <<x, y>>, <<a, b>>)
    BY <1>4, <2>2, PushesOfThree
  <2>4. RunFits(m, F, e, Continue(s, 2, <<a, b>>))
    BY <1>1, <1>2, <2>2, <2>3, EffectRuns DEF P, f
  <2> QED BY <2>1, <2>4, StuckFits
<1>7. CASE i.op = "dup_x1"
  <2>1. Normal(m, s, Truth) \in {{Continue(s, 2, <<a, b, a>>)}, {Stuck(s)}}
    BY <1>7 DEF Normal
  <2>2. Shuffle(i.op, f) = [pops |-> 2, pushes |-> <<x, y, x>>]
    BY <1>7 DEF Shuffle
  <2> HIDE DEF a, b, x, y, f, P
  <2>3. PushesFit(m, P, {x, y}, <<x, y, x>>, <<a, b, a>>)
    BY <1>4, <2>2, PushesOfThree
  <2>4. RunFits(m, F, e, Continue(s, 2, <<a, b, a>>))
    BY <1>1, <1>2, <2>2, <2>3, EffectRuns DEF P, f
  <2> QED BY <2>1, <2>4, StuckFits
<1>8. CASE i.op \notin {"dup", "swap", "dup_x1"}
  <2>1. Normal(m, s, Truth) = {Stuck(s)}
    BY <1>8 DEF Normal
  <2> QED BY <2>1, StuckFits
<1> QED BY <1>5, <1>6, <1>7, <1>8

LEMMA LocalFits ==
    ASSUME NEW m, NEW e, NEW f \in AllFrames, NEW s, FrameFits(m, e, f, s), NEW n \in Slots(m)
    PROVE  /\ Typed(m, LocalSlot(f, n), s.locals[n])
           /\ Derived(Cells(f, s.locals, s.stack), <<LocalSlot(f, n), s.locals[n]>>)
           /\ s.locals[n] \in RunValues(m)
<1> DEFINE P == Cells(f, s.locals, s.stack)
           p == <<LocalSlot(f, n), s.locals[n]>>
<1>1. p \in P /\ p[1] = LocalSlot(f, n) /\ p[2] = s.locals[n]
  BY LocalPair
<1>2. Sound(m, e, P)
  BY DEF FrameFits
<1> HIDE DEF P, p
<1>3. Typed(m, p[1], p[2]) /\ Derived(P, p)
  BY <1>1, <1>2, HeldIsDerived
<1> QED BY <1>1, <1>3 DEF P, p, Typed

LEMMA PushIsPushAll ==
    ASSUME NEW f \in AllFrames, NEW slot \in AllSlots
    PROVE  Push(f, slot) = PushAll(Drop(f, 0), <<slot>>)
<1>1. /\ f = [locals |-> f.locals, stack |-> f.stack]
      /\ f.stack \in Seq(AllSlots) /\ Len(f.stack) \in Nat
  BY FrameParts
<1>2. PushAll(Drop(f, 0), <<slot>>)
        = [locals |-> f.locals, stack |-> SubSeq(f.stack, 1, Len(f.stack) - 0) \o <<slot>>]
  <2>1. 0 \in Nat /\ 0 <= Len(f.stack)
    BY <1>1
  <2> QED BY <2>1, PushedAndDropped, Zenon
<1>3. Append(f.stack, slot) = SubSeq(f.stack, 1, Len(f.stack) - 0) \o <<slot>>
  <2>1. SubSeq(f.stack, 1, Len(f.stack) - 0) = f.stack
    BY <1>1
  <2>2. Append(f.stack, slot) = f.stack \o <<slot>>
    BY <1>1
  <2> QED BY <2>1, <2>2
<1> DEFINE a == Append(f.stack, slot)
<1>4. Push(f, slot) = [f EXCEPT !.stack = a]
  BY DEF Push
<1> HIDE DEF a
<1>5. Push(f, slot) = [locals |-> f.locals, stack |-> a]
  BY <1>1, <1>4
<1> QED BY <1>2, <1>3, <1>5 DEF a

LEMMA SlotRetyped ==
    ASSUME NEW slot \in AllSlots
    PROVE  [slot EXCEPT !.type = slot.type] = slot
BY DEF AllSlots, SlotsWith

LEMMA LoadsRun ==
    ASSUME NEW m, NEW F, NEW e, NEW s, Scene(m, F, e, s), m.code[s.pc].op \in LoadOps
    PROVE  \A t \in Normal(m, s, Truth) : RunFits(m, F, e, t)
<1> DEFINE i == m.code[s.pc]
           f == F[s.pc]
           slot == LocalSlot(f, i.local)
           v == s.locals[i.local]
<1>1. Normal(m, s, Truth) \in {Yield(s, 0, {v}), {Stuck(s)}}
  BY DEF Normal
<1>2. f \in AllFrames /\ FrameFits(m, e, f, s) /\ s.status = "running" /\ m.hints = {}
      /\ i.local \in Slots(m)
  BY SceneFacts, MethodsAssumption DEF Operands
<1>3. slot \in AllSlots
  BY <1>2, LocalPair
<1>4. Transfer(m, s.pc, f, Env(m)) = Push(f, slot)
  <2>1. Transfer(m, s.pc, f, Env(m)) = PushLocal(f, i.local, m.hints, s.pc)
    BY DEF Transfer, NamesNoMethod
  <2>2. RefineIntegral({}, i.local, s.pc, slot.type) = slot.type
    BY DEF RefineIntegral
  <2>3. PushLocal(f, i.local, {}, s.pc)
          = Push(f, [slot EXCEPT !.type = RefineIntegral({}, i.local, s.pc, slot.type)])
    BY DEF PushLocal
  <2>4. [slot EXCEPT !.type = slot.type] = slot
    BY <1>3, SlotRetyped
  <2> HIDE DEF slot, f, i
  <2> QED BY <1>2, <2>1, <2>2, <2>3, <2>4
<1>5. Typed(m, slot, v) /\ Derived(Cells(f, s.locals, s.stack), <<slot, v>>)
  BY <1>2, LocalFits
<1>6. FrameFits(m, e, Transfer(m, s.pc, f, Env(m)), Continue(s, 0, <<v>>))
  <2>1. 0 <= Len(f.stack)
    BY <1>2, FrameParts
  <2>2. FrameFits(m, e, PushAll(Drop(f, 0), <<slot>>), Continue(s, 0, <<v>>))
    BY <1>2, <1>5, <2>1, OnePushed DEF Continue
  <2> QED BY <1>2, <1>3, <1>4, <2>2, PushIsPushAll
<1>7. Continue(s, 0, <<v>>).pc = s.pc + 1 /\ Continue(s, 0, <<v>>).status = "running"
  BY <1>2, JumpGoes DEF Continue, FrameFits
<1>8. ~EndsBlock(i.op)
  BY DEF EndsBlock
<1>9. RunFits(m, F, e, Continue(s, 0, <<v>>))
  BY <1>6, <1>7, <1>8, FallsThrough
<1> QED BY <1>1, <1>9, StuckFits DEF Yield

-----------------------------------------------------------------------------
(* Casts, tests and new arrays.                                            *)

LEMMA DescribesUnfolds ==
    \A type, v : DescribesOne(Supertypes, type, v) => Describes(type, v)
BY DEF Describes, DescribesIn

LEMMA PeekedIsSame ==
    ASSUME NEW m, NEW e, NEW f \in AllFrames, NEW s, FrameFits(m, e, f, s),
           NEW n \in 1..Len(f.stack), At(s, n).v \notin {"int", "unset"},
           Peek(f, n).origin # None,
           NEW p \in Cells(f, s.locals, s.stack), p[1].origin = Peek(f, n).origin,
           p[2].v \notin {"int", "unset"}
    PROVE  p[2] = At(s, n)
<1> DEFINE P == Cells(f, s.locals, s.stack)
           q == <<Peek(f, n), At(s, n)>>
<1>1. q \in P /\ q[1] = Peek(f, n) /\ q[2] = At(s, n)
  BY PeekedPair
<1>2. Sound(m, e, P)
  BY DEF FrameFits
<1> HIDE DEF P, q
<1>3. SameOrigin(p, q)
  BY <1>1, UnsetFits DEF SameOrigin
<1>4. p \in P
  BY DEF P
<1> QED BY <1>1, <1>2, <1>3, <1>4 DEF Sound

LEMMA TestsRun ==
    ASSUME NEW m, NEW F, NEW e, NEW s, Scene(m, F, e, s), m.code[s.pc].op = "instanceof"
    PROVE  \A t \in Normal(m, s, Truth) : RunFits(m, F, e, t)
<1> DEFINE i == m.code[s.pc]
           f == F[s.pc]
           P == Cells(f, s.locals, s.stack)
           a == At(s, 1)
           top == Peek(f, 1)
           fact == IF top.origin = None \/ i.type = Unknown THEN None
                   ELSE [origin |-> top.origin, reference |-> i.type]
           slot == [Plain(Boolean) EXCEPT !.fact = fact]
           v == IntValue(IF InstanceOf(i.type, a) THEN 1 ELSE 0)
<1>1. /\ Ready(a) => Normal(m, s, Truth) = Yield(s, 1, {v})
      /\ ~Ready(a) => Normal(m, s, Truth) = {Stuck(s)}
  BY DEF Normal
<1>2. StackEffect(m, s.pc, f, Env(m)) = [pops |-> 1, pushes |-> <<slot>>]
  BY DEF StackEffect
<1>3. i.op \notin LoadOps \cup StoreOps \cup InvokeOps \cup {"iinc", "invokedynamic"} /\ ~EndsBlock(i.op)
  BY DEF EndsBlock
<1>4. f \in AllFrames /\ FrameFits(m, e, f, s) /\ Len(f.stack) \in Nat
  BY SceneFacts, FrameParts
<1>5. 1 \in 1..Len(f.stack)
  <2>1. 1 <= Len(f.stack)
    BY <1>2, <1>3, EffectOf
  <2> QED BY <1>4, <2>1
<1>6. /\ slot.type = Boolean /\ slot.origin = None /\ slot.fact = fact
      /\ slot.targets = UnknownTargets
  BY DEF Plain, Slot
<1>7. v \in RunValues(m) /\ v.v = "int" /\ Describes(Boolean, v)
      /\ (v # IntValue(0) => InstanceOf(i.type, a))
  <2>1. \A n \in {0, 1} : IntValue(n) \in IntsOf("boolean")
    BY ClassesAssumption DEF IntsOf, InRange
  <2>2. \A n \in {0, 1} : /\ IntValue(n) \in RunValues(m) /\ IntValue(n).v = "int"
                          /\ Describes(Integral({"boolean"}), IntValue(n))
    BY <2>1, IntegersFit DEF SmallIntegrals
  <2> HIDE DEF i, a
  <2> QED BY <2>1, <2>2 DEF Boolean
<1>8. CASE Ready(a)
  <2>1. a.v \notin {"int", "unset"} /\ a # Unset
    BY <1>8, UnsetFits DEF Ready
  <2>2. Typed(m, slot, v)
    <3> HIDE DEF slot, v
    <3> QED BY <1>6, <1>7 DEF Typed, SlotDescribes, UnknownTargets, Describes
  <2>3. ASSUME fact # None PROVE fact.origin # None /\ Justified(P, fact, v)
    <3>1. fact = [origin |-> top.origin, reference |-> i.type] /\ top.origin # None
      BY <2>3
    <3>2. ASSUME NEW p \in P, p[1].origin = top.origin, p[2].v \notin {"int", "unset"}
          PROVE  p[2] = a
      BY <1>4, <1>5, <2>1, <3>1, <3>2, PeekedIsSame
    <3>3. fact.origin = top.origin /\ fact.reference = i.type
      BY <3>1
    <3> HIDE DEF fact, v, P, top, a, i
    <3> QED BY <1>7, <3>1, <3>2, <3>3 DEF Justified
  <2>4. Derived(P, <<slot, v>>)
    <3> HIDE DEF slot, v, fact, P
    <3> QED BY <1>6, <2>3 DEF Derived
  <2>5. \A t \in Yield(s, 1, {v}) : RunFits(m, F, e, t)
    <3> HIDE DEF slot, v
    <3>1. \A w \in {v} : Typed(m, slot, w) /\ Derived(P, <<slot, w>>)
      BY <2>2, <2>4
    <3> QED BY <1>2, <1>3, <3>1, YieldFits
  <2> QED BY <1>1, <1>8, <2>5
<1> QED BY <1>1, <1>8, StuckFits

LEMMA CastsRun ==
    ASSUME NEW m, NEW F, NEW e, NEW s, Scene(m, F, e, s), m.code[s.pc].op = "checkcast"
    PROVE  \A t \in Normal(m, s, Truth) : RunFits(m, F, e, t)
<1> DEFINE i == m.code[s.pc]
           f == F[s.pc]
           P == Cells(f, s.locals, s.stack)
           a == At(s, 1)
           top == Peek(f, 1)
           type == IF top.type = Null THEN Null ELSE i.type
           slot == [top EXCEPT !.type = type]
           passed == {v \in {a} : v = NullRef \/ InstanceOf(i.type, v)}
<1>1. /\ Ready(a) => Normal(m, s, Truth) = Yield(s, 1, passed)
      /\ ~Ready(a) => Normal(m, s, Truth) = {Stuck(s)}
  BY DEF Normal
<1>2. StackEffect(m, s.pc, f, Env(m)) = [pops |-> 1, pushes |-> <<slot>>]
  BY DEF StackEffect
<1>3. i.op \notin LoadOps \cup StoreOps \cup InvokeOps \cup {"iinc", "invokedynamic"} /\ ~EndsBlock(i.op)
  BY DEF EndsBlock
<1>4. f \in AllFrames /\ FrameFits(m, e, f, s) /\ Len(f.stack) \in Nat
  BY SceneFacts, FrameParts
<1>5. 1 \in 1..Len(f.stack)
  <2>1. 1 <= Len(f.stack)
    BY <1>2, <1>3, EffectOf
  <2> QED BY <1>4, <2>1
<1>6. Typed(m, top, a) /\ Derived(P, <<top, a>>) /\ top \in AllSlots
  BY <1>4, <1>5, PeekedFits, PeekIsTop
<1>7. slot.type = type /\ slot.origin = top.origin /\ slot.fact = top.fact
  BY <1>6 DEF AllSlots, SlotsWith
<1>8. ASSUME Ready(a), NEW v \in passed PROVE Typed(m, slot, v) /\ Derived(P, <<slot, v>>)
  <2>1. v = a /\ (v = NullRef \/ InstanceOf(i.type, v))
    OBVIOUS
  <2>2. Describes(type, v)
    <3>1. CASE top.type = Null
      <4>1. Describes(top.type, v)
        BY <1>6, <2>1 DEF Typed, SlotDescribes, Describes
      <4> QED BY <3>1, <4>1
    <3>2. CASE top.type # Null
      <4>1. type = i.type
        BY <3>2
      <4>2. i.type \in KnownReferences \cup {Unknown}
        BY SceneFacts DEF Operands
      <4>3. IsReference(i.type) /\ (i.type.k \in {"exact", "array"} \/ i.type = Unknown)
        BY <4>2, KnownReference DEF IsReference, Unknown
      <4> HIDE DEF type, i, a
      <4> QED BY <1>8, <2>1, <4>1, <4>3 DEF Describes, DescribesIn, DescribesOne, InstanceOf
    <3> QED BY <3>1, <3>2
  <2>3. v \in RunValues(m) /\ v.v \notin {"raw", "address"}
    BY <1>6, <1>8, <2>1 DEF Typed, Ready
  <2>4. Typed(m, slot, v)
    <3> HIDE DEF slot, type
    <3> QED BY <1>7, <2>2, <2>3 DEF Typed, SlotDescribes, Describes
  <2>5. Derived(P, <<slot, v>>)
    <3> HIDE DEF slot, P, top, a
    <3> QED BY <1>6, <1>7, <2>1 DEF Derived
  <2> QED BY <2>4, <2>5
<1>9. ASSUME Ready(a) PROVE \A t \in Yield(s, 1, passed) : RunFits(m, F, e, t)
  <2> HIDE DEF slot, passed
  <2> QED BY <1>2, <1>3, <1>8, <1>9, YieldFits
<1> QED BY <1>1, <1>9, StuckFits

LEMMA NewArraysRun ==
    ASSUME NEW m, NEW F, NEW e, NEW s, Scene(m, F, e, s), m.code[s.pc].op = "newarray"
    PROVE  \A t \in Normal(m, s, Truth) : RunFits(m, F, e, t)
<1> DEFINE i == m.code[s.pc]
           type == NewArrayType(i.element)
           d == ArrayOf(i.element)
<1>1. Normal(m, s, Truth) \in {Yield(s, 1, ArraysOf({d}, s.pc)), {Stuck(s)}}
  BY DEF Normal
<1>2. StackEffect(m, s.pc, F[s.pc], Env(m)) = [pops |-> 1, pushes |-> <<Plain(type)>>]
  BY DEF StackEffect
<1>3. i.op \notin LoadOps \cup StoreOps \cup InvokeOps \cup {"iinc", "invokedynamic"} /\ ~EndsBlock(i.op)
  BY DEF EndsBlock
<1>4. d \in Arrays /\ i.element # None /\ s.pc \in Places(m)
  <2>1. Operands(m, i) /\ s.pc \in 1..Len(m.code) /\ Len(m.code) \in Nat /\ m.maxLocals \in Nat
    BY SceneFacts, MethodsAssumption
  <2> QED BY <2>1 DEF Operands, Places
<1>5. type \in {Unknown, ArrayRef(d)}
  BY DEF NewArrayType
<1>6. ASSUME NEW v \in ArraysOf({d}, s.pc)
      PROVE  v \in RunValues(m) /\ Describes(type, v) /\ v.v # "raw"
  <2> HIDE DEF d, type, i
  <2>1. PICK tag \in Identities(s.pc) : v = ArrayObj(d, tag)
    BY DEF ArraysOf
  <2>2. v \in RunValues(m)
    BY <1>4 DEF RunValues, ArraysOf
  <2>3. v.v = "array" /\ v.d = d
    BY <2>1 DEF ArrayObj
  <2>4. Describes(Unknown, v) /\ Describes(ArrayRef(d), v)
    BY <2>3 DEF Describes, DescribesIn, DescribesOne, Ready, InstanceIn, IsSubtypeArray, ArrayRef
  <2> QED BY <1>5, <2>2, <2>3, <2>4
<1>7. \A v \in ArraysOf({d}, s.pc) :
          Typed(m, Plain(type), v) /\ Derived(Cells(F[s.pc], s.locals, s.stack), <<Plain(type), v>>)
  <2> HIDE DEF d, type
  <2> QED BY <1>6, PlainFits
<1>8. \A t \in Yield(s, 1, ArraysOf({d}, s.pc)) : RunFits(m, F, e, t)
  <2> HIDE DEF d, type
  <2> QED BY <1>2, <1>3, <1>7, YieldFits
<1> QED BY <1>1, <1>8, StuckFits

-----------------------------------------------------------------------------
(* Instructions that change the locals.                                    *)

(* Each slot of the frame, with what the machine has there, is in P or new.*)
Fits(m, P, slot, v) == Typed(m, slot, v) /\ Derived(P, <<slot, v>>)

LEMMA CellwiseFits ==
    ASSUME NEW m, NEW e, NEW P, Sound(m, e, P), NEW g, NEW t, Machine(m, t),
           Len(g.stack) = Len(t.stack), DOMAIN g.stack = DOMAIN t.stack,
           \A n \in Slots(m) : Fits(m, P, LocalSlot(g, n), t.locals[n]),
           \A n \in DOMAIN t.stack : Fits(m, P, g.stack[n], t.stack[n])
    PROVE  FrameFits(m, e, g, t)
<1> DEFINE Q == Cells(g, t.locals, t.stack)
<1>1. DOMAIN t.locals = Slots(m)
  BY DEF Machine
<1>2. ASSUME NEW q \in Q PROVE Typed(m, q[1], q[2]) /\ Derived(P, q)
  <2>1. CASE q \in {<<LocalSlot(g, n), t.locals[n]>> : n \in DOMAIN t.locals}
    <3>1. PICK n \in Slots(m) : q = <<LocalSlot(g, n), t.locals[n]>>
      BY <1>1, <2>1
    <3>2. q[1] = LocalSlot(g, n) /\ q[2] = t.locals[n]
      BY <3>1
    <3> QED BY <3>1, <3>2 DEF Fits
  <2>2. CASE q \in {<<g.stack[n], t.stack[n]>> : n \in DOMAIN t.stack}
    <3>1. PICK n \in DOMAIN t.stack : q = <<g.stack[n], t.stack[n]>>
      BY <2>2
    <3>2. q[1] = g.stack[n] /\ q[2] = t.stack[n]
      BY <3>1
    <3> QED BY <3>1, <3>2 DEF Fits
  <2> QED BY <2>1, <2>2 DEF Cells
<1>3. Sound(m, e, Q)
  <2> HIDE DEF Q
  <2> QED BY <1>2, DerivedIsSound
<1> QED BY <1>3 DEF FrameFits

LEMMA UnsetIsFit == \A m, P, slot : Fits(m, P, slot, Unset)
BY UnsetFits DEF Fits, Derived

LEMMA KnownIsFit ==
    ASSUME NEW m, NEW e, NEW P, Sound(m, e, P), NEW slot, NEW v, <<slot, v>> \in P
    PROVE  Fits(m, P, slot, v)
<1> DEFINE p == <<slot, v>>
<1>1. p[1] = slot /\ p[2] = v /\ p \in P
  OBVIOUS
<1> HIDE DEF p
<1>2. Typed(m, p[1], p[2]) /\ Derived(P, p)
  BY <1>1, HeldIsDerived
<1> QED BY <1>1, <1>2 DEF Fits, p

LEMMA CellsFit ==
    ASSUME NEW m, NEW e, NEW f, NEW s, FrameFits(m, e, f, s),
           NEW P, Sound(m, e, P), Cells(f, s.locals, s.stack) \subseteq P
    PROVE  /\ \A n \in Slots(m) : Fits(m, P, LocalSlot(f, n), s.locals[n])
           /\ \A n \in DOMAIN s.stack : Fits(m, P, f.stack[n], s.stack[n])
<1>1. DOMAIN s.locals = Slots(m)
  BY DEF FrameFits, Machine
<1>2. \A n \in Slots(m) : <<LocalSlot(f, n), s.locals[n]>> \in P
  BY <1>1 DEF Cells
<1>3. \A n \in DOMAIN s.stack : <<f.stack[n], s.stack[n]>> \in P
  BY DEF Cells
<1> QED BY <1>2, <1>3, KnownIsFit

Leaves(m, f, s, n, K, d) ==
    LET N == 1..(Len(f.stack) - n)
    IN  /\ K \in Seq(RunValues(m)) /\ d.stack \in Seq(AllSlots)
        /\ DOMAIN K = N /\ DOMAIN d.stack = N /\ Len(K) = Len(d.stack)
        /\ \A k \in N : k \in DOMAIN s.stack /\ K[k] = s.stack[k] /\ d.stack[k] = f.stack[k]
        /\ d.locals = f.locals

LEMMA StackLeft ==
    ASSUME NEW m, NEW e, NEW f \in AllFrames, NEW s, FrameFits(m, e, f, s),
           NEW n \in Nat, n <= Len(f.stack)
    PROVE  Leaves(m, f, s, n, Pops(s, n) \o <<>>, Drop(f, n))
<1> DEFINE K == Pops(s, n) \o <<>>
           G == Drop(f, n).stack
<1>1. /\ s.stack \in Seq(RunValues(m)) /\ Len(f.stack) = Len(s.stack)
      /\ f.stack \in Seq(AllSlots) /\ Len(f.stack) \in Nat /\ n \in 0..Len(s.stack)
  BY FrameParts DEF FrameFits, Machine
<1>2. Spliced(RunValues(m), RunValues(m), s.stack, n, <<>>, K)
  <2>1. <<>> \in Seq(RunValues(m))
    OBVIOUS
  <2> QED BY <1>1, <2>1, PoppedAndPushed DEF Pops
<1>3. Drop(f, n) = [locals |-> f.locals, stack |-> SubSeq(f.stack, 1, Len(f.stack) - n)]
  BY PushedAndDropped
<1>4. G = SubSeq(f.stack, 1, Len(f.stack) - n) /\ Drop(f, n).locals = f.locals
  BY <1>3
<1>5. /\ G \in Seq(AllSlots) /\ Len(G) = Len(f.stack) - n
      /\ \A k \in 1..(Len(f.stack) - n) : G[k] = f.stack[k]
  <2> HIDE DEF G
  <2> QED BY <1>1, <1>4
<1>6. /\ K \in Seq(RunValues(m)) /\ Len(K) = Len(s.stack) - n
      /\ \A k \in 1..(Len(s.stack) - n) : K[k] = s.stack[k]
  <2> HIDE DEF K
  <2>1. RunValues(m) \cup RunValues(m) = RunValues(m) /\ Len(<<>>) = 0
    OBVIOUS
  <2> QED BY <1>1, <1>2, <2>1 DEF Spliced
<1> HIDE DEF K, G
<1>7. DOMAIN K = 1..(Len(f.stack) - n) /\ DOMAIN G = 1..(Len(f.stack) - n)
  BY <1>1, <1>5, <1>6
<1>8. \A k \in 1..(Len(f.stack) - n) : k \in DOMAIN s.stack
  BY <1>1
<1> QED BY <1>1, <1>4, <1>5, <1>6, <1>7, <1>8, Zenon DEF K, G, Leaves

LocalIsSet(f, local, slot, g) ==
    /\ g.stack = f.stack
    /\ \A n \in Nat :
          LocalSlot(g, n) = IF n = local THEN [slot EXCEPT !.fact = None]
                            ELSE IF IsCategoryTwo(slot.type) /\ n = local + 1 THEN EmptySlot
                            ELSE LocalSlot(f, n)

LEMMA SetLocalSlots ==
    ASSUME NEW f, f.locals \in Seq(AllSlots), f = [locals |-> f.locals, stack |-> f.stack],
           NEW local \in Nat, NEW slot
    PROVE  LocalIsSet(f, local, slot, SetLocal(f, local, slot))
<1> DEFINE wide == IsCategoryTwo(slot.type)
           needed == local + (IF wide THEN 2 ELSE 1)
           length == IF Len(f.locals) < needed THEN needed ELSE Len(f.locals)
           l == [i \in 1..length |->
                   IF i = local + 1 THEN [slot EXCEPT !.fact = None]
                   ELSE IF wide /\ i = local + 2 THEN EmptySlot
                   ELSE Resize(f.locals, length)[i]]
           g == SetLocal(f, local, slot)
<1>1. g = [f EXCEPT !.locals = l]
  BY DEF SetLocal
<1>2. Len(f.locals) \in Nat /\ DOMAIN f.locals = 1..Len(f.locals)
  OBVIOUS
<1>3. /\ length \in Nat /\ length >= Len(f.locals) /\ length >= local + 1
      /\ wide => length >= local + 2
  <2> HIDE DEF wide
  <2> QED BY <1>2
<1>4. g.locals = l /\ g.stack = f.stack
  <2> HIDE DEF l, g
  <2> QED BY <1>1
<1>5. DOMAIN l = 1..length
  OBVIOUS
<1>6. ASSUME NEW n \in Nat
      PROVE LocalSlot(g, n) = IF n = local THEN [slot EXCEPT !.fact = None]
                              ELSE IF wide /\ n = local + 1 THEN EmptySlot
                              ELSE LocalSlot(f, n)
  <2> HIDE DEF length
  <2>1. CASE n + 1 \in 1..length
    <3>1. LocalSlot(g, n) = l[n + 1]
      <4> HIDE DEF g, l
      <4> QED BY <1>4, <1>5, <2>1 DEF LocalSlot
    <3>2. l[n + 1] = IF n + 1 = local + 1 THEN [slot EXCEPT !.fact = None]
                     ELSE IF wide /\ n + 1 = local + 2 THEN EmptySlot
                     ELSE Resize(f.locals, length)[n + 1]
      BY <2>1
    <3>3. Resize(f.locals, length)[n + 1] = LocalSlot(f, n)
      BY <1>2, <1>3, <2>1 DEF Resize, LocalSlot
    <3>4. (n + 1 = local + 1 <=> n = local) /\ (n + 1 = local + 2 <=> n = local + 1)
      OBVIOUS
    <3> HIDE DEF g, l, wide
    <3> QED BY <3>1, <3>2, <3>3, <3>4
  <2>2. CASE n + 1 \notin 1..length
    <3>1. n # local /\ ~(wide /\ n = local + 1) /\ n + 1 \notin DOMAIN f.locals
      <4> HIDE DEF wide
      <4> QED BY <1>2, <1>3, <2>2
    <3>2. LocalSlot(g, n) = EmptySlot
      <4> HIDE DEF g, l
      <4> QED BY <1>4, <1>5, <2>2 DEF LocalSlot
    <3>3. LocalSlot(f, n) = EmptySlot
      BY <3>1 DEF LocalSlot
    <3> HIDE DEF wide, g
    <3> QED BY <3>1, <3>2, <3>3
  <2> QED BY <2>1, <2>2
<1> HIDE DEF g, wide
<1> QED BY <1>4, <1>6 DEF g, wide, LocalIsSet

LEMMA LocalsReplaced ==
    ASSUME NEW m, NEW s, Machine(m, s), NEW l \in [Slots(m) -> RunValues(m)]
    PROVE  LET t == [s EXCEPT !.locals = l]
           IN  /\ Machine(m, t) /\ t.pc = s.pc /\ t.stack = s.stack /\ t.locals = l
               /\ t.status = s.status /\ t.result = s.result
<1> DEFINE t == [s EXCEPT !.locals = l]
<1>1. DOMAIN s = {"pc", "locals", "stack", "status", "result"} /\ s.stack \in Seq(RunValues(m))
  BY DEF Machine
<1>2. t = [pc |-> s.pc, locals |-> l, stack |-> s.stack, status |-> s.status, result |-> s.result]
  BY <1>1
<1> HIDE DEF t
<1>3. /\ t.pc = s.pc /\ t.stack = s.stack /\ t.locals = l
      /\ t.status = s.status /\ t.result = s.result
  BY <1>2
<1>4. t = [pc |-> t.pc, locals |-> t.locals, stack |-> t.stack, status |-> t.status, result |-> t.result]
  BY <1>2, <1>3
<1> QED BY <1>1, <1>3, <1>4 DEF Machine, t

(* The machine goes on behind the instruction with other locals.           *)
GoesTo(m, s, u, n, t) ==
    /\ Machine(m, t) /\ t.locals = u.locals /\ t.stack = Pops(s, n) \o <<>>
    /\ t.pc = s.pc + 1 /\ t.status = s.status

LEMMA GoesOn ==
    ASSUME NEW m, NEW e, NEW f \in AllFrames, NEW s, FrameFits(m, e, f, s),
           NEW u, Machine(m, u), u.stack = s.stack, u.pc = s.pc, u.status = s.status,
           NEW n \in Nat, n <= Len(f.stack)
    PROVE  GoesTo(m, s, u, n, Continue(u, n, <<>>))
<1> DEFINE K == Pops(s, n) \o <<>>
           t == Continue(u, n, <<>>)
<1>1. K \in Seq(RunValues(m))
  <2>1. Leaves(m, f, s, n, K, Drop(f, n))
    BY StackLeft
  <2> HIDE DEF K
  <2> QED BY <2>1 DEF Leaves
<1>2. t = Jump(u, s.pc + 1, K)
  BY DEF Continue, Pops
<1> HIDE DEF K, t
<1>3. t = [pc |-> s.pc + 1, locals |-> u.locals, stack |-> K, status |-> u.status, result |-> u.result]
  BY <1>2, JumpParts
<1>4. u.locals \in [Slots(m) -> RunValues(m)]
  BY DEF Machine
<1>5. /\ t.pc = s.pc + 1 /\ t.stack = K /\ t.locals = u.locals
      /\ t.status = s.status /\ t.result = u.result
  BY <1>3
<1>6. t = [pc |-> t.pc, locals |-> t.locals, stack |-> t.stack, status |-> t.status, result |-> t.result]
  BY <1>3, <1>5
<1> QED BY <1>1, <1>4, <1>5, <1>6 DEF Machine, K, t, GoesTo

LEMMA StoreToParts ==
    ASSUME NEW m, NEW s, Machine(m, s), NEW local, NEW v \in RunValues(m)
    PROVE  LET u == StoreTo(s, local, v)
           IN  /\ Machine(m, u) /\ u.pc = s.pc /\ u.stack = s.stack /\ u.status = s.status
               /\ \A n \in Slots(m) :
                     u.locals[n] = IF n = local THEN v
                                   ELSE IF n = local + 1 /\ v = LongValue THEN Unset
                                   ELSE IF n = local - 1 /\ s.locals[n] = LongValue THEN Unset
                                   ELSE s.locals[n]
<1> DEFINE l == [n \in DOMAIN s.locals |->
                    IF n = local THEN v
                    ELSE IF n = local + 1 /\ v = LongValue THEN Unset
                    ELSE IF n = local - 1 /\ s.locals[n] = LongValue THEN Unset
                    ELSE s.locals[n]]
           u == StoreTo(s, local, v)
<1>1. u = [s EXCEPT !.locals = l]
  BY DEF StoreTo
<1>2. s.locals \in [Slots(m) -> RunValues(m)]
  BY DEF Machine
<1>3. l \in [Slots(m) -> RunValues(m)]
  BY <1>2, UnsetFits
<1>4. \A n \in Slots(m) :
         l[n] = IF n = local THEN v
                ELSE IF n = local + 1 /\ v = LongValue THEN Unset
                ELSE IF n = local - 1 /\ s.locals[n] = LongValue THEN Unset
                ELSE s.locals[n]
  BY <1>2
<1> HIDE DEF l, u
<1>5. Machine(m, u) /\ u.pc = s.pc /\ u.stack = s.stack /\ u.locals = l /\ u.status = s.status
  BY <1>1, <1>3, LocalsReplaced
<1> QED BY <1>4, <1>5 DEF u

Stored(m, e, f, s, local, n, slot, v) ==
    LET t == Continue(StoreTo(s, local, v), n, <<>>)
    IN  /\ FrameFits(m, e, SetLocal(Drop(f, n), local, slot), t)
        /\ t.pc = s.pc + 1 /\ t.status = s.status

LEMMA StoreFits ==
    ASSUME NEW m, NEW e, NEW f \in AllFrames, NEW s, FrameFits(m, e, f, s), m.maxLocals \in Nat,
           NEW local \in Slots(m), NEW n \in Nat, n <= Len(f.stack), NEW slot, NEW v,
           NEW P, Sound(m, e, P), Cells(f, s.locals, s.stack) \subseteq P,
           Fits(m, P, [slot EXCEPT !.fact = None], v),
           IsCategoryTwo(slot.type) => v = LongValue
    PROVE  Stored(m, e, f, s, local, n, slot, v)
<1> DEFINE d == Drop(f, n)
           g == SetLocal(d, local, slot)
           u == StoreTo(s, local, v)
           t == Continue(u, n, <<>>)
           K == Pops(s, n) \o <<>>
<1>1. Machine(m, s) /\ v \in RunValues(m) /\ Slots(m) \subseteq Nat
  BY DEF FrameFits, Fits, Typed, Slots
<1>2. /\ Machine(m, u) /\ u.pc = s.pc /\ u.stack = s.stack /\ u.status = s.status
      /\ \A k \in Slots(m) :
            u.locals[k] = IF k = local THEN v
                          ELSE IF k = local + 1 /\ v = LongValue THEN Unset
                          ELSE IF k = local - 1 /\ s.locals[k] = LongValue THEN Unset
                          ELSE s.locals[k]
  BY <1>1, StoreToParts
<1> HIDE DEF u
<1>3. /\ Machine(m, t) /\ t.locals = u.locals /\ t.stack = K
      /\ t.pc = s.pc + 1 /\ t.status = s.status
  <2>1. GoesTo(m, s, u, n, t)
    BY <1>2, GoesOn
  <2> HIDE DEF t
  <2> QED BY <2>1 DEF GoesTo
<1> HIDE DEF t
<1>4. d.locals = f.locals /\ d = [locals |-> d.locals, stack |-> d.stack] /\ d.locals \in Seq(AllSlots)
  <2>1. d = [locals |-> f.locals, stack |-> SubSeq(f.stack, 1, Len(f.stack) - n)]
    BY PushedAndDropped
  <2> DEFINE r == SubSeq(f.stack, 1, Len(f.stack) - n)
  <2> HIDE DEF d, r
  <2> QED BY <2>1, FrameParts DEF r
<1>5. /\ g.stack = d.stack
      /\ \A k \in Nat :
            LocalSlot(g, k) = IF k = local THEN [slot EXCEPT !.fact = None]
                              ELSE IF IsCategoryTwo(slot.type) /\ k = local + 1 THEN EmptySlot
                              ELSE LocalSlot(d, k)
  <2> HIDE DEF d
  <2>1. LocalIsSet(d, local, slot, g)
    BY <1>1, <1>4, SetLocalSlots
  <2> HIDE DEF g
  <2> QED BY <2>1 DEF LocalIsSet
<1>6. \A k : LocalSlot(d, k) = LocalSlot(f, k)
  BY <1>4 DEF LocalSlot
<1>7. /\ DOMAIN K = DOMAIN d.stack /\ Len(K) = Len(d.stack)
      /\ \A k \in DOMAIN K : k \in DOMAIN s.stack /\ K[k] = s.stack[k] /\ d.stack[k] = f.stack[k]
  <2>1. Leaves(m, f, s, n, K, d)
    BY StackLeft
  <2> HIDE DEF K, d
  <2> QED BY <2>1 DEF Leaves
<1>8. /\ \A k \in Slots(m) : Fits(m, P, LocalSlot(f, k), s.locals[k])
      /\ \A k \in DOMAIN s.stack : Fits(m, P, f.stack[k], s.stack[k])
  BY CellsFit
<1> HIDE DEF d, g, K
<1>9. \A k \in Slots(m) : Fits(m, P, LocalSlot(g, k), t.locals[k])
  <2> SUFFICES ASSUME NEW k \in Slots(m) PROVE Fits(m, P, LocalSlot(g, k), u.locals[k])
    BY <1>3
  <2>1. \/ LocalSlot(g, k) = [slot EXCEPT !.fact = None] /\ u.locals[k] = v
        \/ u.locals[k] = Unset
        \/ LocalSlot(g, k) = LocalSlot(f, k) /\ u.locals[k] = s.locals[k]
    BY <1>1, <1>2, <1>5, <1>6
  <2> QED BY <1>8, <2>1, UnsetIsFit
<1>10. \A k \in DOMAIN t.stack : Fits(m, P, g.stack[k], t.stack[k])
  BY <1>3, <1>5, <1>7, <1>8
<1>11. FrameFits(m, e, g, t)
  BY <1>3, <1>5, <1>7, <1>9, <1>10, CellwiseFits
<1> QED BY <1>3, <1>11 DEF g, d, t, u, Stored

LEMMA EntryIsLow ==
    ASSUME NEW m, NEW F, NEW e, NEW s, Scene(m, F, e, s), s.pc = FirstOffset
    PROVE  Len(F[s.pc].stack) = 0
<1>1. Admits(F[s.pc], EntryFrame(m))
  BY SceneFacts DEF Closed, AdmitsAt
<1>2. EntryFrame(m).stack = <<>>
  BY DEF EntryFrame
<1>3. Len(<<>>) = 0
  OBVIOUS
<1> QED BY <1>1, <1>2, <1>3 DEF Admits, HeightMismatch

LEMMA WideIsLong ==
    ASSUME NEW type, NEW v, Describes(type, v), v # Unset, IsCategoryTwo(type)
    PROVE  v = LongValue
BY DEF Describes, DescribesIn, DescribesOne, IsCategoryTwo, IsReference, IsIntegral,
       Conflict, Unknown, Long, ReturnAddress

(* The value gets the origin of the instruction, which nothing else has.   *)
LEMMA NewOriginFits ==
    ASSUME NEW m, NEW F, NEW e, NEW s, Scene(m, F, e, s),
           NEW slot, NEW v, Typed(m, slot, v), OriginFits(m, e, slot, v), slot.fact = None,
           slot.origin \in OriginGiven(m, s.pc),
           NEW f, FrameFits(m, e, F[s.pc], s), NEW P, Sound(m, e, P),
           \A p \in P : p[2] # Unset => p \in Cells(F[s.pc], s.locals, s.stack),
           \A p \in P : p[2] = Unset => \E q \in Cells(F[s.pc], s.locals, s.stack) : p[1] = q[1]
    PROVE  Sound(m, e, P \cup {<<slot, v>>}) /\ Fits(m, P \cup {<<slot, v>>}, slot, v)
<1>1. OriginsAreNew(m, F[s.pc], s.pc)
  BY SceneFacts
<1>2. DOMAIN s.locals = Slots(m) /\ DOMAIN s.stack = DOMAIN F[s.pc].stack
  BY DEF FrameFits, Machine
<1>3. ASSUME NEW p \in Cells(F[s.pc], s.locals, s.stack) PROVE slot.origin \notin OriginsOf(p[1])
  <2>1. CASE p \in {<<LocalSlot(F[s.pc], n), s.locals[n]>> : n \in DOMAIN s.locals}
    <3>1. PICK n \in Slots(m) : p[1] = LocalSlot(F[s.pc], n)
      BY <1>2, <2>1
    <3> QED BY <1>1, <3>1 DEF OriginsAreNew
  <2>2. CASE p \in {<<F[s.pc].stack[n], s.stack[n]>> : n \in DOMAIN s.stack}
    <3>1. PICK n \in DOMAIN F[s.pc].stack : p[1] = F[s.pc].stack[n]
      BY <1>2, <2>2
    <3> QED BY <1>1, <3>1 DEF OriginsAreNew
  <2> QED BY <2>1, <2>2 DEF Cells
<1>4. \A p \in P : slot.origin \notin OriginsOf(p[1])
  BY <1>3
<1>5. Sound(m, e, P \cup {<<slot, v>>})
  BY <1>4, AddedIsSound
<1> QED BY <1>5, KnownIsFit

LEMMA StoresRun ==
    ASSUME NEW m, NEW F, NEW e, NEW s, Scene(m, F, e, s), m.code[s.pc].op \in StoreOps
    PROVE  \A t \in Normal(m, s, Truth) : RunFits(m, F, e, t)
<1> DEFINE i == m.code[s.pc]
           f == F[s.pc]
           P == Cells(f, s.locals, s.stack)
           a == At(s, 1)
           top == Peek(f, 1)
           stored == IF top.origin = None THEN [top EXCEPT !.origin = StoreOrigin(i.local, s.pc)]
                     ELSE top
           slot == [stored EXCEPT !.fact = None]
           t == Continue(StoreTo(s, i.local, a), 1, <<>>)
<1>1. /\ HasKind(i.op, a) => Normal(m, s, Truth) = {t}
      /\ ~HasKind(i.op, a) => Normal(m, s, Truth) = {Stuck(s)}
  BY DEF Normal
<1>2. Transfer(m, s.pc, f, Env(m)) = SetLocal(Drop(f, 1), i.local, stored)
  <2>1. Transfer(m, s.pc, f, Env(m)) = StoreLocal(Drop(f, 1), i.local, Peek(f, 1), s.pc)
    BY DEF Transfer, NamesNoMethod
  <2> QED BY <2>1 DEF StoreLocal
<1>3. f \in AllFrames /\ FrameFits(m, e, f, s) /\ Len(f.stack) \in Nat
      /\ i.local \in Slots(m) /\ m.maxLocals \in Nat /\ s.status = "running"
  BY SceneFacts, FrameParts, MethodsAssumption DEF Operands
<1>4. 1 \in 1..Len(f.stack) /\ 1 \in Nat /\ 1 <= Len(f.stack)
  <2>1. TransferDiagnostics(m, s.pc, f, Env(m)) = {}
    BY SceneFacts
  <2>2. ~(1 > Len(f.stack))
    BY <2>1 DEF TransferDiagnostics
  <2> QED BY <1>3, <2>2
<1>5. Typed(m, top, a) /\ Derived(P, <<top, a>>) /\ top \in AllSlots /\ a \in RunValues(m)
  BY <1>3, <1>4, PeekedFits, PeekIsTop
<1>6. /\ slot.type = top.type /\ slot.targets = top.targets /\ slot.fact = None
      /\ stored.type = top.type
      /\ slot.origin = IF top.origin = None THEN StoreOrigin(i.local, s.pc) ELSE top.origin
  BY <1>5 DEF AllSlots, SlotsWith
<1>7. Typed(m, slot, a)
  <2> HIDE DEF slot, top, a
  <2> QED BY <1>5, <1>6 DEF Typed, SlotDescribes
<1>8. ASSUME HasKind(i.op, a) PROVE RunFits(m, F, e, t)
  <2>1. a # Unset
    BY <1>8, UnsetFits DEF HasKind, Ready
  <2>2. IsCategoryTwo(stored.type) => a = LongValue
    <3>1. Describes(top.type, a)
      BY <1>5 DEF Typed, SlotDescribes, Describes
    <3> QED BY <1>6, <2>1, <3>1, WideIsLong
  <2>3. Sound(m, e, P)
    BY <1>3 DEF FrameFits
  <2>4. \E R : Sound(m, e, R) /\ P \subseteq R /\ Fits(m, R, slot, a)
    <3>1. CASE top.origin # None
      <4>1. slot.origin = top.origin
        BY <1>6, <3>1
      <4>2. Derived(P, <<slot, a>>)
        <5> HIDE DEF slot, top, a, P
        <5> QED BY <1>5, <1>6, <4>1 DEF Derived
      <4> QED BY <1>7, <2>3, <4>2 DEF Fits
    <3>2. CASE top.origin = None
      <4>1. slot.origin = StoreOrigin(i.local, s.pc)
        BY <1>6, <3>2
      <4>2. s.pc # FirstOffset
        BY <1>4, EntryIsLow
      <4> HIDE DEF slot
      <4>3. OriginFits(m, e, slot, a)
        BY <4>1, <4>2 DEF OriginFits, StoreOrigin
      <4>4. slot.origin \in OriginGiven(m, s.pc)
        BY <4>1 DEF OriginGiven
      <4> HIDE DEF a
      <4>5. Sound(m, e, P \cup {<<slot, a>>}) /\ Fits(m, P \cup {<<slot, a>>}, slot, a)
        BY <1>3, <1>6, <1>7, <2>3, <4>3, <4>4, NewOriginFits
      <4> QED BY <4>5
    <3> QED BY <3>1, <3>2
  <2>5. PICK R : Sound(m, e, R) /\ P \subseteq R /\ Fits(m, R, slot, a)
    BY <2>4
  <2>6. /\ FrameFits(m, e, SetLocal(Drop(f, 1), i.local, stored), t)
        /\ t.pc = s.pc + 1 /\ t.status = s.status
    <3> HIDE DEF stored, f, a
    <3>1. Stored(m, e, f, s, i.local, 1, stored, a)
      BY <1>3, <1>4, <2>2, <2>5, StoreFits
    <3> QED BY <3>1 DEF Stored
  <2>7. ~EndsBlock(i.op)
    BY DEF EndsBlock
  <2> HIDE DEF t
  <2> QED BY <1>2, <1>3, <2>6, <2>7, FallsThrough
<1> QED BY <1>1, <1>8, StuckFits

LEMMA IncrementsRun ==
    ASSUME NEW m, NEW F, NEW e, NEW s, Scene(m, F, e, s), m.code[s.pc].op = "iinc"
    PROVE  \A t \in Normal(m, s, Truth) : RunFits(m, F, e, t)
<1> DEFINE i == m.code[s.pc]
           f == F[s.pc]
           P == Cells(f, s.locals, s.stack)
           slot == Slot(Int32, StoreOrigin(i.local, FirstOffset))
           t(v) == Continue(StoreTo(s, i.local, v), 0, <<>>)
<1>1. Normal(m, s, Truth) \in {{t(v) : v \in IntsOf("int")}, {Stuck(s)}}
  BY DEF Normal
<1>2. Transfer(m, s.pc, f, Env(m)) = SetLocal(f, i.local, slot)
  BY DEF Transfer, NamesNoMethod
<1>3. f \in AllFrames /\ FrameFits(m, e, f, s) /\ 0 <= Len(f.stack)
      /\ i.local \in Slots(m) /\ m.maxLocals \in Nat /\ s.status = "running"
  BY SceneFacts, FrameParts, MethodsAssumption DEF Operands
<1>4. Drop(f, 0) = f
  <2>1. Drop(f, 0) = [locals |-> f.locals, stack |-> SubSeq(f.stack, 1, Len(f.stack) - 0)]
    BY <1>3, PushedAndDropped
  <2>2. SubSeq(f.stack, 1, Len(f.stack) - 0) = f.stack /\ f = [locals |-> f.locals, stack |-> f.stack]
    BY <1>3, FrameParts
  <2> QED BY <2>1, <2>2
<1>5. /\ slot.type = Int32 /\ slot.fact = None /\ slot.targets = UnknownTargets
      /\ slot.origin = StoreOrigin(i.local, FirstOffset) /\ [slot EXCEPT !.fact = None] = slot
  BY DEF Slot
<1>6. ASSUME NEW v \in IntsOf("int") PROVE RunFits(m, F, e, t(v))
  <2>1. v \in RunValues(m) /\ v.v = "int" /\ Describes(Integral({"int"}), v)
    BY IntegersFit DEF SmallIntegrals
  <2> HIDE DEF slot
  <2>2. Typed(m, slot, v)
    BY <1>5, <2>1 DEF Typed, SlotDescribes, Describes, Int32
  <2>3. OriginFits(m, e, slot, v) /\ slot.origin.k = "store" /\ slot.origin.at = FirstOffset
    BY <1>5, <2>1 DEF OriginFits, StoreOrigin
  <2>4. Sound(m, e, P)
    BY <1>3 DEF FrameFits
  <2>5. Sound(m, e, P \cup {<<slot, v>>})
    <3> HIDE DEF P
    <3> QED BY <1>5, <2>1, <2>2, <2>3, <2>4, AddedIsSound
  <2>6. Fits(m, P \cup {<<slot, v>>}, slot, v)
    BY <2>5, KnownIsFit
  <2>7. ~IsCategoryTwo(slot.type)
    BY <1>5 DEF IsCategoryTwo, Int32, Integral
  <2>8. /\ FrameFits(m, e, SetLocal(Drop(f, 0), i.local, slot), t(v))
        /\ t(v).pc = s.pc + 1 /\ t(v).status = s.status
    <3> DEFINE R == P \cup {<<slot, v>>}
    <3>1. P \subseteq R /\ Sound(m, e, R) /\ Fits(m, R, [slot EXCEPT !.fact = None], v)
      BY <1>5, <2>5, <2>6
    <3> HIDE DEF f, R
    <3>2. Stored(m, e, f, s, i.local, 0, slot, v)
      BY <1>3, <2>7, <3>1, StoreFits
    <3> QED BY <3>2 DEF Stored
  <2>9. ~EndsBlock(i.op)
    BY DEF EndsBlock
  <2> QED BY <1>2, <1>3, <1>4, <2>8, <2>9, FallsThrough
<1> QED BY <1>1, <1>6, StuckFits

-----------------------------------------------------------------------------
(* A new object: nothing has its origin, and no other uninitialized object *)
(* of the same instruction is left.                                        *)

LEMMA PlaceOfInstruction ==
    ASSUME NEW m, NEW F, NEW e, NEW s, Scene(m, F, e, s)
    PROVE  s.pc \in Places(m) /\ s.pc + 1 \in Places(m) /\ 0 \in Places(m)
<1>1. s.pc \in 1..Len(m.code) /\ Len(m.code) \in Nat /\ m.maxLocals \in Nat
  BY SceneFacts, MethodsAssumption
<1> QED BY <1>1 DEF Places

LEMMA AllocationsRun ==
    ASSUME NEW m, NEW F, NEW e, NEW s, Scene(m, F, e, s), m.code[s.pc].op = "new"
    PROVE  \A t \in Normal(m, s, Truth) : RunFits(m, F, e, t)
<1> DEFINE i == m.code[s.pc]
           f == F[s.pc]
           raw == RawObject(i.class, s.pc)
           l == [n \in DOMAIN s.locals |-> IF s.locals[n] = raw THEN Unset ELSE s.locals[n]]
           u == [s EXCEPT !.locals = l]
           P == Cells(f, s.locals, s.stack)
           Q == Cells(f, l, s.stack)
           slot == Slot(Uninitialized(i.class, s.pc), AllocationOrigin(s.pc))
<1>1. Normal(m, s, Truth) \in {{Continue(u, 0, <<raw>>)}, {Stuck(s)}}
  <2>1. Normal(m, s, Truth) = {Allocate(s, i.class)}
    BY DEF Normal
  <2>2. Allocate(s, i.class) \in {Continue(u, 0, <<raw>>), Stuck(s)}
    BY DEF Allocate
  <2> HIDE DEF u, raw
  <2> QED BY <2>1, <2>2
<1>2. StackEffect(m, s.pc, f, Env(m)) = [pops |-> 0, pushes |-> <<slot>>]
  BY DEF StackEffect
<1>3. i.op \notin LoadOps \cup StoreOps \cup InvokeOps \cup {"iinc", "invokedynamic"} /\ ~EndsBlock(i.op)
  BY DEF EndsBlock
<1>4. f \in AllFrames /\ FrameFits(m, e, f, s) /\ i.class \in Instantiable /\ s.pc \in Places(m)
      /\ s.status = "running"
  BY SceneFacts, PlaceOfInstruction DEF Operands
<1>5. 0 <= Len(f.stack) /\ Transfer(m, s.pc, f, Env(m)) = PushAll(Drop(f, 0), <<slot>>)
  BY <1>2, <1>3, EffectOf
<1>6. Machine(m, s) /\ Sound(m, e, P) /\ Len(f.stack) = Len(s.stack) /\ DOMAIN f.stack = DOMAIN s.stack
  BY <1>4 DEF FrameFits
<1>7. l \in [Slots(m) -> RunValues(m)] /\ DOMAIN s.locals = Slots(m) /\ DOMAIN l = Slots(m)
  BY <1>6, UnsetFits DEF Machine
<1>8. /\ Machine(m, u) /\ u.pc = s.pc /\ u.stack = s.stack /\ u.locals = l
      /\ u.status = s.status
  <2> HIDE DEF l
  <2> QED BY <1>6, <1>7, LocalsReplaced
<1>9. ASSUME NEW q \in Q
      PROVE  /\ q[2] # Unset => q \in P
             /\ q[2] = Unset => \E p \in P : q[1] = p[1]
             /\ Typed(m, q[1], q[2]) /\ Derived(P, q)
  <2>1. CASE q \in {<<LocalSlot(f, n), l[n]>> : n \in DOMAIN l}
    <3>1. PICK n \in Slots(m) : q = <<LocalSlot(f, n), l[n]>>
      BY <1>7, <2>1
    <3>2. <<LocalSlot(f, n), s.locals[n]>> \in P
      BY <1>7 DEF Cells
    <3>3. l[n] = s.locals[n] \/ l[n] = Unset
      BY <1>7
    <3>4. q[1] = LocalSlot(f, n) /\ q[2] = l[n]
      BY <3>1
    <3>5. CASE l[n] = Unset
      <4>1. Fits(m, P, q[1], q[2])
        BY <3>4, <3>5, UnsetIsFit
      <4>2. \E p \in P : q[1] = p[1]
        BY <3>2, <3>4
      <4> HIDE DEF P, l
      <4>3. q = <<q[1], q[2]>>
        BY <3>1
      <4> QED BY <3>4, <3>5, <4>1, <4>2, <4>3 DEF Fits
    <3>6. CASE l[n] # Unset
      <4>1. q \in P
        BY <3>1, <3>2, <3>3, <3>6
      <4> HIDE DEF P, l
      <4> QED BY <1>6, <3>4, <3>6, <4>1, HeldIsDerived
    <3> QED BY <3>5, <3>6
  <2>2. CASE q \in {<<f.stack[n], s.stack[n]>> : n \in DOMAIN s.stack}
    <3>1. q \in P
      BY <2>2 DEF Cells
    <3> HIDE DEF P
    <3> QED BY <1>6, <3>1, HeldIsDerived
  <2> QED BY <2>1, <2>2 DEF Cells
<1>10. Sound(m, e, Q)
  <2> HIDE DEF P, Q
  <2> QED BY <1>6, <1>9, DerivedIsSound
<1>11. FrameFits(m, e, f, u)
  <2> HIDE DEF u, l
  <2> QED BY <1>6, <1>8, <1>10 DEF FrameFits
<1>12. raw.v = "raw" /\ raw.class = i.class /\ raw.at = s.pc
  BY DEF RawObject
<1>13. Typed(m, slot, raw)
  <2>1. raw \in RunValues(m)
    BY <1>4 DEF RunValues
  <2>2. SlotDescribes(Supertypes, slot, raw)
    BY DEF SlotDescribes, DescribesIn, DescribesOne, slot, raw, Slot, Uninitialized, RawObject
  <2> HIDE DEF raw, slot
  <2> QED BY <1>12, <2>1, <2>2 DEF Typed
<1>14. slot.fact = None /\ slot.origin = AllocationOrigin(s.pc)
  BY DEF Slot
<1>15. OriginFits(m, e, slot, raw) /\ slot.origin \in OriginGiven(m, s.pc)
  <2> HIDE DEF slot, raw
  <2> QED BY <1>12, <1>14 DEF OriginFits, AllocationOrigin, OriginGiven
<1>16. Sound(m, e, Q \cup {<<slot, raw>>}) /\ Fits(m, Q \cup {<<slot, raw>>}, slot, raw)
  <2> HIDE DEF slot, raw, Q, l, u
  <2> QED BY <1>4, <1>9, <1>10, <1>13, <1>14, <1>15, NewOriginFits
<1>17. FrameFits(m, e, PushAll(Drop(f, 0), <<slot>>), Continue(u, 0, <<raw>>))
  <2> DEFINE R == Q \cup {<<slot, raw>>}
  <2>1. PushesFit(m, R, {slot}, <<slot>>, <<raw>>)
    <3>1. raw \in RunValues(m)
      BY <1>13 DEF Typed
    <3>2. Typed(m, slot, raw) /\ Derived(R, <<slot, raw>>)
      BY <1>16, Zenon DEF Fits
    <3> HIDE DEF R, slot, raw
    <3> QED BY <3>1, <3>2 DEF PushesFit
  <2>2. Cells(f, u.locals, u.stack) \subseteq R /\ Sound(m, e, R)
    <3> HIDE DEF u, l, slot, raw
    <3> QED BY <1>8, <1>16
  <2> HIDE DEF R, u, slot, raw, f
  <2> QED BY <1>4, <1>5, <1>11, <2>1, <2>2, SpliceFits DEF Continue
<1>18. Continue(u, 0, <<raw>>).pc = s.pc + 1 /\ Continue(u, 0, <<raw>>).status = "running"
  <2> HIDE DEF u, raw
  <2> QED BY <1>4, <1>8, JumpGoes DEF Continue
<1>19. RunFits(m, F, e, Continue(u, 0, <<raw>>))
  <2> HIDE DEF u, raw, slot
  <2> QED BY <1>3, <1>5, <1>17, <1>18, FallsThrough
<1> HIDE DEF u, raw
<1> QED BY <1>1, <1>19, StuckFits

-----------------------------------------------------------------------------
(* Branches and returns.                                                   *)

LEMMA NothingMore ==
    ASSUME NEW m, NEW e, NEW f \in AllFrames, NEW s, FrameFits(m, e, f, s),
           NEW n \in Nat, n <= Len(f.stack)
    PROVE  /\ PushAll(Drop(f, n), <<>>) = Drop(f, n)
           /\ Pops(s, n) \o <<>> = Pops(s, n)
           /\ n = 0 => Pops(s, n) = s.stack
<1>1. /\ s.stack \in Seq(RunValues(m)) /\ Len(f.stack) = Len(s.stack)
      /\ f.stack \in Seq(AllSlots) /\ Len(f.stack) \in Nat
  BY FrameParts DEF FrameFits, Machine
<1>2. /\ Drop(f, n) = [locals |-> f.locals, stack |-> SubSeq(f.stack, 1, Len(f.stack) - n)]
      /\ PushAll(Drop(f, n), <<>>)
            = [locals |-> f.locals, stack |-> SubSeq(f.stack, 1, Len(f.stack) - n) \o <<>>]
  BY PushedAndDropped
<1>3. SubSeq(f.stack, 1, Len(f.stack) - n) \o <<>> = SubSeq(f.stack, 1, Len(f.stack) - n)
  <2>1. SubSeq(f.stack, 1, Len(f.stack) - n) \in Seq(AllSlots)
    BY <1>1
  <2> QED BY <2>1
<1>4. Pops(s, n) \in Seq(RunValues(m)) /\ (n = 0 => Pops(s, n) = s.stack)
  BY <1>1 DEF Pops
<1>5. Pops(s, n) \o <<>> = Pops(s, n)
  BY <1>4
<1> QED BY <1>2, <1>3, <1>4, <1>5

LEMMA PoppedFits ==
    ASSUME NEW m, NEW e, NEW f \in AllFrames, NEW s, FrameFits(m, e, f, s),
           NEW n \in Nat, n <= Len(f.stack), NEW pc
    PROVE  /\ FrameFits(m, e, Drop(f, n), Jump(s, pc, Pops(s, n)))
           /\ n = 0 => FrameFits(m, e, Drop(f, n), Jump(s, pc, s.stack))
<1>1. FrameFits(m, e, PushAll(Drop(f, n), <<>>), Jump(s, pc, Pops(s, n) \o <<>>))
  BY NothingPushed
<1>2. /\ PushAll(Drop(f, n), <<>>) = Drop(f, n)
      /\ Pops(s, n) \o <<>> = Pops(s, n)
      /\ n = 0 => Pops(s, n) = s.stack
  BY NothingMore
<1> QED BY <1>1, <1>2

(* The machine takes an edge of the graph that is feasible.                *)
LEMMA TakesEdge ==
    ASSUME NEW m, NEW F, NEW e, NEW s, Scene(m, F, e, s),
           NEW kind, NEW target,
           [target |-> target, kind |-> kind] \in Range(OrdinarySuccessors(m, s.pc)),
           EdgeIsFeasible(m.code[s.pc].op, kind, Top(F[s.pc])),
           NEW stack,
           FrameFits(m, e, EdgeFrame(m.code[s.pc].op, kind, Top(F[s.pc]),
                                     Transfer(m, s.pc, F[s.pc], Env(m))), Jump(s, target, stack))
    PROVE  RunFits(m, F, e, Jump(s, target, stack))
<1> DEFINE edge == [target |-> target, kind |-> kind]
           g == EdgeFrame(m.code[s.pc].op, kind, Top(F[s.pc]), Transfer(m, s.pc, F[s.pc], Env(m)))
           t == Jump(s, target, stack)
<1>1. EdgesClosed(m, F, s.pc, Transfer(m, s.pc, F[s.pc], Env(m))) /\ m \in Methods
      /\ Closed(Env(m), m, F) /\ s.status = "running" /\ FrameFits(m, e, F[s.pc], s)
  BY SceneFacts
<1>2. edge.kind = kind /\ edge.target = target /\ edge \in Range(OrdinarySuccessors(m, s.pc))
  OBVIOUS
<1> HIDE DEF edge
<1>3. AdmitsAt(F, target, g)
  BY <1>1, <1>2 DEF EdgesClosed
<1>4. t.pc = target /\ t.status = "running"
  BY <1>1, JumpGoes DEF FrameFits
<1> HIDE DEF g, t
<1>5. FrameFits(m, e, g, t)
  BY DEF g, t
<1> QED BY <1>1, <1>3, <1>4, <1>5, Lands DEF t

LEMMA GotosRun ==
    ASSUME NEW m, NEW F, NEW e, NEW s, Scene(m, F, e, s), m.code[s.pc].op = "goto"
    PROVE  \A t \in Normal(m, s, Truth) : RunFits(m, F, e, t)
<1> DEFINE i == m.code[s.pc]
           f == F[s.pc]
           edge == [target |-> i.target, kind |-> "branch"]
<1>1. Normal(m, s, Truth) = {Jump(s, i.target, s.stack)}
  BY DEF Normal
<1>2. StackEffect(m, s.pc, f, Env(m)) = [pops |-> 0, pushes |-> <<>>]
  BY DEF StackEffect
<1>3. f \in AllFrames /\ FrameFits(m, e, f, s) /\ 0 <= Len(f.stack)
  BY SceneFacts, FrameParts
<1>4. Transfer(m, s.pc, f, Env(m)) = Drop(f, 0)
  BY <1>2, <1>3, EffectOf, NothingMore
<1>5. OrdinarySuccessors(m, s.pc) = <<edge>>
  BY DEF OrdinarySuccessors, Edge, FallThrough, TerminatesExecution
<1>6. edge \in Range(OrdinarySuccessors(m, s.pc))
  BY <1>5 DEF Range
<1>7. EdgeIsFeasible(i.op, "branch", Top(f))
      /\ EdgeFrame(i.op, "branch", Top(f), Transfer(m, s.pc, f, Env(m))) = Drop(f, 0)
  BY <1>4 DEF EdgeIsFeasible, EdgeFrame, InstanceofTrueEdge
<1>8. FrameFits(m, e, Drop(f, 0), Jump(s, i.target, s.stack))
  BY <1>3, PoppedFits
<1>9. RunFits(m, F, e, Jump(s, i.target, s.stack))
  BY <1>6, <1>7, <1>8, TakesEdge
<1> QED BY <1>1, <1>9

LEMMA SwitchesRun ==
    ASSUME NEW m, NEW F, NEW e, NEW s, Scene(m, F, e, s), m.code[s.pc].op \in SwitchOps
    PROVE  \A t \in Normal(m, s, Truth) : RunFits(m, F, e, t)
<1> DEFINE i == m.code[s.pc]
           f == F[s.pc]
           K == Pops(s, 1)
<1>1. Normal(m, s, Truth) \in {{Jump(s, target, K) : target \in Range(i.targets)}, {Stuck(s)}}
  BY DEF Normal
<1>2. StackEffect(m, s.pc, f, Env(m)) = [pops |-> 1, pushes |-> <<>>]
  <2>1. CASE i.op = "tableswitch"
    BY <2>1 DEF StackEffect
  <2>2. CASE i.op = "lookupswitch"
    BY <2>2 DEF StackEffect
  <2> QED BY <2>1, <2>2
<1>3. f \in AllFrames /\ FrameFits(m, e, f, s)
  BY SceneFacts
<1>4. 1 <= Len(f.stack) /\ Transfer(m, s.pc, f, Env(m)) = Drop(f, 1)
  BY <1>2, <1>3, EffectOf, NothingMore
<1>5. OrdinarySuccessors(m, s.pc) = [n \in DOMAIN i.targets |-> [target |-> i.targets[n], kind |-> "switch"]]
  BY DEF OrdinarySuccessors, Edge, FallThrough, TerminatesExecution
<1>6. ASSUME NEW target \in Range(i.targets) PROVE RunFits(m, F, e, Jump(s, target, K))
  <2>1. [target |-> target, kind |-> "switch"] \in Range(OrdinarySuccessors(m, s.pc))
    BY <1>5 DEF Range
  <2>2. EdgeIsFeasible(i.op, "switch", Top(f))
        /\ EdgeFrame(i.op, "switch", Top(f), Transfer(m, s.pc, f, Env(m))) = Drop(f, 1)
    BY <1>4 DEF EdgeIsFeasible, EdgeFrame, InstanceofTrueEdge
  <2>3. FrameFits(m, e, Drop(f, 1), Jump(s, target, K))
    BY <1>3, <1>4, PoppedFits
  <2> QED BY <2>1, <2>2, <2>3, TakesEdge
<1> QED BY <1>1, <1>6, StuckFits

LEMMA BranchEdges ==
    ASSUME NEW m, NEW F, NEW e, NEW s, Scene(m, F, e, s), m.code[s.pc].op \in ConditionOps
    PROVE  /\ [target |-> m.code[s.pc].target, kind |-> "branch"] \in Range(OrdinarySuccessors(m, s.pc))
           /\ [target |-> s.pc + 1, kind |-> "fallThrough"] \in Range(OrdinarySuccessors(m, s.pc))
<1> DEFINE a == [target |-> m.code[s.pc].target, kind |-> "branch"]
           b == [target |-> s.pc + 1, kind |-> "fallThrough"]
<1>1. s.pc < Len(m.code)
  BY SceneFacts DEF VerifiedAt, TerminatesExecution
<1>2. OrdinarySuccessors(m, s.pc) = <<a>> \o <<b>>
  <2>1. OrdinarySuccessors(m, s.pc) = <<Edge("branch", m.code[s.pc].target)>> \o FallThrough(m, s.pc)
    BY DEF OrdinarySuccessors, TerminatesExecution
  <2>2. Edge("branch", m.code[s.pc].target) = a /\ FallThrough(m, s.pc) = <<b>>
    BY <1>1 DEF Edge, FallThrough
  <2> QED BY <2>1, <2>2
<1> DEFINE r == <<a>> \o <<b>>
<1>3. DOMAIN r = 1..2 /\ r[1] = a /\ r[2] = b
  <2> HIDE DEF a, b
  <2>1. <<a>> \in Seq({a, b}) /\ <<b>> \in Seq({a, b}) /\ Len(<<a>>) = 1 /\ Len(<<b>>) = 1
    OBVIOUS
  <2>2. r \in Seq({a, b}) /\ Len(r) = 2
    BY <2>1
  <2> QED BY <2>1, <2>2
<1> HIDE DEF a, b, r
<1>4. a \in Range(r) /\ b \in Range(r)
  BY <1>3 DEF Range
<1> QED BY <1>2, <1>4 DEF a, b, r

LEMMA ReferencesAreReady ==
    ASSUME NEW type, NEW v, Describes(type, v), IsReference(type), v # Unset
    PROVE  Ready(v)
BY DEF Describes, DescribesIn, DescribesOne, InstanceIn, IsReference, IsIntegral, Ready,
       Conflict, Long, ReturnAddress, NullRef

LEMMA InstancesDescribed ==
    ASSUME NEW type, NEW v, InstanceOf(type, v)
    PROVE  Describes(type, v)
BY DEF InstanceOf, InstanceIn, Describes, DescribesIn, DescribesOne

(* What a passed test tells of the locals is true of them.                 *)
LEMMA RefinedFits ==
    ASSUME NEW m, NEW e, NEW f \in AllFrames, NEW s, FrameFits(m, e, f, s), m.maxLocals \in Nat,
           NEW P, Sound(m, e, P), Cells(f, s.locals, s.stack) \subseteq P,
           NEW fact,
           \A p \in P : p[1].origin = fact.origin /\ p[2].v \notin {"int", "unset"}
                           => InstanceOf(fact.reference, p[2])
    PROVE  FrameFits(m, e, RefineOrigin(f, fact), s)
<1> DEFINE l == [i \in DOMAIN f.locals |->
                    IF f.locals[i].origin = fact.origin /\ IsReference(f.locals[i].type)
                    THEN [f.locals[i] EXCEPT !.type = fact.reference, !.targets = UnknownTargets]
                    ELSE f.locals[i]]
           g == RefineOrigin(f, fact)
<1>1. f = [locals |-> f.locals, stack |-> f.stack] /\ f.locals \in Seq(AllSlots)
  BY FrameParts
<1>2. g = [f EXCEPT !.locals = l]
  BY DEF RefineOrigin
<1>3. DOMAIN l = DOMAIN f.locals
  OBVIOUS
<1>4. g.locals = l /\ g.stack = f.stack
  <2> HIDE DEF l, g
  <2> QED BY <1>1, <1>2
<1>5. /\ \A n \in Slots(m) : Fits(m, P, LocalSlot(f, n), s.locals[n])
      /\ \A n \in DOMAIN s.stack : Fits(m, P, f.stack[n], s.stack[n])
  BY CellsFit
<1>6. Machine(m, s) /\ Len(f.stack) = Len(s.stack) /\ DOMAIN f.stack = DOMAIN s.stack
  BY DEF FrameFits
<1>7. ASSUME NEW n \in Slots(m) PROVE Fits(m, P, LocalSlot(g, n), s.locals[n])
  <2> DEFINE old == LocalSlot(f, n)
             new == LocalSlot(g, n)
             v == s.locals[n]
  <2>1. Fits(m, P, old, v) /\ old \in AllSlots /\ <<old, v>> \in P
    BY <1>5, LocalPair
  <2>2. \/ new = old
        \/ /\ old.origin = fact.origin /\ IsReference(old.type)
           /\ new = [old EXCEPT !.type = fact.reference, !.targets = UnknownTargets]
    <3>1. CASE n + 1 \in DOMAIN f.locals
      <4>1. old = f.locals[n + 1]
        BY <3>1 DEF LocalSlot
      <4>2. new = l[n + 1]
        <5> HIDE DEF l, g
        <5> QED BY <1>3, <1>4, <3>1 DEF LocalSlot
      <4>3. l[n + 1] = IF f.locals[n + 1].origin = fact.origin /\ IsReference(f.locals[n + 1].type)
                       THEN [f.locals[n + 1] EXCEPT !.type = fact.reference, !.targets = UnknownTargets]
                       ELSE f.locals[n + 1]
        BY <3>1
      <4> HIDE DEF l, g, old, new
      <4> QED BY <4>1, <4>2, <4>3
    <3>2. CASE n + 1 \notin DOMAIN f.locals
      <4> HIDE DEF l, g
      <4> QED BY <1>3, <1>4, <3>2 DEF LocalSlot
    <3> QED BY <3>1, <3>2
  <2>3. CASE new = old
    BY <2>1, <2>3
  <2>4. CASE v = Unset
    BY <2>4, UnsetIsFit
  <2>5. CASE /\ old.origin = fact.origin /\ IsReference(old.type) /\ v # Unset
             /\ new = [old EXCEPT !.type = fact.reference, !.targets = UnknownTargets]
    <3> HIDE DEF old, new, v, g, l
    <3>1. new.type = fact.reference /\ new.targets = UnknownTargets
          /\ new.origin = old.origin /\ new.fact = old.fact
      BY <2>1, <2>5 DEF AllSlots, SlotsWith
    <3>2. Typed(m, old, v) /\ Derived(P, <<old, v>>)
      BY <2>1 DEF Fits
    <3>3. Describes(old.type, v)
      BY <3>2 DEF Typed, SlotDescribes, Describes
    <3>4. Ready(v)
      BY <2>5, <3>3, ReferencesAreReady
    <3>5. v.v \notin {"int", "unset", "raw", "address"}
      BY <3>4 DEF Ready
    <3>6. InstanceOf(fact.reference, v)
      <4> DEFINE p == <<old, v>>
      <4>1. p \in P /\ p[1] = old /\ p[2] = v
        BY <2>1
      <4> HIDE DEF p
      <4> QED BY <2>5, <3>5, <4>1
    <3>7. Describes(new.type, v)
      BY <3>1, <3>6, InstancesDescribed
    <3>8. Typed(m, new, v)
      BY <3>1, <3>2, <3>5, <3>7 DEF Typed, SlotDescribes, Describes
    <3>9. Derived(P, <<new, v>>)
      BY <3>1, <3>2 DEF Derived
    <3> QED BY <3>8, <3>9 DEF Fits, new, v
  <2> HIDE DEF old, new, v
  <2> QED BY <2>2, <2>3, <2>4, <2>5 DEF old, new, v
<1> HIDE DEF g, l
<1>8. FrameFits(m, e, g, s)
  BY <1>4, <1>5, <1>6, <1>7, CellwiseFits
<1> QED BY <1>8 DEF g

LEMMA DroppedIsFrame ==
    ASSUME NEW f \in AllFrames, NEW n \in Nat, n <= Len(f.stack)
    PROVE  Drop(f, n) \in AllFrames
<1> DEFINE r == SubSeq(f.stack, 1, Len(f.stack) - n)
<1>1. f.stack \in Seq(AllSlots) /\ Len(f.stack) \in Nat /\ f.locals \in Seq(AllSlots)
  BY FrameParts
<1>2. r \in Seq(AllSlots)
  BY <1>1
<1>3. Drop(f, n) = [locals |-> f.locals, stack |-> r]
  BY PushedAndDropped
<1> HIDE DEF r
<1> QED BY <1>1, <1>2, <1>3 DEF AllFrames, FramesWith, AllSlots

LEMMA LeftCells ==
    ASSUME NEW m, NEW e, NEW f \in AllFrames, NEW s, FrameFits(m, e, f, s),
           NEW n \in Nat, n <= Len(f.stack), NEW pc
    PROVE  LET t == Jump(s, pc, Pops(s, n))
           IN  Cells(Drop(f, n), t.locals, t.stack) \subseteq Cells(f, s.locals, s.stack)
<1> DEFINE t == Jump(s, pc, Pops(s, n))
           d == Drop(f, n)
           K == Pops(s, n)
<1>1. K \o <<>> = K
  BY NothingMore
<1>2. Leaves(m, f, s, n, K, d)
  BY <1>1, StackLeft
<1>3. t.locals = s.locals /\ t.stack = K
  BY JumpParts DEF FrameFits
<1> HIDE DEF t, d, K
<1>4. d.locals = f.locals
      /\ \A k \in DOMAIN K : k \in DOMAIN s.stack /\ K[k] = s.stack[k] /\ d.stack[k] = f.stack[k]
  BY <1>2 DEF Leaves
<1>5. \A k : LocalSlot(d, k) = LocalSlot(f, k)
  BY <1>4 DEF LocalSlot
<1>6. Cells(d, s.locals, K) \subseteq Cells(f, s.locals, s.stack)
  BY <1>4, <1>5 DEF Cells
<1> QED BY <1>3, <1>6 DEF t, d

LEMMA IntegerTestsRun ==
    ASSUME NEW m, NEW F, NEW e, NEW s, Scene(m, F, e, s), m.code[s.pc].op \in {"ifeq", "ifne"}
    PROVE  \A t \in Normal(m, s, Truth) : RunFits(m, F, e, t)
<1> DEFINE i == m.code[s.pc]
           f == F[s.pc]
           P == Cells(f, s.locals, s.stack)
           a == At(s, 1)
           top == Peek(f, 1)
           holds == Condition(i.op, a)
           kind == IF holds THEN "branch" ELSE "fallThrough"
           target == IF holds THEN i.target ELSE s.pc + 1
           K == Pops(s, 1)
           t == Jump(s, target, K)
           d == Drop(f, 1)
<1>1. Normal(m, s, Truth) = IF a.v = "int" THEN {t} ELSE {Stuck(s)}
  <2>1. CASE i.op = "ifeq"
    BY <2>1 DEF Normal, Branch
  <2>2. CASE i.op = "ifne"
    BY <2>2 DEF Normal, Branch
  <2> QED BY <2>1, <2>2
<1>2. StackEffect(m, s.pc, f, Env(m)) = [pops |-> 1, pushes |-> <<>>]
  <2>1. CASE i.op = "ifeq"
    BY <2>1 DEF StackEffect
  <2>2. CASE i.op = "ifne"
    BY <2>2 DEF StackEffect
  <2> QED BY <2>1, <2>2
<1>3. f \in AllFrames /\ FrameFits(m, e, f, s) /\ m.maxLocals \in Nat
  BY SceneFacts, MethodsAssumption
<1>4. 1 <= Len(f.stack) /\ Transfer(m, s.pc, f, Env(m)) = d
  BY <1>2, <1>3, EffectOf, NothingMore
<1>5. 1 \in 1..Len(f.stack) /\ Top(f) = top
  <2>1. Len(f.stack) \in Nat /\ f.stack # <<>>
    BY <1>3, <1>4, FrameParts
  <2> QED BY <1>3, <2>1, TopIsPeek
<1>6. <<top, a>> \in P /\ Sound(m, e, P)
  BY <1>3, <1>5, PeekedPair DEF FrameFits
<1>7. FrameFits(m, e, d, t)
  BY <1>3, <1>4, PoppedFits
<1>8. Cells(d, t.locals, t.stack) \subseteq P /\ d \in AllFrames
  BY <1>3, <1>4, LeftCells, DroppedIsFrame
<1>9. [target |-> target, kind |-> kind] \in Range(OrdinarySuccessors(m, s.pc))
  BY BranchEdges
<1>10. EdgeIsFeasible(i.op, kind, Top(f))
  BY DEF EdgeIsFeasible
<1>11. ASSUME a.v = "int" PROVE FrameFits(m, e, EdgeFrame(i.op, kind, top, d), t)
  <2>1. CASE top.fact # None /\ InstanceofTrueEdge(i.op, kind)
    <3>1. a # IntValue(0)
      BY <2>1 DEF InstanceofTrueEdge, Condition
    <3>2. Justified(P, top.fact, a)
      <4> DEFINE p == <<top, a>>
      <4>1. p \in P /\ p[1] = top /\ p[2] = a /\ a # Unset
        BY <1>6, <1>11, UnsetFits
      <4> HIDE DEF p, P, top, a
      <4> QED BY <1>6, <2>1, <4>1 DEF Sound
    <3>3. \A p \in P : p[1].origin = top.fact.origin /\ p[2].v \notin {"int", "unset"}
                           => InstanceOf(top.fact.reference, p[2])
      <4> HIDE DEF P, top, a
      <4> QED BY <1>11, <3>1, <3>2 DEF Justified
    <3> HIDE DEF P, top, a, d, t
    <3>4. FrameFits(m, e, RefineOrigin(d, top.fact), t)
      BY <1>3, <1>6, <1>7, <1>8, <3>3, RefinedFits
    <3> QED BY <2>1, <3>4 DEF EdgeFrame
  <2>2. CASE ~(top.fact # None /\ InstanceofTrueEdge(i.op, kind))
    <3> HIDE DEF top, d, t, kind
    <3> QED BY <1>7, <2>2 DEF EdgeFrame
  <2> QED BY <2>1, <2>2
<1>12. ASSUME a.v = "int" PROVE RunFits(m, F, e, t)
  <2> HIDE DEF kind, target, K
  <2> QED BY <1>4, <1>5, <1>9, <1>10, <1>11, <1>12, TakesEdge
<1> HIDE DEF t, a
<1> QED BY <1>1, <1>12, StuckFits

LEMMA NullTestsRun ==
    ASSUME NEW m, NEW F, NEW e, NEW s, Scene(m, F, e, s), m.code[s.pc].op \in {"ifnull", "ifnonnull"}
    PROVE  \A t \in Normal(m, s, Truth) : RunFits(m, F, e, t)
<1> DEFINE i == m.code[s.pc]
           f == F[s.pc]
           a == At(s, 1)
           top == Peek(f, 1)
           holds == Condition(i.op, a)
           kind == IF holds THEN "branch" ELSE "fallThrough"
           target == IF holds THEN i.target ELSE s.pc + 1
           K == Pops(s, 1)
           t == Jump(s, target, K)
           d == Drop(f, 1)
<1>1. Normal(m, s, Truth) = IF Ready(a) THEN {t} ELSE {Stuck(s)}
  <2>1. CASE i.op = "ifnull"
    BY <2>1 DEF Normal, Branch
  <2>2. CASE i.op = "ifnonnull"
    BY <2>2 DEF Normal, Branch
  <2> QED BY <2>1, <2>2
<1>2. StackEffect(m, s.pc, f, Env(m)) = [pops |-> 1, pushes |-> <<>>]
  <2>1. CASE i.op = "ifnull"
    BY <2>1 DEF StackEffect
  <2>2. CASE i.op = "ifnonnull"
    BY <2>2 DEF StackEffect
  <2> QED BY <2>1, <2>2
<1>3. f \in AllFrames /\ FrameFits(m, e, f, s)
  BY SceneFacts
<1>4. 1 <= Len(f.stack) /\ Transfer(m, s.pc, f, Env(m)) = d
  BY <1>2, <1>3, EffectOf, NothingMore
<1>5. 1 \in 1..Len(f.stack) /\ Top(f) = top
  <2>1. Len(f.stack) \in Nat /\ f.stack # <<>>
    BY <1>3, <1>4, FrameParts
  <2> QED BY <1>3, <2>1, TopIsPeek
<1>6. Describes(top.type, a)
  BY <1>3, <1>5, PeekedFits DEF Typed, SlotDescribes, Describes
<1>7. FrameFits(m, e, d, t)
  BY <1>3, <1>4, PoppedFits
<1>8. [target |-> target, kind |-> kind] \in Range(OrdinarySuccessors(m, s.pc))
  BY BranchEdges
<1>9. ASSUME Ready(a) PROVE EdgeIsFeasible(i.op, kind, top)
  <2>1. a # Unset
    BY <1>9, UnsetFits DEF Ready
  <2>2. CASE top.type = Null
    <3>1. a = NullRef
      BY <1>6, <2>1, <2>2 DEF Describes, DescribesIn, DescribesOne, Null, Conflict, Unknown,
            IsIntegral, Long, ReturnAddress
    <3>2. KnownNullness(top.type) = "null"
      BY <2>2 DEF KnownNullness, Null
    <3>3. holds <=> i.op = "ifnull"
      BY <3>1 DEF Condition
    <3> QED BY <3>2, <3>3 DEF EdgeIsFeasible
  <2>3. CASE top.type.k \in {"uninitialized", "uninitializedThis"}
    BY <1>6, <1>9, <2>1, <2>3 DEF Ready, Describes, DescribesIn, DescribesOne, Conflict, Unknown,
          IsReference, IsIntegral, Long, ReturnAddress, RawObject, RawThis
  <2>4. CASE top.type # Null /\ top.type.k \notin {"uninitialized", "uninitializedThis"}
    BY <2>4 DEF KnownNullness, EdgeIsFeasible
  <2> QED BY <2>2, <2>3, <2>4
<1>10. EdgeFrame(i.op, kind, top, d) = d
  BY DEF EdgeFrame, InstanceofTrueEdge
<1>11. ASSUME Ready(a) PROVE RunFits(m, F, e, t)
  <2> HIDE DEF kind, target, K, d
  <2> QED BY <1>4, <1>5, <1>7, <1>8, <1>9, <1>10, <1>11, TakesEdge
<1> HIDE DEF t, a
<1> QED BY <1>1, <1>11, StuckFits

LEMMA SubroutinesRun ==
    ASSUME NEW m, NEW F, NEW e, NEW s, Scene(m, F, e, s), m.code[s.pc].op = "jsr"
    PROVE  \A t \in Normal(m, s, Truth) : RunFits(m, F, e, t)
<1> DEFINE i == m.code[s.pc]
           f == F[s.pc]
           v == Address(s.pc + 1)
           targets == IF s.pc < Len(m.code) THEN Targets({s.pc + 1}) ELSE UnknownTargets
           slot == [Plain(ReturnAddress) EXCEPT !.targets = targets]
           t == Jump(s, i.target, Pops(s, 0) \o <<v>>)
<1>1. Normal(m, s, Truth) = {Jump(s, i.target, Append(s.stack, v))}
  BY DEF Normal
<1>2. StackEffect(m, s.pc, f, Env(m)) = [pops |-> 0, pushes |-> <<slot>>]
  BY DEF StackEffect
<1>3. f \in AllFrames /\ FrameFits(m, e, f, s) /\ 0 \in Nat /\ 0 <= Len(f.stack)
  BY SceneFacts, FrameParts
<1>4. Transfer(m, s.pc, f, Env(m)) = PushAll(Drop(f, 0), <<slot>>)
  BY <1>2, EffectOf
<1>5. Append(s.stack, v) = Pops(s, 0) \o <<v>>
  <2>1. s.stack \in Seq(RunValues(m)) /\ v \in RunValues(m)
    BY <1>3, PlaceOfInstruction DEF FrameFits, Machine, RunValues
  <2>2. Pops(s, 0) = s.stack
    <3>1. Len(s.stack) \in Nat
      BY <2>1
    <3> QED BY <2>1, <3>1 DEF Pops
  <2> HIDE DEF v
  <2> QED BY <2>1, <2>2
<1>6. slot.type = ReturnAddress /\ slot.origin = None /\ slot.fact = None /\ slot.targets = targets
  BY DEF Plain, Slot
<1>7. v.v = "address" /\ v.at = s.pc + 1 /\ v \in RunValues(m)
  BY PlaceOfInstruction DEF Address, RunValues
<1>8. targets.known => v.at \in targets.at
  BY <1>7 DEF Targets, UnknownTargets
<1>9. Describes(ReturnAddress, v)
  BY <1>7 DEF Describes, DescribesIn, DescribesOne
<1>10. Typed(m, slot, v) /\ \A P : Derived(P, <<slot, v>>)
  <2> HIDE DEF slot, v, targets
  <2>1. Typed(m, slot, v)
    BY <1>6, <1>7, <1>8, <1>9 DEF Typed, SlotDescribes, Describes
  <2> QED BY <1>6, <2>1 DEF Derived
<1>11. FrameFits(m, e, PushAll(Drop(f, 0), <<slot>>), t)
  <2> HIDE DEF slot, v
  <2> QED BY <1>3, <1>10, OnePushed
<1>12. [target |-> i.target, kind |-> "branch"] \in Range(OrdinarySuccessors(m, s.pc))
  <2>1. OrdinarySuccessors(m, s.pc) = <<[target |-> i.target, kind |-> "branch"]>>
    BY DEF OrdinarySuccessors, Edge, TerminatesExecution
  <2> QED BY <2>1 DEF Range
<1>13. EdgeIsFeasible(i.op, "branch", Top(f))
       /\ EdgeFrame(i.op, "branch", Top(f), Transfer(m, s.pc, f, Env(m))) = Transfer(m, s.pc, f, Env(m))
  BY DEF EdgeIsFeasible, EdgeFrame, InstanceofTrueEdge
<1>14. RunFits(m, F, e, t)
  <2> HIDE DEF slot, v
  <2> QED BY <1>4, <1>11, <1>12, <1>13, TakesEdge
<1> HIDE DEF v
<1> QED BY <1>1, <1>5, <1>14

LEMMA SubroutinesReturn ==
    ASSUME NEW m, NEW F, NEW e, NEW s, Scene(m, F, e, s), m.code[s.pc].op = "ret"
    PROVE  \A t \in Normal(m, s, Truth) : RunFits(m, F, e, t)
<1> DEFINE i == m.code[s.pc]
           f == F[s.pc]
           slot == LocalSlot(f, i.local)
           v == s.locals[i.local]
           t == Jump(s, v.at, s.stack)
<1>1. Normal(m, s, Truth) = IF v.v = "address" THEN {t} ELSE {Stuck(s)}
  BY DEF Normal
<1>2. StackEffect(m, s.pc, f, Env(m)) = [pops |-> 0, pushes |-> <<>>]
  BY DEF StackEffect
<1>3. f \in AllFrames /\ FrameFits(m, e, f, s) /\ 0 \in Nat /\ 0 <= Len(f.stack)
      /\ i.local \in Slots(m) /\ m \in Methods /\ Closed(Env(m), m, F) /\ s.status = "running"
  BY SceneFacts, FrameParts DEF Operands
<1>4. Transfer(m, s.pc, f, Env(m)) = Drop(f, 0)
  BY <1>2, <1>3, EffectOf, NothingMore
<1>5. slot.targets.known /\ \A at \in slot.targets.at : AdmitsAt(F, at, Drop(f, 0))
  BY <1>4, SceneFacts DEF ReturnsClosed
<1>6. Typed(m, slot, v)
  BY <1>3, LocalFits
<1>7. ASSUME v.v = "address" PROVE RunFits(m, F, e, t)
  <2>1. v.at \in slot.targets.at
    <3> HIDE DEF v, slot
    <3> QED BY <1>5, <1>6, <1>7 DEF Typed, SlotDescribes
  <2> HIDE DEF v, slot
  <2>2. FrameFits(m, e, Drop(f, 0), t)
    BY <1>3, PoppedFits
  <2>3. t.pc = v.at /\ t.status = "running"
    BY <1>3, JumpGoes DEF FrameFits
  <2> HIDE DEF t
  <2> QED BY <1>3, <1>5, <2>1, <2>2, <2>3, Lands
<1> HIDE DEF t, v
<1> QED BY <1>1, <1>7, StuckFits

LEMMA FinishedFits ==
    ASSUME NEW m, NEW F, NEW e, NEW s, Scene(m, F, e, s),
           m.code[s.pc].op \in ValueReturnOps \cup {"return"}, NEW v,
           m.code[s.pc].op \in ValueReturnOps => v = At(s, 1) /\ v # Unset
    PROVE  RunFits(m, F, e, Finish(s, v))
<1> DEFINE t == Finish(s, v)
           f == F[s.pc]
<1>1. f \in AllFrames /\ FrameFits(m, e, f, s) /\ s.pc \in DOMAIN F
  BY SceneFacts DEF Scene, RunFits
<1>2. Machine(m, s) /\ DOMAIN s = {"pc", "locals", "stack", "status", "result"}
  BY <1>1 DEF FrameFits, Machine
<1>3. t = [pc |-> s.pc, locals |-> s.locals, stack |-> s.stack, status |-> "returned", result |-> v]
  <2> DEFINE u == [pc |-> s.pc, locals |-> s.locals, stack |-> s.stack,
                   status |-> "returned", result |-> s.result]
  <2>1. [s EXCEPT !.status = "returned"] = u
    BY <1>2
  <2>2. [u EXCEPT !.result = v] = [pc |-> s.pc, locals |-> s.locals, stack |-> s.stack,
                                   status |-> "returned", result |-> v]
    OBVIOUS
  <2>3. t = [[s EXCEPT !.status = "returned"] EXCEPT !.result = v]
    BY DEF Finish
  <2> QED BY <2>1, <2>2, <2>3
<1> HIDE DEF t
<1>4. /\ t.pc = s.pc /\ t.locals = s.locals /\ t.stack = s.stack
      /\ t.status = "returned" /\ t.result = v
  BY <1>3
<1>5. t = [pc |-> t.pc, locals |-> t.locals, stack |-> t.stack, status |-> t.status, result |-> t.result]
  BY <1>3, <1>4
<1>6. FrameFits(m, e, f, t)
  BY <1>1, <1>2, <1>4, <1>5 DEF FrameFits, Machine
<1>7. m.code[s.pc].op \in ValueReturnOps => s.stack # <<>> /\ At(t, 1) = At(s, 1)
  <2>1. At(t, 1) = At(s, 1)
    BY <1>4 DEF At
  <2>2. At(s, 1) # Unset => 1 <= Len(s.stack)
    BY DEF At
  <2>3. Len(<<>>) = 0
    OBVIOUS
  <2> QED BY <2>1, <2>2, <2>3
<1> QED BY <1>1, <1>4, <1>6, <1>7 DEF RunFits, t

LEMMA ReturnsRun ==
    ASSUME NEW m, NEW F, NEW e, NEW s, Scene(m, F, e, s),
           m.code[s.pc].op \in ValueReturnOps \cup {"return"}
    PROVE  \A t \in Normal(m, s, Truth) : RunFits(m, F, e, t)
<1> DEFINE i == m.code[s.pc]
           a == At(s, 1)
<1>1. CASE i.op = "return"
  <2>1. Normal(m, s, Truth) = {Finish(s, Unset)}
    BY <1>1 DEF Normal
  <2> QED BY <1>1, <2>1, FinishedFits
<1>2. CASE i.op \in ValueReturnOps
  <2>1. Normal(m, s, Truth) = IF HasKind(i.op, a) THEN {Finish(s, a)} ELSE {Stuck(s)}
    BY <1>2 DEF Normal
  <2>2. HasKind(i.op, a) => a # Unset
    BY UnsetFits DEF HasKind, Ready
  <2> HIDE DEF a
  <2>3. HasKind(i.op, a) => RunFits(m, F, e, Finish(s, a))
    BY <1>2, <2>2, FinishedFits DEF a
  <2> QED BY <2>1, <2>3, StuckFits
<1> QED BY <1>1, <1>2

-----------------------------------------------------------------------------
(* Elements of arrays of references.                                       *)

(* An array type of the class world.                                       *)
WellFormed(d) == ArrayDescriptor(d) /\ (d.of.d = "class" => d.of.c \in DOMAIN Supertypes)

LEMMA SupertypesCompose ==
    /\ \A c \in DOMAIN Supertypes : \A d \in Supertypes[c] :
          d \in DOMAIN Supertypes /\ Supertypes[d] \subseteq Supertypes[c]
    /\ \A c \in ArraySupertypes \cap DOMAIN Supertypes : Supertypes[c] \subseteq ArraySupertypes
BY ClassesAssumption DEF RightIn

(* An array of a type that is a subtype of the second is one of the third. *)
LEMMA SubarraysCompose ==
    ASSUME NEW a, NEW b, NEW c, a.dims \in Nat, b.dims \in Nat, c.dims \in Nat,
           a.of.d = "class" => a.of.c \in DOMAIN Supertypes,
           b.of.d = "class" => b.of.c \in DOMAIN Supertypes,
           IsSubtypeArray(Supertypes, a, b), IsSubtypeArray(Supertypes, b, c)
    PROVE  IsSubtypeArray(Supertypes, a, c)
<1>1. CASE b.dims > c.dims /\ c.of.d = "class" /\ c.of.c \in ArraySupertypes
  BY <1>1 DEF IsSubtypeArray
<1>2. CASE b.dims = c.dims /\ b.of = c.of
  BY <1>2 DEF IsSubtypeArray
<1>3. CASE b.dims = c.dims /\ b.of.d = "class" /\ c.of.d = "class" /\ c.of.c \in Supertypes[b.of.c]
  <2>1. CASE a.dims > b.dims /\ b.of.d = "class" /\ b.of.c \in ArraySupertypes
    <3>1. c.of.c \in ArraySupertypes
      BY <1>3, <2>1, SupertypesCompose
    <3> QED BY <1>3, <2>1, <3>1 DEF IsSubtypeArray
  <2>2. CASE a.dims = b.dims /\ a.of = b.of
    BY <1>3, <2>2 DEF IsSubtypeArray
  <2>3. CASE a.dims = b.dims /\ a.of.d = "class" /\ b.of.d = "class" /\ b.of.c \in Supertypes[a.of.c]
    <3>1. c.of.c \in Supertypes[a.of.c]
      BY <1>3, <2>3, SupertypesCompose
    <3> QED BY <1>3, <2>3, <3>1 DEF IsSubtypeArray
  <2> QED BY <2>1, <2>2, <2>3 DEF IsSubtypeArray
<1> QED BY <1>1, <1>2, <1>3 DEF IsSubtypeArray

LEMMA ElementParts ==
    ASSUME NEW d, ArrayDescriptor(d)
    PROVE  /\ d.dims \in Nat \ {0}
           /\ d.dims = 1 => ElementDescriptor(d) = d.of
           /\ d.dims # 1 => LET x == ElementDescriptor(d)
                            IN  /\ x = [d EXCEPT !.dims = @ - 1]
                                /\ x.d = "array" /\ x.dims = d.dims - 1 /\ x.of = d.of
<1>1. d = [d |-> "array", dims |-> d.dims, of |-> d.of] /\ d.dims \in 1..MaxDimensions
  BY DEF ArrayDescriptor
<1>2. d.dims \in Nat \ {0}
  BY <1>1 DEF MaxDimensions
<1> DEFINE n == d.dims - 1
           x == [d EXCEPT !.dims = n]
<1>3. d.dims # 1 => ElementDescriptor(d) = x
  BY DEF ElementDescriptor
<1>4. x.d = "array" /\ x.dims = n /\ x.of = d.of
  <2> HIDE DEF n
  <2> QED BY <1>1
<1>5. d.dims = 1 => ElementDescriptor(d) = d.of
  BY DEF ElementDescriptor
<1> QED BY <1>2, <1>3, <1>4, <1>5

LEMMA ReadyIsUnknown == \A v : Ready(v) => Describes(Unknown, v)
BY DEF Describes, DescribesIn, DescribesOne

LEMMA ElementsAreReady ==
    ASSUME NEW d, d.d \in {"class", "array"}, NEW v \in ValuesOf(d, 0)
    PROVE  Ready(v)
BY DEF ValuesOf, SmallIntegrals, ObjectsOf, ArraysOf, Obj, ArrayObj, NullRef, Ready

(* What an array of type b holds, an array type above b says it holds.     *)
LEMMA ElementsOfArray ==
    ASSUME NEW b, WellFormed(b), ElementDescriptor(b).d \in {"class", "array"},
           NEW type \in SingleTypes, NEW array, array.v = "array", array.d = b,
           DescribesOne(Supertypes, type, array),
           NEW v \in ValuesOf(ElementDescriptor(b), 0)
    PROVE  Describes(ElementOfArray(type), v)
<1> DEFINE x == ElementDescriptor(b)
<1>1. /\ b.dims \in Nat \ {0} /\ b.of.d # "array" /\ (b.of.d = "class" => b.of.c \in DOMAIN Supertypes)
      /\ b.dims = 1 => x = b.of
      /\ b.dims # 1 => x.d = "array" /\ x.dims = b.dims - 1 /\ x.of = b.of
  BY ElementParts DEF WellFormed, ArrayDescriptor
<1> HIDE DEF x
<1>2. \/ v = NullRef
      \/ /\ x.d = "class"
         /\ \/ v.v = "object" /\ v.class \in Instantiable /\ x.c \in Supertypes[v.class]
            \/ v.v = "array" /\ x.c \in ArraySupertypes
      \/ /\ x.d = "array"
         /\ v.v = "array" /\ v.d \in Arrays /\ IsSubtypeArray(Supertypes, v.d, x)
  <2>1. CASE x.d = "class"
    <3>1. v \in {NullRef} \cup ObjectsOf({c \in Instantiable : x.c \in Supertypes[c]}, 0)
                \cup ArraysOf({d \in Arrays : x.c \in ArraySupertypes}, 0)
      BY <2>1 DEF ValuesOf, SmallIntegrals, x
    <3> QED BY <2>1, <3>1 DEF ObjectsOf, ArraysOf, Obj, ArrayObj
  <2>2. CASE x.d = "array"
    <3>1. v \in {NullRef} \cup ArraysOf({d \in Arrays : IsSubtypeArray(Supertypes, d, x)}, 0)
      BY <2>2 DEF ValuesOf, SmallIntegrals, x
    <3> QED BY <2>2, <3>1 DEF ArraysOf, ArrayObj
  <2> QED BY <2>1, <2>2 DEF x
<1>3. Ready(v)
  BY <1>2 DEF Ready, NullRef
<1>4. CASE type.k # "array"
  BY <1>3, <1>4, ReadyIsUnknown DEF ElementOfArray
<1>5. CASE type.k = "array"
  <2> DEFINE d == type.d
             n == d.dims - 1
             y == [d EXCEPT !.dims = n]
  <2>1. type \in KnownReferences
    BY <1>5 DEF SingleTypes, Bottom, Float, Long, Double, Null, Unknown, ReturnAddress, Conflict
  <2>2. ArrayDescriptor(d)
    BY <1>5, <2>1, ClassesAssumption
  <2>3. d.dims \in Nat \ {0} /\ d.of.d # "array"
        /\ y.d = "array" /\ y.dims = n /\ y.of = d.of
    <3>1. d.dims \in Nat \ {0} /\ d = [d |-> "array", dims |-> d.dims, of |-> d.of] /\ d.of.d # "array"
      BY <2>2, ElementParts DEF ArrayDescriptor
    <3> HIDE DEF d, n
    <3> QED BY <3>1
  <2>4. IsSubtypeArray(Supertypes, b, d)
    BY <1>5 DEF DescribesOne, InstanceIn, Unset, Conflict, Unknown, NullRef, IsIntegral, Long, ReturnAddress
  <2>5. ElementOfArray(type) = IF d.dims = 1 THEN TypeOfDescriptor(d.of) ELSE ArrayRef(y)
    BY <1>5 DEF ElementOfArray
  <2> HIDE DEF d, y
  <2>6. CASE d.dims = 1
    <3>1. d.of.d = "class" /\ (v = NullRef \/ InstanceOf(Exact(d.of.c), v))
      <4>1. CASE b.dims = 1 /\ b.of.d = "class" /\ d.of.d = "class" /\ d.of.c \in Supertypes[b.of.c]
        <5>1. x.c = b.of.c /\ x.d = "class"
          BY <1>1, <4>1
        <5>2. ASSUME v.v = "object" PROVE d.of.c \in Supertypes[v.class]
          BY <1>2, <4>1, <5>1, <5>2, SupertypesCompose, ClassesAssumption DEF NullRef
        <5>3. ASSUME v.v = "array" PROVE d.of.c \in ArraySupertypes
          BY <1>1, <1>2, <4>1, <5>1, <5>3, SupertypesCompose DEF NullRef
        <5>4. v = NullRef \/ v.v = "object" \/ v.v = "array"
          BY <1>2
        <5> QED BY <4>1, <5>2, <5>3, <5>4 DEF InstanceOf, InstanceIn, Exact
      <4>2. CASE b.dims = 1 /\ b.of = d.of
        <5>1. x = d.of /\ d.of.d = "class"
          BY <1>1, <2>3, <4>2 DEF x
        <5> QED BY <1>2, <5>1 DEF InstanceOf, InstanceIn, Exact
      <4>3. CASE b.dims > 1 /\ d.of.d = "class" /\ d.of.c \in ArraySupertypes
        <5>1. x.d = "array"
          BY <1>1, <4>3
        <5> QED BY <1>2, <4>3, <5>1 DEF InstanceOf, InstanceIn, Exact
      <4> QED BY <1>1, <2>4, <2>6, <4>1, <4>2, <4>3 DEF IsSubtypeArray
    <3>2. TypeOfDescriptor(d.of) = Exact(d.of.c)
      BY <3>1 DEF TypeOfDescriptor, SmallIntegrals
    <3> QED BY <2>5, <2>6, <3>1, <3>2, InstancesDescribed
            DEF Describes, DescribesIn, DescribesOne, IsReference, Exact
  <2>7. CASE d.dims # 1
    <3>1. b.dims # 1 /\ x.d = "array" /\ x.dims \in Nat /\ y.dims \in Nat
      BY <1>1, <2>3, <2>4, <2>7 DEF IsSubtypeArray
    <3>2. IsSubtypeArray(Supertypes, x, y)
      BY <1>1, <2>3, <2>4, <3>1 DEF IsSubtypeArray
    <3>3. v # NullRef => IsSubtypeArray(Supertypes, v.d, y) /\ v.v = "array"
      <4>1. SUFFICES ASSUME v # NullRef PROVE IsSubtypeArray(Supertypes, v.d, y) /\ v.v = "array"
        OBVIOUS
      <4>2. v.v = "array" /\ v.d \in Arrays /\ IsSubtypeArray(Supertypes, v.d, x)
        BY <1>2, <3>1, <4>1
      <4>3. v.d.dims \in Nat /\ (v.d.of.d = "class" => v.d.of.c \in DOMAIN Supertypes)
        BY <4>2, ClassesAssumption, ElementParts
      <4> QED BY <1>1, <3>1, <3>2, <4>2, <4>3, SubarraysCompose
    <3> QED BY <2>5, <2>7, <3>3
            DEF Describes, DescribesIn, DescribesOne, InstanceIn, IsReference, ArrayRef
  <2> QED BY <2>6, <2>7
<1> QED BY <1>4, <1>5

LEMMA ElementIsType ==
    ASSUME NEW type \in SingleTypes
    PROVE  ElementOfArray(type) \in AllTypes
<1>1. CASE type.k = "array"
  <2>1. type \in KnownReferences
    BY <1>1 DEF SingleTypes, Bottom, Float, Long, Double, Null, Unknown, ReturnAddress, Conflict
  <2> QED BY <1>1, <2>1, ClassesAssumption
<1>2. CASE type.k # "array"
  BY <1>2 DEF ElementOfArray, AllTypes, SingleTypes
<1> QED BY <1>1, <1>2

LEMMA HierarchyIsRight ==
    /\ RightAboutValues(Hierarchy, Supertypes)
    /\ RightAboutValues(NoHierarchy, Supertypes)
<1>1. RightAboutValues(Hierarchy, Supertypes)
  BY ClassesAssumption DEF RightAboutValues
<1> QED BY <1>1, NoHierarchyIsRight

LEMMA SinglesAreTypes == SingleTypes \subseteq AllTypes
BY DEF AllTypes

LEMMA AlternativesOrSingle ==
    ASSUME NEW type \in AllTypes
    PROVE  \/ type.k = "alternatives" /\ type.among \subseteq SingleTypes
           \/ type.k # "alternatives" /\ type \in SingleTypes
<1>1. CASE type \in SingleTypes
  <2>1. \A r \in KnownReferences : r.k # "alternatives"
    BY KnownReference
  <2> QED BY <1>1, <2>1 DEF SingleTypes, Bottom, Float, Long, Double, Null, Unknown, ReturnAddress, Conflict
<1>2. CASE type \in [k : {"alternatives"}, among : (SUBSET SingleTypes) \ {{}}]
  BY <1>2
<1> QED BY <1>1, <1>2 DEF AllTypes

(* The join over the alternatives, up to the one that describes the array. *)
LEMMA ReferenceElementCovers ==
    ASSUME NEW b, WellFormed(b), ElementDescriptor(b).d \in {"class", "array"},
           NEW type \in AllTypes, NEW array, array.v = "array", array.d = b,
           Describes(type, array),
           NEW v \in ValuesOf(ElementDescriptor(b), 0), v \in Values
    PROVE  Describes(ReferenceElement(type), v)
<1>1. CASE type.k # "alternatives"
  <2>1. type \in SingleTypes /\ DescribesOne(Supertypes, type, array)
    BY <1>1, AlternativesOrSingle DEF Describes, DescribesIn
  <2>2. Describes(ElementOfArray(type), v)
    BY <2>1, ElementsOfArray
  <2> QED BY <1>1, <2>2 DEF ReferenceElement
<1>2. CASE type.k = "alternatives"
  <2> DEFINE last == Len(ReferenceOrder)
             first == IF type.among \subseteq KnownReferences THEN Bottom ELSE Unknown
             next(acc, n) ==
                 IF ReferenceOrder[n] \in type.among
                 THEN Join(acc, ElementOfArray(ReferenceOrder[n]), NoHierarchy) ELSE acc
             Is(f) == f = [n \in 0..last |-> IF n = 0
                              THEN IF type.among \subseteq KnownReferences THEN Bottom ELSE Unknown
                              ELSE IF ReferenceOrder[n] \in type.among
                              THEN Join(f[n - 1], ElementOfArray(ReferenceOrder[n]), NoHierarchy)
                              ELSE f[n - 1]]
             step == [x \in Nat \X AllTypes |-> IF x[1] \in 1..last THEN next(x[2], x[1]) ELSE x[2]]
             joined == CHOOSE f : Is(f)
  <2>1. last \in Nat /\ \A n \in 1..last : ReferenceOrder[n] \in KnownReferences
    BY KnownReference
  <2>2. KnownReferences \subseteq SingleTypes /\ first \in AllTypes
    BY DEF SingleTypes, AllTypes
  <2>3. type.among \subseteq SingleTypes
    BY <1>2, AlternativesOrSingle
  <2>4. ReferenceElement(type) = joined[last]
    BY <1>2 DEF ReferenceElement
  <2> HIDE DEF last, first
  <2>5. ASSUME NEW acc \in AllTypes, NEW n \in 1..last, ReferenceOrder[n] \in type.among
        PROVE  LET e == ElementOfArray(ReferenceOrder[n])
               IN  Joins(Supertypes, Join(acc, e, NoHierarchy), acc, e)
    <3>1. ElementOfArray(ReferenceOrder[n]) \in AllTypes
      BY <2>1, <2>2, ElementIsType
    <3> QED BY <3>1, HierarchyIsRight, JoinCovers
  <2>6. ASSUME NEW acc \in AllTypes, NEW n \in 1..last PROVE next(acc, n) \in AllTypes
    BY <2>5 DEF Joins
  <2>7. step \in [Nat \X AllTypes -> AllTypes]
    <3> HIDE DEF next
    <3> QED BY <2>6
  <2>8. Is(joined)
    <3>1. PICK f : Iterates(f, AllTypes, first, step, last)
      <4> HIDE DEF step
      <4> QED BY <2>1, <2>2, <2>7, Iteration
    <3>2. /\ f \in [0..last -> AllTypes]
          /\ f[0] = first
          /\ \A n \in 1..last : f[n] = step[<<n, f[n - 1]>>]
      <4> HIDE DEF step
      <4> QED BY <3>1 DEF Iterates
    <3>3. ASSUME NEW n \in 1..last PROVE f[n] = next(f[n - 1], n)
      <4> HIDE DEF next
      <4>1. n \in Nat /\ n - 1 \in 0..last
        BY <2>1
      <4>2. <<n, f[n - 1]>> \in Nat \X AllTypes
        BY <3>2, <4>1
      <4>3. step[<<n, f[n - 1]>>] = next(f[n - 1], n)
        BY <4>2
      <4> QED BY <3>2, <4>3
    <3>4. Is(f)
      <4> HIDE DEF step
      <4>1. \A n \in 0..last : n # 0 => n \in 1..last
        BY <2>1
      <4>2. \A n \in 0..last : f[n] = IF n = 0
                THEN IF type.among \subseteq KnownReferences THEN Bottom ELSE Unknown
                ELSE IF ReferenceOrder[n] \in type.among
                THEN Join(f[n - 1], ElementOfArray(ReferenceOrder[n]), NoHierarchy)
                ELSE f[n - 1]
        BY <3>2, <3>3, <4>1 DEF first
      <4> QED BY <3>2, <4>2
    <3> HIDE DEF Is
    <3> QED BY <3>4
  <2> HIDE DEF joined
  <2>9. joined[0] = first
    BY <2>1, <2>8 DEF first
  <2>10. ASSUME NEW n \in 1..last PROVE joined[n] = next(joined[n - 1], n)
    BY <2>1, <2>8
  <2> HIDE DEF Is
  <2>11. PICK u \in type.among : DescribesOne(Supertypes, u, array)
    BY <1>2 DEF Describes, DescribesIn, DescribesOne, InitializedSince, IsReference, IsIntegral,
            Unset, Conflict, Unknown, Long, ReturnAddress, NullRef, RawObject, RawThis
  <2> DEFINE Covered(n) ==
                 \/ ~(type.among \subseteq KnownReferences) /\ Describes(joined[n], v)
                 \/ \E k \in 1..n : ReferenceOrder[k] = u /\ Describes(joined[n], v)
                 \/ type.among \subseteq KnownReferences /\ \A k \in 1..n : ReferenceOrder[k] # u
             T == {n \in 0..last : joined[n] \in AllTypes /\ Covered(n)}
  <2>12. Describes(ElementOfArray(u), v)
    BY <2>3, <2>11, ElementsOfArray
  <2>13. 0 \in T
    <3>1. Ready(v)
      BY ElementsAreReady
    <3>2. Describes(Unknown, v)
      BY <3>1, ReadyIsUnknown
    <3> QED BY <2>1, <2>2, <2>9, <3>2 DEF first
  <2>14. ASSUME NEW n \in 0..(last - 1), n \in T PROVE n + 1 \in T
    <3>1. n + 1 \in 1..last /\ n + 1 - 1 = n /\ joined[n + 1] = next(joined[n], n + 1)
      BY <2>1, <2>10
    <3>2. \A k \in 1..(n + 1) : k = n + 1 \/ k \in 1..n
      BY <2>1
    <3>3. \A k \in 1..n : k \in 1..(n + 1)
      BY <2>1
    <3>4. CASE ReferenceOrder[n + 1] \notin type.among
      <4>1. joined[n + 1] = joined[n]
        BY <3>1, <3>4
      <4> HIDE DEF next, joined
      <4> QED BY <2>14, <3>1, <3>2, <3>3, <3>4, <4>1, <2>11
    <3>5. CASE ReferenceOrder[n + 1] \in type.among
      <4> DEFINE x == ElementOfArray(ReferenceOrder[n + 1])
      <4>1. Joins(Supertypes, joined[n + 1], joined[n], x)
        BY <2>5, <2>14, <3>1, <3>5
      <4>2. joined[n + 1] \in AllTypes /\ StandsFor(Supertypes, joined[n + 1], joined[n])
            /\ StandsFor(Supertypes, joined[n + 1], x)
        BY <4>1 DEF Joins
      <4>3. (Describes(joined[n], v) => Describes(joined[n + 1], v))
            /\ (Describes(x, v) => Describes(joined[n + 1], v))
        BY <4>2 DEF StandsFor, Describes
      <4>4. CASE ReferenceOrder[n + 1] = u
        BY <2>12, <3>1, <4>2, <4>3, <4>4
      <4>5. CASE ReferenceOrder[n + 1] # u
        <5> HIDE DEF next, joined, x
        <5> QED BY <2>14, <3>1, <3>2, <3>3, <4>2, <4>3, <4>5
      <4> QED BY <4>4, <4>5
    <3> QED BY <3>4, <3>5
  <2> HIDE DEF T
  <2>15. 0..last \subseteq T
    BY <2>1, <2>13, <2>14, InductionUpTo, Zenon
  <2>16. last \in T
    BY <2>1, <2>15
  <2>17. Describes(joined[last], v)
    <3>1. CASE type.among \subseteq KnownReferences
      <4>1. \E k \in 1..last : ReferenceOrder[k] = u
        BY <2>11, <3>1, KnownReference DEF last
      <4> QED BY <2>16, <3>1, <4>1 DEF T
    <3>2. CASE ~(type.among \subseteq KnownReferences)
      BY <2>16, <3>2 DEF T
    <3> QED BY <3>1, <3>2
  <2> QED BY <2>4, <2>17
<1> QED BY <1>1, <1>2

LEMMA ArraysMet ==
    ASSUME NEW m, NEW v \in RunValues(m), v.v = "array"
    PROVE  v.d \in Arrays /\ WellFormed(v.d)
<1>1. v.d \in Arrays
  BY DEF RunValues, Unset, NullRef, LongValue, RawThis, IntValue, ObjectsOf, ArraysOf, Obj,
         ArrayObj, RawObject, Address
<1> QED BY <1>1, ClassesAssumption DEF WellFormed

LEMMA ArrayLoadsRun ==
    ASSUME NEW m, NEW F, NEW e, NEW s, Scene(m, F, e, s), m.code[s.pc].op = "aaload"
    PROVE  \A t \in Normal(m, s, Truth) : RunFits(m, F, e, t)
<1> DEFINE i == m.code[s.pc]
           f == F[s.pc]
           a == At(s, 1)
           b == At(s, 2)
           type == ReferenceElement(Peek(f, 2).type)
           values == ValuesOf(ElementDescriptor(b.d), 0)
           fits == a.v = "int" /\ b.v = "array" /\ ElementDescriptor(b.d).d \in {"class", "array"}
<1>1. Normal(m, s, Truth) = IF a.v = "int" /\ b = NullRef THEN {}
                            ELSE IF fits THEN Yield(s, 2, values) ELSE {Stuck(s)}
  BY DEF Normal
<1>2. StackEffect(m, s.pc, f, Env(m)) = [pops |-> 2, pushes |-> <<Plain(type)>>]
  BY DEF StackEffect
<1>3. i.op \notin LoadOps \cup StoreOps \cup InvokeOps \cup {"iinc", "invokedynamic"} /\ ~EndsBlock(i.op)
  BY DEF EndsBlock
<1>4. f \in AllFrames /\ FrameFits(m, e, f, s) /\ Len(f.stack) \in Nat /\ m \in Methods
  BY SceneFacts, FrameParts
<1>5. 2 \in 1..Len(f.stack)
  <2>1. 2 <= Len(f.stack)
    BY <1>2, <1>3, EffectOf
  <2> QED BY <1>4, <2>1
<1>6. Typed(m, Peek(f, 2), b) /\ Peek(f, 2) \in AllSlots /\ b \in RunValues(m)
  BY <1>4, <1>5, PeekedFits, PeekIsTop
<1>7. Describes(Peek(f, 2).type, b) /\ Peek(f, 2).type \in AllTypes
  BY <1>6, SlotParts DEF Typed, SlotDescribes, Describes
<1>8. ASSUME fits, NEW v \in values
      PROVE  Typed(m, Plain(type), v) /\ Derived(Cells(f, s.locals, s.stack), <<Plain(type), v>>)
  <2>1. v \in RunValues(m) /\ v.v # "raw"
    BY PlaceOfInstruction, ValuesOfType
  <2>2. v \in Values
    BY <1>4, <2>1, MethodsAssumption
  <2>3. WellFormed(b.d)
    BY <1>6, <1>8, ArraysMet
  <2>4. Describes(type, v)
    <3> HIDE DEF b
    <3> QED BY <1>7, <1>8, <2>2, <2>3, ReferenceElementCovers
  <2> HIDE DEF type
  <2> QED BY <2>1, <2>4, PlainFits
<1>9. ASSUME fits PROVE \A t \in Yield(s, 2, values) : RunFits(m, F, e, t)
  <2> HIDE DEF type, values, fits
  <2> QED BY <1>2, <1>3, <1>8, <1>9, YieldFits
<1> HIDE DEF fits, values, a, b
<1> QED BY <1>1, <1>9, StuckFits

-----------------------------------------------------------------------------
(* Constructor calls: every copy of the object becomes initialized, in the *)
(* machine and in the frame.                                               *)

Made(raw, object, v) == IF v = raw THEN object ELSE v

Constructed(m, s, raw, object, n, t) ==
    LET N == 1..(Len(s.stack) - n)
    IN  /\ Machine(m, t) /\ t.pc = s.pc + 1 /\ t.status = s.status
        /\ \A k \in Slots(m) : t.locals[k] = Made(raw, object, s.locals[k])
        /\ Len(t.stack) = Len(s.stack) - n /\ DOMAIN t.stack = N
        /\ \A k \in N : k \in DOMAIN s.stack /\ t.stack[k] = Made(raw, object, s.stack[k])

LEMMA ConstructedGoes ==
    ASSUME NEW m, NEW s, Machine(m, s), NEW raw, NEW object \in RunValues(m),
           NEW n \in Nat, n <= Len(s.stack)
    PROVE  Constructed(m, s, raw, object, n, Continue(Construct(s, raw, object), n, <<>>))
<1> DEFINE l == [k \in DOMAIN s.locals |-> IF s.locals[k] = raw THEN object ELSE s.locals[k]]
           K == [k \in DOMAIN s.stack |-> IF s.stack[k] = raw THEN object ELSE s.stack[k]]
           u == Construct(s, raw, object)
           R == SubSeq(K, 1, Len(K) - n) \o <<>>
           t == Continue(u, n, <<>>)
<1>1. /\ DOMAIN s = {"pc", "locals", "stack", "status", "result"}
      /\ s = [pc |-> s.pc, locals |-> s.locals, stack |-> s.stack,
              status |-> s.status, result |-> s.result]
      /\ s.locals \in [Slots(m) -> RunValues(m)] /\ s.stack \in Seq(RunValues(m))
  BY DEF Machine
<1>2. Len(s.stack) \in Nat /\ DOMAIN s.stack = 1..Len(s.stack)
  BY <1>1
<1>3. /\ l \in [Slots(m) -> RunValues(m)]
      /\ \A k \in Slots(m) : l[k] = Made(raw, object, s.locals[k])
  BY <1>1 DEF Made
<1>4. /\ K \in Seq(RunValues(m)) /\ Len(K) = Len(s.stack)
      /\ \A k \in 1..Len(s.stack) : K[k] = Made(raw, object, s.stack[k])
  <2>1. \A k \in 1..Len(s.stack) : s.stack[k] \in RunValues(m)
    BY <1>1, <1>2
  <2>2. K \in [1..Len(s.stack) -> RunValues(m)]
    BY <1>2, <2>1
  <2>3. \A k \in 1..Len(s.stack) : K[k] = Made(raw, object, s.stack[k])
    BY <1>2 DEF Made
  <2> HIDE DEF K
  <2> QED BY <1>2, <2>2, <2>3
<1>5. u = [[s EXCEPT !.locals = l] EXCEPT !.stack = K]
  BY DEF Construct
<1> HIDE DEF l, K
<1>6. u = [pc |-> s.pc, locals |-> l, stack |-> K, status |-> s.status, result |-> s.result]
  <2> DEFINE w == [pc |-> s.pc, locals |-> l, stack |-> s.stack,
                   status |-> s.status, result |-> s.result]
  <2>1. [s EXCEPT !.locals = l] = w
    BY <1>1
  <2>2. [w EXCEPT !.stack = K] = [pc |-> s.pc, locals |-> l, stack |-> K,
                                  status |-> s.status, result |-> s.result]
    OBVIOUS
  <2> HIDE DEF w
  <2> QED BY <1>5, <2>1, <2>2
<1> HIDE DEF u
<1>7. /\ u.pc = s.pc /\ u.locals = l /\ u.stack = K
      /\ u.status = s.status /\ u.result = s.result
  BY <1>6
<1>8. Machine(m, u)
  <2>1. u = [pc |-> u.pc, locals |-> u.locals, stack |-> u.stack,
             status |-> u.status, result |-> u.result]
    BY <1>6, <1>7
  <2> QED BY <1>3, <1>4, <1>7, <2>1 DEF Machine
<1>9. /\ R \in Seq(RunValues(m)) /\ Len(R) = Len(s.stack) - n
      /\ \A k \in 1..(Len(s.stack) - n) : R[k] = K[k]
  <2>1. n \in 0..Len(K) /\ <<>> \in Seq(RunValues(m)) /\ Len(<<>>) = 0
    BY <1>2, <1>4
  <2>2. Spliced(RunValues(m), RunValues(m), K, n, <<>>, R)
    BY <1>4, <2>1, PoppedAndPushed
  <2>3. RunValues(m) \cup RunValues(m) = RunValues(m)
    OBVIOUS
  <2> HIDE DEF R
  <2> QED BY <1>2, <1>4, <2>1, <2>2, <2>3 DEF Spliced
<1>10. t = Jump(u, s.pc + 1, R)
  BY <1>7 DEF Continue, Pops
<1> HIDE DEF t, R
<1>11. t = [pc |-> s.pc + 1, locals |-> u.locals, stack |-> R,
            status |-> u.status, result |-> u.result]
  BY <1>8, <1>10, JumpParts
<1>12. /\ t.pc = s.pc + 1 /\ t.locals = l /\ t.stack = R
       /\ t.status = s.status /\ t.result = s.result
  BY <1>7, <1>11
<1>13. Machine(m, t)
  <2>1. t = [pc |-> t.pc, locals |-> t.locals, stack |-> t.stack,
             status |-> t.status, result |-> t.result]
    BY <1>7, <1>11, <1>12
  <2> QED BY <1>3, <1>9, <1>12, <2>1 DEF Machine
<1>14. DOMAIN R = 1..(Len(s.stack) - n)
  BY <1>9
<1>15. \A k \in 1..(Len(s.stack) - n) : k \in 1..Len(s.stack)
  BY <1>2
<1>16. /\ Len(t.stack) = Len(s.stack) - n /\ DOMAIN t.stack = 1..(Len(s.stack) - n)
       /\ \A k \in 1..(Len(s.stack) - n) :
             k \in DOMAIN s.stack /\ t.stack[k] = Made(raw, object, s.stack[k])
  BY <1>2, <1>4, <1>9, <1>12, <1>14, <1>15
<1>17. \A k \in Slots(m) : t.locals[k] = Made(raw, object, s.locals[k])
  BY <1>3, <1>12
<1>18. Constructed(m, s, raw, object, n, t)
  BY <1>12, <1>13, <1>16, <1>17 DEF Constructed
<1> QED BY <1>18 DEF t, u

(* The pairs of slots and values, before and after.                        *)
Remade(m, raw, object, p, q) ==
    /\ q[1].origin = p[1].origin /\ q[1].fact = p[1].fact
    /\ q[2] = Made(raw, object, p[2])
    /\ Typed(m, q[1], q[2])

LEMMA RemadeIsSound ==
    ASSUME NEW m, NEW e, ArgumentsAreReady(m, e), NEW P, Sound(m, e, P),
           NEW raw, raw.v \in {"raw", "rawThis"},
           NEW object, object.v = "object", object.class = raw.class,
           NEW Q, \A q \in Q : \E p \in P : Remade(m, raw, object, p, q)
    PROVE  Sound(m, e, Q)
<1>1. raw # Unset /\ object # Unset
  BY UnsetFits
<1>2. ASSUME NEW p, NEW q, Remade(m, raw, object, p, q)
      PROVE  /\ q[2] = Unset <=> p[2] = Unset
             /\ q[2].v = "int" <=> p[2].v = "int"
             /\ q[2] # p[2] => p[2] = raw /\ q[2] = object
             /\ q[1].origin = p[1].origin /\ q[1].fact = p[1].fact
  BY <1>1, <1>2 DEF Remade, Made
<1>3. ASSUME NEW q \in Q, q[2] # Unset PROVE OriginFits(m, e, q[1], q[2])
  <2>1. PICK p \in P : Remade(m, raw, object, p, q)
    OBVIOUS
  <2>2. OriginFits(m, e, p[1], p[2])
    BY <1>2, <1>3, <2>1 DEF Sound
  <2>3. CASE q[2] = p[2]
    BY <1>2, <2>1, <2>2, <2>3 DEF OriginFits
  <2>4. CASE p[2] = raw /\ q[2] = object
    BY <1>2, <2>1, <2>2, <2>4 DEF OriginFits, ArgumentsAreReady
  <2> QED BY <1>2, <2>1, <2>3, <2>4
<1>4. ASSUME NEW q \in Q, NEW r \in Q, SameOrigin(q, r)
      PROVE  q[2] = r[2] \/ (q[2].v = "int" /\ r[2].v = "int")
  <2>1. PICK p \in P : Remade(m, raw, object, p, q)
    OBVIOUS
  <2>2. PICK o \in P : Remade(m, raw, object, o, r)
    OBVIOUS
  <2>3. SameOrigin(p, o)
    BY <1>2, <1>4, <2>1, <2>2 DEF SameOrigin
  <2>4. p[2] = o[2] \/ (p[2].v = "int" /\ o[2].v = "int")
    BY <2>3 DEF Sound
  <2> QED BY <1>2, <2>1, <2>2, <2>4 DEF Remade
<1>5. ASSUME NEW q \in Q, q[1].fact # None, q[2] # Unset
      PROVE  q[1].fact.origin # None /\ Justified(Q, q[1].fact, q[2])
  <2>1. PICK p \in P : Remade(m, raw, object, p, q)
    OBVIOUS
  <2>2. q[1].fact.origin # None /\ Justified(P, q[1].fact, p[2])
    BY <1>2, <1>5, <2>1 DEF Sound
  <2>3. ASSUME q[2].v = "int", q[2] # IntValue(0), NEW r \in Q, r[1].origin = q[1].fact.origin,
               r[2].v \notin {"int", "unset"}
        PROVE  InstanceOf(q[1].fact.reference, r[2])
    <3>1. PICK o \in P : Remade(m, raw, object, o, r)
      OBVIOUS
    <3>2. p[2] = q[2]
      BY <1>2, <2>1, <2>3
    <3>3. o[2].v \notin {"int", "unset"}
      BY <1>2, <2>3, <3>1
    <3>4. InstanceOf(q[1].fact.reference, o[2])
      BY <1>2, <2>2, <2>3, <3>1, <3>2, <3>3 DEF Justified
    <3>5. o[2] # raw
      BY <3>4 DEF InstanceOf, InstanceIn
    <3> QED BY <1>2, <3>1, <3>4, <3>5
  <2> QED BY <2>2, <2>3 DEF Justified
<1>6. \A q \in Q : Typed(m, q[1], q[2])
  BY DEF Remade
<1> QED BY <1>3, <1>4, <1>5, <1>6 DEF Sound

(* The type a constructor call gives, and the slots that take it: all that *)
(* hold what the receiver holds.                                           *)
ConstructedType(i, r) == Exact(IF r.type.k = "uninitialized" THEN i.member.owner ELSE r.type.c)
Taken(r, type) ==
    IF r.type.k = "uninitialized" THEN type.k = "uninitialized" /\ type.at = r.type.at
    ELSE type.k = "uninitializedThis"
Initialized(i, r, slot) ==
    IF Taken(r, slot.type) THEN [slot EXCEPT !.type = ConstructedType(i, r)] ELSE slot

LEMMA RawReceiver ==
    ASSUME NEW m \in Methods, NEW i, NEW r, NEW raw, Typed(m, r, raw), raw # Unset,
           r.type.k \in {"uninitialized", "uninitializedThis"}, Constructible(i, raw)
    PROVE  /\ r.type.k = "uninitialized" => raw = RawObject(r.type.c, r.type.at) /\ raw.v = "raw"
                                            /\ raw.class = r.type.c /\ raw.at = r.type.at
                                            /\ raw.class = m.code[raw.at].class
           /\ r.type.k = "uninitializedThis" => raw = RawThis(m.owner) /\ raw.v = "rawThis"
                                                /\ raw.class = m.owner /\ r.type.c = m.owner
           /\ raw.class \in Instantiable
           /\ ConstructedType(i, r) = Exact(raw.class)
<1>1. raw \in RunValues(m) /\ DescribesIn(Supertypes, r.type, raw)
      /\ (raw.v = "raw" => raw.class = m.code[raw.at].class)
  BY DEF Typed, SlotDescribes
<1>2. DescribesOne(Supertypes, r.type, raw)
  BY <1>1 DEF DescribesIn
<1>3. ASSUME r.type.k = "uninitialized"
      PROVE  raw = RawObject(r.type.c, r.type.at)
  BY <1>2, <1>3 DEF DescribesOne, Conflict, Unknown, IsReference, IsIntegral, Long, ReturnAddress
<1>4. ASSUME r.type.k = "uninitializedThis"
      PROVE  raw = RawThis(r.type.c)
  BY <1>2, <1>4 DEF DescribesOne, Conflict, Unknown, IsReference, IsIntegral, Long, ReturnAddress
<1>5. CASE r.type.k = "uninitialized"
  <2>1. raw.v = "raw" /\ raw.class = r.type.c /\ raw.at = r.type.at
    BY <1>3, <1>5 DEF RawObject
  <2>2. raw.class \in Instantiable
    BY <1>1, <2>1 DEF RunValues, Unset, NullRef, LongValue, RawThis, IntValue, ObjectsOf, ArraysOf,
           Obj, ArrayObj, RawObject, Address
  <2>3. i.member.owner = raw.class
    BY <2>1 DEF Constructible
  <2> QED BY <1>1, <1>3, <1>5, <2>1, <2>2, <2>3 DEF ConstructedType
<1>6. CASE r.type.k = "uninitializedThis"
  <2>1. raw.v = "rawThis" /\ raw.class = r.type.c
    BY <1>4, <1>6 DEF RawThis
  <2>2. m.constructor /\ raw = RawThis(m.owner)
    BY <1>1, <2>1 DEF RunValues, Unset, NullRef, LongValue, RawThis, IntValue, ObjectsOf, ArraysOf,
           Obj, ArrayObj, RawObject, Address
  <2>3. raw.class = m.owner /\ m.owner \in Instantiable
    BY <2>2, MethodsAssumption DEF RawThis
  <2> QED BY <1>4, <1>6, <2>1, <2>2, <2>3 DEF ConstructedType
<1> QED BY <1>5, <1>6

LEMMA MadeIsTyped ==
    ASSUME NEW m \in Methods, NEW i, NEW r, NEW raw, Typed(m, r, raw), raw # Unset,
           r.type.k \in {"uninitialized", "uninitializedThis"}, Constructible(i, raw),
           NEW object \in RunValues(m), object.v = "object", object.class = raw.class,
           NEW slot \in AllSlots, NEW v, Typed(m, slot, v)
    PROVE  Typed(m, Initialized(i, r, slot), Made(raw, object, v))
<1> DEFINE q == Initialized(i, r, slot)
<1>1. /\ r.type.k = "uninitialized" => raw.v = "raw" /\ raw.class = r.type.c /\ raw.at = r.type.at
                                       /\ raw.class = m.code[raw.at].class
      /\ r.type.k = "uninitializedThis" => raw = RawThis(m.owner) /\ raw.v = "rawThis"
      /\ raw.class \in Instantiable
      /\ ConstructedType(i, r) = Exact(raw.class)
  BY RawReceiver
<1>2. v \in RunValues(m) /\ DescribesIn(Supertypes, slot.type, v)
      /\ (v.v = "raw" => v.class = m.code[v.at].class)
  BY DEF Typed, SlotDescribes
<1>3. ASSUME v # Unset, Taken(r, slot.type) PROVE v = raw
  <2>1. DescribesOne(Supertypes, slot.type, v)
    BY <1>2, <1>3 DEF DescribesIn, Taken
  <2>2. CASE r.type.k = "uninitialized"
    <3>1. slot.type.k = "uninitialized" /\ slot.type.at = r.type.at
      BY <1>3, <2>2 DEF Taken
    <3>2. v = RawObject(slot.type.c, slot.type.at)
      BY <1>3, <2>1, <3>1
         DEF DescribesOne, Conflict, Unknown, IsReference, IsIntegral, Long, ReturnAddress
    <3>3. v.v = "raw" /\ v.class = slot.type.c /\ v.at = raw.at
      BY <1>1, <2>2, <3>1, <3>2 DEF RawObject
    <3>4. v.class = raw.class
      BY <1>1, <1>2, <2>2, <3>3
    <3>5. raw = RawObject(r.type.c, r.type.at)
      BY <2>2, RawReceiver
    <3> QED BY <1>1, <2>2, <3>1, <3>2, <3>3, <3>4, <3>5
  <2>3. CASE r.type.k = "uninitializedThis"
    <3>1. slot.type.k = "uninitializedThis"
      BY <1>3, <2>3 DEF Taken
    <3>2. v = RawThis(slot.type.c)
      BY <1>3, <2>1, <3>1
         DEF DescribesOne, Conflict, Unknown, IsReference, IsIntegral, Long, ReturnAddress
    <3>3. v.v = "rawThis"
      BY <3>2 DEF RawThis
    <3>4. v = RawThis(m.owner)
      BY <1>2, <3>3 DEF RunValues, Unset, NullRef, LongValue, RawThis, IntValue, ObjectsOf,
             ArraysOf, Obj, ArrayObj, RawObject, Address
    <3> QED BY <1>1, <2>3, <3>4
  <2> QED BY <2>2, <2>3
<1>4. Describes(Exact(raw.class), object)
  <2>1. raw.class \in Supertypes[raw.class]
    BY <1>1, ClassesAssumption DEF RightIn
  <2>2. InstanceOf(Exact(raw.class), object)
    BY <2>1 DEF InstanceOf, InstanceIn, Exact
  <2> QED BY <2>2, InstancesDescribed
<1>9. ASSUME NEW x, DescribesIn(Supertypes, x.type, object) PROVE Typed(m, x, object)
  BY <1>9 DEF Typed, SlotDescribes
<1>5. CASE v = Unset
  <2>1. Made(raw, object, v) = Unset
    BY <1>5 DEF Made
  <2> QED BY <2>1, UnsetFits
<1>6. CASE v # Unset /\ Taken(r, slot.type)
  <2>1. q.type = Exact(raw.class) /\ Made(raw, object, v) = object
    <3>1. q = [slot EXCEPT !.type = Exact(raw.class)]
      BY <1>1, <1>6 DEF Initialized
    <3>2. "type" \in DOMAIN slot
      BY DEF AllSlots, SlotsWith
    <3> QED BY <1>3, <1>6, <3>1, <3>2 DEF Made
  <2> HIDE DEF q
  <2>2. DescribesIn(Supertypes, q.type, object)
    BY <1>4, <2>1 DEF Describes
  <2>3. Typed(m, q, object)
    BY <1>9, <2>2
  <2> QED BY <2>1, <2>3 DEF q
<1>7. CASE v # raw /\ ~Taken(r, slot.type)
  <2>1. q = slot /\ Made(raw, object, v) = v
    BY <1>7 DEF Initialized, Made
  <2> QED BY <2>1
<1>8. CASE v = raw /\ ~Taken(r, slot.type)
  <2>1. q = slot /\ Made(raw, object, v) = object
    BY <1>8 DEF Initialized, Made
  <2>2. ASSUME NEW type, DescribesOne(Supertypes, type, raw)
        PROVE  \/ type = Conflict
               \/ type.k \in {"uninitialized", "uninitializedThis"} /\ type.c = raw.class
                  /\ (type.k = "uninitialized" => raw.v = "raw" /\ type.at = raw.at)
                  /\ (type.k = "uninitializedThis" => raw.v = "rawThis")
    <3>1. raw.v \in {"raw", "rawThis"}
      BY <1>1
    <3> QED BY <2>2, <3>1 DEF DescribesOne, Ready, NullRef, LongValue, InstanceIn, RawObject, RawThis
  <2>3. DescribesIn(Supertypes, slot.type, object)
    <3>1. CASE DescribesOne(Supertypes, slot.type, raw)
      <4>1. slot.type = Conflict
        BY <1>1, <1>8, <2>2, <3>1 DEF Taken
      <4> QED BY <4>1 DEF DescribesIn, DescribesOne
    <3>2. CASE slot.type.k = "alternatives" /\ \E t \in slot.type.among :
                   DescribesOne(Supertypes, t, raw) \/ InitializedSince(t, raw)
      <4>1. PICK t \in slot.type.among :
                DescribesOne(Supertypes, t, raw) \/ InitializedSince(t, raw)
        BY <3>2
      <4>2. DescribesOne(Supertypes, t, raw)
        BY <1>1, <4>1 DEF InitializedSince
      <4>3. DescribesOne(Supertypes, t, object) \/ InitializedSince(t, object)
        BY <2>2, <4>2 DEF DescribesOne, InitializedSince
      <4> QED BY <3>2, <4>3 DEF DescribesIn
    <3> QED BY <1>2, <1>8, <3>1, <3>2 DEF DescribesIn
  <2>4. Typed(m, slot, object)
    BY <1>9, <2>3
  <2> HIDE DEF q
  <2> QED BY <2>1, <2>4 DEF q
<1> QED BY <1>5, <1>6, <1>7, <1>8

(* Slot by slot, a frame and the one in which its objects are constructed. *)
Constructs(i, r, f, g) ==
    /\ g = [locals |-> g.locals, stack |-> g.stack]
    /\ g.stack \in Seq(Range(g.stack)) /\ Len(g.stack) = Len(f.stack)
    /\ DOMAIN g.stack = DOMAIN f.stack
    /\ \A k \in DOMAIN f.stack : g.stack[k] = Initialized(i, r, f.stack[k])
    /\ \A n \in Nat : LocalSlot(g, n) = Initialized(i, r, LocalSlot(f, n))

LEMMA AfterConstructorSlots ==
    ASSUME NEW i, NEW r, i.member.name = "<init>", HasReceiver(i),
           r.type.k \in {"uninitialized", "uninitializedThis"},
           NEW f \in AllFrames
    PROVE  Constructs(i, r, f, AfterConstructor(i, f, r))
<1> DEFINE l == [k \in DOMAIN f.locals |-> Initialized(i, r, f.locals[k])]
           t == [k \in DOMAIN f.stack |-> Initialized(i, r, f.stack[k])]
           g == [locals |-> l, stack |-> t]
<1>1. AfterConstructor(i, f, r) = g
  <2>1. CASE r.type.k = "uninitialized"
    <3>1. AfterConstructor(i, f, r) = ReplaceUninitialized(f, r.type.at, i.member.owner)
      BY <2>1 DEF AfterConstructor
    <3> QED BY <2>1, <3>1 DEF ReplaceUninitialized, Initialize, RetypeSlots, Initialized, Taken,
               ConstructedType
  <2>2. CASE r.type.k = "uninitializedThis"
    <3>1. AfterConstructor(i, f, r) = ReplaceUninitializedThis(f, r.type.c)
      BY <2>2 DEF AfterConstructor
    <3> QED BY <2>2, <3>1 DEF ReplaceUninitializedThis, Initialize, RetypeSlots, Initialized, Taken,
               ConstructedType
  <2> QED BY <2>1, <2>2
<1>2. /\ f.stack \in Seq(AllSlots) /\ f.locals \in Seq(AllSlots)
      /\ Len(f.stack) \in Nat /\ DOMAIN f.stack = 1..Len(f.stack)
  BY FrameParts
<1>3. t \in Seq(Range(t)) /\ Len(t) = Len(f.stack) /\ DOMAIN t = DOMAIN f.stack
  <2>1. t \in [1..Len(f.stack) -> Range(t)]
    BY <1>2 DEF Range
  <2> HIDE DEF t
  <2> QED BY <1>2, <2>1
<1>4. \A k \in DOMAIN f.stack : t[k] = Initialized(i, r, f.stack[k])
  OBVIOUS
<1>5. Initialized(i, r, EmptySlot) = EmptySlot
  BY DEF Initialized, Taken, EmptySlot, Plain, Slot, Bottom
<1>6. \A n \in Nat : LocalSlot(g, n) = Initialized(i, r, LocalSlot(f, n))
  BY <1>5 DEF LocalSlot
<1>7. g.stack = t /\ g.locals = l
  OBVIOUS
<1> HIDE DEF t, l
<1>8. Constructs(i, r, f, g)
  BY <1>3, <1>4, <1>6, <1>7 DEF Constructs
<1> QED BY <1>1, <1>8

LEMMA InstancesAreObjects ==
    ASSUME NEW m \in Methods, NEW raw, raw.class \in Instantiable, NEW place \in Places(m),
           NEW object \in ObjectsOf({raw.class}, place)
    PROVE  object \in RunValues(m) /\ object.v = "object" /\ object.class = raw.class
<1>1. PICK tag \in Identities(place) : object = Obj(raw.class, tag)
  BY DEF ObjectsOf
<1>2. object \in ObjectsOf(Instantiable, place)
  BY <1>1 DEF ObjectsOf
<1>3. object \in RunValues(m)
  BY <1>2 DEF RunValues
<1> QED BY <1>1, <1>3 DEF Obj

(* What the machine and the frame are when the constructor has completed.  *)
LEMMA ConstructorFits ==
    ASSUME NEW m \in Methods, NEW e, ArgumentsAreReady(m, e), m.maxLocals \in Nat,
           NEW f \in AllFrames, NEW s, FrameFits(m, e, f, s),
           NEW n \in Nat, n <= Len(f.stack),
           NEW i, i.member.name = "<init>", HasReceiver(i),
           NEW r, NEW raw, Typed(m, r, raw), raw # Unset,
           r.type.k \in {"uninitialized", "uninitializedThis"}, Constructible(i, raw),
           NEW place \in Places(m), NEW object \in ObjectsOf({raw.class}, place)
    PROVE  FrameFits(m, e, AfterConstructor(i, Drop(f, n), r),
                     Continue(Construct(s, raw, object), n, <<>>))
<1> DEFINE d == Drop(f, n)
           g == AfterConstructor(i, d, r)
           t == Continue(Construct(s, raw, object), n, <<>>)
           P == Cells(f, s.locals, s.stack)
           Q == Cells(g, t.locals, t.stack)
<1>1. /\ Machine(m, s) /\ Sound(m, e, P) /\ Len(f.stack) = Len(s.stack)
      /\ DOMAIN f.stack = DOMAIN s.stack
  BY DEF FrameFits
<1>2. raw.class \in Instantiable /\ raw.v \in {"raw", "rawThis"}
  <2>1. raw.class \in Instantiable
    BY RawReceiver, Zenon
  <2> QED BY <2>1 DEF Constructible
<1>3. object \in RunValues(m) /\ object.v = "object" /\ object.class = raw.class
  BY <1>2, InstancesAreObjects
<1>4. n <= Len(s.stack)
  BY <1>1
<1>5. Constructed(m, s, raw, object, n, t)
  BY <1>1, <1>3, <1>4, ConstructedGoes
<1>6. d \in AllFrames /\ d = [locals |-> f.locals, stack |-> SubSeq(f.stack, 1, Len(f.stack) - n)]
  BY DroppedIsFrame, PushedAndDropped
<1>7. Constructs(i, r, d, g)
  <2> HIDE DEF d
  <2> QED BY <1>6, AfterConstructorSlots
<1>8. /\ Len(d.stack) = Len(s.stack) - n /\ DOMAIN d.stack = 1..(Len(s.stack) - n)
      /\ \A k \in 1..(Len(s.stack) - n) : d.stack[k] = f.stack[k] /\ k \in DOMAIN s.stack
      /\ \A k \in Nat : LocalSlot(d, k) = LocalSlot(f, k)
  <2>1. f.stack \in Seq(AllSlots) /\ Len(f.stack) \in Nat
    BY FrameParts
  <2>2. d.stack = SubSeq(f.stack, 1, Len(f.stack) - n) /\ d.locals = f.locals
    BY <1>6
  <2>3. \A k \in Nat : LocalSlot(d, k) = LocalSlot(f, k)
    <3> HIDE DEF d
    <3> QED BY <2>2 DEF LocalSlot
  <2> HIDE DEF d
  <2> QED BY <1>1, <2>1, <2>2, <2>3
<1> HIDE DEF t, g, d
<1>9. ASSUME NEW slot, NEW v, <<slot, v>> \in P, slot \in AllSlots
      PROVE  Remade(m, raw, object, <<slot, v>>, <<Initialized(i, r, slot), Made(raw, object, v)>>)
  <2>1. Typed(m, slot, v)
    <3> HIDE DEF P
    <3> QED BY <1>1, <1>9, HeldIsDerived
  <2>2. Typed(m, Initialized(i, r, slot), Made(raw, object, v))
    BY <1>3, <1>9, <2>1, MadeIsTyped
  <2>3. /\ Initialized(i, r, slot).origin = slot.origin
        /\ Initialized(i, r, slot).fact = slot.fact
    BY <1>9 DEF Initialized, AllSlots, SlotsWith
  <2> QED BY <2>2, <2>3 DEF Remade
<1>10. Slots(m) \subseteq Nat /\ DOMAIN s.locals = Slots(m) /\ DOMAIN t.locals = Slots(m)
  BY <1>1, <1>5 DEF Machine, Slots, Constructed
<1>11. ASSUME NEW q \in Q PROVE \E p \in P : Remade(m, raw, object, p, q)
  <2>1. CASE q \in {<<LocalSlot(g, k), t.locals[k]>> : k \in DOMAIN t.locals}
    <3>1. PICK k \in Slots(m) : q = <<LocalSlot(g, k), t.locals[k]>>
      BY <1>10, <2>1
    <3>2. <<LocalSlot(f, k), s.locals[k]>> \in P /\ LocalSlot(f, k) \in AllSlots
      BY <1>10, LocalPair
    <3>3. LocalSlot(g, k) = Initialized(i, r, LocalSlot(f, k))
      BY <1>7, <1>8, <1>10 DEF Constructs
    <3>4. t.locals[k] = Made(raw, object, s.locals[k])
      BY <1>5 DEF Constructed
    <3> HIDE DEF P
    <3> QED BY <1>9, <3>1, <3>2, <3>3, <3>4
  <2>2. CASE q \in {<<g.stack[k], t.stack[k]>> : k \in DOMAIN t.stack}
    <3>1. PICK k \in 1..(Len(s.stack) - n) : q = <<g.stack[k], t.stack[k]>>
      BY <1>5, <2>2 DEF Constructed
    <3>2. k \in DOMAIN s.stack /\ <<f.stack[k], s.stack[k]>> \in P
      BY <1>8 DEF Cells
    <3>3. f.stack[k] \in AllSlots
      BY <1>1, <3>2, FrameParts
    <3>4. g.stack[k] = Initialized(i, r, f.stack[k])
      BY <1>7, <1>8 DEF Constructs
    <3>5. t.stack[k] = Made(raw, object, s.stack[k])
      BY <1>5 DEF Constructed
    <3> HIDE DEF P
    <3> QED BY <1>9, <3>1, <3>2, <3>3, <3>4, <3>5
  <2> QED BY <2>1, <2>2 DEF Cells
<1>12. Sound(m, e, Q)
  <2> HIDE DEF P, Q
  <2> QED BY <1>1, <1>2, <1>3, <1>11, RemadeIsSound
<1>13. FrameFits(m, e, g, t)
  BY <1>5, <1>7, <1>8, <1>12 DEF FrameFits, Constructed, Constructs
<1> QED BY <1>13 DEF g, t, d

-----------------------------------------------------------------------------
(* Calls.                                                                  *)

CallPushes(m, i, f) ==
    IF i.member.owner = NoClass THEN ArrayCallResult(i) ELSE CallResult(m, i, f, Env(m))

LEMMA CallEffect ==
    ASSUME NEW m, NEW F, NEW e, NEW s, Scene(m, F, e, s), m.code[s.pc].op \in InvokeOps
    PROVE  LET i == m.code[s.pc]
               f == F[s.pc]
           IN  /\ CallPops(i) \in Nat /\ CallPops(i) <= Len(f.stack)
               /\ ArgumentCount(i) \in Nat /\ ArgumentCount(i) <= CallPops(i)
               /\ HasReceiver(i) => CallPops(i) = ArgumentCount(i) + 1
               /\ Transfer(m, s.pc, f, Env(m)) =
                      PushAll(AfterConstructor(i, Drop(f, CallPops(i)), Receiver(i, f)),
                              CallPushes(m, i, f))
<1> DEFINE i == m.code[s.pc]
           f == F[s.pc]
<1>1. i.member.descriptor.params \in Seq(Range(i.member.descriptor.params))
  BY SceneFacts DEF Operands
<1>2. ArgumentCount(i) \in Nat
  BY <1>1 DEF ArgumentCount
<1>3. /\ CallPops(i) \in Nat /\ ArgumentCount(i) <= CallPops(i)
      /\ HasReceiver(i) => CallPops(i) = ArgumentCount(i) + 1
  BY <1>2 DEF CallPops
<1>4. StackEffect(m, s.pc, f, Env(m)) = [pops |-> CallPops(i), pushes |-> CallPushes(m, i, f)]
  BY DEF StackEffect, CallPops, CallPushes
<1>5. TransferDiagnostics(m, s.pc, f, Env(m)) = {} /\ Len(f.stack) \in Nat
  BY SceneFacts, FrameParts
<1>6. ~NamesNoMethod(i)
  BY <1>5 DEF TransferDiagnostics
<1>7. ~(CallPops(i) > Len(f.stack))
  <2>1. i.op \notin StoreOps
    OBVIOUS
  <2> HIDE DEF i
  <2> QED BY <1>4, <1>5, <1>6, <2>1 DEF TransferDiagnostics, i
<1>8. Transfer(m, s.pc, f, Env(m)) =
          PushAll(AfterConstructor(i, Drop(f, CallPops(i)), Receiver(i, f)), CallPushes(m, i, f))
  BY <1>4, <1>6 DEF Transfer, Applied
<1> QED BY <1>2, <1>3, <1>5, <1>7, <1>8

(* What a call that is completed leaves: the frame and the machine.        *)
LEMMA CallGoesOn ==
    ASSUME NEW m, NEW F, NEW e, NEW s, Scene(m, F, e, s), m.code[s.pc].op \in InvokeOps,
           NEW t, FrameFits(m, e, Transfer(m, s.pc, F[s.pc], Env(m)), t),
           t.pc = s.pc + 1, t.status = s.status
    PROVE  RunFits(m, F, e, t)
<1>1. ~EndsBlock(m.code[s.pc].op)
  BY DEF EndsBlock
<1> QED BY <1>1, SceneFacts, FallsThrough

LEMMA ConstructorsRun ==
    ASSUME NEW m, NEW F, NEW e, NEW s, Scene(m, F, e, s), m.code[s.pc].op \in InvokeOps,
           m.code[s.pc].member.name = "<init>"
    PROVE  \A t \in Call(s, m.code[s.pc], Truth) : RunFits(m, F, e, t)
<1> DEFINE i == m.code[s.pc]
           f == F[s.pc]
           r == Receiver(i, f)
           raw == CallReceiver(s, i)
           n == CallPops(i)
           completed == {Continue(Construct(s, raw, object), n, <<>>) :
                             object \in ObjectsOf({raw.class}, s.pc)}
<1>1. \/ Call(s, i, Truth) = {Stuck(s)}
      \/ Call(s, i, Truth) = completed /\ Constructible(i, raw)
  BY DEF Call
<1>2. ASSUME Constructible(i, raw), NEW object \in ObjectsOf({raw.class}, s.pc)
      PROVE  RunFits(m, F, e, Continue(Construct(s, raw, object), n, <<>>))
  <2> DEFINE t == Continue(Construct(s, raw, object), n, <<>>)
             d == Drop(f, n)
             g == AfterConstructor(i, d, r)
  <2>1. /\ n \in Nat /\ n <= Len(f.stack)
        /\ ArgumentCount(i) \in Nat
        /\ HasReceiver(i) => n = ArgumentCount(i) + 1
        /\ Transfer(m, s.pc, f, Env(m)) = PushAll(g, CallPushes(m, i, f))
    BY CallEffect
  <2>2. raw.v \in {"raw", "rawThis"} /\ raw # Unset
    BY <1>2, UnsetFits DEF Constructible
  <2>3. HasReceiver(i)
    BY <2>2 DEF CallReceiver
  <2>4. r = Peek(f, n) /\ raw = At(s, n)
    BY <2>1, <2>3 DEF Receiver, CallReceiver
  <2>5. f \in AllFrames /\ FrameFits(m, e, f, s) /\ Len(f.stack) \in Nat /\ m \in Methods
        /\ ArgumentsAreReady(m, e) /\ m.maxLocals \in Nat /\ s.pc \in Places(m)
        /\ VerifiedAt(m, f, s.pc) /\ Operands(m, i)
    BY SceneFacts, FrameParts, MethodsAssumption, PlaceOfInstruction DEF Scene
  <2>6. n \in 1..Len(f.stack)
    BY <2>1, <2>3, <2>5
  <2>7. Typed(m, r, raw)
    <3> HIDE DEF r, raw, n, f
    <3> QED BY <2>4, <2>5, <2>6, PeekedFits
  <2>8. r.type.k \in {"uninitialized", "uninitializedThis"}
    BY <2>3, <2>5 DEF VerifiedAt
  <2>9. FrameFits(m, e, g, t)
    <3> HIDE DEF r, raw, n, f, i
    <3>1. i.member.name = "<init>"
      BY DEF i
    <3> QED BY <1>2, <2>1, <2>2, <2>3, <2>5, <2>7, <2>8, <3>1, ConstructorFits
  <2>10. PushAll(g, CallPushes(m, i, f)) = g
    <3>1. CallPushes(m, i, f) = <<>>
      BY <2>5 DEF CallPushes, ArrayCallResult, CallResult, Operands
    <3>2. d \in AllFrames
      BY <2>1, <2>5, DroppedIsFrame
    <3>3. Constructs(i, r, d, g)
      <4>1. i.member.name = "<init>"
        OBVIOUS
      <4> HIDE DEF d, r, i
      <4> QED BY <2>3, <2>8, <3>2, <4>1, AfterConstructorSlots
    <3>4. g = [locals |-> g.locals, stack |-> g.stack] /\ g.stack \in Seq(Range(g.stack))
      BY <3>3 DEF Constructs
    <3> HIDE DEF g
    <3>5. g.stack \o <<>> = g.stack
      BY <3>4
    <3>6. PushAll([locals |-> g.locals, stack |-> g.stack], <<>>)
              = [locals |-> g.locals, stack |-> g.stack \o <<>>]
      BY Pushed
    <3>7. PushAll(g, <<>>) = g
      BY <3>4, <3>5, <3>6
    <3> QED BY <3>1, <3>7 DEF g, i, f
  <2>11. t.pc = s.pc + 1 /\ t.status = s.status
    <3>1. object \in RunValues(m)
      <4>1. raw.class \in Instantiable
        <5> HIDE DEF raw, r, i
        <5> QED BY <1>2, <2>2, <2>5, <2>7, <2>8, RawReceiver, Zenon
      <4> HIDE DEF raw
      <4> QED BY <2>5, <4>1, InstancesAreObjects
    <3>2. Machine(m, s) /\ n <= Len(s.stack)
      BY <2>1, <2>5 DEF FrameFits
    <3>3. Constructed(m, s, raw, object, n, t)
      <4> HIDE DEF raw, n
      <4> QED BY <2>1, <3>1, <3>2, ConstructedGoes
    <3> HIDE DEF t
    <3> QED BY <3>3 DEF Constructed
  <2> HIDE DEF t, g, f, i, raw, n
  <2>12. FrameFits(m, e, Transfer(m, s.pc, f, Env(m)), t)
    BY <2>1, <2>9, <2>10
  <2> QED BY <2>11, <2>12, CallGoesOn DEF f, i, t
<1>3. Constructible(i, raw) => \A t \in completed : RunFits(m, F, e, t)
  BY <1>2
<1> HIDE DEF completed
<1> QED BY <1>1, <1>3, StuckFits

(* A method called is no constructor, and pushes what its callee returns.  *)
LEMMA CallYields ==
    ASSUME NEW m, NEW F, NEW e, NEW s, Scene(m, F, e, s), m.code[s.pc].op \in InvokeOps,
           m.code[s.pc].member.name # "<init>"
    PROVE  /\ CallPushes(m, m.code[s.pc], F[s.pc]) = <<>> =>
                  RunFits(m, F, e, Continue(s, CallPops(m.code[s.pc]), <<>>))
           /\ \A slot, v :
                  /\ CallPushes(m, m.code[s.pc], F[s.pc]) = <<slot>>
                  /\ Fits(m, Cells(F[s.pc], s.locals, s.stack), slot, v)
                  => RunFits(m, F, e, Continue(s, CallPops(m.code[s.pc]), <<v>>))
<1> DEFINE i == m.code[s.pc]
           f == F[s.pc]
           n == CallPops(i)
           pushes == CallPushes(m, i, f)
<1>1. /\ n \in Nat /\ n <= Len(f.stack)
      /\ Transfer(m, s.pc, f, Env(m)) = PushAll(AfterConstructor(i, Drop(f, n), Receiver(i, f)), pushes)
  BY CallEffect
<1>2. AfterConstructor(i, Drop(f, n), Receiver(i, f)) = Drop(f, n)
  BY DEF AfterConstructor
<1>3. f \in AllFrames /\ FrameFits(m, e, f, s)
  BY SceneFacts
<1>4. Machine(m, s)
  BY <1>3 DEF FrameFits
<1> HIDE DEF n, pushes, i, f
<1>5. ASSUME NEW values, FrameFits(m, e, PushAll(Drop(f, n), pushes), Continue(s, n, values))
      PROVE  RunFits(m, F, e, Continue(s, n, values))
  <2>1. Continue(s, n, values).pc = s.pc + 1 /\ Continue(s, n, values).status = s.status
    BY <1>4, JumpGoes DEF Continue
  <2> QED BY <1>1, <1>2, <1>5, <2>1, CallGoesOn DEF i, f
<1>6. ASSUME pushes = <<>> PROVE RunFits(m, F, e, Continue(s, n, <<>>))
  BY <1>1, <1>3, <1>5, <1>6, NothingPushed DEF Continue
<1>7. ASSUME NEW slot, NEW v, pushes = <<slot>>, Fits(m, Cells(f, s.locals, s.stack), slot, v)
      PROVE  RunFits(m, F, e, Continue(s, n, <<v>>))
  BY <1>1, <1>3, <1>5, <1>7, OnePushed DEF Continue, Fits
<1> QED BY <1>6, <1>7 DEF n, pushes, i, f

(* Every argument is in the frame, and the receiver is below them.         *)
LEMMA ArgumentsMet ==
    ASSUME NEW m, NEW F, NEW e, NEW s, Scene(m, F, e, s), m.code[s.pc].op \in InvokeOps
    PROVE  LET i == m.code[s.pc]
               f == F[s.pc]
               args == CallArguments(s, i)
           IN  /\ DOMAIN args = DOMAIN i.member.descriptor.params
               /\ \A k \in DOMAIN args :
                     /\ Fits(m, Cells(f, s.locals, s.stack), Argument(i, f, k), args[k])
                     /\ args[k] \in RunValues(m) /\ Argument(i, f, k) \in AllSlots
               /\ HasReceiver(i) =>
                     /\ Typed(m, Receiver(i, f), CallReceiver(s, i))
                     /\ <<Receiver(i, f), CallReceiver(s, i)>> \in Cells(f, s.locals, s.stack)
                     /\ CallReceiver(s, i) \in RunValues(m)
<1> DEFINE i == m.code[s.pc]
           f == F[s.pc]
           args == CallArguments(s, i)
           c == ArgumentCount(i)
<1>1. /\ CallPops(i) \in Nat /\ CallPops(i) <= Len(f.stack)
      /\ c \in Nat /\ c <= CallPops(i)
      /\ HasReceiver(i) => CallPops(i) = c + 1
  BY CallEffect
<1>2. f \in AllFrames /\ FrameFits(m, e, f, s) /\ Len(f.stack) \in Nat
  BY SceneFacts, FrameParts
<1>3. i.member.descriptor.params \in Seq(Range(i.member.descriptor.params))
  BY SceneFacts DEF Operands
<1>4. DOMAIN args = DOMAIN i.member.descriptor.params /\ DOMAIN args = 1..c
  BY <1>3 DEF CallArguments, ArgumentCount
<1>5. \A k \in DOMAIN args : args[k] = At(s, c + 1 - k) /\ Argument(i, f, k) = Peek(f, c + 1 - k)
  BY DEF CallArguments, Argument
<1> HIDE DEF args, c
<1>6. ASSUME NEW k \in DOMAIN args
      PROVE  /\ Fits(m, Cells(f, s.locals, s.stack), Argument(i, f, k), args[k])
             /\ args[k] \in RunValues(m) /\ Argument(i, f, k) \in AllSlots
  <2>1. c + 1 - k \in 1..Len(f.stack)
    BY <1>1, <1>2, <1>4
  <2> HIDE DEF f
  <2> QED BY <1>2, <1>5, <2>1, PeekedFits, PeekIsTop DEF Fits
<1>7. ASSUME HasReceiver(i)
      PROVE  /\ Typed(m, Receiver(i, f), CallReceiver(s, i))
             /\ <<Receiver(i, f), CallReceiver(s, i)>> \in Cells(f, s.locals, s.stack)
             /\ CallReceiver(s, i) \in RunValues(m)
  <2>1. c + 1 \in 1..Len(f.stack)
    BY <1>1, <1>2, <1>7
  <2>2. Receiver(i, f) = Peek(f, c + 1) /\ CallReceiver(s, i) = At(s, c + 1)
    BY <1>7 DEF Receiver, CallReceiver, c
  <2> HIDE DEF f, i
  <2> QED BY <1>2, <2>1, <2>2, PeekedPair, PeekedFits
<1> QED BY <1>4, <1>6, <1>7 DEF args

LEMMA ArrayCallsRun ==
    ASSUME NEW m, NEW F, NEW e, NEW s, Scene(m, F, e, s), m.code[s.pc].op \in InvokeOps,
           m.code[s.pc].member.name # "<init>", m.code[s.pc].member.owner = NoClass,
           m.code[s.pc].member.descriptor.ret # Void,
           HasReceiver(m.code[s.pc]) =>
               InstanceOf(ArrayRef(m.code[s.pc].member.array), CallReceiver(s, m.code[s.pc]))
    PROVE  \A t \in CallArray(s, m.code[s.pc], CallReceiver(s, m.code[s.pc])) : RunFits(m, F, e, t)
<1> DEFINE i == m.code[s.pc]
           f == F[s.pc]
           P == Cells(f, s.locals, s.stack)
           receiver == CallReceiver(s, i)
           ret == i.member.descriptor.ret
           clone == i.op = "invokevirtual" /\ i.member.name = "clone"
                    /\ i.member.descriptor.params = <<>> /\ ret = ObjectDescriptor
           values == IF clone THEN ArraysOf({receiver.d}, s.pc) ELSE ValuesOf(ret, 0)
           type == IF clone THEN ArrayRef(i.member.array) ELSE TypeOfDescriptor(ret)
<1>1. CallArray(s, i, receiver) = Yield(s, CallPops(i), values)
  BY DEF CallArray
<1>2. CallPushes(m, i, f) = <<Plain(type)>>
  BY DEF CallPushes, ArrayCallResult
<1>3. s.pc \in Places(m) /\ 0 \in Places(m)
  BY PlaceOfInstruction
<1>4. ASSUME NEW v \in values PROVE Fits(m, P, Plain(type), v)
  <2>1. CASE clone
    <3>1. receiver \in RunValues(m) /\ InstanceOf(ArrayRef(i.member.array), receiver)
      BY <2>1, ArgumentsMet DEF HasReceiver
    <3>2. receiver.v = "array" /\ IsSubtypeArray(Supertypes, receiver.d, i.member.array)
      BY <3>1 DEF InstanceOf, InstanceIn, ArrayRef
    <3>3. receiver.d \in Arrays
      BY <3>1, <3>2, ArraysMet
    <3>4. PICK tag \in Identities(s.pc) : v = ArrayObj(receiver.d, tag)
      BY <1>4, <2>1 DEF ArraysOf
    <3>5. v \in ArraysOf(Arrays, s.pc)
      BY <3>3, <3>4 DEF ArraysOf
    <3>6. v \in RunValues(m)
      BY <1>3, <3>5 DEF RunValues
    <3>7. v.v = "array" /\ v.d = receiver.d
      BY <3>4 DEF ArrayObj
    <3>8. InstanceOf(ArrayRef(i.member.array), v)
      BY <3>2, <3>7 DEF InstanceOf, InstanceIn, ArrayRef
    <3>9. Describes(type, v)
      BY <2>1, <3>8, InstancesDescribed
    <3> HIDE DEF type, P
    <3> QED BY <3>6, <3>7, <3>9, PlainFits DEF Fits
  <2>2. CASE ~clone
    <3>1. v \in ValuesOf(ret, 0)
      BY <1>4, <2>2
    <3>2. v \in RunValues(m) /\ v.v # "raw" /\ Describes(TypeOfDescriptor(ret), v)
      <4> HIDE DEF ret
      <4> QED BY <1>3, <3>1, ValuesOfType
    <3>3. type = TypeOfDescriptor(ret)
      BY <2>2
    <3> HIDE DEF type, P, ret
    <3> QED BY <3>2, <3>3, PlainFits DEF Fits
  <2> QED BY <2>1, <2>2
<1> HIDE DEF type, values
<1>5. \A v \in values : RunFits(m, F, e, Continue(s, CallPops(i), <<v>>))
  BY <1>2, <1>4, CallYields
<1> QED BY <1>1, <1>5 DEF Yield

(* What a callee returns, told by the frame and by the resolvers.          *)
LEMMA ReturnedValues ==
    ASSUME NEW m, NEW F, NEW e, NEW s, Scene(m, F, e, s), m.code[s.pc].op \in InvokeOps,
           NEW receiver,
           NEW v \in Returns(m.code[s.pc], Truth, CallArguments(s, m.code[s.pc]), receiver)
    PROVE  Typed(m, Plain(TypeOfDescriptor(m.code[s.pc].member.descriptor.ret)), v)
<1> DEFINE i == m.code[s.pc]
           ret == i.member.descriptor.ret
           args == CallArguments(s, i)
<1>1. CASE \E k \in DOMAIN args : v = args[k] /\ Describes(TypeOfDescriptor(ret), v)
  <2>1. PICK k \in DOMAIN args : v = args[k] /\ Describes(TypeOfDescriptor(ret), v)
    BY <1>1
  <2>2. Typed(m, Argument(i, F[s.pc], k), v)
    BY <2>1, ArgumentsMet DEF Fits
  <2> HIDE DEF ret
  <2>3. Plain(TypeOfDescriptor(ret)).type = TypeOfDescriptor(ret)
        /\ Plain(TypeOfDescriptor(ret)).targets.known = FALSE
    BY DEF Plain, Slot, UnknownTargets
  <2>4. Typed(m, Plain(TypeOfDescriptor(ret)), v)
    BY <2>1, <2>2, <2>3 DEF Typed, SlotDescribes, Describes
  <2> QED BY <2>4 DEF ret
<1>2. CASE v \in ValuesOf(ret, 0)
  <2> HIDE DEF ret
  <2>1. 0 \in Places(m)
    BY PlaceOfInstruction
  <2>2. v \in RunValues(m) /\ v.v # "raw" /\ Describes(TypeOfDescriptor(ret), v)
    BY <1>2, <2>1, ValuesOfType
  <2>3. Typed(m, Plain(TypeOfDescriptor(ret)), v)
    BY <2>2, PlainFits
  <2> QED BY <2>3 DEF ret
<1>3. (\E k \in DOMAIN args : v = args[k] /\ Describes(TypeOfDescriptor(ret), v))
      \/ v \in ValuesOf(ret, 0)
  BY DEF Returns
<1> QED BY <1>1, <1>2, <1>3

(* An object that was allocated with exactly the class that a call names.  *)
LEMMA ExactReceivers ==
    ASSUME NEW m, NEW F, NEW e, NEW s, Scene(m, F, e, s), m.code[s.pc].op \in InvokeOps,
           HasReceiver(m.code[s.pc]),
           InstanceOf(Exact(m.code[s.pc].member.owner), CallReceiver(s, m.code[s.pc])),
           ReceiverIsExactAllocation(m, m.code[s.pc], Receiver(m.code[s.pc], F[s.pc]))
    PROVE  LET receiver == CallReceiver(s, m.code[s.pc])
           IN  receiver.v = "object" /\ receiver.class = m.code[s.pc].member.owner
<1> DEFINE i == m.code[s.pc]
           f == F[s.pc]
           r == Receiver(i, f)
           receiver == CallReceiver(s, i)
<1>1. <<r, receiver>> \in Cells(f, s.locals, s.stack)
  BY ArgumentsMet
<1>2. r.origin.k = "allocation" /\ m.code[r.origin.at].class = i.member.owner
  BY DEF ReceiverIsExactAllocation
<1>3. receiver # Unset /\ receiver.v # "raw"
  BY DEF InstanceOf, InstanceIn, Unset
<1>4. Sound(m, e, Cells(f, s.locals, s.stack))
  BY SceneFacts DEF FrameFits
<1>5. OriginFits(m, e, r, receiver)
  <2> HIDE DEF r, receiver
  <2> QED BY <1>1, <1>3, <1>4 DEF Sound
<1> HIDE DEF r, receiver, i
<1>6. receiver.v = "object" /\ receiver.class = i.member.owner
  BY <1>2, <1>3, <1>5 DEF OriginFits
<1> QED BY <1>6 DEF receiver, i

LEMMA CallsAreTold ==
    ASSUME NEW m, NEW F, NEW e, NEW s, Scene(m, F, e, s), m.code[s.pc].op \in InvokeOps,
           m.code[s.pc].member \notin Linked,
           m.code[s.pc].member.owner # NoClass, m.code[s.pc].member.descriptor.ret # Void,
           Fit(m.code[s.pc], CallArguments(s, m.code[s.pc])),
           HasReceiver(m.code[s.pc]) =>
               InstanceOf(Exact(m.code[s.pc].member.owner), CallReceiver(s, m.code[s.pc])),
           NEW v \in Returns(m.code[s.pc], Truth, CallArguments(s, m.code[s.pc]),
                             CallReceiver(s, m.code[s.pc]))
    PROVE  ToldOfCall(m, m.code[s.pc],
                      ReceiverIsExactAllocation(m, m.code[s.pc], Receiver(m.code[s.pc], F[s.pc])),
                      CallArguments(s, m.code[s.pc]), v)
<1> DEFINE i == m.code[s.pc]
           f == F[s.pc]
           r == Receiver(i, f)
           receiver == CallReceiver(s, i)
           args == CallArguments(s, i)
           exact == ReceiverIsExactAllocation(m, i, r)
<1>1. i \in Instructions(m, InvokeOps)
  <2>1. s.pc \in DOMAIN m.code /\ m \in Methods
    BY SceneFacts, MethodsAssumption
  <2>2. i \in Range(m.code)
    BY <2>1 DEF Range
  <2> QED BY <2>1, <2>2 DEF Instructions
<1>2. RunValues(m) \subseteq Values
  BY MethodsAssumption DEF Scene
<1>3. args \in ArgumentsOf(i)
  <2>1. /\ DOMAIN args = DOMAIN i.member.descriptor.params
        /\ \A k \in DOMAIN args : args[k] \in Values
    BY <1>2, ArgumentsMet
  <2>2. args = [k \in DOMAIN args |-> args[k]]
    BY DEF CallArguments
  <2>3. args \in [DOMAIN i.member.descriptor.params -> Values]
    <3> HIDE DEF args
    <3> QED BY <2>1, <2>2
  <2> QED BY <2>3 DEF ArgumentsOf
<1>4. exact \in BOOLEAN
  BY DEF ReceiverIsExactAllocation
<1>5. receiver \in ReceiversOf(i, exact)
  <2>1. CASE ~HasReceiver(i)
    BY <2>1 DEF ReceiversOf, CallReceiver
  <2>2. CASE HasReceiver(i)
    <3>1. receiver \in Values /\ InstanceOf(Exact(i.member.owner), receiver)
      BY <1>2, <2>2, ArgumentsMet
    <3>2. exact => receiver.v = "object" /\ receiver.class = i.member.owner
      BY <2>2, ExactReceivers
    <3> HIDE DEF receiver, exact
    <3> QED BY <2>2, <3>1, <3>2 DEF ReceiversOf
  <2> QED BY <2>1, <2>2
<1> HIDE DEF exact, args, receiver
<1>6. v \in Returns(i, Truth, args, receiver)
  BY DEF args, receiver
<1>7. ToldOfCall(m, i, exact, args, v)
  BY <1>1, <1>3, <1>4, <1>5, <1>6, CalleesAreAsTold DEF Scene
<1> QED BY <1>7 DEF exact, args

(* The frame gets what the resolvers tell of the call, for whatever value  *)
(* that is true of.                                                        *)
LEMMA AnswerFits ==
    ASSUME NEW m, NEW F, NEW e, NEW s, Scene(m, F, e, s), m.code[s.pc].op \in InvokeOps,
           m.code[s.pc].member.owner # NoClass, m.code[s.pc].member.descriptor.ret # Void,
           NEW v, Typed(m, Plain(TypeOfDescriptor(m.code[s.pc].member.descriptor.ret)), v),
           ToldOfCall(m, m.code[s.pc],
                      ReceiverIsExactAllocation(m, m.code[s.pc], Receiver(m.code[s.pc], F[s.pc])),
                      CallArguments(s, m.code[s.pc]), v)
    PROVE  \E slot : /\ CallPushes(m, m.code[s.pc], F[s.pc]) = <<slot>>
                     /\ Fits(m, Cells(F[s.pc], s.locals, s.stack), slot, v)
<1> DEFINE i == m.code[s.pc]
           f == F[s.pc]
           P == Cells(f, s.locals, s.stack)
           args == CallArguments(s, i)
           ret == i.member.descriptor.ret
           exact == ReceiverIsExactAllocation(m, i, Receiver(i, f))
           kind == InvocationKind(i.op)
           told == ReturnTypeForCall(Env(m), i.member, kind, exact)
           summary == ResolveMethodSummary(i, Env(m), exact)
           index == ReturnedParameterForCall(Env(m), i.member, kind, exact)
           argument == Argument(i, f, index)
           sharper == summary # None /\ summary # TypeOfDescriptor(i.member.descriptor.params[index])
                                     /\ argument.type # Null
           value == IF sharper THEN [argument EXCEPT !.type = summary] ELSE argument
           given == index \in DOMAIN args /\ SummaryMatches(ret, value.type)
           plain == Plain(IF summary # None THEN summary ELSE TypeOfDescriptor(ret))
<1>1. ToldOfCall(m, i, exact, args, v)
  OBVIOUS
<1>2. Typed(m, Plain(TypeOfDescriptor(ret)), v)
  OBVIOUS
<1>3. summary # None => Describes(summary, v)
  BY <1>1 DEF ToldOfCall, ResolveMethodSummary
<1>4. index \in DOMAIN args => v = args[index]
  BY <1>1 DEF ToldOfCall
<1>5. DOMAIN args = DOMAIN i.member.descriptor.params
  BY ArgumentsMet
<1>6. CallPushes(m, i, f) = IF given THEN <<value>> ELSE <<plain>>
  BY <1>5 DEF CallPushes, CallResult, ResolveReturnedParameter
<1>7. ASSUME given PROVE Fits(m, P, value, v)
  <2>1. /\ Fits(m, P, argument, v) /\ argument \in AllSlots
    BY <1>4, <1>7, ArgumentsMet
  <2> HIDE DEF P, argument, summary
  <2>2. CASE sharper
    <3>1. value = [argument EXCEPT !.type = summary]
      BY <2>2
    <3>2. /\ value.type = summary /\ value.origin = argument.origin
          /\ value.fact = argument.fact /\ value.targets = argument.targets
      BY <2>1, <3>1 DEF AllSlots, SlotsWith
    <3> HIDE DEF value
    <3>3. Typed(m, value, v)
      BY <1>3, <2>1, <2>2, <3>2 DEF Fits, Typed, SlotDescribes, Describes
    <3>4. Derived(P, <<value, v>>)
      BY <2>1, <3>2 DEF Fits, Derived
    <3> QED BY <3>3, <3>4 DEF Fits
  <2>3. CASE ~sharper
    BY <2>1, <2>3
  <2> QED BY <2>2, <2>3
<1>8. Fits(m, P, plain, v)
  <2> HIDE DEF summary, ret
  <2>1. DescribesIn(Supertypes, plain.type, v)
    BY <1>2, <1>3 DEF Plain, Slot, Typed, SlotDescribes, Describes
  <2>2. ~plain.targets.known /\ plain.origin = None /\ plain.fact = None
    BY DEF Plain, Slot, UnknownTargets
  <2> HIDE DEF plain, P
  <2> QED BY <1>2, <2>1, <2>2 DEF Fits, Derived, Typed, SlotDescribes
<1> HIDE DEF given, value, plain
<1> QED BY <1>6, <1>7, <1>8

LEMMA CallsRun ==
    ASSUME NEW m, NEW F, NEW e, NEW s, Scene(m, F, e, s), m.code[s.pc].op \in InvokeOps,
           m.code[s.pc].member \notin Linked
    PROVE  \A t \in Normal(m, s, Truth) : RunFits(m, F, e, t)
<1> DEFINE i == m.code[s.pc]
           receiver == CallReceiver(s, i)
           args == CallArguments(s, i)
           ret == i.member.descriptor.ret
           n == CallPops(i)
           type == IF i.member.owner = NoClass THEN ArrayRef(i.member.array)
                   ELSE Exact(i.member.owner)
           met == HasReceiver(i) => InstanceOf(type, receiver)
<1>1. Normal(m, s, Truth) = Call(s, i, Truth)
  BY DEF Normal
<1>2. CASE i.member.name = "<init>"
  BY <1>1, <1>2, ConstructorsRun
<1>3. CASE i.member.name # "<init>"
  <2>1. \/ Call(s, i, Truth) = {Stuck(s)}
        \/ Call(s, i, Truth) = {}
        \/ Fit(i, args) /\ met /\
             \/ ret = Void /\ Call(s, i, Truth) = {Continue(s, n, <<>>)}
             \/ ret # Void /\ i.member.owner = NoClass /\ Call(s, i, Truth) = CallArray(s, i, receiver)
             \/ ret # Void /\ i.member.owner # NoClass
                  /\ Call(s, i, Truth) = Yield(s, n, Returns(i, Truth, args, receiver))
    BY <1>3 DEF Call
  <2>2. ASSUME ret = Void PROVE RunFits(m, F, e, Continue(s, n, <<>>))
    <3>1. CallPushes(m, i, F[s.pc]) = <<>>
      BY <2>2 DEF CallPushes, ArrayCallResult, CallResult
    <3> QED BY <1>3, <3>1, CallYields
  <2>3. ASSUME ret # Void, i.member.owner = NoClass, met
        PROVE  \A t \in CallArray(s, i, receiver) : RunFits(m, F, e, t)
    BY <1>3, <2>3, ArrayCallsRun
  <2>4. ASSUME ret # Void, i.member.owner # NoClass, met, Fit(i, args),
               NEW v \in Returns(i, Truth, args, receiver)
        PROVE  RunFits(m, F, e, Continue(s, n, <<v>>))
    <3>1. \E slot : /\ CallPushes(m, i, F[s.pc]) = <<slot>>
                    /\ Fits(m, Cells(F[s.pc], s.locals, s.stack), slot, v)
      BY <2>4, CallsAreTold, ReturnedValues, AnswerFits
    <3> QED BY <1>3, <3>1, CallYields
  <2>5. ASSUME ret # Void, i.member.owner # NoClass, met, Fit(i, args)
        PROVE  \A t \in Yield(s, n, Returns(i, Truth, args, receiver)) : RunFits(m, F, e, t)
    <3> HIDE DEF n, ret, args, receiver, met
    <3> QED BY <2>4, <2>5 DEF Yield
  <2> HIDE DEF ret, met, args, receiver, n
  <2>6. \A t \in Call(s, i, Truth) : RunFits(m, F, e, t)
    BY <2>1, <2>2, <2>3, <2>5, StuckFits
  <2> QED BY <1>1, <2>6
<1> QED BY <1>2, <1>3

(* Whatever the instruction, short of a throw.                             *)
LEMMA NormalRuns ==
    ASSUME NEW m, NEW F, NEW e, NEW s, Scene(m, F, e, s), ~LinkedCall(m, s)
    PROVE  \A t \in Normal(m, s, Truth) : RunFits(m, F, e, t)
<1> DEFINE op == m.code[s.pc].op
           covered == {"aconst_null", "iconst", "lconst", "iinc", "iadd", "i2b", "pop", "instanceof",
                       "checkcast", "ifeq", "ifne", "ifnull", "ifnonnull", "goto", "jsr", "ret",
                       "return", "new", "newarray", "aaload", "getstatic", "putstatic"}
                      \cup LoadOps \cup StoreOps \cup ShuffleOps \cup SwitchOps \cup ValueReturnOps
                      \cup InvokeOps
<1>1. CASE op \notin covered
  <2>1. Normal(m, s, Truth) = {Stuck(s)}
    BY <1>1 DEF Normal
  <2> QED BY <2>1, StuckFits
<1>2. CASE op \in {"aconst_null", "iconst", "lconst"}
  BY <1>2, ConstantsRun
<1>3. CASE op \in LoadOps
  BY <1>3, LoadsRun
<1>4. CASE op \in StoreOps
  BY <1>4, StoresRun
<1>5. CASE op = "iinc"
  BY <1>5, IncrementsRun
<1>6. CASE op \in {"iadd", "i2b"}
  BY <1>6, ArithmeticRuns
<1>7. CASE op \in ShuffleOps
  BY <1>7, ShufflesRun
<1>8. CASE op \in {"pop", "putstatic"}
  BY <1>8, PopsRun
<1>9. CASE op = "instanceof"
  BY <1>9, TestsRun
<1>10. CASE op = "checkcast"
  BY <1>10, CastsRun
<1>11. CASE op \in {"ifeq", "ifne"}
  BY <1>11, IntegerTestsRun
<1>12. CASE op \in {"ifnull", "ifnonnull"}
  BY <1>12, NullTestsRun
<1>13. CASE op = "goto"
  BY <1>13, GotosRun
<1>14. CASE op \in SwitchOps
  BY <1>14, SwitchesRun
<1>15. CASE op = "jsr"
  BY <1>15, SubroutinesRun
<1>16. CASE op = "ret"
  BY <1>16, SubroutinesReturn
<1>17. CASE op \in ValueReturnOps \cup {"return"}
  BY <1>17, ReturnsRun
<1>18. CASE op = "new"
  BY <1>18, AllocationsRun
<1>19. CASE op \in InvokeOps
  BY <1>19, CallsRun DEF LinkedCall
<1>20. CASE op = "newarray"
  BY <1>20, NewArraysRun
<1>21. CASE op = "aaload"
  BY <1>21, ArrayLoadsRun
<1>22. CASE op = "getstatic"
  BY <1>22, FieldReadsRun
<1> HIDE DEF op
<1> QED
  BY <1>1, <1>2, <1>3, <1>4, <1>5, <1>6, <1>7, <1>8, <1>9, <1>10, <1>11, <1>12, <1>13, <1>14, <1>15,
     <1>16, <1>17, <1>18, <1>19, <1>20, <1>21, <1>22

-----------------------------------------------------------------------------
(* Exceptions.                                                             *)

LEMMA ThrowableValue ==
    ASSUME NEW m, NEW thrown \in RunValues(m), thrown.v = "object",
           NEW class, class \in Supertypes[thrown.class]
    PROVE  Typed(m, Plain(Exact(class)), thrown)
<1>1. InstanceOf(Exact(class), thrown)
  BY DEF InstanceOf, InstanceIn, Exact
<1>2. Describes(Exact(class), thrown)
  BY <1>1, InstancesDescribed
<1> QED BY <1>2, PlainFits

LEMMA HandlerFits ==
    ASSUME NEW m \in Methods, NEW e, NEW f \in AllFrames, NEW s, FrameFits(m, e, f, s),
           NEW thrown \in RunValues(m), thrown.v = "object",
           Throwable \in Supertypes[thrown.class],
           NEW catchType,
           catchType = NoCatchType \/ catchType \in Supertypes[thrown.class],
           NEW pc
    PROVE  FrameFits(m, e, ExceptionFrame(f, catchType), Jump(s, pc, <<thrown>>))
<1> DEFINE P == Cells(f, s.locals, s.stack)
           class == IF catchType = NoCatchType THEN Throwable ELSE catchType
           slot == Plain(Exact(class))
           g == ExceptionFrame(f, catchType)
           t == Jump(s, pc, <<thrown>>)
<1>1. Machine(m, s) /\ Sound(m, e, P)
  BY DEF FrameFits
<1>2. Typed(m, slot, thrown) /\ slot.origin = None /\ slot.fact = None
  <2>1. Typed(m, slot, thrown)
    <3> HIDE DEF slot, class
    <3>1. class \in Supertypes[thrown.class]
      BY DEF class
    <3> QED BY <3>1, ThrowableValue DEF slot
  <2> QED BY <2>1 DEF Plain, Slot
<1>3. g.locals = f.locals /\ g.stack = <<slot>>
  BY DEF ExceptionFrame
<1>4. t = [pc |-> pc, locals |-> s.locals, stack |-> <<thrown>>,
           status |-> s.status, result |-> s.result]
  BY <1>1, JumpParts
<1>5. t.locals = s.locals /\ t.stack = <<thrown>>
  BY <1>4
<1> HIDE DEF g, t, slot
<1>6. Machine(m, t)
  <2>1. t = [pc |-> t.pc, locals |-> t.locals, stack |-> t.stack,
             status |-> t.status, result |-> t.result]
    BY <1>4
  <2> QED BY <1>1, <1>5, <2>1 DEF Machine
<1>7. \A n \in Slots(m) : Fits(m, P, LocalSlot(g, n), t.locals[n])
  <2>1. \A n \in Slots(m) : Fits(m, P, LocalSlot(f, n), s.locals[n])
    <3> HIDE DEF P
    <3>1. Cells(f, s.locals, s.stack) \subseteq P
      BY DEF P
    <3> QED BY <1>1, <3>1, CellsFit
  <2>2. \A n : LocalSlot(g, n) = LocalSlot(f, n)
    BY <1>3 DEF LocalSlot
  <2> HIDE DEF P
  <2> QED BY <1>5, <2>1, <2>2
<1>8. Fits(m, P, slot, thrown)
  BY <1>2 DEF Fits, Derived
<1>9. /\ Len(g.stack) = 1 /\ Len(t.stack) = 1 /\ DOMAIN g.stack = {1} /\ DOMAIN t.stack = {1}
      /\ g.stack[1] = slot /\ t.stack[1] = thrown
  BY <1>3, <1>5
<1>10. \A n \in DOMAIN t.stack : Fits(m, P, g.stack[n], t.stack[n])
  BY <1>8, <1>9
<1>11. FrameFits(m, e, g, t)
  <2> HIDE DEF P
  <2> QED BY <1>1, <1>6, <1>7, <1>9, <1>10, CellwiseFits
<1> QED BY <1>11 DEF g, t

LEMMA ThrowsRun ==
    ASSUME NEW m, NEW F, NEW e, NEW s, Scene(m, F, e, s), MayThrow(m.code[s.pc].op),
           NEW thrown \in RunValues(m), thrown.v = "object", thrown.class \in ThrowableClasses
    PROVE  RunFits(m, F, e, Throw(m, s, thrown))
<1> DEFINE catches(h) == /\ h.from <= s.pc /\ s.pc < h.to
                         /\ h.catchType = NoCatchType \/ h.catchType \in Supertypes[thrown.class]
           live == {n \in DOMAIN m.handlers : catches(m.handlers[n])}
           first == CHOOSE n \in live : \A k \in live : n <= k
           h == m.handlers[first]
           t == Jump(s, h.at, <<thrown>>)
<1>1. /\ m \in Methods /\ Closed(Env(m), m, F) /\ s.status = "running" /\ HandlersClosed(m, F, s.pc)
      /\ F[s.pc] \in AllFrames /\ FrameFits(m, e, F[s.pc], s)
  BY SceneFacts
<1>2. CASE live = {}
  <2>1. Throw(m, s, thrown) = [s EXCEPT !.status = "threw"]
    BY <1>2 DEF Throw
  <2>2. DOMAIN s = {"pc", "locals", "stack", "status", "result"}
    BY <1>1 DEF FrameFits, Machine
  <2>3. [s EXCEPT !.status = "threw"].status = "threw"
    BY <2>2
  <2> QED BY <2>1, <2>3 DEF RunFits
<1>3. CASE live # {}
  <2>1. Throw(m, s, thrown) = t
    BY <1>3 DEF Throw
  <2>2. live \subseteq Nat
    <3>1. m.handlers \in Seq(Range(m.handlers))
      BY <1>1, MethodsAssumption
    <3> QED BY <3>1
  <2>3. first \in live
    <3>1. \E n \in live : \A k \in live : n <= k
      <4> HIDE DEF live
      <4> QED BY <1>3, <2>2, LeastNumber
    <3> HIDE DEF live
    <3> QED BY <3>1
  <2> HIDE DEF first
  <2>4. /\ h \in Range(m.handlers) /\ h.from <= s.pc /\ s.pc < h.to
        /\ h.catchType = NoCatchType \/ h.catchType \in Supertypes[thrown.class]
    BY <2>3 DEF Range
  <2>5. AdmitsAt(F, h.at, ExceptionFrame(F[s.pc], h.catchType))
    <3> HIDE DEF h
    <3> QED BY <1>1, <2>4 DEF HandlersClosed
  <2>6. FrameFits(m, e, ExceptionFrame(F[s.pc], h.catchType), t)
    <3> HIDE DEF h
    <3>1. Throwable \in Supertypes[thrown.class]
      BY DEF ThrowableClasses
    <3> QED BY <1>1, <2>4, <3>1, HandlerFits
  <2>7. t.pc = h.at /\ t.status = "running"
    <3> HIDE DEF h
    <3> QED BY <1>1, JumpGoes DEF FrameFits
  <2> HIDE DEF t, h
  <2>8. RunFits(m, F, e, t)
    BY <1>1, <2>5, <2>6, <2>7, Lands
  <2> QED BY <2>1, <2>8
<1> QED BY <1>2, <1>3

LEMMA ThrowsAnyRun ==
    ASSUME NEW m, NEW F, NEW e, NEW s, Scene(m, F, e, s), MayThrow(m.code[s.pc].op),
           NEW t \in ThrowAny(m, s)
    PROVE  RunFits(m, F, e, t)
<1>1. PICK v \in ObjectsOf(ThrowableClasses, s.pc) : t = Throw(m, s, v)
  BY DEF ThrowAny
<1>2. PICK c \in ThrowableClasses, tag \in Identities(s.pc) : v = Obj(c, tag)
  BY DEF ObjectsOf
<1>3. v.v = "object" /\ v.class \in ThrowableClasses
  BY <1>2 DEF Obj
<1>4. v \in RunValues(m)
  <2>1. c \in Instantiable
    BY DEF ThrowableClasses
  <2>2. v \in ObjectsOf(Instantiable, s.pc)
    BY <1>2, <2>1 DEF ObjectsOf
  <2> QED BY <2>2, PlaceOfInstruction DEF RunValues
<1> QED BY <1>1, <1>3, <1>4, ThrowsRun

(* Every step of a machine that fits the frames leads to one that does.    *)
LEMMA StepsRun ==
    ASSUME NEW m, NEW F, NEW e, NEW s, Scene(m, F, e, s), ~LinkedCall(m, s),
           NEW t \in Steps(m, s, Truth)
    PROVE  RunFits(m, F, e, t)
<1> DEFINE op == m.code[s.pc].op
           thrown == At(s, 1)
<1>1. ASSUME MayThrow(op), t \in ThrowAny(m, s) PROVE RunFits(m, F, e, t)
  BY <1>1, ThrowsAnyRun
<1>2. CASE op = "athrow"
  <2>1. MayThrow(op)
    BY <1>2 DEF MayThrow
  <2>2. \/ thrown.v = "object" /\ thrown.class \in ThrowableClasses /\ t = Throw(m, s, thrown)
        \/ t \in ThrowAny(m, s)
        \/ t \in {Stuck(s)}
    BY <1>2 DEF Steps
  <2>3. ASSUME thrown.v = "object" PROVE thrown \in RunValues(m)
    <3>1. 1 <= Len(s.stack) /\ thrown = s.stack[Len(s.stack) - 1 + 1]
      BY <2>3, UnsetFits DEF At
    <3>2. s.stack \in Seq(RunValues(m))
      BY SceneFacts DEF FrameFits, Machine
    <3> QED BY <3>1, <3>2
  <2> HIDE DEF thrown
  <2> QED BY <1>1, <2>1, <2>2, <2>3, ThrowsRun, StuckFits
<1>3. CASE op # "athrow"
  <2>1. t \in Normal(m, s, Truth) \/ (MayThrow(op) /\ t \in ThrowAny(m, s))
    BY <1>3 DEF Steps
  <2> QED BY <1>1, <2>1, NormalRuns
<1> QED BY <1>2, <1>3

-----------------------------------------------------------------------------
(* Where a run starts.                                                     *)

LEMMA ParameterSlotsGrow ==
    ASSUME NEW m, Len(m.params) \in Nat \ {0}
    PROVE  LET P == ParameterSlots(m)
           IN  /\ P \in [1..Len(m.params) -> Nat]
               /\ P[1] = IF m.static THEN 0 ELSE 1
               /\ \A n \in 2..Len(m.params) : P[n] = P[n - 1] + SlotWidth(m.params[n - 1])
<1> DEFINE c == Len(m.params)
           base == IF m.static THEN 0 ELSE 1
           step == [x \in Nat \X Nat |-> IF x[1] = 1 THEN base
                                         ELSE x[2] + SlotWidth(m.params[x[1] - 1])]
           Is(f) == f = [n \in 1..c |-> IF n = 1 THEN IF m.static THEN 0 ELSE 1
                                        ELSE f[n - 1] + SlotWidth(m.params[n - 1])]
           P == CHOOSE f : Is(f)
<1>1. c \in Nat \ {0} /\ base \in Nat
  OBVIOUS
<1>2. \A d : SlotWidth(d) \in Nat
  BY DEF SlotWidth
<1>3. step \in [Nat \X Nat -> Nat]
  BY <1>1, <1>2
<1>4. ParameterSlots(m) = P
  BY DEF ParameterSlots
<1> HIDE DEF c
<1>5. \E f : Is(f)
  <2>1. PICK g : Iterates(g, Nat, 0, step, c)
    <3> HIDE DEF step
    <3> QED BY <1>1, <1>3, Iteration
  <2>2. g \in [0..c -> Nat] /\ \A n \in 1..c : g[n] = step[<<n, g[n - 1]>>]
    <3> HIDE DEF step
    <3> QED BY <2>1 DEF Iterates
  <2> DEFINE f == [n \in 1..c |-> g[n]]
  <2>3. \A n \in 1..c : n \in Nat /\ (n # 1 => n - 1 \in 1..c) /\ n - 1 \in 0..c /\ n \in 0..c
    BY <1>1
  <2>4. ASSUME NEW n \in 1..c
        PROVE  f[n] = IF n = 1 THEN IF m.static THEN 0 ELSE 1
                      ELSE f[n - 1] + SlotWidth(m.params[n - 1])
    <3>1. <<n, g[n - 1]>> \in Nat \X Nat
      BY <2>2, <2>3
    <3>2. g[n] = IF n = 1 THEN base ELSE g[n - 1] + SlotWidth(m.params[n - 1])
      BY <2>2, <3>1
    <3> QED BY <2>3, <3>2
  <2>5. Is(f)
    BY <2>4
  <2> QED BY <2>5
<1>6. Is(P)
  <2> HIDE DEF Is
  <2> QED BY <1>5
<1> HIDE DEF P
<1>7. P[1] = base /\ DOMAIN P = 1..c
  BY <1>1, <1>6
<1>8. ASSUME NEW n \in 2..c PROVE P[n] = P[n - 1] + SlotWidth(m.params[n - 1])
  <2>1. n \in 1..c /\ n # 1
    BY <1>1
  <2> QED BY <1>6, <2>1
<1>9. P \in [1..c -> Nat]
  <2> DEFINE T == {n \in 0..c : n = 0 \/ P[n] \in Nat}
  <2>1. ASSUME NEW n \in 0..(c - 1), n \in T PROVE n + 1 \in T
    <3>1. CASE n = 0
      BY <1>1, <1>7, <3>1
    <3>2. CASE n # 0
      <4>1. n + 1 \in 2..c /\ n + 1 - 1 = n
        BY <1>1, <3>2
      <4>2. P[n + 1] = P[n] + SlotWidth(m.params[n])
        BY <1>8, <4>1
      <4> QED BY <1>1, <1>2, <2>1, <3>2, <4>2
    <3> QED BY <3>1, <3>2
  <2>2. 0 \in T
    BY <1>1
  <2> HIDE DEF T
  <2>3. 0..c \subseteq T
    BY <1>1, <2>1, <2>2, InductionUpTo, Zenon
  <2>4. \A n \in 1..c : P[n] \in Nat
    BY <1>1, <2>3 DEF T
  <2>5. P = [n \in 1..c |-> P[n]]
    BY <1>6
  <2> QED BY <2>4, <2>5
<1> QED BY <1>4, <1>7, <1>8, <1>9 DEF c

LEMMA ParameterSlotsIncrease ==
    ASSUME NEW m, Len(m.params) \in Nat \ {0}
    PROVE  LET P == ParameterSlots(m)
           IN  \A k \in 1..Len(m.params) :
                  /\ P[k] \in Nat /\ (~m.static => P[k] >= 1)
                  /\ \A j \in 1..Len(m.params) : j < k => P[j] < P[k]
<1> DEFINE c == Len(m.params)
           P == ParameterSlots(m)
           base == IF m.static THEN 0 ELSE 1
           Above(n) == \A k \in 1..n : base <= P[k] /\ \A j \in 1..n : j < k => P[j] < P[k]
           T == {n \in 0..c : Above(n)}
<1>1. /\ P \in [1..c -> Nat] /\ P[1] = base
      /\ \A n \in 2..c : P[n] = P[n - 1] + SlotWidth(m.params[n - 1])
  BY ParameterSlotsGrow
<1>2. c \in Nat \ {0} /\ base \in Nat
  OBVIOUS
<1>3. \A d : SlotWidth(d) \in {1, 2}
  BY DEF SlotWidth
<1> HIDE DEF P, c, base
<1>4. 0 \in T
  BY <1>2
<1>5. ASSUME NEW n \in 0..(c - 1), n \in T PROVE n + 1 \in T
  <2>1. CASE n = 0
    <3>1. \A k \in 1..(n + 1) : k = 1
      BY <2>1
    <3>2. base <= P[1]
      BY <1>1, <1>2
    <3> QED BY <1>2, <2>1, <3>1, <3>2
  <2>2. CASE n # 0
    <3>1. n \in Nat /\ n \in 1..c /\ n + 1 \in 2..c /\ n + 1 - 1 = n
      BY <1>2, <2>2
    <3>2. P[n + 1] = P[n] + SlotWidth(m.params[n])
      BY <1>1, <3>1
    <3>3. P[n] \in Nat /\ P[n] < P[n + 1] /\ P[n + 1] \in Nat
      BY <1>1, <1>3, <3>1, <3>2
    <3>4. \A j \in 1..n : P[j] \in Nat /\ P[j] <= P[n]
      <4> SUFFICES ASSUME NEW j \in 1..n PROVE P[j] \in Nat /\ P[j] <= P[n]
        OBVIOUS
      <4>1. j \in 1..c /\ (j = n \/ j < n) /\ n \in 1..n
        BY <1>2, <3>1
      <4> QED BY <1>1, <1>5, <3>3, <4>1
    <3>5. \A k \in 1..(n + 1) : k \in 1..n \/ k = n + 1
      BY <3>1
    <3>6. base <= P[n]
      BY <1>5, <3>1
    <3>7. ASSUME NEW k \in 1..(n + 1)
          PROVE  base <= P[k] /\ \A j \in 1..(n + 1) : j < k => P[j] < P[k]
      <4>1. CASE k = n + 1
        <5>1. base <= P[n + 1]
          BY <1>2, <3>3, <3>6
        <5>2. ASSUME NEW j \in 1..(n + 1), j < k PROVE P[j] < P[k]
          <6>1. j \in 1..n
            BY <3>1, <4>1, <5>2
          <6> QED BY <3>3, <3>4, <4>1, <6>1
        <5> QED BY <4>1, <5>1, <5>2
      <4>2. CASE k \in 1..n
        <5>1. \A j \in 1..(n + 1) : j < k => j \in 1..n
          BY <3>1, <4>2
        <5> QED BY <1>5, <4>2, <5>1
      <4> QED BY <3>5, <4>1, <4>2
    <3> QED BY <1>2, <3>1, <3>7
  <2> QED BY <2>1, <2>2
<1> HIDE DEF T
<1>6. 0..c \subseteq T
  BY <1>2, <1>4, <1>5, InductionUpTo, Zenon
<1>7. Above(c)
  BY <1>2, <1>6 DEF T
<1>8. \A k \in 1..c : P[k] \in Nat /\ (~m.static => P[k] >= 1)
  BY <1>1, <1>7 DEF base
<1> QED BY <1>7, <1>8 DEF P, c

LEMMA ParameterThere ==
    ASSUME NEW m \in Methods, NEW n, ParameterAtSlot(m, n) # NoParameter
    PROVE  /\ Len(m.params) \in Nat \ {0}
           /\ ParameterAtSlot(m, n) \in 1..Len(m.params)
           /\ DOMAIN m.params = 1..Len(m.params)
           /\ ParameterSlots(m)[ParameterAtSlot(m, n)] = n
           /\ n \in Nat /\ (~m.static => n # 0)
<1> DEFINE at == {k \in DOMAIN m.params : ParameterSlots(m)[k] = n}
           p == CHOOSE k \in at : TRUE
<1>1. at # {} /\ ParameterAtSlot(m, n) = p
  BY DEF ParameterAtSlot
<1>2. p \in at
  <2> HIDE DEF at
  <2> QED BY <1>1
<1> HIDE DEF p
<1>3. m.params \in Seq(Range(m.params))
  BY MethodsAssumption
<1>4. Len(m.params) \in Nat /\ DOMAIN m.params = 1..Len(m.params)
  BY <1>3
<1>5. Len(m.params) \in Nat \ {0} /\ p \in 1..Len(m.params) /\ ParameterSlots(m)[p] = n
  BY <1>2, <1>4
<1>6. n \in Nat /\ (~m.static => n >= 1)
  BY <1>5, ParameterSlotsIncrease
<1> QED BY <1>1, <1>4, <1>5, <1>6

(* The slots of the frame at the entry, those it leaves out included.      *)
LEMMA EntrySlots ==
    ASSUME NEW m \in Methods, NEW n \in Slots(m)
    PROVE  LocalSlot(EntryFrame(m), n) = EntrySlot(m, n)
<1> DEFINE last == Len(m.params)
           slots == ParameterSlots(m)
           length == IF last # 0 THEN slots[last] + SlotWidth(m.params[last])
                     ELSE IF m.static THEN m.maxLocals ELSE 1
           l == [k \in 1..length |-> EntrySlot(m, k - 1)]
<1>1. EntryFrame(m).locals = l
  BY DEF EntryFrame
<1>2. m.params \in Seq(Range(m.params)) /\ m.maxLocals \in Nat
  BY MethodsAssumption
<1>3. last \in Nat /\ DOMAIN m.params = 1..last /\ n \in Nat
  BY <1>2 DEF Slots
<1>4. \A d : SlotWidth(d) \in {1, 2}
  BY DEF SlotWidth
<1>5. /\ length \in Nat /\ (~m.static => length >= 1)
      /\ \A k \in 1..last : slots[k] \in Nat /\ slots[k] < length
  <2>1. CASE last = 0
    BY <1>2, <2>1
  <2>2. CASE last # 0
    <3>1. \A k \in 1..last :
             /\ slots[k] \in Nat /\ (~m.static => slots[k] >= 1)
             /\ \A j \in 1..last : j < k => slots[j] < slots[k]
      BY <1>3, <2>2, ParameterSlotsIncrease
    <3> HIDE DEF slots, last
    <3>2. last \in 1..last /\ \A k \in 1..last : k = last \/ k < last
      BY <1>3, <2>2
    <3>3. slots[last] \in Nat /\ (~m.static => slots[last] >= 1)
          /\ \A k \in 1..last : slots[k] \in Nat /\ slots[k] <= slots[last]
      BY <3>1, <3>2
    <3>4. length = slots[last] + SlotWidth(m.params[last])
      BY <2>2
    <3>5. length \in Nat /\ slots[last] < length
      BY <1>4, <3>3, <3>4
    <3> HIDE DEF length
    <3> QED BY <3>3, <3>5
  <2> QED BY <2>1, <2>2
<1> HIDE DEF length
<1>6. CASE n < length
  <2>1. PICK k \in 1..length : k = n + 1 /\ k - 1 = n
    BY <1>3, <1>5, <1>6
  <2>2. DOMAIN l = 1..length /\ \A i \in 1..length : l[i] = EntrySlot(m, i - 1)
    OBVIOUS
  <2> HIDE DEF l
  <2>3. l[k] = EntrySlot(m, k - 1)
    BY <2>2, Zenon
  <2>4. l[n + 1] = EntrySlot(m, n)
    BY <2>1, <2>3, Zenon
  <2> QED BY <1>1, <2>1, <2>2, <2>4 DEF LocalSlot
<1>7. CASE ~(n < length)
  <2>1. n + 1 \notin DOMAIN l
    BY <1>3, <1>5, <1>7
  <2>2. LocalSlot(EntryFrame(m), n) = EmptySlot
    <3> HIDE DEF l
    <3> QED BY <1>1, <2>1 DEF LocalSlot
  <2>3. ParameterAtSlot(m, n) = NoParameter
    <3> SUFFICES ASSUME ParameterAtSlot(m, n) # NoParameter PROVE FALSE
      OBVIOUS
    <3>1. ParameterAtSlot(m, n) \in 1..last /\ slots[ParameterAtSlot(m, n)] = n
      BY ParameterThere
    <3> QED BY <1>5, <1>7, <3>1
  <2>4. ~(n = 0 /\ ~m.static)
    BY <1>5, <1>7
  <2>5. EntrySlot(m, n) = EmptySlot
    BY <2>3, <2>4 DEF EntrySlot
  <2> QED BY <2>2, <2>5
<1> QED BY <1>6, <1>7

LEMMA EntryValuesFit ==
    ASSUME NEW m \in Methods, NEW n \in Slots(m), NEW v \in EntryValues(m, n)
    PROVE  /\ v \in RunValues(m)
           /\ (m.constructor => n # 0) => v.v \notin {"raw", "rawThis"}
           /\ Typed(m, EntrySlot(m, n), v)
           /\ EntrySlot(m, n).fact = None
           /\ EntrySlot(m, n).origin \in {None, EntryOrigin(n)}
<1> DEFINE p == ParameterAtSlot(m, n)
           owner == [d |-> "class", c |-> m.owner]
           slot == EntrySlot(m, n)
<1>1. n \in Places(m) /\ 0 \in Places(m) /\ (m.constructor => ~m.static)
  <2>1. m.maxLocals \in Nat /\ m.code \in Seq(Range(m.code))
    BY MethodsAssumption
  <2>2. Len(m.code) \in Nat
    BY <2>1
  <2> QED BY <2>1, <2>2, MethodsAssumption DEF Places, Slots
<1>2. ASSUME NEW type, NEW origin, NEW w \in RunValues(m), Describes(type, w), w.v # "raw"
      PROVE  Typed(m, Slot(type, origin), w)
  <2>1. Slot(type, origin).type = type /\ ~Slot(type, origin).targets.known
    BY DEF Slot, UnknownTargets
  <2> HIDE DEF Slot
  <2> QED BY <1>2, <2>1 DEF Typed, SlotDescribes, Describes
<1>3. CASE n = 0 /\ m.constructor
  <2>1. v = RawThis(m.owner)
    BY <1>1, <1>3 DEF EntryValues
  <2>2. slot = Slot(UninitializedThis(m.owner), EntryOrigin(0))
    BY <1>1, <1>3 DEF EntrySlot
  <2>3. v.v = "rawThis" /\ v \in RunValues(m)
    BY <1>3, <2>1 DEF RawThis, RunValues
  <2>4. Describes(UninitializedThis(m.owner), v)
    <3>1. DescribesOne(Supertypes, UninitializedThis(m.owner), v)
      BY <2>1 DEF DescribesOne, UninitializedThis
    <3> QED BY <3>1, DescribesUnfolds
  <2>5. Typed(m, slot, v)
    BY <1>2, <2>2, <2>3, <2>4
  <2>6. slot.fact = None /\ slot.origin = EntryOrigin(n)
    BY <1>3, <2>2 DEF Slot
  <2> HIDE DEF slot
  <2> QED BY <1>3, <2>3, <2>5, <2>6 DEF slot
<1>4. CASE n = 0 /\ ~m.static /\ ~m.constructor
  <2>1. v \in ValuesOf(owner, 0)
    BY <1>4 DEF EntryValues
  <2>2. slot = Slot(Exact(m.owner), EntryOrigin(0))
    BY <1>4 DEF EntrySlot
  <2>3. TypeOfDescriptor(owner) = Exact(m.owner)
    BY DEF TypeOfDescriptor, SmallIntegrals
  <2>4. v \in RunValues(m) /\ Describes(Exact(m.owner), v) /\ v.v \notin {"raw", "rawThis"}
    <3> HIDE DEF owner
    <3> QED BY <1>1, <2>1, <2>3, ValuesOfType
  <2>5. Typed(m, slot, v)
    BY <1>2, <2>2, <2>4
  <2>6. slot.fact = None /\ slot.origin = EntryOrigin(n)
    BY <1>4, <2>2 DEF Slot
  <2> HIDE DEF slot
  <2> QED BY <2>4, <2>5, <2>6 DEF slot
<1>5. CASE ~(n = 0 /\ ~m.static) /\ p = NoParameter
  <2>1. v = Unset /\ slot = EmptySlot
    BY <1>5 DEF EntryValues, EntrySlot
  <2>2. slot.fact = None /\ slot.origin = None
    BY <2>1 DEF EmptySlot, Plain, Slot
  <2> HIDE DEF slot
  <2> QED BY <2>1, <2>2, UnsetFits DEF slot
<1>6. CASE ~(n = 0 /\ ~m.static) /\ p # NoParameter
  <2> DEFINE d == m.params[p]
  <2>1. v \in ValuesOf(d, n) /\ slot = Slot(TypeOfDescriptor(d), EntryOrigin(n))
    BY <1>6 DEF EntryValues, EntrySlot
  <2>2. v \in RunValues(m) /\ Describes(TypeOfDescriptor(d), v) /\ v.v \notin {"raw", "rawThis"}
    <3> HIDE DEF d
    <3> QED BY <1>1, <2>1, ValuesOfType
  <2> HIDE DEF d
  <2>3. Typed(m, slot, v)
    BY <1>2, <2>1, <2>2
  <2>4. slot.fact = None /\ slot.origin = EntryOrigin(n)
    BY <2>1 DEF Slot
  <2> HIDE DEF slot
  <2> QED BY <2>2, <2>3, <2>4 DEF slot
<1> QED BY <1>1, <1>3, <1>4, <1>5, <1>6

LEMMA EntryFits ==
    ASSUME NEW m \in Methods, NEW e \in EntryStates(m)
    PROVE  /\ ArgumentsAreReady(m, e)
           /\ FrameFits(m, e, EntryFrame(m), e)
           /\ e.pc = FirstOffset /\ e.status = "running" /\ e.result = Unset
<1> DEFINE f == EntryFrame(m)
           P == Cells(f, e.locals, e.stack)
<1>1. /\ e = [pc |-> FirstOffset, locals |-> e.locals, stack |-> <<>>,
              status |-> "running", result |-> Unset]
      /\ DOMAIN e.locals = Slots(m) /\ e.locals = [n \in Slots(m) |-> e.locals[n]]
      /\ \A n \in Slots(m) : e.locals[n] \in EntryValues(m, n)
  BY DEF EntryStates
<1>2. /\ e.pc = FirstOffset /\ e.stack = <<>> /\ e.status = "running" /\ e.result = Unset
  BY <1>1
<1>3. \A n \in Slots(m) : e.locals[n] \in RunValues(m)
  BY <1>1, EntryValuesFit
<1>4. Machine(m, e)
  <2>1. e = [pc |-> e.pc, locals |-> e.locals, stack |-> e.stack,
             status |-> e.status, result |-> e.result]
    BY <1>1, <1>2
  <2>2. e.locals \in [Slots(m) -> RunValues(m)]
    BY <1>1, <1>3
  <2> QED BY <1>2, <2>1, <2>2 DEF Machine
<1>5. ArgumentsAreReady(m, e)
  BY <1>1, EntryValuesFit DEF ArgumentsAreReady
<1>6. P = {<<EntrySlot(m, n), e.locals[n]>> : n \in Slots(m)}
  <2>1. \A n \in DOMAIN e.stack : FALSE
    BY <1>2
  <2> QED BY <1>1, <2>1, EntrySlots DEF Cells
<1> HIDE DEF P
<1>7. ASSUME NEW q \in P
      PROVE  \E n \in Slots(m) : /\ q[1] = EntrySlot(m, n) /\ q[2] = e.locals[n]
                                 /\ Typed(m, q[1], q[2]) /\ q[1].fact = None
                                 /\ q[1].origin \in {None, EntryOrigin(n)}
  <2>1. PICK n \in Slots(m) : q = <<EntrySlot(m, n), e.locals[n]>>
    BY <1>6
  <2>2. q[1] = EntrySlot(m, n) /\ q[2] = e.locals[n]
    BY <2>1
  <2> QED BY <1>1, <2>2, EntryValuesFit
<1>8. ASSUME NEW q \in P PROVE OriginFits(m, e, q[1], q[2])
  <2>1. PICK n \in Slots(m) : q[2] = e.locals[n] /\ q[1].origin \in {None, EntryOrigin(n)}
    BY <1>7
  <2> QED BY <2>1 DEF OriginFits, None, EntryOrigin
<1>9. ASSUME NEW q \in P, NEW r \in P, SameOrigin(q, r) PROVE q[2] = r[2]
  <2>1. PICK n \in Slots(m) : q[2] = e.locals[n] /\ q[1].origin \in {None, EntryOrigin(n)}
    BY <1>7
  <2>2. PICK k \in Slots(m) : r[2] = e.locals[k] /\ r[1].origin \in {None, EntryOrigin(k)}
    BY <1>7
  <2>3. EntryOrigin(n) = EntryOrigin(k)
    BY <1>9, <2>1, <2>2 DEF SameOrigin
  <2>4. n = k
    BY <2>3 DEF EntryOrigin
  <2> QED BY <2>1, <2>2, <2>4
<1>10. Sound(m, e, P)
  BY <1>7, <1>8, <1>9 DEF Sound
<1>11. f.stack = <<>>
  BY DEF EntryFrame
<1>12. FrameFits(m, e, f, e)
  <2> HIDE DEF f
  <2> QED BY <1>2, <1>4, <1>10, <1>11 DEF FrameFits, P
<1> QED BY <1>2, <1>5, <1>12

-----------------------------------------------------------------------------
(* Results.                                                                *)

Returned(m, F) == {at \in ReturnOffsets(m) : at \in DOMAIN F /\ F[at].stack # <<>>}

LEMMA NoneIsNoType == None \notin AllTypes
<1>1. \A type \in AllTypes : type.k # "none"
  <2>1. \A r \in KnownReferences : r.k # "none"
    BY KnownReference
  <2>2. \A type \in SingleTypes : type.k # "none"
    BY <2>1 DEF SingleTypes, Bottom, Float, Long, Double, Null, Unknown, ReturnAddress, Conflict
  <2> QED BY <2>2 DEF AllTypes
<1> QED BY <1>1 DEF None

LEMMA ReturnedTypes ==
    ASSUME NEW m \in Methods, NEW F, Closed(Env(m), m, F)
    PROVE  /\ Len(m.code) \in Nat
           /\ \A at \in Returned(m, F) : at \in 1..Len(m.code) /\ Top(F[at]).type \in AllTypes
<1>1. m.code \in Seq(Range(m.code))
  BY MethodsAssumption
<1>2. Len(m.code) \in Nat /\ DOMAIN m.code = 1..Len(m.code)
  BY <1>1
<1>3. ASSUME NEW at \in Returned(m, F) PROVE Top(F[at]).type \in AllTypes
  <2>1. F[at] \in AllFrames /\ F[at].stack # <<>>
    BY <1>3 DEF Returned, Closed
  <2>2. Top(F[at]) \in AllSlots
    BY <2>1, TopIsPeek, PeekIsTop
  <2> QED BY <2>2, SlotParts
<1> QED BY <1>2, <1>3 DEF Returned, ReturnOffsets

(* The join up to the return that the value left through, and beyond it.   *)
LEMMA InferredCovers ==
    ASSUME NEW m \in Methods, NEW F, Closed(Env(m), m, F), Verified(m, F), m.ret # Void,
           NEW left \in Returned(m, F), NEW v \in Values, Describes(Top(F[left]).type, v)
    PROVE  /\ InferredReturn(m, F, Hierarchy) # None
           /\ Describes(InferredReturn(m, F, Hierarchy), v)
<1> DEFINE last == Len(m.code)
           S == AllTypes \cup {None}
           type(at) == Top(F[at]).type
           next(acc, n) == IF n \in Returned(m, F)
                           THEN JoinReturned(acc, type(n), Hierarchy) ELSE acc
           step == [x \in Nat \X S |-> IF x[1] \in 1..last THEN next(x[2], x[1]) ELSE x[2]]
           Is(f) == f = [n \in 0..last |->
                            IF n = 0 THEN None
                            ELSE IF n \in Returned(m, F)
                            THEN JoinReturned(f[n - 1], type(n), Hierarchy)
                            ELSE f[n - 1]]
           joined == CHOOSE f : Is(f)
<1>1. /\ last \in Nat
      /\ \A at \in Returned(m, F) : at \in 1..last /\ type(at) \in AllTypes
  BY ReturnedTypes
<1>2. InferredReturn(m, F, Hierarchy) = joined[last]
  <2>1. \A at \in ReturnOffsets(m) : ReturnOpFits(m.code[at].op, m.ret)
    BY MethodsAssumption DEF Operands, ReturnOffsets
  <2>2. \A at \in Returned(m, F) : ReturnValueFits(m.code[at].op, type(at))
    BY DEF Verified, VerifiedAt, Returned, ReturnOffsets
  <2>3. Returned(m, F) = {at \in ReturnOffsets(m) : at \in DOMAIN F /\ F[at].stack # <<>>}
    BY DEF Returned
  <2> QED BY <2>1, <2>2, <2>3 DEF InferredReturn
<1> HIDE DEF last, type
<1>3. ASSUME NEW acc \in AllTypes, NEW n \in Returned(m, F)
      PROVE  /\ JoinReturned(acc, type(n), Hierarchy) \in AllTypes
             /\ StandsFor(Supertypes, JoinReturned(acc, type(n), Hierarchy), acc)
             /\ StandsFor(Supertypes, JoinReturned(acc, type(n), Hierarchy), type(n))
  <2>1. JoinReturned(acc, type(n), Hierarchy) = JoinLocal(acc, type(n), Hierarchy)
    BY NoneIsNoType DEF JoinReturned
  <2>2. Joins(Supertypes, JoinLocal(acc, type(n), Hierarchy), acc, type(n))
    BY <1>1, HierarchyIsRight, JoinLocalCovers
  <2> QED BY <2>1, <2>2 DEF Joins
<1>4. ASSUME NEW n \in Returned(m, F) PROVE JoinReturned(None, type(n), Hierarchy) = type(n)
  BY DEF JoinReturned
<1>5. ASSUME NEW acc \in S, NEW n \in 1..last PROVE next(acc, n) \in S
  BY <1>1, <1>3, <1>4
<1>6. step \in [Nat \X S -> S]
  <2> HIDE DEF next, S
  <2> QED BY <1>5
<1>7. Is(joined)
  <2>1. PICK f : Iterates(f, S, None, step, last)
    <3> None \in S
      OBVIOUS
    <3> HIDE DEF step, S
    <3> QED BY <1>1, <1>6, Iteration
  <2>2. /\ f \in [0..last -> S]
        /\ f[0] = None
        /\ \A n \in 1..last : f[n] = step[<<n, f[n - 1]>>]
    <3> HIDE DEF step, S
    <3> QED BY <2>1 DEF Iterates
  <2>3. ASSUME NEW n \in 1..last PROVE f[n] = next(f[n - 1], n)
    <3> HIDE DEF next, S
    <3>1. n \in Nat /\ n - 1 \in 0..last
      BY <1>1
    <3>2. <<n, f[n - 1]>> \in Nat \X S
      BY <2>2, <3>1
    <3>3. step[<<n, f[n - 1]>>] = next(f[n - 1], n)
      BY <3>2
    <3> QED BY <2>2, <3>3
  <2>4. Is(f)
    <3> HIDE DEF step, S
    <3>1. \A n \in 0..last : n # 0 => n \in 1..last
      BY <1>1
    <3>2. \A n \in 0..last : f[n] = IF n = 0 THEN None
              ELSE IF n \in Returned(m, F)
              THEN JoinReturned(f[n - 1], type(n), Hierarchy)
              ELSE f[n - 1]
      BY <2>2, <2>3, <3>1
    <3> QED BY <2>2, <3>2
  <2> HIDE DEF Is
  <2> QED BY <2>4
<1> HIDE DEF joined
<1>8. joined[0] = None
  BY <1>1, <1>7
<1>9. ASSUME NEW n \in 1..last PROVE joined[n] = next(joined[n - 1], n)
  BY <1>1, <1>7
<1> HIDE DEF Is, step
<1> DEFINE T == {n \in 0..last : /\ joined[n] \in S
                                 /\ left \in 1..n => joined[n] # None /\ Describes(joined[n], v)}
<1>10. 0 \in T
  BY <1>1, <1>8
<1>11. ASSUME NEW n \in 0..(last - 1), n \in T PROVE n + 1 \in T
  <2>1. n + 1 \in 1..last /\ n + 1 - 1 = n /\ joined[n + 1] = next(joined[n], n + 1)
    BY <1>1, <1>9
  <2>2. left \in 1..(n + 1) => left = n + 1 \/ left \in 1..n
    BY <1>1
  <2>3. CASE n + 1 \notin Returned(m, F)
    <3>1. joined[n + 1] = joined[n]
      BY <2>1, <2>3
    <3> HIDE DEF next
    <3> QED BY <1>11, <2>1, <2>2, <2>3, <3>1
  <2>4. CASE n + 1 \in Returned(m, F) /\ joined[n] = None
    <3>1. joined[n + 1] = type(n + 1) /\ type(n + 1) \in AllTypes
      BY <1>1, <1>4, <2>1, <2>4
    <3>2. left = n + 1 => Describes(type(n + 1), v)
      BY DEF type
    <3>3. left \notin 1..n
      BY <1>11, <2>4
    <3> HIDE DEF next
    <3> QED BY <2>1, <2>2, <3>1, <3>2, <3>3, NoneIsNoType
  <2>5. CASE n + 1 \in Returned(m, F) /\ joined[n] # None
    <3>1. joined[n] \in AllTypes
      BY <1>11, <2>5
    <3>2. /\ joined[n + 1] \in AllTypes
          /\ StandsFor(Supertypes, joined[n + 1], joined[n])
          /\ StandsFor(Supertypes, joined[n + 1], type(n + 1))
      BY <1>3, <2>1, <2>5, <3>1
    <3>3. /\ Describes(joined[n], v) => Describes(joined[n + 1], v)
          /\ Describes(type(n + 1), v) => Describes(joined[n + 1], v)
      BY <3>2 DEF StandsFor, Describes
    <3>4. left = n + 1 => Describes(type(n + 1), v)
      BY DEF type
    <3> HIDE DEF next
    <3> QED BY <1>11, <2>1, <2>2, <3>2, <3>3, <3>4, NoneIsNoType
  <2> QED BY <2>3, <2>4, <2>5
<1> HIDE DEF T
<1>12. 0..last \subseteq T
  BY <1>1, <1>10, <1>11, InductionUpTo, Zenon
<1>13. last \in T /\ left \in 1..last
  BY <1>1, <1>12
<1> QED BY <1>2, <1>13 DEF T

(* A machine that has returned a value has it on top of its stack.         *)
LEMMA ReturnedValue ==
    ASSUME NEW m \in Methods, NEW F, Closed(Env(m), m, F), NEW e, NEW s, RunFits(m, F, e, s),
           s.status = "returned", m.code[s.pc].op \in ValueReturnOps
    PROVE  /\ s.pc \in Returned(m, F) /\ s.result # Unset
           /\ <<Top(F[s.pc]), s.result>> \in Cells(F[s.pc], s.locals, s.stack)
           /\ Describes(Top(F[s.pc]).type, s.result)
           /\ s.result \in RunValues(m)
<1> DEFINE f == F[s.pc]
<1>1. /\ s.pc \in DOMAIN F /\ FrameFits(m, e, f, s)
      /\ s.stack # <<>> /\ s.result = At(s, 1) /\ s.result # Unset
  BY DEF RunFits
<1>2. f \in AllFrames /\ s.pc \in DOMAIN m.code
  BY <1>1 DEF Closed
<1>3. s.stack \in Seq(RunValues(m)) /\ Len(f.stack) = Len(s.stack)
  BY <1>1 DEF FrameFits, Machine
<1>4. f.stack # <<>>
  BY <1>1, <1>3
<1>5. Top(f) = Peek(f, 1) /\ 1 \in 1..Len(f.stack)
  BY <1>2, <1>4, TopIsPeek
<1>6. /\ <<Peek(f, 1), At(s, 1)>> \in Cells(f, s.locals, s.stack)
      /\ Typed(m, Peek(f, 1), At(s, 1))
  BY <1>1, <1>2, <1>5, PeekedPair
<1>7. s.pc \in Returned(m, F)
  BY <1>1, <1>2, <1>4 DEF Returned, ReturnOffsets
<1>8. Describes(Top(f).type, s.result) /\ s.result \in RunValues(m)
  <2> HIDE DEF f
  <2> QED BY <1>1, <1>5, <1>6 DEF Typed, SlotDescribes, Describes
<1> QED BY <1>1, <1>5, <1>6, <1>7, <1>8

LEMMA ValuesReturn ==
    ASSUME NEW m \in Methods, NEW F, Closed(Env(m), m, F), NEW e, NEW s, RunFits(m, F, e, s),
           s.status = "returned", m.ret # Void
    PROVE  m.code[s.pc].op \in ValueReturnOps
<1>1. s.pc \in DOMAIN F /\ m.code[s.pc].op \in ValueReturnOps \cup {"return"}
  BY DEF RunFits
<1>2. s.pc \in DOMAIN m.code
  BY <1>1 DEF Closed
<1>3. m.code[s.pc].op = "return" => m.ret = Void
  BY <1>2, MethodsAssumption DEF Operands
<1> QED BY <1>1, <1>3

LEMMA InferredDescribes ==
    ASSUME NEW m \in Methods, NEW F, Closed(Env(m), m, F), Verified(m, F),
           NEW e, NEW s, RunFits(m, F, e, s), s.status = "returned", m.ret # Void
    PROVE  /\ InferredReturn(m, F, Hierarchy) # None
           /\ Describes(InferredReturn(m, F, Hierarchy), s.result)
<1>1. m.code[s.pc].op \in ValueReturnOps
  BY ValuesReturn
<1>2. /\ s.pc \in Returned(m, F)
      /\ Describes(Top(F[s.pc]).type, s.result)
      /\ s.result \in Values
  BY <1>1, ReturnedValue, MethodsAssumption
<1> QED BY <1>2, InferredCovers

(* Of the slots of a method, one alone has the parameter.                  *)
LEMMA ParameterIsAlone ==
    ASSUME NEW m \in Methods, NEW n, NEW k,
           ParameterAtSlot(m, n) # NoParameter, ParameterAtSlot(m, k) = ParameterAtSlot(m, n)
    PROVE  n = k
BY ParameterThere

(* The argument is that of the slot which the parameter is at.             *)
LEMMA ReturnedFromSlot ==
    ASSUME NEW m \in Methods, NEW F, Closed(Env(m), m, F), NEW e, NEW s, RunFits(m, F, e, s),
           s.status = "returned", m.code[s.pc].op \in ValueReturnOps,
           ReturnedParameter(m, F) # NoParameter
    PROVE  \E n \in Slots(m) : /\ ParameterAtSlot(m, n) = ReturnedParameter(m, F)
                               /\ s.result = e.locals[n]
<1> DEFINE origins == {Top(F[at]).origin : at \in {a \in ReturnOffsets(m) : a \in DOMAIN F}}
           origin == Top(F[s.pc]).origin
           index == ReturnedParameter(m, F)
           P == Cells(F[s.pc], s.locals, s.stack)
<1>1. /\ s.pc \in Returned(m, F) /\ s.result # Unset
      /\ <<Top(F[s.pc]), s.result>> \in P
  BY ReturnedValue
<1>2. origin \in origins
  BY <1>1 DEF Returned
<1>3. /\ origins = {origin} /\ origin.k = "entry"
      /\ index = ParameterAtSlot(m, origin.slot)
  <2>1. \E o \in origins : origins = {o} /\ o.k = "entry"
    BY DEF ReturnedParameter
  <2>2. index = ParameterAtSlot(m, (CHOOSE o \in origins : TRUE).slot)
    BY <2>1 DEF ReturnedParameter
  <2>3. origins = {origin} /\ origin.k = "entry"
    BY <1>2, <2>1
  <2>4. (CHOOSE o \in origins : TRUE) = origin
    BY <2>3
  <2> QED BY <2>2, <2>3, <2>4
<1>4. Sound(m, e, P) /\ DOMAIN s.locals = Slots(m)
  BY DEF RunFits, FrameFits, Machine
<1>5. OriginFits(m, e, Top(F[s.pc]), s.result)
  <2> HIDE DEF P
  <2> QED BY <1>1, <1>4 DEF Sound
<1> HIDE DEF index
<1>6. m.constructor => origin.slot # 0
  <2>1. ~m.static => origin.slot # 0
    BY <1>3, ParameterThere DEF index
  <2> QED BY <2>1, MethodsAssumption
<1>7. origin.slot \in Slots(m) /\ s.result = e.locals[origin.slot]
  BY <1>3, <1>5, <1>6 DEF OriginFits
<1> HIDE DEF origin
<1> QED BY <1>3, <1>7 DEF index

LEMMA ReturnedIsArgument ==
    ASSUME NEW m \in Methods, NEW F, Closed(Env(m), m, F), NEW e, NEW s, RunFits(m, F, e, s),
           s.status = "returned", m.code[s.pc].op \in ValueReturnOps,
           ReturnedParameter(m, F) # NoParameter
    PROVE  s.result = e.locals[CHOOSE n \in DOMAIN s.locals :
                                   ParameterAtSlot(m, n) = ReturnedParameter(m, F)]
<1> DEFINE index == ReturnedParameter(m, F)
           c == CHOOSE n \in DOMAIN s.locals : ParameterAtSlot(m, n) = index
<1>1. PICK n \in Slots(m) : ParameterAtSlot(m, n) = index /\ s.result = e.locals[n]
  BY ReturnedFromSlot
<1>2. DOMAIN s.locals = Slots(m)
  BY DEF RunFits, FrameFits, Machine
<1>3. ParameterAtSlot(m, c) = index
  BY <1>1, <1>2
<1>4. c = n
  BY <1>1, <1>3, ParameterIsAlone
<1> QED BY <1>1, <1>4

(* Like what the machine has in the slots of its frame.                    *)
LEMMA HeldAreCells ==
    \A f, s : Held(f, s) = Cells(f, s.locals, s.stack)
BY DEF Held, Cells

LEMMA FitsDescribes ==
    ASSUME NEW m, NEW F, NEW e, NEW s, RunFits(m, F, e, s), s.status = "running"
    PROVE  /\ s.pc \in DOMAIN F
           /\ Len(F[s.pc].stack) = Len(s.stack)
           /\ \A n \in DOMAIN s.stack :
                 SlotDescribes(Supertypes, F[s.pc].stack[n], s.stack[n])
           /\ \A n \in DOMAIN s.locals :
                 SlotDescribes(Supertypes, LocalSlot(F[s.pc], n), s.locals[n])
<1> DEFINE P == Cells(F[s.pc], s.locals, s.stack)
<1>1. s.pc \in DOMAIN F /\ FrameFits(m, e, F[s.pc], s)
  BY DEF RunFits
<1>2. Len(F[s.pc].stack) = Len(s.stack) /\ Sound(m, e, P)
  BY <1>1 DEF FrameFits
<1>3. ASSUME NEW p \in P PROVE SlotDescribes(Supertypes, p[1], p[2])
  <2> HIDE DEF P
  <2> QED BY <1>2, <1>3 DEF Sound, Typed
<1>4. ASSUME NEW a, NEW v, <<a, v>> \in P PROVE SlotDescribes(Supertypes, a, v)
  <2> DEFINE p == <<a, v>>
  <2>1. p[1] = a /\ p[2] = v
    OBVIOUS
  <2> HIDE DEF p, P
  <2>2. p \in P
    BY <1>4 DEF p
  <2> QED BY <1>3, <2>1, <2>2
<1>5. \A n \in DOMAIN s.stack : <<F[s.pc].stack[n], s.stack[n]>> \in P
  BY DEF Cells
<1>6. \A n \in DOMAIN s.locals : <<LocalSlot(F[s.pc], n), s.locals[n]>> \in P
  BY DEF Cells
<1> HIDE DEF P
<1> QED BY <1>1, <1>2, <1>4, <1>5, <1>6

LEMMA FitsIdentifies ==
    ASSUME NEW m, NEW F, NEW e, NEW s, RunFits(m, F, e, s), s.status = "running",
           NEW p \in Held(F[s.pc], s), p[1].origin # None, p[2] # Unset
    PROVE  /\ p[1].origin.k = "entry" /\ (m.constructor => p[1].origin.slot # 0)
                 => p[2] = e.locals[p[1].origin.slot]
           /\ \A q \in Held(F[s.pc], s) :
                 q[1].origin = p[1].origin /\ q[2] # Unset /\ p[2].v # "int" => p[2] = q[2]
<1> DEFINE P == Cells(F[s.pc], s.locals, s.stack)
<1>1. Sound(m, e, P) /\ Held(F[s.pc], s) = P
  BY HeldAreCells DEF RunFits, FrameFits
<1> HIDE DEF P
<1>2. OriginFits(m, e, p[1], p[2])
  BY <1>1 DEF Sound
<1>3. ASSUME NEW q \in P, q[1].origin = p[1].origin, q[2] # Unset, p[2].v # "int"
      PROVE  p[2] = q[2]
  <2>1. SameOrigin(p, q) /\ p \in P
    BY <1>1, <1>3 DEF SameOrigin
  <2> QED BY <1>1, <1>3, <2>1 DEF Sound
<1> QED BY <1>1, <1>2, <1>3 DEF OriginFits

-----------------------------------------------------------------------------
(* The runs.                                                               *)

RunInv ==
    /\ method \in Methods
    /\ Closed(Env(method), method, before)
    /\ Verified(method, before)
    /\ entry \in EntryStates(method)
    /\ RunFits(method, before, entry, machine)

LEMMA RunStarts == RunInit => RunInv
<1> SUFFICES ASSUME RunInit PROVE RunInv
  OBVIOUS
<1>1. /\ method \in Methods /\ Closed(Env(method), method, before) /\ Verified(method, before)
      /\ machine \in EntryStates(method) /\ entry = machine
  BY DEF RunInit
<1>2. /\ FrameFits(method, entry, EntryFrame(method), machine)
      /\ machine.pc = FirstOffset /\ machine.status = "running"
  BY <1>1, EntryFits
<1>3. AdmitsAt(before, FirstOffset, EntryFrame(method))
  BY <1>1 DEF Closed
<1>4. RunFits(method, before, entry, machine)
  BY <1>1, <1>2, <1>3, Lands
<1> QED BY <1>1, <1>4 DEF RunInv

LEMMA RunKeeps == RunInv /\ [Execute]_runVars => RunInv'
<1> SUFFICES ASSUME RunInv, [Execute]_runVars PROVE RunInv'
  OBVIOUS
<1> USE DEF RunInv
<1>1. CASE Execute
  <2>1. /\ machine.status = "running" /\ ~LinkedCall(method, machine)
        /\ machine' \in Steps(method, machine, Truth)
        /\ method' = method /\ before' = before /\ entry' = entry
    BY <1>1 DEF Execute
  <2>2. ArgumentsAreReady(method, entry)
    BY EntryFits
  <2>3. Scene(method, before, entry, machine)
    BY <2>1, <2>2 DEF Scene
  <2>4. RunFits(method, before, entry, machine')
    BY <2>1, <2>3, StepsRun
  <2> QED BY <2>1, <2>4
<1>2. CASE UNCHANGED runVars
  BY <1>2 DEF runVars
<1> QED BY <1>1, <1>2

(* What the invariant says of a state: of the frame the machine is at, and *)
(* of what the method has returned.                                        *)
LEMMA RunDescribes == RunInv => FramesDescribeRuns
<1> SUFFICES ASSUME RunInv, machine.status = "running" PROVE FramesDescribeRuns
  BY DEF FramesDescribeRuns
<1>1. RunFits(method, before, entry, machine)
  BY DEF RunInv
<1> QED BY <1>1, FitsDescribes DEF FramesDescribeRuns

LEMMA RunIdentifies == RunInv => OriginsIdentify
<1> SUFFICES ASSUME RunInv, machine.status = "running", machine.pc \in DOMAIN before
             PROVE  OriginsIdentify
  BY DEF OriginsIdentify
<1> DEFINE held == {p \in Held(before[machine.pc], machine) :
                        p[1].origin # None /\ p[2] # Unset}
<1>1. RunFits(method, before, entry, machine)
  BY DEF RunInv
<1>2. \A p, q \in held : p[1].origin = q[1].origin /\ p[2].v # "int" => p[2] = q[2]
  BY <1>1, FitsIdentifies
<1>3. \A p \in held :
         /\ p[1].origin.k = "entry"
         /\ method.constructor => p[1].origin.slot # 0
         => p[2] = entry.locals[p[1].origin.slot]
  BY <1>1, FitsIdentifies
<1> QED BY <1>2, <1>3 DEF OriginsIdentify

LEMMA RunReturns == RunInv => ReturnsDescribed
BY InferredDescribes DEF RunInv, ReturnsDescribed, Inferred

LEMMA RunReturnsParameter == RunInv => ReturnedParameterIsArgument
<1> SUFFICES ASSUME RunInv, machine.status = "returned", Inferred # None,
                    ReturnedParameter(method, before) # NoParameter
             PROVE  machine.result =
                        entry.locals[CHOOSE n \in DOMAIN machine.locals :
                            ParameterAtSlot(method, n) = ReturnedParameter(method, before)]
  BY DEF ReturnedParameterIsArgument
<1>1. method.ret # Void
  BY DEF Inferred, InferredReturn
<1>2. method.code[machine.pc].op \in ValueReturnOps
  BY <1>1, ValuesReturn DEF RunInv
<1> QED BY <1>2, ReturnedIsArgument DEF RunInv

(* Throughout a run of any method whose frames are closed and verified,    *)
(* the frame of the instruction the machine is at fits what the machine    *)
(* holds: each value has the type of its slot, is what the slot's origin   *)
(* says, and passed the test that the slot's fact is of.                   *)
THEOREM RunIsSound == RunSpec => []RunInv
<1> QED BY RunStarts, RunKeeps, PTL DEF RunSpec

(* For every method, class world and hierarchy that is right about it, the *)
(* closed frames describe every state the method can be in: merges,        *)
(* handlers, subroutines, calls and refinements by tests lose nothing.     *)
THEOREM RunsAreDescribed == RunSpec => []FramesDescribeRuns
<1> QED BY RunDescribes, RunIsSound, PTL

(* The origins that the frames give to slots are identities: no two        *)
(* references of one origin ever differ, through loops, constructor calls  *)
(* and handlers, and an unchanged parameter is still the argument.         *)
THEOREM OriginsAreIdentities == RunSpec => []OriginsIdentify
<1> QED BY RunIdentifies, RunIsSound, PTL

(* A method that returns has an inferred return type, and what it returns  *)
(* is described by it: the join over the returns covers each of them.      *)
THEOREM ResultsAreDescribed == RunSpec => []ReturnsDescribed
<1> QED BY RunReturns, RunIsSound, PTL

(* A method inferred to return one of its parameters does return the       *)
(* argument it was called with, whichever return it leaves through.        *)
THEOREM ResultsAreArguments == RunSpec => []ReturnedParameterIsArgument
<1> QED BY RunReturnsParameter, RunIsSound, PTL

-----------------------------------------------------------------------------
(* Values that go from one method of a program to another.                 *)

LEMMA PlacesOfMethod ==
    ASSUME NEW m \in Methods
    PROVE  0 \in Places(m) /\ Slots(m) \subseteq Places(m)
<1>1. m.maxLocals \in Nat /\ m.code \in Seq(Range(m.code))
  BY MethodsAssumption
<1>2. Len(m.code) \in Nat
  BY <1>1
<1> QED BY <1>1, <1>2 DEF Places, Slots

LEMMA ObjectsAreShared ==
    ASSUME NEW m \in ProgramMethods, NEW other \in ProgramMethods,
           NEW v \in RunValues(m), v.v \in {"object", "array"}, NEW place \in Places(other)
    PROVE  v \in ObjectsOf(Instantiable, place) \cup ArraysOf(Arrays, place)
<1>1. PICK at \in Places(m) : v \in ObjectsOf(Instantiable, at) \cup ArraysOf(Arrays, at)
  BY DEF RunValues, Unset, NullRef, LongValue, RawThis, IntValue, RawObject, Address
<1>2. Identities(at) = Identities(place)
  BY IdentitiesAssumption
<1> QED BY <1>1, <1>2 DEF ObjectsOf, ArraysOf

(* What a method has and a declared type describes is one of the values    *)
(* that another may be given of the type.                                  *)
LEMMA DescribedAreValues ==
    ASSUME NEW m \in ProgramMethods, NEW other \in ProgramMethods,
           NEW v \in RunValues(m), v # Unset,
           NEW d, d.d \in DeclaredKinds, Describes(TypeOfDescriptor(d), v),
           NEW place \in Places(other)
    PROVE  v \in ValuesOf(d, place)
<1> USE DEF Describes, DescribesIn, DescribesOne, InstanceIn, IsReference, IsIntegral, InitializedSince
<1>1. CASE d.d = "class"
  <2>1. TypeOfDescriptor(d) = Exact(d.c)
    BY <1>1 DEF TypeOfDescriptor, SmallIntegrals
  <2>2. \/ v = NullRef
        \/ v.v = "object" /\ d.c \in Supertypes[v.class]
        \/ v.v = "array" /\ d.c \in ArraySupertypes
    BY <2>1 DEF Exact, Conflict, Unknown, Long, ReturnAddress
  <2>3. v = NullRef \/ v \in ObjectsOf(Instantiable, place) \cup ArraysOf(Arrays, place)
    BY <2>2, ObjectsAreShared
  <2>4. ValuesOf(d, place) =
            {NullRef} \cup ObjectsOf({c \in Instantiable : d.c \in Supertypes[c]}, place)
            \cup ArraysOf({a \in Arrays : d.c \in ArraySupertypes}, place)
    BY <1>1 DEF ValuesOf, SmallIntegrals
  <2> QED BY <2>2, <2>3, <2>4 DEF ObjectsOf, ArraysOf, Obj, ArrayObj
<1>2. CASE d.d = "array"
  <2>1. TypeOfDescriptor(d) = ArrayRef(d)
    BY <1>2 DEF TypeOfDescriptor, SmallIntegrals
  <2>2. v = NullRef \/ (v.v = "array" /\ IsSubtypeArray(Supertypes, v.d, d))
    BY <2>1 DEF ArrayRef, Conflict, Unknown, Long, ReturnAddress
  <2>3. v = NullRef \/ v \in ObjectsOf(Instantiable, place) \cup ArraysOf(Arrays, place)
    BY <2>2, ObjectsAreShared
  <2>4. ValuesOf(d, place) =
            {NullRef} \cup ArraysOf({a \in Arrays : IsSubtypeArray(Supertypes, a, d)}, place)
    BY <1>2 DEF ValuesOf, SmallIntegrals
  <2> QED BY <2>2, <2>3, <2>4 DEF ObjectsOf, ArraysOf, Obj, ArrayObj
<1>3. CASE d.d = "long"
  <2>1. TypeOfDescriptor(d) = Long
    BY <1>3 DEF TypeOfDescriptor, SmallIntegrals
  <2>2. v = LongValue
    BY <2>1 DEF Long, Conflict, Unknown, ReturnAddress
  <2> QED BY <1>3, <2>2 DEF ValuesOf, SmallIntegrals
<1>4. CASE d.d \in SmallIntegrals
  <2>1. TypeOfDescriptor(d) = Integral({d.d})
    BY <1>4 DEF TypeOfDescriptor, SmallIntegrals
  <2>2. v.v = "int" /\ InRange(d.d, v.n)
    BY <2>1 DEF Integral, Conflict, Unknown, Long, ReturnAddress
  <2>3. PICK n \in Ints : v = IntValue(n)
    BY <2>2 DEF RunValues, Unset, NullRef, LongValue, RawThis, ObjectsOf, ArraysOf, Obj, ArrayObj,
                RawObject, Address
  <2>4. v \in IntsOf(d.d)
    BY <2>2, <2>3 DEF IntsOf, IntValue
  <2>5. ValuesOf(d, place) = IntsOf(d.d)
    BY <1>4 DEF ValuesOf, SmallIntegrals
  <2> QED BY <2>4, <2>5
<1>5. CASE d.d \in {"float", "double"}
  <2>1. TypeOfDescriptor(d) \in {Float, Double}
    BY <1>5 DEF TypeOfDescriptor, SmallIntegrals
  <2> QED BY <2>1 DEF Float, Double, Conflict, Unknown, Long, ReturnAddress
<1> QED BY <1>1, <1>2, <1>3, <1>4, <1>5 DEF DeclaredKinds

(* Methods of a program that calls name are no constructors.               *)
LEMMA LinkedMethods ==
    ASSUME NEW p \in Programs, NEW m \in p.methods, MethodKey(m) \in Linked
    PROVE  /\ m \in Methods /\ m \in ProgramMethods /\ ~m.constructor
           /\ m.owner # NoClass /\ m.name # "<init>"
<1>1. m \in ProgramMethods
  BY DEF ProgramMethods
<1>2. {MethodKey(x) : x \in {x \in p.methods : ~x.constructor}} = Linked
  BY ProgramsAssumption
<1>3. PICK x \in p.methods : ~x.constructor /\ MethodKey(x) = MethodKey(m)
  BY <1>2
<1>4. x \in ProgramMethods /\ x.name = m.name
  BY <1>3 DEF ProgramMethods, MethodKey
<1> QED BY <1>1, <1>3, <1>4, ProgramsAssumption

(* The caller awaits the method, which started in the state e: i is the    *)
(* instruction at which the caller, whose machine is s, is.                *)
Passed(m, i, s, callee, e) ==
    /\ Takes(i, s)
    /\ MethodKey(callee) = i.member
    /\ callee.static <=> ~HasReceiver(i)
    /\ e = CalledWith(callee, i, s)

LEMMA CalledValues ==
    ASSUME NEW p \in Programs, NEW m \in p.methods, NEW callee \in p.methods,
           NEW F, NEW e, NEW s, Scene(m, F, e, s), LinkedCall(m, s),
           Takes(m.code[s.pc], s), MethodKey(callee) = m.code[s.pc].member,
           callee.static <=> ~HasReceiver(m.code[s.pc]),
           NEW slot \in Slots(callee)
    PROVE  CalledWith(callee, m.code[s.pc], s).locals[slot] \in EntryValues(callee, slot)
<1> DEFINE i == m.code[s.pc]
           parameter == ParameterAtSlot(callee, slot)
           args == CallArguments(s, i)
           receiver == CallReceiver(s, i)
           owner == [d |-> "class", c |-> callee.owner]
           v == CalledWith(callee, i, s).locals[slot]
<1>1. /\ callee \in Methods /\ callee \in ProgramMethods /\ ~callee.constructor
      /\ m \in ProgramMethods /\ i.op \in InvokeOps
  BY LinkedMethods DEF LinkedCall, ProgramMethods
<1>2. /\ i.member.owner = callee.owner
      /\ i.member.descriptor.params = callee.params
  BY DEF MethodKey
<1>3. slot \in Places(callee) /\ 0 \in Places(callee)
  BY <1>1, PlacesOfMethod
<1>4. v = IF slot = 0 /\ ~callee.static THEN receiver
          ELSE IF parameter = NoParameter THEN Unset ELSE args[parameter]
  BY DEF CalledWith
<1>5. EntryValues(callee, slot) =
          IF slot = 0 /\ ~callee.static
          THEN ValuesOf([d |-> "class", c |-> callee.owner], 0) \ {NullRef}
          ELSE IF parameter = NoParameter THEN {Unset}
          ELSE ValuesOf(callee.params[parameter], slot)
  BY <1>1 DEF EntryValues
<1> SUFFICES v \in EntryValues(callee, slot)
  OBVIOUS
<1> HIDE DEF v
<1>6. CASE slot = 0 /\ ~callee.static
  <2>1. HasReceiver(i) /\ InstanceOf(Exact(i.member.owner), receiver)
    BY <1>6 DEF Takes
  <2>2. receiver \in RunValues(m)
    BY <1>1, <2>1, ArgumentsMet
  <2>3. receiver # Unset /\ receiver # NullRef
    BY <2>1 DEF InstanceOf, InstanceIn, Unset, NullRef
  <2>4. TypeOfDescriptor(owner) = Exact(callee.owner) /\ owner.d \in DeclaredKinds
    BY DEF TypeOfDescriptor, SmallIntegrals, DeclaredKinds
  <2>5. Describes(TypeOfDescriptor(owner), receiver)
    BY <1>2, <2>1, <2>4, InstancesDescribed
  <2> HIDE DEF receiver, owner
  <2>6. receiver \in ValuesOf(owner, 0)
    BY <1>1, <1>3, <2>2, <2>3, <2>4, <2>5, DescribedAreValues
  <2>7. receiver \in ValuesOf([d |-> "class", c |-> callee.owner], 0) \ {NullRef}
    BY <2>3, <2>6 DEF owner
  <2> QED BY <1>4, <1>6, <1>5, <2>7
<1>7. CASE ~(slot = 0 /\ ~callee.static) /\ parameter = NoParameter
  BY <1>4, <1>7, <1>5
<1>8. CASE ~(slot = 0 /\ ~callee.static) /\ parameter # NoParameter
  <2>1. parameter \in DOMAIN callee.params
    BY <1>1, <1>8, ParameterThere
  <2>2. args[parameter] \in RunValues(m)
    BY <1>1, <1>2, <2>1, ArgumentsMet
  <2>3. /\ args[parameter] # Unset
        /\ Describes(TypeOfDescriptor(callee.params[parameter]), args[parameter])
    BY <1>2, <2>1 DEF Takes, Fit
  <2>4. callee.params[parameter].d \in DeclaredKinds
    BY <1>1, <2>1, ProgramsAssumption
  <2> HIDE DEF args, parameter
  <2>5. args[parameter] \in ValuesOf(callee.params[parameter], slot)
    BY <1>1, <1>3, <2>2, <2>3, <2>4, DescribedAreValues
  <2> QED BY <1>4, <1>8, <1>5, <2>5 DEF parameter
<1> QED BY <1>6, <1>7, <1>8

(* The method called starts as a method that is called from outside may.   *)
LEMMA CalledState ==
    ASSUME NEW p \in Programs, NEW m \in p.methods, NEW callee \in p.methods,
           NEW F, NEW e, NEW s, Scene(m, F, e, s), LinkedCall(m, s),
           Takes(m.code[s.pc], s), MethodKey(callee) = m.code[s.pc].member,
           callee.static <=> ~HasReceiver(m.code[s.pc])
    PROVE  CalledWith(callee, m.code[s.pc], s) \in EntryStates(callee)
<1> DEFINE c == CalledWith(callee, m.code[s.pc], s)
           all == UNION {EntryValues(callee, slot) : slot \in Slots(callee)}
<1>1. \A slot \in Slots(callee) : c.locals[slot] \in EntryValues(callee, slot)
  BY CalledValues
<1>2. /\ c = [pc |-> FirstOffset, locals |-> c.locals, stack |-> <<>>,
              status |-> "running", result |-> Unset]
      /\ DOMAIN c.locals = Slots(callee)
      /\ c.locals = [slot \in Slots(callee) |-> c.locals[slot]]
  BY DEF CalledWith
<1> HIDE DEF c
<1>3. c.locals \in [Slots(callee) -> all]
  BY <1>1, <1>2
<1> QED BY <1>1, <1>2, <1>3 DEF EntryStates, c

(* What the resolvers tell of a method of the program is what its frames   *)
(* say, or nothing.                                                        *)
LEMMA ToldFromFrames ==
    ASSUME NEW p \in Programs, NEW callee \in p.methods, ~callee.constructor,
           NEW env, NEW table, Agrees(env, p, table), NEW kind, NEW exact
    PROVE  /\ ReturnTypeForCall(env, MethodKey(callee), kind, exact)
                  \in {None, InferredReturn(callee, table[callee], Hierarchy)}
           /\ ReturnedParameterForCall(env, MethodKey(callee), kind, exact)
                  \in {NoParameter, ReturnedParameter(callee, table[callee])}
<1> DEFINE key == MethodKey(callee)
<1>1. /\ key \notin DOMAIN env.supplied
      /\ \A returns \in {env.returns, env.batch.returns} :
            Lookup(returns, key) \in {None, InferredReturn(callee, table[callee], Hierarchy)}
      /\ \A parameters \in {env.parameters, env.batch.parameters} :
            LookupIndex(parameters, key) \in {NoParameter, ReturnedParameter(callee, table[callee])}
  BY DEF Agrees, SummariesAgree
<1> HIDE DEF key
<1>2. /\ Lookup(env.returns, key) \in {None, InferredReturn(callee, table[callee], Hierarchy)}
      /\ Lookup(env.batch.returns, key) \in {None, InferredReturn(callee, table[callee], Hierarchy)}
      /\ LookupIndex(env.parameters, key)
             \in {NoParameter, ReturnedParameter(callee, table[callee])}
      /\ LookupIndex(env.batch.parameters, key)
             \in {NoParameter, ReturnedParameter(callee, table[callee])}
  BY <1>1
<1>3. ReturnTypeForCall(env, key, kind, exact)
          \in {None, Lookup(env.returns, key), Lookup(env.batch.returns, key)}
  BY <1>1 DEF ReturnTypeForCall, ExternalReturn, BatchReturn
<1>4. ReturnedParameterForCall(env, key, kind, exact)
          \in {NoParameter, LookupIndex(env.parameters, key), LookupIndex(env.batch.parameters, key)}
  BY DEF ReturnedParameterForCall
<1> QED BY <1>2, <1>3, <1>4 DEF key

(* What a method of the program returned is as its caller was told.        *)
LEMMA ReturnedIsTold ==
    ASSUME NEW p \in Programs, NEW m \in p.methods, NEW callee \in p.methods, NEW table,
           Agrees(Env(m), p, table),
           NEW F, NEW e, NEW s, Scene(m, F, e, s), LinkedCall(m, s),
           NEW ce, Passed(m, m.code[s.pc], s, callee, ce),
           Closed(Env(callee), callee, table[callee]), Verified(callee, table[callee]),
           NEW t, RunFits(callee, table[callee], ce, t), t.status = "returned", callee.ret # Void,
           NEW exact
    PROVE  ToldOfCall(m, m.code[s.pc], exact, CallArguments(s, m.code[s.pc]), t.result)
<1> DEFINE i == m.code[s.pc]
           args == CallArguments(s, i)
           summary == ReturnTypeForCall(Env(m), i.member, InvocationKind(i.op), exact)
           index == ReturnedParameterForCall(Env(m), i.member, InvocationKind(i.op), exact)
<1>1. /\ callee \in Methods /\ ~callee.constructor /\ i.op \in InvokeOps
      /\ MethodKey(callee) = i.member
      /\ callee.static <=> ~HasReceiver(i)
      /\ ce = CalledWith(callee, i, s)
  BY LinkedMethods DEF LinkedCall, Passed
<1>2. /\ summary \in {None, InferredReturn(callee, table[callee], Hierarchy)}
      /\ index \in {NoParameter, ReturnedParameter(callee, table[callee])}
  <2> DEFINE env == Env(m)
             kind == InvocationKind(i.op)
             key == i.member
  <2>1. Agrees(env, p, table) /\ key = MethodKey(callee)
    BY <1>1
  <2> HIDE DEF env, kind, key
  <2>2. /\ ReturnTypeForCall(env, key, kind, exact)
                \in {None, InferredReturn(callee, table[callee], Hierarchy)}
        /\ ReturnedParameterForCall(env, key, kind, exact)
                \in {NoParameter, ReturnedParameter(callee, table[callee])}
    BY <1>1, <2>1, ToldFromFrames
  <2> QED BY <2>2 DEF env, kind, key
<1>3. summary # None => Describes(summary, t.result)
  <2> HIDE DEF summary
  <2> QED BY <1>1, <1>2, InferredDescribes
<1>4. ASSUME index \in DOMAIN args PROVE t.result = args[index]
  <2>1. index # NoParameter
    <3>1. i.member.descriptor.params \in Seq(Range(i.member.descriptor.params))
      BY SceneFacts, <1>1 DEF Operands
    <3>2. DOMAIN args = DOMAIN i.member.descriptor.params
      BY DEF CallArguments
    <3> HIDE DEF args, index
    <3> QED BY <1>4, <3>1, <3>2 DEF NoParameter
  <2> HIDE DEF index, args
  <2>2. callee.code[t.pc].op \in ValueReturnOps
    BY <1>1, ValuesReturn
  <2>3. PICK n \in Slots(callee) : ParameterAtSlot(callee, n) = index /\ t.result = ce.locals[n]
    BY <1>1, <1>2, <2>1, <2>2, ReturnedFromSlot
  <2>4. ~callee.static => n # 0
    BY <1>1, <2>1, <2>3, ParameterThere
  <2>5. ce.locals[n] = IF n = 0 /\ ~callee.static THEN CallReceiver(s, i)
                       ELSE IF ParameterAtSlot(callee, n) = NoParameter THEN Unset
                       ELSE CallArguments(s, i)[ParameterAtSlot(callee, n)]
    BY <1>1 DEF CalledWith
  <2> QED BY <2>1, <2>3, <2>4, <2>5 DEF args
<1> HIDE DEF summary, index, args
<1> QED BY <1>3, <1>4 DEF ToldOfCall, summary, index, args

(* Of a call that an overriding method may answer nothing is told.         *)
LEMMA OverridesAreNotTold ==
    ASSUME NEW p \in Programs, NEW m \in p.methods, NEW table, Agrees(Env(m), p, table),
           NEW F, NEW e, NEW s, Scene(m, F, e, s), LinkedCall(m, s), Takes(m.code[s.pc], s),
           m.code[s.pc].op \in {"invokevirtual", "invokeinterface"},
           m.code[s.pc].member \notin p.final,
           ~(/\ CallReceiver(s, m.code[s.pc]).v = "object"
             /\ CallReceiver(s, m.code[s.pc]).class = m.code[s.pc].member.owner),
           NEW v
    PROVE  ToldOfCall(m, m.code[s.pc],
                      ReceiverIsExactAllocation(m, m.code[s.pc], Receiver(m.code[s.pc], F[s.pc])),
                      CallArguments(s, m.code[s.pc]), v)
<1> DEFINE i == m.code[s.pc]
           key == i.member
           env == Env(m)
           exact == ReceiverIsExactAllocation(m, i, Receiver(i, F[s.pc]))
           kind == InvocationKind(i.op)
           args == CallArguments(s, i)
<1>1. i.op \in InvokeOps /\ key \in Linked /\ HasReceiver(i)
      /\ InstanceOf(Exact(key.owner), CallReceiver(s, i))
  BY DEF LinkedCall, HasReceiver, Takes
<1>2. ~exact
  BY <1>1, ExactReceivers
<1>3. PICK x \in p.methods : ~x.constructor /\ MethodKey(x) = key
  <2>1. {MethodKey(x) : x \in {x \in p.methods : ~x.constructor}} = Linked
    BY ProgramsAssumption
  <2> HIDE DEF key
  <2> QED BY <1>1, <2>1
<1>4. /\ key \notin DOMAIN env.supplied
      /\ ~(key.owner = env.owner /\ env.classFinal)
      /\ key \notin env.finalMethods /\ key \notin env.batch.finalMethods
      /\ key.owner \notin env.batch.finalClasses
  BY <1>3 DEF Agrees, SummariesAgree, FinalsAgree
<1>5. kind \in {"virtual", "interface"}
  BY DEF InvocationKind
<1>6. DOMAIN args = DOMAIN i.member.descriptor.params
      /\ i.member.descriptor.params \in Seq(Range(i.member.descriptor.params))
  BY <1>1, SceneFacts DEF Operands, CallArguments
<1>7. NoParameter \notin DOMAIN args
  <2> HIDE DEF args
  <2> QED BY <1>6 DEF NoParameter
<1> HIDE DEF key, env, exact, kind, args
<1>8. ~LocalCallIsDeterministic(env, key, kind, exact)
  BY <1>2, <1>4, <1>5 DEF LocalCallIsDeterministic, Deterministic
<1>9. BatchReturn(env, key, kind, exact) = None
  BY <1>2, <1>4, <1>5 DEF BatchReturn, BatchCallIsDeterministic, Deterministic
<1>10. ReturnTypeForCall(env, key, kind, exact) = None
  BY <1>4, <1>8, <1>9 DEF ReturnTypeForCall, ExternalReturn
<1>11. ReturnedParameterForCall(env, key, kind, exact) = NoParameter
  BY <1>4, <1>8, <1>9 DEF ReturnedParameterForCall
<1> QED BY <1>7, <1>10, <1>11 DEF ToldOfCall, key, env, exact, kind, args

(* A value of the type declared goes back to a caller that was told right. *)
LEMMA AnsweredRuns ==
    ASSUME NEW p \in Programs, NEW m \in p.methods,
           NEW F, NEW e, NEW s, Scene(m, F, e, s), LinkedCall(m, s),
           m.code[s.pc].member.descriptor.ret # Void,
           NEW v, Typed(m, Plain(TypeOfDescriptor(m.code[s.pc].member.descriptor.ret)), v),
           ToldOfCall(m, m.code[s.pc],
                      ReceiverIsExactAllocation(m, m.code[s.pc], Receiver(m.code[s.pc], F[s.pc])),
                      CallArguments(s, m.code[s.pc]), v)
    PROVE  RunFits(m, F, e, Continue(s, CallPops(m.code[s.pc]), <<v>>))
<1> DEFINE i == m.code[s.pc]
<1>1. i.op \in InvokeOps /\ i.member.name # "<init>" /\ i.member.owner # NoClass
  <2>1. {MethodKey(x) : x \in {x \in p.methods : ~x.constructor}} = Linked
    BY ProgramsAssumption
  <2>2. PICK x \in p.methods : MethodKey(x) = i.member
    BY <2>1 DEF LinkedCall
  <2>3. x.owner # NoClass /\ x.name # "<init>"
    BY <2>2, LinkedMethods DEF LinkedCall
  <2> QED BY <2>2, <2>3 DEF MethodKey, LinkedCall
<1>2. \E slot : /\ CallPushes(m, i, F[s.pc]) = <<slot>>
                /\ Fits(m, Cells(F[s.pc], s.locals, s.stack), slot, v)
  BY <1>1, AnswerFits
<1> QED BY <1>1, <1>2, CallYields

LEMMA CompletedRuns ==
    ASSUME NEW p \in Programs, NEW m \in p.methods,
           NEW F, NEW e, NEW s, Scene(m, F, e, s), LinkedCall(m, s),
           m.code[s.pc].member.descriptor.ret = Void
    PROVE  RunFits(m, F, e, Continue(s, CallPops(m.code[s.pc]), <<>>))
<1> DEFINE i == m.code[s.pc]
<1>1. i.op \in InvokeOps /\ i.member.name # "<init>"
  <2>1. {MethodKey(x) : x \in {x \in p.methods : ~x.constructor}} = Linked
    BY ProgramsAssumption
  <2>2. PICK x \in p.methods : MethodKey(x) = i.member
    BY <2>1 DEF LinkedCall
  <2>3. x.name # "<init>"
    BY <2>2, LinkedMethods DEF LinkedCall
  <2> QED BY <2>2, <2>3 DEF MethodKey, LinkedCall
<1>2. CallPushes(m, i, F[s.pc]) = <<>>
  BY DEF CallPushes, ArrayCallResult, CallResult
<1> QED BY <1>1, <1>2, CallYields

-----------------------------------------------------------------------------
(* The runs of a program.                                                  *)

(* What the loops over methods and classes end with.                       *)
Analyzed(p, table) ==
    /\ p \in Programs
    /\ \A m \in p.methods : /\ Closed(Env(m), m, table[m])
                            /\ Verified(m, table[m])
                            /\ Agrees(Env(m), p, table)

ActivationFits(p, table, m, e, s) ==
    /\ m \in p.methods
    /\ s.status # "none" => e \in EntryStates(m) /\ RunFits(m, table[m], e, s)

(* The activation is suspended, and where it awaits a method it is at the  *)
(* call of it: cm is the method that it waits for, ce the state in which   *)
(* this one started.                                                       *)
SuspendedFits(p, table, a, cm, ce) ==
    /\ ActivationFits(p, table, a.method, a.entry, a.machine)
    /\ a.machine.status \in {"none", "running"}
    /\ a.awaits => /\ a.machine.status = "running"
                   /\ LinkedCall(a.method, a.machine)
                   /\ Passed(a.method, a.method.code[a.machine.pc], a.machine, cm, ce)

(* Each activation waits for the one before it, and the first one for the  *)
(* method m, which started in the state e.                                 *)
Awaited(cs, k, m, e) ==
    IF k = 1 THEN [method |-> m, entry |-> e]
    ELSE [method |-> cs[k - 1].method, entry |-> cs[k - 1].entry]

CallersFit(p, table, cs, m, e) ==
    /\ \E S : cs \in Seq(S)
    /\ \A k \in 1..Len(cs) :
          SuspendedFits(p, table, cs[k], Awaited(cs, k, m, e).method, Awaited(cs, k, m, e).entry)

LEMMA CallersPushed ==
    ASSUME NEW p, NEW table, NEW cs, NEW m, NEW e, CallersFit(p, table, cs, m, e),
           NEW a, a.method = m, a.entry = e, NEW cm, NEW ce, SuspendedFits(p, table, a, cm, ce)
    PROVE  CallersFit(p, table, <<a>> \o cs, cm, ce)
<1> DEFINE r == <<a>> \o cs
<1>1. PICK S : cs \in Seq(S)
  BY DEF CallersFit
<1>2. /\ Len(cs) \in Nat /\ Len(r) = Len(cs) + 1
      /\ r[1] = a /\ \A k \in 2..Len(r) : r[k] = cs[k - 1]
  BY <1>1
<1>3. r \in Seq(S \cup {a})
  BY <1>1
<1> HIDE DEF r
<1>4. ASSUME NEW k \in 1..Len(r)
      PROVE  SuspendedFits(p, table, r[k], Awaited(r, k, cm, ce).method, Awaited(r, k, cm, ce).entry)
  <2>1. CASE k = 1
    BY <1>2, <2>1 DEF Awaited
  <2>2. CASE k # 1
    <3>1. k \in 2..Len(r) /\ k - 1 \in 1..Len(cs) /\ r[k] = cs[k - 1]
      BY <1>2, <2>2
    <3>2. Awaited(r, k, cm, ce) = Awaited(cs, k - 1, m, e)
      <4>1. CASE k - 1 = 1
        BY <1>2, <2>2, <4>1 DEF Awaited
      <4>2. CASE k - 1 # 1
        <5>1. r[k - 1] = cs[(k - 1) - 1]
          BY <1>2, <3>1, <4>2
        <5> QED BY <2>2, <4>2, <5>1 DEF Awaited
      <4> QED BY <4>1, <4>2
    <3> QED BY <3>1, <3>2 DEF CallersFit
  <2> QED BY <2>1, <2>2
<1> QED BY <1>3, <1>4 DEF CallersFit, r

LEMMA CallersPopped ==
    ASSUME NEW p, NEW table, NEW cs, NEW m, NEW e, CallersFit(p, table, cs, m, e), cs # <<>>
    PROVE  /\ SuspendedFits(p, table, Head(cs), m, e)
           /\ CallersFit(p, table, Tail(cs), Head(cs).method, Head(cs).entry)
<1> DEFINE r == Tail(cs)
           h == Head(cs)
<1>1. PICK S : cs \in Seq(S)
  BY DEF CallersFit
<1>2. /\ Len(cs) \in Nat \ {0} /\ Len(r) = Len(cs) - 1 /\ r \in Seq(S)
      /\ h = cs[1] /\ \A k \in 1..Len(r) : r[k] = cs[k + 1]
  BY <1>1
<1> HIDE DEF r, h
<1>3. SuspendedFits(p, table, h, m, e)
  <2>1. 1 \in 1..Len(cs)
    BY <1>2
  <2> QED BY <1>2, <2>1 DEF CallersFit, Awaited
<1>4. ASSUME NEW k \in 1..Len(r)
      PROVE  SuspendedFits(p, table, r[k], Awaited(r, k, h.method, h.entry).method,
                           Awaited(r, k, h.method, h.entry).entry)
  <2>1. k + 1 \in 1..Len(cs) /\ r[k] = cs[k + 1]
    BY <1>2
  <2>2. Awaited(r, k, h.method, h.entry) = Awaited(cs, k + 1, m, e)
    <3>1. CASE k = 1
      BY <1>2, <3>1 DEF Awaited
    <3>2. CASE k # 1
      <4>1. r[k - 1] = cs[(k - 1) + 1]
        BY <1>2, <3>2
      <4> QED BY <3>2, <4>1 DEF Awaited
    <3> QED BY <3>1, <3>2
  <2> QED BY <2>1, <2>2 DEF CallersFit
<1> QED BY <1>2, <1>3, <1>4 DEF CallersFit, r, h

LEMMA ActivationScene ==
    ASSUME NEW p, NEW table, Analyzed(p, table), NEW m, NEW e, NEW s,
           ActivationFits(p, table, m, e, s), s.status = "running"
    PROVE  Scene(m, table[m], e, s) /\ m \in ProgramMethods
<1>1. p \in Programs /\ m \in p.methods
  BY DEF Analyzed, ActivationFits
<1>2. m \in ProgramMethods
  BY <1>1 DEF ProgramMethods
<1>3. m \in Methods
  BY <1>2, ProgramsAssumption
<1>4. e \in EntryStates(m) /\ RunFits(m, table[m], e, s)
  BY DEF ActivationFits
<1>5. ArgumentsAreReady(m, e)
  BY <1>3, <1>4, EntryFits
<1> QED BY <1>1, <1>2, <1>3, <1>4, <1>5 DEF Analyzed, Scene

LEMMA EntryFitsActivation ==
    ASSUME NEW p, NEW table, Analyzed(p, table), NEW m \in p.methods, NEW e \in EntryStates(m)
    PROVE  ActivationFits(p, table, m, e, e)
<1>1. m \in Methods /\ Closed(Env(m), m, table[m])
  BY ProgramsAssumption DEF Analyzed, ProgramMethods
<1>2. /\ FrameFits(m, e, EntryFrame(m), e)
      /\ e.pc = FirstOffset /\ e.status = "running"
  BY <1>1, EntryFits
<1>3. AdmitsAt(table[m], FirstOffset, EntryFrame(m))
  BY <1>1 DEF Closed
<1>4. RunFits(m, table[m], e, e)
  BY <1>1, <1>2, <1>3, Lands
<1> QED BY <1>4 DEF ActivationFits

-----------------------------------------------------------------------------
ProgramInv ==
    /\ Analyzed(program, framesOf)
    /\ before = framesOf[method]
    /\ ActivationFits(program, framesOf, method, entry, machine)
    /\ CallersFit(program, framesOf, calls, method, entry)

LEMMA ProgramStarts == ProgramInit => ProgramInv
<1> SUFFICES ASSUME ProgramInit PROVE ProgramInv
  OBVIOUS
<1>1. Analyzed(program, framesOf) /\ method \in program.methods /\ before = framesOf[method]
  BY DEF ProgramInit, Analyzed
<1>2. ActivationFits(program, framesOf, method, entry, machine)
  BY <1>1 DEF ProgramInit, ActivationFits, NoMachine
<1>3. calls = <<>> /\ calls \in Seq({})
  BY DEF ProgramInit
<1>4. CallersFit(program, framesOf, calls, method, entry)
  BY <1>3 DEF CallersFit
<1> QED BY <1>1, <1>2, <1>4 DEF ProgramInv

(* A method starts, for outside code or for the one that ran.              *)
LEMMA BeginKeeps ==
    ASSUME ProgramInv, NEW m \in program.methods, NEW state \in EntryStates(m), NEW awaits,
           Begin(m, state, awaits), machine.status \in {"none", "running"},
           awaits => /\ machine.status = "running" /\ LinkedCall(method, machine)
                     /\ Passed(method, method.code[machine.pc], machine, m, state)
    PROVE  ProgramInv'
<1> DEFINE a == Suspended(awaits)
<1>1. /\ calls' = <<a>> \o calls /\ method' = m /\ before' = framesOf[m]
      /\ machine' = state /\ entry' = state /\ program' = program /\ framesOf' = framesOf
  BY DEF Begin
<1>2. /\ a.method = method /\ a.machine = machine /\ a.entry = entry
      /\ a.awaits = awaits
  BY DEF Suspended
<1> HIDE DEF a
<1>3. SuspendedFits(program, framesOf, a, m, state)
  BY <1>2 DEF ProgramInv, SuspendedFits
<1>4. CallersFit(program, framesOf, <<a>> \o calls, m, state)
  BY <1>2, <1>3, CallersPushed DEF ProgramInv
<1>5. ActivationFits(program, framesOf, m, state, state)
  BY EntryFitsActivation DEF ProgramInv
<1> QED BY <1>1, <1>4, <1>5 DEF ProgramInv

(* The activation that runs goes on.                                       *)
LEMMA BecomesKeeps ==
    ASSUME ProgramInv, machine.status = "running", RunFits(method, before, entry, machine'),
           method' = method, before' = before, entry' = entry, program' = program,
           framesOf' = framesOf, calls' = calls
    PROVE  ProgramInv'
<1>1. ActivationFits(program, framesOf, method, entry, machine')
  BY DEF ProgramInv, ActivationFits
<1> QED BY <1>1 DEF ProgramInv

LEMMA OverrideFits ==
    ASSUME NEW p, NEW table, Analyzed(p, table), NEW m, NEW e, NEW s,
           ActivationFits(p, table, m, e, s), s.status = "running", LinkedCall(m, s),
           Takes(m.code[s.pc], s),
           m.code[s.pc].op \in {"invokevirtual", "invokeinterface"},
           m.code[s.pc].member \notin p.final,
           ~(/\ CallReceiver(s, m.code[s.pc]).v = "object"
             /\ CallReceiver(s, m.code[s.pc]).class = m.code[s.pc].member.owner),
           NEW t,
           IF m.code[s.pc].member.descriptor.ret = Void
           THEN t = Continue(s, CallPops(m.code[s.pc]), <<>>)
           ELSE t \in Yield(s, CallPops(m.code[s.pc]),
                            ValuesOf(m.code[s.pc].member.descriptor.ret, 0))
    PROVE  RunFits(m, table[m], e, t)
<1> DEFINE i == m.code[s.pc]
           ret == i.member.descriptor.ret
           pops == CallPops(i)
<1>1. /\ Scene(m, table[m], e, s) /\ m \in ProgramMethods /\ m \in Methods
      /\ p \in Programs /\ m \in p.methods /\ Agrees(Env(m), p, table)
  BY ActivationScene, ProgramsAssumption DEF Analyzed, ActivationFits
<1>2. CASE ret = Void
  BY <1>1, <1>2, CompletedRuns
<1>3. CASE ret # Void
  <2>1. PICK v \in ValuesOf(ret, 0) : t = Continue(s, pops, <<v>>)
    BY <1>3 DEF Yield
  <2>2. 0 \in Places(m)
    BY <1>1, PlacesOfMethod
  <2>3. /\ v \in RunValues(m) /\ Describes(TypeOfDescriptor(ret), v) /\ v.v # "raw"
    BY <2>1, <2>2, ValuesOfType
  <2>4. Typed(m, Plain(TypeOfDescriptor(ret)), v)
    BY <2>3, PlainFits
  <2>5. ToldOfCall(m, i, ReceiverIsExactAllocation(m, i, Receiver(i, table[m][s.pc])),
                   CallArguments(s, i), v)
    BY <1>1, OverridesAreNotTold
  <2> QED BY <1>1, <1>3, <2>1, <2>4, <2>5, AnsweredRuns
<1> QED BY <1>2, <1>3

(* A call is completed, whichever way the method called ended.             *)
LEMMA CompletedFits ==
    ASSUME ProgramInv, machine.status \in {"returned", "threw"},
           NEW c, SuspendedFits(program, framesOf, c, method, entry), c.awaits,
           NEW t \in Completed(c)
    PROVE  RunFits(c.method, framesOf[c.method], c.entry, t)
<1> DEFINE m == c.method
           s == c.machine
           F == framesOf[m]
           i == m.code[s.pc]
           pops == CallPops(i)
           v == machine.result
<1>1. /\ ActivationFits(program, framesOf, m, c.entry, s) /\ s.status = "running"
      /\ LinkedCall(m, s) /\ Passed(m, i, s, method, entry)
  BY DEF SuspendedFits
<1>2. /\ Analyzed(program, framesOf) /\ program \in Programs
      /\ method \in program.methods /\ m \in program.methods /\ before = framesOf[method]
      /\ entry \in EntryStates(method) /\ RunFits(method, before, entry, machine)
  BY <1>1 DEF ProgramInv, Analyzed, ActivationFits
<1>3. Scene(m, F, c.entry, s) /\ m \in ProgramMethods
  BY <1>1, <1>2, ActivationScene
<1>4. i.op \in InvokeOps /\ i.member = MethodKey(method)
  BY <1>1 DEF LinkedCall, Passed
<1>5. i.member.descriptor.ret = method.ret
  BY <1>4 DEF MethodKey
<1>6. CASE machine.status = "threw"
  <2>1. t \in ThrowAny(m, s)
    BY <1>6 DEF Completed
  <2>2. MayThrow(i.op)
    BY <1>4 DEF MayThrow, InvokeOps
  <2> QED BY <1>3, <2>1, <2>2, ThrowsAnyRun
<1>7. CASE machine.status = "returned" /\ method.ret = Void
  <2>1. t = Continue(s, pops, <<>>)
    BY <1>7 DEF Completed
  <2> QED BY <1>1, <1>2, <1>3, <1>5, <1>7, <2>1, CompletedRuns
<1>8. CASE /\ machine.status = "returned" /\ method.ret # Void
           /\ v # Unset /\ Describes(TypeOfDescriptor(method.ret), v)
  <2>1. t = Continue(s, pops, <<v>>)
    BY <1>8 DEF Completed
  <2>2. method \in Methods /\ method \in ProgramMethods /\ method.ret.d \in DeclaredKinds
    BY <1>2, <1>8, ProgramsAssumption DEF ProgramMethods
  <2>3. Closed(Env(method), method, before) /\ Verified(method, before)
    BY <1>2 DEF Analyzed
  <2>4. v \in RunValues(method)
    <3>1. method.code[machine.pc].op \in ValueReturnOps
      BY <1>2, <1>8, <2>2, <2>3, ValuesReturn
    <3> QED BY <1>2, <1>8, <2>2, <2>3, <3>1, ReturnedValue
  <2>5. 0 \in Places(m)
    BY <1>3, PlacesOfMethod DEF Scene
  <2>6. v \in ValuesOf(method.ret, 0)
    BY <1>3, <1>8, <2>2, <2>4, <2>5, DescribedAreValues
  <2>7. /\ v \in RunValues(m) /\ Describes(TypeOfDescriptor(method.ret), v) /\ v.v # "raw"
    BY <2>5, <2>6, ValuesOfType
  <2>8. Typed(m, Plain(TypeOfDescriptor(method.ret)), v)
    BY <2>7, PlainFits
  <2>9. Agrees(Env(m), program, framesOf)
    BY <1>2 DEF Analyzed
  <2> DEFINE exact == ReceiverIsExactAllocation(m, i, Receiver(i, F[s.pc]))
  <2>10. ToldOfCall(m, i, exact, CallArguments(s, i), v)
    <3>1. RunFits(method, framesOf[method], entry, machine)
      BY <1>2
    <3>2. Closed(Env(method), method, framesOf[method]) /\ Verified(method, framesOf[method])
      BY <1>2, <2>3
    <3> HIDE DEF exact
    <3> QED BY <1>1, <1>2, <1>3, <1>8, <2>9, <3>1, <3>2, ReturnedIsTold
  <2> QED BY <1>1, <1>2, <1>3, <1>5, <1>8, <2>1, <2>8, <2>10, AnsweredRuns
<1>9. CASE /\ machine.status = "returned" /\ method.ret # Void
           /\ ~(v # Unset /\ Describes(TypeOfDescriptor(method.ret), v))
  <2>1. t \in {Stuck(s)}
    BY <1>9 DEF Completed
  <2> QED BY <1>3, <2>1, StuckFits
<1> QED BY <1>6, <1>7, <1>8, <1>9

LEMMA LeaveKeeps == ProgramInv /\ Leave => ProgramInv'
<1> SUFFICES ASSUME ProgramInv, Leave PROVE ProgramInv'
  OBVIOUS
<1> DEFINE c == Head(calls)
<1>1. /\ machine.status \in {"returned", "threw"} /\ calls # <<>>
      /\ method' = c.method /\ before' = framesOf[c.method] /\ entry' = c.entry
      /\ machine' \in IF c.awaits THEN Completed(c) ELSE {c.machine}
      /\ calls' = Tail(calls) /\ program' = program /\ framesOf' = framesOf
  BY DEF Leave
<1> HIDE DEF c
<1>2. /\ SuspendedFits(program, framesOf, c, method, entry)
      /\ CallersFit(program, framesOf, Tail(calls), c.method, c.entry)
  BY <1>1, CallersPopped DEF ProgramInv, c
<1>3. ActivationFits(program, framesOf, c.method, c.entry, machine')
  <2>1. CASE ~c.awaits
    BY <1>1, <1>2, <2>1 DEF SuspendedFits
  <2>2. CASE c.awaits
    <3>1. RunFits(c.method, framesOf[c.method], c.entry, machine')
      BY <1>1, <1>2, <2>2, CompletedFits
    <3>2. c.method \in program.methods /\ c.entry \in EntryStates(c.method)
      BY <1>2, <2>2 DEF SuspendedFits, ActivationFits
    <3> QED BY <3>1, <3>2 DEF ActivationFits
  <2> QED BY <2>1, <2>2
<1> QED BY <1>1, <1>2, <1>3 DEF ProgramInv

LEMMA ProgramKeeps == ProgramInv /\ [ProgramNext]_programVars => ProgramInv'
<1> SUFFICES ASSUME ProgramInv, [ProgramNext]_programVars PROVE ProgramInv'
  OBVIOUS
<1> DEFINE i == Instruction
<1>1. Analyzed(program, framesOf) /\ before = framesOf[method]
  BY DEF ProgramInv
<1>2. machine.status = "running" => Scene(method, before, entry, machine)
  BY <1>1, ActivationScene DEF ProgramInv
<1>3. CASE OutsideCall
  <2>1. PICK m \in program.methods : \E state \in EntryStates(m) : Begin(m, state, FALSE)
    BY <1>3 DEF OutsideCall
  <2> QED BY <1>3, <2>1, BeginKeeps DEF OutsideCall
<1>4. CASE Step
  <2>1. /\ machine.status = "running" /\ ~LinkedCall(method, machine)
        /\ machine' \in Steps(method, machine, Truth)
        /\ method' = method /\ before' = before /\ entry' = entry
        /\ program' = program /\ framesOf' = framesOf /\ calls' = calls
    BY <1>4 DEF Step, Execute
  <2>2. RunFits(method, before, entry, machine')
    BY <1>2, <2>1, StepsRun
  <2> QED BY <2>1, <2>2, BecomesKeeps
<1>5. CASE Enter
  <2>1. /\ machine.status = "running" /\ LinkedCall(method, machine) /\ Takes(i, machine)
        /\ i = method.code[machine.pc]
    BY <1>5 DEF Enter, Calling, Instruction
  <2>2. PICK m \in program.methods : /\ MethodKey(m) = i.member
                                     /\ m.static <=> ~HasReceiver(i)
                                     /\ Begin(m, CalledWith(m, i, machine), TRUE)
    BY <1>5 DEF Enter
  <2> DEFINE state == CalledWith(m, i, machine)
  <2>3. program \in Programs /\ method \in program.methods
    BY DEF ProgramInv, Analyzed, ActivationFits
  <2>4. state \in EntryStates(m)
    BY <1>2, <2>1, <2>2, <2>3, CalledState
  <2>5. Passed(method, i, machine, m, state)
    BY <2>1, <2>2 DEF Passed
  <2> HIDE DEF state
  <2>6. Begin(m, state, TRUE)
    BY <2>2 DEF state
  <2> QED BY <2>1, <2>4, <2>5, <2>6, BeginKeeps
<1>6. CASE Override
  <2> DEFINE ret == i.member.descriptor.ret
             pops == CallPops(i)
             answers == IF ret = Void THEN {Continue(machine, pops, <<>>)}
                        ELSE Yield(machine, pops, ValuesOf(ret, 0))
  <2>1. /\ machine.status = "running" /\ LinkedCall(method, machine) /\ Takes(i, machine)
        /\ i = method.code[machine.pc]
        /\ Overridable(i, CallReceiver(machine, i))
        /\ Becomes(answers)
    BY <1>6 DEF Override, Calling, Instruction
  <2>2. /\ i.op \in {"invokevirtual", "invokeinterface"} /\ i.member \notin program.final
        /\ ~(/\ CallReceiver(machine, i).v = "object"
             /\ CallReceiver(machine, i).class = i.member.owner)
    BY <2>1 DEF Overridable
  <2>3. machine' \in answers
    BY <2>1 DEF Becomes
  <2>4. IF ret = Void THEN machine' = Continue(machine, pops, <<>>)
        ELSE machine' \in Yield(machine, pops, ValuesOf(ret, 0))
    BY <2>3
  <2>5. ActivationFits(program, framesOf, method, entry, machine)
    BY DEF ProgramInv
  <2>6. RunFits(method, before, entry, machine')
    BY <1>1, <2>1, <2>2, <2>4, <2>5, OverrideFits
  <2>7. /\ method' = method /\ before' = before /\ entry' = entry
        /\ program' = program /\ framesOf' = framesOf /\ calls' = calls
    BY <2>1 DEF Becomes
  <2> QED BY <2>1, <2>6, <2>7, BecomesKeeps
<1>7. CASE CallThrows
  <2>1. /\ machine.status = "running" /\ LinkedCall(method, machine)
        /\ Becomes(ThrowAny(method, machine))
    BY <1>7 DEF CallThrows, Calling
  <2>2. MayThrow(method.code[machine.pc].op)
    BY <2>1 DEF LinkedCall, MayThrow, InvokeOps
  <2>3. RunFits(method, before, entry, machine')
    BY <1>2, <2>1, <2>2, ThrowsAnyRun DEF Becomes
  <2> QED BY <2>1, <2>3, BecomesKeeps DEF Becomes
<1>8. CASE Leave
  BY <1>8, LeaveKeeps
<1>9. CASE UNCHANGED programVars
  <2>1. /\ method' = method /\ before' = before /\ entry' = entry /\ machine' = machine
        /\ program' = program /\ framesOf' = framesOf /\ calls' = calls
    BY <1>9 DEF programVars, runVars
  <2> QED BY <2>1 DEF ProgramInv
<1> QED BY <1>3, <1>4, <1>5, <1>6, <1>7, <1>8, <1>9 DEF ProgramNext

(* Of a method that runs or has ended the invariant says what it says of   *)
(* one that runs by itself.                                                *)
LEMMA ActivationRuns == ProgramInv => machine.status = "none" \/ RunInv
<1> SUFFICES ASSUME ProgramInv, machine.status # "none" PROVE RunInv
  OBVIOUS
<1>1. /\ method \in program.methods /\ entry \in EntryStates(method)
      /\ RunFits(method, before, entry, machine)
  BY DEF ProgramInv, ActivationFits
<1>2. method \in Methods
  BY <1>1, ProgramsAssumption DEF ProgramInv, Analyzed, ProgramMethods
<1>3. Closed(Env(method), method, before) /\ Verified(method, before)
  BY <1>1 DEF ProgramInv, Analyzed
<1> QED BY <1>1, <1>2, <1>3 DEF RunInv

LEMMA IdlesDescribe ==
    machine.status = "none" => /\ FramesDescribeRuns /\ OriginsIdentify
                               /\ ReturnsDescribed /\ ReturnedParameterIsArgument
BY DEF FramesDescribeRuns, OriginsIdentify, ReturnsDescribed, ReturnedParameterIsArgument

(* Throughout a run of a program whose methods call each other, are called *)
(* from outside at any point and recursively, every activation, suspended  *)
(* or not, fits the frames of its method, and the arguments of each one    *)
(* that is awaited are those its caller has on its stack.                  *)
THEOREM ProgramIsSound == ProgramSpec => []ProgramInv
<1> QED BY ProgramStarts, ProgramKeeps, PTL DEF ProgramSpec

(* Frames that are closed under summaries which say of each method what    *)
(* its own frames say describe every run of the program, however its       *)
(* methods call each other: the circle of summaries and frames that the    *)
(* class-local and batch loops stop at is no circular argument.            *)
THEOREM ProgramsAreDescribed == ProgramSpec => []FramesDescribeRuns
<1>1. ProgramInv => FramesDescribeRuns
  BY ActivationRuns, RunDescribes, IdlesDescribe
<1> QED BY <1>1, ProgramIsSound, PTL

(* The same of the origins in the frames of the methods of a program: also *)
(* those that a summary of a returned parameter passes on through a call.  *)
THEOREM ProgramOrigins == ProgramSpec => []OriginsIdentify
<1>1. ProgramInv => OriginsIdentify
  BY ActivationRuns, RunIdentifies, IdlesDescribe
<1> QED BY <1>1, ProgramIsSound, PTL

(* The return type inferred for each method of a program describes what    *)
(* every call of the method returns, recursive and re-entrant ones too.    *)
THEOREM ProgramResults == ProgramSpec => []ReturnsDescribed
<1>1. ProgramInv => ReturnsDescribed
  BY ActivationRuns, RunReturns, IdlesDescribe
<1> QED BY <1>1, ProgramIsSound, PTL

(* A method of a program that is inferred to return a parameter returns    *)
(* the argument, also where it only passes on what another one returned.   *)
THEOREM ProgramArguments == ProgramSpec => []ReturnedParameterIsArgument
<1>1. ProgramInv => ReturnedParameterIsArgument
  BY ActivationRuns, RunReturnsParameter, IdlesDescribe
<1> QED BY <1>1, ProgramIsSound, PTL
=============================================================================
