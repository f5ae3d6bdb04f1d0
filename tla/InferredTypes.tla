--------------------------- MODULE InferredTypes ---------------------------
(***************************************************************************)
(* The abstract types of the inferer and the joins that merge them:        *)
(* types/inference.rs, types/integral.rs, the hierarchy walk of            *)
(* hierarchy.rs and the compatibility test of summary.rs.                  *)
(*                                                                         *)
(* A type is a record whose field k is its constructor.  The reference     *)
(* constructors are kept flat: Reference(Exact(c)) is [k |-> "exact"].     *)
(* Int is the integral set {"int"}, the form from_integral_types gives it. *)
(* A sorted, duplicate-free vector of alternatives is the set of its       *)
(* members, since compare_inferred_types is a total order.                 *)
(***************************************************************************)
EXTENDS Naturals, FiniteSets, Sequences, SequencesExt

CONSTANTS
    ReferenceOrder,   \* the class and array references, in compare_references order
    Object            \* the name of java/lang/Object

-----------------------------------------------------------------------------
(* Constructors.                                                           *)

None == [k |-> "none"]              \* Option::None, never a type
Bottom == [k |-> "bottom"]
Float == [k |-> "float"]
Long == [k |-> "long"]
Double == [k |-> "double"]
Null == [k |-> "null"]
Unknown == [k |-> "unknown"]
ReturnAddress == [k |-> "returnAddress"]
Conflict == [k |-> "conflict"]
Integral(S) == [k |-> "integral", of |-> S]
Exact(c) == [k |-> "exact", c |-> c]
ArrayRef(d) == [k |-> "array", d |-> d]
Uninitialized(c, at) == [k |-> "uninitialized", c |-> c, at |-> at]
UninitializedThis(c) == [k |-> "uninitializedThis", c |-> c]
Alternatives(S) == [k |-> "alternatives", among |-> S]

Int32 == Integral({"int"})
Boolean == Integral({"boolean"})
AnyIntegral == Integral({"boolean", "byte", "char", "short", "int"})

IsIntegral(t) == t.k = "integral"
IsReference(t) == t.k \in {"exact", "array", "null", "unknown"}
IsCategoryTwo(t) == t.k \in {"long", "double"}

(* The references of the instance, each once, java/lang/Object among them. *)
ASSUME ReferenceOrderAssumption ==
    /\ ReferenceOrder \in Seq(Range(ReferenceOrder))
    /\ \A r \in Range(ReferenceOrder) :
          \/ r.k = "exact" /\ r = Exact(r.c)
          \/ r.k = "array" /\ r = ArrayRef(r.d)
    /\ \A i, j \in DOMAIN ReferenceOrder :
          ReferenceOrder[i] = ReferenceOrder[j] => i = j
    /\ Exact(Object) \in Range(ReferenceOrder)

(* All types over those references.  Alternatives do not nest.             *)
KnownReferences == Range(ReferenceOrder)
KnownClasses == {r.c : r \in {s \in KnownReferences : s.k = "exact"}}

SingleTypes ==
    {Bottom, Float, Long, Double, Null, Unknown, ReturnAddress, Conflict}
    \cup KnownReferences
    \cup [k : {"integral"}, of : SUBSET {"boolean", "byte", "char", "short", "int"}]
    \cup [k : {"uninitialized"}, c : KnownClasses, at : Nat]
    \cup [k : {"uninitializedThis"}, c : KnownClasses]
AllTypes == SingleTypes \cup [k : {"alternatives"}, among : (SUBSET SingleTypes) \ {{}}]

(* Candidate types of an integer constant: those whose range contains it.  *)
IntegralForConstant(n) ==
    Integral({"int"}
        \cup (IF n \in {0, 1} THEN {"boolean"} ELSE {})
        \cup (IF n + 128 \in 0..255 THEN {"byte"} ELSE {})
        \cup (IF n + 32768 \in 0..65535 THEN {"short"} ELSE {})
        \cup (IF n \in 0..65535 THEN {"char"} ELSE {}))

-----------------------------------------------------------------------------
(* Descriptors: [d |-> "int"], [d |-> "class", c |-> C],                   *)
(* [d |-> "array", dims |-> n, of |-> element].                            *)

SmallIntegrals == {"boolean", "byte", "char", "short", "int"}

TypeOfDescriptor(d) ==
    CASE d.d \in SmallIntegrals -> Integral({d.d})
      [] d.d = "long" -> Long
      [] d.d = "float" -> Float
      [] d.d = "double" -> Double
      [] d.d = "class" -> Exact(d.c)
      [] d.d = "array" -> ArrayRef(d)

SlotWidth(d) == IF d.d \in {"long", "double"} THEN 2 ELSE 1

(* A summary value may stand for a member of the given descriptor.         *)
ReferenceMatches(d, t) ==
    t.k \in (IF d.d = "array" THEN {"array", "null"} ELSE {"exact", "array", "null"})

ValueMatchesDescriptor(d, t) ==
    CASE d.d \in SmallIntegrals -> IsIntegral(t)
      [] d.d \in {"long", "float", "double"} -> t.k = d.d
      [] OTHER -> \/ ReferenceMatches(d, t)
                  \/ /\ t.k = "alternatives"
                     /\ t.among # {}
                     /\ \A a \in t.among : ReferenceMatches(d, a)

-----------------------------------------------------------------------------
(* The caller's class hierarchy: a function from the class names it knows  *)
(* to their direct supertypes.  No hierarchy behaves as the empty one.     *)

NoHierarchy == [c \in {} |-> {}]
NoClass == ""
ASSUME NoClassAssumption == NoClass \notin KnownClasses

DirectSupertypes(h, c) == IF c # Object /\ c \in DOMAIN h THEN h[c] ELSE {}

(* Breadth-first distances from root to each of its ancestors, itself      *)
(* included; Object has no parents whatever the hierarchy says.            *)
AncestorDistances(h, root) ==
    LET depth == Cardinality(DOMAIN h) + 1
        reach[n \in 0..depth] ==
            IF n = 0 THEN {root}
            ELSE reach[n - 1] \cup UNION {DirectSupertypes(h, c) : c \in reach[n - 1]}
    IN  [c \in reach[depth] |-> CHOOSE n \in 0..depth :
            c \in reach[n] /\ \A m \in 0..(n - 1) : c \notin reach[m]]

NameRank(c) == CHOOSE i \in DOMAIN ReferenceOrder : ReferenceOrder[i] = Exact(c)

(* Mutation: the first shared ancestor by name, however far.               *)
FirstShared(l, r) ==
    LET shared == DOMAIN l \cap DOMAIN r
    IN  IF shared = {} THEN NoClass
        ELSE CHOOSE a \in shared : \A b \in shared : NameRank(a) <= NameRank(b)

(* Of two functions from ancestors to distances, the shared ancestor at    *)
(* the least furthest distance, then least total distance, then least name. *)
NearestShared(l, r) ==
    LET furthest(c) == IF l[c] < r[c] THEN r[c] ELSE l[c]
        total(c) == l[c] + r[c]
        nearer(a, b) == \/ furthest(a) < furthest(b)
                        \/ furthest(a) = furthest(b) /\ total(a) < total(b)
                        \/ /\ furthest(a) = furthest(b)
                           /\ total(a) = total(b)
                           /\ NameRank(a) <= NameRank(b)
        shared == DOMAIN l \cap DOMAIN r
    IN  IF shared = {} THEN NoClass
        ELSE CHOOSE a \in shared : \A b \in shared : nearer(a, b)

CommonSupertype(h, left, right) ==
    IF left = right THEN left
    ELSE IF Object \in {left, right} THEN Object
    ELSE NearestShared(AncestorDistances(h, left), AncestorDistances(h, right))

-----------------------------------------------------------------------------
(* Joins.                                                                  *)

ArraySupertypes == {Object, "java/lang/Cloneable", "java/io/Serializable"}

ExactOrNone(c) == IF c = NoClass THEN None ELSE Exact(c)

(* Mutation: an array is taken for an object of any class it meets.        *)
JoinArrayWithAny(a, b, h) ==
    IF a = b THEN a
    ELSE IF a.k = "exact" /\ b.k = "exact"
         THEN ExactOrNone(CommonSupertype(h, a.c, b.c))
    ELSE IF {a.k, b.k} = {"exact", "array"} THEN IF a.k = "exact" THEN a ELSE b
    ELSE None

(* ReferenceType::join of two references that are neither null nor         *)
(* unknown; None when no single reference describes both.                  *)
JoinReference(a, b, h) ==
    IF a = b THEN a
    ELSE IF a.k = "exact" /\ b.k = "exact"
         THEN ExactOrNone(CommonSupertype(h, a.c, b.c))
    ELSE IF {a.k, b.k} = {"exact", "array"}
         THEN LET class == IF a.k = "exact" THEN a ELSE b
              IN  IF class.c \in ArraySupertypes THEN class ELSE None
    ELSE None

(* One step of the fold below: Bottom before the first, None once a pair   *)
(* had no join.                                                            *)
FoldReference(acc, r, h) ==
    IF acc = None THEN None ELSE IF acc = Bottom THEN r ELSE JoinReference(acc, r, h)

(* Folded pairwise in name order, up to a pair that has no join.           *)
CommonReference(known, h) ==
    LET folded[n \in 0..Len(ReferenceOrder)] ==
            IF n = 0 THEN Bottom
            ELSE IF ReferenceOrder[n] \in known
                 THEN FoldReference(folded[n - 1], ReferenceOrder[n], h)
                 ELSE folded[n - 1]
    IN  folded[Len(ReferenceOrder)]

(* join_reference_alternatives: unknown absorbs, null is dropped beside    *)
(* anything else, and the rest is one reference or several alternatives.   *)
JoinReferences(refs, h) ==
    LET known == refs \ {Null}
        orAlternatives(common) == IF common = None THEN Alternatives(known) ELSE common
    IN  IF Unknown \in refs THEN Unknown
        ELSE IF known = {} THEN Null
        ELSE orAlternatives(CommonReference(known, h))

(* The reference candidates of a type; a type that is not one reference or *)
(* several has none and the test below rejects it first.                   *)
HasReferenceCandidates(t) ==
    \/ IsReference(t)
    \/ t.k = "alternatives" /\ \A a \in t.among : IsReference(a)

ReferenceCandidates(t) == IF t.k = "alternatives" THEN t.among ELSE {t}

(* join_with_hierarchy, the join of operand-stack values.                  *)
Join(a, b, h) ==
    IF HasReferenceCandidates(a) /\ HasReferenceCandidates(b)
    THEN JoinReferences(ReferenceCandidates(a) \cup ReferenceCandidates(b), h)
    ELSE IF IsIntegral(a) /\ IsIntegral(b) THEN Integral(a.of \cup b.of)
    ELSE IF a = Bottom THEN b
    ELSE IF b = Bottom THEN a
    ELSE IF a = b /\ a.k # "alternatives" THEN a
    ELSE Conflict

(* Mutation: a reused slot keeps its last type only.                       *)
JoinLocalLatest(a, b, h) == IF Join(a, b, h) = Conflict THEN b ELSE Join(a, b, h)

(* join_local_types: a slot whose values conflict keeps them as            *)
(* alternatives, because a local-variable slot may be reused.              *)
JoinLocal(a, b, h) ==
    LET members(t) == IF t.k = "alternatives" THEN t.among ELSE {t}
        kept(joined) == IF joined = Conflict THEN Alternatives(members(a) \cup members(b))
                                             ELSE joined
    IN  kept(Join(a, b, h))
=============================================================================
