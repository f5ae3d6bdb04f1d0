---------------------------- MODULE MCMergePoint ----------------------------
(***************************************************************************)
(* One merge point: a frame of two locals and one operand, into which      *)
(* frames are merged in every order, under every acyclic hierarchy of      *)
(* three classes, and under none.  Most frames bring one type, in all      *)
(* three places: a local without an origin, a local that always has the    *)
(* same one, and the operand stack; others have another shape.             *)
(***************************************************************************)
EXTENDS MergePoint, TLC

Class(c) == [d |-> "class", c |-> c]
Classes == {"A", "B", "C"}
MCObject == "java/lang/Object"
ArrayOfA == [d |-> "array", dims |-> 1, of |-> Class("A")]
MCReferenceOrder ==
    <<Exact("A"), Exact("B"), Exact("C"), Exact("java/lang/Object"), ArrayRef(ArrayOfA)>>

Types == {Exact(c) : c \in Classes \cup {Object}}
         \cup {ArrayRef(ArrayOfA), Null, Unknown, Bottom, Boolean, Integral({"byte"}), Long,
               Uninitialized("A", 1)}
Arriving(t) == [locals |-> <<Plain(t), Slot(t, EntryOrigin(1))>>, stack |-> <<Plain(t)>>]

(* From a subroutine called at another place; with a test of a local on a  *)
(* higher stack; with a local and its operand stored elsewhere.            *)
Subroutine(at) ==
    LET address == [Slot(ReturnAddress, EntryOrigin(1)) EXCEPT !.targets = Targets({at})]
    IN  [locals |-> <<address, address>>, stack |-> <<address>>]
Tested ==
    [locals |-> <<>>,
     stack |-> <<Plain(Boolean), [Plain(Boolean) EXCEPT
                    !.fact = [origin |-> EntryOrigin(1), reference |-> Exact("A")]]>>]
Stored == [locals |-> <<Slot(Null, StoreOrigin(0, 1))>>, stack |-> <<Slot(Null, StoreOrigin(0, 1))>>]
MCArrivals == {Arriving(t) : t \in Types} \cup {Subroutine(1), Subroutine(2), Tested, Stored}

-----------------------------------------------------------------------------
Acyclic(h) ==
    \A c \in Classes : \A d \in h[c] \cap Classes : c \notin DOMAIN AncestorDistances(h, d)
Hierarchies == {h \in [Classes -> SUBSET (Classes \cup {Object})] : Acyclic(h)}

(* The world in which the hierarchy is right and leaves nothing out.       *)
SupertypesIn(h) ==
    [c \in Classes \cup {Object} |->
        {Object} \cup (IF c = Object THEN {} ELSE DOMAIN AncestorDistances(h, c))]
Chain == [c \in Classes |-> CASE c = "A" -> {"B"} [] c = "B" -> {"C"} [] c = "C" -> {Object}]
MCWorlds ==
    {[hierarchy |-> h, supertypes |-> SupertypesIn(h)] : h \in Hierarchies}
    \cup {[hierarchy |-> NoHierarchy, supertypes |-> SupertypesIn(Chain)]}
MCValues ==
    {NullRef, LongValue, RawObject("A", 1), ArrayObj(ArrayOfA, 0), Address(1), Address(2)}
    \cup {Obj(c, 0) : c \in Classes} \cup {IntValue(n) : n \in {0, 100, 200}}

-----------------------------------------------------------------------------
(* A merge point changes finitely often, whatever keeps arriving: under no *)
(* acyclic hierarchy do merges come back to a type they left.              *)
MergesSettle == <>[][FALSE]_frame
=============================================================================
