------------------------------ MODULE MergePoint ------------------------------
(***************************************************************************)
(* One merge point of the control-flow graph: frames arrive in any order   *)
(* and as often as they like, and each is merged into the frame there      *)
(* (merge_frame of solver/engine/propagate.rs on Frame::merge_from).       *)
(***************************************************************************)
EXTENDS JvmValues

CONSTANTS
    Worlds,         \* [hierarchy, supertypes]: what the caller supplied, what is true
    Arrivals,       \* the frames that may arrive
    MaxArrivals     \* how many different ones do

ASSUME WorldAssumption ==
    \A w \in Worlds :
        /\ RightIn(w.hierarchy, w.supertypes)
        /\ \A v \in Values : v.v = "object" => v.class \in DOMAIN w.supertypes

ASSUME ArrivalsAssumption == Arrivals \subseteq AllFrames

VARIABLES
    world,
    arrived,        \* the frames so far
    frame           \* the merge of what arrived
vars == <<world, arrived, frame>>

Init ==
    /\ world \in Worlds
    /\ \E f \in Arrivals : arrived = {f} /\ frame = f

Arrive ==
    /\ \E f \in Arrivals :
          /\ arrived' = arrived \cup {f}
          /\ frame' = MergeFrame(frame, f, world.hierarchy)
    /\ Cardinality(arrived') <= MaxArrivals
    /\ UNCHANGED world

Next == Arrive
Spec == Init /\ [][Next]_vars

-----------------------------------------------------------------------------
(* Whatever arrived, in whatever order, is still described: no merge       *)
(* narrows, through alternatives, common supertypes and conflicts alike,   *)
(* forgets a return address or takes two values for one.                   *)
ArrivalsDescribed == \A f \in arrived : CoversFrame(world.supertypes, frame, f)

(* The hierarchy of a world is a tree, and leaves nothing out.             *)
Tree(w) ==
    /\ \A c \in KnownClasses \ {Object} :
          c \in DOMAIN w.hierarchy /\ \E d \in KnownClasses : w.hierarchy[c] = {d}
    /\ \A c \in KnownClasses \ {Object} :
          w.supertypes[c] = DOMAIN AncestorDistances(w.hierarchy, c)
    /\ w.supertypes[Object] = {Object}

(* Where all that arrived has a class at some height of the stack.         *)
ClassesAt(i) ==
    \A f \in arrived : Len(f.stack) = Len(frame.stack) /\ f.stack[i].type.k = "exact"
CommonAt(i) ==
    {s \in KnownClasses : \A f \in arrived : s \in world.supertypes[f.stack[i].type.c]}

(* In a tree of classes an operand is the least common superclass of all   *)
(* that arrived: neither the order nor the pairwise joins lose precision.  *)
TreeJoinIsLeast ==
    \A i \in DOMAIN frame.stack :
        ClassesAt(i) /\ Tree(world) =>
            LET merged == frame.stack[i].type
            IN  /\ merged.k = "exact"
                /\ merged.c \in CommonAt(i)
                /\ CommonAt(i) \subseteq world.supertypes[merged.c]
=============================================================================
