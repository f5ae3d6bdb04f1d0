------------------------------ MODULE JvmValues ------------------------------
(***************************************************************************)
(* The runtime values of the Java virtual machine and which of them an     *)
(* inferred type, or a slot of a frame, describes.  Like JvmExecution this *)
(* is not code of the repository: it says what its types are about.        *)
(*                                                                         *)
(* supertypes is the class world the values live in: a function from each  *)
(* class to all its supertypes, itself included.                           *)
(***************************************************************************)
EXTENDS Frames

CONSTANT Values         \* the values considered where types are compared

(* Values.  tag tells apart objects of one class that are not the same.    *)
Unset == [v |-> "unset"]
NullRef == [v |-> "null"]
IntValue(n) == [v |-> "int", n |-> n]
LongValue == [v |-> "long"]
Obj(class, tag) == [v |-> "object", class |-> class, tag |-> tag]
ArrayObj(d, tag) == [v |-> "array", d |-> d, tag |-> tag]
RawObject(class, at) == [v |-> "raw", class |-> class, at |-> at]
RawThis(class) == [v |-> "rawThis", class |-> class]
Address(at) == [v |-> "address", at |-> at]

Ready(value) == value.v \in {"null", "object", "array"}

(* Elements may be of a subtype, or be arrays themselves.                  *)
IsSubtypeArray(supertypes, d, of) ==
    \/ /\ d.dims = of.dims
       /\ d.of = of.of \/ (d.of.d = "class" /\ of.of.d = "class" /\ of.of.c \in supertypes[d.of.c])
    \/ d.dims > of.dims /\ of.of.d = "class" /\ of.of.c \in ArraySupertypes

(* The value is an instance of the class or array type.                    *)
InstanceIn(supertypes, type, value) ==
    CASE value.v = "object" -> type.k = "exact" /\ type.c \in supertypes[value.class]
      [] value.v = "array" -> \/ type.k = "exact" /\ type.c \in ArraySupertypes
                              \/ type.k = "array" /\ IsSubtypeArray(supertypes, value.d, type.d)
      [] OTHER -> FALSE

InRange(kind, n) ==
    CASE kind = "boolean" -> n \in {0, 1}
      [] kind = "byte" -> n + 128 \in 0..255
      [] kind = "short" -> n + 32768 \in 0..65535
      [] kind = "char" -> n \in 0..65535
      [] kind = "int" -> TRUE

(* The value is one of those that a type without alternatives stands for.  *)
DescribesOne(supertypes, type, value) ==
    \/ value = Unset                     \* no valid method reads it
    \/ type = Conflict
    \/ type = Unknown /\ Ready(value)
    \/ IsReference(type) /\ value = NullRef
    \/ type.k \in {"exact", "array"} /\ InstanceIn(supertypes, type, value)
    \/ IsIntegral(type) /\ value.v = "int" /\ \E kind \in type.of : InRange(kind, value.n)
    \/ type = Long /\ value = LongValue
    \/ type = ReturnAddress /\ value.v = "address"
    \/ type.k = "uninitialized" /\ value = RawObject(type.c, type.at)
    \/ type.k = "uninitializedThis" /\ value = RawThis(type.c)

(* The constructor of the object that the type is of has completed.        *)
InitializedSince(type, value) ==
    /\ type.k \in {"uninitialized", "uninitializedThis"}
    /\ value.v = "object" /\ value.class = type.c

(* Alternatives stand for what any of them does; they do not nest, and a   *)
(* constructor call does not look into them.                               *)
DescribesIn(supertypes, type, value) ==
    \/ DescribesOne(supertypes, type, value)
    \/ /\ type.k = "alternatives"
       /\ \E t \in type.among : DescribesOne(supertypes, t, value) \/ InitializedSince(t, value)

(* A slot also says where a subroutine address may return to.              *)
SlotDescribes(supertypes, slot, value) ==
    /\ DescribesIn(supertypes, slot.type, value)
    /\ value.v = "address" /\ slot.targets.known => value.at \in slot.targets.at
-----------------------------------------------------------------------------
(* What a caller supplies as the hierarchy is right in a class world: each *)
(* parent it names is a supertype there, and a class of the instance.  The *)
(* supertypes of the interfaces that arrays have are again such.           *)
RightIn(h, supertypes) ==
    /\ IsFiniteSet(DOMAIN h)
    /\ \A c \in KnownClasses \cap DOMAIN h : h[c] \subseteq KnownClasses \cap supertypes[c]
    /\ KnownClasses \subseteq DOMAIN supertypes
    /\ \A c \in DOMAIN supertypes :
          /\ {c, Object} \subseteq supertypes[c]
          /\ supertypes[c] \subseteq DOMAIN supertypes
          /\ \A d \in supertypes[c] : supertypes[d] \subseteq supertypes[c]
    /\ \A c \in ArraySupertypes \cap DOMAIN supertypes : supertypes[c] \subseteq ArraySupertypes

-----------------------------------------------------------------------------
(* When a slot stands for all that another does: what a merge promises of  *)
(* both its sides, and what runs need of frames along an edge.             *)

(* Every value that fits the one slot fits the other.                      *)
Widens(supertypes, wide, slot) ==
    \A v \in Values : SlotDescribes(supertypes, slot, v) => SlotDescribes(supertypes, wide, v)

(* What is said of the identity of a value is said by the narrower slot.   *)
KeepsIdentity(wide, slot) ==
    wide.origin \in {None, slot.origin} /\ wide.fact \in {None, slot.fact}

CoversSlot(supertypes, wide, slot) ==
    Widens(supertypes, wide, slot) /\ KeepsIdentity(wide, slot)

(* The wide frame stands for all that the other stands for.  Stacks of     *)
(* unequal height are turned to conflicts, which say nothing but cover any *)
(* value; only at the same height is identity kept.                        *)
CoversFrame(supertypes, wide, f) ==
    /\ \A i \in DOMAIN f.locals :
          i \in DOMAIN wide.locals /\ CoversSlot(supertypes, wide.locals[i], f.locals[i])
    /\ \A i \in DOMAIN f.stack :
          /\ i \in DOMAIN wide.stack
          /\ Widens(supertypes, wide.stack[i], f.stack[i])
          /\ wide.stack[i].type # Conflict =>
                f.stack[i].type # Conflict /\ Len(wide.stack) = Len(f.stack)
          /\ Len(wide.stack) = Len(f.stack) => KeepsIdentity(wide.stack[i], f.stack[i])
=============================================================================
