------------------------------- MODULE Frames -------------------------------
(***************************************************************************)
(* The abstract state of a method at one instruction: solver/frame.rs.     *)
(*                                                                         *)
(* Frame keeps its locals and its operand stack as parallel vectors; here  *)
(* a frame is two sequences of slots, one slot holding what the vectors    *)
(* hold at one index: the type, the return targets of a subroutine         *)
(* address, the origin of the value and the instanceof test it is the      *)
(* result of.  Local slot i of the code is locals[i + 1].                  *)
(***************************************************************************)
EXTENDS InferredTypes

(* Origins of values: an entry slot, an allocation, a store; or None.      *)
EntryOrigin(slot) == [k |-> "entry", slot |-> slot]
AllocationOrigin(at) == [k |-> "allocation", at |-> at]
StoreOrigin(slot, at) == [k |-> "store", slot |-> slot, at |-> at]

UnknownTargets == [known |-> FALSE, at |-> {}]
Targets(S) == [known |-> TRUE, at |-> S]

Slot(type, origin) ==
    [type |-> type, origin |-> origin, targets |-> UnknownTargets, fact |-> None]
Plain(type) == Slot(type, None)
EmptySlot == Plain(Bottom)

(* All slots and frames.  Targets outlive the type they came with where an *)
(* instruction retypes a value, but not a conflict.                        *)
Origins ==
    {None} \cup [k : {"entry"}, slot : Nat] \cup [k : {"allocation"}, at : Nat]
    \cup [k : {"store"}, slot : Nat, at : Nat]
SlotsWith(origins) ==
    {slot \in [type : AllTypes, origin : origins, targets : [known : BOOLEAN, at : SUBSET Nat],
               fact : {None} \cup [origin : origins, reference : AllTypes]] :
        slot.type = Conflict => slot.targets = UnknownTargets}
FramesWith(origins) ==
    [locals : Seq(SlotsWith(origins)), stack : Seq(SlotsWith(origins))]
AllSlots == SlotsWith(Origins)
AllFrames == FramesWith(Origins)

(* Vec::resize: drops what is beyond the length, fills what is missing.    *)
Resize(slots, n) ==
    [i \in 1..n |-> IF i <= Len(slots) THEN slots[i] ELSE EmptySlot]

-----------------------------------------------------------------------------
(* The first slot of each parameter, behind the receiver if there is one.  *)
ParameterSlots(method) ==
    LET slot[n \in 1..Len(method.params)] ==
            IF n = 1 THEN IF method.static THEN 0 ELSE 1
            ELSE slot[n - 1] + SlotWidth(method.params[n - 1])
    IN  slot

NoParameter == 0

(* The parameter whose first slot this is.                                 *)
ParameterAtSlot(method, slot) ==
    LET at == {n \in DOMAIN method.params : ParameterSlots(method)[n] = slot}
    IN  IF at = {} THEN NoParameter ELSE CHOOSE n \in at : TRUE

EntrySlot(method, slot) ==
    LET parameter == ParameterAtSlot(method, slot)
        receiver == IF method.constructor THEN UninitializedThis(method.owner)
                                          ELSE Exact(method.owner)
    IN  IF slot = 0 /\ ~method.static THEN Slot(receiver, EntryOrigin(0))
        ELSE IF parameter = NoParameter THEN EmptySlot
        ELSE Slot(TypeOfDescriptor(method.params[parameter]), EntryOrigin(slot))

(* Frame::entry: the receiver, then every parameter at its slot.  Each     *)
(* resize cuts the locals back to the slots assigned so far.               *)
EntryFrame(method) ==
    LET last == Len(method.params)
        length == IF last # 0 THEN ParameterSlots(method)[last] + SlotWidth(method.params[last])
                  ELSE IF method.static THEN method.maxLocals ELSE 1
    IN  [locals |-> [i \in 1..length |-> EntrySlot(method, i - 1)], stack |-> <<>>]

-----------------------------------------------------------------------------
(* Stack and local access.                                                 *)

Push(frame, slot) == [frame EXCEPT !.stack = Append(@, slot)]
PushAll(frame, slots) == [frame EXCEPT !.stack = @ \o slots]
PushType(frame, type) == Push(frame, Plain(type))

(* A pop of the empty stack is reported and yields Conflict.               *)
Top(frame) == IF frame.stack = <<>> THEN Plain(Conflict) ELSE Last(frame.stack)
Drop(frame, n) ==
    [frame EXCEPT !.stack = SubSeq(@, 1, IF Len(@) > n THEN Len(@) - n ELSE 0)]
(* The slot n - 1 below the top: what the n-th successive pop returns.     *)
Peek(frame, n) == Top(Drop(frame, n - 1))

LocalSlot(frame, local) ==
    IF local + 1 \in DOMAIN frame.locals THEN frame.locals[local + 1] ELSE EmptySlot

(* set_local_value: a wide value clears the slot above its own; an         *)
(* instanceof result is not remembered in a local.                         *)
SetLocal(frame, local, slot) ==
    LET wide == IsCategoryTwo(slot.type)
        needed == local + (IF wide THEN 2 ELSE 1)
        length == IF Len(frame.locals) < needed THEN needed ELSE Len(frame.locals)
    IN  [frame EXCEPT !.locals = [i \in 1..length |->
            IF i = local + 1 THEN [slot EXCEPT !.fact = None]
            ELSE IF wide /\ i = local + 2 THEN EmptySlot
            ELSE Resize(frame.locals, length)[i]]]

(* store_local_value: a value without an origin gets the store's own.      *)
StoreLocal(frame, local, slot, at) ==
    SetLocal(frame, local,
        IF slot.origin = None THEN [slot EXCEPT !.origin = StoreOrigin(local, at)]
                              ELSE slot)

(* The local-variable-table hints that cover this slot here narrow an      *)
(* integral local when they agree.                                         *)
RefineIntegral(hints, local, at, type) ==
    LET live == {hint \in hints : hint.local = local /\ hint.from <= at /\ at < hint.to}
    IN  IF IsIntegral(type) /\ \E S \in {hint.types : hint \in live} :
                                   \A hint \in live : hint.types = S
        THEN Integral((CHOOSE hint \in live : TRUE).types)
        ELSE type

PushLocal(frame, local, hints, at) ==
    LET slot == LocalSlot(frame, local)
    IN  Push(frame, [slot EXCEPT !.type = RefineIntegral(hints, local, at, @)])

LocalTypesAt(frame, hints, at) ==
    [i \in DOMAIN frame.locals |-> RefineIntegral(hints, i - 1, at, frame.locals[i].type)]

-----------------------------------------------------------------------------
(* Whole-frame updates.                                                    *)

RetypeSlots(slots, Matches(_), type) ==
    [i \in DOMAIN slots |->
        IF Matches(slots[i].type) THEN [slots[i] EXCEPT !.type = type] ELSE slots[i]]

(* A completed constructor call initializes every copy of its receiver.    *)
Initialize(frame, Matches(_), class) ==
    [locals |-> RetypeSlots(frame.locals, Matches, Exact(class)),
     stack |-> RetypeSlots(frame.stack, Matches, Exact(class))]

ReplaceUninitialized(frame, at, class) ==
    Initialize(frame, LAMBDA t : t.k = "uninitialized" /\ t.at = at, class)

ReplaceUninitializedThis(frame, class) ==
    Initialize(frame, LAMBDA t : t.k = "uninitializedThis", class)

(* refine_origin: a passed instanceof test types every local that holds    *)
(* the tested value.                                                       *)
RefineOrigin(frame, fact) ==
    [frame EXCEPT !.locals = [i \in DOMAIN @ |->
        IF @[i].origin = fact.origin /\ IsReference(@[i].type)
        THEN [@[i] EXCEPT !.type = fact.reference, !.targets = UnknownTargets]
        ELSE @[i]]]

Throwable == "java/lang/Throwable"
NoCatchType == ""

(* A handler starts with the locals and the caught exception alone.        *)
ExceptionFrame(frame, catchType) ==
    [locals |-> frame.locals,
     stack |-> <<Plain(Exact(IF catchType = NoCatchType THEN Throwable ELSE catchType))>>]

-----------------------------------------------------------------------------
(* merge_from: the join of two frames at a control-flow merge.             *)

(* The possible returns of a merged subroutine address are known only if   *)
(* those of both sides that are addresses are.                             *)
MergedTargets(a, b, merged) ==
    LET addresses == {s \in {a, b} : s.type = ReturnAddress}
    IN  IF merged = ReturnAddress /\ \A s \in addresses : s.targets.known
        THEN Targets(UNION {s.targets.at : s \in addresses})
        ELSE UnknownTargets

(* Mutation: the merged value keeps the origin of one side.                *)
MergeSlotKeepingOrigin(a, b, merged) ==
    [type |-> merged, origin |-> a.origin, targets |-> MergedTargets(a, b, merged),
     fact |-> IF a.fact = b.fact THEN a.fact ELSE None]

MergeSlot(a, b, merged) ==
    [type |-> merged,
     origin |-> IF a.origin = b.origin THEN a.origin ELSE None,
     targets |-> MergedTargets(a, b, merged),
     fact |-> IF a.fact = b.fact THEN a.fact ELSE None]

(* A local is joined through the hierarchy only when both sides hold the   *)
(* same value; the existing frame's locals beyond the incoming ones stay.  *)
MergeLocals(a, b, h) ==
    LET length == IF Len(a) < Len(b) THEN Len(b) ELSE Len(a)
        old == Resize(a, length)
        merged(i) ==
            LET same == old[i].origin # None /\ old[i].origin = b[i].origin
            IN  JoinLocal(old[i].type, b[i].type, IF same THEN h ELSE NoHierarchy)
    IN  [i \in 1..length |->
            IF i <= Len(b) THEN MergeSlot(old[i], b[i], merged(i)) ELSE old[i]]

(* Stacks of different heights become all conflict, as deep as the deeper. *)
MergeStacks(a, b, h) ==
    IF Len(a) = Len(b)
    THEN [i \in DOMAIN a |-> MergeSlot(a[i], b[i], Join(a[i].type, b[i].type, h))]
    ELSE LET height == IF Len(a) < Len(b) THEN Len(b) ELSE Len(a)
             conflict == [i \in 1..height |-> Plain(Conflict)]
         IN  IF [i \in DOMAIN a |-> a[i].type] = [i \in 1..height |-> Conflict]
             THEN a ELSE conflict

MergeFrame(a, b, h) ==
    [locals |-> MergeLocals(a.locals, b.locals, h),
     stack |-> MergeStacks(a.stack, b.stack, h)]

HeightMismatch(a, b) == Len(a.stack) # Len(b.stack)
=============================================================================
