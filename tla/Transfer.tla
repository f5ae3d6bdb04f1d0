------------------------------ MODULE Transfer ------------------------------
(***************************************************************************)
(* The effect of one bytecode instruction on a frame: solver/transfer/.    *)
(*                                                                         *)
(* A method is a record: owner, name, constructor, static, params, ret,    *)
(* maxLocals, maxStack, hints, code and handlers.  code is the sequence of *)
(* its instructions and the offset of an instruction is its index there,   *)
(* so the first offset is 1.  An instruction is a record with an op and    *)
(* the operands that op has; opcodes that one arm of transfer treats alike *)
(* (the numeric operators, the short forms of loads and stores) are        *)
(* represented by one or two of their names.                               *)
(***************************************************************************)
EXTENDS Resolution

FirstOffset == 1
Unresolved == [owner |-> NoClass, name |-> "", descriptor |-> None]
Void == [d |-> "void"]
ObjectDescriptor == [d |-> "class", c |-> Object]

MaxDimensions == 255

ArrayOf(d) == IF d.d = "array" THEN [d EXCEPT !.dims = @ + 1]
              ELSE [d |-> "array", dims |-> 1, of |-> d]

(* What newarray and anewarray push; None is an element that the operand   *)
(* does not name, and one dimension too many is not a type either.         *)
NewArrayType(element) ==
    IF element = None \/ (element.d = "array" /\ element.dims = MaxDimensions)
    THEN Unknown ELSE ArrayRef(ArrayOf(element))

-----------------------------------------------------------------------------
(* Constants, and the results that depend on the opcode alone.             *)

ConstantType(i) ==
    CASE i.op = "aconst_null" -> Null
      [] i.op = "iconst" -> IntegralForConstant(i.n)
      [] i.op = "lconst" -> Long
      [] i.op = "fconst" -> Float
      [] i.op = "dconst" -> Double
      [] i.op = "ldc" -> i.type          \* by constant kind; unresolved is Unknown

ConstantOps == {"aconst_null", "iconst", "lconst", "fconst", "dconst", "ldc"}
LoadOps == {"iload", "lload", "fload", "dload", "aload"}
StoreOps == {"istore", "lstore", "fstore", "dstore", "astore"}
ArrayStoreOps == {"iastore", "aastore"}
ConditionOps == {"ifeq", "ifne", "ifnull", "ifnonnull"}
CompareOps == {"if_icmp", "if_acmp"}
SwitchOps == {"tableswitch", "lookupswitch"}
ValueReturnOps == {"ireturn", "lreturn", "freturn", "dreturn", "areturn"}
InvokeOps == {"invokevirtual", "invokespecial", "invokestatic", "invokeinterface"}

BinaryOps == {"iadd", "idiv", "ladd", "ldiv", "fadd", "dadd", "lcmp"}
BinaryResult(op) ==
    CASE op \in {"iadd", "idiv", "lcmp"} -> Int32
      [] op \in {"ladd", "ldiv"} -> Long
      [] op = "fadd" -> Float
      [] op = "dadd" -> Double

ConvertOps == {"ineg", "l2i", "i2l", "i2f", "i2d", "i2b", "i2c", "i2s"}
ConvertResult(op) ==
    CASE op \in {"ineg", "l2i"} -> Int32
      [] op = "i2l" -> Long
      [] op = "i2f" -> Float
      [] op = "i2d" -> Double
      [] op = "i2b" -> Integral({"byte"})
      [] op = "i2c" -> Integral({"char"})
      [] op = "i2s" -> Integral({"short"})

-----------------------------------------------------------------------------
(* Array elements.                                                         *)

PrimitiveLoadOps == {"iaload", "baload", "caload", "saload", "laload", "faload", "daload"}

(* The element type of a one-dimensional array of a fitting primitive, or  *)
(* else every type the opcode can load.                                    *)
PrimitiveElement(op, array) ==
    LET fallback == CASE op = "iaload" -> {"int"}
                      [] op = "baload" -> {"boolean", "byte"}
                      [] op = "caload" -> {"char"}
                      [] op = "saload" -> {"short"}
        exact == array.k = "array" /\ array.d.dims = 1 /\ array.d.of.d \in fallback
    IN  CASE op = "laload" -> Long
          [] op = "faload" -> Float
          [] op = "daload" -> Double
          [] OTHER -> Integral(IF exact THEN {array.d.of.d} ELSE fallback)

ElementOfArray(t) ==
    IF t.k # "array" THEN Unknown
    ELSE IF t.d.dims = 1 THEN TypeOfDescriptor(t.d.of)
    ELSE ArrayRef([t.d EXCEPT !.dims = @ - 1])

(* An array known only as alternatives yields the join of the elements of  *)
(* each, in their order; a member that is no array counts as unknown.      *)
ReferenceElement(t) ==
    LET joined[n \in 0..Len(ReferenceOrder)] ==
            IF n = 0 THEN IF t.among \subseteq KnownReferences THEN Bottom ELSE Unknown
            ELSE IF ReferenceOrder[n] \in t.among
                 THEN Join(joined[n - 1], ElementOfArray(ReferenceOrder[n]), NoHierarchy)
            ELSE joined[n - 1]
    IN  IF t.k = "alternatives" THEN joined[Len(ReferenceOrder)] ELSE ElementOfArray(t)

-----------------------------------------------------------------------------
(* Members.                                                                *)

InvocationKind(op) ==
    CASE op = "invokevirtual" -> "virtual"
      [] op = "invokespecial" -> "special"
      [] op = "invokestatic" -> "static"
      [] op = "invokeinterface" -> "interface"

ArgumentCount(i) == Len(i.member.descriptor.params)
HasReceiver(i) == i.op # "invokestatic"
Receiver(i, frame) == IF HasReceiver(i) THEN Peek(frame, ArgumentCount(i) + 1) ELSE EmptySlot
Argument(i, frame, n) == Peek(frame, ArgumentCount(i) + 1 - n)

FieldType(i, env) ==
    LET d == i.member.descriptor
        value == IF i.op = "getstatic" THEN StaticFieldValue(env, i.member) ELSE None
    IN  IF i.member = Unresolved THEN Unknown
        ELSE IF value # None /\ ValueMatchesDescriptor(d, value) THEN value
        ELSE TypeOfDescriptor(d)

(* Mutation: a cast to the class is enough.                                *)
ReceiverHasExactType(method, i, receiver) == receiver.type = Exact(i.member.owner)

(* The receiver still is the object that a new of exactly the class the    *)
(* call names put on the stack.                                            *)
ReceiverIsExactAllocation(method, i, receiver) ==
    /\ receiver.type = Exact(i.member.owner)
    /\ receiver.origin.k = "allocation"
    /\ method.code[receiver.origin.at].op = "new"
    /\ method.code[receiver.origin.at].class = i.member.owner

SummaryMatches(ret, value) == ret # Void /\ ValueMatchesDescriptor(ret, value)

ResolveMethodSummary(i, env, exact) ==
    LET value == ReturnTypeForCall(env, i.member, InvocationKind(i.op), exact)
    IN  IF value # None /\ SummaryMatches(i.member.descriptor.ret, value) THEN value ELSE None

(* The argument that the callee returns unchanged, with the summary's type *)
(* when that says more than the parameter's own; None if there is none.    *)
ResolveReturnedParameter(i, env, exact, summary, frame) ==
    LET d == i.member.descriptor
        index == ReturnedParameterForCall(env, i.member, InvocationKind(i.op), exact)
        argument == Argument(i, frame, index)
        sharper == summary # None /\ summary # TypeOfDescriptor(d.params[index])
                                  /\ argument.type # Null
        value == IF sharper THEN [argument EXCEPT !.type = summary] ELSE argument
    IN  IF index \in DOMAIN d.params /\ SummaryMatches(d.ret, value.type)
        THEN <<value>> ELSE <<>>

(* What the call leaves on the stack: nothing for void, else the returned  *)
(* argument, else the summary, else the declared type.                     *)
CallResult(method, i, frame, env) ==
    LET d == i.member.descriptor
        exact == ReceiverIsExactAllocation(method, i, Receiver(i, frame))
        summary == ResolveMethodSummary(i, env, exact)
        argument == ResolveReturnedParameter(i, env, exact, summary, frame)
    IN  IF d.ret = Void THEN <<>>
        ELSE IF argument # <<>> THEN argument
        ELSE <<Plain(IF summary # None THEN summary ELSE TypeOfDescriptor(d.ret))>>

(* array.clone() returns the array's own type.                             *)
ArrayCallResult(i) ==
    LET d == i.member.descriptor
        clone == i.op = "invokevirtual" /\ i.member.name = "clone"
                 /\ d.params = <<>> /\ d.ret = ObjectDescriptor
    IN  IF d.ret = Void THEN <<>>
        ELSE <<Plain(IF clone THEN ArrayRef(i.member.array) ELSE TypeOfDescriptor(d.ret))>>

(* A completed <init> call initializes the object it was called on.        *)
AfterConstructor(i, frame, receiver) ==
    IF i.member.name # "<init>" \/ ~HasReceiver(i) THEN frame
    ELSE IF receiver.type.k = "uninitialized"
         THEN ReplaceUninitialized(frame, receiver.type.at, i.member.owner)
    ELSE IF receiver.type.k = "uninitializedThis"
         THEN ReplaceUninitializedThis(frame, receiver.type.c)
    ELSE frame

-----------------------------------------------------------------------------
(* Stack shuffles: what they take off, and what they put back, bottom      *)
(* first, with v[n] the n-th value from the top.                           *)

ShuffleOps == {"dup", "dup_x1", "dup_x2", "dup2", "dup2_x1", "dup2_x2", "swap"}

Shuffle(op, frame) ==
    LET v == [n \in 1..4 |-> Peek(frame, n)]
        wide(n) == IsCategoryTwo(v[n].type)
        take(n, order) == [pops |-> n, pushes |-> [k \in DOMAIN order |-> v[order[k]]]]
    IN  CASE op = "dup" -> take(1, <<1, 1>>)
          [] op = "swap" -> take(2, <<1, 2>>)
          [] op = "dup_x1" -> take(2, <<1, 2, 1>>)
          [] op = "dup_x2" -> IF wide(2) THEN take(2, <<1, 2, 1>>) ELSE take(3, <<1, 3, 2, 1>>)
          [] op = "dup2" -> IF wide(1) THEN take(1, <<1, 1>>) ELSE take(2, <<2, 1, 2, 1>>)
          [] op = "dup2_x1" -> IF wide(1) THEN take(2, <<1, 2, 1>>)
                                          ELSE take(3, <<2, 1, 3, 2, 1>>)
          [] op = "dup2_x2" ->
                IF wide(1) /\ wide(2) THEN take(2, <<1, 2, 1>>)
                ELSE IF wide(1) THEN take(3, <<1, 3, 2, 1>>)
                ELSE IF wide(3) THEN take(3, <<2, 1, 3, 2, 1>>)
                ELSE take(4, <<2, 1, 4, 3, 2, 1>>)

(* The values an instruction takes off the stack and the slots it pushes,  *)
(* for every instruction that does no more than that.                      *)
StackEffect(method, at, frame, env) ==
    LET i == method.code[at]
        effect(n, slots) == [pops |-> n, pushes |-> slots]
        yields(n, type) == effect(n, <<Plain(type)>>)
        top == Peek(frame, 1)
    IN  CASE i.op \in ConstantOps -> yields(0, ConstantType(i))
          [] i.op \in ShuffleOps -> Shuffle(i.op, frame)
          [] i.op = "pop2" -> effect(IF IsCategoryTwo(top.type) THEN 1 ELSE 2, <<>>)
          [] i.op \in BinaryOps -> yields(2, BinaryResult(i.op))
          [] i.op \in ConvertOps -> yields(1, ConvertResult(i.op))
          [] i.op \in {"lneg", "fneg", "dneg"} -> yields(1, top.type)
          [] i.op \in PrimitiveLoadOps -> yields(2, PrimitiveElement(i.op, Peek(frame, 2).type))
          [] i.op = "aaload" -> yields(2, ReferenceElement(Peek(frame, 2).type))
          [] i.op \in ArrayStoreOps -> effect(3, <<>>)
          [] i.op \in ConditionOps \cup SwitchOps \cup ValueReturnOps
                     \cup {"pop", "athrow", "monitor"} -> effect(1, <<>>)
          [] i.op \in CompareOps -> effect(2, <<>>)
          [] i.op \in {"getstatic", "getfield"} ->
                yields(IF i.op = "getfield" THEN 1 ELSE 0, FieldType(i, env))
          [] i.op \in {"putstatic", "putfield"} -> effect(IF i.op = "putfield" THEN 2 ELSE 1, <<>>)
          [] i.op = "invokedynamic" ->
                effect(Len(i.params),
                       IF i.ret = Void THEN <<>> ELSE <<Plain(TypeOfDescriptor(i.ret))>>)
          [] i.op = "new" -> effect(0, <<Slot(Uninitialized(i.class, at), AllocationOrigin(at))>>)
          [] i.op = "newarray" -> yields(1, NewArrayType(i.element))
          [] i.op = "multianewarray" -> yields(i.dims, ArrayRef(i.array))
          [] i.op = "arraylength" -> yields(1, Int32)
          [] i.op = "checkcast" ->
                effect(1, <<[top EXCEPT !.type = IF @ = Null THEN Null ELSE i.type]>>)
          [] i.op = "instanceof" ->
                effect(1, <<[Plain(Boolean) EXCEPT !.fact =
                    IF top.origin = None \/ i.type = Unknown THEN None
                    ELSE [origin |-> top.origin, reference |-> i.type]]>>)
          [] i.op = "jsr" ->
                effect(0, <<[Plain(ReturnAddress) EXCEPT !.targets =
                    IF at < Len(method.code) THEN Targets({at + 1}) ELSE UnknownTargets]>>)
          [] i.op \in InvokeOps ->
                LET pops == ArgumentCount(i) + (IF HasReceiver(i) THEN 1 ELSE 0)
                IN  effect(pops, IF i.member.owner = NoClass THEN ArrayCallResult(i)
                                 ELSE CallResult(method, i, frame, env))
          [] OTHER -> effect(0, <<>>)

Applied(i, frame, effect) ==
    LET popped == Drop(frame, effect.pops)
    IN  PushAll(IF i.op \in InvokeOps THEN AfterConstructor(i, popped, Receiver(i, frame))
                                      ELSE popped,
                effect.pushes)

(* The operand names no method, so how much the call takes is unknown.     *)
NamesNoMethod(i) == \/ i.op \in InvokeOps /\ i.member = Unresolved
                    \/ i.op = "invokedynamic" /\ i.ret = None

(* transfer: the frame after the instruction at offset at.                 *)
Transfer(method, at, frame, env) ==
    LET i == method.code[at]
    IN  CASE i.op \in LoadOps -> PushLocal(frame, i.local, method.hints, at)
          [] i.op \in StoreOps -> StoreLocal(Drop(frame, 1), i.local, Peek(frame, 1), at)
          [] i.op = "iinc" ->
                SetLocal(frame, i.local, Slot(Int32, StoreOrigin(i.local, FirstOffset)))
          [] NamesNoMethod(i) -> [frame EXCEPT !.stack = <<>>]
          [] OTHER -> Applied(i, frame, StackEffect(method, at, frame, env))

(* The diagnostics transfer reports for the instruction.                   *)
TransferDiagnostics(method, at, frame, env) ==
    LET i == method.code[at]
        unsupported == \/ i.op = "unsupported"
                       \/ NamesNoMethod(i)
                       \/ i.op \in {"getstatic", "getfield"} /\ i.member = Unresolved
        pops == IF i.op \in StoreOps THEN 1
                ELSE IF NamesNoMethod(i) THEN 0
                ELSE StackEffect(method, at, frame, env).pops
    IN  (IF unsupported THEN {"UnsupportedInstruction"} ELSE {})
        \cup (IF pops > Len(frame.stack) THEN {"StackUnderflow"} ELSE {})
=============================================================================
