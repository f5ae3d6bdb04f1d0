---------------------------- MODULE JvmExecution ----------------------------
(***************************************************************************)
(* What the Java virtual machine does with the instructions the analysis   *)
(* interprets, and which runtime values an inferred type describes.  This  *)
(* is the machine the analyzed program runs on, not code of this           *)
(* repository; it says what the results of the analysis are about.         *)
(*                                                                         *)
(* A machine state is a record: pc, locals (from slot 0 up), stack, status *)
(* and result.  Integer arithmetic is any of a few integers.  A machine    *)
(* whose instruction does not fit its operands is stuck: a verifier would  *)
(* have rejected its method, and nothing is said about it.                 *)
(***************************************************************************)
EXTENDS MethodAnalysis, JvmValues

CONSTANTS
    Supertypes,     \* class -> all its supertypes, itself included
    Instantiable,   \* the classes that have objects of exactly their type
    Ints,           \* the integers the machine computes with
    Arrays,         \* the array types that have objects
    Identities(_)   \* what tells apart the objects that come from one place

HasKind(op, value) ==
    CASE op \in {"iload", "istore", "ireturn"} -> value.v = "int"
      [] op \in {"lload", "lstore", "lreturn"} -> value.v = "long"
      [] op = "aload" -> Ready(value) \/ value.v \in {"raw", "rawThis"}
      [] op = "astore" -> Ready(value) \/ value.v \in {"raw", "rawThis", "address"}
      [] op = "areturn" -> Ready(value)
      [] OTHER -> FALSE

(* Instances and values in the class world of the analyzed program.        *)
InstanceOf(type, value) == InstanceIn(Supertypes, type, value)
Describes(type, value) == DescribesIn(Supertypes, type, value)

ObjectsOf(classes, place) == {Obj(c, tag) : c \in classes, tag \in Identities(place)}
ArraysOf(descriptors, place) == {ArrayObj(d, tag) : d \in descriptors, tag \in Identities(place)}
IntsOf(kind) == {IntValue(n) : n \in {x \in Ints : InRange(kind, x)}}

(* The values a variable of the declared type can hold.                    *)
ValuesOf(d, place) ==
    CASE d.d = "class" ->
             {NullRef} \cup ObjectsOf({c \in Instantiable : d.c \in Supertypes[c]}, place)
             \cup ArraysOf({a \in Arrays : d.c \in ArraySupertypes}, place)
      [] d.d = "array" ->
             {NullRef} \cup ArraysOf({a \in Arrays : IsSubtypeArray(Supertypes, a, d)}, place)
      [] d.d = "long" -> {LongValue}
      [] d.d \in SmallIntegrals -> IntsOf(d.d)
      [] OTHER -> {}

-----------------------------------------------------------------------------
(* Steps.                                                                  *)

Slots(method) == 0..(method.maxLocals - 1)

EntryValues(method, slot) ==
    LET parameter == ParameterAtSlot(method, slot)
        owner == [d |-> "class", c |-> method.owner]
    IN  IF slot = 0 /\ ~method.static
        THEN IF method.constructor THEN {RawThis(method.owner)} ELSE ValuesOf(owner, 0) \ {NullRef}
        ELSE IF parameter = NoParameter THEN {Unset}
        ELSE ValuesOf(method.params[parameter], slot)

EntryStates(method) ==
    LET all == UNION {EntryValues(method, slot) : slot \in Slots(method)}
        fit(locals) == \A slot \in Slots(method) : locals[slot] \in EntryValues(method, slot)
    IN  {[pc |-> FirstOffset, locals |-> locals, stack |-> <<>>,
          status |-> "running", result |-> Unset] :
            locals \in {l \in [Slots(method) -> all] : fit(l)}}

At(s, n) == IF n <= Len(s.stack) THEN s.stack[Len(s.stack) - n + 1] ELSE Unset
Pops(s, n) == SubSeq(s.stack, 1, Len(s.stack) - n)

Stuck(s) == [s EXCEPT !.status = "stuck"]
Jump(s, pc, stack) == [s EXCEPT !.pc = pc, !.stack = stack]
Continue(s, pops, pushes) == Jump(s, s.pc + 1, Pops(s, pops) \o pushes)
Yield(s, pops, values) == {Continue(s, pops, <<v>>) : v \in values}
Finish(s, value) == [s EXCEPT !.status = "returned", !.result = value]

(* A thrown object goes to the first handler that covers it.               *)
Throw(method, s, thrown) ==
    LET catches(h) == /\ h.from <= s.pc /\ s.pc < h.to
                      /\ h.catchType = NoCatchType \/ h.catchType \in Supertypes[thrown.class]
        live == {n \in DOMAIN method.handlers : catches(method.handlers[n])}
        first == CHOOSE n \in live : \A m \in live : n <= m
    IN  IF live = {} THEN [s EXCEPT !.status = "threw"]
        ELSE Jump(s, method.handlers[first].at, <<thrown>>)

ThrowableClasses == {c \in Instantiable : Throwable \in Supertypes[c]}
ThrowAny(method, s) == {Throw(method, s, v) : v \in ObjectsOf(ThrowableClasses, s.pc)}

-----------------------------------------------------------------------------
(* Calls.                                                                  *)

CallArguments(s, i) ==
    [n \in DOMAIN i.member.descriptor.params |-> At(s, ArgumentCount(i) + 1 - n)]
CallReceiver(s, i) == IF HasReceiver(i) THEN At(s, ArgumentCount(i) + 1) ELSE Unset
CallPops(i) == ArgumentCount(i) + (IF HasReceiver(i) THEN 1 ELSE 0)

Fit(i, args) ==
    \A n \in DOMAIN i.member.descriptor.params :
        args[n] # Unset /\ Describes(TypeOfDescriptor(i.member.descriptor.params[n]), args[n])

(* What a method called returns: the argument its summary says, or a value *)
(* of the type its summary says, when the method run is the one named.     *)
Returns(i, env, args, receiver) ==
    LET named == \/ i.op \in {"invokestatic", "invokespecial"}
                 \/ receiver.v = "object" /\ receiver.class = i.member.owner
        index == IF named THEN LookupIndex(env.parameters, i.member) ELSE NoParameter
        summary == IF named THEN Lookup(env.returns, i.member) ELSE None
        ret == i.member.descriptor.ret
    IN  IF index \in DOMAIN args
        THEN {v \in {args[index]} : v # Unset /\ Describes(TypeOfDescriptor(ret), v)}
        ELSE {v \in ValuesOf(ret, 0) : summary # None => Describes(summary, v)}

(* What a static field holds: a value of the type its summary says.        *)
Reads(i, env) ==
    LET summary == Lookup(env.fields, i.member)
    IN  {v \in ValuesOf(i.member.descriptor, 0) : summary # None => Describes(summary, v)}

(* Every copy of the object is initialized when its constructor completes: *)
(* of its own class or, of this, any that has it.                          *)
Constructible(i, raw) ==
    raw.v = "rawThis" \/ (raw.v = "raw" /\ raw.class = i.member.owner)
Construct(s, raw, object) ==
    LET ready(v) == IF v = raw THEN object ELSE v
    IN  [s EXCEPT !.locals = [n \in DOMAIN @ |-> ready(@[n])],
                  !.stack = [n \in DOMAIN @ |-> ready(@[n])]]

(* Of an array only clone returns what its type does not say.              *)
CallArray(s, i, receiver) ==
    IF i.op = "invokevirtual" /\ i.member.name = "clone"
       /\ i.member.descriptor.params = <<>> /\ i.member.descriptor.ret = ObjectDescriptor
    THEN Yield(s, CallPops(i), ArraysOf({receiver.d}, s.pc))
    ELSE Yield(s, CallPops(i), ValuesOf(i.member.descriptor.ret, 0))

Call(s, i, env) ==
    LET args == CallArguments(s, i)
        receiver == CallReceiver(s, i)
        onArray == i.member.owner = NoClass
        type == IF onArray THEN ArrayRef(i.member.array) ELSE Exact(i.member.owner)
    IN  IF CallPops(i) > Len(s.stack) \/ ~Fit(i, args) THEN {Stuck(s)}
        ELSE IF i.member.name = "<init>"
             THEN IF Constructible(i, receiver)
                  THEN {Continue(Construct(s, receiver, object), CallPops(i), <<>>) :
                           object \in ObjectsOf({receiver.class}, s.pc)}
                  ELSE {Stuck(s)}
        ELSE IF HasReceiver(i) /\ receiver = NullRef THEN {}      \* throws alone
        ELSE IF HasReceiver(i) /\ ~InstanceOf(type, receiver) THEN {Stuck(s)}
        ELSE IF i.member.descriptor.ret = Void THEN {Continue(s, CallPops(i), <<>>)}
        ELSE IF onArray THEN CallArray(s, i, receiver)
        ELSE Yield(s, CallPops(i), Returns(i, env, args, receiver))

-----------------------------------------------------------------------------
Condition(op, value) ==
    CASE op = "ifeq" -> value = IntValue(0)
      [] op = "ifne" -> value # IntValue(0)
      [] op = "ifnull" -> value = NullRef
      [] op = "ifnonnull" -> value # NullRef

Branch(s, i, value) ==
    Jump(s, IF Condition(i.op, value) THEN i.target ELSE s.pc + 1, Pops(s, 1))

(* A new object: no other from the same place is still uninitialized.      *)
Allocate(s, class) ==
    LET raw == RawObject(class, s.pc)
    IN  IF raw \in Range(s.stack) THEN Stuck(s)
        ELSE Continue([s EXCEPT !.locals = [n \in DOMAIN @ |->
                                    IF @[n] = raw THEN Unset ELSE @[n]]], 0, <<raw>>)

StoreTo(s, local, value) ==
    [s EXCEPT !.locals = [n \in DOMAIN @ |->
        IF n = local THEN value
        ELSE IF n = local + 1 /\ value = LongValue THEN Unset
        ELSE IF n = local - 1 /\ @[n] = LongValue THEN Unset
        ELSE @[n]]]

ElementDescriptor(d) == IF d.dims = 1 THEN d.of ELSE [d EXCEPT !.dims = @ - 1]

(* The successors of a running machine that do not throw.                  *)
Normal(method, s, env) ==
    LET i == method.code[s.pc]
        a == At(s, 1)
        b == At(s, 2)
        when(ok, next) == IF ok THEN next ELSE {Stuck(s)}
        int(v) == v.v = "int"
        shuffle(op) ==
            CASE op = "dup" -> when(a # Unset, {Continue(s, 1, <<a, a>>)})
              [] op = "swap" -> when(b # Unset, {Continue(s, 2, <<a, b>>)})
              [] op = "dup_x1" -> when(b # Unset, {Continue(s, 2, <<a, b, a>>)})
              [] OTHER -> {Stuck(s)}
    IN  CASE i.op = "aconst_null" -> Yield(s, 0, {NullRef})
          [] i.op = "iconst" -> Yield(s, 0, {IntValue(i.n)})
          [] i.op = "lconst" -> Yield(s, 0, {LongValue})
          [] i.op \in LoadOps ->
                when(HasKind(i.op, s.locals[i.local]), Yield(s, 0, {s.locals[i.local]}))
          [] i.op \in StoreOps ->
                when(HasKind(i.op, a), {Continue(StoreTo(s, i.local, a), 1, <<>>)})
          [] i.op = "iinc" ->
                when(int(s.locals[i.local]),
                     {Continue(StoreTo(s, i.local, v), 0, <<>>) : v \in IntsOf("int")})
          [] i.op = "iadd" -> when(int(a) /\ int(b), Yield(s, 2, IntsOf("int")))
          [] i.op = "i2b" -> when(int(a), Yield(s, 1, IntsOf("byte")))
          [] i.op \in ShuffleOps -> shuffle(i.op)
          [] i.op = "pop" -> when(a # Unset, {Continue(s, 1, <<>>)})
          [] i.op = "instanceof" ->
                when(Ready(a), Yield(s, 1, {IntValue(IF InstanceOf(i.type, a) THEN 1 ELSE 0)}))
          [] i.op = "checkcast" ->
                when(Ready(a), Yield(s, 1, {v \in {a} : v = NullRef \/ InstanceOf(i.type, v)}))
          [] i.op \in {"ifeq", "ifne"} -> when(int(a), {Branch(s, i, a)})
          [] i.op \in {"ifnull", "ifnonnull"} -> when(Ready(a), {Branch(s, i, a)})
          [] i.op = "goto" -> {Jump(s, i.target, s.stack)}
          [] i.op \in SwitchOps -> when(int(a), {Jump(s, t, Pops(s, 1)) : t \in Range(i.targets)})
          [] i.op = "jsr" -> {Jump(s, i.target, Append(s.stack, Address(s.pc + 1)))}
          [] i.op = "ret" -> when(s.locals[i.local].v = "address",
                                  {Jump(s, s.locals[i.local].at, s.stack)})
          [] i.op \in ValueReturnOps -> when(HasKind(i.op, a), {Finish(s, a)})
          [] i.op = "return" -> {Finish(s, Unset)}
          [] i.op = "new" -> {Allocate(s, i.class)}
          [] i.op \in InvokeOps -> Call(s, i, env)
          [] i.op = "newarray" ->
                when(int(a), Yield(s, 1, ArraysOf({ArrayOf(i.element)}, s.pc)))
          [] i.op = "aaload" ->
                IF int(a) /\ b = NullRef THEN {}      \* throws alone
                ELSE when(int(a) /\ b.v = "array" /\ ElementDescriptor(b.d).d \in {"class", "array"},
                          Yield(s, 2, ValuesOf(ElementDescriptor(b.d), 0)))
          [] i.op = "getstatic" -> Yield(s, 0, Reads(i, env))
          [] i.op = "putstatic" -> when(a # Unset, {Continue(s, 1, <<>>)})
          [] OTHER -> {Stuck(s)}

(* All of them: an instruction that may throw may also throw anything, and *)
(* athrow throws the object it is given.                                   *)
Steps(method, s, env) ==
    LET i == method.code[s.pc]
        thrown == At(s, 1)
    IN  IF i.op = "athrow"
        THEN IF thrown.v = "object" /\ thrown.class \in ThrowableClasses
             THEN {Throw(method, s, thrown)}
             ELSE IF thrown = NullRef THEN ThrowAny(method, s) ELSE {Stuck(s)}
        ELSE Normal(method, s, env) \cup (IF MayThrow(i.op) THEN ThrowAny(method, s) ELSE {})
=============================================================================
