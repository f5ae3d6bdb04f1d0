------------------------------ MODULE MethodRuns ------------------------------
(***************************************************************************)
(* A method runs on the machine of JvmExecution, beside frames for its     *)
(* instructions that are closed: what goes along each edge of the          *)
(* control-flow graph is admitted where the edge leads, as it is when the  *)
(* loop of analyze_method ends complete and without a diagnostic.          *)
(***************************************************************************)
EXTENDS JvmExecution

CONSTANTS
    Methods,        \* the methods
    Hierarchy,      \* the classes as the caller of the analysis describes them
    Env(_),         \* what the analysis of a method is told of the members it uses
    Truth,          \* what is true of those members
    Linked          \* the members that are methods run together: see ProgramRuns

VARIABLES
    method,
    before,         \* the frame before each instruction the analysis reached
    machine, entry  \* the machine, and the state it started in

runVars == <<method, before, machine, entry>>

-----------------------------------------------------------------------------
(* What is taken of the world, of the methods and of what they use.        *)

Places(m) == 0..(Len(m.code) + m.maxLocals + 1)

(* The values that a run of the method may meet.                           *)
RunValues(m) ==
    {Unset, NullRef, LongValue} \cup (IF m.constructor THEN {RawThis(m.owner)} ELSE {})
    \cup {IntValue(n) : n \in Ints}
    \cup (UNION {ObjectsOf(Instantiable, place) \cup ArraysOf(Arrays, place) : place \in Places(m)})
    \cup {RawObject(c, at) : c \in Instantiable, at \in Places(m)}
    \cup {Address(at) : at \in Places(m)}

ArrayDescriptor(d) ==
    /\ d = [d |-> "array", dims |-> d.dims, of |-> d.of]
    /\ d.dims \in 1..MaxDimensions
    /\ d.of.d # "array"

ASSUME ClassesAssumption ==
    /\ \A m \in Methods : Env(m).hierarchy = Hierarchy
    /\ RightIn(Hierarchy, Supertypes)
    /\ Instantiable \subseteq DOMAIN Supertypes
    /\ {0, 1} \subseteq Ints
    /\ \A d \in Arrays : ArrayDescriptor(d) /\ (d.of.d = "class" => d.of.c \in DOMAIN Supertypes)
    /\ \A r \in KnownReferences : r.k = "array" =>
          ArrayDescriptor(r.d) /\ ElementOfArray(r) \in AllTypes
    /\ \A v \in Values : v.v = "object" => v.class \in DOMAIN Supertypes

(* What the operands of an instruction can be, beside what only the frames *)
(* tell.  No debug information narrows integers here.                      *)
Operands(m, i) ==
    /\ i.op \in LoadOps \cup StoreOps \cup {"iinc", "ret"} => i.local \in Slots(m)
    /\ i.op = "iconst" => i.n \in Ints
    /\ i.op = "new" => i.class \in Instantiable
    /\ i.op = "newarray" => i.element # None /\ ArrayOf(i.element) \in Arrays
    /\ i.op \in {"checkcast", "instanceof"} => i.type \in KnownReferences \cup {Unknown}
    /\ i.op \in ValueReturnOps => ReturnOpFits(i.op, m.ret)
    /\ i.op = "return" => m.ret = Void
    /\ i.op \in InvokeOps =>
          /\ i.member.descriptor.params \in Seq(Range(i.member.descriptor.params))
          /\ i.member.name = "<init>" => i.member.descriptor.ret = Void

ASSUME MethodsAssumption ==
    \A m \in Methods :
        /\ RunValues(m) \subseteq Values
        /\ m.code \in Seq(Range(m.code))
        /\ m.params \in Seq(Range(m.params))
        /\ m.handlers \in Seq(Range(m.handlers))
        /\ m.maxLocals \in Nat
        /\ m.hints = {}
        /\ m.constructor => ~m.static /\ m.owner \in Instantiable
        /\ \A at \in DOMAIN m.code : Operands(m, m.code[at])

Instructions(m, ops) == {i \in Range(m.code) : i.op \in ops}

(* What the analysis is told of a callee is true of all that it returns.   *)
ArgumentsOf(i) == {args \in [DOMAIN i.member.descriptor.params -> Values] : Fit(i, args)}
ReceiversOf(i, exact) ==
    IF ~HasReceiver(i) THEN {Unset}
    ELSE {v \in Values : /\ InstanceOf(Exact(i.member.owner), v)
                         /\ exact => v.v = "object" /\ v.class = i.member.owner}
ToldOfCall(m, i, exact, args, result) ==
    LET kind == InvocationKind(i.op)
        summary == ReturnTypeForCall(Env(m), i.member, kind, exact)
        index == ReturnedParameterForCall(Env(m), i.member, kind, exact)
    IN  /\ summary # None /\ SummaryMatches(i.member.descriptor.ret, summary)
               => Describes(summary, result)
        /\ index \in DOMAIN args => result = args[index]

ASSUME CalleesAreAsTold ==
    \A m \in Methods : \A i \in Instructions(m, InvokeOps) :
        /\ i.member \notin Linked
        /\ i.member.owner # NoClass /\ i.member.descriptor.ret # Void
        => \A exact \in BOOLEAN, args \in ArgumentsOf(i) :
              \A receiver \in ReceiversOf(i, exact) :
                  \A v \in Returns(i, Truth, args, receiver) : ToldOfCall(m, i, exact, args, v)

ASSUME FieldsAreAsTold ==
    \A m \in Methods : \A i \in Instructions(m, {"getstatic"}) : i.member # Unresolved =>
        \A v \in Reads(i, Truth) :
            LET value == StaticFieldValue(Env(m), i.member)
            IN  value # None /\ ValueMatchesDescriptor(i.member.descriptor, value)
                    => Describes(value, v)

-----------------------------------------------------------------------------
(* What the frames are closed under.                                       *)

(* The frame stands for all that the other does, height and all.           *)
Admits(wide, f) == ~HeightMismatch(wide, f) /\ CoversFrame(Supertypes, wide, f)

AdmitsAt(frames, at, f) == at \in DOMAIN frames /\ Admits(frames[at], f)

EdgesClosed(m, frames, at, after) ==
    \A e \in Range(OrdinarySuccessors(m, at)) :
        LET op == m.code[at].op
            operand == Top(frames[at])
        IN  EdgeIsFeasible(op, e.kind, operand)
                => AdmitsAt(frames, e.target, EdgeFrame(op, e.kind, operand, after))

HandlersClosed(m, frames, at) ==
    \A h \in Range(m.handlers) :
        MayThrow(m.code[at].op) /\ h.from <= at /\ at < h.to
            => AdmitsAt(frames, h.at, ExceptionFrame(frames[at], h.catchType))

ReturnsClosed(m, frames, at, after) ==
    m.code[at].op = "ret" =>
        LET targets == LocalSlot(frames[at], m.code[at].local).targets
        IN  targets.known /\ \A t \in targets.at : AdmitsAt(frames, t, after)

(* An origin that an instruction gives is not there before: the frame at   *)
(* the head of a loop was first merged when no turn had been taken yet.    *)
OriginsOf(slot) == {slot.origin} \cup (IF slot.fact = None THEN {} ELSE {slot.fact.origin})
OriginGiven(m, at) ==
    IF m.code[at].op = "new" THEN {AllocationOrigin(at)}
    ELSE IF m.code[at].op \in StoreOps THEN {StoreOrigin(m.code[at].local, at)}
    ELSE {}
OriginsAreNew(m, frame, at) ==
    \A origin \in OriginGiven(m, at) :
        /\ \A n \in Slots(m) : origin \notin OriginsOf(LocalSlot(frame, n))
        /\ \A n \in DOMAIN frame.stack : origin \notin OriginsOf(frame.stack[n])

Closed(env, m, frames) ==
    /\ frames \in [DOMAIN frames -> AllFrames]
    /\ DOMAIN frames \subseteq DOMAIN m.code
    /\ AdmitsAt(frames, FirstOffset, EntryFrame(m))
    /\ \A at \in DOMAIN frames :
          LET after == Transfer(m, at, frames[at], env)
          IN  /\ TransferDiagnostics(m, at, frames[at], env) = {}
              /\ EdgesClosed(m, frames, at, after)
              /\ HandlersClosed(m, frames, at)
              /\ ReturnsClosed(m, frames, at, after)
              /\ OriginsAreNew(m, frames[at], at)

(* What a verifier finds in the same frames: no instruction falls off the  *)
(* end, constructors are called on what is not initialized, and returns    *)
(* have a value of their kind.                                             *)
VerifiedAt(m, frame, at) ==
    LET i == m.code[at]
    IN  /\ i.op \in ValueReturnOps => ReturnValueFits(i.op, Top(frame).type)
        /\ i.op \in InvokeOps /\ i.member.name = "<init>" /\ HasReceiver(i) =>
              Receiver(i, frame).type.k \in {"uninitialized", "uninitializedThis"}
        /\ ~TerminatesExecution(i.op) /\ i.op \notin SwitchOps \cup {"goto", "jsr", "ret"} =>
              at < Len(m.code)

Verified(m, frames) == \A at \in DOMAIN frames : VerifiedAt(m, frames[at], at)

-----------------------------------------------------------------------------
RunInit ==
    /\ method \in Methods
    /\ Closed(Env(method), method, before)
    /\ Verified(method, before)
    /\ machine \in EntryStates(method)
    /\ entry = machine

(* No method runs.                                                         *)
NoMachine == [status |-> "none"]

(* A call of a method that runs as the caller does, not of one that Truth  *)
(* tells of.                                                               *)
LinkedCall(m, s) == m.code[s.pc].op \in InvokeOps /\ m.code[s.pc].member \in Linked

Execute ==
    /\ machine.status = "running"
    /\ ~LinkedCall(method, machine)
    /\ machine' \in Steps(method, machine, Truth)
    /\ UNCHANGED <<method, before, entry>>

RunSpec == RunInit /\ [][Execute]_runVars

-----------------------------------------------------------------------------
(* Every instruction the machine reaches was reached by the analysis, with *)
(* a stack of the same height, and each value is described by its type: no *)
(* feasible edge is pruned, no merge, handler or refinement is too narrow. *)
FramesDescribeRuns ==
    machine.status = "running" =>
        /\ machine.pc \in DOMAIN before
        /\ LET frame == before[machine.pc]
           IN  /\ Len(frame.stack) = Len(machine.stack)
               /\ \A n \in DOMAIN machine.stack :
                     SlotDescribes(Supertypes, frame.stack[n], machine.stack[n])
               /\ \A n \in DOMAIN machine.locals :
                     SlotDescribes(Supertypes, LocalSlot(frame, n), machine.locals[n])

(* The slots of a frame, each with what the machine has there.             *)
Held(frame, s) ==
    {<<LocalSlot(frame, n), s.locals[n]>> : n \in DOMAIN s.locals}
    \cup {<<frame.stack[n], s.stack[n]>> : n \in DOMAIN s.stack}

(* Two references of one origin are the same object, and any value of the  *)
(* origin of a parameter is the argument: what refine_origin and the       *)
(* summary of returned parameters rely on, around loops and through        *)
(* merges.  Integers may differ: all increments of a slot share an origin. *)
OriginsIdentify ==
    machine.status = "running" /\ machine.pc \in DOMAIN before =>
        LET held == {p \in Held(before[machine.pc], machine) : p[1].origin # None /\ p[2] # Unset}
        IN  /\ \A p, q \in held : p[1].origin = q[1].origin /\ p[2].v # "int" => p[2] = q[2]
            /\ \A p \in held :
                  /\ p[1].origin.k = "entry"
                  /\ method.constructor => p[1].origin.slot # 0
                  => p[2] = entry.locals[p[1].origin.slot]

Inferred == InferredReturn(method, before, Hierarchy)

(* A complete analysis of a method that can return says so, and what it    *)
(* returns is described by the inferred return type.                       *)
ReturnsDescribed ==
    machine.status = "returned" /\ method.ret # Void =>
        Inferred # None /\ Describes(Inferred, machine.result)

(* When a parameter is inferred to be returned, the argument is.           *)
ReturnedParameterIsArgument ==
    LET index == ReturnedParameter(method, before)
        slot == CHOOSE n \in DOMAIN machine.locals : ParameterAtSlot(method, n) = index
    IN  machine.status = "returned" /\ Inferred # None /\ index # NoParameter =>
            machine.result = entry.locals[slot]
=============================================================================
