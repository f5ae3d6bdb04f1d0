----------------------------- MODULE ProgramRuns -----------------------------
(***************************************************************************)
(* The methods of a program run and call each other, beside the frames of  *)
(* each, which are closed under summaries that say of a method what its    *)
(* own frames say: the state in which the loops over methods and classes   *)
(* end.  The machine of MethodRuns is the activation that is running; the  *)
(* ones that called it are suspended.  Code outside the program may start  *)
(* any method at any time, and a subclass outside may override a method.   *)
(*                                                                         *)
(* A program is a record: methods, and final, the members of these that    *)
(* nothing overrides.                                                      *)
(***************************************************************************)
EXTENDS MethodRuns

CONSTANTS
    Programs,       \* the programs
    MaxDepth        \* how many activations may be suspended

VARIABLES
    program,
    framesOf,       \* of each method, the frames of its instructions
    calls           \* the suspended activations, the last one first

programVars == <<runVars, program, framesOf, calls>>

DeclaredKinds == SmallIntegrals \cup {"long", "float", "double", "class", "array"}

ProgramMethods == UNION {p.methods : p \in Programs}

ASSUME ProgramsAssumption ==
    /\ ProgramMethods \subseteq Methods
    /\ {{MethodKey(m) : m \in {x \in p.methods : ~x.constructor}} : p \in Programs} \subseteq {Linked}
    /\ \A m \in ProgramMethods :
          /\ m.owner # NoClass
          /\ m.constructor <=> m.name = "<init>"
          /\ \A n \in DOMAIN m.params : m.params[n].d \in DeclaredKinds
          /\ m.ret = Void \/ m.ret.d \in DeclaredKinds

(* What tells two objects apart is kept as they go from method to method.  *)
ASSUME IdentitiesAssumption ==
    \A m, other \in ProgramMethods :
        \A place \in Places(m), elsewhere \in Places(other) :
            Identities(place) = Identities(elsewhere)

-----------------------------------------------------------------------------
(* What the analysis of a method is told of the program it is part of.     *)

(* The summaries of the methods, where there are any, are those that their *)
(* frames give; the caller of the analysis supplies none of its own.       *)
SummariesAgree(env, methods, table) ==
    \A m \in {x \in methods : ~x.constructor} :
        /\ MethodKey(m) \notin DOMAIN env.supplied
        /\ \A returns \in {env.returns, env.batch.returns} :
              Lookup(returns, MethodKey(m)) \in {None, InferredReturn(m, table[m], Hierarchy)}
        /\ \A parameters \in {env.parameters, env.batch.parameters} :
              LookupIndex(parameters, MethodKey(m)) \in {NoParameter, ReturnedParameter(m, table[m])}

(* Nothing overrides what the analysis is told is final.                   *)
FinalsAgree(env, methods, final) ==
    \A m \in methods :
        LET key == MethodKey(m)
        IN  \/ key.owner = env.owner /\ env.classFinal
            \/ key \in env.finalMethods \cup env.batch.finalMethods
            \/ key.owner \in env.batch.finalClasses
            => key \in final

Agrees(env, p, table) ==
    SummariesAgree(env, p.methods, table) /\ FinalsAgree(env, p.methods, p.final)

-----------------------------------------------------------------------------
ProgramInit ==
    /\ program \in Programs
    /\ DOMAIN framesOf = program.methods
    /\ \A m \in program.methods : /\ Closed(Env(m), m, framesOf[m])
                                  /\ Verified(m, framesOf[m])
                                  /\ Agrees(Env(m), program, framesOf)
    /\ method \in program.methods /\ before = framesOf[method]
    /\ machine = NoMachine /\ entry = NoMachine
    /\ calls = <<>>

(* The activation that runs, as it is suspended.                           *)
Suspended(awaits) ==
    [method |-> method, machine |-> machine, entry |-> entry, awaits |-> awaits]

(* A method starts in the state, and the activation that ran is suspended. *)
Begin(m, state, awaits) ==
    /\ Len(calls) < MaxDepth
    /\ calls' = <<Suspended(awaits)>> \o calls
    /\ method' = m /\ before' = framesOf[m]
    /\ machine' = state /\ entry' = state
    /\ UNCHANGED <<program, framesOf>>

Becomes(states) ==
    machine' \in states /\ UNCHANGED <<method, before, entry, program, framesOf, calls>>

(* Outside code calls a method: at first, or in the midst of another, as a *)
(* class initializer or a method called does.                              *)
OutsideCall ==
    /\ machine.status \in {"none", "running"}
    /\ \E m \in program.methods : \E state \in EntryStates(m) : Begin(m, state, FALSE)

(* An instruction that calls no method of the program.                     *)
Step == Execute /\ UNCHANGED <<program, framesOf, calls>>

Instruction == method.code[machine.pc]
Calling == machine.status = "running" /\ LinkedCall(method, machine)

(* The arguments and the receiver are such as a call takes.                *)
Takes(i, s) ==
    /\ CallPops(i) <= Len(s.stack)
    /\ Fit(i, CallArguments(s, i))
    /\ HasReceiver(i) => InstanceOf(Exact(i.member.owner), CallReceiver(s, i))

(* The locals of the method called: its receiver, and each argument at the *)
(* slot of its parameter.                                                  *)
CalledWith(m, i, s) ==
    LET local(slot) ==
            IF slot = 0 /\ ~m.static THEN CallReceiver(s, i)
            ELSE IF ParameterAtSlot(m, slot) = NoParameter THEN Unset
            ELSE CallArguments(s, i)[ParameterAtSlot(m, slot)]
    IN  [pc |-> FirstOffset, locals |-> [slot \in Slots(m) |-> local(slot)], stack |-> <<>>,
         status |-> "running", result |-> Unset]

Enter ==
    /\ Calling
    /\ Takes(Instruction, machine)
    /\ \E m \in program.methods :
          /\ MethodKey(m) = Instruction.member
          /\ m.static <=> ~HasReceiver(Instruction)
          /\ Begin(m, CalledWith(m, Instruction, machine), TRUE)

(* A method outside runs instead, of a class that overrides the method: it *)
(* returns anything of the type declared.                                  *)
Overridable(i, receiver) ==
    /\ i.op \in {"invokevirtual", "invokeinterface"}
    /\ ~(receiver.v = "object" /\ receiver.class = i.member.owner)
    /\ i.member \notin program.final

Override ==
    /\ Calling
    /\ Takes(Instruction, machine)
    /\ Overridable(Instruction, CallReceiver(machine, Instruction))
    /\ LET ret == Instruction.member.descriptor.ret
           pops == CallPops(Instruction)
       IN  Becomes(IF ret = Void THEN {Continue(machine, pops, <<>>)}
                   ELSE Yield(machine, pops, ValuesOf(ret, 0)))

CallThrows == Calling /\ Becomes(ThrowAny(method, machine))

(* A call is completed, by what the method called returned or with any     *)
(* exception.  A result that is not of the type declared is one that a     *)
(* verifier would have rejected.                                           *)
Completed(caller) ==
    LET pops == CallPops(caller.method.code[caller.machine.pc])
    IN  IF machine.status = "threw" THEN ThrowAny(caller.method, caller.machine)
        ELSE IF method.ret = Void THEN {Continue(caller.machine, pops, <<>>)}
        ELSE IF machine.result # Unset /\ Describes(TypeOfDescriptor(method.ret), machine.result)
        THEN {Continue(caller.machine, pops, <<machine.result>>)}
        ELSE {Stuck(caller.machine)}

Leave ==
    /\ machine.status \in {"returned", "threw"}
    /\ calls # <<>>
    /\ LET caller == Head(calls)
       IN  /\ method' = caller.method /\ before' = framesOf[caller.method]
           /\ entry' = caller.entry
           /\ machine' \in IF caller.awaits THEN Completed(caller) ELSE {caller.machine}
    /\ calls' = Tail(calls)
    /\ UNCHANGED <<program, framesOf>>

ProgramNext == OutsideCall \/ Step \/ Enter \/ Override \/ CallThrows \/ Leave
ProgramSpec == ProgramInit /\ [][ProgramNext]_programVars
=============================================================================
