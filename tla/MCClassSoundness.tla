-------------------------- MODULE MCClassSoundness --------------------------
(***************************************************************************)
(* A class is analyzed and then run, calls between its methods included.   *)
(* Its static methods f and g have every pair of bodies from a list, make  *)
(* is an instance method that a subclass overrides, and its initializer    *)
(* assigns its static field.  The loop of ClassSummaries runs first, on    *)
(* the bytecode analysis; then the initializer runs on the machine of      *)
(* ProgramRuns, and then some method.                                      *)
(***************************************************************************)
EXTENDS MCBytecode, ClassAnalysis, ProgramRuns, TLC

CONSTANTS
    Classes,        \* the classes, with the graphs of their methods
    MaxCalls        \* methods called from outside, one after the other

MCObject == "java/lang/Object"
MCReferenceOrder == <<Exact("A"), Exact("B"), Exact("M"), Exact("java/lang/Object")>>
MCSupertypes ==
    [c \in {"A", "B", "M", "N", Throwable, Object} |->
        {c, Object} \cup (IF c = "N" THEN {"M"} ELSE {})]
MCInstantiable == {"A", "B", "M", "N", Throwable}
MCInts == {0, 1}
TwoObjects(place) == {0, 1}

FMember == Member("M", "f", <<ObjectDescriptor>>, ObjectDescriptor)
GMember == Member("M", "g", <<ObjectDescriptor>>, ObjectDescriptor)
MakeMember == Member("M", "make", <<>>, ObjectDescriptor)
InitializerMember == Member("M", "<clinit>", <<>>, Void)
FieldMember == [owner |-> "M", name |-> "F", descriptor |-> ObjectDescriptor]

-----------------------------------------------------------------------------
(* A body is named by a kind and, if it makes a call, the callee.          *)
CallingKinds == {"call", "callNull", "orNew", "retry"}
Bodies == [kind : {"null", "new", "same", "read", "makeNew", "makeCast"}, callee : {"f"}]
          \cup [kind : CallingKinds, callee : {"f", "g"}]

Called(body) == Invoke("invokestatic", IF body.callee = "f" THEN FMember ELSE GMember)
FieldOp(op) == [op |-> op, member |-> FieldMember]

Code(body) ==
    CASE body.kind = "read" -> <<FieldOp("getstatic"), I("areturn")>>
      [] body.kind = "makeNew" -> NewOf("M") \o <<Invoke("invokevirtual", MakeMember), I("areturn")>>
      [] body.kind = "makeCast" ->
            <<Local("aload", 0), CastTo("M"), Invoke("invokevirtual", MakeMember), I("areturn")>>
      [] body.kind = "write" ->     \* F = p; return null
            <<Local("aload", 0), FieldOp("putstatic"), I("aconst_null"), I("areturn")>>
      [] body.kind = "failIfNull" ->    \* x = c(p); if (x == null) throw x; return null
            <<Local("aload", 0), Called(body), Local("astore", 1), Local("aload", 1),
              To("ifnonnull", 8), Local("aload", 1), I("athrow"), I("aconst_null"), I("areturn")>>
      [] OTHER -> CommonCode(body.kind, Called(body))

InitializerCode(kind) ==
    CASE kind = "null" -> <<I("aconst_null"), FieldOp("putstatic"), I("return")>>
      [] kind = "new" -> NewOf("A") \o <<FieldOp("putstatic"), I("return")>>
      [] kind = "callG" -> <<I("aconst_null"), Invoke("invokestatic", GMember),
                             FieldOp("putstatic"), I("return")>>
      [] kind = "none" -> <<I("return")>>

MethodOf(member, static, code) ==
    WithGraph([owner |-> "M", name |-> member.name, constructor |-> FALSE, static |-> static,
               params |-> member.descriptor.params, ret |-> member.descriptor.ret,
               maxLocals |-> 2, maxStack |-> 4, hints |-> {}, code |-> code, handlers |-> <<>>])

ClassesOf(choices) ==
    LET class(p) ==
            [name |-> "M", final |-> p.final, finalMethods |-> {},
             methods |-> <<MethodOf(FMember, TRUE, Code(p.f)),
                           MethodOf(GMember, TRUE, Code(p.g)),
                           MethodOf(MakeMember, FALSE, NewOf("A") \o <<I("areturn")>>),
                           MethodOf(InitializerMember, TRUE, InitializerCode(p.init))>>]
    IN  {class(p) : p \in choices}
Initializer == 4

(* Only a body that reads the field tells one initializer from another,    *)
(* and only one that casts its argument a final class from one that is not.*)
MCClasses == ClassesOf(
    {c \in [f : Bodies, g : Bodies, init : {"null", "new", "callG"}, final : {FALSE}] :
        c.init = "callG" \/ "read" \in {c.f.kind, c.g.kind}}
    \cup [f : {b \in Bodies : b.kind = "makeCast"}, g : Bodies, init : {"none"}, final : {TRUE}])

Body(kind, callee) == [kind |-> kind, callee |-> callee]
WritingClasses == ClassesOf(
    [f : {Body("write", "f")}, g : {Body("read", "f")}, init : {"null", "new"}, final : {FALSE}])
FailingClasses == ClassesOf(
    [f : {Body("failIfNull", "g")}, g : {Body("call", "f"), Body("null", "f")},
     init : {"none"}, final : {FALSE}])

NoExternal ==
    [supplied |-> <<>>, suppliedFields |-> <<>>, hierarchy |-> NoHierarchy,
     batch |-> [returns |-> <<>>, parameters |-> <<>>, finalClasses |-> {}, finalMethods |-> {}]]
Unbounded == [unbounded |-> TRUE, maxWorkItems |-> 1, maxBlockIterations |-> 1, strict |-> FALSE]

-----------------------------------------------------------------------------
(* The program a class is: what is final of it nothing overrides.          *)
ProgramOf(c) == [methods |-> Range(c.methods),
                 final |-> IF c.final THEN MethodKeys(c) ELSE c.finalMethods]

MCMethods == UNION {Range(c.methods) : c \in Classes}
MCPrograms == {ProgramOf(c) : c \in Classes}
MCLinked == {FMember, GMember, MakeMember, InitializerMember}
MCValues == RunValues([owner |-> "M", constructor |-> TRUE, maxLocals |-> 2,
                       code |-> [n \in 1..12 |-> I("nop")]])

(* What is known from outside is nothing, to the analysis and the machine. *)
MCEnv(m) == NoExternal @@
    [owner |-> m.owner, classFinal |-> FALSE, finalMethods |-> {},
     returns |-> <<>>, parameters |-> <<>>, fields |-> <<>>]
MCTruth == [returns |-> <<>>, parameters |-> <<>>, fields |-> <<>>]

-----------------------------------------------------------------------------
VARIABLES
    class, config, worklist, scheduled, analyzed, analyses, returns, parameters, fields,
    reanalysisItems, pending, changedFields, complete, outcome,
    tick,           \* changes with every step of the analysis
    static,         \* the value of the static field
    made            \* methods called from outside, the initializer included

summaryVars == <<class, config, worklist, scheduled, analyzed, analyses, returns, parameters,
                 fields, reanalysisItems, pending, changedFields, complete, outcome>>
vars == <<summaryVars, tick, programVars, static, made>>

Summaries == INSTANCE ClassSummaries WITH
    Configs <- {Unbounded},
    MethodCount <- LAMBDA c : Len(c.methods),
    Callers <- LocalCallers,
    Fields <- LocalFields,
    Readers <- LocalReaders,
    Values <- {},       \* only the proofs name the set of all types
    NoValue <- None,
    Indices <- {1},
    NoIndex <- NoParameter,
    Kinds <- {},
    Lowered <- LAMBDA c : {},
    Analysis <- LAMBDA c, m, env : AnalysisOf(c, m, env, NoExternal, Unbounded)

NoProgram == [methods |-> {}, final |-> {}]

Init ==
    /\ Summaries!Init
    /\ tick = FALSE
    /\ program = NoProgram
    /\ method = class.methods[Initializer]
    /\ framesOf = <<>> /\ before = <<>>
    /\ machine = NoMachine /\ entry = NoMachine
    /\ calls = <<>>
    /\ static = NullRef
    /\ made = 0

Analyze ==
    /\ Summaries!Next
    /\ tick' = ~tick
    /\ UNCHANGED <<programVars, static, made>>

(* What the resolvers say when the loop has ended, and the frames that a   *)
(* method then has.                                                        *)
ResolvedEnv ==
    ResolverEnvironment(class, [returns |-> returns, parameters |-> parameters, fields |-> fields],
                        NoExternal)
FramesOf(m) == Observations(m, SolveFrames(m, ResolvedEnv, Unbounded).incoming, ResolvedEnv)

Load ==
    /\ outcome = "ok"
    /\ program = NoProgram
    /\ program' = ProgramOf(class)
    /\ framesOf' = [m \in Range(class.methods) |-> FramesOf(m)]
    /\ UNCHANGED <<summaryVars, tick, runVars, calls, static, made>>

Execution(A) == program # NoProgram /\ A /\ UNCHANGED <<summaryVars, tick>>

(* The initializer runs first, and then methods chosen by anyone.          *)
Arguments == {NullRef} \cup {Obj(c, 0) : c \in {"B", "N"}}
Start ==
    /\ machine = NoMachine
    /\ made <= MaxCalls
    /\ OutsideCall
    /\ IF made = 0 THEN method' = class.methods[Initializer]
       ELSE method' \in {class.methods[1], class.methods[2]} /\ entry'.locals[0] \in Arguments
    /\ made' = made + 1
    /\ UNCHANGED static

Running == machine.status = "running"
FieldAccess == Instruction.op \in {"getstatic", "putstatic"}

(* The field is that of the class, and not whatever its summary says.      *)
AccessField ==
    /\ Running /\ FieldAccess
    /\ \/ Instruction.op = "getstatic" /\ static' = static /\ Becomes({Continue(machine, 0, <<static>>)})
       \/ Instruction.op = "putstatic" /\ static' = At(machine, 1) /\ Becomes({Continue(machine, 1, <<>>)})
       \/ static' = static /\ Becomes(ThrowAny(method, machine))
    /\ UNCHANGED made

MachineStep == (Running => ~FieldAccess) /\ Step /\ UNCHANGED <<static, made>>
Call1 == (Enter \/ Override \/ CallThrows \/ Leave) /\ UNCHANGED <<static, made>>

Next == Analyze \/ Load \/ Execution(Start) \/ Execution(AccessField)
        \/ Execution(MachineStep) \/ Execution(Call1)
Spec == Init /\ [][Next]_vars

(* The loop over the methods, until it ends, keeps taking steps.           *)
Tick == outcome \in {"running", "collecting"} /\ tick' = ~tick
FairSpec == Spec /\ WF_tick(Tick)

-----------------------------------------------------------------------------
(* The state in which the loop ends is one that the theorems about runs    *)
(* start from: the frames of each method are closed under what is said of  *)
(* the others, and that is what their own frames say.                      *)
SummariesMeetFrames ==
    program # NoProgram /\ made = 0 =>
        /\ Agrees(ResolvedEnv, program, framesOf)
        /\ \A m \in program.methods : Closed(ResolvedEnv, m, framesOf[m]) /\ Verified(m, framesOf[m])

(* The summaries are a fixed point of the bytecode analysis itself: every  *)
(* use that its resolvers make of a method or field is one that the        *)
(* callers and readers of the requeueing know.                             *)
PublishedAreJustified == Summaries!PublishedAreJustified

(* "runs every analyzed method to a fixed point without an iteration       *)
(* budget" (api.rs): the loop over the methods ends.                       *)
Termination == <>(outcome = "ok")
=============================================================================
