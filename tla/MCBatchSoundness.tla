-------------------------- MODULE MCBatchSoundness --------------------------
(***************************************************************************)
(* Two classes are analyzed together and then run.  M.f and P.g have every *)
(* pair of bodies from a list and call each other, M.k calls M.f or calls  *)
(* nothing, and P.make is an instance method that a subclass of P          *)
(* overrides where it can.  The loop of BatchSummaries runs first, each    *)
(* class by the loop over its methods on the bytecode analysis; then some  *)
(* method runs on the machine of ProgramRuns.                              *)
(***************************************************************************)
EXTENDS MCBytecode, BatchAnalysis, ProgramRuns, TLC

MCObject == "java/lang/Object"
MCReferenceOrder == <<Exact("A"), Exact("B"), Exact("P"), Exact("java/lang/Object")>>
MCSupertypes ==
    [c \in {"A", "B", "P", "N", Throwable, Object} |->
        {c, Object} \cup (IF c = "N" THEN {"P"} ELSE {})]
MCInstantiable == {"A", "B", "P", "N", Throwable}
MCInts == {0, 1}
TwoObjects(place) == {0, 1}

FMember == Member("M", "f", <<ObjectDescriptor>>, ObjectDescriptor)
KMember == Member("M", "k", <<ObjectDescriptor>>, ObjectDescriptor)
GMember == Member("P", "g", <<ObjectDescriptor>>, ObjectDescriptor)
MakeMember == Member("P", "make", <<>>, ObjectDescriptor)

-----------------------------------------------------------------------------
(* A body is named by a kind and, if it makes a call, the callee.          *)
Body(kind, callee) == [kind |-> kind, callee |-> callee]
Bodies(member, others) ==
    {Body(kind, member) : kind \in {"null", "new", "same"}}
    \cup {Body(kind, callee) : kind \in {"call", "callNull", "orNew", "retry"}, callee \in others}
Making == {Body("makeNew", MakeMember), Body("makeCast", MakeMember)}

Code(body) ==
    CASE body.kind = "makeNew" -> NewOf("P") \o <<Invoke("invokevirtual", MakeMember), I("areturn")>>
      [] body.kind = "makeCast" ->
            <<Local("aload", 0), CastTo("P"), Invoke("invokevirtual", MakeMember), I("areturn")>>
      [] OTHER -> CommonCode(body.kind, Invoke("invokestatic", body.callee))

MethodOf(member, static, code) ==
    WithGraph([owner |-> member.owner, name |-> member.name, constructor |-> FALSE,
               static |-> static, params |-> member.descriptor.params,
               ret |-> member.descriptor.ret, maxLocals |-> 2, maxStack |-> 4,
               hints |-> {}, code |-> code, handlers |-> <<>>])

(* Only a body that casts its argument tells what is final from the rest.  *)
BodyChoices ==
    LET bodies(S, final) == [f : S, g : Bodies(GMember, {FMember, KMember}), final : final,
                             k : {Body("call", FMember), Body("new", KMember)}]
    IN  bodies(Bodies(FMember, {GMember, KMember}) \cup Making, {"none"})
        \cup bodies({Body("makeCast", MakeMember)}, {"class", "method"})

BatchOf(choice) ==
    <<[name |-> "M", final |-> FALSE, finalMethods |-> {},
       methods |-> <<MethodOf(FMember, TRUE, Code(choice.f)),
                     MethodOf(KMember, TRUE, Code(choice.k))>>],
      [name |-> "P", final |-> choice.final = "class",
       finalMethods |-> IF choice.final = "method" THEN {MakeMember} ELSE {},
       methods |-> <<MethodOf(GMember, TRUE, Code(choice.g)),
                     MethodOf(MakeMember, FALSE, NewOf("A") \o <<I("areturn")>>)>>]>>

MCBatches == {BatchOf(choice) : choice \in BodyChoices}

NoExternal ==
    [supplied |-> <<>>, suppliedFields |-> <<>>, hierarchy |-> NoHierarchy,
     batch |-> [returns |-> <<>>, parameters |-> <<>>, finalClasses |-> {}, finalMethods |-> {}]]
Unbounded == [unbounded |-> TRUE, maxWorkItems |-> 1, maxBlockIterations |-> 1, strict |-> FALSE]

(* The program a batch is: what is final of it nothing overrides.          *)
ProgramOf(b) ==
    [methods |-> UNION {Range(b[c].methods) : c \in DOMAIN b},
     final |-> FinalMethods(b) \cup UNION {MethodKeys(b[c]) : c \in {d \in DOMAIN b : b[d].final}}]

MCMethods == UNION {ProgramOf(b).methods : b \in MCBatches}
MCPrograms == {ProgramOf(b) : b \in MCBatches}
MCLinked == {FMember, KMember, GMember, MakeMember}
MCValues == RunValues([owner |-> "P", constructor |-> TRUE, maxLocals |-> 2,
                       code |-> [n \in 1..12 |-> I("nop")]])

(* What is known from outside is nothing, to the analysis and the machine. *)
MCEnv(m) == NoExternal @@
    [owner |-> m.owner, classFinal |-> FALSE, finalMethods |-> {},
     returns |-> <<>>, parameters |-> <<>>, fields |-> <<>>]
MCTruth == [returns |-> <<>>, parameters |-> <<>>, fields |-> <<>>]

-----------------------------------------------------------------------------
VARIABLES
    batch, config, worklist, scheduled, analyzed, analyses, returns, parameters,
    reanalysisItems, changed, pending, complete, outcome,
    made            \* whether a method was called from outside

batchVars == <<batch, config, worklist, scheduled, analyzed, analyses, returns, parameters,
               reanalysisItems, changed, pending, complete, outcome>>
vars == <<batchVars, programVars, made>>

Summaries == INSTANCE BatchSummaries WITH
    Batches <- MCBatches,
    Configs <- {Unbounded},
    ClassCount <- LAMBDA b : Len(b),
    MethodCount <- LAMBDA b, c : Len(b[c].methods),
    Callers <- BatchCallers,
    Values <- {},       \* only the proofs name the set of all types
    NoValue <- None,
    Indices <- {1},
    NoIndex <- NoParameter,
    Kinds <- {},
    Analysis <- LAMBDA b, c, env : AnalyzeClassOf(b, c, env, NoExternal, Unbounded)

NoProgram == [methods |-> {}, final |-> {}]

Init ==
    /\ Summaries!Init
    /\ program = NoProgram
    /\ method = batch[1].methods[1]
    /\ framesOf = <<>> /\ before = <<>>
    /\ machine = NoMachine /\ entry = NoMachine
    /\ calls = <<>>
    /\ made = FALSE

Analyze == Summaries!Next /\ UNCHANGED <<programVars, made>>

-----------------------------------------------------------------------------
(* What a class is told by the batch and by itself when the loop has ended.*)
OwnSummaries(c) ==
    [returns |-> analyses[c].returns, parameters |-> analyses[c].parameters, fields |-> <<>>]
Told ==
    BatchExternal(batch, [returns |-> [c \in DOMAIN batch |-> analyses[c].returns],
                          parameters |-> [c \in DOMAIN batch |-> analyses[c].parameters]],
                  NoExternal)
ClassOf(m) == CHOOSE c \in DOMAIN batch : batch[c].name = m.owner
ResolvedEnv(m) == ResolverEnvironment(batch[ClassOf(m)], OwnSummaries(ClassOf(m)), Told)
FramesOf(m) == Observations(m, SolveFrames(m, ResolvedEnv(m), Unbounded).incoming, ResolvedEnv(m))

Load ==
    /\ outcome = "ok"
    /\ program = NoProgram
    /\ program' = ProgramOf(batch)
    /\ framesOf' = [m \in ProgramOf(batch).methods |-> FramesOf(m)]
    /\ UNCHANGED <<batchVars, runVars, calls, made>>

Execution(A) == program # NoProgram /\ A /\ UNCHANGED batchVars

(* A static method, chosen by anyone.                                      *)
Arguments == {NullRef} \cup {Obj(c, 0) : c \in {"B", "N"}}
Start ==
    /\ ~made
    /\ OutsideCall
    /\ method'.static /\ entry'.locals[0] \in Arguments
    /\ made' = TRUE

Run == (Step \/ Enter \/ Override \/ CallThrows \/ Leave) /\ UNCHANGED made

Next == Analyze \/ Load \/ Execution(Start) \/ Execution(Run)
Spec == Init /\ [][Next]_vars

-----------------------------------------------------------------------------
(* The state in which the loop ends is one that the theorems about runs    *)
(* start from: the frames of each method are closed under what is said of  *)
(* the others, in its class and beyond, and that is what their own frames  *)
(* say.                                                                    *)
SummariesMeetFrames ==
    program # NoProgram /\ ~made =>
        \A m \in program.methods :
            /\ Agrees(ResolvedEnv(m), program, framesOf)
            /\ Closed(ResolvedEnv(m), m, framesOf[m])
            /\ Verified(m, framesOf[m])

(* The two nested loops reach one fixed point: framesOf has the frames of  *)
(* each method, analyzed once more with what is published of its class and *)
(* of the others, and what is read off them is what is published of it.    *)
PublishedAreJustified ==
    program # NoProgram /\ ~made =>
        \A c \in DOMAIN batch :
            \A n \in DOMAIN batch[c].methods :
                LET m == batch[c].methods[n]
                IN  /\ analyses[c].returns[n] = InferredReturn(m, framesOf[m], Hierarchy)
                    /\ analyses[c].parameters[n] = ReturnedParameter(m, framesOf[m])
=============================================================================
