--------------------------- MODULE MethodSoundness ---------------------------
(***************************************************************************)
(* A method is analyzed by the loop of MethodSolver, on the transfer of    *)
(* its bytecode, and then run on the machine of JvmExecution: the frames   *)
(* that MethodRuns takes as closed are those the loop ends with.           *)
(***************************************************************************)
EXTENDS MethodRuns

CONSTANTS
    Configs,            \* the limits of the loop, see MethodSolver
    Orders(_)           \* in which orders a hash map may list its keys

VARIABLES
    localTypes,         \* what is inferred of a slot for the whole method
    config, incoming, queue, queued, visits, totalWorkItems,
    analysisComplete, diagnostics, current, outgoing, sent, running

solverVars == <<method, config, incoming, queue, queued, visits, totalWorkItems,
                analysisComplete, diagnostics, current, outgoing, sent, running>>
wholeVars == <<solverVars, localTypes, before, machine, entry>>

-----------------------------------------------------------------------------
ASSUME LimitsAssumption ==
    \A c \in Configs : /\ c.unbounded \in BOOLEAN
                       /\ c.maxWorkItems \in Nat
                       /\ c.maxBlockIterations \in Nat

(* The operands that are written in the code, and what the summaries say   *)
(* of a member: the types they name are types of the instance.             *)
Literals(m, i) ==
    /\ i.op \in ConstantOps => ConstantType(i) \in AllTypes
    /\ i.op \in SwitchOps => i.targets \in Seq(Range(i.targets))
    /\ i.op = "new" => i.class \in KnownClasses
    /\ i.op = "newarray" => NewArrayType(i.element) \in AllTypes
    /\ i.op = "multianewarray" => i.dims \in Nat /\ ArrayRef(i.array) \in KnownReferences
    /\ i.op = "invokedynamic" =>
          /\ Len(i.params) \in Nat
          /\ i.ret \in {None, Void} \/ TypeOfDescriptor(i.ret) \in AllTypes
    /\ i.op \in {"getstatic", "getfield"} /\ i.member # Unresolved =>
          /\ TypeOfDescriptor(i.member.descriptor) \in AllTypes
          /\ StaticFieldValue(Env(m), i.member) \in AllTypes \cup {None}
    /\ i.op \in InvokeOps /\ i.member # Unresolved =>
          /\ i.member.descriptor.ret = Void
                \/ TypeOfDescriptor(i.member.descriptor.ret) \in AllTypes
          /\ i.member.name = "<init>" => i.member.owner \in KnownClasses
          /\ IF i.member.owner = NoClass THEN ArrayRef(i.member.array) \in AllTypes
             ELSE \A exact \in BOOLEAN :
                     ReturnTypeForCall(Env(m), i.member, InvocationKind(i.op), exact)
                         \in AllTypes \cup {None}

ASSUME LiteralsAssumption ==
    /\ Throwable \in KnownClasses
    /\ \A m \in Methods :
          /\ ~m.static => m.owner \in KnownClasses
          /\ \A n \in DOMAIN m.params :
                /\ m.params[n].d \in SmallIntegrals \cup {"long", "float", "double", "class", "array"}
                /\ TypeOfDescriptor(m.params[n]) \in AllTypes
          /\ \A h \in Range(m.handlers) : h.catchType \in KnownClasses \cup {NoCatchType}
          /\ \A at \in DOMAIN m.code : Literals(m, m.code[at])

ASSUME GraphsAssumption == \A m \in Methods : m.graph = BuildCfg(m)

ASSUME OrdersAssumption ==
    \A m \in Methods : \A S \in SUBSET DOMAIN m.graph : Orders(S) \subseteq Seq(S)

-----------------------------------------------------------------------------
(* The parameters of the loop.                                             *)
GraphBlocks(m) == DOMAIN m.graph
GraphEntry(m) == FirstOffset
VisitSends(m, b, f) == BlockPropagations(m, b, f, Env(m))
VisitReports(m, b, f) == BlockReports(m, b, f, Env(m))
MergedFrame(a, b) == MergeFrame(a, b, Hierarchy)
StandsForFrame(a, b) == CoversFrame(Supertypes, a, b)

Solver == INSTANCE MethodSolver WITH
    Frames <- AllFrames,
    Blocks <- GraphBlocks,
    EntryBlock <- GraphEntry,
    EntryState <- EntryFrame,
    Propagations <- VisitSends,
    Reports <- VisitReports,
    Merge <- MergedFrame,
    Mismatch <- HeightMismatch,
    Covers <- StandsForFrame

WholeInit ==
    /\ Solver!Init
    /\ localTypes = <<>>
    /\ before = <<>>
    /\ machine = NoMachine
    /\ entry = NoMachine

Analyze == Solver!Next /\ UNCHANGED <<localTypes, before, machine, entry>>

(* What analyze_method returns without an error or a complaint, of itself  *)
(* or of the graph it works on.                                            *)
Concluding ==
    /\ ~running
    /\ analysisComplete /\ diagnostics = {}
    /\ CfgDiagnostics(method) = {}
    /\ method.code # <<>>

(* Nothing is claimed of a method the analysis gave up or complains about, *)
(* or that a verifier rejects.                                             *)
Start ==
    /\ Concluding
    /\ machine = NoMachine
    /\ before' = Observations(method, incoming, Env(method))
    /\ Verified(method, before')
    /\ \E order \in Orders(DOMAIN incoming) :
          localTypes' = LocalTypes(method, incoming, order, before')
    /\ machine' \in EntryStates(method)
    /\ entry' = machine'
    /\ UNCHANGED solverVars

Run == Execute /\ UNCHANGED <<solverVars, localTypes>>

WholeNext == Analyze \/ Start \/ Run
WholeSpec == WholeInit /\ [][WholeNext]_wholeVars

-----------------------------------------------------------------------------
(* A complete loop without a diagnostic leaves frames that are closed:     *)
(* what the theorems about runs take of them.                              *)
FramesAreClosed ==
    Concluding /\ machine = NoMachine =>
        \E frames \in {Observations(method, incoming, Env(method))} : Closed(Env(method), method, frames)

(* The one type a slot gets for the whole method describes everything that *)
(* is ever in it, in whatever order the states of the blocks are merged;   *)
(* and a slot without a type is never set.                                 *)
LocalTypesDescribe ==
    machine.status \in {"running", "returned"} =>
        \A n \in DOMAIN machine.locals :
            Describes(IF n < Len(localTypes) THEN localTypes[n + 1] ELSE Bottom,
                      machine.locals[n])
=============================================================================
