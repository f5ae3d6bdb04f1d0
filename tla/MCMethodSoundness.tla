------------------------- MODULE MCMethodSoundness -------------------------
(***************************************************************************)
(* One method is analyzed and then run.  The methods are every pair of     *)
(* statements from a small language over two locals, followed by one of a  *)
(* few ends, or with an exception handler around them, and a list of       *)
(* methods for what that language cannot say.  The loop of MethodSolver    *)
(* runs first, on the bytecode transfer; the machine starts when it ends.  *)
(***************************************************************************)
EXTENDS MCBytecode, MethodSoundness, ClassAnalysis, TLC

ExceptionClass == "E"
A == Class("A")
ArrayOfA == ArrayOf(A)
IntD == [d |-> "int"]
BooleanD == [d |-> "boolean"]
ByteD == [d |-> "byte"]
LongD == [d |-> "long"]

MCObject == "java/lang/Object"
MCReferenceOrder ==
    <<Exact("A"), Exact("B"), Exact("E"), Exact("java/lang/Object"), Exact(Throwable),
      ArrayRef(ArrayOf(Class("A"))), ArrayRef(ArrayOf(Class("java/lang/Object")))>>
MCSupertypes ==
    [c \in {"A", "B", "E", Throwable, Object} |->
        {c, Object} \cup (IF c = "B" THEN {"A"} ELSE IF c = "E" THEN {Throwable} ELSE {})]
MCInstantiable == {"A", "B", "E"}
MCInts == {0, 1, 200}
MCArrays == {ArrayOfA, ArrayOf(ObjectDescriptor)}
MCHierarchy == [c \in {"A", "B", "E", Throwable} |->
                   CASE c = "B" -> {"A"} [] c = "E" -> {Throwable} [] OTHER -> {Object}]

-----------------------------------------------------------------------------
(* Members the methods call, and what is known of them: pick() returns an  *)
(* A, id(x) returns x, and B overrides A.self() but A's returns its own.   *)
Foo == Member("M", "foo", <<>>, ObjectDescriptor)
Pick == Member("M", "pick", <<>>, ObjectDescriptor)
Id == Member("M", "id", <<ObjectDescriptor>>, ObjectDescriptor)
Tail2 == Member("M", "tail", <<LongD, ObjectDescriptor>>, ObjectDescriptor)
Make == Member("A", "make", <<>>, ObjectDescriptor)
CloneOf(d) == [owner |-> NoClass, name |-> "clone", array |-> d,
               descriptor |-> [params |-> <<>>, ret |-> ObjectDescriptor]]

Field == [owner |-> "M", name |-> "F", descriptor |-> ObjectDescriptor]

MCEnv == [owner |-> "M", classFinal |-> FALSE, finalMethods |-> {},
          supplied |-> <<>>, suppliedFields |-> <<>>,
          batch |-> [returns |-> Make :> Exact("A"), parameters |-> <<>>,
                     finalClasses |-> {}, finalMethods |-> {}],
          returns |-> Pick :> Exact("A"),
          parameters |-> (Id :> 1) @@ (Tail2 :> 2),
          fields |-> Field :> Exact("A"), hierarchy |-> MCHierarchy]
MCEnvOf(m) == MCEnv
(* What the machine knows of the callees, whoever told the analysis.       *)
MCTruth == [MCEnv EXCEPT !.returns = @ @@ MCEnv.batch.returns]

Typed(op, t) == [op |-> op, type |-> t]
Static(m) == Invoke("invokestatic", m)

-----------------------------------------------------------------------------
(* Statements: a list of instructions whose branch target, if any, is the  *)
(* number of a statement.                                                  *)
Vars == {0, 1}
Labels == {1, 4}
TestsOf(x) ==
    UNION {{<<Local("aload", x), To("ifnull", l)>>,
            <<Local("aload", x), Typed("instanceof", Exact("A")), To("ifeq", l)>>} : l \in Labels}
Statements ==
    UNION {{<<I("aconst_null"), Local("astore", x)>>,
            <<Static(Foo), Local("astore", x)>>,
            <<Local("aload", 1 - x), Local("astore", x)>>} \cup TestsOf(x) : x \in Vars}
    \cup {<<Local("aload", 0), Typed("checkcast", Exact("A")), Local("astore", 0)>>,
          NewOf("A") \o <<Local("astore", 0)>>,
          <<Local("aload", 1), Static(Id), Local("astore", 0)>>}
    \cup {<<To("goto", l)>> : l \in Labels}
Return == <<Local("aload", 0), I("areturn")>>
Ends == {Return, <<To("goto", 1)>>, <<Local("aload", 1), To("ifnonnull", 1)>>}

(* Statement 4 always returns the first local.                             *)
Compiled(statements) ==
    LET offset[n \in 1..4] == IF n = 1 THEN FirstOffset
                              ELSE offset[n - 1] + Len(statements[n - 1])
        resolve(i) == IF "target" \in DOMAIN i THEN [i EXCEPT !.target = offset[@]] ELSE i
        flat == FlattenSeq(statements)
    IN  [n \in DOMAIN flat |-> resolve(flat[n])]

Body(params, maxLocals, code, handlers, ret) ==
    [owner |-> "M", name |-> "m", constructor |-> FALSE, static |-> TRUE,
     params |-> params, ret |-> ret, maxLocals |-> maxLocals, maxStack |-> 4,
     hints |-> {}, code |-> code, handlers |-> handlers]

Handled(code) ==
    Body(<<A, Class("B")>>, 2, code \o <<Local("astore", 1), Local("aload", 0), I("areturn")>>,
         <<[from |-> 1, to |-> Len(code), at |-> Len(code) + 1,
            catchType |-> ExceptionClass]>>, ObjectDescriptor)

Generated ==
    {Body(<<ObjectDescriptor, Class("B")>>, 2, Compiled(<<s1, s2, end, Return>>), <<>>,
          ObjectDescriptor) : s1 \in Statements, s2 \in Statements, end \in Ends}
    \cup {Handled(Compiled(<<s1, s2, Return, Return>>)) :
             s1 \in Statements, s2 \in Statements}

-----------------------------------------------------------------------------
(* What the statements cannot say.                                         *)

Plain2(params, ret, code) == Body(params, 3, code, <<>>, ret)

TernaryOnStack(left, right) ==      \* x == null ? left : right, then areturn
    <<Local("aload", 0), To("ifnull", 4 + Len(right))>> \o right
        \o <<To("goto", 4 + Len(right) + Len(left))>> \o left \o <<I("areturn")>>

Handwritten == {
    \* a wide parameter before the one returned, through a call that returns it
    Plain2(<<LongD, ObjectDescriptor>>, ObjectDescriptor,
        <<Local("lload", 0), Local("aload", 2), Static(Tail2), I("areturn")>>),
    \* a wide store over the slot above it
    Plain2(<<IntD, ObjectDescriptor>>, IntD,
        <<[op |-> "lconst"], Local("lstore", 1), Local("lload", 1), I("pop"),
          Local("iload", 0), I("ireturn")>>),
    \* a virtual call on a new object, on a cast one and on one that may be either
    Plain2(<<ObjectDescriptor>>, ObjectDescriptor,
        NewOf("A") \o <<Invoke("invokevirtual", Make), I("areturn")>>),
    Plain2(<<ObjectDescriptor>>, ObjectDescriptor,
        <<Local("aload", 0), Typed("checkcast", Exact("A")),
          Invoke("invokevirtual", Make), I("areturn")>>),
    Plain2(<<A>>, ObjectDescriptor,
        <<Local("aload", 0), To("ifnonnull", 7)>> \o NewOf("A")
        \o <<Local("astore", 0), Local("aload", 0), Invoke("invokevirtual", Make), I("areturn")>>),
    \* a summary's type, sharpened through the parameter the callee returns
    Plain2(<<>>, ObjectDescriptor, <<Static(Pick), Static(Id), I("areturn")>>),
    \* values merged on the stack: objects with a common superclass, arrays, integers
    Plain2(<<ObjectDescriptor>>, ObjectDescriptor, TernaryOnStack(NewOf("A"), NewOf("B"))),
    Plain2(<<ObjectDescriptor>>, ObjectDescriptor,
        TernaryOnStack(NewOf("E"), <<I("aconst_null")>>)),
    Plain2(<<ObjectDescriptor, ArrayOfA, ArrayOf(ObjectDescriptor)>>, ObjectDescriptor,
        <<Local("aload", 0), To("ifnull", 5), Local("aload", 1), To("goto", 6),
          Local("aload", 2), [op |-> "iconst", n |-> 0], I("aaload"), I("areturn")>>),
    Plain2(<<BooleanD>>, ByteD,
        <<Local("iload", 0), To("ifeq", 5), [op |-> "iconst", n |-> 1], To("goto", 6),
          [op |-> "iconst", n |-> 200], I("i2b"), I("ireturn")>>),
    Plain2(<<BooleanD>>, IntD,
        <<Local("iload", 0), To("ifne", 5), [op |-> "iconst", n |-> 1], To("goto", 6),
          [op |-> "iconst", n |-> 200], I("ireturn")>>),
    \* arrays
    Plain2(<<ArrayOfA>>, ObjectDescriptor,
        <<Local("aload", 0), Invoke("invokevirtual", CloneOf(ArrayOfA)), I("areturn")>>),
    Plain2(<<>>, A,
        <<[op |-> "iconst", n |-> 1], [op |-> "newarray", element |-> A],
          [op |-> "iconst", n |-> 0], I("aaload"), I("areturn")>>),
    \* a static field that only the class initializer assigns
    Plain2(<<>>, A, <<[op |-> "getstatic", member |-> Field], I("areturn")>>),
    \* an instanceof test of a copy, negated, and one whose value was overwritten
    Plain2(<<ObjectDescriptor>>, ObjectDescriptor,
        <<Local("aload", 0), Local("astore", 1), Local("aload", 1),
          Typed("instanceof", Exact("A")), To("ifne", 8), I("aconst_null"), I("areturn"),
          Local("aload", 0), I("areturn")>>),
    Plain2(<<ObjectDescriptor, ObjectDescriptor>>, ObjectDescriptor,
        <<Local("aload", 0), Typed("instanceof", Exact("A")), Local("aload", 1),
          Local("astore", 0), To("ifeq", 8), Local("aload", 0), I("areturn"),
          I("aconst_null"), I("areturn")>>),
    Plain2(<<ObjectDescriptor, ObjectDescriptor>>, ObjectDescriptor,
        <<Local("aload", 0), Local("aload", 1), I("swap"), I("dup_x1"), I("pop"),
          I("pop"), I("areturn")>>),
    \* a slot reused at another type, a loop over an integer, a switch
    Plain2(<<ObjectDescriptor>>, ObjectDescriptor,
        <<Local("aload", 0), To("ifnull", 6), [op |-> "iconst", n |-> 1],
          Local("istore", 1), To("goto", 8), Local("aload", 0), Local("astore", 1),
          Local("aload", 0), I("areturn")>>),
    Plain2(<<BooleanD>>, IntD,
        <<Local("iinc", 0), Local("iload", 0), To("ifne", 1), Local("iload", 0), I("ireturn")>>),
    Plain2(<<BooleanD>>, IntD,
        <<Local("iinc", 0), Local("iload", 0), Local("iinc", 0), I("pop"), Local("iload", 0),
          I("ireturn")>>),
    Plain2(<<IntD, ObjectDescriptor>>, ObjectDescriptor,
        <<Local("iload", 0), [op |-> "lookupswitch", targets |-> <<5, 3>>],
          I("aconst_null"), I("areturn"), Local("aload", 1), I("areturn")>>),
    \* a subroutine called from two places
    Plain2(<<ObjectDescriptor>>, ObjectDescriptor,
        <<To("jsr", 7), Local("aload", 0), To("ifnonnull", 5), To("jsr", 7),
          Local("aload", 0), I("areturn"), Local("astore", 1), NewOf("A")[1], I("dup"),
          NewOf("A")[3], Local("astore", 0), Local("ret", 1)>>),
    \* handlers of several types around one call, and a throw out of a handler
    Body(<<ObjectDescriptor>>, 2,
        <<Static(Foo), I("areturn"), Local("astore", 1), Local("aload", 1), I("areturn"),
          Local("astore", 1), Local("aload", 1), I("athrow")>>,
        <<[from |-> 1, to |-> 2, at |-> 3, catchType |-> ExceptionClass],
          [from |-> 1, to |-> 4, at |-> 6, catchType |-> NoCatchType]>>, ObjectDescriptor),
    \* a constructor, a method without code, one that returns nothing
    [Body(<<>>, 1, <<Local("aload", 0), Invoke("invokespecial", Constructor(MCObject)),
                     Local("aload", 0), I("areturn")>>, <<>>, ObjectDescriptor)
        EXCEPT !.owner = "A", !.constructor = TRUE, !.static = FALSE],
    Body(<<>>, 0, <<>>, <<>>, ObjectDescriptor),
    Body(<<>>, 1, <<Static(Foo), To("ifnull", 1), I("return")>>, <<>>, Void) }

(* Loops that only a limit stops or that a small limit cuts short: the     *)
(* stack of the first grows with every turn.                               *)
Limited == {
    Body(<<ObjectDescriptor>>, 1,
        <<Local("aload", 0), Local("aload", 0), To("ifnull", 1), I("areturn")>>, <<>>,
        ObjectDescriptor),
    Body(<<ObjectDescriptor>>, 2,
        <<I("aconst_null"), Local("astore", 1), Local("aload", 1), To("ifnonnull", 8),
          Local("aload", 0), Local("astore", 1), To("goto", 3), Local("aload", 1), I("areturn")>>,
        <<>>, ObjectDescriptor)}

MCMethods == {WithGraph(m) : m \in Generated \cup Handwritten \cup Limited}
(* No method is longer, and constructors are of A.                         *)
MCValues ==
    RunValues([owner |-> "A", constructor |-> TRUE, maxLocals |-> 3,
               code |-> [n \in 1..18 |-> I("nop")]])
LimitedMethods == {WithGraph(m) : m \in Limited}
MCConfigs ==
    {[unbounded |-> TRUE, maxWorkItems |-> 0, maxBlockIterations |-> 0],
     [unbounded |-> FALSE, maxWorkItems |-> 6, maxBlockIterations |-> 6],
     [unbounded |-> FALSE, maxWorkItems |-> 6, maxBlockIterations |-> 1]}

-----------------------------------------------------------------------------
(* The states of the blocks are merged in the order of a hash map: all the *)
(* orders of a few blocks, two of many.                                    *)
MCOrders(S) ==
    IF Cardinality(S) <= 3 THEN SetToSeqs(S)
    ELSE {SetToSortSeq(S, <), SetToSortSeq(S, >)}

Init == WholeInit /\ (config.unbounded <=> method \notin LimitedMethods)
Spec == Init /\ [][WholeNext]_wholeVars

-----------------------------------------------------------------------------
(* The loop as a state machine and the loop as a value agree, diagnostics  *)
(* and completeness included, so what ClassSummaries uses is this loop.    *)
SolverComputesSolveFrames ==
    ~running /\ machine = NoMachine =>
        \E solved \in {SolveFrames(method, MCEnv, config)} :
            /\ incoming = solved.incoming
            /\ analysisComplete = solved.complete
            /\ diagnostics = solved.diagnostics
=============================================================================
