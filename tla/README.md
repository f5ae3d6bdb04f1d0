# A TLA+ model of Ferro-JType

Ferro-JType infers the types of the locals and of the operand stack of Java
bytecode. It reads a class file, builds a control-flow graph per method, runs an
abstract interpreter over the graph to a fixed point, and repeats that over the
methods of a class (and the classes of a batch) until what it knows of their
return values stops changing. This directory models that computation from the
code in `src/src`, checks it with TLC on small instances and proves with TLAPS, for
every instance, the three fixed-point loops, the merge of frames, the tables a caller
fills, and, from one end to the other, that what the analysis of a method's bytecode
ends with is true of all the method's runs, those included that call methods analyzed
with it.

Paths below are relative to `src/src` of the crate.

## 1. Inventory

The library is sequential: no threads, no I/O after the input is read. What is
hard in it is order. Three nested worklists (the blocks of a method, the methods
of a class, the classes of a batch) revisit work whose inputs changed, limits cut
them at any point, and facts found at one moment (a branch operand is null, two
slots hold one value, a callee returns its argument) are used at another. An error
in any of these gives a wrong type, not a crash. Around them, files that may be
torn or malformed are rewritten and indexed, and must be taken wholly or not at
all.

| component | source | state it keeps | operations | what makes it correct |
|---|---|---|---|---|
| type lattice | `types/inference.rs`, `types/integral.rs` | none | join of types and of references, merge of locals | a merge describes both sides; repeated merges settle |
| class hierarchy | `hierarchy.rs` | table class -> parents | nearest common supertype, insert a class | the superclass found is above both, and the least one in a tree |
| reference libraries | `hierarchy/jar.rs` | the same table, classes collected aside, one buffer | insert all classes of a jar | all or nothing, the last definition of a name |
| frame | `solver/frame.rs` | locals, stack, and for each slot an origin, an instanceof fact, return targets | load, store, push, pop, merge, refine, initialize, exception frame | equal origins mean equal values |
| transfer | `solver/transfer/` | the frame it is given | one instruction | the frame after describes the values after |
| control-flow graph | `cfg/` | blocks and edges | build | every way the JVM goes is an edge |
| method engine | `solver/engine/mod.rs`, `propagate.rs` | incoming frames, worklist, counters, diagnostics | visit a block, propagate, merge, requeue, stop | a complete result is stationary and describes every run |
| observation | `solver/engine/observe.rs` | none | final frames, return type, returned parameter, local types | conclusions hold of every return |
| class-local summaries | `solver/class/summaries.rs` | summaries, returned parameters, field summaries, worklist, analyses | analyze a method, requeue callers and readers, stop, collect | what is published is a fixed point |
| static fields | `solver/fields.rs` | field summaries | learn from `<clinit>`, look up | a read is described |
| call resolution | `solver/class/resolution.rs`, `summary.rs` | nested maps of summaries | insert, remove and look up summaries; which call has one possible callee, who calls whom | the maps act as one; no overridable call is summarized; no use escapes the requeueing |
| batch | `solver/class/batch.rs` | summaries and returned parameters by class and method, worklist, analyses | analyze a class, requeue the classes that call it, stop, collect, refuse in strict mode | as for class-local summaries |
| results | `result.rs` | none | clear what an incomplete analysis concluded | nothing unjustified is published |
| configuration, entry points | `api.rs` | limits, mode, resolvers; the classes of a batch | builder, infer one class or several | no two classes of one name, the order of the input |
| class-file reading | `ir/classfile/` | a position in the bytes | read the constant pool, cut out a header, copy without verification frames, collect hints | what is kept is what was there; a torn file is refused |
| lowering | `ir/lower.rs`, `ir/model.rs` | none | sanitize, parse, fall back, attach hints | frames have no influence; a method gets its own hints |
| names, descriptors, signatures | `types/descriptor.rs`, `types/class_name.rs`, `types/generic.rs` | none | parse | nothing of a text is lost; every text of the grammar is accepted |

How they interact: `api.rs` has every file lowered (`parse_and_lower`, from a copy
without StackMapTable or, when that fails, from the file itself), then calls the
class loop (`analyze_class_with_method_summaries`) or, for several classes, the
batch loop around it, whose tables a class sees through a resolver. Before that the
caller may have filled a hierarchy and tables of summaries. The class loop calls `analyze_method` for one method at a time with
resolvers that read the tables of the loop. `analyze_method` builds the graph
and runs its own worklist; each visit calls `transfer` per instruction, and
transfer calls the resolvers back at each call and static read. The result flows
up: return type and returned parameter into the tables, and from there to the
callers that are requeued.

`PROJECT.json` lists the hazards of each part at their lines.

## 2. Modules

```
InferredTypes <- Frames <- Resolution <- Transfer <- Cfg <- MethodAnalysis <- ClassAnalysis
                   ^                                              ^               ^
                   |                                              |          BatchAnalysis
                   +---- JvmValues <- MergePoint                  |
                             ^                                    |
                             +------------------------------------+-- JvmExecution <- MethodRuns
                                                                                          ^
                                                    MethodSoundness (uses MethodSolver) --+
                                                                            ProgramRuns --+
MethodSolver (blocks)    ClassSummaries (methods)    BatchSummaries (classes)
  MCMethodSolver    MCClassSummaries    MCBatchSummaries    abstract graphs of blocks or calls
  MethodSoundness   MCClassSoundness    MCBatchSoundness    real bytecode, programs of MCBytecode,
  MCMethodSoundness                                         the last two run by ProgramRuns
                                        MCBatchStrict
MergePoint <- MCMergePoint

HierarchyTable  <~ ReferenceLibraries      (<~ is implemented by)
SummaryTable    <~ MethodSummaries
ClassFile <- Inferer <- MCInferer (files of MCClassFiles)
Descriptors <- GenericSignatures <- MCSignatures
  MCInputs    ReferenceLibraries, MethodSummaries, MCInferer or MCSignatures

proofs: WorklistLemmas <- MethodSolver_proofs, ClassSummaries_proofs, BatchSummaries_proofs
        MethodRuns_proofs <- MethodSoundness_proofs (uses MethodSolver_proofs)
        ReferenceLibraries_proofs, MethodSummaries_proofs
```

The three loops are state machines with one action per step of the loop. What a
visit computes is a constant operator of theirs, so that the proofs hold for any
computation, and two instances of each are checked: a small abstract one in which
every graph is enumerated, and one in which the operator is the bytecode analysis.

* **InferredTypes** (`types/inference.rs`, `integral.rs`, `hierarchy.rs`,
  descriptor matching of `summary.rs`). A type is a record with a kind. The
  sorted list of alternatives is a set; where the code folds over the sorted
  list, the model folds in `ReferenceOrder`, a constant that lists the references
  of the instance in the order of `compare_references`. `NearestShared` is the
  ordering of `common_supertype` (the farther distance, then the sum, then the
  name).
* **Frames** (`solver/frame.rs`). The eight parallel vectors of `Frame` are two
  sequences of slots. `MergeFrame` keeps the locals of the longer side, skips the
  existing locals beyond the incoming ones, and turns stacks of unequal height
  into conflicts, as `merge_from` does. The entry frame is as long as its last
  parameter needs, whatever `max_locals`, for `Frame::entry` resizes its vectors at
  each parameter.
* **MergePoint** (`merge_frame` of `propagate.rs`): one block into which frames are
  merged in any order. A world pairs the hierarchy that the caller supplied with the
  supertypes that are true of the classes; `RightIn` says that the first lies about
  nothing, though it may leave things out.
* **Resolution** (`summary.rs`, `class/resolution.rs`, the resolvers of
  `class/summaries.rs` and `class/batch.rs`, `fields.rs`). The chain: supplied by
  the caller, then the batch, then the class, with the conditions of each.
* **Transfer** (`solver/transfer/`). A method is a sequence of instruction
  records whose offset is its index. `StackEffect` gives what an instruction pops
  and pushes; `Transfer` applies it, and handles the instructions that change
  locals. Opcodes of one arm of the match are represented by one or two of them
  (`iadd` and `idiv` for the int operators: one throws and one does not). Operands
  that do not parse are the values `Unresolved` and `None`.
* **Cfg** (`cfg/build.rs`, `graph.rs`). A block is named by its first offset.
  `WithGraph` attaches the graph to a method record, so that TLC builds it once.
* **MethodAnalysis** (`engine/propagate.rs`, `observe.rs`, the body of
  `analyze_method`). `BlockPropagations` lists what a visit sends, in the order of
  the code: per throwing instruction the frame before it to each handler, then the
  ordinary successors whose edge is feasible, then subroutine returns.
* **MethodSolver** (`engine/mod.rs`, `Worklist`, `merge_frame`). Variables are the
  locals of `analyze_method`. A visit is a pop (`VisitBlock`, `SkipBlock` or
  `StopAtWorkItemLimit`) followed by one `PropagateFrame` per frame sent, so that
  the merges of a block that sends to itself are seen one at a time. The
  propagations of a visit are computed from the state it popped, as the code
  computes them from a clone of `incoming[&block_id]`.
* **ClassSummaries** (`class/summaries.rs`, `fields.rs`, `result.rs`). One
  analysis is one step (it reads tables that only this loop writes); every requeue
  is a step. The order in which changed fields are requeued is a hash map's and
  left open. `Methods` are indices, and summaries are kept per method, which is
  what the tables keyed by name and descriptor are for a class without duplicates.
* **ClassAnalysis** (`class/resolution.rs`, `fields.rs`): who calls and reads whom
  in bytecode, and the analysis of a method with the resolvers of the loop. Its
  `SolveFrames` is the loop of `analyze_method` as a value, `AnalyzeMethod` what it returns.
* **BatchSummaries** (`class/batch.rs`, `result.rs`). The analysis of one class is
  one step; so is each requeue. It differs from the class loop where the code does:
  a strict run fails inside a class as well as at the end, changes are told in the
  order of the methods of the class, the class itself may be requeued, and what it
  is told never includes itself.
* **BatchAnalysis** (`class/batch.rs`, `class/resolution.rs`, `class/summaries.rs`):
  who calls whom across classes, the resolver of a batch, and the loop of
  `ClassSummaries` as a value, so that one class of a batch is analyzed in a step.
* **ReferenceLibraries** (`hierarchy.rs`, `hierarchy/jar.rs`): one step per entry of
  an archive, with the classes collected aside and the buffer as variables; any
  question mark of the code is `GiveUp`. **HierarchyTable** has the files and what is
  promised of them: a table that changes by one class or by one whole archive.
* **MethodSummaries** (`summary.rs`): the map of maps of maps; **SummaryTable** is
  the one map over whole references that it promises.
* **ClassFile** (`reader.rs`, `sanitize.rs`, `local_variables.rs` of `ir/classfile/`). A class
  file is a sequence of cells. A number is one cell whatever its width, so that a
  length counts cells and every position of the reader is one of the model; what
  width costs (big-endian bytes) is left out, what it bounds is kept where it
  matters (the end of a variable's range is a 16-bit sum). A reader that has failed
  stays at `Torn`. Constants, members and attributes are read recursively, in the
  order of the code, and the copy is built from what was read.
* **Inferer** (`api.rs`, `ir/lower.rs`): the files of a batch one after the other.
  The disassembler is external: it may refuse any bytes, always the same, and what
  it makes of them is a function of them. A class lowered from the original file is
  marked (`ParserRecovery` in the code).
* **Descriptors**, **GenericSignatures** (`types/`): the two recursive-descent
  parsers, an operator per function, over texts of cells. Punctuation and tags are cells,
  and so is a name. `Then` is the question mark of the code.
* **JvmValues** is external: the values of the Java virtual machine and which of them a
  type, or a slot with the return targets of an address, describes; and, over the
  constant `Values`, when a slot stands for all that another does.
* **JvmExecution** is external: the machine whose runs the analysis describes. It
  models the instructions of `Transfer` on values with identities, stops at
  ill-typed operands (`stuck`: such code would not pass the verifier), lets calls
  return anything their declaration allows (or what a summary says, when that is
  given as true), and throws whatever it may throw.
* **MethodRuns** puts that machine beside frames that are `Closed`: what the transfer of
  an instruction sends along a feasible edge, to a handler or back from a subroutine is
  covered by the frame there, the entry frame is covered at the entry, nothing is reported,
  and an origin that an instruction gives is not in the frame before it. `Verified` has the
  few things that the analysis does not look at and a verifier does. The runs' properties
  are stated here.
* **ProgramRuns** puts several methods and their frames side by side. The machine of
  `MethodRuns` is the activation that is running; the ones that called it are a stack of
  suspended activations (`calls`). A call of a method of the program (`Linked`) enters it
  with the arguments on the caller's stack (`Enter`), or is answered by an overriding
  method outside with anything of the declared type (`Override`), or throws; outside code
  may start any method at any time, in the midst of another too (`OutsideCall`), as class
  initializers and callbacks do. `Leave` gives the result back. `Agrees` says where the
  loops end: what the resolvers tell of a method of the program is what its own frames
  say, or nothing, and nothing is taken to be final that may be overridden.
* **MethodSoundness** composes `MethodRuns` with the loop: `MethodSolver` on the blocks, propagations and
  merges of bytecode (`Analyze`), and, once the loop has ended complete and without a
  diagnostic (`Concluding`), the machine beside the frames it ended with (`Start`, `Run`).
  Nothing is assumed of those frames. A method that `Verified` refuses is not started.
  `Start` also merges the types of the locals (`localTypes`), with the states of the blocks
  in one of the orders that the constant `Orders` allows for a hash map.

## 3. Runs

| run | states | shows |
|---|---|---|
| `method_solver` | 66,494 | the worklist loop on every graph of 3 blocks with at most 2 edges each (1 + 13^3 methods), one edge feasible only later, in 3 configurations |
| `method_soundness` | 294,952 | about 1,470 methods analyzed on bytecode, then executed: frames describe runs |
| `merge_point` | 232,914 | any 3 of 16 frames (12 types; addresses of two subroutines; other shapes) arriving at a block in any order, under every acyclic hierarchy of 3 classes (multiple parents included) and under none |
| `class_summaries` | 10,374 | the class loop on every call graph of 3 methods with 0 to 2 calls each, 2 fields, 3 configurations |
| `class_soundness` | 36,811 | 264 classes (pairs of method bodies with an initializer) analyzed on bytecode and executed with calls |
| `batch_summaries` | 5,159 | the batch loop on every call graph of 3 classes with 4 methods, 0 to 2 calls each, 3 configurations |
| `batch_soundness` | 45,280 | pairs of classes that call each other, both loops on bytecode, then executed |
| `inputs` | 50,149 | archives of up to 3 of 8 entries added one after the other; nested maps of up to 3 summaries; 1,566 batches of class files, with attributes in every order, cut off or spoiled at every place; 4,632 descriptors and signatures, well formed or with one cell wrong |
| `class_oscillation` | - | a violation, see section 6 |
| `static_fields` | - | a violation, see section 6 |
| `batch_strict` | - | a violation, see section 6 |
| `signatures` | - | a violation, see section 6 |

What the properties say:

* `method_solver`: `NothingLost` (a reached block that is not queued has had
  everything received that its state sends), `CompleteIsClosed` (a complete result
  is closed under every propagation of every reached block), `WorklistConsistent`,
  `StatesGrow` (no step takes anything from a state), `Termination`.
* `method_soundness`: `FramesDescribeRuns` (each value of each run is described by
  the type inferred for its slot at its instruction, and every instruction run was
  reached), `OriginsIdentify` (references of one origin are one object, and the
  origin of a parameter means the argument), `ReturnsDescribed`,
  `ReturnedParameterIsArgument`, `LocalTypesDescribe` (for several orders of the
  hash map of states), `FramesAreClosed` (a complete loop without a diagnostic ends with
  frames that are `Closed`, which is what the theorems about runs take of
  them), `SolverComputesSolveFrames` (the state machine and the value
  used by the class loop agree). The claims are for methods whose analysis is
  complete and without diagnostics, and runs that a verifier would accept.
* `merge_point`: `ArrivalsDescribed` (whatever a frame that arrived describes is
  described by the merged one, slot by slot, for locals with and without origin and for
  the stack; an address still returns to where it may; an origin or an instanceof test
  of the merged slot is that of the arrival), `TreeJoinIsLeast` (where the hierarchy is a
  tree and complete, an operand that is of a class on every way is of their least common
  superclass, at whatever height of the stack and in whatever order), `MergesSettle`.
* `class_summaries`: `NoStaleAnalysis` (an analysis that present knowledge would
  change is due to be repeated), `PublishedAreJustified` (published summaries are
  reproduced by the analysis under the published summaries), `EveryMethodAnalyzed`
  (the `expect` of the collection holds), `WorklistConsistent`, `Termination`.
* `class_soundness`: `FramesDescribeRuns` and `ReturnsDescribed` across calls, recursion,
  overriding and a static field that only the initializer assigns; `SummariesMeetFrames` (where the loop ends, the frames
  of each method are `Closed` and `Verified` under what is said of the others, and `Agrees`
  holds: this is where the theorems about programs start); `PublishedAreJustified` for the real caller and reader scans.
* `batch_summaries`: `NoStaleClass`, `PublishedAreJustified`, `EveryClassAnalyzed`,
  `WorklistConsistent` and `Termination`, which say of classes what the properties of
  `class_summaries` say of methods. The analysis of this instance removes summaries
  as well as finding them, and may report a diagnostic in a first analysis that a
  second does not repeat.
* `batch_soundness`: `SummariesMeetFrames`, `ReturnsDescribed` and
  `ReturnedParameterIsArgument` across classes, with a method that a subclass outside the
  batch overrides, final classes and methods, and fresh receivers; `PublishedAreJustified` says that the two nested
  loops reach one fixed point: each method, analyzed once more with what is published
  of its own class and of the others, is what is published of it.
* `inputs`, the tables: two refinements. `AddsWholeArchives`: the loop over entries
  implements `HierarchyTable`, in which an archive is added in one step or refused.
  `SummariesActAsOneTable`: the nested maps implement `SummaryTable`; the property is
  about the inner maps that a removal must drop, which `is_empty` relies on.
* `inputs`, the class files: `FramesCannotMatter` (a class file with StackMapTables anywhere among the
  attributes of its Code is lowered from the very bytes of the file written without
  them, with the hints of its own tables, so nothing depends on them),
  `StrippingKeepsTheRest` (of any file that stripping accepts, spoiled or not, the copy
  is accepted, left alone, and gives the same hints), `HeadersStandAlone` (the header cut
  out of a file, torn behind it or not, is a class file that names the same class,
  superclass and interfaces).
* `inputs`, the texts: `ParsingIsFaithful`. What the grammars write is parsed as written
  (signatures with omitted class bounds apart, see section 6); of any text that is
  accepted, well formed or not, the value written again is the text, but for empty lists
  of arguments; and on texts without generics the parser of descriptors and that of
  signatures, two pieces of code, agree.

Bounds and why they are enough. Three blocks hold a loop with an exit, a self
loop, a diamond, an irreducible loop and unreachable blocks; three arrivals are
what the non-associative joins need; the limits of the configurations (3 work
items, 1 visit per block) cut loops of that size in the middle. Two statements and
an end from a language with null tests, instanceof tests, casts, allocations,
copies, calls that return their argument and jumps give loops, merges and dead
edges over two locals; a list of methods adds what the language cannot say (wide
parameters, arrays, integers, handlers, constructors, subroutines, switches,
virtual calls). Three methods hold every shape of mutual recursion with a
bystander. In `class_soundness` the machine makes one call from outside after the
initializer, with at most 3 activations (`MaxDepth`, `MaxCalls`); the theorems about
programs have any number of calls from outside, at any point of a run. Counters of
unbounded configurations, which nothing reads, stay 0.

Three classes, one of them with two methods, hold a class that is requeued by two
others, one that calls itself, and one that waits for its first turn while others are
requeued; a budget of 1 or 2 ends the loop in the middle. In `batch_soundness` two
classes of two methods each call across and within, to a depth of 4 activations
(`MaxDepth`), so that a relation between parameter and result passes through a chain.
An archive of 3 entries (`MaxEntries`) can fail after a class, and have two definitions
of one class in either order; 3 summaries (`MaxSummaries`) over two owners, names and
descriptors are one more than a removal needs to leave a neighbour in each map. The
class files have a pool with a constant of two indices, up to 3 nested attributes per
method, and up to two methods, of one name too; every cell of three of them is raised,
lowered and set to 0, and every prefix of them is tried. Signatures have up to two formal
parameters with up to two bounds, arguments of every kind and up to two nested classes;
one text of each kind is tried with every cell left out, replaced or put in. Arrays have
255 dimensions, the most that fit in the code's eight bits, and 256.

Deadlock is not checked (`CHECK_DEADLOCK FALSE`) because all of these programs end; that they do is the property `Termination`, or, for runs of the
machine, their end or the bound on the calls.

Fairness. `WF_vars(Next)` in the three loops: a sequential loop takes its next step.
In `MCClassSoundness` (run `class_oscillation`) the fairness is stated over `tick`, a variable that flips with
every step of the analysis: `WF_tick(Tick)` with `Tick == outcome is running or
collecting /\ tick' = ~tick`. It says the same, that the analysis goes on until it
ends, and its ENABLED can be evaluated without running the analysis again.
`MergesSettle` needs no fairness: it says that changes are finitely many.

## 4. Proofs

`MethodSolver_proofs`, `ClassSummaries_proofs` and `BatchSummaries_proofs` prove, for
all values of the constants that satisfy the assumptions, every safety property of the
runs `method_solver`, `class_summaries` and `batch_summaries`, the action property
`StatesGrow`, and `LimitsAreReported` (a result is incomplete exactly when a limit was
reported), which no run repeats. `WorklistLemmas` has the facts about queues without
repetition that all three use. `MethodRuns_proofs` proves `ArrivalsDescribed`, that the
merges of the code are as the method loop wants them, that closed frames describe
every run of a method, and that frames closed under their own summaries describe every run
of a program (`FramesDescribeRuns`, `OriginsIdentify`, `ReturnsDescribed` and
`ReturnedParameterIsArgument`, of which `class_soundness` and `batch_soundness` check
those that calls bear upon). `MethodSoundness_proofs` proves of bytecode, analyzed and then run, what
`method_soundness` checks: `FramesAreClosed`, `FramesDescribeRuns`, `OriginsIdentify`,
`ReturnsDescribed` and `ReturnedParameterIsArgument`. `ReferenceLibraries_proofs` proves
the refinement `AddsWholeArchives`, and `MethodSummaries_proofs` the refinement of the
nested maps but for `len`.

The argument about a method has four parts, each for every method, class world and
hierarchy that is right: a merge describes what was merged (*Merges*); a loop over any
states and merges that do so ends with states that cover all that is sent (*Method loop*);
closed frames describe every run (*Runs*); and the bytecode transfer is such a loop, with
the frames inside its blocks closed (*Analysis of bytecode*). A fifth goes from closed
frames of one method to those of several that call each other (*Programs*).

**Method loop.** Assumptions: `GraphAssumption` (propagations go to blocks and
carry states; the transfer does not report the limit diagnostic itself),
`MergeAssumption` (a merge covers both of its sides, covering is reflexive and
transitive, and a merge keeps the shape that tells a mismatch), `ConfigAssumption`. The
first is what `build_cfg` and the transfer promise, the second what the lattice does: both
are proved of the code's (`LoopGraph` and `LoopMerge`, below), with the values described
as the meaning of covering.

* `TypeInv` is `TypeOK /\ WorklistConsistent`; it is inductive, and gives
  `TypeCorrect` and `WorklistAlwaysConsistent`.
* `StatesAlwaysGrow`: under `TypeInv` each step satisfies `GrowStep`, since only
  `PropagateFrame` writes a state, and writes a merge.
* `CompleteIsClosed` is not inductive. `ClosureInv` adds `NothingLost`,
  `EntryReceived` and `Drained` (an ended loop that is complete has an empty queue
  and nothing to send). The step: what was received stays received because states
  grow (`ReceivedStays`); a visit takes a block off the queue and at once owes all
  its sends (`VisitLosesNothing`); a merge pays one of them, and requeues the
  target when its state changed, so that what the target sends is owed anew
  (`PropagationLosesNothing`); a limit gives up completeness. `CompleteAlwaysClosed`
  follows for an empty queue.

**Class loop.** Assumptions: `ClassAssumption`, `AnalysisAssumption` (types),
`UsesAssumption` (an analysis depends only on the methods whose caller list it is
in and the fields whose reader list it is in), `ConfigAssumption`,
`NoneAssumption`. `UsesAssumption` is what the scans of `resolution.rs` and
`fields.rs` must achieve; `class_soundness` checks its consequence on bytecode.

* `EndInv` is `TypeInv` with `EveryMethodAnalyzed` and `Ended` (an ended loop owes
  no requeue, and a complete one has an empty queue). No method without an analysis
  waits behind one with (a part of `WorklistConsistent`), so the budget, which counts
  only second analyses, can stop the loop only after every first
  (`EveryMethodAlwaysAnalyzed`).
* `StaleInv` is `TypeInv /\ NoStaleAnalysis`: a step changes the tables only for
  the method it analyzes; a user of the change is in `pending` or a reader of a
  changed field, and waits until queued (`StillWaits`); for anyone else the
  environment it uses is the same (`UnchangedForOthers`). It gives `NeverStale`.
* `Recorded` (tables hold the last analyses) with both gives
  `PublishedAlwaysJustified`: at the end nobody waits, so every analysis is what
  present knowledge gives, and present knowledge is what is published.

**Batch loop.** The assumptions are those of the class loop, over classes:
`UsesAssumption` says that the analysis of a class depends only on the methods of other
classes whose caller list it is in, which `batch_soundness` checks on bytecode by its
consequence. The invariant has the same parts: `TypeInv` is `TypeOK`,
`WorklistConsistent` and `AllTold` (a loop that is over owes no requeue); `EndInv` adds
`EveryClassAnalyzed` and `Ended` (a complete one has an empty queue); `Recorded` says
that the tables hold the last analyses, class by class. `NoStaleClass` is inductive with the type invariant: when class c is analyzed
its summaries change only at its own methods, whoever calls one of them waits in
`changed` or `pending` until queued, and for anyone else `Used` is the same environment.
The rejection of a class in strict mode leaves the loop with a class off the queue and
without an analysis, which is why the parts speak of outcomes other than `strictError`.

**Merges.** Assumptions: `ReferenceOrderAssumption` (the references of the instance, any
number of them, each once, `java/lang/Object` among them), `WorldAssumption` (a parent
that the hierarchy names is a supertype in truth; supertypes are transitive; arrays have
none but their three), `ArrivalsAssumption` (frames have types over those references).
The hierarchy may be empty, partial or have several parents per class.

* A search that goes level by level finds supertypes only (`AncestorsAreSupertypes`) and
  gives each a distance; among the shared ones there is a nearest (`NearestIsShared`:
  least farther distance, least sum, least name). So a common supertype is above both
  (`CommonSupertypeIsAbove`), and the join of two references stands for both
  (`JoinReferenceCovers`).
* `CommonReference` is a fold in name order: after n references the result is None, or
  stands for those seen (`CommonReferenceCovers`). From there case by case:
  `JoinReferencesCovers`, `JoinCovers`, `JoinLocalCovers`, which also say that conflict
  is never left and that an address comes only of addresses. The last is needed in
  `MergeSlotCovers`: targets are known only if they are those of all sides.
* `MergeFrameCovers` for whole frames, with the cases of unequal length and height; with
  reflexivity and transitivity of `CoversFrame` it gives the invariant `TypeOK /\
  ArrivalsDescribed`, hence `MergesAreFrames` and `ArrivalsAlwaysDescribed`, and
  `MergesFitTheLoop`.
* `TreeJoinsAreLeast`, where the hierarchy is complete and a tree (`Tree`). There a level
  of the search adds at most one class, so the ancestors of a class are on one line and of
  two the farther is above the nearer (`AncestorsAreOnOneLine`). The nearest shared one is
  no farther than any other on one of the sides, hence below them all, and its supertypes
  are exactly those that the two classes share (`TreeCommonSupertype`). The fold over two
  references is their join in one order or the other (`CommonReferenceOfTwo`), and neither
  order changes those supertypes (`JoinOfClasses`). The invariant needs `HeightOfSome`
  besides: the merged stack is as high as one that arrived, so when all that arrived are of
  one height, no merge before was one of unequal stacks. Further assumption:
  `NoClassAssumption` (the empty name, by which the model says that there is no common
  supertype, is not the name of a class).
* The induction over levels and over the fold is the well-foundedness of the numbers,
  with a set in place of a predicate (`LeastNumber`, `InductionUpTo`); that the functions
  which the code's loops became exist is `Iteration`.

**Runs.** One method, any number of classes, arrays, integers, locals and instructions,
any objects. Assumptions: `ClassesAssumption` (the hierarchy is right in the sense of
`RightIn`; 0 and 1 are integers of the machine; array types are well formed),
`MethodsAssumption` (operands are of their instruction's kind; no debug information
narrows integers), `CalleesAreAsTold` and `FieldsAreAsTold` (what the resolvers tell of a
call or a static field is true of what it yields; the first is quantified over all
arguments that fit and all receivers that the call may have). TLC evaluates all four for
the methods of `method_soundness`. That the frames are `Closed` and `Verified` is the
initial condition of `RunSpec`; that those of an analysis are closed is shown below.

* The invariant `RunInv` says of the machine beside its frame (`FrameFits`): the stacks
  have one height, and the pairs of a slot and its value are `Sound`. That is, each value
  is typed by its slot (`Typed`); it is what the origin of the slot says (`OriginFits`: the
  argument, an object of the class allocated there, an integer for `iinc`); two pairs of
  one origin have one value, integers apart; and if the slot holds the nonzero result of
  an `instanceof`, then every value of the tested origin is an instance (`Justified`).
  Types alone are not inductive: a constructor call and a passed test change the types of
  slots all over the frame, and only the identity of their values makes that right.
* How pairs stay sound is proved once: those derived from pairs before (`DerivedIsSound`)
  and one with an origin that is new (`AddedIsSound`; this is where `OriginsAreNew`
  is needed), and for frames that cover others (`AdmittedIsSound`). An instruction that pops
  and pushes is then an instance of `SpliceFits`, a store of `StoreFits`, and an edge of
  `TakesEdge`.
* Then a lemma per kind of instruction: loads, stores, `iinc`, stack shuffles, casts and
  tests (`CastsRun`, `TestsRun`), branches with pruning by nullness and refinement by tests
  (`NullTestsRun`, `IntegerTestsRun`, `RefinedFits`), subroutines, allocation, arrays
  (`ReferenceElementCovers` is an induction over the join of the alternatives' elements),
  constructors (`RemadeIsSound`: every copy becomes the object at once), calls
  (`CallResults`: what a summary or a returned parameter may be used for, by resolution),
  returns and throws (`ThrowsRun`). `NormalRuns` and `StepsRun` put them together;
  `EntryFits` is the start, where parameters meet their slots behind wide ones and the
  receiver (`ParameterSlotsIncrease`).
* `InferredCovers` is the induction over the join of the returns, `ReturnedIsArgument`
  follows from the origin on top of the stack, since one slot alone has a parameter.

**Programs.** The frames of a method are closed under summaries of the methods it calls,
and those were concluded from frames closed under its own: a circle. `ProgramSpec` runs
any set of such methods on one stack of activations, of any depth (`MaxDepth` is a
constant without an assumption), with recursion, overriding methods and calls from
outside at any point. Its initial condition is the end of the loops: all frames `Closed`
and `Verified`, and `Agrees` (each resolver says of a method of the program what the
method's own frames say, or nothing; what it takes to be final is not overridden).
`SummariesMeetFrames` checks it where the loops end on bytecode, with the environments
that the resolvers then give; in the theorems `Env` is a constant, which `ProgramInit`
ties to the frames. Further assumptions: `ProgramsAssumption` (a program is of `Methods`,
its parameters and results have declared types, and the calls that the machine of
`MethodRuns` leaves alone are those of its methods), `IdentitiesAssumption` (what
identities an object may have is the same in every method).

* `ProgramInv`: the activation that runs and every suspended one fits the frames of its
  method (`ActivationFits`), and one that awaits another is at a call of it, and the other
  started with the arguments and the receiver that are still on the caller's stack
  (`SuspendedFits`, `CallersFit`). The last part is what a returned parameter needs: that
  the callee returns its argument says something of the caller's stack only because the
  argument was taken from there.
* A call starts the method in one of the states it may start in (`CalledState`): an argument
  that a declared type describes is one of the values of that type in the other method as
  well (`DescribedAreValues`).
* What a method of the program returned is as its caller was told (`ReturnedIsTold`): the
  summary is the type inferred of its frames, which describes the result
  (`InferredDescribes`), and the index is that of a parameter whose argument came back
  (`ReturnedFromSlot`). Of a call that an overriding method may answer nothing is told
  (`OverridesAreNotTold`): it has no exact receiver, so by `FinalsAgree` it is
  deterministic for no resolver.
* The result then fits the frame behind the call as a result from outside does
  (`AnsweredRuns`, from the lemmas for calls in *Runs*), so no circle is left: the induction
  is over the steps of the run, and each return relies on the callee's activation alone.

**Analysis of bytecode.** Further assumptions: `LimitsAssumption`, `LiteralsAssumption`
(the types named by operands, descriptors, handlers and summaries are types of the
instance), `GraphsAssumption` (a method's graph is what `build_cfg` makes of it),
`OrdersAssumption` (a hash map lists only its keys). TLC evaluates them for the methods of
`method_soundness`.

* Graph: the blocks are disjoint, a block goes on where the one before it ended, every
  target in the code starts a block, and the edges of a block are those of its last
  instruction, or of its throwing instructions into the handlers around them
  (`BlockParts`, `TargetsStartBlocks`, `SuccessorParts`, `ExceptionParts`). `Picked` and the
  joining of sequences are recursive functions; `JoinedSeq` and `PickedSeq` are inductions
  with a set in place of a predicate.
* Transfer: a frame whose origins are in a set O goes to one whose origins are in O or
  given by the instruction (`TransferIn`, one kind of instruction at a time). With all
  origins as O this is type correctness, so propagations are frames: `LoopGraph`. With
  `MergesFitTheLoop` for `LoopMerge`, the theorems of the loop hold (`Loop!ClosureInv`).
* The invariant `OriginsApart`: the state at a reached block has no origin that an
  instruction of that block gives (`Apart`), and while a block is not reached no state and
  nothing under way has an origin from it. It holds because a new origin can come only
  from a visit to its block, so the first frame to reach the block is without it, and a
  merge keeps an origin only when both sides have it. This is what keeps an allocation or
  a store in a loop from confusing the values of two turns.
* `EndedIsClosed`: a loop that ended complete and without a diagnostic has frames (the
  states and what the transfer makes of them inside the blocks, `Observed`) that are
  closed. Within a block the next frame is the one passed on; at its end, at a throwing
  instruction and at a `ret` what the visit sent was received (`EdgesEnd`, `HandlersEnd`,
  `ReturnsEnd`); no diagnostic means no underflow and no height mismatch; `OriginsEnd` is
  `OriginsApart` carried inside the block.
* `WholeInv` puts these together with `RunInv`, which the machine starts in
  (`EntryRuns`) and keeps. `EndsClosed`, `AnalyzedRunsAreDescribed`,
  `AnalyzedOriginsIdentify`, `InferredReturnsAreRight` and `InferredParametersAreRight`
  follow.
* Local types: a join describes what both sides do, so by induction over the rows the
  merged types cover every row, those of the instructions among them
  (`MergedTypesCover`, `ObservedRows`), in whatever order the states come. `WholeInv` keeps
  that as `TypesCover`, and with `RunInv` it gives `LocalTypesAreRight`.
  `CatchRefinementIsIdle` shows that what follows the merge, `refine_catch_local_types`,
  changes nothing.

**Archives.** `CollectedInv`: the classes collected aside are the table of the entries
dealt with, none of which fails. It is inductive because an entry that is no class adds
nothing to that table (`SkippedEntry`) and one that is replaces an earlier one of its
name (`ReadClass`). With it, every way to give up is the refusal of the abstract table,
which keeps what it had, and `Commit` is its insertion of the whole archive; the other
steps change nothing it shows. Assumptions: `JarAssumption`, `NoJarAssumption`.

**Summaries.** `NoEmptyMap`: every inner map has an entry. An insertion and a removal
change the types of one owner and name (`TypesInserted`, `TypesRemoved`), so the map
over whole references changes at one of them; with `NoEmptyMap` the outermost map is
empty exactly when that map is (`EmptyWhenNoEntry`). `ActsAsOneTableStepwise` states
this for every call but `len`, whose sum over a set is recursive.

Only model-checked: termination and all liveness (`MergesSettle` too; beyond this
prover), `len`; that the loops over methods and classes end, on
bytecode, where frames and summaries agree (`SummariesMeetFrames`, and
`PublishedAreJustified` of `class_soundness` and `batch_soundness`, which the proofs of the
loops give for any analysis), because there the method loop is a value, defined by
recursion; static fields that a program assigns (`class_soundness` keeps the real field,
the theorems take what is told of a field as true, `FieldsAreAsTold`); the agreement of the
two forms of the method loop, what is kept of a file, and the parsers, which rest on
recursive definitions. The type invariants `TypeOK` of the class and
batch loops are proved (`TypeCorrect`) and no run repeats them.

## 5. Notes on the code

* `refine_catch_local_types` never changes a type (`CatchRefinementIsIdle`). It looks for a
  slot that is the unknown reference although every state and observation leaves it empty
  or types it as something caught. But without a hierarchy two classes join to
  alternatives, and a join is unknown only if a side is (`types/inference.rs:157`).
* Two lists say which opcodes may throw (`cfg/build.rs:316`, `propagate.rs:12`);
  they name the same opcodes, so the model has one, `MayThrow`.
* Joins are not associative: the references of a merge are joined in name order up
  to the first pair that has no common superclass, so three arrivals can end in one
  class or in alternatives depending on their order. `collect_local_types` folds over
  `HashMap::values`, so two runs on one class can report different local types; all
  of them describe the locals (`LocalTypesAreRight`).
* A hierarchy given by the caller may be cyclic, and then merges can come back to a
  type they left; `MergesSettle` is for acyclic ones, which class files have.
* Code whose stack grows with every turn of a loop never reaches a fixed point in
  the unbounded mode: unequal heights merge to the greater. The JVM rejects such
  code. The bounded mode reports a limit (`Limited` in `MCMethodSoundness`).
* When the copy without StackMapTable cannot be made or parsed, the original file is
  parsed with its frames; the class then carries a ParserRecovery warning
  (`lower.rs:23-44`). `FramesCannotMatter` is about classes without it, and says that
  whole files never need it unless the disassembler refuses the copy.
* A StackMapTable attribute of a method, outside its Code, stays in the copy; the JVM
  gives it no meaning.
* Of two methods of one name and descriptor both get the hints of the later one that
  has any (`local_variables.rs:66`); the JVM rejects such a class.
* `parse_field_type` accepts lists of no arguments (`Lp/C<>;`), primitive type arguments
  and any characters in the name of a variable, which the grammar does not have; nothing
  is lost of them but the empty list.
* The two parsers differ on arrays of 256 dimensions: a descriptor has at most 255
  (`descriptor.rs:249`), a signature any number.
* All `iinc` of a slot share one origin. Integers are neither refined nor returned
  by that origin, so `OriginsIdentify` is about references.

## 6. Where code and documents disagree

* `class_oscillation`: the default configuration "runs every analyzed method to a
  fixed point without an iteration budget" (`api.rs:12-13`), class-local summaries
  included (`api.rs:175-178`). For
  `f(p) { x = g(p); if (x == null) throw x; return null; }` and `g(p) { return f(p); }`
  there is none. With no summary, g returns its declared type and f may return
  null; then g returns null, no return of f is reached, f loses its summary, and
  g has its declared type again. A method without a reached return is treated by its
  callers like one that may return anything, which makes the loop non-monotone.
* `static_fields`: "the inferred value type observed at reachable value-return
  instructions", of a method that "consistently returns a narrower one"
  (`result.rs:212-215`). A static field is summarized by what `<clinit>` assigns,
  whoever else assigns it; a method that returns it can be reported to return null
  and return an object.
* `batch_strict`: "Diagnostics are returned in `ClassInference::diagnostics`. In strict
  mode, the first warning or error is reported as `Error::StrictAnalysis` instead"
  (`diagnostic.rs:88-90`). In a batch, strict mode also fails on what is never
  returned. The first class is analyzed before anything is known of the second; what
  that analysis reports ends a strict batch at once (`batch.rs:47`), while a lenient one
  replaces the analysis by another (`batch.rs:50`). With two block visits per method,
  `f(p) { x = P.g(p); return x == null ? null : x; }` exceeds the limit only until it
  is known that `P.g` returns null.

* `signatures`, an error in the code: "Parses a class generic signature" and "Parses a
  method generic signature" (`generic.rs:48`, `generic.rs:68`). A formal parameter that is
  bounded by interfaces only, as in `<T::Ljava/lang/Comparable<TT;>;>Ljava/lang/Object;`,
  has an empty class bound. `formals` tests for it before it takes the colon, where the
  next byte is always one (`generic.rs:210`), and then wants a type after every colon, so
  such signatures, which compilers write, are refused. Inference does not read them; a
  caller of `parse_class` or `parse_method` gets `None`.

## 7. Not modelled

* The operands of instructions, the choice of signature attributes and bootstrap kinds in
  `lower.rs`: translations of one datum into another, before the analysis. Where the
  analysis is modelled a descriptor is a record, and a hint has the types that its
  descriptor stands for (`IntegralTypesOf`). The offsets and kinds of descriptor errors.
* The disassembler and the ZIP decoder: libraries, modelled by how they are used.
* The builder of `api.rs` and its check that limits are not zero: the configurations of
  the models have limits of at least 1.
* The operand expectations of `observe.rs` (a table per opcode), accessors, and the
  positions, severities and texts of diagnostics; their kinds are kept. Strict mode lets
  notes pass, and the library makes none.
* `FieldSummaries`: `MethodSummaries` without the removal.
* `ldc` of a resolved constant is an instruction with a type.

## 8. Plan

Done, in this order: the lattice and frames, transfer and graph, the method loop with
its proofs, the class loop with its proofs, both on bytecode; the batch loop with its
proofs and on bytecode; the tables a caller fills, as refinements with their proofs;
the reading of class files and the fallback of `parse_and_lower`; the parsers of
descriptors and signatures; the proofs that merges cover what they merge and are least in
a tree, that closed
frames describe every run of a method, and that the analysis of a method ends with such
frames, that the local types merged from them describe the locals, and that methods which
call each other may be analyzed with each other's summaries.

What could follow:

1. The step from the class loop to the programs of `ProgramRuns`: `PublishedAreJustified`
   with the analysis of `MethodSoundness` in place of any analysis gives the initial
   condition of `ProgramSpec`. It needs the method loop as a relation in the class loop,
   where it now is a value.
2. A refinement of `Frames` to the parallel vectors of `Frame` (their lengths agree
   over any sequence of operations).
3. An abstract specification of the fixed-point loops (a chaotic iteration over
   equations) that the three loops implement, with the step simulation proved.
4. The operand expectations of `observe.rs` against what the verifier asks of each
   opcode.
