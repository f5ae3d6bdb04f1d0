--------------------------- MODULE MethodAnalysis ---------------------------
(***************************************************************************)
(* What analyze_method computes from a method body: what one visit to a    *)
(* block propagates (solver/engine/mod.rs, solver/engine/propagate.rs) and *)
(* what is read off the frames at the end (solver/engine/observe.rs).      *)
(*                                                                         *)
(* env is the environment of module Resolution with one more field,        *)
(* hierarchy, the caller's class hierarchy; methods carry their graph.     *)
(* The loop is in modules MethodSolver, as a state machine, and            *)
(* ClassAnalysis, as a value.                                              *)
(***************************************************************************)
EXTENDS Cfg

(* How other methods name the method.                                      *)
MethodKey(method) ==
    [owner |-> method.owner, name |-> method.name,
     descriptor |-> [params |-> method.params, ret |-> method.ret]]

(* The frame before each instruction of block b, and after its last one.   *)
FramesIn(method, b, frame, env) ==
    LET after == method.graph[b].last + 1
        frames[at \in b..after] ==
            IF at = b THEN frame ELSE Transfer(method, at - 1, frames[at - 1], env)
    IN  frames

-----------------------------------------------------------------------------
(* Facts a conditional branch leaves on its edges.                         *)

KnownNullness(type) ==
    CASE type = Null -> "null"
      [] type.k \in {"uninitialized", "uninitializedThis"} -> "nonnull"
      [] OTHER -> "unknown"

(* Mutation: the two edges of ifnull and ifnonnull swapped.                *)
SwappedFeasible(op, kind, operand) ==
    op \in {"ifnull", "ifnonnull"} /\ KnownNullness(operand.type) # "unknown" =>
        ((kind = "branch") <=> ((op = "ifnull") <=> KnownNullness(operand.type) # "null"))

(* Of a nullness test of a value that is known to be null, or known not to *)
(* be, one edge alone is feasible.                                         *)
EdgeIsFeasible(op, kind, operand) ==
    op \in {"ifnull", "ifnonnull"} /\ KnownNullness(operand.type) # "unknown" =>
        ((kind = "branch") <=> ((op = "ifnull") <=> KnownNullness(operand.type) = "null"))

(* The edge on which an instanceof test was passed.                        *)
InstanceofTrueEdge(op, kind) ==
    <<op, kind>> \in {<<"ifeq", "fallThrough">>, <<"ifne", "branch">>}

(* What goes along an edge: after a passed test, with what it tells.       *)
EdgeFrame(op, kind, operand, after) ==
    IF operand.fact # None /\ InstanceofTrueEdge(op, kind)
    THEN RefineOrigin(after, operand.fact) ELSE after

-----------------------------------------------------------------------------
(* What a visit sends.                                                     *)

Send(target, frame) == [target |-> target, frame |-> frame]

(* A subroutine returns to every recorded address that is an instruction.  *)
ReturnAddresses(method, b, frames) ==
    LET i == method.code[method.graph[b].last]
    IN  IF i.op = "ret" THEN LocalSlot(frames[method.graph[b].last], i.local).targets
        ELSE Targets({})

(* A handler gets the locals from before the instruction that throws.      *)
ExceptionSends(method, b, frames) ==
    LET exceptions == method.graph[b].exceptions
    IN  [n \in DOMAIN exceptions |->
            Send(exceptions[n].target,
                 ExceptionFrame(frames[exceptions[n].at], exceptions[n].catchType))]

SuccessorSends(method, b, frames) ==
    LET last == method.graph[b].last
        op == method.code[last].op
        operand == Top(frames[last])
        successors == method.graph[b].successors
        feasible == Picked(successors, {n \in DOMAIN successors :
                               EdgeIsFeasible(op, successors[n].kind, operand)})
    IN  [n \in DOMAIN feasible |->
            Send(feasible[n].target, EdgeFrame(op, feasible[n].kind, operand, frames[last + 1]))]

ReturnSends(method, b, frames) ==
    LET known == ReturnAddresses(method, b, frames).at \cap DOMAIN method.graph
        sorted == Picked([at \in DOMAIN method.code |-> at], known)
    IN  [n \in DOMAIN sorted |-> Send(sorted[n], frames[method.graph[b].last + 1])]

SendsOf(method, b, frames) ==
    ExceptionSends(method, b, frames) \o SuccessorSends(method, b, frames)
        \o ReturnSends(method, b, frames)

BlockPropagations(method, b, frame, env) ==
    SendsOf(method, b, FramesIn(method, b, frame, env))

(* The diagnostic kinds a visit reports, beside those of its merges.       *)
ReportsOf(method, b, frames, env) ==
    LET last == method.graph[b].last
        returns == ReturnAddresses(method, b, frames)
    IN  (UNION {TransferDiagnostics(method, at, frames[at], env) : at \in b..last})
        \cup (IF \E at \in b..last : Len(frames[at + 1].stack) > method.maxStack
              THEN {"StackHeightMismatch"} ELSE {})
        \cup (IF ~returns.known \/ returns.at \ DOMAIN method.graph # {}
              THEN {"InvalidControlFlow"} ELSE {})

BlockReports(method, b, frame, env) ==
    ReportsOf(method, b, FramesIn(method, b, frame, env), env)

-----------------------------------------------------------------------------
(* observe_final_frames: the frame before every instruction reached.       *)
Observations(method, incoming, env) ==
    LET reached == {b \in DOMAIN method.graph : b \in DOMAIN incoming}
        within(at) == CHOOSE b \in reached : b <= at /\ at <= method.graph[b].last
        covered == UNION {b..method.graph[b].last : b \in reached}
        frames == [b \in reached |-> FramesIn(method, b, incoming[b], env)]
    IN  [at \in covered |-> frames[within(at)][at]]

ReturnOffsets(method) == {at \in DOMAIN method.code : method.code[at].op \in ValueReturnOps}

ReturnOpFits(op, d) ==
    CASE op = "ireturn" -> d.d \in SmallIntegrals
      [] op = "lreturn" -> d.d = "long"
      [] op = "freturn" -> d.d = "float"
      [] op = "dreturn" -> d.d = "double"
      [] op = "areturn" -> d.d \in {"class", "array"}

ReturnValueFits(op, t) ==
    CASE op = "ireturn" -> IsIntegral(t)
      [] op = "lreturn" -> t = Long
      [] op = "freturn" -> t = Float
      [] op = "dreturn" -> t = Double
      [] op = "areturn" -> HasReferenceCandidates(t)

JoinReturned(acc, type, h) == IF acc = None THEN type ELSE JoinLocal(acc, type, h)

(* collect_inferred_return_type: the join of what the reached returns      *)
(* have on top; none for a void method or an ill-typed return.             *)
InferredReturn(method, before, h) ==
    LET op(at) == method.code[at].op
        type(at) == Top(before[at]).type
        reached == {at \in ReturnOffsets(method) :
                       at \in DOMAIN before /\ before[at].stack # <<>>}
        joined[at \in 0..Len(method.code)] ==
            IF at = 0 THEN None
            ELSE IF at \in reached THEN JoinReturned(joined[at - 1], type(at), h)
            ELSE joined[at - 1]
    IN  IF \/ method.ret = Void
           \/ \E at \in ReturnOffsets(method) : ~ReturnOpFits(op(at), method.ret)
           \/ \E at \in reached : ~ReturnValueFits(op(at), type(at))
        THEN None
        ELSE joined[Len(method.code)]

(* Mutation: some return gives the parameter back, not every one.          *)
SometimesReturnedParameter(method, before) ==
    LET reached == {at \in ReturnOffsets(method) : at \in DOMAIN before}
        origins == {Top(before[at]).origin : at \in reached}
        entries == {o \in origins : o.k = "entry"}
    IN  IF entries # {}
        THEN ParameterAtSlot(method, (CHOOSE o \in entries : TRUE).slot)
        ELSE NoParameter

(* collect_returned_parameter_index: every reached return gives back one   *)
(* and the same parameter, as it came in.                                  *)
ReturnedParameter(method, before) ==
    LET reached == {at \in ReturnOffsets(method) : at \in DOMAIN before}
        origins == {Top(before[at]).origin : at \in reached}
    IN  IF \E o \in origins : origins = {o} /\ o.k = "entry"
        THEN ParameterAtSlot(method, (CHOOSE o \in origins : TRUE).slot)
        ELSE NoParameter

-----------------------------------------------------------------------------
(* Mutation: the later type of a slot replaces the earlier one.            *)
LatestTypes(a, b) ==
    [n \in 1..(IF Len(a) < Len(b) THEN Len(b) ELSE Len(a)) |->
        IF n > Len(b) THEN a[n] ELSE b[n]]

(* merge_locals: slot by slot, up to the longer of the two.                *)
MergeTypes(a, b) ==
    [n \in 1..(IF Len(a) < Len(b) THEN Len(b) ELSE Len(a)) |->
        IF n > Len(b) THEN a[n]
        ELSE JoinLocal(IF n > Len(a) THEN Bottom ELSE a[n], b[n], NoHierarchy)]

MergedTypes(first, rows) ==
    LET merged[n \in 0..Len(rows)] ==
            IF n = 0 THEN first ELSE MergeTypes(merged[n - 1], rows[n])
    IN  merged[Len(rows)]

TypesOf(slots) == [n \in DOMAIN slots |-> slots[n].type]

ObservedLocals(method, before) ==
    LET offsets == Picked([at \in DOMAIN method.code |-> at], DOMAIN before)
    IN  [n \in DOMAIN offsets |-> LocalTypesAt(before[offsets[n]], method.hints, offsets[n])]

(* refine_catch_local_types: a slot that handlers of several catch types   *)
(* store to, and that holds nothing else, is typed Throwable if the merge  *)
(* left it unknown.                                                        *)
RefineCatchLocals(method, locals, rows) ==
    LET stores(h, slot) == /\ h.at \in Offsets(method)
                           /\ method.code[h.at].op = "astore"
                           /\ method.code[h.at].local = slot
        caught(slot) == {IF h.catchType = NoCatchType THEN Throwable ELSE h.catchType :
                            h \in {x \in Range(method.handlers) : stores(x, slot)}}
        values(slot) == {row[slot + 1] : row \in {r \in Range(rows) : slot < Len(r)}}
        fits(slot) == /\ values(slot) \subseteq {Bottom} \cup {Exact(c) : c \in caught(slot)}
                      /\ values(slot) \ {Bottom} # {}
    IN  [n \in DOMAIN locals |->
            IF Cardinality(caught(n - 1)) > 1 /\ locals[n] = Unknown /\ fits(n - 1)
            THEN Exact(Throwable) ELSE locals[n]]

(* collect_local_types: one type per slot for the whole method, from the   *)
(* entry, the states of the blocks in the given order and the frames of    *)
(* the instructions.                                                       *)
LocalTypes(method, incoming, order, before) ==
    LET rows == [n \in DOMAIN order |-> TypesOf(incoming[order[n]].locals)]
                    \o ObservedLocals(method, before)
    IN  RefineCatchLocals(method,
                             MergedTypes(TypesOf(EntryFrame(method).locals), rows), rows)

-----------------------------------------------------------------------------
(* Static fields that <clinit> assigns: the join, at each putstatic of a   *)
(* field of the class, of the values that fit the field.                   *)
IsClassInitializer(method) == method.name = "<clinit>"

AssignedFields(method, before, h) ==
    LET fits(at) == /\ method.code[at].op = "putstatic"
                    /\ method.code[at].member.owner = method.owner
                    /\ at \in DOMAIN before /\ before[at].stack # <<>>
                    /\ ValueMatchesDescriptor(method.code[at].member.descriptor,
                                              Top(before[at]).type)
        puts == SelectSeq([at \in DOMAIN method.code |-> at], fits)
        into(key) == SelectSeq(puts, LAMBDA at : method.code[at].member = key)
        types(key) == [n \in DOMAIN into(key) |-> Top(before[into(key)[n]]).type]
        joined(key) == FoldLeft(LAMBDA a, b : Join(a, b, h), types(key)[1], Tail(types(key)))
    IN  [key \in {method.code[at].member : at \in Range(puts)} |-> joined(key)]

(* What the class-level analysis takes from analyze_method.                *)
Concluded(method, env, solved, before) ==
    LET ret == IF solved.complete /\ method.code # <<>>
               THEN InferredReturn(method, before, env.hierarchy) ELSE None
    IN  [ret |-> ret,
         param |-> IF ret = None THEN NoParameter ELSE ReturnedParameter(method, before),
         puts |-> IF IsClassInitializer(method) /\ solved.complete
                  THEN AssignedFields(method, before, env.hierarchy) ELSE <<>>,
         complete |-> solved.complete,
         diagnostics |-> solved.diagnostics]
=============================================================================
