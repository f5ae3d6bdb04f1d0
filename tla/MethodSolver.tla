---------------------------- MODULE MethodSolver ----------------------------
(***************************************************************************)
(* The worklist loop of analyze_method (solver/engine/mod.rs) and the      *)
(* Worklist and merge_frame it runs on (solver/engine/propagate.rs).       *)
(*                                                                         *)
(* What a visit to a block sends where is a parameter: module              *)
(* MethodAnalysis gives it the bytecode transfer.  One visit is a pop and  *)
(* then one step per frame sent, in the order of the code, so the merges   *)
(* into a block that sends to itself are seen one at a time.               *)
(***************************************************************************)
EXTENDS Integers, Sequences

CONSTANTS
    Methods,               \* the methods one of which is analyzed
    Configs,               \* [unbounded, maxWorkItems, maxBlockIterations]
    Frames,                \* the abstract states
    Blocks(_),             \* the blocks of a method's graph
    EntryBlock(_),         \* graph.entry, when there are blocks at all
    EntryState(_),         \* Frame::entry
    Propagations(_, _, _), \* the frames one visit to a block sends, in order
    Reports(_, _, _),      \* the diagnostic kinds the visit itself reports
    Merge(_, _),           \* Frame::merge_from
    Mismatch(_, _),        \* its stack_height_mismatch
    Covers(_, _)           \* the first state stands for all the second does

ASSUME GraphAssumption ==
    \A m \in Methods :
        /\ Blocks(m) # {} => EntryBlock(m) \in Blocks(m)
        /\ EntryState(m) \in Frames
        /\ \A b \in Blocks(m), f \in Frames :
              /\ Propagations(m, b, f) \in Seq([target : Blocks(m), frame : Frames])
              /\ "AnalysisLimitReached" \notin Reports(m, b, f)

ASSUME MergeAssumption ==
    /\ \A a, b \in Frames : Merge(a, b) \in Frames
    /\ \A a, b \in Frames : Covers(Merge(a, b), a) /\ Covers(Merge(a, b), b)
    /\ \A a \in Frames : Covers(a, a)
    /\ \A a, b, c \in Frames : Covers(a, b) /\ Covers(b, c) => Covers(a, c)
    /\ \A a \in Frames : ~Mismatch(a, a)
    /\ \A a, b, c \in Frames :
          ~Mismatch(a, b) => (Mismatch(Merge(a, b), c) <=> Mismatch(a, c))

ASSUME ConfigAssumption ==
    \A c \in Configs : /\ c.unbounded \in BOOLEAN
                       /\ c.maxWorkItems \in Nat
                       /\ c.maxBlockIterations \in Nat

VARIABLES
    method, config,     \* what is analyzed, chosen at the start
    incoming,           \* block -> the state at its start, for the blocks reached
    queue, queued,      \* the worklist and the set of its members
    visits,             \* block -> pops so far
    totalWorkItems,     \* pops so far
    analysisComplete,
    diagnostics,        \* the kinds reported
    current,            \* the block being visited
    outgoing, sent,     \* what the visit sends, and how much of it is merged
    running             \* the loop has not ended

vars == <<method, config, incoming, queue, queued, visits, totalWorkItems,
          analysisComplete, diagnostics, current, outgoing, sent, running>>

-----------------------------------------------------------------------------
(* Mutation: the early return for a method without code is missing.        *)
AlwaysEntryBlock == {EntryBlock(method)}

(* The blocks queued at first: none for a method without code, whose       *)
(* analysis returns before the loop.                                       *)
EntryBlocks == IF Blocks(method) = {} THEN {} ELSE {EntryBlock(method)}

Init ==
    /\ method \in Methods
    /\ config \in Configs
    /\ queue = IF EntryBlocks = {} THEN <<>> ELSE <<EntryBlock(method)>>
    /\ queued = EntryBlocks
    /\ incoming = [b \in queued |-> EntryState(method)]
    /\ visits = [b \in Blocks(method) |-> 0]
    /\ totalWorkItems = 0
    /\ analysisComplete = TRUE
    /\ diagnostics = {}
    /\ current = EntryBlock(method)
    /\ outgoing = <<>>
    /\ sent = 0
    /\ running = TRUE

Idle == running /\ sent = Len(outgoing)

(* Nothing reads the counters of an unbounded analysis; they stay 0 here,  *)
(* which keeps its states finite.                                          *)
Counted(n) == IF config.unbounded THEN n ELSE n + 1

(* Worklist::pop, and the counters the loop head advances for it.          *)
Pop ==
    /\ Idle
    /\ queue # <<>>
    /\ queue' = Tail(queue)
    /\ queued' = queued \ {Head(queue)}
    /\ totalWorkItems' = Counted(totalWorkItems)

WorkItemsExceeded == ~config.unbounded /\ totalWorkItems' > config.maxWorkItems

CountVisit == visits' = [visits EXCEPT ![Head(queue)] = Counted(@)]

BlockIterationsExceeded ==
    ~config.unbounded /\ visits'[Head(queue)] > config.maxBlockIterations

(* The work-item budget is spent: the loop ends with blocks unvisited.     *)
StopAtWorkItemLimit ==
    /\ Pop
    /\ WorkItemsExceeded
    /\ analysisComplete' = FALSE
    /\ diagnostics' = diagnostics \cup {"AnalysisLimitReached"}
    /\ running' = FALSE
    /\ UNCHANGED <<method, config, incoming, visits, current, outgoing, sent>>

(* Mutation: the visit is dropped and the result still claims completeness. *)
SkipBlockSilently ==
    /\ Pop
    /\ ~WorkItemsExceeded
    /\ CountVisit
    /\ BlockIterationsExceeded
    /\ diagnostics' = diagnostics \cup {"AnalysisLimitReached"}
    /\ UNCHANGED <<method, config, incoming, analysisComplete, current, outgoing,
                   sent, running>>

(* The block's own budget is spent: this visit is dropped, others go on.   *)
SkipBlock ==
    /\ Pop
    /\ ~WorkItemsExceeded
    /\ CountVisit
    /\ BlockIterationsExceeded
    /\ analysisComplete' = FALSE
    /\ diagnostics' = diagnostics \cup {"AnalysisLimitReached"}
    /\ UNCHANGED <<method, config, incoming, current, outgoing, sent, running>>

(* The block is run from a copy of its state.                              *)
VisitBlock ==
    /\ Pop
    /\ ~WorkItemsExceeded
    /\ CountVisit
    /\ ~BlockIterationsExceeded
    /\ current' = Head(queue)
    /\ outgoing' = Propagations(method, current', incoming[current'])
    /\ sent' = 0
    /\ diagnostics' = diagnostics \cup Reports(method, current', incoming[current'])
    /\ UNCHANGED <<method, config, incoming, analysisComplete, running>>

-----------------------------------------------------------------------------
(* Mutation: a block is queued again while it is queued.                   *)
EnqueueAgain(block) ==
    /\ queue' = Append(queue, block)
    /\ queued' = queued \cup {block}

(* Worklist::enqueue.                                                      *)
Enqueue(block) ==
    /\ queue' = IF block \in queued THEN queue ELSE Append(queue, block)
    /\ queued' = queued \cup {block}

(* Mutation: every merge counts as a change.                               *)
NeverUnchanged(target, merged) == FALSE

Unchanged(target, merged) == target \in DOMAIN incoming /\ merged = incoming[target]

(* Mutation: the last state to arrive replaces the ones before it.         *)
Overwritten(target, frame) == frame

Merged(target, frame) ==
    IF target \in DOMAIN incoming THEN Merge(incoming[target], frame) ELSE frame

(* merge_frame: the first state to reach a block is its state, a later one *)
(* is merged into it, and the block is queued when that changed anything.  *)
PropagateFrame ==
    /\ running
    /\ sent < Len(outgoing)
    /\ LET target == outgoing[sent + 1].target
           frame == outgoing[sent + 1].frame
           merged == Merged(target, frame)
           known == target \in DOMAIN incoming
       IN  /\ incoming' = [b \in DOMAIN incoming \cup {target} |->
                              IF b = target THEN merged ELSE incoming[b]]
           /\ diagnostics' = IF known /\ Mismatch(incoming[target], frame)
                             THEN diagnostics \cup {"StackHeightMismatch"}
                             ELSE diagnostics
           /\ IF Unchanged(target, merged)
              THEN UNCHANGED <<queue, queued>>
              ELSE Enqueue(target)
    /\ sent' = sent + 1
    /\ UNCHANGED <<method, config, visits, totalWorkItems, analysisComplete,
                   current, outgoing, running>>

(* Mutation: the loop may end at a work-item limit without saying so.      *)
FinishEarly ==
    /\ Idle
    /\ queue = <<>> \/ (~config.unbounded /\ totalWorkItems = config.maxWorkItems)
    /\ running' = FALSE
    /\ UNCHANGED <<method, config, incoming, queue, queued, visits, totalWorkItems,
                   analysisComplete, diagnostics, current, outgoing, sent>>

Finish ==
    /\ Idle
    /\ queue = <<>>
    /\ running' = FALSE
    /\ UNCHANGED <<method, config, incoming, queue, queued, visits, totalWorkItems,
                   analysisComplete, diagnostics, current, outgoing, sent>>

Next == StopAtWorkItemLimit \/ SkipBlock \/ VisitBlock \/ PropagateFrame \/ Finish

Spec == Init /\ [][Next]_vars
(* One thread runs the loop and nothing blocks it: it keeps taking steps.  *)
FairSpec == Spec /\ WF_vars(Next)

-----------------------------------------------------------------------------
(* Every variable has its type: in particular a state is kept only for a   *)
(* block of the graph, and the loop body indexes nothing else.             *)
TypeOK ==
    /\ method \in Methods
    /\ config \in Configs
    /\ DOMAIN incoming \subseteq Blocks(method)
    /\ incoming \in [DOMAIN incoming -> Frames]
    /\ queue \in Seq(Blocks(method))
    /\ queued \subseteq Blocks(method)
    /\ visits \in [Blocks(method) -> Nat]
    /\ totalWorkItems \in Nat
    /\ analysisComplete \in BOOLEAN
    /\ running \in BOOLEAN
    /\ outgoing \in Seq([target : Blocks(method), frame : Frames])
    /\ sent \in 0..Len(outgoing)

(* The deque and the set of Worklist agree, no block waits twice, and      *)
(* every waiting block has the state that analyze_method reads for it      *)
(* (incoming[&block_id], which would panic otherwise).                     *)
WorklistConsistent ==
    /\ \A i, j \in DOMAIN queue : queue[i] = queue[j] => i = j
    /\ queued = {queue[i] : i \in DOMAIN queue}
    /\ queued \subseteq DOMAIN incoming

(* Stands for what was sent, at the same height unless that was reported.  *)
Received(target, frame) ==
    /\ target \in DOMAIN incoming
    /\ Covers(incoming[target], frame)
    /\ "StackHeightMismatch" \notin diagnostics => ~Mismatch(incoming[target], frame)

AllReceived(sends) ==
    \A n \in DOMAIN sends : Received(sends[n].target, sends[n].frame)

(* Between the steps of the loop, a reached block that does not wait has   *)
(* had everything reported of its state and everything received that it    *)
(* sends, except for what the visit in progress still has to send: no      *)
(* change of a state goes unnoticed.                                       *)
NothingLost ==
    analysisComplete =>
        \A b \in DOMAIN incoming \ queued :
            LET sends == Propagations(method, b, incoming[b])
            IN  /\ Reports(method, b, incoming[b]) \subseteq diagnostics
                /\ IF b = current
                   THEN /\ outgoing = sends
                        /\ \A n \in 1..sent : Received(sends[n].target, sends[n].frame)
                   ELSE AllReceived(sends)

(* When the loop ends and claims completeness, the states are closed under *)
(* every propagation of every reached block, the entry included, and all   *)
(* that is wrong in them was reported: what "runs to a fixed point" means  *)
(* for observe_final_frames, which reads them all, and for everything      *)
(* inferred from it.                                                       *)
CompleteIsClosed ==
    ~running /\ analysisComplete =>
        /\ Blocks(method) # {} => Received(EntryBlock(method), EntryState(method))
        /\ \A b \in DOMAIN incoming :
              /\ Reports(method, b, incoming[b]) \subseteq diagnostics
              /\ AllReceived(Propagations(method, b, incoming[b]))

(* No step takes away or weakens the state of a block: merge_frame only    *)
(* ever moves up, so what a caller reads at the end covers what it was.    *)
StatesGrow ==
    [][\A b \in DOMAIN incoming :
          b \in DOMAIN incoming' /\ Covers(incoming'[b], incoming[b])]_vars

(* The analysis is incomplete exactly when a limit was reported as an      *)
(* error, which is what makes a strict run fail rather than return it.     *)
LimitsAreReported ==
    analysisComplete <=> "AnalysisLimitReached" \notin diagnostics

(* Where no state can grow forever, the loop ends.                         *)
Termination == <>~running
=============================================================================
