------------------------ MODULE MethodSolver_proofs ------------------------
(***************************************************************************)
(* What the worklist loop guarantees for every method, every transfer      *)
(* function and every merge that is an upper bound.                        *)
(***************************************************************************)
EXTENDS MethodSolver, WorklistLemmas

-----------------------------------------------------------------------------
(* Every state the loop reaches is well typed and its worklist consistent. *)
TypeInv == TypeOK /\ WorklistConsistent

LEMMA PopTyped ==
    ASSUME TypeInv, Pop
    PROVE  /\ queue' \in Seq(Blocks(method))
           /\ Head(queue) \in queued /\ Head(queue) \in DOMAIN incoming
           /\ queued' \subseteq queued
           /\ totalWorkItems' \in Nat
           /\ \A i, j \in DOMAIN queue' : queue'[i] = queue'[j] => i = j
           /\ queued' = {queue'[i] : i \in DOMAIN queue'}
  <1>1. /\ queue \in Seq(Blocks(method)) /\ queue # <<>>
        /\ queue' = Tail(queue)
        /\ queued' = queued \ {Head(queue)}
        /\ totalWorkItems' = Counted(totalWorkItems)
    BY DEF TypeInv, TypeOK, Pop
  <1>2. /\ \A i, j \in DOMAIN queue : queue[i] = queue[j] => i = j
        /\ queued = {queue[i] : i \in DOMAIN queue}
        /\ queued \subseteq DOMAIN incoming
    BY DEF TypeInv, WorklistConsistent
  <1>3. /\ Tail(queue) \in Seq(Blocks(method))
        /\ \A i, j \in DOMAIN Tail(queue) : Tail(queue)[i] = Tail(queue)[j] => i = j
        /\ {Tail(queue)[i] : i \in DOMAIN Tail(queue)}
              = {queue[i] : i \in DOMAIN queue} \ {Head(queue)}
    BY <1>1, <1>2, TailOfDistinct
  <1>4. Head(queue) \in {queue[i] : i \in DOMAIN queue}
    <2>1. 1 \in DOMAIN queue /\ Head(queue) = queue[1]
      BY <1>1
    <2> QED BY <2>1
  <1>5. totalWorkItems' \in Nat
    BY <1>1 DEF TypeInv, TypeOK, Counted
  <1> QED BY <1>1, <1>2, <1>3, <1>4, <1>5

LEMMA EnqueueTyped ==
    ASSUME TypeInv, NEW b \in Blocks(method), Enqueue(b)
    PROVE  /\ queue' \in Seq(Blocks(method))
           /\ queued' = queued \cup {b}
           /\ \A i, j \in DOMAIN queue' : queue'[i] = queue'[j] => i = j
           /\ queued' = {queue'[i] : i \in DOMAIN queue'}
  <1>1. /\ queue \in Seq(Blocks(method))
        /\ \A i, j \in DOMAIN queue : queue[i] = queue[j] => i = j
        /\ queued = {queue[i] : i \in DOMAIN queue}
    BY DEF TypeInv, TypeOK, WorklistConsistent
  <1>2. CASE b \in queued
    BY <1>1, <1>2 DEF Enqueue
  <1>3. CASE b \notin queued
    <2>1. queue' = Append(queue, b) /\ queued' = queued \cup {b}
      BY <1>3 DEF Enqueue
    <2>2. /\ Append(queue, b) \in Seq(Blocks(method))
          /\ \A i, j \in DOMAIN Append(queue, b) :
                Append(queue, b)[i] = Append(queue, b)[j] => i = j
          /\ {Append(queue, b)[i] : i \in DOMAIN Append(queue, b)}
                = {queue[i] : i \in DOMAIN queue} \cup {b}
      BY <1>1, <1>3, AppendToDistinct
    <2> QED BY <1>1, <2>1, <2>2
  <1> QED BY <1>2, <1>3

(* The state and the sending of the frame that PropagateFrame merges next. *)
LEMMA NextSendTyped ==
    ASSUME TypeInv, sent < Len(outgoing)
    PROVE  /\ sent + 1 \in DOMAIN outgoing
           /\ outgoing[sent + 1].target \in Blocks(method)
           /\ outgoing[sent + 1].frame \in Frames
           /\ sent + 1 \in 0..Len(outgoing)
  <1>1. /\ outgoing \in Seq([target : Blocks(method), frame : Frames])
        /\ sent \in 0..Len(outgoing)
    BY DEF TypeInv, TypeOK
  <1>2. sent + 1 \in DOMAIN outgoing /\ sent + 1 \in 0..Len(outgoing)
    BY <1>1
  <1>3. outgoing[sent + 1] \in [target : Blocks(method), frame : Frames]
    BY <1>1, <1>2, ElementOfSeq, Zenon
  <1> QED BY <1>2, <1>3

LEMMA MergedTyped ==
    ASSUME TypeInv, NEW t \in Blocks(method), NEW f \in Frames
    PROVE  /\ Merged(t, f) \in Frames
           /\ Covers(Merged(t, f), f)
           /\ t \in DOMAIN incoming => Covers(Merged(t, f), incoming[t])
           /\ (t \in DOMAIN incoming /\ Mismatch(incoming[t], f)) \/ ~Mismatch(Merged(t, f), f)
           /\ t \in DOMAIN incoming /\ ~Mismatch(incoming[t], f) =>
                  \A g \in Frames : Mismatch(Merged(t, f), g) <=> Mismatch(incoming[t], g)
  <1>1. t \in DOMAIN incoming => incoming[t] \in Frames
    BY DEF TypeInv, TypeOK
  <1> QED BY <1>1, MergeAssumption DEF Merged

LEMMA TypeInvInit == Init => TypeInv
  <1> SUFFICES ASSUME Init PROVE TypeInv
    OBVIOUS
  <1>1. CASE Blocks(method) = {}
    <2>1. queue = <<>> /\ queued = {} /\ DOMAIN incoming = {}
      BY <1>1 DEF Init, EntryBlocks
    <2> QED BY <1>1, <2>1 DEF Init, EntryBlocks, TypeInv, TypeOK, WorklistConsistent
  <1>2. CASE Blocks(method) # {}
    <2>1. /\ queue = <<EntryBlock(method)>>
          /\ queued = {EntryBlock(method)}
          /\ DOMAIN incoming = {EntryBlock(method)}
      BY <1>2 DEF Init, EntryBlocks
    <2>2. EntryBlock(method) \in Blocks(method) /\ EntryState(method) \in Frames
      BY <1>2, GraphAssumption DEF Init, EntryBlocks
    <2>3. incoming \in [DOMAIN incoming -> Frames]
      BY <2>2 DEF Init, EntryBlocks
    <2>4. WorklistConsistent
      BY <2>1 DEF WorklistConsistent
    <2> QED BY <2>1, <2>2, <2>3, <2>4 DEF Init, EntryBlocks, TypeInv, TypeOK
  <1> QED BY <1>1, <1>2

LEMMA TypeInvStep == TypeInv /\ [Next]_vars => TypeInv'
  <1> SUFFICES ASSUME TypeInv, [Next]_vars PROVE TypeInv'
    OBVIOUS
  <1>1. CASE StopAtWorkItemLimit
    BY <1>1, PopTyped DEF StopAtWorkItemLimit, TypeInv, TypeOK, WorklistConsistent
  <1>2. CASE SkipBlock
    <2>1. visits' \in [Blocks(method) -> Nat]
      BY <1>2, PopTyped DEF SkipBlock, CountVisit, Counted, TypeInv, TypeOK
    <2> QED BY <1>2, <2>1, PopTyped DEF SkipBlock, TypeInv, TypeOK, WorklistConsistent
  <1>3. CASE VisitBlock
    <2>1. visits' \in [Blocks(method) -> Nat]
      BY <1>3, PopTyped DEF VisitBlock, CountVisit, Counted, TypeInv, TypeOK
    <2>2. current' \in DOMAIN incoming /\ method' = method /\ method \in Methods
      BY <1>3, PopTyped DEF VisitBlock, TypeInv, TypeOK
    <2>3. current' \in Blocks(method) /\ incoming[current'] \in Frames
      BY <2>2 DEF TypeInv, TypeOK
    <2>4. outgoing' \in Seq([target : Blocks(method), frame : Frames])
      BY <1>3, <2>2, <2>3, GraphAssumption DEF VisitBlock
    <2>5. sent' \in 0..Len(outgoing')
      BY <1>3, <2>4 DEF VisitBlock
    <2> QED BY <1>3, <2>1, <2>4, <2>5, PopTyped
            DEF VisitBlock, TypeInv, TypeOK, WorklistConsistent
  <1>4. CASE PropagateFrame
    <2> DEFINE t == outgoing[sent + 1].target
               f == outgoing[sent + 1].frame
    <2>1. /\ t \in Blocks(method) /\ f \in Frames
          /\ sent' \in 0..Len(outgoing)
          /\ outgoing' = outgoing /\ method' = method
      BY <1>4, NextSendTyped DEF PropagateFrame
    <2>2. incoming' = [b \in DOMAIN incoming \cup {t} |->
                          IF b = t THEN Merged(t, f) ELSE incoming[b]]
      BY <1>4 DEF PropagateFrame
    <2>3. /\ DOMAIN incoming' = DOMAIN incoming \cup {t}
          /\ incoming' \in [DOMAIN incoming' -> Frames]
      <3>1. Merged(t, f) \in Frames
        BY <2>1, MergedTyped
      <3>2. \A b \in DOMAIN incoming : incoming[b] \in Frames
        BY DEF TypeInv, TypeOK
      <3> QED BY <2>2, <3>1, <3>2
    <2>4. \/ queue' = queue /\ queued' = queued
          \/ Enqueue(t)
      BY <1>4 DEF PropagateFrame
    <2>5. /\ queue' \in Seq(Blocks(method))
          /\ queued' \subseteq queued \cup {t}
          /\ \A i, j \in DOMAIN queue' : queue'[i] = queue'[j] => i = j
          /\ queued' = {queue'[i] : i \in DOMAIN queue'}
      <3>1. CASE queue' = queue /\ queued' = queued
        BY <3>1 DEF TypeInv, TypeOK, WorklistConsistent
      <3>2. CASE Enqueue(t)
        BY <2>1, <3>2, EnqueueTyped
      <3> QED BY <2>4, <3>1, <3>2
    <2>6. WorklistConsistent'
      BY <2>3, <2>5 DEF WorklistConsistent, TypeInv
    <2>7. TypeOK'
      <3>1. UNCHANGED <<method, config, visits, totalWorkItems, analysisComplete,
                        outgoing, running>>
        BY <1>4 DEF PropagateFrame
      <3>2. DOMAIN incoming' \subseteq Blocks(method) /\ queued' \subseteq Blocks(method)
        BY <2>1, <2>3, <2>5 DEF TypeInv, TypeOK
      <3> QED BY <2>1, <2>3, <2>5, <3>1, <3>2 DEF TypeInv, TypeOK
    <2> QED BY <2>6, <2>7 DEF TypeInv
  <1>5. CASE Finish
    BY <1>5 DEF Finish, TypeInv, TypeOK, WorklistConsistent
  <1>6. CASE UNCHANGED vars
    BY <1>6 DEF vars, TypeInv, TypeOK, WorklistConsistent
  <1> QED BY <1>1, <1>2, <1>3, <1>4, <1>5, <1>6 DEF Next

(* Type correctness of the loop: states are kept for blocks of the graph.  *)
THEOREM TypeCorrect == Spec => []TypeOK
  <1>1. TypeInv => TypeOK
    BY DEF TypeInv
  <1> QED BY <1>1, TypeInvInit, TypeInvStep, PTL DEF Spec

(* Every block the loop pops has a state to start from, so the unchecked   *)
(* incoming[&block_id] cannot panic, and no block waits twice.             *)
THEOREM WorklistAlwaysConsistent == Spec => []WorklistConsistent
  <1>1. TypeInv => WorklistConsistent
    BY DEF TypeInv
  <1> QED BY <1>1, TypeInvInit, TypeInvStep, PTL DEF Spec

-----------------------------------------------------------------------------
(* Nothing is weakened: the action property StatesGrow.                    *)
GrowStep ==
    \A b \in DOMAIN incoming :
        b \in DOMAIN incoming' /\ Covers(incoming'[b], incoming[b])

LEMMA StatesGrowStep == TypeInv /\ [Next]_vars => GrowStep
  <1> SUFFICES ASSUME TypeInv, [Next]_vars, NEW b \in DOMAIN incoming
               PROVE  b \in DOMAIN incoming' /\ Covers(incoming'[b], incoming[b])
    BY DEF GrowStep
  <1>1. incoming[b] \in Frames /\ Covers(incoming[b], incoming[b])
    BY MergeAssumption DEF TypeInv, TypeOK
  <1>2. CASE incoming' = incoming
    BY <1>1, <1>2
  <1>3. CASE PropagateFrame
    <2> DEFINE t == outgoing[sent + 1].target
               f == outgoing[sent + 1].frame
    <2>1. t \in Blocks(method) /\ f \in Frames
      BY <1>3, NextSendTyped DEF PropagateFrame
    <2>2. incoming' = [x \in DOMAIN incoming \cup {t} |->
                          IF x = t THEN Merged(t, f) ELSE incoming[x]]
      BY <1>3 DEF PropagateFrame
    <2>3. b = t => Covers(Merged(t, f), incoming[b])
      BY <2>1, MergedTyped
    <2> QED BY <1>1, <2>2, <2>3
  <1> QED BY <1>2, <1>3
          DEF Next, StopAtWorkItemLimit, SkipBlock, VisitBlock, Finish, vars

(* No step of the loop weakens what merge_frame has established.           *)
THEOREM StatesAlwaysGrow == Spec => StatesGrow
  <1>1. TypeInv /\ [Next]_vars => [GrowStep]_vars
    BY StatesGrowStep
  <1>2. Spec => [][GrowStep]_vars
    BY <1>1, TypeInvInit, TypeInvStep, PTL DEF Spec
  <1> QED BY <1>2 DEF StatesGrow, GrowStep

-----------------------------------------------------------------------------
(* The strengthening of CompleteIsClosed: no propagation is ever lost, the *)
(* entry state stays received, and a loop that ends complete has drained   *)
(* its worklist.                                                           *)
EntryReceived == Blocks(method) # {} => Received(EntryBlock(method), EntryState(method))
Drained == ~running /\ analysisComplete => queue = <<>> /\ sent = Len(outgoing)
ClosureInv == TypeInv /\ NothingLost /\ EntryReceived /\ Drained

(* A mismatch is reported, and without one a state keeps its height.       *)
LEMMA HeightsStay ==
    ASSUME TypeInv, [Next]_vars, "StackHeightMismatch" \notin diagnostics'
    PROVE  /\ "StackHeightMismatch" \notin diagnostics
           /\ \A t \in DOMAIN incoming, g \in Frames :
                  Mismatch(incoming'[t], g) <=> Mismatch(incoming[t], g)
  <1>1. CASE PropagateFrame
    <2> DEFINE t == outgoing[sent + 1].target
               f == outgoing[sent + 1].frame
    <2>1. t \in Blocks(method) /\ f \in Frames
      BY <1>1, NextSendTyped DEF PropagateFrame
    <2>2. /\ incoming' = [b \in DOMAIN incoming \cup {t} |->
                             IF b = t THEN Merged(t, f) ELSE incoming[b]]
          /\ diagnostics' = IF t \in DOMAIN incoming /\ Mismatch(incoming[t], f)
                            THEN diagnostics \cup {"StackHeightMismatch"} ELSE diagnostics
      BY <1>1 DEF PropagateFrame
    <2> HIDE DEF t, f
    <2>3. ~(t \in DOMAIN incoming /\ Mismatch(incoming[t], f)) /\ diagnostics' = diagnostics
      BY <2>2
    <2> QED BY <2>1, <2>2, <2>3, MergedTyped
  <1>2. CASE StopAtWorkItemLimit \/ SkipBlock \/ VisitBlock \/ Finish \/ UNCHANGED vars
    BY <1>2 DEF StopAtWorkItemLimit, SkipBlock, VisitBlock, Finish, vars
  <1> QED BY <1>1, <1>2 DEF Next

(* What was received stays received, since states only grow.               *)
LEMMA ReceivedStays ==
    ASSUME TypeInv, TypeInv', [Next]_vars,
           NEW t, NEW f \in Frames, Received(t, f)
    PROVE  Received(t, f)'
  <1>1. /\ t \in DOMAIN incoming /\ Covers(incoming[t], f)
        /\ t \in DOMAIN incoming' /\ Covers(incoming'[t], incoming[t])
        /\ "StackHeightMismatch" \notin diagnostics => ~Mismatch(incoming[t], f)
    BY StatesGrowStep DEF GrowStep, Received
  <1>2. incoming[t] \in Frames /\ incoming'[t] \in Frames
    BY <1>1 DEF TypeInv, TypeOK
  <1>3. Covers(incoming'[t], f)
    BY <1>1, <1>2, MergeAssumption
  <1>4. "StackHeightMismatch" \notin diagnostics' => ~Mismatch(incoming'[t], f)
    BY <1>1, HeightsStay
  <1> QED BY <1>1, <1>3, <1>4 DEF Received

(* The same, unfolded to be used of any target and frame.                  *)
Held(t, f) ==
    /\ t \in DOMAIN incoming'
    /\ Covers(incoming'[t], f)
    /\ "StackHeightMismatch" \notin diagnostics' => ~Mismatch(incoming'[t], f)

LEMMA ReceivedHeld ==
    ASSUME TypeInv, TypeInv', [Next]_vars
    PROVE  \A t, f : f \in Frames /\ Received(t, f) => Held(t, f)
  BY ReceivedStays DEF Received, Held

LEMMA SendsTyped ==
    ASSUME TypeInv, NEW b \in DOMAIN incoming
    PROVE  /\ Propagations(method, b, incoming[b])
                 \in Seq([target : Blocks(method), frame : Frames])
           /\ \A n \in DOMAIN Propagations(method, b, incoming[b]) :
                 Propagations(method, b, incoming[b])[n].frame \in Frames
  <1>1. b \in Blocks(method) /\ incoming[b] \in Frames /\ method \in Methods
    BY DEF TypeInv, TypeOK
  <1>2. Propagations(method, b, incoming[b])
            \in Seq([target : Blocks(method), frame : Frames])
    BY <1>1, GraphAssumption
  <1>3. ASSUME NEW n \in DOMAIN Propagations(method, b, incoming[b])
        PROVE  Propagations(method, b, incoming[b])[n]
                  \in [target : Blocks(method), frame : Frames]
    BY <1>2, ElementOfSeq, Zenon
  <1> QED BY <1>2, <1>3

LEMMA ClosureInit == Init => ClosureInv
  <1> SUFFICES ASSUME Init PROVE ClosureInv
    OBVIOUS
  <1>1. TypeInv
    BY TypeInvInit
  <1>2. NothingLost
    BY DEF Init, EntryBlocks, NothingLost
  <1>3. EntryReceived
    <2> SUFFICES ASSUME Blocks(method) # {}
                 PROVE  Received(EntryBlock(method), EntryState(method))
      BY DEF EntryReceived
    <2>1. EntryBlock(method) \in DOMAIN incoming
          /\ incoming[EntryBlock(method)] = EntryState(method)
      BY DEF Init, EntryBlocks
    <2>2. EntryState(method) \in Frames
      BY GraphAssumption DEF Init, EntryBlocks
    <2> QED BY <2>1, <2>2, MergeAssumption DEF Received
  <1>4. Drained
    BY DEF Init, EntryBlocks, Drained
  <1> QED BY <1>1, <1>2, <1>3, <1>4 DEF ClosureInv

LEMMA EntryStays ==
    ASSUME TypeInv, TypeInv', [Next]_vars, EntryReceived, method' = method
    PROVE  EntryReceived'
  <1> SUFFICES ASSUME Blocks(method) # {}
               PROVE  Received(EntryBlock(method), EntryState(method))'
    BY DEF EntryReceived
  <1>1. EntryState(method) \in Frames
    BY GraphAssumption DEF TypeInv, TypeOK
  <1>2. Received(EntryBlock(method), EntryState(method))
    BY DEF EntryReceived
  <1>3. \A t, f : f \in Frames /\ Received(t, f) => Held(t, f)
    BY ReceivedHeld
  <1> QED BY <1>1, <1>2, <1>3 DEF Received, Held

(* A step that leaves the states alone and starts no visit loses nothing,  *)
(* and a skipped visit has already given up completeness.                  *)
LEMMA VisitLosesNothing ==
    ASSUME ClosureInv, TypeInv', VisitBlock
    PROVE  NothingLost'
  <1>1. /\ UNCHANGED <<method, incoming, analysisComplete>>
        /\ queued' = queued \ {Head(queue)} /\ current' = Head(queue)
        /\ outgoing' = Propagations(method, current', incoming[current'])
        /\ sent' = 0 /\ sent = Len(outgoing)
        /\ diagnostics' = diagnostics \cup Reports(method, current', incoming[current'])
    BY DEF VisitBlock, Pop, Idle
  <1>2. \A u, g : g \in Frames /\ Received(u, g) => Held(u, g)
    BY ReceivedHeld DEF ClosureInv, Next
  <1> SUFFICES ASSUME analysisComplete, NEW b \in DOMAIN incoming, b \notin queued'
               PROVE  LET sends == Propagations(method, b, incoming[b])
                      IN  /\ Reports(method, b, incoming[b]) \subseteq diagnostics'
                          /\ IF b = current'
                             THEN /\ outgoing' = sends
                                  /\ \A n \in 1..sent' : Held(sends[n].target, sends[n].frame)
                             ELSE \A n \in DOMAIN sends : Held(sends[n].target, sends[n].frame)
    BY <1>1 DEF NothingLost, AllReceived, Received, Held
  <1> DEFINE sends == Propagations(method, b, incoming[b])
  <1>3. CASE b = current'
    BY <1>1, <1>3
  <1>4. CASE b # current'
    <2>1. b \in DOMAIN incoming \ queued
      BY <1>1, <1>4
    <2>2. Reports(method, b, incoming[b]) \subseteq diagnostics'
      BY <1>1, <2>1 DEF ClosureInv, NothingLost
    <2>3. AllReceived(sends)
      <3>1. CASE b = current
        <4>1. /\ outgoing = sends
              /\ \A n \in 1..sent : Received(outgoing[n].target, outgoing[n].frame)
          BY <2>1, <3>1 DEF ClosureInv, NothingLost
        <4>2. DOMAIN outgoing = 1..sent
          BY <1>1 DEF ClosureInv, TypeInv, TypeOK
        <4> QED BY <4>1, <4>2 DEF AllReceived
      <3>2. CASE b # current
        BY <2>1, <3>2 DEF ClosureInv, NothingLost
      <3> QED BY <3>1, <3>2
    <2>4. \A n \in DOMAIN sends : sends[n].frame \in Frames
      BY SendsTyped DEF ClosureInv
    <2> QED BY <1>2, <1>4, <2>2, <2>3, <2>4 DEF AllReceived
  <1> QED BY <1>3, <1>4

LEMMA PropagationLosesNothing ==
    ASSUME ClosureInv, TypeInv', PropagateFrame
    PROVE  NothingLost'
  <1> DEFINE t == outgoing[sent + 1].target
             f == outgoing[sent + 1].frame
  <1>1. /\ t \in Blocks(method) /\ f \in Frames /\ sent \in Nat
        /\ sent' = sent + 1 /\ outgoing' = outgoing /\ current' = current
        /\ method' = method /\ analysisComplete' = analysisComplete
    BY NextSendTyped DEF PropagateFrame, Unchanged, ClosureInv, TypeInv, TypeOK
  <1>2. incoming' = [b \in DOMAIN incoming \cup {t} |->
                        IF b = t THEN Merged(t, f) ELSE incoming[b]]
    BY DEF PropagateFrame
  <1>3. /\ queued \subseteq queued'
        /\ t \in queued' \/ (t \in DOMAIN incoming /\ Merged(t, f) = incoming[t])
    BY DEF PropagateFrame, Unchanged, Enqueue
  <1>a. diagnostics' = IF t \in DOMAIN incoming /\ Mismatch(incoming[t], f)
                       THEN diagnostics \cup {"StackHeightMismatch"} ELSE diagnostics
    BY DEF PropagateFrame
  <1>4. Held(t, f)
    <2>1. /\ Covers(Merged(t, f), f)
          /\ (t \in DOMAIN incoming /\ Mismatch(incoming[t], f)) \/ ~Mismatch(Merged(t, f), f)
      BY <1>1, MergedTyped DEF ClosureInv
    <2>2. t \in DOMAIN incoming' /\ incoming'[t] = Merged(t, f)
      BY <1>1, <1>2
    <2> HIDE DEF t, f
    <2> QED BY <1>a, <2>1, <2>2 DEF Held
  <1>5. \A u : \A g \in Frames : Received(u, g) => Held(u, g)
    BY ReceivedHeld DEF ClosureInv, Next
  <1> SUFFICES ASSUME analysisComplete, NEW b \in DOMAIN incoming', b \notin queued'
               PROVE  LET sends == Propagations(method, b, incoming'[b])
                      IN  /\ Reports(method, b, incoming'[b]) \subseteq diagnostics'
                          /\ IF b = current
                             THEN /\ outgoing = sends
                                  /\ \A n \in 1..(sent + 1) :
                                        Held(sends[n].target, sends[n].frame)
                             ELSE \A n \in DOMAIN sends :
                                     Held(sends[n].target, sends[n].frame)
    BY <1>1 DEF NothingLost, AllReceived, Received, Held
  <1>6. b \in DOMAIN incoming \ queued /\ incoming'[b] = incoming[b]
    BY <1>2, <1>3
  <1>b. Reports(method, b, incoming'[b]) \subseteq diagnostics'
    BY <1>6, <1>a DEF ClosureInv, NothingLost
  <1> DEFINE sends == Propagations(method, b, incoming[b])
  <1>7. \A n \in DOMAIN sends : sends[n].frame \in Frames
    BY <1>6, SendsTyped DEF ClosureInv
  <1>8. CASE b = current
    <2>1. outgoing = sends /\ \A n \in 1..sent : Received(sends[n].target, sends[n].frame)
      BY <1>6, <1>8 DEF ClosureInv, NothingLost
    <2>2. sends \in Seq([target : Blocks(method), frame : Frames]) /\ sent < Len(outgoing)
      BY <1>6, SendsTyped DEF ClosureInv, PropagateFrame, Unchanged
    <2>3. ASSUME NEW n \in 1..(sent + 1)
          PROVE  Held(sends[n].target, sends[n].frame)
      <3>1. CASE n = sent + 1
        BY <1>4, <2>1, <3>1
      <3>2. CASE n # sent + 1
        <4>1. n \in 1..sent /\ n \in DOMAIN sends
          BY <1>1, <2>1, <2>2, <3>2
        <4>2. Received(sends[n].target, sends[n].frame) /\ sends[n].frame \in Frames
          BY <1>7, <2>1, <4>1
        <4> QED BY <1>5, <4>2
      <3> QED BY <3>1, <3>2
    <2> QED BY <1>6, <1>8, <1>b, <2>1, <2>3
  <1>9. CASE b # current
    <2>1. \A n \in DOMAIN sends : Received(sends[n].target, sends[n].frame)
      BY <1>6, <1>9 DEF ClosureInv, NothingLost, AllReceived
    <2>2. \A n \in DOMAIN sends : Held(sends[n].target, sends[n].frame)
      BY <1>5, <1>7, <2>1
    <2> QED BY <1>6, <1>9, <1>b, <2>2
  <1> QED BY <1>8, <1>9

LEMMA ClosureStep == ClosureInv /\ [Next]_vars => ClosureInv'
  <1> SUFFICES ASSUME ClosureInv, [Next]_vars PROVE ClosureInv'
    OBVIOUS
  <1>1. TypeInv /\ TypeInv' /\ method' = method
    BY TypeInvStep DEF ClosureInv, Next, StopAtWorkItemLimit, SkipBlock, VisitBlock,
                       PropagateFrame, Unchanged, Finish, vars
  <1>2. EntryReceived'
    BY <1>1, EntryStays DEF ClosureInv
  <1>3. CASE StopAtWorkItemLimit
    BY <1>1, <1>2, <1>3 DEF StopAtWorkItemLimit, ClosureInv, NothingLost, Drained
  <1>4. CASE SkipBlock
    BY <1>1, <1>2, <1>4 DEF SkipBlock, ClosureInv, NothingLost, Drained
  <1>5. CASE VisitBlock
    <2>1. NothingLost'
      BY <1>1, <1>5, VisitLosesNothing
    <2>2. Drained'
      BY <1>5 DEF VisitBlock, Pop, Idle, Drained
    <2> QED BY <1>1, <1>2, <2>1, <2>2 DEF ClosureInv
  <1>6. CASE PropagateFrame
    <2>1. NothingLost'
      BY <1>1, <1>6, PropagationLosesNothing
    <2>2. Drained'
      BY <1>6 DEF PropagateFrame, Unchanged, Drained
    <2> QED BY <1>1, <1>2, <2>1, <2>2 DEF ClosureInv
  <1>7. CASE Finish
    <2>1. NothingLost'
      BY <1>7 DEF Finish, ClosureInv, NothingLost, AllReceived, Received
    <2>2. Drained'
      BY <1>7 DEF Finish, Idle, Drained
    <2> QED BY <1>1, <1>2, <2>1, <2>2 DEF ClosureInv
  <1>8. CASE UNCHANGED vars
    BY <1>1, <1>2, <1>8 DEF vars, ClosureInv, NothingLost, AllReceived, Received, Drained
  <1> QED BY <1>3, <1>4, <1>5, <1>6, <1>7, <1>8 DEF Next

LEMMA ClosureInvImplies == ClosureInv => CompleteIsClosed
  <1> SUFFICES ASSUME ClosureInv, ~running, analysisComplete PROVE
          /\ Blocks(method) # {} => Received(EntryBlock(method), EntryState(method))
          /\ \A b \in DOMAIN incoming :
                /\ Reports(method, b, incoming[b]) \subseteq diagnostics
                /\ AllReceived(Propagations(method, b, incoming[b]))
    BY DEF CompleteIsClosed
  <1>1. queued = {} /\ sent = Len(outgoing)
    <2>1. queue = <<>> /\ sent = Len(outgoing)
      BY DEF ClosureInv, Drained
    <2>2. DOMAIN queue = {}
      BY <2>1
    <2> QED BY <2>1, <2>2 DEF ClosureInv, TypeInv, WorklistConsistent
  <1>2. ASSUME NEW b \in DOMAIN incoming
        PROVE  /\ Reports(method, b, incoming[b]) \subseteq diagnostics
               /\ AllReceived(Propagations(method, b, incoming[b]))
    <2>a. Reports(method, b, incoming[b]) \subseteq diagnostics
      BY <1>1 DEF ClosureInv, NothingLost
    <2>1. CASE b = current
      <3>1. /\ outgoing = Propagations(method, b, incoming[b])
            /\ \A n \in 1..sent : Received(outgoing[n].target, outgoing[n].frame)
        BY <1>1, <2>1 DEF ClosureInv, NothingLost
      <3>2. DOMAIN outgoing = 1..sent
        BY <1>1 DEF ClosureInv, TypeInv, TypeOK
      <3> QED BY <2>a, <3>1, <3>2 DEF AllReceived
    <2>2. CASE b # current
      BY <1>1, <2>2 DEF ClosureInv, NothingLost
    <2> QED BY <2>1, <2>2, <2>a
  <1> QED BY <1>2 DEF ClosureInv, EntryReceived

(* No change of a block's state goes unnoticed at any point of the loop.   *)
THEOREM NothingEverLost == Spec => []NothingLost
  <1>1. ClosureInv => NothingLost
    BY DEF ClosureInv
  <1> QED BY <1>1, ClosureInit, ClosureStep, PTL DEF Spec

(* A loop that ends complete ends closed under propagation: the result is  *)
(* a post-fixpoint of the transfer function, whatever the order in which   *)
(* the worklist visited the blocks.                                        *)
THEOREM CompleteAlwaysClosed == Spec => []CompleteIsClosed
  BY ClosureInvImplies, ClosureInit, ClosureStep, PTL DEF Spec

(* A strict run can tell a truncated analysis from a complete one.         *)
THEOREM LimitsAlwaysReported == Spec => []LimitsAreReported
  <1>1. Init => LimitsAreReported
    BY DEF Init, EntryBlocks, LimitsAreReported
  <1>2. LimitsAreReported /\ TypeInv /\ [Next]_vars => LimitsAreReported'
    <2> SUFFICES ASSUME LimitsAreReported, TypeInv, [Next]_vars
                 PROVE  LimitsAreReported'
      OBVIOUS
    <2>1. CASE StopAtWorkItemLimit \/ SkipBlock
      BY <2>1 DEF StopAtWorkItemLimit, SkipBlock, LimitsAreReported
    <2>2. CASE VisitBlock
      <3>1. method \in Methods /\ current' \in Blocks(method) /\ incoming[current'] \in Frames
        BY <2>2, PopTyped DEF VisitBlock, TypeInv, TypeOK
      <3>2. "AnalysisLimitReached" \notin Reports(method, current', incoming[current'])
        BY <3>1, GraphAssumption
      <3> QED BY <2>2, <3>2 DEF VisitBlock, LimitsAreReported
    <2>3. CASE PropagateFrame
      <3>1. /\ analysisComplete' = analysisComplete
            /\ "AnalysisLimitReached" \in diagnostics' <=> "AnalysisLimitReached" \in diagnostics
        BY <2>3 DEF PropagateFrame
      <3> QED BY <3>1, Zenon DEF LimitsAreReported
    <2>4. CASE UNCHANGED <<analysisComplete, diagnostics>>
      BY <2>4, Zenon DEF LimitsAreReported
    <2> QED BY <2>1, <2>2, <2>3, <2>4 DEF Next, Finish, vars
  <1> QED BY <1>1, <1>2, TypeInvInit, TypeInvStep, PTL DEF Spec
=============================================================================
