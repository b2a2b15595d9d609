---------------------- MODULE DisplayCompositorProofs ----------------------
(***************************************************************************)
(* Safety of DisplayCompositor for any number of HAL threads, any queue    *)
(* depth and any number of compositions.                                   *)
(***************************************************************************)
EXTENDS DisplayCompositor, SequenceTheorems, TLAPS

\* Popping a queue that is not empty (composite_queue_ in Composite,
\* frame_queue_ in FrameWorker::Routine) yields an element, and leaves a queue
\* that is one shorter.
LEMMA PopTyped ==
    ASSUME NEW S, NEW q \in Seq(S), q # <<>>
    PROVE  Head(q) \in S /\ Tail(q) \in Seq(S) /\ Len(Tail(q)) = Len(q) - 1
  OBVIOUS

\* A null pointer is no composition: it has the type EMPTY, and
\* QueueComposition queues nothing of that type.
LEMMA NoneNotComposition == None \notin Composition
  BY DEF None, Composition, QueuedTypes

\* A signal changes no condition variable to an unknown state.
LEMMA CondSignalTyped ==
    ASSUME cond \in [Workers -> CondState], NEW w \in Workers
    PROVE  CondSignal(w) \in [Workers -> CondState]
  BY DEF CondSignal, CondState

\* The steps of QueueComposition preserve the type invariant.
LEMMA TypeQueueComposition ==
    ASSUME TypeOK, NEW t \in Threads, QueueComposition(t)
    PROVE  TypeOK'
<1> USE DEF TypeOK, halVars
<1>1. ASSUME NEW type \in Types, QueueReturnsEarly(t, type) PROVE TypeOK'
  BY <1>1 DEF QueueReturnsEarly
<1>2. ASSUME NEW type \in Types, QueueEnter(t, type) PROVE TypeOK'
  <2>1. Fresh(type) \in Composition
    BY <1>2 DEF QueueEnter, Fresh, Composition
  <2>2. [at |-> "push", comp |-> Fresh(type)] \in HalState
    BY <2>1 DEF HalState
  <2>3. hal' \in [Threads -> HalState]
    BY <1>2, <2>2 DEF QueueEnter
  <2>4. active_' \in BOOLEAN
    BY <1>2 DEF QueueEnter
  <2>. QED
    BY <1>2, <2>3, <2>4 DEF QueueEnter
<1>3. CASE QueuePush(t)
  <2>1. hal[t].comp \in Composition
    BY <1>3 DEF QueuePush, HalState
  <2>2. [at |-> "signal", comp |-> None] \in HalState
    BY DEF HalState
  <2>3. hal' \in [Threads -> HalState]
    BY <1>3, <2>2 DEF QueuePush
  <2>4. composite_queue_' \in Seq(Composition)
    BY <1>3, <2>1 DEF QueuePush
  <2>. QED
    BY <1>3, <2>3, <2>4 DEF QueuePush
<1>4. CASE QueueSignal(t)
  <2>1. cond' \in [Workers -> CondState]
    BY <1>4, CondSignalTyped DEF QueueSignal, Workers
  <2>2. Idle \in HalState
    BY DEF HalState, Idle
  <2>. QED
    BY <1>4, <2>1, <2>2 DEF QueueSignal
<1>. QED
  BY <1>1, <1>2, <1>3, <1>4 DEF QueueComposition

\* Goto moves a worker to a place of its own.
LEMMA GotoCompositor ==
    ASSUME TypeOK, NEW place \in CompositorPc, Goto("compositor", place)
    PROVE  /\ pc' \in [Workers -> CompositorPc]
           /\ pc'["frame"] = pc["frame"]
           /\ pc'["compositor"] = place
  BY DEF TypeOK, Goto, Workers

\* The same for the frame worker, which has fewer places.
LEMMA GotoFrame ==
    ASSUME TypeOK, NEW place \in FramePc, Goto("frame", place)
    PROVE  /\ pc' \in [Workers -> CompositorPc]
           /\ pc'["frame"] = place
           /\ pc'["compositor"] = pc["compositor"]
  BY DEF TypeOK, Goto, Workers, FramePc, CompositorPc

\* The steps of the compositor worker preserve the type invariant.
LEMMA TypeCompositorWorker ==
    ASSUME TypeOK, CompositorWorker
    PROVE  TypeOK'
<1>1. CASE HaveQueuedComposites
  <2>1. pc' \in [Workers -> CompositorPc] /\ pc'["frame"] = pc["frame"]
    BY <1>1, GotoCompositor DEF HaveQueuedComposites, CompositorPc
  <2>. QED
    BY <1>1, <2>1 DEF HaveQueuedComposites, TypeOK, halVars
<1>2. CASE WaitForSignal
  <2>1. pc' \in [Workers -> CompositorPc] /\ pc'["frame"] = pc["frame"]
    BY <1>2, GotoCompositor DEF WaitForSignal, CompositorPc
  <2>2. cond' \in [Workers -> CondState]
    BY <1>2 DEF WaitForSignal, TypeOK, CondState
  <2>. QED
    BY <1>2, <2>1, <2>2 DEF WaitForSignal, TypeOK, halVars
<1>3. CASE WaitReturnsSignalled \/ WaitReturnsTimedOut
  <2>1. pc' \in [Workers -> CompositorPc] /\ pc'["frame"] = pc["frame"]
    BY <1>3, GotoCompositor
    DEF WaitReturnsSignalled, WaitReturnsTimedOut, CompositorPc
  <2>2. cond' \in [Workers -> CondState]
    BY <1>3 DEF WaitReturnsSignalled, WaitReturnsTimedOut, TypeOK, CondState
  <2>. QED
    BY <1>3, <2>1, <2>2
    DEF WaitReturnsSignalled, WaitReturnsTimedOut, TypeOK, halVars
<1>4. CASE CompositeInitFails \/ CompositeFindsNothing
  <2>1. pc' \in [Workers -> CompositorPc] /\ pc'["frame"] = pc["frame"]
    BY <1>4, GotoCompositor
    DEF CompositeInitFails, CompositeFindsNothing, CompositorPc
  <2>. QED
    BY <1>4, <2>1
    DEF CompositeInitFails, CompositeFindsNothing, TypeOK, halVars
<1>5. CASE CompositePop
  <2>1. pc' \in [Workers -> CompositorPc] /\ pc'["frame"] = pc["frame"]
    BY <1>5, GotoCompositor DEF CompositePop, CompositorPc
  <2>2. Head(composite_queue_) \in Composition
        /\ composite_queue_' \in Seq(Composition)
    BY <1>5, PopTyped DEF CompositePop, TypeOK
  <2>3. hand' \in [Workers -> Composition \cup {None}]
    BY <1>5, <2>2 DEF CompositePop, TypeOK
  <2>. QED
    BY <1>5, <2>1, <2>2, <2>3 DEF CompositePop, TypeOK, halVars
<1>6. ASSUME CompositeDone
      PROVE  /\ pc' \in [Workers -> CompositorPc] /\ pc'["frame"] = pc["frame"]
             /\ hand' \in [Workers -> Composition \cup {None}]
             /\ did_squash_all_' \in BOOLEAN
  <2>1. pc' \in [Workers -> CompositorPc] /\ pc'["frame"] = pc["frame"]
    BY <1>6, GotoCompositor DEF CompositeDone, CompositorPc
  <2>. QED
    BY <1>6, <2>1 DEF CompositeDone, TypeOK
<1>7. CASE CompositeDropsFrame
  BY <1>6, <1>7 DEF CompositeDropsFrame, TypeOK, halVars
<1>8. CASE QueueFrame
  <2>1. hand["compositor"] \in Composition
    BY <1>8 DEF QueueFrame, TypeOK, Workers, None
  <2>2. frame_queue_' \in Seq(Composition)
    BY <1>8, <2>1 DEF QueueFrame, TypeOK
  <2>3. cond' \in [Workers -> CondState]
    BY <1>8, CondSignalTyped DEF QueueFrame, TypeOK, Workers
  <2>. QED
    BY <1>6, <1>8, <2>2, <2>3 DEF QueueFrame, TypeOK, halVars
<1>9. CASE CompositeDisplayState
  BY <1>6, <1>9 DEF CompositeDisplayState, TypeOK, halVars
<1>10. CASE SquashAllReturns
  <2>1. pc' \in [Workers -> CompositorPc] /\ pc'["frame"] = pc["frame"]
    BY <1>10, GotoCompositor DEF SquashAllReturns, CompositorPc
  <2>. QED
    BY <1>10, <2>1 DEF SquashAllReturns, TypeOK, halVars
<1>11. CASE SquashAllApplies
  <2>1. pc' \in [Workers -> CompositorPc] /\ pc'["frame"] = pc["frame"]
    BY <1>11, GotoCompositor DEF SquashAllApplies, CompositorPc
  <2>2. hand' \in [Workers -> Composition \cup {None}]
    BY <1>11 DEF SquashAllApplies, TypeOK
  <2>. QED
    BY <1>11, <2>1, <2>2 DEF SquashAllApplies, TypeOK, halVars
<1>. QED
  BY <1>1, <1>2, <1>3, <1>4, <1>5, <1>7, <1>8, <1>9, <1>10, <1>11
  DEF CompositorWorker

\* The steps of the frame worker preserve the type invariant.
LEMMA TypeFrameWorker ==
    ASSUME TypeOK, FrameWorker
    PROVE  TypeOK'
<1>1. ASSUME FramePop, frame_queue_ # <<>>
      PROVE  /\ hand' \in [Workers -> Composition \cup {None}]
             /\ frame_queue_' \in Seq(Composition)
  <2>1. Head(frame_queue_) \in Composition /\ frame_queue_' \in Seq(Composition)
    BY <1>1, PopTyped DEF FramePop, TypeOK
  <2>. QED
    BY <1>1, <2>1 DEF FramePop, TypeOK
<1>2. CASE FrameRoutine
  <2>1. pc' \in [Workers -> CompositorPc] /\ pc'["frame"] \in FramePc
    BY <1>2, GotoFrame DEF FrameRoutine, FramePc
  <2>2. cond' \in [Workers -> CondState]
    BY <1>2 DEF FrameRoutine, TypeOK, CondState
  <2>3. hand' \in [Workers -> Composition \cup {None}]
        /\ frame_queue_' \in Seq(Composition)
    BY <1>1, <1>2 DEF FrameRoutine, TypeOK
  <2>. QED
    BY <1>2, <2>1, <2>2, <2>3 DEF FrameRoutine, TypeOK, halVars
<1>3. CASE FrameWaitReturns
  <2>1. pc' \in [Workers -> CompositorPc] /\ pc'["frame"] \in FramePc
    BY <1>3, GotoFrame DEF FrameWaitReturns, FramePc
  <2>2. cond' \in [Workers -> CondState]
    BY <1>3 DEF FrameWaitReturns, TypeOK, CondState
  <2>3. hand' \in [Workers -> Composition \cup {None}]
        /\ frame_queue_' \in Seq(Composition)
    BY <1>1, <1>3 DEF FrameWaitReturns, TypeOK
  <2>. QED
    BY <1>3, <2>1, <2>2, <2>3 DEF FrameWaitReturns, TypeOK, halVars
<1>. QED
  BY <1>2, <1>3 DEF FrameWorker

\* The steps of ApplyFrame, in either worker, preserve the type invariant.
LEMMA TypeApplyFrame ==
    ASSUME TypeOK, NEW w \in Workers, ApplyFrame(w)
    PROVE  TypeOK'
<1>1. ASSUME NEW place \in FramePc, Goto(w, place)
      PROVE  pc' \in [Workers -> CompositorPc] /\ pc'["frame"] \in FramePc
  BY <1>1, GotoCompositor, GotoFrame
  DEF TypeOK, Workers, FramePc, CompositorPc
<1>2. ASSUME ApplyReturns(w)
      PROVE  /\ pc' \in [Workers -> CompositorPc] /\ pc'["frame"] \in FramePc
             /\ hand' \in [Workers -> Composition \cup {None}]
             /\ did_squash_all_' \in BOOLEAN
  <2>1. pc' \in [Workers -> CompositorPc] /\ pc'["frame"] \in FramePc
    BY <1>1, <1>2 DEF ApplyReturns, FramePc
  <2>. QED
    BY <1>2, <2>1 DEF ApplyReturns, TypeOK
<1>3. ASSUME Goto(w, "swap"), UNCHANGED <<hand, did_squash_all_>>
      PROVE  /\ pc' \in [Workers -> CompositorPc] /\ pc'["frame"] \in FramePc
             /\ hand' \in [Workers -> Composition \cup {None}]
             /\ did_squash_all_' \in BOOLEAN
  BY <1>1, <1>3 DEF FramePc, TypeOK
<1>4. ASSUME DisablePlanes(w)
      PROVE  /\ pc' \in [Workers -> CompositorPc] /\ pc'["frame"] \in FramePc
             /\ hand' \in [Workers -> Composition \cup {None}]
             /\ did_squash_all_' \in BOOLEAN
  BY <1>2, <1>3, <1>4 DEF DisablePlanes
<1>5. CASE CommitFrame(w)
  BY <1>3, <1>4, <1>5 DEF CommitFrame, TypeOK, halVars
<1>6. CASE ApplyFrameSwap(w)
  BY <1>2, <1>6 DEF ApplyFrameSwap, TypeOK, halVars
<1>. QED
  BY <1>5, <1>6 DEF ApplyFrame

\* The compositor's state is typed in every reachable state: in particular no
\* null composition is ever pushed on either queue.
THEOREM TypeCorrect == Spec => []TypeOK
<1>1. Init => TypeOK
  <2> SUFFICES ASSUME Init PROVE TypeOK
    OBVIOUS
  <2>1. hal \in [Threads -> HalState]
    <3>1. Idle \in HalState
      BY DEF HalState, Idle
    <3>. QED
      BY <3>1 DEF Init
  <2>2. /\ pc \in [Workers -> CompositorPc]
        /\ pc["frame"] \in FramePc
        /\ cond \in [Workers -> CondState]
    BY DEF Init, CompositorPc, FramePc, CondState, Workers
  <2>3. hand \in [Workers -> Composition \cup {None}]
    BY DEF Init
  <2>4. /\ composite_queue_ \in Seq(Composition)
        /\ frame_queue_ \in Seq(Composition)
        /\ created \in Nat
    BY DEF Init
  <2>5. /\ active_ \in BOOLEAN
        /\ did_squash_all_ \in BOOLEAN
        /\ pre_compositor_ \in BOOLEAN
    BY DEF Init
  <2>. QED
    BY <2>1, <2>2, <2>3, <2>4, <2>5 DEF Init, TypeOK
<1>2. TypeOK /\ [Next]_vars => TypeOK'
  <2> SUFFICES ASSUME TypeOK, [Next]_vars PROVE TypeOK'
    OBVIOUS
  <2>1. ASSUME NEW t \in Threads, QueueComposition(t) PROVE TypeOK'
    BY <2>1, TypeQueueComposition
  <2>2. CASE CompositorWorker
    BY <2>2, TypeCompositorWorker
  <2>3. CASE FrameWorker
    BY <2>3, TypeFrameWorker
  <2>4. ASSUME NEW w \in Workers, ApplyFrame(w) PROVE TypeOK'
    BY <2>4, TypeApplyFrame
  <2>5. ASSUME NEW w \in Workers, WaitTimeout(w) PROVE TypeOK'
    BY <2>5 DEF WaitTimeout, TypeOK, CondState, halVars
  <2>6. ASSUME NEW w \in SpuriousWorkers, SpuriousWakeup(w) PROVE TypeOK'
    BY <2>6, SpuriousAssumption
    DEF SpuriousWakeup, TypeOK, CondState, halVars
  <2>7. CASE UNCHANGED vars
    BY <2>7 DEF vars, TypeOK
  <2>. QED
    BY <2>1, <2>2, <2>3, <2>4, <2>5, <2>6, <2>7 DEF Next
<1>. QED
  BY <1>1, <1>2, PTL DEF Spec

-----------------------------------------------------------------------------
(***************************************************************************)
(* The bound on composite_queue_.                                          *)
(***************************************************************************)
\* A step leaves composite_queue_ alone, pushes where there is room, or pops.
LEMMA CompositeQueueSteps ==
    ASSUME TypeOK, [Next]_vars
    PROVE  \/ composite_queue_' = composite_queue_
           \/ /\ QueueHasRoom
              /\ \E c \in Composition :
                    composite_queue_' = Append(composite_queue_, c)
           \/ /\ composite_queue_ # <<>>
              /\ composite_queue_' = Tail(composite_queue_)
<1>1. ASSUME NEW t \in Threads, QueuePush(t)
      PROVE  /\ QueueHasRoom
             /\ \E c \in Composition :
                   composite_queue_' = Append(composite_queue_, c)
  BY <1>1 DEF QueuePush, TypeOK, HalState
<1>2. CASE CompositePop
  BY <1>2 DEF CompositePop
<1>3. ASSUME NEW t \in Threads, QueueComposition(t), ~QueuePush(t)
      PROVE  composite_queue_' = composite_queue_
  BY <1>3 DEF QueueComposition, QueueReturnsEarly, QueueEnter, QueueSignal
<1>4. CASE CompositorWorker /\ ~CompositePop
  BY <1>4
  DEF CompositorWorker, HaveQueuedComposites, WaitForSignal,
      WaitReturnsSignalled, WaitReturnsTimedOut, CompositeInitFails,
      CompositeFindsNothing, CompositeDropsFrame, QueueFrame,
      CompositeDisplayState, SquashAllReturns, SquashAllApplies
<1>5. CASE FrameWorker
  BY <1>5 DEF FrameWorker, FrameRoutine, FrameWaitReturns
<1>6. ASSUME NEW w \in Workers,
             ApplyFrame(w) \/ WaitTimeout(w) \/ SpuriousWakeup(w)
      PROVE  composite_queue_' = composite_queue_
  BY <1>6
  DEF ApplyFrame, CommitFrame, ApplyFrameSwap, WaitTimeout,
      SpuriousWakeup
<1>7. CASE UNCHANGED vars
  BY <1>7 DEF vars
<1>. QED
  BY <1>1, <1>2, <1>3, <1>4, <1>5, <1>6, <1>7, SpuriousAssumption DEF Next

\* The back pressure of QueueComposition holds for any number of callers: the
\* test of the size and the push are one critical section.
THEOREM QueueStaysBounded == Spec => []QueueBounded
<1>1. Init => QueueBounded
  BY DepthAssumption DEF Init, QueueBounded
<1>2. TypeOK /\ QueueBounded /\ [Next]_vars => QueueBounded'
  <2> SUFFICES ASSUME TypeOK, QueueBounded, [Next]_vars PROVE QueueBounded'
    OBVIOUS
  <2>1. composite_queue_ \in Seq(Composition) /\ MaxQueueDepth \in Nat
    BY DepthAssumption DEF TypeOK
  <2>2. CASE composite_queue_' = composite_queue_
    BY <2>2 DEF QueueBounded
  <2>3. ASSUME NEW c \in Composition, QueueHasRoom,
               composite_queue_' = Append(composite_queue_, c)
        PROVE  QueueBounded'
    BY <2>1, <2>3 DEF QueueHasRoom, QueueBounded
  <2>4. CASE composite_queue_ # <<>> /\ composite_queue_' = Tail(composite_queue_)
    BY <2>1, <2>4, PopTyped DEF QueueBounded
  <2>. QED
    BY <2>2, <2>3, <2>4, CompositeQueueSteps
<1>. QED
  BY <1>1, <1>2, TypeCorrect, PTL DEF Spec

-----------------------------------------------------------------------------
(***************************************************************************)
(* The hand-over to the frame worker.  FrameSync ties the frame worker's   *)
(* place, its condition variable and its queue together.                   *)
(***************************************************************************)
FrameSync ==
    /\ pc["frame"] = "waiting" <=> cond["frame"] \in {"forever", "signalled"}
    /\ pc["frame"] # "waiting" => cond["frame"] = "none"
    /\ cond["frame"] = "forever" => frame_queue_ = <<>>
    /\ \A i \in DOMAIN frame_queue_ : frame_queue_[i].type = "FRAME"

\* What the frame worker's invariants speak of.
frameWorkerVars == <<pc["frame"], cond["frame"], hand["frame"], frame_queue_>>

\* The steps that concern the frame worker; all others leave it alone.
LEMMA FrameWorkerSteps ==
    ASSUME TypeOK, [Next]_vars
    PROVE  \/ UNCHANGED frameWorkerVars
           \/ QueueFrame
           \/ FrameWorker
           \/ ApplyFrame("frame")
           \/ WaitTimeout("frame")
           \/ "frame" \in SpuriousWorkers /\ SpuriousWakeup("frame")
<1> USE DEF frameWorkerVars, TypeOK, Workers
<1>1. ASSUME NEW t \in Threads, QueueComposition(t) PROVE UNCHANGED frameWorkerVars
  BY <1>1 DEF QueueComposition, QueueReturnsEarly, QueueEnter, QueuePush,
              QueueSignal, CondSignal
<1>2. CASE HaveQueuedComposites \/ WaitForSignal \/ WaitReturnsSignalled
           \/ WaitReturnsTimedOut \/ CompositeInitFails \/ CompositeFindsNothing
  BY <1>2 DEF HaveQueuedComposites, WaitForSignal, WaitReturnsSignalled,
              WaitReturnsTimedOut, CompositeInitFails, CompositeFindsNothing, Goto
<1>3. CASE CompositePop \/ CompositeDropsFrame \/ CompositeDisplayState
           \/ SquashAllReturns \/ SquashAllApplies
  BY <1>3 DEF CompositePop, CompositeDropsFrame, CompositeDisplayState, SquashAllReturns, SquashAllApplies,
              CompositeDone, Goto
<1>4. CASE ApplyFrame("compositor")
  BY <1>4 DEF ApplyFrame, CommitFrame, ApplyFrameSwap,
              DisablePlanes, ApplyReturns, Goto
<1>5. CASE WaitTimeout("compositor") \/ SpuriousWakeup("compositor")
  BY <1>5 DEF WaitTimeout, SpuriousWakeup
<1>6. CASE UNCHANGED vars
  BY <1>6 DEF vars
<1>7. \/ \E t \in Threads : QueueComposition(t)
      \/ CompositorWorker
      \/ FrameWorker
      \/ \E w \in Workers : ApplyFrame(w)
      \/ \E w \in Workers : WaitTimeout(w)
      \/ \E w \in SpuriousWorkers : SpuriousWakeup(w)
      \/ UNCHANGED vars
  BY DEF Next
<1>. QED
  BY <1>1, <1>2, <1>3, <1>4, <1>5, <1>6, <1>7, SpuriousAssumption
  DEF CompositorWorker

\* Every step keeps the frame worker's place, its condition variable and its
\* queue in step, which makes FrameSync inductive.
LEMMA FrameSyncStep ==
    ASSUME TypeOK, FrameSync, [Next]_vars
    PROVE  FrameSync'
<1> USE DEF FrameSync, TypeOK, Workers
<1>1. CASE UNCHANGED frameWorkerVars
  BY <1>1 DEF frameWorkerVars
<1>2. CASE QueueFrame
  <2>1. pc'["frame"] = pc["frame"]
    BY <1>2 DEF QueueFrame, CompositeDone, Goto
  <2>2. cond'["frame"] = IF cond["frame"] \in {"timed", "forever"}
                         THEN "signalled" ELSE cond["frame"]
    BY <1>2 DEF QueueFrame, CondSignal
  <2>3. hand["compositor"] \in Composition
    BY <1>2 DEF QueueFrame, None
  <2>4. \A i \in DOMAIN frame_queue_' : frame_queue_'[i].type = "FRAME"
    BY <1>2, <2>3 DEF QueueFrame
  <2>. QED
    BY <2>1, <2>2, <2>4 DEF CondState
<1>3. ASSUME FramePop, frame_queue_ # <<>>
      PROVE  \A i \in DOMAIN frame_queue_' : frame_queue_'[i].type = "FRAME"
  BY <1>3 DEF FramePop
<1>4. CASE FrameRoutine
  BY <1>3, <1>4 DEF FrameRoutine, Goto
<1>5. CASE FrameWaitReturns
  BY <1>3, <1>5 DEF FrameWaitReturns, Goto
<1>6. CASE ApplyFrame("frame")
  BY <1>6 DEF ApplyFrame, CommitFrame, ApplyFrameSwap,
              DisablePlanes, ApplyReturns, Goto
<1>7. CASE WaitTimeout("frame") \/ SpuriousWakeup("frame")
  BY <1>7 DEF WaitTimeout, SpuriousWakeup
<1>. QED
  BY <1>1, <1>2, <1>4, <1>5, <1>6, <1>7, FrameWorkerSteps DEF FrameWorker

\* QueueFrame cannot lose a signal: the frame worker tests its queue and
\* starts to wait in one critical section, so it never sleeps unsignalled on
\* a queue that holds a frame.
THEOREM FrameSignalNeverLost == Spec => []FrameSignalNotLost
<1>1. Init => FrameSync
  BY DEF Init, FrameSync, Workers
<1>2. TypeOK /\ FrameSync /\ [Next]_vars => FrameSync'
  BY FrameSyncStep
<1>3. FrameSync => FrameSignalNotLost
  BY DEF FrameSync, FrameSignalNotLost
<1>. QED
  BY <1>1, <1>2, <1>3, TypeCorrect, PTL DEF Spec

-----------------------------------------------------------------------------
(***************************************************************************)
(* The queues and workers implement FrameStream.                           *)
(***************************************************************************)
\* Composite forgets a composition that is not the oldest pending one.
LEMMA RemoveBetween ==
    ASSUME NEW S, NEW a \in Seq(S), NEW b \in Seq(S), NEW c \in S
    PROVE  Stream!RemoveAt((a \o <<c>>) \o b, Len(a) + 1) = a \o b
<1> DEFINE s == (a \o <<c>>) \o b
           r == SubSeq(s, (Len(a) + 1) + 1, Len(s))
<1>1. /\ s \in Seq(S) /\ Len(s) = Len(a) + Len(b) + 1
      /\ \A i \in 1 .. Len(a) : s[i] = a[i]
      /\ \A i \in 1 .. Len(b) : s[Len(a) + 1 + i] = b[i]
      /\ Len(a) \in Nat /\ Len(b) \in Nat
  OBVIOUS
<1> HIDE DEF s
<1>2. SubSeq(s, 1, (Len(a) + 1) - 1) = a
  BY <1>1
<1>3. r = b
  <2>1. \A i \in (Len(a) + 1) + 1 .. Len(s) : s[i] \in S
    BY <1>1
  <2>2. /\ r \in Seq(S) /\ Len(r) = Len(b)
        /\ \A i \in 1 .. Len(b) : r[i] = s[(Len(a) + 1) + 1 + i - 1]
    BY <1>1, <2>1, SubSeqProperties
  <2>3. ASSUME NEW i \in 1 .. Len(b) PROVE r[i] = b[i]
    <3>1. r[i] = s[(Len(a) + 1) + 1 + i - 1] /\ s[Len(a) + 1 + i] = b[i]
      BY ONLY <1>1, <2>2, i \in 1 .. Len(b)
    <3>2. (Len(a) + 1) + 1 + i - 1 = Len(a) + 1 + i
      BY <1>1
    <3>. QED
      BY ONLY <3>1, <3>2
  <2> HIDE DEF r
  <2>. QED
    BY <2>2, <2>3, SeqEqual
<1>. QED
  BY <1>2, <1>3 DEF s, Stream!RemoveAt

\* What is accepted goes behind all others.
LEMMA PushBehind ==
    ASSUME NEW S, NEW a \in Seq(S), NEW b \in Seq(S), NEW c \in S
    PROVE  a \o Append(b, c) = Append(a \o b, c)
  OBVIOUS

\* The oldest frame of frame_queue_ is the oldest pending composition.
LEMMA PopInFront ==
    ASSUME NEW S, NEW a \in Seq(S), NEW b \in Seq(S), a # <<>>
    PROVE  Head(a \o b) = Head(a) /\ Tail(a \o b) = Tail(a) \o b /\ a \o b # <<>>
  OBVIOUS

\* The compositor worker's hand is between the two queues.
LEMMA TakeOut ==
    ASSUME NEW S, NEW a \in Seq(S), NEW b \in Seq(S), b # <<>>
    PROVE  (a \o <<Head(b)>>) \o Tail(b) = a \o b
  OBVIOUS

\* A composition in the compositor worker's hand is a real one, and a frame
\* worker that looks for the next frame has none.
Hands ==
    /\ pc["compositor"] = "compose" => hand["compositor"] \in Composition
    /\ pc["frame"] \in {"routine", "waiting"} => hand["frame"] = None

InHand == IF pc["compositor"] = "compose" THEN <<hand["compositor"]>> ELSE <<>>

\* The steps of DisplayCompositor as the stream sees them.
Accepts(c) == Pending' = Append(Pending, c) /\ hand'["frame"] = hand["frame"]
Forgets ==
    /\ \E i \in DOMAIN Pending : Pending' = Stream!RemoveAt(Pending, i)
    /\ hand'["frame"] = hand["frame"]
Applies ==
    /\ Pending # <<>> /\ hand["frame"] = None
    /\ Head(Pending).type = "FRAME"
    /\ hand'["frame"] = Head(Pending) /\ Pending' = Tail(Pending)
Finishes == Pending' = Pending /\ hand'["frame"] \in {None, hand["frame"]}

\* The abstract queue is a sequence of compositions.
LEMMA PendingTyped ==
    ASSUME TypeOK, Hands
    PROVE  /\ InHand \in Seq(Composition) /\ Pending \in Seq(Composition)
           /\ Pending = (frame_queue_ \o InHand) \o composite_queue_
           /\ frame_queue_ \o InHand \in Seq(Composition)
<1>1. InHand \in Seq(Composition)
  BY DEF Hands, InHand
<1>. QED
  BY <1>1 DEF TypeOK, Pending, InHand

\* Every step of the compositor accepts, forgets or applies a composition,
\* ends a frame, or changes nothing the stream shows.
LEMMA PendingSteps ==
    ASSUME TypeOK, Hands, FrameSync, [Next]_vars
    PROVE  \/ Finishes \/ Forgets \/ Applies
           \/ \E t \in Threads : QueuePush(t) /\ Accepts(hal[t].comp)
<1> USE DEF TypeOK, Workers
<1>1. Pending = (frame_queue_ \o InHand) \o composite_queue_
      /\ frame_queue_ \o InHand \in Seq(Composition)
  BY PendingTyped
<1>2. ASSUME UNCHANGED <<frame_queue_, composite_queue_>>, hand'["frame"] \in {None, hand["frame"]},
             InHand' = InHand
      PROVE  Finishes
  BY <1>2 DEF Finishes, Pending, InHand
<1>3. ASSUME NEW t \in Threads, QueuePush(t)
      PROVE  Accepts(hal[t].comp)
  <2>1. hal[t].comp \in Composition
    BY <1>3 DEF QueuePush, HalState
  <2>2. Pending' = (frame_queue_ \o InHand) \o Append(composite_queue_, hal[t].comp)
    BY <1>3 DEF QueuePush, Pending, InHand
  <2>. QED
    BY <1>1, <1>3, <2>1, <2>2, PushBehind DEF QueuePush, Accepts
<1>4. ASSUME NEW t \in Threads, QueueComposition(t), ~QueuePush(t)
      PROVE  Finishes
  BY <1>2, <1>4 DEF QueueComposition, QueueReturnsEarly, QueueEnter, QueueSignal,
                    InHand
<1>5. CASE CompositePop
  <2>1. /\ InHand = <<>> /\ InHand' = <<Head(composite_queue_)>>
        /\ hand'["frame"] = hand["frame"]
        /\ Pending' = (frame_queue_ \o <<Head(composite_queue_)>>) \o Tail(composite_queue_)
    BY <1>5 DEF CompositePop, InHand, Goto, Pending
  <2>2. frame_queue_ \o <<>> = frame_queue_
    OBVIOUS
  <2>3. Pending' = frame_queue_ \o composite_queue_
    BY <1>5, <2>1, TakeOut DEF CompositePop
  <2>. QED
    BY <1>1, <2>1, <2>2, <2>3 DEF Finishes
<1>6. CASE QueueFrame
  <2>1. hand["compositor"] \in Composition
    BY <1>6 DEF QueueFrame, Hands
  <2>2. /\ InHand = <<hand["compositor"]>> /\ InHand' = <<>>
        /\ hand'["frame"] = hand["frame"]
        /\ Pending' = (Append(frame_queue_, hand["compositor"]) \o <<>>) \o composite_queue_
    BY <1>6 DEF QueueFrame, CompositeDone, InHand, Goto, Pending
  <2>3. Append(frame_queue_, hand["compositor"]) \o <<>> = frame_queue_ \o <<hand["compositor"]>>
    BY <2>1
  <2>. QED
    BY <1>1, <2>2, <2>3 DEF Finishes
<1>7. CASE CompositeDropsFrame \/ CompositeDisplayState
  <2>1. hand["compositor"] \in Composition
    BY <1>7 DEF CompositeDropsFrame, CompositeDisplayState, Hands
  <2>2. /\ InHand = <<hand["compositor"]>> /\ InHand' = <<>>
        /\ hand'["frame"] = hand["frame"]
        /\ Pending' = (frame_queue_ \o <<>>) \o composite_queue_
    BY <1>7 DEF CompositeDropsFrame, CompositeDisplayState, CompositeDone,
                InHand, Goto, Pending
  <2>3. frame_queue_ \o <<>> = frame_queue_
    OBVIOUS
  <2>4. Len(frame_queue_) + 1 \in DOMAIN Pending
    BY <1>1, <2>1, <2>2
  <2>5. Pending' = Stream!RemoveAt(Pending, Len(frame_queue_) + 1)
    <3>1. frame_queue_ \in Seq(Composition) /\ composite_queue_ \in Seq(Composition)
      OBVIOUS
    <3>2. Stream!RemoveAt((frame_queue_ \o <<hand["compositor"]>>) \o composite_queue_,
                          Len(frame_queue_) + 1) = frame_queue_ \o composite_queue_
      BY ONLY <2>1, <3>1, RemoveBetween
    <3>. QED
      BY <1>1, <2>2, <2>3, <3>2
  <2>. QED
    BY <2>2, <2>4, <2>5 DEF Forgets
<1>8. CASE HaveQueuedComposites \/ WaitForSignal \/ WaitReturnsSignalled
           \/ WaitReturnsTimedOut \/ CompositeInitFails \/ CompositeFindsNothing
           \/ SquashAllReturns \/ SquashAllApplies
  BY <1>2, <1>8
  DEF HaveQueuedComposites, WaitForSignal, WaitReturnsSignalled, WaitReturnsTimedOut,
      CompositeInitFails, CompositeFindsNothing, SquashAllReturns, SquashAllApplies,
      InHand, Goto
<1>9. ASSUME FramePop, frame_queue_ # <<>>, pc["frame"] \in {"routine", "waiting"},
             Goto("frame", "commit"), UNCHANGED composite_queue_
      PROVE  Applies
  <2>1. InHand' = InHand
    BY <1>9 DEF FramePop, InHand, Goto
  <2>2. Pending' = (Tail(frame_queue_) \o InHand) \o composite_queue_
    BY <1>9, <2>1 DEF FramePop, Pending, InHand
  <2>3. /\ Head(Pending) = Head(frame_queue_) /\ Pending # <<>>
        /\ Tail(Pending) = Tail(frame_queue_ \o InHand) \o composite_queue_
        /\ Tail(frame_queue_ \o InHand) = Tail(frame_queue_) \o InHand
    <3> DEFINE q == frame_queue_ \o InHand
    <3>1. frame_queue_ \in Seq(Composition) /\ InHand \in Seq(Composition)
          /\ composite_queue_ \in Seq(Composition)
      BY PendingTyped DEF TypeOK
    <3>2. /\ Head(q) = Head(frame_queue_) /\ q # <<>>
          /\ Tail(q) = Tail(frame_queue_) \o InHand
      BY <1>9, <3>1, PopInFront
    <3>3. q \in Seq(Composition)
      BY <3>1
    <3>4. Pending = q \o composite_queue_
      BY <1>1
    <3> HIDE DEF q
    <3>5. /\ Head(Pending) = Head(q) /\ Pending # <<>>
          /\ Tail(Pending) = Tail(q) \o composite_queue_
      <4>1. /\ Head(q \o composite_queue_) = Head(q)
            /\ Tail(q \o composite_queue_) = Tail(q) \o composite_queue_
            /\ q \o composite_queue_ # <<>>
        BY ONLY <3>1, <3>2, <3>3, PopInFront
      <4>. QED
        BY ONLY <3>4, <4>1, Zenon
    <3>. QED
      BY <3>2, <3>5 DEF q
  <2>4. Head(frame_queue_).type = "FRAME"
    BY <1>9 DEF FrameSync
  <2>. QED
    BY <1>9, <2>2, <2>3, <2>4 DEF Applies, FramePop, Hands
<1>10. CASE FrameWorker
  <2>1. CASE frame_queue_ = <<>>
    BY <1>2, <1>10, <2>1 DEF FrameWorker, FrameRoutine, FrameWaitReturns, InHand, Goto
  <2>2. CASE frame_queue_ # <<>>
    BY <1>9, <1>10, <2>2 DEF FrameWorker, FrameRoutine, FrameWaitReturns
  <2>. QED
    BY <2>1, <2>2
<1>11. ASSUME NEW w \in Workers, ApplyFrame(w)
       PROVE  Finishes
  BY <1>2, <1>11 DEF ApplyFrame, CommitFrame, ApplyFrameSwap,
                     DisablePlanes, ApplyReturns, Goto, InHand
<1>12. ASSUME NEW w \in Workers, WaitTimeout(w) \/ SpuriousWakeup(w)
       PROVE  Finishes
  BY <1>2, <1>12 DEF WaitTimeout, SpuriousWakeup, InHand
<1>13. CASE UNCHANGED vars
  BY <1>2, <1>13 DEF vars, InHand
<1>. QED
  BY <1>3, <1>4, <1>5, <1>6, <1>7, <1>8, <1>10, <1>11, <1>12, <1>13, SpuriousAssumption
  DEF Next, CompositorWorker

\* Both workers keep Hands.
LEMMA HandsStep ==
    ASSUME TypeOK, Hands, [Next]_vars
    PROVE  Hands'
<1> USE DEF TypeOK, Workers, Hands
<1>1. ASSUME NEW t \in Threads, QueueComposition(t) PROVE Hands'
  BY <1>1 DEF QueueComposition, QueueReturnsEarly, QueueEnter, QueuePush, QueueSignal
<1>2. CASE CompositePop
  <2>1. Head(composite_queue_) \in Composition
    BY <1>2 DEF CompositePop
  <2>. QED
    BY <1>2, <2>1 DEF CompositePop, Goto
<1>3. CASE CompositorWorker /\ ~CompositePop
  BY <1>3
  DEF CompositorWorker, HaveQueuedComposites, WaitForSignal, WaitReturnsSignalled,
      WaitReturnsTimedOut, CompositeInitFails, CompositeFindsNothing, CompositeDropsFrame,
      QueueFrame, CompositeDisplayState, SquashAllReturns, SquashAllApplies,
      CompositeDone, Goto
<1>4. CASE FrameWorker
  BY <1>4 DEF FrameWorker, FrameRoutine, FrameWaitReturns, FramePop, Goto
<1>5. ASSUME NEW w \in Workers, ApplyFrame(w) PROVE Hands'
  BY <1>5 DEF ApplyFrame, CommitFrame, ApplyFrameSwap,
              DisablePlanes, ApplyReturns, Goto
<1>6. ASSUME NEW w \in Workers, WaitTimeout(w) \/ SpuriousWakeup(w) PROVE Hands'
  BY <1>6 DEF WaitTimeout, SpuriousWakeup
<1>7. CASE UNCHANGED vars
  BY <1>7 DEF vars
<1>. QED
  BY <1>1, <1>2, <1>3, <1>4, <1>5, <1>6, <1>7, SpuriousAssumption DEF Next

\* Compositions are told apart by their ids: one that a thread is about to
\* push is not pending and no other thread has it.
Pushes(t) == hal[t].at = "push"
Distinct ==
    /\ created \in 0 .. MaxCompositions
    /\ \A c \in Range(Pending) : c.id \in 1 .. created
    /\ \A t \in Threads : Pushes(t) =>
           /\ hal[t].comp.id \in 1 .. created
           /\ \A c \in Range(Pending) : c.id # hal[t].comp.id
    /\ \A t, u \in Threads :
           Pushes(t) /\ Pushes(u) /\ t # u => hal[t].comp.id # hal[u].comp.id

\* Nothing comes to be pending but what is accepted.
LEMMA PendingShrinks ==
    ASSUME TypeOK, Hands, Finishes \/ Forgets \/ Applies
    PROVE  Range(Pending') \subseteq Range(Pending)
<1>1. Pending \in Seq(Composition)
  BY PendingTyped
<1>2. CASE Finishes
  BY <1>2 DEF Finishes
<1>3. ASSUME NEW i \in DOMAIN Pending, Pending' = Stream!RemoveAt(Pending, i)
      PROVE  Range(Pending') \subseteq Range(Pending)
  <2> DEFINE a == SubSeq(Pending, 1, i - 1)
             b == SubSeq(Pending, i + 1, Len(Pending))
  <2>1. i \in 1 .. Len(Pending) /\ Len(Pending) \in Nat
    BY <1>1
  <2>2. /\ a \in Seq(Composition) /\ Len(a) = i - 1
        /\ \A j \in 1 .. Len(a) : a[j] = Pending[j]
    BY <1>1, <2>1
  <2>3. \A j \in i + 1 .. Len(Pending) : Pending[j] \in Composition
    BY <1>1, <2>1
  <2>4. /\ b \in Seq(Composition) /\ Len(b) = Len(Pending) - i
        /\ \A j \in 1 .. Len(Pending) - (i + 1) + 1 : b[j] = Pending[(i + 1) + j - 1]
    BY <2>1, <2>3, SubSeqProperties
  <2> HIDE DEF a, b
  <2>5. Range(a) \subseteq Range(Pending)
    BY <1>1, <2>1, <2>2 DEF Range
  <2>6. Range(b) \subseteq Range(Pending)
    <3>1. \A j \in 1 .. Len(b) : i + j \in 1 .. Len(Pending) /\ b[j] = Pending[i + j]
      BY <2>1, <2>4
    <3>. QED
      BY <1>1, <2>4, <3>1 DEF Range
  <2>7. Pending' = a \o b
    BY <1>3 DEF a, b, Stream!RemoveAt
  <2>. QED
    BY <2>2, <2>4, <2>5, <2>6, <2>7, RangeConcatenation
<1>4. CASE Applies
  <2>1. /\ DOMAIN Pending = 1 .. Len(Pending) /\ DOMAIN Tail(Pending) = 1 .. Len(Pending) - 1
        /\ \A j \in 1 .. Len(Pending) - 1 : Tail(Pending)[j] = Pending[j + 1]
        /\ Len(Pending) \in Nat \ {0}
    BY <1>1, <1>4 DEF Applies
  <2>2. \A j \in DOMAIN Tail(Pending) : j + 1 \in DOMAIN Pending
    BY <2>1
  <2>. QED
    BY <1>4, <2>1, <2>2 DEF Applies, Range
<1>. QED
  BY <1>2, <1>3, <1>4 DEF Forgets

\* What QueuePush makes pending.
LEMMA PendingGrows ==
    ASSUME TypeOK, Hands, NEW c \in Composition, Accepts(c)
    PROVE  Range(Pending') = Range(Pending) \cup {c}
<1>1. Pending \in Seq(Composition)
  BY PendingTyped
<1>2. /\ DOMAIN Append(Pending, c) = 1 .. Len(Pending) + 1 /\ DOMAIN Pending = 1 .. Len(Pending)
      /\ \A i \in 1 .. Len(Pending) : Append(Pending, c)[i] = Pending[i]
      /\ Append(Pending, c)[Len(Pending) + 1] = c /\ Len(Pending) \in Nat
  BY <1>1
<1>. QED
  BY <1>2 DEF Accepts, Range

\* Each composition gets an id of its own, and is pushed once.
LEMMA DistinctStep ==
    ASSUME TypeOK, Hands, FrameSync, Distinct, [Next]_vars
    PROVE  Distinct'
<1> USE BoundAssumption DEF TypeOK
<1>1. \A t \in Threads : Pushes(t) => hal[t].comp \in Composition
  BY DEF Pushes, HalState
<1>2. ASSUME UNCHANGED <<hal, created>>, Range(Pending') \subseteq Range(Pending)
      PROVE  Distinct'
  BY <1>2 DEF Distinct, Pushes
<1>3. ASSUME NEW t \in Threads, QueuePush(t) PROVE Distinct'
  <2>1. hal[t].comp \in Composition /\ Pushes(t)
    BY <1>1, <1>3 DEF QueuePush, Pushes
  <2>2. Accepts(hal[t].comp)
    <3>1. Pending' = (frame_queue_ \o InHand) \o Append(composite_queue_, hal[t].comp)
          /\ hand' = hand
      BY <1>3 DEF QueuePush, Pending, InHand
    <3>2. (frame_queue_ \o InHand) \o Append(composite_queue_, hal[t].comp)
              = Append((frame_queue_ \o InHand) \o composite_queue_, hal[t].comp)
      BY <2>1, PushBehind, PendingTyped
    <3>. QED
      BY <3>1, <3>2, PendingTyped DEF Accepts
  <2>3. Range(Pending') = Range(Pending) \cup {hal[t].comp}
    BY <2>1, <2>2, PendingGrows
  <2>4. /\ ~Pushes(t)' /\ created' = created
        /\ \A u \in Threads \ {t} : hal'[u] = hal[u]
    BY <1>3 DEF QueuePush, Pushes
  <2>5. \A u \in Threads : Pushes(u)' => u # t /\ Pushes(u) /\ hal'[u] = hal[u]
    BY <2>4 DEF Pushes
  <2>. QED
    BY <2>1, <2>3, <2>4, <2>5 DEF Distinct
<1>4. ASSUME ~(\E t \in Threads : QueuePush(t))
      PROVE  Range(Pending') \subseteq Range(Pending)
  BY <1>4, PendingSteps, PendingShrinks
<1>5. ASSUME NEW t \in Threads, NEW type \in Types,
             QueueReturnsEarly(t, type) \/ QueueEnter(t, type)
      PROVE  Distinct'
  <2>1. Pending' = Pending /\ created' = created + 1 /\ created < MaxCompositions
    BY <1>5 DEF QueueReturnsEarly, QueueEnter, Pending
  <2>2. /\ \A u \in Threads \ {t} : hal'[u] = hal[u]
        /\ Pushes(t)' => hal'[t].comp.id = created + 1
        /\ ~Pushes(t)
    BY <1>5 DEF QueueReturnsEarly, QueueEnter, Pushes, Fresh
  <2>3. \A u \in Threads \ {t} : Pushes(u)' = Pushes(u)
    BY <2>2 DEF Pushes
  <2>. QED
    <3>1. /\ created' \in 0 .. MaxCompositions
          /\ \A c \in Range(Pending') : c.id \in 1 .. created /\ c.id \in 1 .. created'
      BY <2>1, BoundAssumption DEF Distinct
    <3>2. ASSUME NEW u \in Threads, Pushes(u)'
          PROVE  /\ hal'[u].comp.id \in 1 .. created'
                 /\ \A c \in Range(Pending') : c.id # hal'[u].comp.id
                 /\ u # t => hal'[u].comp.id \in 1 .. created
      <4>1. CASE u = t
        BY <2>1, <2>2, <3>1, <3>2, <4>1
      <4>2. CASE u # t
        BY <2>1, <2>2, <2>3, <3>2, <4>2 DEF Distinct
      <4>. QED
        BY <4>1, <4>2
    <3>3. ASSUME NEW u \in Threads, NEW w \in Threads, Pushes(u)', Pushes(w)', u # w
          PROVE  hal'[u].comp.id # hal'[w].comp.id
      <4>1. CASE u = t \/ w = t
        BY <2>1, <2>2, <3>2, <3>3, <4>1
      <4>2. CASE u # t /\ w # t
        BY <2>2, <2>3, <3>3, <4>2 DEF Distinct
      <4>. QED
        BY <4>1, <4>2
    <3>. QED
      BY <3>1, <3>2, <3>3 DEF Distinct
<1>6. ASSUME NEW t \in Threads, QueueSignal(t) PROVE Distinct'
  <2>1. Pending' = Pending /\ created' = created
    BY <1>6 DEF QueueSignal, Pending
  <2>2. /\ \A u \in Threads \ {t} : hal'[u] = hal[u]
        /\ ~Pushes(t)'
    BY <1>6 DEF QueueSignal, Pushes, Idle
  <2>. QED
    BY <2>1, <2>2 DEF Distinct, Pushes
<1>7. ASSUME ~(\E t \in Threads : QueueComposition(t))
      PROVE  Distinct'
  <2>1. UNCHANGED <<hal, created>>
    <3>1. CASE CompositorWorker
      BY <3>1
      DEF CompositorWorker, HaveQueuedComposites, WaitForSignal, WaitReturnsSignalled,
          WaitReturnsTimedOut, CompositeInitFails, CompositeFindsNothing, CompositePop,
          CompositeDropsFrame, QueueFrame, CompositeDisplayState,
          SquashAllReturns, SquashAllApplies, halVars
    <3>2. CASE FrameWorker
      BY <3>2 DEF FrameWorker, FrameRoutine, FrameWaitReturns, halVars
    <3>3. ASSUME NEW w \in Workers, ApplyFrame(w) \/ WaitTimeout(w) \/ SpuriousWakeup(w)
          PROVE  UNCHANGED <<hal, created>>
      BY <3>3 DEF ApplyFrame, CommitFrame, ApplyFrameSwap, WaitTimeout,
                  SpuriousWakeup, halVars
    <3>4. CASE UNCHANGED vars
      BY <3>4 DEF vars
    <3>. QED
      BY <1>7, <3>1, <3>2, <3>3, <3>4, SpuriousAssumption DEF Next
  <2>2. ~(\E t \in Threads : QueuePush(t))
    BY <1>7 DEF QueueComposition
  <2>. QED
    BY <1>2, <1>4, <2>1, <2>2
<1>. QED
  BY <1>3, <1>5, <1>6, <1>7 DEF QueueComposition

\* Frames reach ApplyFrame in the order QueueComposition accepted them, one at
\* a time and never twice, for any number of callers, any depth of the queue,
\* with errors and spurious wakeups: DisplayCompositor implements FrameStream.
THEOREM StreamImplemented == Spec => FramesInOrder
<1>1. Init => Hands /\ FrameSync /\ Distinct
  <2> SUFFICES ASSUME Init PROVE Hands /\ FrameSync /\ Distinct
    OBVIOUS
  <2>1. Hands /\ FrameSync
    BY DEF Init, Hands, FrameSync, Workers
  <2>2. Pending = <<>> /\ Range(Pending) = {}
    BY DEF Init, Pending, Range, Workers
  <2>3. \A t \in Threads : ~Pushes(t)
    BY DEF Init, Pushes, Idle
  <2>. QED
    BY <2>1, <2>2, <2>3, BoundAssumption DEF Init, Distinct
<1>2. TypeOK /\ Hands /\ FrameSync /\ Distinct /\ [Next]_vars
        => Hands' /\ FrameSync' /\ Distinct'
  BY HandsStep, FrameSyncStep, DistinctStep
<1>3. Init => Stream!Init
  BY DEF Init, Stream!Init, Pending, Workers
<1>4. TypeOK /\ Hands /\ FrameSync /\ Distinct /\ [Next]_vars
        => [Stream!Next]_<<Pending, hand["frame"]>>
  <2> SUFFICES ASSUME TypeOK, Hands, FrameSync, Distinct, [Next]_vars
               PROVE  Stream!Next \/ UNCHANGED <<Pending, hand["frame"]>>
    OBVIOUS
  <2>1. CASE Finishes
    BY <2>1 DEF Finishes, Stream!Next, Stream!Finish
  <2>2. CASE Forgets
    BY <2>2 DEF Forgets, Stream!Next, Stream!LeaveEarly
  <2>3. CASE Applies
    BY <2>3 DEF Applies, Stream!Next, Stream!Apply
  <2>4. ASSUME NEW t \in Threads, QueuePush(t), Accepts(hal[t].comp)
        PROVE  Stream!Next
    <3>1. hal[t].comp \in Composition /\ Pushes(t)
      BY <2>4 DEF QueuePush, TypeOK, HalState, Pushes
    <3>2. hal[t].comp \in [id : 1 .. MaxCompositions, type : QueuedTypes]
      BY <3>1, BoundAssumption DEF Distinct, Composition
    <3>3. hal[t].comp \notin Range(Pending)
      BY <3>1 DEF Distinct
    <3>. QED
      BY <2>4, <3>2, <3>3 DEF Accepts, Stream!Next, Stream!Accept, Stream!Range, Range
  <2>. QED
    BY <2>1, <2>2, <2>3, <2>4, PendingSteps
<1>. QED
  BY <1>1, <1>2, <1>3, <1>4, TypeCorrect, PTL DEF Spec, FramesInOrder, Stream!Spec
=============================================================================
