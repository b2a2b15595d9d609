---------------------- MODULE VirtualCompositorProofs ----------------------
(***************************************************************************)
(* Safety of VirtualCompositor for every queue depth and any number of     *)
(* frames and layers.                                                      *)
(*                                                                         *)
(* NoEarlyRelease is not inductive: finishing one frame moves the timeline *)
(* past every frame whose points are smaller.  FenceOrder adds that frames *)
(* hold disjoint ranges of points, ascending from the worker's hand        *)
(* through the queue to the caller, all above what is signalled.           *)
(***************************************************************************)
EXTENDS VirtualCompositor, TLAPS

FenceOrder ==
    /\ timeline_current_ <= timeline_
    /\ \A i \in DOMAIN composite_queue_ :
           /\ timeline_current_ < composite_queue_[i].retire
           /\ composite_queue_[i].retire <= composite_queue_[i].release_timeline
           /\ composite_queue_[i].release_timeline <= timeline_
           /\ caller = "push" =>
                  composite_queue_[i].release_timeline < queued.retire
           /\ pc = "compose" =>
                  hand.release_timeline < composite_queue_[i].retire
           /\ \A j \in DOMAIN composite_queue_ : i < j =>
                  composite_queue_[i].release_timeline
                      < composite_queue_[j].retire
    /\ caller = "push" =>
           /\ timeline_current_ < queued.retire
           /\ queued.retire <= queued.release_timeline
           /\ queued.release_timeline <= timeline_
    /\ pc = "compose" =>
           /\ timeline_current_ < hand.retire
           /\ hand.retire <= hand.release_timeline
           /\ hand.release_timeline <= timeline_
    /\ caller = "push" /\ pc = "compose" =>
           hand.release_timeline < queued.retire

\* Popping composite_queue_ in Routine yields its first element, and the rest
\* is the queue moved up by one.
LEMMA QueuePop ==
    ASSUME NEW S, NEW q \in Seq(S), q # <<>>
    PROVE  /\ Head(q) \in S /\ Head(q) = q[1] /\ 1 \in DOMAIN q
           /\ Tail(q) \in Seq(S) /\ Len(Tail(q)) = Len(q) - 1
           /\ \A i \in DOMAIN Tail(q) :
                  i \in Nat /\ i + 1 \in DOMAIN q /\ Tail(q)[i] = q[i + 1]
  OBVIOUS

\* A push in QueueComposite keeps every element and adds one behind them.
LEMMA QueueAppend ==
    ASSUME NEW S, NEW q \in Seq(S), NEW c \in S
    PROVE  /\ Append(q, c) \in Seq(S) /\ Len(Append(q, c)) = Len(q) + 1
           /\ \A i \in DOMAIN Append(q, c) :
                  \/ i \in DOMAIN q /\ Append(q, c)[i] = q[i]
                  \/ i = Len(q) + 1 /\ Append(q, c)[i] = c
  OBVIOUS

\* A state of the virtual compositor is typed, and its queue never exceeds
\* kMaxQueueDepth.
THEOREM VirtualTypeCorrect == Spec => []TypeOK
<1>1. Init => TypeOK
  BY DepthAssumption DEF Init, TypeOK, None, Composition
<1>2. TypeOK /\ [Next]_vars => TypeOK'
  <2> SUFFICES ASSUME TypeOK, [Next]_vars PROVE TypeOK'
    OBVIOUS
  <2> USE DEF TypeOK
  <2>0. None \in Composition /\ MaxQueueDepth \in Nat /\ MaxLayers \in Nat
    BY DepthAssumption, BoundAssumption DEF None, Composition
  <2>1. ASSUME NEW layers \in 0 .. MaxLayers, QueueComposite(layers)
        PROVE  TypeOK'
    <3>1. timeline_' \in Nat /\ queued' \in Composition
      BY <2>0, <2>1 DEF QueueComposite, Composition
    <3>. QED
      BY <2>1, <3>1 DEF QueueComposite
  <2>2. CASE QueuePush
    <3>1. /\ composite_queue_' \in Seq(Composition)
          /\ Len(composite_queue_') <= MaxQueueDepth
      BY <2>0, <2>2, QueueAppend DEF QueuePush, QueueHasRoom
    <3>. QED
      BY <2>0, <2>2, <3>1 DEF QueuePush
  <2>3. CASE SpuriousWakeup
    BY <2>3 DEF SpuriousWakeup
  <2>4. CASE RoutineWaits
    BY <2>4 DEF RoutineWaits
  <2>5. CASE RoutinePops
    <3>1. /\ composite_queue_' \in Seq(Composition)
          /\ Len(composite_queue_') <= MaxQueueDepth
          /\ hand' \in Composition
      BY <2>0, <2>5, QueuePop DEF RoutinePops
    <3>. QED
      BY <2>5, <3>1 DEF RoutinePops
  <2>6. CASE RoutineFindsNothing
    BY <2>6 DEF RoutineFindsNothing
  <2>7. CASE ComposeGivesUp
    BY <2>0, <2>7 DEF ComposeGivesUp
  <2>8. CASE Compose
    <3>1. timeline_current_' \in Nat
      BY <2>8 DEF Compose, FinishComposition, Composition
    <3>. QED
      BY <2>0, <2>8, <3>1 DEF Compose
  <2>9. CASE UNCHANGED vars
    BY <2>9 DEF vars
  <2>. QED
    BY <2>1, <2>2, <2>3, <2>4, <2>5, <2>6, <2>7, <2>8, <2>9 DEF Next, Routine
<1>. QED
  BY <1>1, <1>2, PTL DEF Spec

\* Every step keeps the points of the frames in the order in which the frames
\* will be finished.
LEMMA FenceOrderStep ==
    ASSUME TypeOK, FenceOrder, [Next]_vars
    PROVE  FenceOrder'
<1> USE DEF TypeOK
<1>0. MaxLayers \in Nat
  BY BoundAssumption
<1>q. \A i \in DOMAIN composite_queue_ :
          /\ i \in Nat
          /\ composite_queue_[i].retire \in Nat
          /\ composite_queue_[i].release_timeline \in Nat
  <2>1. \A i \in DOMAIN composite_queue_ :
            i \in Nat /\ composite_queue_[i] \in Composition
    OBVIOUS
  <2>2. \A c \in Composition : c.retire \in Nat /\ c.release_timeline \in Nat
    BY DEF Composition
  <2>. QED
    BY <2>1, <2>2
<1>c. /\ queued.retire \in Nat /\ queued.release_timeline \in Nat
      /\ hand.retire \in Nat /\ hand.release_timeline \in Nat
  BY DEF Composition
<1>1. ASSUME NEW layers \in 0 .. MaxLayers, QueueComposite(layers)
      PROVE  FenceOrder'
  <2>1. /\ timeline_' \in Nat /\ timeline_ < timeline_'
        /\ queued'.retire = timeline_ + 1
        /\ queued'.release_timeline = timeline_'
        /\ queued'.retire <= queued'.release_timeline
    BY <1>0, <1>1 DEF QueueComposite
  <2>2. /\ caller' = "push"
        /\ UNCHANGED <<timeline_current_, composite_queue_, pc, hand>>
    BY <1>1 DEF QueueComposite
  <2>. QED
    BY <1>q, <1>c, <2>1, <2>2 DEF FenceOrder
<1>2. CASE QueuePush
  <2>1. /\ composite_queue_' = Append(composite_queue_, queued)
        /\ caller = "push" /\ caller' = "idle"
        /\ UNCHANGED <<timeline_, timeline_current_, pc, hand>>
    BY <1>2 DEF QueuePush
  <2>2. \A i \in DOMAIN composite_queue_' :
            \/ i \in DOMAIN composite_queue_
                   /\ composite_queue_'[i] = composite_queue_[i]
            \/ i = Len(composite_queue_) + 1 /\ composite_queue_'[i] = queued
    BY <2>1, QueueAppend
  <2>3. \A i \in DOMAIN composite_queue_ : i \in Nat /\ i <= Len(composite_queue_)
    OBVIOUS
  <2>. QED
    BY <1>q, <1>c, <2>1, <2>2, <2>3 DEF FenceOrder
<1>3. CASE SpuriousWakeup
  BY <1>3 DEF SpuriousWakeup, FenceOrder
<1>4. CASE RoutineWaits
  BY <1>4 DEF RoutineWaits, FenceOrder
<1>5. CASE RoutinePops
  <2>1. /\ composite_queue_' = Tail(composite_queue_)
        /\ hand' = composite_queue_[1] /\ 1 \in DOMAIN composite_queue_
        /\ UNCHANGED <<timeline_, timeline_current_, caller, queued>>
    BY <1>5, QueuePop DEF RoutinePops
  <2>2. \A i \in DOMAIN composite_queue_' :
            /\ i \in Nat /\ 1 < i + 1 /\ i + 1 \in DOMAIN composite_queue_
            /\ composite_queue_'[i] = composite_queue_[i + 1]
    BY <1>5, <2>1, QueuePop DEF RoutinePops
  <2>3. \A i, j \in DOMAIN composite_queue_' : i < j => i + 1 < j + 1
    BY <2>2
  <2>4. \A i \in DOMAIN composite_queue_' :
            hand'.release_timeline < composite_queue_'[i].retire
    BY <1>q, <2>1, <2>2 DEF FenceOrder
  <2>. QED
    BY <1>q, <1>c, <2>1, <2>2, <2>3, <2>4 DEF FenceOrder
<1>6. CASE RoutineFindsNothing
  BY <1>6 DEF RoutineFindsNothing, FenceOrder
<1>7. CASE ComposeGivesUp
  BY <1>7 DEF ComposeGivesUp, FenceOrder
<1>8. CASE Compose
  <2>1. timeline_current_' = timeline_current_
            \/ timeline_current_' = hand.release_timeline
    BY <1>8 DEF Compose, FinishComposition
  <2>2. timeline_current_' <= hand.release_timeline
    BY <1>c, <1>8, <2>1 DEF Compose, FenceOrder
  <2>. QED
    BY <1>q, <1>c, <1>8, <2>1, <2>2 DEF Compose, FenceOrder
<1>9. CASE UNCHANGED vars
  BY <1>9 DEF vars, FenceOrder
<1>. QED
  BY <1>1, <1>2, <1>3, <1>4, <1>5, <1>6, <1>7, <1>8, <1>9 DEF Next, Routine

\* FinishComposition never signals a fence of a frame whose acquire fences the
\* worker has not waited for, for any depth of the queue, any number of layers
\* and any pattern of timeouts.
THEOREM NoFenceReleasedEarly == Spec => []NoEarlyRelease
<1>1. Init => FenceOrder
  BY DEF Init, FenceOrder
<1>2. TypeOK /\ FenceOrder /\ [Next]_vars => FenceOrder'
  BY FenceOrderStep
<1>3. FenceOrder => NoEarlyRelease
  BY DEF FenceOrder, NoEarlyRelease
<1>. QED
  BY <1>1, <1>2, <1>3, VirtualTypeCorrect, PTL DEF Spec
=============================================================================
