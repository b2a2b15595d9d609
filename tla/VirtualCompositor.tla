------------------------- MODULE VirtualCompositor -------------------------
(***************************************************************************)
(* VirtualCompositorWorker: the queue and the fences of the virtual        *)
(* display.                                                                *)
(*                                                                         *)
(* hwc_set, on SurfaceFlinger's thread, hands out a retire fence and a     *)
(* release fence per layer for every frame, all of them points on one sync *)
(* timeline, and queues the frame.  The worker waits for the acquire       *)
(* fences of a frame and then moves the timeline to the frame's last       *)
(* point, which signals its fences.  A point p is signalled exactly when   *)
(* p <= timeline_current_.                                                 *)
(*                                                                         *)
(* The queue's critical sections are single steps.  Only hwc_set's thread  *)
(* touches timeline_, and only the worker timeline_current_.               *)
(***************************************************************************)
EXTENDS Naturals, Sequences

CONSTANTS
    MaxQueueDepth,   \* kMaxQueueDepth
    MaxLayers,       \* bound: layers of a frame that are not skipped
    MaxPoints,       \* bound: fences created in a behaviour
    SpuriousWakeups, \* may the worker's condition wait return unsignalled?
    Failures         \* may an acquire fence time out, or the timeline fail?

ASSUME DepthAssumption == MaxQueueDepth \in Nat \ {0}
ASSUME BoundAssumption == MaxLayers \in Nat /\ MaxPoints \in Nat
ASSUME FlagAssumption == {SpuriousWakeups, Failures} \subseteq BOOLEAN

\* A VirtualComposition: the point of its first fence, the retire fence, and
\* that of its last one.
Composition == [retire : Nat, release_timeline : Nat]
None == [retire |-> 0, release_timeline |-> 0]

VARIABLES
    timeline_,         \* the last point a fence was created for
    timeline_current_, \* the point the timeline has reached
    composite_queue_,
    caller,            \* where hwc_set's thread is in QueueComposite
    queued,            \* the composition it is about to push
    pc,                \* where the worker is
    cond,              \* the worker's condition wait
    hand               \* the composition the worker took

vars == <<timeline_, timeline_current_, composite_queue_, caller, queued, pc,
          cond, hand>>

TypeOK ==
    /\ timeline_ \in Nat
    /\ timeline_current_ \in Nat
    /\ composite_queue_ \in Seq(Composition)
    /\ Len(composite_queue_) <= MaxQueueDepth
    /\ caller \in {"idle", "push"}
    /\ queued \in Composition
    /\ pc \in {"routine", "waiting", "compose"}
    /\ cond \in {"none", "forever", "signalled"}
    /\ hand \in Composition

Init ==
    /\ timeline_ = 0
    /\ timeline_current_ = 0
    /\ composite_queue_ = <<>>
    /\ caller = "idle"
    /\ queued = None
    /\ pc = "routine"
    /\ cond = "none"
    /\ hand = None

-----------------------------------------------------------------------------
(***************************************************************************)
(* QueueComposite.                                                         *)
(***************************************************************************)
\* The fences are created before the lock is taken.
QueueComposite(layers) ==
    /\ caller = "idle"
    /\ timeline_ + 1 + layers <= MaxPoints
    /\ timeline_' = timeline_ + 1 + layers
    /\ queued' = [retire |-> timeline_ + 1, release_timeline |-> timeline_']
    /\ caller' = "push"
    /\ UNCHANGED <<timeline_current_, composite_queue_, pc, cond, hand>>

\* Mutant of QueueHasRoom: the limit is off by one.
QueueHasRoomMutant == Len(composite_queue_) <= MaxQueueDepth

QueueHasRoom == Len(composite_queue_) < MaxQueueDepth

\* The push and the signal, under the worker's lock, once there is room.
QueuePush ==
    /\ caller = "push"
    /\ QueueHasRoom
    /\ composite_queue_' = Append(composite_queue_, queued)
    /\ cond' = IF cond = "forever" THEN "signalled" ELSE cond
    /\ caller' = "idle"
    /\ queued' = None
    /\ UNCHANGED <<timeline_, timeline_current_, pc, hand>>

-----------------------------------------------------------------------------
(***************************************************************************)
(* Routine and Compose.                                                    *)
(***************************************************************************)
SpuriousWakeup ==
    /\ SpuriousWakeups
    /\ cond = "forever"
    /\ cond' = "signalled"
    /\ UNCHANGED <<timeline_, timeline_current_, composite_queue_, caller,
                   queued, pc, hand>>

\* Mutant of RoutineWaits: the worker waits without a look at the queue.
RoutineWaitsMutant ==
    /\ pc = "routine"
    /\ cond' = "forever"
    /\ pc' = "waiting"
    /\ UNCHANGED <<timeline_, timeline_current_, composite_queue_, caller,
                   queued, hand>>

\* The test of the queue and the start of the wait are one critical section.
RoutineWaits ==
    /\ pc = "routine"
    /\ composite_queue_ = <<>>
    /\ cond' = "forever"
    /\ pc' = "waiting"
    /\ UNCHANGED <<timeline_, timeline_current_, composite_queue_, caller,
                   queued, hand>>

\* The pop, at once or after a wait.
RoutinePops ==
    /\ pc = "routine" \/ (pc = "waiting" /\ cond = "signalled")
    /\ composite_queue_ # <<>>
    /\ hand' = Head(composite_queue_)
    /\ composite_queue_' = Tail(composite_queue_)
    /\ cond' = "none"
    /\ pc' = "compose"
    /\ UNCHANGED <<timeline_, timeline_current_, caller, queued>>

\* Compose returns at once when the wait ended with nothing in the queue.
RoutineFindsNothing ==
    /\ pc = "waiting"
    /\ cond = "signalled"
    /\ composite_queue_ = <<>>
    /\ cond' = "none"
    /\ pc' = "routine"
    /\ UNCHANGED <<timeline_, timeline_current_, composite_queue_, caller,
                   queued, hand>>

\* An acquire fence times out: the composition is forgotten, and its fences
\* stay unsignalled until a later one is finished.
ComposeGivesUp ==
    /\ Failures
    /\ pc = "compose"
    /\ pc' = "routine"
    /\ hand' = None
    /\ UNCHANGED <<timeline_, timeline_current_, composite_queue_, caller,
                   queued, cond>>

\* Mutant of FinishComposition: the timeline is moved to its last point.
FinishCompositionMutant(point) ==
    \/ timeline_current_' = timeline_
    \/ UNCHANGED timeline_current_ /\ (Failures \/ point <= timeline_current_)

\* The timeline moves forward to the point, unless the ioctl fails.
FinishComposition(point) ==
    \/ point > timeline_current_ /\ timeline_current_' = point
    \/ UNCHANGED timeline_current_ /\ (Failures \/ point <= timeline_current_)

\* All acquire fences have signalled.
Compose ==
    /\ pc = "compose"
    /\ FinishComposition(hand.release_timeline)
    /\ pc' = "routine"
    /\ hand' = None
    /\ UNCHANGED <<timeline_, composite_queue_, caller, queued, cond>>

-----------------------------------------------------------------------------
Routine == RoutineWaits \/ RoutinePops \/ RoutineFindsNothing
               \/ ComposeGivesUp \/ Compose

Next ==
    \/ \E layers \in 0 .. MaxLayers : QueueComposite(layers)
    \/ QueuePush
    \/ SpuriousWakeup
    \/ Routine

\* Both threads run, every wait for a fence ends, in time or by its timeout,
\* and the caller gets the lock it keeps asking for.
Fairness == SF_vars(QueuePush) /\ WF_vars(Routine)

Spec == Init /\ [][Next]_vars /\ Fairness

-----------------------------------------------------------------------------
(***************************************************************************)
(* Properties.                                                             *)
(***************************************************************************)
\* No fence of a frame is signalled while the frame is being submitted, queued
\* or waiting for its acquire fences, whatever became of the frames before it
\* and however many fences were created meanwhile.
NoEarlyRelease ==
    /\ caller = "push" => timeline_current_ < queued.retire
    /\ \A i \in DOMAIN composite_queue_ :
           timeline_current_ < composite_queue_[i].retire
    /\ pc = "compose" => timeline_current_ < hand.retire

\* QueueComposite returns, although it spins while the queue is full: the
\* worker tests the queue and starts to wait under the lock of the push.
QueueCompositeReturns == (caller = "push") ~> (caller = "idle")

\* Every queued frame is composed in the end.
QueueDrains == (composite_queue_ # <<>>) ~> (composite_queue_ = <<>>)
=============================================================================
