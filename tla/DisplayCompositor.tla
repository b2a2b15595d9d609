------------------------- MODULE DisplayCompositor -------------------------
(***************************************************************************)
(* The threads and queues of one DrmDisplayCompositor.                     *)
(*                                                                         *)
(* HAL threads (SurfaceFlinger's, the hotplug listener's) call             *)
(* QueueComposition, which pushes on composite_queue_ and signals the      *)
(* compositor worker.  That worker pops a composition and applies it       *)
(* (DPMS, MODESET) or prepares it and hands it to the frame worker         *)
(* (FRAME), which commits it to the kernel.  After half a second without   *)
(* work the compositor worker squashes the active composition and commits  *)
(* the result itself.                                                      *)
(*                                                                         *)
(* A critical section that only touches what its mutex protects is one     *)
(* step.  The one that spans steps is SquashAll's: lock_ is held exactly   *)
(* while pc["compositor"] = "squash".  What threads do outside a lock      *)
(* (active_, the test and the wait of Routine) is split at every point     *)
(* where another thread can see the difference.  The mode itself is        *)
(* ModeSet's, the buffers are FramePipeline's.                             *)
(***************************************************************************)
EXTENDS Naturals, Sequences

CONSTANTS
    Threads,          \* HAL threads that call QueueComposition
    MaxQueueDepth,    \* DRM_DISPLAY_COMPOSITOR_MAX_QUEUE_DEPTH
    MaxCompositions,  \* bound: compositions created in a behaviour
    SpuriousWorkers,  \* workers whose condition wait may return unsignalled
    IoctlFailures     \* may the kernel, GL or a property blob report an error?

Workers == {"compositor", "frame"}
Types == {"FRAME", "DPMS_ON", "DPMS_OFF", "MODESET", "EMPTY"}
QueuedTypes == Types \ {"EMPTY"}

ASSUME DepthAssumption == MaxQueueDepth \in Nat \ {0}
ASSUME BoundAssumption == MaxCompositions \in Nat
ASSUME SpuriousAssumption == SpuriousWorkers \subseteq Workers
ASSUME FailuresAssumption == IoctlFailures \in BOOLEAN

\* A composition: its identity, in creation order, and its DrmCompositionType.
Composition == [id : Nat, type : QueuedTypes]

\* A null unique_ptr.
None == [id |-> 0, type |-> "EMPTY"]

VARIABLES
    active_,             \* DrmDisplayCompositor::active_, guarded by no lock
    composite_queue_,    \* guarded by lock_
    hal,                 \* where each HAL thread is in QueueComposition
    pc,                  \* where each worker is
    cond,                \* each worker's condition variable wait
    hand,                \* the composition each worker is working on
    did_squash_all_,     \* DrmCompositorWorker::did_squash_all_
    pre_compositor_,     \* has the GL compositor been constructed?
    frame_queue_,        \* FrameWorker::frame_queue_, guarded by its lock
    active_composition_, \* the composition last applied
    created              \* how many compositions have been created

halVars == <<active_, hal, created>>
vars == <<active_, composite_queue_, hal, pc, cond, hand, did_squash_all_,
          pre_compositor_, frame_queue_, active_composition_, created>>

HalState ==
    [at : {"idle"}, comp : {None}] \cup
    [at : {"push"}, comp : Composition] \cup
    [at : {"signal"}, comp : {None}]
Idle == [at |-> "idle", comp |-> None]

CompositorPc == {"routine", "wait", "waiting", "composite", "compose",
                 "squash", "commit", "swap"}
FramePc == {"routine", "waiting", "commit", "swap"}
CondState == {"none", "timed", "forever", "signalled", "timedout"}

TypeOK ==
    /\ active_ \in BOOLEAN
    /\ composite_queue_ \in Seq(Composition)
    /\ hal \in [Threads -> HalState]
    /\ pc \in [Workers -> CompositorPc]
    /\ pc["frame"] \in FramePc
    /\ cond \in [Workers -> CondState]
    /\ hand \in [Workers -> Composition \cup {None}]
    /\ did_squash_all_ \in BOOLEAN
    /\ pre_compositor_ \in BOOLEAN
    /\ frame_queue_ \in Seq(Composition)
    /\ active_composition_ \in Composition \cup {None}
    /\ created \in Nat

Init ==
    /\ active_ = FALSE
    /\ composite_queue_ = <<>>
    /\ hal = [t \in Threads |-> Idle]
    /\ pc = [w \in Workers |-> "routine"]
    /\ cond = [w \in Workers |-> "none"]
    /\ hand = [w \in Workers |-> None]
    /\ did_squash_all_ = FALSE
    /\ pre_compositor_ = FALSE
    /\ frame_queue_ = <<>>
    /\ active_composition_ = None
    /\ created = 0

-----------------------------------------------------------------------------
(***************************************************************************)
(* Worker: the condition variable a worker sleeps on.                      *)
(***************************************************************************)
\* Mutant of CondSignal: only a wait with a timeout is woken.
CondSignalMutant(w) ==
    [cond EXCEPT ![w] = IF @ = "timed" THEN "signalled" ELSE @]

\* pthread_cond_signal: a signal nobody waits for leaves no trace.
CondSignal(w) ==
    [cond EXCEPT ![w] = IF @ \in {"timed", "forever"} THEN "signalled" ELSE @]

\* pthread_cond_timedwait gives up; a later signal no longer reaches it.
WaitTimeout(w) ==
    /\ cond[w] = "timed"
    /\ cond' = [cond EXCEPT ![w] = "timedout"]
    /\ UNCHANGED <<halVars, active_composition_, composite_queue_, pc, hand,
                   did_squash_all_, pre_compositor_, frame_queue_>>

\* POSIX lets a condition wait return although nobody signalled; the caller
\* sees the same 0.
SpuriousWakeup(w) ==
    /\ cond[w] \in {"timed", "forever"}
    /\ cond' = [cond EXCEPT ![w] = "signalled"]
    /\ UNCHANGED <<halVars, active_composition_, composite_queue_, pc, hand,
                   did_squash_all_, pre_compositor_, frame_queue_>>

-----------------------------------------------------------------------------
(***************************************************************************)
(* QueueComposition, called by a HAL thread.                               *)
(***************************************************************************)
Fresh(type) == [id |-> created + 1, type |-> type]

\* A frame for a display that is off is refused with -ENODEV; an empty
\* composition is accepted and forgotten.
QueueReturnsEarly(t, type) ==
    /\ hal[t].at = "idle"
    /\ created < MaxCompositions
    /\ \/ type = "FRAME" /\ ~active_
       \/ type = "EMPTY"
    /\ created' = created + 1
    /\ UNCHANGED <<active_, hal, active_composition_, composite_queue_, pc,
                   cond, hand, did_squash_all_, pre_compositor_,
                   frame_queue_>>

\* active_ follows a DPMS composition here, before the composition is queued
\* and outside lock_.
QueueEnter(t, type) ==
    /\ hal[t].at = "idle"
    /\ created < MaxCompositions
    /\ type \in QueuedTypes
    /\ type = "FRAME" => active_
    /\ created' = created + 1
    /\ hal' = [hal EXCEPT ![t] = [at |-> "push", comp |-> Fresh(type)]]
    /\ active_' = IF type \in {"DPMS_ON", "DPMS_OFF"} THEN type = "DPMS_ON"
                                                     ELSE active_
    /\ UNCHANGED <<active_composition_, composite_queue_, pc, cond, hand,
                   did_squash_all_, pre_compositor_, frame_queue_>>

LockFree == pc["compositor"] # "squash"

\* Mutant of QueueHasRoom: the limit is off by one.
QueueHasRoomMutant == Len(composite_queue_) <= MaxQueueDepth

QueueHasRoom == Len(composite_queue_) < MaxQueueDepth

\* The loop that unlocks, yields and locks again while the queue is full does
\* nothing but wait for the guard.
QueuePush(t) ==
    /\ hal[t].at = "push"
    /\ LockFree
    /\ QueueHasRoom
    /\ composite_queue_' = Append(composite_queue_, hal[t].comp)
    /\ hal' = [hal EXCEPT ![t] = [at |-> "signal", comp |-> None]]
    /\ UNCHANGED <<active_, created, active_composition_, pc, cond, hand,
                   did_squash_all_, pre_compositor_, frame_queue_>>

QueueSignal(t) ==
    /\ hal[t].at = "signal"
    /\ cond' = CondSignal("compositor")
    /\ hal' = [hal EXCEPT ![t] = Idle]
    /\ UNCHANGED <<active_, created, active_composition_, composite_queue_,
                   pc, hand, did_squash_all_, pre_compositor_, frame_queue_>>

-----------------------------------------------------------------------------
(***************************************************************************)
(* DrmCompositorWorker::Routine and Composite.                             *)
(***************************************************************************)
Goto(w, place) == pc' = [pc EXCEPT ![w] = place]

\* The test is made under lock_, but acted on after lock_ is released.
HaveQueuedComposites ==
    /\ pc["compositor"] = "routine"
    /\ Goto("compositor", IF composite_queue_ = <<>> THEN "wait" ELSE "composite")
    /\ UNCHANGED <<halVars, active_composition_, composite_queue_, cond, hand,
                   did_squash_all_, pre_compositor_, frame_queue_>>

\* The timeout is dropped when the last thing done was a SquashAll.
WaitForSignal ==
    /\ pc["compositor"] = "wait"
    /\ cond' = [cond EXCEPT !["compositor"] =
                    IF did_squash_all_ THEN "forever" ELSE "timed"]
    /\ Goto("compositor", "waiting")
    /\ UNCHANGED <<halVars, active_composition_, composite_queue_, hand,
                   did_squash_all_, pre_compositor_, frame_queue_>>

WaitReturnsSignalled ==
    /\ pc["compositor"] = "waiting"
    /\ cond["compositor"] = "signalled"
    /\ cond' = [cond EXCEPT !["compositor"] = "none"]
    /\ Goto("compositor", "composite")
    /\ UNCHANGED <<halVars, active_composition_, composite_queue_, hand,
                   did_squash_all_, pre_compositor_, frame_queue_>>

\* Mutant of WaitReturnsTimedOut: the worker waits again without looking at
\* the queue.
WaitReturnsTimedOutMutant ==
    /\ pc["compositor"] = "waiting"
    /\ cond["compositor"] = "timedout"
    /\ cond' = [cond EXCEPT !["compositor"] = "none"]
    /\ Goto("compositor", "wait")
    /\ UNCHANGED <<halVars, active_composition_, composite_queue_, hand,
                   did_squash_all_, pre_compositor_, frame_queue_>>

\* -ETIMEDOUT: SquashAll takes lock_.
WaitReturnsTimedOut ==
    /\ pc["compositor"] = "waiting"
    /\ cond["compositor"] = "timedout"
    /\ cond' = [cond EXCEPT !["compositor"] = "none"]
    /\ Goto("compositor", "squash")
    /\ UNCHANGED <<halVars, active_composition_, composite_queue_, hand,
                   did_squash_all_, pre_compositor_, frame_queue_>>

\* The first Composite constructs the GL compositor; when its Init fails the
\* object stays, so no later call tries again.
CompositeInitFails ==
    /\ IoctlFailures
    /\ pc["compositor"] = "composite"
    /\ ~pre_compositor_
    /\ pre_compositor_' = TRUE
    /\ did_squash_all_' = FALSE
    /\ Goto("compositor", "routine")
    /\ UNCHANGED <<halVars, active_composition_, composite_queue_, cond, hand,
                   frame_queue_>>

CompositeFindsNothing ==
    /\ pc["compositor"] = "composite"
    /\ composite_queue_ = <<>>
    /\ pre_compositor_' = TRUE
    /\ did_squash_all_' = FALSE
    /\ Goto("compositor", "routine")
    /\ UNCHANGED <<halVars, active_composition_, composite_queue_, cond, hand,
                   frame_queue_>>

CompositePop ==
    /\ pc["compositor"] = "composite"
    /\ composite_queue_ # <<>>
    /\ pre_compositor_' = TRUE
    /\ hand' = [hand EXCEPT !["compositor"] = Head(composite_queue_)]
    /\ composite_queue_' = Tail(composite_queue_)
    /\ Goto("compositor", "compose")
    /\ UNCHANGED <<halVars, active_composition_, cond, did_squash_all_,
                   frame_queue_>>

\* Composite returns: what is left in its unique_ptr is destroyed.
CompositeDone ==
    /\ hand' = [hand EXCEPT !["compositor"] = None]
    /\ did_squash_all_' = FALSE
    /\ Goto("compositor", "routine")

\* PrepareFrame, or the squash of a frame the kernel refused, failed.
CompositeDropsFrame ==
    /\ IoctlFailures
    /\ pc["compositor"] = "compose"
    /\ hand["compositor"].type = "FRAME"
    /\ CompositeDone
    /\ UNCHANGED <<halVars, active_composition_, composite_queue_, cond,
                   pre_compositor_, frame_queue_>>

\* Mutant of QueueFrame: the composition is moved away before it is pushed.
QueueFrameMutant ==
    /\ pc["compositor"] = "compose"
    /\ hand["compositor"].type = "FRAME"
    /\ frame_queue_' = Append(frame_queue_, None)
    /\ cond' = CondSignal("frame")
    /\ CompositeDone
    /\ UNCHANGED <<halVars, active_composition_, composite_queue_,
                   pre_compositor_>>

\* FrameWorker::QueueFrame pushes and signals under the frame worker's lock.
QueueFrame ==
    /\ pc["compositor"] = "compose"
    /\ hand["compositor"].type = "FRAME"
    /\ frame_queue_' = Append(frame_queue_, hand["compositor"])
    /\ cond' = CondSignal("frame")
    /\ CompositeDone
    /\ UNCHANGED <<halVars, active_composition_, composite_queue_,
                   pre_compositor_>>

\* A DPMS or MODESET composition is dealt with at once, whatever frames still
\* wait in frame_queue_: it sets the connector's power, or the mode the next
\* commit is to carry, and is destroyed.
CompositeDisplayState ==
    /\ pc["compositor"] = "compose"
    /\ hand["compositor"].type \in {"DPMS_ON", "DPMS_OFF", "MODESET"}
    /\ CompositeDone
    /\ UNCHANGED <<halVars, active_composition_, composite_queue_, cond,
                   pre_compositor_, frame_queue_>>

-----------------------------------------------------------------------------
(***************************************************************************)
(* SquashAll.                                                              *)
(***************************************************************************)
\* Nothing is active, the active frame has one layer, or the squash failed.
SquashAllReturns ==
    /\ pc["compositor"] = "squash"
    /\ did_squash_all_' = TRUE
    /\ Goto("compositor", "routine")
    /\ UNCHANGED <<halVars, active_composition_, composite_queue_, cond, hand,
                   pre_compositor_, frame_queue_>>

\* The active composition was squashed into one that carries its frame
\* number; lock_ is released before it is applied.
SquashAllApplies ==
    /\ pc["compositor"] = "squash"
    /\ active_composition_ # None
    /\ hand' = [hand EXCEPT !["compositor"] = active_composition_]
    /\ Goto("compositor", "commit")
    /\ UNCHANGED <<halVars, active_composition_, composite_queue_, cond,
                   did_squash_all_, pre_compositor_, frame_queue_>>

-----------------------------------------------------------------------------
(***************************************************************************)
(* FrameWorker::Routine.                                                   *)
(***************************************************************************)
\* Mutant of FramePop: takes the newest frame and removes the oldest.
FramePopMutant ==
    /\ hand' = [hand EXCEPT !["frame"] = frame_queue_[Len(frame_queue_)]]
    /\ frame_queue_' = Tail(frame_queue_)

FramePop ==
    /\ hand' = [hand EXCEPT !["frame"] = Head(frame_queue_)]
    /\ frame_queue_' = Tail(frame_queue_)

FrameRoutine ==
    /\ pc["frame"] = "routine"
    /\ \/ /\ frame_queue_ = <<>>
          /\ cond' = [cond EXCEPT !["frame"] = "forever"]
          /\ Goto("frame", "waiting")
          /\ UNCHANGED <<hand, frame_queue_>>
       \/ /\ frame_queue_ # <<>>
          /\ FramePop
          /\ Goto("frame", "commit")
          /\ UNCHANGED cond
    /\ UNCHANGED <<halVars, active_composition_, composite_queue_,
                   did_squash_all_, pre_compositor_>>

\* An empty queue after the wait leaves the frame null.  It is applied anyway,
\* and CommitFrame's dereference ends the process: there is no step from there.
FrameWaitReturns ==
    /\ pc["frame"] = "waiting"
    /\ cond["frame"] = "signalled"
    /\ cond' = [cond EXCEPT !["frame"] = "none"]
    /\ IF frame_queue_ = <<>> THEN UNCHANGED <<hand, frame_queue_>>
                              ELSE FramePop
    /\ Goto("frame", "commit")
    /\ UNCHANGED <<halVars, active_composition_, composite_queue_,
                   did_squash_all_, pre_compositor_>>

-----------------------------------------------------------------------------
(***************************************************************************)
(* ApplyFrame, run by the frame worker for every frame and by the          *)
(* compositor worker for a squashed one.                                   *)
(***************************************************************************)
ApplyReturns(w) ==
    /\ Goto(w, "routine")
    /\ hand' = [hand EXCEPT ![w] = None]
    /\ did_squash_all_' = IF w = "compositor" THEN TRUE ELSE did_squash_all_

\* After a failed commit the planes of the active composition are disabled;
\* when that fails too ApplyFrame returns and the new frame is destroyed.
\* With no active composition the code dereferences null, which ends the
\* process: no step.
DisablePlanes(w) ==
    /\ IoctlFailures
    /\ active_composition_ # None
    /\ \/ Goto(w, "swap") /\ UNCHANGED <<hand, did_squash_all_>>
       \/ ApplyReturns(w)

\* CommitFrame succeeds, or reports an error: of the commit, or after it, when a
\* mode came along and its old blob or the power could not be dealt with.
CommitFrame(w) ==
    /\ pc[w] = "commit"
    /\ hand[w] # None
    /\ \/ Goto(w, "swap") /\ UNCHANGED <<hand, did_squash_all_>>
       \/ DisablePlanes(w)
    /\ UNCHANGED <<halVars, active_composition_, composite_queue_, cond,
                   pre_compositor_, frame_queue_>>

\* The swap under lock_; the composition swapped out is destroyed.
ApplyFrameSwap(w) ==
    /\ pc[w] = "swap"
    /\ LockFree
    /\ active_composition_' = hand[w]
    /\ ApplyReturns(w)
    /\ UNCHANGED <<halVars, composite_queue_, cond, pre_compositor_,
                   frame_queue_>>

-----------------------------------------------------------------------------
QueueComposition(t) ==
    \/ \E type \in Types : QueueReturnsEarly(t, type) \/ QueueEnter(t, type)
    \/ QueuePush(t)
    \/ QueueSignal(t)

CompositorWorker ==
    \/ HaveQueuedComposites
    \/ WaitForSignal
    \/ WaitReturnsSignalled
    \/ WaitReturnsTimedOut
    \/ CompositeInitFails
    \/ CompositeFindsNothing
    \/ CompositePop
    \/ CompositeDropsFrame
    \/ QueueFrame
    \/ CompositeDisplayState
    \/ SquashAllReturns
    \/ SquashAllApplies

FrameWorker == FrameRoutine \/ FrameWaitReturns

ApplyFrame(w) == CommitFrame(w) \/ ApplyFrameSwap(w)

Next ==
    \/ \E t \in Threads : QueueComposition(t)
    \/ CompositorWorker
    \/ FrameWorker
    \/ \E w \in Workers : ApplyFrame(w) \/ WaitTimeout(w)
    \/ \E w \in SpuriousWorkers : SpuriousWakeup(w)

\* Threads that can run do run, a deadline passes, and a thread that wants a
\* mutex others keep releasing gets it in the end.  Nothing forces a HAL
\* thread to submit, or a condition wait to return by itself.
Fairness ==
    /\ \A t \in Threads : SF_vars(QueuePush(t)) /\ WF_vars(QueueSignal(t))
    /\ WF_vars(CompositorWorker)
    /\ WF_vars(FrameWorker)
    /\ \A w \in Workers : WF_vars(WaitTimeout(w))
    /\ \A w \in Workers : WF_vars(CommitFrame(w))
    /\ \A w \in Workers : SF_vars(ApplyFrameSwap(w))

Spec == Init /\ [][Next]_vars /\ Fairness

-----------------------------------------------------------------------------
(***************************************************************************)
(* Properties.                                                             *)
(***************************************************************************)
\* However many threads queue at once, and whatever the workers are doing,
\* composite_queue_ never holds more than MaxQueueDepth compositions.
QueueBounded == Len(composite_queue_) <= MaxQueueDepth

\* QueueFrame's signal is never lost: the frame worker never sleeps,
\* unsignalled, on a queue that holds a frame.
FrameSignalNotLost == cond["frame"] = "forever" => frame_queue_ = <<>>

\* The compositions accepted and not yet handed to ApplyFrame, oldest first.
Pending ==
    frame_queue_
        \o (IF pc["compositor"] = "compose" THEN <<hand["compositor"]>> ELSE <<>>)
        \o composite_queue_

Stream == INSTANCE FrameStream WITH
    Compositions <- [id : 1 .. MaxCompositions, type : QueuedTypes],
    None <- None,
    pending <- Pending,
    applying <- hand["frame"]

\* The queues, the hand-over between the workers and the frame worker's pop
\* together deliver frames to ApplyFrame in the order QueueComposition
\* accepted them, one at a time and never twice.
FramesInOrder == Stream!Spec

\* A wait that returned without a signal found the queue empty, and the null
\* composition went to ApplyFrame.
NullFrame == pc["frame"] = "commit" /\ hand["frame"] = None

\* A frame handed to the frame worker is taken from its queue in the end, as
\* long as no spurious wakeup has ended the process.
FrameQueueDrains ==
    (frame_queue_ # <<>>) ~> (frame_queue_ = <<>> \/ NullFrame)

\* A signal lost in the window before a timed wait costs at most the timeout:
\* the worker wakes up, squashes, and finds the composition.
TimedWaitRecovers ==
    (cond["compositor"] = "timed" /\ composite_queue_ # <<>>)
        ~> (pc["compositor"] = "compose")

\* QueueComposition blocks only while the queue is too large: a call that was
\* made returns.
QueueCompositionReturns ==
    \A t \in Threads : (hal[t].at # "idle") ~> (hal[t].at = "idle")
=============================================================================
