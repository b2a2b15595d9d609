--------------------------- MODULE FramePipeline ---------------------------
(***************************************************************************)
(* What happens to a FRAME composition after DrmDisplayCompositor popped   *)
(* it: the framebuffers it is rendered into, the fences that say when its  *)
(* buffers are free again, and the commits that put it on the screen.      *)
(*                                                                         *)
(* The compositor worker prepares frames (PrepareFrame, the test commit,   *)
(* SquashFrame) and queues them; the frame worker applies them.  When no   *)
(* frame came for half a second the compositor worker squashes the active  *)
(* composition and applies the result itself (SquashAll).                  *)
(*                                                                         *)
(* Frame n is composition n, and the composition it is squashed into is    *)
(* Squashed(n).  Every composition owns a sync timeline: its fences for    *)
(* framebuffers, and those for the client buffers on its planes, signal    *)
(* together, in SignalCompositionDone, so a set of the compositions that   *)
(* got there stands for all timelines.                                     *)
(***************************************************************************)
EXTENDS Naturals, Sequences, FiniteSets

CONSTANTS
    MaxFrames,      \* bound: frames in a behaviour
    DisplayBuffers, \* DRM_DISPLAY_BUFFERS
    Plans,          \* the outcomes of DrmDisplayComposition::Plan considered
    Failures        \* may GL or the kernel report an error?

Frames == 1 .. MaxFrames
Squashed(n) == MaxFrames + n
Ids == 1 .. 2 * MaxFrames
FrameNo(c) == IF c > MaxFrames THEN c - MaxFrames ELSE c
NoComp == 0

SquashBuffers == 2
Buffers == ({"pre"} \X (0 .. DisplayBuffers - 1))
               \cup ({"squash"} \X (0 .. SquashBuffers - 1))
NoBuffer == <<"none", 0>>

\* What the rest of the pipeline needs to know of a plan: is the squash
\* framebuffer rendered, is it shown, is there anything to pre-composite,
\* can the frame be squashed (more than one plane with a layer, none of them
\* protected), did the geometry change.
Plan == [render : BOOLEAN, uses : BOOLEAN, pre : BOOLEAN,
         squashable : BOOLEAN, changed : BOOLEAN]

NoPlan == [render |-> FALSE, uses |-> FALSE, pre |-> FALSE,
           squashable |-> FALSE, changed |-> FALSE]

ASSUME BufferAssumption == DisplayBuffers \in Nat \ {0}
ASSUME FrameAssumption == MaxFrames \in Nat
\* A plan made after a geometry change has no squash history to use.
ASSUME PlanAssumption ==
    /\ Plans \subseteq Plan
    /\ \A p \in Plans : p.changed => ~p.render /\ ~p.uses
ASSUME FlagAssumption == Failures \in BOOLEAN

Workers == {"compositor", "frame"}

VARIABLES
    taken,                    \* how many frames the compositor worker popped
    plan,                     \* the plan of the frame it is preparing
    allocated,                \* squash framebuffers that have a buffer
    fence,                    \* whose timeline guards each framebuffer
    framebuffer_index_,
    squash_framebuffer_index_,
    use_hw_overlays_,
    target,                   \* the framebuffer GL is rendering into
    shows,                    \* framebuffers on the planes of each composition
    squashable,               \* compositions SquashFrame can squash
    signalled,                \* compositions whose timeline is all signalled
    frame_queue_,
    active_composition_,
    scanout,                  \* the composition the hardware shows
    pc, hand,                 \* each worker's place and composition
    deref,                    \* the pointer DisablePlanes was called with
    faults                    \* history: what went wrong with the screen since
                              \* it last showed what was made active

squashVars == <<squash_framebuffer_index_, allocated>>
bufferVars == <<fence, framebuffer_index_, target, squashVars>>
compVars == <<shows, squashable>>
screenVars == <<active_composition_, scanout, deref, faults>>
inputVars == <<taken, plan>>
vars == <<inputVars, bufferVars, use_hw_overlays_, compVars, signalled,
          frame_queue_, screenVars, pc, hand>>

RenderPc == {"gl_squash", "gl_pre", "gl_frame", "gl_all"}
CompositorPc == {"idle", "squash", "precomp", "test", "squash_frame", "queue",
                 "squash_all"} \cup RenderPc
ApplyPc == {"commit", "disable", "signal", "swap"}

\* overlap: SquashAll began while the frame worker had frames to apply.
\* skipped: a frame that was not committed counts as shown.
\* late: a frame was deleted after its commit, which reported an error.
Fault == {"overlap", "skipped", "late"}

TypeOK ==
    /\ taken \in 0 .. MaxFrames
    /\ plan \in Plan
    /\ allocated \subseteq 0 .. SquashBuffers - 1
    /\ fence \in [Buffers -> Ids \cup {NoComp}]
    /\ framebuffer_index_ \in 0 .. DisplayBuffers - 1
    /\ squash_framebuffer_index_ \in 0 .. SquashBuffers - 1
    /\ use_hw_overlays_ \in BOOLEAN
    /\ target \in Buffers \cup {NoBuffer}
    /\ shows \in [Ids -> SUBSET Buffers]
    /\ squashable \subseteq Ids
    /\ signalled \subseteq Ids
    /\ frame_queue_ \in Seq(Ids)
    /\ active_composition_ \in Ids \cup {NoComp}
    /\ scanout \in Ids \cup {NoComp}
    /\ pc \in [Workers -> CompositorPc \cup ApplyPc]
    /\ pc["frame"] \in {"idle"} \cup ApplyPc
    /\ hand \in [Workers -> Ids \cup {NoComp}]
    /\ deref \in [Workers -> Ids \cup {NoComp}]
    /\ faults \subseteq Fault

Init ==
    /\ taken = 0
    /\ plan = NoPlan
    /\ allocated = {}
    /\ fence = [b \in Buffers |-> NoComp]
    /\ framebuffer_index_ = 0
    /\ squash_framebuffer_index_ = 0
    /\ use_hw_overlays_ = TRUE
    /\ target = NoBuffer
    /\ shows = [c \in Ids |-> {}]
    /\ squashable = {}
    /\ signalled = {}
    /\ frame_queue_ = <<>>
    /\ active_composition_ = NoComp
    /\ scanout = NoComp
    /\ pc = [w \in Workers |-> "idle"]
    /\ hand = [w \in Workers |-> NoComp]
    /\ deref = [w \in Workers |-> NoComp]
    /\ faults = {}

-----------------------------------------------------------------------------
Goto(w, place) == pc' = [pc EXCEPT ![w] = place]
Frame == hand["compositor"]
PreBuffer == <<"pre", framebuffer_index_>>

\* Mutant of Destroy: the destructor closes the timeline without signalling it.
DestroyMutant(S) == signalled' = signalled \ S

\* ~DrmDisplayComposition signals whatever has not been signalled.
Destroy(S) == signalled' = signalled \cup S

\* Mutant of Released: the wait for the fence is skipped.
ReleasedMutant(b) == b \in Buffers

\* DrmFramebuffer::WaitReleased(-1) returns.
Released(b) == fence[b] = NoComp \/ fence[b] \in signalled

\* PrepareFramebuffer: wait, forget the old fence, and render.
Render(b, place) ==
    /\ Released(b)
    /\ fence' = [fence EXCEPT ![b] = NoComp]
    /\ target' = b
    /\ Goto("compositor", place)

\* A rendered framebuffer is guarded by the composition that shows it.
Guard(b, c) ==
    /\ fence' = [fence EXCEPT ![b] = c]
    /\ target' = NoBuffer

\* Mutant of NextBuffer: the index does not wrap.
NextBufferMutant == framebuffer_index_' = framebuffer_index_ + 1

NextBuffer == framebuffer_index_' = (framebuffer_index_ + 1) % DisplayBuffers

\* Composite returns an error: its unique_ptr deletes the frame.
DropFrame ==
    /\ Goto("compositor", "idle")
    /\ plan' = NoPlan
    /\ hand' = [hand EXCEPT !["compositor"] = NoComp]
    /\ target' = NoBuffer
    /\ Destroy({Frame})

\* PrepareFramebuffer can fail before it forgets the old fence, when it does
\* not get the resolution; its later failures are those of the rendering.
RenderOrDrop(b, place) ==
    \/ Render(b, place) /\ UNCHANGED <<plan, hand, signalled>>
    \/ Failures /\ DropFrame /\ UNCHANGED fence

-----------------------------------------------------------------------------
(***************************************************************************)
(* Composite, for a FRAME composition, on the compositor worker.           *)
(***************************************************************************)
\* The frame arrives planned.  That its plan shows the squash framebuffer as
\* it is does not mean that a frame taken before rendered it: the display may
\* have been off when the frame that was to do so was queued.
TakeFrame(p) ==
    /\ pc["compositor"] = "idle"
    /\ taken < MaxFrames
    /\ taken' = taken + 1
    /\ plan' = p
    /\ squashable' = IF p.squashable THEN squashable \cup {taken + 1}
                                     ELSE squashable
    /\ hand' = [hand EXCEPT !["compositor"] = taken + 1]
    /\ Goto("compositor", "squash")
    /\ UNCHANGED <<bufferVars, use_hw_overlays_, shows, signalled,
                   frame_queue_, screenVars>>

\* PrepareFrame renders into the squash framebuffer not used last.
PrepareSquash ==
    /\ pc["compositor"] = "squash"
    /\ plan.render
    /\ squash_framebuffer_index_' = (squash_framebuffer_index_ + 1) % SquashBuffers
    /\ RenderOrDrop(<<"squash", squash_framebuffer_index_'>>, "gl_squash")
    /\ allocated' = IF pc'["compositor"] = "idle" THEN allocated
                    ELSE allocated \cup {squash_framebuffer_index_'}
    /\ UNCHANGED <<taken, framebuffer_index_, use_hw_overlays_, compVars,
                   frame_queue_, screenVars>>

ShowSquash ==
    shows' = IF plan.uses
             THEN [shows EXCEPT ![Frame] = @ \cup {<<"squash", squash_framebuffer_index_>>}]
             ELSE shows

ApplySquash ==
    /\ pc["compositor"] = "gl_squash"
    /\ \/ /\ Guard(target, Frame)
          /\ ShowSquash
          /\ Goto("compositor", "precomp")
          /\ UNCHANGED <<plan, hand, signalled>>
       \/ Failures /\ DropFrame /\ UNCHANGED <<shows, fence>>
    /\ UNCHANGED <<taken, framebuffer_index_, squashVars,
                   use_hw_overlays_, squashable, frame_queue_, screenVars>>

\* PrepareFrame shows the old squash framebuffer, whose fence it replaces, or
\* none.  It dereferences null when the framebuffer never had a buffer.
ReuseSquash ==
    /\ pc["compositor"] = "squash"
    /\ ~plan.render
    /\ plan.uses => squash_framebuffer_index_ \in allocated
    /\ \/ /\ IF plan.uses
             THEN Guard(<<"squash", squash_framebuffer_index_>>, Frame)
             ELSE UNCHANGED <<fence, target>>
          /\ ShowSquash
          /\ Goto("compositor", "precomp")
          /\ UNCHANGED <<plan, hand, signalled>>
       \/ Failures /\ plan.uses /\ DropFrame /\ UNCHANGED <<shows, fence>>
    /\ UNCHANGED <<taken, framebuffer_index_, squashVars,
                   use_hw_overlays_, squashable, frame_queue_, screenVars>>

PreparePreComp ==
    /\ pc["compositor"] = "precomp"
    /\ \/ plan.pre /\ RenderOrDrop(PreBuffer, "gl_pre")
       \/ /\ ~plan.pre
          /\ Goto("compositor", "test")
          /\ UNCHANGED <<plan, fence, target, hand, signalled>>
    /\ UNCHANGED <<taken, framebuffer_index_, squashVars,
                   use_hw_overlays_, compVars, frame_queue_, screenVars>>

ApplyPreComposite ==
    /\ pc["compositor"] = "gl_pre"
    /\ \/ /\ Guard(target, Frame)
          /\ NextBuffer
          /\ shows' = [shows EXCEPT ![Frame] = @ \cup {target}]
          /\ Goto("compositor", "test")
          /\ UNCHANGED <<plan, hand, signalled>>
       \/ Failures /\ DropFrame /\ UNCHANGED <<shows, fence, framebuffer_index_>>
    /\ UNCHANGED <<taken, squashVars, use_hw_overlays_,
                   squashable, frame_queue_, screenVars>>

\* The test commit after a geometry change decides how frames are composited
\* until the next one.
TestCommit ==
    /\ pc["compositor"] = "test"
    /\ use_hw_overlays_' \in IF plan.changed THEN BOOLEAN ELSE {use_hw_overlays_}
    /\ Goto("compositor", IF use_hw_overlays_' THEN "queue" ELSE "squash_frame")
    /\ UNCHANGED <<inputVars, bufferVars, compVars, signalled, frame_queue_,
                   screenVars, hand>>

\* SquashFrame refuses a frame it cannot squash, and the frame is lost.
SquashFrameBegin ==
    /\ pc["compositor"] = "squash_frame"
    /\ \/ Frame \in squashable /\ RenderOrDrop(PreBuffer, "gl_frame")
       \/ Frame \notin squashable /\ DropFrame /\ UNCHANGED fence
    /\ UNCHANGED <<taken, framebuffer_index_, squashVars,
                   use_hw_overlays_, compVars, frame_queue_, screenVars>>

\* The squashed composition replaces the frame, which is deleted.
SquashFrameEnd ==
    /\ pc["compositor"] = "gl_frame"
    /\ \/ /\ Guard(target, Squashed(Frame))
          /\ NextBuffer
          /\ shows' = [shows EXCEPT ![Squashed(Frame)] = {target}]
          /\ Destroy({Frame})
          /\ plan' = NoPlan
          /\ hand' = [hand EXCEPT !["compositor"] = Squashed(Frame)]
          /\ Goto("compositor", "queue")
       \/ Failures /\ DropFrame /\ UNCHANGED <<shows, fence, framebuffer_index_>>
    /\ UNCHANGED <<taken, squashVars, use_hw_overlays_,
                   squashable, frame_queue_, screenVars>>

QueueFrame ==
    /\ pc["compositor"] = "queue"
    /\ frame_queue_' = Append(frame_queue_, Frame)
    /\ hand' = [hand EXCEPT !["compositor"] = NoComp]
    /\ plan' = NoPlan
    /\ Goto("compositor", "idle")
    /\ UNCHANGED <<taken, bufferVars, use_hw_overlays_, compVars,
                   signalled, screenVars>>

-----------------------------------------------------------------------------
(***************************************************************************)
(* SquashAll, on the compositor worker.  lock_ is held from the first step *)
(* to the end of the rendering.                                            *)
(***************************************************************************)
LockFree == pc["compositor"] \notin {"squash_all", "gl_all"}

FrameWorkerIdle == pc["frame"] = "idle" /\ frame_queue_ = <<>>

SquashAllBegin ==
    /\ pc["compositor"] = "idle"
    /\ active_composition_ \in squashable
    /\ Goto("compositor", "squash_all")
    /\ faults' = IF FrameWorkerIdle THEN faults ELSE faults \cup {"overlap"}
    /\ UNCHANGED <<inputVars, bufferVars, use_hw_overlays_, compVars, signalled,
                   frame_queue_, active_composition_, scanout, deref, hand>>

\* SquashFrame moved the layers of the active composition into the squashed
\* one.  move_layers_back returns empty shells, so after a failure they, and
\* the buffers they own, are gone with the squashed composition; either way
\* the active composition has nothing left to squash.  Only a failure of the
\* new composition's Init, before any layer moves, leaves it as it was.
SquashAllFails ==
    /\ Failures
    /\ target' = NoBuffer
    /\ Destroy({Squashed(active_composition_)})
    /\ squashable' = squashable \ {active_composition_}
    /\ Goto("compositor", "idle")
    /\ UNCHANGED fence

SquashAllRender ==
    /\ pc["compositor"] = "squash_all"
    /\ \/ Render(PreBuffer, "gl_all") /\ UNCHANGED <<squashable, signalled>>
       \/ SquashAllFails
       \/ /\ Failures
          /\ Goto("compositor", "idle")
          /\ UNCHANGED <<fence, target, squashable, signalled>>
    /\ UNCHANGED <<inputVars, framebuffer_index_, squashVars,
                   use_hw_overlays_, shows, frame_queue_, screenVars, hand>>

SquashAllEnd ==
    /\ pc["compositor"] = "gl_all"
    /\ LET all == Squashed(active_composition_) IN
       \/ /\ Guard(target, all)
          /\ NextBuffer
          /\ shows' = [shows EXCEPT ![all] = {target}]
          /\ hand' = [hand EXCEPT !["compositor"] = all]
          /\ squashable' = squashable \ {active_composition_}
          /\ Goto("compositor", "commit")
          /\ UNCHANGED signalled
       \/ SquashAllFails /\ UNCHANGED <<framebuffer_index_, shows, hand>>
    /\ UNCHANGED <<inputVars, squashVars, use_hw_overlays_,
                   frame_queue_, screenVars>>

-----------------------------------------------------------------------------
(***************************************************************************)
(* FrameWorker::Routine and ApplyFrame.                                    *)
(***************************************************************************)
\* Mutant of FrameRoutine: the newest frame is taken.
FrameRoutineMutant ==
    /\ pc["frame"] = "idle"
    /\ frame_queue_ # <<>>
    /\ LET last == Len(frame_queue_) IN
       /\ hand' = [hand EXCEPT !["frame"] = frame_queue_[last]]
       /\ frame_queue_' = SubSeq(frame_queue_, 1, last - 1)
    /\ Goto("frame", "commit")
    /\ UNCHANGED <<inputVars, bufferVars, use_hw_overlays_, compVars,
                   signalled, screenVars>>

FrameRoutine ==
    /\ pc["frame"] = "idle"
    /\ frame_queue_ # <<>>
    /\ hand' = [hand EXCEPT !["frame"] = Head(frame_queue_)]
    /\ frame_queue_' = Tail(frame_queue_)
    /\ Goto("frame", "commit")
    /\ UNCHANGED <<inputVars, bufferVars, use_hw_overlays_, compVars,
                   signalled, screenVars>>

\* drmModeAtomicCommit blocks until the old planes are off the screen.  With a
\* modeset pending two more things happen.  A plane that cannot be added to the
\* request makes the code skip the commit, but the error is overwritten by
\* ApplyDpms' success and the frame counts as shown; and after the commit
\* DestroyPropertyBlob or ApplyDpms may report an error.  After an error
\* DisablePlanes is called with the active composition, read outside lock_;
\* when there is none the null dereference ends the process: no step.
CommitFrame(w) ==
    /\ pc[w] = "commit"
    /\ \/ /\ scanout' = hand[w]
          /\ Goto(w, "signal")
          /\ UNCHANGED <<deref, faults>>
       \/ /\ Failures
          /\ faults' = faults \cup {"skipped"}
          /\ Goto(w, "signal")
          /\ UNCHANGED <<scanout, deref>>
       \/ /\ Failures
          /\ scanout' \in {scanout, hand[w]}
          /\ active_composition_ # NoComp
          /\ deref' = [deref EXCEPT ![w] = active_composition_]
          /\ Goto(w, "disable")
          /\ UNCHANGED faults
    /\ UNCHANGED <<inputVars, bufferVars, use_hw_overlays_, compVars,
                   signalled, frame_queue_, active_composition_, hand>>

\* The planes of the composition the pointer is to are switched off; another
\* composition on the screen may lose its planes by it, or keep some.
DisablePlanes(w) ==
    /\ pc[w] = "disable"
    /\ \/ /\ scanout' \in {NoComp} \cup ({scanout} \ {deref[w]})
          /\ Goto(w, "signal")
          /\ UNCHANGED <<hand, signalled, deref, faults>>
       \/ /\ Goto(w, "idle")
          /\ hand' = [hand EXCEPT ![w] = NoComp]
          /\ Destroy({hand[w]})
          /\ deref' = [deref EXCEPT ![w] = NoComp]
          /\ faults' = IF scanout = hand[w] THEN faults \cup {"late"} ELSE faults
          /\ UNCHANGED scanout
    /\ UNCHANGED <<inputVars, bufferVars, use_hw_overlays_, compVars,
                   frame_queue_, active_composition_>>

\* Mutant of SignalActive: the new composition is signalled, not the old one.
SignalActiveMutant(w) ==
    /\ pc[w] = "signal"
    /\ signalled' = signalled \cup {hand[w]}
    /\ deref' = [deref EXCEPT ![w] = NoComp]
    /\ Goto(w, "swap")
    /\ UNCHANGED <<inputVars, bufferVars, use_hw_overlays_, compVars,
                   frame_queue_, active_composition_, scanout, faults, hand>>

\* active_composition_ is read outside lock_.
SignalActive(w) ==
    /\ pc[w] = "signal"
    /\ signalled' = signalled \cup ({active_composition_} \ {NoComp})
    /\ deref' = [deref EXCEPT ![w] = NoComp]
    /\ Goto(w, "swap")
    /\ UNCHANGED <<inputVars, bufferVars, use_hw_overlays_, compVars,
                   frame_queue_, active_composition_, scanout, faults, hand>>

\* A worker that ends ApplyFrame alone, with its composition or nothing on the
\* screen, ends what went wrong before.
Settled(w) ==
    /\ \A v \in Workers \ {w} : pc[v] \notin ApplyPc
    /\ scanout \in {hand[w], NoComp}

SwapActive(w) ==
    /\ pc[w] = "swap"
    /\ LockFree
    /\ active_composition_' = hand[w]
    /\ Destroy({active_composition_} \ {NoComp})
    /\ hand' = [hand EXCEPT ![w] = NoComp]
    /\ faults' = IF Settled(w) THEN {} ELSE faults
    /\ Goto(w, "idle")
    /\ UNCHANGED <<inputVars, bufferVars, use_hw_overlays_, compVars,
                   frame_queue_, scanout, deref>>

-----------------------------------------------------------------------------
Composite ==
    \/ \E p \in Plans : TakeFrame(p)
    \/ PrepareSquash
    \/ ApplySquash
    \/ ReuseSquash
    \/ PreparePreComp
    \/ ApplyPreComposite
    \/ TestCommit
    \/ SquashFrameBegin
    \/ SquashFrameEnd
    \/ QueueFrame

SquashAll == SquashAllBegin \/ SquashAllRender \/ SquashAllEnd

ApplyFrame(w) ==
    CommitFrame(w) \/ DisablePlanes(w) \/ SignalActive(w) \/ SwapActive(w)

Next ==
    \/ Composite
    \/ SquashAll
    \/ FrameRoutine
    \/ \E w \in Workers : ApplyFrame(w)

\* Rendering, commits and both workers make progress; nothing makes a client
\* send a frame, or the half second without one pass.
Fairness ==
    /\ WF_vars(Composite /\ pc["compositor"] # "idle")
    /\ WF_vars(SquashAllRender \/ SquashAllEnd)
    /\ WF_vars(FrameRoutine)
    /\ \A w \in Workers : WF_vars(ApplyFrame(w))

Spec == Init /\ [][Next]_vars /\ Fairness

-----------------------------------------------------------------------------
(***************************************************************************)
(* Properties.                                                             *)
(***************************************************************************)
\* The release fences of the composition on the screen are not signalled: its
\* client buffers and framebuffers are not handed back while they are shown,
\* from the first frame that is applied undisturbed on.
ScanoutNotReleased ==
    scanout # NoComp /\ faults = {} => scanout \notin signalled

ToBeCommitted ==
    ({hand["frame"]} \ {NoComp}) \cup {frame_queue_[i] : i \in DOMAIN frame_queue_}

\* GL never renders into a pre-composition framebuffer on the planes of a
\* composition waiting for its commit, whatever went wrong before, or on the
\* screen.
NoScribble ==
    pc["compositor"] \in RenderPc \ {"gl_squash"}
        => /\ \A c \in ToBeCommitted : target \notin shows[c]
           /\ scanout # NoComp /\ faults = {} => target \notin shows[scanout]

\* A framebuffer fence that is not signalled belongs to a composition that
\* still exists and so can signal it.
NoOrphanFence ==
    \A b \in Buffers : fence[b] # NoComp /\ fence[b] \notin signalled =>
        \/ fence[b] \in ToBeCommitted \cup {active_composition_}
        \/ fence[b] = hand["compositor"]

\* The screen never goes back to an older frame, not even after commits that
\* were skipped.
NeverOlder ==
    [][faults \cap {"overlap", "late"} = {} /\ scanout # NoComp /\ scanout' # NoComp
          => FrameNo(scanout') >= FrameNo(scanout)]_scanout

\* "Disable the hw used by the last active composition. This allows us to
\* signal the release fences from that composition": after DisablePlanes the
\* composition that is signalled is the one whose planes were disabled.
DisabledIsSignalled ==
    \A w \in Workers :
        pc[w] = "signal" /\ deref[w] # NoComp => active_composition_ = deref[w]

\* With a front, a back and a spare framebuffer, waiting for one to be
\* released ends.
PrepareReturns ==
    (pc["compositor"] \in {"precomp", "squash_frame", "squash_all"})
        ~> (pc["compositor"] \notin {"precomp", "squash_frame", "squash_all"})
=============================================================================
