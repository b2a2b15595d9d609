------------------------ MODULE FramePipelineProofs ------------------------
(***************************************************************************)
(* Safety of FramePipeline for any number of frames and framebuffers and   *)
(* any set of plans.                                                       *)
(***************************************************************************)
EXTENDS FramePipeline, TLAPS

\* The places where the compositor worker holds the frame it took last.
PreparePc == {"squash", "gl_squash", "precomp", "gl_pre", "test",
              "squash_frame", "gl_frame"}

\* A worker holds a composition exactly where its code has a pointer to one.
HandsHold ==
    /\ pc["compositor"] \in {"idle", "squash_all", "gl_all"}
           => hand["compositor"] = NoComp
    /\ pc["compositor"] \in PreparePc
           => hand["compositor"] \in Frames /\ hand["compositor"] = taken
    /\ pc["compositor"] \in {"queue"} \cup ApplyPc => hand["compositor"] \in Ids
    /\ pc["frame"] = "idle" => hand["frame"] = NoComp
    /\ pc["frame"] \in ApplyPc => hand["frame"] \in Ids

\* GL renders into a framebuffer, and SquashAll squashes a frame.
Targets ==
    /\ pc["compositor"] \in RenderPc => target \in Buffers
    /\ squashable \subseteq Frames
    /\ pc["compositor"] \in {"squash_all", "gl_all"}
           => active_composition_ \in squashable

Placed == TypeOK /\ HandsHold /\ Targets

-----------------------------------------------------------------------------
(***************************************************************************)
(* Ids and framebuffers.                                                   *)
(***************************************************************************)
\* A frame and the composition it is squashed into are different
\* compositions, and neither is the null pointer.
LEMMA IdFacts ==
    /\ NoComp \notin Ids
    /\ Frames \subseteq Ids
    /\ \A n \in Frames : Squashed(n) \in Ids \ Frames
    /\ \A n \in Frames : FrameNo(n) = n /\ FrameNo(Squashed(n)) = n
    /\ \A c \in Ids : FrameNo(c) \in Frames
    /\ \A c \in Ids : c \in Frames \/ c = Squashed(FrameNo(c))
  BY FrameAssumption DEF NoComp, Ids, Frames, Squashed, FrameNo

PreBuffers == {"pre"} \X (0 .. DisplayBuffers - 1)

\* The framebuffers PrepareFrame, SquashFrame and SquashAll may pick.
LEMMA BufferFacts ==
    ASSUME TypeOK
    PROVE  /\ PreBuffer \in PreBuffers
           /\ PreBuffers \subseteq Buffers
           /\ NoBuffer \notin Buffers
           /\ <<"squash", squash_framebuffer_index_>> \in Buffers \ PreBuffers
           /\ <<"squash", (squash_framebuffer_index_ + 1) % SquashBuffers>>
                  \in Buffers \ PreBuffers
  BY BufferAssumption
  DEF TypeOK, PreBuffer, PreBuffers, Buffers, NoBuffer, SquashBuffers

\* Between two frames the compositor worker has an empty plan.
LEMMA NoPlanIsPlan == NoPlan \in Plan
  BY DEF NoPlan, Plan

\* framebuffer_index_ wraps.
LEMMA IndexWraps ==
    ASSUME TypeOK, NextBuffer
    PROVE  framebuffer_index_' \in 0 .. DisplayBuffers - 1
  BY BufferAssumption DEF TypeOK, NextBuffer

-----------------------------------------------------------------------------
(***************************************************************************)
(* Places and types.                                                       *)
(***************************************************************************)
LEMMA InitPlaced == Init => Placed
<1> SUFFICES ASSUME Init PROVE Placed
  OBVIOUS
<1>1. TypeOK
  <2>1. plan \in Plan
    BY NoPlanIsPlan DEF Init
  <2>2. allocated \subseteq 0 .. SquashBuffers - 1 /\ use_hw_overlays_ \in BOOLEAN
    BY DEF Init
  <2>3. /\ framebuffer_index_ \in 0 .. DisplayBuffers - 1
        /\ squash_framebuffer_index_ \in 0 .. SquashBuffers - 1
        /\ taken \in 0 .. MaxFrames
    BY FrameAssumption, BufferAssumption DEF Init, SquashBuffers
  <2>4. /\ pc \in [Workers -> CompositorPc \cup ApplyPc]
        /\ pc["frame"] \in {"idle"} \cup ApplyPc
    BY DEF Init, Workers, CompositorPc
  <2>5. frame_queue_ \in Seq(Ids) /\ target \in Buffers \cup {NoBuffer}
    BY DEF Init
  <2>. QED
    BY <2>1, <2>2, <2>3, <2>4, <2>5 DEF Init, TypeOK
<1>2. HandsHold
  BY DEF Init, HandsHold, Workers, PreparePc, ApplyPc
<1>3. Targets
  BY DEF Init, Targets, Workers, RenderPc
<1>. QED
  BY <1>1, <1>2, <1>3 DEF Placed

\* A frame gets no framebuffer on its planes but a squash framebuffer here.
LEMMA ShowSquashTyped ==
    ASSUME TypeOK, ShowSquash
    PROVE  shows' \in [Ids -> SUBSET Buffers]
<1> DEFINE b == <<"squash", squash_framebuffer_index_>>
<1>1. shows \in [Ids -> SUBSET Buffers] /\ b \in Buffers
  BY BufferFacts DEF TypeOK
<1> HIDE DEF b
<1>2. shows' = shows \/ shows' = [shows EXCEPT ![Frame] = @ \cup {b}]
  BY DEF ShowSquash, b
<1>. QED
  BY <1>1, <1>2

\* Composite keeps every pointer where the code expects it.
LEMMA CompositePlaced ==
    ASSUME Placed, Composite
    PROVE  Placed'
<1> USE IdFacts, BufferFacts, NoPlanIsPlan, FrameAssumption, PlanAssumption
    DEF Placed, TypeOK, HandsHold, Targets, PreparePc, CompositorPc, RenderPc,
        ApplyPc, Workers, Goto, inputVars, bufferVars, squashVars, compVars,
        screenVars
<1>1. ASSUME NEW p \in Plans, TakeFrame(p) PROVE Placed'
  <2>1. p \in Plan
    OBVIOUS
  <2>2. taken + 1 \in Frames /\ taken' = taken + 1
    BY <1>1 DEF TakeFrame, Frames
  <2>. QED
    BY <1>1, <2>1, <2>2 DEF TakeFrame
<1>2. CASE PrepareSquash
  <2>1. /\ squash_framebuffer_index_' \in 0 .. SquashBuffers - 1
        /\ <<"squash", squash_framebuffer_index_'>> \in Buffers
    BY <1>2 DEF PrepareSquash, SquashBuffers
  <2>2. CASE Render(<<"squash", squash_framebuffer_index_'>>, "gl_squash")
             /\ UNCHANGED <<plan, hand, signalled>>
    BY <1>2, <2>1, <2>2 DEF PrepareSquash, Render
  <2>3. CASE DropFrame /\ UNCHANGED fence
    BY <1>2, <2>1, <2>3 DEF PrepareSquash, DropFrame, Destroy, Frame
  <2>. QED
    BY <1>2, <2>2, <2>3 DEF PrepareSquash, RenderOrDrop
<1>3. CASE ApplySquash
  <2>1. CASE DropFrame /\ UNCHANGED <<shows, fence>>
    BY <1>3, <2>1 DEF ApplySquash, DropFrame, Destroy, Frame
  <2>2. CASE /\ Guard(target, Frame) /\ ShowSquash /\ Goto("compositor", "precomp")
             /\ UNCHANGED <<plan, hand, signalled>>
    <3>1. fence' \in [Buffers -> Ids \cup {NoComp}] /\ target' = NoBuffer
      BY <1>3, <2>2 DEF ApplySquash, Guard, Frame
    <3>2. shows' \in [Ids -> SUBSET Buffers]
      BY <2>2, ShowSquashTyped
    <3>. QED
      BY <1>3, <2>2, <3>1, <3>2 DEF ApplySquash
  <2>. QED
    BY <1>3, <2>1, <2>2 DEF ApplySquash
<1>4. CASE ReuseSquash
  <2>1. CASE DropFrame /\ UNCHANGED <<shows, fence>>
    BY <1>4, <2>1 DEF ReuseSquash, DropFrame, Destroy, Frame
  <2>2. CASE /\ plan.uses /\ Guard(<<"squash", squash_framebuffer_index_>>, Frame)
             /\ ShowSquash /\ Goto("compositor", "precomp")
             /\ UNCHANGED <<plan, hand, signalled>>
    <3>1. fence' \in [Buffers -> Ids \cup {NoComp}] /\ target' = NoBuffer
      BY <1>4, <2>2 DEF ReuseSquash, Guard, Frame
    <3>2. shows' \in [Ids -> SUBSET Buffers]
      BY <2>2, ShowSquashTyped
    <3>. QED
      BY <1>4, <2>2, <3>1, <3>2 DEF ReuseSquash
  <2>3. CASE /\ ~plan.uses /\ UNCHANGED <<fence, target>>
             /\ ShowSquash /\ Goto("compositor", "precomp")
             /\ UNCHANGED <<plan, hand, signalled>>
    <3>1. shows' \in [Ids -> SUBSET Buffers]
      BY <2>3, ShowSquashTyped
    <3>. QED
      BY <1>4, <2>3, <3>1 DEF ReuseSquash
  <2>. QED
    BY <1>4, <2>1, <2>2, <2>3 DEF ReuseSquash
<1>5. CASE PreparePreComp
  <2>1. CASE Render(PreBuffer, "gl_pre") /\ UNCHANGED <<plan, hand, signalled>>
    BY <1>5, <2>1 DEF PreparePreComp, Render
  <2>2. CASE DropFrame /\ UNCHANGED fence
    BY <1>5, <2>2 DEF PreparePreComp, DropFrame, Destroy, Frame
  <2>3. CASE /\ Goto("compositor", "test")
             /\ UNCHANGED <<plan, fence, target, hand, signalled>>
    BY <1>5, <2>3 DEF PreparePreComp
  <2>. QED
    BY <1>5, <2>1, <2>2, <2>3 DEF PreparePreComp, RenderOrDrop
<1>6. CASE ApplyPreComposite
  <2>1. CASE DropFrame /\ UNCHANGED <<shows, fence, framebuffer_index_>>
    BY <1>6, <2>1 DEF ApplyPreComposite, DropFrame, Destroy, Frame
  <2>2. CASE /\ Guard(target, Frame) /\ NextBuffer
             /\ shows' = [shows EXCEPT ![Frame] = @ \cup {target}]
             /\ Goto("compositor", "test") /\ UNCHANGED <<plan, hand, signalled>>
    <3>1. Frame \in Ids /\ target \in Buffers
      BY <1>6 DEF ApplyPreComposite, Frame
    <3>2. fence' \in [Buffers -> Ids \cup {NoComp}] /\ target' = NoBuffer
      BY <2>2, <3>1 DEF Guard
    <3>3. shows' \in [Ids -> SUBSET Buffers]
      BY <2>2, <3>1
    <3>4. framebuffer_index_' \in 0 .. DisplayBuffers - 1
      BY <2>2, IndexWraps
    <3>. QED
      BY <1>6, <2>2, <3>1, <3>2, <3>3, <3>4 DEF ApplyPreComposite
  <2>. QED
    BY <1>6, <2>1, <2>2 DEF ApplyPreComposite
<1>7. CASE TestCommit
  BY <1>7 DEF TestCommit
<1>8. CASE SquashFrameBegin
  <2>1. CASE Render(PreBuffer, "gl_frame") /\ UNCHANGED <<plan, hand, signalled>>
    BY <1>8, <2>1 DEF SquashFrameBegin, Render
  <2>2. CASE DropFrame /\ UNCHANGED fence
    BY <1>8, <2>2 DEF SquashFrameBegin, DropFrame, Destroy, Frame
  <2>. QED
    BY <1>8, <2>1, <2>2 DEF SquashFrameBegin, RenderOrDrop
<1>9. CASE SquashFrameEnd
  <2>1. CASE DropFrame /\ UNCHANGED <<shows, fence, framebuffer_index_>>
    BY <1>9, <2>1 DEF SquashFrameEnd, DropFrame, Destroy, Frame
  <2>2. CASE /\ Guard(target, Squashed(Frame)) /\ NextBuffer
             /\ shows' = [shows EXCEPT ![Squashed(Frame)] = {target}]
             /\ Destroy({Frame})
             /\ hand' = [hand EXCEPT !["compositor"] = Squashed(Frame)]
             /\ Goto("compositor", "queue") /\ plan' = NoPlan
    <3>1. Frame \in Ids /\ Squashed(Frame) \in Ids /\ target \in Buffers
      BY <1>9 DEF SquashFrameEnd, Frame
    <3>2. fence' \in [Buffers -> Ids \cup {NoComp}] /\ target' = NoBuffer
      BY <2>2, <3>1 DEF Guard
    <3>3. shows' \in [Ids -> SUBSET Buffers]
      BY <2>2, <3>1
    <3>4. framebuffer_index_' \in 0 .. DisplayBuffers - 1
      BY <2>2, IndexWraps
    <3>5. signalled' \subseteq Ids
      BY <2>2, <3>1 DEF Destroy
    <3>. QED
      BY <1>9, <2>2, <3>1, <3>2, <3>3, <3>4, <3>5 DEF SquashFrameEnd
  <2>. QED
    BY <1>9, <2>1, <2>2 DEF SquashFrameEnd
<1>10. CASE QueueFrame
  BY <1>10 DEF QueueFrame, Frame
<1>. QED
  BY <1>1, <1>2, <1>3, <1>4, <1>5, <1>6, <1>7, <1>8, <1>9, <1>10 DEF Composite

\* SquashAll, too.
LEMMA SquashAllPlaced ==
    ASSUME Placed, SquashAll
    PROVE  Placed'
<1> USE IdFacts, BufferFacts
    DEF Placed, TypeOK, HandsHold, Targets, PreparePc, CompositorPc, RenderPc,
        ApplyPc, Workers, Goto, inputVars, bufferVars, squashVars, compVars,
        screenVars
<1>1. CASE SquashAllBegin
  BY <1>1 DEF SquashAllBegin, Fault
<1>2. CASE SquashAllRender
  <2>1. CASE Render(PreBuffer, "gl_all") /\ UNCHANGED <<squashable, signalled>>
    BY <1>2, <2>1 DEF SquashAllRender, Render
  <2>2. CASE SquashAllFails
    <3>1. Squashed(active_composition_) \in Ids
      BY <1>2 DEF SquashAllRender
    <3>. QED
      BY <1>2, <2>2, <3>1 DEF SquashAllRender, SquashAllFails, Destroy
  <2>. QED
    BY <1>2, <2>1, <2>2 DEF SquashAllRender
<1>3. CASE SquashAllEnd
  <2> DEFINE all == Squashed(active_composition_)
  <2>1. all \in Ids /\ target \in Buffers
    BY <1>3 DEF SquashAllEnd
  <2>2. CASE SquashAllFails /\ UNCHANGED <<framebuffer_index_, shows, hand>>
    BY <1>3, <2>1, <2>2 DEF SquashAllEnd, SquashAllFails, Destroy
  <2> HIDE DEF all
  <2>3. CASE /\ Guard(target, all) /\ NextBuffer
             /\ shows' = [shows EXCEPT ![all] = {target}]
             /\ hand' = [hand EXCEPT !["compositor"] = all]
             /\ squashable' = squashable \ {active_composition_}
             /\ Goto("compositor", "commit") /\ UNCHANGED signalled
    <3>1. fence' \in [Buffers -> Ids \cup {NoComp}] /\ target' = NoBuffer
      BY <2>1, <2>3 DEF Guard
    <3>2. shows' \in [Ids -> SUBSET Buffers]
      BY <2>1, <2>3
    <3>3. framebuffer_index_' \in 0 .. DisplayBuffers - 1
      BY <2>3, IndexWraps
    <3>. QED
      BY <1>3, <2>1, <2>3, <3>1, <3>2, <3>3 DEF SquashAllEnd
  <2>. QED
    BY <1>3, <2>2, <2>3 DEF SquashAllEnd, all
<1>. QED
  BY <1>1, <1>2, <1>3 DEF SquashAll

\* FrameWorker::Routine and ApplyFrame, on either worker.
LEMMA ApplyPlaced ==
    ASSUME Placed, FrameRoutine \/ \E w \in Workers : ApplyFrame(w)
    PROVE  Placed'
<1> USE IdFacts
    DEF Placed, TypeOK, HandsHold, Targets, PreparePc, CompositorPc, RenderPc,
        ApplyPc, Workers, Goto, inputVars, bufferVars, squashVars, compVars,
        screenVars
<1>1. CASE FrameRoutine
  <2>1. Head(frame_queue_) \in Ids /\ Tail(frame_queue_) \in Seq(Ids)
    BY <1>1 DEF FrameRoutine
  <2>. QED
    BY <1>1, <2>1 DEF FrameRoutine
<1>2. ASSUME NEW w \in Workers, CommitFrame(w) PROVE Placed'
  <2>1. faults' \subseteq Fault
    BY <1>2 DEF CommitFrame, Fault
  <2>2. deref' \in [Workers -> Ids \cup {NoComp}] /\ pc'[w] \in ApplyPc
    BY <1>2 DEF CommitFrame
  <2>3. hand[w] \in Ids /\ scanout' \in {scanout, hand[w]}
    BY <1>2 DEF CommitFrame
  <2>. QED
    BY <1>2, <2>1, <2>2, <2>3 DEF CommitFrame
<1>3. ASSUME NEW w \in Workers, DisablePlanes(w) PROVE Placed'
  <2>1. faults' \subseteq Fault /\ scanout' \in Ids \cup {NoComp}
    BY <1>3 DEF DisablePlanes, Fault
  <2>2. /\ deref' \in [Workers -> Ids \cup {NoComp}] /\ signalled' \subseteq Ids
        /\ hand' \in [Workers -> Ids \cup {NoComp}]
    BY <1>3 DEF DisablePlanes, Destroy
  <2>. QED
    BY <1>3, <2>1, <2>2 DEF DisablePlanes
<1>4. ASSUME NEW w \in Workers, SignalActive(w) PROVE Placed'
  BY <1>4 DEF SignalActive
<1>5. ASSUME NEW w \in Workers, SwapActive(w) PROVE Placed'
  BY <1>5 DEF SwapActive, Destroy, LockFree
<1>. QED
  BY <1>1, <1>2, <1>3, <1>4, <1>5 DEF ApplyFrame

\* Every step keeps the places of compositions, buffers and fences.
LEMMA StepPlaced == Placed /\ [Next]_vars => Placed'
<1> SUFFICES ASSUME Placed, [Next]_vars PROVE Placed'
  OBVIOUS
<1>1. CASE UNCHANGED vars
  BY <1>1 DEF vars, Placed, TypeOK, HandsHold, Targets, inputVars, bufferVars, squashVars,
              compVars, screenVars
<1>. QED
  BY <1>1, CompositePlaced, SquashAllPlaced, ApplyPlaced DEF Next

\* The first invariant holds in every behaviour.
LEMMA AlwaysPlaced == Spec => []Placed
  BY InitPlaced, StepPlaced, PTL DEF Spec

\* All pointers are where the code expects them and every variable has its
\* type, with SquashAll at any time and any error.
THEOREM PipelineTypeCorrect == Spec => []TypeOK
<1>1. Placed => TypeOK
  BY DEF Placed
<1>. QED
  BY <1>1, AlwaysPlaced, PTL

-----------------------------------------------------------------------------
(***************************************************************************)
(* Every fence has somebody to signal it.                                  *)
(***************************************************************************)
Elements(q) == {q[i] : i \in DOMAIN q}
Queued == Elements(frame_queue_)

\* The compositions that still exist and will be signalled.
Live == ({hand["compositor"], hand["frame"], active_composition_} \cup Queued)
            \ {NoComp}

\* QueueFrame pushes on frame_queue_.
LEMMA QueueAppend ==
    ASSUME NEW q \in Seq(Ids), NEW c \in Ids
    PROVE  Elements(Append(q, c)) = Elements(q) \cup {c}
<1>1. /\ DOMAIN Append(q, c) = 1 .. Len(q) + 1 /\ DOMAIN q = 1 .. Len(q)
      /\ \A i \in 1 .. Len(q) : Append(q, c)[i] = q[i]
      /\ Append(q, c)[Len(q) + 1] = c /\ Len(q) \in Nat
  OBVIOUS
<1>. QED
  BY <1>1 DEF Elements

\* FrameWorker::Routine pops from frame_queue_.
LEMMA QueuePop ==
    ASSUME NEW q \in Seq(Ids), q # <<>>
    PROVE  Elements(q) = {Head(q)} \cup Elements(Tail(q))
<1>1. /\ DOMAIN Tail(q) = 1 .. Len(q) - 1 /\ DOMAIN q = 1 .. Len(q)
      /\ \A i \in 1 .. Len(q) - 1 : Tail(q)[i] = q[i + 1]
      /\ Head(q) = q[1] /\ Len(q) \in Nat \ {0}
  OBVIOUS
<1>2. ASSUME NEW i \in 1 .. Len(q), i # 1
      PROVE  i - 1 \in 1 .. Len(q) - 1 /\ q[i] = Tail(q)[i - 1]
  <2>1. i - 1 \in 1 .. Len(q) - 1 /\ (i - 1) + 1 = i
    BY <1>1, <1>2
  <2>. QED
    BY <1>1, <2>1
<1>3. \A i \in 1 .. Len(q) - 1 : i + 1 \in 1 .. Len(q)
  BY <1>1
<1>4. \A i \in DOMAIN q : q[i] \in {Head(q)} \cup Elements(Tail(q))
  BY <1>1, <1>2 DEF Elements
<1>5. Head(q) \in Elements(q) /\ \A i \in DOMAIN Tail(q) : Tail(q)[i] \in Elements(q)
  BY <1>1, <1>3 DEF Elements
<1>. QED
  BY <1>4, <1>5 DEF Elements

\* A composition stops existing only when its fences are signalled, and a
\* signalled fence stays signalled.
LEMMA LiveUntilSignalled ==
    ASSUME Placed, Next
    PROVE  signalled \subseteq signalled' /\ Live \ Live' \subseteq signalled'
<1> USE IdFacts
    DEF Placed, TypeOK, HandsHold, PreparePc, ApplyPc, RenderPc, CompositorPc,
        Workers, Goto, Live, Queued, Frame, Destroy,
        inputVars, bufferVars, squashVars, compVars, screenVars
<1>1. CASE Composite
  <2>1. ASSUME NEW p \in Plans, TakeFrame(p)
        PROVE  signalled \subseteq signalled' /\ Live \ Live' \subseteq signalled'
    BY <2>1 DEF TakeFrame
  <2>2. CASE PrepareSquash
    BY <2>2 DEF PrepareSquash, RenderOrDrop, Render, DropFrame
  <2>3. CASE ApplySquash
    BY <2>3 DEF ApplySquash, DropFrame
  <2>4. CASE ReuseSquash
    BY <2>4 DEF ReuseSquash, DropFrame
  <2>5. CASE PreparePreComp
    BY <2>5 DEF PreparePreComp, RenderOrDrop, Render, DropFrame
  <2>6. CASE ApplyPreComposite
    BY <2>6 DEF ApplyPreComposite, DropFrame
  <2>7. CASE TestCommit
    BY <2>7 DEF TestCommit
  <2>8. CASE SquashFrameBegin
    BY <2>8 DEF SquashFrameBegin, RenderOrDrop, Render, DropFrame
  <2>9. CASE SquashFrameEnd
    BY <2>9 DEF SquashFrameEnd, DropFrame
  <2>10. CASE QueueFrame
    <3>1. Queued' = Queued \cup {Frame}
      BY <2>10, QueueAppend DEF QueueFrame
    <3>. QED
      BY <2>10, <3>1 DEF QueueFrame
  <2>. QED
    BY <1>1, <2>1, <2>2, <2>3, <2>4, <2>5, <2>6, <2>7, <2>8, <2>9, <2>10
    DEF Composite
<1>2. CASE SquashAll
  BY <1>2 DEF SquashAll, SquashAllBegin, SquashAllRender, SquashAllEnd, Render,
              SquashAllFails
<1>3. CASE FrameRoutine
  <2>1. Queued = Queued' \cup {Head(frame_queue_)}
    BY <1>3, QueuePop DEF FrameRoutine
  <2>. QED
    BY <1>3, <2>1 DEF FrameRoutine
<1>4. ASSUME NEW w \in Workers, ApplyFrame(w)
      PROVE  signalled \subseteq signalled' /\ Live \ Live' \subseteq signalled'
  <2>1. CASE CommitFrame(w) \/ SignalActive(w)
    BY <2>1 DEF CommitFrame, SignalActive
  <2>2. CASE DisablePlanes(w)
    BY <2>2 DEF DisablePlanes
  <2>3. CASE SwapActive(w)
    BY <2>3 DEF SwapActive
  <2>. QED
    BY <1>4, <2>1, <2>2, <2>3 DEF ApplyFrame
<1>. QED
  BY <1>1, <1>2, <1>3, <1>4 DEF Next

\* A framebuffer is only given the fence of a composition that exists.
LEMMA FencesOfLive ==
    ASSUME Placed, Next
    PROVE  \A b \in Buffers : fence'[b] \in {fence[b], NoComp} \cup Live'
<1> USE IdFacts, BufferFacts
    DEF Placed, TypeOK, HandsHold, Targets, PreparePc, ApplyPc, RenderPc,
        CompositorPc, Workers, Goto, Live, Frame,
        inputVars, bufferVars, squashVars, compVars, screenVars
<1> SUFFICES ASSUME NEW b \in Buffers
             PROVE  fence'[b] \in {fence[b], NoComp} \cup Live'
  OBVIOUS
<1>1. CASE Composite
  <2>1. CASE (\E p \in Plans : TakeFrame(p)) \/ TestCommit \/ QueueFrame
    BY <2>1 DEF TakeFrame, TestCommit, QueueFrame
  <2>2. CASE PrepareSquash
    BY <2>2 DEF PrepareSquash, RenderOrDrop, Render, DropFrame
  <2>3. CASE ApplySquash
    BY <2>3 DEF ApplySquash, Guard, DropFrame
  <2>4. CASE ReuseSquash
    <3>1. CASE Guard(<<"squash", squash_framebuffer_index_>>, Frame) /\ UNCHANGED hand
      <4>1. Frame \in Live'
        BY <2>4, <3>1 DEF ReuseSquash
      <4>2. fence'[b] \in {fence[b], Frame}
        BY <3>1 DEF Guard
      <4>. QED
        BY <4>1, <4>2
    <3>2. CASE UNCHANGED fence
      BY <3>2
    <3>. QED
      BY <2>4, <3>1, <3>2 DEF ReuseSquash
  <2>5. CASE PreparePreComp
    BY <2>5 DEF PreparePreComp, RenderOrDrop, Render, DropFrame
  <2>6. CASE ApplyPreComposite
    BY <2>6 DEF ApplyPreComposite, Guard, DropFrame
  <2>7. CASE SquashFrameBegin
    BY <2>7 DEF SquashFrameBegin, RenderOrDrop, Render, DropFrame
  <2>8. CASE SquashFrameEnd
    BY <2>8 DEF SquashFrameEnd, Guard, DropFrame
  <2>. QED
    BY <1>1, <2>1, <2>2, <2>3, <2>4, <2>5, <2>6, <2>7, <2>8 DEF Composite
<1>2. CASE SquashAll
  BY <1>2 DEF SquashAll, SquashAllBegin, SquashAllRender, SquashAllEnd, Render,
              Guard, SquashAllFails
<1>3. CASE FrameRoutine \/ \E w \in Workers : ApplyFrame(w)
  BY <1>3 DEF FrameRoutine, ApplyFrame, CommitFrame, DisablePlanes, SignalActive,
              SwapActive
<1>. QED
  BY <1>1, <1>2, <1>3 DEF Next

\* The inductive form of NoOrphanFence, which does not count the screen.
FencesLive ==
    \A b \in Buffers : fence[b] # NoComp /\ fence[b] \notin signalled
                           => fence[b] \in Live

\* However frames are dropped, squashed or refused, and also when SquashAll
\* races with the frame worker, every unsignalled framebuffer fence belongs to
\* a composition that will signal it.
THEOREM NoFenceOrphaned == Spec => []NoOrphanFence
<1>1. Init => FencesLive
  BY DEF Init, FencesLive
<1>2. Placed /\ FencesLive /\ [Next]_vars => FencesLive'
  <2> SUFFICES ASSUME Placed, FencesLive, [Next]_vars PROVE FencesLive'
    OBVIOUS
  <2>1. CASE Next
    BY <2>1, LiveUntilSignalled, FencesOfLive DEF FencesLive
  <2>2. CASE UNCHANGED vars
    BY <2>2 DEF vars, FencesLive, Live, Queued, bufferVars, squashVars, screenVars
  <2>. QED
    BY <2>1, <2>2
<1>3. FencesLive => NoOrphanFence
  BY DEF FencesLive, NoOrphanFence, Live, Queued, Elements, ToBeCommitted
<1>. QED
  BY <1>1, <1>2, <1>3, AlwaysPlaced, PTL DEF Spec

-----------------------------------------------------------------------------
(***************************************************************************)
(* Framebuffers: a framebuffer on the planes of a composition that is not  *)
(* released is guarded by it, and GL renders into an unguarded one.        *)
(***************************************************************************)
RendersUnguarded ==
    /\ pc["compositor"] \in {"gl_pre", "gl_frame", "gl_all"}
           => target \in PreBuffers /\ fence[target] = NoComp
    /\ pc["compositor"] = "gl_squash" => target \in Buffers \ PreBuffers

ShownIsGuarded ==
    \A c \in Ids \ signalled : \A b \in shows[c] \cap PreBuffers : fence[b] = c

Guarded == RendersUnguarded /\ ShownIsGuarded

\* Nothing is in flight at first.
LEMMA InitGuarded == Init => Guarded
  BY DEF Init, Guarded, RendersUnguarded, ShownIsGuarded, Workers

\* A squash framebuffer is none of those that PreBuffer picks.
LEMMA ShowSquashKeeps ==
    ASSUME TypeOK, ShowSquash
    PROVE  \A c \in Ids : shows'[c] \cap PreBuffers = shows[c] \cap PreBuffers
<1> DEFINE b == <<"squash", squash_framebuffer_index_>>
<1>1. b \notin PreBuffers /\ shows \in [Ids -> SUBSET Buffers]
  BY BufferFacts DEF TypeOK
<1> HIDE DEF b
<1>2. shows' = shows \/ shows' = [shows EXCEPT ![Frame] = @ \cup {b}]
  BY DEF ShowSquash, b
<1>. QED
  BY <1>1, <1>2

\* WaitReleased comes before every rendering, so a framebuffer that is still
\* shown is not rendered into; and the fence set after the rendering is that
\* of the composition that gets the framebuffer on its planes.
LEMMA StepGuarded == Placed /\ Guarded /\ [Next]_vars => Guarded'
<1> SUFFICES ASSUME Placed, Guarded, [Next]_vars PROVE Guarded'
  OBVIOUS
<1> USE IdFacts, BufferFacts
    DEF Placed, TypeOK, HandsHold, Targets, PreparePc, ApplyPc, RenderPc,
        CompositorPc, Workers, Goto, Frame, Guarded, RendersUnguarded,
        ShownIsGuarded, inputVars, bufferVars, squashVars, compVars, screenVars
<1>1. CASE Composite
  <2>1. CASE (\E p \in Plans : TakeFrame(p)) \/ TestCommit \/ QueueFrame
    BY <2>1 DEF TakeFrame, TestCommit, QueueFrame
  <2>2. CASE PrepareSquash
    <3>1. <<"squash", squash_framebuffer_index_'>> \in Buffers \ PreBuffers
      BY <2>2 DEF PrepareSquash, SquashBuffers, Buffers, PreBuffers
    <3>2. CASE DropFrame /\ UNCHANGED fence
      BY <2>2, <3>2 DEF PrepareSquash, DropFrame, Destroy
    <3>3. CASE Render(<<"squash", squash_framebuffer_index_'>>, "gl_squash")
               /\ UNCHANGED <<plan, hand, signalled>>
      <4> DEFINE b == <<"squash", squash_framebuffer_index_'>>
      <4>1. b \notin PreBuffers /\ b \in Buffers
        BY <3>1
      <4> HIDE DEF b
      <4>2. fence' = [fence EXCEPT ![b] = NoComp] /\ target' = b
            /\ UNCHANGED <<shows, signalled>> /\ pc'["compositor"] = "gl_squash"
        BY <2>2, <3>3 DEF PrepareSquash, Render, b
      <4>. QED
        BY <4>1, <4>2
    <3>. QED
      BY <2>2, <3>2, <3>3 DEF PrepareSquash, RenderOrDrop
  <2>3. CASE ApplySquash
    <3>1. CASE DropFrame /\ UNCHANGED <<shows, fence>>
      BY <2>3, <3>1 DEF ApplySquash, DropFrame, Destroy
    <3>2. CASE /\ Guard(target, Frame) /\ ShowSquash
               /\ Goto("compositor", "precomp") /\ UNCHANGED <<plan, hand, signalled>>
      <4>1. \A b \in PreBuffers : fence'[b] = fence[b]
        BY <2>3, <3>2 DEF ApplySquash, Guard
      <4>2. \A c \in Ids : shows'[c] \cap PreBuffers = shows[c] \cap PreBuffers
        BY <3>2, ShowSquashKeeps
      <4>. QED
        BY <3>2, <4>1, <4>2
    <3>. QED
      BY <2>3, <3>1, <3>2 DEF ApplySquash
  <2>4. CASE ReuseSquash
    <3>1. CASE DropFrame /\ UNCHANGED <<shows, fence>>
      BY <2>4, <3>1 DEF ReuseSquash, DropFrame, Destroy
    <3>2. CASE ShowSquash /\ Goto("compositor", "precomp")
               /\ UNCHANGED <<plan, hand, signalled>>
      <4>1. \A b \in PreBuffers : fence'[b] = fence[b]
        BY <2>4, <3>2 DEF ReuseSquash, Guard
      <4>2. \A c \in Ids : shows'[c] \cap PreBuffers = shows[c] \cap PreBuffers
        BY <3>2, ShowSquashKeeps
      <4>. QED
        BY <2>4, <3>2, <4>1, <4>2 DEF ReuseSquash
    <3>. QED
      BY <2>4, <3>1, <3>2 DEF ReuseSquash
  <2>5. CASE PreparePreComp
    BY <2>5 DEF PreparePreComp, RenderOrDrop, Render, Released, DropFrame, Destroy
  <2>6. CASE ApplyPreComposite
    <3>1. CASE DropFrame /\ UNCHANGED <<shows, fence>>
      BY <2>6, <3>1 DEF ApplyPreComposite, DropFrame, Destroy
    <3>2. CASE /\ Guard(target, Frame)
               /\ shows' = [shows EXCEPT ![Frame] = @ \cup {target}]
               /\ Goto("compositor", "test") /\ UNCHANGED signalled
      <4>1. Frame \in Ids /\ target \in Buffers
        BY <2>6 DEF ApplyPreComposite
      <4>2. RendersUnguarded'
        BY <2>6, <3>2
      <4>3. ShownIsGuarded'
        BY <3>2, <4>1, <2>6 DEF ApplyPreComposite, Guard
      <4>. QED
        BY <4>2, <4>3
    <3>. QED
      BY <2>6, <3>1, <3>2 DEF ApplyPreComposite
  <2>7. CASE SquashFrameBegin
    BY <2>7 DEF SquashFrameBegin, RenderOrDrop, Render, Released, DropFrame, Destroy
  <2>8. CASE SquashFrameEnd
    <3>1. CASE DropFrame /\ UNCHANGED <<shows, fence>>
      BY <2>8, <3>1 DEF SquashFrameEnd, DropFrame, Destroy
    <3>2. CASE /\ Guard(target, Squashed(Frame)) /\ Destroy({Frame})
               /\ shows' = [shows EXCEPT ![Squashed(Frame)] = {target}]
               /\ Goto("compositor", "queue")
      <4>1. Squashed(Frame) \in Ids /\ target \in PreBuffers
        BY <2>8 DEF SquashFrameEnd
      <4>2. RendersUnguarded'
        BY <2>8, <3>2
      <4>3. ShownIsGuarded'
        BY <3>2, <4>1, <2>8 DEF SquashFrameEnd, Guard, Destroy
      <4>. QED
        BY <4>2, <4>3
    <3>. QED
      BY <2>8, <3>1, <3>2 DEF SquashFrameEnd
  <2>. QED
    BY <1>1, <2>1, <2>2, <2>3, <2>4, <2>5, <2>6, <2>7, <2>8 DEF Composite
<1>2. CASE SquashAll
  <2>1. CASE SquashAllBegin
    BY <2>1 DEF SquashAllBegin
  <2>2. CASE SquashAllRender
    BY <2>2 DEF SquashAllRender, Render, Released, SquashAllFails, Destroy
  <2>3. CASE SquashAllEnd
    <3>1. CASE SquashAllFails /\ UNCHANGED shows
      BY <2>3, <3>1 DEF SquashAllEnd, SquashAllFails, Destroy
    <3>2. CASE /\ Guard(target, Squashed(active_composition_))
               /\ shows' = [shows EXCEPT ![Squashed(active_composition_)] = {target}]
               /\ Goto("compositor", "commit")
               /\ UNCHANGED signalled
      <4>1. Squashed(active_composition_) \in Ids /\ target \in PreBuffers
        BY <2>3 DEF SquashAllEnd
      <4>2. RendersUnguarded'
        BY <2>3, <3>2
      <4>3. ShownIsGuarded'
        BY <3>2, <4>1, <2>3 DEF SquashAllEnd, Guard
      <4>. QED
        BY <4>2, <4>3
    <3>. QED
      BY <2>3, <3>1, <3>2 DEF SquashAllEnd
  <2>. QED
    BY <1>2, <2>1, <2>2, <2>3 DEF SquashAll
<1>3. CASE FrameRoutine \/ \E w \in Workers : ApplyFrame(w)
  <2>1. CASE FrameRoutine
    BY <2>1 DEF FrameRoutine
  <2>2. ASSUME NEW w \in Workers, ApplyFrame(w) PROVE Guarded'
    BY <2>2 DEF ApplyFrame, CommitFrame, DisablePlanes, SignalActive, SwapActive,
                Destroy
  <2>. QED
    BY <1>3, <2>1, <2>2
<1>4. CASE UNCHANGED vars
  BY <1>4 DEF vars
<1>. QED
  BY <1>1, <1>2, <1>3, <1>4 DEF Next

-----------------------------------------------------------------------------
(***************************************************************************)
(* The order of the compositions, which nothing disturbs, and what is on   *)
(* the screen as far as the faults allow.                                  *)
(***************************************************************************)
ComposePc == PreparePc \cup {"queue"}

\* The compositions the compositor worker has no unique_ptr to.
Sent == ({hand["frame"], active_composition_} \cup Queued) \ {NoComp}

\* Without an overlap only one worker is in ApplyFrame, and SquashAll has
\* nothing queued behind it.
OneApplies ==
    "overlap" \notin faults =>
        (pc["compositor"] \in {"squash_all", "gl_all"} \cup ApplyPc => FrameWorkerIdle)

\* The compositor worker prepares the frame it took last; all others are older.
PreparesNewest ==
    /\ pc["compositor"] \in ComposePc => FrameNo(hand["compositor"]) = taken
    /\ \A c \in Sent : /\ FrameNo(c) <= taken
                       /\ pc["compositor"] \in ComposePc => FrameNo(c) < taken

\* frame_queue_ is in the order of the frames.
QueueSorted ==
    \A i, j \in DOMAIN frame_queue_ :
        i < j => FrameNo(frame_queue_[i]) < FrameNo(frame_queue_[j])

\* What is queued comes after what the frame worker applies, and that after
\* what is active.
AppliedInOrder ==
    /\ \A c \in Queued : \A d \in {hand["frame"], active_composition_} \ {NoComp} :
           FrameNo(d) < FrameNo(c)
    /\ hand["frame"] # NoComp /\ active_composition_ # NoComp
           => FrameNo(active_composition_) < FrameNo(hand["frame"])

\* The compositor worker applies what a composition was squashed into: the
\* active one or, after an overlap, an older one.
AppliesSquashed ==
    pc["compositor"] \in ApplyPc =>
        \E n \in Frames \ squashable :
            /\ hand["compositor"] = Squashed(n)
            /\ active_composition_ # NoComp
            /\ active_composition_ = n \/ n < FrameNo(active_composition_)
            /\ "overlap" \notin faults => active_composition_ = n

\* A composition that was signalled or shown is of a frame that was taken, and
\* a frame that can still be squashed has no squashed composition yet.
Fresh ==
    /\ \A c \in (signalled \cup {scanout}) \ {NoComp} : FrameNo(c) <= taken
    /\ \A n \in squashable \cap Live : Squashed(n) \notin signalled \cup {scanout}
    /\ \A n \in squashable : n <= taken
    /\ pc["compositor"] = "gl_frame" => hand["compositor"] \in squashable

\* No composition that exists is released, but for the one being replaced.
Unreleased ==
    \A c \in Live \cap signalled :
        c = active_composition_ /\ \E w \in Workers : pc[w] = "swap"

\* The screen shows the active composition, or the one about to replace it.
ScreenExact ==
    faults = {} =>
        /\ \A w \in Workers :
               /\ pc[w] \in {"signal", "swap"} => scanout \in {NoComp, hand[w]}
               /\ pc[w] = "disable" => scanout \in {NoComp, hand[w], active_composition_}
        /\ (\A w \in Workers : pc[w] \notin ApplyPc \ {"commit"})
               => scanout \in {NoComp, active_composition_}

NotNewer(c) == c # NoComp /\ FrameNo(scanout) <= FrameNo(c)

\* When commits are skipped for a pending modeset it may show an older one, but
\* none that is newer.
ScreenBehind ==
    faults \cap {"overlap", "late"} = {} /\ scanout # NoComp =>
        /\ \A w \in Workers :
               /\ pc[w] \in {"signal", "swap"} => NotNewer(hand[w])
               /\ pc[w] = "disable" => scanout = hand[w] \/ NotNewer(active_composition_)
        /\ (\A w \in Workers : pc[w] \notin ApplyPc \ {"commit"})
               => NotNewer(active_composition_)

\* DisablePlanes works on the active composition.
Derefs ==
    "overlap" \notin faults =>
        \A w \in Workers : pc[w] = "disable" => deref[w] = active_composition_

OnScreen == ScreenExact /\ ScreenBehind
Ordered == OneApplies /\ PreparesNewest /\ QueueSorted /\ AppliedInOrder
               /\ AppliesSquashed
InOrder == Ordered /\ Fresh /\ Unreleased /\ OnScreen /\ Derefs

\* What Composite does to the compositions, whatever it renders.
Keeps ==
    /\ pc["compositor"] \in ComposePc
    /\ \E place \in ComposePc :
           /\ Goto("compositor", place)
           /\ place = "gl_frame" => Frame \in squashable
    /\ UNCHANGED <<taken, squashable, signalled, frame_queue_, screenVars, hand>>

Drops ==
    /\ pc["compositor"] \in PreparePc
    /\ DropFrame
    /\ UNCHANGED <<taken, squashable, frame_queue_, screenVars>>

Replaces ==
    /\ pc["compositor"] = "gl_frame"
    /\ hand' = [hand EXCEPT !["compositor"] = Squashed(Frame)]
    /\ Goto("compositor", "queue")
    /\ Destroy({Frame})
    /\ UNCHANGED <<taken, squashable, frame_queue_, screenVars>>

\* Composite takes a frame, works on it, drops it, replaces it or queues it.
LEMMA CompositeCases ==
    ASSUME Composite
    PROVE  \/ \E p \in Plans : TakeFrame(p)
           \/ Keeps \/ Drops \/ Replaces \/ QueueFrame
<1> USE DEF PreparePc, ComposePc, inputVars, bufferVars, squashVars, compVars
<1>1. CASE PrepareSquash
  BY <1>1 DEF PrepareSquash, RenderOrDrop, Render, Keeps, Drops
<1>2. CASE ApplySquash
  BY <1>2 DEF ApplySquash, Keeps, Drops
<1>3. CASE ReuseSquash
  BY <1>3 DEF ReuseSquash, Keeps, Drops
<1>4. CASE PreparePreComp
  BY <1>4 DEF PreparePreComp, RenderOrDrop, Render, Keeps, Drops
<1>5. CASE ApplyPreComposite
  BY <1>5 DEF ApplyPreComposite, Keeps, Drops
<1>6. CASE TestCommit
  BY <1>6 DEF TestCommit, Keeps
<1>7. CASE SquashFrameBegin
  BY <1>7 DEF SquashFrameBegin, RenderOrDrop, Render, Keeps, Drops
<1>8. CASE SquashFrameEnd
  BY <1>8 DEF SquashFrameEnd, Replaces, Drops
<1>. QED
  BY <1>1, <1>2, <1>3, <1>4, <1>5, <1>6, <1>7, <1>8 DEF Composite

\* Two compositions of one frame exist only while SquashAll applies one.
LEMMA OnePerFrame ==
    ASSUME Placed, Ordered, NEW c \in Live, NEW d \in Live, FrameNo(c) = FrameNo(d)
    PROVE  \/ c = d
           \/ pc["compositor"] \in ApplyPc /\ {c, d} = {hand["compositor"], active_composition_}
<1> USE IdFacts
    DEF Placed, TypeOK, HandsHold, PreparePc, ApplyPc, RenderPc, CompositorPc,
        ComposePc, Workers, Live, Sent
<1>1. Queued \subseteq Ids
  BY DEF Queued, Elements
<1>2. \A x \in Ids : FrameNo(x) \in Nat
  BY FrameAssumption DEF FrameNo, Ids
<1>3. ASSUME NEW x \in Queued, NEW y \in Queued, FrameNo(x) = FrameNo(y)
      PROVE  x = y
  <2>1. PICK i \in DOMAIN frame_queue_ : x = frame_queue_[i]
    BY DEF Queued, Elements
  <2>2. PICK j \in DOMAIN frame_queue_ : y = frame_queue_[j]
    BY DEF Queued, Elements
  <2>3. FrameNo(x) \in Nat /\ FrameNo(y) \in Nat
    BY <1>1, <1>2
  <2>4. i < j \/ j < i \/ i = j
    BY <2>1, <2>2
  <2>. QED
    BY <1>3, <2>1, <2>2, <2>3, <2>4 DEF Ordered, QueueSorted
<1>4. ASSUME NEW x \in Sent, NEW y \in Sent, FrameNo(x) = FrameNo(y)
      PROVE  x = y
  BY <1>1, <1>2, <1>3, <1>4 DEF Ordered, AppliedInOrder
<1>5. ASSUME NEW x \in Sent, hand["compositor"] # NoComp,
             FrameNo(x) = FrameNo(hand["compositor"])
      PROVE  pc["compositor"] \in ApplyPc /\ x = active_composition_
  <2>1. pc["compositor"] \in ComposePc \cup ApplyPc
    BY <1>5
  <2>2. pc["compositor"] \notin ComposePc
    BY <1>1, <1>2, <1>5 DEF Ordered, PreparesNewest
  <2>3. PICK n \in Frames : /\ hand["compositor"] = Squashed(n)
                            /\ active_composition_ \in Ids
                            /\ n <= FrameNo(active_composition_)
    BY <1>2, <2>1, <2>2 DEF Ordered, AppliesSquashed
  <2>4. FrameNo(x) = n /\ n \in Nat
    BY <1>5, <2>3, FrameAssumption DEF Frames
  <2>5. \A y \in Sent \ {active_composition_} :
            y \in Ids /\ FrameNo(active_composition_) < FrameNo(y)
    BY <1>1, <2>3 DEF Ordered, AppliedInOrder
  <2>. QED
    BY <1>2, <2>1, <2>2, <2>3, <2>4, <2>5
<1>. QED
  BY <1>4, <1>5

-----------------------------------------------------------------------------
\* The compositor worker prepares a frame.
LEMMA CompositeInOrder ==
    ASSUME Placed, Placed', InOrder, Composite
    PROVE  InOrder'
<1> USE IdFacts, FrameAssumption
    DEF Placed, TypeOK, HandsHold, Targets, PreparePc, ApplyPc, RenderPc, CompositorPc,
        ComposePc, Workers, Goto, Frame, FrameWorkerIdle,
        inputVars, bufferVars, squashVars, compVars, screenVars
<1>1. Queued \subseteq Ids
  BY DEF Queued, Elements
<1>2. \A c \in Ids : FrameNo(c) \in Nat
  BY DEF FrameNo, Ids
<1>3. ASSUME NEW p \in Plans, TakeFrame(p) PROVE InOrder'
  <2>1. /\ Sent' = Sent /\ Live' = Live \cup {taken + 1} /\ Live = Sent
        /\ taken + 1 \in Frames
    BY <1>3 DEF TakeFrame, Sent, Live, Queued, Frames
  <2>2. Ordered'
    <3>1. PreparesNewest'
      <4>1. FrameNo(taken + 1) = taken + 1 /\ hand'["compositor"] = taken + 1
            /\ taken' = taken + 1
        BY <1>3, <2>1 DEF TakeFrame
      <4>2. \A c \in Sent : FrameNo(c) <= taken /\ c \in Ids
        BY <1>1 DEF InOrder, Ordered, PreparesNewest, Sent
      <4>. QED
        <5>1. taken \in Nat /\ Live' = Sent \cup {taken + 1}
          BY <2>1
        <5>2. \A c \in Sent : FrameNo(c) \in Nat /\ FrameNo(c) < taken + 1
          BY <1>2, <4>2, <5>1
        <5>. QED
          BY <2>1, <4>1, <5>1, <5>2 DEF PreparesNewest
    <3>2. QueueSorted' /\ AppliedInOrder'
      BY <1>3 DEF TakeFrame, InOrder, Ordered, QueueSorted, AppliedInOrder, Queued
    <3>3. OneApplies' /\ AppliesSquashed'
      BY <1>3 DEF TakeFrame, OneApplies, AppliesSquashed
    <3>. QED
      BY <3>1, <3>2, <3>3 DEF Ordered
  <2>3. Fresh'
    <3>1. \A c \in (signalled \cup {scanout}) \ {NoComp} : FrameNo(c) <= taken
      BY DEF InOrder, Fresh
    <3>2. FrameNo(Squashed(taken + 1)) = taken + 1
      BY <2>1
    <3>3. squashable' \subseteq squashable \cup {taken + 1} /\ taken' = taken + 1
      BY <1>3 DEF TakeFrame
    <3>4. UNCHANGED <<signalled, scanout>> /\ pc'["compositor"] = "squash"
      BY <1>3 DEF TakeFrame
    <3>5. Squashed(taken + 1) \notin signalled \cup {scanout}
      <4>1. taken \in Nat /\ Squashed(taken + 1) # NoComp
        BY <2>1
      <4>. QED
        BY <3>1, <3>2, <4>1
    <3>6. \A c \in (signalled \cup {scanout}) \ {NoComp} : FrameNo(c) <= taken + 1
      BY <1>2, <3>1
    <3>7. \A n \in squashable : n <= taken + 1
      BY <1>2 DEF InOrder, Fresh
    <3>. QED
      BY <2>1, <3>3, <3>4, <3>5, <3>6, <3>7 DEF InOrder, Fresh
  <2>4. Unreleased'
    BY <1>1, <1>2, <1>3, <2>1 DEF TakeFrame, InOrder, Fresh, Unreleased
  <2>5. OnScreen' /\ Derefs'
    BY <1>3 DEF TakeFrame, InOrder, OnScreen, ScreenExact, ScreenBehind, NotNewer, Derefs
  <2>. QED
    BY <2>2, <2>3, <2>4, <2>5 DEF InOrder
<1>4. CASE Keeps
  <2>1. Sent' = Sent /\ Live' = Live /\ Queued' = Queued
    BY <1>4 DEF Keeps, Sent, Live, Queued
  <2>2. Ordered'
    BY <1>4, <2>1
    DEF Keeps, InOrder, Ordered, OneApplies, PreparesNewest, QueueSorted,
        AppliedInOrder, AppliesSquashed
  <2>3. Fresh'
    BY <1>4, <2>1 DEF Keeps, InOrder, Fresh
  <2>4. Unreleased'
    BY <1>4, <2>1 DEF Keeps, InOrder, Unreleased
  <2>5. OnScreen' /\ Derefs'
    BY <1>4 DEF Keeps, InOrder, OnScreen, ScreenExact, ScreenBehind, NotNewer, Derefs
  <2>. QED
    BY <2>2, <2>3, <2>4, <2>5 DEF InOrder
<1>5. CASE Drops
  <2>1. /\ Sent' = Sent /\ Live' = Sent /\ Live = Sent \cup {Frame}
        /\ Queued' = Queued /\ Frame \notin Sent /\ Frame \in Frames
    BY <1>1, <1>2, <1>5
    DEF Drops, DropFrame, Sent, Live, Queued, InOrder, Ordered, PreparesNewest
  <2>2. Ordered'
    BY <1>5, <2>1
    DEF Drops, DropFrame, InOrder, Ordered, OneApplies, PreparesNewest,
        QueueSorted, AppliedInOrder, AppliesSquashed
  <2>3. Fresh'
    BY <1>2, <1>5, <2>1 DEF Drops, DropFrame, Destroy, InOrder, Fresh
  <2>4. Unreleased'
    BY <1>5, <2>1 DEF Drops, DropFrame, Destroy, InOrder, Unreleased
  <2>5. OnScreen' /\ Derefs'
    BY <1>5 DEF Drops, DropFrame, InOrder, OnScreen, ScreenExact, ScreenBehind, NotNewer, Derefs
  <2>. QED
    BY <2>2, <2>3, <2>4, <2>5 DEF InOrder
<1>6. CASE Replaces
  <2>1. /\ Sent' = Sent /\ Live' = Sent \cup {Squashed(Frame)}
        /\ Live = Sent \cup {Frame} /\ Queued' = Queued
        /\ Frame \in Frames \cap squashable /\ Frame \notin Sent
        /\ FrameNo(Squashed(Frame)) = FrameNo(Frame)
    BY <1>1, <1>2, <1>6
    DEF Replaces, Sent, Live, Queued, InOrder, Ordered, PreparesNewest, Fresh
  <2>2. Ordered'
    BY <1>6, <2>1
    DEF Replaces, InOrder, Ordered, OneApplies, PreparesNewest, QueueSorted,
        AppliedInOrder, AppliesSquashed
  <2>3. Fresh'
    BY <1>2, <1>6, <2>1 DEF Replaces, Destroy, InOrder, Fresh
  <2>4. Unreleased'
    BY <1>6, <2>1 DEF Replaces, Destroy, InOrder, Unreleased, Fresh
  <2>5. OnScreen' /\ Derefs'
    BY <1>6 DEF Replaces, InOrder, OnScreen, ScreenExact, ScreenBehind, NotNewer, Derefs
  <2>. QED
    BY <2>2, <2>3, <2>4, <2>5 DEF InOrder
<1>7. CASE QueueFrame
  <2>1. Queued' = Queued \cup {Frame} /\ Frame \in Ids
    BY <1>7, QueueAppend DEF QueueFrame, Queued
  <2>2. Sent' = Sent \cup {Frame} /\ Live' = Live /\ Live = Sent \cup {Frame}
    BY <1>7, <2>1 DEF QueueFrame, Sent, Live
  <2>3. QueueSorted'
    <3> SUFFICES ASSUME NEW i \in DOMAIN frame_queue_', NEW j \in DOMAIN frame_queue_',
                        i < j
                 PROVE  FrameNo(frame_queue_'[i]) < FrameNo(frame_queue_'[j])
      BY DEF QueueSorted
    <3>1. /\ frame_queue_' = Append(frame_queue_, Frame)
          /\ i \in 1 .. Len(frame_queue_) /\ j \in 1 .. Len(frame_queue_) + 1
          /\ frame_queue_'[i] = frame_queue_[i]
      BY <1>7, <2>1 DEF QueueFrame
    <3>2. CASE j = Len(frame_queue_) + 1
      <4>1. frame_queue_'[j] = Frame /\ frame_queue_[i] \in Queued
        BY <3>1, <3>2, <2>1 DEF Queued, Elements
      <4>. QED
        BY <1>7, <3>1, <4>1, <1>1 DEF QueueFrame, Sent, InOrder, Ordered, PreparesNewest
    <3>3. CASE j # Len(frame_queue_) + 1
      BY <3>1, <3>3 DEF InOrder, Ordered, QueueSorted
    <3>. QED
      BY <3>2, <3>3
  <2>4. Ordered'
    BY <1>1, <1>2, <1>7, <2>1, <2>2, <2>3
    DEF QueueFrame, InOrder, Ordered, OneApplies, PreparesNewest,
        AppliedInOrder, AppliesSquashed, Sent
  <2>5. Fresh' /\ Unreleased'
    BY <1>7, <2>2 DEF QueueFrame, InOrder, Fresh, Unreleased
  <2>6. OnScreen' /\ Derefs'
    BY <1>7 DEF QueueFrame, InOrder, OnScreen, ScreenExact, ScreenBehind, NotNewer, Derefs
  <2>. QED
    BY <2>4, <2>5, <2>6 DEF InOrder
<1>. QED
  BY <1>3, <1>4, <1>5, <1>6, <1>7, CompositeCases

\* The compositor worker squashes the active composition.
LEMMA SquashAllInOrder ==
    ASSUME Placed, Placed', InOrder, SquashAll
    PROVE  InOrder'
<1> USE IdFacts, FrameAssumption
    DEF Placed, TypeOK, HandsHold, Targets, PreparePc, ApplyPc, RenderPc, CompositorPc,
        ComposePc, Workers, Goto, FrameWorkerIdle,
        inputVars, bufferVars, squashVars, compVars, screenVars
<1>1. Queued \subseteq Ids
  BY DEF Queued, Elements
<1>2. \A c \in Ids : FrameNo(c) \in Nat
  BY DEF FrameNo, Ids
<1>3. FrameWorkerIdle => Queued = {}
  BY DEF Queued, Elements
<1>4. CASE SquashAllBegin \/ (SquashAllRender /\ UNCHANGED <<squashable, signalled>>)
  <2>1. /\ UNCHANGED <<taken, squashable, signalled, frame_queue_, hand>>
        /\ UNCHANGED <<active_composition_, scanout, deref>>
        /\ pc["compositor"] \in {"idle", "squash_all"}
        /\ pc'["compositor"] \in {"idle", "squash_all", "gl_all"}
        /\ pc'["frame"] = pc["frame"]
        /\ faults' = faults \/ (faults' = faults \cup {"overlap"})
    BY <1>4 DEF SquashAllBegin, SquashAllRender, Render, SquashAllFails
  <2>2. Sent' = Sent /\ Live' = Live /\ Queued' = Queued
    BY <2>1 DEF Sent, Live, Queued
  <2>3. OneApplies'
    BY <1>4, <2>1 DEF InOrder, Ordered, OneApplies, SquashAllBegin, SquashAllRender
  <2>4. Ordered'
    BY <2>1, <2>2, <2>3
    DEF InOrder, Ordered, PreparesNewest, QueueSorted, AppliedInOrder,
        AppliesSquashed
  <2>5. Fresh'
    BY <2>1, <2>2 DEF InOrder, Fresh
  <2>6. Unreleased'
    BY <2>1, <2>2 DEF InOrder, Unreleased
  <2>7. OnScreen' /\ Derefs'
    BY <2>1 DEF InOrder, OnScreen, ScreenExact, ScreenBehind, NotNewer, Derefs
  <2>. QED
    BY <2>4, <2>5, <2>6, <2>7 DEF InOrder
<1>5. ASSUME SquashAllRender \/ SquashAllEnd
      PROVE  /\ Live = Sent
             /\ active_composition_ \in squashable \cap Frames \cap Live
             /\ Squashed(active_composition_) \notin signalled \cup {scanout}
             /\ FrameNo(Squashed(active_composition_)) = active_composition_
             /\ FrameNo(active_composition_) = active_composition_
             /\ active_composition_ <= taken
             /\ pc'["frame"] = pc["frame"]
             /\ pc["compositor"] \in {"squash_all", "gl_all"}
  BY <1>5 DEF SquashAllRender, SquashAllEnd, Render, SquashAllFails, InOrder,
              Fresh, Live, Sent
<1>6. \A c \in Live \ {active_composition_} :
          SquashAllRender \/ SquashAllEnd => FrameNo(c) > active_composition_
  BY <1>1, <1>2, <1>5 DEF InOrder, Ordered, AppliedInOrder, Sent
<1>7. CASE (SquashAllRender \/ SquashAllEnd) /\ SquashAllFails /\ UNCHANGED hand
  <2>1. /\ UNCHANGED <<taken, frame_queue_, screenVars, hand>>
        /\ squashable' = squashable \ {active_composition_}
        /\ pc'["compositor"] = "idle"
        /\ signalled' = signalled \cup {Squashed(active_composition_)}
    BY <1>7 DEF SquashAllRender, SquashAllEnd, SquashAllFails, Destroy
  <2>2. Sent' = Sent /\ Live' = Live /\ Queued' = Queued
    BY <2>1 DEF Sent, Live, Queued
  <2>3. Ordered'
    BY <1>5, <1>7, <2>1, <2>2
    DEF InOrder, Ordered, OneApplies, PreparesNewest, QueueSorted, AppliedInOrder,
        AppliesSquashed
  <2>4. Fresh'
    <3>1. \A n \in Frames \ {active_composition_} :
              Squashed(n) # Squashed(active_composition_)
      BY <1>5, <1>7
    <3>. QED
      BY <1>5, <1>7, <2>1, <2>2, <3>1 DEF InOrder, Fresh
  <2>5. Unreleased'
    <3>1. Squashed(active_composition_) \notin Live
      <4>1. ASSUME NEW c \in Live \ {active_composition_}
            PROVE  c # Squashed(active_composition_)
        BY <1>1, <1>2, <1>5, <1>6, <1>7 DEF Live
      <4>2. Squashed(active_composition_) # active_composition_
        BY <1>5, <1>7
      <4>. QED
        BY <4>1, <4>2
    <3>. QED
      BY <1>5, <1>7, <2>1, <2>2, <3>1 DEF InOrder, Unreleased
  <2>6. OnScreen' /\ Derefs'
    BY <1>5, <1>7, <2>1
    DEF SquashAllRender, SquashAllEnd, InOrder, OnScreen, ScreenExact, ScreenBehind,
        NotNewer, Derefs
  <2>. QED
    BY <2>3, <2>4, <2>5, <2>6 DEF InOrder
<1>8. CASE SquashAllEnd /\ UNCHANGED signalled
           /\ hand' = [hand EXCEPT !["compositor"] = Squashed(active_composition_)]
           /\ Goto("compositor", "commit")
           /\ squashable' = squashable \ {active_composition_}
  <2>1. UNCHANGED <<taken, frame_queue_, screenVars>> /\ pc["compositor"] = "gl_all"
    BY <1>8 DEF SquashAllEnd
  <2>2. /\ Sent' = Sent /\ Queued' = Queued
        /\ Live' = Live \cup {Squashed(active_composition_)}
    BY <1>5, <1>8, <2>1 DEF Sent, Live, Queued
  <2>3. Ordered'
    BY <1>5, <1>8, <2>1, <2>2
    DEF InOrder, Ordered, OneApplies, PreparesNewest, QueueSorted, AppliedInOrder,
        AppliesSquashed
  <2>4. Fresh'
    <3>1. Squashed(active_composition_) \notin Frames
      BY <1>5, <1>8
    <3>. QED
      BY <1>5, <1>8, <2>1, <2>2, <3>1 DEF InOrder, Fresh
  <2>5. Unreleased'
    BY <1>5, <1>8, <2>1, <2>2 DEF InOrder, Unreleased
  <2>6. OnScreen' /\ Derefs'
    BY <1>5, <1>8, <2>1 DEF InOrder, OnScreen, ScreenExact, ScreenBehind, NotNewer, Derefs
  <2>. QED
    BY <2>3, <2>4, <2>5, <2>6 DEF InOrder
<1>. QED
  BY <1>4, <1>7, <1>8 DEF SquashAll, SquashAllRender, SquashAllEnd

\* A worker takes a frame from the queue, or applies one.
LEMMA ApplyInOrder ==
    ASSUME Placed, Placed', InOrder,
           FrameRoutine \/ \E w \in Workers : ApplyFrame(w)
    PROVE  InOrder'
<1> USE IdFacts, FrameAssumption
    DEF Placed, TypeOK, HandsHold, Targets, PreparePc, ApplyPc, RenderPc, CompositorPc,
        ComposePc, Workers, Goto, FrameWorkerIdle,
        inputVars, bufferVars, squashVars, compVars, screenVars
<1>1. Queued \subseteq Ids
  BY DEF Queued, Elements
<1>2. \A c \in Ids : FrameNo(c) \in Nat
  BY DEF FrameNo, Ids
<1>3. FrameWorkerIdle => Queued = {}
  BY DEF Queued, Elements
<1>4. CASE FrameRoutine
  <2> DEFINE first == Head(frame_queue_)
  <2>1. /\ Queued = Queued' \cup {first} /\ first \in Ids
        /\ hand'["frame"] = first /\ hand'["compositor"] = hand["compositor"]
        /\ pc'["frame"] = "commit" /\ pc'["compositor"] = pc["compositor"]
        /\ UNCHANGED <<taken, squashable, signalled, screenVars>>
        /\ hand["frame"] = NoComp
    BY <1>4, QueuePop DEF FrameRoutine, Queued
  <2>2. Sent' = Sent /\ Live' = Live
    BY <2>1, <1>4 DEF FrameRoutine, Sent, Live
  <2>3. QueueSorted' /\ \A c \in Queued' : FrameNo(first) < FrameNo(c)
    <3>1. /\ frame_queue_' = Tail(frame_queue_) /\ first = frame_queue_[1]
          /\ DOMAIN frame_queue_ = 1 .. Len(frame_queue_)
          /\ DOMAIN frame_queue_' = 1 .. Len(frame_queue_) - 1
          /\ \A i \in DOMAIN frame_queue_' : frame_queue_'[i] = frame_queue_[i + 1]
          /\ Len(frame_queue_) \in Nat \ {0}
      BY <1>4 DEF FrameRoutine
    <3>2. \A i, j \in DOMAIN frame_queue_ :
              i < j => FrameNo(frame_queue_[i]) < FrameNo(frame_queue_[j])
      BY DEF InOrder, Ordered, QueueSorted
    <3>3. ASSUME NEW i \in DOMAIN frame_queue_'
          PROVE  i + 1 \in DOMAIN frame_queue_ /\ 1 \in DOMAIN frame_queue_ /\ 1 < i + 1
      BY <3>1
    <3>4. QueueSorted'
      BY <3>1, <3>2, <3>3 DEF QueueSorted
    <3>5. \A i \in DOMAIN frame_queue_' : FrameNo(first) < FrameNo(frame_queue_'[i])
      <4> SUFFICES ASSUME NEW i \in DOMAIN frame_queue_'
                   PROVE  FrameNo(first) < FrameNo(frame_queue_'[i])
        OBVIOUS
      <4>1. frame_queue_'[i] = frame_queue_[i + 1]
        BY <3>1
      <4>2. FrameNo(frame_queue_[1]) < FrameNo(frame_queue_[i + 1])
        BY <3>2, <3>3
      <4>. QED
        BY <3>1, <4>1, <4>2
    <3>. QED
      BY <3>4, <3>5 DEF Queued, Elements
  <2>4. Ordered'
    BY <1>4, <2>1, <2>2, <2>3
    DEF FrameRoutine, InOrder, Ordered, OneApplies, PreparesNewest, AppliedInOrder,
        AppliesSquashed
  <2>5. Fresh' /\ Unreleased'
    BY <1>4, <2>1, <2>2 DEF FrameRoutine, InOrder, Fresh, Unreleased
  <2>6. OnScreen' /\ Derefs'
    BY <1>4, <2>1 DEF FrameRoutine, InOrder, OnScreen, ScreenExact, ScreenBehind, NotNewer, Derefs
  <2>. QED
    BY <2>4, <2>5, <2>6 DEF InOrder
<1>5. ASSUME NEW w \in Workers, ApplyFrame(w) PROVE InOrder'
  <2>1. /\ hand[w] \in Live \cap Ids /\ pc[w] \in ApplyPc
        /\ "overlap" \notin faults => \A v \in Workers \ {w} : pc[v] \notin ApplyPc
    BY <1>5 DEF ApplyFrame, CommitFrame, DisablePlanes, SignalActive, SwapActive,
                InOrder, Ordered, OneApplies, Live
  <2>2. hand[w] # active_composition_
    BY <2>1, <1>2 DEF InOrder, Ordered, AppliesSquashed, AppliedInOrder
  <2>3. \A n \in squashable \cap Live :
            Squashed(n) \notin {hand[w], active_composition_}
    <3> SUFFICES ASSUME NEW n \in squashable \cap Live,
                        NEW c \in {hand[w], active_composition_}, c = Squashed(n)
                 PROVE  FALSE
      OBVIOUS
    <3>1. c \in Live /\ FrameNo(c) = FrameNo(n) /\ c # n /\ n \in Frames
      BY <2>1 DEF Live
    <3>2. /\ pc["compositor"] \in ApplyPc
          /\ {c, n} = {hand["compositor"], active_composition_}
      BY <3>1, OnePerFrame DEF InOrder
    <3>3. PICK m \in Frames \ squashable :
              hand["compositor"] = Squashed(m)
              /\ (active_composition_ = m \/ m < FrameNo(active_composition_))
      BY <3>2 DEF InOrder, Ordered, AppliesSquashed
    <3>4. CASE c = hand["compositor"] /\ n = active_composition_
      BY <3>1, <3>3, <3>4
    <3>5. CASE n = hand["compositor"] /\ c = active_composition_
      BY <3>1, <3>3, <3>5
    <3>. QED
      BY <3>2, <3>4, <3>5
  <2>4. FrameNo(hand[w]) <= taken
    BY <1>2, <2>1 DEF InOrder, Ordered, PreparesNewest, AppliesSquashed, Sent
  <2>5. active_composition_ # NoComp /\ "overlap" \notin faults
            => FrameNo(active_composition_) <= FrameNo(hand[w])
    BY <1>2, <2>1 DEF InOrder, Ordered, AppliedInOrder, AppliesSquashed
  <2>6. CASE CommitFrame(w)
    <3>1. Sent' = Sent /\ Live' = Live /\ Queued' = Queued
      BY <2>6 DEF CommitFrame, Sent, Live, Queued
    <3>2. Ordered'
      BY <2>1, <2>6, <3>1
      DEF CommitFrame, InOrder, Ordered, OneApplies, PreparesNewest, QueueSorted,
          AppliedInOrder, AppliesSquashed
    <3>3. Fresh'
      BY <2>1, <2>3, <2>4, <2>6, <3>1 DEF CommitFrame, InOrder, Fresh
    <3>4. Unreleased'
      BY <2>1, <2>6, <3>1 DEF CommitFrame, InOrder, Unreleased
    <3>5. /\ pc[w] = "commit" /\ pc'[w] \in {"signal", "disable"}
          /\ \A v \in Workers \ {w} : pc'[v] = pc[v]
          /\ hand' = hand /\ active_composition_' = active_composition_
          /\ scanout' \in {scanout, hand[w]} /\ faults \subseteq faults'
      BY <2>1, <2>6 DEF CommitFrame
    <3>6. ScreenExact'
      BY <2>1, <2>6, <3>5 DEF CommitFrame, InOrder, OnScreen, ScreenExact
    <3>7. ScreenBehind'
      <4> SUFFICES ASSUME faults \cap {"overlap", "late"} = {}, scanout' # NoComp
                   PROVE  /\ pc'[w] = "signal" => NotNewer(hand[w])'
                          /\ pc'[w] = "disable" => \/ scanout' = hand[w]
                                                  \/ NotNewer(active_composition_)'
        BY <2>1, <3>5 DEF ScreenBehind
      <4>1. CASE scanout' = hand[w]
        BY <1>2, <2>1, <3>5, <4>1 DEF NotNewer
      <4>2. CASE scanout' = scanout
        <5>1. NotNewer(active_composition_)
          BY <2>1, <3>5, <4>2 DEF InOrder, OnScreen, ScreenBehind
        <5>2. FrameNo(scanout) <= FrameNo(hand[w])
          BY <1>2, <2>1, <2>5, <4>2, <5>1 DEF NotNewer
        <5>. QED
          BY <2>1, <3>5, <4>2, <5>1, <5>2 DEF NotNewer
      <4>. QED
        BY <3>5, <4>1, <4>2
    <3>8. Derefs'
      BY <2>1, <2>6 DEF CommitFrame, InOrder, Derefs
    <3>. QED
      BY <3>2, <3>3, <3>4, <3>6, <3>7, <3>8 DEF InOrder, OnScreen
  <2>7. CASE DisablePlanes(w)
    <3>1. CASE /\ scanout' \in {NoComp} \cup ({scanout} \ {deref[w]})
               /\ Goto(w, "signal") /\ UNCHANGED <<hand, signalled, deref, faults>>
      <4>1. Sent' = Sent /\ Live' = Live /\ Queued' = Queued
        BY <2>7, <3>1 DEF DisablePlanes, Sent, Live, Queued
      <4>2. Ordered'
        BY <2>1, <2>7, <3>1, <4>1
        DEF DisablePlanes, InOrder, Ordered, OneApplies, PreparesNewest, QueueSorted,
            AppliedInOrder, AppliesSquashed
      <4>3. Fresh' /\ Unreleased'
        BY <2>1, <2>7, <3>1, <4>1 DEF DisablePlanes, InOrder, Fresh, Unreleased
      <4>4. /\ pc[w] = "disable" /\ pc'[w] = "signal"
            /\ \A v \in Workers \ {w} : pc'[v] = pc[v]
            /\ active_composition_' = active_composition_
        BY <2>1, <2>7, <3>1 DEF DisablePlanes
      <4>5. ScreenExact'
        BY <2>1, <3>1, <4>4 DEF InOrder, OnScreen, ScreenExact, Derefs
      <4>6. ScreenBehind'
        <5> SUFFICES ASSUME faults \cap {"overlap", "late"} = {}, scanout # NoComp,
                            scanout' = scanout
                     PROVE  NotNewer(hand[w])'
          BY <2>1, <3>1, <4>4 DEF ScreenBehind
        <5>1. scanout = hand[w] \/ NotNewer(active_composition_)
          BY <4>4 DEF InOrder, OnScreen, ScreenBehind
        <5>. QED
          BY <1>2, <2>1, <2>5, <3>1, <5>1 DEF NotNewer
      <4>7. Derefs'
        BY <2>1, <3>1, <4>4 DEF InOrder, Derefs
      <4>. QED
        BY <4>2, <4>3, <4>5, <4>6, <4>7 DEF InOrder, OnScreen
    <3>2. CASE /\ Goto(w, "idle") /\ hand' = [hand EXCEPT ![w] = NoComp]
               /\ Destroy({hand[w]}) /\ UNCHANGED scanout
               /\ faults' = IF scanout = hand[w] THEN faults \cup {"late"} ELSE faults
      <4>1. Live' = Live \ {hand[w]} /\ Queued' = Queued /\ Sent' \subseteq Sent
        BY <1>1, <1>2, <2>1, <2>2, <2>7, <3>2
        DEF DisablePlanes, Live, Sent, Queued, InOrder, Ordered, AppliesSquashed,
            PreparesNewest, AppliedInOrder
      <4>2. Ordered'
        BY <2>1, <2>7, <3>2, <4>1
        DEF DisablePlanes, InOrder, Ordered, OneApplies, PreparesNewest, QueueSorted,
            AppliedInOrder, AppliesSquashed
      <4>3. Fresh'
        BY <2>1, <2>3, <2>4, <2>7, <3>2, <4>1 DEF DisablePlanes, Destroy, InOrder, Fresh
      <4>4. Unreleased'
        BY <2>1, <2>7, <3>2, <4>1 DEF DisablePlanes, Destroy, InOrder, Unreleased
      <4>5. /\ pc[w] = "disable" /\ pc'[w] = "idle"
            /\ \A v \in Workers \ {w} : pc'[v] = pc[v] /\ hand'[v] = hand[v]
            /\ active_composition_' = active_composition_
            /\ deref' = [deref EXCEPT ![w] = NoComp]
        BY <2>1, <2>7, <3>2 DEF DisablePlanes
      <4>6. OnScreen' /\ Derefs'
        <5>1. ScreenExact'
          BY <2>1, <3>2, <4>5 DEF InOrder, OnScreen, ScreenExact
        <5>2. ScreenBehind'
          BY <2>1, <3>2, <4>5 DEF InOrder, OnScreen, ScreenBehind, NotNewer
        <5>3. Derefs'
          BY <2>1, <3>2, <4>5 DEF InOrder, Derefs
        <5>. QED
          BY <5>1, <5>2, <5>3 DEF OnScreen
      <4>. QED
        BY <4>2, <4>3, <4>4, <4>6 DEF InOrder
    <3>. QED
      BY <2>7, <3>1, <3>2 DEF DisablePlanes
  <2>8. CASE SignalActive(w)
    <3>1. Sent' = Sent /\ Live' = Live /\ Queued' = Queued
      BY <2>8 DEF SignalActive, Sent, Live, Queued
    <3>2. Ordered'
      BY <2>1, <2>8, <3>1
      DEF SignalActive, InOrder, Ordered, OneApplies, PreparesNewest, QueueSorted,
          AppliedInOrder, AppliesSquashed
    <3>3. Fresh'
      BY <2>1, <2>3, <2>8, <3>1 DEF SignalActive, InOrder, Fresh, Ordered, PreparesNewest, Sent
    <3>4. Unreleased'
      BY <2>1, <2>8, <3>1 DEF SignalActive, InOrder, Unreleased
    <3>5. OnScreen' /\ Derefs'
      BY <2>1, <2>8
      DEF SignalActive, InOrder, OnScreen, ScreenExact, ScreenBehind, NotNewer, Derefs
    <3>. QED
      BY <3>2, <3>3, <3>4, <3>5 DEF InOrder
  <2>9. CASE SwapActive(w)
    <3>1. /\ active_composition_' = hand[w] /\ hand'[w] = NoComp
          /\ \A v \in Workers \ {w} : hand'[v] = hand[v] /\ pc'[v] = pc[v]
          /\ pc'[w] = "idle" /\ pc[w] = "swap" /\ LockFree
          /\ faults' = IF Settled(w) THEN {} ELSE faults
          /\ signalled' = signalled \cup ({active_composition_} \ {NoComp})
          /\ UNCHANGED <<taken, squashable, frame_queue_, scanout, deref>>
      BY <2>9 DEF SwapActive, Destroy
    <3>2. Live' = Live \ {active_composition_} /\ Queued' = Queued
      BY <1>1, <1>2, <2>1, <2>2, <3>1
      DEF Live, Sent, Queued, InOrder, Ordered, PreparesNewest, AppliedInOrder, AppliesSquashed
    <3>3. PreparesNewest'
      BY <1>1, <1>2, <2>1, <2>4, <3>1, <3>2
      DEF Sent, Live, InOrder, Ordered, PreparesNewest
    <3>4. AppliedInOrder'
      BY <1>1, <1>2, <2>1, <3>1, <3>2
      DEF InOrder, Ordered, AppliedInOrder, AppliesSquashed
    <3>5. QueueSorted' /\ OneApplies'
      BY <2>1, <3>1, <3>2
      DEF InOrder, Ordered, OneApplies, QueueSorted, Settled, LockFree
    <3>6. AppliesSquashed'
      BY <1>1, <1>2, <2>1, <3>1, <3>2
      DEF InOrder, Ordered, AppliesSquashed, AppliedInOrder, Settled
    <3>7. Fresh'
      BY <2>1, <2>3, <3>1, <3>2 DEF InOrder, Fresh, Ordered, PreparesNewest, Sent
    <3>8. Unreleased'
      BY <2>1, <3>1, <3>2 DEF InOrder, Unreleased
    <3>9. OnScreen' /\ Derefs'
      <4>1. CASE Settled(w)
        BY <1>2, <2>1, <3>1, <4>1
        DEF Settled, OnScreen, ScreenExact, ScreenBehind, NotNewer, Derefs
      <4>2. CASE ~Settled(w)
        BY <2>1, <3>1, <4>2
        DEF InOrder, OnScreen, ScreenExact, ScreenBehind, NotNewer, Derefs
      <4>. QED
        BY <4>1, <4>2
    <3>. QED
      BY <3>3, <3>4, <3>5, <3>6, <3>7, <3>8, <3>9 DEF InOrder, Ordered
  <2>. QED
    BY <1>5, <2>6, <2>7, <2>8, <2>9 DEF ApplyFrame
<1>. QED
  BY <1>4, <1>5

\* The order of frames, and with it what may be on the screen, is kept by
\* every step.
LEMMA AlwaysInOrder == Spec => [](Placed /\ Guarded /\ InOrder)
<1>1. Init => InOrder
  <2> SUFFICES ASSUME Init PROVE InOrder
    OBVIOUS
  <2> USE DEF Init, Workers, Live, Queued, Elements, Sent
  <2>1. Ordered
    BY DEF Ordered, OneApplies, PreparesNewest, QueueSorted, AppliedInOrder,
           AppliesSquashed, ApplyPc, ComposePc, PreparePc
  <2>2. Fresh /\ Unreleased
    BY DEF Fresh, Unreleased
  <2>3. OnScreen /\ Derefs
    BY DEF OnScreen, ScreenExact, ScreenBehind, NotNewer, Derefs
  <2>. QED
    BY <2>1, <2>2, <2>3 DEF InOrder
<1>2. Placed /\ Placed' /\ InOrder /\ [Next]_vars => InOrder'
  <2> SUFFICES ASSUME Placed, Placed', InOrder, [Next]_vars PROVE InOrder'
    OBVIOUS
  <2>1. CASE UNCHANGED vars
    BY <2>1
    DEF vars, inputVars, bufferVars, squashVars, compVars, screenVars, InOrder,
        Ordered, OneApplies, PreparesNewest, QueueSorted, AppliedInOrder,
        AppliesSquashed, Fresh, Unreleased, OnScreen, ScreenExact, ScreenBehind,
        NotNewer, Derefs, Live, Sent, Queued, FrameWorkerIdle
  <2>. QED
    BY <2>1, CompositeInOrder, SquashAllInOrder, ApplyInOrder DEF Next
<1>. QED
  BY <1>1, <1>2, InitPlaced, StepPlaced, InitGuarded, StepGuarded, PTL DEF Spec

\* A composition in the frame queue or in the hands of the frame worker is not
\* released, nor is one on the screen that no fault put or left there.
LEMMA InFlightUnreleased ==
    ASSUME Placed, InOrder
    PROVE  /\ ToBeCommitted \subseteq Ids \ signalled
           /\ scanout # NoComp /\ faults = {} => scanout \notin signalled
<1> USE IdFacts
    DEF Placed, TypeOK, HandsHold, Workers, ApplyPc, CompositorPc, RenderPc
<1>1. ToBeCommitted \subseteq Live /\ Queued \subseteq Ids
  BY DEF ToBeCommitted, Live, Queued, Elements
<1>2. \A c \in Live \cap signalled : c = active_composition_
  BY DEF InOrder, Unreleased
<1>3. \A c \in Queued \cup ({hand["frame"]} \ {NoComp}) : c # active_composition_
  BY <1>1, FrameAssumption DEF InOrder, Ordered, AppliedInOrder, FrameNo, Ids, NoComp
<1>4. scanout # NoComp /\ faults = {} => scanout \notin signalled
  <2> SUFFICES ASSUME scanout # NoComp, faults = {}, scanout \in signalled
               PROVE  FALSE
    OBVIOUS
  <2>1. \A w \in Workers : pc[w] \in ApplyPc => hand[w] \in Ids /\ hand[w] # active_composition_
    BY <1>3 DEF InOrder, Ordered, AppliesSquashed
  <2>2. \A w \in Workers : pc[w] \in ApplyPc => hand[w] \notin signalled
    BY <1>2, <2>1 DEF Live
  <2>3. scanout = active_composition_ /\ \A w \in Workers : pc[w] \notin {"signal", "swap"}
    BY <2>2 DEF InOrder, OnScreen, ScreenExact
  <2>. QED
    BY <2>3 DEF InOrder, Unreleased, Live
<1>. QED
  BY <1>1, <1>2, <1>3, <1>4 DEF ToBeCommitted, Live, Queued, Elements

\* SignalCompositionDone is only called for a composition whose planes the
\* commit before it took off the screen: from any fault on, a single frame
\* applied undisturbed is enough for what is shown not to be released.
THEOREM ScreenNotReleased == Spec => []ScanoutNotReleased
<1>1. Placed /\ InOrder => ScanoutNotReleased
  BY InFlightUnreleased DEF ScanoutNotReleased
<1>. QED
  BY <1>1, AlwaysInOrder, PTL

\* WaitReleased in PrepareFramebuffer keeps GL out of every pre-composition
\* framebuffer on its way to the screen, also while both workers are in
\* ApplyFrame, and out of the ones on it, however many there are.
THEOREM RendersOffScreen == Spec => []NoScribble
<1>1. Placed /\ Guarded /\ InOrder => NoScribble
  <2> SUFFICES ASSUME Placed, Guarded, InOrder,
                      pc["compositor"] \in RenderPc \ {"gl_squash"},
                      NEW c \in Ids \ signalled
               PROVE  target \notin shows[c]
    BY InFlightUnreleased DEF NoScribble, Placed, TypeOK
  <2>1. c # NoComp
    BY IdFacts
  <2>2. target \in PreBuffers /\ fence[target] = NoComp
    BY DEF Guarded, RendersUnguarded, RenderPc
  <2>. QED
    BY <2>1, <2>2 DEF Guarded, ShownIsGuarded
<1>. QED
  BY <1>1, AlwaysInOrder, PTL

\* Each commit shows a frame at least as new as the one it replaces, also after
\* commits that were skipped for a pending modeset and counted as done, and
\* again once an overlap or a late error is over.
THEOREM ScreenNeverOlder == Spec => NeverOlder
<1> DEFINE Newer == faults \cap {"overlap", "late"} = {} /\ scanout # NoComp /\ scanout' # NoComp
                        => FrameNo(scanout') >= FrameNo(scanout)
<1>1. Placed /\ InOrder /\ [Next]_vars => [Newer]_scanout
  <2> SUFFICES ASSUME Placed, InOrder, [Next]_vars, scanout' # scanout,
                      faults \cap {"overlap", "late"} = {},
                      scanout # NoComp, scanout' # NoComp
               PROVE  FrameNo(scanout') >= FrameNo(scanout)
    OBVIOUS
  <2>1. PICK w \in Workers : CommitFrame(w)
    <3>1. CASE Composite
      BY <3>1, CompositeCases
      DEF TakeFrame, Keeps, Drops, Replaces, QueueFrame, screenVars
    <3>2. CASE SquashAll
      BY <3>2 DEF SquashAll, SquashAllBegin, SquashAllRender, SquashAllEnd, screenVars
    <3>3. CASE FrameRoutine
      BY <3>3 DEF FrameRoutine, screenVars
    <3>4. ASSUME NEW v \in Workers, DisablePlanes(v) \/ SignalActive(v) \/ SwapActive(v)
          PROVE  FALSE
      BY <3>4 DEF DisablePlanes, SignalActive, SwapActive, screenVars
    <3>. QED
      BY <3>1, <3>2, <3>3, <3>4 DEF Next, ApplyFrame, vars, screenVars
  <2>2. scanout' = hand[w] /\ pc[w] = "commit"
    BY <2>1 DEF CommitFrame
  <2>3. /\ active_composition_ # NoComp
        /\ FrameNo(scanout) <= FrameNo(active_composition_)
    BY <2>1, <2>2
    DEF InOrder, OnScreen, ScreenBehind, NotNewer, Ordered, OneApplies, FrameWorkerIdle,
        Workers, ApplyPc
  <2>4. \A c \in Ids : FrameNo(c) \in Nat
    BY FrameAssumption DEF FrameNo, Ids
  <2>5. FrameNo(active_composition_) <= FrameNo(hand[w])
    BY <2>2, <2>3, <2>4, IdFacts
    DEF Placed, TypeOK, HandsHold, Workers, ApplyPc, InOrder, Ordered,
        AppliedInOrder, AppliesSquashed
  <2>. QED
    BY <2>2, <2>3, <2>4, <2>5, IdFacts DEF Placed, TypeOK, HandsHold, Workers, ApplyPc
<1>. QED
  BY <1>1, AlwaysInOrder, PTL DEF Spec, NeverOlder
=============================================================================
