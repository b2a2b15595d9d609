----------------------------- MODULE HwcDevice -----------------------------
(***************************************************************************)
(* hwc_set: the descriptors it takes from SurfaceFlinger and the fences it *)
(* gives back, through every error return; the import of buffers by        *)
(* DrmGenericImporter; and the fan-out of a DrmComposition over the        *)
(* connectors.                                                             *)
(*                                                                         *)
(* SurfaceFlinger's thread makes one call at a time.  The compositors end  *)
(* queued compositions on their own threads: the fences are signalled, the *)
(* descriptors closed and the buffers released.  hwc_prepare leaves every  *)
(* layer but the framebuffer target to SurfaceFlinger, so a display has at *)
(* most one layer to import.  Descriptors are counted in open.             *)
(***************************************************************************)
EXTENDS Naturals, Sequences, FiniteSets, SequencesExt, FiniteSetsExt

CONSTANTS
    Connectors,     \* the displays with a connector, in order
    Virtual,        \* the virtual display
    Buffers,        \* buffers of framebuffer targets
    Contents,       \* what may be sent for a display
    MaxCalls,       \* bound: calls of hwc_set
    MaxQueued,      \* bound: compositions of a display alive at a time
    MaxRefused      \* bound: fences the sync driver refuses in a call

Physical == ToSet(Connectors)
Displays == Physical \cup {Virtual}

\* The layers of a display after hwc_prepare: one composed by SurfaceFlinger,
\* one it wants skipped, and the framebuffer target, whose handle may be null.
Layers == {"framebuffer", "skip", "target"}
Content == [layers : SUBSET Layers, null_handle : BOOLEAN]
NoContent == [layers |-> {}, null_handle |-> FALSE]

\* Where a display's fences go: to its layers, and to the display itself.
Outputs == Layers \cup {"retire"}

\* The descriptors of a layer and its composition: the acquire fence, the copy
\* of the buffer's handle, and the timeline; for the virtual display the acquire
\* fence of the output buffer takes the timeline's place.
Fds == {"acquire", "handle", "timeline"}

ASSUME ConnectorAssumption ==
    /\ Connectors \in Seq(Physical) /\ Connectors # <<>>
    /\ IsInjective(Connectors) /\ Virtual \notin Physical
ASSUME ContentAssumption == Contents \subseteq Content
ASSUME BoundAssumption == /\ {MaxCalls, MaxQueued} \subseteq Nat \ {0}
                         /\ MaxRefused \in Nat

\* A fence descriptor: whether there is one, and the compositions that must end
\* before it is signalled.
NoFd == [fd |-> FALSE, on |-> {}]
Fence(on) == [fd |-> TRUE, on |-> on]
DummyFence == Fence({})

VARIABLES
    pc,             \* where hwc_set is
    next,           \* the place in Connectors of the display it works on
    frame,          \* frame_no_: the number of the call
    contents,       \* sf_display_contents; NoContent stands for a null pointer
    buffer,         \* the buffer of each framebuffer target
    release,        \* releaseFenceFd of the layers
    retire,         \* retireFenceFd of the displays
    owned,          \* per display, what hwc_set or its DrmComposition owns
    planned,        \* the connectors with a DrmDisplayComposition in it
    result,         \* of the call
    unmerged,       \* the displays whose retire fence lacks a layer's fence
    refused,        \* the outputs for which the sync driver made no fence
    live,           \* compositions with a compositor
    active_,        \* the displays that are on
    gem,            \* kernel: the buffers GEM handles name
    prime,          \* the handle ImportBuffer has got from the kernel
    open            \* descriptors open in the process

callVars == <<contents, buffer>>
fenceVars == <<release, retire, result, unmerged, refused>>
vars == <<pc, next, frame, callVars, fenceVars, owned, planned, live, active_,
          gem, prime, open>>

NoImport == [handle |-> 0, buffer |-> CHOOSE b \in Buffers : TRUE]
Nothing == [fds |-> {}, bo |-> NoImport]

Answered(d) == contents[d].layers \ {"skip"}
Sent == {d \in Displays : contents[d] # NoContent}

Init ==
    /\ pc = "idle"
    /\ next = 0
    /\ frame = 0
    /\ contents = [d \in Displays |-> NoContent]
    /\ buffer = [d \in Displays |-> CHOOSE b \in Buffers : TRUE]
    /\ release = [d \in Displays |-> [l \in Layers |-> NoFd]]
    /\ retire = [d \in Displays |-> NoFd]
    /\ owned = [d \in Displays |-> Nothing]
    /\ planned = {}
    /\ result = "ok"
    /\ unmerged = {}
    /\ refused = {}
    /\ live = {}
    /\ active_ = Physical
    /\ gem = <<>>
    /\ prime = 0
    /\ open = 0

-----------------------------------------------------------------------------
\* The descriptors SurfaceFlinger holds from the last call, and closes.
Returned == Cardinality({s \in Displays \X Layers : release[s[1]][s[2]].fd})
                + Cardinality({d \in Displays : retire[d].fd})

\* How many descriptors the members of f's domain hold together.
Held(f, fds) == Cardinality({s \in (DOMAIN f) \X fds : s[2] \in f[s[1]]})

\* The acquire fence of the framebuffer target; other layers have none.
AcquireFds(c) == IF "target" \in c.layers THEN {"acquire"} ELSE {}

AcquiredFds(sent) == Held([d \in Displays |-> AcquireFds(sent[d])], Fds)

CompositionId(f, d) == [frame |-> f, display |-> d]

\* The framebuffer target is what is composited, in place of the first skipped
\* layer or alone; with a null handle that is an error when nothing is skipped.
Indices(c) ==
    IF "target" \in c.layers /\ ~c.null_handle THEN {"target"} ELSE {}
InvalidTarget(c) ==
    "target" \in c.layers /\ c.null_handle /\ "skip" \notin c.layers

\* The outputs of a display that are to get fences.
OutputsOf(c) ==
    IF c = NoContent THEN {} ELSE {"retire"} \cup (c.layers \ {"skip"})

\* The call, and its phase one: descriptors are taken over.  The virtual
\* display's worker gets its composition at once, and creates its fences; the
\* ones sw_sync_fence_create refuses stay negative, and nothing looks at them.
HwcSet(sent, buf, refuse) ==
    LET v == CompositionId(frame + 1, Virtual)
        vsent == sent[Virtual] # NoContent
        made == OutputsOf(sent[Virtual]) \ refuse
    IN
    /\ pc = "idle" /\ frame < MaxCalls
    /\ frame' = frame + 1
    /\ contents' = sent
    /\ buffer' = buf
    /\ release' = [d \in Displays |-> [l \in Layers |->
           IF d = Virtual /\ l \in made THEN Fence({v}) ELSE NoFd]]
    /\ retire' = [d \in Displays |->
           IF d = Virtual /\ "retire" \in made THEN Fence({v}) ELSE NoFd]
    /\ unmerged' = {}
    /\ refused' = {Virtual} \X refuse /\ Cardinality(refuse) <= MaxRefused
    /\ owned' = [d \in Displays |->
           IF d = Virtual THEN Nothing
           ELSE [Nothing EXCEPT !.fds = AcquireFds(sent[d])]]
    /\ live' = live \cup
           (IF ~vsent THEN {}
            ELSE {[id |-> v, fds |-> {"timeline"} \cup AcquireFds(sent[Virtual]),
                   bo |-> NoImport]})
    /\ open' = open - Returned + AcquiredFds(sent)
           + (IF vsent THEN 1 + Cardinality(made) ELSE 0)
    /\ result' = "error"
    /\ pc' = IF \E d \in Physical : InvalidTarget(sent[d]) THEN "return"
             ELSE "import"
    /\ next' = 1
    /\ UNCHANGED <<planned, active_, gem, prime>>

Display == Connectors[next]

\* The next display of a phase, or the next phase.
Advance(phase, following) ==
    IF next < Len(Connectors) THEN pc' = phase /\ next' = next + 1
                              ELSE pc' = following /\ next' = 1

Fail == pc' = "return" /\ next' = 1

-----------------------------------------------------------------------------
(***************************************************************************)
(* InitFromHwcLayer and DrmGenericImporter.                                *)
(***************************************************************************)
Closed(handles) == [h \in DOMAIN gem \ handles |-> gem[h]]

ImportSkips ==
    /\ pc = "import" /\ Indices(contents[Display]) = {}
    /\ Advance("import", "create")
    /\ UNCHANGED <<frame, callVars, fenceVars, owned, planned, live, active_,
                   gem, prime, open>>

\* drmPrimeFDToHandle: a buffer that has a handle gets the same one again.
ImportPrime ==
    LET b == buffer[Display]
        known == {h \in DOMAIN gem : gem[h] = b}
        free == Min((1 .. Cardinality(DOMAIN gem) + 1) \ DOMAIN gem)
    IN
    /\ pc = "import" /\ Indices(contents[Display]) # {}
    /\ prime' = IF known # {} THEN Min(known) ELSE free
    /\ gem' = [h \in DOMAIN gem \cup {prime'} |->
                   IF h = prime' THEN b ELSE gem[h]]
    /\ pc' = "addfb"
    /\ UNCHANGED <<next, frame, callVars, fenceVars, owned, planned, live,
                   active_, open>>

\* drmModeAddFB2 wants a handle that is valid.
ImportAddFB ==
    /\ pc = "addfb" /\ prime \in DOMAIN gem
    /\ owned' = [owned EXCEPT ![Display].bo =
           [handle |-> prime, buffer |-> buffer[Display]]]
    /\ pc' = "copy"
    /\ UNCHANGED <<next, frame, callVars, fenceVars, planned, live, active_,
                   gem, prime, open>>

\* The layer's blending is invalid, or an ioctl fails.  The handle a failing
\* drmModeAddFB2 leaves is not closed.
ImportFails ==
    /\ \/ pc = "import" /\ Indices(contents[Display]) # {}
       \/ pc = "addfb"
    /\ Fail
    /\ UNCHANGED <<frame, callVars, fenceVars, owned, planned, live, active_,
                   gem, prime, open>>

\* CopyBufferHandle: the descriptors of the handle are duplicated.
CopyHandle ==
    /\ pc = "copy"
    /\ owned' = [owned EXCEPT ![Display].fds = @ \cup {"handle"}]
    /\ open' = open + 1
    /\ Advance("import", "create")
    /\ UNCHANGED <<frame, callVars, fenceVars, planned, live, active_, gem,
                   prime>>

CopyHandleFails ==
    /\ pc = "copy"
    /\ Fail
    /\ UNCHANGED <<frame, callVars, fenceVars, owned, planned, live, active_,
                   gem, prime, open>>

-----------------------------------------------------------------------------
(***************************************************************************)
(* DrmComposition and DrmCompositor.                                       *)
(***************************************************************************)
\* CreateComposition and SetLayers: every connector gets a composition with a
\* timeline; the layers move into it.
CreateComposition ==
    /\ pc = "create"
    /\ planned' = Physical
    /\ open' = open + Len(Connectors)
    /\ pc' = "plan"
    /\ UNCHANGED <<next, frame, callVars, fenceVars, owned, live, active_, gem,
                   prime>>

CreateCompositionFails ==
    /\ pc = "create"
    /\ Fail
    /\ UNCHANGED <<frame, callVars, fenceVars, owned, planned, live, active_,
                   gem, prime, open>>

\* What the composition of a connector owns: a target that is not composited
\* stays with hwc_set.
InComposition(d) ==
    IF Indices(contents[d]) = {} THEN [Nothing EXCEPT !.fds = {"timeline"}]
    ELSE [owned[d] EXCEPT !.fds = @ \cup {"timeline"}]

ComposedFds(ds) == Held([d \in ds |-> InComposition(d).fds], Fds)

\* Compositions are destroyed: timelines run out, descriptors are closed and
\* buffers released.
Destroy(ds) ==
    /\ planned' = planned \ ds
    /\ owned' = [d \in Displays |->
           IF d \in ds /\ Indices(contents[d]) # {} THEN Nothing ELSE owned[d]]
    /\ open' = open - ComposedFds(ds)
    /\ gem' = Closed({InComposition(d).bo.handle : d \in ds})

\* Mutant of CreateNextTimelineFence: for the point reached already.
CreateNextTimelineFenceMutant(d) == Fence({})

CreateNextTimelineFence(d) == Fence({CompositionId(frame, d)})

\* Plan: the layers on planes get their release fences.
PlanDisplay ==
    /\ pc = "plan"
    /\ IF Indices(contents[Display]) = {} THEN UNCHANGED <<release, open>>
       ELSE /\ release' = [release EXCEPT ![Display]["target"] =
                              CreateNextTimelineFence(Display)]
            /\ open' = open + 1
    /\ Advance("plan", "queue")
    /\ UNCHANGED <<frame, callVars, retire, result, unmerged, refused, owned,
                   planned, live, active_, gem, prime>>

\* No plane, or no fence: nothing is queued.
PlanFails ==
    /\ pc = "plan" /\ contents[Display] # NoContent
    /\ Destroy(planned)
    /\ Fail
    /\ UNCHANGED <<frame, callVars, fenceVars, live, active_, prime>>

\* QueueComposition of a display: an empty composition goes nowhere.
QueueDisplay ==
    LET d == Display
        queued == {c \in live : c.id.display = d}
    IN
    /\ pc = "queue"
    /\ IF contents[d] = NoContent THEN Destroy({d}) /\ UNCHANGED live
       ELSE /\ d \in active_
            /\ Cardinality(queued) < MaxQueued
            /\ live' = live \cup {[id |-> CompositionId(frame, d),
                                   fds |-> InComposition(d).fds,
                                   bo |-> InComposition(d).bo]}
            /\ planned' = planned \ {d}
            /\ owned' = [owned EXCEPT ![d] =
                   IF Indices(contents[d]) = {} THEN @ ELSE Nothing]
            /\ UNCHANGED <<gem, open>>
    /\ Advance("queue", "retire")
    /\ UNCHANGED <<frame, callVars, fenceVars, active_, prime>>

\* A display that is off fails the call; the displays before it have their
\* compositions already, the others lose theirs.
QueueFails ==
    /\ pc = "queue" /\ contents[Display] # NoContent
    /\ Display \notin active_
    /\ Destroy(planned)
    /\ Fail
    /\ UNCHANGED <<frame, callVars, fenceVars, live, active_, prime>>

-----------------------------------------------------------------------------
(***************************************************************************)
(* Retire fences and the return.                                           *)
(***************************************************************************)
\* Mutant of AddLayerToRetireFence: the descriptor merged is not closed.
AddLayerToRetireFenceMutant(works, l, layer, acc) ==
    IF ~layer.fd THEN acc
    ELSE [fence |-> IF works THEN Fence(acc.fence.on \cup layer.on) ELSE NoFd,
          opened |-> IF works THEN acc.opened \cup {l} ELSE acc.opened,
          closed |-> acc.closed]

\* hwc_add_layer_to_retire_fence: merge, or duplicate the first, if that works.
\* The fence gathered so far is closed after the merge, and lost when it fails.
AddLayerToRetireFence(works, l, layer, acc) ==
    IF ~layer.fd THEN acc
    ELSE [fence |-> IF works THEN Fence(acc.fence.on \cup layer.on) ELSE NoFd,
          opened |-> IF works THEN acc.opened \cup {l} ELSE acc.opened,
          closed |-> IF acc.fence.fd THEN acc.closed \cup {l} ELSE acc.closed]

\* The layers that are added to retire fences.
Added == {o \in Sent \X Layers : o[2] \in Answered(o[1]) /\ release[o[1]][o[2]].fd}

\* The layers of a display are added to its retire fence in their order; fails
\* are those whose merge or duplication fails.
Gathered(fails, d) ==
    LET Add(l, acc) ==
            IF l \in Answered(d)
            THEN AddLayerToRetireFence(<<d, l>> \notin fails, l, release[d][l],
                                       acc)
            ELSE acc
    IN  Add("target", Add("framebuffer",
            [fence |-> retire[d], opened |-> {}, closed |-> {}]))

OpenedFds(fails) == Held([d \in Displays |-> Gathered(fails, d).opened], Layers)
ClosedFds(fails) == Held([d \in Displays |-> Gathered(fails, d).closed], Layers)

\* A failure here is not even logged: the call succeeds.
Retire(fails) ==
    /\ pc = "retire"
    /\ retire' = [d \in Displays |-> Gathered(fails, d).fence]
    /\ unmerged' = {o[1] : o \in fails}
    /\ open' = open + OpenedFds(fails) - ClosedFds(fails)
    /\ result' = "ok"
    /\ pc' = "return"
    /\ UNCHANGED <<next, frame, callVars, release, refused, owned, planned,
                   live, active_, gem, prime>>

\* Mutant of Checked: only a call that succeeded is checked.
CheckedMutant(f, made) ==
    IF f.fd \/ ~made \/ result # "ok" THEN f ELSE DummyFence

\* ~CheckedOutputFd; made says whether CreateDummyFence got a fence and moved
\* its timeline past it.
Checked(f, made) == IF f.fd \/ ~made THEN f ELSE DummyFence

\* The descriptors hwc_set still owns, and the outputs it has no fence for.
OwnedFds == Held([d \in Displays |-> owned[d].fds], Fds)
MissingOutputs ==
    {o \in (Sent \ {Virtual}) \X Outputs :
        \/ o[2] = "retire" /\ ~retire[o[1]].fd
        \/ o[2] \in Answered(o[1]) /\ ~release[o[1]][o[2]].fd}

\* The destructors of hwc_set's variables: what is left is closed, and every
\* output without a fence gets one that is signalled, unless it is refused.
Return(refuse) ==
    /\ pc = "return"
    /\ release' = [d \in Displays |-> [l \in Layers |->
           IF l \in Answered(d) /\ d # Virtual
           THEN Checked(release[d][l], <<d, l>> \notin refuse)
           ELSE release[d][l]]]
    /\ retire' = [d \in Displays |->
           IF d \in Sent \ {Virtual}
           THEN Checked(retire[d], <<d, "retire">> \notin refuse)
           ELSE retire[d]]
    /\ refused' = refused \cup refuse /\ Cardinality(refused') <= MaxRefused
    /\ owned' = [d \in Displays |-> Nothing]
    /\ gem' = Closed({owned[d].bo.handle : d \in Displays})
    /\ open' = open - OwnedFds + Cardinality(MissingOutputs \ refuse)
    /\ pc' = "idle"
    /\ UNCHANGED <<next, frame, callVars, result, unmerged, planned, live,
                   active_, prime>>

-----------------------------------------------------------------------------
\* A composition ends on a compositor's thread.
CompositionEnds(c) ==
    /\ live' = live \ {c}
    /\ open' = open - Cardinality(c.fds)
    /\ gem' = Closed({c.bo.handle})
    /\ UNCHANGED <<pc, next, frame, callVars, fenceVars, owned, planned,
                   active_, prime>>

\* A display is switched on or off by the hotplug thread, or between calls.
SetPower(d) ==
    /\ active_' = IF d \in active_ THEN active_ \ {d} ELSE active_ \cup {d}
    /\ UNCHANGED <<pc, next, frame, callVars, fenceVars, owned, planned, live,
                   gem, prime, open>>

Next ==
    \/ \E sent \in [Displays -> Contents \cup {NoContent}],
          buf \in [Displays -> Buffers] :
           \E refuse \in SUBSET OutputsOf(sent[Virtual]) :
               HwcSet(sent, buf, refuse)
    \/ ImportSkips \/ ImportPrime \/ ImportAddFB \/ ImportFails
    \/ CopyHandle \/ CopyHandleFails
    \/ CreateComposition \/ CreateCompositionFails
    \/ PlanDisplay \/ PlanFails
    \/ QueueDisplay \/ QueueFails
    \/ \E fails \in SUBSET Added : Retire(fails)
    \/ \E refuse \in SUBSET MissingOutputs : Return(refuse)
    \/ \E c \in live : CompositionEnds(c)
    \/ \E d \in Physical : SetPower(d)

Spec == Init /\ [][Next]_vars

-----------------------------------------------------------------------------
(***************************************************************************)
(* Properties.                                                             *)
(***************************************************************************)
\* Whatever failed on the way, hwc_set returns with a fence for every display
\* and for every layer SurfaceFlinger did not ask to skip; one is missing only
\* where the sync driver refused the last fence the code asks for: the dummy of
\* ~CheckedOutputFd, and for the virtual display, which is not checked, the only
\* one.  The virtual display's retire fence is lost with a failing merge, too.
FencesAnswered ==
    pc = "idle" => \A d \in Sent :
        /\ \A l \in Answered(d) : release[d][l].fd \/ <<d, l>> \in refused
        /\ \/ retire[d].fd
           \/ <<d, "retire">> \in refused
           \/ d = Virtual /\ d \in unmerged

\* The descriptors of compositions that have not ended.
LiveFds == Held([c \in live |-> c.fds], Fds)

\* Every descriptor is closed once: after a call the open ones are those
\* returned and those of compositions that have not ended.
DescriptorsAccounted ==
    pc = "idle" => open = Returned + LiveFds

\* A release fence is not signalled while a composition may still read the
\* buffer, also when the call failed after that composition was queued; the
\* retire fence of a call that succeeded waits for it too.  That is lost where
\* the driver refused a fence or hwc_add_layer_to_retire_fence failed: with a
\* negative descriptor, or a dummy in its place, nothing is waited for.
NoEarlyFence ==
    pc = "idle" => \A c \in {x \in live : x.id.frame = frame} :
        LET d == c.id.display
            read == IF d = Virtual THEN Answered(d) ELSE Indices(contents[d])
            no == IF d = Virtual THEN refused ELSE {}
        IN  /\ \A l \in read : c.id \in release[d][l].on \/ <<d, l>> \in no
            /\ result = "ok" /\ read # {} /\ d \notin unmerged =>
                   c.id \in retire[d].on \/ <<d, "retire">> \in no

\* importer.h: "Releases the buffer object (ie: does the inverse of
\* ImportBuffer)".  So releasing one import leaves the others alone: the GEM
\* handle in a live buffer object still names its buffer.
ReleaseIsInverse ==
    \A c \in live : c.bo # NoImport =>
        c.bo.handle \in DOMAIN gem /\ gem[c.bo.handle] = c.bo.buffer
=============================================================================
