-------------------------- MODULE HwcDeviceProofs --------------------------
(***************************************************************************)
(* hwc_set never returns without its fences, and never with one that is    *)
(* signalled too early, and every descriptor is closed once, for any       *)
(* connectors, contents and number of calls.                               *)
(***************************************************************************)
EXTENDS HwcDevice, FiniteSetTheorems, TLAPS

-----------------------------------------------------------------------------
(***************************************************************************)
(* The inductive invariant.                                                *)
(***************************************************************************)
Ids == [frame : Nat, display : Displays]

\* A descriptor that is missing waits for nothing.
Fences == {f \in [fd : BOOLEAN, on : SUBSET Ids] : ~f.fd => f.on = {}}

Walks == {"import", "addfb", "copy", "create", "plan", "queue"}

\* What the call works on.
CallType ==
    /\ pc \in Walks \cup {"idle", "retire", "return"}
    /\ pc \in Walks => next \in 1 .. Len(Connectors)
    /\ pc = "create" => next = 1
    /\ frame \in Nat
    /\ contents \in [Displays -> Content]
    /\ result \in {"ok", "error"}
    /\ \A c \in live : c.id \in Ids

FenceType ==
    /\ release \in [Displays -> [Layers -> Fences]]
    /\ retire \in [Displays -> Fences]

\* The fences of the virtual display are there from the start of the call, but
\* for those refused; a failing merge takes its retire fence away.
VirtualAnswered ==
    Virtual \in Sent =>
        /\ \A l \in Answered(Virtual) :
               \/ <<Virtual, l>> \in refused
               \/ release[Virtual][l] = Fence({CompositionId(frame, Virtual)})
        /\ \/ Virtual \in unmerged
           \/ <<Virtual, "retire">> \in refused
           \/ /\ retire[Virtual].fd
              /\ CompositionId(frame, Virtual) \in retire[Virtual].on

\* The call has its result only when the retire fences are made.
ResultWhen == pc \notin {"return", "idle"} => result = "error"

\* No addition to a retire fence has failed before there was one.
NothingUnmerged == pc \notin {"return", "idle"} => unmerged = {}

\* The layer a display's composition reads has a fence of that composition.
Fenced(d) ==
    Indices(contents[d]) # {} =>
        CompositionId(frame, d) \in release[d]["target"].on

\* Planning walks the connectors; when it is through, all of them are fenced.
PlannedFenced ==
    /\ pc = "plan" => \A i \in 1 .. next - 1 : Fenced(Connectors[i])
    /\ pc = "queue" => \A d \in Physical : Fenced(d)

\* A compositor has no composition of a call to come, and one of this call only
\* from the walk over the queues on, with the fence SurfaceFlinger gets.
LiveFenced ==
    \A c \in live :
        /\ c.id.frame <= frame
        /\ c.id.frame = frame /\ c.id.display # Virtual =>
               /\ pc \in {"queue", "retire", "return", "idle"}
               /\ Fenced(c.id.display)

\* The retire fences of a call that succeeds wait for all its release fences,
\* where adding them worked.
RetireWaits ==
    result = "ok" => \A d \in Displays \ unmerged : \A l \in Answered(d) :
        release[d][l].on \subseteq retire[d].on

IInv ==
    /\ CallType /\ FenceType
    /\ VirtualAnswered /\ ResultWhen /\ NothingUnmerged
    /\ PlannedFenced /\ LiveFenced /\ RetireWaits
    /\ FencesAnswered

-----------------------------------------------------------------------------
(***************************************************************************)
(* Facts about the walk over the connectors and about fences.              *)
(***************************************************************************)
\* There is a first connector, and every display of a walk is physical.
LEMMA ConnectorFacts ==
    /\ Len(Connectors) \in Nat \ {0}
    /\ Physical \subseteq Displays
    /\ Virtual \in Displays
    /\ Virtual \notin Physical
    /\ \A i \in 1 .. Len(Connectors) : Connectors[i] \in Physical
<1>1. Connectors \in Seq(Physical) /\ Connectors # <<>> /\ Virtual \notin Physical
    BY ConnectorAssumption
<1>2. Physical \subseteq Displays /\ Virtual \in Displays
    BY DEF Displays
<1> HIDE DEF Physical
<1>3. QED  BY <1>1, <1>2

\* Every connector has a place in the walk.
LEMMA ConnectorPlace ==
    ASSUME NEW d \in Physical
    PROVE  \E i \in 1 .. Len(Connectors) : Connectors[i] = d
BY ConnectorAssumption DEF Physical, ToSet

\* Advance stays in the walk or begins the next one.
LEMMA AdvanceFacts ==
    ASSUME NEW phase, NEW following, next \in 1 .. Len(Connectors),
           Advance(phase, following)
    PROVE  /\ next' \in 1 .. Len(Connectors)
           /\ \/ pc' = phase /\ next' = next + 1
              \/ pc' = following /\ next' = 1 /\ next = Len(Connectors)
BY ConnectorFacts DEF Advance

\* The fences of the code are fences.
LEMMA FenceFacts ==
    /\ NoFd \in Fences /\ DummyFence \in Fences
    /\ \A f \in Nat, d \in Displays : Fence({CompositionId(f, d)}) \in Fences
    /\ \A f \in Fences, made \in BOOLEAN :
           /\ Checked(f, made) \in Fences
           /\ Checked(f, made).fd <=> f.fd \/ made
           /\ Checked(f, made).on = f.on
BY DEF NoFd, DummyFence, Fence, Fences, CompositionId, Ids, Checked

\* A layer that reads has its place among the answered ones.
LEMMA IndexFacts ==
    ASSUME NEW d, Indices(contents[d]) # {}
    PROVE  Indices(contents[d]) = {"target"} /\ "target" \in Answered(d)
BY DEF Indices, Answered

-----------------------------------------------------------------------------
(***************************************************************************)
(* The invariant holds.                                                    *)
(***************************************************************************)
\* It holds before the first call: nothing was sent.
LEMMA InitIInv == Init => IInv
<1> SUFFICES ASSUME Init PROVE IInv
    OBVIOUS
<1>1. CallType
    BY DEF Init, CallType, Content, NoContent, Walks
<1>2. FenceType
    BY FenceFacts DEF Init, FenceType
<1>3. Sent = {} /\ \A d \in Displays : Answered(d) = {}
    BY DEF Init, Sent, Answered, NoContent
<1>4. QED
    BY <1>1, <1>2, <1>3, ConnectorFacts
    DEF Init, IInv, VirtualAnswered, ResultWhen, NothingUnmerged, PlannedFenced, LiveFenced,
        RetireWaits, FencesAnswered

\* The steps that leave the fences and the call alone, and give the compositors
\* nothing: only where hwc_set stands can disturb the invariant.
LEMMA QuietStep ==
    ASSUME IInv, UNCHANGED <<frame, contents, fenceVars>>, live' \subseteq live,
           \/ pc' = pc /\ next' = next
           \/ /\ pc \in Walks \ {"plan", "queue"}
              /\ pc' \in Walks \ {"queue"} /\ next' \in 1 .. Len(Connectors)
              /\ pc' \in {"create", "plan"} => next' = 1
           \/ pc \in Walks /\ pc' = "return"
    PROVE  IInv'
<1>1. CallType'
    BY DEF IInv, CallType, fenceVars, Walks
<1>2. FenceType'
    BY DEF IInv, FenceType, fenceVars
<1>3. VirtualAnswered'
    BY DEF IInv, VirtualAnswered, fenceVars, Sent, Answered
<1>4. ResultWhen' /\ NothingUnmerged'
    BY DEF IInv, ResultWhen, NothingUnmerged, fenceVars, Walks
<1>5. \A d : Fenced(d)' <=> Fenced(d)
    BY DEF Fenced, fenceVars
<1>6. PlannedFenced'
    BY <1>5 DEF IInv, PlannedFenced, Walks
<1>7. LiveFenced'
    <2> SUFFICES ASSUME NEW c \in live' PROVE LiveFenced!(c)'
        BY DEF LiveFenced
    <2>1. QED
        BY <1>5 DEF IInv, LiveFenced, Walks
<1>8. RetireWaits'
    BY DEF IInv, RetireWaits, fenceVars, Answered
<1>9. FencesAnswered'
    BY DEF IInv, FencesAnswered, fenceVars, Answered, Sent, Walks
<1>10. QED
    BY <1>1, <1>2, <1>3, <1>4, <1>6, <1>7, <1>8, <1>9 DEF IInv

\* Phase one gives the virtual display its fences, and takes all others back.
LEMMA StepHwcSet ==
    ASSUME IInv, NEW sent \in [Displays -> Contents \cup {NoContent}],
           NEW buf \in [Displays -> Buffers],
           NEW refuse \in SUBSET OutputsOf(sent[Virtual]), HwcSet(sent, buf, refuse)
    PROVE  IInv'
<1> DEFINE v == CompositionId(frame + 1, Virtual)
           vsent == sent[Virtual] # NoContent
           vlayers == sent[Virtual].layers \ {"skip"}
           made == OutputsOf(sent[Virtual]) \ refuse
<1>1. /\ frame \in Nat /\ frame' = frame + 1 /\ contents' = sent
      /\ release' = [d \in Displays |-> [l \in Layers |->
             IF d = Virtual /\ l \in made THEN Fence({v}) ELSE NoFd]]
      /\ retire' = [d \in Displays |->
             IF d = Virtual /\ "retire" \in made THEN Fence({v}) ELSE NoFd]
      /\ unmerged' = {} /\ refused' = {Virtual} \X refuse
      /\ result' = "error" /\ pc' \in {"import", "return"} /\ next' = 1
    BY DEF HwcSet, IInv, CallType
<1>2. \A c \in live' : c \in live \/ c.id = v
    BY DEF HwcSet
<1>3. sent \in [Displays -> Content]
    <2>1. NoContent \in Content
        BY DEF NoContent, Content
    <2>2. \A d \in Displays : sent[d] \in Content
        BY <2>1, ContentAssumption
    <2>3. QED
        BY <2>2
<1>4. v \in Ids /\ Fence({v}) \in Fences /\ NoFd \in Fences
    <2>1. frame + 1 \in Nat /\ Virtual \in Displays
        BY ConnectorFacts DEF IInv, CallType
    <2>2. v \in Ids
        BY <2>1 DEF CompositionId, Ids
    <2>3. Fence({v}) \in Fences /\ NoFd \in Fences
        BY ONLY <2>1, FenceFacts DEF v
    <2>4. QED
        BY <2>2, <2>3
<1>5. CallType'
    BY <1>1, <1>2, <1>3, <1>4, ConnectorFacts DEF CallType, IInv, Walks
<1>6. FenceType'
    BY <1>1, <1>4 DEF FenceType
<1>7. VirtualAnswered'
    <2>1. v = CompositionId(frame, Virtual)'
        BY <1>1 DEF CompositionId
    <2>2. Answered(Virtual)' = vlayers /\ (Virtual \in Sent' => vsent)
        BY <1>1 DEF Answered, Sent
    <2>3. vlayers \subseteq Layers
        BY <1>3, ConnectorFacts DEF Content
    <2>4. vsent => "retire" \in made \cup refuse /\ vlayers \subseteq made \cup refuse
        BY DEF OutputsOf
    <2> HIDE DEF vlayers, made, vsent, v
    <2>5. \A l \in vlayers \cap made : release'[Virtual][l] = Fence({v})
        BY <1>1, <2>3, ConnectorFacts
    <2>6. \A o \in refuse : <<Virtual, o>> \in refused'
        BY <1>1
    <2>7. "retire" \in made => retire'[Virtual].fd /\ v \in retire'[Virtual].on
        BY <1>1, ConnectorFacts DEF Fence
    <2>8. QED
        BY <2>1, <2>2, <2>4, <2>5, <2>6, <2>7 DEF VirtualAnswered
<1>8. LiveFenced'
    <2>1. \A c \in live : c.id.frame \in Nat /\ c.id.frame <= frame
        BY DEF IInv, LiveFenced, CallType, Ids
    <2>2. v.frame = frame + 1 /\ v.display = Virtual
        BY DEF CompositionId
    <2>3. QED
        BY <1>1, <1>2, <2>1, <2>2 DEF LiveFenced
<1>9. QED
    BY <1>1, <1>5, <1>6, <1>7, <1>8
    DEF IInv, ResultWhen, NothingUnmerged, PlannedFenced, RetireWaits, FencesAnswered

\* Planning a display fences what it reads; the release fences SurfaceFlinger
\* gets are those of this call's compositions.
LEMMA StepPlanDisplay ==
    ASSUME IInv, PlanDisplay
    PROVE  IInv'
<1> DEFINE d == Display
           fence == CreateNextTimelineFence(d)
<1>1. /\ pc = "plan" /\ next \in 1 .. Len(Connectors) /\ frame \in Nat
      /\ d = Connectors[next] /\ d \in Physical /\ d \in Displays /\ d # Virtual
    BY ConnectorFacts DEF PlanDisplay, IInv, CallType, Walks, Display
<1>2. /\ fence \in Fences /\ CompositionId(frame, d) \in fence.on
    BY <1>1, FenceFacts DEF CreateNextTimelineFence, Fence
<1> HIDE DEF d, fence
<1>3. /\ UNCHANGED <<frame, contents, retire, result, unmerged, refused, live>>
      /\ IF Indices(contents[d]) = {} THEN release' = release
         ELSE release' = [release EXCEPT ![d]["target"] = fence]
    BY DEF PlanDisplay, callVars, d, fence
<1>4. /\ next' \in 1 .. Len(Connectors)
      /\ \/ pc' = "plan" /\ next' = next + 1
         \/ pc' = "queue" /\ next' = 1 /\ next = Len(Connectors)
    BY <1>1, AdvanceFacts DEF PlanDisplay
<1>5. CallType'
    BY <1>3, <1>4 DEF IInv, CallType, Walks
<1>6. FenceType'
    BY <1>1, <1>2, <1>3 DEF IInv, FenceType, Layers
<1>7. VirtualAnswered'
    <2>1. release'[Virtual] = release[Virtual]
        BY <1>1, <1>3, ConnectorFacts DEF IInv, FenceType
    <2>2. QED
        BY <1>3, <2>1 DEF IInv, VirtualAnswered, Sent, Answered
<1>8. \A e \in Physical : Fenced(e) \/ e = d => Fenced(e)'
    <2> SUFFICES ASSUME NEW e \in Physical, Fenced(e) \/ e = d PROVE Fenced(e)'
        OBVIOUS
    <2>1. e \in Displays
        BY ConnectorFacts
    <2>2. CASE Indices(contents[d]) = {}
        BY <1>3, <2>2 DEF Fenced
    <2>3. CASE Indices(contents[d]) # {}
        <3>1. release' = [release EXCEPT ![d]["target"] = fence]
            BY <1>3, <2>3
        <3>2. e = d => release'[e]["target"] = fence
            BY <1>1, <3>1 DEF IInv, FenceType, Layers
        <3>3. e # d => release'[e] = release[e]
            BY <1>1, <2>1, <3>1 DEF IInv, FenceType
        <3>4. QED
            BY <1>2, <1>3, <3>2, <3>3 DEF Fenced
    <2>4. QED
        BY <2>2, <2>3
<1>9. PlannedFenced'
    <2>1. \A i \in 1 .. next : Fenced(Connectors[i])'
        BY <1>1, <1>8, ConnectorFacts DEF IInv, PlannedFenced
    <2>2. CASE pc' = "plan" /\ next' = next + 1
        BY <1>1, <2>1, <2>2 DEF PlannedFenced
    <2>3. CASE pc' = "queue" /\ next = Len(Connectors)
        <3>1. \A e \in Physical : Fenced(e)'
            BY <2>1, <2>3, ConnectorPlace
        <3>2. QED
            BY <2>3, <3>1 DEF PlannedFenced
    <2>4. QED
        BY <1>4, <2>2, <2>3
<1>10. LiveFenced'
    BY <1>1, <1>3 DEF IInv, LiveFenced
<1>11. QED
    BY <1>1, <1>3, <1>4, <1>5, <1>6, <1>7, <1>9, <1>10
    DEF IInv, ResultWhen, NothingUnmerged, RetireWaits, FencesAnswered

\* A composition goes to its compositor with the fence of the layer it reads.
LEMMA StepQueueDisplay ==
    ASSUME IInv, QueueDisplay
    PROVE  IInv'
<1> DEFINE d == Display
<1>1. /\ pc = "queue" /\ next \in 1 .. Len(Connectors) /\ frame \in Nat
      /\ d \in Physical /\ d \in Displays
    BY ConnectorFacts DEF QueueDisplay, IInv, CallType, Walks, Display
<1> HIDE DEF d
<1>2. UNCHANGED <<frame, contents, fenceVars>>
    BY DEF QueueDisplay, callVars
<1>3. /\ next' \in 1 .. Len(Connectors)
      /\ pc' = "queue" \/ pc' = "retire"
    BY <1>1, AdvanceFacts DEF QueueDisplay
<1>4. \A c \in live' : c \in live \/ c.id = CompositionId(frame, d)
    BY DEF QueueDisplay, d
<1>5. CallType'
    <2>1. CompositionId(frame, d) \in Ids
        BY <1>1 DEF CompositionId, Ids
    <2>2. \A c \in live' : c.id \in Ids
        BY <1>4, <2>1 DEF IInv, CallType
    <2>3. QED
        BY <1>2, <1>3, <2>2 DEF IInv, CallType, Walks, fenceVars
<1>6. FenceType' /\ VirtualAnswered' /\ RetireWaits'
    BY <1>2 DEF IInv, FenceType, VirtualAnswered, RetireWaits, fenceVars, Sent,
                Answered
<1>7. \A e : Fenced(e)' <=> Fenced(e)
    BY <1>2 DEF Fenced, fenceVars
<1>8. PlannedFenced'
    BY <1>1, <1>3, <1>7 DEF IInv, PlannedFenced
<1>9. LiveFenced'
    <2> SUFFICES ASSUME NEW c \in live'
                 PROVE  /\ c.id.frame <= frame
                        /\ c.id.frame = frame /\ c.id.display # Virtual =>
                               Fenced(c.id.display)
        BY <1>2, <1>3, <1>7 DEF LiveFenced
    <2>1. CASE c \in live
        BY <2>1 DEF IInv, LiveFenced
    <2>2. CASE c.id = CompositionId(frame, d)
        <3>1. c.id.frame = frame /\ c.id.display = d
            BY <2>2 DEF CompositionId
        <3>2. QED
            BY <1>1, <3>1 DEF IInv, PlannedFenced
    <2>3. QED
        BY <1>4, <2>1, <2>2
<1>10. QED
    BY <1>1, <1>2, <1>3, <1>5, <1>6, <1>8, <1>9
    DEF IInv, ResultWhen, NothingUnmerged, FencesAnswered, fenceVars

\* What hwc_add_layer_to_retire_fence works on.
IsGathering(acc) ==
    /\ acc = [fence |-> acc.fence, opened |-> acc.opened, closed |-> acc.closed]
    /\ acc.fence \in Fences

\* A layer's fence is added: when that works the fence waits for what it waited
\* for and for what the layer waits for.
LEMMA AddFacts ==
    ASSUME NEW works \in BOOLEAN, NEW l, NEW layer \in Fences,
           NEW acc, IsGathering(acc)
    PROVE  LET added == AddLayerToRetireFence(works, l, layer, acc)
               f == acc.fence
           IN  /\ IsGathering(added)
               /\ works \/ ~layer.fd =>
                      /\ f.fd => added.fence.fd
                      /\ f.on \subseteq added.fence.on
                      /\ layer.on \subseteq added.fence.on
<1> DEFINE f == acc.fence
<1>1. CASE ~layer.fd
    BY <1>1 DEF AddLayerToRetireFence, Fences, IsGathering
<1>2. CASE layer.fd /\ works
    <2> DEFINE g == [fd |-> TRUE, on |-> f.on \cup layer.on]
               added == AddLayerToRetireFence(works, l, layer, acc)
    <2>1. added = [fence |-> g, opened |-> added.opened, closed |-> added.closed]
        BY <1>2 DEF AddLayerToRetireFence, Fence, IsGathering
    <2>2. g \in Fences
        BY DEF Fences, IsGathering
    <2>3. g.fd /\ f.on \subseteq g.on /\ layer.on \subseteq g.on
        OBVIOUS
    <2> HIDE DEF g, added
    <2>4. QED
        BY <2>1, <2>2, <2>3 DEF IsGathering, added
<1>3. CASE layer.fd /\ ~works
    BY <1>3, FenceFacts DEF AddLayerToRetireFence, IsGathering
<1>4. QED
    BY <1>1, <1>2, <1>3 DEF Fences, IsGathering

\* What is gathered for a display waits for its retire fence and for the
\* release fences of all layers that are answered, if adding them works.
LEMMA GatheredFacts ==
    ASSUME FenceType, CallType, NEW fails, NEW d \in Displays
    PROVE  LET gathered == Gathered(fails, d).fence
           IN  /\ gathered \in Fences
               /\ (\A l \in Layers : <<d, l>> \notin fails) =>
                      /\ retire[d].fd => gathered.fd
                      /\ retire[d].on \subseteq gathered.on
                      /\ \A l \in Answered(d) : release[d][l].on \subseteq gathered.on
<1> DEFINE works == \A l \in Layers : <<d, l>> \notin fails
           Add(l, acc) ==
               IF l \in Answered(d)
               THEN AddLayerToRetireFence(<<d, l>> \notin fails, l, release[d][l], acc)
               ELSE acc
           first == [fence |-> retire[d], opened |-> {}, closed |-> {}]
           second == Add("framebuffer", first)
           third == Add("target", second)
<1>1. /\ retire[d] \in Fences
      /\ release[d]["framebuffer"] \in Fences /\ release[d]["target"] \in Fences
    BY DEF FenceType, Layers
<1>2. Answered(d) \subseteq {"framebuffer", "target"}
    BY DEF CallType, Content, Layers, Answered
<1>3. /\ first.fence = retire[d]
      /\ IsGathering(first)
    BY <1>1 DEF IsGathering
<1>4. works => <<d, "framebuffer">> \notin fails /\ <<d, "target">> \notin fails
    BY DEF Layers
<1> HIDE DEF first, works
<1>5. /\ IsGathering(second)
      /\ works => /\ retire[d].fd => second.fence.fd
                  /\ retire[d].on \subseteq second.fence.on
                  /\ "framebuffer" \in Answered(d) =>
                         release[d]["framebuffer"].on \subseteq second.fence.on
    <2>1. CASE "framebuffer" \in Answered(d)
        <3> DEFINE ok == <<d, "framebuffer">> \notin fails
        <3>1. second = AddLayerToRetireFence(ok, "framebuffer",
                           release[d]["framebuffer"], first)
            BY <2>1
        <3>2. ok \in BOOLEAN /\ (works => ok)
            BY <1>4
        <3> HIDE DEF second, ok
        <3>3. QED
            BY <1>1, <1>3, <3>1, <3>2, AddFacts
    <2>2. CASE "framebuffer" \notin Answered(d)
        BY <1>1, <1>3, <2>2
    <2>3. QED
        BY <2>1, <2>2
<1> HIDE DEF second
<1>6. /\ IsGathering(third)
      /\ works => /\ second.fence.fd => third.fence.fd
                  /\ second.fence.on \subseteq third.fence.on
                  /\ "target" \in Answered(d) =>
                         release[d]["target"].on \subseteq third.fence.on
    <2>1. CASE "target" \in Answered(d)
        <3> DEFINE ok == <<d, "target">> \notin fails
        <3>1. third = AddLayerToRetireFence(ok, "target", release[d]["target"], second)
            BY <2>1
        <3>2. ok \in BOOLEAN /\ (works => ok)
            BY <1>4
        <3> HIDE DEF third, ok
        <3>3. QED
            BY <1>1, <1>5, <3>1, <3>2, AddFacts
    <2>2. CASE "target" \notin Answered(d)
        BY <1>5, <2>2
    <2>3. QED
        BY <2>1, <2>2
<1>7. Gathered(fails, d) = third
    BY DEF Gathered, first, second
<1> HIDE DEF third
<1>8. QED
    BY <1>2, <1>5, <1>6, <1>7 DEF IsGathering, works

\* The retire fences are gathered: all of them, but for the displays recorded.
LEMMA StepRetire ==
    ASSUME IInv, NEW fails \in SUBSET Added, Retire(fails)
    PROVE  IInv'
<1>1. /\ pc = "retire" /\ pc' = "return" /\ result' = "ok"
      /\ retire' = [d \in Displays |-> Gathered(fails, d).fence]
      /\ unmerged' = {o[1] : o \in fails}
      /\ UNCHANGED <<frame, contents, release, refused, live>>
    BY DEF Retire, callVars
<1>2. CallType /\ FenceType
    BY DEF IInv
<1>3. \A d \in Displays :
          /\ retire'[d] \in Fences
          /\ d \notin unmerged' =>
                 /\ retire[d].fd => retire'[d].fd
                 /\ retire[d].on \subseteq retire'[d].on
                 /\ \A l \in Answered(d) : release[d][l].on \subseteq retire'[d].on
    <2> SUFFICES ASSUME NEW d \in Displays
                 PROVE  /\ retire'[d] \in Fences
                        /\ d \notin unmerged' =>
                               /\ retire[d].fd => retire'[d].fd
                               /\ retire[d].on \subseteq retire'[d].on
                               /\ \A l \in Answered(d) :
                                      release[d][l].on \subseteq retire'[d].on
        OBVIOUS
    <2>1. retire'[d] = Gathered(fails, d).fence
        BY <1>1
    <2>2. d \notin unmerged' => \A l \in Layers : <<d, l>> \notin fails
        BY <1>1
    <2>3. QED
        BY <1>2, <2>1, <2>2, GatheredFacts
<1>4. CallType'
    BY <1>1, <1>2 DEF CallType, Walks
<1>5. FenceType'
    BY <1>1, <1>2, <1>3 DEF FenceType
<1>6. VirtualAnswered'
    <2>1. Virtual \in Sent' => Virtual \in Sent /\ Answered(Virtual)' = Answered(Virtual)
        BY <1>1 DEF Sent, Answered
    <2>2. CompositionId(frame, Virtual)' = CompositionId(frame, Virtual)
        BY <1>1 DEF CompositionId
    <2>3. unmerged = {}
        BY <1>1 DEF IInv, NothingUnmerged
    <2>4. QED
        BY <1>1, <1>3, <2>1, <2>2, <2>3, ConnectorFacts DEF IInv, VirtualAnswered
<1>7. LiveFenced'
    BY <1>1 DEF IInv, LiveFenced, Fenced
<1>8. RetireWaits'
    BY <1>1, <1>3 DEF RetireWaits, Answered
<1>9. QED
    BY <1>1, <1>4, <1>5, <1>6, <1>7, <1>8
    DEF IInv, ResultWhen, NothingUnmerged, PlannedFenced, FencesAnswered

\* The destructors give every output without a fence one, unless it is refused,
\* and leave what a fence waits for as it is.
LEMMA StepReturn ==
    ASSUME IInv, NEW refuse \in SUBSET MissingOutputs, Return(refuse)
    PROVE  IInv'
<1>1. /\ pc = "return" /\ pc' = "idle"
      /\ release' = [d \in Displays |-> [l \in Layers |->
             IF l \in Answered(d) /\ d # Virtual
             THEN Checked(release[d][l], <<d, l>> \notin refuse)
             ELSE release[d][l]]]
      /\ retire' = [d \in Displays |->
             IF d \in Sent \ {Virtual}
             THEN Checked(retire[d], <<d, "retire">> \notin refuse)
             ELSE retire[d]]
      /\ refused' = refused \cup refuse
      /\ UNCHANGED <<frame, contents, result, unmerged, live>>
    BY DEF Return, callVars
<1>2. CallType /\ FenceType
    BY DEF IInv
<1>3. \A d \in Displays, l \in Layers :
          /\ release'[d][l] \in Fences /\ release'[d][l].on = release[d][l].on
          /\ l \in Answered(d) /\ d # Virtual =>
                 release'[d][l].fd \/ <<d, l>> \in refuse
          /\ d = Virtual => release'[d][l] = release[d][l]
    <2> SUFFICES ASSUME NEW d \in Displays, NEW l \in Layers
                 PROVE  /\ release'[d][l] \in Fences
                        /\ release'[d][l].on = release[d][l].on
                        /\ l \in Answered(d) /\ d # Virtual =>
                               release'[d][l].fd \/ <<d, l>> \in refuse
                        /\ d = Virtual => release'[d][l] = release[d][l]
        OBVIOUS
    <2> DEFINE made == <<d, l>> \notin refuse
    <2>1. made \in BOOLEAN /\ (~made => <<d, l>> \in refuse)
        OBVIOUS
    <2>2. release'[d][l] = IF l \in Answered(d) /\ d # Virtual
                           THEN Checked(release[d][l], made) ELSE release[d][l]
        BY <1>1
    <2>3. release[d][l] \in Fences
        BY <1>2 DEF FenceType
    <2> HIDE DEF made
    <2>4. QED
        BY <2>1, <2>2, <2>3, FenceFacts
<1>4. \A d \in Displays :
          /\ retire'[d] \in Fences /\ retire'[d].on = retire[d].on
          /\ d \in Sent /\ d # Virtual => retire'[d].fd \/ <<d, "retire">> \in refuse
          /\ d = Virtual => retire'[d] = retire[d]
    <2> SUFFICES ASSUME NEW d \in Displays
                 PROVE  /\ retire'[d] \in Fences /\ retire'[d].on = retire[d].on
                        /\ d \in Sent /\ d # Virtual =>
                               retire'[d].fd \/ <<d, "retire">> \in refuse
                        /\ d = Virtual => retire'[d] = retire[d]
        OBVIOUS
    <2> DEFINE made == <<d, "retire">> \notin refuse
    <2>1. made \in BOOLEAN /\ (~made => <<d, "retire">> \in refuse)
        OBVIOUS
    <2>2. retire'[d] = IF d \in Sent \ {Virtual} THEN Checked(retire[d], made)
                       ELSE retire[d]
        BY <1>1
    <2>3. retire[d] \in Fences
        BY <1>2 DEF FenceType
    <2> HIDE DEF made
    <2>4. QED
        BY <2>1, <2>2, <2>3, FenceFacts
<1>5. \A d \in Displays : Answered(d) \subseteq Layers /\ Answered(d)' = Answered(d)
    BY <1>1, <1>2 DEF CallType, Content, Answered
<1>6. Sent' = Sent /\ Sent \subseteq Displays
    BY <1>1 DEF Sent
<1>7. CallType'
    BY <1>1, <1>2 DEF CallType, Walks
<1>8. FenceType'
    BY <1>1, <1>3, <1>4 DEF FenceType
<1>9. VirtualAnswered'
    BY <1>1, <1>3, <1>4, <1>5, <1>6, ConnectorFacts DEF IInv, VirtualAnswered
<1>10. LiveFenced'
    <2>1. \A d \in Displays : Fenced(d) => Fenced(d)'
        BY <1>1, <1>3 DEF Fenced, Layers
    <2>2. \A c \in live : c.id.display \in Displays
        BY <1>2 DEF CallType, Ids
    <2>3. QED
        BY <1>1, <2>1, <2>2 DEF IInv, LiveFenced
<1>11. RetireWaits'
    <2>1. RetireWaits /\ result' = result /\ unmerged' = unmerged
        BY <1>1 DEF IInv
    <2> SUFFICES ASSUME result' = "ok", NEW d \in Displays \ unmerged',
                        NEW l \in Answered(d)'
                 PROVE  release'[d][l].on \subseteq retire'[d].on
        BY DEF RetireWaits
    <2>2. l \in Answered(d) /\ l \in Layers /\ d \in Displays \ unmerged
        BY <1>5, <2>1
    <2>3. release[d][l].on \subseteq retire[d].on
        BY <2>1, <2>2 DEF RetireWaits
    <2>4. QED
        BY <1>3, <1>4, <2>2, <2>3
<1>12. FencesAnswered'
    <2>1. ASSUME NEW d \in Sent, d # Virtual
          PROVE  /\ retire'[d].fd \/ <<d, "retire">> \in refused'
                 /\ \A l \in Answered(d) :
                        release'[d][l].fd \/ <<d, l>> \in refused'
        BY <1>1, <1>3, <1>4, <1>5, <1>6, <2>1
    <2>2. Virtual \in Sent =>
              /\ \A l \in Answered(Virtual)' :
                     release'[Virtual][l].fd \/ <<Virtual, l>> \in refused'
              /\ \/ retire'[Virtual].fd
                 \/ <<Virtual, "retire">> \in refused'
                 \/ Virtual \in unmerged'
        BY <1>6, <1>9 DEF VirtualAnswered, Fence
    <2>3. QED
        BY <1>5, <1>6, <2>1, <2>2 DEF FencesAnswered
<1>13. QED
    BY <1>1, <1>7, <1>8, <1>9, <1>10, <1>11, <1>12
    DEF IInv, ResultWhen, NothingUnmerged, PlannedFenced

\* Every step keeps the invariant.
LEMMA StepIInv == IInv /\ [Next]_vars => IInv'
<1> SUFFICES ASSUME IInv, [Next]_vars PROVE IInv'
    OBVIOUS
<1>1. CallType
    BY DEF IInv
<1>2. CASE UNCHANGED vars
    BY <1>2, QuietStep DEF vars, callVars
<1>3. CASE \E sent \in [Displays -> Contents \cup {NoContent}],
             buf \in [Displays -> Buffers] :
             \E refuse \in SUBSET OutputsOf(sent[Virtual]) :
                 HwcSet(sent, buf, refuse)
    BY <1>3, StepHwcSet
<1>4. CASE ImportSkips \/ CopyHandle
    <2>1. /\ pc \in {"import", "copy"} /\ Advance("import", "create")
          /\ UNCHANGED <<frame, contents, fenceVars, live>>
        BY <1>4 DEF ImportSkips, CopyHandle, callVars
    <2>2. next \in 1 .. Len(Connectors)
        BY <1>1, <2>1 DEF CallType, Walks
    <2>3. /\ next' \in 1 .. Len(Connectors)
          /\ pc' = "import" \/ (pc' = "create" /\ next' = 1)
        BY <2>1, <2>2, AdvanceFacts
    <2>4. QED
        BY <2>1, <2>3, QuietStep DEF Walks
<1>5. CASE ImportPrime \/ ImportAddFB
    <2>1. /\ pc \in {"import", "addfb"} /\ pc' \in {"addfb", "copy"} /\ next' = next
          /\ UNCHANGED <<frame, contents, fenceVars, live>>
        BY <1>5 DEF ImportPrime, ImportAddFB, callVars
    <2>2. next \in 1 .. Len(Connectors)
        BY <1>1, <2>1 DEF CallType, Walks
    <2>3. QED
        BY <2>1, <2>2, QuietStep DEF Walks
<1>6. CASE CreateComposition
    <2>1. /\ pc = "create" /\ pc' = "plan" /\ next' = next
          /\ UNCHANGED <<frame, contents, fenceVars, live>>
        BY <1>6 DEF CreateComposition, callVars
    <2>2. QED
        BY <1>1, <2>1, QuietStep DEF CallType, Walks
<1>7. CASE ImportFails \/ CopyHandleFails \/ CreateCompositionFails \/ PlanFails
             \/ QueueFails
    <2>1. /\ pc \in Walks /\ pc' = "return"
          /\ UNCHANGED <<frame, contents, fenceVars, live>>
        BY <1>7 DEF ImportFails, CopyHandleFails, CreateCompositionFails, PlanFails,
                    QueueFails, Fail, callVars, Walks
    <2>2. QED
        BY <2>1, QuietStep
<1>8. CASE PlanDisplay
    BY <1>8, StepPlanDisplay
<1>9. CASE QueueDisplay
    BY <1>9, StepQueueDisplay
<1>10. CASE \E fails \in SUBSET Added : Retire(fails)
    BY <1>10, StepRetire
<1>11. CASE \E refuse \in SUBSET MissingOutputs : Return(refuse)
    BY <1>11, StepReturn
<1>12. CASE (\E c \in live : CompositionEnds(c)) \/ (\E d \in Physical : SetPower(d))
    <2>1. /\ live' \subseteq live
          /\ UNCHANGED <<pc, next, frame, contents, fenceVars>>
        BY <1>12 DEF CompositionEnds, SetPower, callVars
    <2>2. QED
        BY <2>1, QuietStep
<1>13. QED
    BY <1>2, <1>3, <1>4, <1>5, <1>6, <1>7, <1>8, <1>9, <1>10, <1>11, <1>12
    DEF Next

\* The invariant holds throughout.
LEMMA AlwaysIInv == Spec => []IInv
<1>1. QED
    BY InitIInv, StepIInv, PTL DEF Spec

\* For any connectors, contents and number of calls: whatever fails on the way,
\* hwc_set returns with a retire fence for every display it was given and with a
\* release fence for every layer not skipped.  One is missing only where the sync
\* driver refused the dummy of ~CheckedOutputFd, or a fence of the virtual
\* display, or where adding to the virtual display's retire fence failed.
THEOREM EveryOutputFenced == Spec => []FencesAnswered
<1>1. IInv => FencesAnswered
    BY DEF IInv
<1>2. QED
    BY <1>1, AlwaysIInv, PTL

\* For any connectors, contents and number of calls: no release fence hwc_set
\* returns is signalled while the composition that reads the layer's buffer may
\* run, also when the call failed after it was queued, and the retire fence of a
\* call that succeeded waits for it too, unless hwc_add_layer_to_retire_fence
\* failed for the display or the driver refused a fence of the virtual one.
THEOREM FencesNotEarly == Spec => []NoEarlyFence
<1>1. IInv => NoEarlyFence
    <2> SUFFICES ASSUME IInv, pc = "idle", NEW c \in live, c.id.frame = frame
                 PROVE  LET d == c.id.display
                            read == IF d = Virtual THEN Answered(d)
                                    ELSE Indices(contents[d])
                            no == IF d = Virtual THEN refused ELSE {}
                        IN  /\ \A l \in read :
                                   c.id \in release[d][l].on \/ <<d, l>> \in no
                            /\ result = "ok" /\ read # {} /\ d \notin unmerged =>
                                   c.id \in retire[d].on \/ <<d, "retire">> \in no
        BY DEF NoEarlyFence
    <2> DEFINE d == c.id.display
    <2>1. d \in Displays /\ c.id = CompositionId(frame, d)
        BY DEF IInv, CallType, Ids, CompositionId
    <2>2. CASE d = Virtual
        <3>1. SUFFICES ASSUME Answered(Virtual) # {}
                       PROVE  /\ \A l \in Answered(Virtual) :
                                     \/ c.id \in release[Virtual][l].on
                                     \/ <<Virtual, l>> \in refused
                              /\ Virtual \notin unmerged =>
                                     \/ c.id \in retire[Virtual].on
                                     \/ <<Virtual, "retire">> \in refused
            BY <2>2
        <3>2. Virtual \in Sent
            BY <3>1, ConnectorFacts DEF Sent, Answered, NoContent
        <3>3. QED
            BY <2>1, <2>2, <3>2 DEF IInv, VirtualAnswered, Fence
    <2>3. CASE d # Virtual
        <3>1. SUFFICES ASSUME Indices(contents[d]) # {}
                       PROVE  /\ \A l \in Indices(contents[d]) :
                                     c.id \in release[d][l].on
                              /\ result = "ok" /\ d \notin unmerged =>
                                     c.id \in retire[d].on
            BY <2>3
        <3>2. Indices(contents[d]) = {"target"} /\ "target" \in Answered(d)
            BY <3>1, IndexFacts
        <3>3. c.id \in release[d]["target"].on
            BY <2>1, <2>3, <3>1 DEF IInv, LiveFenced, Fenced
        <3>4. result = "ok" /\ d \notin unmerged => c.id \in retire[d].on
            BY <2>1, <3>2, <3>3 DEF IInv, RetireWaits
        <3>5. QED
            BY <3>2, <3>3, <3>4
    <2>4. QED
        BY <2>2, <2>3
<1>2. QED
    BY <1>1, AlwaysIInv, PTL

-----------------------------------------------------------------------------
(***************************************************************************)
(* Descriptors are accounted for.                                          *)
(***************************************************************************)
\* Where the open descriptors are: with SurfaceFlinger as release and retire
\* fences, with hwc_set or its DrmComposition, and with the compositors.
ReleaseFds == {s \in Displays \X Layers : release[s[1]][s[2]].fd}
RetireFds == {d \in Displays : retire[d].fd}
OwnFds == {s \in Displays \X Fds : s[2] \in owned[s[1]].fds}
CompositorFds == {s \in live \X Fds : s[2] \in s[1].fds}

\* At every step the open descriptors are those, and one timeline for each
\* composition that is planned.
Balance ==
    open = Cardinality(ReleaseFds) + Cardinality(RetireFds)
               + Cardinality(OwnFds) + Cardinality(planned)
               + Cardinality(CompositorFds)

\* hwc_set owns acquire fences and handles; timelines are the compositions'.
OwnedType ==
    /\ owned = [d \in Displays |-> [fds |-> owned[d].fds, bo |-> owned[d].bo]]
    /\ \A d \in Displays : owned[d].fds \subseteq {"acquire", "handle"}

LiveType == IsFiniteSet(live) /\ \A c \in live : c.fds \subseteq Fds

\* Compositions are planned for all connectors, and queued in their order.
PlannedWhen ==
    /\ planned \subseteq Physical
    /\ pc \notin {"plan", "queue"} => planned = {}
    /\ pc = "plan" => planned = Physical
    /\ pc = "queue" => planned = {Connectors[i] : i \in next .. Len(Connectors)}

\* Between calls hwc_set owns nothing; the handle of a display is copied once.
OwnedWhen ==
    /\ pc = "idle" => \A d \in Displays : owned[d].fds = {}
    /\ pc \in {"import", "addfb", "copy"} =>
           \A i \in next .. Len(Connectors) : "handle" \notin owned[Connectors[i]].fds

\* A release fence is created once: no older one is overwritten.
ReleasedWhen ==
    /\ pc \in {"import", "addfb", "copy", "create"} =>
           \A d \in Physical : ~release[d]["target"].fd
    /\ pc = "plan" =>
           \A i \in next .. Len(Connectors) : ~release[Connectors[i]]["target"].fd

\* A composition is with hwc_set or with a compositor, never with both.
LiveUnplanned ==
    \A c \in live : c.id.frame = frame => c.id.display \notin planned

Ownership ==
    /\ OwnedType /\ LiveType /\ PlannedWhen
    /\ OwnedWhen /\ ReleasedWhen /\ LiveUnplanned

-----------------------------------------------------------------------------
(***************************************************************************)
(* Facts about cardinalities.                                              *)
(***************************************************************************)
\* Members that are new add up.
LEMMA CardAdd ==
    ASSUME NEW A, NEW N, IsFiniteSet(A), IsFiniteSet(N), A \cap N = {}
    PROVE  /\ IsFiniteSet(A \cup N)
           /\ Cardinality(A \cup N) = Cardinality(A) + Cardinality(N)
           /\ Cardinality(A) \in Nat /\ Cardinality(N) \in Nat
<1>1. Cardinality(A) \in Nat /\ Cardinality(N) \in Nat
    BY FS_CardinalityType
<1>2. IsFiniteSet(A \cup N)
      /\ Cardinality(A \cup N) = Cardinality(A) + Cardinality(N) - Cardinality(A \cap N)
    BY FS_Union
<1>3. Cardinality(A \cap N) = 0
    BY FS_EmptySet
<1>4. QED
    BY <1>1, <1>2, <1>3

\* Members that were there are taken off.
LEMMA CardRemove ==
    ASSUME NEW A, NEW R, IsFiniteSet(A), R \subseteq A
    PROVE  /\ IsFiniteSet(A \ R) /\ IsFiniteSet(R)
           /\ Cardinality(A \ R) = Cardinality(A) - Cardinality(R)
           /\ Cardinality(A) \in Nat /\ Cardinality(R) \in Nat
<1>1. IsFiniteSet(R)
    BY FS_Subset
<1>2. Cardinality(A) \in Nat /\ Cardinality(R) \in Nat
    BY <1>1, FS_CardinalityType
<1>3. IsFiniteSet(A \ R)
      /\ Cardinality(A \ R) = Cardinality(A) - Cardinality(A \cap R)
    BY FS_Difference
<1>4. A \cap R = R
    OBVIOUS
<1>5. QED
    BY <1>1, <1>2, <1>3, <1>4

\* What one member holds is as much as it holds.
LEMMA CardSlice ==
    ASSUME NEW x, NEW S, IsFiniteSet(S)
    PROVE  /\ IsFiniteSet({x} \X S) /\ Cardinality({x} \X S) = Cardinality(S)
           /\ IsFiniteSet(S \X {x}) /\ Cardinality(S \X {x}) = Cardinality(S)
<1>1. IsFiniteSet({x}) /\ Cardinality({x}) = 1
    BY FS_Singleton
<1>2. /\ IsFiniteSet({x} \X S)
      /\ Cardinality({x} \X S) = Cardinality({x}) * Cardinality(S)
    BY <1>1, FS_Product
<1>3. /\ IsFiniteSet(S \X {x})
      /\ Cardinality(S \X {x}) = Cardinality(S) * Cardinality({x})
    BY <1>1, FS_Product
<1>4. Cardinality(S) \in Nat
    BY FS_CardinalityType
<1>5. QED
    BY <1>1, <1>2, <1>3, <1>4

\* The sets of the model are finite; there are as many displays as connectors.
LEMMA FiniteFacts ==
    /\ IsFiniteSet(Layers) /\ IsFiniteSet(Fds)
    /\ IsFiniteSet(Physical) /\ IsFiniteSet(Displays)
    /\ Cardinality(Physical) = Len(Connectors)
<1>1. IsFiniteSet(Layers)
    <2>1. IsFiniteSet({"framebuffer"})
        BY FS_Singleton
    <2>2. IsFiniteSet({"framebuffer"} \cup {"skip"})
        BY <2>1, FS_AddElement
    <2>3. IsFiniteSet({"framebuffer"} \cup {"skip"} \cup {"target"})
        BY <2>2, FS_AddElement
    <2>4. Layers = {"framebuffer"} \cup {"skip"} \cup {"target"}
        BY DEF Layers
    <2>5. QED
        BY <2>3, <2>4
<1>2. IsFiniteSet(Fds)
    <2>1. IsFiniteSet({"acquire"})
        BY FS_Singleton
    <2>2. IsFiniteSet({"acquire"} \cup {"handle"})
        BY <2>1, FS_AddElement
    <2>3. IsFiniteSet({"acquire"} \cup {"handle"} \cup {"timeline"})
        BY <2>2, FS_AddElement
    <2>4. Fds = {"acquire"} \cup {"handle"} \cup {"timeline"}
        BY DEF Fds
    <2>5. QED
        BY <2>3, <2>4
<1> DEFINE places == 1 .. Len(Connectors)
<1>3. Len(Connectors) \in Nat /\ Len(Connectors) >= 1
    BY ConnectorFacts
<1>4. IsFiniteSet(places) /\ Cardinality(places) = Len(Connectors)
    BY <1>3, FS_Interval
<1>5. Connectors \in [places -> Physical]
    BY ConnectorAssumption
<1>6. Connectors \in Surjection(places, Physical)
    <2>1. \A d \in Physical : \E i \in places : Connectors[i] = d
        BY ConnectorPlace
    <2> HIDE DEF places
    <2>2. QED
        BY <1>5, <2>1 DEF Surjection
<1>7. Connectors \in Injection(places, Physical)
    <2>1. IsInjective(Connectors)
        BY ConnectorAssumption
    <2> HIDE DEF places
    <2>2. QED
        BY <1>5, <2>1 DEF Injection
<1> HIDE DEF places
<1>8. IsFiniteSet(Physical) /\ Cardinality(Physical) = Cardinality(places)
    BY <1>4, <1>6, <1>7, FS_Surjection
<1>9. IsFiniteSet(Displays)
    BY <1>8, FS_AddElement DEF Displays
<1>10. QED
    BY <1>1, <1>2, <1>4, <1>8, <1>9

\* So are the sets that are counted.
LEMMA CountedFinite ==
    ASSUME Ownership
    PROVE  /\ IsFiniteSet(ReleaseFds) /\ IsFiniteSet(RetireFds)
           /\ IsFiniteSet(OwnFds) /\ IsFiniteSet(planned)
           /\ IsFiniteSet(CompositorFds)
<1>1. /\ IsFiniteSet(Displays \X Layers) /\ IsFiniteSet(Displays \X Fds)
      /\ IsFiniteSet(Displays)
    BY FiniteFacts, FS_Product
<1>2. IsFiniteSet(live \X Fds)
    BY FiniteFacts, FS_Product DEF Ownership, LiveType
<1>3. IsFiniteSet(ReleaseFds)
    BY <1>1, FS_Subset DEF ReleaseFds
<1>4. IsFiniteSet(RetireFds)
    BY <1>1, FS_Subset DEF RetireFds
<1>5. IsFiniteSet(OwnFds)
    BY <1>1, FS_Subset DEF OwnFds
<1>6. IsFiniteSet(CompositorFds)
    BY <1>2, FS_Subset DEF CompositorFds
<1>7. IsFiniteSet(planned)
    BY FiniteFacts, FS_Subset DEF Ownership, PlannedWhen
<1>8. QED
    BY <1>3, <1>4, <1>5, <1>6, <1>7

-----------------------------------------------------------------------------
(***************************************************************************)
(* What the steps do to the descriptors.                                   *)
(***************************************************************************)
\* A composition reaches its compositor with its descriptors.
LEMMA LiveAdd ==
    ASSUME Ownership, NEW c, c \notin live, c.fds \subseteq Fds,
           live' = live \cup {c}
    PROVE  /\ LiveType'
           /\ IsFiniteSet(c.fds) /\ Cardinality(c.fds) \in Nat
           /\ Cardinality(CompositorFds') = Cardinality(CompositorFds) + Cardinality(c.fds)
<1> DEFINE new == {c} \X c.fds
<1>1. LiveType'
    <2>1. IsFiniteSet(live \cup {c})
        BY FS_AddElement DEF Ownership, LiveType
    <2>2. QED
        BY <2>1 DEF Ownership, LiveType
<1>2. IsFiniteSet(c.fds)
    BY FiniteFacts, FS_Subset
<1>3. CompositorFds' = CompositorFds \cup new
    BY DEF CompositorFds
<1>4. CompositorFds \cap new = {}
    BY DEF CompositorFds
<1>5. IsFiniteSet(new) /\ Cardinality(new) = Cardinality(c.fds)
    BY <1>2, CardSlice
<1>6. IsFiniteSet(CompositorFds)
    BY CountedFinite
<1> HIDE DEF new
<1>7. /\ Cardinality(CompositorFds \cup new) = Cardinality(CompositorFds) + Cardinality(new)
      /\ Cardinality(new) \in Nat
    BY <1>4, <1>5, <1>6, CardAdd
<1>8. QED
    BY <1>1, <1>2, <1>3, <1>5, <1>7

\* A composition that ends takes its descriptors with it.
LEMMA LiveRemove ==
    ASSUME Ownership, NEW c \in live, live' = live \ {c}
    PROVE  /\ LiveType'
           /\ Cardinality(c.fds) \in Nat
           /\ Cardinality(CompositorFds') = Cardinality(CompositorFds) - Cardinality(c.fds)
<1> DEFINE old == {c} \X c.fds
<1>1. LiveType'
    <2>1. IsFiniteSet(live \ {c})
        BY FS_RemoveElement DEF Ownership, LiveType
    <2>2. QED
        BY <2>1 DEF Ownership, LiveType
<1>2. c.fds \subseteq Fds
    BY DEF Ownership, LiveType
<1>3. IsFiniteSet(c.fds)
    BY <1>2, FiniteFacts, FS_Subset
<1>4. CompositorFds' = CompositorFds \ old
    BY DEF CompositorFds
<1>5. old \subseteq CompositorFds
    BY <1>2 DEF CompositorFds
<1>6. Cardinality(old) = Cardinality(c.fds)
    BY <1>3, CardSlice
<1>7. IsFiniteSet(CompositorFds)
    BY CountedFinite
<1> HIDE DEF old
<1>8. /\ Cardinality(CompositorFds \ old) = Cardinality(CompositorFds) - Cardinality(old)
      /\ Cardinality(old) \in Nat
    BY <1>5, <1>7, CardRemove
<1>9. QED
    BY <1>1, <1>4, <1>6, <1>8

\* What a composition of a connector holds.
LEMMA InCompositionFds ==
    ASSUME Ownership, NEW d \in Displays
    PROVE  InComposition(d).fds =
               {"timeline"} \cup (IF Indices(contents[d]) = {} THEN {} ELSE owned[d].fds)
<1>1. owned[d] = [fds |-> owned[d].fds, bo |-> owned[d].bo]
    BY DEF Ownership, OwnedType
<1>2. CASE Indices(contents[d]) = {}
    BY <1>2 DEF InComposition, Nothing
<1>3. CASE Indices(contents[d]) # {}
    BY <1>1, <1>3 DEF InComposition
<1>4. QED
    BY <1>2, <1>3

\* Compositions leave hwc_set, for a compositor or for good: their timelines
\* and the descriptors of the layers they read go with them.
LEMMA HandedOver ==
    ASSUME Ownership, NEW ds, ds \subseteq planned,
           planned' = planned \ ds,
           owned' = [d \in Displays |->
               IF d \in ds /\ Indices(contents[d]) # {} THEN Nothing ELSE owned[d]]
    PROVE  /\ OwnedType'
           /\ \A d \in Displays : owned'[d].fds \subseteq owned[d].fds
           /\ ComposedFds(ds) \in Nat
           /\ Cardinality(OwnFds') \in Nat /\ Cardinality(planned') \in Nat
           /\ Cardinality(OwnFds') + Cardinality(planned')
                  = Cardinality(OwnFds) + Cardinality(planned) - ComposedFds(ds)
<1> DEFINE taken == {s \in OwnFds : s[1] \in ds /\ Indices(contents[s[1]]) # {}}
           lines == ds \X {"timeline"}
           held == {s \in ds \X Fds : s[2] \in InComposition(s[1]).fds}
<1>1. /\ Nothing.fds = {}
      /\ Nothing = [fds |-> Nothing.fds, bo |-> Nothing.bo]
    BY DEF Nothing
<1>2. ds \subseteq Displays
    BY ConnectorFacts DEF Ownership, PlannedWhen
<1>3. /\ OwnedType'
      /\ \A d \in Displays : owned'[d].fds \subseteq owned[d].fds
    <2> HIDE DEF Nothing
    <2>1. \A d \in Displays :
              /\ owned'[d] = [fds |-> owned'[d].fds, bo |-> owned'[d].bo]
              /\ owned'[d].fds \subseteq owned[d].fds
        <3> SUFFICES ASSUME NEW d \in Displays
                     PROVE  /\ owned'[d] = [fds |-> owned'[d].fds, bo |-> owned'[d].bo]
                            /\ owned'[d].fds \subseteq owned[d].fds
            OBVIOUS
        <3>1. owned[d] = [fds |-> owned[d].fds, bo |-> owned[d].bo]
            BY DEF Ownership, OwnedType
        <3>2. CASE d \in ds /\ Indices(contents[d]) # {}
            BY <1>1, <3>2
        <3>3. CASE ~(d \in ds /\ Indices(contents[d]) # {})
            <4>1. owned'[d] = owned[d]
                BY <3>3
            <4>2. QED
                BY <3>1, <4>1
        <3>4. QED
            BY <3>2, <3>3
    <2>2. QED
        BY <2>1 DEF Ownership, OwnedType
<1>4. OwnFds' = OwnFds \ taken
    BY <1>1 DEF OwnFds
<1>5. Cardinality(OwnFds \ taken) = Cardinality(OwnFds) - Cardinality(taken)
      /\ IsFiniteSet(taken) /\ Cardinality(taken) \in Nat /\ Cardinality(OwnFds) \in Nat
    <2>1. taken \subseteq OwnFds
        OBVIOUS
    <2> HIDE DEF taken
    <2>2. QED
        BY <2>1, CountedFinite, CardRemove
<1>6. /\ Cardinality(planned') = Cardinality(planned) - Cardinality(ds)
      /\ IsFiniteSet(ds) /\ Cardinality(ds) \in Nat /\ Cardinality(planned) \in Nat
    BY CountedFinite, CardRemove
<1>7. ComposedFds(ds) = Cardinality(held)
    <2> DEFINE f == [d \in ds |-> InComposition(d).fds]
    <2>1. {s \in (DOMAIN f) \X Fds : s[2] \in f[s[1]]} = held
        OBVIOUS
    <2>2. QED
        BY <2>1 DEF ComposedFds, Held
<1>8. held = taken \cup lines
    <2>1. \A d \in ds : InComposition(d).fds =
              {"timeline"} \cup (IF Indices(contents[d]) = {} THEN {} ELSE owned[d].fds)
        BY <1>2, InCompositionFds
    <2>2. \A s \in held : s \in taken \cup lines
        BY <1>2, <2>1 DEF OwnFds
    <2>3. \A s \in taken \cup lines : s \in held
        BY <1>2, <2>1 DEF OwnFds, Fds
    <2>4. QED
        BY <2>2, <2>3
<1>9. taken \cap lines = {}
    BY DEF OwnFds, Ownership, OwnedType
<1>10. IsFiniteSet(lines) /\ Cardinality(lines) = Cardinality(ds)
    BY <1>6, CardSlice
<1> HIDE DEF taken, lines, held
<1>11. Cardinality(held) = Cardinality(taken) + Cardinality(ds)
    <2>1. IsFiniteSet(taken) /\ IsFiniteSet(lines) /\ taken \cap lines = {}
        BY <1>5, <1>9, <1>10
    <2>2. /\ IsFiniteSet(taken \cup lines)
          /\ Cardinality(taken \cup lines) = Cardinality(taken) + Cardinality(lines)
        BY ONLY <2>1, CardAdd
    <2>3. QED
        BY ONLY <1>8, <1>10, <2>2
<1>12. Cardinality(OwnFds') \in Nat /\ Cardinality(planned') \in Nat
    BY <1>4, CountedFinite, FS_Difference, FS_CardinalityType
<1>13. Cardinality(OwnFds') = Cardinality(OwnFds) - Cardinality(taken)
    BY <1>4, <1>5
<1>14. /\ ComposedFds(ds) = Cardinality(taken) + Cardinality(ds)
       /\ ComposedFds(ds) \in Nat
    BY <1>5, <1>6, <1>7, <1>11
<1>15. Cardinality(OwnFds') + Cardinality(planned')
           = Cardinality(OwnFds) + Cardinality(planned) - ComposedFds(ds)
    BY ONLY <1>5, <1>6, <1>13, <1>14
<1>16. QED
    BY ONLY <1>3, <1>12, <1>14, <1>15

-----------------------------------------------------------------------------
(***************************************************************************)
(* The balance is kept.                                                    *)
(***************************************************************************)
Imports == {"import", "addfb", "copy"}

BInv == IInv /\ Ownership /\ Balance

\* Before the first call nothing is open.
LEMMA InitBInv == Init => BInv
<1> SUFFICES ASSUME Init PROVE BInv
    OBVIOUS
<1>1. /\ pc = "idle" /\ planned = {} /\ live = {} /\ open = 0
      /\ release = [d \in Displays |-> [l \in Layers |-> NoFd]]
      /\ retire = [d \in Displays |-> NoFd]
      /\ owned = [d \in Displays |-> Nothing]
    BY DEF Init
<1>2. OwnedType /\ \A d \in Displays : owned[d].fds = {}
    <2>1. Nothing = [fds |-> Nothing.fds, bo |-> Nothing.bo] /\ Nothing.fds = {}
        BY DEF Nothing
    <2>2. QED
        BY <1>1, <2>1 DEF OwnedType
<1>3. Ownership
    BY <1>1, <1>2, FS_EmptySet
    DEF Ownership, LiveType, PlannedWhen, OwnedWhen, ReleasedWhen, LiveUnplanned
<1>4. /\ ReleaseFds = {} /\ RetireFds = {}
      /\ OwnFds = {} /\ CompositorFds = {}
    BY <1>1, <1>2 DEF ReleaseFds, RetireFds, OwnFds, CompositorFds, NoFd
<1>5. Cardinality({}) = 0
    BY FS_EmptySet
<1>6. Balance
    BY <1>1, <1>4, <1>5 DEF Balance
<1>7. QED
    BY <1>3, <1>6, InitIInv DEF BInv

\* The steps that move no descriptor: only where hwc_set stands changes.
LEMMA QuietBalance ==
    ASSUME BInv, UNCHANGED <<frame, release, retire, planned, live, open>>,
           OwnedType', \A d \in Displays : owned'[d].fds = owned[d].fds,
           \/ pc' = pc /\ next' = next
           \/ /\ pc \in Imports /\ next' \in {next, next + 1}
              /\ pc' \in Imports
           \/ pc \in Imports /\ pc' = "create"
           \/ pc \in Imports \cup {"create"} /\ pc' = "return"
    PROVE  Ownership' /\ Balance'
<1>1. PlannedWhen' /\ LiveType' /\ LiveUnplanned' /\ ReleasedWhen'
    BY DEF BInv, Ownership, PlannedWhen, LiveType, LiveUnplanned, ReleasedWhen,
           Imports
<1>2. OwnedWhen'
    <2>1. CASE pc' = pc /\ next' = next
        BY <2>1, ConnectorFacts
        DEF BInv, Ownership, OwnedWhen, IInv, CallType, Walks
    <2>2. CASE pc \in Imports /\ pc' \in Imports /\ next' \in {next, next + 1}
        BY <2>2, ConnectorFacts
        DEF BInv, Ownership, OwnedWhen, Imports, IInv, CallType, Walks
    <2>3. CASE pc' \in {"create", "return"}
        BY <2>3 DEF OwnedWhen
    <2>4. QED
        BY <2>1, <2>2, <2>3
<1>3. /\ ReleaseFds' = ReleaseFds /\ RetireFds' = RetireFds
      /\ OwnFds' = OwnFds /\ CompositorFds' = CompositorFds
    BY DEF ReleaseFds, RetireFds, OwnFds, CompositorFds
<1>4. Balance'
    BY <1>3 DEF BInv, Balance
<1>5. QED
    BY <1>1, <1>2, <1>4 DEF Ownership

\* The copied handle of a display is a new descriptor.
LEMMA CopyBalance ==
    ASSUME BInv, CopyHandle
    PROVE  Ownership' /\ Balance'
<1> DEFINE d == Display
           new == {<<d, "handle">>}
<1>1. /\ pc = "copy" /\ next \in 1 .. Len(Connectors) /\ d = Connectors[next]
      /\ d \in Physical /\ d \in Displays
    BY ConnectorFacts DEF CopyHandle, BInv, IInv, CallType, Walks, Display
<1>2. /\ owned' = [owned EXCEPT ![d].fds = @ \cup {"handle"}]
      /\ open' = open + 1
      /\ UNCHANGED <<frame, release, retire, planned, live>>
    BY DEF CopyHandle, fenceVars
<1>3. /\ next' \in 1 .. Len(Connectors)
      /\ \/ pc' = "import" /\ next' = next + 1
         \/ pc' = "create" /\ next' = 1
    BY <1>1, AdvanceFacts DEF CopyHandle
<1> HIDE DEF d
<1>4. /\ owned'[d].fds = owned[d].fds \cup {"handle"}
      /\ \A e \in Displays : e # d => owned'[e] = owned[e]
      /\ \A e \in Displays : owned'[e] = [fds |-> owned'[e].fds, bo |-> owned'[e].bo]
      /\ owned' = [e \in Displays |-> owned'[e]]
    <2>1. owned = [e \in Displays |-> [fds |-> owned[e].fds, bo |-> owned[e].bo]]
        BY DEF BInv, Ownership, OwnedType
    <2>2. owned[d] = [fds |-> owned[d].fds, bo |-> owned[d].bo]
        BY <1>1, <2>1
    <2>3. owned' = [e \in Displays |->
              IF e = d THEN [owned[d] EXCEPT !.fds = @ \cup {"handle"}] ELSE owned[e]]
        BY <1>2, <2>1
    <2>4. owned'[d] = [fds |-> owned[d].fds \cup {"handle"}, bo |-> owned[d].bo]
        BY <1>1, <2>2, <2>3
    <2>5. QED
        BY <1>1, <2>1, <2>3, <2>4
<1>5. OwnedType'
    BY <1>1, <1>4 DEF OwnedType, BInv, Ownership
<1>6. OwnedWhen'
    <2>1. \A i \in next + 1 .. Len(Connectors) : Connectors[i] # d
        BY <1>1, ConnectorAssumption DEF IsInjective
    <2>2. \A i \in next + 1 .. Len(Connectors) : Connectors[i] \in Displays
        BY <1>1, ConnectorFacts
    <2>3. \A i \in next + 1 .. Len(Connectors) : "handle" \notin owned[Connectors[i]].fds
        BY <1>1, ConnectorFacts DEF BInv, Ownership, OwnedWhen
    <2>4. QED
        BY <1>3, <1>4, <2>1, <2>2, <2>3 DEF OwnedWhen
<1>7. PlannedWhen' /\ LiveType' /\ LiveUnplanned' /\ ReleasedWhen'
    BY <1>1, <1>2, <1>3
    DEF BInv, Ownership, PlannedWhen, LiveType, LiveUnplanned, ReleasedWhen
<1>8. /\ ReleaseFds' = ReleaseFds /\ RetireFds' = RetireFds
      /\ CompositorFds' = CompositorFds
    BY <1>2 DEF ReleaseFds, RetireFds, CompositorFds
<1>9. OwnFds' = OwnFds \cup new
    BY <1>1, <1>4 DEF OwnFds, Fds
<1>10. OwnFds \cap new = {}
    BY <1>1, ConnectorFacts DEF OwnFds, BInv, Ownership, OwnedWhen
<1>11. Cardinality(new) = 1 /\ IsFiniteSet(new)
    BY FS_Singleton
<1> HIDE DEF new
<1>12. Cardinality(OwnFds') = Cardinality(OwnFds) + 1 /\ Cardinality(OwnFds) \in Nat
    BY <1>9, <1>10, <1>11, CountedFinite, CardAdd DEF BInv
<1>13. Balance'
    <2>1. /\ Cardinality(ReleaseFds) \in Nat /\ Cardinality(RetireFds) \in Nat
          /\ Cardinality(planned) \in Nat /\ Cardinality(CompositorFds) \in Nat
        BY CountedFinite, FS_CardinalityType DEF BInv
    <2>2. QED
        BY <1>2, <1>8, <1>12, <2>1 DEF BInv, Balance
<1>14. QED
    BY <1>5, <1>6, <1>7, <1>13 DEF Ownership

\* Every connector gets a timeline.
LEMMA CreateBalance ==
    ASSUME BInv, CreateComposition
    PROVE  Ownership' /\ Balance'
<1>1. /\ pc = "create" /\ pc' = "plan" /\ next' = next /\ next = 1
      /\ planned = {} /\ planned' = Physical
      /\ open' = open + Len(Connectors)
      /\ UNCHANGED <<frame, release, retire, owned, live>>
    BY DEF CreateComposition, BInv, IInv, CallType, Ownership, PlannedWhen, fenceVars
<1>2. OwnedType' /\ LiveType' /\ PlannedWhen' /\ OwnedWhen'
    BY <1>1 DEF BInv, Ownership, OwnedType, LiveType, PlannedWhen, OwnedWhen
<1>3. ReleasedWhen'
    BY <1>1, ConnectorFacts DEF BInv, Ownership, ReleasedWhen
<1>4. LiveUnplanned'
    BY <1>1, ConnectorFacts DEF BInv, IInv, LiveFenced, LiveUnplanned
<1>5. /\ ReleaseFds' = ReleaseFds /\ RetireFds' = RetireFds
      /\ OwnFds' = OwnFds /\ CompositorFds' = CompositorFds
    BY <1>1 DEF ReleaseFds, RetireFds, OwnFds, CompositorFds
<1>6. /\ Cardinality(ReleaseFds) \in Nat /\ Cardinality(RetireFds) \in Nat
      /\ Cardinality(OwnFds) \in Nat /\ Cardinality(CompositorFds) \in Nat
    BY CountedFinite, FS_CardinalityType DEF BInv
<1>7. /\ Cardinality(planned) = 0 /\ Cardinality(planned') = Len(Connectors)
      /\ Len(Connectors) \in Nat
    BY <1>1, FS_EmptySet, FiniteFacts, ConnectorFacts
<1>8. Balance'
    <2>1. open' = open + Len(Connectors)
        BY <1>1
    <2>2. QED
        BY <1>5, <1>6, <1>7, <2>1 DEF BInv, Balance
<1>9. QED
    BY <1>2, <1>3, <1>4, <1>8 DEF Ownership

\* The release fence of the layer that is read is a new descriptor.
LEMMA PlanBalance ==
    ASSUME BInv, PlanDisplay
    PROVE  Ownership' /\ Balance'
<1> DEFINE d == Display
           fence == CreateNextTimelineFence(d)
           new == {<<d, "target">>}
<1>1. /\ pc = "plan" /\ next \in 1 .. Len(Connectors) /\ d = Connectors[next]
      /\ d \in Physical /\ d \in Displays
    BY ConnectorFacts DEF PlanDisplay, BInv, IInv, CallType, Walks, Display
<1>2. fence.fd = TRUE
    BY DEF CreateNextTimelineFence, Fence
<1>3. /\ UNCHANGED <<frame, retire, owned, planned, live>>
      /\ IF Indices(contents[d]) = {} THEN release' = release /\ open' = open
         ELSE release' = [release EXCEPT ![d]["target"] = fence] /\ open' = open + 1
    BY DEF PlanDisplay
<1>4. /\ next' \in 1 .. Len(Connectors)
      /\ \/ pc' = "plan" /\ next' = next + 1
         \/ pc' = "queue" /\ next' = 1 /\ next = Len(Connectors)
    BY <1>1, AdvanceFacts DEF PlanDisplay
<1> HIDE DEF d, fence
<1>5. OwnedType' /\ LiveType' /\ OwnedWhen' /\ LiveUnplanned'
    BY <1>3, <1>4 DEF BInv, Ownership, OwnedType, LiveType, OwnedWhen, LiveUnplanned
<1>6. PlannedWhen'
    <2>1. planned' = Physical
        BY <1>1, <1>3 DEF BInv, Ownership, PlannedWhen
    <2>2. Physical = {Connectors[i] : i \in 1 .. Len(Connectors)}
        BY ConnectorPlace, ConnectorFacts
    <2>3. QED
        BY <1>4, <2>1, <2>2 DEF PlannedWhen
<1>7. ReleasedWhen'
    <2>1. \A i \in next + 1 .. Len(Connectors) : Connectors[i] # d
        BY <1>1, ConnectorAssumption DEF IsInjective
    <2>2. \A i \in next + 1 .. Len(Connectors) :
              /\ Connectors[i] \in Displays
              /\ ~release[Connectors[i]]["target"].fd
        BY <1>1, ConnectorFacts DEF BInv, Ownership, ReleasedWhen
    <2>3. \A e \in Displays : e # d => release'[e] = release[e]
        BY <1>1, <1>3 DEF BInv, IInv, FenceType
    <2>4. QED
        BY <1>4, <2>1, <2>2, <2>3 DEF ReleasedWhen
<1>8. /\ RetireFds' = RetireFds
      /\ OwnFds' = OwnFds /\ CompositorFds' = CompositorFds
    BY <1>3 DEF RetireFds, OwnFds, CompositorFds
<1>9. /\ Cardinality(ReleaseFds) \in Nat /\ Cardinality(RetireFds) \in Nat
      /\ Cardinality(OwnFds) \in Nat /\ Cardinality(CompositorFds) \in Nat
      /\ Cardinality(planned) \in Nat /\ IsFiniteSet(ReleaseFds)
    BY CountedFinite, FS_CardinalityType DEF BInv
<1>10. Balance'
    <2>1. CASE Indices(contents[d]) = {}
        <3>1. ReleaseFds' = ReleaseFds
            BY <1>3, <2>1 DEF ReleaseFds
        <3>2. QED
            BY <1>3, <1>8, <2>1, <3>1 DEF BInv, Balance
    <2>2. CASE Indices(contents[d]) # {}
        <3>1. release' = [release EXCEPT ![d]["target"] = fence] /\ open' = open + 1
            BY <1>3, <2>2
        <3>2. \A e \in Displays, l \in Layers :
                  release'[e][l] = IF e = d /\ l = "target" THEN fence ELSE release[e][l]
            BY <1>1, <3>1 DEF BInv, IInv, FenceType
        <3>3. ReleaseFds' = ReleaseFds \cup new
            BY <1>1, <1>2, <3>2 DEF ReleaseFds, Layers
        <3>4. ~release[d]["target"].fd
            BY <1>1, ConnectorFacts DEF BInv, Ownership, ReleasedWhen
        <3>5. ReleaseFds \cap new = {}
            BY <3>4 DEF ReleaseFds
        <3>6. IsFiniteSet(new) /\ Cardinality(new) = 1
            BY FS_Singleton
        <3> HIDE DEF new
        <3>7. Cardinality(ReleaseFds') = Cardinality(ReleaseFds) + 1
            BY <1>9, <3>3, <3>5, <3>6, CardAdd
        <3>8. QED
            BY <1>3, <1>8, <1>9, <3>1, <3>7 DEF BInv, Balance
    <2>3. QED
        BY <2>1, <2>2
<1>11. QED
    BY <1>5, <1>6, <1>7, <1>10 DEF Ownership

\* All compositions are destroyed when planning or queueing fails.
LEMMA FailBalance ==
    ASSUME BInv, Destroy(planned), pc' = "return",
           UNCHANGED <<frame, release, retire, live>>
    PROVE  Ownership' /\ Balance'
<1> DEFINE closed == ComposedFds(planned)
<1>1. /\ planned' = planned \ planned /\ open' = open - closed
      /\ owned' = [d \in Displays |->
             IF d \in planned /\ Indices(contents[d]) # {} THEN Nothing ELSE owned[d]]
    BY DEF Destroy
<1>2. /\ OwnedType' /\ closed \in Nat
      /\ Cardinality(OwnFds') \in Nat /\ Cardinality(planned') \in Nat
      /\ Cardinality(OwnFds') + Cardinality(planned')
             = Cardinality(OwnFds) + Cardinality(planned) - closed
    BY <1>1, HandedOver DEF BInv
<1> HIDE DEF closed
<1>3. Ownership'
    <2>1. planned' = {}
        BY <1>1
    <2>2. QED
        BY <1>2, <2>1
        DEF BInv, Ownership, PlannedWhen, LiveType, LiveUnplanned, OwnedWhen,
            ReleasedWhen
<1>4. /\ ReleaseFds' = ReleaseFds /\ RetireFds' = RetireFds
      /\ CompositorFds' = CompositorFds
    BY DEF ReleaseFds, RetireFds, CompositorFds
<1>5. /\ Cardinality(ReleaseFds) \in Nat /\ Cardinality(RetireFds) \in Nat
      /\ Cardinality(OwnFds) \in Nat /\ Cardinality(CompositorFds) \in Nat
      /\ Cardinality(planned) \in Nat
    BY CountedFinite, FS_CardinalityType DEF BInv
<1>6. Balance'
    <2>1. open' = open - closed
        BY <1>1
    <2>2. QED
        BY <1>2, <1>4, <1>5, <2>1 DEF BInv, Balance
<1>7. QED
    BY <1>3, <1>6

\* A composition goes to its compositor with all it holds, or is destroyed.
LEMMA QueueBalance ==
    ASSUME BInv, QueueDisplay
    PROVE  Ownership' /\ Balance'
<1> DEFINE d == Display
           ds == {d}
           closed == ComposedFds(ds)
<1>1. /\ pc = "queue" /\ next \in 1 .. Len(Connectors) /\ d = Connectors[next]
      /\ d \in Physical /\ d \in Displays
    BY ConnectorFacts DEF QueueDisplay, BInv, IInv, CallType, Walks, Display
<1>2. UNCHANGED <<frame, release, retire>>
    BY DEF QueueDisplay, fenceVars
<1>3. /\ next' \in 1 .. Len(Connectors)
      /\ \/ pc' = "queue" /\ next' = next + 1
         \/ pc' = "retire" /\ next = Len(Connectors)
    BY <1>1, AdvanceFacts DEF QueueDisplay
<1>4. /\ planned' = planned \ ds
      /\ owned' = [e \in Displays |->
             IF e \in ds /\ Indices(contents[e]) # {} THEN Nothing ELSE owned[e]]
    <2>1. CASE contents[d] = NoContent
        BY <2>1 DEF QueueDisplay, Destroy
    <2>2. CASE contents[d] # NoContent
        <3>1. owned = [e \in Displays |-> owned[e]]
            BY DEF BInv, Ownership, OwnedType
        <3>2. /\ planned' = planned \ {d}
              /\ owned' = [owned EXCEPT ![d] =
                     IF Indices(contents[d]) = {} THEN @ ELSE Nothing]
            BY <2>2 DEF QueueDisplay
        <3>3. owned' = [e \in Displays |-> IF e = d
                  THEN (IF Indices(contents[d]) = {} THEN owned[d] ELSE Nothing)
                  ELSE owned[e]]
            BY <1>1, <3>1, <3>2
        <3> HIDE DEF d
        <3>4. QED
            BY <3>2, <3>3
    <2>3. QED
        BY <2>1, <2>2
<1>5. /\ contents[d] = NoContent => live' = live /\ open' = open - closed
      /\ contents[d] # NoContent =>
             /\ live' = live \cup {[id |-> CompositionId(frame, d),
                                    fds |-> InComposition(d).fds,
                                    bo |-> InComposition(d).bo]}
             /\ open' = open
    BY DEF QueueDisplay, Destroy
<1> HIDE DEF d
<1>6. planned = {Connectors[i] : i \in next .. Len(Connectors)}
    BY <1>1 DEF BInv, Ownership, PlannedWhen
<1>7. ds \subseteq planned
    BY <1>1, <1>6
<1>8. PlannedWhen'
    <2>1. \A i \in next + 1 .. Len(Connectors) : Connectors[i] # d
        BY <1>1, ConnectorAssumption DEF IsInjective
    <2>2. planned' = {Connectors[i] : i \in next + 1 .. Len(Connectors)}
        <3>1. \A e \in planned' : \E i \in next + 1 .. Len(Connectors) : Connectors[i] = e
            BY <1>1, <1>4, <1>6
        <3>2. \A i \in next + 1 .. Len(Connectors) : Connectors[i] \in planned'
            BY <1>1, <1>4, <1>6, <2>1
        <3>3. QED
            BY <3>1, <3>2
    <2>3. planned' \subseteq Physical
        BY <1>4 DEF BInv, Ownership, PlannedWhen
    <2>4. CASE pc' = "queue" /\ next' = next + 1
        BY <2>2, <2>3, <2>4 DEF PlannedWhen
    <2>5. CASE pc' = "retire" /\ next = Len(Connectors)
        <3>1. planned' = {}
            BY <1>1, <2>2, <2>5
        <3>2. QED
            BY <2>5, <3>1 DEF PlannedWhen
    <2>6. QED
        BY <1>3, <2>4, <2>5
<1>9. /\ OwnedType' /\ closed \in Nat
      /\ Cardinality(OwnFds') \in Nat /\ Cardinality(planned') \in Nat
      /\ Cardinality(OwnFds') + Cardinality(planned')
             = Cardinality(OwnFds) + Cardinality(planned) - closed
    BY <1>4, <1>7, HandedOver DEF BInv
<1>10. OwnedWhen' /\ ReleasedWhen'
    BY <1>3 DEF OwnedWhen, ReleasedWhen
<1>11. closed = Cardinality(InComposition(d).fds) /\ InComposition(d).fds \subseteq Fds
    <2> DEFINE f == [e \in ds |-> InComposition(e).fds]
               fds == InComposition(d).fds
    <2>1. fds \subseteq Fds
        <3>1. fds = {"timeline"} \cup (IF Indices(contents[d]) = {} THEN {} ELSE owned[d].fds)
            BY <1>1, InCompositionFds DEF BInv
        <3> HIDE DEF fds
        <3>2. QED
            BY <1>1, <3>1 DEF BInv, Ownership, OwnedType, Fds
    <2>2. {s \in (DOMAIN f) \X Fds : s[2] \in f[s[1]]} = {d} \X fds
        BY <2>1
    <2>3. closed = Cardinality({d} \X fds)
        BY <2>2 DEF ComposedFds, Held
    <2>4. Cardinality({d} \X fds) = Cardinality(fds)
        <3>1. IsFiniteSet(fds)
            BY <2>1, FiniteFacts, FS_Subset
        <3> HIDE DEF fds
        <3>2. QED
            BY <3>1, CardSlice
    <2>5. QED
        BY <2>1, <2>3, <2>4
<1> HIDE DEF closed
<1>12. /\ ReleaseFds' = ReleaseFds /\ RetireFds' = RetireFds
    BY <1>2 DEF ReleaseFds, RetireFds
<1>13. /\ Cardinality(ReleaseFds) \in Nat /\ Cardinality(RetireFds) \in Nat
       /\ Cardinality(OwnFds) \in Nat /\ Cardinality(CompositorFds) \in Nat
       /\ Cardinality(planned) \in Nat
    BY CountedFinite, FS_CardinalityType DEF BInv
<1>14. CASE contents[d] = NoContent
    <2>1. live' = live /\ open' = open - closed
        BY <1>5, <1>14
    <2>2. LiveType' /\ LiveUnplanned'
        BY <1>2, <1>4, <2>1 DEF BInv, Ownership, LiveType, LiveUnplanned
    <2>3. Ownership'
        BY <1>8, <1>9, <1>10, <2>2 DEF Ownership
    <2>4. CompositorFds' = CompositorFds
        BY <2>1 DEF CompositorFds
    <2>5. Balance'
        BY <1>9, <1>12, <1>13, <2>1, <2>4 DEF BInv, Balance
    <2>6. QED
        BY <2>3, <2>5
<1>15. CASE contents[d] # NoContent
    <2> DEFINE c == [id |-> CompositionId(frame, d), fds |-> InComposition(d).fds,
                     bo |-> InComposition(d).bo]
    <2>1. live' = live \cup {c} /\ open' = open
        BY <1>5, <1>15
    <2>2. /\ c.fds = InComposition(d).fds
          /\ c.id.frame = frame /\ c.id.display = d
        BY DEF CompositionId
    <2> HIDE DEF c
    <2>3. c \notin live
        BY <1>7, <2>2 DEF BInv, Ownership, LiveUnplanned
    <2>4. /\ LiveType' /\ Cardinality(c.fds) \in Nat
          /\ Cardinality(CompositorFds') = Cardinality(CompositorFds) + Cardinality(c.fds)
        BY <1>11, <2>1, <2>2, <2>3, LiveAdd DEF BInv
    <2>5. LiveUnplanned'
        BY <1>2, <1>4, <2>1, <2>2 DEF BInv, Ownership, LiveUnplanned
    <2>6. Ownership'
        BY <1>8, <1>9, <1>10, <2>4, <2>5 DEF Ownership
    <2>7. Cardinality(c.fds) = closed
        BY <1>11, <2>2
    <2>8. open' = open
        BY <2>1
    <2>9. Balance'
        BY <1>9, <1>12, <1>13, <2>4, <2>7, <2>8 DEF BInv, Balance
    <2>10. QED
        BY <2>6, <2>9
<1>16. QED
    BY <1>14, <1>15

\* A composition that ends closes what it holds.
LEMMA EndBalance ==
    ASSUME BInv, NEW c \in live, CompositionEnds(c)
    PROVE  Ownership' /\ Balance'
<1>1. /\ live' = live \ {c} /\ open' = open - Cardinality(c.fds)
      /\ UNCHANGED <<pc, next, frame, release, retire, owned, planned>>
    BY DEF CompositionEnds, fenceVars
<1>2. /\ LiveType' /\ Cardinality(c.fds) \in Nat
      /\ Cardinality(CompositorFds') = Cardinality(CompositorFds) - Cardinality(c.fds)
    BY <1>1, LiveRemove DEF BInv
<1>3. Ownership'
    BY <1>1, <1>2
    DEF BInv, Ownership, OwnedType, PlannedWhen, OwnedWhen, ReleasedWhen, LiveUnplanned
<1>4. ReleaseFds' = ReleaseFds /\ RetireFds' = RetireFds /\ OwnFds' = OwnFds
    BY <1>1 DEF ReleaseFds, RetireFds, OwnFds
<1>5. /\ Cardinality(ReleaseFds) \in Nat /\ Cardinality(RetireFds) \in Nat
      /\ Cardinality(OwnFds) \in Nat /\ Cardinality(CompositorFds) \in Nat
      /\ Cardinality(planned) \in Nat
    BY CountedFinite, FS_CardinalityType DEF BInv
<1>6. Balance'
    BY <1>1, <1>2, <1>4, <1>5 DEF BInv, Balance
<1>7. QED
    BY <1>3, <1>6

\* Phase one: SurfaceFlinger has closed what the last call returned; the
\* acquire fences are taken over, and the virtual display's composition gets
\* its timeline, its fences and its acquire fence.
LEMMA SetBalance ==
    ASSUME BInv, NEW sent \in [Displays -> Contents \cup {NoContent}],
           NEW buf \in [Displays -> Buffers],
           NEW refuse \in SUBSET OutputsOf(sent[Virtual]), HwcSet(sent, buf, refuse)
    PROVE  Ownership' /\ Balance'
<1> DEFINE v == CompositionId(frame + 1, Virtual)
           vsent == sent[Virtual] # NoContent
           made == OutputsOf(sent[Virtual]) \ refuse
           vlayers == made \ {"retire"}
           vretire == "retire" \in made
           vfds == AcquireFds(sent[Virtual])
           c == [id |-> v, fds |-> {"timeline"} \cup vfds, bo |-> NoImport]
           own == {s \in Displays \X Fds : s[1] # Virtual /\ s[2] \in AcquireFds(sent[s[1]])}
<1>1. /\ pc = "idle" /\ frame \in Nat /\ frame' = frame + 1
      /\ release' = [d \in Displays |-> [l \in Layers |->
             IF d = Virtual /\ l \in made THEN Fence({v}) ELSE NoFd]]
      /\ retire' = [d \in Displays |->
             IF d = Virtual /\ vretire THEN Fence({v}) ELSE NoFd]
      /\ owned' = [d \in Displays |->
             IF d = Virtual THEN Nothing
             ELSE [Nothing EXCEPT !.fds = AcquireFds(sent[d])]]
      /\ live' = live \cup (IF vsent THEN {c} ELSE {})
      /\ open' = open - Returned + AcquiredFds(sent)
             + (IF vsent THEN 1 + Cardinality(made) ELSE 0)
      /\ pc' \in {"import", "return"} /\ next' = 1 /\ planned' = planned
    BY DEF HwcSet, BInv, IInv, CallType
<1>2. planned = {} /\ \A d \in Displays : owned[d].fds = {}
    BY <1>1 DEF BInv, Ownership, PlannedWhen, OwnedWhen
<1>3. /\ vlayers \subseteq Layers
      /\ ~vsent => made = {} /\ vlayers = {} /\ ~vretire /\ vfds = {}
    <2>1. sent[Virtual] \in Content
        <3>1. NoContent \in Content
            BY DEF NoContent, Content
        <3>2. QED
            BY <3>1, ContentAssumption, ConnectorFacts
    <2>2. QED
        BY <2>1 DEF Content, NoContent, AcquireFds, OutputsOf
<1>4. \A d \in Displays :
          /\ owned'[d] = [fds |-> owned'[d].fds, bo |-> owned'[d].bo]
          /\ owned'[d].fds = IF d = Virtual THEN {} ELSE AcquireFds(sent[d])
          /\ owned'[d].fds \subseteq {"acquire"}
    BY <1>1 DEF Nothing, AcquireFds
<1>5. OwnedType' /\ OwnedWhen'
    <2>1. OwnedType'
        BY <1>1, <1>4 DEF OwnedType
    <2>2. OwnedWhen'
        <3>1. \A d \in Displays : "handle" \notin owned'[d].fds
            BY <1>4
        <3>2. \A i \in 1 .. Len(Connectors) : Connectors[i] \in Displays
            BY ConnectorFacts
        <3>3. pc' # "idle" /\ next' = 1
            BY <1>1
        <3>4. QED
            BY <3>1, <3>2, <3>3 DEF OwnedWhen
    <2>3. QED
        BY <2>1, <2>2
<1>6. PlannedWhen' /\ LiveUnplanned'
    BY <1>1, <1>2 DEF PlannedWhen, LiveUnplanned
<1>7. ReleasedWhen'
    <2>1. \A d \in Physical : release'[d]["target"] = NoFd
        BY <1>1, ConnectorFacts DEF Layers
    <2>2. pc' # "plan" /\ ~NoFd.fd
        BY <1>1 DEF NoFd
    <2>3. QED
        BY <2>1, <2>2 DEF ReleasedWhen
<1>8. c.fds = vfds \cup {"timeline"} /\ c.id.frame = frame + 1 /\ c.fds \subseteq Fds
    BY DEF CompositionId, AcquireFds, Fds
<1>9. c \notin live
    <2>1. \A x \in live : x.id.frame \in Nat /\ x.id.frame <= frame
        BY DEF BInv, IInv, LiveFenced, CallType, Ids
    <2> HIDE DEF c
    <2>2. QED
        BY <1>1, <1>8, <2>1
<1> HIDE DEF c
<1>10. ReleaseFds' = {Virtual} \X vlayers
    <2>1. \A l \in Layers : l \in made <=> l \in vlayers
        BY DEF Layers
    <2> HIDE DEF vlayers, made
    <2>2. QED
        BY <1>1, <1>3, <2>1, ConnectorFacts DEF ReleaseFds, Fence, NoFd
<1>11. RetireFds' = IF vretire THEN {Virtual} ELSE {}
    BY <1>1, ConnectorFacts DEF RetireFds, Fence, NoFd
<1>12. OwnFds' = own
    BY <1>4 DEF OwnFds
<1>13. AcquiredFds(sent) = Cardinality(own \cup ({Virtual} \X vfds))
    <2> DEFINE f == [d \in Displays |-> AcquireFds(sent[d])]
    <2>1. vfds \subseteq Fds
        BY DEF AcquireFds, Fds
    <2>2. {s \in (DOMAIN f) \X Fds : s[2] \in f[s[1]]} = own \cup ({Virtual} \X vfds)
        BY <2>1, ConnectorFacts
    <2>3. QED
        BY <2>2 DEF AcquiredFds, Held
<1>14. own \cap ({Virtual} \X vfds) = {}
    OBVIOUS
<1>15. IsFiniteSet(own) /\ IsFiniteSet(vfds) /\ IsFiniteSet(vlayers)
    <2>1. own \subseteq Displays \X Fds /\ vfds \subseteq Fds
        BY DEF AcquireFds, Fds
    <2>2. IsFiniteSet(Displays \X Fds)
        BY FiniteFacts, FS_Product
    <2> HIDE DEF own, vfds, vlayers
    <2>3. QED
        BY <1>3, <2>1, <2>2, FiniteFacts, FS_Subset
<1>16. "timeline" \notin vfds
    BY DEF AcquireFds
<1>17. made = IF vretire THEN vlayers \cup {"retire"} ELSE vlayers
    OBVIOUS
<1>18. "retire" \notin vlayers
    OBVIOUS
<1> HIDE DEF own, vfds, vlayers, vsent, vretire, made
<1>19. /\ IsFiniteSet({Virtual} \X vfds)
       /\ Cardinality({Virtual} \X vfds) = Cardinality(vfds)
       /\ Cardinality({Virtual} \X vlayers) = Cardinality(vlayers)
    BY <1>15, CardSlice
<1>20. AcquiredFds(sent) = Cardinality(own) + Cardinality(vfds)
    <2> DEFINE vown == {Virtual} \X vfds
    <2>1. own \cap vown = {} /\ IsFiniteSet(vown) /\ Cardinality(vown) = Cardinality(vfds)
        BY <1>14, <1>19
    <2>2. AcquiredFds(sent) = Cardinality(own \cup vown)
        BY <1>13
    <2> HIDE DEF vown
    <2>3. QED
        <3>1. IsFiniteSet(own) /\ IsFiniteSet(vown) /\ own \cap vown = {}
            BY <1>15, <2>1
        <3>2. /\ IsFiniteSet(own \cup vown)
              /\ Cardinality(own \cup vown) = Cardinality(own) + Cardinality(vown)
            BY ONLY <3>1, CardAdd
        <3>3. QED
            BY ONLY <2>1, <2>2, <3>2
<1>21. Cardinality(vfds \cup {"timeline"}) = Cardinality(vfds) + 1
    BY <1>15, <1>16, FS_AddElement
<1>22. Cardinality(made) = Cardinality(vlayers) + Cardinality(RetireFds')
    <2>1. Cardinality(RetireFds') = IF vretire THEN 1 ELSE 0
        BY <1>11, FS_Singleton, FS_EmptySet
    <2>2. Cardinality(vlayers \cup {"retire"}) = Cardinality(vlayers) + 1
        BY <1>15, <1>18, FS_AddElement
    <2>3. Cardinality(vlayers) \in Nat
        BY <1>15, FS_CardinalityType
    <2>4. QED
        BY <1>17, <2>1, <2>2, <2>3
<1>23. /\ Cardinality(vfds) \in Nat /\ Cardinality(vlayers) \in Nat
       /\ Cardinality(own) \in Nat
       /\ Cardinality(ReleaseFds) \in Nat /\ Cardinality(RetireFds) \in Nat
       /\ Cardinality(CompositorFds) \in Nat /\ Cardinality(RetireFds') \in Nat
    <2>1. Cardinality(RetireFds') \in Nat
        BY <1>11, FS_Singleton, FS_EmptySet
    <2>2. QED
        BY <1>15, <2>1, CountedFinite, FS_CardinalityType DEF BInv
<1>24. open = Returned + Cardinality(CompositorFds) /\ Returned \in Nat
    <2>1. OwnFds = {}
        BY <1>2 DEF OwnFds
    <2>2. Cardinality(OwnFds) = 0 /\ Cardinality(planned) = 0
        BY <1>2, <2>1, FS_EmptySet
    <2>3. Returned = Cardinality(ReleaseFds) + Cardinality(RetireFds)
        BY DEF Returned, ReleaseFds, RetireFds
    <2>4. QED
        BY <1>23, <2>2, <2>3 DEF BInv, Balance
<1>25. /\ Cardinality(ReleaseFds') = Cardinality(vlayers)
       /\ Cardinality(OwnFds') = Cardinality(own)
       /\ Cardinality(planned') = 0
    BY <1>1, <1>2, <1>10, <1>12, <1>19, FS_EmptySet
<1>26. CASE vsent
    <2>1. live' = live \cup {c}
        BY <1>1, <1>26
    <2>2. /\ LiveType'
          /\ Cardinality(CompositorFds') = Cardinality(CompositorFds) + Cardinality(c.fds)
        BY <1>8, <1>9, <2>1, LiveAdd DEF BInv
    <2>3. Cardinality(c.fds) = Cardinality(vfds) + 1
        BY <1>8, <1>21
    <2>4. open' = open - Returned + AcquiredFds(sent) + (1 + Cardinality(made))
        BY <1>1, <1>26
    <2>5. Balance'
        BY ONLY <1>20, <1>23, <1>24, <1>25, <1>22, <2>2, <2>3, <2>4 DEF Balance
    <2>6. QED
        BY <1>5, <1>6, <1>7, <2>2, <2>5 DEF Ownership
<1>27. CASE ~vsent
    <2>1. live' = live /\ vlayers = {} /\ vfds = {} /\ ~vretire
        BY <1>1, <1>3, <1>27
    <2>2. LiveType' /\ CompositorFds' = CompositorFds
        BY <2>1 DEF BInv, Ownership, LiveType, CompositorFds
    <2>3. Cardinality(RetireFds') = 0 /\ Cardinality(vlayers) = 0 /\ Cardinality(vfds) = 0
        BY <1>11, <2>1, FS_EmptySet
    <2>4. open' = open - Returned + AcquiredFds(sent) + 0
        BY <1>1, <1>27
    <2>5. Balance'
        BY ONLY <1>20, <1>23, <1>24, <1>25, <2>2, <2>3, <2>4 DEF Balance
    <2>6. QED
        BY <1>5, <1>6, <1>7, <2>2, <2>5 DEF Ownership
<1>28. QED
    BY <1>26, <1>27

\* The destructors close what hwc_set owns, and a dummy is opened for every
\* output without a fence.
LEMMA ReturnBalance ==
    ASSUME BInv, NEW refuse \in SUBSET MissingOutputs, Return(refuse)
    PROVE  Ownership' /\ Balance'
<1> DEFINE newrel == {s \in (Sent \ {Virtual}) \X Layers :
                          /\ s[2] \in Answered(s[1]) /\ ~release[s[1]][s[2]].fd
                          /\ s \notin refuse}
           newret == {d \in Sent \ {Virtual} :
                          ~retire[d].fd /\ <<d, "retire">> \notin refuse}
<1>1. /\ pc = "return" /\ pc' = "idle"
      /\ release' = [d \in Displays |-> [l \in Layers |->
             IF l \in Answered(d) /\ d # Virtual
             THEN Checked(release[d][l], <<d, l>> \notin refuse)
             ELSE release[d][l]]]
      /\ retire' = [d \in Displays |->
             IF d \in Sent \ {Virtual}
             THEN Checked(retire[d], <<d, "retire">> \notin refuse)
             ELSE retire[d]]
      /\ owned' = [d \in Displays |-> Nothing]
      /\ open' = open - OwnedFds + Cardinality(MissingOutputs \ refuse)
      /\ UNCHANGED <<frame, planned, live>>
    BY DEF Return
<1>2. OwnedType' /\ \A d \in Displays : owned'[d].fds = {}
    <2>1. Nothing = [fds |-> Nothing.fds, bo |-> Nothing.bo] /\ Nothing.fds = {}
        BY DEF Nothing
    <2>2. QED
        BY <1>1, <2>1 DEF OwnedType
<1>3. Ownership'
    BY <1>1, <1>2
    DEF BInv, Ownership, LiveType, PlannedWhen, OwnedWhen, ReleasedWhen, LiveUnplanned
<1>4. Sent \subseteq Displays /\ \A d \in Displays : Answered(d) # {} => d \in Sent
    BY DEF Sent, Answered, NoContent
<1>5. ReleaseFds' = ReleaseFds \cup newrel
    <2>1. \A d \in Displays, l \in Layers : release'[d][l].fd <=>
              \/ release[d][l].fd
              \/ l \in Answered(d) /\ d # Virtual /\ <<d, l>> \notin refuse
        BY <1>1 DEF Checked, DummyFence, Fence
    <2>2. QED
        BY <1>4, <2>1 DEF ReleaseFds
<1>6. RetireFds' = RetireFds \cup newret
    <2>1. \A d \in Displays : retire'[d].fd <=>
              \/ retire[d].fd
              \/ d \in Sent \ {Virtual} /\ <<d, "retire">> \notin refuse
        BY <1>1 DEF Checked, DummyFence, Fence
    <2>2. QED
        BY <1>4, <2>1 DEF RetireFds
<1>7. ReleaseFds \cap newrel = {} /\ RetireFds \cap newret = {}
    BY DEF ReleaseFds, RetireFds
<1>8. IsFiniteSet(newrel) /\ IsFiniteSet(newret)
    <2>1. newrel \subseteq Displays \X Layers /\ newret \subseteq Displays
        BY <1>4
    <2>2. IsFiniteSet(Displays \X Layers) /\ IsFiniteSet(Displays)
        BY FiniteFacts, FS_Product
    <2> HIDE DEF newrel, newret
    <2>3. QED
        BY <2>1, <2>2, FS_Subset
<1>9. OwnedFds = Cardinality(OwnFds)
    <2> DEFINE f == [d \in Displays |-> owned[d].fds]
    <2>1. {s \in (DOMAIN f) \X Fds : s[2] \in f[s[1]]} = OwnFds
        BY DEF OwnFds
    <2>2. QED
        BY <2>1 DEF OwnedFds, Held
<1> DEFINE slots == newret \X {"retire"}
<1>10. MissingOutputs \ refuse = newrel \cup slots /\ newrel \cap slots = {}
    <2>1. \A d \in Displays : Answered(d) \subseteq Layers
        BY DEF Answered, BInv, IInv, CallType, Content
    <2>2. "retire" \notin Layers
        BY DEF Layers
    <2>3. newrel \cap slots = {}
        BY <2>2
    <2>4. \A o \in MissingOutputs \ refuse : o \in newrel \cup slots
        BY <1>4, <2>1 DEF MissingOutputs, Outputs
    <2>5. \A o \in newrel \cup slots : o \in MissingOutputs \ refuse
        BY <2>2 DEF MissingOutputs, Outputs
    <2>6. QED
        BY <2>3, <2>4, <2>5
<1> HIDE DEF newrel, newret
<1>11. IsFiniteSet(slots) /\ Cardinality(slots) = Cardinality(newret)
    BY <1>8, CardSlice
<1> HIDE DEF slots
<1>12. Cardinality(MissingOutputs \ refuse) = Cardinality(newret) + Cardinality(newrel)
    <2>1. /\ Cardinality(newrel \cup slots) = Cardinality(newrel) + Cardinality(slots)
          /\ Cardinality(newrel) \in Nat /\ Cardinality(slots) \in Nat
        BY ONLY <1>8, <1>10, <1>11, CardAdd
    <2>2. QED
        BY <1>10, <1>11, <2>1
<1>13. /\ Cardinality(ReleaseFds) \in Nat /\ Cardinality(RetireFds) \in Nat
       /\ Cardinality(OwnFds) \in Nat /\ Cardinality(CompositorFds) \in Nat
       /\ Cardinality(planned) \in Nat
       /\ Cardinality(newrel) \in Nat /\ Cardinality(newret) \in Nat
    BY <1>8, CountedFinite, FS_CardinalityType DEF BInv
<1>14. /\ Cardinality(ReleaseFds') = Cardinality(ReleaseFds) + Cardinality(newrel)
       /\ Cardinality(RetireFds') = Cardinality(RetireFds) + Cardinality(newret)
    BY <1>5, <1>6, <1>7, <1>8, CountedFinite, CardAdd DEF BInv
<1>15. Cardinality(OwnFds') = 0 /\ CompositorFds' = CompositorFds
    <2>1. OwnFds' = {}
        BY <1>2 DEF OwnFds
    <2>2. QED
        BY <1>1, <2>1, FS_EmptySet DEF CompositorFds
<1>16. planned' = planned /\ open' = open - OwnedFds + Cardinality(MissingOutputs \ refuse)
    BY <1>1
<1>17. Balance'
    BY <1>9, <1>12, <1>13, <1>14, <1>15, <1>16 DEF BInv, Balance
<1>18. QED
    BY <1>3, <1>17

\* One layer added: a descriptor is opened for it if that works, the
\* one gathered before is closed, and there is one at the end when it is open.
Moves(l, acc, added) ==
    /\ acc.opened \subseteq added.opened /\ added.opened \subseteq acc.opened \cup {l}
    /\ acc.closed \subseteq added.closed /\ added.closed \subseteq acc.closed \cup {l}
    /\ l \in added.closed => acc.fence.fd
    /\ l \in added.opened => ~acc.fence.fd \/ l \in added.closed
    /\ added.fence.fd <=>
           (acc.fence.fd /\ l \notin added.closed) \/ l \in added.opened

\* hwc_add_layer_to_retire_fence moves descriptors so.
LEMMA AddMoves ==
    ASSUME NEW works \in BOOLEAN, NEW l, NEW layer \in Fences, NEW acc,
           IsGathering(acc), l \notin acc.opened, l \notin acc.closed
    PROVE  Moves(l, acc, AddLayerToRetireFence(works, l, layer, acc))
<1> DEFINE added == AddLayerToRetireFence(works, l, layer, acc)
<1> SUFFICES Moves(l, acc, added)
    OBVIOUS
<1>1. acc.fence.fd \in BOOLEAN /\ layer.fd \in BOOLEAN
    BY DEF IsGathering, Fences
<1>2. CASE ~layer.fd
    <2>1. added = acc
        BY <1>2 DEF AddLayerToRetireFence
    <2> HIDE DEF added
    <2>2. QED
        BY <1>1, <2>1 DEF Moves
<1>3. CASE layer.fd
    <2>1. /\ added.fence.fd = works
          /\ added.opened = IF works THEN acc.opened \cup {l} ELSE acc.opened
          /\ added.closed = IF acc.fence.fd THEN acc.closed \cup {l} ELSE acc.closed
        BY <1>3 DEF AddLayerToRetireFence, Fence, NoFd
    <2> HIDE DEF added
    <2>2. CASE works /\ acc.fence.fd
        BY <1>1, <2>1, <2>2 DEF Moves
    <2>3. CASE works /\ ~acc.fence.fd
        BY <1>1, <2>1, <2>3 DEF Moves
    <2>4. CASE ~works
        BY <1>1, <2>1, <2>4 DEF Moves
    <2>5. QED
        BY <1>1, <2>2, <2>3, <2>4
<1>4. QED
    BY <1>1, <1>2, <1>3

\* The layers of a display, one after the other: mid says whether there is a
\* retire fence between them.
Balanced(before, mid, after, opened, closed) ==
    /\ opened \subseteq {"framebuffer", "target"}
    /\ closed \subseteq {"framebuffer", "target"}
    /\ "framebuffer" \in closed => before
    /\ "framebuffer" \in opened => ~before \/ "framebuffer" \in closed
    /\ mid <=> (before /\ "framebuffer" \notin closed) \/ "framebuffer" \in opened
    /\ "target" \in closed => mid
    /\ "target" \in opened => ~mid \/ "target" \in closed
    /\ after <=> (mid /\ "target" \notin closed) \/ "target" \in opened

\* The retire fence of a display between its two layers.
Mid(fails, d) ==
    LET g == Gathered(fails, d)
    IN  (retire[d].fd /\ "framebuffer" \notin g.closed) \/ "framebuffer" \in g.opened

\* What is opened and closed for a display is what it has in the end.
LEMMA GatheredMoves ==
    ASSUME FenceType, CallType, NEW fails, NEW d \in Displays
    PROVE  LET g == Gathered(fails, d)
           IN  Balanced(retire[d].fd, Mid(fails, d), g.fence.fd, g.opened, g.closed)
<1> DEFINE Add(l, acc) ==
               IF l \in Answered(d)
               THEN AddLayerToRetireFence(<<d, l>> \notin fails, l, release[d][l], acc)
               ELSE acc
           first == [fence |-> retire[d], opened |-> {}, closed |-> {}]
           second == Add("framebuffer", first)
           third == Add("target", second)
<1>1. /\ retire[d] \in Fences
      /\ release[d]["framebuffer"] \in Fences /\ release[d]["target"] \in Fences
    BY DEF FenceType, Layers
<1>2. /\ first.fence = retire[d] /\ first.opened = {} /\ first.closed = {}
      /\ IsGathering(first)
    BY <1>1 DEF IsGathering
<1> HIDE DEF first
<1>3. IsGathering(second) /\ Moves("framebuffer", first, second)
    <2>1. CASE "framebuffer" \in Answered(d)
        <3>1. second = AddLayerToRetireFence(<<d, "framebuffer">> \notin fails, "framebuffer",
                           release[d]["framebuffer"], first)
            BY <2>1
        <3> HIDE DEF second
        <3>2. "framebuffer" \notin first.opened /\ "framebuffer" \notin first.closed
            BY <1>2
        <3>3. IsGathering(second)
            BY <1>1, <1>2, <3>1, AddFacts
        <3>4. QED
            BY <1>1, <1>2, <3>1, <3>2, <3>3, AddMoves
    <2>2. CASE "framebuffer" \notin Answered(d)
        <3>1. second = first
            BY <2>2
        <3> HIDE DEF second
        <3>2. first.fence.fd \in BOOLEAN
            BY <1>1, <1>2 DEF Fences
        <3>3. QED
            BY <1>2, <3>1, <3>2 DEF Moves
    <2>3. QED
        BY <2>1, <2>2
<1> HIDE DEF second
<1>4. /\ second.opened \subseteq {"framebuffer"} /\ second.closed \subseteq {"framebuffer"}
    BY <1>2, <1>3 DEF Moves
<1>5. Moves("target", second, third)
    <2>1. CASE "target" \in Answered(d)
        <3>1. third = AddLayerToRetireFence(<<d, "target">> \notin fails, "target",
                          release[d]["target"], second)
            BY <2>1
        <3> HIDE DEF third
        <3>2. "target" \notin second.opened /\ "target" \notin second.closed
            BY <1>4
        <3>3. QED
            BY <1>1, <1>3, <3>1, <3>2, AddMoves
    <2>2. CASE "target" \notin Answered(d)
        <3>1. third = second
            BY <2>2
        <3> HIDE DEF third
        <3>2. second.fence.fd \in BOOLEAN
            BY <1>3 DEF Fences, IsGathering
        <3>3. QED
            BY <1>4, <3>1, <3>2 DEF Moves
    <2>3. QED
        BY <2>1, <2>2
<1>6. Gathered(fails, d) = third
    BY DEF Gathered, first, second
<1> HIDE DEF third
<1>7. /\ "framebuffer" \in third.opened <=> "framebuffer" \in second.opened
      /\ "framebuffer" \in third.closed <=> "framebuffer" \in second.closed
      /\ third.opened \subseteq {"framebuffer", "target"}
      /\ third.closed \subseteq {"framebuffer", "target"}
    BY <1>4, <1>5 DEF Moves
<1>8. Mid(fails, d) <=> second.fence.fd
    BY <1>2, <1>3, <1>6, <1>7 DEF Mid, Moves
<1>9. Balanced(retire[d].fd, Mid(fails, d), third.fence.fd, third.opened, third.closed)
    BY <1>2, <1>3, <1>5, <1>7, <1>8 DEF Moves, Balanced
<1>10. QED
    BY <1>6, <1>9

\* Some members of a set go and others come, some of them again.
LEMMA CardChange ==
    ASSUME NEW A, NEW R, NEW N, IsFiniteSet(A), IsFiniteSet(N), R \subseteq A,
           N \cap A \subseteq R
    PROVE  /\ IsFiniteSet((A \ R) \cup N)
           /\ Cardinality((A \ R) \cup N) = Cardinality(A) - Cardinality(R) + Cardinality(N)
           /\ Cardinality(A) \in Nat /\ Cardinality(R) \in Nat /\ Cardinality(N) \in Nat
<1> DEFINE B == A \ R
<1>1. /\ IsFiniteSet(B) /\ Cardinality(B) = Cardinality(A) - Cardinality(R)
      /\ Cardinality(A) \in Nat /\ Cardinality(R) \in Nat
    BY CardRemove
<1>2. B \cap N = {}
    OBVIOUS
<1> HIDE DEF B
<1>3. /\ IsFiniteSet(B \cup N)
      /\ Cardinality(B \cup N) = Cardinality(B) + Cardinality(N)
      /\ Cardinality(N) \in Nat
    BY <1>1, <1>2, CardAdd
<1>4. QED
    BY <1>1, <1>3 DEF B

\* What the layers of all displays hold is counted layer by layer.
LEMMA HeldLayers ==
    ASSUME NEW f, DOMAIN f = Displays,
           \A d \in Displays : f[d] \subseteq {"framebuffer", "target"}
    PROVE  LET first == {d \in Displays : "framebuffer" \in f[d]}
               second == {d \in Displays : "target" \in f[d]}
           IN  /\ IsFiniteSet(first) /\ IsFiniteSet(second)
               /\ Held(f, Layers) = Cardinality(first) + Cardinality(second)
<1> DEFINE first == {d \in Displays : "framebuffer" \in f[d]}
           second == {d \in Displays : "target" \in f[d]}
           A == first \X {"framebuffer"}
           B == second \X {"target"}
<1>1. {s \in Displays \X Layers : s[2] \in f[s[1]]} = A \cup B
    BY DEF Layers
<1>2. A \cap B = {}
    OBVIOUS
<1>3. IsFiniteSet(first) /\ IsFiniteSet(second)
    <2>1. first \subseteq Displays /\ second \subseteq Displays
        OBVIOUS
    <2> HIDE DEF first, second
    <2>2. QED
        BY <2>1, FiniteFacts, FS_Subset
<1>4. Held(f, Layers) = Cardinality(A \cup B)
    BY <1>1 DEF Held
<1> HIDE DEF first, second
<1>5. /\ IsFiniteSet(A) /\ Cardinality(A) = Cardinality(first)
      /\ IsFiniteSet(B) /\ Cardinality(B) = Cardinality(second)
    BY <1>3, CardSlice
<1> HIDE DEF A, B
<1>6. Cardinality(A \cup B) = Cardinality(A) + Cardinality(B)
    BY <1>2, <1>5, CardAdd
<1>7. Held(f, Layers) = Cardinality(first) + Cardinality(second)
    BY <1>4, <1>5, <1>6
<1>8. QED
    BY <1>3, <1>7 DEF first, second

\* The retire fences of all displays: what is opened stays or was closed for
\* the next.
LEMMA RetireBalance ==
    ASSUME BInv, NEW fails \in SUBSET Added, Retire(fails)
    PROVE  Ownership' /\ Balance'
<1> DEFINE G(d) == Gathered(fails, d)
           O1 == {d \in Displays : "framebuffer" \in G(d).opened}
           O2 == {d \in Displays : "target" \in G(d).opened}
           C1 == {d \in Displays : "framebuffer" \in G(d).closed}
           C2 == {d \in Displays : "target" \in G(d).closed}
           mid == {d \in Displays : Mid(fails, d)}
<1>1. /\ pc = "retire" /\ pc' = "return"
      /\ retire' = [d \in Displays |-> Gathered(fails, d).fence]
      /\ open' = open + OpenedFds(fails) - ClosedFds(fails)
      /\ UNCHANGED <<frame, release, owned, planned, live>>
    BY DEF Retire
<1>2. \A d \in Displays :
          Balanced(retire[d].fd, Mid(fails, d), G(d).fence.fd, G(d).opened, G(d).closed)
    BY GatheredMoves DEF BInv, IInv
<1>3. Ownership'
    BY <1>1
    DEF BInv, Ownership, OwnedType, LiveType, PlannedWhen, OwnedWhen, ReleasedWhen,
        LiveUnplanned
<1>4. /\ IsFiniteSet(O1) /\ IsFiniteSet(O2)
      /\ OpenedFds(fails) = Cardinality(O1) + Cardinality(O2)
    <2> DEFINE f == [d \in Displays |-> G(d).opened]
    <2>1. DOMAIN f = Displays /\ \A d \in Displays : f[d] \subseteq {"framebuffer", "target"}
        BY <1>2 DEF Balanced
    <2>2. /\ O1 = {d \in Displays : "framebuffer" \in f[d]}
          /\ O2 = {d \in Displays : "target" \in f[d]}
        OBVIOUS
    <2>3. OpenedFds(fails) = Held(f, Layers)
        BY DEF OpenedFds
    <2> HIDE DEF f, O1, O2
    <2>4. QED
        BY <2>1, <2>2, <2>3, HeldLayers
<1>5. /\ IsFiniteSet(C1) /\ IsFiniteSet(C2)
      /\ ClosedFds(fails) = Cardinality(C1) + Cardinality(C2)
    <2> DEFINE f == [d \in Displays |-> G(d).closed]
    <2>1. DOMAIN f = Displays /\ \A d \in Displays : f[d] \subseteq {"framebuffer", "target"}
        BY <1>2 DEF Balanced
    <2>2. /\ C1 = {d \in Displays : "framebuffer" \in f[d]}
          /\ C2 = {d \in Displays : "target" \in f[d]}
        OBVIOUS
    <2>3. ClosedFds(fails) = Held(f, Layers)
        BY DEF ClosedFds
    <2> HIDE DEF f, C1, C2
    <2>4. QED
        BY <2>1, <2>2, <2>3, HeldLayers
<1>6. /\ C1 \subseteq RetireFds /\ O1 \cap RetireFds \subseteq C1
      /\ mid = (RetireFds \ C1) \cup O1
    BY <1>2 DEF RetireFds, Balanced
<1>7. /\ C2 \subseteq mid /\ O2 \cap mid \subseteq C2
      /\ RetireFds' = (mid \ C2) \cup O2
    <2>1. \A d \in Displays : retire'[d] = G(d).fence
        BY <1>1
    <2>2. C2 \subseteq mid /\ O2 \cap mid \subseteq C2
        BY <1>2 DEF Balanced
    <2>3. RetireFds' = {d \in Displays : G(d).fence.fd}
        BY <2>1 DEF RetireFds
    <2>4. QED
        BY <1>2, <2>2, <2>3 DEF Balanced
<1> HIDE DEF O1, O2, C1, C2, mid
<1>8. /\ IsFiniteSet(mid)
      /\ Cardinality(mid) = Cardinality(RetireFds) - Cardinality(C1) + Cardinality(O1)
      /\ Cardinality(RetireFds) \in Nat /\ Cardinality(C1) \in Nat /\ Cardinality(O1) \in Nat
    <2>1. IsFiniteSet(RetireFds)
        BY CountedFinite DEF BInv
    <2>2. C1 \subseteq RetireFds /\ O1 \cap RetireFds \subseteq C1 /\ IsFiniteSet(O1)
        BY <1>4, <1>6
    <2>3. /\ IsFiniteSet((RetireFds \ C1) \cup O1)
          /\ Cardinality((RetireFds \ C1) \cup O1)
                 = Cardinality(RetireFds) - Cardinality(C1) + Cardinality(O1)
          /\ Cardinality(RetireFds) \in Nat /\ Cardinality(C1) \in Nat
          /\ Cardinality(O1) \in Nat
        BY ONLY <2>1, <2>2, CardChange
    <2>4. QED
        BY <1>6, <2>3
<1>9. /\ Cardinality(RetireFds') = Cardinality(mid) - Cardinality(C2) + Cardinality(O2)
      /\ Cardinality(C2) \in Nat /\ Cardinality(O2) \in Nat
    <2>1. IsFiniteSet(mid)
        BY <1>8
    <2>2. C2 \subseteq mid /\ O2 \cap mid \subseteq C2 /\ IsFiniteSet(O2)
        BY <1>4, <1>7
    <2>3. /\ IsFiniteSet((mid \ C2) \cup O2)
          /\ Cardinality((mid \ C2) \cup O2)
                 = Cardinality(mid) - Cardinality(C2) + Cardinality(O2)
          /\ Cardinality(mid) \in Nat /\ Cardinality(C2) \in Nat
          /\ Cardinality(O2) \in Nat
        BY ONLY <2>1, <2>2, CardChange
    <2>4. QED
        BY <1>7, <2>3
<1>10. /\ ReleaseFds' = ReleaseFds /\ OwnFds' = OwnFds /\ CompositorFds' = CompositorFds
       /\ planned' = planned
    BY <1>1 DEF ReleaseFds, OwnFds, CompositorFds
<1>11. /\ Cardinality(ReleaseFds) \in Nat /\ Cardinality(OwnFds) \in Nat
       /\ Cardinality(CompositorFds) \in Nat /\ Cardinality(planned) \in Nat
    BY CountedFinite, FS_CardinalityType DEF BInv
<1>12. open' = open + OpenedFds(fails) - ClosedFds(fails)
    BY <1>1
<1>13. Balance'
    BY <1>4, <1>5, <1>8, <1>9, <1>10, <1>11, <1>12 DEF BInv, Balance
<1>14. QED
    BY <1>3, <1>13

\* Every step keeps the balance.
LEMMA StepBInv == BInv /\ [Next]_vars => BInv'
<1> SUFFICES ASSUME BInv, [Next]_vars PROVE BInv'
    OBVIOUS
<1>1. IInv'
    BY StepIInv DEF BInv
<1> SUFFICES Ownership' /\ Balance'
    BY <1>1 DEF BInv
<1>2. OwnedType /\ CallType
    BY DEF BInv, Ownership, IInv
<1>3. CASE UNCHANGED vars
    <2>1. UNCHANGED <<pc, next, frame, release, retire, owned, planned, live, open>>
        BY <1>3 DEF vars, fenceVars
    <2>2. OwnedType'
        BY <1>2, <2>1 DEF OwnedType
    <2>3. QED
        BY <2>1, <2>2, QuietBalance
<1>4. CASE \E sent \in [Displays -> Contents \cup {NoContent}],
             buf \in [Displays -> Buffers] :
             \E refuse \in SUBSET OutputsOf(sent[Virtual]) :
                 HwcSet(sent, buf, refuse)
    BY <1>4, SetBalance
<1>5. CASE ImportSkips \/ ImportPrime \/ ImportFails \/ CopyHandleFails
             \/ CreateCompositionFails
    <2>1. UNCHANGED <<frame, release, retire, owned, planned, live, open>>
        BY <1>5 DEF ImportSkips, ImportPrime, ImportFails, CopyHandleFails,
                    CreateCompositionFails, fenceVars
    <2>2. OwnedType'
        BY <1>2, <2>1 DEF OwnedType
    <2>3. \/ pc \in Imports /\ next' \in {next, next + 1} /\ pc' \in Imports
          \/ pc \in Imports /\ pc' = "create"
          \/ pc \in Imports \cup {"create"} /\ pc' = "return"
        BY <1>5 DEF ImportSkips, ImportPrime, ImportFails, CopyHandleFails,
                    CreateCompositionFails, Fail, Advance, Imports
    <2>4. QED
        BY <2>1, <2>2, <2>3, QuietBalance
<1>6. CASE ImportAddFB
    <2>1. /\ UNCHANGED <<next, frame, release, retire, planned, live, open>>
          /\ pc = "addfb" /\ pc' = "copy"
          /\ owned' = [owned EXCEPT ![Display].bo =
                 [handle |-> prime, buffer |-> buffer[Display]]]
        BY <1>6 DEF ImportAddFB, fenceVars
    <2>2. \A d \in Displays :
              /\ owned'[d].fds = owned[d].fds
              /\ owned'[d] = [fds |-> owned'[d].fds, bo |-> owned'[d].bo]
        <3> SUFFICES ASSUME NEW d \in Displays
                     PROVE  /\ owned'[d].fds = owned[d].fds
                            /\ owned'[d] = [fds |-> owned'[d].fds, bo |-> owned'[d].bo]
            OBVIOUS
        <3>1. owned[d] = [fds |-> owned[d].fds, bo |-> owned[d].bo]
            BY <1>2 DEF OwnedType
        <3>2. CASE d = Display
            <4>1. owned'[d] = [owned[d] EXCEPT !.bo =
                      [handle |-> prime, buffer |-> buffer[Display]]]
                BY <1>2, <2>1, <3>2 DEF OwnedType
            <4>2. QED
                BY <3>1, <4>1
        <3>3. CASE d # Display
            <4>1. owned'[d] = owned[d]
                BY <1>2, <2>1, <3>3 DEF OwnedType
            <4>2. QED
                BY <3>1, <4>1
        <3>4. QED
            BY <3>2, <3>3
    <2>3. owned' = [d \in Displays |-> owned'[d]]
        BY <1>2, <2>1 DEF OwnedType
    <2>4. OwnedType'
        BY <1>2, <2>2, <2>3 DEF OwnedType
    <2>5. QED
        BY <2>1, <2>2, <2>4, QuietBalance DEF Imports
<1>7. CASE CopyHandle
    BY <1>7, CopyBalance
<1>8. CASE CreateComposition
    BY <1>8, CreateBalance
<1>9. CASE PlanDisplay
    BY <1>9, PlanBalance
<1>10. CASE PlanFails \/ QueueFails
    BY <1>10, FailBalance DEF PlanFails, QueueFails, Fail, fenceVars
<1>11. CASE QueueDisplay
    BY <1>11, QueueBalance
<1>12. CASE \E fails \in SUBSET Added : Retire(fails)
    BY <1>12, RetireBalance
<1>13. CASE \E refuse \in SUBSET MissingOutputs : Return(refuse)
    BY <1>13, ReturnBalance
<1>14. CASE \E c \in live : CompositionEnds(c)
    BY <1>14, EndBalance
<1>15. CASE \E d \in Physical : SetPower(d)
    <2>1. UNCHANGED <<pc, next, frame, release, retire, owned, planned, live, open>>
        BY <1>15 DEF SetPower, fenceVars
    <2>2. OwnedType'
        BY <1>2, <2>1 DEF OwnedType
    <2>3. QED
        BY <2>1, <2>2, QuietBalance
<1>16. QED
    BY <1>3, <1>4, <1>5, <1>6, <1>7, <1>8, <1>9, <1>10, <1>11, <1>12, <1>13,
       <1>14, <1>15
    DEF Next

\* For any connectors, contents and number of calls, and wherever a call fails:
\* hwc_set closes every descriptor it takes or opens exactly once, so that what
\* is open after it is what it returned and what compositions that have not
\* ended still hold.
THEOREM DescriptorsBalanced == Spec => []DescriptorsAccounted
<1>1. BInv => DescriptorsAccounted
    <2> SUFFICES ASSUME BInv, pc = "idle" PROVE open = Returned + LiveFds
        BY DEF DescriptorsAccounted
    <2>1. planned = {} /\ OwnFds = {}
        BY DEF BInv, Ownership, PlannedWhen, OwnedWhen, OwnFds
    <2>2. Cardinality(planned) = 0 /\ Cardinality(OwnFds) = 0
        BY <2>1, FS_EmptySet
    <2>3. Returned = Cardinality(ReleaseFds) + Cardinality(RetireFds)
        BY DEF Returned, ReleaseFds, RetireFds
    <2>4. LiveFds = Cardinality(CompositorFds)
        <3> DEFINE f == [c \in live |-> c.fds]
        <3>1. {s \in (DOMAIN f) \X Fds : s[2] \in f[s[1]]} = CompositorFds
            BY DEF CompositorFds
        <3>2. QED
            BY <3>1 DEF LiveFds, Held
    <2>5. /\ Cardinality(ReleaseFds) \in Nat /\ Cardinality(RetireFds) \in Nat
          /\ Cardinality(CompositorFds) \in Nat
        BY CountedFinite, FS_CardinalityType DEF BInv
    <2>6. QED
        BY <2>2, <2>3, <2>4, <2>5 DEF BInv, Balance
<1>2. QED
    BY <1>1, InitBInv, StepBInv, PTL DEF Spec
=============================================================================
