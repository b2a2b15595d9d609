----------------------------- MODULE FramePlan -----------------------------
(***************************************************************************)
(* How a frame is planned: SquashState's history, the assignment of layers *)
(* to planes in DrmDisplayComposition::Plan, the regions left to           *)
(* pre-composite, the planes DrmComposition disables and the release       *)
(* fences; and what the display shows of it.                               *)
(*                                                                         *)
(* SurfaceFlinger's thread plans a frame when it is queued, and with it    *)
(* updates the squash history.  The compositor renders and shows planned   *)
(* frames later, in order.  The screen is a set of cells.  A region of     *)
(* separate_rects is a set of cells under the same layers, and everything  *)
(* the code does to a region depends on its layers alone, so the state of  *)
(* a region is kept per cell.  Layers count from 1, bottom first; the code *)
(* counts from 0.                                                          *)
(***************************************************************************)
EXTENDS Integers, Sequences, FiniteSets, SequencesExt

CONSTANTS
    Cells,          \* the cells of the screen
    Geometries,     \* vectors of layers considered: see Layer
    PrimaryPlanes,  \* the display's primary planes, in DrmResources' order
    OverlayPlanes,  \* its overlay planes
    Supported,      \* the planes its crtc supports
    HistoryLength,  \* kHistoryLength
    Handles,        \* bound: buffers of a layer, used in turn
    MaxGeometries,  \* bound: geometry changes in a behaviour
    MaxPending      \* bound: frames planned and not yet shown

Layer == [display_frame : SUBSET Cells, protected : BOOLEAN]

ASSUME CellAssumption == IsFiniteSet(Cells)
ASSUME GeometryAssumption == Geometries \subseteq Seq(Layer)
ASSUME PlaneAssumption ==
    /\ PrimaryPlanes \in Seq(ToSet(PrimaryPlanes))
    /\ OverlayPlanes \in Seq(ToSet(OverlayPlanes))
    /\ \E i \in DOMAIN (PrimaryPlanes \o OverlayPlanes) :
           (PrimaryPlanes \o OverlayPlanes)[i] \in Supported
ASSUME BoundAssumption ==
    {HistoryLength, Handles, MaxGeometries, MaxPending} \subseteq Nat \ {0}

\* Sources of a plane that are not a layer.
PreComp == 0
Squash == -1

VARIABLES
    layers,         \* SurfaceFlinger's layers
    sf_handle,      \* and the buffer each one shows
    geometry_changed, \* must the next frame say that the layers changed?
    geometries,     \* geometry changes so far
    layer_refs,     \* SquashState: the layers of the region a cell is in
    change_history, \* its last changes, newest first
    squashed,       \* the cells of the squashed regions
    valid_history_,
    last_handles_,
    pending,        \* frames planned and not yet shown
    squash_buffer,  \* what the last squash framebuffer rendered holds
    squash_missed,  \* was the frame that was to render it dropped?
    shown,          \* the frame on the screen
    lit             \* the planes scanning something out

clientVars == <<layers, sf_handle, geometry_changed, geometries>>
squashVars == <<layer_refs, change_history, squashed, valid_history_,
                last_handles_>>
screenVars == <<squash_buffer, squash_missed, shown, lit>>
vars == <<clientVars, squashVars, pending, screenVars>>

-----------------------------------------------------------------------------
(***************************************************************************)
(* SquashState.                                                            *)
(***************************************************************************)
Covering(c) == {i \in DOMAIN layers : c \in layers[i].display_frame}

\* A region nothing covers is not a region.
Regions == {c \in Cells : layer_refs[c] # {}}

\* SquashState::Init.
SquashInit(refs, handles) ==
    /\ layer_refs' = refs
    /\ change_history' = [c \in Cells |-> [k \in 1 .. HistoryLength |-> FALSE]]
    /\ squashed' = {}
    /\ valid_history_' = 0
    /\ last_handles_' = handles

\* Mutant of ChangedRegions: protected layers count like others.
ChangedRegionsMutant(handles) ==
    {c \in Regions : \E i \in layer_refs[c] : last_handles_[i] # handles[i]}

\* GenerateHistory: nothing counts as changed when the number of layers is not
\* the expected one.
ChangedRegions(handles) ==
    IF Len(handles) # Len(last_handles_) THEN {}
    ELSE {c \in Regions : \E i \in layer_refs[c] :
              layers[i].protected \/ last_handles_[i] # handles[i]}

IsStable(c) ==
    /\ valid_history_ >= HistoryLength
    /\ \A k \in 1 .. HistoryLength : ~change_history[c][k]

\* StableRegionsWithMarginalHistory.
StableRegions(changed) == {c \in Regions \ changed : IsStable(c)}

\* RecordHistory; valid_history_ is only ever compared with the length.
RecordHistory(handles, changed) ==
    IF Len(handles) # Len(last_handles_)
    THEN UNCHANGED <<change_history, valid_history_, last_handles_>>
    ELSE /\ last_handles_' = handles
         /\ change_history' = [c \in Cells |-> [k \in 1 .. HistoryLength |->
                IF k = 1 THEN c \in changed ELSE change_history[c][k - 1]]]
         /\ valid_history_' = IF valid_history_ < HistoryLength
                              THEN valid_history_ + 1 ELSE valid_history_

\* Mutant of RenderSquash: only a region that joins makes a difference.
RenderSquashMutant(stable) == ~(stable \subseteq squashed)

\* RecordAndCompareSquashed: is another set of regions squashed than before?
RenderSquash(stable) == stable # squashed

-----------------------------------------------------------------------------
(***************************************************************************)
(* DrmDisplayComposition::Plan.                                            *)
(***************************************************************************)
\* How many of the indices come before one.
Rank(S, i) == Cardinality({j \in S : j < i})

\* A set of indices as the vector the code builds, in increasing order.
Ascending(S) == [k \in 1 .. Cardinality(S) |-> CHOOSE i \in S : Rank(S, i) = k - 1]

\* Mutant of Usable: the crtc is not asked.
UsableMutant(planes) == planes

Usable(planes) ==
    LET picked == Ascending({i \in DOMAIN planes : planes[i] \in Supported})
    IN  [k \in DOMAIN picked |-> planes[picked[k]]]

\* The order in which TakePlane hands the planes out.
TakeOrder == Usable(PrimaryPlanes) \o Usable(OverlayPlanes)

\* size_t arithmetic: one less than 0 is a huge number.
SizeMax == 1000
Dec(n) == IF n = 0 THEN SizeMax ELSE n - 1

Min2(a, b) == IF a < b THEN a ELSE b

\* Protected layers get first usage of planes.
ProtectedLayers ==
    LET all == {i \in DOMAIN layers : layers[i].protected} IN
    {i \in all : Rank(all, i) < Len(TakeOrder)}

\* Mutant of HoleOver: the last layer below the protected one stays.
HoleOverMutant(used, c) ==
    {j \in DOMAIN used : \E p \in ProtectedLayers :
        c \in layers[p].display_frame /\ j < p - 1}

\* The positions in used that a protected layer over the cell cuts out: the
\* code takes the protected layer's index in layers_ for a position in used.
HoleOver(used, c) ==
    {j \in DOMAIN used : \E p \in ProtectedLayers :
        c \in layers[p].display_frame /\ j <= p - 1}

\* SeparateLayers: what is pre-composited at each cell.
SeparateLayers(used, exclude) ==
    LET At(c) == {used[j] : j \in {k \in DOMAIN used \ HoleOver(used, c) :
                      c \in layers[used[k]].display_frame}}
    IN  [c \in Cells |-> IF c \in exclude THEN {} ELSE At(c)]

\* Is there a region to pre-composite?  One that only a protected layer covers
\* counts, although nothing is drawn there.
HasRegions(used, exclude) ==
    \E c \in Cells \ exclude : \E i \in ToSet(used) \cup ProtectedLayers :
        c \in layers[i].display_frame

\* The layers that the squashed regions do not contain entirely.
NotSquashed(S, stable) ==
    {i \in S : Cardinality({c \in stable : i \in layer_refs[c]})
                   < Cardinality(layers[i].display_frame)}

\* Mutant of KeepForPreComp: no plane is kept.
KeepForPreCompMutant(n, planes) == planes

\* Layers that do not all get a plane cost one more, for pre-compositing.
KeepForPreComp(n, planes) == IF n > planes THEN Dec(planes) ELSE planes

\* Which source goes on which plane: the layers on planes of their own by
\* increasing index, then the pre-composited ones, then the squashed ones.  The
\* protected layers come first; when they leave no plane the rest is not shown.
Assign(stable) ==
    LET protected == ProtectedLayers
        all == DOMAIN layers \ protected
        left == Len(TakeOrder) - Cardinality(protected)
        some == NotSquashed(all, stable)
        squash == stable # {} /\ (left > 1 \/ some = {})
        remaining == Ascending(IF squash THEN some ELSE all)
        planes == KeepForPreComp(Len(remaining), IF squash THEN Dec(left) ELSE left)
        hw == Min2(Len(remaining), planes)
        used == SubSeq(remaining, hw + 1, Len(remaining))
    IN  IF left = 0 /\ all # {}
        THEN [sources |-> Ascending(protected), used |-> <<>>,
              regions |-> FALSE, pre_comp |-> [c \in Cells |-> {}]]
        ELSE [sources |-> Ascending(protected \cup ToSet(SubSeq(remaining, 1, hw)))
                              \o (IF used = <<>> THEN <<>> ELSE <<PreComp>>)
                              \o (IF squash THEN <<Squash>> ELSE <<>>),
              used |-> used,
              regions |-> HasRegions(used, stable),
              pre_comp |-> SeparateLayers(used, stable)]

\* The planes that get a source, in order.
Planes(sources) == SubSeq(TakeOrder, 1, Min2(Len(sources), Len(TakeOrder)))

\* The first primary plane that no source got.
SparePrimary(sources) ==
    LET primary == Usable(PrimaryPlanes)
        spare == {k \in DOMAIN primary : primary[k] \notin ToSet(Planes(sources))}
    IN  IF spare = {} THEN {} ELSE {primary[Min(spare)]}

\* Mutant of Disabled: overlay planes are left alone.
DisabledMutant(sources) == SparePrimary(sources)

\* DisableUnusedPlanes: one primary plane, and every overlay plane, of those
\* the sources left.
Disabled(sources) ==
    SparePrimary(sources)
        \cup (ToSet(Usable(OverlayPlanes)) \ ToSet(Planes(sources)))

\* What a frame reads its layers for.
ReadBySquash(regions) == {i \in DOMAIN layers : \E c \in regions : i \in layer_refs[c]}
ReadByPreComp(plan) == {i \in DOMAIN layers : \E c \in Cells : i \in plan.pre_comp[c]}
ReadByPlane(plan) == DOMAIN layers \cap ToSet(plan.sources)

\* Mutant of CreateAndAssignReleaseFences: the point for the end of squashing is
\* taken after the fences of the layers to pre-composite.
CreateAndAssignReleaseFencesMutant(regions, plan) ==
    LET comp == ReadByPlane(plan)
        pre_comp == ReadByPreComp(plan) \ comp
        squash == ReadBySquash(regions) \ ReadByPreComp(plan)
        done == Cardinality(squash) + Cardinality(pre_comp)
    IN  [squash_done |-> done, pre_comp_done |-> done,
         timeline |-> done + Cardinality(comp),
         fence |-> [i \in DOMAIN layers |->
             IF i \in comp THEN done + Rank(comp, i) + 1
             ELSE IF i \in pre_comp THEN Cardinality(squash) + Rank(pre_comp, i) + 1
             ELSE IF i \in squash THEN Rank(squash, i) + 1 ELSE 0]]

\* CreateAndAssignReleaseFences: the point on the frame's timeline where each
\* layer is released, 0 for a layer that gets no fence here and so a signalled
\* one, and the points to move the timeline to when squashing and when
\* pre-compositing is done.  The order within a stage is arbitrary in the code.
\* A layer that is squashed and on a plane gets two fences: the later replaces
\* the earlier.
CreateAndAssignReleaseFences(regions, plan) ==
    LET comp == ReadByPlane(plan)
        pre_comp == ReadByPreComp(plan) \ comp
        squash == ReadBySquash(regions) \ ReadByPreComp(plan)
        squash_done == Cardinality(squash)
        pre_comp_done == squash_done + Cardinality(pre_comp)
    IN  [squash_done |-> squash_done, pre_comp_done |-> pre_comp_done,
         timeline |-> pre_comp_done + Cardinality(comp),
         fence |-> [i \in DOMAIN layers |->
             IF i \in comp THEN pre_comp_done + Rank(comp, i) + 1
             ELSE IF i \in pre_comp THEN squash_done + Rank(pre_comp, i) + 1
             ELSE IF i \in squash THEN Rank(squash, i) + 1 ELSE 0]]

-----------------------------------------------------------------------------
\* A planned frame.
Frame(handles, stable, render) ==
    LET plan == Assign(stable)
        regions == IF render THEN stable ELSE {}
    IN  [layers |-> layers, handles |-> handles, plan |-> plan,
         squash_regions |-> [c \in regions |-> layer_refs[c]],
         disabled |-> Disabled(plan.sources),
         release |-> CreateAndAssignReleaseFences(regions, plan)]

NoFrame ==
    [layers |-> <<>>, handles |-> <<>>,
     plan |-> [sources |-> <<>>, used |-> <<>>, regions |-> FALSE,
               pre_comp |-> [c \in Cells |-> {}]]]

Fresh(g) == [i \in DOMAIN g |-> 0]

Init ==
    /\ layers = <<>>
    /\ sf_handle = <<>>
    /\ geometry_changed = FALSE
    /\ geometries = 0
    /\ layer_refs = [c \in Cells |-> {}]
    /\ change_history = [c \in Cells |-> [k \in 1 .. HistoryLength |-> FALSE]]
    /\ squashed = {}
    /\ valid_history_ = 0
    /\ last_handles_ = <<>>
    /\ pending = <<>>
    /\ squash_buffer = [c \in Cells |-> {}]
    /\ squash_missed = FALSE
    /\ shown = NoFrame
    /\ lit = {}

\* Squashing is considered from three planes on.
Squashes == Len(TakeOrder) >= 3

\* SurfaceFlinger has other layers to show.
SetGeometry(g) ==
    /\ geometries < MaxGeometries
    /\ layers # g
    /\ geometries' = geometries + 1
    /\ layers' = g
    /\ sf_handle' = Fresh(g)
    /\ geometry_changed' = TRUE
    /\ UNCHANGED <<squashVars, pending, screenVars>>

\* QueueComposition for the first frame with these layers.
PlanChanged ==
    /\ geometry_changed
    /\ Len(pending) < MaxPending
    /\ geometry_changed' = FALSE
    /\ IF Squashes
       THEN SquashInit([c \in Cells |-> Covering(c)], sf_handle)
       ELSE UNCHANGED squashVars
    /\ pending' = Append(pending, Frame(sf_handle, {}, FALSE))
    /\ UNCHANGED <<layers, sf_handle, geometries, screenVars>>

\* QueueComposition for a frame with new buffers for some of the layers.
PlanUnchanged(updated) ==
    LET handles == [i \in DOMAIN layers |->
                        IF i \in updated THEN (sf_handle[i] + 1) % Handles
                                         ELSE sf_handle[i]]
        changed == ChangedRegions(handles)
        stable == IF Squashes THEN StableRegions(changed) ELSE {}
    IN
    /\ geometries > 0 /\ ~geometry_changed
    /\ Len(pending) < MaxPending
    /\ sf_handle' = handles
    /\ IF Squashes
       THEN /\ RecordHistory(handles, changed)
            /\ squashed' = stable
            /\ UNCHANGED layer_refs
       ELSE UNCHANGED squashVars
    /\ pending' = Append(pending, Frame(handles, stable, RenderSquash(stable)))
    /\ UNCHANGED <<layers, geometry_changed, geometries, screenVars>>

\* PrepareFrame and the commit.  The squash framebuffer is rendered first; a
\* plane for pre-compositing without a region to pre-composite is an error.
Show ==
    /\ pending # <<>>
    /\ pending' = Tail(pending)
    /\ LET f == Head(pending) IN
       /\ squash_buffer' =
              IF DOMAIN f.squash_regions = {} THEN squash_buffer
              ELSE [c \in Cells |-> IF c \notin DOMAIN f.squash_regions THEN {}
                        ELSE {<<i, f.handles[i]>> : i \in f.squash_regions[c]}]
       /\ squash_missed' = (squash_missed /\ DOMAIN f.squash_regions = {})
       /\ IF f.plan.used # <<>> /\ ~f.plan.regions
          THEN UNCHANGED <<shown, lit>>
          ELSE /\ shown' = [layers |-> f.layers, handles |-> f.handles,
                            plan |-> f.plan]
               /\ lit' = (lit \ f.disabled) \cup ToSet(Planes(f.plan.sources))
    /\ UNCHANGED <<clientVars, squashVars>>

\* The display was switched off, or a framebuffer could not be had for the
\* frame: it is gone, and the history it left in SquashState stays.
Drop ==
    /\ pending # <<>>
    /\ pending' = Tail(pending)
    /\ squash_missed' = (squash_missed \/ DOMAIN Head(pending).squash_regions # {})
    /\ UNCHANGED <<clientVars, squashVars, squash_buffer, shown, lit>>

Next ==
    \/ \E g \in Geometries : SetGeometry(g)
    \/ PlanChanged
    \/ \E updated \in SUBSET DOMAIN layers : PlanUnchanged(updated)
    \/ Show
    \/ Drop

Spec == Init /\ [][Next]_vars

-----------------------------------------------------------------------------
(***************************************************************************)
(* Properties.                                                             *)
(***************************************************************************)
TypeOK ==
    /\ layers \in Geometries \cup {<<>>}
    /\ DOMAIN sf_handle = DOMAIN layers
    /\ geometry_changed \in BOOLEAN
    /\ geometries \in 0 .. MaxGeometries
    /\ layer_refs \in [Cells -> SUBSET Nat]
    /\ change_history \in [Cells -> [1 .. HistoryLength -> BOOLEAN]]
    /\ squashed \subseteq Cells
    /\ valid_history_ \in 0 .. HistoryLength
    /\ Len(pending) <= MaxPending
    /\ squash_missed \in BOOLEAN
    /\ lit \subseteq Supported

\* The layers over a cell.
Over(f, c) == {i \in DOMAIN f.layers : c \in f.layers[i].display_frame}

\* The layers that a plane shows at a cell.
DrawnAt(f, k, c) ==
    CASE f.plan.sources[k] = PreComp -> f.plan.pre_comp[c]
      [] f.plan.sources[k] = Squash -> {}
      [] OTHER -> {f.plan.sources[k]} \cap Over(f, c)

\* The planes without the squash framebuffer, which is above them all, show
\* the layers over the cell, each once and in order.
PlanesShow(f, c) ==
    /\ UNION {DrawnAt(f, k, c) : k \in DOMAIN f.plan.sources} = Over(f, c)
    /\ \A k, m \in DOMAIN f.plan.sources : k < m =>
           \A i \in DrawnAt(f, k, c), j \in DrawnAt(f, m, c) : i < j

\* The picture that a frame makes with this in the squash framebuffer.
RightWith(buffer, f) ==
    \A c \in Cells :
        IF Squash \in ToSet(f.plan.sources) /\ buffer[c] # {}
        THEN buffer[c] = {<<i, f.handles[i]>> : i \in Over(f, c)}
        ELSE PlanesShow(f, c)

HasProtected(f) == \E i \in DOMAIN f.layers : f.layers[i].protected

\* Without protected layers the screen shows, at every cell, the layers over
\* the cell with their present buffers, each once and in order: from the
\* squash framebuffer where it has something there, else from the planes and
\* the pre-composition.  This is so unless the frame that was to render the
\* squash framebuffer was dropped and no later one rendered it.
PictureRight ==
    ~HasProtected(shown) /\ ~squash_missed => RightWith(squash_buffer, shown)

Frames == ToSet(pending)

\* A protected layer is never read by the GPU.
ProtectedNeverRendered ==
    \A f \in Frames : \A i \in DOMAIN f.layers : f.layers[i].protected =>
        /\ \A c \in Cells : i \notin f.plan.pre_comp[c]
        /\ \A c \in DOMAIN f.squash_regions : i \notin f.squash_regions[c]

\* What is pre-composited goes on a plane above the protected layers, so the
\* hole that SeparateLayers cuts for a protected layer must be deep enough: at
\* no cell of the layer is a layer below it drawn over it.
ProtectedNotCovered ==
    \A f \in Frames : \A p \in DOMAIN f.layers : f.layers[p].protected =>
        \A c \in f.layers[p].display_frame : \A i \in f.plan.pre_comp[c] : i > p

\* Planes are counted so that no source is left without one: squashing,
\* pre-compositing and protected layers reserve enough, and not too many.
PlanesSuffice == \A f \in Frames : Len(f.plan.sources) <= Len(TakeOrder)

\* No plane goes on showing what an earlier frame put there, except primary
\* planes after the first one that the frame on the screen leaves unused: of
\* those DisableUnusedPlanes disables one only.
StaleOnlyPrimary ==
    LET on == ToSet(Planes(shown.plan.sources)) IN
    /\ on \subseteq lit
    /\ lit \ on \subseteq ToSet(Usable(PrimaryPlanes)) \ SparePrimary(shown.plan.sources)

\* Where ApplySquash and ApplyPreComposite have moved a frame's timeline when
\* its layers are read to pre-composite and when they are on the screen.
WhenPreComposited(f) ==
    IF DOMAIN f.squash_regions = {} THEN 0 ELSE f.release.squash_done
WhenShown(f) ==
    IF f.plan.used # <<>> /\ f.plan.regions THEN f.release.pre_comp_done
    ELSE WhenPreComposited(f)

\* A layer's buffer is released only after its last use in the frame, and then it
\* is: the timeline, moved as far as the stages before, has not reached the
\* layer's fence while a stage that reads the layer is to come, and the end of
\* the timeline reaches every fence.
ReleaseAfterLastUse ==
    \A f \in Frames : \A i \in DOMAIN f.layers :
        /\ i \in ToSet(f.plan.sources) => f.release.fence[i] > WhenShown(f)
        /\ (\E c \in Cells : i \in f.plan.pre_comp[c])
               => f.release.fence[i] > WhenPreComposited(f)
        /\ (\E c \in DOMAIN f.squash_regions : i \in f.squash_regions[c])
               => f.release.fence[i] > 0
        /\ f.release.fence[i] <= f.release.timeline
=============================================================================
