# A TLA+ verification of drm_hwcomposer

drm_hwcomposer is an Android hardware composer: SurfaceFlinger gives it the
layers of each frame, it decides which of them the display hardware shows on
planes of its own and which have to be composited with OpenGL first, and it
commits the result to the kernel with atomic modesetting. The code is small, but
nearly everything in it runs on four or more threads that share state under
several locks, and the buffers it handles are released by fences that are
signalled by a thread other than the one that created them. That is what these
modules are about.

Contents: [the system](#the-system), [the modules](#the-modules),
[the runs](#the-runs), [bounds](#bounds), [fairness](#fairness),
[proofs](#proofs), [what the checks found](#what-the-checks-found),
[what is not modelled](#what-is-not-modelled), [plan](#plan).

## The system

| component | state | operations | talks to |
|---|---|---|---|
| `Worker` (worker.cpp) | a thread, a mutex, a condition variable, `exit_` | `Signal`, `WaitForSignalOrExitLocked`, `Exit` | base class of all threads below |
| `DrmCompositor`, `DrmComposition` | `frame_no_`, one composition per connector, the free planes | `CreateComposition`, `Plan`, `DisableUnusedPlanes`, `QueueComposition` | called by HAL threads; feeds every `DrmDisplayCompositor` |
| `DrmDisplayComposition` | layers, planes, regions, a sync timeline | `SetLayers`, `SetDpmsMode`, `SetDisplayMode`, `Plan`, the `Signal...Done` calls | owned by whichever thread holds it |
| `DrmDisplayCompositor` | `active_`, `composite_queue_`, `active_composition_`, `mode_`, framebuffers | `QueueComposition`, `Composite`, `SquashAll`, `ApplyFrame` | two workers of its own, GL, the kernel |
| `DrmCompositorWorker` | `did_squash_all_` | `Routine` | calls `Composite` and `SquashAll` |
| `FrameWorker` | `frame_queue_` | `QueueFrame`, `Routine` | calls `ApplyFrame` |
| `SquashState` | regions and their change history | `Init`, `GenerateHistory`, `RecordHistory`, ... | used by `Plan` |
| `separate_rects` | none | `separate_rects_64` | used by `Plan` and `SquashState` |
| `VSyncWorker` | `enabled_`, `procs_`, `last_timestamp_` | `VSyncControl`, `SetProcs`, `Routine` | calls SurfaceFlinger back |
| `VirtualCompositorWorker` | a queue, a sync timeline | `QueueComposite`, `Routine`, `Compose` | called by `hwc_set` |
| `DrmEventListener`, `DrmHotplugHandler` | the uevent socket | `Routine`, `HandleEvent` | queues MODESET and DPMS compositions |
| hwcomposer HAL | displays, configurations | `hwc_prepare`, `hwc_set`, `hwc_set_power_mode`, ... | everything |
| `DrmResources` and the DRM objects | connectors, encoders, crtcs, planes | `Init`, `CreateDisplayPipe`, `SetDisplayActiveMode`, `SetDpmsMode` | the kernel |
| `GLWorkerCompositor`, importers | GL objects, buffer handles, reference counts | `Composite`, `ImportBuffer`, `ReleaseBuffer` | GL, the kernel |

A frame takes this way. `hwc_set` builds a `DrmComposition`, plans it and calls
`DrmDisplayCompositor::QueueComposition` for each connector. The compositor
worker pops it, renders what has to be rendered, asks the kernel with a test
commit whether it can show it, squashes it into one layer if not, and pushes it
on `frame_queue_`. The frame worker commits it, signals the release fences of
the composition it replaced, and makes it `active_composition_`. Power and mode
changes come the same way but are applied by the compositor worker at once. When
half a second passes without work the compositor worker squashes the active
composition and commits it itself.

What is hard about it, and what makes each part correct:

- the two queues: no signal is lost, nothing is overtaken, and callers that wait
  for room get it;
- the fences: a buffer is not released while it is shown or still to be shown,
  and every fence is signalled by somebody even when frames are dropped at any
  point of their preparation;
- the framebuffers: GL never draws into one that is on the screen, and the wait
  for a free one ends;
- the two threads in `ApplyFrame`: what one disables is what it signals, and the
  screen does not go back to an older frame;
- modes: the display ends in the mode asked for last, and the kernel's property
  blobs are neither leaked nor used after they are destroyed;
- planning: the planes, the pre-composition and the squash framebuffer together
  show every layer once and in order, planes suffice, none is left on that should
  be off, and a layer's buffer is released after its last use;
- the geometry: regions cover what the layers cover, and nothing twice;
- `hwc_set`: whatever fails, every fence the sync driver gives is returned, none
  signals early, and every descriptor is closed once;
- vsync: callbacks stop soon after they are turned off, timestamps advance;
- shutdown: `Exit` returns.

`PROJECT.json` lists the hazards line by line with the properties that cover
them, or why none does.

One remark on this fork: `hwc_prepare` hands every layer to the framebuffer
target, so through `hwc_set` a display has at most one layer. Pre-composition,
squashing and protected layers are then only reached through the interfaces of
`DrmDisplayComposition` and `DrmDisplayCompositor`, which is what `FramePlan`,
`SeparateRects` and `FramePipeline` model. `HwcDevice` models what `hwc_set` sends.

## The modules

| module | models | state and actions |
|---|---|---|
| `DisplayCompositor` | `DrmDisplayCompositor`'s queues and threads | variables carry the names of the members; `hal` is where each calling thread is in `QueueComposition`, `pc`, `cond` and `hand` are where each worker is, its condition wait and the composition it holds; DPMS and MODESET compositions only pass through the queue |
| `FrameStream` | nothing: the abstract specification of the above | accepted compositions in order, and the frame being applied |
| `FramePipeline` | the life of a frame from `PrepareFrame` to the swap in `ApplyFrame` | `fence` says whose timeline guards each framebuffer, `shows` which framebuffers are on a composition's planes, `signalled` the compositions whose timeline has ended (a destroyed one included), `deref` the pointer `DisablePlanes` was called with, `scanout` what the hardware shows; `faults` is history |
| `VirtualCompositor` | `VirtualCompositorWorker` | timeline points, the queue, the worker |
| `VSyncWorker` | `VSyncWorker` | the members, `pc` and `wait` for where `Routine` is and what it waits for, `clock`; `told`, `late` and `stale` record the callbacks made |
| `SeparateRects` | `separate_rects` | the loop over the vertical edges: a step takes one edge, `started_rects` and `out` are the code's |
| `FramePlan` | `SquashState`, `DrmDisplayComposition::Plan`, `DrmComposition::DisableUnusedPlanes` | the members of `SquashState` per cell of the screen, frames that are planned and not shown yet with the timeline points of their release fences, the squash framebuffer's contents, the screen |
| `ModeSet` | `DrmConnector`'s modes, the hotplug handler, the configuration calls, `ModeState`, `CommitFrame`'s mode set | the members, the kernel's blobs and mode (`k_...`), where each thread is in `UpdateModes` (`update`), what it still has to queue, where `CommitFrame` is |
| `HwcDevice` | `hwc_set`, `DrmCompositor::QueueComposition`, `DrmGenericImporter`, the descriptor classes | `pc` and `next` are where the call is, `owned` what it would release on return, `release` and `retire` the fences returned, `refused` and `unmerged` the fences that could not be made or merged, `gem` the kernel's handles, `open` the number of descriptors open; what a layer holds is a set of kinds of descriptor |
| `MC...` | - | instances for TLC |
| `...Proofs` | - | theorems about the module of that name: all but `FrameStream`, whose implementation is proved in `DisplayCompositorProofs` |

How code becomes actions:

- A critical section that only touches what its mutex protects is one step. Where
  the code holds a lock over several steps (`SquashAll`) other threads' steps
  that need it are disabled (`LockFree`). Where it acts on something after the
  lock was released, or never takes one (`HaveQueuedComposites` and the wait
  after it, `active_`, `needs_modeset`, `active_composition_` in `ApplyFrame`,
  `last_timestamp_` in `SyntheticWaitVBlank`), each access is a step of its own.
- A condition variable is modelled by what waits on it: a signal without a waiter
  leaves no trace, a timed wait can time out, and a wait may return by itself if
  the constant allows it. `pthread_mutex_*` calls do not fail.
- Errors of ioctls, GL and fence creation are alternatives of the step that
  makes the call, enabled by `IoctlFailures` or `Failures`, followed by exactly
  what the code does then. In `HwcDevice` they are always enabled: planning,
  queueing, `sync_merge`, the `dup` of a fence, the dummy fence of
  `CheckedOutputFd` and the fences of the virtual display can each fail, the last
  two at most `MaxRefused` times in a call.
- Where the code dereferences null or reads past the end (a first commit that
  fails, an old squash framebuffer without a buffer, the null frame after a
  spurious wakeup of the frame worker, `begin()` of an empty `modes_`) the process
  ends and the model has no step.
- In `FramePipeline` a skipped commit and an error reported after the commit are
  always possible with `Failures`. In the code both need a modeset pending, so the
  model has more behaviours than the code, and what holds of it holds of the code.
- `UpdateModes` is split at its blocking ioctl: the list is fetched in one step,
  named and exchanged in later ones, by SurfaceFlinger's thread and the listener's
  at the same time.
- In `FramePipeline` a plan is a record of five flags: is the squash framebuffer
  rendered, is it shown, are there pre-composition regions, can the frame be
  squashed, did the geometry change. `FramePlan` is where plans come from, and
  `PlansAsAssumed` proves there what `PlanAssumption` says. That a plan shows the
  old squash framebuffer does not mean that it was rendered: the frame that was to
  do so may have been refused while the display was off. `allocated` says which
  squash framebuffers have a buffer at all.
- All fences of a composition that matter to the pipeline are signalled together
  by `SignalCompositionDone`, which the destructor calls too, so one set of
  compositions stands for all timelines. (Fences of layers that were only
  rendered from are signalled after the rendering; they guard nothing here.)
- A region of `FramePlan` is the set of cells under the same layers. Everything
  the code does to a region depends on its layers alone, so its state is kept
  per cell; that regions are what `Covering` says is what `SeparateRects` shows.
- Layer and rectangle ids count from 1. Time in `VSyncWorker` is in units finer
  than the kernel's microsecond, of which there are `Granule` in one.
- Three variables record that a known flaw of the code has struck, so that the
  properties can speak of the behaviours without it. No action reads them.
  - `squash_missed` (`FramePlan`): the frame that was to render the squash
    framebuffer was dropped.
  - `faults` (`ModeSet`): a mode ("mode") or a blob ("blob") may have been lost. A
    MODESET composition ran inside a `CommitFrame`, the blob could not be created,
    the commit was skipped, or DPMS failed after a mode set.
  - `faults` (`FramePipeline`): SquashAll began while the frame worker had frames to
    apply ("overlap"), a commit was skipped ("skipped"), or a frame was
    destroyed after its commit because of a later error ("late"). The next frame
    that a worker applies alone, and that is then on the screen or leaves it empty,
    clears it (`Settled`). So the properties promise recovery, too: whatever
    happened before, from such a frame on they hold again.

`FramePipeline`, `DisplayCompositor` and `ModeSet` look at the same threads from
three sides: framebuffers and fences; callers, condition variables and power; modes
and blobs. `HwcDevice` looks at the callers and lets compositions end at any time.

Operators whose names end in `Mutant` are the definition beside them with a
plausible mistake; no specification uses them. They serve to show that the
properties notice such mistakes: replace the definition's body by its mutant and
TLC reports the property.

## The runs

| run | result | states | what it shows |
|---|---|---|---|
| `display` | pass | 199,808 | `QueueBounded`, `FrameSignalNotLost`; the refinement `FramesInOrder` of `FrameStream`; `FrameQueueDrains` and `TimedWaitRecovers`; spurious wakeups of both workers, failing ioctls |
| `virtual` | pass | 5,461 | `NoEarlyRelease`, `QueueCompositeReturns`, `QueueDrains` |
| `pipeline_safety` | pass | 11,624,741 | `ScanoutNotReleased`, `NoScribble`, `NoOrphanFence`, `NeverOlder`, with every failure and SquashAll at any moment |
| `vsync` | pass | 41,946 | `OneCallAfterDisable`, `OneCallToOldProcs`, `SleepsInPhase`, `TimestampsAdvance`, `EnableWakes` |
| `rects` | pass | 165,553 | `SweptExactly`: at every stop of the sweep the output agrees with a pointwise reference; `AssertsHold`; `EverythingEnded` |
| `planning` | pass | 1,546,941 | `PictureRight`, `ProtectedNeverRendered`, `ProtectedNotCovered`, `PlanesSuffice`, `StaleOnlyPrimary`, `ReleaseAfterLastUse` |
| `modeset` | pass | 626,020 | `ConfigsKeepMeaning`, `BlobsAccounted`, `ModesetConverges` |
| `device` | pass | 1,100,048 | `FencesAnswered`, `DescriptorsAccounted`, `NoEarlyFence` |
| `display_lost_wakeup` | violation | | `QueueCompositionReturns` |
| `pipeline_race` | violation | | `DisabledIsSignalled` |
| `pipeline_hang` | violation | | `PrepareReturns` |
| `device_gem` | violation | | `ReleaseIsInverse` |

Every run has `CHECK_DEADLOCK FALSE` because clients may stop submitting (and the
sweep of `separate_rects` ends); that threads do not block each other is stated by
the leads-to properties.

SquashAll can run while the frame worker is in `ApplyFrame`: it starts half a second
after the last frame was handed over, and a commit can take 3.1 seconds, the sum of
`CommitFrame`'s waits for an acquire fence. `pipeline_race` shows what that leads to.
In `pipeline_safety` it happens, too: `NoOrphanFence`, and `NoScribble` for
compositions that wait for their commit, hold all the same; what is said of the screen
is said of the times when no fault is outstanding.

`FrameQueueDrains` counts the null frame as an end, since it ends the process.

## Bounds

- `display`: depth 2 is the code's `DRM_DISPLAY_COMPOSITOR_MAX_QUEUE_DEPTH`.
  Three compositions fill the queue and leave one caller spinning, or make a
  power on and two frames, one behind the other. Two threads stand for
  SurfaceFlinger's and the hotplug listener's; they are not symmetric under
  fairness, so no symmetry is used. Either worker may wake without a signal. The
  theorems cover any number of threads and compositions.
- `virtual`: depth 3 is the code's. Nine points with up to three per frame give
  up to nine frames, enough to fill the queue behind a frame being composed while
  another waits to be pushed.
- `pipeline_*`: three framebuffers and two squash framebuffers as in the code. Three
  frames with every plan, and the compositions they are squashed into, let every
  framebuffer come round again and leave a frame to recover with after a fault.
  `pipeline_race` needs two frames, `pipeline_hang` four.
- `vsync`: frames of two and of three units, so that the mode can change between two
  synthetic vsyncs and phases do not agree; seven units are three short frames.
  Three calls of `VSyncControl` are on, off and on again; a second table of
  callbacks can replace the first at any point.
- `rects`: every pair of rectangles on nine cells, every triple on six, every
  four on four cells with empty and inverted ones among them: all ways in which
  edges can coincide, cross or nest for two and three rectangles. The limit of an id
  set is four; vectors of five, with rectangles that are not empty, exceed it.
- `planning`: five planes, of which the crtc supports two primary ones and an
  overlay, so that a primary plane can be left on. Two cells and seven geometries:
  none, one that leaves a cell bare, one that can be squashed in one cell only, ones
  that need pre-composition with and without a squash framebuffer, three with
  protected layers, in one of which the hole is cut too deep. `HistoryLength` is 1
  where the code has 6: a region becomes stable, is squashed, changes and is squashed
  again in few frames. Two geometry changes, one frame on its way.
- `modeset`: two monitors that share a mode, plugged, exchanged or unplugged once, and
  two calls of `getDisplayConfigs` so that the `UpdateModes` of both threads overlap;
  one other call; one frame in the worker, which is where a mode set can overlap it. The
  queue holds one composition (two in the code): a second one queued waits in its
  caller.
- `device`: two connectors and the virtual display, a call and another one while the
  compositions of the first are alive; in each call the sync driver may refuse one
  fence. `device_gem` needs two calls with one buffer on one connector.

## Fairness

Weak fairness for each worker's steps: its thread runs, GL and the kernel return.
Strong fairness for the two steps that take a mutex other threads keep taking and
releasing (`QueuePush`, the swap in `ApplyFrame`): a thread that keeps asking gets
it in the end. Weak fairness for `WaitTimeout`: a deadline passes. No fairness for
calls of the HAL, for the arrival of frames or for spurious wakeups. In
`VirtualCompositor` a wait for an acquire fence ends because it has a timeout. In
`VSyncWorker` `Routine` runs; nothing makes anybody call `VSyncControl`. In
`SeparateRects` the loop runs.

`ModeSet` is the exception: a mode only reaches the display with a frame, so
`ModesetConverges` assumes that SurfaceFlinger keeps sending frames while the display is
on (`SetFrame`), that its waits for the queue end (`QueueEnter`, `QueuePush`), and that
errors pass (`CompositeFrame`, `CommitSucceeds`: not every frame is dropped and not every
commit refused). All these are strong, since a display that is switched off and on
interrupts them. That its `UpdateModes` goes on is weak fairness. The event listener gets
no fairness.

## Proofs

Each module but `FrameStream` has a module of theorems. They hold for every value of
the constants that meets the assumptions named in the module (`DepthAssumption`,
`BoundAssumption`, `GeometryAssumption`, ...), so for any number of threads, frames,
framebuffers, modes, layers, planes and rectangles, and any depth of a queue. No theorem
has a hypothesis beyond them. Every invariant and every action property that a
passing run checks is a theorem; what is left to TLC is listed at the end.

`DisplayCompositorProofs`:

- `TypeCorrect`: inductive by itself; neither queue ever holds a null composition.
- `QueueStaysBounded`: from the lemma `CompositeQueueSteps`, that a step leaves
  `composite_queue_` alone, pushes where there is room, or pops.
- `FrameSignalNeverLost`: inductive with `FrameSync`, which ties the frame
  worker's place to its condition variable (it is waiting exactly when its
  condition variable is in use) and says that every queued composition is a frame.
  The point of the proof is that the test of the queue and the start of the wait
  are one critical section, which is what `DrmCompositorWorker::Routine` lacks.
- `StreamImplemented`: the refinement of `FrameStream`. The abstract queue is
  `frame_queue_`, the composition in the compositor's hand and `composite_queue_`, one
  after the other. The invariant beside `FrameSync` says what a worker may hold at
  each place (`Hands`) and that what a caller is about to push is not queued already
  (`Distinct`). The lemma `PendingSteps` says what each action is to the
  abstract queue: it accepts, forgets, hands over or finishes a composition, or
  changes nothing.

`VirtualCompositorProofs`:

- `VirtualTypeCorrect`: with the bound on the queue, inductive by itself.
- `NoFenceReleasedEarly`: `NoEarlyRelease` is not inductive, because finishing a
  frame signals all smaller points. `FenceOrder` adds that frames own disjoint
  ranges of points, ascending from the worker's hand through the queue to the
  caller, all above the point reached.

`FramePipelineProofs`, in three layers:

- `Placed`: the types, and which composition each worker has a pointer to at each of
  its steps. It gives `PipelineTypeCorrect`.
- `FencesLive`: an unsignalled framebuffer fence belongs to a composition somebody
  holds. With `Placed` it is inductive and gives `NoFenceOrphaned`.
- `Guarded` (what is rendered into has no fence, and a framebuffer that a
  composition not yet released shows has that composition's fence) and `InOrder`
  (queues are ordered by frame, what is prepared is newest, what waits for its commit
  is not released, and what the screen shows). `ScreenNotReleased`,
  `RendersOffScreen` and `ScreenNeverOlder` follow, for any interleaving of the two
  workers and any failure.

  What the screen shows is stated twice. While `faults` is empty it is the active
  composition, its successor on the way through `ApplyFrame`, or nothing
  (`ScreenExact`); the first two theorems rest on that. After a skipped commit it may
  be older, but it is no newer than the active composition or the one being applied
  (`ScreenBehind`), which is enough for the third. That one worker applies at a time
  holds while no "overlap" is noted; the proof has to carry what remains true through
  an overlap, so that a frame applied alone can restore the rest.

`ModeSetProofs`: `ModeSetTypeCorrect`, `ConfigsKeepTheirMeaning`, `NoBlobLeaks`. That
ids keep their meaning while two threads are in `UpdateModes` needs `IdsGiven`: of all
modes that exist somewhere (`Given`: the connector's, those a thread has named and not
exchanged yet, the configurations returned) every id was given by the counter and has
one timing. That no blob leaks needs `BlobsApart`, that the pending blob differs from
the one on the screen but between the last two steps of a commit.

`VSyncWorkerProofs`: `VSyncTypeCorrect`, `AtMostOneLateCall`, `AtMostOneStaleCall`,
`SyntheticInPhase`, `TimestampsOnlyAdvance`. The invariant adds that nothing the
worker knows lies in the future, that a wait begins after the last callback, and that
a worker past its late callback is not on the way to another. That the computed
vsync is the first one in phase is arithmetic (`PhasedVSyncIsNext`, from division with
remainder), for every frame time.

`HwcDeviceProofs`: `EveryOutputFenced` (a fence is missing only where the sync driver
refused the last one asked for, or the virtual display's merge failed) and
`FencesNotEarly`. The loops over the
connectors need loop invariants: planning fences the connectors it has passed
(`PlannedFenced`), a composition of this call is in a compositor only once all are
planned (`LiveFenced`), the fences of the virtual display are made before anything
else (`VirtualAnswered`), the retire fences wait for all release fences
(`RetireWaits`).

`DescriptorsBalanced`, that every descriptor is closed once, is there, too. The
property speaks of the moments between two calls; the invariant (`Balance`) counts at
every step: what is open are the release and retire fences made, what the call still
owns, a timeline for each composition planned and what those queued hold. It needs
to know who can own what at each place of the call (`Ownership`), so that a descriptor
is never counted in two places or moved from a place that did not have it. All sums are
cardinalities of sets of descriptors, each named by its holder and its kind: a step adds or
removes a set disjoint from the rest (`CardAdd`, `CardRemove`), and the loops over
layers need no induction.

`SeparateRectsProofs`: `SweepTypeCorrect`, `SweepAsserts`, `SweepExact` and
`OutputRight`: for every vector of rectangles that fits an id set the output covers
the cells of the input, each once, with the right ids. The reference is pointwise, so
no induction over the vector is needed. The invariant says, of every cell before all
edges still to come, that it is cut exactly; unlike `SweptExactly` it does not mention
where the sweep stopped last and so holds between the edges of one stop, too. It
needs that open rectangles began before the edges to come (`Shapes`), that edges are
taken in order (`InOrder`) and that the sweep line holds exactly the edges of the
rectangles across it (`OnLine`). Existence of a first edge, and of edges
around a covered cell, is proved from the finiteness of the input.

`FramePlanProofs`: `PlanTypeCorrect`, `ProtectedSafe`, `ProtectedUncovered`,
`PlanesAlwaysSuffice`, `ReleasedAfterLastUse` and `NoPlaneLeftOn`, for any planes.
`ReleasedAfterLastUse` compares the points at which the layers' fences are created
with the points to which `ApplySquash` and `ApplyPreComposite` move the timeline: the
points of a stage are counted over the layers that no later stage uses. `ProtectedUncovered`
rests on `AscendingAtLeast`: the position of an index among those left is not above
the index, so a hole cut by index is never too shallow. The counting of `Plan`
rests on lemmas about `Ascending`: ranks in a finite set are distinct and onto, so
the vector of a set has its elements and their number (`AscendingFacts`). From it
`AssignFacts` shows for each of the ways planes can run out that the sources fit, and
that a protected layer without a plane leaves nothing to pre-composite. The invariant
says that frames that wait are planned right (`PendingRight`) and that, unless the
layers have just changed, `SquashState` has the regions of the present layers
(`SquashKnows`): else a stable region could hide a protected layer.

`PictureAlwaysRight` is the theorem that a display is for: at every cell of the
screen each layer is seen once, in order, with its present buffer. It has two halves. A
plan shows on its planes, outside the regions it takes to be squashed, exactly the
layers over each cell and in order (`PlanShows`: the vector of sources is an
ascending one cut in two, then the pre-composition, then the squash framebuffer). And the
squash framebuffer holds the other regions when the frame comes to be shown, though the
plan was made when earlier frames still waited: `PicInv` says of every frame that waits
that it makes the right picture with what the last one before it that renders will have
drawn, and that what the last of them leaves is what `SquashState` believes. Frames with
protected layers, and times when the frame that was to render was dropped, are left out
(see [what the checks found](#what-the-checks-found)). The cells are assumed finite.
`PlansAsAssumed` ties these plans to what `FramePipeline` takes for granted.

Only model-checked:

- everything under fairness (liveness is out of the prover's reach): the leads-to
  properties, `ModesetConverges`, `EverythingEnded`;
- the four runs that end in a violation.

## What the checks found

With a run each:

- **Lost wakeup** (`display_lost_wakeup`). `DrmCompositorWorker::Routine` tests the
  queue under one lock and waits under another. A signal in between is lost. With
  the timeout this costs half a second (`TimedWaitRecovers`); after a SquashAll there
  is no timeout, two compositions fill the queue, and the third call spins for ever.
- **Two threads in ApplyFrame** (`pipeline_race`). `active_composition_` is read outside
  `lock_`, for `DisablePlanes` and again for `SignalCompositionDone`. When SquashAll
  runs during a slow commit the other thread swaps it in between: one composition's
  planes are disabled, possibly after it was deleted, and the fences of another one
  are signalled, which is on the screen. The screen can go back to an older frame,
  too.
- **Framebuffers run out** (`pipeline_hang`). A frame dropped by SquashFrame has
  already used a framebuffer; the worker ends up waiting without a timeout for the
  one on the screen, which only a later frame would release.
- **Shared GEM handles** (`device_gem`). The kernel returns the same handle for a
  buffer that is already imported, and `ReleaseBuffer` closes it for every import. A
  buffer shown again before the frame that showed it first has ended loses its handle.

The following came out of properties that had to leave a case out; the text says
where. The first is from reading the code only:

- **Power.** A power off overtakes the frames queued before it. If one of them
  carries a modeset, `CommitFrame` then applies that frame's power, always on:
  the display is on and `active_` is false. (Connector power is not modelled.)
- **Null frame.** `FrameWorker::Routine` waits in an `if`, not in a loop, and applies a
  frame even when it popped none. A spurious wakeup takes a null frame to `ApplyFrame`
  (`NullFrame` in `DisplayCompositor`).
- **Skipped commit.** An error while building the request skips the commit, but
  with a modeset pending the error is overwritten; the frame counts as shown, the
  buffers on the screen are released ("skipped" of `FramePipeline`), and the mode is
  taken for set (`CommitSkipped` of `ModeSet`).
- **Error after the commit.** With a modeset pending `CommitFrame` can fail after
  `drmModeAtomicCommit` succeeded. If `DisablePlanes` fails as well the frame on the
  screen is destroyed and the older composition stays the active one ("late").
- **Overlapping mode sets.** `Composite` replaces `mode_` while `CommitFrame` is
  using it: the commit then marks the new mode as set, or forgets its blob
  (`faults`).
- **DPMS failure.** When DPMS fails after a mode set (drmdisplaycompositor.cpp:828)
  the old blob has been destroyed and is still noted; every later mode set fails to
  destroy it again and never ends (`faults`).
- **Stale squash framebuffer.** The history is updated when a frame is planned. If
  the frame that was to render the squash framebuffer is dropped, or refused because
  the display is off, later frames show the old one (`squash_missed`); if there is
  none, `PrepareFrame` dereferences null (drmdisplaycompositor.cpp:540). Also, the
  fence of an old squash framebuffer is replaced by that of a frame that may then be
  dropped, so it can be rendered into while it is shown (TLC finds it with four
  frames; `NoScribble` leaves these framebuffers out).
- **Holes by index.** The hole for a protected layer is cut using its index among
  all layers as a position among the layers left to pre-composite
  (drmdisplaycomposition.cpp:241). The hole is never too shallow
  (`ProtectedNotCovered`), but it can be too deep, and layers above it vanish;
  `PictureRight` leaves frames with protected layers out.
- **Second primary plane.** `DisableUnusedPlanes` disables only the first spare primary
  plane; another one goes on showing an old frame (`StaleOnlyPrimary`).
- **32 or 64 rectangles.** separate_rects.h says "up to a maximum of 64 input
  rectangles"; separate_rects.cpp:88 compares with the bits of the coordinates' type
  and outputs nothing for more than 32.
- **Fences that could not be made.** Only the fences of connectors are replaced by
  dummies, and the dummy itself may fail: the virtual display is left without a
  fence when `sw_sync_fence_create` or `sync_merge` fails (`FencesAnswered`). When the
  `dup` for a retire fence fails, `hwc_set` returns 0 with a dummy that is signalled
  already (`NoEarlyFence`).
- **Stale modes.** Two threads in `UpdateModes` may exchange their lists in the other
  order than the kernel answered them, and the older list stays. Ids keep their
  meaning (`ConfigsKeepMeaning`), but the list need not be the monitor's.
- **GEM handle leak.** When `drmModeAddFB2` fails the imported handle is not closed.
- **Late registration.** A uevent read before `registerProcs` is forgotten
  (`IgnoreEvent`): nothing looks at the connector again.
- **Acquire timeout of the virtual display.** A frame whose acquire fence times out
  has its fences signalled only when a later frame is finished.

## What is not modelled

- `Worker::Exit` and the destructors that begin with it: `Exit` joins the thread
  with the lock held that the thread needs to return from its wait and to see
  `exit_`, so it never returns and nothing comes after it.
- Start-up: `DrmResources::Init`, `CreateDisplayPipe`, property look-up, opening of
  the device. It runs before there is a second thread, and looks up numbers.
- Rendering (`glworker.cpp`), formatting, uevent parsing, dumps: pure I/O, or no state
  that another thread or a later step depends on.
- `NvImporter`, which is an alternative to the importer modelled.
- Two displays that compete for the same planes: `FramePlan` has one display.
- The CommitFrame that SquashAll calls is in `FramePipeline`, not in `ModeSet`.
- The power of the connector (`SetDpmsMode` reaching the kernel).
- Undefined behaviour inside `UpdateModes`: two threads incrementing `mode_id_` at the
  same moment, or one exchanging `modes_` while the other is inside a loop over it.
  `ModeSet` gives ids in one step and exchanges the list in another, the reads that
  follow the exchange in the same function included.
- `GetPhasedVSync` loads `last_timestamp_` up to three times without the lock;
  `VSyncWorker` loads it once. That other threads write it between the load and the
  callback is modelled.
- Squash framebuffers in `NoScribble` (see above).

## Plan

Done, in this order: `DisplayCompositor`, `FramePipeline`, `VirtualCompositor`,
`VSyncWorker`, `SeparateRects`, `FramePlan`, `ModeSet`, `HwcDevice`, each with its
proofs. Left to model: the reference counts of `NvImporter`, the crtc search of
`CreateDisplayPipe`, planes shared by two displays.

Left to prove: whether the squash framebuffers, which `NoScribble` leaves out, are safe
when no frame that shows an old one is dropped; whether the plan of a frame with protected
layers shows every layer that its holes do not cut away.
