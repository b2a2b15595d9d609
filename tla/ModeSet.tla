------------------------------ MODULE ModeSet ------------------------------
(***************************************************************************)
(* Modes of one display: the configurations the HAL hands out, the hotplug *)
(* handler, the modes of DrmConnector, and the way a new mode takes from   *)
(* setActiveConfig or a hotplug event through the compositor's queue and   *)
(* ModeState into an atomic commit, with the kernel's property blobs.      *)
(*                                                                         *)
(* Four threads: SurfaceFlinger's ("sf", the HAL's calls), the event       *)
(* listener's ("event"), the compositor worker and the frame worker.  The  *)
(* first two update the connector's modes without a lock, and the last two *)
(* share mode_ without one; all run between each other's steps.  A MODESET *)
(* composition that runs inside a CommitFrame, or an error the code does   *)
(* not repair, can lose the mode or a blob: faults records it, and the     *)
(* properties speak of the other behaviours.                               *)
(***************************************************************************)
EXTENDS Naturals, Sequences, FiniteSets, SequencesExt

CONSTANTS
    Timings,        \* what distinguishes modes: the fields operator== compares
    ModeLists,      \* the lists of modes a connected connector may report
    Preferred,      \* the timings with DRM_MODE_TYPE_PREFERRED
    MaxQueueDepth,  \* DRM_DISPLAY_COMPOSITOR_MAX_QUEUE_DEPTH
    MaxFrames,      \* bound: frames waiting for the frame worker
    MaxPlugs,       \* bound: changes of the connector
    MaxCalls,       \* bound: setActiveConfig and setPowerMode calls
    MaxQueries,     \* bound: getDisplayConfigs calls
    IoctlFailures   \* may asking for modes, creating a blob or setting DPMS fail?

ASSUME TimingAssumption ==
    /\ Timings \subseteq Nat \ {0} /\ IsFiniteSet(Timings)
    /\ Preferred \subseteq Timings
\* A connected connector reports at least one mode, and none twice.
ASSUME ModeListAssumption ==
    /\ ModeLists \subseteq Seq(Timings)
    /\ \A l \in ModeLists : l # <<>> /\ IsInjective(l)
ASSUME BoundAssumption ==
    /\ {MaxQueueDepth, MaxFrames, MaxPlugs, MaxCalls, MaxQueries} \subseteq Nat \ {0}
    /\ IoctlFailures \in BOOLEAN

Threads == {"sf", "event"}
Mode == [id : Nat, timing : Timings \cup {0}]
NoMode == [id |-> 0, timing |-> 0]

VARIABLES
    k_list,         \* kernel: the connector's modes, none when disconnected
    k_blobs,        \* kernel: live property blobs, by id
    k_mode,         \* kernel: the timing scanned out, 0 for none
    uevents,        \* kernel: the uevents not read yet
    state_,         \* DrmConnector: is it connected?
    modes_,         \* DrmConnector
    active_mode_,   \* DrmConnector
    mode_id_,       \* DrmResources: the last mode id given
    update,         \* where each thread is in UpdateModes, see Update
    config_ids,     \* HAL: what getDisplayConfigs returned last
    reported,       \* and the timings getDisplayAttributes gave for them
    registered,     \* has the listener got the hotplug handler?
    queueing,       \* the compositions a thread still has to queue
    entered,        \* the threads in QueueComposition, past its first switch
    active_,        \* DrmDisplayCompositor
    composite_queue_,
    mode_,          \* DrmDisplayCompositor::ModeState
    frames,         \* frames in the frame worker, the one it commits included
    commit,         \* where CommitFrame is, and the mode in its request
    wanted,         \* the timing of the last MODESET composition queued
    faults,         \* "mode", "blob": what may be lost, see above
    plugs, calls, queries \* counters for the bounds

kernelVars == <<k_list, uevents, plugs>>
connectorVars == <<state_, modes_, mode_id_, update>>
halVars == <<config_ids, reported, registered, calls, queries>>
commitVars == <<k_blobs, k_mode, active_mode_, mode_, commit>>
vars == <<kernelVars, connectorVars, halVars, commitVars, queueing, entered,
          active_, composite_queue_, frames, wanted, faults>>

\* A call of UpdateModes: the state the caller found, the connector's modes as
\* the kernel told them, and new_modes.
Update ==
    [at : {"idle", "asked", "failed", "listed", "named"}, old : BOOLEAN,
     list : ModeLists \cup {<<>>}, modes : Seq(Mode)]
NoUpdate == [at |-> "idle", old |-> FALSE, list |-> <<>>, modes |-> <<>>]

Composition ==
    [type : {"MODESET"}, mode : Mode]
        \cup [type : {"DPMS_ON", "DPMS_OFF", "FRAME"}, mode : {NoMode}]
Comp(type) == [type |-> type, mode |-> NoMode]
SetDisplayMode(mode) == [type |-> "MODESET", mode |-> mode]

\* The request, and the mode in it, last until it is committed.
NoCommit == [at |-> "idle", modeset |-> FALSE, blob |-> 0]

Init ==
    /\ k_list \in ModeLists \cup {<<>>}
    /\ k_blobs = <<>>
    /\ k_mode = 0
    /\ uevents = 0
    /\ state_ = (k_list # <<>>)
    /\ modes_ = <<>>
    /\ active_mode_ = NoMode
    /\ mode_id_ = 0
    /\ update = [t \in Threads |-> NoUpdate]
    /\ config_ids = <<>>
    /\ reported = <<>>
    /\ registered = FALSE
    /\ queueing = [t \in Threads |-> <<>>]
    /\ entered = {}
    /\ active_ = FALSE
    /\ composite_queue_ = <<>>
    /\ mode_ = [needs_modeset |-> FALSE, mode |-> NoMode, blob_id |-> 0,
                old_blob_id |-> 0]
    /\ frames = 0
    /\ commit = NoCommit
    /\ wanted = 0
    /\ faults = {}
    /\ plugs = 0
    /\ calls = 0
    /\ queries = 0

-----------------------------------------------------------------------------
(***************************************************************************)
(* DrmConnector.                                                           *)
(***************************************************************************)
\* Mutant of UpdatedModes: ids are given by position.
UpdatedModesMutant(list) ==
    [i \in DOMAIN list |-> [id |-> i, timing |-> list[i]]]

\* A mode the connector has keeps its id; a new one gets the next.
UpdatedModes(list) ==
    LET Known(i) == \E m \in ToSet(modes_) : m.timing = list[i]
        NewUpTo(i) == Cardinality({j \in 1 .. i : ~Known(j)})
    IN  [i \in DOMAIN list |->
            IF Known(i) THEN CHOOSE m \in ToSet(modes_) : m.timing = list[i]
            ELSE [id |-> mode_id_ + NewUpTo(i), timing |-> list[i]]]

\* UpdateModes: the kernel answers, or does not;
Listed(t) ==
    /\ state_' = (k_list # <<>>)
    /\ update' = [update EXCEPT ![t].at = "listed", ![t].list = k_list]

\* the modes get their ids (in one step: two unlocked ++mode_id_ at the same
\* instant, which may give one id twice, are left out);
NameModes(t) ==
    /\ update[t].at = "listed"
    /\ update' = [update EXCEPT ![t].at = "named", ![t].list = <<>>,
                                ![t].modes = UpdatedModes(update[t].list)]
    /\ LET list == update[t].list IN
       mode_id_' = mode_id_ + Cardinality({i \in DOMAIN list :
                       \A m \in ToSet(modes_) : m.timing # list[i]})
    /\ UNCHANGED <<kernelVars, state_, modes_, halVars, commitVars, queueing,
                   entered, active_, composite_queue_, frames, wanted, faults>>

\* the vectors are exchanged, unless the kernel did not answer.
SwapModes(t) ==
    /\ update[t].at \in {"failed", "named"}
    /\ modes_' = IF update[t].at = "named" THEN update[t].modes ELSE modes_
    /\ update' = [update EXCEPT ![t] = NoUpdate]
    /\ UNCHANGED <<state_, mode_id_>>

\* A monitor is plugged, exchanged or unplugged; the kernel sends a uevent.
Plug(list) ==
    /\ plugs < MaxPlugs
    /\ list # k_list
    /\ k_list' = list
    /\ uevents' = uevents + 1
    /\ plugs' = plugs + 1
    /\ UNCHANGED <<connectorVars, halVars, commitVars, queueing, active_,
                   composite_queue_, frames, wanted, faults, entered>>

-----------------------------------------------------------------------------
(***************************************************************************)
(* The hotplug handler, on the event listener's thread.                    *)
(***************************************************************************)
\* The preferred mode, or else the first.
HotplugMode(modes) ==
    LET preferred == {i \in DOMAIN modes : modes[i].timing \in Preferred}
    IN  modes[IF preferred = {} THEN 1 ELSE Min(preferred)]

\* Without a handler the listener reads a uevent and forgets it.
IgnoreEvent ==
    /\ uevents > 0 /\ ~registered
    /\ uevents' = uevents - 1
    /\ UNCHANGED <<k_list, plugs, connectorVars, halVars, commitVars, queueing,
                   active_, composite_queue_, frames, wanted, faults, entered>>

HandleEvent ==
    /\ uevents > 0 /\ registered
    /\ queueing["event"] = <<>> /\ update["event"].at = "idle"
    /\ uevents' = uevents - 1
    /\ update' = [update EXCEPT !["event"].at = "asked", !["event"].old = state_]
    /\ UNCHANGED <<k_list, plugs, state_, modes_, mode_id_, halVars, commitVars,
                   queueing, active_, composite_queue_, frames, wanted, faults,
                   entered>>

HandleEventListed ==
    /\ update["event"].at = "asked"
    /\ Listed("event")
    /\ UNCHANGED <<kernelVars, modes_, mode_id_, halVars, commitVars, queueing,
                   entered, active_, composite_queue_, frames, wanted, faults>>

HandleEventFails ==
    /\ IoctlFailures
    /\ update["event"].at = "asked"
    /\ update' = [update EXCEPT !["event"].at = "failed"]
    /\ UNCHANGED <<kernelVars, state_, modes_, mode_id_, halVars, commitVars,
                   queueing, entered, active_, composite_queue_, frames, wanted,
                   faults>>

\* A change of the connection is followed by a mode set, or the display is
\* switched off.  An error is ignored.  With a state that the other thread wrote
\* the vector may be empty: reading its first mode ends the process.
HandleEventEnds ==
    LET old == update["event"].old IN
    /\ SwapModes("event")
    /\ state_ /\ ~old => modes_' # <<>>
    /\ queueing' = [queueing EXCEPT !["event"] =
           IF state_ = old THEN <<>>
           ELSE IF state_ THEN <<SetDisplayMode(HotplugMode(modes_'))>>
           ELSE <<Comp("DPMS_OFF")>>]
    /\ UNCHANGED <<kernelVars, halVars, commitVars, active_, composite_queue_,
                   frames, wanted, faults, entered>>

-----------------------------------------------------------------------------
(***************************************************************************)
(* The HAL's calls, on SurfaceFlinger's thread.                            *)
(***************************************************************************)
SfIdle == queueing["sf"] = <<>> /\ update["sf"].at = "idle"

\* getDisplayConfigs, until the kernel answers.  The first call is that of
\* hwc_set_initial_config, when the device is opened.
GetDisplayConfigs ==
    /\ SfIdle /\ queries < MaxQueries
    /\ Listed("sf")
    /\ config_ids' = <<>>
    /\ reported' = <<>>
    /\ UNCHANGED <<kernelVars, modes_, mode_id_, registered, calls, queries,
                   commitVars, queueing, active_, composite_queue_, frames,
                   wanted, faults, entered>>

\* It returns without configurations.
GetDisplayConfigsFails ==
    /\ SfIdle /\ queries < MaxQueries /\ IoctlFailures
    /\ config_ids' = <<>>
    /\ reported' = <<>>
    /\ queries' = queries + 1
    /\ UNCHANGED <<kernelVars, connectorVars, registered, calls, commitVars,
                   queueing, active_, composite_queue_, frames, wanted, faults,
                   entered>>

\* hwc_set_initial_config asks for one configuration and sets it.
SetInitialConfig(modes) ==
    IF modes = <<>> \/ ~state_ THEN <<>>
    ELSE <<SetDisplayMode(modes[1]), Comp("DPMS_ON")>>

\* It returns the configurations, and getDisplayAttributes their timings.
GetDisplayConfigsEnds ==
    LET n == IF queries = 0 THEN 1 ELSE Cardinality(Timings)
        count == IF Len(modes_') < n THEN Len(modes_') ELSE n
    IN
    /\ SwapModes("sf")
    /\ config_ids' = [i \in 1 .. count |-> modes_'[i].id]
    /\ reported' = [i \in 1 .. count |-> modes_'[i].timing]
    /\ queries' = queries + 1
    /\ queueing' = [queueing EXCEPT !["sf"] =
           IF queries = 0 THEN SetInitialConfig(modes_') ELSE <<>>]
    /\ UNCHANGED <<kernelVars, registered, calls, commitVars, active_,
                   composite_queue_, frames, wanted, faults, entered>>

\* registerProcs, once the device is open.
RegisterProcs ==
    /\ queries > 0 /\ SfIdle /\ ~registered
    /\ registered' = TRUE
    /\ UNCHANGED <<kernelVars, connectorVars, config_ids, reported, calls,
                   queries, commitVars, queueing, active_, composite_queue_,
                   frames, wanted, faults, entered>>

\* setActiveConfig: the connector must be connected and still have the mode.
SetActiveConfig(index) ==
    /\ queries > 0 /\ calls < MaxCalls /\ SfIdle
    /\ calls' = calls + 1
    /\ LET found == {i \in DOMAIN modes_ : modes_[i].id = config_ids[index]}
       IN  queueing' = [queueing EXCEPT !["sf"] =
               IF ~state_ \/ found = {} THEN <<>>
               ELSE <<SetDisplayMode(modes_[Min(found)]), Comp("DPMS_ON")>>]
    /\ UNCHANGED <<kernelVars, connectorVars, config_ids, reported, registered,
                   queries, commitVars, active_, composite_queue_, frames, wanted,
                   faults, entered>>

SetPowerMode(type) ==
    /\ queries > 0 /\ calls < MaxCalls /\ SfIdle
    /\ calls' = calls + 1
    /\ queueing' = [queueing EXCEPT !["sf"] = <<Comp(type)>>]
    /\ UNCHANGED <<kernelVars, connectorVars, config_ids, reported, registered,
                   queries, commitVars, active_, composite_queue_, frames, wanted,
                   faults, entered>>

\* Mutant of QueueHasRoom: one too many.
QueueHasRoomMutant == Len(composite_queue_) <= MaxQueueDepth

QueueHasRoom == Len(composite_queue_) < MaxQueueDepth

\* hwc_set, up to the test of active_ in QueueComposition; a frame for a
\* display that is off is refused, which changes nothing.
SetFrame ==
    /\ queries > 0 /\ SfIdle /\ active_
    /\ queueing' = [queueing EXCEPT !["sf"] = <<Comp("FRAME")>>]
    /\ entered' = entered \cup {"sf"}
    /\ UNCHANGED <<kernelVars, connectorVars, halVars, commitVars, active_,
                   composite_queue_, frames, wanted, faults>>

\* QueueComposition: active_ follows a DPMS composition at once, before the
\* caller waits for a place in the queue.
QueueEnter(t) ==
    /\ queueing[t] # <<>> /\ t \notin entered
    /\ entered' = entered \cup {t}
    /\ LET type == Head(queueing[t]).type
       IN  active_' = IF type = "MODESET" THEN active_ ELSE type = "DPMS_ON"
    /\ UNCHANGED <<kernelVars, connectorVars, halVars, commitVars, queueing,
                   composite_queue_, frames, wanted, faults>>

QueuePush(t) ==
    /\ t \in entered /\ QueueHasRoom
    /\ entered' = entered \ {t}
    /\ LET c == Head(queueing[t]) IN
       /\ composite_queue_' = Append(composite_queue_, c)
       /\ wanted' = IF c.type = "MODESET" THEN c.mode.timing ELSE wanted
    /\ queueing' = [queueing EXCEPT ![t] = Tail(@)]
    /\ UNCHANGED <<kernelVars, connectorVars, halVars, commitVars, active_,
                   frames, faults>>

-----------------------------------------------------------------------------
(***************************************************************************)
(* The compositor worker: DrmDisplayCompositor::Composite.                 *)
(***************************************************************************)
FreeBlob(blobs) == CHOOSE b \in 1 .. Cardinality(DOMAIN blobs) + 1 :
                       b \notin DOMAIN blobs

Destroyed(blobs, b) == [x \in DOMAIN blobs \ {b} |-> blobs[x]]

\* A frame goes to the frame worker, or is dropped when preparing it fails.
CompositeFrame ==
    /\ composite_queue_ # <<>> /\ Head(composite_queue_).type = "FRAME"
    /\ frames < MaxFrames
    /\ composite_queue_' = Tail(composite_queue_)
    /\ frames' = frames + 1
    /\ UNCHANGED <<kernelVars, connectorVars, halVars, commitVars, queueing,
                   active_, wanted, faults, entered>>

CompositeDropsFrame ==
    /\ IoctlFailures
    /\ composite_queue_ # <<>> /\ Head(composite_queue_).type = "FRAME"
    /\ composite_queue_' = Tail(composite_queue_)
    /\ UNCHANGED <<kernelVars, connectorVars, halVars, commitVars, queueing,
                   active_, frames, wanted, faults, entered>>

\* DPMS compositions set the connector's property; see DisplayCompositor.
CompositeDpms ==
    /\ composite_queue_ # <<>>
    /\ Head(composite_queue_).type \in {"DPMS_ON", "DPMS_OFF"}
    /\ composite_queue_' = Tail(composite_queue_)
    /\ UNCHANGED <<kernelVars, connectorVars, halVars, commitVars, queueing,
                   active_, frames, wanted, faults, entered>>

\* Mutant of Pending: a blob that was never committed is forgotten.
PendingMutant == k_blobs

\* The blob of a mode that was never committed goes first.
Pending == Destroyed(k_blobs, mode_.blob_id)

\* Mutant of CompositeModeset: the next commit is not told of the new mode.
CompositeModesetMutant(created) ==
    /\ composite_queue_ # <<>> /\ Head(composite_queue_).type = "MODESET"
    /\ created \/ IoctlFailures
    /\ composite_queue_' = Tail(composite_queue_)
    /\ LET mode == Head(composite_queue_).mode
           blobs == Pending
           id == FreeBlob(blobs)
       IN  IF created
           THEN /\ k_blobs' = [b \in DOMAIN blobs \cup {id} |->
                                  IF b = id THEN mode.timing ELSE blobs[b]]
                /\ mode_' = [mode_ EXCEPT !.mode = mode, !.blob_id = id]
           ELSE /\ k_blobs' = blobs
                /\ mode_' = [mode_ EXCEPT !.mode = mode, !.blob_id = 0]
    /\ faults' = faults
           \cup (IF commit.at = "idle" THEN {} ELSE {"mode", "blob"})
           \cup (IF created THEN {} ELSE {"mode"})
    /\ UNCHANGED <<kernelVars, connectorVars, halVars, k_mode, active_mode_,
                   commit, queueing, active_, frames, wanted, entered>>

\* A MODESET composition replaces the mode and its blob.
CompositeModeset(created) ==
    /\ composite_queue_ # <<>> /\ Head(composite_queue_).type = "MODESET"
    /\ created \/ IoctlFailures
    /\ composite_queue_' = Tail(composite_queue_)
    /\ LET mode == Head(composite_queue_).mode
           blobs == Pending
           id == FreeBlob(blobs)
       IN  IF created
           THEN /\ k_blobs' = [b \in DOMAIN blobs \cup {id} |->
                                  IF b = id THEN mode.timing ELSE blobs[b]]
                /\ mode_' = [mode_ EXCEPT !.mode = mode, !.blob_id = id,
                                          !.needs_modeset = TRUE]
           ELSE /\ k_blobs' = blobs
                /\ mode_' = [mode_ EXCEPT !.mode = mode, !.blob_id = 0]
    /\ faults' = faults
           \cup (IF commit.at = "idle" THEN {} ELSE {"mode", "blob"})
           \cup (IF created THEN {} ELSE {"mode"})
    /\ UNCHANGED <<kernelVars, connectorVars, halVars, k_mode, active_mode_,
                   commit, queueing, active_, frames, wanted, entered>>

-----------------------------------------------------------------------------
(***************************************************************************)
(* The frame worker: DrmDisplayCompositor::CommitFrame.                    *)
(***************************************************************************)
Done == commit' = NoCommit /\ frames' = frames - 1

CommitBegins ==
    /\ frames > 0 /\ commit.at = "idle"
    /\ commit' = [at |-> "kernel", modeset |-> mode_.needs_modeset,
                  blob |-> mode_.blob_id]
    /\ UNCHANGED <<kernelVars, connectorVars, halVars, k_blobs, k_mode,
                   active_mode_, mode_, queueing, active_, composite_queue_,
                   frames, wanted, faults, entered>>

\* The kernel refuses the request; the mode is tried again with the next frame.
CommitFails ==
    /\ commit.at = "kernel"
    /\ IoctlFailures \/ (commit.modeset /\ commit.blob \notin DOMAIN k_blobs)
    /\ Done
    /\ UNCHANGED <<kernelVars, connectorVars, halVars, k_blobs, k_mode,
                   active_mode_, mode_, queueing, active_, composite_queue_,
                   wanted, faults, entered>>

CommitSucceeds ==
    /\ commit.at = "kernel"
    /\ commit.modeset => commit.blob \in DOMAIN k_blobs
    /\ k_mode' = IF commit.modeset THEN k_blobs[commit.blob] ELSE k_mode
    /\ commit' = [NoCommit EXCEPT !.at = "committed"]
    /\ UNCHANGED <<kernelVars, connectorVars, halVars, k_blobs, active_mode_,
                   mode_, queueing, active_, composite_queue_, frames, wanted,
                   faults, entered>>

\* A plane could not be added to the request: nothing is committed, but with a
\* mode to set the code below goes on as if it were.
CommitSkipped ==
    /\ commit.at = "kernel" /\ IoctlFailures
    /\ commit.modeset \/ mode_.needs_modeset
    /\ commit' = [NoCommit EXCEPT !.at = "committed"]
    /\ faults' = faults \cup {"mode"}
    /\ UNCHANGED <<kernelVars, connectorVars, halVars, k_blobs, k_mode,
                   active_mode_, mode_, queueing, active_, composite_queue_,
                   frames, wanted, entered>>

\* Nothing to do after the commit, or the old blob is already gone.
CommitReturns ==
    /\ commit.at = "committed"
    /\ mode_.needs_modeset => mode_.old_blob_id \notin DOMAIN k_blobs \cup {0}
    /\ Done
    /\ UNCHANGED <<kernelVars, connectorVars, halVars, k_blobs, k_mode,
                   active_mode_, mode_, queueing, active_, composite_queue_,
                   wanted, faults, entered>>

\* The old blob is destroyed, DPMS is set, and the mode becomes the active one.
CommitRecords(dpms) ==
    /\ commit.at = "committed"
    /\ mode_.needs_modeset /\ mode_.old_blob_id \in DOMAIN k_blobs \cup {0}
    /\ dpms \/ IoctlFailures
    /\ k_blobs' = Destroyed(k_blobs, mode_.old_blob_id)
    /\ IF dpms
       THEN /\ active_mode_' = mode_.mode
            /\ mode_' = [mode_ EXCEPT !.old_blob_id = mode_.blob_id]
            /\ commit' = [NoCommit EXCEPT !.at = "recorded"]
            /\ UNCHANGED <<frames, faults>>
       ELSE /\ Done
            /\ faults' = faults \cup {"mode", "blob"}
            /\ UNCHANGED <<active_mode_, mode_>>
    /\ UNCHANGED <<kernelVars, connectorVars, halVars, k_mode, queueing,
                   active_, composite_queue_, wanted, entered>>

CommitEnds ==
    /\ commit.at = "recorded"
    /\ mode_' = [mode_ EXCEPT !.blob_id = 0, !.needs_modeset = FALSE]
    /\ Done
    /\ UNCHANGED <<kernelVars, connectorVars, halVars, k_blobs, k_mode,
                   active_mode_, queueing, active_, composite_queue_, wanted,
                   faults, entered>>

-----------------------------------------------------------------------------
Sf ==
    \/ GetDisplayConfigs
    \/ GetDisplayConfigsFails
    \/ GetDisplayConfigsEnds
    \/ RegisterProcs
    \/ \E i \in DOMAIN config_ids : SetActiveConfig(i)
    \/ \E type \in {"DPMS_ON", "DPMS_OFF"} : SetPowerMode(type)
    \/ SetFrame

CompositorWorker ==
    \/ CompositeFrame
    \/ CompositeDropsFrame
    \/ CompositeDpms
    \/ \E created \in BOOLEAN : CompositeModeset(created)

FrameWorker ==
    \/ CommitBegins
    \/ CommitFails
    \/ CommitSucceeds
    \/ CommitSkipped
    \/ CommitReturns
    \/ \E dpms \in BOOLEAN : CommitRecords(dpms)
    \/ CommitEnds

Next ==
    \/ \E list \in ModeLists \cup {<<>>} : Plug(list)
    \/ IgnoreEvent
    \/ HandleEvent
    \/ HandleEventListed
    \/ HandleEventFails
    \/ HandleEventEnds
    \/ Sf
    \/ \E t \in Threads : NameModes(t) \/ QueueEnter(t) \/ QueuePush(t)
    \/ CompositorWorker
    \/ FrameWorker

\* The workers run, SurfaceFlinger's calls return, it keeps sending frames while
\* the display is on and is not overtaken for ever when it waits for the queue,
\* and errors pass: a frame is not always dropped, a commit not always refused.
Fairness ==
    /\ WF_vars(CompositorWorker)
    /\ WF_vars(FrameWorker)
    /\ WF_vars(NameModes("sf") \/ GetDisplayConfigsEnds)
    /\ SF_vars(QueueEnter("sf") \/ QueuePush("sf"))
    /\ SF_vars(SetFrame)
    /\ SF_vars(CompositeFrame)
    /\ SF_vars(CommitSucceeds)

Spec == Init /\ [][Next]_vars /\ Fairness

-----------------------------------------------------------------------------
(***************************************************************************)
(* Properties.                                                             *)
(***************************************************************************)
TypeOK ==
    /\ k_list \in ModeLists \cup {<<>>}
    /\ DOMAIN k_blobs \subseteq Nat \ {0}
    /\ \A b \in DOMAIN k_blobs : k_blobs[b] \in Timings
    /\ k_mode \in Timings \cup {0}
    /\ uevents \in 0 .. MaxPlugs
    /\ state_ \in BOOLEAN
    /\ \A m \in ToSet(modes_) : m \in Mode /\ m.id \in 1 .. mode_id_
    /\ \A t \in Threads : /\ update[t] \in Update
                           /\ \A m \in ToSet(update[t].modes) : m.id \in 1 .. mode_id_
    /\ active_mode_ \in Mode
    /\ Len(config_ids) = Len(reported)
    /\ registered \in BOOLEAN
    /\ \A t \in Threads : ToSet(queueing[t]) \subseteq Composition
    /\ entered \subseteq Threads
    /\ active_ \in BOOLEAN
    /\ ToSet(composite_queue_) \subseteq Composition
    /\ Len(composite_queue_) <= MaxQueueDepth
    /\ mode_ \in [needs_modeset : BOOLEAN, mode : Mode, blob_id : Nat,
                  old_blob_id : Nat]
    /\ frames \in 0 .. MaxFrames
    /\ commit.at \in {"idle", "kernel", "committed", "recorded"}
    /\ wanted \in Timings \cup {0}
    /\ faults \subseteq {"mode", "blob"}

\* A configuration SurfaceFlinger was told of never comes to mean another mode,
\* whatever the hotplug handler does to the connector's modes meanwhile: the
\* mode setActiveConfig finds is the one getDisplayAttributes described.
ConfigsKeepMeaning ==
    \A i \in DOMAIN config_ids : \A m \in ToSet(modes_) :
        m.id = config_ids[i] => m.timing = reported[i]

\* Every live blob is the pending one or the one on the screen, and these are
\* live: commits and mode sets, refused or not, neither leak a blob nor keep
\* one that is gone, unless they overlap or DPMS fails after the old blob was
\* destroyed.
BlobsAccounted ==
    "blob" \notin faults =>
        {mode_.blob_id, mode_.old_blob_id} \ {0} = DOMAIN k_blobs

\* However calls, hotplug events and commits interleave, a display that stays
\* on ends in the mode asked for last, and reports it as the active one, unless
\* a mode set overlapped a commit, its blob could not be created, its commit was
\* skipped or DPMS could not be set.
ModesetConverges ==
    <>[](\/ "mode" \in faults \/ ~active_ \/ wanted = 0
         \/ k_mode = wanted /\ active_mode_.timing = wanted)
=============================================================================
