---------------------------- MODULE VSyncWorker ----------------------------
(***************************************************************************)
(* VSyncWorker: the thread that tells SurfaceFlinger of every vblank.      *)
(*                                                                         *)
(* SurfaceFlinger's threads turn the events on and off and register the    *)
(* callbacks.  The worker copies both under the lock, waits for a vblank   *)
(* without it (in the kernel, or asleep until the time it computes when    *)
(* the kernel cannot wait), calls the hook and notes the timestamp.        *)
(*                                                                         *)
(* Critical sections are single steps.  Time is a variable that anybody's  *)
(* delay may move on; its unit stands for the finest time the code tells   *)
(* apart, of which the kernel's microseconds are Granule.                  *)
(***************************************************************************)
EXTENDS Integers

CONSTANTS
    Frames,     \* frame times of the modes, in units of time
    Granule,    \* units of time in the kernel's microsecond
    MaxTime,    \* bound: the last instant of a behaviour
    MaxProcs,   \* bound: callback tables ever registered
    MaxToggles  \* bound: calls of VSyncControl in a behaviour

ASSUME FramesAssumption == Frames # {} /\ Frames \subseteq Nat \ {0}
ASSUME GranuleAssumption == Granule \in Nat \ {0}
ASSUME BoundAssumption == {MaxTime, MaxProcs, MaxToggles} \subseteq Nat

VARIABLES
    clock,           \* CLOCK_MONOTONIC
    enabled_,
    procs_,          \* the callback table: 0 is NULL, and tables are numbered
    last_timestamp_,
    pc,              \* where Routine is
    cond,            \* the worker's condition wait
    procs,           \* Routine's copy of procs_
    wait,            \* what Routine is waiting for: see Wait
    timestamp,       \* Routine's timestamp
    toggles,         \* calls of VSyncControl so far
    told,            \* the last timestamp given to a hook, or -1
    late,            \* hooks called since the events were turned off
    stale            \* hooks called with another table since SetProcs

vars == <<clock, enabled_, procs_, last_timestamp_, pc, cond, procs, wait,
          timestamp, toggles, told, late, stale>>
caller == <<enabled_, procs_, toggles>>
history == <<told, late, stale>>

Time == 0 .. MaxTime

\* A wait that began at since; a synthetic one ends at until, computed from
\* frame_ns and the timestamp phase that last_timestamp_ had.
Wait == [since : Time, until : Nat, frame_ns : Frames \cup {0}, phase : Time \cup {-1}]
NoWait == [since |-> 0, until |-> 0, frame_ns |-> 0, phase |-> -1]

TypeOK ==
    /\ clock \in Time
    /\ enabled_ \in BOOLEAN
    /\ procs_ \in 0 .. MaxProcs
    /\ last_timestamp_ \in Time \cup {-1}
    /\ pc \in {"routine", "waiting", "vblank", "sleep", "hook", "store"}
    /\ cond \in {"none", "forever", "signalled"}
    /\ procs \in 0 .. procs_
    /\ wait \in Wait
    /\ timestamp \in Time
    /\ toggles \in 0 .. MaxToggles
    /\ told \in Time \cup {-1}
    /\ late \in Nat
    /\ stale \in Nat

\* The display is value-initialised by the map it lives in: enabled_ is false.
Init ==
    /\ clock = 0
    /\ enabled_ = FALSE
    /\ procs_ = 0
    /\ last_timestamp_ = -1
    /\ pc = "routine"
    /\ cond = "none"
    /\ procs = 0
    /\ wait = NoWait
    /\ timestamp = 0
    /\ toggles = 0
    /\ told = -1
    /\ late = 0
    /\ stale = 0

Tick ==
    /\ clock < MaxTime
    /\ clock' = clock + 1
    /\ UNCHANGED <<enabled_, procs_, last_timestamp_, pc, cond, procs, wait,
                   timestamp, toggles, history>>

-----------------------------------------------------------------------------
(***************************************************************************)
(* SetProcs and VSyncControl.                                              *)
(***************************************************************************)
SetProcs ==
    /\ procs_ < MaxProcs
    /\ procs_' = procs_ + 1
    /\ stale' = 0
    /\ UNCHANGED <<clock, enabled_, last_timestamp_, pc, cond, procs, wait,
                   timestamp, toggles, told, late>>

Signal == cond' = IF cond = "forever" THEN "signalled" ELSE cond

\* Mutant of VSyncControl: the worker is not signalled.
VSyncControlMutant(enabled) ==
    /\ toggles < MaxToggles
    /\ toggles' = toggles + 1
    /\ enabled_' = enabled
    /\ last_timestamp_' = -1
    /\ late' = IF enabled_ /\ ~enabled THEN 0 ELSE late
    /\ UNCHANGED <<clock, procs_, pc, cond, procs, wait, timestamp, told, stale>>

VSyncControl(enabled) ==
    /\ toggles < MaxToggles
    /\ toggles' = toggles + 1
    /\ enabled_' = enabled
    /\ last_timestamp_' = -1
    /\ Signal
    /\ late' = IF enabled_ /\ ~enabled THEN 0 ELSE late
    /\ UNCHANGED <<clock, procs_, pc, procs, wait, timestamp, told, stale>>

-----------------------------------------------------------------------------
(***************************************************************************)
(* Routine.                                                                *)
(***************************************************************************)
\* The test of enabled_ and the start of the wait are one critical section.
RoutineWaits ==
    /\ pc = "routine"
    /\ ~enabled_
    /\ cond' = "forever"
    /\ pc' = "waiting"
    /\ UNCHANGED <<clock, caller, last_timestamp_, procs, wait, timestamp,
                   history>>

SpuriousWakeup ==
    /\ cond = "forever"
    /\ cond' = "signalled"
    /\ UNCHANGED <<clock, caller, last_timestamp_, pc, procs, wait, timestamp,
                   history>>

MayCopy == (pc = "routine" /\ enabled_) \/ (pc = "waiting" /\ cond = "signalled")

\* The wait of drmWaitVBlank for the next vblank begins.
VBlankWait == [NoWait EXCEPT !.since = clock]

\* Mutant of RoutineCopies: enabled_ is not read again after the wait.
RoutineCopiesMutant ==
    /\ MayCopy
    /\ procs' = procs_
    /\ cond' = "none"
    /\ pc' = "vblank"
    /\ wait' = VBlankWait
    /\ UNCHANGED <<clock, caller, last_timestamp_, timestamp, history>>

\* The copies are taken under the lock, at once or after a wait; with the
\* events off Routine returns.
RoutineCopies ==
    /\ MayCopy
    /\ procs' = procs_
    /\ cond' = "none"
    /\ IF enabled_ THEN pc' = "vblank" /\ wait' = VBlankWait
                   ELSE pc' = "routine" /\ UNCHANGED wait
    /\ UNCHANGED <<clock, caller, last_timestamp_, timestamp, history>>

\* Routine returns when there is no crtc, drmWaitVBlank is interrupted or the
\* sleep fails.
RoutineReturns ==
    /\ pc \in {"vblank", "sleep"}
    /\ pc' = "routine"
    /\ wait' = NoWait
    /\ UNCHANGED <<clock, caller, last_timestamp_, cond, procs, timestamp,
                   history>>

\* The kernel reports the time of a vblank after the request, in microseconds.
VBlankTimestamp(vblank) == Granule * (vblank \div Granule)

\* Mutant of WaitVBlank: relative sequence 0, the vblank before the request.
WaitVBlankMutant ==
    /\ pc = "vblank"
    /\ \E vblank \in 0 .. clock : timestamp' = VBlankTimestamp(vblank)
    /\ pc' = "hook"
    /\ wait' = NoWait
    /\ UNCHANGED <<clock, caller, last_timestamp_, cond, procs, history>>

WaitVBlank ==
    /\ pc = "vblank"
    /\ clock > wait.since
    /\ \E vblank \in wait.since + 1 .. clock : timestamp' = VBlankTimestamp(vblank)
    /\ pc' = "hook"
    /\ wait' = NoWait
    /\ UNCHANGED <<clock, caller, last_timestamp_, cond, procs, history>>

\* Mutant of GetPhasedVSync: the vsync at or before the current time.
GetPhasedVSyncMutant(frame_ns, current) ==
    IF last_timestamp_ < 0
    THEN current + frame_ns
    ELSE frame_ns * ((current - last_timestamp_) \div frame_ns) + last_timestamp_

GetPhasedVSync(frame_ns, current) ==
    IF last_timestamp_ < 0
    THEN current + frame_ns
    ELSE frame_ns * ((current - last_timestamp_) \div frame_ns + 1)
             + last_timestamp_

\* The kernel cannot wait: SyntheticWaitVBlank starts to sleep.  It reads
\* last_timestamp_ without the lock; the value is loaded once.
SyntheticWaitVBlank ==
    /\ pc = "vblank"
    /\ \E frame_ns \in Frames :
           wait' = [since |-> clock, until |-> GetPhasedVSync(frame_ns, clock),
                    frame_ns |-> frame_ns, phase |-> last_timestamp_]
    /\ pc' = "sleep"
    /\ UNCHANGED <<clock, caller, last_timestamp_, cond, procs, timestamp,
                   history>>

\* Mutant of SleepEnds: an interrupted sleep is not resumed.
SleepEndsMutant ==
    /\ pc = "sleep"
    /\ timestamp' = wait.until
    /\ pc' = "hook"
    /\ wait' = NoWait
    /\ UNCHANGED <<clock, caller, last_timestamp_, cond, procs, history>>

SleepEnds ==
    /\ pc = "sleep"
    /\ clock >= wait.until
    /\ timestamp' = wait.until
    /\ pc' = "hook"
    /\ wait' = NoWait
    /\ UNCHANGED <<clock, caller, last_timestamp_, cond, procs, history>>

\* Mutant of Hook: the copy of the table is kept over the next call too.
HookMutant ==
    /\ pc = "hook"
    /\ IF procs = 0
       THEN UNCHANGED history
       ELSE /\ told' = timestamp
            /\ late' = IF enabled_ THEN late ELSE late + 1
            /\ stale' = IF procs = procs_ THEN stale ELSE stale + 1
    /\ pc' = IF procs # procs_ /\ enabled_ THEN "vblank" ELSE "store"
    /\ wait' = VBlankWait
    /\ UNCHANGED <<clock, caller, last_timestamp_, cond, procs, timestamp>>

\* procs->vsync, called without the lock.
Hook ==
    /\ pc = "hook"
    /\ IF procs = 0
       THEN UNCHANGED history
       ELSE /\ told' = timestamp
            /\ late' = IF enabled_ THEN late ELSE late + 1
            /\ stale' = IF procs = procs_ THEN stale ELSE stale + 1
    /\ pc' = "store"
    /\ UNCHANGED <<clock, caller, last_timestamp_, cond, procs, wait, timestamp>>

\* Without the lock: a reset by a VSyncControl meanwhile is undone.
Store ==
    /\ pc = "store"
    /\ last_timestamp_' = timestamp
    /\ pc' = "routine"
    /\ UNCHANGED <<clock, caller, cond, procs, wait, timestamp, history>>

-----------------------------------------------------------------------------
Routine == RoutineWaits \/ RoutineCopies \/ RoutineReturns \/ WaitVBlank
               \/ SyntheticWaitVBlank \/ SleepEnds \/ Hook \/ Store

Next ==
    \/ Tick
    \/ SetProcs
    \/ \E enabled \in BOOLEAN : VSyncControl(enabled)
    \/ SpuriousWakeup
    \/ Routine

\* The worker runs, and the waits it asks for end.
Fairness == WF_vars(Routine)

Spec == Init /\ [][Next]_vars /\ Fairness

-----------------------------------------------------------------------------
(***************************************************************************)
(* Properties.                                                             *)
(***************************************************************************)
\* Once the events are off at most one more hook is called, the one whose
\* vblank the worker was already waiting for.
OneCallAfterDisable == ~enabled_ => late <= 1

\* The comment in Routine: a change of procs_ takes effect at the latest with
\* the second vsync after it, whatever the calls that come with it.
OneCallToOldProcs == stale <= 1

\* The vsync after current in phase with phase, as the comment of
\* GetPhasedVSync describes it: the first instant after current that is a whole
\* number of frames from phase, or a frame from now when there is no phase.
NextInPhase(vsync, frame_ns, current, phase) ==
    IF phase < 0
    THEN vsync = current + frame_ns
    ELSE /\ vsync > current /\ (vsync - phase) % frame_ns = 0
         /\ \A t \in current + 1 .. vsync - 1 : (t - phase) % frame_ns # 0

\* Every synthetic sleep ends at that vsync, in the first frame after a change
\* of mode and after a reset that lost the race with Store, too.
SleepsInPhase ==
    pc = "sleep" =>
        NextInPhase(wait.until, wait.frame_ns, wait.since, wait.phase)

\* The timestamps told to SurfaceFlinger advance, by the kernel's clock or by
\* the computed one and from one to the other, but for the part of a
\* microsecond that a kernel timestamp leaves out.
TimestampsAdvance ==
    [][told' # told => told' > told - (Granule - 1)]_told

\* A worker that sleeps while the events are on wakes up: VSyncControl's
\* signal is not lost.
EnableWakes == (enabled_ /\ pc = "waiting") ~> (pc # "waiting" \/ ~enabled_)
=============================================================================
