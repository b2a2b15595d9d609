------------------------- MODULE VSyncWorkerProofs -------------------------
(***************************************************************************)
(* Safety of VSyncWorker for any frame times, any resolution of the        *)
(* kernel's clock and any number of calls: how late a callback can come,   *)
(* that synthetic vsyncs stay in phase and that timestamps advance.        *)
(***************************************************************************)
EXTENDS VSyncWorker, TLAPS

-----------------------------------------------------------------------------
(***************************************************************************)
(* Arithmetic of GetPhasedVSync and of the kernel's timestamps.            *)
(***************************************************************************)
\* Division with remainder, as int64_t division is used in GetPhasedVSync.
LEMMA DivMod ==
    ASSUME NEW a \in Int, NEW f \in Nat \ {0}
    PROVE  /\ a \div f \in Int
           /\ a % f \in 0 .. f - 1
           /\ a = f * (a \div f) + (a % f)
  OBVIOUS

\* No multiple of a frame lies strictly between two that follow each other.
LEMMA NoMultipleBetween ==
    ASSUME NEW f \in Nat \ {0}, NEW k \in Int, NEW t \in Int,
           t > f * k, t < f * (k + 1)
    PROVE  t % f # 0
<1> SUFFICES ASSUME t % f = 0 PROVE FALSE
  OBVIOUS
<1> DEFINE q == t \div f
<1>1. q \in Int /\ t = f * q
  BY DivMod
<1> HIDE DEF q
<1>2. CASE q <= k
  <2>1. f * q <= f * k
    BY <1>1, <1>2
  <2>. QED
    BY <1>1, <2>1
<1>3. CASE q >= k + 1
  <2>1. f * q >= f * (k + 1)
    BY <1>1, <1>3
  <2>. QED
    BY <1>1, <2>1
<1>. QED
  BY <1>1, <1>2, <1>3

\* GetPhasedVSync computes what its comment describes: the first vsync after
\* the current time that is in phase with the last timestamp.
LEMMA PhasedVSyncIsNext ==
    ASSUME last_timestamp_ \in Int, NEW frame_ns \in Nat \ {0}, NEW current \in Nat
    PROVE  /\ GetPhasedVSync(frame_ns, current) \in Nat
           /\ GetPhasedVSync(frame_ns, current) > current
           /\ NextInPhase(GetPhasedVSync(frame_ns, current), frame_ns, current,
                          last_timestamp_)
<1>1. CASE last_timestamp_ < 0
  BY <1>1 DEF GetPhasedVSync, NextInPhase
<1>2. CASE last_timestamp_ >= 0
  <2> DEFINE since == current - last_timestamp_
             k == since \div frame_ns
             vsync == frame_ns * (k + 1) + last_timestamp_
  <2>1. since \in Int /\ k \in Int /\ since % frame_ns \in 0 .. frame_ns - 1
        /\ since = frame_ns * k + (since % frame_ns)
    BY DivMod
  <2>2. GetPhasedVSync(frame_ns, current) = vsync
    BY <1>2 DEF GetPhasedVSync
  <2> HIDE DEF k
  <2>3. frame_ns * (k + 1) = frame_ns * k + frame_ns /\ frame_ns * k \in Int
    BY <2>1
  <2>4. vsync \in Int /\ vsync > current /\ vsync - last_timestamp_ = frame_ns * (k + 1)
    BY <2>1, <2>3
  <2>5. (vsync - last_timestamp_) % frame_ns = 0
    <3>1. \A m \in Int : (frame_ns * m) % frame_ns = 0
      OBVIOUS
    <3>. QED
      BY <2>1, <2>4, <3>1
  <2>6. ASSUME NEW t \in current + 1 .. vsync - 1
        PROVE  (t - last_timestamp_) % frame_ns # 0
    <3>1. t \in Int /\ t - last_timestamp_ \in Int
      BY <2>4
    <3>2. t - last_timestamp_ > frame_ns * k
      BY <2>1, <2>3, <3>1
    <3>3. t - last_timestamp_ < frame_ns * (k + 1)
      BY <2>3, <2>4, <3>1
    <3>. QED
      BY <2>1, <3>1, <3>2, <3>3, NoMultipleBetween
  <2>. QED
    BY <1>2, <2>2, <2>4, <2>5, <2>6 DEF NextInPhase
<1>. QED
  BY <1>1, <1>2

\* A kernel timestamp is the time of the vblank but for a part of a microsecond.
LEMMA TimestampOfVBlank ==
    ASSUME NEW vblank \in Nat
    PROVE  /\ VBlankTimestamp(vblank) \in 0 .. vblank
           /\ VBlankTimestamp(vblank) > vblank - Granule
<1> DEFINE q == vblank \div Granule
<1>1. q \in Int /\ vblank % Granule \in 0 .. Granule - 1
      /\ vblank = Granule * q + (vblank % Granule)
  BY GranuleAssumption, DivMod
<1>2. VBlankTimestamp(vblank) = Granule * q
  BY DEF VBlankTimestamp
<1> HIDE DEF q
<1>3. Granule * q \in Int /\ Granule * q > vblank - Granule /\ Granule * q <= vblank
  BY <1>1, GranuleAssumption
<1>4. q >= 0
  <2> SUFFICES ASSUME q <= -1 PROVE FALSE
    BY <1>1
  <2>1. Granule * q <= Granule * (-1)
    BY <1>1, GranuleAssumption
  <2>. QED
    BY <1>3, <2>1, GranuleAssumption
<1>5. Granule * q >= 0
  BY <1>1, <1>4, GranuleAssumption
<1>. QED
  BY <1>2, <1>3, <1>5

-----------------------------------------------------------------------------
(***************************************************************************)
(* The inductive invariant.                                                *)
(***************************************************************************)
\* Nothing Routine knows lies in the future.
NotInFuture ==
    /\ last_timestamp_ <= clock
    /\ told <= clock
    /\ pc \in {"vblank", "sleep"} => wait.since <= clock
    /\ pc \in {"hook", "store"} => timestamp <= clock

\* The wait in progress began after the last callback, and the timestamp it
\* ends with is later, but for the part of a microsecond the kernel drops.
WaitsForLater ==
    /\ pc \in {"vblank", "sleep"} => told <= wait.since
    /\ pc = "sleep" => wait.until > wait.since
    /\ pc = "hook" => timestamp > told - (Granule - 1)

\* With the events off, a worker that made its late callback is not on the way
\* to another.
LateIsLast ==
    ~enabled_ => late <= 1 /\ (pc \in {"vblank", "sleep", "hook"} => late = 0)

\* A worker that called a table that had been replaced has copied the new one
\* before it waits again.
StaleIsLast ==
    stale <= 1 /\ (pc \in {"vblank", "sleep", "hook"} /\ procs # procs_ => stale = 0)

\* The worker's place says whether it is in a condition wait.
CondAtWait == (cond # "none") <=> (pc = "waiting")

IInv == /\ TypeOK /\ NotInFuture /\ WaitsForLater /\ LateIsLast /\ StaleIsLast
        /\ CondAtWait /\ SleepsInPhase

\* Initially the worker has called nobody and waits for nothing.
LEMMA InitInvariant == Init => IInv
<1> SUFFICES ASSUME Init PROVE IInv
  OBVIOUS
<1>1. TypeOK
  <2>1. NoWait \in Wait
    BY BoundAssumption DEF NoWait, Wait, Time
  <2>2. 0 \in Time /\ 0 \in 0 .. MaxProcs /\ 0 \in 0 .. MaxToggles
    BY BoundAssumption DEF Time
  <2>3. enabled_ \in BOOLEAN
    BY DEF Init
  <2>. QED
    BY <2>1, <2>2, <2>3 DEF Init, TypeOK
<1>2. NotInFuture /\ WaitsForLater
  BY DEF Init, NotInFuture, WaitsForLater
<1>3. LateIsLast /\ StaleIsLast /\ CondAtWait /\ SleepsInPhase
  BY DEF Init, LateIsLast, StaleIsLast, CondAtWait, SleepsInPhase
<1>. QED
  BY <1>1, <1>2, <1>3 DEF IInv

\* Time passes, tables are replaced and events are switched at any point of
\* Routine.
LEMMA CallerSteps ==
    ASSUME IInv,
           \/ Tick \/ SetProcs \/ SpuriousWakeup
           \/ \E enabled \in BOOLEAN : VSyncControl(enabled)
    PROVE  IInv'
<1> USE BoundAssumption DEF IInv, TypeOK, NotInFuture, WaitsForLater, LateIsLast,
        StaleIsLast, CondAtWait, SleepsInPhase, Time
<1>1. CASE Tick
  BY <1>1 DEF Tick, history, Wait
<1>2. CASE SetProcs
  BY <1>2 DEF SetProcs
<1>3. ASSUME NEW enabled \in BOOLEAN, VSyncControl(enabled) PROVE IInv'
  BY <1>3 DEF VSyncControl, Signal
<1>4. CASE SpuriousWakeup
  BY <1>4 DEF SpuriousWakeup, caller, history
<1>. QED
  BY <1>1, <1>2, <1>3, <1>4

\* Routine tests enabled_, waits for a signal, and copies what the lock
\* protects.
LEMMA CopySteps ==
    ASSUME IInv, RoutineWaits \/ RoutineCopies \/ RoutineReturns
    PROVE  IInv'
<1> USE BoundAssumption, FramesAssumption
    DEF IInv, TypeOK, NotInFuture, WaitsForLater, LateIsLast,
        StaleIsLast, CondAtWait, SleepsInPhase, Time, Wait, NoWait, caller, history
<1>1. CASE RoutineWaits
  BY <1>1 DEF RoutineWaits
<1>2. CASE RoutineCopies
  BY <1>2 DEF RoutineCopies, MayCopy, VBlankWait
<1>3. CASE RoutineReturns
  BY <1>3 DEF RoutineReturns
<1>. QED
  BY <1>1, <1>2, <1>3

\* The waits for a vblank: in the kernel, or asleep until the next in phase.
LEMMA VBlankSteps ==
    ASSUME IInv, WaitVBlank \/ SyntheticWaitVBlank \/ SleepEnds
    PROVE  IInv'
<1> USE BoundAssumption, FramesAssumption, GranuleAssumption
    DEF IInv, TypeOK, NotInFuture, WaitsForLater, LateIsLast,
        StaleIsLast, CondAtWait, SleepsInPhase, Time, Wait, NoWait, caller, history
<1>1. CASE WaitVBlank
  <2>1. PICK vblank \in wait.since + 1 .. clock : timestamp' = VBlankTimestamp(vblank)
    BY <1>1 DEF WaitVBlank
  <2>2. vblank \in Nat /\ vblank > wait.since /\ vblank <= clock
    BY <1>1 DEF WaitVBlank
  <2>3. timestamp' \in 0 .. vblank /\ timestamp' > vblank - Granule
    BY <2>1, <2>2, TimestampOfVBlank
  <2>4. timestamp' > told - (Granule - 1)
    BY <1>1, <2>2, <2>3 DEF WaitVBlank
  <2>. QED
    BY <1>1, <2>2, <2>3, <2>4 DEF WaitVBlank
<1>2. CASE SyntheticWaitVBlank
  <2>1. PICK frame_ns \in Frames :
            wait' = [since |-> clock, until |-> GetPhasedVSync(frame_ns, clock),
                     frame_ns |-> frame_ns, phase |-> last_timestamp_]
    BY <1>2 DEF SyntheticWaitVBlank
  <2>2. /\ GetPhasedVSync(frame_ns, clock) \in Nat
        /\ GetPhasedVSync(frame_ns, clock) > clock
        /\ NextInPhase(GetPhasedVSync(frame_ns, clock), frame_ns, clock,
                       last_timestamp_)
    BY PhasedVSyncIsNext
  <2>3. SleepsInPhase'
    BY <2>1, <2>2 DEF NextInPhase
  <2>. QED
    BY <1>2, <2>1, <2>2, <2>3 DEF SyntheticWaitVBlank
<1>3. CASE SleepEnds
  BY <1>3 DEF SleepEnds
<1>. QED
  BY <1>1, <1>2, <1>3

\* The callback, and the timestamp noted without the lock.
LEMMA HookSteps ==
    ASSUME IInv, Hook \/ Store
    PROVE  IInv'
<1> USE BoundAssumption, GranuleAssumption
    DEF IInv, TypeOK, NotInFuture, WaitsForLater, LateIsLast,
        StaleIsLast, CondAtWait, SleepsInPhase, Time, caller, history
<1>1. CASE Hook
  BY <1>1 DEF Hook
<1>2. CASE Store
  BY <1>2 DEF Store
<1>. QED
  BY <1>1, <1>2

\* Every step keeps the invariant.
LEMMA StepInvariant == IInv /\ [Next]_vars => IInv'
<1> SUFFICES ASSUME IInv, [Next]_vars PROVE IInv'
  OBVIOUS
<1>1. CASE UNCHANGED vars
  BY <1>1 DEF vars, IInv, TypeOK, NotInFuture, WaitsForLater, LateIsLast,
              StaleIsLast, CondAtWait, SleepsInPhase, NextInPhase, Time, Wait
<1>. QED
  BY <1>1, CallerSteps, CopySteps, VBlankSteps, HookSteps DEF Next, Routine

\* The invariant holds in every behaviour.
LEMMA Invariant == Spec => []IInv
  BY InitInvariant, StepInvariant, PTL DEF Spec

-----------------------------------------------------------------------------
(***************************************************************************)
(* The theorems.                                                           *)
(***************************************************************************)
\* All variables of the worker keep their types; in particular no computed
\* vsync lies before the start of time, whatever the reset of last_timestamp_
\* that races with it.
THEOREM VSyncTypeCorrect == Spec => []TypeOK
<1>1. IInv => TypeOK
  BY DEF IInv
<1>. QED
  BY <1>1, Invariant, PTL

\* After VSyncControl(false) at most one more callback is made.
THEOREM AtMostOneLateCall == Spec => []OneCallAfterDisable
<1>1. IInv => OneCallAfterDisable
  BY DEF IInv, LateIsLast, OneCallAfterDisable
<1>. QED
  BY <1>1, Invariant, PTL

\* After SetProcs at most one more callback goes to the old table.
THEOREM AtMostOneStaleCall == Spec => []OneCallToOldProcs
<1>1. IInv => OneCallToOldProcs
  BY DEF IInv, StaleIsLast, OneCallToOldProcs
<1>. QED
  BY <1>1, Invariant, PTL

\* Every synthetic sleep ends at the next vsync in phase.
THEOREM SyntheticInPhase == Spec => []SleepsInPhase
<1>1. IInv => SleepsInPhase
  BY DEF IInv
<1>. QED
  BY <1>1, Invariant, PTL

\* The timestamps told to SurfaceFlinger advance, whichever of the kernel and
\* the computation each of them comes from.
THEOREM TimestampsOnlyAdvance == Spec => TimestampsAdvance
<1>1. IInv /\ [Next]_vars => [told' # told => told' > told - (Granule - 1)]_told
  <2> SUFFICES ASSUME IInv, [Next]_vars, told' # told
               PROVE  told' > told - (Granule - 1)
    OBVIOUS
  <2>1. Hook
    BY DEF Next, Routine, vars, Tick, SetProcs, VSyncControl, SpuriousWakeup,
           RoutineWaits, RoutineCopies, RoutineReturns, WaitVBlank,
           SyntheticWaitVBlank, SleepEnds, Store, history
  <2>. QED
    BY <2>1 DEF Hook, IInv, WaitsForLater, history
<1>. QED
  BY <1>1, Invariant, PTL DEF Spec, TimestampsAdvance
=============================================================================
