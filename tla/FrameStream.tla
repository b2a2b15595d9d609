---------------------------- MODULE FrameStream ----------------------------
(***************************************************************************)
(* What the two queues and two workers of a display promise its callers:   *)
(* frames reach the kernel one at a time, in the order in which they were  *)
(* accepted, each at most once.  A composition may leave the stream early  *)
(* wherever it stands: a DPMS or MODESET is applied without waiting for    *)
(* the frames in front of it, and a frame may be dropped by an error.      *)
(***************************************************************************)
EXTENDS Naturals, Sequences, SequencesExt

CONSTANTS Compositions, None

VARIABLES
    pending,   \* accepted compositions, oldest first
    applying   \* the frame being applied, or None

Init == pending = <<>> /\ applying = None

\* A composition is accepted behind all others, and only once.
Accept ==
    /\ \E c \in Compositions \ Range(pending) : pending' = Append(pending, c)
    /\ UNCHANGED applying

LeaveEarly ==
    /\ \E i \in DOMAIN pending : pending' = RemoveAt(pending, i)
    /\ UNCHANGED applying

\* Only the oldest pending composition can be applied as a frame.
Apply ==
    /\ pending # <<>>
    /\ applying = None
    /\ Head(pending).type = "FRAME"
    /\ applying' = Head(pending)
    /\ pending' = Tail(pending)

Finish ==
    /\ applying # None
    /\ applying' = None
    /\ UNCHANGED pending

Next == Accept \/ LeaveEarly \/ Apply \/ Finish

Spec == Init /\ [][Next]_<<pending, applying>>
=============================================================================
