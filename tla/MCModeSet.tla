----------------------------- MODULE MCModeSet -----------------------------
(***************************************************************************)
(* Model checking of ModeSet.                                              *)
(***************************************************************************)
EXTENDS ModeSet

\* Two monitors that share a mode.
Lists == {<<1, 2>>, <<2>>}
=============================================================================
