--------------------------- MODULE MCVSyncWorker ---------------------------
(***************************************************************************)
(* Model checking of VSyncWorker.                                          *)
(***************************************************************************)
EXTENDS VSyncWorker
=============================================================================
