------------------------ MODULE MCDisplayCompositor ------------------------
(***************************************************************************)
(* Model checking of DisplayCompositor.                                    *)
(***************************************************************************)
EXTENDS DisplayCompositor
=============================================================================
