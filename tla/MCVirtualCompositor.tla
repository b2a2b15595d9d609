------------------------ MODULE MCVirtualCompositor ------------------------
(***************************************************************************)
(* Model checking of VirtualCompositor.                                    *)
(***************************************************************************)
EXTENDS VirtualCompositor
=============================================================================
