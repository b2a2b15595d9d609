---------------------------- MODULE MCHwcDevice ----------------------------
(***************************************************************************)
(* Model checking of HwcDevice.                                            *)
(***************************************************************************)
EXTENDS HwcDevice

CONSTANTS primary, external

TwoConnectors == <<primary, external>>
OneConnector == <<primary>>

Sendable(layers, null) == [layers |-> layers, null_handle |-> null]

\* A target next to another layer, a target without a buffer, which is an
\* error, and one without a buffer next to a skipped layer, which is none.
SmallContents ==
    {Sendable({"framebuffer", "target"}, FALSE), Sendable({"target"}, TRUE),
     Sendable({"skip", "target"}, TRUE)}
PlainContents == {Sendable({"target"}, FALSE)}
=============================================================================
