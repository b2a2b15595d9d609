-------------------------- MODULE MCFramePipeline --------------------------
(***************************************************************************)
(* Model checking of FramePipeline.                                        *)
(***************************************************************************)
EXTENDS FramePipeline

\* Every plan.
AllPlans == {p \in Plan : p.changed => ~p.render /\ ~p.uses}

\* The plans that leave the squash framebuffers alone.
PreCompPlans == {p \in AllPlans : ~p.render /\ ~p.uses}
=============================================================================
