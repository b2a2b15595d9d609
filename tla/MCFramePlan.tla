---------------------------- MODULE MCFramePlan ----------------------------
(***************************************************************************)
(* Model checking of FramePlan.                                            *)
(***************************************************************************)
EXTENDS FramePlan

CONSTANTS p1, p2, p3, o1, o2

Primaries == <<p1, p2, p3>>
Overlays == <<o1, o2>>

Plain(cells) == [display_frame |-> cells, protected |-> FALSE]
Protected(cells) == [display_frame |-> cells, protected |-> TRUE]
Corner == {CHOOSE c \in Cells : TRUE}

\* No layers at all, and layers that leave a cell bare, that can be squashed in
\* one cell alone, that need pre-composition with and without a squash
\* framebuffer, and that are protected.
SmallGeometries ==
    {<<>>,
     <<Plain(Corner)>>,
     <<Plain(Cells), Protected(Corner)>>,
     <<Plain(Cells), Plain(Cells), Plain(Corner)>>,
     <<Plain(Cells), Protected(Cells), Plain(Corner)>>,
     <<Plain(Cells), Protected(Cells), Protected(Corner), Plain(Cells)>>,
     <<Plain(Corner), Plain(Corner), Plain(Corner), Plain(Corner)>>}
=============================================================================
