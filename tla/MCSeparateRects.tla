-------------------------- MODULE MCSeparateRects --------------------------
(***************************************************************************)
(* Model checking of SeparateRects.                                        *)
(***************************************************************************)
EXTENDS SeparateRects

\* The rectangles on a grid, and two that are empty.
Proper(width, height) ==
    {r \in [left : 0 .. width, top : 0 .. height,
            right : 0 .. width, bottom : 0 .. height] :
         r.left < r.right /\ r.top < r.bottom}
Improper == {[left |-> 0, top |-> 2, right |-> 2, bottom |-> 1],
             [left |-> 2, top |-> 0, right |-> 1, bottom |-> 2]}

Tuples(S, n) == [1 .. n -> S]

\* Every pair of rectangles on nine cells, every triple on six, every choice of
\* four with the empty ones on four, and vectors that are too long.
GridInputs ==
    Tuples(Proper(3, 3), 2) \cup Tuples(Proper(3, 2), 3)
        \cup Tuples(Proper(2, 2) \cup Improper, 4)
        \cup Tuples(Improper \cup {r \in Proper(2, 2) : r.left = 0 /\ r.top = 0}, 5)
=============================================================================
