--------------------------- MODULE SeparateRects ---------------------------
(***************************************************************************)
(* separate_rects: the line sweep that cuts overlapping rectangles into    *)
(* disjoint ones, each with the set of rectangles that cover it.           *)
(*                                                                         *)
(* The loop over the vertical edges is the state machine: a step takes the *)
(* next edge, marks up the sweep line and, at the last edge with its x,    *)
(* compares the sweep line with the rectangles that are still open.  The   *)
(* loops down the sweep line inside a step are set definitions: what they  *)
(* compute at a y depends on the events at or above y alone.  Ids count    *)
(* from 1, where the code counts from 0.                                   *)
(***************************************************************************)
EXTENDS Integers, Sequences, FiniteSets

CONSTANTS
    Inputs,      \* the vectors of rectangles considered
    MaxElements  \* IdSet<TNum>::max_elements

\* A rectangle; it covers the unit cells from its left and top edge up to its
\* right and bottom edge.
Rect == [left : Int, top : Int, right : Int, bottom : Int]

ASSUME InputAssumption == Inputs \subseteq Seq(Rect)
ASSUME ElementsAssumption == MaxElements \in Nat

VARIABLES
    in,
    sweep_h_events,  \* the vertical edges still to come
    sweep_v_events,  \* the horizontal edges on the sweep line
    started_rects,   \* rectangles without a right edge yet
    out,
    line             \* x of the last edge taken, -1 before the first

vars == <<in, sweep_h_events, sweep_v_events, started_rects, out, line>>

Event == [type : {"START", "END"}, at : Int, rect_id : Nat]
StartedRect == [id_set : SUBSET Nat, left : Int, top : Int, bottom : Int]
RectSet == [id_set : SUBSET Nat, rect : Rect]

-----------------------------------------------------------------------------
\* The order of a set of events, which is also its key.
SweepBefore(a, b) == a.at < b.at \/ (a.at = b.at /\ a.rect_id < b.rect_id)

First(events) ==
    CHOOSE e \in events : \A f \in events \ {e} : SweepBefore(e, f)

\* Mutant of Empty: a rectangle without height passes.
EmptyMutant(r) == r.left >= r.right

Empty(r) == r.left >= r.right \/ r.top >= r.bottom

Edges(i, first, last) == {[type |-> "START", at |-> first, rect_id |-> i],
                          [type |-> "END", at |-> last, rect_id |-> i]}

\* The edges of the rectangles that are not empty; none when there are more
\* rectangles than an id set is thought to hold.
HEvents(rects) ==
    IF Len(rects) > MaxElements THEN {}
    ELSE UNION {Edges(i, rects[i].left, rects[i].right) :
                    i \in {j \in DOMAIN rects : ~Empty(rects[j])}}

VEvents(i) == Edges(i, in[i].top, in[i].bottom)

Init ==
    /\ in \in Inputs
    /\ sweep_h_events = HEvents(in)
    /\ sweep_v_events = {}
    /\ started_rects = {}
    /\ out = {}
    /\ line = -1

-----------------------------------------------------------------------------
\* The running set once every event at y is taken: the rectangles whose last
\* event down to y is a start.
ActiveSet(events, y) ==
    {e.rect_id : e \in {d \in events :
        /\ d.type = "START" /\ d.at <= y
        /\ \A f \in events : f.rect_id = d.rect_id /\ d.at < f.at => f.at > y}}

\* The rectangles the sweep line meets at x: a region is bounded by the y of
\* the next event, and regions nothing covers are passed over.
Met(events, x) ==
    LET ys == {e.at : e \in events} IN
    {[id_set |-> ActiveSet(events, y[1]), left |-> x, top |-> y[1], bottom |-> y[2]] :
        y \in {z \in ys \X ys :
            /\ z[1] < z[2]
            /\ \A u \in ys : u <= z[1] \/ z[2] <= u
            /\ ActiveSet(events, z[1]) # {}}}

\* Mutant of SameKey: the set of ids is not compared.
SameKeyMutant(a, b) == a.top = b.top /\ a.bottom = b.bottom

\* The left edge is not part of the key of a started rectangle.
SameKey(a, b) == a.top = b.top /\ a.bottom = b.bottom /\ a.id_set = b.id_set

Seen(r, met) == \E m \in met : SameKey(r, m)

\* A started rectangle is ended by the first stop of the sweep without it.
Ended(r, x) == [id_set |-> r.id_set,
                rect |-> [left |-> r.left, top |-> r.top, right |-> x,
                          bottom |-> r.bottom]]

\* What the sweep line leaves of the started rectangles at a stop.
Stop(x, events) ==
    LET met == Met(events, x) IN
    /\ started_rects' = {r \in started_rects : Seen(r, met)}
                            \cup {m \in met : ~Seen(m, started_rects)}
    /\ out' = out \cup {Ended(r, x) : r \in {s \in started_rects : ~Seen(s, met)}}

\* Mutant of Sweep: no peek ahead, a stop at every edge.
SweepStopsMutant ==
    /\ sweep_h_events # {}
    /\ LET event == First(sweep_h_events)
           later == sweep_h_events \ {event}
       IN  /\ sweep_v_events' = IF event.type = "START"
                                THEN sweep_v_events \cup VEvents(event.rect_id)
                                ELSE sweep_v_events \ VEvents(event.rect_id)
           /\ Stop(event.at, sweep_v_events')
           /\ sweep_h_events' = later
           /\ line' = event.at
    /\ UNCHANGED in

\* Mutant of Sweep: the peek ahead takes the end of the list for a shared edge.
SweepMutant ==
    /\ sweep_h_events # {}
    /\ LET event == First(sweep_h_events)
           later == sweep_h_events \ {event}
       IN  /\ sweep_v_events' = IF event.type = "START"
                                THEN sweep_v_events \cup VEvents(event.rect_id)
                                ELSE sweep_v_events \ VEvents(event.rect_id)
           /\ IF later = {} \/ First(later).at = event.at
              THEN UNCHANGED <<started_rects, out>>
              ELSE Stop(event.at, sweep_v_events')
           /\ sweep_h_events' = later
           /\ line' = event.at
    /\ UNCHANGED in

Sweep ==
    /\ sweep_h_events # {}
    /\ LET event == First(sweep_h_events)
           later == sweep_h_events \ {event}
       IN  /\ sweep_v_events' = IF event.type = "START"
                                THEN sweep_v_events \cup VEvents(event.rect_id)
                                ELSE sweep_v_events \ VEvents(event.rect_id)
           /\ IF later # {} /\ First(later).at = event.at
              THEN UNCHANGED <<started_rects, out>>
              ELSE Stop(event.at, sweep_v_events')
           /\ sweep_h_events' = later
           /\ line' = event.at
    /\ UNCHANGED in

Next == Sweep

\* The loop runs to its end.
Spec == Init /\ [][Next]_vars /\ WF_vars(Next)

-----------------------------------------------------------------------------
(***************************************************************************)
(* Properties.                                                             *)
(***************************************************************************)
TypeOK ==
    /\ in \in Inputs
    /\ \A e \in sweep_h_events : e \in Event
    /\ \A e \in sweep_v_events : e \in Event
    /\ \A r \in started_rects : r \in StartedRect
    /\ \A r \in out : r \in RectSet /\ ~Empty(r.rect)
    /\ line \in Int

Covers(r, x, y) == r.left <= x /\ x < r.right /\ r.top <= y /\ y < r.bottom

\* The ids of the input rectangles over a cell: the reference.
Covering(x, y) == {i \in DOMAIN in : Covers(in[i], x, y)}

\* The stretches of one row of cells the input touches.
Rows == UNION {in[i].top .. in[i].bottom - 1 : i \in DOMAIN in}
Columns == UNION {in[i].left .. in[i].right - 1 : i \in DOMAIN in}

\* What has been swept: finished rectangles, and the open ones up to the line.
Swept == out \cup {Ended(r, line) : r \in started_rects}

AtStop == \A e \in sweep_h_events : e.at > line

\* At every stop of the sweep, exactly the cells behind the line that some
\* input rectangle covers lie in a finished or an open rectangle, in only one,
\* and its id set is the set of the rectangles over the cell.  At the end of
\* the sweep this says what separate_rects.h promises of the output.
SweptExactly ==
    AtStop /\ Len(in) <= MaxElements =>
        \A x \in Columns, y \in Rows : x < line =>
            LET over == {r \in Swept : Covers(r.rect, x, y)} IN
            {r.id_set : r \in over} = {Covering(x, y)} \ {{}}
                /\ Cardinality(over) <= 1

\* The asserts of the sweep: edges are removed only if they are there, and no
\* region that is covered is the last of its line.
AssertsHold ==
    /\ \A e \in sweep_h_events :
           e.type = "END" /\ (\A f \in sweep_h_events : f.rect_id = e.rect_id => f = e)
               => VEvents(e.rect_id) \subseteq sweep_v_events
    /\ AtStop => \A e \in sweep_v_events :
           (\A f \in sweep_v_events : f.at <= e.at)
               => ActiveSet(sweep_v_events, e.at) = {}

\* No open rectangle is left behind: at the end everything has been output.
EverythingEnded == <>(sweep_h_events = {} /\ started_rects = {})
=============================================================================
