------------------------ MODULE SeparateRectsProofs ------------------------
(***************************************************************************)
(* separate_rects is right for every vector of rectangles: what the sweep  *)
(* has passed is cut exactly, and the asserts of the code never fire.      *)
(*                                                                         *)
(* The sweep finds the first of its edges, and a covered cell lies between *)
(* two edges of the sweep line: both need the least, or the greatest,      *)
(* element of a finite set of coordinates, which is where the proof        *)
(* begins.                                                                 *)
(***************************************************************************)
EXTENDS SeparateRects, FiniteSetTheorems, FunctionTheorems,
        WellFoundedInduction, TLAPS

-----------------------------------------------------------------------------
(***************************************************************************)
(* Finite sets of coordinates.                                             *)
(***************************************************************************)
\* Some element of a set of numbers is the least.
LEMMA LeastNat ==
    ASSUME NEW S, S \subseteq Nat, S # {}
    PROVE  \E m \in S : \A n \in S : m <= n
<1> DEFINE R == {ss \in Nat \X Nat : ss[1] < ss[2]}
<1>1. IsWellFoundedOn(R, Nat)
    BY NatLessThanWellFounded DEF OpToRel
<1>2. PICK m \in S : \A n \in S : ~ (<<n, m>> \in R)
    BY <1>1, WFMin
<1>3. ASSUME NEW n \in S PROVE m <= n
    <2>1. ~ (n < m)
        BY <1>2, <1>3
    <2>2. QED
        BY <2>1
<1>4. QED
    BY <1>3

\* Of coordinates, a finite set has a least one: the one with fewest below it.
LEMMA LeastInt ==
    ASSUME NEW S, IsFiniteSet(S), S \subseteq Int, S # {}
    PROVE  \E m \in S : \A n \in S : m <= n
<1> DEFINE Below(m) == {n \in S : n < m}
           ranks == {Cardinality(Below(m)) : m \in S}
<1>1. \A m \in S : Below(m) \subseteq S /\ IsFiniteSet(Below(m))
    BY FS_Subset
<1>2. \A m \in S : Cardinality(Below(m)) \in Nat
    BY <1>1, FS_CardinalityType
<1>3. PICK k \in ranks : \A j \in ranks : k <= j
    <2>1. ranks \subseteq Nat /\ ranks # {}
        BY <1>2
    <2> HIDE DEF ranks
    <2>2. QED
        BY <2>1, LeastNat
<1>4. PICK m \in S : Cardinality(Below(m)) = k
    OBVIOUS
<1>5. ASSUME NEW n \in S, n < m PROVE FALSE
    <2>0. m \in Int /\ n \in Int
        OBVIOUS
    <2>1. Below(n) \subseteq Below(m) /\ n \in Below(m) /\ n \notin Below(n)
        <3>1. n \in Below(m) /\ n \notin Below(n)
            BY <1>5, <2>0
        <3>2. ASSUME NEW i \in Below(n) PROVE i \in Below(m)
            <4>1. i \in S /\ i \in Int /\ i < n
                OBVIOUS
            <4>2. i < m
                BY <1>5, <2>0, <4>1
            <4>3. QED
                BY <4>1, <4>2
        <3>3. QED
            BY <3>1, <3>2
    <2>2. Cardinality(Below(m)) <= Cardinality(Below(n))
        BY <1>3, <1>4
    <2> HIDE DEF Below
    <2>3. /\ Cardinality(Below(n)) <= Cardinality(Below(m))
          /\ Cardinality(Below(m)) = Cardinality(Below(n)) => Below(m) = Below(n)
        BY <1>1, <2>1, FS_Subset
    <2>4. QED
        BY <1>2, <2>1, <2>2, <2>3
<1>6. QED
    BY <1>5

\* And a greatest one.
LEMMA GreatestInt ==
    ASSUME NEW S, IsFiniteSet(S), S \subseteq Int, S # {}
    PROVE  \E m \in S : \A n \in S : n <= m
<1> DEFINE T == {0 - n : n \in S}
           f == [n \in S |-> 0 - n]
<1>1. f \in Surjection(S, T)
    BY DEF Surjection
<1>2. IsFiniteSet(T)
    BY <1>1, FS_Surjection
<1>3. T \subseteq Int /\ T # {}
    OBVIOUS
<1>4. PICK t \in T : \A u \in T : t <= u
    <2> HIDE DEF T
    <2>1. QED
        BY <1>2, <1>3, LeastInt
<1>5. PICK m \in S : t = 0 - m
    OBVIOUS
<1>6. ASSUME NEW n \in S PROVE n <= m
    <2>1. 0 - m <= 0 - n
        BY <1>4, <1>5
    <2>2. QED
        BY <2>1
<1>7. QED
    BY <1>6

-----------------------------------------------------------------------------
(***************************************************************************)
(* The edges of the rectangles.                                            *)
(***************************************************************************)
\* The rectangles that take part, and their edges.
Solid == {i \in DOMAIN in : ~Empty(in[i])}
Left(i) == [type |-> "START", at |-> in[i].left, rect_id |-> i]
Right(i) == [type |-> "END", at |-> in[i].right, rect_id |-> i]
Top(i) == [type |-> "START", at |-> in[i].top, rect_id |-> i]
Bottom(i) == [type |-> "END", at |-> in[i].bottom, rect_id |-> i]

\* An input is a vector of rectangles; one that is not empty has a width and a
\* height.
LEMMA InputFacts ==
    ASSUME in \in Inputs
    PROVE  /\ Len(in) \in Nat /\ DOMAIN in = 1 .. Len(in)
           /\ \A i \in DOMAIN in : in[i] \in Rect
           /\ \A i \in DOMAIN in : /\ in[i].left \in Int /\ in[i].right \in Int
                                   /\ in[i].top \in Int /\ in[i].bottom \in Int
           /\ Solid \subseteq DOMAIN in
           /\ \A i \in Solid : /\ i \in Nat
                               /\ in[i].left < in[i].right
                               /\ in[i].top < in[i].bottom
<1>1. in \in Seq(Rect)
    BY InputAssumption
<1>2. /\ Len(in) \in Nat /\ DOMAIN in = 1 .. Len(in)
      /\ \A i \in DOMAIN in : in[i] \in Rect
    BY <1>1
<1>3. \A i \in DOMAIN in : /\ in[i].left \in Int /\ in[i].right \in Int
                          /\ in[i].top \in Int /\ in[i].bottom \in Int
    BY <1>2 DEF Rect
<1>4. \A i \in Solid : /\ i \in Nat
                      /\ in[i].left < in[i].right
                      /\ in[i].top < in[i].bottom
    BY <1>2, <1>3 DEF Solid, Empty
<1>5. QED
    BY <1>2, <1>3, <1>4 DEF Solid

\* The edges to sweep are the left and right ones, of all rectangles or of none.
LEMMA HEventFacts ==
    ASSUME in \in Inputs
    PROVE  /\ \A e \in HEvents(in) : /\ Len(in) <= MaxElements
                                     /\ \E i \in Solid : e = Left(i) \/ e = Right(i)
           /\ Len(in) <= MaxElements => \A i \in Solid :
                  Left(i) \in HEvents(in) /\ Right(i) \in HEvents(in)
<1> DEFINE Of(i) == Edges(i, in[i].left, in[i].right)
<1>1. \A i : Of(i) = {Left(i), Right(i)}
    BY DEF Edges, Left, Right
<1>2. HEvents(in) = IF Len(in) > MaxElements THEN {}
                    ELSE UNION {Of(i) : i \in Solid}
    BY DEF HEvents, Solid
<1> HIDE DEF Of
<1>3. ~ (Len(in) > MaxElements) <=> Len(in) <= MaxElements
    BY InputFacts, ElementsAssumption
<1>4. QED
    BY <1>1, <1>2, <1>3

\* The edges of one rectangle are two, and no two rectangles share one.
LEMMA EdgesApart ==
    ASSUME NEW i, NEW j
    PROVE  /\ Left(i) # Right(j) /\ Top(i) # Bottom(j)
           /\ Left(i) = Left(j) => i = j
           /\ Right(i) = Right(j) => i = j
BY DEF Left, Right, Top, Bottom

\* The coordinates of the input are finitely many.
LEMMA CoordinatesFinite ==
    ASSUME in \in Inputs
    PROVE  /\ IsFiniteSet({in[i].left : i \in DOMAIN in}
                              \cup {in[i].right : i \in DOMAIN in})
           /\ IsFiniteSet({in[i].top : i \in DOMAIN in}
                              \cup {in[i].bottom : i \in DOMAIN in})
<1> DEFINE D == DOMAIN in
           lefts == {in[i].left : i \in D}
           rights == {in[i].right : i \in D}
           tops == {in[i].top : i \in D}
           bottoms == {in[i].bottom : i \in D}
<1>1. IsFiniteSet(D)
    BY InputFacts, FS_Interval
<1>2. /\ [i \in D |-> in[i].left] \in Surjection(D, lefts)
      /\ [i \in D |-> in[i].right] \in Surjection(D, rights)
      /\ [i \in D |-> in[i].top] \in Surjection(D, tops)
      /\ [i \in D |-> in[i].bottom] \in Surjection(D, bottoms)
    BY DEF Surjection
<1> HIDE DEF lefts, rights, tops, bottoms, D
<1>3. /\ IsFiniteSet(lefts) /\ IsFiniteSet(rights)
      /\ IsFiniteSet(tops) /\ IsFiniteSet(bottoms)
    BY <1>1, <1>2, FS_Surjection
<1>4. IsFiniteSet(lefts \cup rights) /\ IsFiniteSet(tops \cup bottoms)
    BY <1>3, FS_Union
<1>5. QED
    BY <1>4 DEF lefts, rights, tops, bottoms, D

\* The order of the edges is total, so some edge is the first.
LEMMA FirstFacts ==
    ASSUME in \in Inputs, NEW S, S \subseteq HEvents(in), S # {}
    PROVE  /\ First(S) \in S
           /\ \A f \in S \ {First(S)} : SweepBefore(First(S), f)
<1> DEFINE ats == {e.at : e \in S}
<1>1. \A e \in S : \E i \in Solid : e = Left(i) \/ e = Right(i)
    BY HEventFacts
<1>2. \A e \in S : e.at \in Int /\ e.rect_id \in Nat
    BY <1>1, InputFacts DEF Left, Right
<1>3. PICK a \in ats : \A b \in ats : a <= b
    <2>1. ats \subseteq {in[i].left : i \in DOMAIN in} \cup {in[i].right : i \in DOMAIN in}
        <3>1. \A e \in S : \E i \in DOMAIN in : e.at = in[i].left \/ e.at = in[i].right
            BY <1>1 DEF Left, Right, Solid
        <3>2. QED
            BY <3>1
    <2>2. ats \subseteq Int /\ ats # {}
        BY <1>2
    <2> HIDE DEF ats
    <2>3. IsFiniteSet(ats)
        BY <2>1, CoordinatesFinite, FS_Subset
    <2>4. QED
        BY <2>2, <2>3, LeastInt
<1> DEFINE ids == {e.rect_id : e \in {f \in S : f.at = a}}
<1>4. PICK k \in ids : \A j \in ids : k <= j
    <2>1. ids \subseteq Nat /\ ids # {}
        BY <1>2
    <2> HIDE DEF ids
    <2>2. QED
        BY <2>1, LeastNat
<1>5. PICK e \in S : e.at = a /\ e.rect_id = k
    OBVIOUS
<1>6. ASSUME NEW f \in S \ {e} PROVE SweepBefore(e, f)
    <2>1. a <= f.at
        BY <1>3
    <2>2. CASE a < f.at
        BY <1>5, <2>2 DEF SweepBefore
    <2>3. CASE a = f.at
        <3>1. k <= f.rect_id
            BY <1>4, <2>3
        <3>2. f.rect_id # k
            BY <1>1, <1>5, <2>3, InputFacts DEF Left, Right
        <3>3. k < f.rect_id
            BY <1>2, <1>5, <3>1, <3>2
        <3>4. QED
            BY <1>5, <2>3, <3>3 DEF SweepBefore
    <2>4. QED
        BY <1>2, <1>5, <2>1, <2>2, <2>3
<1>7. QED
    BY <1>6 DEF First

-----------------------------------------------------------------------------
(***************************************************************************)
(* What the sweep line meets, when the rectangles T lie across it.         *)
(***************************************************************************)
HasEdgesOf(v, T) == v = UNION {VEvents(i) : i \in T}

\* The edges of the sweep line are the top and bottom ones of T.
LEMMA LineEvents ==
    ASSUME NEW T, NEW v, HasEdgesOf(v, T)
    PROVE  \A e : e \in v <=> \E i \in T : e = Top(i) \/ e = Bottom(i)
<1>1. \A i : VEvents(i) = {Top(i), Bottom(i)}
    BY DEF VEvents, Edges, Top, Bottom
<1>2. QED
    BY <1>1 DEF HasEdgesOf

\* The running set at y: the rectangles of T over y.
LEMMA ActiveFacts ==
    ASSUME in \in Inputs, NEW T, T \subseteq Solid, NEW y \in Int,
           NEW v, HasEdgesOf(v, T)
    PROVE  ActiveSet(v, y) = {i \in T : in[i].top <= y /\ y < in[i].bottom}
<1>1. \A e : e \in v <=> \E i \in T : e = Top(i) \/ e = Bottom(i)
    BY LineEvents
<1>2. \A i \in T : /\ in[i].top \in Int /\ in[i].bottom \in Int
                  /\ in[i].top < in[i].bottom
    BY InputFacts
<1>3. \A i : /\ Top(i).type = "START" /\ Top(i).at = in[i].top
             /\ Top(i).rect_id = i
             /\ Bottom(i).type = "END" /\ Bottom(i).at = in[i].bottom
             /\ Bottom(i).rect_id = i
    BY DEF Top, Bottom
<1>4. ASSUME NEW k \in ActiveSet(v, y)
      PROVE  k \in T /\ in[k].top <= y /\ y < in[k].bottom
    <2>1. PICK d \in v : /\ d.type = "START" /\ d.at <= y /\ d.rect_id = k
                         /\ \A f \in v : f.rect_id = k /\ d.at < f.at => f.at > y
        BY DEF ActiveSet
    <2>2. d = Top(k) /\ k \in T
        BY <1>1, <1>3, <2>1
    <2>3. Bottom(k) \in v
        BY <1>1, <2>2
    <2>4. in[k].bottom > y
        BY <1>2, <1>3, <2>1, <2>2, <2>3
    <2>5. QED
        BY <1>2, <1>3, <2>1, <2>2, <2>4
<1>5. ASSUME NEW k \in T, in[k].top <= y, y < in[k].bottom
      PROVE  k \in ActiveSet(v, y)
    <2>1. Top(k) \in v
        BY <1>1
    <2>2. ASSUME NEW f \in v, f.rect_id = k, Top(k).at < f.at
          PROVE  f.at > y
        <3>1. f = Top(k) \/ f = Bottom(k)
            BY <1>1, <1>3, <2>2
        <3>2. f # Top(k)
            BY <1>2, <1>3, <2>2
        <3>3. QED
            BY <1>2, <1>3, <1>5, <3>1, <3>2
    <2>3. QED
        BY <1>3, <1>5, <2>1, <2>2 DEF ActiveSet
<1>6. QED
    BY <1>4, <1>5

\* A rectangle that is met lies between two neighbouring edges.
LEMMA MetIs ==
    ASSUME NEW v, NEW x, NEW m
    PROVE  LET ys == {e.at : e \in v}
           IN  m \in Met(v, x) <=>
                   \E a, b \in ys :
                       /\ a < b
                       /\ \A u \in ys : u <= a \/ b <= u
                       /\ ActiveSet(v, a) # {}
                       /\ m = [id_set |-> ActiveSet(v, a), left |-> x,
                               top |-> a, bottom |-> b]
<1> DEFINE ys == {e.at : e \in v}
           Gap(a, b) == /\ a < b
                        /\ \A u \in ys : u <= a \/ b <= u
                        /\ ActiveSet(v, a) # {}
           R(a, b) == [id_set |-> ActiveSet(v, a), left |-> x, top |-> a, bottom |-> b]
<1>1. Met(v, x) = {R(y[1], y[2]) : y \in {z \in ys \X ys : Gap(z[1], z[2])}}
    BY DEF Met
<1>2. ASSUME m \in Met(v, x)
      PROVE  \E a, b \in ys : Gap(a, b) /\ m = R(a, b)
    <2> HIDE DEF ys, Gap, R
    <2>1. PICK y \in ys \X ys : Gap(y[1], y[2]) /\ m = R(y[1], y[2])
        BY <1>1, <1>2
    <2>2. y[1] \in ys /\ y[2] \in ys
        BY <2>1
    <2>3. QED
        BY <2>1, <2>2
<1>3. ASSUME NEW a \in ys, NEW b \in ys, Gap(a, b), m = R(a, b)
      PROVE  m \in Met(v, x)
    <2> HIDE DEF ys, Gap, R
    <2> DEFINE y == <<a, b>>
    <2>1. y \in ys \X ys /\ y[1] = a /\ y[2] = b
        OBVIOUS
    <2> HIDE DEF y
    <2>2. Gap(y[1], y[2]) /\ m = R(y[1], y[2])
        BY <1>3, <2>1
    <2>3. QED
        BY <1>1, <2>1, <2>2
<1>4. QED
    BY <1>2, <1>3

\* The stretch of a row a started or met rectangle lies over.
Spans(r, y) == r.top <= y /\ y < r.bottom

\* The rectangles the sweep line meets at x: they start there, are covered by
\* the same set all the way down, cover all of T, and do not overlap.
LEMMA MetFacts ==
    ASSUME in \in Inputs, NEW T, T \subseteq Solid, NEW x \in Int,
           NEW v, HasEdgesOf(v, T)
    PROVE  /\ \A m \in Met(v, x) :
                  /\ m \in StartedRect /\ m.left = x
                  /\ m.top < m.bottom /\ m.id_set # {}
           /\ \A m \in Met(v, x), y \in Int : Spans(m, y) => m.id_set = ActiveSet(v, y)
           /\ \A y \in Int : ActiveSet(v, y) # {} => \E m \in Met(v, x) : Spans(m, y)
           /\ \A m, n \in Met(v, x), y \in Int : Spans(m, y) /\ Spans(n, y) => m = n
<1> DEFINE ys == {e.at : e \in v}
<1>1. \A i \in T : /\ in[i].top \in Int /\ in[i].bottom \in Int /\ i \in Nat
                  /\ in[i].top < in[i].bottom
                  /\ i \in DOMAIN in
    BY InputFacts
<1>2. \A u : u \in ys <=> \E i \in T : u = in[i].top \/ u = in[i].bottom
    <2>1. \A e : e \in v <=> \E i \in T : e = Top(i) \/ e = Bottom(i)
        BY LineEvents
    <2>2. \A i : Top(i).at = in[i].top /\ Bottom(i).at = in[i].bottom
        BY DEF Top, Bottom
    <2>3. QED
        BY <2>1, <2>2
<1>3. ys \subseteq Int /\ IsFiniteSet(ys)
    <2>1. ys \subseteq {in[i].top : i \in DOMAIN in} \cup {in[i].bottom : i \in DOMAIN in}
        BY <1>1, <1>2
    <2>2. ys \subseteq Int
        BY <1>1, <1>2
    <2> HIDE DEF ys
    <2>3. QED
        BY <2>1, <2>2, CoordinatesFinite, FS_Subset
<1>4. \A y \in Int :
          ActiveSet(v, y) = {i \in T : in[i].top <= y /\ y < in[i].bottom}
    BY ActiveFacts
<1>5. \A m : m \in Met(v, x) <=>
          \E a, b \in ys :
              /\ a < b
              /\ \A u \in ys : u <= a \/ b <= u
              /\ ActiveSet(v, a) # {}
              /\ m = [id_set |-> ActiveSet(v, a), left |-> x, top |-> a, bottom |-> b]
    <2> TAKE m
    <2>1. QED
        BY ONLY MetIs
<1> HIDE DEF ys
<1>6. ASSUME NEW m \in Met(v, x)
      PROVE  /\ m \in StartedRect /\ m.left = x
             /\ m.top < m.bottom /\ m.id_set # {}
             /\ \A y \in Int : Spans(m, y) => m.id_set = ActiveSet(v, y)
    <2>1. PICK a \in ys, b \in ys :
              /\ a < b
              /\ \A u \in ys : u <= a \/ b <= u
              /\ ActiveSet(v, a) # {}
              /\ m = [id_set |-> ActiveSet(v, a), left |-> x, top |-> a, bottom |-> b]
        BY <1>5
    <2>2. a \in Int /\ b \in Int
        BY <1>3
    <2>3. ActiveSet(v, a) \subseteq Nat
        BY <1>1, <1>4, <2>2
    <2>4. ASSUME NEW y \in Int, a <= y, y < b
          PROVE  ActiveSet(v, a) = ActiveSet(v, y)
        <3>1. ASSUME NEW i \in T
              PROVE  /\ in[i].top <= a <=> in[i].top <= y
                     /\ a < in[i].bottom <=> y < in[i].bottom
            <4>1. in[i].top \in ys /\ in[i].bottom \in ys
                BY <1>2
            <4>2. /\ in[i].top <= a \/ b <= in[i].top
                  /\ in[i].bottom <= a \/ b <= in[i].bottom
                BY <2>1, <4>1
            <4>3. in[i].top \in Int /\ in[i].bottom \in Int
                BY <1>1
            <4>4. QED
                BY <2>2, <2>4, <4>2, <4>3
        <3>2. QED
            BY <1>4, <2>2, <3>1
    <2>5. QED
        BY <2>1, <2>2, <2>3, <2>4 DEF StartedRect, Spans
<1>7. ASSUME NEW y \in Int, ActiveSet(v, y) # {}
      PROVE  \E m \in Met(v, x) : Spans(m, y)
    <2>1. PICK i \in T : in[i].top <= y /\ y < in[i].bottom
        BY <1>4, <1>7
    <2> DEFINE lo == {u \in ys : u <= y}
               hi == {u \in ys : y < u}
    <2>2. in[i].top \in lo /\ in[i].bottom \in hi
        BY <1>2, <2>1
    <2>3. /\ IsFiniteSet(lo) /\ lo \subseteq Int
          /\ IsFiniteSet(hi) /\ hi \subseteq Int
        BY <1>3, FS_Subset
    <2>4. PICK a \in lo : \A u \in lo : u <= a
        <3> HIDE DEF lo, hi
        <3>1. QED
            BY <2>2, <2>3, GreatestInt
    <2>5. PICK b \in hi : \A u \in hi : b <= u
        <3> HIDE DEF lo, hi
        <3>1. QED
            BY <2>2, <2>3, LeastInt
    <2>6. a \in ys /\ b \in ys /\ a \in Int /\ b \in Int /\ a <= y /\ y < b
        BY <2>3
    <2>7. \A u \in ys : u <= a \/ b <= u
        <3>1. \A u \in ys : u \in lo \/ u \in hi
            BY <1>3
        <3>2. QED
            BY <2>4, <2>5, <3>1
    <2>8. i \in ActiveSet(v, a)
        <3>1. in[i].top <= a
            BY <2>2, <2>4
        <3>2. a < in[i].bottom
            BY <1>1, <2>1, <2>6
        <3>3. QED
            BY <1>4, <2>6, <3>1, <3>2
    <2> DEFINE m == [id_set |-> ActiveSet(v, a), left |-> x, top |-> a, bottom |-> b]
    <2>9. m \in Met(v, x)
        <3> HIDE DEF lo, hi
        <3>1. a < b
            BY <2>6
        <3>2. ActiveSet(v, a) # {}
            BY <2>8
        <3>3. QED
            BY <1>5, <2>6, <2>7, <3>1, <3>2
    <2>10. QED
        BY <2>6, <2>9 DEF Spans
<1>8. ASSUME NEW m \in Met(v, x), NEW n \in Met(v, x), NEW y \in Int,
             Spans(m, y), Spans(n, y)
      PROVE  m = n
    <2>1. PICK a \in ys, b \in ys :
              /\ a < b
              /\ \A u \in ys : u <= a \/ b <= u
              /\ m = [id_set |-> ActiveSet(v, a), left |-> x, top |-> a, bottom |-> b]
        BY <1>5
    <2>2. PICK c \in ys, d \in ys :
              /\ c < d
              /\ \A u \in ys : u <= c \/ d <= u
              /\ n = [id_set |-> ActiveSet(v, c), left |-> x, top |-> c, bottom |-> d]
        BY <1>5
    <2>3. a \in Int /\ b \in Int /\ c \in Int /\ d \in Int
        BY <1>3
    <2>4. a <= y /\ y < b /\ c <= y /\ y < d
        BY <1>8, <2>1, <2>2 DEF Spans
    <2>5. a <= c \/ d <= a
        BY <2>2
    <2>6. c <= a \/ b <= c
        BY <2>1
    <2>7. b <= c \/ d <= b
        BY <2>2
    <2>8. d <= a \/ b <= d
        BY <2>1
    <2>9. a = c /\ b = d
        BY <2>3, <2>4, <2>5, <2>6, <2>7, <2>8
    <2>10. QED
        BY <2>1, <2>2, <2>9
<1>9. QED
    BY <1>6, <1>7, <1>8

-----------------------------------------------------------------------------
(***************************************************************************)
(* The inductive invariant.                                                *)
(***************************************************************************)
\* Open rectangles began before the edges to come, no two have one key;
\* finished ones end before those edges.
Shapes ==
    /\ in \in Inputs /\ line \in Int
    /\ sweep_h_events \subseteq HEvents(in)
    /\ \A r \in started_rects :
           /\ r \in StartedRect /\ r.top < r.bottom
           /\ \A e \in sweep_h_events : r.left < e.at
    /\ \A r, q \in started_rects : SameKey(r, q) => r = q
    /\ \A o \in out :
           /\ o \in RectSet /\ ~Empty(o.rect)
           /\ \A e \in sweep_h_events : o.rect.right <= e.at

\* Edges are taken in order.
InOrder == \A e \in HEvents(in) \ sweep_h_events, f \in sweep_h_events :
               SweepBefore(e, f)

\* The rectangles across the sweep line, and their edges on it.
Across(H) == {i \in Solid : Left(i) \notin H /\ Right(i) \in H}
Crossed == Across(sweep_h_events)
OnLine == sweep_v_events = UNION {VEvents(i) : i \in Crossed}

\* What is finished and what is open over a cell.
OutAt(x, y) == {o \in out : Covers(o.rect, x, y)}
OpenAt(x, y) == {r \in started_rects : r.left <= x /\ Spans(r, y)}

\* A cell is cut exactly: one piece with the right ids, or none.
ExactAt(x, y) ==
    /\ \A o \in OutAt(x, y) : o.id_set = Covering(x, y)
    /\ \A r \in OpenAt(x, y) : r.id_set = Covering(x, y)
    /\ Covering(x, y) = {} <=> OutAt(x, y) = {} /\ OpenAt(x, y) = {}
    /\ \A o, p \in OutAt(x, y) : o = p
    /\ \A r, q \in OpenAt(x, y) : r = q
    /\ OutAt(x, y) = {} \/ OpenAt(x, y) = {}

\* Every cell before all edges to come is cut exactly.  The last stop of the
\* sweep does not matter, so this holds between stops as well.
Exact ==
    Len(in) <= MaxElements =>
        \A x, y \in Int : (\A e \in sweep_h_events : x < e.at) => ExactAt(x, y)

IInv == Shapes /\ InOrder /\ OnLine /\ Exact

\* Before the sweep no cell before all edges is covered.
LEMMA InitIInv == Init => IInv
<1> SUFFICES ASSUME Init PROVE IInv
    OBVIOUS
<1>1. in \in Inputs /\ sweep_h_events = HEvents(in) /\ sweep_v_events = {}
      /\ started_rects = {} /\ out = {} /\ line = -1
    BY DEF Init
<1>2. Shapes /\ InOrder
    BY <1>1 DEF Shapes, InOrder
<1>3. OnLine
    <2>1. Crossed = {}
        <3> SUFFICES ASSUME NEW i \in Crossed PROVE FALSE
            OBVIOUS
        <3>1. i \in Solid /\ Left(i) \notin HEvents(in) /\ Right(i) \in HEvents(in)
            BY <1>1 DEF Crossed, Across
        <3>2. QED
            BY <1>1, <3>1, HEventFacts
    <2>2. QED
        BY <1>1, <2>1 DEF OnLine
<1>4. Exact
    <2> SUFFICES ASSUME Len(in) <= MaxElements, NEW x \in Int, NEW y \in Int,
                        \A e \in HEvents(in) : x < e.at
                 PROVE  ExactAt(x, y)
        BY <1>1 DEF Exact
    <2>1. Covering(x, y) = {}
        <3> SUFFICES ASSUME NEW i \in DOMAIN in, Covers(in[i], x, y) PROVE FALSE
            BY DEF Covering
        <3>1. i \in Solid
            BY <1>1, InputFacts DEF Covers, Empty, Solid
        <3>2. x < in[i].left
            BY <1>1, <3>1, HEventFacts DEF Left
        <3>3. QED
            BY <1>1, <3>2, InputFacts DEF Covers
    <2>2. QED
        BY <1>1, <2>1 DEF ExactAt, OutAt, OpenAt
<1>5. QED
    BY <1>2, <1>3, <1>4 DEF IInv

\* Taking an edge: it is the first of those left, and the sweep stops exactly
\* when the others are at greater coordinates.
LEMMA SweepFacts ==
    ASSUME IInv, Sweep, NEW e, e = First(sweep_h_events)
    PROVE  /\ e \in sweep_h_events /\ e \in HEvents(in) /\ e.at \in Int
           /\ \A f \in sweep_h_events : f.at \in Int /\ e.at <= f.at
           /\ \A f \in HEvents(in) \ sweep_h_events' : f.at \in Int /\ f.at <= e.at
           /\ Len(in) <= MaxElements
           /\ in' = in /\ line' = e.at
           /\ sweep_h_events' = sweep_h_events \ {e}
           /\ \/ /\ Stop(e.at, sweep_v_events')
                 /\ \A f \in sweep_h_events' : e.at < f.at
              \/ /\ UNCHANGED <<started_rects, out>>
                 /\ \E f \in sweep_h_events' : f.at = e.at
<1> DEFINE later == sweep_h_events \ {e}
<1>1. in \in Inputs /\ sweep_h_events \subseteq HEvents(in) /\ sweep_h_events # {}
    BY DEF IInv, Shapes, Sweep
<1>2. e \in sweep_h_events /\ \A f \in later : SweepBefore(e, f)
    BY <1>1, FirstFacts
<1>3. \A f \in HEvents(in) : f.at \in Int
    BY <1>1, HEventFacts, InputFacts DEF Left, Right
<1>4. \A f \in sweep_h_events : f.at \in Int /\ e.at <= f.at
    BY <1>1, <1>2, <1>3 DEF SweepBefore
<1>5. in' = in /\ line' = e.at /\ sweep_h_events' = later
    BY DEF Sweep
<1>6. \A f \in HEvents(in) \ later : f.at <= e.at
    <2> SUFFICES ASSUME NEW f \in HEvents(in) \ later PROVE f.at <= e.at
        OBVIOUS
    <2>1. CASE f = e
        BY <1>1, <1>2, <1>3, <2>1
    <2>2. CASE f \notin sweep_h_events
        BY <1>1, <1>2, <1>3, <2>2 DEF IInv, InOrder, SweepBefore
    <2>3. QED
        BY <2>1, <2>2
<1>7. IF later # {} /\ First(later).at = e.at
      THEN UNCHANGED <<started_rects, out>>
      ELSE Stop(e.at, sweep_v_events')
    BY DEF Sweep
<1>8. CASE later # {} /\ First(later).at = e.at
    <2>1. First(later) \in later
        BY <1>1, <1>8, FirstFacts
    <2>2. QED
        BY <1>1, <1>2, <1>3, <1>4, <1>5, <1>6, <1>7, <1>8, <2>1, HEventFacts
<1>9. CASE ~(later # {} /\ First(later).at = e.at)
    <2>1. ASSUME NEW f \in later PROVE e.at < f.at
        <3> DEFINE g == First(later)
        <3>1. g \in later /\ \A h \in later \ {g} : SweepBefore(g, h)
            BY <1>1, <2>1, FirstFacts
        <3> HIDE DEF g
        <3>2. g.at # e.at
            BY <1>9, <2>1 DEF g
        <3>3. g.at \in Int /\ f.at \in Int /\ e.at \in Int /\ e.at <= g.at
            BY <1>1, <1>2, <1>3, <1>4, <3>1
        <3>4. g.at <= f.at
            BY <2>1, <3>1, <3>3 DEF SweepBefore
        <3>5. QED
            BY <3>2, <3>3, <3>4
    <2>2. QED
        BY <1>1, <1>2, <1>3, <1>4, <1>5, <1>6, <1>7, <1>9, <2>1, HEventFacts
<1>10. QED
    BY <1>8, <1>9

\* The sweep line is marked up with the edges of the rectangle that begins, and
\* those of the rectangle that ends are taken off it.
LEMMA StepOnLine ==
    ASSUME IInv, Sweep
    PROVE  OnLine' /\ InOrder'
<1> DEFINE e == First(sweep_h_events)
<1>1. /\ e \in sweep_h_events /\ e \in HEvents(in) /\ in' = in
      /\ sweep_h_events' = sweep_h_events \ {e}
      /\ Len(in) <= MaxElements
    BY SweepFacts
<1>2. \A f \in sweep_h_events \ {e} : SweepBefore(e, f)
    BY FirstFacts DEF IInv, Shapes, Sweep
<1>3. in \in Inputs /\ sweep_h_events \subseteq HEvents(in)
    BY DEF IInv, Shapes
<1>4. sweep_v_events' = IF e.type = "START"
                        THEN sweep_v_events \cup VEvents(e.rect_id)
                        ELSE sweep_v_events \ VEvents(e.rect_id)
    BY DEF Sweep
<1>5. PICK i \in Solid : e = Left(i) \/ e = Right(i)
    BY <1>1, <1>3, HEventFacts
<1> HIDE DEF e
<1>6. InOrder'
    BY <1>1, <1>2 DEF IInv, InOrder
<1>7. /\ Solid' = Solid
      /\ \A j : Left(j)' = Left(j) /\ Right(j)' = Right(j)
      /\ \A j : VEvents(j)' = VEvents(j)
    BY <1>1 DEF Solid, Left, Right, VEvents
<1>8. \A j, f : f \in VEvents(j) => f.rect_id = j
    BY DEF VEvents, Edges
<1>9. \A f : f \in sweep_v_events <=> \E j \in Crossed : f \in VEvents(j)
    BY DEF IInv, OnLine
<1>10. CASE e = Left(i)
    <2>1. Right(i) \in sweep_h_events
        <3> SUFFICES ASSUME Right(i) \notin sweep_h_events PROVE FALSE
            OBVIOUS
        <3>1. Right(i) \in HEvents(in)
            BY <1>1, <1>3, HEventFacts
        <3>2. SweepBefore(Right(i), Left(i))
            BY <1>1, <1>10, <3>1 DEF IInv, InOrder
        <3>3. QED
            BY <1>3, <3>2, InputFacts DEF SweepBefore, Left, Right
    <2>2. Crossed' = Crossed \cup {i}
        <3>1. Right(i) \in sweep_h_events' /\ Left(i) \notin sweep_h_events'
            BY <1>1, <1>10, <2>1, EdgesApart
        <3>2. ASSUME NEW j \in Solid, j # i
              PROVE  /\ Left(j) \in sweep_h_events' <=> Left(j) \in sweep_h_events
                     /\ Right(j) \in sweep_h_events' <=> Right(j) \in sweep_h_events
            BY <1>1, <1>10, <3>2, EdgesApart
        <3>3. QED
            BY <1>7, <3>1, <3>2 DEF Crossed, Across
    <2>3. sweep_v_events' = sweep_v_events \cup VEvents(i)
        BY <1>4, <1>10 DEF Left
    <2> HIDE DEF Crossed, Across
    <2>4. QED
        BY <1>6, <1>7, <1>9, <2>2, <2>3 DEF OnLine
<1>11. CASE e = Right(i)
    <2>1. Crossed' = Crossed \ {i}
        <3>1. Right(i) \notin sweep_h_events'
            BY <1>1, <1>11
        <3>2. ASSUME NEW j \in Solid, j # i
              PROVE  /\ Left(j) \in sweep_h_events' <=> Left(j) \in sweep_h_events
                     /\ Right(j) \in sweep_h_events' <=> Right(j) \in sweep_h_events
            BY <1>1, <1>11, <3>2, EdgesApart
        <3>3. QED
            BY <1>7, <3>1, <3>2 DEF Crossed, Across
    <2>2. sweep_v_events' = sweep_v_events \ VEvents(i)
        BY <1>4, <1>11 DEF Right
    <2>3. ASSUME NEW f
          PROVE  f \in sweep_v_events' <=> \E j \in Crossed \ {i} : f \in VEvents(j)
        BY <1>8, <1>9, <2>2
    <2> HIDE DEF Crossed, VEvents
    <2>4. QED
        BY <1>6, <1>7, <2>1, <2>3 DEF OnLine
<1>12. QED
    BY <1>5, <1>10, <1>11

\* The column x lies between the edges taken and those to come, H.
Between(x, H) == /\ \A f \in H : x < f.at
                 /\ \A f \in HEvents(in) \ H : f.at <= x

\* Between the edges taken and those to come, the rectangles over a cell are
\* those across the sweep line.
LEMMA CoveringIs ==
    ASSUME in \in Inputs, Len(in) <= MaxElements, NEW H, H \subseteq HEvents(in),
           NEW x \in Int, NEW y \in Int, Between(x, H)
    PROVE  Covering(x, y) = {i \in Across(H) : in[i].top <= y /\ y < in[i].bottom}
<1>1. ASSUME NEW i \in DOMAIN in, Covers(in[i], x, y)
      PROVE  i \in Solid /\ Left(i) \notin H /\ Right(i) \in H
    <2>1. i \in Solid
        BY <1>1, InputFacts DEF Covers, Empty, Solid
    <2>2. Left(i) \in HEvents(in) /\ Right(i) \in HEvents(in)
        BY <2>1, HEventFacts
    <2>3. Left(i).at <= x /\ x < Right(i).at
        BY <1>1 DEF Left, Right, Covers
    <2>4. Left(i).at \in Int /\ Right(i).at \in Int
        BY InputFacts DEF Left, Right
    <2>5. QED
        BY <2>1, <2>2, <2>3, <2>4 DEF Between
<1>2. ASSUME NEW i \in Solid, Left(i) \notin H, Right(i) \in H
      PROVE  i \in DOMAIN in /\ in[i].left <= x /\ x < in[i].right
    BY <1>2, InputFacts, HEventFacts DEF Left, Right, Between
<1>3. QED
    BY <1>1, <1>2 DEF Covering, Covers, Across

\* At a stop what the sweep line meets are the pieces of the next columns.
LEMMA StopMeets ==
    ASSUME IInv, Sweep, NEW x \in Int
    PROVE  LET met == Met(sweep_v_events', x)
           IN  /\ \A m \in met :
                      /\ m \in StartedRect /\ m.left = x
                      /\ m.top < m.bottom /\ m.id_set # {}
                      /\ \A y \in Int : Spans(m, y) =>
                             m.id_set = ActiveSet(sweep_v_events', y)
               /\ \A y \in Int : ActiveSet(sweep_v_events', y) # {} =>
                      \E m \in met : Spans(m, y)
               /\ \A m, n \in met, y \in Int : Spans(m, y) /\ Spans(n, y) => m = n
               /\ \A y \in Int : ActiveSet(sweep_v_events', y) =
                      {i \in Crossed' : in[i].top <= y /\ y < in[i].bottom}
<1> DEFINE T == Crossed'
           v == sweep_v_events'
<1>1. in \in Inputs /\ in' = in
    BY DEF IInv, Shapes, Sweep
<1>2. T \subseteq Solid
    BY <1>1 DEF Crossed, Across, Solid
<1>3. HasEdgesOf(v, T)
    <2>1. \A i : VEvents(i)' = VEvents(i)
        BY <1>1 DEF VEvents
    <2>2. v = UNION {VEvents(i)' : i \in T}
        BY StepOnLine DEF OnLine
    <2>3. QED
        BY <2>1, <2>2 DEF HasEdgesOf
<1> HIDE DEF T, v
<1>4. \A y \in Int : ActiveSet(v, y) =
          {i \in T : in[i].top <= y /\ y < in[i].bottom}
    BY <1>1, <1>2, <1>3, ActiveFacts
<1>5. \A m \in Met(v, x) :
          /\ m \in StartedRect /\ m.left = x
          /\ m.top < m.bottom /\ m.id_set # {}
          /\ \A y \in Int : Spans(m, y) => m.id_set = ActiveSet(v, y)
    <2>1. \A m \in Met(v, x) :
              m \in StartedRect /\ m.left = x /\ m.top < m.bottom /\ m.id_set # {}
        BY <1>1, <1>2, <1>3, MetFacts
    <2>2. \A m \in Met(v, x), y \in Int : Spans(m, y) => m.id_set = ActiveSet(v, y)
        BY <1>1, <1>2, <1>3, MetFacts
    <2>3. QED
        BY <2>1, <2>2
<1>6. \A y \in Int : ActiveSet(v, y) # {} => \E m \in Met(v, x) : Spans(m, y)
    BY <1>1, <1>2, <1>3, MetFacts
<1>7. \A m, n \in Met(v, x), y \in Int : Spans(m, y) /\ Spans(n, y) => m = n
    BY <1>1, <1>2, <1>3, MetFacts
<1>8. QED
    BY <1>4, <1>5, <1>6, <1>7 DEF T, v

\* At a stop an open rectangle that is met again stays, one that is not ends
\* there with a width, and what is new begins there.
LEMMA StepShapes ==
    ASSUME IInv, Sweep
    PROVE  Shapes'
<1> DEFINE e == First(sweep_h_events)
<1>1. /\ e \in sweep_h_events /\ e.at \in Int
      /\ in' = in /\ line' = e.at
      /\ sweep_h_events' = sweep_h_events \ {e}
      /\ \A f \in sweep_h_events : f.at \in Int /\ e.at <= f.at
      /\ \/ /\ Stop(e.at, sweep_v_events')
            /\ \A f \in sweep_h_events' : e.at < f.at
         \/ UNCHANGED <<started_rects, out>>
    BY SweepFacts
<1> DEFINE met == Met(sweep_v_events', e.at)
<1>2. \A m \in met : /\ m \in StartedRect /\ m.left = e.at
                    /\ m.top < m.bottom
    BY <1>1, StopMeets
<1>3. \A m, n \in met : SameKey(m, n) => m = n
    <2> SUFFICES ASSUME NEW m \in met, NEW n \in met, SameKey(m, n) PROVE m = n
        OBVIOUS
    <2>1. m.top \in Int /\ n.top \in Int /\ m.bottom \in Int
        BY <1>2 DEF StartedRect
    <2>2. Spans(m, m.top) /\ Spans(n, m.top)
        BY <1>2, <2>1 DEF Spans, SameKey
    <2>3. QED
        BY <1>1, <2>1, <2>2, StopMeets
<1>4. Stop(e.at, sweep_v_events') =>
          /\ started_rects' = {r \in started_rects : Seen(r, met)}
                                  \cup {m \in met : ~Seen(m, started_rects)}
          /\ out' = out \cup {Ended(r, e.at) :
                                 r \in {s \in started_rects : ~Seen(s, met)}}
    BY DEF Stop
<1> HIDE DEF e, met
<1>5. CASE UNCHANGED <<started_rects, out>>
    BY <1>1, <1>5 DEF IInv, Shapes
<1>6. CASE Stop(e.at, sweep_v_events') /\ \A f \in sweep_h_events' : e.at < f.at
    <2>1. in' \in Inputs /\ line' \in Int /\ sweep_h_events' \subseteq HEvents(in)'
        BY <1>1 DEF IInv, Shapes
    <2>2. ASSUME NEW r \in started_rects'
          PROVE  /\ r \in StartedRect /\ r.top < r.bottom
                 /\ \A f \in sweep_h_events' : r.left < f.at
        <3>1. CASE r \in started_rects
            BY <1>1, <3>1 DEF IInv, Shapes
        <3>2. CASE r \in met
            BY <1>2, <1>6, <3>2
        <3>3. QED
            BY <1>4, <1>6, <3>1, <3>2
    <2>3. ASSUME NEW r \in started_rects', NEW q \in started_rects', SameKey(r, q)
          PROVE  r = q
        <3>1. CASE r \in started_rects /\ q \in started_rects
            BY <2>3, <3>1 DEF IInv, Shapes
        <3>2. CASE r \in met /\ q \in met
            BY <1>3, <2>3, <3>2
        <3>3. SameKey(q, r)
            BY <2>3 DEF SameKey
        <3>4. CASE r \in started_rects /\ q \in met /\ q \notin started_rects
            <4>1. ~Seen(q, started_rects)
                BY <1>4, <1>6, <3>4
            <4>2. QED
                BY <3>3, <3>4, <4>1 DEF Seen
        <3>5. CASE q \in started_rects /\ r \in met /\ r \notin started_rects
            <4>1. ~Seen(r, started_rects)
                BY <1>4, <1>6, <3>5
            <4>2. QED
                BY <2>3, <3>5, <4>1 DEF Seen
        <3>6. QED
            BY <1>4, <1>6, <3>1, <3>2, <3>4, <3>5
    <2>4. ASSUME NEW o \in out'
          PROVE  /\ o \in RectSet /\ ~Empty(o.rect)
                 /\ \A f \in sweep_h_events' : o.rect.right <= f.at
        <3>1. CASE o \in out
            BY <1>1, <3>1 DEF IInv, Shapes
        <3>2. CASE o \notin out
            <4>1. PICK r \in started_rects : o = Ended(r, e.at)
                BY <1>4, <1>6, <3>2
            <4>2. r \in StartedRect /\ r.top < r.bottom /\ r.left < e.at
                BY <1>1 DEF IInv, Shapes
            <4>3. /\ o.id_set = r.id_set
                  /\ o.rect = [left |-> r.left, top |-> r.top, right |-> e.at,
                               bottom |-> r.bottom]
                  /\ o = [id_set |-> o.id_set, rect |-> o.rect]
                BY <4>1 DEF Ended
            <4>4. o \in RectSet
                BY <1>1, <4>2, <4>3 DEF RectSet, StartedRect, Rect
            <4>5. ~Empty(o.rect)
                BY <1>1, <4>2, <4>3 DEF Empty, StartedRect
            <4>6. \A f \in sweep_h_events' : o.rect.right <= f.at
                BY <1>1, <4>3
            <4>7. QED
                BY <4>4, <4>5, <4>6
        <3>3. QED
            BY <3>1, <3>2
    <2>5. QED
        BY <2>1, <2>2, <2>3, <2>4 DEF Shapes
<1>7. QED
    BY <1>1, <1>5, <1>6

\* Behind the edge taken a stop only turns open pieces into finished ones; ahead
\* of it the open pieces are those the sweep line meets.
LEMMA StepExact ==
    ASSUME IInv, Sweep
    PROVE  Exact'
<1> DEFINE e == First(sweep_h_events)
<1>1. /\ e \in sweep_h_events /\ e.at \in Int
      /\ in' = in /\ in \in Inputs /\ Len(in) <= MaxElements
      /\ sweep_h_events' = sweep_h_events \ {e}
      /\ sweep_h_events \subseteq HEvents(in)
      /\ \A f \in sweep_h_events : f.at \in Int /\ e.at <= f.at
      /\ \A f \in HEvents(in) \ sweep_h_events' : f.at \in Int /\ f.at <= e.at
    BY SweepFacts DEF IInv, Shapes
<1>2. \/ Stop(e.at, sweep_v_events')
      \/ /\ UNCHANGED <<started_rects, out>>
         /\ \E f \in sweep_h_events' : f.at = e.at
    BY SweepFacts
<1> DEFINE met == Met(sweep_v_events', e.at)
<1>3. /\ \A m \in met :
             /\ m \in StartedRect /\ m.left = e.at
             /\ m.top < m.bottom /\ m.id_set # {}
             /\ \A y \in Int : Spans(m, y) => m.id_set = ActiveSet(sweep_v_events', y)
      /\ \A y \in Int : ActiveSet(sweep_v_events', y) # {} =>
             \E m \in met : Spans(m, y)
      /\ \A m, n \in met, y \in Int : Spans(m, y) /\ Spans(n, y) => m = n
      /\ \A y \in Int : ActiveSet(sweep_v_events', y) =
             {i \in Crossed' : in[i].top <= y /\ y < in[i].bottom}
    BY <1>1, StopMeets
<1>4. Stop(e.at, sweep_v_events') =>
          /\ started_rects' = {r \in started_rects : Seen(r, met)}
                                  \cup {m \in met : ~Seen(m, started_rects)}
          /\ out' = out \cup {Ended(r, e.at) :
                                 r \in {s \in started_rects : ~Seen(s, met)}}
    BY DEF Stop
<1> HIDE DEF e, met
<1> SUFFICES ASSUME NEW x \in Int, NEW y \in Int,
                    \A f \in sweep_h_events' : x < f.at
             PROVE  ExactAt(x, y)'
    BY DEF Exact
<1>5. Covering(x, y)' = Covering(x, y)
    BY <1>1 DEF Covering
<1>6. x < e.at => ExactAt(x, y)
    <2> SUFFICES ASSUME x < e.at PROVE ExactAt(x, y)
        OBVIOUS
    <2>1. \A f \in sweep_h_events : x < f.at
        BY <1>1
    <2>2. QED
        BY <1>1, <2>1 DEF IInv, Exact
<1>7. CASE UNCHANGED <<started_rects, out>> /\ \E f \in sweep_h_events' : f.at = e.at
    <2>1. ExactAt(x, y)
        BY <1>6, <1>7
    <2>2. OutAt(x, y)' = OutAt(x, y) /\ OpenAt(x, y)' = OpenAt(x, y)
        BY <1>7 DEF OutAt, OpenAt
    <2>3. QED
        BY <1>5, <2>1, <2>2 DEF ExactAt
<1>8. CASE Stop(e.at, sweep_v_events') /\ x < e.at
    <2>1. ExactAt(x, y)
        BY <1>6, <1>8
    <2>2. OpenAt(x, y)' = {r \in OpenAt(x, y) : Seen(r, met)}
        BY <1>1, <1>3, <1>4, <1>8 DEF OpenAt
    <2>3. \A r \in started_rects : r.left \in Int
        BY DEF IInv, Shapes, StartedRect
    <2>4. \A r \in started_rects : Covers(Ended(r, e.at).rect, x, y) <=> r \in OpenAt(x, y)
        BY <1>8 DEF Covers, Ended, OpenAt, Spans
    <2>5. \A r : Ended(r, e.at).id_set = r.id_set
        BY DEF Ended
    <2>6. OpenAt(x, y) \subseteq started_rects
        BY DEF OpenAt
    <2>7. OutAt(x, y)' = OutAt(x, y) \cup
              {Ended(r, e.at) : r \in {s \in OpenAt(x, y) : ~Seen(s, met)}}
        <3>1. ASSUME NEW o \in OutAt(x, y)'
              PROVE  \/ o \in OutAt(x, y)
                     \/ \E r \in OpenAt(x, y) : ~Seen(r, met) /\ o = Ended(r, e.at)
            <4>1. o \in out' /\ Covers(o.rect, x, y)
                BY DEF OutAt
            <4>2. CASE o \in out
                BY <4>1, <4>2 DEF OutAt
            <4>3. CASE \E r \in started_rects : ~Seen(r, met) /\ o = Ended(r, e.at)
                BY <2>4, <4>1, <4>3
            <4>4. QED
                BY <1>4, <1>8, <4>1, <4>2, <4>3
        <3>2. ASSUME NEW r \in OpenAt(x, y), ~Seen(r, met)
              PROVE  Ended(r, e.at) \in OutAt(x, y)'
            <4>1. Ended(r, e.at) \in out'
                BY <1>4, <1>8, <2>6, <3>2
            <4>2. Covers(Ended(r, e.at).rect, x, y)
                BY <2>4, <2>6
            <4>3. QED
                BY <4>1, <4>2 DEF OutAt
        <3>3. OutAt(x, y) \subseteq OutAt(x, y)'
            BY <1>4, <1>8 DEF OutAt
        <3>4. QED
            BY <3>1, <3>2, <3>3
    <2>8. QED
        BY <1>5, <2>1, <2>2, <2>5, <2>7 DEF ExactAt
<1>9. CASE Stop(e.at, sweep_v_events') /\ ~(x < e.at)
    <2>1. e.at <= x
        BY <1>1, <1>9
    <2>2. Covering(x, y) = ActiveSet(sweep_v_events', y)
        <3>1. \A f \in HEvents(in) \ sweep_h_events' : f.at <= x
            BY <1>1, <2>1
        <3>2. sweep_h_events' \subseteq HEvents(in)
            BY <1>1
        <3> DEFINE H == sweep_h_events'
        <3>3. Between(x, H) /\ H \subseteq HEvents(in)
            BY <3>1, <3>2 DEF Between
        <3>4. Crossed' = Across(H)
            BY <1>1 DEF Crossed, Across, Solid, Left, Right
        <3> HIDE DEF H
        <3>5. Covering(x, y) = {i \in Across(H) : in[i].top <= y /\ y < in[i].bottom}
            BY <1>1, <3>3, CoveringIs
        <3>6. QED
            BY <1>3, <3>4, <3>5
    <2>3. OutAt(x, y)' = {}
        <3> SUFFICES ASSUME NEW o \in out', Covers(o.rect, x, y) PROVE FALSE
            BY DEF OutAt
        <3>1. CASE o \in out
            <4>1. o.rect.right <= e.at /\ o.rect.right \in Int
                BY <1>1, <3>1 DEF IInv, Shapes, RectSet, Rect
            <4>2. QED
                BY <1>1, <2>1, <4>1 DEF Covers
        <3>2. CASE o \notin out
            <4>1. PICK r \in started_rects : o = Ended(r, e.at)
                BY <1>4, <1>9, <3>2
            <4>2. o.rect.right = e.at
                BY <4>1 DEF Ended
            <4>3. QED
                BY <1>1, <2>1, <4>2 DEF Covers
        <3>3. QED
            BY <3>1, <3>2
    <2>4. \A r \in started_rects' : r.left <= x
        <3> SUFFICES ASSUME NEW r \in started_rects' PROVE r.left <= x
            OBVIOUS
        <3>1. CASE r \in started_rects
            <4>1. r.left < e.at /\ r.left \in Int
                BY <1>1, <3>1 DEF IInv, Shapes, StartedRect
            <4>2. QED
                BY <1>1, <2>1, <4>1
        <3>2. CASE r \in met
            BY <1>1, <1>3, <2>1, <3>2
        <3>3. QED
            BY <1>4, <1>9, <3>1, <3>2
    <2>5. ASSUME NEW r \in started_rects'
          PROVE  \E m \in met : SameKey(r, m)
        BY <1>4, <1>9 DEF Seen, SameKey
    <2>6. ASSUME NEW r \in OpenAt(x, y)'
          PROVE  r.id_set = Covering(x, y) /\ Covering(x, y) # {}
        <3>1. PICK m \in met : SameKey(r, m)
            BY <2>5 DEF OpenAt
        <3>2. Spans(m, y) /\ m.id_set = r.id_set
            BY <3>1 DEF OpenAt, Spans, SameKey
        <3>3. QED
            BY <1>3, <2>2, <3>1, <3>2
    <2>7. ASSUME NEW r \in OpenAt(x, y)', NEW q \in OpenAt(x, y)'
          PROVE  r = q
        <3>1. r \in started_rects' /\ q \in started_rects' /\ Spans(r, y) /\ Spans(q, y)
            BY DEF OpenAt
        <3>2. PICK m \in met : SameKey(r, m)
            BY <2>5, <3>1
        <3>3. PICK n \in met : SameKey(q, n)
            BY <2>5, <3>1
        <3>4. Spans(m, y) /\ Spans(n, y)
            BY <3>1, <3>2, <3>3 DEF Spans, SameKey
        <3>5. m = n
            BY <1>3, <3>4
        <3>6. SameKey(r, q)
            BY <3>2, <3>3, <3>5 DEF SameKey
        <3>7. QED
            BY <3>1, <3>6, StepShapes DEF Shapes
    <2>8. ASSUME Covering(x, y) # {}
          PROVE  OpenAt(x, y)' # {}
        <3>1. PICK m \in met : Spans(m, y)
            BY <1>3, <2>2, <2>8
        <3>2. PICK r \in started_rects' : SameKey(r, m)
            <4>1. CASE Seen(m, started_rects)
                <5>1. PICK q \in started_rects : SameKey(m, q)
                    BY <4>1 DEF Seen
                <5>2. SameKey(q, m) /\ Seen(q, met)
                    BY <5>1 DEF SameKey, Seen
                <5>3. QED
                    BY <1>4, <1>9, <5>2
            <4>2. CASE ~Seen(m, started_rects)
                BY <1>4, <1>9, <4>2 DEF SameKey
            <4>3. QED
                BY <4>1, <4>2
        <3>3. Spans(r, y)
            BY <3>1, <3>2 DEF Spans, SameKey
        <3>4. QED
            BY <2>4, <3>3 DEF OpenAt
    <2>9. QED
        BY <1>5, <2>3, <2>6, <2>7, <2>8 DEF ExactAt
<1>10. QED
    BY <1>2, <1>7, <1>8, <1>9

\* The invariant holds throughout the sweep.
LEMMA AlwaysIInv == Spec => []IInv
<1>1. ASSUME IInv, [Next]_vars PROVE IInv'
    <2>1. CASE Sweep
        BY <1>1, <2>1, StepShapes, StepOnLine, StepExact DEF IInv
    <2>2. CASE UNCHANGED vars
        <3>1. Shapes' /\ InOrder'
            BY <1>1, <2>2 DEF IInv, Shapes, InOrder, vars
        <3>2. OnLine'
            BY <1>1, <2>2 DEF IInv, OnLine, Crossed, Across, Solid, Left, Right,
                              VEvents, vars
        <3>3. \A x, y : ExactAt(x, y)' <=> ExactAt(x, y)
            BY <2>2 DEF ExactAt, OutAt, OpenAt, Covering, vars
        <3>4. Exact'
            BY <1>1, <2>2, <3>3 DEF IInv, Exact, vars
        <3>5. QED
            BY <3>1, <3>2, <3>4 DEF IInv
    <2>3. QED
        BY <1>1, <2>1, <2>2 DEF Next
<1>2. QED
    BY <1>1, InitIInv, PTL DEF Spec

\* For every vector of rectangles: events, open and finished rectangles have
\* their types, and no rectangle of the output is empty.
THEOREM SweepTypeCorrect == Spec => []TypeOK
<1>1. IInv => TypeOK
    <2> SUFFICES ASSUME IInv PROVE TypeOK
        OBVIOUS
    <2>1. \A e \in sweep_h_events : e \in Event
        <3>1. \A i \in Solid : Left(i) \in Event /\ Right(i) \in Event
            BY InputFacts DEF IInv, Shapes, Left, Right, Event
        <3>2. QED
            BY <3>1, HEventFacts DEF IInv, Shapes
    <2>2. \A e \in sweep_v_events : e \in Event
        <3>1. \A i \in Solid : Top(i) \in Event /\ Bottom(i) \in Event
            BY InputFacts DEF IInv, Shapes, Top, Bottom, Event
        <3>2. HasEdgesOf(sweep_v_events, Crossed) /\ Crossed \subseteq Solid
            BY DEF IInv, OnLine, HasEdgesOf, Crossed, Across
        <3>3. QED
            BY <3>1, <3>2, LineEvents
    <2>3. QED
        BY <2>1, <2>2 DEF IInv, Shapes, TypeOK
<1>2. QED
    BY <1>1, AlwaysIInv, PTL

\* For every vector of rectangles the asserts of separate_rects hold: the edges
\* of a rectangle that ends are on the sweep line, and below the last edge of
\* the line nothing is covered.
THEOREM SweepAsserts == Spec => []AssertsHold
<1>1. IInv => AssertsHold
    <2> SUFFICES ASSUME IInv PROVE AssertsHold
        OBVIOUS
    <2>1. in \in Inputs /\ sweep_h_events \subseteq HEvents(in)
        BY DEF IInv, Shapes
    <2>2. HasEdgesOf(sweep_v_events, Crossed) /\ Crossed \subseteq Solid
        BY DEF IInv, OnLine, HasEdgesOf, Crossed, Across
    <2>3. ASSUME NEW e \in sweep_h_events, e.type = "END",
                 \A f \in sweep_h_events : f.rect_id = e.rect_id => f = e
          PROVE  VEvents(e.rect_id) \subseteq sweep_v_events
        <3>1. PICK i \in Solid : e = Left(i) \/ e = Right(i)
            BY <2>1, HEventFacts
        <3>2. e = Right(i) /\ e.rect_id = i
            BY <2>3, <3>1 DEF Left, Right
        <3>3. Left(i) \notin sweep_h_events
            BY <2>3, <3>2, EdgesApart DEF Left
        <3>4. i \in Crossed
            BY <3>2, <3>3 DEF Crossed, Across
        <3>5. QED
            BY <2>2, <3>2, <3>4 DEF HasEdgesOf
    <2>4. ASSUME NEW e \in sweep_v_events, \A f \in sweep_v_events : f.at <= e.at
          PROVE  ActiveSet(sweep_v_events, e.at) = {}
        <3>1. \A i \in Crossed : Bottom(i) \in sweep_v_events
            BY <2>2, LineEvents
        <3>2. \A i \in Crossed : /\ Bottom(i).at = in[i].bottom
                                /\ in[i].bottom \in Int /\ in[i].top \in Int
            BY <2>1, <2>2, InputFacts DEF Bottom
        <3>3. e.at \in Int
            <4>1. PICK i \in Crossed : e = Top(i) \/ e = Bottom(i)
                BY <2>2, LineEvents
            <4>2. QED
                BY <3>2, <4>1 DEF Top, Bottom
        <3>4. \A i \in Crossed : in[i].bottom <= e.at
            BY <2>4, <3>1, <3>2
        <3>5. ActiveSet(sweep_v_events, e.at) =
                  {i \in Crossed : in[i].top <= e.at /\ e.at < in[i].bottom}
            BY <2>1, <2>2, <3>3, ActiveFacts
        <3>6. QED
            BY <3>2, <3>3, <3>4, <3>5
    <2>5. QED
        BY <2>3, <2>4 DEF AssertsHold
<1>2. QED
    BY <1>1, AlwaysIInv, PTL

\* For every vector of rectangles that fits an id set: at every stop of the
\* sweep the cells behind the line are cut exactly, each covered cell into one
\* piece whose ids are those of the rectangles over it.
THEOREM SweepExact == Spec => []SweptExactly
<1>1. IInv => SweptExactly
    <2> SUFFICES ASSUME IInv, AtStop, Len(in) <= MaxElements,
                        NEW x \in Columns, NEW y \in Rows, x < line
                 PROVE  LET over == {r \in Swept : Covers(r.rect, x, y)}
                        IN  {r.id_set : r \in over} = {Covering(x, y)} \ {{}}
                                /\ Cardinality(over) <= 1
        BY DEF SweptExactly
    <2> DEFINE over == {r \in Swept : Covers(r.rect, x, y)}
    <2>1. in \in Inputs /\ line \in Int
        BY DEF IInv, Shapes
    <2>2. x \in Int /\ y \in Int
        BY <2>1, InputFacts DEF Columns, Rows
    <2>3. ExactAt(x, y)
        <3>1. \A e \in sweep_h_events : e.at \in Int
            BY <2>1, HEventFacts, InputFacts DEF IInv, Shapes, Left, Right
        <3>2. \A e \in sweep_h_events : x < e.at
            BY <2>1, <2>2, <3>1 DEF AtStop
        <3>3. QED
            BY <2>2, <3>2 DEF IInv, Exact
    <2>4. over = OutAt(x, y) \cup {Ended(r, line) : r \in OpenAt(x, y)}
        <3>1. \A r \in started_rects :
                  Covers(Ended(r, line).rect, x, y) <=> r \in OpenAt(x, y)
            BY DEF Covers, Ended, OpenAt, Spans
        <3>2. OpenAt(x, y) \subseteq started_rects
            BY DEF OpenAt
        <3>3. QED
            BY <3>1, <3>2 DEF Swept, OutAt
    <2>5. \A r : Ended(r, line).id_set = r.id_set
        BY DEF Ended
    <2> HIDE DEF over
    <2>6. \A p, q \in over : p = q
        BY <2>3, <2>4 DEF ExactAt
    <2>7. Cardinality(over) <= 1
        <3>1. CASE over = {}
            BY <3>1, FS_EmptySet
        <3>2. CASE over # {}
            <4>1. PICK p \in over : TRUE
                BY <3>2
            <4>2. over = {p}
                BY <2>6
            <4>3. Cardinality({p}) = 1
                BY FS_Singleton
            <4>4. QED
                BY <4>2, <4>3
        <3>3. QED
            BY <3>1, <3>2
    <2>8. \A p \in over : p.id_set = Covering(x, y)
        BY <2>3, <2>4, <2>5 DEF ExactAt
    <2>9. over = {} <=> Covering(x, y) = {}
        BY <2>3, <2>4 DEF ExactAt
    <2>10. {r.id_set : r \in over} = {Covering(x, y)} \ {{}}
        <3>1. CASE over = {}
            BY <2>9, <3>1
        <3>2. CASE over # {}
            BY <2>8, <2>9, <3>2
        <3>3. QED
            BY <3>1, <3>2
    <2>11. QED
        BY <2>7, <2>10 DEF over
<1>2. QED
    BY <1>1, AlwaysIInv, PTL

\* What separate_rects.h promises of the output, cell by cell of the plane: when
\* the sweep is over nothing is open, and every cell that some rectangle covers
\* lies in exactly one rectangle of the output, with the ids of all those over
\* it; no other cell lies in any.
OutputExact ==
    sweep_h_events = {} /\ Len(in) <= MaxElements =>
        /\ started_rects = {}
        /\ \A x, y \in Int :
               /\ Covering(x, y) = {} <=> OutAt(x, y) = {}
               /\ \A o \in OutAt(x, y) : o.id_set = Covering(x, y)
               /\ \A o, p \in OutAt(x, y) : o = p

\* The output of separate_rects is right for every vector of rectangles that
\* fits an id set.  An open rectangle would reach beyond the last right edge,
\* where nothing is covered.
THEOREM OutputRight == Spec => []OutputExact
<1>1. IInv => OutputExact
    <2> SUFFICES ASSUME IInv, sweep_h_events = {}, Len(in) <= MaxElements
                 PROVE  /\ started_rects = {}
                        /\ \A x, y \in Int :
                               /\ Covering(x, y) = {} <=> OutAt(x, y) = {}
                               /\ \A o \in OutAt(x, y) : o.id_set = Covering(x, y)
                               /\ \A o, p \in OutAt(x, y) : o = p
        BY DEF OutputExact
    <2>1. \A x, y \in Int : ExactAt(x, y)
        BY DEF IInv, Exact
    <2>2. in \in Inputs
        BY DEF IInv, Shapes
    <2>3. ASSUME NEW l \in Int
          PROVE  \E x \in Int : l <= x /\ \A i \in DOMAIN in : in[i].right <= x
        <3> DEFINE xs == {l} \cup ({in[i].left : i \in DOMAIN in}
                                       \cup {in[i].right : i \in DOMAIN in})
        <3>1. IsFiniteSet(xs)
            BY <2>2, CoordinatesFinite, FS_Singleton, FS_Union
        <3>2. xs \subseteq Int /\ l \in xs /\ \A i \in DOMAIN in : in[i].right \in xs
            BY <2>2, InputFacts
        <3> HIDE DEF xs
        <3>3. PICK x \in xs : \A n \in xs : n <= x
            BY <3>1, <3>2, GreatestInt
        <3>4. QED
            BY <3>2, <3>3
    <2>4. started_rects = {}
        <3> SUFFICES ASSUME NEW r \in started_rects PROVE FALSE
            OBVIOUS
        <3>1. /\ r.left \in Int /\ r.top \in Int /\ r.bottom \in Int
              /\ r.top < r.bottom
            BY DEF IInv, Shapes, StartedRect
        <3>2. PICK x \in Int : r.left <= x /\ \A i \in DOMAIN in : in[i].right <= x
            BY <2>3, <3>1
        <3>3. Covering(x, r.top) = {}
            BY <2>2, <3>2, InputFacts DEF Covering, Covers
        <3>4. r \in OpenAt(x, r.top)
            BY <3>1, <3>2 DEF OpenAt, Spans
        <3>5. QED
            BY <2>1, <3>1, <3>3, <3>4 DEF ExactAt
    <2>5. \A x, y : OpenAt(x, y) = {}
        BY <2>4 DEF OpenAt
    <2>6. QED
        BY <2>1, <2>4, <2>5 DEF ExactAt
<1>2. QED
    BY <1>1, AlwaysIInv, PTL
=============================================================================
