-------------------------- MODULE FramePlanProofs --------------------------
(***************************************************************************)
(* Planning for any layers, planes and history: no protected layer is read *)
(* by the GPU or covered by what is below it, the planes suffice, fences   *)
(* come after the last use, no plane but a spare primary one is left on,   *)
(* and the picture is right.                                               *)
(*                                                                         *)
(* The code hands planes out by counting.  What the counts say rests on    *)
(* Ascending, the vector of a set of indices, so the proof begins there:   *)
(* the number of smaller elements numbers a finite set from 0.             *)
(***************************************************************************)
EXTENDS FramePlan, FiniteSetTheorems, FunctionTheorems, WellFoundedInduction,
        SequenceTheorems, TLAPS

-----------------------------------------------------------------------------
(***************************************************************************)
(* Sets of indices and their vectors.                                      *)
(***************************************************************************)
\* Ranks are distinct and less than the size of the set.
LEMMA RankFacts ==
    ASSUME NEW S, IsFiniteSet(S), S \subseteq Nat
    PROVE  /\ Cardinality(S) \in Nat
           /\ \A i \in S : Rank(S, i) \in 0 .. Cardinality(S) - 1
           /\ \A i, j \in S : i < j => Rank(S, i) < Rank(S, j)
<1> DEFINE Below(i) == {j \in S : j < i}
<1>1. Cardinality(S) \in Nat
    BY FS_CardinalityType
<1>2. \A i \in S : /\ Below(i) \subseteq S /\ IsFiniteSet(Below(i))
                   /\ Cardinality(Below(i)) \in Nat
    BY FS_Subset, FS_CardinalityType
<1>3. \A i \in S : i \notin Below(i)
    OBVIOUS
<1>4. ASSUME NEW i \in S, NEW j \in S, i < j
      PROVE  Below(i) \subseteq Below(j) /\ i \in Below(j)
    <2>1. i \in Nat /\ j \in Nat /\ i \in Below(j)
        BY <1>4
    <2>2. ASSUME NEW m \in Below(i) PROVE m \in Below(j)
        <3>1. m \in S /\ m \in Nat /\ m < i
            OBVIOUS
        <3>2. m < j
            BY <1>4, <2>1, <3>1
        <3>3. QED
            BY <3>1, <3>2
    <2>3. QED
        BY <2>1, <2>2
<1> HIDE DEF Below
<1>5. ASSUME NEW i \in S PROVE Cardinality(Below(i)) < Cardinality(S)
    <2>1. /\ Cardinality(Below(i)) <= Cardinality(S)
          /\ Cardinality(S) = Cardinality(Below(i)) => S = Below(i)
        BY <1>2, FS_Subset
    <2>2. QED
        BY <1>1, <1>2, <1>3, <2>1
<1>6. ASSUME NEW i \in S, NEW j \in S, i < j
      PROVE  Cardinality(Below(i)) < Cardinality(Below(j))
    <2>1. /\ Cardinality(Below(i)) <= Cardinality(Below(j))
          /\ Cardinality(Below(j)) = Cardinality(Below(i)) => Below(j) = Below(i)
        BY <1>2, <1>4, <1>6, FS_Subset
    <2>2. QED
        BY <1>2, <1>3, <1>4, <1>6, <2>1
<1>7. \A i \in S : Rank(S, i) = Cardinality(Below(i))
    BY DEF Rank, Below
<1>8. QED
    BY <1>1, <1>2, <1>5, <1>6, <1>7

\* Every number below the size of the set is a rank.
LEMMA RankOnto ==
    ASSUME NEW S, IsFiniteSet(S), S \subseteq Nat,
           NEW k \in 0 .. Cardinality(S) - 1
    PROVE  \E i \in S : Rank(S, i) = k
<1> DEFINE n == Cardinality(S)
           T == 0 .. n - 1
           f == [i \in S |-> Rank(S, i)]
<1>1. n \in Nat /\ (\A i \in S : Rank(S, i) \in T)
      /\ (\A i, j \in S : i < j => Rank(S, i) < Rank(S, j))
    BY RankFacts
<1>2. IsFiniteSet(T) /\ Cardinality(T) = n
    BY <1>1, FS_Interval
<1> HIDE DEF n, T
<1>3. ASSUME NEW i \in S, NEW j \in S, Rank(S, i) = Rank(S, j) PROVE i = j
    <2>1. Rank(S, i) \in Int
        BY <1>1 DEF T
    <2>2. ~(i < j) /\ ~(j < i)
        BY <1>1, <1>3, <2>1
    <2>3. QED
        BY <2>2
<1>4. f \in Injection(S, T)
    BY <1>1, <1>3 DEF Injection, IsInjective
<1>5. f \in Surjection(S, T)
    BY <1>2, <1>4, FS_Injection DEF n
<1>6. k \in T
    BY DEF T, n
<1>7. QED
    BY <1>5, <1>6 DEF Surjection

\* The vector of a set of indices has them all, and nothing else.
LEMMA AscendingFacts ==
    ASSUME NEW S, IsFiniteSet(S), S \subseteq Nat
    PROVE  /\ Ascending(S) \in Seq(S)
           /\ Len(Ascending(S)) = Cardinality(S)
           /\ Cardinality(S) \in Nat
           /\ \A i \in S : \E k \in 1 .. Cardinality(S) : Ascending(S)[k] = i
<1> DEFINE n == Cardinality(S)
           a == Ascending(S)
<1>1. n \in Nat /\ (\A i \in S : Rank(S, i) \in 0 .. n - 1)
      /\ (\A i, j \in S : i < j => Rank(S, i) < Rank(S, j))
    BY RankFacts
<1>2. a = [k \in 1 .. n |-> CHOOSE i \in S : Rank(S, i) = k - 1]
    BY DEF Ascending, Rank
<1>3. ASSUME NEW k \in 1 .. n PROVE a[k] \in S /\ Rank(S, a[k]) = k - 1
    <2>1. k - 1 \in 0 .. n - 1
        BY <1>1
    <2>2. \E i \in S : Rank(S, i) = k - 1
        BY <2>1, RankOnto
    <2>3. QED
        BY <1>2, <2>2
<1> HIDE DEF n, a
<1>4. a \in Seq(S) /\ Len(a) = n
    BY <1>1, <1>2, <1>3
<1>5. ASSUME NEW i \in S PROVE \E k \in 1 .. n : a[k] = i
    <2> DEFINE k == Rank(S, i) + 1
    <2>1. k \in 1 .. n /\ k - 1 = Rank(S, i)
        BY <1>1
    <2> HIDE DEF k
    <2>2. a[k] \in S /\ Rank(S, a[k]) = Rank(S, i)
        BY <1>3, <2>1
    <2>3. Rank(S, i) \in Int /\ i \in Nat /\ a[k] \in Nat
        <3>1. i \in Nat /\ a[k] \in Nat
            BY <2>2
        <3>2. Rank(S, i) \in Int
            BY <1>1
        <3>3. QED
            BY <3>1, <3>2
    <2>4. ~(a[k] < i) /\ ~(i < a[k])
        BY <1>1, <2>2, <2>3
    <2>5. a[k] = i
        BY <2>3, <2>4
    <2>6. QED
        BY <2>1, <2>5
<1>6. QED
    BY <1>1, <1>4, <1>5 DEF n, a

\* The vector of a set of indices increases.
LEMMA AscendingIncreases ==
    ASSUME NEW S, IsFiniteSet(S), S \subseteq Nat
    PROVE  \A k, m \in 1 .. Cardinality(S) : k < m => Ascending(S)[k] < Ascending(S)[m]
<1> DEFINE n == Cardinality(S)
           a == Ascending(S)
<1>1. n \in Nat /\ (\A i, j \in S : i < j => Rank(S, i) < Rank(S, j))
    BY RankFacts
<1>2. a = [k \in 1 .. n |-> CHOOSE i \in S : Rank(S, i) = k - 1]
    BY DEF Ascending, Rank
<1>3. ASSUME NEW k \in 1 .. n PROVE a[k] \in S /\ Rank(S, a[k]) = k - 1
    <2>1. k - 1 \in 0 .. n - 1
        BY <1>1
    <2>2. \E i \in S : Rank(S, i) = k - 1
        BY <2>1, RankOnto
    <2>3. QED
        BY <1>2, <2>2
<1> HIDE DEF n, a
<1>4. ASSUME NEW k \in 1 .. n, NEW m \in 1 .. n, k < m PROVE a[k] < a[m]
    <2>1. a[k] \in S /\ a[m] \in S /\ Rank(S, a[k]) = k - 1 /\ Rank(S, a[m]) = m - 1
        BY <1>3
    <2>2. a[k] \in Nat /\ a[m] \in Nat
        BY <2>1
    <2>3. ASSUME a[m] < a[k] PROVE FALSE
        <3>1. Rank(S, a[m]) < Rank(S, a[k])
            BY <1>1, <2>1, <2>3
        <3>2. m - 1 < k - 1
            BY <2>1, <3>1
        <3>3. QED
            BY <1>1, <1>4, <3>2
    <2>4. a[m] # a[k]
        BY <1>1, <1>4, <2>1
    <2>5. QED
        BY <2>2, <2>3, <2>4
<1>5. QED
    BY <1>4 DEF n, a

\* In the vector of a set of indices that begin at 1, no index comes after the
\* place of its own number.
LEMMA AscendingAtLeast ==
    ASSUME NEW S, IsFiniteSet(S), S \subseteq Nat \ {0}, NEW k \in 1 .. Cardinality(S)
    PROVE  Ascending(S)[k] \in S /\ Ascending(S)[k] >= k
<1> DEFINE n == Cardinality(S)
           i == Ascending(S)[k]
           below == {j \in S : j < i}
<1>1. n \in Nat /\ k \in Nat
    BY FS_CardinalityType
<1>2. k - 1 \in 0 .. n - 1 /\ S \subseteq Nat
    BY <1>1
<1>3. \E j \in S : Rank(S, j) = k - 1
    BY <1>2, RankOnto
<1>4. i = CHOOSE j \in S : Rank(S, j) = k - 1
    BY DEF Ascending
<1>5. i \in S /\ Rank(S, i) = k - 1
    BY <1>3, <1>4
<1>6. Cardinality(below) = k - 1
    BY <1>5 DEF Rank
<1> HIDE DEF i
<1>7. i \in Nat \ {0} /\ below \subseteq 1 .. i - 1
    <2>1. i \in Nat \ {0}
        BY <1>5
    <2>2. ASSUME NEW j \in S, j < i PROVE j \in 1 .. i - 1
        <3>1. j \in Nat \ {0}
            OBVIOUS
        <3>2. QED
            BY <2>1, <2>2, <3>1
    <2>3. QED
        BY <2>1, <2>2
<1> HIDE DEF below
<1>8. IsFiniteSet(1 .. i - 1) /\ Cardinality(1 .. i - 1) = i - 1
    BY <1>7, FS_Interval
<1>9. Cardinality(below) <= i - 1
    <2>1. below \in SUBSET (1 .. i - 1)
        BY <1>7
    <2>2. Cardinality(below) <= Cardinality(1 .. i - 1)
        BY <1>8, <2>1, FS_Subset, Zenon
    <2>3. QED
        BY <1>8, <2>2
<1>10. QED
    BY <1>1, <1>5, <1>6, <1>7, <1>9 DEF i

-----------------------------------------------------------------------------
(***************************************************************************)
(* Planes.                                                                 *)
(***************************************************************************)
\* The set of a sequence.
LEMMA ToSetFacts ==
    ASSUME NEW D, NEW s \in Seq(D)
    PROVE  /\ ToSet(s) = {s[k] : k \in 1 .. Len(s)}
           /\ ToSet(s) \subseteq D
           /\ Len(s) \in Nat
           /\ IsFiniteSet(ToSet(s)) /\ Cardinality(ToSet(s)) \in Nat
           /\ Cardinality(ToSet(s)) <= Len(s)
<1>1. Len(s) \in Nat /\ DOMAIN s = 1 .. Len(s) /\ s \in [1 .. Len(s) -> D]
    OBVIOUS
<1>2. ToSet(s) = {s[k] : k \in 1 .. Len(s)}
    BY <1>1 DEF ToSet
<1>3. ToSet(s) \subseteq D
    BY <1>1, <1>2
<1>4. s \in Surjection(1 .. Len(s), ToSet(s))
    BY <1>1, <1>2 DEF Surjection
<1>5. IsFiniteSet(1 .. Len(s)) /\ Cardinality(1 .. Len(s)) = Len(s)
    BY <1>1, FS_Interval
<1>6. IsFiniteSet(ToSet(s)) /\ Cardinality(ToSet(s)) <= Len(s)
    BY <1>4, <1>5, FS_Surjection
<1>7. Cardinality(ToSet(s)) \in Nat
    BY <1>6, FS_CardinalityType
<1>8. QED
    BY <1>1, <1>2, <1>3, <1>6, <1>7

\* The usable planes of a list are those of its planes the crtc supports.
LEMMA UsableFacts ==
    ASSUME NEW D, NEW planes \in Seq(D)
    PROVE  /\ Usable(planes) \in Seq(Supported)
           /\ Len(Usable(planes)) \in Nat
<1> DEFINE S == {i \in DOMAIN planes : planes[i] \in Supported}
           picked == Ascending(S)
<1>1. IsFiniteSet(1 .. Len(planes)) /\ DOMAIN planes = 1 .. Len(planes)
    BY FS_Interval
<1>2. S \subseteq 1 .. Len(planes) /\ S \subseteq Nat
    BY <1>1
<1>3. IsFiniteSet(S)
    BY <1>1, <1>2, FS_Subset
<1>4. \A i \in S : planes[i] \in Supported
    OBVIOUS
<1>5. Usable(planes) = [k \in DOMAIN picked |-> planes[picked[k]]]
    BY DEF Usable
<1> HIDE DEF S, picked
<1>6. picked \in Seq(S)
    BY <1>2, <1>3, AscendingFacts DEF picked
<1>7. QED
    BY <1>4, <1>5, <1>6

\* Planes are handed out from a list of supported ones.
LEMMA TakeOrderFacts ==
    /\ TakeOrder \in Seq(Supported)
    /\ Len(TakeOrder) \in Nat
    /\ Usable(PrimaryPlanes) \in Seq(Supported)
    /\ Usable(OverlayPlanes) \in Seq(Supported)
    /\ ToSet(TakeOrder) = ToSet(Usable(PrimaryPlanes)) \cup ToSet(Usable(OverlayPlanes))
<1>1. Usable(PrimaryPlanes) \in Seq(Supported) /\ Usable(OverlayPlanes) \in Seq(Supported)
    BY PlaneAssumption, UsableFacts
<1> DEFINE s == Usable(PrimaryPlanes)
           t == Usable(OverlayPlanes)
<1> HIDE DEF s, t
<1>2. TakeOrder = s \o t
    BY DEF TakeOrder, s, t
<1>3. s \in Seq(Supported) /\ t \in Seq(Supported)
    BY <1>1 DEF s, t
<1>4. TakeOrder \in Seq(Supported) /\ Len(TakeOrder) = Len(s) + Len(t)
      /\ Len(TakeOrder) \in Nat
    BY <1>2, <1>3
<1>5. ToSet(TakeOrder) = ToSet(s) \cup ToSet(t)
    <2>1. /\ ToSet(TakeOrder) = {TakeOrder[k] : k \in 1 .. Len(TakeOrder)}
          /\ ToSet(s) = {s[k] : k \in 1 .. Len(s)}
          /\ ToSet(t) = {t[k] : k \in 1 .. Len(t)}
        BY <1>3, <1>4, ToSetFacts
    <2>2. ASSUME NEW k \in 1 .. Len(TakeOrder)
          PROVE  TakeOrder[k] \in ToSet(s) \cup ToSet(t)
        <3>1. CASE k <= Len(s)
            BY <1>2, <1>3, <2>1, <3>1
        <3>2. CASE k > Len(s)
            <4>1. TakeOrder[k] = t[k - Len(s)] /\ k - Len(s) \in 1 .. Len(t)
                BY <1>2, <1>3, <1>4, <3>2
            <4>2. QED
                BY <2>1, <4>1
        <3>3. QED
            BY <1>3, <3>1, <3>2
    <2>3. ASSUME NEW k \in 1 .. Len(s) PROVE s[k] \in ToSet(TakeOrder)
        <3>1. TakeOrder[k] = s[k] /\ k \in 1 .. Len(TakeOrder)
            BY <1>2, <1>3, <1>4
        <3>2. QED
            BY <2>1, <3>1
    <2>4. ASSUME NEW k \in 1 .. Len(t) PROVE t[k] \in ToSet(TakeOrder)
        <3>1. TakeOrder[k + Len(s)] = t[k] /\ k + Len(s) \in 1 .. Len(TakeOrder)
            BY <1>2, <1>3, <1>4
        <3>2. QED
            BY <2>1, <3>1
    <2>5. QED
        BY <2>1, <2>2, <2>3, <2>4
<1>6. QED
    BY <1>3, <1>4, <1>5 DEF s, t

\* Some plane can be taken.
LEMMA APlane == Len(TakeOrder) >= 1
<1> DEFINE P == PrimaryPlanes
           O == OverlayPlanes
           DP == ToSet(PrimaryPlanes)
           DO == ToSet(OverlayPlanes)
<1>1. P \in Seq(DP) /\ O \in Seq(DO)
    BY PlaneAssumption
<1>2. PICK i \in DOMAIN (P \o O) : (P \o O)[i] \in Supported
    BY PlaneAssumption
<1>3. ASSUME NEW D, NEW planes \in Seq(D), NEW j \in DOMAIN planes, planes[j] \in Supported
      PROVE  Len(Usable(planes)) >= 1
    <2> DEFINE S == {k \in DOMAIN planes : planes[k] \in Supported}
               picked == Ascending(S)
    <2>1. IsFiniteSet(1 .. Len(planes)) /\ DOMAIN planes = 1 .. Len(planes)
        BY FS_Interval
    <2>2. S \subseteq 1 .. Len(planes) /\ S \subseteq Nat /\ j \in S
        BY <1>3, <2>1
    <2>3. IsFiniteSet(S)
        BY <2>1, <2>2, FS_Subset
    <2>4. Usable(planes) = [k \in DOMAIN picked |-> planes[picked[k]]]
        BY DEF Usable
    <2> HIDE DEF S, picked
    <2>5. /\ picked \in Seq(S) /\ Len(picked) = Cardinality(S)
          /\ \E k \in 1 .. Cardinality(S) : picked[k] = j
        BY <2>2, <2>3, AscendingFacts DEF picked
    <2>6. Len(picked) \in Nat /\ Len(picked) >= 1
        BY <2>5
    <2>7. QED
        BY <2>4, <2>5, <2>6
<1>4. \/ \E j \in DOMAIN P : P[j] \in Supported
      \/ \E j \in DOMAIN O : O[j] \in Supported
    <2> HIDE DEF P, O, DP, DO
    <2>0. P \in Seq(DP \cup DO) /\ O \in Seq(DP \cup DO)
        <3>1. P \in [1 .. Len(P) -> DP] /\ Len(P) \in Nat /\ O \in [1 .. Len(O) -> DO]
              /\ Len(O) \in Nat
            BY <1>1
        <3>2. P \in [1 .. Len(P) -> DP \cup DO] /\ O \in [1 .. Len(O) -> DP \cup DO]
            BY <3>1
        <3>3. QED
            BY <3>1, <3>2
    <2>1. /\ Len(P \o O) = Len(P) + Len(O) /\ Len(P) \in Nat /\ Len(O) \in Nat
          /\ DOMAIN (P \o O) = 1 .. Len(P) + Len(O)
          /\ \A k \in 1 .. Len(P) : (P \o O)[k] = P[k]
          /\ \A k \in Len(P) + 1 .. Len(P) + Len(O) : (P \o O)[k] = O[k - Len(P)]
        BY <2>0
    <2>2. CASE i <= Len(P)
        BY <1>1, <1>2, <2>1, <2>2
    <2>3. CASE i > Len(P)
        <3>1. i - Len(P) \in DOMAIN O /\ (P \o O)[i] = O[i - Len(P)]
            BY <1>1, <1>2, <2>1, <2>3
        <3>2. QED
            BY <1>2, <3>1
    <2>4. QED
        BY <2>1, <2>2, <2>3
<1>5. Len(Usable(P)) >= 1 \/ Len(Usable(O)) >= 1
    <2> HIDE DEF P, O, DP, DO
    <2>1. QED
        BY <1>1, <1>3, <1>4
<1> DEFINE s == Usable(P)
           t == Usable(O)
<1>6. s \in Seq(Supported) /\ t \in Seq(Supported) /\ TakeOrder = s \o t
    BY TakeOrderFacts DEF TakeOrder
<1> HIDE DEF s, t
<1>7. Len(TakeOrder) = Len(s) + Len(t) /\ Len(s) \in Nat /\ Len(t) \in Nat
    BY <1>6
<1>8. QED
    BY <1>5, <1>7 DEF s, t

\* The planes that get a source are the first ones of that list.
LEMMA PlanesFacts ==
    ASSUME NEW n \in Nat, NEW sources, Len(sources) = n
    PROVE  ToSet(Planes(sources)) \subseteq ToSet(TakeOrder)
<1> DEFINE m == Min2(n, Len(TakeOrder))
<1>1. m \in Nat /\ m <= Len(TakeOrder)
    BY TakeOrderFacts DEF Min2
<1> HIDE DEF m
<1>2. /\ Planes(sources) = SubSeq(TakeOrder, 1, m)
      /\ Planes(sources) \in Seq(Supported) /\ Len(Planes(sources)) = m
      /\ \A k \in 1 .. m : Planes(sources)[k] = TakeOrder[k]
    BY <1>1, TakeOrderFacts DEF Planes, m
<1>3. /\ ToSet(Planes(sources)) = {Planes(sources)[k] : k \in 1 .. m}
      /\ ToSet(TakeOrder) = {TakeOrder[k] : k \in 1 .. Len(TakeOrder)}
    BY <1>2, TakeOrderFacts, ToSetFacts
<1>4. QED
    BY <1>1, <1>2, <1>3, TakeOrderFacts

-----------------------------------------------------------------------------
(***************************************************************************)
(* The plan of a frame.                                                    *)
(***************************************************************************)
\* Protected layers take planes first, no more than there are; one that gets
\* none leaves none for the other layers.
LEMMA ProtectedFacts ==
    ASSUME layers \in Seq(Layer)
    PROVE  /\ ProtectedLayers \subseteq DOMAIN layers
           /\ IsFiniteSet(ProtectedLayers)
           /\ Cardinality(ProtectedLayers) \in 0 .. Len(TakeOrder)
           /\ \A i \in ProtectedLayers : layers[i].protected
           /\ \A i \in DOMAIN layers : layers[i].protected /\ i \notin ProtectedLayers
                  => Cardinality(ProtectedLayers) = Len(TakeOrder)
<1> DEFINE P == {i \in DOMAIN layers : layers[i].protected}
           N == Len(TakeOrder)
           R == 0 .. N - 1
           Q == ProtectedLayers
           f == [i \in Q |-> Rank(P, i)]
<1>1. /\ DOMAIN layers = 1 .. Len(layers) /\ Len(layers) \in Nat
      /\ IsFiniteSet(1 .. Len(layers))
    BY FS_Interval
<1>2. P \subseteq 1 .. Len(layers) /\ P \subseteq Nat
    BY <1>1
<1>3. IsFiniteSet(P)
    BY <1>1, <1>2, FS_Subset
<1>4. N \in Nat
    BY TakeOrderFacts
<1>5. Q = {i \in P : Rank(P, i) < N}
    BY DEF ProtectedLayers, Rank
<1>6. Q \subseteq DOMAIN layers /\ (\A i \in Q : layers[i].protected)
    BY <1>5
<1>7. \A i \in DOMAIN layers : layers[i].protected => i \in P
    OBVIOUS
<1> HIDE DEF P, N, Q
<1>8. /\ Cardinality(P) \in Nat
      /\ \A i \in P : Rank(P, i) \in 0 .. Cardinality(P) - 1
      /\ \A i, j \in P : i < j => Rank(P, i) < Rank(P, j)
    BY <1>2, <1>3, RankFacts
<1>9. IsFiniteSet(R) /\ Cardinality(R) = N
    BY <1>4, FS_Interval
<1>10. f \in Injection(Q, R)
    <2>1. \A i \in Q : Rank(P, i) \in R
        BY <1>4, <1>5, <1>8
    <2>2. ASSUME NEW i \in Q, NEW j \in Q, Rank(P, i) = Rank(P, j) PROVE i = j
        <3>1. i \in P /\ j \in P /\ i \in Nat /\ j \in Nat /\ Rank(P, i) \in Int
            BY <1>2, <1>5, <2>1
        <3>2. ~(i < j) /\ ~(j < i)
            BY <1>8, <2>2, <3>1
        <3>3. QED
            BY <3>1, <3>2
    <2>3. QED
        BY <2>1, <2>2 DEF Injection, IsInjective
<1>11. /\ IsFiniteSet(Q) /\ Cardinality(Q) <= Cardinality(R)
       /\ Cardinality(Q) = Cardinality(R) <=> f \in Surjection(Q, R)
    <2> HIDE DEF f, R
    <2>1. QED
        BY <1>9, <1>10, FS_Injection
<1>12. Cardinality(Q) \in 0 .. N
    <2>1. Cardinality(Q) \in Nat
        BY <1>11, FS_CardinalityType
    <2>2. QED
        BY <1>4, <1>9, <1>11, <2>1
<1>13. ASSUME NEW i \in P, i \notin Q PROVE Cardinality(Q) = N
    <2>1. N < Cardinality(P)
        <3>1. ~(Rank(P, i) < N)
            BY <1>5, <1>13
        <3>2. QED
            BY <1>4, <1>8, <3>1
    <2>2. ASSUME NEW k \in R PROVE \E j \in Q : f[j] = k
        <3>1. k \in 0 .. Cardinality(P) - 1 /\ k < N
            BY <1>4, <1>8, <2>1
        <3>2. PICK j \in P : Rank(P, j) = k
            BY <1>2, <1>3, <3>1, RankOnto
        <3>3. j \in Q
            BY <1>5, <3>1, <3>2
        <3>4. QED
            BY <3>2, <3>3
    <2>3. f \in Surjection(Q, R)
        BY <1>10, <2>2 DEF Surjection, Injection
    <2>4. QED
        BY <1>9, <1>11, <2>3
<1>14. QED
    BY <1>6, <1>7, <1>11, <1>12, <1>13 DEF Q, N

\* What a plan of the layers and the stable regions must be.
GoodPlan(plan, stable) ==
    /\ Len(plan.sources) \in Nat /\ Len(plan.sources) <= Len(TakeOrder)
    /\ \A i \in DOMAIN layers : layers[i].protected =>
           /\ \A c \in Cells : i \notin plan.pre_comp[c]
           /\ \A c \in layers[i].display_frame : \A j \in plan.pre_comp[c] : j > i

\* A stable region has layers, and none that is protected.
Squashable(stable) ==
    \A c \in stable : /\ c \in Cells /\ Covering(c) # {}
                      /\ \A i \in Covering(c) : ~layers[i].protected

\* The counting of Plan: protected layers, the squash framebuffer and the
\* pre-composition each have their plane, and the layers that share one are not
\* protected, nor below a protected one where they are drawn.
LEMMA AssignFacts ==
    ASSUME layers \in Seq(Layer), NEW stable, Squashable(stable)
    PROVE  GoodPlan(Assign(stable), stable)
<1> DEFINE protected == ProtectedLayers
           all == DOMAIN layers \ protected
           N == Len(TakeOrder)
           left == N - Cardinality(protected)
           some == NotSquashed(all, stable)
           squash == stable # {} /\ (left > 1 \/ some = {})
           rest == IF squash THEN some ELSE all
           remaining == Ascending(rest)
           n == Len(remaining)
           planes == KeepForPreComp(n, IF squash THEN Dec(left) ELSE left)
           hw == Min2(n, planes)
           used == SubSeq(remaining, hw + 1, n)
           own == protected \cup ToSet(SubSeq(remaining, 1, hw))
           pre == IF used = <<>> THEN <<>> ELSE <<PreComp>>
           sq == IF squash THEN <<Squash>> ELSE <<>>
<1>1. /\ DOMAIN layers = 1 .. Len(layers) /\ Len(layers) \in Nat
      /\ IsFiniteSet(1 .. Len(layers))
    BY FS_Interval
<1>2. /\ protected \subseteq DOMAIN layers /\ IsFiniteSet(protected)
      /\ Cardinality(protected) \in 0 .. N /\ N \in Nat
      /\ \A i \in all : layers[i].protected => left = 0
    BY ProtectedFacts, TakeOrderFacts
<1>3. left \in Nat
    BY <1>2
<1>4. rest \subseteq all /\ rest \subseteq Nat /\ IsFiniteSet(rest)
    <2>1. rest \subseteq all
        BY DEF NotSquashed
    <2> HIDE DEF rest
    <2>2. rest \subseteq 1 .. Len(layers) /\ rest \subseteq Nat
        BY <1>1, <2>1
    <2>3. QED
        BY <1>1, <2>1, <2>2, FS_Subset
<1>5. squash /\ left = 0 => all # {}
    <2> SUFFICES ASSUME squash PROVE all # {}
        OBVIOUS
    <2>1. PICK c \in stable : TRUE
        OBVIOUS
    <2>2. PICK i \in Covering(c) : ~layers[i].protected
        BY <2>1 DEF Squashable
    <2>3. i \in DOMAIN layers /\ i \notin protected
        BY <2>2, ProtectedFacts DEF Covering
    <2>4. QED
        BY <2>3
<1>6. squash /\ ~(left > 1) => rest = {}
    OBVIOUS
<1>7. left = 0 /\ all # {} =>
          Assign(stable) = [sources |-> Ascending(protected), used |-> <<>>,
                            regions |-> FALSE, pre_comp |-> [c \in Cells |-> {}]]
    BY DEF Assign
<1>8. ~(left = 0 /\ all # {}) =>
          Assign(stable) = [sources |-> Ascending(own) \o pre \o sq, used |-> used,
                            regions |-> HasRegions(used, stable),
                            pre_comp |-> SeparateLayers(used, stable)]
    BY DEF Assign
<1>12. \A i \in DOMAIN layers : layers[i].display_frame \subseteq Cells
    <2> SUFFICES ASSUME NEW i \in DOMAIN layers
                 PROVE  layers[i].display_frame \subseteq Cells
        OBVIOUS
    <2>1. layers[i] \in Layer
        OBVIOUS
    <2>2. QED
        BY <2>1 DEF Layer
<1> HIDE DEF rest, protected, N
<1>9. CASE left = 0 /\ all # {}
    <2>1. protected \subseteq Nat
        BY <1>1, <1>2
    <2>2. Len(Ascending(protected)) = Cardinality(protected)
        BY <1>2, <2>1, AscendingFacts
    <2>3. QED
        BY <1>2, <1>7, <1>9, <1>12, <2>2 DEF GoodPlan, N
<1>10. CASE ~(left = 0 /\ all # {})
    <2> HIDE DEF left, squash
    <2>1. remaining \in Seq(rest) /\ n = Cardinality(rest) /\ n \in Nat
        BY <1>4, AscendingFacts
    <2> HIDE DEF remaining
    <2>2. planes \in Nat
        BY <1>3, <2>1 DEF KeepForPreComp, Dec, SizeMax
    <2>3. hw \in Nat /\ hw <= n
        BY <2>1, <2>2 DEF Min2
    <2> HIDE DEF hw
    <2> DEFINE first == SubSeq(remaining, 1, hw)
    <2>4. first \in Seq(rest) /\ Len(first) = hw
        BY <2>1, <2>3
    <2>5. used \in Seq(rest) /\ Len(used) = n - hw
        BY <2>1, <2>3
    <2> HIDE DEF used
    <2>6. used = <<>> <=> hw = n
        <3>1. used = <<>> <=> Len(used) = 0
            BY <2>5
        <3>2. QED
            BY <2>1, <2>3, <2>5, <3>1
    <2>7. /\ IsFiniteSet(own) /\ own \subseteq Nat /\ Cardinality(own) \in Nat
          /\ Cardinality(own) <= Cardinality(protected) + hw
        <3> HIDE DEF first
        <3>1. /\ IsFiniteSet(ToSet(first)) /\ Cardinality(ToSet(first)) \in Nat
              /\ Cardinality(ToSet(first)) <= hw /\ ToSet(first) \subseteq rest
            BY <2>4, ToSetFacts
        <3>2. own = protected \cup ToSet(first)
            BY DEF first
        <3> HIDE DEF own
        <3>3. IsFiniteSet(own) /\ Cardinality(own) = Cardinality(protected)
                  + Cardinality(ToSet(first)) - Cardinality(protected \cap ToSet(first))
            BY <1>2, <3>1, <3>2, FS_Union
        <3>4. /\ Cardinality(protected \cap ToSet(first)) \in Nat
              /\ Cardinality(own) \in Nat
            <4>1. IsFiniteSet(protected \cap ToSet(first))
                BY <1>2, FS_Intersection
            <4>2. QED
                BY <3>3, <4>1, FS_CardinalityType
        <3>5. own \subseteq Nat
            <4>1. protected \subseteq Nat
                BY <1>1, <1>2
            <4>2. QED
                BY <1>4, <3>1, <3>2, <4>1
        <3>6. QED
            BY <1>2, <2>3, <3>1, <3>3, <3>4, <3>5
    <2> HIDE DEF own
    <2>8. Ascending(own) \in Seq(own) /\ Len(Ascending(own)) = Cardinality(own)
        BY <2>7, AscendingFacts
    <2> DEFINE sources == Ascending(own) \o pre \o sq
    <2>9. /\ Len(sources) \in Nat
          /\ Len(sources) = Cardinality(own) + (IF used = <<>> THEN 0 ELSE 1)
                                + (IF squash THEN 1 ELSE 0)
        <3>1. Ascending(own) \in Seq(Int)
            <4> DEFINE a == Ascending(own)
            <4> HIDE DEF a
            <4>1. a \in Seq(own) /\ own \subseteq Int
                BY <2>7, <2>8 DEF a
            <4>2. Len(a) \in Nat /\ a \in [1 .. Len(a) -> Int]
                <5>1. Len(a) \in Nat /\ a \in [1 .. Len(a) -> own]
                    BY <4>1
                <5>2. \A k \in 1 .. Len(a) : a[k] \in Int
                    BY <4>1, <5>1
                <5>3. QED
                    BY <5>1, <5>2
            <4>3. a \in Seq(Int)
                BY <4>2
            <4>4. QED
                BY <4>3 DEF a
        <3>2. pre \in Seq(Int) /\ Len(pre) = IF used = <<>> THEN 0 ELSE 1
            BY DEF PreComp
        <3>3. sq \in Seq(Int) /\ Len(sq) = IF squash THEN 1 ELSE 0
            BY DEF Squash
        <3> DEFINE a == Ascending(own)
        <3> HIDE DEF pre, sq, a
        <3>4. Len(a \o pre \o sq) = Len(a) + Len(pre) + Len(sq)
            <4>1. a \in Seq(Int)
                BY <3>1 DEF a
            <4>2. a \o pre \in Seq(Int) /\ Len(a \o pre) = Len(a) + Len(pre)
                BY <3>2, <4>1, ConcatProperties
            <4> DEFINE b == a \o pre
            <4> HIDE DEF b
            <4>3. Len(b \o sq) = Len(b) + Len(sq)
                BY <3>3, <4>2, ConcatProperties DEF b
            <4>4. QED
                BY <4>2, <4>3 DEF b
        <3>5. QED
            BY <2>7, <2>8, <3>2, <3>3, <3>4 DEF a
    <2> HIDE DEF sources
    <2>10. Len(sources) <= N
        <3>1. Cardinality(protected) \in Nat /\ left = N - Cardinality(protected)
            BY <1>2 DEF left
        <3>2. hw = IF n < planes THEN n ELSE planes
            BY DEF hw, Min2
        <3>3. planes = LET p == IF squash THEN Dec(left) ELSE left
                       IN  IF n > p THEN Dec(p) ELSE p
            BY DEF KeepForPreComp
        <3> HIDE DEF planes, n
        <3>4. CASE squash /\ left > 1
            <4>1. planes = IF n > left - 1 THEN left - 2 ELSE left - 1
                BY <1>3, <2>1, <3>3, <3>4 DEF Dec
            <4>2. QED
                <5>1. CASE n > left - 1
                    <6>1. hw = left - 2 /\ ~(used = <<>>)
                        BY <1>2, <1>3, <2>1, <2>6, <3>2, <3>4, <4>1, <5>1
                    <6>2. Len(sources) = Cardinality(own) + 2
                        BY <2>7, <2>9, <3>4, <6>1
                    <6>3. QED
                        BY <1>2, <2>7, <3>1, <6>1, <6>2
                <5>2. CASE ~(n > left - 1)
                    <6>1. hw = n /\ used = <<>> /\ n <= left - 1
                        BY <1>2, <1>3, <2>1, <2>6, <3>2, <4>1, <5>2
                    <6>2. Len(sources) = Cardinality(own) + 1
                        BY <2>7, <2>9, <3>4, <6>1
                    <6>3. QED
                        BY <1>2, <2>1, <2>7, <3>1, <6>1, <6>2
                <5>3. QED
                    BY <5>1, <5>2
        <3>5. CASE squash /\ ~(left > 1)
            <4>1. n = 0
                BY <1>6, <2>1, <3>5, FS_EmptySet DEF squash, left
            <4>2. left = 1
                BY <1>3, <1>5, <1>10, <3>5
            <4>3. QED
                BY <1>2, <2>3, <2>6, <2>7, <2>9, <3>1, <3>5, <4>1, <4>2
        <3>6. CASE ~squash
            <4>1. left = 0 => n = 0
                <5>1. left = 0 => rest = {}
                    BY <1>4, <1>10
                <5>2. QED
                    BY <2>1, <5>1, FS_EmptySet
            <4>2. planes = IF n > left THEN left - 1 ELSE left
                BY <1>3, <2>1, <3>3, <3>6, <4>1 DEF Dec
            <4>3. QED
                <5>1. CASE n > left
                    <6>1. hw = left - 1 /\ ~(used = <<>>)
                        BY <1>2, <1>3, <2>1, <2>6, <3>2, <4>1, <4>2, <5>1
                    <6>2. Len(sources) = Cardinality(own) + 1
                        BY <2>7, <2>9, <3>6, <6>1
                    <6>3. QED
                        BY <1>2, <2>7, <3>1, <6>1, <6>2
                <5>2. CASE ~(n > left)
                    <6>1. hw = n /\ used = <<>> /\ n <= left
                        BY <1>2, <1>3, <2>1, <2>6, <3>2, <4>2, <5>2
                    <6>2. Len(sources) = Cardinality(own)
                        BY <2>7, <2>9, <3>6, <6>1
                    <6>3. QED
                        BY <1>2, <2>1, <2>7, <3>1, <6>1, <6>2
                <5>3. QED
                    BY <5>1, <5>2
        <3>7. QED
            BY <3>4, <3>5, <3>6
    <2>11. ASSUME NEW i \in DOMAIN layers, layers[i].protected, NEW c \in Cells
           PROVE  i \notin SeparateLayers(used, stable)[c]
        <3>1. ASSUME NEW j \in DOMAIN used PROVE used[j] # i
            <4>1. used[j] \in all
                <5>1. used[j] \in rest
                    BY <2>5
                <5>2. QED
                    BY <1>4, <5>1
            <4>2. left # 0
                BY <1>10, <4>1
            <4>3. QED
                BY <1>2, <2>11, <4>1, <4>2 DEF left
        <3>2. QED
            BY <3>1 DEF SeparateLayers
    <2>12. /\ Assign(stable).sources = sources
           /\ Assign(stable).pre_comp = SeparateLayers(used, stable)
        <3> HIDE DEF pre, sq
        <3>1. QED
            BY <1>8, <1>10 DEF sources
    <2>13. ASSUME NEW i \in DOMAIN layers, layers[i].protected,
                  NEW c \in layers[i].display_frame,
                  NEW j \in SeparateLayers(used, stable)[c]
           PROVE  j > i
        <3>1. c \in Cells
            BY <1>12
        <3>2. PICK k \in DOMAIN used \ HoleOver(used, c) : j = used[k]
            BY <2>13, <3>1 DEF SeparateLayers
        <3>3. k \in 1 .. n - hw /\ used[k] \in rest
            BY <2>5, <3>2
        <3>4. used[k] = remaining[k + hw] /\ k + hw \in 1 .. n
            BY <2>1, <2>3, <3>3 DEF used
        <3>5. rest \subseteq Nat \ {0}
            BY <1>1, <1>4
        <3>6. used[k] >= k + hw
            BY <1>4, <2>1, <3>4, <3>5, AscendingAtLeast DEF remaining
        <3>7. i \in protected
            <4>1. left # 0
                BY <1>4, <1>10, <3>3
            <4>2. QED
                BY <1>2, <2>13, <4>1 DEF left
        <3>8. ~(k <= i - 1)
            BY <2>13, <3>2, <3>7 DEF HoleOver, protected
        <3>9. j # i
            BY <1>4, <3>2, <3>3, <3>7
        <3>10. i \in Nat /\ k \in Nat /\ hw \in Nat /\ j \in Nat /\ j >= k + hw
            <4>1. i \in Nat
                BY <1>1
            <4>2. k \in Nat
                BY <2>1, <2>3, <3>3
            <4>3. QED
                BY <2>3, <3>2, <3>3, <3>5, <3>6, <4>1, <4>2
        <3>11. QED
            BY <3>8, <3>9, <3>10
    <2>14. QED
        BY <2>9, <2>10, <2>11, <2>12, <2>13 DEF GoodPlan, N
<1>11. QED
    BY <1>9, <1>10

\* What every planned frame is: within its planes, without protected layers for
\* the GPU, with its fences in order, and with the unused planes disabled.
FrameRight(f) ==
    /\ Len(f.plan.sources) \in Nat /\ Len(f.plan.sources) <= Len(TakeOrder)
    /\ f.disabled = Disabled(f.plan.sources)
    /\ \A i \in DOMAIN f.layers : f.layers[i].protected =>
           /\ \A c \in Cells : i \notin f.plan.pre_comp[c]
           /\ \A c \in DOMAIN f.squash_regions : i \notin f.squash_regions[c]
           /\ \A c \in f.layers[i].display_frame : \A j \in f.plan.pre_comp[c] : j > i
    /\ \A i \in DOMAIN f.layers :
           /\ i \in ToSet(f.plan.sources) => f.release.fence[i] > WhenShown(f)
           /\ (\E c \in Cells : i \in f.plan.pre_comp[c])
                  => f.release.fence[i] > WhenPreComposited(f)
           /\ (\E c \in DOMAIN f.squash_regions : i \in f.squash_regions[c])
                  => f.release.fence[i] > 0
           /\ f.release.fence[i] <= f.release.timeline

\* The points of a frame's timeline: each stage's fences come after the stages
\* before, and all of them before the end.
LEMMA ReleaseFacts ==
    ASSUME layers \in Seq(Layer), NEW regions, NEW plan,
           NEW i \in DOMAIN layers
    PROVE  LET r == CreateAndAssignReleaseFences(regions, plan) IN
           /\ r.squash_done \in Nat /\ r.pre_comp_done \in Nat
           /\ r.squash_done <= r.pre_comp_done
           /\ i \in ReadByPlane(plan) => r.fence[i] > r.pre_comp_done
           /\ i \in ReadByPreComp(plan) => r.fence[i] > r.squash_done
           /\ i \in ReadBySquash(regions) => r.fence[i] > 0
           /\ r.fence[i] <= r.timeline /\ r.fence[i] \in Int
<1> DEFINE comp == ReadByPlane(plan)
           pre_comp == ReadByPreComp(plan) \ comp
           squash == ReadBySquash(regions) \ ReadByPreComp(plan)
           a == Cardinality(squash)
           b == Cardinality(pre_comp)
           d == Cardinality(comp)
           r == CreateAndAssignReleaseFences(regions, plan)
<1>1. /\ DOMAIN layers = 1 .. Len(layers) /\ DOMAIN layers \subseteq Nat
      /\ IsFiniteSet(DOMAIN layers)
    BY FS_Interval
<1>2. \A S \in {comp, pre_comp, squash} : S \subseteq DOMAIN layers
    BY DEF ReadByPlane, ReadByPreComp, ReadBySquash
<1>3. r = [squash_done |-> a, pre_comp_done |-> a + b, timeline |-> (a + b) + d,
           fence |-> [j \in DOMAIN layers |->
               IF j \in comp THEN (a + b) + Rank(comp, j) + 1
               ELSE IF j \in pre_comp THEN a + Rank(pre_comp, j) + 1
               ELSE IF j \in squash THEN Rank(squash, j) + 1 ELSE 0]]
    BY DEF CreateAndAssignReleaseFences
<1>4. /\ i \in ReadByPreComp(plan) => i \in comp \/ i \in pre_comp
      /\ i \in ReadBySquash(regions) => i \in comp \/ i \in pre_comp \/ i \in squash
    OBVIOUS
<1>5. i \in ReadByPlane(plan) <=> i \in comp
    OBVIOUS
<1> HIDE DEF comp, pre_comp, squash, r
<1>6. \A S \in {comp, pre_comp, squash} :
          /\ Cardinality(S) \in Nat
          /\ i \in S => Rank(S, i) \in 0 .. Cardinality(S) - 1
    <2> SUFFICES ASSUME NEW S \in {comp, pre_comp, squash}
                 PROVE  /\ Cardinality(S) \in Nat
                        /\ i \in S => Rank(S, i) \in 0 .. Cardinality(S) - 1
        OBVIOUS
    <2>1. S \subseteq DOMAIN layers /\ S \subseteq Nat
        BY <1>1, <1>2
    <2>2. IsFiniteSet(S)
        BY <1>1, <2>1, FS_Subset
    <2>3. QED
        BY <2>1, <2>2, RankFacts
<1>7. /\ a \in Nat /\ b \in Nat /\ d \in Nat
      /\ i \in comp => Rank(comp, i) \in 0 .. d - 1
      /\ i \in pre_comp => Rank(pre_comp, i) \in 0 .. b - 1
      /\ i \in squash => Rank(squash, i) \in 0 .. a - 1
    BY <1>6
<1> HIDE DEF a, b, d
<1>8. /\ r.squash_done = a /\ r.pre_comp_done = a + b /\ r.timeline = (a + b) + d
      /\ r.fence[i] = IF i \in comp THEN (a + b) + Rank(comp, i) + 1
                      ELSE IF i \in pre_comp THEN a + Rank(pre_comp, i) + 1
                      ELSE IF i \in squash THEN Rank(squash, i) + 1 ELSE 0
    BY <1>3
<1>9. CASE i \in comp
    BY <1>7, <1>8, <1>9 DEF r
<1>10. CASE i \notin comp /\ i \in pre_comp
    BY <1>4, <1>5, <1>7, <1>8, <1>10 DEF r
<1>11. CASE i \notin comp /\ i \notin pre_comp /\ i \in squash
    BY <1>4, <1>5, <1>7, <1>8, <1>11 DEF r
<1>12. CASE i \notin comp /\ i \notin pre_comp /\ i \notin squash
    BY <1>4, <1>5, <1>7, <1>8, <1>12 DEF r
<1>13. QED
    BY <1>9, <1>10, <1>11, <1>12

\* A frame is planned right when SquashState knows the layers of its regions.
LEMMA FrameFacts ==
    ASSUME layers \in Seq(Layer), NEW handles, NEW stable, NEW render \in BOOLEAN,
           Squashable(stable), \A c \in stable : layer_refs[c] = Covering(c)
    PROVE  FrameRight(Frame(handles, stable, render))
<1> DEFINE plan == Assign(stable)
           regions == IF render THEN stable ELSE {}
           f == Frame(handles, stable, render)
<1>1. GoodPlan(plan, stable)
    BY AssignFacts
<1> HIDE DEF plan
<1>2. f = [layers |-> layers, handles |-> handles, plan |-> plan,
           squash_regions |-> [c \in regions |-> layer_refs[c]],
           disabled |-> Disabled(plan.sources),
           release |-> CreateAndAssignReleaseFences(regions, plan)]
    BY DEF Frame, plan
<1>3. /\ f.layers = layers /\ f.plan = plan
      /\ f.disabled = Disabled(plan.sources)
      /\ DOMAIN f.squash_regions = regions
      /\ \A c \in regions : f.squash_regions[c] = layer_refs[c]
      /\ f.release = CreateAndAssignReleaseFences(regions, plan)
    BY <1>2
<1>4. \A c \in regions : \A i \in layer_refs[c] : ~layers[i].protected
    BY DEF Squashable
<1> HIDE DEF f, regions
<1>5. ASSUME NEW i \in DOMAIN layers
      PROVE  /\ i \in ToSet(plan.sources) => f.release.fence[i] > WhenShown(f)
             /\ (\E c \in Cells : i \in plan.pre_comp[c])
                    => f.release.fence[i] > WhenPreComposited(f)
             /\ (\E c \in regions : i \in layer_refs[c]) => f.release.fence[i] > 0
             /\ f.release.fence[i] <= f.release.timeline
    <2> DEFINE r == CreateAndAssignReleaseFences(regions, plan)
    <2>1. /\ r.squash_done \in Nat /\ r.pre_comp_done \in Nat
          /\ r.squash_done <= r.pre_comp_done
          /\ i \in ReadByPlane(plan) => r.fence[i] > r.pre_comp_done
          /\ i \in ReadByPreComp(plan) => r.fence[i] > r.squash_done
          /\ i \in ReadBySquash(regions) => r.fence[i] > 0
          /\ r.fence[i] <= r.timeline /\ r.fence[i] \in Int
        BY ReleaseFacts
    <2>2. /\ i \in ToSet(plan.sources) => i \in ReadByPlane(plan)
          /\ (\E c \in Cells : i \in plan.pre_comp[c]) => i \in ReadByPreComp(plan)
          /\ (\E c \in regions : i \in layer_refs[c]) => i \in ReadBySquash(regions)
        BY DEF ReadByPlane, ReadByPreComp, ReadBySquash
    <2> HIDE DEF r
    <2>3. f.release = r
        BY <1>3 DEF r
    <2>4. /\ WhenPreComposited(f) \in {0, r.squash_done}
          /\ WhenShown(f) \in {0, r.squash_done, r.pre_comp_done}
        BY <2>3 DEF WhenPreComposited, WhenShown
    <2>5. /\ i \in ToSet(plan.sources) => r.fence[i] > WhenShown(f)
          /\ (\E c \in Cells : i \in plan.pre_comp[c])
                 => r.fence[i] > WhenPreComposited(f)
        BY <2>1, <2>2, <2>4
    <2>6. QED
        BY <2>1, <2>2, <2>3, <2>5
<1>6. FrameRight(f)
    BY <1>1, <1>3, <1>4, <1>5 DEF FrameRight, GoodPlan
<1>7. QED
    BY <1>6 DEF f

-----------------------------------------------------------------------------
(***************************************************************************)
(* The inductive invariant.                                                *)
(***************************************************************************)
\* SurfaceFlinger's layers and their buffers.
ClientType ==
    /\ layers \in Geometries \cup {<<>>}
    /\ sf_handle \in Seq(Nat) /\ Len(sf_handle) = Len(layers)
    /\ geometry_changed \in BOOLEAN
    /\ geometries \in 0 .. MaxGeometries

\* Unless the layers have just changed, SquashState's regions and its handles are
\* those of the layers.
SquashKnows ==
    Squashes /\ ~geometry_changed =>
        /\ layer_refs = [c \in Cells |-> Covering(c)]
        /\ last_handles_ \in Seq(Nat) /\ Len(last_handles_) = Len(layers)

SquashType ==
    /\ layer_refs \in [Cells -> SUBSET Nat]
    /\ change_history \in [Cells -> [1 .. HistoryLength -> BOOLEAN]]
    /\ squashed \subseteq Cells
    /\ valid_history_ \in 0 .. HistoryLength

\* The frames that wait are planned right.
AllRight(frames) ==
    /\ \E D : frames \in Seq(D)
    /\ \A k \in 1 .. Len(frames) : FrameRight(frames[k])

PendingRight == AllRight(pending) /\ Len(pending) <= MaxPending

ScreenType ==
    /\ squash_missed \in BOOLEAN
    /\ lit \subseteq ToSet(TakeOrder)

IInv == ClientType /\ SquashKnows /\ SquashType /\ PendingRight /\ ScreenType

\* The layers are a vector of layers.
LEMMA LayersFacts ==
    ASSUME layers \in Geometries \cup {<<>>}
    PROVE  /\ layers \in Seq(Layer) /\ Len(layers) \in Nat
           /\ DOMAIN layers = 1 .. Len(layers)
<1>1. <<>> \in Seq(Layer)
    OBVIOUS
<1>2. layers \in Seq(Layer)
    BY ONLY <1>1, GeometryAssumption, layers \in Geometries \cup {<<>>}
<1>3. QED
    BY <1>2

\* Nothing is planned or shown at first.
LEMMA InitIInv == Init => IInv
<1> SUFFICES ASSUME Init PROVE IInv
    OBVIOUS
<1>1. HistoryLength \in Nat /\ MaxGeometries \in Nat /\ MaxPending \in Nat
    BY BoundAssumption
<1>2. layers = <<>> /\ geometry_changed = FALSE /\ DOMAIN layers = {} /\ Len(layers) = 0
    BY DEF Init
<1>3. ClientType
    <2>1. sf_handle = <<>> /\ geometries = 0
        BY DEF Init
    <2>2. sf_handle \in Seq(Nat) /\ Len(sf_handle) = 0
        BY <2>1
    <2>3. geometry_changed \in BOOLEAN
        BY <1>2
    <2>4. layers \in Geometries \cup {<<>>}
        BY <1>2
    <2>5. geometries \in 0 .. MaxGeometries
        BY <1>1, <2>1
    <2>6. QED
        BY <1>2, <2>2, <2>3, <2>4, <2>5 DEF ClientType
<1>4. \A c \in Cells : Covering(c) = {}
    BY <1>2 DEF Covering
<1>5. SquashKnows
    BY <1>2, <1>4 DEF Init, SquashKnows
<1>6. SquashType
    BY <1>1 DEF Init, SquashType
<1>7. PendingRight
    <2>1. pending = <<>>
        BY DEF Init
    <2>2. pending \in Seq({}) /\ Len(pending) = 0
        BY <2>1
    <2>3. QED
        BY <1>1, <2>2 DEF PendingRight, AllRight
<1>8. ScreenType
    BY DEF Init, ScreenType
<1>9. QED
    BY <1>3, <1>5, <1>6, <1>7, <1>8 DEF IInv

-----------------------------------------------------------------------------
(***************************************************************************)
(* The steps.                                                              *)
(***************************************************************************)
\* A right frame may join the ones that wait.
LEMMA AppendRight ==
    ASSUME NEW frames, NEW f, AllRight(frames), FrameRight(f)
    PROVE  AllRight(Append(frames, f)) /\ Len(Append(frames, f)) = Len(frames) + 1
           /\ Len(frames) \in Nat
<1>1. PICK D : frames \in Seq(D)
    BY DEF AllRight
<1> DEFINE n == Len(frames)
           E == D \cup {f}
           t == Append(frames, f)
<1>2. n \in Nat /\ frames \in [1 .. n -> D]
    BY <1>1
<1>3. \A k \in 1 .. n : frames[k] \in E
    BY <1>2
<1>4. frames \in [1 .. n -> E]
    BY <1>2, <1>3
<1> HIDE DEF E
<1>5. frames \in Seq(E)
    BY <1>2, <1>4
<1>6. f \in E
    BY DEF E
<1>7. /\ t \in Seq(E) /\ Len(t) = n + 1 /\ t[n + 1] = f
      /\ \A k \in 1 .. n : t[k] = frames[k]
    BY <1>5, <1>6
<1>8. \A k \in 1 .. n : FrameRight(frames[k])
    BY DEF AllRight
<1> HIDE DEF n, t
<1>9. ASSUME NEW k \in 1 .. Len(t) PROVE FrameRight(t[k])
    <2>1. k \in 1 .. n \/ k = n + 1
        BY <1>2, <1>7
    <2>2. QED
        BY <1>7, <1>8, <2>1
<1>10. AllRight(t)
    BY <1>7, <1>9 DEF AllRight
<1>11. QED
    BY <1>2, <1>7, <1>10 DEF n, t

\* The first of the frames that wait is right, and so are the others.
LEMMA TailRight ==
    ASSUME NEW frames, AllRight(frames), frames # <<>>
    PROVE  AllRight(Tail(frames)) /\ Len(Tail(frames)) = Len(frames) - 1
           /\ Len(frames) \in Nat /\ FrameRight(Head(frames))
<1>1. PICK D : frames \in Seq(D)
    BY DEF AllRight
<1> DEFINE t == Tail(frames)
<1>2. /\ Len(frames) \in Nat \ {0} /\ Head(frames) = frames[1]
      /\ t \in Seq(D) /\ Len(t) = Len(frames) - 1
      /\ \A k \in 1 .. Len(t) : t[k] = frames[k + 1]
    BY <1>1
<1>3. \A k \in 1 .. Len(frames) : FrameRight(frames[k])
    BY DEF AllRight
<1> HIDE DEF t
<1>4. ASSUME NEW k \in 1 .. Len(t) PROVE FrameRight(t[k])
    <2>1. k + 1 \in 1 .. Len(frames)
        BY <1>2
    <2>2. QED
        BY <1>2, <1>3, <2>1
<1>5. AllRight(t)
    BY <1>2, <1>4 DEF AllRight
<1>6. FrameRight(Head(frames))
    <2>1. 1 \in 1 .. Len(frames)
        BY <1>2
    <2>2. QED
        BY <1>2, <1>3, <2>1
<1>7. QED
    BY <1>2, <1>5, <1>6 DEF t

\* New layers: nothing of SquashState counts until the next frame.
LEMMA GeometryStep ==
    ASSUME IInv, NEW g \in Geometries, SetGeometry(g)
    PROVE  IInv'
<1>1. /\ layers' = g /\ sf_handle' = Fresh(g) /\ geometry_changed' = TRUE
      /\ geometries' = geometries + 1 /\ geometries < MaxGeometries
      /\ UNCHANGED squashVars /\ pending' = pending /\ UNCHANGED screenVars
    BY DEF SetGeometry
<1>2. /\ geometries \in 0 .. MaxGeometries /\ MaxGeometries \in Nat
    BY BoundAssumption DEF IInv, ClientType
<1>3. geometries' \in 0 .. MaxGeometries
    BY <1>1, <1>2
<1>4. g \in Seq(Layer)
    BY GeometryAssumption
<1>5. Len(g) \in Nat /\ DOMAIN g = 1 .. Len(g)
    BY <1>4
<1>6. Fresh(g) \in Seq(Nat) /\ Len(Fresh(g)) = Len(g)
    BY <1>5 DEF Fresh
<1>7. geometry_changed' \in BOOLEAN
    BY <1>1
<1>8. ClientType'
    BY <1>1, <1>3, <1>6, <1>7 DEF ClientType
<1>9. SquashKnows'
    BY <1>1 DEF SquashKnows
<1>10. SquashType'
    BY <1>1 DEF IInv, SquashType, squashVars
<1>11. PendingRight'
    BY <1>1 DEF IInv, PendingRight
<1>12. ScreenType'
    BY <1>1 DEF IInv, ScreenType, screenVars
<1>13. QED
    BY <1>8, <1>9, <1>10, <1>11, <1>12 DEF IInv

\* The first frame with these layers tells SquashState about them.
LEMMA ChangedStep ==
    ASSUME IInv, PlanChanged
    PROVE  IInv'
<1> DEFINE f == Frame(sf_handle, {}, FALSE)
<1>1. /\ layers' = layers /\ sf_handle' = sf_handle /\ geometry_changed' = FALSE
      /\ geometries' = geometries /\ pending' = Append(pending, f)
      /\ Len(pending) < MaxPending /\ UNCHANGED screenVars
    BY DEF PlanChanged
<1>2. layers \in Geometries \cup {<<>>}
    BY DEF IInv, ClientType
<1>3. layers \in Seq(Layer) /\ Len(layers) \in Nat /\ DOMAIN layers = 1 .. Len(layers)
    BY <1>2, LayersFacts
<1>4. Squashable({}) /\ FALSE \in BOOLEAN
    BY DEF Squashable
<1>5. FrameRight(f)
    BY <1>3, <1>4, FrameFacts
<1> HIDE DEF f
<1>6. PendingRight'
    <2>1. AllRight(pending) /\ MaxPending \in Nat
        BY BoundAssumption DEF IInv, PendingRight
    <2>2. AllRight(pending') /\ Len(pending') = Len(pending) + 1 /\ Len(pending) \in Nat
        BY <1>1, <1>5, <2>1, AppendRight
    <2>3. QED
        BY <1>1, <2>1, <2>2 DEF PendingRight, AllRight
<1>7. ClientType'
    <2>1. geometry_changed' \in BOOLEAN
        BY <1>1
    <2>2. QED
        BY <1>1, <2>1 DEF IInv, ClientType
<1>8. ScreenType'
    BY <1>1 DEF IInv, ScreenType, screenVars
<1>9. SquashKnows' /\ SquashType'
    <2>1. \A c : Covering(c) \subseteq DOMAIN layers /\ DOMAIN layers \subseteq Nat
        BY <1>3 DEF Covering
    <2>2. CASE Squashes
        <3>1. SquashInit([c \in Cells |-> Covering(c)], sf_handle)
            BY <2>2 DEF PlanChanged
        <3>2. SquashType'
            <4>1. HistoryLength \in Nat
                BY BoundAssumption
            <4>2. \A c \in Cells : Covering(c) \in SUBSET Nat
                BY <2>1
            <4>3. layer_refs' \in [Cells -> SUBSET Nat]
                BY <3>1, <4>2 DEF SquashInit
            <4>4. change_history' \in [Cells -> [1 .. HistoryLength -> BOOLEAN]]
                BY <3>1 DEF SquashInit
            <4>5. QED
                BY <3>1, <4>1, <4>3, <4>4 DEF SquashInit, SquashType
        <3>3. \A c : Covering(c)' = Covering(c)
            BY <1>1 DEF Covering
        <3>4. last_handles_' = sf_handle /\ layer_refs' = [c \in Cells |-> Covering(c)']
            BY <3>1, <3>3 DEF SquashInit
        <3>5. sf_handle \in Seq(Nat) /\ Len(sf_handle) = Len(layers)
            BY DEF IInv, ClientType
        <3>6. SquashKnows'
            BY <1>1, <3>4, <3>5 DEF SquashKnows
        <3>7. QED
            BY <3>2, <3>6
    <2>3. CASE ~Squashes
        <3>1. UNCHANGED squashVars
            BY <2>3 DEF PlanChanged
        <3>2. SquashType'
            BY <3>1 DEF IInv, SquashType, squashVars
        <3>3. Squashes' = Squashes
            BY DEF Squashes, TakeOrder, Usable
        <3>4. SquashKnows'
            BY <2>3, <3>3 DEF SquashKnows
        <3>5. QED
            BY <3>2, <3>4
    <2>4. QED
        BY <2>2, <2>3
<1>10. QED
    BY <1>6, <1>7, <1>8, <1>9 DEF IInv

\* The regions that are squashed have layers, and none that is protected:
\* a protected layer counts as changed in every frame.
LEMMA StableFacts ==
    ASSUME NEW handles, Len(handles) = Len(last_handles_),
           layer_refs = [c \in Cells |-> Covering(c)]
    PROVE  LET stable == StableRegions(ChangedRegions(handles))
           IN  /\ Squashable(stable) /\ stable \subseteq Cells
               /\ \A c \in stable : layer_refs[c] = Covering(c)
<1> DEFINE changed == ChangedRegions(handles)
           stable == StableRegions(changed)
<1>1. stable \subseteq Regions \ changed /\ Regions \subseteq Cells
    BY DEF StableRegions, Regions
<1>2. changed = {c \in Regions : \E i \in layer_refs[c] :
                     layers[i].protected \/ last_handles_[i] # handles[i]}
    BY DEF ChangedRegions
<1>3. \A c \in Regions : layer_refs[c] # {} /\ layer_refs[c] = Covering(c)
    BY DEF Regions
<1>4. \A c \in Regions \ changed : \A i \in layer_refs[c] : ~layers[i].protected
    BY <1>2
<1> HIDE DEF changed, stable
<1>5. Squashable(stable)
    BY <1>1, <1>3, <1>4 DEF Squashable
<1>6. stable \subseteq Cells /\ \A c \in stable : layer_refs[c] = Covering(c)
    BY <1>1, <1>3
<1>7. QED
    BY <1>5, <1>6 DEF stable, changed

\* A frame with the layers SquashState knows.
LEMMA UnchangedStep ==
    ASSUME IInv, NEW updated \in SUBSET DOMAIN layers, PlanUnchanged(updated)
    PROVE  IInv'
<1> DEFINE handles == [i \in DOMAIN layers |->
                           IF i \in updated THEN (sf_handle[i] + 1) % Handles
                                            ELSE sf_handle[i]]
           changed == ChangedRegions(handles)
           stable == IF Squashes THEN StableRegions(changed) ELSE {}
           f == Frame(handles, stable, RenderSquash(stable))
<1>1. /\ layers' = layers /\ sf_handle' = handles
      /\ geometry_changed' = geometry_changed /\ ~geometry_changed
      /\ geometries' = geometries /\ pending' = Append(pending, f)
      /\ Len(pending) < MaxPending /\ UNCHANGED screenVars
    BY DEF PlanUnchanged
<1>2. IF Squashes
      THEN /\ RecordHistory(handles, changed)
           /\ squashed' = stable
           /\ UNCHANGED layer_refs
      ELSE UNCHANGED squashVars
    BY DEF PlanUnchanged
<1>3. layers \in Geometries \cup {<<>>}
    BY DEF IInv, ClientType
<1>4. layers \in Seq(Layer) /\ Len(layers) \in Nat /\ DOMAIN layers = 1 .. Len(layers)
    BY <1>3, LayersFacts
<1>5. handles \in Seq(Nat) /\ Len(handles) = Len(layers)
    <2>1. sf_handle \in Seq(Nat) /\ Len(sf_handle) = Len(layers)
        BY DEF IInv, ClientType
    <2>2. Handles \in Nat /\ Handles # 0
        BY BoundAssumption
    <2>3. \A i \in 1 .. Len(layers) : handles[i] \in Nat
        BY <1>4, <2>1, <2>2
    <2>4. handles \in [1 .. Len(layers) -> Nat]
        BY <1>4, <2>3
    <2> HIDE DEF handles
    <2>5. QED
        BY <1>4, <2>4
<1> HIDE DEF handles
<1>6. Squashes => /\ layer_refs = [c \in Cells |-> Covering(c)]
                  /\ last_handles_ \in Seq(Nat) /\ Len(last_handles_) = Len(layers)
    BY <1>1 DEF IInv, SquashKnows
<1>7. /\ Squashable(stable) /\ stable \subseteq Cells
      /\ \A c \in stable : layer_refs[c] = Covering(c)
    <2>1. CASE Squashes
        <3>1. stable = StableRegions(ChangedRegions(handles))
            BY <2>1
        <3>2. QED
            BY <1>5, <1>6, <2>1, <3>1, StableFacts
    <2>2. CASE ~Squashes
        BY <2>2 DEF Squashable
    <2>3. QED
        BY <2>1, <2>2
<1>8. RenderSquash(stable) \in BOOLEAN
    BY DEF RenderSquash
<1> HIDE DEF stable
<1>9. FrameRight(f)
    BY <1>4, <1>7, <1>8, FrameFacts
<1> HIDE DEF f
<1>10. PendingRight'
    <2>1. AllRight(pending) /\ MaxPending \in Nat
        BY BoundAssumption DEF IInv, PendingRight
    <2>2. AllRight(pending') /\ Len(pending') = Len(pending) + 1 /\ Len(pending) \in Nat
        BY <1>1, <1>9, <2>1, AppendRight
    <2>3. QED
        BY <1>1, <2>1, <2>2 DEF PendingRight, AllRight
<1>11. ClientType'
    BY <1>1, <1>5 DEF IInv, ClientType
<1>12. ScreenType'
    BY <1>1 DEF IInv, ScreenType, screenVars
<1>13. SquashKnows' /\ SquashType'
    <2>1. CASE Squashes
        <3>1. layer_refs' = layer_refs /\ squashed' = stable
            BY <1>2, <2>1
        <3>2. /\ last_handles_' = handles
              /\ change_history' = [c \in Cells |-> [k \in 1 .. HistoryLength |->
                    IF k = 1 THEN c \in changed ELSE change_history[c][k - 1]]]
              /\ valid_history_' = IF valid_history_ < HistoryLength
                                   THEN valid_history_ + 1 ELSE valid_history_
            BY <1>2, <1>5, <1>6, <2>1 DEF RecordHistory
        <3> HIDE DEF changed
        <3>3. \A c : Covering(c)' = Covering(c)
            BY <1>1 DEF Covering
        <3>4. SquashKnows'
            <4>1. layer_refs' = [c \in Cells |-> Covering(c)']
                BY <1>6, <2>1, <3>1, <3>3
            <4>2. QED
                BY <1>1, <1>5, <3>2, <4>1 DEF SquashKnows
        <3>5. HistoryLength \in Nat
            BY BoundAssumption
        <3>6. change_history' \in [Cells -> [1 .. HistoryLength -> BOOLEAN]]
            <4>1. change_history \in [Cells -> [1 .. HistoryLength -> BOOLEAN]]
                BY DEF IInv, SquashType
            <4>2. ASSUME NEW c \in Cells, NEW k \in 1 .. HistoryLength
                  PROVE  (IF k = 1 THEN c \in changed ELSE change_history[c][k - 1])
                             \in BOOLEAN
                <5>1. CASE k = 1
                    <6>1. (c \in changed) \in BOOLEAN
                        OBVIOUS
                    <6>2. QED
                        BY <5>1, <6>1
                <5>2. CASE k # 1
                    <6>1. k - 1 \in 1 .. HistoryLength
                        BY <3>5, <5>2
                    <6>2. change_history[c][k - 1] \in BOOLEAN
                        BY <4>1, <6>1, Zenon
                    <6>3. QED
                        BY <5>2, <6>2
                <5>3. QED
                    BY <5>1, <5>2
            <4>3. QED
                BY <3>2, <4>2, Zenon
        <3>7. valid_history_' \in 0 .. HistoryLength
            BY <3>2, <3>5 DEF IInv, SquashType
        <3>8. SquashType'
            BY <1>7, <3>1, <3>6, <3>7 DEF IInv, SquashType
        <3>9. QED
            BY <3>4, <3>8
    <2>2. CASE ~Squashes
        <3>1. UNCHANGED squashVars
            BY <1>2, <2>2
        <3>2. SquashType'
            BY <3>1 DEF IInv, SquashType, squashVars
        <3>3. Squashes' = Squashes
            BY DEF Squashes, TakeOrder, Usable
        <3>4. SquashKnows'
            BY <2>2, <3>3 DEF SquashKnows
        <3>5. QED
            BY <3>2, <3>4
    <2>3. QED
        BY <2>1, <2>2
<1>14. QED
    BY <1>10, <1>11, <1>12, <1>13 DEF IInv

\* Neither the layers nor SquashState change when a frame is shown or dropped.
LEMMA ClientKept ==
    ASSUME IInv, UNCHANGED <<clientVars, squashVars>>
    PROVE  ClientType' /\ SquashKnows' /\ SquashType'
<1>1. ClientType'
    BY DEF IInv, ClientType, clientVars
<1>2. SquashType'
    BY DEF IInv, SquashType, squashVars
<1>3. SquashKnows'
    <2>1. \A c : Covering(c)' = Covering(c)
        BY DEF Covering, clientVars
    <2>2. Squashes' = Squashes
        BY DEF Squashes, TakeOrder, Usable
    <2>3. [c \in Cells |-> Covering(c)]' = [c \in Cells |-> Covering(c)]
        BY <2>1
    <2>4. layer_refs' = layer_refs /\ last_handles_' = last_handles_
          /\ layers' = layers /\ geometry_changed' = geometry_changed
        BY DEF clientVars, squashVars
    <2>5. QED
        BY <2>2, <2>3, <2>4 DEF IInv, SquashKnows
<1>4. QED
    BY <1>1, <1>2, <1>3

\* The first frame is shown, or fails for want of a region to pre-composite.
LEMMA ShowStep ==
    ASSUME IInv, Show
    PROVE  IInv'
<1> DEFINE f == Head(pending)
<1>1. UNCHANGED <<clientVars, squashVars>> /\ pending # <<>> /\ pending' = Tail(pending)
      /\ squash_missed' = (squash_missed /\ DOMAIN f.squash_regions = {})
      /\ \/ lit' = lit
         \/ lit' = (lit \ f.disabled) \cup ToSet(Planes(f.plan.sources))
    BY DEF Show
<1>2. AllRight(pending) /\ Len(pending) <= MaxPending /\ MaxPending \in Nat
    BY BoundAssumption DEF IInv, PendingRight
<1>3. AllRight(Tail(pending)) /\ Len(Tail(pending)) = Len(pending) - 1
      /\ Len(pending) \in Nat /\ FrameRight(f)
    BY <1>1, <1>2, TailRight
<1>4. PendingRight'
    BY <1>1, <1>2, <1>3 DEF PendingRight, AllRight
<1> HIDE DEF f
<1>5. ToSet(Planes(f.plan.sources)) \subseteq ToSet(TakeOrder)
    BY <1>3, PlanesFacts DEF FrameRight
<1>6. ToSet(TakeOrder)' = ToSet(TakeOrder)
    BY DEF TakeOrder, Usable
<1>7. squash_missed' \in BOOLEAN
    BY <1>1
<1>8. ScreenType'
    BY <1>1, <1>5, <1>6, <1>7 DEF IInv, ScreenType
<1>9. QED
    BY <1>1, <1>4, <1>8, ClientKept DEF IInv

\* The first frame is dropped.
LEMMA DropStep ==
    ASSUME IInv, Drop
    PROVE  IInv'
<1>1. UNCHANGED <<clientVars, squashVars>> /\ pending # <<>> /\ pending' = Tail(pending)
      /\ squash_missed' = (squash_missed \/ DOMAIN Head(pending).squash_regions # {})
      /\ lit' = lit
    BY DEF Drop
<1>2. AllRight(pending) /\ Len(pending) <= MaxPending /\ MaxPending \in Nat
    BY BoundAssumption DEF IInv, PendingRight
<1>3. AllRight(Tail(pending)) /\ Len(Tail(pending)) = Len(pending) - 1
      /\ Len(pending) \in Nat
    BY <1>1, <1>2, TailRight
<1>4. PendingRight'
    BY <1>1, <1>2, <1>3 DEF PendingRight, AllRight
<1>5. squash_missed' \in BOOLEAN
    BY <1>1 DEF IInv, ScreenType
<1>6. ScreenType'
    BY <1>1, <1>5 DEF IInv, ScreenType
<1>7. QED
    BY <1>1, <1>4, <1>6, ClientKept DEF IInv

\* Nothing happens.
LEMMA StutterStep ==
    ASSUME IInv, UNCHANGED vars
    PROVE  IInv'
<1>1. UNCHANGED <<clientVars, squashVars>> /\ pending' = pending
      /\ squash_missed' = squash_missed /\ lit' = lit
    BY DEF vars, screenVars
<1>2. PendingRight' /\ ScreenType'
    BY <1>1 DEF IInv, PendingRight, ScreenType
<1>3. QED
    BY <1>1, <1>2, ClientKept DEF IInv

\* The invariant holds in every behaviour.
LEMMA AlwaysIInv == Spec => []IInv
<1>1. IInv /\ [Next]_vars => IInv'
    <2> SUFFICES ASSUME IInv, [Next]_vars PROVE IInv'
        OBVIOUS
    <2>1. ASSUME NEW g \in Geometries, SetGeometry(g) PROVE IInv'
        BY <2>1, GeometryStep
    <2>2. CASE PlanChanged
        BY <2>2, ChangedStep
    <2>3. ASSUME NEW updated \in SUBSET DOMAIN layers, PlanUnchanged(updated)
          PROVE  IInv'
        BY <2>3, UnchangedStep
    <2>4. CASE Show
        BY <2>4, ShowStep
    <2>5. CASE Drop
        BY <2>5, DropStep
    <2>6. CASE UNCHANGED vars
        BY <2>6, StutterStep
    <2>7. QED
        BY <2>1, <2>2, <2>3, <2>4, <2>5, <2>6 DEF Next
<1>2. QED
    BY <1>1, InitIInv, PTL DEF Spec

\* What the invariant says of the frames that wait.
LEMMA FramesFacts ==
    ASSUME IInv, NEW f \in Frames
    PROVE  FrameRight(f)
<1>1. PICK D : pending \in Seq(D)
    BY DEF IInv, PendingRight, AllRight
<1>2. PICK k \in 1 .. Len(pending) : f = pending[k]
    BY <1>1, ToSetFacts DEF Frames
<1>3. QED
    BY <1>2 DEF IInv, PendingRight, AllRight

-----------------------------------------------------------------------------
(***************************************************************************)
(* The theorems.                                                           *)
(***************************************************************************)
\* The variables of planning keep their types: SquashState's history its
\* length, the layers and their buffers their number, and only planes that the
\* crtc supports are ever switched on.
THEOREM PlanTypeCorrect == Spec => []TypeOK
<1>1. IInv => TypeOK
    <2> SUFFICES ASSUME IInv PROVE TypeOK
        OBVIOUS
    <2>1. layers \in Geometries \cup {<<>>}
        BY DEF IInv, ClientType
    <2>2. DOMAIN layers = 1 .. Len(layers)
        BY <2>1, LayersFacts
    <2>3. DOMAIN sf_handle = DOMAIN layers
        <3>1. sf_handle \in Seq(Nat) /\ Len(sf_handle) = Len(layers)
            BY DEF IInv, ClientType
        <3>2. DOMAIN sf_handle = 1 .. Len(sf_handle)
            BY <3>1
        <3>3. QED
            BY <2>2, <3>1, <3>2
    <2>4. lit \subseteq Supported
        <3>1. ToSet(TakeOrder) \subseteq Supported
            BY TakeOrderFacts, ToSetFacts
        <3>2. QED
            BY <3>1 DEF IInv, ScreenType
    <2>5. QED
        BY <2>1, <2>3, <2>4
        DEF IInv, ClientType, SquashType, PendingRight, ScreenType, TypeOK
<1>2. QED
    BY <1>1, AlwaysIInv, PTL

\* No frame has the GPU read a protected layer, neither to squash nor to
\* pre-composite, with any layers, planes and history: a protected layer
\* without a plane leaves none to the others, and one in a region makes the
\* region count as changed.
THEOREM ProtectedSafe == Spec => []ProtectedNeverRendered
<1>1. IInv => ProtectedNeverRendered
    <2> SUFFICES ASSUME IInv PROVE ProtectedNeverRendered
        OBVIOUS
    <2>1. \A f \in Frames : FrameRight(f)
        BY FramesFacts
    <2>2. QED
        BY <2>1 DEF ProtectedNeverRendered, FrameRight
<1>2. QED
    BY <1>1, AlwaysIInv, PTL

\* No layer is pre-composited over a protected layer above it, with any layers,
\* planes and history: the hole that SeparateLayers cuts takes a protected
\* layer's index for a position among the layers to pre-composite, and no layer
\* has a position after its index.
THEOREM ProtectedUncovered == Spec => []ProtectedNotCovered
<1>1. IInv => ProtectedNotCovered
    <2> SUFFICES ASSUME IInv PROVE ProtectedNotCovered
        OBVIOUS
    <2>1. \A f \in Frames : FrameRight(f)
        BY FramesFacts
    <2>2. QED
        BY <2>1 DEF ProtectedNotCovered, FrameRight
<1>2. QED
    BY <1>1, AlwaysIInv, PTL

\* Plan never makes more sources than there are planes, whatever it reserves
\* for protected layers, squashing and pre-compositing: TakePlane always finds
\* a plane.
THEOREM PlanesAlwaysSuffice == Spec => []PlanesSuffice
<1>1. IInv => PlanesSuffice
    <2> SUFFICES ASSUME IInv PROVE PlanesSuffice
        OBVIOUS
    <2>1. \A f \in Frames : FrameRight(f)
        BY FramesFacts
    <2>2. QED
        BY <2>1 DEF PlanesSuffice, FrameRight
<1>2. QED
    BY <1>1, AlwaysIInv, PTL

\* While a stage of the frame that reads a layer is to come, the timeline has not
\* reached the fence that CreateAndAssignReleaseFences leaves with the layer, and
\* it reaches every fence in the end: the points are counted over disjoint sets
\* of layers, stage after stage.
THEOREM ReleasedAfterLastUse == Spec => []ReleaseAfterLastUse
<1>1. IInv => ReleaseAfterLastUse
    <2> SUFFICES ASSUME IInv PROVE ReleaseAfterLastUse
        OBVIOUS
    <2>1. \A f \in Frames : FrameRight(f)
        BY FramesFacts
    <2>2. QED
        BY <2>1 DEF ReleaseAfterLastUse, FrameRight
<1>2. QED
    BY <1>1, AlwaysIInv, PTL

\* A plane that is on, not disabled and without a source is a primary one, and
\* not the first of those.
LEMMA DisabledFacts ==
    ASSUME NEW sources, NEW p \in ToSet(TakeOrder), p \notin Disabled(sources),
           p \notin ToSet(Planes(sources))
    PROVE  p \in ToSet(Usable(PrimaryPlanes)) \ SparePrimary(sources)
BY TakeOrderFacts DEF Disabled

\* A plane that a frame does not use shows nothing once the frame is on the
\* screen, whatever was shown, dropped or failed before, with any planes; only
\* spare primary planes after the first may be left on.
THEOREM NoPlaneLeftOn == Spec => []StaleOnlyPrimary
<1>1. Init => StaleOnlyPrimary
    <2> SUFFICES ASSUME Init PROVE StaleOnlyPrimary
        OBVIOUS
    <2>1. lit = {} /\ shown.plan.sources = <<>>
        BY DEF Init, NoFrame
    <2>2. Planes(<<>>) = <<>>
        BY TakeOrderFacts DEF Planes, Min2
    <2>3. ToSet(<<>>) = {}
        BY DEF ToSet
    <2>4. QED
        BY <2>1, <2>2, <2>3 DEF StaleOnlyPrimary
<1>2. IInv /\ StaleOnlyPrimary /\ [Next]_vars => StaleOnlyPrimary'
    <2> SUFFICES ASSUME IInv, StaleOnlyPrimary, [Next]_vars PROVE StaleOnlyPrimary'
        OBVIOUS
    <2>1. \A sources : Planes(sources)' = Planes(sources)
        OBVIOUS
    <2>2. CASE UNCHANGED <<shown, lit>>
        BY <2>2 DEF StaleOnlyPrimary
    <2>3. CASE Show /\ ~UNCHANGED <<shown, lit>>
        <3> DEFINE f == Head(pending)
                   on == ToSet(Planes(f.plan.sources))
        <3>1. /\ pending # <<>>
              /\ shown' = [layers |-> f.layers, handles |-> f.handles, plan |-> f.plan]
              /\ lit' = (lit \ f.disabled) \cup on
            BY <2>3 DEF Show
        <3>2. FrameRight(f)
            BY <3>1, TailRight DEF IInv, PendingRight
        <3>3. shown'.plan.sources = f.plan.sources
            BY <3>1
        <3> HIDE DEF f
        <3>4. f.disabled = Disabled(f.plan.sources)
            BY <3>2 DEF FrameRight
        <3>5. lit \subseteq ToSet(TakeOrder)
            BY DEF IInv, ScreenType
        <3>6. ASSUME NEW p \in lit' \ on
              PROVE  p \in ToSet(Usable(PrimaryPlanes)) \ SparePrimary(f.plan.sources)
            BY <3>1, <3>4, <3>5, DisabledFacts
        <3>7. on \subseteq lit'
            BY <3>1
        <3>8. QED
            BY <3>3, <3>6, <3>7 DEF StaleOnlyPrimary
    <2>4. QED
        BY <2>2, <2>3
        DEF Next, SetGeometry, PlanChanged, PlanUnchanged, Drop, vars, screenVars
<1>3. QED
    BY <1>1, <1>2, AlwaysIInv, PTL DEF Spec

-----------------------------------------------------------------------------
(***************************************************************************)
(* What a plan without protected layers shows.                             *)
(***************************************************************************)
\* The layers on planes of their own come before those that are pre-composited.
LEMMA SplitFacts ==
    ASSUME NEW rest, IsFiniteSet(rest), rest \subseteq Nat,
           NEW hw \in 0 .. Cardinality(rest)
    PROVE  LET remaining == Ascending(rest)
               first == SubSeq(remaining, 1, hw)
               used == SubSeq(remaining, hw + 1, Len(remaining))
           IN  /\ ToSet(first) \cup ToSet(used) = rest
               /\ \A i \in ToSet(first), j \in ToSet(used) : i < j
<1> DEFINE r == Ascending(rest)
           n == Cardinality(rest)
           first == SubSeq(r, 1, hw)
           used == SubSeq(r, hw + 1, Len(r))
<1>1. /\ r \in Seq(rest) /\ Len(r) = n /\ n \in Nat
      /\ \A i \in rest : \E k \in 1 .. n : r[k] = i
    BY AscendingFacts
<1>2. \A k, m \in 1 .. n : k < m => r[k] < r[m]
    BY AscendingIncreases
<1> HIDE DEF r, n
<1>3. hw \in Nat /\ hw <= n
    BY <1>1 DEF n
<1>4. first \in Seq(rest) /\ Len(first) = hw /\ \A k \in 1 .. hw : first[k] = r[k]
    BY <1>1, <1>3
<1>5. used \in Seq(rest) /\ Len(used) = n - hw
      /\ \A k \in 1 .. n - hw : used[k] = r[k + hw]
    BY <1>1, <1>3
<1> HIDE DEF first, used
<1>6. ToSet(first) = {first[k] : k \in 1 .. hw} /\ ToSet(first) \subseteq rest
    BY <1>4, ToSetFacts
<1>7. ToSet(used) = {used[k] : k \in 1 .. n - hw} /\ ToSet(used) \subseteq rest
    BY <1>5, ToSetFacts
<1>8. ASSUME NEW i \in rest PROVE i \in ToSet(first) \cup ToSet(used)
    <2>1. PICK k \in 1 .. n : r[k] = i
        BY <1>1
    <2>2. CASE k <= hw
        BY <1>3, <1>4, <1>6, <2>1, <2>2
    <2>3. CASE k > hw
        <3>1. k - hw \in 1 .. n - hw /\ (k - hw) + hw = k
            BY <1>1, <1>3, <2>3
        <3>2. used[k - hw] = i
            BY <1>5, <2>1, <3>1
        <3>3. QED
            BY <1>7, <3>1, <3>2
    <2>4. QED
        BY <1>1, <1>3, <2>2, <2>3
<1>9. ASSUME NEW i \in ToSet(first), NEW j \in ToSet(used) PROVE i < j
    <2>1. PICK k \in 1 .. hw : i = first[k]
        BY <1>6
    <2>2. PICK m \in 1 .. n - hw : j = used[m]
        BY <1>7
    <2>3. k \in 1 .. n /\ m + hw \in 1 .. n /\ k < m + hw
        BY <1>1, <1>3, <2>1, <2>2
    <2>4. i = r[k] /\ j = r[m + hw]
        BY <1>4, <1>5, <2>1, <2>2
    <2>5. QED
        BY <1>2, <2>3, <2>4
<1>10. ToSet(first) \cup ToSet(used) = rest
    BY <1>6, <1>7, <1>8
<1>11. QED
    BY <1>9, <1>10 DEF first, used, r

\* A layer that the squashed regions contain entirely shows nowhere else.
LEMMA CoverFacts ==
    ASSUME layers \in Seq(Layer), NEW stable, stable \subseteq Cells,
           \A c \in stable : layer_refs[c] = Covering(c),
           NEW S, NEW i \in S, i \in DOMAIN layers, i \notin NotSquashed(S, stable),
           NEW c \in layers[i].display_frame
    PROVE  c \in stable
<1> DEFINE inside == {d \in stable : i \in layer_refs[d]}
           frame == layers[i].display_frame
<1>1. layers[i] \in Layer
    OBVIOUS
<1>2. frame \subseteq Cells
    BY <1>1 DEF Layer
<1>3. IsFiniteSet(frame)
    BY <1>2, CellAssumption, FS_Subset
<1>4. inside \subseteq frame
    BY DEF Covering
<1>5. ~(Cardinality(inside) < Cardinality(frame))
    BY DEF NotSquashed
<1>6. inside \subseteq stable
    OBVIOUS
<1> HIDE DEF inside, frame
<1>7. /\ Cardinality(inside) <= Cardinality(frame)
      /\ Cardinality(frame) = Cardinality(inside) => frame = inside
      /\ IsFiniteSet(inside)
    BY <1>3, <1>4, FS_Subset
<1>8. Cardinality(inside) \in Nat /\ Cardinality(frame) \in Nat
    BY <1>3, <1>7, FS_CardinalityType
<1>9. frame = inside
    BY <1>5, <1>7, <1>8
<1>10. QED
    BY <1>6, <1>9 DEF frame

\* The vector of sources, place by place.
LEMMA SourcesShape ==
    ASSUME NEW a \in Seq(Int), NEW p \in BOOLEAN, NEW q \in BOOLEAN
    PROVE  LET s == a \o (IF p THEN <<>> ELSE <<PreComp>>)
                      \o (IF q THEN <<Squash>> ELSE <<>>)
           IN  /\ s \in Seq(Int)
               /\ Len(s) = Len(a) + (IF p THEN 0 ELSE 1) + (IF q THEN 1 ELSE 0)
               /\ \A k \in 1 .. Len(a) : s[k] = a[k]
               /\ ~p => s[Len(a) + 1] = PreComp
               /\ q => s[Len(s)] = Squash
<1> DEFINE u == IF p THEN <<>> ELSE <<PreComp>>
           v == IF q THEN <<Squash>> ELSE <<>>
           b == a \o u
           s == b \o v
<1>1. /\ u \in Seq(Int) /\ Len(u) = IF p THEN 0 ELSE 1
      /\ ~p => u[1] = PreComp
    BY DEF PreComp
<1>2. /\ v \in Seq(Int) /\ Len(v) = IF q THEN 1 ELSE 0
      /\ q => v[1] = Squash
    BY DEF Squash
<1> HIDE DEF u, v
<1>3. /\ b \in Seq(Int) /\ Len(b) = Len(a) + Len(u)
      /\ \A k \in 1 .. Len(a) + Len(u) :
             b[k] = IF k <= Len(a) THEN a[k] ELSE u[k - Len(a)]
    BY <1>1, ConcatProperties
<1>4. Len(a) \in Nat
    OBVIOUS
<1>5. ~p => b[Len(a) + 1] = PreComp
    BY <1>1, <1>3, <1>4
<1> HIDE DEF b
<1>6. /\ s \in Seq(Int) /\ Len(s) = Len(b) + Len(v)
      /\ \A k \in 1 .. Len(b) + Len(v) :
             s[k] = IF k <= Len(b) THEN b[k] ELSE v[k - Len(b)]
    <2>1. b \in Seq(Int) /\ v \in Seq(Int)
        BY <1>2, <1>3
    <2>2. QED
        BY ONLY <2>1, ConcatProperties
<1> HIDE DEF s
<1>7. Len(s) = Len(a) + (IF p THEN 0 ELSE 1) + (IF q THEN 1 ELSE 0)
    BY <1>1, <1>2, <1>3, <1>4, <1>6
<1>8. ASSUME NEW k \in 1 .. Len(a) PROVE s[k] = a[k]
    <2> DEFINE la == Len(a)
               lu == Len(u)
               lb == Len(b)
               lv == Len(v)
    <2>0. la \in Nat /\ lu \in Nat /\ lv \in Nat /\ lb = la + lu
        BY <1>1, <1>2, <1>3, <1>4
    <2>1. k \in 1 .. lb /\ k <= la /\ k <= lb /\ k \in 1 .. la + lu /\ k \in 1 .. lb + lv
        <3> HIDE DEF lu, lv, lb
        <3>1. k \in Nat /\ 1 <= k /\ k <= la
            BY <2>0
        <3> HIDE DEF la
        <3>2. QED
            BY ONLY <2>0, <3>1
    <2>2. s[k] = b[k]
        BY <1>6, <2>1
    <2>3. b[k] = a[k]
        BY <1>3, <2>1
    <2>4. QED
        BY <2>2, <2>3
<1>9. ~p => s[Len(a) + 1] = PreComp
    BY <1>1, <1>3, <1>4, <1>5, <1>6
<1>10. q => s[Len(s)] = Squash
    <2> SUFFICES ASSUME q PROVE s[Len(s)] = Squash
        OBVIOUS
    <2>1. Len(v) = 1 /\ v[1] = Squash /\ Len(b) \in Nat
        BY <1>1, <1>2, <1>3, <1>4
    <2>2. s[Len(b) + 1] = v[(Len(b) + 1) - Len(b)]
        BY <1>6, <2>1
    <2>3. QED
        BY <1>6, <2>1, <2>2
<1>11. QED
    BY <1>6, <1>7, <1>8, <1>9, <1>10 DEF s, b, u, v
\* What is pre-composited where nothing is squashed, without protected layers.
LEMMA PreCompFacts ==
    ASSUME layers \in Seq(Layer), ProtectedLayers = {}, NEW stable,
           NEW used, NEW R, used \in Seq(R), R \subseteq DOMAIN layers,
           NEW c \in Cells \ stable
    PROVE  SeparateLayers(used, stable)[c] = ToSet(used) \cap Covering(c)
<1>1. HoleOver(used, c) = {}
    BY DEF HoleOver
<1>2. ToSet(used) = {used[j] : j \in 1 .. Len(used)} /\ DOMAIN used = 1 .. Len(used)
    BY ToSetFacts
<1>3. \A j \in DOMAIN used : used[j] \in DOMAIN layers
    OBVIOUS
<1>4. SeparateLayers(used, stable)[c] =
          {used[j] : j \in {k \in DOMAIN used : c \in layers[used[k]].display_frame}}
    BY <1>1 DEF SeparateLayers
<1>5. QED
    BY <1>2, <1>3, <1>4 DEF Covering

\* A plan without protected layers has the squash framebuffer when a region is
\* stable, and its other planes show what is not in a stable region.
LEMMA PlanShows ==
    ASSUME layers \in Seq(Layer), \A i \in DOMAIN layers : ~layers[i].protected,
           NEW stable, stable \subseteq Cells,
           \A c \in stable : layer_refs[c] = Covering(c),
           stable # {} => Len(TakeOrder) >= 3,
           NEW f, f.layers = layers, f.plan = Assign(stable)
    PROVE  /\ Squash \in ToSet(f.plan.sources) <=> stable # {}
           /\ \A c \in Cells \ stable : PlanesShow(f, c)
<1> DEFINE all == DOMAIN layers
           N == Len(TakeOrder)
           some == NotSquashed(all, stable)
           squash == stable # {}
           rest == IF squash THEN some ELSE all
           remaining == Ascending(rest)
           n == Len(remaining)
           planes == KeepForPreComp(n, IF squash THEN Dec(N) ELSE N)
           hw == Min2(n, planes)
           first == SubSeq(remaining, 1, hw)
           used == SubSeq(remaining, hw + 1, n)
           own == ToSet(first)
           a == Ascending(own)
           s == a \o (IF used = <<>> THEN <<>> ELSE <<PreComp>>)
                  \o (IF squash THEN <<Squash>> ELSE <<>>)
<1>1. ProtectedLayers = {}
    BY ProtectedFacts
<1>2. N \in Nat /\ N >= 1
    BY TakeOrderFacts, APlane
<1>3. Cardinality(ProtectedLayers) = 0 /\ DOMAIN layers \ ProtectedLayers = all
      /\ ProtectedLayers \cup own = own
    BY <1>1, FS_EmptySet
<1>4. f.plan.sources = s /\ f.plan.pre_comp = SeparateLayers(used, stable)
    <2> DEFINE A(pr, al, left, sq) ==
                   LET rem == Ascending(IF sq THEN NotSquashed(al, stable) ELSE al)
                       pl == KeepForPreComp(Len(rem), IF sq THEN Dec(left) ELSE left)
                       h == Min2(Len(rem), pl)
                       u == SubSeq(rem, h + 1, Len(rem))
                   IN  IF left = 0 /\ al # {}
                       THEN [sources |-> Ascending(pr), used |-> <<>>,
                             regions |-> FALSE, pre_comp |-> [c \in Cells |-> {}]]
                       ELSE [sources |-> Ascending(pr \cup ToSet(SubSeq(rem, 1, h)))
                                 \o (IF u = <<>> THEN <<>> ELSE <<PreComp>>)
                                 \o (IF sq THEN <<Squash>> ELSE <<>>),
                             used |-> u, regions |-> HasRegions(u, stable),
                             pre_comp |-> SeparateLayers(u, stable)]
               lf == N - Cardinality(ProtectedLayers)
               al0 == DOMAIN layers \ ProtectedLayers
               sq0 == stable # {} /\ (lf > 1 \/ NotSquashed(al0, stable) = {})
    <2>1. Assign(stable) = A(ProtectedLayers, al0, lf, sq0)
        BY DEF Assign
    <2>2. lf = N /\ al0 = all
        BY <1>2, <1>3
    <2>3. sq0 = squash
        <3>1. squash => N > 1
            BY <1>2
        <3> HIDE DEF N, al0, lf
        <3>2. QED
            BY <2>2, <3>1
    <2>4. A(ProtectedLayers, all, N, squash) =
              [sources |-> s, used |-> used, regions |-> HasRegions(used, stable),
               pre_comp |-> SeparateLayers(used, stable)]
        <3>1. N # 0
            BY <1>2
        <3> HIDE DEF N
        <3>2. QED
            BY <1>3, <3>1
    <2> HIDE DEF s, used, A, lf, al0, sq0
    <2>5. Assign(stable) = A(ProtectedLayers, all, N, squash)
        BY <2>1, <2>2, <2>3
    <2>6. QED
        BY <2>4, <2>5
<1>5. DOMAIN layers = 1 .. Len(layers) /\ Len(layers) \in Nat /\ IsFiniteSet(1 .. Len(layers))
    BY FS_Interval
<1>6. rest \subseteq all
    BY DEF NotSquashed
<1>7. \A c \in Cells \ stable : Covering(c) \subseteq rest
    <2> SUFFICES ASSUME NEW c \in Cells \ stable, NEW i \in Covering(c), i \notin rest
                 PROVE  FALSE
        OBVIOUS
    <2>1. i \in all /\ c \in layers[i].display_frame
        BY DEF Covering
    <2>2. i \notin NotSquashed(all, stable)
        BY <2>1
    <2>3. c \in stable
        <3> HIDE DEF all
        <3>1. i \in DOMAIN layers
            BY <2>1 DEF all
        <3>2. QED
            BY <2>1, <2>2, <3>1, CoverFacts
    <2>4. QED
        BY <2>3
<1> HIDE DEF rest
<1>8. rest \subseteq 1 .. Len(layers) /\ rest \subseteq Nat /\ IsFiniteSet(rest)
    <2>1. rest \subseteq 1 .. Len(layers)
        BY <1>5, <1>6
    <2>2. IsFiniteSet(rest)
        BY <1>5, <2>1, FS_Subset
    <2>3. QED
        BY <1>5, <2>1, <2>2
<1>9. remaining \in Seq(rest) /\ n = Cardinality(rest) /\ n \in Nat
    BY <1>8, AscendingFacts
<1>10. hw \in 0 .. n
    <2>1. planes \in Nat
        BY <1>2, <1>9 DEF KeepForPreComp, Dec, SizeMax
    <2>2. QED
        BY <1>9, <2>1 DEF Min2
<1> HIDE DEF hw
<1>11. own \cup ToSet(used) = rest /\ \A i \in own, j \in ToSet(used) : i < j
    <2>1. hw \in 0 .. Cardinality(rest)
        BY <1>9, <1>10
    <2>2. QED
        BY <1>8, <2>1, SplitFacts
<1>12. used \in Seq(rest)
    BY <1>9, <1>10
<1> HIDE DEF remaining, first, used
<1>13. own \subseteq 1 .. Len(layers) /\ own \subseteq Nat /\ IsFiniteSet(own)
    <2>1. own \subseteq 1 .. Len(layers)
        BY <1>8, <1>11
    <2>2. IsFiniteSet(own)
        BY <1>5, <2>1, FS_Subset
    <2>3. QED
        BY <1>5, <2>1, <2>2
<1> HIDE DEF own
<1>14. /\ a \in Seq(own) /\ Len(a) = Cardinality(own) /\ Len(a) \in Nat
       /\ \A i \in own : \E k \in 1 .. Len(a) : a[k] = i
    BY <1>13, AscendingFacts
<1>15. \A k, m \in 1 .. Len(a) : k < m => a[k] < a[m]
    BY <1>13, <1>14, AscendingIncreases
<1> HIDE DEF a
<1>16. \A k \in 1 .. Len(a) : a[k] \in own
    BY <1>14
<1>17. a \in Seq(Int)
    <2>1. a \in [1 .. Len(a) -> own]
        BY <1>14
    <2>2. \A k \in 1 .. Len(a) : a[k] \in Int
        <3>1. \A i \in own : i \in Int
            BY <1>13
        <3>2. QED
            BY <1>16, <3>1
    <2>3. a \in [1 .. Len(a) -> Int]
        BY <2>1, <2>2
    <2>4. QED
        BY <1>14, <2>3
<1> DEFINE p == used = <<>>
<1>18. /\ s \in Seq(Int)
       /\ Len(s) = Len(a) + (IF p THEN 0 ELSE 1) + (IF squash THEN 1 ELSE 0)
       /\ \A k \in 1 .. Len(a) : s[k] = a[k]
       /\ ~p => s[Len(a) + 1] = PreComp
       /\ squash => s[Len(s)] = Squash
    <2>1. p \in BOOLEAN /\ squash \in BOOLEAN
        OBVIOUS
    <2> HIDE DEF p, squash
    <2>2. QED
        BY <1>17, <2>1, SourcesShape DEF p
<1> HIDE DEF s, squash, p
<1>19. ToSet(s) = {s[k] : k \in 1 .. Len(s)} /\ DOMAIN s = 1 .. Len(s) /\ Len(s) \in Nat
    <2>1. s \in Seq(Int)
        BY <1>18
    <2>2. QED
        BY ONLY <2>1, ToSetFacts
<1>20. \A k \in 1 .. Len(s) : \/ k \in 1 .. Len(a)
                              \/ ~p /\ k = Len(a) + 1
                              \/ squash /\ k = Len(s) /\ k > Len(a)
    BY <1>14, <1>18, <1>19
<1>21. Squash \in ToSet(s) <=> squash
    <2>1. \A k \in 1 .. Len(a) : s[k] \in Nat
        BY <1>13, <1>16, <1>18
    <2>2. ASSUME NEW k \in 1 .. Len(s), s[k] = Squash PROVE squash
        <3>1. CASE k \in 1 .. Len(a)
            BY <2>1, <2>2, <3>1 DEF Squash
        <3>2. CASE ~p /\ k = Len(a) + 1
            <4>1. s[k] = PreComp
                BY <1>18, <3>2
            <4>2. QED
                BY <2>2, <4>1 DEF Squash, PreComp
        <3>3. QED
            BY <1>20, <3>1, <3>2
    <2>3. squash => Len(s) \in 1 .. Len(s)
        BY <1>14, <1>18, <1>19
    <2>4. QED
        BY <1>18, <1>19, <2>2, <2>3
<1>22. ASSUME NEW c \in Cells \ stable PROVE PlanesShow(f, c)
    <2> DEFINE over == Covering(c)
               D(k) == DrawnAt(f, k, c)
    <2>1. Over(f, c) = over
        BY DEF Over, Covering
    <2>2. over \subseteq own \cup ToSet(used)
        BY <1>7, <1>11
    <2>3. f.plan.pre_comp[c] = ToSet(used) \cap over
        BY <1>1, <1>4, <1>6, <1>12, PreCompFacts
    <2>4. \A k \in 1 .. Len(a) : a[k] # PreComp /\ a[k] # Squash
        <3>1. \A k \in 1 .. Len(a) : a[k] \in 1 .. Len(layers)
            BY <1>13, <1>16
        <3>2. QED
            BY <1>5, <3>1 DEF PreComp, Squash
    <2> HIDE DEF over
    <2>5. \A k \in 1 .. Len(a) : D(k) = {a[k]} \cap over
        BY <1>4, <1>18, <2>1, <2>4 DEF DrawnAt
    <2>6. ~p => D(Len(a) + 1) = ToSet(used) \cap over
        <3>1. ~p => f.plan.sources[Len(a) + 1] = PreComp
            BY <1>4, <1>18
        <3>2. QED
            BY <2>3, <3>1 DEF DrawnAt, PreComp, Squash
    <2>7. squash => D(Len(s)) = {}
        BY <1>4, <1>18 DEF DrawnAt, PreComp, Squash
    <2>8. p => ToSet(used) = {}
        BY DEF p, ToSet
    <2> HIDE DEF D
    <2>9. \A k \in 1 .. Len(s) : D(k) \subseteq over
        BY <1>20, <2>5, <2>6, <2>7
    <2>10. ASSUME NEW i \in over PROVE \E k \in 1 .. Len(s) : i \in D(k)
        <3>1. CASE i \in own
            <4>1. PICK k \in 1 .. Len(a) : a[k] = i
                BY <1>14, <3>1
            <4>2. i \in D(k)
                BY <2>5, <4>1
            <4>3. k \in 1 .. Len(s)
                BY <1>14, <1>18, <4>1
            <4>4. QED
                BY <4>2, <4>3
        <3>2. CASE i \in ToSet(used)
            <4>1. ~p
                BY <2>8, <3>2
            <4>2. i \in D(Len(a) + 1)
                BY <2>6, <3>2, <4>1
            <4>3. Len(a) + 1 \in 1 .. Len(s)
                BY <1>14, <1>18, <4>1
            <4>4. QED
                BY <4>2, <4>3
        <3>3. QED
            BY <2>2, <3>1, <3>2
    <2>11. UNION {D(k) : k \in 1 .. Len(s)} = over
        BY <2>9, <2>10
    <2>12. ASSUME NEW k \in 1 .. Len(s), NEW m \in 1 .. Len(s), k < m,
                  NEW i \in D(k), NEW j \in D(m)
           PROVE  i < j
        <3>1. k \in 1 .. Len(a)
            <4>1. CASE ~p /\ k = Len(a) + 1
                <5>1. squash /\ m = Len(s)
                    BY <1>14, <1>20, <2>12, <4>1
                <5>2. QED
                    BY <2>7, <2>12, <5>1
            <4>2. CASE squash /\ k = Len(s)
                BY <2>7, <2>12, <4>2
            <4>3. QED
                BY <1>20, <4>1, <4>2
        <3>2. i = a[k] /\ i \in own
            BY <1>16, <2>5, <2>12, <3>1
        <3>3. CASE m \in 1 .. Len(a)
            <4>1. j = a[m]
                BY <2>5, <2>12, <3>3
            <4>2. QED
                BY <1>15, <2>12, <3>1, <3>2, <3>3, <4>1
        <3>4. CASE ~p /\ m = Len(a) + 1
            <4>1. j \in ToSet(used)
                BY <2>6, <2>12, <3>4
            <4>2. QED
                BY <1>11, <3>2, <4>1
        <3>5. CASE squash /\ m = Len(s)
            BY <2>7, <2>12, <3>5
        <3>6. QED
            BY <1>20, <3>3, <3>4, <3>5
    <2>13. \A k, m \in 1 .. Len(s) : k < m => \A i \in D(k), j \in D(m) : i < j
        BY <2>12
    <2>14. QED
        BY <1>4, <1>19, <2>1, <2>11, <2>13 DEF PlanesShow, D
<1>23. QED
    BY <1>4, <1>21, <1>22 DEF squash
\* A layer that the squashed regions do not contain entirely shows elsewhere.
LEMMA UncoveredFacts ==
    ASSUME layers \in Seq(Layer), NEW stable, stable \subseteq Cells,
           \A c \in stable : layer_refs[c] = Covering(c),
           NEW S, NEW i \in NotSquashed(S, stable), i \in DOMAIN layers
    PROVE  \E c \in Cells \ stable : c \in layers[i].display_frame
<1> DEFINE inside == {d \in stable : i \in layer_refs[d]}
           frame == layers[i].display_frame
<1>1. layers[i] \in Layer
    OBVIOUS
<1>2. frame \subseteq Cells
    BY <1>1 DEF Layer
<1>3. Cardinality(inside) < Cardinality(frame)
    BY DEF NotSquashed
<1>4. IsFiniteSet(frame)
    BY <1>2, CellAssumption, FS_Subset
<1>5. Cardinality(frame) \in Nat
    BY <1>4, FS_CardinalityType
<1>6. inside # frame
    <2> HIDE DEF inside, frame
    <2>1. QED
        BY <1>3, <1>5
<1>7. inside = {d \in stable : d \in frame}
    BY DEF Covering
<1>8. PICK c \in frame : c \notin stable
    BY <1>6, <1>7
<1>9. QED
    BY <1>2, <1>8

\* A plan for stable regions never fails: what it pre-composites has a region.
LEMMA RegionsFacts ==
    ASSUME layers \in Seq(Layer), NEW stable, stable \subseteq Cells, stable # {},
           \A c \in stable : layer_refs[c] = Covering(c)
    PROVE  Assign(stable).used = <<>> \/ Assign(stable).regions
<1> DEFINE protected == ProtectedLayers
           all == DOMAIN layers \ protected
           N == Len(TakeOrder)
           left == N - Cardinality(protected)
           some == NotSquashed(all, stable)
           squash == stable # {} /\ (left > 1 \/ some = {})
           rest == IF squash THEN some ELSE all
           remaining == Ascending(rest)
           n == Len(remaining)
           planes == KeepForPreComp(n, IF squash THEN Dec(left) ELSE left)
           hw == Min2(n, planes)
           used == SubSeq(remaining, hw + 1, n)
<1>1. /\ DOMAIN layers = 1 .. Len(layers) /\ Len(layers) \in Nat
      /\ IsFiniteSet(1 .. Len(layers))
    BY FS_Interval
<1>2. left \in Nat
    BY ProtectedFacts, TakeOrderFacts
<1>3. some \subseteq all /\ rest \subseteq all /\ all \subseteq DOMAIN layers
    BY DEF NotSquashed
<1>4. (squash => rest = some) /\ (~squash => rest = all /\ ~(left > 1) /\ some # {})
    OBVIOUS
<1>5. left = 0 /\ all # {} => Assign(stable).used = <<>>
    BY DEF Assign
<1>6. ~(left = 0 /\ all # {}) =>
          Assign(stable).used = used /\ Assign(stable).regions = HasRegions(used, stable)
    BY DEF Assign
<1> HIDE DEF rest, some, squash, left
<1> SUFFICES ASSUME ~(left = 0 /\ all # {}), used # <<>>
             PROVE  HasRegions(used, stable)
    <2>1. CASE left = 0 /\ all # {}
        BY <1>5, <2>1
    <2>2. CASE used = <<>>
        BY <1>5, <1>6, <2>2
    <2>3. QED
        BY <1>6, <2>1, <2>2
<1>7. rest \subseteq Nat /\ IsFiniteSet(rest)
    <2>1. rest \subseteq 1 .. Len(layers)
        BY <1>1, <1>3
    <2>2. IsFiniteSet(rest)
        BY <1>1, <2>1, FS_Subset
    <2>3. QED
        BY <1>1, <2>1, <2>2
<1>8. remaining \in Seq(rest) /\ n = Cardinality(rest) /\ n \in Nat
    BY <1>7, AscendingFacts
<1>9. planes \in Nat
    BY <1>2, <1>8 DEF KeepForPreComp, Dec, SizeMax
<1>10. hw \in 0 .. n
    BY <1>8, <1>9 DEF Min2
<1>11. used \in Seq(rest) /\ Len(used) = n - hw
    BY <1>8, <1>10
<1>12. \E i \in some : i \in ToSet(used)
    <2>1. CASE squash
        <3> HIDE DEF used
        <3>1. ToSet(used) = {used[k] : k \in 1 .. Len(used)} /\ ToSet(used) \subseteq rest
            BY <1>11, ToSetFacts
        <3>2. Len(used) \in Nat /\ Len(used) # 0
            BY <1>11
        <3>3. used[1] \in ToSet(used)
            BY <3>1, <3>2
        <3>4. QED
            BY <1>4, <2>1, <3>1, <3>3
    <2>2. CASE ~squash
        <3>1. left = 1
            BY <1>2, <1>3, <1>4, <2>2
        <3>2. hw = 0
            <4>1. planes = IF n > 1 THEN 0 ELSE 1
                BY <1>8, <2>2, <3>1 DEF KeepForPreComp, Dec
            <4>2. hw # n
                <5> HIDE DEF used
                <5>1. Len(used) # 0
                    BY <1>11
                <5>2. QED
                    BY <1>8, <1>10, <1>11, <5>1
            <4> HIDE DEF planes, n
            <4>3. hw = IF n < planes THEN n ELSE planes
                BY DEF Min2
            <4>4. QED
                BY <1>8, <4>1, <4>2, <4>3
        <3>3. ToSet(SubSeq(remaining, 1, hw)) \cup ToSet(used) = rest
            <4>1. hw \in 0 .. Cardinality(rest)
                BY <1>8, <1>10
            <4> HIDE DEF hw
            <4>2. QED
                BY <1>7, <4>1, SplitFacts
        <3>4. ToSet(SubSeq(remaining, 1, hw)) = {}
            <4> HIDE DEF remaining, hw
            <4> DEFINE e == SubSeq(remaining, 1, hw)
            <4>1. e \in Seq(rest) /\ Len(e) = 0
                BY <1>8, <3>2
            <4> HIDE DEF e
            <4>2. ToSet(e) = {e[k] : k \in 1 .. Len(e)}
                BY ONLY <4>1, ToSetFacts
            <4>3. ToSet(e) = {}
                BY <4>1, <4>2
            <4>4. QED
                BY <4>3 DEF e
        <3>5. QED
            BY <1>3, <1>4, <2>2, <3>3, <3>4
    <2>3. QED
        BY <2>1, <2>2
<1> HIDE DEF used
<1>13. PICK i \in some : i \in ToSet(used)
    BY <1>12
<1>14. i \in DOMAIN layers
    BY <1>3, <1>13
<1>15. PICK c \in Cells \ stable : c \in layers[i].display_frame
    BY <1>13, <1>14, UncoveredFacts DEF some
<1>16. QED
    BY <1>13, <1>15 DEF HasRegions
-----------------------------------------------------------------------------
(***************************************************************************)
(* The squash framebuffer through the frames that wait.                    *)
(***************************************************************************)
\* Does showing the frame render the squash framebuffer, and what with?
Renders(f) == DOMAIN f.squash_regions # {}
Drawing(f) ==
    [c \in Cells |-> IF c \notin DOMAIN f.squash_regions THEN {}
                     ELSE {<<i, f.handles[i]>> : i \in f.squash_regions[c]}]

\* What the squash framebuffer holds now (0) or after the j-th frame renders it.
Holds(buffer, frames, j) == IF j = 0 THEN buffer ELSE Drawing(frames[j])

\* No frame after the j-th, to the k-th, renders it again; now it counts only
\* when no frame that was to render it was dropped.
Reaches(missed, frames, j, k) ==
    /\ IF j = 0 THEN ~missed ELSE Renders(frames[j])
    /\ \A m \in j + 1 .. k : ~Renders(frames[m])

\* Every frame will make the right picture with what it finds there.
PicturesRight(buffer, missed, frames) ==
    \A k \in 1 .. Len(frames) : ~HasProtected(frames[k]) =>
        \A j \in 0 .. k : Reaches(missed, frames, j, k) =>
            RightWith(Holds(buffer, frames, j), frames[k])

\* The content that the last of the frames will find or leave.
LeftWith(buffer, missed, frames, content) ==
    \A j \in 0 .. Len(frames) : Reaches(missed, frames, j, Len(frames)) =>
        Holds(buffer, frames, j) = content

\* A frame that renders it does not fail after it did.
RendersAndShows(frames) ==
    \A k \in 1 .. Len(frames) : Renders(frames[k]) =>
        frames[k].plan.used = <<>> \/ frames[k].plan.regions

\* What a frame leaves when it is shown or dropped.
HeadGoes(f, buffer, missed, buffer2, missed2) ==
    \/ Renders(f) /\ (missed2 \/ buffer2 = Drawing(f))
    \/ ~Renders(f) /\ buffer2 = buffer /\ missed2 = missed

\* The frames after the first.
IsTail(t, frames) ==
    /\ Len(frames) \in Nat \ {0} /\ Len(t) = Len(frames) - 1
    /\ \A m \in 1 .. Len(frames) - 1 : t[m] = frames[m + 1]

\* What counts for the frames after the first counted for them before.
Follows(frames, buffer, missed, t, buffer2, missed2) ==
    \A k \in 0 .. Len(t) : \A j \in 0 .. k :
        Reaches(missed2, t, j, k) =>
            \E i \in 0 .. k + 1 :
                /\ Reaches(missed, frames, i, k + 1)
                /\ Holds(buffer, frames, i) = Holds(buffer2, t, j)

\* The first frame goes: what counts for the others counted before.
LEMMA ReachesTail ==
    ASSUME NEW frames, NEW t, IsTail(t, frames),
           NEW buffer, NEW missed, NEW buffer2, NEW missed2,
           HeadGoes(frames[1], buffer, missed, buffer2, missed2)
    PROVE  Follows(frames, buffer, missed, t, buffer2, missed2)
<1> SUFFICES ASSUME NEW k \in 0 .. Len(t), NEW j \in 0 .. k,
                    Reaches(missed2, t, j, k)
             PROVE  \E i \in 0 .. k + 1 :
                        /\ Reaches(missed, frames, i, k + 1)
                        /\ Holds(buffer, frames, i) = Holds(buffer2, t, j)
    BY DEF Follows
<1> DEFINE n == Len(frames)
<1>1. /\ n \in Nat \ {0} /\ Len(t) = n - 1
      /\ \A m \in 1 .. n - 1 : t[m] = frames[m + 1]
    BY DEF IsTail
<1>2. k \in 0 .. n - 1 /\ k \in Nat /\ j \in Nat /\ j <= k
    BY <1>1
<1>3. /\ IF j = 0 THEN ~missed2 ELSE Renders(t[j])
      /\ \A m \in j + 1 .. k : ~Renders(t[m])
    BY DEF Reaches
<1> HIDE DEF n
<1>4. ASSUME NEW m \in j + 2 .. k + 1 PROVE ~Renders(frames[m])
    <2>1. m - 1 \in j + 1 .. k /\ m - 1 \in 1 .. n - 1 /\ (m - 1) + 1 = m
        BY <1>1, <1>2
    <2>2. QED
        BY <1>1, <1>3, <2>1
<1>5. CASE j # 0
    <2>1. j \in 1 .. n - 1 /\ j + 1 \in 0 .. k + 1 /\ j + 1 # 0
        BY <1>1, <1>2, <1>5
    <2>2. t[j] = frames[j + 1]
        BY <1>1, <2>1
    <2>3. Renders(frames[j + 1])
        BY <1>3, <1>5, <2>2
    <2>4. \A m \in (j + 1) + 1 .. k + 1 : ~Renders(frames[m])
        <3>1. (j + 1) + 1 = j + 2
            BY <1>2
        <3>2. QED
            BY <1>4, <3>1
    <2>5. Reaches(missed, frames, j + 1, k + 1)
        BY <2>1, <2>3, <2>4 DEF Reaches
    <2>6. Holds(buffer, frames, j + 1) = Holds(buffer2, t, j)
        BY <1>5, <2>1, <2>2 DEF Holds
    <2>7. QED
        BY <2>1, <2>5, <2>6
<1>6. CASE j = 0
    <2>1. ~missed2 /\ \A m \in 2 .. k + 1 : ~Renders(frames[m])
        BY <1>3, <1>4, <1>6
    <2>2. Holds(buffer2, t, j) = buffer2
        BY <1>6 DEF Holds
    <2>3. CASE Renders(frames[1])
        <3>1. buffer2 = Drawing(frames[1])
            BY <1>1, <2>1, <2>3 DEF HeadGoes
        <3>2. \A m \in 1 + 1 .. k + 1 : ~Renders(frames[m])
            BY <2>1
        <3>3. Reaches(missed, frames, 1, k + 1)
            BY <2>3, <3>2 DEF Reaches
        <3>4. Holds(buffer, frames, 1) = Drawing(frames[1]) /\ 1 \in 0 .. k + 1
            BY <1>2 DEF Holds
        <3>5. QED
            BY <2>2, <3>1, <3>3, <3>4
    <2>4. CASE ~Renders(frames[1])
        <3>1. buffer2 = buffer /\ ~missed
            BY <1>1, <2>1, <2>4 DEF HeadGoes
        <3>2. ASSUME NEW m \in 0 + 1 .. k + 1 PROVE ~Renders(frames[m])
            <4>1. m = 1 \/ m \in 2 .. k + 1
                BY <1>2
            <4>2. QED
                BY <2>1, <2>4, <4>1
        <3>3. Reaches(missed, frames, 0, k + 1)
            BY <3>1, <3>2 DEF Reaches
        <3>4. Holds(buffer, frames, 0) = buffer /\ 0 \in 0 .. k + 1
            BY <1>2 DEF Holds
        <3>5. QED
            BY <2>2, <3>1, <3>3, <3>4
    <2>5. QED
        BY <2>3, <2>4
<1>7. QED
    BY <1>5, <1>6

\* What is known of the frames is known of the ones after the first.
LEMMA PicturesTail ==
    ASSUME NEW frames, NEW t, IsTail(t, frames),
           NEW buffer, NEW missed, NEW buffer2, NEW missed2,
           HeadGoes(frames[1], buffer, missed, buffer2, missed2)
    PROVE  /\ PicturesRight(buffer, missed, frames) =>
                  PicturesRight(buffer2, missed2, t)
           /\ \A content : LeftWith(buffer, missed, frames, content) =>
                                LeftWith(buffer2, missed2, t, content)
           /\ RendersAndShows(frames) => RendersAndShows(t)
<1> DEFINE n == Len(frames)
<1>1. /\ n \in Nat \ {0} /\ Len(t) = n - 1
      /\ \A m \in 1 .. n - 1 : t[m] = frames[m + 1]
    BY DEF IsTail
<1>2. \A k \in 0 .. Len(t) : \A j \in 0 .. k : Reaches(missed2, t, j, k) =>
          \E i \in 0 .. k + 1 : /\ Reaches(missed, frames, i, k + 1)
                               /\ Holds(buffer, frames, i) = Holds(buffer2, t, j)
    <2>1. Follows(frames, buffer, missed, t, buffer2, missed2)
        BY ReachesTail
    <2>2. QED
        BY <2>1 DEF Follows
<1> HIDE DEF n
<1>3. ASSUME PicturesRight(buffer, missed, frames)
      PROVE  PicturesRight(buffer2, missed2, t)
    <2> SUFFICES ASSUME NEW k \in 1 .. Len(t), ~HasProtected(t[k]), NEW j \in 0 .. k,
                        Reaches(missed2, t, j, k)
                 PROVE  RightWith(Holds(buffer2, t, j), t[k])
        BY DEF PicturesRight
    <2>1. k \in 0 .. Len(t) /\ k \in 1 .. n - 1 /\ k + 1 \in 1 .. n
        BY <1>1
    <2>2. PICK i \in 0 .. k + 1 : /\ Reaches(missed, frames, i, k + 1)
                                 /\ Holds(buffer, frames, i) = Holds(buffer2, t, j)
        BY <1>2, <2>1
    <2>3. t[k] = frames[k + 1]
        BY <1>1, <2>1
    <2>4. RightWith(Holds(buffer, frames, i), frames[k + 1])
        BY <1>3, <2>1, <2>2, <2>3 DEF PicturesRight, n
    <2>5. QED
        BY <2>2, <2>3, <2>4
<1>4. ASSUME NEW content, LeftWith(buffer, missed, frames, content)
      PROVE  LeftWith(buffer2, missed2, t, content)
    <2> SUFFICES ASSUME NEW j \in 0 .. Len(t), Reaches(missed2, t, j, Len(t))
                 PROVE  Holds(buffer2, t, j) = content
        BY DEF LeftWith
    <2>1. Len(t) \in 0 .. Len(t) /\ Len(t) + 1 = n
        BY <1>1
    <2>2. PICK i \in 0 .. Len(t) + 1 : /\ Reaches(missed, frames, i, Len(t) + 1)
                                      /\ Holds(buffer, frames, i) = Holds(buffer2, t, j)
        BY <1>2, <2>1
    <2>3. QED
        BY <1>4, <2>1, <2>2 DEF LeftWith, n
<1>5. ASSUME RendersAndShows(frames) PROVE RendersAndShows(t)
    <2> SUFFICES ASSUME NEW k \in 1 .. Len(t), Renders(t[k])
                 PROVE  t[k].plan.used = <<>> \/ t[k].plan.regions
        BY DEF RendersAndShows
    <2>1. k \in 1 .. n - 1 /\ k + 1 \in 1 .. n
        BY <1>1
    <2>2. t[k] = frames[k + 1]
        BY <1>1, <2>1
    <2>3. QED
        BY <1>5, <2>1, <2>2 DEF RendersAndShows, n
<1>6. QED
    BY <1>3, <1>4, <1>5

\* The frames with one more.
IsAppend(t, frames, f) ==
    /\ Len(frames) \in Nat /\ Len(t) = Len(frames) + 1 /\ t[Len(frames) + 1] = f
    /\ \A m \in 1 .. Len(frames) : t[m] = frames[m]

\* The frame makes the right picture with what it renders or finds.
FitsAfter(f, frames, buffer, missed) ==
    ~HasProtected(f) =>
        IF Renders(f) THEN RightWith(Drawing(f), f)
        ELSE \A j \in 0 .. Len(frames) :
                 Reaches(missed, frames, j, Len(frames)) =>
                     RightWith(Holds(buffer, frames, j), f)

\* Append is such a one.
LEMMA AppendIs ==
    ASSUME NEW D, NEW frames \in Seq(D), NEW f
    PROVE  IsAppend(Append(frames, f), frames, f)
<1> DEFINE E == D \cup {f}
           n == Len(frames)
<1>1. frames \in [1 .. n -> D] /\ n \in Nat
    OBVIOUS
<1>2. frames \in [1 .. n -> E]
    BY <1>1
<1> HIDE DEF E
<1>3. frames \in Seq(E)
    BY <1>1, <1>2
<1>4. f \in E
    BY DEF E
<1>5. QED
    BY <1>3, <1>4 DEF IsAppend

\* A frame joins: it finds what the last one leaves, or renders its own.
LEMMA PicturesAppend ==
    ASSUME NEW frames, NEW f, NEW t, IsAppend(t, frames, f), NEW buffer, NEW missed
    PROVE  /\ PicturesRight(buffer, missed, frames) /\ FitsAfter(f, frames, buffer, missed)
                  => PicturesRight(buffer, missed, t)
           /\ \A content : LeftWith(buffer, missed, frames, content) /\ ~Renders(f)
                  => LeftWith(buffer, missed, t, content)
           /\ Renders(f) => LeftWith(buffer, missed, t, Drawing(f))
           /\ /\ RendersAndShows(frames)
              /\ Renders(f) => f.plan.used = <<>> \/ f.plan.regions
              => RendersAndShows(t)
<1> DEFINE n == Len(frames)
<1>1. /\ n \in Nat /\ Len(t) = n + 1 /\ t[n + 1] = f
      /\ \A m \in 1 .. n : t[m] = frames[m]
    BY DEF IsAppend
<1> HIDE DEF n
<1>2. \A j \in 0 .. n : Holds(buffer, t, j) = Holds(buffer, frames, j)
    <2> SUFFICES ASSUME NEW j \in 0 .. n
                 PROVE  Holds(buffer, t, j) = Holds(buffer, frames, j)
        OBVIOUS
    <2>1. j = 0 \/ j \in 1 .. n
        BY <1>1
    <2>2. QED
        BY <1>1, <2>1 DEF Holds
<1>3. Holds(buffer, t, n + 1) = Drawing(f)
    BY <1>1 DEF Holds
<1>4. ASSUME NEW k \in 0 .. n, NEW j \in 0 .. k, Reaches(missed, t, j, k)
      PROVE  Reaches(missed, frames, j, k)
    <2>1. j = 0 \/ (j # 0 /\ j \in 1 .. n)
        BY <1>1
    <2>2. ASSUME NEW m \in j + 1 .. k PROVE ~Renders(frames[m])
        <3>1. m \in 1 .. n
            BY <1>1
        <3>2. QED
            BY <1>1, <1>4, <3>1 DEF Reaches
    <2>3. IF j = 0 THEN ~missed ELSE Renders(frames[j])
        BY <1>1, <1>4, <2>1 DEF Reaches
    <2>4. QED
        BY <2>2, <2>3 DEF Reaches
<1>5. ASSUME NEW j \in 0 .. n + 1, Reaches(missed, t, j, n + 1)
      PROVE  \/ j = n + 1 /\ Renders(f)
             \/ j \in 0 .. n /\ ~Renders(f) /\ Reaches(missed, frames, j, n)
    <2>1. CASE j = n + 1
        BY <1>1, <1>5, <2>1 DEF Reaches
    <2>2. CASE j # n + 1
        <3>1. j \in 0 .. n /\ n + 1 \in j + 1 .. n + 1 /\ n \in 0 .. n /\ j \in Nat
            BY <1>1, <2>2
        <3>2. ~Renders(f)
            BY <1>1, <1>5, <3>1 DEF Reaches
        <3>3. \A m \in j + 1 .. n : m \in j + 1 .. n + 1
            BY <1>1, <3>1
        <3>4. Reaches(missed, t, j, n)
            BY <1>5, <3>3 DEF Reaches
        <3>5. QED
            BY <1>4, <3>1, <3>2, <3>4
    <2>3. QED
        BY <2>1, <2>2
<1>6. ASSUME PicturesRight(buffer, missed, frames),
             FitsAfter(f, frames, buffer, missed)
      PROVE  PicturesRight(buffer, missed, t)
    <2> SUFFICES ASSUME NEW k \in 1 .. Len(t), ~HasProtected(t[k]), NEW j \in 0 .. k,
                        Reaches(missed, t, j, k)
                 PROVE  RightWith(Holds(buffer, t, j), t[k])
        BY DEF PicturesRight
    <2>1. CASE k \in 1 .. n
        <3>1. k \in 0 .. n /\ j \in 0 .. n /\ t[k] = frames[k]
            BY <1>1, <2>1
        <3>2. Reaches(missed, frames, j, k)
            BY <1>4, <3>1
        <3>3. RightWith(Holds(buffer, frames, j), frames[k])
            BY <1>6, <2>1, <3>1, <3>2 DEF PicturesRight, n
        <3>4. QED
            BY <1>2, <3>1, <3>3
    <2>2. CASE k = n + 1
        <3>1. t[k] = f /\ j \in 0 .. n + 1 /\ Reaches(missed, t, j, n + 1)
            BY <1>1, <2>2
        <3>2. CASE j = n + 1 /\ Renders(f)
            BY <1>3, <1>6, <3>1, <3>2 DEF FitsAfter
        <3>3. CASE j \in 0 .. n /\ ~Renders(f) /\ Reaches(missed, frames, j, n)
            BY <1>2, <1>6, <3>1, <3>3 DEF FitsAfter, n
        <3>4. QED
            BY <1>5, <3>1, <3>2, <3>3
    <2>3. QED
        BY <1>1, <2>1, <2>2
<1>7. ASSUME NEW content, IF Renders(f) THEN Drawing(f) = content
                          ELSE LeftWith(buffer, missed, frames, content)
      PROVE  LeftWith(buffer, missed, t, content)
    <2> SUFFICES ASSUME NEW j \in 0 .. n + 1, Reaches(missed, t, j, n + 1)
                 PROVE  Holds(buffer, t, j) = content
        BY <1>1 DEF LeftWith
    <2>1. CASE j = n + 1 /\ Renders(f)
        BY <1>3, <1>7, <2>1
    <2>2. CASE j \in 0 .. n /\ ~Renders(f) /\ Reaches(missed, frames, j, n)
        BY <1>2, <1>7, <2>2 DEF LeftWith, n
    <2>3. QED
        BY <1>5, <2>1, <2>2
<1>8. ASSUME RendersAndShows(frames),
             Renders(f) => f.plan.used = <<>> \/ f.plan.regions
      PROVE  RendersAndShows(t)
    <2> SUFFICES ASSUME NEW k \in 1 .. Len(t), Renders(t[k])
                 PROVE  t[k].plan.used = <<>> \/ t[k].plan.regions
        BY DEF RendersAndShows
    <2>1. k \in 1 .. n \/ k = n + 1
        BY <1>1
    <2>2. QED
        BY <1>1, <1>8, <2>1 DEF RendersAndShows, n
<1>9. QED
    BY <1>6, <1>7, <1>8
-----------------------------------------------------------------------------
(***************************************************************************)
(* The picture.                                                            *)
(***************************************************************************)
\* The squashed regions with these buffers.
Wanted(handles, stable) ==
    [c \in Cells |-> IF c \in stable THEN {<<i, handles[i]>> : i \in layer_refs[c]}
                     ELSE {}]

\* A frame without protected layers makes the right picture when the squash
\* framebuffer holds its stable regions.
LEMMA FramePicture ==
    ASSUME layers \in Seq(Layer), \A i \in DOMAIN layers : ~layers[i].protected,
           NEW stable, stable \subseteq Cells, Squashable(stable),
           \A c \in stable : layer_refs[c] = Covering(c),
           stable # {} => Len(TakeOrder) >= 3,
           NEW f, f.layers = layers, f.plan = Assign(stable),
           NEW buffer, stable # {} => buffer = Wanted(f.handles, stable)
    PROVE  RightWith(buffer, f)
<1>1. /\ Squash \in ToSet(f.plan.sources) <=> stable # {}
      /\ \A c \in Cells \ stable : PlanesShow(f, c)
    BY PlanShows
<1>2. ASSUME NEW c \in Cells, c \in stable
      PROVE  buffer[c] = {<<i, f.handles[i]>> : i \in Over(f, c)} /\ buffer[c] # {}
    <2>1. layer_refs[c] = Over(f, c) /\ Over(f, c) # {}
        BY <1>2 DEF Over, Covering, Squashable
    <2>2. buffer[c] = {<<i, f.handles[i]>> : i \in layer_refs[c]}
        BY <1>2 DEF Wanted
    <2>3. PICK i : i \in Over(f, c)
        BY <2>1
    <2>4. <<i, f.handles[i]>> \in buffer[c]
        BY <2>1, <2>2, <2>3
    <2>5. QED
        BY <2>1, <2>2, <2>4
<1>3. ASSUME NEW c \in Cells, c \notin stable, stable # {} PROVE buffer[c] = {}
    BY <1>3 DEF Wanted
<1>4. QED
    BY <1>1, <1>2, <1>3 DEF RightWith

\* The picture depends on the layers, their buffers and the plan.
LEMMA SamePicture ==
    ASSUME NEW f, NEW g, g.layers = f.layers, g.handles = f.handles, g.plan = f.plan,
           NEW buffer, RightWith(buffer, f)
    PROVE  RightWith(buffer, g)
<1>1. \A c : Over(g, c) = Over(f, c)
    BY DEF Over
<1>2. \A k, c : DrawnAt(g, k, c) = DrawnAt(f, k, c)
    BY <1>1 DEF DrawnAt
<1>3. \A c : PlanesShow(f, c) => PlanesShow(g, c)
    BY <1>1, <1>2 DEF PlanesShow
<1>4. QED
    BY <1>1, <1>3 DEF RightWith

\* The frames that wait, and the squash framebuffer they will find, make the
\* right pictures; SquashState knows what the last of them will leave there.
PicInv ==
    /\ PicturesRight(squash_buffer, squash_missed, pending)
    /\ Squashes /\ squashed # {} =>
           LeftWith(squash_buffer, squash_missed, pending, Wanted(last_handles_, squashed))
    /\ RendersAndShows(pending)
    /\ PictureRight

\* Nothing is on the screen, and nothing should be.
LEMMA InitPicture == Init => PicInv
<1> SUFFICES ASSUME Init PROVE PicInv
    OBVIOUS
<1>1. pending = <<>> /\ squashed = {} /\ shown = NoFrame
    BY DEF Init
<1>2. Len(pending) = 0
    BY <1>1
<1>3. PicturesRight(squash_buffer, squash_missed, pending) /\ RendersAndShows(pending)
    BY <1>2 DEF PicturesRight, RendersAndShows
<1>4. shown.layers = <<>> /\ shown.plan.sources = <<>>
    BY <1>1 DEF NoFrame
<1>5. ToSet(shown.plan.sources) = {} /\ DOMAIN shown.plan.sources = {}
    BY <1>4 DEF ToSet
<1>6. \A c : Over(shown, c) = {}
    BY <1>4 DEF Over
<1>7. \A c : PlanesShow(shown, c)
    BY <1>5, <1>6 DEF PlanesShow
<1>8. PictureRight
    BY <1>5, <1>7 DEF PictureRight, RightWith
<1>9. QED
    BY <1>1, <1>3, <1>8 DEF PicInv

\* New layers change nothing that is planned or shown.
LEMMA GeometryPicture ==
    ASSUME IInv, PicInv, UNCHANGED <<squashVars, pending, screenVars>>
    PROVE  PicInv'
<1>1. UNCHANGED <<layer_refs, squashed, last_handles_, pending, squash_buffer,
                  squash_missed, shown>>
    BY DEF squashVars, screenVars
<1>2. QED
    BY <1>1 DEF PicInv, PictureRight, Wanted

\* A planned frame, as record.
LEMMA FrameFields ==
    ASSUME NEW handles, NEW stable, NEW render \in BOOLEAN
    PROVE  LET f == Frame(handles, stable, render)
               regions == IF render THEN stable ELSE {}
           IN  /\ f.layers = layers /\ f.handles = handles /\ f.plan = Assign(stable)
               /\ DOMAIN f.squash_regions = regions
               /\ Renders(f) <=> render /\ stable # {}
               /\ stable \subseteq Cells /\ Renders(f) => Drawing(f) = Wanted(handles, stable)
<1> DEFINE f == Frame(handles, stable, render)
           regions == IF render THEN stable ELSE {}
           plan == Assign(stable)
<1> HIDE DEF plan
<1>1. f = [layers |-> layers, handles |-> handles, plan |-> plan,
           squash_regions |-> [c \in regions |-> layer_refs[c]],
           disabled |-> Disabled(plan.sources),
           release |-> CreateAndAssignReleaseFences(regions, plan)]
    BY DEF Frame, plan
<1>2. /\ f.layers = layers /\ f.handles = handles /\ f.plan = plan
      /\ f.squash_regions = [c \in regions |-> layer_refs[c]]
    BY <1>1
<1> HIDE DEF f
<1>3. DOMAIN f.squash_regions = regions /\ \A c \in regions : f.squash_regions[c] = layer_refs[c]
    BY <1>2
<1>4. Renders(f) <=> render /\ stable # {}
    BY <1>3 DEF Renders
<1>5. ASSUME stable \subseteq Cells, Renders(f) PROVE Drawing(f) = Wanted(handles, stable)
    <2>1. regions = stable
        BY <1>4, <1>5
    <2>2. DOMAIN f.squash_regions = stable
          /\ \A c \in stable : f.squash_regions[c] = layer_refs[c]
        BY <1>3, <2>1
    <2>3. ASSUME NEW c \in Cells
          PROVE  (IF c \notin DOMAIN f.squash_regions THEN {}
                  ELSE {<<i, f.handles[i]>> : i \in f.squash_regions[c]}) =
                 (IF c \in stable THEN {<<i, handles[i]>> : i \in layer_refs[c]} ELSE {})
        BY <1>2, <2>2
    <2>4. QED
        BY <2>3, Zenon DEF Drawing, Wanted
<1>6. QED
    BY <1>2, <1>3, <1>4, <1>5 DEF f, plan

\* The frames that wait, as a sequence.
LEMMA PendingSeq ==
    ASSUME IInv
    PROVE  \E D : pending \in Seq(D)
BY DEF IInv, PendingRight, AllRight

\* A frame with new layers: nothing is squashed.
LEMMA ChangedPicture ==
    ASSUME IInv, PicInv, PlanChanged
    PROVE  PicInv'
<1> DEFINE f == Frame(sf_handle, {}, FALSE)
<1>1. pending' = Append(pending, f) /\ UNCHANGED screenVars
      /\ (Squashes => squashed' = {})
    BY DEF PlanChanged, SquashInit
<1>2. squash_buffer' = squash_buffer /\ squash_missed' = squash_missed /\ shown' = shown
    BY <1>1 DEF screenVars
<1>3. f.layers = layers /\ f.plan = Assign({}) /\ ~Renders(f)
    <2> DEFINE render == FALSE
               g == Frame(sf_handle, {}, render)
    <2>1. render \in BOOLEAN /\ ~render
        OBVIOUS
    <2> HIDE DEF render
    <2>2. g.layers = layers /\ g.plan = Assign({}) /\ (Renders(g) <=> render /\ {} # {})
        BY <2>1, FrameFields
    <2> HIDE DEF g
    <2>3. g.layers = layers /\ g.plan = Assign({}) /\ ~Renders(g)
        BY <2>2
    <2>4. QED
        BY <2>3 DEF g, render
<1> HIDE DEF f
<1>4. layers \in Seq(Layer)
    BY LayersFacts DEF IInv, ClientType
<1>5. ASSUME ~HasProtected(f), NEW buffer PROVE RightWith(buffer, f)
    <2>1. \A i \in DOMAIN layers : ~layers[i].protected
        BY <1>3, <1>5 DEF HasProtected
    <2>2. Squashable({})
        BY DEF Squashable
    <2>3. QED
        BY <1>3, <1>4, <2>1, <2>2, FramePicture
<1>6. PICK D : pending \in Seq(D)
    BY PendingSeq
<1>7. /\ PicturesRight(squash_buffer, squash_missed, Append(pending, f))
      /\ RendersAndShows(Append(pending, f))
    <2>1. IsAppend(Append(pending, f), pending, f)
        BY <1>6, AppendIs
    <2>2. FitsAfter(f, pending, squash_buffer, squash_missed)
        BY <1>3, <1>5 DEF FitsAfter
    <2>3. QED
        BY <1>3, <2>1, <2>2, PicturesAppend DEF PicInv
<1>8. PicturesRight(squash_buffer', squash_missed', pending') /\ RendersAndShows(pending')
    BY <1>1, <1>2, <1>7
<1>9. PictureRight'
    BY <1>2 DEF PicInv, PictureRight
<1>10. Squashes' = Squashes
    BY DEF Squashes, TakeOrder, Usable
<1>11. QED
    BY <1>1, <1>8, <1>9, <1>10 DEF PicInv

\* A frame with the same layers: its stable regions are in the squash
\* framebuffer it finds, or it renders them.
LEMMA UnchangedPicture ==
    ASSUME IInv, PicInv, NEW updated \in SUBSET DOMAIN layers, PlanUnchanged(updated)
    PROVE  PicInv'
<1> DEFINE handles == [i \in DOMAIN layers |->
                           IF i \in updated THEN (sf_handle[i] + 1) % Handles
                                            ELSE sf_handle[i]]
           changed == ChangedRegions(handles)
           stable == IF Squashes THEN StableRegions(changed) ELSE {}
           render == RenderSquash(stable)
           f == Frame(handles, stable, render)
<1>1. /\ layers' = layers /\ ~geometry_changed /\ pending' = Append(pending, f)
      /\ UNCHANGED screenVars
    BY DEF PlanUnchanged
<1>2. Squashes => /\ RecordHistory(handles, changed)
                  /\ squashed' = stable
                  /\ layer_refs' = layer_refs
    BY DEF PlanUnchanged
<1>3. layers \in Seq(Layer) /\ Len(layers) \in Nat /\ DOMAIN layers = 1 .. Len(layers)
    BY LayersFacts DEF IInv, ClientType
<1>4. Len(handles) = Len(layers)
    BY <1>3
<1> HIDE DEF handles
<1>5. Squashes => /\ layer_refs = [c \in Cells |-> Covering(c)]
                  /\ Len(last_handles_) = Len(layers)
    BY <1>1 DEF IInv, SquashKnows
<1>6. /\ Squashable(stable) /\ stable \subseteq Cells
      /\ \A c \in stable : layer_refs[c] = Covering(c)
    <2>1. CASE Squashes
        <3>1. stable = StableRegions(ChangedRegions(handles))
            BY <2>1
        <3>2. QED
            BY <1>4, <1>5, <2>1, <3>1, StableFacts
    <2>2. CASE ~Squashes
        BY <2>2 DEF Squashable
    <2>3. QED
        BY <2>1, <2>2
<1>7. stable # {} => Squashes /\ Len(TakeOrder) >= 3
    BY DEF Squashes
<1>8. Squashes => last_handles_' = handles
    BY <1>2, <1>4, <1>5 DEF RecordHistory
<1>9. ASSUME Squashes, NEW c \in stable, NEW i \in layer_refs[c]
      PROVE  last_handles_[i] = handles[i]
    <2>1. c \in Regions /\ c \notin changed
        BY <1>9 DEF StableRegions
    <2>2. changed = {d \in Regions : \E m \in layer_refs[d] :
                         layers[m].protected \/ last_handles_[m] # handles[m]}
        BY <1>4, <1>5, <1>9 DEF ChangedRegions
    <2>3. QED
        BY <1>9, <2>1, <2>2
<1>10. render \in BOOLEAN /\ (render <=> stable # squashed)
    BY DEF RenderSquash
<1> HIDE DEF stable, changed, render
<1>11. /\ f.layers = layers /\ f.handles = handles /\ f.plan = Assign(stable)
       /\ Renders(f) <=> render /\ stable # {}
       /\ Renders(f) => Drawing(f) = Wanted(handles, stable)
    BY <1>6, <1>10, FrameFields
<1> HIDE DEF f
<1>12. stable # {} => Wanted(last_handles_, stable) = Wanted(handles, stable)
    <2> SUFFICES ASSUME stable # {}
                 PROVE  Wanted(last_handles_, stable) = Wanted(handles, stable)
        OBVIOUS
    <2>1. ASSUME NEW c \in Cells
          PROVE  (IF c \in stable THEN {<<i, last_handles_[i]>> : i \in layer_refs[c]} ELSE {})
               = (IF c \in stable THEN {<<i, handles[i]>> : i \in layer_refs[c]} ELSE {})
        BY <1>7, <1>9
    <2>2. QED
        BY <2>1, Zenon DEF Wanted
<1>13. ASSUME stable # {}, ~Renders(f)
       PROVE  LeftWith(squash_buffer, squash_missed, pending, Wanted(handles, stable))
    <2>1. stable = squashed /\ Squashes
        BY <1>7, <1>10, <1>11, <1>13
    <2>2. QED
        BY <1>12, <1>13, <2>1 DEF PicInv
<1>14. ASSUME ~HasProtected(f), NEW buffer,
              stable # {} => buffer = Wanted(handles, stable)
       PROVE  RightWith(buffer, f)
    <2>1. \A i \in DOMAIN layers : ~layers[i].protected
        BY <1>11, <1>14 DEF HasProtected
    <2>2. stable # {} => buffer = Wanted(f.handles, stable)
        BY <1>11, <1>14
    <2>3. QED
        BY <1>3, <1>6, <1>7, <1>11, <2>1, <2>2, FramePicture
<1>15. PICK D : pending \in Seq(D)
    BY PendingSeq
<1>16. FitsAfter(f, pending, squash_buffer, squash_missed)
    <2> SUFFICES ASSUME ~HasProtected(f)
                 PROVE  IF Renders(f) THEN RightWith(Drawing(f), f)
                        ELSE \A j \in 0 .. Len(pending) :
                                 Reaches(squash_missed, pending, j, Len(pending)) =>
                                     RightWith(Holds(squash_buffer, pending, j), f)
        BY DEF FitsAfter
    <2>1. CASE Renders(f)
        BY <1>11, <1>14, <2>1
    <2>2. ASSUME ~Renders(f), NEW j \in 0 .. Len(pending),
                 Reaches(squash_missed, pending, j, Len(pending))
          PROVE  RightWith(Holds(squash_buffer, pending, j), f)
        <3>1. stable # {} => Holds(squash_buffer, pending, j) = Wanted(handles, stable)
            BY <1>13, <2>2 DEF LeftWith
        <3>2. QED
            BY <1>14, <3>1
    <2>3. QED
        BY <2>1, <2>2
<1>17. Renders(f) => f.plan.used = <<>> \/ f.plan.regions
    BY <1>3, <1>6, <1>11, RegionsFacts
<1>18. IsAppend(Append(pending, f), pending, f)
    BY <1>15, AppendIs
<1>19. /\ PicturesRight(squash_buffer, squash_missed, Append(pending, f))
       /\ RendersAndShows(Append(pending, f))
       /\ stable # {} => LeftWith(squash_buffer, squash_missed, Append(pending, f),
                                  Wanted(handles, stable))
    <2> DEFINE t == Append(pending, f)
    <2> HIDE DEF t
    <2>1. IsAppend(t, pending, f)
        BY <1>18 DEF t
    <2>2. PicturesRight(squash_buffer, squash_missed, t) /\ RendersAndShows(t)
        BY <1>16, <1>17, <2>1, PicturesAppend DEF PicInv
    <2>3. stable # {} => LeftWith(squash_buffer, squash_missed, t, Wanted(handles, stable))
        <3>1. CASE Renders(f)
            BY <1>11, <2>1, <3>1, PicturesAppend
        <3>2. CASE ~Renders(f)
            BY <1>13, <2>1, <3>2, PicturesAppend
        <3>3. QED
            BY <3>1, <3>2
    <2>4. QED
        BY <2>2, <2>3 DEF t
<1>20. squash_buffer' = squash_buffer /\ squash_missed' = squash_missed /\ shown' = shown
    BY <1>1 DEF screenVars
<1>21. PicturesRight(squash_buffer', squash_missed', pending') /\ RendersAndShows(pending')
    BY <1>1, <1>19, <1>20
<1>22. PictureRight'
    BY <1>20 DEF PicInv, PictureRight
<1>23. Squashes' = Squashes
    BY DEF Squashes, TakeOrder, Usable
<1>24. Squashes => squashed' = stable
                   /\ Wanted(last_handles_, squashed)' = Wanted(handles, stable)
    BY <1>2, <1>8 DEF Wanted
<1>25. Squashes' /\ squashed' # {} =>
           LeftWith(squash_buffer', squash_missed', pending', Wanted(last_handles_, squashed)')
    BY <1>1, <1>19, <1>20, <1>23, <1>24
<1>26. QED
    BY <1>21, <1>22, <1>25 DEF PicInv

\* The first frame is shown, or fails; a frame that fails rendered nothing.
LEMMA ShowPicture ==
    ASSUME IInv, PicInv, Show
    PROVE  PicInv'
<1> DEFINE f == pending[1]
<1>1. /\ pending # <<>> /\ pending' = Tail(pending) /\ UNCHANGED squashVars
      /\ squash_buffer' = IF Renders(Head(pending)) THEN Drawing(Head(pending))
                          ELSE squash_buffer
      /\ squash_missed' = (squash_missed /\ ~Renders(Head(pending)))
      /\ IF Head(pending).plan.used # <<>> /\ ~Head(pending).plan.regions
         THEN shown' = shown
         ELSE shown' = [layers |-> Head(pending).layers, handles |-> Head(pending).handles,
                        plan |-> Head(pending).plan]
    BY DEF Show, Renders, Drawing
<1>2. PICK D : pending \in Seq(D)
    BY PendingSeq
<1>3. Head(pending) = f /\ Len(pending) \in Nat \ {0} /\ IsTail(Tail(pending), pending)
    BY <1>1, <1>2 DEF IsTail
<1> HIDE DEF f
<1>4. HeadGoes(pending[1], squash_buffer, squash_missed, squash_buffer', squash_missed')
    <2>1. squash_missed \in BOOLEAN
        BY DEF IInv, ScreenType
    <2>2. CASE Renders(f)
        BY <1>1, <1>3, <2>2 DEF HeadGoes, f
    <2>3. CASE ~Renders(f)
        BY <1>1, <1>3, <2>1, <2>3 DEF HeadGoes, f
    <2>4. QED
        BY <2>2, <2>3
<1>5. /\ PicturesRight(squash_buffer', squash_missed', Tail(pending))
      /\ RendersAndShows(Tail(pending))
      /\ \A content : LeftWith(squash_buffer, squash_missed, pending, content) =>
             LeftWith(squash_buffer', squash_missed', Tail(pending), content)
    BY <1>3, <1>4, PicturesTail DEF PicInv
<1>6. PictureRight'
    <2>1. CASE f.plan.used # <<>> /\ ~f.plan.regions
        <3>1. ~Renders(f)
            BY <1>3, <2>1 DEF PicInv, RendersAndShows, f
        <3>2. shown' = shown /\ squash_buffer' = squash_buffer
              /\ (squash_missed => squash_missed')
            BY <1>1, <1>3, <2>1, <3>1
        <3>3. QED
            BY <3>2 DEF PicInv, PictureRight
    <2>2. CASE ~(f.plan.used # <<>> /\ ~f.plan.regions)
        <3>1. shown' = [layers |-> f.layers, handles |-> f.handles, plan |-> f.plan]
            BY <1>1, <1>3, <2>2
        <3>2. shown'.layers = f.layers /\ shown'.handles = f.handles /\ shown'.plan = f.plan
            BY <3>1
        <3>3. ASSUME ~HasProtected(shown'), ~squash_missed'
              PROVE  RightWith(squash_buffer', shown')
            <4>1. ~HasProtected(f)
                BY <3>2, <3>3 DEF HasProtected
            <4>2. RightWith(squash_buffer', f)
                <5>1. CASE Renders(f)
                    <6>1. Reaches(squash_missed, pending, 1, 1)
                        BY <5>1 DEF Reaches, f
                    <6>2. Holds(squash_buffer, pending, 1) = squash_buffer'
                        BY <1>1, <1>3, <5>1 DEF Holds, f
                    <6>3. 1 \in 1 .. Len(pending) /\ 1 \in 0 .. 1
                        BY <1>3
                    <6>4. QED
                        BY <4>1, <6>1, <6>2, <6>3 DEF PicInv, PicturesRight, f
                <5>2. CASE ~Renders(f)
                    <6>1. ~squash_missed /\ squash_buffer' = squash_buffer
                        BY <1>1, <1>3, <3>3, <5>2
                    <6>2. Reaches(squash_missed, pending, 0, 1)
                        BY <5>2, <6>1 DEF Reaches, f
                    <6>3. Holds(squash_buffer, pending, 0) = squash_buffer'
                        BY <6>1 DEF Holds
                    <6>4. 1 \in 1 .. Len(pending) /\ 0 \in 0 .. 1
                        BY <1>3
                    <6>5. QED
                        BY <4>1, <6>2, <6>3, <6>4 DEF PicInv, PicturesRight, f
                <5>3. QED
                    BY <5>1, <5>2
            <4>3. QED
                BY <3>2, <4>2, SamePicture
        <3>4. QED
            BY <3>3 DEF PictureRight
    <2>3. QED
        BY <2>1, <2>2
<1>7. Squashes' = Squashes
    BY DEF Squashes, TakeOrder, Usable
<1>8. Wanted(last_handles_, squashed)' = Wanted(last_handles_, squashed)
      /\ squashed' = squashed
    BY <1>1 DEF Wanted, squashVars
<1>9. Squashes' /\ squashed' # {} =>
          LeftWith(squash_buffer', squash_missed', pending', Wanted(last_handles_, squashed)')
    BY <1>1, <1>5, <1>7, <1>8 DEF PicInv
<1>10. PicturesRight(squash_buffer', squash_missed', pending') /\ RendersAndShows(pending')
    BY <1>1, <1>5
<1>11. QED
    BY <1>6, <1>9, <1>10 DEF PicInv

\* The first frame is dropped: unless it was to render, all stays as it was.
LEMMA DropPicture ==
    ASSUME IInv, PicInv, Drop
    PROVE  PicInv'
<1> DEFINE f == pending[1]
<1>1. /\ pending # <<>> /\ pending' = Tail(pending) /\ UNCHANGED squashVars
      /\ squash_buffer' = squash_buffer /\ shown' = shown
      /\ squash_missed' = (squash_missed \/ Renders(Head(pending)))
    BY DEF Drop, Renders
<1>2. PICK D : pending \in Seq(D)
    BY PendingSeq
<1>3. Head(pending) = f /\ Len(pending) \in Nat \ {0} /\ IsTail(Tail(pending), pending)
    BY <1>1, <1>2 DEF IsTail
<1> HIDE DEF f
<1>4. HeadGoes(pending[1], squash_buffer, squash_missed, squash_buffer', squash_missed')
    <2>1. squash_missed \in BOOLEAN
        BY DEF IInv, ScreenType
    <2>2. CASE Renders(f)
        BY <1>1, <1>3, <2>2 DEF HeadGoes, f
    <2>3. CASE ~Renders(f)
        BY <1>1, <1>3, <2>1, <2>3 DEF HeadGoes, f
    <2>4. QED
        BY <2>2, <2>3
<1>5. /\ PicturesRight(squash_buffer', squash_missed', Tail(pending))
      /\ RendersAndShows(Tail(pending))
      /\ \A content : LeftWith(squash_buffer, squash_missed, pending, content) =>
             LeftWith(squash_buffer', squash_missed', Tail(pending), content)
    BY <1>3, <1>4, PicturesTail DEF PicInv
<1>6. PictureRight'
    BY <1>1 DEF PicInv, PictureRight
<1>7. Squashes' = Squashes
    BY DEF Squashes, TakeOrder, Usable
<1>8. Wanted(last_handles_, squashed)' = Wanted(last_handles_, squashed)
      /\ squashed' = squashed
    BY <1>1 DEF Wanted, squashVars
<1>9. Squashes' /\ squashed' # {} =>
          LeftWith(squash_buffer', squash_missed', pending', Wanted(last_handles_, squashed)')
    BY <1>1, <1>5, <1>7, <1>8 DEF PicInv
<1>10. PicturesRight(squash_buffer', squash_missed', pending') /\ RendersAndShows(pending')
    BY <1>1, <1>5
<1>11. QED
    BY <1>6, <1>9, <1>10 DEF PicInv

\* Without protected layers the screen shows every layer with its present
\* buffer, each once and in order, for any layers, planes, history and number
\* of frames that wait, unless the frame that was to render the squash
\* framebuffer was dropped.
THEOREM PictureAlwaysRight == Spec => []PictureRight
<1>1. IInv /\ PicInv /\ [Next]_vars => PicInv'
    <2> SUFFICES ASSUME IInv, PicInv, [Next]_vars PROVE PicInv'
        OBVIOUS
    <2>1. ASSUME NEW g \in Geometries, SetGeometry(g) PROVE PicInv'
        BY <2>1, GeometryPicture DEF SetGeometry
    <2>2. CASE PlanChanged
        BY <2>2, ChangedPicture
    <2>3. ASSUME NEW updated \in SUBSET DOMAIN layers, PlanUnchanged(updated)
          PROVE  PicInv'
        BY <2>3, UnchangedPicture
    <2>4. CASE Show
        BY <2>4, ShowPicture
    <2>5. CASE Drop
        BY <2>5, DropPicture
    <2>6. CASE UNCHANGED vars
        BY <2>6, GeometryPicture DEF vars
    <2>7. QED
        BY <2>1, <2>2, <2>3, <2>4, <2>5, <2>6 DEF Next
<1>2. PicInv => PictureRight
    BY DEF PicInv
<1>3. QED
    BY <1>1, <1>2, InitPicture, AlwaysIInv, PTL DEF Spec

-----------------------------------------------------------------------------
(***************************************************************************)
(* What FramePipeline assumes of a plan.                                   *)
(***************************************************************************)
\* Without a stable region no plane shows the squash framebuffer.
LEMMA NothingStable ==
    ASSUME layers \in Seq(Layer)
    PROVE  Squash \notin ToSet(Assign({}).sources)
<1> DEFINE protected == ProtectedLayers
           all == DOMAIN layers \ protected
           left == Len(TakeOrder) - Cardinality(protected)
           remaining == Ascending(all)
           n == Len(remaining)
           planes == KeepForPreComp(n, left)
           hw == Min2(n, planes)
           first == SubSeq(remaining, 1, hw)
           used == SubSeq(remaining, hw + 1, n)
           own == protected \cup ToSet(first)
           pre == IF used = <<>> THEN <<>> ELSE <<PreComp>>
<1>1. DOMAIN layers = 1 .. Len(layers) /\ Len(layers) \in Nat /\ IsFiniteSet(1 .. Len(layers))
    BY FS_Interval
<1>2. protected \subseteq Nat /\ IsFiniteSet(protected) /\ left \in Nat
    <2>1. protected \subseteq DOMAIN layers /\ IsFiniteSet(protected)
          /\ Cardinality(protected) \in 0 .. Len(TakeOrder) /\ Len(TakeOrder) \in Nat
        BY ProtectedFacts, TakeOrderFacts
    <2>2. QED
        BY <1>1, <2>1
<1>3. all \subseteq Nat /\ IsFiniteSet(all)
    <2>1. all \subseteq 1 .. Len(layers)
        BY <1>1
    <2>2. QED
        BY <1>1, <2>1, FS_Subset
<1>4. \/ Assign({}).sources = Ascending(protected)
      \/ Assign({}).sources = (Ascending(own) \o pre) \o <<>>
    BY DEF Assign
<1> HIDE DEF protected, all, left
<1>5. remaining \in Seq(all) /\ n \in Nat
    BY <1>3, AscendingFacts
<1> HIDE DEF remaining
<1>6. hw \in 0 .. n
    <2>1. planes \in Nat
        BY <1>2, <1>5 DEF KeepForPreComp, Dec, SizeMax
    <2>2. QED
        BY <1>5, <2>1 DEF Min2
<1> HIDE DEF hw
<1>7. first \in Seq(all)
    BY <1>5, <1>6
<1>8. ToSet(first) \subseteq all /\ IsFiniteSet(ToSet(first))
    BY <1>7, ToSetFacts
<1> HIDE DEF first, used
<1>9. own \subseteq Nat /\ IsFiniteSet(own)
    BY <1>2, <1>3, <1>8, FS_Union
<1> HIDE DEF own
<1>10. \A S \in {protected, own} : Ascending(S) \in Seq(Nat)
    <2> SUFFICES ASSUME NEW S \in {protected, own} PROVE Ascending(S) \in Seq(Nat)
        OBVIOUS
    <2>1. S \subseteq Nat /\ IsFiniteSet(S)
        BY <1>2, <1>9
    <2> DEFINE a == Ascending(S)
    <2>2. a \in Seq(S)
        BY <2>1, AscendingFacts
    <2> HIDE DEF a
    <2>3. a \in [1 .. Len(a) -> S] /\ Len(a) \in Nat
        BY <2>2
    <2>4. a \in [1 .. Len(a) -> Nat]
        BY <2>1, <2>3
    <2>5. a \in Seq(Nat)
        BY <2>3, <2>4
    <2>6. QED
        BY <2>5 DEF a
<1>11. pre \in Seq(Nat)
    BY DEF PreComp
<1> HIDE DEF pre
<1>12. Ascending(own) \o pre \in Seq(Nat)
    BY <1>10, <1>11
<1>13. (Ascending(own) \o pre) \o <<>> \in Seq(Nat)
    BY <1>12
<1>14. Assign({}).sources \in Seq(Nat)
    BY <1>4, <1>10, <1>13
<1>15. ToSet(Assign({}).sources) \subseteq Nat
    BY <1>14, ToSetFacts
<1>16. QED
    BY <1>15 DEF Squash

\* A frame with new layers leaves the squash framebuffer alone.
ChangedLeavesSquash ==
    geometry_changed /\ Len(pending') > Len(pending) =>
        LET f == pending'[Len(pending')] IN
        /\ ~Renders(f)
        /\ Squash \notin ToSet(f.plan.sources)

\* A frame planned after its layers changed neither renders nor shows the
\* squash framebuffer, whatever was squashed before: this is what
\* FramePipeline assumes of plans.
THEOREM PlansAsAssumed == Spec => [][ChangedLeavesSquash]_vars
<1>1. IInv /\ [Next]_vars => [ChangedLeavesSquash]_vars
    <2> SUFFICES ASSUME IInv, Next, geometry_changed, Len(pending') > Len(pending)
                 PROVE  LET f == pending'[Len(pending')]
                        IN  ~Renders(f) /\ Squash \notin ToSet(f.plan.sources)
        BY DEF ChangedLeavesSquash
    <2>1. PICK D : pending \in Seq(D)
        BY PendingSeq
    <2>2. ~ \E g \in Geometries : SetGeometry(g)
        BY <2>1 DEF SetGeometry
    <2>3. ~Show /\ ~Drop
        <3>1. pending # <<>> => Len(Tail(pending)) = Len(pending) - 1 /\ Len(pending) \in Nat
            BY <2>1
        <3>2. QED
            BY <3>1 DEF Show, Drop
    <2>4. PlanChanged
        BY <2>2, <2>3 DEF Next, PlanUnchanged
    <2> DEFINE g(render) == Frame(sf_handle, {}, render)
    <2>5. pending' = Append(pending, g(FALSE))
        BY <2>4 DEF PlanChanged
    <2>6. \A render \in BOOLEAN : /\ g(render).plan = Assign({})
                                  /\ ~Renders(g(render))
        BY FrameFields
    <2> HIDE DEF g
    <2>7. pending'[Len(pending')] = g(FALSE)
        <3>1. IsAppend(Append(pending, g(FALSE)), pending, g(FALSE))
            BY <2>1, AppendIs
        <3>2. QED
            BY <2>5, <3>1 DEF IsAppend
    <2>8. layers \in Seq(Layer)
        BY LayersFacts DEF IInv, ClientType
    <2>9. QED
        BY <2>6, <2>7, <2>8, NothingStable
<1>2. QED
    BY <1>1, AlwaysIInv, PTL DEF Spec

=============================================================================
