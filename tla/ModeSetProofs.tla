--------------------------- MODULE ModeSetProofs ---------------------------
(***************************************************************************)
(* Safety of ModeSet for any modes, any monitors, any number of events,    *)
(* calls and frames.                                                       *)
(***************************************************************************)
EXTENDS ModeSet, FiniteSetTheorems, WellFoundedInduction, TLAPS

\* The first of some positions in modes_ is one of them.
LEMMA MinOfIndices ==
    ASSUME NEW S, S \subseteq Nat, S # {}
    PROVE  Min(S) \in S
<1> DEFINE R == {ss \in Nat \X Nat : ss[1] < ss[2]}
<1>1. IsWellFoundedOn(R, Nat)
  BY NatLessThanWellFounded DEF OpToRel
<1>2. PICK x \in S : \A y \in S : ~ (<<y, x>> \in R)
  BY <1>1, WFMin
<1>3. ASSUME NEW y \in S PROVE x <= y
  <2>1. ~ (y < x)
    BY <1>2, <1>3
  <2>. QED
    BY <2>1
<1>. QED
  BY <1>3 DEF Min

\* The kernel gives a blob an id that no live blob has.
LEMMA FreshBlob ==
    ASSUME NEW f, IsFiniteSet(DOMAIN f)
    PROVE  FreeBlob(f) \in Nat \ {0} /\ FreeBlob(f) \notin DOMAIN f
<1> DEFINE n == Cardinality(DOMAIN f)
<1>1. n \in Nat
  BY FS_CardinalityType
<1>2. Cardinality(1 .. n + 1) = n + 1
  BY <1>1, FS_Interval
<1>3. ~ (1 .. n + 1 \subseteq DOMAIN f)
  BY <1>1, <1>2, FS_Subset
<1>. QED
  BY <1>1, <1>3 DEF FreeBlob

-----------------------------------------------------------------------------
(***************************************************************************)
(* Types.  A mode that is queued is a mode the connector had, so it has a  *)
(* timing; the frame worker holds a frame while it commits.                *)
(***************************************************************************)
KnownMode == [id : Nat, timing : Timings]
Queueable ==
    [type : {"MODESET"}, mode : KnownMode]
        \cup [type : {"DPMS_ON", "DPMS_OFF", "FRAME"}, mode : {NoMode}]

UpdateOfKnown ==
    [at : {"idle", "asked", "failed", "listed", "named"}, old : BOOLEAN,
     list : ModeLists \cup {<<>>}, modes : Seq(KnownMode)]

ConnectorType ==
    /\ k_list \in ModeLists \cup {<<>>}
    /\ plugs \in 0 .. MaxPlugs
    /\ uevents \in 0 .. plugs
    /\ state_ \in BOOLEAN
    /\ mode_id_ \in Nat
    /\ modes_ \in Seq(KnownMode)
    /\ update \in [Threads -> UpdateOfKnown]

HalType ==
    /\ config_ids \in Seq(Nat)
    /\ reported \in Seq(Timings)
    /\ Len(config_ids) = Len(reported)
    /\ registered \in BOOLEAN

QueueType ==
    /\ queueing \in [Threads -> Seq(Queueable)]
    /\ entered \subseteq Threads
    /\ \A t \in entered : queueing[t] # <<>>
    /\ \A t \in Threads : update[t].at # "idle" => queueing[t] = <<>>
    /\ active_ \in BOOLEAN
    /\ composite_queue_ \in Seq(Queueable)
    /\ Len(composite_queue_) <= MaxQueueDepth
    /\ wanted \in Timings \cup {0}

CommitType ==
    /\ IsFiniteSet(DOMAIN k_blobs)
    /\ DOMAIN k_blobs \subseteq Nat \ {0}
    /\ \A b \in DOMAIN k_blobs : k_blobs[b] \in Timings
    /\ k_mode \in Timings \cup {0}
    /\ active_mode_ \in Mode
    /\ mode_ \in [needs_modeset : BOOLEAN, mode : Mode, blob_id : Nat,
                  old_blob_id : Nat]
    /\ frames \in 0 .. MaxFrames
    /\ commit \in [at : {"idle", "kernel", "committed", "recorded"},
                   modeset : BOOLEAN, blob : Nat]
    /\ commit.at # "idle" => frames > 0
    /\ faults \subseteq {"mode", "blob"}

\* The modes somebody holds: the connector, a thread in UpdateModes that has
\* not exchanged the vectors yet, and SurfaceFlinger, as configurations.
Configurations ==
    {[id |-> config_ids[i], timing |-> reported[i]] : i \in DOMAIN config_ids}
Updating == UNION {ToSet(update[t].modes) : t \in Threads}
Given == ToSet(modes_) \cup Updating \cup Configurations

\* Their ids were given, and an id has one timing.
IdsGiven ==
    \A m \in Given : /\ m.id \in 1 .. mode_id_
                     /\ \A n \in Given : m.id = n.id => m.timing = n.timing

\* The blob waiting for a commit is not the one on the screen, but between the
\* last two steps of a commit.
BlobsApart ==
    "blob" \notin faults =>
        /\ {mode_.blob_id, mode_.old_blob_id} \ {0} = DOMAIN k_blobs
        /\ IF commit.at = "recorded" THEN mode_.blob_id = mode_.old_blob_id
           ELSE mode_.blob_id = 0 \/ mode_.blob_id # mode_.old_blob_id

Typed == ConnectorType /\ HalType /\ IdsGiven /\ QueueType /\ CommitType

\* These types are at least as strong as TypeOK.
LEMMA TypedIsTypeOK == Typed => TypeOK
<1> SUFFICES ASSUME Typed PROVE TypeOK
  OBVIOUS
<1> USE DEF Typed, ConnectorType, HalType, QueueType, CommitType
<1>1. KnownMode \subseteq Mode /\ Queueable \subseteq Composition
  BY DEF KnownMode, Mode, Queueable, Composition
<1>2. \A m \in ToSet(modes_) : m \in Mode /\ m.id \in 1 .. mode_id_
  <2>1. \A m \in ToSet(modes_) : m \in Mode
    BY <1>1 DEF ToSet
  <2>. QED
    BY <2>1 DEF IdsGiven, Given
<1>6. ASSUME NEW t \in Threads
      PROVE  update[t] \in Update /\ \A m \in ToSet(update[t].modes) : m.id \in 1 .. mode_id_
  <2>1. update[t] \in UpdateOfKnown
    OBVIOUS
  <2>2. Seq(KnownMode) \subseteq Seq(Mode)
    BY <1>1
  <2>3. update[t] \in Update
    BY <2>1, <2>2 DEF UpdateOfKnown, Update
  <2>. QED
    BY <2>3 DEF IdsGiven, Given, Updating
<1>3. \A t \in Threads : ToSet(queueing[t]) \subseteq Composition
  BY <1>1 DEF ToSet
<1>4. ToSet(composite_queue_) \subseteq Composition
  BY <1>1 DEF ToSet
<1>5. uevents \in 0 .. MaxPlugs
  BY BoundAssumption
<1>. QED
  BY <1>2, <1>3, <1>4, <1>5, <1>6 DEF TypeOK

-----------------------------------------------------------------------------
\* UpdateModes gives a new mode an id nobody holds, and different new modes
\* different ids.
LEMMA UpdatedModesFacts ==
    ASSUME ConnectorType, IdsGiven, NEW list \in ModeLists \cup {<<>>},
           mode_id_' = mode_id_ + Cardinality({i \in DOMAIN list :
                           \A m \in ToSet(modes_) : m.timing # list[i]})
    PROVE  LET U == UpdatedModes(list) IN
           /\ mode_id_' \in Nat /\ mode_id_ <= mode_id_'
           /\ U \in Seq(KnownMode) /\ Len(U) = Len(list)
           /\ \A i \in DOMAIN U :
                  U[i] \in ToSet(modes_) \/ U[i].id \in mode_id_ + 1 .. mode_id_'
           /\ \A i, j \in DOMAIN U : U[i].id = U[j].id => U[i].timing = U[j].timing
<1> DEFINE Known(i) == \E m \in ToSet(modes_) : m.timing = list[i]
           U == UpdatedModes(list)
           New == {i \in DOMAIN list : ~Known(i)}
           NewUpTo(i) == {j \in 1 .. i : ~Known(j)}
           Old(i) == CHOOSE m \in ToSet(modes_) : m.timing = list[i]
<1>1. list \in Seq(Timings)
  <2>1. <<>> \in Seq(Timings)
    OBVIOUS
  <2>. QED
    BY <2>1, ModeListAssumption
<1>2. DOMAIN list = 1 .. Len(list) /\ Len(list) \in Nat
  BY <1>1
<1>3. IsFiniteSet(New) /\ Cardinality(New) \in Nat
  <2>1. IsFiniteSet(DOMAIN list)
    BY <1>2, FS_Interval
  <2>. QED
    BY <2>1, FS_Subset, FS_CardinalityType
<1>4. mode_id_' = mode_id_ + Cardinality(New)
  <2>1. New = {i \in DOMAIN list : \A m \in ToSet(modes_) : m.timing # list[i]}
    OBVIOUS
  <2>. QED
    BY <2>1
<1>5. U = [i \in DOMAIN list |->
                    IF Known(i) THEN Old(i)
                    ELSE [id |-> mode_id_ + Cardinality(NewUpTo(i)), timing |-> list[i]]]
  BY DEF UpdatedModes
<1>6. \A i \in DOMAIN list : Known(i) => Old(i) \in ToSet(modes_) /\ Old(i).timing = list[i]
  OBVIOUS
<1>7. \A i \in DOMAIN list : NewUpTo(i) \subseteq New /\ (~Known(i) => i \in NewUpTo(i))
  BY <1>2
<1>8. \A i, j \in DOMAIN list :
          i < j /\ ~Known(j) => NewUpTo(i) \subseteq NewUpTo(j) /\ j \in NewUpTo(j) \ NewUpTo(i)
  BY <1>2
<1> HIDE DEF Known, New, NewUpTo, Old, U
<1>9. ASSUME NEW i \in DOMAIN list
      PROVE  /\ IsFiniteSet(NewUpTo(i))
             /\ Cardinality(NewUpTo(i)) \in 0 .. Cardinality(New)
             /\ ~Known(i) => Cardinality(NewUpTo(i)) > 0
  <2>1. IsFiniteSet(NewUpTo(i)) /\ Cardinality(NewUpTo(i)) <= Cardinality(New)
    BY <1>3, <1>7, FS_Subset
  <2>2. Cardinality(NewUpTo(i)) \in Nat
    BY <2>1, FS_CardinalityType
  <2>3. Cardinality(NewUpTo(i)) = 0 => NewUpTo(i) = {}
    BY <2>1, FS_EmptySet
  <2>. QED
    BY <1>3, <1>7, <2>1, <2>2, <2>3
<1>10. ASSUME NEW i \in DOMAIN list, NEW j \in DOMAIN list, ~Known(j), i < j
       PROVE  Cardinality(NewUpTo(i)) # Cardinality(NewUpTo(j))
  <2>1. NewUpTo(i) \in SUBSET NewUpTo(j) /\ NewUpTo(i) # NewUpTo(j)
    BY <1>8, <1>10
  <2>. QED
    BY <2>1, <1>9, FS_Subset
<1>11. \A m \in ToSet(modes_) : m \in KnownMode /\ m.id \in 1 .. mode_id_
  <2>1. \A m \in ToSet(modes_) : m \in KnownMode
    BY DEF ConnectorType, ToSet
  <2>. QED
    BY <2>1 DEF IdsGiven, Given
<1>12. mode_id_ \in Nat /\ mode_id_' \in Nat /\ mode_id_ <= mode_id_'
  BY <1>3, <1>4 DEF ConnectorType
<1>13. ASSUME NEW i \in DOMAIN list, Known(i)
       PROVE  U[i] \in ToSet(modes_) /\ U[i].timing = list[i]
  BY <1>5, <1>6, <1>13
<1>14. ASSUME NEW i \in DOMAIN list, ~Known(i)
       PROVE  /\ U[i].id = mode_id_ + Cardinality(NewUpTo(i))
              /\ U[i].id \in mode_id_ + 1 .. mode_id_'
              /\ U[i] \in KnownMode
  <2>1. U[i] = [id |-> mode_id_ + Cardinality(NewUpTo(i)), timing |-> list[i]]
    BY <1>5, <1>14
  <2>2. mode_id_ + Cardinality(NewUpTo(i)) \in mode_id_ + 1 .. mode_id_'
    BY <1>3, <1>4, <1>9, <1>12, <1>14
  <2>3. mode_id_ + Cardinality(NewUpTo(i)) \in Nat /\ list[i] \in Timings
    BY <1>1, <1>2, <1>12, <2>2
  <2>. QED
    BY <2>1, <2>2, <2>3 DEF KnownMode
<1>15. U \in Seq(KnownMode) /\ Len(U) = Len(list)
  <2>1. U \in [1 .. Len(list) -> KnownMode]
    BY <1>2, <1>5, <1>11, <1>13, <1>14
  <2>. QED
    BY <1>2, <2>1
<1>16. ASSUME NEW i \in DOMAIN list, NEW j \in DOMAIN list,
              U[i].id = U[j].id
       PROVE  U[i].timing = U[j].timing
  <2>1. CASE Known(i) /\ Known(j)
    BY <1>13, <1>16, <2>1 DEF IdsGiven, Given
  <2>2. CASE (Known(i) /\ ~Known(j)) \/ (~Known(i) /\ Known(j))
    BY <1>11, <1>12, <1>13, <1>14, <1>16, <2>2
  <2>3. CASE ~Known(i) /\ ~Known(j)
    <3>1. Cardinality(NewUpTo(i)) = Cardinality(NewUpTo(j))
      BY <1>9, <1>12, <1>14, <1>16, <2>3
    <3>2. i = j
      BY <1>2, <1>10, <2>3, <3>1
    <3>. QED
      BY <3>2
  <2>. QED
    BY <2>1, <2>2, <2>3
<1>17. \A i \in DOMAIN list : U[i] \in ToSet(modes_)
                                   \/ U[i].id \in mode_id_ + 1 .. mode_id_'
  BY <1>13, <1>14
<1>. QED
  BY <1>5, <1>12, <1>15, <1>16, <1>17 DEF U

-----------------------------------------------------------------------------
(***************************************************************************)
(* The connector's modes and the configurations.                           *)
(***************************************************************************)
Configs == ConnectorType /\ HalType /\ IdsGiven

\* Passing on modes that somebody holds, or forgetting them, keeps the ids.
LEMMA GivenShrinks ==
    ASSUME IdsGiven, Given' \subseteq Given, UNCHANGED mode_id_
    PROVE  IdsGiven'
  BY DEF IdsGiven

\* Naming the modes of a new list keeps the ids, whatever the other thread has
\* done since the kernel gave the list.
LEMMA NamingKeepsIds ==
    ASSUME Configs, NEW t \in Threads, NameModes(t)
    PROVE  Configs'
<1> DEFINE list == update[t].list
           U == UpdatedModes(list)
<1>1. list \in ModeLists \cup {<<>>}
  BY DEF Configs, ConnectorType, UpdateOfKnown
<1>2. mode_id_' = mode_id_ + Cardinality({i \in DOMAIN list :
                      \A m \in ToSet(modes_) : m.timing # list[i]})
  BY DEF NameModes
<1>3. /\ mode_id_' \in Nat /\ mode_id_ <= mode_id_' /\ U \in Seq(KnownMode)
      /\ \A i \in DOMAIN U :
             U[i] \in ToSet(modes_) \/ U[i].id \in mode_id_ + 1 .. mode_id_'
      /\ \A i, j \in DOMAIN U : U[i].id = U[j].id => U[i].timing = U[j].timing
  BY <1>1, <1>2, UpdatedModesFacts DEF Configs
<1>4. update' = [update EXCEPT ![t].at = "named", ![t].list = <<>>, ![t].modes = U]
  BY DEF NameModes
<1>5. UNCHANGED <<kernelVars, state_, modes_, config_ids, reported, registered>>
  BY DEF NameModes, halVars
<1> HIDE DEF list, U
<1>6. ConnectorType'
  <2>1. update[t] \in UpdateOfKnown
    BY DEF Configs, ConnectorType
  <2>2. [update[t] EXCEPT !.at = "named", !.list = <<>>, !.modes = U] \in UpdateOfKnown
    BY <1>3, <2>1 DEF UpdateOfKnown
  <2>3. update' = [update EXCEPT ![t] =
                      [update[t] EXCEPT !.at = "named", !.list = <<>>, !.modes = U]]
    BY <1>4 DEF Configs, ConnectorType
  <2>4. update' \in [Threads -> UpdateOfKnown]
    BY <2>2, <2>3 DEF Configs, ConnectorType
  <2>. QED
    BY <1>3, <1>5, <2>4 DEF Configs, ConnectorType, kernelVars
<1>7. HalType'
  BY <1>5 DEF Configs, HalType
<1>8. \A m \in Given' : m \in Given \/ m \in ToSet(U)
  <2>1. \A s \in Threads : update'[s].modes \in {update[s].modes, U}
    BY <1>4 DEF Configs, ConnectorType, UpdateOfKnown
  <2>. QED
    BY <1>5, <2>1 DEF Given, Updating, Configurations
<1>9. /\ ToSet(modes_) \subseteq Given
      /\ \A m \in ToSet(U) : m \in Given \/ m.id \in mode_id_ + 1 .. mode_id_'
  <2>1. ToSet(modes_) \subseteq Given
    BY DEF Given
  <2>. QED
    BY <1>3, <2>1 DEF ToSet
<1>10. \A m, n \in ToSet(U) : m.id = n.id => m.timing = n.timing
  BY <1>3 DEF ToSet
<1>11. mode_id_ \in Nat
  BY DEF Configs, ConnectorType
<1>12. IdsGiven'
  <2> SUFFICES ASSUME NEW m \in Given', NEW n \in Given'
               PROVE  m.id \in 1 .. mode_id_' /\ (m.id = n.id => m.timing = n.timing)
    BY DEF IdsGiven
  <2>1. /\ m \in Given => m.id \in 1 .. mode_id_
        /\ n \in Given => n.id \in 1 .. mode_id_
        /\ m \in Given /\ n \in Given /\ m.id = n.id => m.timing = n.timing
    BY DEF Configs, IdsGiven
  <2>2. /\ m \notin Given => m \in ToSet(U) /\ m.id \in mode_id_ + 1 .. mode_id_'
        /\ n \notin Given => n \in ToSet(U) /\ n.id \in mode_id_ + 1 .. mode_id_'
    BY <1>8, <1>9
  <2>. QED
    BY <1>3, <1>10, <1>11, <2>1, <2>2
<1>. QED
  BY <1>6, <1>7, <1>12 DEF Configs

\* Exchanging the vectors takes modes somebody holds.
LEMMA SwapFacts ==
    ASSUME ConnectorType, NEW t \in Threads, SwapModes(t)
    PROVE  /\ modes_' \in Seq(KnownMode) /\ update' \in [Threads -> UpdateOfKnown]
           /\ ToSet(modes_') \subseteq Given
           /\ \A s \in Threads : ToSet(update'[s].modes) \subseteq ToSet(update[s].modes)
<1>1. modes_' \in {modes_, update[t].modes}
  BY DEF SwapModes
<1>2. NoUpdate \in UpdateOfKnown /\ NoUpdate.modes = <<>>
  BY DEF NoUpdate, UpdateOfKnown
<1>3. update' = [update EXCEPT ![t] = NoUpdate]
  BY DEF SwapModes
<1>4. update' \in [Threads -> UpdateOfKnown]
  BY <1>2, <1>3 DEF ConnectorType
<1>5. modes_' \in Seq(KnownMode)
  <2>1. modes_ \in Seq(KnownMode) /\ update[t] \in UpdateOfKnown
    BY DEF ConnectorType
  <2>. QED
    BY <1>1, <2>1 DEF UpdateOfKnown
<1>6. ToSet(modes_') \subseteq Given
  BY <1>1 DEF Given, Updating
<1>7. \A s \in Threads : ToSet(update'[s].modes) \subseteq ToSet(update[s].modes)
  <2>1. \A s \in Threads : update'[s] \in {update[s], NoUpdate}
    BY <1>3 DEF ConnectorType
  <2>2. ToSet(<<>>) = {}
    BY DEF ToSet
  <2>. QED
    BY <1>2, <2>1, <2>2
<1>. QED
  BY <1>4, <1>5, <1>6, <1>7

\* The configurations handed out are modes of the connector.
LEMMA GetDisplayConfigsFacts ==
    ASSUME Configs, GetDisplayConfigsEnds
    PROVE  Configs'
<1> DEFINE n == IF queries = 0 THEN 1 ELSE Cardinality(Timings)
           count == IF Len(modes_') < n THEN Len(modes_') ELSE n
<1>1. /\ modes_' \in Seq(KnownMode) /\ update' \in [Threads -> UpdateOfKnown]
      /\ ToSet(modes_') \subseteq Given
      /\ \A s \in Threads : ToSet(update'[s].modes) \subseteq ToSet(update[s].modes)
  BY SwapFacts DEF GetDisplayConfigsEnds, Configs, Threads
<1>2. /\ config_ids' = [i \in 1 .. count |-> modes_'[i].id]
      /\ reported' = [i \in 1 .. count |-> modes_'[i].timing]
      /\ UNCHANGED <<kernelVars, state_, mode_id_, registered>>
  BY DEF GetDisplayConfigsEnds, SwapModes
<1>3. count \in Nat /\ 1 .. count \subseteq DOMAIN modes_'
  <2>1. n \in Nat
    BY TimingAssumption, FS_CardinalityType
  <2>. QED
    BY <1>1, <2>1
<1>4. \A i \in DOMAIN modes_' : /\ modes_'[i].id \in Nat /\ modes_'[i].timing \in Timings
                                /\ modes_'[i] = [id |-> modes_'[i].id, timing |-> modes_'[i].timing]
  <2>1. \A i \in DOMAIN modes_' : modes_'[i] \in KnownMode
    BY <1>1
  <2>. QED
    BY <2>1 DEF KnownMode
<1> HIDE DEF count, n
<1>5. ConnectorType'
  BY <1>1, <1>2 DEF Configs, ConnectorType, kernelVars
<1>6. HalType'
  <2>1. config_ids' \in [1 .. count -> Nat] /\ reported' \in [1 .. count -> Timings]
    BY <1>2, <1>3, <1>4
  <2>2. /\ config_ids' \in Seq(Nat) /\ reported' \in Seq(Timings)
        /\ Len(config_ids') = count /\ Len(reported') = count
    BY <1>3, <2>1
  <2>. QED
    BY <1>2, <2>2 DEF HalType, Configs
<1>7. Given' \subseteq Given
  <2>1. \A i \in DOMAIN config_ids' :
            [id |-> config_ids'[i], timing |-> reported'[i]] \in ToSet(modes_')
    <3>1. \A i \in 1 .. count : [id |-> config_ids'[i], timing |-> reported'[i]] = modes_'[i]
      BY <1>2, <1>3, <1>4
    <3>. QED
      BY <1>2, <1>3, <3>1 DEF ToSet
  <2>3. Configurations' \subseteq ToSet(modes_')
    BY <2>1 DEF Configurations
  <2>2. Updating' \subseteq Updating
    BY <1>1 DEF Updating
  <2>. QED
    <3>1. Given' = ToSet(modes_') \cup Updating' \cup Configurations'
      BY DEF Given
    <3>2. Updating \subseteq Given
      BY DEF Given
    <3>. QED
      BY <1>1, <2>2, <2>3, <3>1, <3>2
<1>. QED
  BY <1>2, <1>5, <1>6, <1>7, GivenShrinks DEF Configs

\* A thread that asks the kernel changes neither its modes nor anybody's.
LEMMA AskingKeepsIds ==
    ASSUME Configs, NEW t \in Threads, NEW at \in {"asked", "failed", "listed"},
           NEW old \in BOOLEAN, NEW list \in ModeLists \cup {<<>>},
           update' = [update EXCEPT ![t] = [update[t] EXCEPT !.at = at, !.old = old, !.list = list]],
           state_' \in BOOLEAN, uevents' \in 0 .. plugs,
           UNCHANGED <<k_list, plugs, modes_, mode_id_, registered>>,
           UNCHANGED <<config_ids, reported>> \/ (config_ids' = <<>> /\ reported' = <<>>)
    PROVE  Configs'
<1> USE DEF Configs
<1>1. update[t] \in UpdateOfKnown
  BY DEF ConnectorType
<1>2. /\ [update[t] EXCEPT !.at = at, !.old = old, !.list = list] \in UpdateOfKnown
      /\ [update[t] EXCEPT !.at = at, !.old = old, !.list = list].modes = update[t].modes
  BY <1>1 DEF UpdateOfKnown
<1>3. /\ update' \in [Threads -> UpdateOfKnown]
      /\ \A s \in Threads : update'[s].modes = update[s].modes
  BY <1>2 DEF ConnectorType
<1>4. ConnectorType'
  BY <1>3 DEF ConnectorType
<1>5. HalType'
  <2>1. <<>> \in Seq(Nat) /\ <<>> \in Seq(Timings) /\ Len(<<>>) = 0
    OBVIOUS
  <2>2. CASE config_ids' = <<>> /\ reported' = <<>>
    BY <2>1, <2>2 DEF HalType
  <2>3. CASE UNCHANGED <<config_ids, reported>>
    BY <2>3 DEF HalType
  <2>. QED
    BY <2>2, <2>3
<1>6. Given' \subseteq Given
  BY <1>3 DEF Given, Updating, Configurations
<1>. QED
  BY <1>4, <1>5, <1>6, GivenShrinks

\* Hotplug events and calls of the HAL keep the ids.
LEMMA StepConfigs == Configs /\ [Next]_vars => Configs'
<1> SUFFICES ASSUME Configs, [Next]_vars PROVE Configs'
  OBVIOUS
<1>1. CASE UNCHANGED <<kernelVars, connectorVars, config_ids, reported, registered>>
  BY <1>1
  DEF kernelVars, connectorVars, Configs, ConnectorType, HalType, IdsGiven, Given,
      Updating, Configurations
<1>2. ASSUME NEW list \in ModeLists \cup {<<>>}, Plug(list) PROVE Configs'
  <2>1. UNCHANGED <<connectorVars, config_ids, reported, registered>>
    BY <1>2 DEF Plug, halVars
  <2>2. k_list' = list /\ plugs' \in 0 .. MaxPlugs /\ uevents' \in 0 .. plugs'
    BY <1>2, BoundAssumption DEF Plug, Configs, ConnectorType
  <2>3. Given' \subseteq Given
    BY <2>1 DEF connectorVars, Given, Updating, Configurations
  <2>. QED
    BY <2>1, <2>2, <2>3, GivenShrinks DEF connectorVars, Configs, ConnectorType, HalType
<1>3. CASE IgnoreEvent
  <2>1. UNCHANGED <<k_list, plugs, connectorVars, config_ids, reported, registered>>
    BY <1>3 DEF IgnoreEvent, halVars
  <2>2. uevents' \in 0 .. plugs'
    BY <1>3, BoundAssumption DEF IgnoreEvent, Configs, ConnectorType
  <2>3. Given' \subseteq Given
    BY <2>1 DEF connectorVars, Given, Updating, Configurations
  <2>. QED
    BY <2>1, <2>2, <2>3, GivenShrinks DEF connectorVars, Configs, ConnectorType, HalType
<1>4. ASSUME HandleEvent \/ HandleEventListed \/ HandleEventFails \/ GetDisplayConfigs
      PROVE  Configs'
  <2>1. /\ update \in [Threads -> UpdateOfKnown] /\ {"sf", "event"} = Threads
        /\ k_list \in ModeLists \cup {<<>>} /\ state_ \in BOOLEAN
        /\ uevents \in 0 .. plugs
    BY DEF Configs, ConnectorType, Threads
  <2>2. CASE HandleEvent
    <3>1. uevents' \in 0 .. plugs
      BY <2>2, BoundAssumption DEF HandleEvent, Configs, ConnectorType
    <3>2. update["event"].list \in ModeLists \cup {<<>>}
      BY <2>1 DEF UpdateOfKnown
    <3>3. update' = [update EXCEPT !["event"] =
              [update["event"] EXCEPT !.at = "asked", !.old = state_,
                                      !.list = update["event"].list]]
      BY <2>1, <2>2 DEF HandleEvent, UpdateOfKnown
    <3>. QED
      BY <2>1, <2>2, <3>1, <3>2, <3>3, AskingKeepsIds DEF HandleEvent, halVars
  <2>3. CASE HandleEventFails
    <3>2. update["event"].list \in ModeLists \cup {<<>>} /\ update["event"].old \in BOOLEAN
      BY <2>1 DEF UpdateOfKnown
    <3>3. update' = [update EXCEPT !["event"] =
              [update["event"] EXCEPT !.at = "failed", !.old = update["event"].old,
                                      !.list = update["event"].list]]
      BY <2>1, <2>3 DEF HandleEventFails, UpdateOfKnown
    <3>. QED
      BY <2>1, <2>3, <3>2, <3>3, AskingKeepsIds DEF HandleEventFails, halVars, kernelVars
  <2>4. ASSUME NEW t \in Threads, Listed(t)
        PROVE  /\ update[t].old \in BOOLEAN /\ state_' \in BOOLEAN
               /\ update' = [update EXCEPT ![t] =
                      [update[t] EXCEPT !.at = "listed", !.old = update[t].old,
                                        !.list = k_list]]
    BY <2>1, <2>4 DEF Listed, UpdateOfKnown
  <2>5. CASE HandleEventListed
    BY <2>1, <2>4, <2>5, AskingKeepsIds DEF HandleEventListed, halVars, kernelVars
  <2>6. CASE GetDisplayConfigs
    BY <2>1, <2>4, <2>6, AskingKeepsIds DEF GetDisplayConfigs, halVars, kernelVars
  <2>. QED
    BY <1>4, <2>2, <2>3, <2>5, <2>6
<1>5. CASE HandleEventEnds
  <2>1. /\ SwapModes("event") /\ "event" \in Threads
        /\ UNCHANGED <<kernelVars, state_, mode_id_, config_ids, reported, registered>>
    BY <1>5 DEF HandleEventEnds, SwapModes, halVars, Threads
  <2>2. /\ modes_' \in Seq(KnownMode) /\ update' \in [Threads -> UpdateOfKnown]
        /\ ToSet(modes_') \subseteq Given
        /\ \A s \in Threads : ToSet(update'[s].modes) \subseteq ToSet(update[s].modes)
    BY <2>1, SwapFacts DEF Configs
  <2>3. Given' \subseteq Given
    BY <2>1, <2>2 DEF Given, Updating, Configurations
  <2>. QED
    BY <2>1, <2>2, <2>3, GivenShrinks DEF Configs, ConnectorType, HalType, kernelVars
<1>6. CASE GetDisplayConfigsFails
  <2>1. Given' \subseteq Given
    BY <1>6 DEF GetDisplayConfigsFails, connectorVars, Given, Updating, Configurations
  <2>2. ConnectorType' /\ HalType'
    BY <1>6 DEF GetDisplayConfigsFails, connectorVars, kernelVars, Configs, ConnectorType, HalType
  <2>. QED
    BY <1>6, <2>1, <2>2, GivenShrinks DEF GetDisplayConfigsFails, connectorVars, Configs
<1>7. CASE RegisterProcs
  BY <1>7
  DEF RegisterProcs, kernelVars, connectorVars, halVars, Configs, ConnectorType, HalType,
      IdsGiven, Given, Updating, Configurations
<1>8. CASE (\E i \in DOMAIN config_ids : SetActiveConfig(i))
           \/ (\E type \in {"DPMS_ON", "DPMS_OFF"} : SetPowerMode(type)) \/ SetFrame
  BY <1>1, <1>8 DEF SetActiveConfig, SetPowerMode, SetFrame, halVars
<1>9. CASE \E t \in Threads : QueueEnter(t) \/ QueuePush(t)
  BY <1>1, <1>9 DEF QueueEnter, QueuePush, halVars
<1>10. CASE CompositorWorker
  BY <1>1, <1>10 DEF CompositorWorker, CompositeFrame, CompositeDropsFrame,
                     CompositeDpms, CompositeModeset, halVars
<1>11. CASE FrameWorker
  BY <1>1, <1>11 DEF FrameWorker, CommitBegins, CommitFails, CommitSucceeds,
                     CommitSkipped, CommitReturns, CommitRecords, CommitEnds, halVars
<1>12. CASE UNCHANGED vars
  BY <1>1, <1>12 DEF vars, halVars
<1>. QED
  BY <1>2, <1>3, <1>4, <1>5, <1>6, <1>7, <1>8, <1>9, <1>10, <1>11, <1>12,
     GetDisplayConfigsFacts, NamingKeepsIds DEF Next, Sf

-----------------------------------------------------------------------------
(***************************************************************************)
(* The compositions on their way to the worker.                            *)
(***************************************************************************)
\* What a call or an event has queued is a composition.
LEMMA Queueables ==
    /\ \A m \in KnownMode : SetDisplayMode(m) \in Queueable
    /\ \A type \in {"DPMS_ON", "DPMS_OFF", "FRAME"} : Comp(type) \in Queueable
  BY DEF KnownMode, Queueable, SetDisplayMode, Comp

\* The mode the hotplug handler picks is one of the connector's.
LEMMA HotplugModeFacts ==
    ASSUME NEW modes \in Seq(KnownMode), modes # <<>>
    PROVE  HotplugMode(modes) \in KnownMode
<1> DEFINE preferred == {i \in DOMAIN modes : modes[i].timing \in Preferred}
<1>1. DOMAIN modes \subseteq Nat /\ 1 \in DOMAIN modes
  OBVIOUS
<1>2. preferred # {} => Min(preferred) \in DOMAIN modes
  BY <1>1, MinOfIndices
<1>3. \A i \in DOMAIN modes : modes[i] \in KnownMode
  OBVIOUS
<1>. QED
  BY <1>1, <1>2, <1>3 DEF HotplugMode

\* Every step keeps the queued compositions typed.
LEMMA StepQueueType == Configs /\ Configs' /\ QueueType /\ [Next]_vars => QueueType'
<1> SUFFICES ASSUME Configs, Configs', QueueType, [Next]_vars PROVE QueueType'
  OBVIOUS
<1> USE BoundAssumption DEF QueueType, Threads
<1>1. ASSUME UNCHANGED <<queueing, entered, active_, composite_queue_, wanted>>,
             \A t \in Threads : update'[t].at # "idle" => queueing[t] = <<>>
      PROVE  QueueType'
  BY <1>1
<1>2. CASE (\E list \in ModeLists \cup {<<>>} : Plug(list)) \/ IgnoreEvent
           \/ GetDisplayConfigsFails \/ RegisterProcs \/ FrameWorker \/ UNCHANGED vars
  BY <1>1, <1>2
  DEF Plug, IgnoreEvent, GetDisplayConfigsFails, RegisterProcs, FrameWorker,
      CommitBegins, CommitFails, CommitSucceeds, CommitSkipped, CommitReturns,
      CommitRecords, CommitEnds, vars, connectorVars
<1>11. CASE HandleEvent \/ HandleEventListed \/ HandleEventFails \/ GetDisplayConfigs
            \/ \E t \in Threads : NameModes(t)
  <2>1. PICK t \in Threads : /\ queueing[t] = <<>>
                             /\ \A s \in Threads \ {t} : update'[s] = update[s]
    BY <1>11
    DEF HandleEvent, HandleEventListed, HandleEventFails, GetDisplayConfigs, Listed,
        SfIdle, NameModes, Configs, ConnectorType
  <2>2. UNCHANGED <<queueing, entered, active_, composite_queue_, wanted>>
    BY <1>11
    DEF HandleEvent, HandleEventListed, HandleEventFails, GetDisplayConfigs, NameModes
  <2>. QED
    BY <1>1, <2>1, <2>2
<1>3. CASE HandleEventEnds
  <2>1. modes_' \in Seq(KnownMode) /\ (state_ /\ ~update["event"].old => modes_' # <<>>)
    BY <1>3 DEF HandleEventEnds, Configs, ConnectorType
  <2>2. update["event"].old \in BOOLEAN /\ state_ \in BOOLEAN
    BY DEF Configs, ConnectorType, UpdateOfKnown
  <2>3. queueing'["event"] \in Seq(Queueable)
    BY <1>3, <2>1, <2>2, Queueables, HotplugModeFacts DEF HandleEventEnds
  <2>4. update["event"].at # "idle" /\ update' = [update EXCEPT !["event"] = NoUpdate]
    BY <1>3 DEF HandleEventEnds, SwapModes
  <2>5. update'["event"].at = "idle" /\ update'["sf"] = update["sf"] /\ "event" \notin entered
    BY <2>4 DEF NoUpdate, Configs, ConnectorType
  <2>. QED
    BY <1>3, <2>3, <2>5 DEF HandleEventEnds
<1>4. CASE GetDisplayConfigsEnds
  <2>1. modes_' \in Seq(KnownMode)
    BY DEF Configs, ConnectorType
  <2>2. modes_' # <<>> => modes_'[1] \in KnownMode
    BY <2>1
  <2>3. queueing'["sf"] \in Seq(Queueable)
    <3>1. SetInitialConfig(modes_') \in Seq(Queueable)
      BY <2>2, Queueables DEF SetInitialConfig
    <3>2. <<>> \in Seq(Queueable)
      OBVIOUS
    <3>. QED
      BY <1>4, <3>1, <3>2 DEF GetDisplayConfigsEnds
  <2>4. update["sf"].at # "idle" /\ update' = [update EXCEPT !["sf"] = NoUpdate]
    BY <1>4 DEF GetDisplayConfigsEnds, SwapModes
  <2>5. update'["sf"].at = "idle" /\ update'["event"] = update["event"] /\ "sf" \notin entered
    BY <2>4 DEF NoUpdate, Configs, ConnectorType
  <2>6. /\ UNCHANGED <<entered, active_, composite_queue_, wanted>>
        /\ queueing'["event"] = queueing["event"] /\ DOMAIN queueing' = Threads
    BY <1>4 DEF GetDisplayConfigsEnds
  <2>7. queueing' \in [Threads -> Seq(Queueable)]
    BY <1>4, <2>3, <2>6 DEF GetDisplayConfigsEnds
  <2>. QED
    BY <2>5, <2>6, <2>7
<1>5. ASSUME NEW index \in DOMAIN config_ids, SetActiveConfig(index) PROVE QueueType'
  <2> DEFINE found == {i \in DOMAIN modes_ : modes_[i].id = config_ids[index]}
  <2>1. DOMAIN modes_ \subseteq Nat /\ \A i \in DOMAIN modes_ : modes_[i] \in KnownMode
    BY DEF Configs, ConnectorType
  <2>2. found # {} => modes_[Min(found)] \in KnownMode
    <3>1. found \subseteq Nat /\ found \subseteq DOMAIN modes_
      BY <2>1
    <3>2. found # {} => Min(found) \in found
      BY <3>1, MinOfIndices
    <3>. QED
      BY <2>1, <3>1, <3>2
  <2>3. queueing'["sf"] \in Seq(Queueable)
    BY <1>5, <2>2, Queueables DEF SetActiveConfig
  <2>. QED
    BY <1>5, <2>3 DEF SetActiveConfig, SfIdle, connectorVars
<1>6. CASE \E type \in {"DPMS_ON", "DPMS_OFF"} : SetPowerMode(type)
  BY <1>6, Queueables DEF SetPowerMode, SfIdle, connectorVars
<1>7. CASE SetFrame
  <2>1. /\ queueing' = [queueing EXCEPT !["sf"] = <<Comp("FRAME")>>]
        /\ entered' = entered \cup {"sf"} /\ update["sf"].at = "idle"
        /\ UNCHANGED <<update, active_, composite_queue_, wanted>>
    BY <1>7 DEF SetFrame, SfIdle, connectorVars
  <2>2. <<Comp("FRAME")>> \in Seq(Queueable) /\ <<Comp("FRAME")>> # <<>>
    BY Queueables
  <2>. QED
    BY <2>1, <2>2
<1>8. ASSUME NEW t \in Threads, QueueEnter(t) PROVE QueueType'
  <2>1. active_' \in BOOLEAN
    BY <1>8 DEF QueueEnter
  <2>. QED
    BY <1>8, <2>1 DEF QueueEnter, connectorVars
<1>9. ASSUME NEW t \in Threads, QueuePush(t) PROVE QueueType'
  <2> DEFINE c == Head(queueing[t])
  <2>1. c \in Queueable /\ Tail(queueing[t]) \in Seq(Queueable)
    BY <1>9 DEF QueuePush
  <2>2. wanted' \in Timings \cup {0}
    BY <1>9, <2>1 DEF QueuePush, Queueable, KnownMode
  <2>3. composite_queue_' = Append(composite_queue_, c)
    BY <1>9 DEF QueuePush
  <2>4. composite_queue_' \in Seq(Queueable) /\ Len(composite_queue_') <= MaxQueueDepth
    BY <1>9, <2>1, <2>3 DEF QueuePush, QueueHasRoom
  <2>. QED
    BY <1>9, <2>1, <2>2, <2>4 DEF QueuePush, connectorVars
<1>10. CASE CompositorWorker
  <2>1. composite_queue_ # <<>> /\ composite_queue_' = Tail(composite_queue_)
        /\ UNCHANGED <<queueing, entered, active_, wanted, update>>
    BY <1>10 DEF CompositorWorker, CompositeFrame, CompositeDropsFrame,
                 CompositeDpms, CompositeModeset, connectorVars
  <2>. QED
    BY <2>1
<1>. QED
  BY <1>2, <1>3, <1>4, <1>5, <1>6, <1>7, <1>8, <1>9, <1>10, <1>11 DEF Next, Sf

-----------------------------------------------------------------------------
(***************************************************************************)
(* Commits and blobs.                                                      *)
(***************************************************************************)
\* Mode sets and commits keep the types and the blobs.
LEMMA StepCommit ==
    QueueType /\ CommitType /\ BlobsApart /\ [Next]_vars => CommitType' /\ BlobsApart'
<1> SUFFICES ASSUME QueueType, CommitType, BlobsApart, [Next]_vars
             PROVE  CommitType' /\ BlobsApart'
  OBVIOUS
<1> USE BoundAssumption DEF CommitType, BlobsApart, commitVars, Done, NoCommit
<1>1. CASE UNCHANGED <<commitVars, frames, faults>>
  BY <1>1
<1>2. CASE (\E list \in ModeLists \cup {<<>>} : Plug(list)) \/ IgnoreEvent \/ HandleEvent
           \/ HandleEventListed \/ HandleEventFails \/ HandleEventEnds \/ Sf
           \/ (\E t \in Threads : NameModes(t) \/ QueueEnter(t) \/ QueuePush(t))
           \/ CompositeDropsFrame \/ CompositeDpms \/ UNCHANGED vars
  BY <1>1, <1>2
  DEF Plug, IgnoreEvent, HandleEvent, HandleEventListed, HandleEventFails,
      HandleEventEnds, Sf, GetDisplayConfigs, GetDisplayConfigsFails,
      GetDisplayConfigsEnds, RegisterProcs, NameModes, SetActiveConfig, SetPowerMode,
      SetFrame, QueueEnter, QueuePush, CompositeDropsFrame, CompositeDpms, vars
<1>3. CASE CompositeFrame
  BY <1>3 DEF CompositeFrame
<1>4. ASSUME NEW created \in BOOLEAN, CompositeModeset(created)
      PROVE  CommitType' /\ BlobsApart'
  <2> DEFINE mode == Head(composite_queue_).mode
             id == FreeBlob(Pending)
  <2>1. mode \in KnownMode /\ mode \in Mode
    <3>1. Head(composite_queue_) \in Queueable /\ Head(composite_queue_).type = "MODESET"
      BY <1>4 DEF CompositeModeset, QueueType
    <3>2. mode \in KnownMode
      BY <3>1 DEF Queueable
    <3>. QED
      BY <3>2 DEF KnownMode, Mode
  <2>2. /\ DOMAIN Pending = DOMAIN k_blobs \ {mode_.blob_id}
        /\ \A b \in DOMAIN Pending : Pending[b] \in Timings
    BY DEF Pending, Destroyed
  <2>3. IsFiniteSet(DOMAIN Pending)
    BY <2>2, FS_Subset
  <2>4. id \in Nat \ {0} /\ id \notin DOMAIN Pending
    BY <2>3, FreshBlob
  <2>5. /\ faults' \subseteq {"mode", "blob"} /\ UNCHANGED <<k_mode, active_mode_, commit, frames>>
        /\ "blob" \notin faults' => commit.at = "idle" /\ "blob" \notin faults
    BY <1>4 DEF CompositeModeset
  <2>6. CASE created
    <3>1. /\ k_blobs' = [b \in DOMAIN Pending \cup {id} |->
                            IF b = id THEN mode.timing ELSE Pending[b]]
          /\ mode_' = [mode_ EXCEPT !.mode = mode, !.blob_id = id, !.needs_modeset = TRUE]
      BY <1>4, <2>6 DEF CompositeModeset
    <3> HIDE DEF mode, id
    <3>2. DOMAIN k_blobs' = DOMAIN Pending \cup {id} /\ IsFiniteSet(DOMAIN Pending \cup {id})
      BY <3>1, <2>3, FS_AddElement
    <3>3. \A b \in DOMAIN k_blobs' : k_blobs'[b] \in Timings
      BY <2>1, <2>2, <3>1 DEF KnownMode
    <3>4. mode_' \in [needs_modeset : BOOLEAN, mode : Mode, blob_id : Nat, old_blob_id : Nat]
          /\ mode_'.blob_id = id /\ mode_'.old_blob_id = mode_.old_blob_id
      BY <2>1, <2>4, <3>1
    <3>. QED
      BY <2>2, <2>4, <2>5, <3>2, <3>3, <3>4
  <2>7. CASE ~created
    <3>1. k_blobs' = Pending /\ mode_' = [mode_ EXCEPT !.mode = mode, !.blob_id = 0]
      BY <1>4, <2>7 DEF CompositeModeset
    <3> HIDE DEF mode, id
    <3>2. mode_' \in [needs_modeset : BOOLEAN, mode : Mode, blob_id : Nat, old_blob_id : Nat]
          /\ mode_'.blob_id = 0 /\ mode_'.old_blob_id = mode_.old_blob_id
      BY <2>1, <3>1
    <3>. QED
      BY <2>2, <2>3, <2>5, <3>1, <3>2
  <2>. QED
    BY <2>6, <2>7
<1>5. CASE CommitBegins
  BY <1>5 DEF CommitBegins
<1>6. CASE CommitFails \/ CommitReturns
  <2>1. /\ commit.at \in {"kernel", "committed"} /\ Done
        /\ UNCHANGED <<k_blobs, k_mode, active_mode_, mode_, faults>>
    BY <1>6 DEF CommitFails, CommitReturns
  <2>2. commit'.at = "idle" /\ frames' \in 0 .. MaxFrames
    BY <2>1
  <2>3. commit' \in [at : {"idle", "kernel", "committed", "recorded"},
                     modeset : BOOLEAN, blob : Nat]
    BY <2>1
  <2>. QED
    BY <2>1, <2>2, <2>3
<1>7. CASE CommitSucceeds \/ CommitSkipped
  <2>1. /\ commit.at = "kernel" /\ k_mode' \in Timings \cup {0}
        /\ commit' = [NoCommit EXCEPT !.at = "committed"]
        /\ faults \subseteq faults' /\ faults' \subseteq {"mode", "blob"}
        /\ "blob" \in faults' => "blob" \in faults
        /\ UNCHANGED <<k_blobs, active_mode_, mode_, frames>>
    <3>1. CASE CommitSucceeds
      BY <3>1 DEF CommitSucceeds
    <3>2. CASE CommitSkipped
      BY <3>2 DEF CommitSkipped
    <3>. QED
      BY <1>7, <3>1, <3>2
  <2>2. /\ commit'.at = "committed"
        /\ commit' \in [at : {"idle", "kernel", "committed", "recorded"},
                        modeset : BOOLEAN, blob : Nat]
    BY <2>1
  <2>. QED
    BY <2>1, <2>2
<1>8. ASSUME NEW dpms \in BOOLEAN, CommitRecords(dpms)
      PROVE  CommitType' /\ BlobsApart'
  <2>1. /\ DOMAIN k_blobs' = DOMAIN k_blobs \ {mode_.old_blob_id}
        /\ \A b \in DOMAIN k_blobs' : k_blobs'[b] \in Timings
    BY <1>8 DEF CommitRecords, Destroyed
  <2>2. IsFiniteSet(DOMAIN k_blobs')
    BY <2>1, FS_Subset
  <2>3. CASE dpms
    <3>1. /\ commit' = [NoCommit EXCEPT !.at = "recorded"]
          /\ active_mode_' = mode_.mode
          /\ mode_' = [mode_ EXCEPT !.old_blob_id = mode_.blob_id]
          /\ commit.at = "committed" /\ UNCHANGED <<k_mode, frames, faults>>
      BY <1>8, <2>3 DEF CommitRecords
    <3>2. /\ commit'.at = "recorded"
          /\ commit' \in [at : {"idle", "kernel", "committed", "recorded"},
                          modeset : BOOLEAN, blob : Nat]
      BY <3>1
    <3>. QED
      BY <2>1, <2>2, <3>1, <3>2
  <2>4. CASE ~dpms
    <3>1. /\ Done /\ faults' = faults \cup {"mode", "blob"}
          /\ commit.at = "committed" /\ UNCHANGED <<k_mode, active_mode_, mode_>>
      BY <1>8, <2>4 DEF CommitRecords
    <3>2. /\ commit'.at = "idle" /\ frames' \in 0 .. MaxFrames
          /\ commit' \in [at : {"idle", "kernel", "committed", "recorded"},
                          modeset : BOOLEAN, blob : Nat]
      BY <3>1
    <3>. QED
      BY <2>1, <2>2, <3>1, <3>2
  <2>. QED
    BY <2>3, <2>4
<1>9. CASE CommitEnds
  <2>0. mode_.blob_id \in Nat /\ mode_.old_blob_id \in Nat
    OBVIOUS
  <2>1. /\ commit.at = "recorded" /\ Done
        /\ mode_' = [mode_ EXCEPT !.blob_id = 0, !.needs_modeset = FALSE]
        /\ UNCHANGED <<k_blobs, k_mode, active_mode_, faults>>
    BY <1>9 DEF CommitEnds
  <2>2. commit'.at = "idle" /\ frames' \in 0 .. MaxFrames
    BY <2>1
  <2>3. commit' \in [at : {"idle", "kernel", "committed", "recorded"},
                     modeset : BOOLEAN, blob : Nat]
    BY <2>1
  <2>4. /\ mode_' \in [needs_modeset : BOOLEAN, mode : Mode, blob_id : Nat, old_blob_id : Nat]
        /\ mode_'.blob_id = 0 /\ mode_'.old_blob_id = mode_.old_blob_id
    BY <2>1
  <2>. QED
    <3>1. CommitType'
      BY <2>1, <2>2, <2>3, <2>4
    <3>2. BlobsApart'
      BY <2>0, <2>1, <2>2, <2>4
    <3>. QED
      BY <3>1, <3>2
<1>. QED
  BY <1>2, <1>3, <1>4, <1>5, <1>6, <1>7, <1>8, <1>9 DEF Next, CompositorWorker, FrameWorker

-----------------------------------------------------------------------------
\* Nothing is handed out, queued or created before the device is opened.
LEMMA InitInvariant == Init => Configs /\ QueueType /\ CommitType /\ BlobsApart
<1> SUFFICES ASSUME Init PROVE Configs /\ QueueType /\ CommitType /\ BlobsApart
  OBVIOUS
<1> USE BoundAssumption DEF Init
<1>1. DOMAIN <<>> = {}
  OBVIOUS
<1>2. ConnectorType
  <2>1. state_ \in BOOLEAN
    OBVIOUS
  <2>. QED
    BY <2>1 DEF ConnectorType, NoUpdate, UpdateOfKnown
<1>3. HalType /\ IdsGiven
  <2>1. registered \in BOOLEAN
    OBVIOUS
  <2>2. Given = {}
    <3>1. ToSet(modes_) = {} /\ Configurations = {}
      BY <1>1 DEF ToSet, Configurations
    <3>2. \A t \in Threads : ToSet(update[t].modes) = {}
      BY <1>1 DEF ToSet, NoUpdate
    <3>. QED
      BY <3>1, <3>2 DEF Given, Updating
  <2>. QED
    BY <2>1, <2>2 DEF HalType, IdsGiven
<1>4. QueueType
  <2>1. active_ \in BOOLEAN
    OBVIOUS
  <2>. QED
    BY <2>1 DEF QueueType, Threads
<1>5. CommitType
  <2>1. IsFiniteSet(DOMAIN k_blobs) /\ DOMAIN k_blobs = {}
    BY <1>1, FS_EmptySet
  <2>2. mode_ \in [needs_modeset : BOOLEAN, mode : Mode, blob_id : Nat, old_blob_id : Nat]
        /\ active_mode_ \in Mode
    BY DEF Mode, NoMode
  <2>3. commit \in [at : {"idle", "kernel", "committed", "recorded"},
                    modeset : BOOLEAN, blob : Nat]
    BY DEF NoCommit
  <2>. QED
    BY <2>1, <2>2, <2>3 DEF CommitType, NoCommit
<1>6. BlobsApart
  BY <1>1 DEF BlobsApart, NoCommit
<1>. QED
  BY <1>2, <1>3, <1>4, <1>5, <1>6 DEF Configs

\* The inductive invariant holds in every reachable state.
LEMMA Invariant == Spec => [](Configs /\ QueueType /\ CommitType /\ BlobsApart)
  BY InitInvariant, StepConfigs, StepQueueType, StepCommit, PTL DEF Spec

\* Every variable keeps its type: what is queued has a mode with a timing, the
\* queue keeps its limit, and the frame worker ends no commit it did not begin.
THEOREM ModeSetTypeCorrect == Spec => []TypeOK
<1>1. Configs /\ QueueType /\ CommitType => TypeOK
  BY TypedIsTypeOK DEF Typed, Configs
<1>. QED
  BY <1>1, Invariant, PTL

\* Whatever monitors come and go while SurfaceFlinger holds on to old
\* configurations, the ids of DrmConnector::UpdateModes never change meaning.
THEOREM ConfigsKeepTheirMeaning == Spec => []ConfigsKeepMeaning
<1>1. Configs => ConfigsKeepMeaning
  <2> SUFFICES ASSUME Configs, NEW i \in DOMAIN config_ids, NEW m \in ToSet(modes_),
                      m.id = config_ids[i]
               PROVE  m.timing = reported[i]
    BY DEF ConfigsKeepMeaning
  <2>1. [id |-> config_ids[i], timing |-> reported[i]] \in Configurations
    BY DEF Configurations
  <2>2. m \in Given /\ [id |-> config_ids[i], timing |-> reported[i]] \in Given
    BY <2>1 DEF Given
  <2>. QED
    BY <2>2 DEF Configs, IdsGiven
<1>. QED
  BY <1>1, Invariant, PTL

\* Without an overlap or a failed DPMS, mode sets and commits in any number
\* leak no blob.
THEOREM NoBlobLeaks == Spec => []BlobsAccounted
<1>1. BlobsApart => BlobsAccounted
  BY DEF BlobsApart, BlobsAccounted
<1>. QED
  BY <1>1, Invariant, PTL
=============================================================================
