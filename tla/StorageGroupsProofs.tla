------------------------ MODULE StorageGroupsProofs ------------------------
(* The number of drives a group labels is kept to, for any drives, groups   *)
(* and numbers, and any number of changes and failed updates.               *)
EXTENDS StorageGroups, FiniteSetTheorems, TLAPS

-----------------------------------------------------------------------------
(* Types                                                                   *)

\* The first update of a plan and the rest of it.
LEMMA PlanTail ==
  ASSUME NEW s \in Seq(Writes), s # << >>
  PROVE  /\ Head(s) \in Writes /\ Head(s) = s[1] /\ 1 \in DOMAIN s
         /\ DOMAIN s = 1..Len(s) /\ Len(s) \in Nat \ {0}
         /\ Tail(s) \in Seq(Writes) /\ Len(Tail(s)) = Len(s) - 1
         /\ Len(s) # 1 => Tail(s) # << >>
         /\ \A i \in DOMAIN Tail(s) :
              i \in Nat /\ i + 1 \in DOMAIN s /\ i + 1 > 1 /\ Tail(s)[i] = s[i + 1]
<1>1. /\ Head(s) \in Writes /\ Head(s) = s[1] /\ 1 \in DOMAIN s
      /\ DOMAIN s = 1..Len(s) /\ Len(s) \in Nat \ {0}
      /\ Tail(s) \in Seq(Writes) /\ Len(Tail(s)) = Len(s) - 1
      /\ \A i \in DOMAIN Tail(s) :
           i \in Nat /\ i + 1 \in DOMAIN s /\ i + 1 > 1 /\ Tail(s)[i] = s[i + 1]
  OBVIOUS
<1>2. Len(s) # 1 => Len(Tail(s)) # 0
  BY <1>1
<1>3. Len(<< >>) = 0
  OBVIOUS
<1> QED
  BY <1>1, <1>2, <1>3

LEMMA Concatenated ==
  ASSUME NEW s \in Seq(Writes), NEW t \in Seq(Writes)
  PROVE  /\ s \o t \in Seq(Writes) /\ Len(s \o t) = Len(s) + Len(t)
         /\ \A i \in 1..(Len(s) + Len(t)) :
              (s \o t)[i] = IF i <= Len(s) THEN s[i] ELSE t[i - Len(s)]
OBVIOUS

LEMMA OneAndOne ==
  ASSUME NEW u \in Writes, NEW v \in Writes
  PROVE  <<u>> \o <<v>> = <<u, v>> /\ << >> \o <<v>> = <<v>>
<1> DEFINE s == <<u>> \o <<v>>
<1>1. <<u>> \in Seq(Writes) /\ <<v>> \in Seq(Writes)
  OBVIOUS
<1>2. /\ s \in Seq(Writes) /\ Len(s) = 2
      /\ \A i \in 1..2 : s[i] = IF i <= 1 THEN <<u>>[i] ELSE <<v>>[i - 1]
  BY <1>1, Concatenated
<1>3. s[1] = u /\ s[2] = v
  BY <1>2
<1> HIDE DEF s
<1>4. s = <<u, v>>
  BY <1>2, <1>3
<1>5. << >> \o <<v>> = <<v>>
  OBVIOUS
<1> QED
  BY <1>4, <1>5 DEF s

\* An update is of one of four sorts.
LEMMA WriteSorts ==
  ASSUME NEW w \in Writes
  PROVE  /\ w.kind \in {"drive", "ac", "sg", "fin"}
         /\ w.kind \in {"drive", "ac"} => w.id \in Drive /\ w.val \in Label
         /\ w.kind = "sg" => w.id \in Group /\ w.val \in {"INVALID", "SYNCING", "REMOVING"}
         /\ w.kind = "fin" => w.id \in Group /\ w.val = None
BY DEF Writes

LEMMA WriteType ==
  /\ \A d \in Drive, l \in Label :
       Write("drive", d, l) \in Writes /\ Write("ac", d, l) \in Writes
  /\ \A g \in Group : /\ Write("fin", g, None) \in Writes
                      /\ \A p \in {"INVALID", "SYNCING", "REMOVING"} : Write("sg", g, p) \in Writes
BY DEF Write, Writes

LEMMA ConstantTypes ==
  /\ None \in Label /\ NoDrive \in DriveState /\ Group \subseteq Label
  /\ Ended \in Run /\ Ended.at = "idle" /\ Ended.plan = << >> /\ Ended.todo = {}
  /\ Ended.kept = FALSE
<1>1. NoDrive \in DriveState
  BY DEF NoDrive, DriveState, Place, Label
<1>2. << >> \in Seq(Writes)
  OBVIOUS
<1> QED
  BY <1>1, <1>2 DEF Ended, Run, Label

\* Somebody else wrote an object.
LEMMA StaleType ==
  ASSUME TypeOK, NEW os, run' = Stale(os)
  PROVE  /\ run' \in Run
         /\ run'.at = run.at /\ run'.name = run.name /\ run'.dr = run.dr
         /\ run'.todo = run.todo /\ run'.clean = run.clean /\ run'.counted = run.counted
         /\ run'.plan = run.plan /\ run'.errs = run.errs /\ run'.kept = run.kept
<1>1. run \in Run
  BY DEF TypeOK
<1>2. CASE IsIdle
  BY <1>1, <1>2 DEF Stale
<1>3. CASE ~IsIdle
  <2> DEFINE new == run.stale \cup (os \cap Held)
  <2>1. run' = [run EXCEPT !.stale = new]
    BY <1>3 DEF Stale
  <2>2. Held \subseteq Object
    <3>1. \A i \in DOMAIN run.plan : run.plan[i] \in Writes
      BY <1>1 DEF Run
    <3>2. \A i \in DOMAIN run.plan : Key(run.plan[i]) \in Object
      BY <3>1, WriteSorts DEF Key, Object
    <3> QED
      BY <1>1, <3>2 DEF Held, Object, Run
  <2>3. new \in SUBSET Object
    BY <1>1, <2>2 DEF Run
  <2> HIDE DEF new
  <2> QED
    BY <1>1, <2>1, <2>3 DEF Run
<1> QED
  BY <1>2, <1>3

LEMMA CardFewer ==
  ASSUME NEW S \in SUBSET Drive, NEW T \in SUBSET S
  PROVE  /\ IsFiniteSet(S) /\ Cardinality(S) \in Nat
         /\ Cardinality(T) \in Nat /\ Cardinality(T) <= Cardinality(S)
<1>1. IsFiniteSet(S)
  BY DriveAssumption, FS_Subset
<1> QED
  BY <1>1, FS_Subset, FS_CardinalityType

-----------------------------------------------------------------------------
(* What the others do                                                      *)

\* Groups get a deletion timestamp, are sent back to SYNCING, or go if they have no
\* finalizer; drives in place keep their labels, and the ones that are found have none.
GroupsStep ==
  \A g \in Group :
    /\ sg'[g].fin = sg[g].fin /\ (sg'[g].del => sg[g].fin)
    /\ \/ sg'[g].phase = sg[g].phase
       \/ sg[g].phase = "SYNCED" /\ sg'[g].phase = "SYNCING"
       \/ ~sg[g].fin /\ sg'[g].phase = "absent"
DrivesStep ==
  \A d \in Drive :
    /\ drive'[d].place = "unseen" => drive[d].place = "unseen"
    /\ InPlace(drive'[d]) => \/ InPlace(drive[d]) /\ drive'[d].label = drive[d].label
                             \/ drive[d].place = "unseen" /\ drive'[d].label = None
ACsStep == \A d \in Drive : ac'[d].label \in {None, ac[d].label}
RunStays ==
  /\ run'.at = run.at /\ run'.name = run.name /\ run'.dr = run.dr /\ run'.todo = run.todo
  /\ run'.counted = run.counted /\ run'.plan = run.plan /\ run'.kept = run.kept

LEMMA StillActive ==
  ASSUME SGInv, GroupsStep
  PROVE  \A g \in Group : Active(g)' => Active(g)
BY DEF GroupsStep, Active

\* A set of holders that has not grown is still small enough.
LEMMA HoldersFewer ==
  ASSUME SGInv, ~manual, NEW g \in Group, NEW n \in Range(NodeOf), Limited(g),
         Holders(g, n)' \subseteq Holders(g, n)
  PROVE  Cardinality(Holders(g, n)') <= NumberDrivesPerNode[g]
<1>1. Holders(g, n) \subseteq Drive /\ Cardinality(Holders(g, n)) <= NumberDrivesPerNode[g]
  BY DEF CountOK, Holders, SGInv
<1> QED
  BY <1>1, CardFewer, NumberAssumption

LEMMA LabelsStep ==
  ASSUME SGInv, ~manual, DrivesStep, ACsStep,
         \A g \in Group : Active(g)' => Active(g),
         \A d \in Drive, g \in Group : Planned(d, g)' => Planned(d, g)
  PROVE  /\ LabelsOK'
         /\ \A g \in Group, n \in Range(NodeOf) :
              Limited(g) => Cardinality(Holders(g, n)') <= NumberDrivesPerNode[g]
<1> USE DEF SGInv
<1>2. \A d \in Drive : drive[d].place = "unseen" =>
        ac'[d].label = None /\ \A g \in Group : ~Planned(d, g)
  BY DEF ACsStep, UnseenOK, Planned, DriveRunOK, Write
<1>3. \A d \in Drive, g \in Group :
        InPlace(drive'[d]) /\ (ac'[d].label = g \/ Planned(d, g)') =>
          InPlace(drive[d]) /\ drive'[d].label = drive[d].label
            /\ (ac[d].label = g \/ Planned(d, g))
  BY <1>2, GroupOrderAssumption DEF DrivesStep, ACsStep
<1>4. LabelsOK'
  BY <1>3 DEF LabelsOK, Limited, InPlace
<1>5. ASSUME NEW g \in Group, NEW n \in Range(NodeOf), Limited(g)
      PROVE  Cardinality(Holders(g, n)') <= NumberDrivesPerNode[g]
  <2>1. \A d \in Drive : InPlace(drive'[d]) /\ drive'[d].label = g =>
          InPlace(drive[d]) /\ drive[d].label = g
    BY GroupOrderAssumption DEF DrivesStep
  <2>2. Holders(g, n)' \subseteq Holders(g, n)
    BY <1>3, <2>1 DEF Holders
  <2> QED
    BY <1>5, <2>2, HoldersFewer
<1> QED
  BY <1>4, <1>5

LEMMA ControlStep ==
  ASSUME SGInv, RunStays, GroupsStep, ACsStep,
         \A d \in Drive : drive'[d].place = "unseen" => drive[d].place = "unseen"
  PROVE  GroupsOK' /\ DriveRunOK' /\ GroupRunOK' /\ UnseenOK'
<1> USE DEF SGInv, RunStays
<1>1. GroupsOK'
  BY DEF GroupsOK, GroupsStep
<1>2. run \in Run
  BY DEF TypeOK
<1>3. \A i \in DOMAIN run.plan : run.plan[i] \in Writes
  BY <1>2 DEF Run
<1>4. DriveRunOK'
  <2>1. \A i \in DOMAIN run.plan : run.plan[i].kind = "sg" => run.plan[i].id \in Group
    BY <1>3, WriteSorts
  <2> QED
    BY <2>1 DEF DriveRunOK, GroupsStep
<1>5. GroupRunOK'
  BY DEF GroupRunOK, LastPhase, GroupsStep
<1>6. UnseenOK'
  BY DEF UnseenOK, ACsStep
<1> QED
  BY <1>1, <1>4, <1>5, <1>6

LEMMA OthersStep ==
  ASSUME SGInv, TypeOK', RunStays, manual' = manual, GroupsStep, DrivesStep, ACsStep
  PROVE  SGInv'
<1> USE DEF SGInv, RunStays
<1>1. GroupsOK' /\ DriveRunOK' /\ GroupRunOK' /\ UnseenOK'
  BY ControlStep DEF DrivesStep
<1>2. ASSUME ~manual'
      PROVE  ReadOK' /\ LabelsOK' /\ CountOK'
  <2>1. LabelsOK' /\ \A g \in Group, n \in Range(NodeOf) :
          Limited(g) => Cardinality(Holders(g, n)') <= NumberDrivesPerNode[g]
    BY <1>2, StillActive, LabelsStep DEF Planned
  <2>2. CountOK'
    <3>1. run.at = "sync" => run.name \in Group
      BY DEF GroupRunOK
    <3>2. \A d \in Drive : run.at = "sync" /\ InPlace(drive'[d]) /\ drive'[d].label = run.name =>
            InPlace(drive[d]) /\ drive[d].label = run.name
      BY <3>1, GroupOrderAssumption DEF DrivesStep
    <3> QED
      BY <1>2, <2>1, <3>2 DEF CountOK, Limited, CountedOn
  <2>3. ReadOK'
    <3>1. run.at \in {"drive", "write"} => run.name \in Drive
      BY DEF DriveRunOK
    <3>2. run.at = "drive" /\ InPlace(drive'[run.name]) => run.dr.label = drive'[run.name].label
      BY <1>2, <3>1 DEF ReadOK, UnseenOK, DrivesStep
    <3>3. run.at = "write" /\ InPlace(drive'[run.name]) =>
            InPlace(drive[run.name]) /\ drive'[run.name].label = drive[run.name].label
              /\ ac'[run.name].label \in {None, ac[run.name].label}
      BY <3>1 DEF UnseenOK, DrivesStep, ACsStep
    <3>4. run.at \in {"sync", "drop"} => \A d \in Drive : InPlace(drive'[d]) =>
            \/ InPlace(drive[d]) /\ drive'[d].label = drive[d].label
            \/ d \notin run.todo /\ \A i \in DOMAIN run.plan : run.plan[i].id # d
      BY DEF UnseenOK, DrivesStep
    <3>5. \A d \in Drive, g \in Group :
            /\ run.plan = LabelBoth(d, g) =>
                 1 \in DOMAIN run.plan /\ run.plan[1].id = d
            /\ run.plan = <<Write("ac", d, g)>> => 1 \in DOMAIN run.plan /\ run.plan[1].id = d
            /\ \A i \in DOMAIN run.plan : run.plan[i] = Write("drive", d, None) =>
                 run.plan[i].id = d
      BY DEF Write, LabelBoth
    <3>6. run.at = "sync" => \A d \in Drive : InPlace(drive'[d]) =>
            /\ d \in run.todo => drive'[d].label = None
            /\ run.plan = LabelBoth(d, run.name) =>
                 d \notin run.todo /\ drive'[d].label = None
            /\ run.plan = <<Write("ac", d, run.name)>> => drive'[d].label = run.name
      BY <1>2, <3>4, <3>5 DEF ReadOK, GroupRunOK
    <3>7. run.at = "drop" => \A d \in Drive : InPlace(drive'[d]) =>
            /\ d \in run.todo => drive'[d].label = run.name
            /\ \A i \in DOMAIN run.plan : run.plan[i] = Write("drive", d, None) =>
                 d \notin run.todo /\ drive'[d].label = run.name
      BY <1>2, <3>4, <3>5 DEF ReadOK, GroupRunOK
    <3>8. run.at = "write" /\ InPlace(drive'[run.name]) =>
            \A i \in DOMAIN run.plan :
              /\ run.plan[i].kind = "drive" => ac'[run.name].label \in {None, run.plan[i].val}
              /\ (run.plan[i].kind = "ac" /\ Limited(run.plan[i].val)) =>
                   drive'[run.name].label = run.plan[i].val
      BY <1>2, <3>3 DEF ReadOK
    <3> QED
      BY <1>2, <3>2, <3>6, <3>7, <3>8 DEF ReadOK, Limited
  <2> QED
    BY <2>1, <2>2, <2>3
<1> QED
  BY <1>1, <1>2

LEMMA RunOver ==
  ASSUME run'.at = "idle"
  PROVE  DriveRunOK' /\ GroupRunOK' /\ ReadOK' /\ (\A d, l : ~Planned(d, l)')
BY DEF DriveRunOK, GroupRunOK, ReadOK, Planned

\* The reconciliation ends here.
LEMMA EndStep ==
  ASSUME SGInv, TypeOK', run' = Ended, manual' = manual, GroupsStep, DrivesStep, ACsStep
  PROVE  SGInv'
<1> USE DEF SGInv
<1>1. run'.at = "idle" /\ run'.plan = << >> /\ run'.todo = {}
  BY ConstantTypes
<1>2. GroupsOK'
  BY DEF GroupsOK, GroupsStep
<1>3. UnseenOK'
  BY <1>1 DEF UnseenOK, DrivesStep, ACsStep
<1>4. ASSUME ~manual'
      PROVE  LabelsOK' /\ CountOK'
  BY <1>1, <1>4, StillActive, LabelsStep, RunOver DEF CountOK
<1> QED
  BY <1>1, <1>2, <1>3, <1>4, RunOver

\* No object changes that matters to the labels.
LEMMA NothingMoves ==
  ASSUME UNCHANGED <<drive, ac, sg>>, SGInv
  PROVE  GroupsStep /\ DrivesStep /\ ACsStep
BY DEF GroupsStep, DrivesStep, ACsStep, SGInv, GroupsOK

LEMMA ChangeType ==
  ASSUME TypeOK,
         \/ Change
         \/ changes < MaxChanges /\ changes' = changes + 1
         \/ UNCHANGED changes
  PROVE  changes' \in 0..MaxChanges
BY ChangesAssumption DEF TypeOK, Change

LEMMA PutDriveType ==
  ASSUME TypeOK, NEW d \in Drive, NEW new \in DriveState, PutDrive(d, new)
  PROVE  /\ drive' \in [Drive -> DriveState] /\ queue' \subseteq Drive \cup Group
         /\ drive'[d] = new /\ \A e \in Drive \ {d} : drive'[e] = drive[e]
BY DEF TypeOK, PutDrive, DriveEvent

GroupState == [phase : Phase, fin : BOOLEAN, del : BOOLEAN]

LEMMA PutGroupType ==
  ASSUME TypeOK, NEW g \in Group, NEW new \in GroupState, PutGroup(g, new)
  PROVE  /\ sg' \in [Group -> GroupState] /\ queue' \subseteq Drive \cup Group
         /\ sg'[g] = new /\ \A h \in Group \ {g} : sg'[h] = sg[h]
BY DEF TypeOK, PutGroup, GroupState

LEMMA ConflictType ==
  ASSUME TypeOK, NEW d \in Drive
  PROVE  Conflict(d) \in [Drive -> {"no", "lvg", "volume", "decrease", "conflict"}]
BY DEF TypeOK, Conflict

-----------------------------------------------------------------------------
(* Users and the other controllers                                         *)

ACState == [loc : {"absent", "drive", "lvg"}, free : BOOLEAN, label : Label]

\* Volumes are placed and deleted: the labels stay.
LEMMA PlacementInv ==
  ASSUME SGInv, NEW d \in Drive,
         PlaceOnDrive(d) \/ PlaceCreateLVG(d) \/ PlaceStep(d) \/ VolumeDeleted(d)
  PROVE  SGInv'
<1> USE DEF SGInv
<1>1. UNCHANGED <<drive, sg, queue, manual, lost>> /\ changes' \in 0..MaxChanges
  BY ChangeType DEF PlaceOnDrive, PlaceCreateLVG, PlaceStep, VolumeDeleted
<1>2. run' = run \/ \E os : run' = Stale(os)
  BY DEF PlaceOnDrive, PlaceCreateLVG, PlaceStep, VolumeDeleted, Touched
<1>3. run' \in Run /\ RunStays
  BY <1>2, StaleType DEF RunStays, TypeOK
<1>4. ac \in [Drive -> ACState]
  BY DEF TypeOK, ACState
<1>5. ac' \in [Drive -> ACState] /\ \A e \in Drive : ac'[e].label = ac[e].label
  <2>1. CASE UNCHANGED ac
    BY <1>4, <2>1
  <2>2. CASE ac' = [ac EXCEPT ![d].free = FALSE]
    BY <1>4, <2>2 DEF ACState
  <2>3. CASE ac' = [ac EXCEPT ![d].loc = "lvg"]
    BY <1>4, <2>3 DEF ACState
  <2>4. CASE VolumeDeleted(d)
    <3>1. PICK loc \in {"absent", "drive", "lvg"} :
            ac' = [ac EXCEPT ![d].loc = loc, ![d].free = TRUE]
      BY <1>4, <2>4 DEF VolumeDeleted, ACState
    <3> QED
      BY <1>4, <3>1 DEF ACState
  <2> QED
    BY <2>1, <2>2, <2>3, <2>4 DEF PlaceOnDrive, PlaceCreateLVG, PlaceStep
<1>6. /\ lvg' \subseteq Drive /\ vol' \subseteq Drive
      /\ placing' \in [Drive -> {"no", "lvg", "volume", "decrease", "conflict"}]
  BY DEF PlaceOnDrive, PlaceCreateLVG, PlaceStep, VolumeDeleted, TypeOK
<1>7. TypeOK'
  BY <1>1, <1>3, <1>5, <1>6 DEF TypeOK, ACState
<1>8. GroupsStep /\ DrivesStep /\ ACsStep
  BY <1>1, <1>5 DEF GroupsStep, DrivesStep, ACsStep, GroupsOK
<1> QED
  BY <1>1, <1>3, <1>7, <1>8, OthersStep

LEMMA ReconcileCapacityInv ==
  ASSUME SGInv, NEW d \in Drive, ReconcileCapacity(d)
  PROVE  SGInv'
<1> USE DEF SGInv
<1>1. /\ UNCHANGED <<drive, lvg, vol, sg, queue, manual, lost, changes>>
      /\ placing' = Conflict(d) /\ run' = Stale({<<"ac", d>>})
  BY DEF ReconcileCapacity, Touched
<1>2. run' \in Run /\ RunStays
  BY <1>1, StaleType DEF RunStays
<1>3. ac \in [Drive -> ACState] /\ drive[d] \in DriveState
  BY DEF TypeOK, ACState
<1>4. ac' \in [Drive -> ACState] /\ \A e \in Drive : ac'[e].label \in {None, ac[e].label}
  <2>1. drive[d].clean \in BOOLEAN
    BY <1>3 DEF DriveState
  <2>2. CASE ac' = [ac EXCEPT ![d].free = drive[d].clean]
    BY <1>3, <2>1, <2>2 DEF ACState
  <2>3. CASE ac' = [ac EXCEPT ![d] = [loc |-> "drive", free |-> drive[d].clean, label |-> None]]
    BY <1>3, <2>1, <2>3 DEF ACState, Label
  <2> QED
    BY <2>2, <2>3 DEF ReconcileCapacity
<1>5. TypeOK'
  BY <1>1, <1>2, <1>4, ConflictType DEF TypeOK, ACState
<1>6. GroupsStep /\ DrivesStep /\ ACsStep
  BY <1>1, <1>4 DEF GroupsStep, DrivesStep, ACsStep, GroupsOK
<1> QED
  BY <1>1, <1>2, <1>5, <1>6, OthersStep

LEMMA ACsDeletedInv ==
  ASSUME SGInv, NEW n, ACsDeleted(n)
  PROVE  SGInv'
<1> USE DEF SGInv
<1> DEFINE ds == {d \in Drive : NodeOf[d] = n /\ ac[d].loc # "absent"}
<1>1. /\ UNCHANGED <<drive, lvg, vol, sg, queue, manual>>
      /\ lost' = lost \cup ds
      /\ placing' = [d \in Drive |-> IF d \in ds THEN Conflict(d)[d] ELSE placing[d]]
      /\ ac' = [d \in Drive |-> IF d \in ds
                                THEN [loc |-> "absent", free |-> FALSE, label |-> None]
                                ELSE ac[d]]
      /\ run' = Stale({<<"ac", d>> : d \in ds})
      /\ Change
  BY DEF ACsDeleted
<1>2. run' \in Run /\ RunStays
  BY <1>1, StaleType DEF RunStays
<1>3. ac \in [Drive -> ACState]
  BY DEF TypeOK, ACState
<1>4. ac' \in [Drive -> ACState] /\ \A e \in Drive : ac'[e].label \in {None, ac[e].label}
  BY <1>1, <1>3 DEF ACState, Label
<1>5. placing' \in [Drive -> {"no", "lvg", "volume", "decrease", "conflict"}]
  <2>1. \A d \in Drive : Conflict(d)[d] \in {"no", "lvg", "volume", "decrease", "conflict"}
    BY ConflictType
  <2> HIDE DEF ds
  <2> QED
    BY <1>1, <2>1 DEF TypeOK
<1>6. TypeOK'
  BY <1>1, <1>2, <1>4, <1>5, ChangeType DEF TypeOK, ACState
<1>7. GroupsStep /\ DrivesStep /\ ACsStep
  BY <1>1, <1>4 DEF GroupsStep, DrivesStep, ACsStep, GroupsOK
<1> QED
  BY <1>1, <1>2, <1>6, <1>7, OthersStep

\* A drive is written by discovery or by the drive controller.
LEMMA DrivePutInv ==
  ASSUME SGInv, NEW d \in Drive, NEW new \in DriveState, NEW os,
         PutDrive(d, new), run' = Stale(os),
         new.place = "unseen" => drive[d].place = "unseen",
         InPlace(new) => \/ InPlace(drive[d]) /\ new.label = drive[d].label
                         \/ drive[d].place = "unseen" /\ new.label = None,
         ac' \in [Drive -> ACState], ACsStep,
         placing' \in [Drive -> {"no", "lvg", "volume", "decrease", "conflict"}],
         UNCHANGED <<lvg, vol, sg, manual>>, lost' \subseteq Drive,
         changes' \in 0..MaxChanges
  PROVE  SGInv'
<1> USE DEF SGInv
<1>1. /\ drive' \in [Drive -> DriveState] /\ queue' \subseteq Drive \cup Group
      /\ drive'[d] = new /\ \A e \in Drive \ {d} : drive'[e] = drive[e]
  BY PutDriveType
<1>2. run' \in Run /\ RunStays
  BY StaleType DEF RunStays
<1>3. TypeOK'
  BY <1>1, <1>2 DEF TypeOK, ACState
<1>4. GroupsStep
  BY DEF GroupsStep, GroupsOK
<1>5. DrivesStep
  BY <1>1 DEF DrivesStep, InPlace
<1> QED
  BY <1>2, <1>3, <1>4, <1>5, OthersStep

LEMMA DriveChangesInv ==
  ASSUME SGInv, NEW d \in Drive,
         \/ DiscoverClean(d) \/ DriveRemoved(d) \/ RemoveRelatedAC(d) \/ DriveDeleted(d)
         \/ DriveAppears(d)
  PROVE  SGInv'
<1> USE DEF SGInv
<1>1. drive \in [Drive -> DriveState] /\ ac \in [Drive -> ACState] /\ lost \subseteq Drive
      /\ placing \in [Drive -> {"no", "lvg", "volume", "decrease", "conflict"}]
  BY DEF TypeOK, ACState
<1>2. drive[d] \in DriveState
  BY <1>1
<1>3. changes' \in 0..MaxChanges
  BY ChangeType DEF DiscoverClean, DriveRemoved, RemoveRelatedAC, DriveDeleted, DriveAppears
<1>4. CASE DiscoverClean(d)
  <2> DEFINE new == [drive[d] EXCEPT !.clean = ~@]
  <2>1. new \in DriveState /\ new.place = drive[d].place /\ new.label = drive[d].label
    BY <1>2 DEF DriveState
  <2>2. PutDrive(d, new) /\ run' = Stale({<<"drive", d>>})
        /\ UNCHANGED <<ac, lvg, vol, placing, sg, manual, lost>>
    BY <1>4 DEF DiscoverClean, Touched
  <2> HIDE DEF new
  <2> QED
    BY <1>1, <1>3, <2>1, <2>2, DrivePutInv DEF ACsStep, InPlace
<1>5. CASE DriveRemoved(d)
  <2> DEFINE new == [drive[d] EXCEPT !.place = "removed"]
  <2>1. new \in DriveState /\ new.place = "removed"
    BY <1>2 DEF DriveState, Place
  <2>2. PutDrive(d, new) /\ run' = Stale({<<"drive", d>>})
        /\ UNCHANGED <<ac, lvg, vol, placing, sg, manual, lost>>
    BY <1>5 DEF DriveRemoved, Touched
  <2> HIDE DEF new
  <2> QED
    BY <1>1, <1>3, <2>1, <2>2, DrivePutInv DEF ACsStep, InPlace
<1>6. CASE RemoveRelatedAC(d)
  <2> DEFINE new == [drive[d] EXCEPT !.place = "noac"]
  <2>1. new \in DriveState /\ new.place = "noac"
    BY <1>2 DEF DriveState, Place
  <2>2. PutDrive(d, new) /\ run' = Stale({<<"ac", d>>}) /\ placing' = Conflict(d)
        /\ UNCHANGED <<lvg, vol, sg, manual, lost>>
    BY <1>6 DEF RemoveRelatedAC, Touched
  <2>3. ac' \in [Drive -> ACState] /\ ACsStep
    <3>1. ac' = [ac EXCEPT ![d] = [loc |-> "absent", free |-> FALSE, label |-> None]]
      BY <1>6 DEF RemoveRelatedAC
    <3> QED
      BY <1>1, <3>1 DEF ACState, ACsStep, Label
  <2>4. placing' \in [Drive -> {"no", "lvg", "volume", "decrease", "conflict"}]
    BY <2>2, ConflictType
  <2> HIDE DEF new
  <2> QED
    BY <1>1, <1>3, <2>1, <2>2, <2>3, <2>4, DrivePutInv DEF InPlace
<1>7. CASE DriveDeleted(d)
  <2>1. NoDrive \in DriveState /\ NoDrive.place = "absent"
    BY ConstantTypes DEF NoDrive
  <2>2. PutDrive(d, NoDrive) /\ run' = Stale({<<"drive", d>>}) /\ lost' \subseteq Drive
        /\ UNCHANGED <<ac, lvg, vol, placing, sg, manual>>
    BY <1>1, <1>7 DEF DriveDeleted, Touched, NoDrive
  <2> QED
    BY <1>1, <1>3, <2>1, <2>2, DrivePutInv DEF ACsStep, InPlace
<1>8. CASE DriveAppears(d)
  <2>1. PICK c \in BOOLEAN : PutDrive(d, [place |-> "in", clean |-> c, label |-> None])
    BY <1>8 DEF DriveAppears
  <2> DEFINE new == [place |-> "in", clean |-> c, label |-> None]
  <2>2. new \in DriveState /\ new.place = "in" /\ new.label = None
    BY DEF DriveState, Place, Label
  <2>3. PutDrive(d, new) /\ run' = Stale({<<"drive", d>>}) /\ drive[d].place = "unseen"
        /\ UNCHANGED <<ac, lvg, vol, placing, sg, manual, lost>>
    BY <1>8, <2>1 DEF DriveAppears, Touched
  <2> HIDE DEF new
  <2> QED
    BY <1>1, <1>3, <2>2, <2>3, DrivePutInv DEF ACsStep, InPlace
<1> QED
  BY <1>4, <1>5, <1>6, <1>7, <1>8

LEMMA TriggerStorageGroupResyncInv ==
  ASSUME SGInv, NEW d \in Drive, TriggerStorageGroupResync(d)
  PROVE  SGInv'
<1> USE DEF SGInv
<1> DEFINE g == drive[d].label
<1>1. drive \in [Drive -> DriveState] /\ sg \in [Group -> GroupState] /\ g \in Label
  BY DEF TypeOK, GroupState, DriveState
<1>2. drive' \in [Drive -> DriveState] /\ drive'[d].place = "resynced"
      /\ \A e \in Drive \ {d} : drive'[e] = drive[e]
  BY <1>1 DEF TriggerStorageGroupResync, DriveState, Place
<1>3. UNCHANGED <<ac, lvg, vol, placing, manual, lost, changes>>
  BY DEF TriggerStorageGroupResync
<1>4. /\ sg' \in [Group -> GroupState]
      /\ \A h \in Group :
           /\ sg'[h].fin = sg[h].fin /\ sg'[h].del = sg[h].del
           /\ \/ sg'[h].phase = sg[h].phase
              \/ sg[h].phase = "SYNCED" /\ sg'[h].phase = "SYNCING"
      /\ queue' \subseteq Drive \cup Group
      /\ run' = run \/ run' = Stale({<<"sg", g>>})
  <2>1. CASE UNCHANGED <<sg, queue, run>>
    BY <1>1, <2>1 DEF TypeOK
  <2>2. CASE ~UNCHANGED <<sg, queue, run>>
    <3>1. /\ g # None /\ queue' = queue \cup {g} /\ run' = Stale({<<"sg", g>>})
          /\ sg' = [sg EXCEPT ![g].phase = IF @ = "SYNCED" THEN "SYNCING" ELSE @]
      BY <2>2 DEF TriggerStorageGroupResync, Touched
    <3>2. g \in Group
      BY <1>1, <3>1 DEF Label
    <3> HIDE DEF g
    <3> QED
      BY <1>1, <3>1, <3>2 DEF TypeOK, GroupState, Phase
  <2> QED
    BY <2>1, <2>2
<1> HIDE DEF g
<1>5. run' \in Run /\ RunStays
  BY <1>4, StaleType DEF RunStays, TypeOK
<1>6. TypeOK'
  <2>1. \A h \in Group : sg'[h].phase \in {"SYNCING", "SYNCED"} => sg'[h].fin
    BY <1>4 DEF TypeOK
  <2> QED
    BY <1>2, <1>3, <1>4, <1>5, <2>1 DEF TypeOK, GroupState
<1>7. GroupsStep /\ DrivesStep /\ ACsStep
  BY <1>2, <1>3, <1>4 DEF GroupsStep, DrivesStep, ACsStep, GroupsOK, InPlace
<1> QED
  BY <1>3, <1>5, <1>6, <1>7, OthersStep

LEMMA DeleteGroupInv ==
  ASSUME SGInv, NEW g \in Group, DeleteGroup(g)
  PROVE  SGInv'
<1> USE DEF SGInv
<1>1. sg \in [Group -> GroupState]
  BY DEF TypeOK, GroupState
<1> DEFINE new == IF sg[g].fin THEN [sg[g] EXCEPT !.del = TRUE]
                  ELSE [phase |-> "absent", fin |-> FALSE, del |-> FALSE]
<1>2. /\ new \in GroupState /\ new.fin = sg[g].fin /\ (new.del => sg[g].fin)
      /\ new.phase = sg[g].phase \/ (~sg[g].fin /\ new.phase = "absent")
  BY <1>1 DEF GroupState, Phase
<1>3. /\ PutGroup(g, new) /\ run' = Stale({<<"sg", g>>}) /\ changes' \in 0..MaxChanges
      /\ UNCHANGED <<drive, ac, lvg, vol, placing, manual, lost>>
  BY ChangeType DEF DeleteGroup, Touched
<1> HIDE DEF new
<1>4. /\ sg' \in [Group -> GroupState] /\ queue' \subseteq Drive \cup Group
      /\ sg'[g] = new /\ \A h \in Group \ {g} : sg'[h] = sg[h]
  BY <1>2, <1>3, PutGroupType
<1>5. run' \in Run /\ RunStays
  BY <1>3, StaleType DEF RunStays
<1>6. GroupsStep /\ DrivesStep /\ ACsStep
  BY <1>2, <1>3, <1>4 DEF GroupsStep, DrivesStep, ACsStep, GroupsOK
<1>7. TypeOK'
  <2>1. \A h \in Group : sg'[h].phase \in {"SYNCING", "SYNCED"} => sg'[h].fin
    BY <1>2, <1>4 DEF TypeOK
  <2> QED
    BY <1>3, <1>4, <1>5, <2>1 DEF TypeOK, GroupState
<1> QED
  BY <1>3, <1>5, <1>6, <1>7, OthersStep

LEMMA RestartInv ==
  ASSUME SGInv, Restart
  PROVE  SGInv'
<1> USE DEF SGInv
<1>1. /\ UNCHANGED <<drive, ac, sg, lvg, vol, placing, manual, lost>> /\ run' = Ended
      /\ changes' \in 0..MaxChanges /\ queue' \subseteq Drive \cup Group
  BY ChangeType DEF Restart
<1>2. TypeOK'
  BY <1>1, ConstantTypes DEF TypeOK
<1> QED
  BY <1>1, <1>2, NothingMoves, EndStep

\* Once a user has edited a label nothing is promised of the numbers.
LEMMA EditLabelInv ==
  ASSUME SGInv, NEW d \in Drive, NEW l \in Label, EditLabel(d, l)
  PROVE  SGInv'
<1> USE DEF SGInv
<1> DEFINE new == [drive[d] EXCEPT !.label = l]
<1>1. drive[d] \in DriveState
  BY DEF TypeOK
<1>2. new \in DriveState /\ new.place = drive[d].place
  BY <1>1 DEF DriveState
<1>3. /\ PutDrive(d, new) /\ run' = Stale({<<"drive", d>>}) /\ manual' = TRUE
      /\ UNCHANGED <<ac, sg, lvg, vol, placing, lost>> /\ changes' \in 0..MaxChanges
  BY ChangeType DEF EditLabel, Touched
<1> HIDE DEF new
<1>4. /\ drive' \in [Drive -> DriveState] /\ queue' \subseteq Drive \cup Group
      /\ \A e \in Drive : drive'[e].place = drive[e].place
  BY <1>2, <1>3, PutDriveType
<1>5. run' \in Run /\ RunStays
  BY <1>3, StaleType DEF RunStays
<1>6. TypeOK'
  BY <1>3, <1>4, <1>5 DEF TypeOK
<1>7. GroupsStep /\ ACsStep
  BY <1>3 DEF GroupsStep, ACsStep, GroupsOK
<1>8. GroupsOK' /\ DriveRunOK' /\ GroupRunOK' /\ UnseenOK'
  BY <1>4, <1>5, <1>7, ControlStep
<1> QED
  BY <1>3, <1>6, <1>8

LEMMA StutterInv ==
  ASSUME SGInv, UNCHANGED vars
  PROVE  SGInv'
<1>1. UNCHANGED <<drive, ac, lvg, vol, placing, sg, queue, run, manual, lost, changes>>
  BY DEF vars
<1>2. TypeOK' /\ RunStays
  BY <1>1 DEF SGInv, TypeOK, RunStays
<1> QED
  BY <1>1, <1>2, NothingMoves, OthersStep

-----------------------------------------------------------------------------
(* The reconciliation of a drive                                           *)

LEMMA ReconcileDriveStartInv ==
  ASSUME SGInv, NEW d \in Drive, ReconcileDriveStart(d)
  PROVE  SGInv'
<1> USE DEF SGInv
<1>1. UNCHANGED <<drive, ac, sg, lvg, vol, placing, manual, lost, changes>>
      /\ queue' \subseteq Drive \cup Group /\ run.at = "idle"
  BY DEF ReconcileDriveStart, EnvUnchanged, TypeOK, IsIdle
<1>2. CASE run' = run
  <2>1. TypeOK' /\ RunStays
    BY <1>1, <1>2 DEF TypeOK, RunStays
  <2> QED
    BY <1>1, <2>1, NothingMoves, OthersStep
<1>3. CASE run' # run
  <2>1. InPlace(drive[d]) /\ run' = [Ended EXCEPT !.at = "drive", !.name = d, !.dr = drive[d]]
    BY <1>3 DEF ReconcileDriveStart
  <2>2. /\ run' \in Run /\ run'.at = "drive" /\ run'.name = d /\ run'.dr = drive[d]
        /\ run'.plan = << >>
    BY <2>1, ConstantTypes DEF Run, TypeOK
  <2>3. TypeOK'
    BY <1>1, <2>2 DEF TypeOK
  <2>4. GroupsOK' /\ DriveRunOK' /\ GroupRunOK'
    BY <1>1, <2>2 DEF GroupsOK, DriveRunOK, GroupRunOK
  <2>5. UnseenOK'
    BY <1>1, <2>1, <2>2 DEF UnseenOK, InPlace
  <2>6. ASSUME ~manual'
        PROVE  ReadOK' /\ LabelsOK' /\ CountOK'
    <3>1. ReadOK' /\ \A e, l : ~Planned(e, l)'
      BY <1>1, <2>2 DEF ReadOK, Planned
    <3>2. LabelsOK' /\ \A g \in Group, n \in Range(NodeOf) :
            Limited(g) => Cardinality(Holders(g, n)') <= NumberDrivesPerNode[g]
      BY <1>1, <2>6, <3>1, NothingMoves, StillActive, LabelsStep
    <3> QED
      BY <2>2, <3>1, <3>2 DEF CountOK, Limited
  <2> QED
    BY <2>3, <2>4, <2>5, <2>6
<1> QED
  BY <1>2, <1>3

\* What the reconciliation of a drive may write: it labels a drive for a group with a
\* number only to bring back the label of the AC.
LabelPlanOK(d, dr, plan) ==
  \A i \in DOMAIN plan :
    LET w == plan[i]
    IN  /\ w.kind \in {"drive", "ac", "sg"}
        /\ w.kind \in {"drive", "ac"} => w.id = d
        /\ w.kind = "sg" => w.val = "SYNCING" /\ sg[w.id].phase \in {"SYNCING", "SYNCED"}
        /\ w.kind = "ac" => i = Len(plan) /\ (Limited(w.val) => dr.label = w.val)
        /\ w.kind = "drive" =>
             /\ ac[d].label \in {None, w.val}
             /\ Limited(w.val) => ac[d].label = w.val
             /\ \A j \in DOMAIN plan : j > i => plan[j].kind = "ac" /\ ~Limited(plan[j].val)

LEMMA FindPlan ==
  ASSUME SGInv, NEW d \in Drive, NEW dr \in DriveState, ac[d].label = None,
         NEW plan \in FindAndAddMatchedStorageGroupLabel(d)
  PROVE  plan \in Seq(Writes) /\ LabelPlanOK(d, dr, plan)
<1> DEFINE before == OnTheWay(d)
<1>1. PICK q \in InOrder(before),
           l \in IF TakingAll(d) = {} THEN {<< >>}
                 ELSE {LabelBoth(d, g) : g \in FirstTakingAll(d)} :
        plan = ToSync(q) \o l
  BY DEF FindAndAddMatchedStorageGroupLabel
<1>2. before \subseteq Group
      /\ \A g \in before : sg[g].phase \in {"SYNCING", "SYNCED"}
  BY DEF OnTheWay, Matching
<1>3. Cardinality(before) \in Nat
  BY <1>2, GroupOrderAssumption, FS_Subset, FS_CardinalityType
<1> DEFINE n == Cardinality(before)
<1>4. DOMAIN q = 1..n /\ \A i \in 1..n : q[i] \in before
  <2>1. q \in [1..n -> before]
    BY DEF InOrder
  <2> QED
    BY <2>1
<1> DEFINE s == ToSync(q)
<1>5. s \in Seq(Writes) /\ Len(s) = n /\ \A i \in 1..n : s[i] = Write("sg", q[i], "SYNCING")
  <2>1. \A i \in 1..n : Write("sg", q[i], "SYNCING") \in Writes
    BY <1>2, <1>4, WriteType
  <2>2. s \in [1..n -> Writes] /\ \A i \in 1..n : s[i] = Write("sg", q[i], "SYNCING")
    BY <1>4, <2>1 DEF ToSync
  <2>3. n \in Nat
    BY <1>3
  <2> HIDE DEF s, n
  <2> QED
    BY <2>2, <2>3
<1>6. \/ l = << >>
      \/ \E g \in Group : /\ NumberDrivesPerNode[g] = 0
                          /\ l = LabelBoth(d, g)
  BY <1>1 DEF FirstTakingAll, TakingAll, Matching
<1> HIDE DEF s, n, before
<1>7. n \in Nat
  BY <1>3 DEF n
<1>8. \A i \in 1..n : /\ s[i].kind = "sg" /\ s[i].val = "SYNCING"
                      /\ sg[s[i].id].phase \in {"SYNCING", "SYNCED"}
  BY <1>2, <1>4, <1>5 DEF Write
<1>9. CASE l = << >>
  <2>1. plan = s
    BY <1>1, <1>5, <1>9 DEF s
  <2>2. DOMAIN plan = 1..n
    BY <1>5, <1>7, <2>1
  <2> QED
    BY <1>5, <1>8, <2>1, <2>2 DEF LabelPlanOK
<1>10. CASE l # << >>
  <2>1. PICK g \in Group : /\ NumberDrivesPerNode[g] = 0
                           /\ l = LabelBoth(d, g)
    BY <1>6, <1>10
  <2>2. Write("drive", d, g) \in Writes /\ Write("ac", d, g) \in Writes
    BY ConstantTypes, WriteType
  <2>3. l \in Seq(Writes) /\ Len(l) = 2
        /\ l[1] = Write("drive", d, g) /\ l[2] = Write("ac", d, g)
    BY <2>1, <2>2 DEF LabelBoth
  <2>4. plan = s \o l
    BY <1>1 DEF s
  <2>5. /\ plan \in Seq(Writes) /\ Len(plan) = n + 2 /\ DOMAIN plan = 1..(n + 2)
        /\ \A i \in 1..n : plan[i] = s[i]
        /\ plan[n + 1] = Write("drive", d, g) /\ plan[n + 2] = Write("ac", d, g)
    <3>1. plan \in Seq(Writes) /\ Len(plan) = n + 2
      BY <1>5, <2>3, <2>4, Concatenated
    <3>2. \A i \in 1..(n + 2) : plan[i] = IF i <= n THEN s[i] ELSE l[i - n]
      <4>1. \A i \in 1..(Len(s) + Len(l)) :
              (s \o l)[i] = IF i <= Len(s) THEN s[i] ELSE l[i - Len(s)]
        BY <1>5, <2>3, Concatenated
      <4> QED
        BY <1>5, <2>3, <2>4, <4>1
    <3>3. DOMAIN plan = 1..(n + 2)
      BY <3>1, <1>7
    <3>4. \A i \in 1..n : i \in 1..(n + 2) /\ i <= n
      BY <1>7
    <3>5. n + 1 \in 1..(n + 2) /\ n + 2 \in 1..(n + 2) /\ ~(n + 1 <= n) /\ ~(n + 2 <= n)
          /\ (n + 1) - n = 1 /\ (n + 2) - n = 2
      BY <1>7
    <3> QED
      BY <2>3, <3>1, <3>2, <3>3, <3>4, <3>5
  <2>6. ~Limited(g)
    BY <2>1 DEF Limited
  <2>7. \A i \in 1..(n + 2) : i \in 1..n \/ i = n + 1 \/ i = n + 2
    BY <1>7
  <2>8. /\ \A i \in 1..n : plan[i].kind = "sg"
        /\ plan[n + 1].kind = "drive" /\ plan[n + 1].id = d /\ plan[n + 1].val = g
        /\ plan[n + 2].kind = "ac" /\ plan[n + 2].id = d /\ plan[n + 2].val = g
    BY <1>8, <2>5 DEF Write
  <2>9. \A j \in 1..(n + 2) : j > n + 1 => j = n + 2
    BY <1>7
  <2>10. \A i \in 1..n : i # n + 1 /\ i # n + 2
    BY <1>7
  <2>11. ASSUME NEW i \in DOMAIN plan
         PROVE  LET w == plan[i]
                IN  /\ w.kind \in {"drive", "ac", "sg"}
                    /\ w.kind \in {"drive", "ac"} => w.id = d
                    /\ w.kind = "sg" => w.val = "SYNCING" /\ sg[w.id].phase \in {"SYNCING", "SYNCED"}
                    /\ w.kind = "ac" => i = Len(plan) /\ (Limited(w.val) => dr.label = w.val)
                    /\ w.kind = "drive" =>
                         /\ ac[d].label \in {None, w.val}
                         /\ Limited(w.val) => ac[d].label = w.val
                         /\ \A j \in DOMAIN plan :
                              j > i => plan[j].kind = "ac" /\ ~Limited(plan[j].val)
    <3>1. CASE i \in 1..n
      BY <1>8, <2>5, <3>1
    <3>2. CASE i = n + 1
      BY <2>5, <2>6, <2>8, <2>9, <3>2
    <3>3. CASE i = n + 2
      BY <2>5, <2>6, <2>8, <3>3
    <3> QED
      BY <2>5, <2>7, <3>1, <3>2, <3>3
  <2> QED
    BY <2>5, <2>11 DEF LabelPlanOK
<1> QED
  BY <1>9, <1>10

LEMMA LabelPlanShape ==
  ASSUME SGInv, NEW d \in Drive, NEW dr \in DriveState, NEW plan \in LabelPlan(d, dr)
  PROVE  plan \in Seq(Writes) /\ LabelPlanOK(d, dr, plan)
<1>1. dr.label \in Label /\ ac[d].label \in Label
  BY DEF SGInv, TypeOK, DriveState
<1>2. CASE plan = << >>
  BY <1>2 DEF LabelPlanOK
<1>3. CASE ac[d].label = dr.label /\ plan # << >>
  <2>1. plan \in FindAndAddMatchedStorageGroupLabel(d) /\ ac[d].label = None
    BY <1>3 DEF LabelPlan
  <2> QED
    BY <2>1, FindPlan
<1>4. CASE ac[d].label = None /\ dr.label # None
  <2> DEFINE g == dr.label
  <2>1. plan = HandleAddition(d, dr)
    BY <1>4 DEF LabelPlan
  <2>2. g \in Group
    BY <1>1, <1>4 DEF Label
  <2>3. ~Limited(None)
    BY GroupOrderAssumption DEF Limited
  <2>5. Write("ac", d, g) \in Writes /\ Write("drive", d, None) \in Writes
        /\ Write("sg", g, "SYNCING") \in Writes
    BY <1>1, <2>2, ConstantTypes, WriteType
  <2>4. \/ plan = <<Write("ac", d, g)>>
        \/ plan = <<Write("drive", d, None)>>
        \/ sg[g].phase = "SYNCED" /\ plan = <<Write("sg", g, "SYNCING"), Write("drive", d, None)>>
    <3>2. CASE ~dr.clean \/ d \in lvg \/ ~ac[d].free
      <4>1. \/ plan = << >> \o <<Write("drive", d, None)>>
            \/ /\ sg[g].phase = "SYNCED"
               /\ plan = <<Write("sg", g, "SYNCING")>> \o <<Write("drive", d, None)>>
        BY <2>1, <3>2 DEF HandleAddition
      <4> QED
        BY <2>5, <4>1, OneAndOne
    <3>3. CASE ~(~dr.clean \/ d \in lvg \/ ~ac[d].free)
      BY <2>1, <3>3 DEF HandleAddition
    <3> QED
      BY <3>2, <3>3
  <2>6. CASE plan = <<Write("ac", d, g)>>
    <3>1. DOMAIN plan = {1} /\ plan[1] = Write("ac", d, g) /\ Len(plan) = 1
      BY <2>6
    <3> QED
      BY <2>5, <2>6, <3>1 DEF LabelPlanOK, Write
  <2>7. CASE plan = <<Write("drive", d, None)>>
    <3>1. DOMAIN plan = {1} /\ plan[1] = Write("drive", d, None) /\ Len(plan) = 1
      BY <2>7
    <3> QED
      BY <1>4, <2>3, <2>5, <2>7, <3>1 DEF LabelPlanOK, Write
  <2>8. CASE sg[g].phase = "SYNCED"
             /\ plan = <<Write("sg", g, "SYNCING"), Write("drive", d, None)>>
    <3>1. /\ DOMAIN plan = {1, 2} /\ Len(plan) = 2
          /\ plan[1] = Write("sg", g, "SYNCING") /\ plan[2] = Write("drive", d, None)
      BY <2>8
    <3> QED
      BY <1>4, <2>3, <2>5, <2>8, <3>1 DEF LabelPlanOK, Write
  <2> QED
    BY <2>4, <2>6, <2>7, <2>8
<1>5. CASE ac[d].label # None /\ ac[d].label # dr.label
  <2> DEFINE g == ac[d].label
  <2>1. plan = <<Write("drive", d, g)>> \/ plan = <<Write("ac", d, None)>>
    <3>1. CASE dr.label = None
      BY <1>5, <3>1 DEF LabelPlan, HandleRemoval
    <3>2. CASE dr.label # None
      BY <1>5, <3>2 DEF LabelPlan
    <3> QED
      BY <3>1, <3>2
  <2>2. ~Limited(None)
    BY GroupOrderAssumption DEF Limited
  <2>3. Write("drive", d, g) \in Writes /\ Write("ac", d, None) \in Writes
    BY <1>1, ConstantTypes, WriteType
  <2>4. CASE plan = <<Write("drive", d, g)>>
    <3>1. DOMAIN plan = {1} /\ plan[1] = Write("drive", d, g) /\ Len(plan) = 1
      BY <2>4
    <3> QED
      BY <2>3, <2>4, <3>1 DEF LabelPlanOK, Write
  <2>5. CASE plan = <<Write("ac", d, None)>>
    <3>1. DOMAIN plan = {1} /\ plan[1] = Write("ac", d, None) /\ Len(plan) = 1
      BY <2>5
    <3> QED
      BY <2>2, <2>3, <2>5, <3>1 DEF LabelPlanOK, Write
  <2> QED
    BY <2>1, <2>4, <2>5
<1> QED
  BY <1>2, <1>3, <1>4, <1>5

LEMMA ReconcileDriveLabelInv ==
  ASSUME SGInv, ReconcileDriveStorageGroupLabel
  PROVE  SGInv'
<1> USE DEF SGInv
<1> DEFINE d == run.name
<1>1. UNCHANGED <<drive, ac, sg, lvg, vol, placing, manual, lost, changes>>
      /\ run.at = "drive"
  BY DEF ReconcileDriveStorageGroupLabel, EnvUnchanged
<1>2. d \in Drive /\ run \in Run /\ run.dr \in DriveState /\ run.plan = << >>
  BY <1>1 DEF DriveRunOK, TypeOK, Run
<1>3. queue' \subseteq Drive \cup Group
  BY <1>2 DEF ReconcileDriveStorageGroupLabel, TypeOK
<1>4. CASE run' = Ended
  <2>1. TypeOK'
    BY <1>1, <1>3, <1>4, ConstantTypes DEF TypeOK
  <2> QED
    BY <1>1, <1>4, <2>1, NothingMoves, EndStep
<1>5. CASE run' # Ended
  <2>1. PICK plan \in LabelPlan(d, run.dr) :
          run' = [run EXCEPT !.at = "write", !.dr = NoDrive, !.plan = plan] /\ plan # << >>
    BY <1>5 DEF ReconcileDriveStorageGroupLabel
  <2>2. plan \in Seq(Writes) /\ LabelPlanOK(d, run.dr, plan)
    BY <1>2, LabelPlanShape
  <2>3. run' \in Run /\ run'.at = "write" /\ run'.name = d /\ run'.plan = plan
    BY <1>2, <2>1, <2>2, ConstantTypes DEF Run
  <2> HIDE DEF d
  <2>4. TypeOK'
    BY <1>1, <1>3, <2>3 DEF TypeOK
  <2>5. GroupsOK' /\ GroupRunOK'
    BY <1>1, <2>3 DEF GroupsOK, GroupRunOK
  <2>6. \A i \in DOMAIN plan : plan[i] \in Writes
    BY <2>2
  <2>7. DriveRunOK'
    <3>1. \A i \in DOMAIN plan : plan[i].kind = "sg" =>
            plan[i].id \in Group /\ sg[plan[i].id].fin
      BY <2>2, <2>6, WriteSorts DEF LabelPlanOK, TypeOK
    <3> QED
      BY <1>1, <1>2, <2>1, <2>2, <2>3, <3>1 DEF DriveRunOK, LabelPlanOK
  <2>8. UnseenOK'
    BY <1>1, <2>3 DEF UnseenOK, d
  <2>9. ASSUME ~manual'
        PROVE  ReadOK' /\ LabelsOK' /\ CountOK'
    <3>1. ReadOK'
      <4>1. InPlace(drive[d]) => run.dr.label = drive[d].label
        BY <1>1, <2>9 DEF ReadOK, d
      <4> QED
        BY <1>1, <2>2, <2>3, <4>1 DEF ReadOK, LabelPlanOK, Limited
    <3>2. ASSUME NEW e \in Drive, NEW g \in Group, Limited(g), Planned(e, g)'
          PROVE  e = d /\ ac[e].label = g
      BY <2>2, <2>3, <3>2 DEF Planned, LabelPlanOK, Write
    <3>3. LabelsOK'
      BY <1>1, <2>9, <3>2 DEF LabelsOK, Limited, Active
    <3>4. ASSUME NEW g \in Group, NEW n \in Range(NodeOf), Limited(g)
          PROVE  Cardinality(Holders(g, n)') <= NumberDrivesPerNode[g]
      <4>1. Holders(g, n)' \subseteq Holders(g, n)
        BY <1>1, <3>2, <3>4 DEF Holders
      <4> QED
        BY <1>1, <2>9, <3>4, <4>1, HoldersFewer
    <3> QED
      BY <2>3, <3>1, <3>3, <3>4 DEF CountOK, Limited
  <2> QED
    BY <2>4, <2>5, <2>7, <2>8, <2>9
<1> QED
  BY <1>4, <1>5

\* What an update does when the API server takes it.
Applied(w) ==
  /\ drive' \in [Drive -> DriveState] /\ ac' \in [Drive -> ACState]
  /\ sg' \in [Group -> GroupState] /\ queue' \subseteq Drive \cup Group
  /\ placing' \in [Drive -> {"no", "lvg", "volume", "decrease", "conflict"}]
  /\ \A g \in Group : sg'[g].phase \in {"SYNCING", "SYNCED"} => sg'[g].fin
  /\ \A e \in Drive :
       /\ drive'[e].place = drive[e].place
       /\ drive'[e].label = IF w.kind = "drive" /\ e = w.id THEN w.val ELSE drive[e].label
       /\ ac'[e].label = IF w.kind = "ac" /\ e = w.id THEN w.val ELSE ac[e].label
  /\ \A g \in Group :
       /\ sg'[g].del = sg[g].del
       /\ sg'[g].fin = IF w.kind = "fin" /\ g = w.id THEN TRUE ELSE sg[g].fin
       /\ sg'[g].phase = IF w.kind = "sg" /\ g = w.id THEN w.val ELSE sg[g].phase
  /\ w.kind \in {"sg", "fin"} => sg[w.id].phase # "absent"

LEMMA ApplyType ==
  ASSUME TypeOK, NEW w \in Writes, Apply(w), CanWrite(w),
         w.kind = "sg" /\ w.val = "SYNCING" => sg[w.id].fin
  PROVE  Applied(w)
<1> USE DEF Applied
<1>1. drive \in [Drive -> DriveState] /\ ac \in [Drive -> ACState] /\ sg \in [Group -> GroupState]
      /\ queue \subseteq Drive \cup Group
      /\ placing \in [Drive -> {"no", "lvg", "volume", "decrease", "conflict"}]
      /\ \A g \in Group : sg[g].phase \in {"SYNCING", "SYNCED"} => sg[g].fin
  BY DEF TypeOK, ACState, GroupState
<1>2. w.kind \in {"drive", "ac", "sg", "fin"}
  BY WriteSorts
<1>3. w.kind \in {"sg", "fin"} => sg[w.id].phase # "absent"
  BY DEF CanWrite
<1>4. CASE w.kind = "drive"
  <2>1. w.id \in Drive /\ w.val \in Label
    BY <1>4, WriteSorts
  <2> DEFINE new == [drive[w.id] EXCEPT !.label = w.val]
  <2>2. PutDrive(w.id, new) /\ UNCHANGED <<ac, sg, placing>>
    BY <1>4 DEF Apply
  <2>3. new \in DriveState /\ new.place = drive[w.id].place /\ new.label = w.val
    BY <1>1, <2>1 DEF DriveState
  <2> HIDE DEF new
  <2>4. drive' \in [Drive -> DriveState] /\ queue' \subseteq Drive \cup Group
        /\ drive'[w.id] = new /\ \A e \in Drive \ {w.id} : drive'[e] = drive[e]
    BY <2>1, <2>2, <2>3, PutDriveType
  <2> QED
    BY <1>1, <1>4, <2>1, <2>2, <2>3, <2>4
<1>5. CASE w.kind = "ac"
  <2>1. w.id \in Drive /\ w.val \in Label
    BY <1>5, WriteSorts
  <2>2. ac' = [ac EXCEPT ![w.id].label = w.val] /\ placing' = Conflict(w.id)
        /\ UNCHANGED <<drive, sg, queue>>
    BY <1>5 DEF Apply
  <2>3. ac' \in [Drive -> ACState] /\ ac'[w.id].label = w.val
        /\ \A e \in Drive \ {w.id} : ac'[e] = ac[e]
    BY <1>1, <2>1, <2>2 DEF ACState
  <2> QED
    BY <1>1, <1>5, <2>1, <2>2, <2>3, ConflictType
<1>6. CASE w.kind = "sg"
  <2>1. w.id \in Group /\ w.val \in Phase
    BY <1>6, WriteSorts DEF Phase
  <2> DEFINE new == [sg[w.id] EXCEPT !.phase = w.val]
  <2>2. PutGroup(w.id, new) /\ UNCHANGED <<drive, ac, placing>>
    BY <1>6 DEF Apply
  <2>3. new \in GroupState /\ new.phase = w.val /\ new.fin = sg[w.id].fin /\ new.del = sg[w.id].del
    BY <1>1, <2>1 DEF GroupState
  <2> HIDE DEF new
  <2>4. sg' \in [Group -> GroupState] /\ queue' \subseteq Drive \cup Group
        /\ sg'[w.id] = new /\ \A h \in Group \ {w.id} : sg'[h] = sg[h]
    BY <2>1, <2>2, <2>3, PutGroupType
  <2>5. w.val # "SYNCED"
    BY <1>6, WriteSorts
  <2> QED
    BY <1>1, <1>3, <1>6, <2>1, <2>2, <2>3, <2>4, <2>5
<1>7. CASE w.kind = "fin"
  <2>1. w.id \in Group
    BY <1>7, WriteSorts
  <2> DEFINE new == [sg[w.id] EXCEPT !.fin = TRUE]
  <2>2. PutGroup(w.id, new) /\ UNCHANGED <<drive, ac, placing>>
    BY <1>7 DEF Apply
  <2>3. new \in GroupState /\ new.phase = sg[w.id].phase /\ new.fin = TRUE
        /\ new.del = sg[w.id].del
    BY <1>1, <2>1 DEF GroupState
  <2> HIDE DEF new
  <2>4. sg' \in [Group -> GroupState] /\ queue' \subseteq Drive \cup Group
        /\ sg'[w.id] = new /\ \A h \in Group \ {w.id} : sg'[h] = sg[h]
    BY <2>1, <2>2, <2>3, PutGroupType
  <2> QED
    BY <1>1, <1>3, <1>7, <2>1, <2>2, <2>3, <2>4
<1> QED
  BY <1>2, <1>4, <1>5, <1>6, <1>7

LEMMA DriveWriteInv ==
  ASSUME SGInv, DriveWrite
  PROVE  SGInv'
<1> USE DEF SGInv
<1> DEFINE w == Head(run.plan)
           d == run.name
<1>1. /\ run.at = "write" /\ CanWrite(w) /\ Apply(w)
      /\ run' = IF Len(run.plan) = 1 THEN Ended ELSE [run EXCEPT !.plan = Tail(@)]
      /\ UNCHANGED <<lvg, vol, manual, lost, changes>>
  BY DEF DriveWrite
<1>2. run \in Run /\ run.plan \in Seq(Writes) /\ run.plan # << >> /\ d \in Drive
  BY <1>1 DEF TypeOK, Run, DriveRunOK
<1>3. /\ w \in Writes /\ w = run.plan[1] /\ 1 \in DOMAIN run.plan
      /\ DOMAIN run.plan = 1..Len(run.plan) /\ Len(run.plan) \in Nat \ {0}
      /\ Tail(run.plan) \in Seq(Writes) /\ Len(Tail(run.plan)) = Len(run.plan) - 1
      /\ \A i \in DOMAIN Tail(run.plan) :
           /\ i \in Nat /\ i + 1 \in DOMAIN run.plan /\ i + 1 > 1
           /\ Tail(run.plan)[i] = run.plan[i + 1]
      /\ Len(run.plan) # 1 => Tail(run.plan) # << >>
  BY <1>2, PlanTail
<1>4. /\ run' \in Run /\ run'.at \in {"write", "idle"}
      /\ run'.at = "write" =>
           run'.name = d /\ run'.plan # << >> /\ run'.plan = Tail(run.plan)
  <2>1. CASE Len(run.plan) = 1
    BY <1>1, <2>1, ConstantTypes
  <2>2. CASE Len(run.plan) # 1
    <3>1. Tail(run.plan) # << >>
      BY <1>3, <2>2
    <3> QED
      BY <1>1, <1>2, <1>3, <2>2, <3>1 DEF Run
  <2> QED
    BY <2>1, <2>2
<1> HIDE DEF w
<1>5. /\ w.kind \in {"drive", "ac", "sg"}
      /\ w.kind \in {"drive", "ac"} => w.id = d
      /\ w.kind = "sg" => /\ w.val = "SYNCING"
                          /\ sg[w.id].fin /\ sg[w.id].phase \in {"SYNCING", "SYNCED"}
      /\ w.kind = "ac" => 1 = Len(run.plan)
      /\ w.kind = "drive" => \A j \in DOMAIN run.plan :
           j > 1 => run.plan[j].kind = "ac" /\ ~Limited(run.plan[j].val)
  BY <1>1, <1>3 DEF DriveRunOK
<1>6. /\ drive' \in [Drive -> DriveState] /\ ac' \in [Drive -> ACState]
      /\ sg' \in [Group -> GroupState] /\ queue' \subseteq Drive \cup Group
      /\ placing' \in [Drive -> {"no", "lvg", "volume", "decrease", "conflict"}]
      /\ \A g \in Group : sg'[g].phase \in {"SYNCING", "SYNCED"} => sg'[g].fin
      /\ \A e \in Drive :
           /\ drive'[e].place = drive[e].place
           /\ drive'[e].label = IF w.kind = "drive" /\ e = w.id THEN w.val ELSE drive[e].label
           /\ ac'[e].label = IF w.kind = "ac" /\ e = w.id THEN w.val ELSE ac[e].label
      /\ \A g \in Group :
           /\ sg'[g].del = sg[g].del /\ sg'[g].fin = sg[g].fin
           /\ sg'[g].phase = IF w.kind = "sg" /\ g = w.id THEN w.val ELSE sg[g].phase
  <2>1. Applied(w)
    BY <1>1, <1>3, <1>5, ApplyType
  <2> QED
    BY <1>5, <2>1 DEF Applied
<1>7. TypeOK'
  BY <1>1, <1>4, <1>6 DEF TypeOK, ACState, GroupState
<1>8. GroupsOK'
  BY <1>5, <1>6 DEF GroupsOK
<1>9. GroupRunOK'
  BY <1>4 DEF GroupRunOK
<1>10. run'.at = "write" =>
         /\ Len(run'.plan) = Len(run.plan) - 1
         /\ \A i \in DOMAIN run'.plan : /\ i \in Nat /\ i + 1 \in DOMAIN run.plan /\ i + 1 > 1
                                        /\ run'.plan[i] = run.plan[i + 1]
  BY <1>3, <1>4
<1>11. DriveRunOK'
  <2>1. \A i \in DOMAIN run.plan : run.plan[i] \in Writes
    BY <1>2
  <2>2. \A i \in DOMAIN run.plan : run.plan[i].kind = "sg" => run.plan[i].id \in Group
    BY <2>1, WriteSorts
  <2>3. ASSUME run'.at = "write", NEW i \in DOMAIN run'.plan
        PROVE  LET v == run'.plan[i]
               IN  /\ v.kind \in {"drive", "ac", "sg"}
                   /\ v.kind \in {"drive", "ac"} => v.id = d
                   /\ v.kind = "sg" => /\ v.val = "SYNCING"
                                       /\ sg'[v.id].fin /\ sg'[v.id].phase \in {"SYNCING", "SYNCED"}
                   /\ v.kind = "ac" => i = Len(run'.plan)
                   /\ v.kind = "drive" => \A j \in DOMAIN run'.plan :
                        j > i => run'.plan[j].kind = "ac" /\ ~Limited(run'.plan[j].val)
    <3> DEFINE v == run.plan[i + 1]
    <3>1. i \in Nat /\ i + 1 \in DOMAIN run.plan /\ run'.plan[i] = v
      BY <1>10, <2>3
    <3>2. /\ v.kind \in {"drive", "ac", "sg"}
          /\ v.kind \in {"drive", "ac"} => v.id = d
          /\ v.kind = "sg" => /\ v.val = "SYNCING"
                              /\ sg[v.id].fin /\ sg[v.id].phase \in {"SYNCING", "SYNCED"}
          /\ v.kind = "ac" => i + 1 = Len(run.plan)
          /\ v.kind = "drive" => \A j \in DOMAIN run.plan :
               j > i + 1 => run.plan[j].kind = "ac" /\ ~Limited(run.plan[j].val)
      BY <1>1, <3>1 DEF DriveRunOK
    <3>3. v.kind = "sg" => sg'[v.id].fin /\ sg'[v.id].phase \in {"SYNCING", "SYNCED"}
      BY <1>5, <1>6, <2>2, <3>1, <3>2
    <3>4. v.kind = "ac" => i = Len(run'.plan)
      BY <1>3, <1>10, <2>3, <3>1, <3>2
    <3>5. v.kind = "drive" => \A j \in DOMAIN run'.plan :
            j > i => run'.plan[j].kind = "ac" /\ ~Limited(run'.plan[j].val)
      <4>1. \A j \in DOMAIN run'.plan : j > i => j + 1 > i + 1
        BY <1>10, <2>3, <3>1
      <4> QED
        BY <1>10, <2>3, <3>2, <4>1
    <3> HIDE DEF v
    <3> QED
      BY <3>1, <3>2, <3>3, <3>4, <3>5
  <2> QED
    BY <1>2, <1>4, <2>3 DEF DriveRunOK, Limited
<1>12. UnseenOK'
  <2>1. drive[d].place # "unseen"
    BY <1>1, <1>2 DEF UnseenOK
  <2>2. ASSUME NEW e \in Drive, drive'[e].place = "unseen"
        PROVE  ac'[e].label = None /\ (run'.at \in {"drive", "write"} => run'.name # e)
    <3>1. e # d /\ drive[e].place = "unseen" /\ ac[e].label = None
      BY <1>6, <2>1, <2>2 DEF UnseenOK
    <3> QED
      BY <1>4, <1>5, <1>6, <3>1
  <2> QED
    BY <1>4, <2>2 DEF UnseenOK
<1>13. ASSUME ~manual'
       PROVE  ReadOK' /\ LabelsOK' /\ CountOK'
  <2>1. ~manual
    BY <1>1, <1>13
  <2>2. \A g \in Group : Active(g)' => Active(g)
    BY <1>5, <1>6 DEF Active
  <2>3. InPlace(drive[d]) =>
          /\ w.kind = "drive" => ac[d].label \in {None, w.val}
          /\ (w.kind = "ac" /\ Limited(w.val)) => drive[d].label = w.val
    BY <1>1, <1>3, <2>1 DEF ReadOK
  <2>4. ASSUME NEW e \in Drive, NEW g \in Group, Planned(e, g)'
        PROVE  Planned(e, g) /\ w.kind # "drive"
    <3>1. PICK i \in DOMAIN run'.plan : run'.plan[i] = Write("drive", e, g) /\ run'.at = "write"
      BY <2>4 DEF Planned
    <3>2. i + 1 \in DOMAIN run.plan /\ i + 1 > 1 /\ run.plan[i + 1] = Write("drive", e, g)
      BY <1>10, <3>1
    <3>3. Write("drive", e, g).kind = "drive"
      BY DEF Write
    <3> QED
      BY <1>1, <1>5, <3>2, <3>3 DEF Planned
  <2>5. ASSUME w.kind = "drive", NEW g \in Group, w.val = g
        PROVE  Planned(d, g)
    <3>1. w = Write("drive", d, g)
      BY <1>3, <1>5, <2>5 DEF Writes, Write
    <3> QED
      BY <1>1, <1>3, <3>1 DEF Planned
  <2>6. LabelsOK'
    <3> SUFFICES ASSUME NEW g \in Group, NEW e \in Drive, Limited(g), Active(g)',
                        InPlace(drive'[e]), ac'[e].label = g \/ Planned(e, g)'
                 PROVE  drive'[e].label = g
      BY DEF LabelsOK, Limited
    <3>1. InPlace(drive[e]) /\ Active(g) /\ g # None
      BY <1>6, <2>2, GroupOrderAssumption DEF InPlace
    <3>2. CASE ac[e].label = g \/ Planned(e, g)'
      <4>1. drive[e].label = g
        BY <2>1, <2>4, <3>1, <3>2 DEF LabelsOK
      <4>2. w.kind = "drive" /\ e = w.id => w.val = g
        BY <1>5, <2>3, <2>4, <3>1, <3>2
      <4> QED
        BY <1>6, <4>1, <4>2
    <3>3. CASE ac'[e].label = g /\ ac[e].label # g
      <4>1. w.kind = "ac" /\ e = d /\ w.val = g
        BY <1>5, <1>6, <3>3
      <4> QED
        BY <1>6, <2>3, <3>1, <4>1
    <3> QED
      BY <3>2, <3>3
  <2>7. ASSUME NEW g \in Group, NEW n \in Range(NodeOf), Limited(g)
        PROVE  Cardinality(Holders(g, n)') <= NumberDrivesPerNode[g]
    <3>1. ASSUME NEW e \in Drive, InPlace(drive'[e]),
                 drive'[e].label = g \/ ac'[e].label = g \/ Planned(e, g)'
          PROVE  InPlace(drive[e]) /\ (drive[e].label = g \/ ac[e].label = g \/ Planned(e, g))
      <4>1. InPlace(drive[e])
        BY <1>6, <3>1 DEF InPlace
      <4>2. CASE drive'[e].label = g
        BY <1>5, <1>6, <2>5, <4>1, <4>2
      <4>3. CASE ac'[e].label = g
        BY <1>5, <1>6, <2>3, <2>7, <4>1, <4>3
      <4> QED
        BY <2>4, <3>1, <4>1, <4>2, <4>3
    <3>2. Holders(g, n)' \subseteq Holders(g, n)
      BY <3>1 DEF Holders
    <3> QED
      BY <2>1, <2>7, <3>2, HoldersFewer
  <2>8. CountOK'
    BY <1>4, <2>7 DEF CountOK, Limited
  <2>9. ReadOK'
    <3> SUFFICES ASSUME run'.at = "write", InPlace(drive'[d]), NEW i \in DOMAIN run'.plan
                 PROVE  /\ run'.plan[i].kind = "drive" => ac'[d].label \in {None, run'.plan[i].val}
                        /\ (run'.plan[i].kind = "ac" /\ Limited(run'.plan[i].val)) =>
                             drive'[d].label = run'.plan[i].val
      BY <1>4 DEF ReadOK, Limited
    <3>1. i + 1 \in DOMAIN run.plan /\ i + 1 > 1 /\ run'.plan[i] = run.plan[i + 1]
      BY <1>10
    <3>2. InPlace(drive[d])
      BY <1>2, <1>6 DEF InPlace
    <3>3. /\ run.plan[i + 1].kind = "drive" => ac[d].label \in {None, run.plan[i + 1].val}
          /\ (run.plan[i + 1].kind = "ac" /\ Limited(run.plan[i + 1].val)) =>
               drive[d].label = run.plan[i + 1].val
      BY <1>1, <2>1, <3>1, <3>2 DEF ReadOK
    <3>4. w.kind # "ac"
      BY <1>3, <1>5, <3>1
    <3>5. w.kind = "drive" => run.plan[i + 1].kind = "ac" /\ ~Limited(run.plan[i + 1].val)
      BY <1>5, <3>1
    <3> QED
      BY <1>2, <1>6, <3>1, <3>3, <3>4, <3>5
  <2> QED
    BY <2>6, <2>8, <2>9
<1> QED
  BY <1>7, <1>8, <1>9, <1>11, <1>12, <1>13

LEMMA DriveWriteFailsInv ==
  ASSUME SGInv, DriveWriteFails
  PROVE  SGInv'
<1> USE DEF SGInv
<1>1. /\ UNCHANGED <<drive, ac, sg, lvg, vol, placing, manual, lost>> /\ run' = Ended
      /\ run.at = "write" /\ queue' = queue \cup {run.name}
      /\ changes' \in 0..MaxChanges
  BY ChangeType DEF DriveWriteFails
<1>2. run.name \in Drive
  BY <1>1 DEF DriveRunOK
<1>3. TypeOK'
  BY <1>1, <1>2, ConstantTypes DEF TypeOK
<1> QED
  BY <1>1, <1>3, NothingMoves, EndStep

-----------------------------------------------------------------------------
(* The reconciliation of a group                                           *)

LEMMA GroupPlansType ==
  ASSUME NEW g \in Group, NEW plan \in GroupPlans(g)
  PROVE  /\ plan \in Seq(Writes) /\ plan # << >>
         /\ \/ Len(plan) = 1 /\ plan[1] = Write("fin", g, None)
            \/ Len(plan) = 1 /\ \E p \in {"SYNCING", "INVALID", "REMOVING"} :
                                  plan[1] = Write("sg", g, p)
            \/ /\ Len(plan) = 2 /\ plan[1] = Write("fin", g, None)
               /\ \E p \in {"SYNCING", "INVALID"} :
                    plan[2] = Write("sg", g, p) /\ Tail(plan) = <<Write("sg", g, p)>>
<1>1. /\ Write("fin", g, None) \in Writes
      /\ \A p \in {"SYNCING", "INVALID", "REMOVING"} : Write("sg", g, p) \in Writes
  BY WriteType
<1>2. \/ plan = <<Write("fin", g, None)>>
      \/ \E p \in {"SYNCING", "INVALID", "REMOVING"} : plan = <<Write("sg", g, p)>>
      \/ \E p \in {"SYNCING", "INVALID"} : plan = <<Write("fin", g, None), Write("sg", g, p)>>
  BY DEF GroupPlans
<1>3. CASE plan = <<Write("fin", g, None)>>
  BY <1>1, <1>3
<1>4. ASSUME NEW p \in {"SYNCING", "INVALID", "REMOVING"}, plan = <<Write("sg", g, p)>>
      PROVE  plan \in Seq(Writes) /\ plan # << >> /\ Len(plan) = 1 /\ plan[1] = Write("sg", g, p)
  BY <1>1, <1>4
<1>5. ASSUME NEW p \in {"SYNCING", "INVALID"},
             plan = <<Write("fin", g, None), Write("sg", g, p)>>
      PROVE  /\ plan \in Seq(Writes) /\ plan # << >> /\ Len(plan) = 2
             /\ plan[1] = Write("fin", g, None) /\ plan[2] = Write("sg", g, p)
             /\ Tail(plan) = <<Write("sg", g, p)>>
  <2>1. Write("sg", g, p) \in Writes
    BY <1>1
  <2> QED
    BY <1>1, <1>5, <2>1
<1> QED
  BY <1>2, <1>3, <1>4, <1>5

LEMMA GroupPlanShape ==
  ASSUME SGInv, NEW g \in Group, NEW plan, plan = GroupPlan(sg[g], g), plan # << >>
  PROVE  LET last == plan[Len(plan)]
         IN  /\ plan \in GroupPlans(g)
             /\ plan[1].kind = "sg" => sg[g].fin
             /\ last.kind = "sg" /\ last.val \in {"SYNCING", "INVALID"} => sg[g].phase = ""
             /\ (\/ sg[g].del \/ sg[g].phase = "SYNCING"
                 \/ sg[g].phase = "" /\ IsStorageGroupValid(g)) =>
                  last.kind = "sg" /\ last.val \in {"SYNCING", "REMOVING"}
<1> DEFINE s == sg[g]
           fin == Write("fin", g, None)
           last == plan[Len(plan)]
<1>1. /\ s.del \in BOOLEAN /\ s.fin \in BOOLEAN /\ (s.del => s.fin)
      /\ s.phase \in {"SYNCING", "SYNCED"} => s.fin
  BY DEF SGInv, TypeOK, GroupsOK
<1>2. fin.kind = "fin"
      /\ \A p : Write("sg", g, p).kind = "sg" /\ Write("sg", g, p).val = p
  BY DEF Write
<1>3. CASE s.del
  <2>1. plan = <<Write("sg", g, "REMOVING")>>
    <3>1. s.phase # "REMOVING"
      BY <1>3 DEF GroupPlan
    <3> QED
      BY <1>3, <3>1 DEF GroupPlan
  <2>2. plan \in GroupPlans(g)
    BY <2>1 DEF GroupPlans
  <2>3. plan[1] = Write("sg", g, "REMOVING") /\ last = Write("sg", g, "REMOVING")
    BY <2>1
  <2> QED
    BY <1>1, <1>2, <1>3, <2>2, <2>3
<1>4. CASE ~s.del /\ s.phase = ""
  <2> DEFINE p == IF IsStorageGroupValid(g) THEN "SYNCING" ELSE "INVALID"
  <2>1. plan = (IF s.fin THEN << >> ELSE <<fin>>) \o <<Write("sg", g, p)>>
    BY <1>4 DEF GroupPlan
  <2>2. p \in {"SYNCING", "INVALID"} /\ (IsStorageGroupValid(g) => p = "SYNCING")
    OBVIOUS
  <2> HIDE DEF p
  <2>3. fin \in Writes /\ Write("sg", g, p) \in Writes
    BY <2>2, WriteType
  <2>4. CASE s.fin
    <3>1. plan = <<Write("sg", g, p)>>
      BY <2>1, <2>3, <2>4, OneAndOne
    <3>2. plan \in GroupPlans(g)
      BY <2>2, <3>1 DEF GroupPlans
    <3>3. plan[1] = Write("sg", g, p) /\ last = Write("sg", g, p)
      BY <3>1
    <3> QED
      BY <1>1, <1>2, <1>4, <2>2, <2>4, <3>2, <3>3
  <2>5. CASE ~s.fin
    <3>1. plan = <<fin, Write("sg", g, p)>>
      BY <2>1, <2>3, <2>5, OneAndOne
    <3>2. plan \in GroupPlans(g)
      BY <2>2, <3>1 DEF GroupPlans
    <3>3. plan[1] = fin /\ last = Write("sg", g, p)
      BY <3>1
    <3> QED
      BY <1>1, <1>2, <1>4, <2>2, <2>5, <3>2, <3>3
  <2> QED
    BY <2>4, <2>5
<1>5. CASE ~s.del /\ s.phase # ""
  <2>1. plan = <<fin>> /\ ~s.fin
    <3>1. plan = IF s.fin THEN << >> ELSE <<fin>>
      BY <1>5 DEF GroupPlan
    <3> QED
      BY <3>1
  <2>2. plan \in GroupPlans(g)
    BY <2>1 DEF GroupPlans
  <2>3. plan[1] = fin /\ last = fin
    BY <2>1
  <2> QED
    BY <1>1, <1>2, <1>5, <2>1, <2>2, <2>3
<1> QED
  BY <1>3, <1>4, <1>5

\* A step of the reconciliation of a group that writes no label.
LEMMA LabelsStay ==
  ASSUME SGInv, ~manual, UNCHANGED <<drive, ac>>, run'.at # "write",
         \A g \in Group : Active(g)' => Active(g)
  PROVE  /\ LabelsOK'
         /\ \A g \in Group, n \in Range(NodeOf) :
              Limited(g) => Cardinality(Holders(g, n)') <= NumberDrivesPerNode[g]
<1>1. DrivesStep /\ ACsStep
  BY DEF DrivesStep, ACsStep
<1>2. \A d \in Drive, g \in Group : ~Planned(d, g)'
  BY DEF Planned
<1> QED
  BY <1>1, <1>2, LabelsStep

LEMMA ReconcileGroupStartInv ==
  ASSUME SGInv, NEW g \in Group, ReconcileGroupStart(g)
  PROVE  SGInv'
<1> USE DEF SGInv
<1> DEFINE s == sg[g]
           plan == GroupPlan(s, g)
           goes == s.del \/ s.phase = "SYNCING" \/ (s.phase = "" /\ IsStorageGroupValid(g))
           then == IF goes THEN "list" ELSE "idle"
<1>1. UNCHANGED <<drive, ac, sg, lvg, vol, placing, manual, lost, changes>>
      /\ queue' \subseteq Drive \cup Group /\ run.at = "idle"
  BY DEF ReconcileGroupStart, EnvUnchanged, TypeOK, IsIdle
<1>2. \/ run' = run
      \/ /\ plan # << >>
         /\ run' = [Ended EXCEPT !.at = "group", !.name = g, !.plan = plan,
                                 !.kept = (then = "list")]
      \/ /\ plan = << >> /\ goes /\ s.phase # "absent"
         /\ run' = [Ended EXCEPT !.at = "list", !.name = g]
  <2>1. CASE s.phase = "absent"
    BY <2>1 DEF ReconcileGroupStart
  <2>2. CASE s.phase # "absent" /\ plan # << >>
    BY <2>2 DEF ReconcileGroupStart
  <2>3. CASE s.phase # "absent" /\ plan = << >>
    <3>1. run' = IF then = "idle" THEN run ELSE [Ended EXCEPT !.at = "list", !.name = g]
      BY <2>3 DEF ReconcileGroupStart
    <3> QED
      BY <2>3, <3>1
  <2> QED
    BY <2>1, <2>2, <2>3
<1>3. CASE run' = run
  <2>1. TypeOK' /\ RunStays
    BY <1>1, <1>3 DEF TypeOK, RunStays
  <2> QED
    BY <1>1, <2>1, NothingMoves, OthersStep
<1> SUFFICES ASSUME run' # run
             PROVE  SGInv'
  BY <1>3
<1>4. /\ run' \in Run /\ run'.at \in {"group", "list"} /\ run'.name = g /\ run'.todo = {}
      /\ run'.at = "group" => run'.plan = plan /\ plan # << >> /\ (run'.kept => goes)
      /\ run'.at = "list" => run'.plan = << >> /\ goes /\ plan = << >>
  <2>1. CASE plan # << >>
    <3>1. run' = [Ended EXCEPT !.at = "group", !.name = g, !.plan = plan,
                               !.kept = (then = "list")]
      BY <1>2, <2>1
    <3>2. (then = "list") \in BOOLEAN /\ ((then = "list") => goes)
      OBVIOUS
    <3>3. plan \in Seq(Writes)
      BY <2>1, GroupPlanShape, GroupPlansType
    <3> HIDE DEF plan, then, goes
    <3> QED
      BY <2>1, <3>1, <3>2, <3>3, ConstantTypes DEF Run
  <2>2. CASE plan = << >>
    <3>1. run' = [Ended EXCEPT !.at = "list", !.name = g] /\ goes
      BY <1>2, <2>2
    <3> HIDE DEF plan, then, goes
    <3> QED
      BY <2>2, <3>1, ConstantTypes DEF Run
  <2> QED
    BY <2>1, <2>2
<1>5. TypeOK'
  BY <1>1, <1>4 DEF TypeOK
<1>6. GroupsOK' /\ DriveRunOK' /\ UnseenOK'
  BY <1>1, <1>4 DEF GroupsOK, DriveRunOK, UnseenOK
<1>7. GroupRunOK'
  <2>1. CASE plan # << >>
    <3>1. /\ plan \in GroupPlans(g)
          /\ plan[1].kind = "sg" => sg[g].fin
          /\ plan[Len(plan)].kind = "sg" /\ plan[Len(plan)].val \in {"SYNCING", "INVALID"} =>
               sg[g].phase = ""
          /\ goes => plan[Len(plan)].kind = "sg" /\ plan[Len(plan)].val \in {"SYNCING", "REMOVING"}
      BY <2>1, GroupPlanShape
    <3>2. run'.at = "group" /\ run'.plan = plan /\ (run'.kept => goes)
      BY <1>4, <2>1
    <3> HIDE DEF plan, goes
    <3> QED
      BY <1>1, <1>4, <3>1, <3>2 DEF GroupRunOK, LastPhase
  <2>2. CASE plan = << >>
    <3>1. run'.at = "list" /\ goes
      BY <1>4, <2>2
    <3>2. CASE s.del
      BY <1>1, <1>4, <3>1, <3>2 DEF GroupRunOK, GroupsOK
    <3>3. CASE s.phase = "SYNCING"
      BY <1>1, <1>4, <3>1, <3>3 DEF GroupRunOK, TypeOK
    <3>4. CASE ~s.del /\ s.phase = ""
      <4> DEFINE p == IF IsStorageGroupValid(g) THEN "SYNCING" ELSE "INVALID"
      <4>1. plan = (IF s.fin THEN << >> ELSE <<Write("fin", g, None)>>) \o <<Write("sg", g, p)>>
        BY <3>4 DEF GroupPlan
      <4>2. Write("sg", g, p) \in Writes /\ Write("fin", g, None) \in Writes
        BY WriteType
      <4> HIDE DEF p
      <4>3. plan = <<Write("sg", g, p)>> \/ plan = <<Write("fin", g, None), Write("sg", g, p)>>
        BY <4>1, <4>2, OneAndOne
      <4> QED
        BY <2>2, <4>3
    <3> QED
      BY <3>1, <3>2, <3>3, <3>4
  <2> QED
    BY <2>1, <2>2
<1>8. ASSUME ~manual'
      PROVE  ReadOK' /\ LabelsOK' /\ CountOK'
  <2>1. LabelsOK' /\ \A h \in Group, n \in Range(NodeOf) :
          Limited(h) => Cardinality(Holders(h, n)') <= NumberDrivesPerNode[h]
    BY <1>1, <1>4, <1>8, LabelsStay DEF Active
  <2> QED
    BY <1>4, <2>1 DEF CountOK, ReadOK, Limited
<1> QED
  BY <1>5, <1>6, <1>7, <1>8

LEMMA GroupWriteInv ==
  ASSUME SGInv, GroupWrite
  PROVE  SGInv'
<1> USE DEF SGInv
<1> DEFINE w == Head(run.plan)
           g == run.name
<1>1. /\ run.at = "group" /\ CanWrite(w) /\ Apply(w)
      /\ run' = IF Len(run.plan) > 1 THEN [run EXCEPT !.plan = Tail(@)]
                ELSE IF run.kept THEN [run EXCEPT !.plan = << >>, !.at = "list", !.kept = FALSE]
                ELSE Ended
      /\ UNCHANGED <<lvg, vol, manual, lost, changes>>
  BY DEF GroupWrite
<1>2. g \in Group /\ run.plan \in GroupPlans(g) /\ run \in Run
  BY <1>1 DEF GroupRunOK, TypeOK
<1>3. /\ run.plan \in Seq(Writes) /\ run.plan # << >>
      /\ \/ Len(run.plan) = 1 /\ run.plan[1] = Write("fin", g, None)
         \/ Len(run.plan) = 1 /\ \E p \in {"SYNCING", "INVALID", "REMOVING"} :
                                   run.plan[1] = Write("sg", g, p)
         \/ /\ Len(run.plan) = 2 /\ run.plan[1] = Write("fin", g, None)
            /\ \E p \in {"SYNCING", "INVALID"} :
                 run.plan[2] = Write("sg", g, p) /\ Tail(run.plan) = <<Write("sg", g, p)>>
  BY <1>2, GroupPlansType
<1>4. w \in Writes /\ w = run.plan[1] /\ Tail(run.plan) \in Seq(Writes)
  BY <1>3, PlanTail
<1>5. run' \in Run /\ run'.at \in {"group", "list", "idle"}
  <2>1. << >> \in Seq(Writes)
    OBVIOUS
  <2> QED
    BY <1>1, <1>2, <1>4, <2>1, ConstantTypes DEF Run
<1> HIDE DEF w
<1>6. /\ w.kind \in {"sg", "fin"} /\ w.id = g
      /\ w.kind = "sg" => /\ Len(run.plan) = 1 /\ w.val \in {"SYNCING", "INVALID", "REMOVING"}
                          /\ sg[g].fin \/ sg[g].phase = "absent"
                          /\ w.val \in {"SYNCING", "INVALID"} => sg[g].phase \in {"", "absent"}
  <2>1. /\ run.plan[1].kind = "sg" => sg[g].fin \/ sg[g].phase = "absent"
        /\ LastPhase({"SYNCING", "INVALID"}) => sg[g].phase \in {"", "absent"}
    BY <1>1 DEF GroupRunOK
  <2>2. \/ w = Write("fin", g, None)
        \/ Len(run.plan) = 1 /\ \E p \in {"SYNCING", "INVALID", "REMOVING"} : w = Write("sg", g, p)
    BY <1>3, <1>4
  <2>3. CASE w = Write("fin", g, None)
    BY <2>3 DEF Write
  <2>4. ASSUME Len(run.plan) = 1, NEW p \in {"SYNCING", "INVALID", "REMOVING"},
               w = Write("sg", g, p)
        PROVE  /\ w.kind = "sg" /\ w.id = g /\ w.val = p
               /\ sg[g].fin \/ sg[g].phase = "absent"
               /\ w.val \in {"SYNCING", "INVALID"} => sg[g].phase \in {"", "absent"}
    <3>1. w.kind = "sg" /\ w.id = g /\ w.val = p
      BY <2>4 DEF Write
    <3>2. run.plan[1] = w /\ run.plan[Len(run.plan)] = w
      BY <1>4, <2>4
    <3> QED
      BY <2>1, <3>1, <3>2 DEF LastPhase
  <2> QED
    BY <2>2, <2>3, <2>4
<1>7. sg[g].phase # "absent"
  BY <1>1, <1>6 DEF CanWrite
<1>8. Applied(w)
  BY <1>1, <1>4, <1>6, <1>7, ApplyType
<1>9. TypeOK'
  BY <1>1, <1>5, <1>8 DEF Applied, TypeOK, ACState, GroupState
<1>10. GroupsOK'
  <2>1. ASSUME NEW h \in Group
        PROVE  (sg'[h].del => sg'[h].fin) /\ (sg'[h].fin => sg'[h].phase # "absent")
    <3>1. (sg[h].del => sg[h].fin) /\ (sg[h].fin => sg[h].phase # "absent")
      BY DEF GroupsOK
    <3>2. CASE w.kind = "fin" /\ h = g
      <4>1. sg'[h].fin = TRUE /\ sg'[h].phase = sg[h].phase
        BY <1>6, <1>8, <3>2 DEF Applied
      <4> QED
        BY <1>7, <3>2, <4>1
    <3>3. CASE ~(w.kind = "fin" /\ h = g)
      <4>1. sg'[h].del = sg[h].del /\ sg'[h].fin = sg[h].fin
            /\ sg'[h].phase \in {sg[h].phase, "SYNCING", "INVALID", "REMOVING"}
        BY <1>6, <1>8, <3>3 DEF Applied
      <4> QED
        BY <3>1, <4>1
    <3> QED
      BY <3>2, <3>3
  <2> QED
    BY <2>1 DEF GroupsOK
<1>11. UNCHANGED <<drive, ac>>
  BY <1>1, <1>6 DEF Apply
<1>12. DriveRunOK' /\ UnseenOK'
  BY <1>5, <1>11 DEF DriveRunOK, UnseenOK
<1>13. GroupRunOK'
  <2>1. CASE run'.at = "idle"
    BY <2>1 DEF GroupRunOK
  <2>2. CASE Len(run.plan) > 1
    <3>1. PICK p \in {"SYNCING", "INVALID"} :
            Tail(run.plan) = <<Write("sg", g, p)>> /\ run.plan[Len(run.plan)] = Write("sg", g, p)
      <4>1. Len(run.plan) # 1
        BY <2>2
      <4>2. Len(run.plan) = 2 /\ \E p \in {"SYNCING", "INVALID"} :
              run.plan[2] = Write("sg", g, p) /\ Tail(run.plan) = <<Write("sg", g, p)>>
        BY <1>3, <4>1, Zenon
      <4> QED
        BY <4>2
    <3>2. run.plan[1] = Write("fin", g, None)
      BY <1>3, <2>2
    <3>3. w.kind = "fin"
      BY <1>4, <3>2 DEF Write
    <3>4. run' = [run EXCEPT !.plan = Tail(@)]
      BY <1>1, <2>2
    <3>5. run'.at = "group" /\ run'.name = g /\ run'.plan = <<Write("sg", g, p)>>
          /\ run'.kept = run.kept
      BY <1>1, <1>2, <3>1, <3>4 DEF Run
    <3>6. run'.plan[Len(run'.plan)] = Write("sg", g, p)
      BY <3>5
    <3>7. run'.plan \in GroupPlans(g)
      BY <3>5 DEF GroupPlans
    <3>8. sg'[g].fin /\ sg'[g].phase = sg[g].phase
      BY <1>2, <1>6, <1>8, <3>3 DEF Applied
    <3>9. /\ LastPhase({"SYNCING", "INVALID"}) => sg[g].phase \in {"", "absent"}
          /\ run.kept => LastPhase({"SYNCING", "REMOVING"})
      BY <1>1 DEF GroupRunOK
    <3>10. LastPhase({"SYNCING", "INVALID"})' => sg'[g].phase \in {"", "absent"}
      BY <3>1, <3>6, <3>8, <3>9 DEF LastPhase
    <3>11. run'.kept => LastPhase({"SYNCING", "REMOVING"})'
      BY <3>1, <3>5, <3>6, <3>9 DEF LastPhase
    <3> QED
      BY <1>2, <3>5, <3>7, <3>8, <3>10, <3>11 DEF GroupRunOK
  <2>3. CASE ~(Len(run.plan) > 1) /\ run'.at # "idle"
    <3>1. run.kept /\ run' = [run EXCEPT !.plan = << >>, !.at = "list", !.kept = FALSE]
      BY <1>1, <2>3, ConstantTypes
    <3>2. run'.at = "list" /\ run'.name = g /\ run'.plan = << >>
      BY <1>2, <3>1 DEF Run
    <3>3. LastPhase({"SYNCING", "REMOVING"})
      BY <1>1, <3>1 DEF GroupRunOK
    <3>4. Len(run.plan) = 1
      BY <1>3, <2>3
    <3>5. w.kind = "sg"
      BY <1>4, <3>3, <3>4 DEF LastPhase
    <3>6. sg'[g].fin
      BY <1>2, <1>6, <1>7, <1>8, <3>5 DEF Applied
    <3> QED
      BY <1>2, <3>2, <3>6 DEF GroupRunOK
  <2> QED
    BY <2>1, <2>2, <2>3
<1>14. ASSUME ~manual'
       PROVE  ReadOK' /\ LabelsOK' /\ CountOK'
  <2>1. \A h \in Group : Active(h)' => Active(h)
    BY <1>6, <1>7, <1>8 DEF Applied, Active
  <2>2. LabelsOK' /\ \A h \in Group, n \in Range(NodeOf) :
          Limited(h) => Cardinality(Holders(h, n)') <= NumberDrivesPerNode[h]
    BY <1>1, <1>5, <1>11, <1>14, <2>1, LabelsStay
  <2> QED
    BY <1>5, <2>2 DEF CountOK, ReadOK, Limited
<1> QED
  BY <1>9, <1>10, <1>12, <1>13, <1>14

LEMMA GroupWriteFailsInv ==
  ASSUME SGInv, GroupWriteFails
  PROVE  SGInv'
<1> USE DEF SGInv
<1>1. /\ UNCHANGED <<drive, ac, sg, lvg, vol, placing, manual, lost>> /\ run' = Ended
      /\ run.at = "group" /\ queue' = queue \cup {run.name}
      /\ changes' \in 0..MaxChanges
  BY ChangeType DEF GroupWriteFails
<1>2. run.name \in Group
  BY <1>1 DEF GroupRunOK
<1>3. TypeOK'
  BY <1>1, <1>2, ConstantTypes DEF TypeOK
<1> QED
  BY <1>1, <1>3, NothingMoves, EndStep

LEMMA LabelBothShape ==
  ASSUME NEW d \in Drive, NEW g \in Group
  PROVE  /\ LabelBoth(d, g) \in Seq(Writes) /\ <<Write("ac", d, g)>> \in Seq(Writes)
         /\ LabelBoth(d, g) # << >> /\ <<Write("ac", d, g)>> # << >>
         /\ DOMAIN LabelBoth(d, g) = {1, 2} /\ DOMAIN <<Write("ac", d, g)>> = {1}
         /\ LabelBoth(d, g)[1] = Write("drive", d, g) /\ LabelBoth(d, g)[2] = Write("ac", d, g)
         /\ Head(LabelBoth(d, g)) = Write("drive", d, g)
         /\ Head(<<Write("ac", d, g)>>) = Write("ac", d, g)
         /\ Tail(LabelBoth(d, g)) = <<Write("ac", d, g)>>
         /\ Tail(<<Write("ac", d, g)>>) = << >>
         /\ \A e \in Drive : /\ LabelBoth(d, g) # <<Write("ac", e, g)>>
                             /\ LabelBoth(d, g) = LabelBoth(e, g) => e = d
                             /\ <<Write("ac", d, g)>> = <<Write("ac", e, g)>> => e = d
<1> DEFINE u == Write("drive", d, g)
           v == Write("ac", d, g)
<1>1. u \in Writes /\ v \in Writes
  BY ConstantTypes, WriteType
<1>2. \A e \in Drive : /\ u = Write("drive", e, g) => e = d
                       /\ v = Write("ac", e, g) => e = d
  BY DEF Write
<1>3. \A e \in Drive : /\ LabelBoth(d, g) # <<Write("ac", e, g)>>
                       /\ LabelBoth(d, g) = LabelBoth(e, g) => u = Write("drive", e, g)
                       /\ <<v>> = <<Write("ac", e, g)>> => v = Write("ac", e, g)
  BY DEF LabelBoth
<1>4. LabelBoth(d, g) = <<u, v>>
  BY DEF LabelBoth
<1> HIDE DEF u, v
<1>5. /\ <<u, v>> \in Seq(Writes) /\ <<v>> \in Seq(Writes)
      /\ <<u, v>> # << >> /\ <<v>> # << >>
      /\ DOMAIN <<u, v>> = {1, 2} /\ DOMAIN <<v>> = {1}
      /\ <<u, v>>[1] = u /\ <<u, v>>[2] = v
      /\ Head(<<u, v>>) = u /\ Head(<<v>>) = v /\ Tail(<<u, v>>) = <<v>> /\ Tail(<<v>>) = << >>
  BY <1>1
<1> QED
  BY <1>2, <1>3, <1>4, <1>5 DEF u, v

LEMMA LabelBothIds ==
  ASSUME NEW d \in Drive, NEW g \in Group
  PROVE  /\ \A i \in DOMAIN LabelBoth(d, g) : LabelBoth(d, g)[i].id = d
         /\ \A i \in DOMAIN <<Write("ac", d, g)>> : <<Write("ac", d, g)>>[i].id = d
<1> DEFINE s == LabelBoth(d, g)
           t == <<Write("ac", d, g)>>
<1>1. DOMAIN s = {1, 2} /\ s[1] = Write("drive", d, g) /\ s[2] = Write("ac", d, g)
      /\ DOMAIN t = {1} /\ t[1] = Write("ac", d, g)
  BY LabelBothShape
<1> HIDE DEF s, t
<1>2. \A i \in DOMAIN s : s[i].id = d
  BY <1>1 DEF Write
<1>3. \A i \in DOMAIN t : t[i].id = d
  BY <1>1 DEF Write
<1> QED
  BY <1>2, <1>3 DEF s, t

LEMMA LabelBothOnce ==
  ASSUME NEW d \in Drive, NEW e \in Drive, NEW g \in Group
  PROVE  /\ LabelBoth(d, g) # <<Write("ac", e, g)>>
         /\ LabelBoth(d, g) = LabelBoth(e, g) => e = d
         /\ <<Write("ac", d, g)>> = <<Write("ac", e, g)>> => e = d
         /\ << >> # <<Write("ac", e, g)>> /\ << >> # LabelBoth(e, g)
BY LabelBothShape

\* The list of drives is read: the drives with the label are counted.
LEMMA ListDrivesInv ==
  ASSUME SGInv, ListDrives
  PROVE  SGInv'
<1> USE DEF SGInv
<1> DEFINE g == run.name
           drop == sg[g].phase = "REMOVING"
           clean == IF drop THEN {} ELSE {d \in Drive : drive[d].clean}
           todo == IF drop THEN {d \in Drive : Exists(drive[d]) /\ drive[d].label = g}
                   ELSE {d \in Drive : /\ InPlace(drive[d]) /\ drive[d].label = None
                                       /\ Selected(d, g)}
           at == IF drop THEN "drop" ELSE "sync"
<1>1. /\ run.at = "list" /\ UNCHANGED <<drive, ac, sg, queue, lvg, vol, placing, manual, lost, changes>>
      /\ run' = [run EXCEPT !.at = at, !.clean = clean, !.counted = Counted(g), !.todo = todo]
  BY DEF ListDrives, EnvUnchanged
<1>2. run \in Run /\ g \in Group /\ run.plan = << >> /\ sg[g].fin /\ sg[g].phase # "absent"
  BY <1>1 DEF TypeOK, GroupRunOK, GroupsOK
<1>3. /\ clean \subseteq Drive /\ Counted(g) \subseteq Drive /\ todo \subseteq Drive
      /\ \A d \in todo : drive[d].place # "unseen"
      /\ ~drop => \A d \in todo : drive[d].label = None
      /\ drop => \A d \in todo : drive[d].label = g
  BY DEF Counted, InPlace, Exists
<1>4. at \in {"sync", "drop"} /\ (at = "drop" <=> drop)
  OBVIOUS
<1> HIDE DEF clean, todo, at
<1>5. /\ run' \in Run /\ run'.at = at /\ run'.name = g /\ run'.todo = todo
      /\ run'.counted = Counted(g) /\ run'.plan = << >>
  BY <1>1, <1>2, <1>3, <1>4 DEF Run
<1>6. TypeOK'
  BY <1>1, <1>5 DEF TypeOK
<1>7. GroupsOK' /\ DriveRunOK'
  BY <1>1, <1>4, <1>5 DEF GroupsOK, DriveRunOK
<1>8. GroupRunOK'
  <2>1. DOMAIN << >> = {}
    OBVIOUS
  <2> QED
    BY <1>1, <1>2, <1>4, <1>5, <2>1 DEF GroupRunOK
<1>9. UnseenOK'
  BY <1>1, <1>3, <1>4, <1>5 DEF UnseenOK
<1>10. ASSUME ~manual'
       PROVE  ReadOK' /\ LabelsOK' /\ CountOK'
  <2>1. LabelsOK' /\ \A h \in Group, n \in Range(NodeOf) :
          Limited(h) => Cardinality(Holders(h, n)') <= NumberDrivesPerNode[h]
    BY <1>1, <1>4, <1>5, <1>10, LabelsStay DEF Active
  <2>2. ReadOK'
    <3>1. \A d \in Drive : LabelBoth(d, g) # << >> /\ <<Write("ac", d, g)>> # << >>
      BY <1>2, LabelBothShape
    <3> QED
      BY <1>1, <1>3, <1>4, <1>5, <3>1 DEF ReadOK
  <2>3. ASSUME at = "sync", Limited(g)
        PROVE  /\ \A d \in Drive : InPlace(drive[d]) /\ drive[d].label = g => d \in Counted(g)
               /\ \A n \in Range(NodeOf) :
                    Cardinality({d \in Counted(g) : NodeOf[d] = n}) <= NumberDrivesPerNode[g]
    <3>1. Counted(g) = {d \in Drive : InPlace(drive[d]) /\ drive[d].label = g}
      BY <1>4, <2>3, NumberAssumption DEF Counted, Limited
    <3>2. ASSUME NEW n \in Range(NodeOf)
          PROVE  Cardinality({d \in Counted(g) : NodeOf[d] = n}) <= NumberDrivesPerNode[g]
      <4>1. {d \in Counted(g) : NodeOf[d] = n} \subseteq Holders(g, n)
        BY <3>1 DEF Holders
      <4>2. Cardinality(Holders(g, n)) <= NumberDrivesPerNode[g] /\ Holders(g, n) \subseteq Drive
        BY <1>1, <1>2, <1>10, <2>3 DEF CountOK, Holders
      <4> QED
        BY <1>2, <4>1, <4>2, CardFewer, NumberAssumption
    <3> QED
      BY <3>1, <3>2
  <2>4. CountOK'
    <3>1. \A d \in Drive : LabelBoth(d, g) # << >>
      BY <1>2, LabelBothShape
    <3> QED
      BY <1>1, <1>4, <1>5, <2>1, <2>3, <3>1 DEF CountOK, Limited, CountedOn
  <2> QED
    BY <2>1, <2>2, <2>4
<1> QED
  BY <1>6, <1>7, <1>8, <1>9, <1>10

LEMMA AddDriveInv ==
  ASSUME SGInv, NEW d \in Drive, AddDrive(d)
  PROVE  SGInv'
<1> USE DEF SGInv
<1> DEFINE g == run.name
           next == [run EXCEPT !.todo = @ \ {d}, !.clean = @ \ {d}, !.stale = @ \ {<<"drive", d>>}]
           missed == run.errs \/ d \notin lvg
<1>1. /\ run.at = "sync" /\ run.plan = << >> /\ d \in run.todo
      /\ UNCHANGED <<drive, ac, sg, queue, lvg, vol, placing, manual, lost, changes>>
      /\ \/ run' = next
         \/ run' = [next EXCEPT !.errs = missed]
         \/ HasRoom(run.counted, d, g)
              /\ run' = [next EXCEPT !.plan = LabelBoth(d, g), !.stale = run.stale]
  BY DEF AddDrive, EnvUnchanged
<1>2. run \in Run /\ g \in Group
  BY <1>1 DEF TypeOK, GroupRunOK
<1>3. /\ next \in Run /\ next.at = "sync" /\ next.name = g /\ next.todo = run.todo \ {d}
      /\ next.counted = run.counted /\ next.plan = << >>
  BY <1>1, <1>2 DEF Run
<1>4. missed = TRUE \/ missed = FALSE
  OBVIOUS
<1>5. LabelBoth(d, g) \in Seq(Writes) /\ run.stale \in SUBSET Object
  BY <1>2, LabelBothShape DEF Run
<1> HIDE DEF next, missed
<1>6. /\ run' \in Run /\ run'.at = "sync" /\ run'.name = g /\ run'.todo = run.todo \ {d}
      /\ run'.counted = run.counted
      /\ \/ run'.plan = << >>
         \/ run'.plan = LabelBoth(d, g) /\ HasRoom(run.counted, d, g)
  <2>1. CASE run' = next
    BY <1>3, <2>1
  <2>2. CASE run' = [next EXCEPT !.errs = missed]
    BY <1>3, <1>4, <2>2 DEF Run
  <2>3. CASE /\ HasRoom(run.counted, d, g)
             /\ run' = [next EXCEPT !.plan = LabelBoth(d, g), !.stale = run.stale]
    BY <1>3, <1>5, <2>3 DEF Run
  <2> QED
    BY <1>1, <2>1, <2>2, <2>3
<1>7. TypeOK'
  BY <1>1, <1>6 DEF TypeOK
<1>8. GroupsOK' /\ DriveRunOK'
  BY <1>1, <1>6 DEF GroupsOK, DriveRunOK
<1>9. GroupRunOK'
  BY <1>1, <1>2, <1>6 DEF GroupRunOK
<1>10. UnseenOK'
  <2>1. drive[d].place # "unseen"
    BY <1>1 DEF UnseenOK
  <2>2. \A i \in DOMAIN run'.plan : run'.plan[i].id = d
    <3>1. \A i \in DOMAIN LabelBoth(d, g) : LabelBoth(d, g)[i].id = d
      BY <1>2, LabelBothIds
    <3>2. DOMAIN << >> = {}
      OBVIOUS
    <3> QED
      BY <1>6, <3>1, <3>2
  <2> QED
    BY <1>1, <1>6, <2>1, <2>2 DEF UnseenOK
<1>11. ASSUME ~manual'
       PROVE  ReadOK' /\ LabelsOK' /\ CountOK'
  <2>1. LabelsOK' /\ \A h \in Group, n \in Range(NodeOf) :
          Limited(h) => Cardinality(Holders(h, n)') <= NumberDrivesPerNode[h]
    BY <1>1, <1>6, <1>11, LabelsStay DEF Active
  <2>2. ASSUME NEW e \in Drive
        PROVE  /\ run'.plan # <<Write("ac", e, g)>>
               /\ run'.plan = LabelBoth(e, g) => e = d /\ HasRoom(run.counted, d, g)
    <3>1. /\ LabelBoth(d, g) # <<Write("ac", e, g)>>
          /\ LabelBoth(d, g) = LabelBoth(e, g) => e = d
          /\ << >> # <<Write("ac", e, g)>> /\ << >> # LabelBoth(e, g)
      BY <1>2, LabelBothOnce
    <3> QED
      BY <1>6, <3>1
  <2>3. ReadOK'
    <3>1. InPlace(drive[d]) => drive[d].label = None
      BY <1>1, <1>11 DEF ReadOK
    <3>2. \A e \in Drive : InPlace(drive[e]) /\ e \in run.todo => drive[e].label = None
      BY <1>1, <1>11 DEF ReadOK
    <3> QED
      BY <1>1, <1>6, <2>2, <3>1, <3>2 DEF ReadOK
  <2>4. CountOK'
    <3>1. Limited(g) /\ HasRoom(run.counted, d, g) =>
            Cardinality(CountedOn(NodeOf[d])) < NumberDrivesPerNode[g]
      BY NumberAssumption DEF HasRoom, CountedOn, Limited
    <3> QED
      BY <1>1, <1>6, <1>11, <2>1, <2>2, <3>1 DEF CountOK, Limited, CountedOn
  <2> QED
    BY <2>1, <2>3, <2>4
<1> QED
  BY <1>7, <1>8, <1>9, <1>10, <1>11

LEMMA DropDriveInv ==
  ASSUME SGInv, NEW d \in Drive, DropDrive(d)
  PROVE  SGInv'
<1> USE DEF SGInv
<1> DEFINE g == run.name
           drop == (IF ACFound(d) THEN <<Write("ac", d, None)>> ELSE << >>)
                     \o <<Write("drive", d, None)>>
           next == [run EXCEPT !.todo = @ \ {d}]
<1>1. /\ run.at = "drop" /\ run.plan = << >> /\ d \in run.todo
      /\ UNCHANGED <<drive, ac, sg, queue, lvg, vol, placing, manual, lost, changes>>
      /\ \/ run' = [next EXCEPT !.kept = TRUE, !.stale = @ \ {<<"drive", d>>}]
         \/ run' = [next EXCEPT !.plan = drop]
  BY DEF DropDrive, EnvUnchanged
<1>2. run \in Run /\ g \in Group
  BY <1>1 DEF TypeOK, GroupRunOK
<1>3. /\ next \in Run /\ next.at = "drop" /\ next.name = g /\ next.todo = run.todo \ {d}
      /\ next.plan = << >>
  BY <1>1, <1>2 DEF Run
<1>4. Write("ac", d, None) \in Writes /\ Write("drive", d, None) \in Writes
  BY ConstantTypes, WriteType
<1>5. drop = <<Write("drive", d, None)>> \/ drop = <<Write("ac", d, None), Write("drive", d, None)>>
  BY <1>4, OneAndOne
<1> HIDE DEF next, drop
<1>6. /\ drop \in Seq(Writes)
      /\ \A i \in DOMAIN drop :
           /\ drop[i].kind \in {"drive", "ac"} /\ drop[i].val = None /\ drop[i].id = d
           /\ drop[i].kind = "drive" => i = Len(drop)
  <2>1. CASE drop = <<Write("drive", d, None)>>
    <3>1. DOMAIN drop = {1} /\ drop[1] = Write("drive", d, None) /\ Len(drop) = 1
      BY <2>1
    <3> QED
      BY <1>4, <2>1, <3>1 DEF Write
  <2>2. CASE drop = <<Write("ac", d, None), Write("drive", d, None)>>
    <3>1. /\ DOMAIN drop = {1, 2} /\ Len(drop) = 2
          /\ drop[1] = Write("ac", d, None) /\ drop[2] = Write("drive", d, None)
      BY <2>2
    <3> QED
      BY <1>4, <2>2, <3>1 DEF Write
  <2> QED
    BY <1>5, <2>1, <2>2
<1>7. /\ run' \in Run /\ run'.at = "drop" /\ run'.name = g /\ run'.todo = run.todo \ {d}
      /\ run'.plan \in {<< >>, drop}
  <2>1. CASE run' = [next EXCEPT !.kept = TRUE, !.stale = @ \ {<<"drive", d>>}]
    BY <1>3, <2>1 DEF Run
  <2>2. CASE run' = [next EXCEPT !.plan = drop]
    BY <1>3, <1>6, <2>2 DEF Run
  <2> QED
    BY <1>1, <2>1, <2>2
<1>8. \A i \in DOMAIN run'.plan :
        /\ run'.plan[i].kind \in {"drive", "ac"} /\ run'.plan[i].val = None /\ run'.plan[i].id = d
        /\ run'.plan[i].kind = "drive" => i = Len(run'.plan)
  <2>1. DOMAIN << >> = {}
    OBVIOUS
  <2> QED
    BY <1>6, <1>7, <2>1
<1>9. TypeOK'
  BY <1>1, <1>7 DEF TypeOK
<1>10. GroupsOK' /\ DriveRunOK'
  BY <1>1, <1>7 DEF GroupsOK, DriveRunOK
<1>11. GroupRunOK'
  BY <1>1, <1>2, <1>7, <1>8 DEF GroupRunOK
<1>12. UnseenOK'
  <2>1. drive[d].place # "unseen"
    BY <1>1 DEF UnseenOK
  <2> QED
    BY <1>1, <1>7, <1>8, <2>1 DEF UnseenOK
<1>13. ASSUME ~manual'
       PROVE  ReadOK' /\ LabelsOK' /\ CountOK'
  <2>1. LabelsOK' /\ \A h \in Group, n \in Range(NodeOf) :
          Limited(h) => Cardinality(Holders(h, n)') <= NumberDrivesPerNode[h]
    BY <1>1, <1>7, <1>13, LabelsStay DEF Active
  <2>2. ReadOK'
    <3>1. \A e \in Drive : InPlace(drive[e]) /\ e \in run.todo => drive[e].label = g
      BY <1>1, <1>13 DEF ReadOK
    <3>2. \A e \in Drive : Write("drive", e, None).id = e
      BY DEF Write
    <3>3. \A e \in Drive : \A i \in DOMAIN run'.plan : run'.plan[i] = Write("drive", e, None) => e = d
      BY <1>8, <3>2
    <3> QED
      BY <1>1, <1>7, <3>1, <3>3 DEF ReadOK
  <2> QED
    BY <1>7, <2>1, <2>2 DEF CountOK, Limited
<1> QED
  BY <1>9, <1>10, <1>11, <1>12, <1>13

\* One more drive has the label: it is counted before the next one is looked at.
LEMMA LoopWriteSyncInv ==
  ASSUME SGInv, LoopWrite, run.at = "sync", NEW g \in Group, run.name = g
  PROVE  SGInv'
<1> USE DEF SGInv
<1> DEFINE w == Head(run.plan)
           more == IF w.kind = "drive" /\ NumberDrivesPerNode[g] > 0 THEN {w.id} ELSE {}
<1>1. /\ run.plan # << >> /\ CanWrite(w) /\ Apply(w)
      /\ UNCHANGED <<lvg, vol, manual, lost, changes>>
  BY DEF LoopWrite
<1>2. run \in Run /\ g \in Group /\ run.counted \subseteq Drive
  BY DEF TypeOK, GroupRunOK, Run
<1>3. PICK d \in Drive : run.plan \in {<<Write("ac", d, g)>>, LabelBoth(d, g)}
  BY <1>1 DEF GroupRunOK
<1>4. /\ \/ run.plan = LabelBoth(d, g) /\ w = Write("drive", d, g)
              /\ Tail(run.plan) = <<Write("ac", d, g)>>
         \/ run.plan = <<Write("ac", d, g)>> /\ w = Write("ac", d, g) /\ Tail(run.plan) = << >>
      /\ w \in Writes /\ Tail(run.plan) \in Seq(Writes)
  <2>1. w \in Writes /\ Tail(run.plan) \in Seq(Writes)
    BY <1>1, <1>2, PlanTail DEF Run
  <2>2. CASE run.plan = LabelBoth(d, g)
    BY <1>2, <2>1, <2>2, LabelBothShape
  <2>3. CASE run.plan = <<Write("ac", d, g)>>
    BY <1>2, <2>1, <2>3, LabelBothShape
  <2> QED
    BY <1>3, <2>2, <2>3
<1>5. run' = [run EXCEPT !.plan = Tail(@), !.stale = @ \ {Key(w)}, !.counted = @ \cup more]
  BY DEF LoopWrite
<1>6. w.kind \in {"drive", "ac"} /\ w.id = d /\ w.val = g
      /\ (w.kind = "drive" <=> run.plan = LabelBoth(d, g))
  <2>1. CASE run.plan = LabelBoth(d, g)
    <3>1. w = Write("drive", d, g)
      BY <1>2, <1>4, <2>1, LabelBothOnce
    <3> QED
      BY <2>1, <3>1 DEF Write
  <2>2. CASE run.plan # LabelBoth(d, g)
    <3>1. w = Write("ac", d, g)
      BY <1>4, <2>2
    <3> QED
      BY <2>2, <3>1 DEF Write
  <2> QED
    BY <2>1, <2>2
<1>7. more \subseteq {d} /\ (w.kind = "drive" /\ Limited(g) => more = {d})
      /\ (w.kind = "ac" => more = {})
  BY <1>6 DEF Limited
<1> HIDE DEF w, more
<1>8. /\ run' \in Run /\ run'.at = "sync" /\ run'.name = g /\ run'.todo = run.todo
      /\ run'.plan = Tail(run.plan) /\ run'.counted = run.counted \cup more
  BY <1>2, <1>4, <1>5, <1>7 DEF Run
<1>9. Applied(w)
  BY <1>1, <1>4, <1>6, ApplyType
<1>10. /\ \A e \in Drive :
            /\ drive'[e].place = drive[e].place
            /\ drive'[e].label = IF w.kind = "drive" /\ e = d THEN g ELSE drive[e].label
            /\ ac'[e].label = IF w.kind = "ac" /\ e = d THEN g ELSE ac[e].label
       /\ UNCHANGED sg
  BY <1>1, <1>6, <1>9 DEF Applied, Apply
<1>11. TypeOK'
  BY <1>1, <1>8, <1>9 DEF Applied, TypeOK, ACState, GroupState
<1>12. GroupsOK' /\ DriveRunOK'
  BY <1>8, <1>10 DEF GroupsOK, DriveRunOK
<1>13. run'.plan = << >> \/ run'.plan = <<Write("ac", d, g)>>
  BY <1>4, <1>8
<1>14. GroupRunOK'
  <2>1. sg[g].fin /\ sg[g].phase # "REMOVING"
    BY DEF GroupRunOK
  <2> QED
    BY <1>2, <1>8, <1>10, <1>13, <2>1 DEF GroupRunOK
<1>15. UnseenOK'
  <2>1. drive[d].place # "unseen"
    <3>1. 1 \in DOMAIN run.plan /\ run.plan[1] = w
      BY <1>1, <1>2, PlanTail DEF Run, w
    <3> QED
      BY <1>6, <3>1 DEF UnseenOK
  <2>2. \A i \in DOMAIN run'.plan : run'.plan[i].id = d
    <3>1. DOMAIN << >> = {}
      OBVIOUS
    <3> QED
      BY <1>13, <3>1, LabelBothIds, Zenon
  <2> QED
    BY <1>8, <1>10, <2>1, <2>2 DEF UnseenOK
<1>16. ASSUME ~manual'
       PROVE  ReadOK' /\ LabelsOK' /\ CountOK'
  <2>1. ~manual
    BY <1>1, <1>16
  <2>2. Active(g)
    BY <1>2 DEF GroupRunOK, GroupsOK, Active
  <2>3. w.kind = "drive" => (InPlace(drive[d]) => drive[d].label = None /\ d \notin run.todo)
    BY <1>6, <2>1 DEF ReadOK
  <2>4. w.kind = "ac" => run.plan = <<Write("ac", d, g)>>
    BY <1>3, <1>6
  <2>5. w.kind = "ac" => (InPlace(drive[d]) => drive[d].label = g)
    BY <2>1, <2>4 DEF ReadOK
  <2>6. g # None /\ \A h \in Group : h # None
    BY <1>2, GroupOrderAssumption
  <2>7. \A e, l : ~Planned(e, l) /\ ~Planned(e, l)'
    BY <1>8 DEF Planned
  <2>8. LabelsOK'
    <3> SUFFICES ASSUME NEW h \in Group, NEW e \in Drive, Limited(h), Active(h)',
                        InPlace(drive'[e]), ac'[e].label = h
                 PROVE  drive'[e].label = h
      BY <2>7 DEF LabelsOK, Limited
    <3>1. InPlace(drive[e]) /\ Active(h)
      BY <1>10 DEF InPlace, Active
    <3>2. CASE w.kind = "ac" /\ e = d
      BY <1>10, <2>5, <3>1, <3>2
    <3>3. CASE ~(w.kind = "ac" /\ e = d)
      <4>1. drive[e].label = h
        BY <1>10, <2>1, <3>1, <3>3 DEF LabelsOK
      <4>2. ~(w.kind = "drive" /\ e = d)
        BY <2>3, <2>6, <3>1, <4>1
      <4> QED
        BY <1>10, <4>1, <4>2
    <3> QED
      BY <3>2, <3>3
  <2>9. ReadOK'
    <3>1. \A e \in Drive : InPlace(drive[e]) /\ e \in run.todo => drive[e].label = None
      BY <2>1 DEF ReadOK
    <3>2. ASSUME NEW e \in Drive
          PROVE  /\ run'.plan # LabelBoth(e, g)
                 /\ run'.plan = <<Write("ac", e, g)>> => e = d /\ w.kind = "drive"
      <4>1. /\ << >> # LabelBoth(e, g) /\ << >> # <<Write("ac", e, g)>>
            /\ LabelBoth(e, g) # <<Write("ac", d, g)>>
            /\ <<Write("ac", d, g)>> = <<Write("ac", e, g)>> => e = d
        BY <1>2, LabelBothOnce
      <4>2. w.kind = "ac" => run'.plan = << >>
        BY <1>4, <1>6, <1>8
      <4> QED
        BY <1>6, <1>13, <4>1, <4>2
    <3> QED
      BY <1>8, <1>10, <2>3, <3>1, <3>2 DEF ReadOK, InPlace
  <2>10. ASSUME NEW e \in Drive, Limited(g), InPlace(drive'[e]), drive'[e].label = g
         PROVE  e \in run'.counted
    <3>1. CASE w.kind = "drive" /\ e = d
      BY <1>7, <1>8, <2>10, <3>1
    <3>2. CASE ~(w.kind = "drive" /\ e = d)
      <4>1. InPlace(drive[e]) /\ drive[e].label = g
        BY <1>10, <2>10, <3>2 DEF InPlace
      <4> QED
        BY <1>8, <2>1, <2>10, <4>1 DEF CountOK
    <3> QED
      BY <3>1, <3>2
  <2>11. ASSUME NEW n \in Range(NodeOf), Limited(g)
         PROVE  Cardinality(CountedOn(n)') <= NumberDrivesPerNode[g]
    <3> DEFINE N == NumberDrivesPerNode[g]
               C == CountedOn(n)
    <3>1. N \in Nat /\ C \in SUBSET Drive /\ Cardinality(C) <= N
      BY <1>2, <2>1, <2>11, NumberAssumption DEF CountOK, CountedOn
    <3>2. IsFiniteSet(C) /\ Cardinality(C) \in Nat
      BY <3>1, CardFewer
    <3>3. CountedOn(n)' = C \cup {e \in more : NodeOf[e] = n}
      BY <1>8 DEF CountedOn
    <3>4. CASE {e \in more : NodeOf[e] = n} = {}
      BY <3>1, <3>3, <3>4
    <3>5. CASE {e \in more : NodeOf[e] = n} # {}
      <4>1. more = {d} /\ NodeOf[d] = n
        BY <1>7, <3>5
      <4>2. w.kind = "drive"
        BY <1>6, <1>7, <4>1
      <4>3. Cardinality(C) < N
        BY <1>6, <2>1, <2>11, <4>1, <4>2 DEF CountOK
      <4>4. CountedOn(n)' = C \cup {d}
        BY <3>3, <4>1
      <4>5. Cardinality(C \cup {d}) \in {Cardinality(C), Cardinality(C) + 1}
        BY <3>2, FS_AddElement
      <4> HIDE DEF C, N
      <4> QED
        BY <3>1, <3>2, <4>3, <4>4, <4>5 DEF N
    <3> QED
      BY <3>4, <3>5
  <2>12. ASSUME NEW h \in Group, NEW n \in Range(NodeOf), Limited(h)
         PROVE  Cardinality(Holders(h, n)') <= NumberDrivesPerNode[h]
    <3>1. CASE h = g
      <4>1. Holders(g, n)' \subseteq CountedOn(n)'
        <5> SUFFICES ASSUME NEW e \in Drive, NodeOf[e] = n, InPlace(drive'[e]),
                            drive'[e].label = g \/ ac'[e].label = g
                     PROVE  e \in run'.counted
          BY <2>7 DEF Holders, CountedOn
        <5>1. Active(g)'
          BY <1>10, <2>2 DEF Active
        <5>2. drive'[e].label = g
          BY <1>2, <2>8, <2>12, <3>1, <5>1 DEF LabelsOK, Limited
        <5> QED
          BY <2>10, <2>12, <3>1, <5>2
      <4>2. CountedOn(n)' \in SUBSET Drive
        BY <1>8 DEF CountedOn, Run
      <4>3. Cardinality(CountedOn(n)') <= NumberDrivesPerNode[g]
        BY <2>11, <2>12, <3>1
      <4> DEFINE A == Holders(g, n)'
                 B == CountedOn(n)'
      <4>4. Cardinality(A) \in Nat /\ Cardinality(B) \in Nat /\ Cardinality(A) <= Cardinality(B)
        BY <4>1, <4>2, CardFewer
      <4> QED
        BY <1>2, <3>1, <4>3, <4>4, NumberAssumption
    <3>2. CASE h # g
      <4>1. Holders(h, n)' \subseteq Holders(h, n)
        BY <1>10, <2>7, <3>2 DEF Holders, InPlace
      <4> QED
        BY <2>1, <2>12, <4>1, HoldersFewer
    <3> QED
      BY <3>1, <3>2
  <2>13. CountOK'
    <3>1. \A e \in Drive : run'.plan # LabelBoth(e, g)
      <4>1. \A e \in Drive : << >> # LabelBoth(e, g) /\ LabelBoth(e, g) # <<Write("ac", d, g)>>
        BY <1>2, LabelBothOnce
      <4> QED
        BY <1>13, <4>1
    <3> QED
      BY <1>8, <2>10, <2>11, <2>12, <3>1 DEF CountOK, Limited
  <2> QED
    BY <2>8, <2>9, <2>13
<1> QED
  BY <1>11, <1>12, <1>14, <1>15, <1>16

\* A drive or an AC loses the label of a group that is being removed.
LEMMA LoopWriteDropInv ==
  ASSUME SGInv, LoopWrite, run.at = "drop", NEW g \in Group, run.name = g
  PROVE  SGInv'
<1> USE DEF SGInv
<1> DEFINE w == Head(run.plan)
           d == w.id
<1>1. /\ run.plan # << >> /\ CanWrite(w) /\ Apply(w)
      /\ UNCHANGED <<lvg, vol, manual, lost, changes>>
      /\ run' = [run EXCEPT !.plan = Tail(@), !.stale = @ \ {Key(w)}]
  <2>1. run \in Run
    BY DEF TypeOK
  <2>2. run' = [run EXCEPT !.plan = Tail(@), !.stale = @ \ {Key(w)}, !.counted = @]
    BY DEF LoopWrite
  <2> QED
    BY <2>1, <2>2 DEF LoopWrite, Run
<1>2. run \in Run /\ run.plan \in Seq(Writes)
  BY DEF TypeOK, Run
<1>3. /\ w \in Writes /\ w = run.plan[1] /\ 1 \in DOMAIN run.plan
      /\ Len(run.plan) \in Nat \ {0} /\ DOMAIN run.plan = 1..Len(run.plan)
      /\ Tail(run.plan) \in Seq(Writes) /\ Len(Tail(run.plan)) = Len(run.plan) - 1
      /\ \A i \in DOMAIN Tail(run.plan) :
           /\ i \in Nat /\ i + 1 \in DOMAIN run.plan /\ i + 1 > 1
           /\ Tail(run.plan)[i] = run.plan[i + 1]
  BY <1>1, <1>2, PlanTail
<1>4. /\ run' \in Run /\ run'.at = "drop" /\ run'.name = g /\ run'.todo = run.todo
      /\ run'.plan = Tail(run.plan)
  BY <1>1, <1>2, <1>3 DEF Run
<1> HIDE DEF w
<1>5. /\ w.kind \in {"drive", "ac"} /\ w.val = None
      /\ w.kind = "drive" => 1 = Len(run.plan)
  BY <1>3 DEF GroupRunOK
<1>6. d \in Drive /\ Applied(w)
  BY <1>1, <1>3, <1>5, ApplyType, WriteSorts
<1>7. /\ \A e \in Drive :
           /\ drive'[e].place = drive[e].place
           /\ drive'[e].label = IF w.kind = "drive" /\ e = d THEN None ELSE drive[e].label
           /\ ac'[e].label = IF w.kind = "ac" /\ e = d THEN None ELSE ac[e].label
      /\ UNCHANGED sg
  BY <1>1, <1>5, <1>6 DEF Applied, Apply
<1> HIDE DEF d
<1>8. TypeOK'
  BY <1>1, <1>4, <1>6 DEF Applied, TypeOK, ACState, GroupState
<1>9. GroupsOK' /\ DriveRunOK'
  BY <1>4, <1>7 DEF GroupsOK, DriveRunOK
<1>10. GroupRunOK'
  <2>1. sg[g].fin /\ sg[g].phase = "REMOVING"
    BY DEF GroupRunOK
  <2>2. ASSUME NEW i \in DOMAIN run'.plan
        PROVE  /\ run'.plan[i].kind \in {"drive", "ac"} /\ run'.plan[i].val = None
               /\ run'.plan[i].kind = "drive" => i = Len(run'.plan)
    <3>1. i \in Nat /\ i + 1 \in DOMAIN run.plan /\ run'.plan[i] = run.plan[i + 1]
      BY <1>3, <1>4
    <3>2. /\ run.plan[i + 1].kind \in {"drive", "ac"} /\ run.plan[i + 1].val = None
          /\ run.plan[i + 1].kind = "drive" => i + 1 = Len(run.plan)
      BY <3>1 DEF GroupRunOK
    <3>3. i + 1 = Len(run.plan) => i = Len(run'.plan)
      BY <1>3, <1>4, <3>1
    <3> QED
      BY <3>1, <3>2, <3>3
  <2> QED
    BY <1>4, <1>7, <2>1, <2>2 DEF GroupRunOK
<1>11. UnseenOK'
  <2>1. \A i \in DOMAIN run'.plan : \E j \in DOMAIN run.plan : run'.plan[i] = run.plan[j]
    BY <1>3, <1>4
  <2>2. drive[d].place # "unseen"
    BY <1>3, <1>6 DEF UnseenOK, d
  <2> QED
    BY <1>4, <1>7, <2>1, <2>2 DEF UnseenOK
<1>12. ASSUME ~manual'
       PROVE  ReadOK' /\ LabelsOK' /\ CountOK'
  <2>1. ~manual
    BY <1>1, <1>12
  <2>2. w.kind = "drive" => w = Write("drive", d, None)
    BY <1>3, <1>5 DEF Writes, Write, d
  <2>3. w.kind = "drive" /\ InPlace(drive[d]) => d \notin run.todo /\ drive[d].label = g
    BY <1>3, <1>6, <2>1, <2>2 DEF ReadOK
  <2>4. ~Active(g)
    BY DEF GroupRunOK, Active
  <2>5. \A h \in Group : h # None
    BY GroupOrderAssumption
  <2>6. \A e, l : ~Planned(e, l)'
    BY <1>4 DEF Planned
  <2>7. LabelsOK'
    <3> SUFFICES ASSUME NEW h \in Group, NEW e \in Drive, Limited(h), Active(h)',
                        InPlace(drive'[e]), ac'[e].label = h
                 PROVE  drive'[e].label = h
      BY <2>6 DEF LabelsOK, Limited
    <3>1. InPlace(drive[e]) /\ Active(h) /\ ac[e].label = h
      BY <1>7, <2>5 DEF InPlace, Active
    <3>2. drive[e].label = h
      BY <2>1, <3>1 DEF LabelsOK
    <3>3. ~(w.kind = "drive" /\ e = d)
      BY <2>3, <2>4, <3>1, <3>2
    <3> QED
      BY <1>7, <3>2, <3>3
  <2>8. ASSUME NEW h \in Group, NEW n \in Range(NodeOf), Limited(h)
        PROVE  Cardinality(Holders(h, n)') <= NumberDrivesPerNode[h]
    <3>1. Holders(h, n)' \subseteq Holders(h, n)
      BY <1>7, <2>5, <2>6 DEF Holders, InPlace
    <3> QED
      BY <2>1, <2>8, <3>1, HoldersFewer
  <2>9. ReadOK'
    <3>1. \A e \in Drive : InPlace(drive[e]) /\ e \in run.todo => drive[e].label = g
      BY <2>1 DEF ReadOK
    <3>2. ASSUME NEW e \in Drive, InPlace(drive'[e]), NEW i \in DOMAIN run'.plan,
                 run'.plan[i] = Write("drive", e, None)
          PROVE  e \notin run.todo /\ drive'[e].label = g
      <4>1. i + 1 \in DOMAIN run.plan /\ i + 1 > 1 /\ run.plan[i + 1] = Write("drive", e, None)
        BY <1>3, <1>4, <3>2
      <4>2. w.kind # "drive"
        BY <1>3, <1>5, <4>1
      <4>3. e \notin run.todo /\ drive[e].label = g
        BY <1>7, <2>1, <3>2, <4>1 DEF ReadOK, InPlace
      <4> QED
        BY <1>7, <4>2, <4>3
    <3> QED
      BY <1>4, <1>7, <2>3, <3>1, <3>2 DEF ReadOK, InPlace
  <2> QED
    BY <1>4, <2>7, <2>8, <2>9 DEF CountOK, Limited
<1> QED
  BY <1>8, <1>9, <1>10, <1>11, <1>12

LEMMA LoopWriteFailsInv ==
  ASSUME SGInv, LoopWriteFails
  PROVE  SGInv'
<1> USE DEF SGInv
<1> DEFINE g == run.name
           stale == run.stale \ {Key(run.plan[i]) : i \in DOMAIN run.plan}
           errs == run.errs \/ ~(run.at = "sync" /\ Head(run.plan).kind = "ac")
<1>1. /\ run.at \in {"sync", "drop"} /\ changes' \in 0..MaxChanges
      /\ run' = [run EXCEPT !.plan = << >>, !.stale = stale, !.errs = errs]
      /\ UNCHANGED <<drive, ac, sg, queue, lvg, vol, placing, manual, lost>>
  BY ChangeType DEF LoopWriteFails
<1>2. run \in Run /\ g \in Group
  BY <1>1 DEF TypeOK, GroupRunOK
<1>3. stale \in SUBSET Object
  BY <1>2 DEF Run
<1>4. errs = TRUE \/ errs = FALSE
  OBVIOUS
<1>5. << >> \in Seq(Writes) /\ DOMAIN << >> = {}
  OBVIOUS
<1> HIDE DEF stale, errs
<1>6. /\ run' \in Run /\ run'.at = run.at /\ run'.name = g /\ run'.todo = run.todo
      /\ run'.counted = run.counted /\ run'.plan = << >>
  BY <1>1, <1>2, <1>3, <1>4, <1>5 DEF Run
<1>7. TypeOK'
  BY <1>1, <1>6 DEF TypeOK
<1>8. GroupsOK' /\ DriveRunOK' /\ GroupRunOK' /\ UnseenOK'
  BY <1>1, <1>5, <1>6 DEF GroupsOK, DriveRunOK, GroupRunOK, UnseenOK
<1>9. ASSUME ~manual'
      PROVE  ReadOK' /\ LabelsOK' /\ CountOK'
  <2>1. LabelsOK' /\ \A h \in Group, n \in Range(NodeOf) :
          Limited(h) => Cardinality(Holders(h, n)') <= NumberDrivesPerNode[h]
    BY <1>1, <1>6, <1>9, LabelsStay DEF Active
  <2>2. \A e \in Drive : << >> # <<Write("ac", e, g)>> /\ << >> # LabelBoth(e, g)
    BY <1>2, LabelBothOnce
  <2>3. ReadOK'
    BY <1>1, <1>5, <1>6, <1>9, <2>2 DEF ReadOK
  <2>4. CountOK'
    BY <1>1, <1>6, <1>9, <2>1, <2>2 DEF CountOK, Limited, CountedOn
  <2> QED
    BY <2>1, <2>3, <2>4
<1> QED
  BY <1>7, <1>8, <1>9

\* The end of a reconciliation of a group: only the group itself changes, and it does not
\* become active.
LEMMA GroupEnd ==
  ASSUME SGInv, TypeOK', run' = Ended, UNCHANGED <<drive, ac, manual>>, GroupsOK',
         \A h \in Group : Active(h)' => Active(h)
  PROVE  SGInv'
<1> USE DEF SGInv
<1>1. run'.at = "idle" /\ run'.plan = << >> /\ run'.todo = {}
  BY ConstantTypes
<1>2. UnseenOK'
  BY <1>1 DEF UnseenOK
<1>3. ASSUME ~manual'
      PROVE  LabelsOK' /\ CountOK'
  <2>1. LabelsOK' /\ \A h \in Group, n \in Range(NodeOf) :
          Limited(h) => Cardinality(Holders(h, n)') <= NumberDrivesPerNode[h]
    BY <1>1, <1>3, LabelsStay
  <2> QED
    BY <1>1, <2>1 DEF CountOK
<1> QED
  BY <1>1, <1>2, <1>3, RunOver

LEMMA SyncEndInv ==
  ASSUME SGInv, SyncEnd
  PROVE  SGInv'
<1> USE DEF SGInv
<1> DEFINE g == run.name
           w == Write("sg", g, "SYNCED")
           new == [sg[g] EXCEPT !.phase = "SYNCED"]
<1>1. /\ run.at = "sync" /\ run' = Ended /\ UNCHANGED <<lvg, vol, manual, lost, changes>>
      /\ \/ queue' = queue \cup {g} /\ UNCHANGED <<drive, ac, sg, placing>>
         \/ CanWrite(w) /\ Apply(w)
  BY DEF SyncEnd
<1>2. g \in Group /\ sg[g].fin /\ sg[g].phase # "REMOVING"
      /\ sg \in [Group -> GroupState] /\ sg[g].phase # "absent"
  BY <1>1 DEF GroupRunOK, GroupsOK, TypeOK, GroupState
<1>3. w.kind = "sg" /\ w.id = g /\ w.val = "SYNCED"
  BY DEF Write
<1>4. new \in GroupState /\ new.fin = sg[g].fin /\ new.del = sg[g].del /\ new.phase = "SYNCED"
  BY <1>2 DEF GroupState, Phase
<1>5. CASE UNCHANGED sg /\ queue' = queue \cup {g} /\ UNCHANGED <<drive, ac, placing>>
  <2>1. TypeOK'
    BY <1>1, <1>2, <1>5, ConstantTypes DEF TypeOK
  <2> QED
    BY <1>1, <1>5, <2>1, NothingMoves, EndStep
<1>6. CASE Apply(w)
  <2>1. PutGroup(g, new) /\ UNCHANGED <<drive, ac, placing>>
    BY <1>3, <1>6 DEF Apply
  <2> HIDE DEF new, w
  <2>2. /\ sg' \in [Group -> GroupState] /\ queue' \subseteq Drive \cup Group
        /\ sg'[run.name] = new /\ \A h \in Group \ {run.name} : sg'[h] = sg[h]
    BY <1>2, <1>4, <2>1, PutGroupType
  <2>3. TypeOK'
    <3>1. \A h \in Group : sg'[h].phase \in {"SYNCING", "SYNCED"} => sg'[h].fin
      BY <1>2, <1>4, <2>2 DEF TypeOK
    <3> QED
      BY <1>1, <2>1, <2>2, <3>1, ConstantTypes DEF TypeOK, GroupState
  <2>4. GroupsOK'
    BY <1>2, <1>4, <2>2 DEF GroupsOK
  <2>5. \A h \in Group : Active(h)' => Active(h)
    BY <1>2, <2>2 DEF Active
  <2> QED
    BY <1>1, <2>1, <2>3, <2>4, <2>5, GroupEnd
<1> QED
  BY <1>1, <1>5, <1>6

LEMMA DropEndInv ==
  ASSUME SGInv, DropEnd
  PROVE  SGInv'
<1> USE DEF SGInv
<1> DEFINE g == run.name
           gone == [phase |-> "absent", fin |-> FALSE, del |-> FALSE]
<1>1. /\ run.at = "drop" /\ run' = Ended
      /\ UNCHANGED <<drive, ac, lvg, vol, placing, manual, lost, changes>>
      /\ \/ queue' = queue \cup {g} /\ UNCHANGED sg
         \/ PutGroup(g, gone)
  BY DEF DropEnd, EnvUnchanged
<1>2. g \in Group /\ sg \in [Group -> GroupState]
  BY <1>1 DEF GroupRunOK, TypeOK, GroupState
<1>3. gone \in GroupState /\ gone.fin = FALSE /\ gone.del = FALSE /\ gone.phase = "absent"
  BY DEF GroupState, Phase
<1>4. CASE queue' = queue \cup {g} /\ UNCHANGED sg
  <2>1. TypeOK'
    BY <1>1, <1>2, <1>4, ConstantTypes DEF TypeOK
  <2> QED
    BY <1>1, <1>4, <2>1, NothingMoves, EndStep
<1>5. CASE PutGroup(g, gone)
  <2> HIDE DEF gone
  <2>1. /\ sg' \in [Group -> GroupState] /\ queue' \subseteq Drive \cup Group
        /\ sg'[run.name] = gone /\ \A h \in Group \ {run.name} : sg'[h] = sg[h]
    BY <1>2, <1>3, <1>5, PutGroupType
  <2>2. TypeOK'
    <3>1. \A h \in Group : sg'[h].phase \in {"SYNCING", "SYNCED"} => sg'[h].fin
      BY <1>2, <1>3, <2>1 DEF TypeOK
    <3> QED
      BY <1>1, <2>1, <3>1, ConstantTypes DEF TypeOK, GroupState
  <2>3. GroupsOK'
    BY <1>2, <1>3, <2>1 DEF GroupsOK
  <2>4. \A h \in Group : Active(h)' => Active(h)
    BY <1>2, <1>3, <2>1 DEF Active
  <2> QED
    BY <1>1, <2>2, <2>3, <2>4, GroupEnd
<1> QED
  BY <1>1, <1>4, <1>5

-----------------------------------------------------------------------------
(* The invariant                                                           *)

LEMMA InitInv ==
  ASSUME Init
  PROVE  SGInv
<1>1. /\ \A d \in Drive : drive[d].label = None /\ ac[d].label = None
                          /\ drive[d].place \in {"in", "unseen"}
      /\ drive \in [Drive -> DriveState] /\ ac \in [Drive -> ACState]
  BY DEF Init, DriveState, Place, Label, ACState
<1>2. PICK gs \in GroupsAtStart :
        sg = [g \in Group |-> [phase |-> IF g \in gs THEN "" ELSE "absent",
                               fin |-> FALSE, del |-> FALSE]]
  BY DEF Init
<1>3. /\ sg \in [Group -> GroupState]
      /\ \A g \in Group : sg[g].phase \in {"", "absent"} /\ sg[g].fin = FALSE /\ sg[g].del = FALSE
  BY <1>2 DEF GroupState, Phase
<1>4. run = Ended /\ run.at = "idle" /\ run.plan = << >> /\ run.todo = {} /\ run \in Run
  BY ConstantTypes DEF Init
<1>5. /\ lvg = {} /\ vol = {} /\ placing = [d \in Drive |-> "no"]
      /\ queue \subseteq Drive \cup Group /\ manual = FALSE /\ lost = {} /\ changes \in 0..MaxChanges
  <2>1. /\ lvg = {} /\ vol = {} /\ placing = [d \in Drive |-> "no"]
        /\ manual = FALSE /\ lost = {} /\ changes = 0
        /\ queue = {d \in Drive : Exists(drive[d])} \cup {g \in Group : sg[g].phase # "absent"}
    BY DEF Init
  <2>2. queue \subseteq Drive \cup Group
    BY <2>1
  <2>3. changes \in 0..MaxChanges
    BY <2>1, ChangesAssumption
  <2> QED
    BY <2>1, <2>2, <2>3
<1>6. TypeOK
  BY <1>1, <1>3, <1>4, <1>5 DEF TypeOK, ACState, GroupState
<1>7. GroupsOK /\ DriveRunOK /\ GroupRunOK /\ UnseenOK /\ ReadOK
  BY <1>1, <1>3, <1>4 DEF GroupsOK, DriveRunOK, GroupRunOK, UnseenOK, ReadOK
<1>8. \A d \in Drive, g \in Group : ~Planned(d, g) /\ drive[d].label # g /\ ac[d].label # g
  BY <1>1, <1>4, GroupOrderAssumption DEF Planned
<1>9. LabelsOK
  BY <1>8 DEF LabelsOK
<1>10. CountOK
  <2>1. \A g \in Group, n \in Range(NodeOf) : Holders(g, n) = {}
    BY <1>8 DEF Holders
  <2>2. Cardinality({}) = 0
    BY FS_EmptySet
  <2> QED
    <3>1. \A g \in Group, n \in Range(NodeOf) :
            Limited(g) => Cardinality(Holders(g, n)) <= NumberDrivesPerNode[g]
      <4>1. \A g \in Group : 0 <= NumberDrivesPerNode[g]
        BY NumberAssumption
      <4> QED
        BY <2>1, <2>2, <4>1
    <3> QED
      BY <1>4, <3>1 DEF CountOK
<1> QED
  BY <1>6, <1>7, <1>9, <1>10 DEF SGInv

LEMMA NextInv ==
  ASSUME SGInv, [Next]_vars
  PROVE  SGInv'
<1>1. CASE UNCHANGED vars
  BY <1>1, StutterInv
<1>2. ASSUME NEW d \in Drive, ReconcileDriveStart(d)
      PROVE  SGInv'
  BY <1>2, ReconcileDriveStartInv
<1>3. ASSUME NEW g \in Group, ReconcileGroupStart(g)
      PROVE  SGInv'
  BY <1>3, ReconcileGroupStartInv
<1>4. CASE Continue
  <2>1. CASE LoopWrite
    <3>1. run.at \in {"sync", "drop"}
      BY <2>1 DEF LoopWrite
    <3>2. run.name \in Group
      BY <3>1 DEF SGInv, GroupRunOK
    <3> QED
      BY <2>1, <3>1, <3>2, LoopWriteSyncInv, LoopWriteDropInv
  <2> QED
    BY <1>4, <2>1, AddDriveInv, DropDriveInv, ReconcileDriveLabelInv, DriveWriteInv,
       DriveWriteFailsInv, GroupWriteInv, GroupWriteFailsInv, ListDrivesInv, LoopWriteFailsInv,
       SyncEndInv, DropEndInv
       DEF Continue
<1>5. ASSUME NEW d \in Drive, Others(d) \/ DiscoverClean(d)
      PROVE  SGInv'
  BY <1>5, PlacementInv, ReconcileCapacityInv, TriggerStorageGroupResyncInv, DriveChangesInv
     DEF Others
<1>6. CASE Environment
  BY <1>6, RestartInv, DeleteGroupInv, EditLabelInv, PlacementInv, DriveChangesInv, ACsDeletedInv
     DEF Environment
<1> QED
  BY <1>1, <1>2, <1>3, <1>4, <1>5, <1>6 DEF Next

\* SGInv holds in every state the controller and the others can reach.
THEOREM InvHolds == Spec => []SGInv
<1>1. Init => SGInv
  BY InitInv
<1>2. SGInv /\ [Next]_vars => SGInv'
  BY NextInv
<1> QED
  BY <1>1, <1>2, PTL DEF Spec

\* Every variable of the storage group controller keeps its type, and a group that is
\* being synced or is synced has its finalizer (reconcileStorageGroup adds it first).
THEOREM TypeCorrect == Spec => []TypeOK
<1>1. SGInv => TypeOK
  BY DEF SGInv
<1> QED
  BY <1>1, InvHolds, PTL

\* The controller never labels more drives of a node than NumberDrivesPerNode asks for, as
\* long as no user edits labels by hand: over any number of drives, groups, restarts,
\* failed updates, removed drives and resyncs (drivesCount in
\* handleStorageGroupCreationOrUpdate).
THEOREM NumberKept == Spec => []NumberRespected
<1>1. ASSUME SGInv
      PROVE  NumberRespected
  <2> SUFFICES ASSUME ~manual, NEW g \in Group, NEW n \in Range(NodeOf),
                      NumberDrivesPerNode[g] > 0
               PROVE  Cardinality({d \in Drive : /\ NodeOf[d] = n /\ InPlace(drive[d])
                                                 /\ drive[d].label = g})
                        <= NumberDrivesPerNode[g]
    BY DEF NumberRespected
  <2> DEFINE labelled == {d \in Drive : /\ NodeOf[d] = n /\ InPlace(drive[d])
                                        /\ drive[d].label = g}
  <2>1. labelled \subseteq Holders(g, n) /\ Holders(g, n) \in SUBSET Drive
    BY DEF Holders
  <2>2. Cardinality(Holders(g, n)) <= NumberDrivesPerNode[g]
    BY <1>1 DEF SGInv, CountOK, Limited
  <2> HIDE DEF labelled
  <2>3. Cardinality(labelled) <= NumberDrivesPerNode[g]
    BY <2>1, <2>2, CardFewer, NumberAssumption
  <2> QED
    BY <2>3 DEF labelled
<1> QED
  BY <1>1, InvHolds, PTL
=============================================================================
