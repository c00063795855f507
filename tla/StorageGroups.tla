--------------------------- MODULE StorageGroups ---------------------------
(***************************************************************************)
(* The storage group controller (pkg/crcontrollers/storagegroup): it       *)
(* writes the name of a StorageGroup as a label on the Drives the group    *)
(* selects and on their AvailableCapacities, which is what the planner     *)
(* compares with the label of a claim.  One worker serves drives and       *)
(* groups from one queue; everything else that writes the same objects     *)
(* (users, CreateVolume, DeleteVolume, the capacity controller, discovery, *)
(* the services monitor, the drive controller) runs between its API calls. *)
(* An update carries the resource version of the object that was read, so  *)
(* it fails when somebody wrote the object since.                          *)
(***************************************************************************)
EXTENDS Naturals, FiniteSets, Sequences, SequencesExt

CONSTANTS
  Drive,               \* names (UUIDs) of drives
  Group,               \* names of storage groups; the order of the list is GroupOrder
  None,                \* no label
  GroupOrder,          \* a sequence of all groups: the order ReadList returns them in
  NodeOf,              \* Drive -> node
  DriveField,          \* Drive -> [field name -> value], the fields of api.Drive
  FieldValues,         \* [field name -> values that parse as the field's type]
  MatchFields,         \* Group -> [field name -> value]
  NumberDrivesPerNode, \* Group -> Nat, 0 for "all drives"
  DrivesAtStart,       \* drives in place when the controller starts
  GroupsAtStart,       \* the sets of groups that may have been created before it starts
  MaxChanges           \* bound on the steps of the environment and on failed writes

ASSUME DriveAssumption == IsFiniteSet(Drive) /\ DrivesAtStart \subseteq Drive
ASSUME GroupOrderAssumption ==
  /\ IsFiniteSet(Group) /\ None \notin Group
  /\ GroupOrder \in Seq(Group)
  /\ Range(GroupOrder) = Group /\ Len(GroupOrder) = Cardinality(Group)
ASSUME NumberAssumption == NumberDrivesPerNode \in [Group -> Nat]
ASSUME ChangesAssumption == MaxChanges \in Nat

VARIABLES
  drive,    \* Drive CR: place, IsClean and the storage group label
  ac,       \* AvailableCapacity of the drive: where it is located, free space, label
  lvg,      \* drives with a LogicalVolumeGroup CR
  vol,      \* drives (or their LVGs) with a Volume CR
  placing,  \* CreateVolume's progress on a drive
  sg,       \* StorageGroup CR: phase, finalizer, deletion timestamp
  queue,    \* the controller's work queue
  run,      \* the reconciliation under way
  manual,   \* a user has edited a drive's label
  lost,     \* drives whose AC was deleted and made again
  changes   \* environment steps taken

vars == <<drive, ac, lvg, vol, placing, sg, queue, run, manual, lost, changes>>
----------------------------------------------------------------------------
Label == Group \cup {None}
Place == {"unseen", "absent", "in", "removed", "noac", "resynced"}
Phase == {"absent", "", "INVALID", "SYNCING", "SYNCED", "REMOVING"}

\* One API update of the reconciliation: the object, and the label or phase it gets.
Write(kind, id, val) == [kind |-> kind, id |-> id, val |-> val]

NoDrive == [place |-> "absent", clean |-> FALSE, label |-> None]

DriveState == [place : Place, clean : BOOLEAN, label : Label]
Writes ==
  [kind : {"drive", "ac"}, id : Drive, val : Label]
    \cup [kind : {"sg"}, id : Group, val : {"INVALID", "SYNCING", "REMOVING"}]
    \cup [kind : {"fin"}, id : Group, val : {None}]
Object == {"drive", "ac", "sg"} \X (Drive \cup Group \cup {None})
Run == [at : {"idle", "drive", "write", "group", "list", "sync", "drop"},
        name : Drive \cup Group \cup {None}, dr : DriveState,
        todo : SUBSET Drive, clean : SUBSET Drive, counted : SUBSET Drive,
        plan : Seq(Writes), stale : SUBSET Object, errs : BOOLEAN, kept : BOOLEAN]

\* A run that is over keeps nothing of what it read.
IsIdle == run.at = "idle"
Ended == [at |-> "idle", name |-> None, dr |-> NoDrive, todo |-> {}, clean |-> {},
          counted |-> {}, plan |-> << >>, stale |-> {}, errs |-> FALSE, kept |-> FALSE]

\* A drive that was pulled out but whose CR is not deleted yet: Usage REMOVED and
\* Status OFFLINE.
InPlace(dr) == dr.place = "in"
Exists(dr) == dr.place \notin {"unseen", "absent"}

TypeOK ==
  /\ drive \in [Drive -> DriveState]
  /\ ac \in [Drive -> [loc : {"absent", "drive", "lvg"}, free : BOOLEAN, label : Label]]
  /\ lvg \subseteq Drive /\ vol \subseteq Drive
  /\ placing \in [Drive -> {"no", "lvg", "volume", "decrease", "conflict"}]
  /\ sg \in [Group -> [phase : Phase, fin : BOOLEAN, del : BOOLEAN]]
  /\ \A g \in Group : sg[g].phase \in {"SYNCING", "SYNCED"} => sg[g].fin
  /\ queue \subseteq Drive \cup Group
  /\ run \in Run
  /\ lost \subseteq Drive /\ manual \in BOOLEAN /\ changes \in 0..MaxChanges
----------------------------------------------------------------------------
(* Selection.                                                              *)

UnsupportedDriveMatchFields == {"Health", "Status", "Usage", "IsClean"}

\* isMatchFieldsValid: every field is a field of Drive and its value parses.
IsStorageGroupValid(g) ==
  \A f \in DOMAIN MatchFields[g] : f \in DOMAIN FieldValues /\ MatchFields[g][f] \in FieldValues[f]

\* isDriveSelectedByValidMatchFields: fields that change at run time are skipped.
Selected(d, g) ==
  \A f \in DOMAIN MatchFields[g] \ UnsupportedDriveMatchFields :
    DriveField[d][f] = MatchFields[g][f]

\* A plausible slip: drives labelled in an earlier reconciliation are not counted.
CountedNow(g) == {}

\* handleStorageGroupCreationOrUpdate's count: drives of the list that are in place
\* and already carry the label.
Counted(g) ==
  IF NumberDrivesPerNode[g] = 0 \/ sg[g].phase = "REMOVING" THEN {}
  ELSE {d \in Drive : InPlace(drive[d]) /\ drive[d].label = g}

HasRoom(counted, d, g) ==
  NumberDrivesPerNode[g] = 0
    \/ Cardinality({e \in counted : NodeOf[e] = NodeOf[d]}) < NumberDrivesPerNode[g]
----------------------------------------------------------------------------
(* Events.  Deletions of drives are filtered out; every change of a group  *)
(* is delivered.                                                           *)

DriveEvent(d, old, new) ==
  LET updated == old.label # new.label \/ (~old.clean /\ new.clean /\ new.label = None)
      created == ~Exists(old) /\ Exists(new)
  IN  IF (Exists(old) /\ Exists(new) /\ updated) \/ created THEN {d} ELSE {}

\* Somebody else wrote objects: what the reconciliation read of them, and will write, is
\* stale.
Key(w) == <<IF w.kind = "fin" THEN "sg" ELSE w.kind, w.id>>
Held == {Key(run.plan[i]) : i \in DOMAIN run.plan}
          \cup {<<"drive", d>> : d \in run.todo \cup {run.name}} \cup {<<"sg", run.name>>}
Stale(os) == IF IsIdle THEN run ELSE [run EXCEPT !.stale = @ \cup (os \cap Held)]
Touched(o) == Stale({o})

PutDrive(d, new) ==
  /\ drive' = [drive EXCEPT ![d] = new]
  /\ queue' = queue \cup DriveEvent(d, drive[d], new)

PutGroup(g, new) ==
  /\ sg' = [sg EXCEPT ![g] = new]
  /\ queue' = queue \cup {g}
----------------------------------------------------------------------------
(* The reconciliation of a drive.                                          *)

EnvUnchanged == UNCHANGED <<lvg, vol, placing, manual, lost, changes>>

\* CreateVolume read the AC before: its own update of it will fail.
Conflict(d) == [placing EXCEPT ![d] = IF @ \in {"lvg", "decrease"} THEN "conflict" ELSE @]

\* Reconcile for a name that is a drive.  A drive that is gone, or removed and
\* offline, is not a storage group either: nothing to do.
ReconcileDriveStart(d) ==
  /\ IsIdle /\ d \in queue
  /\ queue' = queue \ {d}
  /\ run' = IF InPlace(drive[d])
              THEN [Ended EXCEPT !.at = "drive", !.name = d, !.dr = drive[d]]
              ELSE run
  /\ UNCHANGED <<drive, ac, sg>> /\ EnvUnchanged

\* The AC found by location: the LVG on the drive when there is one, else the drive.
ACFound(d) == ac[d].loc = (IF d \in lvg THEN "lvg" ELSE "drive")

\* The sequences of these groups in the order of the list: there is one.
Position(g) == CHOOSE i \in DOMAIN GroupOrder : GroupOrder[i] = g
InOrder(gs) ==
  {q \in [1..Cardinality(gs) -> gs] :
     \A i, j \in DOMAIN q : i < j => Position(q[i]) < Position(q[j])}

\* findAndAddMatchedStorageGroupLabel: groups with a number per node are sent back to
\* SYNCING on the way to the first matching group that takes all drives.
Matching(d) ==
  {g \in Group :
    /\ \/ sg[g].phase = "SYNCED"
       \/ sg[g].phase = "SYNCING" /\ NumberDrivesPerNode[g] = 0
    /\ Selected(d, g)}

TakingAll(d) == {g \in Matching(d) : NumberDrivesPerNode[g] = 0}
FirstTakingAll(d) == {g \in TakingAll(d) : \A h \in TakingAll(d) : Position(g) <= Position(h)}
OnTheWay(d) ==
  {g \in Matching(d) \ TakingAll(d) : \A h \in FirstTakingAll(d) : Position(g) < Position(h)}

ToSync(q) == [i \in DOMAIN q |-> Write("sg", q[i], "SYNCING")]
LabelBoth(d, g) == <<Write("drive", d, g), Write("ac", d, g)>>

FindAndAddMatchedStorageGroupLabel(d) ==
  {ToSync(q) \o l : q \in InOrder(OnTheWay(d)),
                    l \in IF TakingAll(d) = {} THEN {<< >>}
                          ELSE {LabelBoth(d, g) : g \in FirstTakingAll(d)}}

\* handleSeparateDriveStorageGroupLabelAddition: a label on a drive that cannot be
\* given away is taken back, and the group that counted it is synced again.
HandleAddition(d, dr) ==
  LET g == dr.label
  IN  IF ~dr.clean \/ d \in lvg \/ ~ac[d].free
      THEN (IF sg[g].phase = "SYNCED" /\ NumberDrivesPerNode[g] > 0 /\ Selected(d, g)
              THEN <<Write("sg", g, "SYNCING")>> ELSE << >>)
           \o <<Write("drive", d, None)>>
      ELSE <<Write("ac", d, g)>>

\* handleManualDriveStorageGroupLabelRemoval: the label comes back while volumes stand
\* on the drive or the group still selects it.
HandleRemoval(d) ==
  LET g == ac[d].label
  IN  IF d \in vol \/ (sg[g].phase \in {"SYNCED", "SYNCING"} /\ Selected(d, g))
      THEN <<Write("drive", d, g)>>
      ELSE <<Write("ac", d, None)>>

\* reconcileDriveStorageGroupLabel: the updates it may make
LabelPlan(d, dr) ==
  CASE ac[d].label = dr.label /\ dr.label = None /\ dr.clean /\ d \notin lvg /\ ac[d].free
         -> FindAndAddMatchedStorageGroupLabel(d)
    [] ac[d].label = dr.label /\ ~(dr.label = None /\ dr.clean /\ d \notin lvg /\ ac[d].free)
         -> {<< >>}
    [] ac[d].label = None /\ dr.label # None -> {HandleAddition(d, dr)}
    [] ac[d].label # None /\ dr.label = None -> {HandleRemoval(d)}
    [] OTHER -> {<<Write("drive", d, ac[d].label)>>}

ReconcileDriveStorageGroupLabel ==
  LET d == run.name
  IN  /\ run.at = "drive"
      /\ IF ~ACFound(d)
         THEN run' = Ended /\ queue' = queue \cup {d}
         ELSE /\ \E plan \in LabelPlan(d, run.dr) :
                   run' = IF plan = << >> THEN Ended
                          ELSE [run EXCEPT !.at = "write", !.dr = NoDrive, !.plan = plan]
              /\ UNCHANGED queue
      /\ UNCHANGED <<drive, ac, sg>> /\ EnvUnchanged

\* Whether the API server takes a write.
CanWrite(w) ==
  /\ Key(w) \notin run.stale
  /\ CASE w.kind = "drive" -> Exists(drive[w.id])
       [] w.kind = "ac" -> ac[w.id].loc # "absent"
       [] w.kind \in {"sg", "fin"} -> sg[w.id].phase # "absent"

Apply(w) ==
  CASE w.kind = "drive" ->
         PutDrive(w.id, [drive[w.id] EXCEPT !.label = w.val]) /\ UNCHANGED <<ac, sg, placing>>
    [] w.kind = "ac" ->
         /\ ac' = [ac EXCEPT ![w.id].label = w.val] /\ placing' = Conflict(w.id)
         /\ UNCHANGED <<drive, sg, queue>>
    [] w.kind = "sg" ->
         PutGroup(w.id, [sg[w.id] EXCEPT !.phase = w.val])
         /\ UNCHANGED <<drive, ac, placing>>
    [] w.kind = "fin" ->
         PutGroup(w.id, [sg[w.id] EXCEPT !.fin = TRUE]) /\ UNCHANGED <<drive, ac, placing>>

\* UpdateCR succeeds.
DriveWrite ==
  LET w == Head(run.plan)
  IN  /\ run.at = "write" /\ CanWrite(w)
      /\ Apply(w)
      /\ run' = IF Len(run.plan) = 1 THEN Ended ELSE [run EXCEPT !.plan = Tail(@)]
      /\ UNCHANGED <<lvg, vol, manual, lost, changes>>

\* A plausible slip: a failed update is not queued again.
DriveWriteFailsForGood ==
  /\ run.at = "write"
  /\ IF CanWrite(Head(run.plan))
       THEN changes < MaxChanges /\ changes' = changes + 1
       ELSE UNCHANGED changes
  /\ run' = Ended
  /\ UNCHANGED <<drive, ac, sg, queue, lvg, vol, placing, manual, lost>>

\* UpdateCR fails: the reconciliation ends with an error and is queued again.
DriveWriteFails ==
  /\ run.at = "write"
  /\ IF CanWrite(Head(run.plan))
       THEN changes < MaxChanges /\ changes' = changes + 1
       ELSE UNCHANGED changes
  /\ run' = Ended /\ queue' = queue \cup {run.name}
  /\ UNCHANGED <<drive, ac, sg, lvg, vol, placing, manual, lost>>
----------------------------------------------------------------------------
(* The reconciliation of a group.                                          *)

\* reconcileStorageGroup: the writes that come before the list of drives is read, and
\* what follows them.
GroupPlan(s, g) ==
  CASE s.del /\ s.phase # "REMOVING" -> <<Write("sg", g, "REMOVING")>>
    [] s.del /\ s.phase = "REMOVING" -> << >>
    [] ~s.del /\ s.phase = "" ->
         (IF s.fin THEN << >> ELSE <<Write("fin", g, None)>>) \o
         <<Write("sg", g, IF IsStorageGroupValid(g) THEN "SYNCING" ELSE "INVALID")>>
    [] OTHER -> IF s.fin THEN << >> ELSE <<Write("fin", g, None)>>

ReconcileGroupStart(g) ==
  LET s == sg[g]
      then == IF s.del \/ s.phase = "SYNCING" \/ (s.phase = "" /\ IsStorageGroupValid(g))
                THEN "list" ELSE "idle"
  IN  /\ IsIdle /\ g \in queue
      /\ queue' = queue \ {g}
      /\ run' = CASE s.phase = "absent" -> run
                  [] s.phase # "absent" /\ GroupPlan(s, g) # << >> ->
                       [Ended EXCEPT !.at = "group", !.name = g, !.plan = GroupPlan(s, g),
                                     !.kept = (then = "list")]
                  [] OTHER -> IF then = "idle" THEN run
                              ELSE [Ended EXCEPT !.at = "list", !.name = g]
      /\ UNCHANGED <<drive, ac, sg>> /\ EnvUnchanged

GroupWrite ==
  LET w == Head(run.plan)
  IN  /\ run.at = "group" /\ CanWrite(w)
      /\ Apply(w)
      /\ run' = IF Len(run.plan) > 1 THEN [run EXCEPT !.plan = Tail(@)]
                ELSE IF run.kept THEN [run EXCEPT !.plan = << >>, !.at = "list", !.kept = FALSE]
                ELSE Ended
      /\ UNCHANGED <<lvg, vol, manual, lost, changes>>

GroupWriteFails ==
  /\ run.at = "group"
  /\ IF CanWrite(Head(run.plan))
       THEN changes < MaxChanges /\ changes' = changes + 1
       ELSE UNCHANGED changes
  /\ run' = Ended /\ queue' = queue \cup {run.name}
  /\ UNCHANGED <<drive, ac, sg, lvg, vol, placing, manual, lost>>

\* Both handlers read the list of drives; a removed drive does not join, but its label
\* is dropped with the group.
ListDrives ==
  LET g == run.name
  IN  /\ run.at = "list"
      /\ run' = [run EXCEPT
           !.at = IF sg[g].phase = "REMOVING" THEN "drop" ELSE "sync",
           !.clean = IF sg[g].phase = "REMOVING" THEN {} ELSE {d \in Drive : drive[d].clean},
           !.counted = Counted(g),
           !.todo = IF sg[g].phase = "REMOVING"
                      THEN {d \in Drive : Exists(drive[d]) /\ drive[d].label = g}
                      ELSE {d \in Drive : /\ InPlace(drive[d]) /\ drive[d].label = None
                                          /\ Selected(d, g)}]
      /\ UNCHANGED <<drive, ac, sg, queue>> /\ EnvUnchanged

\* addDriveAndACStorageGroupLabel up to its writes, for the next drive of the list.  An
\* AC that is not there although no LVG took the drive is an error.
AddDrive(d) ==
  LET g == run.name
      next == [run EXCEPT !.todo = @ \ {d}, !.clean = @ \ {d}, !.stale = @ \ {<<"drive", d>>}]
  IN  /\ run.at = "sync" /\ run.plan = << >> /\ d \in run.todo
      /\ run' = IF ~HasRoom(run.counted, d, g) \/ d \notin run.clean THEN next
                ELSE IF ac[d].loc # "drive" THEN [next EXCEPT !.errs = @ \/ d \notin lvg]
                ELSE IF ~ac[d].free THEN next
                ELSE [next EXCEPT !.plan = LabelBoth(d, g), !.stale = run.stale]
      /\ UNCHANGED <<drive, ac, sg, queue>> /\ EnvUnchanged

\* removeDriveAndACStorageGroupLabel up to its writes.  A missing AC is no error.
DropDrive(d) ==
  LET drop == (IF ACFound(d) THEN <<Write("ac", d, None)>> ELSE << >>)
              \o <<Write("drive", d, None)>>
      next == [run EXCEPT !.todo = @ \ {d}]
  IN  /\ run.at = "drop" /\ run.plan = << >> /\ d \in run.todo
      /\ run' = IF d \in vol THEN [next EXCEPT !.kept = TRUE, !.stale = @ \ {<<"drive", d>>}]
                ELSE [next EXCEPT !.plan = drop]
      /\ UNCHANGED <<drive, ac, sg, queue>> /\ EnvUnchanged

LoopWrite ==
  LET w == Head(run.plan)
  IN  /\ run.at \in {"sync", "drop"} /\ run.plan # << >> /\ CanWrite(w)
      /\ Apply(w)
      /\ run' = [run EXCEPT
           !.plan = Tail(@), !.stale = @ \ {Key(w)},
           !.counted = IF /\ run.at = "sync" /\ w.kind = "drive"
                          /\ NumberDrivesPerNode[run.name] > 0
                       THEN @ \cup {w.id} ELSE @]
      /\ UNCHANGED <<lvg, vol, manual, lost, changes>>

\* A failed write ends the work on this drive and is remembered; but once the drive is
\* labelled, the error of the AC's update is dropped.
LoopWriteFails ==
  LET w == Head(run.plan)
  IN  /\ run.at \in {"sync", "drop"} /\ run.plan # << >>
      /\ IF CanWrite(w) THEN changes < MaxChanges /\ changes' = changes + 1
         ELSE UNCHANGED changes
      /\ run' = [run EXCEPT
           !.plan = << >>, !.stale = @ \ {Key(run.plan[i]) : i \in DOMAIN run.plan},
           !.errs = @ \/ ~(run.at = "sync" /\ w.kind = "ac")]
      /\ UNCHANGED <<drive, ac, sg, queue, lvg, vol, placing, manual, lost>>

\* The end of handleStorageGroupCreationOrUpdate: the group is SYNCED.
SyncEnd ==
  LET g == run.name
      w == Write("sg", g, "SYNCED")
  IN  /\ run.at = "sync" /\ run.todo = {} /\ run.plan = << >>
      /\ run' = Ended
      /\ IF run.errs \/ ~CanWrite(w)
           THEN queue' = queue \cup {g} /\ UNCHANGED <<drive, ac, sg, placing>>
           ELSE Apply(w)
      /\ UNCHANGED <<lvg, vol, manual, lost, changes>>

\* A plausible slip: a group that waits for volumes is not queued again.
DropEndOnce ==
  LET g == run.name
      w == Write("sg", g, "absent")
  IN  /\ run.at = "drop" /\ run.todo = {} /\ run.plan = << >>
      /\ run' = Ended
      /\ IF run.errs \/ run.kept \/ (sg[g].fin /\ ~CanWrite(w))
           THEN UNCHANGED <<sg, queue>>
           ELSE PutGroup(g, [phase |-> "absent", fin |-> FALSE, del |-> FALSE])
      /\ UNCHANGED <<drive, ac>> /\ EnvUnchanged

\* The end of handleStorageGroupDeletion: without its finalizer the group is gone.
DropEnd ==
  LET g == run.name
      w == Write("sg", g, "absent")
  IN  /\ run.at = "drop" /\ run.todo = {} /\ run.plan = << >>
      /\ run' = Ended
      /\ IF run.errs \/ run.kept \/ (sg[g].fin /\ ~CanWrite(w))
           THEN queue' = queue \cup {g} /\ UNCHANGED sg
           ELSE PutGroup(g, [phase |-> "absent", fin |-> FALSE, del |-> FALSE])
      /\ UNCHANGED <<drive, ac>> /\ EnvUnchanged

\* The controller restarts: its queue is rebuilt from the objects that exist.
Restart ==
  /\ changes < MaxChanges /\ changes' = changes + 1
  /\ run' = Ended
  /\ queue' = {d \in Drive : Exists(drive[d])} \cup {g \in Group : sg[g].phase # "absent"}
  /\ UNCHANGED <<drive, ac, sg, lvg, vol, placing, manual, lost>>
----------------------------------------------------------------------------
(* Users, and the other controllers as far as they write these objects.    *)

Change == changes < MaxChanges /\ changes' = changes + 1

DeleteGroup(g) ==
  /\ Change /\ sg[g].phase # "absent" /\ ~sg[g].del
  /\ PutGroup(g, IF sg[g].fin THEN [sg[g] EXCEPT !.del = TRUE]
                 ELSE [phase |-> "absent", fin |-> FALSE, del |-> FALSE])
  /\ run' = Touched(<<"sg", g>>)
  /\ UNCHANGED <<drive, ac, lvg, vol, placing, manual, lost>>

EditLabel(d, l) ==
  /\ Change /\ Exists(drive[d]) /\ l # drive[d].label
  /\ PutDrive(d, [drive[d] EXCEPT !.label = l])
  /\ manual' = TRUE /\ run' = Touched(<<"drive", d>>)
  /\ UNCHANGED <<ac, sg, lvg, vol, placing, lost>>

\* CreateVolume for a drive class: the Volume, then the AC's size.
PlaceOnDrive(d) ==
  /\ Change /\ placing[d] = "no" /\ ac[d].loc = "drive" /\ ac[d].free /\ d \notin lvg
  /\ vol' = vol \cup {d} /\ placing' = [placing EXCEPT ![d] = "decrease"]
  /\ UNCHANGED <<drive, ac, lvg, sg, queue, run, manual, lost>>

\* CreateVolume for an LVM class on a free drive: the LVG, then the AC moves to it
\* (RecreateACToLVGSC), then the Volume.
PlaceCreateLVG(d) ==
  /\ Change /\ placing[d] = "no" /\ ac[d].loc = "drive" /\ ac[d].free /\ d \notin lvg
  /\ lvg' = lvg \cup {d} /\ placing' = [placing EXCEPT ![d] = "lvg"]
  /\ UNCHANGED <<drive, ac, vol, sg, queue, run, manual, lost>>

PlaceStep(d) ==
  /\ \/ /\ placing[d] = "decrease"
        /\ ac' = [ac EXCEPT ![d].free = FALSE] /\ run' = Touched(<<"ac", d>>) /\ UNCHANGED vol
     \/ /\ placing[d] = "lvg"
        /\ ac' = [ac EXCEPT ![d].loc = "lvg"] /\ run' = Touched(<<"ac", d>>) /\ UNCHANGED vol
     \/ /\ placing[d] = "volume"
        /\ vol' = vol \cup {d} /\ UNCHANGED <<ac, run>>
     \/ placing[d] = "conflict" /\ UNCHANGED <<ac, run, vol>>
  /\ placing' = [placing EXCEPT ![d] = IF @ = "lvg" THEN "volume" ELSE "no"]
  /\ UNCHANGED <<drive, lvg, sg, queue, manual, lost, changes>>

\* DeleteVolume of the last volume: the capacity goes back to the drive.
VolumeDeleted(d) ==
  /\ Change /\ d \in vol /\ placing[d] = "no"
  /\ vol' = vol \ {d} /\ lvg' = lvg \ {d}
  /\ ac' = [ac EXCEPT ![d].loc = IF @ = "absent" THEN @ ELSE "drive", ![d].free = TRUE]
  /\ run' = Touched(<<"ac", d>>)
  /\ UNCHANGED <<drive, placing, sg, queue, manual, lost>>

\* Discovery finds or no longer finds data on the drive.
DiscoverClean(d) ==
  /\ Exists(drive[d])
  /\ drive[d].clean = (d \in vol \cup lvg)
  /\ PutDrive(d, [drive[d] EXCEPT !.clean = ~@])
  /\ run' = Touched(<<"drive", d>>)
  /\ UNCHANGED <<ac, lvg, vol, placing, sg, manual, lost, changes>>

\* The capacity controller: an AC's size follows IsClean; a missing AC is made again.
ReconcileCapacity(d) ==
  /\ InPlace(drive[d])
  /\ \/ /\ ac[d].loc = "drive" /\ ac[d].free # drive[d].clean
        /\ ac' = [ac EXCEPT ![d].free = drive[d].clean]
     \/ /\ ac[d].loc = "absent" /\ d \notin lvg
        /\ ac' = [ac EXCEPT ![d] = [loc |-> "drive", free |-> drive[d].clean, label |-> None]]
  /\ placing' = Conflict(d) /\ run' = Touched(<<"ac", d>>)
  /\ UNCHANGED <<drive, lvg, vol, sg, queue, manual, lost, changes>>

\* The services monitor deletes the ACs of a node that is down.
ACsDeleted(n) ==
  LET ds == {d \in Drive : NodeOf[d] = n /\ ac[d].loc # "absent"}
  IN  /\ Change /\ ds # {}
      /\ ac' = [d \in Drive |-> IF d \in ds THEN [loc |-> "absent", free |-> FALSE, label |-> None]
                                ELSE ac[d]]
      /\ lost' = lost \cup ds
      /\ placing' = [d \in Drive |-> IF d \in ds THEN Conflict(d)[d] ELSE placing[d]]
      /\ run' = Stale({<<"ac", d>> : d \in ds})
      /\ UNCHANGED <<drive, lvg, vol, sg, queue, manual>>

\* A drive without volumes is pulled out; the drive controller (handleDriveUsageRemoved)
\* deletes its AC, has the group synced again and deletes the Drive.
DriveRemoved(d) ==
  /\ Change /\ InPlace(drive[d]) /\ d \notin vol \cup lvg /\ placing[d] = "no"
  /\ PutDrive(d, [drive[d] EXCEPT !.place = "removed"])
  /\ run' = Touched(<<"drive", d>>)
  /\ UNCHANGED <<ac, lvg, vol, placing, sg, manual, lost>>

RemoveRelatedAC(d) ==
  /\ drive[d].place = "removed"
  /\ ac' = [ac EXCEPT ![d] = [loc |-> "absent", free |-> FALSE, label |-> None]]
  /\ PutDrive(d, [drive[d] EXCEPT !.place = "noac"])
  /\ placing' = Conflict(d) /\ run' = Touched(<<"ac", d>>)
  /\ UNCHANGED <<lvg, vol, sg, manual, lost, changes>>

TriggerStorageGroupResync(d) ==
  LET g == drive[d].label
      applies == g # None /\ sg[g].phase \notin {"absent", "INVALID", "REMOVING"}
                 /\ NumberDrivesPerNode[g] > 0
  IN  /\ drive[d].place = "noac"
      /\ drive' = [drive EXCEPT ![d].place = "resynced"]
      /\ IF applies
           THEN /\ sg' = [sg EXCEPT ![g].phase = IF @ = "SYNCED" THEN "SYNCING" ELSE @]
                /\ queue' = queue \cup {g}
                /\ run' = Touched(<<"sg", g>>)
           ELSE UNCHANGED <<sg, queue, run>>
      /\ UNCHANGED <<ac, lvg, vol, placing, manual, lost, changes>>

DriveDeleted(d) ==
  /\ drive[d].place = "resynced"
  /\ PutDrive(d, [place |-> "absent", clean |-> FALSE, label |-> None])
  /\ run' = Touched(<<"drive", d>>) /\ lost' = lost \ {d}
  /\ UNCHANGED <<ac, lvg, vol, placing, sg, manual, changes>>

\* A drive that is found for the first time has a new UUID.
DriveAppears(d) ==
  /\ Change /\ drive[d].place = "unseen"
  /\ \E c \in BOOLEAN : PutDrive(d, [place |-> "in", clean |-> c, label |-> None])
  /\ run' = Touched(<<"drive", d>>)
  /\ UNCHANGED <<ac, lvg, vol, placing, sg, manual, lost>>
----------------------------------------------------------------------------
\* The controller starts on drives that are in place and groups users have created.
Init ==
  /\ drive = [d \in Drive |-> [place |-> IF d \in DrivesAtStart THEN "in" ELSE "unseen",
                               clean |-> TRUE, label |-> None]]
  /\ ac = [d \in Drive |-> IF InPlace(drive[d]) THEN [loc |-> "drive", free |-> TRUE, label |-> None]
                           ELSE [loc |-> "absent", free |-> FALSE, label |-> None]]
  /\ lvg = {} /\ vol = {} /\ placing = [d \in Drive |-> "no"]
  /\ \E gs \in GroupsAtStart :
       sg = [g \in Group |-> [phase |-> IF g \in gs THEN "" ELSE "absent",
                             fin |-> FALSE, del |-> FALSE]]
  /\ queue = {d \in Drive : Exists(drive[d])} \cup {g \in Group : sg[g].phase # "absent"}
  /\ run = Ended
  /\ manual = FALSE /\ lost = {} /\ changes = 0

\* The steps of the reconciliation under way.
Continue ==
  \/ \E d \in Drive : AddDrive(d) \/ DropDrive(d)
  \/ ReconcileDriveStorageGroupLabel \/ DriveWrite \/ DriveWriteFails
  \/ GroupWrite \/ GroupWriteFails \/ ListDrives
  \/ LoopWrite \/ LoopWriteFails \/ SyncEnd \/ DropEnd

Others(d) ==
  \/ PlaceStep(d) \/ ReconcileCapacity(d)
  \/ RemoveRelatedAC(d) \/ TriggerStorageGroupResync(d) \/ DriveDeleted(d)

Environment ==
  \/ Restart
  \/ \E g \in Group : DeleteGroup(g)
  \/ \E d \in Drive, l \in Label : EditLabel(d, l)
  \/ \E d \in Drive :
       \/ PlaceOnDrive(d) \/ PlaceCreateLVG(d) \/ VolumeDeleted(d)
       \/ DriveRemoved(d) \/ DriveAppears(d)
  \/ \E n \in Range(NodeOf) : ACsDeleted(n)

Next ==
  \/ \E d \in Drive : ReconcileDriveStart(d)
  \/ \E g \in Group : ReconcileGroupStart(g)
  \/ Continue
  \/ \E d \in Drive : Others(d) \/ DiscoverClean(d)
  \/ Environment

Spec == Init /\ [][Next]_vars
\* The queue is first in, first out, so a queued name is served however often another
\* one is queued again; the other controllers keep running.
FairSpec ==
  /\ Spec /\ WF_vars(Continue)
  /\ \A d \in Drive : SF_vars(ReconcileDriveStart(d)) /\ WF_vars(Others(d))
  /\ \A g \in Group : SF_vars(ReconcileGroupStart(g))
----------------------------------------------------------------------------
\* The controller never labels more drives of a node than NumberDrivesPerNode asks for,
\* over any number of restarts, failed updates, removed drives and resyncs, as long as no
\* user edits labels by hand (drivesCount in handleStorageGroupCreationOrUpdate).
NumberRespected ==
  ~manual => \A g \in Group, n \in Range(NodeOf) :
    NumberDrivesPerNode[g] > 0 =>
      Cardinality({d \in Drive : NodeOf[d] = n /\ InPlace(drive[d]) /\ drive[d].label = g})
        <= NumberDrivesPerNode[g]

\* Whatever users and the other controllers did, the label of a drive and the label of
\* its AC end up the same (reconcileDriveStorageGroupLabel), unless the AC was deleted
\* with its node and made again, or never moved to the LVG that took the drive, or the
\* drive waits for its volumes to be deleted so that its group can go.
LabelsSettle ==
  <>[](\A d \in Drive \ lost :
         InPlace(drive[d]) /\ ACFound(d) =>
           \/ ac[d].label = drive[d].label
           \/ d \in vol /\ drive[d].label # None /\ sg[drive[d].label].phase = "REMOVING")

\* A deleted group goes away once no drive that carries its label holds a volume
\* (handleStorageGroupDeletion retries every second).
DeletedStorageGroupGoes ==
  \A g \in Group :
    sg[g].del ~> (sg[g].phase = "absent" \/ \E d \in vol : drive[d].label = g)

----------------------------------------------------------------------------
(* What makes NumberRespected inductive.                                   *)

Limited(g) == g \in Group /\ NumberDrivesPerNode[g] > 0
Planned(d, l) == run.at = "write" /\ \E i \in DOMAIN run.plan : run.plan[i] = Write("drive", d, l)

\* A group that is neither deleted nor about to be.
Active(g) == sg[g].phase \notin {"REMOVING", "absent"}

\* A group keeps its finalizer as long as it is there.
GroupsOK ==
  \A g \in Group : /\ sg[g].del => sg[g].fin
                   /\ sg[g].fin => sg[g].phase # "absent"

\* The updates that are left of the reconciliation of a drive: groups are sent back to
\* SYNCING before the drive is labelled, and the AC is labelled last.
DriveRunOK ==
  /\ run.at \in {"drive", "write"} => run.name \in Drive
  /\ run.at = "drive" => run.plan = << >>
  /\ run.at = "write" => run.plan # << >>
  /\ run.at = "write" =>
       \A i \in DOMAIN run.plan :
         LET w == run.plan[i]
         IN  /\ w.kind \in {"drive", "ac", "sg"}
             /\ w.kind \in {"drive", "ac"} => w.id = run.name
             /\ w.kind = "sg" => /\ w.val = "SYNCING"
                                 /\ sg[w.id].fin /\ sg[w.id].phase \in {"SYNCING", "SYNCED"}
             /\ w.kind = "ac" => i = Len(run.plan)
             /\ w.kind = "drive" => \A j \in DOMAIN run.plan :
                  j > i => run.plan[j].kind = "ac" /\ ~Limited(run.plan[j].val)

\* The updates of a group before its list of drives is read: the finalizer, the phase.
GroupPlans(g) ==
  LET fin == Write("fin", g, None)
  IN  {<<fin>>} \cup {<<Write("sg", g, p)>> : p \in {"SYNCING", "INVALID", "REMOVING"}}
        \cup {<<fin, Write("sg", g, p)>> : p \in {"SYNCING", "INVALID"}}

LastPhase(ps) ==
  LET last == run.plan[Len(run.plan)] IN last.kind = "sg" /\ last.val \in ps

GroupRunOK ==
  LET g == run.name
  IN  /\ run.at \in {"group", "list", "sync", "drop"} => g \in Group
      /\ run.at = "group" =>
           /\ run.plan \in GroupPlans(g)
           /\ run.plan[1].kind = "sg" => sg[g].fin \/ sg[g].phase = "absent"
           /\ LastPhase({"SYNCING", "INVALID"}) => sg[g].phase \in {"", "absent"}
           /\ run.kept => LastPhase({"SYNCING", "REMOVING"})
      /\ run.at \in {"list", "sync", "drop"} => sg[g].fin
      /\ run.at = "list" => run.plan = << >>
      /\ run.at = "sync" =>
           /\ sg[g].phase # "REMOVING"
           /\ run.plan = << >> \/ \E d \in Drive :
                run.plan \in {<<Write("ac", d, g)>>, LabelBoth(d, g)}
      /\ run.at = "drop" =>
           /\ sg[g].phase = "REMOVING"
           /\ \A i \in DOMAIN run.plan :
                /\ run.plan[i].kind \in {"drive", "ac"} /\ run.plan[i].val = None
                /\ run.plan[i].kind = "drive" => i = Len(run.plan)

\* Nobody has read, or labelled, anything of a drive that has not been found yet.
UnseenOK ==
  \A d \in Drive : drive[d].place = "unseen" =>
    /\ ac[d].label = None
    /\ run.at \in {"drive", "write"} => run.name # d
    /\ run.at \in {"sync", "drop"} =>
         d \notin run.todo /\ \A i \in DOMAIN run.plan : run.plan[i].id # d

\* What the reconciliation read of the label of a drive in place is still so.
ReadOK ==
  /\ run.at = "drive" /\ InPlace(drive[run.name]) => run.dr.label = drive[run.name].label
  /\ run.at = "write" /\ InPlace(drive[run.name]) =>
       \A i \in DOMAIN run.plan :
         /\ run.plan[i].kind = "drive" => ac[run.name].label \in {None, run.plan[i].val}
         /\ (run.plan[i].kind = "ac" /\ Limited(run.plan[i].val)) =>
              drive[run.name].label = run.plan[i].val
  /\ run.at = "sync" => \A d \in Drive : InPlace(drive[d]) =>
       /\ d \in run.todo => drive[d].label = None
       /\ run.plan = LabelBoth(d, run.name) =>
            d \notin run.todo /\ drive[d].label = None
       /\ run.plan = <<Write("ac", d, run.name)>> => drive[d].label = run.name
  /\ run.at = "drop" => \A d \in Drive : InPlace(drive[d]) =>
       /\ d \in run.todo => drive[d].label = run.name
       /\ \A i \in DOMAIN run.plan : run.plan[i] = Write("drive", d, None) =>
            d \notin run.todo /\ drive[d].label = run.name

\* The label of an AC is one its drive has, unless the group is on its way out.
LabelsOK ==
  \A g \in Group, d \in Drive :
    Limited(g) /\ Active(g) /\ InPlace(drive[d]) /\ (ac[d].label = g \/ Planned(d, g)) =>
      drive[d].label = g

\* The drives of a node that have the label of the group, or will get it back from
\* their AC, are no more than it asks for; the drives with the label are counted.
Holders(g, n) ==
  {d \in Drive : /\ NodeOf[d] = n /\ InPlace(drive[d])
                 /\ drive[d].label = g \/ ac[d].label = g \/ Planned(d, g)}
CountedOn(n) == {d \in run.counted : NodeOf[d] = n}

CountOK ==
  /\ \A g \in Group, n \in Range(NodeOf) :
       Limited(g) => Cardinality(Holders(g, n)) <= NumberDrivesPerNode[g]
  /\ run.at = "sync" /\ Limited(run.name) =>
       /\ \A d \in Drive : InPlace(drive[d]) /\ drive[d].label = run.name => d \in run.counted
       /\ \A n \in Range(NodeOf) : Cardinality(CountedOn(n)) <= NumberDrivesPerNode[run.name]
       /\ \A d \in Drive : run.plan = LabelBoth(d, run.name) =>
            Cardinality(CountedOn(NodeOf[d])) < NumberDrivesPerNode[run.name]

SGInv ==
  /\ TypeOK /\ GroupsOK /\ DriveRunOK /\ GroupRunOK /\ UnseenOK
  /\ ~manual => ReadOK /\ LabelsOK /\ CountOK
=============================================================================
