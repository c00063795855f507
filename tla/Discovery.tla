------------------------------ MODULE Discovery ------------------------------
(***************************************************************************)
(* How the drives of one node become capacity that can be reserved, and    *)
(* cease to be.                                                            *)
(*                                                                         *)
(*   pkg/node/volumemgr.go              Discover: Drive objects, IsClean,  *)
(*                                      the volume group of the system     *)
(*   pkg/controller/capacitycontroller  Reconcile: AvailableCapacity (AC)  *)
(*                                      of a drive or a volume group       *)
(*   pkg/controller/node                the monitor of the node's pod      *)
(*   pkg/crcontrollers/drive            what it does to the AC of a drive  *)
(*                                                                         *)
(* The drives are independent of each other, so a round of Discover is a   *)
(* step for each drive.  Time is counted in polls of the monitor.          *)
(***************************************************************************)
EXTENDS Integers, FiniteSets, FiniteSetsExt

CONSTANTS
  Drive,                 \* the drives of the node
  FreeSpace,             \* free space of the system's volume group, in volumes
  UnreadyTimeout, PermanentDownTimeout, StartupProtectionMultiplier,
  Overrides,             \* the values of health users write into an annotation
  MaxChanges             \* bound on changes of hardware, labels, pod and usage,
                         \* on volumes placed, failed polls and restarts

ASSUME DiscoveryAssumption ==
  /\ FreeSpace \in Nat \ {0}
  /\ UnreadyTimeout \in Nat \ {0}
  /\ PermanentDownTimeout \in Nat \ {0}
  /\ StartupProtectionMultiplier \in Nat \ {0}
  /\ Overrides \subseteq {"GOOD", "BAD"}
  /\ MaxChanges \in Nat

VARIABLES
  system,  \* input: the drive of the system with its volume group, if any
  hw,      \* the drives: presence, health, data on them
  cr,      \* the Drive objects
  placed,  \* drives with a Volume on them
  ac,      \* the ACs located on drives: none, zero, full
  label,   \* drives whose AC has the taint label
  lvg,     \* the LVG object of the system's volume group, and its AC
  taken,   \* what volumes and expansions have taken of that AC, in volumes
  given,   \* what was given back to it since it was last reset
  cap,     \* the capacity controller and what it has read of a Drive
  pod,     \* the pod of the node: ready, and starting for the first time
  mon,     \* the monitor's view of the pod
  upd,     \* updateCRs: what it has read from the monitor's view
  quiet,   \* polls since the pod was last seen ready, the list of pods could not
           \* be read, or the monitor has started
  watch,   \* since the pod was last seen ready: whether the node has been declared
           \* down, and until then the polls that found the pod not ready, and the
           \* failed polls and restarts of the monitor
  changes  \* the inputs so far

vars == <<system, hw, cr, placed, ac, label, lvg, taken, given, cap, pod, mon, upd, quiet,
          watch, changes>>

Health == {"GOOD", "BAD", "UNKNOWN"}

\* Polls are counted no further than this.
MaxSince == Max({UnreadyTimeout, PermanentDownTimeout}) * StartupProtectionMultiplier + 1
MaxQuiet == (UnreadyTimeout + PermanentDownTimeout) * StartupProtectionMultiplier + 3
MaxPolls == (MaxChanges + 1) * MaxQuiet

\* what is found on a device: a file system or a physical volume, a partition
\* table, partitions or logical volumes, or nothing
Data == {"none", "fs", "table", "children"}

\* usage: RELEASING and all that follows is OUT.  override: the health in the
\* annotation of the Drive, if there is one.
DriveState == [known : BOOLEAN, status : {"ONLINE", "OFFLINE"}, health : Health,
               clean : BOOLEAN, usage : {"IN_USE", "OUT"}, taint : BOOLEAN,
               override : Overrides \cup {"none"}]
Unknown == [known |-> FALSE, status |-> "ONLINE", health |-> "GOOD",
            clean |-> TRUE, usage |-> "IN_USE", taint |-> FALSE, override |-> "none"]

NoAC == -1

TypeOK ==
  /\ system \subseteq Drive
  /\ hw \in [Drive -> [present : BOOLEAN, health : Health, data : Data]]
  /\ cr \in [Drive -> DriveState]
  /\ placed \subseteq Drive
  /\ ac \in [Drive -> {"none", "zero", "full"}]
  /\ label \subseteq {d \in Drive : ac[d] # "none"}
  /\ lvg \in [pv : {"none", "orphan", "vg"}, known : BOOLEAN, health : Health,
              ac : Int, event : BOOLEAN]
  /\ cap \in [drive : Drive \cup {"none"}, known : BOOLEAN, accessible : BOOLEAN,
              clean : BOOLEAN, taint : BOOLEAN]
  /\ pod \in [listed : BOOLEAN, ready : BOOLEAN, starting : BOOLEAN]
  /\ mon \in [status : {"none", "Unknown", "Ready", "Unready", "PermanentDown"},
              since : 0 .. MaxSince, wasReady : BOOLEAN]
  /\ upd \in {"idle", "acs", "acs, then drives", "drives"}
  /\ quiet \in 0 .. MaxQuiet
  /\ watch \in [polls : Nat, postponed : Nat, declared : BOOLEAN]
  /\ taken \in Nat /\ given \in Nat
  /\ changes \in 0 .. MaxChanges

Idle == [drive |-> "none", known |-> FALSE, accessible |-> FALSE,
         clean |-> FALSE, taint |-> FALSE]
NewWatch == [polls |-> 0, postponed |-> 0, declared |-> FALSE]
Declared == [polls |-> 0, postponed |-> 0, declared |-> TRUE]
NewMonitor == [status |-> "none", since |-> 0, wasReady |-> FALSE]

\* The driver is installed on a node.  One drive may be that of the system, with a
\* volume group or what is left of one, a physical volume.
Init ==
  /\ system \in {S \in SUBSET Drive : Cardinality(S) <= 1}
  /\ \E pv \in IF system = {} THEN {"none"} ELSE {"orphan", "vg"} :
       /\ lvg = [pv |-> pv, known |-> FALSE, health |-> "GOOD", ac |-> NoAC, event |-> FALSE]
       /\ hw = [d \in Drive |-> [present |-> TRUE, health |-> "GOOD",
                                 data |-> IF d \notin system THEN "none"
                                          ELSE IF pv = "vg" THEN "children" ELSE "fs"]]
  /\ cr = [d \in Drive |-> Unknown]
  /\ placed = {}
  /\ ac = [d \in Drive |-> "none"]
  /\ label = {}
  /\ cap = Idle
  /\ pod = [listed |-> TRUE, ready |-> FALSE, starting |-> TRUE]
  /\ mon = NewMonitor
  /\ upd = "idle"
  /\ quiet = 0 /\ watch = NewWatch
  /\ taken = 0 /\ given = 0
  /\ changes = 0

\* the node, with the volumes on it
node == <<system, hw, placed, pod, taken>>
group == <<lvg, given>>
monitor == <<mon, upd, quiet, watch>>

Spend == changes < MaxChanges /\ changes' = changes + 1

-----------------------------------------------------------------------------
(* Discover on the node                                                    *)

\* overrideDriveHealth: the annotation of the Drive counts, not the real health.
OverrideDriveHealth(d, health) ==
  IF cr[d].override # "none" THEN cr[d].override ELSE health

\* the drive has the root file system or that of kubelet
IsDriveSystem(d) == d \in system

NewDrive(d) == [known |-> TRUE, status |-> "ONLINE", health |-> hw[d].health,
                clean |-> ~IsDriveSystem(d), usage |-> "IN_USE", taint |-> FALSE,
                override |-> "none"]

\* mutant: only a changed health makes a known drive differ from the report.
ReportedHealth(d) ==
  LET health == OverrideDriveHealth(d, hw[d].health)
  IN  IF ~hw[d].present
      THEN [cr[d] EXCEPT !.status = "OFFLINE", !.health = OverrideDriveHealth(d, "UNKNOWN")]
      ELSE IF ~cr[d].known THEN NewDrive(d)
      ELSE IF cr[d].health = health THEN cr[d]
      ELSE [cr[d] EXCEPT !.status = "ONLINE", !.health = health]

\* mutant: the annotation alone counts.
LVGEventAnnotation(old, new) == FALSE

\* filterLVG: what makes the capacity controller look at a group again, next to
\* an annotation or a status that never change here
LVGEvent(old, new) == new \notin {"GOOD", old}

\* updateDrivesCRs: an object for a new drive, the report for a known one.
\* The group's health follows the drive's (handleDriveStatusChange).
Reported(d) ==
  IF ~hw[d].present
  THEN [cr[d] EXCEPT !.status = "OFFLINE", !.health = OverrideDriveHealth(d, "UNKNOWN")]
  ELSE IF cr[d].known
  THEN [cr[d] EXCEPT !.status = "ONLINE", !.health = OverrideDriveHealth(d, hw[d].health)]
  ELSE NewDrive(d)

UpdateDrivesCRs(d) ==
  /\ hw[d].present \/ cr[d].known
  /\ cr' = [cr EXCEPT ![d] = Reported(d)]
  /\ cr' # cr
  /\ lvg' = IF d \in system /\ lvg.known /\ cr[d].known
            THEN [lvg EXCEPT !.health = cr'[d].health,
                             !.event = @ \/ LVGEvent(lvg.health, cr'[d].health)]
            ELSE lvg
  /\ UNCHANGED <<node, ac, label, given, cap, monitor, changes>>

IsDriveInLVG(d) == d \in system /\ lvg.known

DeviceHasPartitionTable(d) == hw[d].data = "table"
DeviceHasPartitions(d) == hw[d].data = "children"

\* a file system, a partition table or partitions
DiscoverData(d) ==
  hw[d].data = "fs" \/ DeviceHasPartitionTable(d) \/ DeviceHasPartitions(d)

ChangeDriveIsCleanField(d, clean) ==
  cr[d].clean # clean /\ cr' = [cr EXCEPT ![d].clean = clean]

\* discoverDataOnDrives.  A drive that is missing cannot be read.
DiscoverDataOnDrives(d) ==
  /\ cr[d].known /\ ~IsDriveInLVG(d)
  /\ d \in placed \/ hw[d].present
  /\ ChangeDriveIsCleanField(d, d \notin placed /\ ~DiscoverData(d))
  /\ UNCHANGED <<node, ac, label, group, cap, monitor, changes>>

\* The commands of LVM: the drives with a physical volume, the name of the group
\* of such a drive (an error when the group is gone), its free space.
GetAllPVs == {d \in system : hw[d].present /\ lvg.pv # "none"}
GetVGNameByPVName(d) == IF lvg.pv = "vg" THEN {d} ELSE {}
GetVgFreeSpace(vg) == FreeSpace

\* discoverLVGOnSystemDrive: the object gets the free space of the group as
\* an annotation, which is never written again (updateLVGAnnotation).
DiscoverLVGOnSystemDrive(d) ==
  /\ d \in GetAllPVs /\ cr[d].known /\ ~lvg.known
  /\ GetVGNameByPVName(d) # {}
  /\ lvg' = [lvg EXCEPT !.known = TRUE, !.health = "GOOD", !.event = TRUE]
  /\ cr' = [cr EXCEPT ![d].clean = FALSE]
  /\ UNCHANGED <<node, ac, label, given, cap, monitor, changes>>

Discover(d) ==
  UpdateDrivesCRs(d) \/ DiscoverDataOnDrives(d) \/ DiscoverLVGOnSystemDrive(d)

-----------------------------------------------------------------------------
(* The capacity controller.  Every Drive is reconciled again after         *)
(* RequeueDriveTime, a group only after an event.                          *)

Accessible(drive) ==
  drive.health \in {"GOOD", "UNKNOWN"} /\ drive.status = "ONLINE" /\ drive.usage = "IN_USE"

CapRead(d) ==
  /\ cap = Idle /\ cr[d].known
  /\ cap' = [drive |-> d, known |-> TRUE, accessible |-> Accessible(cr[d]),
             clean |-> cr[d].clean, taint |-> cr[d].taint]
  /\ UNCHANGED <<node, cr, ac, label, group, monitor, changes>>

GetLVGByDrive(d) == d \in system /\ lvg.known

\* updateAvailableCapacityLabelsWhenNecessary: a label is added, never removed.
UpdateLabels(d) == label' = IF cap.taint THEN label \cup {d} ELSE label

\* createOrUpdateCapacity.  The AC of the system drive has become that of the
\* group: there is none for the drive again.
CreateOrUpdateCapacity(d) ==
  /\ cap.drive = d /\ cap.known /\ cap.accessible
  /\ IF ac[d] = "none" /\ GetLVGByDrive(d) THEN UNCHANGED <<ac, label>>
     ELSE /\ ac' = [ac EXCEPT ![d] = IF cap.clean THEN "full" ELSE "zero"]
          /\ UpdateLabels(d)
  /\ cap' = Idle
  /\ UNCHANGED <<node, cr, group, monitor, changes>>

HandleInaccessibleDrive(d) ==
  /\ cap.drive = d /\ cap.known /\ ~cap.accessible
  /\ IF ac[d] = "none" THEN UNCHANGED <<ac, label>>
     ELSE ac' = [ac EXCEPT ![d] = "zero"] /\ UpdateLabels(d)
  /\ cap' = Idle
  /\ UNCHANGED <<node, cr, group, monitor, changes>>

\* The Drive has been deleted meanwhile: an AC made now belongs to no drive.
CapOrphan ==
  /\ cap.drive # "none" /\ ~cap.known
  /\ cap' = Idle
  /\ UNCHANGED <<node, cr, ac, label, group, monitor, changes>>

\* createOrUpdateLVGCapacity: the AC of the drive, if there is one, becomes
\* that of the group, and an AC that is there grows when it differs from the
\* annotation.
CreateOrUpdateLVGCapacity(d) ==
  /\ lvg' = [lvg EXCEPT !.event = FALSE,
                        !.ac = CASE @ = NoAC -> GetVgFreeSpace(d)
                                 [] @ = GetVgFreeSpace(d) -> @
                                 [] OTHER -> @ + GetVgFreeSpace(d)]
  /\ ac' = IF lvg.ac = NoAC THEN [ac EXCEPT ![d] = "none"] ELSE ac
  /\ label' = IF lvg.ac = NoAC THEN label \ {d} ELSE label
  /\ UNCHANGED given

\* resetACSizeOfLVG: nothing is left of a group on a bad drive.
ResetACSizeOfLVG ==
  /\ lvg' = [lvg EXCEPT !.event = FALSE, !.ac = IF @ = NoAC THEN NoAC ELSE 0]
  /\ given' = 0
  /\ UNCHANGED <<ac, label>>

ReconcileLVG(d) ==
  /\ lvg.event /\ d \in system
  /\ \/ lvg.health = "GOOD" /\ CreateOrUpdateLVGCapacity(d)
     \/ lvg.health # "GOOD" /\ ResetACSizeOfLVG
  /\ UNCHANGED <<node, cr, cap, monitor, changes>>

CapacityController(d) ==
  \/ CapRead(d) \/ CreateOrUpdateCapacity(d) \/ HandleInaccessibleDrive(d)
  \/ ReconcileLVG(d)

-----------------------------------------------------------------------------
(* The drive controller, as far as ACs are concerned                       *)

\* The usage leaves IN_USE when the drive is bad; a user brings it back.
UsageChanges(d) ==
  /\ cr[d].known
  /\ \/ cr[d].usage = "IN_USE" /\ cr[d].health = "BAD"
        /\ cr' = [cr EXCEPT ![d].usage = "OUT"] /\ UNCHANGED changes
     \/ cr[d].usage = "OUT" /\ cr[d].health # "BAD" /\ Spend
        /\ cr' = [cr EXCEPT ![d].usage = "IN_USE"]
  /\ UNCHANGED <<node, ac, label, group, cap, monitor>>

\* handleDriveLableUpdate, at any event of the Drive.  The AC of the system's
\* group, which a label reaches in the same way, has none here.
HandleDriveLableUpdate(d) ==
  /\ cr[d].known /\ ~GetLVGByDrive(d) /\ ac[d] # "none"
  /\ label' = IF cr[d].taint THEN label \cup {d} ELSE label \ {d}
  /\ UNCHANGED <<node, cr, ac, group, cap, monitor, changes>>

\* removeRelatedAC and the deletion of a drive that has been pulled out
RemoveDrive(d) ==
  /\ cr[d].known /\ cr[d].usage = "OUT" /\ cr[d].status = "OFFLINE" /\ d \notin placed
  /\ ac' = [ac EXCEPT ![d] = "none"] /\ label' = label \ {d}
  /\ cr' = [cr EXCEPT ![d] = Unknown]
  /\ cap' = IF cap.drive = d THEN [cap EXCEPT !.known = FALSE] ELSE cap
  /\ UNCHANGED <<node, group, monitor, changes>>

DriveController(d) == UsageChanges(d) \/ HandleDriveLableUpdate(d) \/ RemoveDrive(d)

-----------------------------------------------------------------------------
(* The monitor of the node's pod                                           *)

\* podIsUnderStartupProtection
Multiplier == IF pod.starting /\ ~mon.wasReady THEN StartupProtectionMultiplier ELSE 1

\* mutant: a pod of unknown status is waited for
CalculatePodStatusKnown(status, passed) ==
  CASE pod.ready -> "Ready"
    [] ~pod.ready /\ status = "Ready" ->
         IF passed > UnreadyTimeout * Multiplier THEN "Unready" ELSE status
    [] ~pod.ready /\ status = "Unready" ->
         IF passed > PermanentDownTimeout * Multiplier THEN "PermanentDown" ELSE status
    [] OTHER -> status

\* calculatePodStatus.  since counts from the last change of the status, so a
\* pod that has been ready for long is unready at once.
CalculatePodStatus(status, passed) ==
  CASE pod.ready -> "Ready"
    [] ~pod.ready /\ status \in {"Unknown", "Ready"} ->
         IF passed > UnreadyTimeout * Multiplier THEN "Unready" ELSE status
    [] ~pod.ready /\ status = "Unready" ->
         IF passed > PermanentDownTimeout * Multiplier THEN "PermanentDown" ELSE status
    [] OTHER -> status

\* getPodToNodeList: a pod is known by the node it runs on; when that node is
\* gone, the pod is not looked at.
GetPodToNodeList == {p \in {pod} : p.listed}

\* What a poll shows that finds the pod with this status, and one that fails or is the
\* first of a new monitor.
Watched(status) ==
  /\ quiet' = IF pod.ready THEN 0 ELSE Min({quiet + 1, MaxQuiet})
  /\ watch' = IF pod.ready THEN NewWatch
              ELSE IF watch.declared \/ status = "PermanentDown" THEN Declared
              ELSE [watch EXCEPT !.polls = Min({@ + 1, MaxPolls})]
Postponed ==
  /\ quiet' = 0
  /\ watch' = IF watch.declared THEN watch ELSE [watch EXCEPT !.postponed = @ + 1]

\* mutant: the clock is not reset when the status changes.
UpdateNodeHealthCacheNoReset ==
  LET old == IF mon.status = "none" THEN [mon EXCEPT !.status = "Unknown"] ELSE mon
      passed == IF mon.status = "none" THEN 0 ELSE Min({mon.since + 1, MaxSince})
  IN /\ pod \in GetPodToNodeList
     /\ mon' = [status |-> CalculatePodStatus(old.status, passed),
                wasReady |-> mon.wasReady \/ pod.ready, since |-> passed]
     /\ Watched(CalculatePodStatus(old.status, passed))
     /\ UNCHANGED <<node, cr, ac, label, group, cap, upd, changes>>

UpdateNodeHealthCache ==
  LET old == IF mon.status = "none" THEN [mon EXCEPT !.status = "Unknown"] ELSE mon
      passed == IF mon.status = "none" THEN 0 ELSE Min({mon.since + 1, MaxSince})
      status == CalculatePodStatus(old.status, passed)
  IN /\ pod \in GetPodToNodeList
     /\ mon' = [status |-> status, wasReady |-> mon.wasReady \/ pod.ready,
                since |-> IF status # old.status THEN 0 ELSE passed]
     /\ Watched(status)
     /\ UNCHANGED <<node, cr, ac, label, group, cap, upd, changes>>

\* The list of pods cannot be read.
UpdateNodeHealthCacheFails ==
  /\ mon.status # "none"
  /\ Spend
  /\ mon' = [mon EXCEPT !.status = "Unknown", !.since = 0]
  /\ Postponed
  /\ UNCHANGED <<node, cr, ac, label, group, cap, upd>>

\* updateCRs reads the view under its lock and works on what it has read.
UpdateCRsRead ==
  /\ upd = "idle" /\ mon.status \in {"Unready", "PermanentDown"}
  /\ upd' = IF mon.status = "Unready" THEN "acs" ELSE "acs, then drives"
  /\ UNCHANGED <<node, cr, ac, label, group, cap, mon, quiet, watch, changes>>

\* DeleteACsByNodeID: of drives and of groups
DeleteACs ==
  /\ upd \in {"acs", "acs, then drives"}
  /\ ac' = [d \in Drive |-> "none"] /\ label' = {}
  /\ lvg' = [lvg EXCEPT !.ac = NoAC] /\ UNCHANGED given
  /\ upd' = IF upd = "acs" THEN "idle" ELSE "drives"
  /\ UNCHANGED <<node, cr, cap, mon, quiet, watch, changes>>

\* UpdateDrivesStatusOnNode
MarkDrivesOffline ==
  /\ upd = "drives"
  /\ cr' = [d \in Drive |-> IF cr[d].known THEN [cr[d] EXCEPT !.status = "OFFLINE"] ELSE cr[d]]
  /\ upd' = "idle"
  /\ UNCHANGED <<node, ac, label, group, cap, mon, quiet, watch, changes>>

UpdateCRs == UpdateCRsRead \/ DeleteACs \/ MarkDrivesOffline

-----------------------------------------------------------------------------
(* The rest of the world                                                   *)

\* CreateVolume takes the AC of a drive; the volume is a partition.
PlaceVolume(d) ==
  /\ ac[d] = "full" /\ d \notin placed /\ hw[d].present
  /\ placed' = placed \cup {d}
  /\ hw' = [hw EXCEPT ![d].data = "table"]
  /\ ac' = [ac EXCEPT ![d] = "zero"]
  /\ Spend
  /\ UNCHANGED <<system, cr, label, taken, group, cap, pod, monitor>>

\* DeleteVolume wipes the drive; the AC is left to the capacity controller.
DeleteVolume(d) ==
  /\ d \in placed /\ hw[d].present
  /\ placed' = placed \ {d}
  /\ hw' = [hw EXCEPT ![d].data = "none"]
  /\ UNCHANGED <<system, cr, ac, label, taken, group, cap, pod, monitor, changes>>

\* A volume is placed on the system's group, or one on it begins to be expanded.
PlaceOnLVG ==
  /\ lvg.ac > 0
  /\ lvg' = [lvg EXCEPT !.ac = @ - 1] /\ taken' = taken + 1
  /\ Spend
  /\ UNCHANGED <<system, hw, cr, placed, ac, label, given, cap, pod, monitor>>

\* UpdateCRsAfterVolumeDeletion of a volume with health GOOD (a new volume has it whatever
\* the group's), UpdateCRsAfterVolumeExpansion of one that has failed: the AC gets the space
\* back whatever the health of the group.  Not for a volume whose health is not GOOD, and an
\* expansion is given up when the AC is not found or its update fails.
ReturnToLVG ==
  /\ taken > 0 /\ taken' = taken - 1
  /\ \/ lvg.ac # NoAC /\ lvg' = [lvg EXCEPT !.ac = @ + 1] /\ given' = given + 1
     \/ UNCHANGED group
  /\ UNCHANGED <<system, hw, cr, placed, ac, label, cap, pod, monitor, changes>>

\* A drive is pulled out or put back, or its health changes; a user sets or
\* removes the taint label or the annotation; the pod fails or gets ready, or
\* loses its node.
Change ==
  /\ Spend
  /\ \/ /\ \E d \in Drive :
             \/ hw' = [hw EXCEPT ![d].present = ~@]
             \/ \E h \in {"GOOD", "BAD"} \ {hw[d].health} : hw' = [hw EXCEPT ![d].health = h]
        /\ UNCHANGED <<cr, pod>>
     \/ /\ \E d \in Drive :
             /\ cr[d].known
             /\ \/ cr' = [cr EXCEPT ![d].taint = ~@]
                \/ \E o \in (Overrides \cup {"none"}) \ {cr[d].override} :
                     cr' = [cr EXCEPT ![d].override = o]
        /\ UNCHANGED <<hw, pod>>
     \/ /\ \/ pod' = [pod EXCEPT !.ready = ~@, !.listed = TRUE]
           \/ pod' = [pod EXCEPT !.starting = FALSE]
           \/ pod' = [pod EXCEPT !.listed = FALSE, !.ready = FALSE]
        /\ UNCHANGED <<hw, cr>>
  /\ UNCHANGED <<system, placed, ac, label, taken, group, cap, monitor>>

\* The pod comes up for the first time.
PodReady ==
  /\ pod.starting
  /\ pod' = [listed |-> TRUE, ready |-> TRUE, starting |-> FALSE]
  /\ UNCHANGED <<system, hw, cr, placed, ac, label, taken, group, cap, monitor, changes>>

\* A controller that starts knows no pod and reconciles every object.
ControllerRestarts ==
  /\ Spend
  /\ cap' = Idle /\ mon' = NewMonitor /\ upd' = "idle" /\ Postponed
  /\ lvg' = [lvg EXCEPT !.event = lvg.known]
  /\ UNCHANGED <<node, cr, ac, label, given>>

Next ==
  \/ \E d \in Drive : \/ Discover(d) \/ CapacityController(d) \/ DriveController(d)
                      \/ PlaceVolume(d) \/ DeleteVolume(d)
  \/ CapOrphan \/ UpdateNodeHealthCache \/ UpdateNodeHealthCacheFails \/ UpdateCRs
  \/ PlaceOnLVG \/ ReturnToLVG \/ Change \/ PodReady \/ ControllerRestarts

Spec == Init /\ [][Next]_vars

\* Discover runs as long as the pod is ready, the controllers always run.
FairSpec ==
  /\ Spec
  /\ \A d \in Drive : /\ SF_vars(pod.ready /\ Discover(d))
                      /\ SF_vars(CapRead(d)) /\ WF_vars(CapacityController(d))
  /\ WF_vars(CapOrphan) /\ WF_vars(UpdateNodeHealthCache) /\ WF_vars(UpdateCRs)

-----------------------------------------------------------------------------
(* Properties                                                              *)

\* A node is declared permanently down, its drives OFFLINE and its volumes
\* MISSING, only after its pod has not been ready for PermanentDownTimeout:
\* whatever the pod does between the polls, whether its list can be read or
\* not, and though a pod that was ready for long is Unready at once.
NotDeclaredDownEarly == mon.status = "PermanentDown" => quiet > PermanentDownTimeout + 1

\* A node whose pod stays not ready is declared permanently down within the two
\* timeouts, stretched by the protection of a pod that starts, of the last time the
\* pod was ready, the list of pods could not be read or the monitor started.  Each
\* failed poll and each restart, also of a node that is declared down already, starts
\* the clock anew: with n of them the first declaration may come n times later, and
\* no later than that, whatever the pod did before.  Not so a pod that the monitor
\* does not see any more (getPodToNodeList).
DeclaredDownInTime ==
  /\ quiet = MaxQuiet => mon.status = "PermanentDown"
  /\ watch.polls < (watch.postponed + 1) * MaxQuiet

\* A drive is offered when it is there, in use, empty and without a volume, and
\* its health, or what a user says it is, not bad; a drive of the system never.
RightlyOffered(d) ==
  ac[d] = "full" <=> /\ hw[d].present /\ OverrideDriveHealth(d, hw[d].health) # "BAD"
                     /\ cr[d].usage = "IN_USE" /\ d \notin placed /\ hw[d].data = "none"

TaintKept(d) == cr[d].taint /\ ac[d] # "none" => d \in label

\* When the pod of the node stays ready in the end, then in the end exactly
\* the drives that may be used are offered: what the monitor has deleted is
\* created again, what it has marked OFFLINE from a view that was out of date
\* comes back, what was pulled out and put in again is found.  A drive with the
\* taint label that may be used has an AC with that label, also when the AC had
\* to be created again, or was written by a controller that had read the drive
\* before.  (The other direction fails: such a controller puts a label back that
\* was just removed.)
CapacityConverges ==
  <>[]pod.ready => <>[](\A d \in Drive : RightlyOffered(d) /\ TaintKept(d))

\* Once the capacity controller has dealt with the change, a volume group that is not
\* good offers no more than what the CSI controller has given back to it since: the health
\* goes from the drive to the group (handleDriveStatusChange), through the event filter and
\* to the AC, while ACs are deleted with the pod, volumes take from the AC and give back to
\* it, and groups are reconciled again at a restart.  (That it offers nothing at all fails:
\* the space of removed volumes and of failed expansions is offered again.)
BadGroupOffersNothingNew == lvg.health # "GOOD" /\ ~lvg.event => lvg.ac <= given
=============================================================================
