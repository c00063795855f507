---------------------------- MODULE NodeVolume ----------------------------
(***************************************************************************)
(* One drive of a node, the volumes that are placed on it one after the    *)
(* other, and the pods that mount the first of them.                       *)
(*                                                                         *)
(*   pkg/node/volumemgr.go        Reconcile: prepares and removes a volume *)
(*   pkg/node/provisioners        partition and file system on the device  *)
(*   pkg/node/node.go             NodeStageVolume .. NodeUnpublishVolume,  *)
(*                                fake attach                              *)
(*                                                                         *)
(* Reconcile and the node service each lock the volume, but by locks of    *)
(* their own (volumemgr.go:237, node.go:301): one Reconcile and one call   *)
(* may work on the same volume.  Each reads the Volume object once, runs   *)
(* commands and writes the object at its end; the write is refused when    *)
(* the object has changed in between.  The node's process may die after    *)
(* every command, and the node may reboot and lose its mounts.             *)
(***************************************************************************)
EXTENDS FiniteSets, Naturals

CONSTANTS
  Volume,      \* the volumes, in no order
  Shared,      \* the one the pods mount
  Pod,         \* the pods of the node that mount it
  Modes,       \* input: the modes the volumes may have
  FakeAllowed, \* the claim has the annotation ignore-if-inaccessible
  Changes,     \* which changes of the environment happen
  MaxChanges,  \* bound on their number
  MaxFaults,   \* bound on the commands and updates that fail
  Apart,       \* bound: the changes that do not come together with a failure
  None, Foreign

ASSUME NodeVolumeAssumption ==
  /\ Shared \in Volume
  /\ Modes \subseteq [Volume -> {"FS", "RAWPART", "RAW"}]
  /\ FakeAllowed \in BOOLEAN
  /\ Changes \subseteq {"plug", "reboot", "crash", "released", "delete", "table"}
  /\ Apart \subseteq Changes /\ MaxChanges \in Nat /\ MaxFaults \in Nat
  /\ None \notin Volume /\ Foreign \notin Volume /\ None # Foreign

VARIABLES
  mode,   \* the mode of each volume
  disk,   \* the device: visible, partition table, partition 1, its file system
  drive,  \* the Drive object, and whether the drive controller has an event
  vol,    \* the Volume objects
  loops,  \* volumes with a fake (loop) device
  stg,    \* what is mounted at the staging path of the shared volume
  tgt,    \* what is mounted at the target path of each pod, one on the other
  op,     \* the Reconcile under way, its copy of the Volume
  call,   \* the call of the node service under way, its copy of the Volume
  want,   \* pods that are scheduled on the node
  gone,   \* pods that were deleted: a pod does not come back
  kub,    \* what the kubelet takes for staged and published
  claim,  \* the claim of the shared volume
  left,   \* volumes whose removal left the device as it was
  spent   \* changes and faults so far

pods == <<stg, tgt, want, kub>>
rest == <<mode, loops, claim, left, gone>>
vars == <<mode, disk, drive, vol, loops, stg, tgt, op, call, want, gone, kub,
          claim, left, spent>>

Absent == [status |-> "none", missing |-> FALSE, fake |-> FALSE,
           loop |-> FALSE, owners |-> {}, del |-> FALSE]
Idle == [kind |-> "idle", at |-> "end", v |-> None, p |-> None,
         cr |-> Absent, ok |-> TRUE, stale |-> FALSE]

Status == {"none", "Creating", "Created", "VolumeReady", "Published", "Failed",
           "Removing", "Removed"}
VolumeState ==
  [status : Status, missing : BOOLEAN, fake : BOOLEAN, loop : BOOLEAN,
   owners : SUBSET Pod, del : BOOLEAN]

\* A staging path has one thing mounted at most.  On a target path tmpfs may lie on
\* what was mounted there first, and "more" tmpfs on that one.
Staging == SUBSET {"real", "fake"}
Target == SUBSET {"real", "fake", "tmpfs", "more"}
Known == {"no", "maybe", "yes"}
Device == [visible : BOOLEAN, table : BOOLEAN,
           part : Volume \cup {None, Foreign}, fs : Volume \cup {None}]
DriveState == [online : BOOLEAN, usage : {"IN_USE", "RELEASED", "FAILED"},
               allFake : BOOLEAN, event : BOOLEAN]
Operation ==
  [kind : {"idle", "prepare", "remove", "stage", "unstage", "publish", "unpublish"},
   at : {"part", "mkpart", "name", "fs", "wipepart", "rmpart", "wipedev", "failed",
         "mount", "write", "annotate", "end"},
   v : Volume \cup {None}, p : Pod \cup {None}, cr : VolumeState,
   ok : BOOLEAN, stale : BOOLEAN]
Kubelet == [staged : Known, next : SUBSET Pod, pub : [Pod -> Known]]

\* Every variable has its type.  The fake device is recorded for block volumes
\* only, owners are pods, and what is under way names a volume.
TypeOK ==
  /\ mode \in Modes
  /\ disk \in Device /\ drive \in DriveState
  /\ vol \in [Volume -> VolumeState]
  /\ \A v \in Volume : vol[v].loop => mode[v] # "FS"
  /\ loops \subseteq Volume
  /\ stg \in Staging
  /\ tgt \in [Pod -> Target]
  /\ op \in Operation /\ call \in Operation
  /\ op.kind \in {"idle", "prepare", "remove"}
  /\ call.kind \notin {"prepare", "remove"}
  /\ op.v = None <=> op.kind = "idle"
  /\ call.v = None <=> call.kind = "idle"
  /\ want \subseteq Pod /\ gone \subseteq Pod \ want
  /\ kub \in Kubelet
  /\ claim \in {"pending", "bound", "deleted"}
  /\ left \subseteq Volume
  /\ spent \in [change : 0..MaxChanges, fault : 0..MaxFaults]

Init ==
  /\ mode \in Modes
  /\ disk = [visible |-> TRUE, table |-> FALSE, part |-> None, fs |-> None]
  /\ drive = [online |-> TRUE, usage |-> "IN_USE", allFake |-> FALSE,
              event |-> FALSE]
  /\ vol = [v \in Volume |-> Absent]
  /\ loops = {} /\ stg = {} /\ tgt = [p \in Pod |-> {}]
  /\ op = Idle /\ call = Idle
  /\ want = {} /\ gone = {}
  /\ kub = [staged |-> "no", next |-> {}, pub |-> [p \in Pod |-> "no"]]
  /\ claim = "pending" /\ left = {}
  /\ spent = [change |-> 0, fault |-> 0]

-----------------------------------------------------------------------------
(* Commands and updates *)

\* a command or an update fails although nothing is wrong with its arguments
Fault ==
  /\ spent.fault < MaxFaults
  /\ spent' = [spent EXCEPT !.fault = @ + 1]

Change(c) ==
  /\ c \in Changes /\ spent.change < MaxChanges
  /\ c \in Apart => spent.fault = 0
  /\ spent' = [change |-> spent.change + 1,
               fault |-> IF c \in Apart THEN MaxFaults ELSE spent.fault]

\* The Volume object has changed: what is under way on it has a stale copy.
Overtaken(o, v, cr) == IF o.v = v /\ cr # vol[v] THEN [o EXCEPT !.stale = TRUE] ELSE o

\* The object is written by somebody else.
Put(v, cr) ==
  /\ vol' = [vol EXCEPT ![v] = cr]
  /\ op' = Overtaken(op, v, cr) /\ call' = Overtaken(call, v, cr)

Begun(kind, at, v, p, cr, ok) ==
  [kind |-> kind, at |-> at, v |-> v, p |-> p, cr |-> cr, ok |-> ok, stale |-> FALSE]

\* mutant: the copy is written whatever became of the object
UpdateCRAnyway(o) ==
  /\ vol' = [vol EXCEPT ![o.v] = o.cr]
  /\ UNCHANGED spent

\* UpdateCR of the copy: refused when it is stale
UpdateCR(o) ==
  /\ ~o.stale
  /\ vol' = [vol EXCEPT ![o.v] = o.cr]
  /\ UNCHANGED spent

UpdateCRFails(o) ==
  /\ \/ o.stale /\ UNCHANGED spent
     \/ ~o.stale /\ Fault
  /\ UNCHANGED vol

Running(kind, at) == op.kind = kind /\ op.at = at
Calling(kind, at) == call.kind = kind /\ call.at = at

\* Reconcile writes its copy and is done, and so does a call.
ReconcileWrites ==
  /\ \/ UpdateCR(op) /\ call' = Overtaken(call, op.v, op.cr)
     \/ UpdateCRFails(op) /\ UNCHANGED call
  /\ op' = Idle
CallWrites == UpdateCR(call) /\ op' = Overtaken(op, call.v, call.cr)
CallWriteFails == UpdateCRFails(call) /\ UNCHANGED op

\* The partition of the device with the UUID of the volume, and partition 1,
\* whatever its UUID.
GetPartitionUUID == disk.part
SearchPartName(v) == disk.visible /\ GetPartitionUUID = v
IsPartitionExists == disk.part # None

\* parted mklabel: a new table, and what was on the device is gone; mkpart, rm
CreatePartitionTable == [disk EXCEPT !.table = TRUE, !.fs = None]
CreatePartitionOf(v) == [disk EXCEPT !.part = v, !.fs = None]
DeletePartition == [disk EXCEPT !.part = None]

\* A file system carries the UUID of its volume; wipefs of a partition, or of
\* the device, where it takes the partition table.
GetFSUUID == disk.fs
CreateFS(v) == [disk EXCEPT !.fs = v]
WipeFS == [disk EXCEPT !.fs = None]
WipeTable == [disk EXCEPT !.table = FALSE, !.fs = None]

\* PrepareAndPerformMount leaves alone what is mounted already; otherwise src is
\* mounted, if there is a src and the command succeeds.  UnmountWithCheck of a
\* path that is not mounted does nothing, and it takes away what was mounted last.
\* MountFakeTmpfs does not ask what is mounted already.
IsMounted(mounted) == mounted # {}
Mount(src, succeeds) == IF succeeds THEN src ELSE {}
PrepareAndPerformMount(mounted, src, succeeds) ==
  IF IsMounted(mounted) THEN mounted ELSE Mount(src, succeeds)
MountFakeTmpfs(mounted, succeeds) ==
  IF ~succeeds THEN mounted
  ELSE mounted \cup IF "tmpfs" \in mounted THEN {"more"} ELSE {"tmpfs"}
Unmount(mounted) ==
  IF "more" \in mounted THEN {mounted, mounted \ {"more"}}
  ELSE IF "tmpfs" \in mounted THEN {mounted \ {"tmpfs"}} ELSE {{}}
UnmountWithCheck(mounted) == IF IsMounted(mounted) THEN Unmount(mounted) ELSE {mounted}

\* A loop device for a file of the volume's own.  createFakeDeviceIfNecessary
\* makes it unless the volume has it; cleanFakeDevice removes it only if the
\* Volume names it.
CreateLoopDevice(v) == loops \cup {v}
CreateFakeDevice(v) == CreateLoopDevice(v)
ReadLoopDevice(v) == v \in loops
RemoveLoopDevice(v) == loops \ {v}
CreateFakeDeviceIfNecessary(v) == IF ReadLoopDevice(v) THEN loops ELSE CreateFakeDevice(v)
CleanFakeDevice(cr, v) ==
  IF cr.loop /\ ReadLoopDevice(v) THEN RemoveLoopDevice(v) ELSE loops

-----------------------------------------------------------------------------
(* Reconcile of a volume in Creating: prepareVolume *)

AfterPartition(v) == IF mode[v] = "RAWPART" THEN "write" ELSE "fs"
Failing == [op EXCEPT !.at = "write", !.cr.status = "Failed"]

\* The device is searched by its serial number, else it is the path in the Drive:
\* the path of a device that is gone, where every command fails.  A volume in mode
\* RAW is the device itself.
PrepareVolume(v) ==
  /\ op = Idle /\ vol[v].status = "Creating" /\ ~vol[v].del
  /\ op' = Begun("prepare", IF mode[v] = "RAW" THEN "write" ELSE "part",
                 v, None, [vol[v] EXCEPT !.status = "Created"], TRUE)
  /\ UNCHANGED <<disk, drive, vol, call, spent>> /\ UNCHANGED pods /\ UNCHANGED rest

\* mutant: a partition with another UUID is written over
PreparePartitionAnew ==
  /\ Running("prepare", "part") /\ disk.visible
  /\ \/ /\ disk.part = op.v
        /\ op' = [op EXCEPT !.at = "name"] /\ UNCHANGED disk
     \/ /\ disk.part # op.v
        /\ disk' = [disk EXCEPT !.table = TRUE, !.part = None, !.fs = None]
        /\ op' = [op EXCEPT !.at = "mkpart"]
  /\ UNCHANGED <<drive, vol, call, spent>> /\ UNCHANGED pods /\ UNCHANGED rest

\* Partition 1 with the UUID of the volume is used again, one with another
\* UUID is left alone; without a partition the table is written anew.
PreparePartition ==
  /\ Running("prepare", "part") /\ disk.visible
  /\ \/ /\ IsPartitionExists /\ GetPartitionUUID = op.v
        /\ op' = [op EXCEPT !.at = "name"] /\ UNCHANGED disk
     \/ /\ IsPartitionExists /\ GetPartitionUUID # op.v
        /\ op' = Failing /\ UNCHANGED disk
     \/ /\ ~IsPartitionExists
        /\ disk' = CreatePartitionTable
        /\ op' = [op EXCEPT !.at = "mkpart"]
  /\ UNCHANGED <<drive, vol, call, spent>> /\ UNCHANGED pods /\ UNCHANGED rest

CreatePartition ==
  /\ Running("prepare", "mkpart") /\ disk.visible
  /\ disk' = CreatePartitionOf(op.v)
  /\ op' = [op EXCEPT !.at = "name"]
  /\ UNCHANGED <<drive, vol, call, spent>> /\ UNCHANGED pods /\ UNCHANGED rest

\* the name of the partition is read back; RAWPART ends here
PartitionPrepared ==
  /\ Running("prepare", "name") /\ SearchPartName(op.v)
  /\ op' = [op EXCEPT !.at = AfterPartition(op.v)]
  /\ UNCHANGED <<disk, drive, vol, call, spent>> /\ UNCHANGED pods /\ UNCHANGED rest

CreateFSIfNotExist ==
  /\ Running("prepare", "fs") /\ disk.visible
  /\ IF GetFSUUID \in {None, op.v}
     THEN /\ disk' = IF GetFSUUID = op.v THEN disk ELSE CreateFS(op.v)
          /\ op' = [op EXCEPT !.at = "write"]
     ELSE op' = Failing /\ UNCHANGED disk
  /\ UNCHANGED <<drive, vol, call, spent>> /\ UNCHANGED pods /\ UNCHANGED rest

\* mutant: the failure is only logged
PrepareFailsLogged ==
  /\ op.kind = "prepare" /\ op.at # "write"
  /\ IF disk.visible THEN Fault ELSE UNCHANGED spent
  /\ op' = [op EXCEPT !.at = "write"]
  /\ UNCHANGED <<disk, drive, vol, call>> /\ UNCHANGED pods /\ UNCHANGED rest

\* one of these commands fails, or the device is gone
PrepareFails ==
  /\ op.kind = "prepare" /\ op.at # "write"
  /\ IF disk.visible THEN Fault ELSE UNCHANGED spent
  /\ op' = Failing
  /\ UNCHANGED <<disk, drive, vol, call>> /\ UNCHANGED pods /\ UNCHANGED rest

\* prepareVolume writes the status; without it the volume is reconciled again
PrepareEnd ==
  /\ Running("prepare", "write")
  /\ ReconcileWrites
  /\ UNCHANGED <<disk, drive>> /\ UNCHANGED pods /\ UNCHANGED rest

-----------------------------------------------------------------------------
(* Reconcile of a volume in Removing: handleRemovingStatus *)

\* mutant: a volume without partition is removed already, without wipeDevice
PerformVolumeRemovingNoTable(v) ==
  /\ op = Idle
  /\ vol[v].status = "Removing" \/ (vol[v].status = "Created" /\ vol[v].del)
  /\ loops' = IF vol[v].fake THEN CleanFakeDevice(vol[v], v) ELSE loops
  /\ op' = Begun("remove",
                 CASE vol[v].missing -> "write"
                   [] ~vol[v].missing /\ SearchPartName(v) -> "wipepart"
                   [] ~vol[v].missing /\ disk.visible /\ ~IsPartitionExists -> "write"
                   [] OTHER -> "failed",
                 v, None, [vol[v] EXCEPT !.status = "Removed"], TRUE)
  /\ left' = IF vol[v].missing THEN left \cup {v} ELSE left
  /\ UNCHANGED <<disk, drive, vol, call, spent>> /\ UNCHANGED pods
  /\ UNCHANGED <<mode, claim, gone>>

\* wipeDevice: without its partition only an empty device is wiped
WipeDevice == disk.visible /\ ~IsPartitionExists

\* The status of a deleted Volume in Created becomes Removing in the copy only.
\* A fake device is cleaned; a volume that is MISSING is taken for removed, the
\* others are released, beginning at their partition if they have one.
PerformVolumeRemoving(v) ==
  /\ op = Idle
  /\ vol[v].status = "Removing" \/ (vol[v].status = "Created" /\ vol[v].del)
  /\ loops' = IF vol[v].fake THEN CleanFakeDevice(vol[v], v) ELSE loops
  /\ op' = Begun("remove",
                 CASE vol[v].missing -> "write"
                   [] ~vol[v].missing /\ SearchPartName(v) -> "wipepart"
                   [] ~vol[v].missing /\ ~SearchPartName(v) /\ WipeDevice -> "wipedev"
                   [] OTHER -> "failed",
                 v, None, [vol[v] EXCEPT !.status = "Removed"], TRUE)
  /\ left' = IF vol[v].missing THEN left \cup {v} ELSE left
  /\ UNCHANGED <<disk, drive, vol, call, spent>> /\ UNCHANGED pods
  /\ UNCHANGED <<mode, claim, gone>>

ReleasePartition == IF IsPartitionExists THEN DeletePartition ELSE disk

\* ReleaseVolume: wipefs of the partition, parted rm, wipefs of the device
ReleaseVolume ==
  /\ op.kind = "remove" /\ disk.visible
  /\ \/ /\ op.at = "wipepart"
        /\ disk' = WipeFS
        /\ op' = [op EXCEPT !.at = "rmpart"]
     \/ /\ op.at = "rmpart"
        /\ disk' = ReleasePartition
        /\ op' = [op EXCEPT !.at = "wipedev"]
     \/ /\ op.at = "wipedev"
        /\ disk' = WipeTable
        /\ op' = [op EXCEPT !.at = "write"]
  /\ UNCHANGED <<drive, vol, call, spent>> /\ UNCHANGED pods /\ UNCHANGED rest

\* The system refuses to change a device a pod has mounted, or it does not.
Busy == \E p \in Pod : "real" \in tgt[p]

ReleaseVolumeFails ==
  /\ op.kind = "remove" /\ op.at \in {"wipepart", "rmpart", "wipedev"}
  /\ IF disk.visible /\ ~Busy THEN Fault ELSE UNCHANGED spent
  /\ op' = [op EXCEPT !.at = "failed"]
  /\ UNCHANGED <<disk, drive, vol, call>> /\ UNCHANGED pods /\ UNCHANGED rest

\* The Drive is FAILED then, and the volume too; if the Drive cannot be written
\* the volume stays as it is and is reconciled again.
ReleaseFailed ==
  /\ Running("remove", "failed")
  /\ \/ /\ drive' = [drive EXCEPT !.usage = "FAILED", !.event = TRUE]
        /\ op' = Failing /\ UNCHANGED spent
     \/ Fault /\ op' = Idle /\ UNCHANGED drive
  /\ UNCHANGED <<disk, vol, call>> /\ UNCHANGED pods /\ UNCHANGED rest

RemoveEnd ==
  /\ Running("remove", "write")
  /\ ReconcileWrites
  /\ UNCHANGED <<disk, drive>> /\ UNCHANGED pods /\ UNCHANGED rest

\* A deleted Volume that is Removed or Failed loses its finalizer and is gone.
RemoveFinalizer(v) ==
  /\ op = Idle /\ vol[v].del /\ vol[v].status \in {"Removed", "Failed"}
  /\ Put(v, Absent)
  /\ UNCHANGED <<disk, drive, spent>> /\ UNCHANGED pods /\ UNCHANGED rest

-----------------------------------------------------------------------------
(* The node service *)

\* GetVolumePath: the partition with the UUID of the volume, or the device.  (The
\* path of a device that is gone is found for RAW, and mounting it fails.)
VolumePathFound(v) ==
  IF mode[v] = "RAW" THEN disk.visible ELSE SearchPartName(v)

\* isFakeAttachNeed, its second result; allowed is the first
FakeAttachDR(allowed) ==
  /\ allowed
  /\ (drive.usage = "RELEASED" /\ drive.online) \/ drive.allFake

\* mutant: a fake device is recorded for file systems too
FakeAttachedDevice(cr, needed) ==
  IF needed
  THEN [cr EXCEPT !.fake = TRUE, !.missing = TRUE, !.loop = TRUE]
  ELSE [cr EXCEPT !.fake = FALSE, !.loop = IF cr.fake THEN FALSE ELSE @]

\* processFakeAttachInNodeStageVolume: the copy of the Volume afterwards
FakeAttached(cr, needed) ==
  IF needed
  THEN [cr EXCEPT !.fake = TRUE, !.missing = TRUE,
                  !.loop = (mode[Shared] # "FS")]
  ELSE [cr EXCEPT !.fake = FALSE, !.loop = IF cr.fake THEN FALSE ELSE @]

\* mutant: a volume that has failed is not staged again
StageableUnfailed(cr) == cr.status \in {"Created", "VolumeReady", "Published"}

\* the statuses NodeStageVolume accepts
Stageable(cr) == cr.status \in {"Created", "VolumeReady", "Published", "Failed"}

\* The kubelet stages before it publishes, also when it tries again.
ToStage(p) == call = Idle /\ p \in want \ kub.next /\ kub.pub[p] # "yes"

NodeStageVolume(p) ==
  /\ ToStage(p) /\ Stageable(vol[Shared])
  /\ call' = Begun("stage", "mount", Shared, p, vol[Shared], TRUE)
  /\ UNCHANGED <<disk, drive, vol, op, spent>> /\ UNCHANGED pods /\ UNCHANGED rest

\* NodeStageVolume mounts the device, unless something is mounted already, or
\* fakes the attachment.  mounted: the mount succeeds; allowed: the claim is
\* read and has the annotation.
Stage(mounted, allowed) ==
  LET real == PrepareAndPerformMount(stg, {"real"}, mounted /\ VolumePathFound(Shared))
      isErr == ~VolumePathFound(Shared) \/ ~IsMounted(real)
      needed == (isErr /\ allowed) \/ FakeAttachDR(allowed)
      block == mode[Shared] # "FS"
      answer == ~isErr \/ allowed
  IN  /\ Calling("stage", "mount")
      /\ stg' = PrepareAndPerformMount(real, {"fake"}, needed /\ block)
      /\ loops' = CASE needed /\ block -> CreateFakeDeviceIfNecessary(Shared)
                    [] ~needed /\ block /\ call.cr.fake -> CleanFakeDevice(call.cr, Shared)
                    [] OTHER -> loops
      /\ call' = [call EXCEPT
                    !.at = IF call.cr.status = "VolumeReady" THEN "end" ELSE "write",
                    !.cr = [FakeAttached(@, needed) EXCEPT
                              !.status = IF answer THEN "VolumeReady" ELSE "Failed"],
                    !.ok = answer]
      /\ UNCHANGED <<disk, drive, vol, op, tgt, want, kub>>
      /\ UNCHANGED <<mode, claim, left, gone>>

StageMounts == Stage(TRUE, FakeAllowed) /\ UNCHANGED spent

\* the mount fails, or the claim cannot be read
StageMountFails ==
  /\ Fault
  /\ \/ VolumePathFound(Shared) /\ ~IsMounted(stg) /\ Stage(FALSE, FakeAllowed)
     \/ FakeAllowed /\ Stage(TRUE, FALSE)

\* The Drive cannot be read, or the fake device cannot be made or mounted: the
\* call ends there and the Volume is not written.
StageAborts ==
  LET real == PrepareAndPerformMount(stg, {"real"}, VolumePathFound(Shared))
  IN  /\ Calling("stage", "mount") /\ Fault
      /\ \/ UNCHANGED <<stg, loops>>
         \/ /\ mode[Shared] # "FS"
            /\ FakeAttachDR(FakeAllowed) \/ (FakeAllowed /\ ~VolumePathFound(Shared))
            /\ stg' = real
            /\ \/ UNCHANGED loops
               \/ ~IsMounted(real) /\ loops' = CreateFakeDeviceIfNecessary(Shared)
      /\ kub' = [kub EXCEPT !.staged = "maybe"]
      /\ call' = Idle
      /\ UNCHANGED <<disk, drive, vol, op, tgt, want>>
      /\ UNCHANGED <<mode, claim, left, gone>>

\* The answer to the kubelet: a call that failed may or may not have worked.
\* After a successful one it goes on to publish.
StageAnswer(ok) ==
  kub' = [kub EXCEPT !.staged = IF ok THEN "yes" ELSE "maybe",
                     !.next = IF ok THEN @ \cup {call.p} ELSE @ \ {call.p}]

\* The Volume is not written when it was VolumeReady already.
StageEnd ==
  /\ \/ Calling("stage", "end") /\ UNCHANGED <<vol, op, spent>> /\ StageAnswer(call.ok)
     \/ Calling("stage", "write") /\ CallWrites /\ StageAnswer(call.ok)
     \/ Calling("stage", "write") /\ CallWriteFails /\ StageAnswer(FALSE)
  /\ call' = Idle
  /\ UNCHANGED <<disk, drive, stg, tgt, want>> /\ UNCHANGED rest

\* NodePublishVolume: tmpfs (MountFakeTmpfs) for a fake file system, else the
\* staged device, unless something is mounted at the target already.
Publish(p, mounted) ==
  LET cr == vol[Shared]
      tmpfs == cr.fake /\ mode[Shared] = "FS"
      staged == PrepareAndPerformMount(tgt[p], stg, mounted)
      failed == IF tmpfs THEN ~mounted ELSE ~IsMounted(staged)
  IN  /\ cr.status \in {"VolumeReady", "Published"}
      /\ tgt' = [tgt EXCEPT ![p] = IF tmpfs THEN MountFakeTmpfs(@, mounted) ELSE staged]
      /\ call' = Begun("publish", "write", Shared, p,
                       [cr EXCEPT !.status = IF failed THEN "Failed" ELSE "Published",
                                  !.owners = @ \cup {p}],
                       ~failed)
      /\ UNCHANGED <<disk, drive, vol, op, stg, want, kub>> /\ UNCHANGED rest

NodePublishVolume(p) ==
  /\ call = Idle /\ p \in kub.next \cap want
  /\ Publish(p, TRUE) /\ UNCHANGED spent

NodePublishVolumeMountFails(p) ==
  /\ call = Idle /\ p \in kub.next \cap want
  /\ ~IsMounted(tgt[p]) \/ (vol[Shared].fake /\ mode[Shared] = "FS")
  /\ Publish(p, FALSE) /\ Fault

\* refused in any other status; the kubelet begins again with NodeStageVolume
NodePublishVolumeRefused(p) ==
  /\ call = Idle /\ p \in kub.next \cap want
  /\ vol[Shared].status \notin {"VolumeReady", "Published"}
  /\ kub' = [kub EXCEPT !.next = @ \ {p}]
  /\ UNCHANGED <<disk, drive, vol, op, call, stg, tgt, want, spent>> /\ UNCHANGED rest

\* The Volume is written, whatever happened
PublishWrite ==
  /\ Calling("publish", "write")
  /\ \/ CallWrites /\ call' = [call EXCEPT !.at = "annotate"]
     \/ CallWriteFails /\ call' = [call EXCEPT !.at = "annotate", !.ok = FALSE]
  /\ UNCHANGED <<disk, drive>> /\ UNCHANGED pods /\ UNCHANGED rest

PublishAnswer(ok) ==
  kub' = [kub EXCEPT !.pub[call.p] = IF ok THEN "yes" ELSE "maybe",
                     !.next = @ \ {call.p}]

\* annotateIfAllDRVolsFakeAttached: the Drive is annotated if it is ONLINE and
\* all volumes on it are fake; the call fails if the Drive cannot be written.
AnnotateIfAllDRVolsFakeAttached ==
  LET all == drive.online /\ \A v \in Volume :
               vol[v].status # "none" => vol[v].fake
  IN  /\ Calling("publish", "annotate")
      /\ \/ /\ drive' = IF all THEN [drive EXCEPT !.allFake = TRUE, !.event = TRUE]
                               ELSE drive
            /\ PublishAnswer(call.ok) /\ UNCHANGED spent
         \/ all /\ Fault /\ UNCHANGED drive /\ PublishAnswer(FALSE)
      /\ call' = Idle
      /\ UNCHANGED <<disk, vol, op, stg, tgt, want>> /\ UNCHANGED rest

\* NodeUnpublishVolume of a pod the kubelet knows to be gone
MayUnpublish(p) ==
  /\ call = Idle /\ p \notin want /\ kub.pub[p] # "no"
  /\ vol[Shared].status \in {"VolumeReady", "Published"}

\* An owner stays if its pod can be read and is not the one that goes; without
\* owners the volume is VolumeReady.
NodeUnpublishVolume(p) ==
  /\ MayUnpublish(p)
  /\ \E below \in UnmountWithCheck(tgt[p]) : tgt' = [tgt EXCEPT ![p] = below]
  /\ \E found \in {want, {}} :
       LET owners == (vol[Shared].owners \ {p}) \cap found
       IN  /\ IF found = want THEN UNCHANGED spent ELSE Fault
           /\ call' = Begun("unpublish", "write", Shared, p,
                            [vol[Shared] EXCEPT !.owners = owners,
                               !.status = IF owners = {} THEN "VolumeReady" ELSE @],
                            TRUE)
  /\ UNCHANGED <<disk, drive, vol, op, stg, want, kub>> /\ UNCHANGED rest

NodeUnpublishVolumeFails(p) ==
  /\ MayUnpublish(p) /\ IsMounted(tgt[p]) /\ Fault
  /\ call' = Begun("unpublish", "write", Shared, p,
                   [vol[Shared] EXCEPT !.status = "Failed"], FALSE)
  /\ UNCHANGED <<disk, drive, vol, op>> /\ UNCHANGED pods /\ UNCHANGED rest

UnpublishEnd ==
  /\ Calling("unpublish", "write")
  /\ \/ CallWrites /\ kub' = [kub EXCEPT !.pub[call.p] = IF call.ok THEN "no" ELSE "maybe"]
     \/ CallWriteFails /\ kub' = [kub EXCEPT !.pub[call.p] = "maybe"]
  /\ call' = Idle
  /\ UNCHANGED <<disk, drive, stg, tgt, want>> /\ UNCHANGED rest

\* the kubelet unstages when no pod is left that uses the volume
MayUnstage ==
  /\ call = Idle /\ kub.staged # "no"
  /\ want = {} /\ \A p \in Pod : kub.pub[p] = "no"

\* NodeUnstageVolume of a volume that is gone, Created or Removed does nothing.
AlreadyUnstaged ==
  /\ MayUnstage /\ vol[Shared].status \in {"none", "Created", "Removed"}
  /\ kub' = [kub EXCEPT !.staged = "no"]
  /\ UNCHANGED <<disk, drive, vol, op, call, stg, tgt, want, spent>> /\ UNCHANGED rest

\* It leaves the staging path of a fake file system alone.
Unstage(unmounted) ==
  LET cr == vol[Shared]
      skip == cr.fake /\ mode[Shared] = "FS"
      done == skip \/ unmounted
  IN  /\ MayUnstage /\ cr.status = "VolumeReady"
      /\ stg' = IF unmounted /\ ~skip THEN {} ELSE stg
      /\ call' = Begun("unstage", "write", Shared, None,
                       [cr EXCEPT !.status = IF done THEN "Created" ELSE "Failed"], done)
      /\ UNCHANGED <<disk, drive, vol, op, tgt, want, kub>> /\ UNCHANGED rest

NodeUnstageVolume == Unstage(TRUE) /\ UNCHANGED spent
NodeUnstageVolumeFails == IsMounted(stg) /\ Unstage(FALSE) /\ Fault

UnstageEnd ==
  /\ Calling("unstage", "write")
  /\ \/ CallWrites /\ kub' = [kub EXCEPT !.staged = IF call.ok THEN "no" ELSE "maybe"]
     \/ CallWriteFails /\ kub' = [kub EXCEPT !.staged = "maybe"]
  /\ call' = Idle
  /\ UNCHANGED <<disk, drive, stg, tgt, want>> /\ UNCHANGED rest

-----------------------------------------------------------------------------
(* The controller, other objects and the world *)

\* CreateVolume places a volume on the drive when there is no other on it.
CreateVolume(v) ==
  /\ vol[v] = Absent /\ v \notin left
  /\ \A w \in Volume : vol[w] = Absent
  /\ v = Shared => claim = "pending"
  /\ v # Shared => claim # "pending"
  /\ vol' = [vol EXCEPT ![v].status = "Creating"]
  /\ UNCHANGED <<disk, drive, op, call, spent>> /\ UNCHANGED pods /\ UNCHANGED rest

\* CreateVolume answers once the volume is Created: pods may use the claim.
Bind ==
  /\ claim = "pending" /\ vol[Shared].status = "Created"
  /\ claim' = "bound"
  /\ UNCHANGED <<disk, drive, vol, op, call, mode, loops, left, gone, spent>> /\ UNCHANGED pods

\* the claim is deleted; its pods are gone
DeleteClaim ==
  /\ claim = "bound" /\ want = {}
  /\ claim' = "deleted"
  /\ UNCHANGED <<disk, drive, vol, op, call, mode, loops, left, gone, spent>> /\ UNCHANGED pods

\* DeleteVolume of the controller service
DeleteVolume(v) ==
  /\ v = Shared => claim = "deleted"
  /\ vol[v].status = "Created" /\ ~vol[v].del
  /\ Put(v, [vol[v] EXCEPT !.status = "Removing"])
  /\ UNCHANGED <<disk, drive, spent>> /\ UNCHANGED pods /\ UNCHANGED rest

\* UpdateCRsAfterVolumeDeletion deletes the object
UpdateCRsAfterVolumeDeletion(v) ==
  /\ vol[v].status = "Removed" /\ ~vol[v].del
  /\ Put(v, [vol[v] EXCEPT !.del = TRUE])
  /\ UNCHANGED <<disk, drive, spent>> /\ UNCHANGED pods /\ UNCHANGED rest

\* a user deletes the Volume object
DeleteObject(v) ==
  /\ Change("delete") /\ vol[v].status # "none" /\ ~vol[v].del
  /\ Put(v, [vol[v] EXCEPT !.del = TRUE])
  /\ UNCHANGED <<disk, drive>> /\ UNCHANGED pods /\ UNCHANGED rest

\* Discover: the Drive follows the device
DiscoverDrive ==
  /\ drive.online # disk.visible
  /\ drive' = [drive EXCEPT !.online = disk.visible, !.event = TRUE]
  /\ UNCHANGED <<disk, vol, op, call, spent>> /\ UNCHANGED pods /\ UNCHANGED rest

Restated(o, here) ==
  IF o.v \in here /\ vol[o.v].missing = drive.online THEN [o EXCEPT !.stale = TRUE] ELSE o

\* handleDriveStatus of the drive controller: volumes are MISSING on a drive
\* that is OFFLINE and OPERATIVE on one that is ONLINE
HandleDriveStatus ==
  LET here == {v \in Volume : vol[v].status # "none"}
  IN  /\ drive.event
      /\ drive' = [drive EXCEPT !.event = FALSE]
      /\ vol' = [v \in Volume |-> IF v \in here
                                  THEN [vol[v] EXCEPT !.missing = ~drive.online]
                                  ELSE vol[v]]
      /\ op' = Restated(op, here) /\ call' = Restated(call, here)
      /\ UNCHANGED <<disk, spent>> /\ UNCHANGED pods /\ UNCHANGED rest

\* the drive is to be replaced and its volumes are released
ReleaseDrive ==
  /\ Change("released") /\ drive.usage = "IN_USE"
  /\ drive' = [drive EXCEPT !.usage = "RELEASED", !.event = TRUE]
  /\ UNCHANGED <<disk, vol, op, call>> /\ UNCHANGED pods /\ UNCHANGED rest

Plug ==
  /\ Change("plug")
  /\ disk' = [disk EXCEPT !.visible = ~@]
  /\ UNCHANGED <<drive, vol, op, call>> /\ UNCHANGED pods /\ UNCHANGED rest

\* a pod writes a partition table of its own to its device
WriteTable(p) ==
  /\ Change("table") /\ mode[Shared] = "RAW" /\ kub.pub[p] = "yes"
  /\ "real" \in tgt[p] /\ disk.visible
  /\ disk' = [disk EXCEPT !.table = TRUE, !.part = Foreign]
  /\ UNCHANGED <<drive, vol, op, call>> /\ UNCHANGED pods /\ UNCHANGED rest

SchedulePod(p) ==
  /\ claim = "bound" /\ p \notin want \cup gone
  /\ want' = want \cup {p}
  /\ UNCHANGED <<disk, drive, vol, op, call, stg, tgt, kub, spent>> /\ UNCHANGED rest

DeletePod(p) ==
  /\ p \in want
  /\ want' = want \ {p} /\ gone' = gone \cup {p}
  /\ kub' = [kub EXCEPT !.next = @ \ {p}]
  /\ UNCHANGED <<disk, drive, vol, op, call, stg, tgt, spent>>
  /\ UNCHANGED <<mode, loops, claim, left>>

\* what the kubelet makes of a call that got no answer
Unanswered ==
  [kub EXCEPT !.staged = IF call.kind \in {"stage", "unstage"} THEN "maybe" ELSE @,
              !.next = @ \ {call.p},
              !.pub = [p \in Pod |-> IF call.p = p /\ call.kind \in {"publish", "unpublish"}
                                     THEN "maybe" ELSE @[p]]]

\* The node's process dies and starts again.
Crash ==
  /\ op # Idle \/ call # Idle
  /\ Change("crash")
  /\ op' = Idle /\ call' = Idle /\ kub' = Unanswered
  /\ UNCHANGED <<disk, drive, vol, stg, tgt, want>> /\ UNCHANGED rest

\* The node reboots: mounts and loop devices are gone, pods start again.
Reboot ==
  /\ Change("reboot")
  /\ op' = Idle /\ call' = Idle
  /\ stg' = {} /\ tgt' = [p \in Pod |-> {}] /\ loops' = {}
  /\ kub' = [staged |-> "no", next |-> {}, pub |-> [p \in Pod |-> "no"]]
  /\ UNCHANGED <<disk, drive, vol, want, gone, mode, claim, left>>

-----------------------------------------------------------------------------
Reconcile ==
  \/ \E v \in Volume : PrepareVolume(v) \/ PerformVolumeRemoving(v) \/ RemoveFinalizer(v)
  \/ PreparePartition \/ CreatePartition \/ PartitionPrepared
  \/ CreateFSIfNotExist \/ PrepareFails \/ PrepareEnd
  \/ ReleaseVolume \/ ReleaseVolumeFails \/ ReleaseFailed \/ RemoveEnd

NodeService ==
  \/ \E p \in Pod :
       \/ NodeStageVolume(p) \/ NodePublishVolume(p) \/ NodePublishVolumeMountFails(p)
       \/ NodePublishVolumeRefused(p)
       \/ NodeUnpublishVolume(p) \/ NodeUnpublishVolumeFails(p)
  \/ StageMounts \/ StageMountFails \/ StageAborts \/ StageEnd
  \/ PublishWrite \/ AnnotateIfAllDRVolsFakeAttached \/ UnpublishEnd
  \/ AlreadyUnstaged \/ NodeUnstageVolume \/ NodeUnstageVolumeFails \/ UnstageEnd

Environment ==
  \/ \E v \in Volume : \/ CreateVolume(v) \/ DeleteVolume(v) \/ DeleteObject(v)
                       \/ UpdateCRsAfterVolumeDeletion(v)
  \/ \E p \in Pod : SchedulePod(p) \/ DeletePod(p) \/ WriteTable(p)
  \/ Bind \/ DeleteClaim \/ DiscoverDrive \/ HandleDriveStatus
  \/ ReleaseDrive \/ Plug \/ Crash \/ Reboot

Next == Reconcile \/ NodeService \/ Environment

Spec == Init /\ [][Next]_vars

\* The locks are given up in time; the kubelet tries again a pod that it has not
\* started; discovery and the controllers run on.
FairSpec ==
  /\ Spec
  /\ WF_vars(Reconcile)
  /\ WF_vars(StageMounts \/ StageEnd \/ PublishWrite \/ AnnotateIfAllDRVolsFakeAttached
             \/ UnpublishEnd \/ UnstageEnd)
  /\ \A p \in Pod : SF_vars(\/ NodeStageVolume(p) \/ NodePublishVolume(p)
                             \/ NodePublishVolumeRefused(p))
  /\ WF_vars(DiscoverDrive) /\ WF_vars(HandleDriveStatus)

-----------------------------------------------------------------------------
(* Properties *)

\* A volume that pods may stage, and that nobody has deleted, has its own
\* partition and, in mode FS, its own file system, whatever the volume before it
\* left on the device, however often its preparation was begun again and wherever
\* the node's process died in it (PrepareVolume starts from its first command).
PreparedBeforeUse ==
  \A v \in Volume :
    vol[v].status \in {"Created", "VolumeReady", "Published"} /\ ~vol[v].del =>
      /\ mode[v] # "RAW" => disk.part = v
      /\ mode[v] = "FS" => disk.fs = v

\* A volume that was removed and not taken for MISSING has left a blank device,
\* also when its removal was begun again in the middle: the next volume, or
\* discovery, finds neither partition nor table (ReleaseVolume, wipeDevice).
WipedWhenRemoved ==
  \A v \in Volume \ left :
    vol[v].status = "Removed" =>
      disk.part = None /\ disk.fs = None /\ ~disk.table

\* Reconcile wipes a volume that DeleteVolume gave up while no pod has it, none
\* gets it, and no call that the node service began before under its own lock
\* brings the volume back: DeleteVolume takes a volume in Created only, Created is
\* written after the unmounts, and its write refuses the call's.  (A Volume that a
\* user deletes in Created is Removing in Reconcile's copy only: it may be staged
\* and published while it is wiped.)
WipedOnlyUnused ==
  (op.kind = "remove" /\ op.v = Shared /\ ~op.cr.del) =>
    /\ vol[Shared].status = "Removing"
    /\ \A p \in Pod : kub.pub[p] = "no"
    /\ call.kind \in {"idle", "stage"}

\* The partition of a volume goes only with the removal of that volume: the
\* preparation of the next one leaves it alone, although the capacity of the
\* drive is offered again after a volume was removed as MISSING or Failed.
PartitionKept ==
  [][\A v \in Volume :
       disk.part = v /\ disk'.part # v => op.kind = "remove" /\ op.v = v]_vars

\* A pod that stays on the node gets its volume, be the device there or not if
\* its claim allows fake attach, unless a user deletes the Volume: every status
\* an unlucky call leaves behind is one NodeStageVolume accepts.
PodGetsVolume ==
  \A p \in Pod :
    p \in want ~> (\/ p \notin want \/ kub.pub[p] = "yes"
                   \/ vol[Shared].del \/ vol[Shared].status = "none"
                   \/ ~FakeAllowed /\ ~VolumePathFound(Shared))

-----------------------------------------------------------------------------
(* What makes PreparedBeforeUse, WipedWhenRemoved, WipedOnlyUnused and       *)
(* PartitionKept inductive.                                                  *)

\* A user who deletes a Volume in use lets the next volume onto the drive under
\* the pods of the first, which may still write a partition table of their own.
\* The two do not come together; and as long as nobody has deleted a Volume the
\* object of one that is in use stays.
UserApart == ~({"delete", "table"} \subseteq Changes) \/ MaxChanges <= 1
NoneDeleted == "delete" \notin Changes \/ (MaxChanges <= 1 /\ spent.change = 0)

Unpublished == \A p \in Pod : kub.pub[p] = "no"
Blank == disk.part = None /\ disk.fs = None /\ ~disk.table
Ready(v) ==
  /\ mode[v] # "RAW" => disk.part = v
  /\ mode[v] = "FS" => disk.fs = v

\* One volume at a time is on the drive, and the shared one is the first.
OneAtATime ==
  /\ \A v \in Volume : vol[v].status = "none" => vol[v] = Absent
  /\ \A v, w \in Volume : vol[v].status # "none" /\ vol[w].status # "none" => v = w
  /\ \A v \in Volume \ {Shared} : vol[v].status # "none" \/ disk.part = v =>
       claim # "pending" /\ vol[Shared].status = "none"

\* Pods come to the shared volume only once it was prepared, and it stays so
\* until their claim is deleted.
ClaimOK ==
  /\ claim # "bound" => want = {}
  /\ vol[Shared].status = "Creating" => claim = "pending"
  /\ vol[Shared].status \in {"VolumeReady", "Published"} => claim # "pending"
  /\ vol[Shared].status = "Removing" => claim = "deleted"
  /\ \A v \in Volume :
       /\ ~vol[v].del
       /\ \/ vol[v].status \in {"Created", "VolumeReady", "Published"}
          \/ vol[v].status = "Failed" /\ v = Shared /\ claim = "bound"
       => Ready(v)

DeviceOK ==
  /\ \A v \in Volume : disk.part = v => mode[v] # "RAW"
  /\ \A v \in Volume \ left : vol[v].status = "Removed" => Blank

NotInUse ==
  \/ vol[Shared].status \in {"Creating", "Created", "Removing", "Removed"}
  \/ claim = "pending"
  \/ NoneDeleted /\ vol[Shared].status = "none"

\* No pod is published with a volume that may be wiped.
PodsOK ==
  /\ NotInUse => Unpublished
  /\ NoneDeleted => \A v \in Volume : vol[v].del => vol[v].status = "Removed"

\* What a copy that is not stale agrees on with the object.
CopyOK(o) ==
  o.kind # "idle" =>
    /\ o.cr.loop => mode[o.v] # "FS"
    /\ ~o.stale => o.cr.del = vol[o.v].del

\* Reconcile works on a volume that is Creating, or is given up or deleted; what it
\* removes keeps its status unless the write at the end is refused.
ReconcileOK ==
  /\ op.kind = "idle" => op = Idle
  /\ op.kind = "prepare" => /\ vol[op.v].status = "Creating"
                            /\ op.cr.status \in {"Created", "Failed"}
  /\ op.kind = "remove" =>
       /\ vol[op.v].status \notin {"none", "Creating", "Removed"}
       /\ vol[op.v].status = "Removing" \/ vol[op.v].del
       /\ ~op.stale => vol[op.v].status \in {"Removing", "Created"}
       /\ ~op.cr.del => vol[op.v].status = "Removing"
       /\ op.cr.status \in {"Removed", "Failed"}

\* A call works on the shared volume in a status it accepts; if DeleteVolume,
\* Reconcile or the end of the object came in between, its copy is stale.
CallOK ==
  /\ call.kind = "idle" => call = Idle
  /\ call.kind # "idle" => call.v = Shared /\ claim # "pending"
  /\ call.kind \in {"stage", "publish", "unpublish"} => call.p \in Pod
  /\ call.kind = "stage" =>
       /\ vol[Shared].status \in {"Created", "VolumeReady", "Published", "Failed"} \/ call.stale
       /\ call.at = "write" => call.cr.status \in {"VolumeReady", "Failed"}
  /\ call.kind \in {"publish", "unpublish"} =>
       /\ \/ vol[Shared].status \in {"VolumeReady", "Published", "Failed"}
          \/ vol[Shared].status = "none" /\ ~NoneDeleted /\ call.stale
       /\ call.cr.status \in {"VolumeReady", "Published", "Failed"}
  /\ call.kind = "unstage" => /\ vol[Shared].status = "VolumeReady"
                              /\ call.cr.status \in {"Created", "Failed"}
                              /\ Unpublished

OperationOK == CopyOK(op) /\ CopyOK(call) /\ ReconcileOK /\ CallOK

\* How far the preparation, or the removal, has got on the device
DeviceProgress ==
  /\ op.kind = "prepare" =>
       /\ op.at = "write" \/ mode[op.v] # "RAW"
       /\ op.at = "mkpart" => disk.part = None
       /\ op.at \in {"name", "fs"} => disk.part = op.v
       /\ op.at = "write" /\ op.cr.status = "Created" => Ready(op.v)
  /\ op.kind = "remove" =>
       /\ op.at \in {"wipepart", "rmpart"} => disk.part = op.v
       /\ op.at = "wipedev" => disk.part = None
       /\ op.at = "write" /\ op.cr.status = "Removed" /\ op.v \notin left => Blank

\* What a call is to write over was prepared.
CallReady == call.kind # "idle" /\ ~call.stale /\ ~call.cr.del => Ready(Shared)

DriveInv ==
  /\ TypeOK /\ UserApart
  /\ OneAtATime /\ ClaimOK /\ DeviceOK /\ PodsOK
  /\ OperationOK /\ DeviceProgress /\ CallReady
=============================================================================
