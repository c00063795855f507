# A TLA+ development of csi-baremetal

csi-baremetal is a CSI driver for Kubernetes that gives pods persistent volumes
on the local drives of the nodes: whole drives, or logical volumes (LVs) on an
LVM volume group made on a drive. Its processes share no memory. They work on
custom resources in the Kubernetes API server, and each of them may stop, be
repeated or read old data between any two of its calls. That protocol is what
the modules here are about: which capacity is promised to whom, and whether the
bookkeeping stays in line with what is on the drives.

## 1. Inventory

| Component | State it keeps | Operations |
|---|---|---|
| Scheduler extender (`pkg/scheduler/extender`) | none; creates and resends `AvailableCapacityReservation` (ACR) objects | Filter, Prioritize, Bind |
| Reservation controller (`pkg/crcontrollers/reservation`) | none; confirms or rejects ACRs | Reconcile |
| Capacity planner (`pkg/base/capacityplanner`) | none; plans on lists of `AvailableCapacity` (AC) and ACR objects | PlanVolumesPlacing, UpdateReservation, ReleaseReservation |
| CSI controller (`pkg/controller`, `pkg/common`) | one lock for all requests, a cache of volume namespaces; `Volume`, AC and `LogicalVolumeGroup` (LVG) objects | CreateVolume, DeleteVolume, ControllerExpandVolume |
| Capacity controller (`pkg/controller/capacitycontroller`) | ACs of drives and of LVGs | Reconcile of drives and LVGs |
| Services state monitor (`pkg/controller/node`) | readiness of the node pods | status of drives and volumes of unready nodes |
| Volume manager (`pkg/node/volumemgr.go`) | `Drive` and `Volume` objects of its node, what is on the drives | Reconcile of volumes, Discover |
| Node service (`pkg/node/node.go`) | mounts, owners and status of volumes | NodeStage/Unstage/Publish/UnpublishVolume |
| LVG controller (`pkg/crcontrollers/lvg`) | volume groups | Reconcile of LVGs |
| Drive controller (`pkg/crcontrollers/drive`) | drive usage | Reconcile of drives (replacement) |
| Storage group controller (`pkg/crcontrollers/storagegroup`) | labels of drives and ACs | Reconcile of groups and drives |
| Node controller (`pkg/crcontrollers/node`) | identity of nodes | Reconcile of CSIBMNodes |
| Drive managers (`pkg/drivemgr`) | the loopback manager: its drives, their files and loop devices | list of drives; Init, UpdateOnConfigChange of the loopback manager |

A pod's way to its volumes: the extender creates an ACR with one request per
PVC; the reservation controller plans all requests on every candidate node and
stores the AC names in the ACR (`RESERVED`) or rejects it; the scheduler picks a
node the extender let through; the provisioner calls CreateVolume for each PVC,
which turns the AC reserved on that node into a `Volume` object, takes the space
from the AC and releases the request; the node's Reconcile makes the LV or the
partition; the PVC is bound, and kubelet calls the node service. Deleting and
expanding a volume change the status in the `Volume`, wait for the node to do the
work, and settle AC and LVG afterwards.

A drive's way: the node discovers it and keeps its `Drive` object; the capacity
controller makes an AC of it; the storage group controller labels both. When it
goes bad, discovery writes that to the drive, its group and its volumes, the
owners of the volumes are asked to let go of them, the answers are noted on the
drive, and the drive controller waits for the volumes to be removed and the
drive to be pulled out before it deletes the object. The services monitor speaks
for a node whose pod does not. All of them compare drives and nodes by ids that
the drive manager and the node controller give.

What is hard in it:

- every read may be old when it is used: the plan (lists of ACs and ACRs read
  one after the other), the `Volume` read before the lock, `VolumeRefs`;
- handlers of several writes (AC, LVG, Volume) stop in the middle and are
  repeated, so each write must bear being done again;
- requests time out while the work they wait for goes on;
- node RPCs and the node's Reconcile have different locks for one volume;
- sizes are aligned, reduced by LVM metadata, or not, depending on the place;
- a device is prepared and wiped by sequences of commands that may stop anywhere,
  on top of what the volume before has left;
- a decision is taken from annotations, labels and statuses that another process
  writes and removes, and events that would make somebody look again are filtered;
- the clock of the monitor, the retries of kubelet and work queues meet answers
  that come late.

What makes the parts correct: a drive is promised once, and a promised capacity
is there when CreateVolume comes (planner, controller); one Volume per claim,
and no reservation thrown away early (CreateVolume); the AC of a group never
offers more than is free; a usable volume has an LV of its size; a group is
removed only when nothing is on it; requests and deletions come to an end.

`PROJECT.json` lists the components, and under `hazards` the places in the code
where these can go wrong.

## 2. Modules

| Module | Models |
|---|---|
| `CapacityMath` | sizes: alignment to extents and megabytes, LVM metadata (`capacityplanner/common.go`) |
| `Planner` | the planner as operators on a list of ACs and of ACRs |
| `Reservation` | extender, reservation controller, CreateVolume, and their faults |
| `ReservationProofs`, `LVGVolumesProofs`, `NodeVolumeProofs`, `DriveReplacementProofs`, `DiscoveryProofs`, `StorageGroupsProofs`, `NodeIdsProofs`, `LoopbackProofs` | lemmas and theorems about the module of that name; those about `Planner` are in the first |
| `LVGVolumes` | life of the volumes of one LVG: create, delete, expand, node RPCs, the group itself |
| `NodeVolume` | a drive on its node: partition, file system, mounts, fake attach, kubelet's retries |
| `DriveLifecycle` | abstract: what the replacement of a drive promises the owners of its volumes |
| `DriveReplacement` | drive controller, discovery, volume reconciliation and operators; implements `DriveLifecycle` |
| `Discovery` | drives and the system's volume group become ACs; the monitor of the node's pod |
| `StorageGroups` | the storage group controller and what writes the objects it labels |
| `NodeIds` | the node controller: CSIBMNodes, UUIDs, annotations |
| `Loopback` | the loopback drive manager with its config file |
| `MCReservation`, `MCLVGVolumes`, `MCNodeVolume`, `MCStorageGroups`, `MCLoopback` | instances for TLC; the other modules need none |

**The API server.** Objects are variables. `UpdateCR` sends the resource version
that was read and fails when the object has changed: a handler that keeps a copy
has a flag `fresh` (or `stale`, or a set of what was touched) that every other
write to the object changes. `CreateCR` and `DeleteCR` do not look at versions. A
handler that reads one object and does nothing but update that object is one step,
because a change in between only makes it fail.

**Work queues.** A controller has one worker. `Reservation`, `StorageGroups` and
`NodeIds` have the queue as the set of names that need work, filled by the events
that the code's filters let through; elsewhere a flag says that an object has
changed since it was reconciled, and objects that are requeued after a time can be
reconciled always.

**`Planner`.** An AC and a claim are constants (node, rank in the list, size,
class, storage group); sizes and classes of ACs change and are a parameter.
`Placements` is `selectCapacityOnNode` followed for all volumes of a pod,
`Eligible` one choice of `selectACForVolume`. The order of equally good ACs, which
the code takes from list and map order, is `rank`. `HeldSize` keeps what
`newNodeCapacity` does to the object shared by the ACs of a request.

**`Reservation`.** `Filter` is the extender's handler with its three outcomes.
The controller's single worker is `rc`: it lists ACs (`RcReadCapacity`), lists
ACRs and plans (`RcReadReservations`), and updates the ACR (`RcUpdate`,
`RcConflict`, `RcFail`). The request that holds the controller's lock is `cv`:
`CvStart`, `CvCreateLVG`, `CvConvertAC`, `CvCreateVolume`, `CvDecreaseAC`,
`CvRelease` are the writes of `handleVolumeCreation` in their order, `CvInProgress`
is a repeated request. `BindPVC` and `ACRValidator` are Kubernetes and the
operator. The node's work between is the answer CreateVolume gives: success, or
an error and a repetition.

**`LVGVolumes`.** One group with its AC, three writers. A request (`rq`) of the
controller is split at its writes and where it waits; `LockFree` is the lock
between them. The node's Reconcile (`nr`) reads, works on the LV, and writes the
status. The node RPCs are one step each that changes the status. The LVG
controller lists the volumes and removes the group, whose object goes with its
finalizer. Of CreateVolume, whose other steps are in `Reservation`, there are the
two writes: the Volume (`Create`), then the AC (`CreateCharge`), which is refused
when the AC has changed and then only logged. The history variable `unpaid` is the
space of volumes that the AC has not been made to pay for. Reconcile and the node
RPCs have locks of their own, so an RPC may come between the read, the work and the
write of Reconcile; a user may delete the object of a volume in any status
(`DeleteVolumeObject`). A volume and its drive are healthy; there is one request per
volume at a time, as the provisioner and the resizer see to.

**`NodeVolume`.** `disk` is what is on the device: its table, partition 1 with its
UUID, and signatures, each with the volume it belongs to. `op` is the Reconcile
under way and `call` the call of the node service under way; each holds a lock of
its own and a copy of the `Volume`, whose write is refused when the object has
changed since. Each command of `PrepareVolume`, `ReleaseVolume` and the four RPCs is
a step that may fail, and the process may die after any. The answer of an RPC and
what kubelet does next are part of the model, because the status the code leaves
behind is only good or bad with respect to that. Modes are RAW, RAWPART and FS; a
file system's fake is a tmpfs, a block volume's a loop device. A target path may
carry several mounts: `MountFakeTmpfs` does not look whether something is mounted
there, so a repeated call lays a tmpfs on top, and an unmount takes one away. What a
pod writes is the table it may write on its raw device.

**`DriveReplacement`.** One drive. The drive controller (`dc`) works on a copy of
the Drive: first what it does to volumes and LEDs and decides, then `UpdateCR`.
Discovery (`disc`) writes the Drive, then the group and the volumes. A volume's
reconciliation (`nr`) writes the Volume, then the Drive. `Abstract` substitutes the
usage of the Drive, the set of volumes whose usage is not RELEASED, those that
applications may still use, and the verdict `dc` has reached and not written; the
property `ImplementsLifecycle` is that specification. The decision counts from the
moment it is taken: between it and the update an application may stage a volume
again.

**`Discovery`.** A drive in reality (`hw`), as an object (`cr`), as an AC (`ac`,
`label`); the group of the system drive (`lvg`); the capacity controller's copy
(`cap`); the pod and the monitor's view of it (`pod`, `mon`, `upd`). The CSI controller
takes space from the AC of the group and gives it back, by deletions and by expansions
that fail, whatever the group's health (`taken`, `given`). Time is counted in polls of
the monitor, up to the largest timeout (`quiet`); `watch` also counts, since the pod
was last seen ready, the polls that could not be made and the restarts.

**`StorageGroups`.** A reconciliation (`run`) reads, makes the list of its updates
(`GroupPlan`, `LabelPlan`), and does them one by one; anybody else's write to one
of the objects makes the update fail. The others, CreateVolume, DeleteVolume,
discovery, the capacity controller, the monitor, the drive controller, users, are
there as far as they write these objects.

**`NodeIds`.** Nodes have a name and an IP address that may change hands; `toBM`
and `toK8s` are the controller's cache, lost at a restart; a UUID is one of `Id`
that nobody has used. Whether the feature "external annotation" is on is an input
(`external`); `CreateCR` takes a CSIBMNode that is there already for the one it was
to create.

**`Loopback`.** Names are `<<k, base>>`, as only the prefix that recovery adds is
of interest; that the file name of one drive is part of the serial number of another
is given by the constant `Within`. (File names whose ends are characters that
`strings.Trim` with the set ".img" removes, and names that differ in case only, are
left out.) `phase` is the phase of the process; every `dd` and `losetup` that makes
something is a step, and a failing one ends the process, while a failing `losetup -d`
or `rm` is only logged, so that any part of the files to be deleted may stay. Recovery
may put a drive into the list twice, which `length` counts. The config file may become
unreadable (`NotYAML`), and `dropped` is the history of what it no longer names. Sizes
are numbers the drives are compared by.

## 3. Runs

Sizes are scaled: a megabyte is 2 (or 1), so that an extent of four of them and
sizes just off a boundary stay small. No run checks for deadlock: when all pods
are placed, all volumes are gone, or no change is left, the system stops.

| Run | Bounds | Shows |
|---|---|---|
| `reservation_pair` | 2 drives of a node, pods with 1 and 2 volumes, sequential flag, 1 fault | exclusive reservations, between pods and in a pod; reserved nodes have capacity for every request; one pod at a time has an LVG class; one Volume per claim; no request released before its Volume |
| `reservation_live` | 1 drive, 2 LVG pods, sequential flag, 1 fault | every request is settled, unless it must wait for others that have its LVG class |
| `placement_race` | 1 drive, 2 pods | *violated*: see section 4 |
| `volume_expand` | 1 volume, 3 faults (API, controller, device, user) | expansion keeps AC, size and LV in line; deletions that are still asked for end, and the group goes |
| `volumes_shared` | 3 volumes, which are alike, on a group with room for 2, 2 faults of any kind | usable volumes have LVs; nothing is removed under a user |
| `drive_replacement` | 1 volume, 1 request, 1 change of the drive, 1 fault | the controllers implement `DriveLifecycle`; a removal begins with consent or when nothing is left |
| `drive_release` | 2 volumes of a group, 1 change of the drive, no fault | a bad drive is removed in the end |
| `discovery` | 1 drive, timeouts of 1 poll (2 for starting pods), 2 changes | the node is declared down not early, and late only by what failed polls and restarts account for; a bad group offers only what was given back to it; exactly what may be used is offered in the end |
| `node_volume` | 2 volumes in 2 pairs of modes, 2 pods, 1 change and 1 fault, `Apart`: the deletion of a `Volume` by a user comes without a fault | prepared before use, wiped unused and entirely; the pod gets its volume |
| `storage_groups` | 2 drives, each of 3 groups, 2 changes | the number per node; labels settle; deleted groups go |
| `node_ids` | 2 nodes, 2 addresses, 3 UUIDs, 3 changes | one CSIBMNode per node; ids agree; a node gets its id |
| `loopback` | 3 named drives, 5 contents of the config (unreadable, with and without a drive, with a generated number, with one serial number within another), 3 changes | stable identities; files behind what is reported; configured data is kept; the config takes effect |

Two pods and two ACs are enough for the reservation protocol to interfere: every
property relates two requests, or a request and an AC; the theorems of section 5
remove the bounds, there and in most of the other modules, for all that is not
liveness. A third volume in `volumes_shared` makes
`VolumeRefs` have more than one entry while one of its volumes is being deleted
and another one created. In `node_volume` the second volume finds what the first
one left; in `drive_release` two answers may be noted in either order; in
`storage_groups` one of two drives is the one too many. Drives in `Discovery` do
not depend on each other, but for the group, which is on one. A change is a step
of the hardware, a user or another controller, a fault an error or a restart; they
are counted because each may come at any step, and a further one meets a state
that differs from one already met by what has been settled since. Where two are
needed to do harm (out and in again, edited and restarted) the bound is two or
more.

**Fairness.** `Reservation`: the work queue gets to every ACR that needs work
(strong fairness, as resends may change the ACR while the worker looks at another),
and a handler that has begun goes on. No fairness for the scheduler, Kubernetes,
faults or new requests. `LVGVolumes`: a request of CreateVolume, DeleteVolume or
ControllerExpandVolume that holds the lock goes on; a deletion that polls every
second does not miss the status for ever (strong fairness of `DeleteCredit`);
Reconcile runs again for every change and after every error. That a request which
has failed or was given up is made again is not assumed, because nothing in the code
sees to it (`controller.go:310`): `DeletionFinishes` is about deletions that are
asked for again. Requests to expand, the user's wish to delete a volume, the node
RPCs and `GiveUp` have no fairness. `DriveReplacement`: controllers and discovery
run; owners answer, and once the drive is being removed stop their pods and delete
their claims, and the user gives his consent to the removal of a RELEASED drive,
which is the procedure of `docs/drive-replacement.md`. `Discovery`: discovery goes
on while the pod is ready, drives are reconciled every `RequeueDriveTime`, the
monitor polls; not pods, hardware or users. `StorageGroups` and `NodeIds`: queues
are first in, first out, so a name that is queued again and again is served (strong
fairness); the controller is under way to its end; nothing is assumed of users.
`NodeVolume`: both locks are given up in time, the kubelet tries a pod again that it
has not started. `Loopback`: the manager goes on.

**What the runs leave out.** `volume_expand` has one volume, one requested size
and no node restart: with more, what is described in section 4 comes up (and after
a node restart an `lvextend` to the size the LV already has may fail, so that the
space is returned although the LV has it). `drive_release` has no fault, because
`handleDriveStatusChange` and `retryDriveUpdate` only log an error and nothing
comes back to it; no deletion before the drive is being removed and no
`action=add`, because both leave a drive RELEASING for good. `LabelsSettle`,
`NodeGetsItsId`, `IdsAgree`, `DeclaredDownInTime`, `CapacityConverges`,
`RequestedIsSettled`, `DeletionFinishes`, `DeletedGroupGoes`, `UsableIsBacked`,
`WipedOnlyUnused`, `StableIdentity` and `NamedDriveKept` name the cases they except
in their comments; each is a place where the code does not come to the state one
would wish, described in section 4 or listed under `hazards` with a note. In
`node_volume` a user's deletion of a `Volume` is not combined with a fault for the
same reason.

## 4. Where code and documents disagree

`placement_race` ends in a violation, and records that reservation does not
guarantee placement: ACs are listed before ACRs; a volume made in between is in
neither list, and its drive is given away again.

The following came up in the same way, as counterexamples of properties that are
therefore not among those of the runs, or only for the instances in which they hold.
They are described so that they are not taken for proved:

- Reserved sizes are added up unaligned and taken aligned
  (`node_capacity.go:124`), and a request for an LVG class is compared with the
  raw size of a drive (`node_capacity.go:157`): a confirmed claim can make the AC
  of its group negative.
- With sequential reservation of LVG classes a pod whose class is held by another
  is put back into the queue (`reservationcontroller.go:124-126`), and nothing makes
  those who wait take turns: it can be requeued for ever while pods that come later
  hold the class one after the other.
- The reserved size of a request is counted once per AC
  (`node_capacity.go:130`), and a pod is rejected although there is room.
- CreateVolume writes the Volume, then the AC, and only logs an error of the second
  write (`volume_operations.go:249-252`): the AC goes on offering the space of the new
  volume. `NoOvercommit` allows this much (`unpaid`) and no more.
- A repeated deletion returns the space of a volume again: DeleteVolume raises the AC
  and then updates the LVG from a copy (`volume_operations.go:464`, `:468`). When
  that update fails, the volume is Removed as before, and the next DeleteVolume
  raises the AC once more. No fault is needed: with three volumes, the update is
  refused because the node has put another one into `VolumeRefs` in between
  (`volumemgr.go:463`), and `NoOvercommit` fails. The test of the function expects the
  AC to be larger by the size of the volume (`volume_operations_test.go:591`). The
  same happens between the deletion of the `Volume` object and the removal of its
  finalizer, when a restarted controller has put the object into its cache again
  (`volume_operations.go:668`).
- A volume that is not in `VolumeRefs` yet loses the AC of its group, which goes
  back to the drive, and the drive is offered again
  (`volume_operations.go:440`); the deletion of that volume then never ends
  (`LostRemoval`). Nor does one whose AC has gone back to the drive while the write
  that should have followed has failed.
- A `Volume` that a user deletes in status Created is Removing in Reconcile's copy
  only (`volumemgr.go:298-300`), and the node service has another lock
  (`node.go:285`): it can be staged and published while its LV or its partition is
  removed, and is then in use without one. `UsableIsBacked`,
  `RemovedOnlyWhenRemoving` and `WipedOnlyUnused` except such volumes; one that
  DeleteVolume gave up has status Removing in the object, and for it they hold.
- A `Volume` that a user deletes when it has Failed loses its finalizer, and its LV
  stays (`volumemgr.go:319`): the group is not removed, because it has an LV. One that
  is Removing when its LVG has gone stays, as the node no longer finds its drive.
- An LVG that failed before it had a physical volume has no Locations; when it is
  deleted, the node's process reads the first of them (`lvgcontroller.go:199`), panics,
  and does so again at every start.
- An expand request that ends just before it sees status RESIZED leaves the
  volume in it: the retry is answered early (`controller.go:443`).
- A request to expand that finds the volume RESIZING takes nothing from the AC,
  but when the expansion fails it returns the difference to its own, larger size
  (`volume_operations.go:636`).
- A volume whose expansion failed, and whose request gave up, can be staged again
  before its size is restored: it is in use with the new size recorded, a smaller LV
  and the annotations of the expansion still on it, and the retry, which looks at the
  size only, is answered as done (`controller.go:443`). `SizeIsReal` is therefore about
  the size in the annotations as long as they are there.
- A failed expansion gives its space back to the AC and then fails to write the old
  size to the Volume (`volume_operations.go:654`): its deletion returns the larger
  size. When the LV was extended and the node restarts before it writes RESIZED, the
  second `lvextend`, to the size the LV has, may fail: the space is given back
  although the LV has it.
- Stage mounts the device and fails to write the status: the volume is Created, and
  the unstage that follows answers that there is nothing to do and leaves the mount
  (`node.go:455`). So it is when the write of a stage is refused because
  DeleteVolume has taken the volume meanwhile: its staging path stays mounted. A pod
  published on a loop device keeps it although the drive is back and the volume is
  no longer marked fake (`node.go:190`).
- `MountFakeTmpfs` (`fs_operations.go:160-181`) does not look whether its target is
  mounted: a call that is repeated stacks one tmpfs on another, or on the real mount,
  and the one unmount of NodeUnpublishVolume leaves what is below.
- A user deletes a `Volume` that pods use, and a fault makes it Failed: its
  finalizer goes (`volumemgr.go:319`) and the next volume is prepared on the drive
  under the mounts of the pods. If a pod of the old, raw volume then writes its own
  partition table, the partition of the new volume is lost while it is in use.
- With two different sizes asked for, a volume may record one that its LV does not
  have: the request for the smaller one gives up after the node has failed to
  extend the LV, and a request for the larger one reads that smaller size as the
  volume's own and restores it when it fails in turn (`volume_operations.go:631`).
- The taint label of a drive, once it is on the AC, is put back by a controller
  that read the drive before it was removed (`capacitycontroller.go:393`).
- What CSI gives back to the AC of a group whose health is bad is offered again:
  deletion looks at the health of the volume only (`volume_operations.go:457-464`), a
  failed expansion at none (`:636-638`). A group that is discovered on a drive that is
  bad already has health GOOD (`volumemgr.go:953`), and is offered as a whole.
- A poll of the monitor that cannot list the pods, and a restart of the monitor, start
  the clock of a node that is not ready anew (`statemonitor.go:169-174`): it is
  declared down later, without a limit if they go on. `DeclaredDownInTime` counts them.
- An external annotation that equals the UUID of a CSIBMNode that is there for another
  node is taken for this node's own: CreateCR answers with success
  (`kubeclient.go:119-121`), and the node is cached with the CSIBMNode of the other one
  (`node/controller.go:350-357`). One that is written after the node has joined is not
  used for it, but read by others (`node/controller.go:552`).
- A drive of the loopback manager that is taken out of the config, or whose config
  cannot be read at a start, gets another serial number: the prefix LOOPBACK is added
  to the name of its file, which is its whole serial number already
  (`loopbackmgr.go:195`). Once the config names it again, it shares the file with the
  drive of the other number, which is taken for a generated one: when the default size
  changes, that one is made anew, and the named drive's file is deleted
  (`loopbackmgr.go:299-315`).
- A file belongs to each drive of the config whose serial number contains the file's
  name (`loopbackmgr.go:177-182`): one file may be several drives, and several files
  the same drive, which is then in the list twice, and the length of the list, not the
  number of drives, is compared with the number the config asks for.
- A drive of the loopback manager that the config marks as removed is reported
  again after a start (`loopbackmgr.go:483`).

## 5. Proofs

`TypeCorrect`, `Exclusive`, `CapacityFound` and `OneLVGAtATime` in
`ReservationProofs` show `TypeOK`, `ReservedExclusively`,
`CapacityFoundOnReservedNodes` and `OneLVGReservationAtATime` for all sets of
nodes, pods, claims and ACs, all sizes and any number of faults. They rest on the
named assumptions of `CapacityMath`, `Planner` and `Reservation`, which only give
the constants their types.

None of the invariants is inductive: between its reads and its update the
controller holds a plan that was made from an older list of ACRs. `ReservationInv`
adds that a fresh copy belongs to an ACR that is still requested
(`FreshIsRequested`), and that its plan agrees with the ACRs of the moment
(`PlanAgrees`): its ACs are disjoint from those of every confirmed request unless
both are of LVG classes, it covers every node it names, and with the sequential
flag nobody else has the class. The argument is that every step but the
controller's own only takes something away from the confirmed requests
(`OtherStepsShrink`), which keeps agreement (`ShrinkPreserves`); that planning
establishes it (`PlanningPreserves`, from `PlanIsExclusive`, `PlanRespectsHolders`
and `PlanCovers` about the planner); and that the update, which only a fresh copy
passes, turns it into the invariants (`UpdatePreserves`).

The same module shows `OneVolumePerClaim` (`OneVolume`) and
`RequestLeavesAfterVolume` (`LeavesAfter`). They need to know that the ACR that
CreateVolume has read still has the same requests when it comes to release one,
although the ACR may have been resent, planned and confirmed again meanwhile.
`VolumeInv` says so (`RequestInHand`), and that a claim that was answered has its
Volume (`AnsweredHasVolume`): an ACR is deleted, by the extender or by the last
release, only when nothing is left in it to lose (`LastRequest`, which counts the
requests of a pod, and so needs the assumption `ClaimsFinite`).

Of the size arithmetic it shows that `AlignSizeByPE` is the least number of extents
that holds a size (`AlignedIsLeast`), that `SubtractLVMMetadataSize` is the greatest
that leaves room for the metadata (`GroupSpaceIsMost`), and hence that the two agree:
an aligned claim is within the space of a new group exactly when it fits on the
drive beside the metadata (`FitsNewGroup`). The planner does not make this
comparison for a group that has yet to be made (section 4, `node_capacity.go:157`).

`LVGVolumesProofs` shows `TypeOK` (`TypeCorrect`), `UsableIsBacked`
(`UsableBacked`), `GroupRemovedUnused` (`GroupUnused`) and the action property
`RemovedOnlyWhenRemoving` (`OnlyWhenRemoving`), for any set of volumes, all sizes
and any number of faults, from `LVGVolumesAssumption`. The work of Reconcile is done
after the read that decided on it, with RPCs and requests in between, so `LVGInv`
says for each volume what the work in hand still relies on: nothing overtakes a
removal, unless a user has deleted the `Volume`, and a creation or an expansion that
was overtaken has left an LV all the same (`NodeOK`); what a request restores is a
status the volume had, with its LV (`VolumeOK`, `RequestOK`); a group that was not
made has volumes that have got nowhere (`NoGroupYet`). When the LVG controller lists
the volumes of a group that is being deleted and finds none, the group is `Closed`:
its AC has nothing to give and every volume is off it, and no step opens it again,
which is why the removal may go on without looking again (`CheckLVsInv`,
`RemoveVGInv`).

`SizeReal` shows `SizeIsReal` under the hypothesis `OneSizeAsked`: all requests to
expand ask for sizes that are one after rounding to extents. The LV is never smaller
than `KnownSize`: the size in the `Volume`, or, as long as the annotations of an
expansion are on it, the size recorded there, also after the expansion has failed
and the volume was staged again. Without the hypothesis the property is false
(section 4); with it, no fault, restart or give-up matters, of the controller or of
the node. `SizeInv` adds to `LVGInv` (`SizeOK`): a Volume with the annotations of an
expansion records the size that was asked for, and in the annotations a smaller one
that its LV has at least; hence a request that asks for more finds none, and never
takes the size of a failed expansion for one to go back to (`ExpandMarkSize`).
Reconcile of an expansion, like that of a removal, is not overtaken, so `RESIZED` is
written only over the size the LV was given (`WorkExpandSize`,
`ReconcileUpdateSize`).

`Accounted` shows `NoOvercommit` for any finite set of volumes, all sizes and any
number of faults, under two hypotheses, `OneSizeAsked` and
`[][PairCompleted]_vars`; without the first, or any of the three parts of the second,
it is false (section 4). The handlers that change the AC change
another object after it, or before it, or the device before the `Volume`. Of the pair
of CreateVolume nothing is assumed: what it fails to take from the AC is `unpaid`, and
part of the bound. Of the others `PairCompleted` says that the second write is not
lost: DeleteVolume that has returned the space goes on
to let the volume go, a failed expansion that has given its space back restores the
size, and an LV that was extended is reported RESIZED. It says nothing of when, nor
of what else happens meanwhile; errors, restarts, give-ups and conflicts at every
other step are allowed, and so are the requests that pile up behind them. What is
left of the argument is `AccountInv`: `Charge` is what the AC has paid for a volume,
by how far its request has got; AC and charges together never exceed the group; and
a charge covers what the volume has (`ChargeCovers`), because an LV is never larger
than its `Volume` says, or said before the expansion under way (`FitOK`), and the
request that waits for the node is the one that paid (`WaitOK`); the AC has what
CreateVolume is about to take, and only one request is (`ChargeOK`). Each action changes
the charge of one volume, and the AC by no more (`AccountStep`). The sum over the
volumes is a fold of the community modules; what the proof needs of it, that it is
a natural number and follows the change of one element, is shown without an
induction theorem: of the sets of volumes for which the recursion is not unique
there would be a smallest (`SmallestSet`, from the well-foundedness of strict
inclusion among finite sets), and it could not be one (`SumsUnique`, `SumsExist`,
`TotalIsSum`).

`NodeVolumeProofs` shows `TypeOK` (`TypeCorrect`), `PreparedBeforeUse` (`Prepared`),
`WipedWhenRemoved` (`Wiped`), `WipedOnlyUnused` (`WipedUnused`) and the action
property `PartitionKept` (`Kept`), for any volumes, pods and modes and any number of
faults and changes, from `NodeVolumeAssumption` and the hypothesis `UserApart`: users
do not both delete Volumes that pods use and let older pods write partition tables,
unless there is but one change. Without it the properties are false; section 4 has
the behaviour. `DriveInv` relates the device to the operation under way
(`ProgressOK`: how far a preparation or a removal has got, command by command), to
the statuses (`ClaimOK`: a volume that is ready stays so until its claim is deleted;
`DeviceOK`), and the pods to what kubelet believes (`PodsOK`: a mount is one kubelet
knows of, and it knows of none when the volume may be removed). `OperationOK` bridges
the time between the read and the write of the `Volume`, for Reconcile and for the call
of the node service apart, as neither excludes the other: `ReconcileOK` and `CallOK`
say which statuses the volume may have got meanwhile, and that otherwise the copy is
stale (`CopyOK`), so that its write is refused. DeleteVolume takes a volume in Created
only, by a write, which makes the copy of any call stale; hence a call that was under
way when a removal began cannot bring the volume back, and a call that begins later
finds it Removing.

`StorageGroupsProofs` shows `TypeOK` (`TypeCorrect`) and `NumberRespected`
(`NumberKept`) for any finite sets of drives and groups, any numbers per node, and
any number of conflicts, failures, restarts, deletions and placements, from the four
assumptions of `StorageGroups`. Labels alone are not inductive: the label of a drive
that was removed from a group is put back from its AC (`findAndAdd...`), so what must
not exceed the number is the set of drives that have the label, have it on the AC, or
are about to get it (`Holders`, `CountOK`). A new member enters this set only in
`AddDrive`, at which time the reconciliation holds a count of all members
(`run.counted`) that no other writer can make too small, since labels of a limited
group are given by nobody else (`LabelsOK`, `ReadOK`). The rest of `SGInv` describes
the updates that are left of a reconciliation (`DriveRunOK`, `GroupRunOK`), because
each may be the last before a failure. After a user has edited a label nothing is
promised.

`NodeIdsProofs` shows `TypeOK` (`TypeCorrect`), `OneCSIBMNodePerNode`
(`OneCSIBMNode`) and `IdsAgree` (`SameIds`) for any nodes, addresses, UUIDs and
changes. `IdsInv` adds that no two CSIBMNodes have the name of the same host
(`OneOwner`), that the cache, though old, never hides the CSIBMNode of a node behind
another one (`CacheOK`), and that what a node, its pods and the controller's hands
hold is the UUID of its own CSIBMNode (`GivenIsOwner`). A CSIBMNode is created only
when every other one has been compared, so that nobody owns the node
(`NobodyOwns`).

`DiscoveryProofs` shows `TypeOK` (`TypeCorrect`), `NotDeclaredDownEarly`
(`DownNotEarly`), `DeclaredDownInTime` (`DownInTime`) and `BadGroupOffersNothingNew`
(`BadGroup`) of `Discovery`, for any drives, all timeouts and protection factors
and any number of changes, resting on `DiscoveryAssumption` alone. Neither bound on
the monitor is inductive: what a status says about the polls that have gone by
depends on when it was entered. `MonitorInv` says that for each status: a pod that
is Unknown or Ready has not been ready for at most one poll more than the clock
shows, and for no longer than the first timeout; an Unready pod has been so at
least since the status changed, and the clock is within the second timeout. A poll
keeps this (`PollStep`, by the cases of `calculatePodStatus` in `PodStatus`, with a
timeout that may be stretched and relaxed between polls, `MultiplierBounds`) as
long as the caps of the two counters leave room for both timeouts
(`CounterBounds`); a failed poll and a restart start over; nothing else touches
the view (`MonitorUnchanged`). The bounds since the last failed poll or restart follow
from it. For those since the pod was last ready `WatchInv` counts: until the first
declaration, each failed poll and each restart accounts for no more polls than the
clock can show (`WatchPoll`, `WatchPostponed`), so that n of them make it n times later
at most. `BadGroupOffersNothingNew` needs that a group not yet discovered has no bad
health (`GroupInv`); the AC is reset when the event of the health is dealt with, and
what comes to it afterwards was given back.

`DriveReplacementProofs` shows `TypeOK` (`TypeCorrect`), `RemovedWithConsent`
(`Consent`) and the refinement, `Spec => Abstract!Lifecycle` (`Implements`), for any
set of volumes on drives and on groups, all answers, requests and numbers of faults;
only the part of `DriveReplacementAssumption` that gives the constants their types is
used. `ReplacementInv` has three parts next to the types. `CopyInv`: while the drive
controller's copy is fresh it is the Drive itself, and when it is about to be written
the reason it was changed for still holds. `VolInv`: a volume annotated as released on
the Drive is released or gone, because the annotation is written after the Volume and
no step takes a release back (`VolumeSteps`). `ConsentInv`: a drive called clean has
no data, and with the annotation of the last volume all volumes are fake attached.
Every step of the drive controller is then a verdict or a step of the lifecycle
(`ControllerRefines`, `DecisionRefines`, `UpdateRefines`), and those of Discover,
Reconcile of volumes, staging, operators and users let volumes go, drop a verdict by
making the copy stale, or move the drive to RELEASING or FAILED (`OthersRefine`).

`LoopbackProofs` shows `TypeOK` (`TypeCorrect`), `StableIdentity` (`Stable`),
`ReportedIsBacked` (`Backed`) and the action property `NamedDriveKept` (`Kept`) for
any contents of the config file, any edits of it and any number of crashes, failing
commands, reboots and clean-ups, from `LoopbackAssumption` alone. What the first and
the last of them except is in the properties: a file whose name is in the serial number
of another drive of a config (`Alone`), and a drive that an edit has taken out of the
config or left unreadable with it (`dropped`); both lose their identity (section 4).
`LoopInv` says that every file, and the file of every drive, was made for a generated
drive or for one that the config names or has named (`FilesOK`, `DevicesOK`); that what
the manager knows of the config is what it says or once said (`ConfigOK`); and what
each phase leaves to the next (`PhaseOK`), which gives the list its length and the
drives their devices. Recovery keeps the serial number of a file for which nothing is
excepted, by the config (`NamedIdentity`) or with the prefix (`DefaultIdentity`,
`RecoveredIsGood`); a change of the config keeps the serial numbers of the drives
(`OverrideStep`, `ResizeStep`) and adds as many as are missing (`Filled`); and what it
deletes is never the file of a drive that the config has named all the time
(`UpdateStep`).

Only model-checked: everything about liveness (`RequestedIsSettled`,
`DeletionFinishes`, `DeletedGroupGoes`, `DeletedStorageGroupGoes`,
`BadDriveIsRemoved`, `CapacityConverges`, `LabelsSettle`, `PodGetsVolume`,
`NodeGetsItsId`, `DeletedCSIBMNodeGoes`, `ConfigTakesEffect`), out of the prover's
reach. Every other invariant and action property of the runs has its theorem. Where
one is proved under a hypothesis (`OneSizeAsked`, `PairCompleted`, `UserApart`), the
property fails without it and section 4 has the behaviour.

## 6. Not modelled, and the plan

Not modelled because it has no state of its own or is I/O: identity service,
mount options, patcher and plugin of the scheduler, the base and iDRAC drive
managers, SMART and WBT helpers, events, metrics, logging, parsing of the output
of Linux commands, generated code.

Abstracted inside modelled parts: in `Discovery` the operational status of volumes
(it follows the drive's), the taint label of a group's AC, and the reactivation of
LVM groups; in `NodeVolume` write-back throttling and ephemeral volumes; in
`DriveReplacement` SUSPECT is BAD, as the code treats them alike but for events.
The components are composed where they share state that both change; a volume's
way from `Reservation` to `LVGVolumes` and `NodeVolume` is not one model, it would
be out of TLC's reach, and each side takes the other as one step of what it does
to the shared objects.

Next, in this order:

1. The steps of liveness that are not liveness: bounds such as those of `DownInTime`
   for the retries of the other controllers.
2. LVG objects left over by failed conversions, over several drives.
