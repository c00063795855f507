-------------------------- MODULE NodeVolumeProofs --------------------------
(* Proofs about module NodeVolume, for any volumes, pods and modes, and any *)
(* number of changes and faults.                                            *)
EXTENDS NodeVolume, TLAPS

-----------------------------------------------------------------------------
(* Types                                                                   *)

LEMMA ConstantTypes ==
  /\ Absent \in VolumeState /\ Absent.status = "none" /\ ~Absent.del /\ ~Absent.loop
  /\ Idle \in Operation /\ Idle.kind = "idle" /\ Idle.v = None
BY DEF Absent, Idle, VolumeState, Status, Operation

\* A change or a fault is counted; user deletions are among the changes.
LEMMA SpentStep ==
  ASSUME TypeOK, UNCHANGED spent \/ Fault \/ (\E c \in Changes : Change(c))
  PROVE  /\ spent' \in [change : 0..MaxChanges, fault : 0..MaxFaults]
         /\ NoneDeleted' => NoneDeleted
<1>1. spent \in [change : 0..MaxChanges, fault : 0..MaxFaults]
  BY DEF TypeOK
<1>2. CASE UNCHANGED spent
  BY <1>1, <1>2 DEF NoneDeleted
<1>3. CASE Fault
  <2>1. spent.fault + 1 \in 0..MaxFaults /\ spent' = [spent EXCEPT !.fault = spent.fault + 1]
    BY <1>1, <1>3, NodeVolumeAssumption DEF Fault
  <2>2. spent' \in [change : 0..MaxChanges, fault : 0..MaxFaults]
        /\ spent'.change = spent.change
    BY <1>1, <2>1
  <2> QED
    BY <2>2 DEF NoneDeleted
<1>4. CASE \E c \in Changes : Change(c)
  <2>1. PICK fault \in 0..MaxFaults :
          spent.change + 1 \in 0..MaxChanges
          /\ spent' = [change |-> spent.change + 1, fault |-> fault]
    BY <1>1, <1>4, NodeVolumeAssumption DEF Change
  <2>2. spent' \in [change : 0..MaxChanges, fault : 0..MaxFaults]
        /\ spent'.change = spent.change + 1 /\ spent.change \in Nat
    BY <1>1, <2>1, NodeVolumeAssumption
  <2> QED
    BY <2>2 DEF NoneDeleted
<1> QED
  BY <1>2, <1>3, <1>4

\* A copy of a Volume with another status.
LEMMA WithStatus ==
  ASSUME NEW cr \in VolumeState, NEW status \in Status
  PROVE  LET new == [cr EXCEPT !.status = status]
         IN  /\ new \in VolumeState /\ new.status = status
             /\ new.del = cr.del /\ new.loop = cr.loop
BY DEF VolumeState

\* Reconcile goes on.
LEMMA GoOnType ==
  ASSUME TypeOK,
         NEW at \in {"mkpart", "name", "fs", "rmpart", "wipedev", "failed", "write"},
         op' = [op EXCEPT !.at = at]
  PROVE  /\ op' \in Operation /\ (op'.v = None <=> op'.kind = "idle")
         /\ op'.kind = op.kind /\ op'.at = at /\ op'.v = op.v /\ op'.p = op.p
         /\ op'.cr = op.cr /\ op'.ok = op.ok /\ op'.stale = op.stale
BY DEF TypeOK, Operation

LEMMA FailingType ==
  ASSUME TypeOK, op' = Failing
  PROVE  /\ op' \in Operation /\ (op'.v = None <=> op'.kind = "idle")
         /\ op'.kind = op.kind /\ op'.at = "write" /\ op'.v = op.v /\ op'.p = op.p
         /\ op'.cr.status = "Failed" /\ op'.cr.del = op.cr.del
         /\ op'.cr.loop = op.cr.loop /\ op'.ok = op.ok /\ op'.stale = op.stale
<1> DEFINE new == [op.cr EXCEPT !.status = "Failed"]
<1>1. op \in Operation /\ op.cr \in VolumeState
  BY DEF TypeOK, Operation
<1>2. "Failed" \in Status
  BY DEF Status
<1>3. new \in VolumeState /\ new.status = "Failed" /\ new.del = op.cr.del
      /\ new.loop = op.cr.loop
  BY <1>1, <1>2, WithStatus
<1>4. op' = [op EXCEPT !.at = "write", !.cr = new]
  BY <1>1 DEF Failing, Operation, VolumeState
<1> HIDE DEF new
<1> QED
  BY <1>1, <1>3, <1>4 DEF TypeOK, Operation

\* What is under way has a stale copy from now on, or not.
LEMMA StaleType ==
  ASSUME NEW o \in Operation, NEW n \in {o, [o EXCEPT !.stale = TRUE]}
  PROVE  /\ n \in Operation
         /\ n.kind = o.kind /\ n.at = o.at /\ n.v = o.v /\ n.p = o.p
         /\ n.cr = o.cr /\ n.ok = o.ok /\ (o.stale => n.stale)
BY DEF Operation

\* The object of a volume is written over what is under way.
LEMMA OvertakenType ==
  ASSUME NEW o \in Operation, NEW v \in Volume, NEW cr
  PROVE  LET n == Overtaken(o, v, cr)
         IN  /\ n \in {o, [o EXCEPT !.stale = TRUE]}
             /\ n \in Operation
             /\ n.kind = o.kind /\ n.at = o.at /\ n.v = o.v /\ n.p = o.p
             /\ n.cr = o.cr /\ n.ok = o.ok /\ (o.stale => n.stale)
             /\ o.v # v => n = o
             /\ o.v = v /\ cr # vol[v] => n.stale
             /\ cr = vol[v] => n = o
<1>1. CASE o.v = v /\ cr # vol[v]
  <2>1. Overtaken(o, v, cr) = [o EXCEPT !.stale = TRUE]
    BY <1>1 DEF Overtaken
  <2>2. [o EXCEPT !.stale = TRUE].stale = TRUE
    BY DEF Operation
  <2> QED
    BY <1>1, <2>1, <2>2, StaleType
<1>2. CASE ~(o.v = v /\ cr # vol[v])
  <2>1. Overtaken(o, v, cr) = o
    BY <1>2 DEF Overtaken
  <2> QED
    BY <1>2, <2>1
<1> QED
  BY <1>1, <1>2

-----------------------------------------------------------------------------
(* What a step leaves alone                                                *)

\* the part of DriveInv that is not about what is under way
World == OneAtATime /\ ClaimOK /\ DeviceOK /\ PodsOK

LEMMA InitInv == UserApart /\ Init => DriveInv
<1> SUFFICES ASSUME UserApart, Init PROVE DriveInv
  OBVIOUS
<1>1. TypeOK
  <2>1. disk \in Device /\ drive \in DriveState /\ kub \in Kubelet
    BY DEF Init, Device, DriveState, Kubelet, Known
  <2>2. vol \in [Volume -> VolumeState] /\ (\A v \in Volume : vol[v].loop => mode[v] # "FS")
    BY ConstantTypes DEF Init
  <2>3. spent \in [change : 0..MaxChanges, fault : 0..MaxFaults]
    BY NodeVolumeAssumption DEF Init
  <2>4. stg \in Staging /\ tgt \in [Pod -> Target]
    BY DEF Init, Staging, Target
  <2> QED
    BY <2>1, <2>2, <2>3, <2>4, ConstantTypes DEF Init, TypeOK
<1>2. \A v \in Volume : vol[v] = Absent
  BY DEF Init
<1>3. OneAtATime /\ ClaimOK /\ DeviceOK
  BY <1>2, ConstantTypes, NodeVolumeAssumption DEF Init, OneAtATime, ClaimOK, DeviceOK
<1>4. PodsOK
  BY <1>2, ConstantTypes DEF Init, PodsOK, Unpublished
<1>5. OperationOK /\ DeviceProgress /\ CallReady
  BY ConstantTypes
  DEF Init, OperationOK, CopyOK, ReconcileOK, CallOK, DeviceProgress, CallReady
<1> QED
  BY <1>1, <1>3, <1>4, <1>5 DEF DriveInv

\* Volumes, device, claim and what is published stay.
LEMMA WorldStep ==
  ASSUME DriveInv, UNCHANGED <<mode, vol, claim>>, left \subseteq left',
         disk'.part = disk.part, disk'.fs = disk.fs, disk'.table = disk.table,
         NotInUse => Unpublished', claim # "bound" => want' \subseteq want,
         NoneDeleted' => NoneDeleted
  PROVE  World'
<1>1. OneAtATime' /\ DeviceOK'
  BY DEF DriveInv, OneAtATime, DeviceOK, Blank
<1>2. ClaimOK'
  BY DEF DriveInv, ClaimOK, Ready
<1>3. PodsOK'
  BY DEF DriveInv, PodsOK, NotInUse
<1> QED
  BY <1>1, <1>2, <1>3 DEF World

\* Neither the volumes nor what is under way, nor what is on the device.
LEMMA QuietStep ==
  ASSUME DriveInv, TypeOK', UNCHANGED <<mode, vol, op, call, claim, left>>,
         disk'.part = disk.part, disk'.fs = disk.fs, disk'.table = disk.table,
         kub'.pub = kub.pub, claim # "bound" => want' \subseteq want,
         NoneDeleted' => NoneDeleted
  PROVE  DriveInv'
<1>1. NotInUse => Unpublished'
  BY DEF DriveInv, PodsOK, Unpublished
<1>2. World'
  BY <1>1, WorldStep
<1>3. OperationOK'
  BY DEF DriveInv, OperationOK, CopyOK, ReconcileOK, CallOK, Unpublished, NoneDeleted
<1>4. DeviceProgress' /\ CallReady'
  BY DEF DriveInv, DeviceProgress, CallReady, Ready, Blank
<1> QED
  BY <1>2, <1>3, <1>4 DEF DriveInv, UserApart, World

\* Reconcile begins, or ends without a write.
LEMMA ReconcileStep ==
  ASSUME DriveInv, TypeOK', UNCHANGED <<mode, disk, vol, call, claim, want, kub>>,
         left \subseteq left', CopyOK(op)', ReconcileOK', DeviceProgress',
         NoneDeleted' => NoneDeleted
  PROVE  DriveInv'
<1>1. NotInUse => Unpublished'
  BY DEF DriveInv, PodsOK, Unpublished
<1>2. World'
  BY <1>1, WorldStep
<1>3. CopyOK(call)' /\ CallOK' /\ CallReady'
  BY DEF DriveInv, OperationOK, CopyOK, CallOK, CallReady, Unpublished, NoneDeleted, Ready
<1>4. OperationOK'
  BY <1>3 DEF OperationOK, CopyOK
<1> QED
  BY <1>2, <1>3, <1>4 DEF DriveInv, UserApart, World

LEMMA IdleReconcile == op' = Idle => ReconcileOK' /\ CopyOK(op)' /\ DeviceProgress'
BY ConstantTypes DEF ReconcileOK, CopyOK, DeviceProgress

\* A call begins, goes on, or ends without a write.
LEMMA CallStep ==
  ASSUME DriveInv, TypeOK', UNCHANGED <<mode, disk, vol, op, claim, want, left>>,
         CopyOK(call)', CallOK', CallReady', NotInUse => Unpublished',
         NoneDeleted' => NoneDeleted
  PROVE  DriveInv'
<1>1. World'
  BY WorldStep
<1>2. CopyOK(op)' /\ ReconcileOK' /\ DeviceProgress'
  BY DEF DriveInv, OperationOK, CopyOK, ReconcileOK, DeviceProgress, Ready, Blank
<1>3. OperationOK'
  BY <1>2 DEF OperationOK, CopyOK
<1> QED
  BY <1>1, <1>2, <1>3 DEF DriveInv, UserApart, World

LEMMA IdleCall == call' = Idle => CallOK' /\ CopyOK(call)' /\ CallReady'
BY ConstantTypes DEF CallOK, CopyOK, CallReady

\* While Reconcile works on the device no call has a copy it might write over a
\* volume that nobody deleted.
LEMMA CallsApart ==
  ASSUME DriveInv, op.kind \in {"prepare", "remove"}, call.kind # "idle"
  PROVE  call.stale \/ call.cr.del
<1> USE DEF DriveInv
<1>1. op.v \in Volume /\ Shared \in Volume
  BY NodeVolumeAssumption DEF TypeOK, Operation
<1>2. /\ call.kind \in {"stage", "publish", "unpublish", "unstage"}
      /\ claim # "pending" /\ call.v = Shared
      /\ ~call.stale => call.cr.del = vol[Shared].del
  BY DEF TypeOK, Operation, OperationOK, CallOK, CopyOK
<1>3. CASE op.v # Shared
  <2>1. vol[Shared].status = "none"
    BY <1>1, <1>3 DEF OperationOK, ReconcileOK, OneAtATime
  <2> QED
    BY <1>2, <2>1 DEF OperationOK, CallOK
<1>4. CASE op.v = Shared
  <2>1. op.kind = "remove"
    BY <1>2, <1>4 DEF OperationOK, ReconcileOK, ClaimOK
  <2>2. CASE vol[Shared].status = "Removing"
    BY <1>2, <2>2 DEF OperationOK, CallOK
  <2>3. CASE vol[Shared].del
    BY <1>2, <2>3
  <2> QED
    BY <1>4, <2>1, <2>2, <2>3 DEF OperationOK, ReconcileOK
<1> QED
  BY <1>3, <1>4

\* Reconcile goes on on the device: the volume it is about is the only one.
LEMMA GoOnStep ==
  ASSUME DriveInv, TypeOK', op.kind \in {"prepare", "remove"},
         op'.kind = op.kind, op'.v = op.v, op'.stale = op.stale,
         op'.cr.loop = op.cr.loop, op'.cr.del = op.cr.del,
         op'.cr.status \in {op.cr.status, "Failed"},
         UNCHANGED <<mode, vol, call, claim, left, kub, want>>,
         disk'.part \in {disk.part, None, op.v},
         disk'.part = op.v => mode[op.v] # "RAW",
         DeviceProgress', NoneDeleted' => NoneDeleted
  PROVE  DriveInv'
<1> USE DEF DriveInv
<1>1. op.v \in Volume
  BY DEF TypeOK, Operation
<1>2. vol[op.v].status \notin {"none", "Removed"}
      /\ (vol[op.v].status \in {"Creating", "Removing"} \/ vol[op.v].del)
  BY DEF OperationOK, ReconcileOK
<1>3. \A v \in Volume \ {op.v} : vol[v].status = "none"
  BY <1>1, <1>2 DEF OneAtATime
<1>4. OneAtATime'
  BY <1>1, <1>2, NodeVolumeAssumption DEF OneAtATime
<1>5. ClaimOK'
  BY <1>1, <1>2, <1>3 DEF ClaimOK
<1>6. DeviceOK'
  BY <1>1, <1>2, <1>3, NodeVolumeAssumption DEF DeviceOK
<1>7. PodsOK'
  BY DEF PodsOK, NotInUse, Unpublished
<1>8. CopyOK(op)' /\ ReconcileOK'
  BY DEF OperationOK, CopyOK, ReconcileOK
<1>9. CopyOK(call)' /\ CallOK'
  BY DEF OperationOK, CopyOK, CallOK, Unpublished, NoneDeleted
<1>10. OperationOK'
  BY <1>8, <1>9 DEF OperationOK, CopyOK
<1>11. CallReady'
  BY CallsApart DEF CallReady
<1> QED
  BY <1>4, <1>5, <1>6, <1>7, <1>10, <1>11 DEF UserApart

\* A copy that is not stale is written over the Volume it was taken from.
LEMMA WriteStep ==
  ASSUME DriveInv, NEW v \in Volume, NEW cr \in VolumeState, vol' = [vol EXCEPT ![v] = cr],
         UNCHANGED <<mode, disk, claim, want, left>>,
         cr.loop => mode[v] # "FS", cr.del = vol[v].del,
         vol[v].status \notin {"none", "Removed"},
         cr.status \notin {"none", "Creating", "Removing"},
         ~cr.del /\ (\/ cr.status \in {"Created", "VolumeReady", "Published"}
                     \/ cr.status = "Failed" /\ v = Shared /\ claim = "bound") => Ready(v),
         cr.status \in {"VolumeReady", "Published"} => claim # "pending",
         cr.status = "Removed" /\ v \notin left => Blank,
         NotInUse' => Unpublished', NoneDeleted' => NoneDeleted
  PROVE  /\ vol' \in [Volume -> VolumeState]
         /\ \A w \in Volume : vol'[w].loop => mode[w] # "FS"
         /\ vol'[v] = cr /\ \A w \in Volume \ {v} : vol'[w] = vol[w]
         /\ World'
<1> USE DEF DriveInv
<1>1. vol \in [Volume -> VolumeState]
  BY DEF TypeOK
<1>2. /\ vol' \in [Volume -> VolumeState] /\ vol'[v] = cr
      /\ \A w \in Volume \ {v} : vol'[w] = vol[w]
  BY <1>1
<1>3. \A w \in Volume : vol'[w].loop => mode[w] # "FS"
  BY <1>2 DEF TypeOK
<1>4. OneAtATime'
  BY <1>2 DEF OneAtATime
<1>5. ClaimOK'
  BY <1>2 DEF ClaimOK, Ready
<1>6. DeviceOK'
  BY <1>2 DEF DeviceOK, Blank
<1>7. NoneDeleted' => \A w \in Volume : vol'[w].del => vol'[w].status = "Removed"
  BY <1>2 DEF PodsOK
<1>8. PodsOK'
  BY <1>7 DEF PodsOK
<1> QED
  BY <1>2, <1>3, <1>4, <1>5, <1>6, <1>8 DEF World

\* Nothing happens to the shared volume under the call.
LEMMA CallKept ==
  ASSUME DriveInv, call' = call, vol'[Shared] = vol[Shared],
         UNCHANGED <<mode, disk, claim>>, Unpublished => Unpublished',
         NoneDeleted' => NoneDeleted
  PROVE  CopyOK(call)' /\ CallOK' /\ CallReady'
<1> USE DEF DriveInv
<1>1. call.kind # "idle" => call.v = Shared
  BY DEF OperationOK, CallOK
<1>2. CopyOK(call)'
  BY <1>1 DEF OperationOK, CopyOK
<1>3. CallOK'
  BY <1>1 DEF OperationOK, CallOK, NoneDeleted
<1>4. CallReady'
  BY DEF CallReady, Ready
<1> QED
  BY <1>2, <1>3, <1>4

-----------------------------------------------------------------------------
(* Reconcile                                                               *)

LEMMA PrepareVolumeInv ==
  ASSUME DriveInv, NEW v \in Volume, PrepareVolume(v)
  PROVE  DriveInv'
<1> USE DEF DriveInv
<1> DEFINE at == IF mode[v] = "RAW" THEN "write" ELSE "part"
           cr == [vol[v] EXCEPT !.status = "Created"]
<1>1. /\ op = Idle /\ vol[v].status = "Creating" /\ ~vol[v].del
      /\ op' = Begun("prepare", at, v, None, cr, TRUE)
      /\ UNCHANGED <<disk, drive, vol, call, spent, stg, tgt, want, kub, mode, loops,
                     claim, left, gone>>
  BY DEF PrepareVolume, pods, rest
<1>2. vol[v] \in VolumeState /\ "Created" \in Status
  BY DEF TypeOK, Status
<1>3. /\ cr \in VolumeState /\ cr.status = "Created" /\ cr.del = vol[v].del
      /\ cr.loop = vol[v].loop
  BY <1>2, WithStatus
<1> HIDE DEF cr
<1>4. /\ op' \in Operation /\ (op'.v = None <=> op'.kind = "idle")
      /\ op'.kind = "prepare" /\ op'.at = at /\ op'.v = v /\ op'.cr = cr /\ ~op'.stale
  BY <1>1, <1>3, NodeVolumeAssumption DEF Begun, Operation
<1>5. TypeOK'
  BY <1>1, <1>4 DEF TypeOK
<1>6. CopyOK(op)' /\ ReconcileOK'
  BY <1>1, <1>3, <1>4 DEF CopyOK, ReconcileOK, TypeOK
<1>7. DeviceProgress'
  BY <1>1, <1>4 DEF DeviceProgress, Ready
<1>8. NoneDeleted' => NoneDeleted
  BY <1>1, SpentStep
<1> QED
  BY <1>1, <1>5, <1>6, <1>7, <1>8, ReconcileStep

LEMMA PreparePartitionInv ==
  ASSUME DriveInv, PreparePartition
  PROVE  DriveInv'
<1> USE DEF DriveInv
<1>1. /\ op.kind = "prepare" /\ op.at = "part"
      /\ UNCHANGED <<drive, vol, call, spent, stg, tgt, want, kub, mode, loops, claim,
                     left, gone>>
  BY DEF PreparePartition, Running, pods, rest
<1>2. NoneDeleted' => NoneDeleted
  BY <1>1, SpentStep
<1>3. disk \in Device /\ mode[op.v] # "RAW"
  BY <1>1 DEF TypeOK, DeviceProgress
<1>4. CASE disk.part = op.v /\ op' = [op EXCEPT !.at = "name"] /\ UNCHANGED disk
  <2>1. TypeOK'
    BY <1>1, <1>4, GoOnType DEF TypeOK
  <2>2. DeviceProgress'
    BY <1>1, <1>3, <1>4, GoOnType DEF DeviceProgress
  <2> QED
    BY <1>1, <1>2, <1>3, <1>4, <2>1, <2>2, GoOnType, GoOnStep
<1>5. CASE op' = Failing /\ UNCHANGED disk
  <2>1. TypeOK'
    BY <1>1, <1>5, FailingType DEF TypeOK
  <2>2. DeviceProgress'
    BY <1>1, <1>5, FailingType DEF DeviceProgress
  <2> QED
    BY <1>1, <1>2, <1>3, <1>5, <2>1, <2>2, FailingType, GoOnStep
<1>6. CASE disk.part = None /\ disk' = CreatePartitionTable /\ op' = [op EXCEPT !.at = "mkpart"]
  <2>1. disk' \in Device /\ disk'.part = None
    BY <1>3, <1>6 DEF Device, CreatePartitionTable
  <2>2. TypeOK'
    BY <1>1, <1>6, <2>1, GoOnType DEF TypeOK
  <2>3. DeviceProgress'
    BY <1>1, <1>3, <1>6, <2>1, GoOnType DEF DeviceProgress
  <2> QED
    BY <1>1, <1>2, <1>3, <1>6, <2>1, <2>2, <2>3, GoOnType, GoOnStep
<1> QED
  BY <1>4, <1>5, <1>6 DEF PreparePartition, IsPartitionExists, GetPartitionUUID

LEMMA CreatePartitionInv ==
  ASSUME DriveInv, CreatePartition
  PROVE  DriveInv'
<1> USE DEF DriveInv
<1>1. /\ op.kind = "prepare" /\ op.at = "mkpart"
      /\ disk' = CreatePartitionOf(op.v) /\ op' = [op EXCEPT !.at = "name"]
      /\ UNCHANGED <<drive, vol, call, spent, stg, tgt, want, kub, mode, loops, claim,
                     left, gone>>
  BY DEF CreatePartition, Running, pods, rest
<1>2. op.v \in Volume \cup {None} /\ disk \in Device
  BY DEF TypeOK, Operation
<1>3. disk' \in Device /\ disk'.part = op.v
  BY <1>1, <1>2 DEF Device, CreatePartitionOf
<1>4. mode[op.v] # "RAW" /\ (NoneDeleted' => NoneDeleted)
  BY <1>1, SpentStep DEF DeviceProgress
<1>5. TypeOK'
  BY <1>1, <1>3, GoOnType DEF TypeOK
<1>6. DeviceProgress'
  BY <1>1, <1>3, <1>4, GoOnType DEF DeviceProgress
<1> QED
  BY <1>1, <1>3, <1>4, <1>5, <1>6, GoOnType, GoOnStep

LEMMA PartitionPreparedInv ==
  ASSUME DriveInv, PartitionPrepared
  PROVE  DriveInv'
<1> USE DEF DriveInv
<1> DEFINE at == AfterPartition(op.v)
<1>1. /\ op.kind = "prepare" /\ op.at = "name" /\ op' = [op EXCEPT !.at = at]
      /\ UNCHANGED <<disk, drive, vol, call, spent, stg, tgt, want, kub, mode, loops, claim,
                     left, gone>>
  BY DEF PartitionPrepared, Running, pods, rest
<1>2. at \in {"write", "fs"} /\ (at = "write" => mode[op.v] = "RAWPART")
  BY DEF AfterPartition
<1> HIDE DEF at
<1>3. mode[op.v] # "RAW" /\ disk.part = op.v /\ (NoneDeleted' => NoneDeleted)
  BY <1>1, SpentStep DEF DeviceProgress
<1>4. TypeOK'
  BY <1>1, <1>2, GoOnType DEF TypeOK
<1>5. DeviceProgress'
  BY <1>1, <1>2, <1>3, GoOnType DEF DeviceProgress, Ready
<1> QED
  BY <1>1, <1>2, <1>3, <1>4, <1>5, GoOnType, GoOnStep

LEMMA CreateFSIfNotExistInv ==
  ASSUME DriveInv, CreateFSIfNotExist
  PROVE  DriveInv'
<1> USE DEF DriveInv
<1>1. /\ op.kind = "prepare" /\ op.at = "fs"
      /\ UNCHANGED <<drive, vol, call, spent, stg, tgt, want, kub, mode, loops, claim,
                     left, gone>>
  BY DEF CreateFSIfNotExist, Running, pods, rest
<1>2. /\ op.v \in Volume \cup {None} /\ disk \in Device /\ mode[op.v] # "RAW"
      /\ disk.part = op.v /\ (NoneDeleted' => NoneDeleted)
  BY <1>1, SpentStep DEF TypeOK, Operation, DeviceProgress
<1>3. CASE /\ disk' = IF disk.fs = op.v THEN disk ELSE CreateFS(op.v)
           /\ op' = [op EXCEPT !.at = "write"]
  <2>1. disk' \in Device /\ disk'.part = op.v /\ disk'.fs = op.v
    BY <1>2, <1>3 DEF Device, CreateFS
  <2>2. TypeOK'
    BY <1>1, <1>3, <2>1, GoOnType DEF TypeOK
  <2>3. DeviceProgress'
    BY <1>1, <1>2, <1>3, <2>1, GoOnType DEF DeviceProgress, Ready
  <2> QED
    BY <1>1, <1>2, <1>3, <2>1, <2>2, <2>3, GoOnType, GoOnStep
<1>4. CASE op' = Failing /\ UNCHANGED disk
  <2>1. TypeOK'
    BY <1>1, <1>4, FailingType DEF TypeOK
  <2>2. DeviceProgress'
    BY <1>1, <1>4, FailingType DEF DeviceProgress
  <2> QED
    BY <1>1, <1>2, <1>4, <2>1, <2>2, FailingType, GoOnStep
<1> QED
  BY <1>3, <1>4 DEF CreateFSIfNotExist, GetFSUUID

\* A command that fails leaves the device as the commands before it left it.
LEMMA PrepareFailsInv ==
  ASSUME DriveInv, PrepareFails
  PROVE  DriveInv'
<1> USE DEF DriveInv
<1>1. /\ op.kind = "prepare" /\ op' = Failing /\ (UNCHANGED spent \/ Fault)
      /\ op.at # "write"
      /\ UNCHANGED <<disk, drive, vol, call, stg, tgt, want, kub, mode, loops, claim,
                     left, gone>>
  BY DEF PrepareFails, pods, rest
<1>2. TypeOK'
  BY <1>1, FailingType, SpentStep DEF TypeOK
<1>3. DeviceProgress'
  BY <1>1, FailingType DEF DeviceProgress
<1>4. op.v \in Volume /\ (disk.part = op.v => mode[op.v] # "RAW")
  BY <1>1 DEF TypeOK, Operation, DeviceOK
<1> QED
  BY <1>1, <1>2, <1>3, <1>4, FailingType, SpentStep, GoOnStep

\* What Reconcile writes at its end; a call that works on the same Volume is
\* one of NodeStageVolume then, and its copy becomes stale.
LEMMA ReconcileEndInv ==
  ASSUME DriveInv, PrepareEnd \/ RemoveEnd
  PROVE  DriveInv'
<1> USE DEF DriveInv
<1>1. /\ op.kind \in {"prepare", "remove"} /\ op.at = "write" /\ op' = Idle
      /\ \/ UpdateCR(op) /\ call' = Overtaken(call, op.v, op.cr)
         \/ UpdateCRFails(op) /\ UNCHANGED call
      /\ UNCHANGED <<disk, drive, stg, tgt, want, kub, mode, loops, claim, left, gone>>
  BY DEF PrepareEnd, RemoveEnd, Running, ReconcileWrites, pods, rest
<1>2. /\ spent' \in [change : 0..MaxChanges, fault : 0..MaxFaults]
      /\ NoneDeleted' => NoneDeleted
  BY <1>1, SpentStep DEF UpdateCR, UpdateCRFails
<1>3. op.v \in Volume /\ op.cr \in VolumeState /\ Shared \in Volume
  BY <1>1, NodeVolumeAssumption DEF TypeOK, Operation
<1>4. CASE UpdateCRFails(op) /\ UNCHANGED call
  <2>1. TypeOK'
    BY <1>1, <1>2, <1>4, ConstantTypes DEF UpdateCRFails, TypeOK
  <2> QED
    BY <1>1, <1>2, <1>4, <2>1, IdleReconcile, ReconcileStep DEF UpdateCRFails
<1>5. CASE UpdateCR(op) /\ call' = Overtaken(call, op.v, op.cr)
  <2>1. ~op.stale /\ vol' = [vol EXCEPT ![op.v] = op.cr]
    BY <1>5 DEF UpdateCR
  <2>2. /\ vol[op.v].status \in {"Creating", "Created", "Removing"}
        /\ op.cr.status \in {"Created", "Failed", "Removed"}
        /\ op.cr.del = vol[op.v].del /\ (op.cr.loop => mode[op.v] # "FS")
        /\ op.cr.status # vol[op.v].status
    BY <1>1, <2>1 DEF OperationOK, CopyOK, ReconcileOK
  <2>3. ~op.cr.del /\ (\/ op.cr.status \in {"Created", "VolumeReady", "Published"}
                       \/ op.cr.status = "Failed" /\ op.v = Shared /\ claim = "bound")
          => Ready(op.v)
    BY <1>1 DEF OperationOK, ReconcileOK, DeviceProgress, ClaimOK
  <2>4. op.cr.status = "Removed" /\ op.v \notin left => Blank
    BY <1>1 DEF OperationOK, ReconcileOK, DeviceProgress
  <2>5. NotInUse' => Unpublished'
    <3>1. CASE op.v = Shared
      BY <1>1, <2>2, <3>1 DEF PodsOK, NotInUse, Unpublished
    <3>2. CASE op.v # Shared
      <4>1. vol'[Shared] = vol[Shared]
        BY <1>3, <2>1, <3>2 DEF TypeOK
      <4> QED
        BY <1>1, <1>2, <4>1 DEF PodsOK, NotInUse, Unpublished
    <3> QED
      BY <3>1, <3>2
  <2>6. /\ vol' \in [Volume -> VolumeState]
        /\ \A w \in Volume : vol'[w].loop => mode[w] # "FS"
        /\ vol'[op.v] = op.cr /\ \A w \in Volume \ {op.v} : vol'[w] = vol[w]
        /\ World'
    BY <1>1, <1>2, <1>3, <2>1, <2>2, <2>3, <2>4, <2>5, WriteStep
  <2>7. /\ call' \in Operation
        /\ call'.kind = call.kind /\ call'.at = call.at /\ call'.v = call.v
        /\ call'.p = call.p /\ call'.cr = call.cr
        /\ call.v # op.v => call' = call
        /\ call.v = op.v /\ op.cr # vol[op.v] => call'.stale
    BY <1>3, <1>5, OvertakenType DEF TypeOK
  <2>8. TypeOK'
    BY <1>1, <1>2, <2>6, <2>7, ConstantTypes DEF TypeOK
  <2>9. CopyOK(call)' /\ CallOK' /\ CallReady'
    <3>1. CASE call.v # op.v
      <4>1. CASE op.v = Shared
        BY <2>7, <3>1, <4>1, IdleCall DEF OperationOK, CallOK
      <4>2. CASE op.v # Shared
        BY <1>1, <1>2, <1>3, <2>6, <2>7, <3>1, <4>2, CallKept DEF Unpublished
      <4> QED
        BY <4>1, <4>2
    <3>2. CASE call.v = op.v
      <4>1. call.kind # "idle" /\ call'.stale /\ call.v = Shared
        BY <1>3, <2>2, <2>7, <3>2, NodeVolumeAssumption DEF TypeOK, OperationOK, CallOK
      <4>2. call.kind = "stage"
        <5>1. vol[Shared].status \in {"Created", "Removing"}
          BY <2>2, <3>2, <4>1 DEF OperationOK, CallOK, ClaimOK
        <5>2. call.kind \in {"stage", "unstage", "publish", "unpublish"}
          BY <4>1 DEF TypeOK, Operation
        <5> QED
          BY <5>1, <5>2 DEF OperationOK, CallOK
      <4>3. CopyOK(call)' /\ CallReady'
        BY <1>1, <2>7, <4>1 DEF OperationOK, CopyOK, CallReady
      <4>4. CallOK'
        BY <1>1, <2>7, <4>1, <4>2 DEF OperationOK, CallOK
      <4> QED
        BY <4>3, <4>4
    <3> QED
      BY <3>1, <3>2
  <2>10. CopyOK(op)' /\ ReconcileOK' /\ DeviceProgress'
    BY <1>1, IdleReconcile
  <2>11. OperationOK'
    BY <2>9, <2>10 DEF OperationOK, CopyOK
  <2> QED
    BY <2>6, <2>8, <2>9, <2>10, <2>11 DEF UserApart, World
<1> QED
  BY <1>1, <1>4, <1>5

LEMMA PerformVolumeRemovingInv ==
  ASSUME DriveInv, NEW v \in Volume, PerformVolumeRemoving(v)
  PROVE  DriveInv'
<1> USE DEF DriveInv
<1> DEFINE at == CASE vol[v].missing -> "write"
                   [] ~vol[v].missing /\ SearchPartName(v) -> "wipepart"
                   [] ~vol[v].missing /\ ~SearchPartName(v) /\ WipeDevice -> "wipedev"
                   [] OTHER -> "failed"
           cr == [vol[v] EXCEPT !.status = "Removed"]
<1>1. /\ op = Idle
      /\ vol[v].status = "Removing" \/ (vol[v].status = "Created" /\ vol[v].del)
      /\ loops' = IF vol[v].fake THEN CleanFakeDevice(vol[v], v) ELSE loops
      /\ op' = Begun("remove", at, v, None, cr, TRUE)
      /\ left' = IF vol[v].missing THEN left \cup {v} ELSE left
      /\ UNCHANGED <<disk, drive, vol, call, spent, stg, tgt, want, kub, mode, claim, gone>>
  BY DEF PerformVolumeRemoving, pods
<1>2. /\ at \in {"write", "wipepart", "wipedev", "failed"}
      /\ at = "write" => v \in left'
      /\ at = "wipepart" => disk.part = v
      /\ at = "wipedev" => disk.part = None
  <2>1. CASE vol[v].missing
    BY <1>1, <2>1
  <2>2. CASE ~vol[v].missing /\ SearchPartName(v)
    BY <2>2 DEF SearchPartName, GetPartitionUUID
  <2>3. CASE ~vol[v].missing /\ ~SearchPartName(v) /\ WipeDevice
    BY <2>3 DEF WipeDevice, IsPartitionExists
  <2>4. CASE ~vol[v].missing /\ ~SearchPartName(v) /\ ~WipeDevice
    BY <2>4
  <2> QED
    BY <2>1, <2>2, <2>3, <2>4
<1> HIDE DEF at
<1>3. vol[v] \in VolumeState /\ "Removed" \in Status
  BY DEF TypeOK, Status
<1>4. /\ cr \in VolumeState /\ cr.status = "Removed" /\ cr.del = vol[v].del
      /\ cr.loop = vol[v].loop
  BY <1>3, WithStatus
<1> HIDE DEF cr
<1>5. /\ op' \in Operation /\ (op'.v = None <=> op'.kind = "idle")
      /\ op'.kind = "remove" /\ op'.at = at /\ op'.v = v /\ op'.cr = cr /\ ~op'.stale
  BY <1>1, <1>2, <1>4, NodeVolumeAssumption DEF Begun, Operation
<1>6. /\ left' \subseteq Volume /\ left \subseteq left' /\ loops' \subseteq Volume
      /\ NoneDeleted' => NoneDeleted
  BY <1>1, SpentStep DEF TypeOK, CleanFakeDevice, RemoveLoopDevice
<1>7. TypeOK'
  BY <1>1, <1>5, <1>6 DEF TypeOK
<1>8. CopyOK(op)' /\ ReconcileOK'
  BY <1>1, <1>4, <1>5 DEF CopyOK, ReconcileOK, TypeOK
<1>9. DeviceProgress'
  BY <1>1, <1>2, <1>5 DEF DeviceProgress
<1> QED
  BY <1>1, <1>6, <1>7, <1>8, <1>9, ReconcileStep

LEMMA ReleaseVolumeInv ==
  ASSUME DriveInv, ReleaseVolume
  PROVE  DriveInv'
<1> USE DEF DriveInv
<1>1. /\ op.kind = "remove"
      /\ UNCHANGED <<drive, vol, call, spent, stg, tgt, want, kub, mode, loops, claim,
                     left, gone>>
  BY DEF ReleaseVolume, pods, rest
<1>2. disk \in Device /\ op.v \in Volume /\ (disk.part = op.v => mode[op.v] # "RAW")
  BY <1>1 DEF TypeOK, Operation, DeviceOK
<1>3. PICK at \in {"rmpart", "wipedev", "write"} :
        /\ op' = [op EXCEPT !.at = at]
        /\ at = "rmpart" => op.at = "wipepart" /\ disk' = WipeFS
        /\ at = "wipedev" => op.at = "rmpart" /\ disk' = ReleasePartition
        /\ at = "write" => op.at = "wipedev" /\ disk' = WipeTable
  BY DEF ReleaseVolume
<1>4. /\ disk' \in Device
      /\ at = "rmpart" => disk'.part = op.v
      /\ at = "wipedev" => disk'.part = None
      /\ at = "write" => Blank'
  BY <1>1, <1>2, <1>3
  DEF DeviceProgress, Device, WipeFS, WipeTable, ReleasePartition, DeletePartition,
      IsPartitionExists, Blank
<1>5. TypeOK'
  BY <1>1, <1>3, <1>4, GoOnType DEF TypeOK
<1>6. DeviceProgress'
  BY <1>1, <1>3, <1>4, GoOnType DEF DeviceProgress
<1>7. disk'.part \in {None, op.v} /\ (NoneDeleted' => NoneDeleted)
  BY <1>1, <1>3, <1>4, SpentStep DEF Blank
<1>8. disk'.part = op.v => mode[op.v] # "RAW"
  BY <1>1, <1>2, <1>3, <1>4, NodeVolumeAssumption DEF DeviceProgress, Blank
<1> QED
  BY <1>1, <1>3, <1>5, <1>6, <1>7, <1>8, GoOnType, GoOnStep

LEMMA ReleaseVolumeFailsInv ==
  ASSUME DriveInv, ReleaseVolumeFails
  PROVE  DriveInv'
<1> USE DEF DriveInv
<1>1. /\ op.kind = "remove" /\ op' = [op EXCEPT !.at = "failed"]
      /\ UNCHANGED spent \/ Fault
      /\ UNCHANGED <<disk, drive, vol, call, stg, tgt, want, kub, mode, loops, claim,
                     left, gone>>
  BY DEF ReleaseVolumeFails, pods, rest
<1>2. TypeOK'
  BY <1>1, GoOnType, SpentStep DEF TypeOK
<1>3. DeviceProgress'
  BY <1>1, GoOnType DEF DeviceProgress
<1>4. op.v \in Volume /\ (disk.part = op.v => mode[op.v] # "RAW")
  BY <1>1 DEF TypeOK, Operation, DeviceOK
<1> QED
  BY <1>1, <1>2, <1>3, <1>4, GoOnType, SpentStep, GoOnStep

LEMMA ReleaseFailedInv ==
  ASSUME DriveInv, ReleaseFailed
  PROVE  DriveInv'
<1> USE DEF DriveInv
<1>1. /\ op.kind = "remove" /\ op.at = "failed"
      /\ UNCHANGED <<disk, vol, call, stg, tgt, want, kub, mode, loops, claim, left, gone>>
      /\ UNCHANGED spent \/ Fault
  BY DEF ReleaseFailed, Running, pods, rest
<1>2. drive' \in DriveState
  BY DEF ReleaseFailed, TypeOK, DriveState
<1>3. CASE op' = Failing
  <2>1. TypeOK'
    BY <1>1, <1>2, <1>3, FailingType, SpentStep DEF TypeOK
  <2>2. DeviceProgress'
    BY <1>1, <1>3, FailingType DEF DeviceProgress
  <2>3. op.v \in Volume /\ (disk.part = op.v => mode[op.v] # "RAW")
    BY <1>1 DEF TypeOK, Operation, DeviceOK
  <2> QED
    BY <1>1, <1>3, <2>1, <2>2, <2>3, FailingType, SpentStep, GoOnStep
<1>4. CASE op' = Idle
  <2>1. TypeOK'
    BY <1>1, <1>2, <1>4, ConstantTypes, SpentStep DEF TypeOK
  <2> QED
    BY <1>1, <1>4, <2>1, SpentStep, IdleReconcile, ReconcileStep
<1> QED
  BY <1>3, <1>4 DEF ReleaseFailed

-----------------------------------------------------------------------------
(* The node service                                                        *)

\* A pod that is published has a volume that is in use.
LEMMA PublishedInUse ==
  ASSUME DriveInv, call.kind \in {"publish", "unpublish"}
  PROVE  ~NotInUse
BY DEF DriveInv, OperationOK, CallOK, NotInUse

\* A call writes its copy, and what it leaves for Reconcile: a removal of the same
\* Volume, which a user has deleted then.
LEMMA CallWriteStep ==
  ASSUME DriveInv, call.kind # "idle", call.at = "write", CallWrites,
         UNCHANGED <<mode, disk, claim, want, left>>,
         NotInUse' => Unpublished'
  PROVE  /\ vol' \in [Volume -> VolumeState]
         /\ \A w \in Volume : vol'[w].loop => mode[w] # "FS"
         /\ vol'[Shared] = call.cr /\ UNCHANGED spent
         /\ op' \in Operation /\ (op'.v = None <=> op'.kind = "idle") /\ op'.kind = op.kind
         /\ World' /\ CopyOK(op)' /\ ReconcileOK' /\ DeviceProgress'
<1> USE DEF DriveInv
<1>1. /\ ~call.stale /\ vol' = [vol EXCEPT ![call.v] = call.cr] /\ UNCHANGED spent
      /\ op' = Overtaken(op, call.v, call.cr)
  BY DEF CallWrites, UpdateCR
<1>2. /\ call.v = Shared /\ claim # "pending" /\ Shared \in Volume
      /\ call.cr \in VolumeState
      /\ call.kind \in {"stage", "publish", "unpublish", "unstage"}
  BY NodeVolumeAssumption DEF TypeOK, Operation, OperationOK, CallOK
<1>3. /\ vol[Shared].status \in {"Created", "VolumeReady", "Published", "Failed"}
      /\ call.cr.status \in {"Created", "VolumeReady", "Published", "Failed"}
  BY <1>1, <1>2 DEF OperationOK, CallOK
<1>4. call.cr.del = vol[Shared].del /\ (call.cr.loop => mode[Shared] # "FS")
  BY <1>1, <1>2 DEF OperationOK, CopyOK
<1>5. ~call.cr.del => Ready(Shared)
  BY <1>1 DEF CallReady
<1>6. NoneDeleted' => NoneDeleted
  BY <1>1, SpentStep
<1>7. /\ vol' \in [Volume -> VolumeState]
      /\ \A w \in Volume : vol'[w].loop => mode[w] # "FS"
      /\ vol'[Shared] = call.cr /\ \A w \in Volume \ {Shared} : vol'[w] = vol[w]
      /\ World'
  BY <1>1, <1>2, <1>3, <1>4, <1>5, <1>6, WriteStep
<1>8. /\ op' \in Operation
      /\ op'.kind = op.kind /\ op'.at = op.at /\ op'.v = op.v
      /\ op'.p = op.p /\ op'.cr = op.cr /\ (op.stale => op'.stale)
      /\ op.v # Shared => op' = op
      /\ op.v = Shared /\ call.cr # vol[Shared] => op'.stale
  BY <1>1, <1>2, OvertakenType DEF TypeOK
<1>9. op'.v = None <=> op'.kind = "idle"
  BY <1>8 DEF TypeOK
<1>10. CopyOK(op)' /\ ReconcileOK'
  <2>1. CASE op.kind = "idle"
    <3>1. op' = Idle
      BY <1>2, <1>8, <2>1, ConstantTypes, NodeVolumeAssumption DEF OperationOK, ReconcileOK
    <3> QED
      BY <3>1, ConstantTypes DEF CopyOK, ReconcileOK
  <2>2. CASE op.kind # "idle" /\ op.v # Shared
    <3>1. op' = op /\ op.v \in Volume /\ vol'[op.v] = vol[op.v]
      BY <1>7, <1>8, <2>2 DEF TypeOK, Operation
    <3> QED
      BY <3>1 DEF OperationOK, CopyOK, ReconcileOK
  <2>3. CASE op.kind # "idle" /\ op.v = Shared
    <3>1. op.kind = "remove"
      BY <1>2, <1>3, <2>3 DEF TypeOK, OperationOK, ReconcileOK
    <3>2. vol[Shared].del /\ op.cr.del /\ call.cr.del
      BY <1>3, <1>4, <2>3, <3>1 DEF OperationOK, CopyOK, ReconcileOK
    <3>3. ~op'.stale => ~op.stale /\ vol'[Shared] = vol[Shared]
      BY <1>7, <1>8, <2>3
    <3>4. CopyOK(op)'
      BY <1>7, <1>8, <2>3, <3>2 DEF OperationOK, CopyOK
    <3>5. ReconcileOK'
      BY <1>3, <1>7, <1>8, <2>3, <3>1, <3>2, <3>3 DEF OperationOK, ReconcileOK
    <3> QED
      BY <3>4, <3>5
  <2> QED
    BY <2>1, <2>2, <2>3
<1>11. DeviceProgress'
  BY <1>8 DEF DeviceProgress, Ready, Blank
<1> QED
  BY <1>1, <1>7, <1>8, <1>9, <1>10, <1>11

\* A call ends, with its copy written or not.
LEMMA CallEndStep ==
  ASSUME DriveInv, call.kind # "idle", call' = Idle, kub' \in Kubelet,
         \/ call.at = "write" /\ CallWrites
         \/ UNCHANGED <<vol, op>> /\ (UNCHANGED spent \/ Fault),
         UNCHANGED <<mode, disk, loops, stg, tgt, claim, want, gone, left>>,
         drive' \in DriveState,
         NotInUse' => Unpublished'
  PROVE  DriveInv'
<1> USE DEF DriveInv
<1>1. CASE call.at = "write" /\ CallWrites
  <2>1. /\ vol' \in [Volume -> VolumeState]
        /\ \A w \in Volume : vol'[w].loop => mode[w] # "FS"
        /\ op' \in Operation /\ (op'.v = None <=> op'.kind = "idle") /\ op'.kind = op.kind
        /\ UNCHANGED spent
        /\ World' /\ CopyOK(op)' /\ ReconcileOK' /\ DeviceProgress'
    BY <1>1, CallWriteStep
  <2>2. TypeOK'
    BY <2>1, ConstantTypes DEF TypeOK
  <2>3. CopyOK(call)' /\ CallOK' /\ CallReady'
    BY ConstantTypes DEF CopyOK, CallOK, CallReady
  <2>4. OperationOK'
    BY <2>1, <2>3 DEF OperationOK
  <2> QED
    BY <2>1, <2>2, <2>3, <2>4 DEF World, UserApart
<1>2. CASE UNCHANGED <<vol, op>> /\ (UNCHANGED spent \/ Fault)
  <2>1. /\ spent' \in [change : 0..MaxChanges, fault : 0..MaxFaults]
        /\ NoneDeleted' => NoneDeleted
    BY <1>2, SpentStep
  <2>2. TypeOK'
    BY <1>2, <2>1, ConstantTypes DEF TypeOK
  <2>3. World'
    <3>1. OneAtATime' /\ ClaimOK' /\ DeviceOK'
      BY <1>2 DEF OneAtATime, ClaimOK, DeviceOK, Ready, Blank
    <3>2. PodsOK'
      BY <1>2, <2>1 DEF PodsOK
    <3> QED
      BY <3>1, <3>2 DEF World
  <2>4. CopyOK(op)' /\ ReconcileOK' /\ DeviceProgress'
    BY <1>2 DEF OperationOK, CopyOK, ReconcileOK, DeviceProgress, Ready, Blank
  <2>5. CopyOK(call)' /\ CallOK' /\ CallReady'
    BY ConstantTypes DEF CopyOK, CallOK, CallReady
  <2>6. OperationOK'
    BY <2>4, <2>5 DEF OperationOK
  <2> QED
    BY <2>2, <2>3, <2>4, <2>5, <2>6 DEF World, UserApart
<1> QED
  BY <1>1, <1>2
LEMMA FakeAttachedType ==
  ASSUME NEW cr \in VolumeState, NEW needed \in BOOLEAN
  PROVE  /\ FakeAttached(cr, needed) \in VolumeState
         /\ FakeAttached(cr, needed).del = cr.del
         /\ FakeAttached(cr, needed).loop => cr.loop \/ mode[Shared] # "FS"
<1>1. CASE needed
  <2> DEFINE block == mode[Shared] # "FS"
  <2>1. FakeAttached(cr, needed) = [cr EXCEPT !.fake = TRUE, !.missing = TRUE, !.loop = block]
    BY <1>1 DEF FakeAttached
  <2>2. block \in BOOLEAN
    OBVIOUS
  <2> HIDE DEF block
  <2>3. /\ [cr EXCEPT !.fake = TRUE, !.missing = TRUE, !.loop = block] \in VolumeState
        /\ [cr EXCEPT !.fake = TRUE, !.missing = TRUE, !.loop = block].del = cr.del
        /\ [cr EXCEPT !.fake = TRUE, !.missing = TRUE, !.loop = block].loop = block
    BY <2>2 DEF VolumeState
  <2> QED
    BY <2>1, <2>3 DEF block
<1>2. CASE ~needed
  <2> DEFINE loop == IF cr.fake THEN FALSE ELSE cr.loop
  <2>1. FakeAttached(cr, needed) = [cr EXCEPT !.fake = FALSE, !.loop = loop]
    BY <1>2 DEF FakeAttached
  <2>2. loop \in BOOLEAN /\ (loop => cr.loop)
    BY DEF VolumeState
  <2> HIDE DEF loop
  <2> QED
    BY <2>1, <2>2 DEF VolumeState
<1> QED
  BY <1>1, <1>2

\* The kubelet stages for a pod, and the claim of that pod is bound.
LEMMA NodeStageVolumeInv ==
  ASSUME DriveInv, NEW p \in Pod, NodeStageVolume(p)
  PROVE  DriveInv'
<1> USE DEF DriveInv
<1>1. /\ call = Idle /\ p \in want /\ Stageable(vol[Shared])
      /\ call' = Begun("stage", "mount", Shared, p, vol[Shared], TRUE)
      /\ UNCHANGED <<disk, drive, vol, op, spent, stg, tgt, want, kub, mode, loops,
                     claim, left, gone>>
  BY DEF NodeStageVolume, ToStage, pods, rest
<1>2. /\ Shared \in Volume /\ vol[Shared] \in VolumeState
      /\ vol[Shared].loop => mode[Shared] # "FS"
  BY NodeVolumeAssumption DEF TypeOK
<1>3. /\ call' \in Operation /\ (call'.v = None <=> call'.kind = "idle")
      /\ call'.kind = "stage" /\ call'.at = "mount" /\ call'.v = Shared /\ call'.p = p
      /\ call'.cr = vol[Shared] /\ ~call'.stale
  BY <1>1, <1>2, NodeVolumeAssumption DEF Begun, Operation
<1>4. claim = "bound" /\ vol[Shared].status \in {"Created", "VolumeReady", "Published", "Failed"}
  BY <1>1 DEF ClaimOK, Stageable
<1>5. TypeOK'
  BY <1>1, <1>3 DEF TypeOK
<1>6. CopyOK(call)' /\ CallOK'
  BY <1>1, <1>2, <1>3, <1>4 DEF CopyOK, CallOK
<1>7. CallReady'
  BY <1>1, <1>2, <1>3, <1>4 DEF CallReady, ClaimOK, Ready
<1>8. NotInUse => Unpublished'
  BY <1>1 DEF PodsOK, Unpublished
<1> QED
  BY <1>1, <1>5, <1>6, <1>7, <1>8, SpentStep, CallStep

LEMMA MountType ==
  ASSUME NEW mounted \in Staging, NEW src \in Staging, NEW succeeds
  PROVE  PrepareAndPerformMount(mounted, src, succeeds) \in Staging
BY DEF PrepareAndPerformMount, Mount, Staging

LEMMA StageStep ==
  ASSUME DriveInv, NEW mounted \in BOOLEAN, NEW allowed \in BOOLEAN,
         Stage(mounted, allowed), UNCHANGED spent \/ Fault
  PROVE  DriveInv'
<1> USE DEF DriveInv
<1> DEFINE real == PrepareAndPerformMount(stg, {"real"}, mounted /\ VolumePathFound(Shared))
           isErr == ~VolumePathFound(Shared) \/ ~IsMounted(real)
           needed == (isErr /\ allowed) \/ FakeAttachDR(allowed)
           block == mode[Shared] # "FS"
           answer == ~isErr \/ allowed
           at == IF call.cr.status = "VolumeReady" THEN "end" ELSE "write"
           status == IF answer THEN "VolumeReady" ELSE "Failed"
           attached == FakeAttached(call.cr, needed)
           cr == [attached EXCEPT !.status = status]
<1>1. /\ call \in Operation /\ call.kind = "stage" /\ call.v = Shared /\ call.at = "mount"
      /\ call.cr \in VolumeState /\ Shared \in Volume
      /\ call.cr.loop => block
  BY NodeVolumeAssumption DEF Stage, Calling, TypeOK, Operation, OperationOK, CopyOK, CallOK
<1>2. /\ stg' = PrepareAndPerformMount(real, {"fake"}, needed /\ block)
      /\ loops' = CASE needed /\ block -> CreateFakeDeviceIfNecessary(Shared)
                    [] ~needed /\ block /\ call.cr.fake -> CleanFakeDevice(call.cr, Shared)
                    [] OTHER -> loops
      /\ call' = [call EXCEPT !.at = at, !.cr = cr, !.ok = answer]
      /\ UNCHANGED <<disk, drive, vol, op, tgt, want, kub, mode, claim, left, gone>>
  BY <1>1 DEF Stage, Operation
<1>3. /\ needed \in BOOLEAN /\ answer \in BOOLEAN /\ at \in {"end", "write"}
      /\ status \in Status /\ status \in {"VolumeReady", "Failed"}
  BY DEF Status
<1>4. stg' \in Staging
  <2>1. stg \in Staging /\ {"real"} \in Staging /\ {"fake"} \in Staging
    BY DEF TypeOK, Staging
  <2>2. real \in Staging
    BY <2>1, MountType
  <2> HIDE DEF real, needed, block
  <2> QED
    BY <1>2, <2>1, <2>2, MountType
<1>5. loops' \subseteq Volume
  <2>1. loops \subseteq Volume
    BY DEF TypeOK
  <2> HIDE DEF needed, block
  <2>2. loops' \in {CreateFakeDeviceIfNecessary(Shared), CleanFakeDevice(call.cr, Shared),
                    loops}
    <3>1. CASE needed /\ block
      BY <1>2, <3>1
    <3>2. CASE ~needed /\ block /\ call.cr.fake
      BY <1>2, <3>2
    <3>3. CASE ~(needed /\ block) /\ ~(~needed /\ block /\ call.cr.fake)
      BY <1>2, <3>3
    <3> QED
      BY <3>1, <3>2, <3>3
  <2> QED
    BY <1>1, <2>1, <2>2
    DEF CreateFakeDeviceIfNecessary, CreateFakeDevice, CreateLoopDevice, CleanFakeDevice,
        RemoveLoopDevice
<1> HIDE DEF real, isErr, needed, answer, at, status
<1>6. attached \in VolumeState /\ attached.del = call.cr.del /\ (attached.loop => block)
  BY <1>1, <1>3, FakeAttachedType
<1> HIDE DEF attached
<1>7. /\ cr \in VolumeState /\ cr.status = status /\ cr.del = call.cr.del
      /\ cr.loop => block
  BY <1>3, <1>6, WithStatus
<1> HIDE DEF cr
<1>8. /\ call' \in Operation /\ (call'.v = None <=> call'.kind = "idle")
      /\ call'.kind = "stage" /\ call'.at = at /\ call'.v = Shared /\ call'.p = call.p
      /\ call'.cr = cr /\ call'.stale = call.stale
  BY <1>1, <1>2, <1>3, <1>7, NodeVolumeAssumption DEF Operation
<1>9. /\ spent' \in [change : 0..MaxChanges, fault : 0..MaxFaults]
      /\ NoneDeleted' => NoneDeleted
  BY SpentStep
<1>10. TypeOK'
  BY <1>2, <1>4, <1>5, <1>8, <1>9 DEF TypeOK
<1>11. CopyOK(call)'
  BY <1>1, <1>2, <1>7, <1>8 DEF OperationOK, CopyOK
<1>12. CallOK'
  BY <1>1, <1>2, <1>3, <1>7, <1>8 DEF OperationOK, CallOK
<1>13. CallReady'
  BY <1>1, <1>2, <1>7, <1>8 DEF CallReady, Ready
<1>14. NotInUse => Unpublished'
  BY <1>2 DEF PodsOK, Unpublished
<1> QED
  BY <1>2, <1>9, <1>10, <1>11, <1>12, <1>13, <1>14, CallStep

LEMMA StageInv ==
  ASSUME DriveInv, StageMounts \/ StageMountFails
  PROVE  DriveInv'
BY StageStep, NodeVolumeAssumption DEF StageMounts, StageMountFails

LEMMA StageAbortsInv ==
  ASSUME DriveInv, StageAborts
  PROVE  DriveInv'
<1> USE DEF DriveInv
<1> DEFINE real == PrepareAndPerformMount(stg, {"real"}, VolumePathFound(Shared))
<1>1. /\ Fault /\ call' = Idle
      /\ stg' \in {stg, real}
      /\ loops' \in {loops, CreateFakeDeviceIfNecessary(Shared)}
      /\ kub' = [kub EXCEPT !.staged = "maybe"]
      /\ UNCHANGED <<disk, drive, vol, op, tgt, want, mode, claim, left, gone>>
  BY DEF StageAborts
<1>2. stg \in Staging /\ real \in Staging
  BY MountType DEF TypeOK, Staging
<1> HIDE DEF real
<1>3. stg' \in Staging /\ loops' \subseteq Volume
  BY <1>1, <1>2, NodeVolumeAssumption
  DEF TypeOK, CreateFakeDeviceIfNecessary, CreateFakeDevice, CreateLoopDevice
<1>4. kub' \in Kubelet /\ kub'.pub = kub.pub
  BY <1>1 DEF TypeOK, Kubelet, Known
<1>5. TypeOK'
  BY <1>1, <1>3, <1>4, SpentStep, ConstantTypes DEF TypeOK
<1>6. NotInUse => Unpublished'
  BY <1>4 DEF PodsOK, Unpublished
<1> QED
  BY <1>1, <1>5, <1>6, SpentStep, IdleCall, CallStep

LEMMA StageEndInv ==
  ASSUME DriveInv, StageEnd
  PROVE  DriveInv'
<1> USE DEF DriveInv
<1>1. /\ call.kind = "stage" /\ call' = Idle
      /\ \/ call.at = "write" /\ CallWrites
         \/ UNCHANGED <<vol, op>> /\ (UNCHANGED spent \/ Fault)
      /\ UNCHANGED <<disk, drive, stg, tgt, want, mode, loops, claim, left, gone>>
  BY DEF StageEnd, Calling, CallWriteFails, UpdateCRFails, rest
<1>2. PICK ok \in BOOLEAN : StageAnswer(ok)
  BY DEF StageEnd, TypeOK, Operation
<1>3. call.p \in Pod /\ claim # "pending" /\ kub \in Kubelet
  BY <1>1 DEF TypeOK, OperationOK, CallOK
<1>4. kub' \in Kubelet /\ kub'.pub = kub.pub
  BY <1>2, <1>3 DEF StageAnswer, Kubelet, Known
<1>5. NotInUse' => Unpublished'
  <2>1. CASE UNCHANGED <<vol, op>> /\ (UNCHANGED spent \/ Fault)
    BY <1>1, <1>4, <2>1, SpentStep DEF PodsOK, NotInUse, Unpublished
  <2>2. CASE call.at = "write" /\ CallWrites
    <3>1. vol'[Shared] = call.cr /\ call.cr.status \in {"VolumeReady", "Failed"}
      BY <1>1, <2>2, NodeVolumeAssumption
      DEF CallWrites, UpdateCR, TypeOK, OperationOK, CallOK
    <3> QED
      BY <1>1, <1>3, <3>1 DEF NotInUse
  <2> QED
    BY <1>1, <2>1, <2>2
<1> QED
  BY <1>1, <1>4, <1>5, CallEndStep DEF TypeOK

LEMMA PublishInv ==
  ASSUME DriveInv, NEW p \in Pod, NodePublishVolume(p) \/ NodePublishVolumeMountFails(p)
  PROVE  DriveInv'
<1> USE DEF DriveInv
<1>1. PICK mounted \in BOOLEAN : Publish(p, mounted)
  BY DEF NodePublishVolume, NodePublishVolumeMountFails
<1>2. p \in want /\ (UNCHANGED spent \/ Fault)
  BY DEF NodePublishVolume, NodePublishVolumeMountFails
<1> DEFINE tmpfs == vol[Shared].fake /\ mode[Shared] = "FS"
           staged == PrepareAndPerformMount(tgt[p], stg, mounted)
           target == IF tmpfs THEN MountFakeTmpfs(tgt[p], mounted) ELSE staged
           failed == IF tmpfs THEN ~mounted ELSE ~IsMounted(staged)
           ok == ~failed
           status == IF failed THEN "Failed" ELSE "Published"
           owners == vol[Shared].owners \cup {p}
           cr == [vol[Shared] EXCEPT !.status = status, !.owners = owners]
<1>3. /\ Shared \in Volume /\ vol[Shared] \in VolumeState
      /\ tgt \in [Pod -> Target] /\ stg \in Staging
  BY NodeVolumeAssumption DEF TypeOK
<1>4. /\ vol[Shared].status \in {"VolumeReady", "Published"}
      /\ tgt' = [tgt EXCEPT ![p] = target]
      /\ call' = Begun("publish", "write", Shared, p, cr, ok)
      /\ UNCHANGED <<disk, drive, vol, op, stg, want, kub, mode, loops, claim, left, gone>>
  BY <1>1, <1>3 DEF Publish, VolumeState, rest
<1>5. target \in Target
  <2>1. tgt[p] \in Target
    BY <1>3
  <2> QED
    BY <1>3, <2>1 DEF PrepareAndPerformMount, Mount, MountFakeTmpfs, Staging, Target
<1>6. /\ status \in Status /\ status \in {"Failed", "Published"} /\ owners \subseteq Pod
      /\ ok \in BOOLEAN
  <2>1. status \in {"Failed", "Published"}
    OBVIOUS
  <2>2. owners \subseteq Pod
    BY <1>3 DEF VolumeState
  <2>3. ok \in BOOLEAN
    <3>1. ok = TRUE \/ ok = FALSE
      OBVIOUS
    <3> HIDE DEF ok
    <3> QED
      BY <3>1
  <2> HIDE DEF status, ok
  <2> QED
    BY <2>1, <2>2, <2>3 DEF Status
<1> HIDE DEF target, status, owners, failed, ok
<1>7. /\ cr \in VolumeState /\ cr.status = status /\ cr.del = vol[Shared].del
      /\ cr.loop = vol[Shared].loop
  BY <1>3, <1>6 DEF VolumeState
<1> HIDE DEF cr
<1>8. /\ call' \in Operation /\ (call'.v = None <=> call'.kind = "idle")
      /\ call'.kind = "publish" /\ call'.at = "write" /\ call'.v = Shared /\ call'.p = p
      /\ call'.cr = cr /\ ~call'.stale
  BY <1>3, <1>4, <1>6, <1>7, NodeVolumeAssumption DEF Begun, Operation
<1>9. tgt' \in [Pod -> Target]
  BY <1>3, <1>4, <1>5
<1>10. TypeOK'
  BY <1>2, <1>4, <1>8, <1>9, SpentStep DEF TypeOK
<1>11. claim = "bound" /\ (vol[Shared].loop => mode[Shared] # "FS")
  BY <1>2, <1>3 DEF ClaimOK, TypeOK
<1>12. CopyOK(call)' /\ CallOK'
  BY <1>4, <1>6, <1>7, <1>8, <1>11 DEF CopyOK, CallOK
<1>13. CallReady'
  BY <1>3, <1>4, <1>7, <1>8 DEF CallReady, ClaimOK, Ready
<1>14. NotInUse => Unpublished'
  BY <1>4 DEF PodsOK, Unpublished
<1> QED
  BY <1>2, <1>4, <1>10, <1>12, <1>13, <1>14, SpentStep, CallStep

LEMMA PublishWriteInv ==
  ASSUME DriveInv, PublishWrite
  PROVE  DriveInv'
<1> USE DEF DriveInv
<1>1. /\ call.kind = "publish" /\ call.at = "write"
      /\ UNCHANGED <<disk, drive, stg, tgt, want, kub, mode, loops, claim, left, gone>>
  BY DEF PublishWrite, Calling, pods, rest
<1>2. /\ call' \in Operation /\ (call'.v = None <=> call'.kind = "idle")
      /\ call'.kind = "publish" /\ call'.v = call.v /\ call'.p = call.p
      /\ call'.cr = call.cr /\ call'.stale = call.stale
  BY <1>1 DEF PublishWrite, TypeOK, Operation
<1>3. call.v = Shared /\ claim # "pending"
  BY <1>1 DEF OperationOK, CallOK
<1>4. CASE CallWrites
  <2>1. call.cr.status \in {"VolumeReady", "Published", "Failed"} /\ call.p \in Pod
    BY <1>1 DEF OperationOK, CallOK
  <2>2. vol'[Shared] = call.cr /\ UNCHANGED spent
    BY <1>3, <1>4, NodeVolumeAssumption DEF CallWrites, UpdateCR, TypeOK
  <2>3. ~NotInUse'
    BY <1>1, <1>3, <2>1, <2>2 DEF NotInUse
  <2>4. /\ vol' \in [Volume -> VolumeState]
        /\ \A w \in Volume : vol'[w].loop => mode[w] # "FS"
        /\ op' \in Operation /\ (op'.v = None <=> op'.kind = "idle") /\ op'.kind = op.kind
        /\ World' /\ CopyOK(op)' /\ ReconcileOK' /\ DeviceProgress'
    BY <1>1, <1>4, <2>3, CallWriteStep
  <2>5. TypeOK'
    BY <1>1, <1>2, <2>2, <2>4 DEF TypeOK
  <2>6. CopyOK(call)' /\ CallOK' /\ CallReady'
    BY <1>1, <1>2, <1>3, <2>1, <2>2 DEF OperationOK, CopyOK, CallOK, CallReady, Ready
  <2>7. OperationOK'
    BY <2>4, <2>6 DEF OperationOK
  <2> QED
    BY <2>4, <2>5, <2>6, <2>7 DEF World, UserApart
<1>5. CASE CallWriteFails
  <2>1. UNCHANGED <<vol, op>> /\ (UNCHANGED spent \/ Fault)
    BY <1>5 DEF CallWriteFails, UpdateCRFails
  <2>2. TypeOK'
    BY <1>1, <1>2, <2>1, SpentStep DEF TypeOK
  <2>3. CopyOK(call)' /\ CallReady'
    BY <1>1, <1>2, <2>1 DEF OperationOK, CopyOK, CallReady, Ready
  <2>4. CallOK'
    BY <1>1, <1>2, <2>1, SpentStep DEF OperationOK, CallOK
  <2>5. NotInUse => Unpublished'
    BY <1>1 DEF PodsOK, Unpublished
  <2> QED
    BY <1>1, <2>1, <2>2, <2>3, <2>4, <2>5, SpentStep, CallStep
<1> QED
  BY <1>4, <1>5 DEF PublishWrite

LEMMA AnnotateInv ==
  ASSUME DriveInv, AnnotateIfAllDRVolsFakeAttached
  PROVE  DriveInv'
<1> USE DEF DriveInv
<1>1. /\ call.kind = "publish" /\ call' = Idle /\ (UNCHANGED spent \/ Fault)
      /\ UNCHANGED <<disk, vol, op, stg, tgt, want, mode, loops, claim, left, gone>>
  BY DEF AnnotateIfAllDRVolsFakeAttached, Calling, rest
<1>2. drive' \in DriveState
  BY DEF AnnotateIfAllDRVolsFakeAttached, TypeOK, DriveState
<1>3. PICK ok \in BOOLEAN : PublishAnswer(ok)
  BY DEF AnnotateIfAllDRVolsFakeAttached, TypeOK, Operation
<1>4. call.p \in Pod
  BY <1>1 DEF OperationOK, CallOK
<1>5. kub' \in Kubelet
  <2> DEFINE known == IF ok THEN "yes" ELSE "maybe"
             pub == [kub.pub EXCEPT ![call.p] = known]
             next == kub.next \ {call.p}
  <2>1. kub \in Kubelet /\ kub.pub \in [Pod -> Known] /\ known \in Known
        /\ next \subseteq Pod
    BY DEF TypeOK, Kubelet, Known
  <2>2. kub' = [kub EXCEPT !.pub = pub, !.next = next]
    BY <1>3, <2>1 DEF PublishAnswer, Kubelet
  <2> HIDE DEF known, next
  <2>3. pub \in [Pod -> Known]
    BY <1>4, <2>1
  <2> HIDE DEF pub
  <2> QED
    BY <2>1, <2>2, <2>3 DEF Kubelet
<1>6. ~NotInUse'
  BY <1>1, PublishedInUse, SpentStep DEF NotInUse
<1> QED
  BY <1>1, <1>2, <1>5, <1>6, CallEndStep

LEMMA UnpublishInv ==
  ASSUME DriveInv, NEW p \in Pod, NodeUnpublishVolume(p) \/ NodeUnpublishVolumeFails(p)
  PROVE  DriveInv'
<1> USE DEF DriveInv
<1>1. /\ call = Idle /\ vol[Shared].status \in {"VolumeReady", "Published"}
      /\ UNCHANGED spent \/ Fault
      /\ UNCHANGED <<disk, drive, vol, op, stg, want, kub, mode, loops, claim, left, gone>>
  BY DEF NodeUnpublishVolume, NodeUnpublishVolumeFails, MayUnpublish, pods, rest
<1>2. Shared \in Volume /\ vol[Shared] \in VolumeState /\ tgt \in [Pod -> Target]
  BY NodeVolumeAssumption DEF TypeOK
<1>3. PICK cr \in VolumeState, ok \in BOOLEAN :
        /\ call' = Begun("unpublish", "write", Shared, p, cr, ok)
        /\ cr.status \in {"VolumeReady", "Published", "Failed"}
        /\ cr.del = vol[Shared].del /\ cr.loop = vol[Shared].loop
  <2>1. CASE NodeUnpublishVolume(p)
    <3>1. PICK found \in {want, {}} :
            LET owners == (vol[Shared].owners \ {p}) \cap found
            IN  call' = Begun("unpublish", "write", Shared, p,
                              [vol[Shared] EXCEPT !.owners = owners,
                                 !.status = IF owners = {} THEN "VolumeReady" ELSE @],
                              TRUE)
      BY <2>1 DEF NodeUnpublishVolume
    <3> DEFINE owners == (vol[Shared].owners \ {p}) \cap found
               status == IF owners = {} THEN "VolumeReady" ELSE vol[Shared].status
               cr == [vol[Shared] EXCEPT !.owners = owners, !.status = status]
    <3>2. call' = Begun("unpublish", "write", Shared, p, cr, TRUE)
      BY <1>2, <3>1 DEF VolumeState
    <3>3. /\ owners \subseteq Pod /\ status \in Status
          /\ status \in {"VolumeReady", "Published", "Failed"}
      BY <1>1, <1>2 DEF VolumeState, Status
    <3> HIDE DEF owners, status
    <3>4. /\ cr \in VolumeState /\ cr.status = status /\ cr.del = vol[Shared].del
          /\ cr.loop = vol[Shared].loop
      BY <1>2, <3>3 DEF VolumeState
    <3> HIDE DEF cr
    <3> QED
      BY <3>2, <3>3, <3>4
  <2>2. CASE NodeUnpublishVolumeFails(p)
    <3> DEFINE cr == [vol[Shared] EXCEPT !.status = "Failed"]
    <3>1. call' = Begun("unpublish", "write", Shared, p, cr, FALSE)
      BY <2>2 DEF NodeUnpublishVolumeFails
    <3>2. /\ cr \in VolumeState /\ cr.status = "Failed" /\ cr.del = vol[Shared].del
          /\ cr.loop = vol[Shared].loop
      BY <1>2 DEF VolumeState, Status
    <3> HIDE DEF cr
    <3> QED
      BY <3>1, <3>2
  <2> QED
    BY <2>1, <2>2
<1>4. /\ call' \in Operation /\ (call'.v = None <=> call'.kind = "idle")
      /\ call'.kind = "unpublish" /\ call'.at = "write" /\ call'.v = Shared
      /\ call'.p = p /\ call'.cr = cr /\ ~call'.stale
  BY <1>2, <1>3, NodeVolumeAssumption DEF Begun, Operation
<1>5. tgt' \in [Pod -> Target]
  <2>1. CASE UNCHANGED tgt
    BY <1>2, <2>1
  <2>2. ASSUME NEW below \in UnmountWithCheck(tgt[p]), tgt' = [tgt EXCEPT ![p] = below]
        PROVE  tgt' \in [Pod -> Target]
    <3>1. tgt[p] \in Target
      BY <1>2
    <3>2. below \in Target
      BY <2>2, <3>1 DEF UnmountWithCheck, Unmount, Target
    <3> QED
      BY <1>2, <2>2, <3>2
  <2> QED
    BY <2>1, <2>2 DEF NodeUnpublishVolume, NodeUnpublishVolumeFails, pods
<1>6. TypeOK'
  BY <1>1, <1>4, <1>5, SpentStep DEF TypeOK
<1>7. claim # "pending" /\ (vol[Shared].loop => mode[Shared] # "FS")
  BY <1>1, <1>2 DEF ClaimOK, TypeOK
<1>8. CopyOK(call)' /\ CallOK'
  BY <1>1, <1>3, <1>4, <1>7 DEF CopyOK, CallOK
<1>9. CallReady'
  BY <1>1, <1>2, <1>3, <1>4 DEF CallReady, ClaimOK, Ready
<1>10. NotInUse => Unpublished'
  BY <1>1 DEF PodsOK, Unpublished
<1> QED
  BY <1>1, <1>6, <1>8, <1>9, <1>10, SpentStep, CallStep

LEMMA UnpublishEndInv ==
  ASSUME DriveInv, UnpublishEnd
  PROVE  DriveInv'
<1> USE DEF DriveInv
<1>1. /\ call.kind = "unpublish" /\ call.at = "write" /\ call' = Idle
      /\ CallWrites \/ (UNCHANGED <<vol, op>> /\ (UNCHANGED spent \/ Fault))
      /\ UNCHANGED <<disk, drive, stg, tgt, want, mode, loops, claim, left, gone>>
  BY DEF UnpublishEnd, Calling, CallWriteFails, UpdateCRFails, rest
<1>2. /\ call.p \in Pod /\ claim # "pending" /\ call.v = Shared
      /\ call.cr.status \in {"VolumeReady", "Published", "Failed"}
  BY <1>1 DEF OperationOK, CallOK
<1>3. kub' \in Kubelet
  <2>1. PICK known \in Known : kub' = [kub EXCEPT !.pub[call.p] = known]
    BY DEF UnpublishEnd, Known
  <2>2. kub \in Kubelet /\ kub.pub \in [Pod -> Known]
    BY DEF TypeOK, Kubelet
  <2> DEFINE pub == [kub.pub EXCEPT ![call.p] = known]
  <2>3. kub' = [kub EXCEPT !.pub = pub]
    BY <2>1, <2>2 DEF Kubelet
  <2>4. pub \in [Pod -> Known]
    BY <1>2, <2>2
  <2> HIDE DEF pub
  <2> QED
    BY <2>2, <2>3, <2>4 DEF Kubelet
<1>4. ~NotInUse'
  <2>1. CASE CallWrites
    <3>1. vol'[Shared] = call.cr
      BY <1>2, <2>1, NodeVolumeAssumption DEF CallWrites, UpdateCR, TypeOK
    <3> QED
      BY <1>1, <1>2, <3>1 DEF NotInUse
  <2>2. CASE UNCHANGED <<vol, op>> /\ (UNCHANGED spent \/ Fault)
    BY <1>1, <2>2, PublishedInUse, SpentStep DEF NotInUse
  <2> QED
    BY <1>1, <2>1, <2>2
<1> QED
  BY <1>1, <1>3, <1>4, CallEndStep DEF TypeOK

LEMMA UnstageInv ==
  ASSUME DriveInv, NodeUnstageVolume \/ NodeUnstageVolumeFails
  PROVE  DriveInv'
<1> USE DEF DriveInv
<1>1. PICK unmounted \in BOOLEAN : Unstage(unmounted)
  BY DEF NodeUnstageVolume, NodeUnstageVolumeFails
<1>2. UNCHANGED spent \/ Fault
  BY DEF NodeUnstageVolume, NodeUnstageVolumeFails
<1> DEFINE skip == vol[Shared].fake /\ mode[Shared] = "FS"
           done == skip \/ unmounted
           status == IF done THEN "Created" ELSE "Failed"
           cr == [vol[Shared] EXCEPT !.status = status]
<1>3. /\ call = Idle /\ Unpublished /\ vol[Shared].status = "VolumeReady"
      /\ stg' \in {{}, stg}
      /\ call' = Begun("unstage", "write", Shared, None, cr, done)
      /\ UNCHANGED <<disk, drive, vol, op, tgt, want, kub, mode, loops, claim, left, gone>>
  BY <1>1 DEF Unstage, MayUnstage, Unpublished, rest
<1>4. Shared \in Volume /\ vol[Shared] \in VolumeState
      /\ (vol[Shared].loop => mode[Shared] # "FS")
  BY NodeVolumeAssumption DEF TypeOK
<1>5. stg' \in Staging
  BY <1>3 DEF TypeOK, Staging
<1>6. status \in Status /\ status \in {"Created", "Failed"} /\ done \in BOOLEAN
  BY <1>4 DEF Status, VolumeState
<1> HIDE DEF status, done
<1>7. /\ cr \in VolumeState /\ cr.status = status /\ cr.del = vol[Shared].del
      /\ cr.loop = vol[Shared].loop
  BY <1>4, <1>6, WithStatus
<1> HIDE DEF cr
<1>8. /\ call' \in Operation /\ (call'.v = None <=> call'.kind = "idle")
      /\ call'.kind = "unstage" /\ call'.at = "write" /\ call'.v = Shared
      /\ call'.cr = cr /\ ~call'.stale
  BY <1>3, <1>4, <1>6, <1>7, NodeVolumeAssumption DEF Begun, Operation
<1>9. TypeOK'
  BY <1>2, <1>3, <1>5, <1>8, SpentStep DEF TypeOK
<1>10. claim # "pending"
  BY <1>3 DEF ClaimOK
<1>11. CopyOK(call)' /\ CallOK'
  BY <1>3, <1>4, <1>6, <1>7, <1>8, <1>10 DEF CopyOK, CallOK, Unpublished
<1>12. CallReady'
  BY <1>3, <1>4, <1>7, <1>8 DEF CallReady, ClaimOK, Ready
<1>13. NotInUse => Unpublished'
  BY <1>3 DEF Unpublished
<1> QED
  BY <1>2, <1>3, <1>9, <1>11, <1>12, <1>13, SpentStep, CallStep

LEMMA UnstageEndInv ==
  ASSUME DriveInv, UnstageEnd
  PROVE  DriveInv'
<1> USE DEF DriveInv
<1>1. /\ call.kind = "unstage" /\ call.at = "write" /\ call' = Idle
      /\ CallWrites \/ (UNCHANGED <<vol, op>> /\ (UNCHANGED spent \/ Fault))
      /\ UNCHANGED <<disk, drive, stg, tgt, want, mode, loops, claim, left, gone>>
  BY DEF UnstageEnd, Calling, CallWriteFails, UpdateCRFails, rest
<1>2. kub' \in Kubelet /\ kub'.pub = kub.pub
  BY DEF UnstageEnd, TypeOK, Kubelet, Known
<1>3. Unpublished'
  BY <1>1, <1>2 DEF OperationOK, CallOK, Unpublished
<1> QED
  BY <1>1, <1>2, <1>3, CallEndStep DEF TypeOK

\* The kubelet learns that there is nothing to publish, or to unstage.
LEMMA NothingDoneInv ==
  ASSUME DriveInv, AlreadyUnstaged \/ (\E p \in Pod : NodePublishVolumeRefused(p))
  PROVE  DriveInv'
<1> USE DEF DriveInv
<1>1. UNCHANGED <<disk, drive, vol, op, call, stg, tgt, want, spent, mode, loops, claim,
                  left, gone>>
  BY DEF AlreadyUnstaged, NodePublishVolumeRefused, rest
<1>2. kub' \in Kubelet /\ kub'.pub = kub.pub
  BY DEF AlreadyUnstaged, NodePublishVolumeRefused, TypeOK, Kubelet, Known
<1>3. TypeOK'
  BY <1>1, <1>2 DEF TypeOK
<1> QED
  BY <1>1, <1>2, <1>3, SpentStep, QuietStep

-----------------------------------------------------------------------------
(* The controller and the world                                            *)

\* The Volume is written by somebody else than Reconcile and the node service.
LEMMA PutStep ==
  ASSUME DriveInv, NEW v \in Volume, NEW cr \in VolumeState, Put(v, cr),
         cr.loop => mode[v] # "FS"
  PROVE  /\ vol' \in [Volume -> VolumeState] /\ vol'[v] = cr
         /\ \A w \in Volume \ {v} : vol'[w] = vol[w]
         /\ \A w \in Volume : vol'[w].loop => mode[w] # "FS"
         /\ op' \in {op, [op EXCEPT !.stale = TRUE]}
         /\ op.v = v /\ cr # vol[v] => op'.stale
         /\ op.v # v => op' = op
         /\ call' \in {call, [call EXCEPT !.stale = TRUE]}
         /\ call.v = v /\ cr # vol[v] => call'.stale
         /\ call.v # v => call' = call
<1> USE DEF DriveInv
<1>1. /\ vol \in [Volume -> VolumeState] /\ op \in Operation /\ call \in Operation
      /\ vol' = [vol EXCEPT ![v] = cr]
      /\ op' = Overtaken(op, v, cr) /\ call' = Overtaken(call, v, cr)
  BY DEF TypeOK, Put
<1>2. /\ vol' \in [Volume -> VolumeState] /\ vol'[v] = cr
      /\ \A w \in Volume \ {v} : vol'[w] = vol[w]
  BY <1>1
<1>3. \A w \in Volume : vol'[w].loop => mode[w] # "FS"
  BY <1>2 DEF TypeOK
<1> QED
  BY <1>1, <1>2, <1>3, OvertakenType

\* What is under way keeps everything but, it may be, its fresh copy.
LEMMA UnderWayType ==
  ASSUME TypeOK,
         op' \in {op, [op EXCEPT !.stale = TRUE]},
         call' \in {call, [call EXCEPT !.stale = TRUE]}
  PROVE  /\ op' \in Operation /\ (op'.v = None <=> op'.kind = "idle")
         /\ op'.kind = op.kind /\ op'.at = op.at /\ op'.v = op.v
         /\ op'.cr = op.cr /\ (op.stale => op'.stale)
         /\ call' \in Operation /\ (call'.v = None <=> call'.kind = "idle")
         /\ call'.kind = call.kind /\ call'.at = call.at /\ call'.v = call.v
         /\ call'.p = call.p /\ call'.cr = call.cr /\ (call.stale => call'.stale)
<1>1. /\ op \in Operation /\ (op.v = None <=> op.kind = "idle")
      /\ call \in Operation /\ (call.v = None <=> call.kind = "idle")
  BY DEF TypeOK
<1>2. /\ op' \in Operation /\ op'.kind = op.kind /\ op'.at = op.at /\ op'.v = op.v
      /\ op'.cr = op.cr /\ (op.stale => op'.stale)
  BY <1>1, StaleType
<1>3. /\ call' \in Operation /\ call'.kind = call.kind /\ call'.at = call.at
      /\ call'.v = call.v /\ call'.p = call.p /\ call'.cr = call.cr
      /\ call.stale => call'.stale
  BY <1>1, StaleType
<1> QED
  BY <1>1, <1>2, <1>3

\* The object of a volume goes: without a user's deletion it was removed, and no
\* pod uses it.
LEMMA RemoveFinalizerInv ==
  ASSUME DriveInv, NEW v \in Volume, RemoveFinalizer(v)
  PROVE  DriveInv'
<1> USE DEF DriveInv
<1>1. /\ op = Idle /\ vol[v].del /\ vol[v].status \in {"Removed", "Failed"}
      /\ Put(v, Absent)
      /\ UNCHANGED <<disk, drive, spent, stg, tgt, want, kub, mode, loops, claim,
                     left, gone>>
  BY DEF RemoveFinalizer, pods, rest
<1>2. Absent # vol[v] /\ (NoneDeleted' <=> NoneDeleted)
  BY <1>1, ConstantTypes DEF NoneDeleted
<1>3. /\ vol' \in [Volume -> VolumeState] /\ vol'[v] = Absent
      /\ \A w \in Volume \ {v} : vol'[w] = vol[w]
      /\ \A w \in Volume : vol'[w].loop => mode[w] # "FS"
      /\ op.v # v => op' = op
      /\ op' \in {op, [op EXCEPT !.stale = TRUE]}
      /\ call' \in {call, [call EXCEPT !.stale = TRUE]}
      /\ call.v = v => call'.stale
      /\ call.v # v => call' = call
  BY <1>1, <1>2, ConstantTypes, PutStep
<1>4. op' = Idle
  BY <1>1, <1>3, ConstantTypes, NodeVolumeAssumption
<1>5. TypeOK'
  BY <1>1, <1>3, UnderWayType DEF TypeOK
<1>6. OneAtATime'
  BY <1>1, <1>3, ConstantTypes, NodeVolumeAssumption DEF OneAtATime
<1>7. ClaimOK' /\ DeviceOK'
  BY <1>1, <1>3, ConstantTypes, NodeVolumeAssumption DEF ClaimOK, DeviceOK, Ready, Blank
<1>8. PodsOK'
  <2>1. NotInUse' => NotInUse
    BY <1>1, <1>2, <1>3, ConstantTypes, NodeVolumeAssumption DEF NotInUse, PodsOK
  <2> QED
    BY <1>1, <1>2, <1>3, <2>1, ConstantTypes DEF PodsOK, Unpublished
<1>9. CopyOK(op)' /\ ReconcileOK' /\ DeviceProgress'
  BY <1>4, ConstantTypes DEF CopyOK, ReconcileOK, DeviceProgress
<1>10. CopyOK(call)' /\ CallOK' /\ CallReady'
  <2>1. CASE v # Shared
    <3>1. call' = call /\ vol'[Shared] = vol[Shared]
      BY <1>3, <2>1, NodeVolumeAssumption DEF TypeOK, OperationOK, CallOK
    <3> QED
      BY <1>1, <1>2, <3>1, CallKept DEF Unpublished
  <2>2. CASE v = Shared /\ call.kind = "idle"
    <3>1. call' = Idle
      BY <1>3, <2>2, NodeVolumeAssumption DEF TypeOK, OperationOK, CallOK
    <3> QED
      BY <3>1, ConstantTypes DEF CopyOK, CallOK, CallReady
  <2>3. CASE v = Shared /\ call.kind # "idle"
    <3>1. call.v = Shared /\ call'.stale
      BY <1>3, <2>3 DEF OperationOK, CallOK
    <3>2. call.kind \in {"publish", "unpublish"} => ~NoneDeleted
      BY <1>1, <2>3 DEF OperationOK, CallOK, PodsOK
    <3>3. CopyOK(call)' /\ CallReady'
      BY <1>1, <1>3, <3>1, UnderWayType DEF OperationOK, CopyOK, CallReady
    <3>4. CallOK'
      BY <1>1, <1>2, <1>3, <2>3, <3>1, <3>2, UnderWayType, ConstantTypes
      DEF OperationOK, CallOK
    <3> QED
      BY <3>3, <3>4
  <2> QED
    BY <2>1, <2>2, <2>3
<1>11. OperationOK'
  BY <1>9, <1>10 DEF OperationOK
<1> QED
  BY <1>5, <1>6, <1>7, <1>8, <1>9, <1>10, <1>11 DEF UserApart

LEMMA CreateVolumeInv ==
  ASSUME DriveInv, NEW v \in Volume, CreateVolume(v)
  PROVE  DriveInv'
<1> USE DEF DriveInv
<1> DEFINE cr == [vol[v] EXCEPT !.status = "Creating"]
<1>1. /\ \A w \in Volume : vol[w] = Absent
      /\ v = Shared <=> claim = "pending"
      /\ vol' = [vol EXCEPT ![v] = cr]
      /\ UNCHANGED <<disk, drive, op, call, spent, stg, tgt, want, kub, mode, loops,
                     claim, left, gone>>
  BY DEF CreateVolume, pods, rest, TypeOK
<1>2. /\ cr \in VolumeState /\ cr.status = "Creating" /\ ~cr.del /\ ~cr.loop
  <2>1. vol[v] = Absent /\ "Creating" \in Status
    BY <1>1 DEF Status
  <2> QED
    BY <2>1, ConstantTypes, WithStatus
<1> HIDE DEF cr
<1>3. /\ vol' \in [Volume -> VolumeState] /\ vol'[v] = cr
      /\ \A w \in Volume \ {v} : vol'[w] = Absent
  BY <1>1, <1>2 DEF TypeOK
<1>4. op = Idle
  BY <1>1, ConstantTypes DEF TypeOK, Operation, OperationOK, ReconcileOK
<1>5. TypeOK'
  <2>1. \A w \in Volume : vol'[w].loop => mode[w] # "FS"
    BY <1>2, <1>3, ConstantTypes
  <2> QED
    BY <1>1, <1>3, <2>1 DEF TypeOK
<1>6. OneAtATime'
  BY <1>1, <1>2, <1>3, ConstantTypes, NodeVolumeAssumption DEF OneAtATime
<1>7. ClaimOK'
  BY <1>1, <1>2, <1>3, ConstantTypes, NodeVolumeAssumption DEF ClaimOK
<1>8. DeviceOK'
  BY <1>1, <1>2, <1>3, ConstantTypes DEF DeviceOK
<1>9. NoneDeleted' => NoneDeleted
  BY <1>1, SpentStep
<1>10. PodsOK'
  <2>1. NotInUse' => NotInUse
    BY <1>1, <1>2, <1>3, <1>9, NodeVolumeAssumption DEF NotInUse
  <2> QED
    BY <1>1, <1>2, <1>3, <2>1, ConstantTypes DEF PodsOK, Unpublished
<1>11. CopyOK(op)' /\ ReconcileOK' /\ DeviceProgress'
  BY <1>1, <1>4, ConstantTypes DEF CopyOK, ReconcileOK, DeviceProgress
<1>12. CopyOK(call)' /\ CallOK' /\ CallReady'
  <2>1. CASE v = Shared
    <3>1. call' = Idle
      BY <1>1, <2>1 DEF OperationOK, CallOK
    <3> QED
      BY <3>1, ConstantTypes DEF CopyOK, CallOK, CallReady
  <2>2. CASE v # Shared
    <3>1. vol'[Shared] = vol[Shared]
      BY <1>1, <1>3, <2>2, NodeVolumeAssumption
    <3> QED
      BY <1>1, <1>9, <3>1, CallKept DEF Unpublished
  <2> QED
    BY <2>1, <2>2
<1>13. OperationOK'
  BY <1>11, <1>12 DEF OperationOK
<1> QED
  BY <1>5, <1>6, <1>7, <1>8, <1>10, <1>11, <1>12, <1>13 DEF UserApart

\* The claim of a volume that is Created becomes bound; one without pods is deleted.
LEMMA ClaimInv ==
  ASSUME DriveInv, Bind \/ DeleteClaim
  PROVE  DriveInv'
<1> USE DEF DriveInv
<1>1. /\ \/ claim = "pending" /\ claim' = "bound" /\ vol[Shared].status = "Created"
         \/ claim = "bound" /\ claim' = "deleted" /\ want = {}
      /\ UNCHANGED <<disk, drive, vol, op, call, mode, loops, left, gone, spent, stg, tgt,
                     want, kub>>
  BY DEF Bind, DeleteClaim, pods
<1>2. TypeOK' /\ OneAtATime' /\ DeviceOK'
  BY <1>1 DEF TypeOK, OneAtATime, DeviceOK, Blank
<1>3. ClaimOK'
  BY <1>1 DEF ClaimOK, Ready
<1>4. PodsOK'
  BY <1>1, SpentStep DEF PodsOK, NotInUse, Unpublished
<1>5. OperationOK'
  BY <1>1 DEF OperationOK, CopyOK, ReconcileOK, CallOK, Unpublished, NoneDeleted
<1>6. DeviceProgress' /\ CallReady'
  BY <1>1 DEF DeviceProgress, CallReady, Ready, Blank
<1> QED
  BY <1>2, <1>3, <1>4, <1>5, <1>6 DEF UserApart

\* DeleteVolume finds nothing under way on the volume but a stage, which is
\* overtaken by it.
LEMMA DeleteVolumeInv ==
  ASSUME DriveInv, NEW v \in Volume, DeleteVolume(v)
  PROVE  DriveInv'
<1> USE DEF DriveInv
<1> DEFINE cr == [vol[v] EXCEPT !.status = "Removing"]
<1>1. /\ v = Shared => claim = "deleted"
      /\ vol[v].status = "Created" /\ ~vol[v].del
      /\ Put(v, cr)
      /\ UNCHANGED <<disk, drive, spent, stg, tgt, want, kub, mode, loops, claim,
                     left, gone>>
  BY DEF DeleteVolume, pods, rest
<1>2. /\ vol[v] \in VolumeState /\ "Removing" \in Status
      /\ vol[v].loop => mode[v] # "FS"
  BY DEF TypeOK, Status
<1>3. /\ cr \in VolumeState /\ cr.status = "Removing" /\ ~cr.del /\ cr.loop = vol[v].loop
  BY <1>1, <1>2, WithStatus
<1> HIDE DEF cr
<1>4. /\ vol' \in [Volume -> VolumeState] /\ vol'[v] = cr
      /\ \A w \in Volume \ {v} : vol'[w] = vol[w]
      /\ \A w \in Volume : vol'[w].loop => mode[w] # "FS"
      /\ op' \in {op, [op EXCEPT !.stale = TRUE]}
      /\ op.v # v => op' = op
      /\ call' \in {call, [call EXCEPT !.stale = TRUE]}
      /\ call.v = v => call'.stale
      /\ call.v # v => call' = call
  BY <1>1, <1>2, <1>3, PutStep
<1>5. NoneDeleted' => NoneDeleted
  BY <1>1, SpentStep
<1>6. TypeOK'
  BY <1>1, <1>4, UnderWayType DEF TypeOK
<1>7. OneAtATime' /\ DeviceOK'
  BY <1>1, <1>3, <1>4, NodeVolumeAssumption DEF OneAtATime, DeviceOK, Blank
<1>8. ClaimOK'
  BY <1>1, <1>3, <1>4, NodeVolumeAssumption DEF ClaimOK, Ready
<1>9. PodsOK'
  <2>1. NotInUse' => NotInUse
    BY <1>1, <1>3, <1>4, <1>5, NodeVolumeAssumption DEF NotInUse
  <2> QED
    BY <1>1, <1>3, <1>4, <1>5, <2>1 DEF PodsOK, Unpublished
<1>10. op.v # v
  BY <1>1, NodeVolumeAssumption DEF TypeOK, OperationOK, ReconcileOK
<1>11. CopyOK(op)' /\ ReconcileOK'
  <2>1. op' = op /\ (op.kind # "idle" => op.v \in Volume /\ vol'[op.v] = vol[op.v])
    BY <1>4, <1>10 DEF TypeOK, Operation
  <2> QED
    BY <1>1, <2>1 DEF OperationOK, CopyOK, ReconcileOK
<1>12. CopyOK(call)' /\ CallOK' /\ CallReady'
  <2>1. CASE call.v # v
    <3>1. call' = call /\ (call.kind # "idle" => vol'[Shared] = vol[Shared])
      BY <1>4, <2>1, NodeVolumeAssumption DEF OperationOK, CallOK
    <3>2. CASE call.kind = "idle"
      <4>1. call' = Idle
        BY <3>1, <3>2 DEF OperationOK, CallOK
      <4> QED
        BY <4>1, ConstantTypes DEF CopyOK, CallOK, CallReady
    <3>3. CASE call.kind # "idle"
      BY <1>1, <1>5, <3>1, <3>3, CallKept DEF Unpublished
    <3> QED
      BY <3>2, <3>3
  <2>2. CASE call.v = v
    <3>1. call.kind # "idle" /\ call.v = Shared /\ call'.stale
      BY <1>4, <2>2, NodeVolumeAssumption DEF TypeOK, OperationOK, CallOK
    <3>2. call.kind = "stage"
      BY <1>1, <2>2, <3>1 DEF TypeOK, Operation, OperationOK, CallOK
    <3>3. CopyOK(call)' /\ CallReady'
      BY <1>1, <1>4, <3>1, UnderWayType DEF OperationOK, CopyOK, CallReady
    <3>4. CallOK'
      BY <1>1, <1>4, <3>1, <3>2, UnderWayType DEF OperationOK, CallOK
    <3> QED
      BY <3>3, <3>4
  <2> QED
    BY <2>1, <2>2
<1>13. DeviceProgress'
  BY <1>1, <1>4, <1>10 DEF DeviceProgress, Ready, Blank
<1>14. OperationOK'
  BY <1>11, <1>12 DEF OperationOK
<1> QED
  BY <1>6, <1>7, <1>8, <1>9, <1>12, <1>13, <1>14 DEF UserApart

\* Volumes are marked as deleted or MISSING; they keep their statuses.
LEMMA MarkStep ==
  ASSUME DriveInv, vol' \in [Volume -> VolumeState],
         op' \in {op, [op EXCEPT !.stale = TRUE]},
         op.kind = "idle" => op' = op,
         op.kind # "idle" => op'.stale \/ vol'[op.v].del = vol[op.v].del,
         call' \in {call, [call EXCEPT !.stale = TRUE]},
         call.kind = "idle" => call' = call,
         call.kind # "idle" => call'.stale \/ vol'[call.v].del = vol[call.v].del,
         \A w \in Volume : /\ vol'[w].status = vol[w].status
                           /\ vol'[w].loop = vol[w].loop
                           /\ vol[w].del => vol'[w].del
                           /\ vol[w] = Absent => vol'[w] = Absent,
         NoneDeleted' => /\ NoneDeleted
                         /\ \A w \in Volume :
                              vol'[w].del => vol[w].del \/ vol[w].status = "Removed",
         UNCHANGED <<disk, stg, tgt, want, kub, mode, loops, claim, left, gone>>,
         drive' \in DriveState,
         spent' \in [change : 0..MaxChanges, fault : 0..MaxFaults]
  PROVE  DriveInv'
<1> USE DEF DriveInv
<1>1. /\ op' \in Operation /\ (op'.v = None <=> op'.kind = "idle")
      /\ op'.kind = op.kind /\ op'.at = op.at /\ op'.v = op.v
      /\ op'.cr = op.cr /\ (op.stale => op'.stale)
      /\ call' \in Operation /\ (call'.v = None <=> call'.kind = "idle")
      /\ call'.kind = call.kind /\ call'.at = call.at /\ call'.v = call.v
      /\ call'.p = call.p /\ call'.cr = call.cr /\ (call.stale => call'.stale)
  BY UnderWayType
<1>2. TypeOK'
  BY <1>1 DEF TypeOK
<1>3. OneAtATime' /\ DeviceOK'
  BY NodeVolumeAssumption DEF OneAtATime, DeviceOK, Blank
<1>4. ClaimOK'
  BY NodeVolumeAssumption DEF ClaimOK, Ready
<1>5. PodsOK'
  BY <1>1, NodeVolumeAssumption DEF PodsOK, NotInUse, Unpublished
<1>6. (op.kind # "idle" => op.v \in Volume) /\ (call.kind # "idle" => call.v \in Volume)
  BY DEF TypeOK, Operation
<1>7. CopyOK(op)' /\ ReconcileOK'
  BY <1>1, <1>6 DEF OperationOK, CopyOK, ReconcileOK
<1>8. CopyOK(call)'
  BY <1>1, <1>6 DEF OperationOK, CopyOK
<1>9. CallOK'
  BY <1>1, <1>6, NodeVolumeAssumption DEF OperationOK, CallOK, Unpublished
<1>10. OperationOK'
  BY <1>7, <1>8, <1>9 DEF OperationOK
<1>11. DeviceProgress' /\ CallReady'
  BY <1>1 DEF DeviceProgress, CallReady, Ready, Blank
<1> QED
  BY <1>2, <1>3, <1>4, <1>5, <1>10, <1>11 DEF UserApart

LEMMA MarkDeletedInv ==
  ASSUME DriveInv, NEW v \in Volume, UpdateCRsAfterVolumeDeletion(v) \/ DeleteObject(v)
  PROVE  DriveInv'
<1> USE DEF DriveInv
<1> DEFINE cr == [vol[v] EXCEPT !.del = TRUE]
<1>1. /\ vol[v].status # "none" /\ ~vol[v].del
      /\ Put(v, cr)
      /\ UNCHANGED <<disk, drive, stg, tgt, want, kub, mode, loops, claim, left, gone>>
  BY DEF UpdateCRsAfterVolumeDeletion, DeleteObject, pods, rest
<1>2. /\ spent' \in [change : 0..MaxChanges, fault : 0..MaxFaults]
      /\ NoneDeleted' => NoneDeleted
  BY SpentStep DEF UpdateCRsAfterVolumeDeletion, DeleteObject, Change
<1>3. NoneDeleted' => vol[v].status = "Removed"
  <2>1. CASE UpdateCRsAfterVolumeDeletion(v)
    BY <2>1 DEF UpdateCRsAfterVolumeDeletion
  <2>2. CASE DeleteObject(v)
    <3>1. /\ "delete" \in Changes /\ spent'.change = spent.change + 1
          /\ spent \in [change : 0..MaxChanges, fault : 0..MaxFaults]
      BY <2>2 DEF DeleteObject, Change, TypeOK
    <3>2. spent'.change = spent.change + 1 /\ spent.change \in Nat
      BY <3>1, NodeVolumeAssumption
    <3> QED
      BY <3>1, <3>2 DEF NoneDeleted
  <2> QED
    BY <2>1, <2>2
<1>4. /\ cr \in VolumeState /\ cr.status = vol[v].status /\ cr.loop = vol[v].loop
      /\ cr.del
  BY DEF TypeOK, VolumeState
<1>5. /\ vol[v] # Absent /\ cr # vol[v]
      /\ vol[v].loop => mode[v] # "FS"
  BY <1>1, <1>4, ConstantTypes DEF TypeOK
<1> HIDE DEF cr
<1>6. /\ vol' \in [Volume -> VolumeState] /\ vol'[v] = cr
      /\ \A w \in Volume \ {v} : vol'[w] = vol[w]
      /\ op' \in {op, [op EXCEPT !.stale = TRUE]}
      /\ op.v = v => op'.stale
      /\ op.v # v => op' = op
      /\ call' \in {call, [call EXCEPT !.stale = TRUE]}
      /\ call.v = v => call'.stale
      /\ call.v # v => call' = call
  BY <1>1, <1>4, <1>5, PutStep
<1>7. (op.kind = "idle" => op' = op) /\ (call.kind = "idle" => call' = call)
  BY <1>6, NodeVolumeAssumption DEF TypeOK
<1>8. /\ op.kind # "idle" => op'.stale \/ vol'[op.v].del = vol[op.v].del
      /\ call.kind # "idle" => call'.stale \/ vol'[call.v].del = vol[call.v].del
  BY <1>6 DEF TypeOK, Operation
<1>9. drive' \in DriveState
  BY <1>1 DEF TypeOK
<1>10. \A w \in Volume : /\ vol'[w].status = vol[w].status
                         /\ vol'[w].loop = vol[w].loop
                         /\ vol[w].del => vol'[w].del
                         /\ vol[w] = Absent => vol'[w] = Absent
  BY <1>4, <1>5, <1>6
<1>11. NoneDeleted' => /\ NoneDeleted
                       /\ \A w \in Volume :
                            vol'[w].del => vol[w].del \/ vol[w].status = "Removed"
  BY <1>2, <1>3, <1>6
<1> QED
  BY <1>1, <1>2, <1>6, <1>7, <1>8, <1>9, <1>10, <1>11, MarkStep

LEMMA HandleDriveStatusInv ==
  ASSUME DriveInv, HandleDriveStatus
  PROVE  DriveInv'
<1> USE DEF DriveInv
<1> DEFINE here == {w \in Volume : vol[w].status # "none"}
           offline == ~drive.online
<1>1. /\ drive' = [drive EXCEPT !.event = FALSE]
      /\ vol' = [w \in Volume |-> IF w \in here
                                  THEN [vol[w] EXCEPT !.missing = offline]
                                  ELSE vol[w]]
      /\ op' = Restated(op, here) /\ call' = Restated(call, here)
      /\ UNCHANGED <<disk, spent, stg, tgt, want, kub, mode, loops, claim, left, gone>>
  BY DEF HandleDriveStatus, pods, rest
<1>2. /\ vol \in [Volume -> VolumeState] /\ drive \in DriveState
      /\ op.v = None <=> op.kind = "idle"
      /\ call.v = None <=> call.kind = "idle"
  BY DEF TypeOK
<1>3. offline \in BOOLEAN
  <2>1. offline = TRUE \/ offline = FALSE
    OBVIOUS
  <2> HIDE DEF offline
  <2> QED
    BY <2>1
<1> HIDE DEF offline
<1>4. \A w \in here : /\ vol'[w] \in VolumeState
                      /\ vol'[w].status = vol[w].status /\ vol'[w].loop = vol[w].loop
                      /\ vol'[w].del = vol[w].del
  BY <1>1, <1>2, <1>3 DEF VolumeState
<1>5. \A w \in Volume \ here : vol'[w] = vol[w]
  BY <1>1
<1>6. \A w \in here : vol[w] # Absent
  BY ConstantTypes
<1>7. vol' \in [Volume -> VolumeState]
  <2>1. \A w \in Volume : vol'[w] \in VolumeState
    BY <1>2, <1>4, <1>5
  <2> QED
    BY <1>1, <2>1
<1>8. \A w \in Volume : /\ vol'[w].status = vol[w].status /\ vol'[w].loop = vol[w].loop
                        /\ vol'[w].del = vol[w].del
                        /\ vol[w] = Absent => vol'[w] = Absent
  BY <1>4, <1>5, <1>6
<1>9. /\ op' \in {op, [op EXCEPT !.stale = TRUE]}
      /\ call' \in {call, [call EXCEPT !.stale = TRUE]}
      /\ op.kind = "idle" => op' = op
      /\ call.kind = "idle" => call' = call
  BY <1>1, <1>2, NodeVolumeAssumption DEF Restated
<1>10. /\ op.kind # "idle" => vol'[op.v].del = vol[op.v].del
       /\ call.kind # "idle" => vol'[call.v].del = vol[call.v].del
  BY <1>2, <1>8 DEF TypeOK, Operation
<1>11. drive' \in DriveState
  BY <1>1, <1>2 DEF DriveState
<1>12. /\ spent' \in [change : 0..MaxChanges, fault : 0..MaxFaults]
       /\ NoneDeleted' => NoneDeleted
  BY <1>1, SpentStep
<1> HIDE DEF here
<1> QED
  BY <1>1, <1>7, <1>8, <1>9, <1>10, <1>11, <1>12, MarkStep

\* Drives and pods come and go.
LEMMA WorldInv ==
  ASSUME DriveInv,
         \/ DiscoverDrive \/ ReleaseDrive \/ Plug
         \/ \E p \in Pod : SchedulePod(p) \/ DeletePod(p)
  PROVE  DriveInv'
<1> USE DEF DriveInv
<1>1. disk \in Device /\ drive \in DriveState /\ kub \in Kubelet
  BY DEF TypeOK
<1>2. CASE DiscoverDrive
  <2>1. drive' \in DriveState /\ UNCHANGED <<disk, vol, op, call, spent, pods, rest>>
    BY <1>1, <1>2 DEF DiscoverDrive, DriveState, Device
  <2>2. TypeOK'
    BY <2>1 DEF TypeOK, pods, rest
  <2> QED
    BY <2>1, <2>2, SpentStep, QuietStep DEF pods, rest
<1>3. CASE ReleaseDrive
  <2>1. drive' \in DriveState /\ UNCHANGED <<disk, vol, op, call, pods, rest>>
    BY <1>1, <1>3 DEF ReleaseDrive, DriveState
  <2>2. /\ spent' \in [change : 0..MaxChanges, fault : 0..MaxFaults]
        /\ NoneDeleted' => NoneDeleted
    BY <1>3, SpentStep DEF ReleaseDrive, Change
  <2>3. TypeOK'
    BY <2>1, <2>2 DEF TypeOK, pods, rest
  <2> QED
    BY <2>1, <2>2, <2>3, QuietStep DEF pods, rest
<1>4. CASE Plug
  <2>1. /\ disk' \in Device /\ disk'.part = disk.part /\ disk'.fs = disk.fs
        /\ disk'.table = disk.table
        /\ UNCHANGED <<drive, vol, op, call, pods, rest>>
    BY <1>1, <1>4 DEF Plug, Device
  <2>2. /\ spent' \in [change : 0..MaxChanges, fault : 0..MaxFaults]
        /\ NoneDeleted' => NoneDeleted
    BY <1>4, SpentStep DEF Plug, Change
  <2>3. TypeOK'
    BY <2>1, <2>2 DEF TypeOK, pods, rest
  <2> QED
    BY <2>1, <2>2, <2>3, QuietStep DEF pods, rest
<1>5. ASSUME NEW p \in Pod, SchedulePod(p)
      PROVE  DriveInv'
  <2>1. /\ claim = "bound" /\ p \notin gone /\ want' = want \cup {p}
        /\ UNCHANGED <<disk, drive, vol, op, call, stg, tgt, kub, spent, rest>>
    BY <1>5 DEF SchedulePod
  <2>2. TypeOK'
    BY <2>1 DEF TypeOK, rest
  <2> QED
    BY <2>1, <2>2, SpentStep, QuietStep DEF rest
<1>6. ASSUME NEW p \in Pod, DeletePod(p)
      PROVE  DriveInv'
  <2>1. /\ want' = want \ {p} /\ gone' = gone \cup {p}
        /\ kub' \in Kubelet /\ kub'.pub = kub.pub
        /\ UNCHANGED <<disk, drive, vol, op, call, stg, tgt, spent, mode, loops, claim,
                       left>>
    BY <1>1, <1>6 DEF DeletePod, Kubelet
  <2>2. TypeOK'
    BY <2>1 DEF TypeOK
  <2> QED
    BY <2>1, <2>2, SpentStep, QuietStep
<1> QED
  BY <1>2, <1>3, <1>4, <1>5, <1>6

\* The pod that writes a table has the shared volume, which is the only one then.
LEMMA TableOfShared ==
  ASSUME DriveInv, NEW p \in Pod, WriteTable(p)
  PROVE  /\ mode[Shared] = "RAW"
         /\ vol[Shared].status \in {"VolumeReady", "Published", "Failed"}
         /\ \A v \in Volume \ {Shared} : vol[v].status = "none"
         /\ \A v \in Volume : vol[v].del => vol[v].status = "Removed"
<1> USE DEF DriveInv
<1>1. /\ "table" \in Changes /\ spent.change < MaxChanges
      /\ mode[Shared] = "RAW" /\ kub.pub[p] = "yes"
  BY DEF WriteTable, Change
<1>2. NoneDeleted
  BY <1>1, NodeVolumeAssumption DEF UserApart, NoneDeleted, TypeOK
<1>3. ~NotInUse
  BY <1>1 DEF PodsOK, Unpublished
<1>4. vol[Shared].status \in {"VolumeReady", "Published", "Failed"}
  BY <1>2, <1>3, NodeVolumeAssumption DEF NotInUse, TypeOK, VolumeState, Status
<1>5. \A v \in Volume \ {Shared} : vol[v].status = "none"
  BY <1>4, NodeVolumeAssumption DEF OneAtATime
<1> QED
  BY <1>1, <1>2, <1>4, <1>5 DEF PodsOK

LEMMA WriteTableInv ==
  ASSUME DriveInv, NEW p \in Pod, WriteTable(p)
  PROVE  DriveInv'
<1> USE DEF DriveInv
<1>1. /\ mode[Shared] = "RAW"
      /\ vol[Shared].status \in {"VolumeReady", "Published", "Failed"}
      /\ \A v \in Volume \ {Shared} : vol[v].status = "none"
      /\ \A v \in Volume : vol[v].del => vol[v].status = "Removed"
  BY TableOfShared
<1>2. /\ disk' = [disk EXCEPT !.table = TRUE, !.part = Foreign]
      /\ UNCHANGED <<drive, vol, op, call, stg, tgt, want, kub, mode, loops, claim, left,
                     gone>>
  BY DEF WriteTable, pods, rest
<1>3. /\ disk' \in Device /\ disk'.part = Foreign /\ disk'.fs = disk.fs
      /\ spent' \in [change : 0..MaxChanges, fault : 0..MaxFaults]
      /\ NoneDeleted' => NoneDeleted
  <2>1. disk \in Device
    BY DEF TypeOK
  <2> QED
    BY <1>2, <2>1, SpentStep DEF WriteTable, Change, Device
<1>4. TypeOK'
  BY <1>2, <1>3 DEF TypeOK
<1>5. OneAtATime' /\ ClaimOK' /\ DeviceOK'
  BY <1>1, <1>2, <1>3, NodeVolumeAssumption DEF OneAtATime, ClaimOK, DeviceOK, Ready
<1>6. PodsOK'
  BY <1>2, <1>3 DEF PodsOK, NotInUse, Unpublished
<1>7. OperationOK'
  BY <1>2, <1>3 DEF OperationOK, CopyOK, ReconcileOK, CallOK, Unpublished
<1>8. DeviceProgress'
  <2>1. op.kind = "idle"
    BY <1>1, NodeVolumeAssumption DEF TypeOK, Operation, OperationOK, ReconcileOK
  <2> QED
    BY <1>2, <2>1 DEF DeviceProgress
<1>9. CallReady'
  BY <1>1, <1>2, <1>3 DEF CallReady, Ready
<1> QED
  BY <1>4, <1>5, <1>6, <1>7, <1>8, <1>9 DEF UserApart

\* Nothing is under way any more.
LEMMA RestartStep ==
  ASSUME DriveInv, TypeOK', op' = Idle, call' = Idle,
         UNCHANGED <<mode, disk, vol, claim, want, left>>,
         NotInUse => Unpublished', NoneDeleted' => NoneDeleted
  PROVE  DriveInv'
<1> USE DEF DriveInv
<1>1. World'
  BY WorldStep
<1>2. OperationOK' /\ DeviceProgress' /\ CallReady'
  BY ConstantTypes DEF OperationOK, CopyOK, ReconcileOK, CallOK, DeviceProgress, CallReady
<1> QED
  BY <1>1, <1>2 DEF World, UserApart

LEMMA CrashInv ==
  ASSUME DriveInv, Crash
  PROVE  DriveInv'
<1> USE DEF DriveInv
<1>1. /\ op' = Idle /\ call' = Idle /\ kub' = Unanswered
      /\ UNCHANGED <<disk, drive, vol, stg, tgt, want, mode, loops, claim, left, gone>>
      /\ \E c \in Changes : Change(c)
  BY DEF Crash, Change, rest
<1> DEFINE pub(p) == IF call.p = p /\ call.kind \in {"publish", "unpublish"}
                     THEN "maybe" ELSE kub.pub[p]
<1>2. kub \in Kubelet
  BY DEF TypeOK
<1>3. /\ kub' = [kub EXCEPT !.staged = kub'.staged, !.next = kub'.next,
                            !.pub = [p \in Pod |-> pub(p)]]
      /\ kub'.staged \in Known /\ kub'.next \subseteq Pod
  BY <1>1, <1>2 DEF Unanswered, Kubelet, Known
<1>4. [p \in Pod |-> pub(p)] \in [Pod -> Known]
  BY <1>2 DEF Kubelet, Known
<1>5. kub' \in Kubelet /\ kub'.pub = [p \in Pod |-> pub(p)]
  BY <1>2, <1>3, <1>4 DEF Kubelet
<1>6. NotInUse => Unpublished'
  <2>1. NotInUse => call.kind \notin {"publish", "unpublish"}
    BY PublishedInUse
  <2> QED
    BY <1>5, <2>1 DEF PodsOK, Unpublished
<1>7. /\ spent' \in [change : 0..MaxChanges, fault : 0..MaxFaults]
      /\ NoneDeleted' => NoneDeleted
  BY <1>1, SpentStep
<1>8. TypeOK'
  BY <1>1, <1>5, <1>7, ConstantTypes DEF TypeOK
<1> QED
  BY <1>1, <1>6, <1>7, <1>8, RestartStep

LEMMA RebootInv ==
  ASSUME DriveInv, Reboot
  PROVE  DriveInv'
<1> USE DEF DriveInv
<1>1. /\ op' = Idle /\ call' = Idle
      /\ stg' = {} /\ tgt' = [p \in Pod |-> {}] /\ loops' = {}
      /\ kub' = [staged |-> "no", next |-> {}, pub |-> [p \in Pod |-> "no"]]
      /\ UNCHANGED <<disk, drive, vol, want, gone, mode, claim, left>>
      /\ \E c \in Changes : Change(c)
  BY DEF Reboot, Change
<1>2. /\ spent' \in [change : 0..MaxChanges, fault : 0..MaxFaults]
      /\ NoneDeleted' => NoneDeleted
  BY <1>1, SpentStep
<1>3. kub' \in Kubelet /\ Unpublished'
  BY <1>1 DEF Kubelet, Known, Unpublished
<1>4. TypeOK'
  BY <1>1, <1>2, <1>3, ConstantTypes DEF TypeOK, Staging, Target
<1> QED
  BY <1>1, <1>2, <1>3, <1>4, RestartStep

-----------------------------------------------------------------------------
(* Every step                                                              *)

LEMMA NextInv == DriveInv /\ [Next]_vars => DriveInv'
<1> SUFFICES ASSUME DriveInv, [Next]_vars PROVE DriveInv'
  OBVIOUS
<1>1. CASE Reconcile
  BY <1>1, PrepareVolumeInv, PerformVolumeRemovingInv, RemoveFinalizerInv,
     PreparePartitionInv, CreatePartitionInv, PartitionPreparedInv,
     CreateFSIfNotExistInv, PrepareFailsInv, ReconcileEndInv,
     ReleaseVolumeInv, ReleaseVolumeFailsInv, ReleaseFailedInv
  DEF Reconcile
<1>2. CASE NodeService
  BY <1>2, NodeStageVolumeInv, StageInv, StageAbortsInv, StageEndInv, PublishInv,
     PublishWriteInv, AnnotateInv, UnpublishInv, UnpublishEndInv, UnstageInv,
     UnstageEndInv, NothingDoneInv
  DEF NodeService
<1>3. CASE Environment
  BY <1>3, CreateVolumeInv, ClaimInv, DeleteVolumeInv, MarkDeletedInv,
     HandleDriveStatusInv, WorldInv, WriteTableInv, CrashInv, RebootInv
  DEF Environment
<1>4. CASE UNCHANGED vars
  <2>1. UNCHANGED <<mode, disk, drive, vol, loops, stg, tgt, op, call, want, gone, kub,
                    claim, left, spent>>
    BY <1>4 DEF vars
  <2>2. TypeOK'
    BY <2>1 DEF DriveInv, TypeOK
  <2> QED
    BY <2>1, <2>2, SpentStep, QuietStep DEF DriveInv
<1> QED
  BY <1>1, <1>2, <1>3, <1>4 DEF Next

THEOREM InvHolds == UserApart /\ Spec => []DriveInv
<1>1. UserApart /\ Init => DriveInv
  BY InitInv
<1>2. DriveInv /\ [Next]_vars => DriveInv'
  BY NextInv
<1> QED
  BY <1>1, <1>2, PTL DEF Spec

\* Every variable has its type: no sequence of calls, failures, crashes and
\* reboots takes a Volume, what is under way or the device out of it.
THEOREM TypeCorrect == UserApart /\ Spec => []TypeOK
BY InvHolds, PTL DEF DriveInv

\* A volume that pods may stage, and that nobody has deleted, has its own
\* partition and its own file system on the device, wherever its preparation, or
\* the removal of the volume before it, was broken off (PrepareVolume,
\* preparePartition, CreateFSIfNotExist).
THEOREM Prepared == UserApart /\ Spec => []PreparedBeforeUse
<1>1. DriveInv => PreparedBeforeUse
  BY DEF DriveInv, ClaimOK, Ready, PreparedBeforeUse
<1> QED
  BY <1>1, InvHolds, PTL

\* A volume that was removed, and not taken for MISSING, has left a blank device:
\* its removal is taken up where it broke off, or ends in Failed (ReleaseVolume,
\* wipeDevice, handleRemovingStatus).
THEOREM Wiped == UserApart /\ Spec => []WipedWhenRemoved
<1>1. DriveInv => WipedWhenRemoved
  BY DEF DriveInv, DeviceOK, Blank, WipedWhenRemoved
<1> QED
  BY <1>1, InvHolds, PTL

\* Two locks, and yet a volume that DeleteVolume gave up is wiped while no pod has it
\* and none gets it: it was Created then, which is written after the last unstage,
\* and a NodeStageVolume that read it before has a stale copy, whose write is refused
\* (Reconcile's volMu, volumemgr.go:237, and the node service's, node.go:301).
THEOREM WipedUnused == UserApart /\ Spec => []WipedOnlyUnused
<1>1. DriveInv => WipedOnlyUnused
  <2> SUFFICES ASSUME DriveInv, op.kind = "remove", op.v = Shared, ~op.cr.del
               PROVE  /\ vol[Shared].status = "Removing"
                      /\ \A p \in Pod : kub.pub[p] = "no"
                      /\ call.kind \in {"idle", "stage"}
    BY DEF WipedOnlyUnused
  <2>1. vol[Shared].status = "Removing"
    BY DEF DriveInv, OperationOK, ReconcileOK
  <2>2. Unpublished
    BY <2>1 DEF DriveInv, PodsOK, NotInUse
  <2>3. call.kind \in {"idle", "stage"}
    BY <2>1 DEF DriveInv, TypeOK, Operation, OperationOK, CallOK
  <2> QED
    BY <2>1, <2>2, <2>3 DEF Unpublished
<1> QED
  BY <1>1, InvHolds, PTL

LEMMA PartitionStep ==
  ASSUME DriveInv, Next, NEW v \in Volume, disk.part = v, disk'.part # v
  PROVE  op.kind = "remove" /\ op.v = v
<1> USE DEF DriveInv
<1>1. disk \in Device /\ v # None
  BY NodeVolumeAssumption DEF TypeOK
<1>2. CASE Reconcile
  <2>1. CASE PreparePartition
    BY <1>1, <2>1 DEF PreparePartition, IsPartitionExists, CreatePartitionTable, Device
  <2>2. CASE CreatePartition
    BY <1>1, <2>2 DEF CreatePartition, Running, DeviceProgress
  <2>3. CASE CreateFSIfNotExist
    BY <1>1, <2>3 DEF CreateFSIfNotExist, CreateFS, Device
  <2>4. CASE ReleaseVolume
    <3>1. op.kind = "remove"
      BY <2>4 DEF ReleaseVolume
    <3>2. CASE op.at = "rmpart"
      BY <3>1, <3>2 DEF DeviceProgress
    <3>3. CASE op.at # "rmpart"
      BY <1>1, <2>4, <3>3 DEF ReleaseVolume, WipeFS, WipeTable, Device
    <3> QED
      BY <3>2, <3>3, <3>1
  <2> QED
    BY <1>2, <2>1, <2>2, <2>3, <2>4
    DEF Reconcile, PrepareVolume, PerformVolumeRemoving, RemoveFinalizer,
        PartitionPrepared, PrepareFails, PrepareEnd, ReleaseVolumeFails,
        ReleaseFailed, RemoveEnd
<1>3. CASE NodeService
  BY <1>3
  DEF NodeService, NodeStageVolume, StageMounts, StageMountFails, StageAborts, Stage,
      NodePublishVolume, NodePublishVolumeMountFails, NodePublishVolumeRefused, Publish,
      NodeUnpublishVolume, NodeUnpublishVolumeFails, StageEnd, PublishWrite,
      AnnotateIfAllDRVolsFakeAttached, UnpublishEnd, AlreadyUnstaged, NodeUnstageVolume,
      NodeUnstageVolumeFails, Unstage, UnstageEnd
<1>4. CASE Environment
  <2>1. CASE Plug
    BY <1>1, <2>1 DEF Plug, Device
  <2>2. ASSUME NEW p \in Pod, WriteTable(p)
        PROVE  FALSE
    <3>1. mode[Shared] = "RAW" /\ vol[Shared].status # "none"
      BY <2>2, TableOfShared
    <3>2. v = Shared
      BY <3>1 DEF OneAtATime
    <3> QED
      BY <3>1, <3>2, NodeVolumeAssumption DEF DeviceOK
  <2> QED
    BY <1>4, <2>1, <2>2
    DEF Environment, CreateVolume, DeleteVolume, DeleteObject,
        UpdateCRsAfterVolumeDeletion, SchedulePod, DeletePod, Bind, DeleteClaim,
        DiscoverDrive, HandleDriveStatus, ReleaseDrive, Crash, Reboot
<1> QED
  BY <1>2, <1>3, <1>4 DEF Next

\* The partition of a volume goes with the removal of that volume and with nothing
\* else: neither the preparation of the next volume nor a pod that writes to its
\* device takes it (preparePartition, CreatePartition, ReleasePartition).
THEOREM Kept == UserApart /\ Spec => PartitionKept
<1> DEFINE A == \A v \in Volume :
                  disk.part = v /\ disk'.part # v => op.kind = "remove" /\ op.v = v
<1>1. DriveInv /\ [Next]_vars => [A]_vars
  BY PartitionStep
<1> QED
  BY <1>1, InvHolds, PTL DEF Spec, PartitionKept
=============================================================================
