----------------------------- MODULE LVGVolumes -----------------------------
(***************************************************************************)
(* The volumes of one LogicalVolumeGroup (LVG), from Volume object to      *)
(* logical volume and back, and the AvailableCapacity (AC) that accounts   *)
(* for the group's free space.                                             *)
(*                                                                         *)
(*   pkg/controller/controller.go        DeleteVolume, ControllerExpandVol.*)
(*   pkg/common/volume_operations.go     their work on Volume, AC and LVG  *)
(*   pkg/node/volumemgr.go               Reconcile of Volume objects       *)
(*   pkg/node/node.go                    what the node RPCs do to a Volume *)
(*   pkg/crcontrollers/lvg               Reconcile of the LVG object       *)
(*   pkg/base/linuxutils/lvm             the commands on the drive's       *)
(*                                       volume group                      *)
(*   pkg/controller/capacitycontroller   reset of a failed LVG's AC        *)
(*                                                                         *)
(* As in module Reservation an update is refused when the object has       *)
(* changed since it was read, and a handler that reads one object and does *)
(* nothing but update it is one step.  The node RPCs are such handlers     *)
(* here: of them only the status of the Volume matters to the accounting.  *)
(***************************************************************************)
EXTENDS CapacityMath, FiniteSets, FiniteSetsExt

CONSTANTS
  Volume,        \* names of volumes
  Size,          \* the size each volume is created with
  VGSize,        \* the size of the LVG
  ExpandTo,      \* input: the sizes asked for by expand requests
  Faults,        \* which faults happen: api, controller, node, device, user
  MaxFaults      \* bound on their number

\* A claim asks for more than nothing: Kubernetes refuses the others.
ASSUME LVGVolumesAssumption ==
  /\ IsFiniteSet(Volume)
  /\ Size \in [Volume -> Nat \ {0}]
  /\ VGSize \in Nat
  /\ ExpandTo \subseteq Nat
  /\ Faults \subseteq {"api", "controller", "node", "device", "user"}
  /\ MaxFaults \in Nat

VARIABLES
  ac,        \* the AC: its size, and whether it is located on the LVG
  lvg,       \* the LVG object: status, VolumeRefs, Locations, deletion mark
  lc,        \* Reconcile of the LVG on the node
  dev,       \* the drive: it is a physical volume, of the LVG's volume group
  vol,       \* the Volume objects
  lv,        \* size of the logical volume on the node; 0: there is none
  rq,        \* the CreateVolume, DeleteVolume or ControllerExpandVolume request
             \* of a volume
  nr,        \* Reconcile of a volume on the node
  cached,    \* the controller's cache: volumes it knows the namespace of
  unpaid,    \* history: space of new volumes that was not taken from the AC
  faults

vars == <<ac, lvg, lc, dev, vol, lv, rq, nr, cached, unpaid, faults>>

Usable == {"Created", "VolumeReady", "Published"}
CSIStatus ==
  Usable \cup {"Creating", "Removing", "Removed", "Resizing", "Resized", "Failed"}
Absent == {"absent", "gone"}    \* not created yet; removed

\* The annotations with the status and size before an expansion.
NoPrev == [cs |-> "none", size |-> 0]

VolState == [cs : CSIStatus \cup Absent, size : Nat,
             prev : [cs : Usable \cup {"none"}, size : Nat], deleting : BOOLEAN]

\* seen is the status and size of the Volume the request works on, act what
\* it is going to do with the LVG; fresh: its copy can still be written.
Request == [pc : {"idle", "charge", "reserve", "mark", "wait", "restore", "lvg",
                  "remove"},
            op : {"none", "create", "delete", "expand"}, bytes : Nat,
            seen : [cs : CSIStatus \cup Absent, size : Nat],
            act : {"none", "update", "remove"}, fresh : BOOLEAN]

NoRequest == [pc |-> "idle", op |-> "none", bytes |-> 0,
              seen |-> [cs |-> "absent", size |-> 0], act |-> "none",
              fresh |-> TRUE]

\* cs is the status Reconcile has read, then the one it is going to write.
NodeState == [pc : {"idle", "work", "update"}, cs : CSIStatus \cup Absent,
              fresh : BOOLEAN]

NoWork == [pc |-> "idle", cs |-> "absent", fresh |-> TRUE]

\* status is the one the LVG controller is going to write, with Locations.
LvgState == [pc : {"idle", "vgcreate", "status", "lvs", "vgremove", "pvremove",
                   "finalizer"},
             status : {"Creating", "Created", "Failed"}, located : BOOLEAN,
             fresh : BOOLEAN]

NoLvgWork == [pc |-> "idle", status |-> "Creating", located |-> TRUE,
              fresh |-> TRUE]

Gone == [status |-> "gone", refs |-> {}, located |-> TRUE, finalizer |-> FALSE,
         deleting |-> FALSE]

TypeOK ==
  /\ ac \in [size : Int, onLVG : BOOLEAN]
  /\ lvg \in [status : {"Creating", "Created", "Failed", "gone"},
              refs : SUBSET Volume, located : BOOLEAN, finalizer : BOOLEAN,
              deleting : BOOLEAN]
  /\ lc \in LvgState
  /\ dev \in [pv : BOOLEAN, vg : BOOLEAN]
  /\ dev.vg => dev.pv
  /\ vol \in [Volume -> VolState]
  /\ lv \in [Volume -> Nat]
  /\ rq \in [Volume -> Request]
  /\ nr \in [Volume -> NodeState]
  /\ cached \subseteq Volume
  /\ unpaid \in Int
  /\ faults \in 0 .. MaxFaults

\* RecreateACToLVGSC has made the LVG and has put the AC on it.
Init ==
  /\ ac = [size |-> VGSize, onLVG |-> TRUE]
  /\ lvg = [Gone EXCEPT !.status = "Creating"]
  /\ lc = NoLvgWork
  /\ dev = [pv |-> FALSE, vg |-> FALSE]
  /\ vol = [v \in Volume |-> [cs |-> "absent", size |-> 0, prev |-> NoPrev,
                              deleting |-> FALSE]]
  /\ lv = [v \in Volume |-> 0]
  /\ rq = [v \in Volume |-> NoRequest]
  /\ nr = [v \in Volume |-> NoWork]
  /\ cached = {}
  /\ unpaid = 0
  /\ faults = 0

Exists(v) == vol[v].cs \notin Absent

\* reqLock: held while a request is between two of its writes.
LockFree ==
  \A v \in Volume : rq[v].pc \notin {"charge", "mark", "restore", "lvg", "remove"}

\* A write to a Volume makes the copies of it stale.  (A request at "charge" or
\* "lvg" is going to write its copy of the AC or of the LVG.)
Stale(state, v) ==
  IF state[v].pc \in {"idle", "charge", "lvg"} THEN state
  ELSE [state EXCEPT ![v].fresh = FALSE]

\* ... and a write to the LVG that of the LVG controller.
StaleLVG == IF lc = NoLvgWork THEN lc ELSE [lc EXCEPT !.fresh = FALSE]

Fault(kind) ==
  /\ kind \in Faults
  /\ faults < MaxFaults
  /\ faults' = faults + 1

\* What others than v leave free in the volume group.
Room(v) == VGSize - MapThenSumSet(LAMBDA w : lv[w], Volume \ {v})

-----------------------------------------------------------------------------
(* Commands of the node: pkg/base/linuxutils/lvm                           *)

\* pvcreate refuses a device that is in a volume group already.
CanPVCreate == ~dev.vg
PVCreate == [dev EXCEPT !.pv = TRUE]
VGCreate == [dev EXCEPT !.vg = TRUE]

\* vgremove takes the LVs that are left with it; it leaves an orphan PV.
IsVGContainsLVs == \E v \in Volume : lv[v] # 0
VGRemove == dev' = [dev EXCEPT !.vg = FALSE] /\ lv' = [v \in Volume |-> 0]
RemoveOrphanPVs == [dev EXCEPT !.pv = dev.vg]

\* lvcreate leaves an LV that exists as it is.
CanLVCreate(v) == dev.vg /\ (lv[v] # 0 \/ vol[v].size <= Room(v))
LVCreate(v) == [lv EXCEPT ![v] = IF @ = 0 THEN vol[v].size ELSE @]
LVRemove(v) == [lv EXCEPT ![v] = 0]

\* GetVolumePath: /dev/<group>/<volume> leads to the LV, if there is one.
VolumePathFound(v) == lv[v] # 0

\* lvextend fails without room for the new size; whether it fails for an LV
\* that has the size already depends on its version.
CanExpandLV(v) == VolumePathFound(v) /\ vol[v].size <= Room(v)
MayRefuseExpandLV(v) == lv[v] \in {0, vol[v].size} \/ vol[v].size > Room(v)
ExpandLV(v) == [lv EXCEPT ![v] = vol[v].size]

-----------------------------------------------------------------------------
(* Controller: CreateVolume (module Reservation has its steps)             *)

\* The reservation was confirmed for an AC with room for the volume, and the
\* Volume object is made ...
Create(v) ==
  LET bytes == AlignSizeByPE(Size[v])
  IN  /\ LockFree /\ rq[v].pc = "idle"
      /\ vol[v].cs = "absent"
      /\ ac.onLVG /\ bytes <= ac.size
      /\ vol' = [vol EXCEPT ![v].cs = "Creating", ![v].size = bytes]
      /\ cached' = cached \cup {v}
      /\ unpaid' = unpaid + bytes
      /\ rq' = [rq EXCEPT ![v] =
           [NoRequest EXCEPT !.pc = "charge", !.op = "create", !.bytes = bytes]]
      /\ UNCHANGED <<ac, lvg, lc, dev, lv, nr, faults>>

\* A mutant: the space is added to the AC's.
CreateChargeAdds(v) ==
  /\ rq[v].pc = "charge" /\ rq[v].fresh
  /\ ac' = [ac EXCEPT !.size = @ + rq[v].bytes]
  /\ unpaid' = unpaid - rq[v].bytes
  /\ rq' = [rq EXCEPT ![v] = NoRequest]
  /\ UNCHANGED <<lvg, lc, dev, vol, lv, nr, cached, faults>>

\* ... and then its space is taken from the AC.  That this is refused, or fails
\* (RequestFails, Restart), is only logged: a repeated CreateVolume finds the
\* Volume and does not come here again.
CreateCharge(v) ==
  /\ rq[v].pc = "charge"
  /\ IF rq[v].fresh
     THEN /\ ac' = [ac EXCEPT !.size = @ - rq[v].bytes]
          /\ unpaid' = unpaid - rq[v].bytes
     ELSE UNCHANGED <<ac, unpaid>>
  /\ rq' = [rq EXCEPT ![v] = NoRequest]
  /\ UNCHANGED <<lvg, lc, dev, vol, lv, nr, cached, faults>>

\* CreateVolume is repeated when the time for creating the volume is over.
CreateTimeout(v) ==
  /\ LockFree
  /\ vol[v].cs = "Creating"
  /\ vol' = [vol EXCEPT ![v].cs = "Failed"]
  /\ rq' = Stale(rq, v)
  /\ nr' = Stale(nr, v)
  /\ UNCHANGED <<ac, lvg, lc, dev, lv, cached, unpaid, faults>>

-----------------------------------------------------------------------------
(* Controller: DeleteVolume                                                *)

DeleteStart(v) ==
  /\ LockFree /\ rq[v].pc = "idle"
  /\ v \in cached
  /\ vol[v].cs \in {"Created", "Removing", "Removed"}
  /\ IF vol[v].cs = "Created"
     THEN vol' = [vol EXCEPT ![v].cs = "Removing"] /\ nr' = Stale(nr, v)
     ELSE UNCHANGED <<vol, nr>>
  /\ rq' = [rq EXCEPT ![v] = [NoRequest EXCEPT !.pc = "wait", !.op = "delete"]]
  /\ UNCHANGED <<ac, lvg, lc, dev, lv, cached, unpaid, faults>>

\* The volume is Removed: UpdateCRsAfterVolumeDeletion gives its space back to
\* the AC; with the last volume of the LVG the AC goes back to the drive.
DeleteCredit(v) ==
  LET act == IF Cardinality(lvg.refs) > 1 THEN "update" ELSE "remove"
  IN  /\ rq[v].pc = "wait" /\ rq[v].op = "delete"
      /\ LockFree
      /\ vol[v].cs = "Removed"
      /\ ac.onLVG /\ lvg.status # "gone"
      /\ ac' = [size |-> ac.size + vol[v].size, onLVG |-> act = "update"]
      /\ rq' = [rq EXCEPT ![v].pc = "lvg", ![v].act = act, ![v].fresh = TRUE]
      /\ UNCHANGED <<lvg, lc, dev, vol, lv, nr, cached, unpaid, faults>>

\* A versioned update of the LVG, or its deletion whatever its version.
DeleteUpdateLVG(v) ==
  LET done == lvg.status # "gone" /\ (rq[v].act = "update" => rq[v].fresh)
  IN  /\ rq[v].pc = "lvg"
      /\ lvg' = IF ~done THEN lvg
                ELSE IF rq[v].act = "update"
                THEN [lvg EXCEPT !.refs = @ \ {v}]
                ELSE [lvg EXCEPT !.deleting = TRUE]
      /\ rq' = [rq EXCEPT ![v] = IF done THEN [@ EXCEPT !.pc = "remove"]
                                         ELSE NoRequest]
      /\ lc' = IF done THEN StaleLVG ELSE lc
      /\ UNCHANGED <<ac, dev, vol, lv, nr, cached, unpaid, faults>>

\* The node's finalizer keeps the Volume object for the time being.
DeleteVolumeCR(v) ==
  /\ rq[v].pc = "remove"
  /\ IF Exists(v)
     THEN /\ vol' = [vol EXCEPT ![v].deleting = TRUE]
          /\ nr' = Stale(nr, v)
          /\ cached' = cached \ {v}
     ELSE UNCHANGED <<vol, nr, cached>>
  /\ rq' = [rq EXCEPT ![v] = NoRequest]
  /\ UNCHANGED <<ac, lvg, lc, dev, lv, unpaid, faults>>

-----------------------------------------------------------------------------
(* Controller: ControllerExpandVolume                                      *)

\* The Volume is read before the lock is taken.  A request for no more than
\* the Volume's size is answered at once.
ExpandStart(v) ==
  /\ rq[v].pc = "idle"
  /\ Exists(v)
  /\ \E size \in ExpandTo :
       /\ vol[v].size < AlignSizeByPE(size)
       /\ rq' = [rq EXCEPT ![v] =
            [NoRequest EXCEPT !.pc = "reserve", !.op = "expand",
                              !.bytes = AlignSizeByPE(size),
                              !.seen = [cs |-> vol[v].cs, size |-> vol[v].size]]]
  /\ UNCHANGED <<ac, lvg, lc, dev, vol, lv, nr, cached, unpaid, faults>>

\* A mutant: the status of the Volume is not looked at.
ExpandReserveAnyStatus(v) ==
  LET more == rq[v].bytes - rq[v].seen.size
      next == IF ac.onLVG /\ more <= ac.size THEN "mark" ELSE "idle"
  IN  /\ rq[v].pc = "reserve"
      /\ LockFree
      /\ ac' = IF next = "mark" THEN [ac EXCEPT !.size = @ - more] ELSE ac
      /\ rq' = [rq EXCEPT ![v] = IF next = "idle" THEN NoRequest
                                 ELSE [@ EXCEPT !.pc = next]]
      /\ UNCHANGED <<lvg, lc, dev, vol, lv, nr, cached, unpaid, faults>>

\* ExpandVolume with the Volume that was read: take the space from the AC.
ExpandReserve(v) ==
  LET seen == rq[v].seen
      more == rq[v].bytes - seen.size
      next == IF seen.cs \in {"Resizing", "Resized"} THEN "wait"
              ELSE IF seen.cs \in Usable /\ ac.onLVG /\ more <= ac.size
              THEN "mark" ELSE "idle"
  IN  /\ rq[v].pc = "reserve"
      /\ LockFree
      /\ ac' = IF next = "mark" THEN [ac EXCEPT !.size = @ - more] ELSE ac
      /\ rq' = [rq EXCEPT ![v] = IF next = "idle" THEN NoRequest
                                 ELSE [@ EXCEPT !.pc = next]]
      /\ UNCHANGED <<lvg, lc, dev, vol, lv, nr, cached, unpaid, faults>>

\* Then mark the Volume for expansion, unless it has changed since.
ExpandMark(v) ==
  /\ rq[v].pc = "mark"
  /\ IF rq[v].fresh
     THEN /\ vol' = [vol EXCEPT ![v].cs = "Resizing", ![v].size = rq[v].bytes,
                                ![v].prev = rq[v].seen]
          /\ nr' = Stale(nr, v)
          /\ rq' = [rq EXCEPT ![v].pc = "wait"]
     ELSE /\ rq' = [rq EXCEPT ![v] = NoRequest]
          /\ UNCHANGED <<vol, nr>>
  /\ UNCHANGED <<ac, lvg, lc, dev, lv, cached, unpaid, faults>>

\* A mutant: a successful expansion gives the space back, too.
ExpandCreditAlways(v) ==
  /\ rq[v].pc = "wait" /\ rq[v].op = "expand"
  /\ LockFree
  /\ vol[v].cs \in {"Failed", "Resized"} /\ vol[v].prev # NoPrev
  /\ ac' = [ac EXCEPT !.size = @ + (rq[v].bytes - vol[v].prev.size)]
  /\ rq' = [rq EXCEPT ![v].pc = "restore", ![v].fresh = TRUE]
  /\ UNCHANGED <<lvg, lc, dev, vol, lv, nr, cached, unpaid, faults>>

\* UpdateCRsAfterVolumeExpansion: a failed expansion gives the space back (an
\* error in doing so is only logged) ...
ExpandCredit(v) ==
  /\ rq[v].pc = "wait" /\ rq[v].op = "expand"
  /\ LockFree
  /\ \/ vol[v].cs = "Failed" /\ vol[v].prev # NoPrev
     \/ vol[v].cs = "Resized"
  /\ \/ /\ vol[v].cs = "Failed" /\ ac.onLVG
        /\ ac' = [ac EXCEPT !.size = @ + (rq[v].bytes - vol[v].prev.size)]
        /\ UNCHANGED faults
     \/ vol[v].cs = "Failed" /\ ac.onLVG /\ Fault("api") /\ UNCHANGED ac
     \/ (vol[v].cs = "Resized" \/ ~ac.onLVG) /\ UNCHANGED <<ac, faults>>
  /\ rq' = [rq EXCEPT ![v].pc = "restore", ![v].fresh = TRUE]
  /\ UNCHANGED <<lvg, lc, dev, vol, lv, nr, cached, unpaid>>

\* A mutant: a failed expansion leaves the new size in the Volume.
ExpandRestoreKeepsSize(v) ==
  /\ rq[v].pc = "restore" /\ rq[v].fresh
  /\ vol' = [vol EXCEPT
       ![v].cs = IF vol[v].cs = "Resized" THEN vol[v].prev.cs ELSE @,
       ![v].prev = NoPrev]
  /\ nr' = Stale(nr, v)
  /\ rq' = [rq EXCEPT ![v] = NoRequest]
  /\ UNCHANGED <<ac, lvg, lc, dev, lv, cached, unpaid, faults>>

\* ... and the Volume gets back its size, or after a success its status.
ExpandRestore(v) ==
  /\ rq[v].pc = "restore"
  /\ IF rq[v].fresh
     THEN /\ vol' = [vol EXCEPT
               ![v].size = IF vol[v].cs = "Failed" THEN vol[v].prev.size ELSE @,
               ![v].cs = IF vol[v].cs = "Resized" /\ vol[v].prev # NoPrev
                         THEN vol[v].prev.cs ELSE @,
               ![v].prev = NoPrev]
          /\ nr' = Stale(nr, v)
     ELSE UNCHANGED <<vol, nr>>
  /\ rq' = [rq EXCEPT ![v] = NoRequest]
  /\ UNCHANGED <<ac, lvg, lc, dev, lv, cached, unpaid, faults>>

-----------------------------------------------------------------------------
(* Controller: requests that end without having finished                   *)

\* The request's context is done while it waits for a status, or it has seen
\* the status Failed, or finds the Volume, the AC or the LVG missing.
GiveUp(v) ==
  /\ rq[v].pc \in {"wait", "reserve"}
  /\ rq' = [rq EXCEPT ![v] = NoRequest]
  /\ UNCHANGED <<ac, lvg, lc, dev, vol, lv, nr, cached, unpaid, faults>>

\* A write fails, or the context is done between two writes.
RequestFails(v) ==
  /\ rq[v].pc \in {"charge", "mark", "restore", "lvg", "remove"}
  /\ Fault("api")
  /\ rq' = [rq EXCEPT ![v] = NoRequest]
  /\ UNCHANGED <<ac, lvg, lc, dev, vol, lv, nr, cached, unpaid>>

\* The controller restarts, and fills its cache from the Volume objects.
Restart ==
  /\ Fault("controller")
  /\ rq' = [v \in Volume |-> NoRequest]
  /\ cached' = {v \in Volume : Exists(v)}
  /\ UNCHANGED <<ac, lvg, lc, dev, vol, lv, nr, unpaid>>

-----------------------------------------------------------------------------
(* Node: Reconcile of a Volume, and the RPCs                               *)

\* A user deletes a Volume object, whatever its status; Reconcile's finalizer is
\* on it.
DeleteVolumeObject(v) ==
  /\ Exists(v) /\ ~vol[v].deleting
  /\ Fault("user")
  /\ vol' = [vol EXCEPT ![v].deleting = TRUE]
  /\ rq' = Stale(rq, v)
  /\ nr' = Stale(nr, v)
  /\ UNCHANGED <<ac, lvg, lc, dev, lv, cached, unpaid>>

\* Reconcile reads a Volume there is something to do for.  A new one waits for
\* the LVG; removing one needs the LVG object, to find the drive.  A Volume that
\* is Created and has been deleted by a user is Removing in Reconcile's copy
\* only: the node RPCs, which have a lock of their own, still see it Created.
ReconcileRead(v) ==
  LET removing == vol[v].cs = "Removing" \/ (vol[v].deleting /\ vol[v].cs = "Created")
  IN  /\ nr[v].pc = "idle"
      /\ \/ ~vol[v].deleting /\ vol[v].cs = "Creating" /\ lvg.status # "Creating"
         \/ ~vol[v].deleting /\ vol[v].cs = "Resizing"
         \/ removing /\ lvg.status # "gone"
      /\ nr' = [nr EXCEPT ![v] =
           [pc |-> "work", cs |-> IF removing THEN "Removing" ELSE vol[v].cs,
            fresh |-> TRUE]]
      /\ UNCHANGED <<ac, lvg, lc, dev, vol, lv, rq, cached, unpaid, faults>>

Decide(v, cs) == nr' = [nr EXCEPT ![v].pc = "update", ![v].cs = cs]

\* handleCreatingVolumeInLVG: the volume is added to VolumeRefs ...
AddVolumeRef(v) ==
  /\ lvg' = [lvg EXCEPT !.refs = @ \cup {v}]
  /\ IF v \in lvg.refs THEN UNCHANGED <<rq, lc>>
     ELSE /\ rq' = [w \in Volume |-> IF rq[w].pc = "lvg"
                                     THEN [rq[w] EXCEPT !.fresh = FALSE] ELSE rq[w]]
          /\ lc' = StaleLVG

\* ... and PrepareVolume makes its LV and the file system.  When that fails
\* the LV stays.
PrepareVolume(v) ==
  \/ /\ CanLVCreate(v) /\ lv' = LVCreate(v)
     /\ Decide(v, "Created") /\ UNCHANGED faults
  \/ /\ ~CanLVCreate(v) /\ UNCHANGED lv
     /\ Decide(v, "Failed") /\ UNCHANGED faults
  \/ /\ Fault("device") /\ Decide(v, "Failed")
     /\ UNCHANGED lv \/ (CanLVCreate(v) /\ lv[v] = 0 /\ lv' = LVCreate(v))

WorkCreate(v) ==
  /\ nr[v].pc = "work" /\ nr[v].cs = "Creating"
  /\ \/ lvg.status = "Created" /\ AddVolumeRef(v) /\ PrepareVolume(v)
     \/ /\ lvg.status # "Created" /\ Decide(v, "Failed")
        /\ UNCHANGED <<lvg, lc, lv, rq, faults>>
  /\ UNCHANGED <<ac, dev, vol, cached, unpaid>>

\* ReleaseVolume: wipe and remove the LV; one that is not there is removed.  One
\* that has been staged meanwhile is refused when it is mounted.
ReleaseVolume(v) ==
  \/ lv' = LVRemove(v) /\ Decide(v, "Removed") /\ UNCHANGED faults
  \/ /\ IF vol[v].cs \in {"VolumeReady", "Published"} THEN UNCHANGED faults
                                                    ELSE Fault("device")
     /\ Decide(v, "Failed") /\ UNCHANGED lv

WorkRemove(v) ==
  /\ nr[v].pc = "work" /\ nr[v].cs = "Removing"
  /\ ReleaseVolume(v)
  /\ UNCHANGED <<ac, lvg, lc, dev, vol, rq, cached, unpaid>>

WorkExpand(v) ==
  /\ nr[v].pc = "work" /\ nr[v].cs = "Resizing"
  /\ \/ CanExpandLV(v) /\ lv' = ExpandLV(v) /\ Decide(v, "Resized") /\ UNCHANGED faults
     \/ /\ IF MayRefuseExpandLV(v) THEN UNCHANGED faults ELSE Fault("device")
        /\ Decide(v, "Failed") /\ UNCHANGED lv
  /\ UNCHANGED <<ac, lvg, lc, dev, vol, rq, cached, unpaid>>

\* The new status is written, or refused and Reconcile runs again.
ReconcileUpdate(v) ==
  /\ nr[v].pc = "update"
  /\ IF nr[v].fresh
     THEN vol' = [vol EXCEPT ![v].cs = nr[v].cs] /\ rq' = Stale(rq, v)
     ELSE UNCHANGED <<vol, rq>>
  /\ nr' = [nr EXCEPT ![v] = NoWork]
  /\ UNCHANGED <<ac, lvg, lc, dev, lv, cached, unpaid, faults>>

\* A mutant: the case of status Removed is missing.
RemoveFinalizerFailed(v) ==
  /\ nr[v].pc = "idle"
  /\ vol[v].deleting /\ vol[v].cs = "Failed"
  /\ vol' = [vol EXCEPT ![v].cs = "gone", ![v].deleting = FALSE]
  /\ rq' = Stale(rq, v)
  /\ UNCHANGED <<ac, lvg, lc, dev, lv, nr, cached, unpaid, faults>>

\* The last step of a deletion: the finalizer is removed.  (The LV of a Volume
\* that has Failed stays, so that no data is lost.)
RemoveFinalizer(v) ==
  /\ nr[v].pc = "idle"
  /\ vol[v].deleting /\ vol[v].cs \in {"Removed", "Failed"}
  /\ vol' = [vol EXCEPT ![v].cs = "gone", ![v].deleting = FALSE]
  /\ rq' = Stale(rq, v)
  /\ UNCHANGED <<ac, lvg, lc, dev, lv, nr, cached, unpaid, faults>>

\* The node's process restarts: what its Reconciles were about is read again.
NodeRestart ==
  /\ lc # NoLvgWork \/ \E v \in Volume : nr[v] # NoWork
  /\ Fault("node")
  /\ nr' = [v \in Volume |-> NoWork]
  /\ lc' = NoLvgWork
  /\ UNCHANGED <<ac, lvg, dev, vol, lv, rq, cached, unpaid>>

SetStatus(v, cs) ==
  /\ vol' = [vol EXCEPT ![v].cs = cs]
  /\ rq' = Stale(rq, v)
  /\ nr' = Stale(nr, v)
  /\ UNCHANGED <<ac, lvg, lc, dev, lv, cached, unpaid>>

\* Mutants: a missing LV goes unnoticed; a volume under removal is staged.
NodeStageVolumeUnchecked(v) ==
  vol[v].cs \in {"Created", "Published", "Failed"}
  /\ SetStatus(v, "VolumeReady") /\ UNCHANGED faults

NodeStageVolumeRemoving(v) ==
  vol[v].cs \in {"Created", "Published", "Removing"}
  /\ VolumePathFound(v) /\ SetStatus(v, "VolumeReady") /\ UNCHANGED faults

NodeStageVolume(v) ==
  /\ vol[v].cs \in {"Created", "Published", "Failed"}
  /\ \/ VolumePathFound(v) /\ SetStatus(v, "VolumeReady") /\ UNCHANGED faults
     \/ ~VolumePathFound(v) /\ SetStatus(v, "Failed") /\ UNCHANGED faults
     \/ Fault("device") /\ SetStatus(v, "Failed")

NodeUnstageVolume(v) ==
  /\ vol[v].cs = "VolumeReady"
  /\ \/ SetStatus(v, "Created") /\ UNCHANGED faults
     \/ Fault("device") /\ SetStatus(v, "Failed")

NodePublishVolume(v) ==
  /\ vol[v].cs \in {"VolumeReady", "Published"}
  /\ \/ SetStatus(v, "Published") /\ UNCHANGED faults
     \/ Fault("device") /\ SetStatus(v, "Failed")

\* While other pods own the volume its status stays.
NodeUnpublishVolume(v) ==
  /\ vol[v].cs \in {"VolumeReady", "Published"}
  /\ \/ /\ \E cs \in {"VolumeReady", vol[v].cs} : SetStatus(v, cs)
        /\ UNCHANGED faults
     \/ Fault("device") /\ SetStatus(v, "Failed")

-----------------------------------------------------------------------------
(* LVG controller, and the capacity controller for an LVG that has failed  *)

LvgDecide(pc, status, located) ==
  lc' = [pc |-> pc, status |-> status, located |-> located, fresh |-> TRUE]

AppendFinalizer ==
  /\ lvg.status # "gone" /\ ~lvg.deleting /\ ~lvg.finalizer
  /\ lvg' = [lvg EXCEPT !.finalizer = TRUE]
  /\ UNCHANGED <<ac, lc, dev, vol, lv, rq, nr, cached, unpaid, faults>>

\* createSystemLVG: a drive that cannot be read or found, or on which pvcreate
\* fails, is not among the Locations; without any the LVG has failed.
CreatePV ==
  /\ lc = NoLvgWork
  /\ lvg.status = "Creating" /\ ~lvg.deleting /\ lvg.finalizer
  /\ \/ CanPVCreate /\ dev' = PVCreate
        /\ LvgDecide("vgcreate", "Creating", TRUE) /\ UNCHANGED faults
     \/ /\ IF CanPVCreate THEN Fault("device") ELSE UNCHANGED faults
        /\ LvgDecide("status", "Failed", FALSE) /\ UNCHANGED dev
  /\ UNCHANGED <<ac, lvg, vol, lv, rq, nr, cached, unpaid>>

CreateVG ==
  /\ lc.pc = "vgcreate"
  /\ \/ dev' = VGCreate /\ LvgDecide("status", "Created", TRUE) /\ UNCHANGED faults
     \/ Fault("device") /\ LvgDecide("status", "Failed", TRUE) /\ UNCHANGED dev
  /\ UNCHANGED <<ac, lvg, vol, lv, rq, nr, cached, unpaid>>

\* handlerLVGCreation writes status and Locations.  If the update fails, or is
\* refused because discovery has written the LVG's health, all is done again.
HandlerLVGCreation ==
  /\ lc.pc = "status"
  /\ lc' = NoLvgWork
  /\ \/ /\ lvg' = [lvg EXCEPT !.status = lc.status, !.located = lc.located]
        /\ UNCHANGED faults
     \/ Fault("api") /\ UNCHANGED lvg
  /\ UNCHANGED <<ac, dev, vol, lv, rq, nr, cached, unpaid>>

\* A user deletes an LVG that has failed.  (Before its AC has been reset, or
\* while a volume is being placed on it, that would make a volume on a group
\* that is gone.)
DeleteFailedLVG ==
  /\ lvg.status = "Failed" /\ ~lvg.deleting /\ ac.size = 0
  /\ Fault("user")
  /\ lvg' = [lvg EXCEPT !.deleting = TRUE]
  /\ UNCHANGED <<ac, lc, dev, vol, lv, rq, nr, cached, unpaid>>

\* handleLVGRemoving: no volume may be located on the LVG.
LvgUnused == \A v \in Volume : Exists(v) => vol[v].deleting

\* A mutant: the volumes are not looked at.
HandleLVGRemovingAny ==
  /\ lc = NoLvgWork /\ lvg.deleting /\ lvg.finalizer /\ lvg.located
  /\ LvgDecide("lvs", "Creating", TRUE)
  /\ UNCHANGED <<ac, lvg, dev, vol, lv, rq, nr, cached, unpaid, faults>>

HandleLVGRemoving ==
  /\ lc = NoLvgWork /\ lvg.deleting /\ lvg.finalizer
  /\ LvgUnused /\ lvg.located
  /\ LvgDecide("lvs", "Creating", TRUE)
  /\ UNCHANGED <<ac, lvg, dev, vol, lv, rq, nr, cached, unpaid, faults>>

\* It reads Locations[0] then: without Locations the node's process panics, and
\* again after each restart.
HandleLVGRemovingPanics ==
  /\ lvg.deleting /\ lvg.finalizer /\ LvgUnused /\ ~lvg.located
  /\ nr' = [v \in Volume |-> NoWork]
  /\ lc' = NoLvgWork
  /\ UNCHANGED <<ac, lvg, dev, vol, lv, rq, cached, unpaid, faults>>

\* removeLVGArtifacts: no LV may be left in the volume group ...
CheckLVs ==
  /\ lc.pc = "lvs"
  /\ \/ ~IsVGContainsLVs /\ lc' = [lc EXCEPT !.pc = "vgremove"] /\ UNCHANGED faults
     \/ /\ IF IsVGContainsLVs THEN UNCHANGED faults ELSE Fault("device")
        /\ lc' = NoLvgWork
  /\ UNCHANGED <<ac, lvg, dev, vol, lv, rq, nr, cached, unpaid>>

\* A mutant: that the volume group is not found is an error.
RemoveVGStrict ==
  /\ lc.pc = "vgremove"
  /\ \/ dev.vg /\ VGRemove /\ lc' = [lc EXCEPT !.pc = "pvremove"] /\ UNCHANGED faults
     \/ /\ IF dev.vg THEN Fault("device") ELSE UNCHANGED faults
        /\ lc' = NoLvgWork /\ UNCHANGED <<dev, lv>>
  /\ UNCHANGED <<ac, lvg, vol, rq, nr, cached, unpaid>>

RemoveVG ==
  /\ lc.pc = "vgremove"
  /\ \/ VGRemove /\ lc' = [lc EXCEPT !.pc = "pvremove"] /\ UNCHANGED faults
     \/ Fault("device") /\ lc' = NoLvgWork /\ UNCHANGED <<dev, lv>>
  /\ UNCHANGED <<ac, lvg, vol, rq, nr, cached, unpaid>>

\* ... and an error in the removal of its PV is ignored.
RemovePV ==
  /\ lc.pc = "pvremove"
  /\ lc' = [lc EXCEPT !.pc = "finalizer"]
  /\ \/ dev' = RemoveOrphanPVs /\ UNCHANGED faults
     \/ Fault("device") /\ UNCHANGED dev
  /\ UNCHANGED <<ac, lvg, vol, lv, rq, nr, cached, unpaid>>

\* The object goes with its finalizer, unless it has changed since it was read.
RemoveLVGFinalizer ==
  /\ lc.pc = "finalizer"
  /\ lc' = NoLvgWork
  /\ \/ lc.fresh /\ lvg' = Gone /\ UNCHANGED faults
     \/ ~lc.fresh /\ UNCHANGED <<lvg, faults>>
     \/ lc.fresh /\ Fault("api") /\ UNCHANGED lvg
  /\ UNCHANGED <<ac, dev, vol, lv, rq, nr, cached, unpaid>>

ResetACSizeOfLVG ==
  /\ lvg.status = "Failed" /\ ac.onLVG /\ ac.size # 0
  /\ ac' = [ac EXCEPT !.size = 0]
  /\ rq' = [v \in Volume |-> IF rq[v].pc = "charge"
                             THEN [rq[v] EXCEPT !.fresh = FALSE] ELSE rq[v]]
  /\ UNCHANGED <<lvg, lc, dev, vol, lv, nr, cached, unpaid, faults>>

-----------------------------------------------------------------------------
DeleteStep(v) == DeleteUpdateLVG(v) \/ DeleteVolumeCR(v)
ExpandStep(v) == ExpandReserve(v) \/ ExpandMark(v) \/ ExpandRestore(v)
Work(v)       == WorkCreate(v) \/ WorkRemove(v) \/ WorkExpand(v)

ControllerNext(v) ==
  \/ Create(v) \/ CreateCharge(v) \/ CreateTimeout(v)
  \/ DeleteStart(v) \/ DeleteCredit(v) \/ DeleteStep(v)
  \/ ExpandStart(v) \/ ExpandCredit(v) \/ ExpandStep(v)
  \/ GiveUp(v) \/ RequestFails(v)

NodeNext(v) ==
  \/ ReconcileRead(v) \/ Work(v) \/ ReconcileUpdate(v) \/ RemoveFinalizer(v)
  \/ NodeStageVolume(v) \/ NodeUnstageVolume(v)
  \/ NodePublishVolume(v) \/ NodeUnpublishVolume(v)

LvgReconcile ==
  \/ AppendFinalizer \/ CreatePV \/ CreateVG \/ HandlerLVGCreation
  \/ HandleLVGRemoving \/ HandleLVGRemovingPanics
  \/ CheckLVs \/ RemoveVG \/ RemovePV \/ RemoveLVGFinalizer

Next ==
  \/ \E v \in Volume : ControllerNext(v) \/ NodeNext(v)
  \/ LvgReconcile
  \/ ResetACSizeOfLVG \/ DeleteFailedLVG
  \/ \E v \in Volume : DeleteVolumeObject(v)
  \/ Restart \/ NodeRestart

\* A request that holds the lock goes on.  One that waits polls the status every
\* second, and its context lasts much longer: it does not give up each time the
\* status has been reached.  That a request which has failed is made again is
\* not assumed.  Reconcile runs for every change of an object, and again after
\* an error.
Fairness ==
  /\ \A v \in Volume :
       /\ SF_vars(DeleteCredit(v))
       /\ WF_vars(CreateCharge(v) \/ DeleteStep(v) \/ ExpandMark(v) \/ ExpandRestore(v))
       /\ WF_vars(ReconcileRead(v) \/ Work(v) \/ ReconcileUpdate(v))
       /\ WF_vars(RemoveFinalizer(v))
  /\ WF_vars(LvgReconcile)

Spec == Init /\ [][Next]_vars

FairSpec == Spec /\ Fairness

-----------------------------------------------------------------------------
(* Properties                                                              *)

\* The space volume v occupies, or is going to once the node has done its work.
Occupied(v) ==
  IF vol[v].cs \in {"Creating", "Resizing"} /\ vol[v].size > lv[v]
  THEN vol[v].size ELSE lv[v]

Total(space) == MapThenSumSet(LAMBDA v : space[v], Volume)

\* The AC of the LVG never offers space that volumes have or wait for: "in case
\* of Failed status it tries to return AC size back", and no more than that.
\* What a new volume has not been made to pay, because the update of the AC is
\* still to come, or has failed and was logged, is all it may offer too much.
NoOvercommit ==
  ac.onLVG =>
    ac.size + Total([v \in Volume |-> Occupied(v)]) <= VGSize + unpaid

\* A volume in a status in which it can be staged and published has its LV,
\* whatever Reconcile, the RPCs and retried requests have overwritten.  (One that
\* a user has deleted can be staged while its LV is being removed.)
UsableIsBacked ==
  \A v \in Volume :
    vol[v].cs \in Usable /\ ~vol[v].deleting => lv[v] # 0 /\ dev.vg

\* The size the LV of v is known to have had: during an expansion, and after one
\* that has failed and was given up, the one before it.
KnownSize(v) == IF vol[v].prev = NoPrev THEN vol[v].size ELSE vol[v].prev.size

\* An LV is never smaller than its Volume says, or, as long as an expansion is
\* not completed, said before: no failure, retry or restage makes the Volume
\* forget what it really has.  (The new size itself can be more than there is:
\* a volume whose expansion has failed can be staged before its size is restored.)
SizeIsReal == \A v \in Volume : lv[v] # 0 => KnownSize(v) <= lv[v]

\* The LV of a volume no user has deleted is removed only in status Removing: no
\* node RPC can take it back into use between the read and the removal.
RemovedOnlyWhenRemoving ==
  [][\A v \in Volume : lv[v] # 0 /\ lv'[v] = 0 =>
       vol[v].cs \in {"Removing", "gone"} \/ vol[v].deleting]_vars

\* "this LogicalVolumeGroup is still used": the volume group is removed only
\* when no volume is left on it or is still to be made on it.
GroupRemovedUnused ==
  lvg.status = "gone" =>
    ~dev.vg /\ \A v \in Volume : lv[v] = 0 /\ (Exists(v) => vol[v].deleting)

\* The AC has gone back to the drive, and what should have followed has failed, or
\* it has gone with another volume, which did not find v in VolumeRefs: no retry
\* finds the AC by the volume's location.  The LVG has gone, which is not kept
\* by a Volume that a user has deleted: Reconcile does not find the drive.
LostRemoval(v) ==
  \/ /\ vol[v].cs = "Removed" /\ ~vol[v].deleting
     /\ ~ac.onLVG /\ rq[v].pc \notin {"lvg", "remove"}
  \/ vol[v].cs = "Removing" /\ vol[v].deleting /\ lvg.status = "gone"

\* A volume that is being removed is gone in the end, or has failed, whatever has
\* interrupted its deletion, and although an expansion of the same volume may be
\* under way: unless the deletion is no longer asked for before its object is
\* deleted ("we might not get DeleteVolume request again"), or cannot be completed.
DeletionFinishes ==
  \A v \in Volume :
    vol[v].cs = "Removing" ~>
      \/ vol[v].cs \in {"gone", "Failed"}
      \/ [](rq[v].op # "delete" /\ ~vol[v].deleting)
      \/ []LostRemoval(v)

\* An LVG that is deleted, on which no volume is left, goes with its volume group,
\* whatever the creation of the LVG or of the volumes has left on the drive, and
\* although volumes may still be added to it.  An LVG without Locations stays:
\* its removal reads the first of them.  So does one with the LV of a volume that
\* a user has deleted after it had failed.
DeletedGroupGoes ==
  lvg.deleting ~>
    lvg.status = "gone" \/ ~LvgUnused \/ ~lvg.located \/ IsVGContainsLVs

-----------------------------------------------------------------------------
(* What makes UsableIsBacked, RemovedOnlyWhenRemoving and                    *)
(* GroupRemovedUnused inductive.                                             *)

VolumeOK(v) ==
  /\ lv[v] # 0 => dev.vg
  /\ vol[v].cs \in Usable \cup {"Resizing", "Resized"} => lv[v] # 0 \/ vol[v].deleting
  /\ vol[v].cs # "absent" => vol[v].size > 0
  /\ vol[v].prev # NoPrev => vol[v].prev.cs \in Usable /\ vol[v].prev.size > 0
  /\ vol[v].cs \in Absent => ~vol[v].deleting
  /\ vol[v].cs = "absent" => lv[v] = 0

\* A request writes what it has read, or leaves the Volume alone.
RequestOK(v) ==
  /\ rq[v].pc \in {"reserve", "mark"} =>
       /\ rq[v].seen.cs \notin Absent /\ rq[v].seen.size > 0
       /\ rq[v].bytes > rq[v].seen.size
       /\ rq[v].fresh => /\ rq[v].seen.cs = vol[v].cs
                         /\ rq[v].seen.size = vol[v].size
  /\ rq[v].pc = "mark" => rq[v].seen.cs \in Usable
  /\ rq[v].pc = "restore" /\ rq[v].fresh =>
       \/ vol[v].cs = "Failed" /\ vol[v].prev # NoPrev
       \/ vol[v].cs = "Resized"
  /\ rq[v].pc \in {"lvg", "remove"} => vol[v].cs \in {"Removed", "gone"}
  /\ rq[v].pc = "lvg" => rq[v].act = "update" \/ ~ac.onLVG

\* Reconcile of a removal is not overtaken, unless a user has deleted the Volume;
\* one of a creation or an expansion may be, and then has left an LV all the same.
NodeOK(v) ==
  /\ nr[v].pc = "work" => nr[v].cs \in {"Creating", "Resizing", "Removing"}
  /\ nr[v].pc = "update" => nr[v].cs \in {"Created", "Resized", "Removed", "Failed"}
  /\ nr[v].pc = "work" /\ nr[v].cs = "Removing" =>
       vol[v].cs = "Removing" \/ vol[v].deleting
  /\ nr[v].pc = "update" /\ nr[v].cs = "Removed" =>
       vol[v].cs = "Removing" \/ vol[v].deleting
  /\ nr[v].pc = "update" /\ nr[v].cs \in {"Created", "Resized"} =>
       lv[v] # 0 \/ vol[v].deleting
  /\ vol[v].cs \in Absent \cup {"Removed"} => nr[v].pc = "idle"

\* The LVG has no volume group yet, or has gone without having had one.
NoGroup == lvg.status \in {"Creating", "Failed"} \/ (lvg.status = "gone" /\ ac.onLVG)

\* As long as there is no volume group the volumes have got nowhere.
NoGroupYet(v) ==
  NoGroup =>
    /\ lv[v] = 0 /\ vol[v].prev = NoPrev
    /\ vol[v].cs \in Absent \cup {"Creating", "Failed"}
    /\ rq[v].pc \in {"idle", "charge", "reserve"}
    /\ rq[v].pc = "reserve" => rq[v].seen.cs \in {"Creating", "Failed"}
    /\ nr[v].pc = "work" => nr[v].cs = "Creating"
    /\ nr[v].pc = "update" => nr[v].cs = "Failed"

\* v is not on the LVG, and cannot be put there again.
OffGroup(v) == vol[v].cs \in Absent \/ vol[v].deleting

Closed == (ac.onLVG => ac.size <= 0) /\ \A v \in Volume : OffGroup(v)

GroupOK ==
  /\ lc.pc \in {"vgcreate", "status"} => lvg.status = "Creating"
  /\ lc.pc = "vgcreate" => dev.pv
  /\ lvg.deleting /\ ac.onLVG => lvg.status = "Failed" /\ ac.size <= 0
  /\ lc.pc \in {"lvs", "vgremove", "pvremove", "finalizer"} => lvg.deleting /\ Closed
  /\ lc.pc \in {"pvremove", "finalizer"} => ~dev.vg
  /\ lvg.status = "gone" => Closed /\ ~lvg.deleting /\ ~dev.vg

VolumeInv(v) == VolumeOK(v) /\ RequestOK(v) /\ NodeOK(v) /\ NoGroupYet(v)

LVGInv == TypeOK /\ (\A v \in Volume : VolumeInv(v)) /\ GroupOK

-----------------------------------------------------------------------------
(* What makes SizeIsReal inductive, if all expand requests of a volume ask   *)
(* for the same size.                                                        *)

OneSizeAsked == \A a, b \in ExpandTo : AlignSizeByPE(a) = AlignSizeByPE(b)

AskedSizes == {AlignSizeByPE(size) : size \in ExpandTo}

\* A Volume to expand records the size asked for, and one its LV has.  Reconcile
\* of an expansion is not overtaken.
SizeOK(v) ==
  /\ vol[v].cs = "absent" => vol[v].prev = NoPrev
  /\ vol[v].prev # NoPrev =>
       vol[v].size \in AskedSizes /\ vol[v].prev.size < vol[v].size
  /\ rq[v].pc \in {"reserve", "mark"} => rq[v].bytes \in AskedSizes
  /\ lv[v] # 0 /\ vol[v].prev = NoPrev => vol[v].size <= lv[v]
  /\ lv[v] # 0 /\ vol[v].prev # NoPrev => vol[v].prev.size <= lv[v]
  /\ vol[v].cs = "Resized" /\ lv[v] # 0 => vol[v].size <= lv[v]
  /\ nr[v].pc = "work" /\ nr[v].cs = "Resizing" => vol[v].cs = "Resizing"
  /\ nr[v].pc = "update" /\ nr[v].cs = "Resized" =>
       vol[v].cs = "Resizing" /\ (lv[v] # 0 => vol[v].size <= lv[v])

SizeInv == LVGInv /\ OneSizeAsked /\ \A v \in Volume : SizeOK(v)

-----------------------------------------------------------------------------
(* What makes NoOvercommit inductive, if the handlers that write to two      *)
(* objects one after the other complete the pair of writes.                  *)

\* DeleteVolume has given the space back to the AC, and does not do so again.
Returned(v) ==
  \/ rq[v].pc \in {"lvg", "remove"}
  \/ vol[v].deleting /\ v \notin cached

\* UpdateCRsAfterVolumeExpansion has given back what a failed expansion took,
\* and is going to restore the size.
GivenBack(v) == rq[v].pc = "restore" /\ vol[v].cs = "Failed"

\* Reconcile has extended the LV, and is going to say so.
Extended(v) == nr[v].pc = "update" /\ nr[v].cs = "Resized"

\* The second write follows the first one, however long that takes: it is not
\* lost in an error, a restart, a conflict with another writer.  (Of the pair of
\* CreateVolume, which is made in Create and CreateCharge, nothing is assumed.)
PairCompleted ==
  ac.onLVG => \A v \in Volume :
    /\ Returned(v) => Returned(v)' \/ vol'[v].cs = "gone"
    /\ GivenBack(v) =>
         GivenBack(v)' \/ vol'[v].size = vol[v].prev.size \/ vol'[v].cs = "gone"
    /\ Extended(v) => Extended(v)' \/ vol'[v].cs = "Resized"

\* CreateVolume is going to take the space of v from the AC.
Charging(v) == rq[v].pc = "charge" /\ rq[v].fresh

\* What the AC has given for volume v, or should have, and has not got back.
Charge(v) ==
  IF vol[v].cs = "absent" \/ Returned(v) THEN 0
  ELSE IF vol[v].cs = "gone" THEN lv[v]
  ELSE IF GivenBack(v) THEN vol[v].prev.size
  ELSE IF rq[v].pc = "mark" /\ rq[v].fresh THEN rq[v].bytes
  ELSE vol[v].size

\* No LV is larger than its Volume says, or during an expansion than it said.
\* A new LV gets the Volume's size: before there is one, nothing is used or expanded.
FitOK(v) ==
  /\ lv[v] <= vol[v].size
  /\ vol[v].prev # NoPrev /\ vol[v].cs # "Resized" /\ ~Extended(v) =>
       lv[v] <= vol[v].prev.size
  /\ vol[v].cs = "Removed" \/ Returned(v) => lv[v] = 0
  /\ nr[v].pc = "update" /\ nr[v].cs = "Removed" => lv[v] = 0
  /\ vol[v].cs \in {"Resizing", "Resized"} => vol[v].prev # NoPrev
  /\ vol[v].cs = "Creating" => vol[v].prev = NoPrev
  /\ lv[v] = 0 /\ nr[v].pc = "work" /\ nr[v].cs = "Creating" =>
       vol[v].prev = NoPrev /\ vol[v].cs \notin Usable
  /\ nr[v].pc # "idle" /\ nr[v].fresh =>
       \/ vol[v].cs \in {"Creating", "Resizing", "Removing"}
       \/ vol[v].cs = "Created" /\ nr[v].cs \in {"Removing", "Removed", "Failed"}
  /\ Exists(v) /\ v \notin cached => vol[v].cs = "Removed"

\* A request that waits is the one that has brought about what it waits for.
WaitOK(v) ==
  /\ rq[v].pc \in {"reserve", "mark"} => rq[v].op = "expand"
  /\ rq[v].pc = "reserve" => rq[v].seen.cs \notin {"Resizing", "Resized"}
  /\ rq[v].pc = "restore" \/ (rq[v].pc = "wait" /\ rq[v].op = "expand") =>
       vol[v].prev # NoPrev /\ rq[v].bytes \in AskedSizes
  /\ rq[v].pc = "wait" /\ rq[v].op = "delete" => v \in cached

\* Only one request can be about to take space from the AC, which has it.
ChargeOK ==
  /\ \A v \in Volume : Charging(v) => rq[v].bytes <= ac.size
  /\ \A v, w \in Volume : Charging(v) /\ Charging(w) => v = w

AccountInv ==
  /\ SizeInv
  /\ ac.onLVG =>
       /\ \A v \in Volume : FitOK(v) /\ WaitOK(v)
       /\ ChargeOK
       /\ ac.size >= 0
       /\ ac.size + Total([v \in Volume |-> Charge(v)]) <= VGSize + unpaid
=============================================================================
