-------------------------- MODULE DriveReplacement --------------------------
(***************************************************************************)
(* The replacement of one drive and the volumes on it.                     *)
(*                                                                         *)
(*   pkg/crcontrollers/drive     Reconcile of the Drive object             *)
(*   pkg/node/volumemgr.go       Discover: health and status of the drive, *)
(*                               handed on to the volumes; Reconcile of a  *)
(*                               Volume: release and removal               *)
(*   pkg/node/node.go            fake attach of a volume that is staged    *)
(*   pkg/base/k8s/cr_helper.go   how one finds the other                   *)
(*                                                                         *)
(* The Drive and Volume objects are all these parts share.  An update is   *)
(* refused when the object has changed since it was read.  Between a read  *)
(* and the update of another object everything may happen, a read and the  *)
(* update of the same object with nothing in between is one step.          *)
(* SUSPECT is BAD here: the code treats them alike but for events.         *)
(***************************************************************************)
EXTENDS FiniteSets, Naturals

CONSTANTS
  Volume,      \* the volumes on the drive
  OnLVG,       \* they are logical volumes of a group on the drive
  FakeAttach,  \* volumes whose claim has the annotation fake-attach=allow
  Answers,     \* input: what operators answer to a release, done or failed
  Requests,    \* input: annotations a user puts on the Drive
  EarlyDelete, \* input: volumes are deleted before their drive is being removed
  MaxRequests, \* bound on their number
  MaxChanges,  \* bound on the changes of the hardware
  Faults,      \* which faults happen: api, device
  MaxFaults    \* bound on their number

ASSUME DriveReplacementAssumption ==
  /\ OnLVG \in BOOLEAN
  /\ OnLVG \/ (IsFiniteSet(Volume) /\ Cardinality(Volume) <= 1)
  /\ FakeAttach \subseteq Volume
  /\ Answers \subseteq {"done", "failed"}
  /\ Requests \subseteq {"removal", "add", "remove"}
  /\ EarlyDelete \in BOOLEAN
  /\ Faults \subseteq {"api", "device"}
  /\ MaxRequests \in Nat /\ MaxChanges \in Nat /\ MaxFaults \in Nat

VARIABLES
  hw,      \* the hardware, as the drive manager reports it
  data,    \* volumes whose data is on the drive
  drive,   \* the Drive object with its annotations
  vol,     \* the Volume objects with their annotations
  event,   \* the drive controller has a request to reconcile the Drive
  dc,      \* the drive controller and its copy of the Drive
  nr,      \* Reconcile of a Volume: what it still has to write to the Drive
  disc,    \* Discover: the health it still has to hand on to the volumes
  spent    \* the inputs and faults so far

vars == <<hw, data, drive, vol, event, dc, nr, disc, spent>>

Health == {"GOOD", "BAD", "UNKNOWN"}
Usage == {"IN_USE", "RELEASING", "RELEASED", "REMOVING", "REMOVED", "FAILED"}
Usable == {"Created", "Published"}

DriveState ==
  [status : {"ONLINE", "OFFLINE"}, health : Health,
   usage : Usage \cup {"absent"}, clean : BOOLEAN,
   released : SUBSET Volume,      \* annotations status/<volume>=RELEASED
   removal : BOOLEAN,             \* annotation removal=ready
   action : {"none", "add", "remove"},
   allFA : BOOLEAN]               \* annotation all-dr-volumes-fake-attached

VolState ==
  [cs : Usable \cup {"Removing", "Removed", "Failed", "gone"},
   health : Health, usage : {"IN_USE", "RELEASING", "RELEASED", "FAILED"},
   op : {"OPERATIVE", "MISSING"}, release : {"none", "done", "failed"},
   fa : BOOLEAN]                  \* annotation fake-attach=yes

TypeOK ==
  /\ hw \in [present : BOOLEAN, health : Health]
  /\ data \subseteq Volume
  /\ drive \in DriveState
  /\ vol \in [Volume -> VolState]
  /\ event \in BOOLEAN
  /\ dc \in [pc : {"idle", "status", "decide", "update", "delete"},
             copy : DriveState, fresh : BOOLEAN]
  /\ nr \in [Volume -> {"idle", "RELEASED", "FAILED", "finalizer"}]
  /\ disc \in Health \cup {"idle"}
  /\ spent \in [requests : 0 .. MaxRequests, changes : 0 .. MaxChanges,
                faults : 0 .. MaxFaults]

InitDrive ==
  [status |-> "ONLINE", health |-> "GOOD", usage |-> "IN_USE",
   clean |-> Volume = {}, released |-> {}, removal |-> FALSE,
   action |-> "none", allFA |-> FALSE]

\* Discover has seen a healthy drive with the volumes on it, and the drive
\* has gone bad since.
Init ==
  /\ hw = [present |-> TRUE, health |-> "BAD"]
  /\ data = Volume
  /\ drive = InitDrive
  /\ vol = [v \in Volume |->
              [cs |-> "Created", health |-> "GOOD", usage |-> "IN_USE",
               op |-> "OPERATIVE", release |-> "none", fa |-> FALSE]]
  /\ event = FALSE
  /\ dc = [pc |-> "idle", copy |-> InitDrive, fresh |-> TRUE]
  /\ nr = [v \in Volume |-> "idle"]
  /\ disc = "idle"
  /\ spent = [requests |-> 0, changes |-> 0, faults |-> 0]

-----------------------------------------------------------------------------

Known == drive.usage # "absent"

\* GetVolumesByLocation
Volumes == {v \in Volume : vol[v].cs # "gone"}

MayDelete == EarlyDelete \/ drive.usage \notin {"IN_USE", "RELEASING", "RELEASED"}

Spend(kind, max) == spent[kind] < max /\ spent' = [spent EXCEPT ![kind] = @ + 1]

Fault(kind) == kind \in Faults /\ Spend("faults", MaxFaults)

\* An update of the Drive by anyone but the drive controller: the copy of
\* the controller is stale, and the controller gets a request.
Put(d) ==
  /\ drive' = d
  /\ event' = (event \/ d # drive)
  /\ dc' = IF d = drive \/ dc.pc = "idle" THEN dc ELSE [dc EXCEPT !.fresh = FALSE]

-----------------------------------------------------------------------------
(* The drive controller                                                    *)

Done == [pc |-> "idle", copy |-> InitDrive, fresh |-> TRUE]

\* Return with an error or with RequeueAfter.
DcRequeue == dc' = Done /\ event' = TRUE

DcRead ==
  /\ dc.pc = "idle" /\ event
  /\ event' = FALSE
  /\ dc' = IF Known THEN [pc |-> "status", copy |-> drive, fresh |-> TRUE] ELSE dc
  /\ UNCHANGED <<hw, data, drive, vol, nr, disc, spent>>

\* handleDriveStatus for the volumes in V
WithOpStatus(V) ==
  [v \in Volume |->
     IF v \notin V THEN vol[v]
     ELSE IF dc.copy.status = "OFFLINE" THEN [vol[v] EXCEPT !.op = "MISSING"]
     ELSE [vol[v] EXCEPT !.op = "OPERATIVE"]]

HandleDriveStatus ==
  /\ dc.pc = "status"
  /\ vol' = WithOpStatus(Volumes)
  /\ dc' = [dc EXCEPT !.pc = "decide"]
  /\ UNCHANGED <<hw, data, drive, event, nr, disc, spent>>

\* The update of one of the volumes is refused.
HandleDriveStatusFails ==
  /\ dc.pc = "status"
  /\ Fault("api")
  /\ \E V \in SUBSET Volumes : V # Volumes /\ vol' = WithOpStatus(V)
  /\ DcRequeue
  /\ UNCHANGED <<hw, data, drive, nr, disc>>

Decide(usage) == dc.pc = "decide" /\ dc.copy.usage = usage

\* The volumes are left alone and the copy is going to be written.
DcWrite(d) ==
  /\ dc' = [dc EXCEPT !.pc = "update", !.copy = d]
  /\ UNCHANGED <<hw, data, drive, vol, event, nr, disc>>

\* Nothing to do until the Drive changes again.
DcIgnore ==
  /\ dc' = Done
  /\ UNCHANGED <<hw, data, drive, vol, event, nr, disc, spent>>

HandleInUse ==
  /\ Decide("IN_USE")
  /\ IF dc.copy.health = "BAD"
       THEN DcWrite([dc.copy EXCEPT !.usage = "RELEASING"]) /\ UNCHANGED spent
       ELSE DcIgnore

HandleDriveUsageReleasing ==
  /\ Decide("RELEASING")
  /\ IF Volumes \subseteq dc.copy.released
       THEN DcWrite([dc.copy EXCEPT !.usage = "RELEASED"]) /\ UNCHANGED spent
       ELSE DcIgnore

\* checkAndPlaceStatusInUse
ReturnedToUse(d) == [d EXCEPT !.usage = "IN_USE", !.action = "none"]

\* Mutant: a drive that is missing is removed without being asked for.
MayRemoveMissing(d) == d.clean \/ d.allFA \/ d.removal \/ d.status = "OFFLINE"

MayRemove(d) == d.clean \/ d.allFA \/ d.removal

\* updateVolumeAnnotations tells the operators, who read removal=ready on the
\* volumes.
HandleReleased ==
  /\ Decide("RELEASED")
  /\ CASE dc.copy.action = "add" -> DcWrite(ReturnedToUse(dc.copy)) /\ UNCHANGED spent
       [] dc.copy.action # "add" /\ MayRemove(dc.copy) ->
            DcWrite([dc.copy EXCEPT !.usage = "REMOVING"]) /\ UNCHANGED spent
       [] OTHER -> DcIgnore

\* It is refused for one of the volumes.
HandleReleasedFails ==
  /\ Decide("RELEASED") /\ dc.copy.action # "add" /\ MayRemove(dc.copy)
  /\ Volumes # {}
  /\ Fault("api")
  /\ DcRequeue
  /\ UNCHANGED <<hw, data, drive, vol, nr, disc>>

\* Mutant: a MISSING volume is taken for a removed one.
AllRemovedOrMissing ==
  \A v \in Volumes :
    \/ vol[v].fa \/ vol[v].op = "MISSING" \/ (vol[v].cs = "Removed" /\ ~OnLVG)

\* checkAllVolsWithoutFakeAttachRemoved, checkAllLVGVolsWithoutFakeAttachRemoved
AllRemoved ==
  \A v \in Volumes : vol[v].fa \/ (vol[v].cs = "Removed" /\ ~OnLVG)

HandleDriveUsageRemoving ==
  /\ Decide("REMOVING")
  /\ IF AllRemoved
       THEN DcWrite([dc.copy EXCEPT !.usage = "REMOVED"]) /\ UNCHANGED spent
       ELSE DcRequeue /\ UNCHANGED <<hw, data, drive, vol, nr, disc, spent>>

\* locateDriveLED fails: the drive is FAILED.  LocateNode, for a drive that
\* is missing, fails: the request is repeated.
LocateFails ==
  /\ Decide("REMOVING") /\ AllRemoved
  /\ Fault("device")
  /\ IF dc.copy.status = "ONLINE"
       THEN DcWrite([dc.copy EXCEPT !.usage = "FAILED"])
       ELSE DcRequeue /\ UNCHANGED <<hw, data, drive, vol, nr, disc>>

\* The node LED is switched off, the AC deleted, the storage group told.
HandleDriveUsageRemoved ==
  /\ Decide("REMOVED")
  /\ IF dc.copy.status = "OFFLINE"
       THEN /\ dc' = [dc EXCEPT !.pc = "delete"]
            /\ UNCHANGED <<hw, data, drive, vol, event, nr, disc, spent>>
       ELSE DcIgnore

HandleDriveUsageRemovedFails ==
  /\ Decide("REMOVED") /\ dc.copy.status = "OFFLINE"
  /\ Fault("api")
  /\ DcRequeue
  /\ UNCHANGED <<hw, data, drive, vol, nr, disc>>

\* changeVolumeUsageAfterActionAnnotation for the volumes in V
WithUsageReset(V) ==
  [v \in Volume |->
     IF v \in V /\ vol[v].release = "failed"
     THEN [vol[v] EXCEPT !.usage = "IN_USE", !.release = "none"] ELSE vol[v]]

HandleFailed ==
  /\ Decide("FAILED")
  /\ CASE dc.copy.action = "add" ->
            /\ vol' = WithUsageReset(Volumes)
            /\ dc' = [dc EXCEPT !.pc = "update", !.copy = ReturnedToUse(dc.copy)]
            /\ UNCHANGED <<hw, data, drive, event, nr, disc, spent>>
       [] dc.copy.action = "remove" ->
            DcWrite([dc.copy EXCEPT !.usage = "REMOVED", !.action = "none"])
            /\ UNCHANGED spent
       [] OTHER -> DcIgnore

HandleFailedFails ==
  /\ Decide("FAILED") /\ dc.copy.action = "add"
  /\ Fault("api")
  /\ \E V \in SUBSET Volumes : V # Volumes /\ vol' = WithUsageReset(V)
  /\ DcRequeue
  /\ UNCHANGED <<hw, data, drive, nr, disc>>

\* UpdateCR: a stale copy is refused, and the request is repeated.
DcUpdate ==
  /\ dc.pc = "update"
  /\ drive' = IF dc.fresh THEN dc.copy ELSE drive
  /\ event' = TRUE
  /\ dc' = Done
  /\ UNCHANGED <<hw, data, vol, nr, disc, spent>>

\* DeleteCR asks for no version of the object.
DcDelete ==
  /\ dc.pc = "delete"
  /\ drive' = [drive EXCEPT !.usage = "absent"]
  /\ dc' = Done
  /\ UNCHANGED <<hw, data, vol, event, nr, disc, spent>>

DriveController ==
  \/ DcRead \/ HandleDriveStatus \/ HandleInUse \/ HandleDriveUsageReleasing
  \/ HandleReleased \/ HandleDriveUsageRemoving \/ HandleDriveUsageRemoved
  \/ HandleFailed \/ DcUpdate \/ DcDelete

DriveControllerFails ==
  \/ HandleDriveStatusFails \/ HandleReleasedFails \/ LocateFails
  \/ HandleDriveUsageRemovedFails \/ HandleFailedFails

-----------------------------------------------------------------------------
(* Discover on the node                                                    *)

Reported(d) ==
  [d EXCEPT !.status = IF hw.present THEN "ONLINE" ELSE "OFFLINE",
            !.health = IF hw.present THEN hw.health ELSE "UNKNOWN"]

\* updateDrivesCRs.  A drive that is not reported is updated every time.
UpdateDrivesCRs ==
  /\ disc = "idle" /\ Known
  /\ Reported(drive) # drive \/ ~hw.present
  /\ disc' = Reported(drive).health
  /\ Put(Reported(drive))
  /\ UNCHANGED <<hw, data, vol, nr, spent>>

\* handleDriveStatusChange for the volumes in V
WithHealth(V) ==
  [v \in Volume |->
     IF v \notin V \/ vol[v].health = disc THEN vol[v]
     ELSE [vol[v] EXCEPT !.health = disc,
                         !.usage = IF disc = "BAD" /\ @ = "IN_USE" THEN "RELEASING" ELSE @]]

HandleDriveStatusChange ==
  /\ disc # "idle"
  /\ vol' = WithHealth(Volumes)
  /\ disc' = "idle"
  /\ UNCHANGED <<hw, data, drive, event, dc, nr, spent>>

\* Updates that are refused are logged and forgotten, those of a node that
\* restarts are lost.
HandleDriveStatusChangeFails ==
  /\ disc # "idle"
  /\ Fault("api")
  /\ \E V \in SUBSET Volumes : V # Volumes /\ vol' = WithHealth(V)
  /\ disc' = "idle"
  /\ UNCHANGED <<hw, data, drive, event, dc, nr>>

\* discoverDataOnDrives.  The location of a logical volume is its group, so
\* there the drive is asked for data.
DiscoverDataOnDrives ==
  /\ disc = "idle" /\ Known
  /\ LET occupied == ~OnLVG /\ Volumes # {}
         clean == ~occupied /\ data = {}
     IN /\ occupied \/ hw.present
        /\ clean # drive.clean
        /\ Put([drive EXCEPT !.clean = clean])
  /\ UNCHANGED <<hw, data, vol, nr, disc, spent>>

Discover == UpdateDrivesCRs \/ HandleDriveStatusChange \/ DiscoverDataOnDrives

-----------------------------------------------------------------------------
(* Reconcile of a Volume on the node                                       *)

\* Mutant: the operator's answer is copied to the usage as it is.
UpdateVolumeUsageAsAnswered(v) ==
  /\ nr[v] = "idle" /\ v \in Volumes
  /\ vol[v].cs # "Removing"
  /\ vol[v].usage = "RELEASING" /\ vol[v].release # "none"
  /\ vol' = [vol EXCEPT ![v].usage = vol[v].release]
  /\ UNCHANGED <<hw, data, drive, event, dc, nr, disc, spent>>

\* updateVolumeAndDriveUsageStatus: the Volume is written first.
UpdateVolumeUsage(v) ==
  /\ nr[v] = "idle" /\ v \in Volumes
  /\ vol[v].cs # "Removing"
  /\ vol[v].usage = "RELEASING" /\ vol[v].release # "none"
  /\ LET usage == IF vol[v].release = "done" THEN "RELEASED" ELSE "FAILED"
     IN /\ vol' = [vol EXCEPT ![v].usage = usage]
        /\ nr' = [nr EXCEPT ![v] = usage]
  /\ UNCHANGED <<hw, data, drive, event, dc, disc, spent>>

\* Mutant: the volume is noted only on a drive that is RELEASING already.
RetryDriveUpdateInTime(v) ==
  /\ nr[v] \in {"RELEASED", "FAILED"}
  /\ nr' = [nr EXCEPT ![v] = "idle"]
  /\ IF Known /\ drive.usage = "RELEASING"
       THEN Put(IF nr[v] = "FAILED" THEN [drive EXCEPT !.usage = "FAILED"]
                ELSE [drive EXCEPT !.released = @ \cup {v}])
       ELSE UNCHANGED <<drive, event, dc>>
  /\ UNCHANGED <<hw, data, vol, disc, spent>>

\* retryDriveUpdate, whatever the usage of the drive is by now
RetryDriveUpdate(v) ==
  /\ nr[v] \in {"RELEASED", "FAILED"}
  /\ nr' = [nr EXCEPT ![v] = "idle"]
  /\ IF Known
       THEN Put(IF nr[v] = "FAILED" THEN [drive EXCEPT !.usage = "FAILED"]
                ELSE [drive EXCEPT !.usage = "RELEASING", !.released = @ \cup {v}])
       ELSE UNCHANGED <<drive, event, dc>>
  /\ UNCHANGED <<hw, data, vol, disc, spent>>

\* All attempts are refused, or the node restarts before the first: the next
\* Reconcile finds nothing to do.
RetryDriveUpdateFails(v) ==
  /\ nr[v] \in {"RELEASED", "FAILED"}
  /\ Fault("api")
  /\ nr' = [nr EXCEPT ![v] = "idle"]
  /\ UNCHANGED <<hw, data, drive, vol, event, dc, disc>>

\* performVolumeRemoving.  A MISSING volume is not touched.
PerformVolumeRemoving(v) ==
  /\ nr[v] = "idle" /\ vol[v].cs = "Removing"
  /\ vol[v].op = "MISSING" \/ (Known /\ hw.present)
  /\ data' = IF vol[v].op = "MISSING" THEN data ELSE data \ {v}
  /\ vol' = [vol EXCEPT ![v].cs = "Removed"]
  /\ UNCHANGED <<hw, drive, event, dc, nr, disc, spent>>

\* ReleaseVolume fails: first the Drive is FAILED, then the Volume.
PerformVolumeRemovingFails(v) ==
  /\ nr[v] = "idle" /\ vol[v].cs = "Removing" /\ vol[v].op # "MISSING" /\ Known
  /\ IF hw.present THEN Fault("device") ELSE UNCHANGED spent
  /\ Put([drive EXCEPT !.usage = "FAILED"])
  /\ \/ vol' = [vol EXCEPT ![v].cs = "Failed"]
     \/ UNCHANGED vol                            \* refused, will be repeated
  /\ UNCHANGED <<hw, data, nr, disc>>

\* The object of a volume is deleted when the volume is removed, and by hand
\* when its removal has failed.
Deleted(v) ==
  \/ vol[v].cs = "Removed"
  \/ vol[v].cs = "Failed" /\ MayDelete

\* The Volume is being deleted: its annotation on the Drive goes first, and
\* an update that is refused is only logged.
RemoveVolumeAnnotation(v) ==
  /\ nr[v] = "idle" /\ Deleted(v)
  /\ nr' = [nr EXCEPT ![v] = "finalizer"]
  /\ IF Known THEN Put([drive EXCEPT !.released = @ \ {v}])
              ELSE UNCHANGED <<drive, event, dc>>
  /\ UNCHANGED <<hw, data, vol, disc, spent>>

RemoveVolumeAnnotationFails(v) ==
  /\ nr[v] = "idle" /\ Deleted(v) /\ Known
  /\ Fault("api")
  /\ nr' = [nr EXCEPT ![v] = "finalizer"]
  /\ UNCHANGED <<hw, data, drive, vol, event, dc, disc>>

RemoveFinalizer(v) ==
  /\ nr[v] = "finalizer"
  /\ nr' = [nr EXCEPT ![v] = "idle"]
  /\ vol' = [vol EXCEPT ![v].cs = "gone", ![v].usage = "IN_USE", ![v].release = "none",
                        ![v].fa = FALSE, ![v].op = "OPERATIVE",
                        ![v].health = "GOOD"]
  /\ UNCHANGED <<hw, data, drive, event, dc, disc, spent>>

VolumeReconcile(v) ==
  \/ UpdateVolumeUsage(v) \/ RetryDriveUpdate(v) \/ PerformVolumeRemoving(v)
  \/ RemoveVolumeAnnotation(v) \/ RemoveFinalizer(v)

-----------------------------------------------------------------------------
(* Staging and publishing: what it does to the Volume's annotations        *)

\* isFakeAttachNeed
FakeAttachDR(v) ==
  /\ v \in FakeAttach /\ Known
  /\ drive.allFA \/ (drive.usage = "RELEASED" /\ drive.status = "ONLINE")

\* A drive that is gone cannot be mounted, a bad one perhaps not.
MountErrors == IF ~hw.present THEN {TRUE}
               ELSE IF hw.health = "GOOD" THEN {FALSE} ELSE BOOLEAN

NodeStageVolume(v) ==
  /\ vol[v].cs \in {"Created", "Published", "Failed"}
  /\ \E err \in MountErrors :
       LET fake == FakeAttachDR(v) \/ (err /\ v \in FakeAttach)
       IN vol' = [vol EXCEPT
            ![v].cs = IF err /\ ~fake THEN "Failed" ELSE "Published",
            ![v].fa = IF err /\ ~fake THEN @ ELSE fake,
            ![v].op = IF fake THEN "MISSING" ELSE @]
  /\ UNCHANGED <<hw, data, drive, event, dc, nr, disc, spent>>

\* annotateIfAllDRVolsFakeAttached follows the update of the Volume.
NodePublishVolume(v) ==
  /\ vol[v].cs = "Published"
  /\ Known /\ drive.status = "ONLINE" /\ \A w \in Volumes : vol[w].fa
  /\ Put([drive EXCEPT !.allFA = TRUE])
  /\ UNCHANGED <<hw, data, vol, nr, disc, spent>>

\* NodeUnpublishVolume and NodeUnstageVolume
NodeUnstageVolume(v) ==
  /\ vol[v].cs = "Published"
  /\ vol' = [vol EXCEPT ![v].cs = "Created"]
  /\ UNCHANGED <<hw, data, drive, event, dc, nr, disc, spent>>

NodeRPC(v) == NodeStageVolume(v) \/ NodePublishVolume(v) \/ NodeUnstageVolume(v)

-----------------------------------------------------------------------------
(* Operators, users and the hardware                                       *)

\* The operator of an application answers release=done or release=failed.
AnswerRelease(v) ==
  /\ v \in Volumes /\ vol[v].usage = "RELEASING" /\ vol[v].release = "none"
  /\ \E a \in Answers : vol' = [vol EXCEPT ![v].release = a]
  /\ UNCHANGED <<hw, data, drive, event, dc, nr, disc, spent>>

\* DeleteVolume, for the claim has been deleted
DeleteVolume(v) ==
  /\ vol[v].cs = "Created" /\ MayDelete
  /\ vol' = [vol EXCEPT ![v].cs = "Removing"]
  /\ UNCHANGED <<hw, data, drive, event, dc, nr, disc, spent>>

Annotate(a) ==
  /\ Known
  /\ Spend("requests", MaxRequests)
  /\ Put(IF a = "removal" THEN [drive EXCEPT !.removal = TRUE]
                          ELSE [drive EXCEPT !.action = a])
  /\ UNCHANGED <<hw, data, vol, nr, disc>>

\* A drive goes bad or recovers, is pulled out or put in again.
HardwareChanges ==
  /\ Spend("changes", MaxChanges)
  /\ \/ hw' = [hw EXCEPT !.present = ~@]
     \/ \E h \in {"GOOD", "BAD"} \ {hw.health} : hw' = [hw EXCEPT !.health = h]
  /\ UNCHANGED <<data, drive, vol, event, dc, nr, disc>>

Next ==
  \/ DriveController \/ DriveControllerFails
  \/ Discover \/ HandleDriveStatusChangeFails
  \/ \E v \in Volume :
       \/ VolumeReconcile(v) \/ RetryDriveUpdateFails(v)
       \/ PerformVolumeRemovingFails(v) \/ RemoveVolumeAnnotationFails(v)
       \/ NodeRPC(v) \/ AnswerRelease(v) \/ DeleteVolume(v)
  \/ \E a \in Requests : Annotate(a)
  \/ HardwareChanges

Spec == Init /\ [][Next]_vars

\* The controllers work on, and so do the operators and the user: owners
\* release their volumes and delete them when the drive is being removed, the
\* user gives his consent.
FairSpec ==
  /\ Spec
  /\ WF_vars(DriveController) /\ WF_vars(Discover)
  /\ \A v \in Volume :
       /\ WF_vars(VolumeReconcile(v)) /\ WF_vars(AnswerRelease(v))
       /\ SF_vars(drive.usage = "REMOVING" /\ (NodeUnstageVolume(v) \/ DeleteVolume(v)))
       /\ SF_vars(drive.usage = "REMOVING" /\ DeleteVolume(v))
  /\ WF_vars(drive.usage = "RELEASED" /\ ~drive.removal /\ Annotate("removal"))

-----------------------------------------------------------------------------
(* Properties                                                              *)

Held == {v \in Volumes : vol[v].usage # "RELEASED"}
Live == {v \in Volumes : vol[v].cs # "Removed" /\ ~vol[v].fa}

\* What the drive controller has read and decided and not written yet.
Verdict ==
  IF dc.pc = "update" /\ dc.fresh /\ drive.usage = "REMOVING" /\ dc.copy.usage = "REMOVED"
    THEN "removable"
  ELSE IF /\ dc.pc \in {"status", "decide", "delete"}
          /\ dc.copy.usage = "REMOVED" /\ dc.copy.status = "OFFLINE" THEN "deletable"
  ELSE "none"

Abstract == INSTANCE DriveLifecycle WITH
  usage <- drive.usage, held <- Held, live <- Live, verdict <- Verdict

\* The controllers implement the lifecycle promised to the owners: the drive
\* is RELEASED only after every owner has released his volume (the annotations
\* handleDriveUsageReleasing counts are written by another process, after the
\* Volume, and removed again), it is REMOVED only after none of its volumes
\* was live or because the user forces it, FAILED is left only by the user's
\* answer or a late release, and the object goes last.
ImplementsLifecycle == Abstract!Lifecycle

\* A drive is being removed only with the user's consent, or when there is no
\* data on it, or when nothing but fake devices is left of its volumes: the
\* flag IsClean and the annotation all-dr-volumes-fake-attached by which
\* handleDriveUpdate starts a removal by itself are not out of date.
RemovedWithConsent ==
  [][drive.usage # "REMOVING" /\ drive'.usage = "REMOVING"
       => drive.removal \/ data = {} \/ Live = {}]_vars

\* A drive that is found to be bad is REMOVED or FAILED in the end, when the
\* owners release their volumes and delete them once the drive is being
\* removed: none of the requests the drive controller ignores is the last.
BadDriveIsRemoved ==
  [](drive.health = "BAD" => <>(drive.usage \in {"REMOVED", "FAILED", "absent"}))
=============================================================================
