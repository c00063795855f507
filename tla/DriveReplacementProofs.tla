----------------------- MODULE DriveReplacementProofs ------------------------
(***************************************************************************)
(* Proofs about module DriveReplacement, for every value of its constants: *)
(* TypeOK, that it implements DriveLifecycle, and RemovedWithConsent.      *)
(***************************************************************************)
EXTENDS DriveReplacement, TLAPS

-----------------------------------------------------------------------------
(* Types                                                                   *)

\* TypeOK in parts.
HwType == hw \in [present : BOOLEAN, health : Health]
DataType == data \subseteq Volume
DriveType == drive \in DriveState
VolType == vol \in [Volume -> VolState]
DcState == [pc : {"idle", "status", "decide", "update", "delete"},
            copy : DriveState, fresh : BOOLEAN]
DcType == event \in BOOLEAN /\ dc \in DcState
NrType == nr \in [Volume -> {"idle", "RELEASED", "FAILED", "finalizer"}]
DiscType == disc \in Health \cup {"idle"}
SpentType == spent \in [requests : 0 .. MaxRequests, changes : 0 .. MaxChanges,
                        faults : 0 .. MaxFaults]

\* TypeOK is the conjunction of its parts, so that a step shows only those it
\* touches.
LEMMA TypeParts ==
  /\ TypeOK <=> /\ HwType /\ DataType /\ DriveType /\ VolType /\ DcType
                /\ NrType /\ DiscType /\ SpentType
  /\ TypeOK' <=> /\ HwType' /\ DataType' /\ DriveType' /\ VolType' /\ DcType'
                 /\ NrType' /\ DiscType' /\ SpentType'
BY Zenon DEF TypeOK, HwType, DataType, DriveType, VolType, DcState, DcType, NrType, DiscType,
             SpentType

\* A part of TypeOK whose variables do not change is kept.
LEMMA UnchangedTypes ==
  /\ HwType /\ UNCHANGED hw => HwType'
  /\ DataType /\ UNCHANGED data => DataType'
  /\ DriveType /\ UNCHANGED drive => DriveType'
  /\ VolType /\ UNCHANGED vol => VolType'
  /\ DcType /\ UNCHANGED <<event, dc>> => DcType'
  /\ NrType /\ UNCHANGED nr => NrType'
  /\ DiscType /\ UNCHANGED disc => DiscType'
  /\ SpentType /\ UNCHANGED spent => SpentType'
<1>1. HwType /\ UNCHANGED hw => HwType'
  BY DEF HwType
<1>2. DataType /\ UNCHANGED data => DataType'
  BY DEF DataType
<1>3. DriveType /\ UNCHANGED drive => DriveType'
  BY DEF DriveType
<1>4. VolType /\ UNCHANGED vol => VolType'
  BY DEF VolType
<1>5. DcType /\ UNCHANGED <<event, dc>> => DcType'
  BY DEF DcType
<1>6. NrType /\ UNCHANGED nr => NrType'
  BY DEF NrType
<1>7. DiscType /\ UNCHANGED disc => DiscType'
  BY DEF DiscType
<1>8. SpentType /\ UNCHANGED spent => SpentType'
  BY DEF SpentType
<1> QED
  BY <1>1, <1>2, <1>3, <1>4, <1>5, <1>6, <1>7, <1>8

\* An input or a fault leaves the counters within their bounds.
LEMMA Spending ==
  /\ SpentType /\ Spend("requests", MaxRequests) => SpentType'
  /\ SpentType /\ Spend("changes", MaxChanges) => SpentType'
  /\ SpentType /\ Spend("faults", MaxFaults) => SpentType'
  /\ \A kind : SpentType /\ Fault(kind) => SpentType'
<1>1. SpentType /\ Spend("requests", MaxRequests) => SpentType'
  BY DriveReplacementAssumption DEF SpentType, Spend
<1>2. SpentType /\ Spend("changes", MaxChanges) => SpentType'
  BY DriveReplacementAssumption DEF SpentType, Spend
<1>3. SpentType /\ Spend("faults", MaxFaults) => SpentType'
  BY DriveReplacementAssumption DEF SpentType, Spend
<1>4. ASSUME NEW kind, SpentType, Fault(kind) PROVE SpentType'
  BY <1>3, <1>4 DEF Fault
<1> QED
  BY <1>1, <1>2, <1>3, <1>4

\* Put writes the object it is given.
LEMMA PutType ==
  ASSUME NEW d \in DriveState, DcType, Put(d)
  PROVE  DriveType' /\ DcType'
<1>1. DriveType'
  BY DEF Put, DriveType
<1>2. event' \in BOOLEAN
  BY Zenon DEF Put, DcType
<1>3. dc' \in DcState
  <2>1. [dc EXCEPT !.fresh = FALSE] \in DcState
    BY DEF DcType, DcState
  <2> QED
    BY <2>1, Zenon DEF Put, DcType
<1> QED
  BY <1>1, <1>2, <1>3 DEF DcType

\* What the drive controller makes of its copy.
LEMMA DriveUpdates ==
  ASSUME NEW d \in DriveState
  PROVE  /\ \A u \in Usage \cup {"absent"} : [d EXCEPT !.usage = u] \in DriveState
         /\ \A u \in Usage : [d EXCEPT !.usage = u, !.action = "none"] \in DriveState
         /\ ReturnedToUse(d) \in DriveState
<1>1. \A u \in Usage \cup {"absent"} : [d EXCEPT !.usage = u] \in DriveState
  BY DEF DriveState
<1>2. \A u \in Usage : [d EXCEPT !.usage = u, !.action = "none"] \in DriveState
  BY DEF DriveState
<1>3. ReturnedToUse(d) \in DriveState
  BY DEF ReturnedToUse, DriveState, Usage
<1> QED
  BY <1>1, <1>2, <1>3

\* A copy to be written, and the controller at rest.
LEMMA CopyTypes ==
  /\ DcType /\ UNCHANGED event => \A d \in DriveState : DcWrite(d) => DcType'
  /\ Done \in DcState
  /\ DcRequeue => DcType'
  /\ DcType /\ DcIgnore => DcType'
<1>1. InitDrive \in DriveState
  BY DEF InitDrive, DriveState, Health, Usage
<1>2. Done \in DcState
  BY <1>1 DEF Done, DcState
<1>3. DcRequeue => DcType'
  BY <1>2 DEF DcRequeue, DcType
<1>4. DcType /\ DcIgnore => DcType'
  BY <1>2 DEF DcIgnore, DcType
<1>5. ASSUME DcType, UNCHANGED event, NEW d \in DriveState, DcWrite(d) PROVE DcType'
  BY <1>5 DEF DcWrite, DcType, DcState
<1> QED
  BY <1>2, <1>3, <1>4, <1>5

\* What the drive controller does to volumes.
LEMMA ControllerVolumes ==
  ASSUME VolType, NEW V \in SUBSET Volume
  PROVE  /\ WithOpStatus(V) \in [Volume -> VolState]
         /\ WithUsageReset(V) \in [Volume -> VolState]
<1>1. ASSUME NEW v \in Volume, NEW o \in {"OPERATIVE", "MISSING"}
      PROVE  vol[v] \in VolState /\ [vol[v] EXCEPT !.op = o] \in VolState
  BY DEF VolType, VolState
<1>2. ASSUME NEW v \in Volume
      PROVE  [vol[v] EXCEPT !.usage = "IN_USE", !.release = "none"] \in VolState
  BY DEF VolType, VolState
<1>3. WithOpStatus(V) \in [Volume -> VolState]
  BY <1>1 DEF WithOpStatus
<1>4. WithUsageReset(V) \in [Volume -> VolState]
  BY <1>1, <1>2 DEF WithUsageReset
<1> QED
  BY <1>3, <1>4

\* The drive controller's steps, one case of handleDriveUpdate after the other.
LEMMA DriveControllerType ==
  ASSUME TypeOK, DriveController
  PROVE  TypeOK'
<1>1. drive \in DriveState /\ dc \in DcState /\ event \in BOOLEAN /\ VolType /\ DcType
  BY TypeParts DEF DriveType, DcType
<1>2. dc.copy \in DriveState
  BY <1>1 DEF DcState
<1>3. Volumes \in SUBSET Volume
  BY DEF Volumes
<1>4. ASSUME NEW d \in DriveState, DcWrite(d), UNCHANGED spent PROVE TypeOK'
  BY <1>1, <1>4, CopyTypes, TypeParts, UnchangedTypes DEF DcWrite
<1>5. ASSUME DcIgnore PROVE TypeOK'
  BY <1>1, <1>5, CopyTypes, TypeParts, UnchangedTypes DEF DcIgnore
<1>6. ASSUME DcRequeue, UNCHANGED <<hw, data, drive, vol, nr, disc, spent>> PROVE TypeOK'
  BY <1>6, CopyTypes, TypeParts, UnchangedTypes
<1>7. /\ \A u \in Usage : [dc.copy EXCEPT !.usage = u] \in DriveState
      /\ \A u \in Usage : [dc.copy EXCEPT !.usage = u, !.action = "none"] \in DriveState
      /\ ReturnedToUse(dc.copy) \in DriveState
  BY <1>2, DriveUpdates
<1>8. {"IN_USE", "RELEASING", "RELEASED", "REMOVING", "REMOVED"} \subseteq Usage
  BY DEF Usage
<1>9. CASE DcRead
  <2>1. [pc |-> "status", copy |-> drive, fresh |-> TRUE] \in DcState
    BY <1>1 DEF DcState
  <2>2. DcType'
    BY <1>1, <1>9, <2>1 DEF DcRead, DcType
  <2> QED
    BY <1>9, <2>2, TypeParts, UnchangedTypes DEF DcRead
<1>10. CASE HandleDriveStatus
  <2>1. DcType'
    BY <1>1, <1>10 DEF HandleDriveStatus, DcType, DcState
  <2>2. VolType'
    BY <1>1, <1>3, <1>10, ControllerVolumes DEF HandleDriveStatus, VolType
  <2> QED
    BY <1>10, <2>1, <2>2, TypeParts, UnchangedTypes DEF HandleDriveStatus
<1>11. CASE HandleInUse
  BY <1>4, <1>5, <1>7, <1>8, <1>11 DEF HandleInUse
<1>12. CASE HandleDriveUsageReleasing
  BY <1>4, <1>5, <1>7, <1>8, <1>12 DEF HandleDriveUsageReleasing
<1>13. CASE HandleReleased
  <2>1. \/ DcWrite(ReturnedToUse(dc.copy)) /\ UNCHANGED spent
        \/ DcWrite([dc.copy EXCEPT !.usage = "REMOVING"]) /\ UNCHANGED spent
        \/ DcIgnore
    BY <1>13, Zenon DEF HandleReleased
  <2> QED
    BY <1>4, <1>5, <1>7, <1>8, <2>1
<1>14. CASE HandleDriveUsageRemoving
  BY <1>4, <1>6, <1>7, <1>8, <1>14 DEF HandleDriveUsageRemoving
<1>15. CASE HandleDriveUsageRemoved
  <2>1. CASE DcIgnore
    BY <1>5, <2>1
  <2>2. CASE /\ dc' = [dc EXCEPT !.pc = "delete"]
             /\ UNCHANGED <<hw, data, drive, vol, event, nr, disc, spent>>
    <3>1. DcType'
      BY <1>1, <2>2 DEF DcType, DcState
    <3> QED
      BY <2>2, <3>1, TypeParts, UnchangedTypes
  <2> QED
    BY <1>15, <2>1, <2>2 DEF HandleDriveUsageRemoved
<1>16. CASE HandleFailed
  <2>1. \/ /\ vol' = WithUsageReset(Volumes)
           /\ dc' = [dc EXCEPT !.pc = "update", !.copy = ReturnedToUse(dc.copy)]
           /\ UNCHANGED <<hw, data, drive, event, nr, disc, spent>>
        \/ DcWrite([dc.copy EXCEPT !.usage = "REMOVED", !.action = "none"]) /\ UNCHANGED spent
        \/ DcIgnore
    BY <1>16, Zenon DEF HandleFailed
  <2>2. CASE /\ vol' = WithUsageReset(Volumes)
             /\ dc' = [dc EXCEPT !.pc = "update", !.copy = ReturnedToUse(dc.copy)]
             /\ UNCHANGED <<hw, data, drive, event, nr, disc, spent>>
    <3>1. VolType'
      BY <1>1, <1>3, <2>2, ControllerVolumes DEF VolType
    <3>2. DcType'
      BY <1>1, <1>7, <2>2 DEF DcType, DcState
    <3> QED
      BY <2>2, <3>1, <3>2, TypeParts, UnchangedTypes
  <2> QED
    BY <1>4, <1>5, <1>7, <1>8, <2>1, <2>2
<1>17. CASE DcUpdate
  <2>1. DriveType'
    BY <1>1, <1>2, <1>17 DEF DcUpdate, DriveType
  <2>2. DcType'
    BY <1>17, CopyTypes DEF DcUpdate, DcType
  <2> QED
    BY <1>17, <2>1, <2>2, TypeParts, UnchangedTypes DEF DcUpdate
<1>18. CASE DcDelete
  <2>1. DriveType'
    BY <1>1, <1>18, DriveUpdates DEF DcDelete, DriveType
  <2>2. DcType'
    BY <1>1, <1>18, CopyTypes DEF DcDelete, DcType
  <2> QED
    BY <1>18, <2>1, <2>2, TypeParts, UnchangedTypes DEF DcDelete
<1> QED
  BY <1>9, <1>10, <1>11, <1>12, <1>13, <1>14, <1>15, <1>16, <1>17, <1>18 DEF DriveController

\* The same when one of its calls fails.
LEMMA DriveControllerFailsType ==
  ASSUME TypeOK, DriveControllerFails
  PROVE  TypeOK'
<1>1. dc \in DcState /\ VolType /\ DcType /\ SpentType
  BY TypeParts DEF DcType
<1>2. ASSUME NEW V \in SUBSET Volume
      PROVE  /\ WithOpStatus(V) \in [Volume -> VolState]
             /\ WithUsageReset(V) \in [Volume -> VolState]
  BY <1>1, ControllerVolumes
<1>3. ASSUME DcRequeue, Fault("api") \/ Fault("device"), vol' \in [Volume -> VolState],
             UNCHANGED <<hw, data, drive, nr, disc>>
      PROVE  TypeOK'
  <2>1. SpentType' /\ VolType' /\ DcType'
    BY <1>1, <1>3, Spending, CopyTypes DEF VolType
  <2> QED
    BY <1>3, <2>1, TypeParts, UnchangedTypes
<1>4. vol \in [Volume -> VolState] /\ Volumes \subseteq Volume
  BY <1>1 DEF VolType, Volumes
<1>5. CASE HandleDriveStatusFails
  <2>1. PICK V \in SUBSET Volumes : vol' = WithOpStatus(V)
    BY <1>5 DEF HandleDriveStatusFails
  <2>2. vol' \in [Volume -> VolState]
    BY <1>2, <1>4, <2>1
  <2> QED
    BY <1>3, <1>5, <2>2 DEF HandleDriveStatusFails
<1>6. CASE HandleReleasedFails
  BY <1>3, <1>4, <1>6 DEF HandleReleasedFails
<1>7. CASE LocateFails
  <2>1. CASE DcWrite([dc.copy EXCEPT !.usage = "FAILED"])
    <3>1. [dc.copy EXCEPT !.usage = "FAILED"] \in DriveState
      BY <1>1, DriveUpdates DEF DcState, Usage
    <3>2. DcType' /\ SpentType'
      BY <1>1, <1>7, <2>1, <3>1, CopyTypes, Spending DEF LocateFails, DcWrite
    <3> QED
      BY <2>1, <3>2, TypeParts, UnchangedTypes DEF DcWrite
  <2>2. CASE DcRequeue /\ UNCHANGED <<hw, data, drive, vol, nr, disc>>
    BY <1>3, <1>4, <1>7, <2>2 DEF LocateFails
  <2> QED
    BY <1>7, <2>1, <2>2 DEF LocateFails
<1>8. CASE HandleDriveUsageRemovedFails
  BY <1>3, <1>4, <1>8 DEF HandleDriveUsageRemovedFails
<1>9. CASE HandleFailedFails
  <2>1. PICK V \in SUBSET Volumes : vol' = WithUsageReset(V)
    BY <1>9 DEF HandleFailedFails
  <2>2. vol' \in [Volume -> VolState]
    BY <1>2, <1>4, <2>1
  <2> QED
    BY <1>3, <1>9, <2>2 DEF HandleFailedFails
<1> QED
  BY <1>5, <1>6, <1>7, <1>8, <1>9 DEF DriveControllerFails

\* Discover writes the Drive and hands its health on to the volumes.
LEMMA DiscoverType ==
  ASSUME TypeOK, Discover \/ HandleDriveStatusChangeFails
  PROVE  TypeOK'
<1>1. /\ drive \in DriveState /\ VolType /\ DcType /\ SpentType
      /\ hw.health \in Health /\ disc \in Health \cup {"idle"}
  BY TypeParts DEF DriveType, HwType, DiscType
<1>2. vol \in [Volume -> VolState] /\ Volumes \subseteq Volume
  BY <1>1 DEF VolType, Volumes
<1>3. ASSUME disc # "idle", NEW V \in SUBSET Volume PROVE WithHealth(V) \in [Volume -> VolState]
  <2>1. ASSUME NEW v \in Volume, NEW u \in {"IN_USE", "RELEASING", "RELEASED", "FAILED"}
        PROVE  [vol[v] EXCEPT !.health = disc, !.usage = u] \in VolState
    BY <1>1, <1>2, <1>3 DEF VolState
  <2>2. ASSUME NEW v \in Volume
        PROVE  (IF disc = "BAD" /\ vol[v].usage = "IN_USE" THEN "RELEASING" ELSE vol[v].usage)
                 \in {"IN_USE", "RELEASING", "RELEASED", "FAILED"}
    BY <1>2 DEF VolState
  <2> QED
    BY <1>2, <2>1, <2>2 DEF WithHealth
<1>4. CASE UpdateDrivesCRs
  <2>1. /\ (IF hw.present THEN "ONLINE" ELSE "OFFLINE") \in {"ONLINE", "OFFLINE"}
        /\ (IF hw.present THEN hw.health ELSE "UNKNOWN") \in Health
    BY <1>1 DEF Health
  <2>2. Reported(drive) \in DriveState /\ Reported(drive).health \in Health
    BY <1>1, <2>1 DEF Reported, DriveState
  <2>3. DriveType' /\ DcType' /\ DiscType'
    BY <1>1, <1>4, <2>2, PutType DEF UpdateDrivesCRs, DiscType
  <2> QED
    BY <1>4, <2>3, TypeParts, UnchangedTypes DEF UpdateDrivesCRs
<1>5. CASE HandleDriveStatusChange
  <2>1. VolType' /\ DiscType'
    BY <1>2, <1>3, <1>5 DEF HandleDriveStatusChange, VolType, DiscType
  <2> QED
    BY <1>5, <2>1, TypeParts, UnchangedTypes DEF HandleDriveStatusChange
<1>6. CASE DiscoverDataOnDrives
  <2> DEFINE clean == ~(~OnLVG /\ Volumes # {}) /\ data = {}
  <2>1. clean \in BOOLEAN /\ Put([drive EXCEPT !.clean = clean])
    BY <1>6, Zenon DEF DiscoverDataOnDrives
  <2> HIDE DEF clean
  <2>2. [drive EXCEPT !.clean = clean] \in DriveState
    BY <1>1, <2>1 DEF DriveState
  <2>3. DriveType' /\ DcType'
    BY <1>1, <2>1, <2>2, PutType
  <2> QED
    BY <1>6, <2>3, TypeParts, UnchangedTypes DEF DiscoverDataOnDrives
<1>7. CASE HandleDriveStatusChangeFails
  <2>1. PICK V \in SUBSET Volumes : vol' = WithHealth(V)
    BY <1>7 DEF HandleDriveStatusChangeFails
  <2>2. VolType' /\ DiscType' /\ SpentType'
    BY <1>1, <1>2, <1>3, <1>7, <2>1, Spending
       DEF HandleDriveStatusChangeFails, VolType, DiscType
  <2> QED
    BY <1>7, <2>2, TypeParts, UnchangedTypes DEF HandleDriveStatusChangeFails
<1> QED
  BY <1>4, <1>5, <1>6, <1>7 DEF Discover

\* Reconcile of a Volume writes the Volume, and the Drive by Put.
LEMMA ReconcileType ==
  ASSUME TypeOK, NEW v \in Volume,
         \/ VolumeReconcile(v) \/ RetryDriveUpdateFails(v)
         \/ PerformVolumeRemovingFails(v) \/ RemoveVolumeAnnotationFails(v)
  PROVE  TypeOK'
<1>1. drive \in DriveState /\ VolType /\ DcType /\ SpentType /\ NrType /\ DataType
  BY TypeParts DEF DriveType
<1>2. vol \in [Volume -> VolState]
  BY <1>1 DEF VolType
<1>3. /\ [drive EXCEPT !.usage = "FAILED"] \in DriveState
      /\ [drive EXCEPT !.usage = "RELEASING", !.released = @ \cup {v}] \in DriveState
      /\ [drive EXCEPT !.released = @ \ {v}] \in DriveState
  BY <1>1 DEF DriveState, Usage
<1>4. CASE UpdateVolumeUsage(v)
  <2>1. PICK u \in {"RELEASED", "FAILED"} : /\ vol' = [vol EXCEPT ![v].usage = u]
                                            /\ nr' = [nr EXCEPT ![v] = u]
    BY <1>4 DEF UpdateVolumeUsage
  <2>2. VolType' /\ NrType'
    BY <1>1, <1>2, <2>1 DEF VolType, VolState, NrType
  <2> QED
    BY <1>4, <2>2, TypeParts, UnchangedTypes DEF UpdateVolumeUsage
<1>5. CASE RetryDriveUpdate(v)
  <2>1. NrType'
    BY <1>1, <1>5 DEF RetryDriveUpdate, NrType
  <2>2. \/ Put([drive EXCEPT !.usage = "FAILED"])
        \/ Put([drive EXCEPT !.usage = "RELEASING", !.released = @ \cup {v}])
        \/ UNCHANGED <<drive, event, dc>>
    BY <1>5, Zenon DEF RetryDriveUpdate
  <2>3. DriveType' /\ DcType'
    BY <1>1, <1>3, <2>2, PutType, TypeParts, UnchangedTypes
  <2> QED
    BY <1>5, <2>1, <2>3, TypeParts, UnchangedTypes DEF RetryDriveUpdate
<1>6. CASE PerformVolumeRemoving(v)
  <2>1. DataType'
    BY <1>1, <1>6 DEF PerformVolumeRemoving, DataType
  <2>2. VolType'
    BY <1>2, <1>6 DEF PerformVolumeRemoving, VolType, VolState
  <2> QED
    BY <1>6, <2>1, <2>2, TypeParts, UnchangedTypes DEF PerformVolumeRemoving
<1>7. CASE RemoveVolumeAnnotation(v)
  <2>1. NrType'
    BY <1>1, <1>7 DEF RemoveVolumeAnnotation, NrType
  <2>2. DriveType' /\ DcType'
    BY <1>1, <1>3, <1>7, PutType, TypeParts, UnchangedTypes DEF RemoveVolumeAnnotation
  <2> QED
    BY <1>7, <2>1, <2>2, TypeParts, UnchangedTypes DEF RemoveVolumeAnnotation
<1>8. CASE RemoveFinalizer(v)
  <2>1. NrType'
    BY <1>1, <1>8 DEF RemoveFinalizer, NrType
  <2> DEFINE w == [vol[v] EXCEPT !.cs = "gone", !.usage = "IN_USE", !.release = "none",
                                 !.fa = FALSE, !.op = "OPERATIVE", !.health = "GOOD"]
  <2>2. w \in VolState
    BY <1>2 DEF VolState, Health
  <2>3. vol' = [vol EXCEPT ![v] = w]
    BY <1>2, <1>8 DEF RemoveFinalizer, VolState
  <2> HIDE DEF w
  <2>4. VolType'
    BY <1>2, <2>2, <2>3 DEF VolType
  <2> QED
    BY <1>8, <2>1, <2>4, TypeParts, UnchangedTypes DEF RemoveFinalizer
<1>9. CASE RetryDriveUpdateFails(v)
  <2>1. NrType' /\ SpentType'
    BY <1>1, <1>9, Spending DEF RetryDriveUpdateFails, NrType
  <2> QED
    BY <1>9, <2>1, TypeParts, UnchangedTypes DEF RetryDriveUpdateFails
<1>10. CASE PerformVolumeRemovingFails(v)
  <2>1. VolType'
    BY <1>2, <1>10 DEF PerformVolumeRemovingFails, VolType, VolState
  <2>2. DriveType' /\ DcType'
    BY <1>1, <1>3, <1>10, PutType DEF PerformVolumeRemovingFails
  <2>3. SpentType'
    BY <1>1, <1>10, Spending, UnchangedTypes DEF PerformVolumeRemovingFails
  <2> QED
    BY <1>10, <2>1, <2>2, <2>3, TypeParts, UnchangedTypes DEF PerformVolumeRemovingFails
<1>11. CASE RemoveVolumeAnnotationFails(v)
  <2>1. NrType' /\ SpentType'
    BY <1>1, <1>11, Spending DEF RemoveVolumeAnnotationFails, NrType
  <2> QED
    BY <1>11, <2>1, TypeParts, UnchangedTypes DEF RemoveVolumeAnnotationFails
<1> QED
  BY <1>4, <1>5, <1>6, <1>7, <1>8, <1>9, <1>10, <1>11 DEF VolumeReconcile

\* Staging, operators, users and the hardware.
LEMMA EnvironmentType ==
  ASSUME TypeOK,
         \/ \E v \in Volume : NodeRPC(v) \/ AnswerRelease(v) \/ DeleteVolume(v)
         \/ \E a \in Requests : Annotate(a)
         \/ HardwareChanges
  PROVE  TypeOK'
<1>1. drive \in DriveState /\ VolType /\ DcType /\ SpentType /\ HwType
  BY TypeParts DEF DriveType
<1>2. vol \in [Volume -> VolState]
  BY <1>1 DEF VolType
<1>3. ASSUME NEW v \in Volume, NodeStageVolume(v) PROVE TypeOK'
  <2>1. PICK err \in MountErrors :
          LET fake == FakeAttachDR(v) \/ (err /\ v \in FakeAttach)
          IN vol' = [vol EXCEPT
               ![v].cs = IF err /\ ~fake THEN "Failed" ELSE "Published",
               ![v].fa = IF err /\ ~fake THEN @ ELSE fake,
               ![v].op = IF fake THEN "MISSING" ELSE @]
    BY <1>3, Zenon DEF NodeStageVolume
  <2> DEFINE fake == FakeAttachDR(v) \/ (err /\ v \in FakeAttach)
             cs == IF err /\ ~fake THEN "Failed" ELSE "Published"
             fa == IF err /\ ~fake THEN vol[v].fa ELSE fake
             op == IF fake THEN "MISSING" ELSE vol[v].op
  <2>2. fake \in BOOLEAN
    BY Zenon
  <2>3. vol' = [vol EXCEPT ![v] = [vol[v] EXCEPT !.cs = cs, !.fa = fa, !.op = op]]
    BY <1>2, <2>1 DEF VolState
  <2> HIDE DEF fake
  <2>4. vol[v].fa \in BOOLEAN /\ vol[v].op \in {"OPERATIVE", "MISSING"}
    BY <1>2 DEF VolState
  <2>5. cs \in {"Failed", "Published"} /\ fa \in BOOLEAN /\ op \in {"OPERATIVE", "MISSING"}
    BY <2>2, <2>4, Zenon
  <2> HIDE DEF cs, fa, op
  <2>6. VolType'
    BY <1>2, <2>3, <2>5 DEF VolType, VolState, Usable
  <2> QED
    BY <1>3, <2>6, TypeParts, UnchangedTypes DEF NodeStageVolume
<1>4. ASSUME NEW v \in Volume, NodePublishVolume(v) PROVE TypeOK'
  <2>1. [drive EXCEPT !.allFA = TRUE] \in DriveState
    BY <1>1 DEF DriveState
  <2>2. DriveType' /\ DcType'
    BY <1>1, <1>4, <2>1, PutType DEF NodePublishVolume
  <2> QED
    BY <1>4, <2>2, TypeParts, UnchangedTypes DEF NodePublishVolume
<1>5. ASSUME NEW v \in Volume, NodeUnstageVolume(v) PROVE TypeOK'
  <2>1. VolType'
    BY <1>2, <1>5 DEF NodeUnstageVolume, VolType, VolState, Usable
  <2> QED
    BY <1>5, <2>1, TypeParts, UnchangedTypes DEF NodeUnstageVolume
<1>6. ASSUME NEW v \in Volume, AnswerRelease(v) PROVE TypeOK'
  <2>1. VolType'
    BY <1>2, <1>6, DriveReplacementAssumption DEF AnswerRelease, VolType, VolState
  <2> QED
    BY <1>6, <2>1, TypeParts, UnchangedTypes DEF AnswerRelease
<1>7. ASSUME NEW v \in Volume, DeleteVolume(v) PROVE TypeOK'
  <2>1. VolType'
    BY <1>2, <1>7 DEF DeleteVolume, VolType, VolState
  <2> QED
    BY <1>7, <2>1, TypeParts, UnchangedTypes DEF DeleteVolume
<1>8. ASSUME NEW a \in Requests, Annotate(a) PROVE TypeOK'
  <2>1. /\ [drive EXCEPT !.removal = TRUE] \in DriveState
        /\ a # "removal" => [drive EXCEPT !.action = a] \in DriveState
    BY <1>1, DriveReplacementAssumption DEF DriveState
  <2>2. DriveType' /\ DcType'
    BY <1>1, <1>8, <2>1, PutType DEF Annotate
  <2>3. SpentType'
    BY <1>1, <1>8, Spending DEF Annotate
  <2> QED
    BY <1>8, <2>2, <2>3, TypeParts, UnchangedTypes DEF Annotate
<1>9. CASE HardwareChanges
  <2>1. SpentType'
    BY <1>1, <1>9, Spending DEF HardwareChanges
  <2>2. ASSUME NEW b \in BOOLEAN, hw' = [hw EXCEPT !.present = b] PROVE HwType'
    BY <1>1, <2>2 DEF HwType
  <2>3. ASSUME NEW h \in {"GOOD", "BAD"}, hw' = [hw EXCEPT !.health = h] PROVE HwType'
    BY <1>1, <2>3 DEF HwType, Health
  <2>4. HwType'
    BY <1>9, <2>2, <2>3 DEF HardwareChanges
  <2> QED
    BY <1>9, <2>1, <2>4, TypeParts, UnchangedTypes DEF HardwareChanges
<1> QED
  BY <1>3, <1>4, <1>5, <1>6, <1>7, <1>8, <1>9 DEF NodeRPC

\* The drive starts well-formed.
LEMMA InitType == Init => TypeOK
<1> SUFFICES ASSUME Init PROVE TypeOK
  OBVIOUS
<1>1. InitDrive \in DriveState
  BY DEF InitDrive, DriveState, Health, Usage
<1>2. HwType /\ DataType /\ DriveType /\ DcType /\ NrType /\ DiscType
  BY <1>1 DEF Init, HwType, DataType, DriveType, DcType, DcState, NrType, DiscType, Health
<1>3. VolType
  BY DEF Init, VolType, VolState, Usable, Health
<1>4. SpentType
  BY DriveReplacementAssumption DEF Init, SpentType
<1> QED
  BY <1>2, <1>3, <1>4, TypeParts

\* Every step keeps the types.
LEMMA TypeStep == TypeOK /\ Next => TypeOK'
BY DriveControllerType, DriveControllerFailsType, DiscoverType, ReconcileType,
   EnvironmentType DEF Next

\* The Drive, its volumes, the controllers' copies and what they still have to
\* write are well-formed whatever fails.
THEOREM TypeCorrect == Spec => []TypeOK
<1>1. TypeOK /\ UNCHANGED vars => TypeOK'
  BY TypeParts, UnchangedTypes DEF vars
<1> QED
  BY <1>1, TypeStep, InitType, PTL DEF Spec

-----------------------------------------------------------------------------
(* Volumes                                                                 *)

\* What the annotations say about the volumes: a released volume was answered
\* done, the annotation on the Drive is written after the Volume, and a fake
\* device is made only where the claim allows it.
VolInv ==
  \A v \in Volume :
    /\ vol[v].usage = "RELEASED" => vol[v].release # "failed"
    /\ nr[v] = "RELEASED" => vol[v].usage = "RELEASED"
    /\ v \in drive.released => vol[v].usage = "RELEASED" \/ vol[v].cs = "gone"
    /\ vol[v].fa => v \in FakeAttach

\* What a step may do to a volume: one that is gone stays gone, one that is
\* released stays so until it goes, and with all volumes fake attached none is
\* staged for real.
VolStep(v) ==
  /\ vol[v].cs = "gone" => vol'[v].cs = "gone"
  /\ vol[v].usage = "RELEASED" =>
       \/ vol'[v].usage = "RELEASED" /\ vol'[v].release = vol[v].release
       \/ vol'[v].cs = "gone" /\ nr[v] = "finalizer" /\ vol'[v].usage = "IN_USE"
  /\ vol'[v].usage = "RELEASED" => vol[v].usage = "RELEASED" \/ vol'[v].release # "failed"
  /\ vol[v].fa /\ Known /\ drive.allFA /\ v \in FakeAttach => vol'[v].fa \/ vol'[v].cs = "gone"
  /\ vol'[v].fa => vol[v].fa \/ v \in FakeAttach

\* Nothing the owners of a volume see has changed.
Same(v) ==
  /\ vol'[v].cs = vol[v].cs /\ vol'[v].fa = vol[v].fa
  /\ vol'[v].usage = "RELEASED" <=> vol[v].usage = "RELEASED"
  /\ vol[v].usage = "RELEASED" => vol'[v].release = vol[v].release

\* Steps that leave the volumes alone, and those that write many of them.
LEMMA ManyVolumes ==
  ASSUME VolType, VolInv, NEW v \in Volume, NEW V \in SUBSET Volume,
         \/ UNCHANGED vol \/ vol' = WithOpStatus(V) \/ vol' = WithUsageReset(V)
         \/ vol' = WithHealth(V)
  PROVE  Same(v) /\ VolStep(v)
<1>1. vol[v] \in VolState
  BY DEF VolType
<1>2. vol[v].usage = "RELEASED" => vol[v].release # "failed"
  BY DEF VolInv
<1> SUFFICES Same(v)
  BY <1>2 DEF Same, VolStep
<1>3. CASE UNCHANGED vol
  BY <1>3 DEF Same
<1>4. CASE vol' = WithOpStatus(V)
  <2>1. \/ vol'[v] = vol[v] \/ vol'[v] = [vol[v] EXCEPT !.op = "MISSING"]
        \/ vol'[v] = [vol[v] EXCEPT !.op = "OPERATIVE"]
    BY <1>4 DEF WithOpStatus
  <2>2. /\ vol'[v].cs = vol[v].cs /\ vol'[v].usage = vol[v].usage
        /\ vol'[v].release = vol[v].release /\ vol'[v].fa = vol[v].fa
    BY <1>1, <2>1 DEF VolState
  <2> QED
    BY <1>2, <2>2 DEF Same
<1>5. CASE vol' = WithUsageReset(V)
  <2>1. \/ vol'[v] = vol[v]
        \/ /\ vol[v].release = "failed"
           /\ vol'[v] = [vol[v] EXCEPT !.usage = "IN_USE", !.release = "none"]
    BY <1>5 DEF WithUsageReset
  <2>2. /\ vol'[v].cs = vol[v].cs /\ vol'[v].fa = vol[v].fa
        /\ \/ vol'[v].usage = vol[v].usage /\ vol'[v].release = vol[v].release
           \/ vol[v].release = "failed" /\ vol'[v].usage = "IN_USE"
    BY <1>1, <2>1 DEF VolState
  <2> QED
    BY <1>2, <2>2 DEF Same
<1>6. CASE vol' = WithHealth(V)
  <2> DEFINE u == IF disc = "BAD" /\ vol[v].usage = "IN_USE" THEN "RELEASING" ELSE vol[v].usage
  <2>1. vol'[v] = vol[v] \/ vol'[v] = [vol[v] EXCEPT !.health = disc, !.usage = u]
    BY <1>6 DEF WithHealth
  <2>2. u = vol[v].usage \/ (vol[v].usage = "IN_USE" /\ u = "RELEASING")
    OBVIOUS
  <2> HIDE DEF u
  <2>3. /\ vol'[v].cs = vol[v].cs /\ vol'[v].fa = vol[v].fa
        /\ vol'[v].release = vol[v].release
        /\ \/ vol'[v].usage = vol[v].usage
           \/ vol[v].usage = "IN_USE" /\ vol'[v].usage = "RELEASING"
    BY <1>1, <2>1, <2>2 DEF VolState
  <2> QED
    BY <1>2, <2>3 DEF Same
<1> QED
  BY <1>3, <1>4, <1>5, <1>6

\* Steps that write one volume.
LEMMA OneVolume ==
  ASSUME VolType, VolInv, NEW v \in Volume, NEW w \in Volume,
         \/ UpdateVolumeUsage(w) \/ PerformVolumeRemoving(w) \/ PerformVolumeRemovingFails(w)
         \/ RemoveFinalizer(w) \/ NodeStageVolume(w) \/ NodeUnstageVolume(w)
         \/ AnswerRelease(w) \/ DeleteVolume(w)
  PROVE  VolStep(v)
<1>1. vol[v] \in VolState /\ vol \in [Volume -> VolState]
  BY DEF VolType
<1>2. vol[v].usage = "RELEASED" => vol[v].release # "failed"
  BY DEF VolInv
<1>3. ASSUME vol'[v] = vol[v] PROVE VolStep(v)
  BY <1>2, <1>3 DEF VolStep
<1>4. CASE v # w
  <2>1. vol'[v] = vol[v]
    BY <1>1, <1>4 DEF UpdateVolumeUsage, PerformVolumeRemoving, PerformVolumeRemovingFails,
      RemoveFinalizer, NodeStageVolume, NodeUnstageVolume, AnswerRelease, DeleteVolume
  <2> QED
    BY <1>3, <2>1
<1>5. CASE v = w
  <2>1. CASE UpdateVolumeUsage(v)
    <3>1. PICK u \in {"RELEASED", "FAILED"} :
            vol' = [vol EXCEPT ![v].usage = u] /\ (u = "RELEASED" => vol[v].release = "done")
      BY <2>1 DEF UpdateVolumeUsage
    <3>2. /\ vol'[v].usage = u /\ vol'[v].cs = vol[v].cs /\ vol'[v].fa = vol[v].fa
          /\ vol'[v].release = vol[v].release /\ vol[v].usage = "RELEASING"
      BY <1>1, <2>1, <3>1 DEF UpdateVolumeUsage, VolState
    <3> QED
      BY <3>1, <3>2 DEF VolStep
  <2>2. CASE \/ PerformVolumeRemoving(v) \/ PerformVolumeRemovingFails(v)
             \/ NodeUnstageVolume(v) \/ DeleteVolume(v)
    <3>1. /\ vol'[v].usage = vol[v].usage /\ vol'[v].fa = vol[v].fa
          /\ vol'[v].release = vol[v].release
          /\ vol[v].cs = "gone" => vol'[v].cs = "gone"
      BY <1>1, <2>2 DEF PerformVolumeRemoving, PerformVolumeRemovingFails, NodeUnstageVolume,
                        DeleteVolume, VolState
    <3> QED
      BY <1>2, <3>1 DEF VolStep
  <2>3. CASE RemoveFinalizer(v)
    <3>1. /\ vol'[v].usage = "IN_USE" /\ vol'[v].cs = "gone" /\ vol'[v].fa = FALSE
          /\ nr[v] = "finalizer"
      BY <1>1, <2>3 DEF RemoveFinalizer, VolState
    <3> QED
      BY <3>1 DEF VolStep
  <2>4. CASE NodeStageVolume(v)
    <3>1. PICK err \in MountErrors :
            LET fake == FakeAttachDR(v) \/ (err /\ v \in FakeAttach)
            IN vol' = [vol EXCEPT
                 ![v].cs = IF err /\ ~fake THEN "Failed" ELSE "Published",
                 ![v].fa = IF err /\ ~fake THEN @ ELSE fake,
                 ![v].op = IF fake THEN "MISSING" ELSE @]
      BY <2>4, Zenon DEF NodeStageVolume
    <3> DEFINE fake == FakeAttachDR(v) \/ (err /\ v \in FakeAttach)
    <3>2. /\ vol'[v].usage = vol[v].usage /\ vol'[v].release = vol[v].release
          /\ vol'[v].fa = (IF err /\ ~fake THEN vol[v].fa ELSE fake)
      BY <1>1, <3>1 DEF VolState
    <3>3. vol[v].cs # "gone"
      BY <2>4 DEF NodeStageVolume
    <3>4. fake => v \in FakeAttach
      BY DEF FakeAttachDR
    <3>5. v \in FakeAttach /\ Known /\ drive.allFA => fake
      BY DEF FakeAttachDR
    <3> HIDE DEF fake
    <3>6. vol'[v].fa => vol[v].fa \/ v \in FakeAttach
      BY <3>2, <3>4, Zenon
    <3>7. v \in FakeAttach /\ Known /\ drive.allFA => vol'[v].fa
      BY <3>2, <3>5, Zenon
    <3> QED
      BY <1>2, <3>2, <3>3, <3>6, <3>7 DEF VolStep
  <2>5. CASE AnswerRelease(v)
    <3>1. /\ vol'[v].usage = "RELEASING" /\ vol[v].usage = "RELEASING"
          /\ vol'[v].cs = vol[v].cs /\ vol'[v].fa = vol[v].fa
      BY <1>1, <2>5 DEF AnswerRelease, VolState
    <3> QED
      BY <3>1 DEF VolStep
  <2> QED
    BY <1>5, <2>1, <2>2, <2>3, <2>4, <2>5
<1> QED
  BY <1>4, <1>5

\* Every step moves every volume in this way.
LEMMA VolumeSteps ==
  ASSUME TypeOK, VolInv, Next, NEW v \in Volume
  PROVE  VolStep(v)
<1>1. VolType /\ Volumes \in SUBSET Volume
  BY TypeParts DEF Volumes
<1>2. UNCHANGED vol => VolStep(v)
  BY <1>1, ManyVolumes
<1>3. ASSUME NEW V \in SUBSET Volumes,
             vol' = WithOpStatus(V) \/ vol' = WithUsageReset(V) \/ vol' = WithHealth(V)
      PROVE  VolStep(v)
  BY <1>1, <1>3, ManyVolumes
<1>4. CASE DriveController
  <2>1. \/ UNCHANGED vol
        \/ vol' = WithOpStatus(Volumes) \/ vol' = WithUsageReset(Volumes)
    <3>1. HandleReleased => UNCHANGED vol
      <4>1. HandleReleased => (\E d : DcWrite(d)) \/ DcIgnore
        BY Zenon DEF HandleReleased
      <4> QED
        BY <4>1 DEF DcWrite, DcIgnore
    <3>2. HandleFailed => UNCHANGED vol \/ vol' = WithUsageReset(Volumes)
      <4>1. HandleFailed => vol' = WithUsageReset(Volumes) \/ (\E d : DcWrite(d)) \/ DcIgnore
        BY Zenon DEF HandleFailed
      <4> QED
        BY <4>1 DEF DcWrite, DcIgnore
    <3>3. DcRead \/ HandleInUse \/ HandleDriveUsageReleasing \/ HandleDriveUsageRemoving
            \/ HandleDriveUsageRemoved \/ DcUpdate \/ DcDelete => UNCHANGED vol
      BY DEF DcRead, HandleInUse, HandleDriveUsageReleasing, HandleDriveUsageRemoving,
             HandleDriveUsageRemoved, DcUpdate, DcDelete, DcWrite, DcIgnore
    <3>4. HandleDriveStatus => vol' = WithOpStatus(Volumes)
      BY DEF HandleDriveStatus
    <3> QED
      BY <1>4, <3>1, <3>2, <3>3, <3>4 DEF DriveController
  <2> QED
    BY <1>2, <1>3, <2>1
<1>5. CASE DriveControllerFails
  <2>1. \/ UNCHANGED vol
        \/ \E V \in SUBSET Volumes : vol' = WithOpStatus(V) \/ vol' = WithUsageReset(V)
    BY <1>5 DEF DriveControllerFails, HandleDriveStatusFails, HandleReleasedFails, LocateFails,
                HandleDriveUsageRemovedFails, HandleFailedFails, DcWrite
  <2> QED
    BY <1>2, <1>3, <2>1
<1>6. CASE Discover \/ HandleDriveStatusChangeFails
  <2>1. UNCHANGED vol \/ \E V \in SUBSET Volumes : vol' = WithHealth(V)
    BY <1>6 DEF Discover, UpdateDrivesCRs, DiscoverDataOnDrives, HandleDriveStatusChange,
                HandleDriveStatusChangeFails
  <2> QED
    BY <1>2, <1>3, <2>1
<1>7. ASSUME NEW w \in Volume,
             \/ VolumeReconcile(w) \/ RetryDriveUpdateFails(w)
             \/ PerformVolumeRemovingFails(w) \/ RemoveVolumeAnnotationFails(w)
             \/ NodeRPC(w) \/ AnswerRelease(w) \/ DeleteVolume(w)
      PROVE  VolStep(v)
  <2>1. RetryDriveUpdate(w) \/ RemoveVolumeAnnotation(w) \/ RetryDriveUpdateFails(w)
          \/ RemoveVolumeAnnotationFails(w) \/ NodePublishVolume(w) => UNCHANGED vol
    BY DEF RetryDriveUpdate, RemoveVolumeAnnotation, RetryDriveUpdateFails,
           RemoveVolumeAnnotationFails, NodePublishVolume
  <2> QED
    BY <1>1, <1>2, <1>7, <2>1, OneVolume DEF VolumeReconcile, NodeRPC
<1>8. CASE HardwareChanges \/ \E a \in Requests : Annotate(a)
  BY <1>2, <1>8 DEF HardwareChanges, Annotate
<1> QED
  BY <1>4, <1>5, <1>6, <1>7, <1>8 DEF Next

\* Volumes only go, and only owners' releases change who holds one.
LEMMA Shrink ==
  ASSUME TypeOK, VolInv, Next
  PROVE  Volumes' \subseteq Volumes /\ Held' \subseteq Held
BY VolumeSteps DEF VolStep, Volumes, Held

-----------------------------------------------------------------------------
(* The copy of the drive controller                                        *)

\* What is written over what: the cases of handleDriveUpdate.
Written ==
  {<<"IN_USE", "RELEASING">>, <<"RELEASING", "RELEASED">>, <<"RELEASED", "IN_USE">>,
   <<"RELEASED", "REMOVING">>, <<"REMOVING", "REMOVED">>, <<"REMOVING", "FAILED">>,
   <<"FAILED", "IN_USE">>, <<"FAILED", "REMOVED">>}

\* A fresh copy is the Drive itself until it is changed, and what made the
\* controller change it still holds when it is written.
CopyInv ==
  /\ dc.pc # "idle" => dc.copy.usage \in Usage
  /\ dc.pc \in {"status", "decide"} /\ dc.fresh => dc.copy = drive
  /\ dc.pc = "delete" => dc.copy.usage = "REMOVED" /\ dc.copy.status = "OFFLINE"
  /\ dc.pc = "update" /\ dc.fresh =>
       /\ dc.copy.released = drive.released /\ dc.copy.clean = drive.clean
       /\ dc.copy.allFA = drive.allFA
       /\ <<drive.usage, dc.copy.usage>> \in Written
       /\ dc.copy.usage = "RELEASED" => Volumes \subseteq drive.released
       /\ dc.copy.usage = "REMOVING" => MayRemove(drive)

\* A Put by another process makes the copy stale or changes nothing.
LEMMA PutKeepsCopy ==
  ASSUME DcType, CopyInv, NEW d, Put(d), Volumes' \subseteq Volumes
  PROVE  CopyInv'
<1>1. dc \in DcState /\ drive' = d
  BY DEF Put, DcType
<1>2. CASE d = drive \/ dc.pc = "idle"
  <2>1. dc' = dc
    BY <1>2, Zenon DEF Put
  <2>2. CASE dc.pc = "idle"
    BY <2>1, <2>2 DEF CopyInv
  <2>3. CASE drive' = drive
    BY <2>1, <2>3 DEF CopyInv, MayRemove
  <2> QED
    BY <1>1, <1>2, <2>2, <2>3
<1>3. CASE ~(d = drive \/ dc.pc = "idle")
  <2>1. dc' = [dc EXCEPT !.fresh = FALSE]
    BY <1>3, Zenon DEF Put
  <2>2. dc'.pc = dc.pc /\ dc'.copy = dc.copy /\ ~dc'.fresh
    BY <1>1, <2>1 DEF DcState
  <2> QED
    BY <2>2 DEF CopyInv
<1> QED
  BY <1>2, <1>3

\* A decision that handleDriveUpdate makes on a copy that is still fresh is one
\* about the Drive.
LEMMA WriteCopy ==
  ASSUME DcType, CopyInv, dc.pc = "decide", NEW d \in DriveState, UNCHANGED drive,
         dc' = [dc EXCEPT !.pc = "update", !.copy = d], Volumes' \subseteq Volumes,
         d.released = dc.copy.released, d.clean = dc.copy.clean, d.allFA = dc.copy.allFA,
         <<dc.copy.usage, d.usage>> \in Written,
         d.usage = "RELEASED" => Volumes \subseteq dc.copy.released,
         d.usage = "REMOVING" => MayRemove(dc.copy)
  PROVE  CopyInv'
<1>1. dc'.pc = "update" /\ dc'.copy = d /\ dc'.fresh = dc.fresh
  BY DEF DcType, DcState
<1>2. d.usage \in Usage
  BY DEF Written, Usage
<1>3. CASE ~dc.fresh
  BY <1>1, <1>2, <1>3 DEF CopyInv
<1>4. CASE dc.fresh
  <2>1. dc.copy = drive
    BY <1>4 DEF CopyInv
  <2> QED
    BY <1>1, <1>2, <2>1 DEF CopyInv, MayRemove
<1> QED
  BY <1>3, <1>4 DEF DcType, DcState

\* The fields of the copy that handleDriveUpdate leaves alone.
LEMMA CopyFields ==
  ASSUME NEW d \in DriveState, NEW u \in Usage
  PROVE  /\ [d EXCEPT !.usage = u].usage = u
         /\ [d EXCEPT !.usage = u].released = d.released
         /\ [d EXCEPT !.usage = u].clean = d.clean
         /\ [d EXCEPT !.usage = u].allFA = d.allFA
         /\ [d EXCEPT !.usage = u, !.action = "none"].usage = u
         /\ [d EXCEPT !.usage = u, !.action = "none"].released = d.released
         /\ [d EXCEPT !.usage = u, !.action = "none"].clean = d.clean
         /\ [d EXCEPT !.usage = u, !.action = "none"].allFA = d.allFA
BY DEF DriveState

\* The controller at rest has no copy.
LEMMA RestingCopy == dc' = Done => CopyInv'
BY DEF Done, CopyInv

\* Its own steps keep the copy in order.
LEMMA ControllerKeepsCopy ==
  ASSUME TypeOK, VolInv, CopyInv, DriveController \/ DriveControllerFails,
         Volumes' \subseteq Volumes
  PROVE  CopyInv'
<1>1. dc \in DcState /\ drive \in DriveState /\ DcType /\ dc.copy \in DriveState
  BY TypeParts DEF DriveType, DcType, DcState
<1>2. {"IN_USE", "RELEASING", "RELEASED", "REMOVING", "REMOVED", "FAILED"} \subseteq Usage
  BY DEF Usage
<1>3. ASSUME NEW u \in Usage, DcWrite([dc.copy EXCEPT !.usage = u]), dc.pc = "decide",
             <<dc.copy.usage, u>> \in Written,
             u = "RELEASED" => Volumes \subseteq dc.copy.released,
             u = "REMOVING" => MayRemove(dc.copy)
      PROVE  CopyInv'
  <2> DEFINE d == [dc.copy EXCEPT !.usage = u]
  <2>1. d \in DriveState
    BY <1>1, DriveUpdates
  <2>2. /\ d.usage = u /\ d.released = dc.copy.released
        /\ d.clean = dc.copy.clean /\ d.allFA = dc.copy.allFA
    BY <1>1, CopyFields
  <2>3. dc' = [dc EXCEPT !.pc = "update", !.copy = d] /\ UNCHANGED drive
    BY <1>3 DEF DcWrite
  <2> HIDE DEF d
  <2> QED
    BY <1>1, <1>3, <2>1, <2>2, <2>3, WriteCopy
<1>4. ASSUME NEW u \in {"IN_USE", "REMOVED"}, dc.pc = "decide", UNCHANGED drive,
             dc' = [dc EXCEPT !.pc = "update",
                              !.copy = [dc.copy EXCEPT !.usage = u, !.action = "none"]],
             <<dc.copy.usage, u>> \in Written
      PROVE  CopyInv'
  <2> DEFINE d == [dc.copy EXCEPT !.usage = u, !.action = "none"]
  <2>1. d \in DriveState
    BY <1>1, <1>2, DriveUpdates
  <2>2. /\ d.usage = u /\ d.released = dc.copy.released
        /\ d.clean = dc.copy.clean /\ d.allFA = dc.copy.allFA
    BY <1>1, <1>2, CopyFields
  <2>3. dc' = [dc EXCEPT !.pc = "update", !.copy = d]
    BY <1>4
  <2> HIDE DEF d
  <2> QED
    BY <1>1, <1>4, <2>1, <2>2, <2>3, WriteCopy
<1>5. DcIgnore \/ DcRequeue => CopyInv'
  BY RestingCopy DEF DcIgnore, DcRequeue
<1>6. CASE DcRead
  <2>1. CASE Known
    <3>1. /\ dc' = [pc |-> "status", copy |-> drive, fresh |-> TRUE] /\ UNCHANGED drive
          /\ drive.usage \in Usage
      BY <1>1, <1>6, <2>1 DEF DcRead, Known, DriveState
    <3> QED
      BY <3>1 DEF CopyInv
  <2>2. CASE ~Known
    <3>1. dc' = dc /\ dc.pc = "idle"
      BY <1>6, <2>2 DEF DcRead
    <3> QED
      BY <3>1 DEF CopyInv
  <2> QED
    BY <2>1, <2>2
<1>7. CASE HandleDriveStatus
  <2>1. /\ dc'.pc = "decide" /\ dc'.copy = dc.copy /\ dc'.fresh = dc.fresh
        /\ dc.pc = "status" /\ UNCHANGED drive
    BY <1>1, <1>7 DEF HandleDriveStatus, DcState
  <2> QED
    BY <2>1 DEF CopyInv
<1>8. CASE HandleInUse
  <2>1. DcIgnore \/ DcWrite([dc.copy EXCEPT !.usage = "RELEASING"])
    BY <1>8 DEF HandleInUse
  <2>2. <<dc.copy.usage, "RELEASING">> \in Written /\ dc.pc = "decide"
    BY <1>8 DEF HandleInUse, Decide, Written
  <2> QED
    BY <1>2, <1>3, <1>5, <2>1, <2>2
<1>9. CASE HandleDriveUsageReleasing
  <2>1. \/ DcIgnore
        \/ Volumes \subseteq dc.copy.released /\ DcWrite([dc.copy EXCEPT !.usage = "RELEASED"])
    BY <1>9 DEF HandleDriveUsageReleasing
  <2>2. <<dc.copy.usage, "RELEASED">> \in Written /\ dc.pc = "decide"
    BY <1>9 DEF HandleDriveUsageReleasing, Decide, Written
  <2> QED
    BY <1>2, <1>3, <1>5, <2>1, <2>2
<1>10. CASE HandleReleased
  <2>1. \/ DcWrite(ReturnedToUse(dc.copy)) \/ DcIgnore
        \/ MayRemove(dc.copy) /\ DcWrite([dc.copy EXCEPT !.usage = "REMOVING"])
    BY <1>10, Zenon DEF HandleReleased
  <2>2. /\ <<dc.copy.usage, "REMOVING">> \in Written /\ <<dc.copy.usage, "IN_USE">> \in Written
        /\ dc.pc = "decide"
    BY <1>10 DEF HandleReleased, Decide, Written
  <2> QED
    BY <1>2, <1>3, <1>4, <1>5, <2>1, <2>2 DEF DcWrite, ReturnedToUse
<1>11. CASE HandleDriveUsageRemoving
  <2>1. DcRequeue \/ DcWrite([dc.copy EXCEPT !.usage = "REMOVED"])
    BY <1>11 DEF HandleDriveUsageRemoving
  <2>2. <<dc.copy.usage, "REMOVED">> \in Written /\ dc.pc = "decide"
    BY <1>11 DEF HandleDriveUsageRemoving, Decide, Written
  <2> QED
    BY <1>2, <1>3, <1>5, <2>1, <2>2
<1>12. CASE HandleDriveUsageRemoved
  <2>1. CASE DcIgnore
    BY <1>5, <2>1
  <2>2. CASE dc.copy.status = "OFFLINE" /\ dc' = [dc EXCEPT !.pc = "delete"]
    <3>1. dc'.pc = "delete" /\ dc'.copy = dc.copy /\ dc.copy.usage = "REMOVED"
      BY <1>1, <1>12, <2>2 DEF HandleDriveUsageRemoved, Decide, DcState
    <3> QED
      BY <1>2, <2>2, <3>1 DEF CopyInv
  <2> QED
    BY <1>12, <2>1, <2>2 DEF HandleDriveUsageRemoved
<1>13. CASE HandleFailed
  <2>1. \/ dc' = [dc EXCEPT !.pc = "update", !.copy = ReturnedToUse(dc.copy)] /\ UNCHANGED drive
        \/ DcWrite([dc.copy EXCEPT !.usage = "REMOVED", !.action = "none"])
        \/ DcIgnore
    BY <1>13, Zenon DEF HandleFailed
  <2>2. /\ <<dc.copy.usage, "REMOVED">> \in Written /\ <<dc.copy.usage, "IN_USE">> \in Written
        /\ dc.pc = "decide"
    BY <1>13 DEF HandleFailed, Decide, Written
  <2> QED
    BY <1>4, <1>5, <2>1, <2>2 DEF DcWrite, ReturnedToUse
<1>14. CASE DcUpdate \/ DcDelete
  BY <1>14, RestingCopy DEF DcUpdate, DcDelete
<1>15. CASE LocateFails
  <2>1. DcRequeue \/ DcWrite([dc.copy EXCEPT !.usage = "FAILED"])
    BY <1>15 DEF LocateFails
  <2>2. <<dc.copy.usage, "FAILED">> \in Written /\ dc.pc = "decide"
    BY <1>15 DEF LocateFails, Decide, Written
  <2> QED
    BY <1>2, <1>3, <1>5, <2>1, <2>2
<1>16. CASE \/ HandleDriveStatusFails \/ HandleReleasedFails
            \/ HandleDriveUsageRemovedFails \/ HandleFailedFails
  BY <1>5, <1>16 DEF HandleDriveStatusFails, HandleReleasedFails, HandleDriveUsageRemovedFails,
                     HandleFailedFails
<1> QED
  BY <1>6, <1>7, <1>8, <1>9, <1>10, <1>11, <1>12, <1>13, <1>14, <1>15, <1>16
     DEF DriveController, DriveControllerFails

\* The steps of all others.
Others ==
  \/ Discover \/ HandleDriveStatusChangeFails
  \/ \E v \in Volume :
       \/ VolumeReconcile(v) \/ RetryDriveUpdateFails(v)
       \/ PerformVolumeRemovingFails(v) \/ RemoveVolumeAnnotationFails(v)
       \/ NodeRPC(v) \/ AnswerRelease(v) \/ DeleteVolume(v)
  \/ \E a \in Requests : Annotate(a)
  \/ HardwareChanges

\* What others put into the Drive: its usage becomes RELEASING or FAILED or stays,
\* its consents stay but for those that are added on good grounds.
PutByOthers(d) ==
  /\ Known /\ Put(d)
  /\ d.usage \in {drive.usage, "RELEASING", "FAILED"}
  /\ \A v \in d.released : v \in drive.released \/ nr[v] = "RELEASED"
  /\ d.clean => drive.clean \/ data = {}
  /\ d.allFA => drive.allFA \/ (UNCHANGED vol /\ \A w \in Volumes : vol[w].fa)

\* They leave the Drive alone or put something into it, in which case the
\* volumes stay but for a removal that fails.
LEMMA OthersPut ==
  ASSUME TypeOK, Others
  PROVE  /\ \/ UNCHANGED <<drive, dc>>
            \/ \E d \in DriveState : PutByOthers(d)
         /\ \/ UNCHANGED <<drive, dc>> \/ UNCHANGED vol
            \/ \E v \in Volume : PerformVolumeRemovingFails(v)
<1>1. drive \in DriveState /\ hw.health \in Health
  BY TypeParts DEF DriveType, HwType
<1> DEFINE goal == /\ UNCHANGED <<drive, dc>> \/ \E d \in DriveState : PutByOthers(d)
                   /\ \/ UNCHANGED <<drive, dc>> \/ UNCHANGED vol
                      \/ \E v \in Volume : PerformVolumeRemovingFails(v)
<1>2. CASE UpdateDrivesCRs
  <2> DEFINE s == IF hw.present THEN "ONLINE" ELSE "OFFLINE"
             h == IF hw.present THEN hw.health ELSE "UNKNOWN"
  <2>1. s \in {"ONLINE", "OFFLINE"} /\ h \in Health
    BY <1>1 DEF Health
  <2>2. Reported(drive) = [drive EXCEPT !.status = s, !.health = h]
    BY DEF Reported
  <2> HIDE DEF s, h
  <2>3. /\ Reported(drive) \in DriveState /\ Reported(drive).usage = drive.usage
        /\ Reported(drive).released = drive.released /\ Reported(drive).clean = drive.clean
        /\ Reported(drive).allFA = drive.allFA
    BY <1>1, <2>1, <2>2 DEF DriveState
  <2>4. PutByOthers(Reported(drive)) /\ UNCHANGED vol
    BY <1>2, <2>3 DEF UpdateDrivesCRs, PutByOthers
  <2> QED
    BY <2>3, <2>4
<1>3. CASE DiscoverDataOnDrives
  <2> DEFINE clean == ~(~OnLVG /\ Volumes # {}) /\ data = {}
  <2>1. clean \in BOOLEAN /\ (clean => data = {}) /\ Put([drive EXCEPT !.clean = clean])
        /\ Known /\ UNCHANGED vol
    BY <1>3, Zenon DEF DiscoverDataOnDrives
  <2> HIDE DEF clean
  <2> DEFINE d == [drive EXCEPT !.clean = clean]
  <2>2. /\ d \in DriveState /\ d.usage = drive.usage /\ d.released = drive.released
        /\ d.clean = clean /\ d.allFA = drive.allFA
    BY <1>1, <2>1 DEF DriveState
  <2>3. PutByOthers(d)
    BY <2>1, <2>2 DEF PutByOthers
  <2> QED
    BY <2>1, <2>2, <2>3
<1>4. CASE \/ HandleDriveStatusChange \/ HandleDriveStatusChangeFails \/ HardwareChanges
  BY <1>4 DEF HandleDriveStatusChange, HandleDriveStatusChangeFails, HardwareChanges
<1>5. ASSUME NEW v \in Volume, RetryDriveUpdate(v) PROVE goal
  <2> DEFINE f == [drive EXCEPT !.usage = "FAILED"]
             r == [drive EXCEPT !.usage = "RELEASING", !.released = @ \cup {v}]
  <2>1. \/ UNCHANGED <<drive, dc>>
        \/ Known /\ Put(f)
        \/ Known /\ nr[v] = "RELEASED" /\ Put(r)
    <3>1. nr[v] \in {"RELEASED", "FAILED"}
      BY <1>5 DEF RetryDriveUpdate
    <3> QED
      BY <1>5, <3>1, Zenon DEF RetryDriveUpdate
  <2>2. /\ f \in DriveState /\ f.usage = "FAILED" /\ f.released = drive.released
        /\ f.clean = drive.clean /\ f.allFA = drive.allFA
    BY <1>1 DEF DriveState, Usage
  <2>3. /\ r \in DriveState /\ r.usage = "RELEASING" /\ r.released = drive.released \cup {v}
        /\ r.clean = drive.clean /\ r.allFA = drive.allFA
    BY <1>1 DEF DriveState, Usage
  <2> HIDE DEF f, r
  <2>4. \/ UNCHANGED <<drive, dc>> \/ PutByOthers(f) \/ PutByOthers(r)
    BY <2>1, <2>2, <2>3 DEF PutByOthers
  <2>5. UNCHANGED vol
    BY <1>5 DEF RetryDriveUpdate
  <2> QED
    BY <2>2, <2>3, <2>4, <2>5
<1>6. ASSUME NEW v \in Volume, RemoveVolumeAnnotation(v) PROVE goal
  <2> DEFINE r == [drive EXCEPT !.released = @ \ {v}]
  <2>1. UNCHANGED <<drive, dc>> \/ (Known /\ Put(r))
    BY <1>6, Zenon DEF RemoveVolumeAnnotation
  <2>2. /\ r \in DriveState /\ r.usage = drive.usage /\ r.released = drive.released \ {v}
        /\ r.clean = drive.clean /\ r.allFA = drive.allFA
    BY <1>1 DEF DriveState
  <2> HIDE DEF r
  <2>3. UNCHANGED <<drive, dc>> \/ PutByOthers(r)
    BY <2>1, <2>2 DEF PutByOthers
  <2>4. UNCHANGED vol
    BY <1>6 DEF RemoveVolumeAnnotation
  <2> QED
    BY <2>2, <2>3, <2>4
<1>7. ASSUME NEW v \in Volume, PerformVolumeRemovingFails(v) PROVE goal
  <2> DEFINE f == [drive EXCEPT !.usage = "FAILED"]
  <2>1. Known /\ Put(f)
    BY <1>7 DEF PerformVolumeRemovingFails
  <2>2. /\ f \in DriveState /\ f.usage = "FAILED" /\ f.released = drive.released
        /\ f.clean = drive.clean /\ f.allFA = drive.allFA
    BY <1>1 DEF DriveState, Usage
  <2> HIDE DEF f
  <2>3. PutByOthers(f)
    BY <2>1, <2>2 DEF PutByOthers
  <2> QED
    BY <1>7, <2>2, <2>3
<1>8. ASSUME NEW v \in Volume, NodePublishVolume(v) PROVE goal
  <2> DEFINE f == [drive EXCEPT !.allFA = TRUE]
  <2>1. Known /\ Put(f) /\ (\A w \in Volumes : vol[w].fa) /\ UNCHANGED vol
    BY <1>8 DEF NodePublishVolume
  <2>2. /\ f \in DriveState /\ f.usage = drive.usage /\ f.released = drive.released
        /\ f.clean = drive.clean
    BY <1>1 DEF DriveState
  <2> HIDE DEF f
  <2>3. PutByOthers(f)
    BY <2>1, <2>2 DEF PutByOthers
  <2> QED
    BY <2>1, <2>2, <2>3
<1>9. ASSUME NEW a \in Requests, Annotate(a) PROVE goal
  <2> DEFINE r == [drive EXCEPT !.removal = TRUE]
             t == [drive EXCEPT !.action = a]
  <2>1. Known /\ UNCHANGED vol /\ ((a = "removal" /\ Put(r)) \/ (a # "removal" /\ Put(t)))
    BY <1>9, Zenon DEF Annotate
  <2>2. /\ r \in DriveState /\ r.usage = drive.usage /\ r.released = drive.released
        /\ r.clean = drive.clean /\ r.allFA = drive.allFA
    BY <1>1 DEF DriveState
  <2>3. a # "removal" =>
          /\ t \in DriveState /\ t.usage = drive.usage /\ t.released = drive.released
          /\ t.clean = drive.clean /\ t.allFA = drive.allFA
    BY <1>1, DriveReplacementAssumption DEF DriveState
  <2> HIDE DEF r, t
  <2>4. PutByOthers(r) \/ (a # "removal" /\ PutByOthers(t))
    BY <2>1, <2>2, <2>3 DEF PutByOthers
  <2> QED
    BY <2>1, <2>2, <2>3, <2>4
<1>10. ASSUME NEW v \in Volume,
              \/ UpdateVolumeUsage(v) \/ PerformVolumeRemoving(v) \/ RemoveFinalizer(v)
              \/ RetryDriveUpdateFails(v) \/ RemoveVolumeAnnotationFails(v)
              \/ NodeStageVolume(v) \/ NodeUnstageVolume(v) \/ AnswerRelease(v) \/ DeleteVolume(v)
       PROVE  goal
  BY <1>10 DEF UpdateVolumeUsage, PerformVolumeRemoving, RemoveFinalizer, RetryDriveUpdateFails,
     RemoveVolumeAnnotationFails, NodeStageVolume, NodeUnstageVolume, AnswerRelease, DeleteVolume
<1> HIDE DEF goal
<1>11. goal
  <2>1. CASE Discover \/ HandleDriveStatusChangeFails \/ HardwareChanges
    BY <1>2, <1>3, <1>4, <2>1 DEF Discover, goal
  <2>2. ASSUME NEW v \in Volume,
               \/ VolumeReconcile(v) \/ RetryDriveUpdateFails(v)
               \/ PerformVolumeRemovingFails(v) \/ RemoveVolumeAnnotationFails(v)
               \/ NodeRPC(v) \/ AnswerRelease(v) \/ DeleteVolume(v)
        PROVE  goal
    BY <1>5, <1>6, <1>7, <1>8, <1>10, <2>2 DEF VolumeReconcile, NodeRPC
  <2> QED
    BY <1>9, <2>1, <2>2 DEF Others
<1> QED
  BY <1>11 DEF goal

\* Only two of the drive controller's steps write the Drive.
LEMMA ControllerWrites ==
  ASSUME DriveController \/ DriveControllerFails
  PROVE  UNCHANGED drive \/ DcUpdate \/ DcDelete
<1>1. HandleReleased => UNCHANGED drive
  <2>1. HandleReleased => (\E d : DcWrite(d)) \/ DcIgnore
    BY Zenon DEF HandleReleased
  <2> QED
    BY <2>1 DEF DcWrite, DcIgnore
<1>2. HandleFailed => UNCHANGED drive
  <2>1. HandleFailed => UNCHANGED drive \/ (\E d : DcWrite(d)) \/ DcIgnore
    BY Zenon DEF HandleFailed
  <2> QED
    BY <2>1 DEF DcWrite, DcIgnore
<1>3. DcRead \/ HandleDriveStatus \/ HandleInUse \/ HandleDriveUsageReleasing
        \/ HandleDriveUsageRemoving \/ HandleDriveUsageRemoved \/ DriveControllerFails
          => UNCHANGED drive
  BY DEF DcRead, HandleDriveStatus, HandleInUse, HandleDriveUsageReleasing,
         HandleDriveUsageRemoving, HandleDriveUsageRemoved, DcWrite, DcIgnore,
         DriveControllerFails, HandleDriveStatusFails, HandleReleasedFails, LocateFails,
         HandleDriveUsageRemovedFails, HandleFailedFails
<1> QED
  BY <1>1, <1>2, <1>3 DEF DriveController

\* Whoever writes the Drive or the disk: annotations and consents appear only on
\* good grounds, data is not put back, and a Drive that is deleted stays so.
LEMMA DriveStep ==
  ASSUME TypeOK, CopyInv, Next
  PROVE  /\ \A v \in drive'.released : v \in drive.released \/ nr[v] = "RELEASED"
         /\ drive'.clean => drive.clean \/ data = {}
         /\ drive'.allFA => drive.allFA \/ (UNCHANGED vol /\ \A w \in Volumes : vol[w].fa)
         /\ Known' => Known
<1>1. drive \in DriveState
  BY TypeParts DEF DriveType
<1>2. CASE DriveController \/ DriveControllerFails
  <2>1. CASE UNCHANGED drive
    BY <2>1 DEF Known
  <2>2. CASE DcUpdate
    BY <2>2 DEF DcUpdate, CopyInv, Written, Known
  <2>3. CASE DcDelete
    <3>1. /\ drive'.released = drive.released /\ drive'.clean = drive.clean
          /\ drive'.allFA = drive.allFA /\ drive'.usage = "absent"
      BY <1>1, <2>3 DEF DcDelete, DriveState
    <3> QED
      BY <3>1 DEF Known
  <2>4. UNCHANGED drive \/ DcUpdate \/ DcDelete
    BY <1>2, ControllerWrites
  <2> QED
    BY <2>1, <2>2, <2>3, <2>4
<1>3. CASE Others
  <2>1. CASE UNCHANGED drive
    BY <2>1 DEF Known
  <2>2. ASSUME NEW d \in DriveState, PutByOthers(d)
        PROVE  /\ \A v \in drive'.released : v \in drive.released \/ nr[v] = "RELEASED"
               /\ drive'.clean => drive.clean \/ data = {}
               /\ drive'.allFA => drive.allFA \/ (UNCHANGED vol /\ \A w \in Volumes : vol[w].fa)
               /\ Known
    BY <2>2 DEF PutByOthers, Put
  <2> QED
    BY <1>3, <2>1, <2>2, OthersPut
<1> QED
  BY <1>2, <1>3 DEF Next, Others

-----------------------------------------------------------------------------
(* The invariant                                                           *)

\* What handleDriveUpdate takes for consent is up to date: the drive that is
\* called clean has no data, and with the annotation of the last volume all
\* volumes are fake attached.
ConsentInv ==
  /\ drive.clean => data = {}
  /\ Known /\ drive.allFA => \A v \in Volumes : vol[v].fa

ReplacementInv == TypeOK /\ VolInv /\ CopyInv /\ ConsentInv

\* No step notes a release on the node that the Volume does not have, and none
\* puts data back.
LEMMA NodeStep ==
  ASSUME TypeOK, Next
  PROVE  /\ \A v \in Volume : nr'[v] = "RELEASED" => nr[v] = "RELEASED" \/ vol'[v].usage = "RELEASED"
         /\ data' \subseteq data
<1>1. nr \in [Volume -> {"idle", "RELEASED", "FAILED", "finalizer"}] /\ vol \in [Volume -> VolState]
  BY TypeParts DEF NrType, VolType
<1>2. CASE UNCHANGED <<nr, data>>
  BY <1>2
<1>3. ASSUME NEW w \in Volume, VolumeReconcile(w) \/ RetryDriveUpdateFails(w)
                                 \/ RemoveVolumeAnnotationFails(w)
      PROVE  /\ \A v \in Volume :
                  nr'[v] = "RELEASED" => nr[v] = "RELEASED" \/ vol'[v].usage = "RELEASED"
             /\ data' \subseteq data
  <2>1. CASE UpdateVolumeUsage(w)
    <3>1. PICK u \in {"RELEASED", "FAILED"} : /\ vol' = [vol EXCEPT ![w].usage = u]
                                              /\ nr' = [nr EXCEPT ![w] = u]
      BY <2>1 DEF UpdateVolumeUsage
    <3>2. vol'[w].usage = u
      BY <1>1, <3>1 DEF VolState
    <3>3. data' = data
      BY <2>1 DEF UpdateVolumeUsage
    <3> QED
      BY <1>1, <3>1, <3>2, <3>3
  <2>2. CASE PerformVolumeRemoving(w)
    BY <2>2 DEF PerformVolumeRemoving
  <2>3. CASE RetryDriveUpdate(w) \/ RemoveFinalizer(w) \/ RetryDriveUpdateFails(w)
    <3>1. nr' = [nr EXCEPT ![w] = "idle"] /\ data' = data
      BY <2>3 DEF RetryDriveUpdate, RemoveFinalizer, RetryDriveUpdateFails
    <3> QED
      BY <1>1, <3>1
  <2>4. CASE RemoveVolumeAnnotation(w) \/ RemoveVolumeAnnotationFails(w)
    <3>1. nr' = [nr EXCEPT ![w] = "finalizer"] /\ data' = data
      BY <2>4 DEF RemoveVolumeAnnotation, RemoveVolumeAnnotationFails
    <3> QED
      BY <1>1, <3>1
  <2> QED
    BY <1>3, <2>1, <2>2, <2>3, <2>4 DEF VolumeReconcile
<1>4. ASSUME NEW w \in Volume, NodeRPC(w) \/ AnswerRelease(w) \/ DeleteVolume(w)
                                 \/ PerformVolumeRemovingFails(w)
      PROVE  UNCHANGED <<nr, data>>
  BY <1>4 DEF NodeRPC, NodeStageVolume, NodePublishVolume, NodeUnstageVolume, AnswerRelease,
              DeleteVolume, PerformVolumeRemovingFails
<1>5. Discover \/ HandleDriveStatusChangeFails \/ HardwareChanges \/ (\E a \in Requests : Annotate(a))
        => UNCHANGED <<nr, data>>
  BY DEF Discover, UpdateDrivesCRs, DiscoverDataOnDrives, HandleDriveStatusChange,
         HandleDriveStatusChangeFails, HardwareChanges, Annotate
<1>6. DriveController \/ DriveControllerFails => UNCHANGED <<nr, data>>
  <2>1. HandleReleased => UNCHANGED <<nr, data>>
    <3>1. HandleReleased => (\E d : DcWrite(d)) \/ DcIgnore
      BY Zenon DEF HandleReleased
    <3> QED
      BY <3>1 DEF DcWrite, DcIgnore
  <2>2. HandleFailed => UNCHANGED <<nr, data>>
    <3>1. HandleFailed => UNCHANGED <<hw, data, drive, event, nr, disc, spent>>
                            \/ (\E d : DcWrite(d)) \/ DcIgnore
      BY Zenon DEF HandleFailed
    <3> QED
      BY <3>1 DEF DcWrite, DcIgnore
  <2>3. DcRead \/ HandleDriveStatus \/ HandleInUse \/ HandleDriveUsageReleasing
          \/ HandleDriveUsageRemoving \/ HandleDriveUsageRemoved \/ DcUpdate \/ DcDelete
          \/ DriveControllerFails
            => UNCHANGED <<nr, data>>
    BY DEF DcRead, HandleDriveStatus, HandleInUse, HandleDriveUsageReleasing,
           HandleDriveUsageRemoving, HandleDriveUsageRemoved, DcUpdate, DcDelete, DcWrite,
           DcIgnore, DriveControllerFails, HandleDriveStatusFails, HandleReleasedFails,
           LocateFails, HandleDriveUsageRemovedFails, HandleFailedFails
  <2> QED
    BY <2>1, <2>2, <2>3 DEF DriveController
<1> QED
  BY <1>2, <1>3, <1>4, <1>5, <1>6 DEF Next

\* Every step keeps what the annotations say about the volumes.
LEMMA VolInvStep == ReplacementInv /\ Next => VolInv'
<1> SUFFICES ASSUME ReplacementInv, Next, NEW v \in Volume
             PROVE  /\ vol'[v].usage = "RELEASED" => vol'[v].release # "failed"
                    /\ nr'[v] = "RELEASED" => vol'[v].usage = "RELEASED"
                    /\ v \in drive'.released => vol'[v].usage = "RELEASED" \/ vol'[v].cs = "gone"
                    /\ vol'[v].fa => v \in FakeAttach
  BY DEF VolInv
<1>1. VolStep(v)
  BY VolumeSteps DEF ReplacementInv
<1>2. /\ vol[v].usage = "RELEASED" => vol[v].release # "failed"
      /\ nr[v] = "RELEASED" => vol[v].usage = "RELEASED"
      /\ v \in drive.released => vol[v].usage = "RELEASED" \/ vol[v].cs = "gone"
      /\ vol[v].fa => v \in FakeAttach
  BY DEF ReplacementInv, VolInv
<1>3. nr'[v] = "RELEASED" => nr[v] = "RELEASED" \/ vol'[v].usage = "RELEASED"
  BY NodeStep DEF ReplacementInv
<1>4. v \in drive'.released => v \in drive.released \/ nr[v] = "RELEASED"
  BY DriveStep DEF ReplacementInv
<1> QED
  BY <1>1, <1>2, <1>3, <1>4 DEF VolStep

\* Every step keeps the copy in order: the others make it stale or leave alone
\* what it was decided on.
LEMMA CopyInvStep == ReplacementInv /\ Next => CopyInv'
<1> SUFFICES ASSUME ReplacementInv, Next PROVE CopyInv'
  OBVIOUS
<1>1. TypeOK /\ VolInv /\ CopyInv /\ DcType /\ Volumes' \subseteq Volumes
  BY Shrink, TypeParts DEF ReplacementInv
<1>2. CASE DriveController \/ DriveControllerFails
  BY <1>1, <1>2, ControllerKeepsCopy
<1>3. CASE Others
  <2>1. CASE UNCHANGED <<drive, dc>>
    BY <1>1, <2>1 DEF CopyInv, MayRemove
  <2>2. ASSUME NEW d \in DriveState, PutByOthers(d) PROVE CopyInv'
    BY <1>1, <2>2, PutKeepsCopy DEF PutByOthers
  <2> QED
    BY <1>1, <1>3, <2>1, <2>2, OthersPut
<1> QED
  BY <1>2, <1>3 DEF Next, Others

\* Every step keeps the grounds of consent true: data is not put back, a volume is
\* not staged for real once the annotation of the last one is there.
LEMMA ConsentInvStep == ReplacementInv /\ Next => ConsentInv'
<1> SUFFICES ASSUME ReplacementInv, Next PROVE ConsentInv'
  OBVIOUS
<1>1. /\ drive'.clean => drive.clean \/ data = {}
      /\ drive'.allFA => drive.allFA \/ (UNCHANGED vol /\ \A w \in Volumes : vol[w].fa)
      /\ Known' => Known
  BY DriveStep DEF ReplacementInv
<1>2. data' \subseteq data /\ Volumes' \subseteq Volumes
  BY NodeStep, Shrink DEF ReplacementInv
<1>3. ASSUME Known', drive'.allFA, NEW v \in Volumes' PROVE vol'[v].fa
  <2>1. v \in Volumes /\ v \in Volume /\ vol'[v].cs # "gone"
    BY <1>2, <1>3 DEF Volumes
  <2>2. CASE drive.allFA
    <3>1. vol[v].fa /\ v \in FakeAttach /\ Known
      BY <1>1, <1>3, <2>1, <2>2 DEF ReplacementInv, ConsentInv, VolInv
    <3>2. VolStep(v)
      BY <2>1, VolumeSteps DEF ReplacementInv
    <3> QED
      BY <2>1, <2>2, <3>1, <3>2 DEF VolStep
  <2>3. CASE UNCHANGED vol /\ \A w \in Volumes : vol[w].fa
    BY <2>1, <2>3
  <2> QED
    BY <1>1, <1>3, <2>2, <2>3
<1>4. drive'.clean => data' = {}
  BY <1>1, <1>2 DEF ReplacementInv, ConsentInv
<1> QED
  BY <1>3, <1>4 DEF ConsentInv

\* The invariant holds of every reachable state.
LEMMA Invariant == Spec => []ReplacementInv
<1>1. Init => ReplacementInv
  <2> SUFFICES ASSUME Init PROVE ReplacementInv
    OBVIOUS
  <2>1. TypeOK
    BY InitType
  <2>2. VolInv
    BY DEF Init, VolInv, InitDrive
  <2>3. CopyInv
    BY DEF Init, CopyInv
  <2>4. ConsentInv
    BY DEF Init, ConsentInv, InitDrive
  <2> QED
    BY <2>1, <2>2, <2>3, <2>4 DEF ReplacementInv
<1>2. ReplacementInv /\ [Next]_vars => ReplacementInv'
  <2>1. ReplacementInv /\ UNCHANGED vars => ReplacementInv'
    BY TypeParts, UnchangedTypes DEF ReplacementInv, vars, VolInv, CopyInv, ConsentInv, Known,
                                     Volumes, MayRemove
  <2>2. ReplacementInv /\ Next => ReplacementInv'
    BY TypeStep, VolInvStep, CopyInvStep, ConsentInvStep DEF ReplacementInv
  <2> QED
    BY <2>1, <2>2
<1> QED
  BY <1>1, <1>2, PTL DEF Spec

\* The removal of a drive that still has data and a volume that is really attached
\* starts only with the user's consent, whatever was written between the read of
\* the Drive and its update.
THEOREM Consent == Spec => RemovedWithConsent
<1> DEFINE A == drive.usage # "REMOVING" /\ drive'.usage = "REMOVING"
                  => drive.removal \/ data = {} \/ Live = {}
<1>1. ReplacementInv /\ [Next]_vars => [A]_vars
  <2> SUFFICES ASSUME ReplacementInv, Next, drive.usage # "REMOVING", drive'.usage = "REMOVING"
               PROVE  drive.removal \/ data = {} \/ Live = {}
    OBVIOUS
  <2>1. DcUpdate /\ dc.fresh /\ dc.copy.usage = "REMOVING"
    <3>1. CASE Others
      BY <3>1, OthersPut DEF ReplacementInv, PutByOthers, Put
    <3>2. CASE DriveController \/ DriveControllerFails
      <4>1. UNCHANGED drive \/ DcUpdate \/ DcDelete
        BY <3>2, ControllerWrites
      <4>2. DcDelete => drive'.usage = "absent"
        BY TypeParts DEF ReplacementInv, DcDelete, DriveType, DriveState
      <4> QED
        BY <4>1, <4>2 DEF DcUpdate
    <3> QED
      BY <3>1, <3>2 DEF Next, Others
  <2>2. MayRemove(drive) /\ Known
    BY <2>1 DEF ReplacementInv, CopyInv, DcUpdate, Written, Known
  <2>3. drive.allFA => Live = {}
    BY <2>2 DEF ReplacementInv, ConsentInv, Live
  <2> QED
    BY <2>2, <2>3 DEF ReplacementInv, ConsentInv, MayRemove
<1> QED
  BY <1>1, Invariant, PTL DEF Spec, RemovedWithConsent

-----------------------------------------------------------------------------
(* The refinement                                                          *)

\* A step of the lifecycle, or none.
LifecycleStep == Abstract!LifecycleNext \/ UNCHANGED Abstract!lifecycle

\* Nobody's view of his volume has changed.
LEMMA SameView ==
  ASSUME \A v \in Volume : Same(v)
  PROVE  Held' = Held /\ Live' = Live
BY DEF Same, Held, Live, Volumes

\* A verdict may be dropped.
LEMMA QuietStep ==
  ASSUME drive'.usage = drive.usage, Held' = Held, Live' = Live, Verdict' \in {Verdict, "none"}
  PROVE  LifecycleStep
<1>1. CASE Verdict' = Verdict
  BY <1>1 DEF LifecycleStep, Abstract!lifecycle
<1>2. CASE Verdict' = "none"
  BY <1>2 DEF LifecycleStep, Abstract!LifecycleNext, Abstract!Judge
<1> QED
  BY <1>1, <1>2

\* A Put by another process drops what was about to be written, and leaves
\* alone what is about to be deleted.
LEMMA PutVerdict ==
  ASSUME DcType, NEW d, Put(d)
  PROVE  Verdict' \in {Verdict, "none"}
<1>1. dc \in DcState /\ drive' = d
  BY DEF Put, DcType
<1>2. CASE d = drive
  <2>1. dc' = dc /\ drive' = drive
    BY <1>1, <1>2, Zenon DEF Put
  <2> QED
    BY <2>1 DEF Verdict
<1>3. CASE dc.pc = "idle"
  <2>1. dc' = dc
    BY <1>3, Zenon DEF Put
  <2> QED
    BY <1>3, <2>1 DEF Verdict
<1>4. CASE ~(d = drive \/ dc.pc = "idle")
  <2>1. dc' = [dc EXCEPT !.fresh = FALSE]
    BY <1>4, Zenon DEF Put
  <2>2. dc'.pc = dc.pc /\ dc'.copy = dc.copy /\ ~dc'.fresh
    BY <1>1, <2>1 DEF DcState
  <2> QED
    BY <2>2 DEF Verdict
<1> QED
  BY <1>2, <1>3, <1>4

\* Owners, users and the node: a volume is let go, a drive is released late or
\* fails, a verdict becomes stale.
LEMMA OthersRefine ==
  ASSUME ReplacementInv, Others
  PROVE  LifecycleStep
<1>1. TypeOK /\ VolInv /\ DcType /\ drive \in DriveState /\ vol \in [Volume -> VolState]
  BY TypeParts DEF ReplacementInv, DriveType, VolType
<1>2. CASE UNCHANGED <<drive, dc>>
  <2>1. Verdict' = Verdict /\ drive'.usage = drive.usage
    BY <1>2 DEF Verdict
  <2>2. Held' \subseteq Held
    BY <1>1, Shrink DEF Others, Next
  <2> QED
    BY <2>1, <2>2 DEF LifecycleStep, Abstract!LifecycleNext, Abstract!Owners
<1>3. ASSUME NEW d \in DriveState, PutByOthers(d),
             UNCHANGED vol \/ \E v \in Volume : PerformVolumeRemovingFails(v)
      PROVE  LifecycleStep
  <2>1. Verdict' \in {Verdict, "none"}
    BY <1>1, <1>3, PutVerdict DEF PutByOthers
  <2>2. Held' = Held /\ Live' = Live
    <3>1. CASE UNCHANGED vol
      BY <3>1 DEF Held, Live, Volumes
    <3>2. ASSUME NEW v \in Volume, PerformVolumeRemovingFails(v) PROVE Held' = Held /\ Live' = Live
      <4>1. /\ vol'[v].cs \in {"Removing", "Failed"} /\ vol'[v].usage = vol[v].usage
            /\ vol'[v].fa = vol[v].fa /\ vol[v].cs = "Removing"
            /\ \A w \in Volume \ {v} : vol'[w] = vol[w]
        BY <1>1, <3>2 DEF PerformVolumeRemovingFails, VolState
      <4> QED
        BY <4>1 DEF Held, Live, Volumes
    <3> QED
      BY <1>3, <3>1, <3>2
  <2>3. drive' = d /\ d.usage \in {drive.usage, "RELEASING", "FAILED"}
    BY <1>3 DEF PutByOthers, Put
  <2>4. drive.usage \in Abstract!Usage
    BY <1>1, <1>3 DEF PutByOthers, Known, DriveState, Usage, Abstract!Usage
  <2>5. CASE d.usage = drive.usage
    BY <2>1, <2>2, <2>3, <2>5, QuietStep
  <2>6. CASE d.usage = "RELEASING"
    BY <2>1, <2>2, <2>3, <2>4, <2>6 DEF LifecycleStep, Abstract!LifecycleNext, Abstract!Releasing
  <2>7. CASE d.usage = "FAILED"
    BY <2>1, <2>2, <2>3, <2>4, <2>7 DEF LifecycleStep, Abstract!LifecycleNext, Abstract!Failed
  <2> QED
    BY <2>3, <2>5, <2>6, <2>7
<1> QED
  BY <1>1, <1>2, <1>3, OthersPut

\* The drive controller writes what it has decided.
LEMMA UpdateRefines ==
  ASSUME ReplacementInv, DcUpdate
  PROVE  LifecycleStep
<1>1. UNCHANGED vol /\ Verdict' = "none" /\ dc.pc = "update"
  BY DEF DcUpdate, Done, Verdict
<1>2. Held' = Held /\ Live' = Live
  BY <1>1 DEF Held, Live, Volumes
<1>3. CASE ~dc.fresh
  BY <1>1, <1>2, <1>3, QuietStep DEF DcUpdate
<1>4. CASE dc.fresh
  <2>1. drive' = dc.copy
    BY <1>4 DEF DcUpdate
  <2>2. <<drive.usage, drive'.usage>> \in Written
    BY <1>1, <1>4, <2>1 DEF ReplacementInv, CopyInv
  <2>3. CASE drive.usage = "IN_USE" /\ drive'.usage = "RELEASING"
    BY <1>1, <1>2, <2>3 DEF LifecycleStep, Abstract!LifecycleNext, Abstract!Releasing,
                            Abstract!Usage
  <2>4. CASE drive.usage = "RELEASING" /\ drive'.usage = "RELEASED"
    <3>1. Volumes \subseteq drive.released
      BY <1>1, <1>4, <2>1, <2>4 DEF ReplacementInv, CopyInv
    <3>2. Held = {}
      BY <3>1 DEF ReplacementInv, VolInv, Held, Volumes
    <3>3. Verdict = "none"
      BY <1>1, <2>4 DEF Verdict
    <3> QED
      BY <1>1, <1>2, <2>4, <3>2, <3>3 DEF LifecycleStep, Abstract!LifecycleNext, Abstract!Released
  <2>5. CASE drive.usage = "RELEASED" /\ drive'.usage = "REMOVING"
    <3>1. Verdict = "none"
      BY <1>1, <2>5 DEF Verdict
    <3> QED
      BY <1>1, <1>2, <2>5, <3>1 DEF LifecycleStep, Abstract!LifecycleNext, Abstract!Removing
  <2>6. CASE drive.usage \in {"RELEASED", "FAILED"} /\ drive'.usage = "IN_USE"
    <3>1. Verdict = "none"
      BY <1>1, <2>6 DEF Verdict
    <3> QED
      BY <1>1, <1>2, <2>6, <3>1 DEF LifecycleStep, Abstract!LifecycleNext, Abstract!ReturnToUse
  <2>7. CASE drive.usage = "REMOVING" /\ drive'.usage = "REMOVED"
    <3>1. Verdict = "removable"
      BY <1>1, <1>4, <2>1, <2>7 DEF Verdict
    <3> QED
      BY <1>1, <1>2, <2>7, <3>1 DEF LifecycleStep, Abstract!LifecycleNext, Abstract!Removed
  <2>8. CASE drive.usage = "REMOVING" /\ drive'.usage = "FAILED"
    BY <1>1, <1>2, <2>8 DEF LifecycleStep, Abstract!LifecycleNext, Abstract!Failed,
                            Abstract!Usage
  <2>9. CASE drive.usage = "FAILED" /\ drive'.usage = "REMOVED"
    <3>1. Verdict = "none"
      BY <1>1, <2>9 DEF Verdict
    <3> QED
      BY <1>1, <1>2, <2>9, <3>1 DEF LifecycleStep, Abstract!LifecycleNext, Abstract!ForcedRemoval
  <2> QED
    BY <2>2, <2>3, <2>4, <2>5, <2>6, <2>7, <2>8, <2>9 DEF Written
<1> QED
  BY <1>3, <1>4

\* What it decides is the verdict of the lifecycle, or none.
LEMMA DecisionRefines ==
  ASSUME ReplacementInv, dc.pc = "decide", UNCHANGED drive, Held' = Held, Live' = Live,
         NEW d, dc' = [dc EXCEPT !.pc = "update", !.copy = d],
         d.usage = "REMOVED" /\ dc.copy.usage = "REMOVING" => Live = {},
         <<dc.copy.usage, d.usage>> \in Written
  PROVE  LifecycleStep
<1>1. /\ dc'.pc = "update" /\ dc'.copy = d /\ dc'.fresh = dc.fresh
      /\ dc.fresh => dc.copy = drive
  BY TypeParts DEF ReplacementInv, DcType, DcState, CopyInv
<1>2. Verdict' \in {"none", "removable"}
  BY <1>1 DEF Verdict
<1>3. CASE Verdict' = "none"
  BY <1>3, QuietStep
<1>4. CASE Verdict' = "removable"
  <2>1. drive.usage = "REMOVING" /\ d.usage = "REMOVED" /\ dc.fresh
    BY <1>1, <1>4 DEF Verdict
  <2>2. Live = {}
    BY <1>1, <2>1
  <2> QED
    BY <1>4, <2>1, <2>2 DEF LifecycleStep, Abstract!LifecycleNext, Abstract!Judge
<1> QED
  BY <1>2, <1>3, <1>4

\* The drive controller: what it reads and decides is a verdict, what it writes
\* is a step of the lifecycle.
LEMMA ControllerRefines ==
  ASSUME ReplacementInv, DriveController \/ DriveControllerFails
  PROVE  LifecycleStep
<1>1. /\ TypeOK /\ VolType /\ VolInv /\ dc \in DcState /\ drive \in DriveState
      /\ dc.copy \in DriveState /\ Volumes \in SUBSET Volume
  BY TypeParts DEF ReplacementInv, DcType, DriveType, DcState, Volumes
<1>2. ASSUME NEW V \in SUBSET Volume,
             UNCHANGED vol \/ vol' = WithOpStatus(V) \/ vol' = WithUsageReset(V)
      PROVE  Held' = Held /\ Live' = Live
  <2>1. \A v \in Volume : Same(v)
    BY <1>1, <1>2, ManyVolumes
  <2> QED
    BY <2>1, SameView
<1>3. dc' = Done => Verdict' = "none"
  BY DEF Done, Verdict
<1>4. ASSUME dc' = Done, UNCHANGED drive, NEW V \in SUBSET Volume,
             UNCHANGED vol \/ vol' = WithOpStatus(V) \/ vol' = WithUsageReset(V)
      PROVE  LifecycleStep
  <2>1. Held' = Held /\ Live' = Live
    BY <1>2, <1>4
  <2> QED
    BY <1>3, <1>4, <2>1, QuietStep
<1>5. DcIgnore => LifecycleStep
  BY <1>1, <1>4 DEF DcIgnore
<1>6. DcRequeue /\ UNCHANGED <<drive, vol>> => LifecycleStep
  BY <1>1, <1>4 DEF DcRequeue
<1>7. ASSUME NEW d, DcWrite(d), dc.pc = "decide", <<dc.copy.usage, d.usage>> \in Written,
             d.usage = "REMOVED" /\ dc.copy.usage = "REMOVING" => Live = {}
      PROVE  LifecycleStep
  <2>1. Held' = Held /\ Live' = Live
    BY <1>1, <1>2, <1>7 DEF DcWrite
  <2> QED
    BY <1>7, <2>1, DecisionRefines DEF DcWrite
<1>8. /\ \A u \in Usage : [dc.copy EXCEPT !.usage = u].usage = u
      /\ \A u \in Usage : [dc.copy EXCEPT !.usage = u, !.action = "none"].usage = u
      /\ ReturnedToUse(dc.copy).usage = "IN_USE"
      /\ {"IN_USE", "RELEASING", "RELEASED", "REMOVING", "REMOVED", "FAILED"} \subseteq Usage
  BY <1>1, CopyFields DEF ReturnedToUse, Usage
<1>9. CASE DcRead
  <2>1. Verdict = "none" /\ UNCHANGED <<drive, vol>>
    BY <1>9 DEF DcRead, Verdict
  <2>2. Held' = Held /\ Live' = Live
    BY <1>1, <1>2, <2>1
  <2>3. CASE ~Known
    <3>1. dc' = dc
      BY <1>9, <2>3 DEF DcRead
    <3> QED
      BY <2>1, <2>2, <3>1, QuietStep DEF Verdict
  <2>4. CASE Known
    <3>1. dc'.pc = "status" /\ dc'.copy = drive
      BY <1>9, <2>4 DEF DcRead
    <3>2. CASE drive.usage = "REMOVED" /\ drive.status = "OFFLINE"
      <4>1. Verdict' = "deletable"
        BY <3>1, <3>2 DEF Verdict
      <4> QED
        BY <2>1, <2>2, <3>2, <4>1 DEF LifecycleStep, Abstract!LifecycleNext, Abstract!Judge
    <3>3. CASE ~(drive.usage = "REMOVED" /\ drive.status = "OFFLINE")
      <4>1. Verdict' = "none"
        BY <3>1, <3>3 DEF Verdict
      <4> QED
        BY <2>1, <2>2, <4>1, QuietStep
    <3> QED
      BY <3>2, <3>3
  <2> QED
    BY <2>3, <2>4
<1>10. CASE HandleDriveStatus
  <2>1. Held' = Held /\ Live' = Live
    BY <1>1, <1>2, <1>10 DEF HandleDriveStatus
  <2>2. dc'.pc = "decide" /\ dc'.copy = dc.copy /\ dc.pc = "status" /\ UNCHANGED drive
    BY <1>1, <1>10 DEF HandleDriveStatus, DcState
  <2>3. Verdict' = Verdict
    BY <2>2 DEF Verdict
  <2> QED
    BY <2>1, <2>2, <2>3, QuietStep
<1>11. CASE HandleInUse
  <2>1. DcIgnore \/ DcWrite([dc.copy EXCEPT !.usage = "RELEASING"])
    BY <1>11 DEF HandleInUse
  <2>2. <<dc.copy.usage, "RELEASING">> \in Written /\ dc.pc = "decide"
    BY <1>11 DEF HandleInUse, Decide, Written
  <2> QED
    BY <1>5, <1>7, <1>8, <2>1, <2>2
<1>12. CASE HandleDriveUsageReleasing
  <2>1. DcIgnore \/ DcWrite([dc.copy EXCEPT !.usage = "RELEASED"])
    BY <1>12 DEF HandleDriveUsageReleasing
  <2>2. <<dc.copy.usage, "RELEASED">> \in Written /\ dc.pc = "decide"
    BY <1>12 DEF HandleDriveUsageReleasing, Decide, Written
  <2> QED
    BY <1>5, <1>7, <1>8, <2>1, <2>2
<1>13. CASE HandleReleased
  <2>1. \/ DcWrite(ReturnedToUse(dc.copy)) \/ DcIgnore
        \/ DcWrite([dc.copy EXCEPT !.usage = "REMOVING"])
    BY <1>13, Zenon DEF HandleReleased
  <2>2. /\ <<dc.copy.usage, "REMOVING">> \in Written /\ <<dc.copy.usage, "IN_USE">> \in Written
        /\ dc.pc = "decide"
    BY <1>13 DEF HandleReleased, Decide, Written
  <2> QED
    BY <1>5, <1>7, <1>8, <2>1, <2>2
<1>14. CASE HandleDriveUsageRemoving
  <2>1. \/ DcRequeue /\ UNCHANGED <<drive, vol>>
        \/ AllRemoved /\ DcWrite([dc.copy EXCEPT !.usage = "REMOVED"])
    BY <1>14 DEF HandleDriveUsageRemoving
  <2>2. <<dc.copy.usage, "REMOVED">> \in Written /\ dc.pc = "decide"
    BY <1>14 DEF HandleDriveUsageRemoving, Decide, Written
  <2>3. AllRemoved => Live = {}
    BY DEF AllRemoved, Live
  <2> QED
    BY <1>6, <1>7, <1>8, <2>1, <2>2, <2>3
<1>15. CASE HandleDriveUsageRemoved
  <2>1. CASE DcIgnore
    BY <1>5, <2>1
  <2>2. CASE /\ dc.copy.status = "OFFLINE"
             /\ dc' = [dc EXCEPT !.pc = "delete"] /\ UNCHANGED <<drive, vol>>
    <3>1. dc'.pc = "delete" /\ dc'.copy = dc.copy /\ dc.pc = "decide" /\ dc.copy.usage = "REMOVED"
      BY <1>1, <1>15, <2>2 DEF HandleDriveUsageRemoved, Decide, DcState
    <3>2. Verdict' = Verdict
      BY <2>2, <3>1 DEF Verdict
    <3>3. Held' = Held /\ Live' = Live
      BY <1>1, <1>2, <2>2
    <3> QED
      BY <2>2, <3>2, <3>3, QuietStep
  <2> QED
    BY <1>15, <2>1, <2>2 DEF HandleDriveUsageRemoved
<1>16. CASE HandleFailed
  <2>1. \/ /\ dc' = [dc EXCEPT !.pc = "update", !.copy = ReturnedToUse(dc.copy)]
           /\ UNCHANGED drive /\ vol' = WithUsageReset(Volumes)
        \/ DcWrite([dc.copy EXCEPT !.usage = "REMOVED", !.action = "none"])
        \/ DcIgnore
    BY <1>16, Zenon DEF HandleFailed
  <2>2. /\ <<dc.copy.usage, "REMOVED">> \in Written /\ <<dc.copy.usage, "IN_USE">> \in Written
        /\ dc.pc = "decide" /\ dc.copy.usage = "FAILED"
    BY <1>16 DEF HandleFailed, Decide, Written
  <2>3. CASE /\ dc' = [dc EXCEPT !.pc = "update", !.copy = ReturnedToUse(dc.copy)]
             /\ UNCHANGED drive /\ vol' = WithUsageReset(Volumes)
    <3>1. Held' = Held /\ Live' = Live
      BY <1>1, <1>2, <2>3
    <3> QED
      BY <1>8, <2>2, <2>3, <3>1, DecisionRefines
  <2> QED
    BY <1>5, <1>7, <1>8, <2>1, <2>2, <2>3
<1>17. CASE DcUpdate
  BY <1>17, UpdateRefines
<1>18. CASE DcDelete
  <2>1. /\ drive'.usage = "absent" /\ UNCHANGED vol /\ dc' = Done /\ dc.pc = "delete"
    BY <1>1, <1>18 DEF DcDelete, DriveState
  <2>2. Verdict = "deletable"
    BY <2>1 DEF ReplacementInv, CopyInv, Verdict
  <2>3. Held' = Held /\ Live' = Live
    BY <1>1, <1>2, <2>1
  <2> QED
    BY <1>3, <2>1, <2>2, <2>3 DEF LifecycleStep, Abstract!LifecycleNext, Abstract!Forgotten
<1>19. CASE LocateFails
  <2>1. \/ DcRequeue /\ UNCHANGED <<drive, vol>>
        \/ DcWrite([dc.copy EXCEPT !.usage = "FAILED"])
    BY <1>19 DEF LocateFails
  <2>2. <<dc.copy.usage, "FAILED">> \in Written /\ dc.pc = "decide"
    BY <1>19 DEF LocateFails, Decide, Written
  <2> QED
    BY <1>6, <1>7, <1>8, <2>1, <2>2
<1>20. CASE HandleDriveStatusFails \/ HandleFailedFails
  <2>1. /\ dc' = Done /\ UNCHANGED drive
        /\ \E V \in SUBSET Volumes : vol' = WithOpStatus(V) \/ vol' = WithUsageReset(V)
    BY <1>20 DEF HandleDriveStatusFails, HandleFailedFails, DcRequeue
  <2> QED
    BY <1>1, <1>4, <2>1
<1>21. CASE HandleReleasedFails \/ HandleDriveUsageRemovedFails
  BY <1>6, <1>21 DEF HandleReleasedFails, HandleDriveUsageRemovedFails
<1> QED
  BY <1>9, <1>10, <1>11, <1>12, <1>13, <1>14, <1>15, <1>16, <1>17, <1>18, <1>19, <1>20, <1>21
     DEF DriveController, DriveControllerFails

\* For any set of volumes, any answers, requests and faults, and any order of the
\* controllers' reads and writes: what they do to a bad drive is the lifecycle
\* that its owners were promised.
THEOREM Implements == Spec => ImplementsLifecycle
<1>1. Init => Abstract!LifecycleInit
  <2> SUFFICES ASSUME Init PROVE Abstract!LifecycleInit
    OBVIOUS
  <2>1. drive.usage = "IN_USE" /\ Verdict = "none"
    BY DEF Init, InitDrive, Verdict
  <2>2. Held \subseteq Volume /\ Live \subseteq Volume
    BY DEF Held, Live, Volumes
  <2> QED
    BY <2>1, <2>2 DEF Abstract!LifecycleInit
<1>2. ReplacementInv /\ [Next]_vars => [Abstract!LifecycleNext]_(Abstract!lifecycle)
  <2>1. ReplacementInv /\ Next => LifecycleStep
    BY ControllerRefines, OthersRefine DEF Next, Others
  <2>2. UNCHANGED vars => UNCHANGED Abstract!lifecycle
    BY DEF vars, Abstract!lifecycle, Held, Live, Volumes, Verdict
  <2> QED
    BY <2>1, <2>2 DEF LifecycleStep
<1> QED
  BY <1>1, <1>2, Invariant, PTL DEF Spec, ImplementsLifecycle, Abstract!Lifecycle
=============================================================================
