--------------------------- MODULE DriveLifecycle ---------------------------
(***************************************************************************)
(* What drive replacement promises to the owners of the volumes on a       *)
(* drive, as docs/drive-replacement.md tells it: the drive is given up     *)
(* only after every owner has let go of his volume, it is declared removed *)
(* only when nothing on it is in use any more or the user forces it, and   *)
(* its object disappears last.                                             *)
(*                                                                         *)
(* The specification says nothing about who writes what and when: module   *)
(* DriveReplacement, the controllers that do, implements it.               *)
(***************************************************************************)
CONSTANT Volume

VARIABLES
  usage,    \* the usage of the drive; "absent": its object has been deleted
  held,     \* volumes whose owner has not released them
  live,     \* volumes on the drive that applications may read and write
  verdict   \* what has been decided and not yet been written

lifecycle == <<usage, held, live, verdict>>

Usage == {"IN_USE", "RELEASING", "RELEASED", "REMOVING", "REMOVED", "FAILED"}

LifecycleTypeOK ==
  /\ usage \in Usage \cup {"absent"}
  /\ held \subseteq Volume
  /\ live \subseteq Volume
  /\ verdict \in {"none", "removable", "deletable"}

LifecycleInit ==
  /\ usage = "IN_USE" /\ verdict = "none"
  /\ held \subseteq Volume /\ live \subseteq Volume

\* Owners release volumes, and never take one back.
Owners == held' \subseteq held /\ UNCHANGED <<usage, verdict>>

\* The drive has gone bad, or a volume has been released late.
Releasing ==
  /\ usage \in Usage /\ usage' = "RELEASING"
  /\ verdict' \in {verdict, "none"} /\ UNCHANGED <<held, live>>

Released ==
  /\ usage = "RELEASING" /\ held = {}
  /\ usage' = "RELEASED" /\ UNCHANGED <<held, live, verdict>>

Removing ==
  /\ usage = "RELEASED"
  /\ usage' = "REMOVING" /\ UNCHANGED <<held, live, verdict>>

Removed ==
  /\ usage = "REMOVING" /\ verdict = "removable"
  /\ usage' = "REMOVED" /\ verdict' = "none" /\ UNCHANGED <<held, live>>

Failed ==
  /\ usage \in Usage /\ usage' = "FAILED"
  /\ verdict' \in {verdict, "none"} /\ UNCHANGED <<held, live>>

\* The user's answers: action=add and action=remove.
ReturnToUse ==
  /\ usage \in {"RELEASED", "FAILED"}
  /\ usage' = "IN_USE" /\ UNCHANGED <<held, live, verdict>>

ForcedRemoval ==
  /\ usage = "FAILED"
  /\ usage' = "REMOVED" /\ UNCHANGED <<held, live, verdict>>

\* Nothing on the drive is in use, or its object is no longer needed.  From
\* then on the decision stands, though an application may come back and an
\* owner may answer late; it is dropped when one of the steps fails.
Judge ==
  /\ \/ verdict' = "removable" /\ usage = "REMOVING" /\ live = {}
     \/ verdict' = "deletable" /\ usage = "REMOVED"
     \/ verdict' = "none"
  /\ UNCHANGED <<usage, held, live>>

Forgotten ==
  /\ verdict = "deletable"
  /\ usage' = "absent" /\ verdict' = "none" /\ UNCHANGED <<held, live>>

LifecycleNext ==
  \/ Owners \/ Releasing \/ Released \/ Removing \/ Removed \/ Failed
  \/ ReturnToUse \/ ForcedRemoval \/ Judge \/ Forgotten

Lifecycle == LifecycleInit /\ [][LifecycleNext]_lifecycle
=============================================================================
