-------------------------- MODULE LVGVolumesProofs --------------------------
(* Proofs about module LVGVolumes, for any finite set of volumes of any    *)
(* sizes, any sizes of expansions (in the sections about the size of a     *)
(* volume and about the accounting: any one) and any number of faults.     *)
EXTENDS LVGVolumes, FiniteSetTheorems, TLAPS

-----------------------------------------------------------------------------
(* Types and arithmetic                                                    *)

\* Rounding up to extents never makes a size smaller.
LEMMA AlignGrows ==
  ASSUME NEW s \in Nat
  PROVE  AlignSizeByPE(s) \in Nat /\ AlignSizeByPE(s) >= s
<1>1. DefaultPESize \in Nat \ {0}
  BY MBYTEAssumption DEF DefaultPESize
<1>2. s % DefaultPESize \in 0 .. DefaultPESize - 1
  BY <1>1
<1> QED
  BY <1>1, <1>2 DEF AlignSizeByPE

LEMMA ConstantTypes ==
  /\ NoPrev \in [cs : Usable \cup {"none"}, size : Nat]
  /\ NoRequest \in Request /\ NoRequest.pc = "idle"
  /\ NoWork \in NodeState /\ NoWork.pc = "idle"
  /\ NoLvgWork \in LvgState /\ NoLvgWork.pc = "idle"
  /\ Gone.status = "gone" /\ ~Gone.deleting
BY DEF NoPrev, NoRequest, Request, NoWork, NodeState, NoLvgWork, LvgState, Gone,
       Usable, CSIStatus, Absent

\* A copy that has become stale is otherwise what it was.
LEMMA StaleRequest ==
  ASSUME TypeOK, NEW v \in Volume, rq' = Stale(rq, v)
  PROVE  /\ rq' \in [Volume -> Request]
         /\ \A w \in Volume \ {v} : rq'[w] = rq[w]
         /\ rq'[v].pc = rq[v].pc /\ rq'[v].op = rq[v].op /\ rq'[v].act = rq[v].act
         /\ rq'[v].bytes = rq[v].bytes /\ rq'[v].seen = rq[v].seen
         /\ rq[v].pc \in {"idle", "charge", "lvg"} => rq' = rq
         /\ rq[v].pc \notin {"idle", "charge", "lvg"} => ~rq'[v].fresh
<1>1. rq \in [Volume -> Request]
  BY DEF TypeOK
<1>2. CASE rq[v].pc \in {"idle", "charge", "lvg"}
  BY <1>1, <1>2 DEF Stale
<1>3. CASE rq[v].pc \notin {"idle", "charge", "lvg"}
  <2>1. rq' = [rq EXCEPT ![v] = [rq[v] EXCEPT !.fresh = FALSE]]
    BY <1>1, <1>3 DEF Stale
  <2>2. /\ [rq[v] EXCEPT !.fresh = FALSE] \in Request
        /\ ~[rq[v] EXCEPT !.fresh = FALSE].fresh
    BY <1>1 DEF Request
  <2> QED
    BY <1>1, <1>3, <2>1, <2>2 DEF Request
<1> QED
  BY <1>2, <1>3

LEMMA StaleNode ==
  ASSUME TypeOK, NEW v \in Volume, nr' = Stale(nr, v)
  PROVE  /\ nr' \in [Volume -> NodeState]
         /\ \A w \in Volume \ {v} : nr'[w] = nr[w]
         /\ nr'[v].pc = nr[v].pc /\ nr'[v].cs = nr[v].cs
         /\ nr[v].pc # "idle" => ~nr'[v].fresh
<1>1. nr \in [Volume -> NodeState]
  BY DEF TypeOK
<1>2. CASE nr[v].pc = "idle"
  BY <1>1, <1>2 DEF Stale
<1>3. CASE nr[v].pc # "idle"
  <2>1. nr[v].pc \notin {"idle", "charge", "lvg"}
    BY <1>1, <1>3 DEF NodeState
  <2>2. nr' = [nr EXCEPT ![v] = [nr[v] EXCEPT !.fresh = FALSE]]
    BY <1>1, <2>1 DEF Stale
  <2>3. /\ [nr[v] EXCEPT !.fresh = FALSE] \in NodeState
        /\ ~[nr[v] EXCEPT !.fresh = FALSE].fresh
    BY <1>1 DEF NodeState
  <2> QED
    BY <1>1, <2>2, <2>3 DEF NodeState
<1> QED
  BY <1>2, <1>3

LEMMA StaleLvgWork ==
  ASSUME TypeOK
  PROVE  StaleLVG \in LvgState /\ StaleLVG.pc = lc.pc
BY DEF TypeOK, StaleLVG, LvgState

LEMMA FaultType == \A kind : TypeOK /\ Fault(kind) => faults' \in 0 .. MaxFaults
BY LVGVolumesAssumption DEF TypeOK, Fault

LEMMA InitInv == Init => LVGInv
<1> SUFFICES ASSUME Init PROVE LVGInv
  OBVIOUS
<1>1. TypeOK
  <2>1. lvg \in [status : {"Creating", "Created", "Failed", "gone"},
                 refs : SUBSET Volume, located : BOOLEAN, finalizer : BOOLEAN,
                 deleting : BOOLEAN]
    BY DEF Init, Gone
  <2>2. vol \in [Volume -> VolState]
    <3>1. [cs |-> "absent", size |-> 0, prev |-> NoPrev, deleting |-> FALSE] \in VolState
      BY ConstantTypes DEF VolState, Absent
    <3> QED
      BY <3>1 DEF Init
  <2>3. /\ rq \in [Volume -> Request] /\ nr \in [Volume -> NodeState] /\ lc \in LvgState
    BY ConstantTypes DEF Init
  <2>4. /\ ac \in [size : Int, onLVG : BOOLEAN] /\ faults \in 0 .. MaxFaults
        /\ dev \in [pv : BOOLEAN, vg : BOOLEAN] /\ (dev.vg => dev.pv)
        /\ lv \in [Volume -> Nat] /\ cached \subseteq Volume /\ unpaid \in Int
    BY LVGVolumesAssumption DEF Init
  <2> QED
    BY <2>1, <2>2, <2>3, <2>4 DEF TypeOK
<1>2. \A v \in Volume : VolumeInv(v)
  BY ConstantTypes
  DEF Init, VolumeInv, VolumeOK, RequestOK, NodeOK, NoGroupYet, NoGroup, Usable,
                       Absent
<1>3. GroupOK
  BY ConstantTypes DEF Init, GroupOK, Gone
<1> QED
  BY <1>1, <1>2, <1>3 DEF LVGInv

-----------------------------------------------------------------------------
(* What a step leaves alone                                                *)

\* A step about volume v: the group, its volume group and the LVs stay, and the
\* AC offers nothing new on a group that is closed.
LEMMA StepOfVolume ==
  ASSUME LVGInv, TypeOK', NEW v \in Volume, UNCHANGED <<lvg, lc, dev, lv>>,
         \A w \in Volume \ {v} : vol'[w] = vol[w] /\ rq'[w] = rq[w] /\ nr'[w] = nr[w],
         VolumeInv(v)',
         OffGroup(v) => OffGroup(v)',
         ac'.onLVG => ac.onLVG,
         (lvg.deleting \/ lvg.status = "gone") /\ ac'.onLVG /\ ac.size <= 0 =>
           ac'.size <= 0
  PROVE  LVGInv'
<1>1. ASSUME NEW w \in Volume
      PROVE  VolumeInv(w)'
  BY DEF LVGInv, VolumeInv, VolumeOK, RequestOK, NodeOK, NoGroupYet, NoGroup
<1>2. lvg.deleting \/ lvg.status = "gone" => (Closed => Closed')
  BY DEF Closed, OffGroup, LVGInv, TypeOK
<1>3. GroupOK'
  BY <1>2 DEF LVGInv, GroupOK
<1> QED
  BY <1>1, <1>3 DEF LVGInv

\* A step of the LVG controller: the volumes and the requests stay.
LEMMA StepOfGroup ==
  ASSUME LVGInv, TypeOK', GroupOK', UNCHANGED vol,
         \A v \in Volume :
           rq'[v] = rq[v] \/ (rq[v].pc = "charge" /\ rq'[v].pc = "charge"),
         nr' = nr \/ nr' = [v \in Volume |-> NoWork],
         \A v \in Volume : lv'[v] = lv[v],
         ac'.onLVG => ac.onLVG,
         dev.vg => dev'.vg \/ \A v \in Volume : lv[v] = 0,
         NoGroup' => NoGroup
  PROVE  LVGInv'
<1>1. ASSUME NEW v \in Volume
      PROVE  VolumeInv(v)'
  <2>1. VolumeOK(v)' /\ RequestOK(v)'
    BY DEF LVGInv, VolumeInv, VolumeOK, RequestOK
  <2>2. NodeOK(v)' /\ NoGroupYet(v)'
    BY ConstantTypes DEF LVGInv, VolumeInv, NodeOK, NoGroupYet, NoGroup
  <2> QED
    BY <2>1, <2>2 DEF VolumeInv
<1> QED
  BY <1>1 DEF LVGInv

-----------------------------------------------------------------------------
(* The controller's steps                                                  *)

LEMMA CreateInv ==
  ASSUME LVGInv, NEW v \in Volume, Create(v)
  PROVE  LVGInv'
<1> USE DEF LVGInv
<1> DEFINE bytes == AlignSizeByPE(Size[v])
           new == [vol[v] EXCEPT !.cs = "Creating", !.size = bytes]
           next == [NoRequest EXCEPT !.pc = "charge", !.op = "create", !.bytes = bytes]
<1>1. bytes \in Nat /\ bytes > 0
  <2>1. Size[v] \in Nat /\ Size[v] > 0
    BY LVGVolumesAssumption
  <2> QED
    BY <2>1, AlignGrows
<1>2. /\ rq[v].pc = "idle" /\ vol[v].cs = "absent" /\ ac.onLVG /\ bytes <= ac.size
      /\ vol' = [vol EXCEPT ![v] = new] /\ rq' = [rq EXCEPT ![v] = next]
      /\ cached' = cached \cup {v} /\ unpaid' = unpaid + bytes
      /\ UNCHANGED <<ac, lvg, lc, dev, lv, nr, faults>>
  BY DEF Create, TypeOK, VolState
<1> HIDE DEF bytes
<1>3. /\ new \in VolState /\ new.cs = "Creating" /\ new.size = bytes
      /\ new.prev = vol[v].prev /\ new.deleting = vol[v].deleting
  <2>1. vol[v] \in VolState /\ "Creating" \in CSIStatus
    BY DEF TypeOK, CSIStatus
  <2> QED
    BY <1>1, <2>1 DEF VolState
<1>4. next \in Request /\ next.pc = "charge"
  BY <1>1 DEF NoRequest, Request, CSIStatus, Absent
<1> HIDE DEF new, next
<1>5. /\ vol' \in [Volume -> VolState] /\ vol'[v] = new /\ rq'[v] = next
      /\ \A w \in Volume \ {v} : vol'[w] = vol[w] /\ rq'[w] = rq[w]
  BY <1>2, <1>3 DEF TypeOK
<1>6. unpaid' \in Int
  BY <1>1, <1>2 DEF TypeOK
<1>7. TypeOK'
  BY <1>2, <1>4, <1>5, <1>6 DEF TypeOK
<1>8. VolumeInv(v)'
  <2>1. VolumeOK(v)'
    BY <1>1, <1>2, <1>3, <1>5 DEF VolumeInv, VolumeOK, Usable, Absent
  <2>2. RequestOK(v)'
    BY <1>4, <1>5 DEF RequestOK
  <2>3. NodeOK(v)'
    BY <1>2, <1>3, <1>5 DEF VolumeInv, NodeOK, Absent
  <2>4. NoGroupYet(v)'
    BY <1>2, <1>3, <1>4, <1>5 DEF VolumeInv, NoGroupYet, NoGroup
  <2> QED
    BY <2>1, <2>2, <2>3, <2>4 DEF VolumeInv
<1>9. ac.size \in Int
  BY DEF TypeOK
<1>10. ~Closed /\ ~(lvg.deleting \/ lvg.status = "gone")
  BY <1>1, <1>2, <1>9 DEF Closed, GroupOK
<1>11. ASSUME NEW w \in Volume PROVE VolumeInv(w)'
  BY <1>2, <1>5, <1>8 DEF VolumeInv, VolumeOK, RequestOK, NodeOK, NoGroupYet, NoGroup
<1>12. GroupOK'
  BY <1>2, <1>10 DEF GroupOK
<1> QED
  BY <1>7, <1>11, <1>12

\* A new status in a Volume.
LEMMA StatusType ==
  ASSUME TypeOK, NEW v \in Volume, NEW cs \in CSIStatus, vol' = [vol EXCEPT ![v].cs = cs]
  PROVE  /\ vol' \in [Volume -> VolState]
         /\ \A w \in Volume \ {v} : vol'[w] = vol[w]
         /\ vol'[v].cs = cs /\ vol'[v].size = vol[v].size
         /\ vol'[v].prev = vol[v].prev /\ vol'[v].deleting = vol[v].deleting
BY DEF TypeOK, VolState

\* Somebody writes a status over what Reconcile and the requests have read: a
\* usable one only where the LV is, and none over a removal.
LEMMA StatusStep ==
  ASSUME LVGInv, NEW v \in Volume, NEW cs \in Usable \cup {"Failed"},
         vol' = [vol EXCEPT ![v].cs = cs], rq' = Stale(rq, v), nr' = Stale(nr, v),
         UNCHANGED <<ac, lvg, lc, dev, lv, cached, unpaid>>, faults' \in 0 .. MaxFaults,
         vol[v].cs \notin Absent \cup {"Removing", "Removed"},
         cs \in Usable => lv[v] # 0 \/ vol[v].deleting,
         cs = "Failed" \/ ~NoGroup
  PROVE  LVGInv'
<1> USE DEF LVGInv
<1>1. cs \in CSIStatus
  BY DEF CSIStatus
<1>2. /\ vol' \in [Volume -> VolState]
      /\ \A w \in Volume \ {v} : vol'[w] = vol[w]
      /\ vol'[v].cs = cs /\ vol'[v].size = vol[v].size
      /\ vol'[v].prev = vol[v].prev /\ vol'[v].deleting = vol[v].deleting
  BY <1>1, StatusType
<1>3. TypeOK'
  BY <1>2, StaleRequest, StaleNode DEF TypeOK
<1>4. VolumeInv(v)'
  <2>1. VolumeOK(v)'
    BY <1>2 DEF VolumeInv, VolumeOK, Usable, Absent
  <2>2. RequestOK(v)'
    BY <1>2, StaleRequest DEF VolumeInv, RequestOK, Absent
  <2>3. NodeOK(v)'
    BY <1>2, StaleNode DEF VolumeInv, NodeOK, Absent, Usable
  <2>4. NoGroupYet(v)'
    BY <1>2, StaleRequest, StaleNode DEF VolumeInv, NoGroupYet, NoGroup, Usable
  <2> QED
    BY <2>1, <2>2, <2>3, <2>4 DEF VolumeInv
<1>5. OffGroup(v) => OffGroup(v)'
  BY <1>2 DEF OffGroup
<1> QED
  BY <1>2, <1>3, <1>4, <1>5, StaleRequest, StaleNode, StepOfVolume

LEMMA CreateTimeoutInv ==
  ASSUME LVGInv, NEW v \in Volume, CreateTimeout(v)
  PROVE  LVGInv'
<1>1. faults' \in 0 .. MaxFaults
  BY DEF CreateTimeout, LVGInv, TypeOK
<1> QED
  BY <1>1, StatusStep DEF CreateTimeout, Absent, Usable

LEMMA NodeRPCInv ==
  ASSUME LVGInv, NEW v \in Volume,
         \/ NodeStageVolume(v) \/ NodeUnstageVolume(v)
         \/ NodePublishVolume(v) \/ NodeUnpublishVolume(v)
  PROVE  LVGInv'
<1>1. faults' \in 0 .. MaxFaults
  BY FaultType DEF NodeStageVolume, NodeUnstageVolume, NodePublishVolume,
                   NodeUnpublishVolume, LVGInv, TypeOK
<1>2. vol[v].cs \in Usable => (lv[v] # 0 \/ vol[v].deleting) /\ ~NoGroup
  BY DEF LVGInv, VolumeInv, VolumeOK, NoGroupYet, Usable, Absent
<1>5. lv[v] # 0 => ~NoGroup
  BY DEF LVGInv, VolumeInv, NoGroupYet
<1>3. PICK cs \in Usable \cup {"Failed"} :
        /\ SetStatus(v, cs)
        /\ cs \in Usable => (lv[v] # 0 \/ vol[v].deleting) /\ ~NoGroup
  BY <1>2, <1>5 DEF NodeStageVolume, NodeUnstageVolume, NodePublishVolume,
                     NodeUnpublishVolume, Usable, VolumePathFound
<1>4. vol[v].cs \in Usable \cup {"Failed"}
  BY DEF NodeStageVolume, NodeUnstageVolume, NodePublishVolume,
         NodeUnpublishVolume, Usable
<1> QED
  BY <1>1, <1>3, <1>4, StatusStep DEF SetStatus, Absent, Usable

\* A request ends, or has a new state that does not depend on the Volume.
LEMMA RequestStep ==
  ASSUME LVGInv, NEW v \in Volume, NEW new \in Request, rq' = [rq EXCEPT ![v] = new],
         new.pc \in {"idle", "wait"},
         new.pc = "wait" => ~NoGroup,
         UNCHANGED <<lvg, lc, dev, vol, lv, nr, cached>>, faults' \in 0 .. MaxFaults,
         unpaid' \in Int, ac' \in [size : Int, onLVG : BOOLEAN],
         ac'.onLVG => ac.onLVG,
         (lvg.deleting \/ lvg.status = "gone") /\ ac'.onLVG /\ ac.size <= 0 =>
           ac'.size <= 0
  PROVE  LVGInv'
<1> USE DEF LVGInv
<1>1. TypeOK'
  BY DEF TypeOK
<1>2. rq'[v] = new /\ \A w \in Volume \ {v} : rq'[w] = rq[w]
  BY DEF TypeOK
<1>3. VolumeInv(v)' /\ (OffGroup(v) => OffGroup(v)')
  BY <1>2 DEF VolumeInv, VolumeOK, RequestOK, NodeOK, NoGroupYet, NoGroup, OffGroup
<1> QED
  BY <1>1, <1>2, <1>3, StepOfVolume

LEMMA CreateChargeInv ==
  ASSUME LVGInv, NEW v \in Volume, CreateCharge(v)
  PROVE  LVGInv'
<1> USE DEF LVGInv
<1>1. /\ rq' = [rq EXCEPT ![v] = NoRequest]
      /\ UNCHANGED <<lvg, lc, dev, vol, lv, nr, cached, faults>>
  BY DEF CreateCharge
<1>2. /\ ac \in [size : Int, onLVG : BOOLEAN] /\ unpaid \in Int
      /\ rq[v].bytes \in Nat /\ faults \in 0 .. MaxFaults
  BY DEF TypeOK, Request
<1>3. /\ ac' \in [size : Int, onLVG : BOOLEAN] /\ ac'.onLVG = ac.onLVG
      /\ ac'.size <= ac.size /\ unpaid' \in Int
  <2>1. CASE rq[v].fresh
    <3>1. /\ ac' = [ac EXCEPT !.size = ac.size - rq[v].bytes]
          /\ unpaid' = unpaid - rq[v].bytes
      BY <2>1 DEF CreateCharge
    <3>2. ac.size - rq[v].bytes \in Int /\ unpaid - rq[v].bytes \in Int
          /\ ac.size - rq[v].bytes <= ac.size
      BY <1>2
    <3> QED
      BY <1>2, <3>1, <3>2
  <2>2. CASE ~rq[v].fresh
    BY <1>2, <2>2 DEF CreateCharge
  <2> QED
    BY <2>1, <2>2
<1>4. ac.size <= 0 => ac'.size <= 0
  BY <1>2, <1>3
<1> QED
  BY <1>1, <1>2, <1>3, <1>4, ConstantTypes, RequestStep

LEMMA RequestEndsInv ==
  ASSUME LVGInv, NEW v \in Volume, GiveUp(v) \/ RequestFails(v)
  PROVE  LVGInv'
<1>1. /\ rq' = [rq EXCEPT ![v] = NoRequest] /\ faults' \in 0 .. MaxFaults
      /\ UNCHANGED <<ac, lvg, lc, dev, vol, lv, nr, cached, unpaid>>
  BY FaultType DEF GiveUp, RequestFails, LVGInv, TypeOK
<1>2. ac \in [size : Int, onLVG : BOOLEAN] /\ unpaid' \in Int
  BY <1>1 DEF LVGInv, TypeOK
<1> QED
  BY <1>1, <1>2, ConstantTypes, RequestStep

LEMMA RestartInv ==
  ASSUME LVGInv, Restart
  PROVE  LVGInv'
<1> USE DEF LVGInv
<1>1. /\ rq' = [v \in Volume |-> NoRequest] /\ faults' \in 0 .. MaxFaults
      /\ cached' \subseteq Volume
      /\ UNCHANGED <<ac, lvg, lc, dev, vol, lv, nr, unpaid>>
  BY FaultType DEF Restart
<1>2. TypeOK'
  BY <1>1, ConstantTypes DEF TypeOK
<1>3. ASSUME NEW v \in Volume
      PROVE  VolumeInv(v)'
  BY <1>1, ConstantTypes DEF VolumeInv, VolumeOK, RequestOK, NodeOK, NoGroupYet, NoGroup
<1>4. GroupOK'
  BY <1>1 DEF GroupOK, Closed, OffGroup
<1> QED
  BY <1>2, <1>3, <1>4

LEMMA DeleteStartInv ==
  ASSUME LVGInv, NEW v \in Volume, DeleteStart(v)
  PROVE  LVGInv'
<1> USE DEF LVGInv
<1> DEFINE new == [NoRequest EXCEPT !.pc = "wait", !.op = "delete"]
<1>1. new \in Request /\ new.pc = "wait"
  BY DEF NoRequest, Request, CSIStatus, Absent
<1>2. /\ rq' = [rq EXCEPT ![v] = new]
      /\ UNCHANGED <<ac, lvg, lc, dev, lv, cached, unpaid, faults>>
  BY DEF DeleteStart
<1> HIDE DEF new
<1>3. /\ faults' \in 0 .. MaxFaults /\ ac' \in [size : Int, onLVG : BOOLEAN]
      /\ unpaid' \in Int
  BY <1>2 DEF TypeOK
<1>4. vol[v].cs \in {"Created", "Removing", "Removed"}
  BY DEF DeleteStart
<1>5. ~NoGroup
  BY <1>4 DEF VolumeInv, NoGroupYet, Absent
<1>6. CASE vol[v].cs # "Created"
  <2>1. UNCHANGED <<vol, nr>>
    BY <1>6 DEF DeleteStart
  <2> QED
    BY <1>1, <1>2, <1>3, <1>5, <2>1, RequestStep
<1>7. CASE vol[v].cs = "Created"
  <2>1. vol' = [vol EXCEPT ![v].cs = "Removing"] /\ nr' = Stale(nr, v)
    BY <1>7 DEF DeleteStart
  <2>2. "Removing" \in CSIStatus
    BY DEF CSIStatus
  <2>3. /\ vol' \in [Volume -> VolState]
        /\ \A w \in Volume \ {v} : vol'[w] = vol[w]
        /\ vol'[v].cs = "Removing" /\ vol'[v].size = vol[v].size
        /\ vol'[v].prev = vol[v].prev /\ vol'[v].deleting = vol[v].deleting
    BY <2>1, <2>2, StatusType
  <2>4. rq'[v] = new /\ \A w \in Volume \ {v} : rq'[w] = rq[w]
    BY <1>2 DEF TypeOK
  <2>5. TypeOK'
    BY <1>1, <1>2, <2>1, <2>3, StaleNode DEF TypeOK
  <2>6. VolumeInv(v)'
    <3>1. VolumeOK(v)'
      BY <1>2, <1>7, <2>3 DEF VolumeInv, VolumeOK, Usable, Absent
    <3>2. RequestOK(v)'
      BY <1>1, <2>4 DEF RequestOK
    <3>3. NodeOK(v)'
      BY <1>2, <1>7, <2>1, <2>3, StaleNode DEF VolumeInv, NodeOK, Absent
    <3> QED
      BY <1>2, <1>5, <3>1, <3>2, <3>3 DEF VolumeInv, NoGroupYet, NoGroup
  <2>7. OffGroup(v) => OffGroup(v)'
    BY <1>7, <2>3 DEF OffGroup, Absent
  <2> QED
    BY <1>2, <2>1, <2>3, <2>4, <2>5, <2>6, <2>7, StaleNode, StepOfVolume
<1> QED
  BY <1>6, <1>7

LEMMA DeleteCreditInv ==
  ASSUME LVGInv, NEW v \in Volume, DeleteCredit(v)
  PROVE  LVGInv'
<1> USE DEF LVGInv
<1> DEFINE act == IF Cardinality(lvg.refs) > 1 THEN "update" ELSE "remove"
           new == [rq[v] EXCEPT !.pc = "lvg", !.act = act, !.fresh = TRUE]
<1>1. /\ vol[v].cs = "Removed" /\ ac.onLVG /\ lvg.status # "gone"
      /\ ac' = [size |-> ac.size + vol[v].size, onLVG |-> act = "update"]
      /\ UNCHANGED <<lvg, lc, dev, vol, lv, nr, cached, unpaid, faults>>
  BY DEF DeleteCredit
<1>2. rq' = [rq EXCEPT ![v] = new]
  BY DEF DeleteCredit, TypeOK, Request
<1>3. new \in Request /\ new.pc = "lvg" /\ new.act = act /\ act \in {"update", "remove"}
  <2>1. rq[v] \in Request
    BY DEF TypeOK
  <2>2. act \in {"update", "remove"}
    OBVIOUS
  <2> HIDE DEF act
  <2> QED
    BY <2>1, <2>2 DEF Request
<1> HIDE DEF new, act
<1>4. ac' \in [size : Int, onLVG : BOOLEAN] /\ (ac'.onLVG <=> act = "update")
  <2>1. ac.size \in Int /\ vol[v].size \in Nat
    BY DEF TypeOK, VolState
  <2>2. ac.size + vol[v].size \in Int
    BY <2>1
  <2>3. ac' = [size |-> ac.size + vol[v].size, onLVG |-> act = "update"]
    BY <1>1
  <2> QED
    BY <2>2, <2>3
<1>5. TypeOK'
  BY <1>1, <1>2, <1>3, <1>4 DEF TypeOK
<1>6. rq'[v] = new /\ \A w \in Volume \ {v} : rq'[w] = rq[w]
  BY <1>2 DEF TypeOK
<1>7. lvg.status = "Created"
  BY <1>1 DEF VolumeInv, NoGroupYet, NoGroup, Absent, TypeOK
<1>8. ~lvg.deleting
  BY <1>1, <1>7 DEF GroupOK
<1>9. VolumeInv(v)'
  BY <1>1, <1>3, <1>4, <1>6, <1>7
  DEF VolumeInv, VolumeOK, RequestOK, NodeOK, NoGroupYet, NoGroup
<1>10. OffGroup(v) => OffGroup(v)'
  BY <1>1 DEF OffGroup
<1> QED
  BY <1>1, <1>5, <1>6, <1>7, <1>8, <1>9, <1>10, StepOfVolume

\* The LVG is deleted only with its last volume, when the AC has left it.
LEMMA DeleteUpdateLVGInv ==
  ASSUME LVGInv, NEW v \in Volume, DeleteUpdateLVG(v)
  PROVE  LVGInv'
<1> USE DEF LVGInv
<1> DEFINE done == lvg.status # "gone" /\ (rq[v].act = "update" => rq[v].fresh)
           new == IF done THEN [rq[v] EXCEPT !.pc = "remove"] ELSE NoRequest
<1>1. rq[v].pc = "lvg" /\ UNCHANGED <<ac, dev, vol, lv, nr, cached, unpaid, faults>>
  BY DEF DeleteUpdateLVG
<1>2. rq' = [rq EXCEPT ![v] = new]
  BY DEF DeleteUpdateLVG, TypeOK, Request
<1>3. new \in Request /\ new.pc \in {"remove", "idle"}
  <2>1. rq[v] \in Request
    BY DEF TypeOK
  <2>2. /\ [rq[v] EXCEPT !.pc = "remove"] \in Request
        /\ [rq[v] EXCEPT !.pc = "remove"].pc = "remove"
    BY <2>1 DEF Request
  <2> HIDE DEF done
  <2> QED
    BY <2>2, ConstantTypes
<1> HIDE DEF new
<1>4. /\ lvg' \in [status : {"Creating", "Created", "Failed", "gone"},
                   refs : SUBSET Volume, located : BOOLEAN, finalizer : BOOLEAN,
                   deleting : BOOLEAN]
      /\ lvg'.status = lvg.status
      /\ lvg'.deleting = (lvg.deleting \/ (done /\ rq[v].act # "update"))
  BY DEF DeleteUpdateLVG, TypeOK
<1>5. lc' \in LvgState /\ lc'.pc = lc.pc
  BY StaleLvgWork DEF DeleteUpdateLVG, TypeOK
<1>6. TypeOK'
  BY <1>1, <1>2, <1>3, <1>4, <1>5 DEF TypeOK
<1>7. rq'[v] = new /\ \A w \in Volume \ {v} : rq'[w] = rq[w]
  BY <1>2 DEF TypeOK
<1>8. vol[v].cs \in {"Removed", "gone"}
  BY <1>1 DEF VolumeInv, RequestOK
<1>9. ASSUME NEW w \in Volume PROVE VolumeInv(w)'
  BY <1>1, <1>3, <1>4, <1>7, <1>8
  DEF VolumeInv, VolumeOK, RequestOK, NodeOK, NoGroupYet, NoGroup
<1>10. done /\ rq[v].act # "update" => ~ac.onLVG
  BY <1>1 DEF VolumeInv, RequestOK
<1>11. GroupOK'
  BY <1>1, <1>4, <1>5, <1>10 DEF GroupOK, Closed, OffGroup
<1> QED
  BY <1>6, <1>9, <1>11

LEMMA DeleteVolumeCRInv ==
  ASSUME LVGInv, NEW v \in Volume, DeleteVolumeCR(v)
  PROVE  LVGInv'
<1> USE DEF LVGInv
<1>1. /\ rq[v].pc = "remove" /\ rq' = [rq EXCEPT ![v] = NoRequest]
      /\ UNCHANGED <<ac, lvg, lc, dev, lv, unpaid, faults>>
  BY DEF DeleteVolumeCR
<1>2. /\ faults' \in 0 .. MaxFaults /\ ac' \in [size : Int, onLVG : BOOLEAN]
      /\ unpaid' \in Int
  BY <1>1 DEF TypeOK
<1>3. CASE ~Exists(v)
  <2>1. UNCHANGED <<vol, nr, cached>>
    BY <1>3 DEF DeleteVolumeCR
  <2> QED
    BY <1>1, <1>2, <2>1, ConstantTypes, RequestStep
<1>4. CASE Exists(v)
  <2>1. /\ vol' = [vol EXCEPT ![v].deleting = TRUE] /\ nr' = Stale(nr, v)
        /\ cached' \subseteq Volume
    BY <1>4 DEF DeleteVolumeCR, TypeOK
  <2>2. vol[v].cs = "Removed"
    BY <1>1, <1>4 DEF VolumeInv, RequestOK, Exists, Absent
  <2>3. /\ vol' \in [Volume -> VolState]
        /\ \A w \in Volume \ {v} : vol'[w] = vol[w]
        /\ vol'[v].cs = "Removed" /\ vol'[v].size = vol[v].size
        /\ vol'[v].prev = vol[v].prev /\ vol'[v].deleting
    <3>1. vol \in [Volume -> VolState]
      BY DEF TypeOK
    <3> QED
      BY <2>1, <2>2, <3>1 DEF VolState
  <2>4. rq'[v] = NoRequest /\ \A w \in Volume \ {v} : rq'[w] = rq[w]
    BY <1>1 DEF TypeOK
  <2>5. TypeOK'
    BY <1>1, <2>1, <2>3, ConstantTypes, StaleNode DEF TypeOK
  <2>6. VolumeInv(v)'
    <3>1. VolumeOK(v)'
      BY <1>1, <2>2, <2>3 DEF VolumeInv, VolumeOK, Usable, Absent
    <3>2. RequestOK(v)'
      BY <2>4, ConstantTypes DEF RequestOK
    <3>3. NodeOK(v)'
      BY <1>1, <2>1, <2>2, <2>3, StaleNode DEF VolumeInv, NodeOK
    <3> QED
      BY <1>1, <2>2, <3>1, <3>2, <3>3 DEF VolumeInv, NoGroupYet, NoGroup
  <2>7. OffGroup(v)'
    BY <2>3 DEF OffGroup
  <2> QED
    BY <1>1, <2>1, <2>3, <2>4, <2>5, <2>6, <2>7, StaleNode, StepOfVolume
<1> QED
  BY <1>3, <1>4

LEMMA ExpandStartInv ==
  ASSUME LVGInv, NEW v \in Volume, ExpandStart(v)
  PROVE  LVGInv'
<1> USE DEF LVGInv
<1>1. PICK size \in ExpandTo :
        /\ vol[v].size < AlignSizeByPE(size)
        /\ rq' = [rq EXCEPT ![v] =
             [NoRequest EXCEPT !.pc = "reserve", !.op = "expand",
                               !.bytes = AlignSizeByPE(size),
                               !.seen = [cs |-> vol[v].cs, size |-> vol[v].size]]]
  BY Zenon DEF ExpandStart
<1> DEFINE bytes == AlignSizeByPE(size)
           seen == [cs |-> vol[v].cs, size |-> vol[v].size]
           new == [NoRequest EXCEPT !.pc = "reserve", !.op = "expand", !.bytes = bytes,
                                    !.seen = seen]
<1>2. bytes \in Nat
  BY AlignGrows, LVGVolumesAssumption
<1> HIDE DEF bytes
<1>3. vol[v].cs \in CSIStatus \cup Absent /\ vol[v].size \in Nat
  BY DEF TypeOK, VolState
<1>4. seen \in [cs : CSIStatus \cup Absent, size : Nat]
      /\ seen.cs = vol[v].cs /\ seen.size = vol[v].size
  BY <1>3
<1> HIDE DEF seen
<1>5. /\ new \in Request /\ new.pc = "reserve" /\ new.bytes = bytes /\ new.seen = seen
  BY <1>2, <1>4 DEF NoRequest, Request
<1>6. rq' = [rq EXCEPT ![v] = new]
  BY <1>1 DEF bytes, seen
<1> HIDE DEF new
<1>7. /\ UNCHANGED <<ac, lvg, lc, dev, vol, lv, nr, cached, unpaid, faults>>
      /\ vol[v].cs \notin Absent /\ vol[v].size < bytes
  BY <1>1 DEF ExpandStart, Exists, bytes
<1>8. TypeOK'
  BY <1>5, <1>6, <1>7 DEF TypeOK
<1>9. rq'[v] = new /\ \A w \in Volume \ {v} : rq'[w] = rq[w]
  BY <1>6 DEF TypeOK
<1>10. VolumeInv(v)'
  <2>1. VolumeOK(v)' /\ NodeOK(v)'
    BY <1>7 DEF VolumeInv, VolumeOK, NodeOK
  <2>2. RequestOK(v)'
    BY <1>2, <1>3, <1>4, <1>5, <1>7, <1>9 DEF VolumeInv, VolumeOK, RequestOK, Absent
  <2>3. NoGroupYet(v)'
    BY <1>4, <1>5, <1>7, <1>9 DEF VolumeInv, NoGroupYet, NoGroup, Absent
  <2> QED
    BY <2>1, <2>2, <2>3 DEF VolumeInv
<1>11. OffGroup(v) => OffGroup(v)'
  BY <1>7 DEF OffGroup
<1> QED
  BY <1>7, <1>8, <1>9, <1>10, <1>11, StepOfVolume

LEMMA ExpandReserveInv ==
  ASSUME LVGInv, NEW v \in Volume, ExpandReserve(v)
  PROVE  LVGInv'
<1> USE DEF LVGInv
<1> DEFINE seen == rq[v].seen
           more == rq[v].bytes - seen.size
           new == [rq[v] EXCEPT !.pc = "mark"]
<1>1. /\ rq[v].pc = "reserve"
      /\ UNCHANGED <<lvg, lc, dev, vol, lv, nr, cached, unpaid, faults>>
  BY DEF ExpandReserve
<1>2. /\ rq[v] \in Request /\ ac \in [size : Int, onLVG : BOOLEAN]
      /\ faults \in 0 .. MaxFaults /\ rq \in [Volume -> Request] /\ unpaid \in Int
  BY DEF TypeOK
<1>3. CASE seen.cs \in {"Resizing", "Resized"}
  <2>1. ac' = ac /\ rq' = [rq EXCEPT ![v] = [rq[v] EXCEPT !.pc = "wait"]]
    BY <1>2, <1>3 DEF ExpandReserve, Request
  <2>2. [rq[v] EXCEPT !.pc = "wait"] \in Request /\ [rq[v] EXCEPT !.pc = "wait"].pc = "wait"
    BY <1>2 DEF Request
  <2>3. ~NoGroup
    BY <1>1, <1>3 DEF VolumeInv, NoGroupYet, NoGroup
  <2> QED
    BY <1>1, <1>2, <2>1, <2>2, <2>3, RequestStep
<1>4. CASE seen.cs \in Usable /\ ac.onLVG /\ more <= ac.size
  <2>1. /\ ac' = [ac EXCEPT !.size = @ - more]
        /\ rq' = [rq EXCEPT ![v] = new]
    BY <1>2, <1>4 DEF ExpandReserve, Usable
  <2>2. /\ new \in Request /\ new.pc = "mark" /\ new.bytes = rq[v].bytes
        /\ new.seen = seen /\ new.fresh = rq[v].fresh
    BY <1>2 DEF Request
  <2>3. more \in Int /\ more > 0
    BY <1>1, <1>2 DEF VolumeInv, RequestOK, Request
  <2> HIDE DEF new, more
  <2>4. /\ ac' \in [size : Int, onLVG : BOOLEAN] /\ ac'.onLVG = ac.onLVG
        /\ (ac.size <= 0 => ac'.size <= 0)
    BY <1>2, <2>1, <2>3
  <2>5. TypeOK'
    BY <1>1, <1>2, <2>1, <2>2, <2>4 DEF TypeOK
  <2>6. rq'[v] = new /\ \A w \in Volume \ {v} : rq'[w] = rq[w]
    BY <1>2, <2>1
  <2>7. VolumeInv(v)'
    <3>1. VolumeOK(v)' /\ NodeOK(v)'
      BY <1>1 DEF VolumeInv, VolumeOK, NodeOK
    <3>2. RequestOK(v)'
      BY <1>1, <1>4, <2>2, <2>6 DEF VolumeInv, RequestOK
    <3>3. NoGroupYet(v)'
      BY <1>1, <1>4 DEF VolumeInv, NoGroupYet, NoGroup, Usable
    <3> QED
      BY <3>1, <3>2, <3>3 DEF VolumeInv
  <2>8. OffGroup(v) => OffGroup(v)'
    BY <1>1 DEF OffGroup
  <2> QED
    BY <1>1, <2>4, <2>5, <2>6, <2>7, <2>8, StepOfVolume
<1>5. CASE /\ seen.cs \notin {"Resizing", "Resized"}
           /\ ~(seen.cs \in Usable /\ ac.onLVG /\ more <= ac.size)
  <2>1. ac' = ac /\ rq' = [rq EXCEPT ![v] = NoRequest]
    BY <1>2, <1>5 DEF ExpandReserve
  <2> QED
    BY <1>1, <1>2, <2>1, ConstantTypes, RequestStep
<1> QED
  BY <1>3, <1>4, <1>5

\* The Volume that gets marked is the one that was read: it was usable.
LEMMA ExpandMarkInv ==
  ASSUME LVGInv, NEW v \in Volume, ExpandMark(v)
  PROVE  LVGInv'
<1> USE DEF LVGInv
<1> DEFINE new == [vol[v] EXCEPT !.cs = "Resizing", !.size = rq[v].bytes,
                                 !.prev = rq[v].seen]
           next == [rq[v] EXCEPT !.pc = "wait"]
<1>1. rq[v].pc = "mark" /\ UNCHANGED <<ac, lvg, lc, dev, lv, cached, unpaid, faults>>
  BY DEF ExpandMark
<1>2. /\ rq[v] \in Request /\ rq \in [Volume -> Request]
      /\ vol[v] \in VolState /\ vol \in [Volume -> VolState]
      /\ ac \in [size : Int, onLVG : BOOLEAN] /\ faults \in 0 .. MaxFaults
      /\ unpaid \in Int
  BY DEF TypeOK
<1>3. /\ rq[v].seen \in [cs : CSIStatus \cup Absent, size : Nat] /\ rq[v].bytes \in Nat
      /\ rq[v].seen.cs \in Usable /\ rq[v].seen.size > 0 /\ rq[v].bytes > 0
  BY <1>1, <1>2 DEF VolumeInv, RequestOK, Request
<1>4. CASE ~rq[v].fresh
  <2>1. rq' = [rq EXCEPT ![v] = NoRequest] /\ UNCHANGED <<vol, nr>>
    BY <1>4 DEF ExpandMark
  <2> QED
    BY <1>1, <1>2, <2>1, ConstantTypes, RequestStep
<1>5. CASE rq[v].fresh
  <2>1. vol' = [vol EXCEPT ![v] = new] /\ rq' = [rq EXCEPT ![v] = next]
        /\ nr' = Stale(nr, v)
    BY <1>2, <1>5 DEF ExpandMark, VolState, Request
  <2>2. vol[v].cs \in Usable
    BY <1>1, <1>3, <1>5 DEF VolumeInv, RequestOK
  <2>3. /\ new \in VolState /\ new.cs = "Resizing" /\ new.size = rq[v].bytes
        /\ new.prev = rq[v].seen /\ new.deleting = vol[v].deleting
    <3>1. rq[v].seen \in [cs : Usable \cup {"none"}, size : Nat] /\ "Resizing" \in CSIStatus
      BY <1>3 DEF CSIStatus
    <3> QED
      BY <1>2, <1>3, <3>1 DEF VolState
  <2>4. next \in Request /\ next.pc = "wait"
    BY <1>2 DEF Request
  <2> HIDE DEF new, next
  <2>5. /\ vol' \in [Volume -> VolState] /\ vol'[v] = new /\ rq'[v] = next
        /\ \A w \in Volume \ {v} : vol'[w] = vol[w] /\ rq'[w] = rq[w]
    BY <1>2, <2>1, <2>3
  <2>6. TypeOK'
    BY <1>1, <1>2, <2>1, <2>4, <2>5, StaleNode DEF TypeOK
  <2>7. VolumeInv(v)'
    <3>1. VolumeOK(v)'
      BY <1>1, <1>3, <2>2, <2>3, <2>5 DEF VolumeInv, VolumeOK, Usable, Absent
    <3>2. RequestOK(v)'
      BY <2>4, <2>5 DEF RequestOK
    <3>3. NodeOK(v)'
      BY <1>1, <2>1, <2>2, <2>3, <2>5, StaleNode DEF VolumeInv, NodeOK, Usable, Absent
    <3>4. NoGroupYet(v)'
      BY <1>1, <2>2 DEF VolumeInv, NoGroupYet, NoGroup, Usable
    <3> QED
      BY <3>1, <3>2, <3>3, <3>4 DEF VolumeInv
  <2>8. OffGroup(v) => OffGroup(v)'
    BY <2>2, <2>3, <2>5 DEF OffGroup, Usable, Absent
  <2> QED
    BY <1>1, <2>1, <2>5, <2>6, <2>7, <2>8, StaleNode, StepOfVolume
<1> QED
  BY <1>4, <1>5

LEMMA ExpandCreditInv ==
  ASSUME LVGInv, NEW v \in Volume, ExpandCredit(v)
  PROVE  LVGInv'
<1> USE DEF LVGInv
<1> DEFINE new == [rq[v] EXCEPT !.pc = "restore", !.fresh = TRUE]
           back == rq[v].bytes - vol[v].prev.size
<1>1. /\ rq[v].pc = "wait" /\ UNCHANGED <<lvg, lc, dev, vol, lv, nr, cached, unpaid>>
      /\ (vol[v].cs = "Failed" /\ vol[v].prev # NoPrev) \/ vol[v].cs = "Resized"
  BY DEF ExpandCredit
<1>2. /\ rq[v] \in Request /\ rq \in [Volume -> Request] /\ vol[v] \in VolState
      /\ ac \in [size : Int, onLVG : BOOLEAN] /\ faults \in 0 .. MaxFaults
      /\ unpaid \in Int
  BY DEF TypeOK
<1>3. rq' = [rq EXCEPT ![v] = new]
  BY <1>2 DEF ExpandCredit, Request
<1>4. new \in Request /\ new.pc = "restore" /\ new.fresh
  BY <1>2 DEF Request
<1>5. back \in Int
  BY <1>2 DEF Request, VolState
<1>6. ac' = ac \/ ac' = [ac EXCEPT !.size = @ + back]
  BY DEF ExpandCredit
<1>7. faults' \in 0 .. MaxFaults
  BY <1>2, FaultType DEF ExpandCredit
<1> HIDE DEF new, back
<1>8. ac' \in [size : Int, onLVG : BOOLEAN] /\ ac'.onLVG = ac.onLVG
  BY <1>2, <1>5, <1>6
<1>9. TypeOK'
  BY <1>1, <1>2, <1>3, <1>4, <1>7, <1>8 DEF TypeOK
<1>10. rq'[v] = new /\ \A w \in Volume \ {v} : rq'[w] = rq[w]
  BY <1>2, <1>3
<1>11. (OffGroup(v) => OffGroup(v)') /\ ~NoGroup
  BY <1>1 DEF OffGroup, VolumeInv, NoGroupYet
<1>12. VolumeInv(v)'
  <2>1. VolumeOK(v)' /\ NodeOK(v)'
    BY <1>1 DEF VolumeInv, VolumeOK, NodeOK
  <2>2. RequestOK(v)'
    BY <1>1, <1>4, <1>10 DEF RequestOK
  <2> QED
    BY <1>1, <1>8, <1>11, <2>1, <2>2 DEF VolumeInv, NoGroupYet, NoGroup
<1>13. ~((lvg.deleting \/ lvg.status = "gone") /\ ac.onLVG)
  BY <1>11 DEF GroupOK, NoGroup
<1> QED
  BY <1>1, <1>8, <1>9, <1>10, <1>11, <1>12, <1>13, StepOfVolume

LEMMA ExpandRestoreInv ==
  ASSUME LVGInv, NEW v \in Volume, ExpandRestore(v)
  PROVE  LVGInv'
<1> USE DEF LVGInv
<1> DEFINE size == IF vol[v].cs = "Failed" THEN vol[v].prev.size ELSE vol[v].size
           cs == IF vol[v].cs = "Resized" /\ vol[v].prev # NoPrev
                 THEN vol[v].prev.cs ELSE vol[v].cs
           new == [vol[v] EXCEPT !.size = size, !.cs = cs, !.prev = NoPrev]
<1>1. /\ rq[v].pc = "restore" /\ rq' = [rq EXCEPT ![v] = NoRequest]
      /\ UNCHANGED <<ac, lvg, lc, dev, lv, cached, unpaid, faults>>
  BY DEF ExpandRestore
<1>2. /\ rq \in [Volume -> Request] /\ vol[v] \in VolState /\ vol \in [Volume -> VolState]
      /\ ac \in [size : Int, onLVG : BOOLEAN] /\ faults \in 0 .. MaxFaults
      /\ unpaid \in Int
  BY DEF TypeOK
<1>3. CASE ~rq[v].fresh
  <2>1. UNCHANGED <<vol, nr>>
    BY <1>3 DEF ExpandRestore
  <2> QED
    BY <1>1, <1>2, <2>1, ConstantTypes, RequestStep
<1>4. CASE rq[v].fresh
  <2>1. \/ vol[v].cs = "Failed" /\ vol[v].prev # NoPrev
        \/ vol[v].cs = "Resized"
    BY <1>1, <1>4 DEF VolumeInv, RequestOK
  <2>2. vol[v].prev # NoPrev => vol[v].prev.cs \in Usable /\ vol[v].prev.size > 0
    BY DEF VolumeInv, VolumeOK
  <2>3. /\ size \in Nat /\ size > 0
        /\ cs \in Usable \cup {"Failed", "Resized"}
        /\ vol[v].cs = "Failed" => cs = "Failed"
    BY <1>2, <2>1, <2>2 DEF VolState, VolumeInv, VolumeOK
  <2>4. vol' = [vol EXCEPT ![v] = new] /\ nr' = Stale(nr, v)
    BY <1>2, <1>4 DEF ExpandRestore, VolState
  <2> HIDE DEF size, cs
  <2>5. /\ new \in VolState /\ new.cs = cs /\ new.size = size /\ new.prev = NoPrev
        /\ new.deleting = vol[v].deleting
    <3>1. cs \in CSIStatus /\ NoPrev \in [cs : Usable \cup {"none"}, size : Nat]
      BY <2>3, ConstantTypes DEF CSIStatus
    <3> QED
      BY <1>2, <2>3, <3>1 DEF VolState
  <2> HIDE DEF new
  <2>6. /\ vol' \in [Volume -> VolState] /\ vol'[v] = new /\ rq'[v] = NoRequest
        /\ \A w \in Volume \ {v} : vol'[w] = vol[w] /\ rq'[w] = rq[w]
    BY <1>1, <1>2, <2>4, <2>5
  <2>7. TypeOK'
    BY <1>1, <1>2, <2>4, <2>6, ConstantTypes, StaleNode DEF TypeOK
  <2>8. VolumeInv(v)'
    <3>1. VolumeOK(v)'
      BY <1>1, <2>1, <2>3, <2>5, <2>6 DEF VolumeInv, VolumeOK, Usable, Absent
    <3>2. RequestOK(v)'
      BY <2>6, ConstantTypes DEF RequestOK
    <3>3. NodeOK(v)'
      BY <1>1, <2>1, <2>3, <2>4, <2>5, <2>6, StaleNode
      DEF VolumeInv, NodeOK, Usable, Absent
    <3>4. NoGroupYet(v)'
      BY <1>1, <2>1 DEF VolumeInv, NoGroupYet, NoGroup
    <3> QED
      BY <3>1, <3>2, <3>3, <3>4 DEF VolumeInv
  <2>9. OffGroup(v) => OffGroup(v)'
    BY <2>1, <2>5, <2>6 DEF OffGroup, Absent
  <2> QED
    BY <1>1, <2>4, <2>6, <2>7, <2>8, <2>9, StaleNode, StepOfVolume
<1> QED
  BY <1>3, <1>4

-----------------------------------------------------------------------------
(* The node's steps                                                        *)

\* Reconcile works on the LV of a volume, and may add the volume to the LVG,
\* which makes copies stale.
LEMMA StepOfWork ==
  ASSUME LVGInv, TypeOK', NEW v \in Volume, UNCHANGED <<ac, dev, vol>>,
         lvg'.status = lvg.status, lvg'.deleting = lvg.deleting, lc'.pc = lc.pc,
         \A w \in Volume \ {v} : lv'[w] = lv[w] /\ nr'[w] = nr[w],
         \A w \in Volume : /\ rq'[w].pc = rq[w].pc /\ rq'[w].seen = rq[w].seen
                           /\ rq'[w].bytes = rq[w].bytes /\ rq'[w].act = rq[w].act
                           /\ rq'[w].fresh => rq[w].fresh,
         VolumeOK(v)', NodeOK(v)', NoGroupYet(v)'
  PROVE  LVGInv'
<1> USE DEF LVGInv
<1>1. ASSUME NEW w \in Volume
      PROVE  VolumeInv(w)'
  <2>1. RequestOK(w)'
    BY DEF VolumeInv, RequestOK
  <2>2. CASE w = v
    BY <2>1, <2>2 DEF VolumeInv
  <2>3. CASE w # v
    <3>1. VolumeOK(w)' /\ NodeOK(w)' /\ NoGroupYet(w)'
      BY <2>3 DEF VolumeInv, VolumeOK, NodeOK, NoGroupYet, NoGroup
    <3> QED
      BY <2>1, <3>1 DEF VolumeInv
  <2> QED
    BY <2>2, <2>3
<1>2. GroupOK'
  BY DEF GroupOK, Closed, OffGroup
<1> QED
  BY <1>1, <1>2

\* Only a Volume that is Created, and that a user has deleted, is not read for
\* what it is.
LEMMA ReconcileReads ==
  ASSUME TypeOK, NEW v \in Volume, ReconcileRead(v)
  PROVE  \E cs \in {"Creating", "Resizing", "Removing"} :
           LET new == [pc |-> "work", cs |-> cs, fresh |-> TRUE]
           IN  /\ new \in NodeState /\ nr' = [nr EXCEPT ![v] = new]
               /\ nr' \in [Volume -> NodeState] /\ nr'[v] = new
               /\ \A w \in Volume \ {v} : nr'[w] = nr[w]
               /\ \/ cs = vol[v].cs
                  \/ cs = "Removing" /\ vol[v].cs = "Created" /\ vol[v].deleting
<1> DEFINE removing == vol[v].cs = "Removing" \/ (vol[v].deleting /\ vol[v].cs = "Created")
           cs == IF removing THEN "Removing" ELSE vol[v].cs
           new == [pc |-> "work", cs |-> cs, fresh |-> TRUE]
<1>1. /\ nr' = [nr EXCEPT ![v] = new]
      /\ cs \in {"Creating", "Resizing", "Removing"}
      /\ \/ cs = vol[v].cs
         \/ cs = "Removing" /\ vol[v].cs = "Created" /\ vol[v].deleting
  BY DEF ReconcileRead
<1> HIDE DEF cs
<1>2. new \in NodeState
  BY <1>1 DEF NodeState, CSIStatus
<1> QED
  BY <1>1, <1>2 DEF TypeOK

LEMMA ReconcileReadInv ==
  ASSUME LVGInv, NEW v \in Volume, ReconcileRead(v)
  PROVE  LVGInv'
<1> USE DEF LVGInv
<1>1. UNCHANGED <<ac, lvg, lc, dev, vol, lv, rq, cached, unpaid, faults>>
  BY DEF ReconcileRead
<1>2. PICK cs \in {"Creating", "Resizing", "Removing"} :
        /\ nr' \in [Volume -> NodeState]
        /\ nr'[v].pc = "work" /\ nr'[v].cs = cs
        /\ \A w \in Volume \ {v} : nr'[w] = nr[w]
        /\ \/ cs = vol[v].cs
           \/ cs = "Removing" /\ vol[v].cs = "Created" /\ vol[v].deleting
  BY ReconcileReads
<1>3. TypeOK'
  BY <1>1, <1>2 DEF TypeOK
<1>4. VolumeInv(v)'
  <2>1. VolumeOK(v)' /\ RequestOK(v)'
    BY <1>1 DEF VolumeInv, VolumeOK, RequestOK
  <2>2. NodeOK(v)'
    BY <1>1, <1>2 DEF NodeOK, Absent
  <2>3. NoGroupYet(v)'
    BY <1>1, <1>2 DEF VolumeInv, NoGroupYet, NoGroup, Absent
  <2> QED
    BY <2>1, <2>2, <2>3 DEF VolumeInv
<1>5. OffGroup(v) => OffGroup(v)'
  BY <1>1 DEF OffGroup
<1> QED
  BY <1>1, <1>2, <1>3, <1>4, <1>5, StepOfVolume

\* What Reconcile has found out is what it is going to write.
LEMMA DecideStep ==
  ASSUME TypeOK, NEW v \in Volume, NEW cs \in CSIStatus, Decide(v, cs)
  PROVE  /\ nr' \in [Volume -> NodeState]
         /\ \A w \in Volume \ {v} : nr'[w] = nr[w]
         /\ nr'[v].pc = "update" /\ nr'[v].cs = cs /\ nr'[v].fresh = nr[v].fresh
<1> DEFINE new == [nr[v] EXCEPT !.pc = "update", !.cs = cs]
<1>1. nr \in [Volume -> NodeState] /\ nr[v] \in NodeState
  BY DEF TypeOK
<1>2. nr' = [nr EXCEPT ![v] = new]
  BY <1>1 DEF Decide, NodeState
<1>3. new \in NodeState /\ new.pc = "update" /\ new.cs = cs /\ new.fresh = nr[v].fresh
  BY <1>1 DEF NodeState
<1> HIDE DEF new
<1> QED
  BY <1>1, <1>2, <1>3

LEMMA WorkRemoveInv ==
  ASSUME LVGInv, NEW v \in Volume, WorkRemove(v)
  PROVE  LVGInv'
<1> USE DEF LVGInv
<1>1. /\ nr[v].pc = "work" /\ nr[v].cs = "Removing"
      /\ UNCHANGED <<ac, lvg, lc, dev, vol, rq, cached, unpaid>>
      /\ faults' \in 0 .. MaxFaults
  BY FaultType DEF WorkRemove, ReleaseVolume, TypeOK
<1>2. /\ vol[v].cs = "Removing" \/ vol[v].deleting
      /\ vol[v].cs \notin Absent \cup {"Removed"}
  BY <1>1 DEF VolumeInv, NodeOK
<1>3. PICK cs \in {"Removed", "Failed"} : Decide(v, cs)
  BY DEF WorkRemove, ReleaseVolume
<1>4. /\ lv' \in [Volume -> Nat] /\ \A w \in Volume \ {v} : lv'[w] = lv[w]
      /\ lv'[v] \in {0, lv[v]}
  BY DEF WorkRemove, ReleaseVolume, LVRemove, TypeOK
<1>5. cs \in CSIStatus
  BY DEF CSIStatus
<1>6. TypeOK'
  BY <1>1, <1>3, <1>4, <1>5, DecideStep DEF TypeOK
<1>7. VolumeOK(v)'
  BY <1>1, <1>2, <1>4 DEF VolumeInv, VolumeOK, Usable
<1>8. NodeOK(v)'
  BY <1>1, <1>2, <1>3, <1>5, DecideStep DEF NodeOK, Absent
<1>9. ~NoGroup
  BY <1>1 DEF VolumeInv, NoGroupYet
<1>10. NoGroupYet(v)'
  BY <1>1, <1>9 DEF NoGroupYet, NoGroup
<1> QED
  BY <1>1, <1>3, <1>4, <1>5, <1>6, <1>7, <1>8, <1>9, <1>10, DecideStep, StepOfWork

LEMMA WorkExpandInv ==
  ASSUME LVGInv, NEW v \in Volume, WorkExpand(v)
  PROVE  LVGInv'
<1> USE DEF LVGInv
<1>1. /\ nr[v].pc = "work" /\ nr[v].cs = "Resizing"
      /\ UNCHANGED <<ac, lvg, lc, dev, vol, rq, cached, unpaid>>
      /\ faults' \in 0 .. MaxFaults
  BY FaultType DEF WorkExpand, TypeOK
<1>2. vol[v].cs \notin Absent \cup {"Removed"} /\ vol[v].size \in Nat /\ vol[v].size > 0
  BY <1>1 DEF VolumeInv, NodeOK, VolumeOK, TypeOK, VolState, Absent
<1>3. PICK cs \in {"Resized", "Failed"} :
        Decide(v, cs) /\ (cs = "Resized" => lv' = ExpandLV(v))
  BY DEF WorkExpand
<1>4. lv' = lv \/ (lv' = ExpandLV(v) /\ lv[v] # 0)
  BY DEF WorkExpand, CanExpandLV, VolumePathFound
<1>5. /\ lv' \in [Volume -> Nat] /\ \A w \in Volume \ {v} : lv'[w] = lv[w]
      /\ lv'[v] # 0 <=> lv[v] # 0
      /\ cs = "Resized" => lv'[v] # 0
  BY <1>2, <1>3, <1>4 DEF ExpandLV, TypeOK
<1>6. cs \in CSIStatus
  BY DEF CSIStatus
<1>7. TypeOK'
  BY <1>1, <1>3, <1>5, <1>6, DecideStep DEF TypeOK
<1>8. VolumeOK(v)'
  BY <1>1, <1>5 DEF VolumeInv, VolumeOK
<1>9. NodeOK(v)'
  BY <1>1, <1>2, <1>3, <1>5, <1>6, DecideStep DEF NodeOK
<1>10. ~NoGroup
  BY <1>1 DEF VolumeInv, NoGroupYet
<1>11. NoGroupYet(v)'
  BY <1>1, <1>10 DEF NoGroupYet, NoGroup
<1> QED
  BY <1>1, <1>3, <1>5, <1>6, <1>7, <1>8, <1>9, <1>10, <1>11, DecideStep, StepOfWork

\* Adding a volume to the LVG changes neither its status nor what others do.
LEMMA AddVolumeRefStep ==
  ASSUME TypeOK, NEW v \in Volume, AddVolumeRef(v)
  PROVE  /\ lvg' \in [status : {"Creating", "Created", "Failed", "gone"},
                      refs : SUBSET Volume, located : BOOLEAN, finalizer : BOOLEAN,
                      deleting : BOOLEAN]
         /\ lvg'.status = lvg.status /\ lvg'.deleting = lvg.deleting
         /\ lc' \in LvgState /\ lc'.pc = lc.pc
         /\ rq' \in [Volume -> Request]
         /\ \A w \in Volume : /\ rq'[w].pc = rq[w].pc /\ rq'[w].seen = rq[w].seen
                              /\ rq'[w].bytes = rq[w].bytes /\ rq'[w].act = rq[w].act
                              /\ rq'[w].op = rq[w].op
                              /\ rq'[w].fresh => rq[w].fresh
<1>1. /\ lvg' \in [status : {"Creating", "Created", "Failed", "gone"},
                   refs : SUBSET Volume, located : BOOLEAN, finalizer : BOOLEAN,
                   deleting : BOOLEAN]
      /\ lvg'.status = lvg.status /\ lvg'.deleting = lvg.deleting
  BY DEF AddVolumeRef, TypeOK
<1>2. lc' \in LvgState /\ lc'.pc = lc.pc
  BY StaleLvgWork DEF AddVolumeRef, TypeOK
<1>3. CASE v \in lvg.refs
  BY <1>1, <1>2, <1>3 DEF AddVolumeRef, TypeOK
<1>4. CASE v \notin lvg.refs
  <2> DEFINE new(w) == IF rq[w].pc = "lvg" THEN [rq[w] EXCEPT !.fresh = FALSE] ELSE rq[w]
  <2>1. rq' = [w \in Volume |-> new(w)]
    BY <1>4 DEF AddVolumeRef
  <2>2. ASSUME NEW w \in Volume
        PROVE  /\ new(w) \in Request
               /\ new(w).pc = rq[w].pc /\ new(w).seen = rq[w].seen
               /\ new(w).bytes = rq[w].bytes /\ new(w).act = rq[w].act
               /\ new(w).op = rq[w].op
               /\ new(w).fresh => rq[w].fresh
    <3>1. rq[w] \in Request
      BY DEF TypeOK
    <3> QED
      BY <3>1 DEF Request
  <2> HIDE DEF new
  <2> QED
    BY <1>1, <1>2, <2>1, <2>2
<1> QED
  BY <1>3, <1>4

\* Reconcile of a creation that was overtaken makes an LV all the same.
LEMMA WorkCreateInv ==
  ASSUME LVGInv, NEW v \in Volume, WorkCreate(v)
  PROVE  LVGInv'
<1> USE DEF LVGInv
<1>1. /\ nr[v].pc = "work" /\ nr[v].cs = "Creating"
      /\ UNCHANGED <<ac, dev, vol, cached, unpaid>>
      /\ faults' \in 0 .. MaxFaults
  BY FaultType DEF WorkCreate, PrepareVolume, TypeOK
<1>2. /\ vol[v].cs \notin Absent \cup {"Removed"} /\ vol[v].size \in Nat
      /\ vol[v].size > 0
  BY <1>1 DEF VolumeInv, NodeOK, VolumeOK, TypeOK, VolState, Absent
<1>4. CASE lvg.status # "Created"
  <2>1. Decide(v, "Failed") /\ UNCHANGED <<lvg, lc, lv, rq, faults>>
    BY <1>4 DEF WorkCreate
  <2>2. "Failed" \in CSIStatus
    BY DEF CSIStatus
  <2>3. TypeOK'
    BY <1>1, <2>1, <2>2, DecideStep DEF TypeOK
  <2>4. VolumeOK(v)' /\ NodeOK(v)' /\ NoGroupYet(v)'
    BY <1>1, <1>2, <2>1, <2>2, DecideStep
    DEF VolumeInv, VolumeOK, NodeOK, NoGroupYet, NoGroup
  <2> QED
    BY <1>1, <2>1, <2>2, <2>3, <2>4, DecideStep, StepOfWork
<1>5. CASE lvg.status = "Created"
  <2>1. AddVolumeRef(v) /\ PrepareVolume(v)
    BY <1>5 DEF WorkCreate
  <2>2. PICK cs \in {"Created", "Failed"} :
          Decide(v, cs) /\ (cs = "Created" => CanLVCreate(v) /\ lv' = LVCreate(v))
    BY <2>1 DEF PrepareVolume
  <2>3. lv' = lv \/ (CanLVCreate(v) /\ lv' = LVCreate(v))
    BY <2>1 DEF PrepareVolume
  <2>4. lv \in [Volume -> Nat]
    BY DEF TypeOK
  <2>5. LVCreate(v) \in [Volume -> Nat] /\ LVCreate(v)[v] # 0
        /\ \A w \in Volume \ {v} : LVCreate(v)[w] = lv[w]
    BY <1>2, <2>4 DEF LVCreate
  <2>6. /\ lv' \in [Volume -> Nat] /\ \A w \in Volume \ {v} : lv'[w] = lv[w]
        /\ lv[v] # 0 => lv'[v] # 0
        /\ lv'[v] # 0 => dev.vg
        /\ cs = "Created" => lv'[v] # 0
    BY <2>2, <2>3, <2>4, <2>5 DEF CanLVCreate, VolumeInv, VolumeOK
  <2>7. cs \in CSIStatus
    BY DEF CSIStatus, Usable
  <2>8. TypeOK'
    BY <1>1, <2>1, <2>2, <2>6, <2>7, AddVolumeRefStep, DecideStep DEF TypeOK
  <2>9. VolumeOK(v)'
    BY <1>1, <1>2, <2>6 DEF VolumeInv, VolumeOK, Usable, Absent
  <2>10. NodeOK(v)'
    BY <1>1, <1>2, <2>2, <2>6, <2>7, DecideStep DEF NodeOK
  <2>11. NoGroupYet(v)'
    BY <1>5, <2>1, AddVolumeRefStep DEF NoGroupYet, NoGroup
  <2> QED
    BY <1>1, <2>1, <2>2, <2>6, <2>7, <2>8, <2>9, <2>10, <2>11,
       AddVolumeRefStep, DecideStep, StepOfWork
<1> QED
  BY <1>4, <1>5

\* A status that is written has not been overtaken.
LEMMA ReconcileUpdateInv ==
  ASSUME LVGInv, NEW v \in Volume, ReconcileUpdate(v)
  PROVE  LVGInv'
<1> USE DEF LVGInv
<1> DEFINE cs == nr[v].cs
<1>1. /\ nr[v].pc = "update" /\ nr' = [nr EXCEPT ![v] = NoWork]
      /\ UNCHANGED <<ac, lvg, lc, dev, lv, cached, unpaid, faults>>
  BY DEF ReconcileUpdate
<1>2. /\ nr' \in [Volume -> NodeState] /\ nr'[v] = NoWork
      /\ \A w \in Volume \ {v} : nr'[w] = nr[w]
  BY <1>1, ConstantTypes DEF TypeOK
<1>3. /\ cs \in {"Created", "Resized", "Removed", "Failed"}
      /\ cs = "Removed" => vol[v].cs = "Removing" \/ vol[v].deleting
      /\ cs \in {"Created", "Resized"} => lv[v] # 0 \/ vol[v].deleting
      /\ vol[v].cs \notin Absent \cup {"Removed"}
  BY <1>1 DEF VolumeInv, NodeOK
<1>4. CASE ~nr[v].fresh
  <2>1. UNCHANGED <<vol, rq>> /\ (OffGroup(v) => OffGroup(v)')
    BY <1>4 DEF ReconcileUpdate, OffGroup
  <2>2. TypeOK'
    BY <1>1, <1>2, <2>1 DEF TypeOK
  <2>3. VolumeInv(v)'
    BY <1>1, <1>2, <2>1, ConstantTypes
    DEF VolumeInv, VolumeOK, RequestOK, NodeOK, NoGroupYet, NoGroup
  <2> QED
    BY <1>1, <1>2, <2>1, <2>2, <2>3, StepOfVolume
<1>5. CASE nr[v].fresh
  <2>1. vol' = [vol EXCEPT ![v].cs = cs] /\ rq' = Stale(rq, v)
    BY <1>5 DEF ReconcileUpdate
  <2>2. cs \in CSIStatus
    BY <1>3 DEF CSIStatus, Usable
  <2>3. /\ vol' \in [Volume -> VolState]
        /\ \A w \in Volume \ {v} : vol'[w] = vol[w]
        /\ vol'[v].cs = cs /\ vol'[v].size = vol[v].size
        /\ vol'[v].prev = vol[v].prev /\ vol'[v].deleting = vol[v].deleting
    BY <2>1, <2>2, StatusType
  <2>4. TypeOK'
    BY <1>1, <1>2, <2>1, <2>3, StaleRequest DEF TypeOK
  <2>5. VolumeInv(v)'
    <3>1. VolumeOK(v)'
      BY <1>1, <1>3, <2>3 DEF VolumeInv, VolumeOK, Usable, Absent
    <3>2. RequestOK(v)'
      BY <1>1, <1>3, <2>1, <2>3, StaleRequest DEF VolumeInv, RequestOK, Absent
    <3>3. NodeOK(v)'
      BY <1>2, ConstantTypes DEF NodeOK
    <3>4. NoGroupYet(v)'
      <4>1. RequestOK(v)
        BY DEF VolumeInv
      <4> QED
        BY <1>1, <1>2, <1>3, <2>1, <2>3, StaleRequest, ConstantTypes
        DEF VolumeInv, NoGroupYet, NoGroup
    <3> QED
      BY <3>1, <3>2, <3>3, <3>4 DEF VolumeInv
  <2>6. OffGroup(v) => OffGroup(v)'
    BY <1>3, <2>3 DEF OffGroup
  <2> QED
    BY <1>1, <1>2, <2>1, <2>3, <2>4, <2>5, <2>6, StaleRequest, StepOfVolume
<1> QED
  BY <1>4, <1>5

LEMMA RemoveFinalizerInv ==
  ASSUME LVGInv, NEW v \in Volume, RemoveFinalizer(v)
  PROVE  LVGInv'
<1> USE DEF LVGInv
<1> DEFINE new == [vol[v] EXCEPT !.cs = "gone", !.deleting = FALSE]
<1>1. /\ nr[v].pc = "idle" /\ rq' = Stale(rq, v)
      /\ UNCHANGED <<ac, lvg, lc, dev, lv, nr, cached, unpaid, faults>>
  BY DEF RemoveFinalizer
<1>2. vol[v].cs \in {"Removed", "Failed"}
  BY DEF RemoveFinalizer
<1>3. vol \in [Volume -> VolState] /\ vol[v] \in VolState
  BY DEF TypeOK
<1>4. vol' = [vol EXCEPT ![v] = new]
  BY <1>3 DEF RemoveFinalizer, VolState
<1>5. /\ new \in VolState /\ new.cs = "gone" /\ new.size = vol[v].size
      /\ new.prev = vol[v].prev /\ ~new.deleting
  BY <1>3 DEF VolState, Absent
<1> HIDE DEF new
<1>6. /\ vol' \in [Volume -> VolState] /\ vol'[v] = new
      /\ \A w \in Volume \ {v} : vol'[w] = vol[w]
  BY <1>3, <1>4, <1>5
<1>7. TypeOK'
  BY <1>1, <1>6, StaleRequest DEF TypeOK
<1>8. VolumeInv(v)'
  <2>1. VolumeOK(v)'
    BY <1>1, <1>2, <1>5, <1>6 DEF VolumeInv, VolumeOK, Usable, Absent
  <2>2. RequestOK(v)'
    BY <1>1, <1>2, <1>5, <1>6, StaleRequest DEF VolumeInv, RequestOK, Absent
  <2>3. NodeOK(v)'
    BY <1>1 DEF NodeOK
  <2>4. NoGroupYet(v)'
    BY <1>1, <1>2, <1>5, <1>6, StaleRequest DEF VolumeInv, NoGroupYet, NoGroup, Absent
  <2> QED
    BY <2>1, <2>2, <2>3, <2>4 DEF VolumeInv
<1>9. OffGroup(v)'
  BY <1>5, <1>6 DEF OffGroup, Absent
<1> QED
  BY <1>1, <1>6, <1>7, <1>8, <1>9, StaleRequest, StepOfVolume

LEMMA DeleteVolumeObjectInv ==
  ASSUME LVGInv, NEW v \in Volume, DeleteVolumeObject(v)
  PROVE  LVGInv'
<1> USE DEF LVGInv
<1> DEFINE new == [vol[v] EXCEPT !.deleting = TRUE]
<1>1. /\ vol[v].cs \notin Absent /\ rq' = Stale(rq, v) /\ nr' = Stale(nr, v)
      /\ UNCHANGED <<ac, lvg, lc, dev, lv, cached, unpaid>>
      /\ faults' \in 0 .. MaxFaults
  BY FaultType DEF DeleteVolumeObject, Exists
<1>2. vol \in [Volume -> VolState] /\ vol[v] \in VolState
  BY DEF TypeOK
<1>3. vol' = [vol EXCEPT ![v] = new]
  BY <1>2 DEF DeleteVolumeObject, VolState
<1>4. /\ new \in VolState /\ new.cs = vol[v].cs /\ new.size = vol[v].size
      /\ new.prev = vol[v].prev /\ new.deleting
  BY <1>2 DEF VolState
<1> HIDE DEF new
<1>5. /\ vol' \in [Volume -> VolState] /\ vol'[v] = new
      /\ \A w \in Volume \ {v} : vol'[w] = vol[w]
  BY <1>2, <1>3, <1>4
<1>6. TypeOK'
  BY <1>1, <1>5, StaleRequest, StaleNode DEF TypeOK
<1>7. VolumeInv(v)'
  <2>1. VolumeOK(v)'
    BY <1>1, <1>4, <1>5 DEF VolumeInv, VolumeOK
  <2>2. RequestOK(v)'
    BY <1>1, <1>4, <1>5, StaleRequest DEF VolumeInv, RequestOK
  <2>3. NodeOK(v)'
    BY <1>1, <1>4, <1>5, StaleNode DEF VolumeInv, NodeOK
  <2>4. NoGroupYet(v)'
    BY <1>1, <1>4, <1>5, StaleRequest, StaleNode DEF VolumeInv, NoGroupYet, NoGroup
  <2> QED
    BY <2>1, <2>2, <2>3, <2>4 DEF VolumeInv
<1>8. OffGroup(v)'
  BY <1>4, <1>5 DEF OffGroup
<1> QED
  BY <1>1, <1>5, <1>6, <1>7, <1>8, StaleRequest, StaleNode, StepOfVolume

\* Nothing that a restarted node has forgotten is needed.
LEMMA NodeRestartInv ==
  ASSUME LVGInv, NodeRestart \/ HandleLVGRemovingPanics
  PROVE  LVGInv'
<1> USE DEF LVGInv
<1>1. /\ nr' = [v \in Volume |-> NoWork] /\ lc' = NoLvgWork
      /\ UNCHANGED <<ac, lvg, dev, vol, lv, rq, cached, unpaid>>
      /\ faults' \in 0 .. MaxFaults
  BY FaultType DEF NodeRestart, HandleLVGRemovingPanics, TypeOK
<1>2. TypeOK'
  BY <1>1, ConstantTypes DEF TypeOK
<1>3. GroupOK'
  BY <1>1 DEF NoLvgWork, GroupOK, Closed, OffGroup
<1> QED
  BY <1>1, <1>2, <1>3, StepOfGroup DEF NoGroup

-----------------------------------------------------------------------------
(* The steps of the LVG controller, and of others about the LVG            *)

LEMMA LvgDecideType ==
  ASSUME NEW pc \in {"idle", "vgcreate", "status", "lvs", "vgremove", "pvremove",
                     "finalizer"},
         NEW status \in {"Creating", "Created", "Failed"}, NEW located \in BOOLEAN,
         LvgDecide(pc, status, located)
  PROVE  lc' \in LvgState /\ lc'.pc = pc
BY DEF LvgDecide, LvgState

\* Reconcile of the LVG goes on, with what it has decided.
LEMMA GoOnType ==
  ASSUME TypeOK,
         NEW pc \in {"vgremove", "pvremove", "finalizer"}, lc' = [lc EXCEPT !.pc = pc]
  PROVE  lc' \in LvgState /\ lc'.pc = pc
BY DEF TypeOK, LvgState

LEMMA AppendFinalizerInv ==
  ASSUME LVGInv, AppendFinalizer \/ DeleteFailedLVG
  PROVE  LVGInv'
<1> USE DEF LVGInv
<1>1. /\ lvg' \in [status : {"Creating", "Created", "Failed", "gone"},
                   refs : SUBSET Volume, located : BOOLEAN, finalizer : BOOLEAN,
                   deleting : BOOLEAN]
      /\ lvg'.status = lvg.status
      /\ lvg'.deleting = lvg.deleting \/ (lvg.status = "Failed" /\ ac.size = 0)
      /\ UNCHANGED <<ac, lc, dev, vol, lv, rq, nr, cached, unpaid>>
      /\ faults' \in 0 .. MaxFaults
      /\ lvg.status = "gone" => lvg'.deleting = lvg.deleting
      /\ lvg.deleting => lvg'.deleting
  BY FaultType DEF AppendFinalizer, DeleteFailedLVG, TypeOK
<1>2. TypeOK'
  BY <1>1 DEF TypeOK
<1>3. GroupOK'
  BY <1>1 DEF GroupOK, Closed, OffGroup
<1> QED
  BY <1>1, <1>2, <1>3, StepOfGroup DEF NoGroup

LEMMA CreatePVInv ==
  ASSUME LVGInv, CreatePV
  PROVE  LVGInv'
<1> USE DEF LVGInv
<1>1. /\ lvg.status = "Creating" /\ faults' \in 0 .. MaxFaults
      /\ UNCHANGED <<ac, lvg, vol, lv, rq, nr, cached, unpaid>>
  BY FaultType DEF CreatePV, TypeOK
<1>2. /\ dev' \in [pv : BOOLEAN, vg : BOOLEAN] /\ (dev'.vg => dev'.pv)
      /\ dev'.vg = dev.vg
      /\ lc' \in LvgState /\ lc'.pc \in {"vgcreate", "status"}
      /\ lc'.pc = "vgcreate" => dev'.pv
  <2>1. CASE CanPVCreate /\ dev' = PVCreate /\ LvgDecide("vgcreate", "Creating", TRUE)
    BY <2>1, LvgDecideType DEF PVCreate, TypeOK
  <2>2. CASE LvgDecide("status", "Failed", FALSE) /\ UNCHANGED dev
    BY <2>2, LvgDecideType DEF TypeOK
  <2> QED
    BY <2>1, <2>2 DEF CreatePV
<1>3. TypeOK'
  BY <1>1, <1>2 DEF TypeOK
<1>4. GroupOK'
  BY <1>1, <1>2 DEF GroupOK, Closed, OffGroup
<1> QED
  BY <1>1, <1>2, <1>3, <1>4, StepOfGroup DEF NoGroup

LEMMA CreateVGInv ==
  ASSUME LVGInv, CreateVG
  PROVE  LVGInv'
<1> USE DEF LVGInv
<1>1. /\ lc.pc = "vgcreate" /\ faults' \in 0 .. MaxFaults
      /\ UNCHANGED <<ac, lvg, vol, lv, rq, nr, cached, unpaid>>
  BY FaultType DEF CreateVG, TypeOK
<1>2. lvg.status = "Creating" /\ dev.pv
  BY <1>1 DEF GroupOK
<1>3. /\ dev' \in [pv : BOOLEAN, vg : BOOLEAN] /\ (dev'.vg => dev'.pv)
      /\ dev.vg => dev'.vg
      /\ lc' \in LvgState /\ lc'.pc = "status"
  BY <1>2, LvgDecideType DEF CreateVG, VGCreate, TypeOK
<1>4. TypeOK'
  BY <1>1, <1>3 DEF TypeOK
<1>5. GroupOK'
  BY <1>1, <1>2, <1>3 DEF GroupOK, Closed, OffGroup
<1> QED
  BY <1>1, <1>2, <1>3, <1>4, <1>5, StepOfGroup DEF NoGroup

LEMMA HandlerLVGCreationInv ==
  ASSUME LVGInv, HandlerLVGCreation
  PROVE  LVGInv'
<1> USE DEF LVGInv
<1>1. /\ lc.pc = "status" /\ lc' = NoLvgWork /\ faults' \in 0 .. MaxFaults
      /\ UNCHANGED <<ac, dev, vol, lv, rq, nr, cached, unpaid>>
  BY FaultType DEF HandlerLVGCreation, TypeOK
<1>2. lvg.status = "Creating"
  BY <1>1 DEF GroupOK
<1>3. lc.status \in {"Creating", "Created", "Failed"} /\ lc.located \in BOOLEAN
  BY DEF TypeOK, LvgState
<1>4. /\ lvg' \in [status : {"Creating", "Created", "Failed", "gone"},
                   refs : SUBSET Volume, located : BOOLEAN, finalizer : BOOLEAN,
                   deleting : BOOLEAN]
      /\ lvg'.status # "gone" /\ lvg'.deleting = lvg.deleting
  BY <1>2, <1>3 DEF HandlerLVGCreation, TypeOK
<1>5. TypeOK'
  BY <1>1, <1>4, ConstantTypes DEF TypeOK
<1>6. ~(lvg.deleting /\ ac.onLVG)
  BY <1>2 DEF GroupOK
<1>7. GroupOK'
  BY <1>1, <1>4, <1>6 DEF NoLvgWork, GroupOK
<1> QED
  BY <1>1, <1>2, <1>5, <1>7, StepOfGroup DEF NoGroup

\* The group that is taken down is closed: no volume is on it, and its AC has
\* left it or offers nothing.
LEMMA HandleLVGRemovingInv ==
  ASSUME LVGInv, HandleLVGRemoving
  PROVE  LVGInv'
<1> USE DEF LVGInv
<1>1. /\ lvg.deleting /\ LvgUnused
      /\ UNCHANGED <<ac, lvg, dev, vol, lv, rq, nr, cached, unpaid, faults>>
      /\ lc' \in LvgState /\ lc'.pc = "lvs"
  BY LvgDecideType DEF HandleLVGRemoving
<1>2. TypeOK'
  BY <1>1 DEF TypeOK
<1>3. Closed
  <2>1. ac.onLVG => ac.size <= 0
    BY <1>1 DEF GroupOK
  <2>2. \A v \in Volume : OffGroup(v)
    BY <1>1 DEF LvgUnused, Exists, OffGroup, VolumeInv, VolumeOK
  <2> QED
    BY <2>1, <2>2 DEF Closed
<1>4. GroupOK'
  BY <1>1, <1>3 DEF GroupOK, Closed, OffGroup
<1> QED
  BY <1>1, <1>2, <1>4, StepOfGroup DEF NoGroup

LEMMA CheckLVsInv ==
  ASSUME LVGInv, CheckLVs
  PROVE  LVGInv'
<1> USE DEF LVGInv
<1>1. /\ lc.pc = "lvs" /\ faults' \in 0 .. MaxFaults
      /\ UNCHANGED <<ac, lvg, dev, vol, lv, rq, nr, cached, unpaid>>
  BY FaultType DEF CheckLVs, TypeOK
<1>2. lc' \in LvgState /\ lc'.pc \in {"idle", "vgremove"}
  BY GoOnType, ConstantTypes DEF CheckLVs
<1>3. TypeOK'
  BY <1>1, <1>2 DEF TypeOK
<1>4. GroupOK'
  BY <1>1, <1>2 DEF GroupOK, Closed, OffGroup
<1> QED
  BY <1>1, <1>3, <1>4, StepOfGroup DEF NoGroup

\* vgremove takes the LVs with it that are left by volumes which are gone, or
\* which a user has deleted: the group is closed.
LEMMA RemoveVGInv ==
  ASSUME LVGInv, RemoveVG
  PROVE  /\ LVGInv'
         /\ \A v \in Volume : lv'[v] = lv[v] \/ (lv'[v] = 0 /\ OffGroup(v))
<1> USE DEF LVGInv
<1>1. /\ lc.pc = "vgremove" /\ faults' \in 0 .. MaxFaults
      /\ UNCHANGED <<ac, lvg, vol, rq, nr, cached, unpaid>>
  BY FaultType DEF RemoveVG, TypeOK
<1>2. lvg.deleting /\ Closed
  BY <1>1 DEF GroupOK
<1>3. /\ lc' \in LvgState /\ lc'.pc \in {"idle", "pvremove"}
      /\ dev' \in [pv : BOOLEAN, vg : BOOLEAN] /\ (dev'.vg => dev'.pv)
      /\ dev'.vg => dev.vg
      /\ lc'.pc = "pvremove" => ~dev'.vg
      /\ lv' \in [Volume -> Nat]
      /\ UNCHANGED <<dev, lv>> \/ \A v \in Volume : lv'[v] = 0
  <2>1. dev \in [pv : BOOLEAN, vg : BOOLEAN] /\ (dev.vg => dev.pv)
        /\ lv \in [Volume -> Nat]
    BY DEF TypeOK
  <2>2. CASE VGRemove /\ lc' = [lc EXCEPT !.pc = "pvremove"]
    <3>1. /\ dev' \in [pv : BOOLEAN, vg : BOOLEAN] /\ ~dev'.vg
          /\ lv' \in [Volume -> Nat] /\ \A v \in Volume : lv'[v] = 0
      BY <2>1, <2>2 DEF VGRemove
    <3> QED
      BY <2>2, <3>1, GoOnType
  <2>3. CASE lc' = NoLvgWork /\ UNCHANGED <<dev, lv>>
    BY <2>1, <2>3, ConstantTypes
  <2> QED
    BY <2>2, <2>3 DEF RemoveVG
<1>4. TypeOK'
  BY <1>1, <1>3 DEF TypeOK
<1>5. GroupOK'
  BY <1>1, <1>2, <1>3 DEF GroupOK, Closed, OffGroup
<1>6. ASSUME NEW v \in Volume
      PROVE  VolumeInv(v)'
  <2>1. vol[v].cs \in Absent \/ vol[v].deleting
    BY <1>2 DEF Closed, OffGroup
  <2>2. VolumeOK(v)'
    BY <1>1, <1>3, <2>1 DEF VolumeInv, VolumeOK, Usable, Absent
  <2>3. RequestOK(v)'
    BY <1>1 DEF VolumeInv, RequestOK
  <2>4. NodeOK(v)'
    BY <1>1, <2>1 DEF VolumeInv, NodeOK, Absent
  <2>5. NoGroupYet(v)'
    BY <1>1, <1>3 DEF VolumeInv, NoGroupYet, NoGroup
  <2> QED
    BY <2>2, <2>3, <2>4, <2>5 DEF VolumeInv
<1>7. \A v \in Volume : lv'[v] = lv[v] \/ (lv'[v] = 0 /\ OffGroup(v))
  BY <1>2, <1>3 DEF Closed
<1> QED
  BY <1>4, <1>5, <1>6, <1>7

LEMMA RemovePVInv ==
  ASSUME LVGInv, RemovePV
  PROVE  LVGInv'
<1> USE DEF LVGInv
<1>1. /\ lc.pc = "pvremove" /\ faults' \in 0 .. MaxFaults
      /\ UNCHANGED <<ac, lvg, vol, lv, rq, nr, cached, unpaid>>
      /\ lc' \in LvgState /\ lc'.pc = "finalizer"
  BY FaultType, GoOnType DEF RemovePV, TypeOK
<1>2. /\ dev' \in [pv : BOOLEAN, vg : BOOLEAN] /\ (dev'.vg => dev'.pv)
      /\ dev'.vg = dev.vg
  BY DEF RemovePV, RemoveOrphanPVs, TypeOK
<1>3. TypeOK'
  BY <1>1, <1>2 DEF TypeOK
<1>4. GroupOK'
  BY <1>1, <1>2 DEF GroupOK, Closed, OffGroup
<1> QED
  BY <1>1, <1>2, <1>3, <1>4, StepOfGroup DEF NoGroup

LEMMA RemoveLVGFinalizerInv ==
  ASSUME LVGInv, RemoveLVGFinalizer
  PROVE  LVGInv'
<1> USE DEF LVGInv
<1>1. /\ lc.pc = "finalizer" /\ lc' = NoLvgWork /\ faults' \in 0 .. MaxFaults
      /\ UNCHANGED <<ac, dev, vol, lv, rq, nr, cached, unpaid>>
      /\ lvg' = lvg \/ lvg' = Gone
  BY FaultType DEF RemoveLVGFinalizer, TypeOK
<1>2. Closed /\ ~dev.vg /\ (ac.onLVG => NoGroup)
  BY <1>1 DEF GroupOK, NoGroup
<1>3. TypeOK'
  <2>1. Gone \in [status : {"Creating", "Created", "Failed", "gone"},
                  refs : SUBSET Volume, located : BOOLEAN, finalizer : BOOLEAN,
                  deleting : BOOLEAN]
    BY DEF Gone
  <2> QED
    BY <1>1, <2>1, ConstantTypes DEF TypeOK
<1>4. GroupOK'
  BY <1>1, <1>2, ConstantTypes DEF NoLvgWork, GroupOK, Closed, OffGroup
<1>5. NoGroup' => NoGroup
  BY <1>1, <1>2, ConstantTypes DEF NoGroup
<1> QED
  BY <1>1, <1>3, <1>4, <1>5, ConstantTypes, StepOfGroup

\* It is written to the AC, of which CreateVolume has a copy.
LEMMA ResetACStep ==
  ASSUME TypeOK, ResetACSizeOfLVG
  PROVE  /\ ac' \in [size : Int, onLVG : BOOLEAN] /\ ac'.onLVG = ac.onLVG /\ ac'.size = 0
         /\ rq' \in [Volume -> Request]
         /\ \A v \in Volume :
              /\ rq'[v].pc = rq[v].pc /\ rq'[v].bytes = rq[v].bytes
              /\ rq'[v] = rq[v] \/ (rq[v].pc = "charge" /\ ~rq'[v].fresh)
              /\ rq[v].pc = "charge" => ~rq'[v].fresh
<1> DEFINE new(v) == IF rq[v].pc = "charge" THEN [rq[v] EXCEPT !.fresh = FALSE] ELSE rq[v]
<1>1. ac' = [ac EXCEPT !.size = 0] /\ rq' = [v \in Volume |-> new(v)]
  BY DEF ResetACSizeOfLVG
<1>2. ASSUME NEW v \in Volume
      PROVE  /\ new(v) \in Request
             /\ new(v).pc = rq[v].pc /\ new(v).bytes = rq[v].bytes
             /\ new(v) = rq[v] \/ (rq[v].pc = "charge" /\ ~new(v).fresh)
             /\ rq[v].pc = "charge" => ~new(v).fresh
  <2>1. rq[v] \in Request
    BY DEF TypeOK
  <2> QED
    BY <2>1 DEF Request
<1> HIDE DEF new
<1> QED
  BY <1>1, <1>2 DEF TypeOK

LEMMA ResetACSizeOfLVGInv ==
  ASSUME LVGInv, ResetACSizeOfLVG
  PROVE  LVGInv'
<1> USE DEF LVGInv
<1>1. /\ lvg.status = "Failed"
      /\ UNCHANGED <<lvg, lc, dev, vol, lv, nr, cached, unpaid, faults>>
  BY DEF ResetACSizeOfLVG
<1>2. TypeOK'
  BY <1>1, ResetACStep DEF TypeOK
<1>3. GroupOK'
  BY <1>1, ResetACStep DEF GroupOK, Closed, OffGroup
<1> QED
  BY <1>1, <1>2, <1>3, ResetACStep, StepOfGroup DEF NoGroup

-----------------------------------------------------------------------------
(* The theorems                                                            *)

LEMMA NextInv == LVGInv /\ [Next]_vars => LVGInv'
<1> SUFFICES ASSUME LVGInv, [Next]_vars PROVE LVGInv'
  OBVIOUS
<1>1. ASSUME NEW v \in Volume, ControllerNext(v)
      PROVE  LVGInv'
  BY <1>1, CreateInv, CreateChargeInv, CreateTimeoutInv, DeleteStartInv, DeleteCreditInv,
     DeleteUpdateLVGInv, DeleteVolumeCRInv, ExpandStartInv, ExpandReserveInv,
     ExpandMarkInv, ExpandCreditInv, ExpandRestoreInv, RequestEndsInv
  DEF ControllerNext, DeleteStep, ExpandStep
<1>2. ASSUME NEW v \in Volume, NodeNext(v)
      PROVE  LVGInv'
  BY <1>2, ReconcileReadInv, WorkCreateInv, WorkRemoveInv, WorkExpandInv,
     ReconcileUpdateInv, RemoveFinalizerInv, NodeRPCInv
  DEF NodeNext, Work
<1>3. CASE LvgReconcile
  BY <1>3, AppendFinalizerInv, CreatePVInv, CreateVGInv, HandlerLVGCreationInv,
     HandleLVGRemovingInv, NodeRestartInv, CheckLVsInv, RemoveVGInv, RemovePVInv,
     RemoveLVGFinalizerInv
  DEF LvgReconcile
<1>4. CASE UNCHANGED vars
  <2>1. TypeOK'
    BY <1>4 DEF vars, LVGInv, TypeOK
  <2>2. ASSUME NEW v \in Volume
        PROVE  VolumeInv(v)'
    BY <1>4 DEF vars, LVGInv, VolumeInv, VolumeOK, RequestOK, NodeOK, NoGroupYet, NoGroup
  <2>3. GroupOK'
    BY <1>4 DEF vars, LVGInv, GroupOK, Closed, OffGroup
  <2> QED
    BY <2>1, <2>2, <2>3 DEF LVGInv
<1> QED
  BY <1>1, <1>2, <1>3, <1>4, AppendFinalizerInv, ResetACSizeOfLVGInv, RestartInv,
     NodeRestartInv, DeleteVolumeObjectInv
  DEF Next

LEMMA InvHolds == Spec => []LVGInv
BY InitInv, NextInv, PTL DEF Spec

\* Whatever Reconcile, the RPCs and the requests overwrite, every object stays
\* one that the API knows, and the drive's volume group lies on a physical volume.
THEOREM TypeCorrect == Spec => []TypeOK
<1>1. LVGInv => TypeOK
  BY DEF LVGInv
<1> QED
  BY InvHolds, <1>1, PTL

\* A volume that can be staged and published, and that no user has deleted, has
\* its LV, for any volumes, sizes and number of faults: no status that is written
\* over another one brings a volume back into use whose LV was removed, or has
\* never been made.
THEOREM UsableBacked == Spec => []UsableIsBacked
<1>1. LVGInv => UsableIsBacked
  BY DEF LVGInv, VolumeInv, VolumeOK, UsableIsBacked
<1> QED
  BY InvHolds, <1>1, PTL

\* handleLVGRemoving takes a volume group down only when no volume is on it any
\* more, and none comes to it afterwards.
THEOREM GroupUnused == Spec => []GroupRemovedUnused
<1>1. LVGInv => GroupRemovedUnused
  BY DEF LVGInv, VolumeInv, VolumeOK, GroupOK, Closed, OffGroup, Exists,
         GroupRemovedUnused
<1> QED
  BY InvHolds, <1>1, PTL

\* The LV of a Volume that no user has deleted goes only by a Reconcile whose
\* Volume is still under removal when the LV is wiped; vgremove never takes it.
THEOREM OnlyWhenRemoving == Spec => RemovedOnlyWhenRemoving
<1> DEFINE Allowed(v) == vol[v].cs \in {"Removing", "gone"} \/ vol[v].deleting
           Kept(v) == lv[v] # 0 /\ lv'[v] = 0 => Allowed(v)
<1>1. ASSUME LVGInv, [Next]_vars, NEW v \in Volume
      PROVE  Kept(v)
  <2> SUFFICES ASSUME lv[v] # 0, lv'[v] = 0 PROVE Allowed(v)
    OBVIOUS
  <2>1. lv \in [Volume -> Nat] /\ vol \in [Volume -> VolState]
    BY <1>1 DEF LVGInv, TypeOK
  <2>2. ~(UNCHANGED lv)
    OBVIOUS
  <2>3. CASE RemoveVG
    BY <1>1, <2>3, RemoveVGInv DEF OffGroup, Absent, LVGInv, VolumeInv, VolumeOK
  <2>4. ASSUME ~RemoveVG
        PROVE  \E w \in Volume : WorkCreate(w) \/ WorkRemove(w) \/ WorkExpand(w)
    <3>1. ASSUME NEW w \in Volume, ControllerNext(w) PROVE UNCHANGED lv
      <4>1. Create(w) \/ CreateCharge(w) \/ CreateTimeout(w) => UNCHANGED lv
        BY DEF Create, CreateCharge, CreateTimeout
      <4>2. DeleteStart(w) \/ DeleteCredit(w) \/ DeleteStep(w) => UNCHANGED lv
        BY DEF DeleteStart, DeleteCredit, DeleteStep, DeleteUpdateLVG, DeleteVolumeCR
      <4>3. ExpandStart(w) => UNCHANGED lv
        BY Zenon DEF ExpandStart
      <4>6. ExpandCredit(w) => UNCHANGED lv
        BY Zenon DEF ExpandCredit
      <4>4. ExpandStep(w) => UNCHANGED lv
        BY DEF ExpandStep, ExpandReserve, ExpandMark, ExpandRestore
      <4>5. GiveUp(w) \/ RequestFails(w) => UNCHANGED lv
        BY DEF GiveUp, RequestFails
      <4> QED
        BY <3>1, <4>1, <4>2, <4>3, <4>4, <4>5, <4>6 DEF ControllerNext
    <3>2. ASSUME NEW w \in Volume, NodeNext(w), ~Work(w) PROVE UNCHANGED lv
      BY <3>2
      DEF NodeNext, ReconcileRead, ReconcileUpdate, RemoveFinalizer, SetStatus,
          NodeStageVolume, NodeUnstageVolume, NodePublishVolume, NodeUnpublishVolume
    <3>3. LvgReconcile => UNCHANGED lv
      BY <2>4
      DEF LvgReconcile, AppendFinalizer, CreatePV, CreateVG, HandlerLVGCreation,
          HandleLVGRemoving, HandleLVGRemovingPanics, CheckLVs, RemovePV,
          RemoveLVGFinalizer
    <3>4. ResetACSizeOfLVG \/ DeleteFailedLVG \/ Restart \/ NodeRestart => UNCHANGED lv
      BY DEF ResetACSizeOfLVG, DeleteFailedLVG, Restart, NodeRestart
    <3>5. \A w \in Volume : DeleteVolumeObject(w) => UNCHANGED lv
      BY DEF DeleteVolumeObject
    <3>6. UNCHANGED vars => UNCHANGED lv
      BY DEF vars
    <3> QED
      BY <1>1, <2>2, <3>1, <3>2, <3>3, <3>4, <3>5, <3>6 DEF Next, Work
  <2>5. ASSUME NEW w \in Volume, WorkCreate(w) PROVE FALSE
    <3>1. vol[w].size > 0
      BY <1>1, <2>5 DEF WorkCreate, LVGInv, VolumeInv, NodeOK, VolumeOK, Absent
    <3> QED
      BY <2>1, <2>5, <3>1 DEF WorkCreate, PrepareVolume, LVCreate
  <2>6. ASSUME NEW w \in Volume, WorkRemove(w) PROVE Allowed(v)
    <3>1. w = v
      BY <2>1, <2>6 DEF WorkRemove, ReleaseVolume, LVRemove
    <3> QED
      BY <1>1, <2>6, <3>1 DEF WorkRemove, LVGInv, VolumeInv, NodeOK
  <2>7. ASSUME NEW w \in Volume, WorkExpand(w) PROVE FALSE
    <3>1. w = v /\ lv' = ExpandLV(v)
      BY <2>1, <2>7 DEF WorkExpand, ExpandLV
    <3>2. vol[v].size > 0
      BY <1>1, <2>7, <3>1 DEF WorkExpand, LVGInv, VolumeInv, NodeOK, VolumeOK, Absent
    <3> QED
      BY <2>1, <3>1, <3>2 DEF ExpandLV
  <2> QED
    BY <2>3, <2>4, <2>5, <2>6, <2>7
<1>2. ASSUME LVGInv, [Next]_vars
      PROVE  [\A v \in Volume : Kept(v)]_vars
  BY <1>1, <1>2
<1>3. LVGInv /\ [Next]_vars => [\A v \in Volume : lv[v] # 0 /\ lv'[v] = 0
                                  => vol[v].cs \in {"Removing", "gone"}
                                     \/ vol[v].deleting]_vars
  BY <1>2
<1> QED
  BY InvHolds, <1>3, PTL DEF Spec, RemovedOnlyWhenRemoving

-----------------------------------------------------------------------------
(* The size of a volume, when all expand requests ask for the same one      *)

LEMMA InitSize == Init => \A v \in Volume : SizeOK(v)
BY ConstantTypes DEF Init, SizeOK

\* Of the volumes a step is not about nothing changes that their sizes depend on.
LEMMA SizeStep ==
  ASSUME SizeInv, NEW v \in Volume, SizeOK(v)',
         \A w \in Volume \ {v} : /\ vol'[w] = vol[w] /\ lv'[w] = lv[w]
                                 /\ nr'[w] = nr[w] \/ nr'[w].pc = "idle"
                                 /\ rq'[w].pc = rq[w].pc /\ rq'[w].bytes = rq[w].bytes
  PROVE  \A w \in Volume : SizeOK(w)'
<1> SUFFICES ASSUME NEW w \in Volume, w # v PROVE SizeOK(w)'
  OBVIOUS
<1> QED
  BY DEF SizeInv, SizeOK

\* A request, or Reconcile, goes on or ends, and the volumes stay.
LEMMA SizeGoesOn ==
  ASSUME SizeInv, UNCHANGED vol, \A v \in Volume : lv'[v] \in {0, lv[v]},
         \A v \in Volume : nr'[v] = nr[v] \/ nr'[v].pc = "idle",
         \A v \in Volume : rq'[v].pc \in {"reserve", "mark"} =>
                             rq'[v].bytes \in AskedSizes
  PROVE  \A v \in Volume : SizeOK(v)'
BY DEF SizeInv, SizeOK

\* A status is written that says nothing new about sizes.
LEMMA StatusSize ==
  ASSUME SizeInv, NEW v \in Volume, UNCHANGED lv,
         \A w \in Volume \ {v} : vol'[w] = vol[w] /\ nr'[w] = nr[w] /\ rq'[w] = rq[w],
         vol'[v].size = vol[v].size, vol'[v].prev = vol[v].prev,
         vol'[v].cs # "absent",
         vol'[v].cs = "Resized" => vol[v].cs = "Resized",
         vol[v].cs = "Resizing" => vol'[v].cs = "Resizing" \/ nr'[v].pc = "idle",
         (nr'[v].pc = nr[v].pc /\ nr'[v].cs = nr[v].cs) \/ nr'[v].pc = "idle",
         rq'[v].pc \in {"reserve", "mark"} =>
           rq'[v].pc = rq[v].pc /\ rq'[v].bytes = rq[v].bytes
  PROVE  \A w \in Volume : SizeOK(w)'
<1>1. SizeOK(v)'
  BY DEF SizeInv, SizeOK
<1> QED
  BY <1>1, SizeStep

LEMMA CreateSize ==
  ASSUME SizeInv, NEW v \in Volume, Create(v)
  PROVE  \A w \in Volume : SizeOK(w)'
<1>1. /\ vol[v].cs = "absent" /\ UNCHANGED <<lv, nr>>
      /\ vol' = [vol EXCEPT ![v].cs = "Creating", ![v].size = AlignSizeByPE(Size[v])]
  BY DEF Create
<1>2. /\ \A w \in Volume \ {v} : vol'[w] = vol[w] /\ rq'[w] = rq[w]
      /\ vol'[v].cs = "Creating" /\ vol'[v].prev = vol[v].prev
      /\ rq'[v].pc = "charge"
  <2>1. vol \in [Volume -> VolState] /\ rq \in [Volume -> Request]
    BY DEF SizeInv, LVGInv, TypeOK
  <2>2. \A w \in Volume \ {v} : rq'[w] = rq[w]
    BY <2>1 DEF Create
  <2>3. rq'[v].pc = "charge"
    BY <2>1 DEF Create, NoRequest
  <2> QED
    BY <1>1, <2>1, <2>2, <2>3 DEF VolState
<1>3. lv[v] = 0 /\ vol[v].prev = NoPrev /\ nr[v].pc = "idle"
  BY <1>1 DEF SizeInv, SizeOK, LVGInv, VolumeInv, VolumeOK, NodeOK, Absent
<1>4. SizeOK(v)'
  BY <1>1, <1>2, <1>3 DEF SizeInv, SizeOK
<1> QED
  BY <1>1, <1>2, <1>4, SizeStep

LEMMA OverwriteSize ==
  ASSUME SizeInv, NEW v \in Volume,
         \/ CreateTimeout(v)
         \/ NodeStageVolume(v) \/ NodeUnstageVolume(v)
         \/ NodePublishVolume(v) \/ NodeUnpublishVolume(v)
  PROVE  \A w \in Volume : SizeOK(w)'
<1>1. TypeOK
  BY DEF SizeInv, LVGInv
<1>2. PICK cs \in Usable \cup {"Failed"} :
        /\ vol' = [vol EXCEPT ![v].cs = cs]
        /\ rq' = Stale(rq, v) /\ nr' = Stale(nr, v) /\ UNCHANGED lv
  BY DEF CreateTimeout, NodeStageVolume, NodeUnstageVolume, NodePublishVolume,
         NodeUnpublishVolume, SetStatus, Usable
<1>3. vol[v].cs # "Resizing"
  BY DEF CreateTimeout, NodeStageVolume, NodeUnstageVolume, NodePublishVolume,
         NodeUnpublishVolume
<1>4. cs \in CSIStatus
  BY DEF CSIStatus
<1>5. /\ \A w \in Volume \ {v} : vol'[w] = vol[w]
      /\ vol'[v].cs = cs /\ vol'[v].size = vol[v].size /\ vol'[v].prev = vol[v].prev
  BY <1>1, <1>2, <1>4, StatusType
<1>6. cs \notin {"absent", "Resized"}
  BY DEF Usable
<1>7. /\ \A w \in Volume \ {v} : nr'[w] = nr[w] /\ rq'[w] = rq[w]
      /\ nr'[v].pc = nr[v].pc /\ nr'[v].cs = nr[v].cs
      /\ rq'[v].pc = rq[v].pc /\ rq'[v].bytes = rq[v].bytes
  BY <1>1, <1>2, StaleRequest, StaleNode
<1> QED
  BY <1>2, <1>3, <1>5, <1>6, <1>7, StatusSize

LEMMA DeleteStartSize ==
  ASSUME SizeInv, NEW v \in Volume, DeleteStart(v)
  PROVE  \A w \in Volume : SizeOK(w)'
<1>1. TypeOK
  BY DEF SizeInv, LVGInv
<1>2. /\ rq'[v].pc = "wait" /\ UNCHANGED lv
      /\ \A w \in Volume \ {v} : rq'[w] = rq[w]
  BY <1>1 DEF DeleteStart, TypeOK, NoRequest
<1>3. CASE vol[v].cs # "Created"
  <2>1. UNCHANGED <<vol, nr>>
    BY <1>3 DEF DeleteStart
  <2> QED
    BY <1>2, <2>1, SizeGoesOn DEF SizeInv, SizeOK
<1>4. CASE vol[v].cs = "Created"
  <2>1. vol' = [vol EXCEPT ![v].cs = "Removing"] /\ nr' = Stale(nr, v)
    BY <1>4 DEF DeleteStart
  <2>2. /\ \A w \in Volume \ {v} : vol'[w] = vol[w]
        /\ vol'[v].cs = "Removing" /\ vol'[v].size = vol[v].size
        /\ vol'[v].prev = vol[v].prev
    BY <1>1, <2>1, StatusType DEF CSIStatus
  <2> QED
    BY <1>1, <1>2, <1>4, <2>1, <2>2, StaleNode, StatusSize
<1> QED
  BY <1>3, <1>4

LEMMA DeleteVolumeCRSize ==
  ASSUME SizeInv, NEW v \in Volume, DeleteVolumeCR(v)
  PROVE  \A w \in Volume : SizeOK(w)'
<1>1. TypeOK
  BY DEF SizeInv, LVGInv
<1>2. /\ rq'[v].pc = "idle" /\ UNCHANGED lv
      /\ \A w \in Volume \ {v} : rq'[w] = rq[w]
  BY <1>1, ConstantTypes DEF DeleteVolumeCR, TypeOK
<1>3. CASE ~Exists(v)
  <2>1. UNCHANGED <<vol, nr>>
    BY <1>3 DEF DeleteVolumeCR
  <2> QED
    BY <1>2, <2>1, SizeGoesOn DEF SizeInv, SizeOK
<1>4. CASE Exists(v)
  <2>1. vol' = [vol EXCEPT ![v].deleting = TRUE] /\ nr' = Stale(nr, v)
    BY <1>4 DEF DeleteVolumeCR
  <2>2. /\ \A w \in Volume \ {v} : vol'[w] = vol[w]
        /\ vol'[v].cs = vol[v].cs /\ vol'[v].size = vol[v].size
        /\ vol'[v].prev = vol[v].prev
    BY <1>1, <2>1 DEF TypeOK, VolState
  <2>3. vol[v].cs # "absent"
    BY <1>4 DEF Exists, Absent
  <2> QED
    BY <1>1, <1>2, <2>1, <2>2, <2>3, StaleNode, StatusSize
<1> QED
  BY <1>3, <1>4

\* Requests that leave the Volume alone.
LEMMA RequestSize ==
  ASSUME SizeInv, NEW v \in Volume,
         \/ DeleteCredit(v) \/ DeleteUpdateLVG(v) \/ ExpandReserve(v)
         \/ ExpandCredit(v) \/ CreateCharge(v) \/ GiveUp(v) \/ RequestFails(v)
  PROVE  \A w \in Volume : SizeOK(w)'
<1>1. rq \in [Volume -> Request] /\ rq[v] \in Request
  BY DEF SizeInv, LVGInv, TypeOK
<1>2. UNCHANGED <<vol, lv, nr>>
  BY DEF DeleteCredit, DeleteUpdateLVG, ExpandReserve, ExpandCredit, CreateCharge, GiveUp,
         RequestFails
<1>3. /\ \A w \in Volume \ {v} : rq'[w] = rq[w]
      /\ rq'[v].pc = "mark" => rq[v].pc = "reserve" /\ rq'[v].bytes = rq[v].bytes
      /\ rq'[v].pc # "reserve"
  <2>1. CASE DeleteCredit(v)
    BY <1>1, <2>1 DEF DeleteCredit, Request
  <2>2. CASE DeleteUpdateLVG(v)
    BY <1>1, <2>2, ConstantTypes DEF DeleteUpdateLVG, Request
  <2>3. CASE ExpandReserve(v)
    BY <1>1, <2>3, ConstantTypes DEF ExpandReserve, Request
  <2>4. CASE ExpandCredit(v)
    BY <1>1, <2>4 DEF ExpandCredit, Request
  <2>5. CASE CreateCharge(v) \/ GiveUp(v) \/ RequestFails(v)
    BY <1>1, <2>5, ConstantTypes DEF CreateCharge, GiveUp, RequestFails
  <2> QED
    BY <2>1, <2>2, <2>3, <2>4, <2>5
<1> QED
  BY <1>2, <1>3, SizeGoesOn DEF SizeInv, SizeOK

LEMMA ExpandStartSize ==
  ASSUME SizeInv, NEW v \in Volume, ExpandStart(v)
  PROVE  \A w \in Volume : SizeOK(w)'
<1>1. rq \in [Volume -> Request]
  BY DEF SizeInv, LVGInv, TypeOK
<1>2. /\ UNCHANGED <<vol, lv, nr>> /\ rq'[v].bytes \in AskedSizes
      /\ \A w \in Volume \ {v} : rq'[w] = rq[w]
  BY <1>1 DEF ExpandStart, AskedSizes, NoRequest
<1> QED
  BY <1>2, SizeGoesOn DEF SizeInv, SizeOK

\* A Volume that still has its earlier size recorded has the one size that can
\* be asked for, and no request marks it again.
LEMMA ExpandMarkSize ==
  ASSUME SizeInv, NEW v \in Volume, ExpandMark(v)
  PROVE  \A w \in Volume : SizeOK(w)'
<1>1. /\ rq \in [Volume -> Request] /\ rq[v] \in Request
      /\ vol \in [Volume -> VolState] /\ vol[v] \in VolState
      /\ lv[v] \in Nat /\ TypeOK
  BY DEF SizeInv, LVGInv, TypeOK
<1>2. rq[v].pc = "mark" /\ UNCHANGED lv
  BY DEF ExpandMark
<1>3. CASE ~rq[v].fresh
  <2>1. UNCHANGED <<vol, nr>> /\ rq' = [rq EXCEPT ![v] = NoRequest]
    BY <1>3 DEF ExpandMark
  <2>2. rq'[v].pc = "idle" /\ \A w \in Volume \ {v} : rq'[w] = rq[w]
    BY <1>1, <2>1, ConstantTypes
  <2> QED
    BY <1>2, <2>1, <2>2, SizeGoesOn DEF SizeInv, SizeOK
<1>4. CASE rq[v].fresh
  <2>1. /\ vol' = [vol EXCEPT ![v].cs = "Resizing", ![v].size = rq[v].bytes,
                              ![v].prev = rq[v].seen]
        /\ nr' = Stale(nr, v) /\ rq' = [rq EXCEPT ![v].pc = "wait"]
    BY <1>4 DEF ExpandMark
  <2>2. /\ vol'[v].cs = "Resizing" /\ vol'[v].size = rq[v].bytes
        /\ vol'[v].prev = rq[v].seen
        /\ \A w \in Volume \ {v} : vol'[w] = vol[w]
    BY <1>1, <2>1 DEF VolState
  <2>3. rq'[v].pc = "wait" /\ \A w \in Volume \ {v} : rq'[w] = rq[w]
    BY <1>1, <2>1 DEF Request
  <2>4. /\ rq[v].seen.cs \in Usable /\ rq[v].seen.size = vol[v].size
        /\ rq[v].seen.cs = vol[v].cs /\ rq[v].bytes > rq[v].seen.size
    BY <1>2, <1>4 DEF SizeInv, LVGInv, VolumeInv, RequestOK
  <2>5. rq[v].bytes \in AskedSizes
    BY <1>2 DEF SizeInv, SizeOK
  <2>6. rq[v].bytes \in Nat /\ vol[v].size \in Nat
    BY <1>1 DEF Request, VolState
  <2>7. vol[v].prev = NoPrev
    <3> SUFFICES ASSUME vol[v].prev # NoPrev PROVE FALSE
      OBVIOUS
    <3>1. vol[v].size \in AskedSizes
      BY DEF SizeInv, SizeOK
    <3>2. vol[v].size = rq[v].bytes
      BY <2>5, <3>1 DEF AskedSizes, OneSizeAsked, SizeInv
    <3> QED
      BY <2>4, <2>6, <3>2
  <2>8. lv[v] # 0 => vol[v].size <= lv[v]
    BY <2>7 DEF SizeInv, SizeOK
  <2>9. rq[v].seen # NoPrev
    BY <2>4 DEF NoPrev, Usable
  <2>10. nr[v].pc = "update" => nr[v].cs # "Resized"
    BY <2>4 DEF SizeInv, SizeOK, Usable
  <2>11. SizeOK(v)'
    BY <1>1, <1>2, <2>1, <2>2, <2>3, <2>4, <2>5, <2>8, <2>9, <2>10, StaleNode DEF SizeOK
  <2> QED
    BY <1>1, <1>2, <2>1, <2>2, <2>3, <2>11, StaleNode, SizeStep
<1> QED
  BY <1>3, <1>4

LEMMA ExpandRestoreSize ==
  ASSUME SizeInv, NEW v \in Volume, ExpandRestore(v)
  PROVE  \A w \in Volume : SizeOK(w)'
<1>1. /\ rq \in [Volume -> Request] /\ vol \in [Volume -> VolState]
      /\ vol[v] \in VolState /\ TypeOK
  BY DEF SizeInv, LVGInv, TypeOK
<1>2. rq[v].pc = "restore" /\ UNCHANGED lv /\ rq' = [rq EXCEPT ![v] = NoRequest]
  BY DEF ExpandRestore
<1>3. rq'[v].pc = "idle" /\ \A w \in Volume \ {v} : rq'[w] = rq[w]
  BY <1>1, <1>2, ConstantTypes
<1>4. CASE ~rq[v].fresh
  <2>1. UNCHANGED <<vol, nr>>
    BY <1>4 DEF ExpandRestore
  <2> QED
    BY <1>2, <1>3, <2>1, SizeGoesOn DEF SizeInv, SizeOK
<1>5. CASE rq[v].fresh
  <2>1. \/ vol[v].cs = "Failed" /\ vol[v].prev # NoPrev
        \/ vol[v].cs = "Resized"
    BY <1>2, <1>5 DEF SizeInv, LVGInv, VolumeInv, RequestOK
  <2>2. /\ nr' = Stale(nr, v)
        /\ vol' = [vol EXCEPT
               ![v].size = IF vol[v].cs = "Failed" THEN vol[v].prev.size ELSE @,
               ![v].cs = IF vol[v].cs = "Resized" /\ vol[v].prev # NoPrev
                         THEN vol[v].prev.cs ELSE @,
               ![v].prev = NoPrev]
    BY <1>5 DEF ExpandRestore
  <2>3. /\ \A w \in Volume \ {v} : vol'[w] = vol[w]
        /\ vol'[v].prev = NoPrev
        /\ vol[v].cs = "Failed" =>
             vol'[v].size = vol[v].prev.size /\ vol'[v].cs = "Failed"
        /\ vol[v].cs = "Resized" =>
             /\ vol'[v].size = vol[v].size
             /\ vol'[v].cs \in {"Resized", vol[v].prev.cs}
             /\ vol[v].prev = NoPrev => vol'[v].cs = "Resized"
    BY <1>1, <2>2 DEF VolState
  <2>4. vol[v].prev # NoPrev => vol[v].prev.cs \in Usable
    BY DEF SizeInv, LVGInv, VolumeInv, VolumeOK
  <2>5. vol'[v].cs # "absent"
    BY <2>1, <2>3, <2>4 DEF Usable
  <2>6. lv[v] # 0 => vol'[v].size <= lv[v]
    BY <2>1, <2>3 DEF SizeInv, SizeOK
  <2>7. vol'[v].cs = "Resized" /\ lv[v] # 0 => vol'[v].size <= lv[v]
    BY <2>1, <2>3 DEF SizeInv, SizeOK
  <2>8. ~(nr[v].pc = "work" /\ nr[v].cs = "Resizing")
        /\ ~(nr[v].pc = "update" /\ nr[v].cs = "Resized")
    BY <2>1 DEF SizeInv, SizeOK
  <2>9. SizeOK(v)'
    BY <1>1, <1>2, <1>3, <2>2, <2>3, <2>5, <2>6, <2>7, <2>8, StaleNode DEF SizeOK
  <2> QED
    BY <1>1, <1>2, <1>3, <2>2, <2>3, <2>9, StaleNode, SizeStep
<1> QED
  BY <1>4, <1>5

LEMMA ReconcileReadSize ==
  ASSUME SizeInv, NEW v \in Volume, ReconcileRead(v)
  PROVE  \A w \in Volume : SizeOK(w)'
<1>1. /\ UNCHANGED <<vol, lv, rq>>
      /\ nr'[v].pc = "work" /\ nr'[v].cs \in {vol[v].cs, "Removing"}
      /\ \A w \in Volume \ {v} : nr'[w] = nr[w]
  BY ReconcileReads DEF ReconcileRead, SizeInv, LVGInv
<1>2. SizeOK(v)'
  BY <1>1 DEF SizeInv, SizeOK
<1> QED
  BY <1>1, <1>2, SizeStep

\* lvcreate makes an LV of the size the Volume has; without an LV there was no
\* expansion.  An LV that exists stays, and is large enough.
LEMMA WorkCreateSize ==
  ASSUME SizeInv, NEW v \in Volume, WorkCreate(v)
  PROVE  \A w \in Volume : SizeOK(w)'
<1>1. TypeOK /\ lv \in [Volume -> Nat] /\ vol[v].size \in Nat
      /\ vol[v].prev.size \in Nat
  BY DEF SizeInv, LVGInv, TypeOK, VolState
<1>2. nr[v].pc = "work" /\ nr[v].cs = "Creating" /\ UNCHANGED vol
  BY DEF WorkCreate
<1>3. PICK cs \in {"Created", "Failed"} : Decide(v, cs)
  BY DEF WorkCreate, PrepareVolume
<1>4. cs \in CSIStatus
  BY DEF CSIStatus, Usable
<1>5. /\ \A w \in Volume \ {v} : lv'[w] = lv[w]
      /\ lv'[v] = lv[v] \/ (lv[v] = 0 /\ lv'[v] = vol[v].size)
  BY <1>1 DEF WorkCreate, PrepareVolume, LVCreate
<1>6. \A w \in Volume : rq'[w].pc = rq[w].pc /\ rq'[w].bytes = rq[w].bytes
  BY <1>1, AddVolumeRefStep DEF WorkCreate
<1>7. vol[v].cs # "absent"
  BY <1>2 DEF SizeInv, LVGInv, VolumeInv, NodeOK, Absent
<1>8. SizeOK(v)'
  BY <1>1, <1>2, <1>3, <1>4, <1>5, <1>6, <1>7, DecideStep DEF SizeInv, SizeOK
<1> QED
  BY <1>1, <1>2, <1>3, <1>4, <1>5, <1>6, <1>8, DecideStep, SizeStep

LEMMA WorkRemoveSize ==
  ASSUME SizeInv, NEW v \in Volume, WorkRemove(v)
  PROVE  \A w \in Volume : SizeOK(w)'
<1>1. TypeOK /\ lv \in [Volume -> Nat]
  BY DEF SizeInv, LVGInv, TypeOK
<1>2. nr[v].pc = "work" /\ nr[v].cs = "Removing" /\ UNCHANGED <<vol, rq>>
  BY DEF WorkRemove
<1>3. PICK cs \in {"Removed", "Failed"} : Decide(v, cs)
  BY DEF WorkRemove, ReleaseVolume
<1>4. cs \in CSIStatus
  BY DEF CSIStatus
<1>5. lv'[v] \in {0, lv[v]} /\ \A w \in Volume \ {v} : lv'[w] = lv[w]
  BY <1>1 DEF WorkRemove, ReleaseVolume, LVRemove
<1>6. SizeOK(v)'
  BY <1>1, <1>2, <1>3, <1>4, <1>5, DecideStep DEF SizeInv, SizeOK
<1> QED
  BY <1>1, <1>2, <1>3, <1>4, <1>5, <1>6, DecideStep, SizeStep

LEMMA WorkExpandSize ==
  ASSUME SizeInv, NEW v \in Volume, WorkExpand(v)
  PROVE  \A w \in Volume : SizeOK(w)'
<1>1. TypeOK /\ lv \in [Volume -> Nat] /\ vol[v].size \in Nat
      /\ vol[v].prev.size \in Nat
  BY DEF SizeInv, LVGInv, TypeOK, VolState
<1>2. nr[v].pc = "work" /\ nr[v].cs = "Resizing" /\ UNCHANGED <<vol, rq>>
  BY DEF WorkExpand
<1>3. vol[v].cs = "Resizing"
  BY <1>2 DEF SizeInv, SizeOK
<1>4. PICK cs \in {"Resized", "Failed"} :
        /\ Decide(v, cs) /\ lv' \in {lv, ExpandLV(v)}
        /\ cs = "Resized" => lv' = ExpandLV(v)
  BY DEF WorkExpand
<1>5. cs \in CSIStatus
  BY DEF CSIStatus
<1>6. /\ lv'[v] \in {lv[v], vol[v].size} /\ \A w \in Volume \ {v} : lv'[w] = lv[w]
      /\ cs = "Resized" => lv'[v] = vol[v].size
  BY <1>1, <1>4 DEF ExpandLV
<1>7. SizeOK(v)'
  BY <1>1, <1>2, <1>3, <1>4, <1>5, <1>6, DecideStep DEF SizeInv, SizeOK
<1> QED
  BY <1>1, <1>2, <1>4, <1>5, <1>6, <1>7, DecideStep, SizeStep

LEMMA ReconcileUpdateSize ==
  ASSUME SizeInv, NEW v \in Volume, ReconcileUpdate(v)
  PROVE  \A w \in Volume : SizeOK(w)'
<1>1. TypeOK
  BY DEF SizeInv, LVGInv
<1>2. /\ nr[v].pc = "update" /\ UNCHANGED lv
      /\ nr'[v].pc = "idle" /\ \A w \in Volume \ {v} : nr'[w] = nr[w]
  BY <1>1, ConstantTypes DEF ReconcileUpdate, TypeOK
<1>3. CASE ~nr[v].fresh
  BY <1>2, <1>3, SizeGoesOn DEF ReconcileUpdate, SizeInv, SizeOK
<1>4. CASE nr[v].fresh
  <2>1. vol' = [vol EXCEPT ![v].cs = nr[v].cs] /\ rq' = Stale(rq, v)
    BY <1>4 DEF ReconcileUpdate
  <2>2. nr[v].cs \in CSIStatus /\ nr[v].cs # "absent"
    BY <1>2 DEF SizeInv, LVGInv, VolumeInv, NodeOK, CSIStatus, Usable
  <2>3. /\ \A w \in Volume \ {v} : vol'[w] = vol[w]
        /\ vol'[v].cs = nr[v].cs /\ vol'[v].size = vol[v].size
        /\ vol'[v].prev = vol[v].prev
    BY <1>1, <2>1, <2>2, StatusType
  <2>4. /\ \A w \in Volume \ {v} : rq'[w] = rq[w]
        /\ rq'[v].pc = rq[v].pc /\ rq'[v].bytes = rq[v].bytes
    BY <1>1, <2>1, StaleRequest
  <2>5. SizeOK(v)'
    BY <1>2, <2>2, <2>3, <2>4 DEF SizeInv, SizeOK
  <2> QED
    BY <1>2, <2>3, <2>4, <2>5, SizeStep
<1> QED
  BY <1>3, <1>4

LEMMA RemoveFinalizerSize ==
  ASSUME SizeInv, NEW v \in Volume, RemoveFinalizer(v)
  PROVE  \A w \in Volume : SizeOK(w)'
<1>1. TypeOK
  BY DEF SizeInv, LVGInv
<1>2. /\ UNCHANGED <<lv, nr>> /\ nr[v].pc = "idle" /\ rq' = Stale(rq, v)
      /\ vol' = [vol EXCEPT ![v].cs = "gone", ![v].deleting = FALSE]
  BY DEF RemoveFinalizer
<1>3. /\ \A w \in Volume \ {v} : vol'[w] = vol[w]
      /\ vol'[v].cs = "gone" /\ vol'[v].size = vol[v].size
      /\ vol'[v].prev = vol[v].prev
  BY <1>1, <1>2 DEF TypeOK, VolState
<1> QED
  BY <1>1, <1>2, <1>3, StaleRequest, StatusSize

LEMMA DeleteVolumeObjectSize ==
  ASSUME SizeInv, NEW v \in Volume, DeleteVolumeObject(v)
  PROVE  \A w \in Volume : SizeOK(w)'
<1>1. TypeOK
  BY DEF SizeInv, LVGInv
<1>2. /\ vol[v].cs # "absent" /\ UNCHANGED lv /\ rq' = Stale(rq, v) /\ nr' = Stale(nr, v)
      /\ vol' = [vol EXCEPT ![v].deleting = TRUE]
  BY DEF DeleteVolumeObject, Exists, Absent
<1>3. /\ \A w \in Volume \ {v} : vol'[w] = vol[w]
      /\ vol'[v].cs = vol[v].cs /\ vol'[v].size = vol[v].size
      /\ vol'[v].prev = vol[v].prev
  BY <1>1, <1>2 DEF TypeOK, VolState
<1> QED
  BY <1>1, <1>2, <1>3, StaleRequest, StaleNode, StatusSize

\* Restarts, and what the LVG controller does.
LEMMA GroupSize ==
  ASSUME SizeInv, \/ Restart \/ NodeRestart \/ LvgReconcile
                  \/ ResetACSizeOfLVG \/ DeleteFailedLVG
  PROVE  \A v \in Volume : SizeOK(v)'
<1>1. /\ UNCHANGED vol
      /\ nr' = nr \/ nr' = [v \in Volume |-> NoWork]
  BY DEF Restart, NodeRestart, LvgReconcile, ResetACSizeOfLVG, DeleteFailedLVG,
         AppendFinalizer, CreatePV, CreateVG, HandlerLVGCreation, HandleLVGRemoving,
         HandleLVGRemovingPanics, CheckLVs, RemoveVG, RemovePV, RemoveLVGFinalizer
<1>2. \A v \in Volume : lv'[v] \in {0, lv[v]}
  <2>1. CASE RemoveVG
    BY <2>1, RemoveVGInv DEF SizeInv
  <2>2. CASE ~RemoveVG
    BY <2>2
    DEF Restart, NodeRestart, LvgReconcile, ResetACSizeOfLVG, DeleteFailedLVG,
        AppendFinalizer, CreatePV, CreateVG, HandlerLVGCreation, HandleLVGRemoving,
        HandleLVGRemovingPanics, CheckLVs, RemovePV, RemoveLVGFinalizer
  <2> QED
    BY <2>1, <2>2
<1>3. \A v \in Volume : nr'[v] = nr[v] \/ nr'[v].pc = "idle"
  BY <1>1, ConstantTypes
<1>4. \A v \in Volume : rq'[v].pc \in {"reserve", "mark"} =>
        rq'[v].pc = rq[v].pc /\ rq'[v].bytes = rq[v].bytes
  <2>1. CASE ResetACSizeOfLVG
    BY <2>1, ResetACStep DEF SizeInv, LVGInv
  <2>2. CASE ~ResetACSizeOfLVG
    <3>1. rq' = rq \/ rq' = [v \in Volume |-> NoRequest]
      BY <2>2
      DEF Restart, NodeRestart, LvgReconcile, DeleteFailedLVG,
          AppendFinalizer, CreatePV, CreateVG, HandlerLVGCreation, HandleLVGRemoving,
          HandleLVGRemovingPanics, CheckLVs, RemoveVG, RemovePV, RemoveLVGFinalizer
    <3> QED
      BY <3>1, ConstantTypes
  <2> QED
    BY <2>1, <2>2
<1> QED
  BY <1>1, <1>2, <1>3, <1>4, SizeGoesOn DEF SizeInv, SizeOK

LEMMA NextSize == SizeInv /\ [Next]_vars => SizeInv'
<1> SUFFICES ASSUME SizeInv, [Next]_vars
             PROVE  \A v \in Volume : SizeOK(v)'
  BY NextInv DEF SizeInv, OneSizeAsked
<1>1. ASSUME NEW v \in Volume, ControllerNext(v)
      PROVE  \A w \in Volume : SizeOK(w)'
  BY <1>1, CreateSize, OverwriteSize, DeleteStartSize, DeleteVolumeCRSize, RequestSize,
     ExpandStartSize, ExpandMarkSize, ExpandRestoreSize
  DEF ControllerNext, DeleteStep, ExpandStep
<1>2. ASSUME NEW v \in Volume, NodeNext(v)
      PROVE  \A w \in Volume : SizeOK(w)'
  BY <1>2, ReconcileReadSize, WorkCreateSize, WorkRemoveSize, WorkExpandSize,
     ReconcileUpdateSize, RemoveFinalizerSize, OverwriteSize
  DEF NodeNext, Work
<1>3. CASE UNCHANGED vars
  BY <1>3 DEF vars, SizeInv, SizeOK
<1> QED
  BY <1>1, <1>2, <1>3, GroupSize, DeleteVolumeObjectSize DEF Next

\* A Volume with an LV says a size the LV has, or, from ExpandVolume's mark until
\* UpdateCRsAfterVolumeExpansion has restored it, records one: whatever fails,
\* restarts or is written in between, and although the volume is staged again, as
\* long as the requests to expand ask for one size after rounding.  (With two sizes
\* a Volume may record one that its LV has never had.)
THEOREM SizeReal == OneSizeAsked /\ Spec => []SizeIsReal
<1>1. OneSizeAsked /\ Init => SizeInv
  BY InitInv, InitSize DEF SizeInv
<1>2. SizeInv => SizeIsReal
  BY DEF SizeInv, SizeOK, SizeIsReal, KnownSize
<1> QED
  BY <1>1, <1>2, NextSize, PTL DEF Spec

-----------------------------------------------------------------------------
(* Sums over the volumes                                                   *)

\* What the fold of the library computes for every set of volumes: the function
\* that satisfies its recursive equation, if there is one.
AddOne(space, sums, s) ==
  IF s = {} THEN 0
  ELSE LET v == CHOOSE v \in s : TRUE IN space[v] + sums[s \ {v}]

Sums(space) == CHOOSE sums : sums = [s \in SUBSET Volume |-> AddOne(space, sums, s)]

SumsUpTo(space, sums, top) == \A s \in SUBSET top : sums[s] = AddOne(space, sums, s)

\* Among sets of volumes there are smallest ones: induction over finite sets.
LEMMA SmallestSet ==
  ASSUME NEW T, T \subseteq SUBSET Volume, T # {}
  PROVE  \E s \in T : \A r \in T : ~(r \subseteq s /\ r # s)
<1>1. IsWellFoundedOn(StrictSubsetOrdering(Volume), SUBSET Volume)
  BY LVGVolumesAssumption, FS_FiniteSubsetsOfFinite, FS_StrictSubsetOrderingWellFounded
<1>2. \E s \in T : \A r \in T : <<r, s>> \notin StrictSubsetOrdering(Volume)
  BY <1>1, WFMin
<1> QED
  BY <1>2 DEF StrictSubsetOrdering

\* The equation leaves no choice.
LEMMA SumsUnique ==
  ASSUME NEW space, NEW top, NEW top2, NEW sums, NEW sums2,
         top \subseteq Volume, top2 \subseteq Volume,
         SumsUpTo(space, sums, top), SumsUpTo(space, sums2, top2),
         NEW s, s \subseteq top, s \subseteq top2
  PROVE  sums[s] = sums2[s]
<1> DEFINE Bad == {r \in SUBSET Volume : r \subseteq top /\ r \subseteq top2
                                         /\ sums[r] # sums2[r]}
<1> SUFFICES ASSUME Bad # {} PROVE FALSE
  OBVIOUS
<1>1. PICK b \in Bad : \A r \in Bad : ~(r \subseteq b /\ r # b)
  <2>1. Bad \subseteq SUBSET Volume
    OBVIOUS
  <2> HIDE DEF Bad
  <2> QED
    BY <2>1, SmallestSet
<1>2. /\ sums[b] = AddOne(space, sums, b) /\ sums2[b] = AddOne(space, sums2, b)
      /\ sums[b] # sums2[b] /\ b \subseteq top /\ b \subseteq top2 /\ b \subseteq Volume
  BY <1>1 DEF SumsUpTo
<1>3. b # {}
  BY <1>2 DEF AddOne
<1> DEFINE v == CHOOSE v \in b : TRUE
<1>4. v \in b
  BY <1>3
<1>5. sums[b \ {v}] = sums2[b \ {v}]
  BY <1>1, <1>2, <1>4
<1> QED
  BY <1>2, <1>3, <1>5 DEF AddOne

\* It has a solution for every set of volumes.
LEMMA SumsExist ==
  ASSUME NEW space, NEW top \in SUBSET Volume
  PROVE  \E sums : SumsUpTo(space, sums, top)
<1> DEFINE Bad == {s \in SUBSET Volume : ~\E sums : SumsUpTo(space, sums, s)}
<1> SUFFICES ASSUME Bad # {} PROVE FALSE
  OBVIOUS
<1>1. PICK b \in Bad : \A r \in Bad : ~(r \subseteq b /\ r # b)
  <2>1. Bad \subseteq SUBSET Volume
    OBVIOUS
  <2> HIDE DEF Bad
  <2> QED
    BY <2>1, SmallestSet
<1> DEFINE Some(r) == CHOOSE sums : SumsUpTo(space, sums, r)
           value(r) == Some(r)[r]
           v(s) == CHOOSE w \in s : TRUE
           h == [s \in SUBSET b |-> IF s = {} THEN 0 ELSE space[v(s)] + value(s \ {v(s)})]
<1>2. b \subseteq Volume
  BY <1>1
<1>3. ASSUME NEW r, r \subseteq b, r # b
      PROVE  SumsUpTo(space, Some(r), r)
  <2>1. \E sums : SumsUpTo(space, sums, r)
    BY <1>1, <1>2, <1>3
  <2> QED
    BY <2>1
<1>4. ASSUME NEW r, r \subseteq b, r # b
      PROVE  h[r] = value(r)
  <2>1. value(r) = AddOne(space, Some(r), r)
    BY <1>3, <1>4 DEF SumsUpTo
  <2>2. CASE r = {}
    BY <2>1, <2>2, <1>4 DEF AddOne
  <2>3. CASE r # {}
    <3>1. v(r) \in r
      BY <2>3
    <3>2. h[r] = space[v(r)] + value(r \ {v(r)})
      BY <1>4, <2>3
    <3>3. value(r) = space[v(r)] + Some(r)[r \ {v(r)}]
      BY <2>1, <2>3 DEF AddOne
    <3> DEFINE r2 == r \ {v(r)}
    <3>4. r2 \subseteq b /\ r2 # b /\ r2 \subseteq r /\ r \subseteq Volume
          /\ r2 \subseteq Volume
      BY <1>2, <1>4, <3>1
    <3>5. SumsUpTo(space, Some(r), r) /\ SumsUpTo(space, Some(r2), r2)
      BY <1>3, <1>4, <3>4
    <3> HIDE DEF Some
    <3>6. Some(r)[r2] = Some(r2)[r2]
      BY <3>4, <3>5, SumsUnique
    <3> QED
      BY <3>2, <3>3, <3>6
  <2> QED
    BY <2>2, <2>3
<1>5. ASSUME NEW s \in SUBSET b
      PROVE  h[s] = AddOne(space, h, s)
  <2>1. CASE s = {}
    BY <2>1 DEF AddOne
  <2>2. CASE s # {}
    <3>1. v(s) \in s
      BY <2>2
    <3>2. h[s] = space[v(s)] + value(s \ {v(s)})
      BY <2>2
    <3>3. s \ {v(s)} \subseteq b /\ s \ {v(s)} # b
      BY <3>1
    <3>4. h[s \ {v(s)}] = value(s \ {v(s)})
      BY <1>4, <3>3
    <3> HIDE DEF h, value
    <3> QED
      BY <2>2, <3>2, <3>4 DEF AddOne
  <2> QED
    BY <2>1, <2>2
<1>6. SumsUpTo(space, h, b)
  BY <1>5 DEF SumsUpTo
<1> QED
  BY <1>1, <1>6

LEMMA SumsDef ==
  ASSUME NEW space, NEW s \in SUBSET Volume
  PROVE  Sums(space)[s] = AddOne(space, Sums(space), s)
<1>1. PICK sums : SumsUpTo(space, sums, Volume)
  BY SumsExist
<1> DEFINE h == [r \in SUBSET Volume |-> sums[r]]
<1>2. ASSUME NEW r \in SUBSET Volume
      PROVE  h[r] = AddOne(space, h, r)
  <2>1. h[r] = AddOne(space, sums, r)
    BY <1>1 DEF SumsUpTo
  <2>2. r # {} => r \ {CHOOSE v \in r : TRUE} \in SUBSET Volume
    OBVIOUS
  <2>3. AddOne(space, sums, r) = AddOne(space, h, r)
    BY <2>2 DEF AddOne
  <2> QED
    BY <2>1, <2>3
<1>3. h = [r \in SUBSET Volume |-> h[r]]
  OBVIOUS
<1>4. h = [r \in SUBSET Volume |-> AddOne(space, h, r)]
  <2> HIDE DEF h
  <2> QED
    BY <1>2, <1>3
<1>5. Sums(space) = [r \in SUBSET Volume |-> AddOne(space, Sums(space), r)]
  <2> HIDE DEF h
  <2> QED
    BY <1>4, Zenon DEF Sums
<1> QED
  BY <1>5

LEMMA TotalIsSum ==
  ASSUME NEW space
  PROVE  Total(space) = Sums(space)[Volume]
BY DEF Total, MapThenSumSet, MapThenFoldSet, Sums, AddOne

LEMMA SumsType ==
  ASSUME NEW space \in [Volume -> Int], NEW s \in SUBSET Volume
  PROVE  Sums(space)[s] \in Int
<1> DEFINE Bad == {r \in SUBSET Volume : Sums(space)[r] \notin Int}
<1> SUFFICES ASSUME Bad # {} PROVE FALSE
  OBVIOUS
<1>1. PICK b \in Bad : \A r \in Bad : ~(r \subseteq b /\ r # b)
  <2>1. Bad \subseteq SUBSET Volume
    OBVIOUS
  <2> HIDE DEF Bad
  <2> QED
    BY <2>1, SmallestSet
<1>2. b \in SUBSET Volume /\ Sums(space)[b] = AddOne(space, Sums(space), b)
  BY <1>1, SumsDef
<1> DEFINE v == CHOOSE v \in b : TRUE
<1>3. b # {}
  BY <1>1, <1>2 DEF AddOne
<1>4. v \in b /\ v \in Volume
  BY <1>2, <1>3
<1>5. Sums(space)[b \ {v}] \in Int /\ space[v] \in Int
  BY <1>1, <1>2, <1>4
<1>6. Sums(space)[b] = space[v] + Sums(space)[b \ {v}]
  BY <1>2, <1>3 DEF AddOne
<1> QED
  BY <1>1, <1>5, <1>6

\* When only volume v may need more, the sum grows by no more than that.
LEMMA SumsStep ==
  ASSUME NEW space \in [Volume -> Int], NEW space2 \in [Volume -> Int], NEW v \in Volume,
         \A w \in Volume \ {v} : space2[w] <= space[w],
         NEW s \in SUBSET Volume
  PROVE  Sums(space2)[s] <=
           Sums(space)[s] + (IF v \in s THEN space2[v] - space[v] ELSE 0)
<1> DEFINE more(r) == IF v \in r THEN space2[v] - space[v] ELSE 0
           Bad == {r \in SUBSET Volume : ~(Sums(space2)[r] <= Sums(space)[r] + more(r))}
<1> SUFFICES ASSUME Bad # {} PROVE FALSE
  OBVIOUS
<1>1. PICK b \in Bad : \A r \in Bad : ~(r \subseteq b /\ r # b)
  <2>1. Bad \subseteq SUBSET Volume
    OBVIOUS
  <2> HIDE DEF Bad
  <2> QED
    BY <2>1, SmallestSet
<1>2. /\ b \in SUBSET Volume
      /\ Sums(space)[b] = AddOne(space, Sums(space), b)
      /\ Sums(space2)[b] = AddOne(space2, Sums(space2), b)
  BY <1>1, SumsDef
<1> DEFINE x == CHOOSE y \in b : TRUE
           r == b \ {x}
<1>3. b # {}
  <2> SUFFICES ASSUME b = {} PROVE FALSE
    OBVIOUS
  <2>1. Sums(space)[b] = 0 /\ Sums(space2)[b] = 0 /\ more(b) = 0
    BY <1>2 DEF AddOne
  <2> HIDE DEF more
  <2> QED
    BY <1>1, <2>1
<1>4. x \in b /\ x \in Volume
  BY <1>2, <1>3
<1>5. Sums(space2)[r] <= Sums(space)[r] + more(r)
  BY <1>1, <1>2, <1>4
<1>6. /\ Sums(space)[b] = space[x] + Sums(space)[r]
      /\ Sums(space2)[b] = space2[x] + Sums(space2)[r]
  BY <1>2, <1>3 DEF AddOne
<1>7. /\ Sums(space)[r] \in Int /\ Sums(space2)[r] \in Int
      /\ space[x] \in Int /\ space2[x] \in Int /\ space[v] \in Int /\ space2[v] \in Int
  BY <1>2, <1>4, SumsType
<1>8. space2[x] + more(r) <= space[x] + more(b)
  <2>1. CASE x = v
    <3>1. v \in b /\ v \notin r
      BY <1>4, <2>1
    <3>2. more(r) = 0 /\ more(b) = space2[x] - space[x]
      BY <2>1, <3>1
    <3> HIDE DEF more, r, x
    <3> QED
      BY <1>7, <3>2
  <2>2. CASE x # v
    <3>1. more(r) = more(b) /\ more(b) \in Int
      BY <1>4, <1>7, <2>2
    <3>2. space2[x] <= space[x]
      BY <1>4, <2>2
    <3> HIDE DEF more
    <3> QED
      BY <1>7, <3>1, <3>2
  <2> QED
    BY <2>1, <2>2
<1>9. more(r) \in Int /\ more(b) \in Int
  BY <1>7
<1> HIDE DEF more, r, x
<1>10. Sums(space2)[b] <= Sums(space)[b] + more(b)
  BY <1>5, <1>6, <1>7, <1>8, <1>9
<1> QED
  BY <1>1, <1>10 DEF more

LEMMA TotalType ==
  ASSUME NEW space \in [Volume -> Int]
  PROVE  Total(space) \in Int
BY TotalIsSum, SumsType

LEMMA TotalStep ==
  ASSUME NEW space \in [Volume -> Int], NEW space2 \in [Volume -> Int], NEW v \in Volume,
         \A w \in Volume \ {v} : space2[w] <= space[w]
  PROVE  Total(space2) <= Total(space) + (space2[v] - space[v])
<1>1. Sums(space2)[Volume] <= Sums(space)[Volume] + (space2[v] - space[v])
  BY SumsStep
<1> QED
  BY <1>1, TotalIsSum

LEMMA TotalGrows ==
  ASSUME NEW space \in [Volume -> Int], NEW space2 \in [Volume -> Int],
         \A w \in Volume : space2[w] <= space[w]
  PROVE  Total(space2) <= Total(space)
<1>1. CASE Volume = {}
  <2>1. ASSUME NEW f PROVE Total(f) = 0
    BY <1>1, TotalIsSum, SumsDef DEF AddOne
  <2> QED
    BY <2>1
<1>2. CASE Volume # {}
  <2>1. PICK v \in Volume : TRUE
    BY <1>2
  <2>2. Total(space2) <= Total(space) + (space2[v] - space[v])
    BY TotalStep
  <2>3. /\ space2[v] <= space[v] /\ space[v] \in Int /\ space2[v] \in Int
        /\ Total(space) \in Int /\ Total(space2) \in Int
    BY TotalType
  <2> QED
    BY <2>2, <2>3
<1> QED
  BY <1>1, <1>2

\* Nothing is taken, nothing is owed.
LEMMA TotalOfNothing == Total([v \in Volume |-> 0]) = 0
<1> DEFINE none == [v \in Volume |-> 0]
           Bad == {s \in SUBSET Volume : Sums(none)[s] # 0}
<1>1. Bad = {}
  <2> SUFFICES ASSUME Bad # {} PROVE FALSE
    OBVIOUS
  <2>1. PICK b \in Bad : \A r \in Bad : ~(r \subseteq b /\ r # b)
    <3>1. Bad \subseteq SUBSET Volume
      OBVIOUS
    <3> HIDE DEF Bad
    <3> QED
      BY <3>1, SmallestSet
  <2>2. b \in SUBSET Volume /\ Sums(none)[b] = AddOne(none, Sums(none), b)
    BY <2>1, SumsDef
  <2>3. b # {}
    BY <2>1, <2>2 DEF AddOne
  <2> DEFINE v == CHOOSE v \in b : TRUE
  <2>4. v \in b /\ v \in Volume
    BY <2>2, <2>3
  <2>5. Sums(none)[b \ {v}] = 0
    BY <2>1, <2>2, <2>4
  <2>6. Sums(none)[b] = none[v] + Sums(none)[b \ {v}]
    BY <2>2, <2>3 DEF AddOne
  <2> QED
    BY <2>1, <2>4, <2>5, <2>6
<1> QED
  BY <1>1, TotalIsSum

-----------------------------------------------------------------------------
(* The accounting of the AC, when no pair of writes is broken up            *)

LEMMA ChargeType ==
  ASSUME TypeOK, NEW v \in Volume
  PROVE  Charge(v) \in Nat
<1>1. vol[v] \in VolState /\ rq[v] \in Request /\ lv[v] \in Nat
  BY DEF TypeOK
<1> QED
  BY <1>1 DEF Charge, VolState, Request

LEMMA ChargeTypeNext ==
  ASSUME TypeOK', NEW v \in Volume
  PROVE  Charge(v)' \in Nat
<1>1. vol'[v] \in VolState /\ rq'[v] \in Request /\ lv'[v] \in Nat
  BY DEF TypeOK
<1> QED
  BY <1>1 DEF Charge, VolState, Request

\* What is charged for the volumes is not more than what the AC has paid, or should
\* have: when one volume may be charged with more ...
LEMMA AccountStep ==
  ASSUME AccountInv, SizeInv', NEW v \in Volume,
         ac'.onLVG => ac.onLVG,
         ac'.onLVG =>
           /\ \A w \in Volume \ {v} : FitOK(w)' /\ WaitOK(w)' /\ Charge(w)' <= Charge(w)
           /\ FitOK(v)' /\ WaitOK(v)' /\ ChargeOK'
           /\ ac'.size >= 0
           /\ ac'.size + Charge(v)' + unpaid <= ac.size + Charge(v) + unpaid'
  PROVE  AccountInv'
<1> SUFFICES ASSUME ac'.onLVG
             PROVE  ac'.size + Total([w \in Volume |-> Charge(w)']) <= VGSize + unpaid'
  BY DEF AccountInv
<1> DEFINE old == [w \in Volume |-> Charge(w)]
           new == [w \in Volume |-> Charge(w)']
<1>1. TypeOK /\ TypeOK'
  BY DEF AccountInv, SizeInv, LVGInv
<1>2. old \in [Volume -> Int] /\ new \in [Volume -> Int]
  BY <1>1, ChargeType, ChargeTypeNext
<1>3. /\ \A w \in Volume \ {v} : new[w] <= old[w]
      /\ new[v] = Charge(v)' /\ old[v] = Charge(v)
  OBVIOUS
<1>4. ac.size + Total(old) <= VGSize + unpaid
  BY DEF AccountInv
<1>5. /\ ac.size \in Int /\ ac'.size \in Int /\ VGSize \in Int
      /\ unpaid \in Int /\ unpaid' \in Int
  BY <1>1, LVGVolumesAssumption DEF TypeOK
<1> HIDE DEF old, new
<1>6. Total(new) <= Total(old) + (new[v] - old[v])
  BY <1>2, <1>3, TotalStep
<1>7. Total(new) \in Int /\ Total(old) \in Int /\ new[v] \in Int /\ old[v] \in Int
  BY <1>2, TotalType
<1>8. ac'.size + new[v] + unpaid <= ac.size + old[v] + unpaid'
  BY <1>3
<1>9. ac'.size + Total(new) <= VGSize + unpaid'
  BY <1>4, <1>5, <1>6, <1>7, <1>8
<1> QED
  BY <1>9 DEF new

\* ... and when none is.
LEMMA AccountGoesOn ==
  ASSUME AccountInv, SizeInv', unpaid' = unpaid,
         ac'.onLVG => ac.onLVG,
         ac'.onLVG =>
           /\ \A w \in Volume : FitOK(w)' /\ WaitOK(w)' /\ Charge(w)' <= Charge(w)
           /\ ChargeOK'
           /\ ac'.size >= 0 /\ ac'.size <= ac.size
  PROVE  AccountInv'
<1> SUFFICES ASSUME ac'.onLVG
             PROVE  ac'.size + Total([w \in Volume |-> Charge(w)']) <= VGSize + unpaid
  BY DEF AccountInv
<1> DEFINE old == [w \in Volume |-> Charge(w)]
           new == [w \in Volume |-> Charge(w)']
<1>1. TypeOK /\ TypeOK'
  BY DEF AccountInv, SizeInv, LVGInv
<1>2. old \in [Volume -> Int] /\ new \in [Volume -> Int]
  BY <1>1, ChargeType, ChargeTypeNext
<1>3. \A w \in Volume : new[w] <= old[w]
  OBVIOUS
<1>4. ac.size + Total(old) <= VGSize + unpaid
  BY DEF AccountInv
<1>5. ac.size \in Int /\ ac'.size \in Int /\ VGSize \in Int /\ unpaid \in Int
  BY <1>1, LVGVolumesAssumption DEF TypeOK
<1> HIDE DEF old, new
<1>6. Total(new) <= Total(old) /\ Total(new) \in Int /\ Total(old) \in Int
  BY <1>2, <1>3, TotalGrows, TotalType
<1>7. ac'.size + Total(new) <= VGSize + unpaid
  BY <1>4, <1>5, <1>6
<1> QED
  BY <1>7 DEF new

\* The request that is about to take space from the AC remains the only one, and the
\* AC is not made smaller behind its back.
LEMMA ChargeKept ==
  ASSUME AccountInv, SizeInv', ac.onLVG,
         \A w \in Volume : Charging(w)' => Charging(w) /\ rq'[w].bytes = rq[w].bytes,
         ac'.size >= ac.size \/ \A w \in Volume : ~Charging(w)'
  PROVE  ChargeOK'
<1>1. TypeOK /\ TypeOK' /\ ChargeOK
  BY DEF AccountInv, SizeInv, LVGInv
<1>2. /\ ac.size \in Int /\ ac'.size \in Int
      /\ \A w \in Volume : rq[w].bytes \in Nat
  BY <1>1 DEF TypeOK, Request
<1> QED
  BY <1>1, <1>2 DEF ChargeOK

\* A volume stays, its request may end and Reconcile may be interrupted, but not
\* between two writes that belong together.
LEMMA AccountKept ==
  ASSUME AccountInv, ac.onLVG, NEW v \in Volume,
         vol'[v] = vol[v], lv'[v] = lv[v],
         \/ nr'[v] = nr[v]
         \/ nr'[v].pc = "idle" /\ (Extended(v) => vol[v].cs = "Resized"),
         \/ /\ rq'[v].pc = rq[v].pc /\ rq'[v].op = rq[v].op
            /\ rq'[v].bytes = rq[v].bytes /\ rq'[v].seen = rq[v].seen
            /\ rq'[v].fresh => rq[v].fresh
            /\ v \in cached' <=> v \in cached
         \/ /\ rq'[v].pc = "idle"
            /\ (v \in cached' <=> v \in cached) \/ (v \in cached' <=> Exists(v))
            /\ Returned(v) => Returned(v)' \/ vol[v].cs = "gone"
            /\ GivenBack(v) => GivenBack(v)' \/ vol'[v].size = vol[v].prev.size
  PROVE  FitOK(v)' /\ WaitOK(v)' /\ Charge(v)' <= Charge(v)
<1>1. FitOK(v) /\ WaitOK(v) /\ SizeOK(v) /\ RequestOK(v) /\ VolumeOK(v)
  BY DEF AccountInv, SizeInv, LVGInv, VolumeInv
<1>2. vol[v] \in VolState /\ rq[v] \in Request /\ lv[v] \in Nat
  BY DEF AccountInv, SizeInv, LVGInv, TypeOK
<1>3. ASSUME Returned(v)'
      PROVE  lv[v] = 0
  <2>1. CASE Returned(v)
    BY <1>1, <2>1 DEF FitOK
  <2>2. CASE ~Returned(v)
    <3>1. vol[v].deleting /\ Exists(v) /\ v \notin cached' /\ v \in cached
      BY <1>1, <1>3, <2>2 DEF Returned, VolumeOK, Exists
    <3> QED
      BY <1>3, <2>2, <3>1 DEF Returned
  <2> QED
    BY <2>1, <2>2
<1>4. FitOK(v)' /\ WaitOK(v)'
  <2>1. WaitOK(v)'
    BY <1>1 DEF WaitOK
  <2>2. Exists(v)' /\ v \notin cached' => vol'[v].cs = "Removed"
    BY <1>1 DEF FitOK, Exists
  <2> QED
    BY <1>1, <1>3, <2>1, <2>2 DEF FitOK, Extended
<1>5. rq[v].pc = "mark" /\ rq[v].fresh => rq[v].bytes >= vol[v].size
  BY <1>1, <1>2 DEF RequestOK, Request, VolState
<1>6. GivenBack(v) => vol[v].prev.size < vol[v].size
  BY <1>1 DEF GivenBack, WaitOK, SizeOK
<1>7. vol[v].size \in Nat /\ vol[v].prev.size \in Nat /\ rq[v].bytes \in Nat
  BY <1>2 DEF VolState, Request
<1>8. Charge(v)' <= Charge(v)
  <2>1. CASE /\ rq'[v].pc = rq[v].pc /\ rq'[v].op = rq[v].op
             /\ rq'[v].bytes = rq[v].bytes /\ rq'[v].seen = rq[v].seen
             /\ rq'[v].fresh => rq[v].fresh
             /\ v \in cached' <=> v \in cached
    <3>1. (Returned(v)' <=> Returned(v)) /\ (GivenBack(v)' <=> GivenBack(v))
      BY <2>1 DEF Returned, GivenBack
    <3> QED
      BY <1>2, <1>5, <1>7, <2>1, <3>1 DEF Charge
  <2>2. CASE /\ rq'[v].pc = "idle"
             /\ Returned(v) => Returned(v)' \/ vol[v].cs = "gone"
             /\ GivenBack(v) => GivenBack(v)' \/ vol'[v].size = vol[v].prev.size
    <3>1. ~GivenBack(v)' /\ ~GivenBack(v)
      BY <1>6, <1>7, <2>2 DEF GivenBack
    <3>2. Returned(v) /\ vol[v].cs = "gone" => lv[v] = 0
      BY <1>1 DEF FitOK
    <3> QED
      BY <1>2, <1>5, <1>7, <2>2, <3>1, <3>2 DEF Charge
  <2> QED
    BY <2>1, <2>2
<1> QED
  BY <1>4, <1>8

LEMMA InitAccount == Init /\ SizeInv => AccountInv
<1> SUFFICES ASSUME Init, SizeInv PROVE AccountInv
  OBVIOUS
<1>1. ASSUME NEW v \in Volume
      PROVE  FitOK(v) /\ WaitOK(v) /\ Charge(v) = 0 /\ ~Charging(v)
  BY ConstantTypes DEF Init, FitOK, WaitOK, Charge, Returned, Exists, Absent, Charging
<1>2. [v \in Volume |-> Charge(v)] = [v \in Volume |-> 0]
  BY <1>1
<1>3. ac.size = VGSize /\ VGSize \in Nat /\ unpaid = 0
  BY LVGVolumesAssumption DEF Init
<1> QED
  BY <1>1, <1>2, <1>3, TotalOfNothing DEF AccountInv, ChargeOK

LEMMA AccountFacts ==
  ASSUME AccountInv, ac.onLVG, NEW v \in Volume
  PROVE  /\ FitOK(v) /\ WaitOK(v) /\ SizeOK(v) /\ VolumeOK(v) /\ RequestOK(v) /\ NodeOK(v)
         /\ TypeOK /\ OneSizeAsked /\ ac.size \in Nat
         /\ vol[v].size \in Nat /\ vol[v].prev.size \in Nat /\ lv[v] \in Nat
         /\ rq[v].bytes \in Nat /\ rq[v].seen.size \in Nat
BY DEF AccountInv, SizeInv, LVGInv, VolumeInv, TypeOK, VolState, Request

\* A step about volume v.
LEMMA AccountOfVolume ==
  ASSUME AccountInv, SizeInv', NEW v \in Volume, unpaid' = unpaid,
         ac'.onLVG => ac.onLVG,
         \A w \in Volume \ {v} :
           /\ vol'[w] = vol[w] /\ lv'[w] = lv[w] /\ nr'[w] = nr[w]
           /\ rq'[w].pc = rq[w].pc /\ rq'[w].op = rq[w].op
           /\ rq'[w].bytes = rq[w].bytes /\ rq'[w].seen = rq[w].seen
           /\ rq'[w].fresh => rq[w].fresh
           /\ w \in cached' <=> w \in cached,
         rq'[v].pc = "charge" /\ rq'[v].fresh =>
           Charging(v) /\ rq'[v].bytes = rq[v].bytes,
         ac'.onLVG => /\ FitOK(v)' /\ WaitOK(v)' /\ ac'.size >= 0
                      /\ ac'.size + Charge(v)' <= ac.size + Charge(v)
                      /\ ac'.size >= ac.size \/ LockFree
  PROVE  AccountInv'
<1>1. ac'.onLVG => \A w \in Volume \ {v} :
                     FitOK(w)' /\ WaitOK(w)' /\ Charge(w)' <= Charge(w)
  BY AccountKept
<1>2. \A w \in Volume : Charging(w)' => Charging(w) /\ rq'[w].bytes = rq[w].bytes
  BY DEF Charging
<1>3. LockFree => \A w \in Volume : ~Charging(w)'
  BY <1>2 DEF LockFree, Charging
<1>4. ac'.onLVG => ChargeOK'
  BY <1>2, <1>3, ChargeKept
<1>5. TypeOK /\ TypeOK'
  BY DEF AccountInv, SizeInv, LVGInv
<1>6. /\ Charge(v) \in Int /\ Charge(v)' \in Int
      /\ ac.size \in Int /\ ac'.size \in Int /\ unpaid \in Int
  BY <1>5, ChargeType, ChargeTypeNext DEF TypeOK
<1>7. ac'.onLVG => ac'.size + Charge(v)' + unpaid <= ac.size + Charge(v) + unpaid'
  BY <1>6
<1> QED
  BY <1>1, <1>4, <1>7, AccountStep

\* The Volume object is made: from now on the volume is charged for, and what it is
\* charged with is owed.
LEMMA CreateAccount ==
  ASSUME AccountInv, SizeInv', NEW v \in Volume, Create(v)
  PROVE  AccountInv'
<1> DEFINE bytes == AlignSizeByPE(Size[v])
<1>1. /\ vol[v].cs = "absent" /\ ac.onLVG /\ bytes <= ac.size /\ LockFree
      /\ vol' = [vol EXCEPT ![v].cs = "Creating", ![v].size = bytes]
      /\ cached' = cached \cup {v} /\ unpaid' = unpaid + bytes /\ rq[v].pc = "idle"
      /\ UNCHANGED <<ac, lv, nr>>
  BY DEF Create
<1>2. bytes \in Nat
  BY LVGVolumesAssumption, AlignGrows
<1>3. /\ rq'[v].pc = "charge" /\ rq'[v].bytes = bytes
      /\ \A w \in Volume \ {v} : rq'[w] = rq[w]
  BY <1>1, AccountFacts DEF Create, TypeOK, NoRequest
<1> HIDE DEF bytes
<1>4. /\ vol'[v].cs = "Creating" /\ vol'[v].size = bytes /\ vol'[v].prev = vol[v].prev
      /\ vol'[v].deleting = vol[v].deleting
      /\ \A w \in Volume \ {v} : vol'[w] = vol[w]
  BY <1>1, AccountFacts DEF TypeOK, VolState
<1>5. /\ lv[v] = 0 /\ vol[v].prev = NoPrev /\ nr[v].pc = "idle" /\ ~vol[v].deleting
  BY <1>1, AccountFacts DEF SizeOK, NodeOK, VolumeOK, Absent
<1>6. FitOK(v)' /\ WaitOK(v)'
  BY <1>1, <1>2, <1>3, <1>4, <1>5 DEF FitOK, WaitOK, Returned
<1>7. Charge(v) = 0 /\ Charge(v)' = bytes
  BY <1>1, <1>3, <1>4, <1>5 DEF Charge, GivenBack, Returned
<1>8. ChargeOK'
  <2>1. \A w \in Volume : Charging(w)' => w = v
    BY <1>1, <1>3 DEF Charging, LockFree
  <2> QED
    BY <1>1, <1>3, <2>1 DEF ChargeOK
<1>9. \A w \in Volume \ {v} : FitOK(w)' /\ WaitOK(w)' /\ Charge(w)' <= Charge(w)
  BY <1>1, <1>3, <1>4, AccountKept
<1>10. ac.size \in Nat /\ unpaid \in Int
  BY <1>1, AccountFacts DEF TypeOK
<1>11. ac'.size + Charge(v)' + unpaid <= ac.size + Charge(v) + unpaid'
  BY <1>1, <1>2, <1>7, <1>10
<1> QED
  BY <1>1, <1>6, <1>8, <1>9, <1>10, <1>11, AccountStep

\* The space is paid for, if the copy of the AC can still be written.
LEMMA CreateChargeAccount ==
  ASSUME AccountInv, SizeInv', NEW v \in Volume, CreateCharge(v)
  PROVE  AccountInv'
<1>1. TypeOK /\ TypeOK'
  BY DEF AccountInv, SizeInv, LVGInv
<1>2. /\ rq[v].pc = "charge" /\ UNCHANGED <<vol, lv, nr, cached>>
      /\ rq' = [rq EXCEPT ![v] = NoRequest]
  BY DEF CreateCharge
<1>3. rq'[v].pc = "idle" /\ \A w \in Volume \ {v} : rq'[w] = rq[w]
  BY <1>1, <1>2, ConstantTypes DEF TypeOK
<1>4. \/ UNCHANGED <<ac, unpaid>>
      \/ /\ Charging(v) /\ ac'.onLVG = ac.onLVG
         /\ ac'.size = ac.size - rq[v].bytes /\ unpaid' = unpaid - rq[v].bytes
  BY <1>1, <1>2 DEF CreateCharge, TypeOK, Charging
<1>5. ac'.onLVG = ac.onLVG
  BY <1>4
<1>6. ASSUME ac.onLVG, NEW w \in Volume
      PROVE  FitOK(w)' /\ WaitOK(w)' /\ Charge(w)' <= Charge(w)
  <2>1. Returned(v) => vol[v].deleting /\ v \notin cached
    BY <1>2 DEF Returned
  <2>2. (Returned(v) => Returned(v)') /\ ~GivenBack(v)
    BY <1>2, <2>1 DEF Returned, GivenBack
  <2> QED
    BY <1>2, <1>3, <1>6, <2>2, AccountKept
<1>7. ac.onLVG => ChargeOK' /\ ac'.size >= 0
  <2> SUFFICES ASSUME ac.onLVG PROVE ChargeOK' /\ ac'.size >= 0
    OBVIOUS
  <2>1. \A w \in Volume : Charging(w)' => Charging(w) /\ rq'[w].bytes = rq[w].bytes /\ w # v
    BY <1>3 DEF Charging
  <2>2. ac.size \in Nat /\ rq[v].bytes \in Nat
    BY AccountFacts
  <2>3. CASE UNCHANGED ac
    BY <2>1, <2>2, <2>3, ChargeKept
  <2>4. CASE Charging(v) /\ ac'.size = ac.size - rq[v].bytes
    <3>1. rq[v].bytes <= ac.size /\ \A w \in Volume : Charging(w) => w = v
      BY <2>4 DEF AccountInv, ChargeOK
    <3>2. \A w \in Volume : ~Charging(w)'
      BY <2>1, <3>1
    <3> QED
      BY <2>2, <2>4, <3>1, <3>2, ChargeKept
  <2> QED
    BY <1>4, <2>3, <2>4
<1>8. ac.onLVG => ac'.size + Charge(v)' + unpaid <= ac.size + Charge(v) + unpaid'
  <2>1. /\ Charge(v) \in Int /\ Charge(v)' \in Int /\ ac.size \in Int
        /\ unpaid \in Int /\ rq[v].bytes \in Int
    BY <1>1, ChargeType, ChargeTypeNext DEF TypeOK, Request
  <2>2. ac.onLVG => Charge(v)' <= Charge(v)
    BY <1>6
  <2>3. \/ ac'.size = ac.size /\ unpaid' = unpaid
        \/ ac'.size = ac.size - rq[v].bytes /\ unpaid' = unpaid - rq[v].bytes
    BY <1>4
  <2> QED
    BY <2>1, <2>2, <2>3
<1> QED
  BY <1>5, <1>6, <1>7, <1>8, AccountStep

\* A status is written over what others have read: it does not concern the sizes.
LEMMA OverwriteAccount ==
  ASSUME AccountInv, SizeInv', PairCompleted, NEW v \in Volume,
         \/ CreateTimeout(v)
         \/ NodeStageVolume(v) \/ NodeUnstageVolume(v)
         \/ NodePublishVolume(v) \/ NodeUnpublishVolume(v)
  PROVE  AccountInv'
<1>1. PICK cs \in Usable \cup {"Failed"} :
        /\ vol' = [vol EXCEPT ![v].cs = cs]
        /\ rq' = Stale(rq, v) /\ nr' = Stale(nr, v)
        /\ UNCHANGED <<ac, lv, cached, unpaid>>
        /\ cs \in Usable => lv[v] # 0 \/ vol[v].cs \in Usable
  BY DEF CreateTimeout, NodeStageVolume, NodeUnstageVolume, NodePublishVolume,
         NodeUnpublishVolume, SetStatus, Usable, VolumePathFound
<1>2. vol[v].cs \in Usable \cup {"Creating", "Failed"}
  BY DEF CreateTimeout, NodeStageVolume, NodeUnstageVolume, NodePublishVolume,
         NodeUnpublishVolume, Usable
<1>3. cs \in CSIStatus /\ cs \notin {"Creating", "Resizing", "Resized", "Removed", "gone"}
  BY DEF CSIStatus, Usable
<1>4. TypeOK
  BY DEF AccountInv, SizeInv, LVGInv
<1>5. /\ \A w \in Volume \ {v} : vol'[w] = vol[w]
      /\ vol'[v].cs = cs /\ vol'[v].size = vol[v].size
      /\ vol'[v].prev = vol[v].prev /\ vol'[v].deleting = vol[v].deleting
  BY <1>1, <1>3, <1>4, StatusType
<1>6. /\ \A w \in Volume \ {v} : nr'[w] = nr[w] /\ rq'[w] = rq[w]
      /\ nr'[v].pc = nr[v].pc /\ nr'[v].cs = nr[v].cs
      /\ nr[v].pc # "idle" => ~nr'[v].fresh
      /\ rq'[v].pc = rq[v].pc /\ rq'[v].op = rq[v].op /\ rq'[v].bytes = rq[v].bytes
      /\ rq'[v].seen = rq[v].seen
      /\ rq[v].pc \in {"idle", "charge", "lvg"} => rq' = rq
      /\ rq[v].pc \notin {"idle", "charge", "lvg"} => ~rq'[v].fresh
  BY <1>1, <1>4, StaleRequest, StaleNode
<1>7. ASSUME ac.onLVG
      PROVE  FitOK(v)' /\ WaitOK(v)' /\ Charge(v)' <= Charge(v)
  <2>1. vol[v].cs # "Resized" /\ vol[v].cs \notin {"absent", "Removed", "gone"}
    BY <1>2 DEF Usable
  <2>6. ~Returned(v)
    BY <1>7, <2>1, AccountFacts DEF Returned, RequestOK, FitOK, Exists, Absent
  <2>7. ~Returned(v)'
    BY <1>1, <1>5, <1>6, <2>6 DEF Returned
  <2>2. FitOK(v)'
    BY <1>1, <1>3, <1>5, <1>6, <1>7, <2>1, <2>7, AccountFacts
    DEF FitOK, Extended, Exists, Absent
  <2>3. WaitOK(v)'
    BY <1>1, <1>5, <1>6, <1>7, AccountFacts DEF WaitOK
  <2>4. ~Returned(v) /\ ~GivenBack(v)' => Charge(v)' <= Charge(v)
    <3>1. rq[v].pc = "mark" /\ rq[v].fresh => rq[v].bytes >= vol[v].size
      BY <1>7, AccountFacts DEF RequestOK
    <3>2. GivenBack(v) /\ ~GivenBack(v)' => FALSE
      <4>1. GivenBack(v) => vol[v].prev.size < vol[v].size
        BY <1>7, AccountFacts DEF WaitOK, SizeOK, GivenBack
      <4> QED
        BY <1>3, <1>5, <1>7, <4>1, AccountFacts DEF PairCompleted
    <3> QED
      BY <1>3, <1>5, <1>6, <1>7, <2>1, <3>1, <3>2, AccountFacts DEF Charge
  <2>5. GivenBack(v)' => Charge(v)' <= Charge(v)
    <3>1. rq[v].pc = "restore" => vol[v].prev.size < vol[v].size
      BY <1>7, AccountFacts DEF WaitOK, SizeOK
    <3> QED
      BY <1>5, <1>6, <1>7, <2>1, <2>6, <3>1, AccountFacts
      DEF Charge, GivenBack, RequestOK
  <2> QED
    BY <2>2, <2>3, <2>4, <2>5, <2>6
<1>8. Charge(v) \in Int /\ Charge(v)' \in Int
  BY <1>4, ChargeType, ChargeTypeNext DEF SizeInv, LVGInv
<1> QED
  BY <1>1, <1>5, <1>6, <1>7, <1>8, AccountFacts, AccountOfVolume DEF Charging

LEMMA DeleteStartAccount ==
  ASSUME AccountInv, SizeInv', NEW v \in Volume, DeleteStart(v)
  PROVE  AccountInv'
<1>1. TypeOK
  BY DEF AccountInv, SizeInv, LVGInv
<1>2. /\ rq[v].pc = "idle" /\ v \in cached /\ UNCHANGED <<ac, lv, cached, unpaid>>
      /\ vol[v].cs \in {"Created", "Removing", "Removed"}
      /\ rq'[v].pc = "wait" /\ rq'[v].op = "delete"
      /\ \A w \in Volume \ {v} : rq'[w] = rq[w]
  BY <1>1 DEF DeleteStart, TypeOK, NoRequest
<1>3. /\ \A w \in Volume \ {v} : vol'[w] = vol[w] /\ nr'[w] = nr[w]
      /\ vol'[v].size = vol[v].size /\ vol'[v].prev = vol[v].prev
      /\ nr'[v].pc = nr[v].pc /\ nr'[v].cs = nr[v].cs
      /\ \/ vol'[v].cs = vol[v].cs /\ nr'[v] = nr[v]
         \/ vol[v].cs = "Created" /\ vol'[v].cs = "Removing"
  <2>1. CASE vol[v].cs # "Created"
    BY <2>1 DEF DeleteStart
  <2>2. CASE vol[v].cs = "Created"
    <3>1. vol' = [vol EXCEPT ![v].cs = "Removing"] /\ nr' = Stale(nr, v)
      BY <2>2 DEF DeleteStart
    <3> QED
      BY <1>1, <2>2, <3>1, StatusType, StaleNode DEF CSIStatus
  <2> QED
    BY <2>1, <2>2
<1>4. ASSUME ac.onLVG
      PROVE  FitOK(v)' /\ WaitOK(v)' /\ Charge(v)' = Charge(v)
  <2>1. FitOK(v)'
    BY <1>2, <1>3, <1>4, AccountFacts DEF FitOK, Extended, Returned, Exists, Absent, Usable
  <2>2. WaitOK(v)'
    BY <1>2 DEF WaitOK
  <2>3. Charge(v) = vol[v].size /\ Charge(v)' = vol[v].size
    BY <1>2, <1>3 DEF Charge, Returned, GivenBack
  <2> QED
    BY <2>1, <2>2, <2>3
<1> QED
  BY <1>1, <1>2, <1>3, <1>4, AccountFacts, ChargeType, AccountOfVolume

\* The Volume is Removed: what its space was charged with goes back to the AC.
LEMMA DeleteCreditAccount ==
  ASSUME AccountInv, SizeInv', NEW v \in Volume, DeleteCredit(v)
  PROVE  AccountInv'
<1>1. /\ rq[v].pc = "wait" /\ rq[v].op = "delete" /\ vol[v].cs = "Removed" /\ ac.onLVG
      /\ UNCHANGED <<vol, lv, nr, cached, unpaid>>
      /\ ac'.size = ac.size + vol[v].size /\ LockFree
  BY DEF DeleteCredit
<1>2. rq'[v].pc = "lvg" /\ \A w \in Volume \ {v} : rq'[w] = rq[w]
  BY <1>1, AccountFacts DEF DeleteCredit, TypeOK, Request
<1>3. FitOK(v)' /\ WaitOK(v)'
  BY <1>1, <1>2, AccountFacts DEF FitOK, WaitOK, Extended, Exists
<1>4. Charge(v) = vol[v].size /\ Charge(v)' = 0
  BY <1>1, <1>2, AccountFacts DEF Charge, Returned, GivenBack, WaitOK
<1>5. ac'.size >= 0 /\ ac'.size + Charge(v)' <= ac.size + Charge(v)
  BY <1>1, <1>4, AccountFacts
<1> QED
  BY <1>1, <1>2, <1>3, <1>5, AccountOfVolume

\* Steps that leave the objects alone: of requests that end, or go on to delete the
\* Volume whose space was returned.
LEMMA RequestAccount ==
  ASSUME AccountInv, SizeInv', PairCompleted, NEW v \in Volume,
         DeleteUpdateLVG(v) \/ GiveUp(v) \/ RequestFails(v)
  PROVE  AccountInv'
<1>1. TypeOK
  BY DEF AccountInv, SizeInv, LVGInv
<1>2. UNCHANGED <<ac, vol, lv, nr, cached, unpaid>>
  BY DEF DeleteUpdateLVG, GiveUp, RequestFails
<1>3. /\ \A w \in Volume \ {v} : rq'[w] = rq[w]
      /\ rq'[v].pc = "idle" \/ (rq[v].pc = "lvg" /\ rq'[v].pc = "remove")
  BY <1>1, ConstantTypes DEF DeleteUpdateLVG, GiveUp, RequestFails, TypeOK, Request
<1>4. ASSUME ac.onLVG
      PROVE  FitOK(v)' /\ WaitOK(v)' /\ Charge(v)' <= Charge(v)
  <2>1. CASE rq'[v].pc = "idle"
    <3>1. /\ Returned(v) => Returned(v)' \/ vol[v].cs = "gone"
          /\ GivenBack(v) => GivenBack(v)' \/ vol'[v].size = vol[v].prev.size
      BY <1>2, <1>4 DEF PairCompleted, GivenBack
    <3> QED
      BY <1>2, <1>4, <2>1, <3>1, AccountKept
  <2>2. CASE rq[v].pc = "lvg" /\ rq'[v].pc = "remove"
    <3>1. FitOK(v)' /\ WaitOK(v)'
      BY <1>2, <1>4, <2>2, AccountFacts DEF FitOK, WaitOK, Extended, Exists, Returned
    <3>2. Charge(v) = 0 /\ Charge(v)' = 0
      BY <2>2 DEF Charge, Returned
    <3> QED
      BY <3>1, <3>2
  <2> QED
    BY <1>3, <2>1, <2>2
<1>5. Charge(v) \in Int /\ Charge(v)' \in Int
  BY <1>1, ChargeType, ChargeTypeNext DEF SizeInv, LVGInv
<1> QED
  BY <1>2, <1>3, <1>4, <1>5, AccountFacts, AccountOfVolume

LEMMA DeleteVolumeCRAccount ==
  ASSUME AccountInv, SizeInv', PairCompleted, NEW v \in Volume, DeleteVolumeCR(v)
  PROVE  AccountInv'
<1>1. TypeOK
  BY DEF AccountInv, SizeInv, LVGInv
<1>2. /\ rq[v].pc = "remove" /\ UNCHANGED <<ac, lv, unpaid>> /\ rq'[v].pc = "idle"
      /\ \A w \in Volume \ {v} : rq'[w] = rq[w]
      /\ \A w \in Volume \ {v} : w \in cached' <=> w \in cached
  BY <1>1, ConstantTypes DEF DeleteVolumeCR, TypeOK
<1>3. /\ \A w \in Volume \ {v} : vol'[w] = vol[w] /\ nr'[w] = nr[w]
      /\ vol'[v].cs = vol[v].cs /\ vol'[v].size = vol[v].size
      /\ vol'[v].prev = vol[v].prev
      /\ nr'[v].pc = nr[v].pc /\ nr'[v].cs = nr[v].cs
      /\ nr'[v] = nr[v] \/ nr[v].pc = "idle" \/ ~nr'[v].fresh
      /\ Exists(v) => vol'[v].deleting /\ v \notin cached'
  <2>1. CASE Exists(v)
    <3>1. vol' = [vol EXCEPT ![v].deleting = TRUE] /\ nr' = Stale(nr, v)
      BY <2>1 DEF DeleteVolumeCR
    <3> QED
      BY <1>1, <2>1, <3>1, StaleNode DEF DeleteVolumeCR, TypeOK, VolState
  <2>2. CASE ~Exists(v)
    BY <2>2 DEF DeleteVolumeCR
  <2> QED
    BY <2>1, <2>2
<1>4. ASSUME ac.onLVG
      PROVE  FitOK(v)' /\ WaitOK(v)' /\ Charge(v) = 0 /\ Charge(v)' = 0
  <2>4. Returned(v) /\ lv[v] = 0 /\ vol[v].cs \in {"Removed", "gone"}
    BY <1>2, <1>4, AccountFacts DEF Returned, FitOK, RequestOK
  <2>1. FitOK(v)'
    BY <1>2, <1>3, <1>4, <2>4, AccountFacts DEF FitOK, Extended, Exists, Absent, Usable
  <2>2. WaitOK(v)'
    BY <1>2 DEF WaitOK
  <2>3. Charge(v) = 0 /\ Charge(v)' = 0
    BY <1>2, <1>3, <2>4 DEF Charge, Returned, Exists, Absent
  <2> QED
    BY <2>1, <2>2, <2>3
<1> QED
  BY <1>2, <1>3, <1>4, AccountFacts, AccountOfVolume

\* No request to expand begins while the Volume is being expanded to the one size
\* that can be asked for.
LEMMA ExpandStartAccount ==
  ASSUME AccountInv, SizeInv', NEW v \in Volume, ExpandStart(v)
  PROVE  AccountInv'
<1>1. TypeOK
  BY DEF AccountInv, SizeInv, LVGInv
<1>2. /\ rq[v].pc = "idle" /\ UNCHANGED <<ac, vol, lv, nr, cached, unpaid>>
      /\ rq'[v].pc = "reserve" /\ rq'[v].op = "expand" /\ rq'[v].seen.cs = vol[v].cs
      /\ \A w \in Volume \ {v} : rq'[w] = rq[w]
  BY <1>1 DEF ExpandStart, TypeOK, NoRequest
<1>3. PICK size \in ExpandTo : vol[v].size < AlignSizeByPE(size)
  BY DEF ExpandStart
<1>4. ASSUME ac.onLVG
      PROVE  FitOK(v)' /\ WaitOK(v)' /\ Charge(v)' = Charge(v)
  <2>1. FitOK(v)'
    BY <1>2, <1>4, AccountFacts DEF FitOK, Extended, Exists, Returned
  <2>2. vol[v].prev = NoPrev
    <3> SUFFICES ASSUME vol[v].prev # NoPrev PROVE FALSE
      OBVIOUS
    <3>1. vol[v].size \in AskedSizes
      BY <1>4, AccountFacts DEF SizeOK
    <3>2. vol[v].size = AlignSizeByPE(size)
      BY <1>3, <1>4, <3>1, AccountFacts DEF AskedSizes, OneSizeAsked
    <3> QED
      BY <1>3, <1>4, <3>2, AccountFacts
  <2>3. WaitOK(v)'
    BY <1>2, <1>4, <2>2, AccountFacts DEF WaitOK, FitOK
  <2>4. Charge(v)' = Charge(v)
    BY <1>2 DEF Charge, Returned, GivenBack
  <2> QED
    BY <2>1, <2>3, <2>4
<1> QED
  BY <1>1, <1>2, <1>4, AccountFacts, ChargeType, AccountOfVolume

LEMMA ExpandReserveAccount ==
  ASSUME AccountInv, SizeInv', NEW v \in Volume, ExpandReserve(v)
  PROVE  AccountInv'
<1> DEFINE more == rq[v].bytes - rq[v].seen.size
<1>1. TypeOK
  BY DEF AccountInv, SizeInv, LVGInv
<1>2. rq[v].pc = "reserve" /\ LockFree /\ UNCHANGED <<vol, lv, nr, cached, unpaid>>
  BY DEF ExpandReserve
<1>3. /\ ac'.onLVG = ac.onLVG /\ \A w \in Volume \ {v} : rq'[w] = rq[w]
      /\ rq'[v].pc # "charge"
  BY <1>1, <1>2, ConstantTypes DEF ExpandReserve, TypeOK, Request
<1>4. ASSUME ac.onLVG
      PROVE  \/ rq'[v].pc = "idle" /\ ac' = ac
             \/ /\ rq'[v].pc = "mark" /\ more <= ac.size /\ ac'.size = ac.size - more
                /\ rq'[v].fresh = rq[v].fresh /\ rq'[v].bytes = rq[v].bytes
                /\ rq'[v].op = rq[v].op
  <2>1. rq[v].seen.cs \notin {"Resizing", "Resized"}
    BY <1>2, <1>4, AccountFacts DEF WaitOK
  <2> QED
    BY <1>1, <1>2, <1>4, <2>1, ConstantTypes DEF ExpandReserve, TypeOK, Request
<1>5. ASSUME ac.onLVG
      PROVE  /\ FitOK(v)' /\ WaitOK(v)' /\ ac'.size >= 0
             /\ ac'.size + Charge(v)' <= ac.size + Charge(v)
  <2>3. /\ Returned(v)' <=> Returned(v)
        /\ ~GivenBack(v) /\ ~GivenBack(v)'
    BY <1>2, <1>4, <1>5 DEF Returned, GivenBack
  <2>1. FitOK(v)'
    BY <1>2, <1>5, <2>3, AccountFacts DEF FitOK, Extended, Exists
  <2>2. WaitOK(v)'
    BY <1>2, <1>4, <1>5, AccountFacts DEF WaitOK
  <2>4. rq[v].bytes > rq[v].seen.size /\ (rq[v].fresh => rq[v].seen.size = vol[v].size)
    BY <1>2, <1>5, AccountFacts DEF RequestOK
  <2>5. CASE rq'[v].pc = "idle" /\ ac' = ac
    <3>1. Charge(v)' = Charge(v)
      BY <1>2, <2>3, <2>5 DEF Charge
    <3> QED
      BY <1>5, <2>1, <2>2, <2>5, <3>1, AccountFacts, ChargeType
  <2>6. CASE /\ rq'[v].pc = "mark" /\ more <= ac.size /\ ac'.size = ac.size - more
             /\ rq'[v].fresh = rq[v].fresh /\ rq'[v].bytes = rq[v].bytes
             /\ rq'[v].op = rq[v].op
    <3>1. Charge(v)' <= Charge(v) + more
      BY <1>2, <1>5, <2>3, <2>4, <2>6, AccountFacts DEF Charge
    <3>2. Charge(v) \in Int /\ Charge(v)' \in Int /\ more \in Int /\ ac.size \in Int
      BY <1>1, <1>5, AccountFacts, ChargeType, ChargeTypeNext DEF SizeInv, LVGInv
    <3> HIDE DEF more
    <3> QED
      BY <2>1, <2>2, <2>6, <3>1, <3>2
  <2> QED
    BY <1>4, <1>5, <2>5, <2>6
<1> QED
  BY <1>2, <1>3, <1>4, <1>5, AccountOfVolume

LEMMA ExpandMarkAccount ==
  ASSUME AccountInv, SizeInv', PairCompleted, NEW v \in Volume, ExpandMark(v)
  PROVE  AccountInv'
<1>1. TypeOK
  BY DEF AccountInv, SizeInv, LVGInv
<1>2. rq[v].pc = "mark" /\ UNCHANGED <<ac, lv, cached, unpaid>>
  BY DEF ExpandMark
<1>3. CASE ~rq[v].fresh
  <2>1. UNCHANGED <<vol, nr>> /\ rq' = [rq EXCEPT ![v] = NoRequest]
    BY <1>3 DEF ExpandMark
  <2>2. rq'[v].pc = "idle" /\ \A w \in Volume \ {v} : rq'[w] = rq[w]
    BY <1>1, <2>1, ConstantTypes DEF TypeOK
  <2>3. ac.onLVG => FitOK(v)' /\ WaitOK(v)' /\ Charge(v)' <= Charge(v)
    <3>1. (Returned(v)' <=> Returned(v)) /\ ~GivenBack(v)
      BY <1>2, <2>1, <2>2 DEF Returned, GivenBack
    <3> QED
      BY <1>2, <2>1, <2>2, <3>1, AccountKept
  <2>4. Charge(v) \in Int /\ Charge(v)' \in Int
    BY <1>1, ChargeType, ChargeTypeNext DEF SizeInv, LVGInv
  <2> QED
    BY <1>2, <2>1, <2>2, <2>3, <2>4, AccountFacts, AccountOfVolume
<1>4. CASE rq[v].fresh
  <2>1. /\ vol' = [vol EXCEPT ![v].cs = "Resizing", ![v].size = rq[v].bytes,
                              ![v].prev = rq[v].seen]
        /\ nr' = Stale(nr, v) /\ rq' = [rq EXCEPT ![v].pc = "wait"]
    BY <1>4 DEF ExpandMark
  <2>2. /\ vol'[v].cs = "Resizing" /\ vol'[v].size = rq[v].bytes
        /\ vol'[v].prev = rq[v].seen /\ vol'[v].deleting = vol[v].deleting
        /\ \A w \in Volume \ {v} : vol'[w] = vol[w]
    BY <1>1, <2>1 DEF TypeOK, VolState
  <2>3. /\ rq'[v].pc = "wait" /\ rq'[v].op = rq[v].op /\ rq'[v].bytes = rq[v].bytes
        /\ \A w \in Volume \ {v} : rq'[w] = rq[w]
    BY <1>1, <2>1 DEF TypeOK, Request
  <2>4. /\ \A w \in Volume \ {v} : nr'[w] = nr[w]
        /\ nr'[v].pc = nr[v].pc /\ nr'[v].cs = nr[v].cs
        /\ nr[v].pc # "idle" => ~nr'[v].fresh
    BY <1>1, <2>1, StaleNode
  <2>5. ASSUME ac.onLVG
        PROVE  FitOK(v)' /\ WaitOK(v)' /\ Charge(v)' <= Charge(v)
    <3>1. /\ rq[v].seen.cs \in Usable /\ rq[v].seen.size = vol[v].size
          /\ rq[v].seen.cs = vol[v].cs /\ rq[v].bytes > rq[v].seen.size
          /\ rq[v].bytes \in AskedSizes
      BY <1>2, <1>4, <2>5, AccountFacts DEF RequestOK, SizeOK
    <3>2. rq[v].seen # NoPrev
      BY <3>1 DEF NoPrev, Usable
    <3>3. ~Returned(v) /\ ~GivenBack(v) /\ vol[v].cs \notin Absent
      BY <1>2, <2>5, <3>1, AccountFacts
      DEF Returned, GivenBack, FitOK, Exists, Absent, Usable
    <3>4. ~Returned(v)'
      BY <1>2, <2>2, <2>3, <3>3 DEF Returned
    <3>5. FitOK(v)'
      BY <1>2, <2>2, <2>4, <2>5, <3>1, <3>2, <3>3, <3>4, AccountFacts
      DEF FitOK, Exists, Absent, Usable
    <3>6. WaitOK(v)'
      BY <1>2, <2>2, <2>3, <2>5, <3>1, <3>2, AccountFacts DEF WaitOK
    <3>8. Charge(v) = rq[v].bytes
      BY <1>2, <1>4, <3>3 DEF Charge, Absent
    <3>9. Charge(v)' \in {0, rq[v].bytes}
      BY <2>2, <2>3 DEF Charge, GivenBack
    <3> QED
      BY <2>5, <3>5, <3>6, <3>8, <3>9, AccountFacts
  <2>6. Charge(v) \in Int /\ Charge(v)' \in Int
    BY <1>1, ChargeType, ChargeTypeNext DEF SizeInv, LVGInv
  <2> QED
    BY <1>2, <2>2, <2>3, <2>4, <2>5, <2>6, AccountFacts, AccountOfVolume
<1> QED
  BY <1>3, <1>4

\* A failed expansion: the AC gets back what the request has taken, since the Volume
\* has the size the request asks for.
LEMMA ExpandCreditAccount ==
  ASSUME AccountInv, SizeInv', NEW v \in Volume, ExpandCredit(v)
  PROVE  AccountInv'
<1>1. TypeOK
  BY DEF AccountInv, SizeInv, LVGInv
<1>2. /\ rq[v].pc = "wait" /\ rq[v].op = "expand"
      /\ UNCHANGED <<vol, lv, nr, cached, unpaid>>
      /\ rq'[v].pc = "restore" /\ rq'[v].op = "expand" /\ rq'[v].bytes = rq[v].bytes
      /\ \A w \in Volume \ {v} : rq'[w] = rq[w]
      /\ ac'.onLVG = ac.onLVG /\ LockFree
  BY <1>1 DEF ExpandCredit, TypeOK, Request
<1>3. ASSUME ac.onLVG
      PROVE  /\ FitOK(v)' /\ WaitOK(v)' /\ ac'.size >= 0
             /\ ac'.size + Charge(v)' <= ac.size + Charge(v)
  <2>1. FitOK(v)' /\ WaitOK(v)'
    BY <1>2, <1>3, AccountFacts DEF FitOK, WaitOK, Extended, Exists, Returned
  <2>2. rq[v].bytes = vol[v].size /\ vol[v].prev.size < vol[v].size
    BY <1>2, <1>3, AccountFacts DEF WaitOK, SizeOK, OneSizeAsked, AskedSizes
  <2>3. /\ Returned(v)' <=> Returned(v)
        /\ ~GivenBack(v) /\ (GivenBack(v)' <=> vol[v].cs = "Failed")
    BY <1>2 DEF Returned, GivenBack
  <2>4. CASE vol[v].cs = "Failed" /\ ac'.size = ac.size + (rq[v].bytes - vol[v].prev.size)
    <3>1. ~Returned(v)
      BY <1>2, <1>3, <2>4, AccountFacts DEF Returned, FitOK, Exists, Absent
    <3>2. Charge(v) = vol[v].size /\ Charge(v)' = vol[v].prev.size
      BY <1>2, <2>3, <2>4, <3>1 DEF Charge
    <3> QED
      BY <1>3, <2>1, <2>2, <2>4, <3>2, AccountFacts
  <2>5. CASE ac' = ac
    <3>1. Charge(v)' <= Charge(v)
      BY <1>2, <1>3, <2>2, <2>3, AccountFacts DEF Charge
    <3>2. Charge(v) \in Int /\ Charge(v)' \in Int
      BY <1>1, ChargeType, ChargeTypeNext DEF SizeInv, LVGInv
    <3> QED
      BY <1>3, <2>1, <2>5, <3>1, <3>2, AccountFacts
  <2>6. \/ vol[v].cs = "Failed" /\ ac'.size = ac.size + (rq[v].bytes - vol[v].prev.size)
        \/ ac' = ac
    BY <1>1 DEF ExpandCredit, TypeOK
  <2> QED
    BY <2>4, <2>5, <2>6
<1> QED
  BY <1>2, <1>3, AccountOfVolume

\* The size that has been paid back goes, too.
LEMMA ExpandRestoreAccount ==
  ASSUME AccountInv, SizeInv', PairCompleted, NEW v \in Volume, ExpandRestore(v)
  PROVE  AccountInv'
<1>1. TypeOK
  BY DEF AccountInv, SizeInv, LVGInv
<1>2. rq[v].pc = "restore" /\ UNCHANGED <<ac, lv, cached, unpaid>>
      /\ rq' = [rq EXCEPT ![v] = NoRequest]
  BY DEF ExpandRestore
<1>3. rq'[v].pc = "idle" /\ \A w \in Volume \ {v} : rq'[w] = rq[w]
  BY <1>1, <1>2, ConstantTypes DEF TypeOK
<1>4. Charge(v) \in Int /\ Charge(v)' \in Int
  BY <1>1, ChargeType, ChargeTypeNext DEF SizeInv, LVGInv
<1>5. CASE ~rq[v].fresh
  <2>1. UNCHANGED <<vol, nr>>
    BY <1>5 DEF ExpandRestore
  <2>2. ac.onLVG => FitOK(v)' /\ WaitOK(v)' /\ Charge(v)' <= Charge(v)
    <3> SUFFICES ASSUME ac.onLVG PROVE FitOK(v)' /\ WaitOK(v)' /\ Charge(v)' <= Charge(v)
      OBVIOUS
    <3>1. /\ Returned(v) => Returned(v)' \/ vol[v].cs = "gone"
          /\ GivenBack(v) => GivenBack(v)' \/ vol'[v].size = vol[v].prev.size
      BY <2>1 DEF PairCompleted, GivenBack
    <3> QED
      BY <1>2, <1>3, <2>1, <3>1, AccountKept
  <2> QED
    BY <1>2, <1>3, <1>4, <2>1, <2>2, AccountFacts, AccountOfVolume
<1>6. CASE rq[v].fresh
  <2>1. /\ nr' = Stale(nr, v)
        /\ vol' = [vol EXCEPT
               ![v].size = IF vol[v].cs = "Failed" THEN vol[v].prev.size ELSE @,
               ![v].cs = IF vol[v].cs = "Resized" /\ vol[v].prev # NoPrev
                         THEN vol[v].prev.cs ELSE @,
               ![v].prev = NoPrev]
    BY <1>6 DEF ExpandRestore
  <2>2. /\ \A w \in Volume \ {v} : vol'[w] = vol[w]
        /\ vol'[v].prev = NoPrev /\ vol'[v].deleting = vol[v].deleting
        /\ vol[v].cs = "Failed" =>
             vol'[v].size = vol[v].prev.size /\ vol'[v].cs = "Failed"
        /\ vol[v].cs = "Resized" /\ vol[v].prev # NoPrev =>
             vol'[v].size = vol[v].size /\ vol'[v].cs = vol[v].prev.cs
    BY <1>1, <2>1 DEF TypeOK, VolState
  <2>3. /\ \A w \in Volume \ {v} : nr'[w] = nr[w]
        /\ nr'[v].pc = nr[v].pc /\ nr'[v].cs = nr[v].cs
        /\ nr[v].pc # "idle" => ~nr'[v].fresh
    BY <1>1, <2>1, StaleNode
  <2>4. ASSUME ac.onLVG
        PROVE  FitOK(v)' /\ WaitOK(v)' /\ Charge(v)' <= Charge(v)
    <3>1. /\ vol[v].cs \in {"Failed", "Resized"} /\ vol[v].prev # NoPrev
          /\ vol[v].prev.cs \in Usable
          /\ ~Extended(v)
      BY <1>2, <1>6, <2>4, AccountFacts
      DEF RequestOK, VolumeOK, WaitOK, SizeOK, NodeOK, Extended
    <3>2. vol'[v].cs \in Usable \cup {"Failed"}
      BY <2>2, <3>1
    <3>3. lv[v] <= vol'[v].size
      BY <2>2, <2>4, <3>1, AccountFacts DEF FitOK
    <3>6. ~Returned(v) /\ v \in cached
      BY <1>2, <2>4, <3>1, AccountFacts DEF Returned, FitOK, Exists, Absent
    <3>9. ~Returned(v)'
      BY <1>2, <1>3, <3>6 DEF Returned
    <3>4. FitOK(v)'
      BY <1>2, <2>2, <2>3, <2>4, <3>1, <3>2, <3>3, <3>6, <3>9, AccountFacts
      DEF FitOK, Usable
    <3>5. WaitOK(v)'
      BY <1>3 DEF WaitOK
    <3>7. Charge(v) = vol'[v].size
      BY <1>2, <2>2, <3>1, <3>6 DEF Charge, GivenBack
    <3>8. Charge(v)' \in {0, vol'[v].size}
      BY <1>3, <3>2 DEF Charge, GivenBack, Usable
    <3> QED
      BY <1>4, <3>4, <3>5, <3>7, <3>8, <2>4, ChargeType, AccountFacts
  <2> QED
    BY <1>2, <1>3, <1>4, <2>2, <2>3, <2>4, AccountFacts, AccountOfVolume
<1> QED
  BY <1>5, <1>6

LEMMA ReconcileReadAccount ==
  ASSUME AccountInv, SizeInv', NEW v \in Volume, ReconcileRead(v)
  PROVE  AccountInv'
<1>1. /\ UNCHANGED <<ac, vol, lv, rq, cached, unpaid>> /\ nr[v].pc = "idle"
      /\ nr'[v].pc = "work" /\ nr'[v].cs \in {"Creating", "Resizing", "Removing"}
      /\ \/ nr'[v].cs = vol[v].cs
         \/ nr'[v].cs = "Removing" /\ vol[v].cs = "Created"
      /\ \A w \in Volume \ {v} : nr'[w] = nr[w]
  BY ReconcileReads DEF ReconcileRead, AccountInv, SizeInv, LVGInv
<1>2. ASSUME ac.onLVG
      PROVE  FitOK(v)' /\ WaitOK(v)' /\ Charge(v)' = Charge(v)
  BY <1>1, <1>2, AccountFacts
  DEF FitOK, WaitOK, Extended, Charge, Returned, GivenBack, Exists, Usable
<1>3. ac.onLVG => Charge(v) \in Int
  BY AccountFacts, ChargeType
<1> QED
  BY <1>1, <1>2, <1>3, AccountFacts, AccountOfVolume DEF Charging

\* What Reconcile does with the LV.
LEMMA WorkAccount ==
  ASSUME AccountInv, SizeInv', NEW v \in Volume, Work(v)
  PROVE  AccountInv'
<1>1. TypeOK
  BY DEF AccountInv, SizeInv, LVGInv
<1>2. UNCHANGED <<ac, vol, cached, unpaid>> /\ nr[v].pc = "work"
  BY DEF Work, WorkCreate, WorkRemove, WorkExpand
<1>3. \A w \in Volume : /\ rq'[w].pc = rq[w].pc /\ rq'[w].seen = rq[w].seen
                        /\ rq'[w].bytes = rq[w].bytes /\ rq'[w].op = rq[w].op
                        /\ rq'[w].fresh => rq[w].fresh
  BY <1>1, AddVolumeRefStep DEF Work, WorkCreate, WorkRemove, WorkExpand
<1>4. PICK cs \in {"Created", "Removed", "Resized", "Failed"} :
        /\ Decide(v, cs)
        /\ WorkExpand(v) => cs \in {"Resized", "Failed"} /\ (cs = "Failed" => lv' = lv)
        /\ WorkRemove(v) => cs \in {"Removed", "Failed"}
        /\ cs = "Removed" => lv' = LVRemove(v)
        /\ WorkCreate(v) => cs \in {"Created", "Failed"}
  <2>1. CASE WorkCreate(v)
    BY <2>1 DEF WorkCreate, PrepareVolume, WorkRemove, WorkExpand
  <2>2. CASE WorkRemove(v)
    BY <2>2 DEF WorkCreate, WorkRemove, ReleaseVolume, WorkExpand
  <2>3. CASE WorkExpand(v)
    BY <2>3 DEF WorkCreate, WorkRemove, WorkExpand
  <2> QED
    BY <2>1, <2>2, <2>3 DEF Work
<1>5. /\ nr'[v].pc = "update" /\ nr'[v].cs = cs /\ \A w \in Volume \ {v} : nr'[w] = nr[w]
      /\ nr'[v].fresh = nr[v].fresh
  <2>1. cs \in CSIStatus
    BY DEF CSIStatus, Usable
  <2> QED
    BY <1>1, <1>4, <2>1, DecideStep
<1>6. \A w \in Volume \ {v} : lv'[w] = lv[w]
  BY <1>1 DEF Work, WorkCreate, PrepareVolume, LVCreate, WorkRemove, ReleaseVolume,
              LVRemove, WorkExpand, ExpandLV, TypeOK
<1>7. ASSUME ac.onLVG
      PROVE  FitOK(v)'
  <2>1. vol[v].cs \notin {"absent", "Removed", "gone"}
    BY <1>2, <1>7, AccountFacts DEF NodeOK, Absent
  <2>5. ~Returned(v)' /\ v \in cached
    BY <1>2, <1>3, <1>7, <2>1, AccountFacts DEF Returned, RequestOK, FitOK, Exists, Absent
  <2>2. CASE WorkCreate(v)
    <3>1. nr[v].cs = "Creating" /\ cs \in {"Created", "Failed"}
      BY <1>4, <2>2 DEF WorkCreate
    <3>2. lv'[v] = lv[v] \/ (lv[v] = 0 /\ lv'[v] = vol[v].size)
      BY <1>1, <2>2 DEF WorkCreate, PrepareVolume, LVCreate, TypeOK
    <3> QED
      BY <1>2, <1>5, <1>7, <2>1, <2>5, <3>1, <3>2, AccountFacts
      DEF FitOK, Extended
  <2>3. CASE WorkRemove(v)
    <3>1. /\ cs \in {"Removed", "Failed"} /\ lv'[v] \in {0, lv[v]}
          /\ cs = "Removed" => lv'[v] = 0
      BY <1>1, <1>4, <2>3 DEF WorkRemove, ReleaseVolume, LVRemove, TypeOK
    <3>3. nr[v].cs = "Removing"
      BY <2>3 DEF WorkRemove
    <3> QED
      BY <1>2, <1>5, <1>7, <2>1, <2>5, <3>1, <3>3, AccountFacts
      DEF FitOK, Extended
  <2>4. CASE WorkExpand(v)
    <3>1. /\ cs \in {"Resized", "Failed"} /\ lv'[v] \in {lv[v], vol[v].size}
          /\ cs = "Failed" => lv'[v] = lv[v]
      BY <1>1, <1>4, <2>4 DEF WorkExpand, ExpandLV, TypeOK
    <3>3. nr[v].cs = "Resizing"
      BY <2>4 DEF WorkExpand
    <3> QED
      BY <1>2, <1>5, <1>7, <2>1, <2>5, <3>1, <3>3, AccountFacts
      DEF FitOK, Extended
  <2> QED
    BY <2>2, <2>3, <2>4 DEF Work
<1>8. ASSUME ac.onLVG
      PROVE  WaitOK(v)' /\ Charge(v)' <= Charge(v)
  <2>1. WaitOK(v)'
    BY <1>2, <1>3, <1>8, AccountFacts DEF WaitOK
  <2>2. rq[v].pc = "mark" /\ rq[v].fresh => rq[v].bytes >= vol[v].size
    BY <1>8, AccountFacts DEF RequestOK
  <2>3. (Returned(v)' <=> Returned(v)) /\ (GivenBack(v)' <=> GivenBack(v))
    BY <1>2, <1>3 DEF Returned, GivenBack
  <2>4. vol[v].cs # "gone"
    BY <1>2, <1>8, AccountFacts DEF NodeOK, Absent
  <2>5. Charge(v)' <= Charge(v)
    BY <1>2, <1>3, <1>8, <2>2, <2>3, <2>4, AccountFacts DEF Charge
  <2> QED
    BY <2>1, <2>5
<1>9. Charge(v) \in Int /\ Charge(v)' \in Int
  BY <1>1, ChargeType, ChargeTypeNext DEF SizeInv, LVGInv
<1> QED
  BY <1>2, <1>3, <1>5, <1>6, <1>7, <1>8, <1>9, AccountFacts, AccountOfVolume
  DEF Charging

\* What Reconcile writes has not been overtaken: the Volume has the status it had
\* when it was read.
LEMMA ReconcileUpdateAccount ==
  ASSUME AccountInv, SizeInv', PairCompleted, NEW v \in Volume, ReconcileUpdate(v)
  PROVE  AccountInv'
<1>1. TypeOK
  BY DEF AccountInv, SizeInv, LVGInv
<1>2. /\ nr[v].pc = "update" /\ UNCHANGED <<ac, lv, cached, unpaid>>
      /\ nr'[v].pc = "idle" /\ \A w \in Volume \ {v} : nr'[w] = nr[w]
  BY <1>1, ConstantTypes DEF ReconcileUpdate, TypeOK
<1>3. Charge(v) \in Int /\ Charge(v)' \in Int
  BY <1>1, ChargeType, ChargeTypeNext DEF SizeInv, LVGInv
<1>4. CASE ~nr[v].fresh
  <2>1. UNCHANGED <<vol, rq>>
    BY <1>4 DEF ReconcileUpdate
  <2>2. ac.onLVG => FitOK(v)' /\ WaitOK(v)' /\ Charge(v)' <= Charge(v)
    <3> SUFFICES ASSUME ac.onLVG PROVE FitOK(v)' /\ WaitOK(v)' /\ Charge(v)' <= Charge(v)
      OBVIOUS
    <3>1. Extended(v) => vol[v].cs = "Resized"
      BY <1>2, <2>1 DEF PairCompleted, Extended
    <3> QED
      BY <1>2, <2>1, <3>1, AccountKept
  <2> QED
    BY <1>2, <1>3, <2>1, <2>2, AccountFacts, AccountOfVolume DEF Charging
<1>5. CASE nr[v].fresh
  <2>1. vol' = [vol EXCEPT ![v].cs = nr[v].cs] /\ rq' = Stale(rq, v)
    BY <1>5 DEF ReconcileUpdate
  <2>2. nr[v].cs \in {"Created", "Resized", "Removed", "Failed"}
    BY <1>2 DEF AccountInv, SizeInv, LVGInv, VolumeInv, NodeOK
  <2>3. nr[v].cs \in CSIStatus
    BY <2>2 DEF CSIStatus, Usable
  <2>4. /\ \A w \in Volume \ {v} : vol'[w] = vol[w]
        /\ vol'[v].cs = nr[v].cs /\ vol'[v].size = vol[v].size
        /\ vol'[v].prev = vol[v].prev /\ vol'[v].deleting = vol[v].deleting
    BY <1>1, <2>1, <2>3, StatusType
  <2>5. /\ \A w \in Volume \ {v} : rq'[w] = rq[w]
        /\ rq'[v].pc = rq[v].pc /\ rq'[v].op = rq[v].op /\ rq'[v].bytes = rq[v].bytes
        /\ rq'[v].seen = rq[v].seen
        /\ rq'[v].pc = "charge" => rq'[v] = rq[v]
    BY <1>1, <2>1, StaleRequest
  <2>7. rq'[v].pc = "mark" => ~rq'[v].fresh
    BY <1>1, <2>1, StaleRequest
  <2>6. ASSUME ac.onLVG
        PROVE  FitOK(v)' /\ WaitOK(v)' /\ Charge(v)' <= Charge(v)
    <3>1. \/ vol[v].cs \in {"Creating", "Resizing", "Removing"}
          \/ vol[v].cs = "Created" /\ nr[v].cs \in {"Removed", "Failed"}
      BY <1>2, <1>5, <2>2, <2>6, AccountFacts DEF FitOK
    <3>2. nr[v].cs = "Resized" => vol[v].prev # NoPrev
      BY <1>2, <2>6, AccountFacts DEF FitOK, SizeOK
    <3>5. ~Returned(v) /\ ~GivenBack(v) /\ v \in cached
      BY <2>6, <3>1, AccountFacts DEF Returned, GivenBack, RequestOK, FitOK, Exists, Absent
    <3>8. ~Returned(v)'
      BY <1>2, <2>4, <2>5, <3>5 DEF Returned
    <3>3. FitOK(v)'
      BY <1>2, <2>2, <2>4, <2>6, <3>1, <3>2, <3>5, <3>8, AccountFacts DEF FitOK, Extended
    <3>4. WaitOK(v)'
      BY <1>2, <2>4, <2>5, <2>6, AccountFacts DEF WaitOK
    <3>6. Charge(v) >= vol[v].size
      BY <2>6, <3>1, <3>5, AccountFacts DEF Charge, RequestOK
    <3>7. Charge(v)' <= vol[v].size
      <4>1. GivenBack(v)' => vol[v].prev.size < vol[v].size
        BY <2>4, <2>5, <2>6, AccountFacts DEF GivenBack, WaitOK, SizeOK
      <4> QED
        BY <2>2, <2>4, <2>5, <2>6, <2>7, <4>1, AccountFacts DEF Charge
    <3> QED
      BY <1>3, <2>6, <3>3, <3>4, <3>6, <3>7, AccountFacts
  <2> QED
    BY <1>2, <1>3, <2>4, <2>5, <2>6, AccountFacts, AccountOfVolume DEF Charging
<1> QED
  BY <1>4, <1>5

\* What a volume occupies it is charged with.
LEMMA ChargeHolds ==
  ASSUME AccountInv, ac.onLVG, NEW v \in Volume
  PROVE  Occupied(v) <= Charge(v) /\ lv[v] <= Charge(v)
<1>1. lv[v] <= Occupied(v) /\ Occupied(v) \in Nat /\ Charge(v) \in Nat
  BY AccountFacts, ChargeType DEF Occupied
<1>2. CASE vol[v].cs = "absent" \/ Returned(v)
  <2>1. vol[v].cs \in {"absent", "Removed", "gone"}
    BY <1>2, AccountFacts DEF Returned, RequestOK, VolumeOK, FitOK, Exists, Absent
  <2>2. lv[v] = 0
    BY <1>2, AccountFacts DEF VolumeOK, FitOK
  <2> QED
    BY <1>1, <2>1, <2>2 DEF Occupied
<1>3. CASE vol[v].cs = "gone" /\ ~Returned(v)
  BY <1>1, <1>3 DEF Occupied, Charge
<1>4. CASE vol[v].cs \notin Absent /\ ~Returned(v) /\ GivenBack(v)
  <2>1. vol[v].prev # NoPrev /\ ~Extended(v) /\ vol[v].cs = "Failed"
    BY <1>4, AccountFacts DEF GivenBack, WaitOK, SizeOK, Extended
  <2>2. lv[v] <= vol[v].prev.size
    BY <2>1, AccountFacts DEF FitOK
  <2> QED
    BY <1>1, <1>4, <2>1, <2>2 DEF Occupied, Charge, Absent
<1>5. CASE vol[v].cs \notin Absent /\ ~Returned(v) /\ ~GivenBack(v)
  <2>1. Charge(v) >= vol[v].size
    BY <1>5, AccountFacts DEF Charge, RequestOK, Absent
  <2>2. Occupied(v) <= vol[v].size
    BY AccountFacts DEF Occupied, FitOK
  <2> QED
    BY <1>1, <2>1, <2>2, AccountFacts
<1> QED
  BY <1>2, <1>3, <1>4, <1>5 DEF Absent

LEMMA RemoveFinalizerAccount ==
  ASSUME AccountInv, SizeInv', NEW v \in Volume, RemoveFinalizer(v)
  PROVE  AccountInv'
<1>1. TypeOK
  BY DEF AccountInv, SizeInv, LVGInv
<1>2. /\ UNCHANGED <<ac, lv, nr, cached, unpaid>> /\ nr[v].pc = "idle"
      /\ vol[v].cs \in {"Removed", "Failed"} /\ rq' = Stale(rq, v)
  BY DEF RemoveFinalizer
<1>3. /\ \A w \in Volume \ {v} : vol'[w] = vol[w]
      /\ vol'[v].cs = "gone" /\ vol'[v].size = vol[v].size
      /\ vol'[v].prev = vol[v].prev /\ ~vol'[v].deleting
  BY <1>1 DEF RemoveFinalizer, TypeOK, VolState
<1>4. /\ \A w \in Volume \ {v} : rq'[w] = rq[w]
      /\ rq'[v].pc = rq[v].pc /\ rq'[v].op = rq[v].op /\ rq'[v].bytes = rq[v].bytes
      /\ rq'[v].seen = rq[v].seen
      /\ rq'[v].pc = "charge" => rq'[v] = rq[v]
  BY <1>1, <1>2, StaleRequest
<1>5. ASSUME ac.onLVG
      PROVE  FitOK(v)' /\ WaitOK(v)' /\ Charge(v)' <= Charge(v)
  <2>1. (Returned(v) => lv[v] = 0) /\ (Returned(v)' => Returned(v))
    BY <1>3, <1>4, <1>5, AccountFacts DEF FitOK, Returned
  <2>2. FitOK(v)'
    BY <1>2, <1>3, <1>5, <2>1, AccountFacts
    DEF FitOK, Extended, Exists, Absent, Usable
  <2>3. WaitOK(v)'
    BY <1>2, <1>3, <1>4, <1>5, AccountFacts DEF WaitOK
  <2>4. Charge(v)' \in {0, lv[v]}
    BY <1>2, <1>3 DEF Charge
  <2>5. lv[v] <= Charge(v)
    BY <1>5, <2>1, ChargeHolds
  <2>6. lv[v] \in Nat /\ Charge(v) \in Nat
    BY <1>1, ChargeType DEF TypeOK
  <2> QED
    BY <2>2, <2>3, <2>4, <2>5, <2>6
<1>6. Charge(v) \in Int /\ Charge(v)' \in Int
  BY <1>1, ChargeType, ChargeTypeNext DEF SizeInv, LVGInv
<1> QED
  <2>1. ac.onLVG => ac.size \in Nat
    BY AccountFacts
  <2>2. ac'.onLVG => /\ FitOK(v)' /\ WaitOK(v)' /\ ac'.size >= 0
                     /\ ac'.size + Charge(v)' <= ac.size + Charge(v)
                     /\ ac'.size >= ac.size \/ LockFree
    BY <1>2, <1>5, <1>6, <2>1
  <2> QED
    BY <1>2, <1>3, <1>4, <2>2, AccountOfVolume DEF Charging

\* A user deletes a Volume: an expansion that is about to be marked is refused.
LEMMA DeleteVolumeObjectAccount ==
  ASSUME AccountInv, SizeInv', NEW v \in Volume, DeleteVolumeObject(v)
  PROVE  AccountInv'
<1>1. TypeOK
  BY DEF AccountInv, SizeInv, LVGInv
<1>2. /\ UNCHANGED <<ac, lv, cached, unpaid>> /\ Exists(v) /\ ~vol[v].deleting
      /\ vol' = [vol EXCEPT ![v].deleting = TRUE]
      /\ rq' = Stale(rq, v) /\ nr' = Stale(nr, v)
  BY DEF DeleteVolumeObject
<1>3. /\ \A w \in Volume \ {v} : vol'[w] = vol[w]
      /\ vol'[v].cs = vol[v].cs /\ vol'[v].size = vol[v].size
      /\ vol'[v].prev = vol[v].prev /\ vol'[v].deleting
  BY <1>1, <1>2 DEF TypeOK, VolState
<1>4. /\ \A w \in Volume \ {v} : rq'[w] = rq[w] /\ nr'[w] = nr[w]
      /\ rq'[v].pc = rq[v].pc /\ rq'[v].op = rq[v].op /\ rq'[v].bytes = rq[v].bytes
      /\ rq'[v].seen = rq[v].seen
      /\ rq'[v].pc = "charge" => rq'[v] = rq[v]
      /\ rq'[v].pc = "mark" => ~rq'[v].fresh
      /\ nr'[v].pc = nr[v].pc /\ nr'[v].cs = nr[v].cs
      /\ nr[v].pc # "idle" => ~nr'[v].fresh
  BY <1>1, <1>2, StaleRequest, StaleNode
<1>5. ASSUME ac.onLVG
      PROVE  FitOK(v)' /\ WaitOK(v)' /\ Charge(v)' <= Charge(v)
  <2>1. (Returned(v) => Returned(v)') /\ (GivenBack(v)' <=> GivenBack(v))
    BY <1>2, <1>3, <1>4 DEF Returned, GivenBack
  <2>2. Returned(v)' => lv[v] = 0
    BY <1>2, <1>3, <1>4, <1>5, AccountFacts DEF FitOK, Returned
  <2>3. FitOK(v)'
    BY <1>2, <1>3, <1>4, <1>5, <2>2, AccountFacts DEF FitOK, Extended, Exists
  <2>4. WaitOK(v)'
    BY <1>2, <1>3, <1>4, <1>5, AccountFacts DEF WaitOK
  <2>5. rq[v].pc = "mark" /\ rq[v].fresh => rq[v].bytes >= vol[v].size
    BY <1>5, AccountFacts DEF RequestOK
  <2>6. Charge(v)' <= Charge(v)
    BY <1>2, <1>3, <1>4, <1>5, <2>1, <2>5, AccountFacts DEF Charge
  <2> QED
    BY <2>3, <2>4, <2>6
<1>6. Charge(v) \in Int /\ Charge(v)' \in Int
  BY <1>1, ChargeType, ChargeTypeNext DEF SizeInv, LVGInv
<1> QED
  BY <1>2, <1>3, <1>4, <1>5, <1>6, AccountFacts, AccountOfVolume DEF Charging

\* Restarts, what the LVG controller does, and the reset of a failed LVG's AC.
LEMMA GroupAccount ==
  ASSUME AccountInv, SizeInv', PairCompleted,
         \/ Restart \/ NodeRestart \/ LvgReconcile
         \/ ResetACSizeOfLVG \/ DeleteFailedLVG
  PROVE  AccountInv'
<1> USE DEF LvgReconcile, AppendFinalizer, CreatePV, CreateVG, HandlerLVGCreation,
            HandleLVGRemoving, HandleLVGRemovingPanics, CheckLVs, RemoveVG, RemovePV,
            RemoveLVGFinalizer
<1>0. TypeOK
  BY DEF AccountInv, SizeInv, LVGInv
<1>1. /\ UNCHANGED <<vol, unpaid>>
      /\ nr' = nr \/ nr' = [v \in Volume |-> NoWork]
  BY DEF Restart, NodeRestart, ResetACSizeOfLVG, DeleteFailedLVG
<1>2. ac' = ac \/ (ac'.onLVG = ac.onLVG /\ ac'.size = 0 /\ ResetACSizeOfLVG)
  BY <1>0, ResetACStep DEF Restart, NodeRestart, DeleteFailedLVG
<1>3. \/ rq' = rq /\ cached' = cached
      \/ rq' = [v \in Volume |-> NoRequest] /\ cached' = {v \in Volume : Exists(v)}
      \/ ResetACSizeOfLVG /\ cached' = cached
  BY DEF Restart, NodeRestart, ResetACSizeOfLVG, DeleteFailedLVG
<1>4. ac.onLVG => \A v \in Volume : lv'[v] = lv[v]
  <2>1. CASE RemoveVG
    <3>1. \A v \in Volume : lv'[v] = lv[v] \/ lv'[v] = 0
      BY <2>1, RemoveVGInv DEF AccountInv, SizeInv
    <3>2. ac.onLVG => \A v \in Volume : lv[v] = 0
      BY <2>1 DEF AccountInv, SizeInv, LVGInv, VolumeInv, NoGroupYet, NoGroup, GroupOK
    <3> QED
      BY <3>1, <3>2
  <2>2. CASE ~RemoveVG
    BY <2>2 DEF Restart, NodeRestart, ResetACSizeOfLVG, DeleteFailedLVG
  <2> QED
    BY <2>1, <2>2
<1>5. ASSUME ac.onLVG, NEW v \in Volume
      PROVE  FitOK(v)' /\ WaitOK(v)' /\ Charge(v)' <= Charge(v)
  <2>1. \/ nr'[v] = nr[v]
        \/ nr'[v].pc = "idle" /\ (Extended(v) => vol[v].cs = "Resized")
    BY <1>1, <1>5, ConstantTypes DEF PairCompleted, Extended
  <2>2. CASE rq' = rq /\ cached' = cached
    BY <1>1, <1>4, <1>5, <2>1, <2>2, AccountKept
  <2>3. CASE rq' = [w \in Volume |-> NoRequest] /\ cached' = {w \in Volume : Exists(w)}
    <3>1. rq'[v].pc = "idle" /\ (v \in cached' <=> Exists(v))
      BY <2>3, ConstantTypes
    <3>2. /\ Returned(v) => Returned(v)' \/ vol[v].cs = "gone"
          /\ GivenBack(v) => GivenBack(v)' \/ vol'[v].size = vol[v].prev.size
      BY <1>1, <1>5 DEF PairCompleted, GivenBack
    <3> QED
      BY <1>1, <1>4, <1>5, <2>1, <3>1, <3>2, AccountKept
  <2>4. CASE ResetACSizeOfLVG /\ cached' = cached
    <3>1. /\ rq'[v].pc = rq[v].pc /\ rq'[v].bytes = rq[v].bytes
          /\ rq'[v] = rq[v] \/ (rq[v].pc = "charge" /\ ~rq'[v].fresh)
      BY <1>0, <2>4, ResetACStep
    <3>2. rq'[v].op = rq[v].op /\ rq'[v].seen = rq[v].seen
      BY <1>0, <2>4 DEF ResetACSizeOfLVG, TypeOK, Request
    <3> QED
      BY <1>1, <1>4, <1>5, <2>1, <2>4, <3>1, <3>2, AccountKept
  <2> QED
    BY <1>3, <2>2, <2>3, <2>4
<1>6. \A w \in Volume : Charging(w)' => Charging(w) /\ rq'[w].bytes = rq[w].bytes
  <2>1. CASE rq' = rq
    BY <2>1 DEF Charging
  <2>2. CASE rq' = [v \in Volume |-> NoRequest]
    BY <2>2, ConstantTypes DEF Charging
  <2>3. CASE ResetACSizeOfLVG
    BY <1>0, <2>3, ResetACStep DEF Charging
  <2> QED
    BY <1>3, <2>1, <2>2, <2>3
<1>7. ac.onLVG => ChargeOK' /\ ac'.size >= 0 /\ ac'.size <= ac.size
  <2> SUFFICES ASSUME ac.onLVG PROVE ChargeOK' /\ ac'.size >= 0 /\ ac'.size <= ac.size
    OBVIOUS
  <2>1. ac.size \in Int /\ ac.size >= 0
    BY <1>0 DEF AccountInv, TypeOK
  <2>2. CASE ac' = ac
    BY <1>6, <2>1, <2>2, ChargeKept
  <2>3. CASE ac'.size = 0 /\ ResetACSizeOfLVG
    <3>1. \A w \in Volume : ~Charging(w)'
      BY <1>0, <2>3, ResetACStep DEF Charging
    <3> QED
      BY <1>6, <2>1, <2>3, <3>1, ChargeKept
  <2> QED
    BY <1>2, <2>2, <2>3
<1>8. ac'.onLVG = ac.onLVG
  BY <1>2
<1> QED
  BY <1>1, <1>5, <1>7, <1>8, AccountGoesOn

LEMMA NextAccount == AccountInv /\ [Next]_vars /\ [PairCompleted]_vars => AccountInv'
<1> SUFFICES ASSUME AccountInv, [Next]_vars, [PairCompleted]_vars
             PROVE  AccountInv'
  OBVIOUS
<1>1. SizeInv'
  BY NextSize DEF AccountInv
<1>2. CASE UNCHANGED vars
  <2>1. ASSUME ac.onLVG, NEW v \in Volume
        PROVE  FitOK(v)' /\ WaitOK(v)' /\ Charge(v)' <= Charge(v)
    BY <1>2, <2>1, AccountKept DEF vars
  <2>2. ac.onLVG => ChargeOK' /\ ac'.size >= 0 /\ ac'.size <= ac.size
    BY <1>2 DEF vars, AccountInv, SizeInv, LVGInv, TypeOK, ChargeOK, Charging
  <2> QED
    BY <1>1, <1>2, <2>1, <2>2, AccountGoesOn DEF vars
<1>3. CASE Next /\ PairCompleted
  <2>1. ASSUME NEW v \in Volume, ControllerNext(v)
        PROVE  AccountInv'
    BY <1>1, <1>3, <2>1, CreateAccount, CreateChargeAccount, OverwriteAccount,
       DeleteStartAccount,
       DeleteCreditAccount, DeleteVolumeCRAccount, RequestAccount, ExpandStartAccount,
       ExpandReserveAccount, ExpandMarkAccount, ExpandCreditAccount,
       ExpandRestoreAccount
    DEF ControllerNext, DeleteStep, ExpandStep
  <2>2. ASSUME NEW v \in Volume, NodeNext(v)
        PROVE  AccountInv'
    BY <1>1, <1>3, <2>2, ReconcileReadAccount, WorkAccount, ReconcileUpdateAccount,
       RemoveFinalizerAccount, OverwriteAccount
    DEF NodeNext
  <2>3. ASSUME NEW v \in Volume, DeleteVolumeObject(v)
        PROVE  AccountInv'
    BY <1>1, <2>3, DeleteVolumeObjectAccount
  <2> QED
    BY <1>1, <1>3, <2>1, <2>2, <2>3, GroupAccount DEF Next
<1> QED
  BY <1>2, <1>3

\* What makes the AC offer no more than the volumes leave: the charge of a volume is
\* at least what it occupies.
LEMMA ChargeCovers == AccountInv => NoOvercommit
<1> SUFFICES ASSUME AccountInv, ac.onLVG
             PROVE  ac.size + Total([v \in Volume |-> Occupied(v)]) <= VGSize + unpaid
  BY DEF NoOvercommit
<1> DEFINE taken == [v \in Volume |-> Occupied(v)]
           charged == [v \in Volume |-> Charge(v)]
<1>1. ASSUME NEW v \in Volume
      PROVE  Occupied(v) \in Int /\ Charge(v) \in Int /\ Occupied(v) <= Charge(v)
  <2>1. Occupied(v) \in Nat /\ Charge(v) \in Nat
    BY AccountFacts, ChargeType DEF Occupied
  <2> QED
    BY <2>1, ChargeHolds
<1>2. taken \in [Volume -> Int] /\ charged \in [Volume -> Int]
  BY <1>1
<1>3. \A v \in Volume : taken[v] <= charged[v]
  BY <1>1
<1>4. /\ ac.size + Total(charged) <= VGSize + unpaid /\ ac.size \in Int
      /\ VGSize \in Int /\ unpaid \in Int
  BY LVGVolumesAssumption DEF AccountInv, SizeInv, LVGInv, TypeOK
<1> HIDE DEF taken, charged
<1>5. Total(taken) <= Total(charged) /\ Total(taken) \in Int /\ Total(charged) \in Int
  BY <1>2, <1>3, TotalGrows, TotalType
<1>6. ac.size + Total(taken) <= VGSize + unpaid
  BY <1>4, <1>5
<1> QED
  BY <1>6 DEF taken

\* The AC of an LVG never offers more than the volumes that exist or that have left
\* an LV leave of the group, and what CreateVolume has not taken from it, whatever
\* the order of requests, Reconcile and node RPCs: as long as deletion, expansion and
\* Reconcile complete their pairs of writes, so that each byte is given back once and
\* after the LV has let go of it.  Of the pair of CreateVolume nothing is assumed.
THEOREM Accounted == OneSizeAsked /\ Spec /\ [][PairCompleted]_vars => []NoOvercommit
<1>1. OneSizeAsked /\ Init => AccountInv
  BY InitInv, InitSize, InitAccount DEF SizeInv
<1> QED
  BY <1>1, NextAccount, ChargeCovers, PTL DEF Spec
=============================================================================
