------------------------------ MODULE Planner -------------------------------
(***************************************************************************)
(* Placing the volumes of one pod on the AvailableCapacity (AC) objects of *)
(* the nodes: pkg/base/capacityplanner (planner.go, node_capacity.go,      *)
(* placing_plan.go).  Everything here is a function of two lists the       *)
(* planner has read, the ACs and the reservations (ACRs); which moment     *)
(* each list was read at is the business of module Reservation.            *)
(*                                                                         *)
(* The code walks sorted slices and keeps the first AC that fits.  Here a  *)
(* placement is described instead: every volume has the first AC, in the   *)
(* code's order, that is eligible once the volumes before it are placed.   *)
(* There is at most one such placement, the one the loop computes.         *)
(***************************************************************************)
EXTENDS CapacityMath, FiniteSets, FiniteSetsExt

CONSTANTS
  Node,       \* node IDs
  AC,         \* names of AvailableCapacity objects
  Pod,        \* names of pods; the ACR of a pod is named after it
  Claim,      \* names of the volume requests of all pods
  ACSpec,     \* per AC: node, storage group label, taint, place in name order,
              \*   and the size and storage class it starts with
  ClaimSpec   \* per claim: pod, size, storage class, storage group, and its
              \*   place in the order in which ACRs list their requests

\* Storage classes (api/v1/constants.go)
DriveSC == {"HDD", "SSD", "NVME"}
LVGSC   == {"HDDLVG", "SSDLVG", "NVMELVG", "SYSLVG"}
SC      == DriveSC \cup LVGSC \cup {"ANY"}

IsStorageClassLVG(sc) == sc \in LVGSC

ASSUME ACSpecAssumption ==
  /\ ACSpec \in [AC -> [node : Node, sg : STRING, tainted : BOOLEAN,
                        rank : Nat, size : Nat, sc : SC]]
  /\ \A a, b \in AC : ACSpec[a].rank = ACSpec[b].rank => a = b

ASSUME ClaimSpecAssumption ==
  /\ ClaimSpec \in [Claim -> [pod : Pod, size : Nat, sc : SC, sg : STRING,
                              rank : Nat]]
  /\ \A c, d \in Claim : ClaimSpec[c].rank = ClaimSpec[d].rank => c = d

ClaimsOf(p) == {c \in Claim : ClaimSpec[c].pod = p}
IsLVG(c)    == IsStorageClassLVG(ClaimSpec[c].sc)

\* The state of an AC the planner reads, and of an ACR: "none" stands for
\* an ACR object that does not exist.  reqs maps each request the ACR lists
\* to the names of the ACs reserved for it.
ACState == [size : Int, sc : SC]

ReqMap == UNION {[S -> SUBSET AC] : S \in SUBSET Claim}

ACR == [status    : {"none", "REQUESTED", "RESERVED", "REJECTED"},
        reqs      : ReqMap,
        requested : SUBSET Node,
        reserved  : SUBSET Node]

NoReqs == [c \in {} |-> {}]
NoACR  == [status |-> "none", reqs |-> NoReqs, requested |-> {}, reserved |-> {}]

-----------------------------------------------------------------------------
(* What the confirmed reservations hold.                                   *)

\* The requests of ACRs in status RESERVED.
ConfirmedRequests(acrs) ==
  UNION {{<<p, c>> : c \in DOMAIN acrs[p].reqs} :
           p \in {q \in Pod : acrs[q].status = "RESERVED"}}

HoldersOf(acrs, a) ==
  {r \in ConfirmedRequests(acrs) : a \in acrs[r[1]].reqs[r[2]]}

\* The first request that names the AC makes the entry of reservedACs for it,
\* and fixes the entry's storage class.
FirstHolder(acrs, a) ==
  CHOOSE r \in HoldersOf(acrs, a) :
    \A s \in HoldersOf(acrs, a) : ClaimSpec[r[2]].rank <= ClaimSpec[s[2]].rank

\* One reservedCapacity object is shared by every AC a request is the first
\* holder of, and any later request that names one of those ACs adds its size
\* to the shared object, once for each AC it names.
HeldSize(acrs, a) ==
  LET owner       == FirstHolder(acrs, a)
      sharing     == {b \in AC : /\ HoldersOf(acrs, b) # {}
                                 /\ FirstHolder(acrs, b) = owner}
      additions   == {x \in ConfirmedRequests(acrs) \X sharing :
                        /\ x[1] # owner
                        /\ x[2] \in acrs[x[1][1]].reqs[x[1][2]]}
  IN  ClaimSpec[owner[2]].size
        + MapThenSumSet(LAMBDA x : ClaimSpec[x[1][2]].size, additions)

-----------------------------------------------------------------------------
(* Choosing ACs on one node.                                               *)

\* The storage classes of the ACs a class may be served from, in order.
ClassOrder(sc) ==
  CASE sc = "ANY"     -> <<"ANY", "HDD", "SSD", "NVME">>
    [] sc = "HDDLVG"  -> <<"HDDLVG", "HDD">>
    [] sc = "SSDLVG"  -> <<"SSDLVG", "SSD">>
    [] sc = "NVMELVG" -> <<"NVMELVG", "NVME">>
    [] OTHER          -> <<sc>>

ClassPlace(sc, acsc) ==
  CHOOSE i \in DOMAIN ClassOrder(sc) : ClassOrder(sc)[i] = acsc

\* nc.acsOrder[sc] as a set: untainted ACs of the node with a suitable class.
Candidates(acs, n, sc) ==
  {a \in AC : /\ ACSpec[a].node = n
              /\ ~ACSpec[a].tainted
              /\ \E i \in DOMAIN ClassOrder(sc) : ClassOrder(sc)[i] = acs[a].sc}

\* The order of nc.acsOrder[sc]: by class, then by size, then by name.
ACBefore(acs, sc, a, b) ==
  LET i == ClassPlace(sc, acs[a].sc)
      j == ClassPlace(sc, acs[b].sc)
  IN  \/ i < j
      \/ /\ i = j
         /\ \/ acs[a].size < acs[b].size
            \/ acs[a].size = acs[b].size /\ ACSpec[a].rank < ACSpec[b].rank

\* The order in which volumes are placed: LVG first, then by size.
VolBefore(u, v) ==
  \/ IsLVG(u) /\ ~IsLVG(v)
  \/ /\ IsLVG(u) <=> IsLVG(v)
     /\ \/ ClaimSpec[u].size < ClaimSpec[v].size
        \/ /\ ClaimSpec[u].size = ClaimSpec[v].size
           /\ ClaimSpec[u].rank < ClaimSpec[v].rank

RequiredSize(v) ==
  IF IsLVG(v) THEN AlignSizeByPE(ClaimSpec[v].size) ELSE ClaimSpec[v].size

\* Mutant of Earlier: what the plan itself has taken is not recorded.
EarlierForgotten(plan, v, a) == {}

\* Volumes of the same pod that the plan has put on AC a before volume v.
Earlier(plan, v, a) == {u \in DOMAIN plan : VolBefore(u, v) /\ plan[u] = a}

FirstOf(vols) == CHOOSE u \in vols : \A w \in vols : w = u \/ VolBefore(u, w)

\* Whether nc.reservedACs has an entry for the AC when v is placed, that
\* entry's storage class, and its size.  An entry made by the plan itself
\* starts with the volume's own size and grows by aligned sizes.
IsReserved(acrs, plan, v, a) ==
  HoldersOf(acrs, a) # {} \/ Earlier(plan, v, a) # {}

ReservedForLVG(acrs, plan, v, a) ==
  IF HoldersOf(acrs, a) # {}
  THEN IsLVG(FirstHolder(acrs, a)[2])
  ELSE IsLVG(FirstOf(Earlier(plan, v, a)))

ReservedSize(acrs, plan, v, a) ==
  LET earlier == Earlier(plan, v, a)
      added(vols) == MapThenSumSet(RequiredSize, vols)
  IN  IF HoldersOf(acrs, a) # {}
      THEN HeldSize(acrs, a) + added(earlier)
      ELSE LET u == FirstOf(earlier)
           IN  ClaimSpec[u].size + added(earlier \ {u})

\* The conditions under which selectACForVolume returns the AC for v.
Eligible(acs, acrs, n, plan, v, a) ==
  /\ a \in Candidates(acs, n, ClaimSpec[v].sc)
  /\ RequiredSize(v) <= acs[a].size
  /\ ACSpec[a].sg = ClaimSpec[v].sg
  /\ IsReserved(acrs, plan, v, a) =>
       /\ IsLVG(v)
       /\ ReservedForLVG(acrs, plan, v, a)
       /\ ReservedSize(acrs, plan, v, a) + RequiredSize(v) <= acs[a].size

\* selectCapacityOnNode: all volumes of the pod are placed, or none is.
Placements(acs, acrs, n, vols) ==
  {plan \in [vols -> AC] :
     \A v \in vols :
       /\ Eligible(acs, acrs, n, plan, v, plan[v])
       /\ \A b \in AC \ {plan[v]} :
            Eligible(acs, acrs, n, plan, v, b) =>
              ACBefore(acs, ClaimSpec[v].sc, plan[v], b)}

\* The nodes of the plan, and GetACsForVolumes: the ACs of a volume on them.
MatchedNodes(acs, acrs, nodes, vols) ==
  {n \in nodes : Placements(acs, acrs, n, vols) # {}}

ACsForVolumes(acs, acrs, nodes, vols) ==
  [v \in vols |-> {(CHOOSE plan \in Placements(acs, acrs, n, vols) : TRUE)[v] :
                     n \in MatchedNodes(acs, acrs, nodes, vols)}]

\* Mutant of IsLVGCapacityReserved: the classes compared are the non-LVG ones.
IsDriveCapacityReserved(acrs, vols) ==
  \E r \in ConfirmedRequests(acrs), v \in vols :
    ~IsLVG(v) /\ ClaimSpec[v].sc = ClaimSpec[r[2]].sc

\* Another ACR is confirmed for a volume of an LVG class this pod asks for.
IsLVGCapacityReserved(acrs, vols) ==
  \E r \in ConfirmedRequests(acrs), v \in vols :
    IsLVG(v) /\ ClaimSpec[v].sc = ClaimSpec[r[2]].sc
=============================================================================
