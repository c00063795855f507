------------------------- MODULE ReservationProofs --------------------------
(* Proofs about module Reservation, for every value of its constants.      *)
EXTENDS Reservation, FiniteSetTheorems, WellFoundedInduction, TLAPS

-----------------------------------------------------------------------------
(* The size arithmetic that planner and CreateVolume share, for any number *)
(* of bytes in a megabyte.                                                  *)

LEMMA Division ==
  ASSUME NEW n \in Nat, NEW p \in Nat \ {0}
  PROVE  /\ n \div p \in Nat
         /\ (n % p) \in 0 .. (p - 1)
         /\ n = (p * (n \div p)) + (n % p)
BY SMT

\* Between two multiples of p there is at least p.
LEMMA MultiplesApart ==
  ASSUME NEW p \in Nat \ {0}, NEW k \in Int, NEW m \in Int, p * k < p * m
  PROVE  (p * k) + p <= p * m
BY SMT

\* AlignSizeByPE returns the smallest number of whole extents that a volume of
\* the requested size fits in: what lvcreate allocates, and no extent more.
THEOREM AlignedIsLeast ==
  ASSUME NEW size \in Nat
  PROVE  /\ \E k \in Nat : AlignSizeByPE(size) = DefaultPESize * k
         /\ size <= AlignSizeByPE(size)
         /\ \A k \in Nat : size <= DefaultPESize * k =>
                             AlignSizeByPE(size) <= DefaultPESize * k
<1> DEFINE p == DefaultPESize
           q == size \div p
           r == size % p
<1>1. p \in Nat \ {0}
  BY MBYTEAssumption, SMT DEF DefaultPESize
<1>2. q \in Nat /\ r \in 0 .. (p - 1) /\ size = (p * q) + r
  BY <1>1, Division
<1>3. p * q \in Nat /\ p * (q + 1) = (p * q) + p
  BY <1>1, <1>2, SMT
<1>4. CASE r = 0
  <2>1. AlignSizeByPE(size) = p * q
    BY <1>2, <1>3, <1>4 DEF AlignSizeByPE
  <2> HIDE DEF q, r
  <2>2. size = p * q
    BY <1>2, <1>3, <1>4
  <2>3. QED
    BY <2>1, <2>2, <1>2
<1>5. CASE r # 0
  <2>1. AlignSizeByPE(size) = size + (p - r)
    BY <1>5 DEF AlignSizeByPE
  <2> HIDE DEF p, q, r
  <2>2. AlignSizeByPE(size) = p * (q + 1) /\ size <= p * (q + 1)
    BY <2>1, <1>1, <1>2, <1>3
  <2>3. ASSUME NEW k \in Nat, size <= p * k
        PROVE  p * (q + 1) <= p * k
    <3>1. p * k \in Nat
      BY <1>1, SMT
    <3>2. p * q < p * k
      BY <1>1, <1>2, <1>3, <1>5, <2>3, <3>1
    <3>3. QED
      BY <3>2, <1>1, <1>2, <1>3, MultiplesApart
  <2>4. q + 1 \in Nat
    BY <1>2
  <2>5. QED
    BY <2>2, <2>3, <2>4 DEF p
<1>6. QED
  BY <1>4, <1>5

\* SubtractLVMMetadataSize returns the largest number of whole extents of a
\* drive that leaves room for the LVM metadata.  For a drive too small for one
\* extent and the metadata that number is not positive, which the code does not
\* look at.
THEOREM GroupSpaceIsMost ==
  ASSUME NEW size \in Nat
  PROVE  /\ \E k \in Int : SubtractLVMMetadataSize(size) = DefaultPESize * k
         /\ SubtractLVMMetadataSize(size) + LvgDefaultMetadataSize <= size
         /\ \A k \in Int : (DefaultPESize * k) + LvgDefaultMetadataSize <= size =>
                             DefaultPESize * k <= SubtractLVMMetadataSize(size)
<1> DEFINE p == DefaultPESize
           d == LvgDefaultMetadataSize
           q == size \div p
           r == size % p
           s == SubtractLVMMetadataSize(size)
<1>1. p \in Nat \ {0} /\ d \in Nat \ {0} /\ d < p
  BY MBYTEAssumption, SMT DEF DefaultPESize, LvgDefaultMetadataSize
<1>2. q \in Nat /\ r \in 0 .. (p - 1) /\ size = (p * q) + r
  BY <1>1, Division
<1>3. /\ p * q \in Nat /\ p * (q + 1) = (p * q) + p
      /\ p * (q - 1) = (p * q) - p
  BY <1>1, <1>2, SMT
<1>4. CASE r < d
  <2>1. s = (size - r) - p
    BY <1>4 DEF SubtractLVMMetadataSize
  <2> HIDE DEF p, d, q, r, s
  <2>2. s = p * (q - 1) /\ q - 1 \in Int /\ s + d <= size
    BY <2>1, <1>1, <1>2, <1>3
  <2>3. ASSUME NEW k \in Int, (p * k) + d <= size
        PROVE  p * k <= s
    <3>1. p * k \in Int
      BY <1>1, SMT
    <3>2. p * k < p * q
      BY <1>1, <1>2, <1>3, <1>4, <2>3, <3>1
    <3>3. (p * k) + p <= p * q
      BY <3>2, <1>1, <1>2, MultiplesApart
    <3>4. QED
      BY <3>1, <3>3, <2>2, <1>1, <1>3
  <2>4. QED
    BY <2>2, <2>3 DEF p, d, s
<1>5. CASE ~(r < d)
  <2>1. s = size - r
    BY <1>5 DEF SubtractLVMMetadataSize
  <2> HIDE DEF p, d, q, r, s
  <2>2. s = p * q /\ q \in Int /\ s + d <= size
    BY <2>1, <1>1, <1>2, <1>3, <1>5
  <2>3. ASSUME NEW k \in Int, (p * k) + d <= size
        PROVE  p * k <= s
    <3>1. p * k \in Int
      BY <1>1, SMT
    <3>2. p * k < p * (q + 1)
      BY <1>1, <1>2, <1>3, <2>3, <3>1
    <3>3. (p * k) + p <= p * (q + 1)
      BY <3>2, <1>1, <1>2, MultiplesApart
    <3>4. QED
      BY <3>1, <3>3, <2>2, <1>1, <1>3
  <2>4. QED
    BY <2>2, <2>3 DEF p, d, s
<1>6. QED
  BY <1>4, <1>5

\* The two together: a claim rounded up to extents is within what the planner
\* may give out of a new group exactly when some number of whole extents holds
\* the claim and leaves room for the metadata on the drive.
THEOREM FitsNewGroup ==
  ASSUME NEW claim \in Nat, NEW drive \in Nat
  PROVE  AlignSizeByPE(claim) <= SubtractLVMMetadataSize(drive) <=>
           \E k \in Nat : /\ claim <= DefaultPESize * k
                          /\ (DefaultPESize * k) + LvgDefaultMetadataSize <= drive
<1>1. DefaultPESize \in Nat /\ LvgDefaultMetadataSize \in Nat
  BY MBYTEAssumption, SMT DEF DefaultPESize, LvgDefaultMetadataSize
<1>2. \A k \in Int : DefaultPESize * k \in Int
  BY <1>1, SMT
<1>3. PICK a \in Nat : AlignSizeByPE(claim) = DefaultPESize * a
  BY AlignedIsLeast
<1>4. PICK s \in Int : SubtractLVMMetadataSize(drive) = DefaultPESize * s
  BY GroupSpaceIsMost
<1>5. ASSUME DefaultPESize * a <= DefaultPESize * s
      PROVE  /\ claim <= DefaultPESize * a
             /\ (DefaultPESize * a) + LvgDefaultMetadataSize <= drive
  <2>1. claim <= DefaultPESize * a
    BY <1>3, AlignedIsLeast
  <2>2. (DefaultPESize * s) + LvgDefaultMetadataSize <= drive
    BY <1>4, GroupSpaceIsMost
  <2>3. QED
    BY <2>1, <2>2, <1>1, <1>2, <1>5
<1>6. ASSUME NEW k \in Nat, claim <= DefaultPESize * k,
             (DefaultPESize * k) + LvgDefaultMetadataSize <= drive
      PROVE  DefaultPESize * a <= DefaultPESize * s
  <2>1. DefaultPESize * a <= DefaultPESize * k
    BY <1>3, <1>6, AlignedIsLeast
  <2>2. DefaultPESize * k <= DefaultPESize * s
    BY <1>4, <1>6, GroupSpaceIsMost
  <2>3. QED
    BY <2>1, <2>2, <1>2
<1>7. QED
  BY <1>3, <1>4, <1>5, <1>6

-----------------------------------------------------------------------------
(* What the planner guarantees about the placements it returns, whatever   *)
(* lists of ACs and reservations it was given.                             *)

\* Membership in the set of confirmed requests, spelled out.
LEMMA ConfirmedMember ==
  ASSUME NEW R, NEW r
  PROVE  r \in ConfirmedRequests(R) <=>
           /\ r = <<r[1], r[2]>>
           /\ r[1] \in Pod
           /\ R[r[1]].status = "RESERVED"
           /\ r[2] \in DOMAIN R[r[1]].reqs
BY DEF ConfirmedRequests

\* A nonempty set of natural numbers has a least element.
LEMMA LeastNat ==
  ASSUME NEW S \in SUBSET Nat, S # {}
  PROVE  \E m \in S : \A n \in S : m <= n
<1>1. PICK m \in S : \A n \in S : ~(<<n, m>> \in OpToRel(<, Nat))
  BY NatLessThanWellFounded, WFMin
<1>2. ASSUME NEW n \in S, n < m
      PROVE  <<n, m>> \in OpToRel(<, Nat)
  BY <1>2 DEF OpToRel
<1>3. \A n \in S : ~(n < m)
  BY <1>1, <1>2, Zenon
<1> QED
  BY <1>3

\* An AC that is held has a first holder, and it is one of the holders.
LEMMA FirstHolderHolds ==
  ASSUME NEW R, NEW a, HoldersOf(R, a) # {},
         \A r \in ConfirmedRequests(R) : r[2] \in Claim
  PROVE  FirstHolder(R, a) \in HoldersOf(R, a)
<1> DEFINE H == HoldersOf(R, a)
           Ranks == {ClaimSpec[r[2]].rank : r \in H}
<1>1. \A r \in H : ClaimSpec[r[2]].rank \in Nat
  BY ClaimSpecAssumption DEF HoldersOf
<1>2. Ranks \in SUBSET Nat /\ Ranks # {}
  BY <1>1
<1>3. PICK m \in Ranks : \A n \in Ranks : m <= n
  BY <1>2, LeastNat
<1>4. \E r \in H : \A s \in H : ClaimSpec[r[2]].rank <= ClaimSpec[s[2]].rank
  BY <1>3
<1> QED
  BY <1>4 DEF FirstHolder

\* The order in which volumes are placed is total and puts LVG volumes first.
LEMMA VolBeforeTotal ==
  ASSUME NEW u \in Claim, NEW v \in Claim, u # v
  PROVE  /\ VolBefore(u, v) \/ VolBefore(v, u)
         /\ VolBefore(u, v) /\ IsLVG(v) => IsLVG(u)
<1>1. /\ ClaimSpec[u].rank \in Nat /\ ClaimSpec[v].rank \in Nat
      /\ ClaimSpec[u].size \in Nat /\ ClaimSpec[v].size \in Nat
      /\ ClaimSpec[u].rank # ClaimSpec[v].rank
  BY ClaimSpecAssumption
<1> QED
  BY <1>1 DEF VolBefore

\* A placement puts two volumes of one pod on the same AC only when both are
\* of an LVG class.
LEMMA PlacementIsExclusive ==
  ASSUME NEW A, NEW R, NEW n, NEW vols \in SUBSET Claim,
         NEW plan \in Placements(A, R, n, vols),
         NEW u \in vols, NEW v \in vols, u # v, plan[u] = plan[v]
  PROVE  IsLVG(u) /\ IsLVG(v)
<1>1. ASSUME NEW x \in vols, NEW y \in vols, x # y, plan[x] = plan[y],
             VolBefore(x, y)
      PROVE  IsLVG(x) /\ IsLVG(y)
  <2>1. plan \in [vols -> AC]
    BY DEF Placements
  <2>2. x \in Earlier(plan, y, plan[y])
    BY <1>1, <2>1 DEF Earlier
  <2>3. IsReserved(R, plan, y, plan[y])
    BY <2>2 DEF IsReserved
  <2>4. Eligible(A, R, n, plan, y, plan[y])
    BY <1>1 DEF Placements
  <2>5. IsLVG(y)
    BY <2>3, <2>4 DEF Eligible
  <2> QED
    BY <1>1, <2>5, VolBeforeTotal
<1> QED
  BY <1>1, VolBeforeTotal

\* A placement uses an AC some confirmed request holds only for an LVG volume
\* and only when the AC is held for an LVG class.
LEMMA PlacementRespectsHolders ==
  ASSUME NEW A, NEW R, NEW n, NEW vols,
         NEW plan \in Placements(A, R, n, vols),
         NEW v \in vols, HoldersOf(R, plan[v]) # {}
  PROVE  IsLVG(v) /\ IsLVG(FirstHolder(R, plan[v])[2])
<1>1. Eligible(A, R, n, plan, v, plan[v])
  BY DEF Placements
<1>2. IsReserved(R, plan, v, plan[v])
  BY DEF IsReserved
<1> QED
  BY <1>1, <1>2 DEF Eligible, ReservedForLVG

\* A placement for a node uses that node's ACs.
LEMMA PlacementOnNode ==
  ASSUME NEW A, NEW R, NEW n, NEW vols,
         NEW plan \in Placements(A, R, n, vols), NEW v \in vols
  PROVE  plan[v] \in AC /\ ACSpec[plan[v]].node = n
<1>1. Eligible(A, R, n, plan, v, plan[v])
  BY DEF Placements
<1> QED
  BY <1>1 DEF Eligible, Candidates

\* The plan GetACsForVolumes returns: each AC listed for a volume is the one of
\* some matched node's placement, and each matched node contributes one.
LEMMA PlanElim ==
  ASSUME NEW A, NEW R, NEW nodes, NEW vols, NEW v \in vols,
         NEW a \in ACsForVolumes(A, R, nodes, vols)[v]
  PROVE  \E n \in MatchedNodes(A, R, nodes, vols) :
           /\ ACSpec[a].node = n
           /\ a = (CHOOSE plan \in Placements(A, R, n, vols) : TRUE)[v]
<1>1. PICK n \in MatchedNodes(A, R, nodes, vols) :
             a = (CHOOSE plan \in Placements(A, R, n, vols) : TRUE)[v]
  BY DEF ACsForVolumes
<1>2. (CHOOSE plan \in Placements(A, R, n, vols) : TRUE) \in Placements(A, R, n, vols)
  BY DEF MatchedNodes
<1>3. ACSpec[a].node = n
  BY <1>1, <1>2, PlacementOnNode
<1> QED
  BY <1>1, <1>3

LEMMA PlanCovers ==
  ASSUME NEW A, NEW R, NEW nodes, NEW vols, NEW v \in vols,
         NEW n \in MatchedNodes(A, R, nodes, vols)
  PROVE  \E a \in ACsForVolumes(A, R, nodes, vols)[v] : ACSpec[a].node = n
<1> DEFINE plan == CHOOSE pl \in Placements(A, R, n, vols) : TRUE
<1>1. plan \in Placements(A, R, n, vols)
  BY DEF MatchedNodes
<1>2. ACSpec[plan[v]].node = n
  BY <1>1, PlacementOnNode
<1>3. plan[v] \in {(CHOOSE pl \in Placements(A, R, m, vols) : TRUE)[v] :
                     m \in MatchedNodes(A, R, nodes, vols)}
  OBVIOUS
<1>4. plan[v] \in ACsForVolumes(A, R, nodes, vols)[v]
  BY <1>3 DEF ACsForVolumes
<1> QED
  BY <1>2, <1>4

\* Over all matched nodes, two volumes of the pod share an AC only when both
\* are of an LVG class.
LEMMA PlanIsExclusive ==
  ASSUME NEW A, NEW R, NEW nodes, NEW vols \in SUBSET Claim,
         NEW u \in vols, NEW v \in vols, u # v,
         NEW a \in ACsForVolumes(A, R, nodes, vols)[u],
         a \in ACsForVolumes(A, R, nodes, vols)[v]
  PROVE  IsLVG(u) /\ IsLVG(v)
<1>1. PICK n \in MatchedNodes(A, R, nodes, vols) :
        /\ ACSpec[a].node = n
        /\ a = (CHOOSE plan \in Placements(A, R, n, vols) : TRUE)[u]
  BY PlanElim
<1>2. PICK m \in MatchedNodes(A, R, nodes, vols) :
        /\ ACSpec[a].node = m
        /\ a = (CHOOSE plan \in Placements(A, R, m, vols) : TRUE)[v]
  BY PlanElim
<1> DEFINE plan == CHOOSE pl \in Placements(A, R, n, vols) : TRUE
<1>3. plan \in Placements(A, R, n, vols)
  BY DEF MatchedNodes
<1>4. plan[u] = a /\ plan[v] = a
  BY <1>1, <1>2
<1> HIDE DEF plan
<1> QED
  BY <1>3, <1>4, PlacementIsExclusive

\* The plan shares an AC with a confirmed request only when its own volume is
\* of an LVG class and the request that made the entry for the AC is too.
LEMMA PlanRespectsHolders ==
  ASSUME NEW A, NEW R, NEW nodes, NEW vols, NEW v \in vols,
         NEW a \in ACsForVolumes(A, R, nodes, vols)[v], HoldersOf(R, a) # {}
  PROVE  IsLVG(v) /\ IsLVG(FirstHolder(R, a)[2])
<1>1. PICK n \in MatchedNodes(A, R, nodes, vols) :
             a = (CHOOSE plan \in Placements(A, R, n, vols) : TRUE)[v]
  BY PlanElim
<1> DEFINE plan == CHOOSE pl \in Placements(A, R, n, vols) : TRUE
<1>2. plan \in Placements(A, R, n, vols)
  BY DEF MatchedNodes
<1>3. plan[v] = a
  BY <1>1
<1> HIDE DEF plan
<1> QED
  BY <1>2, <1>3, PlacementRespectsHolders


-----------------------------------------------------------------------------
(* Types                                                                   *)

\* The size arithmetic stays within the integers.
LEMMA SizesAreIntegers ==
  ASSUME NEW s \in Int
  PROVE  /\ AlignSizeByPE(s) \in Int
         /\ AlignSizeByMB(s) \in Int
         /\ SubtractLVMMetadataSize(s) \in Int
<1>1. MBYTE \in Nat \ {0} /\ DefaultPESize \in Nat \ {0}
  BY MBYTEAssumption DEF DefaultPESize
<1>2. s % DefaultPESize \in Int /\ s % MBYTE \in Int
  BY <1>1
<1> QED
  BY <1>1, <1>2 DEF AlignSizeByPE, AlignSizeByMB, SubtractLVMMetadataSize,
                    LvgDefaultMetadataSize

\* The requests of an ACR: what membership in ReqMap says.
LEMMA ReqMapElim ==
  ASSUME NEW f \in ReqMap
  PROVE  /\ DOMAIN f \subseteq Claim
         /\ \A c \in DOMAIN f : f[c] \subseteq AC
         /\ f = [c \in DOMAIN f |-> f[c]]
BY DEF ReqMap

LEMMA ReqMapIntro ==
  ASSUME NEW S \in SUBSET Claim, NEW f \in [S -> SUBSET AC]
  PROVE  f \in ReqMap
BY DEF ReqMap

\* The ACs of a plan are ACs, on the nodes that were asked for.
LEMMA PlanType ==
  ASSUME NEW A, NEW R, NEW nodes \in SUBSET Node, NEW vols \in SUBSET Claim
  PROVE  /\ MatchedNodes(A, R, nodes, vols) \in SUBSET Node
         /\ ACsForVolumes(A, R, nodes, vols) \in [vols -> SUBSET AC]
<1>1. ASSUME NEW n \in MatchedNodes(A, R, nodes, vols), NEW v \in vols
      PROVE  (CHOOSE plan \in Placements(A, R, n, vols) : TRUE)[v] \in AC
  <2>1. (CHOOSE plan \in Placements(A, R, n, vols) : TRUE) \in [vols -> AC]
    BY <1>1 DEF MatchedNodes, Placements
  <2> QED
    BY <2>1
<1> QED
  BY <1>1 DEF MatchedNodes, ACsForVolumes

LEMMA AllocatedType ==
  ASSUME NEW c \in Claim, NEW ac \in ACState
  PROVE  AllocatedBytes(c, ac) \in Int
<1>1. ClaimSpec[c].size \in Int /\ ac.size \in Int
  BY ClaimSpecAssumption DEF ACState
<1> QED
  BY <1>1, SizesAreIntegers DEF AllocatedBytes

\* Marking the copies of an ACR as stale changes nothing else about them.
LEMMA StaleType ==
  ASSUME TypeOK, NEW p \in Pod
  PROVE  RcStale(p) \in RcState /\ CvStale(p) \in CvState
<1>1. RcStale(p) \in RcState
  <2>1. CASE rc = Idle
    BY <2>1 DEF TypeOK, RcStale
  <2>2. CASE rc \in [pc : {"planning"}, pod : Pod, fresh : BOOLEAN, acs : [AC -> ACState]]
    BY <2>2 DEF RcStale, RcState
  <2>3. CASE rc \in [pc : {"updating"}, pod : Pod, fresh : BOOLEAN, nodes : SUBSET Node, reqs : ReqMap]
    BY <2>3 DEF RcStale, RcState
  <2> QED
    BY <2>1, <2>2, <2>3 DEF TypeOK, RcState
<1>2. CvStale(p) \in CvState
  <2>1. CASE cv = Idle
    BY <2>1 DEF TypeOK, CvStale
  <2>2. CASE cv # Idle
    BY <2>2 DEF TypeOK, CvStale, CvState
  <2> QED
    BY <2>1, <2>2
<1> QED
  BY <1>1, <1>2

\* What the state of a worker says once it is known where it stands.
LEMMA WorkerType ==
  ASSUME TypeOK
  PROVE  /\ rc.pc = "planning" =>
              rc \in [pc : {"planning"}, pod : Pod, fresh : BOOLEAN, acs : [AC -> ACState]]
         /\ rc.pc = "updating" =>
              rc \in [pc : {"updating"}, pod : Pod, fresh : BOOLEAN,
                      nodes : SUBSET Node, reqs : ReqMap]
         /\ rc # Idle => rc.pod \in Pod /\ rc.pc \in {"planning", "updating"}
         /\ cv # Idle =>
              cv \in [pc : {"lvg", "convert", "create", "decrease", "release"},
                      claim : Claim, ac : AC, requests : SUBSET Claim,
                      fresh : BOOLEAN, retry : BOOLEAN]
         /\ Idle.pc = "idle"
BY DEF TypeOK, RcState, CvState, Idle

LEMMA PodOfType ==
  ASSUME NEW c \in Claim
  PROVE  PodOf(c) \in Pod
BY ClaimSpecAssumption DEF PodOf

LEMMA NoACRType == NoACR \in ACR
<1>1. NoReqs \in [{} -> SUBSET AC]
  BY DEF NoReqs
<1>2. NoReqs \in ReqMap
  BY <1>1, ReqMapIntro, {} \in SUBSET Claim
<1> QED
  BY <1>2 DEF NoACR, ACR

LEMMA InitType == Init => TypeOK
<1> SUFFICES ASSUME Init PROVE TypeOK
  OBVIOUS
<1>1. acs \in [AC -> ACState]
  BY ACSpecAssumption DEF Init, ACState
<1> QED
  BY <1>1, NoACRType, ReservationAssumption DEF Init, TypeOK, RcState, CvState

LEMMA NextType == TypeOK /\ [Next]_vars => TypeOK'
<1> SUFFICES ASSUME TypeOK, [Next]_vars PROVE TypeOK'
  OBVIOUS
<1>f. Fault => faults' \in 0 .. MaxFaults
  BY ReservationAssumption DEF Fault, TypeOK
<1>i. Idle \in RcState /\ Idle \in CvState
  BY DEF RcState, CvState
<1>1. ASSUME NEW p \in Pod, NEW ns \in Offer, FilterCreate(p, ns)
      PROVE  TypeOK'
  <2>1. PICK asked \in SUBSET ClaimsOf(p) :
          acrs' = [acrs EXCEPT ![p] =
            [status |-> "REQUESTED", reqs |-> [c \in asked |-> {}],
             requested |-> ns, reserved |-> {}]]
    BY <1>1 DEF FilterCreate
  <2>2. [c \in asked |-> {}] \in ReqMap
    BY ReqMapIntro DEF ClaimsOf
  <2>3. acrs' \in [Pod -> ACR]
    BY <1>1, <2>1, <2>2, ReservationAssumption DEF TypeOK, ACR
  <2> QED
    BY <1>1, <2>3, StaleType DEF FilterCreate, TypeOK
<1>2. ASSUME NEW p \in Pod, NEW ns \in Offer, FilterMatch(p, ns)
      PROVE  TypeOK'
  <2>1. selected' \in [Pod -> SUBSET Node]
    BY <1>2, ReservationAssumption DEF FilterMatch, TypeOK
  <2> QED
    BY <1>2, <2>1 DEF FilterMatch, TypeOK
<1>3. ASSUME NEW p \in Pod, NEW ns \in Offer, FilterResend(p, ns)
      PROVE  TypeOK'
  <2>1. acrs[p] \in ACR /\ acrs[p].reqs \in ReqMap
    BY DEF TypeOK, ACR
  <2>2. [c \in DOMAIN acrs[p].reqs |-> {}] \in ReqMap
    BY <2>1, ReqMapElim, ReqMapIntro
  <2>3. acrs' \in [Pod -> ACR]
    BY <1>3, <2>1, <2>2, ReservationAssumption DEF FilterResend, TypeOK, ACR
  <2> QED
    BY <1>3, <2>3, StaleType DEF FilterResend, TypeOK
<1>4. ASSUME NEW p \in Pod, RcReadCapacity(p)
      PROVE  TypeOK'
  <2>1. rc' \in RcState
    BY <1>4 DEF RcReadCapacity, TypeOK, RcState
  <2> QED
    BY <1>4, <2>1 DEF RcReadCapacity, TypeOK
<1>5. CASE RcReadReservations
  <2>1. rc.pod \in Pod /\ acrs[rc.pod] \in ACR
    BY <1>5, WorkerType DEF RcReadReservations, TypeOK
  <2> DEFINE acr == acrs[rc.pod]
             vols == DOMAIN acr.reqs
  <2>2. acr.requested \in SUBSET Node /\ vols \in SUBSET Claim
    BY <2>1, ReqMapElim DEF ACR
  <2>3. MatchedNodes(rc.acs, acrs, acr.requested, vols) \in SUBSET Node
    BY <2>2, PlanType
  <2>4. ACsForVolumes(rc.acs, acrs, acr.requested, vols) \in ReqMap
    BY <2>2, PlanType, ReqMapIntro
  <2>5. rc' \in RcState
    BY <1>5, <2>1, <2>3, <2>4, <1>i DEF RcReadReservations, RcState
  <2> QED
    BY <1>5, <2>5 DEF RcReadReservations, TypeOK
<1>6. CASE RcUpdate
  <2>1. rc.pod \in Pod /\ rc.nodes \in SUBSET Node /\ rc.reqs \in ReqMap
    BY <1>6, WorkerType DEF RcUpdate
  <2>2. acrs' \in [Pod -> ACR]
    BY <1>6, <2>1 DEF RcUpdate, TypeOK, ACR
  <2> QED
    BY <1>6, <2>1, <2>2, <1>i, StaleType DEF RcUpdate, TypeOK
<1>7. CASE RcConflict
  BY <1>7, <1>i DEF RcConflict, TypeOK
<1>8. CASE RcFail
  BY <1>8, <1>i, <1>f DEF RcFail, TypeOK
<1>9. ASSUME NEW c \in Claim, CvStart(c)
      PROVE  TypeOK'
  <2>1. acrs[PodOf(c)].reqs \in ReqMap
    BY PodOfType DEF TypeOK, ACR
  <2>2. DOMAIN acrs[PodOf(c)].reqs \in SUBSET Claim /\ acrs[PodOf(c)].reqs[c] \subseteq AC
    BY <2>1, <1>9, ReqMapElim DEF CvStart
  <2>3. cv' \in CvState
    BY <1>9, <2>2 DEF CvStart, CvState
  <2> QED
    BY <1>9, <2>3 DEF CvStart, TypeOK
<1>10. CASE CvCreateLVG
  <2>1. cv # Idle /\ cv.ac \in AC
    BY <1>10, WorkerType DEF CvCreateLVG
  <2>2. lvgs' \in [AC -> Nat]
    BY <1>10, <2>1 DEF CvCreateLVG, TypeOK
  <2>3. cv' \in CvState
    BY <1>10, <2>1, WorkerType DEF CvCreateLVG, CvState
  <2> QED
    BY <1>10, <2>2, <2>3 DEF CvCreateLVG, TypeOK
<1>11. CASE CvConvertAC
  <2>1. cv # Idle /\ cv.ac \in AC /\ cv.claim \in Claim
    BY <1>11, WorkerType DEF CvConvertAC
  <2>2. ClaimSpec[cv.claim].sc \in SC /\ acs[cv.ac].size \in Int
    BY <2>1, ClaimSpecAssumption DEF TypeOK, ACState
  <2>3. acs' \in [AC -> ACState]
    BY <1>11, <2>1, <2>2, SizesAreIntegers DEF CvConvertAC, TypeOK, ACState
  <2>4. cv' \in CvState
    BY <1>11, <2>1, WorkerType DEF CvConvertAC, CvState
  <2> QED
    BY <1>11, <2>3, <2>4 DEF CvConvertAC, TypeOK
<1>12. CASE CvCreateVolume
  <2>1. cv # Idle /\ cv.ac \in AC /\ cv.claim \in Claim
    BY <1>12, WorkerType DEF CvCreateVolume
  <2>2. acs[cv.ac] \in ACState
    BY <2>1 DEF TypeOK
  <2>3. AllocatedBytes(cv.claim, acs[cv.ac]) \in Int /\ acs[cv.ac].sc \in SC
    BY <2>1, <2>2, AllocatedType DEF ACState
  <2>4. volumes' \subseteq Volume
    BY <1>12, <2>1, <2>3 DEF CvCreateVolume, TypeOK, Volume
  <2>5. cv' \in CvState
    BY <1>12, <2>1, WorkerType DEF CvCreateVolume, CvState
  <2> QED
    BY <1>12, <2>4, <2>5 DEF CvCreateVolume, TypeOK
<1>13. CASE CvDecreaseAC
  <2>1. cv # Idle /\ cv.ac \in AC /\ cv.claim \in Claim
    BY <1>13, WorkerType DEF CvDecreaseAC
  <2>2. acs[cv.ac] \in ACState
    BY <2>1 DEF TypeOK
  <2>3. AllocatedBytes(cv.claim, acs[cv.ac]) \in Int /\ acs[cv.ac].size \in Int
    BY <2>1, <2>2, AllocatedType DEF ACState
  <2>4. acs' \in [AC -> ACState]
    BY <1>13, <2>1, <2>3 DEF CvDecreaseAC, TypeOK, ACState
  <2>5. cv' \in CvState
    BY <1>13, <2>1, WorkerType DEF CvDecreaseAC, CvState
  <2> QED
    BY <1>13, <2>4, <2>5 DEF CvDecreaseAC, TypeOK
<1>14. CASE CvDecreaseACFails
  <2>1. cv' \in CvState
    BY <1>14, WorkerType DEF CvDecreaseACFails, CvState
  <2> QED
    BY <1>14, <2>1, <1>f DEF CvDecreaseACFails, TypeOK
<1>15. CASE CvRelease
  <2>1. cv # Idle /\ cv.claim \in Claim /\ PodOf(cv.claim) \in Pod
    BY <1>15, WorkerType, PodOfType DEF CvRelease
  <2> DEFINE p == PodOf(cv.claim)
             cut == [d \in DOMAIN acrs[p].reqs \ {cv.claim} |-> acrs[p].reqs[d]]
  <2>2. acrs[p].reqs \in ReqMap
    BY <2>1 DEF TypeOK, ACR
  <2>3. cut \in ReqMap
    BY <2>2, ReqMapElim, ReqMapIntro
  <2>4. acrs' \in [Pod -> ACR]
    <3>1. CASE Cardinality(cv.requests) = 1
      BY <1>15, <3>1, <2>1, NoACRType DEF CvRelease, TypeOK
    <3>2. CASE Cardinality(cv.requests) # 1 /\ cv.fresh
      BY <1>15, <3>2, <2>1, <2>3 DEF CvRelease, TypeOK, ACR
    <3>3. CASE Cardinality(cv.requests) # 1 /\ ~cv.fresh
      BY <1>15, <3>3 DEF CvRelease, TypeOK
    <3> QED
      BY <3>1, <3>2, <3>3
  <2>5. rc' \in RcState
    BY <1>15, <2>1, StaleType DEF CvRelease, TypeOK
  <2>6. phase' \in [Claim -> {"pending", "provisioned", "bound"}]
    BY <1>15, <2>1 DEF CvRelease, Answer, TypeOK
  <2> QED
    BY <1>15, <2>4, <2>5, <2>6, <1>i DEF CvRelease, TypeOK
<1>16. CASE CvFail
  <2>1. phase' \in [Claim -> {"pending", "provisioned", "bound"}]
    BY <1>16 DEF CvFail, Answer, TypeOK
  <2> QED
    BY <1>16, <2>1, <1>i, <1>f DEF CvFail, TypeOK
<1>17. ASSUME NEW c \in Claim, CvInProgress(c)
       PROVE  TypeOK'
  <2>1. acrs[PodOf(c)].reqs \in ReqMap
    BY PodOfType DEF TypeOK, ACR
  <2>2. DOMAIN acrs[PodOf(c)].reqs \in SUBSET Claim
    BY <2>1, ReqMapElim
  <2>3. (CHOOSE v \in volumes : v.claim = c) \in volumes
    BY <1>17 DEF CvInProgress, HasVolume
  <2>4. (CHOOSE v \in volumes : v.claim = c).ac \in AC
    BY <2>3 DEF TypeOK, Volume
  <2>5. cv' \in CvState
    <3> DEFINE release(a, S) == [pc |-> "release", claim |-> c, ac |-> a,
                                 requests |-> S, fresh |-> TRUE, retry |-> TRUE]
    <3>1. \/ cv' = cv
          \/ cv' = release((CHOOSE v \in volumes : v.claim = c).ac,
                           DOMAIN acrs[PodOf(c)].reqs)
      BY <1>17, Zenon DEF CvInProgress
    <3>2. ASSUME NEW a \in AC, NEW S \in SUBSET Claim
          PROVE  release(a, S) \in CvState
      BY DEF CvState
    <3> QED
      BY <3>1, <3>2, <2>2, <2>4, Zenon DEF TypeOK
  <2>6. phase' \in [Claim -> {"pending", "provisioned", "bound"}]
    BY <1>17 DEF CvInProgress, Answer, TypeOK
  <2> QED
    BY <1>17, <2>5, <2>6 DEF CvInProgress, TypeOK
<1>18. ASSUME NEW c \in Claim, BindPVC(c)
       PROVE  TypeOK'
  BY <1>18 DEF BindPVC, TypeOK
<1>19. ASSUME NEW p \in Pod, ACRValidator(p)
       PROVE  TypeOK'
  BY <1>19, NoACRType, StaleType DEF ACRValidator, TypeOK
<1>20. CASE Restart
  BY <1>20, <1>i, <1>f DEF Restart, TypeOK
<1>21. CASE UNCHANGED vars
  BY <1>21 DEF vars, TypeOK
<1> QED
  BY <1>1, <1>2, <1>3, <1>4, <1>5, <1>6, <1>7, <1>8, <1>9, <1>10, <1>11, <1>12,
     <1>13, <1>14, <1>15, <1>16, <1>17, <1>18, <1>19, <1>20, <1>21
  DEF Next, Filter, RcNext, CvNext, CvStep

\* Every object and every copy a worker keeps has its type in every reachable
\* state, whatever the interleaving of scheduler, workers, errors and restarts.
THEOREM TypeCorrect == Spec => []TypeOK
<1> QED
  BY InitType, NextType, PTL DEF Spec

-----------------------------------------------------------------------------
(* The safety invariants                                                   *)

\* A step that only takes confirmed requests away, and leaves those that stay
\* as they are.
Shrinks ==
  \A r \in ConfirmedRequests(acrs') :
    /\ r \in ConfirmedRequests(acrs)
    /\ acrs'[r[1]].reqs[r[2]] = acrs[r[1]].reqs[r[2]]
    /\ acrs'[r[1]].reserved = acrs[r[1]].reserved

\* The plan in hand, if it could still be stored, is the one that was there,
\* for an ACR that is as it was.
KeepsPlan ==
  rc' # Idle /\ rc'.fresh => rc' = rc /\ acrs'[rc.pod] = acrs[rc.pod]

LEMMA ShrinkOne ==
  ASSUME TypeOK, NEW p \in Pod, NEW new, acrs' = [acrs EXCEPT ![p] = new],
         new.status = "RESERVED" =>
           /\ acrs[p].status = "RESERVED"
           /\ DOMAIN new.reqs \subseteq DOMAIN acrs[p].reqs
           /\ \A c \in DOMAIN new.reqs : new.reqs[c] = acrs[p].reqs[c]
           /\ new.reserved = acrs[p].reserved
  PROVE  Shrinks
<1> SUFFICES ASSUME NEW r \in ConfirmedRequests(acrs')
             PROVE  /\ r \in ConfirmedRequests(acrs)
                    /\ acrs'[r[1]].reqs[r[2]] = acrs[r[1]].reqs[r[2]]
                    /\ acrs'[r[1]].reserved = acrs[r[1]].reserved
  BY DEF Shrinks
<1>1. /\ r = <<r[1], r[2]>> /\ r[1] \in Pod
      /\ acrs'[r[1]].status = "RESERVED" /\ r[2] \in DOMAIN acrs'[r[1]].reqs
  BY ConfirmedMember
<1>2. CASE r[1] = p
  <2>1. acrs'[r[1]] = new
    BY <1>2 DEF TypeOK
  <2>2. acrs[r[1]].status = "RESERVED" /\ r[2] \in DOMAIN acrs[r[1]].reqs
    BY <1>1, <1>2, <2>1
  <2> QED
    BY <1>1, <1>2, <2>1, <2>2, ConfirmedMember
<1>3. CASE r[1] # p
  <2>1. acrs'[r[1]] = acrs[r[1]]
    BY <1>1, <1>3 DEF TypeOK
  <2> QED
    BY <1>1, <2>1, ConfirmedMember
<1> QED
  BY <1>2, <1>3

LEMMA ShrinkNone ==
  ASSUME acrs' = acrs
  PROVE  Shrinks
BY DEF Shrinks

\* A write to the ACR of p makes a plan for p unusable and touches no other.
LEMMA StaleKeepsPlan ==
  ASSUME TypeOK, NEW p \in Pod, rc' = RcStale(p),
         \A q \in Pod \ {p} : acrs'[q] = acrs[q]
  PROVE  KeepsPlan
<1>1. CASE rc = Idle
  BY <1>1 DEF RcStale, KeepsPlan
<1>2. CASE rc # Idle /\ rc.pod = p
  <2>1. rc' = [rc EXCEPT !.fresh = FALSE]
    BY <1>2 DEF RcStale
  <2>2. rc'.fresh = FALSE
    <3>1. CASE rc \in [pc : {"planning"}, pod : Pod, fresh : BOOLEAN, acs : [AC -> ACState]]
      BY <3>1, <2>1
    <3>2. CASE rc \in [pc : {"updating"}, pod : Pod, fresh : BOOLEAN, nodes : SUBSET Node, reqs : ReqMap]
      BY <3>2, <2>1
    <3> QED
      BY <1>2, <3>1, <3>2 DEF TypeOK, RcState
  <2> QED
    BY <2>2 DEF KeepsPlan
<1>3. CASE rc # Idle /\ rc.pod # p
  BY <1>3, WorkerType DEF RcStale, KeepsPlan
<1> QED
  BY <1>1, <1>2, <1>3

\* Every step but the controller's own reads and update only takes away.
LEMMA OtherStepsShrink ==
  ASSUME TypeOK, [Next]_vars
  PROVE  \/ Shrinks /\ KeepsPlan
         \/ \E p \in Pod : RcReadCapacity(p)
         \/ RcReadReservations
         \/ RcUpdate
<1>1. ASSUME NEW p \in Pod, NEW ns \in Offer, FilterCreate(p, ns)
      PROVE  Shrinks /\ KeepsPlan
  <2>0. PICK asked \in SUBSET ClaimsOf(p) :
          acrs' = [acrs EXCEPT ![p] =
            [status |-> "REQUESTED", reqs |-> [c \in asked |-> {}],
             requested |-> ns, reserved |-> {}]]
    BY <1>1 DEF FilterCreate
  <2> DEFINE new == [status |-> "REQUESTED", reqs |-> [c \in asked |-> {}],
                     requested |-> ns, reserved |-> {}]
  <2>1. acrs' = [acrs EXCEPT ![p] = new] /\ new.status = "REQUESTED"
    BY <2>0
  <2>2. Shrinks
    BY <2>1, ShrinkOne
  <2>3. \A q \in Pod \ {p} : acrs'[q] = acrs[q]
    BY <2>1 DEF TypeOK
  <2> QED
    BY <1>1, <2>2, <2>3, StaleKeepsPlan DEF FilterCreate
<1>2. ASSUME NEW p \in Pod, NEW ns \in Offer, FilterMatch(p, ns)
      PROVE  Shrinks /\ KeepsPlan
  BY <1>2, ShrinkNone DEF FilterMatch, KeepsPlan
<1>3. ASSUME NEW p \in Pod, NEW ns \in Offer, FilterResend(p, ns)
      PROVE  Shrinks /\ KeepsPlan
  <2> DEFINE new == [acrs[p] EXCEPT !.status = "REQUESTED", !.requested = ns,
                                    !.reqs = [c \in DOMAIN acrs[p].reqs |-> {}]]
  <2>1. acrs' = [acrs EXCEPT ![p] = new] /\ new.status = "REQUESTED"
    BY <1>3 DEF FilterResend, TypeOK, ACR
  <2>2. Shrinks
    BY <2>1, ShrinkOne
  <2>3. \A q \in Pod \ {p} : acrs'[q] = acrs[q]
    BY <2>1 DEF TypeOK
  <2> QED
    BY <1>3, <2>2, <2>3, StaleKeepsPlan DEF FilterResend
<1>4. ASSUME NEW p \in Pod, ACRValidator(p)
      PROVE  Shrinks /\ KeepsPlan
  <2>1. acrs' = [acrs EXCEPT ![p] = NoACR] /\ NoACR.status = "none"
    BY <1>4 DEF ACRValidator, NoACR
  <2>2. Shrinks
    BY <2>1, ShrinkOne
  <2>3. \A q \in Pod \ {p} : acrs'[q] = acrs[q]
    BY <2>1 DEF TypeOK
  <2> QED
    BY <1>4, <2>2, <2>3, StaleKeepsPlan DEF ACRValidator
<1>5. CASE CvRelease
  <2> DEFINE p == PodOf(cv.claim)
             cut == [d \in DOMAIN acrs[p].reqs \ {cv.claim} |-> acrs[p].reqs[d]]
             new == [acrs[p] EXCEPT !.reqs = cut]
  <2>1. p \in Pod /\ acrs[p] \in ACR
    BY <1>5, WorkerType, PodOfType DEF CvRelease, TypeOK
  <2>2. CASE Cardinality(cv.requests) = 1
    <3>1. acrs' = [acrs EXCEPT ![p] = NoACR] /\ NoACR.status = "none"
      BY <1>5, <2>2 DEF CvRelease, NoACR
    <3>2. Shrinks
      BY <2>1, <3>1, ShrinkOne
    <3>3. \A q \in Pod \ {p} : acrs'[q] = acrs[q]
      BY <2>1, <3>1 DEF TypeOK
    <3>4. rc' = RcStale(p)
      BY <1>5, <2>2 DEF CvRelease
    <3> QED
      BY <2>1, <3>2, <3>3, <3>4, StaleKeepsPlan
  <2>3. CASE Cardinality(cv.requests) # 1 /\ cv.fresh
    <3>1. acrs' = [acrs EXCEPT ![p] = new]
      BY <1>5, <2>3, <2>1 DEF CvRelease, TypeOK, ACR
    <3>2. /\ new.status = acrs[p].status
          /\ new.reserved = acrs[p].reserved
          /\ DOMAIN new.reqs \subseteq DOMAIN acrs[p].reqs
          /\ \A c \in DOMAIN new.reqs : new.reqs[c] = acrs[p].reqs[c]
      BY <2>1 DEF ACR
    <3>3. Shrinks
      <4> HIDE DEF new, p
      <4> QED
        BY <2>1, <3>1, <3>2, ShrinkOne
    <3>4. \A q \in Pod \ {p} : acrs'[q] = acrs[q]
      BY <2>1, <3>1 DEF TypeOK
    <3>5. rc' = RcStale(p)
      BY <1>5, <2>3 DEF CvRelease
    <3> QED
      BY <2>1, <3>3, <3>4, <3>5, StaleKeepsPlan
  <2>4. CASE Cardinality(cv.requests) # 1 /\ ~cv.fresh
    BY <1>5, <2>4, ShrinkNone DEF CvRelease, KeepsPlan
  <2> QED
    BY <2>2, <2>3, <2>4
<1>6. CASE RcConflict \/ RcFail \/ Restart
  BY <1>6, ShrinkNone DEF RcConflict, RcFail, Restart, KeepsPlan
<1>7. ASSUME NEW c \in Claim, CvStart(c) \/ CvInProgress(c) \/ BindPVC(c)
      PROVE  Shrinks /\ KeepsPlan
  <2>1. acrs' = acrs /\ rc' = rc
    BY <1>7 DEF CvStart, CvInProgress, BindPVC
  <2> QED
    BY <2>1, ShrinkNone DEF KeepsPlan
<1>8. CASE \/ CvCreateLVG \/ CvConvertAC \/ CvCreateVolume
           \/ CvDecreaseAC \/ CvDecreaseACFails \/ CvFail
  <2>1. acrs' = acrs /\ rc' = rc
    BY <1>8 DEF CvCreateLVG, CvConvertAC, CvCreateVolume, CvDecreaseAC,
                CvDecreaseACFails, CvFail
  <2> QED
    BY <2>1, ShrinkNone DEF KeepsPlan
<1>9. CASE UNCHANGED vars
  BY <1>9, ShrinkNone DEF vars, KeepsPlan
<1> QED
  BY <1>1, <1>2, <1>3, <1>4, <1>5, <1>6, <1>7, <1>8, <1>9
  DEF Next, Filter, RcNext, CvNext, CvStep

LEMMA ConfirmedType ==
  ASSUME TypeOK
  PROVE  \A r \in ConfirmedRequests(acrs) :
           r[2] \in Claim /\ acrs[r[1]].reqs[r[2]] \subseteq AC
<1> SUFFICES ASSUME NEW r \in ConfirmedRequests(acrs)
             PROVE  r[2] \in Claim /\ acrs[r[1]].reqs[r[2]] \subseteq AC
  OBVIOUS
<1>1. r[1] \in Pod /\ r[2] \in DOMAIN acrs[r[1]].reqs
  BY ConfirmedMember
<1>2. acrs[r[1]].reqs \in ReqMap
  BY <1>1 DEF TypeOK, ACR
<1> QED
  BY <1>1, <1>2, ReqMapElim

\* Taking confirmed requests away breaks none of the invariants.
LEMMA ShrinkPreserves ==
  ASSUME ReservationInv, Shrinks, KeepsPlan, TypeOK'
  PROVE  ReservationInv'
<1> USE DEF ReservationInv
<1>1. FreshIsRequested'
  BY DEF KeepsPlan, FreshIsRequested
<1>2. ReservedExclusively'
  BY DEF Shrinks, ReservedExclusively
<1>3. CapacityFoundOnReservedNodes'
  BY DEF Shrinks, CapacityFoundOnReservedNodes
<1>4. OneLVGReservationAtATime'
  BY DEF Shrinks, OneLVGReservationAtATime
<1>5. PlanAgrees'
  <2> SUFFICES ASSUME rc'.pc = "updating", rc'.fresh
               PROVE  PlanAgrees'
    BY DEF PlanAgrees
  <2>1. rc' # Idle
    BY DEF Idle
  <2>2. rc' = rc /\ acrs'[rc.pod] = acrs[rc.pod]
    BY <2>1 DEF KeepsPlan
  <2> QED
    BY <2>2 DEF PlanAgrees, Shrinks
<1> QED
  BY <1>1, <1>2, <1>3, <1>4, <1>5

\* The plan made from an up-to-date list of ACRs agrees with them.
LEMMA PlanningPreserves ==
  ASSUME ReservationInv, RcReadReservations, TypeOK'
  PROVE  ReservationInv'
<1> USE DEF ReservationInv
<1> DEFINE acr  == acrs[rc.pod]
           vols == DOMAIN acr.reqs
           new  == ACsForVolumes(rc.acs, acrs, acr.requested, vols)
           ns   == MatchedNodes(rc.acs, acrs, acr.requested, vols)
<1>1. acrs' = acrs /\ acr.status = "REQUESTED" /\ rc.pod \in Pod
  BY WorkerType DEF RcReadReservations, FreshIsRequested
<1>2. vols \in SUBSET Claim
  <2>1. acr.reqs \in ReqMap
    BY <1>1 DEF TypeOK, ACR
  <2> QED
    BY <2>1, ReqMapElim
<1>3. ReservedExclusively' /\ CapacityFoundOnReservedNodes' /\ OneLVGReservationAtATime'
  BY <1>1 DEF ReservedExclusively, CapacityFoundOnReservedNodes, OneLVGReservationAtATime
<1>4. CASE SequentialLVGReservation /\ IsLVGCapacityReserved(acrs, vols)
  <2>1. rc' = Idle /\ rc'.pc = "idle"
    BY <1>4 DEF RcReadReservations, Idle
  <2> QED
    BY <1>3, <2>1 DEF FreshIsRequested, PlanAgrees
<1>5. CASE ~(SequentialLVGReservation /\ IsLVGCapacityReserved(acrs, vols))
  <2>1. rc' = [pc |-> "updating", pod |-> rc.pod, fresh |-> TRUE, nodes |-> ns,
               reqs |-> new]
    BY <1>5 DEF RcReadReservations
  <2>2. DOMAIN new = vols
    BY DEF ACsForVolumes
  <2> HIDE DEF new, ns
  <2>3. rc'.reqs = new /\ rc'.nodes = ns /\ rc'.pod = rc.pod
    BY <2>1
  <2>4. ASSUME NEW u \in vols, NEW v \in vols, u # v, new[u] \cap new[v] # {}
        PROVE  IsLVG(u) /\ IsLVG(v)
    BY <1>2, <2>4, PlanIsExclusive DEF new
  <2>5. ASSUME NEW v \in vols, NEW r \in ConfirmedRequests(acrs),
               new[v] \cap acrs[r[1]].reqs[r[2]] # {}
        PROVE  IsLVG(v) /\ IsLVG(r[2])
    <3>1. PICK a \in new[v] : a \in acrs[r[1]].reqs[r[2]]
      BY <2>5
    <3>2. r \in HoldersOf(acrs, a)
      BY <3>1 DEF HoldersOf
    <3> DEFINE h == FirstHolder(acrs, a)
    <3>3. IsLVG(v) /\ IsLVG(h[2])
      BY <3>1, <3>2, PlanRespectsHolders DEF new
    <3>4. h \in HoldersOf(acrs, a)
      BY <3>2, ConfirmedType, FirstHolderHolds
    <3> HIDE DEF h
    <3>5. r # h => IsLVG(r[2])
      BY <3>1, <3>2, <3>4 DEF ReservedExclusively, HoldersOf
    <3> QED
      BY <3>3, <3>5
  <2>6. ASSUME NEW v \in vols, NEW n \in ns
        PROVE  \E a \in new[v] : ACSpec[a].node = n
    BY PlanCovers DEF new, ns
  <2>7. ASSUME SequentialLVGReservation, NEW v \in vols,
               NEW r \in ConfirmedRequests(acrs), IsLVG(v)
        PROVE  ClaimSpec[v].sc # ClaimSpec[r[2]].sc
    BY <1>5, <2>7 DEF IsLVGCapacityReserved
  <2>8. PlanAgrees'
    BY <1>1, <2>2, <2>3, <2>4, <2>5, <2>6, <2>7 DEF PlanAgrees
  <2>9. FreshIsRequested'
    BY <1>1, <2>3 DEF FreshIsRequested
  <2> QED
    BY <1>3, <2>8, <2>9
<1> QED
  BY <1>4, <1>5

\* Storing the plan: its requests join the confirmed ones.
LEMMA UpdatePreserves ==
  ASSUME ReservationInv, RcUpdate, TypeOK'
  PROVE  ReservationInv'
<1> USE DEF ReservationInv
<1>1. /\ rc.pod \in Pod /\ rc.nodes \in SUBSET Node /\ rc.reqs \in ReqMap
      /\ rc.pc = "updating" /\ rc.fresh /\ rc # Idle
  BY WorkerType DEF RcUpdate
<1>2. acrs[rc.pod].status = "REQUESTED"
  BY <1>1 DEF FreshIsRequested
<1>3. FreshIsRequested' /\ PlanAgrees'
  BY DEF RcUpdate, FreshIsRequested, PlanAgrees, Idle
<1>4. CASE rc.nodes = {}
  <2> DEFINE new == [acrs[rc.pod] EXCEPT !.status = "REJECTED"]
  <2>1. acrs' = [acrs EXCEPT ![rc.pod] = new] /\ new.status = "REJECTED"
    BY <1>1, <1>4 DEF RcUpdate, TypeOK, ACR
  <2>2. Shrinks
    BY <1>1, <2>1, ShrinkOne
  <2> QED
    BY <1>3, <2>2 DEF Shrinks, ReservedExclusively, CapacityFoundOnReservedNodes,
                      OneLVGReservationAtATime
<1>5. CASE rc.nodes # {}
  <2> DEFINE new == [acrs[rc.pod] EXCEPT !.status = "RESERVED", !.reqs = rc.reqs,
                                         !.reserved = rc.nodes]
  <2>1. acrs' = [acrs EXCEPT ![rc.pod] = new]
    BY <1>1, <1>5 DEF RcUpdate, TypeOK, ACR
  <2>2. acrs'[rc.pod].reqs = rc.reqs /\ acrs'[rc.pod].reserved = rc.nodes
    BY <1>1, <2>1 DEF TypeOK, ACR
  <2>3. \A q \in Pod \ {rc.pod} : acrs'[q] = acrs[q]
    BY <2>1 DEF TypeOK
  <2> DEFINE Old(r) == r \in ConfirmedRequests(acrs) /\ r[1] # rc.pod
                         /\ acrs'[r[1]] = acrs[r[1]]
             New(r) == r = <<rc.pod, r[2]>> /\ r[1] = rc.pod /\ r[2] \in DOMAIN rc.reqs
                         /\ acrs'[r[1]].reqs = rc.reqs /\ acrs'[r[1]].reserved = rc.nodes
  <2>4. ASSUME NEW r \in ConfirmedRequests(acrs')
        PROVE  Old(r) \/ New(r)
    <3>1. /\ r = <<r[1], r[2]>> /\ r[1] \in Pod
          /\ acrs'[r[1]].status = "RESERVED" /\ r[2] \in DOMAIN acrs'[r[1]].reqs
      BY <2>4, ConfirmedMember
    <3>2. CASE r[1] = rc.pod
      BY <3>1, <3>2, <2>2
    <3>3. CASE r[1] # rc.pod
      BY <3>1, <3>3, <2>3, ConfirmedMember
    <3> QED
      BY <3>2, <3>3
  <2>5. ReservedExclusively'
    <3> SUFFICES ASSUME NEW r \in ConfirmedRequests(acrs'),
                        NEW s \in ConfirmedRequests(acrs'), r # s,
                        acrs'[r[1]].reqs[r[2]] \cap acrs'[s[1]].reqs[s[2]] # {}
                 PROVE  IsLVG(r[2]) /\ IsLVG(s[2])
      BY DEF ReservedExclusively
    <3>1. CASE Old(r) /\ Old(s)
      BY <3>1 DEF ReservedExclusively
    <3>2. CASE New(r) /\ New(s)
      BY <3>2, <1>1 DEF PlanAgrees
    <3>3. CASE Old(r) /\ New(s)
      BY <3>3, <1>1 DEF PlanAgrees
    <3>4. CASE New(r) /\ Old(s)
      BY <3>4, <1>1 DEF PlanAgrees
    <3> QED
      BY <2>4, <3>1, <3>2, <3>3, <3>4
  <2>6. CapacityFoundOnReservedNodes'
    BY <1>1, <2>4 DEF CapacityFoundOnReservedNodes, PlanAgrees
  <2>7. OneLVGReservationAtATime'
    <3> SUFFICES ASSUME SequentialLVGReservation,
                        NEW r \in ConfirmedRequests(acrs'),
                        NEW s \in ConfirmedRequests(acrs'),
                        r[1] # s[1], IsLVG(r[2]),
                        ClaimSpec[r[2]].sc = ClaimSpec[s[2]].sc
                 PROVE  FALSE
      BY DEF OneLVGReservationAtATime
    <3>1. IsLVG(s[2])
      BY DEF IsLVG
    <3>2. CASE Old(r) /\ Old(s)
      BY <3>2 DEF OneLVGReservationAtATime
    <3>3. CASE Old(r) /\ New(s)
      BY <3>1, <3>3, <1>1 DEF PlanAgrees
    <3>4. CASE New(r) /\ Old(s)
      BY <3>4, <1>1 DEF PlanAgrees
    <3> QED
      BY <2>4, <3>2, <3>3, <3>4
  <2> QED
    BY <1>3, <2>5, <2>6, <2>7
<1> QED
  BY <1>4, <1>5

LEMMA NextInv == ReservationInv /\ [Next]_vars => ReservationInv'
<1> SUFFICES ASSUME ReservationInv, [Next]_vars PROVE ReservationInv'
  OBVIOUS
<1>1. TypeOK /\ TypeOK'
  BY NextType DEF ReservationInv
<1>2. CASE Shrinks /\ KeepsPlan
  BY <1>1, <1>2, ShrinkPreserves
<1>3. ASSUME NEW p \in Pod, RcReadCapacity(p)
      PROVE  ReservationInv'
  <2>1. rc'.pc = "planning" /\ rc'.pod = p
    BY <1>3 DEF RcReadCapacity
  <2> QED
    BY <1>1, <1>3, <2>1 DEF ReservationInv, RcReadCapacity, FreshIsRequested, PlanAgrees,
      ReservedExclusively, CapacityFoundOnReservedNodes, OneLVGReservationAtATime
<1>4. CASE RcReadReservations
  BY <1>1, <1>4, PlanningPreserves
<1>5. CASE RcUpdate
  BY <1>1, <1>5, UpdatePreserves
<1> QED
  BY <1>1, <1>2, <1>3, <1>4, <1>5, OtherStepsShrink

LEMMA InitInv == Init => ReservationInv
<1> SUFFICES ASSUME Init PROVE ReservationInv
  OBVIOUS
<1>1. ConfirmedRequests(acrs) = {}
  BY DEF Init, NoACR, ConfirmedRequests
<1>2. rc = Idle /\ rc.pc = "idle"
  BY DEF Init, Idle
<1> QED
  BY <1>1, <1>2, InitType DEF ReservationInv, FreshIsRequested, PlanAgrees,
    ReservedExclusively, CapacityFoundOnReservedNodes, OneLVGReservationAtATime

LEMMA InvHolds == Spec => []ReservationInv
BY InitInv, NextInv, PTL DEF Spec

\* For any number of pods, claims, nodes and ACs of any size: no drive is
\* promised to two requests at a time, although a plan is stored some time
\* after the reservations it was made from were read.
THEOREM Exclusive == Spec => []ReservedExclusively
<1>1. ReservationInv => ReservedExclusively
  BY DEF ReservationInv
<1> QED
  BY <1>1, InvHolds, PTL

\* CreateVolume finds an AC for each request of a confirmed ACR on each node
\* the ACR reports as reserved.
THEOREM CapacityFound == Spec => []CapacityFoundOnReservedNodes
<1>1. ReservationInv => CapacityFoundOnReservedNodes
  BY DEF ReservationInv
<1> QED
  BY <1>1, InvHolds, PTL

\* The sequential-LVG-reservation flag keeps its promise for any set of pods.
THEOREM OneLVGAtATime == Spec => []OneLVGReservationAtATime
<1>1. ReservationInv => OneLVGReservationAtATime
  BY DEF ReservationInv
<1> QED
  BY <1>1, InvHolds, PTL

-----------------------------------------------------------------------------
(* Volumes and the requests they were reserved with                        *)

\* What RequestLeavesAfterVolume says of one step.
LeavesAfterVolume ==
  \A p \in Pod : \A c \in DOMAIN acrs[p].reqs :
    c \notin DOMAIN acrs'[p].reqs => HasVolume(c)

VolumeStep ==
  /\ RequestsOfPod' /\ AnsweredHasVolume' /\ RequestInHand'
  /\ OneVolumePerClaim' /\ LeavesAfterVolume

\* Steps that change neither volumes nor ACRs nor the CreateVolume request.
LEMMA QuietVolumeStep ==
  ASSUME VolumeInv, UNCHANGED <<acrs, volumes, phase, cv>>
  PROVE  VolumeStep
BY DEF VolumeInv, VolumeStep, RequestsOfPod, AnsweredHasVolume, RequestInHand,
       OneVolumePerClaim, LeavesAfterVolume, HasVolume

\* A copy that has become stale still names the same claim and requests.
LEMMA StaleKeepsRequest ==
  ASSUME TypeOK, NEW p \in Pod
  PROVE  /\ CvStale(p) # Idle <=> cv # Idle
         /\ cv # Idle => /\ CvStale(p).pc = cv.pc
                         /\ CvStale(p).claim = cv.claim
                         /\ CvStale(p).requests = cv.requests
                         /\ CvStale(p).retry = cv.retry
<1>1. CASE cv = Idle
  BY <1>1 DEF CvStale
<1>2. CASE cv # Idle
  BY <1>2, WorkerType DEF CvStale
<1> QED
  BY <1>1, <1>2

\* The extender, the controller or the operator writes one ACR: it may leave
\* out requests only of claims that have a volume, and none while a
\* CreateVolume request works on one of them.
LEMMA AcrVolumeStep ==
  ASSUME VolumeInv, NEW p \in Pod,
         \A q \in Pod \ {p} : acrs'[q] = acrs[q],
         DOMAIN acrs'[p].reqs \subseteq ClaimsOf(p),
         acrs'[p].status = "none" => DOMAIN acrs'[p].reqs = {},
         cv' = CvStale(p),
         UNCHANGED <<volumes, phase>>,
         \A c \in DOMAIN acrs[p].reqs : c \notin DOMAIN acrs'[p].reqs => HasVolume(c),
         cv # Idle /\ PodOf(cv.claim) = p =>
           /\ acrs'[p].status # "none"
           /\ DOMAIN acrs'[p].reqs = DOMAIN acrs[p].reqs
  PROVE  VolumeStep
<1>1. TypeOK
  BY DEF VolumeInv, ReservationInv
<1>2. RequestsOfPod'
  BY DEF VolumeInv, RequestsOfPod
<1>3. AnsweredHasVolume' /\ OneVolumePerClaim'
  BY DEF VolumeInv, AnsweredHasVolume, OneVolumePerClaim, HasVolume
<1>4. LeavesAfterVolume
  BY DEF LeavesAfterVolume
<1>5. RequestInHand'
  <2> SUFFICES ASSUME cv' # Idle
               PROVE  /\ phase[cv'.claim] = "pending"
                      /\ cv'.claim \in cv'.requests
                      /\ acrs'[PodOf(cv'.claim)].status # "none"
                      /\ DOMAIN acrs'[PodOf(cv'.claim)].reqs = cv'.requests
                      /\ cv'.pc \in {"decrease", "release"} <=> HasVolume(cv'.claim)
                      /\ cv'.retry => cv'.pc = "release"
    BY DEF RequestInHand, HasVolume, PodOf
  <2>1. /\ cv # Idle /\ cv'.pc = cv.pc /\ cv'.claim = cv.claim
        /\ cv'.requests = cv.requests /\ cv'.retry = cv.retry
    BY <1>1, StaleKeepsRequest
  <2>2. PodOf(cv.claim) \in Pod
    BY <1>1, <2>1, WorkerType, PodOfType
  <2> QED
    BY <2>1, <2>2 DEF VolumeInv, RequestInHand
<1> QED
  BY <1>2, <1>3, <1>4, <1>5 DEF VolumeStep

\* The CreateVolume request ends: its claim may be answered only if it has a
\* volume.
LEMMA EndVolumeStep ==
  ASSUME VolumeInv, UNCHANGED <<acrs, volumes>>, cv' = Idle,
         NEW c \in Claim, HasVolume(c) \/ phase' = phase,
         phase' = phase \/ Answer(c)
  PROVE  VolumeStep
<1>1. AnsweredHasVolume'
  BY DEF VolumeInv, ReservationInv, TypeOK, Answer, AnsweredHasVolume, HasVolume
<1> QED
  BY <1>1 DEF VolumeInv, VolumeStep, RequestsOfPod, RequestInHand,
              OneVolumePerClaim, LeavesAfterVolume

LEMMA RcUpdateVolumeStep ==
  ASSUME VolumeInv, RcUpdate
  PROVE  VolumeStep
<1>1. TypeOK /\ FreshIsRequested /\ PlanAgrees
  BY DEF VolumeInv, ReservationInv
<1>2. rc.pod \in Pod /\ rc # Idle
  BY <1>1, WorkerType DEF RcUpdate
<1>3. acrs[rc.pod].status = "REQUESTED" /\ DOMAIN rc.reqs = DOMAIN acrs[rc.pod].reqs
  BY <1>1, <1>2 DEF RcUpdate, FreshIsRequested, PlanAgrees
<1>4. acrs \in [Pod -> ACR]
  BY <1>1 DEF TypeOK
<1>5. /\ acrs'[rc.pod].status \in {"RESERVED", "REJECTED"}
      /\ DOMAIN acrs'[rc.pod].reqs = DOMAIN acrs[rc.pod].reqs
      /\ \A q \in Pod \ {rc.pod} : acrs'[q] = acrs[q]
  <2>1. CASE rc.nodes # {}
    BY <1>2, <1>3, <1>4, <2>1 DEF RcUpdate, ACR
  <2>2. CASE rc.nodes = {}
    BY <1>2, <1>4, <2>2 DEF RcUpdate, ACR
  <2> QED
    BY <2>1, <2>2
<1>6. DOMAIN acrs[rc.pod].reqs \subseteq ClaimsOf(rc.pod)
  BY <1>2 DEF VolumeInv, RequestsOfPod
<1>7. cv' = CvStale(rc.pod) /\ UNCHANGED <<volumes, phase>>
  BY DEF RcUpdate
<1> QED
  BY <1>2, <1>5, <1>6, <1>7, AcrVolumeStep

LEMMA FilterCreateVolumeStep ==
  ASSUME VolumeInv, NEW p \in Pod, NEW ns \in Offer, FilterCreate(p, ns)
  PROVE  VolumeStep
<1>1. PICK asked \in SUBSET ClaimsOf(p) :
        acrs' = [acrs EXCEPT ![p] =
          [status |-> "REQUESTED", reqs |-> [c \in asked |-> {}],
           requested |-> ns, reserved |-> {}]]
  BY DEF FilterCreate
<1>2. acrs \in [Pod -> ACR]
  BY DEF VolumeInv, ReservationInv, TypeOK
<1>3. /\ \A q \in Pod \ {p} : acrs'[q] = acrs[q]
      /\ acrs'[p].status = "REQUESTED"
      /\ DOMAIN acrs'[p].reqs \subseteq ClaimsOf(p)
  BY <1>1, <1>2
<1>4. DOMAIN acrs[p].reqs = {}
  BY DEF FilterCreate, VolumeInv, RequestsOfPod
<1>5. ~(cv # Idle /\ PodOf(cv.claim) = p)
  BY DEF FilterCreate, VolumeInv, RequestInHand
<1>6. cv' = CvStale(p) /\ UNCHANGED <<volumes, phase>>
  BY DEF FilterCreate
<1> QED
  BY <1>3, <1>4, <1>5, <1>6, AcrVolumeStep

LEMMA FilterResendVolumeStep ==
  ASSUME VolumeInv, NEW p \in Pod, NEW ns \in Offer, FilterResend(p, ns)
  PROVE  VolumeStep
<1>1. acrs \in [Pod -> ACR]
  BY DEF VolumeInv, ReservationInv, TypeOK
<1>2. /\ \A q \in Pod \ {p} : acrs'[q] = acrs[q]
      /\ acrs'[p].status = "REQUESTED"
      /\ DOMAIN acrs'[p].reqs = DOMAIN acrs[p].reqs
  BY <1>1 DEF FilterResend, ACR
<1>3. DOMAIN acrs[p].reqs \subseteq ClaimsOf(p)
  BY DEF VolumeInv, RequestsOfPod
<1>4. cv' = CvStale(p) /\ UNCHANGED <<volumes, phase>>
  BY DEF FilterResend
<1> QED
  BY <1>2, <1>3, <1>4, AcrVolumeStep

LEMMA ACRValidatorVolumeStep ==
  ASSUME VolumeInv, NEW p \in Pod, ACRValidator(p)
  PROVE  VolumeStep
<1>1. acrs \in [Pod -> ACR]
  BY DEF VolumeInv, ReservationInv, TypeOK
<1>2. /\ \A q \in Pod \ {p} : acrs'[q] = acrs[q]
      /\ DOMAIN acrs'[p].reqs = {}
  BY <1>1 DEF ACRValidator, NoACR, NoReqs
<1>3. \A c \in ClaimsOf(p) : phase[c] = "bound"
  BY DEF ACRValidator, Unbound
<1>4. \A c \in DOMAIN acrs[p].reqs : HasVolume(c)
  BY <1>3 DEF VolumeInv, RequestsOfPod, AnsweredHasVolume, ClaimsOf
<1>5. ~(cv # Idle /\ PodOf(cv.claim) = p)
  <2> SUFFICES ASSUME cv # Idle, PodOf(cv.claim) = p PROVE FALSE
    OBVIOUS
  <2>1. cv.claim \in ClaimsOf(p)
    BY WorkerType DEF VolumeInv, ReservationInv, PodOf, ClaimsOf
  <2> QED
    BY <1>3, <2>1 DEF VolumeInv, RequestInHand
<1>6. cv' = CvStale(p) /\ UNCHANGED <<volumes, phase>>
  BY DEF ACRValidator
<1> QED
  BY <1>2, <1>4, <1>5, <1>6, AcrVolumeStep

LEMMA CvStartVolumeStep ==
  ASSUME VolumeInv, NEW c \in Claim, CvStart(c)
  PROVE  VolumeStep
<1> DEFINE p == PodOf(c)
<1>1. /\ phase[c] = "pending" /\ ~HasVolume(c) /\ acrs[p].status = "RESERVED"
      /\ c \in DOMAIN acrs[p].reqs /\ UNCHANGED <<acrs, volumes, phase>>
  BY DEF CvStart
<1>2. PICK a \in AC, pc \in {"lvg", "create"} :
        cv' = [pc |-> pc, claim |-> c, ac |-> a, requests |-> DOMAIN acrs[p].reqs,
               fresh |-> TRUE, retry |-> FALSE]
  <2>1. PICK a \in acrs[p].reqs[c] :
          cv' = [pc |-> IF acs[a].sc # ClaimSpec[c].sc /\ IsLVG(c)
                        THEN "lvg" ELSE "create",
                 claim |-> c, ac |-> a, requests |-> DOMAIN acrs[p].reqs,
                 fresh |-> TRUE, retry |-> FALSE]
    BY DEF CvStart
  <2>2. acrs[p].reqs \in ReqMap
    BY PodOfType DEF VolumeInv, ReservationInv, TypeOK, ACR
  <2>3. a \in AC
    BY <1>1, <2>2, ReqMapElim
  <2> QED
    BY <2>1, <2>3
<1>3. RequestInHand'
  BY <1>1, <1>2 DEF RequestInHand, HasVolume, PodOf
<1>4. UNCHANGED <<acrs, volumes, phase>>
  BY <1>1
<1> QED
  BY <1>3, <1>4 DEF VolumeInv, VolumeStep, RequestsOfPod, AnsweredHasVolume,
                    OneVolumePerClaim, LeavesAfterVolume, HasVolume

\* The steps between: the claim of the request gets its one volume.
LEMMA CvWorkVolumeStep ==
  ASSUME VolumeInv,
         CvCreateLVG \/ CvConvertAC \/ CvCreateVolume \/ CvDecreaseAC \/ CvDecreaseACFails
  PROVE  VolumeStep
<1> DEFINE c == cv.claim
<1>0. cv # Idle
  BY DEF Idle, CvCreateLVG, CvConvertAC, CvCreateVolume, CvDecreaseAC, CvDecreaseACFails
<1>1. /\ cv \in [pc : {"lvg", "convert", "create", "decrease", "release"},
                 claim : Claim, ac : AC, requests : SUBSET Claim,
                 fresh : BOOLEAN, retry : BOOLEAN]
      /\ Idle.pc = "idle"
  BY <1>0, WorkerType DEF VolumeInv, ReservationInv
<1>2. /\ phase[c] = "pending" /\ c \in cv.requests
      /\ acrs[PodOf(c)].status # "none" /\ DOMAIN acrs[PodOf(c)].reqs = cv.requests
      /\ cv.pc \in {"decrease", "release"} <=> HasVolume(c)
      /\ cv.retry => cv.pc = "release"
  BY <1>0 DEF VolumeInv, RequestInHand
<1>3. UNCHANGED <<acrs, phase>>
  BY DEF CvCreateLVG, CvConvertAC, CvCreateVolume, CvDecreaseAC, CvDecreaseACFails
<1>4. ~cv.retry /\ cv' = [cv EXCEPT !.pc = cv'.pc]
      /\ cv'.pc \in {"convert", "create", "decrease", "release"}
  BY <1>1, <1>2 DEF CvCreateLVG, CvConvertAC, CvCreateVolume, CvDecreaseAC, CvDecreaseACFails
<1>5. /\ volumes \subseteq volumes'
      /\ \A v \in volumes' \ volumes : v.claim = c /\ ~HasVolume(c)
      /\ \A v, w \in volumes' \ volumes : v = w
      /\ cv'.pc \in {"decrease", "release"} <=> \E v \in volumes' : v.claim = c
  <2>1. CASE CvCreateVolume
    <3> DEFINE new == [claim |-> c, ac |-> cv.ac, sc |-> acs[cv.ac].sc,
                       size |-> AllocatedBytes(c, acs[cv.ac])]
    <3>1. volumes' = volumes \cup {new} /\ new.claim = c
      BY <2>1 DEF CvCreateVolume
    <3>2. cv.pc = "create" /\ cv'.pc = "decrease"
      BY <2>1, <1>1 DEF CvCreateVolume
    <3> HIDE DEF new
    <3> QED
      BY <1>2, <3>1, <3>2
  <2>2. CASE CvCreateLVG \/ CvConvertAC
    BY <2>2, <1>1, <1>2 DEF CvCreateLVG, CvConvertAC, HasVolume
  <2>3. CASE CvDecreaseAC \/ CvDecreaseACFails
    BY <2>3, <1>1, <1>2 DEF CvDecreaseAC, CvDecreaseACFails, HasVolume
  <2> QED
    BY <2>1, <2>2, <2>3
<1>6. OneVolumePerClaim'
  BY <1>5 DEF VolumeInv, OneVolumePerClaim, HasVolume
<1>7. AnsweredHasVolume'
  BY <1>3, <1>5 DEF VolumeInv, AnsweredHasVolume, HasVolume
<1>8. RequestInHand'
  <2>1. cv'.claim = c /\ cv'.requests = cv.requests /\ cv'.retry = cv.retry
    BY <1>1, <1>4
  <2> QED
    BY <1>2, <1>3, <1>4, <1>5, <2>1 DEF RequestInHand, HasVolume, PodOf
<1> QED
  BY <1>3, <1>6, <1>7, <1>8
  DEF VolumeInv, VolumeStep, RequestsOfPod, LeavesAfterVolume

\* The last request of an ACR is the one that CreateVolume has served: what
\* was read as a list of one is still a list of one when the ACR is deleted.
LEMMA LastRequest ==
  ASSUME VolumeInv, cv # Idle, Cardinality(cv.requests) = 1
  PROVE  cv.requests = {cv.claim}
<1>1. cv.claim \in cv.requests /\ DOMAIN acrs[PodOf(cv.claim)].reqs = cv.requests
  BY DEF VolumeInv, RequestInHand
<1>2. PodOf(cv.claim) \in Pod
  BY WorkerType, PodOfType DEF VolumeInv, ReservationInv
<1>3. IsFiniteSet(cv.requests)
  BY <1>1, <1>2, ClaimsFinite, FS_Subset DEF VolumeInv, RequestsOfPod
<1>4. PICK x : cv.requests = {x}
  BY <1>3, FS_Singleton
<1> QED
  BY <1>1, <1>4

LEMMA CvReleaseVolumeStep ==
  ASSUME VolumeInv, CvRelease
  PROVE  VolumeStep
<1> DEFINE c == cv.claim
           p == PodOf(c)
<1>0. cv # Idle
  BY DEF CvRelease, Idle
<1>1. acrs \in [Pod -> ACR] /\ c \in Claim /\ p \in Pod
  BY <1>0, WorkerType, PodOfType DEF VolumeInv, ReservationInv, TypeOK
<1>2. HasVolume(c) /\ DOMAIN acrs[p].reqs = cv.requests
  BY <1>0 DEF VolumeInv, RequestInHand, CvRelease
<1>3. UNCHANGED volumes /\ cv' = Idle /\ (phase' = phase \/ Answer(c))
  BY DEF CvRelease
<1>4. AnsweredHasVolume'
  BY <1>1, <1>2, <1>3
  DEF VolumeInv, ReservationInv, TypeOK, Answer, AnsweredHasVolume, HasVolume
<1>5. /\ RequestsOfPod'
      /\ LeavesAfterVolume
  <2>1. CASE Cardinality(cv.requests) = 1
    <3>1. acrs' = [acrs EXCEPT ![p] = NoACR]
      BY <2>1 DEF CvRelease
    <3>2. cv.requests = {c}
      BY <1>0, <2>1, LastRequest
    <3> QED
      BY <1>1, <1>2, <3>1, <3>2
      DEF VolumeInv, RequestsOfPod, LeavesAfterVolume, NoACR, NoReqs
  <2>2. CASE Cardinality(cv.requests) # 1 /\ cv.fresh
    <3>1. acrs' = [acrs EXCEPT ![p].reqs =
                     [d \in DOMAIN acrs[p].reqs \ {c} |-> acrs[p].reqs[d]]]
      BY <2>2 DEF CvRelease
    <3>2. /\ \A q \in Pod \ {p} : acrs'[q] = acrs[q]
          /\ acrs'[p].status = acrs[p].status
          /\ DOMAIN acrs'[p].reqs = DOMAIN acrs[p].reqs \ {c}
      BY <1>1, <3>1 DEF ACR
    <3> QED
      BY <1>1, <1>2, <3>2 DEF VolumeInv, RequestsOfPod, LeavesAfterVolume
  <2>3. CASE Cardinality(cv.requests) # 1 /\ ~cv.fresh
    <3>1. acrs' = acrs
      BY <2>3 DEF CvRelease
    <3> QED
      BY <3>1 DEF VolumeInv, RequestsOfPod, LeavesAfterVolume
  <2> QED
    BY <2>1, <2>2, <2>3
<1> QED
  BY <1>3, <1>4, <1>5 DEF VolumeInv, VolumeStep, RequestInHand, OneVolumePerClaim

LEMMA CvFailVolumeStep ==
  ASSUME VolumeInv, CvFail
  PROVE  VolumeStep
<1>1. cv # Idle /\ cv.claim \in Claim
  <2>1. cv # Idle
    BY DEF CvFail, Idle
  <2> QED
    BY <2>1, WorkerType DEF VolumeInv, ReservationInv
<1>2. cv.retry => HasVolume(cv.claim)
  BY <1>1 DEF VolumeInv, RequestInHand
<1> QED
  BY <1>1, <1>2, EndVolumeStep DEF CvFail

LEMMA CvInProgressVolumeStep ==
  ASSUME VolumeInv, NEW c \in Claim, CvInProgress(c)
  PROVE  VolumeStep
<1> DEFINE p == PodOf(c)
<1>1. /\ cv = Idle /\ phase[c] = "pending" /\ HasVolume(c)
      /\ UNCHANGED <<acrs, volumes>>
  BY DEF CvInProgress
<1>2. CASE acrs[p].status = "RESERVED" /\ c \in DOMAIN acrs[p].reqs
  <2> DEFINE a == (CHOOSE v \in volumes : v.claim = c).ac
  <2>1. phase' = phase /\
        cv' = [pc |-> "release", claim |-> c, ac |-> a,
               requests |-> DOMAIN acrs[p].reqs, fresh |-> TRUE, retry |-> TRUE]
    BY <1>2 DEF CvInProgress
  <2> HIDE DEF a
  <2>2. RequestInHand'
    BY <1>1, <1>2, <2>1 DEF RequestInHand, HasVolume, PodOf
  <2> QED
    BY <1>1, <2>1, <2>2 DEF VolumeInv, VolumeStep, RequestsOfPod, AnsweredHasVolume,
                            OneVolumePerClaim, LeavesAfterVolume, HasVolume
<1>3. CASE ~(acrs[p].status = "RESERVED" /\ c \in DOMAIN acrs[p].reqs)
  <2>1. cv' = Idle /\ Answer(c)
    BY <1>1, <1>3 DEF CvInProgress
  <2> QED
    BY <1>1, <2>1, EndVolumeStep
<1> QED
  BY <1>2, <1>3

LEMMA BindVolumeStep ==
  ASSUME VolumeInv, NEW c \in Claim, BindPVC(c)
  PROVE  VolumeStep
<1>1. /\ phase[c] = "provisioned" /\ phase' = [phase EXCEPT ![c] = "bound"]
      /\ UNCHANGED <<acrs, volumes, cv>>
  BY DEF BindPVC
<1>2. phase \in [Claim -> {"pending", "provisioned", "bound"}]
  BY DEF VolumeInv, ReservationInv, TypeOK
<1>3. AnsweredHasVolume'
  BY <1>1, <1>2 DEF VolumeInv, AnsweredHasVolume, HasVolume
<1>4. RequestInHand'
  <2>1. cv # Idle => cv.claim # c
    BY <1>1 DEF VolumeInv, RequestInHand
  <2> QED
    BY <1>1, <1>2, <2>1 DEF VolumeInv, RequestInHand, HasVolume, PodOf
<1> QED
  BY <1>1, <1>3, <1>4 DEF VolumeInv, VolumeStep, RequestsOfPod, OneVolumePerClaim,
                          LeavesAfterVolume

LEMMA NextVolumeStep ==
  ASSUME VolumeInv, [Next]_vars
  PROVE  VolumeStep
<1>1. ASSUME NEW p \in Pod, Filter(p) \/ ACRValidator(p)
      PROVE  VolumeStep
  <2>1. ASSUME NEW ns \in Offer, FilterMatch(p, ns)
        PROVE  VolumeStep
    BY <2>1, QuietVolumeStep DEF FilterMatch
  <2> QED
    BY <1>1, <2>1, FilterCreateVolumeStep, FilterResendVolumeStep,
       ACRValidatorVolumeStep DEF Filter
<1>2. CASE RcNext
  <2>1. ASSUME NEW p \in Pod, RcReadCapacity(p)
        PROVE  VolumeStep
    BY <2>1, QuietVolumeStep DEF RcReadCapacity
  <2>2. CASE RcReadReservations \/ RcConflict \/ RcFail
    BY <2>2, QuietVolumeStep DEF RcReadReservations, RcConflict, RcFail
  <2> QED
    BY <1>2, <2>1, <2>2, RcUpdateVolumeStep DEF RcNext
<1>3. CASE CvNext
  BY <1>3, CvStartVolumeStep, CvInProgressVolumeStep, CvWorkVolumeStep,
     CvReleaseVolumeStep, CvFailVolumeStep DEF CvNext, CvStep
<1>4. ASSUME NEW c \in Claim, BindPVC(c)
      PROVE  VolumeStep
  BY <1>4, BindVolumeStep
<1>5. CASE Restart
  <2>1. cv' = Idle /\ UNCHANGED <<acrs, volumes, phase>>
    BY <1>5 DEF Restart
  <2> QED
    BY <2>1 DEF VolumeInv, VolumeStep, RequestsOfPod, AnsweredHasVolume, RequestInHand,
                OneVolumePerClaim, LeavesAfterVolume, HasVolume
<1>6. CASE UNCHANGED vars
  BY <1>6, QuietVolumeStep DEF vars
<1> QED
  BY <1>1, <1>2, <1>3, <1>4, <1>5, <1>6 DEF Next

LEMMA InitVolumeInv == Init => VolumeInv
<1> SUFFICES ASSUME Init PROVE VolumeInv
  OBVIOUS
<1>1. \A p \in Pod : acrs[p] = NoACR /\ DOMAIN NoACR.reqs = {}
  BY DEF Init, NoACR, NoReqs
<1> QED
  BY <1>1, InitInv DEF Init, VolumeInv, RequestsOfPod, AnsweredHasVolume,
                       RequestInHand, OneVolumePerClaim

LEMMA NextVolumeInv == VolumeInv /\ [Next]_vars => VolumeInv'
BY NextVolumeStep, NextInv DEF VolumeInv, VolumeStep

LEMMA VolumeInvHolds == Spec => []VolumeInv
BY InitVolumeInv, NextVolumeInv, PTL DEF Spec

\* For any number of pods, claims and nodes: restarts, API errors, repeated
\* requests and late releases never make a second volume for a claim.
THEOREM OneVolume == Spec => []OneVolumePerClaim
<1>1. VolumeInv => OneVolumePerClaim
  BY DEF VolumeInv
<1> QED
  BY <1>1, VolumeInvHolds, PTL

\* A request is dropped from its ACR, by a release, a deletion or the
\* operator, only once the volume it was made for exists.
THEOREM LeavesAfter == Spec => RequestLeavesAfterVolume
<1>1. VolumeInv /\ [Next]_vars =>
        [\A p \in Pod : \A c \in DOMAIN acrs[p].reqs :
           c \notin DOMAIN acrs'[p].reqs => HasVolume(c)]_vars
  BY NextVolumeStep DEF VolumeStep, LeavesAfterVolume
<1> QED
  BY <1>1, VolumeInvHolds, PTL DEF Spec, RequestLeavesAfterVolume
=============================================================================
