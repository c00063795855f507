---------------------------- MODULE Reservation -----------------------------
(***************************************************************************)
(* From a pod to its volumes: the scheduler extender asks for capacity     *)
(* with an AvailableCapacityReservation (ACR), the reservation controller  *)
(* confirms or rejects it, and CreateVolume turns the confirmed capacity   *)
(* into Volume objects and releases the reservation.                       *)
(*                                                                         *)
(*   pkg/scheduler/extender/extender.go                                    *)
(*   pkg/crcontrollers/reservation/reservationcontroller.go                *)
(*   pkg/base/capacityplanner/{planner,node_capacity,placing_plan,helpers} *)
(*   pkg/common/{volume_operations,ac_operations}.go, CreateVolume         *)
(*                                                                         *)
(* The objects live in the API server, which is linearizable.  An update   *)
(* carries the resource version that was read and is refused when the      *)
(* object has changed since; "fresh" says whether it still would be        *)
(* accepted.  A handler that reads one object, decides on nothing else and *)
(* updates that object is one atomic step: when the object changes in      *)
(* between, the update is refused and the handler has no effect.           *)
(***************************************************************************)
EXTENDS Planner

CONSTANTS
  SequentialLVGReservation,   \* flag of the controller binary
  Offer,                      \* input: the node lists the scheduler filters
  MaxFaults                   \* bound: API errors and controller restarts

ASSUME ReservationAssumption ==
  /\ SequentialLVGReservation \in BOOLEAN
  /\ Offer \subseteq (SUBSET Node) \ {{}}
  /\ MaxFaults \in Nat

\* A pod has finitely many claims: an ACR lists them in a slice.
ASSUME ClaimsFinite == \A p \in Pod : IsFiniteSet(ClaimsOf(p))

VARIABLES
  acs,       \* AC objects: size and storage class
  acrs,      \* ACR objects, one name per pod
  volumes,   \* Volume objects
  lvgs,      \* number of LogicalVolumeGroup objects made on each AC's drive
  phase,     \* per claim: pending; CreateVolume returned; PVC bound
  selected,  \* per pod: the node the scheduler has chosen, if any
  rc,        \* the reservation controller's only worker
  cv,        \* the CreateVolume request that holds reqLock
  faults

vars == <<acs, acrs, volumes, lvgs, phase, selected, rc, cv, faults>>

Volume == [claim : Claim, ac : AC, sc : SC, size : Int]

Idle == [pc |-> "idle"]

RcState ==
  {Idle}
    \cup [pc : {"planning"}, pod : Pod, fresh : BOOLEAN, acs : [AC -> ACState]]
    \cup [pc : {"updating"}, pod : Pod, fresh : BOOLEAN, nodes : SUBSET Node,
          reqs : ReqMap]

CvState ==
  {Idle}
    \cup [pc : {"lvg", "convert", "create", "decrease", "release"},
          claim : Claim, ac : AC, requests : SUBSET Claim, fresh : BOOLEAN,
          retry : BOOLEAN]

TypeOK ==
  /\ acs \in [AC -> ACState]
  /\ acrs \in [Pod -> ACR]
  /\ volumes \subseteq Volume
  /\ lvgs \in [AC -> Nat]
  /\ phase \in [Claim -> {"pending", "provisioned", "bound"}]
  /\ selected \in [Pod -> SUBSET Node]
  /\ rc \in RcState
  /\ cv \in CvState
  /\ faults \in 0 .. MaxFaults

Init ==
  /\ acs = [a \in AC |-> [size |-> ACSpec[a].size, sc |-> ACSpec[a].sc]]
  /\ acrs = [p \in Pod |-> NoACR]
  /\ volumes = {}
  /\ lvgs = [a \in AC |-> 0]
  /\ phase = [c \in Claim |-> "pending"]
  /\ selected = [p \in Pod |-> {}]
  /\ rc = Idle
  /\ cv = Idle
  /\ faults = 0

PodOf(c) == ClaimSpec[c].pod

Unbound(p) == {c \in ClaimsOf(p) : phase[c] # "bound"}

HasVolume(c) == \E v \in volumes : v.claim = c

\* A write to the ACR of pod p makes the copies read before it stale.
RcStale(p) == IF rc # Idle /\ rc.pod = p THEN [rc EXCEPT !.fresh = FALSE] ELSE rc

CvStale(p) ==
  IF cv # Idle /\ PodOf(cv.claim) = p THEN [cv EXCEPT !.fresh = FALSE] ELSE cv

\* CreateVolume has done its part for c.  It waits until the node has created
\* the volume, and answers success, or an error that makes the caller repeat it.
Answer(c) == phase' \in {phase, [phase EXCEPT ![c] = "provisioned"]}

Fault == faults < MaxFaults /\ faults' = faults + 1

-----------------------------------------------------------------------------
(* Scheduler extender: one Filter request for pod p with candidate nodes ns *)

\* The scheduler offers only nodes that can reach the pod's bound volumes.
Reachable(p, ns) ==
  \A v \in volumes :
    PodOf(v.claim) = p /\ phase[v.claim] = "bound" => ns = {ACSpec[v.ac].node}

\* The handler looks for claims that are not bound, and for the ACR only then:
\* some of the claims it has seen, or all of them, may be bound by now.
\* No ACR yet: createReservation with those claims.
FilterCreate(p, ns) ==
  /\ acrs[p].status = "none"
  /\ \E asked \in (SUBSET ClaimsOf(p)) \ {{}} :
       /\ Unbound(p) \subseteq asked
       /\ acrs' = [acrs EXCEPT ![p] =
            [status |-> "REQUESTED", reqs |-> [c \in asked |-> {}],
             requested |-> ns, reserved |-> {}]]
  /\ rc' = RcStale(p)
  /\ cv' = CvStale(p)
  /\ UNCHANGED <<acs, volumes, lvgs, phase, selected, faults>>

\* Some candidates are reserved: the scheduler goes on and picks one.
FilterMatch(p, ns) ==
  /\ acrs[p].status = "RESERVED"
  /\ \E n \in ns \cap acrs[p].reserved : selected' = [selected EXCEPT ![p] = {n}]
  /\ UNCHANGED <<acs, acrs, volumes, lvgs, phase, rc, cv, faults>>

\* Rejected, or confirmed for none of the candidates: request again.
FilterResend(p, ns) ==
  /\ \/ acrs[p].status = "REJECTED"
     \/ acrs[p].status = "RESERVED" /\ ns \cap acrs[p].reserved = {}
  /\ acrs' = [acrs EXCEPT ![p].status = "REQUESTED",
                          ![p].requested = ns,
                          ![p].reqs = [c \in DOMAIN acrs[p].reqs |-> {}]]
  /\ rc' = RcStale(p)
  /\ cv' = CvStale(p)
  /\ UNCHANGED <<acs, volumes, lvgs, phase, selected, faults>>

Filter(p) ==
  \E ns \in Offer :
    /\ Reachable(p, ns)
    /\ FilterCreate(p, ns) \/ FilterMatch(p, ns) \/ FilterResend(p, ns)

-----------------------------------------------------------------------------
(* Reservation controller                                                  *)

\* Reconcile of a requested ACR starts by listing the ACs.
RcReadCapacity(p) ==
  /\ rc = Idle
  /\ acrs[p].status = "REQUESTED"
  /\ rc' = [pc |-> "planning", pod |-> p, fresh |-> TRUE, acs |-> acs]
  /\ UNCHANGED <<acs, acrs, volumes, lvgs, phase, selected, cv, faults>>

\* Then it lists the ACRs, and plans.  A stale ACR is left to RcConflict: its
\* plan could not be stored.
RcReadReservations ==
  /\ rc.pc = "planning" /\ rc.fresh
  /\ LET acr  == acrs[rc.pod]
         vols == DOMAIN acr.reqs
     IN  rc' = IF SequentialLVGReservation /\ IsLVGCapacityReserved(acrs, vols)
               THEN Idle
               ELSE [pc |-> "updating", pod |-> rc.pod, fresh |-> TRUE,
                     nodes |-> MatchedNodes(rc.acs, acrs, acr.requested, vols),
                     reqs |-> ACsForVolumes(rc.acs, acrs, acr.requested, vols)]
  /\ UNCHANGED <<acs, acrs, volumes, lvgs, phase, selected, cv, faults>>

\* Mutants of RcUpdate: all requested nodes are reported as reserved; a status
\* the CRD does not use; no answer when nothing was found.
RcUpdateReportsRequested ==
  /\ rc.pc = "updating" /\ rc.fresh
  /\ acrs' = IF rc.nodes # {}
             THEN [acrs EXCEPT ![rc.pod].status = "RESERVED",
                               ![rc.pod].reqs = rc.reqs,
                               ![rc.pod].reserved = acrs[rc.pod].requested]
             ELSE [acrs EXCEPT ![rc.pod].status = "REJECTED"]
  /\ rc' = Idle
  /\ cv' = CvStale(rc.pod)
  /\ UNCHANGED <<acs, volumes, lvgs, phase, selected, faults>>

RcUpdateCancels ==
  /\ rc.pc = "updating" /\ rc.fresh
  /\ acrs' = IF rc.nodes # {}
             THEN [acrs EXCEPT ![rc.pod].status = "RESERVED",
                               ![rc.pod].reqs = rc.reqs,
                               ![rc.pod].reserved = rc.nodes]
             ELSE [acrs EXCEPT ![rc.pod].status = "CANCELLED"]
  /\ rc' = Idle
  /\ cv' = CvStale(rc.pod)
  /\ UNCHANGED <<acs, volumes, lvgs, phase, selected, faults>>

RcUpdateNeverRejects ==
  /\ rc.pc = "updating" /\ rc.fresh
  /\ acrs' = IF rc.nodes # {}
             THEN [acrs EXCEPT ![rc.pod].status = "RESERVED",
                               ![rc.pod].reqs = rc.reqs,
                               ![rc.pod].reserved = rc.nodes]
             ELSE acrs
  /\ rc' = Idle
  /\ cv' = CvStale(rc.pod)
  /\ UNCHANGED <<acs, volumes, lvgs, phase, selected, faults>>

\* UpdateReservation, or the rejection.
RcUpdate ==
  /\ rc.pc = "updating" /\ rc.fresh
  /\ acrs' = IF rc.nodes # {}
             THEN [acrs EXCEPT ![rc.pod].status = "RESERVED",
                               ![rc.pod].reqs = rc.reqs,
                               ![rc.pod].reserved = rc.nodes]
             ELSE [acrs EXCEPT ![rc.pod].status = "REJECTED"]
  /\ rc' = Idle
  /\ cv' = CvStale(rc.pod)
  /\ UNCHANGED <<acs, volumes, lvgs, phase, selected, faults>>

\* The ACR has changed since it was read: the update is refused, requeue.
RcConflict ==
  /\ rc.pc \in {"planning", "updating"} /\ ~rc.fresh
  /\ rc' = Idle
  /\ UNCHANGED <<acs, acrs, volumes, lvgs, phase, selected, cv, faults>>

\* A list or the update fails: requeue.
RcFail ==
  /\ rc # Idle
  /\ Fault
  /\ rc' = Idle
  /\ UNCHANGED <<acs, acrs, volumes, lvgs, phase, selected, cv>>

-----------------------------------------------------------------------------
(* CreateVolume: handleVolumeCreation and handleVolumeInProgress           *)

\* Mutant of CvStart: an existing Volume is not looked for.
CvStartAgain(c) ==
  LET p   == PodOf(c)
      acr == acrs[p]
  IN  /\ cv = Idle
      /\ phase[c] = "pending"
      /\ acr.status = "RESERVED"
      /\ c \in DOMAIN acr.reqs
      /\ \E a \in acr.reqs[c] :
           /\ ACSpec[a].node \in selected[p]
           /\ cv' = [pc |-> IF acs[a].sc # ClaimSpec[c].sc /\ IsLVG(c)
                            THEN "lvg" ELSE "create",
                     claim |-> c, ac |-> a, requests |-> DOMAIN acr.reqs,
                     fresh |-> TRUE, retry |-> FALSE]
      /\ UNCHANGED <<acs, acrs, volumes, lvgs, phase, selected, rc, faults>>

\* The claim's request in the pod's confirmed ACR, and the AC reserved for it
\* on the selected node.  Without them the request fails and changes nothing.
CvStart(c) ==
  LET p   == PodOf(c)
      acr == acrs[p]
  IN  /\ cv = Idle
      /\ phase[c] = "pending"
      /\ ~HasVolume(c)
      /\ acr.status = "RESERVED"
      /\ c \in DOMAIN acr.reqs
      /\ \E a \in acr.reqs[c] :
           /\ ACSpec[a].node \in selected[p]
           /\ cv' = [pc |-> IF acs[a].sc # ClaimSpec[c].sc /\ IsLVG(c)
                            THEN "lvg" ELSE "create",
                     claim |-> c, ac |-> a, requests |-> DOMAIN acr.reqs,
                     fresh |-> TRUE, retry |-> FALSE]
      /\ UNCHANGED <<acs, acrs, volumes, lvgs, phase, selected, rc, faults>>

\* RecreateACToLVGSC: make the LVG object, then convert the AC to it.
CvCreateLVG ==
  /\ cv.pc = "lvg"
  /\ lvgs' = [lvgs EXCEPT ![cv.ac] = @ + 1]
  /\ cv' = [cv EXCEPT !.pc = "convert"]
  /\ UNCHANGED <<acs, acrs, volumes, phase, selected, rc, faults>>

CvConvertAC ==
  /\ cv.pc = "convert"
  /\ acs' = [acs EXCEPT ![cv.ac] =
               [size |-> SubtractLVMMetadataSize(acs[cv.ac].size),
                sc   |-> ClaimSpec[cv.claim].sc]]
  /\ cv' = [cv EXCEPT !.pc = "create"]
  /\ UNCHANGED <<acrs, volumes, lvgs, phase, selected, rc, faults>>

AllocatedBytes(c, ac) ==
  IF IsStorageClassLVG(ac.sc) THEN AlignSizeByPE(ClaimSpec[c].size)
                              ELSE AlignSizeByMB(ac.size)

CvCreateVolume ==
  /\ cv.pc = "create"
  /\ volumes' = volumes \cup
       {[claim |-> cv.claim, ac |-> cv.ac, sc |-> acs[cv.ac].sc,
         size |-> AllocatedBytes(cv.claim, acs[cv.ac])]}
  /\ cv' = [cv EXCEPT !.pc = "decrease"]
  /\ UNCHANGED <<acs, acrs, lvgs, phase, selected, rc, faults>>

CvDecreaseAC ==
  /\ cv.pc = "decrease"
  /\ acs' = [acs EXCEPT ![cv.ac].size =
       IF IsStorageClassLVG(acs[cv.ac].sc)
       THEN @ - AllocatedBytes(cv.claim, acs[cv.ac])
       ELSE 0]
  /\ cv' = [cv EXCEPT !.pc = "release"]
  /\ UNCHANGED <<acrs, volumes, lvgs, phase, selected, rc, faults>>

\* An error of the AC update is only logged.
CvDecreaseACFails ==
  /\ cv.pc = "decrease"
  /\ Fault
  /\ cv' = [cv EXCEPT !.pc = "release"]
  /\ UNCHANGED <<acs, acrs, volumes, lvgs, phase, selected, rc>>

\* Mutant of CvRelease: the ACR is deleted with two requests left.
CvReleaseEarly ==
  /\ cv.pc = "release"
  /\ LET p == PodOf(cv.claim)
     IN  acrs' = IF Cardinality(cv.requests) <= 2
                 THEN [acrs EXCEPT ![p] = NoACR] ELSE acrs
  /\ rc' = RcStale(PodOf(cv.claim))
  /\ Answer(cv.claim)
  /\ cv' = Idle
  /\ UNCHANGED <<acs, volumes, lvgs, selected, faults>>

\* ReleaseReservation: the last request deletes the ACR whatever its version,
\* another one is cut from the list with a versioned update.  A refused update
\* fails the request, unless it only repeats a release (handleVolumeInProgress).
CvRelease ==
  /\ cv.pc = "release"
  /\ LET p       == PodOf(cv.claim)
         last    == Cardinality(cv.requests) = 1
         success == last \/ cv.fresh \/ cv.retry
     IN  /\ acrs' = IF last THEN [acrs EXCEPT ![p] = NoACR]
                    ELSE IF cv.fresh
                    THEN [acrs EXCEPT ![p].reqs =
                            [d \in DOMAIN @ \ {cv.claim} |-> @[d]]]
                    ELSE acrs
         /\ rc' = IF last \/ cv.fresh THEN RcStale(p) ELSE rc
         /\ IF success THEN Answer(cv.claim) ELSE UNCHANGED phase
  /\ cv' = Idle
  /\ UNCHANGED <<acs, volumes, lvgs, selected, faults>>

\* An API error ends the request with an error at any other step; where the
\* release is only repeated the error is logged.
CvFail ==
  /\ cv.pc \in {"lvg", "convert", "create", "release"}
  /\ Fault
  /\ IF cv.retry THEN Answer(cv.claim) ELSE UNCHANGED phase
  /\ cv' = Idle
  /\ UNCHANGED <<acs, acrs, volumes, lvgs, selected, rc>>

\* The request is repeated after its Volume exists: release the reservation if
\* one is confirmed (again), and answer.
CvInProgress(c) ==
  LET p == PodOf(c)
  IN  /\ cv = Idle
      /\ phase[c] = "pending"
      /\ HasVolume(c)
      /\ IF acrs[p].status = "RESERVED" /\ c \in DOMAIN acrs[p].reqs
         THEN /\ cv' = [pc |-> "release", claim |-> c,
                        ac |-> (CHOOSE v \in volumes : v.claim = c).ac,
                        requests |-> DOMAIN acrs[p].reqs,
                        fresh |-> TRUE, retry |-> TRUE]
              /\ UNCHANGED phase
         ELSE Answer(c) /\ UNCHANGED cv
      /\ UNCHANGED <<acs, acrs, volumes, lvgs, selected, rc, faults>>

-----------------------------------------------------------------------------
(* Environment                                                             *)

\* Kubernetes binds the PVC some time after CreateVolume has returned.
BindPVC(c) ==
  /\ phase[c] = "provisioned"
  /\ phase' = [phase EXCEPT ![c] = "bound"]
  /\ UNCHANGED <<acs, acrs, volumes, lvgs, selected, rc, cv, faults>>

\* The operator's ACRValidator removes ACRs of running pods.
ACRValidator(p) ==
  /\ ClaimsOf(p) # {} /\ Unbound(p) = {}
  /\ acrs[p].status # "none"
  /\ acrs' = [acrs EXCEPT ![p] = NoACR]
  /\ rc' = RcStale(p)
  /\ cv' = CvStale(p)
  /\ UNCHANGED <<acs, volumes, lvgs, phase, selected, faults>>

\* The controller process restarts: both of its activities are gone.
Restart ==
  /\ rc # Idle \/ cv # Idle
  /\ Fault
  /\ rc' = Idle
  /\ cv' = Idle
  /\ UNCHANGED <<acs, acrs, volumes, lvgs, phase, selected>>

-----------------------------------------------------------------------------
RcNext ==
  \/ \E p \in Pod : RcReadCapacity(p)
  \/ RcReadReservations
  \/ RcUpdate
  \/ RcConflict
  \/ RcFail

CvStep == CvCreateLVG \/ CvConvertAC \/ CvCreateVolume \/ CvDecreaseAC \/ CvRelease

CvNext ==
  \/ \E c \in Claim : CvStart(c) \/ CvInProgress(c)
  \/ CvStep
  \/ CvDecreaseACFails
  \/ CvFail

Next ==
  \/ \E p \in Pod : Filter(p) \/ ACRValidator(p)
  \/ RcNext
  \/ CvNext
  \/ \E c \in Claim : BindPVC(c)
  \/ Restart

\* The work queue of the controller is fair to every ACR in it, and a handler
\* that has started goes on unless its process restarts.
Fairness ==
  /\ \A p \in Pod : SF_vars(RcReadCapacity(p))
  /\ WF_vars(RcReadReservations \/ RcUpdate \/ RcConflict)
  /\ WF_vars(CvStep)

Spec == Init /\ [][Next]_vars

FairSpec == Spec /\ Fairness

-----------------------------------------------------------------------------
(* Properties                                                              *)

\* Two confirmed requests, of one pod or of two, share an AC only when both
\* ask for an LVG class: a whole drive is promised once.  The planner decides
\* this from a list of ACRs that may be out of date when the plan is stored.
ReservedExclusively ==
  \A r, s \in ConfirmedRequests(acrs) :
    r # s /\ acrs[r[1]].reqs[r[2]] \cap acrs[s[1]].reqs[s[2]] # {} =>
      IsLVG(r[2]) /\ IsLVG(s[2])

\* A confirmed ACR has, for each request it still lists, an AC on every node
\* it reports as reserved: CreateVolume on such a node finds its capacity
\* ("capacity must be found when reservation exists").
CapacityFoundOnReservedNodes ==
  \A r \in ConfirmedRequests(acrs), n \in Node :
    n \in acrs[r[1]].reserved =>
      \E a \in acrs[r[1]].reqs[r[2]] : ACSpec[a].node = n

\* With sequential LVG reservation no two ACRs are confirmed for the same LVG
\* class at the same time.
OneLVGReservationAtATime ==
  SequentialLVGReservation =>
    \A r, s \in ConfirmedRequests(acrs) :
      r[1] # s[1] /\ IsLVG(r[2]) => ClaimSpec[r[2]].sc # ClaimSpec[s[2]].sc

\* CreateVolume never makes a second Volume for a claim, through restarts,
\* errors and repeated requests.
OneVolumePerClaim ==
  \A v, w \in volumes : v.claim = w.claim => v = w

\* A request leaves its ACR only when its Volume exists: a late or repeated
\* release, and the deletion of an ACR whatever its version, never throw away
\* the reservation of a claim that is still to be created.
RequestLeavesAfterVolume ==
  [][\A p \in Pod : \A c \in DOMAIN acrs[p].reqs :
       c \notin DOMAIN acrs'[p].reqs => HasVolume(c)]_vars

\* Another ACR holds a confirmed request of an LVG class the pod asks for: the
\* controller does not plan the pod's ACR but puts it back into its queue.
MustWait(p) == SequentialLVGReservation /\ IsLVGCapacityReserved(acrs, DOMAIN acrs[p].reqs)

\* A requested ACR is confirmed, rejected or removed in the end, through refused
\* updates, errors and restarts, unless others hold reservations of its LVG class
\* again and again: nothing makes those who wait take turns.
RequestedIsSettled ==
  \A p \in Pod :
    acrs[p].status = "REQUESTED" ~> acrs[p].status # "REQUESTED" \/ MustWait(p)

\* "Reservation logic through CRD ... guarantees placement": a drive that has a
\* volume of a non-LVG class has no other volume.
PlacementGuaranteed ==
  \A v, w \in volumes : v # w /\ v.ac = w.ac =>
    IsStorageClassLVG(v.sc) /\ IsStorageClassLVG(w.sc)

-----------------------------------------------------------------------------
(* What makes the safety invariants inductive: the plan the controller holds *)
(* between its reads and its update agrees with the ACRs of the moment,      *)
(* although other ACRs may have been released, resent or removed meanwhile.  *)

FreshIsRequested ==
  rc # Idle /\ rc.fresh => acrs[rc.pod].status = "REQUESTED"

PlanAgrees ==
  rc.pc = "updating" /\ rc.fresh =>
    /\ DOMAIN rc.reqs = DOMAIN acrs[rc.pod].reqs
    /\ \A u, v \in DOMAIN rc.reqs :
         u # v /\ rc.reqs[u] \cap rc.reqs[v] # {} => IsLVG(u) /\ IsLVG(v)
    /\ \A v \in DOMAIN rc.reqs, r \in ConfirmedRequests(acrs) :
         rc.reqs[v] \cap acrs[r[1]].reqs[r[2]] # {} => IsLVG(v) /\ IsLVG(r[2])
    /\ \A v \in DOMAIN rc.reqs, n \in rc.nodes :
         \E a \in rc.reqs[v] : ACSpec[a].node = n
    /\ SequentialLVGReservation =>
         \A v \in DOMAIN rc.reqs, r \in ConfirmedRequests(acrs) :
           IsLVG(v) => ClaimSpec[v].sc # ClaimSpec[r[2]].sc

ReservationInv ==
  /\ TypeOK
  /\ FreshIsRequested
  /\ PlanAgrees
  /\ ReservedExclusively
  /\ CapacityFoundOnReservedNodes
  /\ OneLVGReservationAtATime

-----------------------------------------------------------------------------
(* What makes OneVolumePerClaim inductive, and RequestLeavesAfterVolume a    *)
(* consequence: the requests of an ACR stay what the CreateVolume request    *)
(* that holds reqLock has read, although the ACR itself may be resent,       *)
(* planned and confirmed again under it.                                     *)

RequestsOfPod ==
  \A p \in Pod :
    /\ DOMAIN acrs[p].reqs \subseteq ClaimsOf(p)
    /\ acrs[p].status = "none" => DOMAIN acrs[p].reqs = {}

AnsweredHasVolume ==
  \A c \in Claim : phase[c] # "pending" => HasVolume(c)

RequestInHand ==
  cv # Idle =>
    /\ phase[cv.claim] = "pending"
    /\ cv.claim \in cv.requests
    /\ acrs[PodOf(cv.claim)].status # "none"
    /\ DOMAIN acrs[PodOf(cv.claim)].reqs = cv.requests
    /\ cv.pc \in {"decrease", "release"} <=> HasVolume(cv.claim)
    /\ cv.retry => cv.pc = "release"

VolumeInv ==
  /\ ReservationInv
  /\ RequestsOfPod
  /\ AnsweredHasVolume
  /\ RequestInHand
  /\ OneVolumePerClaim
=============================================================================
