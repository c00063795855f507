--------------------------- MODULE MCReservation ----------------------------
(* Instances of Reservation.  Two nodes; a megabyte is 2, so an extent is 8. *)
EXTENDS Reservation

Acs(node, rank, size, sc) ==
  [node |-> node, sg |-> "", tainted |-> FALSE, rank |-> rank, size |-> size,
   sc |-> sc]

Req(pod, rank, size, sc) ==
  [pod |-> pod, size |-> size, sc |-> sc, sg |-> "", rank |-> rank]

MCNode == {"n1", "n2"}
MCPod  == {"p", "q"}

\* Two drives of one node; q asks for two volumes, of which the smaller one
\* takes a whole drive, so that a pod's own requests compete as well.
PairAC     == {"a1", "a2"}
PairACSpec == [a \in PairAC |-> CASE a = "a1" -> Acs("n1", 1, 21, "HDD")
                                   [] a = "a2" -> Acs("n1", 2, 21, "HDD")]
PairClaim  == {"c1", "d1", "d2"}
PairClaimSpec ==
  [c \in PairClaim |-> CASE c = "c1" -> Req("p", 1, 3, "HDDLVG")
                         [] c = "d1" -> Req("q", 2, 8, "HDDLVG")
                         [] c = "d2" -> Req("q", 3, 7, "ANY")]

\* One drive, wanted by both pods.
OneAC     == {"a1"}
OneACSpec == [a \in OneAC |-> Acs("n1", 1, 17, "HDD")]
OneClaim  == {"c1", "d1"}
OneClaimSpec ==
  [c \in OneClaim |-> CASE c = "c1" -> Req("p", 1, 5, "HDD")
                        [] c = "d1" -> Req("q", 2, 5, "HDD")]

\* The same pods with LVG volumes.
LvgClaimSpec ==
  [c \in OneClaim |-> CASE c = "c1" -> Req("p", 1, 3, "HDDLVG")
                        [] c = "d1" -> Req("q", 2, 8, "HDDLVG")]
=============================================================================
