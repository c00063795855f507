---------------------------- MODULE MCNodeVolume ----------------------------
(* NodeVolume for TLC: the modes two volumes have in turn. *)
EXTENDS NodeVolume

CONSTANTS v1, v2

\* a file system after a file system, a partition after a whole device
EachMode == {[v \in {v1, v2} |-> "FS"],
             [v \in {v1, v2} |-> IF v = v1 THEN "RAW" ELSE "RAWPART"]}
=============================================================================
