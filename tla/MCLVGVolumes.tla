---------------------------- MODULE MCLVGVolumes ----------------------------
(* Instances of LVGVolumes.  A megabyte is 1, so an extent is 4. *)
EXTENDS LVGVolumes, TLC

\* Volumes of one extent.
SmallSize == [v \in Volume |-> 3]
ExtentSize == [v \in Volume |-> 4]

Symmetry == Permutations(Volume)
=============================================================================
