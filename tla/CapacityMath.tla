---------------------------- MODULE CapacityMath ----------------------------
(***************************************************************************)
(* The size arithmetic of pkg/base/capacityplanner/common.go.  Sizes are   *)
(* byte counts in the code; here a byte count is a natural number and the  *)
(* number of bytes in a megabyte is a parameter, so that the remainders    *)
(* the code distinguishes (below 1MB, between 1MB and one physical extent) *)
(* occur among small numbers too.                                          *)
(***************************************************************************)
EXTENDS Integers

CONSTANT MBYTE      \* util.MBYTE

ASSUME MBYTEAssumption == MBYTE \in Nat \ {0}

\* capacityplanner.LvgDefaultMetadataSize
LvgDefaultMetadataSize == MBYTE

\* capacityplanner.DefaultPESize: the size of one LVM physical extent
DefaultPESize == 4 * MBYTE

\* Round a requested volume size up to whole extents.
AlignSizeByPE(size) ==
  LET reminder == size % DefaultPESize
  IN  size + (IF reminder # 0 THEN DefaultPESize - reminder ELSE 0)

\* Round a drive's size down to whole megabytes.
AlignSizeByMB(size) == size - (size % MBYTE)

\* What a volume group made of one drive of this size can hand out.
SubtractLVMMetadataSize(size) ==
  LET reminder == size % DefaultPESize
      result   == size - reminder
  IN  IF reminder < LvgDefaultMetadataSize THEN result - DefaultPESize
                                           ELSE result
=============================================================================
