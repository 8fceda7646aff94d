--------------------------- MODULE MCBatchSender ---------------------------
(* Constant values for the TLC runs of BatchSender. *)
EXTENDS BatchSender, TLC

CONSTANTS p1, p2

PointSymmetry == Permutations({p1, p2})
=============================================================================
