--------------------------- MODULE MCPermissions ----------------------------
(***************************************************************************)
(* Instances of Permissions for TLC.                                       *)
(***************************************************************************)
EXTENDS Permissions, TLC

CONSTANTS r1, r2, r3, d1

Symmetry == Permutations(Approvers) \cup Permutations(Replies \ Approvers)
=============================================================================
