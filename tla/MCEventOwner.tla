---------------------------- MODULE MCEventOwner ----------------------------
(* Instances of EventOwner for TLC. *)
EXTENDS EventOwner, TLC

CONSTANTS m1, m2, c1

Symmetry == Permutations(Msgs \ CompressCmds)
=============================================================================
