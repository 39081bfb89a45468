---------------------------- MODULE MCTurnEngine ----------------------------
(***************************************************************************)
(* Instances of TurnEngine for TLC.                                        *)
(***************************************************************************)
EXTENDS TurnEngine, TLC

CONSTANTS m1, m2, m3, c1

Symmetry == Permutations(Msgs)
=============================================================================
