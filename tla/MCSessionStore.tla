--------------------------- MODULE MCSessionStore ---------------------------
(***************************************************************************)
(* Instances of SessionStore for TLC.                                      *)
(***************************************************************************)
EXTENDS SessionStore, TLC

CONSTANTS u1, u2, a1, a2, p1, p2, p3

Symmetry == Permutations(Users) \cup Permutations(AgentIds)
=============================================================================
