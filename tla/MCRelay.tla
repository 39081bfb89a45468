------------------------------ MODULE MCRelay ------------------------------
(* Model values for Relay. *)
EXTENDS Relay, TLC

CONSTANTS r1, r2, s1, s2

=============================================================================
