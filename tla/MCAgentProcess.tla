-------------------------- MODULE MCAgentProcess --------------------------
(* Model values for AgentProcess. *)
EXTENDS AgentProcess, TLC

CONSTANTS w1, w2

=============================================================================
