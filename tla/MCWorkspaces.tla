---------------------------- MODULE MCWorkspaces ----------------------------
(* Model values for Workspaces. *)
EXTENDS Workspaces, TLC

CONSTANTS m1, m2, m3, m4, c1, c2

OneChannel == [m \in Msgs |-> c1]
TwoChannels == [m \in Msgs |-> IF m = m4 THEN c2 ELSE c1]

=============================================================================
