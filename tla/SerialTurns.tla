---------------------------- MODULE SerialTurns -----------------------------
(***************************************************************************)
(* What the turn engine promises to the senders of one session key, with   *)
(* no goroutines, locks or states: the agent works on one message at a     *)
(* time, messages that arrive meanwhile wait in line and are taken in the  *)
(* order in which they were acknowledged, and every message finishes once. *)
(* A newcomer that finds the agent idle is served at once, even when the   *)
(* line is not empty.                                                      *)
(***************************************************************************)
EXTENDS Naturals, Sequences

CONSTANTS Msgs, MaxLine

VARIABLES
  phase,  \* of each message: "new", "waiting", "running" or "finished"
  line    \* the waiting messages, oldest first

svars == <<phase, line>>

Idle == \A m \in Msgs : phase[m] # "running"

SInit == phase = [m \in Msgs |-> "new"] /\ line = <<>>

Begin(m) ==
  /\ phase[m] = "new" /\ Idle
  /\ phase' = [phase EXCEPT ![m] = "running"]
  /\ UNCHANGED line

Wait(m) ==
  /\ phase[m] = "new" /\ Len(line) < MaxLine
  /\ phase' = [phase EXCEPT ![m] = "waiting"]
  /\ line' = Append(line, m)

\* Busy without an agent, or the line is full.
Refuse(m) ==
  /\ phase[m] = "new"
  /\ phase' = [phase EXCEPT ![m] = "finished"]
  /\ UNCHANGED line

Resume ==
  /\ Idle /\ line # <<>>
  /\ phase' = [phase EXCEPT ![Head(line)] = "running"]
  /\ line' = Tail(line)

Finish(m) ==
  /\ phase[m] = "running"
  /\ phase' = [phase EXCEPT ![m] = "finished"]
  /\ UNCHANGED line

\* A failed send ends the turn and everything that waits behind it.
Abort(m) ==
  /\ phase[m] = "running"
  /\ phase' = [x \in Msgs |-> IF x = m \/ phase[x] = "waiting"
                                THEN "finished" ELSE phase[x]]
  /\ line' = <<>>

SNext ==
  \/ \E m \in Msgs : Begin(m) \/ Wait(m) \/ Refuse(m) \/ Finish(m) \/ Abort(m)
  \/ Resume

SFairness ==
  /\ WF_svars(Resume)
  /\ \A m \in Msgs : WF_svars(Finish(m) \/ Abort(m))

SSpec == SInit /\ [][SNext]_svars /\ SFairness
=============================================================================
