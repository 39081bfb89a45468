----------------------------- MODULE Automation -----------------------------
(***************************************************************************)
(* Users, scheduled jobs and heartbeats start turns on one Session.        *)
(***************************************************************************)
EXTENDS Cron, Heartbeat

CONSTANTS Restarts  \* may the process be restarted?

vars == <<sessionVars, user, stimuli, lapses, cronVars, heartbeatVars>>

TypeOK == SessionTypeOK /\ CronTypeOK /\ HeartbeatTypeOK

Init == SessionInit /\ CronInit /\ HeartbeatInit

\* The process ends at any moment and is started again.
Restart ==
  /\ Restarts
  /\ Stimulus
  /\ CronRestart
  /\ HeartbeatRestart
  /\ busy' = FALSE /\ queue' = <<>> /\ UNCHANGED history
  /\ user' = [m \in Users |-> IF user[m] = "idle" THEN "idle" ELSE "done"]

Next ==
  \/ UserStep /\ UNCHANGED <<cronVars, heartbeatVars>>
  \/ CronStep /\ UNCHANGED heartbeatVars
  \/ HeartbeatStep /\ UNCHANGED cronVars
  \/ Restart

Spec == Init /\ [][Next]_vars

-----------------------------------------------------------------------------
(* Properties *)

\* Whoever starts turns, and however long the scheduler has stopped waiting for
\* them, one goroutine has the Session at a time, and the flag is set exactly
\* while one does (core/session.go:37, core/engine.go:1241, 1541, 2129).
OneHolder ==
  Cardinality(UserHolders) + Cardinality(CronHolders)
    + Cardinality(BeatHolders) = IF busy THEN 1 ELSE 0

\* A queued message has somebody who will look at the queue: the turn that has
\* the Session, or a handler about to try the lock again.  A heartbeat that only
\* tries the lock breaks it, which is noted (core/engine.go:2140-2147).
NoneStranded ==
  (queue # <<>> /\ "probe" \notin lapses) =>
    busy \/ \E m \in Users : user[m] = "retry"

\* A restart gives every project the pause and interval it had, unless the
\* process ended while the file was written or the last write of it failed: what
\* an earlier write did not save, the next one does, for every project
\* (core/heartbeat.go:108-115, 287-315).
OverridesKept ==
  [][Restart /\ ~writing /\ ~unsaved =>
       paused' = paused /\ changed' = changed]_vars

=============================================================================
