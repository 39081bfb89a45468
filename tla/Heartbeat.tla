----------------------------- MODULE Heartbeat -----------------------------
(***************************************************************************)
(* Heartbeats (core/heartbeat.go, and ExecuteHeartbeat in core/engine.go): *)
(* periodic prompts to the Session of a project, which can be paused and   *)
(* resumed, given another interval and triggered by hand.  A heartbeat     *)
(* that is only wanted when the Session is idle takes its lock and gives   *)
(* it back, then starts its turn in a second goroutine, which takes the    *)
(* lock again.  Pauses and intervals that differ from the configuration    *)
(* are kept in a file, which is not written atomically; a write that fails *)
(* is only logged.                                                         *)
(***************************************************************************)
EXTENDS SessionLock

CONSTANTS
  Projects,      \* the projects with a heartbeat
  Beating,       \* the one of them whose Session this is
  Beats,         \* executions, each with its goroutines
  IdleOnly,      \* the values HeartbeatConfig.OnlyWhenIdle of Beating has
  HeartbeatFaults \* a subset of {"timeout", "platform", "write", "torn"}

ASSUME HeartbeatAssumption ==
  /\ IdleOnly \subseteq BOOLEAN
  /\ HeartbeatFaults \subseteq {"timeout", "platform", "write", "torn"}

VARIABLES
  onlyIdle,  \* HeartbeatConfig.OnlyWhenIdle of Beating, read at the start
  paused,    \* heartbeatEntry.paused
  changed,   \* config.IntervalMins # origIntervalMins
  states,    \* heartbeat_state.json, of the projects it has
  writing,   \* persistLocked is writing the file
  unsaved,   \* history: the last write since the start has failed
  beat,      \* where each execution is
  beatWork,  \* where the goroutine of its turn is
  byTicker   \* the execution the ticker's goroutine is in

overrideVars == <<onlyIdle, paused, changed, states, writing, unsaved>>
beatVars == <<beat, beatWork, byTicker>>
heartbeatVars == <<overrideVars, beatVars>>

NoBeat == "no beat"
Override == [paused : BOOLEAN, changed : BOOLEAN]

HeartbeatTypeOK ==
  /\ onlyIdle \in IdleOnly
  /\ paused \in [Projects -> BOOLEAN]
  /\ changed \in [Projects -> BOOLEAN]
  /\ \E known \in SUBSET Projects : states \in [known -> Override]
  /\ writing \in BOOLEAN /\ unsaved \in BOOLEAN
  /\ beat \in [Beats -> {"none", "due", "probing", "waiting", "done"}]
  /\ beatWork \in [Beats -> {"none", "start", "begin", "asked", "drain", "end"}]
  /\ byTicker \in Beats \cup {NoBeat}

NoFile == [p \in {} |-> [paused |-> FALSE, changed |-> FALSE]]

HeartbeatInit ==
  /\ onlyIdle \in IdleOnly
  /\ paused = [p \in Projects |-> FALSE]
  /\ changed = [p \in Projects |-> FALSE]
  /\ states = NoFile
  /\ writing = FALSE /\ unsaved = FALSE
  /\ beat = [b \in Beats |-> "none"]
  /\ beatWork = [b \in Beats |-> "none"]
  /\ byTicker = NoBeat

-----------------------------------------------------------------------------
(* Overrides *)

\* What persistLocked writes: the entries that differ from the configuration.
Snapshot ==
  [p \in {q \in Projects : paused[q] \/ changed[q]} |->
     [paused |-> paused[p], changed |-> changed[p]]]

\* Pause, Resume and SetInterval hold HeartbeatScheduler.mu until the file is
\* written; a command that changes nothing does not write it.
Edit(p) ==
  /\ ~writing
  /\ Stimulus
  /\ \/ paused' = [paused EXCEPT ![p] = ~@] /\ UNCHANGED changed
     \/ \E c \in BOOLEAN : changed' = [changed EXCEPT ![p] = c] /\ UNCHANGED paused
  /\ writing' = TRUE
  /\ UNCHANGED <<onlyIdle, states, unsaved, beatVars, sessionVars, user, lapses>>

\* Mutant of Persist: a file that is not needed any more is left behind.
PersistLeft ==
  /\ writing
  /\ writing' = FALSE /\ unsaved' = FALSE
  /\ states' = IF Snapshot = NoFile THEN states ELSE Snapshot
  /\ UNCHANGED <<onlyIdle, paused, changed, beatVars, sessionVars, user, stimuli, lapses>>

\* The file is written, or removed when nothing differs.  When that fails, the
\* entries keep what they have, and the file is the old one or is broken off,
\* which reads as none.
Persist ==
  /\ writing
  /\ writing' = FALSE
  /\ \/ states' = Snapshot /\ unsaved' = FALSE
     \/ /\ "write" \in HeartbeatFaults
        /\ states' = states \/ (Snapshot # NoFile /\ states' = NoFile)
        /\ unsaved' = TRUE
  /\ UNCHANGED <<onlyIdle, paused, changed, beatVars, sessionVars, user, stimuli, lapses>>

-----------------------------------------------------------------------------
(* Executions *)

\* The ticker's goroutine executes one heartbeat at a time, unless paused.
Tick(b) ==
  /\ beat[b] = "none"
  /\ byTicker = NoBeat
  /\ ~writing /\ ~paused[Beating]
  /\ Stimulus
  /\ beat' = [beat EXCEPT ![b] = "due"]
  /\ byTicker' = b
  /\ UNCHANGED <<overrideVars, beatWork, sessionVars, user, lapses>>

\* TriggerNow executes beside it, paused or not.
Trigger(b) ==
  /\ beat[b] = "none"
  /\ ~writing
  /\ Stimulus
  /\ beat' = [beat EXCEPT ![b] = "due"]
  /\ UNCHANGED <<overrideVars, beatWork, byTicker, sessionVars, user, lapses>>

Finish(b) ==
  /\ beat' = [beat EXCEPT ![b] = "done"]
  /\ byTicker' = IF byTicker = b THEN NoBeat ELSE byTicker

StartWork(b) ==
  /\ beat' = [beat EXCEPT ![b] = "waiting"]
  /\ beatWork' = [beatWork EXCEPT ![b] = "start"]

\* The Session is tried when only idle ones are wanted; a message that is queued
\* before the lock is given back finds it taken twice, which is noted.
Probe(b) ==
  /\ beat[b] = "due"
  /\ \/ /\ onlyIdle /\ busy
        /\ Finish(b)
        /\ UNCHANGED <<beatWork, sessionVars>>
     \/ /\ onlyIdle
        /\ TryLock
        /\ beat' = [beat EXCEPT ![b] = "probing"]
        /\ UNCHANGED <<beatWork, byTicker>>
     \/ /\ ~onlyIdle
        /\ StartWork(b)
        /\ UNCHANGED <<byTicker, sessionVars>>
  /\ UNCHANGED <<overrideVars, user, stimuli, lapses>>

\* Unlock: the queue is not looked at.
ProbeUnlock(b) ==
  /\ beat[b] = "probing"
  /\ busy' = FALSE
  /\ lapses' = lapses \cup (IF queue # <<>> THEN {"probe"} ELSE {})
  /\ StartWork(b)
  /\ UNCHANGED <<overrideVars, byTicker, queue, history, user, stimuli>>

\* ExecuteHeartbeat: the platform cannot be used, the Session is busy, or a turn.
StartBeat(b) ==
  /\ beatWork[b] = "start"
  /\ \/ /\ busy \/ "platform" \in HeartbeatFaults
        /\ beatWork' = [beatWork EXCEPT ![b] = "end"]
        /\ UNCHANGED sessionVars
     \/ TryLock /\ beatWork' = [beatWork EXCEPT ![b] = "begin"]
  /\ UNCHANGED <<overrideVars, beat, byTicker, user, stimuli, lapses>>

BeatTurn(b) ==
  /\ \/ /\ beatWork[b] = "begin" /\ Ask
        /\ beatWork' = [beatWork EXCEPT ![b] = "asked"]
     \/ /\ beatWork[b] = "asked"
        /\ \E ok \in BOOLEAN : Answer(ok)
        /\ beatWork' = [beatWork EXCEPT ![b] = "drain"]
     \/ /\ beatWork[b] = "drain" /\ Pop
        /\ beatWork' = [beatWork EXCEPT ![b] = "asked"]
     \/ /\ beatWork[b] = "drain" /\ Release
        /\ beatWork' = [beatWork EXCEPT ![b] = "end"]
  /\ UNCHANGED <<overrideVars, beat, byTicker, user, stimuli, lapses>>

\* The result arrives, or execute has waited long enough; the run is counted.
Record(b) ==
  /\ beat[b] = "waiting"
  /\ beatWork[b] = "end" \/ "timeout" \in HeartbeatFaults
  /\ ~writing
  /\ Finish(b)
  /\ UNCHANGED <<overrideVars, beatWork, sessionVars, user, stimuli, lapses>>

\* The process starts again and registers the projects: a file that was being
\* written may be unreadable, and then there are no overrides.
HeartbeatRestart ==
  /\ \/ UNCHANGED <<states, lapses>>
     \/ /\ writing /\ "torn" \in HeartbeatFaults
        /\ states' = NoFile
        /\ lapses' = lapses \cup {"torn"}
  /\ paused' = [p \in Projects |-> p \in DOMAIN states' /\ states'[p].paused]
  /\ changed' = [p \in Projects |-> p \in DOMAIN states' /\ states'[p].changed]
  /\ writing' = FALSE /\ unsaved' = FALSE
  /\ onlyIdle' \in IdleOnly
  /\ beat' = [b \in Beats |-> IF beat[b] = "none" THEN "none" ELSE "done"]
  /\ beatWork' = [b \in Beats |-> IF beat[b] = "none" THEN "none" ELSE "end"]
  /\ byTicker' = NoBeat

HeartbeatStep ==
  \/ \E p \in Projects : Edit(p)
  \/ Persist
  \/ \E b \in Beats :
       Tick(b) \/ Trigger(b) \/ Probe(b) \/ ProbeUnlock(b) \/ StartBeat(b)
       \/ BeatTurn(b) \/ Record(b)

BeatHolders ==
  {b \in Beats : beat[b] = "probing" \/ beatWork[b] \in {"begin", "asked", "drain"}}

=============================================================================
