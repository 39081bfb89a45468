-------------------------------- MODULE Cron --------------------------------
(***************************************************************************)
(* Scheduled jobs (core/cron.go, and ExecuteCronJob in core/engine.go).    *)
(* The store keeps the jobs under its own lock and saves them after every  *)
(* change; the scheduler keeps one entry of the cron library per enabled   *)
(* job under another lock, so each command on a job is several critical    *)
(* sections.  When an entry fires, a goroutine tests the job again, starts *)
(* its turn in a second goroutine and waits for it, or for the timeout,    *)
(* after which the turn goes on by itself.                                 *)
(***************************************************************************)
EXTENDS SessionLock

CONSTANTS
  Jobs,      \* the jobs; an id is not used again after its job is removed
  Admins,    \* goroutines that serve commands on jobs
  Runs,      \* goroutines of entries that have fired
  NewPerRun, \* the jobs whose "session_mode" may be edited to "new_per_run"
  CronFaults \* a subset of CronFaultKinds

\* A write fails, a run takes too long, the project or the platform of a job is
\* not there, somebody mutes a job.
CronFaultKinds == {"write", "timeout", "project", "platform", "mute"}

ASSUME CronAssumption ==
  /\ NewPerRun \subseteq Jobs
  /\ CronFaults \subseteq CronFaultKinds

VARIABLES
  job,     \* CronStore.jobs and their Enabled
  file,    \* jobs.json
  entry,   \* the ids in CronScheduler.entries
  live,    \* how many entries of each job the cron library has
  admin,   \* where each goroutine that serves a command is
  call,    \* and what it serves
  wait,    \* where the goroutine of each run is
  work,    \* where the goroutine of its turn is
  runJob,  \* the job of each run
  prev,    \* prevHistLen
  answered,\* has the prompt of the run been answered?
  result,  \* what ExecuteCronJob has returned
  lastError\* CronJob.LastError

scheduleVars == <<job, file, entry, live>>
adminVars == <<admin, call>>
runVars == <<wait, work, runJob, prev, answered, result, lastError>>
cronVars == <<scheduleVars, adminVars, runVars>>

NoCall == [op |-> "none", of |-> "none", on |-> FALSE]
Calls(j) == [op : {"add", "update"}, of : {j}, on : BOOLEAN]
            \cup [op : {"enable", "disable", "remove"}, of : {j}, on : {FALSE}]

CronTypeOK ==
  /\ job \in [Jobs -> {"none", "on", "off", "gone"}]
  /\ file \in [Jobs -> {"none", "on", "off", "gone"}]
  /\ entry \subseteq Jobs
  /\ live \in [Jobs -> Nat]
  /\ admin \in [Admins -> {"idle", "get", "schedule", "unschedule", "store",
                           "begin"}]
  /\ call \in [Admins -> (UNION {Calls(j) : j \in Jobs}) \cup {NoCall}]
  /\ wait \in [Runs -> {"none", "fired", "waiting", "ok", "error", "done"}]
  /\ work \in [Runs -> {"none", "start", "begin", "asked", "drain", "verdict",
                        "side", "end"}]
  /\ runJob \in [Runs -> Jobs \cup {"none"}]
  /\ prev \in [Runs -> Nat]
  /\ answered \in [Runs -> {"no", "asked", "yes", "failed"}]
  /\ result \in [Runs -> {"none", "ok", "error"}]
  /\ lastError \in [Jobs -> BOOLEAN]

CronInit ==
  /\ job \in [Jobs -> {"none", "on", "off"}]
  /\ file = job
  /\ entry = {j \in Jobs : job[j] = "on"}
  /\ live = [j \in Jobs |-> IF job[j] = "on" THEN 1 ELSE 0]
  /\ admin = [a \in Admins |-> "idle"]
  /\ call = [a \in Admins |-> NoCall]
  /\ wait = [r \in Runs |-> "none"]
  /\ work = [r \in Runs |-> "none"]
  /\ runJob = [r \in Runs |-> "none"]
  /\ prev = [r \in Runs |-> 0]
  /\ answered = [r \in Runs |-> "no"]
  /\ result = [r \in Runs |-> "none"]
  /\ lastError = [j \in Jobs |-> FALSE]

Listed(j) == job[j] \in {"on", "off"}

-----------------------------------------------------------------------------
(* The store *)

\* CronStore.save: the file is replaced, or the failure is logged.
Save(jobs) ==
  /\ job' = jobs
  /\ \/ file' = jobs /\ UNCHANGED lapses
     \/ /\ "write" \in CronFaults
        /\ UNCHANGED file
        /\ lapses' = lapses \cup {"write"}

Enabled(on) == IF on THEN "on" ELSE "off"

\* CronStore.SetEnabled and Update write the job only if it is listed.
SetEnabled(j, on) ==
  IF Listed(j)
    THEN Save([job EXCEPT ![j] = Enabled(on)])
    ELSE UNCHANGED <<job, file, lapses>>

-----------------------------------------------------------------------------
(* Commands on jobs *)

Continue(a, at) == admin' = [admin EXCEPT ![a] = at]
\* The command returns.
Reply(a) ==
  /\ Continue(a, "idle")
  /\ call' = [call EXCEPT ![a] = NoCall]

\* A command arrives; commands are not kept from overlapping.
Command(a, j) ==
  /\ admin[a] = "idle"
  /\ Stimulus
  /\ \E c \in Calls(j) :
       /\ c.op = "add" <=> job[j] = "none"
       /\ call' = [call EXCEPT ![a] = c]
       /\ Continue(a, IF c.op = "remove" THEN "unschedule" ELSE "begin")
  /\ lapses' = lapses \cup
                 (IF \E b \in Admins : admin[b] # "idle" THEN {"overlap"}
                                                         ELSE {})
  /\ UNCHANGED <<scheduleVars, runVars, sessionVars, user>>

\* AddJob, after its validation: the job stays in the list when the save fails.
AddJob(a) ==
  /\ admin[a] = "begin" /\ call[a].op = "add"
  /\ LET j == call[a].of IN
       /\ job[j] = "none"
       /\ Save([job EXCEPT ![j] = Enabled(call[a].on)])
       /\ IF call[a].on /\ file'[j] = "on"
            THEN Continue(a, "schedule") /\ UNCHANGED call
            ELSE Reply(a)
  /\ UNCHANGED <<entry, live, runVars, sessionVars, user, stimuli>>

\* EnableJob and DisableJob first write the store.
WriteEnabled(a) ==
  /\ admin[a] = "begin" /\ call[a].op \in {"enable", "disable"}
  /\ SetEnabled(call[a].of, call[a].op = "enable")
  /\ IF Listed(call[a].of)
       THEN /\ Continue(a, IF call[a].op = "enable" THEN "get" ELSE "unschedule")
            /\ UNCHANGED call
       ELSE Reply(a)
  /\ UNCHANGED <<entry, live, runVars, sessionVars, user, stimuli>>

\* UpdateJob of "enabled" or "cron_expr", after its validation.
BeginUpdate(a) ==
  /\ admin[a] = "begin" /\ call[a].op = "update"
  /\ IF Listed(call[a].of)
       THEN Continue(a, "unschedule") /\ UNCHANGED call
       ELSE Reply(a)
  /\ UNCHANGED <<scheduleVars, runVars, sessionVars, user, stimuli, lapses>>

\* The entry is removed under CronScheduler.mu.
Unschedule(a) ==
  /\ admin[a] = "unschedule"
  /\ LET j == call[a].of IN
       /\ live' = [live EXCEPT ![j] = IF j \in entry THEN @ - 1 ELSE @]
       /\ entry' = entry \ {j}
  /\ IF call[a].op = "disable"
       THEN Reply(a)
       ELSE Continue(a, "store") /\ UNCHANGED call
  /\ UNCHANGED <<job, file, runVars, sessionVars, user, stimuli, lapses>>

\* Mutant of WriteStore: the type of the value is found wrong only now.
WriteStoreUntyped(a) ==
  /\ admin[a] = "store"
  /\ Reply(a)
  /\ IF call[a].op = "remove" /\ Listed(call[a].of)
       THEN Save([job EXCEPT ![call[a].of] = "gone"])
       ELSE UNCHANGED <<job, file, lapses>>
  /\ UNCHANGED <<entry, live, runVars, sessionVars, user, stimuli>>

\* RemoveJob and UpdateJob then write the store.
WriteStore(a) ==
  /\ admin[a] = "store"
  /\ LET j == call[a].of IN
       IF call[a].op = "remove"
         THEN /\ IF Listed(j) THEN Save([job EXCEPT ![j] = "gone"])
                              ELSE UNCHANGED <<job, file, lapses>>
              /\ Reply(a)
         ELSE \* "enabled" is set; a "cron_expr" leaves it as it is
              /\ \/ SetEnabled(j, call[a].on)
                 \/ SetEnabled(j, job[j] = "on")
              /\ IF Listed(j) THEN Continue(a, "get") /\ UNCHANGED call
                              ELSE Reply(a)
  /\ UNCHANGED <<entry, live, runVars, sessionVars, user, stimuli>>

\* EnableJob and UpdateJob read the job once more; only UpdateJob tests it.
GetAgain(a) ==
  /\ admin[a] = "get"
  /\ LET j == call[a].of IN
       IF Listed(j) /\ (call[a].op = "update" => job[j] = "on")
         THEN Continue(a, "schedule") /\ UNCHANGED call
         ELSE Reply(a)
  /\ UNCHANGED <<scheduleVars, runVars, sessionVars, user, stimuli, lapses>>

\* Mutant of ScheduleJob: the entry the job has already is not removed.
ScheduleTwice(a) ==
  /\ admin[a] = "schedule"
  /\ live' = [live EXCEPT ![call[a].of] = @ + 1]
  /\ entry' = entry \cup {call[a].of}
  /\ Reply(a)
  /\ UNCHANGED <<job, file, runVars, sessionVars, user, stimuli, lapses>>

\* scheduleJob replaces the entry of the job, in one critical section.
ScheduleJob(a) ==
  /\ admin[a] = "schedule"
  /\ LET j == call[a].of IN
       /\ live' = [live EXCEPT ![j] = IF j \in entry THEN @ ELSE @ + 1]
       /\ entry' = entry \cup {j}
  /\ Reply(a)
  /\ UNCHANGED <<job, file, runVars, sessionVars, user, stimuli, lapses>>

-----------------------------------------------------------------------------
(* Runs *)

\* The cron library starts a goroutine for an entry that is due.
Fire(r, j) ==
  /\ wait[r] = "none"
  /\ live[j] > 0
  /\ Stimulus
  /\ runJob' = [runJob EXCEPT ![r] = j]
  /\ wait' = [wait EXCEPT ![r] = "fired"]
  /\ UNCHANGED <<scheduleVars, adminVars, work, prev, answered, result,
                 lastError, sessionVars, user, lapses>>

\* executeJob does not trust the entry; a job of a project that is not running
\* fails at once.
CheckJob(r) ==
  /\ wait[r] = "fired"
  /\ \/ /\ job[runJob[r]] # "on"
        /\ wait' = [wait EXCEPT ![r] = "done"]
        /\ UNCHANGED work
     \/ /\ job[runJob[r]] = "on"
        /\ \/ /\ wait' = [wait EXCEPT ![r] = "waiting"]
              /\ work' = [work EXCEPT ![r] = "start"]
           \/ /\ "project" \in CronFaults
              /\ wait' = [wait EXCEPT ![r] = "error"]
              /\ UNCHANGED work
  /\ UNCHANGED <<scheduleVars, adminVars, runJob, prev, answered, result,
                 lastError, sessionVars, user, stimuli, lapses>>

Return(r, res) ==
  /\ work' = [work EXCEPT ![r] = "end"]
  /\ result' = [result EXCEPT ![r] = res]

\* Mutant of StartTurn: the Session is used without its lock.
StartUnlocked(r) ==
  /\ work[r] = "start"
  /\ busy' = TRUE
  /\ work' = [work EXCEPT ![r] = "begin"]
  /\ prev' = [prev EXCEPT ![r] = history]
  /\ UNCHANGED <<result, queue, history>>
  /\ UNCHANGED <<scheduleVars, adminVars, wait, runJob, answered, lastError,
                 user, stimuli, lapses>>

\* ExecuteCronJob: the platform cannot be used, the run has a Session to itself
\* (the job says so by now), the Session is busy, or the turn begins and the
\* length of the history is remembered.
StartTurn(r) ==
  /\ work[r] = "start"
  /\ \/ /\ "platform" \in CronFaults
        /\ Return(r, "error")
        /\ UNCHANGED <<prev, sessionVars>>
     \/ /\ runJob[r] \in NewPerRun
        /\ work' = [work EXCEPT ![r] = "side"]
        /\ UNCHANGED <<prev, result, sessionVars>>
     \/ /\ busy
        /\ Return(r, "error")
        /\ UNCHANGED <<prev, sessionVars>>
     \/ /\ TryLock
        /\ work' = [work EXCEPT ![r] = "begin"]
        /\ prev' = [prev EXCEPT ![r] = history]
        /\ UNCHANGED result
  /\ UNCHANGED <<scheduleVars, adminVars, wait, runJob, answered, lastError,
                 user, stimuli, lapses>>

\* The turn.  Whether the first answer, that of the job, was one is noted.
CronTurn(r) ==
  /\ \/ /\ work[r] = "begin"
        /\ Ask
        /\ work' = [work EXCEPT ![r] = "asked"]
        /\ answered' = [answered EXCEPT ![r] = "asked"]
     \/ /\ work[r] = "asked"
        /\ \E ok \in BOOLEAN :
             /\ Answer(ok)
             /\ answered' = [answered EXCEPT ![r] =
                  IF @ # "asked" THEN @ ELSE IF ok THEN "yes" ELSE "failed"]
        /\ work' = [work EXCEPT ![r] = "drain"]
     \/ /\ work[r] = "drain"
        /\ \/ Pop /\ work' = [work EXCEPT ![r] = "asked"]
           \/ Release /\ work' = [work EXCEPT ![r] = "verdict"]
        /\ UNCHANGED answered
  /\ UNCHANGED <<scheduleVars, adminVars, wait, runJob, prev, result, lastError,
                 user, stimuli, lapses>>

\* An empty response is told by the growth of the history, after the unlock,
\* unless the job is muted by then.
Verdict(r) ==
  /\ work[r] = "verdict"
  /\ \/ Return(r, IF history < prev[r] + 2 THEN "error" ELSE "ok")
     \/ "mute" \in CronFaults /\ Return(r, "ok")
  /\ UNCHANGED <<scheduleVars, adminVars, wait, runJob, prev, answered,
                 lastError, sessionVars, user, stimuli, lapses>>

\* The turn in a side Session, which nobody else has, or a shell command.
SideTurn(r) ==
  /\ work[r] = "side"
  /\ \/ Return(r, "ok") /\ answered' = [answered EXCEPT ![r] = "yes"]
     \/ Return(r, "error") /\ answered' = [answered EXCEPT ![r] = "failed"]
  /\ UNCHANGED <<scheduleVars, adminVars, wait, runJob, prev, lastError,
                 sessionVars, user, stimuli, lapses>>

\* The result arrives, or the scheduler has waited long enough.
Await(r) ==
  /\ wait[r] = "waiting"
  /\ \/ work[r] = "end" /\ wait' = [wait EXCEPT ![r] = result[r]]
     \/ "timeout" \in CronFaults /\ wait' = [wait EXCEPT ![r] = "error"]
  /\ UNCHANGED <<scheduleVars, adminVars, work, runJob, prev, answered, result,
                 lastError, sessionVars, user, stimuli, lapses>>

\* MarkRun
MarkRun(r) ==
  /\ wait[r] \in {"ok", "error"}
  /\ LET j == runJob[r] IN
       IF Listed(j)
         THEN lastError' = [lastError EXCEPT ![j] = wait[r] = "error"] /\ Save(job)
         ELSE UNCHANGED <<job, file, lastError, lapses>>
  /\ wait' = [wait EXCEPT ![r] = "done"]
  /\ UNCHANGED <<entry, live, adminVars, work, runJob, prev, answered, result,
                 sessionVars, user, stimuli>>

\* The process starts again: CronScheduler.Start schedules what the file says.
CronRestart ==
  /\ job' = file
  /\ UNCHANGED file
  /\ entry' = {j \in Jobs : file[j] = "on"}
  /\ live' = [j \in Jobs |-> IF file[j] = "on" THEN 1 ELSE 0]
  /\ admin' = [a \in Admins |-> "idle"]
  /\ call' = [a \in Admins |-> NoCall]
  /\ wait' = [r \in Runs |-> IF wait[r] = "none" THEN "none" ELSE "done"]
  /\ work' = [r \in Runs |-> IF work[r] = "none" THEN "none" ELSE "end"]
  /\ UNCHANGED <<runJob, prev, answered, result, lastError>>

Admin(a) ==
  \/ \E j \in Jobs : Command(a, j)
  \/ AddJob(a) \/ WriteEnabled(a) \/ BeginUpdate(a) \/ Unschedule(a)
  \/ WriteStore(a) \/ GetAgain(a) \/ ScheduleJob(a)

Run(r) ==
  \/ \E j \in Jobs : Fire(r, j)
  \/ CheckJob(r) \/ StartTurn(r) \/ CronTurn(r) \/ Verdict(r)
  \/ SideTurn(r) \/ Await(r) \/ MarkRun(r)

CronStep == (\E a \in Admins : Admin(a)) \/ (\E r \in Runs : Run(r))

CronHolders == {r \in Runs : work[r] \in {"begin", "asked", "drain"}}

-----------------------------------------------------------------------------
(* Properties *)

\* However commands overlap, the cron library has the entries the scheduler
\* knows, one for each job, so that a job does not fire twice (lines 628-645).
OneEntry == \A j \in Jobs : live[j] = IF j \in entry THEN 1 ELSE 0

\* Between commands that have not overlapped, a job is scheduled if and only if
\* it is listed and enabled (lines 475-606; the comment of lines 566-570 names
\* the failure: "leaving the job marked Enabled in the store but never firing").
EnabledScheduled ==
  (lapses \cap {"overlap", "write"} = {} /\ \A a \in Admins : admin[a] = "idle") =>
    entry = {j \in Jobs : job[j] = "on"}

=============================================================================
