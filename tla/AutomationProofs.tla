-------------------------- MODULE AutomationProofs --------------------------
(***************************************************************************)
(* Users, scheduled jobs and heartbeats on one Session, for any number of  *)
(* messages, jobs, commands, runs, projects and executions: one goroutine  *)
(* has the Session at a time, a queued message is looked after, the        *)
(* schedule agrees with the store, and overrides survive a restart.        *)
(***************************************************************************)
EXTENDS Automation, FiniteSetTheorems, TLAPS

-----------------------------------------------------------------------------
(* The inductive invariant *)

\* At most one goroutine holds the Session, and the flag says whether one does.
Sole(U, C, B, flag) ==
  /\ \A m, n \in U : m = n
  /\ \A r, s \in C : r = s
  /\ \A b, c \in B : b = c
  /\ U # {} => C = {} /\ B = {}
  /\ C # {} => B = {}
  /\ flag <=> U # {} \/ C # {} \/ B # {}

Exclusive == Sole(UserHolders, CronHolders, BeatHolders, busy)

\* An execution that has started its turn has given the probed lock back, and
\* one that is not waiting for its turn has not started one.
Probed ==
  \A b \in Beats : beat[b] \in {"none", "due", "probing"} => beatWork[b] = "none"

\* The turn of a run begins after the job has been tested.
Launched == \A r \in Runs : wait[r] \in {"none", "fired"} => work[r] = "none"

\* Whoever waits for a turn finds a result at its end.
Returned ==
  \A r \in Runs : wait[r] = "waiting" /\ work[r] = "end" => result[r] # "none"

\* Commands that have not overlapped come one after the other.
Orderly ==
  "overlap" \notin lapses =>
    \A a, b \in Admins : admin[a] # "idle" /\ admin[b] # "idle" => a = b

On == {j \in Jobs : job[j] = "on"}

\* A goroutine serves a command, and is where that command takes it.
Serving ==
  \A a \in Admins :
    /\ admin[a] # "idle" => call[a].op # "none"
    /\ admin[a] = "unschedule" => call[a].op \in {"remove", "update", "disable"}
    /\ admin[a] = "store" => call[a].op \in {"remove", "update"}

\* What the command of a has done to the schedule and the store so far.
Halfway(a) ==
  LET j == call[a].of
      op == call[a].op
  IN CASE admin[a] = "begin" -> entry = On
       [] admin[a] = "unschedule" ->
            IF op = "disable" THEN job[j] # "on" /\ entry \ {j} = On ELSE entry = On
       [] admin[a] = "store" -> j \notin entry /\ On \ {j} = entry
       [] admin[a] = "get" -> On \ {j} = entry \ {j} /\ (op = "update" => j \notin entry)
                              /\ (op # "update" => job[j] = "on")
       [] admin[a] = "schedule" -> job[j] = "on" /\ entry \cup {j} = On
       [] OTHER -> TRUE

Clean == lapses \cap {"overlap", "write"} = {}

Scheduled ==
  Clean => EnabledScheduled /\ \A a \in Admins : Halfway(a)

\* Unless it is being written or its last write has failed, the file of the
\* overrides is up to date.
Overridden ==
  /\ ~writing /\ ~unsaved => states = Snapshot
  /\ \A p \in DOMAIN states : states[p].paused \/ states[p].changed

IInv ==
  /\ TypeOK
  /\ Exclusive
  /\ Probed
  /\ Launched
  /\ Returned
  /\ NoneStranded
  /\ OneEntry
  /\ Serving
  /\ Orderly
  /\ Scheduled
  /\ Overridden

-----------------------------------------------------------------------------
(* The lock *)

LEMMA Typed ==
  ASSUME TypeOK
  PROVE  /\ busy \in BOOLEAN /\ queue \in Seq(Users) /\ history \in Nat
         /\ user \in [Users -> {"idle", "retry", "begin", "asked", "drain", "done"}]
         /\ stimuli \in 0 .. MaxStimuli
         /\ lapses \subseteq {"probe", "overlap", "write", "torn"}
         /\ job \in [Jobs -> {"none", "on", "off", "gone"}]
         /\ file \in [Jobs -> {"none", "on", "off", "gone"}]
         /\ entry \subseteq Jobs /\ live \in [Jobs -> Nat]
         /\ admin \in [Admins -> {"idle", "get", "schedule", "unschedule", "store", "begin"}]
         /\ call \in [Admins -> (UNION {Calls(j) : j \in Jobs}) \cup {NoCall}]
         /\ wait \in [Runs -> {"none", "fired", "waiting", "ok", "error", "done"}]
         /\ work \in [Runs -> {"none", "start", "begin", "asked", "drain", "verdict",
                               "side", "end"}]
         /\ runJob \in [Runs -> Jobs \cup {"none"}] /\ prev \in [Runs -> Nat]
         /\ answered \in [Runs -> {"no", "asked", "yes", "failed"}]
         /\ result \in [Runs -> {"none", "ok", "error"}]
         /\ lastError \in [Jobs -> BOOLEAN]
         /\ onlyIdle \in IdleOnly
         /\ paused \in [Projects -> BOOLEAN] /\ changed \in [Projects -> BOOLEAN]
         /\ DOMAIN states \subseteq Projects /\ states \in [DOMAIN states -> Override]
         /\ writing \in BOOLEAN /\ unsaved \in BOOLEAN
         /\ beat \in [Beats -> {"none", "due", "probing", "waiting", "done"}]
         /\ beatWork \in [Beats -> {"none", "start", "begin", "asked", "drain", "end"}]
         /\ byTicker \in Beats \cup {NoBeat}
BY DEF TypeOK, SessionTypeOK, CronTypeOK, HeartbeatTypeOK

\* A step of a message may take the lock, keep it, or give it back.
LEMMA UserLock ==
  ASSUME TypeOK, Exclusive, NEW m \in Users,
         NEW at \in {"idle", "retry", "begin", "asked", "drain", "done"},
         user' = [user EXCEPT ![m] = at],
         UNCHANGED <<work, beat, beatWork>>,
         \/ m \notin UserHolders /\ at \in {"begin", "asked", "drain"} /\ ~busy /\ busy'
         \/ m \in UserHolders /\ at \in {"begin", "asked", "drain"} /\ busy' = busy
         \/ m \notin UserHolders /\ at \notin {"begin", "asked", "drain"} /\ busy' = busy
         \/ m \in UserHolders /\ at \notin {"begin", "asked", "drain"} /\ ~busy'
  PROVE  Exclusive'
<1> USE Typed DEF Exclusive, Sole
<1>1. CronHolders' = CronHolders /\ BeatHolders' = BeatHolders
  BY DEF CronHolders, BeatHolders
<1>2. UserHolders' = IF at \in {"begin", "asked", "drain"} THEN UserHolders \cup {m}
                                                         ELSE UserHolders \ {m}
  BY DEF UserHolders
<1> HIDE DEF UserHolders, CronHolders, BeatHolders
<1> QED BY <1>1, <1>2

LEMMA CronLock ==
  ASSUME TypeOK, Exclusive, NEW r \in Runs, NEW at,
         work' = [work EXCEPT ![r] = at],
         UNCHANGED <<user, beat, beatWork>>,
         \/ r \notin CronHolders /\ at \in {"begin", "asked", "drain"} /\ ~busy /\ busy'
         \/ r \in CronHolders /\ at \in {"begin", "asked", "drain"} /\ busy' = busy
         \/ r \notin CronHolders /\ at \notin {"begin", "asked", "drain"} /\ busy' = busy
         \/ r \in CronHolders /\ at \notin {"begin", "asked", "drain"} /\ ~busy'
  PROVE  Exclusive'
<1> USE Typed DEF Exclusive, Sole
<1>1. UserHolders' = UserHolders /\ BeatHolders' = BeatHolders
  BY DEF UserHolders, BeatHolders
<1>2. CronHolders' = IF at \in {"begin", "asked", "drain"} THEN CronHolders \cup {r}
                                                         ELSE CronHolders \ {r}
  BY DEF CronHolders
<1> QED BY <1>1, <1>2

LEMMA BeatLock ==
  ASSUME TypeOK, Exclusive, NEW b \in Beats,
         UNCHANGED <<user, work>>,
         \A c \in Beats : c # b => beat'[c] = beat[c] /\ beatWork'[c] = beatWork[c],
         \/ b \notin BeatHolders /\ b \in BeatHolders' /\ ~busy /\ busy'
         \/ (b \in BeatHolders <=> b \in BeatHolders') /\ busy' = busy
         \/ b \in BeatHolders /\ b \notin BeatHolders' /\ ~busy'
  PROVE  Exclusive'
<1> USE Typed DEF Exclusive, Sole
<1>1. CronHolders' = CronHolders /\ UserHolders' = UserHolders
  BY DEF CronHolders, UserHolders
<1>2. BeatHolders' = IF b \in BeatHolders' THEN BeatHolders \cup {b}
                                         ELSE BeatHolders \ {b}
  BY DEF BeatHolders
<1>3. CASE b \notin BeatHolders /\ b \in BeatHolders' /\ ~busy /\ busy'
  BY <1>1, <1>2, <1>3
<1>4. CASE (b \in BeatHolders <=> b \in BeatHolders') /\ busy' = busy
  <2>1. CASE b \in BeatHolders
    <3>1. BeatHolders \cup {b} = BeatHolders
      BY <2>1
    <3> QED BY <1>1, <1>2, <1>4, <2>1, <3>1
  <2>2. CASE b \notin BeatHolders
    <3>1. BeatHolders \ {b} = BeatHolders
      BY <2>2
    <3> QED BY <1>1, <1>2, <1>4, <2>2, <3>1
  <2> QED BY <2>1, <2>2
<1>5. CASE b \in BeatHolders /\ b \notin BeatHolders' /\ ~busy'
  <2>1. BeatHolders' = {}
    BY <1>2, <1>5
  <2> QED BY <1>1, <1>5, <2>1
<1> QED BY <1>3, <1>4, <1>5

LEMMA NoLock ==
  ASSUME Exclusive, UNCHANGED <<busy, user, work, beat, beatWork>>
  PROVE  Exclusive'
BY DEF Exclusive, Sole, UserHolders, CronHolders, BeatHolders

-----------------------------------------------------------------------------
(* What a step leaves alone *)

LEMMA Sequences ==
  /\ <<>> \in Seq(Users)
  /\ \A q \in Seq(Users), m \in Users : Append(q, m) \in Seq(Users)
  /\ \A q \in Seq(Users) : q # <<>> => Tail(q) \in Seq(Users)
OBVIOUS

Called == (UNION {Calls(j) : j \in Jobs}) \cup {NoCall}

LEMMA CallFacts ==
  /\ NoCall \in Called
  /\ \A j \in Jobs : \A c \in Calls(j) : c \in Called /\ c.of = j
  /\ \A c \in Called : c.op # "none" => c.of \in Jobs
  /\ \A c \in Called : c.on \in BOOLEAN
<1>1. \A j \in Jobs : Calls(j) \subseteq Called
  BY DEF Called
<1>2. \A j \in Jobs : \A c \in Calls(j) : c.of = j /\ c.on \in BOOLEAN
  BY DEF Calls
<1>3. \A c \in Called : c = NoCall \/ \E j \in Jobs : c \in Calls(j)
  BY DEF Called
<1>4. NoCall \in Called
  BY DEF Called
<1> HIDE DEF Called, Calls
<1>5. \A c \in Called : c.op # "none" => c.of \in Jobs
  <2> SUFFICES ASSUME NEW c \in Called, c.op # "none" PROVE c.of \in Jobs
    OBVIOUS
  <2>1. c # NoCall
    BY DEF NoCall
  <2> QED BY <1>2, <1>3, <2>1
<1>6. \A c \in Called : c.on \in BOOLEAN
  <2> SUFFICES ASSUME NEW c \in Called PROVE c.on \in BOOLEAN
    OBVIOUS
  <2>1. CASE c = NoCall
    BY <2>1 DEF NoCall
  <2> QED BY <1>2, <1>3, <2>1
<1> QED BY <1>1, <1>2, <1>4, <1>5, <1>6

LEMMA ScheduleKept ==
  ASSUME OneEntry, Serving, Orderly, Scheduled, UNCHANGED <<job, entry, live, admin, call>>,
         lapses \subseteq lapses'
  PROVE  OneEntry' /\ Serving' /\ Orderly' /\ Scheduled'
<1>1. OneEntry'
  BY DEF OneEntry
<1>2. Serving' /\ Orderly'
  BY DEF Serving, Orderly
<1>3. Clean' => Clean
  BY DEF Clean
<1>4. On' = On
  BY DEF On
<1>5. EnabledScheduled => EnabledScheduled' \/ ~Clean'
  BY <1>3 DEF EnabledScheduled, Clean
<1>6. \A a \in Admins : Halfway(a) => Halfway(a)'
  BY <1>4 DEF Halfway
<1> QED BY <1>1, <1>2, <1>3, <1>5, <1>6 DEF Scheduled

LEMMA OverridesFrame ==
  ASSUME Overridden, UNCHANGED <<paused, changed, states, writing, unsaved>>
  PROVE  Overridden'
BY DEF Overridden, Snapshot

LEMMA SessionFrame ==
  ASSUME NoneStranded, UNCHANGED <<busy, queue, user>>, lapses \subseteq lapses'
  PROVE  NoneStranded'
BY DEF NoneStranded

LEMMA CronTypeFrame == CronTypeOK /\ UNCHANGED cronVars => CronTypeOK'
BY DEF CronTypeOK, cronVars, scheduleVars, adminVars, runVars

LEMMA HeartbeatTypeFrame == HeartbeatTypeOK /\ UNCHANGED heartbeatVars => HeartbeatTypeOK'
BY DEF HeartbeatTypeOK, heartbeatVars, overrideVars, beatVars

-----------------------------------------------------------------------------
(* The initial states *)

LEMMA InitInv == Init => IInv
<1> SUFFICES ASSUME Init PROVE IInv
  OBVIOUS
<1> USE DEF Init, SessionInit, CronInit, HeartbeatInit
<1>1. SessionTypeOK
  <2>1. <<>> \in Seq(Users) /\ 0 \in 0 .. MaxStimuli
    BY Sequences, SessionAssumption
  <2>2. user \in [Users -> {"idle", "retry", "begin", "asked", "drain", "done"}]
    OBVIOUS
  <2> QED BY <2>1, <2>2 DEF SessionTypeOK
<1>2. CronTypeOK
  <2>1. job \in [Jobs -> {"none", "on", "off", "gone"}]
    <3>1. job \in [Jobs -> {"none", "on", "off"}]
      OBVIOUS
    <3> HIDE DEF Init
    <3> QED BY <3>1
  <2>2. call \in [Admins -> Called]
    BY CallFacts
  <2> QED BY <2>1, <2>2 DEF CronTypeOK, Called
<1>3. HeartbeatTypeOK
  <2>1. states \in [{} -> Override]
    BY DEF NoFile
  <2> QED BY <2>1 DEF HeartbeatTypeOK
<1>4. Exclusive
  BY DEF Exclusive, Sole, UserHolders, CronHolders, BeatHolders
<1>5. Probed /\ Launched /\ Returned /\ NoneStranded /\ OneEntry /\ Serving /\ Orderly
  BY DEF Probed, Launched, Returned, NoneStranded, OneEntry, Serving, Orderly
<1>6. Scheduled
  BY DEF Scheduled, EnabledScheduled, Halfway
<1>7. Overridden
  <2>1. {q \in Projects : paused[q] \/ changed[q]} = {}
    OBVIOUS
  <2> QED BY <2>1 DEF Overridden, Snapshot, NoFile
<1> QED BY <1>1, <1>2, <1>3, <1>4, <1>5, <1>6, <1>7 DEF IInv, TypeOK

-----------------------------------------------------------------------------
(* Messages of users *)

LEMMA UserInv ==
  ASSUME IInv, UserStep, UNCHANGED <<cronVars, heartbeatVars>>
  PROVE  IInv'
<1> USE DEF IInv
<1>0. TypeOK /\ UNCHANGED lapses
  BY DEF UserStep
<1>1. CronTypeOK' /\ HeartbeatTypeOK'
  BY CronTypeFrame, HeartbeatTypeFrame DEF TypeOK
<1>2. OneEntry' /\ Serving' /\ Orderly' /\ Scheduled'
  BY <1>0, ScheduleKept DEF cronVars, scheduleVars, adminVars
<1>3. Overridden' /\ Probed' /\ Launched' /\ Returned'
  BY OverridesFrame
     DEF heartbeatVars, overrideVars, beatVars, cronVars, runVars, Probed, Launched, Returned
<1>4. UNCHANGED <<work, beat, beatWork>>
  BY DEF cronVars, runVars, heartbeatVars, beatVars
<1>5. ASSUME NEW m \in Users, UserMessage(m)
      PROVE  SessionTypeOK' /\ Exclusive' /\ NoneStranded'
  <2> USE <1>0, <1>4, <1>5 DEF UserMessage, Stimulus
  <2>1. stimuli' \in 0 .. MaxStimuli
    BY Typed, SessionAssumption
  <2>2. CASE TryLock /\ user' = [user EXCEPT ![m] = "begin"]
    <3>1. Exclusive'
      BY <2>2, UserLock DEF TryLock, UserHolders
    <3> QED BY <2>1, <2>2, <3>1, Typed DEF SessionTypeOK, TryLock, NoneStranded
  <2>3. CASE /\ busy /\ queue' = Append(queue, m) /\ user' = [user EXCEPT ![m] = "retry"]
             /\ UNCHANGED <<busy, history>>
    <3>1. Exclusive'
      BY <2>3, UserLock DEF UserHolders
    <3> QED BY <2>1, <2>3, <3>1, Typed, Sequences DEF SessionTypeOK, NoneStranded
  <2>4. CASE /\ busy /\ UNCHANGED queue /\ user' = [user EXCEPT ![m] = "done"]
             /\ UNCHANGED <<busy, history>>
    <3>1. Exclusive'
      BY <2>4, UserLock DEF UserHolders
    <3> QED BY <2>1, <2>4, <3>1, Typed DEF SessionTypeOK, NoneStranded
  <2> QED BY <2>2, <2>3, <2>4
<1>6. ASSUME NEW m \in Users, UserRetry(m)
      PROVE  SessionTypeOK' /\ Exclusive' /\ NoneStranded'
  <2> USE <1>0, <1>4, <1>6 DEF UserRetry
  <2>1. CASE TryLock /\ user' = [user EXCEPT ![m] = "drain"]
    <3>1. Exclusive'
      BY <2>1, UserLock DEF TryLock, UserHolders
    <3> QED BY <2>1, <3>1, Typed DEF SessionTypeOK, TryLock, NoneStranded
  <2>2. CASE busy /\ user' = [user EXCEPT ![m] = "done"] /\ UNCHANGED sessionVars
    <3>1. Exclusive'
      BY <2>2, UserLock DEF UserHolders, sessionVars
    <3> QED BY <2>2, <3>1, Typed DEF SessionTypeOK, NoneStranded, sessionVars
  <2> QED BY <2>1, <2>2
<1>7. ASSUME NEW m \in Users, UserTurn(m)
      PROVE  SessionTypeOK' /\ Exclusive' /\ NoneStranded'
  <2>0. user[m] \in {"begin", "asked", "drain"} /\ busy
    BY <1>0, <1>7, Typed DEF UserTurn, UserHolders, Exclusive, Sole
  <2>1. CASE user[m] = "begin" /\ Ask /\ user' = [user EXCEPT ![m] = "asked"]
    <3>1. Exclusive'
      BY <1>0, <1>4, <2>0, <2>1, UserLock DEF Ask, UserHolders
    <3> QED BY <1>0, <1>7, <2>0, <2>1, <3>1, Typed DEF UserTurn, SessionTypeOK, Ask, NoneStranded
  <2>2. CASE /\ user[m] = "asked" /\ user' = [user EXCEPT ![m] = "drain"]
             /\ \E ok \in BOOLEAN : Answer(ok)
    <3>1. Exclusive'
      BY <1>0, <1>4, <2>0, <2>2, UserLock DEF Answer, UserHolders
    <3> QED BY <1>0, <1>7, <2>0, <2>2, <3>1, Typed DEF UserTurn, SessionTypeOK, Answer, NoneStranded
  <2>3. CASE user[m] = "drain" /\ Pop /\ user' = [user EXCEPT ![m] = "asked"]
    <3>1. Exclusive'
      BY <1>0, <1>4, <2>0, <2>3, UserLock DEF Pop, UserHolders
    <3> QED BY <1>0, <1>7, <2>0, <2>3, <3>1, Typed, Sequences
            DEF UserTurn, SessionTypeOK, Pop, NoneStranded
  <2>4. CASE user[m] = "drain" /\ Release /\ user' = [user EXCEPT ![m] = "done"]
    <3>1. Exclusive'
      BY <1>0, <1>4, <2>0, <2>4, UserLock DEF Release, UserHolders
    <3> QED BY <1>0, <1>7, <2>0, <2>4, <3>1, Typed DEF UserTurn, SessionTypeOK, Release, NoneStranded
  <2> QED BY <1>7, <2>1, <2>2, <2>3, <2>4 DEF UserTurn
<1>8. ASSUME ClearHistory
      PROVE  SessionTypeOK' /\ Exclusive' /\ NoneStranded'
  <2>1. Exclusive' /\ NoneStranded'
    BY <1>0, <1>4, <1>8, NoLock, SessionFrame DEF ClearHistory
  <2>2. stimuli' \in 0 .. MaxStimuli
    BY <1>0, <1>8, Typed, SessionAssumption DEF ClearHistory, Stimulus
  <2>3. history' \in Nat /\ UNCHANGED <<busy, queue, user>>
    BY <1>8 DEF ClearHistory
  <2> QED BY <1>0, <2>1, <2>2, <2>3, Typed DEF SessionTypeOK
<1>9. SessionTypeOK' /\ Exclusive' /\ NoneStranded'
  <2> HIDE DEF IInv
  <2>1. CASE \E m \in Users : UserMessage(m) \/ UserRetry(m) \/ UserTurn(m)
    BY <1>5, <1>6, <1>7, <2>1
  <2> QED BY <1>8, <2>1 DEF UserStep
<1> QED BY <1>1, <1>2, <1>3, <1>9 DEF TypeOK

-----------------------------------------------------------------------------
(* Commands on jobs *)

\* What a step of a command on a job may touch.
CommandFrame == UNCHANGED <<runVars, sessionVars, user, heartbeatVars>>

LEMMA SaveTyped ==
  ASSUME CronTypeOK, SessionTypeOK, NEW jobs \in [Jobs -> {"none", "on", "off", "gone"}],
         Save(jobs)
  PROVE  /\ job' = jobs
         /\ job' \in [Jobs -> {"none", "on", "off", "gone"}]
         /\ file' \in [Jobs -> {"none", "on", "off", "gone"}]
         /\ file' = job' \/ "write" \in lapses'
         /\ lapses' \subseteq {"probe", "overlap", "write", "torn"}
         /\ lapses \subseteq lapses'
         /\ lapses' \subseteq lapses \cup {"write"}
<1>1. job' = jobs /\ lapses \subseteq {"probe", "overlap", "write", "torn"}
  BY DEF Save, SessionTypeOK
<1>2. CASE file' = jobs /\ UNCHANGED lapses
  BY <1>1, <1>2
<1>3. CASE UNCHANGED file /\ lapses' = lapses \cup {"write"}
  BY <1>1, <1>3 DEF CronTypeOK
<1> QED BY <1>2, <1>3 DEF Save

\* A command of a leaves the commands of the others as they are.
LEMMA CommandsOrderly ==
  ASSUME TypeOK, Serving, Orderly, Scheduled, NEW a \in Admins, admin[a] # "idle",
         NEW at \in {"idle", "get", "schedule", "unschedule", "store", "begin"},
         admin' = [admin EXCEPT ![a] = at],
         at = "idle" => call' = [call EXCEPT ![a] = NoCall],
         at # "idle" => call' = call,
         lapses \subseteq lapses',
         at = "unschedule" => call[a].op \in {"remove", "update", "disable"},
         at = "store" => call[a].op \in {"remove", "update"},
         at # "idle" /\ Clean' => Halfway(a)',
         at = "idle" /\ Clean' => entry' = On'
  PROVE  Serving' /\ Orderly' /\ Scheduled'
<1> USE Typed
<1>1. Serving'
  BY DEF Serving
<1>2. Orderly'
  BY DEF Orderly
<1>3. ASSUME Clean'
      PROVE  EnabledScheduled' /\ \A b \in Admins : Halfway(b)'
  <2>1. \A b \in Admins \ {a} : admin'[b] = "idle"
    BY <1>3 DEF Orderly, Clean
  <2>2. \A b \in Admins \ {a} : Halfway(b)'
    BY <2>1 DEF Halfway
  <2>3. Halfway(a)'
    BY <1>3 DEF Halfway
  <2>4. EnabledScheduled'
    BY <1>3 DEF EnabledScheduled, On
  <2> QED BY <2>2, <2>3, <2>4
<1> QED BY <1>1, <1>2, <1>3 DEF Scheduled

\* A command leaves the lock, the heartbeats and the runs as they are.
LEMMA CommandKeeps ==
  ASSUME IInv, CommandFrame, lapses \subseteq lapses',
         lapses' \subseteq {"probe", "overlap", "write", "torn"},
         stimuli' \in 0 .. MaxStimuli
  PROVE  SessionTypeOK' /\ HeartbeatTypeOK' /\ Exclusive' /\ Probed' /\ Launched' /\ Returned'
         /\ NoneStranded' /\ Overridden'
<1> USE DEF IInv
<1>1. UNCHANGED <<busy, queue, history, user, wait, work, result, heartbeatVars>>
  BY DEF CommandFrame, runVars, sessionVars
<1>2. UNCHANGED <<beat, beatWork, paused, changed, states, writing, unsaved>>
  BY <1>1 DEF heartbeatVars, overrideVars, beatVars
<1>3. SessionTypeOK' /\ HeartbeatTypeOK'
  BY <1>1, Typed, HeartbeatTypeFrame DEF SessionTypeOK, TypeOK
<1>4. Exclusive' /\ NoneStranded' /\ Overridden'
  BY <1>1, <1>2, NoLock, SessionFrame, OverridesFrame
<1>5. Probed' /\ Launched' /\ Returned'
  BY <1>1, <1>2 DEF Probed, Launched, Returned
<1> QED BY <1>3, <1>4, <1>5

\* A step of a running command, from what it does to the schedule.
LEMMA CommandStep ==
  ASSUME IInv, CommandFrame, UNCHANGED stimuli, NEW a \in Admins, admin[a] # "idle",
         NEW at \in {"idle", "get", "schedule", "unschedule", "store", "begin"},
         admin' = [admin EXCEPT ![a] = at],
         at = "idle" => call' = [call EXCEPT ![a] = NoCall],
         at # "idle" => call' = call,
         at = "unschedule" => call[a].op \in {"remove", "update", "disable"},
         at = "store" => call[a].op \in {"remove", "update"},
         lapses \subseteq lapses', lapses' \subseteq {"probe", "overlap", "write", "torn"},
         job' \in [Jobs -> {"none", "on", "off", "gone"}],
         file' \in [Jobs -> {"none", "on", "off", "gone"}],
         entry' \subseteq Jobs, live' \in [Jobs -> Nat], OneEntry',
         at # "idle" /\ Clean' => Halfway(a)',
         at = "idle" /\ Clean' => entry' = On'
  PROVE  IInv'
<1> USE DEF IInv
<1>1. SessionTypeOK' /\ HeartbeatTypeOK' /\ Exclusive' /\ Probed' /\ Launched' /\ Returned'
      /\ NoneStranded' /\ Overridden'
  BY Typed, CommandKeeps
<1>2. Serving' /\ Orderly' /\ Scheduled'
  BY CommandsOrderly
<1>3. CronTypeOK'
  <2>1. call' \in [Admins -> Called]
    <3>1. call \in [Admins -> Called] /\ NoCall \in Called
      BY Typed, CallFacts DEF Called
    <3> QED BY <3>1
  <2>2. admin' \in [Admins -> {"idle", "get", "schedule", "unschedule", "store", "begin"}]
    BY Typed
  <2>3. UNCHANGED <<wait, work, runJob, prev, answered, result, lastError>>
    BY DEF CommandFrame, runVars
  <2> QED BY <2>1, <2>2, <2>3, Typed DEF CronTypeOK, Called
<1> QED BY <1>1, <1>2, <1>3 DEF TypeOK

LEMMA CommandInv ==
  ASSUME IInv, NEW a \in Admins, NEW j \in Jobs, Command(a, j), UNCHANGED heartbeatVars
  PROVE  IInv'
<1> USE DEF IInv
<1>0. PICK c \in Calls(j) :
        /\ call' = [call EXCEPT ![a] = c]
        /\ Continue(a, IF c.op = "remove" THEN "unschedule" ELSE "begin")
  BY DEF Command
<1>1. c \in Called /\ c.op # "none"
  BY CallFacts DEF Calls
<1>2. admin[a] = "idle" /\ CommandFrame /\ UNCHANGED <<job, file, entry, live>>
  BY DEF Command, CommandFrame, scheduleVars
<1>3. /\ lapses \subseteq lapses' /\ lapses' \subseteq {"probe", "overlap", "write", "torn"}
      /\ "overlap" \notin lapses' => \A b \in Admins : admin[b] = "idle"
  BY Typed DEF Command
<1>4. stimuli' \in 0 .. MaxStimuli
  BY Typed, SessionAssumption DEF Command, Stimulus
<1>5. CronTypeOK'
  <2>1. call' \in [Admins -> Called]
    BY <1>0, <1>1, Typed DEF Called
  <2>2. admin' \in [Admins -> {"idle", "get", "schedule", "unschedule", "store", "begin"}]
    BY <1>0, Typed DEF Continue
  <2>3. UNCHANGED <<wait, work, runJob, prev, answered, result, lastError>>
    BY <1>2 DEF CommandFrame, runVars
  <2> QED BY <1>2, <2>1, <2>2, <2>3, Typed DEF CronTypeOK, Called
<1>6. OneEntry'
  BY <1>2 DEF OneEntry
<1>7. Serving'
  BY <1>0, <1>1, Typed DEF Serving, Continue
<1>8. Orderly'
  BY <1>0, <1>3, Typed DEF Orderly, Continue
<1>9. Scheduled'
  <2> SUFFICES ASSUME Clean' PROVE EnabledScheduled' /\ \A b \in Admins : Halfway(b)'
    BY DEF Scheduled
  <2>1. Clean /\ \A b \in Admins : admin[b] = "idle"
    BY <1>3 DEF Clean
  <2>2. entry' = On'
    BY <1>2, <2>1 DEF Scheduled, EnabledScheduled, Clean, On
  <2>3. \A b \in Admins \ {a} : admin'[b] = "idle"
    BY <1>0, <2>1, Typed DEF Continue
  <2>4. \A b \in Admins \ {a} : Halfway(b)'
    BY <2>3 DEF Halfway
  <2>5. /\ call'[a] = c
        /\ \/ admin'[a] = "begin"
           \/ admin'[a] = "unschedule" /\ c.op = "remove"
    BY <1>0, Typed DEF Continue
  <2>6. Halfway(a)'
    BY <2>2, <2>5 DEF Halfway
  <2> QED BY <2>2, <2>4, <2>6 DEF EnabledScheduled, On
<1> QED BY <1>2, <1>3, <1>4, <1>5, <1>6, <1>7, <1>8, <1>9, CommandKeeps DEF TypeOK

\* What is known of a command that runs.
LEMMA Running ==
  ASSUME IInv, NEW a \in Admins, admin[a] # "idle"
  PROVE  /\ call[a].of \in Jobs /\ call[a].on \in BOOLEAN
         /\ Clean => Halfway(a)
BY Typed, CallFacts DEF IInv, Serving, Scheduled, Called

LEMMA Cleaner == ASSUME lapses \subseteq lapses', Clean' PROVE Clean
BY DEF Clean

LEMMA AddJobInv ==
  ASSUME IInv, NEW a \in Admins, AddJob(a), UNCHANGED heartbeatVars
  PROVE  IInv'
<1> DEFINE j == call[a].of
           jobs == [job EXCEPT ![j] = Enabled(call[a].on)]
<1>1. admin[a] = "begin" /\ job[j] = "none" /\ Save(jobs) /\ CommandFrame
      /\ UNCHANGED <<entry, live, stimuli>>
  BY DEF AddJob, CommandFrame
<1>2. TypeOK /\ OneEntry /\ j \in Jobs /\ (Clean => entry = On)
  BY <1>1, Running DEF IInv, Halfway
<1>3. jobs \in [Jobs -> {"none", "on", "off", "gone"}]
  BY <1>2, Typed DEF Enabled
<1>4. /\ job' = jobs /\ job' \in [Jobs -> {"none", "on", "off", "gone"}]
      /\ file' \in [Jobs -> {"none", "on", "off", "gone"}]
      /\ file' = job' \/ "write" \in lapses'
      /\ lapses' \subseteq {"probe", "overlap", "write", "torn"} /\ lapses \subseteq lapses'
  BY <1>1, <1>2, <1>3, SaveTyped DEF TypeOK
<1>5. OneEntry' /\ entry' \subseteq Jobs /\ live' \in [Jobs -> Nat]
  BY <1>1, <1>2, Typed DEF OneEntry
<1>6. CASE call[a].on /\ file'[j] = "on"
  <2>1. Continue(a, "schedule") /\ UNCHANGED call
    BY <1>6 DEF AddJob
  <2>2. Clean' => Halfway(a)'
    <3> SUFFICES ASSUME Clean' PROVE Halfway(a)'
      OBVIOUS
    <3>1. entry = On
      BY <1>2, <1>4, Cleaner
    <3>2. job'[j] = "on" /\ On' = On \cup {j}
      BY <1>2, <1>3, <1>4, <1>6, Typed DEF On, Enabled
    <3> QED BY <1>1, <2>1, <3>1, <3>2, <1>2, Typed DEF Halfway, Continue
  <2> QED BY <1>1, <1>4, <1>5, <2>1, <2>2, CommandStep DEF Continue
<1>7. CASE ~(call[a].on /\ file'[j] = "on")
  <2>1. Reply(a)
    BY <1>7 DEF AddJob
  <2>2. Clean' => entry' = On'
    <3> SUFFICES ASSUME Clean' PROVE entry' = On'
      OBVIOUS
    <3>1. entry = On
      BY <1>2, <1>4, Cleaner
    <3>2. job'[j] # "on"
      BY <1>2, <1>3, <1>4, <1>7, Typed DEF Enabled, Clean
    <3>3. On' = On
      BY <1>1, <1>2, <1>4, <3>2, Typed DEF On
    <3> QED BY <1>1, <3>1, <3>3
  <2> QED BY <1>1, <1>4, <1>5, <2>1, <2>2, CommandStep DEF Reply, Continue
<1> QED BY <1>6, <1>7

LEMMA WriteEnabledInv ==
  ASSUME IInv, NEW a \in Admins, WriteEnabled(a), UNCHANGED heartbeatVars
  PROVE  IInv'
<1> DEFINE j == call[a].of
           op == call[a].op
           jobs == [job EXCEPT ![j] = Enabled(op = "enable")]
<1>1. admin[a] = "begin" /\ op \in {"enable", "disable"} /\ CommandFrame
      /\ UNCHANGED <<entry, live, stimuli>>
  BY DEF WriteEnabled, CommandFrame
<1>2. TypeOK /\ OneEntry /\ j \in Jobs /\ (Clean => entry = On)
  BY <1>1, Running DEF IInv, Halfway
<1>3. OneEntry' /\ entry' \subseteq Jobs /\ live' \in [Jobs -> Nat]
  BY <1>1, <1>2, Typed DEF OneEntry
<1>4. CASE Listed(j)
  <2>1. /\ Save(jobs) /\ UNCHANGED call
        /\ Continue(a, IF op = "enable" THEN "get" ELSE "unschedule")
    BY <1>4 DEF WriteEnabled, SetEnabled
  <2>2. jobs \in [Jobs -> {"none", "on", "off", "gone"}]
    BY <1>2, Typed DEF Enabled
  <2>3. /\ job' = jobs /\ job' \in [Jobs -> {"none", "on", "off", "gone"}]
        /\ file' \in [Jobs -> {"none", "on", "off", "gone"}]
        /\ lapses' \subseteq {"probe", "overlap", "write", "torn"} /\ lapses \subseteq lapses'
    BY <1>2, <2>1, <2>2, SaveTyped DEF TypeOK
  <2>4. Clean' => Halfway(a)'
    <3> SUFFICES ASSUME Clean' PROVE Halfway(a)'
      OBVIOUS
    <3>1. entry = On
      BY <1>2, <2>3, Cleaner
    <3>2. \A i \in Jobs : job'[i] = IF i = j THEN Enabled(op = "enable") ELSE job[i]
      BY <1>2, <2>3, Typed
    <3>3. On' \ {j} = On \ {j} /\ (op = "enable" <=> job'[j] = "on")
      BY <1>1, <1>2, <3>2 DEF On, Enabled
    <3>4. job'[j] # "on" => On' = On \ {j}
      BY <1>2, <3>2 DEF On
    <3> QED BY <1>1, <2>1, <3>1, <3>3, <3>4, <1>2, Typed DEF Halfway, Continue
  <2> QED BY <1>1, <1>3, <2>1, <2>3, <2>4, CommandStep DEF Continue
<1>5. CASE ~Listed(j)
  <2>1. Reply(a) /\ UNCHANGED <<job, file, lapses>>
    BY <1>5 DEF WriteEnabled, SetEnabled
  <2>2. Clean' => entry' = On'
    BY <1>1, <1>2, <2>1 DEF On, Clean
  <2> QED BY <1>1, <1>2, <1>3, <2>1, <2>2, Typed, CommandStep DEF Reply, Continue
<1> QED BY <1>4, <1>5

LEMMA BeginUpdateInv ==
  ASSUME IInv, NEW a \in Admins, BeginUpdate(a), UNCHANGED heartbeatVars
  PROVE  IInv'
<1>1. admin[a] = "begin" /\ call[a].op = "update" /\ CommandFrame
      /\ UNCHANGED <<job, file, entry, live, stimuli, lapses>>
  BY DEF BeginUpdate, CommandFrame, scheduleVars
<1>2. TypeOK /\ OneEntry /\ (Clean => entry = On)
  BY <1>1, Running DEF IInv, Halfway
<1>3. OneEntry' /\ (Clean' => entry' = On')
  BY <1>1, <1>2 DEF OneEntry, On, Clean
<1>4. CASE Continue(a, "unschedule") /\ UNCHANGED call
  <2>1. Clean' => Halfway(a)'
    BY <1>1, <1>2, <1>3, <1>4, Typed DEF Halfway, Continue
  <2> QED BY <1>1, <1>2, <1>3, <1>4, <2>1, Typed, CommandStep DEF Continue
<1>5. CASE Reply(a)
  BY <1>1, <1>2, <1>3, <1>5, Typed, CommandStep DEF Reply, Continue
<1> QED BY <1>4, <1>5 DEF BeginUpdate

LEMMA UnscheduleInv ==
  ASSUME IInv, NEW a \in Admins, Unschedule(a), UNCHANGED heartbeatVars
  PROVE  IInv'
<1> DEFINE j == call[a].of
           op == call[a].op
<1>1. admin[a] = "unschedule" /\ entry' = entry \ {j} /\ CommandFrame
      /\ live' = [live EXCEPT ![j] = IF j \in entry THEN @ - 1 ELSE @]
      /\ UNCHANGED <<job, file, stimuli, lapses>>
  BY DEF Unschedule, CommandFrame
<1>2. /\ TypeOK /\ OneEntry /\ j \in Jobs
      /\ Clean => IF op = "disable" THEN job[j] # "on" /\ entry \ {j} = On ELSE entry = On
      /\ op \in {"remove", "update", "disable"}
  BY <1>1, Running DEF IInv, Halfway, Serving
<1>3. OneEntry' /\ entry' \subseteq Jobs /\ live' \in [Jobs -> Nat]
  <2>1. \A i \in Jobs : live'[i] = IF i \in entry' THEN 1 ELSE 0
    BY <1>1, <1>2, Typed DEF OneEntry
  <2>2. \A i \in Jobs : live'[i] \in Nat
    BY <2>1
  <2>3. live' = [live EXCEPT ![j] = live'[j]]
    <3> DEFINE v == IF j \in entry THEN live[j] - 1 ELSE live[j]
    <3>1. live' = [live EXCEPT ![j] = v]
      BY <1>1
    <3> HIDE DEF v, j
    <3> QED BY <1>2, <3>1, Typed
  <2>4. live' \in [Jobs -> Nat]
    <3> HIDE DEF j
    <3> QED BY <1>2, <2>2, <2>3, Typed
  <2>5. entry' \subseteq Jobs
    BY <1>1, <1>2, Typed
  <2> QED BY <2>1, <2>4, <2>5 DEF OneEntry
<1>4. CASE op = "disable"
  <2>1. Reply(a)
    BY <1>4 DEF Unschedule
  <2>2. Clean' => entry' = On'
    BY <1>1, <1>2, <1>4 DEF On, Clean
  <2> QED BY <1>1, <1>2, <1>3, <2>1, <2>2, Typed, CommandStep DEF Reply, Continue
<1>5. CASE op # "disable"
  <2>1. Continue(a, "store") /\ UNCHANGED call
    BY <1>5 DEF Unschedule
  <2>2. Clean' => j \notin entry' /\ On' \ {j} = entry'
    BY <1>1, <1>2, <1>5 DEF On, Clean
  <2>3. Clean' => Halfway(a)'
    BY <1>2, <2>1, <2>2, Typed DEF Halfway, Continue
  <2> QED BY <1>1, <1>2, <1>3, <1>5, <2>1, <2>3, Typed, CommandStep DEF Continue
<1> QED BY <1>4, <1>5

LEMMA WriteStoreInv ==
  ASSUME IInv, NEW a \in Admins, WriteStore(a), UNCHANGED heartbeatVars
  PROVE  IInv'
<1> DEFINE j == call[a].of
           op == call[a].op
           States == {"none", "on", "off", "gone"}
<1>1. admin[a] = "store" /\ CommandFrame /\ UNCHANGED <<entry, live, stimuli>>
  BY DEF WriteStore, CommandFrame
<1>2. /\ TypeOK /\ OneEntry /\ j \in Jobs /\ op \in {"remove", "update"}
      /\ Clean => j \notin entry /\ On \ {j} = entry
  BY <1>1, Running DEF IInv, Halfway, Serving
<1>3. OneEntry' /\ entry' \subseteq Jobs /\ live' \in [Jobs -> Nat]
  BY <1>1, <1>2, Typed DEF OneEntry
<1>4. \/ /\ op = "remove" /\ Listed(j) /\ Save([job EXCEPT ![j] = "gone"]) /\ Reply(a)
      \/ /\ op = "remove" /\ ~Listed(j) /\ UNCHANGED <<job, file, lapses>> /\ Reply(a)
      \/ /\ op = "update" /\ Listed(j) /\ Continue(a, "get") /\ UNCHANGED call
         /\ \E on \in BOOLEAN : Save([job EXCEPT ![j] = Enabled(on)])
      \/ /\ op = "update" /\ ~Listed(j) /\ UNCHANGED <<job, file, lapses>> /\ Reply(a)
  <2>1. call[a].on \in BOOLEAN /\ (job[j] = "on") \in BOOLEAN
    BY <1>1, Running
  <2> QED BY <1>2, <2>1 DEF WriteStore, SetEnabled
<1>5. CASE op = "remove" /\ Listed(j) /\ Save([job EXCEPT ![j] = "gone"]) /\ Reply(a)
  <2>1. [job EXCEPT ![j] = "gone"] \in [Jobs -> States]
    BY <1>2, Typed
  <2>2. /\ job' = [job EXCEPT ![j] = "gone"] /\ job' \in [Jobs -> States]
        /\ file' \in [Jobs -> States]
        /\ lapses' \subseteq {"probe", "overlap", "write", "torn"} /\ lapses \subseteq lapses'
    BY <1>2, <1>5, <2>1, SaveTyped DEF TypeOK
  <2>3. On' = On \ {j}
    BY <1>2, <2>2, Typed DEF On
  <2>4. Clean' => entry' = On'
    BY <1>1, <1>2, <2>2, <2>3, Cleaner
  <2> QED BY <1>1, <1>3, <1>5, <2>2, <2>4, CommandStep DEF Reply, Continue
<1>6. CASE ~Listed(j) /\ UNCHANGED <<job, file, lapses>> /\ Reply(a)
  <2>1. On' = On /\ j \notin On
    BY <1>6 DEF On, Listed
  <2>2. Clean' => entry' = On'
    BY <1>1, <1>2, <1>6, <2>1 DEF Clean
  <2> QED BY <1>1, <1>2, <1>3, <1>6, <2>2, Typed, CommandStep DEF Reply, Continue
<1>7. CASE /\ op = "update" /\ Continue(a, "get") /\ UNCHANGED call
           /\ \E on \in BOOLEAN : Save([job EXCEPT ![j] = Enabled(on)])
  <2>1. PICK on \in BOOLEAN : Save([job EXCEPT ![j] = Enabled(on)])
    BY <1>7
  <2>2. [job EXCEPT ![j] = Enabled(on)] \in [Jobs -> States]
    BY <1>2, Typed DEF Enabled
  <2>3. /\ job' = [job EXCEPT ![j] = Enabled(on)] /\ job' \in [Jobs -> States]
        /\ file' \in [Jobs -> States]
        /\ lapses' \subseteq {"probe", "overlap", "write", "torn"} /\ lapses \subseteq lapses'
    BY <1>2, <2>1, <2>2, SaveTyped DEF TypeOK
  <2>4. On' \ {j} = On \ {j}
    BY <1>2, <2>3, Typed DEF On
  <2>5. Clean' => On' \ {j} = entry' \ {j} /\ j \notin entry'
    BY <1>1, <1>2, <2>3, <2>4, Cleaner
  <2>6. Clean' => Halfway(a)'
    BY <1>1, <1>2, <1>7, <2>5, Typed DEF Halfway, Continue
  <2> QED BY <1>1, <1>3, <1>7, <2>3, <2>6, CommandStep DEF Continue
<1> QED BY <1>4, <1>5, <1>6, <1>7

LEMMA GetAgainInv ==
  ASSUME IInv, NEW a \in Admins, GetAgain(a), UNCHANGED heartbeatVars
  PROVE  IInv'
<1> DEFINE j == call[a].of
           op == call[a].op
<1>1. admin[a] = "get" /\ CommandFrame
      /\ UNCHANGED <<job, file, entry, live, stimuli, lapses>>
  BY DEF GetAgain, CommandFrame, scheduleVars
<1>2. /\ TypeOK /\ OneEntry /\ j \in Jobs
      /\ Clean => /\ On \ {j} = entry \ {j}
                  /\ op = "update" => j \notin entry
                  /\ op # "update" => job[j] = "on"
  BY <1>1, Running DEF IInv, Halfway
<1>3. OneEntry' /\ On' = On /\ (Clean' => Clean)
  BY <1>1, <1>2 DEF OneEntry, On, Clean
<1>4. CASE Listed(j) /\ (op = "update" => job[j] = "on")
  <2>1. Continue(a, "schedule") /\ UNCHANGED call
    BY <1>4 DEF GetAgain
  <2>2. Clean => job[j] = "on" /\ entry \cup {j} = On
    <3> SUFFICES ASSUME Clean PROVE job[j] = "on" /\ entry \cup {j} = On
      OBVIOUS
    <3>1. job[j] = "on" /\ j \in On
      BY <1>2, <1>4 DEF On
    <3> QED BY <1>2, <3>1
  <2>3. Clean' => Halfway(a)'
    BY <1>1, <1>3, <2>1, <2>2, Typed, <1>2 DEF Halfway, Continue
  <2> QED BY <1>1, <1>2, <1>3, <2>1, <2>3, Typed, CommandStep DEF Continue
<1>5. CASE ~(Listed(j) /\ (op = "update" => job[j] = "on"))
  <2>1. Reply(a)
    BY <1>5 DEF GetAgain
  <2>2. Clean => entry = On
    <3> SUFFICES ASSUME Clean PROVE entry = On
      OBVIOUS
    <3>1. op = "update" /\ job[j] # "on"
      BY <1>2, <1>5 DEF Listed
    <3>2. j \notin On /\ j \notin entry
      BY <1>2, <3>1 DEF On
    <3> QED BY <1>2, <3>2
  <2>3. Clean' => entry' = On'
    BY <1>1, <1>3, <2>2
  <2> QED BY <1>1, <1>2, <1>3, <2>1, <2>3, Typed, CommandStep DEF Reply, Continue
<1> QED BY <1>4, <1>5

LEMMA ScheduleJobInv ==
  ASSUME IInv, NEW a \in Admins, ScheduleJob(a), UNCHANGED heartbeatVars
  PROVE  IInv'
<1> DEFINE j == call[a].of
<1>1. admin[a] = "schedule" /\ entry' = entry \cup {j} /\ CommandFrame /\ Reply(a)
      /\ live' = [live EXCEPT ![j] = IF j \in entry THEN @ ELSE @ + 1]
      /\ UNCHANGED <<job, file, stimuli, lapses>>
  BY DEF ScheduleJob, CommandFrame
<1>2. /\ TypeOK /\ OneEntry /\ j \in Jobs
      /\ Clean => entry \cup {j} = On
  BY <1>1, Running DEF IInv, Halfway
<1>3. OneEntry' /\ entry' \subseteq Jobs /\ live' \in [Jobs -> Nat]
  <2>1. \A i \in Jobs : live'[i] = IF i \in entry' THEN 1 ELSE 0
    BY <1>1, <1>2, Typed DEF OneEntry
  <2>2. \A i \in Jobs : live'[i] \in Nat
    BY <2>1
  <2>3. live' = [live EXCEPT ![j] = live'[j]]
    BY <1>1, <1>2, Typed, ZenonT(60)
  <2>4. live' \in [Jobs -> Nat]
    <3> HIDE DEF j
    <3> QED BY <1>2, <2>2, <2>3, Typed
  <2>5. entry' \subseteq Jobs
    BY <1>1, <1>2, Typed
  <2> QED BY <2>1, <2>4, <2>5 DEF OneEntry
<1>4. Clean' => entry' = On'
  BY <1>1, <1>2 DEF On, Clean
<1> QED BY <1>1, <1>2, <1>3, <1>4, Typed, CommandStep DEF Reply, Continue

LEMMA AdminInv ==
  ASSUME IInv, NEW a \in Admins, Admin(a), UNCHANGED heartbeatVars
  PROVE  IInv'
BY CommandInv, AddJobInv, WriteEnabledInv, BeginUpdateInv, UnscheduleInv,
   WriteStoreInv, GetAgainInv, ScheduleJobInv DEF Admin

-----------------------------------------------------------------------------
(* Runs of jobs *)

\* A run leaves the commands, the schedule and the heartbeats as they are; it may
\* save the store.
LEMMA RunKeeps ==
  ASSUME IInv, UNCHANGED <<job, entry, live, adminVars, user, heartbeatVars>>,
         lapses \subseteq lapses'
  PROVE  /\ HeartbeatTypeOK' /\ Probed' /\ Overridden'
         /\ OneEntry' /\ Serving' /\ Orderly' /\ Scheduled'
<1> USE DEF IInv
<1>1. UNCHANGED <<admin, call, beat, beatWork, paused, changed, states, writing, unsaved>>
  BY DEF adminVars, heartbeatVars, overrideVars, beatVars
<1>2. HeartbeatTypeOK' /\ Overridden'
  BY <1>1, HeartbeatTypeFrame, OverridesFrame DEF TypeOK
<1>3. OneEntry' /\ Serving' /\ Orderly' /\ Scheduled'
  BY <1>1, ScheduleKept
<1> QED BY <1>1, <1>2, <1>3 DEF Probed

Works == {"none", "start", "begin", "asked", "drain", "verdict", "side", "end"}
Waits == {"none", "fired", "waiting", "ok", "error", "done"}

\* A step of a run that does not touch the Session.
LEMMA RunAside ==
  ASSUME IInv, UNCHANGED <<job, entry, live, adminVars, sessionVars, user, heartbeatVars, prev>>,
         file' \in [Jobs -> {"none", "on", "off", "gone"}],
         lapses \subseteq lapses', lapses' \subseteq {"probe", "overlap", "write", "torn"},
         stimuli' \in 0 .. MaxStimuli,
         work' \in [Runs -> Works], CronHolders' = CronHolders,
         Launched', Returned', wait' \in [Runs -> Waits], runJob' \in [Runs -> Jobs \cup {"none"}],
         answered' \in [Runs -> {"no", "asked", "yes", "failed"}],
         result' \in [Runs -> {"none", "ok", "error"}], lastError' \in [Jobs -> BOOLEAN]
  PROVE  IInv'
<1> USE DEF IInv
<1>1. UNCHANGED <<busy, queue, history, admin, call, beat, beatWork>>
  BY DEF sessionVars, adminVars, heartbeatVars, beatVars
<1>2. HeartbeatTypeOK' /\ Probed' /\ Overridden'
      /\ OneEntry' /\ Serving' /\ Orderly' /\ Scheduled'
  BY RunKeeps
<1>4. CronTypeOK' /\ SessionTypeOK'
  BY <1>1, Typed DEF CronTypeOK, SessionTypeOK, Works, Waits
<1>5. Exclusive'
  <2>1. UserHolders' = UserHolders /\ BeatHolders' = BeatHolders
    BY <1>1 DEF UserHolders, BeatHolders
  <2> QED BY <1>1, <2>1 DEF Exclusive
<1>6. NoneStranded'
  BY <1>1, SessionFrame
<1> QED BY <1>2, <1>4, <1>5, <1>6 DEF TypeOK

\* A step of a run that takes, keeps or gives back the Session.
LEMMA SameHolders ==
  ASSUME TypeOK, NEW r \in Runs, NEW at \in Works,
         work' = work \/ (/\ work' = [work EXCEPT ![r] = at]
                         /\ work[r] \notin {"begin", "asked", "drain"}
                         /\ at \notin {"begin", "asked", "drain"})
  PROVE  work' \in [Runs -> Works] /\ CronHolders' = CronHolders
<1>1. work \in [Runs -> Works]
  BY Typed DEF Works
<1> QED BY <1>1 DEF CronHolders

LEMMA RunOnSession ==
  ASSUME IInv, UNCHANGED <<scheduleVars, adminVars, user, stimuli, lapses, heartbeatVars>>,
         UNCHANGED <<wait, runJob, result, lastError>>,
         busy' \in BOOLEAN, queue' \in Seq(Users), history' \in Nat,
         prev' \in [Runs -> Nat], answered' \in [Runs -> {"no", "asked", "yes", "failed"}],
         NEW r \in Runs, NEW at \in Works, work' = [work EXCEPT ![r] = at],
         work[r] # "none", at # "end",
         \/ r \notin CronHolders /\ at \in {"begin", "asked", "drain"} /\ ~busy /\ busy'
         \/ r \in CronHolders /\ at \in {"begin", "asked", "drain"} /\ busy' = busy
         \/ r \in CronHolders /\ at \notin {"begin", "asked", "drain"} /\ ~busy' /\ queue' = <<>>
  PROVE  IInv'
<1> USE DEF IInv
<1>1. UNCHANGED <<job, file, entry, live, admin, call, beat, beatWork>>
  BY DEF scheduleVars, adminVars, heartbeatVars, beatVars
<1>2. HeartbeatTypeOK' /\ Probed' /\ Overridden'
      /\ OneEntry' /\ Serving' /\ Orderly' /\ Scheduled'
  BY <1>1, RunKeeps
<1>3. work' \in [Runs -> Works]
  BY Typed DEF Works
<1>4. CronTypeOK' /\ SessionTypeOK'
  BY <1>1, <1>3, Typed DEF CronTypeOK, SessionTypeOK, Works
<1>5. Exclusive'
  BY <1>1, CronLock
<1>7. Launched' /\ Returned'
  BY DEF Launched, Returned, CronHolders
<1>6. NoneStranded'
  <2>1. busy' \/ queue' = <<>>
    BY DEF Exclusive, Sole
  <2> QED BY <2>1 DEF NoneStranded
<1> QED BY <1>2, <1>4, <1>5, <1>6, <1>7 DEF TypeOK

LEMMA RunInv ==
  ASSUME IInv, NEW r \in Runs, Run(r), UNCHANGED heartbeatVars
  PROVE  IInv'
<1> USE Typed DEF IInv, Works, Waits
<1>1. ASSUME NEW j \in Jobs, Fire(r, j) PROVE IInv'
  <2>1. stimuli' \in 0 .. MaxStimuli
    BY <1>1, SessionAssumption DEF Fire, Stimulus
  <2>2. Launched' /\ Returned'
    BY <1>1 DEF Fire, Launched, Returned
  <2> QED BY <1>1, <2>1, <2>2, SameHolders, RunAside DEF Fire, scheduleVars
<1>2. CASE CheckJob(r)
  <2>1. wait[r] = "fired" /\ work[r] = "none" /\ UNCHANGED result
    BY <1>2 DEF CheckJob, Launched
  <2>2. PICK w \in {"done", "waiting", "error"} : wait' = [wait EXCEPT ![r] = w]
    BY <1>2 DEF CheckJob
  <2>3. wait' \in [Runs -> Waits]
    BY <2>2
  <2>4. CASE work' = work
    <3>1. Launched' /\ Returned'
      BY <2>1, <2>2, <2>4 DEF Launched, Returned
    <3> QED BY <1>2, <2>3, <2>4, <3>1, SameHolders, RunAside DEF CheckJob, scheduleVars
  <2>5. CASE work' = [work EXCEPT ![r] = "start"] /\ w = "waiting"
    <3>1. Launched' /\ Returned'
      BY <2>1, <2>2, <2>5 DEF Launched, Returned
    <3>2. work' \in [Runs -> Works] /\ CronHolders' = CronHolders
      BY <2>1, <2>5, SameHolders
    <3> QED BY <1>2, <2>1, <2>3, <3>1, <3>2, RunAside DEF CheckJob, scheduleVars
  <2>6. work' = work \/ (work' = [work EXCEPT ![r] = "start"] /\ wait' = [wait EXCEPT ![r] = "waiting"])
    BY <1>2 DEF CheckJob
  <2> QED BY <2>2, <2>4, <2>5, <2>6
<1>3. CASE StartTurn(r)
  <2>0. work[r] = "start" /\ UNCHANGED wait
    BY <1>3 DEF StartTurn
  <2>1. CASE Return(r, "error") /\ UNCHANGED <<prev, sessionVars>>
    <3>1. Launched' /\ Returned'
      BY <2>0, <2>1 DEF Launched, Returned, Return
    <3>2. result' \in [Runs -> {"none", "ok", "error"}] /\ work' = [work EXCEPT ![r] = "end"]
      BY <2>1 DEF Return
    <3>3. /\ UNCHANGED <<scheduleVars, adminVars, wait, runJob, answered, lastError, user,
                         stimuli, lapses>>
          /\ UNCHANGED <<prev, sessionVars>>
      BY <1>3, <2>1 DEF StartTurn
    <3>4. work' \in [Runs -> Works] /\ CronHolders' = CronHolders
      BY <2>0, <3>2, SameHolders
    <3> QED BY <3>1, <3>2, <3>3, <3>4, RunAside DEF scheduleVars
  <2>2. CASE work' = [work EXCEPT ![r] = "side"] /\ UNCHANGED <<prev, result, sessionVars>>
    <3>1. Launched' /\ Returned'
      BY <2>0, <2>2 DEF Launched, Returned
    <3>2. UNCHANGED <<scheduleVars, adminVars, wait, runJob, answered, lastError, user,
                      stimuli, lapses>>
      BY <1>3 DEF StartTurn
    <3>3. work' \in [Runs -> Works] /\ CronHolders' = CronHolders
      BY <2>0, <2>2, SameHolders
    <3> QED BY <2>0, <2>2, <3>1, <3>2, <3>3, RunAside DEF scheduleVars
  <2>3. CASE /\ TryLock /\ work' = [work EXCEPT ![r] = "begin"]
             /\ prev' = [prev EXCEPT ![r] = history] /\ UNCHANGED result
    BY <1>3, <2>3, RunOnSession DEF StartTurn, TryLock, CronHolders
  <2> QED BY <1>3, <2>1, <2>2, <2>3 DEF StartTurn
<1>4. CASE CronTurn(r)
  <2>0. work[r] \in {"begin", "asked", "drain"} /\ r \in CronHolders /\ busy
    BY <1>4 DEF CronTurn, CronHolders, Exclusive, Sole
  <2>00. /\ UNCHANGED <<scheduleVars, adminVars, user, stimuli, lapses, heartbeatVars>>
         /\ UNCHANGED <<wait, runJob, prev, result, lastError>>
    BY <1>4 DEF CronTurn
  <2>1. CASE /\ Ask /\ work' = [work EXCEPT ![r] = "asked"]
             /\ answered' = [answered EXCEPT ![r] = "asked"]
    <3>1. answered' \in [Runs -> {"no", "asked", "yes", "failed"}]
      BY <2>1
    <3>2. history' \in Nat /\ UNCHANGED <<busy, queue>>
      BY <2>1 DEF Ask
    <3> QED BY <2>0, <2>00, <2>1, <3>1, <3>2, RunOnSession
  <2>2. CASE /\ \E ok \in BOOLEAN :
                  /\ Answer(ok)
                  /\ answered' = [answered EXCEPT ![r] =
                       IF @ # "asked" THEN @ ELSE IF ok THEN "yes" ELSE "failed"]
             /\ work' = [work EXCEPT ![r] = "drain"]
    <3>1. answered' \in [Runs -> {"no", "asked", "yes", "failed"}]
      BY <2>2
    <3>2. history' \in Nat /\ UNCHANGED <<busy, queue>>
      BY <2>2 DEF Answer
    <3> QED BY <2>0, <2>00, <2>2, <3>1, <3>2, RunOnSession
  <2>3. CASE Pop /\ work' = [work EXCEPT ![r] = "asked"] /\ UNCHANGED answered
    <3>1. history' \in Nat /\ queue' \in Seq(Users) /\ UNCHANGED busy
      BY <2>3, Sequences DEF Pop
    <3> QED BY <2>0, <2>00, <2>3, <3>1, RunOnSession
  <2>4. CASE Release /\ work' = [work EXCEPT ![r] = "verdict"] /\ UNCHANGED answered
    BY <2>0, <2>00, <2>4, RunOnSession DEF Release
  <2> QED BY <1>4, <2>1, <2>2, <2>3, <2>4 DEF CronTurn
<1>5. CASE Verdict(r)
  <2>1. PICK res \in {"ok", "error"} : Return(r, res)
    BY <1>5 DEF Verdict
  <2>2. Launched' /\ Returned'
    BY <1>5, <2>1 DEF Launched, Returned, Return, Verdict
  <2> QED BY <1>5, <2>1, <2>2, SameHolders, RunAside DEF Verdict, Return, scheduleVars
<1>6. CASE SideTurn(r)
  <2>1. PICK res \in {"ok", "error"}, w \in {"yes", "failed"} :
          Return(r, res) /\ answered' = [answered EXCEPT ![r] = w]
    BY <1>6 DEF SideTurn
  <2>2. Launched' /\ Returned'
    BY <1>6, <2>1 DEF Launched, Returned, Return, SideTurn
  <2>3. /\ answered' \in [Runs -> {"no", "asked", "yes", "failed"}]
        /\ result' \in [Runs -> {"none", "ok", "error"}]
        /\ work' = [work EXCEPT ![r] = "end"]
    BY <2>1 DEF Return
  <2> QED BY <1>6, <2>2, <2>3, SameHolders, RunAside DEF SideTurn, scheduleVars
<1>7. CASE Await(r)
  <2>0. wait[r] = "waiting" /\ UNCHANGED <<work, result>>
    BY <1>7 DEF Await
  <2>1. PICK w \in {"ok", "error"} : wait' = [wait EXCEPT ![r] = w]
    <3>1. CASE work[r] = "end" /\ wait' = [wait EXCEPT ![r] = result[r]]
      <4>1. result[r] \in {"ok", "error"}
        BY <2>0, <3>1 DEF Launched, Returned
      <4> QED BY <3>1, <4>1
    <3> QED BY <1>7, <3>1 DEF Await
  <2>2. wait' \in [Runs -> Waits]
    BY <2>1
  <2>3. Launched' /\ Returned'
    BY <2>0, <2>1 DEF Launched, Returned
  <2> QED BY <1>7, <2>2, <2>3, SameHolders, RunAside DEF Await, scheduleVars
<1>8. CASE MarkRun(r)
  <2>1. wait' \in [Runs -> Waits]
    BY <1>8 DEF MarkRun
  <2>2. lastError' \in [Jobs -> BOOLEAN]
    <3>1. (wait[r] = "error") \in BOOLEAN
      OBVIOUS
    <3>2. \/ UNCHANGED lastError
          \/ \E e \in BOOLEAN : lastError' = [lastError EXCEPT ![runJob[r]] = e]
      BY <1>8, <3>1 DEF MarkRun
    <3>3. ASSUME NEW e \in BOOLEAN, NEW j, lastError' = [lastError EXCEPT ![j] = e]
          PROVE  lastError' \in [Jobs -> BOOLEAN]
      <4>1. lastError \in [Jobs -> BOOLEAN]
        OBVIOUS
      <4> QED BY ONLY <3>3, <4>1
    <3> QED BY <3>2, <3>3
  <2>3. /\ UNCHANGED job /\ file' \in [Jobs -> {"none", "on", "off", "gone"}]
        /\ lapses \subseteq lapses' /\ lapses' \subseteq {"probe", "overlap", "write", "torn"}
    BY <1>8, SaveTyped DEF MarkRun, TypeOK
  <2>4. Launched' /\ Returned'
    BY <1>8 DEF Launched, Returned, MarkRun
  <2> QED BY <1>8, <2>1, <2>2, <2>3, <2>4, SameHolders, RunAside DEF MarkRun
<1> QED BY <1>1, <1>2, <1>3, <1>4, <1>5, <1>6, <1>7, <1>8 DEF Run

-----------------------------------------------------------------------------
(* Heartbeats *)

\* A heartbeat leaves the jobs, their commands and their runs as they are.
LEMMA BeatKeeps ==
  ASSUME IInv, UNCHANGED cronVars, lapses \subseteq lapses'
  PROVE  /\ CronTypeOK' /\ Launched' /\ Returned'
         /\ OneEntry' /\ Serving' /\ Orderly' /\ Scheduled'
<1> USE DEF IInv
<1>1. UNCHANGED <<job, entry, live, admin, call, wait, work, result>>
  BY DEF cronVars, scheduleVars, adminVars, runVars
<1>2. CronTypeOK'
  BY CronTypeFrame DEF TypeOK
<1>3. OneEntry' /\ Serving' /\ Orderly' /\ Scheduled'
  BY <1>1, ScheduleKept
<1> QED BY <1>1, <1>2, <1>3 DEF Launched, Returned

Holds(at, w) == at = "probing" \/ w \in {"begin", "asked", "drain"}

\* A step of an execution, from what it does to the lock.
LEMMA BeatStep ==
  ASSUME IInv, UNCHANGED <<cronVars, overrideVars, user>>, NEW b \in Beats,
         NEW at \in {"none", "due", "probing", "waiting", "done"},
         NEW w \in {"none", "start", "begin", "asked", "drain", "end"},
         beat' = [beat EXCEPT ![b] = at], beatWork' = [beatWork EXCEPT ![b] = w],
         at \in {"none", "due", "probing"} => w = "none",
         byTicker' \in Beats \cup {NoBeat},
         queue' \in Seq(Users), history' \in Nat, stimuli' \in 0 .. MaxStimuli,
         lapses \subseteq lapses', lapses' \subseteq {"probe", "overlap", "write", "torn"},
         busy' \in BOOLEAN,
         \/ ~Holds(beat[b], beatWork[b]) /\ Holds(at, w) /\ ~busy /\ busy'
         \/ (Holds(beat[b], beatWork[b]) <=> Holds(at, w)) /\ busy' = busy
         \/ Holds(beat[b], beatWork[b]) /\ ~Holds(at, w) /\ ~busy',
         NoneStranded'
  PROVE  IInv'
<1> USE DEF IInv
<1>1. /\ CronTypeOK' /\ Launched' /\ Returned'
      /\ OneEntry' /\ Serving' /\ Orderly' /\ Scheduled'
  BY BeatKeeps
<1>2. UNCHANGED <<onlyIdle, paused, changed, states, writing, unsaved, work>>
  BY DEF overrideVars, cronVars, runVars
<1>3. SessionTypeOK' /\ HeartbeatTypeOK'
  <2>1. beat' \in [Beats -> {"none", "due", "probing", "waiting", "done"}]
    BY Typed
  <2>2. beatWork' \in [Beats -> {"none", "start", "begin", "asked", "drain", "end"}]
    BY Typed
  <2>3. HeartbeatTypeOK'
    BY <1>2, <2>1, <2>2 DEF TypeOK, HeartbeatTypeOK
  <2> QED BY <2>3, Typed DEF SessionTypeOK
<1>4. Probed'
  BY Typed DEF Probed
<1>5. Overridden'
  BY <1>2, OverridesFrame
<1>6. Exclusive'
  <2>1. \A c \in Beats : c # b => beat'[c] = beat[c] /\ beatWork'[c] = beatWork[c]
    BY Typed
  <2>2. beat'[b] = at /\ beatWork'[b] = w
    BY Typed
  <2>3. /\ b \in BeatHolders <=> Holds(beat[b], beatWork[b])
        /\ b \in BeatHolders' <=> Holds(at, w)
    BY <2>2 DEF BeatHolders, Holds
  <2> QED BY <1>2, <2>1, <2>3, BeatLock
<1> QED BY <1>1, <1>3, <1>4, <1>5, <1>6 DEF TypeOK

\* The same of a step that leaves the Session alone.
LEMMA BeatAside ==
  ASSUME IInv, UNCHANGED <<cronVars, overrideVars, user, sessionVars, lapses>>, NEW b \in Beats,
         NEW at \in {"none", "due", "probing", "waiting", "done"},
         NEW w \in {"none", "start", "begin", "asked", "drain", "end"},
         beat' = [beat EXCEPT ![b] = at], beatWork' = [beatWork EXCEPT ![b] = w],
         at \in {"none", "due", "probing"} => w = "none",
         byTicker' \in Beats \cup {NoBeat}, stimuli' \in 0 .. MaxStimuli,
         Holds(beat[b], beatWork[b]) <=> Holds(at, w)
  PROVE  IInv'
<1>1. UNCHANGED <<busy, queue, history>>
  BY DEF sessionVars
<1>2. NoneStranded'
  BY <1>1, SessionFrame DEF IInv
<1>3. TypeOK
  BY DEF IInv
<1>4. /\ queue' \in Seq(Users) /\ history' \in Nat /\ busy' \in BOOLEAN
      /\ lapses \subseteq lapses' /\ lapses' \subseteq {"probe", "overlap", "write", "torn"}
  BY <1>1, <1>3, Typed
<1>5. UNCHANGED <<cronVars, overrideVars, user>>
  OBVIOUS
<1> QED BY <1>1, <1>2, <1>4, <1>5, BeatStep, ZenonT(60)

LEMMA EditInv ==
  ASSUME IInv, UNCHANGED cronVars, (\E p \in Projects : Edit(p)) \/ Persist
  PROVE  IInv'
<1> USE DEF IInv
<1>1. UNCHANGED <<onlyIdle, beat, beatWork, byTicker, busy, queue, history, user, lapses, work>>
  BY DEF Edit, Persist, beatVars, sessionVars, cronVars, runVars
<1>2. /\ CronTypeOK' /\ Launched' /\ Returned'
      /\ OneEntry' /\ Serving' /\ Orderly' /\ Scheduled'
  BY <1>1, BeatKeeps
<1>3. Exclusive' /\ NoneStranded' /\ Probed'
  BY <1>1, NoLock, SessionFrame DEF Probed
<1>4. SessionTypeOK'
  BY <1>1, Typed, SessionAssumption DEF Edit, Persist, Stimulus, SessionTypeOK
<1>5. ASSUME NEW p \in Projects, Edit(p) PROVE HeartbeatTypeOK' /\ Overridden'
  <2>1. paused' \in [Projects -> BOOLEAN] /\ changed' \in [Projects -> BOOLEAN]
    <3>1. CASE paused' = [paused EXCEPT ![p] = ~@] /\ UNCHANGED changed
      BY <3>1, Typed
    <3>2. ASSUME NEW c \in BOOLEAN, changed' = [changed EXCEPT ![p] = c], UNCHANGED paused
          PROVE  paused' \in [Projects -> BOOLEAN] /\ changed' \in [Projects -> BOOLEAN]
      BY <3>2, Typed
    <3> QED BY <1>5, <3>1, <3>2 DEF Edit
  <2>2. writing' = TRUE /\ UNCHANGED <<states, unsaved>>
    BY <1>5 DEF Edit
  <2>3. HeartbeatTypeOK'
    BY <1>1, <2>1, <2>2 DEF TypeOK, HeartbeatTypeOK
  <2> QED BY <2>2, <2>3 DEF Overridden
<1>6. CASE Persist
  <2>1. /\ writing' = FALSE /\ unsaved' \in BOOLEAN /\ UNCHANGED <<paused, changed>>
        /\ ~unsaved' => states' = Snapshot
        /\ states' \in {Snapshot, states, NoFile}
    BY <1>6 DEF Persist
  <2> DEFINE K == {q \in Projects : paused[q] \/ changed[q]}
  <2>2. Snapshot \in [K -> Override]
    BY Typed DEF Snapshot, Override
  <2>3. NoFile \in [{} -> Override] /\ DOMAIN NoFile = {}
    BY DEF NoFile
  <2>4. HeartbeatTypeOK'
    <3>1. \E known \in SUBSET Projects : states' \in [known -> Override]
      <4>1. CASE states' = Snapshot
        BY <2>2, <4>1
      <4>2. CASE states' = states
        BY <4>2 DEF TypeOK, HeartbeatTypeOK
      <4>3. CASE states' = NoFile
        BY <2>3, <4>3
      <4> QED BY <2>1, <4>1, <4>2, <4>3
    <3> QED BY <1>1, <2>1, <3>1, Typed DEF HeartbeatTypeOK
  <2>5. Overridden'
    <3>1. Snapshot' = Snapshot
      BY <2>1 DEF Snapshot
    <3>2. \A p \in DOMAIN Snapshot : Snapshot[p].paused \/ Snapshot[p].changed
      BY DEF Snapshot
    <3> QED BY <2>1, <2>3, <3>1, <3>2 DEF Overridden
  <2> QED BY <1>1, <1>2, <1>3, <1>4, <2>4, <2>5 DEF TypeOK
<1> QED BY <1>2, <1>3, <1>4, <1>5, <1>6 DEF TypeOK

LEMMA BeatInv ==
  ASSUME IInv, UNCHANGED cronVars, NEW b \in Beats,
         \/ Tick(b) \/ Trigger(b) \/ Probe(b) \/ ProbeUnlock(b) \/ StartBeat(b)
         \/ BeatTurn(b) \/ Record(b)
  PROVE  IInv'
<1> USE Typed DEF IInv, Holds
<1>0. beat[b] \in {"none", "due", "probing"} => beatWork[b] = "none"
  BY DEF Probed
<1>a. beat = [beat EXCEPT ![b] = beat[b]] /\ beatWork = [beatWork EXCEPT ![b] = beatWork[b]]
  OBVIOUS
<1>1. CASE Tick(b) \/ Trigger(b)
  <2>1. stimuli' \in 0 .. MaxStimuli /\ byTicker' \in Beats \cup {NoBeat}
    BY <1>1, SessionAssumption DEF Tick, Trigger, Stimulus
  <2>2. /\ beat[b] = "none" /\ beatWork[b] = "none" /\ beat' = [beat EXCEPT ![b] = "due"]
        /\ beatWork' = [beatWork EXCEPT ![b] = "none"]
        /\ UNCHANGED <<overrideVars, user, sessionVars, lapses>>
    BY <1>0, <1>1, <1>a DEF Tick, Trigger
  <2> QED BY <2>1, <2>2, BeatAside
<1>2. CASE Probe(b)
  <2>1. beat[b] = "due" /\ beatWork[b] = "none" /\ UNCHANGED <<overrideVars, user, stimuli, lapses>>
    BY <1>0, <1>2 DEF Probe
  <2>2. CASE Finish(b) /\ UNCHANGED <<beatWork, sessionVars>>
    BY <1>a, <2>1, <2>2, BeatAside DEF Finish
  <2>3. CASE /\ TryLock /\ beat' = [beat EXCEPT ![b] = "probing"]
             /\ UNCHANGED <<beatWork, byTicker>>
    <3>1. ~busy /\ busy' = TRUE /\ UNCHANGED <<queue, history>>
      BY <2>3 DEF TryLock
    <3>2. NoneStranded'
      BY <3>1 DEF NoneStranded
    <3> QED BY <1>a, <2>1, <2>3, <3>1, <3>2, BeatStep
  <2>4. CASE StartWork(b) /\ UNCHANGED <<byTicker, sessionVars>>
    BY <2>1, <2>4, BeatAside DEF StartWork
  <2> QED BY <1>2, <2>2, <2>3, <2>4 DEF Probe
<1>3. CASE ProbeUnlock(b)
  <2>1. /\ beat[b] = "probing" /\ beatWork[b] = "none" /\ busy' = FALSE
        /\ UNCHANGED <<overrideVars, byTicker, queue, history, user, stimuli>>
        /\ beat' = [beat EXCEPT ![b] = "waiting"] /\ beatWork' = [beatWork EXCEPT ![b] = "start"]
    BY <1>0, <1>3 DEF ProbeUnlock, StartWork
  <2>2. /\ lapses \subseteq lapses' /\ lapses' \subseteq {"probe", "overlap", "write", "torn"}
        /\ queue # <<>> => "probe" \in lapses'
    BY <1>3 DEF ProbeUnlock
  <2>3. NoneStranded'
    BY <2>1, <2>2 DEF NoneStranded
  <2> QED BY <2>1, <2>2, <2>3, BeatStep
<1>4. CASE StartBeat(b)
  <2>1. /\ beatWork[b] = "start" /\ beat[b] \in {"waiting", "done"}
        /\ UNCHANGED <<overrideVars, beat, byTicker, user, stimuli, lapses>>
    BY <1>0, <1>4 DEF StartBeat
  <2>2. CASE beatWork' = [beatWork EXCEPT ![b] = "end"] /\ UNCHANGED sessionVars
    BY <1>a, <2>1, <2>2, BeatAside
  <2>3. CASE TryLock /\ beatWork' = [beatWork EXCEPT ![b] = "begin"]
    <3>1. ~busy /\ busy' = TRUE /\ UNCHANGED <<queue, history>>
      BY <2>3 DEF TryLock
    <3>2. NoneStranded'
      BY <3>1 DEF NoneStranded
    <3> QED BY <1>a, <2>1, <2>3, <3>1, <3>2, BeatStep
  <2> QED BY <1>4, <2>2, <2>3 DEF StartBeat
<1>5. CASE BeatTurn(b)
  <2>1. /\ beatWork[b] \in {"begin", "asked", "drain"} /\ beat[b] \in {"waiting", "done"}
        /\ UNCHANGED <<overrideVars, beat, byTicker, user, stimuli, lapses>>
    BY <1>0, <1>5 DEF BeatTurn
  <2>2. busy
    BY <2>1 DEF Exclusive, Sole, BeatHolders
  <2>3. PICK w \in {"asked", "drain", "end"} :
          /\ beatWork' = [beatWork EXCEPT ![b] = w]
          /\ IF w = "end" THEN Release ELSE Ask \/ Pop \/ \E ok \in BOOLEAN : Answer(ok)
    BY <1>5 DEF BeatTurn
  <2>4. CASE w = "end"
    <3>1. queue = <<>> /\ busy' = FALSE /\ UNCHANGED <<queue, history>>
      BY <2>3, <2>4 DEF Release
    <3>2. NoneStranded'
      BY <3>1 DEF NoneStranded
    <3> QED BY <1>a, <2>1, <2>3, <2>4, <3>1, <3>2, BeatStep
  <2>5. CASE w # "end"
    <3>1. UNCHANGED busy /\ queue' \in Seq(Users) /\ history' \in Nat
      <4>1. CASE Ask
        BY <4>1 DEF Ask
      <4>2. CASE Pop
        BY <4>2, Sequences DEF Pop
      <4>3. CASE \E ok \in BOOLEAN : Answer(ok)
        BY <4>3 DEF Answer
      <4> QED BY <2>3, <2>5, <4>1, <4>2, <4>3
    <3>2. NoneStranded'
      BY <2>2, <3>1 DEF NoneStranded
    <3> QED BY <1>a, <2>1, <2>3, <2>5, <3>1, <3>2, BeatStep
  <2> QED BY <2>4, <2>5
<1>6. CASE Record(b)
  <2>1. beat[b] = "waiting" /\ Finish(b)
        /\ UNCHANGED <<overrideVars, beatWork, sessionVars, user, stimuli, lapses>>
    BY <1>6 DEF Record
  <2> QED BY <1>a, <2>1, BeatAside DEF Finish
<1> QED BY <1>1, <1>2, <1>3, <1>4, <1>5, <1>6

-----------------------------------------------------------------------------
(* Restarts *)

\* What is registered at the start is what the file says.
LEMMA Reloaded ==
  ASSUME NEW s, \E known \in SUBSET Projects : s \in [known -> Override],
         \A p \in DOMAIN s : s[p].paused \/ s[p].changed,
         states' = s,
         paused' = [p \in Projects |-> p \in DOMAIN s /\ s[p].paused],
         changed' = [p \in Projects |-> p \in DOMAIN s /\ s[p].changed]
  PROVE  /\ paused' \in [Projects -> BOOLEAN] /\ changed' \in [Projects -> BOOLEAN]
         /\ states' = Snapshot'
<1>1. DOMAIN s \subseteq Projects /\ s \in [DOMAIN s -> Override]
  OBVIOUS
<1>2. \A p \in DOMAIN s : /\ s[p].paused \in BOOLEAN /\ s[p].changed \in BOOLEAN
                         /\ s[p] = [paused |-> s[p].paused, changed |-> s[p].changed]
  BY <1>1 DEF Override
<1>3. paused' \in [Projects -> BOOLEAN] /\ changed' \in [Projects -> BOOLEAN]
  BY <1>2
<1>4. {q \in Projects : paused'[q] \/ changed'[q]} = DOMAIN s
  BY <1>1
<1>5. \A p \in DOMAIN s : paused'[p] = s[p].paused /\ changed'[p] = s[p].changed
  BY <1>1, <1>2
<1>6. Snapshot' = [p \in DOMAIN s |-> [paused |-> paused'[p], changed |-> changed'[p]]]
  BY <1>4 DEF Snapshot
<1>7. s = [p \in DOMAIN s |-> [paused |-> paused'[p], changed |-> changed'[p]]]
  BY <1>1, <1>2, <1>5
<1> QED BY <1>3, <1>6, <1>7

LEMMA RestartInv ==
  ASSUME IInv, Restart
  PROVE  IInv'
<1> USE DEF IInv
<1>1. /\ job' = file /\ file' = file
      /\ entry' = {j \in Jobs : file[j] = "on"}
      /\ live' = [j \in Jobs |-> IF file[j] = "on" THEN 1 ELSE 0]
      /\ admin' = [a \in Admins |-> "idle"] /\ call' = [a \in Admins |-> NoCall]
      /\ wait' = [r \in Runs |-> IF wait[r] = "none" THEN "none" ELSE "done"]
      /\ work' = [r \in Runs |-> IF work[r] = "none" THEN "none" ELSE "end"]
      /\ UNCHANGED <<runJob, prev, answered, result, lastError>>
  BY DEF Restart, CronRestart
<1>2. /\ busy' = FALSE /\ queue' = <<>> /\ UNCHANGED history
      /\ user' = [m \in Users |-> IF user[m] = "idle" THEN "idle" ELSE "done"]
  BY DEF Restart
<1>3. /\ writing' = FALSE /\ unsaved' = FALSE /\ onlyIdle' \in IdleOnly /\ byTicker' = NoBeat
      /\ beat' = [b \in Beats |-> IF beat[b] = "none" THEN "none" ELSE "done"]
      /\ beatWork' = [b \in Beats |-> IF beat[b] = "none" THEN "none" ELSE "end"]
  BY DEF Restart, HeartbeatRestart
<1>4. lapses \subseteq lapses' /\ lapses' \subseteq {"probe", "overlap", "write", "torn"}
  <2>1. lapses' = lapses \/ lapses' = lapses \cup {"torn"}
    BY DEF Restart, HeartbeatRestart
  <2> QED BY <2>1, Typed
<1>5. stimuli' \in 0 .. MaxStimuli
  BY Typed, SessionAssumption DEF Restart, Stimulus
<1>6. SessionTypeOK'
  BY <1>2, <1>4, <1>5, Typed, Sequences DEF SessionTypeOK
<1>7. CronTypeOK'
  <2>1. call' \in [Admins -> Called]
    BY <1>1, CallFacts
  <2>2. /\ live' \in [Jobs -> Nat] /\ entry' \subseteq Jobs
        /\ admin' \in [Admins -> {"idle", "get", "schedule", "unschedule", "store", "begin"}]
    BY <1>1
  <2>3. /\ wait' \in [Runs -> Waits] /\ work' \in [Runs -> Works]
    BY <1>1 DEF Waits, Works
  <2> QED BY <1>1, <2>1, <2>2, <2>3, Typed DEF CronTypeOK, Called, Waits, Works
<1>8. Exclusive'
  <2>1. UserHolders' = {} /\ CronHolders' = {} /\ BeatHolders' = {}
    BY <1>1, <1>2, <1>3 DEF UserHolders, CronHolders, BeatHolders
  <2> QED BY <1>2, <2>1 DEF Exclusive, Sole
<1>9. Probed' /\ NoneStranded' /\ Serving' /\ Orderly'
  BY <1>1, <1>2, <1>3 DEF Probed, NoneStranded, Serving, Orderly
<1>10. Launched' /\ Returned'
  BY <1>1 DEF Launched, Returned
<1>11. OneEntry' /\ Scheduled'
  BY <1>1 DEF OneEntry, Scheduled, EnabledScheduled, Halfway
<1>12. HeartbeatTypeOK' /\ Overridden'
  <2>1. \E s : /\ \E known \in SUBSET Projects : s \in [known -> Override]
               /\ \A p \in DOMAIN s : s[p].paused \/ s[p].changed
               /\ states' = s
    <3>1. CASE states' = states
      BY <3>1 DEF TypeOK, HeartbeatTypeOK, Overridden
    <3>2. CASE states' = NoFile
      <4>1. NoFile \in [{} -> Override] /\ DOMAIN NoFile = {}
        BY DEF NoFile
      <4> QED BY <3>2, <4>1
    <3> QED BY <3>1, <3>2 DEF Restart, HeartbeatRestart
  <2>2. PICK s : /\ \E known \in SUBSET Projects : s \in [known -> Override]
                 /\ \A p \in DOMAIN s : s[p].paused \/ s[p].changed
                 /\ states' = s
    BY <2>1
  <2>3. /\ paused' = [p \in Projects |-> p \in DOMAIN s /\ s[p].paused]
        /\ changed' = [p \in Projects |-> p \in DOMAIN s /\ s[p].changed]
    BY <2>2 DEF Restart, HeartbeatRestart
  <2>4. /\ paused' \in [Projects -> BOOLEAN] /\ changed' \in [Projects -> BOOLEAN]
        /\ states' = Snapshot'
    BY <2>2, <2>3, Reloaded
  <2>5. HeartbeatTypeOK'
    <3>1. /\ beat' \in [Beats -> {"none", "due", "probing", "waiting", "done"}]
          /\ beatWork' \in [Beats -> {"none", "start", "begin", "asked", "drain", "end"}]
      BY <1>3
    <3> QED BY <1>3, <2>2, <2>4, <3>1 DEF HeartbeatTypeOK
  <2>6. Overridden'
    BY <2>2, <2>4 DEF Overridden
  <2> QED BY <2>5, <2>6
<1> QED BY <1>6, <1>7, <1>8, <1>9, <1>10, <1>11, <1>12 DEF TypeOK

-----------------------------------------------------------------------------
(* The theorems *)

LEMMA NextInv == IInv /\ [Next]_vars => IInv'
<1> SUFFICES ASSUME IInv, [Next]_vars PROVE IInv'
  OBVIOUS
<1>1. CASE UserStep /\ UNCHANGED <<cronVars, heartbeatVars>>
  BY <1>1, UserInv
<1>2. CASE CronStep /\ UNCHANGED heartbeatVars
  BY <1>2, AdminInv, RunInv DEF CronStep
<1>3. CASE HeartbeatStep /\ UNCHANGED cronVars
  BY <1>3, EditInv, BeatInv DEF HeartbeatStep
<1>4. CASE Restart
  BY <1>4, RestartInv
<1>5. CASE UNCHANGED vars
  <2> USE DEF IInv
  <2>1. UNCHANGED <<busy, queue, history, user, stimuli, lapses, cronVars, heartbeatVars>>
    BY <1>5 DEF vars, sessionVars
  <2>2. /\ CronTypeOK' /\ Launched' /\ Returned'
        /\ OneEntry' /\ Serving' /\ Orderly' /\ Scheduled'
    BY <2>1, BeatKeeps
  <2>3. UNCHANGED <<work, beat, beatWork, paused, changed, states, writing, unsaved>>
    BY <2>1 DEF cronVars, runVars, heartbeatVars, overrideVars, beatVars
  <2>4. Exclusive' /\ NoneStranded' /\ Probed' /\ Overridden'
    BY <2>1, <2>3, NoLock, SessionFrame, OverridesFrame DEF Probed
  <2>5. SessionTypeOK' /\ HeartbeatTypeOK'
    BY <2>1, HeartbeatTypeFrame, Typed DEF TypeOK, SessionTypeOK
  <2> QED BY <2>2, <2>4, <2>5 DEF TypeOK
<1> QED BY <1>1, <1>2, <1>3, <1>4, <1>5 DEF Next

LEMMA Inductive == Spec => []IInv
BY InitInv, NextInv, PTL DEF Spec

LEMMA SoleCounts ==
  ASSUME NEW U, NEW C, NEW B, NEW flag \in BOOLEAN, Sole(U, C, B, flag)
  PROVE  Cardinality(U) + Cardinality(C) + Cardinality(B) = IF flag THEN 1 ELSE 0
<1>1. \A S : (\A x, y \in S : x = y) /\ S # {} => Cardinality(S) = 1
  <2> SUFFICES ASSUME NEW S, \A x, y \in S : x = y, S # {} PROVE Cardinality(S) = 1
    OBVIOUS
  <2>1. PICK x \in S : TRUE
    OBVIOUS
  <2>2. S = {x}
    BY <2>1
  <2> QED BY <2>2, FS_Singleton
<1>2. Cardinality({}) = 0
  BY FS_EmptySet
<1>3. CASE U # {}
  <2>1. C = {} /\ B = {} /\ flag /\ Cardinality(U) = 1
    BY <1>1, <1>3 DEF Sole
  <2> QED BY <1>2, <2>1
<1>4. CASE U = {} /\ C # {}
  <2>1. B = {} /\ flag /\ Cardinality(C) = 1
    BY <1>1, <1>4 DEF Sole
  <2> QED BY <1>2, <1>4, <2>1
<1>5. CASE U = {} /\ C = {} /\ B # {}
  <2>1. flag /\ Cardinality(B) = 1
    BY <1>1, <1>5 DEF Sole
  <2> QED BY <1>2, <1>5, <2>1
<1>6. CASE U = {} /\ C = {} /\ B = {}
  <2>1. ~flag
    BY <1>6 DEF Sole
  <2> QED BY <1>2, <1>6, <2>1
<1> QED BY <1>3, <1>4, <1>5, <1>6

\* Every reachable state is well formed.
THEOREM AutomationTypeCorrect == Spec => []TypeOK
<1>1. IInv => TypeOK
  BY DEF IInv
<1> QED BY <1>1, Inductive, PTL

\* Whoever starts turns, one goroutine has the Session at a time, and the flag is
\* set exactly while one does: of messages, runs whose scheduler no longer waits
\* for them, and heartbeats that only try the lock.
THEOREM AutomationOneHolder == Spec => []OneHolder
<1>1. IInv => OneHolder
  BY SoleCounts, Typed DEF IInv, Exclusive, OneHolder
<1> QED BY <1>1, Inductive, PTL

\* A queued message has a turn or a handler that will look at the queue, unless a
\* heartbeat has tried the lock while the message was queued.
THEOREM AutomationNoneStranded == Spec => []NoneStranded
<1>1. IInv => NoneStranded
  BY DEF IInv
<1> QED BY <1>1, Inductive, PTL

\* However commands overlap, no job has two entries in the cron library.
THEOREM AutomationOneEntry == Spec => []OneEntry
<1>1. IInv => OneEntry
  BY DEF IInv
<1> QED BY <1>1, Inductive, PTL

\* When no command runs, and none has overlapped another or failed to save, the
\* jobs that are scheduled are those that are enabled.
THEOREM AutomationEnabledScheduled == Spec => []EnabledScheduled
<1>1. IInv => EnabledScheduled
  BY DEF IInv, Scheduled, EnabledScheduled, Clean
<1> QED BY <1>1, Inductive, PTL

\* A restart outside a write of the file gives every project the pause and the
\* interval it had, if the last write has not failed.
THEOREM AutomationOverridesKept == Spec => OverridesKept
<1>1. ASSUME IInv, Restart, ~writing, ~unsaved PROVE paused' = paused /\ changed' = changed
  <2>1. states = Snapshot /\ TypeOK
    BY <1>1 DEF IInv, Overridden
  <2>2. /\ states' = states
        /\ paused' = [p \in Projects |-> p \in DOMAIN states' /\ states'[p].paused]
        /\ changed' = [p \in Projects |-> p \in DOMAIN states' /\ states'[p].changed]
    BY <1>1 DEF Restart, HeartbeatRestart
  <2>3. /\ DOMAIN Snapshot = {q \in Projects : paused[q] \/ changed[q]}
        /\ \A p \in DOMAIN Snapshot :
             Snapshot[p].paused = paused[p] /\ Snapshot[p].changed = changed[p]
    BY DEF Snapshot
  <2>4. \A p \in Projects : paused'[p] = paused[p] /\ changed'[p] = changed[p]
    BY <2>1, <2>2, <2>3, Typed
  <2> QED BY <2>1, <2>2, <2>4, Typed
<1>2. IInv /\ [Next]_vars =>
        [Restart /\ ~writing /\ ~unsaved => paused' = paused /\ changed' = changed]_vars
  BY <1>1
<1> QED BY <1>2, Inductive, PTL DEF Spec, OverridesKept

=============================================================================
