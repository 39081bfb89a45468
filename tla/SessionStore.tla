---------------------------- MODULE SessionStore ----------------------------
(***************************************************************************)
(* SessionManager (core/session.go): the Sessions of every user, which of  *)
(* them is active, and the JSON file they are saved to and loaded from.    *)
(*                                                                         *)
(* Fields of a Session change under its own mutex, at any time.  What the  *)
(* manager keeps changes under the manager's lock, and every such change   *)
(* saves the whole store before the lock is given back; Save only takes    *)
(* the lock shared, so that Saves overlap.  A save copies the Sessions,    *)
(* settles the legacy flag, and replaces the file, in three steps.  The    *)
(* process may crash at any point.                                         *)
(* Display names (sessionNames, userMeta) and the history are left out.    *)
(***************************************************************************)
EXTENDS Naturals, FiniteSets

CONSTANTS
  Users,       \* user keys
  AgentIds,    \* agent session ids
  Savers,      \* goroutines that call Save
  Managers,    \* goroutines that call the other operations
  NoProc,      \* no goroutine
  NoId,        \* the empty agent session id
  Continue,    \* the sentinel that old files may hold as an id
  WriteFaults, \* whether writing the file may fail
  MaxSessions, \* bound on Sessions ever created
  MaxUses,     \* bound on turns and other steps on one Session
  MaxCrashes   \* bound on crashes

ASSUME SessionStoreAssumption ==
  /\ NoId \notin AgentIds /\ Continue \notin AgentIds /\ NoId # Continue
  /\ NoProc \notin Savers \cup Managers
  /\ WriteFaults \in BOOLEAN
  /\ MaxSessions \in Nat /\ MaxUses \in Nat /\ MaxCrashes \in Nat

Procs == Savers \cup Managers
Ids == 1 .. MaxSessions    \* Session ids: "s1", "s2", ...

\* A Session: the agent's id, earlier ids, whether LastUserActivity is set, and
\* whether an automated turn set UpdatedAt last.
Session ==
  [agent : AgentIds \cup {NoId, Continue}, past : SUBSET AgentIds,
   activity : BOOLEAN, automated : BOOLEAN]

Tables == UNION {[D -> Session] : D \in SUBSET Ids}

\* sessionSnapshot; file is FALSE as long as there is none.
Snapshot ==
  [file : BOOLEAN, sessions : Tables, active : [Users -> Ids \cup {0}],
   members : [Users -> SUBSET Ids], counter : Ids \cup {0},
   tracking : BOOLEAN, legacy : BOOLEAN, version : {0, 1}]

VARIABLES
  up,        \* the process runs
  sessions,  \* sessions by id
  active,    \* activeSession; 0 when the user has none
  members,   \* userSessions; ids grow, so a set keeps their order
  counter,   \* the last id given out
  legacy,    \* legacyData
  disk,      \* the file
  writer,    \* the goroutine that holds the manager's lock exclusively
  step,      \* where each goroutine's save is: "idle", "copied", or, with
             \* the snapshot made, "legacy" or "migrated" for its flag
  copy,      \* each save's copy of the Sessions
  made,      \* the Session a goroutine is creating, or 0
  uses,      \* steps on one Session so far
  crashes,   \* crashes so far
  issued,    \* the ids that reached the file
  seen,      \* the Sessions whose use by a user was followed by a save
  old,       \* the Sessions found in a file of an earlier version
  crossed,   \* the goroutines whose save overlaps, or did, another one
  stale,     \* the file was last written by such a save
  kept       \* the agent ids of each of its Sessions that reached the file

table == <<sessions, active, members, counter>>
saves == <<writer, step, copy, made>>
ghostsOfFile == <<issued, seen, old, stale, kept>>
ghosts == <<ghostsOfFile, crossed>>
vars == <<up, table, legacy, disk, saves, uses, crashes, ghosts>>

EmptyTable == [i \in {} |-> 0]

\* The shape of the state; the sentinel of old files never gets into memory.
TypeOK ==
  /\ up \in BOOLEAN
  /\ sessions \in Tables
  /\ \A i \in DOMAIN sessions : sessions[i].agent # Continue
  /\ active \in [Users -> Ids \cup {0}]
  /\ members \in [Users -> SUBSET Ids]
  /\ counter \in Ids \cup {0}
  /\ legacy \in BOOLEAN
  /\ disk \in Snapshot
  /\ writer \in Procs \cup {NoProc}
  /\ step \in [Procs -> {"idle", "copied", "legacy", "migrated"}]
  /\ copy \in [Procs -> Tables]
  /\ made \in [Procs -> Ids \cup {0}]
  /\ uses \in 0 .. MaxUses
  /\ crashes \in 0 .. MaxCrashes
  /\ issued \subseteq Ids
  /\ seen \subseteq Ids
  /\ old \subseteq Ids
  /\ crossed \subseteq Procs
  /\ stale \in BOOLEAN
  /\ kept \in [Ids -> SUBSET AgentIds]

-----------------------------------------------------------------------------
(* Initial states: the process is down; there is no file, or one that an     *)
(* earlier version wrote, before legacyData was saved.                       *)

NoFile ==
  [file |-> FALSE, sessions |-> EmptyTable, active |-> [u \in Users |-> 0],
   members |-> [u \in Users |-> {}], counter |-> 0,
   tracking |-> FALSE, legacy |-> FALSE, version |-> 0]

\* One Session of one user, that may have lost its agent id.  Files that hold
\* the sentinel are older than the tracking of past ids.
OldFile(u, a, tracked) ==
  [NoFile EXCEPT
     !.file = TRUE,
     !.sessions = [i \in {1} |-> [agent |-> a, past |-> {}, activity |-> FALSE,
                                  automated |-> FALSE]],
     !.active = [NoFile.active EXCEPT ![u] = 1],
     !.members = [NoFile.members EXCEPT ![u] = {1}],
     !.counter = 1,
     !.tracking = tracked]

\* The agent ids a Session answers for, as KnownAgentSessionIDs collects them.
Tracked(s) == (s.past \cup {s.agent}) \cap AgentIds

\* The ids of the Sessions of a file.
IdsIn(t) == [i \in Ids |-> IF i \in DOMAIN t THEN Tracked(t[i]) ELSE {}]

Init ==
  /\ up = FALSE
  /\ sessions = EmptyTable
  /\ active = [u \in Users |-> 0]
  /\ members = [u \in Users |-> {}]
  /\ counter = 0 /\ legacy = FALSE
  /\ \/ disk = NoFile
     \/ /\ 1 \in Ids
        /\ \E u \in Users, a \in AgentIds \cup {NoId, Continue}, t \in BOOLEAN :
             /\ t => a # Continue
             /\ disk = OldFile(u, a, t)
  /\ writer = NoProc
  /\ step = [p \in Procs |-> "idle"]
  /\ copy = [p \in Procs |-> EmptyTable]
  /\ made = [p \in Procs |-> 0]
  /\ uses = 0
  /\ crashes = 0
  /\ issued = DOMAIN disk.sessions
  /\ seen = {}
  /\ old = DOMAIN disk.sessions
  /\ crossed = {} /\ stale = FALSE
  /\ kept = IdsIn(disk.sessions)

-----------------------------------------------------------------------------
(* Sessions *)

RecordPast(s) ==
  IF s.agent \in AgentIds THEN [s EXCEPT !.past = @ \cup {s.agent}] ELSE s

\* Mutant of WithAgent: the id that is replaced is forgotten.
WithAgentOnly(s, a) == [s EXCEPT !.agent = a]

\* SetAgentSessionID and SetAgentInfo
WithAgent(s, a) ==
  [(IF s.agent # a THEN RecordPast(s) ELSE s) EXCEPT !.agent = a]

Put(i, s) == sessions' = [sessions EXCEPT ![i] = s]

OnlySession ==
  UNCHANGED <<up, active, members, counter, legacy, disk, saves, crashes, ghosts>>

Use == uses < MaxUses /\ uses' = uses + 1

\* An id is stored, or cleared (/new, /stop, a failed resume).
SetAgentSessionID(i) ==
  /\ up
  /\ \E a \in AgentIds \cup {NoId} : Put(i, WithAgent(sessions[i], a))
  /\ Use /\ OnlySession

CompareAndSetAgentSessionID(i) ==
  /\ up
  /\ sessions[i].agent \in {NoId, Continue}
  /\ \E a \in AgentIds : Put(i, [sessions[i] EXCEPT !.agent = a])
  /\ Use /\ OnlySession

\* A user's turn: TouchUserActivity, then Unlock.
UserTurn(i) ==
  /\ up
  /\ Put(i, [sessions[i] EXCEPT !.activity = TRUE, !.automated = FALSE])
  /\ Use /\ OnlySession

\* The Unlock of a heartbeat or of any other turn without a user.
AutomatedTurn(i) ==
  /\ up
  /\ Put(i, [sessions[i] EXCEPT !.automated = TRUE])
  /\ Use /\ OnlySession

-----------------------------------------------------------------------------
(* saveLocked, in three steps *)

\* The other goroutines that are saving.
Others(p) == {q \in Procs \ {p} : step[q] # "idle"}

\* p holds the manager's lock, exclusively or shared, and copies the Sessions.
Copying(p) ==
  /\ step' = [step EXCEPT ![p] = "copied"]
  /\ copy' = [copy EXCEPT ![p] = sessions']
  /\ crossed' = IF Others(p) = {} THEN crossed
                 ELSE crossed \cup Others(p) \cup {p}

AllTracked(t) == \A i \in DOMAIN t : Tracked(t[i]) # {}

\* Mutant of StillLegacy: one tracked Session is enough to end the migration.
LegacyIfNone(t) == legacy /\ \A i \in DOMAIN t : Tracked(t[i]) = {}

\* The migration of old data is over once every Session has a tracked id.
StillLegacy(t) == legacy /\ ~AllTracked(t)

\* The legacy flag is settled, without a lock among the Saves, and the snapshot
\* is made.
Settle(p) ==
  /\ step[p] = "copied"
  /\ legacy' = StillLegacy(copy[p])
  /\ step' = [step EXCEPT ![p] = IF legacy' THEN "legacy" ELSE "migrated"]
  /\ UNCHANGED <<up, table, disk, writer, copy, made, uses, crashes, ghosts>>

\* What is written of a Session: everything but LastUserActivity.
Stored(t) == [i \in DOMAIN t |-> [t[i] EXCEPT !.activity = FALSE]]

\* The file is replaced as a whole (AtomicWriteFile) ...
Replace(p) ==
  /\ disk' = [file |-> TRUE, sessions |-> Stored(copy[p]), active |-> active,
              members |-> members, counter |-> counter, tracking |-> TRUE,
              legacy |-> step[p] = "legacy", version |-> 1]
  /\ issued' = issued \cup DOMAIN copy[p]
  /\ seen' = seen \cup {i \in DOMAIN copy[p] : copy[p][i].activity}
  /\ stale' = (p \in crossed)
  /\ kept' = [i \in Ids |-> IF i \in DOMAIN copy[p]
                              THEN kept[i] \cup Tracked(copy[p][i]) ELSE {}]

\* ... or an error is logged and the old file stays; then the operation is over.
Write(p) ==
  /\ step[p] \in {"legacy", "migrated"}
  /\ \/ Replace(p)
     \/ WriteFaults /\ UNCHANGED <<disk, issued, seen, stale, kept>>
  /\ step' = [step EXCEPT ![p] = "idle"]
  /\ copy' = [copy EXCEPT ![p] = EmptyTable]
  /\ made' = [made EXCEPT ![p] = 0]
  /\ crossed' = crossed \ {p}
  /\ writer' = IF writer = p THEN NoProc ELSE writer
  /\ UNCHANGED <<up, table, legacy, uses, crashes, old>>

\* Save, called from anywhere, shares the lock with other Saves.
Save(p) ==
  /\ up /\ step[p] = "idle" /\ writer = NoProc
  /\ UNCHANGED <<table, writer, made>>
  /\ Copying(p)
  /\ UNCHANGED <<up, legacy, disk, uses, crashes, ghostsOfFile>>

-----------------------------------------------------------------------------
(* Operations of the manager: exclusive lock, change, saveLocked *)

\* Mutant of Free: Save does not take the lock.
FreeOfWriters == up /\ writer = NoProc

Free == up /\ writer = NoProc /\ \A q \in Procs : step[q] = "idle"

\* p takes the lock for an operation that ends with a save.
Lock(p) ==
  /\ Free
  /\ writer' = p
  /\ Copying(p)
  /\ UNCHANGED <<up, legacy, disk, uses, crashes, ghostsOfFile>>

NextId == counter + 1

\* A new Session for u.
Add(p, u, s) ==
  /\ NextId \in Ids
  /\ counter' = NextId
  /\ sessions' = [i \in DOMAIN sessions \cup {NextId} |->
                    IF i = NextId THEN s ELSE sessions[i]]
  /\ members' = [members EXCEPT ![u] = @ \cup {NextId}]
  /\ made' = [made EXCEPT ![p] = NextId]

Fresh(a) == [agent |-> a, past |-> {}, activity |-> FALSE,
            automated |-> FALSE]

\* createLocked: the new Session becomes the active one.
Create(p, u, s) == Add(p, u, s) /\ active' = [active EXCEPT ![u] = NextId]

Activate(u, i) ==
  /\ active' = [active EXCEPT ![u] = i]
  /\ UNCHANGED <<sessions, members, counter, made>>

\* A hit changes nothing and is not a step.
GetOrCreateActive(p, u) ==
  /\ active[u] \notin DOMAIN sessions
  /\ Create(p, u, Fresh(NoId))
  /\ Lock(p)

NewSession(p, u) == Create(p, u, Fresh(NoId)) /\ Lock(p)

NewSideSession(p, u) ==
  Add(p, u, Fresh(NoId)) /\ UNCHANGED active /\ Lock(p)

\* By id or by name: one of the user's Sessions.
SwitchSession(p, u) ==
  /\ \E i \in members[u] \cap DOMAIN sessions : Activate(u, i)
  /\ Lock(p)

SwitchToAgentSession(p, u, a) ==
  LET hits == {i \in members[u] \cap DOMAIN sessions : sessions[i].agent = a}
  IN
  /\ \/ \E i \in hits : (\A j \in hits : i <= j) /\ Activate(u, i)
     \/ hits = {} /\ Create(p, u, Fresh(a))
  /\ Lock(p)

\* Mutant of Remove: the user's list keeps the id.
RemoveListed(D) ==
  /\ D # {}
  /\ sessions' = [i \in DOMAIN sessions \ D |-> sessions[i]]
  /\ active' = [u \in Users |-> IF active[u] \in D THEN 0 ELSE active[u]]
  /\ UNCHANGED <<members, counter, made>>

\* deleteByIDLocked
Remove(D) ==
  /\ D # {}
  /\ sessions' = [i \in DOMAIN sessions \ D |-> sessions[i]]
  /\ members' = [u \in Users |-> members[u] \ D]
  /\ active' = [u \in Users |-> IF active[u] \in D THEN 0 ELSE active[u]]
  /\ UNCHANGED <<counter, made>>

DeleteByID(p) == (\E i \in DOMAIN sessions : Remove({i})) /\ Lock(p)

DeleteByAgentSessionID(p, a) ==
  /\ Remove({i \in DOMAIN sessions : sessions[i].agent = a})
  /\ Lock(p)

\* The Sessions of another agent type forget their id; which they are is left
\* open, as AgentType is not modelled.
InvalidateForAgent(p) ==
  /\ \E D \in SUBSET {i \in DOMAIN sessions : sessions[i].agent # NoId} :
       /\ D # {}
       /\ sessions' = [i \in DOMAIN sessions |->
            IF i \in D THEN WithAgent(sessions[i], NoId) ELSE sessions[i]]
  /\ UNCHANGED <<active, members, counter, made>>
  /\ Lock(p)

-----------------------------------------------------------------------------
(* Crash and load *)

\* What a stale file lacks is lost with the memory: the histories begin again
\* with what it holds.
LosesStale ==
  /\ old' = {}
  /\ stale' = FALSE
  /\ kept' = IdsIn(disk.sessions)

Crash ==
  /\ up /\ crashes < MaxCrashes
  /\ up' = FALSE
  /\ crashes' = crashes + 1
  /\ sessions' = EmptyTable
  /\ active' = [u \in Users |-> 0]
  /\ members' = [u \in Users |-> {}]
  /\ counter' = 0 /\ legacy' = FALSE
  /\ writer' = NoProc
  /\ step' = [p \in Procs |-> "idle"]
  /\ copy' = [p \in Procs |-> EmptyTable]
  /\ made' = [p \in Procs |-> 0]
  /\ crossed' = {}
  /\ IF stale THEN LosesStale ELSE UNCHANGED <<old, stale, kept>>
  /\ UNCHANGED <<disk, uses, issued, seen>>

\* Mutant of Strip: the sentinel is taken for an id.
KeepSentinel(s) == s

\* stripContinueSessionSentinel
Strip(s) == IF s.agent = Continue THEN [s EXCEPT !.agent = NoId] ELSE s

\* Mutant of LastId: the ids in use are counted.
CountedId == Cardinality(DOMAIN disk.sessions)
LastId == disk.counter

\* NewSessionManager, load: a file of an earlier version is legacy data when
\* past ids were not tracked yet or a Session has lost its id.
Load ==
  /\ ~up
  /\ up' = TRUE
  /\ sessions' = [i \in DOMAIN disk.sessions |-> Strip(disk.sessions[i])]
  /\ active' = disk.active
  /\ members' = disk.members
  /\ counter' = LastId
  /\ legacy' = IF ~disk.file THEN FALSE
               ELSE IF disk.version >= 1 THEN disk.legacy
               ELSE \/ ~disk.tracking
                    \/ \E i \in DOMAIN disk.sessions :
                         /\ disk.sessions[i].agent = NoId
                         /\ disk.sessions[i].past = {}
  /\ UNCHANGED <<disk, saves, uses, crashes, ghosts>>

SessionStep(i) ==
  \/ SetAgentSessionID(i) \/ CompareAndSetAgentSessionID(i)
  \/ UserTurn(i) \/ AutomatedTurn(i)

Operation(p, u) ==
  \/ GetOrCreateActive(p, u) \/ NewSession(p, u) \/ NewSideSession(p, u)
  \/ SwitchSession(p, u)
  \/ \E a \in AgentIds : SwitchToAgentSession(p, u, a)

Change(p) ==
  \/ \E u \in Users : Operation(p, u)
  \/ DeleteByID(p)
  \/ \E a \in AgentIds : DeleteByAgentSessionID(p, a)
  \/ InvalidateForAgent(p)

Next ==
  \/ \E i \in DOMAIN sessions : SessionStep(i)
  \/ \E p \in Savers : Save(p)
  \/ \E p \in Managers : Change(p)
  \/ \E p \in Procs : Settle(p) \/ Write(p)
  \/ Crash \/ Load

Spec == Init /\ [][Next]_vars

-----------------------------------------------------------------------------
(* Properties *)

\* Every Session belongs to exactly one user, and a user's active Session is
\* one of the user's own.
Owned(t, a, m, n) ==
  /\ DOMAIN t = UNION {m[u] : u \in Users}
  /\ \A u, v \in Users : u # v => m[u] \cap m[v] = {}
  /\ \A u \in Users : a[u] \in m[u] \cup {0}
  /\ \A i \in DOMAIN t : i <= n

\* The three maps of the manager agree, in memory and in the file, whatever
\* operations and saves overlap and wherever the process crashes
\* (createLocked, deleteByIDLocked, SwitchSession, load).
OwnedByOne ==
  /\ Owned(sessions, active, members, counter)
  /\ Owned(disk.sessions, disk.active, disk.members, disk.counter)

\* The id of a Session that reached the file is never given out again, not
\* even after the Session was deleted and the process restarted (nextID).
FreshIds == \A p \in Procs : made[p] # 0 => made[p] \notin issued

\* A Session that was deleted from the file does not come back in it: no save
\* writes tables older than the ones on disk (Save takes the lock).
NoResurrection ==
  [][\A i \in issued \ DOMAIN disk.sessions : i \notin DOMAIN disk'.sessions]_vars

\* The file holds, as current or as past ids of a Session, all agent ids it ever
\* held of it, unless its last save overlapped another one; and the next that
\* overlaps none puts them back (recordPastAgentSessionID, its callers, Save).
KeptOnDisk ==
  ~stale => \A i \in DOMAIN disk.sessions :
              kept[i] \subseteq Tracked(disk.sessions[i])

\* As long as a Session of an old file has no tracked id, the legacy flag
\* stays on, in memory and in a file whose last save overlapped no other, so
\* that the Session is not filtered out (KnownAgentSessionIDs, saveLocked, load).
LegacySound ==
  /\ up /\ ~legacy =>
       \A i \in old \cap DOMAIN sessions : Tracked(sessions[i]) # {}
  /\ disk.version = 1 /\ ~disk.legacy /\ ~stale =>
       \A i \in old \cap DOMAIN disk.sessions : Tracked(disk.sessions[i]) # {}

\* Automated activity does not put off the idle reset of a Session that a user
\* has used, not even after a restart: maybeAutoResetSessionOnIdle measures
\* from LastUserActivity, or from UpdatedAt when that is not set.
IdleByUser ==
  \A i \in DOMAIN sessions \cap seen :
    sessions[i].activity \/ ~sessions[i].automated
=============================================================================
