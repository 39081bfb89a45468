------------------------- MODULE SessionStoreProofs -------------------------
(***************************************************************************)
(* Theorems about SessionStore, for any number of users, goroutines,       *)
(* Sessions and crashes: the state is well formed, the manager's tables    *)
(* agree in memory and on disk, ids are not given out twice, a deleted     *)
(* Session does not come back, and agent ids are kept.                     *)
(*                                                                         *)
(* The inductive invariant says what the manager's lock gives to a save:   *)
(* while a copy of the Sessions is waiting to be written, the tables it    *)
(* will be written with do not change.                                     *)
(*                                                                         *)
(* The memory answers for every id the file ever held.  So does the copy   *)
(* of a save that no other one overlaps, so that writing it loses no id,   *)
(* and forgets none while the legacy flag is off.                          *)
(***************************************************************************)
EXTENDS SessionStore, TLAPS

USE SessionStoreAssumption

\* A save that has copied the Sessions runs in a live process, and no Session
\* has been added or deleted since.
SaveInv ==
  \A p \in Procs : step[p] # "idle" =>
    up /\ DOMAIN copy[p] = DOMAIN sessions

\* Whoever holds the manager's lock exclusively is the only one that saves.
LockInv ==
  writer # NoProc =>
    \A p \in Procs : step[p] # "idle" <=> p = writer

\* A Session that is being created has the last id, which the file does not
\* know yet.
MadeInv ==
  \A p \in Procs : made[p] # 0 =>
    writer = p /\ made[p] = counter /\ disk.counter < counter

\* The counter never falls behind the file's, nor the file's behind an id.
CounterInv ==
  /\ up => disk.counter <= counter
  /\ \A i \in issued : i <= disk.counter

\* What is in memory is new or still in the file.
MemoryInv == up => issued \cap DOMAIN sessions \subseteq DOMAIN disk.sessions

StoreInv ==
  /\ TypeOK /\ OwnedByOne /\ SaveInv /\ LockInv /\ MadeInv /\ CounterInv
  /\ MemoryInv

-----------------------------------------------------------------------------
(* Types *)

LEMMA TableFacts ==
  ASSUME NEW t
  PROVE  t \in Tables <=> t \in [DOMAIN t -> Session] /\ DOMAIN t \subseteq Ids
<1>1. ASSUME t \in Tables
      PROVE  t \in [DOMAIN t -> Session] /\ DOMAIN t \subseteq Ids
  <2>1. PICK D \in SUBSET Ids : t \in [D -> Session]
    BY <1>1 DEF Tables
  <2> QED BY <2>1
<1>2. ASSUME t \in [DOMAIN t -> Session], DOMAIN t \subseteq Ids
      PROVE  t \in Tables
  BY <1>2 DEF Tables
<1> QED BY <1>1, <1>2

LEMMA EmptyType == EmptyTable \in Tables /\ DOMAIN EmptyTable = {}
BY TableFacts DEF EmptyTable

LEMMA FreshType ==
  ASSUME NEW a \in AgentIds \cup {NoId}
  PROVE  Fresh(a) \in Session /\ Fresh(a).agent # Continue
BY DEF Fresh, Session

LEMMA WithAgentType ==
  ASSUME NEW s \in Session, NEW a \in AgentIds \cup {NoId}
  PROVE  WithAgent(s, a) \in Session /\ WithAgent(s, a).agent # Continue
<1>1. RecordPast(s) \in Session
  BY DEF RecordPast, Session
<1> QED BY <1>1 DEF WithAgent, Session

\* Putting one Session in its place.
LEMMA PutType ==
  ASSUME TypeOK, NEW i \in DOMAIN sessions, NEW s \in Session,
         s.agent # Continue, Put(i, s)
  PROVE  /\ DOMAIN sessions' = DOMAIN sessions
         /\ sessions' \in Tables
         /\ \A j \in DOMAIN sessions' : sessions'[j].agent # Continue
<1>1. sessions \in [DOMAIN sessions -> Session] /\ DOMAIN sessions \subseteq Ids
  BY TableFacts DEF TypeOK
<1>2. sessions' \in [DOMAIN sessions -> Session]
  BY <1>1 DEF Put
<1>3. DOMAIN sessions' = DOMAIN sessions
  BY <1>2
<1>4. sessions' \in Tables
  BY <1>1, <1>2, <1>3, TableFacts
<1>5. \A j \in DOMAIN sessions' : sessions'[j].agent # Continue
  BY <1>1, <1>3 DEF Put, TypeOK
<1> QED BY <1>3, <1>4, <1>5

\* What a step on one Session does to the types.
LEMMA SessionStepType ==
  ASSUME TypeOK, NEW i \in DOMAIN sessions, SessionStep(i)
  PROVE  /\ DOMAIN sessions' = DOMAIN sessions
         /\ sessions' \in Tables
         /\ \A j \in DOMAIN sessions' : sessions'[j].agent # Continue
         /\ uses' \in 0 .. MaxUses
<1> DEFINE Goal ==
      /\ DOMAIN sessions' = DOMAIN sessions
      /\ sessions' \in Tables
      /\ \A j \in DOMAIN sessions' : sessions'[j].agent # Continue
<1>0. sessions[i] \in Session /\ sessions[i].agent # Continue
  BY TableFacts DEF TypeOK
<1>1. CASE SetAgentSessionID(i)
  <2>1. PICK a \in AgentIds \cup {NoId} : Put(i, WithAgent(sessions[i], a))
    BY <1>1 DEF SetAgentSessionID
  <2>2. Goal BY <1>0, <2>1, WithAgentType, PutType
  <2> QED BY <1>1, <2>2 DEF SetAgentSessionID, Use, TypeOK
<1>2. CASE CompareAndSetAgentSessionID(i)
  <2>1. PICK a \in AgentIds : Put(i, [sessions[i] EXCEPT !.agent = a])
    BY <1>2 DEF CompareAndSetAgentSessionID
  <2>2. /\ [sessions[i] EXCEPT !.agent = a] \in Session
        /\ [sessions[i] EXCEPT !.agent = a].agent # Continue
    BY <1>0 DEF Session
  <2>3. Goal BY <2>1, <2>2, PutType
  <2> QED BY <1>2, <2>3 DEF CompareAndSetAgentSessionID, Use, TypeOK
<1>3. CASE UserTurn(i)
  <2> DEFINE s == [sessions[i] EXCEPT !.activity = TRUE, !.automated = FALSE]
  <2>1. s \in Session /\ s.agent # Continue
    BY <1>0 DEF Session
  <2>2. Put(i, s) BY <1>3 DEF UserTurn
  <2>3. Goal BY <2>1, <2>2, PutType
  <2> QED BY <1>3, <2>3 DEF UserTurn, Use, TypeOK
<1>4. CASE AutomatedTurn(i)
  <2> DEFINE s == [sessions[i] EXCEPT !.automated = TRUE]
  <2>1. s \in Session /\ s.agent # Continue
    BY <1>0 DEF Session
  <2>2. Put(i, s) BY <1>4 DEF AutomatedTurn
  <2>3. Goal BY <2>1, <2>2, PutType
  <2> QED BY <1>4, <2>3 DEF AutomatedTurn, Use, TypeOK
<1> QED BY <1>1, <1>2, <1>3, <1>4 DEF SessionStep

-----------------------------------------------------------------------------
(* The operations of the manager *)

\* The new tables are typed.
TypedTables ==
  /\ sessions' \in Tables
  /\ \A j \in DOMAIN sessions' : sessions'[j].agent # Continue
  /\ active' \in [Users -> Ids \cup {0}]
  /\ members' \in [Users -> SUBSET Ids]
  /\ counter' \in Ids \cup {0}
  /\ made' \in [Procs -> Ids \cup {0}]

\* No Session is added, or the next one is.
AtMostOneNew(p) ==
  \/ /\ DOMAIN sessions' \subseteq DOMAIN sessions
     /\ counter' = counter /\ made' = made
  \/ /\ DOMAIN sessions' = DOMAIN sessions \cup {counter'}
     /\ counter' = counter + 1 /\ made' = [made EXCEPT ![p] = counter']

\* What every operation does to the tables.
Sound(p) ==
  TypedTables /\ AtMostOneNew(p) /\ Owned(sessions', active', members', counter')

LEMMA AddFacts ==
  ASSUME TypeOK, OwnedByOne, NEW p \in Procs, NEW u \in Users,
         NEW s \in Session, s.agent # Continue, Add(p, u, s),
         active' \in [Users -> Ids \cup {0}],
         active' = active \/ active' = [active EXCEPT ![u] = NextId]
  PROVE  Sound(p)
<1>1. sessions \in [DOMAIN sessions -> Session] /\ DOMAIN sessions \subseteq Ids
  BY TableFacts DEF TypeOK
<1>2. counter \in Nat /\ NextId \in Ids /\ counter' = NextId /\ NextId = counter + 1
  BY DEF Add, NextId, TypeOK, Ids
<1>3. /\ DOMAIN sessions' = DOMAIN sessions \cup {NextId}
      /\ \A i \in DOMAIN sessions' :
           sessions'[i] = IF i = NextId THEN s ELSE sessions[i]
      /\ sessions' \in [DOMAIN sessions \cup {NextId} -> Session]
  BY <1>1 DEF Add
<1>4. sessions' \in Tables
  BY <1>1, <1>2, <1>3, TableFacts
<1>5. \A j \in DOMAIN sessions' : sessions'[j].agent # Continue
  BY <1>3 DEF TypeOK
<1>6. /\ members' = [members EXCEPT ![u] = @ \cup {NextId}]
      /\ members' \in [Users -> SUBSET Ids]
  BY <1>2 DEF Add, TypeOK
<1>7. made' \in [Procs -> Ids \cup {0}]
  BY <1>2 DEF Add, TypeOK
<1>8. TypedTables
  BY <1>2, <1>4, <1>5, <1>6, <1>7 DEF TypedTables, Add
<1>9. AtMostOneNew(p)
  BY <1>2, <1>3 DEF AtMostOneNew, Add
<1>10. Owned(sessions', active', members', counter')
  <2>1. \A i \in DOMAIN sessions : i <= counter
    BY DEF OwnedByOne, Owned
  <2>2. /\ DOMAIN sessions = UNION {members[v] : v \in Users}
        /\ members \in [Users -> SUBSET Ids] /\ active \in [Users -> Ids \cup {0}]
    BY DEF OwnedByOne, Owned, TypeOK
  <2>3. NextId \notin DOMAIN sessions
    BY <1>1, <1>2, <2>1 DEF Ids
  <2>4. \A v \in Users : members'[v] = IF v = u THEN members[v] \cup {NextId}
                                               ELSE members[v]
    BY <1>6, <2>2
  <2>5. DOMAIN sessions' = UNION {members'[v] : v \in Users}
    <3>1. \A x : x \in DOMAIN sessions <=> \E v \in Users : x \in members[v]
      BY <2>2
    <3>2. \A x : x \in DOMAIN sessions' <=> \E v \in Users : x \in members'[v]
      BY <1>3, <2>4, <3>1
    <3>3. \A x : x \in UNION {members'[v] : v \in Users}
                  <=> \E v \in Users : x \in members'[v]
      OBVIOUS
    <3> QED BY <3>2, <3>3, Zenon
  <2>6. \A v, w \in Users : v # w => members'[v] \cap members'[w] = {}
    <3>1. \A v \in Users : NextId \notin members[v]
      BY <2>2, <2>3
    <3>2. \A v, w \in Users : v # w => members[v] \cap members[w] = {}
      BY DEF OwnedByOne, Owned
    <3> QED BY <2>4, <3>1, <3>2, ZenonT(60)
  <2>7. \A v \in Users : active'[v] \in members'[v] \cup {0}
    BY <2>2, <2>4 DEF OwnedByOne, Owned
  <2>8. \A i \in DOMAIN sessions' : i <= counter'
    BY <1>1, <1>2, <1>3, <2>1 DEF Ids
  <2> QED BY <2>5, <2>6, <2>7, <2>8 DEF Owned
<1> QED BY <1>8, <1>9, <1>10 DEF Sound

LEMMA CreateFacts ==
  ASSUME TypeOK, OwnedByOne, NEW p \in Procs, NEW u \in Users,
         NEW a \in AgentIds \cup {NoId}, Create(p, u, Fresh(a))
  PROVE  Sound(p)
<1>1. active' = [active EXCEPT ![u] = NextId] /\ NextId \in Ids
  BY DEF Create, Add
<1>2. active' \in [Users -> Ids \cup {0}]
  BY <1>1 DEF TypeOK
<1> QED BY <1>1, <1>2, FreshType, AddFacts DEF Create

LEMMA ActivateFacts ==
  ASSUME TypeOK, OwnedByOne, NEW p \in Procs, NEW u \in Users,
         NEW i \in members[u], Activate(u, i)
  PROVE  Sound(p)
<1>1. /\ members \in [Users -> SUBSET Ids]
      /\ active' = [active EXCEPT ![u] = i]
      /\ active' \in [Users -> Ids \cup {0}]
  BY DEF Activate, TypeOK
<1>2. TypedTables /\ AtMostOneNew(p)
  BY <1>1 DEF TypedTables, AtMostOneNew, Activate, TypeOK
<1>3. \A v \in Users : active'[v] \in members[v] \cup {0}
  BY <1>1 DEF OwnedByOne, Owned, TypeOK
<1>4. Owned(sessions', active', members', counter')
  BY <1>3 DEF OwnedByOne, Owned, Activate
<1> QED BY <1>2, <1>4 DEF Sound

LEMMA RemoveFacts ==
  ASSUME TypeOK, OwnedByOne, NEW p \in Procs, NEW D, Remove(D)
  PROVE  Sound(p)
<1>1. sessions \in [DOMAIN sessions -> Session] /\ DOMAIN sessions \subseteq Ids
  BY TableFacts DEF TypeOK
<1>2. /\ DOMAIN sessions' = DOMAIN sessions \ D
      /\ sessions' \in [DOMAIN sessions \ D -> Session]
      /\ \A j \in DOMAIN sessions' : sessions'[j] = sessions[j]
  BY <1>1 DEF Remove
<1>3. sessions' \in Tables
  BY <1>1, <1>2, TableFacts
<1>4. \A j \in DOMAIN sessions' : sessions'[j].agent # Continue
  BY <1>2 DEF TypeOK
<1>5. /\ members \in [Users -> SUBSET Ids]
      /\ active \in [Users -> Ids \cup {0}]
      /\ \A v \in Users : members'[v] = members[v] \ D
      /\ \A v \in Users : active'[v] = IF active[v] \in D THEN 0 ELSE active[v]
      /\ members' \in [Users -> SUBSET Ids]
      /\ active' \in [Users -> Ids \cup {0}]
  BY DEF Remove, TypeOK
<1>6. TypedTables /\ AtMostOneNew(p)
  BY <1>2, <1>3, <1>4, <1>5 DEF TypedTables, AtMostOneNew, Remove, TypeOK
<1>7. DOMAIN sessions' = UNION {members'[v] : v \in Users}
  BY <1>2, <1>5 DEF OwnedByOne, Owned
<1>8. /\ \A v, w \in Users : v # w => members'[v] \cap members'[w] = {}
      /\ \A v \in Users : active'[v] \in members'[v] \cup {0}
  BY <1>5 DEF OwnedByOne, Owned
<1>9. \A i \in DOMAIN sessions' : i <= counter'
  BY <1>2 DEF OwnedByOne, Owned, Remove
<1>10. Owned(sessions', active', members', counter')
  BY <1>7, <1>8, <1>9 DEF Owned
<1> QED BY <1>6, <1>10 DEF Sound

LEMMA InvalidateFacts ==
  ASSUME TypeOK, OwnedByOne, NEW p \in Procs, InvalidateForAgent(p)
  PROVE  Sound(p)
<1>1. sessions \in [DOMAIN sessions -> Session] /\ DOMAIN sessions \subseteq Ids
  BY TableFacts DEF TypeOK
<1>2. PICK D \in SUBSET DOMAIN sessions :
        sessions' = [i \in DOMAIN sessions |->
          IF i \in D THEN WithAgent(sessions[i], NoId) ELSE sessions[i]]
  BY DEF InvalidateForAgent
<1>3. DOMAIN sessions' = DOMAIN sessions
  BY <1>2
<1>4. \A i \in DOMAIN sessions :
        sessions'[i] \in Session /\ sessions'[i].agent # Continue
  BY <1>1, <1>2, WithAgentType DEF TypeOK
<1>5. sessions' \in Tables
  BY <1>1, <1>2, <1>4, TableFacts
<1>6. TypedTables /\ AtMostOneNew(p)
  BY <1>3, <1>4, <1>5
  DEF TypedTables, AtMostOneNew, InvalidateForAgent, TypeOK
<1>7. Owned(sessions', active', members', counter')
  BY <1>3 DEF OwnedByOne, Owned, InvalidateForAgent
<1> QED BY <1>6, <1>7 DEF Sound

\* Every operation of the manager is a sound change of the tables, made under
\* the lock.
LEMMA ChangeFacts ==
  ASSUME TypeOK, OwnedByOne, NEW p \in Managers, Change(p)
  PROVE  Lock(p) /\ Sound(p)
<1>0. p \in Procs
  BY DEF Procs
<1>1. ASSUME NEW u \in Users, Operation(p, u)
      PROVE  Lock(p) /\ Sound(p)
  <2>1. CASE GetOrCreateActive(p, u)
    BY <1>0, <2>1, CreateFacts DEF GetOrCreateActive
  <2>2. CASE NewSession(p, u)
    BY <1>0, <2>2, CreateFacts DEF NewSession
  <2>3. CASE NewSideSession(p, u)
    BY <1>0, <2>3, FreshType, AddFacts DEF NewSideSession, TypeOK
  <2>4. CASE SwitchSession(p, u)
    BY <1>0, <2>4, ActivateFacts DEF SwitchSession
  <2>5. ASSUME NEW a \in AgentIds, SwitchToAgentSession(p, u, a)
        PROVE  Lock(p) /\ Sound(p)
    <3>1. CASE Create(p, u, Fresh(a))
      BY <1>0, <2>5, <3>1, CreateFacts DEF SwitchToAgentSession
    <3>2. CASE \E i \in members[u] : Activate(u, i)
      BY <1>0, <2>5, <3>2, ActivateFacts DEF SwitchToAgentSession
    <3> QED BY <2>5, <3>1, <3>2 DEF SwitchToAgentSession
  <2> QED BY <1>1, <2>1, <2>2, <2>3, <2>4, <2>5 DEF Operation
<1>2. CASE DeleteByID(p)
  BY <1>0, <1>2, RemoveFacts DEF DeleteByID
<1>3. ASSUME NEW a \in AgentIds, DeleteByAgentSessionID(p, a)
      PROVE  Lock(p) /\ Sound(p)
  BY <1>0, <1>3, RemoveFacts DEF DeleteByAgentSessionID
<1>4. CASE InvalidateForAgent(p)
  BY <1>0, <1>4, InvalidateFacts DEF InvalidateForAgent
<1> QED BY <1>1, <1>2, <1>3, <1>4 DEF Change

-----------------------------------------------------------------------------
(* The invariant is inductive *)

LEMMA OldFileFacts ==
  ASSUME NEW u \in Users, NEW a \in AgentIds \cup {NoId, Continue},
         NEW t \in BOOLEAN, 1 \in Ids
  PROVE  /\ OldFile(u, a, t) \in Snapshot
         /\ DOMAIN OldFile(u, a, t).sessions = {1}
         /\ OldFile(u, a, t).counter = 1
         /\ Owned(OldFile(u, a, t).sessions, OldFile(u, a, t).active,
                  OldFile(u, a, t).members, OldFile(u, a, t).counter)
<1> DEFINE f == OldFile(u, a, t)
<1>1. /\ DOMAIN f.sessions = {1}
      /\ f.sessions \in [{1} -> Session]
  BY DEF OldFile, NoFile, Session
<1>2. f.sessions \in Tables
  BY <1>1, TableFacts
<1>3. /\ f.active = [v \in Users |-> IF v = u THEN 1 ELSE 0]
      /\ f.members = [v \in Users |-> IF v = u THEN {1} ELSE {}]
      /\ f.counter = 1
  BY DEF OldFile, NoFile
<1>4. f \in Snapshot
  BY <1>2, <1>3, ZenonT(60) DEF OldFile, NoFile, Snapshot
<1>5. Owned(f.sessions, f.active, f.members, f.counter)
  BY <1>1, <1>3 DEF Owned
<1> QED BY <1>1, <1>3, <1>4, <1>5

LEMMA NoFileFacts ==
  /\ NoFile \in Snapshot
  /\ NoFile.sessions = EmptyTable /\ NoFile.counter = 0
  /\ Owned(NoFile.sessions, NoFile.active, NoFile.members, NoFile.counter)
<1>1. /\ NoFile.sessions = EmptyTable /\ NoFile.counter = 0
      /\ NoFile.active = [u \in Users |-> 0]
      /\ NoFile.members = [u \in Users |-> {}]
  BY DEF NoFile
<1>2. NoFile \in Snapshot
  BY EmptyType DEF NoFile, Snapshot
<1> QED BY <1>1, <1>2, EmptyType DEF Owned

LEMMA IdsInType == ASSUME NEW t PROVE IdsIn(t) \in [Ids -> SUBSET AgentIds]
BY DEF IdsIn, Tracked

LEMMA InitInv == Init => StoreInv
<1> SUFFICES ASSUME Init PROVE StoreInv
  OBVIOUS
<1>1. disk \in Snapshot /\ DOMAIN disk.sessions \subseteq Ids
  BY NoFileFacts, OldFileFacts, EmptyType DEF Init
<1>2. Owned(disk.sessions, disk.active, disk.members, disk.counter)
  BY NoFileFacts, OldFileFacts DEF Init
<1>3. \A i \in DOMAIN disk.sessions : i <= disk.counter
  BY <1>2 DEF Owned
<1>4. TypeOK
  <2>1. /\ sessions \in Tables /\ DOMAIN sessions = {}
        /\ copy \in [Procs -> Tables]
    BY EmptyType DEF Init
  <2>2. issued \subseteq Ids /\ old \subseteq Ids
    BY <1>1 DEF Init
  <2>3. /\ active \in [Users -> Ids \cup {0}]
        /\ members \in [Users -> SUBSET Ids]
        /\ step \in [Procs -> {"idle", "copied", "legacy", "migrated"}]
        /\ made \in [Procs -> Ids \cup {0}]
    BY DEF Init
  <2>4. /\ up \in BOOLEAN /\ legacy \in BOOLEAN
        /\ counter = 0 /\ writer = NoProc
    BY DEF Init
  <2>5. uses = 0 /\ crashes = 0 /\ seen = {} /\ crossed = {} /\ stale \in BOOLEAN
    BY DEF Init
  <2>6. kept \in [Ids -> SUBSET AgentIds]
    BY IdsInType DEF Init
  <2> QED BY <1>1, <2>1, <2>2, <2>3, <2>4, <2>5, <2>6 DEF TypeOK
<1>5. OwnedByOne
  BY <1>2, EmptyType DEF Init, OwnedByOne, Owned
<1>6. SaveInv /\ LockInv /\ MadeInv /\ CounterInv /\ MemoryInv
  BY <1>3 DEF Init, SaveInv, LockInv, MadeInv, CounterInv, MemoryInv
<1> QED BY <1>4, <1>5, <1>6 DEF StoreInv

LEMMA CopyingCrosses ==
  ASSUME crossed \subseteq Procs, NEW p \in Procs, Copying(p)
  PROVE  crossed' \subseteq Procs
BY DEF Copying, Others

\* An operation of the manager.
LEMMA LockPreserves ==
  ASSUME StoreInv, NEW p \in Procs, Lock(p), Sound(p)
  PROVE  StoreInv'
<1> USE DEF StoreInv
<1>1. /\ \A q \in Procs : step[q] = "idle" /\ made[q] = 0
      /\ p # NoProc /\ writer = NoProc /\ up
  BY DEF Lock, Free, MadeInv, Procs
<1>2. /\ step' = [q \in Procs |-> IF q = p THEN "copied" ELSE "idle"]
      /\ copy' = [copy EXCEPT ![p] = sessions']
      /\ writer' = p
      /\ UNCHANGED <<up, legacy, disk, uses, crashes, ghostsOfFile>>
  BY <1>1 DEF Lock, Copying, TypeOK
<1> USE DEF ghostsOfFile
<1>3. counter \in Nat /\ counter <= counter'
  BY DEF Sound, AtMostOneNew, TypeOK, Ids
<1>4. TypeOK'
  <2>1. copy' \in [Procs -> Tables]
    BY <1>2 DEF Sound, TypedTables, TypeOK
  <2>2. crossed' \subseteq Procs
    BY CopyingCrosses DEF Lock, TypeOK
  <2> QED BY <1>2, <2>1, <2>2 DEF Sound, TypedTables, TypeOK
<1>5. OwnedByOne'
  BY <1>2 DEF Sound, OwnedByOne
<1>6. SaveInv'
  BY <1>1, <1>2 DEF SaveInv, TypeOK
<1>7. LockInv'
  BY <1>2 DEF LockInv
<1>8. disk.counter \in Nat /\ disk.counter <= counter
  BY <1>1 DEF CounterInv, TypeOK, Snapshot, Ids
<1>9. MadeInv'
  BY <1>1, <1>2, <1>3, <1>8 DEF MadeInv, Sound, AtMostOneNew, TypeOK
<1>10. CounterInv'
  BY <1>2, <1>3, <1>8 DEF CounterInv, Sound, TypedTables, Ids
<1>11. MemoryInv'
  <2>1. CASE DOMAIN sessions' \subseteq DOMAIN sessions
    BY <1>1, <1>2, <2>1 DEF MemoryInv
  <2>2. CASE /\ DOMAIN sessions' = DOMAIN sessions \cup {counter'}
             /\ counter' = counter + 1
    <3>1. counter' \notin issued
      BY <1>3, <1>8, <2>2 DEF CounterInv, TypeOK, Ids
    <3> QED BY <1>1, <1>2, <2>2, <3>1 DEF MemoryInv
  <2> QED BY <2>1, <2>2 DEF Sound, AtMostOneNew
<1> QED BY <1>4, <1>5, <1>6, <1>7, <1>9, <1>10, <1>11

\* A step on one Session.
LEMMA SessionStepPreserves ==
  ASSUME StoreInv, NEW i \in DOMAIN sessions, SessionStep(i)
  PROVE  StoreInv'
<1> USE DEF StoreInv
<1>1. /\ DOMAIN sessions' = DOMAIN sessions
      /\ sessions' \in Tables
      /\ \A j \in DOMAIN sessions' : sessions'[j].agent # Continue
      /\ uses' \in 0 .. MaxUses
  BY SessionStepType
<1>2. UNCHANGED <<up, active, members, counter, legacy, disk, writer, step,
                  copy, made, crashes, ghosts>>
  BY DEF SessionStep, SetAgentSessionID, CompareAndSetAgentSessionID, UserTurn,
         AutomatedTurn, OnlySession, saves
<1> USE DEF ghosts, ghostsOfFile
<1>3. TypeOK'
  BY <1>1, <1>2 DEF TypeOK
<1>4. OwnedByOne'
  BY <1>1, <1>2 DEF OwnedByOne, Owned
<1>5. SaveInv' /\ LockInv' /\ MadeInv' /\ CounterInv' /\ MemoryInv'
  BY <1>1, <1>2 DEF SaveInv, LockInv, MadeInv, CounterInv, MemoryInv
<1> QED BY <1>3, <1>4, <1>5

LEMMA SavePreserves ==
  ASSUME StoreInv, NEW p \in Savers, Save(p)
  PROVE  StoreInv'
<1> USE DEF StoreInv
<1>1. /\ p \in Procs /\ up /\ writer = NoProc
      /\ step' = [step EXCEPT ![p] = "copied"]
      /\ copy' = [copy EXCEPT ![p] = sessions]
      /\ UNCHANGED <<up, sessions, active, members, counter, legacy, disk,
                     writer, made, uses, crashes, ghostsOfFile>>
  BY DEF Save, Copying, table, Procs
<1> USE DEF ghostsOfFile
<1>2. TypeOK'
  <2>1. crossed' \subseteq Procs
    BY <1>1, CopyingCrosses DEF Save, TypeOK
  <2> QED BY <1>1, <2>1 DEF TypeOK
<1>3. OwnedByOne'
  BY <1>1 DEF OwnedByOne, Owned
<1>4. SaveInv'
  BY <1>1 DEF SaveInv, TypeOK
<1>5. LockInv' /\ MadeInv' /\ CounterInv' /\ MemoryInv'
  BY <1>1 DEF LockInv, MadeInv, CounterInv, MemoryInv
<1> QED BY <1>2, <1>3, <1>4, <1>5

\* The legacy flag is settled in the middle of a save.
LEMMA SettlePreserves ==
  ASSUME StoreInv, NEW p \in Procs, Settle(p)
  PROVE  StoreInv'
<1> USE DEF StoreInv
<1>1. /\ step[p] = "copied"
      /\ step' = [step EXCEPT ![p] = IF legacy' THEN "legacy" ELSE "migrated"]
      /\ UNCHANGED <<up, sessions, active, members, counter, disk, writer, copy,
                     made, uses, crashes, ghosts>>
  BY DEF Settle, table
<1> USE DEF ghosts, ghostsOfFile
<1>2. \A q \in Procs : step'[q] # "idle" <=> step[q] # "idle"
  BY <1>1 DEF TypeOK
<1>3. TypeOK'
  <2>1. legacy' \in BOOLEAN
    BY DEF Settle, StillLegacy, AllTracked, TypeOK
  <2>2. step' \in [Procs -> {"idle", "copied", "legacy", "migrated"}]
    BY <1>1 DEF TypeOK
  <2> QED BY <1>1, <2>1, <2>2 DEF TypeOK
<1>4. OwnedByOne'
  BY <1>1 DEF OwnedByOne, Owned
<1>5. SaveInv' /\ LockInv' /\ MadeInv' /\ CounterInv' /\ MemoryInv'
  BY <1>1, <1>2 DEF SaveInv, LockInv, MadeInv, CounterInv, MemoryInv
<1> QED BY <1>3, <1>4, <1>5

LEMMA StoredType ==
  ASSUME NEW t \in Tables
  PROVE  Stored(t) \in Tables /\ DOMAIN Stored(t) = DOMAIN t
<1>1. t \in [DOMAIN t -> Session] /\ DOMAIN t \subseteq Ids
  BY TableFacts
<1>2. DOMAIN Stored(t) = DOMAIN t /\ Stored(t) \in [DOMAIN t -> Session]
  BY <1>1 DEF Stored, Session
<1> QED BY <1>1, <1>2, TableFacts

\* The effect of a write on the file.
LEMMA WriteFacts ==
  ASSUME StoreInv, NEW p \in Procs, Write(p)
  PROVE  /\ up /\ writer' = NoProc
         /\ \A q \in Procs : made'[q] = 0
         /\ \A q \in Procs : step'[q] = IF q = p THEN "idle" ELSE step[q]
         /\ \A q \in Procs \ {p} : copy'[q] = copy[q]
         /\ kept' \in [Ids -> SUBSET AgentIds]
         /\ \/ UNCHANGED <<disk, issued, seen, stale, kept>>
            \/ /\ disk' \in Snapshot
               /\ DOMAIN disk'.sessions = DOMAIN sessions
               /\ disk'.active = active /\ disk'.members = members
               /\ disk'.counter = counter
               /\ issued' = issued \cup DOMAIN sessions
               /\ seen' \subseteq Ids /\ stale' \in BOOLEAN
<1> USE DEF StoreInv
<1>1. up /\ DOMAIN copy[p] = DOMAIN sessions /\ copy[p] \in Tables
  BY DEF Write, SaveInv, TypeOK
<1>2. writer' = NoProc
  BY DEF Write, LockInv
<1>3. \A q \in Procs : made'[q] = 0
  <2>1. made'[p] = 0 /\ \A q \in Procs \ {p} : made'[q] = made[q]
    BY DEF Write, TypeOK
  <2>2. ASSUME NEW q \in Procs, made[q] # 0
        PROVE  q = p
    <3>1. writer = q /\ q # NoProc
      BY <2>2 DEF MadeInv, Procs
    <3>2. step[p] # "idle" <=> p = q
      BY <3>1 DEF LockInv
    <3> QED BY <3>2 DEF Write
  <2> QED BY <2>1, <2>2
<1>4. /\ \A q \in Procs : step'[q] = IF q = p THEN "idle" ELSE step[q]
      /\ \A q \in Procs \ {p} : copy'[q] = copy[q]
  BY DEF Write, TypeOK
<1>5. CASE Replace(p)
  <2>1. /\ disk' = [file |-> TRUE, sessions |-> Stored(copy[p]),
                    active |-> active, members |-> members,
                    counter |-> counter, tracking |-> TRUE,
                    legacy |-> step[p] = "legacy", version |-> 1]
        /\ issued' = issued \cup DOMAIN copy[p]
        /\ seen' = seen \cup {i \in DOMAIN copy[p] : copy[p][i].activity}
        /\ stale' = (p \in crossed)
    BY <1>5 DEF Replace
  <2>2. Stored(copy[p]) \in Tables /\ DOMAIN Stored(copy[p]) = DOMAIN sessions
    BY <1>1, StoredType
  <2>3. disk' \in Snapshot
    <3>1. (step[p] = "legacy") \in BOOLEAN
      OBVIOUS
    <3> QED BY <2>1, <2>2, <3>1 DEF Snapshot, TypeOK
  <2>4. DOMAIN sessions \subseteq Ids
    BY TableFacts DEF TypeOK
  <2>5. kept' \in [Ids -> SUBSET AgentIds]
    BY <1>5 DEF Replace, Tracked, TypeOK
  <2>6. stale' \in BOOLEAN
    <3>1. (p \in crossed) \in BOOLEAN
      OBVIOUS
    <3> QED BY <2>1, <3>1
  <2> QED BY <1>1, <1>2, <1>3, <1>4, <2>1, <2>2, <2>3, <2>4, <2>5, <2>6 DEF TypeOK
<1>6. CASE UNCHANGED <<disk, issued, seen, stale, kept>>
  BY <1>1, <1>2, <1>3, <1>4, <1>6 DEF TypeOK
<1> QED BY <1>5, <1>6 DEF Write

LEMMA WritePreserves ==
  ASSUME StoreInv, NEW p \in Procs, Write(p)
  PROVE  StoreInv'
<1> USE DEF StoreInv
<1>1. UNCHANGED <<up, sessions, active, members, counter, legacy, uses, crashes, old>>
  BY DEF Write, table
<1>2. counter \in Nat /\ disk.counter \in Nat /\ disk.counter <= counter
  BY WriteFacts DEF CounterInv, TypeOK, Snapshot, Ids
<1>3. DOMAIN sessions \subseteq Ids /\ \A i \in DOMAIN sessions : i <= counter
  BY TableFacts DEF OwnedByOne, Owned, TypeOK
<1>4. TypeOK'
  <2>1. crossed' \subseteq Procs
    BY DEF Write, TypeOK
  <2>2. /\ step' \in [Procs -> {"idle", "copied", "legacy", "migrated"}]
        /\ copy' \in [Procs -> Tables]
        /\ made' \in [Procs -> Ids \cup {0}]
    BY EmptyType DEF Write, TypeOK
  <2>3. /\ disk' \in Snapshot /\ issued' \subseteq Ids /\ seen' \subseteq Ids
        /\ stale' \in BOOLEAN
    BY <1>3, WriteFacts DEF TypeOK
  <2> QED BY <1>1, <2>1, <2>2, <2>3, WriteFacts DEF TypeOK
<1>5. OwnedByOne'
  BY <1>1, WriteFacts DEF OwnedByOne, Owned
<1>6. SaveInv'
  BY <1>1, WriteFacts DEF SaveInv
<1>7. LockInv' /\ MadeInv'
  BY WriteFacts DEF LockInv, MadeInv
<1>8. CounterInv'
  <2>1. issued \subseteq Ids
    BY DEF TypeOK
  <2>2. CASE UNCHANGED <<disk, issued>>
    BY <1>1, <2>2 DEF CounterInv
  <2>3. CASE disk'.counter = counter /\ issued' = issued \cup DOMAIN sessions
    BY <1>1, <1>2, <1>3, <2>1, <2>3 DEF CounterInv, Ids
  <2> QED BY <2>2, <2>3, WriteFacts
<1>9. MemoryInv'
  BY <1>1, WriteFacts DEF MemoryInv
<1> QED BY <1>4, <1>5, <1>6, <1>7, <1>8, <1>9

LEMMA CrashPreserves ==
  ASSUME StoreInv, Crash
  PROVE  StoreInv'
<1> USE DEF StoreInv
<1>1. TypeOK'
  <2>1. /\ sessions' \in Tables /\ DOMAIN sessions' = {}
        /\ copy' \in [Procs -> Tables]
    BY EmptyType DEF Crash
  <2>2. crashes' \in 0 .. MaxCrashes
    BY DEF Crash, TypeOK
  <2>3. UNCHANGED <<disk, uses, issued, seen>>
    BY DEF Crash
  <2>4. old' \subseteq Ids /\ stale' \in BOOLEAN /\ kept' \in [Ids -> SUBSET AgentIds]
    <3>1. CASE stale
      <4>1. old' = {} /\ stale' = FALSE /\ kept' = IdsIn(disk.sessions)
        BY <3>1 DEF Crash, LosesStale
      <4> QED BY <4>1, IdsInType
    <3>2. CASE ~stale
      BY <3>2 DEF Crash, TypeOK
    <3> QED BY <3>1, <3>2
  <2> QED BY <2>1, <2>2, <2>3, <2>4 DEF Crash, TypeOK
<1>2. OwnedByOne'
  BY EmptyType DEF Crash, OwnedByOne, Owned
<1>3. SaveInv' /\ LockInv' /\ MadeInv' /\ CounterInv' /\ MemoryInv'
  BY DEF Crash, SaveInv, LockInv, MadeInv, CounterInv, MemoryInv
<1> QED BY <1>1, <1>2, <1>3

LEMMA LoadPreserves ==
  ASSUME StoreInv, Load
  PROVE  StoreInv'
<1> USE DEF StoreInv
<1>1. /\ \A p \in Procs : step[p] = "idle"
      /\ writer = NoProc
      /\ \A p \in Procs : made[p] = 0
  BY DEF Load, SaveInv, LockInv, MadeInv, TypeOK, Procs
<1>2. disk.sessions \in Tables
  BY DEF TypeOK, Snapshot
<1>3. /\ disk.sessions \in [DOMAIN disk.sessions -> Session]
      /\ DOMAIN disk.sessions \subseteq Ids
  BY <1>2, TableFacts
<1>4. \A i \in DOMAIN disk.sessions :
        Strip(disk.sessions[i]) \in Session /\ Strip(disk.sessions[i]).agent # Continue
  BY <1>3 DEF Strip, Session
<1>5. /\ DOMAIN sessions' = DOMAIN disk.sessions
      /\ sessions' \in [DOMAIN disk.sessions -> Session]
      /\ \A j \in DOMAIN sessions' : sessions'[j].agent # Continue
  BY <1>4 DEF Load
<1>6. sessions' \in Tables
  BY <1>3, <1>5, TableFacts
<1>7. /\ active' = disk.active /\ members' = disk.members
      /\ counter' = disk.counter /\ disk' = disk /\ up'
      /\ UNCHANGED <<writer, step, copy, made, uses, crashes, ghosts>>
  BY DEF Load, LastId, saves
<1> USE DEF ghosts, ghostsOfFile
<1>8. legacy' \in BOOLEAN
  BY DEF Load, TypeOK, Snapshot
<1>9. TypeOK'
  BY <1>5, <1>6, <1>7, <1>8 DEF TypeOK, Snapshot
<1>10. OwnedByOne'
  BY <1>5, <1>7 DEF OwnedByOne, Owned
<1>11. SaveInv' /\ LockInv' /\ MadeInv' /\ MemoryInv'
  BY <1>1, <1>5, <1>7 DEF SaveInv, LockInv, MadeInv, MemoryInv
<1>12. CounterInv'
  BY <1>7 DEF CounterInv, TypeOK, Snapshot, Ids
<1> QED BY <1>9, <1>10, <1>11, <1>12

LEMMA StepInv == StoreInv /\ [Next]_vars => StoreInv'
<1> SUFFICES ASSUME StoreInv, [Next]_vars PROVE StoreInv'
  OBVIOUS
<1>1. ASSUME NEW i \in DOMAIN sessions, SessionStep(i) PROVE StoreInv'
  BY <1>1, SessionStepPreserves
<1>2. ASSUME NEW p \in Savers, Save(p) PROVE StoreInv'
  BY <1>2, SavePreserves
<1>3. ASSUME NEW p \in Managers, Change(p) PROVE StoreInv'
  BY <1>3, ChangeFacts, LockPreserves DEF StoreInv, Procs
<1>4. ASSUME NEW p \in Procs, Settle(p) \/ Write(p) PROVE StoreInv'
  BY <1>4, SettlePreserves, WritePreserves
<1>5. CASE Crash
  BY <1>5, CrashPreserves
<1>6. CASE Load
  BY <1>6, LoadPreserves
<1>7. CASE UNCHANGED vars
  <2>1. UNCHANGED <<up, sessions, active, members, counter, legacy, disk,
                    writer, step, copy, made, uses, crashes, issued, seen, old,
                    crossed, stale, kept>>
    BY <1>7 DEF vars, table, saves, ghosts, ghostsOfFile
  <2>2. TypeOK'
    BY <2>1 DEF StoreInv, TypeOK
  <2>3. OwnedByOne'
    BY <2>1 DEF StoreInv, OwnedByOne, Owned
  <2>4. SaveInv' /\ LockInv' /\ MadeInv' /\ CounterInv' /\ MemoryInv'
    BY <2>1 DEF StoreInv, SaveInv, LockInv, MadeInv, CounterInv, MemoryInv
  <2> QED BY <2>2, <2>3, <2>4 DEF StoreInv
<1> QED BY <1>1, <1>2, <1>3, <1>4, <1>5, <1>6, <1>7 DEF Next

LEMMA StoreInvariant == Spec => []StoreInv
BY InitInv, StepInv, PTL DEF Spec

-----------------------------------------------------------------------------
(* Results *)

\* Every reachable state of the store is well formed; in particular the
\* sentinel of old files never stays in memory.
THEOREM StoreTypeCorrect == Spec => []TypeOK
<1>1. StoreInv => TypeOK
  BY DEF StoreInv
<1> QED BY <1>1, StoreInvariant, PTL

\* In memory and in the file, every Session belongs to exactly one user, and a
\* user's active Session is one of the user's own.
THEOREM StoreOwnedByOne == Spec => []OwnedByOne
<1>1. StoreInv => OwnedByOne
  BY DEF StoreInv
<1> QED BY <1>1, StoreInvariant, PTL

\* The id of a Session that reached the file is never given out again.
THEOREM StoreFreshIds == Spec => []FreshIds
<1>1. StoreInv => FreshIds
  BY DEF StoreInv, TypeOK, Snapshot, Ids, MadeInv, CounterInv, FreshIds
<1> QED BY <1>1, StoreInvariant, PTL

\* A Session that was deleted from the file does not come back in it.
THEOREM StoreNoResurrection == Spec => NoResurrection
<1>1. ASSUME StoreInv, [Next]_vars
      PROVE  [\A i \in issued \ DOMAIN disk.sessions :
                i \notin DOMAIN disk'.sessions]_vars
  <2>1. CASE disk' = disk
    BY <2>1
  <2>2. ASSUME NEW p \in Procs, Write(p), disk' # disk
        PROVE  \A i \in issued \ DOMAIN disk.sessions :
                 i \notin DOMAIN disk'.sessions
    BY <1>1, <2>2, WriteFacts DEF StoreInv, MemoryInv
  <2>3. disk' = disk \/ \E p \in Procs : Write(p)
    <3>1. ASSUME NEW p \in Managers, Change(p) PROVE disk' = disk
      BY <1>1, <3>1, ChangeFacts DEF StoreInv, Lock
    <3> QED
      BY <1>1, <3>1
      DEF Next, vars, SessionStep, SetAgentSessionID, UserTurn, AutomatedTurn,
          CompareAndSetAgentSessionID, OnlySession, Save, Settle, Crash, Load
  <2> QED BY <2>1, <2>2, <2>3
<1> QED BY <1>1, StoreInvariant, PTL DEF Spec, NoResurrection

-----------------------------------------------------------------------------
(* No agent id is lost from the file, and the legacy flag outlasts the       *)
(* untracked Sessions, but for what saves that overlap write: their copies   *)
(* reach the file in either order.  The memory keeps what such a file lacks. *)

\* The ids of s are tracked by t.
Keeps(s, t) == Tracked(s) \subseteq Tracked(t)

\* A save that no other one overlaps.
Apart(p) == step[p] # "idle" /\ p \notin crossed

Alone == \A p \in Procs : Apart(p) => \A q \in Procs \ {p} : step[q] = "idle"

\* What an earlier version may have left in its file.
OldFiles ==
  /\ old \subseteq issued
  /\ disk.version = 1 => disk.file
  /\ disk.version = 0 =>
       /\ ~disk.file => DOMAIN disk.sessions = {}
       /\ disk.tracking =>
            \A i \in DOMAIN disk.sessions : disk.sessions[i].agent # Continue

\* The ids the file held are those of its Sessions, and in memory; a process
\* starts from a file that has them all.
KeptInv ==
  /\ \A i \in Ids \ DOMAIN disk.sessions : kept[i] = {}
  /\ up => \A i \in DOMAIN sessions : kept[i] \subseteq Tracked(sessions[i])
  /\ ~up => ~stale
  /\ KeptOnDisk

\* The ids of a copy are in memory, those of the file in a copy that is apart.
CopyInv ==
  \A p \in Procs : step[p] # "idle" =>
    \A i \in DOMAIN sessions :
      /\ Keeps(copy[p][i], sessions[i])
      /\ p \notin crossed => kept[i] \subseteq Tracked(copy[p][i])

\* The snapshot of p has, or will have, the legacy flag off.
Migrated(p) == step[p] = "migrated" \/ (step[p] = "copied" /\ ~legacy)

CopySound ==
  \A p \in Procs : Apart(p) /\ Migrated(p) =>
    \A i \in old \cap DOMAIN sessions : Tracked(copy[p][i]) # {}

KInv == Alone /\ OldFiles /\ KeptInv /\ CopyInv /\ LegacySound /\ CopySound

LEMMA WithAgentKeeps ==
  ASSUME NEW s \in Session, NEW a \in AgentIds \cup {NoId}
  PROVE  Keeps(s, WithAgent(s, a))
<1>1. CASE s.agent = a
  BY <1>1 DEF WithAgent, Session, Keeps, Tracked
<1>2. CASE s.agent # a /\ s.agent \in AgentIds
  <2>1. RecordPast(s) = [s EXCEPT !.past = s.past \cup {s.agent}]
    BY <1>2 DEF RecordPast
  <2>2. WithAgent(s, a).past = s.past \cup {s.agent}
    BY <1>2, <2>1 DEF WithAgent, Session
  <2> QED BY <2>2 DEF Keeps, Tracked
<1>3. CASE s.agent # a /\ s.agent \notin AgentIds
  <2>1. WithAgent(s, a).past = s.past
    BY <1>3 DEF WithAgent, RecordPast, Session
  <2> QED BY <1>3, <2>1 DEF Keeps, Tracked
<1> QED BY <1>1, <1>2, <1>3

\* No operation makes a Session forget an id.
Grows ==
  \A i \in DOMAIN sessions \cap DOMAIN sessions' : Keeps(sessions[i], sessions'[i])

LEMMA SessionStepGrows ==
  ASSUME TypeOK, NEW i \in DOMAIN sessions, SessionStep(i)
  PROVE  Grows
<1>1. sessions \in [DOMAIN sessions -> Session] /\ sessions[i] \in Session
  BY TableFacts DEF TypeOK
<1>2. ASSUME NEW s, Put(i, s), Keeps(sessions[i], s) PROVE Grows
  BY <1>1, <1>2 DEF Put, Grows, Keeps
<1>3. CASE SetAgentSessionID(i)
  BY <1>1, <1>2, <1>3, WithAgentKeeps DEF SetAgentSessionID
<1>4. CASE CompareAndSetAgentSessionID(i)
  <2>1. PICK a \in AgentIds : Put(i, [sessions[i] EXCEPT !.agent = a])
    BY <1>4 DEF CompareAndSetAgentSessionID
  <2>2. sessions[i].agent \notin AgentIds
    BY <1>4 DEF CompareAndSetAgentSessionID
  <2>3. [sessions[i] EXCEPT !.agent = a].past = sessions[i].past
    BY <1>1 DEF Session
  <2>4. Keeps(sessions[i], [sessions[i] EXCEPT !.agent = a])
    BY <2>2, <2>3 DEF Keeps, Tracked
  <2> QED BY <1>2, <2>1, <2>4
<1>5. CASE UserTurn(i)
  <2> DEFINE s == [sessions[i] EXCEPT !.activity = TRUE, !.automated = FALSE]
  <2>1. s.past = sessions[i].past /\ s.agent = sessions[i].agent
    BY <1>1 DEF Session
  <2> QED BY <1>2, <1>5, <2>1 DEF UserTurn, Keeps, Tracked
<1>6. CASE AutomatedTurn(i)
  <2> DEFINE s == [sessions[i] EXCEPT !.automated = TRUE]
  <2>1. s.past = sessions[i].past /\ s.agent = sessions[i].agent
    BY <1>1 DEF Session
  <2> QED BY <1>2, <1>6, <2>1 DEF AutomatedTurn, Keeps, Tracked
<1> QED BY <1>3, <1>4, <1>5, <1>6 DEF SessionStep

LEMMA ChangeGrows ==
  ASSUME TypeOK, OwnedByOne, NEW p \in Managers, Change(p)
  PROVE  Grows
<1>1. sessions \in [DOMAIN sessions -> Session] /\ DOMAIN sessions \subseteq Ids
  BY TableFacts DEF TypeOK
<1>2. ASSUME NEW u, NEW s, Add(p, u, s) PROVE Grows
  <2>1. NextId \notin DOMAIN sessions
    <3>1. counter \in Nat
      BY DEF TypeOK, Ids
    <3>2. \A i \in DOMAIN sessions : i \in Nat /\ i <= counter
      BY <1>1 DEF OwnedByOne, Owned, Ids
    <3> QED BY <3>1, <3>2 DEF NextId
  <2>2. \A i \in DOMAIN sessions : sessions'[i] = sessions[i]
    BY <1>1, <1>2, <2>1 DEF Add
  <2> QED BY <2>2 DEF Grows, Keeps
<1>3. ASSUME NEW u, NEW i, Activate(u, i) PROVE Grows
  BY <1>3 DEF Activate, Grows, Keeps
<1>4. ASSUME NEW D, Remove(D) PROVE Grows
  BY <1>4 DEF Remove, Grows, Keeps
<1>5. CASE InvalidateForAgent(p)
  <2>1. PICK D \in SUBSET DOMAIN sessions :
          sessions' = [i \in DOMAIN sessions |->
            IF i \in D THEN WithAgent(sessions[i], NoId) ELSE sessions[i]]
    BY <1>5 DEF InvalidateForAgent
  <2>2. \A i \in DOMAIN sessions : Keeps(sessions[i], WithAgent(sessions[i], NoId))
    BY <1>1, WithAgentKeeps
  <2>3. \A i \in DOMAIN sessions :
          sessions'[i] = sessions[i] \/ sessions'[i] = WithAgent(sessions[i], NoId)
    BY <2>1
  <2> QED BY <2>2, <2>3 DEF Grows, Keeps
<1>6. ASSUME NEW u \in Users, Operation(p, u) PROVE Grows
  BY <1>2, <1>3, <1>6
     DEF Operation, GetOrCreateActive, NewSession, NewSideSession, SwitchSession,
         SwitchToAgentSession, Create
<1> QED BY <1>4, <1>5, <1>6 DEF Change, DeleteByID, DeleteByAgentSessionID

\* The ids of a file are its own.
LEMMA IdsInKept ==
  /\ \A i \in Ids \ DOMAIN disk.sessions : IdsIn(disk.sessions)[i] = {}
  /\ \A i \in Ids \cap DOMAIN disk.sessions :
       IdsIn(disk.sessions)[i] = Tracked(disk.sessions[i])
BY DEF IdsIn

LEMMA InitKept == Init => KInv
<1> SUFFICES ASSUME Init PROVE KInv
  OBVIOUS
<1>1. ASSUME NEW u \in Users, NEW a \in AgentIds \cup {NoId, Continue}, NEW t \in BOOLEAN,
             t => a # Continue, 1 \in Ids, disk = OldFile(u, a, t)
      PROVE  /\ disk.version = 0 /\ disk.file
             /\ disk.tracking => \A i \in DOMAIN disk.sessions : disk.sessions[i].agent # Continue
  BY <1>1 DEF OldFile, NoFile
<1>2. ASSUME disk = NoFile
      PROVE  disk.version = 0 /\ ~disk.tracking /\ DOMAIN disk.sessions = {}
  BY <1>2, NoFileFacts, EmptyType DEF NoFile
<1>3. OldFiles /\ disk.version = 0
  BY <1>1, <1>2 DEF Init, OldFiles
<1>4. ~up /\ \A p \in Procs : step[p] = "idle"
  BY DEF Init
<1>5. Alone /\ CopyInv /\ LegacySound /\ CopySound
  BY <1>3, <1>4 DEF Alone, Apart, CopyInv, LegacySound, CopySound
<1>6. KeptInv
  <2>1. kept = IdsIn(disk.sessions) /\ ~stale
    BY DEF Init
  <2>2. DOMAIN disk.sessions \subseteq Ids
    BY InitInv, TableFacts DEF StoreInv, TypeOK, Snapshot
  <2> QED BY <1>4, <2>1, <2>2, IdsInKept DEF KeptInv, KeptOnDisk
<1> QED BY <1>3, <1>5, <1>6 DEF KInv

\* What is in the file, or was in an old one, is no new Session.
LEMMA NotNew ==
  ASSUME StoreInv, OldFiles, up, NEW i, i > counter
  PROVE  i \notin DOMAIN disk.sessions /\ i \notin old
<1>1. /\ counter \in Nat /\ disk.counter \in Nat /\ disk.counter <= counter
      /\ issued \subseteq Ids
  BY DEF StoreInv, CounterInv, TypeOK, Snapshot, Ids
<1>2. \A j \in DOMAIN disk.sessions : j \in Ids /\ j <= disk.counter
  BY TableFacts DEF StoreInv, OwnedByOne, Owned, TypeOK, Snapshot
<1>3. \A j \in old : j \in Ids /\ j <= disk.counter
  BY <1>1 DEF StoreInv, CounterInv, OldFiles
<1> QED BY <1>1, <1>2, <1>3 DEF Ids

LEMMA SessionStepKeeps ==
  ASSUME StoreInv, KInv, NEW i \in DOMAIN sessions, SessionStep(i)
  PROVE  KInv'
<1>1. Grows /\ DOMAIN sessions' = DOMAIN sessions
  BY SessionStepGrows, SessionStepType DEF StoreInv
<1>2. UNCHANGED <<up, legacy, disk, writer, step, copy, ghosts>>
  BY DEF SessionStep, SetAgentSessionID, CompareAndSetAgentSessionID, UserTurn,
         AutomatedTurn, OnlySession, saves
<1> USE DEF ghosts, ghostsOfFile
<1>3. Alone' /\ OldFiles'
  BY <1>2 DEF KInv, Alone, Apart, OldFiles
<1>4. CopySound'
  BY <1>1, <1>2 DEF KInv, CopySound, Apart, Migrated
<1>5. \A j \in DOMAIN sessions : Tracked(sessions[j]) \subseteq Tracked(sessions'[j])
  BY <1>1 DEF Grows, Keeps
<1>6. KeptInv'
  BY <1>1, <1>2, <1>5 DEF KInv, KeptInv, KeptOnDisk
<1>7. CopyInv'
  BY <1>1, <1>2, <1>5 DEF KInv, CopyInv, Keeps
<1>8. LegacySound'
  BY <1>1, <1>2, <1>5 DEF KInv, LegacySound
<1> QED BY <1>3, <1>4, <1>6, <1>7, <1>8 DEF KInv

\* What a copy made by p, of the Sessions as they are then, does: if another
\* save is on its way both are no longer apart.
LEMMA CopyKeeps ==
  ASSUME StoreInv, KInv, NEW p \in Procs, up, step[p] = "idle", Copying(p),
         Grows, DOMAIN sessions' \subseteq DOMAIN sessions \cup {counter + 1},
         DOMAIN sessions' \subseteq Ids,
         \A q \in Procs \ {p} : step[q] # "idle" => sessions' = sessions,
         UNCHANGED <<up, legacy, disk, ghostsOfFile>>
  PROVE  KInv'
<1> USE DEF ghostsOfFile
<1>1. /\ step'[p] = "copied" /\ copy'[p] = sessions'
      /\ \A q \in Procs \ {p} : step'[q] = step[q] /\ copy'[q] = copy[q]
  BY DEF Copying, StoreInv, TypeOK
<1>2. /\ crossed \subseteq crossed'
      /\ \A q \in Procs \ {p} : step[q] # "idle" => q \in crossed' /\ p \in crossed'
  BY DEF Copying, Others
\* A Session of the file, or of an old one, is not new.
<1>3. \A i \in DOMAIN sessions' :
        i \in DOMAIN disk.sessions \cup old => i \in DOMAIN sessions
  <2>1. counter \in Nat /\ counter + 1 > counter
    BY DEF StoreInv, TypeOK, Ids
  <2>2. counter + 1 \notin DOMAIN disk.sessions /\ counter + 1 \notin old
    BY <2>1, NotNew DEF KInv
  <2> QED BY <2>2
<1>4. \A i \in DOMAIN sessions \cap DOMAIN sessions' :
        Tracked(sessions[i]) \subseteq Tracked(sessions'[i])
  BY DEF Grows, Keeps
<1>5. Alone'
  BY <1>1, <1>2 DEF Alone, Apart
<1>6. OldFiles'
  BY DEF KInv, OldFiles
<1>7. \A i \in DOMAIN sessions' : kept[i] \subseteq Tracked(sessions'[i])
  <2> SUFFICES ASSUME NEW i \in DOMAIN sessions', kept[i] # {}
               PROVE  kept[i] \subseteq Tracked(sessions'[i])
    OBVIOUS
  <2>1. i \in Ids
    OBVIOUS
  <2>2. i \in DOMAIN sessions
    BY <1>3, <2>1 DEF KInv, KeptInv
  <2> QED BY <1>4, <2>2 DEF KInv, KeptInv
<1>8. KeptInv'
  BY <1>7 DEF KInv, KeptInv, KeptOnDisk
<1>9. CopyInv'
  <2>1. ASSUME NEW q \in Procs, step'[q] # "idle", NEW i \in DOMAIN sessions'
        PROVE  /\ Tracked(copy'[q][i]) \subseteq Tracked(sessions'[i])
               /\ q \notin crossed' => kept[i] \subseteq Tracked(copy'[q][i])
    <3>1. CASE q = p
      BY <1>1, <1>7, <3>1
    <3>2. CASE q # p
      BY <1>1, <1>2, <2>1, <3>2 DEF KInv, CopyInv, Keeps
    <3> QED BY <3>1, <3>2
  <2> QED BY <2>1 DEF CopyInv, Keeps
<1>10. LegacySound'
  BY <1>3, <1>4 DEF KInv, LegacySound
<1>11. CopySound'
  <2>1. ASSUME NEW q \in Procs, Apart(q)', Migrated(q)',
               NEW i \in old \cap DOMAIN sessions'
        PROVE  Tracked(copy'[q][i]) # {}
    <3>1. q = p
      BY <1>1, <1>2, <2>1 DEF Apart
    <3>2. ~legacy
      BY <1>1, <2>1, <3>1 DEF Migrated
    <3>3. Tracked(sessions[i]) # {} /\ i \in DOMAIN sessions
      BY <1>3, <3>2 DEF KInv, LegacySound
    <3> QED BY <1>1, <1>4, <3>1, <3>3
  <2> QED BY <2>1 DEF CopySound
<1> QED BY <1>5, <1>6, <1>8, <1>9, <1>10, <1>11 DEF KInv

LEMMA SaveKeeps ==
  ASSUME StoreInv, KInv, NEW p \in Savers, Save(p)
  PROVE  KInv'
<1>1. /\ up /\ step[p] = "idle" /\ p \in Procs /\ Copying(p)
      /\ UNCHANGED <<up, sessions, legacy, disk, ghostsOfFile>>
  BY DEF Save, table, Procs
<1>2. Grows
  BY <1>1 DEF Grows, Keeps
<1>3. DOMAIN sessions \subseteq Ids
  BY TableFacts DEF StoreInv, TypeOK
<1> QED BY <1>1, <1>2, <1>3, CopyKeeps

LEMMA ChangeKeeps ==
  ASSUME StoreInv, KInv, NEW p \in Managers, Change(p)
  PROVE  KInv'
<1>1. Lock(p) /\ Sound(p) /\ Grows /\ p \in Procs
  BY ChangeFacts, ChangeGrows DEF StoreInv, Procs
<1>2. /\ up /\ \A q \in Procs : step[q] = "idle"
      /\ Copying(p) /\ UNCHANGED <<up, legacy, disk, ghostsOfFile>>
  BY <1>1 DEF Lock, Free
<1>3. DOMAIN sessions' \subseteq DOMAIN sessions \cup {counter + 1}
  BY <1>1 DEF Sound, AtMostOneNew
<1>4. DOMAIN sessions' \subseteq Ids
  BY <1>1, TableFacts DEF Sound, TypedTables
<1> QED BY <1>1, <1>2, <1>3, <1>4, CopyKeeps

\* A save that overlaps no other ends the migration only when its copy, and so
\* the memory, has a tracked id for every Session; so does any other save.
LEMMA SettleKeeps ==
  ASSUME StoreInv, KInv, NEW p \in Procs, Settle(p)
  PROVE  KInv'
<1>1. /\ step[p] = "copied" /\ legacy' = StillLegacy(copy[p])
      /\ step' = [step EXCEPT ![p] = IF legacy' THEN "legacy" ELSE "migrated"]
      /\ UNCHANGED <<up, sessions, disk, copy, ghosts>>
  BY DEF Settle, table
<1> USE DEF ghosts, ghostsOfFile
<1>2. /\ step'[p] = IF legacy' THEN "legacy" ELSE "migrated"
      /\ \A q \in Procs \ {p} : step'[q] = step[q]
  BY <1>1 DEF StoreInv, TypeOK
<1>3. \A q \in Procs : step'[q] # "idle" <=> step[q] # "idle"
  BY <1>1, <1>2
<1>4. up /\ DOMAIN copy[p] = DOMAIN sessions
  BY <1>1 DEF StoreInv, SaveInv
<1>5. ~legacy' => \/ ~legacy
                  \/ \A i \in DOMAIN sessions : Tracked(copy[p][i]) # {}
  BY <1>1, <1>4 DEF StillLegacy, AllTracked
<1>6. Alone' /\ OldFiles' /\ KeptInv' /\ CopyInv'
  BY <1>1, <1>3
  DEF KInv, Alone, Apart, OldFiles, KeptInv, KeptOnDisk, CopyInv, Keeps
<1>7. LegacySound'
  <2>1. \A i \in DOMAIN sessions : Tracked(copy[p][i]) \subseteq Tracked(sessions[i])
    BY <1>1 DEF KInv, CopyInv, Keeps
  <2> QED BY <1>1, <1>4, <1>5, <2>1 DEF KInv, LegacySound
<1>8. CopySound'
  <2>1. ASSUME NEW q \in Procs, Apart(q)', Migrated(q)',
               NEW i \in old \cap DOMAIN sessions
        PROVE  Tracked(copy[q][i]) # {}
    <3>1. Apart(q)
      BY <1>1, <1>3, <2>1 DEF Apart
    <3>2. q = p
      BY <1>1, <3>1 DEF KInv, Alone
    <3>3. ~legacy'
      BY <1>2, <2>1, <3>2 DEF Migrated
    <3>4. CASE ~legacy
      BY <1>1, <3>1, <3>2, <3>4 DEF KInv, CopySound, Migrated
    <3> QED BY <1>5, <3>2, <3>3, <3>4
  <2> QED BY <1>1, <2>1 DEF CopySound
<1> QED BY <1>6, <1>7, <1>8 DEF KInv

LEMMA StoredKeeps ==
  ASSUME NEW t \in Tables, NEW i \in DOMAIN t
  PROVE  Tracked(Stored(t)[i]) = Tracked(t[i])
<1>1. t[i] \in Session
  BY TableFacts
<1>2. Stored(t)[i].past = t[i].past /\ Stored(t)[i].agent = t[i].agent
  BY <1>1 DEF Stored, Session
<1> QED BY <1>2 DEF Tracked

\* The file is replaced: every id it held is in the copy, if p is apart, and
\* those of the copy are in memory.
LEMMA ReplaceKeeps ==
  ASSUME StoreInv, KInv, NEW p \in Procs, Write(p), Replace(p)
  PROVE  OldFiles' /\ KeptInv' /\ LegacySound'
<1>1. /\ step[p] \in {"legacy", "migrated"} /\ up
      /\ DOMAIN copy[p] = DOMAIN sessions
      /\ copy[p] \in Tables /\ DOMAIN sessions \subseteq Ids
      /\ UNCHANGED <<up, sessions, legacy, old>>
  BY TableFacts DEF Write, StoreInv, SaveInv, TypeOK, table
<1>2. /\ disk'.file /\ disk'.version = 1 /\ disk'.legacy = (step[p] = "legacy")
      /\ disk'.sessions = Stored(copy[p])
      /\ issued' = issued \cup DOMAIN copy[p]
      /\ stale' = (p \in crossed)
  BY DEF Replace
<1>3. /\ DOMAIN disk'.sessions = DOMAIN sessions
      /\ \A i \in DOMAIN sessions : Tracked(disk'.sessions[i]) = Tracked(copy[p][i])
  BY <1>1, <1>2, StoredType, StoredKeeps
<1>4. /\ \A i \in DOMAIN sessions : kept'[i] = kept[i] \cup Tracked(copy[p][i])
      /\ \A i \in Ids \ DOMAIN sessions : kept'[i] = {}
  BY <1>1 DEF Replace
<1>5. \A i \in DOMAIN sessions :
        /\ Tracked(copy[p][i]) \subseteq Tracked(sessions[i])
        /\ p \notin crossed => kept[i] \subseteq Tracked(copy[p][i])
        /\ kept[i] \subseteq Tracked(sessions[i])
  BY <1>1 DEF KInv, CopyInv, KeptInv, Keeps
<1>6. OldFiles'
  BY <1>1, <1>2 DEF KInv, OldFiles
<1>7. KeptInv'
  <2>1. ~stale' => \A i \in DOMAIN disk'.sessions : kept'[i] \subseteq Tracked(disk'.sessions[i])
    BY <1>2, <1>3, <1>4, <1>5
  <2>2. \A i \in DOMAIN sessions : kept'[i] \subseteq Tracked(sessions[i])
    BY <1>4, <1>5
  <2> QED BY <1>1, <1>3, <1>4, <2>1, <2>2 DEF KeptInv, KeptOnDisk
<1>8. LegacySound'
  <2>1. ~disk'.legacy /\ ~stale' =>
          \A i \in old \cap DOMAIN sessions : Tracked(copy[p][i]) # {}
    BY <1>1, <1>2 DEF KInv, CopySound, Apart, Migrated
  <2> QED BY <1>1, <1>3, <2>1 DEF KInv, LegacySound
<1> QED BY <1>6, <1>7, <1>8

LEMMA WriteKeeps ==
  ASSUME StoreInv, KInv, NEW p \in Procs, Write(p)
  PROVE  KInv'
<1>1. /\ step[p] # "idle" /\ up /\ UNCHANGED <<up, sessions, legacy, old>>
      /\ crossed' = crossed \ {p}
  BY DEF Write, StoreInv, SaveInv, TypeOK, table
<1>2. /\ step'[p] = "idle"
      /\ \A q \in Procs \ {p} : step'[q] = step[q] /\ copy'[q] = copy[q]
  BY WriteFacts
\* The other saves overlap this one.
<1>3. \A q \in Procs : step'[q] # "idle" => q \in crossed'
  BY <1>1, <1>2 DEF KInv, Alone, Apart
<1>4. Alone' /\ CopySound'
  BY <1>3 DEF Alone, CopySound, Apart
<1>5. CopyInv'
  BY <1>1, <1>2, <1>3 DEF KInv, CopyInv, Keeps
<1>6. OldFiles' /\ KeptInv' /\ LegacySound'
  <2>1. CASE Replace(p)
    BY <2>1, ReplaceKeeps
  <2>2. CASE UNCHANGED <<disk, issued, stale, kept>>
    BY <1>1, <2>2 DEF KInv, OldFiles, KeptInv, KeptOnDisk, LegacySound
  <2> QED BY <2>1, <2>2 DEF Write
<1> QED BY <1>4, <1>5, <1>6 DEF KInv

LEMMA StripKeeps == \A s \in Session : Tracked(Strip(s)) = Tracked(s)
<1> SUFFICES ASSUME NEW s \in Session PROVE Tracked(Strip(s)) = Tracked(s)
  OBVIOUS
<1>1. CASE s.agent = Continue
  <2>1. Strip(s).past = s.past /\ Strip(s).agent = NoId
    BY <1>1 DEF Strip, Session
  <2> QED BY <1>1, <2>1, SessionStoreAssumption DEF Tracked
<1>2. CASE s.agent # Continue
  BY <1>2 DEF Strip
<1> QED BY <1>1, <1>2

LEMMA LoadKeeps ==
  ASSUME StoreInv, KInv, Load
  PROVE  KInv'
<1>1. /\ ~up /\ \A p \in Procs : step'[p] = "idle"
      /\ UNCHANGED <<disk, ghosts>>
  BY DEF Load, saves, StoreInv, SaveInv, TypeOK
<1> USE DEF ghosts, ghostsOfFile
<1>2. disk.sessions \in [DOMAIN disk.sessions -> Session]
  BY TableFacts DEF StoreInv, TypeOK, Snapshot
<1>3. /\ DOMAIN sessions' = DOMAIN disk.sessions
      /\ \A i \in DOMAIN disk.sessions : Tracked(sessions'[i]) = Tracked(disk.sessions[i])
  BY <1>2, StripKeeps DEF Load
<1>4. Alone' /\ CopyInv' /\ CopySound'
  BY <1>1 DEF Alone, Apart, CopyInv, CopySound
<1>5. OldFiles'
  BY <1>1 DEF KInv, OldFiles
<1>6. KeptInv'
  BY <1>1, <1>3 DEF KInv, KeptInv, KeptOnDisk
<1>7. LegacySound'
  <2> SUFFICES ASSUME ~legacy', NEW i \in old \cap DOMAIN disk.sessions
               PROVE  Tracked(disk.sessions[i]) # {}
    BY <1>1, <1>3 DEF KInv, LegacySound
  <2>1. CASE disk.version = 1
    BY <1>1, <2>1 DEF Load, KInv, OldFiles, KeptInv, LegacySound
  <2>2. CASE disk.version = 0
    <3>1. disk.file /\ disk.sessions[i].agent # Continue
          /\ ~(disk.sessions[i].agent = NoId /\ disk.sessions[i].past = {})
      BY <2>2 DEF Load, KInv, OldFiles
    <3>2. disk.sessions[i] \in Session
      BY <1>2
    <3> QED BY <3>1, <3>2 DEF Session, Tracked
  <2>3. disk.version \in {0, 1}
    BY DEF StoreInv, TypeOK, Snapshot
  <2> QED BY <2>1, <2>2, <2>3
<1> QED BY <1>4, <1>5, <1>6, <1>7 DEF KInv

LEMMA CrashKeeps ==
  ASSUME StoreInv, KInv, Crash
  PROVE  KInv'
<1>1. ~up' /\ UNCHANGED <<disk, issued>> /\ \A p \in Procs : step'[p] = "idle"
  BY DEF Crash
<1>2. Alone' /\ CopyInv' /\ CopySound'
  BY <1>1 DEF Alone, Apart, CopyInv, CopySound
<1>3. CASE stale
  <2>1. old' = {} /\ stale' = FALSE /\ kept' = IdsIn(disk.sessions)
    BY <1>3 DEF Crash, LosesStale
  <2>2. OldFiles' /\ LegacySound'
    BY <1>1, <2>1 DEF KInv, OldFiles, LegacySound
  <2>3. DOMAIN disk.sessions \subseteq Ids
    BY TableFacts DEF StoreInv, TypeOK, Snapshot
  <2>4. KeptInv'
    BY <1>1, <2>1, <2>3, IdsInKept DEF KeptInv, KeptOnDisk
  <2> QED BY <1>2, <2>2, <2>4 DEF KInv
<1>4. CASE ~stale
  <2>1. UNCHANGED <<old, stale, kept>>
    BY <1>4 DEF Crash
  <2>2. OldFiles' /\ LegacySound' /\ KeptInv'
    BY <1>1, <1>4, <2>1 DEF KInv, OldFiles, LegacySound, KeptInv, KeptOnDisk
  <2> QED BY <1>2, <2>2 DEF KInv
<1> QED BY <1>3, <1>4

LEMMA StepKept == StoreInv /\ KInv /\ [Next]_vars => KInv'
<1> SUFFICES ASSUME StoreInv, KInv, [Next]_vars PROVE KInv'
  OBVIOUS
<1>1. CASE UNCHANGED vars
  <2>1. UNCHANGED <<up, sessions, legacy, disk, step, copy, issued, old, crossed,
                    stale, kept>>
    BY <1>1 DEF vars, table, saves, ghosts, ghostsOfFile
  <2>2. Alone' /\ OldFiles' /\ KeptInv' /\ CopyInv'
    BY <2>1
    DEF KInv, Alone, Apart, OldFiles, KeptInv, KeptOnDisk, CopyInv, Keeps
  <2>3. LegacySound' /\ CopySound'
    BY <2>1 DEF KInv, LegacySound, CopySound, Apart, Migrated
  <2> QED BY <2>2, <2>3 DEF KInv
<1> QED BY <1>1, SessionStepKeeps, SaveKeeps, ChangeKeeps, SettleKeeps, WriteKeeps,
           LoadKeeps, CrashKeeps DEF Next

LEMMA KeptInvariant == Spec => [](StoreInv /\ KInv)
<1>1. Init => StoreInv /\ KInv
  BY InitInv, InitKept
<1>2. StoreInv /\ KInv /\ [Next]_vars => StoreInv' /\ KInv'
  BY StepInv, StepKept
<1> QED BY <1>1, <1>2, PTL DEF Spec

\* The legacy flag is on as long as a Session of an old file has no tracked id,
\* in memory, and in a file whose last save overlapped no other, with any number
\* of goroutines that call Save.
THEOREM StoreLegacySound == Spec => []LegacySound
<1>1. KInv => LegacySound
  BY DEF KInv
<1> QED BY <1>1, KeptInvariant, PTL

\* The file has every agent id it ever held of its Sessions, unless its last
\* save overlapped another one, with any number of goroutines that call Save.
THEOREM StoreKeptOnDisk == Spec => []KeptOnDisk
<1>1. KInv => KeptOnDisk
  BY DEF KInv, KeptInv
<1> QED BY <1>1, KeptInvariant, PTL

=============================================================================
