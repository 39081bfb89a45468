--------------------------- MODULE WorkspacesProofs ---------------------------
(***************************************************************************)
(* Theorems about Workspaces, for any number of messages and channels and  *)
(* a reaper that strikes any number of times: an entry counts the turns    *)
(* that began on it, an agent that runs can be reaped, and, where the      *)
(* steps before a turn are shorter than the idle timeout, a channel has    *)
(* one turn at a time although its lock moves from entry to entry.         *)
(***************************************************************************)
EXTENDS Workspaces, FiniteSetTheorems, TLAPS

USE WorkspacesAssumption DEF None

\* The values of what the invariants speak of.
Shape ==
  /\ current \in Nat /\ entries \in Nat /\ reaps \in 0 .. MaxReaps
  /\ turns \in [Entries -> Nat]
  /\ idle \in [Entries -> BOOLEAN]
  /\ state \in [Channels -> Nat] /\ states \in Nat
  /\ pc \in [Msgs -> Labels]
  /\ manager \in [Msgs -> Nat]
  /\ counted \in [Msgs -> Nat]
  /\ talking \subseteq Channels \X Nat
  /\ targets \subseteq Channels \X Nat

\* The turns counted on entry n.
Counting(n) == {m \in Msgs : counted[m] = n /\ pc[m] \in {"turn", "ending"}}
Relaying(n) == {c \in Channels : <<c, n>> \in talking}

\* Entries are numbered as they are made, one for each time the reaper has
\* struck; an entry that is not made yet counts nothing.
CountInv ==
  /\ entries = reaps + (IF current = None THEN 0 ELSE 1)
  /\ current \in {None, entries}
  /\ \A m \in Msgs : pc[m] \in {"turn", "ending"} => counted[m] \in 1 .. entries
  /\ \A t \in talking : t[2] <= entries
  /\ \A n \in Entries : n > entries => turns[n] = 0 /\ ~idle[n]
  /\ TurnsCounted

Holding == {"start", "begin", "turn", "orphan", "compress"}

\* The lock of a Session.
LockInv ==
  /\ \A m \in Msgs : pc[m] \in Holding => SessionOf(m) \in busy
  /\ \A m, n \in Msgs :
       pc[m] \in Holding /\ pc[n] \in Holding /\ SessionOf(m) = SessionOf(n) => m = n

\* While no entry has lost a turn, all messages between their arrival and the
\* end of their turn have the manager of the entry in the pool, and an entry
\* that is idle has none of them but turns that are counted on it.
FreshInv ==
  strays = {} =>
    /\ current # None /\ idle[current] =>
         \A m \in Msgs : pc[m] \notin {"create", "lock", "retry"} \cup (Holding \ {"turn"})
    /\ \A m \in Msgs : pc[m] \in {"lock", "retry"} \cup Holding =>
         current # None /\ manager[m] = current
    /\ \A m \in Msgs : pc[m] = "turn" => counted[m] = current

-----------------------------------------------------------------------------

LEMMA EntryFacts ==
  ASSUME Shape, CountInv
  PROVE  /\ Entry \in Entries /\ Entry \in Nat \ {0}
         /\ Entry = IF current = None THEN entries + 1 ELSE current
         /\ current # None => current = entries /\ current \in Entries
         /\ entries <= MaxReaps + 1
         /\ \A n \in 1 .. entries : n \in Entries
BY DEF Shape, CountInv, Entry, Entries

\* What TurnsCounted says, with the sets named.
LEMMA Sums ==
  ASSUME NEW k
  PROVE  /\ k = current => (TurnsCounted <=>
              (k # None /\ k \notin strays =>
                 turns[k] = Cardinality(Counting(k)) + Cardinality(Relaying(k))))
         /\ k = current' => (TurnsCounted' <=>
              (k # None /\ k \notin strays' =>
                 turns'[k] = Cardinality(Counting(k)') + Cardinality(Relaying(k)')))
         /\ IsFiniteSet(Counting(k)) /\ IsFiniteSet(Relaying(k))
         /\ Cardinality(Counting(k)) \in Nat /\ Cardinality(Relaying(k)) \in Nat
<1>1. Counting(k) \in SUBSET Msgs /\ Relaying(k) \in SUBSET Channels
  BY DEF Counting, Relaying
<1>2. IsFiniteSet(Counting(k)) /\ IsFiniteSet(Relaying(k))
  BY <1>1, FS_Subset
<1>3. Cardinality(Counting(k)) \in Nat /\ Cardinality(Relaying(k)) \in Nat
  BY <1>2, FS_CardinalityType
<1>4. k = current => (TurnsCounted <=>
              (k # None /\ k \notin strays =>
                 turns[k] = Cardinality(Counting(k)) + Cardinality(Relaying(k))))
  BY DEF TurnsCounted, Counting, Relaying
<1>5. k = current' => (TurnsCounted' <=>
              (k # None /\ k \notin strays' =>
                 turns'[k] = Cardinality(Counting(k)') + Cardinality(Relaying(k)')))
  BY DEF TurnsCounted, Counting, Relaying
<1> QED BY <1>2, <1>3, <1>4, <1>5

LEMMA BeginTyped ==
  ASSUME Shape, NEW n
  PROVE  /\ [turns EXCEPT ![n] = @ + 1] \in [Entries -> Nat]
         /\ [turns EXCEPT ![n] = IF @ > 0 THEN @ - 1 ELSE 0] \in [Entries -> Nat]
<1>1. \A x \in Nat : x + 1 \in Nat /\ (IF x > 0 THEN x - 1 ELSE 0) \in Nat
  OBVIOUS
<1> QED BY <1>1 DEF Shape

LEMMA ShapeStep ==
  ASSUME Shape, CountInv, [Next]_vars
  PROVE  Shape'
<1> USE DEF Labels
<1>1. ASSUME NEW m \in Msgs, Arrive(m) PROVE Shape'
  BY <1>1, EntryFacts
  DEF Shape, Arrive, Go, poolVars, stateVars, msgVars, readerVars, reaperVars
<1>2. ASSUME NEW m \in Msgs, Create(m) PROVE Shape'
  BY <1>2, EntryFacts
  DEF Shape, Create, Go, MakeEntry, Entry, poolVars, stateVars, msgVars,
      readerVars, reaperVars
<1>3. ASSUME NEW m \in Msgs, Lock(m) PROVE Shape'
  BY <1>3, EntryFacts
  DEF Shape, Lock, Go, Free, Take, poolVars, stateVars, msgVars, readerVars,
      reaperVars
<1>4. ASSUME NEW m \in Msgs, Retry(m) PROVE Shape'
  BY <1>4, EntryFacts
  DEF Shape, Retry, Go, Free, Take, poolVars, stateVars, msgVars, readerVars,
      reaperVars
<1>5. ASSUME NEW m \in Msgs, Start(m) PROVE Shape'
  BY <1>5, EntryFacts
  DEF Shape, Start, Go, poolVars, stateVars, msgVars, readerVars, reaperVars
<1>6. ASSUME NEW m \in Msgs, StartFails(m) PROVE Shape'
  BY <1>6, EntryFacts
  DEF Shape, StartFails, Go, poolVars, stateVars, msgVars, readerVars,
      reaperVars
<1>7. ASSUME NEW m \in Msgs, Begin(m) PROVE Shape'
  BY <1>7, EntryFacts
  DEF Shape, Begin, Go, MakeEntry, Entry, BeginTurn, poolVars, stateVars,
      msgVars, readerVars, reaperVars
<1>8. ASSUME NEW m \in Msgs, Fail(m) PROVE Shape'
  BY <1>8, EntryFacts
  DEF Shape, Fail, Go, poolVars, stateVars, msgVars, readerVars, reaperVars
<1>9. ASSUME NEW m \in Msgs, Unlock(m) PROVE Shape'
  BY <1>9, EntryFacts
  DEF Shape, Unlock, Go, poolVars, stateVars, msgVars, readerVars, reaperVars
<1>10. ASSUME NEW m \in Msgs, Finish(m) PROVE Shape'
  <2>1. turns' \in [Entries -> Nat]
    BY <1>10, BeginTyped DEF Finish, EndTurn
  <2>2. idle' \in [Entries -> BOOLEAN]
    BY <1>10 DEF Finish, EndTurn, Shape
  <2>3. pc' \in [Msgs -> Labels]
    BY <1>10 DEF Finish, Go, Shape
  <2> QED BY <1>10, <2>1, <2>2, <2>3 DEF Finish, Shape, stateVars, readerVars, reaperVars
<1>11. ASSUME NEW c \in Channels, Talk(c) PROVE Shape'
  <2>1. turns' \in [Entries -> Nat]
    BY <1>11, BeginTyped DEF Talk, BeginTurn, Shape
  <2>2. idle' \in [Entries -> BOOLEAN]
    BY <1>11 DEF Talk, BeginTurn, Shape
  <2>3. talking' \subseteq Channels \X Nat
    BY <1>11 DEF Talk, Shape
  <2> QED BY <1>11, <2>1, <2>2, <2>3 DEF Talk, Shape, stateVars, msgVars, reaperVars
<1>12. ASSUME NEW t \in talking, Quiet(t[1], t[2]) PROVE Shape'
  <2>1. turns' \in [Entries -> Nat]
    BY <1>12, BeginTyped DEF Quiet, EndTurn, Shape
  <2>2. idle' \in [Entries -> BOOLEAN]
    BY <1>12 DEF Quiet, EndTurn, Shape
  <2>3. talking' \subseteq Channels \X Nat
    BY <1>12 DEF Quiet, Shape
  <2> QED BY <1>12, <2>1, <2>2, <2>3 DEF Quiet, Shape, stateVars, msgVars, reaperVars
<1>13. CASE Age
  BY <1>13, EntryFacts
  DEF Shape, Age, Waiting, LongSteps, poolVars, stateVars, msgVars, readerVars,
      reaperVars
<1>14. CASE Reap
  BY <1>14, EntryFacts
  DEF Shape, Reap, poolVars, stateVars, msgVars, readerVars, reaperVars
<1>15. CASE Collect
  BY <1>15, EntryFacts
  DEF Shape, Collect, poolVars, stateVars, msgVars, readerVars, reaperVars
<1>16. ASSUME NEW t \in targets, Clean(t[1], t[2]) PROVE Shape'
  BY <1>16, EntryFacts
  DEF Shape, Clean, poolVars, stateVars, msgVars, readerVars, reaperVars
<1>17. CASE UNCHANGED vars
  BY <1>17
  DEF Shape, vars, poolVars, stateVars, msgVars, readerVars, reaperVars
<1> QED
  BY <1>1, <1>2, <1>3, <1>4, <1>5, <1>6, <1>7, <1>8, <1>9, <1>10,
     <1>11, <1>12, <1>13, <1>14, <1>15, <1>16, <1>17
  DEF Next

\* The lock excludes messages that have their Session from one manager.
LEMMA LockStep ==
  ASSUME Shape, LockInv, [Next]_vars
  PROVE  LockInv'
<1> USE DEF Shape, Holding, SessionOf
<1>1. ASSUME NEW m \in Msgs, Arrive(m) PROVE LockInv'
  BY <1>1
  DEF LockInv, Arrive, Go, poolVars, stateVars, msgVars, readerVars, reaperVars
<1>2. ASSUME NEW m \in Msgs, Create(m) PROVE LockInv'
  BY <1>2
  DEF LockInv, Create, Go, MakeEntry, Entry, poolVars, stateVars, msgVars,
      readerVars, reaperVars
<1>3. ASSUME NEW m \in Msgs, Lock(m) PROVE LockInv'
  BY <1>3
  DEF LockInv, Lock, Go, Free, Take, poolVars, stateVars, msgVars, readerVars,
      reaperVars
<1>4. ASSUME NEW m \in Msgs, Retry(m) PROVE LockInv'
  BY <1>4
  DEF LockInv, Retry, Go, Free, Take, poolVars, stateVars, msgVars, readerVars,
      reaperVars
<1>5. ASSUME NEW m \in Msgs, Start(m) PROVE LockInv'
  BY <1>5
  DEF LockInv, Start, Go, poolVars, stateVars, msgVars, readerVars, reaperVars
<1>6. ASSUME NEW m \in Msgs, StartFails(m) PROVE LockInv'
  BY <1>6
  DEF LockInv, StartFails, Go, poolVars, stateVars, msgVars, readerVars,
      reaperVars
<1>7. ASSUME NEW m \in Msgs, Begin(m) PROVE LockInv'
  BY <1>7
  DEF LockInv, Begin, Go, MakeEntry, Entry, BeginTurn, poolVars, stateVars,
      msgVars, readerVars, reaperVars
<1>8. ASSUME NEW m \in Msgs, Fail(m) PROVE LockInv'
  BY <1>8
  DEF LockInv, Fail, Go, poolVars, stateVars, msgVars, readerVars, reaperVars
<1>9. ASSUME NEW m \in Msgs, Unlock(m) PROVE LockInv'
  BY <1>9
  DEF LockInv, Unlock, Go, poolVars, stateVars, msgVars, readerVars, reaperVars
<1>10. ASSUME NEW m \in Msgs, Finish(m) PROVE LockInv'
  BY <1>10
  DEF LockInv, Finish, Go, EndTurn, poolVars, stateVars, msgVars, readerVars,
      reaperVars
<1>11. ASSUME NEW c \in Channels, Talk(c) PROVE LockInv'
  BY <1>11
  DEF LockInv, Talk, BeginTurn, Talking, poolVars, stateVars, msgVars,
      readerVars, reaperVars
<1>12. ASSUME NEW t \in talking, Quiet(t[1], t[2]) PROVE LockInv'
  BY <1>12
  DEF LockInv, Quiet, EndTurn, poolVars, stateVars, msgVars, readerVars,
      reaperVars
<1>13. CASE Age
  BY <1>13
  DEF LockInv, Age, Waiting, LongSteps, poolVars, stateVars, msgVars,
      readerVars, reaperVars
<1>14. CASE Reap
  BY <1>14
  DEF LockInv, Reap, poolVars, stateVars, msgVars, readerVars, reaperVars
<1>15. CASE Collect
  BY <1>15
  DEF LockInv, Collect, poolVars, stateVars, msgVars, readerVars, reaperVars
<1>16. ASSUME NEW t \in targets, Clean(t[1], t[2]) PROVE LockInv'
  BY <1>16
  DEF LockInv, Clean, poolVars, stateVars, msgVars, readerVars, reaperVars
<1>17. CASE UNCHANGED vars
  BY <1>17
  DEF LockInv, vars, poolVars, stateVars, msgVars, readerVars, reaperVars
<1> QED
  BY <1>1, <1>2, <1>3, <1>4, <1>5, <1>6, <1>7, <1>8, <1>9, <1>10,
     <1>11, <1>12, <1>13, <1>14, <1>15, <1>16, <1>17
  DEF Next

\* Entries count.
LEMMA CountStep ==
  ASSUME Shape, CountInv, [Next]_vars
  PROVE  CountInv'
<1> USE DEF Shape
<1>1. ASSUME NEW m \in Msgs, Arrive(m) PROVE CountInv'
  BY <1>1, EntryFacts
  DEF CountInv, TurnsCounted, Arrive, Go, poolVars, stateVars, msgVars,
      readerVars, reaperVars
<1>2. ASSUME NEW m \in Msgs, Create(m) PROVE CountInv'
  <2>0. PICK k : k = Entry
    OBVIOUS
  <2>1. /\ UNCHANGED <<turns, idle, counted, talking, strays, reaps>>
        /\ current' = k /\ entries' = IF current = None THEN entries + 1 ELSE entries
        /\ \E l \in {"lock", "end"} : pc' = [pc EXCEPT ![m] = l]
        /\ pc[m] = "create"
    BY <1>2, <2>0 DEF Create, MakeEntry, Go, readerVars, reaperVars
  <2>2. Counting(k)' = Counting(k) /\ Relaying(k)' = Relaying(k)
    BY <2>1 DEF Counting, Relaying
  <2>3. TurnsCounted'
    <3>1. CASE current = None
      <4>1. k = entries + 1 /\ turns[k] = 0
        BY <2>0, <3>1, EntryFacts DEF CountInv
      <4>2. Counting(k) = {} /\ Relaying(k) = {}
        BY <4>1 DEF CountInv, Counting, Relaying
      <4>3. Cardinality(Counting(k)') = 0 /\ Cardinality(Relaying(k)') = 0
        BY <2>2, <4>2, FS_EmptySet
      <4> QED BY <2>1, <4>1, <4>3, Sums
    <3>2. CASE current # None
      <4>1. current' = current /\ k = current
        BY <2>0, <2>1, <3>2, EntryFacts
      <4>2. TurnsCounted
        BY DEF CountInv
      <4> QED BY <2>1, <2>2, <4>1, <4>2, Sums
    <3> QED BY <3>1, <3>2
  <2>4. \A x \in Msgs : pc'[x] \in {"turn", "ending"} => pc[x] = pc'[x]
    BY <2>1
  <2>5. /\ entries' = reaps' + (IF current' = None THEN 0 ELSE 1)
        /\ current' \in {None, entries'} /\ entries <= entries'
    BY <2>0, <2>1, EntryFacts DEF CountInv
  <2>6. \A x \in Msgs : pc'[x] \in {"turn", "ending"} => counted'[x] \in 1 .. entries'
    BY <2>1, <2>4, <2>5 DEF CountInv
  <2>7. \A t \in talking' : t[2] <= entries'
    BY <2>1, <2>5 DEF CountInv
  <2>8. \A n \in Entries : n > entries' => turns'[n] = 0 /\ ~idle'[n]
    <3>1. TAKE n \in Entries
    <3>2. HAVE n > entries'
    <3>3. n > entries
      BY <2>5, <3>2, <2>1, EntryFacts DEF Entries
    <3> QED BY <2>1, <3>3 DEF CountInv
  <2> QED BY <2>3, <2>5, <2>6, <2>7, <2>8 DEF CountInv
<1>3. ASSUME NEW m \in Msgs, Lock(m) PROVE CountInv'
  BY <1>3, EntryFacts, ZenonT(60)
  DEF CountInv, TurnsCounted, Lock, Go, Free, Take, poolVars, stateVars,
      msgVars, readerVars, reaperVars
<1>4. ASSUME NEW m \in Msgs, Retry(m) PROVE CountInv'
  BY <1>4, EntryFacts
  DEF CountInv, TurnsCounted, Retry, Go, Free, Take, poolVars, stateVars,
      msgVars, readerVars, reaperVars
<1>5. ASSUME NEW m \in Msgs, Start(m) PROVE CountInv'
  BY <1>5, EntryFacts
  DEF CountInv, TurnsCounted, Start, Go, poolVars, stateVars, msgVars,
      readerVars, reaperVars
<1>6. ASSUME NEW m \in Msgs, StartFails(m) PROVE CountInv'
  BY <1>6, EntryFacts
  DEF CountInv, TurnsCounted, StartFails, Go, poolVars, stateVars, msgVars,
      readerVars, reaperVars
<1>7. ASSUME NEW m \in Msgs, Begin(m) PROVE CountInv'
  <2>0. PICK k : k = Entry
    OBVIOUS
  <2>1. /\ UNCHANGED <<talking, strays, reaps>> /\ pc[m] = "begin"
        /\ current' = k /\ entries' = IF current = None THEN entries + 1 ELSE entries
        /\ pc' = [pc EXCEPT ![m] = "turn"] /\ counted' = [counted EXCEPT ![m] = k]
        /\ turns' = [turns EXCEPT ![k] = turns[k] + 1] /\ idle' = [idle EXCEPT ![k] = FALSE]
    BY <1>7, <2>0 DEF Begin, BeginTurn, MakeEntry, Go, readerVars, reaperVars
  <2>2. /\ Relaying(k)' = Relaying(k)
        /\ Counting(k)' = Counting(k) \cup {m} /\ m \notin Counting(k)
    BY <2>1 DEF Counting, Relaying
  <2>3. TurnsCounted'
    <3>1. turns'[k] = turns[k] + 1
      BY <2>0, <2>1, EntryFacts
    <3>2. Cardinality(Counting(k)') = Cardinality(Counting(k)) + 1
      <4>1. IsFiniteSet(Counting(k))
        BY Sums
      <4>2. Cardinality(Counting(k) \cup {m}) = Cardinality(Counting(k)) + 1
        BY <2>2, <4>1, FS_AddElement
      <4> QED BY <2>2, <4>2
    <3>3. k \in strays' \/ turns[k] = Cardinality(Counting(k)) + Cardinality(Relaying(k))
      <4>1. CASE current = None
        <5>1. k = entries + 1 /\ turns[k] = 0
          BY <2>0, <4>1, EntryFacts DEF CountInv
        <5>2. Counting(k) = {} /\ Relaying(k) = {}
          BY <5>1 DEF CountInv, Counting, Relaying
        <5>3. Cardinality(Counting(k)) = 0 /\ Cardinality(Relaying(k)) = 0
          BY <5>2, FS_EmptySet
        <5> QED BY <5>1, <5>3
      <4>2. CASE current # None
        <5>1. k = current /\ TurnsCounted
          BY <2>0, <4>2, EntryFacts DEF CountInv
        <5>2. k \notin strays => turns[k] = Cardinality(Counting(k)) + Cardinality(Relaying(k))
          BY <4>2, <5>1, Sums
        <5>3. strays' = strays
          BY <2>1
        <5> QED BY <5>2, <5>3
      <4> QED BY <4>1, <4>2
    <3>4. Cardinality(Counting(k)) \in Nat /\ Cardinality(Relaying(k)) \in Nat
      BY Sums
    <3>5. k \in strays' \/ turns'[k] = Cardinality(Counting(k)') + Cardinality(Relaying(k)')
      BY <2>2, <3>1, <3>2, <3>3, <3>4
    <3>6. k = current'
      BY <2>1
    <3>7. TurnsCounted' <=>
            (k # None /\ k \notin strays' =>
               turns'[k] = Cardinality(Counting(k)') + Cardinality(Relaying(k)'))
      BY <3>6, Sums
    <3> QED BY <3>5, <3>7
  <2>4. \A x \in Msgs \ {m} : pc'[x] = pc[x] /\ counted'[x] = counted[x]
    BY <2>1
  <2>5. counted'[m] = k /\ k \in 1 .. entries' /\ entries <= entries'
    BY <2>0, <2>1, EntryFacts DEF CountInv
  <2>6. \A n \in Entries : n > entries' => turns'[n] = 0 /\ ~idle'[n]
    <3>1. TAKE n \in Entries
    <3>2. HAVE n > entries'
    <3>3. n # k /\ n > entries
      BY <2>5, <3>2, <2>1, EntryFacts, SMTT(30) DEF Entries
    <3> QED BY <2>1, <3>3 DEF CountInv
  <2>7. \A x \in Msgs : pc'[x] \in {"turn", "ending"} => counted'[x] \in 1 .. entries'
    BY <2>1, <2>4, <2>5 DEF CountInv
  <2>8. /\ entries' = reaps' + (IF current' = None THEN 0 ELSE 1)
        /\ current' \in {None, entries'}
    BY <2>0, <2>1, EntryFacts DEF CountInv
  <2>9. \A t \in talking' : t[2] <= entries'
    BY <2>1, <2>5 DEF CountInv
  <2> QED BY <2>3, <2>6, <2>7, <2>8, <2>9 DEF CountInv
<1>8. ASSUME NEW m \in Msgs, Fail(m) PROVE CountInv'
  BY <1>8, EntryFacts
  DEF CountInv, TurnsCounted, Fail, Go, poolVars, stateVars, msgVars,
      readerVars, reaperVars
<1>9. ASSUME NEW m \in Msgs, Unlock(m) PROVE CountInv'
  BY <1>9, EntryFacts
  DEF CountInv, TurnsCounted, Unlock, Go, poolVars, stateVars, msgVars,
      readerVars, reaperVars
<1>10. ASSUME NEW m \in Msgs, Finish(m) PROVE CountInv'
  <2>0. PICK k : k = current
    OBVIOUS
  <2>7. PICK n : n = counted[m]
    OBVIOUS
  <2>1. /\ UNCHANGED <<current, entries, counted, talking, strays, reaps>>
        /\ pc[m] = "ending" /\ pc' = [pc EXCEPT ![m] = "end"]
        /\ turns' = [turns EXCEPT ![n] = IF turns[n] > 0 THEN turns[n] - 1 ELSE 0]
        /\ idle' = [idle EXCEPT ![n] = FALSE]
    BY <1>10, <2>7 DEF Finish, EndTurn, Go, readerVars, reaperVars
  <2>2. n \in 1 .. entries /\ n \in Entries
    BY <2>1, <2>7, EntryFacts DEF CountInv
  <2>3. Relaying(k)' = Relaying(k) /\ k = current'
    BY <2>0, <2>1 DEF Relaying
  <2>4. TurnsCounted'
    <3>0. TurnsCounted
      BY DEF CountInv
    <3>1. CASE n = k
      <4>1. Counting(k)' = Counting(k) \ {m} /\ m \in Counting(k)
        BY <2>1, <2>7, <3>1 DEF Counting
      <4>2. Cardinality(Counting(k)') = Cardinality(Counting(k)) - 1
        <5>1. IsFiniteSet(Counting(k))
          BY Sums
        <5>2. Cardinality(Counting(k) \ {m}) = Cardinality(Counting(k)) - 1
          BY <4>1, <5>1, FS_RemoveElement
        <5> QED BY <4>1, <5>2
      <4>3. turns'[k] = IF turns[k] > 0 THEN turns[k] - 1 ELSE 0
        BY <2>1, <2>2, <3>1
      <4>4. Cardinality(Counting(k)) # 0
        BY <4>1, Sums, FS_EmptySet
      <4>5. Cardinality(Counting(k)) \in Nat /\ Cardinality(Relaying(k)) \in Nat
        BY Sums
      <4>6. k # None /\ k \notin strays =>
              turns[k] = Cardinality(Counting(k)) + Cardinality(Relaying(k))
        BY <2>0, <3>0, Sums
      <4>7. k # None /\ k \notin strays =>
              turns'[k] = Cardinality(Counting(k)') + Cardinality(Relaying(k)')
        BY <2>3, <4>2, <4>3, <4>4, <4>5, <4>6
      <4> QED BY <2>1, <2>3, <4>7, Sums
    <3>2. CASE n # k
      <4>1. Counting(k)' = Counting(k)
        BY <2>1, <2>7, <3>2 DEF Counting
      <4>2. turns'[k] = turns[k]
        BY <2>1, <2>2, <3>2
      <4> QED BY <2>0, <2>1, <2>3, <3>0, <4>1, <4>2, Sums
    <3> QED BY <3>1, <3>2
  <2>5. \A x \in Entries : x > entries => turns'[x] = turns[x] /\ idle'[x] = idle[x]
    <3>1. TAKE x \in Entries
    <3>2. HAVE x > entries
    <3>3. x # n
      BY <2>2, <3>2 DEF Entries
    <3> QED BY <2>1, <3>3
  <2>6. \A x \in Msgs : pc'[x] \in {"turn", "ending"} => pc[x] = pc'[x]
    BY <2>1
  <2> QED BY <2>1, <2>4, <2>5, <2>6 DEF CountInv
<1>11. ASSUME NEW c \in Channels, Talk(c) PROVE CountInv'
  <2>0. PICK k : k = current
    OBVIOUS
  <2>1. /\ UNCHANGED <<current, entries, counted, pc, strays, reaps>>
        /\ talking' = talking \cup {<<c, k>>} /\ ~Talking(c)
        /\ k = None => UNCHANGED <<turns, idle>>
        /\ k # None => turns' = [turns EXCEPT ![k] = turns[k] + 1]
                       /\ idle' = [idle EXCEPT ![k] = FALSE]
    BY <1>11, <2>0 DEF Talk, BeginTurn, msgVars, reaperVars
  <2>2. /\ Counting(k)' = Counting(k)
        /\ Relaying(k)' = Relaying(k) \cup {c} /\ c \notin Relaying(k)
    BY <2>1 DEF Counting, Relaying, Talking
  <2>3. TurnsCounted'
    <3>1. Cardinality(Relaying(k)') = Cardinality(Relaying(k)) + 1
      <4>1. IsFiniteSet(Relaying(k))
        BY Sums
      <4>2. Cardinality(Relaying(k) \cup {c}) = Cardinality(Relaying(k)) + 1
        BY <2>2, <4>1, FS_AddElement
      <4> QED BY <2>2, <4>2
    <3>2. k # None => turns'[k] = turns[k] + 1
      BY <2>0, <2>1, EntryFacts
    <3>3. Cardinality(Counting(k)) \in Nat /\ Cardinality(Relaying(k)) \in Nat
      BY Sums
    <3>4. k # None /\ k \notin strays =>
            turns[k] = Cardinality(Counting(k)) + Cardinality(Relaying(k))
      BY <2>0, Sums DEF CountInv
    <3>5. k # None /\ k \notin strays =>
            turns'[k] = Cardinality(Counting(k)') + Cardinality(Relaying(k)')
      BY <2>2, <3>1, <3>2, <3>3, <3>4
    <3> QED BY <2>0, <2>1, <3>5, Sums
  <2>4. \A x \in Entries : x > entries => turns'[x] = turns[x] /\ idle'[x] = idle[x]
    <3>1. TAKE x \in Entries
    <3>2. HAVE x > entries
    <3>3. x # k
      BY <2>0, <3>2, EntryFacts DEF Entries
    <3> QED BY <2>1, <3>3
  <2>5. \A x \in talking' : x[2] <= entries
    BY <2>0, <2>1, EntryFacts DEF CountInv
  <2> QED BY <2>1, <2>3, <2>4, <2>5 DEF CountInv
<1>12. ASSUME NEW t \in talking, Quiet(t[1], t[2]) PROVE CountInv'
  <2>0. PICK k : k = current
    OBVIOUS
  <2>1. /\ UNCHANGED <<current, entries, counted, pc, reaps>>
        /\ talking' = talking \ {<<t[1], t[2]>>} /\ <<t[1], t[2]>> \in talking
        /\ strays' = strays \cup ({k} \ {None, t[2]})
        /\ k = None => UNCHANGED <<turns, idle>>
        /\ k # None => turns' = [turns EXCEPT ![k] = IF turns[k] > 0 THEN turns[k] - 1 ELSE 0]
                       /\ idle' = [idle EXCEPT ![k] = FALSE]
    BY <1>12, <2>0 DEF Quiet, EndTurn, msgVars, reaperVars
  <2>2. TurnsCounted'
    <3>1. CASE k # None /\ k = t[2]
      <4>1. /\ Counting(k)' = Counting(k)
            /\ Relaying(k)' = Relaying(k) \ {t[1]} /\ t[1] \in Relaying(k)
        BY <2>1, <3>1 DEF Counting, Relaying
      <4>2. Cardinality(Relaying(k)') = Cardinality(Relaying(k)) - 1
        <5>1. IsFiniteSet(Relaying(k))
          BY Sums
        <5>2. Cardinality(Relaying(k) \ {t[1]}) = Cardinality(Relaying(k)) - 1
          BY <4>1, <5>1, FS_RemoveElement
        <5> QED BY <4>1, <5>2
      <4>3. turns'[k] = IF turns[k] > 0 THEN turns[k] - 1 ELSE 0
        BY <2>0, <2>1, <3>1, EntryFacts
      <4>4. Cardinality(Relaying(k)) # 0
        BY <4>1, Sums, FS_EmptySet
      <4>5. Cardinality(Counting(k)) \in Nat /\ Cardinality(Relaying(k)) \in Nat
        BY Sums
      <4>6. k # None /\ k \notin strays =>
              turns[k] = Cardinality(Counting(k)) + Cardinality(Relaying(k))
        BY <2>0, Sums DEF CountInv
      <4>7. k # None /\ k \notin strays =>
              turns'[k] = Cardinality(Counting(k)') + Cardinality(Relaying(k)')
        BY <4>1, <4>2, <4>3, <4>4, <4>5, <4>6
      <4> QED BY <2>0, <2>1, <4>7, Sums
    <3>2. CASE k = None \/ k # t[2]
      BY <2>0, <2>1, <3>2 DEF TurnsCounted
    <3> QED BY <3>1, <3>2
  <2>3. \A x \in Entries : x > entries => turns'[x] = turns[x] /\ idle'[x] = idle[x]
    <3>1. TAKE x \in Entries
    <3>2. HAVE x > entries
    <3>3. x # k
      BY <2>0, <3>2, EntryFacts DEF Entries
    <3> QED BY <2>1, <3>3
  <2> QED BY <2>1, <2>2, <2>3 DEF CountInv
<1>13. CASE Age
  BY <1>13, EntryFacts
  DEF CountInv, TurnsCounted, Age, Waiting, LongSteps, poolVars, stateVars,
      msgVars, readerVars, reaperVars
<1>14. CASE Reap
  BY <1>14, EntryFacts
  DEF CountInv, TurnsCounted, Reap, poolVars, stateVars, msgVars, readerVars,
      reaperVars
<1>15. CASE Collect
  BY <1>15, EntryFacts
  DEF CountInv, TurnsCounted, Collect, poolVars, stateVars, msgVars, readerVars,
      reaperVars
<1>16. ASSUME NEW t \in targets, Clean(t[1], t[2]) PROVE CountInv'
  BY <1>16, EntryFacts
  DEF CountInv, TurnsCounted, Clean, poolVars, stateVars, msgVars, readerVars,
      reaperVars
<1>17. CASE UNCHANGED vars
  BY <1>17
  DEF CountInv, TurnsCounted, vars, poolVars, stateVars, msgVars, readerVars,
      reaperVars
<1> QED
  BY <1>1, <1>2, <1>3, <1>4, <1>5, <1>6, <1>7, <1>8, <1>9, <1>10,
     <1>11, <1>12, <1>13, <1>14, <1>15, <1>16, <1>17
  DEF Next

LEMMA FreshStep ==
  ASSUME Shape, CountInv, FreshInv, Long = {}, Untouched = {}, [Next]_vars
  PROVE  FreshInv'
<1> USE DEF Shape, Holding
<1>1. ASSUME NEW m \in Msgs, Arrive(m) PROVE FreshInv'
  BY <1>1, EntryFacts
  DEF FreshInv, Arrive, Go, poolVars, stateVars, msgVars, readerVars, reaperVars
<1>2. ASSUME NEW m \in Msgs, Create(m) PROVE FreshInv'
  <2> SUFFICES ASSUME strays = {} PROVE FreshInv'
    BY <1>2 DEF Create, readerVars, FreshInv
  <2>1. /\ UNCHANGED <<turns, idle, counted, strays>>
        /\ current' = Entry /\ pc[m] = "create"
        /\ \/ pc' = [pc EXCEPT ![m] = "lock"] /\ manager' = [manager EXCEPT ![m] = Entry]
           \/ pc' = [pc EXCEPT ![m] = "end"] /\ manager' = manager
    BY <1>2 DEF Create, MakeEntry, Go, readerVars
  <2>2. ~idle[Entry]
    BY <2>1, EntryFacts DEF FreshInv, CountInv
  <2>3. \A x \in Msgs \ {m} : pc'[x] = pc[x] /\ manager'[x] = manager[x]
    BY <2>1
  <2>4. current # None => Entry = current
    BY EntryFacts
  <2>5. (pc'[m] = "lock" /\ manager'[m] = Entry) \/ pc'[m] = "end"
    BY <2>1
  <2> QED BY <2>1, <2>2, <2>3, <2>4, <2>5, EntryFacts DEF FreshInv
<1>3. ASSUME NEW m \in Msgs, Lock(m) PROVE FreshInv'
  BY <1>3, EntryFacts
  DEF FreshInv, Lock, Go, Free, Take, poolVars, stateVars, msgVars, readerVars,
      reaperVars
<1>4. ASSUME NEW m \in Msgs, Retry(m) PROVE FreshInv'
  BY <1>4, EntryFacts
  DEF FreshInv, Retry, Go, Free, Take, poolVars, stateVars, msgVars, readerVars,
      reaperVars
<1>5. ASSUME NEW m \in Msgs, Start(m) PROVE FreshInv'
  BY <1>5, EntryFacts
  DEF FreshInv, Start, Go, poolVars, stateVars, msgVars, readerVars, reaperVars
<1>6. ASSUME NEW m \in Msgs, StartFails(m) PROVE FreshInv'
  BY <1>6, EntryFacts
  DEF FreshInv, StartFails, Go, poolVars, stateVars, msgVars, readerVars,
      reaperVars
<1>7. ASSUME NEW m \in Msgs, Begin(m) PROVE FreshInv'
  BY <1>7, EntryFacts
  DEF FreshInv, Begin, Go, MakeEntry, Entry, BeginTurn, poolVars, stateVars,
      msgVars, readerVars, reaperVars
<1>8. ASSUME NEW m \in Msgs, Fail(m) PROVE FreshInv'
  BY <1>8, EntryFacts
  DEF FreshInv, Fail, Go, poolVars, stateVars, msgVars, readerVars, reaperVars
<1>9. ASSUME NEW m \in Msgs, Unlock(m) PROVE FreshInv'
  BY <1>9, EntryFacts
  DEF FreshInv, Unlock, Go, poolVars, stateVars, msgVars, readerVars, reaperVars
<1>10. ASSUME NEW m \in Msgs, Finish(m) PROVE FreshInv'
  BY <1>10, EntryFacts
  DEF FreshInv, Finish, Go, EndTurn, poolVars, stateVars, msgVars, readerVars,
      reaperVars
<1>11. ASSUME NEW c \in Channels, Talk(c) PROVE FreshInv'
  BY <1>11, EntryFacts
  DEF FreshInv, Talk, BeginTurn, Talking, poolVars, stateVars, msgVars,
      readerVars, reaperVars
<1>12. ASSUME NEW t \in talking, Quiet(t[1], t[2]) PROVE FreshInv'
  BY <1>12, EntryFacts
  DEF FreshInv, Quiet, EndTurn, poolVars, stateVars, msgVars, readerVars,
      reaperVars
<1>13. CASE Age
  BY <1>13, EntryFacts
  DEF FreshInv, Age, Waiting, LongSteps, poolVars, stateVars, msgVars,
      readerVars, reaperVars
<1>14. CASE Reap
  <2> SUFFICES ASSUME strays = {} PROVE FreshInv'
    BY <1>14 DEF Reap, readerVars, FreshInv
  <2>1. UNCHANGED <<pc, manager, counted>> /\ current' = None
    BY <1>14 DEF Reap, msgVars
  <2>2. current # None /\ idle[current] /\ turns[current] = 0
    BY <1>14 DEF Reap
  <2>3. Counting(current) = {}
    BY <2>2, Sums, FS_EmptySet DEF CountInv
  <2>4. \A x \in Msgs : pc[x] \notin {"lock", "retry"} \cup Holding
    BY <2>2, <2>3 DEF FreshInv, Counting
  <2> QED BY <2>1, <2>4 DEF FreshInv
<1>15. CASE Collect
  BY <1>15, EntryFacts
  DEF FreshInv, Collect, poolVars, stateVars, msgVars, readerVars, reaperVars
<1>16. ASSUME NEW t \in targets, Clean(t[1], t[2]) PROVE FreshInv'
  BY <1>16, EntryFacts
  DEF FreshInv, Clean, poolVars, stateVars, msgVars, readerVars, reaperVars
<1>17. CASE UNCHANGED vars
  BY <1>17
  DEF FreshInv, vars, poolVars, stateVars, msgVars, readerVars, reaperVars
<1> QED
  BY <1>1, <1>2, <1>3, <1>4, <1>5, <1>6, <1>7, <1>8, <1>9, <1>10,
     <1>11, <1>12, <1>13, <1>14, <1>15, <1>16, <1>17
  DEF Next

LEMMA ReapableStep ==
  ASSUME Shape, CountInv, Reapable, [Next]_vars
  PROVE  Reapable'
<1> USE DEF Shape
<1>1. ASSUME NEW m \in Msgs, Arrive(m) PROVE Reapable'
  BY <1>1, EntryFacts
  DEF Reapable, Arrive, Go, poolVars, stateVars, msgVars, readerVars, reaperVars
<1>2. ASSUME NEW m \in Msgs, Create(m) PROVE Reapable'
  BY <1>2, EntryFacts
  DEF Reapable, Create, Go, MakeEntry, Entry, poolVars, stateVars, msgVars,
      readerVars, reaperVars
<1>3. ASSUME NEW m \in Msgs, Lock(m) PROVE Reapable'
  BY <1>3, EntryFacts
  DEF Reapable, Lock, Go, Free, Take, poolVars, stateVars, msgVars, readerVars,
      reaperVars
<1>4. ASSUME NEW m \in Msgs, Retry(m) PROVE Reapable'
  BY <1>4, EntryFacts
  DEF Reapable, Retry, Go, Free, Take, poolVars, stateVars, msgVars, readerVars,
      reaperVars
<1>5. ASSUME NEW m \in Msgs, Start(m) PROVE Reapable'
  BY <1>5, EntryFacts
  DEF Reapable, Start, Go, poolVars, stateVars, msgVars, readerVars, reaperVars
<1>6. ASSUME NEW m \in Msgs, StartFails(m) PROVE Reapable'
  BY <1>6, EntryFacts
  DEF Reapable, StartFails, Go, poolVars, stateVars, msgVars, readerVars,
      reaperVars
<1>7. ASSUME NEW m \in Msgs, Begin(m) PROVE Reapable'
  BY <1>7, EntryFacts
  DEF Reapable, Begin, Go, MakeEntry, Entry, BeginTurn, poolVars, stateVars,
      msgVars, readerVars, reaperVars
<1>8. ASSUME NEW m \in Msgs, Fail(m) PROVE Reapable'
  BY <1>8, EntryFacts
  DEF Reapable, Fail, Go, poolVars, stateVars, msgVars, readerVars, reaperVars
<1>9. ASSUME NEW m \in Msgs, Unlock(m) PROVE Reapable'
  BY <1>9, EntryFacts
  DEF Reapable, Unlock, Go, poolVars, stateVars, msgVars, readerVars, reaperVars
<1>10. ASSUME NEW m \in Msgs, Finish(m) PROVE Reapable'
  BY <1>10, EntryFacts
  DEF Reapable, Finish, Go, EndTurn, poolVars, stateVars, msgVars, readerVars,
      reaperVars
<1>11. ASSUME NEW c \in Channels, Talk(c) PROVE Reapable'
  BY <1>11, EntryFacts
  DEF Reapable, Talk, BeginTurn, Talking, poolVars, stateVars, msgVars,
      readerVars, reaperVars
<1>12. ASSUME NEW t \in talking, Quiet(t[1], t[2]) PROVE Reapable'
  BY <1>12, EntryFacts
  DEF Reapable, Quiet, EndTurn, poolVars, stateVars, msgVars, readerVars,
      reaperVars
<1>13. CASE Age
  BY <1>13, EntryFacts
  DEF Reapable, Age, Waiting, LongSteps, poolVars, stateVars, msgVars,
      readerVars, reaperVars
<1>14. CASE Reap
  BY <1>14, EntryFacts
  DEF Reapable, Reap, poolVars, stateVars, msgVars, readerVars, reaperVars
<1>15. CASE Collect
  BY <1>15, EntryFacts
  DEF Reapable, Collect, poolVars, stateVars, msgVars, readerVars, reaperVars
<1>16. ASSUME NEW t \in targets, Clean(t[1], t[2]) PROVE Reapable'
  BY <1>16, EntryFacts
  DEF Reapable, Clean, poolVars, stateVars, msgVars, readerVars, reaperVars
<1>17. CASE UNCHANGED vars
  BY <1>17
  DEF Reapable, vars, poolVars, stateVars, msgVars, readerVars, reaperVars
<1> QED
  BY <1>1, <1>2, <1>3, <1>4, <1>5, <1>6, <1>7, <1>8, <1>9, <1>10,
     <1>11, <1>12, <1>13, <1>14, <1>15, <1>16, <1>17
  DEF Next


-----------------------------------------------------------------------------
(* Results *)

IInv == Shape /\ LockInv /\ CountInv /\ Reapable

LEMMA Invariant == Spec => []IInv
<1>1. Init => IInv
  <2> SUFFICES ASSUME Init PROVE IInv
    OBVIOUS
  <2>1. Shape /\ LockInv /\ Reapable
    BY DEF Init, Shape, LockInv, Reapable, Holding, Labels
  <2>2. TurnsCounted
    BY DEF Init, TurnsCounted
  <2> QED BY <2>1, <2>2 DEF Init, IInv, CountInv
<1>2. IInv /\ [Next]_vars => IInv'
  BY ShapeStep, LockStep, CountStep, ReapableStep DEF IInv
<1> QED BY <1>1, <1>2, PTL DEF Spec

\* A workspace is not removed while a turn is in progress that has begun on it,
\* whatever background turns, failures and reaps come in between.
THEOREM WorkspacesTurnsCounted == Spec => []TurnsCounted
<1>1. IInv => TurnsCounted
  BY DEF IInv, CountInv
<1> QED BY <1>1, Invariant, PTL

\* An agent that runs has an entry that will be reaped, or a reaper that is at
\* work, or a goroutine that will make the entry.
THEOREM WorkspacesReapable == Spec => []Reapable
<1>1. IInv => Reapable
  BY DEF IInv
<1> QED BY <1>1, Invariant, PTL

\* A channel has one turn at a time, though entries and their managers come and
\* go, where no message leaves the idle clock alone and no step before a turn
\* outlasts the idle timeout.
THEOREM WorkspacesOneTurn ==
  ASSUME Long = {}, Untouched = {}
  PROVE  Spec => []OneTurn
<1>1. Init => FreshInv
  BY DEF Init, FreshInv, Holding
<1>2. IInv /\ FreshInv /\ [Next]_vars => FreshInv'
  BY FreshStep DEF IInv
<1>3. IInv /\ FreshInv => OneTurn
  <2> SUFFICES ASSUME IInv, FreshInv, strays = {}, NEW c \in Channels
               PROVE  Cardinality(Working(c)) <= 1
    BY DEF OneTurn
  <2>1. \A m, n \in Working(c) : m = n
    BY DEF Working, FreshInv, IInv, LockInv, SessionOf, Holding
  <2>2. IsFiniteSet(Working(c))
    <3>1. Working(c) \in SUBSET Msgs
      BY DEF Working
    <3> QED BY <3>1, FS_Subset
  <2>3. CASE Working(c) = {}
    BY <2>3, FS_EmptySet
  <2>4. CASE Working(c) # {}
    <3>1. PICK x : Working(c) = {x}
      BY <2>1, <2>4
    <3> QED BY <3>1, FS_Singleton
  <2> QED BY <2>3, <2>4
<1> QED BY <1>1, <1>2, <1>3, Invariant, PTL DEF Spec
=============================================================================
