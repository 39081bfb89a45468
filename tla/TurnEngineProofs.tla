-------------------------- MODULE TurnEngineProofs --------------------------
(***************************************************************************)
(* Theorems about TurnEngine, for any number of messages and commands:     *)
(* type correctness of the full engine; mutual exclusion of the turns of a *)
(* Session as long as the two features that unlock it out of turn,         *)
(* auto-compress and the idle reset, are off; with all features and        *)
(* faults, that a message is in one place until its sender is told, and    *)
(* that its sender is told once; with an agent that lives, that no         *)
(* acknowledged message is left behind and that every step is one of the   *)
(* service SerialTurns; and with one Session, that no agent is left        *)
(* running out of reach, and, without /compress, that the queue of the     *)
(* state in the map is always attended.                                    *)
(***************************************************************************)
EXTENDS TurnEngine, SequenceTheorems, FiniteSetTheorems, TLAPS

\* Where a message's goroutine has no interactiveState pointer yet.
NoPointer == {"idle", "picked", "lookup", "locked", "reset", "newsession",
              "relock", "ensure", "start", "done"}

\* Every goroutine past those labels holds a real state, also while it is in a
\* cleanup that will return it there.
PointerOK ==
  /\ \A c \in Commands :
    /\ pc[c] = "recallqueued" => ptr[c] \in States
    /\ clean[c].back \in {"rotate", "unbind", "done"}
  /\ \A m \in Msgs :
    /\ \/ ptr[m] \in States
       \/ pc[m] \in NoPointer
       \/ pc[m] \in Cleaning /\ clean[m].back = "reset"
    /\ pc[m] \in Cleaning =>
         clean[m].back \in {"reset", "drain", "unlock", "dropall"}

TypeInv == TypeOK /\ PointerOK

USE DEF Procs, Sessions, At

-----------------------------------------------------------------------------
(* Lemmas about the operators of the model *)

LEMMA BootIsState ==
  /\ Boot \in States /\ NoState \notin States
  /\ \A m \in Msgs : <<m, "full">> \in States /\ <<m, "placeholder">> \in States
BY TurnEngineAssumption DEF Boot, NoState, States

\* Queued messages are messages.
LEMMA WaitingAreMsgs ==
  ASSUME QueueTypes, NEW s \in States
  PROVE  Waiting(s) \subseteq Msgs
BY DEF QueueTypes, Waiting

\* Popping keeps the queue a bounded sequence of messages.
LEMMA PopTypes ==
  ASSUME QueueTypes, NEW s \in States, queue[s] # <<>>
  PROVE  /\ Head(queue[s]) \in Msgs
         /\ Tail(queue[s]) \in Seq(Msgs)
         /\ Len(Tail(queue[s])) <= MaxQueue
<1> DEFINE q == queue[s]
<1>1. q \in Seq(Msgs) /\ q # <<>> /\ Len(q) <= MaxQueue
  BY DEF QueueTypes
<1>2. Head(q) \in Msgs /\ Tail(q) \in Seq(Msgs) /\ Len(Tail(q)) = Len(q) - 1
  BY <1>1
<1>3. Len(q) \in Nat
  BY <1>1
<1> QED BY <1>1, <1>2, <1>3, TurnEngineAssumption

\* Replacing one queue by a bounded one.
LEMMA QueueUpdate ==
  ASSUME QueueTypes, NEW s \in States, NEW q \in Seq(Msgs), Len(q) <= MaxQueue,
         queue' = [queue EXCEPT ![s] = q]
  PROVE  QueueTypes'
BY DEF QueueTypes

\* Dropping a queue, possibly through a dangling pointer, reporting one outcome,
\* or neither.
LEMMA DropTypes ==
  ASSUME QueueTypes, ReportTypes, NEW s, NEW what \in Outcomes,
         NEW m, NEW mine \in Outcomes,
         \/ DropQueue(s, what, m, mine)
         \/ Tell(m, mine) /\ UNCHANGED queue
         \/ UNCHANGED <<queue, told>>,
         UNCHANGED <<triggers, panicked>>
  PROVE  QueueTypes' /\ ReportTypes'
<1>1. QueueTypes'
  <2>1. <<>> \in Seq(Msgs) /\ Len(<<>>) <= MaxQueue
    BY TurnEngineAssumption
  <2>2. queue' \in [States -> Seq(Msgs)]
    BY <2>1 DEF QueueTypes, DropQueue
  <2>3. \A t \in States : queue'[t] = <<>> \/ queue'[t] = queue[t]
    BY DEF QueueTypes, DropQueue
  <2> QED BY <2>1, <2>2, <2>3 DEF QueueTypes
<1>2. ReportTypes'
  BY DEF ReportTypes, DropQueue, Tell
<1> QED BY <1>1, <1>2

\* Moving a goroutine, and sending it into a cleanup.
LEMMA GotoTypes ==
  ASSUME PcTypes, NEW p, NEW l \in Labels, Goto(p, l), UNCHANGED clean
  PROVE  PcTypes'
BY DEF PcTypes, Goto

LEMMA CleanTypes ==
  ASSUME PcTypes, NEW p, NEW l \in Labels, Goto(p, l),
         NEW s \in StateOrNone, NEW owns \in BOOLEAN, NEW expect \in BOOLEAN,
         NEW back \in Labels,
         clean' = [clean EXCEPT ![p] = [target |-> s, owns |-> owns,
                                        expect |-> expect, back |-> back]]
  PROVE  PcTypes'
BY DEF PcTypes, Goto

LEMMA OutcomesOK ==
  {"none", "answered", "error", "dropped", "refused", "full", "cut", "stopped",
   "silenced", "recalled"} \subseteq Outcomes
BY DEF Outcomes

-----------------------------------------------------------------------------
(* Type correctness *)

LEMMA TypeInit == Init => TypeInv
<1> SUFFICES ASSUME Init PROVE TypeInv OBVIOUS
<1> USE BootIsState, TurnEngineAssumption DEF Init, StateOrNone
<1>1. SharedTypes BY DEF SharedTypes
<1>2. StateTypes BY DEF StateTypes
<1>3. QueueTypes
  <2>1. <<>> \in Seq(Msgs) /\ Len(<<>>) <= MaxQueue
    OBVIOUS
  <2> QED BY <2>1 DEF QueueTypes
<1>4. LocalTypes BY DEF LocalTypes
<1>5. PcTypes BY DEF PcTypes, Labels
<1>6. ReportTypes
  <2>1. told \in [Msgs -> Outcomes]
    BY DEF Outcomes
  <2>2. triggers \in 0 .. MaxAutoCompress
    OBVIOUS
  <2>3. panicked \in BOOLEAN
    OBVIOUS
  <2> QED BY <2>1, <2>2, <2>3 DEF ReportTypes
<1>7. PointerOK
  BY DEF PointerOK, NoPointer, Cleaning
<1> QED BY <1>1, <1>2, <1>3, <1>4, <1>5, <1>6, <1>7 DEF TypeInv, TypeOK

\* A sequence without its element at place i.
Without(q, i) == SubSeq(q, 1, i - 1) \o SubSeq(q, i + 1, Len(q))

LEMMA WithoutTypes ==
  ASSUME NEW q \in Seq(Msgs), Len(q) <= MaxQueue, NEW i \in DOMAIN q
  PROVE  /\ Without(q, i) \in Seq(Msgs)
         /\ Len(Without(q, i)) <= MaxQueue
<1>1. i \in 1 .. Len(q) /\ Len(q) \in Nat
  OBVIOUS
<1>2. /\ SubSeq(q, 1, i - 1) \in Seq(Msgs)
      /\ Len(SubSeq(q, 1, i - 1)) = i - 1
  BY <1>1
<1>3. /\ SubSeq(q, i + 1, Len(q)) \in Seq(Msgs)
      /\ Len(SubSeq(q, i + 1, Len(q))) = Len(q) - i
  BY <1>1
<1>4. /\ Without(q, i) \in Seq(Msgs)
      /\ Len(Without(q, i)) = (i - 1) + (Len(q) - i)
  BY <1>2, <1>3, ConcatProperties DEF Without
<1> QED BY <1>1, <1>4, TurnEngineAssumption

LEMMA TypeHandler ==
  ASSUME TypeInv, NEW m \in Msgs,
         KeepSession(m) \/ StartIdleReset(m) \/ UnlockOldSession(m) \/
         NewSession(m) \/ EnsureState(m)
  PROVE  TypeInv'
<1> USE BootIsState, TurnEngineAssumption DEF TypeInv, TypeOK, SharedTypes,
      StateTypes, QueueTypes, LocalTypes, PcTypes, ReportTypes, PointerOK,
      NoPointer, Cleaning, Labels, Outcomes, Goto, Tell, Cleanup, Release,
      CompressTell, StopTake, registry, sessVars, stateVars, locals, StateOrNone
<1>1. CASE KeepSession(m) BY <1>1 DEF KeepSession
<1>2. CASE StartIdleReset(m) BY <1>2 DEF StartIdleReset
<1>3. CASE UnlockOldSession(m) BY <1>3 DEF UnlockOldSession
<1>4. CASE NewSession(m) BY <1>4 DEF NewSession
<1>5. CASE EnsureState(m) BY <1>5 DEF EnsureState
<1> QED BY <1>1, <1>2, <1>3, <1>4, <1>5

LEMMA TypeHandlerSplit ==
  ASSUME TypeInv, NEW m \in Msgs,
         Arrive(m) \/ TryLock(m) \/ Lookup(m) \/ QueueMessage(m) \/ Retry(m)
         \/ LockNewSession(m) \/ DrainOrphaned(m)
  PROVE  TypeInv'
<1> USE BootIsState, TurnEngineAssumption DEF TypeInv, TypeOK, Goto, Tell,
      Cleanup, Release, registry, sessVars, stateVars, locals, StateOrNone
<1>1. CASE Arrive(m)
  <2>1. SharedTypes'
    BY <1>1 DEF Arrive, SharedTypes, LocalTypes
  <2>2. StateTypes'
    BY <1>1 DEF Arrive, StateTypes, SharedTypes, LocalTypes
  <2>3. QueueTypes'
    BY <1>1 DEF Arrive, QueueTypes
  <2>4. LocalTypes'
    BY <1>1 DEF Arrive, LocalTypes, SharedTypes
  <2>5. PcTypes'
    BY <1>1 DEF Arrive, PcTypes, SharedTypes, LocalTypes, Labels
  <2>6. ReportTypes'
    BY <1>1 DEF Arrive, ReportTypes, Outcomes
  <2>7. PointerOK'
    BY <1>1, SMTT(30) DEF Arrive, LocalTypes, SharedTypes, PcTypes, Labels,
         PointerOK, NoPointer, Cleaning
  <2> QED BY <2>1, <2>2, <2>3, <2>4, <2>5, <2>6, <2>7
<1>2. CASE TryLock(m)
  <2>1. SharedTypes'
    BY <1>2 DEF TryLock, SharedTypes, LocalTypes
  <2>2. StateTypes'
    BY <1>2 DEF TryLock, StateTypes, SharedTypes, LocalTypes
  <2>3. QueueTypes'
    BY <1>2 DEF TryLock, QueueTypes
  <2>4. LocalTypes'
    BY <1>2 DEF TryLock, LocalTypes, SharedTypes
  <2>5. PcTypes'
    BY <1>2 DEF TryLock, PcTypes, SharedTypes, LocalTypes, Labels
  <2>6. ReportTypes'
    BY <1>2 DEF TryLock, ReportTypes, Outcomes
  <2>7. PointerOK'
    BY <1>2, SMTT(30) DEF TryLock, LocalTypes, SharedTypes, PcTypes, Labels,
         PointerOK, NoPointer, Cleaning
  <2> QED BY <2>1, <2>2, <2>3, <2>4, <2>5, <2>6, <2>7
<1>3. CASE Lookup(m)
  <2>1. SharedTypes'
    BY <1>3 DEF Lookup, SharedTypes, LocalTypes
  <2>2. StateTypes'
    BY <1>3 DEF Lookup, StateTypes, SharedTypes, LocalTypes
  <2>3. QueueTypes'
    BY <1>3 DEF Lookup, QueueTypes
  <2>4. LocalTypes'
    BY <1>3 DEF Lookup, LocalTypes, SharedTypes
  <2>5. PcTypes'
    BY <1>3 DEF Lookup, PcTypes, SharedTypes, LocalTypes, Labels
  <2>6. ReportTypes'
    BY <1>3 DEF Lookup, ReportTypes, Outcomes
  <2>7. PointerOK'
    BY <1>3, SMTT(30) DEF Lookup, LocalTypes, SharedTypes, PcTypes, Labels,
         PointerOK, NoPointer, Cleaning
  <2> QED BY <2>1, <2>2, <2>3, <2>4, <2>5, <2>6, <2>7
<1>4. CASE QueueMessage(m)
  <2>p. ptr[m] \in States
    BY <1>4 DEF QueueMessage, PointerOK, NoPointer, Cleaning
  <2>1. SharedTypes'
    BY <1>4, <2>p DEF QueueMessage, SharedTypes, LocalTypes
  <2>2. StateTypes'
    BY <1>4, <2>p DEF QueueMessage, StateTypes, SharedTypes, LocalTypes
  <2>3. QueueTypes'
    <3>1. CASE UNCHANGED queue
      BY <3>1 DEF QueueTypes
    <3>2. CASE /\ Len(queue[ptr[m]]) < MaxQueue
               /\ queue' = [queue EXCEPT ![ptr[m]] = Append(@, m)]
      <4>1. /\ Append(queue[ptr[m]], m) \in Seq(Msgs)
            /\ Len(Append(queue[ptr[m]], m)) <= MaxQueue
        BY <2>p, <3>2 DEF QueueTypes
      <4> QED BY <2>p, <3>2, <4>1, QueueUpdate DEF QueueTypes
    <3> QED BY <1>4, <2>p, <3>1, <3>2 DEF QueueMessage, QueueTypes
  <2>4. LocalTypes'
    BY <1>4, <2>p DEF QueueMessage, LocalTypes, SharedTypes
  <2>5. PcTypes'
    BY <1>4, <2>p DEF QueueMessage, PcTypes, SharedTypes, LocalTypes, Labels
  <2>6. ReportTypes'
    BY <1>4, <2>p DEF QueueMessage, ReportTypes, Outcomes
  <2>7. PointerOK'
    BY <1>4, <2>p, SMTT(30) DEF QueueMessage, LocalTypes, SharedTypes, PcTypes,
         Labels, PointerOK, NoPointer, Cleaning
  <2> QED BY <2>1, <2>2, <2>3, <2>4, <2>5, <2>6, <2>7
<1>5. CASE Retry(m)
  <2>1. SharedTypes'
    BY <1>5 DEF Retry, SharedTypes, LocalTypes
  <2>2. StateTypes'
    BY <1>5 DEF Retry, StateTypes, SharedTypes, LocalTypes
  <2>3. QueueTypes'
    BY <1>5 DEF Retry, QueueTypes
  <2>4. LocalTypes'
    BY <1>5 DEF Retry, LocalTypes, SharedTypes
  <2>5. PcTypes'
    BY <1>5 DEF Retry, PcTypes, SharedTypes, LocalTypes, Labels
  <2>6. ReportTypes'
    BY <1>5 DEF Retry, ReportTypes, Outcomes
  <2>7. PointerOK'
    BY <1>5, SMTT(30) DEF Retry, LocalTypes, SharedTypes, PcTypes, Labels,
         PointerOK, NoPointer, Cleaning
  <2> QED BY <2>1, <2>2, <2>3, <2>4, <2>5, <2>6, <2>7
<1>6. CASE LockNewSession(m)
  <2>1. SharedTypes'
    BY <1>6 DEF LockNewSession, SharedTypes, LocalTypes
  <2>2. StateTypes'
    BY <1>6 DEF LockNewSession, StateTypes, SharedTypes, LocalTypes
  <2>3. QueueTypes'
    BY <1>6 DEF LockNewSession, QueueTypes
  <2>4. LocalTypes'
    BY <1>6 DEF LockNewSession, LocalTypes, SharedTypes
  <2>5. PcTypes'
    BY <1>6 DEF LockNewSession, PcTypes, SharedTypes, LocalTypes, Labels
  <2>6. ReportTypes'
    BY <1>6 DEF LockNewSession, ReportTypes, Outcomes
  <2>7. PointerOK'
    BY <1>6, SMTT(30) DEF LockNewSession, LocalTypes, SharedTypes, PcTypes,
         Labels, PointerOK, NoPointer, Cleaning
  <2> QED BY <2>1, <2>2, <2>3, <2>4, <2>5, <2>6, <2>7
<1>7. CASE DrainOrphaned(m)
  <2>1. SharedTypes'
    BY <1>7 DEF DrainOrphaned, SharedTypes, LocalTypes
  <2>2. StateTypes'
    BY <1>7 DEF DrainOrphaned, StateTypes, SharedTypes, LocalTypes
  <2>3. QueueTypes' /\ ReportTypes'
    <3>1. \/ DropQueue(entry, "dropped", NoMsg, "none")
          \/ Tell(NoMsg, "none") /\ UNCHANGED queue
          \/ UNCHANGED <<queue, told>>
      BY <1>7 DEF DrainOrphaned
    <3>2. UNCHANGED <<triggers, panicked>>
      BY <1>7 DEF DrainOrphaned
    <3>3. "dropped" \in Outcomes /\ "none" \in Outcomes
      BY OutcomesOK
    <3> QED BY <3>1, <3>2, <3>3, DropTypes DEF TypeInv, TypeOK
  <2>4. LocalTypes'
    BY <1>7 DEF DrainOrphaned, LocalTypes, SharedTypes
  <2>5. PcTypes'
    BY <1>7 DEF DrainOrphaned, PcTypes, SharedTypes, LocalTypes, Labels
  <2>7. PointerOK'
    BY <1>7, SMTT(30) DEF DrainOrphaned, LocalTypes, SharedTypes, PcTypes,
         Labels, PointerOK, NoPointer, Cleaning
  <2> QED BY <2>1, <2>2, <2>3, <2>4, <2>5, <2>7
<1> QED BY <1>1, <1>2, <1>3, <1>4, <1>5, <1>6, <1>7

LEMMA TypeTurn ==
  ASSUME TypeInv, NEW m \in Msgs,
         ReuseState(m) \/ Send(m) \/ LoopStopped(m) \/ LeaveLoop(m) \/
         AutoCompress(m)
  PROVE  TypeInv'
<1> USE BootIsState, TurnEngineAssumption DEF TypeInv, TypeOK, SharedTypes,
      StateTypes, QueueTypes, LocalTypes, PcTypes, ReportTypes, PointerOK,
      NoPointer, Cleaning, Labels, Outcomes, Goto, Tell, Cleanup, Release,
      CompressTell, StopTake, registry, sessVars, stateVars, locals, StateOrNone
<1>1. CASE ReuseState(m) BY <1>1 DEF ReuseState
<1>2. CASE Send(m) BY <1>2 DEF Send
<1>3. CASE LoopStopped(m) BY <1>3 DEF LoopStopped
<1>4. CASE LeaveLoop(m) BY <1>4 DEF LeaveLoop
<1>5. CASE AutoCompress(m) BY <1>5 DEF AutoCompress
<1> QED BY <1>1, <1>2, <1>3, <1>4, <1>5

LEMMA TypeTurnSplit ==
  ASSUME TypeInv, NEW m \in Msgs,
         CreateState(m) \/ CheckAgent(m) \/ LoopResult(m) \/ LoopError(m) \/
         LoopClosed(m) \/ LoopSendError(m) \/ LoopIdleTimeout(m) \/
         LoopMaxTurnTime(m) \/ TakeNext(m) \/ DrainEmpty(m) \/ DrainPop(m) \/
         DrainCheck(m) \/ Unlock(m)
  PROVE  TypeInv'
<1> USE BootIsState, TurnEngineAssumption DEF TypeInv, TypeOK, Goto, Tell,
      Cleanup, Release, registry, sessVars, stateVars, locals, StateOrNone
<1>1. CASE CreateState(m)
  <2>p. <<m, "full">> \in States
    BY DEF States
  <2>1. SharedTypes'
    BY <1>1, <2>p DEF CreateState, SharedTypes, LocalTypes
  <2>2. StateTypes'
    <3>1. proc' \in [States -> {"none", "running", "closing", "exited"}]
      BY <1>1, <2>p DEF CreateState, StateTypes, Closings
    <3>2. agentId' \in [States -> StateOrNone]
      BY <1>1, <2>p DEF CreateState, StateTypes, SharedTypes, LocalTypes
    <3>3. /\ hasAgent' \in [States -> BOOLEAN]
          /\ stopped' \in [States -> BOOLEAN]
      BY <1>1, <2>p, ZenonT(30) DEF CreateState, StateTypes
    <3> QED BY <1>1, <3>1, <3>2, <3>3 DEF CreateState, StateTypes
  <2>3. QueueTypes'
    <3>1. <<>> \in Seq(Msgs) /\ Len(<<>>) <= MaxQueue
      OBVIOUS
    <3>2. CASE UNCHANGED queue
      BY <3>2 DEF QueueTypes
    <3>3. CASE /\ entry # NoState
               /\ queue' = [queue EXCEPT ![<<m, "full">>] = queue[entry],
                                        ![entry] = <<>>]
      <4>1. entry \in States
        BY <3>3 DEF SharedTypes
      <4> QED BY <2>p, <3>1, <3>3, <4>1 DEF QueueTypes
    <3> QED BY <1>1, <3>2, <3>3 DEF CreateState
  <2>4. LocalTypes'
    BY <1>1, <2>p DEF CreateState, LocalTypes, SharedTypes
  <2>5. PcTypes'
    BY <1>1, <2>p DEF CreateState, PcTypes, SharedTypes, LocalTypes, Labels
  <2>6. ReportTypes'
    BY <1>1, <2>p DEF CreateState, ReportTypes, Outcomes
  <2>7. PointerOK'
    BY <1>1, <2>p, SMTT(30) DEF CreateState, LocalTypes, SharedTypes, PcTypes,
         Labels, PointerOK, NoPointer, Cleaning
  <2> QED BY <2>1, <2>2, <2>3, <2>4, <2>5, <2>6, <2>7
<1>2. CASE CheckAgent(m)
  <2>p. ptr[m] \in States
    BY <1>2 DEF CheckAgent, PointerOK, NoPointer, Cleaning
  <2>1. SharedTypes'
    BY <1>2, <2>p DEF CheckAgent, SharedTypes, LocalTypes
  <2>2. StateTypes'
    BY <1>2, <2>p DEF CheckAgent, StateTypes, SharedTypes, LocalTypes
  <2>3. QueueTypes'
    BY <1>2, <2>p DEF CheckAgent, QueueTypes
  <2>4. LocalTypes'
    BY <1>2 DEF CheckAgent, LocalTypes
  <2>5. PcTypes'
    BY <1>2, <2>p DEF CheckAgent, PcTypes, SharedTypes, LocalTypes, Labels
  <2>6. ReportTypes'
    BY <1>2, <2>p DEF CheckAgent, ReportTypes, Outcomes
  <2>7. PointerOK'
    BY <1>2, <2>p, SMTT(30) DEF CheckAgent, LocalTypes, SharedTypes, PcTypes,
         Labels, PointerOK, NoPointer, Cleaning
  <2> QED BY <2>1, <2>2, <2>3, <2>4, <2>5, <2>6, <2>7
<1>3. CASE LoopResult(m)
  <2>1. SharedTypes'
    <3>1. ptr[m] \in States
      BY <1>3 DEF LoopResult, PointerOK, NoPointer, Cleaning
    <3>2. bound' \in [Sessions -> StateOrNone]
      BY <1>3, <3>1 DEF LoopResult, SharedTypes, StateTypes
    <3> QED BY <1>3, <3>2 DEF LoopResult, SharedTypes
  <2>2. StateTypes'
    BY <1>3 DEF LoopResult, StateTypes, SharedTypes, LocalTypes
  <2>3. QueueTypes'
    BY <1>3 DEF LoopResult, QueueTypes
  <2>4. LocalTypes'
    BY <1>3 DEF LoopResult, LocalTypes, SharedTypes
  <2>5. PcTypes'
    BY <1>3 DEF LoopResult, PcTypes, SharedTypes, LocalTypes, Labels
  <2>6. ReportTypes'
    BY <1>3 DEF LoopResult, ReportTypes, Outcomes
  <2>7. PointerOK'
    BY <1>3, SMTT(30) DEF LoopResult, LocalTypes, SharedTypes, PcTypes, Labels,
         PointerOK, NoPointer, Cleaning
  <2> QED BY <2>1, <2>2, <2>3, <2>4, <2>5, <2>6, <2>7
<1>4. CASE LoopError(m)
  <2>1. SharedTypes'
    BY <1>4 DEF LoopError, SharedTypes, LocalTypes
  <2>2. StateTypes'
    BY <1>4 DEF LoopError, StateTypes, SharedTypes, LocalTypes
  <2>3. QueueTypes' /\ ReportTypes'
    <3>1. \/ DropQueue(ptr[m], "dropped", cur[m], "error")
          \/ Tell(cur[m], "error") /\ UNCHANGED queue
          \/ UNCHANGED <<queue, told>>
      BY <1>4 DEF LoopError
    <3>2. UNCHANGED <<triggers, panicked>>
      BY <1>4 DEF LoopError
    <3>3. "dropped" \in Outcomes /\ "error" \in Outcomes
      BY OutcomesOK
    <3> QED BY <3>1, <3>2, <3>3, DropTypes DEF TypeInv, TypeOK
  <2>4. LocalTypes'
    BY <1>4 DEF LoopError, LocalTypes, SharedTypes
  <2>5. PcTypes'
    BY <1>4 DEF LoopError, PcTypes, SharedTypes, LocalTypes, Labels
  <2>7. PointerOK'
    BY <1>4, SMTT(30) DEF LoopError, LocalTypes, SharedTypes, PcTypes, Labels,
         PointerOK, NoPointer, Cleaning
  <2> QED BY <2>1, <2>2, <2>3, <2>4, <2>5, <2>7
<1>5. CASE LoopClosed(m)
  <2>1. SharedTypes'
    BY <1>5 DEF LoopClosed, SharedTypes, LocalTypes
  <2>2. StateTypes'
    BY <1>5 DEF LoopClosed, StateTypes, SharedTypes, LocalTypes
  <2>3. QueueTypes' /\ ReportTypes'
    <3>1. \/ DropQueue(ptr[m], "dropped", cur[m], "cut")
          \/ Tell(cur[m], "cut") /\ UNCHANGED queue
          \/ UNCHANGED <<queue, told>>
      BY <1>5 DEF LoopClosed
    <3>2. UNCHANGED <<triggers, panicked>>
      BY <1>5 DEF LoopClosed
    <3>3. "dropped" \in Outcomes /\ "cut" \in Outcomes
      BY OutcomesOK
    <3> QED BY <3>1, <3>2, <3>3, DropTypes DEF TypeInv, TypeOK
  <2>4. LocalTypes'
    BY <1>5 DEF LoopClosed, LocalTypes, SharedTypes
  <2>5. PcTypes'
    <3>1. Cleanup(m, ptr[m], TRUE, "drain")
      BY <1>5 DEF LoopClosed
    <3>2. /\ {"drain", "cloop", "unlock", "clean"} \subseteq Labels
          /\ ptr[m] \in StateOrNone
      BY DEF Labels, LocalTypes
    <3> HIDE DEF Goto
    <3> QED BY <3>1, <3>2, GotoTypes, CleanTypes DEF Cleanup
  <2>7. PointerOK'
    BY <1>5, SMTT(30) DEF LoopClosed, LocalTypes, SharedTypes, PcTypes, Labels,
         PointerOK, NoPointer, Cleaning
  <2> QED BY <2>1, <2>2, <2>3, <2>4, <2>5, <2>7
<1>6. CASE LoopSendError(m)
  <2>1. SharedTypes'
    BY <1>6 DEF LoopSendError, SharedTypes, LocalTypes
  <2>2. StateTypes'
    BY <1>6 DEF LoopSendError, StateTypes, SharedTypes, LocalTypes
  <2>3. QueueTypes' /\ ReportTypes'
    <3>1. \/ DropQueue(ptr[m], "dropped", cur[m], "error")
          \/ Tell(cur[m], "error") /\ UNCHANGED queue
          \/ UNCHANGED <<queue, told>>
      BY <1>6 DEF LoopSendError
    <3>2. UNCHANGED <<triggers, panicked>>
      BY <1>6 DEF LoopSendError
    <3>3. "dropped" \in Outcomes /\ "error" \in Outcomes
      BY OutcomesOK
    <3> QED BY <3>1, <3>2, <3>3, DropTypes DEF TypeInv, TypeOK
  <2>4. LocalTypes'
    BY <1>6 DEF LoopSendError, LocalTypes, SharedTypes
  <2>5. PcTypes'
    <3>1. \/ UNCHANGED clean /\ Goto(m, "drain")
          \/ Cleanup(m, ptr[m], TRUE, "drain")
      BY <1>6 DEF LoopSendError
    <3>2. /\ {"drain", "cloop", "unlock", "clean"} \subseteq Labels
          /\ ptr[m] \in StateOrNone
      BY DEF Labels, LocalTypes
    <3> HIDE DEF Goto
    <3> QED BY <3>1, <3>2, GotoTypes, CleanTypes DEF Cleanup
  <2>7. PointerOK'
    BY <1>6, SMTT(30) DEF LoopSendError, LocalTypes, SharedTypes, PcTypes,
         Labels, PointerOK, NoPointer, Cleaning
  <2> QED BY <2>1, <2>2, <2>3, <2>4, <2>5, <2>7
<1>7. CASE LoopIdleTimeout(m)
  <2>1. SharedTypes'
    BY <1>7 DEF LoopIdleTimeout, SharedTypes, LocalTypes
  <2>2. StateTypes'
    BY <1>7 DEF LoopIdleTimeout, StateTypes, SharedTypes, LocalTypes
  <2>3. QueueTypes'
    BY <1>7 DEF LoopIdleTimeout, QueueTypes
  <2>4. LocalTypes'
    BY <1>7 DEF LoopIdleTimeout, LocalTypes, SharedTypes
  <2>5. PcTypes'
    <3>1. Cleanup(m, ptr[m], TRUE, "drain")
      BY <1>7 DEF LoopIdleTimeout
    <3>2. /\ {"drain", "cloop", "unlock", "clean"} \subseteq Labels
          /\ ptr[m] \in StateOrNone
      BY DEF Labels, LocalTypes
    <3> HIDE DEF Goto
    <3> QED BY <3>1, <3>2, GotoTypes, CleanTypes DEF Cleanup
  <2>6. ReportTypes'
    BY <1>7 DEF LoopIdleTimeout, ReportTypes, Outcomes
  <2>7. PointerOK'
    BY <1>7, SMTT(30) DEF LoopIdleTimeout, LocalTypes, SharedTypes, PcTypes,
         Labels, PointerOK, NoPointer, Cleaning
  <2> QED BY <2>1, <2>2, <2>3, <2>4, <2>5, <2>6, <2>7
<1>8. CASE LoopMaxTurnTime(m)
  <2>1. SharedTypes'
    BY <1>8 DEF LoopMaxTurnTime, SharedTypes, LocalTypes
  <2>2. StateTypes'
    BY <1>8 DEF LoopMaxTurnTime, StateTypes, SharedTypes, LocalTypes
  <2>3. QueueTypes'
    BY <1>8 DEF LoopMaxTurnTime, QueueTypes
  <2>4. LocalTypes'
    BY <1>8 DEF LoopMaxTurnTime, LocalTypes, SharedTypes
  <2>5. PcTypes'
    <3>1. Cleanup(m, ptr[m], TRUE, "drain")
      BY <1>8 DEF LoopMaxTurnTime
    <3>2. /\ {"drain", "cloop", "unlock", "clean"} \subseteq Labels
          /\ ptr[m] \in StateOrNone
      BY DEF Labels, LocalTypes
    <3> HIDE DEF Goto
    <3> QED BY <3>1, <3>2, GotoTypes, CleanTypes DEF Cleanup
  <2>6. ReportTypes'
    BY <1>8 DEF LoopMaxTurnTime, ReportTypes, Outcomes
  <2>7. PointerOK'
    BY <1>8, SMTT(30) DEF LoopMaxTurnTime, LocalTypes, SharedTypes, PcTypes,
         Labels, PointerOK, NoPointer, Cleaning
  <2> QED BY <2>1, <2>2, <2>3, <2>4, <2>5, <2>6, <2>7
<1>9. CASE TakeNext(m)
  <2>p. ptr[m] \in States
    BY <1>9 DEF TakeNext, PointerOK, NoPointer, Cleaning
  <2>h. /\ Head(queue[ptr[m]]) \in Msgs
        /\ Tail(queue[ptr[m]]) \in Seq(Msgs)
        /\ Len(Tail(queue[ptr[m]])) <= MaxQueue
    BY <1>9, <2>p, PopTypes DEF TakeNext, TypeInv, TypeOK
  <2>1. SharedTypes'
    BY <1>9, <2>p DEF TakeNext, SharedTypes, LocalTypes
  <2>2. StateTypes'
    BY <1>9, <2>p, <2>h DEF TakeNext, StateTypes
  <2>3. QueueTypes'
    BY <1>9, <2>p, <2>h, QueueUpdate DEF TakeNext, QueueTypes
  <2>4. LocalTypes'
    BY <1>9, <2>h DEF TakeNext, LocalTypes
  <2>5. PcTypes'
    BY <1>9, <2>p DEF TakeNext, PcTypes, SharedTypes, LocalTypes, Labels
  <2>6. ReportTypes'
    BY <1>9, <2>p DEF TakeNext, ReportTypes, Outcomes
  <2>7. PointerOK'
    BY <1>9, <2>p, SMTT(30) DEF TakeNext, LocalTypes, SharedTypes, PcTypes,
         Labels, PointerOK, NoPointer, Cleaning
  <2> QED BY <2>1, <2>2, <2>3, <2>4, <2>5, <2>6, <2>7
<1>10. CASE DrainEmpty(m)
  <2>1. SharedTypes'
    BY <1>10 DEF DrainEmpty, SharedTypes, LocalTypes
  <2>2. StateTypes'
    BY <1>10 DEF DrainEmpty, StateTypes, SharedTypes, LocalTypes
  <2>3. QueueTypes'
    BY <1>10 DEF DrainEmpty, QueueTypes
  <2>4. LocalTypes'
    BY <1>10 DEF DrainEmpty, LocalTypes, SharedTypes
  <2>5. PcTypes'
    <3>1. UNCHANGED clean /\ (Goto(m, "done") \/ Goto(m, "drain"))
      BY <1>10 DEF DrainEmpty, Release
    <3>2. {"done", "drain"} \subseteq Labels
      BY DEF Labels
    <3> HIDE DEF Goto
    <3> QED BY <3>1, <3>2, GotoTypes
  <2>6. ReportTypes'
    BY <1>10 DEF DrainEmpty, ReportTypes, Outcomes
  <2>7. PointerOK'
    BY <1>10, SMTT(30) DEF DrainEmpty, LocalTypes, SharedTypes, PcTypes,
         Labels, PointerOK, NoPointer, Cleaning
  <2> QED BY <2>1, <2>2, <2>3, <2>4, <2>5, <2>6, <2>7
<1>11. CASE DrainPop(m)
  <2>p. ptr[m] \in States
    BY <1>11 DEF DrainPop, PointerOK, NoPointer, Cleaning
  <2>h. /\ Head(queue[ptr[m]]) \in Msgs
        /\ Tail(queue[ptr[m]]) \in Seq(Msgs)
        /\ Len(Tail(queue[ptr[m]])) <= MaxQueue
    BY <1>11, <2>p, PopTypes DEF DrainPop, TypeInv, TypeOK
  <2>1. SharedTypes'
    BY <1>11, <2>p DEF DrainPop, SharedTypes, LocalTypes
  <2>2. StateTypes'
    BY <1>11, <2>p, <2>h DEF DrainPop, StateTypes
  <2>3. QueueTypes'
    BY <1>11, <2>p, <2>h, QueueUpdate DEF DrainPop, QueueTypes
  <2>4. LocalTypes'
    BY <1>11, <2>h DEF DrainPop, LocalTypes
  <2>5. PcTypes'
    BY <1>11, <2>p DEF DrainPop, PcTypes, SharedTypes, LocalTypes, Labels
  <2>6. ReportTypes'
    BY <1>11, <2>p DEF DrainPop, ReportTypes, Outcomes
  <2>7. PointerOK'
    BY <1>11, <2>p, SMTT(30) DEF DrainPop, LocalTypes, SharedTypes, PcTypes,
         Labels, PointerOK, NoPointer, Cleaning
  <2> QED BY <2>1, <2>2, <2>3, <2>4, <2>5, <2>6, <2>7
<1>12. CASE DrainCheck(m)
  <2>1. SharedTypes'
    BY <1>12 DEF DrainCheck, SharedTypes, LocalTypes
  <2>2. StateTypes'
    BY <1>12 DEF DrainCheck, StateTypes, SharedTypes, LocalTypes
  <2>3. QueueTypes' /\ ReportTypes'
    <3>1. \/ DropQueue(ptr[m], "dropped", cur[m], "error")
          \/ Tell(cur[m], "error") /\ UNCHANGED queue
          \/ UNCHANGED <<queue, told>>
      BY <1>12 DEF DrainCheck
    <3>2. UNCHANGED <<triggers, panicked>>
      BY <1>12 DEF DrainCheck
    <3>3. "dropped" \in Outcomes /\ "error" \in Outcomes
      BY OutcomesOK
    <3> QED BY <3>1, <3>2, <3>3, DropTypes DEF TypeInv, TypeOK
  <2>4. LocalTypes'
    BY <1>12 DEF DrainCheck, LocalTypes, SharedTypes
  <2>5. PcTypes'
    BY <1>12 DEF DrainCheck, PcTypes, SharedTypes, LocalTypes, Labels
  <2>7. PointerOK'
    BY <1>12, SMTT(30) DEF DrainCheck, LocalTypes, SharedTypes, PcTypes,
         Labels, PointerOK, NoPointer, Cleaning
  <2> QED BY <2>1, <2>2, <2>3, <2>4, <2>5, <2>7
<1>13. CASE Unlock(m)
  <2>1. SharedTypes'
    BY <1>13 DEF Unlock, SharedTypes, LocalTypes
  <2>2. StateTypes'
    BY <1>13 DEF Unlock, StateTypes, SharedTypes, LocalTypes
  <2>3. QueueTypes'
    BY <1>13 DEF Unlock, QueueTypes
  <2>4. LocalTypes'
    BY <1>13 DEF Unlock, LocalTypes, SharedTypes
  <2>5. PcTypes'
    <3>1. UNCHANGED clean /\ (Goto(m, "done") \/ Goto(m, "drain"))
      BY <1>13 DEF Unlock, Release
    <3>2. {"done", "drain"} \subseteq Labels
      BY DEF Labels
    <3> HIDE DEF Goto
    <3> QED BY <3>1, <3>2, GotoTypes
  <2>6. ReportTypes'
    BY <1>13 DEF Unlock, ReportTypes, Outcomes
  <2>7. PointerOK'
    BY <1>13, SMTT(30) DEF Unlock, LocalTypes, SharedTypes, PcTypes, Labels,
         PointerOK, NoPointer, Cleaning
  <2> QED BY <2>1, <2>2, <2>3, <2>4, <2>5, <2>6, <2>7
<1> QED BY <1>1, <1>2, <1>3, <1>4, <1>5, <1>6, <1>7, <1>8, <1>9, <1>10, <1>11, <1>12, <1>13

LEMMA TypeCompress ==
  ASSUME TypeInv, NEW m \in Msgs,
         CompressPick(m) \/ CompressStopped(m) \/ CompressResult(m) \/
         CompressError(m) \/ CompressFailed(m) \/ Panic(m)
  PROVE  TypeInv'
<1> USE BootIsState, TurnEngineAssumption DEF TypeInv, TypeOK, SharedTypes,
      StateTypes, QueueTypes, LocalTypes, PcTypes, ReportTypes, PointerOK,
      NoPointer, Cleaning, Labels, Outcomes, Goto, Tell, Cleanup, Release,
      CompressTell, StopTake, registry, sessVars, stateVars, locals, StateOrNone
<1>1. CASE CompressPick(m) BY <1>1 DEF CompressPick
<1>2. CASE CompressStopped(m) BY <1>2 DEF CompressStopped
<1>3. CASE CompressResult(m) BY <1>3 DEF CompressResult
<1>4. CASE CompressError(m) BY <1>4 DEF CompressError
<1>5. CASE CompressFailed(m) BY <1>5 DEF CompressFailed
<1>6. CASE Panic(m) BY <1>6 DEF Panic
<1> QED BY <1>1, <1>2, <1>3, <1>4, <1>5, <1>6

LEMMA TypeCompressSplit ==
  ASSUME TypeInv, NEW m \in Msgs,
         CmdCompress(m) \/ CompressLock(m) \/ CompressSend(m) \/ DropAll(m)
  PROVE  TypeInv'
<1> USE BootIsState, TurnEngineAssumption DEF TypeInv, TypeOK, Goto, Tell,
      Cleanup, Release, registry, sessVars, stateVars, locals, StateOrNone
<1>1. CASE CmdCompress(m)
  <2>1. SharedTypes'
    BY <1>1 DEF CmdCompress, SharedTypes, LocalTypes
  <2>2. StateTypes'
    BY <1>1 DEF CmdCompress, StateTypes, SharedTypes, LocalTypes
  <2>3. QueueTypes'
    BY <1>1 DEF CmdCompress, QueueTypes
  <2>4. LocalTypes'
    BY <1>1 DEF CmdCompress, LocalTypes, SharedTypes
  <2>5. PcTypes'
    BY <1>1 DEF CmdCompress, PcTypes, SharedTypes, LocalTypes, Labels
  <2>6. ReportTypes'
    BY <1>1 DEF CmdCompress, ReportTypes, Outcomes
  <2>7. PointerOK'
    BY <1>1, SMTT(30) DEF CmdCompress, LocalTypes, SharedTypes, PcTypes,
         Labels, PointerOK, NoPointer, Cleaning
  <2> QED BY <2>1, <2>2, <2>3, <2>4, <2>5, <2>6, <2>7
<1>2. CASE CompressLock(m)
  <2>1. SharedTypes'
    BY <1>2 DEF CompressLock, SharedTypes, LocalTypes
  <2>2. StateTypes'
    BY <1>2 DEF CompressLock, StateTypes, SharedTypes, LocalTypes
  <2>3. QueueTypes'
    BY <1>2 DEF CompressLock, QueueTypes
  <2>4. LocalTypes'
    BY <1>2 DEF CompressLock, LocalTypes, SharedTypes
  <2>5. PcTypes'
    <3>1. UNCHANGED clean /\ (Goto(m, "done") \/ Goto(m, "compress"))
      BY <1>2 DEF CompressLock
    <3>2. {"done", "compress"} \subseteq Labels
      BY DEF Labels
    <3> HIDE DEF Goto
    <3> QED BY <3>1, <3>2, GotoTypes
  <2>6. ReportTypes'
    BY <1>2 DEF CompressLock, ReportTypes, Outcomes
  <2>7. PointerOK'
    BY <1>2, SMTT(30) DEF CompressLock, LocalTypes, SharedTypes, PcTypes,
         Labels, PointerOK, NoPointer, Cleaning
  <2> QED BY <2>1, <2>2, <2>3, <2>4, <2>5, <2>6, <2>7
<1>3. CASE CompressSend(m)
  <2>1. SharedTypes'
    BY <1>3 DEF CompressSend, SharedTypes, LocalTypes
  <2>2. StateTypes'
    BY <1>3 DEF CompressSend, StateTypes, SharedTypes, LocalTypes
  <2>3. QueueTypes'
    BY <1>3 DEF CompressSend, QueueTypes
  <2>4. LocalTypes'
    BY <1>3 DEF CompressSend, LocalTypes, SharedTypes
  <2>5. PcTypes'
    <3>1. \/ UNCHANGED clean /\ (Goto(m, "cloop") \/ Goto(m, "unlock"))
          \/ Cleanup(m, NoState, FALSE, "unlock")
      BY <1>3 DEF CompressSend
    <3>2. /\ {"drain", "cloop", "unlock", "clean"} \subseteq Labels
          /\ NoState \in StateOrNone
      BY DEF Labels, LocalTypes
    <3> HIDE DEF Goto
    <3> QED BY <3>1, <3>2, GotoTypes, CleanTypes DEF Cleanup
  <2>6. ReportTypes'
    BY <1>3 DEF CompressSend, CompressTell, ReportTypes, Outcomes
  <2>7. PointerOK'
    BY <1>3, SMTT(30) DEF CompressSend, LocalTypes, SharedTypes, PcTypes,
         Labels, PointerOK, NoPointer, Cleaning
  <2> QED BY <2>1, <2>2, <2>3, <2>4, <2>5, <2>6, <2>7
<1>4. CASE DropAll(m)
  <2>1. SharedTypes'
    BY <1>4 DEF DropAll, SharedTypes, LocalTypes
  <2>2. StateTypes'
    BY <1>4 DEF DropAll, StateTypes, SharedTypes, LocalTypes
  <2>3. QueueTypes' /\ ReportTypes'
    <3>1. \/ DropQueue(ptr[m], "dropped", NoMsg, "none")
          \/ Tell(NoMsg, "none") /\ UNCHANGED queue
          \/ UNCHANGED <<queue, told>>
      BY <1>4 DEF DropAll
    <3>2. UNCHANGED <<triggers, panicked>>
      BY <1>4 DEF DropAll
    <3>3. "dropped" \in Outcomes /\ "none" \in Outcomes
      BY OutcomesOK
    <3> QED BY <3>1, <3>2, <3>3, DropTypes DEF TypeInv, TypeOK
  <2>4. LocalTypes'
    BY <1>4 DEF DropAll, LocalTypes, SharedTypes
  <2>5. PcTypes'
    BY <1>4 DEF DropAll, PcTypes, SharedTypes, LocalTypes, Labels
  <2>7. PointerOK'
    BY <1>4, SMTT(30) DEF DropAll, LocalTypes, SharedTypes, PcTypes, Labels,
         PointerOK, NoPointer, Cleaning
  <2> QED BY <2>1, <2>2, <2>3, <2>4, <2>5, <2>7
<1> QED BY <1>1, <1>2, <1>3, <1>4

LEMMA TypeCleanup ==
  ASSUME TypeInv, NEW p \in Procs,
         CleanClose(p) \/ CleanDelete(p)
  PROVE  TypeInv'
<1> USE BootIsState, TurnEngineAssumption DEF TypeInv, TypeOK, SharedTypes,
      StateTypes, QueueTypes, LocalTypes, PcTypes, ReportTypes, PointerOK,
      NoPointer, Cleaning, Labels, Outcomes, Goto, Tell, Cleanup, Release,
      CompressTell, StopTake, registry, sessVars, stateVars, locals, StateOrNone
<1>1. CASE CleanClose(p)
  <2>1. PICK end \in {"closing", "exited"} :
          proc' = [proc EXCEPT ![clean[p].target] = end]
    BY <1>1 DEF CleanClose, Closings
  <2>2. proc' \in [States -> {"none", "running", "closing", "exited"}]
    BY <2>1
  <2> QED BY <1>1, <2>2, ZenonT(60) DEF CleanClose
<1>2. CASE CleanDelete(p) BY <1>2 DEF CleanDelete
<1> QED BY <1>1, <1>2

LEMMA TypeCleanupSplit ==
  ASSUME TypeInv, NEW p \in Procs,
         CleanTake(p) \/ CleanQuiet(p)
  PROVE  TypeInv'
<1> USE BootIsState, TurnEngineAssumption DEF TypeInv, TypeOK, Goto, Tell,
      Cleanup, Release, registry, sessVars, stateVars, locals, StateOrNone
<1>1. CASE CleanTake(p)
  <2>1. SharedTypes'
    BY <1>1 DEF CleanTake, SharedTypes, LocalTypes
  <2>2. StateTypes'
    BY <1>1 DEF CleanTake, StateTypes, SharedTypes, LocalTypes
  <2>3. QueueTypes'
    BY <1>1 DEF CleanTake, QueueTypes
  <2>4. LocalTypes'
    BY <1>1 DEF CleanTake, LocalTypes, SharedTypes
  <2>5. PcTypes'
    BY <1>1 DEF CleanTake, PcTypes, SharedTypes, LocalTypes, Labels
  <2>6. ReportTypes'
    BY <1>1 DEF CleanTake, ReportTypes, Outcomes
  <2>7. PointerOK'
    BY <1>1, SMTT(30) DEF CleanTake, LocalTypes, SharedTypes, PcTypes, Labels,
         PointerOK, NoPointer, Cleaning
  <2> QED BY <2>1, <2>2, <2>3, <2>4, <2>5, <2>6, <2>7
<1>2. CASE CleanQuiet(p)
  <2>1. SharedTypes'
    BY <1>2 DEF CleanQuiet, SharedTypes, LocalTypes
  <2>2. StateTypes'
    BY <1>2 DEF CleanQuiet, StateTypes, SharedTypes, LocalTypes
  <2>3. QueueTypes' /\ ReportTypes'
    <3>1. \/ DropQueue(clean[p].target, "dropped", NoMsg, "none")
          \/ Tell(NoMsg, "none") /\ UNCHANGED queue
          \/ UNCHANGED <<queue, told>>
      BY <1>2 DEF CleanQuiet
    <3>2. UNCHANGED <<triggers, panicked>>
      BY <1>2 DEF CleanQuiet
    <3>3. "dropped" \in Outcomes /\ "none" \in Outcomes
      BY OutcomesOK
    <3> QED BY <3>1, <3>2, <3>3, DropTypes DEF TypeInv, TypeOK
  <2>4. LocalTypes'
    BY <1>2 DEF CleanQuiet, LocalTypes, SharedTypes
  <2>5. PcTypes'
    BY <1>2 DEF CleanQuiet, PcTypes, SharedTypes, LocalTypes, Labels
  <2>7. PointerOK'
    BY <1>2, SMTT(30) DEF CleanQuiet, LocalTypes, SharedTypes, PcTypes, Labels,
         PointerOK, NoPointer, Cleaning
  <2> QED BY <2>1, <2>2, <2>3, <2>4, <2>5, <2>7
<1> QED BY <1>1, <1>2

LEMMA TypeCommand ==
  ASSUME TypeInv, NEW c \in Commands,
         CmdNew(c) \/ Rotate(c) \/ Unbind(c) \/ RecallCurrent(c) \/
         RecallCollect(c)
  PROVE  TypeInv'
<1> USE BootIsState, TurnEngineAssumption DEF TypeInv, TypeOK, SharedTypes,
      StateTypes, QueueTypes, LocalTypes, PcTypes, ReportTypes, PointerOK,
      NoPointer, Cleaning, Labels, Outcomes, Goto, Tell, Cleanup, Release,
      CompressTell, StopTake, registry, sessVars, stateVars, locals, StateOrNone
<1>1. CASE CmdNew(c) BY <1>1 DEF CmdNew
<1>2. CASE Rotate(c) BY <1>2 DEF Rotate
<1>3. CASE Unbind(c) BY <1>3 DEF Unbind
<1>4. CASE RecallCurrent(c) BY <1>4 DEF RecallCurrent
<1>5. CASE RecallCollect(c) BY <1>5 DEF RecallCollect
<1> QED BY <1>1, <1>2, <1>3, <1>4, <1>5

LEMMA TypeCommandSplit ==
  ASSUME TypeInv, NEW c \in Commands,
         CmdStop(c) \/ StopNotify(c) \/ StopClose(c) \/ RecallStop(c) \/
         RecallQueued(c)
  PROVE  TypeInv'
<1> USE BootIsState, TurnEngineAssumption DEF TypeInv, TypeOK, Goto, Tell,
      Cleanup, Release, registry, sessVars, stateVars, locals, StateOrNone
<1>1. CASE CmdStop(c)
  <2>1. SharedTypes'
    BY <1>1 DEF CmdStop, StopTake, SharedTypes, LocalTypes
  <2>2. StateTypes'
    BY <1>1 DEF CmdStop, StopTake, StateTypes, SharedTypes, LocalTypes
  <2>3. QueueTypes'
    BY <1>1 DEF CmdStop, StopTake, QueueTypes
  <2>4. LocalTypes'
    BY <1>1 DEF CmdStop, StopTake, LocalTypes, SharedTypes
  <2>5. PcTypes'
    <3>1. CASE entry = NoState
      <4>1. UNCHANGED clean /\ Goto(c, "done")
        BY <1>1, <3>1 DEF CmdStop, StopTake
      <4>2. "done" \in Labels
        BY DEF Labels
      <4> HIDE DEF Goto
      <4> QED BY <4>1, <4>2, GotoTypes
    <3>2. CASE entry # NoState
      <4>1. entry \in States /\ hasAgent[entry] \in BOOLEAN
        BY <3>2 DEF SharedTypes, StateTypes
      <4>2. {"unbind", "done", "stopnotify"} \subseteq Labels
        BY DEF Labels
      <4>3. /\ Goto(c, "stopnotify")
            /\ clean' = [clean EXCEPT ![c] = [target |-> entry,
                     owns |-> hasAgent[entry], expect |-> FALSE,
                     back |-> "unbind"]]
        BY <1>1, <3>2 DEF CmdStop, StopTake
      <4> HIDE DEF Goto
      <4> QED BY <4>1, <4>2, <4>3, CleanTypes
    <3> QED BY <3>1, <3>2
  <2>6. ReportTypes'
    BY <1>1 DEF CmdStop, StopTake, ReportTypes, Outcomes
  <2>7. PointerOK'
    BY <1>1, SMTT(30) DEF CmdStop, StopTake, LocalTypes, SharedTypes, PcTypes,
         Labels, PointerOK, NoPointer, Cleaning
  <2> QED BY <2>1, <2>2, <2>3, <2>4, <2>5, <2>6, <2>7
<1>2. CASE StopNotify(c)
  <2>1. SharedTypes'
    BY <1>2 DEF StopNotify, SharedTypes, LocalTypes
  <2>2. StateTypes'
    BY <1>2 DEF StopNotify, StateTypes, SharedTypes, LocalTypes
  <2>3. QueueTypes' /\ ReportTypes'
    <3> DEFINE what == IF clean[c].back = "unbind" THEN "dropped" ELSE "silenced"
    <3>1. \/ DropQueue(clean[c].target, what, NoMsg, "none")
          \/ Tell(NoMsg, "none") /\ UNCHANGED queue
          \/ UNCHANGED <<queue, told>>
      BY <1>2 DEF StopNotify
    <3>2. UNCHANGED <<triggers, panicked>>
      BY <1>2 DEF StopNotify
    <3>3. what \in Outcomes /\ "none" \in Outcomes
      BY OutcomesOK
    <3> HIDE DEF what
    <3> QED BY <3>1, <3>2, <3>3, DropTypes DEF TypeInv, TypeOK
  <2>4. LocalTypes'
    BY <1>2 DEF StopNotify, LocalTypes, SharedTypes
  <2>5. PcTypes'
    BY <1>2 DEF StopNotify, PcTypes, SharedTypes, LocalTypes, Labels
  <2>7. PointerOK'
    BY <1>2, SMTT(30) DEF StopNotify, LocalTypes, SharedTypes, PcTypes, Labels,
         PointerOK, NoPointer, Cleaning
  <2> QED BY <2>1, <2>2, <2>3, <2>4, <2>5, <2>7
<1>3. CASE StopClose(c)
  <2>1. SharedTypes'
    BY <1>3 DEF StopClose, SharedTypes, LocalTypes
  <2>2. StateTypes'
    <3>1. PICK end \in {"closing", "exited"} :
            proc' = [proc EXCEPT ![clean[c].target] = end]
      BY <1>3 DEF StopClose, Closings
    <3>2. proc' \in [States -> {"none", "running", "closing", "exited"}]
      BY <3>1 DEF StateTypes
    <3> QED BY <1>3, <3>2 DEF StopClose, StateTypes
  <2>3. QueueTypes'
    BY <1>3 DEF StopClose, QueueTypes
  <2>4. LocalTypes'
    BY <1>3 DEF StopClose, LocalTypes, SharedTypes
  <2>5. PcTypes'
    <3>1. /\ UNCHANGED pc
          /\ clean' = [clean EXCEPT ![c] = [@ EXCEPT !.owns = FALSE]]
      BY <1>3 DEF StopClose
    <3>2. clean[c] \in [target : StateOrNone, owns : BOOLEAN,
                        expect : BOOLEAN, back : Labels]
      BY DEF PcTypes
    <3>3. [clean[c] EXCEPT !.owns = FALSE] \in
            [target : StateOrNone, owns : BOOLEAN, expect : BOOLEAN, back : Labels]
      BY <3>2
    <3> QED BY <3>1, <3>3 DEF PcTypes
  <2>6. ReportTypes'
    BY <1>3 DEF StopClose, ReportTypes, Outcomes
  <2>7. PointerOK'
    BY <1>3, SMTT(30) DEF StopClose, LocalTypes, SharedTypes, PcTypes, Labels,
         PointerOK, NoPointer, Cleaning
  <2> QED BY <2>1, <2>2, <2>3, <2>4, <2>5, <2>6, <2>7
<1>4. CASE RecallStop(c)
  <2>1. SharedTypes'
    BY <1>4 DEF RecallStop, StopTake, SharedTypes, LocalTypes
  <2>2. StateTypes'
    BY <1>4, ZenonT(60) DEF RecallStop, StopTake, StateTypes, SharedTypes, LocalTypes
  <2>3. QueueTypes'
    BY <1>4 DEF RecallStop, StopTake, QueueTypes
  <2>4. LocalTypes'
    BY <1>4 DEF RecallStop, StopTake, LocalTypes, SharedTypes
  <2>5. PcTypes'
    <3>1. CASE entry = NoState
      <4>1. UNCHANGED clean /\ Goto(c, "done")
        BY <1>4, <3>1 DEF RecallStop, StopTake
      <4>2. "done" \in Labels
        BY DEF Labels
      <4> HIDE DEF Goto
      <4> QED BY <4>1, <4>2, GotoTypes
    <3>2. CASE entry # NoState
      <4>1. entry \in States /\ hasAgent[entry] \in BOOLEAN
        BY <3>2 DEF SharedTypes, StateTypes
      <4>2. {"unbind", "done", "stopnotify"} \subseteq Labels
        BY DEF Labels
      <4>3. /\ Goto(c, "stopnotify")
            /\ clean' = [clean EXCEPT ![c] = [target |-> entry,
                     owns |-> hasAgent[entry], expect |-> FALSE,
                     back |-> "done"]]
        BY <1>4, <3>2 DEF RecallStop, StopTake
      <4> HIDE DEF Goto
      <4> QED BY <4>1, <4>2, <4>3, CleanTypes
    <3> QED BY <3>1, <3>2
  <2>6. ReportTypes'
    BY <1>4 DEF RecallStop, StopTake, ReportTypes, Outcomes
  <2>7. PointerOK'
    BY <1>4, SMTT(30) DEF RecallStop, StopTake, LocalTypes, SharedTypes,
         PcTypes, Labels, PointerOK, NoPointer, Cleaning
  <2> QED BY <2>1, <2>2, <2>3, <2>4, <2>5, <2>6, <2>7
<1>5. CASE RecallQueued(c)
  <2>p. ptr[c] \in States
    BY <1>5 DEF RecallQueued, PointerOK, NoPointer, Cleaning
  <2>1. SharedTypes'
    BY <1>5, <2>p DEF RecallQueued, SharedTypes, LocalTypes
  <2>2. StateTypes'
    BY <1>5, <2>p DEF RecallQueued, StateTypes, SharedTypes, LocalTypes
  <2>3. QueueTypes'
    <3> DEFINE q == queue[ptr[c]]
    <3>1. CASE UNCHANGED queue
      BY <3>1 DEF QueueTypes
    <3>2. ASSUME NEW i \in DOMAIN q,
                 queue' = [queue EXCEPT ![ptr[c]] =
                             SubSeq(q, 1, i - 1) \o SubSeq(q, i + 1, Len(q))]
          PROVE  QueueTypes'
      <4>1. q \in Seq(Msgs) /\ Len(q) <= MaxQueue
        BY <2>p DEF QueueTypes
      <4> HIDE DEF q
      <4>2. /\ Without(q, i) \in Seq(Msgs)
            /\ Len(Without(q, i)) <= MaxQueue
        BY <3>2, <4>1, WithoutTypes
      <4> QED BY <2>p, <3>2, <4>2, QueueUpdate DEF Without, QueueTypes
    <3> QED BY <1>5, <3>1, <3>2 DEF RecallQueued
  <2>4. LocalTypes'
    BY <1>5, <2>p DEF RecallQueued, LocalTypes, SharedTypes
  <2>5. PcTypes'
    BY <1>5, <2>p DEF RecallQueued, PcTypes, SharedTypes, LocalTypes, Labels
  <2>6. ReportTypes'
    BY <1>5 DEF RecallQueued, ReportTypes, Outcomes
  <2>7. PointerOK'
    BY <1>5, <2>p, ZenonT(60) DEF RecallQueued, LocalTypes, SharedTypes, PcTypes,
         Labels, PointerOK, NoPointer, Cleaning
  <2> QED BY <2>1, <2>2, <2>3, <2>4, <2>5, <2>6, <2>7
<1> QED BY <1>1, <1>2, <1>3, <1>4, <1>5

LEMMA TypeAgentExit ==
  ASSUME TypeInv, NEW s \in States, AgentExit(s)
  PROVE  TypeInv'
BY DEF AgentExit, TypeInv, TypeOK, SharedTypes, StateTypes, QueueTypes,
  LocalTypes, PcTypes, ReportTypes, PointerOK, registry, sessVars, locals

LEMMA TypeStutter ==
  ASSUME TypeInv, UNCHANGED vars
  PROVE  TypeInv'
BY DEF vars, TypeInv, TypeOK, SharedTypes, StateTypes, QueueTypes, LocalTypes,
  PcTypes, ReportTypes, PointerOK, registry, sessVars, stateVars, locals

LEMMA TypeNext ==
  ASSUME TypeInv, [Next]_vars
  PROVE  TypeInv'
<1>1. ASSUME NEW m \in Msgs, Arrival(m) \/ Handler(m)
      PROVE  TypeInv'
  BY <1>1, TypeHandler, TypeHandlerSplit, TypeCompressSplit
  DEF Arrival, Handler
<1>2. ASSUME NEW m \in Msgs, Turn(m)
      PROVE  TypeInv'
  BY <1>2, TypeTurn, TypeTurnSplit DEF Turn
<1>3. ASSUME NEW m \in Msgs, Compress(m) \/ Panic(m)
      PROVE  TypeInv'
  BY <1>3, TypeCompress, TypeCompressSplit DEF Compress
<1>4. ASSUME NEW p \in Procs, CleanupStep(p)
      PROVE  TypeInv'
  BY <1>4, TypeCleanup, TypeCleanupSplit DEF CleanupStep
<1>5. ASSUME NEW c \in Commands, Command(c)
      PROVE  TypeInv'
  BY <1>5, TypeCommand, TypeCommandSplit DEF Command
<1>6. ASSUME NEW s \in States, AgentExit(s)
      PROVE  TypeInv'
  BY <1>6, TypeAgentExit
<1>7. CASE UNCHANGED vars
  BY <1>7, TypeStutter
<1> QED BY <1>1, <1>2, <1>3, <1>4, <1>5, <1>6, <1>7 DEF Next, Finished

\* Every state of the engine is well formed and no queue exceeds
\* maxQueuedMessages, however many messages and commands there are and
\* whatever fails: interactiveState.pendingMessages is appended to in
\* queueMessageForBusySession only, and adopted whole.
THEOREM TypeCorrect == Spec => []TypeOK
<1>1. TypeInv => TypeOK
  BY DEF TypeInv
<1> QED BY <1>1, TypeInit, TypeNext, PTL DEF Spec

-----------------------------------------------------------------------------
(* Mutual exclusion of the turns of a Session, as long as the two features *)
(* that unlock a Session out of turn are off.  (With auto-compress on      *)
(* TurnMutex does not hold, as AutoCompressUnlocks.cfg shows; with the     *)
(* idle reset on, LockNewSession may go on with an unlocked Session.)      *)
(*                                                                         *)
(* Every step of a goroutine keeps what it holds, takes a free Session, or *)
(* gives back the one it holds; each of the three preserves MutexInv.      *)

\* The features off.
PlainTurns == ~IdleReset /\ MaxAutoCompress = 0

\* The labels of the idle reset, where the old Session is unlocked early.
Resetting == {"reset", "newsession", "relock"}

MutexInv ==
  /\ \A m \in Msgs :
       /\ pc[m] \notin Resetting
       /\ pc[m] \in Cleaning => clean[m].back \in {"drain", "unlock", "dropall"}
       /\ depth[m] = 0
       /\ pc[m] \in Holding => busy[sess[m]]
  /\ \A m, n \in Msgs :
       pc[m] \in Holding /\ pc[n] \in Holding /\ sess[m] = sess[n] => m = n
  /\ \A s \in Sessions : busy[s] => \E m \in Msgs : Holds(m, s)

\* Goroutine p moves; the locals of the other goroutines stay.
Moves(p) ==
  /\ \A q \in Msgs \ {p} :
       pc'[q] = pc[q] /\ sess'[q] = sess[q] /\ clean'[q] = clean[q]
  /\ UNCHANGED depth
  /\ p \in Msgs =>
       /\ pc'[p] \notin Resetting
       /\ pc'[p] \in Cleaning => clean'[p].back \in {"drain", "unlock", "dropall"}

\* It holds what it held before ...
Keeps(p) ==
  /\ Moves(p)
  /\ UNCHANGED busy
  /\ p \in Msgs => /\ pc'[p] \in Holding <=> pc[p] \in Holding
                   /\ pc'[p] \in Holding => sess'[p] = sess[p]

\* ... or takes a free Session ...
Takes(m) ==
  /\ Moves(m)
  /\ pc[m] \notin Holding /\ pc'[m] \in Holding
  /\ ~busy[sess'[m]]
  /\ busy' = [busy EXCEPT ![sess'[m]] = TRUE]

\* ... or gives its own back.
Gives(m) ==
  /\ Moves(m)
  /\ pc[m] \in Holding /\ pc'[m] \notin Holding
  /\ busy' = [busy EXCEPT ![sess[m]] = FALSE]

LEMMA KeepsMutex ==
  ASSUME TypeInv, TypeInv', MutexInv, NEW p \in Procs, Keeps(p)
  PROVE  MutexInv'
<1> USE DEF TypeInv, TypeOK, SharedTypes, LocalTypes, PcTypes
<1>1. Moves(p) /\ UNCHANGED busy
  BY DEF Keeps
<1>2. \A m \in Msgs :
        /\ pc'[m] \in Holding <=> pc[m] \in Holding
        /\ pc'[m] \in Holding => sess'[m] = sess[m]
  BY DEF Keeps, Moves
<1>3. \A m \in Msgs :
        /\ pc'[m] \notin Resetting
        /\ pc'[m] \in Cleaning =>
             clean'[m].back \in {"drain", "unlock", "dropall"}
        /\ depth'[m] = 0
  BY <1>1 DEF Moves, MutexInv
<1>4. \A m \in Msgs : pc'[m] \in Holding => busy'[sess'[m]]
  BY <1>1, <1>2 DEF MutexInv
<1>5. \A m, n \in Msgs :
        pc'[m] \in Holding /\ pc'[n] \in Holding /\ sess'[m] = sess'[n] => m = n
  BY <1>2 DEF MutexInv
<1>6. \A s \in Sessions : busy'[s] => \E m \in Msgs : Holds(m, s)'
  BY <1>1, <1>2 DEF MutexInv, Holds
<1> QED BY <1>3, <1>4, <1>5, <1>6 DEF MutexInv

LEMMA TakesMutex ==
  ASSUME TypeInv, TypeInv', MutexInv, NEW p \in Msgs, Takes(p)
  PROVE  MutexInv'
<1> USE DEF TypeInv, TypeOK, SharedTypes, LocalTypes, PcTypes
<1> DEFINE t == sess'[p]
<1>1. Moves(p) /\ pc[p] \notin Holding /\ ~busy[t]
      /\ busy' = [busy EXCEPT ![t] = TRUE]
  BY DEF Takes
<1>2. /\ pc'[p] \in Holding /\ t \in Sessions
      /\ \A m \in Msgs \ {p} : pc'[m] = pc[m] /\ sess'[m] = sess[m]
  BY DEF Moves, Takes
<1>3. \A m \in Msgs :
        /\ pc'[m] \notin Resetting
        /\ pc'[m] \in Cleaning =>
             clean'[m].back \in {"drain", "unlock", "dropall"}
        /\ depth'[m] = 0
  BY <1>1 DEF Moves, MutexInv
<1>4. \A m \in Msgs : pc'[m] \in Holding => busy'[sess'[m]]
  BY <1>1, <1>2 DEF MutexInv
<1>5. \A m \in Msgs \ {p} : pc'[m] \in Holding => sess'[m] # t
  BY <1>1, <1>2 DEF MutexInv
<1>6. \A m, n \in Msgs :
        pc'[m] \in Holding /\ pc'[n] \in Holding /\ sess'[m] = sess'[n] => m = n
  BY <1>2, <1>5 DEF MutexInv
<1>7. \A s \in Sessions : busy'[s] => \E m \in Msgs : Holds(m, s)'
  <2> SUFFICES ASSUME NEW s \in Sessions, busy'[s]
               PROVE  \E m \in Msgs : Holds(m, s)'
    OBVIOUS
  <2>1. CASE s = t
    BY <1>2, <2>1 DEF Holds
  <2>2. CASE s # t
    <3>1. busy[s]
      BY <1>1, <2>2
    <3>2. PICK m \in Msgs : Holds(m, s)
      BY <3>1 DEF MutexInv
    <3>3. m # p
      BY <1>1, <3>2 DEF Holds
    <3> QED BY <1>2, <3>2, <3>3 DEF Holds
  <2> QED BY <2>1, <2>2
<1> QED BY <1>3, <1>4, <1>6, <1>7 DEF MutexInv

LEMMA GivesMutex ==
  ASSUME TypeInv, TypeInv', MutexInv, NEW p \in Msgs, Gives(p)
  PROVE  MutexInv'
<1> USE DEF TypeInv, TypeOK, SharedTypes, LocalTypes, PcTypes
<1>1. /\ pc'[p] \notin Holding
      /\ \A m \in Msgs \ {p} : pc'[m] = pc[m] /\ sess'[m] = sess[m]
      /\ busy' = [busy EXCEPT ![sess[p]] = FALSE]
  BY DEF Gives, Moves
<1>2. \A m \in Msgs :
        /\ pc'[m] \notin Resetting
        /\ pc'[m] \in Cleaning =>
             clean'[m].back \in {"drain", "unlock", "dropall"}
        /\ depth'[m] = 0
  BY DEF Gives, Moves, MutexInv
<1>3. \A m \in Msgs : pc'[m] \in Holding => m # p /\ sess[m] # sess[p]
  BY <1>1 DEF MutexInv, Gives
<1>4. \A m \in Msgs : pc'[m] \in Holding => busy'[sess'[m]]
  BY <1>1, <1>3 DEF MutexInv
<1>5. \A m, n \in Msgs :
        pc'[m] \in Holding /\ pc'[n] \in Holding /\ sess'[m] = sess'[n] => m = n
  BY <1>1, <1>3 DEF MutexInv
<1>6. \A s \in Sessions : busy'[s] => \E m \in Msgs : Holds(m, s)'
  <2> SUFFICES ASSUME NEW s \in Sessions, busy'[s]
               PROVE  \E m \in Msgs : Holds(m, s)'
    OBVIOUS
  <2>1. s # sess[p] /\ busy[s]
    BY <1>1
  <2>2. PICK m \in Msgs : Holds(m, s)
    BY <2>1 DEF MutexInv
  <2>3. m # p
    BY <2>1, <2>2 DEF Holds
  <2> QED BY <1>1, <2>2, <2>3 DEF Holds
<1> QED BY <1>2, <1>4, <1>5, <1>6 DEF MutexInv

-----------------------------------------------------------------------------
(* Every step is one of the three *)

LEMMA HandlerSteps ==
  ASSUME PlainTurns, TypeInv, MutexInv, NEW m \in Msgs,
         Arrive(m) \/ TryLock(m) \/ Lookup(m) \/ QueueMessage(m) \/ Retry(m)
         \/ KeepSession(m) \/ StartIdleReset(m) \/ UnlockOldSession(m) \/
         NewSession(m) \/ LockNewSession(m) \/ EnsureState(m) \/
         DrainOrphaned(m)
  PROVE  Keeps(m) \/ Takes(m) \/ Gives(m)
<1> USE TurnEngineAssumption DEF TypeInv, TypeOK, SharedTypes, LocalTypes, PcTypes,
      Moves, Goto, Cleanup, sessVars, locals, Labels, Holding, TurnHolds, Cleaning,
      Resetting
<1>1. CASE Arrive(m)
  <2>1. Keeps(m)
    BY <1>1 DEF Arrive, Keeps
  <2> QED BY <2>1
<1>2. CASE TryLock(m)
  <2>1. CASE busy[sess[m]]
    <3>1. Keeps(m)
      BY <1>2, <2>1 DEF TryLock, Keeps
    <3> QED BY <3>1
  <2>2. CASE ~(busy[sess[m]])
    <3>1. Takes(m)
      BY <1>2, <2>2 DEF TryLock, Takes
    <3> QED BY <3>1
  <2> QED BY <2>1, <2>2
<1>3. CASE Lookup(m)
  <2>1. Keeps(m)
    BY <1>3 DEF Lookup, Keeps
  <2> QED BY <2>1
<1>4. CASE QueueMessage(m)
  <2>1. Keeps(m)
    BY <1>4 DEF QueueMessage, Keeps
  <2> QED BY <2>1
<1>5. CASE Retry(m)
  <2>1. CASE busy[sess[m]]
    <3>1. Keeps(m)
      BY <1>5, <2>1 DEF Retry, Keeps
    <3> QED BY <3>1
  <2>2. CASE ~(busy[sess[m]])
    <3>1. Takes(m)
      BY <1>5, <2>2 DEF Retry, Takes
    <3> QED BY <3>1
  <2> QED BY <2>1, <2>2
<1>6. CASE KeepSession(m)
  <2>1. Keeps(m)
    BY <1>6 DEF KeepSession, Keeps
  <2> QED BY <2>1
<1>7. CASE StartIdleReset(m)
  <2>1. FALSE
    BY <1>7 DEF StartIdleReset, PlainTurns, MutexInv, ReportTypes
  <2> QED BY <2>1
<1>8. CASE UnlockOldSession(m)
  <2>1. FALSE
    BY <1>8 DEF UnlockOldSession, PlainTurns, MutexInv, ReportTypes
  <2> QED BY <2>1
<1>9. CASE NewSession(m)
  <2>1. FALSE
    BY <1>9 DEF NewSession, PlainTurns, MutexInv, ReportTypes
  <2> QED BY <2>1
<1>10. CASE LockNewSession(m)
  <2>1. FALSE
    BY <1>10 DEF LockNewSession, PlainTurns, MutexInv, ReportTypes
  <2> QED BY <2>1
<1>11. CASE EnsureState(m)
  <2>1. Keeps(m)
    BY <1>11 DEF EnsureState, Keeps
  <2> QED BY <2>1
<1>12. CASE DrainOrphaned(m)
  <2>1. Keeps(m)
    BY <1>12 DEF DrainOrphaned, Keeps
  <2> QED BY <2>1
<1> QED BY <1>1, <1>2, <1>3, <1>4, <1>5, <1>6, <1>7, <1>8, <1>9, <1>10,
          <1>11, <1>12

LEMMA TurnSteps ==
  ASSUME PlainTurns, TypeInv, MutexInv, NEW m \in Msgs,
         ReuseState(m) \/ CreateState(m) \/ CheckAgent(m) \/ Send(m) \/
         LoopStopped(m) \/ LoopResult(m) \/ LoopError(m) \/ LoopClosed(m) \/
         LoopSendError(m) \/ LoopIdleTimeout(m) \/ LoopMaxTurnTime(m) \/
         TakeNext(m) \/ LeaveLoop(m) \/ AutoCompress(m) \/ DrainEmpty(m) \/
         DrainPop(m) \/ DrainCheck(m) \/ Unlock(m)
  PROVE  Keeps(m) \/ Takes(m) \/ Gives(m)
<1> USE TurnEngineAssumption DEF TypeInv, TypeOK, SharedTypes, LocalTypes, PcTypes,
      Moves, Goto, Cleanup, sessVars, locals, Labels, Holding, TurnHolds, Cleaning,
      Resetting
<1>1. CASE ReuseState(m)
  <2>1. Keeps(m)
    BY <1>1 DEF ReuseState, Keeps
  <2> QED BY <2>1
<1>2. CASE CreateState(m)
  <2>1. Keeps(m)
    BY <1>2 DEF CreateState, Keeps
  <2> QED BY <2>1
<1>3. CASE CheckAgent(m)
  <2>1. Keeps(m)
    BY <1>3 DEF CheckAgent, Keeps
  <2> QED BY <2>1
<1>4. CASE Send(m)
  <2>1. Keeps(m)
    BY <1>4 DEF Send, Keeps
  <2> QED BY <2>1
<1>5. CASE LoopStopped(m)
  <2>1. Keeps(m)
    BY <1>5 DEF LoopStopped, Keeps
  <2> QED BY <2>1
<1>6. CASE LoopResult(m)
  <2>1. Keeps(m)
    BY <1>6 DEF LoopResult, Keeps
  <2> QED BY <2>1
<1>7. CASE LoopError(m)
  <2>1. Keeps(m)
    BY <1>7 DEF LoopError, Keeps
  <2> QED BY <2>1
<1>8. CASE LoopClosed(m)
  <2>1. Keeps(m)
    BY <1>8 DEF LoopClosed, Keeps
  <2> QED BY <2>1
<1>9. CASE LoopSendError(m)
  <2>1. Keeps(m)
    BY <1>9 DEF LoopSendError, Keeps
  <2> QED BY <2>1
<1>10. CASE LoopIdleTimeout(m)
  <2>1. Keeps(m)
    BY <1>10 DEF LoopIdleTimeout, Keeps
  <2> QED BY <2>1
<1>11. CASE LoopMaxTurnTime(m)
  <2>1. Keeps(m)
    BY <1>11 DEF LoopMaxTurnTime, Keeps
  <2> QED BY <2>1
<1>12. CASE TakeNext(m)
  <2>1. Keeps(m)
    BY <1>12 DEF TakeNext, Keeps
  <2> QED BY <2>1
<1>13. CASE LeaveLoop(m)
  <2>1. Keeps(m)
    BY <1>13 DEF LeaveLoop, Keeps
  <2> QED BY <2>1
<1>14. CASE AutoCompress(m)
  <2>1. FALSE
    BY <1>14 DEF AutoCompress, PlainTurns, MutexInv, ReportTypes
  <2> QED BY <2>1
<1>15. CASE DrainEmpty(m)
  <2>1. Gives(m)
    BY <1>15 DEF DrainEmpty, Gives, Release, MutexInv
  <2> QED BY <2>1
<1>16. CASE DrainPop(m)
  <2>1. Keeps(m)
    BY <1>16 DEF DrainPop, Keeps
  <2> QED BY <2>1
<1>17. CASE DrainCheck(m)
  <2>1. Keeps(m)
    BY <1>17 DEF DrainCheck, Keeps
  <2> QED BY <2>1
<1>18. CASE Unlock(m)
  <2>1. Gives(m)
    BY <1>18 DEF Unlock, Gives, Release, MutexInv
  <2> QED BY <2>1
<1> QED BY <1>1, <1>2, <1>3, <1>4, <1>5, <1>6, <1>7, <1>8, <1>9, <1>10,
          <1>11, <1>12, <1>13, <1>14, <1>15, <1>16, <1>17, <1>18

LEMMA CompressSteps ==
  ASSUME PlainTurns, TypeInv, MutexInv, NEW m \in Msgs,
         CmdCompress(m) \/ CompressPick(m) \/ CompressLock(m) \/
         CompressSend(m) \/ CompressStopped(m) \/ CompressResult(m) \/
         CompressError(m) \/ CompressFailed(m) \/ DropAll(m)
  PROVE  Keeps(m) \/ Takes(m) \/ Gives(m)
<1> USE TurnEngineAssumption DEF TypeInv, TypeOK, SharedTypes, LocalTypes, PcTypes,
      Moves, Goto, Cleanup, sessVars, locals, Labels, Holding, TurnHolds, Cleaning,
      Resetting
<1>1. CASE CmdCompress(m)
  <2>1. Keeps(m)
    BY <1>1 DEF CmdCompress, Keeps
  <2> QED BY <2>1
<1>2. CASE CompressPick(m)
  <2>1. Keeps(m)
    BY <1>2 DEF CompressPick, Keeps
  <2> QED BY <2>1
<1>3. CASE CompressLock(m)
  <2>1. CASE busy[sess[m]]
    <3>1. Keeps(m)
      BY <1>3, <2>1 DEF CompressLock, Keeps
    <3> QED BY <3>1
  <2>2. CASE ~(busy[sess[m]])
    <3>1. Takes(m)
      BY <1>3, <2>2 DEF CompressLock, Takes
    <3> QED BY <3>1
  <2> QED BY <2>1, <2>2
<1>4. CASE CompressSend(m)
  <2>1. Keeps(m)
    BY <1>4 DEF CompressSend, Keeps
  <2> QED BY <2>1
<1>5. CASE CompressStopped(m)
  <2>1. Keeps(m)
    BY <1>5 DEF CompressStopped, Keeps
  <2> QED BY <2>1
<1>6. CASE CompressResult(m)
  <2>1. Keeps(m)
    BY <1>6 DEF CompressResult, Keeps
  <2> QED BY <2>1
<1>7. CASE CompressError(m)
  <2>1. Keeps(m)
    BY <1>7 DEF CompressError, Keeps
  <2> QED BY <2>1
<1>8. CASE CompressFailed(m)
  <2>1. Keeps(m)
    BY <1>8 DEF CompressFailed, Keeps
  <2> QED BY <2>1
<1>9. CASE DropAll(m)
  <2>1. Keeps(m)
    BY <1>9 DEF DropAll, Keeps
  <2> QED BY <2>1
<1> QED BY <1>1, <1>2, <1>3, <1>4, <1>5, <1>6, <1>7, <1>8, <1>9

LEMMA CleanupSteps ==
  ASSUME PlainTurns, TypeInv, MutexInv, NEW p \in Procs,
         CleanTake(p) \/ CleanQuiet(p) \/ CleanClose(p) \/ CleanDelete(p)
  PROVE  Keeps(p)
<1> USE TurnEngineAssumption DEF TypeInv, TypeOK, SharedTypes, LocalTypes, PcTypes,
      Moves, Goto, Cleanup, sessVars, locals, Labels, Holding, TurnHolds, Cleaning,
      Resetting
<1>1. CASE CleanTake(p)
  <2>1. Keeps(p)
    BY <1>1 DEF CleanTake, Keeps, MutexInv
  <2> QED BY <2>1
<1>2. CASE CleanQuiet(p)
  <2>1. Keeps(p)
    BY <1>2 DEF CleanQuiet, Keeps, MutexInv
  <2> QED BY <2>1
<1>3. CASE CleanClose(p)
  <2>1. Keeps(p)
    BY <1>3 DEF CleanClose, Keeps, MutexInv
  <2> QED BY <2>1
<1>4. CASE CleanDelete(p)
  <2>1. Keeps(p)
    BY <1>4 DEF CleanDelete, Keeps, MutexInv
  <2> QED BY <2>1
<1> QED BY <1>1, <1>2, <1>3, <1>4

LEMMA CommandSteps ==
  ASSUME PlainTurns, TypeInv, MutexInv, NEW c \in Commands,
         CmdNew(c) \/ Rotate(c) \/ CmdStop(c) \/ StopNotify(c) \/
         StopClose(c) \/ Unbind(c) \/ RecallCurrent(c) \/ RecallStop(c) \/
         RecallCollect(c) \/ RecallQueued(c)
  PROVE  Keeps(c)
<1> USE TurnEngineAssumption DEF TypeInv, TypeOK, SharedTypes, LocalTypes, PcTypes,
      Moves, Goto, Cleanup, sessVars, locals, Labels, Holding, TurnHolds, Cleaning,
      Resetting
<1>1. CASE CmdNew(c)
  <2>1. Keeps(c)
    BY <1>1 DEF CmdNew, Keeps
  <2> QED BY <2>1
<1>2. CASE Rotate(c)
  <2>1. Keeps(c)
    BY <1>2 DEF Rotate, Keeps
  <2> QED BY <2>1
<1>3. CASE CmdStop(c)
  <2>1. Keeps(c)
    BY <1>3 DEF CmdStop, Keeps, StopTake
  <2> QED BY <2>1
<1>4. CASE StopNotify(c)
  <2>1. Keeps(c)
    BY <1>4 DEF StopNotify, Keeps
  <2> QED BY <2>1
<1>5. CASE StopClose(c)
  <2>1. Keeps(c)
    BY <1>5 DEF StopClose, Keeps
  <2> QED BY <2>1
<1>6. CASE Unbind(c)
  <2>1. Keeps(c)
    BY <1>6 DEF Unbind, Keeps
  <2> QED BY <2>1
<1>7. CASE RecallCurrent(c)
  <2>1. Keeps(c)
    BY <1>7 DEF RecallCurrent, Keeps
  <2> QED BY <2>1
<1>8. CASE RecallStop(c)
  <2>1. Keeps(c)
    BY <1>8 DEF RecallStop, Keeps, StopTake
  <2> QED BY <2>1
<1>9. CASE RecallCollect(c)
  <2>1. Keeps(c)
    BY <1>9 DEF RecallCollect, Keeps
  <2> QED BY <2>1
<1>10. CASE RecallQueued(c)
  <2>1. Keeps(c)
    BY <1>10 DEF RecallQueued, Keeps
  <2> QED BY <2>1
<1> QED BY <1>1, <1>2, <1>3, <1>4, <1>5, <1>6, <1>7, <1>8, <1>9, <1>10

LEMMA MutexInit == Init => MutexInv
BY DEF Init, MutexInv, Resetting, Cleaning, Holding, TurnHolds

LEMMA MutexStutter ==
  ASSUME MutexInv, UNCHANGED <<busy, sess, depth, pc, clean>>
  PROVE  MutexInv'
BY DEF MutexInv, Holds

LEMMA MutexNext ==
  ASSUME PlainTurns, TypeInv, MutexInv, [Next]_vars
  PROVE  MutexInv'
<1>t. TypeInv'
  BY TypeNext
<1>1. ASSUME NEW m \in Msgs, Arrival(m) \/ Handler(m) \/ Turn(m) \/ Compress(m)
      PROVE  MutexInv'
  <2>1. Keeps(m) \/ Takes(m) \/ Gives(m)
    BY <1>1, HandlerSteps, TurnSteps, CompressSteps
    DEF Arrival, Handler, Turn, Compress
  <2> QED BY <1>t, <2>1, KeepsMutex, TakesMutex, GivesMutex
<1>2. ASSUME NEW m \in Msgs, Panic(m)
      PROVE  MutexInv'
  BY <1>2, MutexStutter DEF Panic, sessVars, locals
<1>3. ASSUME NEW p \in Procs, CleanupStep(p)
      PROVE  MutexInv'
  BY <1>t, <1>3, CleanupSteps, KeepsMutex DEF CleanupStep
<1>4. ASSUME NEW c \in Commands, Command(c)
      PROVE  MutexInv'
  BY <1>t, <1>4, CommandSteps, KeepsMutex DEF Command
<1>5. ASSUME NEW s \in States, AgentExit(s)
      PROVE  MutexInv'
  BY <1>5, MutexStutter DEF AgentExit, sessVars, locals
<1>6. CASE UNCHANGED vars
  BY <1>6, MutexStutter DEF vars, sessVars, locals
<1> QED BY <1>1, <1>2, <1>3, <1>4, <1>5, <1>6 DEF Next, Finished

\* With the idle reset and auto-compress off, a Session's busy flag is the lock
\* of its turns in every execution, whatever commands, failures, timeouts and
\* /compress operations occur: Session.TryLock is the only way in, and
\* every early return of the turn gives the flag back exactly once.
THEOREM MutexCorrect ==
  ASSUME PlainTurns
  PROVE  Spec => []TurnMutex
<1>1. TypeInv /\ MutexInv => TurnMutex
  BY DEF TypeInv, TypeOK, SharedTypes, LocalTypes, MutexInv, TurnMutex, Holds
<1> QED BY <1>1, TypeInit, TypeNext, MutexInit, MutexNext, PTL DEF Spec

-----------------------------------------------------------------------------
(* Every message is in one place *)

\* Goroutine g has message m in hand: InHandOf as a relation.
Arriving == {"picked", "lookup", "append", "locked", "reset", "newsession",
             "relock", "ensure", "start", "check"}
Answering == {"popped", "send", "loop"}
InHand(g, m) ==
  \/ pc[g] \in Answering /\ cur[g] = m
  \/ pc[g] \in Arriving /\ g = m
  \/ pc[g] \in Cleaning /\ clean[g].back = "reset" /\ g = m

Once(q, m) == \A i, j \in DOMAIN q : q[i] = m /\ q[j] = m => i = j

\* The places a message can be in.
Nowhere(m) ==
  /\ \A g \in Msgs : ~InHand(g, m)
  /\ \A s \in States : m \notin Waiting(s)
OnlyHand(m, g) ==
  /\ \A h \in Msgs : InHand(h, m) <=> h = g
  /\ \A s \in States : m \notin Waiting(s)
OnlyQueue(m, s) ==
  /\ \A g \in Msgs : ~InHand(g, m)
  /\ \A t \in States : m \in Waiting(t) <=> t = s
  /\ Once(queue[s], m)

Placed(m) ==
  /\ pc[m] = "idle" => told[m] = "none"
  /\ \/ (pc[m] = "idle" \/ told[m] # "none") /\ Nowhere(m)
     \/ /\ pc[m] # "idle" /\ told[m] = "none"
        /\ \/ \E g \in Msgs : OnlyHand(m, g)
           \/ \E s \in States : OnlyQueue(m, s)

\* Before its turn creates the state named after it, the state is not in use.
Unborn(m) ==
  \/ pc[m] \in Arriving \ {"lookup", "append", "check"}
  \/ pc[m] = "idle"
  \/ pc[m] \in Cleaning /\ clean[m].back = "reset"
Unused ==
  \A m \in Msgs : Unborn(m) =>
    /\ entry # <<m, "full">> /\ queue[<<m, "full">>] = <<>>
    /\ \A p \in Procs : ptr[p] # <<m, "full">>

\* A queue is dropped by its state.
Targeted ==
  \A p \in Procs : pc[p] \in {"quiet", "stopnotify"} => clean[p].target \in States

\* Only /compress commands look for their Session after the agent.
Compressing == \A m \in Users : pc[m] \notin {"cpick", "clock"}

PlaceInv == Unused /\ Targeted /\ Compressing /\ \A m \in Users : Placed(m)

-----------------------------------------------------------------------------
(* What a step can do to the places *)

\* Goroutine g moves; the locals of the others stay.
Acts(g) ==
  /\ \A h \in Msgs \ {g} : pc'[h] = pc[h] /\ cur'[h] = cur[h] /\ clean'[h] = clean[h]
  /\ g \in Msgs => pc[g] # "idle" /\ pc'[g] # "idle"

SameHand(g) == g \in Msgs => \A x \in Users : InHand(g, x)' <=> InHand(g, x)

\* The senders that wait in d, and the one of c, in the hand of g, are told ...
Reports(g, d, c) ==
  /\ Acts(g)
  /\ g \in Msgs => \A x \in Users : InHand(g, x)' <=> InHand(g, x) /\ x # c
  /\ c \in Users => g \in Msgs /\ InHand(g, c)
  /\ \A s \in States : queue'[s] = IF s = d THEN <<>> ELSE queue[s]
  /\ \A x \in Users : IF x = c \/ (d \in States /\ x \in Waiting(d))
                        THEN told'[x] # "none" ELSE told'[x] = told[x]

\* ... or a message goes from the hand of its goroutine to the end of a queue ...
Appends(g, s) ==
  /\ Acts(g)
  /\ InHand(g, g) /\ \A x \in Users : InHand(g, x) => x = g
  /\ \A x \in Users : ~InHand(g, x)'
  /\ queue' = [queue EXCEPT ![s] = Append(@, g)]
  /\ UNCHANGED told

\* ... or from the head of a queue to the hand of g ...
Pops(g, s) ==
  /\ Acts(g)
  /\ \A x \in Users : ~InHand(g, x)
  /\ \A x \in Users : InHand(g, x)' <=> x = Head(queue[s])
  /\ queue[s] # <<>>
  /\ queue' = [queue EXCEPT ![s] = Tail(@)]
  /\ UNCHANGED told

\* ... or all of a queue to an empty one ...
Adopts(g, s, t) ==
  /\ Acts(g) /\ SameHand(g)
  /\ queue[t] = <<>> /\ s # t
  /\ queue' = [queue EXCEPT ![t] = queue[s], ![s] = <<>>]
  /\ UNCHANGED told

\* ... or is taken out of a queue and its sender told ...
Recalls(g, s, i) ==
  /\ Acts(g) /\ SameHand(g)
  /\ i \in DOMAIN queue[s]
  /\ queue' = [queue EXCEPT ![s] = Without(@, i)]
  /\ \A x \in Users : IF x = queue[s][i] THEN told'[x] # "none" ELSE told'[x] = told[x]

\* ... or arrives.
Arrives(g) ==
  /\ \A h \in Msgs \ {g} : pc'[h] = pc[h] /\ cur'[h] = cur[h] /\ clean'[h] = clean[h]
  /\ pc[g] = "idle" /\ pc'[g] # "idle"
  /\ \A x \in Users : ~InHand(g, x)
  /\ \A x \in Users : InHand(g, x)' <=> x = g
  /\ UNCHANGED <<queue, told>>

\* Message m stays where it is, or its sender has been told.
Stays(m) ==
  /\ told'[m] = told[m]
  /\ pc'[m] = "idle" <=> pc[m] = "idle"
  /\ \A g \in Msgs : InHand(g, m)' <=> InHand(g, m)
  /\ \A s \in States : Waiting(s)' \cap {m} = Waiting(s) \cap {m}
  /\ \A s \in States : Once(queue[s], m) => Once(queue'[s], m)
Leaves(m) ==
  /\ told'[m] # "none" /\ pc'[m] # "idle"
  /\ Nowhere(m)'

LEMMA StaysPlaced ==
  ASSUME NEW m \in Users, Placed(m), Stays(m)
  PROVE  Placed(m)'
<1>1. \A s \in States : m \in Waiting(s)' <=> m \in Waiting(s)
  BY DEF Stays
<1>2. Nowhere(m) => Nowhere(m)'
  BY <1>1 DEF Stays, Nowhere
<1>3. \A g \in Msgs : OnlyHand(m, g) => OnlyHand(m, g)'
  BY <1>1 DEF Stays, OnlyHand
<1>4. \A s \in States : OnlyQueue(m, s) => OnlyQueue(m, s)'
  BY <1>1 DEF Stays, OnlyQueue
<1>5. told'[m] = told[m] /\ (pc'[m] = "idle" <=> pc[m] = "idle")
  BY DEF Stays
<1> QED BY <1>2, <1>3, <1>4, <1>5 DEF Placed

LEMMA LeavesPlaced ==
  ASSUME NEW m \in Users, Leaves(m)
  PROVE  Placed(m)'
BY DEF Leaves, Placed

\* A message that is somewhere has arrived, and its sender has not been told.
LEMMA SomewhereLive ==
  ASSUME NEW m \in Users, Placed(m),
         (\E g \in Msgs : InHand(g, m)) \/ (\E s \in States : m \in Waiting(s))
  PROVE  pc[m] # "idle" /\ told[m] = "none"
BY DEF Placed, Nowhere

LEMMA InHandOnly ==
  ASSUME NEW m \in Users, Placed(m), NEW g \in Msgs, InHand(g, m)
  PROVE  OnlyHand(m, g)
BY DEF Placed, Nowhere, OnlyHand, OnlyQueue

LEMMA InQueueOnly ==
  ASSUME NEW m \in Users, Placed(m), NEW s \in States, m \in Waiting(s)
  PROVE  OnlyQueue(m, s)
BY DEF Placed, Nowhere, OnlyHand, OnlyQueue

\* The hands of the others are untouched.
LEMMA OtherHands ==
  ASSUME NEW g, NEW h \in Msgs \ {g}, NEW m,
         pc'[h] = pc[h] /\ cur'[h] = cur[h] /\ clean'[h] = clean[h]
  PROVE  InHand(h, m)' <=> InHand(h, m)
BY DEF InHand

LEMMA ActsHands ==
  ASSUME NEW g, Acts(g), NEW m
  PROVE  \A h \in Msgs \ {g} : InHand(h, m)' <=> InHand(h, m)
BY OtherHands DEF Acts

LEMMA ActsIdle ==
  ASSUME NEW g, Acts(g), NEW m \in Msgs
  PROVE  pc'[m] = "idle" <=> pc[m] = "idle"
BY DEF Acts

\* An unchanged queue keeps who waits in it.
LEMMA SameQueue ==
  ASSUME NEW s, queue'[s] = queue[s]
  PROVE  Waiting(s)' = Waiting(s)
BY DEF Waiting

LEMMA EmptyQueue ==
  ASSUME NEW s, queue'[s] = <<>>
  PROVE  Waiting(s)' = {}
BY DEF Waiting

LEMMA ReportsPlaced ==
  ASSUME NEW g, NEW d, NEW c, Reports(g, d, c), NEW m \in Users, Placed(m)
  PROVE  Placed(m)'
<1>u. m \in Msgs
  BY DEF Users
<1>1. Acts(g)
  BY DEF Reports
<1>2. \A h \in Msgs \ {g} : InHand(h, m)' <=> InHand(h, m)
  BY <1>1, ActsHands
<1>3. pc'[m] = "idle" <=> pc[m] = "idle"
  BY <1>1, <1>u, ActsIdle
<1>4. g \in Msgs => (InHand(g, m)' <=> InHand(g, m) /\ m # c)
  BY DEF Reports
<1>5. \A s \in States : Waiting(s)' = IF s = d THEN {} ELSE Waiting(s)
  BY SameQueue, EmptyQueue DEF Reports
<1>6. CASE m = c
  <2>1. g \in Msgs /\ InHand(g, m)
    BY <1>6 DEF Reports
  <2>2. OnlyHand(m, g) /\ pc[m] # "idle"
    BY <2>1, InHandOnly, SomewhereLive
  <2>3. Nowhere(m)'
    BY <1>2, <1>4, <1>5, <1>6, <2>2 DEF OnlyHand, Nowhere
  <2>4. told'[m] # "none"
    BY <1>6 DEF Reports
  <2> QED BY <1>3, <2>2, <2>3, <2>4, LeavesPlaced DEF Leaves
<1>7. CASE m # c /\ d \in States /\ m \in Waiting(d)
  <2>1. OnlyQueue(m, d) /\ pc[m] # "idle"
    BY <1>7, InQueueOnly, SomewhereLive
  <2>2. Nowhere(m)'
    BY <1>2, <1>4, <1>5, <2>1 DEF OnlyQueue, Nowhere
  <2>3. told'[m] # "none"
    BY <1>7 DEF Reports
  <2> QED BY <1>3, <2>1, <2>2, <2>3, LeavesPlaced DEF Leaves
<1>8. CASE m # c /\ ~(d \in States /\ m \in Waiting(d))
  <2>1. told'[m] = told[m]
    BY <1>8 DEF Reports
  <2>2. \A h \in Msgs : InHand(h, m)' <=> InHand(h, m)
    BY <1>2, <1>4, <1>8
  <2>3. \A s \in States : Waiting(s)' \cap {m} = Waiting(s) \cap {m}
    BY <1>5, <1>8
  <2>4. \A s \in States : Once(queue[s], m) => Once(queue'[s], m)
    BY DEF Reports, Once
  <2> QED BY <1>3, <2>1, <2>2, <2>3, <2>4, StaysPlaced DEF Stays
<1> QED BY <1>6, <1>7, <1>8

LEMMA AppendPlaces ==
  ASSUME NEW q \in Seq(Msgs), NEW m \in Msgs
  PROVE  LET r == Append(q, m)
             In(t) == {t[i] : i \in DOMAIN t}
         IN  /\ In(r) = In(q) \cup {m}
             /\ \A x : x # m /\ Once(q, x) => Once(r, x)
             /\ m \notin In(q) => Once(r, m)
<1> DEFINE r == Append(q, m)
<1>1. /\ Len(q) \in Nat /\ DOMAIN q = 1 .. Len(q)
      /\ DOMAIN r = 1 .. (Len(q) + 1)
      /\ r[Len(q) + 1] = m
      /\ \A i \in 1 .. Len(q) : r[i] = q[i]
  OBVIOUS
<1>2. \A i \in DOMAIN r : i \in DOMAIN q \/ i = Len(q) + 1
  BY <1>1
<1>3. {r[i] : i \in DOMAIN r} = {q[i] : i \in DOMAIN q} \cup {m}
  <2>1. \A i \in DOMAIN r : r[i] \in {q[j] : j \in DOMAIN q} \cup {m}
    BY <1>1, <1>2
  <2>2. \A i \in DOMAIN q : i \in DOMAIN r /\ r[i] = q[i]
    BY <1>1
  <2>3. m \in {r[i] : i \in DOMAIN r}
    <3>1. Len(q) + 1 \in DOMAIN r
      BY <1>1
    <3> QED BY <1>1, <3>1
  <2> QED BY <2>1, <2>2, <2>3
<1>4. ASSUME NEW x, x # m, Once(q, x) PROVE Once(r, x)
  BY <1>1, <1>2, <1>4 DEF Once
<1>5. ASSUME m \notin {q[i] : i \in DOMAIN q} PROVE Once(r, m)
  BY <1>1, <1>2, <1>5 DEF Once
<1> QED BY <1>3, <1>4, <1>5

LEMMA TailPlaces ==
  ASSUME NEW q \in Seq(Msgs), q # <<>>
  PROVE  LET r == Tail(q)
             In(t) == {t[i] : i \in DOMAIN t}
         IN  /\ Head(q) \in In(q)
             /\ In(q) = In(r) \cup {Head(q)}
             /\ Once(q, Head(q)) => Head(q) \notin In(r)
             /\ \A x : Once(q, x) => Once(r, x)
<1> DEFINE r == Tail(q)
           n == Len(q)
<1>1. /\ n \in Nat \ {0} /\ DOMAIN q = 1 .. n /\ Head(q) = q[1]
      /\ DOMAIN r = 1 .. (n - 1)
      /\ \A i \in 1 .. (n - 1) : r[i] = q[i + 1]
  OBVIOUS
<1>2. \A i \in DOMAIN r : i + 1 \in DOMAIN q /\ r[i] = q[i + 1]
  BY <1>1
<1>3. \A i \in DOMAIN q : i = 1 \/ (i - 1 \in DOMAIN r /\ r[i - 1] = q[i])
  BY <1>1
<1>4. 1 \in DOMAIN q
  BY <1>1
<1>5. {q[i] : i \in DOMAIN q} = {r[i] : i \in DOMAIN r} \cup {Head(q)}
  <2>1. \A i \in DOMAIN q : q[i] \in {r[j] : j \in DOMAIN r} \cup {q[1]}
    BY <1>3
  <2>2. \A i \in DOMAIN r : r[i] \in {q[j] : j \in DOMAIN q}
    BY <1>2
  <2>3. q[1] \in {q[j] : j \in DOMAIN q}
    BY <1>4
  <2> QED BY <1>1, <2>1, <2>2, <2>3
<1>6. Once(q, q[1]) => q[1] \notin {r[i] : i \in DOMAIN r}
  <2> SUFFICES ASSUME Once(q, q[1]), NEW i \in DOMAIN r, r[i] = q[1] PROVE FALSE
    OBVIOUS
  <2>1. i + 1 \in DOMAIN q /\ q[i + 1] = q[1] /\ i + 1 # 1
    BY <1>1, <1>2
  <2> QED BY <1>4, <2>1 DEF Once
<1>7. ASSUME NEW x, Once(q, x) PROVE Once(r, x)
  <2> SUFFICES ASSUME NEW i \in DOMAIN r, NEW j \in DOMAIN r, r[i] = x, r[j] = x
               PROVE  i = j
    BY DEF Once
  <2>1. i + 1 = j + 1
    BY <1>2, <1>7 DEF Once
  <2> QED BY <1>1, <2>1
<1> QED BY <1>1, <1>4, <1>5, <1>6, <1>7

LEMMA WithoutPlaces ==
  ASSUME NEW q \in Seq(Msgs), NEW i \in DOMAIN q
  PROVE  LET r == Without(q, i)
             In(t) == {t[j] : j \in DOMAIN t}
         IN  /\ \A x : x # q[i] => (x \in In(r) <=> x \in In(q))
             /\ Once(q, q[i]) => q[i] \notin In(r)
             /\ \A x : Once(q, x) => Once(r, x)
<1> DEFINE r == Without(q, i)
           n == Len(q)
           up(j) == IF j < i THEN j ELSE j + 1
<1>1. n \in Nat /\ DOMAIN q = 1 .. n /\ i \in 1 .. n
  OBVIOUS
<1> DEFINE a == SubSeq(q, 1, i - 1)
           b == SubSeq(q, i + 1, n)
<1>2. /\ a \in Seq(Msgs) /\ Len(a) = i - 1
      /\ \A j \in 1 .. (i - 1) : a[j] = q[j]
  BY <1>1
<1>3. /\ b \in Seq(Msgs) /\ Len(b) = n - i
      /\ \A j \in 1 .. (n - i) : b[j] = q[i + j]
  BY <1>1
<1>4. /\ r = a \o b /\ Len(r) = n - 1 /\ r \in Seq(Msgs)
      /\ \A j \in 1 .. (n - 1) : r[j] = IF j <= i - 1 THEN a[j] ELSE b[j - (i - 1)]
  <2>1. r = a \o b
    BY DEF Without
  <2>2. /\ a \o b \in Seq(Msgs) /\ Len(a \o b) = (i - 1) + (n - i)
        /\ \A j \in 1 .. ((i - 1) + (n - i)) :
             (a \o b)[j] = IF j <= i - 1 THEN a[j] ELSE b[j - (i - 1)]
    <3> HIDE DEF a, b
    <3>1. Len(a) = i - 1 /\ Len(b) = n - i
      BY <1>2, <1>3
    <3>2. /\ a \o b \in Seq(Msgs) /\ Len(a \o b) = Len(a) + Len(b)
          /\ \A j \in 1 .. (Len(a) + Len(b)) :
               (a \o b)[j] = IF j <= Len(a) THEN a[j] ELSE b[j - Len(a)]
      BY <1>2, <1>3, ConcatProperties
    <3> QED BY <3>1, <3>2
  <2>3. (i - 1) + (n - i) = n - 1
    BY <1>1
  <2> QED BY <2>1, <2>2, <2>3
<1>5. \A j \in DOMAIN r : up(j) \in DOMAIN q /\ up(j) # i /\ r[j] = q[up(j)]
  <2> SUFFICES ASSUME NEW j \in DOMAIN r
               PROVE  up(j) \in DOMAIN q /\ up(j) # i /\ r[j] = q[up(j)]
    OBVIOUS
  <2>1. j \in 1 .. (n - 1)
    BY <1>4
  <2>2. CASE j < i
    BY <1>1, <1>2, <1>4, <2>1, <2>2, SMTT(30)
  <2>3. CASE ~(j < i)
    <3> HIDE DEF a, b, r, n
    <3>0. i \in Int /\ n \in Int /\ j \in Int /\ i >= 1 /\ i <= n /\ j >= i /\ j <= n - 1
      BY <1>1, <2>1, <2>3
    <3>a. j - (i - 1) \in 1 .. (n - i) /\ ~(j <= i - 1)
      BY <3>0
    <3>b. r[j] = b[j - (i - 1)]
      BY <1>4, <2>1, <3>a
    <3>1. r[j] = b[j - (i - 1)] /\ j - (i - 1) \in 1 .. (n - i)
      BY <3>a, <3>b
    <3>2. r[j] = q[i + (j - (i - 1))] /\ i + (j - (i - 1)) = j + 1
      BY <1>1, <1>3, <2>1, <3>1
    <3> QED BY <1>1, <2>1, <2>3, <3>2
  <2> QED BY <2>2, <2>3
<1>6. \A k \in DOMAIN q : k = i \/ \E j \in DOMAIN r : up(j) = k
  <2> SUFFICES ASSUME NEW k \in DOMAIN q, k # i
               PROVE  \E j \in DOMAIN r : up(j) = k
    OBVIOUS
  <2>1. DOMAIN r = 1 .. (n - 1)
    BY <1>4, SMTT(30)
  <2>2. CASE k < i
    BY <1>1, <2>1, <2>2
  <2>3. CASE k > i
    <3>1. k - 1 \in DOMAIN r /\ up(k - 1) = k
      BY <1>1, <2>1, <2>3
    <3> QED BY <3>1
  <2> QED BY <1>1, <2>2, <2>3
<1>7. \A j, k \in DOMAIN r : up(j) = up(k) => j = k
  <2>1. DOMAIN r \subseteq Int /\ i \in Int
    BY <1>1, <1>4
  <2> HIDE DEF r
  <2> QED BY <2>1
<1> HIDE DEF r, up, n
<1>8. ASSUME NEW x, x # q[i]
      PROVE  x \in {r[j] : j \in DOMAIN r} <=> x \in {q[j] : j \in DOMAIN q}
  BY <1>5, <1>6, <1>8
<1>9. Once(q, q[i]) => q[i] \notin {r[j] : j \in DOMAIN r}
  <2> SUFFICES ASSUME Once(q, q[i]), NEW j \in DOMAIN r, r[j] = q[i] PROVE FALSE
    OBVIOUS
  <2> QED BY <1>5 DEF Once
<1>10. ASSUME NEW x, Once(q, x) PROVE Once(r, x)
  BY <1>5, <1>7, <1>10 DEF Once
<1> QED BY <1>8, <1>9, <1>10 DEF r

LEMMA AppendsPlaced ==
  ASSUME TypeOK, NEW g \in Msgs, NEW s \in States, Appends(g, s),
         NEW m \in Users, Placed(m), g \in Users => Placed(g)
  PROVE  Placed(m)'
<1>u. m \in Msgs
  BY DEF Users
<1>1. Acts(g) /\ UNCHANGED told
  BY DEF Appends
<1>2. \A h \in Msgs \ {g} : InHand(h, m)' <=> InHand(h, m)
  BY <1>1, ActsHands
<1>3. pc'[m] = "idle" <=> pc[m] = "idle"
  BY <1>1, <1>u, ActsIdle
<1>4. queue[s] \in Seq(Msgs) /\ queue'[s] = Append(queue[s], g)
  BY DEF Appends, TypeOK, QueueTypes
<1>5. /\ Waiting(s)' = Waiting(s) \cup {g}
      /\ m # g /\ Once(queue[s], m) => Once(queue'[s], m)
      /\ g \notin Waiting(s) => Once(queue'[s], g)
  BY <1>4, AppendPlaces, SMTT(30) DEF Waiting
<1>6. \A t \in States \ {s} : queue'[t] = queue[t] /\ Waiting(t)' = Waiting(t)
  <2>1. \A t \in States \ {s} : queue'[t] = queue[t]
    BY DEF Appends, TypeOK, QueueTypes
  <2> QED BY <2>1, SameQueue
<1>7. CASE m = g
  <2>1. OnlyHand(m, g) /\ pc[m] # "idle" /\ told[m] = "none"
    BY <1>7, InHandOnly, SomewhereLive DEF Appends
  <2>2. \A h \in Msgs : ~InHand(h, m)'
    BY <1>2, <1>7, <2>1 DEF OnlyHand, Appends
  <2>3. \A t \in States : m \in Waiting(t)' <=> t = s
    BY <1>5, <1>6, <1>7, <2>1 DEF OnlyHand
  <2>4. Once(queue'[s], m)
    BY <1>5, <1>7, <2>1 DEF OnlyHand
  <2>5. OnlyQueue(m, s)'
    BY <2>2, <2>3, <2>4 DEF OnlyQueue
  <2> QED BY <1>1, <1>3, <2>1, <2>5 DEF Placed
<1>8. CASE m # g
  <2>1. \A h \in Msgs : InHand(h, m)' <=> InHand(h, m)
    BY <1>2, <1>8 DEF Appends
  <2>2. \A t \in States : Waiting(t)' \cap {m} = Waiting(t) \cap {m}
    BY <1>5, <1>6, <1>8
  <2>3. \A t \in States : Once(queue[t], m) => Once(queue'[t], m)
    BY <1>5, <1>6, <1>8
  <2> QED BY <1>1, <1>3, <2>1, <2>2, <2>3, StaysPlaced DEF Stays
<1> QED BY <1>7, <1>8

LEMMA PopsPlaced ==
  ASSUME TypeOK, NEW g \in Msgs, NEW s \in States, Pops(g, s),
         NEW m \in Users, Placed(m)
  PROVE  Placed(m)'
<1>u. m \in Msgs
  BY DEF Users
<1>1. Acts(g) /\ UNCHANGED told
  BY DEF Pops
<1>2. \A h \in Msgs \ {g} : InHand(h, m)' <=> InHand(h, m)
  BY <1>1, ActsHands
<1>3. pc'[m] = "idle" <=> pc[m] = "idle"
  BY <1>1, <1>u, ActsIdle
<1>4. queue[s] \in Seq(Msgs) /\ queue[s] # <<>> /\ queue'[s] = Tail(queue[s])
  BY DEF Pops, TypeOK, QueueTypes
<1> DEFINE x == Head(queue[s])
<1>5. /\ Waiting(s) = Waiting(s)' \cup {x}
      /\ Once(queue[s], x) => x \notin Waiting(s)'
      /\ Once(queue[s], m) => Once(queue'[s], m)
  BY <1>4, TailPlaces DEF Waiting
<1>6. \A t \in States \ {s} : queue'[t] = queue[t] /\ Waiting(t)' = Waiting(t)
  <2>1. \A t \in States \ {s} : queue'[t] = queue[t]
    BY DEF Pops, TypeOK, QueueTypes
  <2> QED BY <2>1, SameQueue
<1> HIDE DEF x
<1>7. CASE m = x
  <2>1. OnlyQueue(m, s) /\ pc[m] # "idle" /\ told[m] = "none"
    BY <1>5, <1>7, InQueueOnly, SomewhereLive
  <2>2. \A h \in Msgs : InHand(h, m)' <=> h = g
    BY <1>2, <1>7, <2>1 DEF OnlyQueue, Pops, x
  <2>3. \A t \in States : m \notin Waiting(t)'
    BY <1>5, <1>6, <1>7, <2>1 DEF OnlyQueue
  <2>4. OnlyHand(m, g)'
    BY <2>2, <2>3 DEF OnlyHand
  <2> QED BY <1>1, <1>3, <2>1, <2>4 DEF Placed
<1>8. CASE m # x
  <2>1. \A h \in Msgs : InHand(h, m)' <=> InHand(h, m)
    BY <1>2, <1>8 DEF Pops, x
  <2>2. \A t \in States : Waiting(t)' \cap {m} = Waiting(t) \cap {m}
    BY <1>5, <1>6, <1>8
  <2>3. \A t \in States : Once(queue[t], m) => Once(queue'[t], m)
    BY <1>5, <1>6
  <2> QED BY <1>1, <1>3, <2>1, <2>2, <2>3, StaysPlaced DEF Stays
<1> QED BY <1>7, <1>8

LEMMA AdoptsPlaced ==
  ASSUME TypeOK, NEW g \in Msgs, NEW s \in States, NEW t \in States,
         Adopts(g, s, t), NEW m \in Users, Placed(m)
  PROVE  Placed(m)'
<1>u. m \in Msgs
  BY DEF Users
<1>1. Acts(g) /\ UNCHANGED told
  BY DEF Adopts
<1>2. \A h \in Msgs : InHand(h, m)' <=> InHand(h, m)
  BY <1>1, ActsHands DEF Adopts, SameHand
<1>3. pc'[m] = "idle" <=> pc[m] = "idle"
  BY <1>1, <1>u, ActsIdle
<1>4. /\ s # t /\ queue'[t] = queue[s] /\ queue'[s] = <<>> /\ queue[t] = <<>>
      /\ \A z \in States \ {s, t} : queue'[z] = queue[z]
  BY DEF Adopts, TypeOK, QueueTypes
<1>5. /\ Waiting(t)' = Waiting(s) /\ Waiting(s)' = {} /\ Waiting(t) = {}
      /\ \A z \in States \ {s, t} : Waiting(z)' = Waiting(z)
  BY <1>4 DEF Waiting
<1>6. CASE m \in Waiting(s)
  <2>1. OnlyQueue(m, s) /\ pc[m] # "idle" /\ told[m] = "none"
    BY <1>6, InQueueOnly, SomewhereLive
  <2>2. \A z \in States : m \in Waiting(z)' <=> z = t
    BY <1>4, <1>5, <2>1 DEF OnlyQueue
  <2>3. OnlyQueue(m, t)'
    BY <1>2, <1>4, <2>1, <2>2 DEF OnlyQueue
  <2> QED BY <1>1, <1>3, <2>1, <2>3 DEF Placed
<1>7. CASE m \notin Waiting(s)
  <2>1. \A z \in States : Waiting(z)' \cap {m} = Waiting(z) \cap {m}
    BY <1>5, <1>7
  <2>2. \A z \in States : Once(queue[z], m) => Once(queue'[z], m)
    <3>1. Once(queue'[t], m) /\ Once(queue'[s], m)
      BY <1>4, <1>7 DEF Once, Waiting
    <3> QED BY <1>4, <3>1
  <2> QED BY <1>1, <1>2, <1>3, <2>1, <2>2, StaysPlaced DEF Stays
<1> QED BY <1>6, <1>7

LEMMA RecallsPlaced ==
  ASSUME TypeOK, NEW g, NEW s \in States, NEW i, Recalls(g, s, i),
         NEW m \in Users, Placed(m)
  PROVE  Placed(m)'
<1>u. m \in Msgs
  BY DEF Users
<1>1. Acts(g)
  BY DEF Recalls
<1>2. \A h \in Msgs : InHand(h, m)' <=> InHand(h, m)
  BY <1>1, ActsHands DEF Recalls, SameHand
<1>3. pc'[m] = "idle" <=> pc[m] = "idle"
  BY <1>1, <1>u, ActsIdle
<1> DEFINE x == queue[s][i]
<1>4. /\ queue[s] \in Seq(Msgs) /\ i \in DOMAIN queue[s]
      /\ queue'[s] = Without(queue[s], i)
      /\ \A t \in States \ {s} : queue'[t] = queue[t]
  BY DEF Recalls, TypeOK, QueueTypes
<1>5. /\ x \in Waiting(s)
      /\ m # x => (m \in Waiting(s)' <=> m \in Waiting(s))
      /\ Once(queue[s], x) => x \notin Waiting(s)'
      /\ Once(queue[s], m) => Once(queue'[s], m)
  <2> DEFINE q == queue[s]
             r == Without(q, i)
             In(t) == {t[j] : j \in DOMAIN t}
  <2>1. /\ \A y : y # q[i] => (y \in In(r) <=> y \in In(q))
        /\ Once(q, q[i]) => q[i] \notin In(r)
        /\ \A y : Once(q, y) => Once(r, y)
    BY <1>4, WithoutPlaces
  <2>2. Waiting(s) = In(q) /\ Waiting(s)' = In(r) /\ q[i] \in In(q)
    BY <1>4 DEF Waiting
  <2> HIDE DEF In, r
  <2> QED BY <1>4, <2>1, <2>2 DEF r
<1>6. \A t \in States \ {s} : Waiting(t)' = Waiting(t)
  BY <1>4, SameQueue
<1> HIDE DEF x
<1>7. CASE m = x
  <2>1. OnlyQueue(m, s) /\ pc[m] # "idle"
    BY <1>5, <1>7, InQueueOnly, SomewhereLive
  <2>2. Nowhere(m)'
    BY <1>2, <1>5, <1>6, <1>7, <2>1 DEF OnlyQueue, Nowhere
  <2>3. told'[m] # "none"
    BY <1>7 DEF Recalls, x
  <2> QED BY <1>3, <2>1, <2>2, <2>3, LeavesPlaced DEF Leaves
<1>8. CASE m # x
  <2>1. told'[m] = told[m]
    BY <1>8 DEF Recalls, x
  <2>2. \A t \in States : Waiting(t)' \cap {m} = Waiting(t) \cap {m}
    BY <1>5, <1>6, <1>8
  <2>3. \A t \in States : Once(queue[t], m) => Once(queue'[t], m)
    BY <1>4, <1>5
  <2> QED BY <1>2, <1>3, <2>1, <2>2, <2>3, StaysPlaced DEF Stays
<1> QED BY <1>7, <1>8

LEMMA ArrivesPlaced ==
  ASSUME NEW g \in Msgs, Arrives(g), NEW m \in Users, Placed(m)
  PROVE  Placed(m)'
<1>u. m \in Msgs
  BY DEF Users
<1>1. \A h \in Msgs \ {g} : InHand(h, m)' <=> InHand(h, m)
  BY OtherHands DEF Arrives
<1>2. \A s \in States : queue'[s] = queue[s] /\ Waiting(s)' = Waiting(s)
  BY DEF Arrives, Waiting
<1>3. UNCHANGED told
  BY DEF Arrives
<1>4. CASE m = g
  <2>1. Nowhere(m) /\ told[m] = "none" /\ pc'[m] # "idle"
    BY <1>4 DEF Placed, Arrives
  <2>2. OnlyHand(m, g)'
    BY <1>1, <1>2, <1>4, <2>1 DEF Arrives, Nowhere, OnlyHand
  <2> QED BY <1>3, <2>1, <2>2 DEF Placed
<1>5. CASE m # g
  <2>1. \A h \in Msgs : InHand(h, m)' <=> InHand(h, m)
    BY <1>1, <1>5 DEF Arrives
  <2>2. pc'[m] = pc[m]
    BY <1>u, <1>5 DEF Arrives
  <2> QED BY <1>2, <1>3, <2>1, <2>2, StaysPlaced DEF Stays
<1> QED BY <1>4, <1>5

\* Nobody is told, and nothing moves from one place to another.
Neutral(g) == Reports(g, NoState, NoMsg)

\* Dropping a queue tells those who wait in it, and possibly one more.
LEMMA DropTells ==
  ASSUME TypeOK, NEW s \in States, NEW what, NEW c, NEW mine,
         DropQueue(s, what, c, mine), what # "none", c \in Users => mine # "none"
  PROVE  /\ \A t \in States : queue'[t] = IF t = s THEN <<>> ELSE queue[t]
         /\ \A x \in Users : IF x = c \/ (s \in States /\ x \in Waiting(s))
                               THEN told'[x] # "none" ELSE told'[x] = told[x]
BY DEF DropQueue, TypeOK, QueueTypes, Users

LEMMA HandlerPlaces ==
  ASSUME TypeInv, Targeted, NEW m \in Msgs
  PROVE  /\ TryLock(m) => Neutral(m)
         /\ Retry(m) => Neutral(m)
         /\ KeepSession(m) => Neutral(m)
         /\ StartIdleReset(m) => Neutral(m)
         /\ UnlockOldSession(m) => Neutral(m)
         /\ NewSession(m) => Neutral(m)
         /\ LockNewSession(m) => Neutral(m)
         /\ EnsureState(m) => Neutral(m)
         /\ Lookup(m) => Neutral(m) \/ Reports(m, NoState, m)
         /\ DrainOrphaned(m) => Neutral(m) \/ Reports(m, entry, NoMsg)
<1> USE BootIsState, TurnEngineAssumption DEF TypeInv, TypeOK, SharedTypes,
      StateTypes, QueueTypes, LocalTypes, PcTypes, ReportTypes, PointerOK,
      NoPointer, Cleaning, Goto, Tell, Cleanup, Release, CompressTell, StopTake,
      DropQueue, registry, sessVars, stateVars, locals, StateOrNone, Users,
      Neutral, Reports, Acts, InHand, Arriving, Answering
<1>1. TryLock(m) => Neutral(m)
  BY DEF TryLock
<1>2. Retry(m) => Neutral(m)
  BY DEF Retry
<1>3. KeepSession(m) => Neutral(m)
  BY DEF KeepSession
<1>4. StartIdleReset(m) => Neutral(m)
  BY DEF StartIdleReset
<1>5. UnlockOldSession(m) => Neutral(m)
  BY DEF UnlockOldSession
<1>6. NewSession(m) => Neutral(m)
  BY DEF NewSession
<1>7. LockNewSession(m) => Neutral(m)
  BY DEF LockNewSession
<1>8. EnsureState(m) => Neutral(m)
  BY DEF EnsureState
<1>9. Lookup(m) => Neutral(m) \/ Reports(m, NoState, m)
  BY DEF Lookup
<1>10. DrainOrphaned(m) => Neutral(m) \/ Reports(m, entry, NoMsg)
  BY DEF DrainOrphaned
<1> QED BY <1>1, <1>2, <1>3, <1>4, <1>5, <1>6, <1>7, <1>8, <1>9, <1>10

LEMMA TurnPlaces ==
  ASSUME TypeInv, Targeted, NEW m \in Msgs
  PROVE  /\ ReuseState(m) => Neutral(m)
         /\ Send(m) => Neutral(m)
         /\ LeaveLoop(m) => Neutral(m)
         /\ AutoCompress(m) => Neutral(m)
         /\ DrainEmpty(m) => Neutral(m)
         /\ Unlock(m) => Neutral(m)
         /\ CheckAgent(m) => Neutral(m) \/ Reports(m, NoState, m)
         /\ LoopStopped(m) => Reports(m, NoState, cur[m])
         /\ LoopResult(m) => Reports(m, NoState, cur[m])
         /\ LoopIdleTimeout(m) => Reports(m, NoState, cur[m])
         /\ LoopMaxTurnTime(m) => Reports(m, NoState, cur[m])
         /\ LoopError(m) => Reports(m, NoState, cur[m]) \/ Reports(m, ptr[m], cur[m])
         /\ LoopClosed(m) => Reports(m, ptr[m], cur[m])
         /\ LoopSendError(m) => Reports(m, ptr[m], cur[m])
         /\ DrainCheck(m) => Neutral(m) \/ Reports(m, ptr[m], cur[m])
         /\ TakeNext(m) => Pops(m, ptr[m])
         /\ DrainPop(m) => Pops(m, ptr[m])
<1> USE BootIsState, TurnEngineAssumption DEF TypeInv, TypeOK, SharedTypes,
      StateTypes, QueueTypes, LocalTypes, PcTypes, ReportTypes, PointerOK,
      NoPointer, Cleaning, Goto, Tell, Cleanup, Release, CompressTell, StopTake,
      DropQueue, registry, sessVars, stateVars, locals, StateOrNone, Users,
      Neutral, Reports, Acts, InHand, Arriving, Answering
<1>1. ReuseState(m) => Neutral(m)
  BY DEF ReuseState
<1>2. Send(m) => Neutral(m)
  BY DEF Send
<1>3. LeaveLoop(m) => Neutral(m)
  BY DEF LeaveLoop
<1>4. AutoCompress(m) => Neutral(m)
  BY DEF AutoCompress
<1>5. DrainEmpty(m) => Neutral(m)
  BY DEF DrainEmpty
<1>6. Unlock(m) => Neutral(m)
  BY DEF Unlock
<1>7. CheckAgent(m) => Neutral(m) \/ Reports(m, NoState, m)
  BY DEF CheckAgent
<1>8. LoopStopped(m) => Reports(m, NoState, cur[m])
  BY DEF LoopStopped
<1>9. LoopResult(m) => Reports(m, NoState, cur[m])
  BY DEF LoopResult
<1>10. LoopIdleTimeout(m) => Reports(m, NoState, cur[m])
  BY DEF LoopIdleTimeout
<1>11. LoopMaxTurnTime(m) => Reports(m, NoState, cur[m])
  BY DEF LoopMaxTurnTime
<1>12. LoopError(m) => Reports(m, NoState, cur[m]) \/ Reports(m, ptr[m], cur[m])
  <2> SUFFICES ASSUME LoopError(m)
               PROVE  Reports(m, NoState, cur[m]) \/ Reports(m, ptr[m], cur[m])
    OBVIOUS
  <2>1. CASE Alive(ptr[m])
    BY <2>1 DEF LoopError
  <2>2. CASE ~Alive(ptr[m])
    <3>1. ptr[m] \in States
      BY DEF LoopError
    <3>2. Acts(m)
      BY <2>2 DEF LoopError
    <3>3. \A x \in Users : InHand(m, x)' <=> InHand(m, x) /\ x # cur[m]
      BY <2>2 DEF LoopError
    <3>4. cur[m] \in Users => InHand(m, cur[m])
      BY DEF LoopError
    <3>5. DropQueue(ptr[m], "dropped", cur[m], "error")
      BY <2>2, Zenon DEF LoopError
    <3> HIDE DEF Acts, InHand, DropQueue, TypeOK, Users
    <3> QED BY <3>1, <3>2, <3>3, <3>4, <3>5, DropTells
  <2> QED BY <2>1, <2>2
<1>13. LoopClosed(m) => Reports(m, ptr[m], cur[m])
  <2> SUFFICES ASSUME LoopClosed(m) PROVE Reports(m, ptr[m], cur[m])
    OBVIOUS
  <2>1. ptr[m] \in States
    BY DEF LoopClosed
  <2>2. Acts(m)
    BY DEF LoopClosed
  <2>3. \A x \in Users : InHand(m, x)' <=> InHand(m, x) /\ x # cur[m]
    BY DEF LoopClosed
  <2>4. cur[m] \in Users => InHand(m, cur[m])
    BY DEF LoopClosed
  <2>5. \E mine \in {"error", "cut"} : DropQueue(ptr[m], "dropped", cur[m], mine)
    BY Zenon DEF LoopClosed
  <2> HIDE DEF Acts, InHand, DropQueue, TypeOK, Users
  <2> QED BY <2>1, <2>2, <2>3, <2>4, <2>5, DropTells
<1>14. LoopSendError(m) => Reports(m, ptr[m], cur[m])
  <2> SUFFICES ASSUME LoopSendError(m) PROVE Reports(m, ptr[m], cur[m])
    OBVIOUS
  <2>1. ptr[m] \in States
    BY DEF LoopSendError
  <2>2. Acts(m)
    BY DEF LoopSendError
  <2>3. \A x \in Users : InHand(m, x)' <=> InHand(m, x) /\ x # cur[m]
    BY DEF LoopSendError
  <2>4. cur[m] \in Users => InHand(m, cur[m])
    BY DEF LoopSendError
  <2>5. \E mine \in {"error", "cut"} : DropQueue(ptr[m], "dropped", cur[m], mine)
    BY Zenon DEF LoopSendError
  <2> HIDE DEF Acts, InHand, DropQueue, TypeOK, Users
  <2> QED BY <2>1, <2>2, <2>3, <2>4, <2>5, DropTells
<1>15. DrainCheck(m) => Neutral(m) \/ Reports(m, ptr[m], cur[m])
  <2> SUFFICES ASSUME DrainCheck(m)
               PROVE  Neutral(m) \/ Reports(m, ptr[m], cur[m])
    OBVIOUS
  <2>1. CASE Alive(ptr[m])
    BY <2>1 DEF DrainCheck
  <2>2. CASE ~Alive(ptr[m])
    <3>1. ptr[m] \in States
      BY DEF DrainCheck
    <3>2. Acts(m)
      BY <2>2 DEF DrainCheck
    <3>3. \A x \in Users : InHand(m, x)' <=> InHand(m, x) /\ x # cur[m]
      BY <2>2 DEF DrainCheck
    <3>4. cur[m] \in Users => InHand(m, cur[m])
      BY DEF DrainCheck
    <3>5. DropQueue(ptr[m], "dropped", cur[m], "error")
      BY <2>2, Zenon DEF DrainCheck
    <3> HIDE DEF Acts, InHand, DropQueue, TypeOK, Users
    <3> QED BY <3>1, <3>2, <3>3, <3>4, <3>5, DropTells
  <2> QED BY <2>1, <2>2
<1>16. TakeNext(m) => Pops(m, ptr[m])
  <2> SUFFICES ASSUME TakeNext(m) PROVE Pops(m, ptr[m])
    OBVIOUS
  <2>1. Acts(m)
    BY DEF TakeNext
  <2>2. \A x \in Users : ~InHand(m, x)
    BY DEF TakeNext
  <2>3. cur'[m] = Head(queue[ptr[m]])
    BY DEF TakeNext
  <2>4. \A x \in Users : InHand(m, x)' <=> x = Head(queue[ptr[m]])
    BY <2>3 DEF TakeNext
  <2>5. /\ queue[ptr[m]] # <<>> /\ UNCHANGED told
        /\ queue' = [queue EXCEPT ![ptr[m]] = Tail(@)]
    BY DEF TakeNext
  <2> QED BY <2>1, <2>2, <2>4, <2>5 DEF Pops
<1>17. DrainPop(m) => Pops(m, ptr[m])
  <2> SUFFICES ASSUME DrainPop(m) PROVE Pops(m, ptr[m])
    OBVIOUS
  <2>1. Acts(m)
    BY DEF DrainPop
  <2>2. \A x \in Users : ~InHand(m, x)
    BY DEF DrainPop
  <2>3. cur'[m] = Head(queue[ptr[m]])
    BY DEF DrainPop
  <2>4. \A x \in Users : InHand(m, x)' <=> x = Head(queue[ptr[m]])
    BY <2>3 DEF DrainPop
  <2>5. /\ queue[ptr[m]] # <<>> /\ UNCHANGED told
        /\ queue' = [queue EXCEPT ![ptr[m]] = Tail(@)]
    BY DEF DrainPop
  <2> QED BY <2>1, <2>2, <2>4, <2>5 DEF Pops
<1> QED BY <1>1, <1>2, <1>3, <1>4, <1>5, <1>6, <1>7, <1>8, <1>9, <1>10, <1>11, <1>12, <1>13, <1>14, <1>15, <1>16, <1>17

LEMMA CleanupPlaces ==
  ASSUME TypeInv, Targeted, NEW p \in Procs
  PROVE  /\ CleanTake(p) => Neutral(p)
         /\ CleanQuiet(p) => Reports(p, clean[p].target, NoMsg)
         /\ CleanClose(p) => Neutral(p)
         /\ CleanDelete(p) => Neutral(p)
<1> USE BootIsState, TurnEngineAssumption DEF TypeInv, TypeOK, SharedTypes,
      StateTypes, QueueTypes, LocalTypes, PcTypes, ReportTypes, PointerOK,
      NoPointer, Cleaning, Goto, Tell, Cleanup, Release, CompressTell, StopTake,
      DropQueue, registry, sessVars, stateVars, locals, StateOrNone, Users,
      Neutral, Reports, Acts, InHand, Arriving, Answering
<1>1. CleanTake(p) => Neutral(p)
  <2> SUFFICES ASSUME CleanTake(p) PROVE Neutral(p)
    OBVIOUS
  <2>1. UNCHANGED <<queue, told, cur>> /\ NoState \notin States /\ NoMsg \notin Users
    BY DEF CleanTake
  <2>2. /\ \A h \in Msgs \ {p} : pc'[h] = pc[h] /\ clean'[h] = clean[h]
        /\ p \in Msgs => pc'[p] \in {"delete", "quiet", clean[p].back}
                         /\ clean'[p].back = clean[p].back
    BY DEF CleanTake
  <2>3. p \in Msgs => clean[p].back \in {"reset", "drain", "unlock", "dropall"}
                     /\ pc[p] \in Cleaning
    BY DEF CleanTake
  <2>4. Acts(p)
    BY <2>1, <2>2, <2>3
  <2>5. p \in Msgs => \A x \in Users : InHand(p, x)' <=> InHand(p, x)
    BY <2>2, <2>3
  <2> HIDE DEF Acts, InHand, TypeOK, Users
  <2> QED BY <2>1, <2>4, <2>5
<1>2. CleanQuiet(p) => Reports(p, clean[p].target, NoMsg)
  <2> SUFFICES ASSUME CleanQuiet(p) PROVE Reports(p, clean[p].target, NoMsg)
    OBVIOUS
  <2>1. clean[p].target \in States /\ NoMsg \notin Users
    BY DEF CleanQuiet, Targeted
  <2>2. Acts(p)
    BY DEF CleanQuiet
  <2>3. p \in Msgs => \A x \in Users : InHand(p, x)' <=> InHand(p, x)
    BY DEF CleanQuiet
  <2>4. DropQueue(clean[p].target, "dropped", NoMsg, "none")
    BY Zenon DEF CleanQuiet
  <2> HIDE DEF Acts, InHand, DropQueue, TypeOK, Users
  <2> QED BY <2>1, <2>2, <2>3, <2>4, DropTells
<1>3. CleanClose(p) => Neutral(p)
  BY DEF CleanClose
<1>4. CleanDelete(p) => Neutral(p)
  <2> SUFFICES ASSUME CleanDelete(p) PROVE Neutral(p)
    OBVIOUS
  <2>1. UNCHANGED <<queue, told, cur>> /\ NoState \notin States /\ NoMsg \notin Users
    BY DEF CleanDelete
  <2>2. /\ \A h \in Msgs \ {p} : pc'[h] = pc[h] /\ clean'[h] = clean[h]
        /\ p \in Msgs => pc'[p] \in {"delete", "quiet", clean[p].back}
                         /\ clean'[p].back = clean[p].back
    BY DEF CleanDelete
  <2>3. p \in Msgs => clean[p].back \in {"reset", "drain", "unlock", "dropall"}
                     /\ pc[p] \in Cleaning
    BY DEF CleanDelete
  <2>4. Acts(p)
    BY <2>1, <2>2, <2>3
  <2>5. p \in Msgs => \A x \in Users : InHand(p, x)' <=> InHand(p, x)
    BY <2>2, <2>3
  <2> HIDE DEF Acts, InHand, TypeOK, Users
  <2> QED BY <2>1, <2>4, <2>5
<1> QED BY <1>1, <1>2, <1>3, <1>4

LEMMA CommandPlaces ==
  ASSUME TypeInv, Targeted, NEW c \in Commands
  PROVE  /\ CmdNew(c) => Neutral(c)
         /\ Rotate(c) => Neutral(c)
         /\ CmdStop(c) => Neutral(c)
         /\ StopClose(c) => Neutral(c)
         /\ Unbind(c) => Neutral(c)
         /\ RecallCurrent(c) => Neutral(c)
         /\ RecallStop(c) => Neutral(c)
         /\ RecallCollect(c) => Neutral(c)
         /\ StopNotify(c) => Reports(c, clean[c].target, NoMsg)
<1> USE BootIsState, TurnEngineAssumption DEF TypeInv, TypeOK, SharedTypes,
      StateTypes, QueueTypes, LocalTypes, PcTypes, ReportTypes, PointerOK,
      NoPointer, Cleaning, Goto, Tell, Cleanup, Release, CompressTell, StopTake,
      DropQueue, registry, sessVars, stateVars, locals, StateOrNone, Users,
      Neutral, Reports, Acts, InHand, Arriving, Answering
<1>1. CmdNew(c) => Neutral(c)
  BY DEF CmdNew
<1>2. Rotate(c) => Neutral(c)
  BY DEF Rotate
<1>3. CmdStop(c) => Neutral(c)
  BY DEF CmdStop
<1>4. StopClose(c) => Neutral(c)
  BY DEF StopClose
<1>5. Unbind(c) => Neutral(c)
  BY DEF Unbind
<1>6. RecallCurrent(c) => Neutral(c)
  BY DEF RecallCurrent
<1>7. RecallStop(c) => Neutral(c)
  BY DEF RecallStop
<1>8. RecallCollect(c) => Neutral(c)
  BY DEF RecallCollect
<1>9. StopNotify(c) => Reports(c, clean[c].target, NoMsg)
  <2> SUFFICES ASSUME StopNotify(c) PROVE Reports(c, clean[c].target, NoMsg)
    OBVIOUS
  <2>1. clean[c].target \in States /\ NoMsg \notin Users /\ c \notin Msgs
    BY DEF StopNotify, Targeted
  <2>2. Acts(c)
    BY DEF StopNotify
  <2> DEFINE what == IF clean[c].back = "unbind" THEN "dropped" ELSE "silenced"
  <2>3. DropQueue(clean[c].target, what, NoMsg, "none") /\ what # "none"
    <3>1. DropQueue(clean[c].target, what, NoMsg, "none")
      BY Zenon DEF StopNotify
    <3>2. what # "none"
      OBVIOUS
    <3> QED BY <3>1, <3>2
  <2> HIDE DEF what
  <2> HIDE DEF Acts, InHand, DropQueue, TypeOK, Users
  <2> QED BY <2>1, <2>2, <2>3, DropTells
<1> QED BY <1>1, <1>2, <1>3, <1>4, <1>5, <1>6, <1>7, <1>8, <1>9

LEMMA CompressPlaces ==
  ASSUME TypeInv, Compressing, NEW m \in Msgs
  PROVE  /\ CompressPick(m) \/ CompressLock(m) \/ CompressSend(m)
            \/ CompressStopped(m) \/ CompressResult(m) \/ CompressError(m)
            \/ CompressFailed(m) => Neutral(m)
         /\ DropAll(m) => Reports(m, ptr[m], NoMsg)
<1> USE BootIsState, TurnEngineAssumption DEF TypeInv, TypeOK, SharedTypes,
      StateTypes, QueueTypes, LocalTypes, PcTypes, ReportTypes, PointerOK,
      NoPointer, Cleaning, Goto, Tell, Cleanup, Release, CompressTell, StopTake,
      DropQueue, registry, sessVars, stateVars, locals, StateOrNone, Users,
      Neutral, Reports, Acts, InHand, Arriving, Answering
<1>1. CompressPick(m) => Neutral(m)
  BY DEF CompressPick, Compressing
<1>2. CompressLock(m) => Neutral(m)
  BY DEF CompressLock, Compressing
<1>3. CompressSend(m) => Neutral(m)
  BY DEF CompressSend
<1>4. CompressStopped(m) => Neutral(m)
  BY DEF CompressStopped
<1>5. CompressResult(m) => Neutral(m)
  BY DEF CompressResult
<1>6. CompressError(m) => Neutral(m)
  BY DEF CompressError
<1>7. CompressFailed(m) => Neutral(m)
  BY DEF CompressFailed
<1>8. DropAll(m) => Reports(m, ptr[m], NoMsg)
  <2> SUFFICES ASSUME DropAll(m) PROVE Reports(m, ptr[m], NoMsg)
    OBVIOUS
  <2>1. ptr[m] \in States /\ NoMsg \notin Users
    BY DEF DropAll
  <2>2. Acts(m)
    BY DEF DropAll
  <2>3. \A x \in Users : InHand(m, x)' <=> InHand(m, x)
    BY DEF DropAll
  <2>4. DropQueue(ptr[m], "dropped", NoMsg, "none")
    BY Zenon DEF DropAll
  <2> HIDE DEF Acts, InHand, DropQueue, TypeOK, Users
  <2> QED BY <2>1, <2>2, <2>3, <2>4, DropTells
<1> QED BY <1>1, <1>2, <1>3, <1>4, <1>5, <1>6, <1>7, <1>8

LEMMA CreatePlaces ==
  ASSUME TypeInv, Unused, NEW m \in Msgs, CreateState(m)
  PROVE  Neutral(m) \/ (entry \in States /\ Adopts(m, entry, <<m, "full">>))
<1> USE BootIsState, TurnEngineAssumption DEF TypeInv, TypeOK, SharedTypes,
      StateTypes, QueueTypes, LocalTypes, PcTypes, ReportTypes, PointerOK,
      NoPointer, Cleaning, Goto, Tell, Cleanup, Release, CompressTell, StopTake,
      DropQueue, registry, sessVars, stateVars, locals, StateOrNone, Users,
      Neutral, Reports, Acts, InHand, Arriving, Answering
<1>1. pc[m] = "start" /\ pc' = [pc EXCEPT ![m] = "check"]
      /\ UNCHANGED <<cur, clean, told>>
  BY DEF CreateState
<1>2. Acts(m)
  BY <1>1
<1>3. \A x \in Users : InHand(m, x)' <=> InHand(m, x)
  BY <1>1
<1>4. queue[<<m, "full">>] = <<>> /\ entry # <<m, "full">>
  BY <1>1 DEF Unused, Unborn
<1>5. \/ UNCHANGED queue
      \/ /\ entry \in States
         /\ queue' = [queue EXCEPT ![<<m, "full">>] = queue[entry], ![entry] = <<>>]
  BY DEF CreateState
<1>6. NoMsg \notin Users /\ NoState \notin States
  OBVIOUS
<1> HIDE DEF Acts, InHand, Users
<1> QED BY <1>1, <1>2, <1>3, <1>4, <1>5, <1>6 DEF Adopts, SameHand

LEMMA IntakePlaces ==
  ASSUME TypeInv, NEW m \in Msgs
  PROVE  /\ Arrive(m) => Arrives(m)
         /\ QueueMessage(m) =>
              \/ Reports(m, NoState, m)
              \/ ptr[m] \in States /\ Appends(m, ptr[m])
<1> USE BootIsState, TurnEngineAssumption DEF TypeInv, TypeOK, SharedTypes,
      StateTypes, QueueTypes, LocalTypes, PcTypes, ReportTypes, PointerOK,
      NoPointer, Cleaning, Goto, Tell, Cleanup, Release, CompressTell, StopTake,
      DropQueue, registry, sessVars, stateVars, locals, StateOrNone, Users,
      Neutral, Reports, Acts, InHand, Arriving, Answering
<1>1. Arrive(m) => Arrives(m)
  BY DEF Arrive, Arrives
<1>2. ASSUME QueueMessage(m)
      PROVE  \/ Reports(m, NoState, m)
             \/ ptr[m] \in States /\ Appends(m, ptr[m])
  <2>1. ptr[m] \in States /\ Acts(m) /\ NoState \notin States
    BY <1>2 DEF QueueMessage
  <2>2. InHand(m, m) /\ \A x \in Users : (InHand(m, x) => x = m) /\ ~InHand(m, x)'
    BY <1>2 DEF QueueMessage
  <2>3. \/ UNCHANGED queue /\ told' = [told EXCEPT ![m] = "full"]
        \/ UNCHANGED told /\ queue' = [queue EXCEPT ![ptr[m]] = Append(@, m)]
    BY <1>2 DEF QueueMessage
  <2> HIDE DEF Acts, InHand
  <2> QED BY <2>1, <2>2, <2>3 DEF Appends
<1> QED BY <1>1, <1>2

LEMMA RecallPlaces ==
  ASSUME TypeInv, NEW c \in Commands, RecallQueued(c)
  PROVE  \/ Neutral(c)
         \/ ptr[c] \in States /\ \E i \in DOMAIN queue[ptr[c]] : Recalls(c, ptr[c], i)
<1> USE BootIsState, TurnEngineAssumption DEF TypeInv, TypeOK, SharedTypes,
      StateTypes, QueueTypes, LocalTypes, PcTypes, ReportTypes, PointerOK,
      NoPointer, Cleaning, Goto, Tell, Cleanup, Release, CompressTell, StopTake,
      DropQueue, registry, sessVars, stateVars, locals, StateOrNone, Users,
      Neutral, Reports, Acts, InHand, Arriving, Answering
<1> DEFINE s == ptr[c]
<1>1. s \in States /\ Acts(c) /\ c \notin Msgs
  BY DEF RecallQueued
<1>2. CASE UNCHANGED <<queue, told>>
  BY <1>1, <1>2
<1>3. CASE \E i \in DOMAIN queue[s] :
             /\ queue' = [queue EXCEPT ![s] = Without(queue[s], i)]
             /\ Tell(queue[s][i], "recalled")
  <2>1. PICK i \in DOMAIN queue[s] :
             /\ queue' = [queue EXCEPT ![s] = Without(queue[s], i)]
             /\ Tell(queue[s][i], "recalled")
    BY <1>3
  <2>2. \A x \in Users : IF x = queue[s][i] THEN told'[x] # "none" ELSE told'[x] = told[x]
    BY <2>1
  <2>3. Recalls(c, s, i)
    BY <1>1, <2>1, <2>2 DEF Recalls, SameHand
  <2> QED BY <1>1, <2>3
<1> QED BY <1>2, <1>3, Zenon DEF RecallQueued, Without

\* A step that leaves the states that do not exist yet alone.
Respects ==
  /\ \A m \in Msgs : Unborn(m)' => Unborn(m)
  /\ entry' \in {entry, NoState} \cup (Msgs \X {"placeholder"})
  /\ \A p \in Procs : ptr'[p] \in {ptr[p], entry}
  /\ \A s \in States : queue[s] = <<>> => queue'[s] = <<>> \/ \E p \in Procs : ptr[p] = s

LEMMA RespectsUnused ==
  ASSUME TypeInv, Unused, Respects
  PROVE  Unused'
<1> SUFFICES ASSUME NEW m \in Msgs, Unborn(m)'
             PROVE  /\ entry' # <<m, "full">> /\ queue'[<<m, "full">>] = <<>>
                    /\ \A p \in Procs : ptr'[p] # <<m, "full">>
  BY DEF Unused
<1>1. /\ entry # <<m, "full">> /\ queue[<<m, "full">>] = <<>>
      /\ \A p \in Procs : ptr[p] # <<m, "full">>
  BY DEF Respects, Unused
<1>2. <<m, "full">> \in States /\ NoState # <<m, "full">>
  BY BootIsState
<1> QED BY <1>1, <1>2 DEF Respects

LEMMA HandlerRespects ==
  ASSUME TypeInv, Unused, Targeted, Compressing, NEW m \in Msgs,
         TryLock(m) \/ Lookup(m) \/ QueueMessage(m) \/ Retry(m)
         \/ KeepSession(m) \/ StartIdleReset(m) \/ UnlockOldSession(m)
         \/ NewSession(m) \/ LockNewSession(m) \/ EnsureState(m)
         \/ DrainOrphaned(m) \/ Arrive(m) \/ CmdCompress(m)
  PROVE  Respects /\ Targeted' /\ Compressing'
<1> USE BootIsState, TurnEngineAssumption DEF TypeInv, TypeOK, SharedTypes,
      StateTypes, QueueTypes, LocalTypes, PcTypes, ReportTypes, PointerOK,
      NoPointer, Cleaning, Goto, Tell, Cleanup, Release, CompressTell, StopTake,
      DropQueue, registry, sessVars, stateVars, locals, StateOrNone, Users,
      Unborn, Arriving, Respects
<1>1. CASE TryLock(m)
  BY <1>1 DEF TryLock, Targeted, Compressing
<1>2. CASE Lookup(m)
  BY <1>2 DEF Lookup, Targeted, Compressing
<1>3. CASE QueueMessage(m)
  BY <1>3 DEF QueueMessage, Targeted, Compressing
<1>4. CASE Retry(m)
  BY <1>4 DEF Retry, Targeted, Compressing
<1>5. CASE KeepSession(m)
  BY <1>5 DEF KeepSession, Targeted, Compressing
<1>6. CASE StartIdleReset(m)
  BY <1>6 DEF StartIdleReset, Targeted, Compressing
<1>7. CASE UnlockOldSession(m)
  BY <1>7 DEF UnlockOldSession, Targeted, Compressing
<1>8. CASE NewSession(m)
  BY <1>8 DEF NewSession, Targeted, Compressing
<1>9. CASE LockNewSession(m)
  BY <1>9 DEF LockNewSession, Targeted, Compressing
<1>10. CASE EnsureState(m)
  BY <1>10 DEF EnsureState, Targeted, Compressing
<1>11. CASE DrainOrphaned(m)
  BY <1>11 DEF DrainOrphaned, Targeted, Compressing
<1>12. CASE Arrive(m)
  BY <1>12 DEF Arrive, Targeted, Compressing
<1>13. CASE CmdCompress(m)
  BY <1>13 DEF CmdCompress, Targeted, Compressing
<1> QED BY <1>1, <1>2, <1>3, <1>4, <1>5, <1>6, <1>7, <1>8, <1>9, <1>10, <1>11, <1>12, <1>13

LEMMA TurnRespects ==
  ASSUME TypeInv, Unused, Targeted, Compressing, NEW m \in Msgs,
         ReuseState(m) \/ CheckAgent(m) \/ Send(m) \/ LoopStopped(m)
         \/ LoopResult(m) \/ LoopError(m) \/ LoopClosed(m)
         \/ LoopSendError(m) \/ LoopIdleTimeout(m) \/ LoopMaxTurnTime(m)
         \/ TakeNext(m) \/ LeaveLoop(m) \/ AutoCompress(m) \/ DrainEmpty(m)
         \/ DrainPop(m) \/ DrainCheck(m) \/ Unlock(m)
  PROVE  Respects /\ Targeted' /\ Compressing'
<1> USE BootIsState, TurnEngineAssumption DEF TypeInv, TypeOK, SharedTypes,
      StateTypes, QueueTypes, LocalTypes, PcTypes, ReportTypes, PointerOK,
      NoPointer, Cleaning, Goto, Tell, Cleanup, Release, CompressTell, StopTake,
      DropQueue, registry, sessVars, stateVars, locals, StateOrNone, Users,
      Unborn, Arriving, Respects
<1>1. CASE ReuseState(m)
  BY <1>1 DEF ReuseState, Targeted, Compressing
<1>2. CASE CheckAgent(m)
  BY <1>2 DEF CheckAgent, Targeted, Compressing
<1>3. CASE Send(m)
  BY <1>3 DEF Send, Targeted, Compressing
<1>4. CASE LoopStopped(m)
  BY <1>4 DEF LoopStopped, Targeted, Compressing
<1>5. CASE LoopResult(m)
  BY <1>5 DEF LoopResult, Targeted, Compressing
<1>6. CASE LoopError(m)
  BY <1>6 DEF LoopError, Targeted, Compressing
<1>7. CASE LoopClosed(m)
  BY <1>7 DEF LoopClosed, Targeted, Compressing
<1>8. CASE LoopSendError(m)
  <2>1. Respects
    BY <1>8 DEF LoopSendError
  <2>2. Targeted' /\ Compressing'
    BY <1>8 DEF LoopSendError, Targeted, Compressing
  <2> QED BY <2>1, <2>2
<1>9. CASE LoopIdleTimeout(m)
  BY <1>9 DEF LoopIdleTimeout, Targeted, Compressing
<1>10. CASE LoopMaxTurnTime(m)
  BY <1>10 DEF LoopMaxTurnTime, Targeted, Compressing
<1>11. CASE TakeNext(m)
  BY <1>11 DEF TakeNext, Targeted, Compressing
<1>12. CASE LeaveLoop(m)
  BY <1>12 DEF LeaveLoop, Targeted, Compressing
<1>13. CASE AutoCompress(m)
  BY <1>13 DEF AutoCompress, Targeted, Compressing
<1>14. CASE DrainEmpty(m)
  BY <1>14 DEF DrainEmpty, Targeted, Compressing
<1>15. CASE DrainPop(m)
  BY <1>15 DEF DrainPop, Targeted, Compressing
<1>16. CASE DrainCheck(m)
  BY <1>16 DEF DrainCheck, Targeted, Compressing
<1>17. CASE Unlock(m)
  BY <1>17 DEF Unlock, Targeted, Compressing
<1> QED BY <1>1, <1>2, <1>3, <1>4, <1>5, <1>6, <1>7, <1>8, <1>9, <1>10, <1>11, <1>12, <1>13, <1>14, <1>15, <1>16, <1>17

LEMMA CompressRespects ==
  ASSUME TypeInv, Unused, Targeted, Compressing, NEW m \in Msgs,
         CompressPick(m) \/ CompressLock(m) \/ CompressSend(m)
         \/ CompressStopped(m) \/ CompressResult(m) \/ CompressError(m)
         \/ CompressFailed(m) \/ DropAll(m)
  PROVE  Respects /\ Targeted' /\ Compressing'
<1> USE BootIsState, TurnEngineAssumption DEF TypeInv, TypeOK, SharedTypes,
      StateTypes, QueueTypes, LocalTypes, PcTypes, ReportTypes, PointerOK,
      NoPointer, Cleaning, Goto, Tell, Cleanup, Release, CompressTell, StopTake,
      DropQueue, registry, sessVars, stateVars, locals, StateOrNone, Users,
      Unborn, Arriving, Respects
<1>1. CASE CompressPick(m)
  BY <1>1 DEF CompressPick, Targeted, Compressing
<1>2. CASE CompressLock(m)
  BY <1>2 DEF CompressLock, Targeted, Compressing
<1>3. CASE CompressSend(m)
  <2>1. Respects
    BY <1>3 DEF CompressSend
  <2>2. Targeted' /\ Compressing'
    <3>1. \A q \in Procs \ {m} : pc'[q] = pc[q] /\ clean'[q] = clean[q]
      BY <1>3 DEF CompressSend
    <3>2. pc'[m] \in {"cloop", "unlock", "clean"}
      BY <1>3 DEF CompressSend
    <3> QED BY <3>1, <3>2 DEF Targeted, Compressing
  <2> QED BY <2>1, <2>2
<1>4. CASE CompressStopped(m)
  BY <1>4 DEF CompressStopped, Targeted, Compressing
<1>5. CASE CompressResult(m)
  BY <1>5 DEF CompressResult, Targeted, Compressing
<1>6. CASE CompressError(m)
  BY <1>6 DEF CompressError, Targeted, Compressing
<1>7. CASE CompressFailed(m)
  BY <1>7 DEF CompressFailed, Targeted, Compressing
<1>8. CASE DropAll(m)
  BY <1>8 DEF DropAll, Targeted, Compressing
<1> QED BY <1>1, <1>2, <1>3, <1>4, <1>5, <1>6, <1>7, <1>8

LEMMA CleanupRespects ==
  ASSUME TypeInv, Unused, Targeted, Compressing, NEW p \in Procs,
         CleanTake(p) \/ CleanQuiet(p) \/ CleanClose(p) \/ CleanDelete(p)
  PROVE  Respects /\ Targeted' /\ Compressing'
<1> USE BootIsState, TurnEngineAssumption DEF TypeInv, TypeOK, SharedTypes,
      StateTypes, QueueTypes, LocalTypes, PcTypes, ReportTypes, PointerOK,
      NoPointer, Cleaning, Goto, Tell, Cleanup, Release, CompressTell, StopTake,
      DropQueue, registry, sessVars, stateVars, locals, StateOrNone, Users,
      Unborn, Arriving, Respects
<1>b. clean[p].back \notin {"quiet", "stopnotify", "cpick", "clock"} \/ pc[p] \notin Cleaning
  OBVIOUS
<1>a. ASSUME CleanTake(p) \/ CleanDelete(p)
      PROVE  \A m \in Msgs : Unborn(m)' => Unborn(m)
  <2>1. \A q \in Procs \ {p} : pc'[q] = pc[q] /\ clean'[q] = clean[q]
    BY <1>a DEF CleanTake, CleanDelete
  <2>2. /\ pc[p] \in Cleaning /\ clean'[p].back = clean[p].back
        /\ pc'[p] \in {"delete", "quiet", clean[p].back}
    BY <1>a DEF CleanTake, CleanDelete
  <2>3. p \in Msgs => clean[p].back \in {"reset", "drain", "unlock", "dropall"}
    BY <2>2
  <2> QED BY <2>1, <2>2, <2>3
<1>1. CASE CleanTake(p)
  <2>1. Respects
    <3>1. UNCHANGED <<entry, ptr, queue>>
      BY <1>1 DEF CleanTake
    <3>2. \A m \in Msgs : Unborn(m)' => Unborn(m)
      BY <1>1, <1>a
    <3> QED BY <3>1, <3>2
  <2>2. Targeted' /\ Compressing'
    <3>1. \A q \in Procs \ {p} : pc'[q] = pc[q] /\ clean'[q] = clean[q]
      BY <1>1 DEF CleanTake
    <3>2. /\ pc[p] \in Cleaning
          /\ pc'[p] \in {"delete", "quiet", clean[p].back}
          /\ (pc'[p] = "quiet" => clean'[p].target \in States)
      BY <1>1, <1>b DEF CleanTake
    <3> QED BY <1>b, <3>1, <3>2 DEF Targeted, Compressing
  <2> QED BY <2>1, <2>2
<1>2. CASE CleanQuiet(p)
  BY <1>2 DEF CleanQuiet, Targeted, Compressing
<1>3. CASE CleanClose(p)
  BY <1>3 DEF CleanClose, Targeted, Compressing
<1>4. CASE CleanDelete(p)
  <2>1. Respects
    <3>1. UNCHANGED <<ptr, queue>> /\ entry' \in {entry, NoState}
      BY <1>4 DEF CleanDelete
    <3>2. \A m \in Msgs : Unborn(m)' => Unborn(m)
      BY <1>4, <1>a
    <3> QED BY <3>1, <3>2
  <2>2. Targeted' /\ Compressing'
    BY <1>4 DEF CleanDelete, Targeted, Compressing
  <2> QED BY <2>1, <2>2
<1> QED BY <1>1, <1>2, <1>3, <1>4

LEMMA CommandRespects ==
  ASSUME TypeInv, Unused, Targeted, Compressing, NEW c \in Commands,
         CmdNew(c) \/ Rotate(c) \/ CmdStop(c) \/ StopNotify(c)
         \/ StopClose(c) \/ Unbind(c) \/ RecallCurrent(c) \/ RecallStop(c)
         \/ RecallCollect(c) \/ RecallQueued(c)
  PROVE  Respects /\ Targeted' /\ Compressing'
<1> USE BootIsState, TurnEngineAssumption DEF TypeInv, TypeOK, SharedTypes,
      StateTypes, QueueTypes, LocalTypes, PcTypes, ReportTypes, PointerOK,
      NoPointer, Cleaning, Goto, Tell, Cleanup, Release, CompressTell, StopTake,
      DropQueue, registry, sessVars, stateVars, locals, StateOrNone, Users,
      Unborn, Arriving, Respects
<1>1. CASE CmdNew(c)
  BY <1>1 DEF CmdNew, Targeted, Compressing
<1>2. CASE Rotate(c)
  BY <1>2 DEF Rotate, Targeted, Compressing
<1>3. CASE CmdStop(c)
  <2>1. Respects
    BY <1>3 DEF CmdStop
  <2>2. Targeted' /\ Compressing'
    <3>1. \A q \in Procs \ {c} : pc'[q] = pc[q] /\ clean'[q] = clean[q]
      BY <1>3 DEF CmdStop
    <3>2. \/ pc'[c] = "done"
          \/ (pc'[c] = "stopnotify" /\ clean'[c].target \in States)
      BY <1>3 DEF CmdStop
    <3> QED BY <3>1, <3>2 DEF Targeted, Compressing
  <2> QED BY <2>1, <2>2
<1>4. CASE StopNotify(c)
  BY <1>4 DEF StopNotify, Targeted, Compressing
<1>5. CASE StopClose(c)
  BY <1>5 DEF StopClose, Targeted, Compressing
<1>6. CASE Unbind(c)
  BY <1>6 DEF Unbind, Targeted, Compressing
<1>7. CASE RecallCurrent(c)
  BY <1>7 DEF RecallCurrent, Targeted, Compressing
<1>8. CASE RecallStop(c)
  <2>1. Respects
    BY <1>8 DEF RecallStop
  <2>2. Targeted' /\ Compressing'
    <3>1. \A q \in Procs \ {c} : pc'[q] = pc[q] /\ clean'[q] = clean[q]
      BY <1>8 DEF RecallStop
    <3>2. \/ pc'[c] = "done"
          \/ (pc'[c] = "stopnotify" /\ clean'[c].target \in States)
      BY <1>8 DEF RecallStop
    <3> QED BY <3>1, <3>2 DEF Targeted, Compressing
  <2> QED BY <2>1, <2>2
<1>9. CASE RecallCollect(c)
  BY <1>9 DEF RecallCollect, Targeted, Compressing
<1>10. CASE RecallQueued(c)
  <2>a. c \notin Msgs /\ UNCHANGED <<entry, ptr, clean>>
    BY <1>10 DEF RecallQueued
  <2>b. pc' = [pc EXCEPT ![c] = "done"]
    BY <1>10 DEF RecallQueued
  <2>c. \A s \in States : queue'[s] = queue[s] \/ ptr[c] = s
    <3>1. UNCHANGED queue \/ \E q : queue' = [queue EXCEPT ![ptr[c]] = q]
      BY <1>10, Zenon DEF RecallQueued
    <3>2. queue \in [States -> Seq(Msgs)]
      OBVIOUS
    <3> HIDE DEF TypeInv, States
    <3> QED BY <3>1, <3>2
  <2>1. /\ UNCHANGED <<entry, ptr, clean>> /\ c \notin Msgs
        /\ pc' = [pc EXCEPT ![c] = "done"]
        /\ \A s \in States : queue'[s] = queue[s] \/ ptr[c] = s
    BY <2>a, <2>b, <2>c
  <2>2. Respects
    BY <2>1
  <2>3. Targeted' /\ Compressing'
    BY <2>1 DEF Targeted, Compressing
  <2> QED BY <2>2, <2>3
<1> QED BY <1>1, <1>2, <1>3, <1>4, <1>5, <1>6, <1>7, <1>8, <1>9, <1>10

\* The state a turn creates was not in use, and it is no longer unborn.
LEMMA CreateUnused ==
  ASSUME TypeInv, Unused, Targeted, Compressing, NEW m \in Msgs, CreateState(m)
  PROVE  Unused' /\ Targeted' /\ Compressing'
<1> USE BootIsState, TurnEngineAssumption DEF TypeInv, TypeOK, SharedTypes,
      QueueTypes, LocalTypes, PcTypes, Goto, StateOrNone, Users
<1>1. /\ pc[m] = "start" /\ pc' = [pc EXCEPT ![m] = "check"] /\ UNCHANGED clean
      /\ entry' = <<m, "full">> /\ ptr' = [ptr EXCEPT ![m] = <<m, "full">>]
  BY DEF CreateState
<1>2. \A s \in States : s # <<m, "full">> /\ queue[s] = <<>> => queue'[s] = <<>>
  BY DEF CreateState
<1>3. \A x \in Msgs : Unborn(x)' => Unborn(x) /\ x # m
  BY <1>1 DEF Unborn, Arriving, Cleaning
<1>4. Unused'
  <2> SUFFICES ASSUME NEW x \in Msgs, Unborn(x)'
               PROVE  /\ entry' # <<x, "full">> /\ queue'[<<x, "full">>] = <<>>
                      /\ \A p \in Procs : ptr'[p] # <<x, "full">>
    BY DEF Unused
  <2>1. x # m /\ queue[<<x, "full">>] = <<>> /\ \A p \in Procs : ptr[p] # <<x, "full">>
    BY <1>3 DEF Unused
  <2> QED BY <1>1, <1>2, <2>1
<1>5. Targeted' /\ Compressing'
  BY <1>1 DEF Targeted, Compressing
<1> QED BY <1>4, <1>5

LEMMA PlaceInit == Init => PlaceInv
<1> SUFFICES ASSUME Init PROVE PlaceInv
  OBVIOUS
<1> USE BootIsState, TurnEngineAssumption
<1>1. Unused
  BY DEF Init, Unused, Boot, NoState, States
<1>2. Targeted /\ Compressing
  BY DEF Init, Targeted, Compressing, Users
<1>3. ASSUME NEW m \in Users PROVE Placed(m)
  <2>1. \A s \in States : Waiting(s) = {}
    BY DEF Init, Waiting
  <2>2. \A g \in Msgs : ~InHand(g, m)
    BY DEF Init, InHand, Answering, Arriving, Cleaning
  <2> QED BY <2>1, <2>2 DEF Init, Placed, Nowhere, Users
<1> QED BY <1>1, <1>2, <1>3 DEF PlaceInv

\* What a step of goroutine g does to the places.
PlaceStep(g) ==
  \/ \E d, c : Reports(g, d, c)
  \/ g \in Msgs /\ \E s \in States : Appends(g, s) \/ Pops(g, s)
  \/ g \in Msgs /\ \E s, t \in States : Adopts(g, s, t)
  \/ \E s \in States : \E i : Recalls(g, s, i)
  \/ g \in Msgs /\ Arrives(g)

LEMMA PlacedStep ==
  ASSUME TypeInv, PlaceInv, NEW g \in Procs, PlaceStep(g), NEW m \in Users
  PROVE  Placed(m)'
<1>0. Placed(m)
  BY DEF PlaceInv
<1>1. ASSUME NEW d, NEW c, Reports(g, d, c) PROVE Placed(m)'
  BY <1>0, <1>1, ReportsPlaced
<1>2. ASSUME g \in Msgs, NEW s \in States, Appends(g, s) \/ Pops(g, s)
      PROVE  Placed(m)'
  BY <1>0, <1>2, AppendsPlaced, PopsPlaced DEF PlaceInv, TypeInv
<1>3. ASSUME g \in Msgs, NEW s \in States, NEW t \in States, Adopts(g, s, t)
      PROVE  Placed(m)'
  BY <1>0, <1>3, AdoptsPlaced DEF TypeInv
<1>4. ASSUME NEW s \in States, NEW i, Recalls(g, s, i) PROVE Placed(m)'
  BY <1>0, <1>4, RecallsPlaced DEF TypeInv
<1>5. ASSUME g \in Msgs, Arrives(g) PROVE Placed(m)'
  BY <1>0, <1>5, ArrivesPlaced
<1> QED BY <1>1, <1>2, <1>3, <1>4, <1>5 DEF PlaceStep

\* A step that tells a message of the chat nothing new.
Settled == \A x \in Users : told[x] # "none" => told'[x] = told[x]

LEMMA SettledStep ==
  ASSUME PlaceInv, NEW g \in Procs, PlaceStep(g)
  PROVE  Settled
<1> SUFFICES ASSUME NEW x \in Users, told[x] # "none" PROVE told'[x] = told[x]
  BY DEF Settled
<1>1. /\ \A h \in Msgs : ~InHand(h, x)
      /\ \A s \in States : x \notin Waiting(s)
  BY SomewhereLive DEF PlaceInv
<1>2. ASSUME NEW d, NEW c, Reports(g, d, c) PROVE told'[x] = told[x]
  BY <1>1, <1>2 DEF Reports
<1>3. ASSUME NEW s \in States, NEW i, Recalls(g, s, i) PROVE told'[x] = told[x]
  BY <1>1, <1>3 DEF Recalls, Waiting
<1> QED BY <1>2, <1>3 DEF PlaceStep, Appends, Pops, Adopts, Arrives

\* Every step is such a step, a /compress, or one without a message.
LEMMA NextPlaces ==
  ASSUME TypeInv, PlaceInv, [Next]_vars
  PROVE  \/ \E g \in Procs : PlaceStep(g)
         \/ \E m \in Msgs : CmdCompress(m)
         \/ UNCHANGED <<entry, queue, ptr, cur, pc, depth, clean, told>>
<1>0. Unused /\ Targeted /\ Compressing
  BY DEF PlaceInv
<1>1. ASSUME NEW m \in Msgs, Arrive(m) \/ Handler(m) PROVE PlaceStep(m)
  BY <1>0, <1>1, IntakePlaces, HandlerPlaces DEF Handler, Neutral, PlaceStep
<1>2. ASSUME NEW m \in Msgs, Turn(m) PROVE PlaceStep(m)
  <2>1. TakeNext(m) \/ DrainPop(m) => ptr[m] \in States
    BY DEF TakeNext, DrainPop, TypeInv, PointerOK, NoPointer, Cleaning
  <2>2. CASE CreateState(m)
    BY <1>0, <2>2, CreatePlaces, BootIsState DEF Neutral, PlaceStep
  <2>3. CASE ~CreateState(m)
    BY <1>0, <1>2, <2>1, <2>3, TurnPlaces DEF Turn, Neutral, PlaceStep
  <2> QED BY <2>2, <2>3
<1>3. ASSUME NEW m \in Msgs, Compress(m) PROVE PlaceStep(m)
  BY <1>0, <1>3, CompressPlaces DEF Compress, Neutral, PlaceStep
<1>4. ASSUME NEW p \in Procs, CleanupStep(p) PROVE PlaceStep(p)
  BY <1>0, <1>4, CleanupPlaces DEF CleanupStep, Neutral, PlaceStep
<1>5. ASSUME NEW c \in Commands, Command(c) PROVE PlaceStep(c)
  BY <1>0, <1>5, CommandPlaces, RecallPlaces DEF Command, Neutral, PlaceStep
<1>6. ASSUME \/ \E m \in Msgs : Panic(m)
             \/ \E s \in States : AgentExit(s)
             \/ UNCHANGED vars
      PROVE  UNCHANGED <<entry, queue, ptr, cur, pc, depth, clean, told>>
  BY <1>6 DEF Panic, AgentExit, vars, registry, stateVars, locals
<1> QED
  BY <1>1, <1>2, <1>3, <1>4, <1>5, <1>6 DEF Next, Finished, Arrival

LEMMA NextAside ==
  ASSUME TypeInv, PlaceInv, [Next]_vars
  PROVE  Unused' /\ Targeted' /\ Compressing'
<1>0. Unused /\ Targeted /\ Compressing
  BY DEF PlaceInv
<1>1. ASSUME NEW m \in Msgs, Arrival(m) \/ Handler(m) \/ Turn(m) \/ Compress(m)
      PROVE  Unused' /\ Targeted' /\ Compressing'
  <2>1. CASE CreateState(m)
    BY <1>0, <2>1, CreateUnused
  <2>2. CASE ~CreateState(m)
    BY <1>0, <1>1, <2>2, HandlerRespects, TurnRespects, CompressRespects,
       RespectsUnused DEF Arrival, Handler, Turn, Compress
  <2> QED BY <2>1, <2>2
<1>2. ASSUME NEW p \in Procs, CleanupStep(p)
      PROVE  Unused' /\ Targeted' /\ Compressing'
  BY <1>0, <1>2, CleanupRespects, RespectsUnused DEF CleanupStep
<1>3. ASSUME NEW c \in Commands, Command(c)
      PROVE  Unused' /\ Targeted' /\ Compressing'
  BY <1>0, <1>3, CommandRespects, RespectsUnused DEF Command
<1>4. ASSUME UNCHANGED <<entry, queue, ptr, pc, clean>>
      PROVE  Unused' /\ Targeted' /\ Compressing'
  BY <1>0, <1>4 DEF Unused, Targeted, Compressing, Unborn
<1> QED BY <1>1, <1>2, <1>3, <1>4 DEF Next, Finished, Panic, AgentExit, vars,
      registry, stateVars, locals

\* A /compress is not a message of the chat.
LEMMA CompressAside ==
  ASSUME TypeInv, PlaceInv, NEW m \in Msgs, CmdCompress(m), NEW x \in Users
  PROVE  Stays(x)
<1>1. x \in Msgs /\ x # m
  BY DEF CmdCompress, Users
<1>2. /\ told'[x] = told[x] /\ pc'[x] = pc[x]
      /\ UNCHANGED <<queue, cur, clean>>
  BY <1>1 DEF CmdCompress, Goto, Tell, stateVars, TypeInv, TypeOK, ReportTypes,
       PcTypes
<1>3. \A h \in Msgs \ {m} : pc'[h] = pc[h]
  BY DEF CmdCompress, Goto, TypeInv, TypeOK, PcTypes
<1>4. pc[m] = "idle" /\ pc'[m] \in {"cpick", "done"}
  BY DEF CmdCompress, Goto, TypeInv, TypeOK, PcTypes
<1> QED BY <1>1, <1>2, <1>3, <1>4
        DEF Stays, InHand, Answering, Arriving, Cleaning, Waiting

LEMMA PlaceNext ==
  ASSUME TypeInv, PlaceInv, [Next]_vars
  PROVE  PlaceInv'
<1>1. Unused' /\ Targeted' /\ Compressing'
  BY NextAside
<1>2. ASSUME NEW x \in Users PROVE Placed(x)'
  <2>1. CASE \E g \in Procs : PlaceStep(g)
    BY <2>1, PlacedStep
  <2>2. CASE \E m \in Msgs : CmdCompress(m)
    BY <2>2, CompressAside, StaysPlaced DEF PlaceInv
  <2>3. CASE UNCHANGED <<entry, queue, ptr, cur, pc, depth, clean, told>>
    <3>1. Stays(x)
      BY <2>3 DEF Stays, InHand, Waiting
    <3> QED BY <3>1, StaysPlaced DEF PlaceInv
  <2> QED BY <2>1, <2>2, <2>3, NextPlaces
<1> QED BY <1>1, <1>2 DEF PlaceInv

LEMMA PlacesAgree ==
  ASSUME TypeInv, PlaceInv
  PROVE  OnePlace
<1> SUFFICES ASSUME NEW m \in Users
             PROVE  /\ pc[m] = "idle" \/ told[m] # "none" =>
                          QueuedIn(m) = {} /\ InHandOf(m) = {}
                    /\ pc[m] # "idle" /\ told[m] = "none" =>
                          Cardinality(QueuedIn(m)) + Cardinality(InHandOf(m)) = 1
                    /\ \A s \in QueuedIn(m) : Once(queue[s], m)
  BY DEF OnePlace, Users, Once
<1>1. Placed(m)
  BY DEF PlaceInv
<1>2. InHandOf(m) = {g \in Msgs : InHand(g, m)}
  BY DEF InHandOf, InHand, Answering, Arriving, Cleaning
<1>3. Cardinality({}) = 0 /\ \A x : Cardinality({x}) = 1
  <2>1. Cardinality({}) = 0
    BY FS_EmptySet
  <2>2. ASSUME NEW x PROVE Cardinality({x}) = 1
    BY FS_Singleton
  <2> QED BY <2>1, <2>2
<1>4. CASE Nowhere(m)
  <2>1. QueuedIn(m) = {} /\ InHandOf(m) = {}
    BY <1>2, <1>4 DEF Nowhere, QueuedIn
  <2>2. pc[m] = "idle" \/ told[m] # "none"
    BY <1>1, <1>4 DEF Placed, Nowhere, OnlyHand, OnlyQueue
  <2> QED BY <2>1, <2>2
<1>5. ASSUME NEW g \in Msgs, OnlyHand(m, g), pc[m] # "idle", told[m] = "none"
      PROVE  /\ Cardinality(QueuedIn(m)) + Cardinality(InHandOf(m)) = 1
             /\ \A s \in QueuedIn(m) : Once(queue[s], m)
  <2>1. QueuedIn(m) = {} /\ InHandOf(m) = {g}
    BY <1>2, <1>5 DEF OnlyHand, QueuedIn
  <2>2. Cardinality(QueuedIn(m)) = 0 /\ Cardinality(InHandOf(m)) = 1
    BY <1>3, <2>1
  <2> QED BY <2>1, <2>2
<1>6. ASSUME NEW s \in States, OnlyQueue(m, s), pc[m] # "idle", told[m] = "none"
      PROVE  /\ Cardinality(QueuedIn(m)) + Cardinality(InHandOf(m)) = 1
             /\ \A t \in QueuedIn(m) : Once(queue[t], m)
  <2>1. QueuedIn(m) = {s} /\ InHandOf(m) = {}
    BY <1>2, <1>6 DEF OnlyQueue, QueuedIn
  <2>2. Cardinality(QueuedIn(m)) = 1 /\ Cardinality(InHandOf(m)) = 0
    BY <1>3, <2>1
  <2>3. \A t \in QueuedIn(m) : Once(queue[t], m)
    BY <1>6, <2>1 DEF OnlyQueue
  <2> QED BY <2>2, <2>3
<1> QED BY <1>1, <1>4, <1>5, <1>6 DEF Placed

\* Whatever stops, dies or is replaced, a message is in exactly one hand or
\* queue until its sender is told, and then in none (pendingMessages and its
\* users in engine.go): for any number of messages, commands and faults, with
\* idle resets, auto-compress and /compress.
THEOREM PlacesCorrect == Spec => []OnePlace
<1>1. TypeInv /\ PlaceInv => OnePlace
  BY PlacesAgree
<1>2. TypeInv /\ PlaceInv /\ [Next]_vars => TypeInv' /\ PlaceInv'
  BY TypeNext, PlaceNext
<1> QED BY <1>1, <1>2, TypeInit, PlaceInit, PTL DEF Spec

-----------------------------------------------------------------------------
(* The outcome is final *)

\* Commands are not queued and not answered by a turn.
OnlyUsers ==
  /\ \A s \in States : Waiting(s) \subseteq Users
  /\ \A m \in Msgs : cur[m] \in Users \cup {NoMsg}

\* The sender of a /compress is told at the end of the first runCompress.
Reported ==
  \A m \in CompressCmds :
    /\ pc[m] \notin Arriving
    /\ pc[m] \in Cleaning => clean[m].back # "reset"
    /\ told[m] # "none" =>
         /\ pc[m] \notin {"idle", "cpick", "clock"}
         /\ pc[m] \in {"compress", "cloop"} => depth[m] # 0

OutcomeInv == OnlyUsers /\ Reported

\* A step that tells the sender of a command nothing new.
Final == \A x \in CompressCmds : told[x] # "none" => told'[x] = told[x]

\* What happens to a queue brings no command into it.
LEMMA UsersQueue ==
  ASSUME TypeInv, OnlyUsers, NEW s \in States,
         \/ queue'[s] = queue[s]
         \/ queue'[s] = <<>>
         \/ queue[s] # <<>> /\ queue'[s] = Tail(queue[s])
         \/ \E m \in Users : queue'[s] = Append(queue[s], m)
         \/ \E i \in DOMAIN queue[s] : queue'[s] = Without(queue[s], i)
         \/ \E t \in States : queue'[s] = queue[t]
  PROVE  Waiting(s)' \subseteq Users
<1>1. /\ \A t \in States : queue[t] \in Seq(Msgs)
      /\ \A t \in States : {queue[t][i] : i \in DOMAIN queue[t]} \subseteq Users
  BY DEF TypeInv, TypeOK, QueueTypes, OnlyUsers, Waiting
<1> DEFINE In(q) == {q[i] : i \in DOMAIN q}
<1>2. In(<<>>) = {}
  OBVIOUS
<1>3. queue[s] # <<>> => In(Tail(queue[s])) \subseteq In(queue[s])
  BY <1>1, TailPlaces
<1>4. \A m \in Users : In(Append(queue[s], m)) = In(queue[s]) \cup {m}
  <2> SUFFICES ASSUME NEW m \in Users
               PROVE  In(Append(queue[s], m)) = In(queue[s]) \cup {m}
    OBVIOUS
  <2> DEFINE q == queue[s]
  <2>1. m \in Msgs /\ q \in Seq(Msgs)
    BY <1>1 DEF Users
  <2> HIDE DEF q
  <2>2. In(Append(q, m)) = In(q) \cup {m}
    BY <2>1, AppendPlaces
  <2> QED BY <2>2 DEF q
<1>5. ASSUME NEW i \in DOMAIN queue[s] PROVE In(Without(queue[s], i)) \subseteq In(queue[s])
  <2>1. queue[s][i] \in In(queue[s])
    OBVIOUS
  <2> DEFINE q == queue[s]
             r == Without(q, i)
  <2>2. /\ \A y : y # q[i] => (y \in In(r) <=> y \in In(q))
        /\ Once(q, q[i]) => q[i] \notin In(r)
        /\ \A y : Once(q, y) => Once(r, y)
    BY <1>1, WithoutPlaces
  <2> HIDE DEF In
  <2> QED BY <2>1, <2>2
<1>6. In(queue'[s]) \subseteq Users
  <2> HIDE DEF In
  <2>1. \A t \in States : In(queue[t]) \subseteq Users
    BY <1>1 DEF In
  <2> QED BY <1>2, <1>3, <1>4, <1>5, <2>1, ZenonT(30)
<1> QED BY <1>6 DEF Waiting

\* Nor does the report of those who wait touch a command.
LEMMA DropOutcomes ==
  ASSUME TypeInv, OnlyUsers, NEW s \in States, NEW what,
         NEW c \in Users \cup {NoMsg}, NEW mine, DropQueue(s, what, c, mine)
  PROVE  /\ \A t \in States : Waiting(t)' \subseteq Users
         /\ \A x \in CompressCmds : told'[x] = told[x]
<1>1. \A t \in States : queue'[t] = queue[t] \/ queue'[t] = <<>>
  BY DEF TypeInv, TypeOK, QueueTypes, DropQueue
<1>2. \A t \in States : Waiting(t)' \subseteq Users
  BY <1>1, UsersQueue
<1>3. ASSUME NEW x \in CompressCmds PROVE told'[x] = told[x]
  <2>1. x \notin Users /\ x \in Msgs /\ x # NoMsg
    BY TurnEngineAssumption DEF Users
  <2>2. x # c /\ x \notin Waiting(s)
    BY <2>1 DEF OnlyUsers
  <2> QED BY <2>1, <2>2 DEF DropQueue
<1> QED BY <1>2, <1>3

LEMMA HandlerOutcomes ==
  ASSUME TypeInv, OutcomeInv, Targeted, NEW m \in Msgs,
         Arrive(m) \/ CmdCompress(m) \/ TryLock(m) \/ Lookup(m)
         \/ QueueMessage(m) \/ Retry(m) \/ KeepSession(m)
         \/ StartIdleReset(m) \/ UnlockOldSession(m) \/ NewSession(m)
         \/ LockNewSession(m) \/ EnsureState(m) \/ DrainOrphaned(m)
  PROVE  OutcomeInv' /\ Final
<1> USE BootIsState, TurnEngineAssumption DEF TypeInv, TypeOK, SharedTypes,
      StateTypes, QueueTypes, LocalTypes, PcTypes, ReportTypes, PointerOK,
      NoPointer, Cleaning, Goto, Tell, Cleanup, Release, CompressTell, StopTake,
      DropQueue, registry, sessVars, stateVars, locals, StateOrNone, Users,
      OutcomeInv, OnlyUsers, Reported, Final, Arriving
<1>1. CASE Arrive(m)
  BY <1>1 DEF Arrive, Waiting
<1>2. CASE CmdCompress(m)
  <2>1. OnlyUsers'
    BY <1>2 DEF CmdCompress, Waiting
  <2>2. Reported' /\ Final
    <3>1. \A x \in Msgs \ {m} : told'[x] = told[x] /\ pc'[x] = pc[x]
      BY <1>2 DEF CmdCompress
    <3>2. UNCHANGED <<clean, depth>> /\ told[m] = "none"
          /\ pc'[m] \in {"cpick", "done"} /\ (pc'[m] = "cpick" => told'[m] = told[m])
      BY <1>2 DEF CmdCompress
    <3> QED BY <3>1, <3>2
  <2> QED BY <2>1, <2>2
<1>3. CASE TryLock(m)
  BY <1>3 DEF TryLock, Waiting
<1>4. CASE Lookup(m)
  BY <1>4 DEF Lookup, Waiting
<1>5. CASE QueueMessage(m)
  <2>1. OnlyUsers'
    <3>1. ptr[m] \in States /\ m \in Users /\ UNCHANGED cur
      BY <1>5 DEF QueueMessage
    <3>2. \A s \in States : queue'[s] = queue[s] \/ queue'[s] = Append(queue[s], m)
      BY <1>5, <3>1 DEF QueueMessage
    <3> HIDE DEF TypeInv, OnlyUsers, Users
    <3>3. \A s \in States : Waiting(s)' \subseteq Users
      BY <3>1, <3>2, UsersQueue DEF OutcomeInv
    <3> QED BY <3>1, <3>3 DEF OutcomeInv, OnlyUsers
  <2>2. Reported' /\ Final
    BY <1>5 DEF QueueMessage
  <2> QED BY <2>1, <2>2
<1>6. CASE Retry(m)
  BY <1>6 DEF Retry, Waiting
<1>7. CASE KeepSession(m)
  BY <1>7 DEF KeepSession, Waiting
<1>8. CASE StartIdleReset(m)
  BY <1>8 DEF StartIdleReset, Waiting
<1>9. CASE UnlockOldSession(m)
  BY <1>9 DEF UnlockOldSession, Waiting
<1>10. CASE NewSession(m)
  BY <1>10 DEF NewSession, Waiting
<1>11. CASE LockNewSession(m)
  BY <1>11 DEF LockNewSession, Waiting
<1>12. CASE EnsureState(m)
  BY <1>12 DEF EnsureState, Waiting
<1>13. CASE DrainOrphaned(m)
  <2>1. OnlyUsers'
    <3>1. UNCHANGED cur
      BY <1>13 DEF DrainOrphaned
    <3>2. \A s \in States : queue'[s] = queue[s] \/ queue'[s] = <<>>
      BY <1>13 DEF DrainOrphaned
    <3> HIDE DEF TypeInv, OnlyUsers, Users
    <3>3. \A s \in States : Waiting(s)' \subseteq Users
      BY <3>2, UsersQueue DEF OutcomeInv
    <3> QED BY <3>1, <3>3 DEF OutcomeInv, OnlyUsers
  <2>2. Reported' /\ Final
    BY <1>13 DEF DrainOrphaned
  <2> QED BY <2>1, <2>2
<1> QED BY <1>1, <1>2, <1>3, <1>4, <1>5, <1>6, <1>7, <1>8, <1>9, <1>10, <1>11, <1>12, <1>13

LEMMA TurnOutcomes ==
  ASSUME TypeInv, OutcomeInv, Targeted, NEW m \in Msgs,
         ReuseState(m) \/ CreateState(m) \/ CheckAgent(m) \/ Send(m)
         \/ LoopStopped(m) \/ LoopResult(m) \/ LoopError(m) \/ LoopClosed(m)
         \/ LoopSendError(m) \/ LoopIdleTimeout(m) \/ LoopMaxTurnTime(m)
         \/ TakeNext(m) \/ LeaveLoop(m) \/ AutoCompress(m) \/ DrainEmpty(m)
         \/ DrainPop(m) \/ DrainCheck(m) \/ Unlock(m)
  PROVE  OutcomeInv' /\ Final
<1> USE BootIsState, TurnEngineAssumption DEF TypeInv, TypeOK, SharedTypes,
      StateTypes, QueueTypes, LocalTypes, PcTypes, ReportTypes, PointerOK,
      NoPointer, Cleaning, Goto, Tell, Cleanup, Release, CompressTell, StopTake,
      DropQueue, registry, sessVars, stateVars, locals, StateOrNone, Users,
      OutcomeInv, OnlyUsers, Reported, Final, Arriving
<1>1. CASE ReuseState(m)
  BY <1>1 DEF ReuseState, Waiting
<1>2. CASE CreateState(m)
  <2>1. OnlyUsers'
    <3>1. UNCHANGED cur
      BY <1>2 DEF CreateState
    <3>2. \A s \in States : \/ queue'[s] = queue[s] \/ queue'[s] = <<>>
                            \/ \E t \in States : queue'[s] = queue[t]
      <4>1. /\ queue \in [States -> Seq(Msgs)] /\ <<m, "full">> \in States
            /\ \/ UNCHANGED queue
               \/ /\ entry \in States
                  /\ queue' = [queue EXCEPT ![<<m, "full">>] = queue[entry],
                                            ![entry] = <<>>]
        BY <1>2 DEF CreateState
      <4> HIDE DEF TypeInv, OutcomeInv, States
      <4> QED BY <4>1
    <3> HIDE DEF TypeInv, OnlyUsers, Users
    <3>3. \A s \in States : Waiting(s)' \subseteq Users
      BY <3>2, UsersQueue DEF OutcomeInv
    <3> QED BY <3>1, <3>3 DEF OutcomeInv, OnlyUsers
  <2>2. Reported' /\ Final
    BY <1>2 DEF CreateState
  <2> QED BY <2>1, <2>2
<1>3. CASE CheckAgent(m)
  BY <1>3 DEF CheckAgent, Waiting
<1>4. CASE Send(m)
  BY <1>4 DEF Send, Waiting
<1>5. CASE LoopStopped(m)
  BY <1>5 DEF LoopStopped, Waiting
<1>6. CASE LoopResult(m)
  BY <1>6 DEF LoopResult, Waiting
<1>7. CASE LoopError(m)
  <2>1. OnlyUsers'
    <3>1. UNCHANGED cur
      BY <1>7 DEF LoopError
    <3>2. \A s \in States : queue'[s] = queue[s] \/ queue'[s] = <<>>
      BY <1>7 DEF LoopError
    <3> HIDE DEF TypeInv, OnlyUsers, Users
    <3>3. \A s \in States : Waiting(s)' \subseteq Users
      BY <3>2, UsersQueue DEF OutcomeInv
    <3> QED BY <3>1, <3>3 DEF OutcomeInv, OnlyUsers
  <2>2. Reported' /\ Final
    <3>1. \A x \in Msgs \ {m} : pc'[x] = pc[x] /\ clean'[x] = clean[x]
      BY <1>7 DEF LoopError
    <3>2. /\ UNCHANGED depth
          /\ pc[m] = "loop" /\ pc'[m] = "drain"
      BY <1>7 DEF LoopError
    <3>3. ptr[m] \in States
      BY <1>7 DEF LoopError, Targeted
    <3>4. DropQueue(ptr[m], "dropped", cur[m], "error") \/ Tell(cur[m], "error")
      BY <1>7, Zenon DEF LoopError
    <3>5. \A x \in CompressCmds : told'[x] = told[x]
      <4>1. CASE Tell(cur[m], "error")
        BY <4>1
      <4>2. CASE DropQueue(ptr[m], "dropped", cur[m], "error")
        <5> HIDE DEF DropQueue, TypeInv, OnlyUsers
        <5> QED BY <3>3, <4>2, DropOutcomes DEF OutcomeInv, OnlyUsers
      <4> QED BY <3>4, <4>1, <4>2
    <3> HIDE DEF TypeInv, DropQueue, OnlyUsers
    <3> QED BY <3>1, <3>2, <3>5
  <2> QED BY <2>1, <2>2
<1>8. CASE LoopClosed(m)
  <2>1. OnlyUsers'
    BY <1>8 DEF LoopClosed, Waiting
  <2>2. Reported' /\ Final
    <3>1. \A x \in Msgs \ {m} : pc'[x] = pc[x] /\ clean'[x] = clean[x]
      BY <1>8 DEF LoopClosed
    <3>2. /\ UNCHANGED depth
          /\ pc'[m] = "clean" /\ pc[m] = "loop" /\ clean'[m].back = "drain"
      BY <1>8 DEF LoopClosed
    <3>3. ptr[m] \in States
      BY <1>8 DEF LoopClosed, Targeted
    <3>4. DropQueue(ptr[m], "dropped", cur[m], "cut")
      BY <1>8, Zenon DEF LoopClosed
    <3>5. \A x \in CompressCmds : told'[x] = told[x]
      <4> HIDE DEF DropQueue, TypeInv, OnlyUsers
      <4> QED BY <3>3, <3>4, DropOutcomes DEF OutcomeInv, OnlyUsers
    <3> HIDE DEF TypeInv, DropQueue, OnlyUsers
    <3> QED BY <3>1, <3>2, <3>5
  <2> QED BY <2>1, <2>2
<1>9. CASE LoopSendError(m)
  <2>1. OnlyUsers'
    BY <1>9 DEF LoopSendError, Waiting
  <2>2. Reported' /\ Final
    <3>1. \A x \in Msgs \ {m} : pc'[x] = pc[x] /\ clean'[x] = clean[x]
      BY <1>9 DEF LoopSendError
    <3>2. /\ UNCHANGED depth
          /\ pc[m] = "loop"
          /\ \/ pc'[m] = "drain"
             \/ pc'[m] = "clean" /\ clean'[m].back = "drain"
      BY <1>9 DEF LoopSendError
    <3>3. ptr[m] \in States
      BY <1>9 DEF LoopSendError, Targeted
    <3>4. DropQueue(ptr[m], "dropped", cur[m], "error")
      BY <1>9, Zenon DEF LoopSendError
    <3>5. \A x \in CompressCmds : told'[x] = told[x]
      <4> HIDE DEF DropQueue, TypeInv, OnlyUsers
      <4> QED BY <3>3, <3>4, DropOutcomes DEF OutcomeInv, OnlyUsers
    <3> HIDE DEF TypeInv, DropQueue, OnlyUsers
    <3> QED BY <3>1, <3>2, <3>5
  <2> QED BY <2>1, <2>2
<1>10. CASE LoopIdleTimeout(m)
  BY <1>10 DEF LoopIdleTimeout, Waiting
<1>11. CASE LoopMaxTurnTime(m)
  BY <1>11 DEF LoopMaxTurnTime, Waiting
<1>12. CASE TakeNext(m)
  <2>1. OnlyUsers'
    <3>1. /\ ptr[m] \in States /\ queue[ptr[m]] # <<>>
          /\ cur' = [cur EXCEPT ![m] = Head(queue[ptr[m]])]
          /\ queue' = [queue EXCEPT ![ptr[m]] = Tail(@)]
      BY <1>12 DEF TakeNext
    <3>2. Head(queue[ptr[m]]) \in Users
      BY <3>1, TailPlaces DEF Waiting
    <3>3. \A s \in States : \/ queue'[s] = queue[s]
                            \/ queue[s] # <<>> /\ queue'[s] = Tail(queue[s])
      BY <3>1
    <3>4. \A n \in Msgs : cur'[n] \in Users \cup {NoMsg}
      BY <3>1, <3>2
    <3> HIDE DEF TypeInv, OnlyUsers, Users
    <3>5. \A s \in States : Waiting(s)' \subseteq Users
      BY <3>3, UsersQueue DEF OutcomeInv
    <3> QED BY <3>4, <3>5 DEF OutcomeInv, OnlyUsers
  <2>2. Reported' /\ Final
    BY <1>12 DEF TakeNext
  <2> QED BY <2>1, <2>2
<1>13. CASE LeaveLoop(m)
  BY <1>13 DEF LeaveLoop, Waiting
<1>14. CASE AutoCompress(m)
  BY <1>14 DEF AutoCompress, Waiting
<1>15. CASE DrainEmpty(m)
  BY <1>15 DEF DrainEmpty, Waiting
<1>16. CASE DrainPop(m)
  <2>1. OnlyUsers'
    <3>1. /\ ptr[m] \in States /\ queue[ptr[m]] # <<>>
          /\ cur' = [cur EXCEPT ![m] = Head(queue[ptr[m]])]
          /\ queue' = [queue EXCEPT ![ptr[m]] = Tail(@)]
      BY <1>16 DEF DrainPop
    <3>2. Head(queue[ptr[m]]) \in Users
      BY <3>1, TailPlaces DEF Waiting
    <3>3. \A s \in States : \/ queue'[s] = queue[s]
                            \/ queue[s] # <<>> /\ queue'[s] = Tail(queue[s])
      BY <3>1
    <3>4. \A n \in Msgs : cur'[n] \in Users \cup {NoMsg}
      BY <3>1, <3>2
    <3> HIDE DEF TypeInv, OnlyUsers, Users
    <3>5. \A s \in States : Waiting(s)' \subseteq Users
      BY <3>3, UsersQueue DEF OutcomeInv
    <3> QED BY <3>4, <3>5 DEF OutcomeInv, OnlyUsers
  <2>2. Reported' /\ Final
    BY <1>16 DEF DrainPop
  <2> QED BY <2>1, <2>2
<1>17. CASE DrainCheck(m)
  <2>1. OnlyUsers'
    <3>1. UNCHANGED cur
      BY <1>17 DEF DrainCheck
    <3>2. \A s \in States : queue'[s] = queue[s] \/ queue'[s] = <<>>
      BY <1>17 DEF DrainCheck
    <3> HIDE DEF TypeInv, OnlyUsers, Users
    <3>3. \A s \in States : Waiting(s)' \subseteq Users
      BY <3>2, UsersQueue DEF OutcomeInv
    <3> QED BY <3>1, <3>3 DEF OutcomeInv, OnlyUsers
  <2>2. Reported' /\ Final
    <3>1. \A x \in Msgs \ {m} : pc'[x] = pc[x]
      BY <1>17 DEF DrainCheck
    <3>2. UNCHANGED <<depth, clean>> /\ pc[m] = "popped" /\ pc'[m] \in {"send", "unlock"}
      BY <1>17 DEF DrainCheck
    <3>3. ptr[m] \in States
      BY <1>17 DEF DrainCheck
    <3>4. UNCHANGED told \/ DropQueue(ptr[m], "dropped", cur[m], "error")
      BY <1>17, Zenon DEF DrainCheck
    <3>5. \A x \in CompressCmds : told'[x] = told[x]
      <4> HIDE DEF DropQueue, TypeInv, OnlyUsers
      <4> QED BY <3>3, <3>4, DropOutcomes DEF OutcomeInv, OnlyUsers
    <3> HIDE DEF TypeInv, DropQueue, OnlyUsers
    <3> QED BY <3>1, <3>2, <3>5
  <2> QED BY <2>1, <2>2
<1>18. CASE Unlock(m)
  <2>1. UNCHANGED <<queue, cur, told, clean>>
    BY <1>18 DEF Unlock
  <2>2. /\ pc'[m] \in {"done", "drain"}
        /\ \A x \in Msgs \ {m} : pc'[x] = pc[x] /\ depth'[x] = depth[x]
    BY <1>18 DEF Unlock, At
  <2>3. OnlyUsers'
    BY <2>1 DEF Waiting
  <2>4. Reported' /\ Final
    <3> HIDE DEF TypeInv, OnlyUsers, Users
    <3> QED BY <2>1, <2>2
  <2> QED BY <2>3, <2>4
<1> QED BY <1>1, <1>2, <1>3, <1>4, <1>5, <1>6, <1>7, <1>8, <1>9, <1>10, <1>11, <1>12, <1>13, <1>14, <1>15, <1>16, <1>17, <1>18

LEMMA CompressOutcomes ==
  ASSUME TypeInv, OutcomeInv, Targeted, NEW m \in Msgs,
         CompressPick(m) \/ CompressLock(m) \/ CompressSend(m)
         \/ CompressStopped(m) \/ CompressResult(m) \/ CompressError(m)
         \/ CompressFailed(m) \/ DropAll(m)
  PROVE  OutcomeInv' /\ Final
<1> USE BootIsState, TurnEngineAssumption DEF TypeInv, TypeOK, SharedTypes,
      StateTypes, QueueTypes, LocalTypes, PcTypes, ReportTypes, PointerOK,
      NoPointer, Cleaning, Goto, Tell, Cleanup, Release, CompressTell, StopTake,
      DropQueue, registry, sessVars, stateVars, locals, StateOrNone, Users,
      OutcomeInv, OnlyUsers, Reported, Final, Arriving
<1>1. CASE CompressPick(m)
  BY <1>1 DEF CompressPick, Waiting
<1>2. CASE CompressLock(m)
  BY <1>2 DEF CompressLock, Waiting
<1>3. CASE CompressSend(m)
  BY <1>3 DEF CompressSend, Waiting
<1>4. CASE CompressStopped(m)
  BY <1>4 DEF CompressStopped, Waiting
<1>5. CASE CompressResult(m)
  BY <1>5 DEF CompressResult, Waiting
<1>6. CASE CompressError(m)
  BY <1>6 DEF CompressError, Waiting
<1>7. CASE CompressFailed(m)
  BY <1>7 DEF CompressFailed, Waiting
<1>8. CASE DropAll(m)
  <2>1. OnlyUsers'
    BY <1>8 DEF DropAll, Waiting
  <2>2. Reported' /\ Final
    <3>1. \A x \in Msgs \ {m} : pc'[x] = pc[x] /\ clean'[x] = clean[x]
      BY <1>8 DEF DropAll
    <3>2. /\ UNCHANGED depth
          /\ pc'[m] = "unlock" /\ pc[m] = "dropall"
      BY <1>8 DEF DropAll
    <3>3. ptr[m] \in States
      BY <1>8 DEF DropAll, Targeted
    <3>4. DropQueue(ptr[m], "dropped", NoMsg, "none")
      BY <1>8, Zenon DEF DropAll
    <3>5. \A x \in CompressCmds : told'[x] = told[x]
      <4> HIDE DEF DropQueue, TypeInv, OnlyUsers
      <4> QED BY <3>3, <3>4, DropOutcomes DEF OutcomeInv, OnlyUsers
    <3> HIDE DEF TypeInv, DropQueue, OnlyUsers
    <3> QED BY <3>1, <3>2, <3>5
  <2> QED BY <2>1, <2>2
<1> QED BY <1>1, <1>2, <1>3, <1>4, <1>5, <1>6, <1>7, <1>8

LEMMA CleanupOutcomes ==
  ASSUME TypeInv, OutcomeInv, Targeted, NEW p \in Procs,
         CleanTake(p) \/ CleanQuiet(p) \/ CleanClose(p) \/ CleanDelete(p)
  PROVE  OutcomeInv' /\ Final
<1> USE BootIsState, TurnEngineAssumption DEF TypeInv, TypeOK, SharedTypes,
      StateTypes, QueueTypes, LocalTypes, PcTypes, ReportTypes, PointerOK,
      NoPointer, Cleaning, Goto, Tell, Cleanup, Release, CompressTell, StopTake,
      DropQueue, registry, sessVars, stateVars, locals, StateOrNone, Users,
      OutcomeInv, OnlyUsers, Reported, Final, Arriving
<1>1. CASE CleanTake(p)
  <2>1. OnlyUsers'
    BY <1>1 DEF CleanTake, Waiting
  <2>2. Reported' /\ Final
    <3>1. \A x \in Msgs \ {p} : pc'[x] = pc[x] /\ clean'[x] = clean[x]
      BY <1>1 DEF CleanTake
    <3>2. /\ UNCHANGED <<told, depth>> /\ pc[p] = "clean"
          /\ clean'[p].back = clean[p].back
          /\ pc'[p] \in {"delete", "quiet", clean[p].back}
      BY <1>1 DEF CleanTake
    <3>3. p \in Msgs => clean[p].back \in {"reset", "drain", "unlock", "dropall"}
      BY <3>2
    <3> HIDE DEF TypeInv, OnlyUsers
    <3> QED BY <3>1, <3>2, <3>3
  <2> QED BY <2>1, <2>2
<1>2. CASE CleanQuiet(p)
  <2>1. OnlyUsers'
    BY <1>2 DEF CleanQuiet, Waiting
  <2>2. Reported' /\ Final
    <3>1. \A x \in Msgs \ {p} : pc'[x] = pc[x] /\ clean'[x] = clean[x]
      BY <1>2 DEF CleanQuiet
    <3>2. /\ UNCHANGED depth
          /\ pc'[p] \in {"close", "delete"} /\ pc[p] = "quiet"
          /\ UNCHANGED clean
      BY <1>2 DEF CleanQuiet
    <3>3. clean[p].target \in States
      BY <1>2 DEF CleanQuiet, Targeted
    <3>4. DropQueue(clean[p].target, "dropped", NoMsg, "none")
      BY <1>2, Zenon DEF CleanQuiet
    <3>5. \A x \in CompressCmds : told'[x] = told[x]
      <4> HIDE DEF DropQueue, TypeInv, OnlyUsers
      <4> QED BY <3>3, <3>4, DropOutcomes DEF OutcomeInv, OnlyUsers
    <3> HIDE DEF TypeInv, DropQueue, OnlyUsers
    <3> QED BY <3>1, <3>2, <3>5
  <2> QED BY <2>1, <2>2
<1>3. CASE CleanClose(p)
  BY <1>3 DEF CleanClose, Waiting
<1>4. CASE CleanDelete(p)
  <2>1. OnlyUsers'
    BY <1>4 DEF CleanDelete, Waiting
  <2>2. Reported' /\ Final
    <3>1. \A x \in Msgs \ {p} : pc'[x] = pc[x]
      BY <1>4 DEF CleanDelete
    <3>2. /\ UNCHANGED <<told, depth, clean>> /\ pc[p] = "delete"
          /\ pc'[p] = clean[p].back
      BY <1>4 DEF CleanDelete
    <3>3. p \in Msgs => clean[p].back \in {"reset", "drain", "unlock", "dropall"}
      BY <3>2
    <3> HIDE DEF TypeInv, OnlyUsers
    <3> QED BY <3>1, <3>2, <3>3
  <2> QED BY <2>1, <2>2
<1> QED BY <1>1, <1>2, <1>3, <1>4

LEMMA CommandOutcomes ==
  ASSUME TypeInv, OutcomeInv, Targeted, NEW c \in Commands,
         CmdNew(c) \/ Rotate(c) \/ CmdStop(c) \/ StopNotify(c)
         \/ StopClose(c) \/ Unbind(c) \/ RecallCurrent(c) \/ RecallStop(c)
         \/ RecallCollect(c) \/ RecallQueued(c)
  PROVE  OutcomeInv' /\ Final
<1> USE BootIsState, TurnEngineAssumption DEF TypeInv, TypeOK, SharedTypes,
      StateTypes, QueueTypes, LocalTypes, PcTypes, ReportTypes, PointerOK,
      NoPointer, Cleaning, Goto, Tell, Cleanup, Release, CompressTell, StopTake,
      DropQueue, registry, sessVars, stateVars, locals, StateOrNone, Users,
      OutcomeInv, OnlyUsers, Reported, Final, Arriving
<1>1. CASE CmdNew(c)
  BY <1>1 DEF CmdNew, Waiting
<1>2. CASE Rotate(c)
  BY <1>2 DEF Rotate, Waiting
<1>3. CASE CmdStop(c)
  BY <1>3 DEF CmdStop, Waiting
<1>4. CASE StopNotify(c)
  <2>1. OnlyUsers'
    BY <1>4 DEF StopNotify, Waiting
  <2>2. Reported' /\ Final
    <3>1. \A x \in Msgs \ {c} : pc'[x] = pc[x] /\ clean'[x] = clean[x]
      BY <1>4 DEF StopNotify
    <3>2. /\ UNCHANGED depth
          /\ c \notin Msgs
      BY <1>4 DEF StopNotify
    <3>3. clean[c].target \in States
      BY <1>4 DEF StopNotify, Targeted
    <3> DEFINE what == IF clean[c].back = "unbind" THEN "dropped" ELSE "silenced"
    <3>4. DropQueue(clean[c].target, what, NoMsg, "none")
      BY <1>4, Zenon DEF StopNotify
    <3> HIDE DEF what
    <3>5. \A x \in CompressCmds : told'[x] = told[x]
      <4> HIDE DEF DropQueue, TypeInv, OnlyUsers
      <4> QED BY <3>3, <3>4, DropOutcomes DEF OutcomeInv, OnlyUsers
    <3> HIDE DEF TypeInv, DropQueue, OnlyUsers
    <3> QED BY <3>1, <3>2, <3>5
  <2> QED BY <2>1, <2>2
<1>5. CASE StopClose(c)
  BY <1>5 DEF StopClose, Waiting
<1>6. CASE Unbind(c)
  BY <1>6 DEF Unbind, Waiting
<1>7. CASE RecallCurrent(c)
  BY <1>7 DEF RecallCurrent, Waiting
<1>8. CASE RecallStop(c)
  BY <1>8 DEF RecallStop, Waiting
<1>9. CASE RecallCollect(c)
  BY <1>9 DEF RecallCollect, Waiting
<1>10. CASE RecallQueued(c)
  <2>1. OnlyUsers'
    <3>1. ptr[c] \in States /\ UNCHANGED cur
      BY <1>10 DEF RecallQueued
    <3>2. \/ UNCHANGED queue
          \/ \E i \in DOMAIN queue[ptr[c]] :
               queue' = [queue EXCEPT ![ptr[c]] = Without(queue[ptr[c]], i)]
      BY <1>10, Zenon DEF RecallQueued, Without
    <3>3. \A s \in States : \/ queue'[s] = queue[s]
                            \/ \E i \in DOMAIN queue[s] : queue'[s] = Without(queue[s], i)
      BY <3>1, <3>2
    <3> HIDE DEF TypeInv, OnlyUsers, Users
    <3>4. \A s \in States : Waiting(s)' \subseteq Users
      BY <3>3, UsersQueue DEF OutcomeInv
    <3> QED BY <3>1, <3>4 DEF OutcomeInv, OnlyUsers
  <2>2. Reported' /\ Final
    <3>1. ptr[c] \in States /\ c \notin Msgs /\ UNCHANGED <<clean, depth>>
      BY <1>10 DEF RecallQueued
    <3>2. \A x \in Msgs : pc'[x] = pc[x]
      BY <1>10, <3>1 DEF RecallQueued
    <3>3. UNCHANGED told \/ \E x \in Waiting(ptr[c]) : Tell(x, "recalled")
      <4>1. \/ UNCHANGED told
            \/ \E i \in DOMAIN queue[ptr[c]] : Tell(queue[ptr[c]][i], "recalled")
        BY <1>10, Zenon DEF RecallQueued
      <4> HIDE DEF Tell
      <4> QED BY <4>1 DEF Waiting
    <3>4. \A x \in CompressCmds : told'[x] = told[x]
      BY <3>1, <3>3
    <3> QED BY <3>2, <3>1, <3>4
  <2> QED BY <2>1, <2>2
<1> QED BY <1>1, <1>2, <1>3, <1>4, <1>5, <1>6, <1>7, <1>8, <1>9, <1>10

LEMMA OutcomeInit == Init => OutcomeInv
<1> SUFFICES ASSUME Init PROVE OutcomeInv
  OBVIOUS
<1>1. \A s \in States : Waiting(s) = {}
  BY DEF Init, Waiting
<1> QED BY <1>1, TurnEngineAssumption DEF Init, OutcomeInv, OnlyUsers, Reported, Arriving, Cleaning

LEMMA OutcomeNext ==
  ASSUME TypeInv, PlaceInv, OutcomeInv, [Next]_vars
  PROVE  OutcomeInv' /\ Final
<1>0. Targeted
  BY DEF PlaceInv
<1>1. ASSUME NEW m \in Msgs, Arrival(m) \/ Handler(m) \/ Turn(m) \/ Compress(m)
      PROVE  OutcomeInv' /\ Final
  BY <1>0, <1>1, HandlerOutcomes, TurnOutcomes, CompressOutcomes
  DEF Arrival, Handler, Turn, Compress
<1>2. ASSUME NEW p \in Procs, CleanupStep(p) PROVE OutcomeInv' /\ Final
  BY <1>0, <1>2, CleanupOutcomes DEF CleanupStep
<1>3. ASSUME NEW c \in Commands, Command(c) PROVE OutcomeInv' /\ Final
  BY <1>0, <1>3, CommandOutcomes DEF Command
<1>4. ASSUME UNCHANGED <<queue, cur, pc, depth, clean, told>>
      PROVE  OutcomeInv' /\ Final
  BY <1>4 DEF OutcomeInv, OnlyUsers, Reported, Final, Waiting
<1> QED BY <1>1, <1>2, <1>3, <1>4 DEF Next, Finished, Panic, AgentExit, vars,
      registry, stateVars, locals

LEMMA ToldFinal ==
  ASSUME TypeInv, PlaceInv, OutcomeInv, [Next]_vars
  PROVE  \A m \in Msgs : told[m] # "none" => told'[m] = told[m]
<1>1. Final
  BY OutcomeNext
<1>2. Settled
  <2>1. CASE \E g \in Procs : PlaceStep(g)
    BY <2>1, SettledStep
  <2>2. CASE \E m \in Msgs : CmdCompress(m)
    BY <2>2, CompressAside DEF Settled, Stays
  <2>3. CASE UNCHANGED told
    BY <2>3 DEF Settled
  <2> QED BY <2>1, <2>2, <2>3, NextPlaces
<1> QED BY <1>1, <1>2 DEF Final, Settled, Users

\* Nobody is told twice: once the sender of a message or of a /compress has an
\* answer, an error or a notice, no other path of the engine reports on it.
THEOREM OutcomesFinal == Spec => ToldOnce
<1>1. TypeInv /\ PlaceInv /\ OutcomeInv /\ [Next]_vars =>
        [\A m \in Msgs : told[m] # "none" => told'[m] = told[m]]_vars
  BY ToldFinal
<1>2. TypeInv /\ PlaceInv /\ OutcomeInv /\ [Next]_vars =>
        TypeInv' /\ PlaceInv' /\ OutcomeInv'
  BY TypeNext, PlaceNext, OutcomeNext
<1> QED BY <1>1, <1>2, TypeInit, PlaceInit, OutcomeInit, PTL DEF Spec, ToldOnce

-----------------------------------------------------------------------------
(* The service of an agent that lives *)

\* An agent is up and stays up: no commands, and it only reports errors.
Undisturbed ==
  PlainTurns /\ Warm /\ CmdKinds = {} /\ Faults \subseteq {"error", "start", "resume"}

\* The labels that are left ...
SteadyLabels ==
  {"idle", "picked", "lookup", "append", "retry", "locked", "ensure", "start",
   "check", "send", "loop", "replied", "drain", "popped", "orphan", "cpick",
   "clock", "compress", "cloop", "done"}

\* ... where everybody works on one Session with one state.
Steady ==
  /\ entry = Boot /\ active = Session0 /\ bound[Session0] = Boot
  /\ hasAgent[Boot] /\ proc[Boot] = "running" /\ ~stopped[Boot]
  /\ \A s \in States : proc[s] # "closing"
  /\ agentId[Boot] = Boot
  /\ \A m \in Msgs : pc[m] \in SteadyLabels /\ sess[m] = Session0
                     /\ ptr[m] \in {NoState, Boot}
  /\ \A c \in Commands : pc[c] = "idle"
  /\ ~panicked
  /\ \A s \in States \ {Boot} : queue[s] = <<>>

\* Who is acknowledged looks at the lock once more, or somebody has it.
Awaited ==
  queue[Boot] # <<>> => busy[Session0] \/ \E m \in Msgs : pc[m] = "retry"

ServeInv == Steady /\ Awaited

LEMMA ServeInit ==
  ASSUME Undisturbed, Init
  PROVE  ServeInv
BY BootIsState, TurnEngineAssumption
DEF Undisturbed, Init, ServeInv, Steady, Awaited, SteadyLabels

\* A goroutine that needs a state has the one of the living agent.
LEMMA SteadyFacts ==
  ASSUME TypeInv, Steady, NEW m \in Msgs
  PROVE  /\ pc[m] \notin NoPointer => ptr[m] = Boot
         /\ entry = Boot /\ Boot \in States /\ Boot # NoState /\ Alive(Boot) /\ Matches(m)
         /\ ~stopped[Boot] /\ hasAgent[Boot] /\ proc[Boot] = "running"
         /\ pc[m] \in SteadyLabels /\ m \in Procs
<1>1. Boot \in States /\ NoState \notin States
  BY BootIsState
<1>2. pc[m] \notin NoPointer => ptr[m] = Boot
  BY <1>1 DEF Steady, SteadyLabels, TypeInv, PointerOK, Cleaning
<1>3. Matches(m)
  BY <1>1 DEF Steady, Matches
<1> QED BY <1>1, <1>2, <1>3 DEF Steady, Alive, Up

\* A step that goes on with the same Session and state.
Steers(m) ==
  /\ \E l \in SteadyLabels : Goto(m, l)
  /\ UNCHANGED <<entry, active, hasAgent, proc, stopped>>
  /\ bound'[Session0] = Boot /\ agentId'[Boot] = Boot
  /\ \A x \in Msgs : sess'[x] = Session0 /\ ptr'[x] \in {NoState, Boot}
  /\ \A s \in States \ {Boot} : queue'[s] = <<>>

LEMMA SteadyMoves ==
  ASSUME TypeInv, Steady, NEW m \in Msgs, Steers(m)
  PROVE  Steady'
<1>0. PICK l \in SteadyLabels : Goto(m, l)
  BY DEF Steers
<1>1. pc' = [pc EXCEPT ![m] = l] /\ pc \in [Procs -> Labels] /\ UNCHANGED panicked
  BY <1>0 DEF Goto, TypeInv, TypeOK, PcTypes
<1>2. /\ \A x \in Msgs : pc'[x] \in SteadyLabels
      /\ \A c \in Commands : pc'[c] = "idle"
  BY <1>1, TurnEngineAssumption DEF Steady
<1> QED BY <1>1, <1>2 DEF Steady, Steers

LEMMA HandlerSteers ==
  ASSUME Undisturbed, TypeInv, Steady, NEW m \in Msgs,
         Arrive(m) \/ CmdCompress(m) \/ TryLock(m) \/ Lookup(m)
         \/ QueueMessage(m) \/ Retry(m) \/ KeepSession(m) \/ EnsureState(m)
         \/ DrainOrphaned(m)
  PROVE  Steers(m)
<1>0. /\ pc[m] \notin NoPointer => ptr[m] = Boot
      /\ entry = Boot /\ Boot \in States /\ Boot # NoState /\ Alive(Boot)
      /\ ~stopped[Boot] /\ hasAgent[Boot] /\ proc[Boot] = "running"
  BY SteadyFacts
<1>a. /\ bound[Session0] = Boot /\ agentId[Boot] = Boot /\ active = Session0
      /\ \A x \in Msgs : sess[x] = Session0 /\ ptr[x] \in {NoState, Boot}
      /\ \A s \in States \ {Boot} : queue[s] = <<>>
      /\ queue \in [States -> Seq(Msgs)] /\ ptr \in [Procs -> StateOrNone]
      /\ sess \in [Procs -> Sessions] /\ bound \in [Sessions -> StateOrNone]
      /\ agentId \in [States -> StateOrNone]
  BY DEF Steady, TypeInv, TypeOK, LocalTypes, SharedTypes, QueueTypes, StateTypes
<1> USE DEF Steers, SteadyLabels, NoPointer, registry, sessVars, stateVars, locals
<1>1. CASE Arrive(m)
  BY <1>0, <1>a, <1>1 DEF Arrive
<1>2. CASE CmdCompress(m)
  BY <1>0, <1>a, <1>2 DEF CmdCompress
<1>3. CASE TryLock(m)
  BY <1>0, <1>a, <1>3 DEF TryLock
<1>4. CASE Lookup(m)
  BY <1>0, <1>a, <1>4 DEF Lookup
<1>5. CASE QueueMessage(m)
  BY <1>0, <1>a, <1>5 DEF QueueMessage
<1>6. CASE Retry(m)
  BY <1>0, <1>a, <1>6 DEF Retry
<1>7. CASE KeepSession(m)
  BY <1>0, <1>a, <1>7 DEF KeepSession
<1>8. CASE EnsureState(m)
  BY <1>0, <1>a, <1>8 DEF EnsureState
<1>9. CASE DrainOrphaned(m)
  BY <1>0, <1>a, <1>9 DEF DrainOrphaned
<1> QED BY <1>1, <1>2, <1>3, <1>4, <1>5, <1>6, <1>7, <1>8, <1>9

LEMMA TurnSteers ==
  ASSUME Undisturbed, TypeInv, MutexInv, Steady, NEW m \in Msgs,
         ReuseState(m) \/ CheckAgent(m) \/ Send(m) \/ LoopResult(m)
         \/ LoopError(m) \/ TakeNext(m) \/ LeaveLoop(m) \/ DrainEmpty(m)
         \/ DrainPop(m) \/ DrainCheck(m)
  PROVE  Steers(m)
<1>0. /\ pc[m] \notin NoPointer => ptr[m] = Boot
      /\ entry = Boot /\ Boot \in States /\ Boot # NoState /\ Alive(Boot)
      /\ ~stopped[Boot] /\ hasAgent[Boot] /\ proc[Boot] = "running"
  BY SteadyFacts
<1>a. /\ bound[Session0] = Boot /\ agentId[Boot] = Boot /\ active = Session0
      /\ \A x \in Msgs : sess[x] = Session0 /\ ptr[x] \in {NoState, Boot}
      /\ \A s \in States \ {Boot} : queue[s] = <<>>
      /\ queue \in [States -> Seq(Msgs)] /\ ptr \in [Procs -> StateOrNone]
      /\ sess \in [Procs -> Sessions] /\ bound \in [Sessions -> StateOrNone]
      /\ agentId \in [States -> StateOrNone]
  BY DEF Steady, TypeInv, TypeOK, LocalTypes, SharedTypes, QueueTypes, StateTypes
<1> USE DEF Steers, SteadyLabels, NoPointer, registry, sessVars, stateVars, locals
<1>1. CASE ReuseState(m)
  BY <1>0, <1>a, <1>1 DEF ReuseState
<1>2. CASE CheckAgent(m)
  BY <1>0, <1>a, <1>2 DEF CheckAgent
<1>3. CASE Send(m)
  BY <1>0, <1>a, <1>3 DEF Send
<1>4. CASE LoopResult(m)
  BY <1>0, <1>a, <1>4 DEF LoopResult
<1>5. CASE LoopError(m)
  BY <1>0, <1>a, <1>5 DEF LoopError
<1>6. CASE TakeNext(m)
  BY <1>0, <1>a, <1>6 DEF TakeNext
<1>7. CASE LeaveLoop(m)
  BY <1>0, <1>a, <1>7 DEF LeaveLoop
<1>8. CASE DrainEmpty(m)
  BY <1>0, <1>a, <1>8 DEF DrainEmpty, Release, MutexInv
<1>9. CASE DrainPop(m)
  BY <1>0, <1>a, <1>9 DEF DrainPop
<1>10. CASE DrainCheck(m)
  BY <1>0, <1>a, <1>10 DEF DrainCheck
<1> QED BY <1>1, <1>2, <1>3, <1>4, <1>5, <1>6, <1>7, <1>8, <1>9, <1>10

LEMMA CompressSteers ==
  ASSUME Undisturbed, TypeInv, Steady, NEW m \in Msgs,
         CompressPick(m) \/ CompressLock(m) \/ CompressSend(m)
         \/ CompressResult(m) \/ CompressError(m)
  PROVE  Steers(m)
<1>0. /\ pc[m] \notin NoPointer => ptr[m] = Boot
      /\ entry = Boot /\ Boot \in States /\ Boot # NoState /\ Alive(Boot)
      /\ ~stopped[Boot] /\ hasAgent[Boot] /\ proc[Boot] = "running"
  BY SteadyFacts
<1>a. /\ bound[Session0] = Boot /\ agentId[Boot] = Boot /\ active = Session0
      /\ \A x \in Msgs : sess[x] = Session0 /\ ptr[x] \in {NoState, Boot}
      /\ \A s \in States \ {Boot} : queue[s] = <<>>
      /\ queue \in [States -> Seq(Msgs)] /\ ptr \in [Procs -> StateOrNone]
      /\ sess \in [Procs -> Sessions] /\ bound \in [Sessions -> StateOrNone]
      /\ agentId \in [States -> StateOrNone]
  BY DEF Steady, TypeInv, TypeOK, LocalTypes, SharedTypes, QueueTypes, StateTypes
<1> USE DEF Steers, SteadyLabels, NoPointer, registry, sessVars, stateVars, locals
<1>1. CASE CompressPick(m)
  BY <1>0, <1>a, <1>1 DEF CompressPick
<1>2. CASE CompressLock(m)
  BY <1>0, <1>a, <1>2 DEF CompressLock
<1>3. CASE CompressSend(m)
  BY <1>0, <1>a, <1>3 DEF CompressSend, Deaf, Undisturbed
<1>4. CASE CompressResult(m)
  BY <1>0, <1>a, <1>4 DEF CompressResult
<1>5. CASE CompressError(m)
  BY <1>0, <1>a, <1>5 DEF CompressError
<1> QED BY <1>1, <1>2, <1>3, <1>4, <1>5

\* The others cannot happen.
LEMMA SteadyOnly ==
  ASSUME Undisturbed, TypeInv, Steady, NEW m \in Msgs
  PROVE  ~(StartIdleReset(m) \/ UnlockOldSession(m) \/ NewSession(m)
           \/ LockNewSession(m) \/ CreateState(m) \/ LoopStopped(m)
           \/ LoopClosed(m) \/ LoopSendError(m) \/ LoopIdleTimeout(m)
           \/ LoopMaxTurnTime(m) \/ AutoCompress(m) \/ Unlock(m)
           \/ CompressStopped(m) \/ CompressFailed(m) \/ DropAll(m)
           \/ Panic(m))
<1>0. /\ pc[m] \notin NoPointer => ptr[m] = Boot
      /\ entry = Boot /\ Boot # NoState /\ Alive(Boot) /\ Matches(m)
      /\ ~stopped[Boot] /\ hasAgent[Boot] /\ proc[Boot] = "running"
      /\ pc[m] \in SteadyLabels
  BY SteadyFacts
<1>u. /\ ~IdleReset /\ MaxAutoCompress = 0 /\ Faults \subseteq {"error", "start", "resume"}
      /\ triggers = 0
  BY DEF Undisturbed, PlainTurns, TypeInv, TypeOK, ReportTypes
<1>1. ~StartIdleReset(m)
  BY <1>0, <1>u DEF StartIdleReset, SteadyLabels, NoPointer
<1>2. ~UnlockOldSession(m)
  BY <1>0, <1>u DEF UnlockOldSession, SteadyLabels, NoPointer
<1>3. ~NewSession(m)
  BY <1>0, <1>u DEF NewSession, SteadyLabels, NoPointer
<1>4. ~LockNewSession(m)
  BY <1>0, <1>u DEF LockNewSession, SteadyLabels, NoPointer
<1>5. ~CreateState(m)
  BY <1>0, <1>u DEF CreateState, SteadyLabels, NoPointer
<1>6. ~LoopStopped(m)
  BY <1>0, <1>u DEF LoopStopped, SteadyLabels, NoPointer
<1>7. ~LoopClosed(m)
  BY <1>0, <1>u DEF LoopClosed, SteadyLabels, NoPointer
<1>8. ~LoopSendError(m)
  BY <1>0, <1>u DEF LoopSendError, Deaf, SteadyLabels, NoPointer
<1>9. ~LoopIdleTimeout(m)
  BY <1>0, <1>u DEF LoopIdleTimeout, SteadyLabels, NoPointer
<1>10. ~LoopMaxTurnTime(m)
  BY <1>0, <1>u DEF LoopMaxTurnTime, SteadyLabels, NoPointer
<1>11. ~AutoCompress(m)
  BY <1>0, <1>u DEF AutoCompress, SteadyLabels, NoPointer
<1>12. ~Unlock(m)
  BY <1>0, <1>u DEF Unlock, SteadyLabels, NoPointer
<1>13. ~CompressStopped(m)
  BY <1>0, <1>u DEF CompressStopped, SteadyLabels, NoPointer
<1>14. ~CompressFailed(m)
  BY <1>0, <1>u DEF CompressFailed, SteadyLabels, NoPointer
<1>15. ~DropAll(m)
  BY <1>0, <1>u DEF DropAll, SteadyLabels, NoPointer
<1>16. ~Panic(m)
  BY <1>0, <1>u DEF Panic, SteadyLabels, NoPointer
<1> QED BY <1>1, <1>2, <1>3, <1>4, <1>5, <1>6, <1>7, <1>8, <1>9, <1>10, <1>11, <1>12, <1>13, <1>14, <1>15, <1>16

LEMMA SteadyCleanup ==
  ASSUME Undisturbed, TypeInv, Steady, NEW p \in Procs
  PROVE  ~CleanupStep(p)
BY DEF Steady, SteadyLabels, CleanupStep, CleanTake, CleanQuiet, CleanClose, CleanDelete

LEMMA SteadyCommands ==
  ASSUME Undisturbed, TypeInv, Steady, NEW c \in Commands
  PROVE  ~Command(c)
BY DEF Undisturbed, Steady, Command, CmdNew, Rotate, CmdStop, StopNotify, StopClose,
       Unbind, RecallCurrent, RecallStop, RecallCollect, RecallQueued

\* The steps that are left.
Taking(m) ==
  \/ Arrive(m) \/ CmdCompress(m) \/ TryLock(m) \/ Lookup(m) \/ QueueMessage(m)
  \/ Retry(m) \/ KeepSession(m) \/ EnsureState(m) \/ DrainOrphaned(m)
Serving(m) ==
  \/ ReuseState(m) \/ CheckAgent(m) \/ Send(m) \/ LoopResult(m) \/ LoopError(m)
  \/ TakeNext(m) \/ LeaveLoop(m) \/ DrainEmpty(m) \/ DrainPop(m) \/ DrainCheck(m)
Compacting(m) ==
  \/ CompressPick(m) \/ CompressLock(m) \/ CompressSend(m) \/ CompressResult(m)
  \/ CompressError(m)

LEMMA SteadyActions ==
  ASSUME Undisturbed, TypeInv, Steady, [Next]_vars
  PROVE  \/ \E m \in Msgs : Taking(m) \/ Serving(m) \/ Compacting(m)
         \/ UNCHANGED vars
<1>1. ASSUME NEW m \in Msgs,
             Arrival(m) \/ Handler(m) \/ Turn(m) \/ Compress(m) \/ Panic(m)
      PROVE  Taking(m) \/ Serving(m) \/ Compacting(m)
  BY <1>1, SteadyOnly
  DEF Arrival, Handler, Turn, Compress, Taking, Serving, Compacting
<1>2. ASSUME NEW s \in States, AgentExit(s) PROVE FALSE
  BY <1>2 DEF AgentExit, Undisturbed, Steady
<1> QED BY <1>1, <1>2, SteadyCleanup, SteadyCommands DEF Next, Finished

LEMMA SteadyNext ==
  ASSUME Undisturbed, TypeInv, MutexInv, Steady, [Next]_vars
  PROVE  Steady'
<1>1. ASSUME NEW m \in Msgs, Taking(m) PROVE Steady'
  BY <1>1, HandlerSteers, SteadyMoves DEF Taking
<1>2. ASSUME NEW m \in Msgs, Serving(m) PROVE Steady'
  BY <1>2, TurnSteers, SteadyMoves DEF Serving
<1>3. ASSUME NEW m \in Msgs, Compacting(m) PROVE Steady'
  BY <1>3, CompressSteers, SteadyMoves DEF Compacting
<1>4. CASE UNCHANGED vars
  BY <1>4 DEF vars, registry, sessVars, stateVars, locals, Steady
<1> QED BY <1>1, <1>2, <1>3, <1>4, SteadyActions

\* Who queues a message will retry; who retries finds the lock taken or takes
\* it; who gives it back has seen an empty queue.
Attentive(m) ==
  /\ \A x \in Msgs \ {m} : pc'[x] = pc[x]
  /\ queue'[Boot] # <<>> => queue[Boot] # <<>> \/ pc'[m] = "retry"
  /\ busy[Session0] => busy'[Session0] \/ queue'[Boot] = <<>>
  /\ pc[m] = "retry" => busy'[Session0]

LEMMA AttentiveAwaited ==
  ASSUME Awaited, NEW m \in Msgs, Attentive(m)
  PROVE  Awaited'
BY DEF Attentive, Awaited

LEMMA AllAttentive ==
  ASSUME TypeInv, Steady, NEW m \in Msgs, Taking(m) \/ Serving(m) \/ Compacting(m)
  PROVE  Attentive(m)
<1>0. /\ pc[m] \notin NoPointer => ptr[m] = Boot
      /\ entry = Boot /\ Boot \in States /\ Boot # NoState /\ Alive(Boot)
      /\ sess[m] = Session0 /\ Session0 \in Sessions
  BY SteadyFacts DEF Steady
<1>a. /\ pc \in [Procs -> Labels] /\ busy \in [Sessions -> BOOLEAN]
      /\ queue \in [States -> Seq(Msgs)]
  BY DEF TypeInv, TypeOK, PcTypes, SharedTypes, QueueTypes
<1> USE DEF Attentive, Goto, NoPointer, sessVars, stateVars
<1>1. CASE Arrive(m)
  BY <1>0, <1>a, <1>1 DEF Arrive
<1>2. CASE CmdCompress(m)
  BY <1>0, <1>a, <1>2 DEF CmdCompress
<1>3. CASE TryLock(m)
  BY <1>0, <1>a, <1>3 DEF TryLock
<1>4. CASE Lookup(m)
  BY <1>0, <1>a, <1>4 DEF Lookup
<1>5. CASE QueueMessage(m)
  BY <1>0, <1>a, <1>5 DEF QueueMessage
<1>6. CASE Retry(m)
  BY <1>0, <1>a, <1>6 DEF Retry
<1>7. CASE KeepSession(m)
  BY <1>0, <1>a, <1>7 DEF KeepSession
<1>8. CASE EnsureState(m)
  BY <1>0, <1>a, <1>8 DEF EnsureState
<1>9. CASE DrainOrphaned(m)
  BY <1>0, <1>a, <1>9 DEF DrainOrphaned
<1>10. CASE ReuseState(m)
  BY <1>0, <1>a, <1>10 DEF ReuseState
<1>11. CASE CheckAgent(m)
  BY <1>0, <1>a, <1>11 DEF CheckAgent
<1>12. CASE Send(m)
  BY <1>0, <1>a, <1>12 DEF Send
<1>13. CASE LoopResult(m)
  BY <1>0, <1>a, <1>13 DEF LoopResult
<1>14. CASE LoopError(m)
  BY <1>0, <1>a, <1>14 DEF LoopError
<1>15. CASE TakeNext(m)
  BY <1>0, <1>a, <1>15 DEF TakeNext
<1>16. CASE LeaveLoop(m)
  BY <1>0, <1>a, <1>16 DEF LeaveLoop
<1>17. CASE DrainEmpty(m)
  BY <1>0, <1>a, <1>17 DEF DrainEmpty, Release
<1>18. CASE DrainPop(m)
  BY <1>0, <1>a, <1>18 DEF DrainPop
<1>19. CASE DrainCheck(m)
  BY <1>0, <1>a, <1>19 DEF DrainCheck
<1>20. CASE CompressPick(m)
  BY <1>0, <1>a, <1>20 DEF CompressPick
<1>21. CASE CompressLock(m)
  BY <1>0, <1>a, <1>21 DEF CompressLock
<1>22. CASE CompressSend(m)
  BY <1>0, <1>a, <1>22 DEF CompressSend, Cleanup
<1>23. CASE CompressResult(m)
  BY <1>0, <1>a, <1>23 DEF CompressResult
<1>24. CASE CompressError(m)
  BY <1>0, <1>a, <1>24 DEF CompressError
<1> QED
  BY <1>1, <1>2, <1>3, <1>4, <1>5, <1>6, <1>7, <1>8, <1>9, <1>10, <1>11, <1>12, <1>13, <1>14, <1>15, <1>16, <1>17, <1>18, <1>19, <1>20, <1>21, <1>22, <1>23, <1>24
  DEF Taking, Serving, Compacting

LEMMA ServeNext ==
  ASSUME Undisturbed, TypeInv, MutexInv, ServeInv, [Next]_vars
  PROVE  ServeInv'
<1>1. Steady' 
  BY SteadyNext DEF ServeInv
<1>2. Awaited'
  <2>1. CASE UNCHANGED vars
    BY <2>1 DEF vars, sessVars, stateVars, ServeInv, Awaited
  <2> QED BY <2>1, SteadyActions, AllAttentive, AttentiveAwaited DEF ServeInv
<1> QED BY <1>1, <1>2 DEF ServeInv

\* The holder of the lock serves the living agent's queue.
LEMMA HolderServes ==
  ASSUME TypeInv, MutexInv, ServeInv
  PROVE  QueueServed
<1> SUFFICES ASSUME NEW s \in States, queue[s] # <<>>
             PROVE  Servers(s) # {}
  BY DEF QueueServed
<1>1. s = Boot /\ entry = Boot
  BY DEF ServeInv, Steady
<1>2. CASE \E m \in Msgs : pc[m] = "retry"
  BY <1>2 DEF Servers
<1>3. CASE busy[Session0]
  <2>1. PICK m \in Msgs : Holds(m, Session0)
    BY <1>3 DEF MutexInv
  <2>2. pc[m] \in Holding /\ pc[m] \in SteadyLabels
    BY <2>1 DEF Holds, ServeInv, Steady
  <2>3. pc[m] \notin NoPointer => ptr[m] = Boot
    BY SteadyFacts DEF ServeInv
  <2>4. m \in Servers(s)
    BY <1>1, <2>2, <2>3
    DEF Servers, Holding, TurnHolds, Cleaning, SteadyLabels, NoPointer
  <2> QED BY <2>4
<1> QED BY <1>1, <1>2, <1>3 DEF ServeInv, Awaited

\* With an agent that lives, no acknowledged message is left behind, for any
\* number of messages and /compress commands: the race guard of handleMessage
\* and the unlock under state.mu of drainPendingMessages close every gap.
THEOREM ServiceQueueServed ==
  ASSUME Undisturbed
  PROVE  Spec => []QueueServed
<1>1. PlainTurns
  BY DEF Undisturbed
<1>2. TypeInv /\ MutexInv /\ ServeInv => QueueServed
  BY HolderServes
<1>3. TypeInv /\ MutexInv /\ ServeInv /\ [Next]_vars =>
        TypeInv' /\ MutexInv' /\ ServeInv'
  BY <1>1, TypeNext, MutexNext, ServeNext
<1>4. Init => TypeInv /\ MutexInv /\ ServeInv
  BY TypeInit, MutexInit, ServeInit
<1> QED BY <1>2, <1>3, <1>4, PTL DEF Spec

-----------------------------------------------------------------------------
(* With an agent that lives the engine is the service SerialTurns *)

Newcomer == {"picked", "lookup", "append"}

\* All waiting messages are in the queue of the living agent.
LEMMA PhaseNow ==
  ASSUME TypeInv, Steady, NEW x \in Users
  PROVE  Phase(x) = IF pc[x] = "idle" THEN "new"
                    ELSE IF told[x] # "none" THEN "finished"
                    ELSE IF x \in Waiting(Boot) THEN "waiting"
                    ELSE IF pc[x] \in Newcomer THEN "new" ELSE "running"
<1>1. QueuedIn(x) # {} <=> x \in Waiting(Boot)
  BY BootIsState DEF QueuedIn, Waiting, Steady
<1> QED BY <1>1 DEF Phase, Newcomer

LEMMA PhaseNext ==
  ASSUME Steady', NEW x \in Users
  PROVE  Phase(x)' = IF pc'[x] = "idle" THEN "new"
                     ELSE IF told'[x] # "none" THEN "finished"
                     ELSE IF x \in Waiting(Boot)' THEN "waiting"
                     ELSE IF pc'[x] \in Newcomer THEN "new" ELSE "running"
<1>1. QueuedIn(x)' # {} <=> x \in Waiting(Boot)'
  BY BootIsState DEF QueuedIn, Waiting, Steady
<1> QED BY <1>1 DEF Phase, Newcomer

\* A message in a hand is a newcomer's own, or it runs.
LEMMA HandPhase ==
  ASSUME TypeInv, PlaceInv, Steady, NEW x \in Users, NEW g \in Msgs, InHand(g, x)
  PROVE  /\ pc[x] # "idle" /\ told[x] = "none" /\ x \notin Waiting(Boot)
         /\ pc[g] \in Answering => pc[x] \notin Newcomer
         /\ Phase(x) = IF pc[x] \in Newcomer THEN "new" ELSE "running"
<1>1. x \in Msgs
  BY DEF Users
<1>2. Placed(x)
  BY DEF PlaceInv
<1>3. OnlyHand(x, g) /\ pc[x] # "idle" /\ told[x] = "none"
  BY <1>2 DEF Placed, Nowhere, OnlyHand, OnlyQueue
<1>4. x \notin Waiting(Boot)
  BY <1>3, BootIsState DEF OnlyHand
<1>5. pc[x] \in Newcomer => g = x
  BY <1>1, <1>3 DEF OnlyHand, InHand, Arriving, Newcomer
<1> QED BY <1>3, <1>4, <1>5, PhaseNow DEF Answering, Newcomer

\* What runs is in the hand of a goroutine that holds the lock.
LEMMA RunningHeld ==
  ASSUME TypeInv, PlaceInv, Steady, NEW x \in Users, Phase(x) = "running"
  PROVE  \E g \in Msgs : pc[g] \in Holding /\ InHand(g, x)
<1>1. pc[x] # "idle" /\ told[x] = "none" /\ x \notin Waiting(Boot)
      /\ pc[x] \notin Newcomer
  BY PhaseNow
<1>2. \A s \in States : x \notin Waiting(s)
  BY <1>1 DEF Steady, Waiting
<1>3. PICK g \in Msgs : OnlyHand(x, g)
  BY <1>1, <1>2 DEF PlaceInv, Placed, OnlyQueue
<1>4. InHand(g, x)
  BY <1>3 DEF OnlyHand
<1>5. pc[g] \in Holding
  BY <1>1, <1>4 DEF InHand, Answering, Arriving, Newcomer, Cleaning, Steady,
     SteadyLabels, Holding, TurnHolds
<1> QED BY <1>4, <1>5

\* The lock is free, or its holder has nothing in hand: the service is idle.
LEMMA NobodyRuns ==
  ASSUME TypeInv, MutexInv, PlaceInv, Steady,
         \/ ~busy[Session0]
         \/ \E g \in Msgs : pc[g] \in {"drain", "replied"}
  PROVE  Service!Idle
<1> SUFFICES ASSUME NEW x \in Users, Phase(x) = "running" PROVE FALSE
  BY DEF Service!Idle
<1>1. PICK h \in Msgs : pc[h] \in Holding /\ InHand(h, x)
  BY RunningHeld
<1>2. busy[Session0]
  BY <1>1 DEF MutexInv, Steady
<1>3. PICK g \in Msgs : pc[g] \in {"drain", "replied"}
  BY <1>2
<1>4. h = g
  BY <1>1, <1>3 DEF MutexInv, Steady, Holding, TurnHolds
<1> QED BY <1>1, <1>3, <1>4 DEF InHand, Answering, Arriving, Cleaning

\* A step the service does not notice.
Unnoticed ==
  /\ queue'[Boot] = queue[Boot]
  /\ \A x \in Users :
       /\ told'[x] = told[x]
       /\ pc'[x] = "idle" <=> pc[x] = "idle"
       /\ pc'[x] \in Newcomer <=> pc[x] \in Newcomer

LEMMA UnnoticedStutters ==
  ASSUME TypeInv, Steady, Steady', Unnoticed
  PROVE  UNCHANGED Service!svars
<1>1. \A x \in Users : Phase(x)' = Phase(x)
  BY PhaseNow, PhaseNext DEF Unnoticed, Waiting
<1>2. entry = Boot /\ entry' = Boot
  BY DEF Steady
<1>3. UNCHANGED [m \in Users |-> Phase(m)]
  BY <1>1
<1>4. UNCHANGED (IF entry = NoState THEN <<>> ELSE queue[entry])
  BY <1>2 DEF Unnoticed
<1> QED BY <1>3, <1>4 DEF Service!svars

\* What m itself does goes unnoticed when its message does not arrive.
Unheard(m) ==
  /\ queue'[Boot] = queue[Boot]
  /\ \A x \in Users : told'[x] = told[x]
  /\ \A x \in Msgs \ {m} : pc'[x] = pc[x]
  /\ m \in Users => /\ pc'[m] = "idle" <=> pc[m] = "idle"
                    /\ pc'[m] \in Newcomer <=> pc[m] \in Newcomer

LEMMA UnheardUnnoticed ==
  ASSUME NEW m \in Msgs, Unheard(m)
  PROVE  Unnoticed
BY DEF Unheard, Unnoticed, Users

LEMMA TakingUnheard ==
  ASSUME TypeInv, Steady, NEW m \in Msgs,
         \/ CmdCompress(m) \/ (TryLock(m) /\ busy[Session0]) \/ Lookup(m)
         \/ Retry(m) \/ KeepSession(m) \/ EnsureState(m) \/ DrainOrphaned(m)
  PROVE  Unheard(m)
<1>0. /\ pc[m] \notin NoPointer => ptr[m] = Boot
      /\ entry = Boot /\ Boot \in States /\ Boot # NoState /\ Alive(Boot)
      /\ sess[m] = Session0 /\ Session0 \in Sessions
  BY SteadyFacts DEF Steady
<1>a. /\ pc \in [Procs -> Labels] /\ told \in [Msgs -> Outcomes]
      /\ queue \in [States -> Seq(Msgs)]
  BY DEF TypeInv, TypeOK, PcTypes, ReportTypes, QueueTypes
<1> USE DEF Unheard, Newcomer, Goto, NoPointer, sessVars, stateVars, Users
<1>1. CASE CmdCompress(m)
  BY <1>0, <1>a, <1>1 DEF CmdCompress, Tell
<1>2. CASE TryLock(m) /\ busy[Session0]
  BY <1>0, <1>a, <1>2 DEF TryLock
<1>3. CASE Lookup(m)
  BY <1>0, <1>a, <1>3 DEF Lookup
<1>4. CASE Retry(m)
  BY <1>0, <1>a, <1>4 DEF Retry
<1>5. CASE KeepSession(m)
  BY <1>0, <1>a, <1>5 DEF KeepSession
<1>6. CASE EnsureState(m)
  BY <1>0, <1>a, <1>6 DEF EnsureState
<1>7. CASE DrainOrphaned(m)
  BY <1>0, <1>a, <1>7 DEF DrainOrphaned
<1> QED BY <1>1, <1>2, <1>3, <1>4, <1>5, <1>6, <1>7

LEMMA ServingUnheard ==
  ASSUME TypeInv, MutexInv, Steady, NEW m \in Msgs,
         \/ ReuseState(m) \/ CheckAgent(m) \/ Send(m) \/ LeaveLoop(m)
         \/ DrainEmpty(m) \/ DrainCheck(m)
  PROVE  Unheard(m)
<1>0. /\ pc[m] \notin NoPointer => ptr[m] = Boot
      /\ entry = Boot /\ Boot \in States /\ Boot # NoState /\ Alive(Boot)
  BY SteadyFacts
<1>a. /\ pc \in [Procs -> Labels] /\ told \in [Msgs -> Outcomes]
      /\ queue \in [States -> Seq(Msgs)]
  BY DEF TypeInv, TypeOK, PcTypes, ReportTypes, QueueTypes
<1> USE DEF Unheard, Newcomer, Goto, NoPointer, stateVars, Users
<1>1. CASE ReuseState(m)
  BY <1>0, <1>a, <1>1 DEF ReuseState
<1>2. CASE CheckAgent(m)
  BY <1>0, <1>a, <1>2 DEF CheckAgent, Alive, Up
<1>3. CASE Send(m)
  BY <1>0, <1>a, <1>3 DEF Send
<1>4. CASE LeaveLoop(m)
  BY <1>0, <1>a, <1>4 DEF LeaveLoop
<1>5. CASE DrainEmpty(m)
  BY <1>0, <1>a, <1>5 DEF DrainEmpty, Release, MutexInv
<1>6. CASE DrainCheck(m)
  BY <1>0, <1>a, <1>6 DEF DrainCheck
<1> QED BY <1>1, <1>2, <1>3, <1>4, <1>5, <1>6

LEMMA CompactingUnheard ==
  ASSUME Undisturbed, TypeInv, PlaceInv, Steady, NEW m \in Msgs, Compacting(m)
  PROVE  Unheard(m)
<1>0. /\ pc[m] \notin NoPointer => ptr[m] = Boot
      /\ entry = Boot /\ Boot \in States /\ Boot # NoState /\ Alive(Boot)
      /\ proc[Boot] = "running"
  BY SteadyFacts
<1>a. /\ pc \in [Procs -> Labels] /\ told \in [Msgs -> Outcomes]
      /\ queue \in [States -> Seq(Msgs)]
  BY DEF TypeInv, TypeOK, PcTypes, ReportTypes, QueueTypes
<1> USE DEF Unheard, Newcomer, Goto, NoPointer, stateVars, Users
<1>b. m \in Users => pc[m] \notin {"cpick", "clock"}
  BY DEF PlaceInv, Compressing
<1>c. "send" \notin Faults
  BY DEF Undisturbed
<1>d. \A w : \A x \in Users : CompressTell(m, w)[x] = told[x]
  BY <1>a DEF CompressTell
<1>1. CASE CompressPick(m)
  BY <1>0, <1>a, <1>b, <1>c, <1>d, <1>1 DEF CompressPick
<1>2. CASE CompressLock(m)
  BY <1>0, <1>a, <1>b, <1>c, <1>d, <1>2 DEF CompressLock, Tell
<1>3. CASE CompressSend(m)
  BY <1>0, <1>a, <1>b, <1>c, <1>3 DEF CompressSend, Deaf, Alive, Up
<1>4. CASE CompressResult(m)
  BY <1>0, <1>a, <1>b, <1>c, <1>d, <1>4 DEF CompressResult
<1>5. CASE CompressError(m)
  BY <1>0, <1>a, <1>b, <1>c, <1>d, <1>5 DEF CompressError
<1> QED
  BY <1>1, <1>2, <1>3, <1>4, <1>5 DEF Compacting

\* An arrival is a new message still; taking the lock begins it.
LEMMA ArriveNew ==
  ASSUME TypeInv, PlaceInv, Steady, Steady', NEW m \in Msgs, Arrive(m)
  PROVE  UNCHANGED Service!svars
<1>1. m \in Users
  BY DEF Arrive, Users
<1>2. pc[m] = "idle" /\ told[m] = "none" /\ m \notin Waiting(Boot)
  BY <1>1, BootIsState DEF Arrive, PlaceInv, Placed, Nowhere, OnlyHand, OnlyQueue
<1>3. /\ \A x \in Msgs \ {m} : pc'[x] = pc[x]
      /\ pc'[m] = "picked" /\ UNCHANGED <<queue, told>>
  BY DEF Arrive, Goto, stateVars, TypeInv, TypeOK, PcTypes
<1>4. Waiting(Boot)' = Waiting(Boot)
  BY <1>3 DEF Waiting
<1>5. \A x \in Users : Phase(x)' = Phase(x)
  BY <1>1, <1>2, <1>3, <1>4, PhaseNow, PhaseNext DEF Newcomer, Users
<1>6. UNCHANGED [x \in Users |-> Phase(x)]
  BY <1>5
<1>7. UNCHANGED (IF entry = NoState THEN <<>> ELSE queue[entry])
  BY <1>3 DEF Steady
<1> QED BY <1>6, <1>7 DEF Service!svars

\* The phase of m alone changes.
LEMMA PhaseExcept ==
  ASSUME NEW m \in Users, NEW v, Phase(m)' = v,
         \A x \in Users \ {m} : Phase(x)' = Phase(x)
  PROVE  [x \in Users |-> Phase(x)]' = [[x \in Users |-> Phase(x)] EXCEPT ![m] = v]
OBVIOUS

LEMMA BeginsTurn ==
  ASSUME TypeInv, MutexInv, PlaceInv, OutcomeInv, Steady, Steady', NEW m \in Msgs,
         TryLock(m), ~busy[Session0]
  PROVE  m \in Users /\ Service!Begin(m)
<1>0. /\ pc[m] = "picked" /\ pc'[m] = "locked" /\ UNCHANGED <<queue, told>>
      /\ \A x \in Msgs \ {m} : pc'[x] = pc[x]
  BY DEF TryLock, Goto, stateVars, TypeInv, TypeOK, PcTypes, Steady
<1>1. m \in Users
  BY <1>0 DEF OutcomeInv, Reported, Arriving, Users
<1>2. InHand(m, m)
  BY <1>0 DEF InHand, Arriving
<1>3. told[m] = "none" /\ m \notin Waiting(Boot) /\ Phase(m) = "new"
  BY <1>0, <1>1, <1>2, HandPhase DEF Newcomer
<1>4. Waiting(Boot)' = Waiting(Boot)
  BY <1>0 DEF Waiting
<1>5. Phase(m)' = "running"
  BY <1>0, <1>1, <1>3, <1>4, PhaseNext DEF Newcomer
<1>6. \A x \in Users \ {m} : Phase(x)' = Phase(x)
  BY <1>0, <1>4, PhaseNow, PhaseNext DEF Users
<1>7. UNCHANGED (IF entry = NoState THEN <<>> ELSE queue[entry])
  BY <1>0 DEF Steady
<1>8. Service!Idle
  BY NobodyRuns
<1> QED BY <1>1, <1>3, <1>5, <1>6, <1>7, <1>8, PhaseExcept DEF Service!Begin

\* Appending the message waits; a full queue refuses it.
LEMMA QueuesUp ==
  ASSUME TypeInv, PlaceInv, OutcomeInv, Steady, Steady', NEW m \in Msgs, QueueMessage(m)
  PROVE  m \in Users /\ (Service!Wait(m) \/ Service!Refuse(m))
<1>0. /\ pc[m] = "append" /\ pc'[m] = "retry"
      /\ \A x \in Msgs \ {m} : pc'[x] = pc[x]
  BY DEF QueueMessage, Goto, TypeInv, TypeOK, PcTypes
<1>a. ptr[m] = Boot /\ Boot \in States /\ entry = Boot /\ entry' = Boot /\ Boot # NoState
  BY <1>0, SteadyFacts DEF NoPointer, Steady
<1>b. queue \in [States -> Seq(Msgs)] /\ told \in [Msgs -> Outcomes]
  BY DEF TypeInv, TypeOK, QueueTypes, ReportTypes
<1>1. m \in Users
  BY <1>0 DEF OutcomeInv, Reported, Arriving, Users
<1>2. InHand(m, m)
  BY <1>0 DEF InHand, Arriving
<1>3. told[m] = "none" /\ m \notin Waiting(Boot) /\ Phase(m) = "new"
  BY <1>0, <1>1, <1>2, HandPhase DEF Newcomer
<1>4. CASE Len(queue[Boot]) >= MaxQueue
  <2>1. told' = [told EXCEPT ![m] = "full"] /\ UNCHANGED queue
    BY <1>4, <1>a DEF QueueMessage, Tell
  <2>2. Waiting(Boot)' = Waiting(Boot)
    BY <2>1 DEF Waiting
  <2>3. Phase(m)' = "finished"
    BY <1>0, <1>1, <1>b, <2>1, PhaseNext
  <2>4. \A x \in Users \ {m} : Phase(x)' = Phase(x)
    BY <1>0, <1>b, <2>1, <2>2, PhaseNow, PhaseNext DEF Users
  <2>5. UNCHANGED (IF entry = NoState THEN <<>> ELSE queue[entry])
    BY <1>a, <2>1
  <2> QED BY <1>1, <1>3, <2>3, <2>4, <2>5, PhaseExcept DEF Service!Refuse
<1>5. CASE ~(Len(queue[Boot]) >= MaxQueue)
  <2>1. queue'[Boot] = Append(queue[Boot], m) /\ UNCHANGED told
    BY <1>5, <1>a, <1>b DEF QueueMessage
  <2>2. Waiting(Boot)' = Waiting(Boot) \cup {m}
    <3>1. queue[Boot] \in Seq(Msgs)
      BY <1>a, <1>b
    <3>2. LET r == Append(queue[Boot], m)
          IN  {r[i] : i \in DOMAIN r}
                = {queue[Boot][i] : i \in DOMAIN queue[Boot]} \cup {m}
      BY <3>1, AppendPlaces
    <3> QED BY <2>1, <3>2 DEF Waiting
  <2>3. Phase(m)' = "waiting"
    BY <1>0, <1>1, <1>3, <2>1, <2>2, PhaseNext
  <2>4. \A x \in Users \ {m} : Phase(x)' = Phase(x)
    BY <1>0, <2>1, <2>2, PhaseNow, PhaseNext DEF Users
  <2>5. Len(queue[Boot]) < MaxQueue
    BY <1>5, <1>a, <1>b, TurnEngineAssumption
  <2> QED BY <1>1, <1>3, <1>a, <2>1, <2>3, <2>4, <2>5, PhaseExcept DEF Service!Wait
<1> QED BY <1>4, <1>5

\* Taking the head of the line.
LEMMA TakesHead ==
  ASSUME TypeInv, MutexInv, PlaceInv, PlaceInv', OutcomeInv, Steady, Steady',
         NEW m \in Msgs, TakeNext(m) \/ DrainPop(m)
  PROVE  Service!Resume
<1>c. PICK h : h = Head(queue[Boot])
  OBVIOUS
<1>0. /\ pc[m] \in {"drain", "replied"} /\ pc'[m] \in {"popped", "send"}
      /\ \A x \in Msgs \ {m} : pc'[x] = pc[x]
      /\ UNCHANGED told
  BY DEF TakeNext, DrainPop, Goto, TypeInv, TypeOK, PcTypes
<1>a. ptr[m] = Boot /\ Boot \in States /\ entry = Boot /\ entry' = Boot /\ Boot # NoState
  BY <1>0, SteadyFacts DEF NoPointer, Steady
<1>b. /\ queue \in [States -> Seq(Msgs)] /\ told \in [Msgs -> Outcomes]
      /\ cur \in [Procs -> Msgs \cup {NoMsg}]
  BY DEF TypeInv, TypeOK, QueueTypes, ReportTypes, LocalTypes
<1>1. queue[Boot] # <<>> /\ queue'[Boot] = Tail(queue[Boot]) /\ cur'[m] = h
  BY <1>a, <1>b, <1>c DEF TakeNext, DrainPop
<1>2. /\ h \in Waiting(Boot)
      /\ Waiting(Boot) = Waiting(Boot)' \cup {h}
  <2>1. queue[Boot] \in Seq(Msgs)
    BY <1>a, <1>b
  <2>2. LET r == Tail(queue[Boot])
        IN  /\ h \in {queue[Boot][i] : i \in DOMAIN queue[Boot]}
            /\ {queue[Boot][i] : i \in DOMAIN queue[Boot]}
                 = {r[i] : i \in DOMAIN r} \cup {h}
    BY <1>1, <1>c, <2>1, TailPlaces
  <2> QED BY <1>1, <2>2 DEF Waiting
<1>3. h \in Users
  BY <1>2, <1>a DEF OutcomeInv, OnlyUsers
<1>4. InHand(m, h)'
  BY <1>0, <1>1 DEF InHand, Answering
<1>5. /\ pc'[h] # "idle" /\ told'[h] = "none" /\ h \notin Waiting(Boot)'
      /\ \A g \in Msgs : InHand(g, h)' <=> g = m
  BY <1>3, <1>4, <1>a DEF PlaceInv, Placed, Nowhere, OnlyHand, OnlyQueue
<1>6. pc'[h] \notin Newcomer
  BY <1>0, <1>3, <1>5 DEF Users, InHand, Arriving, Newcomer
<1>7. Phase(h)' = "running"
  BY <1>3, <1>5, <1>6, PhaseNext
<1>8. \A x \in Users \ {h} : Phase(x)' = Phase(x)
  BY <1>0, <1>2, PhaseNow, PhaseNext DEF Users, Newcomer
<1>9. Service!Idle
  BY <1>0, NobodyRuns
<1> QED BY <1>1, <1>3, <1>7, <1>8, <1>9, <1>a, <1>c, PhaseExcept DEF Service!Resume

\* An answer or an error finishes the message.
LEMMA FinishesTurn ==
  ASSUME TypeInv, PlaceInv, OutcomeInv, Steady, Steady', NEW m \in Msgs,
         LoopResult(m) \/ LoopError(m)
  PROVE  \/ UNCHANGED Service!svars
         \/ \E x \in Users : Service!Finish(x)
<1>0. /\ pc[m] = "loop" /\ pc'[m] \in {"replied", "drain"}
      /\ \A x \in Msgs \ {m} : pc'[x] = pc[x]
  BY DEF LoopResult, LoopError, Goto, TypeInv, TypeOK, PcTypes
<1>a. ptr[m] = Boot /\ Boot \in States /\ Alive(Boot)
      /\ entry = Boot /\ entry' = Boot /\ Boot # NoState
  BY <1>0, SteadyFacts DEF NoPointer, Steady
<1>b. told \in [Msgs -> Outcomes]
  BY DEF TypeInv, TypeOK, ReportTypes
<1>1. /\ \E w \in {"answered", "error"} : told' = [told EXCEPT ![cur[m]] = w]
      /\ UNCHANGED queue
  BY <1>a DEF LoopResult, LoopError, Tell
<1>2. Waiting(Boot)' = Waiting(Boot)
  BY <1>1 DEF Waiting
<1>3. CASE cur[m] \in Users
  <2>0. PICK x \in Users : x = cur[m]
    BY <1>3
  <2>1. InHand(m, x)
    BY <1>0, <2>0 DEF InHand, Answering
  <2>2. Phase(x) = "running" /\ pc[x] # "idle"
    BY <1>0, <2>1, HandPhase DEF Answering
  <2>3. told'[x] # "none" /\ \A y \in Users \ {x} : told'[y] = told[y]
    BY <1>1, <2>0, <1>b DEF Users
  <2>4. Phase(x)' = "finished"
    BY <1>0, <2>2, <2>3, PhaseNext DEF Users
  <2>5. \A y \in Users \ {x} : Phase(y)' = Phase(y)
    BY <1>0, <1>2, <2>3, PhaseNow, PhaseNext DEF Users, Newcomer
  <2>6. UNCHANGED (IF entry = NoState THEN <<>> ELSE queue[entry])
    BY <1>1, <1>a
  <2>7. Service!Finish(x)
    BY <2>2, <2>4, <2>5, <2>6, PhaseExcept DEF Service!Finish
  <2> QED BY <2>7
<1>4. CASE cur[m] \notin Users
  <2>1. \A y \in Users : told'[y] = told[y]
    BY <1>1, <1>4, <1>b DEF Users
  <2>2. Unnoticed
    BY <1>0, <1>1, <2>1 DEF Unnoticed, Users, Newcomer
  <2> QED BY <2>2, UnnoticedStutters
<1> QED BY <1>3, <1>4

LEMMA ServiceStep ==
  ASSUME Undisturbed, TypeInv, MutexInv, PlaceInv, PlaceInv', OutcomeInv,
         Steady, Steady', [Next]_vars
  PROVE  [Service!SNext]_(Service!svars)
<1>1. ASSUME NEW m \in Msgs, Taking(m) PROVE [Service!SNext]_(Service!svars)
  <2>1. CASE Arrive(m)
    BY <2>1, ArriveNew
  <2>2. CASE TryLock(m) /\ ~busy[Session0]
    BY <2>2, BeginsTurn DEF Service!SNext
  <2>3. CASE QueueMessage(m)
    BY <2>3, QueuesUp DEF Service!SNext
  <2>4. CASE ~Arrive(m) /\ ~(TryLock(m) /\ ~busy[Session0]) /\ ~QueueMessage(m)
    <3>1. \/ CmdCompress(m) \/ (TryLock(m) /\ busy[Session0]) \/ Lookup(m)
          \/ Retry(m) \/ KeepSession(m) \/ EnsureState(m) \/ DrainOrphaned(m)
      BY <1>1, <2>4 DEF Taking
    <3>2. Unheard(m)
      BY <3>1, TakingUnheard
    <3> QED BY <3>2, UnheardUnnoticed, UnnoticedStutters
  <2> QED BY <2>1, <2>2, <2>3, <2>4
<1>2. ASSUME NEW m \in Msgs, Serving(m) PROVE [Service!SNext]_(Service!svars)
  <2>1. CASE TakeNext(m) \/ DrainPop(m)
    BY <2>1, TakesHead DEF Service!SNext
  <2>2. CASE LoopResult(m) \/ LoopError(m)
    BY <2>2, FinishesTurn DEF Service!SNext
  <2>3. CASE ~(TakeNext(m) \/ DrainPop(m)) /\ ~(LoopResult(m) \/ LoopError(m))
    BY <1>2, <2>3, ServingUnheard, UnheardUnnoticed, UnnoticedStutters DEF Serving
  <2> QED BY <2>1, <2>2, <2>3
<1>3. ASSUME NEW m \in Msgs, Compacting(m) PROVE [Service!SNext]_(Service!svars)
  BY <1>3, CompactingUnheard, UnheardUnnoticed, UnnoticedStutters
<1>4. CASE UNCHANGED vars
  <2>1. Unnoticed
    BY <1>4 DEF vars, stateVars, Unnoticed
  <2> QED BY <2>1, UnnoticedStutters
<1> QED BY <1>1, <1>2, <1>3, <1>4, SteadyActions

LEMMA ServiceStart ==
  ASSUME Init
  PROVE  Service!SInit
<1>1. \A x \in Users : Phase(x) = "new"
  BY DEF Init, Phase, Users
<1>2. (IF entry = NoState THEN <<>> ELSE queue[entry]) = <<>>
  BY BootIsState DEF Init
<1> QED BY <1>1, <1>2 DEF Service!SInit

\* With an agent that lives, what goroutines, locks, states and queues do to
\* the messages of a session key is what the service SerialTurns does: one
\* message at a time, in the order of the acknowledgements, each finished once,
\* for any number of messages, of /compress commands and any queue capacity.
THEOREM ServiceImplemented ==
  ASSUME Undisturbed
  PROVE  Spec => Service!SInit /\ [][Service!SNext]_(Service!svars)
<1>1. PlainTurns
  BY DEF Undisturbed
<1>2. Init => TypeInv /\ MutexInv /\ PlaceInv /\ OutcomeInv /\ ServeInv /\ Service!SInit
  BY TypeInit, MutexInit, PlaceInit, OutcomeInit, ServeInit, ServiceStart
<1>3. TypeInv /\ MutexInv /\ PlaceInv /\ OutcomeInv /\ ServeInv /\ [Next]_vars =>
        TypeInv' /\ MutexInv' /\ PlaceInv' /\ OutcomeInv' /\ ServeInv'
  BY <1>1, TypeNext, MutexNext, PlaceNext, OutcomeNext, ServeNext
<1>4. TypeInv /\ MutexInv /\ PlaceInv /\ OutcomeInv /\ ServeInv
      /\ PlaceInv' /\ ServeInv' /\ [Next]_vars =>
        [Service!SNext]_(Service!svars)
  BY ServiceStep DEF ServeInv
<1> QED BY <1>2, <1>3, <1>4, PTL DEF Spec

-----------------------------------------------------------------------------
(* A running agent process can be reached *)

\* Nothing makes a second Session the active one.
OneKey == PlainTurns /\ "new" \notin CmdKinds

\* Everybody works on one Session, and no command runs a cleanup of its own.
OneSession ==
  /\ active = Session0
  /\ \A m \in Msgs : sess[m] = Session0
  /\ \A c \in Commands :
       /\ pc[c] \notin Cleaning \cup {"rotate"}
       /\ clean[c].back \in {"unbind", "done"}

\* Goroutine p has taken the agent of s and is going to close it.
Closes(p, s) ==
  /\ \/ pc[p] \in {"quiet", "close", "stopnotify"}
     \/ clean[p].back \in {"unbind", "done"}
  /\ clean[p].owns /\ clean[p].target = s

\* Who has not come to the taking owns nothing.
Empty ==
  /\ \A m \in Msgs :
       clean[m].back \in {"unbind", "done"} \/ pc[m] = "clean" => ~clean[m].owns
  /\ \A c \in Commands : pc[c] \in {"idle", "recallstop"} => ~clean[c].owns

\* What a cleanup has found is in the map until it deletes it, without agent.
Found ==
  \A m \in Msgs : pc[m] \in {"quiet", "close", "delete"} =>
    /\ clean[m].target # NoState => ~hasAgent[clean[m].target]
    /\ clean[m].target # NoState \/ pc[m] = "delete"
    /\ ~clean[m].expect => entry \in {NoState, clean[m].target}
    /\ pc[m] = "close" => clean[m].owns

Reached ==
  \A s \in States : proc[s] = "running" =>
    (s = entry /\ hasAgent[s]) \/ \E p \in Procs : Closes(p, s)

LeakInv == OneSession /\ Empty /\ Found /\ Reached

LEMMA LeakInit == Init => LeakInv
<1> SUFFICES ASSUME Init PROVE LeakInv
  OBVIOUS
<1>0. \A p \in Procs :
        /\ pc[p] = "idle"
        /\ clean[p] = [target |-> NoState, owns |-> FALSE, expect |-> FALSE,
                       back |-> "done"]
  BY DEF Init
<1>1. OneSession
  BY <1>0 DEF Init, OneSession, Cleaning
<1>2. Empty /\ Found
  BY <1>0 DEF Empty, Found
<1>3. Reached
  BY BootIsState DEF Init, Reached
<1> QED BY <1>1, <1>2, <1>3 DEF LeakInv

\* The lock of the one Session has one holder.
LEMMA OneHolder ==
  ASSUME MutexInv, OneSession, NEW m \in Msgs, NEW n \in Msgs,
         pc[m] \in Holding, pc[n] \in Holding
  PROVE  m = n
BY DEF MutexInv, OneSession

\* A step that only runs, or enters a cleanup.
Calm(p) ==
  /\ UNCHANGED <<entry, active, hasAgent>>
  /\ \A s \in States : proc'[s] = "running" => proc[s] = "running"
  /\ \A q \in Procs \ {p} : pc'[q] = pc[q] /\ clean'[q] = clean[q]
  /\ \A q \in Msgs : sess'[q] = Session0
  /\ pc[p] \notin Cleaning \cup {"stopnotify"}
  /\ pc'[p] \notin {"quiet", "close", "delete", "stopnotify"}
  /\ \/ pc'[p] # "clean" /\ clean'[p] = clean[p]
     \/ p \in Msgs /\ pc'[p] = "clean" /\ ~clean'[p].owns
  /\ p \in Commands =>
       pc'[p] # "rotate" /\ (pc'[p] \in {"idle", "recallstop"} => pc[p] = "idle")

LEMMA CalmLeak ==
  ASSUME LeakInv, NEW p \in Procs, Calm(p)
  PROVE  LeakInv'
<1>0. Msgs \cap Commands = {}
  BY TurnEngineAssumption
<1>1. OneSession'
  BY <1>0 DEF LeakInv, OneSession, Calm, Cleaning
<1>2. Empty'
  BY <1>0 DEF LeakInv, Empty, Calm, Cleaning
<1>3. Found'
  BY <1>0 DEF LeakInv, Found, Calm, Cleaning
<1>4. \A q \in Procs, s \in States : Closes(q, s) => Closes(q, s)'
  <2> SUFFICES ASSUME NEW q \in Procs, NEW s \in States, Closes(q, s)
               PROVE  Closes(q, s)'
    OBVIOUS
  <2>1. CASE q # p
    BY <2>1 DEF Calm, Closes
  <2>2. CASE q = p
    <3>1. pc[p] \notin {"quiet", "close", "stopnotify"}
      BY DEF Calm, Cleaning
    <3>2. clean[p].back \in {"unbind", "done"} /\ clean[p].owns
      BY <2>2, <3>1 DEF Closes
    <3>3. p \notin Msgs
      BY <3>2 DEF LeakInv, Empty
    <3>4. clean'[p] = clean[p]
      BY <3>3 DEF Calm
    <3> QED BY <2>2, <3>2, <3>4 DEF Closes
  <2> QED BY <2>1, <2>2
<1>5. Reached'
  BY <1>4 DEF LeakInv, Reached, Calm
<1> QED BY <1>1, <1>2, <1>3, <1>5 DEF LeakInv

LEMMA HandlerCalm ==
  ASSUME TypeInv, OneSession, NEW m \in Msgs,
         Arrive(m) \/ CmdCompress(m) \/ TryLock(m) \/ Lookup(m)
         \/ QueueMessage(m) \/ Retry(m) \/ KeepSession(m)
         \/ DrainOrphaned(m)
  PROVE  Calm(m)
<1>a. /\ pc \in [Procs -> Labels] /\ proc \in [States -> {"none", "running", "closing", "exited"}]
      /\ sess \in [Procs -> Sessions]
      /\ clean \in [Procs -> [target : StateOrNone, owns : BOOLEAN,
                              expect : BOOLEAN, back : Labels]]
  BY DEF TypeInv, TypeOK, PcTypes, StateTypes, LocalTypes
<1>b. active = Session0 /\ \A q \in Msgs : sess[q] = Session0
  BY DEF OneSession
<1>c. Msgs \cap Commands = {}
  BY TurnEngineAssumption
<1> USE DEF Calm, Goto, Cleaning, registry, sessVars, stateVars, locals
<1>1. CASE Arrive(m)
  BY <1>a, <1>b, <1>c, <1>1 DEF Arrive
<1>2. CASE CmdCompress(m)
  BY <1>a, <1>b, <1>c, <1>2 DEF CmdCompress
<1>3. CASE TryLock(m)
  BY <1>a, <1>b, <1>c, <1>3 DEF TryLock
<1>4. CASE Lookup(m)
  BY <1>a, <1>b, <1>c, <1>4 DEF Lookup
<1>5. CASE QueueMessage(m)
  BY <1>a, <1>b, <1>c, <1>5 DEF QueueMessage
<1>6. CASE Retry(m)
  BY <1>a, <1>b, <1>c, <1>6 DEF Retry
<1>7. CASE KeepSession(m)
  BY <1>a, <1>b, <1>c, <1>7 DEF KeepSession
<1>8. CASE DrainOrphaned(m)
  BY <1>a, <1>b, <1>c, <1>8 DEF DrainOrphaned
<1> QED BY <1>1, <1>2, <1>3, <1>4, <1>5, <1>6, <1>7, <1>8

LEMMA TurnCalm ==
  ASSUME TypeInv, OneSession, NEW m \in Msgs,
         ReuseState(m) \/ CheckAgent(m) \/ Send(m) \/ LoopStopped(m)
         \/ LoopResult(m) \/ LoopError(m) \/ LoopClosed(m)
         \/ LoopSendError(m) \/ LoopIdleTimeout(m) \/ LoopMaxTurnTime(m)
         \/ TakeNext(m) \/ LeaveLoop(m) \/ AutoCompress(m) \/ DrainEmpty(m)
         \/ DrainPop(m) \/ DrainCheck(m) \/ Unlock(m)
  PROVE  Calm(m)
<1>a. /\ pc \in [Procs -> Labels] /\ proc \in [States -> {"none", "running", "closing", "exited"}]
      /\ sess \in [Procs -> Sessions]
      /\ clean \in [Procs -> [target : StateOrNone, owns : BOOLEAN,
                              expect : BOOLEAN, back : Labels]]
  BY DEF TypeInv, TypeOK, PcTypes, StateTypes, LocalTypes
<1>b. active = Session0 /\ \A q \in Msgs : sess[q] = Session0
  BY DEF OneSession
<1>c. Msgs \cap Commands = {}
  BY TurnEngineAssumption
<1> USE DEF Calm, Goto, Cleaning, registry, sessVars, stateVars, locals
<1>1. CASE ReuseState(m)
  BY <1>a, <1>b, <1>c, <1>1 DEF ReuseState
<1>2. CASE CheckAgent(m)
  BY <1>a, <1>b, <1>c, <1>2 DEF CheckAgent
<1>3. CASE Send(m)
  BY <1>a, <1>b, <1>c, <1>3 DEF Send
<1>4. CASE LoopStopped(m)
  BY <1>a, <1>b, <1>c, <1>4 DEF LoopStopped
<1>5. CASE LoopResult(m)
  BY <1>a, <1>b, <1>c, <1>5 DEF LoopResult
<1>6. CASE LoopError(m)
  BY <1>a, <1>b, <1>c, <1>6 DEF LoopError
<1>7. CASE LoopClosed(m)
  BY <1>a, <1>b, <1>c, <1>7 DEF LoopClosed, Cleanup
<1>8. CASE LoopSendError(m)
  BY <1>a, <1>b, <1>c, <1>8 DEF LoopSendError, Cleanup
<1>9. CASE LoopIdleTimeout(m)
  BY <1>a, <1>b, <1>c, <1>9 DEF LoopIdleTimeout, Cleanup
<1>10. CASE LoopMaxTurnTime(m)
  BY <1>a, <1>b, <1>c, <1>10 DEF LoopMaxTurnTime, Cleanup
<1>11. CASE TakeNext(m)
  BY <1>a, <1>b, <1>c, <1>11 DEF TakeNext
<1>12. CASE LeaveLoop(m)
  BY <1>a, <1>b, <1>c, <1>12 DEF LeaveLoop
<1>13. CASE AutoCompress(m)
  BY <1>a, <1>b, <1>c, <1>13 DEF AutoCompress
<1>14. CASE DrainEmpty(m)
  BY <1>a, <1>b, <1>c, <1>14 DEF DrainEmpty, Release
<1>15. CASE DrainPop(m)
  BY <1>a, <1>b, <1>c, <1>15 DEF DrainPop
<1>16. CASE DrainCheck(m)
  BY <1>a, <1>b, <1>c, <1>16 DEF DrainCheck
<1>17. CASE Unlock(m)
  BY <1>a, <1>b, <1>c, <1>17 DEF Unlock, Release
<1> QED BY <1>1, <1>2, <1>3, <1>4, <1>5, <1>6, <1>7, <1>8, <1>9, <1>10,
        <1>11, <1>12, <1>13, <1>14, <1>15, <1>16, <1>17

LEMMA CompressCalm ==
  ASSUME TypeInv, OneSession, NEW m \in Msgs,
         CompressPick(m) \/ CompressLock(m) \/ CompressSend(m)
         \/ CompressStopped(m) \/ CompressResult(m) \/ CompressError(m)
         \/ CompressFailed(m) \/ DropAll(m)
  PROVE  Calm(m)
<1>a. /\ pc \in [Procs -> Labels] /\ proc \in [States -> {"none", "running", "closing", "exited"}]
      /\ sess \in [Procs -> Sessions]
      /\ clean \in [Procs -> [target : StateOrNone, owns : BOOLEAN,
                              expect : BOOLEAN, back : Labels]]
  BY DEF TypeInv, TypeOK, PcTypes, StateTypes, LocalTypes
<1>b. active = Session0 /\ \A q \in Msgs : sess[q] = Session0
  BY DEF OneSession
<1>c. Msgs \cap Commands = {}
  BY TurnEngineAssumption
<1> USE DEF Calm, Goto, Cleaning, registry, sessVars, stateVars, locals
<1>1. CASE CompressPick(m)
  BY <1>a, <1>b, <1>c, <1>1 DEF CompressPick
<1>2. CASE CompressLock(m)
  BY <1>a, <1>b, <1>c, <1>2 DEF CompressLock
<1>3. CASE CompressSend(m)
  BY <1>a, <1>b, <1>c, <1>3 DEF CompressSend, Cleanup
<1>4. CASE CompressStopped(m)
  BY <1>a, <1>b, <1>c, <1>4 DEF CompressStopped
<1>5. CASE CompressResult(m)
  BY <1>a, <1>b, <1>c, <1>5 DEF CompressResult
<1>6. CASE CompressError(m)
  BY <1>a, <1>b, <1>c, <1>6 DEF CompressError
<1>7. CASE CompressFailed(m)
  BY <1>a, <1>b, <1>c, <1>7 DEF CompressFailed, Cleanup
<1>8. CASE DropAll(m)
  BY <1>a, <1>b, <1>c, <1>8 DEF DropAll
<1> QED BY <1>1, <1>2, <1>3, <1>4, <1>5, <1>6, <1>7, <1>8

LEMMA CommandCalm ==
  ASSUME TypeInv, OneSession, NEW c \in Commands,
         Unbind(c) \/ RecallCurrent(c) \/ RecallCollect(c)
         \/ RecallQueued(c)
  PROVE  Calm(c)
<1>a. /\ pc \in [Procs -> Labels] /\ proc \in [States -> {"none", "running", "closing", "exited"}]
      /\ sess \in [Procs -> Sessions]
      /\ clean \in [Procs -> [target : StateOrNone, owns : BOOLEAN,
                              expect : BOOLEAN, back : Labels]]
  BY DEF TypeInv, TypeOK, PcTypes, StateTypes, LocalTypes
<1>b. active = Session0 /\ \A q \in Msgs : sess[q] = Session0
  BY DEF OneSession
<1>c. Msgs \cap Commands = {}
  BY TurnEngineAssumption
<1> USE DEF Calm, Goto, Cleaning, registry, sessVars, stateVars, locals
<1>1. CASE Unbind(c)
  BY <1>a, <1>b, <1>c, <1>1 DEF Unbind
<1>2. CASE RecallCurrent(c)
  BY <1>a, <1>b, <1>c, <1>2 DEF RecallCurrent
<1>3. CASE RecallCollect(c)
  BY <1>a, <1>b, <1>c, <1>3 DEF RecallCollect
<1>4. CASE RecallQueued(c)
  BY <1>a, <1>b, <1>c, <1>4 DEF RecallQueued
<1> QED BY <1>1, <1>2, <1>3, <1>4

\* The facts about the state that the remaining actions need.
LEMMA LeakTypes ==
  ASSUME TypeInv
  PROVE  /\ entry \in StateOrNone /\ NoState \notin States
         /\ StateOrNone = States \cup {NoState}
         /\ hasAgent \in [States -> BOOLEAN]
         /\ proc \in [States -> {"none", "running", "closing", "exited"}]
         /\ sess \in [Procs -> Sessions] /\ pc \in [Procs -> Labels]
         /\ clean \in [Procs -> [target : StateOrNone, owns : BOOLEAN,
                                 expect : BOOLEAN, back : Labels]]
         /\ Msgs \cap Commands = {}
BY BootIsState, TurnEngineAssumption
DEF TypeInv, TypeOK, SharedTypes, StateTypes, LocalTypes, PcTypes, StateOrNone

\* Who is about to start or to ensure a state shares the Session with nobody
\* who cleans up, and owns nothing itself.
LEMMA NobodyCleans ==
  ASSUME MutexInv, LeakInv, NEW m \in Msgs, pc[m] \in {"ensure", "start"}
  PROVE  /\ \A n \in Msgs : pc[n] \notin Cleaning
         /\ \A s \in States : ~Closes(m, s)
<1>1. \A n \in Msgs : pc[n] \in Cleaning => n = m
  BY OneHolder DEF LeakInv, Holding, TurnHolds
<1>2. \A n \in Msgs : pc[n] \notin Cleaning
  BY <1>1 DEF Cleaning
<1> QED BY <1>2 DEF LeakInv, Empty, Closes

LEMMA EnsureLeak ==
  ASSUME TypeInv, MutexInv, LeakInv, NEW m \in Msgs, EnsureState(m)
  PROVE  LeakInv'
<1> USE LeakTypes DEF EnsureState, Goto, registry, sessVars, stateVars, locals
<1>1. /\ \A n \in Msgs : pc[n] \notin Cleaning
      /\ \A s \in States : ~Closes(m, s)
  BY NobodyCleans
<1>2. /\ UNCHANGED <<active, hasAgent, proc, clean, sess>>
      /\ pc'[m] = "start" /\ \A q \in Procs \ {m} : pc'[q] = pc[q]
      /\ entry # NoState => entry' = entry
  OBVIOUS
<1>3. OneSession' /\ Empty'
  BY <1>2 DEF LeakInv, OneSession, Empty, Cleaning
<1>4. Found'
  BY <1>1, <1>2 DEF Found, Cleaning
<1>5. \A q \in Procs, s \in States : Closes(q, s) => Closes(q, s)'
  BY <1>1, <1>2 DEF Closes
<1>6. Reached'
  BY <1>2, <1>5 DEF LeakInv, Reached
<1> QED BY <1>3, <1>4, <1>6 DEF LeakInv

LEMMA CreateLeak ==
  ASSUME TypeInv, MutexInv, LeakInv, NEW m \in Msgs, CreateState(m)
  PROVE  LeakInv'
<1> DEFINE new == <<m, "full">>
           recycle == entry # NoState /\ Alive(entry) /\ ~Matches(m)
<1>1. /\ \A n \in Msgs : pc[n] \notin Cleaning
      /\ \A s \in States : ~Closes(m, s)
  BY NobodyCleans DEF CreateState
<1>2. /\ UNCHANGED <<active, clean, sess>>
      /\ pc'[m] = "check" /\ \A q \in Procs \ {m} : pc'[q] = pc[q]
      /\ entry' = new
  BY LeakTypes DEF CreateState, Goto
<1>3. ~(entry # NoState /\ Alive(entry) /\ Matches(m))
  BY DEF CreateState
<1>4. PICK result \in {"resumed", "fresh", "failed"},
           end \in {"none", "closing", "exited"} :
        /\ hasAgent' = [hasAgent EXCEPT ![new] = result # "failed"]
        /\ proc' = [s \in States |->
                      IF s = new /\ result # "failed" THEN "running"
                      ELSE IF recycle /\ s = entry THEN end ELSE proc[s]]
  BY ZenonT(30) DEF CreateState, Closings
<1>5. OneSession' /\ Empty'
  BY <1>2 DEF LeakInv, OneSession, Empty, Cleaning
<1>6. Found'
  BY <1>1, <1>2 DEF Found, Cleaning
<1>7. \A q \in Procs, s \in States : Closes(q, s) => Closes(q, s)'
  BY <1>1, <1>2 DEF Closes
<1>8. ASSUME NEW s \in States, proc'[s] = "running"
      PROVE  (s = entry' /\ hasAgent'[s]) \/ \E q \in Procs : Closes(q, s)'
  <2>1. CASE s = new /\ result # "failed"
    BY <1>2, <1>4, <2>1, LeakTypes
  <2>2. CASE ~(s = new /\ result # "failed")
    <3>1. proc[s] = "running" /\ ~(recycle /\ s = entry)
      BY <1>4, <1>8, <2>2
    <3>2. ~(s = entry /\ hasAgent[s])
      BY <1>3, <3>1, LeakTypes DEF Alive, Up
    <3> QED BY <1>7, <3>1, <3>2 DEF LeakInv, Reached
  <2> QED BY <2>1, <2>2
<1>9. Reached'
  BY <1>8 DEF Reached
<1> QED BY <1>5, <1>6, <1>9 DEF LeakInv

LEMMA CleanupLeak ==
  ASSUME TypeInv, MutexInv, LeakInv, NEW p \in Procs, CleanupStep(p)
  PROVE  LeakInv'
<1> USE DEF Goto, registry, sessVars, stateVars, locals
<1>1. p \in Msgs /\ pc[p] \in Cleaning
  BY DEF LeakInv, OneSession, CleanupStep, CleanTake, CleanQuiet, CleanClose,
         CleanDelete, Cleaning
<1>2. clean[p].back \in {"drain", "unlock", "dropall"}
  BY <1>1 DEF MutexInv
<1>3. \A n \in Msgs \ {p} : pc[n] \notin Cleaning
  BY <1>1, OneHolder DEF LeakInv, Holding
<1>4. /\ UNCHANGED <<active, sess>>
      /\ \A q \in Procs \ {p} : pc'[q] = pc[q] /\ clean'[q] = clean[q]
      /\ clean'[p].back = clean[p].back
      /\ clean'[p].expect = clean[p].expect
      /\ pc'[p] \in {"quiet", "close", "delete", "drain", "unlock", "dropall"}
  <2> USE <1>2, LeakTypes DEF CleanupStep
  <2>1. CASE CleanTake(p)
    BY <2>1 DEF CleanTake
  <2>2. CASE CleanQuiet(p)
    BY <2>2 DEF CleanQuiet
  <2>3. CASE CleanClose(p)
    BY <2>3 DEF CleanClose
  <2>4. CASE CleanDelete(p)
    BY <2>4 DEF CleanDelete
  <2> QED BY <2>1, <2>2, <2>3, <2>4
<1>5. OneSession' /\ Empty'
  BY <1>1, <1>2, <1>4, LeakTypes DEF LeakInv, OneSession, Empty, Cleaning
<1>6. \A n \in Msgs \ {p} : pc'[n] \notin Cleaning
  BY <1>3, <1>4
<1>7. \A q \in Procs \ {p}, s \in States : Closes(q, s) => Closes(q, s)'
  BY <1>4 DEF Closes
<1>8. CASE CleanTake(p)
  <2>1. ~clean[p].owns
    BY <1>1, <1>8 DEF LeakInv, Empty, CleanTake
  <2>2. \A s \in States : ~Closes(p, s)
    BY <2>1 DEF Closes
  <2>3. UNCHANGED <<entry, proc>>
    BY <1>8 DEF CleanTake
  <2>4. CASE UNCHANGED <<hasAgent, clean>> /\ pc'[p] = clean[p].back
    <3>1. Found'
      BY <1>1, <1>2, <1>6, <2>4 DEF Found, Cleaning
    <3>2. Reached'
      BY <1>7, <2>2, <2>3, <2>4 DEF LeakInv, Reached
    <3> QED BY <1>5, <3>1, <3>2 DEF LeakInv
  <2>5. CASE /\ entry = NoState /\ UNCHANGED hasAgent
             /\ pc'[p] = "delete" /\ clean'[p].target = NoState
    <3>1. Found'
      BY <1>6, <2>3, <2>5 DEF Found, Cleaning
    <3>2. Reached'
      BY <1>7, <2>2, <2>3, <2>5 DEF LeakInv, Reached
    <3> QED BY <1>5, <3>1, <3>2 DEF LeakInv
  <2>6. CASE /\ entry # NoState
             /\ hasAgent' = [hasAgent EXCEPT ![entry] = FALSE]
             /\ pc'[p] = "quiet" /\ clean'[p].target = entry
             /\ clean'[p].owns = hasAgent[entry]
    <3>1. entry \in States
      BY <2>6, LeakTypes
    <3>2. Found'
      BY <1>6, <2>3, <2>6, <3>1, LeakTypes DEF Found, Cleaning
    <3>3. ASSUME NEW s \in States, proc'[s] = "running"
          PROVE  (s = entry' /\ hasAgent'[s]) \/ \E q \in Procs : Closes(q, s)'
      <4>1. CASE s = entry /\ hasAgent[s]
        <5>1. Closes(p, s)'
          BY <2>6, <4>1 DEF Closes
        <5> QED BY <5>1
      <4>2. CASE ~(s = entry /\ hasAgent[s])
        BY <1>7, <2>2, <2>3, <3>3, <4>2 DEF LeakInv, Reached
      <4> QED BY <4>1, <4>2
    <3>4. Reached'
      BY <3>3 DEF Reached
    <3> QED BY <1>5, <3>2, <3>4 DEF LeakInv
  <2> QED BY <1>8, <2>4, <2>5, <2>6, LeakTypes DEF CleanTake
<1>9. CASE CleanQuiet(p)
  <2>1. /\ UNCHANGED <<entry, hasAgent, proc, clean>>
        /\ pc[p] = "quiet"
        /\ pc'[p] = IF clean[p].owns THEN "close" ELSE "delete"
    BY <1>9, LeakTypes DEF CleanQuiet
  <2>2. Found'
    BY <1>1, <1>6, <2>1 DEF LeakInv, Found, Cleaning
  <2>3. \A s \in States : Closes(p, s) => Closes(p, s)'
    BY <2>1 DEF Closes
  <2>4. Reached'
    BY <1>7, <2>1, <2>3 DEF LeakInv, Reached
  <2> QED BY <1>5, <2>2, <2>4 DEF LeakInv
<1>10. CASE CleanClose(p)
  <2>1. /\ UNCHANGED <<entry, hasAgent, clean>>
        /\ \E end \in {"closing", "exited"} :
             proc' = [proc EXCEPT ![clean[p].target] = end]
        /\ pc[p] = "close" /\ pc'[p] = "delete"
    BY <1>10, LeakTypes DEF CleanClose, Closings
  <2>2. Found'
    BY <1>1, <1>6, <2>1 DEF LeakInv, Found, Cleaning
  <2>3. \A s \in States : proc'[s] = "running" =>
          proc[s] = "running" /\ ~Closes(p, s)
    BY <2>1, LeakTypes DEF Closes
  <2>4. Reached'
    BY <1>7, <2>1, <2>3 DEF LeakInv, Reached
  <2> QED BY <1>5, <2>2, <2>4 DEF LeakInv
<1>11. CASE CleanDelete(p)
  <2>1. /\ UNCHANGED <<hasAgent, proc, clean>>
        /\ pc[p] = "delete" /\ pc'[p] = clean[p].back
        /\ entry' = IF clean[p].expect /\ entry # clean[p].target
                      THEN entry ELSE NoState
    BY <1>11, LeakTypes DEF CleanDelete
  <2>2. Found'
    BY <1>2, <1>6, <2>1 DEF Found, Cleaning
  <2>3. \A s \in States : ~Closes(p, s)
    BY <1>2, <2>1 DEF Closes
  <2>4. \A s \in States : s = entry /\ hasAgent[s] => entry' = s
    BY <1>1, <2>1, LeakTypes DEF LeakInv, Found
  <2>5. Reached'
    BY <1>7, <2>1, <2>3, <2>4 DEF LeakInv, Reached
  <2> QED BY <1>5, <2>2, <2>5 DEF LeakInv
<1> QED BY <1>8, <1>9, <1>10, <1>11 DEF CleanupStep

LEMMA CommandLeak ==
  ASSUME OneKey, TypeInv, LeakInv, NEW c \in Commands, Command(c)
  PROVE  LeakInv'
<1> USE DEF Goto, registry, sessVars, stateVars, locals
<1>0. c \notin Msgs
  BY LeakTypes
<1>1. CASE Unbind(c) \/ RecallCurrent(c) \/ RecallCollect(c) \/ RecallQueued(c)
  BY <1>1, CommandCalm, CalmLeak DEF LeakInv
<1>2. CASE CmdNew(c) \/ Rotate(c)
  BY <1>2 DEF CmdNew, Rotate, OneKey, LeakInv, OneSession
<1>3. ASSUME NEW back \in {"unbind", "done"}, StopTake(c, back),
             pc[c] \in {"idle", "recallstop"},
             UNCHANGED <<active, sess, hasAgent, proc>>
      PROVE  LeakInv'
  <2>1. ~clean[c].owns
    BY <1>3 DEF LeakInv, Empty
  <2>2. \A s \in States : ~Closes(c, s)
    BY <2>1 DEF Closes
  <2>3. /\ \A q \in Procs \ {c} : pc'[q] = pc[q] /\ clean'[q] = clean[q]
        /\ pc'[c] \in {"done", "stopnotify"}
        /\ clean'[c].back \in {"unbind", "done"}
        /\ entry' = NoState
    BY <1>3, LeakTypes DEF StopTake, LeakInv, OneSession
  <2>4. OneSession' /\ Empty' /\ Found'
    BY <1>0, <1>3, <2>3
    DEF LeakInv, OneSession, Empty, Found, Cleaning
  <2>5. \A s \in States : s = entry /\ hasAgent[s] => Closes(c, s)'
    BY <1>3, <2>3, LeakTypes DEF StopTake, Closes
  <2>6. \A q \in Procs \ {c}, s \in States : Closes(q, s) => Closes(q, s)'
    BY <2>3 DEF Closes
  <2>7. Reached'
    BY <1>3, <2>2, <2>5, <2>6 DEF LeakInv, Reached
  <2> QED BY <2>4, <2>7 DEF LeakInv
<1>4. CASE CmdStop(c)
  BY <1>3, <1>4 DEF CmdStop
<1>5. CASE RecallStop(c)
  BY <1>3, <1>5 DEF RecallStop
<1>6. CASE StopNotify(c)
  <2>1. /\ UNCHANGED <<entry, active, sess, hasAgent, proc, clean>>
        /\ \A q \in Procs \ {c} : pc'[q] = pc[q]
        /\ pc'[c] \in {"unbind", "done"}
        /\ clean[c].back \in {"unbind", "done"}
    BY <1>6, LeakTypes DEF StopNotify, LeakInv, OneSession
  <2>2. OneSession' /\ Empty' /\ Found'
    BY <1>0, <2>1 DEF LeakInv, OneSession, Empty, Found, Cleaning
  <2>3. \A q \in Procs, s \in States : Closes(q, s) => Closes(q, s)'
    BY <2>1 DEF Closes
  <2>4. Reached'
    BY <2>1, <2>3 DEF LeakInv, Reached
  <2> QED BY <2>2, <2>4 DEF LeakInv
<1>7. CASE StopClose(c)
  <2>1. /\ UNCHANGED <<entry, active, sess, hasAgent, pc>>
        /\ \A q \in Procs \ {c} : clean'[q] = clean[q]
        /\ clean'[c].back = clean[c].back /\ ~clean'[c].owns
        /\ \E end \in {"closing", "exited"} :
             proc' = [proc EXCEPT ![clean[c].target] = end]
    <3>1. /\ UNCHANGED <<entry, active, sess, hasAgent, pc>>
          /\ clean' = [clean EXCEPT ![c].owns = FALSE]
      BY <1>7 DEF StopClose
    <3>2. \E end \in {"closing", "exited"} :
            proc' = [proc EXCEPT ![clean[c].target] = end]
      BY <1>7 DEF StopClose, Closings
    <3>3. /\ \A q \in Procs \ {c} : clean'[q] = clean[q]
          /\ clean'[c].back = clean[c].back /\ ~clean'[c].owns
      BY <3>1, LeakTypes
    <3> QED BY <3>1, <3>2, <3>3
  <2>2. OneSession' /\ Empty' /\ Found'
    BY <1>0, <2>1 DEF LeakInv, OneSession, Empty, Found, Cleaning
  <2>3. \A q \in Procs \ {c}, s \in States : Closes(q, s) => Closes(q, s)'
    BY <2>1 DEF Closes
  <2>4. \A s \in States : proc'[s] = "running" =>
          proc[s] = "running" /\ ~Closes(c, s)
    BY <2>1, LeakTypes DEF Closes
  <2>5. Reached'
    BY <2>1, <2>3, <2>4 DEF LeakInv, Reached
  <2> QED BY <2>2, <2>5 DEF LeakInv
<1> QED BY <1>1, <1>2, <1>4, <1>5, <1>6, <1>7 DEF Command

\* A step that leaves the agents alone, or only ends one of them.
LEMMA ExitLeak ==
  ASSUME LeakInv, UNCHANGED <<entry, active, sess, hasAgent, pc, clean>>,
         \A s \in States : proc'[s] = "running" => proc[s] = "running"
  PROVE  LeakInv'
<1>1. OneSession' /\ Empty' /\ Found'
  BY DEF LeakInv, OneSession, Empty, Found
<1>2. \A q \in Procs, s \in States : Closes(q, s) => Closes(q, s)'
  BY DEF Closes
<1>3. Reached'
  BY <1>2 DEF LeakInv, Reached
<1> QED BY <1>1, <1>3 DEF LeakInv

LEMMA LeakNext ==
  ASSUME OneKey, TypeInv, MutexInv, LeakInv, [Next]_vars
  PROVE  LeakInv'
<1>1. ASSUME NEW m \in Msgs, Arrival(m) \/ Handler(m)
      PROVE  LeakInv'
  <2>1. ~UnlockOldSession(m) /\ ~NewSession(m) /\ ~LockNewSession(m)
    BY DEF MutexInv, Resetting, UnlockOldSession, NewSession, LockNewSession
  <2>2. ~StartIdleReset(m)
    BY DEF OneKey, PlainTurns, StartIdleReset
  <2>3. EnsureState(m) => LeakInv'
    BY EnsureLeak
  <2> QED BY <1>1, <2>1, <2>2, <2>3, HandlerCalm, CalmLeak
          DEF Arrival, Handler, LeakInv
<1>2. ASSUME NEW m \in Msgs, Turn(m)
      PROVE  LeakInv'
  <2>1. CreateState(m) => LeakInv'
    BY CreateLeak
  <2> QED BY <1>2, <2>1, TurnCalm, CalmLeak DEF Turn, LeakInv
<1>3. ASSUME NEW m \in Msgs, Compress(m)
      PROVE  LeakInv'
  BY <1>3, CompressCalm, CalmLeak DEF Compress, LeakInv
<1>4. ASSUME NEW m \in Msgs, Panic(m)
      PROVE  LeakInv'
  BY <1>4, ExitLeak DEF Panic, registry, stateVars, locals
<1>5. ASSUME NEW p \in Procs, CleanupStep(p)
      PROVE  LeakInv'
  BY <1>5, CleanupLeak
<1>6. ASSUME NEW c \in Commands, Command(c)
      PROVE  LeakInv'
  BY <1>6, CommandLeak
<1>7. ASSUME NEW s \in States, AgentExit(s)
      PROVE  LeakInv'
  BY <1>7, ExitLeak, LeakTypes DEF AgentExit, registry, locals
<1>8. CASE UNCHANGED vars
  BY <1>8, ExitLeak DEF vars, registry, stateVars, locals
<1> QED BY <1>1, <1>2, <1>3, <1>4, <1>5, <1>6, <1>7, <1>8 DEF Next, Finished

\* As long as nothing changes the active Session of the key, no agent process
\* is ever forgotten: whatever fails, times out, hangs, is stopped, recalled or
\* compressed, an agent that is up is the one in the map, the one that
\* cleanupInteractiveState or stopInteractiveSessionWithOptions has taken and
\* will close, or one whose Close the engine has called and waited 130 s for.
\* (With /new it can be forgotten, as NewLeaksAgent.cfg shows.)
THEOREM NoAgentForgotten ==
  ASSUME OneKey
  PROVE  Spec => []NoForgottenAgent
<1>1. PlainTurns
  BY DEF OneKey
<1>2. LeakInv => NoForgottenAgent
  BY DEF LeakInv, Reached, Closes, NoForgottenAgent
<1>3. TypeInv /\ MutexInv /\ LeakInv /\ [Next]_vars =>
        TypeInv' /\ MutexInv' /\ LeakInv'
  BY <1>1, TypeNext, MutexNext, LeakNext
<1>4. Init => TypeInv /\ MutexInv /\ LeakInv
  BY TypeInit, MutexInit, LeakInit
<1> QED BY <1>2, <1>3, <1>4, PTL DEF Spec

-----------------------------------------------------------------------------
(* The queue of the state in the map is served *)

\* The agent starts when it is started and does not die of its own, nobody
\* compresses, and the Session stays; it may be stopped, recalled, closed after
\* a timeout, and fail a prompt.
Enduring ==
  OneKey /\ CompressCmds = {} /\ Faults \cap {"exit", "start"} = {}

\* The state in the map, if any, has a living agent.
Healthy == entry # NoState => Alive(entry)

\* The agent of the state in the map, if any, has not been asked to end.
Whole == entry # NoState /\ hasAgent[entry] => proc[entry] # "closing"

\* Before its turn starts an agent for the state named after it, and for a
\* placeholder at any time, there is none.
Startless ==
  \A m \in Msgs :
    /\ ~hasAgent[<<m, "placeholder">>]
    /\ pc[m] \in {"idle", "picked", "locked", "ensure", "start"} =>
         ~hasAgent[<<m, "full">>]

\* What a command closes has left the map.
Stopping ==
  \A c \in Commands : clean[c].owns =>
    /\ clean[c].target \in States \ {entry}
    /\ hasAgent[clean[c].target]

\* What goroutine h knows of the state in the map.
Knows(h) ==
  /\ pc[h] \notin {"compress", "cloop", "dropall", "cpick", "clock"}
  /\ pc[h] \in {"locked", "ensure", "orphan"} => Healthy
  /\ entry # NoState
     /\ pc[h] \in {"check", "send", "loop", "replied", "drain", "popped"} =>
       entry = ptr[h] /\ Alive(entry)
  /\ pc[h] = "unlock" => entry = NoState
  /\ pc[h] \in Cleaning =>
       /\ clean[h].expect /\ clean[h].back = "drain"
       /\ clean[h].target \in States
       /\ entry # NoState => entry = clean[h].target

\* A queue is left to a holder of the lock, or to a goroutine that will try it.
Attended ==
  entry # NoState /\ queue[entry] # <<>> =>
    busy[Session0] \/ \E m \in Msgs : pc[m] = "retry"

EntryInv ==
  /\ OneSession /\ Whole /\ Startless /\ Stopping /\ Attended
  /\ ~busy[Session0] => Healthy
  /\ \A h \in Msgs : Knows(h)

LEMMA EntryInit == Init => EntryInv
<1> SUFFICES ASSUME Init PROVE EntryInv
  OBVIOUS
<1>0. \A p \in Procs :
        /\ pc[p] = "idle"
        /\ clean[p] = [target |-> NoState, owns |-> FALSE, expect |-> FALSE,
                       back |-> "done"]
  BY DEF Init
<1>1. OneSession
  BY <1>0 DEF Init, OneSession, Cleaning
<1>2. Startless
  BY BootIsState, TurnEngineAssumption DEF Init, Startless, Boot
<1>3. Stopping
  BY <1>0 DEF Stopping
<1>4. Attended /\ Healthy
  BY BootIsState DEF Init, Attended, Healthy, Alive, Up
<1>5. \A h \in Msgs : Knows(h)
  BY <1>0 DEF Knows, Cleaning
<1>6. Whole
  BY BootIsState DEF Init, Whole
<1> QED BY <1>1, <1>2, <1>3, <1>4, <1>5, <1>6 DEF EntryInv

\* A step of message m that leaves the map and the agents alone: it enters a
\* label where it knows enough, and does not abandon the queue.
Mild(m) ==
  /\ UNCHANGED <<entry, active, hasAgent, proc>>
  /\ \A q \in Procs \ {m} :
       pc'[q] = pc[q] /\ clean'[q] = clean[q] /\ ptr'[q] = ptr[q]
  /\ \A q \in Msgs : sess'[q] = Session0
  /\ pc'[m] \in {"picked", "locked", "ensure"} =>
       pc[m] \in {"idle", "picked", "locked"}
  /\ pc'[m] \notin {"idle", "start"}
  /\ Knows(m)'
  /\ \/ pc'[m] \in Holding
     \/ /\ UNCHANGED busy
        /\ \/ pc'[m] = "retry"
           \/ UNCHANGED queue /\ (pc[m] = "retry" => busy[Session0])
     \/ entry # NoState => Alive(entry) /\ queue'[entry] = <<>>

LEMMA MildEntry ==
  ASSUME MutexInv', EntryInv, NEW m \in Msgs, Mild(m)
  PROVE  EntryInv'
<1>0. Msgs \cap Commands = {}
  BY TurnEngineAssumption
<1>1. OneSession'
  BY <1>0 DEF EntryInv, OneSession, Mild, Cleaning
<1>2. Startless'
  BY DEF EntryInv, Startless, Mild
<1>3. Stopping'
  BY <1>0 DEF EntryInv, Stopping, Mild
<1>4. Healthy => Healthy'
  BY DEF Healthy, Alive, Up, Mild
<1>5. \A h \in Msgs : Knows(h)'
  BY <1>4 DEF EntryInv, Knows, Alive, Up, Mild, Cleaning
<1>6. pc'[m] \in Holding => busy'[Session0]
  BY <1>1 DEF MutexInv, OneSession
<1>7. Attended'
  BY <1>6 DEF EntryInv, Attended, Mild
<1>8. ~busy'[Session0] => Healthy'
  BY <1>4, <1>6 DEF EntryInv, Healthy, Alive, Up, Mild
<1>9. Whole'
  BY DEF EntryInv, Whole, Mild
<1> QED BY <1>1, <1>2, <1>3, <1>5, <1>7, <1>8, <1>9 DEF EntryInv

LEMMA HandlerMild ==
  ASSUME Enduring, TypeInv, MutexInv, EntryInv, NEW m \in Msgs,
         Arrive(m) \/ TryLock(m) \/ Lookup(m) \/ QueueMessage(m) \/ Retry(m)
         \/ KeepSession(m) \/ DrainOrphaned(m)
  PROVE  Mild(m)
<1>a. /\ pc \in [Procs -> Labels] /\ ptr \in [Procs -> StateOrNone]
      /\ sess \in [Procs -> Sessions] /\ queue \in [States -> Seq(Msgs)]
      /\ busy \in [Sessions -> BOOLEAN] /\ NoState \notin States
      /\ clean \in [Procs -> [target : StateOrNone, owns : BOOLEAN,
                              expect : BOOLEAN, back : Labels]]
      /\ entry \in StateOrNone /\ StateOrNone = States \cup {NoState}
      /\ triggers \in 0 .. MaxAutoCompress
  BY BootIsState DEF TypeInv, TypeOK, SharedTypes, QueueTypes, LocalTypes,
     PcTypes, ReportTypes, StateOrNone
<1>b. /\ active = Session0 /\ \A q \in Msgs : sess[q] = Session0
      /\ Knows(m) /\ depth[m] = 0 /\ (~busy[Session0] => Healthy)
      /\ pc[m] \in {"loop"} => ptr[m] \in States
  BY DEF OneSession, EntryInv, MutexInv, TypeInv, PointerOK, NoPointer, Cleaning
<1>c. Msgs \cap Commands = {} /\ CompressCmds = {} /\ MaxAutoCompress = 0
  BY TurnEngineAssumption DEF Enduring, OneKey, PlainTurns
<1> USE <1>a, <1>b, <1>c DEF Mild, Knows, Goto, Cleaning, Holding, TurnHolds,
      registry, sessVars, stateVars, locals, Healthy, Alive, Up
<1>1. CASE Arrive(m)
  BY <1>1 DEF Arrive
<1>2. CASE TryLock(m)
  BY <1>2 DEF TryLock
<1>3. CASE Lookup(m)
  BY <1>3 DEF Lookup
<1>4. CASE QueueMessage(m)
  BY <1>4 DEF QueueMessage
<1>5. CASE Retry(m)
  BY <1>5 DEF Retry
<1>6. CASE KeepSession(m)
  BY <1>6 DEF KeepSession
<1>7. CASE DrainOrphaned(m)
  BY <1>7 DEF DrainOrphaned
<1> QED BY <1>1, <1>2, <1>3, <1>4, <1>5, <1>6, <1>7

LEMMA TurnMild ==
  ASSUME Enduring, TypeInv, MutexInv, EntryInv, NEW m \in Msgs,
         ReuseState(m) \/ CheckAgent(m) \/ Send(m) \/ LoopStopped(m)
         \/ LoopResult(m) \/ LoopError(m) \/ LoopClosed(m)
         \/ LoopSendError(m) \/ LoopIdleTimeout(m) \/ LoopMaxTurnTime(m)
         \/ TakeNext(m) \/ LeaveLoop(m) \/ DrainEmpty(m) \/ DrainPop(m)
         \/ DrainCheck(m) \/ Unlock(m)
  PROVE  Mild(m)
<1>a. /\ pc \in [Procs -> Labels] /\ ptr \in [Procs -> StateOrNone]
      /\ sess \in [Procs -> Sessions] /\ queue \in [States -> Seq(Msgs)]
      /\ busy \in [Sessions -> BOOLEAN] /\ NoState \notin States
      /\ clean \in [Procs -> [target : StateOrNone, owns : BOOLEAN,
                              expect : BOOLEAN, back : Labels]]
      /\ entry \in StateOrNone /\ StateOrNone = States \cup {NoState}
      /\ triggers \in 0 .. MaxAutoCompress
  BY BootIsState DEF TypeInv, TypeOK, SharedTypes, QueueTypes, LocalTypes,
     PcTypes, ReportTypes, StateOrNone
<1>b. /\ active = Session0 /\ \A q \in Msgs : sess[q] = Session0
      /\ Knows(m) /\ depth[m] = 0 /\ (~busy[Session0] => Healthy)
      /\ pc[m] \in {"loop"} => ptr[m] \in States
  BY DEF OneSession, EntryInv, MutexInv, TypeInv, PointerOK, NoPointer, Cleaning
<1>c. Msgs \cap Commands = {} /\ CompressCmds = {} /\ MaxAutoCompress = 0
  BY TurnEngineAssumption DEF Enduring, OneKey, PlainTurns
<1> USE <1>a, <1>b, <1>c DEF Mild, Knows, Goto, Cleaning, Holding, TurnHolds,
      registry, sessVars, stateVars, locals, Healthy, Alive, Up
<1>1. CASE ReuseState(m)
  BY <1>1 DEF ReuseState
<1>2. CASE CheckAgent(m)
  BY <1>2 DEF CheckAgent
<1>3. CASE Send(m)
  BY <1>3 DEF Send
<1>4. CASE LoopStopped(m)
  BY <1>4 DEF LoopStopped
<1>5. CASE LoopResult(m)
  BY <1>5 DEF LoopResult
<1>6. CASE LoopError(m)
  BY <1>6 DEF LoopError
<1>7. CASE LoopClosed(m)
  BY <1>7 DEF LoopClosed, Cleanup
<1>8. CASE LoopSendError(m)
  BY <1>8 DEF LoopSendError, Cleanup
<1>9. CASE LoopIdleTimeout(m)
  BY <1>9 DEF LoopIdleTimeout, Cleanup
<1>10. CASE LoopMaxTurnTime(m)
  BY <1>10 DEF LoopMaxTurnTime, Cleanup
<1>11. CASE TakeNext(m)
  BY <1>11 DEF TakeNext
<1>12. CASE LeaveLoop(m)
  BY <1>12 DEF LeaveLoop
<1>13. CASE DrainEmpty(m)
  BY <1>13 DEF DrainEmpty, Release
<1>14. CASE DrainPop(m)
  BY <1>14 DEF DrainPop
<1>15. CASE DrainCheck(m)
  BY <1>15 DEF DrainCheck
<1>16. CASE Unlock(m)
  BY <1>16 DEF Unlock, Release
<1> QED BY <1>1, <1>2, <1>3, <1>4, <1>5, <1>6, <1>7, <1>8, <1>9, <1>10,
        <1>11, <1>12, <1>13, <1>14, <1>15, <1>16

\* What needs /compress does not happen.
LEMMA CompressNever ==
  ASSUME Enduring, TypeInv, EntryInv, NEW m \in Msgs,
         CmdCompress(m) \/ Compress(m) \/ AutoCompress(m)
  PROVE  FALSE
<1>1. /\ Knows(m) /\ CompressCmds = {} /\ MaxAutoCompress = 0
      /\ triggers \in 0 .. MaxAutoCompress
  BY DEF EntryInv, Enduring, OneKey, PlainTurns, TypeInv, TypeOK, ReportTypes
<1>2. pc[m] \notin {"compress", "cloop", "dropall", "cpick", "clock"}
  BY <1>1 DEF Knows
<1>3. ~CmdCompress(m)
  BY <1>1 DEF CmdCompress
<1>4. ~AutoCompress(m)
  BY <1>1 DEF AutoCompress
<1>5. ~Compress(m)
  BY <1>2 DEF Compress, CompressPick, CompressLock, CompressSend,
     CompressStopped, CompressResult, CompressError, CompressFailed, DropAll
<1> QED BY <1>3, <1>4, <1>5

\* While one goroutine holds the lock of the Session, the others know nothing.
LEMMA OthersKnow ==
  ASSUME MutexInv, EntryInv, NEW m \in Msgs, pc[m] \in Holding,
         \A q \in Msgs \ {m} : pc'[q] = pc[q]
  PROVE  \A h \in Msgs \ {m} : Knows(h)'
<1> SUFFICES ASSUME NEW h \in Msgs \ {m}
             PROVE  Knows(h)'
  OBVIOUS
<1>1. pc[h] \notin Holding
  BY OneHolder DEF EntryInv
<1>2. pc[h] \notin {"compress", "cloop", "dropall", "cpick", "clock"}
  BY DEF EntryInv, Knows
<1>3. pc'[h] = pc[h]
  OBVIOUS
<1> QED BY <1>1, <1>2, <1>3 DEF Knows, Holding, TurnHolds, Cleaning

LEMMA EnsureEntry ==
  ASSUME TypeInv, MutexInv, MutexInv', EntryInv, NEW m \in Msgs, EnsureState(m)
  PROVE  EntryInv'
<1> USE LeakTypes DEF EnsureState, Goto, registry, sessVars, stateVars, locals
<1>1. /\ UNCHANGED <<active, hasAgent, proc, clean, sess, ptr, queue, busy>>
      /\ pc[m] = "ensure" /\ pc'[m] = "start"
      /\ \A q \in Procs \ {m} : pc'[q] = pc[q]
      /\ entry' = IF entry = NoState THEN <<m, "placeholder">> ELSE entry
  OBVIOUS
<1>2. OneSession'
  BY <1>1 DEF EntryInv, OneSession, Cleaning
<1>3. Startless'
  <2>1. Startless
    BY DEF EntryInv
  <2>2. \A n \in Msgs :
          pc'[n] \in {"idle", "picked", "locked", "ensure", "start"} =>
            pc[n] \in {"idle", "picked", "locked", "ensure", "start"}
    BY <1>1
  <2>3. hasAgent' = hasAgent
    BY <1>1
  <2> HIDE DEF EnsureState
  <2> QED BY <2>1, <2>2, <2>3 DEF Startless
<1>4. Stopping'
  <2>1. /\ Stopping /\ ~hasAgent[<<m, "placeholder">>]
        /\ entry' \in {entry, <<m, "placeholder">>}
        /\ hasAgent' = hasAgent /\ clean' = clean
    BY <1>1 DEF EntryInv, Startless
  <2> HIDE DEF EnsureState
  <2> QED BY <2>1 DEF Stopping
<1>5. busy'[Session0]
  BY <1>1, <1>2 DEF MutexInv, OneSession, Holding, TurnHolds
<1>6. \A h \in Msgs \ {m} : Knows(h)'
  BY <1>1, OthersKnow DEF Holding, TurnHolds
<1>7. Knows(m)'
  BY <1>1 DEF Knows, Cleaning
<1>8. Whole'
  <2>1. /\ Whole /\ ~hasAgent[<<m, "placeholder">>]
        /\ entry' = IF entry = NoState THEN <<m, "placeholder">> ELSE entry
        /\ hasAgent' = hasAgent /\ proc' = proc
    BY <1>1 DEF EntryInv, Startless
  <2> HIDE DEF EnsureState
  <2> QED BY <2>1 DEF Whole
<1> QED BY <1>2, <1>3, <1>4, <1>5, <1>6, <1>7, <1>8 DEF EntryInv, Attended

LEMMA CreateEntry ==
  ASSUME Enduring, TypeInv, MutexInv, MutexInv', EntryInv, NEW m \in Msgs,
         CreateState(m)
  PROVE  EntryInv'
<1> DEFINE new == <<m, "full">>
           recycle == entry # NoState /\ Alive(entry) /\ ~Matches(m)
<1>0. new \in States
  BY BootIsState
<1>1. /\ UNCHANGED <<active, clean, sess, busy>>
      /\ pc[m] = "start" /\ pc'[m] = "check"
      /\ \A q \in Procs \ {m} : pc'[q] = pc[q] /\ ptr'[q] = ptr[q]
      /\ entry' = new /\ ptr'[m] = new
  BY LeakTypes DEF CreateState, Goto, TypeInv, TypeOK, LocalTypes
<1>2. PICK result \in {"resumed", "fresh", "failed"},
           end \in {"none", "closing", "exited"} :
        /\ result = "failed" => "start" \in Faults
        /\ hasAgent' = [hasAgent EXCEPT ![new] = result # "failed"]
        /\ proc' = [s \in States |->
                      IF s = new /\ result # "failed" THEN "running"
                      ELSE IF recycle /\ s = entry THEN end ELSE proc[s]]
  BY ZenonT(30) DEF CreateState, Closings
<1>3. result # "failed"
  BY <1>2 DEF Enduring
<1>4. hasAgent'[new] /\ proc'[new] = "running" /\ ~hasAgent[new]
  BY <1>0, <1>1, <1>2, <1>3, LeakTypes DEF EntryInv, Startless
<1>5. OneSession'
  BY <1>1 DEF EntryInv, OneSession, Cleaning
<1>6. Startless'
  <2>1. Startless
    BY DEF EntryInv
  <2>2. ASSUME NEW n \in Msgs
        PROVE  ~hasAgent'[<<n, "placeholder">>]
    <3>1. <<n, "placeholder">> # new /\ <<n, "placeholder">> \in States
      BY BootIsState
    <3> QED BY <1>2, <2>1, <3>1, LeakTypes DEF Startless
  <2>3. ASSUME NEW n \in Msgs,
               pc'[n] \in {"idle", "picked", "locked", "ensure", "start"}
        PROVE  ~hasAgent'[<<n, "full">>]
    <3>1. n # m
      BY <1>1, <2>3
    <3>2. <<n, "full">> # new /\ <<n, "full">> \in States
      BY <3>1, BootIsState
    <3>3. pc[n] \in {"idle", "picked", "locked", "ensure", "start"}
      BY <1>1, <2>3, <3>1
    <3> QED BY <1>2, <2>1, <3>2, <3>3, LeakTypes DEF Startless
  <2> QED BY <2>2, <2>3 DEF Startless
<1>7. Stopping'
  BY <1>1, <1>2, <1>4, LeakTypes DEF EntryInv, Stopping
<1>8. busy'[Session0]
  BY <1>1, <1>5 DEF MutexInv, OneSession, Holding, TurnHolds
<1>9. \A h \in Msgs \ {m} : Knows(h)'
  BY <1>1, OthersKnow DEF Holding, TurnHolds
<1>10. Knows(m)'
  BY <1>1, <1>4 DEF Knows, Cleaning, Alive, Up
<1>11. Whole'
  BY <1>1, <1>4 DEF Whole
<1> QED BY <1>5, <1>6, <1>7, <1>8, <1>9, <1>10, <1>11 DEF EntryInv, Attended

LEMMA CleanupEntry ==
  ASSUME TypeInv, MutexInv, MutexInv', LeakInv, EntryInv, NEW p \in Procs,
         CleanupStep(p)
  PROVE  EntryInv'
<1> USE DEF Goto, registry, sessVars, stateVars, locals
<1>1. p \in Msgs /\ pc[p] \in Cleaning
  BY DEF EntryInv, OneSession, CleanupStep, CleanTake, CleanQuiet, CleanClose,
         CleanDelete, Cleaning
<1>2. Knows(p)
  BY <1>1 DEF EntryInv
<1>3. /\ clean[p].expect /\ clean[p].back = "drain"
      /\ clean[p].target \in States
      /\ entry # NoState => entry = clean[p].target
  BY <1>1, <1>2 DEF Knows
<1>4. /\ UNCHANGED <<active, sess, busy>>
      /\ \A q \in Procs \ {p} : pc'[q] = pc[q] /\ clean'[q] = clean[q]
      /\ clean'[p].back = "drain" /\ clean'[p].expect
      /\ clean'[p].target = clean[p].target
      /\ pc'[p] \in {"quiet", "close", "delete", "drain"}
      /\ pc'[p] = "drain" => entry' = NoState
      /\ entry' # NoState => entry' = entry
      /\ \A s \in States : s # entry => hasAgent'[s] = hasAgent[s]
      /\ \A s \in States : hasAgent'[s] => hasAgent[s]
  <2> USE <1>3, LeakTypes DEF CleanupStep
  <2>1. CASE CleanTake(p)
    BY <2>1 DEF CleanTake
  <2>2. CASE CleanQuiet(p)
    BY <2>2 DEF CleanQuiet
  <2>3. CASE CleanClose(p)
    BY <2>3 DEF CleanClose
  <2>4. CASE CleanDelete(p)
    BY <2>4 DEF CleanDelete
  <2> QED BY <2>1, <2>2, <2>3, <2>4
<1>5. OneSession'
  BY <1>1, <1>4, LeakTypes DEF EntryInv, OneSession, Cleaning
<1>6. Startless'
  BY <1>4, BootIsState DEF EntryInv, Startless
<1>7. Stopping'
  BY <1>1, <1>4, LeakTypes DEF EntryInv, Stopping
<1>8. pc'[p] \in Holding
  BY <1>4 DEF Holding, TurnHolds, Cleaning
<1>9. busy'[Session0]
  BY <1>1, <1>5, <1>8 DEF MutexInv, OneSession
<1>10. \A h \in Msgs \ {p} : Knows(h)'
  BY <1>1, <1>4, OthersKnow DEF Holding
<1>11. Knows(p)'
  BY <1>1, <1>3, <1>4 DEF Knows, Cleaning
<1>12. Whole'
  <2>1. CASE UNCHANGED proc
    BY <1>3, <1>4, <2>1 DEF EntryInv, Whole
  <2>2. CASE CleanClose(p)
    <3>1. ~hasAgent[clean[p].target] /\ UNCHANGED <<entry, hasAgent>>
      BY <1>1, <1>3, <2>2, LeakTypes DEF CleanClose, LeakInv, Found
    <3> QED BY <1>3, <3>1 DEF Whole
  <2> QED BY <2>1, <2>2 DEF CleanupStep, CleanTake, CleanQuiet, CleanDelete
<1> QED BY <1>1, <1>5, <1>6, <1>7, <1>9, <1>10, <1>11, <1>12 DEF EntryInv, Attended

\* A step of a command: it changes no agent but one that has left the map, and
\* the map only by emptying it.
Outside(c) ==
  /\ UNCHANGED <<active, sess, busy, hasAgent>>
  /\ \A q \in Msgs : pc'[q] = pc[q] /\ clean'[q] = clean[q] /\ ptr'[q] = ptr[q]
  /\ \A q \in Commands \ {c} : pc'[q] = pc[q] /\ clean'[q] = clean[q]
  /\ pc'[c] \notin Cleaning \cup {"rotate"}
  /\ clean'[c].back \in {"unbind", "done"}
  /\ entry' # NoState =>
       entry' = entry /\ proc'[entry] = proc[entry]
       /\ (queue[entry] = <<>> => queue'[entry] = <<>>)
  /\ clean'[c].owns =>
       /\ clean'[c].target \in States \ {entry'}
       /\ hasAgent[clean'[c].target]

LEMMA OutsideEntry ==
  ASSUME TypeInv, EntryInv, NEW c \in Commands, Outside(c)
  PROVE  EntryInv'
<1>1. OneSession'
  BY DEF EntryInv, OneSession, Outside
<1>2. Startless'
  BY DEF EntryInv, Startless, Outside
<1>3. Stopping'
  BY LeakTypes DEF EntryInv, Stopping, Outside
<1>4. Healthy => Healthy'
  BY DEF Healthy, Alive, Up, Outside
<1>5. Attended' /\ (~busy'[Session0] => Healthy')
  BY <1>4 DEF EntryInv, Attended, Outside
<1>6. ASSUME NEW h \in Msgs
      PROVE  Knows(h)'
  <2>1. /\ Knows(h) /\ pc'[h] = pc[h] /\ clean'[h] = clean[h]
        /\ ptr'[h] = ptr[h] /\ UNCHANGED hasAgent
        /\ entry' # NoState => entry' = entry /\ proc'[entry] = proc[entry]
    BY DEF EntryInv, Outside
  <2> QED BY <1>4, <2>1 DEF Knows, Alive, Up
<1>7. Whole'
  BY DEF EntryInv, Whole, Outside
<1> QED BY <1>1, <1>2, <1>3, <1>5, <1>6, <1>7 DEF EntryInv

LEMMA CommandEntry ==
  ASSUME Enduring, TypeInv, EntryInv, NEW c \in Commands, Command(c)
  PROVE  EntryInv'
<1>a. /\ OneSession /\ Stopping /\ queue \in [States -> Seq(Msgs)]
      /\ ptr \in [Procs -> StateOrNone]
  BY DEF EntryInv, TypeInv, TypeOK, QueueTypes, LocalTypes
<1>b. c \notin Msgs /\ pc[c] \notin Cleaning \cup {"rotate"}
      /\ clean[c].back \in {"unbind", "done"}
  BY <1>a, LeakTypes DEF OneSession
<1>c. clean[c].owns =>
        clean[c].target \in States \ {entry} /\ hasAgent[clean[c].target]
  BY <1>a DEF Stopping
<1> USE <1>a, <1>b, <1>c, LeakTypes
    DEF Outside, Goto, Cleaning, registry, sessVars, stateVars, locals
<1>1. CASE CmdNew(c) \/ Rotate(c)
  BY <1>1 DEF CmdNew, Rotate, Enduring, OneKey
<1>2. CASE CmdStop(c)
  <2>1. Outside(c)
    BY <1>2 DEF CmdStop, StopTake
  <2> QED BY <2>1, OutsideEntry
<1>3. CASE RecallStop(c)
  <2>1. Outside(c)
    BY <1>3 DEF RecallStop, StopTake
  <2> QED BY <2>1, OutsideEntry
<1>4. CASE StopNotify(c)
  <2>1. Outside(c)
    BY <1>4 DEF StopNotify, DropQueue
  <2> QED BY <2>1, OutsideEntry
<1>5. CASE StopClose(c)
  <2>1. Outside(c)
    BY <1>5 DEF StopClose
  <2> QED BY <2>1, OutsideEntry
<1>6. CASE Unbind(c)
  <2>1. Outside(c)
    BY <1>6 DEF Unbind
  <2> QED BY <2>1, OutsideEntry
<1>7. CASE RecallCurrent(c)
  <2>1. Outside(c)
    BY <1>7 DEF RecallCurrent
  <2> QED BY <2>1, OutsideEntry
<1>8. CASE RecallCollect(c)
  <2>1. Outside(c)
    BY <1>8 DEF RecallCollect
  <2> QED BY <2>1, OutsideEntry
<1>9. CASE RecallQueued(c)
  <2>1. Outside(c)
    BY <1>9 DEF RecallQueued
  <2> QED BY <2>1, OutsideEntry
<1> QED BY <1>1, <1>2, <1>3, <1>4, <1>5, <1>6, <1>7, <1>8, <1>9 DEF Command

LEMMA EntryNext ==
  ASSUME Enduring, TypeInv, MutexInv, LeakInv, EntryInv, [Next]_vars
  PROVE  EntryInv'
<1>0. PlainTurns /\ "exit" \notin Faults
  BY DEF Enduring, OneKey
<1>t. MutexInv'
  BY <1>0, MutexNext
<1>1. ASSUME NEW m \in Msgs, Arrival(m) \/ Handler(m)
      PROVE  EntryInv'
  <2>1. ~UnlockOldSession(m) /\ ~NewSession(m) /\ ~LockNewSession(m)
    BY DEF MutexInv, Resetting, UnlockOldSession, NewSession, LockNewSession
  <2>2. ~StartIdleReset(m)
    BY <1>0 DEF PlainTurns, StartIdleReset
  <2>3. ~CmdCompress(m)
    BY CompressNever
  <2>4. EnsureState(m) => EntryInv'
    BY <1>t, EnsureEntry
  <2>5. CASE Arrive(m) \/ TryLock(m) \/ Lookup(m) \/ QueueMessage(m) \/ Retry(m)
             \/ KeepSession(m) \/ DrainOrphaned(m)
    BY <1>t, <2>5, HandlerMild, MildEntry
  <2> QED BY <1>1, <2>1, <2>2, <2>3, <2>4, <2>5 DEF Arrival, Handler
<1>2. ASSUME NEW m \in Msgs, Turn(m)
      PROVE  EntryInv'
  <2>1. CreateState(m) => EntryInv'
    BY <1>t, CreateEntry
  <2>2. ~AutoCompress(m)
    BY CompressNever
  <2> QED BY <1>t, <1>2, <2>1, <2>2, TurnMild, MildEntry DEF Turn
<1>3. ASSUME NEW m \in Msgs, Compress(m)
      PROVE  EntryInv'
  BY <1>3, CompressNever
<1>4. ASSUME UNCHANGED <<entry, active, busy, hasAgent, proc, queue, sess, ptr,
                         pc, clean>>
      PROVE  EntryInv'
  <2>1. OneSession' /\ Whole' /\ Startless' /\ Stopping' /\ Attended'
    BY <1>4 DEF EntryInv, OneSession, Whole, Startless, Stopping, Attended
  <2>2. Healthy <=> Healthy'
    BY <1>4 DEF Healthy, Alive, Up
  <2>3. \A h \in Msgs : Knows(h)'
    BY <1>4, <2>2 DEF EntryInv, Knows, Alive, Up
  <2> QED BY <1>4, <2>1, <2>2, <2>3 DEF EntryInv
<1>5. ASSUME NEW m \in Msgs, Panic(m)
      PROVE  EntryInv'
  BY <1>4, <1>5 DEF Panic, registry, sessVars, stateVars, locals
<1>6. ASSUME NEW p \in Procs, CleanupStep(p)
      PROVE  EntryInv'
  BY <1>t, <1>6, CleanupEntry
<1>7. ASSUME NEW c \in Commands, Command(c)
      PROVE  EntryInv'
  BY <1>7, CommandEntry
<1>8. ASSUME NEW s \in States, AgentExit(s)
      PROVE  EntryInv'
  <2>1. /\ proc[s] = "closing" /\ proc' = [proc EXCEPT ![s] = "exited"]
        /\ UNCHANGED <<entry, active, busy, hasAgent, queue, sess, ptr, pc, clean>>
    BY <1>0, <1>8 DEF AgentExit, registry, sessVars, locals
  <2>2. OneSession' /\ Startless' /\ Stopping' /\ Attended'
    BY <2>1 DEF EntryInv, OneSession, Startless, Stopping, Attended
  <2>3. entry # NoState /\ hasAgent[entry] => proc'[entry] = proc[entry]
    BY <2>1, LeakTypes DEF EntryInv, Whole
  <2>4. Whole' /\ (Healthy => Healthy')
    BY <2>1, <2>3 DEF EntryInv, Whole, Healthy, Alive, Up
  <2>5. \A h \in Msgs : Knows(h)'
    BY <2>1, <2>3, <2>4 DEF EntryInv, Knows, Alive, Up
  <2> QED BY <2>1, <2>2, <2>4, <2>5 DEF EntryInv
<1>9. CASE UNCHANGED vars
  BY <1>4, <1>9 DEF vars, registry, sessVars, stateVars, locals
<1> QED BY <1>1, <1>2, <1>3, <1>5, <1>6, <1>7, <1>8, <1>9 DEF Next, Finished

\* The holder of the lock serves the state in the map.
LEMMA EntryHolder ==
  ASSUME TypeInv, MutexInv, EntryInv
  PROVE  EntryQueueServed
<1> SUFFICES ASSUME entry # NoState, queue[entry] # <<>>
             PROVE  Servers(entry) # {}
  BY DEF EntryQueueServed
<1>1. CASE \E m \in Msgs : pc[m] = "retry"
  BY <1>1 DEF Servers
<1>2. CASE busy[Session0]
  <2>1. PICK m \in Msgs : Holds(m, Session0)
    BY <1>2 DEF MutexInv
  <2>2. pc[m] \in Holding /\ pc[m] # "reset" /\ Knows(m)
    BY <2>1 DEF Holds, EntryInv, MutexInv, Resetting
  <2>3. CASE pc[m] \in {"locked", "ensure", "start", "orphan"} \cup Cleaning
    BY <2>3 DEF Servers
  <2>4. CASE pc[m] \in {"check", "send", "loop", "replied", "drain", "popped"}
    <3>1. ptr[m] = entry
      BY <2>2, <2>4 DEF Knows
    <3>2. m \in Servers(entry)
      BY <2>4, <3>1 DEF Servers, TurnHolds
    <3> QED BY <3>2
  <2> QED BY <2>2, <2>3, <2>4 DEF Knows, Holding, TurnHolds
<1> QED BY <1>1, <1>2 DEF EntryInv, Attended

\* Stopped, recalled, closed after a timeout or refused by its agent, the state
\* that is in the map never holds an acknowledged message that nobody will look
\* at, for any number of messages and of commands, as long as the agent starts
\* and lives until it is closed: every return that gives the busy flag back has
\* found the queue empty or the state gone from the map.
THEOREM EntryQueueAttended ==
  ASSUME Enduring
  PROVE  Spec => []EntryQueueServed
<1>1. PlainTurns /\ OneKey
  BY DEF Enduring, OneKey
<1>2. TypeInv /\ MutexInv /\ LeakInv /\ EntryInv => EntryQueueServed
  BY EntryHolder
<1>3. TypeInv /\ MutexInv /\ LeakInv /\ EntryInv /\ [Next]_vars =>
        TypeInv' /\ MutexInv' /\ LeakInv' /\ EntryInv'
  BY <1>1, TypeNext, MutexNext, LeakNext, EntryNext
<1>4. Init => TypeInv /\ MutexInv /\ LeakInv /\ EntryInv
  BY TypeInit, MutexInit, LeakInit, EntryInit
<1> QED BY <1>2, <1>3, <1>4, PTL DEF Spec
=============================================================================
