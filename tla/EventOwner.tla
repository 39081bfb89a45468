----------------------------- MODULE EventOwner -----------------------------
(***************************************************************************)
(* Who reads an agent's events channel (core/engine.go).  An agent process *)
(* emits one stream of events: the outcomes of the prompts it was sent,    *)
(* and the results of turns it took of its own accord (a background task   *)
(* that completed).  A foreground turn reads the stream while it holds the *)
(* busy flag of the Session; between turns a background goroutine, the     *)
(* unsolicited reader, does.  A turn stops the reader before it reads, and *)
(* starts a new one after it has released the Session.                     *)
(*                                                                         *)
(* One interactiveState, one Session and one agent process; a message that *)
(* finds the Session busy is queued.  A turn's events are its last one: a  *)
(* result or an error.  One action is one critical section of state.mu or  *)
(* Session.mu with the code around it, or one channel operation.           *)
(***************************************************************************)
EXTENDS Naturals, Sequences

CONSTANTS
  Msgs,           \* the messages; each names its goroutine, and its reader
  CompressCmds,   \* the messages that are /compress commands
  Halt,           \* the goroutine of a /stop
  NoMsg,          \* no message; the turns the agent takes by itself
  Faults,         \* what may go wrong, see EventOwnerAssumption
  MaxStrays   \* bound on the events the agent emits unasked

ASSUME EventOwnerAssumption ==
  /\ CompressCmds \subseteq Msgs
  /\ Halt \notin Msgs
  /\ NoMsg \notin Msgs \cup {Halt}
  /\ Faults \subseteq {"error", "late", "timeout", "stop", "exit"}
  /\ MaxStrays \in Nat

Procs == Msgs \cup {Halt}

VARIABLES
  busy,      \* Session.busy
  queue,     \* interactiveState.pendingMessages
  resync,    \* interactiveState.eventsNeedResync
  stopped,   \* interactiveState.stopped; the state has left the map
  reg,       \* whose reader unsolicitedCancel and unsolicitedDone are of
  pc,        \* where each goroutine is
  cur,       \* the message a goroutine is answering
  then,      \* where stopUnsolicitedReader returns to
  await,     \* the reader a goroutine waits for in stopUnsolicitedReader
  reader,    \* where each reader is
  cancelled, \* the readers whose context is cancelled
  held,      \* the event a reader has received
  events,    \* the events channel
  closed,    \* the channel is closed
  prompts,   \* the prompts the agent has not answered yet
  strays,    \* how many events the agent has emitted unasked
  told,      \* the event each message was answered with
  lapses     \* what has gone wrong so far in the hand-over of the channel

turnVars == <<busy, queue, cur, told>>
stateVars == <<resync, stopped>>
stopVars == <<reg, then, await>>
readerVars == <<reader, held>>
agentVars == <<events, closed, prompts, strays>>
vars == <<turnVars, stateVars, pc, stopVars, cancelled, readerVars, agentVars,
          lapses>>

Labels ==
  {"idle", "retry", "orphan", "stop", "stopping", "resync", "flush", "send",
   "loop", "replied", "drain", "alive", "register", "mark", "drop", "close",
   "done"}

\* The channel belongs to the turn: it has stopped the reader.
Owning == {"resync", "flush", "send", "loop", "replied", "drain"}

\* Between Session.Unlock and the start of a reader.
Starting(m) ==
  \/ pc[m] \in {"alive", "register"}
  \/ pc[m] \in {"stop", "stopping"} /\ then[m] = "register"

NoEvent == [of |-> NoMsg, kind |-> "none"]
Events == [of : Msgs \cup {NoMsg}, kind : {"result", "error"}]

TypeOK ==
  /\ busy \in BOOLEAN
  /\ queue \in Seq(Msgs)
  /\ resync \in BOOLEAN /\ stopped \in BOOLEAN /\ closed \in BOOLEAN
  /\ reg \in Msgs \cup {NoMsg}
  /\ pc \in [Procs -> Labels]
  /\ cur \in [Msgs -> Msgs]
  /\ then \in [Procs -> {"none", "resync", "drain", "flush", "register",
                          "mark"}]
  /\ await \in [Procs -> Msgs \cup {NoMsg}]
  /\ reader \in [Msgs -> {"none", "wait", "got", "relay", "done"}]
  /\ cancelled \subseteq Msgs
  /\ held \in [Msgs -> Events \cup {NoEvent}]
  /\ events \in Seq(Events)
  /\ prompts \in Seq(Msgs)
  /\ strays \in 0 .. MaxStrays
  /\ told \in [Msgs -> Events \cup {NoEvent}]
  /\ lapses \subseteq {"taken early", "timeout", "compress"}

\* A new state: eventsNeedResync is true, no reader, an agent that is running.
Init ==
  /\ busy = FALSE
  /\ queue = <<>>
  /\ resync = TRUE /\ stopped = FALSE /\ closed = FALSE
  /\ reg = NoMsg
  /\ pc = [p \in Procs |-> "idle"]
  /\ cur = [m \in Msgs |-> m]
  /\ then = [p \in Procs |-> "none"]
  /\ await = [p \in Procs |-> NoMsg]
  /\ reader = [m \in Msgs |-> "none"]
  /\ cancelled = {}
  /\ held = [m \in Msgs |-> NoEvent]
  /\ events = <<>> /\ prompts = <<>>
  /\ strays = 0
  /\ told = [m \in Msgs |-> NoEvent]
  /\ lapses = {}

Running(r) == reader[r] \in {"wait", "got", "relay"}

Goto(p, label) == pc' = [pc EXCEPT ![p] = label]

\* Call stopUnsolicitedReader, and go on at `after`.
CallStop(p, after) ==
  /\ Goto(p, "stop")
  /\ then' = [then EXCEPT ![p] = after]

\* Session.TryLock.  Taking it before the last owner has started its reader is
\* noted: nothing in the code prevents it.
Lock ==
  /\ ~busy
  /\ busy' = TRUE
  /\ lapses' = lapses \cup
                 (IF \E x \in Msgs : Starting(x) THEN {"taken early"} ELSE {})

-----------------------------------------------------------------------------
(* A message arrives *)

\* Mutant of Arrive: the Session is taken without testing its flag.
ArriveUntested(m) ==
  /\ pc[m] = "idle"
  /\ busy' = TRUE
  /\ CallStop(m, "resync")
  /\ UNCHANGED <<queue, cur, told, stateVars, reg, await, cancelled,
                 readerVars, agentVars, lapses>>

\* The Session is free: a turn begins.  When the agent has exited, it begins on
\* another state with another agent.
Arrive(m) ==
  /\ pc[m] = "idle"
  /\ ~stopped /\ ~closed
  /\ Lock
  /\ CallStop(m, IF m \in CompressCmds THEN "flush" ELSE "resync")
  /\ UNCHANGED <<queue, cur, told, stateVars, reg, await, cancelled,
                 readerVars, agentVars>>

\* It is busy: the message is queued, a /compress refused.
ArriveBusy(m) ==
  /\ pc[m] = "idle"
  /\ ~stopped
  /\ busy
  /\ IF m \in CompressCmds
       THEN Goto(m, "done") /\ UNCHANGED queue
       ELSE Goto(m, "retry") /\ queue' = Append(queue, m)
  /\ UNCHANGED <<busy, cur, told, stateVars, stopVars, cancelled,
                 readerVars, agentVars, lapses>>

\* After queueing, a second TryLock.
Retry(m) ==
  /\ pc[m] = "retry"
  /\ \/ Lock /\ Goto(m, "orphan")
     \/ busy /\ Goto(m, "done") /\ UNCHANGED <<busy, lapses>>
  /\ UNCHANGED <<queue, cur, told, stateVars, stopVars, cancelled, readerVars,
                 agentVars>>

\* drainOrphanedQueue: nothing to do when the state is gone; its queue is
\* dropped when the agent is.
Orphan(m) ==
  /\ pc[m] = "orphan"
  /\ IF stopped \/ closed
       THEN /\ Goto(m, "done")
            /\ busy' = FALSE
            /\ queue' = IF stopped THEN queue ELSE <<>>
            /\ UNCHANGED then
       ELSE CallStop(m, "drain") /\ UNCHANGED <<busy, queue>>
  /\ UNCHANGED <<cur, told, stateVars, reg, await, cancelled, readerVars,
                 agentVars, lapses>>

-----------------------------------------------------------------------------
(* stopUnsolicitedReader *)

Return(p) ==
  /\ Goto(p, then[p])
  /\ then' = [then EXCEPT ![p] = "none"]

\* Mutant of StopReader: the reader is cancelled and not waited for.
StopReaderNoWait(p) ==
  /\ pc[p] = "stop"
  /\ cancelled' = cancelled \cup ({reg} \ {NoMsg})
  /\ reg' = NoMsg
  /\ Return(p)
  /\ UNCHANGED <<turnVars, stateVars, await, readerVars, agentVars,
                 lapses>>

\* Take the registered reader, if any, and cancel it.
StopReader(p) ==
  /\ pc[p] = "stop"
  /\ await' = [await EXCEPT ![p] = reg]
  /\ cancelled' = cancelled \cup ({reg} \ {NoMsg})
  /\ reg' = NoMsg
  /\ IF reg = NoMsg
       THEN Return(p)
       ELSE Goto(p, "stopping") /\ UNCHANGED then
  /\ UNCHANGED <<turnVars, stateVars, readerVars, agentVars, lapses>>

\* <-done
ReaderStopped(p) ==
  /\ pc[p] = "stopping"
  /\ ~Running(await[p])
  /\ await' = [await EXCEPT ![p] = NoMsg]
  /\ Return(p)
  /\ UNCHANGED <<turnVars, stateVars, reg, cancelled, readerVars,
                 agentVars, lapses>>

\* unsolicitedReaderStopTimeout: the reader is in a slow call.
StopTimeout(p) ==
  /\ "timeout" \in Faults
  /\ pc[p] = "stopping"
  /\ Running(await[p])
  /\ await' = [await EXCEPT ![p] = NoMsg]
  /\ resync' = TRUE
  /\ lapses' = lapses \cup {"timeout"}
  /\ Return(p)
  /\ UNCHANGED <<turnVars, stopped, reg, cancelled, readerVars,
                 agentVars>>

-----------------------------------------------------------------------------
(* The turn *)

ReadResync(m) ==
  /\ pc[m] = "resync"
  /\ Goto(m, IF resync THEN "flush" ELSE "send")
  /\ UNCHANGED <<turnVars, stateVars, stopVars, cancelled, readerVars,
                 agentVars, lapses>>

\* drainEvents
Flush(m) ==
  /\ pc[m] = "flush"
  /\ events' = <<>>
  /\ Goto(m, "send")
  /\ UNCHANGED <<turnVars, stateVars, stopVars, cancelled, readerVars, closed,
                 prompts, strays, lapses>>

\* agentSession.Send, which runs beside the event loop.
Send(m) ==
  /\ pc[m] = "send"
  /\ prompts' = Append(prompts, cur[m])
  /\ Goto(m, "loop")
  /\ UNCHANGED <<turnVars, stateVars, stopVars, cancelled, readerVars, events,
                 closed, strays, lapses>>

\* processInteractiveEvents records how the turn ended;
\* processCompressEvents leaves eventsNeedResync alone.
Mark(m, value) == resync' = IF cur[m] \in CompressCmds THEN resync ELSE value

\* The loop takes the next event for the answer of its message.
Receive(m) ==
  /\ pc[m] = "loop"
  /\ events # <<>>
  /\ events' = Tail(events)

\* EventResult
LoopResult(m) ==
  /\ Receive(m)
  /\ ~stopped
  /\ Head(events).kind = "result"
  /\ told' = [told EXCEPT ![cur[m]] = Head(events)]
  /\ Mark(m, FALSE)
  /\ Goto(m, IF cur[m] \in CompressCmds THEN "drain" ELSE "replied")
  /\ UNCHANGED <<busy, queue, cur, stopped, stopVars, cancelled,
                 readerVars, closed, prompts, strays, lapses>>

\* EventError: the agent is still alive, the turn is over.
LoopError(m) ==
  /\ Receive(m)
  /\ ~stopped
  /\ Head(events).kind = "error"
  /\ told' = [told EXCEPT ![cur[m]] = Head(events)]
  /\ Mark(m, TRUE)
  /\ Goto(m, "drain")
  /\ UNCHANGED <<busy, queue, cur, stopped, stopVars, cancelled,
                 readerVars, closed, prompts, strays, lapses>>

\* A /compress that ends early leaves the queue to others.
LeaveEarly(m) ==
  IF cur[m] \in CompressCmds
    THEN Goto(m, "done") /\ busy' = FALSE
    ELSE Goto(m, "drain") /\ UNCHANGED busy

\* The stop signal, or state.isStopped() after an event has been received.
LoopStopped(m) ==
  /\ pc[m] = "loop"
  /\ stopped
  /\ \/ UNCHANGED <<events, resync>>
     \/ Receive(m) /\ Mark(m, TRUE)
  /\ LeaveEarly(m)
  /\ UNCHANGED <<queue, cur, told, stopped, stopVars, cancelled,
                 readerVars, closed, prompts, strays, lapses>>

\* The channel is closed: the agent has exited, the queue is dropped.
LoopClosed(m) ==
  /\ pc[m] = "loop"
  /\ closed /\ events = <<>>
  /\ Mark(m, TRUE)
  /\ queue' = <<>>
  /\ LeaveEarly(m)
  /\ UNCHANGED <<cur, told, stopped, stopVars, cancelled, readerVars,
                 agentVars, lapses>>

\* The next queued message, in the event loop or in drainPendingMessages;
\* both drain the channel before they send.
TakeQueued(m) ==
  /\ pc[m] \in {"replied", "drain"}
  /\ queue # <<>>
  /\ pc[m] = "drain" => ~closed
  /\ cur' = [cur EXCEPT ![m] = Head(queue)]
  /\ queue' = Tail(queue)
  /\ Goto(m, "flush")
  /\ UNCHANGED <<busy, told, stateVars, stopVars, cancelled, readerVars,
                 agentVars, lapses>>

\* drainPendingMessages on a dead agent drops the queue.
DropQueued(m) ==
  /\ pc[m] = "drain"
  /\ queue # <<>>
  /\ closed
  /\ queue' = <<>>
  /\ busy' = FALSE
  /\ Goto(m, "done")
  /\ UNCHANGED <<cur, told, stateVars, stopVars, cancelled, readerVars,
                 agentVars, lapses>>

LeaveLoop(m) ==
  /\ pc[m] = "replied"
  /\ queue = <<>>
  /\ Goto(m, "drain")
  /\ UNCHANGED <<turnVars, stateVars, stopVars, cancelled, readerVars,
                 agentVars, lapses>>

\* Mutant of Unlock: the reader is never looked after again.
UnlockDeaf(m) ==
  /\ pc[m] = "drain"
  /\ queue = <<>>
  /\ busy' = FALSE
  /\ Goto(m, "done")
  /\ UNCHANGED <<queue, cur, told, stateVars, stopVars, cancelled,
                 readerVars, agentVars, lapses>>

\* The queue is empty: Session.Unlock under state.mu.  The goroutine of a
\* /compress ends here, and nobody restarts the reader it has stopped.
Unlock(m) ==
  /\ pc[m] = "drain"
  /\ queue = <<>>
  /\ busy' = FALSE
  /\ IF m \in CompressCmds
       THEN Goto(m, "done") /\ lapses' = lapses \cup {"compress"}
       ELSE Goto(m, "alive") /\ UNCHANGED lapses
  /\ UNCHANGED <<queue, cur, told, stateVars, stopVars, cancelled,
                 readerVars, agentVars>>

\* Is a reader to be started?
ReadAlive(m) ==
  /\ pc[m] = "alive"
  /\ IF ~closed /\ ~stopped /\ ~resync
       THEN CallStop(m, "register")
       ELSE Goto(m, "done") /\ UNCHANGED then
  /\ UNCHANGED <<turnVars, stateVars, reg, await, cancelled, readerVars,
                 agentVars, lapses>>

\* startUnsolicitedReader, after it has stopped the previous reader.  The
\* Session is not locked, so another turn may own the channel by now.
Register(m) ==
  /\ pc[m] = "register"
  /\ reg' = m
  /\ reader' = [reader EXCEPT ![m] = "wait"]
  /\ Goto(m, "done")
  /\ UNCHANGED <<turnVars, stateVars, then, await, cancelled, held, agentVars,
                 lapses>>

-----------------------------------------------------------------------------
(* runUnsolicitedReader *)

ReaderCancelled(r) ==
  /\ reader[r] = "wait"
  /\ r \in cancelled
  /\ reader' = [reader EXCEPT ![r] = "done"]
  /\ UNCHANGED <<turnVars, stateVars, pc, stopVars, cancelled, held, agentVars,
                 lapses>>

\* select takes either case when both are ready.
ReaderReceive(r) ==
  /\ reader[r] = "wait"
  /\ events # <<>>
  /\ held' = [held EXCEPT ![r] = Head(events)]
  /\ events' = Tail(events)
  /\ reader' = [reader EXCEPT ![r] = "got"]
  /\ UNCHANGED <<turnVars, stateVars, pc, stopVars, cancelled, closed, prompts,
                 strays, lapses>>

ReaderClosed(r) ==
  /\ reader[r] = "wait"
  /\ closed /\ events = <<>>
  /\ resync' = TRUE
  /\ reader' = [reader EXCEPT ![r] = "done"]
  /\ UNCHANGED <<turnVars, stopped, pc, stopVars, cancelled, held, agentVars,
                 lapses>>

\* The event is dropped when the context has been cancelled meanwhile.
ReaderCheck(r) ==
  /\ reader[r] = "got"
  /\ IF r \in cancelled
       THEN /\ reader' = [reader EXCEPT ![r] = "done"]
            /\ held' = [held EXCEPT ![r] = NoEvent]
            /\ resync' = TRUE
       ELSE /\ reader' = [reader EXCEPT ![r] = "relay"]
            /\ UNCHANGED <<held, resync>>
  /\ UNCHANGED <<turnVars, stopped, pc, stopVars, cancelled, agentVars, lapses>>

\* The result has been sent and recorded; an error ends the reader.
ReaderRelay(r) ==
  /\ reader[r] = "relay"
  /\ IF held[r].kind = "result"
       THEN reader' = [reader EXCEPT ![r] = "wait"] /\ resync' = FALSE
       ELSE reader' = [reader EXCEPT ![r] = "done"] /\ resync' = TRUE
  /\ held' = [held EXCEPT ![r] = NoEvent]
  /\ UNCHANGED <<turnVars, stopped, pc, stopVars, cancelled, agentVars, lapses>>

-----------------------------------------------------------------------------
(* The agent process *)

Emit(m, kind) == events' = Append(events, [of |-> m, kind |-> kind])

\* The oldest prompt is answered, or its turn fails.
Answer ==
  /\ ~closed
  /\ prompts # <<>>
  /\ \/ Emit(Head(prompts), "result")
     \/ "error" \in Faults /\ Emit(Head(prompts), "error")
  /\ prompts' = Tail(prompts)
  /\ UNCHANGED <<turnVars, stateVars, pc, stopVars, cancelled, readerVars,
                 closed, strays, lapses>>

\* An error that belongs to no waiting prompt: a failed read, or the exit status
\* of a process that has reported its result already.
LateError ==
  /\ "late" \in Faults
  /\ ~closed
  /\ strays < MaxStrays
  /\ strays' = strays + 1
  /\ Emit(NoMsg, "error")
  /\ UNCHANGED <<turnVars, stateVars, pc, stopVars, cancelled, readerVars,
                 closed, prompts, lapses>>

\* A turn of the agent's own.
Background ==
  /\ ~closed
  /\ strays < MaxStrays
  /\ strays' = strays + 1
  /\ Emit(NoMsg, "result")
  /\ UNCHANGED <<turnVars, stateVars, pc, stopVars, cancelled, readerVars,
                 closed, prompts, lapses>>

\* The process exits by itself.  To bound the instances a behaviour has such an
\* exit or a /stop, not both.
AgentExit ==
  /\ "exit" \in Faults
  /\ ~closed /\ pc[Halt] = "idle"
  /\ closed' = TRUE
  /\ UNCHANGED <<turnVars, stateVars, pc, stopVars, cancelled, readerVars, events,
                 prompts, strays, lapses>>

-----------------------------------------------------------------------------
(* stopInteractiveSession: the goroutine of a /stop *)

HaltBegin ==
  /\ "stop" \in Faults
  /\ pc[Halt] = "idle" /\ ~closed
  /\ CallStop(Halt, "mark")
  /\ UNCHANGED <<turnVars, stateVars, reg, await, cancelled, readerVars,
                 agentVars, lapses>>

\* markStopped, and the state leaves the map.
HaltMark ==
  /\ pc[Halt] = "mark"
  /\ stopped' = TRUE
  /\ Goto(Halt, "drop")
  /\ UNCHANGED <<turnVars, resync, stopVars, cancelled, readerVars, agentVars,
                 lapses>>

\* notifyDroppedQueuedMessages
HaltDrop ==
  /\ pc[Halt] = "drop"
  /\ queue' = <<>>
  /\ Goto(Halt, "close")
  /\ UNCHANGED <<busy, cur, told, stateVars, stopVars, cancelled,
                 readerVars, agentVars, lapses>>

\* closeAgentSessionAsync: the process ends and closes its channel.
HaltClose ==
  /\ pc[Halt] = "close"
  /\ closed' = TRUE
  /\ Goto(Halt, "done")
  /\ UNCHANGED <<turnVars, stateVars, stopVars, cancelled, readerVars, events,
                 prompts, strays, lapses>>

-----------------------------------------------------------------------------
(* The specification *)

HandleMessage(m) ==
  \/ Arrive(m) \/ ArriveBusy(m) \/ Retry(m) \/ Orphan(m)

Turn(m) ==
  \/ ReadResync(m) \/ Flush(m) \/ Send(m)
  \/ LoopResult(m) \/ LoopError(m) \/ LoopStopped(m) \/ LoopClosed(m)
  \/ TakeQueued(m) \/ DropQueued(m) \/ LeaveLoop(m) \/ Unlock(m)
  \/ ReadAlive(m) \/ Register(m)

Stop(p) == StopReader(p) \/ ReaderStopped(p) \/ StopTimeout(p)

Reader(r) ==
  \/ ReaderCancelled(r) \/ ReaderReceive(r) \/ ReaderClosed(r)
  \/ ReaderCheck(r) \/ ReaderRelay(r)

Agent == Answer \/ LateError \/ Background \/ AgentExit

HaltStep == HaltBegin \/ HaltMark \/ HaltDrop \/ HaltClose

Next ==
  \/ \E m \in Msgs : HandleMessage(m) \/ Turn(m) \/ Reader(m)
  \/ \E p \in Procs : Stop(p)
  \/ Agent
  \/ HaltStep

Spec == Init /\ [][Next]_vars

-----------------------------------------------------------------------------
(* Properties *)

\* While a turn owns the channel no background reader is running, not even a
\* cancelled one: as long as no turn was early and no reader outlived the
\* wait for it, and no /stop has taken the reader away (lines 2711-2720, 3223).
SoleConsumer ==
  (lapses \cap {"taken early", "timeout"} = {} /\ pc[Halt] = "idle") =>
    \A m, r \in Msgs : pc[m] \in Owning => ~Running(r)

\* When nobody is at work, the agent runs and the last turn ended cleanly, a
\* reader that is not cancelled listens to the agent, so what it says on its own accord is
\* relayed (lines 2753-2761, 3253).
Listening ==
  (/\ lapses = {}
   /\ pc[Halt] = "idle"
   /\ ~resync /\ ~closed
   /\ \A m \in Msgs : pc[m] \in {"idle", "done"}) =>
    reg # NoMsg /\ reg \notin cancelled /\ Running(reg)

\* An agent that takes no turns of its own and reports nothing after a result
\* has its results shown as the answer of the message that asked, whatever the
\* order of turns, drains, readers and teardowns (lines 2713-2720, 4445, 4739).
AnswerOwn ==
  strays = 0 =>
    \A m \in Msgs : told[m].kind = "result" => told[m].of = m

\* A turn's events are read by the turn alone: the comment of lines 3402-3410
\* says a reader and a foreground turn never overlap.
OneConsumer ==
  \A m, r \in Msgs : pc[m] \in Owning => ~Running(r)

=============================================================================
