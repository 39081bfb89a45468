----------------------------- MODULE TurnEngine -----------------------------
(***************************************************************************)
(* The turn engine of cc-connect (core/engine.go): what happens to the    *)
(* chat messages of ONE session key between their arrival and their        *)
(* outcome.  Every message is handled by a goroutine of its own, which     *)
(* either takes the busy flag of the active Session and runs a turn on the *)
(* agent process, or appends the message to the queue of the interactive   *)
(* state it found in the map, or refuses it.  Commands (/new, /stop,       *)
(* a recall) are goroutines that tear the interactive state down while     *)
(* turns are running.                                                      *)
(*                                                                         *)
(* One action is one critical section (interactiveMu, state.mu, Session.mu *)
(* or SessionManager.mu) together with the lock-free code around it that   *)
(* touches only the goroutine's own variables.                             *)
(***************************************************************************)
EXTENDS Naturals, Sequences, FiniteSets

CONSTANTS
  Msgs,            \* the messages; each names its handler and turn goroutine
  CompressCmds,    \* the messages that are /compress commands
  Commands,        \* the goroutines of /new, /stop and recall
  CmdKinds,        \* which commands may be issued: "new", "stop", "recall"
  NoMsg,           \* no message
  Session0,        \* the Session that is active initially
  MaxQueue,        \* maxQueuedMessages
  Warm,            \* TRUE: an agent process is already up; FALSE: none yet
  Faults,          \* what may go wrong, see TurnEngineAssumption
  IdleReset,       \* resetOnIdle > 0
  MaxAutoCompress  \* bound on auto-compress triggers; 0: feature disabled

ASSUME TurnEngineAssumption ==
  /\ CompressCmds \subseteq Msgs
  /\ CmdKinds \subseteq {"new", "stop", "recall"}
  /\ Commands \cap Msgs = {}
  /\ NoMsg \notin Msgs \cup Commands
  /\ Session0 \notin Msgs \cup Commands
  /\ MaxQueue \in Nat
  /\ Warm \in BOOLEAN
  /\ Faults \subseteq
       {"exit", "error", "send", "start", "resume", "timeout", "hang"}
  /\ IdleReset \in BOOLEAN
  /\ MaxAutoCompress \in Nat

Procs == Msgs \cup Commands

\* Sessions are named by the goroutine that creates them.
Sessions == {Session0} \cup Procs

\* interactiveState objects, named by the goroutine and the place that
\* allocates them: a goroutine allocates at most one of each kind.
NoState == <<NoMsg, "none">>
Boot    == <<NoMsg, "full">>
States  == {Boot} \cup (Msgs \X {"placeholder", "full"})
StateOrNone == States \cup {NoState}

VARIABLES
  entry,     \* interactiveStates[key], or NoState
  active,    \* the key's active Session
  busy,      \* Session.busy
  bound,     \* Session.AgentSessionID (named by the state that reported it)
  used,      \* Session.History is not empty
  hasAgent,  \* interactiveState.agentSession # nil
  proc,      \* the agent process behind it: "none", "running", "exited", or
             \* "closing": its Close was abandoned and goes on on its own
  queue,     \* interactiveState.pendingMessages
  stopped,   \* interactiveState.stopped
  agentId,   \* AgentSession.CurrentSessionID()
  current,   \* interactiveState.currentMessageID
  pc,        \* where each goroutine is
  sess,      \* goroutine's Session pointer
  ptr,       \* goroutine's interactiveState pointer
  cur,       \* the message a turn goroutine is answering
  depth,     \* runCompress frames on the goroutine's stack
  clean,     \* cleanupInteractiveState / stop in progress: its locals
  told,      \* what the sender of each message was told last
  triggers,  \* auto-compress triggers so far
  panicked   \* a nil agentSession was dereferenced: the process is gone

registry == <<entry, active>>
sessVars == <<busy, bound, used>>
stateVars == <<hasAgent, proc, queue, stopped, agentId, current>>
locals == <<sess, ptr, cur, depth>>
vars == <<registry, sessVars, stateVars, pc, locals, clean, told, triggers,
          panicked>>

Labels ==
  {"idle", "picked", "lookup", "append", "retry", "locked", "reset",
   "newsession", "relock", "ensure", "start", "check", "send", "loop",
   "replied", "drain", "popped", "unlock", "orphan", "cpick", "clock",
   "compress", "cloop",
   "dropall", "clean", "quiet", "close", "delete", "rotate", "recallstop",
   "recallqueued", "stopnotify", "unbind", "done"}

\* Labels at which a message's goroutine believes it owns its Session's lock:
\* in its handler, in its turn, and in a cleanup called from either.
Cleaning == {"clean", "quiet", "close", "delete"}
TurnHolds == {"ensure", "start", "check", "send", "loop", "replied", "drain",
              "popped", "dropall", "unlock", "orphan", "compress", "cloop"}
Holding == {"locked", "reset"} \cup Cleaning \cup TurnHolds

Outcomes == {"none", "answered", "error", "dropped", "refused", "full",
             "cut", "stopped", "silenced", "recalled"}

SharedTypes ==
  /\ entry \in StateOrNone
  /\ active \in Sessions
  /\ busy \in [Sessions -> BOOLEAN]
  /\ bound \in [Sessions -> StateOrNone]
  /\ used \in [Sessions -> BOOLEAN]

StateTypes ==
  /\ hasAgent \in [States -> BOOLEAN]
  /\ proc \in [States -> {"none", "running", "closing", "exited"}]
  /\ stopped \in [States -> BOOLEAN]
  /\ agentId \in [States -> StateOrNone]
  /\ current \in [States -> Msgs \cup {NoMsg}]

QueueTypes ==
  /\ queue \in [States -> Seq(Msgs)]
  /\ \A s \in States : Len(queue[s]) <= MaxQueue

LocalTypes ==
  /\ sess \in [Procs -> Sessions]
  /\ ptr \in [Procs -> StateOrNone]
  /\ cur \in [Procs -> Msgs \cup {NoMsg}]
  /\ depth \in [Procs -> Nat]

PcTypes ==
  /\ pc \in [Procs -> Labels]
  /\ clean \in [Procs -> [target : StateOrNone, owns : BOOLEAN,
                          expect : BOOLEAN, back : Labels]]

ReportTypes ==
  /\ told \in [Msgs -> Outcomes]
  /\ triggers \in 0 .. MaxAutoCompress
  /\ panicked \in BOOLEAN

\* The shape of the state, and the capacity of the queues.
TypeOK ==
  SharedTypes /\ StateTypes /\ QueueTypes /\ LocalTypes /\ PcTypes /\ ReportTypes

-----------------------------------------------------------------------------
(* Initial states *)

\* Either no agent yet, or one that a finished turn left running.
Init ==
  /\ entry = IF Warm THEN Boot ELSE NoState
  /\ active = Session0
  /\ busy = [s \in Sessions |-> FALSE]
  /\ bound = [s \in Sessions |->
                IF Warm /\ s = Session0 THEN Boot ELSE NoState]
  /\ used = [s \in Sessions |-> Warm /\ s = Session0]
  /\ hasAgent = [s \in States |-> Warm /\ s = Boot]
  /\ proc = [s \in States |-> IF Warm /\ s = Boot THEN "running" ELSE "none"]
  /\ queue = [s \in States |-> <<>>]
  /\ stopped = [s \in States |-> FALSE]
  /\ agentId = [s \in States |-> IF Warm /\ s = Boot THEN Boot ELSE NoState]
  /\ current = [s \in States |-> NoMsg]
  /\ pc = [p \in Procs |-> "idle"]
  /\ sess = [p \in Procs |-> Session0]
  /\ ptr = [p \in Procs |-> NoState]
  /\ cur = [p \in Procs |-> NoMsg]
  /\ depth = [p \in Procs |-> 0]
  /\ clean = [p \in Procs |-> [target |-> NoState, owns |-> FALSE,
                               expect |-> FALSE, back |-> "done"]]
  /\ told = [m \in Msgs |-> "none"]
  /\ triggers = 0
  /\ panicked = FALSE

-----------------------------------------------------------------------------
(* Helpers *)

\* AgentSession.Alive() on a non-nil agentSession
Up(s) == proc[s] \in {"running", "closing"}
Alive(s) == hasAgent[s] /\ Up(s)

\* A prompt cannot be written: Close shuts the input before anything else.
Deaf(s) == proc[s] \in {"closing", "exited"}

\* closeAgentSessionWithTimeout: the wait for Close ends when the process has
\* exited or, with the process still up, after 130 s; that Close goes on.
Closings(s) ==
  {"exited"} \cup {end \in {"closing"} : "hang" \in Faults /\ Up(s)}

Waiting(s) == {queue[s][i] : i \in DOMAIN queue[s]}

\* Goroutine p is at a label, and goes on to another; nothing runs any more
\* once one of them has panicked.
At(p, label) == ~panicked /\ pc[p] = label
Goto(p, label) == pc' = [pc EXCEPT ![p] = label] /\ UNCHANGED panicked

Tell(m, what) == told' = [told EXCEPT ![m] = what]

\* Mutant of DropQueue: the senders are told, the queue is kept.
DropQueueKept(s, what, m, mine) ==
  /\ UNCHANGED queue
  /\ told' = [x \in Msgs |-> IF x \in Waiting(s) THEN what
                             ELSE IF x = m THEN mine ELSE told[x]]

\* Empty the queue of s, telling every waiting sender `what`; m, the message
\* in hand, is told `mine`.
DropQueue(s, what, m, mine) ==
  /\ queue' = [queue EXCEPT ![s] = <<>>]
  /\ told' = [x \in Msgs |-> IF x \in Waiting(s) THEN what
                             ELSE IF x = m THEN mine ELSE told[x]]

\* Session.Unlock, then return to the caller: the goroutine ends, or, inside a
\* runCompress that processInteractiveEvents called inline, the drain loop of
\* processInteractiveMessageWith runs next.
Release(m) ==
  /\ busy' = [busy EXCEPT ![sess[m]] = FALSE]
  /\ IF depth[m] = 0
       THEN Goto(m, "done") /\ UNCHANGED depth
       ELSE /\ Goto(m, "drain")
            /\ depth' = [depth EXCEPT ![m] = depth[m] - 1]

\* Enter cleanupInteractiveState; `expect` is whether the caller passes its
\* own state as the expected one.
Cleanup(p, s, expect, back) ==
  /\ Goto(p, "clean")
  /\ clean' = [clean EXCEPT ![p] = [target |-> s, owns |-> FALSE,
                                    expect |-> expect, back |-> back]]

-----------------------------------------------------------------------------
(* handleMessage, from the point where the Session is chosen *)

\* GetOrCreateActive: the goroutine keeps this pointer from here on.
Arrive(m) ==
  /\ At(m, "idle")
  /\ m \notin CompressCmds
  /\ sess' = [sess EXCEPT ![m] = active]
  /\ Goto(m, "picked")
  /\ UNCHANGED <<registry, sessVars, stateVars, ptr, cur, depth, clean, told,
                 triggers>>

TryLock(m) ==
  /\ At(m, "picked")
  /\ IF busy[sess[m]]
       THEN Goto(m, "lookup") /\ UNCHANGED busy
       ELSE Goto(m, "locked") /\ busy' = [busy EXCEPT ![sess[m]] = TRUE]
  /\ UNCHANGED <<registry, bound, used, stateVars, locals, clean, told,
                 triggers>>

\* queueMessageForBusySession, first half: read the map, test the agent.
Lookup(m) ==
  /\ At(m, "lookup")
  /\ IF entry = NoState \/ (hasAgent[entry] /\ ~Alive(entry))
       THEN /\ Tell(m, "refused")
            /\ Goto(m, "done")
            /\ UNCHANGED ptr
       ELSE /\ ptr' = [ptr EXCEPT ![m] = entry]
            /\ Goto(m, "append")
            /\ UNCHANGED told
  /\ UNCHANGED <<registry, sessVars, stateVars, sess, cur, depth, clean,
                 triggers>>

\* Mutant of QueueMessage: no test of the queue's capacity.
QueueUnbounded(m) ==
  /\ At(m, "append")
  /\ queue' = [queue EXCEPT ![ptr[m]] = Append(@, m)]
  /\ Goto(m, "retry")
  /\ UNCHANGED <<registry, sessVars, hasAgent, proc, stopped, agentId, current,
                 locals, clean, told, triggers>>

\* queueMessageForBusySession, second half, under state.mu.
QueueMessage(m) ==
  /\ At(m, "append")
  /\ IF Len(queue[ptr[m]]) >= MaxQueue
       THEN Tell(m, "full") /\ UNCHANGED queue
       ELSE /\ queue' = [queue EXCEPT ![ptr[m]] = Append(@, m)]
            /\ UNCHANGED told
  /\ Goto(m, "retry")
  /\ UNCHANGED <<registry, sessVars, hasAgent, proc, stopped, agentId, current,
                 locals, clean, triggers>>

\* Mutants of Retry: no second TryLock; draining without the lock.
RetryNever(m) ==
  /\ At(m, "retry")
  /\ Goto(m, "done")
  /\ UNCHANGED <<registry, sessVars, stateVars, locals, clean, told, triggers>>

RetryUnlocked(m) ==
  /\ At(m, "retry")
  /\ Goto(m, IF busy[sess[m]] THEN "done" ELSE "orphan")
  /\ UNCHANGED <<registry, sessVars, stateVars, locals, clean, told, triggers>>

\* The race guard after queueing: a second TryLock.
Retry(m) ==
  /\ At(m, "retry")
  /\ IF busy[sess[m]]
       THEN Goto(m, "done") /\ UNCHANGED busy
       ELSE Goto(m, "orphan") /\ busy' = [busy EXCEPT ![sess[m]] = TRUE]
  /\ UNCHANGED <<registry, bound, used, stateVars, locals, clean, told,
                 triggers>>

\* maybeAutoResetSessionOnIdle decides not to reset ...
KeepSession(m) ==
  /\ At(m, "locked")
  /\ Goto(m, "ensure")
  /\ UNCHANGED <<registry, sessVars, stateVars, locals, clean, told, triggers>>

\* ... or to reset: the session has something to lose and was idle long enough.
StartIdleReset(m) ==
  /\ At(m, "locked")
  /\ IdleReset
  /\ bound[sess[m]] # NoState \/ used[sess[m]]
  /\ Cleanup(m, NoState, FALSE, "reset")
  /\ UNCHANGED <<registry, sessVars, stateVars, locals, told, triggers>>

\* After the cleanup: session.UnlockWithoutUpdate()
UnlockOldSession(m) ==
  /\ At(m, "reset")
  /\ busy' = [busy EXCEPT ![sess[m]] = FALSE]
  /\ Goto(m, "newsession")
  /\ UNCHANGED <<registry, bound, used, stateVars, locals, clean, told,
                 triggers>>

\* sessions.NewSession makes the new Session the active one.
NewSession(m) ==
  /\ At(m, "newsession")
  /\ active' = m
  /\ Goto(m, "relock")
  /\ UNCHANGED <<entry, sessVars, stateVars, locals, clean, told, triggers>>

\* newSession.TryLock(): when it fails the function returns nil and
\* handleMessage goes on with the old Session, which is unlocked.
LockNewSession(m) ==
  /\ At(m, "relock")
  /\ IF busy[m]
       THEN UNCHANGED <<busy, sess>>
       ELSE /\ busy' = [busy EXCEPT ![m] = TRUE]
            /\ sess' = [sess EXCEPT ![m] = m]
  /\ Goto(m, "ensure")
  /\ UNCHANGED <<registry, bound, used, stateVars, ptr, cur, depth, clean,
                 told, triggers>>

\* ensureInteractiveStateForQueueing; `go processInteractiveMessageWith`.
EnsureState(m) ==
  /\ At(m, "ensure")
  /\ entry' = IF entry = NoState THEN <<m, "placeholder">> ELSE entry
  /\ Goto(m, "start")
  /\ UNCHANGED <<active, sessVars, stateVars, locals, clean, told, triggers>>

\* drainOrphanedQueue: the map is read again, the pointer used for the append
\* is not passed on.
DrainOrphaned(m) ==
  /\ At(m, "orphan")
  /\ \/ /\ entry = NoState
        /\ Goto(m, "unlock")
        /\ UNCHANGED <<ptr, queue, told>>
     \/ /\ entry # NoState /\ ~Alive(entry)
        /\ DropQueue(entry, "dropped", NoMsg, "none")
        /\ Goto(m, "unlock")
        /\ UNCHANGED ptr
     \/ /\ entry # NoState /\ Alive(entry)
        /\ ptr' = [ptr EXCEPT ![m] = entry]
        /\ Goto(m, "drain")
        /\ UNCHANGED <<queue, told>>
  /\ UNCHANGED <<registry, sessVars, hasAgent, proc, stopped, agentId, current,
                 sess, cur, depth, clean, triggers>>

-----------------------------------------------------------------------------
(* processInteractiveMessageWith: the state and the first prompt *)

\* getOrCreateInteractiveStateWith reuses the state whose process matches.
Matches(m) ==
  LET want == bound[sess[m]]
      have == agentId[entry]
  IN  have = NoState \/ (want # NoState /\ want = have)

ReuseState(m) ==
  /\ At(m, "start")
  /\ entry # NoState /\ Alive(entry) /\ Matches(m)
  /\ ptr' = [ptr EXCEPT ![m] = entry]
  /\ used' = [used EXCEPT ![sess[m]] = TRUE]
  /\ Goto(m, "check")
  /\ UNCHANGED <<registry, busy, bound, stateVars, sess, cur, depth, clean,
                 told, triggers>>

\* ... or stops and closes a mismatching one and, like for a dead or missing
\* one, starts a process for a new state; only the state found in the map
\* hands its queue over.  All of it happens under interactiveMu.
CreateState(m) ==
  LET new     == <<m, "full">>
      recycle == entry # NoState /\ Alive(entry) /\ ~Matches(m)
      adopt   == entry # NoState /\ ~recycle
      want    == bound[sess[m]]
  IN
  /\ At(m, "start")
  /\ ~(entry # NoState /\ Alive(entry) /\ Matches(m))
  /\ \E result \in {"resumed", "fresh", "failed"},
        end \in IF recycle THEN Closings(entry) ELSE {"none"} :
       /\ result = "resumed" => want # NoState
       /\ result = "fresh" => want = NoState \/ "resume" \in Faults
       /\ result = "failed" => "start" \in Faults
       /\ bound' = IF result # "resumed"
                     THEN [bound EXCEPT ![sess[m]] = NoState] ELSE bound
       /\ hasAgent' = [hasAgent EXCEPT ![new] = result # "failed"]
       /\ proc' = [s \in States |->
                     IF s = new /\ result # "failed" THEN "running"
                     ELSE IF recycle /\ s = entry THEN end ELSE proc[s]]
       /\ agentId' = [agentId EXCEPT
                        ![new] = IF result = "resumed" THEN want ELSE NoState]
  /\ stopped' = IF recycle THEN [stopped EXCEPT ![entry] = TRUE] ELSE stopped
  /\ queue' = IF adopt
                THEN [queue EXCEPT ![new] = queue[entry], ![entry] = <<>>]
                ELSE queue
  /\ entry' = new
  /\ ptr' = [ptr EXCEPT ![m] = new]
  /\ used' = [used EXCEPT ![sess[m]] = TRUE]
  /\ Goto(m, "check")
  /\ UNCHANGED <<active, busy, current, sess, cur, depth, clean, told,
                 triggers>>

\* The agentSession == nil check; currentMessageID is set before it.
CheckAgent(m) ==
  /\ At(m, "check")
  /\ current' = [current EXCEPT ![ptr[m]] = m]
  /\ cur' = [cur EXCEPT ![m] = m]
  /\ IF hasAgent[ptr[m]]
       THEN Goto(m, "send") /\ UNCHANGED told
       ELSE Tell(m, "error") /\ Goto(m, "unlock")
  /\ UNCHANGED <<registry, sessVars, hasAgent, proc, queue, stopped, agentId,
                 sess, ptr, depth, clean, triggers>>

\* `go Send`, drainEvents and Events(), which read state.agentSession again.
Send(m) ==
  /\ At(m, "send")
  /\ hasAgent[ptr[m]]
  /\ Goto(m, "loop")
  /\ UNCHANGED <<registry, sessVars, stateVars, locals, clean, told, triggers>>

-----------------------------------------------------------------------------
(* processInteractiveEvents: the event loop *)

\* <-stopCh, or any event once state.stopped is set: return without a word.
LoopStopped(m) ==
  /\ At(m, "loop")
  /\ stopped[ptr[m]]
  /\ Tell(cur[m], "stopped")
  /\ Goto(m, "drain")
  /\ UNCHANGED <<registry, sessVars, stateVars, locals, clean, triggers>>

\* EventResult: the agent's id is recorded, the answer is sent.
LoopResult(m) ==
  LET s == ptr[m]
      id == IF agentId[s] = NoState THEN s ELSE agentId[s]
  IN
  /\ At(m, "loop")
  /\ Up(s)
  /\ ~stopped[s]
  /\ agentId' = [agentId EXCEPT ![s] = id]
  /\ bound' = IF hasAgent[s] /\ bound[sess[m]] = NoState
                THEN [bound EXCEPT ![sess[m]] = id] ELSE bound
  /\ Tell(cur[m], "answered")
  /\ Goto(m, "replied")
  /\ UNCHANGED <<registry, busy, used, hasAgent, proc, queue, stopped, current,
                 locals, clean, triggers>>

\* EventError: queued messages are kept while the agent lives.
LoopError(m) ==
  /\ At(m, "loop")
  /\ "error" \in Faults
  /\ ~stopped[ptr[m]]
  /\ IF Alive(ptr[m])
       THEN Tell(cur[m], "error") /\ UNCHANGED queue
       ELSE DropQueue(ptr[m], "dropped", cur[m], "error")
  /\ Goto(m, "drain")
  /\ UNCHANGED <<registry, sessVars, hasAgent, proc, stopped, agentId, current,
                 locals, clean, triggers>>

\* The events channel is closed: the process is gone.
LoopClosed(m) ==
  /\ At(m, "loop")
  /\ proc[ptr[m]] = "exited"
  /\ DropQueue(ptr[m], "dropped", cur[m], "cut")
  /\ Cleanup(m, ptr[m], TRUE, "drain")
  /\ UNCHANGED <<registry, sessVars, hasAgent, proc, stopped, agentId, current,
                 locals, triggers>>

\* The concurrent Send failed, because the process is gone, deaf, or on its own.
LoopSendError(m) ==
  /\ At(m, "loop")
  /\ Deaf(ptr[m]) \/ "send" \in Faults
  /\ DropQueue(ptr[m], "dropped", cur[m], "error")
  /\ IF Alive(ptr[m])
       THEN Goto(m, "drain") /\ UNCHANGED clean
       ELSE Cleanup(m, ptr[m], TRUE, "drain")
  /\ UNCHANGED <<registry, sessVars, hasAgent, proc, stopped, agentId, current,
                 locals, triggers>>

\* No event for eventIdleTimeout: the agent session is torn down.
LoopIdleTimeout(m) ==
  /\ At(m, "loop")
  /\ "timeout" \in Faults
  /\ Tell(cur[m], "error")
  /\ Cleanup(m, ptr[m], TRUE, "drain")
  /\ UNCHANGED <<registry, sessVars, stateVars, locals, triggers>>

\* maxTurnTime is over: stop signal, grace period, then the same cleanup.
LoopMaxTurnTime(m) ==
  /\ At(m, "loop")
  /\ "timeout" \in Faults
  /\ hasAgent[ptr[m]]
  /\ Tell(cur[m], "error")
  /\ stopped' = [stopped EXCEPT ![ptr[m]] = TRUE]
  /\ Cleanup(m, ptr[m], TRUE, "drain")
  /\ UNCHANGED <<registry, sessVars, hasAgent, proc, queue, agentId, current,
                 locals, triggers>>

\* Mutant of TakeNext: the message sent is not taken out of the queue.
TakeNextKept(m) ==
  /\ At(m, "replied")
  /\ queue[ptr[m]] # <<>>
  /\ cur' = [cur EXCEPT ![m] = Head(queue[ptr[m]])]
  /\ current' = [current EXCEPT ![ptr[m]] = Head(queue[ptr[m]])]
  /\ Goto(m, "send")
  /\ UNCHANGED <<registry, sessVars, hasAgent, proc, queue, stopped, agentId,
                 sess, ptr, depth, clean, told, triggers>>

\* After the reply: the next queued message continues the same loop ...
TakeNext(m) ==
  /\ At(m, "replied")
  /\ queue[ptr[m]] # <<>>
  /\ cur' = [cur EXCEPT ![m] = Head(queue[ptr[m]])]
  /\ current' = [current EXCEPT ![ptr[m]] = Head(queue[ptr[m]])]
  /\ queue' = [queue EXCEPT ![ptr[m]] = Tail(@)]
  /\ Goto(m, "send")
  /\ UNCHANGED <<registry, sessVars, hasAgent, proc, stopped, agentId, sess,
                 ptr, depth, clean, told, triggers>>

\* Mutant of LeaveLoop: return without the final drain and unlock.
LeaveLoopLocked(m) ==
  /\ At(m, "replied")
  /\ Goto(m, "done")
  /\ UNCHANGED <<registry, sessVars, stateVars, locals, clean, told, triggers>>

\* ... or the loop returns: nothing was queued, or the reply failed to send.
LeaveLoop(m) ==
  /\ At(m, "replied")
  /\ Goto(m, "drain")
  /\ UNCHANGED <<registry, sessVars, stateVars, locals, clean, told, triggers>>

\* The token estimate is over the limit: runCompress is called inline.
AutoCompress(m) ==
  /\ At(m, "replied")
  /\ triggers < MaxAutoCompress
  /\ triggers' = triggers + 1
  /\ depth' = [depth EXCEPT ![m] = @ + 1]
  /\ Goto(m, "compress")
  /\ UNCHANGED <<registry, sessVars, stateVars, sess, ptr, cur, clean, told>>

-----------------------------------------------------------------------------
(* drainPendingMessages *)

\* Mutant of DrainEmpty: unlock without looking at the queue.
DrainUntested(m) ==
  /\ At(m, "drain")
  /\ Release(m)
  /\ UNCHANGED <<registry, bound, used, stateVars, sess, ptr, cur, clean, told,
                 triggers>>

\* Under state.mu: unlock when the queue is empty, otherwise pop.
DrainEmpty(m) ==
  /\ At(m, "drain")
  /\ queue[ptr[m]] = <<>>
  /\ Release(m)
  /\ UNCHANGED <<registry, bound, used, stateVars, sess, ptr, cur, clean, told,
                 triggers>>

\* Mutant of DrainPop: the youngest message is taken first.
DrainYoungest(m) ==
  LET q == queue[ptr[m]]
  IN
  /\ At(m, "drain")
  /\ q # <<>>
  /\ cur' = [cur EXCEPT ![m] = q[Len(q)]]
  /\ current' = [current EXCEPT ![ptr[m]] = q[Len(q)]]
  /\ queue' = [queue EXCEPT ![ptr[m]] = SubSeq(@, 1, Len(@) - 1)]
  /\ Goto(m, "popped")
  /\ UNCHANGED <<registry, sessVars, hasAgent, proc, stopped, agentId, sess,
                 ptr, depth, clean, told, triggers>>

DrainPop(m) ==
  /\ At(m, "drain")
  /\ queue[ptr[m]] # <<>>
  /\ cur' = [cur EXCEPT ![m] = Head(queue[ptr[m]])]
  /\ current' = [current EXCEPT ![ptr[m]] = Head(queue[ptr[m]])]
  /\ queue' = [queue EXCEPT ![ptr[m]] = Tail(@)]
  /\ Goto(m, "popped")
  /\ UNCHANGED <<registry, sessVars, hasAgent, proc, stopped, agentId, sess,
                 ptr, depth, clean, told, triggers>>

\* No live agent: every queued sender is told; else the message is sent.
DrainCheck(m) ==
  /\ At(m, "popped")
  /\ IF Alive(ptr[m])
       THEN Goto(m, "send") /\ UNCHANGED <<queue, told>>
       ELSE /\ DropQueue(ptr[m], "dropped", cur[m], "error")
            /\ Goto(m, "unlock")
  /\ UNCHANGED <<registry, sessVars, hasAgent, proc, stopped, agentId, current,
                 locals, clean, triggers>>

\* The deferred session.Unlock of every early return.
Unlock(m) ==
  /\ At(m, "unlock")
  /\ Release(m)
  /\ UNCHANGED <<registry, bound, used, stateVars, sess, ptr, cur, clean, told,
                 triggers>>

-----------------------------------------------------------------------------
(* cmdCompress, runCompress, processCompressEvents *)

\* /compress needs a live agent ...
CmdCompress(m) ==
  /\ At(m, "idle")
  /\ m \in CompressCmds
  /\ IF entry # NoState /\ Alive(entry)
       THEN /\ ptr' = [ptr EXCEPT ![m] = entry]
            /\ Goto(m, "cpick")
            /\ UNCHANGED told
       ELSE /\ Tell(m, "refused")
            /\ Goto(m, "done")
            /\ UNCHANGED ptr
  /\ UNCHANGED <<registry, sessVars, stateVars, sess, cur, depth, clean,
                 triggers>>

CompressPick(m) ==
  /\ At(m, "cpick")
  /\ sess' = [sess EXCEPT ![m] = active]
  /\ Goto(m, "clock")
  /\ UNCHANGED <<registry, sessVars, stateVars, ptr, cur, depth, clean, told,
                 triggers>>

\* ... and a free session.
CompressLock(m) ==
  /\ At(m, "clock")
  /\ IF busy[sess[m]]
       THEN /\ Tell(m, "refused")
            /\ Goto(m, "done")
            /\ UNCHANGED busy
       ELSE /\ busy' = [busy EXCEPT ![sess[m]] = TRUE]
            /\ Goto(m, "compress")
            /\ UNCHANGED told
  /\ UNCHANGED <<registry, bound, used, stateVars, locals, clean, triggers>>

\* What a user's /compress reports; an auto-triggered one stays silent.
CompressTell(m, what) ==
  IF m \in CompressCmds /\ depth[m] = 0
    THEN [told EXCEPT ![m] = what] ELSE told

CompressSend(m) ==
  /\ At(m, "compress")
  /\ hasAgent[ptr[m]]
  /\ \/ Goto(m, "cloop") /\ UNCHANGED <<clean, told>>
     \/ /\ Deaf(ptr[m]) \/ "send" \in Faults
        /\ told' = CompressTell(m, "error")
        /\ IF Alive(ptr[m])
             THEN Goto(m, "unlock") /\ UNCHANGED clean
             ELSE Cleanup(m, NoState, FALSE, "unlock")
  /\ UNCHANGED <<registry, sessVars, stateVars, locals, triggers>>

CompressStopped(m) ==
  /\ At(m, "cloop")
  /\ stopped[ptr[m]]
  /\ told' = CompressTell(m, "stopped")
  /\ Goto(m, "unlock")
  /\ UNCHANGED <<registry, sessVars, stateVars, locals, clean, triggers>>

CompressResult(m) ==
  /\ At(m, "cloop")
  /\ Up(ptr[m]) /\ ~stopped[ptr[m]]
  /\ told' = CompressTell(m, "answered")
  /\ Goto(m, "drain")
  /\ UNCHANGED <<registry, sessVars, stateVars, locals, clean, triggers>>

\* EventError: an agent that survives gets the queued messages.
CompressError(m) ==
  /\ At(m, "cloop")
  /\ "error" \in Faults
  /\ hasAgent[ptr[m]] /\ ~stopped[ptr[m]]
  /\ told' = CompressTell(m, "error")
  /\ Goto(m, IF Alive(ptr[m]) THEN "drain" ELSE "dropall")
  /\ UNCHANGED <<registry, sessVars, stateVars, locals, clean, triggers>>

\* Channel closed or idle timeout: cleanup, then notify what was queued.
CompressFailed(m) ==
  /\ At(m, "cloop")
  /\ proc[ptr[m]] = "exited" \/ "timeout" \in Faults
  /\ told' = CompressTell(m, "error")
  /\ Cleanup(m, ptr[m], TRUE, "dropall")
  /\ UNCHANGED <<registry, sessVars, stateVars, locals, triggers>>

\* Mutant of DropAll: the queue is kept.
DropAllKept(m) ==
  /\ At(m, "dropall")
  /\ told' = [x \in Msgs |-> IF x \in Waiting(ptr[m]) THEN "dropped" ELSE told[x]]
  /\ Goto(m, "unlock")
  /\ UNCHANGED <<registry, sessVars, stateVars, locals, clean, triggers>>

DropAll(m) ==
  /\ At(m, "dropall")
  /\ DropQueue(ptr[m], "dropped", NoMsg, "none")
  /\ Goto(m, "unlock")
  /\ UNCHANGED <<registry, sessVars, hasAgent, proc, stopped, agentId, current,
                 locals, clean, triggers>>

\* Calling a method of a nil agentSession panics, and no goroutine recovers:
\* before a prompt, in runCompress, and on the paths that read
\* state.agentSession again after a timeout or an error.
Panic(m) ==
  /\ \/ At(m, "send") \/ At(m, "compress")
     \/ At(m, "loop") /\ "timeout" \in Faults
     \/ At(m, "cloop") /\ "error" \in Faults /\ ~stopped[ptr[m]]
  /\ ~hasAgent[ptr[m]]
  /\ panicked' = TRUE
  /\ UNCHANGED <<registry, sessVars, stateVars, pc, locals, clean, told,
                 triggers>>

-----------------------------------------------------------------------------
(* cleanupInteractiveState *)

\* Under interactiveMu: skip when the entry is not the expected state, else
\* take the agent session away from the state found.
CleanTake(p) ==
  LET c == clean[p]
  IN
  /\ At(p, "clean")
  /\ IF c.expect /\ entry # c.target
       THEN Goto(p, c.back) /\ UNCHANGED <<hasAgent, clean>>
       ELSE IF entry = NoState
         THEN /\ Goto(p, "delete")
              /\ clean' = [clean EXCEPT ![p].target = NoState]
              /\ UNCHANGED hasAgent
         ELSE /\ Goto(p, "quiet")
              /\ clean' = [clean EXCEPT ![p].target = entry,
                                        ![p].owns = hasAgent[entry]]
              /\ hasAgent' = [hasAgent EXCEPT ![entry] = FALSE]
  /\ UNCHANGED <<registry, sessVars, proc, queue, stopped, agentId, current,
                 locals, told, triggers>>

\* markStopped and notifyDroppedQueuedMessages("session reset")
CleanQuiet(p) ==
  LET s == clean[p].target
  IN
  /\ At(p, "quiet")
  /\ stopped' = [stopped EXCEPT ![s] = TRUE]
  /\ DropQueue(s, "dropped", NoMsg, "none")
  /\ Goto(p, IF clean[p].owns THEN "close" ELSE "delete")
  /\ UNCHANGED <<registry, sessVars, hasAgent, proc, agentId, current, locals,
                 clean, triggers>>

\* Mutant of CleanClose: the captured agent session is not closed.
CleanForgotten(p) ==
  /\ At(p, "close")
  /\ Goto(p, "delete")
  /\ UNCHANGED <<registry, sessVars, stateVars, locals, clean, told, triggers>>

\* The bounded close; whatever its end, the cleanup goes on.
CleanClose(p) ==
  /\ At(p, "close")
  /\ \E end \in Closings(clean[p].target) :
       proc' = [proc EXCEPT ![clean[p].target] = end]
  /\ Goto(p, "delete")
  /\ UNCHANGED <<registry, sessVars, hasAgent, queue, stopped, agentId, current,
                 locals, clean, told, triggers>>

\* The replacement check is made only for a caller that expects a state.
CleanDelete(p) ==
  LET c == clean[p]
  IN
  /\ At(p, "delete")
  /\ entry' = IF c.expect /\ entry # c.target THEN entry ELSE NoState
  /\ Goto(p, c.back)
  /\ UNCHANGED <<active, sessVars, stateVars, locals, clean, told, triggers>>

-----------------------------------------------------------------------------
(* Commands: cmdNew, cmdStop, handleMessageRecall *)

CmdNew(c) ==
  /\ At(c, "idle")
  /\ "new" \in CmdKinds
  /\ Cleanup(c, NoState, FALSE, "rotate")
  /\ UNCHANGED <<registry, sessVars, stateVars, locals, told, triggers>>

\* cmdNew after the cleanup: forget the old Session's agent id and history,
\* make a new Session the active one.
Rotate(c) ==
  /\ At(c, "rotate")
  /\ bound' = [bound EXCEPT ![active] = NoState]
  /\ used' = [used EXCEPT ![active] = FALSE]
  /\ active' = c
  /\ Goto(c, "done")
  /\ UNCHANGED <<entry, busy, stateVars, locals, clean, told, triggers>>

\* stopInteractiveSessionWithOptions, the part under interactiveMu.
StopTake(c, back) ==
  IF entry = NoState
    THEN Goto(c, "done") /\ UNCHANGED <<entry, stopped, clean>>
    ELSE /\ stopped' = [stopped EXCEPT ![entry] = TRUE]
         /\ clean' = [clean EXCEPT ![c] = [target |-> entry,
                        owns |-> hasAgent[entry], expect |-> FALSE,
                        back |-> back]]
         /\ entry' = NoState
         /\ Goto(c, "stopnotify")

CmdStop(c) ==
  /\ At(c, "idle")
  /\ "stop" \in CmdKinds
  /\ StopTake(c, "unbind")
  /\ UNCHANGED <<active, sessVars, hasAgent, proc, queue, agentId, current,
                 locals, told, triggers>>

\* The queue is dropped: with a notice for /stop, silently for a recall.
StopNotify(c) ==
  /\ At(c, "stopnotify")
  /\ DropQueue(clean[c].target,
               IF clean[c].back = "unbind" THEN "dropped" ELSE "silenced",
               NoMsg, "none")
  /\ Goto(c, clean[c].back)
  /\ UNCHANGED <<registry, sessVars, hasAgent, proc, stopped, agentId, current,
                 locals, clean, triggers>>

\* closeAgentSessionAsync: a goroutine of its own, done at any time.
StopClose(c) ==
  /\ ~panicked
  /\ pc[c] \in {"unbind", "done"}
  /\ clean[c].back \in {"unbind", "done"} /\ clean[c].owns
  /\ \E end \in Closings(clean[c].target) :
       proc' = [proc EXCEPT ![clean[c].target] = end]
  /\ clean' = [clean EXCEPT ![c].owns = FALSE]
  /\ UNCHANGED <<registry, sessVars, hasAgent, queue, stopped, agentId, current,
                 pc, locals, told, triggers, panicked>>

\* clearStaleSessionID
Unbind(c) ==
  /\ At(c, "unbind")
  /\ bound' = [bound EXCEPT ![active] = NoState]
  /\ Goto(c, "done")
  /\ UNCHANGED <<registry, busy, used, stateVars, locals, clean, told, triggers>>

\* A recall of the current message finds the session key, then stops whatever
\* the key holds by then.
RecallCurrent(c) ==
  /\ At(c, "idle")
  /\ "recall" \in CmdKinds
  /\ entry # NoState /\ current[entry] # NoMsg
  /\ Goto(c, "recallstop")
  /\ UNCHANGED <<registry, sessVars, stateVars, locals, clean, told, triggers>>

RecallStop(c) ==
  /\ At(c, "recallstop")
  /\ StopTake(c, "done")
  /\ UNCHANGED <<active, sessVars, hasAgent, proc, queue, agentId, current,
                 locals, told, triggers>>

\* A recall of any other message collects the states under interactiveMu ...
RecallCollect(c) ==
  /\ At(c, "idle")
  /\ "recall" \in CmdKinds
  /\ entry # NoState
  /\ ptr' = [ptr EXCEPT ![c] = entry]
  /\ Goto(c, "recallqueued")
  /\ UNCHANGED <<registry, sessVars, stateVars, sess, cur, depth, clean, told,
                 triggers>>

\* ... and takes the message out of the queue that holds it by then, if any.
RecallQueued(c) ==
  LET q == queue[ptr[c]]
  IN
  /\ At(c, "recallqueued")
  /\ \/ UNCHANGED <<queue, told>>
     \/ \E i \in DOMAIN q :
          /\ queue' = [queue EXCEPT
               ![ptr[c]] = SubSeq(q, 1, i - 1) \o SubSeq(q, i + 1, Len(q))]
          /\ Tell(q[i], "recalled")
  /\ Goto(c, "done")
  /\ UNCHANGED <<registry, sessVars, hasAgent, proc, stopped, agentId, current,
                 locals, clean, triggers>>

-----------------------------------------------------------------------------
(* The agent process, and the whole system *)

\* A process ends on its own, or by the Close that was abandoned.
AgentExit(s) ==
  /\ ~panicked
  /\ \/ proc[s] = "running" /\ "exit" \in Faults
     \/ proc[s] = "closing"
  /\ proc' = [proc EXCEPT ![s] = "exited"]
  /\ UNCHANGED <<registry, sessVars, hasAgent, queue, stopped, agentId, current,
                 pc, locals, clean, told, triggers, panicked>>

Arrival(m) == Arrive(m) \/ CmdCompress(m)

Handler(m) ==
  \/ TryLock(m) \/ Lookup(m) \/ QueueMessage(m) \/ Retry(m)
  \/ KeepSession(m) \/ StartIdleReset(m) \/ UnlockOldSession(m)
  \/ NewSession(m) \/ LockNewSession(m) \/ EnsureState(m) \/ DrainOrphaned(m)

Turn(m) ==
  \/ ReuseState(m) \/ CreateState(m) \/ CheckAgent(m) \/ Send(m)
  \/ LoopStopped(m) \/ LoopResult(m) \/ LoopError(m) \/ LoopClosed(m)
  \/ LoopSendError(m) \/ LoopIdleTimeout(m) \/ LoopMaxTurnTime(m)
  \/ TakeNext(m) \/ LeaveLoop(m) \/ AutoCompress(m)
  \/ DrainEmpty(m) \/ DrainPop(m) \/ DrainCheck(m) \/ Unlock(m)

Compress(m) ==
  \/ CompressPick(m) \/ CompressLock(m) \/ CompressSend(m) \/ CompressStopped(m)
  \/ CompressResult(m) \/ CompressError(m) \/ CompressFailed(m) \/ DropAll(m)

CleanupStep(p) ==
  \/ CleanTake(p) \/ CleanQuiet(p) \/ CleanClose(p) \/ CleanDelete(p)

Command(c) ==
  \/ CmdNew(c) \/ Rotate(c) \/ CmdStop(c) \/ StopNotify(c) \/ StopClose(c)
  \/ Unbind(c) \/ RecallCurrent(c) \/ RecallStop(c)
  \/ RecallCollect(c) \/ RecallQueued(c)

\* Every goroutine has returned, or the process is gone.
Finished ==
  /\ panicked \/ \A p \in Procs : pc[p] = "done"
  /\ UNCHANGED vars

Next ==
  \/ \E m \in Msgs : Arrival(m) \/ Handler(m) \/ Turn(m) \/ Compress(m) \/ Panic(m)
  \/ \E p \in Procs : CleanupStep(p)
  \/ \E c \in Commands : Command(c)
  \/ \E s \in States : AgentExit(s)
  \/ Finished

Spec == Init /\ [][Next]_vars

-----------------------------------------------------------------------------
(* Properties *)

Holds(m, s) == pc[m] \in Holding /\ sess[m] = s

\* A Session's busy flag is the lock of the turns: whoever runs a turn on a
\* Session holds it, and it is held only by such a goroutine (Session.TryLock
\* and Unlock, and the explicit unlocking of processInteractiveMessageWith).
TurnMutex ==
  \A s \in Sessions :
    /\ \A m, n \in Msgs : Holds(m, s) /\ Holds(n, s) => m = n
    /\ busy[s] <=> \E m \in Msgs : Holds(m, s)

\* The goroutines that have message m in hand without having told its sender.
InHandOf(m) ==
  {g \in Msgs : \/ cur[g] = m /\ pc[g] \in {"popped", "send", "loop"}
                \/ g = m /\ pc[m] \in {"picked", "lookup", "append", "locked",
                     "reset", "newsession", "relock", "ensure", "start",
                     "check"}
                \/ g = m /\ clean[m].back = "reset"
                         /\ pc[m] \in {"clean", "quiet", "close", "delete"}}

QueuedIn(m) == {s \in States : m \in Waiting(s)}

\* Whatever stops, dies or is replaced, a message is in exactly one place until
\* its sender is told, and then in none: no path duplicates a message (adopting
\* a queue, popping it in two loops) or drops it on the floor (pendingMessages
\* and its users in engine.go).
OnePlace ==
  \A m \in Msgs \ CompressCmds :
    /\ pc[m] = "idle" \/ told[m] # "none" =>
         QueuedIn(m) = {} /\ InHandOf(m) = {}
    /\ pc[m] # "idle" /\ told[m] = "none" =>
         Cardinality(QueuedIn(m)) + Cardinality(InHandOf(m)) = 1
    /\ \A s \in QueuedIn(m) :
         \A i, j \in DOMAIN queue[s] : queue[s][i] = m /\ queue[s][j] = m => i = j

\* The outcome a sender is told is final: no second answer, and no error after
\* an answer.
ToldOnce == [][\A m \in Msgs : told[m] # "none" => told'[m] = told[m]]_vars

\* The goroutines that will look at the queue of s before they return.
Servers(s) ==
  {g \in Msgs : \/ pc[g] = "retry"
                \/ pc[g] \in {"locked", "reset", "ensure", "start", "orphan"} \cup Cleaning
                     /\ entry = s
                \/ pc[g] \in TurnHolds \ {"ensure", "start", "orphan", "unlock"}
                     /\ ptr[g] = s}

\* A message that was acknowledged as queued is never left behind: some
\* goroutine is still going to look at its queue (the race guard of
\* handleMessage and the unlock under state.mu of drainPendingMessages).
QueueServed == \A s \in States : queue[s] # <<>> => Servers(s) # {}

\* The same for the state that is in the map.
EntryQueueServed == entry # NoState /\ queue[entry] # <<>> => Servers(entry) # {}

\* No agent process is forgotten: one whose Close has not come to an end, and
\* has not been abandoned after 130 s, is in the map, or a goroutine that will
\* close it has it in hand (cleanupInteractiveState deletes the entry last).
NoForgottenAgent ==
  \A s \in States : proc[s] = "running" =>
    \/ s = entry
    \/ \E p \in Procs : /\ \/ pc[p] \in {"quiet", "close", "stopnotify"}
                           \/ clean[p].back \in {"unbind", "done"}
                        /\ clean[p].owns /\ clean[p].target = s

NoPanic == ~panicked

-----------------------------------------------------------------------------
(* Liveness *)

\* Goroutines are scheduled, and an agent that is neither stopped nor gone ends
\* its turn (eventIdleTimeout bounds how long the code waits for it).
Fairness ==
  /\ \A m \in Msgs : WF_vars(Handler(m) \/ Turn(m) \/ Compress(m))
  /\ \A p \in Procs : WF_vars(CleanupStep(p))

FairSpec == Spec /\ Fairness

\* Every message that arrives has an outcome in the end.
EverySenderTold == \A m \in Msgs : pc[m] # "idle" ~> told[m] # "none"

-----------------------------------------------------------------------------
(* Refinement *)

Users == Msgs \ CompressCmds

\* A message runs from the moment its goroutine, or the one that popped it,
\* has the lock until its sender is told.
Phase(m) ==
  IF pc[m] = "idle" THEN "new"
  ELSE IF told[m] # "none" THEN "finished"
  ELSE IF QueuedIn(m) # {} THEN "waiting"
  ELSE IF pc[m] \in {"picked", "lookup", "append"} THEN "new"
  ELSE "running"

\* With an agent that lives, the engine is such a service.
Service == INSTANCE SerialTurns WITH
  Msgs <- Users, MaxLine <- MaxQueue,
  phase <- [m \in Users |-> Phase(m)],
  line <- IF entry = NoState THEN <<>> ELSE queue[entry]

ServiceSpec == Service!SSpec
=============================================================================
