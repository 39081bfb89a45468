---------------------------- MODULE Permissions -----------------------------
(***************************************************************************)
(* Permission requests (core/engine.go): an agent asks whether it may use  *)
(* a tool, or asks the user questions.  The turn publishes the request in  *)
(* state.pending and blocks on it; a chat message is taken as the answer;  *)
(* a teardown of the state (cleanupInteractiveState,                       *)
(* stopInteractiveSession) releases the turn without an answer.            *)
(*                                                                         *)
(* One interactive state, its turn, the goroutines of the replies and of   *)
(* the teardowns.  One action is one critical section of interactiveMu or  *)
(* state.mu with the code up to the next one.                              *)
(***************************************************************************)
EXTENDS Naturals, FiniteSets

CONSTANTS
  Replies,      \* goroutines of messages that may answer
  Approvers,    \* the replies whose sender may approve
  Teardowns,    \* goroutines that tear the state down
  TeardownKinds,\* "cleanup", "stop"
  MaxRequests,  \* bound on requests
  Questions,    \* the requests that ask questions
  NumQuestions, \* how many each of them asks
  Serial        \* the platform hands over one message at a time

ASSUME PermissionsAssumption ==
  /\ Approvers \subseteq Replies
  /\ Replies \cap Teardowns = {}
  /\ TeardownKinds \subseteq {"cleanup", "stop"}
  /\ MaxRequests \in Nat
  /\ Questions \subseteq 1 .. MaxRequests
  /\ NumQuestions \in Nat \ {0}
  /\ Serial \in BOOLEAN

Requests == 1 .. MaxRequests
Procs == Replies \cup Teardowns

VARIABLES
  inMap,      \* the state is in interactiveStates
  hasAgent,   \* state.agentSession # nil
  alive,      \* the agent takes answers
  stopped,    \* state.stopped
  pending,    \* state.pending, 0 for none
  approveAll, \* state.approveAll
  resolved,   \* the requests whose Resolved channel is closed
  question,   \* pendingPermission.CurrentQuestion
  answers,    \* pendingPermission.Answers
  turn,       \* where the turn is
  asked,      \* the last request the turn received
  pc,         \* where the replies and teardowns are
  held,       \* the request a reply or teardown has in hand
  index,      \* the question a reply answers
  verdict,    \* what a reply answers
  responses,  \* what the agent was told for each request, in order
  approved,   \* the requests an approver has allowed
  panicked    \* a nil agentSession was dereferenced

shared == <<inMap, hasAgent, alive, stopped>>
requests == <<pending, approveAll, resolved, question, answers>>
locals == <<held, index, verdict>>
vars == <<shared, requests, turn, asked, pc, locals, responses, approved,
          panicked>>

Verdicts == {"allow", "deny"}
Labels == {"idle", "found", "decide", "answering", "respond", "clear", "resolve",
           "mark", "take", "stopmark", "release", "close", "delete", "done"}

\* The shape of the state.  An answer is never recorded for a question that
\* does not exist.
TypeOK ==
  /\ inMap \in BOOLEAN /\ hasAgent \in BOOLEAN /\ alive \in BOOLEAN
  /\ stopped \in BOOLEAN /\ approveAll \in BOOLEAN /\ panicked \in BOOLEAN
  /\ pending \in Requests \cup {0}
  /\ resolved \subseteq Requests
  /\ question \in [Requests -> 0 .. NumQuestions - 1]
  /\ answers \in [Requests -> SUBSET (0 .. NumQuestions - 1)]
  /\ turn \in {"wait", "received", "grant", "publish", "blocked", "done"}
  /\ asked \in Requests \cup {0}
  /\ pc \in [Procs -> Labels]
  /\ held \in [Procs -> Requests \cup {0}]
  /\ index \in [Replies -> 0 .. NumQuestions - 1]
  /\ verdict \in [Replies -> Verdicts]
  /\ responses \in [Requests -> [Verdicts -> 0 .. Cardinality(Replies) + 1]]
  /\ approved \subseteq Requests

Init ==
  /\ inMap = TRUE /\ hasAgent = TRUE /\ alive = TRUE /\ stopped = FALSE
  /\ pending = 0 /\ approveAll = FALSE /\ resolved = {}
  /\ question = [r \in Requests |-> 0]
  /\ answers = [r \in Requests |-> {}]
  /\ turn = "wait" /\ asked = 0
  /\ pc = [p \in Procs |-> "idle"]
  /\ held = [p \in Procs |-> 0]
  /\ index = [p \in Replies |-> 0]
  /\ verdict = [p \in Replies |-> "deny"]
  /\ responses = [r \in Requests |-> [v \in Verdicts |-> 0]]
  /\ approved = {}
  /\ panicked = FALSE

At(p, label) == ~panicked /\ pc[p] = label
Goto(p, label) == pc' = [pc EXCEPT ![p] = label]
TurnAt(label) == ~panicked /\ turn = label

-----------------------------------------------------------------------------
(* processInteractiveEvents *)

\* The next request arrives; a stopped state ends the turn.
Receive ==
  /\ TurnAt("wait") /\ ~stopped /\ asked < MaxRequests
  /\ asked' = asked + 1
  /\ turn' = "received"
  /\ UNCHANGED <<shared, requests, pc, locals, responses, approved, panicked>>

LeaveTurn ==
  /\ TurnAt("wait") /\ stopped
  /\ turn' = "done"
  /\ UNCHANGED <<shared, requests, asked, pc, locals, responses, approved,
                 panicked>>

\* Mutant of CheckApproveAll: questions are granted, too.
CheckApproveAny ==
  /\ TurnAt("received")
  /\ turn' = IF approveAll THEN "grant" ELSE "publish"
  /\ UNCHANGED <<shared, requests, asked, pc, locals, responses, approved,
                 panicked>>

\* state.approveAll grants tools, never questions.
CheckApproveAll ==
  /\ TurnAt("received")
  /\ turn' = IF approveAll /\ asked \notin Questions THEN "grant" ELSE "publish"
  /\ UNCHANGED <<shared, requests, asked, pc, locals, responses, approved,
                 panicked>>

\* RespondPermission: a closed agent returns an error.
Told(r, v) ==
  responses' = IF alive THEN [responses EXCEPT ![r][v] = @ + 1] ELSE responses

Grant ==
  /\ TurnAt("grant")
  /\ IF hasAgent
       THEN Told(asked, "allow") /\ turn' = "wait" /\ UNCHANGED panicked
       ELSE panicked' = TRUE /\ UNCHANGED <<responses, turn>>
  /\ UNCHANGED <<shared, requests, asked, pc, locals, approved>>

Publish ==
  /\ TurnAt("publish")
  /\ pending' = asked
  /\ turn' = "blocked"
  /\ UNCHANGED <<shared, approveAll, resolved, question, answers, asked, pc,
                 locals, responses, approved, panicked>>

\* <-pending.Resolved, and nothing else.
Unblock ==
  /\ TurnAt("blocked") /\ asked \in resolved
  /\ turn' = "wait"
  /\ UNCHANGED <<shared, requests, asked, pc, locals, responses, approved,
                 panicked>>

-----------------------------------------------------------------------------
(* handlePendingPermission *)

Quiet == \A q \in Replies : pc[q] \in {"idle", "done"}

\* The map is read under interactiveMu, which a stop in progress holds.
FindState(p) ==
  /\ At(p, "idle")
  /\ Serial => Quiet
  /\ \A d \in Teardowns : pc[d] # "stopmark"
  /\ Goto(p, IF inMap THEN "found" ELSE "done")
  /\ UNCHANGED <<shared, requests, turn, asked, locals, responses, approved,
                 panicked>>

ReadPending(p) ==
  /\ At(p, "found")
  /\ held' = [held EXCEPT ![p] = pending]
  /\ Goto(p, IF pending = 0 THEN "done" ELSE "decide")
  /\ UNCHANGED <<shared, requests, turn, asked, index, verdict, responses,
                 approved, panicked>>

\* An answer to the current question; an empty message is none.
ReadQuestion(p) ==
  /\ At(p, "decide") /\ held[p] \in Questions
  /\ \/ index' = [index EXCEPT ![p] = question[held[p]]] /\ Goto(p, "answering")
     \/ Goto(p, "done") /\ UNCHANGED index
  /\ UNCHANGED <<shared, requests, turn, asked, held, verdict, responses,
                 approved, panicked>>

IsLast(i) == i + 1 >= NumQuestions

\* The answer is kept, without a lock; after the last one all are sent.
StoreAnswer(p) ==
  LET r == held[p]
      i == index[p]
  IN
  /\ At(p, "answering")
  /\ answers' = [answers EXCEPT ![r] = @ \cup {i}]
  /\ IF IsLast(i)
       THEN /\ Goto(p, "respond")
            /\ verdict' = [verdict EXCEPT ![p] = "allow"]
            /\ UNCHANGED question
       ELSE /\ question' = [question EXCEPT ![r] = i + 1]
            /\ Goto(p, "done")
            /\ UNCHANGED verdict
  /\ UNCHANGED <<shared, pending, approveAll, resolved, turn, asked, held, index,
                 responses, approved, panicked>>

\* Mutant of Approve: BlockPermissionApproval is not looked at.
ApproveAnyone(p) ==
  /\ At(p, "decide") /\ held[p] \notin Questions
  /\ approveAll' \in {approveAll, TRUE}
  /\ approved' = IF p \in Approvers THEN approved \cup {held[p]} ELSE approved
  /\ verdict' = [verdict EXCEPT ![p] = "allow"]
  /\ Goto(p, "respond")
  /\ UNCHANGED <<shared, pending, resolved, question, answers, turn, asked,
                 held, index, responses, panicked>>

\* "allow" or "allow all", from a sender who may approve.
Approve(p) ==
  /\ At(p, "decide") /\ held[p] \notin Questions
  /\ p \in Approvers
  /\ approveAll' \in {approveAll, TRUE}
  /\ approved' = approved \cup {held[p]}
  /\ verdict' = [verdict EXCEPT ![p] = "allow"]
  /\ Goto(p, "respond")
  /\ UNCHANGED <<shared, pending, resolved, question, answers, turn, asked,
                 held, index, responses, panicked>>

Deny(p) ==
  /\ At(p, "decide") /\ held[p] \notin Questions
  /\ verdict' = [verdict EXCEPT ![p] = "deny"]
  /\ Goto(p, "respond")
  /\ UNCHANGED <<shared, requests, turn, asked, held, index, responses,
                 approved, panicked>>

\* Mutant of Hint: the request is dropped with the hint.
HintClears(p) ==
  /\ At(p, "decide") /\ held[p] \notin Questions
  /\ pending' = 0
  /\ Goto(p, "done")
  /\ UNCHANGED <<shared, approveAll, resolved, question, answers, turn, asked,
                 locals, responses, approved, panicked>>

\* No decision, or an approval by a sender who may not approve: a hint.
Hint(p) ==
  /\ At(p, "decide") /\ held[p] \notin Questions
  /\ Goto(p, "done")
  /\ UNCHANGED <<shared, requests, turn, asked, locals, responses, approved,
                 panicked>>

Respond(p) ==
  /\ At(p, "respond")
  /\ IF hasAgent
       THEN Told(held[p], verdict[p]) /\ Goto(p, "clear") /\ UNCHANGED panicked
       ELSE panicked' = TRUE /\ UNCHANGED <<responses, pc>>
  /\ UNCHANGED <<shared, requests, turn, asked, locals, approved>>

\* Mutant of ClearPending: the answered request stays pending.
ClearNothing(p) ==
  /\ At(p, "clear")
  /\ Goto(p, "resolve")
  /\ UNCHANGED <<shared, requests, turn, asked, locals, responses, approved,
                 panicked>>

\* state.pending = nil, whatever it holds by now.
ClearPending(p) ==
  /\ At(p, "clear")
  /\ pending' = 0
  /\ Goto(p, "resolve")
  /\ UNCHANGED <<shared, approveAll, resolved, question, answers, turn, asked,
                 locals, responses, approved, panicked>>

\* pending.resolve(), once or again.
Resolve(p) ==
  /\ At(p, "resolve")
  /\ resolved' = resolved \cup {held[p]}
  /\ Goto(p, "done")
  /\ UNCHANGED <<shared, pending, approveAll, question, answers, turn, asked,
                 locals, responses, approved, panicked>>

-----------------------------------------------------------------------------
(* cleanupInteractiveState *)

CleanupTake(d) ==
  /\ At(d, "idle") /\ "cleanup" \in TeardownKinds /\ inMap
  /\ \A e \in Teardowns : pc[e] # "stopmark"
  /\ hasAgent' = FALSE
  /\ Goto(d, "mark")
  /\ UNCHANGED <<inMap, alive, stopped, requests, turn, asked, locals, responses,
                 approved, panicked>>

CleanupMark(d) ==
  /\ At(d, "mark")
  /\ stopped' = TRUE
  /\ Goto(d, "take")
  /\ UNCHANGED <<inMap, hasAgent, alive, requests, turn, asked, locals,
                 responses, approved, panicked>>

\* A teardown takes the pending request, which it will resolve.
TakePending(d) ==
  /\ held' = [held EXCEPT ![d] = pending]
  /\ pending' = 0
  /\ UNCHANGED <<approveAll, resolved, question, answers>>

CleanupPending(d) ==
  /\ At(d, "take")
  /\ TakePending(d)
  /\ Goto(d, "release")
  /\ UNCHANGED <<shared, turn, asked, index, verdict, responses, approved,
                 panicked>>

Release(d) ==
  /\ At(d, "release")
  /\ resolved' = IF held[d] = 0 THEN resolved ELSE resolved \cup {held[d]}
  /\ Goto(d, "close")
  /\ UNCHANGED <<shared, pending, approveAll, question, answers, turn, asked,
                 locals, responses, approved, panicked>>

\* The agent is closed; a cleanup then deletes the entry.
Close(d) ==
  /\ At(d, "close")
  /\ alive' = FALSE
  /\ Goto(d, "delete")
  /\ UNCHANGED <<inMap, hasAgent, stopped, requests, turn, asked, locals,
                 responses, approved, panicked>>

Delete(d) ==
  /\ At(d, "delete")
  /\ \A e \in Teardowns : pc[e] # "stopmark"
  /\ inMap' = FALSE
  /\ Goto(d, "done")
  /\ UNCHANGED <<hasAgent, alive, stopped, requests, turn, asked, locals,
                 responses, approved, panicked>>

(* stopInteractiveSession, under interactiveMu until the entry is gone *)

StopPending(d) ==
  /\ At(d, "idle") /\ "stop" \in TeardownKinds /\ inMap
  /\ \A e \in Teardowns : pc[e] # "stopmark"
  /\ TakePending(d)
  /\ Goto(d, "stopmark")
  /\ UNCHANGED <<shared, turn, asked, index, verdict, responses, approved,
                 panicked>>

StopMark(d) ==
  /\ At(d, "stopmark")
  /\ stopped' = TRUE
  /\ inMap' = FALSE
  /\ Goto(d, "release")
  /\ UNCHANGED <<hasAgent, alive, requests, turn, asked, locals, responses,
                 approved, panicked>>

-----------------------------------------------------------------------------
(* The whole system *)

Turn == Receive \/ LeaveTurn \/ CheckApproveAll \/ Grant \/ Publish \/ Unblock

Reply(p) ==
  \/ FindState(p) \/ ReadPending(p) \/ ReadQuestion(p) \/ StoreAnswer(p)
  \/ Approve(p) \/ Deny(p) \/ Hint(p)
  \/ Respond(p) \/ ClearPending(p) \/ Resolve(p)

Teardown(d) ==
  \/ CleanupTake(d) \/ CleanupMark(d) \/ CleanupPending(d)
  \/ StopPending(d) \/ StopMark(d) \/ Release(d) \/ Close(d) \/ Delete(d)

Next ==
  \/ Turn
  \/ \E p \in Replies : Reply(p)
  \/ \E d \in Teardowns : Teardown(d)

Spec == Init /\ [][Next]_vars

-----------------------------------------------------------------------------
(* Properties *)

\* The agent gets at most one answer to a request: the turn's automatic grant,
\* a reply, or none (handlePendingPermission clears state.pending before the
\* next message is handled).
AnsweredOnce ==
  \A r \in Requests : responses[r]["allow"] + responses[r]["deny"] <= 1

\* A tool is granted only if an approver has allowed that request, or had
\* allowed an earlier one for good (BlockPermissionApproval).
Authorized ==
  \A r \in Requests \ Questions : responses[r]["allow"] > 0 =>
    r \in approved \/ (approveAll /\ \E q \in approved : q <= r)

\* Questions are answered to the agent only when the user has answered all of
\* them, whatever "allow all" was given before (CurrentQuestion, Answers).
QuestionsComplete ==
  \A r \in Questions : responses[r]["allow"] > 0 =>
    answers[r] = 0 .. NumQuestions - 1

\* Whoever will still close the channel of request r.
Releasing(r) ==
  {p \in Procs : held[p] = r /\ pc[p] \in {"respond", "clear", "resolve",
                                           "stopmark", "release"}}

Stuck == turn = "blocked" /\ asked \notin resolved /\ Releasing(asked) = {}

\* As long as the state is not stopped, the request a turn is blocked on can be
\* answered: it is pending in the map, or about to be resolved.
Answerable == Stuck /\ ~stopped => pending = asked /\ inMap

\* A teardown never leaves the turn blocked: it has yet to take the request, or
\* somebody is going to resolve it.
ReleasedByTeardown ==
  Stuck /\ stopped =>
    pending = asked /\ \E d \in Teardowns : pc[d] \in {"mark", "take"}
=============================================================================
