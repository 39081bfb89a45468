---------------------------- MODULE SessionLock ----------------------------
(***************************************************************************)
(* The Session of a chat, as everything that starts turns on it sees it    *)
(* (core/session.go, core/engine.go): the busy flag that a turn takes with *)
(* TryLock, the queue of the messages that find it taken, and the length   *)
(* of the history.  A turn records the prompt, then the answer, then       *)
(* serves the queue, and gives the flag back when the queue is empty.      *)
(* Module TurnEngine has the turn in detail; here it is four steps.        *)
(*                                                                         *)
(* Users send messages; Cron and Heartbeat start turns on the same         *)
(* Session, and Automation puts them together.                             *)
(***************************************************************************)
EXTENDS Naturals, Sequences, FiniteSets

CONSTANTS
  Users,      \* the messages of users, each with its goroutine
  MaxStimuli  \* bound on what happens to the process from outside

ASSUME SessionAssumption == MaxStimuli \in Nat

VARIABLES
  busy,     \* Session.busy
  queue,    \* interactiveState.pendingMessages
  history,  \* Session.HistoryLen()
  user,     \* where the goroutine of each message is
  stimuli,  \* how much has happened from outside
  lapses    \* what has happened that the guarantees do not survive

sessionVars == <<busy, queue, history>>

SessionTypeOK ==
  /\ busy \in BOOLEAN
  /\ queue \in Seq(Users)
  /\ history \in Nat
  /\ user \in [Users -> {"idle", "retry", "begin", "asked", "drain", "done"}]
  /\ stimuli \in 0 .. MaxStimuli
  /\ lapses \subseteq {"probe", "overlap", "write", "torn"}

SessionInit ==
  /\ busy = FALSE
  /\ queue = <<>>
  /\ history = 0
  /\ user = [m \in Users |-> "idle"]
  /\ stimuli = 0
  /\ lapses = {}

\* Somebody outside the process acts.
Stimulus == stimuli < MaxStimuli /\ stimuli' = stimuli + 1

-----------------------------------------------------------------------------
(* The steps of a turn, whoever runs it *)

TryLock ==
  /\ ~busy
  /\ busy' = TRUE
  /\ UNCHANGED <<queue, history>>

\* processInteractiveMessageWith records the prompt.
Ask == history' = history + 1 /\ UNCHANGED <<busy, queue>>

\* The turn is over; only an answer is recorded.
Answer(ok) ==
  /\ history' = history + (IF ok THEN 1 ELSE 0)
  /\ UNCHANGED <<busy, queue>>

\* drainPendingMessages asks the next message.
Pop ==
  /\ queue # <<>>
  /\ queue' = Tail(queue)
  /\ history' = history + 1
  /\ UNCHANGED busy

\* Mutant of Release: the flag is given back without a look at the queue.
ReleaseBlind ==
  /\ busy' = FALSE
  /\ UNCHANGED <<queue, history>>

\* The queue is empty: Unlock, in the critical section of the test.
Release ==
  /\ queue = <<>>
  /\ busy' = FALSE
  /\ UNCHANGED <<queue, history>>

-----------------------------------------------------------------------------
(* Messages of users *)

\* handleMessage: a turn, a place in the queue, or a refusal when the chat has
\* no interactiveState yet that could queue it.
UserMessage(m) ==
  /\ user[m] = "idle"
  /\ Stimulus
  /\ \/ TryLock /\ user' = [user EXCEPT ![m] = "begin"]
     \/ /\ busy
        /\ \/ queue' = Append(queue, m) /\ user' = [user EXCEPT ![m] = "retry"]
           \/ user' = [user EXCEPT ![m] = "done"] /\ UNCHANGED queue
        /\ UNCHANGED <<busy, history>>

\* The second TryLock, after the message has been queued.
UserRetry(m) ==
  /\ user[m] = "retry"
  /\ \/ TryLock /\ user' = [user EXCEPT ![m] = "drain"]
     \/ busy /\ user' = [user EXCEPT ![m] = "done"] /\ UNCHANGED sessionVars
  /\ UNCHANGED stimuli

UserTurn(m) ==
  /\ \/ user[m] = "begin" /\ Ask /\ user' = [user EXCEPT ![m] = "asked"]
     \/ /\ user[m] = "asked"
        /\ \E ok \in BOOLEAN : Answer(ok)
        /\ user' = [user EXCEPT ![m] = "drain"]
     \/ user[m] = "drain" /\ Pop /\ user' = [user EXCEPT ![m] = "asked"]
     \/ user[m] = "drain" /\ Release /\ user' = [user EXCEPT ![m] = "done"]
  /\ UNCHANGED stimuli

\* /new, /model, /dir and others clear the history, locked or not.
ClearHistory ==
  /\ Stimulus
  /\ history # 0
  /\ history' = 0
  /\ UNCHANGED <<busy, queue, user>>

UserStep ==
  /\ \/ \E m \in Users : UserMessage(m) \/ UserRetry(m) \/ UserTurn(m)
     \/ ClearHistory
  /\ UNCHANGED lapses

\* The goroutines that have the flag.
UserHolders == {m \in Users : user[m] \in {"begin", "asked", "drain"}}

=============================================================================
