-------------------------------- MODULE Relay --------------------------------
(***************************************************************************)
(* Bots that ask each other (core/relay.go, and HandleRelay and drain-     *)
(* RelaySession in core/engine.go).  A chat binds projects; a bot          *)
(* of one project sends a message to the agent of another, for which the   *)
(* target's engine starts an agent process of its own, in a relay session  *)
(* that it keeps per source, and waits for the answer.  Nothing keeps two  *)
(* relays of one source apart.  A relay whose time is up returns what it   *)
(* has and leaves the process to a goroutine that lets it finish.          *)
(*                                                                         *)
(* One chat and one target.  The agent's id of a session is the request    *)
(* whose process began it.                                                 *)
(***************************************************************************)
EXTENDS Naturals, Sequences, FiniteSets

CONSTANTS
  Requests,    \* relays, each with its goroutines
  Sources,     \* the projects that send
  RelayFaults, \* a subset of {"resume", "start", "send"}
  MaxEvents    \* how many events a process sends at most

ASSUME RelayAssumption ==
  /\ "no id" \notin Requests /\ "no source" \notin Sources
  /\ RelayFaults \subseteq {"resume", "start", "send"}
  /\ MaxEvents \in Nat \ {0}

VARIABLES
  bound,    \* does the binding of the chat have the target?
  session,  \* AgentSessionID of the relay session of each source
  pc,       \* where each relay is
  source,   \* who has sent it
  resume,   \* the id it starts its process with
  proc,     \* its process
  id,       \* the process's CurrentSessionID()
  events,   \* AgentSession.Events()
  emitted,  \* how many events the process has sent
  asked,    \* does the process wait for a permission?
  text,     \* textParts has something
  expired,  \* ctx.Err() # nil
  outcome,  \* what HandleRelay has returned
  learned   \* the ids each source has read from its processes and not lost

procVars == <<proc, id, events, emitted, asked>>
relayVars == <<pc, source, resume, text, outcome>>
vars == <<bound, session, relayVars, procVars, expired, learned>>

NoId == "no id"
NoSource == "no source"
Kinds == {"text", "permission", "result", "error"}

TypeOK ==
  /\ bound \in BOOLEAN
  /\ session \in [Sources -> Requests \cup {NoId}]
  /\ pc \in [Requests -> {"idle", "start", "fresh", "send", "read", "drain", "end"}]
  /\ source \in [Requests -> Sources \cup {NoSource}]
  /\ resume \in [Requests -> Requests \cup {NoId}]
  /\ proc \in [Requests -> {"none", "up", "exited", "closed"}]
  /\ id \in [Requests -> Requests \cup {NoId}]
  /\ events \in [Requests -> Seq([kind : Kinds, id : Requests \cup {NoId}])]
  /\ emitted \in [Requests -> 0 .. MaxEvents]
  /\ asked \in [Requests -> BOOLEAN]
  /\ text \in [Requests -> BOOLEAN]
  /\ expired \in [Requests -> BOOLEAN]
  /\ outcome \in [Requests -> {"none", "refused", "answer", "partial", "error"}]
  /\ learned \in [Sources -> SUBSET Requests]

Init ==
  /\ bound = FALSE
  /\ session = [s \in Sources |-> NoId]
  /\ pc = [r \in Requests |-> "idle"]
  /\ source = [r \in Requests |-> NoSource]
  /\ resume = [r \in Requests |-> NoId]
  /\ proc = [r \in Requests |-> "none"]
  /\ id = [r \in Requests |-> NoId]
  /\ events = [r \in Requests |-> <<>>]
  /\ emitted = [r \in Requests |-> 0]
  /\ asked = [r \in Requests |-> FALSE]
  /\ text = [r \in Requests |-> FALSE]
  /\ expired = [r \in Requests |-> FALSE]
  /\ outcome = [r \in Requests |-> "none"]
  /\ learned = [s \in Sources |-> {}]

-----------------------------------------------------------------------------
(* Bindings *)

Unchanged == UNCHANGED <<session, relayVars, procVars, expired, learned>>

\* Bind, of the API, and AddToBind, of /bind.
AddToBind == bound' = TRUE /\ Unchanged

\* RemoveFromBind, and Bind without the target.
RemoveFromBind == bound' = FALSE /\ Unchanged

-----------------------------------------------------------------------------
(* A relay *)

Go(r, at) == pc' = [pc EXCEPT ![r] = at]
Return(r, result) == outcome' = [outcome EXCEPT ![r] = result]
\* AgentSession.Close; what the process has said since is dropped.
Close(r) == /\ proc' = [proc EXCEPT ![r] = "closed"]
            /\ asked' = [asked EXCEPT ![r] = FALSE]
            /\ events' = [events EXCEPT ![r] = <<>>]
\* The process goes on after the event that has been read.
Consume(r, e) == /\ events' = [events EXCEPT ![r] = Tail(@)]
                 /\ asked' = [asked EXCEPT ![r] = @ /\ e.kind # "permission"]
                 /\ UNCHANGED proc

\* RelayManager.Send: the target must be bound.  HandleRelay then reads the id.
Send(r, s) ==
  /\ pc[r] = "idle"
  /\ source' = [source EXCEPT ![r] = s]
  /\ \/ /\ bound
        /\ Go(r, "start")
        /\ resume' = [resume EXCEPT ![r] = session[s]]
        /\ UNCHANGED outcome
     \/ /\ ~bound
        /\ Go(r, "end") /\ Return(r, "refused")
        /\ UNCHANGED resume
  /\ UNCHANGED <<bound, session, text, procVars, expired, learned>>

\* CompareAndSetAgentSessionID
Adopt(s, new) ==
  /\ session' = IF new # NoId /\ session[s] = NoId
                  THEN [session EXCEPT ![s] = new] ELSE session
  /\ learned' = IF new # NoId THEN [learned EXCEPT ![s] = @ \cup {new}] ELSE learned

\* StartSession: a process that resumes keeps the id or gets another; one that
\* is fresh may know its id only later.
Started(r, fresh) ==
  /\ Go(r, "send")
  /\ proc' = [proc EXCEPT ![r] = "up"]
  /\ \E new \in {r, NoId} \cup (IF fresh THEN {} ELSE {resume[r]}) :
       /\ id' = [id EXCEPT ![r] = new]
       /\ Adopt(source[r], new)
  /\ UNCHANGED <<bound, source, resume, text, outcome, events, emitted, asked,
                 expired>>

\* The start fails.  A session that has an id by now loses it, and a fresh
\* process is tried.
StartFails(r) ==
  /\ "start" \in RelayFaults \/ ("resume" \in RelayFaults /\ resume[r] # NoId)
  /\ LET s == source[r] IN
       \/ /\ session[s] # NoId
          /\ session' = [session EXCEPT ![s] = NoId]
          /\ learned' = [learned EXCEPT ![s] = {}]
          /\ Go(r, "fresh")
          /\ UNCHANGED outcome
       \/ /\ session[s] = NoId
          /\ Go(r, "end") /\ Return(r, "error")
          /\ UNCHANGED <<session, learned>>
  /\ UNCHANGED <<bound, source, resume, text, procVars, expired>>

FreshFails(r) ==
  /\ "start" \in RelayFaults
  /\ Go(r, "end") /\ Return(r, "error")
  /\ UNCHANGED <<bound, session, source, resume, text, procVars, expired, learned>>

StartSession(r) ==
  \/ pc[r] = "start" /\ (Started(r, resume[r] = NoId) \/ StartFails(r))
  \/ pc[r] = "fresh" /\ (Started(r, TRUE) \/ FreshFails(r))

\* Mutant of SendPrompt: the process that cannot be written to is forgotten.
SendForgets(r) ==
  /\ pc[r] = "send"
  /\ \/ /\ proc[r] = "up"
        /\ Go(r, "read")
        /\ UNCHANGED <<proc, asked, outcome>>
     \/ /\ proc[r] = "exited" \/ "send" \in RelayFaults
        /\ Go(r, "end") /\ Return(r, "error")
        /\ UNCHANGED <<proc, asked>>
  /\ UNCHANGED <<bound, session, source, resume, text, id, events, emitted,
                 expired, learned>>

SendPrompt(r) ==
  /\ pc[r] = "send"
  /\ \/ /\ proc[r] = "up"
        /\ Go(r, "read")
        /\ UNCHANGED <<proc, asked, events, outcome>>
     \/ /\ proc[r] = "exited" \/ "send" \in RelayFaults
        /\ Close(r)
        /\ Go(r, "end") /\ Return(r, "error")
  /\ UNCHANGED <<bound, session, source, resume, text, id, emitted,
                 expired, learned>>

\* relayPartialResponseOrError
Late(r, said) == Return(r, IF said THEN "partial" ELSE "error")

\* The next event.  The deadline is looked at after each event that is not the
\* last, and only then.
Receive(r) ==
  /\ pc[r] = "read" /\ events[r] # <<>>
  /\ LET e == Head(events[r])
         said == text[r] \/ e.kind = "text"
     IN
       /\ text' = [text EXCEPT ![r] = said]
       /\ \/ /\ e.kind = "result"
             /\ Adopt(source[r], id[r])
             /\ Close(r) /\ Go(r, "end") /\ Return(r, "answer")
          \/ /\ e.kind = "error"
             /\ Close(r) /\ Go(r, "end") /\ Return(r, "error")
             /\ UNCHANGED <<session, learned>>
          \/ /\ e.kind \in {"text", "permission"}
             /\ IF e.kind = "text" THEN Adopt(source[r], e.id)
                                   ELSE UNCHANGED <<session, learned>>
             /\ Consume(r, e)
             /\ IF expired[r] THEN Go(r, "drain") /\ Late(r, said)
                              ELSE UNCHANGED <<pc, outcome>>
  /\ UNCHANGED <<bound, source, resume, id, emitted, expired>>

\* The channel is closed without a result.
ChannelClosed(r) ==
  /\ pc[r] = "read" /\ events[r] = <<>> /\ proc[r] = "exited"
  /\ Close(r) /\ Go(r, "end")
  /\ IF expired[r] THEN Late(r, text[r])
                   ELSE Return(r, IF text[r] THEN "answer" ELSE "error")
  /\ UNCHANGED <<bound, session, source, resume, text, id, emitted,
                 expired, learned>>

-----------------------------------------------------------------------------
(* drainRelaySession *)

\* Mutant of Drain: the id of a process that finishes late is not kept.
DrainBlind(r) ==
  /\ pc[r] = "drain" /\ events[r] # <<>>
  /\ LET e == Head(events[r]) IN
       /\ learned' = IF e.id # NoId THEN [learned EXCEPT ![source[r]] = @ \cup {e.id}]
                                    ELSE learned
       /\ IF e.kind \in {"result", "error"}
            THEN Close(r) /\ Go(r, "end")
            ELSE Consume(r, e) /\ UNCHANGED pc
  /\ UNCHANGED <<bound, session, source, resume, text, outcome, id, emitted, expired>>

\* Whatever id the event has replaces the one of the session.
Drain(r) ==
  /\ pc[r] = "drain" /\ events[r] # <<>>
  /\ LET e == Head(events[r])
         s == source[r]
     IN
       /\ session' = IF e.id # NoId THEN [session EXCEPT ![s] = e.id] ELSE session
       /\ learned' = IF e.id # NoId THEN [learned EXCEPT ![s] = @ \cup {e.id}]
                                    ELSE learned
       /\ IF e.kind \in {"result", "error"}
            THEN Close(r) /\ Go(r, "end")
            ELSE Consume(r, e) /\ UNCHANGED pc
  /\ UNCHANGED <<bound, source, resume, text, outcome, id, emitted, expired>>

\* The channel is closed, or the timer ends the wait, or the engine stops.
DrainEnds(r) ==
  /\ pc[r] = "drain"
  /\ Close(r) /\ Go(r, "end")
  /\ UNCHANGED <<bound, session, source, resume, text, outcome, id, emitted,
                 expired, learned>>

-----------------------------------------------------------------------------
(* The process, and the time *)

\* The agent has an id by now, and tells it with its events.  It ends its turn with a
\* result or an error, unless it falls silent, and waits for the permission it
\* has asked for.
Emit(r) ==
  /\ proc[r] = "up" /\ pc[r] \in {"read", "drain"}
  /\ ~asked[r]
  /\ emitted[r] < MaxEvents
  /\ id' = [id EXCEPT ![r] = IF @ = NoId THEN r ELSE @]
  /\ \E k \in Kinds :
       /\ events' = [events EXCEPT ![r] = Append(@, [kind |-> k, id |-> id'[r]])]
       /\ asked' = [asked EXCEPT ![r] = k = "permission"]
       /\ emitted' = [emitted EXCEPT ![r] =
                        IF k \in {"result", "error"} THEN MaxEvents ELSE @ + 1]
  /\ UNCHANGED <<bound, session, relayVars, proc, expired, learned>>

Exit(r) ==
  /\ proc[r] = "up"
  /\ proc' = [proc EXCEPT ![r] = "exited"]
  /\ UNCHANGED <<bound, session, relayVars, id, events, emitted, asked, expired,
                 learned>>

\* The deadline of relayContext, or a caller that has gone.
Expire(r) ==
  /\ pc[r] \in {"start", "fresh", "send", "read"}
  /\ ~expired[r]
  /\ expired' = [expired EXCEPT ![r] = TRUE]
  /\ UNCHANGED <<bound, session, relayVars, procVars, learned>>

RelayStep(r) ==
  \/ StartSession(r) \/ SendPrompt(r) \/ Receive(r) \/ ChannelClosed(r)
  \/ Drain(r) \/ DrainEnds(r)

Next ==
  \/ AddToBind \/ RemoveFromBind
  \/ \E r \in Requests :
       \/ \E s \in Sources : Send(r, s)
       \/ RelayStep(r)
       \/ Emit(r) \/ Exit(r) \/ Expire(r)

Spec == Init /\ [][Next]_vars

\* The goroutines go on.  Nothing is asked of the agent, which may be silent for
\* ever, and nothing of those who send relays and commands.
FairSpec == Spec /\ \A r \in Requests : WF_vars(RelayStep(r))

-----------------------------------------------------------------------------
(* Properties *)

\* No process is left behind: while one is up, its relay or the goroutine that
\* lets it finish has it (core/engine.go:13017, 13068-13093, 13124-13166).
Attended ==
  \A r \in Requests : proc[r] = "up" => pc[r] \in {"send", "read", "drain"}

\* "The session remains resumable for the next relay call" (core/engine.go:13084-13086):
\* once no relay of a source is in progress, its session has an id that one of
\* its processes gave, if any gave one since a resume failed.
Resumable ==
  \A s \in Sources :
    (learned[s] # {} /\ \A r \in Requests : source[r] = s => pc[r] \in {"idle", "end"})
      => session[s] \in learned[s]

\* HandleRelay "blocks until the complete response is collected (or the relay
\* context times out)" (core/engine.go:12966-12968).
Deadline == \A r \in Requests : expired[r] ~> outcome[r] # "none" \/ pc[r] = "end"

=============================================================================
