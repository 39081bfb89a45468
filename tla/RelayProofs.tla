----------------------------- MODULE RelayProofs -----------------------------
(***************************************************************************)
(* Relays, for any number of requests and sources: no process is left      *)
(* behind, and the session of a source keeps an id that one of its         *)
(* processes gave.                                                         *)
(***************************************************************************)
EXTENDS Relay, SequenceTheorems, TLAPS

Told == [kind : Kinds, id : Requests \cup {NoId}]

\* A relay that has begun knows who has sent it.
Sourced == \A r \in Requests : pc[r] # "idle" => source[r] \in Sources

\* The session of a source has an id exactly when one has been learned, and it
\* is one of those: also while relays of the source are in progress.
Kept ==
  \A s \in Sources : /\ session[s] # NoId => session[s] \in learned[s]
                     /\ session[s] = NoId => learned[s] = {}

IInv == TypeOK /\ Sourced /\ Attended /\ Kept

LEMMA Constants == MaxEvents \in Nat \ {0} /\ NoId \notin Requests /\ NoSource \notin Sources
BY RelayAssumption DEF NoId, NoSource

LEMMA Sequences ==
  /\ <<>> \in Seq(Told)
  /\ \A q \in Seq(Told), x \in Told : Append(q, x) \in Seq(Told)
  /\ \A q \in Seq(Told) : q # <<>> => Head(q) \in Told /\ Tail(q) \in Seq(Told)
OBVIOUS

LEMMA Typed ==
  ASSUME TypeOK
  PROVE  /\ session \in [Sources -> Requests \cup {NoId}]
         /\ learned \in [Sources -> SUBSET Requests]
         /\ pc \in [Requests -> {"idle", "start", "fresh", "send", "read", "drain", "end"}]
         /\ source \in [Requests -> Sources \cup {NoSource}]
         /\ resume \in [Requests -> Requests \cup {NoId}]
         /\ proc \in [Requests -> {"none", "up", "exited", "closed"}]
         /\ id \in [Requests -> Requests \cup {NoId}]
         /\ events \in [Requests -> Seq(Told)]
         /\ emitted \in [Requests -> 0 .. MaxEvents]
         /\ {asked, text, expired} \subseteq [Requests -> BOOLEAN]
         /\ outcome \in [Requests -> {"none", "refused", "answer", "partial", "error"}]
BY DEF TypeOK, Told

LEMMA AdoptKept ==
  ASSUME TypeOK, Kept, NEW s \in Sources, NEW new \in Requests \cup {NoId}, Adopt(s, new)
  PROVE  /\ session' \in [Sources -> Requests \cup {NoId}]
         /\ learned' \in [Sources -> SUBSET Requests]
         /\ Kept'
<1>1. CASE new = NoId
  BY <1>1, Typed DEF Adopt, Kept
<1>2. CASE new # NoId /\ session[s] = NoId
  BY <1>2, Typed DEF Adopt, Kept
<1>3. CASE new # NoId /\ session[s] # NoId
  BY <1>3, Typed DEF Adopt, Kept
<1> QED BY <1>1, <1>2, <1>3

LEMMA InitInv == Init => IInv
<1> SUFFICES ASSUME Init PROVE IInv
  OBVIOUS
<1>1. events \in [Requests -> Seq(Told)] /\ bound \in BOOLEAN
  BY Sequences DEF Init
<1>2. TypeOK
  BY <1>1, Constants DEF Init, TypeOK, Told
<1>3. Sourced /\ Attended /\ Kept
  BY DEF Init, Sourced, Attended, Kept
<1> QED BY <1>2, <1>3 DEF IInv

-----------------------------------------------------------------------------
(* One lemma per group of actions *)

LEMMA BindInv ==
  ASSUME IInv, AddToBind \/ RemoveFromBind
  PROVE  IInv'
<1> USE DEF IInv
<1>1. CASE AddToBind
  <2>1. /\ bound' = TRUE
    BY <1>1 DEF AddToBind
  <2>2. UNCHANGED <<session, pc, source, resume, proc, id, events, emitted, asked,
                   text, expired, outcome, learned>>
    BY <1>1 DEF AddToBind, procVars, relayVars, Unchanged
  <2>3. TypeOK'
    <3>1. bound' \in BOOLEAN
      BY <2>1, Typed, Constants
    <3> QED BY <2>2, <3>1 DEF TypeOK, Told
  <2>4. Sourced' /\ Attended'
    BY <2>1, <2>2, Typed DEF Sourced, Attended
  <2>5. Kept'
    BY <2>2 DEF Kept
  <2> QED BY <2>3, <2>4, <2>5 DEF IInv
<1>2. CASE RemoveFromBind
  <2>1. /\ bound' = FALSE
    BY <1>2 DEF RemoveFromBind
  <2>2. UNCHANGED <<session, pc, source, resume, proc, id, events, emitted, asked,
                   text, expired, outcome, learned>>
    BY <1>2 DEF RemoveFromBind, procVars, relayVars, Unchanged
  <2>3. TypeOK'
    <3>1. bound' \in BOOLEAN
      BY <2>1, Typed, Constants
    <3> QED BY <2>2, <3>1 DEF TypeOK, Told
  <2>4. Sourced' /\ Attended'
    BY <2>1, <2>2, Typed DEF Sourced, Attended
  <2>5. Kept'
    BY <2>2 DEF Kept
  <2> QED BY <2>3, <2>4, <2>5 DEF IInv
<1> QED BY <1>1, <1>2

LEMMA SendInv ==
  ASSUME IInv, NEW r \in Requests, NEW s \in Sources, Send(r, s)
  PROVE  IInv'
<1> USE DEF IInv
<1>1. Send(r, s)
  OBVIOUS
<1>2. CASE bound
  <2>1. /\ pc[r] = "idle"
        /\ source' = [source EXCEPT ![r] = s]
        /\ pc' = [pc EXCEPT ![r] = "start"]
        /\ resume' = [resume EXCEPT ![r] = session[s]]
    BY <1>2, <1>1 DEF Send, Go, Return
  <2>2. UNCHANGED <<bound, session, proc, id, events, emitted, asked, text, expired,
                   outcome, learned>>
    BY <1>2, <1>1 DEF Send, Go, Return, procVars, relayVars, Unchanged
  <2>3. TypeOK'
    <3>1. pc' \in [Requests -> {"idle", "start", "fresh", "send", "read", "drain", "end"}]
      BY <2>1, Typed, Constants
    <3>2. source' \in [Requests -> Sources \cup {NoSource}]
      BY <2>1, Typed, Constants
    <3>3. resume' \in [Requests -> Requests \cup {NoId}]
      BY <2>1, Typed, Constants
    <3> QED BY <2>2, <3>1, <3>2, <3>3 DEF TypeOK, Told
  <2>4. Sourced' /\ Attended'
    BY <2>1, <2>2, Typed DEF Sourced, Attended
  <2>5. Kept'
    BY <2>2 DEF Kept
  <2> QED BY <2>3, <2>4, <2>5 DEF IInv
<1>3. CASE ~bound
  <2>1. /\ pc[r] = "idle"
        /\ source' = [source EXCEPT ![r] = s]
        /\ pc' = [pc EXCEPT ![r] = "end"]
        /\ outcome' = [outcome EXCEPT ![r] = "refused"]
    BY <1>3, <1>1 DEF Send, Go, Return
  <2>2. UNCHANGED <<bound, session, resume, proc, id, events, emitted, asked, text,
                   expired, learned>>
    BY <1>3, <1>1 DEF Send, Go, Return, procVars, relayVars, Unchanged
  <2>3. TypeOK'
    <3>1. pc' \in [Requests -> {"idle", "start", "fresh", "send", "read", "drain", "end"}]
      BY <2>1, Typed, Constants
    <3>2. source' \in [Requests -> Sources \cup {NoSource}]
      BY <2>1, Typed, Constants
    <3>3. outcome' \in [Requests -> {"none", "refused", "answer", "partial", "error"}]
      BY <2>1, Typed, Constants
    <3> QED BY <2>2, <3>1, <3>2, <3>3 DEF TypeOK, Told
  <2>4. Sourced' /\ Attended'
    BY <2>1, <2>2, Typed DEF Sourced, Attended
  <2>5. Kept'
    BY <2>2 DEF Kept
  <2> QED BY <2>3, <2>4, <2>5 DEF IInv
<1> QED BY <1>2, <1>3

LEMMA StartInv ==
  ASSUME IInv, NEW r \in Requests, StartSession(r)
  PROVE  IInv'
<1> USE DEF IInv
<1>1. CASE pc[r] \in {"start", "fresh"} /\ \E fresh \in BOOLEAN : Started(r, fresh)
  <2>1. /\ pc[r] \in {"start", "fresh"}
        /\ pc' = [pc EXCEPT ![r] = "send"]
        /\ proc' = [proc EXCEPT ![r] = "up"]
        /\ \E new \in Requests \cup {NoId} :
             id' = [id EXCEPT ![r] = new] /\ Adopt(source[r], new)
    <3>1. resume[r] \in Requests \cup {NoId}
      BY Typed
    <3> QED BY <1>1, <3>1 DEF Started, Go
  <2>2. UNCHANGED <<bound, source, resume, events, emitted, asked, text, expired,
                   outcome>>
    BY <1>1 DEF Started, Go, procVars, relayVars, Unchanged
  <2>3. TypeOK'
    <3>1. pc' \in [Requests -> {"idle", "start", "fresh", "send", "read", "drain", "end"}]
      BY <2>1, Typed, Constants
    <3>2. proc' \in [Requests -> {"none", "up", "exited", "closed"}]
      BY <2>1, Typed, Constants
    <3>3. id' \in [Requests -> Requests \cup {NoId}]
      BY <2>1, Typed, Constants
    <3>4. session' \in [Sources -> Requests \cup {NoId}]
      BY <2>1, AdoptKept, Typed DEF Sourced
    <3>5. learned' \in [Sources -> SUBSET Requests]
      BY <2>1, AdoptKept, Typed DEF Sourced
    <3> QED BY <2>2, <3>1, <3>2, <3>3, <3>4, <3>5 DEF TypeOK, Told
  <2>4. Sourced' /\ Attended'
    BY <2>1, <2>2, Typed DEF Sourced, Attended
  <2>5. Kept'
    BY <2>1, AdoptKept, Typed DEF Sourced
  <2> QED BY <2>3, <2>4, <2>5 DEF IInv
<1>2. CASE pc[r] = "start" /\ StartFails(r)
  <2>1. /\ pc[r] = "start"
        /\ \/ /\ pc' = [pc EXCEPT ![r] = "fresh"] /\ outcome' = outcome
              /\ session' = [session EXCEPT ![source[r]] = NoId]
              /\ learned' = [learned EXCEPT ![source[r]] = {}]
           \/ /\ pc' = [pc EXCEPT ![r] = "end"] /\ outcome' = [outcome EXCEPT ![r] = "error"]
              /\ session' = session /\ learned' = learned
    BY <1>2 DEF StartFails, Go, Return
  <2>2. UNCHANGED <<bound, source, resume, proc, id, events, emitted, asked, text,
                   expired>>
    BY <1>2 DEF StartFails, Go, Return, procVars, relayVars, Unchanged
  <2>3. TypeOK'
    <3>1. pc' \in [Requests -> {"idle", "start", "fresh", "send", "read", "drain", "end"}]
      BY <2>1, Typed, Constants
    <3>2. outcome' \in [Requests -> {"none", "refused", "answer", "partial", "error"}]
      BY <2>1, Typed, Constants
    <3>3. session' \in [Sources -> Requests \cup {NoId}]
      BY <2>1, Typed, Constants
    <3>4. learned' \in [Sources -> SUBSET Requests]
      BY <2>1, Typed, Constants
    <3> QED BY <2>2, <3>1, <3>2, <3>3, <3>4 DEF TypeOK, Told
  <2>4. Sourced' /\ Attended'
    <3>1. \A x \in Requests : pc'[x] # pc[x] => x = r /\ proc[x] # "up"
      BY <2>1, Typed DEF Attended
    <3> QED BY <2>1, <2>2, <3>1 DEF Sourced, Attended
  <2>5. Kept'
    <3>1. source[r] \in Sources
      BY <2>1 DEF Sourced
    <3>2. CASE session' = session /\ learned' = learned
      BY <3>2 DEF Kept
    <3>3. CASE /\ session' = [session EXCEPT ![source[r]] = NoId]
               /\ learned' = [learned EXCEPT ![source[r]] = {}]
      BY <3>1, <3>3, Typed DEF Kept
    <3> QED BY <2>1, <3>2, <3>3
  <2> QED BY <2>3, <2>4, <2>5 DEF IInv
<1>3. CASE pc[r] = "fresh" /\ FreshFails(r)
  <2>1. /\ pc[r] = "fresh"
        /\ pc' = [pc EXCEPT ![r] = "end"]
        /\ outcome' = [outcome EXCEPT ![r] = "error"]
    BY <1>3 DEF FreshFails, Go, Return
  <2>2. UNCHANGED <<bound, session, source, resume, proc, id, events, emitted, asked,
                   text, expired, learned>>
    BY <1>3 DEF FreshFails, Go, Return, procVars, relayVars, Unchanged
  <2>3. TypeOK'
    <3>1. pc' \in [Requests -> {"idle", "start", "fresh", "send", "read", "drain", "end"}]
      BY <2>1, Typed, Constants
    <3>2. outcome' \in [Requests -> {"none", "refused", "answer", "partial", "error"}]
      BY <2>1, Typed, Constants
    <3> QED BY <2>2, <3>1, <3>2 DEF TypeOK, Told
  <2>4. Sourced' /\ Attended'
    BY <2>1, <2>2, Typed DEF Sourced, Attended
  <2>5. Kept'
    BY <2>2 DEF Kept
  <2> QED BY <2>3, <2>4, <2>5 DEF IInv
<1> QED BY <1>1, <1>2, <1>3 DEF StartSession

LEMMA PromptInv ==
  ASSUME IInv, NEW r \in Requests, SendPrompt(r)
  PROVE  IInv'
<1> USE DEF IInv
<1>1. SendPrompt(r)
  OBVIOUS
<1>2. CASE proc[r] = "up" /\ Go(r, "read") /\ UNCHANGED <<proc, asked, events, outcome>>
  <2>1. /\ pc[r] = "send"
        /\ pc' = [pc EXCEPT ![r] = "read"]
    BY <1>2, <1>1 DEF SendPrompt, Go, Return, Close
  <2>2. UNCHANGED <<bound, session, source, resume, proc, id, events, emitted, asked,
                   text, expired, outcome, learned>>
    BY <1>2, <1>1 DEF SendPrompt, Go, Return, Close, procVars, relayVars, Unchanged
  <2>3. TypeOK'
    <3>1. pc' \in [Requests -> {"idle", "start", "fresh", "send", "read", "drain", "end"}]
      BY <2>1, Typed, Constants
    <3> QED BY <2>2, <3>1 DEF TypeOK, Told
  <2>4. Sourced' /\ Attended'
    BY <2>1, <2>2, Typed DEF Sourced, Attended
  <2>5. Kept'
    BY <2>2 DEF Kept
  <2> QED BY <2>3, <2>4, <2>5 DEF IInv
<1>3. CASE Close(r) /\ Go(r, "end") /\ Return(r, "error")
  <2>1. /\ pc[r] = "send"
        /\ pc' = [pc EXCEPT ![r] = "end"]
        /\ outcome' = [outcome EXCEPT ![r] = "error"]
        /\ proc' = [proc EXCEPT ![r] = "closed"]
        /\ asked' = [asked EXCEPT ![r] = FALSE]
        /\ events' = [events EXCEPT ![r] = <<>>]
    BY <1>3, <1>1 DEF SendPrompt, Go, Return, Close
  <2>2. UNCHANGED <<bound, session, source, resume, id, emitted, text, expired,
                   learned>>
    BY <1>3, <1>1 DEF SendPrompt, Go, Return, Close, procVars, relayVars, Unchanged
  <2>3. TypeOK'
    <3>1. pc' \in [Requests -> {"idle", "start", "fresh", "send", "read", "drain", "end"}]
      BY <2>1, Typed, Constants
    <3>2. proc' \in [Requests -> {"none", "up", "exited", "closed"}]
      BY <2>1, Typed, Constants
    <3>3. asked' \in [Requests -> BOOLEAN]
      BY <2>1, Typed, Constants
    <3>4. events' \in [Requests -> Seq(Told)]
      BY <2>1, Typed, Constants, Sequences
    <3>5. outcome' \in [Requests -> {"none", "refused", "answer", "partial", "error"}]
      BY <2>1, Typed, Constants
    <3> QED BY <2>2, <3>1, <3>2, <3>3, <3>4, <3>5 DEF TypeOK, Told
  <2>4. Sourced' /\ Attended'
    BY <2>1, <2>2, Typed DEF Sourced, Attended
  <2>5. Kept'
    BY <2>2 DEF Kept
  <2> QED BY <2>3, <2>4, <2>5 DEF IInv
<1> QED BY <1>1, <1>2, <1>3 DEF SendPrompt

LEMMA ReceiveInv ==
  ASSUME IInv, NEW r \in Requests, Receive(r)
  PROVE  IInv'
<1> USE DEF IInv
<1> DEFINE e == Head(events[r])
           said == text[r] \/ e.kind = "text"
<1>1. /\ pc[r] = "read" /\ events[r] # <<>>
      /\ text' = [text EXCEPT ![r] = said]
      /\ UNCHANGED <<bound, source, resume, id, emitted, expired>>
  BY DEF Receive
<1>2. said \in BOOLEAN /\ e \in Told /\ Tail(events[r]) \in Seq(Told)
  BY <1>1, Typed, Sequences
<1>3. CASE Adopt(source[r], id[r]) /\ Close(r) /\ Go(r, "end") /\ Return(r, "answer")
  <2>1. /\ pc[r] = "read"
        /\ pc' = [pc EXCEPT ![r] = "end"]
        /\ outcome' = [outcome EXCEPT ![r] = "answer"]
        /\ proc' = [proc EXCEPT ![r] = "closed"]
        /\ asked' = [asked EXCEPT ![r] = FALSE]
        /\ events' = [events EXCEPT ![r] = <<>>]
        /\ Adopt(source[r], id[r])
    BY <1>3, <1>1 DEF Go, Return, Close
  <2>2. UNCHANGED <<bound, source, resume, id, emitted, expired>>
    BY <1>3, <1>1 DEF Go, Return, Close, procVars, relayVars, Unchanged
  <2>3. TypeOK'
    <3>1. pc' \in [Requests -> {"idle", "start", "fresh", "send", "read", "drain", "end"}]
      BY <2>1, Typed, Constants
    <3>2. proc' \in [Requests -> {"none", "up", "exited", "closed"}]
      BY <2>1, Typed, Constants
    <3>3. asked' \in [Requests -> BOOLEAN]
      BY <2>1, Typed, Constants
    <3>4. events' \in [Requests -> Seq(Told)]
      BY <2>1, Typed, Constants, Sequences
    <3>5. outcome' \in [Requests -> {"none", "refused", "answer", "partial", "error"}]
      BY <2>1, Typed, Constants
    <3>6. text' \in [Requests -> BOOLEAN]
      BY <1>1, <1>2, Typed
    <3>7. session' \in [Sources -> Requests \cup {NoId}]
      BY <2>1, <1>1, AdoptKept, Typed DEF Sourced
    <3>8. learned' \in [Sources -> SUBSET Requests]
      BY <2>1, <1>1, AdoptKept, Typed DEF Sourced
    <3> QED BY <2>2, <3>1, <3>2, <3>3, <3>4, <3>5, <3>6, <3>7, <3>8 DEF TypeOK, Told
  <2>4. Sourced' /\ Attended'
    BY <2>1, <2>2, Typed DEF Sourced, Attended
  <2>5. Kept'
    BY <2>1, <1>1, AdoptKept, Typed DEF Sourced
  <2> QED BY <2>3, <2>4, <2>5 DEF IInv
<1>4. CASE UNCHANGED <<session, learned>> /\ Close(r) /\ Go(r, "end") /\ Return(r, "error")
  <2>1. /\ pc[r] = "read"
        /\ pc' = [pc EXCEPT ![r] = "end"]
        /\ outcome' = [outcome EXCEPT ![r] = "error"]
        /\ proc' = [proc EXCEPT ![r] = "closed"]
        /\ asked' = [asked EXCEPT ![r] = FALSE]
        /\ events' = [events EXCEPT ![r] = <<>>]
    BY <1>4, <1>1 DEF Go, Return, Close
  <2>2. UNCHANGED <<bound, session, source, resume, id, emitted, expired, learned>>
    BY <1>4, <1>1 DEF Go, Return, Close, procVars, relayVars, Unchanged
  <2>3. TypeOK'
    <3>1. pc' \in [Requests -> {"idle", "start", "fresh", "send", "read", "drain", "end"}]
      BY <2>1, Typed, Constants
    <3>2. proc' \in [Requests -> {"none", "up", "exited", "closed"}]
      BY <2>1, Typed, Constants
    <3>3. asked' \in [Requests -> BOOLEAN]
      BY <2>1, Typed, Constants
    <3>4. events' \in [Requests -> Seq(Told)]
      BY <2>1, Typed, Constants, Sequences
    <3>5. outcome' \in [Requests -> {"none", "refused", "answer", "partial", "error"}]
      BY <2>1, Typed, Constants
    <3>6. text' \in [Requests -> BOOLEAN]
      BY <1>1, <1>2, Typed
    <3> QED BY <2>2, <3>1, <3>2, <3>3, <3>4, <3>5, <3>6 DEF TypeOK, Told
  <2>4. Sourced' /\ Attended'
    BY <2>1, <2>2, Typed DEF Sourced, Attended
  <2>5. Kept'
    BY <2>2 DEF Kept
  <2> QED BY <2>3, <2>4, <2>5 DEF IInv
<1>5. CASE Adopt(source[r], e.id) /\ Consume(r, e)
            /\ (IF expired[r] THEN Go(r, "drain") /\ Late(r, said) ELSE UNCHANGED <<pc, outcome>>)
  <2>1. /\ pc[r] = "read"
        /\ events' = [events EXCEPT ![r] = Tail(events[r])]
        /\ asked' = [asked EXCEPT ![r] = asked[r] /\ e.kind # "permission"]
        /\ \/ pc' = pc /\ outcome' = outcome
           \/ /\ pc' = [pc EXCEPT ![r] = "drain"]
              /\ \E result \in {"partial", "error"} : outcome' = [outcome EXCEPT ![r] = result]
        /\ Adopt(source[r], e.id)
        /\ e.id \in Requests \cup {NoId}
    BY <1>5, <1>1, <1>2 DEF Go, Return, Consume, Late, Told
  <2>2. UNCHANGED <<bound, source, resume, proc, id, emitted, expired>>
    BY <1>5, <1>1 DEF Go, Return, Consume, Late, Told, procVars, relayVars, Unchanged
  <2>3. TypeOK'
    <3>1. pc' \in [Requests -> {"idle", "start", "fresh", "send", "read", "drain", "end"}]
      BY <2>1, Typed, Constants
    <3>2. asked' \in [Requests -> BOOLEAN]
      BY <2>1, Typed
    <3>3. events' \in [Requests -> Seq(Told)]
      BY <2>1, <1>2, Typed
    <3>4. outcome' \in [Requests -> {"none", "refused", "answer", "partial", "error"}]
      BY <2>1, Typed, Constants
    <3>5. text' \in [Requests -> BOOLEAN]
      BY <1>1, <1>2, Typed
    <3>6. session' \in [Sources -> Requests \cup {NoId}]
      BY <2>1, <1>1, AdoptKept, Typed DEF Sourced
    <3>7. learned' \in [Sources -> SUBSET Requests]
      BY <2>1, <1>1, AdoptKept, Typed DEF Sourced
    <3> QED BY <2>2, <3>1, <3>2, <3>3, <3>4, <3>5, <3>6, <3>7 DEF TypeOK, Told
  <2>4. Sourced' /\ Attended'
    BY <2>1, <2>2, Typed, ZenonT(60) DEF Sourced, Attended
  <2>5. Kept'
    BY <2>1, <1>1, AdoptKept, Typed DEF Sourced
  <2> QED BY <2>3, <2>4, <2>5 DEF IInv
<1>6. CASE UNCHANGED <<session, learned>> /\ Consume(r, e)
            /\ (IF expired[r] THEN Go(r, "drain") /\ Late(r, said) ELSE UNCHANGED <<pc, outcome>>)
  <2>1. /\ pc[r] = "read"
        /\ events' = [events EXCEPT ![r] = Tail(events[r])]
        /\ asked' = [asked EXCEPT ![r] = asked[r] /\ e.kind # "permission"]
        /\ \/ pc' = pc /\ outcome' = outcome
           \/ /\ pc' = [pc EXCEPT ![r] = "drain"]
              /\ \E result \in {"partial", "error"} : outcome' = [outcome EXCEPT ![r] = result]
    BY <1>6, <1>1 DEF Go, Return, Consume, Late
  <2>2. UNCHANGED <<bound, session, source, resume, proc, id, emitted, expired,
                   learned>>
    BY <1>6, <1>1 DEF Go, Return, Consume, Late, procVars, relayVars, Unchanged
  <2>3. TypeOK'
    <3>1. pc' \in [Requests -> {"idle", "start", "fresh", "send", "read", "drain", "end"}]
      BY <2>1, Typed, Constants
    <3>2. asked' \in [Requests -> BOOLEAN]
      BY <2>1, Typed
    <3>3. events' \in [Requests -> Seq(Told)]
      BY <2>1, <1>2, Typed
    <3>4. outcome' \in [Requests -> {"none", "refused", "answer", "partial", "error"}]
      BY <2>1, Typed, Constants
    <3>5. text' \in [Requests -> BOOLEAN]
      BY <1>1, <1>2, Typed
    <3> QED BY <2>2, <3>1, <3>2, <3>3, <3>4, <3>5 DEF TypeOK, Told
  <2>4. Sourced' /\ Attended'
    BY <2>1, <2>2, Typed DEF Sourced, Attended
  <2>5. Kept'
    BY <2>2 DEF Kept
  <2> QED BY <2>3, <2>4, <2>5 DEF IInv
<1> QED BY <1>3, <1>4, <1>5, <1>6 DEF Receive

LEMMA CloseInv ==
  ASSUME IInv, NEW r \in Requests, ChannelClosed(r) \/ DrainEnds(r)
  PROVE  IInv'
<1> USE DEF IInv
<1>1. CASE ChannelClosed(r)
  <2>1. /\ pc[r] = "read"
        /\ pc' = [pc EXCEPT ![r] = "end"]
        /\ \E result \in {"partial", "answer", "error"} : outcome' = [outcome EXCEPT ![r] = result]
        /\ proc' = [proc EXCEPT ![r] = "closed"]
        /\ asked' = [asked EXCEPT ![r] = FALSE]
        /\ events' = [events EXCEPT ![r] = <<>>]
    BY <1>1 DEF ChannelClosed, Go, Return, Close, Late
  <2>2. UNCHANGED <<bound, session, source, resume, id, emitted, text, expired,
                   learned>>
    BY <1>1 DEF ChannelClosed, Go, Return, Close, Late, procVars, relayVars, Unchanged
  <2>3. TypeOK'
    <3>1. pc' \in [Requests -> {"idle", "start", "fresh", "send", "read", "drain", "end"}]
      BY <2>1, Typed, Constants
    <3>2. proc' \in [Requests -> {"none", "up", "exited", "closed"}]
      BY <2>1, Typed, Constants
    <3>3. asked' \in [Requests -> BOOLEAN]
      BY <2>1, Typed, Constants
    <3>4. events' \in [Requests -> Seq(Told)]
      BY <2>1, Typed, Constants, Sequences
    <3>5. outcome' \in [Requests -> {"none", "refused", "answer", "partial", "error"}]
      BY <2>1, Typed, Constants
    <3> QED BY <2>2, <3>1, <3>2, <3>3, <3>4, <3>5 DEF TypeOK, Told
  <2>4. Sourced' /\ Attended'
    BY <2>1, <2>2, Typed DEF Sourced, Attended
  <2>5. Kept'
    BY <2>2 DEF Kept
  <2> QED BY <2>3, <2>4, <2>5 DEF IInv
<1>2. CASE DrainEnds(r)
  <2>1. /\ pc[r] = "drain"
        /\ pc' = [pc EXCEPT ![r] = "end"]
        /\ proc' = [proc EXCEPT ![r] = "closed"]
        /\ asked' = [asked EXCEPT ![r] = FALSE]
        /\ events' = [events EXCEPT ![r] = <<>>]
    BY <1>2 DEF DrainEnds, Go, Close
  <2>2. UNCHANGED <<bound, session, source, resume, id, emitted, text, expired,
                   outcome, learned>>
    BY <1>2 DEF DrainEnds, Go, Close, procVars, relayVars, Unchanged
  <2>3. TypeOK'
    <3>1. pc' \in [Requests -> {"idle", "start", "fresh", "send", "read", "drain", "end"}]
      BY <2>1, Typed, Constants
    <3>2. proc' \in [Requests -> {"none", "up", "exited", "closed"}]
      BY <2>1, Typed, Constants
    <3>3. asked' \in [Requests -> BOOLEAN]
      BY <2>1, Typed, Constants
    <3>4. events' \in [Requests -> Seq(Told)]
      BY <2>1, Typed, Constants, Sequences
    <3> QED BY <2>2, <3>1, <3>2, <3>3, <3>4 DEF TypeOK, Told
  <2>4. Sourced' /\ Attended'
    BY <2>1, <2>2, Typed DEF Sourced, Attended
  <2>5. Kept'
    BY <2>2 DEF Kept
  <2> QED BY <2>3, <2>4, <2>5 DEF IInv
<1> QED BY <1>1, <1>2

LEMMA DrainInv ==
  ASSUME IInv, NEW r \in Requests, Drain(r)
  PROVE  IInv'
<1> USE DEF IInv
<1> DEFINE e == Head(events[r])
<1>1. /\ pc[r] = "drain" /\ events[r] # <<>>
      /\ session' = IF e.id # NoId THEN [session EXCEPT ![source[r]] = e.id] ELSE session
      /\ learned' = IF e.id # NoId
                      THEN [learned EXCEPT ![source[r]] = learned[source[r]] \cup {e.id}]
                      ELSE learned
      /\ UNCHANGED <<bound, source, resume, text, outcome, id, emitted, expired>>
  BY DEF Drain
<1>2. /\ e \in Told /\ e.id \in Requests \cup {NoId} /\ Tail(events[r]) \in Seq(Told)
      /\ source[r] \in Sources
  BY <1>1, Typed, Sequences DEF Told, Sourced
<1>3. /\ session' \in [Sources -> Requests \cup {NoId}]
      /\ learned' \in [Sources -> SUBSET Requests]
  BY <1>1, <1>2, Typed
<1>4. Kept'
  BY <1>1, <1>2, Typed DEF Kept
<1>5. CASE Close(r) /\ Go(r, "end")
  <2>1. /\ pc[r] = "drain"
        /\ pc' = [pc EXCEPT ![r] = "end"]
        /\ proc' = [proc EXCEPT ![r] = "closed"]
        /\ asked' = [asked EXCEPT ![r] = FALSE]
        /\ events' = [events EXCEPT ![r] = <<>>]
    BY <1>5, <1>1 DEF Close, Go
  <2>2. UNCHANGED <<bound, source, resume, id, emitted, text, expired, outcome>>
    BY <1>5, <1>1 DEF Close, Go, procVars, relayVars, Unchanged
  <2>3. TypeOK'
    <3>1. pc' \in [Requests -> {"idle", "start", "fresh", "send", "read", "drain", "end"}]
      BY <2>1, Typed, Constants
    <3>2. proc' \in [Requests -> {"none", "up", "exited", "closed"}]
      BY <2>1, Typed, Constants
    <3>3. asked' \in [Requests -> BOOLEAN]
      BY <2>1, Typed, Constants
    <3>4. events' \in [Requests -> Seq(Told)]
      BY <2>1, Typed, Constants, Sequences
    <3>5. session' \in [Sources -> Requests \cup {NoId}]
      BY <1>3
    <3>6. learned' \in [Sources -> SUBSET Requests]
      BY <1>3
    <3> QED BY <2>2, <3>1, <3>2, <3>3, <3>4, <3>5, <3>6 DEF TypeOK, Told
  <2>4. Sourced' /\ Attended'
    BY <2>1, <2>2, Typed DEF Sourced, Attended
  <2>5. Kept'
    BY <1>4
  <2> QED BY <2>3, <2>4, <2>5 DEF IInv
<1>6. CASE Consume(r, e) /\ UNCHANGED pc
  <2>1. /\ events' = [events EXCEPT ![r] = Tail(events[r])]
        /\ asked' = [asked EXCEPT ![r] = asked[r] /\ e.kind # "permission"]
    BY <1>6, <1>1 DEF Consume
  <2>2. UNCHANGED <<bound, pc, source, resume, proc, id, emitted, text, expired,
                   outcome>>
    BY <1>6, <1>1 DEF Consume, procVars, relayVars, Unchanged
  <2>3. TypeOK'
    <3>1. asked' \in [Requests -> BOOLEAN]
      BY <2>1, Typed
    <3>2. events' \in [Requests -> Seq(Told)]
      BY <2>1, <1>2, Typed
    <3>3. session' \in [Sources -> Requests \cup {NoId}]
      BY <1>3
    <3>4. learned' \in [Sources -> SUBSET Requests]
      BY <1>3
    <3> QED BY <2>2, <3>1, <3>2, <3>3, <3>4 DEF TypeOK, Told
  <2>4. Sourced' /\ Attended'
    BY <2>1, <2>2, Typed DEF Sourced, Attended
  <2>5. Kept'
    BY <1>4
  <2> QED BY <2>3, <2>4, <2>5 DEF IInv
<1> QED BY <1>5, <1>6 DEF Drain

LEMMA ProcessInv ==
  ASSUME IInv, NEW r \in Requests, Emit(r) \/ Exit(r) \/ Expire(r)
  PROVE  IInv'
<1> USE DEF IInv
<1>1. CASE Emit(r)
  <2>1. /\ proc[r] = "up" /\ pc[r] \in {"read", "drain"}
        /\ id' = [id EXCEPT ![r] = IF id[r] = NoId THEN r ELSE id[r]]
        /\ \E k \in Kinds : /\ events' = [events EXCEPT ![r] = Append(events[r], [kind |-> k, id |-> id'[r]])]
                          /\ asked' = [asked EXCEPT ![r] = k = "permission"]
        /\ emitted[r] < MaxEvents
        /\ \/ emitted' = [emitted EXCEPT ![r] = MaxEvents]
           \/ emitted' = [emitted EXCEPT ![r] = emitted[r] + 1]
    BY <1>1 DEF Emit
  <2>2. UNCHANGED <<bound, session, pc, source, resume, proc, text, expired, outcome,
                   learned>>
    BY <1>1 DEF Emit, procVars, relayVars, Unchanged
  <2>3. \A k \in Kinds :
          [events EXCEPT ![r] = Append(events[r], [kind |-> k, id |-> id'[r]])]
            \in [Requests -> Seq(Told)]
    <3>1. id'[r] \in Requests
      BY <2>1, Typed
    <3>2. \A k \in Kinds : [kind |-> k, id |-> id'[r]] \in Told
      BY <3>1 DEF Told
    <3>3. events[r] \in Seq(Told)
      BY Typed
    <3> QED BY <3>2, <3>3, Sequences, Typed
  <2>4. TypeOK'
    <3>1. id' \in [Requests -> Requests \cup {NoId}]
      BY <2>1, Typed, Constants
    <3>2. events' \in [Requests -> Seq(Told)]
      BY <2>1, <2>3
    <3>3. asked' \in [Requests -> BOOLEAN]
      BY <2>1, Typed, Constants
    <3>4. emitted' \in [Requests -> 0 .. MaxEvents]
      BY <2>1, Typed, Constants
    <3> QED BY <2>2, <3>1, <3>2, <3>3, <3>4 DEF TypeOK, Told
  <2>5. Sourced' /\ Attended'
    BY <2>1, <2>2, Typed DEF Sourced, Attended
  <2>6. Kept'
    BY <2>2 DEF Kept
  <2> QED BY <2>4, <2>5, <2>6 DEF IInv
<1>2. CASE Exit(r)
  <2>1. /\ proc[r] = "up"
        /\ proc' = [proc EXCEPT ![r] = "exited"]
    BY <1>2 DEF Exit
  <2>2. UNCHANGED <<bound, session, pc, source, resume, id, events, emitted, asked,
                   text, expired, outcome, learned>>
    BY <1>2 DEF Exit, procVars, relayVars, Unchanged
  <2>3. TypeOK'
    <3>1. proc' \in [Requests -> {"none", "up", "exited", "closed"}]
      BY <2>1, Typed, Constants
    <3> QED BY <2>2, <3>1 DEF TypeOK, Told
  <2>4. Sourced' /\ Attended'
    BY <2>1, <2>2, Typed DEF Sourced, Attended
  <2>5. Kept'
    BY <2>2 DEF Kept
  <2> QED BY <2>3, <2>4, <2>5 DEF IInv
<1>3. CASE Expire(r)
  <2>1. /\ expired' = [expired EXCEPT ![r] = TRUE]
    BY <1>3 DEF Expire
  <2>2. UNCHANGED <<bound, session, pc, source, resume, proc, id, events, emitted,
                   asked, text, outcome, learned>>
    BY <1>3 DEF Expire, procVars, relayVars, Unchanged
  <2>3. TypeOK'
    <3>1. expired' \in [Requests -> BOOLEAN]
      BY <2>1, Typed, Constants
    <3> QED BY <2>2, <3>1 DEF TypeOK, Told
  <2>4. Sourced' /\ Attended'
    BY <2>1, <2>2, Typed DEF Sourced, Attended
  <2>5. Kept'
    BY <2>2 DEF Kept
  <2> QED BY <2>3, <2>4, <2>5 DEF IInv
<1> QED BY <1>1, <1>2, <1>3

LEMMA NextInv == IInv /\ [Next]_vars => IInv'
<1> SUFFICES ASSUME IInv, [Next]_vars PROVE IInv'
  OBVIOUS
<1>1. CASE AddToBind \/ RemoveFromBind
  BY <1>1, BindInv
<1>2. ASSUME NEW r \in Requests, NEW s \in Sources, Send(r, s) PROVE IInv'
  BY <1>2, SendInv
<1>3. ASSUME NEW r \in Requests, RelayStep(r) PROVE IInv'
  BY <1>3, StartInv, PromptInv, ReceiveInv, CloseInv, DrainInv DEF RelayStep
<1>4. ASSUME NEW r \in Requests, Emit(r) \/ Exit(r) \/ Expire(r) PROVE IInv'
  BY <1>4, ProcessInv
<1>5. CASE UNCHANGED vars
  BY <1>5 DEF vars, procVars, relayVars, IInv, TypeOK, Sourced, Attended, Kept
<1> QED BY <1>1, <1>2, <1>3, <1>4, <1>5 DEF Next

\* Every reachable state is well formed.
THEOREM RelayTypeCorrect == Spec => []TypeOK
<1>1. IInv => TypeOK
  BY DEF IInv
<1> QED BY InitInv, NextInv, <1>1, PTL DEF Spec

\* A process that is up is in the hands of its relay, or of the goroutine that
\* lets it finish.
THEOREM RelayAttended == Spec => []Attended
<1>1. IInv => Attended
  BY DEF IInv
<1> QED BY InitInv, NextInv, <1>1, PTL DEF Spec

\* A source whose relays are over can resume, if it has learned an id since a
\* resume failed.
THEOREM RelayResumable == Spec => []Resumable
<1>1. IInv => Resumable
  BY Typed DEF IInv, Kept, Resumable
<1> QED BY InitInv, NextInv, <1>1, PTL DEF Spec

=============================================================================
