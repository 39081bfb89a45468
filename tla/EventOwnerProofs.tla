--------------------------- MODULE EventOwnerProofs ---------------------------
(***************************************************************************)
(* Who reads the events channel, for any number of messages and readers.   *)
(*                                                                         *)
(* SoleConsumer is inductive with what the stop of a reader relies on: at  *)
(* most one goroutine is between its TryLock and the end of its turn or of *)
(* the start of its reader; a reader that runs is the registered one, or   *)
(* the one that goroutine is waiting for; and from the moment it has taken *)
(* the registration until it registers its own nobody else registers one.  *)
(*                                                                         *)
(* AnswerOwn needs less and holds after every fault: one goroutine has the *)
(* busy flag, and what the agent owes or has said is what the prompt of    *)
(* that goroutine asks.  Listening needs, besides the owner of the channel,*)
(* that a reader is started once and cancelled only by who takes its       *)
(* registration.                                                           *)
(***************************************************************************)
EXTENDS EventOwner, SequenceTheorems, TLAPS

\* The hypotheses of SoleConsumer.
Clean == lapses \cap {"taken early", "timeout"} = {} /\ pc[Halt] = "idle"

\* The goroutines between TryLock and the end of the turn or of the start of a
\* reader; those of them that have the busy flag; those that have taken the
\* registration; those that wait for a reader; and the readers that run.
Act ==
  {m \in Msgs :
     pc[m] \in Owning \cup {"orphan", "stop", "stopping", "alive", "register"}}
Hold ==
  {m \in Act : /\ pc[m] \notin {"alive", "register"}
               /\ pc[m] \in {"stop", "stopping"} => then[m] # "register"}
Own == {m \in Msgs : pc[m] \in Owning \cup {"stopping", "register"}}
Waits == {m \in Msgs : pc[m] = "stopping"}
Live == {r \in Msgs : Running(r)}

\* Where a goroutine that stops a reader goes on.
Called ==
  /\ \A p \in Procs : pc[p] \in {"stop", "stopping"} => then[p] # "none"
  /\ \A m \in Msgs : then[m] # "mark"
  /\ pc[Halt] \in {"stop", "stopping"} => then[Halt] = "mark"

Exclusive == \A m, x \in Act : m = x
Flagged == Hold # {} => busy
Known == \A r \in Live : r = reg \/ \E m \in Waits : await[m] = r
Free == Own # {} => reg = NoMsg

Owner == Exclusive /\ Flagged /\ Known /\ Free

IInv == TypeOK /\ Called /\ (Clean => Owner)

LEMMA ConstantFacts ==
  /\ NoMsg \notin Msgs /\ Halt \notin Msgs /\ Procs = Msgs \cup {Halt}
  /\ MaxStrays \in Nat
BY EventOwnerAssumption DEF Procs

LEMMA Sequences ==
  /\ <<>> \in Seq(Msgs) /\ <<>> \in Seq(Events)
  /\ \A q \in Seq(Msgs), x \in Msgs : Append(q, x) \in Seq(Msgs)
  /\ \A q \in Seq(Events), x \in Events : Append(q, x) \in Seq(Events)
  /\ \A q \in Seq(Msgs) : q # <<>> => Head(q) \in Msgs /\ Tail(q) \in Seq(Msgs)
  /\ \A q \in Seq(Events) : q # <<>> => Head(q) \in Events /\ Tail(q) \in Seq(Events)
OBVIOUS

LEMMA SequencesTyped ==
  TypeOK => /\ queue \in Seq(Msgs) /\ prompts \in Seq(Msgs) /\ events \in Seq(Events)
            /\ cur \in [Msgs -> Msgs]
            /\ {told, held} \subseteq [Msgs -> Events \cup {NoEvent}]
BY DEF TypeOK

LEMMA PcTyped ==
  ASSUME TypeOK
  PROVE  \A p \in Procs, l \in Labels : [pc EXCEPT ![p] = l] \in [Procs -> Labels]
BY DEF TypeOK

LEMMA InitInv == Init => IInv
<1> SUFFICES ASSUME Init PROVE IInv
  OBVIOUS
<1>1. TypeOK
  <2>1. {busy, resync, stopped, closed} \subseteq BOOLEAN
    BY DEF Init
  <2>2. pc \in [Procs -> Labels] /\ reg = NoMsg /\ cancelled = {} /\ lapses = {} /\ strays = 0
    BY DEF Init, Labels
  <2>3. /\ cur \in [Msgs -> Msgs]
        /\ then \in [Procs -> {"none", "resync", "drain", "flush", "register", "mark"}]
        /\ await \in [Procs -> Msgs \cup {NoMsg}]
        /\ reader \in [Msgs -> {"none", "wait", "got", "relay", "done"}]
        /\ held \in [Msgs -> Events \cup {NoEvent}] /\ told \in [Msgs -> Events \cup {NoEvent}]
    BY DEF Init
  <2>4. queue \in Seq(Msgs) /\ prompts \in Seq(Msgs) /\ events \in Seq(Events)
    BY Sequences DEF Init
  <2> QED BY <2>1, <2>2, <2>3, <2>4, ConstantFacts DEF TypeOK
<1>2. Called /\ Owner
  BY ConstantFacts
     DEF Init, Called, Owner, Exclusive, Flagged, Known, Free, Act, Hold, Own, Waits,
         Live, Owning, Running
<1> QED BY <1>1, <1>2 DEF IInv

-----------------------------------------------------------------------------
(* A step of one goroutine, or of one reader *)

LEMMA OwnerStep ==
  ASSUME Owner, NEW m \in Msgs,
         \A x \in Msgs \ {m} : pc'[x] = pc[x] /\ then'[x] = then[x] /\ await'[x] = await[x],
         m \in Act' => m \in Act \/ Act = {},
         m \in Hold' => busy',
         busy' = busy \/ busy' = TRUE \/ m \in Act,
         m \in Own' => reg' = NoMsg,
         reg' = reg \/ reg' = NoMsg \/ m \in Act,
         \A y \in Live' : \/ y = reg' \/ (m \in Waits' /\ await'[m] = y)
                          \/ m \notin Waits /\ y # reg /\ y \in Live
  PROVE  Owner'
<1>1. /\ Act' \subseteq Act \cup {m} /\ Hold' \subseteq Hold \cup {m}
      /\ Own' \subseteq Own \cup {m} /\ Waits' \ {m} = Waits \ {m}
  BY DEF Act, Hold, Own, Waits
<1>2. Hold \cup Own \cup Waits \subseteq Act
  BY DEF Act, Hold, Own, Waits
<1>3. Exclusive'
  BY <1>1 DEF Owner, Exclusive
<1>4. Flagged'
  BY <1>1, <1>2 DEF Owner, Exclusive, Flagged
<1>5. Known'
  <2> SUFFICES ASSUME NEW y \in Live', y # reg'
               PROVE  \E x \in Waits' : await'[x] = y
    BY DEF Known
  <2>1. CASE m \in Waits' /\ await'[m] = y
    BY <2>1
  <2>2. CASE m \notin Waits /\ y # reg /\ y \in Live
    <3>1. PICK x \in Waits : await[x] = y
      BY <2>2 DEF Owner, Known
    <3> QED BY <1>1, <2>2, <3>1 DEF Waits
  <2> QED BY <2>1, <2>2
<1>6. Free'
  BY <1>1, <1>2 DEF Owner, Exclusive, Free
<1> QED BY <1>3, <1>4, <1>5, <1>6 DEF Owner

LEMMA ReaderStep ==
  ASSUME Owner, UNCHANGED <<busy, pc, then, await, reg>>, Live' \subseteq Live
  PROVE  Owner'
BY DEF Owner, Exclusive, Flagged, Known, Free, Act, Hold, Own, Waits

\* A step of a turn, from its first one to the end of the last drain.
LEMMA TurnStep ==
  ASSUME IInv, Clean', lapses \subseteq lapses', NEW m \in Msgs, pc[m] \in Owning,
         UNCHANGED <<reg, then, await, reader>>,
         \E l \in Owning \cup {"done", "alive"} :
           /\ pc' = [pc EXCEPT ![m] = l]
           /\ busy' = busy \/ (busy' = FALSE /\ l \notin Owning)
  PROVE  Owner'
<1>1. PICK l \in Owning \cup {"done", "alive"} :
        /\ pc' = [pc EXCEPT ![m] = l]
        /\ busy' = busy \/ (busy' = FALSE /\ l \notin Owning)
  OBVIOUS
<1>2. /\ pc'[m] = l /\ \A x \in Msgs \ {m} : pc'[x] = pc[x]
      /\ pc'[Halt] = pc[Halt]
  BY <1>1, ConstantFacts DEF IInv, TypeOK
<1>3. Clean /\ Owner
  BY <1>2 DEF Clean, IInv
<1>4. m \in Act /\ m \in Hold /\ m \in Own /\ m \notin Waits
  BY DEF Act, Hold, Own, Waits, Owning
<1>5. busy /\ reg = NoMsg
  BY <1>3, <1>4 DEF Owner, Flagged, Free
<1>6. m \in Hold' => busy'
  BY <1>1, <1>2, <1>5 DEF Act, Hold, Owning
<1>7. Live' = Live
  BY DEF Live, Running
<1>8. \A y \in Live' : \/ y = reg' \/ (m \in Waits' /\ await'[m] = y)
                       \/ m \notin Waits /\ y # reg /\ y \in Live
  BY <1>4, <1>7
<1> QED BY <1>2, <1>3, <1>4, <1>5, <1>6, <1>8, OwnerStep

-----------------------------------------------------------------------------
(* One lemma per group of actions *)

LEMMA MessageInv ==
  ASSUME IInv, NEW m \in Msgs, HandleMessage(m)
  PROVE  IInv'
<1> USE DEF IInv
<1>1. CASE Arrive(m)
  <2>1. /\ pc[m] = "idle" /\ ~busy /\ busy' = TRUE
        /\ pc' = [pc EXCEPT ![m] = "stop"]
        /\ then' = [then EXCEPT ![m] = IF m \in CompressCmds THEN "flush" ELSE "resync"]
        /\ lapses' = lapses \cup (IF \E x \in Msgs : Starting(x) THEN {"taken early"} ELSE {})
    BY <1>1 DEF Arrive, Lock, CallStop, Goto, TypeOK, Called
  <2>2. UNCHANGED <<queue, cur, told, resync, stopped, reg, await, cancelled,
                     reader, held, events, closed, prompts, strays>>
    BY <1>1
       DEF Arrive, Lock, CallStop, Goto, turnVars, stateVars, stopVars, readerVars,
           agentVars
  <2>3. TypeOK'
    <3>1. busy' \in BOOLEAN
      BY <2>1, ConstantFacts DEF TypeOK
    <3>2. pc' \in [Procs -> Labels]
      <4>1. \E l \in Labels : pc' = [pc EXCEPT ![m] = l]
        BY <2>1 DEF Labels, Owning
      <4> QED BY <4>1, PcTyped, ConstantFacts
    <3>3. then' \in [Procs -> {"none", "resync", "drain", "flush", "register", "mark"}]
      BY <2>1, ConstantFacts DEF TypeOK
    <3>4. lapses' \subseteq {"taken early", "timeout", "compress"}
      BY <2>1, ConstantFacts DEF TypeOK
    <3> QED BY <2>2, <3>1, <3>2, <3>3, <3>4 DEF TypeOK
  <2>4. Called'
    BY <2>1, <2>2, ConstantFacts DEF TypeOK, Called
  <2>5. ASSUME Clean' PROVE Owner'
    <3>1. Clean /\ Owner
      BY <2>1, <2>2, <2>5, ConstantFacts DEF TypeOK, Clean
    <3>2. /\ \A x \in Msgs \ {m} : pc'[x] = pc[x] /\ then'[x] = then[x] /\ await'[x] = await[x]
          /\ m \in Msgs
      BY <2>1, <2>2, <3>1, ConstantFacts DEF TypeOK
    <3>3. m \in Act' => m \in Act \/ Act = {}
      BY <2>1, <2>2, <3>1, <3>2, ConstantFacts, <2>5, ZenonT(60)
         DEF TypeOK, Called, Owner, Flagged, Act, Hold, Owning, Clean, Starting
    <3>4. m \in Hold' => busy'
      BY <2>1, <2>2, <3>1, <3>2, ConstantFacts
         DEF TypeOK, Called, Owner, Flagged, Act, Hold, Owning
    <3>5. busy' = busy \/ busy' = TRUE \/ m \in Act
      BY <2>1, <2>2, <3>1, <3>2, ConstantFacts DEF TypeOK, Called, Act, Owning
    <3>6. m \in Own' => reg' = NoMsg
      BY <2>1, <2>2, <3>1, <3>2, ConstantFacts
         DEF TypeOK, Called, Owner, Free, Own, Owning
    <3>7. reg' = reg \/ reg' = NoMsg \/ m \in Act
      BY <2>1, <2>2, <3>1, <3>2, ConstantFacts DEF TypeOK, Called, Act, Owning
    <3>8. Live' = Live /\ reg' = reg /\ m \notin Waits
      BY <2>1, <2>2, <3>1, <3>2, ConstantFacts
         DEF TypeOK, Called, Live, Running, Waits, Owning
    <3>9. \A y \in Live' : \/ y = reg' \/ (m \in Waits' /\ await'[m] = y)
                           \/ m \notin Waits /\ y # reg /\ y \in Live
      BY <3>8
    <3> QED BY <3>1, <3>2, <3>3, <3>4, <3>5, <3>6, <3>7, <3>8, <3>9, OwnerStep
  <2> QED BY <2>3, <2>4, <2>5 DEF IInv
<1>2. CASE ArriveBusy(m)
  <2>1. /\ pc[m] = "idle"
        /\ pc' = [pc EXCEPT ![m] = "done"] \/ pc' = [pc EXCEPT ![m] = "retry"]
        /\ queue' = queue \/ queue' = Append(queue, m)
    BY <1>2 DEF ArriveBusy, Goto, TypeOK, Called
  <2>2. UNCHANGED <<busy, cur, told, resync, stopped, reg, then, await, cancelled,
                     reader, held, events, closed, prompts, strays, lapses>>
    BY <1>2 DEF ArriveBusy, Goto, turnVars, stateVars, stopVars, readerVars, agentVars
  <2>3. TypeOK'
    <3>1. pc' \in [Procs -> Labels]
      <4>1. \E l \in Labels : pc' = [pc EXCEPT ![m] = l]
        BY <2>1 DEF Labels, Owning
      <4> QED BY <4>1, PcTyped, ConstantFacts
    <3>2. queue' \in Seq(Msgs)
      BY <2>1, Sequences, SequencesTyped, ZenonT(60)
    <3> QED BY <2>2, <3>1, <3>2 DEF TypeOK
  <2>4. Called'
    BY <2>1, <2>2, ConstantFacts DEF TypeOK, Called
  <2>5. ASSUME Clean' PROVE Owner'
    <3>1. Clean /\ Owner
      BY <2>1, <2>2, <2>5, ConstantFacts DEF TypeOK, Clean
    <3>2. /\ \A x \in Msgs \ {m} : pc'[x] = pc[x] /\ then'[x] = then[x] /\ await'[x] = await[x]
          /\ m \in Msgs
      BY <2>1, <2>2, <3>1, ConstantFacts DEF TypeOK
    <3>3. m \in Act' => m \in Act \/ Act = {}
      BY <2>1, <2>2, <3>1, <3>2, ConstantFacts, <2>5, ZenonT(60)
         DEF TypeOK, Called, Owner, Flagged, Act, Hold, Owning, Clean, Starting
    <3>4. m \in Hold' => busy'
      BY <2>1, <2>2, <3>1, <3>2, ConstantFacts, ZenonT(60)
         DEF TypeOK, Called, Owner, Flagged, Act, Hold, Owning
    <3>5. busy' = busy \/ busy' = TRUE \/ m \in Act
      BY <2>1, <2>2, <3>1, <3>2, ConstantFacts DEF TypeOK, Called, Act, Owning
    <3>6. m \in Own' => reg' = NoMsg
      BY <2>1, <2>2, <3>1, <3>2, ConstantFacts, ZenonT(60)
         DEF TypeOK, Called, Owner, Free, Own, Owning
    <3>7. reg' = reg \/ reg' = NoMsg \/ m \in Act
      BY <2>1, <2>2, <3>1, <3>2, ConstantFacts DEF TypeOK, Called, Act, Owning
    <3>8. Live' = Live /\ reg' = reg /\ m \notin Waits
      BY <2>1, <2>2, <3>1, <3>2, ConstantFacts
         DEF TypeOK, Called, Live, Running, Waits, Owning
    <3>9. \A y \in Live' : \/ y = reg' \/ (m \in Waits' /\ await'[m] = y)
                           \/ m \notin Waits /\ y # reg /\ y \in Live
      BY <3>8
    <3> QED BY <3>1, <3>2, <3>3, <3>4, <3>5, <3>6, <3>7, <3>8, <3>9, OwnerStep
  <2> QED BY <2>3, <2>4, <2>5 DEF IInv
<1>3. CASE Retry(m)
  <2>1. /\ pc[m] = "retry"
        /\ \/ /\ ~busy /\ busy' = TRUE /\ pc' = [pc EXCEPT ![m] = "orphan"]
              /\ lapses' = lapses \cup
                   (IF \E x \in Msgs : Starting(x) THEN {"taken early"} ELSE {})
           \/ busy /\ busy' = TRUE /\ pc' = [pc EXCEPT ![m] = "done"] /\ lapses' = lapses
    BY <1>3 DEF Retry, Lock, Goto, TypeOK, Called
  <2>2. UNCHANGED <<queue, cur, told, resync, stopped, reg, then, await, cancelled,
                     reader, held, events, closed, prompts, strays>>
    BY <1>3 DEF Retry, Lock, Goto, turnVars, stateVars, stopVars, readerVars, agentVars
  <2>3. TypeOK'
    <3>1. pc' \in [Procs -> Labels]
      <4>1. \E l \in Labels : pc' = [pc EXCEPT ![m] = l]
        BY <2>1 DEF Labels, Owning
      <4> QED BY <4>1, PcTyped, ConstantFacts
    <3>2. busy' \in BOOLEAN
      BY <2>1, ConstantFacts DEF TypeOK
    <3>3. lapses' \subseteq {"taken early", "timeout", "compress"}
      BY <2>1, ConstantFacts DEF TypeOK
    <3> QED BY <2>2, <3>1, <3>2, <3>3 DEF TypeOK
  <2>4. Called'
    BY <2>1, <2>2, ConstantFacts DEF TypeOK, Called
  <2>5. ASSUME Clean' PROVE Owner'
    <3>1. Clean /\ Owner
      BY <2>1, <2>2, <2>5, ConstantFacts DEF TypeOK, Clean
    <3>2. /\ \A x \in Msgs \ {m} : pc'[x] = pc[x] /\ then'[x] = then[x] /\ await'[x] = await[x]
          /\ m \in Msgs
      BY <2>1, <2>2, <3>1, ConstantFacts DEF TypeOK
    <3>3. m \in Act' => m \in Act \/ Act = {}
      BY <2>1, <2>2, <3>1, <3>2, ConstantFacts, <2>5, ZenonT(60)
         DEF TypeOK, Called, Owner, Flagged, Act, Hold, Owning, Clean, Starting
    <3>4. m \in Hold' => busy'
      BY <2>1, <2>2, <3>1, <3>2, ConstantFacts
         DEF TypeOK, Called, Owner, Flagged, Act, Hold, Owning
    <3>5. busy' = busy \/ busy' = TRUE \/ m \in Act
      BY <2>1, <2>2, <3>1, <3>2, ConstantFacts DEF TypeOK, Called, Act, Owning
    <3>6. m \in Own' => reg' = NoMsg
      BY <2>1, <2>2, <3>1, <3>2, ConstantFacts, ZenonT(60)
         DEF TypeOK, Called, Owner, Free, Own, Owning
    <3>7. reg' = reg \/ reg' = NoMsg \/ m \in Act
      BY <2>1, <2>2, <3>1, <3>2, ConstantFacts DEF TypeOK, Called, Act, Owning
    <3>8. Live' = Live /\ reg' = reg /\ m \notin Waits
      BY <2>1, <2>2, <3>1, <3>2, ConstantFacts
         DEF TypeOK, Called, Live, Running, Waits, Owning
    <3>9. \A y \in Live' : \/ y = reg' \/ (m \in Waits' /\ await'[m] = y)
                           \/ m \notin Waits /\ y # reg /\ y \in Live
      BY <3>8
    <3> QED BY <3>1, <3>2, <3>3, <3>4, <3>5, <3>6, <3>7, <3>8, <3>9, OwnerStep
  <2> QED BY <2>3, <2>4, <2>5 DEF IInv
<1>4. CASE Orphan(m)
  <2>1. /\ pc[m] = "orphan"
        /\ \/ /\ pc' = [pc EXCEPT ![m] = "done"] /\ then' = then /\ busy' = FALSE
              /\ queue' \in {queue, <<>>}
           \/ /\ pc' = [pc EXCEPT ![m] = "stop"] /\ then' = [then EXCEPT ![m] = "drain"]
              /\ busy' = busy /\ queue' = queue
    BY <1>4 DEF Orphan, Goto, CallStop, TypeOK, Called
  <2>2. UNCHANGED <<cur, told, resync, stopped, reg, await, cancelled, reader, held,
                     events, closed, prompts, strays, lapses>>
    BY <1>4
       DEF Orphan, Goto, CallStop, turnVars, stateVars, stopVars, readerVars,
           agentVars
  <2>3. TypeOK'
    <3>1. pc' \in [Procs -> Labels]
      <4>1. \E l \in Labels : pc' = [pc EXCEPT ![m] = l]
        BY <2>1 DEF Labels, Owning
      <4> QED BY <4>1, PcTyped, ConstantFacts
    <3>2. busy' \in BOOLEAN
      BY <2>1, ConstantFacts DEF TypeOK
    <3>3. queue' \in Seq(Msgs)
      BY <2>1, Sequences, SequencesTyped
    <3>4. then' \in [Procs -> {"none", "resync", "drain", "flush", "register", "mark"}]
      BY <2>1, ConstantFacts DEF TypeOK
    <3> QED BY <2>2, <3>1, <3>2, <3>3, <3>4 DEF TypeOK
  <2>4. Called'
    <3>1. m \in Procs /\ Msgs \subseteq Procs
      BY ConstantFacts
    <3>2. CASE pc' = [pc EXCEPT ![m] = "done"] /\ then' = then
      BY <2>1, <3>1, <3>2, ConstantFacts DEF TypeOK, Called
    <3>3. CASE pc' = [pc EXCEPT ![m] = "stop"] /\ then' = [then EXCEPT ![m] = "drain"]
      BY <2>1, <3>1, <3>3, ConstantFacts DEF TypeOK, Called
    <3> QED BY <2>1, <3>2, <3>3
  <2>5. ASSUME Clean' PROVE Owner'
    <3>1. Clean /\ Owner
      BY <2>1, <2>2, <2>5, ConstantFacts DEF TypeOK, Clean
    <3>2. /\ \A x \in Msgs \ {m} : pc'[x] = pc[x] /\ then'[x] = then[x] /\ await'[x] = await[x]
          /\ m \in Msgs
      BY <2>1, <2>2, <3>1, ConstantFacts DEF TypeOK
    <3>3. m \in Act' => m \in Act \/ Act = {}
      BY <2>1, <2>2, <3>1, <3>2, ConstantFacts, <2>5
         DEF TypeOK, Called, Owner, Flagged, Act, Hold, Owning, Clean, Starting
    <3>4. m \in Hold' => busy'
      BY <2>1, <2>2, <3>1, <3>2, ConstantFacts
         DEF TypeOK, Called, Owner, Flagged, Act, Hold, Owning
    <3>5. busy' = busy \/ busy' = TRUE \/ m \in Act
      BY <2>1, <2>2, <3>1, <3>2, ConstantFacts DEF TypeOK, Called, Act, Owning
    <3>6. m \in Own' => reg' = NoMsg
      BY <2>1, <2>2, <3>1, <3>2, ConstantFacts, ZenonT(60)
         DEF TypeOK, Called, Owner, Free, Own, Owning
    <3>7. reg' = reg \/ reg' = NoMsg \/ m \in Act
      BY <2>1, <2>2, <3>1, <3>2, ConstantFacts DEF TypeOK, Called, Act, Owning
    <3>8. Live' = Live /\ reg' = reg /\ m \notin Waits
      BY <2>1, <2>2, <3>1, <3>2, ConstantFacts
         DEF TypeOK, Called, Live, Running, Waits, Owning
    <3>9. \A y \in Live' : \/ y = reg' \/ (m \in Waits' /\ await'[m] = y)
                           \/ m \notin Waits /\ y # reg /\ y \in Live
      BY <3>8
    <3> QED BY <3>1, <3>2, <3>3, <3>4, <3>5, <3>6, <3>7, <3>8, <3>9, OwnerStep
  <2> QED BY <2>3, <2>4, <2>5 DEF IInv
<1> QED BY <1>1, <1>2, <1>3, <1>4 DEF HandleMessage

LEMMA StopInv ==
  ASSUME IInv, NEW p \in Procs, Stop(p)
  PROVE  IInv'
<1> USE DEF IInv
<1>1. CASE StopReader(p)
  <2>1. /\ then[p] \in Labels /\ pc[p] = "stop" /\ reg' = NoMsg
        /\ await' = [await EXCEPT ![p] = reg]
        /\ cancelled' \subseteq Msgs
        /\ \/ /\ reg = NoMsg
              /\ pc' = [pc EXCEPT ![p] = then[p]] /\ then' = [then EXCEPT ![p] = "none"]
           \/ /\ reg # NoMsg
              /\ pc' = [pc EXCEPT ![p] = "stopping"] /\ then' = then
    BY <1>1 DEF StopReader, Return, Goto, Labels, TypeOK, Called
  <2>2. UNCHANGED <<busy, queue, cur, told, resync, stopped, reader, held, events,
                     closed, prompts, strays, lapses>>
    BY <1>1
       DEF StopReader, Return, Goto, Labels, turnVars, stateVars, stopVars,
           readerVars, agentVars
  <2>3. TypeOK'
    <3>1. pc' \in [Procs -> Labels]
      <4>1. \E l \in Labels : pc' = [pc EXCEPT ![p] = l]
        BY <2>1 DEF Labels, Owning
      <4> QED BY <4>1, PcTyped, ConstantFacts
    <3>2. then' \in [Procs -> {"none", "resync", "drain", "flush", "register", "mark"}]
      BY <2>1, ConstantFacts DEF TypeOK
    <3>3. await' \in [Procs -> Msgs \cup {NoMsg}]
      BY <2>1, ConstantFacts DEF TypeOK
    <3>4. reg' \in Msgs \cup {NoMsg}
      BY <2>1, ConstantFacts DEF TypeOK
    <3>5. cancelled' \subseteq Msgs
      BY <2>1, ConstantFacts DEF TypeOK
    <3> QED BY <2>2, <3>1, <3>2, <3>3, <3>4, <3>5 DEF TypeOK
  <2>4. Called'
    <3>1. p \in Procs /\ Msgs \subseteq Procs
      BY ConstantFacts
    <3>2. CASE pc' = [pc EXCEPT ![p] = then[p]] /\ then' = [then EXCEPT ![p] = "none"]
      BY <2>1, <3>1, <3>2, ConstantFacts DEF TypeOK, Called
    <3>3. CASE pc' = [pc EXCEPT ![p] = "stopping"] /\ then' = then
      BY <2>1, <3>1, <3>3, ConstantFacts DEF TypeOK, Called
    <3> QED BY <2>1, <3>2, <3>3
  <2>5. ASSUME Clean' PROVE Owner'
    <3>1. Clean /\ Owner /\ p # Halt
      BY <2>1, <2>2, <2>5, ConstantFacts DEF TypeOK, Clean
    <3>2. /\ \A x \in Msgs \ {p} : pc'[x] = pc[x] /\ then'[x] = then[x] /\ await'[x] = await[x]
          /\ p \in Msgs
      BY <2>1, <2>2, <3>1, ConstantFacts DEF TypeOK
    <3>3. p \in Act' => p \in Act \/ Act = {}
      BY <2>1, <2>2, <3>1, <3>2, ConstantFacts, <2>5
         DEF TypeOK, Called, Owner, Flagged, Act, Hold, Owning, Clean, Starting
    <3>4. p \in Hold' => busy'
      BY <2>1, <2>2, <3>1, <3>2, ConstantFacts, ZenonT(60)
         DEF TypeOK, Called, Owner, Flagged, Act, Hold, Owning
    <3>5. busy' = busy \/ busy' = TRUE \/ p \in Act
      BY <2>1, <2>2, <3>1, <3>2, ConstantFacts DEF TypeOK, Called, Act, Owning
    <3>6. p \in Own' => reg' = NoMsg
      BY <2>1, <2>2, <3>1, <3>2, ConstantFacts
         DEF TypeOK, Called, Owner, Free, Own, Owning
    <3>7. reg' = reg \/ reg' = NoMsg \/ p \in Act
      BY <2>1, <2>2, <3>1, <3>2, ConstantFacts DEF TypeOK, Called, Act, Owning
    <3>8. Live' = Live /\ p \notin Waits
      BY <2>1, <2>2, <3>1, <3>2, ConstantFacts DEF TypeOK, Called, Live, Running, Waits
    <3>9. reg = NoMsg \/ (p \in Waits' /\ await'[p] = reg)
      BY <2>1, <2>2, <3>1, <3>2, ConstantFacts DEF TypeOK, Called, Waits
    <3>10. \A y \in Live : y # NoMsg
      BY <2>1, <2>2, <3>1, <3>2, ConstantFacts DEF TypeOK, Called, Live
    <3>11. \A y \in Live' : \/ y = reg' \/ (p \in Waits' /\ await'[p] = y)
                            \/ p \notin Waits /\ y # reg /\ y \in Live
      BY <2>1, <3>8, <3>9, <3>10
    <3> QED BY <3>1, <3>2, <3>3, <3>4, <3>5, <3>6, <3>7, <3>8, <3>9, <3>10, <3>11, OwnerStep
  <2> QED BY <2>3, <2>4, <2>5 DEF IInv
<1>2. CASE ReaderStopped(p)
  <2>1. /\ then[p] \in Labels /\ pc[p] = "stopping" /\ ~Running(await[p])
        /\ await' = [await EXCEPT ![p] = NoMsg]
        /\ pc' = [pc EXCEPT ![p] = then[p]]
        /\ then' = [then EXCEPT ![p] = "none"]
    BY <1>2 DEF ReaderStopped, Return, Goto, Labels, TypeOK, Called
  <2>2. UNCHANGED <<busy, queue, cur, told, resync, stopped, reg, cancelled, reader,
                     held, events, closed, prompts, strays, lapses>>
    BY <1>2
       DEF ReaderStopped, Return, Goto, Labels, turnVars, stateVars, stopVars,
           readerVars, agentVars
  <2>3. TypeOK'
    <3>1. pc' \in [Procs -> Labels]
      <4>1. \E l \in Labels : pc' = [pc EXCEPT ![p] = l]
        BY <2>1 DEF Labels, Owning
      <4> QED BY <4>1, PcTyped, ConstantFacts
    <3>2. then' \in [Procs -> {"none", "resync", "drain", "flush", "register", "mark"}]
      BY <2>1, ConstantFacts DEF TypeOK
    <3>3. await' \in [Procs -> Msgs \cup {NoMsg}]
      BY <2>1, ConstantFacts DEF TypeOK
    <3> QED BY <2>2, <3>1, <3>2, <3>3 DEF TypeOK
  <2>4. Called'
    BY <2>1, <2>2, ConstantFacts DEF TypeOK, Called
  <2>5. ASSUME Clean' PROVE Owner'
    <3>1. Clean /\ Owner /\ p # Halt
      BY <2>1, <2>2, <2>5, ConstantFacts DEF TypeOK, Clean
    <3>2. /\ \A x \in Msgs \ {p} : pc'[x] = pc[x] /\ then'[x] = then[x] /\ await'[x] = await[x]
          /\ p \in Msgs
      BY <2>1, <2>2, <3>1, ConstantFacts DEF TypeOK
    <3>3. p \in Act' => p \in Act \/ Act = {}
      BY <2>1, <2>2, <3>1, <3>2, ConstantFacts, <2>5
         DEF TypeOK, Called, Owner, Flagged, Act, Hold, Owning, Clean, Starting
    <3>4. p \in Hold' => busy'
      BY <2>1, <2>2, <3>1, <3>2, ConstantFacts
         DEF TypeOK, Called, Owner, Flagged, Act, Hold, Owning
    <3>5. busy' = busy \/ busy' = TRUE \/ p \in Act
      BY <2>1, <2>2, <3>1, <3>2, ConstantFacts DEF TypeOK, Called, Act, Owning
    <3>6. p \in Own' => reg' = NoMsg
      BY <2>1, <2>2, <3>1, <3>2, ConstantFacts
         DEF TypeOK, Called, Owner, Free, Own, Owning
    <3>7. reg' = reg \/ reg' = NoMsg \/ p \in Act
      BY <2>1, <2>2, <3>1, <3>2, ConstantFacts DEF TypeOK, Called, Act, Owning
    <3>8. Live' = Live /\ reg' = reg
      BY <2>1, <2>2, <3>1, <3>2, ConstantFacts DEF TypeOK, Called, Live, Running
    <3>9. p \in Waits /\ p \in Act /\ reg = NoMsg
      BY <2>1, <2>2, <3>1, <3>2, ConstantFacts
         DEF TypeOK, Called, Owner, Free, Own, Waits, Act
    <3>10. Live = {}
      <4> SUFFICES ASSUME NEW y \in Live PROVE FALSE
        OBVIOUS
      <4>1. y # reg
        BY <3>9, ConstantFacts DEF Live
      <4>2. PICK x \in Waits : await[x] = y
        BY <3>1, <4>1 DEF Owner, Known
      <4>3. x = p
        BY <3>1, <3>9, <4>2 DEF Owner, Exclusive, Waits, Act
      <4> QED BY <2>1, <4>2, <4>3 DEF Live
    <3>11. \A y \in Live' : \/ y = reg' \/ (p \in Waits' /\ await'[p] = y)
                            \/ p \notin Waits /\ y # reg /\ y \in Live
      BY <2>1, <3>8, <3>9, <3>10
    <3> QED BY <3>1, <3>2, <3>3, <3>4, <3>5, <3>6, <3>7, <3>8, <3>9, <3>10, <3>11, OwnerStep
  <2> QED BY <2>3, <2>4, <2>5 DEF IInv
<1>3. CASE StopTimeout(p)
  <2>1. /\ then[p] \in Labels /\ pc[p] = "stopping" /\ resync' = TRUE
        /\ await' = [await EXCEPT ![p] = NoMsg]
        /\ pc' = [pc EXCEPT ![p] = then[p]]
        /\ then' = [then EXCEPT ![p] = "none"]
        /\ lapses' = lapses \cup {"timeout"}
    BY <1>3 DEF StopTimeout, Return, Goto, Labels, TypeOK, Called
  <2>2. UNCHANGED <<busy, queue, cur, told, stopped, reg, cancelled, reader, held,
                     events, closed, prompts, strays>>
    BY <1>3
       DEF StopTimeout, Return, Goto, Labels, turnVars, stateVars, stopVars,
           readerVars, agentVars
  <2>3. TypeOK'
    <3>1. pc' \in [Procs -> Labels]
      <4>1. \E l \in Labels : pc' = [pc EXCEPT ![p] = l]
        BY <2>1 DEF Labels, Owning
      <4> QED BY <4>1, PcTyped, ConstantFacts
    <3>2. then' \in [Procs -> {"none", "resync", "drain", "flush", "register", "mark"}]
      BY <2>1, ConstantFacts DEF TypeOK
    <3>3. await' \in [Procs -> Msgs \cup {NoMsg}]
      BY <2>1, ConstantFacts DEF TypeOK
    <3>4. resync' \in BOOLEAN
      BY <2>1, ConstantFacts DEF TypeOK
    <3>5. lapses' \subseteq {"taken early", "timeout", "compress"}
      BY <2>1, ConstantFacts DEF TypeOK
    <3> QED BY <2>2, <3>1, <3>2, <3>3, <3>4, <3>5 DEF TypeOK
  <2>4. Called'
    BY <2>1, <2>2, ConstantFacts DEF TypeOK, Called
  <2>5. ~Clean'
    BY <2>1, <2>2, ConstantFacts DEF TypeOK, Called, Clean
  <2> QED BY <2>3, <2>4, <2>5 DEF IInv
<1> QED BY <1>1, <1>2, <1>3 DEF Stop

LEMMA TurnInv ==
  ASSUME IInv, NEW m \in Msgs, Turn(m)
  PROVE  IInv'
<1> USE DEF IInv
<1>1. CASE ReadResync(m)
  <2>1. /\ pc[m] = "resync"
        /\ pc' = [pc EXCEPT ![m] = "flush"] \/ pc' = [pc EXCEPT ![m] = "send"]
    BY <1>1 DEF ReadResync, Goto, TypeOK, Called
  <2>2. UNCHANGED <<busy, queue, cur, told, resync, stopped, reg, then, await,
                     cancelled, reader, held, events, closed, prompts, strays, lapses>>
    BY <1>1 DEF ReadResync, Goto, turnVars, stateVars, stopVars, readerVars, agentVars
  <2>3. TypeOK'
    <3>1. pc' \in [Procs -> Labels]
      <4>1. \E l \in Labels : pc' = [pc EXCEPT ![m] = l]
        BY <2>1 DEF Labels, Owning
      <4> QED BY <4>1, PcTyped, ConstantFacts
    <3> QED BY <2>2, <3>1 DEF TypeOK
  <2>4. Called'
    BY <2>1, <2>2, ConstantFacts DEF TypeOK, Called
  <2>5. ASSUME Clean' PROVE Owner'
    <3>1. \E l \in Owning \cup {"done", "alive"} :
           /\ pc' = [pc EXCEPT ![m] = l]
           /\ busy' = busy \/ (busy' = FALSE /\ l \notin Owning)
      BY <2>1, <2>2 DEF Owning
    <3>2. pc[m] \in Owning /\ lapses \subseteq lapses'
      BY <2>1, <2>2 DEF Owning
    <3> QED BY <2>2, <2>5, <3>1, <3>2, TurnStep
  <2> QED BY <2>3, <2>4, <2>5 DEF IInv
<1>2. CASE Flush(m)
  <2>1. /\ pc[m] = "flush"
        /\ pc' = [pc EXCEPT ![m] = "send"]
        /\ events' = <<>>
    BY <1>2 DEF Flush, Goto, TypeOK, Called
  <2>2. UNCHANGED <<busy, queue, cur, told, resync, stopped, reg, then, await,
                     cancelled, reader, held, closed, prompts, strays, lapses>>
    BY <1>2 DEF Flush, Goto, turnVars, stateVars, stopVars, readerVars, agentVars
  <2>3. TypeOK'
    <3>1. pc' \in [Procs -> Labels]
      <4>1. \E l \in Labels : pc' = [pc EXCEPT ![m] = l]
        BY <2>1 DEF Labels, Owning
      <4> QED BY <4>1, PcTyped, ConstantFacts
    <3>2. events' \in Seq(Events)
      BY <2>1, Sequences, SequencesTyped
    <3> QED BY <2>2, <3>1, <3>2 DEF TypeOK
  <2>4. Called'
    BY <2>1, <2>2, ConstantFacts DEF TypeOK, Called
  <2>5. ASSUME Clean' PROVE Owner'
    <3>1. \E l \in Owning \cup {"done", "alive"} :
           /\ pc' = [pc EXCEPT ![m] = l]
           /\ busy' = busy \/ (busy' = FALSE /\ l \notin Owning)
      BY <2>1, <2>2 DEF Owning
    <3>2. pc[m] \in Owning /\ lapses \subseteq lapses'
      BY <2>1, <2>2 DEF Owning
    <3> QED BY <2>2, <2>5, <3>1, <3>2, TurnStep
  <2> QED BY <2>3, <2>4, <2>5 DEF IInv
<1>3. CASE Send(m)
  <2>1. /\ pc[m] = "send"
        /\ pc' = [pc EXCEPT ![m] = "loop"]
        /\ prompts' = Append(prompts, cur[m])
    BY <1>3 DEF Send, Goto, TypeOK, Called
  <2>2. UNCHANGED <<busy, queue, cur, told, resync, stopped, reg, then, await,
                     cancelled, reader, held, events, closed, strays, lapses>>
    BY <1>3 DEF Send, Goto, turnVars, stateVars, stopVars, readerVars, agentVars
  <2>3. TypeOK'
    <3>1. pc' \in [Procs -> Labels]
      <4>1. \E l \in Labels : pc' = [pc EXCEPT ![m] = l]
        BY <2>1 DEF Labels, Owning
      <4> QED BY <4>1, PcTyped, ConstantFacts
    <3>2. prompts' \in Seq(Msgs)
      BY <2>1, Sequences, SequencesTyped
    <3> QED BY <2>2, <3>1, <3>2 DEF TypeOK
  <2>4. Called'
    BY <2>1, <2>2, ConstantFacts DEF TypeOK, Called
  <2>5. ASSUME Clean' PROVE Owner'
    <3>1. \E l \in Owning \cup {"done", "alive"} :
           /\ pc' = [pc EXCEPT ![m] = l]
           /\ busy' = busy \/ (busy' = FALSE /\ l \notin Owning)
      BY <2>1, <2>2 DEF Owning
    <3>2. pc[m] \in Owning /\ lapses \subseteq lapses'
      BY <2>1, <2>2 DEF Owning
    <3> QED BY <2>2, <2>5, <3>1, <3>2, TurnStep
  <2> QED BY <2>3, <2>4, <2>5 DEF IInv
<1>4. CASE LoopResult(m)
  <2>1. /\ pc[m] = "loop"
        /\ pc' = [pc EXCEPT ![m] = "drain"] \/ pc' = [pc EXCEPT ![m] = "replied"]
        /\ events # <<>> /\ events' = Tail(events)
        /\ told' = [told EXCEPT ![cur[m]] = Head(events)]
        /\ resync' \in BOOLEAN
    BY <1>4 DEF LoopResult, Receive, Mark, Goto, TypeOK, Called
  <2>2. UNCHANGED <<busy, queue, cur, stopped, reg, then, await, cancelled, reader,
                     held, closed, prompts, strays, lapses>>
    BY <1>4
       DEF LoopResult, Receive, Mark, Goto, turnVars, stateVars, stopVars,
           readerVars, agentVars
  <2>3. TypeOK'
    <3>1. pc' \in [Procs -> Labels]
      <4>1. \E l \in Labels : pc' = [pc EXCEPT ![m] = l]
        BY <2>1 DEF Labels, Owning
      <4> QED BY <4>1, PcTyped, ConstantFacts
    <3>2. events' \in Seq(Events)
      BY <2>1, Sequences, SequencesTyped
    <3>3. told' \in [Msgs -> Events \cup {NoEvent}]
      BY <2>1, Sequences, SequencesTyped
    <3>4. resync' \in BOOLEAN
      BY <2>1, ConstantFacts DEF TypeOK
    <3> QED BY <2>2, <3>1, <3>2, <3>3, <3>4 DEF TypeOK
  <2>4. Called'
    BY <2>1, <2>2, ConstantFacts DEF TypeOK, Called
  <2>5. ASSUME Clean' PROVE Owner'
    <3>1. \E l \in Owning \cup {"done", "alive"} :
           /\ pc' = [pc EXCEPT ![m] = l]
           /\ busy' = busy \/ (busy' = FALSE /\ l \notin Owning)
      BY <2>1, <2>2 DEF Owning
    <3>2. pc[m] \in Owning /\ lapses \subseteq lapses'
      BY <2>1, <2>2 DEF Owning
    <3> QED BY <2>2, <2>5, <3>1, <3>2, TurnStep
  <2> QED BY <2>3, <2>4, <2>5 DEF IInv
<1>5. CASE LoopError(m)
  <2>1. /\ pc[m] = "loop"
        /\ pc' = [pc EXCEPT ![m] = "drain"]
        /\ events # <<>> /\ events' = Tail(events)
        /\ told' = [told EXCEPT ![cur[m]] = Head(events)]
        /\ resync' \in BOOLEAN
    BY <1>5 DEF LoopError, Receive, Mark, Goto, TypeOK, Called
  <2>2. UNCHANGED <<busy, queue, cur, stopped, reg, then, await, cancelled, reader,
                     held, closed, prompts, strays, lapses>>
    BY <1>5
       DEF LoopError, Receive, Mark, Goto, turnVars, stateVars, stopVars,
           readerVars, agentVars
  <2>3. TypeOK'
    <3>1. pc' \in [Procs -> Labels]
      <4>1. \E l \in Labels : pc' = [pc EXCEPT ![m] = l]
        BY <2>1 DEF Labels, Owning
      <4> QED BY <4>1, PcTyped, ConstantFacts
    <3>2. events' \in Seq(Events)
      BY <2>1, Sequences, SequencesTyped
    <3>3. told' \in [Msgs -> Events \cup {NoEvent}]
      BY <2>1, Sequences, SequencesTyped
    <3>4. resync' \in BOOLEAN
      BY <2>1, ConstantFacts DEF TypeOK
    <3> QED BY <2>2, <3>1, <3>2, <3>3, <3>4 DEF TypeOK
  <2>4. Called'
    BY <2>1, <2>2, ConstantFacts DEF TypeOK, Called
  <2>5. ASSUME Clean' PROVE Owner'
    <3>1. \E l \in Owning \cup {"done", "alive"} :
           /\ pc' = [pc EXCEPT ![m] = l]
           /\ busy' = busy \/ (busy' = FALSE /\ l \notin Owning)
      BY <2>1, <2>2 DEF Owning
    <3>2. pc[m] \in Owning /\ lapses \subseteq lapses'
      BY <2>1, <2>2 DEF Owning
    <3> QED BY <2>2, <2>5, <3>1, <3>2, TurnStep
  <2> QED BY <2>3, <2>4, <2>5 DEF IInv
<1>6. CASE LoopStopped(m)
  <2>1. /\ pc[m] = "loop"
        /\ events' = events \/ (events # <<>> /\ events' = Tail(events))
        /\ resync' \in BOOLEAN
        /\ \/ pc' = [pc EXCEPT ![m] = "done"] /\ busy' = FALSE
           \/ pc' = [pc EXCEPT ![m] = "drain"] /\ busy' = busy
    BY <1>6 DEF LoopStopped, LeaveEarly, Receive, Mark, Goto, TypeOK, Called
  <2>2. UNCHANGED <<queue, cur, told, stopped, reg, then, await, cancelled, reader,
                     held, closed, prompts, strays, lapses>>
    BY <1>6
       DEF LoopStopped, LeaveEarly, Receive, Mark, Goto, turnVars, stateVars,
           stopVars, readerVars, agentVars
  <2>3. TypeOK'
    <3>1. pc' \in [Procs -> Labels]
      <4>1. \E l \in Labels : pc' = [pc EXCEPT ![m] = l]
        BY <2>1 DEF Labels, Owning
      <4> QED BY <4>1, PcTyped, ConstantFacts
    <3>2. events' \in Seq(Events)
      BY <2>1, Sequences, SequencesTyped
    <3>3. resync' \in BOOLEAN
      BY <2>1, ConstantFacts DEF TypeOK
    <3>4. busy' \in BOOLEAN
      BY <2>1, ConstantFacts DEF TypeOK
    <3> QED BY <2>2, <3>1, <3>2, <3>3, <3>4 DEF TypeOK
  <2>4. Called'
    BY <2>1, <2>2, ConstantFacts DEF TypeOK, Called
  <2>5. ASSUME Clean' PROVE Owner'
    <3>1. \E l \in Owning \cup {"done", "alive"} :
           /\ pc' = [pc EXCEPT ![m] = l]
           /\ busy' = busy \/ (busy' = FALSE /\ l \notin Owning)
      BY <2>1, <2>2 DEF Owning
    <3>2. pc[m] \in Owning /\ lapses \subseteq lapses'
      BY <2>1, <2>2 DEF Owning
    <3> QED BY <2>2, <2>5, <3>1, <3>2, TurnStep
  <2> QED BY <2>3, <2>4, <2>5 DEF IInv
<1>7. CASE LoopClosed(m)
  <2>1. /\ pc[m] = "loop"
        /\ queue' = <<>> /\ resync' \in BOOLEAN
        /\ \/ pc' = [pc EXCEPT ![m] = "done"] /\ busy' = FALSE
           \/ pc' = [pc EXCEPT ![m] = "drain"] /\ busy' = busy
    BY <1>7 DEF LoopClosed, LeaveEarly, Mark, Goto, TypeOK, Called
  <2>2. UNCHANGED <<cur, told, stopped, reg, then, await, cancelled, reader, held,
                     events, closed, prompts, strays, lapses>>
    BY <1>7
       DEF LoopClosed, LeaveEarly, Mark, Goto, turnVars, stateVars, stopVars,
           readerVars, agentVars
  <2>3. TypeOK'
    <3>1. pc' \in [Procs -> Labels]
      <4>1. \E l \in Labels : pc' = [pc EXCEPT ![m] = l]
        BY <2>1 DEF Labels, Owning
      <4> QED BY <4>1, PcTyped, ConstantFacts
    <3>2. resync' \in BOOLEAN
      BY <2>1, ConstantFacts DEF TypeOK
    <3>3. busy' \in BOOLEAN
      BY <2>1, ConstantFacts DEF TypeOK
    <3>4. queue' \in Seq(Msgs)
      BY <2>1, Sequences, SequencesTyped
    <3> QED BY <2>2, <3>1, <3>2, <3>3, <3>4 DEF TypeOK
  <2>4. Called'
    BY <2>1, <2>2, ConstantFacts DEF TypeOK, Called
  <2>5. ASSUME Clean' PROVE Owner'
    <3>1. \E l \in Owning \cup {"done", "alive"} :
           /\ pc' = [pc EXCEPT ![m] = l]
           /\ busy' = busy \/ (busy' = FALSE /\ l \notin Owning)
      BY <2>1, <2>2 DEF Owning
    <3>2. pc[m] \in Owning /\ lapses \subseteq lapses'
      BY <2>1, <2>2 DEF Owning
    <3> QED BY <2>2, <2>5, <3>1, <3>2, TurnStep
  <2> QED BY <2>3, <2>4, <2>5 DEF IInv
<1>8. CASE TakeQueued(m)
  <2>1. /\ pc[m] \in {"replied", "drain"} /\ queue # <<>>
        /\ pc' = [pc EXCEPT ![m] = "flush"]
        /\ cur' = [cur EXCEPT ![m] = Head(queue)] /\ queue' = Tail(queue)
    BY <1>8 DEF TakeQueued, Goto, TypeOK, Called
  <2>2. UNCHANGED <<busy, told, resync, stopped, reg, then, await, cancelled,
                     reader, held, events, closed, prompts, strays, lapses>>
    BY <1>8 DEF TakeQueued, Goto, turnVars, stateVars, stopVars, readerVars, agentVars
  <2>3. TypeOK'
    <3>1. pc' \in [Procs -> Labels]
      <4>1. \E l \in Labels : pc' = [pc EXCEPT ![m] = l]
        BY <2>1 DEF Labels, Owning
      <4> QED BY <4>1, PcTyped, ConstantFacts
    <3>2. cur' \in [Msgs -> Msgs]
      BY <2>1, Sequences, SequencesTyped
    <3>3. queue' \in Seq(Msgs)
      BY <2>1, Sequences, SequencesTyped
    <3> QED BY <2>2, <3>1, <3>2, <3>3 DEF TypeOK
  <2>4. Called'
    BY <2>1, <2>2, ConstantFacts DEF TypeOK, Called
  <2>5. ASSUME Clean' PROVE Owner'
    <3>1. \E l \in Owning \cup {"done", "alive"} :
           /\ pc' = [pc EXCEPT ![m] = l]
           /\ busy' = busy \/ (busy' = FALSE /\ l \notin Owning)
      BY <2>1, <2>2 DEF Owning
    <3>2. pc[m] \in Owning /\ lapses \subseteq lapses'
      BY <2>1, <2>2 DEF Owning
    <3> QED BY <2>2, <2>5, <3>1, <3>2, TurnStep
  <2> QED BY <2>3, <2>4, <2>5 DEF IInv
<1>9. CASE DropQueued(m)
  <2>1. /\ pc[m] = "drain"
        /\ queue' = <<>> /\ busy' = FALSE
        /\ pc' = [pc EXCEPT ![m] = "done"]
    BY <1>9 DEF DropQueued, Goto, TypeOK, Called
  <2>2. UNCHANGED <<cur, told, resync, stopped, reg, then, await, cancelled, reader,
                     held, events, closed, prompts, strays, lapses>>
    BY <1>9 DEF DropQueued, Goto, turnVars, stateVars, stopVars, readerVars, agentVars
  <2>3. TypeOK'
    <3>1. pc' \in [Procs -> Labels]
      <4>1. \E l \in Labels : pc' = [pc EXCEPT ![m] = l]
        BY <2>1 DEF Labels, Owning
      <4> QED BY <4>1, PcTyped, ConstantFacts
    <3>2. queue' \in Seq(Msgs)
      BY <2>1, Sequences, SequencesTyped
    <3>3. busy' \in BOOLEAN
      BY <2>1, ConstantFacts DEF TypeOK
    <3> QED BY <2>2, <3>1, <3>2, <3>3 DEF TypeOK
  <2>4. Called'
    BY <2>1, <2>2, ConstantFacts DEF TypeOK, Called
  <2>5. ASSUME Clean' PROVE Owner'
    <3>1. \E l \in Owning \cup {"done", "alive"} :
           /\ pc' = [pc EXCEPT ![m] = l]
           /\ busy' = busy \/ (busy' = FALSE /\ l \notin Owning)
      BY <2>1, <2>2 DEF Owning
    <3>2. pc[m] \in Owning /\ lapses \subseteq lapses'
      BY <2>1, <2>2 DEF Owning
    <3> QED BY <2>2, <2>5, <3>1, <3>2, TurnStep
  <2> QED BY <2>3, <2>4, <2>5 DEF IInv
<1>10. CASE LeaveLoop(m)
  <2>1. /\ pc[m] = "replied"
        /\ pc' = [pc EXCEPT ![m] = "drain"]
    BY <1>10 DEF LeaveLoop, Goto, TypeOK, Called
  <2>2. UNCHANGED <<busy, queue, cur, told, resync, stopped, reg, then, await,
                     cancelled, reader, held, events, closed, prompts, strays, lapses>>
    BY <1>10 DEF LeaveLoop, Goto, turnVars, stateVars, stopVars, readerVars, agentVars
  <2>3. TypeOK'
    <3>1. pc' \in [Procs -> Labels]
      <4>1. \E l \in Labels : pc' = [pc EXCEPT ![m] = l]
        BY <2>1 DEF Labels, Owning
      <4> QED BY <4>1, PcTyped, ConstantFacts
    <3> QED BY <2>2, <3>1 DEF TypeOK
  <2>4. Called'
    BY <2>1, <2>2, ConstantFacts DEF TypeOK, Called
  <2>5. ASSUME Clean' PROVE Owner'
    <3>1. \E l \in Owning \cup {"done", "alive"} :
           /\ pc' = [pc EXCEPT ![m] = l]
           /\ busy' = busy \/ (busy' = FALSE /\ l \notin Owning)
      BY <2>1, <2>2 DEF Owning
    <3>2. pc[m] \in Owning /\ lapses \subseteq lapses'
      BY <2>1, <2>2 DEF Owning
    <3> QED BY <2>2, <2>5, <3>1, <3>2, TurnStep
  <2> QED BY <2>3, <2>4, <2>5 DEF IInv
<1>11. CASE Unlock(m)
  <2>1. /\ pc[m] = "drain"
        /\ busy' = FALSE
        /\ pc' = [pc EXCEPT ![m] = "done"] \/ pc' = [pc EXCEPT ![m] = "alive"]
        /\ lapses' \in {lapses, lapses \cup {"compress"}}
    BY <1>11 DEF Unlock, Goto, TypeOK, Called
  <2>2. UNCHANGED <<queue, cur, told, resync, stopped, reg, then, await, cancelled,
                     reader, held, events, closed, prompts, strays>>
    BY <1>11 DEF Unlock, Goto, turnVars, stateVars, stopVars, readerVars, agentVars
  <2>3. TypeOK'
    <3>1. pc' \in [Procs -> Labels]
      <4>1. \E l \in Labels : pc' = [pc EXCEPT ![m] = l]
        BY <2>1 DEF Labels, Owning
      <4> QED BY <4>1, PcTyped, ConstantFacts
    <3>2. busy' \in BOOLEAN
      BY <2>1, ConstantFacts DEF TypeOK
    <3>3. lapses' \subseteq {"taken early", "timeout", "compress"}
      BY <2>1, ConstantFacts, ZenonT(60) DEF TypeOK
    <3> QED BY <2>2, <3>1, <3>2, <3>3 DEF TypeOK
  <2>4. Called'
    BY <2>1, <2>2, ConstantFacts DEF TypeOK, Called
  <2>5. ASSUME Clean' PROVE Owner'
    <3>1. \E l \in Owning \cup {"done", "alive"} :
           /\ pc' = [pc EXCEPT ![m] = l]
           /\ busy' = busy \/ (busy' = FALSE /\ l \notin Owning)
      BY <2>1, <2>2 DEF Owning
    <3>2. pc[m] \in Owning /\ lapses \subseteq lapses'
      BY <2>1, <2>2 DEF Owning
    <3> QED BY <2>2, <2>5, <3>1, <3>2, TurnStep
  <2> QED BY <2>3, <2>4, <2>5 DEF IInv
<1>12. CASE ReadAlive(m)
  <2>1. /\ pc[m] = "alive"
        /\ \/ pc' = [pc EXCEPT ![m] = "stop"] /\ then' = [then EXCEPT ![m] = "register"]
           \/ pc' = [pc EXCEPT ![m] = "done"] /\ then' = then
    BY <1>12 DEF ReadAlive, CallStop, Goto, TypeOK, Called
  <2>2. UNCHANGED <<busy, queue, cur, told, resync, stopped, reg, await, cancelled,
                     reader, held, events, closed, prompts, strays, lapses>>
    BY <1>12
       DEF ReadAlive, CallStop, Goto, turnVars, stateVars, stopVars, readerVars,
           agentVars
  <2>3. TypeOK'
    <3>1. pc' \in [Procs -> Labels]
      <4>1. \E l \in Labels : pc' = [pc EXCEPT ![m] = l]
        BY <2>1 DEF Labels, Owning
      <4> QED BY <4>1, PcTyped, ConstantFacts
    <3>2. then' \in [Procs -> {"none", "resync", "drain", "flush", "register", "mark"}]
      BY <2>1, ConstantFacts DEF TypeOK
    <3> QED BY <2>2, <3>1, <3>2 DEF TypeOK
  <2>4. Called'
    <3>1. m \in Procs /\ Msgs \subseteq Procs
      BY ConstantFacts
    <3>2. CASE pc' = [pc EXCEPT ![m] = "stop"] /\ then' = [then EXCEPT ![m] = "register"]
      BY <2>1, <3>1, <3>2, ConstantFacts DEF TypeOK, Called
    <3>3. CASE pc' = [pc EXCEPT ![m] = "done"] /\ then' = then
      BY <2>1, <3>1, <3>3, ConstantFacts DEF TypeOK, Called
    <3> QED BY <2>1, <3>2, <3>3
  <2>5. ASSUME Clean' PROVE Owner'
    <3>1. Clean /\ Owner
      BY <2>1, <2>2, <2>5, ConstantFacts DEF TypeOK, Clean
    <3>2. /\ \A x \in Msgs \ {m} : pc'[x] = pc[x] /\ then'[x] = then[x] /\ await'[x] = await[x]
          /\ m \in Msgs
      BY <2>1, <2>2, <3>1, ConstantFacts DEF TypeOK
    <3>3. m \in Act' => m \in Act \/ Act = {}
      BY <2>1, <2>2, <3>1, <3>2, ConstantFacts, <2>5
         DEF TypeOK, Called, Owner, Flagged, Act, Hold, Owning, Clean, Starting
    <3>4. m \in Hold' => busy'
      BY <2>1, <2>2, <3>1, <3>2, ConstantFacts, ZenonT(60)
         DEF TypeOK, Called, Owner, Flagged, Act, Hold, Owning
    <3>5. busy' = busy \/ busy' = TRUE \/ m \in Act
      BY <2>1, <2>2, <3>1, <3>2, ConstantFacts DEF TypeOK, Called, Act, Owning
    <3>6. m \in Own' => reg' = NoMsg
      BY <2>1, <2>2, <3>1, <3>2, ConstantFacts, ZenonT(60)
         DEF TypeOK, Called, Owner, Free, Own, Owning
    <3>7. reg' = reg \/ reg' = NoMsg \/ m \in Act
      BY <2>1, <2>2, <3>1, <3>2, ConstantFacts DEF TypeOK, Called, Act, Owning
    <3>8. Live' = Live /\ reg' = reg /\ m \notin Waits
      BY <2>1, <2>2, <3>1, <3>2, ConstantFacts
         DEF TypeOK, Called, Live, Running, Waits, Owning
    <3>9. \A y \in Live' : \/ y = reg' \/ (m \in Waits' /\ await'[m] = y)
                           \/ m \notin Waits /\ y # reg /\ y \in Live
      BY <3>8
    <3> QED BY <3>1, <3>2, <3>3, <3>4, <3>5, <3>6, <3>7, <3>8, <3>9, OwnerStep
  <2> QED BY <2>3, <2>4, <2>5 DEF IInv
<1>13. CASE Register(m)
  <2>1. /\ pc[m] = "register"
        /\ pc' = [pc EXCEPT ![m] = "done"]
        /\ reg' = m
        /\ reader' = [reader EXCEPT ![m] = "wait"]
    BY <1>13 DEF Register, Goto, TypeOK, Called
  <2>2. UNCHANGED <<busy, queue, cur, told, resync, stopped, then, await, cancelled,
                     held, events, closed, prompts, strays, lapses>>
    BY <1>13 DEF Register, Goto, turnVars, stateVars, stopVars, readerVars, agentVars
  <2>3. TypeOK'
    <3>1. pc' \in [Procs -> Labels]
      <4>1. \E l \in Labels : pc' = [pc EXCEPT ![m] = l]
        BY <2>1 DEF Labels, Owning
      <4> QED BY <4>1, PcTyped, ConstantFacts
    <3>2. reg' \in Msgs \cup {NoMsg}
      BY <2>1, ConstantFacts DEF TypeOK
    <3>3. reader' \in [Msgs -> {"none", "wait", "got", "relay", "done"}]
      BY <2>1, ConstantFacts DEF TypeOK
    <3> QED BY <2>2, <3>1, <3>2, <3>3 DEF TypeOK
  <2>4. Called'
    BY <2>1, <2>2, ConstantFacts DEF TypeOK, Called
  <2>5. ASSUME Clean' PROVE Owner'
    <3>1. Clean /\ Owner
      BY <2>1, <2>2, <2>5, ConstantFacts DEF TypeOK, Clean
    <3>2. /\ \A x \in Msgs \ {m} : pc'[x] = pc[x] /\ then'[x] = then[x] /\ await'[x] = await[x]
          /\ m \in Msgs
      BY <2>1, <2>2, <3>1, ConstantFacts DEF TypeOK
    <3>3. m \in Act' => m \in Act \/ Act = {}
      BY <2>1, <2>2, <3>1, <3>2, ConstantFacts, <2>5
         DEF TypeOK, Called, Owner, Flagged, Act, Hold, Owning, Clean, Starting
    <3>4. m \in Hold' => busy'
      BY <2>1, <2>2, <3>1, <3>2, ConstantFacts
         DEF TypeOK, Called, Owner, Flagged, Act, Hold, Owning
    <3>5. busy' = busy \/ busy' = TRUE \/ m \in Act
      BY <2>1, <2>2, <3>1, <3>2, ConstantFacts DEF TypeOK, Called, Act, Owning
    <3>6. m \in Own' => reg' = NoMsg
      BY <2>1, <2>2, <3>1, <3>2, ConstantFacts
         DEF TypeOK, Called, Owner, Free, Own, Owning
    <3>7. reg' = reg \/ reg' = NoMsg \/ m \in Act
      BY <2>1, <2>2, <3>1, <3>2, ConstantFacts DEF TypeOK, Called, Act, Owning
    <3>8. Live' \subseteq Live \cup {m} /\ reg' = m /\ m \notin Waits
      BY <2>1, <2>2, <3>1, <3>2, ConstantFacts, ZenonT(60) DEF TypeOK, Called, Live, Running, Waits
    <3>9. m \in Own /\ \A y \in Live : y # NoMsg
      BY <2>1, <2>2, <3>1, <3>2, ConstantFacts, ZenonT(60) DEF TypeOK, Called, Live, Own
    <3>10. reg = NoMsg
      BY <2>1, <2>2, <3>1, <3>2, ConstantFacts, <3>9 DEF TypeOK, Called, Owner, Free
    <3>11. \A y \in Live' : \/ y = reg' \/ (m \in Waits' /\ await'[m] = y)
                            \/ m \notin Waits /\ y # reg /\ y \in Live
      BY <3>8, <3>9, <3>10
    <3> QED BY <3>1, <3>2, <3>3, <3>4, <3>5, <3>6, <3>7, <3>8, <3>9, <3>10, <3>11, OwnerStep
  <2> QED BY <2>3, <2>4, <2>5 DEF IInv
<1> QED BY <1>1, <1>2, <1>3, <1>4, <1>5, <1>6, <1>7, <1>8, <1>9, <1>10, <1>11, <1>12, <1>13
       DEF Turn

LEMMA ReaderInv ==
  ASSUME IInv, NEW r \in Msgs, Reader(r)
  PROVE  IInv'
<1> USE DEF IInv
<1>1. CASE ReaderCancelled(r)
  <2>1. /\ reader[r] = "wait"
        /\ reader' = [reader EXCEPT ![r] = "done"]
    BY <1>1 DEF ReaderCancelled, TypeOK, Called
  <2>2. UNCHANGED <<busy, queue, cur, told, resync, stopped, pc, reg, then, await,
                     cancelled, held, events, closed, prompts, strays, lapses>>
    BY <1>1 DEF ReaderCancelled, turnVars, stateVars, stopVars, readerVars, agentVars
  <2>3. TypeOK'
    <3>1. reader' \in [Msgs -> {"none", "wait", "got", "relay", "done"}]
      BY <2>1, ConstantFacts DEF TypeOK
    <3> QED BY <2>2, <3>1 DEF TypeOK
  <2>4. Called'
    BY <2>1, <2>2, ConstantFacts DEF TypeOK, Called
  <2>5. Clean' => Owner'
    <3>1. Live' \subseteq Live
      BY <2>1, <2>2 DEF TypeOK, Live, Running
    <3> QED BY <2>2, <3>1, ReaderStep DEF Clean
  <2> QED BY <2>3, <2>4, <2>5 DEF IInv
<1>2. CASE ReaderReceive(r)
  <2>1. /\ reader[r] = "wait"
        /\ reader' = [reader EXCEPT ![r] = "got"]
        /\ held' = [held EXCEPT ![r] = Head(events)]
        /\ events # <<>> /\ events' = Tail(events)
    BY <1>2 DEF ReaderReceive, TypeOK, Called
  <2>2. UNCHANGED <<busy, queue, cur, told, resync, stopped, pc, reg, then, await,
                     cancelled, closed, prompts, strays, lapses>>
    BY <1>2 DEF ReaderReceive, turnVars, stateVars, stopVars, readerVars, agentVars
  <2>3. TypeOK'
    <3>1. reader' \in [Msgs -> {"none", "wait", "got", "relay", "done"}]
      BY <2>1, ConstantFacts DEF TypeOK
    <3>2. held' \in [Msgs -> Events \cup {NoEvent}]
      BY <2>1, Sequences, SequencesTyped
    <3>3. events' \in Seq(Events)
      BY <2>1, Sequences, SequencesTyped
    <3> QED BY <2>2, <3>1, <3>2, <3>3 DEF TypeOK
  <2>4. Called'
    BY <2>1, <2>2, ConstantFacts DEF TypeOK, Called
  <2>5. Clean' => Owner'
    <3>1. Live' \subseteq Live
      BY <2>1, <2>2 DEF TypeOK, Live, Running
    <3> QED BY <2>2, <3>1, ReaderStep DEF Clean
  <2> QED BY <2>3, <2>4, <2>5 DEF IInv
<1>3. CASE ReaderClosed(r)
  <2>1. /\ reader[r] = "wait"
        /\ reader' = [reader EXCEPT ![r] = "done"]
        /\ resync' = TRUE
    BY <1>3 DEF ReaderClosed, TypeOK, Called
  <2>2. UNCHANGED <<busy, queue, cur, told, stopped, pc, reg, then, await,
                     cancelled, held, events, closed, prompts, strays, lapses>>
    BY <1>3 DEF ReaderClosed, turnVars, stateVars, stopVars, readerVars, agentVars
  <2>3. TypeOK'
    <3>1. reader' \in [Msgs -> {"none", "wait", "got", "relay", "done"}]
      BY <2>1, ConstantFacts DEF TypeOK
    <3>2. resync' \in BOOLEAN
      BY <2>1, ConstantFacts DEF TypeOK
    <3> QED BY <2>2, <3>1, <3>2 DEF TypeOK
  <2>4. Called'
    BY <2>1, <2>2, ConstantFacts DEF TypeOK, Called
  <2>5. Clean' => Owner'
    <3>1. Live' \subseteq Live
      BY <2>1, <2>2 DEF TypeOK, Live, Running
    <3> QED BY <2>2, <3>1, ReaderStep DEF Clean
  <2> QED BY <2>3, <2>4, <2>5 DEF IInv
<1>4. CASE ReaderCheck(r)
  <2>1. /\ reader[r] = "got"
        /\ \/ reader' = [reader EXCEPT ![r] = "relay"]
           \/ reader' = [reader EXCEPT ![r] = "done"]
        /\ held' \in {held, [held EXCEPT ![r] = NoEvent]}
        /\ resync' \in BOOLEAN
    BY <1>4 DEF ReaderCheck, TypeOK, Called
  <2>2. UNCHANGED <<busy, queue, cur, told, stopped, pc, reg, then, await,
                     cancelled, events, closed, prompts, strays, lapses>>
    BY <1>4 DEF ReaderCheck, turnVars, stateVars, stopVars, readerVars, agentVars
  <2>3. TypeOK'
    <3>1. reader' \in [Msgs -> {"none", "wait", "got", "relay", "done"}]
      BY <2>1, ConstantFacts, ZenonT(60) DEF TypeOK
    <3>2. held' \in [Msgs -> Events \cup {NoEvent}]
      BY <2>1, Sequences, SequencesTyped
    <3>3. resync' \in BOOLEAN
      BY <2>1, ConstantFacts DEF TypeOK
    <3> QED BY <2>2, <3>1, <3>2, <3>3 DEF TypeOK
  <2>4. Called'
    BY <2>1, <2>2, ConstantFacts DEF TypeOK, Called
  <2>5. Clean' => Owner'
    <3>1. Live' \subseteq Live
      BY <2>1, <2>2 DEF TypeOK, Live, Running
    <3> QED BY <2>2, <3>1, ReaderStep DEF Clean
  <2> QED BY <2>3, <2>4, <2>5 DEF IInv
<1>5. CASE ReaderRelay(r)
  <2>1. /\ reader[r] = "relay"
        /\ \/ reader' = [reader EXCEPT ![r] = "wait"]
           \/ reader' = [reader EXCEPT ![r] = "done"]
        /\ held' = [held EXCEPT ![r] = NoEvent]
        /\ resync' \in BOOLEAN
    BY <1>5 DEF ReaderRelay, TypeOK, Called
  <2>2. UNCHANGED <<busy, queue, cur, told, stopped, pc, reg, then, await,
                     cancelled, events, closed, prompts, strays, lapses>>
    BY <1>5 DEF ReaderRelay, turnVars, stateVars, stopVars, readerVars, agentVars
  <2>3. TypeOK'
    <3>1. reader' \in [Msgs -> {"none", "wait", "got", "relay", "done"}]
      BY <2>1, ConstantFacts, ZenonT(60) DEF TypeOK
    <3>2. held' \in [Msgs -> Events \cup {NoEvent}]
      BY <2>1, Sequences, SequencesTyped
    <3>3. resync' \in BOOLEAN
      BY <2>1, ConstantFacts DEF TypeOK
    <3> QED BY <2>2, <3>1, <3>2, <3>3 DEF TypeOK
  <2>4. Called'
    BY <2>1, <2>2, ConstantFacts DEF TypeOK, Called
  <2>5. Clean' => Owner'
    <3>1. Live' \subseteq Live
      BY <2>1, <2>2 DEF TypeOK, Live, Running
    <3> QED BY <2>2, <3>1, ReaderStep DEF Clean
  <2> QED BY <2>3, <2>4, <2>5 DEF IInv
<1> QED BY <1>1, <1>2, <1>3, <1>4, <1>5 DEF Reader

LEMMA AgentInv ==
  ASSUME IInv, Agent \/ HaltStep
  PROVE  IInv'
<1> USE DEF IInv
<1>1. CASE Answer
  <2>1. /\ \E event \in Events : events' = Append(events, event)
        /\ prompts # <<>> /\ prompts' = Tail(prompts)
    <3>1. prompts # <<>> /\ prompts' = Tail(prompts) /\ Head(prompts) \in Msgs
      BY <1>1, Sequences DEF Answer, TypeOK
    <3>2. \A kind \in {"result", "error"} : [of |-> Head(prompts), kind |-> kind] \in Events
      BY <3>1 DEF Events
    <3>3. \E kind \in {"result", "error"} :
            events' = Append(events, [of |-> Head(prompts), kind |-> kind])
      BY <1>1 DEF Answer, Emit
    <3> QED BY <3>1, <3>2, <3>3
  <2>2. UNCHANGED <<busy, queue, cur, told, resync, stopped, pc, reg, then, await,
                     cancelled, reader, held, closed, strays, lapses>>
    BY <1>1 DEF Answer, Emit, turnVars, stateVars, stopVars, readerVars, agentVars
  <2>3. TypeOK'
    <3>1. events' \in Seq(Events)
      BY <2>1, Sequences, SequencesTyped
    <3>2. prompts' \in Seq(Msgs)
      BY <2>1, Sequences, SequencesTyped
    <3> QED BY <2>2, <3>1, <3>2 DEF TypeOK
  <2>4. Called'
    BY <2>1, <2>2, ConstantFacts DEF TypeOK, Called
  <2>5. Clean' => Owner'
    BY <2>2 DEF Clean, Owner, Exclusive, Flagged, Known, Free, Act, Hold, Own,
                Live, Waits, Running
  <2> QED BY <2>3, <2>4, <2>5 DEF IInv
<1>2. CASE LateError \/ Background
  <2>1. /\ \E event \in Events : events' = Append(events, event)
        /\ strays' \in 0 .. MaxStrays
    <3>1. \A kind \in {"result", "error"} : [of |-> NoMsg, kind |-> kind] \in Events
      BY DEF Events
    <3>2. \E kind \in {"result", "error"} : events' = Append(events, [of |-> NoMsg, kind |-> kind])
      BY <1>2 DEF LateError, Background, Emit
    <3>3. strays' = strays + 1 /\ strays < MaxStrays /\ strays \in Nat
      <4>1. strays \in 0 .. MaxStrays
        BY DEF TypeOK
      <4> QED BY <1>2, <4>1, ConstantFacts DEF LateError, Background
    <3>4. strays' \in 0 .. MaxStrays
      BY <3>3, ConstantFacts
    <3> QED BY <3>1, <3>2, <3>4
  <2>2. UNCHANGED <<busy, queue, cur, told, resync, stopped, pc, reg, then, await,
                     cancelled, reader, held, closed, prompts, lapses>>
    BY <1>2
       DEF LateError, Background, Emit, turnVars, stateVars, stopVars, readerVars,
           agentVars
  <2>3. TypeOK'
    <3>1. events' \in Seq(Events)
      BY <2>1, Sequences, SequencesTyped
    <3>2. strays' \in 0 .. MaxStrays
      BY <2>1, ConstantFacts DEF TypeOK
    <3> QED BY <2>2, <3>1, <3>2 DEF TypeOK
  <2>4. Called'
    BY <2>1, <2>2, ConstantFacts DEF TypeOK, Called
  <2>5. Clean' => Owner'
    BY <2>2 DEF Clean, Owner, Exclusive, Flagged, Known, Free, Act, Hold, Own,
                Live, Waits, Running
  <2> QED BY <2>3, <2>4, <2>5 DEF IInv
<1>3. CASE AgentExit
  <2>1. /\ closed' = TRUE
    BY <1>3 DEF AgentExit, TypeOK, Called
  <2>2. UNCHANGED <<busy, queue, cur, told, resync, stopped, pc, reg, then, await,
                     cancelled, reader, held, events, prompts, strays, lapses>>
    BY <1>3 DEF AgentExit, turnVars, stateVars, stopVars, readerVars, agentVars
  <2>3. TypeOK'
    <3>1. closed' \in BOOLEAN
      BY <2>1, ConstantFacts DEF TypeOK
    <3> QED BY <2>2, <3>1 DEF TypeOK
  <2>4. Called'
    BY <2>1, <2>2, ConstantFacts DEF TypeOK, Called
  <2>5. Clean' => Owner'
    BY <2>2 DEF Clean, Owner, Exclusive, Flagged, Known, Free, Act, Hold, Own,
                Live, Waits, Running
  <2> QED BY <2>3, <2>4, <2>5 DEF IInv
<1>4. CASE HaltBegin
  <2>1. /\ pc' = [pc EXCEPT ![Halt] = "stop"]
        /\ then' = [then EXCEPT ![Halt] = "mark"]
    BY <1>4 DEF HaltBegin, CallStop, Goto, TypeOK, Called
  <2>2. UNCHANGED <<busy, queue, cur, told, resync, stopped, reg, await, cancelled,
                     reader, held, events, closed, prompts, strays, lapses>>
    BY <1>4
       DEF HaltBegin, CallStop, Goto, turnVars, stateVars, stopVars, readerVars,
           agentVars
  <2>3. TypeOK'
    <3>1. pc' \in [Procs -> Labels]
      <4>1. \E l \in Labels : pc' = [pc EXCEPT ![Halt] = l]
        BY <2>1 DEF Labels, Owning
      <4> QED BY <4>1, PcTyped, ConstantFacts
    <3>2. then' \in [Procs -> {"none", "resync", "drain", "flush", "register", "mark"}]
      BY <2>1, ConstantFacts DEF TypeOK
    <3> QED BY <2>2, <3>1, <3>2 DEF TypeOK
  <2>4. Called'
    BY <2>1, <2>2, ConstantFacts DEF TypeOK, Called
  <2>5. ~Clean'
    BY <2>1, <2>2, ConstantFacts DEF TypeOK, Called, Clean
  <2> QED BY <2>3, <2>4, <2>5 DEF IInv
<1>5. CASE HaltMark
  <2>1. /\ pc' = [pc EXCEPT ![Halt] = "drop"]
        /\ stopped' = TRUE
    BY <1>5 DEF HaltMark, Goto, TypeOK, Called
  <2>2. UNCHANGED <<busy, queue, cur, told, resync, reg, then, await, cancelled,
                     reader, held, events, closed, prompts, strays, lapses>>
    BY <1>5 DEF HaltMark, Goto, turnVars, stateVars, stopVars, readerVars, agentVars
  <2>3. TypeOK'
    <3>1. pc' \in [Procs -> Labels]
      <4>1. \E l \in Labels : pc' = [pc EXCEPT ![Halt] = l]
        BY <2>1 DEF Labels, Owning
      <4> QED BY <4>1, PcTyped, ConstantFacts
    <3>2. stopped' \in BOOLEAN
      BY <2>1, ConstantFacts DEF TypeOK
    <3> QED BY <2>2, <3>1, <3>2 DEF TypeOK
  <2>4. Called'
    BY <2>1, <2>2, ConstantFacts DEF TypeOK, Called
  <2>5. ~Clean'
    BY <2>1, <2>2, ConstantFacts DEF TypeOK, Called, Clean
  <2> QED BY <2>3, <2>4, <2>5 DEF IInv
<1>6. CASE HaltDrop
  <2>1. /\ pc' = [pc EXCEPT ![Halt] = "close"]
        /\ queue' = <<>>
    BY <1>6 DEF HaltDrop, Goto, TypeOK, Called
  <2>2. UNCHANGED <<busy, cur, told, resync, stopped, reg, then, await, cancelled,
                     reader, held, events, closed, prompts, strays, lapses>>
    BY <1>6 DEF HaltDrop, Goto, turnVars, stateVars, stopVars, readerVars, agentVars
  <2>3. TypeOK'
    <3>1. pc' \in [Procs -> Labels]
      <4>1. \E l \in Labels : pc' = [pc EXCEPT ![Halt] = l]
        BY <2>1 DEF Labels, Owning
      <4> QED BY <4>1, PcTyped, ConstantFacts
    <3>2. queue' \in Seq(Msgs)
      BY <2>1, Sequences, SequencesTyped
    <3> QED BY <2>2, <3>1, <3>2 DEF TypeOK
  <2>4. Called'
    BY <2>1, <2>2, ConstantFacts DEF TypeOK, Called
  <2>5. ~Clean'
    BY <2>1, <2>2, ConstantFacts DEF TypeOK, Called, Clean
  <2> QED BY <2>3, <2>4, <2>5 DEF IInv
<1>7. CASE HaltClose
  <2>1. /\ pc' = [pc EXCEPT ![Halt] = "done"]
        /\ closed' = TRUE
    BY <1>7 DEF HaltClose, Goto, TypeOK, Called
  <2>2. UNCHANGED <<busy, queue, cur, told, resync, stopped, reg, then, await,
                     cancelled, reader, held, events, prompts, strays, lapses>>
    BY <1>7 DEF HaltClose, Goto, turnVars, stateVars, stopVars, readerVars, agentVars
  <2>3. TypeOK'
    <3>1. pc' \in [Procs -> Labels]
      <4>1. \E l \in Labels : pc' = [pc EXCEPT ![Halt] = l]
        BY <2>1 DEF Labels, Owning
      <4> QED BY <4>1, PcTyped, ConstantFacts
    <3>2. closed' \in BOOLEAN
      BY <2>1, ConstantFacts DEF TypeOK
    <3> QED BY <2>2, <3>1, <3>2 DEF TypeOK
  <2>4. Called'
    BY <2>1, <2>2, ConstantFacts DEF TypeOK, Called
  <2>5. ~Clean'
    BY <2>1, <2>2, ConstantFacts DEF TypeOK, Called, Clean
  <2> QED BY <2>3, <2>4, <2>5 DEF IInv
<1> QED BY <1>1, <1>2, <1>3, <1>4, <1>5, <1>6, <1>7 DEF Agent, HaltStep

LEMMA NextInv == IInv /\ [Next]_vars => IInv'
<1> SUFFICES ASSUME IInv, [Next]_vars PROVE IInv'
  OBVIOUS
<1>1. ASSUME NEW m \in Msgs, HandleMessage(m) \/ Turn(m) \/ Reader(m) PROVE IInv'
  BY <1>1, MessageInv, TurnInv, ReaderInv
<1>2. ASSUME NEW p \in Procs, Stop(p) PROVE IInv'
  BY <1>2, StopInv
<1>3. CASE Agent \/ HaltStep
  BY <1>3, AgentInv
<1>4. CASE UNCHANGED vars
  <2>1. UNCHANGED <<busy, queue, cur, told, resync, stopped, pc, reg, then, await, cancelled,
                    reader, held, events, closed, prompts, strays, lapses>>
    BY <1>4 DEF vars, turnVars, stateVars, stopVars, readerVars, agentVars
  <2>2. TypeOK' /\ Called'
    BY <2>1 DEF IInv, TypeOK, Called
  <2>3. Live' = Live /\ (Clean' => Clean)
    BY <2>1 DEF Live, Running, Clean
  <2> QED BY <2>1, <2>2, <2>3, ReaderStep DEF IInv
<1> QED BY <1>1, <1>2, <1>3, <1>4 DEF Next

\* Every reachable state is well formed.
THEOREM EventOwnerTypeCorrect == Spec => []TypeOK
<1>1. IInv => TypeOK
  BY DEF IInv
<1> QED BY InitInv, NextInv, <1>1, PTL DEF Spec

\* No background reader runs while a turn owns the channel, unless a turn began
\* before the last one had started its reader, a reader outlived the wait for
\* it, or a /stop took it away.
THEOREM EventsSoleConsumer == Spec => []SoleConsumer
<1>1. IInv => SoleConsumer
  <2> SUFFICES ASSUME IInv, Clean, NEW m \in Msgs, NEW r \in Msgs, pc[m] \in Owning, Running(r)
               PROVE  FALSE
    BY DEF SoleConsumer, Clean
  <2>1. m \in Own /\ m \in Act /\ r \in Live /\ reg # r
    BY ConstantFacts DEF IInv, Owner, Free, Own, Act, Live
  <2>2. PICK x \in Waits : await[x] = r
    BY <2>1 DEF IInv, Owner, Known
  <2>3. x = m
    BY <2>1, <2>2 DEF IInv, Owner, Exclusive, Waits, Act
  <2> QED BY <2>2, <2>3 DEF Waits, Owning
<1> QED BY InitInv, NextInv, <1>1, PTL DEF Spec

-----------------------------------------------------------------------------
(* An answer is the answer of its own message *)

\* Whatever went wrong before, one goroutine has the busy flag, and what the
\* agent owes, or has said, is what the prompt of that goroutine's turn asks.
Solo == \A m, x \in Hold : m = x

Asked ==
  (strays = 0 /\ ~stopped) =>
    /\ (prompts # <<>> /\ ~closed) =>
         events = <<>> /\ \E m \in Msgs : pc[m] = "loop" /\ prompts = <<cur[m]>>
    /\ events # <<>> =>
         /\ prompts # <<>> => closed
         /\ \E m \in Msgs, kind \in {"result", "error"} :
              pc[m] = "loop" /\ events = <<[of |-> cur[m], kind |-> kind]>>

AInv == Solo /\ Flagged /\ Asked /\ AnswerOwn

LEMMA Singletons ==
  \A x : /\ Append(<<>>, x) = <<x>> /\ <<x>> # <<>>
         /\ Head(<<x>>) = x /\ Tail(<<x>>) = <<>>
OBVIOUS

LEMMA StraysTyped == IInv => strays \in Nat
<1> SUFFICES ASSUME IInv PROVE strays \in Nat
  OBVIOUS
<1>1. strays \in 0 .. MaxStrays
  BY DEF IInv, TypeOK
<1> QED BY <1>1, ConstantFacts

LEMMA InitAnswers == Init => AInv
BY ConstantFacts
   DEF Init, AInv, Solo, Flagged, Asked, AnswerOwn, Hold, Act, Owning, NoEvent

\* A step of one goroutine keeps the busy flag with one owner.
LEMMA SoloStep ==
  ASSUME Solo, Flagged, NEW m \in Msgs,
         \A x \in Msgs \ {m} : pc'[x] = pc[x] /\ then'[x] = then[x],
         m \in Hold' => busy' /\ (m \in Hold \/ ~busy),
         busy' = busy \/ busy' = TRUE \/ m \in Hold
  PROVE  (Solo /\ Flagged)'
<1>1. Hold' \ {m} = Hold \ {m}
  BY DEF Hold, Act
<1>2. Hold' \subseteq Hold \cup {m}
  BY <1>1
<1> QED BY <1>1, <1>2 DEF Solo, Flagged

\* A step of a goroutine that is not in its event loop, and does not enter it,
\* with the channel, the prompts and the answers left alone.
LEMMA AnswersStep ==
  ASSUME AInv, NEW m \in Msgs, pc[m] # "loop", pc'[m] # "loop",
         \A x \in Msgs \ {m} : pc'[x] = pc[x] /\ then'[x] = then[x] /\ cur'[x] = cur[x],
         m \in Hold' => busy' /\ (m \in Hold \/ ~busy),
         busy' = busy \/ busy' = TRUE \/ m \in Hold,
         UNCHANGED <<prompts, events, told, closed, stopped, strays>>
  PROVE  AInv'
<1>1. (Solo /\ Flagged)'
  BY SoloStep DEF AInv
<1>2. Asked'
  <2>1. \A x \in Msgs : pc[x] = "loop" => pc'[x] = "loop" /\ cur'[x] = cur[x]
    OBVIOUS
  <2> QED BY <2>1 DEF AInv, Asked
<1>3. AnswerOwn'
  BY DEF AInv, AnswerOwn
<1> QED BY <1>1, <1>2, <1>3 DEF AInv

LEMMA MessageAnswers ==
  ASSUME IInv, AInv, NEW m \in Msgs, HandleMessage(m)
  PROVE  AInv'
<1> USE ConstantFacts DEF IInv, TypeOK
<1>1. UNCHANGED <<cur, prompts, events, told, closed, stopped, strays>>
  BY DEF HandleMessage, Arrive, ArriveBusy, Retry, Orphan, turnVars, stateVars,
         agentVars
<1>2. pc[m] # "loop" /\ pc'[m] # "loop"
  BY DEF HandleMessage, Arrive, ArriveBusy, Retry, Orphan, CallStop, Goto
<1>3. \A x \in Msgs \ {m} : pc'[x] = pc[x] /\ then'[x] = then[x]
  BY DEF HandleMessage, Arrive, ArriveBusy, Retry, Orphan, CallStop, Goto, stopVars
<1>4. m \in Hold' => busy' /\ (m \in Hold \/ ~busy)
  <2>1. CASE Arrive(m)
    BY <2>1 DEF Arrive, Lock, CallStop, Goto
  <2>2. CASE ArriveBusy(m)
    <3>1. pc'[m] \in {"done", "retry"}
      BY <2>2 DEF ArriveBusy, Goto
    <3> QED BY <3>1 DEF Hold, Act, Owning
  <2>3. CASE Retry(m)
    BY <2>3 DEF Retry, Lock, Goto, Hold, Act, Owning
  <2>4. CASE Orphan(m)
    BY <2>4 DEF Orphan, CallStop, Goto, Hold, Act, Owning, AInv, Flagged
  <2> QED BY <2>1, <2>2, <2>3, <2>4 DEF HandleMessage
<1>5. busy' = busy \/ busy' = TRUE \/ m \in Hold
  BY DEF HandleMessage, Arrive, ArriveBusy, Retry, Orphan, Lock, Hold, Act, Owning
<1> QED BY <1>1, <1>2, <1>3, <1>4, <1>5, AnswersStep

LEMMA StopAnswers ==
  ASSUME IInv, AInv, NEW p \in Procs, Stop(p)
  PROVE  AInv'
<1> USE ConstantFacts DEF IInv, TypeOK
<1>1. UNCHANGED <<busy, cur, prompts, events, told, closed, stopped, strays>>
  BY DEF Stop, StopReader, ReaderStopped, StopTimeout, turnVars, stateVars, agentVars
<1>2. /\ pc[p] \in {"stop", "stopping"}
      /\ \A x \in Procs \ {p} : pc'[x] = pc[x] /\ then'[x] = then[x]
      /\ \/ pc'[p] = "stopping" /\ then'[p] = then[p]
         \/ pc'[p] = then[p]
  BY ZenonT(30) DEF Stop, StopReader, ReaderStopped, StopTimeout, Return, Goto
<1>3. CASE p = Halt
  <2>1. \A x \in Msgs : pc'[x] = pc[x] /\ then'[x] = then[x]
    BY <1>2, <1>3
  <2>2. Hold' = Hold
    BY <2>1 DEF Hold, Act
  <2> QED BY <1>1, <2>1, <2>2 DEF AInv, Solo, Flagged, Asked, AnswerOwn
<1>4. CASE p \in Msgs
  <2>1. then[p] \in {"resync", "drain", "flush", "register"}
    BY <1>2, <1>4 DEF Called
  <2>2. p \in Hold' => p \in Hold
    BY <1>2, <1>4, <2>1 DEF Hold, Act, Owning
  <2>3. p \in Hold => busy
    BY DEF AInv, Flagged
  <2>4. pc[p] # "loop" /\ pc'[p] # "loop"
    BY <1>2, <2>1
  <2> QED BY <1>1, <1>2, <1>4, <2>2, <2>3, <2>4, AnswersStep
<1> QED BY <1>3, <1>4

LEMMA TurnAnswers ==
  ASSUME IInv, AInv, NEW m \in Msgs, Turn(m)
  PROVE  AInv'
<1> USE ConstantFacts DEF IInv, TypeOK
<1>1. /\ \A x \in Msgs \ {m} : pc'[x] = pc[x] /\ then'[x] = then[x] /\ cur'[x] = cur[x]
      /\ UNCHANGED <<closed, stopped, strays>>
  BY DEF Turn, ReadResync, Flush, Send, LoopResult, LoopError, LoopStopped, LoopClosed,
         TakeQueued, DropQueued, LeaveLoop, Unlock, ReadAlive, Register, Receive, Mark,
         LeaveEarly, CallStop, Goto, turnVars, stateVars, stopVars, agentVars
<1>2. pc[m] \in Owning => m \in Hold
  BY DEF Hold, Act, Owning
<1>3. m \in Hold => busy
  BY DEF AInv, Flagged
<1>4. busy' = busy \/ busy' = TRUE \/ m \in Hold
  BY <1>2 DEF Turn, ReadResync, Flush, Send, LoopResult, LoopError, LoopStopped, LoopClosed,
         TakeQueued, DropQueued, LeaveLoop, Unlock, ReadAlive, Register, Receive, Mark,
         LeaveEarly, CallStop, Goto, turnVars, stateVars, stopVars, agentVars, Owning
<1>5. m \in Hold' => busy' /\ (m \in Hold \/ ~busy)
  <2>1. CASE pc[m] \in Owning /\ busy' = busy
    BY <1>2, <1>3, <2>1
  <2>2. CASE pc[m] \in Owning /\ busy' # busy
    <3>1. pc'[m] \in {"done", "alive"}
      BY <2>2 DEF Turn, ReadResync, Flush, Send, LoopResult, LoopError, LoopStopped,
         LoopClosed, TakeQueued, DropQueued, LeaveLoop, Unlock, ReadAlive, Register,
         Receive, LeaveEarly, CallStop, Goto, turnVars
    <3> QED BY <3>1 DEF Hold, Act, Owning
  <2>3. CASE ReadAlive(m)
    <3>1. pc'[m] = "done" \/ (pc'[m] = "stop" /\ then'[m] = "register")
      BY <2>3 DEF ReadAlive, CallStop, Goto
    <3> QED BY <3>1 DEF Hold, Act, Owning
  <2>4. CASE Register(m)
    BY <2>4 DEF Register, Goto, Hold, Act, Owning
  <2>5. pc[m] \in Owning \/ ReadAlive(m) \/ Register(m)
    BY DEF Turn, ReadResync, Flush, Send, LoopResult, LoopError, LoopStopped, LoopClosed,
           TakeQueued, DropQueued, LeaveLoop, Unlock, Receive, Owning
  <2> QED BY <2>1, <2>2, <2>3, <2>4, <2>5
<1>6. (Solo /\ Flagged)'
  BY <1>1, <1>4, <1>5, SoloStep DEF AInv
\* In the loop nobody else is in one: what the agent owes is this prompt.
<1>7. pc[m] \in Owning => \A x \in Msgs : pc[x] = "loop" => x = m
  BY <1>2 DEF AInv, Solo, Hold, Act, Owning
<1>8. CASE ReadResync(m) \/ TakeQueued(m) \/ DropQueued(m) \/ LeaveLoop(m) \/ Unlock(m)
             \/ ReadAlive(m) \/ Register(m)
  <2>1. /\ pc[m] # "loop" /\ pc'[m] # "loop"
        /\ UNCHANGED <<prompts, events, told>>
    BY <1>8 DEF ReadResync, TakeQueued, DropQueued, LeaveLoop, Unlock, ReadAlive, Register,
                CallStop, Goto, turnVars, agentVars
  <2> QED BY <1>1, <1>4, <1>5, <2>1, AnswersStep
<1>9. CASE Flush(m)
  <2>1. pc[m] = "flush" /\ pc'[m] = "send" /\ events' = <<>> /\ UNCHANGED <<prompts, told>>
    BY <1>9 DEF Flush, Goto, turnVars
  <2>2. \A x \in Msgs : pc[x] # "loop"
    BY <1>7, <2>1 DEF Owning
  <2> QED BY <1>1, <1>6, <2>1, <2>2 DEF AInv, Asked, AnswerOwn
<1>10. CASE Send(m)
  <2>1. /\ pc[m] = "send" /\ pc'[m] = "loop" /\ cur' = cur
        /\ prompts' = Append(prompts, cur[m]) /\ UNCHANGED <<events, told>>
    BY <1>10 DEF Send, Goto, turnVars
  <2>2. \A x \in Msgs : pc[x] # "loop"
    BY <1>7, <2>1 DEF Owning
  <2>3. Asked'
    <3> SUFFICES ASSUME strays = 0, ~stopped PROVE
          /\ (prompts' # <<>> /\ ~closed) =>
               events' = <<>> /\ \E x \in Msgs : pc'[x] = "loop" /\ prompts' = <<cur'[x]>>
          /\ events' = <<>>
      BY <1>1 DEF Asked
    <3>1. events = <<>> /\ (~closed => prompts = <<>>)
      BY <2>2 DEF AInv, Asked
    <3>2. ~closed => prompts' = <<cur[m]>>
      BY <2>1, <3>1, Singletons, Zenon
    <3> QED BY <2>1, <3>1, <3>2
  <2> QED BY <1>1, <1>6, <2>1, <2>3 DEF AInv, AnswerOwn
<1>11. CASE LoopResult(m) \/ LoopError(m)
  <2>1. /\ pc[m] = "loop" /\ ~stopped /\ events # <<>> /\ events' = Tail(events)
        /\ UNCHANGED <<prompts, cur>>
        /\ \/ told' = told
           \/ told' = [told EXCEPT ![cur[m]] = Head(events)]
    BY <1>11 DEF LoopResult, LoopError, Receive
  <2>2. ASSUME strays = 0
        PROVE  /\ prompts # <<>> => closed
               /\ \E kind \in {"result", "error"} : events = <<[of |-> cur[m], kind |-> kind]>>
    BY <1>7, <2>1, <2>2 DEF AInv, Asked, Owning
  <2>3. ASSUME strays = 0 PROVE events' = <<>> /\ Head(events).of = cur[m]
    <3>1. PICK kind \in {"result", "error"} : events = <<[of |-> cur[m], kind |-> kind]>>
      BY <2>2, <2>3
    <3>2. Head(events) = [of |-> cur[m], kind |-> kind] /\ Tail(events) = <<>>
      BY <3>1, Singletons, Zenon
    <3>3. events' = <<>> /\ Head(events).of = [of |-> cur[m], kind |-> kind].of
      BY <2>1, <3>2, Zenon
    <3> QED BY <3>3
  <2>4. Asked'
    BY <1>1, <2>1, <2>2, <2>3 DEF Asked
  <2>5. AnswerOwn'
    BY <1>1, <2>1, <2>3, ZenonT(30) DEF AInv, AnswerOwn
  <2> QED BY <1>6, <2>4, <2>5 DEF AInv
<1>12. CASE LoopStopped(m)
  <2>1. stopped /\ UNCHANGED told
    BY <1>12 DEF LoopStopped
  <2> QED BY <1>1, <1>6, <2>1 DEF AInv, Asked, AnswerOwn
<1>13. CASE LoopClosed(m)
  <2>1. closed /\ events = <<>> /\ UNCHANGED <<events, told>>
    BY <1>13 DEF LoopClosed, agentVars
  <2> QED BY <1>1, <1>6, <2>1 DEF AInv, Asked, AnswerOwn
<1> QED BY <1>8, <1>9, <1>10, <1>11, <1>12, <1>13 DEF Turn

LEMMA OtherAnswers ==
  ASSUME IInv, AInv, (\E r \in Msgs : Reader(r)) \/ Agent \/ HaltStep \/ UNCHANGED vars
  PROVE  AInv'
<1>1. UNCHANGED <<busy, cur, told>> /\ \A x \in Msgs : pc'[x] = pc[x] /\ then'[x] = then[x]
  BY ConstantFacts
     DEF IInv, TypeOK, Reader, ReaderCancelled, ReaderReceive, ReaderClosed, ReaderCheck, ReaderRelay,
         Agent, Answer, LateError, Background, AgentExit,
         HaltStep, HaltBegin, HaltMark, HaltDrop, HaltClose, CallStop, Goto,
         vars, turnVars, stopVars
<1>2. Hold' = Hold
  BY <1>1 DEF Hold, Act
<1>3. (Solo /\ Flagged)'
  BY <1>1, <1>2 DEF AInv, Solo, Flagged
<1>4. /\ strays' = 0 => strays = 0
      /\ stopped => stopped'
      /\ closed => closed'
  <2>1. CASE \E r \in Msgs : Reader(r)
    BY <2>1 DEF Reader, ReaderCancelled, ReaderReceive, ReaderClosed, ReaderCheck,
                ReaderRelay, stateVars, agentVars
  <2>2. CASE Agent
    <3>1. strays \in Nat
      BY StraysTyped
    <3>2. strays' = strays \/ strays' = strays + 1
      BY <2>2 DEF Agent, Answer, LateError, Background, AgentExit
    <3>3. strays' = 0 => strays = 0
      BY <3>1, <3>2
    <3> QED BY <2>2, <3>3 DEF Agent, Answer, LateError, Background, AgentExit, stateVars
  <2>3. CASE HaltStep
    BY <2>3 DEF HaltStep, HaltBegin, HaltMark, HaltDrop, HaltClose, stateVars, agentVars
  <2>4. CASE UNCHANGED vars
    BY <2>4 DEF vars, stateVars, agentVars
  <2> QED BY <2>1, <2>2, <2>3, <2>4
<1>5. AnswerOwn'
  BY <1>1, <1>4 DEF AInv, AnswerOwn
<1>6. CASE Answer
  <2>1. /\ prompts # <<>> /\ ~closed /\ prompts' = Tail(prompts) /\ UNCHANGED <<strays, stopped>>
        /\ \E kind \in {"result", "error"} :
             events' = Append(events, [of |-> Head(prompts), kind |-> kind])
    BY <1>6 DEF Answer, Emit, stateVars
  <2>2. Asked'
    <3> SUFFICES ASSUME strays = 0, ~stopped PROVE
          /\ prompts' = <<>>
          /\ \E m \in Msgs, kind \in {"result", "error"} :
               pc'[m] = "loop" /\ events' = <<[of |-> cur'[m], kind |-> kind]>>
      BY <2>1 DEF Asked
    <3>1. PICK m \in Msgs : pc[m] = "loop" /\ prompts = <<cur[m]>>
      BY <2>1 DEF AInv, Asked
    <3>2. events = <<>>
      BY <2>1 DEF AInv, Asked
    <3>3. Head(prompts) = cur[m] /\ prompts' = <<>>
      BY <2>1, <3>1, Singletons, Zenon
    <3>4. \E kind \in {"result", "error"} : events' = <<[of |-> cur[m], kind |-> kind]>>
      BY <2>1, <3>2, <3>3, Singletons, Zenon
    <3> QED BY <1>1, <3>1, <3>3, <3>4
  <2> QED BY <1>3, <1>5, <2>2 DEF AInv
<1>7. CASE ~Answer
  <2>1. ASSUME strays' = 0
        PROVE  prompts' = prompts /\ (events' = events \/ (events # <<>> /\ events' = Tail(events)))
    <3>1. CASE \E r \in Msgs : Reader(r)
      BY <3>1 DEF Reader, ReaderCancelled, ReaderReceive, ReaderClosed, ReaderCheck,
                  ReaderRelay, agentVars
    <3>2. CASE LateError \/ Background
      <4>1. strays \in Nat /\ strays' = strays + 1
        BY <3>2, StraysTyped DEF LateError, Background
      <4> QED BY <2>1, <4>1
    <3>3. CASE AgentExit \/ HaltStep \/ UNCHANGED vars
      BY <3>3 DEF AgentExit, HaltStep, HaltBegin, HaltMark, HaltDrop, HaltClose, vars,
                  agentVars
    <3> QED BY <1>7, <3>1, <3>2, <3>3 DEF Agent
  <2>2. ASSUME strays = 0, ~stopped, events # <<>> PROVE Tail(events) = <<>>
    <3>1. PICK e : events = <<e>>
      BY <2>2 DEF AInv, Asked
    <3> QED BY <3>1, Singletons, Zenon
  <2>3. Asked'
    <3> SUFFICES ASSUME strays' = 0, ~stopped' PROVE
          /\ (prompts' # <<>> /\ ~closed') =>
               events' = <<>> /\ \E m \in Msgs : pc'[m] = "loop" /\ prompts' = <<cur'[m]>>
          /\ events' # <<>> =>
               /\ prompts' # <<>> => closed'
               /\ \E m \in Msgs, kind \in {"result", "error"} :
                    pc'[m] = "loop" /\ events' = <<[of |-> cur'[m], kind |-> kind]>>
      BY DEF Asked
    <3>1. prompts' = prompts /\ (events' = events \/ (events # <<>> /\ events' = <<>>))
      BY <1>4, <2>1, <2>2
    <3> QED BY <1>1, <1>4, <3>1 DEF AInv, Asked
  <2> QED BY <1>3, <1>5, <2>3 DEF AInv
<1> QED BY <1>6, <1>7

LEMMA NextAnswers == IInv /\ AInv /\ [Next]_vars => AInv'
BY MessageAnswers, StopAnswers, TurnAnswers, OtherAnswers DEF Next

\* When the agent says nothing unasked, the result a message is shown is the
\* result of its own prompt, for any number of messages, faults and readers.
THEOREM EventsAnswerOwn == Spec => []AnswerOwn
<1>1. AInv => AnswerOwn
  BY DEF AInv
<1> QED BY InitInv, NextInv, InitAnswers, NextAnswers, <1>1, PTL DEF Spec

-----------------------------------------------------------------------------
(* Somebody listens between the turns *)

\* A reader is started once, by a goroutine that ends with it; a cancelled
\* reader is not the registered one; and once the last goroutine of a turn has
\* ended cleanly, the registered reader runs.
Once ==
  \A r \in Msgs : (reader[r] # "none" \/ r \in cancelled \/ r = reg) => pc[r] = "done"
Current == reg \notin cancelled
Marked == stopped => pc[Halt] # "idle"

Orderly == lapses = {} /\ pc[Halt] = "idle" /\ ~resync /\ ~closed
Heard == (Orderly /\ Act = {}) => reg # NoMsg /\ Running(reg)

LInv == Once /\ Current /\ Marked /\ Heard

LEMMA InitListens == Init => LInv
BY ConstantFacts DEF Init, LInv, Once, Current, Marked, Heard, Orderly

\* A step of one goroutine that starts and cancels no reader.
LEMMA ListensStep ==
  ASSUME LInv, TypeOK, NEW m \in Msgs, pc[m] # "done",
         \A x \in Procs \ {m} : pc'[x] = pc[x],
         UNCHANGED <<reg, reader, cancelled, stopped>>,
         m \in Act' \/ ~Orderly' \/ (Orderly /\ m \notin Act)
  PROVE  LInv'
<1>1. Once'
  BY ConstantFacts DEF LInv, Once
<1>2. Current' /\ Marked'
  BY ConstantFacts DEF LInv, Current, Marked, Procs
<1>3. Heard'
  <2> SUFFICES ASSUME Orderly', Act' = {} PROVE reg # NoMsg /\ Running(reg)
    BY DEF Heard, Running
  <2>1. \A x \in Msgs \ {m} : x \in Act' <=> x \in Act
    BY ConstantFacts DEF Act
  <2>2. Orderly /\ Act = {}
    <3>1. Orderly /\ m \notin Act
      OBVIOUS
    <3>2. Act \subseteq Msgs
      BY DEF Act
    <3> QED BY <2>1, <3>1, <3>2
  <2> QED BY <2>2 DEF LInv, Heard
<1> QED BY <1>1, <1>2, <1>3 DEF LInv

LEMMA MessageListens ==
  ASSUME IInv, LInv, NEW m \in Msgs, HandleMessage(m)
  PROVE  LInv'
<1>1. /\ pc[m] \in {"idle", "retry", "orphan"}
      /\ pc'[m] \in {"stop", "orphan", "done", "retry"}
      /\ \A x \in Procs \ {m} : pc'[x] = pc[x]
  BY ConstantFacts, ZenonT(30)
     DEF HandleMessage, Arrive, ArriveBusy, Retry, Orphan, CallStop, Goto, IInv, TypeOK
<1>2. UNCHANGED <<reg, reader, cancelled, stopped>>
  BY DEF HandleMessage, Arrive, ArriveBusy, Retry, Orphan, stateVars, stopVars, readerVars
<1>3. m \in Act' \/ ~Orderly' \/ (Orderly /\ m \notin Act)
  <2>1. CASE pc'[m] \in {"stop", "orphan"}
    BY <2>1 DEF Act
  <2>2. CASE ArriveBusy(m) \/ Retry(m)
    <3>1. m \notin Act /\ pc'[Halt] = pc[Halt]
      BY <1>1, <2>2, ConstantFacts DEF ArriveBusy, Retry, Act, Owning
    <3>2. UNCHANGED <<resync, closed>> /\ (lapses' = {} => lapses = {})
      BY <2>2 DEF ArriveBusy, Retry, Lock, stateVars, agentVars
    <3> QED BY <3>1, <3>2 DEF Orderly
  <2>3. CASE Orphan(m) /\ pc'[m] \notin {"stop", "orphan"}
    <3>1. stopped \/ closed
      <4>1. ~(stopped \/ closed) => pc'[m] = "stop"
        BY <2>3, ConstantFacts DEF Orphan, CallStop, Goto, IInv, TypeOK
      <4> QED BY <2>3, <4>1
    <3>2. UNCHANGED <<stopped, closed>> /\ pc'[Halt] = pc[Halt]
      BY <1>1, <2>3, ConstantFacts DEF Orphan, stateVars, agentVars
    <3> QED BY <3>1, <3>2 DEF Orderly, LInv, Marked
  <2>4. Arrive(m) => pc'[m] = "stop"
    BY ConstantFacts DEF Arrive, CallStop, Goto, IInv, TypeOK
  <2> QED BY <2>1, <2>2, <2>3, <2>4 DEF HandleMessage
<1> QED BY <1>1, <1>2, <1>3, ListensStep DEF IInv

LEMMA StopListens ==
  ASSUME IInv, LInv, NEW p \in Procs, Stop(p)
  PROVE  LInv'
<1>1. /\ pc[p] \in {"stop", "stopping"}
      /\ \A x \in Procs \ {p} : pc'[x] = pc[x]
      /\ pc'[p] \in {"stopping", then[p]}
      /\ UNCHANGED <<reader, stopped>>
      /\ \/ UNCHANGED <<reg, cancelled>>
         \/ reg' = NoMsg /\ cancelled' = cancelled \cup ({reg} \ {NoMsg})
  BY DEF Stop, StopReader, ReaderStopped, StopTimeout, Return, Goto, stateVars, readerVars,
         IInv, TypeOK
<1>2. Once'
  <2> SUFFICES ASSUME NEW r \in Msgs, reader'[r] # "none" \/ r \in cancelled' \/ r = reg'
               PROVE  pc'[r] = "done"
    BY DEF Once
  <2>1. pc[r] = "done"
    BY <1>1, ConstantFacts DEF LInv, Once
  <2> QED BY <1>1, <2>1, ConstantFacts
<1>3. Current'
  <2>1. NoMsg \notin cancelled
    BY ConstantFacts DEF IInv, TypeOK
  <2>2. NoMsg \notin cancelled \cup ({reg} \ {NoMsg})
    BY <2>1
  <2> QED BY <1>1, <2>2 DEF LInv, Current
<1>4. Marked'
  <2>1. pc[Halt] # "idle" => pc'[Halt] # "idle"
    BY <1>1, ConstantFacts DEF IInv, Called
  <2> QED BY <1>1, <2>1 DEF LInv, Marked
<1>5. Heard'
  <2>1. CASE p = Halt
    BY <1>1, <2>1, ConstantFacts DEF Heard, Orderly, IInv, Called
  <2>2. CASE p \in Msgs
    <3>1. then[p] \in {"resync", "drain", "flush", "register"}
      BY <1>1, <2>2, ConstantFacts DEF IInv, Called, TypeOK
    <3>2. p \in Act'
      BY <1>1, <2>2, <3>1 DEF Act, Owning
    <3> QED BY <3>2 DEF Heard
  <2> QED BY <2>1, <2>2, ConstantFacts
<1> QED BY <1>2, <1>3, <1>4, <1>5 DEF LInv

LEMMA TurnListens ==
  ASSUME IInv, LInv, NEW m \in Msgs, Turn(m)
  PROVE  LInv'
<1>1. /\ pc[m] \in Owning \cup {"alive", "register"}
      /\ \A x \in Procs \ {m} : pc'[x] = pc[x]
      /\ UNCHANGED <<cancelled, stopped>>
  BY ConstantFacts
     DEF Turn, ReadResync, Flush, Send, LoopResult, LoopError, LoopStopped, LoopClosed,
         TakeQueued, DropQueued, LeaveLoop, Unlock, ReadAlive, Register, Receive,
         LeaveEarly, CallStop, Goto, stateVars, Owning, IInv, TypeOK
<1>2. CASE Register(m)
  <2>1. /\ reg' = m /\ reader' = [reader EXCEPT ![m] = "wait"]
        /\ pc[m] = "register" /\ pc'[m] = "done"
    BY <1>2, ConstantFacts DEF Register, Goto, IInv, TypeOK
  <2>2. m \notin cancelled
    BY <2>1 DEF LInv, Once
  <2>3. reader'[m] = "wait" /\ \A x \in Msgs \ {m} : reader'[x] = reader[x]
    BY <2>1 DEF IInv, TypeOK
  <2>4. Once'
    BY <1>1, <2>1, <2>3, ConstantFacts DEF LInv, Once
  <2>5. Current' /\ Marked'
    BY <1>1, <2>1, <2>2, ConstantFacts DEF LInv, Current, Marked
  <2>6. Heard'
    BY <2>1, <2>3, ConstantFacts DEF Heard, Running
  <2> QED BY <2>4, <2>5, <2>6 DEF LInv
<1>3. CASE ~Register(m)
  <2>1. UNCHANGED <<reg, reader>>
    BY <1>3
       DEF Turn, ReadResync, Flush, Send, LoopResult, LoopError, LoopStopped, LoopClosed,
           TakeQueued, DropQueued, LeaveLoop, Unlock, ReadAlive, CallStop, stopVars,
           readerVars
  <2>2. m \in Act' \/ ~Orderly'
    <3>1. CASE ReadResync(m) \/ Flush(m) \/ Send(m) \/ LoopResult(m) \/ LoopError(m)
               \/ TakeQueued(m) \/ LeaveLoop(m)
      <4>1. pc'[m] \in Owning
        BY <3>1, ConstantFacts
           DEF ReadResync, Flush, Send, LoopResult, LoopError, TakeQueued, LeaveLoop,
               Goto, Owning, IInv, TypeOK
      <4> QED BY <4>1 DEF Act
    <3>2. CASE LoopStopped(m)
      BY <1>1, <3>2, ConstantFacts DEF LoopStopped, Orderly, LInv, Marked
    <3>3. CASE LoopClosed(m) \/ DropQueued(m)
      <4>1. closed /\ closed' = closed
        BY <3>3 DEF LoopClosed, DropQueued, agentVars
      <4> QED BY <4>1 DEF Orderly
    <3>4. CASE Unlock(m)
      <4>1. pc'[m] = "alive" \/ "compress" \in lapses'
        BY <3>4, ConstantFacts DEF Unlock, Goto, IInv, TypeOK
      <4> QED BY <4>1 DEF Act, Orderly
    <3>5. CASE ReadAlive(m)
      <4>1. pc'[m] = "stop" \/ closed \/ stopped \/ resync
        BY <3>5, ConstantFacts DEF ReadAlive, CallStop, Goto, IInv, TypeOK
      <4>2. UNCHANGED <<closed, resync>> /\ pc'[Halt] = pc[Halt]
        BY <1>1, <3>5, ConstantFacts DEF ReadAlive, agentVars, stateVars
      <4> QED BY <4>1, <4>2 DEF Act, Orderly, LInv, Marked
    <3> QED BY <1>3, <3>1, <3>2, <3>3, <3>4, <3>5 DEF Turn
  <2>3. pc[m] # "done"
    BY <1>1 DEF Owning
  <2> QED BY <1>1, <2>1, <2>2, <2>3, ListensStep DEF IInv
<1> QED BY <1>2, <1>3

LEMMA ReaderListens ==
  ASSUME IInv, LInv, NEW r \in Msgs, Reader(r)
  PROVE  LInv'
<1>1. /\ UNCHANGED <<pc, reg, cancelled, stopped, closed, lapses>>
      /\ Running(r)
      /\ \A x \in Msgs \ {r} : reader'[x] = reader[x]
  BY DEF Reader, ReaderCancelled, ReaderReceive, ReaderClosed, ReaderCheck, ReaderRelay,
         stopVars, agentVars, stateVars, Running, IInv, TypeOK
<1>2. Once'
  BY <1>1 DEF LInv, Once, Running
<1>3. Current' /\ Marked'
  BY <1>1 DEF LInv, Current, Marked
<1>4. Heard'
  <2> SUFFICES ASSUME Orderly', Act' = {} PROVE reg # NoMsg /\ (Running(reg))'
    BY <1>1 DEF Heard
  <2>1. Clean /\ Act = {}
    BY <1>1 DEF Orderly, Clean, Act
  \* Nobody waits for a reader: the one that runs is the registered one.
  <2>2. r = reg
    BY <1>1, <2>1 DEF IInv, Owner, Known, Live, Waits, Act
  <2>3. r \notin cancelled
    BY <2>2 DEF LInv, Current
  <2>4. ~closed /\ ~resync'
    BY <1>1 DEF Orderly
  <2>5. reader'[r] \in {"wait", "got", "relay"}
    <3>1. ~ReaderCancelled(r) /\ ~ReaderClosed(r)
      BY <2>3, <2>4 DEF ReaderCancelled, ReaderClosed
    <3> QED BY <2>3, <2>4, <3>1 DEF Reader, ReaderReceive, ReaderCheck, ReaderRelay, IInv, TypeOK
  <2> QED BY <1>1, <2>2, <2>5, ConstantFacts DEF Running
<1> QED BY <1>2, <1>3, <1>4 DEF LInv

LEMMA OtherListens ==
  ASSUME IInv, LInv, Agent \/ HaltStep \/ UNCHANGED vars
  PROVE  LInv'
<1>1. /\ UNCHANGED <<reg, reader, cancelled>>
      /\ \A x \in Msgs : pc'[x] = pc[x]
  BY ConstantFacts
     DEF Agent, Answer, LateError, Background, AgentExit, HaltStep, HaltBegin, HaltMark,
         HaltDrop, HaltClose, CallStop, Goto, vars, stopVars, readerVars, IInv, TypeOK
<1>2. /\ Orderly' => Orderly
      /\ pc[Halt] # "idle" => pc'[Halt] # "idle"
      /\ stopped' => stopped \/ pc'[Halt] # "idle"
  <2>1. CASE Agent
    BY <2>1 DEF Agent, Answer, LateError, Background, AgentExit, Orderly, stateVars
  <2>2. CASE HaltStep
    <3>1. pc'[Halt] # "idle"
      BY <2>2, ConstantFacts
         DEF HaltStep, HaltBegin, HaltMark, HaltDrop, HaltClose, CallStop, Goto, IInv, TypeOK
    <3> QED BY <3>1 DEF Orderly
  <2>3. CASE UNCHANGED vars
    BY <2>3 DEF vars, stateVars, agentVars, Orderly
  <2> QED BY <2>1, <2>2, <2>3
<1>3. Act' = Act
  BY <1>1 DEF Act
<1> QED BY <1>1, <1>2, <1>3 DEF LInv, Once, Current, Marked, Heard, Running

LEMMA NextListens == IInv /\ LInv /\ [Next]_vars => LInv'
BY MessageListens, StopListens, TurnListens, ReaderListens, OtherListens DEF Next

\* After a turn that ended cleanly the agent is listened to until the next one,
\* for any number of messages, readers and events it emits unasked.
THEOREM EventsListening == Spec => []Listening
<1>1. IInv /\ LInv => Listening
  <2> SUFFICES ASSUME IInv, LInv, Orderly, \A m \in Msgs : pc[m] \in {"idle", "done"}
               PROVE  reg # NoMsg /\ reg \notin cancelled /\ Running(reg)
    BY DEF Listening, Orderly
  <2>1. Act = {}
    BY DEF Act, Owning
  <2> QED BY <2>1 DEF LInv, Current, Heard
<1> QED BY InitInv, NextInv, InitListens, NextListens, <1>1, PTL DEF Spec

=============================================================================
