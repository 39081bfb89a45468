-------------------------- MODULE TurnOutputProofs --------------------------
(***************************************************************************)
(* From the agent's process to the user's screen.  First, what the state   *)
(* of a session says about its process, for any number of writers and      *)
(* lines, any sizes of the pipes and the channel, and whatever the process *)
(* ignores.  Then, what has become of the agent's text when a turn ends,   *)
(* for any number of chunks, segments and timers, and whatever the         *)
(* platform can do and refuses.  The two share no variable.                *)
(***************************************************************************)
EXTENDS AgentProcess, Preview, SequenceTheorems, TLAPS

-----------------------------------------------------------------------------
(* The agent's process *)

\* The reader waits for the process before it says that the session is over, and
\* exec.Cmd.Wait does not return before everybody has closed the error output.
Waited ==
  /\ wait # "running" => ~HeldOpen("err")
  /\ reader \in {"failure", "end", "gone"} => wait = "returned"
  /\ ~alive <=> reader \in {"failure", "end", "gone"}
  /\ closed <=> reader = "gone"

\* Nothing is sent after the failure of the process.
ToldLast ==
  \A i \in 1 .. Len(events) :
    events[i] = "failure" => i = Len(events) /\ reader \in {"end", "gone"}

\* A line that was produced has been scanned, or is in the pipe.
Counted == produced = scanned + Len(out)

\* Whoever writes to the input holds its mutex.
Held ==
  /\ \A w \in Writers : writer[w] = "write" <=> mutex = w
  /\ reader = "write" <=> mutex = "reader"

SessionInv == TypeOK /\ Waited /\ ToldLast /\ Counted /\ Held

LEMMA PipeSizes ==
  /\ MaxLines \in Nat
  /\ PipeSize \in Nat /\ PipeSize > 0
  /\ Buffer \in Nat /\ Buffer > 0
  /\ \A w \in Writers : w # "reader" /\ w # "none"
BY AgentProcessAssumption

LEMMA SessionStart == Init => SessionInv
<1> SUFFICES ASSUME Init PROVE SessionInv
  OBVIOUS
<1>1. TypeOK
  <2>1. out \in Seq(Lines) /\ Len(out) = 0 /\ events \in Seq(Events) /\ Len(events) = 0
    BY DEF Init
  <2>2. writer \in [Writers -> {"idle", "lock", "write", "end"}]
    BY DEF Init
  <2>3. {apart, stdin, stdout, closed, alive, cancelled} \subseteq BOOLEAN
    BY DEF Init
  <2> QED BY <2>1, <2>2, <2>3, PipeSizes DEF Init, TypeOK, ReaderPcs
<1>2. Waited /\ ToldLast /\ Counted /\ Held
  BY PipeSizes DEF Init, Waited, HeldOpen, ToldLast, Counted, Held
<1> QED BY <1>1, <1>2 DEF SessionInv

-----------------------------------------------------------------------------
(* One lemma per group of steps *)

LEMMA ProcessInv ==
  ASSUME SessionInv,
         (\E line \in Lines : Produce(line)) \/ Ingest \/ Exit \/ HeirExits
           \/ ExitAtEof \/ ExitOnTerm \/ Killed \/ ContextEnds
  PROVE  SessionInv'
<1>1. CASE \E line \in Lines : Produce(line)
  <2>1. /\ out' \in Seq(Lines)
        /\ Len(out') = Len(out) + 1 /\ Len(out) < PipeSize
        /\ produced' = produced + 1 /\ produced < MaxLines
    BY <1>1 DEF Produce, SessionInv, TypeOK, Held
  <2>2. UNCHANGED <<proc, heirs, apart, inbox, stdin, stdout, wait, guard, reader,
                       scanned, events, closed, alive, mutex, writer, cancelled, closing>>
    BY <1>1 DEF Produce, procVars, inVars, outVars, readVars, writeVars
  <2>3. TypeOK'
    BY <2>1, <2>2, PipeSizes DEF SessionInv, TypeOK, ReaderPcs
  <2>4. Waited' /\ ToldLast'
    BY <2>1, <2>2 DEF SessionInv, Waited, HeldOpen, ToldLast
  <2>5. Counted'
    BY <2>1, <2>2 DEF SessionInv, TypeOK, Counted
  <2>6. Held'
    BY <2>1, <2>2, PipeSizes DEF SessionInv, TypeOK, Held
  <2> QED BY <2>3, <2>4, <2>5, <2>6 DEF SessionInv
<1>2. CASE Ingest
  <2>1. /\ inbox' = inbox - 1 /\ inbox > 0
    BY <1>2 DEF Ingest, SessionInv, TypeOK, Held
  <2>2. UNCHANGED <<proc, heirs, apart, stdin, out, produced, stdout, wait, guard,
                       reader, scanned, events, closed, alive, mutex, writer, cancelled,
                       closing>>
    BY <1>2 DEF Ingest, procVars, inVars, outVars, readVars, writeVars
  <2>3. TypeOK'
    BY <2>1, <2>2, PipeSizes DEF SessionInv, TypeOK, ReaderPcs
  <2>4. Waited' /\ ToldLast'
    BY <2>1, <2>2 DEF SessionInv, Waited, HeldOpen, ToldLast
  <2>5. Counted'
    BY <2>1, <2>2 DEF SessionInv, TypeOK, Counted
  <2>6. Held'
    BY <2>1, <2>2, PipeSizes DEF SessionInv, TypeOK, Held
  <2> QED BY <2>3, <2>4, <2>5, <2>6 DEF SessionInv
<1>3. ASSUME proc' \in {proc, "exited"}, heirs' \in SUBSET Outputs, apart' \in BOOLEAN,
             ~HeldOpen("err") => ~HeldOpen("err")',
             UNCHANGED procOnly
      PROVE  SessionInv'
  <2>1. UNCHANGED <<inbox, stdin, out, produced, stdout, wait, guard, reader, scanned, events,
                    closed, alive, mutex, writer, cancelled, closing>>
    BY <1>3 DEF procOnly, inVars, outVars, readVars, writeVars
  <2>2. TypeOK'
    BY <1>3, <2>1 DEF SessionInv, TypeOK
  <2>3. Waited' /\ ToldLast' /\ Counted' /\ Held'
    BY <1>3, <2>1 DEF SessionInv, Waited, HeldOpen, ToldLast, Counted, Held
  <2> QED BY <2>2, <2>3 DEF SessionInv
<1>4. ASSUME Die PROVE SessionInv'
  <2>1. heirs' \in SUBSET Outputs /\ apart' \in BOOLEAN
    BY <1>4 DEF Die
  <2>2. HeldOpen("err") /\ UNCHANGED procOnly /\ proc' = "exited"
    BY <1>4 DEF Die, HeldOpen
  <2> QED BY <1>3, <2>1, <2>2
<1>5. ASSUME NEW holders, Depart(holders) PROVE SessionInv'
  <2>1. /\ heirs' \in SUBSET Outputs /\ heirs' \subseteq heirs
        /\ apart' \in BOOLEAN /\ proc' = proc /\ UNCHANGED procOnly
    BY <1>5 DEF Depart, SessionInv, TypeOK
  <2> QED BY <1>3, <2>1 DEF HeldOpen
<1>6. ASSUME Exit \/ HeirExits \/ ExitAtEof \/ ExitOnTerm \/ Killed \/ ContextEnds
      PROVE  SessionInv'
  BY <1>4, <1>5, <1>6 DEF Exit, HeirExits, ExitAtEof, ExitOnTerm, Killed, Signalled, ContextEnds
<1> QED BY <1>1, <1>2, <1>6

LEMMA WaitInv ==
  ASSUME SessionInv, WaitStep \/ Guard
  PROVE  SessionInv'
<1>1. CASE WaitStep
  <2>1. /\ wait' \in {"closing", "returned"} /\ stdout' \in BOOLEAN
        /\ wait = "returned" => wait' = "returned"
        /\ ~HeldOpen("err") /\ ~HeldOpen("err")'
    BY <1>1 DEF WaitStep, procVars, WaitEnds, Waited, HeldOpen, SessionInv, TypeOK, Held
  <2>2. UNCHANGED <<proc, heirs, apart, inbox, stdin, out, produced, guard, reader,
                       scanned, events, closed, alive, mutex, writer, cancelled, closing>>
    BY <1>1 DEF WaitStep, WaitEnds, Waited, HeldOpen, procVars, inVars, outVars, readVars, writeVars
  <2>3. TypeOK'
    BY <2>1, <2>2, PipeSizes DEF SessionInv, TypeOK, ReaderPcs
  <2>4. Waited' /\ ToldLast'
    BY <2>1, <2>2 DEF SessionInv, Waited, HeldOpen, ToldLast
  <2>5. Counted'
    BY <2>1, <2>2 DEF SessionInv, TypeOK, Counted
  <2>6. Held'
    BY <2>1, <2>2, PipeSizes DEF SessionInv, TypeOK, Held
  <2> QED BY <2>3, <2>4, <2>5, <2>6 DEF SessionInv
<1>2. CASE Guard
  <2>1. /\ guard' \in {"watch", "grace", "gone"} /\ stdout' \in BOOLEAN
    BY <1>2 DEF Guard, SessionInv, TypeOK, Held
  <2>2. UNCHANGED <<proc, heirs, apart, inbox, stdin, out, produced, wait, reader,
                       scanned, events, closed, alive, mutex, writer, cancelled, closing>>
    BY <1>2 DEF Guard, procVars, inVars, outVars, readVars, writeVars
  <2>3. TypeOK'
    BY <2>1, <2>2, PipeSizes DEF SessionInv, TypeOK, ReaderPcs
  <2>4. Waited' /\ ToldLast'
    BY <2>1, <2>2 DEF SessionInv, Waited, HeldOpen, ToldLast
  <2>5. Counted'
    BY <2>1, <2>2 DEF SessionInv, TypeOK, Counted
  <2>6. Held'
    BY <2>1, <2>2, PipeSizes DEF SessionInv, TypeOK, Held
  <2> QED BY <2>3, <2>4, <2>5, <2>6 DEF SessionInv
<1> QED BY <1>1, <1>2

LEMMA ReaderInv ==
  ASSUME SessionInv, ReadLoop
  PROVE  SessionInv'
<1>1. CASE Scan
  <2>0. stdout /\ out # <<>> => Head(out) \in Lines
    BY HeadTailProperties DEF SessionInv, TypeOK
  <2>1. /\ reader = "scan" /\ reader' \in {"emit", "ask", "wait", "alarm"}
        /\ \/ out # <<>> /\ out' = Tail(out) /\ scanned' = scanned + 1
           \/ out' = out /\ scanned' = scanned
    BY <1>1, <2>0 DEF Scan, Alarm, Lines, Read, readOnly, ReaderPcs, SessionInv, TypeOK, Held
  <2>2. UNCHANGED <<proc, heirs, apart, inbox, stdin, produced, stdout, wait, guard,
                       events, closed, alive, mutex, writer, cancelled, closing>>
    BY <1>1, <2>0 DEF Scan, Alarm, Lines, Read, readOnly, ReaderPcs, procVars, inVars, outVars, readVars, writeVars
  <2>3. /\ out' \in Seq(Lines) /\ Len(out') <= PipeSize
        /\ scanned' \in Nat /\ scanned' + Len(out') = scanned + Len(out)
    <3>1. CASE out # <<>> /\ out' = Tail(out) /\ scanned' = scanned + 1
      <4>1. Tail(out) \in Seq(Lines) /\ Len(Tail(out)) = Len(out) - 1 /\ Len(out) \in Nat
        BY <3>1, HeadTailProperties DEF SessionInv, TypeOK
      <4> QED BY <3>1, <4>1, PipeSizes DEF SessionInv, TypeOK
    <3>2. CASE out' = out /\ scanned' = scanned
      BY <3>2 DEF SessionInv, TypeOK
    <3> QED BY <2>1, <3>1, <3>2
  <2>4. TypeOK'
    BY <2>1, <2>2, <2>3, PipeSizes DEF SessionInv, TypeOK, Counted, ReaderPcs
  <2>5. Waited' /\ ToldLast'
    BY <2>1, <2>2 DEF SessionInv, Waited, HeldOpen, ToldLast
  <2>6. Counted'
    BY <2>1, <2>2, <2>3 DEF SessionInv, TypeOK, Counted
  <2>7. Held'
    BY <2>1, <2>2, PipeSizes DEF SessionInv, TypeOK, Held
  <2> QED BY <2>4, <2>5, <2>6, <2>7 DEF SessionInv
<1>2. CASE Emit
  <2>1. /\ reader \in {"emit", "alarm", "failure"}
        /\ reader' \in {"scan", "wait", "end"}
        /\ reader = "failure" <=> reader' = "end"
        /\ \/ events' = events
           \/ /\ Len(events) < Buffer
              /\ \E event \in Events : /\ event = "failure" => reader = "failure"
                                    /\ events' = Append(events, event)
    BY <1>2 DEF Events, Emit, Read, readOnly, ReaderPcs, SessionInv, TypeOK, Held
  <2>2. UNCHANGED <<proc, heirs, apart, inbox, stdin, out, produced, stdout, wait,
                       guard, scanned, closed, alive, mutex, writer, cancelled, closing>>
    BY <1>2 DEF Events, Emit, Read, readOnly, ReaderPcs, procVars, inVars, outVars, readVars, writeVars
  <2>3. /\ events' \in Seq(Events) /\ Len(events') <= Buffer
        /\ Len(events') \in {Len(events), Len(events) + 1}
        /\ \A i \in 1 .. Len(events) : events'[i] = events[i]
        /\ Len(events') # Len(events) /\ events'[Len(events')] = "failure" => reader = "failure"
    <3>1. CASE events' = events
      BY <3>1 DEF SessionInv, TypeOK
    <3>2. CASE Len(events) < Buffer /\ \E event \in Events :
                 (event = "failure" => reader = "failure") /\ events' = Append(events, event)
      <4>1. PICK event \in Events :
              (event = "failure" => reader = "failure") /\ events' = Append(events, event)
        BY <3>2
      <4>2. events \in Seq(Events) /\ Len(events) \in Nat
        BY DEF SessionInv, TypeOK
      <4>3. /\ events' \in Seq(Events) /\ Len(events') = Len(events) + 1
            /\ \A i \in 1 .. Len(events) : events'[i] = events[i]
            /\ events'[Len(events')] = event
        BY <4>1, <4>2
      <4> QED BY <3>2, <4>1, <4>2, <4>3, PipeSizes
    <3> QED BY <2>1, <3>1, <3>2
  <2>4. TypeOK'
    BY <2>1, <2>2, <2>3 DEF SessionInv, TypeOK, ReaderPcs
  <2>5. Waited'
    BY <2>1, <2>2 DEF SessionInv, Waited, HeldOpen
  <2>6. ToldLast'
    <3> SUFFICES ASSUME NEW i \in 1 .. Len(events'), events'[i] = "failure"
                 PROVE  i = Len(events') /\ reader' \in {"end", "gone"}
      BY DEF ToldLast
    <3>1. i \notin 1 .. Len(events)
      BY <2>1, <2>3 DEF SessionInv, ToldLast
    <3>2. Len(events) \in Nat /\ Len(events') \in Nat
      BY <2>3 DEF SessionInv, TypeOK
    <3>3. i = Len(events') /\ Len(events') > Len(events)
      BY <2>3, <3>1, <3>2
    <3> QED BY <2>1, <2>3, <3>3
  <2>7. Counted'
    BY <2>1, <2>2 DEF SessionInv, TypeOK, Counted
  <2>8. Held'
    BY <2>1, <2>2, PipeSizes DEF SessionInv, TypeOK, Held
  <2> QED BY <2>4, <2>5, <2>6, <2>7, <2>8 DEF SessionInv
<1>3. CASE Answer
  <2>1. /\ reader = "ask" /\ mutex = "none"
        /\ reader' = "write" /\ mutex' = "reader"
    BY <1>3 DEF Answer, Read, readOnly, SessionInv, TypeOK, Held
  <2>2. UNCHANGED <<proc, heirs, apart, inbox, stdin, out, produced, stdout, wait,
                       guard, scanned, events, closed, alive, writer, cancelled, closing>>
    BY <1>3 DEF Answer, Read, readOnly, procVars, inVars, outVars, readVars, writeVars
  <2>3. TypeOK'
    BY <2>1, <2>2, PipeSizes DEF SessionInv, TypeOK, ReaderPcs
  <2>4. Waited' /\ ToldLast'
    BY <2>1, <2>2 DEF SessionInv, Waited, HeldOpen, ToldLast
  <2>5. Counted'
    BY <2>1, <2>2 DEF SessionInv, TypeOK, Counted
  <2>6. Held'
    BY <2>1, <2>2, PipeSizes DEF SessionInv, TypeOK, Held
  <2> QED BY <2>3, <2>4, <2>5, <2>6 DEF SessionInv
<1>4. CASE ReaderWrites
  <2>1. /\ reader = "write" /\ mutex = "reader"
        /\ reader' = "scan" /\ mutex' = "none"
        /\ inbox' \in 0 .. PipeSize
    BY <1>4, PipeSizes DEF ReaderWrites, Put, Writable, ReaderPcs, SessionInv, TypeOK, Held
  <2>2. UNCHANGED <<proc, heirs, apart, stdin, out, produced, stdout, wait, guard,
                       scanned, events, closed, alive, writer, cancelled, closing>>
    BY <1>4 DEF ReaderWrites, Put, Writable, ReaderPcs, procVars, inVars, outVars, readVars, writeVars
  <2>3. TypeOK'
    BY <2>1, <2>2, PipeSizes DEF SessionInv, TypeOK, ReaderPcs
  <2>4. Waited' /\ ToldLast'
    BY <2>1, <2>2 DEF SessionInv, Waited, HeldOpen, ToldLast
  <2>5. Counted'
    BY <2>1, <2>2 DEF SessionInv, TypeOK, Counted
  <2>6. Held'
    BY <2>1, <2>2, PipeSizes DEF SessionInv, TypeOK, Held
  <2> QED BY <2>3, <2>4, <2>5, <2>6 DEF SessionInv
<1>5. CASE FinishReadLoop
  <2>1. /\ wait = "returned" /\ mutex # "reader" /\ alive' \in BOOLEAN
        /\ \/ reader = "wait" /\ ~alive' /\ closed' = closed
              /\ reader' \in {"end", "failure"}
           \/ reader = "end" /\ alive' = alive /\ closed' = TRUE /\ reader' = "gone"
    BY <1>5 DEF FinishReadLoop, Read, readOnly, Waited, HeldOpen, SessionInv, TypeOK, Held
  <2>2. UNCHANGED <<proc, heirs, apart, inbox, stdin, out, produced, stdout, wait,
                       guard, scanned, events, mutex, writer, cancelled, closing>>
    BY <1>5 DEF FinishReadLoop, Read, readOnly, Waited, HeldOpen, procVars, inVars, outVars, readVars, writeVars
  <2>3. reader' \in ReaderPcs /\ alive' \in BOOLEAN /\ closed' \in BOOLEAN
    BY <2>1 DEF SessionInv, TypeOK, ReaderPcs
  <2>4. TypeOK'
    BY <2>2, <2>3, PipeSizes DEF SessionInv, TypeOK
  <2>5. Waited' /\ ToldLast'
    BY <2>1, <2>2 DEF SessionInv, Waited, HeldOpen, ToldLast
  <2>6. Counted'
    BY <2>1, <2>2 DEF SessionInv, TypeOK, Counted
  <2>7. Held'
    BY <2>1, <2>2, PipeSizes DEF SessionInv, TypeOK, Held
  <2> QED BY <2>4, <2>5, <2>6, <2>7 DEF SessionInv
<1> QED BY <1>1, <1>2, <1>3, <1>4, <1>5 DEF ReadLoop

LEMMA WriterInv ==
  ASSUME SessionInv, NEW w \in Writers, Send(w) \/ Writing(w)
  PROVE  SessionInv'
<1>1. CASE Send(w)
  <2>1. /\ writer[w] = "idle" /\ \E to \in {"lock", "end"} : writer' = [writer EXCEPT ![w] = to]
    BY <1>1 DEF Send, Go, writeOnly, SessionInv, TypeOK, Held
  <2>2. UNCHANGED <<proc, heirs, apart, inbox, stdin, out, produced, stdout, wait,
                       guard, reader, scanned, events, closed, alive, mutex, cancelled, closing>>
    BY <1>1 DEF Send, Go, writeOnly, procVars, inVars, outVars, readVars, writeVars
  <2>3. TypeOK'
    BY <2>1, <2>2, PipeSizes DEF SessionInv, TypeOK, ReaderPcs
  <2>4. Waited' /\ ToldLast'
    BY <2>1, <2>2 DEF SessionInv, Waited, HeldOpen, ToldLast
  <2>5. Counted'
    BY <2>1, <2>2 DEF SessionInv, TypeOK, Counted
  <2>6. Held'
    BY <2>1, <2>2, PipeSizes DEF SessionInv, TypeOK, Held
  <2> QED BY <2>3, <2>4, <2>5, <2>6 DEF SessionInv
<1>2. CASE Lock(w)
  <2>1. /\ writer[w] = "lock" /\ writer' = [writer EXCEPT ![w] = "write"]
        /\ mutex = "none" /\ mutex' = w
    BY <1>2 DEF Lock, Go, writeOnly, SessionInv, TypeOK, Held
  <2>2. UNCHANGED <<proc, heirs, apart, inbox, stdin, out, produced, stdout, wait,
                       guard, reader, scanned, events, closed, alive, cancelled, closing>>
    BY <1>2 DEF Lock, Go, writeOnly, procVars, inVars, outVars, readVars, writeVars
  <2>3. TypeOK'
    BY <2>1, <2>2, PipeSizes DEF SessionInv, TypeOK, ReaderPcs
  <2>4. Waited' /\ ToldLast'
    BY <2>1, <2>2 DEF SessionInv, Waited, HeldOpen, ToldLast
  <2>5. Counted'
    BY <2>1, <2>2 DEF SessionInv, TypeOK, Counted
  <2>6. Held'
    BY <2>1, <2>2, PipeSizes DEF SessionInv, TypeOK, Held
  <2> QED BY <2>3, <2>4, <2>5, <2>6 DEF SessionInv
<1>3. CASE Write(w)
  <2>1. /\ writer[w] = "write" /\ writer' = [writer EXCEPT ![w] = "end"]
        /\ mutex = w /\ mutex' = "none"
        /\ inbox' \in 0 .. PipeSize
    BY <1>3, PipeSizes DEF Write, Go, Put, Writable, writeOnly, SessionInv, TypeOK, Held
  <2>2. UNCHANGED <<proc, heirs, apart, stdin, out, produced, stdout, wait, guard,
                       reader, scanned, events, closed, alive, cancelled, closing>>
    BY <1>3 DEF Write, Go, Put, Writable, writeOnly, procVars, inVars, outVars, readVars, writeVars
  <2>3. TypeOK'
    BY <2>1, <2>2, PipeSizes DEF SessionInv, TypeOK, ReaderPcs
  <2>4. Waited' /\ ToldLast'
    BY <2>1, <2>2 DEF SessionInv, Waited, HeldOpen, ToldLast
  <2>5. Counted'
    BY <2>1, <2>2 DEF SessionInv, TypeOK, Counted
  <2>6. Held'
    BY <2>1, <2>2, PipeSizes DEF SessionInv, TypeOK, Held
  <2> QED BY <2>3, <2>4, <2>5, <2>6 DEF SessionInv
<1> QED BY <1>1, <1>2, <1>3 DEF Writing

LEMMA EngineInv ==
  ASSUME SessionInv, Receive \/ Cancel \/ CloseCalled \/ CloseSteps
  PROVE  SessionInv'
<1>1. CASE Receive
  <2>1. /\ events # <<>> /\ events' = Tail(events)
    BY <1>1 DEF Receive, SessionInv, TypeOK, Held
  <2>2. UNCHANGED <<proc, heirs, apart, inbox, stdin, out, produced, stdout, wait,
                       guard, reader, scanned, closed, alive, mutex, writer, cancelled, closing>>
    BY <1>1 DEF Receive, procVars, inVars, outVars, readVars, writeVars
  <2>3. /\ events' \in Seq(Events)
        /\ Len(events') = Len(events) - 1 /\ Len(events) \in Nat \ {0}
        /\ \A i \in 1 .. Len(events') : events'[i] = events[i + 1]
    BY <2>1 DEF SessionInv, TypeOK
  <2>4. TypeOK'
    BY <2>2, <2>3, PipeSizes DEF SessionInv, TypeOK
  <2>5. Waited'
    BY <2>2 DEF SessionInv, Waited, HeldOpen
  <2>6. ToldLast'
    <3> SUFFICES ASSUME NEW i \in 1 .. Len(events'), events'[i] = "failure"
                 PROVE  i = Len(events') /\ reader' \in {"end", "gone"}
      BY DEF ToldLast
    <3>1. i + 1 \in 1 .. Len(events) /\ events[i + 1] = "failure"
      BY <2>3
    <3> QED BY <2>2, <2>3, <3>1 DEF SessionInv, ToldLast
  <2>7. Counted'
    BY <2>1, <2>2 DEF SessionInv, TypeOK, Counted
  <2>8. Held'
    BY <2>1, <2>2, PipeSizes DEF SessionInv, TypeOK, Held
  <2> QED BY <2>4, <2>5, <2>6, <2>7, <2>8 DEF SessionInv
<1>2. CASE Cancel
  <2>1. /\ cancelled' = TRUE
    BY <1>2 DEF Cancel, SessionInv, TypeOK, Held
  <2>2. UNCHANGED <<proc, heirs, apart, inbox, stdin, out, produced, stdout, wait,
                       guard, reader, scanned, events, closed, alive, mutex, writer, closing>>
    BY <1>2 DEF Cancel, procVars, inVars, outVars, readVars, writeVars
  <2>3. TypeOK'
    BY <2>1, <2>2, PipeSizes DEF SessionInv, TypeOK, ReaderPcs
  <2>4. Waited' /\ ToldLast'
    BY <2>1, <2>2 DEF SessionInv, Waited, HeldOpen, ToldLast
  <2>5. Counted'
    BY <2>1, <2>2 DEF SessionInv, TypeOK, Counted
  <2>6. Held'
    BY <2>1, <2>2, PipeSizes DEF SessionInv, TypeOK, Held
  <2> QED BY <2>3, <2>4, <2>5, <2>6 DEF SessionInv
<1>3. CASE CloseCalled
  <2>1. /\ closing' = "lock"
    BY <1>3 DEF CloseCalled, Close, closeOnly, SessionInv, TypeOK, Held
  <2>2. UNCHANGED <<proc, heirs, apart, inbox, stdin, out, produced, stdout, wait,
                       guard, reader, scanned, events, closed, alive, mutex, writer, cancelled>>
    BY <1>3 DEF CloseCalled, Close, closeOnly, procVars, inVars, outVars, readVars, writeVars
  <2>3. TypeOK'
    BY <2>1, <2>2, PipeSizes DEF SessionInv, TypeOK, ReaderPcs
  <2>4. Waited' /\ ToldLast'
    BY <2>1, <2>2 DEF SessionInv, Waited, HeldOpen, ToldLast
  <2>5. Counted'
    BY <2>1, <2>2 DEF SessionInv, TypeOK, Counted
  <2>6. Held'
    BY <2>1, <2>2, PipeSizes DEF SessionInv, TypeOK, Held
  <2> QED BY <2>3, <2>4, <2>5, <2>6 DEF SessionInv
<1>4. CASE CloseSteps
  <2>1. /\ closing' \in {"graceful", "term", "kill", "refused", "returned"}
        /\ stdin' \in BOOLEAN /\ cancelled' \in BOOLEAN
    BY <1>4 DEF CloseSteps, Close, closeOnly, SessionInv, TypeOK, Held
  <2>2. UNCHANGED <<proc, heirs, apart, inbox, out, produced, stdout, wait, guard,
                       reader, scanned, events, closed, alive, mutex, writer>>
    BY <1>4 DEF CloseSteps, Close, closeOnly, procVars, inVars, outVars, readVars, writeVars
  <2>3. TypeOK'
    BY <2>1, <2>2, PipeSizes DEF SessionInv, TypeOK, ReaderPcs
  <2>4. Waited' /\ ToldLast'
    BY <2>1, <2>2 DEF SessionInv, Waited, HeldOpen, ToldLast
  <2>5. Counted'
    BY <2>1, <2>2 DEF SessionInv, TypeOK, Counted
  <2>6. Held'
    BY <2>1, <2>2, PipeSizes DEF SessionInv, TypeOK, Held
  <2> QED BY <2>3, <2>4, <2>5, <2>6 DEF SessionInv
<1> QED BY <1>1, <1>2, <1>3, <1>4

LEMMA SessionNext == SessionInv /\ [Next]_vars => SessionInv'
<1> SUFFICES ASSUME SessionInv, [Next]_vars PROVE SessionInv'
  OBVIOUS
<1>1. CASE Next
  <2>1. CASE (\E line \in Lines : Produce(line)) \/ Ingest \/ Exit \/ HeirExits
               \/ ExitAtEof \/ ExitOnTerm \/ Killed \/ ContextEnds
    BY <2>1, ProcessInv
  <2>2. CASE WaitStep \/ Guard
    BY <2>2, WaitInv
  <2>3. CASE ReadLoop
    BY <2>3, ReaderInv
  <2>4. ASSUME NEW w \in Writers, Send(w) \/ Writing(w) PROVE SessionInv'
    BY <2>4, WriterInv
  <2>5. CASE Receive \/ Cancel \/ CloseCalled \/ CloseSteps
    BY <2>5, EngineInv
  <2> QED BY <1>1, <2>1, <2>2, <2>3, <2>4, <2>5 DEF Next
<1>2. CASE UNCHANGED vars
  BY <1>2 DEF vars, procVars, inVars, outVars, readVars, writeVars, SessionInv, TypeOK, Waited, HeldOpen,
              ToldLast, Counted, Held
<1> QED BY <1>1, <1>2

\* Every reachable state is well formed: no pipe and no channel holds more than
\* it has room for.
THEOREM SessionTypeCorrect == Spec => []TypeOK
<1>1. SessionInv => TypeOK
  BY DEF SessionInv
<1> QED BY SessionStart, SessionNext, <1>1, PTL DEF Spec

\* A session that is not alive, or whose events are closed, has no process any
\* more, and no descendant of one that holds its error output.
THEOREM SessionNoTwin == Spec => []NoTwin
<1>1. SessionInv => NoTwin
  BY DEF SessionInv, Waited, HeldOpen, NoTwin
<1> QED BY SessionStart, SessionNext, <1>1, PTL DEF Spec

\* The failure of the process is the last event, and finds the session dead.
THEOREM SessionLastWord == Spec => []LastWord
<1>1. SessionInv => LastWord
  BY DEF SessionInv, Waited, HeldOpen, ToldLast, LastWord
<1> QED BY SessionStart, SessionNext, <1>1, PTL DEF Spec

-----------------------------------------------------------------------------
(* Previews and messages *)

Message == [text : SUBSET Chunks, final : BOOLEAN, kept : BOOLEAN, gone : BOOLEAN]
View == [handle : Nat, degraded : BOOLEAN, full : SUBSET Chunks,
         last : SUBSET Chunks, viaUpdate : BOOLEAN, timer : Nat]

\* A preview and the messages it lives among.
Shape(s, ms) ==
  s \in View /\ ms \in Seq(Message) /\ s.handle \in 0 .. Len(ms)

\* From ms to ns, only the preview's own message is edited; others are added.
Touches(s, ms, ns) ==
  /\ ns \in Seq(Message) /\ Len(ns) >= Len(ms)
  /\ \A i \in 1 .. Len(ms) : i # s.handle => ns[i] = ms[i]

\* The preview's message is not one that was left to the user, and a preview
\* that has none has shown nothing, unless it has been given up ...
Ready(s, ms) ==
  /\ s.handle # 0 => ~ms[s.handle].kept
  /\ s.handle = 0 /\ ~s.degraded => s.last = {}

\* ... and has nothing to show.
Owned(s, ms) ==
  /\ Ready(s, ms)
  /\ s.handle = 0 /\ ~s.degraded => Cut(s.full) = {}

\* What was last shown by an update is what the message says.
Mirrors(s, ms) ==
  s.handle # 0 /\ ~s.degraded /\ s.viaUpdate => ms[s.handle].text = s.last

LEMMA CutWithin ==
  ASSUME NEW text \in SUBSET Chunks
  PROVE  Cut(text) \in SUBSET Chunks /\ Cut(text) \subseteq text
BY DEF Cut

LEMMA PostedFacts ==
  ASSUME NEW ms \in Seq(Message), NEW text \in SUBSET Chunks
  PROVE  /\ Posted(ms, text) \in Seq(Message)
         /\ Len(Posted(ms, text)) = Len(ms) + 1
         /\ \A i \in 1 .. Len(ms) : Posted(ms, text)[i] = ms[i]
         /\ Posted(ms, text)[Len(ms) + 1] =
              [text |-> text, final |-> FALSE, kept |-> FALSE, gone |-> FALSE]
<1> DEFINE m == [text |-> text, final |-> FALSE, kept |-> FALSE, gone |-> FALSE]
<1>1. m \in Message
  BY DEF Message
<1> HIDE DEF m
<1>2. /\ Append(ms, m) \in Seq(Message) /\ Len(Append(ms, m)) = Len(ms) + 1
      /\ \A i \in 1 .. Len(ms) : Append(ms, m)[i] = ms[i]
      /\ Append(ms, m)[Len(ms) + 1] = m
  BY <1>1
<1> QED BY <1>2 DEF Posted, m

LEMMA EditFacts ==
  ASSUME NEW ms \in Seq(Message), NEW h \in 1 .. Len(ms), NEW m \in Message
  PROVE  /\ [ms EXCEPT ![h] = m] \in Seq(Message)
         /\ Len([ms EXCEPT ![h] = m]) = Len(ms)
         /\ \A i \in 1 .. Len(ms) :
              [ms EXCEPT ![h] = m][i] = IF i = h THEN m ELSE ms[i]
OBVIOUS

LEMMA SentFacts ==
  ASSUME NEW ms \in Seq(Message), NEW text \in SUBSET Chunks
  PROVE  /\ Sent(ms, text) \in Seq(Message)
         /\ Len(Sent(ms, text)) = IF text = {} THEN Len(ms) ELSE Len(ms) + 1
         /\ \A i \in 1 .. Len(ms) : Sent(ms, text)[i] = ms[i]
         /\ text # {} =>
              /\ Sent(ms, text)[Len(ms) + 1].text = text
              /\ Sent(ms, text)[Len(ms) + 1].final
              /\ ~Sent(ms, text)[Len(ms) + 1].gone
<1>1. CASE text = {}
  BY <1>1 DEF Sent
<1>2. CASE text # {}
  <2> DEFINE ns == Posted(ms, text)
             n == Len(ms) + 1
             m == [ns[n] EXCEPT !.final = TRUE]
  <2>1. /\ ns \in Seq(Message) /\ Len(ns) = n
        /\ \A i \in 1 .. Len(ms) : ns[i] = ms[i]
        /\ ns[n] = [text |-> text, final |-> FALSE, kept |-> FALSE, gone |-> FALSE]
    BY PostedFacts
  <2>2. n \in 1 .. Len(ns) /\ Len(ms) \in Nat
    BY <2>1
  <2>3. Sent(ms, text) = [ns EXCEPT ![n] = m]
    BY <1>2 DEF Sent
  <2> HIDE DEF ns
  <2>4. m \in Message /\ m.text = text /\ m.final /\ ~m.gone
    <3>1. ns[n] \in Message /\ ns[n].text = text /\ ~ns[n].gone
      BY <2>1, <2>2
    <3> QED BY <3>1 DEF Message
  <2> HIDE DEF m
  <2>5. /\ [ns EXCEPT ![n] = m] \in Seq(Message)
        /\ Len([ns EXCEPT ![n] = m]) = Len(ns)
        /\ \A i \in 1 .. Len(ns) :
             [ns EXCEPT ![n] = m][i] = IF i = n THEN m ELSE ns[i]
    BY <2>1, <2>2, <2>4, EditFacts
  <2>6. \A i \in 1 .. Len(ms) : i \in 1 .. Len(ns) /\ i # n
    BY <2>1, <2>2
  <2>7. Sent(ms, text)[n] = m
    BY <2>2, <2>3, <2>5
  <2> QED BY <1>2, <2>1, <2>3, <2>4, <2>5, <2>6, <2>7
<1> QED BY <1>1, <1>2

\* What an update leaves: the message edited, or everything as it was.
Edited(ms, h, text, final, u) ==
  /\ u[1] \in BOOLEAN
  /\ u[2] \in Seq(Message) /\ Len(u[2]) = Len(ms)
  /\ \A i \in 1 .. Len(ms) : i # h => u[2][i] = ms[i]
  /\ u[2][h].kept = ms[h].kept /\ u[2][h].gone = ms[h].gone
  /\ u[1] => u[2][h].text = text /\ u[2][h].final = final

LEMMA UpdateFacts ==
  ASSUME NEW ms \in Seq(Message), NEW h \in 1 .. Len(ms),
         NEW text \in SUBSET Chunks, NEW final \in BOOLEAN,
         NEW u \in Update(ms, h, text, final)
  PROVE  Edited(ms, h, text, final, u)
<1> DEFINE m == [[ms[h] EXCEPT !.text = text] EXCEPT !.final = final]
<1>1. ms[h] \in Message
  OBVIOUS
<1>2. m \in Message /\ m.text = text /\ m.final = final
      /\ m.kept = ms[h].kept /\ m.gone = ms[h].gone
  BY <1>1 DEF Message
<1>3. [ms EXCEPT ![h].text = text, ![h].final = final] = [ms EXCEPT ![h] = m]
  OBVIOUS
<1> HIDE DEF m
<1>4. CASE u = <<FALSE, ms>>
  BY <1>4 DEF Edited
<1>5. CASE u = <<TRUE, [ms EXCEPT ![h] = m]>>
  BY <1>2, <1>5, EditFacts DEF Edited
<1> QED BY <1>3, <1>4, <1>5 DEF Update, Only

LEMMA DeletedFacts ==
  ASSUME NEW ms \in Seq(Message), NEW h \in 0 .. Len(ms)
  PROVE  /\ Deleted(ms, h) \in Seq(Message) /\ Len(Deleted(ms, h)) = Len(ms)
         /\ \A i \in 1 .. Len(ms) : i # h => Deleted(ms, h)[i] = ms[i]
         /\ h # 0 => Deleted(ms, h)[h].kept = ms[h].kept
         /\ h # 0 /\ "clean" \in caps => Deleted(ms, h)[h].gone
<1>1. CASE h # 0 /\ "clean" \in caps
  <2> DEFINE m == [ms[h] EXCEPT !.gone = TRUE]
  <2>1. ms[h] \in Message /\ h \in 1 .. Len(ms)
    BY <1>1
  <2>2. m \in Message /\ m.kept = ms[h].kept /\ m.gone
    BY <2>1 DEF Message
  <2>3. Deleted(ms, h) = [ms EXCEPT ![h] = m]
    BY <1>1 DEF Deleted
  <2> HIDE DEF m
  <2> QED BY <2>1, <2>2, <2>3, EditFacts
<1>2. CASE ~(h # 0 /\ "clean" \in caps)
  BY <1>2 DEF Deleted
<1> QED BY <1>1, <1>2

\* While the turn runs, every message is there, and is one that stays, one of
\* the segments that have ended, or the preview's.
Placed(s, ms, n) ==
  \A i \in 1 .. Len(ms) :
    /\ ~ms[i].gone
    /\ ms[i].kept \/ ms[i].text \subseteq 1 .. n \/ i = s.handle

\* A chunk is in a message that is not the preview's.
Seen(c, s, ms) == \E i \in 1 .. Len(ms) : i # s.handle /\ c \in ms[i].text

LEMMA UntimedFacts ==
  ASSUME NEW s \in View
  PROVE  /\ Untimed(s) \in View /\ Untimed(s).timer = 0
         /\ Untimed(s).handle = s.handle /\ Untimed(s).degraded = s.degraded
         /\ Untimed(s).full = s.full /\ Untimed(s).last = s.last
         /\ Untimed(s).viaUpdate = s.viaUpdate
         /\ Degraded(s) \in View /\ Degraded(s).degraded
         /\ Degraded(s).handle = s.handle /\ Degraded(s).timer = s.timer
         /\ Degraded(s).full = s.full /\ Degraded(s).last = s.last
BY DEF View, Untimed, Degraded

LEMMA FlushFacts ==
  ASSUME NEW s, NEW ms, Shape(s, ms), Ready(s, ms), NEW r \in Flush(s, ms)
  PROVE  /\ Shape(r[1], r[2]) /\ Owned(r[1], r[2]) /\ Touches(s, ms, r[2])
         /\ r[1].timer = s.timer /\ r[1].full = s.full
         /\ s.handle # 0 \/ Cut(s.full) = s.last => Len(r[2]) = Len(ms)
         /\ Mirrors(s, ms) => Mirrors(r[1], r[2])
         /\ \A n \in Nat : Placed(s, ms, n) => Placed(r[1], r[2], n)
         /\ \A c : Seen(c, s, ms) => Seen(c, r[1], r[2])
<1> DEFINE text == Cut(s.full)
<1>0. s \in View /\ ms \in Seq(Message) /\ s.handle \in 0 .. Len(ms) /\ Len(ms) \in Nat
  BY DEF Shape
<1>t. text \in SUBSET Chunks /\ s.full \in SUBSET Chunks
  BY <1>0, CutWithin DEF View
<1> HIDE DEF text
<1>1. CASE r = <<s, ms>> /\ text = s.last
  BY <1>0, <1>1 DEF Owned, Ready, Touches, text
<1>2. CASE r = <<Degraded(s), ms>>
  <2>1. /\ Degraded(s) \in View /\ Degraded(s).degraded
        /\ Degraded(s).handle = s.handle /\ Degraded(s).timer = s.timer
        /\ Degraded(s).full = s.full
    BY <1>0, UntimedFacts
  <2> QED BY <1>0, <1>2, <2>1 DEF Shape, Owned, Ready, Touches, Mirrors, Placed, Seen
<1>3. CASE /\ s.handle = 0 /\ text # s.last
           /\ r = <<[s EXCEPT !.handle = Len(ms) + 1, !.last = text,
                              !.viaUpdate = FALSE], Posted(ms, text)>>
  <2> DEFINE v == [s EXCEPT !.handle = Len(ms) + 1, !.last = text,
                            !.viaUpdate = FALSE]
             ns == Posted(ms, text)
  <2>1. /\ v \in View /\ v.handle = Len(ms) + 1 /\ ~v.viaUpdate
        /\ v.timer = s.timer /\ v.full = s.full
    <3>1. Len(ms) + 1 \in Nat
      BY <1>0
    <3> QED BY <1>0, <1>t, <3>1 DEF View
  <2>2. /\ ns \in Seq(Message) /\ Len(ns) = Len(ms) + 1
        /\ \A i \in 1 .. Len(ms) : ns[i] = ms[i]
        /\ ns[Len(ms) + 1] =
             [text |-> text, final |-> FALSE, kept |-> FALSE, gone |-> FALSE]
    BY <1>0, <1>t, PostedFacts
  <2>3. r[1] = v /\ r[2] = ns
    BY <1>3
  <2> HIDE DEF v, ns
  <2>4. Shape(v, ns) /\ Touches(s, ms, ns)
    BY <1>0, <2>1, <2>2 DEF Shape, Touches
  <2>5. v.handle # 0 /\ ~ns[v.handle].kept /\ ~ns[v.handle].gone
    BY <1>0, <2>1, <2>2
  <2>6. Owned(v, ns) /\ Mirrors(v, ns)
    BY <2>1, <2>5 DEF Owned, Ready, Mirrors
  <2>7. ASSUME NEW n \in Nat, Placed(s, ms, n)
        PROVE  Placed(v, ns, n)
    <3>1. \A i \in 1 .. Len(ns) : i \in 1 .. Len(ms) \/ i = v.handle
      BY <1>0, <2>1, <2>2
    <3> QED BY <1>3, <2>2, <2>5, <2>7, <3>1, <1>0 DEF Placed
  <2>8. \A c : Seen(c, s, ms) => Seen(c, v, ns)
    <3>1. \A i \in 1 .. Len(ms) : i \in 1 .. Len(ns) /\ i # v.handle
      BY <1>0, <2>1, <2>2
    <3> QED BY <2>2, <3>1 DEF Seen
  <2> QED BY <1>3, <2>1, <2>3, <2>4, <2>6, <2>7, <2>8 DEF text
<1>4. CASE /\ s.handle # 0
           /\ \E u \in Update(ms, s.handle, text, FALSE) :
                r = <<IF u[1] THEN [s EXCEPT !.last = text, !.viaUpdate = TRUE]
                      ELSE Degraded(s), u[2]>>
  <2>1. PICK u \in Update(ms, s.handle, text, FALSE) :
          r = <<IF u[1] THEN [s EXCEPT !.last = text, !.viaUpdate = TRUE]
                ELSE Degraded(s), u[2]>>
    BY <1>4
  <2>h. s.handle \in 1 .. Len(ms)
    BY <1>0, <1>4
  <2>2. /\ u[1] \in BOOLEAN
        /\ u[2] \in Seq(Message) /\ Len(u[2]) = Len(ms)
        /\ \A i \in 1 .. Len(ms) : i # s.handle => u[2][i] = ms[i]
        /\ u[2][s.handle].kept = ms[s.handle].kept
        /\ u[2][s.handle].gone = ms[s.handle].gone
        /\ u[1] => u[2][s.handle].text = text
    <3>1. PICK final \in BOOLEAN : final = FALSE
      OBVIOUS
    <3>2. u \in Update(ms, s.handle, text, final)
      BY <3>1
    <3>3. Edited(ms, s.handle, text, final, u)
      BY <1>0, <1>t, <2>h, <3>2, UpdateFacts
    <3> QED BY <3>1, <3>3 DEF Edited
  <2>3. /\ r[2] = u[2] /\ r[1] \in View /\ r[1].handle = s.handle
        /\ r[1].timer = s.timer /\ r[1].full = s.full
        /\ ~r[1].degraded => u[1] /\ r[1].last = text
    <3>1. CASE u[1]
      BY <1>0, <1>t, <2>1, <3>1 DEF View
    <3>2. CASE ~u[1]
      BY <1>0, <2>1, <3>2, UntimedFacts
    <3> QED BY <3>1, <3>2
  <2>4. Shape(r[1], r[2]) /\ Touches(s, ms, r[2])
    BY <1>0, <2>2, <2>3 DEF Shape, Touches
  <2>5. Owned(r[1], r[2]) /\ Mirrors(r[1], r[2])
    BY <1>4, <2>2, <2>3 DEF Owned, Ready, Mirrors
  <2>6. \A n \in Nat : Placed(s, ms, n) => Placed(r[1], r[2], n)
    BY <2>2, <2>3, <2>h DEF Placed
  <2>7. \A c : Seen(c, s, ms) => Seen(c, r[1], r[2])
    BY <2>2, <2>3 DEF Seen
  <2> QED BY <2>2, <2>3, <2>4, <2>5, <2>6, <2>7
<1>5. \/ r = <<s, ms>> /\ text = s.last
      \/ r = <<Degraded(s), ms>>
      \/ /\ s.handle = 0 /\ text # s.last
         /\ r = <<[s EXCEPT !.handle = Len(ms) + 1, !.last = text,
                            !.viaUpdate = FALSE], Posted(ms, text)>>
      \/ /\ s.handle # 0
         /\ \E u \in Update(ms, s.handle, text, FALSE) :
              r = <<IF u[1] THEN [s EXCEPT !.last = text, !.viaUpdate = TRUE]
                    ELSE Degraded(s), u[2]>>
  BY DEF Flush, Only, text
<1> QED BY <1>1, <1>2, <1>3, <1>4, <1>5

LEMMA FreezeFacts ==
  ASSUME NEW s, NEW ms, NEW detach \in BOOLEAN, Shape(s, ms), Owned(s, ms),
         NEW r \in Freeze(s, ms, detach)
  PROVE  /\ Shape(r[1], r[2]) /\ Owned(r[1], r[2]) /\ Touches(s, ms, r[2])
         /\ r[1].timer = 0 /\ r[1].degraded /\ Len(r[2]) = Len(ms)
         /\ r[1].handle = IF detach THEN 0 ELSE s.handle
         /\ s.handle # 0 => /\ r[2][s.handle].gone = ms[s.handle].gone
                            /\ detach => r[2][s.handle].kept
<1> DEFINE after == [Untimed(Degraded(s)) EXCEPT !.handle = IF detach THEN 0 ELSE @]
           keep(m) == IF detach /\ s.handle # 0
                        THEN [m EXCEPT ![s.handle].kept = TRUE] ELSE m
<1>0. s \in View /\ ms \in Seq(Message) /\ s.handle \in 0 .. Len(ms) /\ Len(ms) \in Nat
  BY DEF Shape
<1>t. Cut(s.full) \in SUBSET Chunks
  BY <1>0, CutWithin DEF View
<1>1. /\ Untimed(Degraded(s)) \in View /\ Untimed(Degraded(s)).timer = 0
      /\ Untimed(Degraded(s)).degraded
      /\ Untimed(Degraded(s)).handle = s.handle
  BY <1>0, UntimedFacts
<1>2. /\ after \in View /\ after.timer = 0 /\ after.degraded
      /\ after.handle = IF detach THEN 0 ELSE s.handle
  BY <1>1 DEF View
<1>3. PICK m : /\ r = <<after, keep(m)>>
               /\ m \in Seq(Message) /\ Len(m) = Len(ms)
               /\ \A i \in 1 .. Len(ms) : i # s.handle => m[i] = ms[i]
               /\ s.handle # 0 => /\ m[s.handle].gone = ms[s.handle].gone
                                  /\ m[s.handle].kept = ms[s.handle].kept
  <2>1. CASE s.handle # 0 /\ ~s.degraded
    <3>1. PICK u \in Update(ms, s.handle, Cut(s.full), FALSE) : r = <<after, keep(u[2])>>
      BY <2>1 DEF Freeze
    <3>2. s.handle \in 1 .. Len(ms)
      BY <1>0, <2>1
    <3> HIDE DEF after, keep
    <3>3. /\ u[2] \in Seq(Message) /\ Len(u[2]) = Len(ms)
          /\ \A i \in 1 .. Len(ms) : i # s.handle => u[2][i] = ms[i]
          /\ u[2][s.handle].gone = ms[s.handle].gone
          /\ u[2][s.handle].kept = ms[s.handle].kept
      <4>1. PICK final \in BOOLEAN : final = FALSE
        OBVIOUS
      <4>2. u \in Update(ms, s.handle, Cut(s.full), final)
        BY <4>1
      <4>3. Edited(ms, s.handle, Cut(s.full), final, u)
        BY <1>0, <1>t, <3>2, <4>2, UpdateFacts
      <4> QED BY <4>1, <4>3 DEF Edited
    <3> QED BY <3>1, <3>3
  <2>2. CASE ~(s.handle # 0 /\ ~s.degraded)
    <3>1. r = <<after, keep(ms)>>
      BY <2>2 DEF Freeze
    <3> HIDE DEF after, keep
    <3> QED BY <1>0, <3>1
  <2> QED BY <2>1, <2>2
<1>4. /\ keep(m) \in Seq(Message) /\ Len(keep(m)) = Len(ms)
      /\ \A i \in 1 .. Len(ms) : i # s.handle => keep(m)[i] = ms[i]
      /\ s.handle # 0 => /\ keep(m)[s.handle].gone = ms[s.handle].gone
                         /\ detach => keep(m)[s.handle].kept
                         /\ ~detach => keep(m)[s.handle].kept = ms[s.handle].kept
  <2>1. CASE detach /\ s.handle # 0
    <3> DEFINE x == [m[s.handle] EXCEPT !.kept = TRUE]
    <3>1. s.handle \in 1 .. Len(m) /\ m[s.handle] \in Message
      BY <1>0, <1>3, <2>1
    <3>2. x \in Message /\ x.kept /\ x.gone = m[s.handle].gone
      BY <3>1 DEF Message
    <3>3. keep(m) = [m EXCEPT ![s.handle] = x]
      BY <2>1
    <3> HIDE DEF x, keep
    <3>4. /\ [m EXCEPT ![s.handle] = x] \in Seq(Message)
          /\ Len([m EXCEPT ![s.handle] = x]) = Len(m)
          /\ \A i \in 1 .. Len(m) :
               [m EXCEPT ![s.handle] = x][i] = IF i = s.handle THEN x ELSE m[i]
      BY <1>3, <3>1, <3>2, EditFacts
    <3> QED BY <1>3, <2>1, <3>1, <3>2, <3>3, <3>4
  <2>2. CASE ~(detach /\ s.handle # 0)
    BY <1>3, <2>2
  <2> QED BY <2>1, <2>2
<1> HIDE DEF after, keep
<1> QED BY <1>0, <1>2, <1>3, <1>4 DEF Shape, Owned, Ready, Touches

LEMMA DiscardFacts ==
  ASSUME NEW s, NEW ms, Shape(s, ms), Owned(s, ms)
  PROVE  LET d == Discard(s, ms)
         IN  /\ Shape(d[1], d[2]) /\ Owned(d[1], d[2]) /\ Touches(s, ms, d[2])
             /\ d[1].timer = 0 /\ d[1].degraded /\ d[1].handle = 0
             /\ Len(d[2]) = Len(ms)
             /\ s.handle # 0 /\ "clean" \in caps => d[2][s.handle].gone
<1> DEFINE v == [Untimed(Degraded(s)) EXCEPT !.handle = 0]
           ns == Deleted(ms, s.handle)
<1>0. s \in View /\ ms \in Seq(Message) /\ s.handle \in 0 .. Len(ms) /\ Len(ms) \in Nat
  BY DEF Shape
<1>1. Untimed(Degraded(s)) \in View /\ Untimed(Degraded(s)).timer = 0
      /\ Untimed(Degraded(s)).degraded
  BY <1>0, UntimedFacts
<1>2. v \in View /\ v.timer = 0 /\ v.degraded /\ v.handle = 0
  BY <1>1 DEF View
<1>3. /\ ns \in Seq(Message) /\ Len(ns) = Len(ms)
      /\ \A i \in 1 .. Len(ms) : i # s.handle => ns[i] = ms[i]
      /\ s.handle # 0 /\ "clean" \in caps => ns[s.handle].gone
  BY <1>0, DeletedFacts
<1>4. Discard(s, ms) = <<v, ns>>
  BY DEF Discard
<1> HIDE DEF v, ns
<1> QED BY <1>0, <1>2, <1>3, <1>4 DEF Shape, Owned, Ready, Touches

LEMMA FinishFacts ==
  ASSUME NEW s, NEW ms, NEW text \in SUBSET Chunks, Shape(s, ms), Owned(s, ms),
         NEW r \in Finish(s, ms, text)
  PROVE  /\ r[1] \in BOOLEAN /\ r[2] = Untimed(s)
         /\ Shape(r[2], r[3]) /\ Owned(r[2], r[3]) /\ Touches(s, ms, r[3])
         /\ Len(r[3]) = Len(ms)
         /\ r[1] => /\ s.handle # 0 /\ r[3][s.handle].final
                    /\ r[3][s.handle].gone = ms[s.handle].gone
                    /\ Mirrors(s, ms) => r[3][s.handle].text = text
         /\ ~r[1] /\ s.handle # 0 /\ "clean" \in caps => r[3][s.handle].gone
<1>0. s \in View /\ ms \in Seq(Message) /\ s.handle \in 0 .. Len(ms) /\ Len(ms) \in Nat
  BY DEF Shape
<1>1. /\ Untimed(s) \in View /\ Untimed(s).handle = s.handle
      /\ Untimed(s).degraded = s.degraded /\ Untimed(s).full = s.full
      /\ Untimed(s).last = s.last
  BY <1>0, UntimedFacts
<1>d. /\ Deleted(ms, s.handle) \in Seq(Message)
      /\ Len(Deleted(ms, s.handle)) = Len(ms)
      /\ \A i \in 1 .. Len(ms) : i # s.handle => Deleted(ms, s.handle)[i] = ms[i]
      /\ s.handle # 0 => Deleted(ms, s.handle)[s.handle].kept = ms[s.handle].kept
      /\ s.handle # 0 /\ "clean" \in caps => Deleted(ms, s.handle)[s.handle].gone
  BY <1>0, DeletedFacts
<1>o. ASSUME NEW ns \in Seq(Message), Len(ns) = Len(ms),
             \A i \in 1 .. Len(ms) : i # s.handle => ns[i] = ms[i],
             s.handle # 0 => ns[s.handle].kept = ms[s.handle].kept
      PROVE  /\ Shape(Untimed(s), ns) /\ Owned(Untimed(s), ns)
             /\ Touches(s, ms, ns)
  <2>1. Shape(Untimed(s), ns) /\ Touches(s, ms, ns)
    BY <1>0, <1>1, <1>o DEF Shape, Touches
  <2>2. Owned(Untimed(s), ns)
    BY <1>1, <1>o DEF Owned, Ready
  <2> QED BY <2>1, <2>2
<1>2. CASE r = <<FALSE, Untimed(s), Deleted(ms, s.handle)>>
  <2>1. r[1] = FALSE /\ r[2] = Untimed(s) /\ r[3] = Deleted(ms, s.handle)
    BY <1>2
  <2> QED BY <1>d, <1>o, <2>1
<1>3. CASE /\ s.handle # 0
           /\ \E u \in Update(ms, s.handle, text, TRUE) :
                r = <<u[1], Untimed(s), IF u[1] THEN u[2] ELSE Deleted(ms, s.handle)>>
  <2>1. PICK u \in Update(ms, s.handle, text, TRUE) :
          r = <<u[1], Untimed(s), IF u[1] THEN u[2] ELSE Deleted(ms, s.handle)>>
    BY <1>3
  <2>2. s.handle \in 1 .. Len(ms)
    BY <1>0, <1>3
  <2>3. /\ u[1] \in BOOLEAN
        /\ u[2] \in Seq(Message) /\ Len(u[2]) = Len(ms)
        /\ \A i \in 1 .. Len(ms) : i # s.handle => u[2][i] = ms[i]
        /\ u[2][s.handle].kept = ms[s.handle].kept
        /\ u[2][s.handle].gone = ms[s.handle].gone
        /\ u[1] => u[2][s.handle].text = text /\ u[2][s.handle].final
    <3>1. PICK final \in BOOLEAN : final = TRUE
      OBVIOUS
    <3>2. u \in Update(ms, s.handle, text, final)
      BY <3>1
    <3>3. Edited(ms, s.handle, text, final, u)
      BY <1>0, <2>2, <3>2, UpdateFacts
    <3> QED BY <3>1, <3>3 DEF Edited
  <2>4. CASE u[1]
    <3>1. r[1] = TRUE /\ r[2] = Untimed(s) /\ r[3] = u[2]
      BY <2>1, <2>3, <2>4
    <3> QED BY <1>3, <1>o, <2>3, <2>4, <3>1
  <2>5. CASE ~u[1]
    <3>1. r[1] = FALSE /\ r[2] = Untimed(s) /\ r[3] = Deleted(ms, s.handle)
      BY <2>1, <2>3, <2>5
    <3> QED BY <1>d, <1>o, <3>1
  <2> QED BY <2>3, <2>4, <2>5
<1>4. CASE /\ s.handle # 0 /\ ~s.degraded /\ s.viaUpdate /\ text = s.last
           /\ r = <<TRUE, Untimed(s), [ms EXCEPT ![s.handle].final = TRUE]>>
  <2> DEFINE x == [ms[s.handle] EXCEPT !.final = TRUE]
             ns == [ms EXCEPT ![s.handle] = x]
  <2>1. s.handle \in 1 .. Len(ms) /\ ms[s.handle] \in Message
    BY <1>0, <1>4
  <2>2. /\ x \in Message /\ x.final /\ x.gone = ms[s.handle].gone
        /\ x.kept = ms[s.handle].kept /\ x.text = ms[s.handle].text
    BY <2>1 DEF Message
  <2>3. r = <<TRUE, Untimed(s), ns>>
    BY <1>4
  <2> HIDE DEF x
  <2>4. /\ ns \in Seq(Message) /\ Len(ns) = Len(ms)
        /\ \A i \in 1 .. Len(ms) : ns[i] = IF i = s.handle THEN x ELSE ms[i]
    BY <1>0, <2>1, <2>2, EditFacts
  <2> HIDE DEF ns
  <2> QED BY <1>0, <1>1, <1>4, <2>1, <2>2, <2>3, <2>4
          DEF Shape, Owned, Ready, Touches, Mirrors
<1>5. \/ r = <<FALSE, Untimed(s), Deleted(ms, s.handle)>>
      \/ /\ s.handle # 0
         /\ \E u \in Update(ms, s.handle, text, TRUE) :
              r = <<u[1], Untimed(s), IF u[1] THEN u[2] ELSE Deleted(ms, s.handle)>>
      \/ /\ s.handle # 0 /\ ~s.degraded /\ s.viaUpdate /\ text = s.last
         /\ r = <<TRUE, Untimed(s), [ms EXCEPT ![s.handle].final = TRUE]>>
  BY DEF Finish, Only
<1> QED BY <1>2, <1>3, <1>4, <1>5

-----------------------------------------------------------------------------
(* The invariant *)

LoopOK ==
  /\ caps \in Platforms /\ shown \in Displays
  /\ parts \in 0 .. MaxText /\ segment \in 0 .. parts /\ block \in 0 .. parts
  /\ hold \in BOOLEAN /\ tools \in BOOLEAN
  /\ breaks \in 0 .. MaxBreaks
  /\ outcome \in Outcomes
  /\ lapsed \subseteq Chunks

TimersOK ==
  /\ armed \subseteq 1 .. timers /\ fired \subseteq (1 .. timers) \ armed
  /\ timers \in 0 .. MaxTimers
  /\ preview.timer = 0 \/ preview.timer \in armed \cup fired

\* While the turn runs, the segments that have ended are before the user, in
\* messages the preview no longer touches; and the text after the last tool use
\* is the whole answer, or the tools are hidden or the segments closed.
Standing ==
  /\ Placed(preview, messages, segment)
  /\ \A c \in 1 .. segment : c \in lapsed \/ Seen(c, preview, messages)
  /\ Mirrors(preview, messages)
  /\ ~tools => block = 0
  /\ "tool" \in shown => block <= segment

PreviewInv ==
  /\ Shape(preview, messages) /\ Owned(preview, messages)
  /\ LoopOK /\ TimersOK
  /\ outcome = "running" => Standing

LEMMA PreviewTyped == PreviewInv => PreviewTypeOK
<1> SUFFICES ASSUME PreviewInv PROVE PreviewTypeOK
  OBVIOUS
<1>1. preview \in View /\ messages \in Seq(Message) /\ preview.handle \in 0 .. Len(messages)
  BY DEF PreviewInv, Shape
<1>2. preview.timer \in 0 .. timers
  <2>1. timers \in Nat /\ preview.timer \in Nat
    BY <1>1, PreviewAssumption DEF PreviewInv, TimersOK, View
  <2>2. preview.timer = 0 \/ preview.timer \in 1 .. timers
    BY DEF PreviewInv, TimersOK
  <2> QED BY <2>1, <2>2
<1>3. preview \in [handle : 0 .. Len(messages), degraded : BOOLEAN, full : SUBSET Chunks,
                   last : SUBSET Chunks, viaUpdate : BOOLEAN, timer : 0 .. timers]
  BY <1>1, <1>2 DEF View
<1> QED BY <1>1, <1>3 DEF PreviewInv, LoopOK, TimersOK, PreviewTypeOK, Message

LEMMA PreviewStart == PreviewInit => PreviewInv
<1> SUFFICES ASSUME PreviewInit PROVE PreviewInv
  OBVIOUS
<1>1. messages = <<>> /\ <<>> \in Seq(Message) /\ Len(<<>>) = 0
  BY DEF PreviewInit
<1>2. /\ preview \in View /\ preview.handle = 0 /\ preview.full = {}
      /\ preview.last = {} /\ preview.timer = 0
  BY DEF PreviewInit, View
<1>3. Shape(preview, messages) /\ Owned(preview, messages)
  BY <1>1, <1>2 DEF Shape, Owned, Ready, Cut
<1>4. LoopOK
  <2>1. MaxText \in Nat /\ MaxBreaks \in Nat
    BY PreviewAssumption
  <2>2. parts \in 0 .. MaxText /\ segment \in 0 .. parts /\ block \in 0 .. parts
        /\ breaks \in 0 .. MaxBreaks
    BY <2>1 DEF PreviewInit
  <2>3. hold \in BOOLEAN /\ tools \in BOOLEAN
    BY Zenon DEF PreviewInit
  <2>4. /\ caps \in Platforms /\ shown \in Displays
        /\ outcome \in Outcomes /\ lapsed \subseteq Chunks
    BY DEF PreviewInit, Outcomes
  <2> QED BY <2>2, <2>3, <2>4 DEF LoopOK
<1>6. TimersOK
  BY <1>2, PreviewAssumption DEF PreviewInit, TimersOK
<1>5. Standing
  BY <1>1, <1>2 DEF PreviewInit, Standing, Placed, Mirrors
<1> QED BY <1>3, <1>4, <1>5, <1>6 DEF PreviewInv

\* The texts the loop deals with are sets of chunks.
LEMMA LoopTexts ==
  ASSUME LoopOK
  PROVE  /\ Segment \in SUBSET Chunks /\ 1 .. parts \in SUBSET Chunks
         /\ 1 .. parts = (1 .. segment) \cup Segment
         /\ block + 1 .. parts \in SUBSET Chunks /\ {Notice} \in SUBSET Chunks
         /\ MaxText \in Nat /\ parts \in Nat /\ segment \in Nat /\ segment <= parts
BY PreviewAssumption DEF LoopOK, Segment, Chunks, Notice

LEMMA AppendFacts ==
  ASSUME PreviewInv, NEW chunks \in SUBSET Chunks, AppendText(chunks)
  PROVE  /\ Shape(preview', messages') /\ Owned(preview', messages') /\ TimersOK'
         /\ Touches(preview, messages, messages')
         /\ \A n \in Nat :
              Placed(preview, messages, n) => Placed(preview', messages', n)
         /\ \A c : Seen(c, preview, messages) => Seen(c, preview', messages')
         /\ Mirrors(preview, messages) => Mirrors(preview', messages')
<1> DEFINE s == [preview EXCEPT !.full = @ \cup chunks]
<1>0. /\ preview \in View /\ messages \in Seq(Message)
      /\ preview.handle \in 0 .. Len(messages) /\ Owned(preview, messages)
      /\ TimersOK /\ MaxTimers \in Nat
  BY PreviewAssumption DEF PreviewInv, Shape
<1>1. /\ s \in View /\ s.handle = preview.handle /\ s.degraded = preview.degraded
      /\ s.last = preview.last /\ s.viaUpdate = preview.viaUpdate
      /\ s.timer = preview.timer
  BY <1>0 DEF View
<1>a. AppendText(chunks) <=>
        \/ /\ \E r \in Flush(Untimed(s), messages) : preview' = r[1] /\ messages' = r[2]
           /\ armed' = Stopped
           /\ UNCHANGED <<fired, timers>>
        \/ /\ s.last # {} /\ s.timer # 0
           /\ preview' = s
           /\ UNCHANGED <<messages, timerVars>>
        \/ /\ s.last # {} /\ s.timer = 0 /\ timers < MaxTimers
           /\ timers' = timers + 1
           /\ armed' = armed \cup {timers'}
           /\ preview' = [s EXCEPT !.timer = timers']
           /\ UNCHANGED <<messages, fired>>
  BY DEF AppendText
<1> HIDE DEF s
<1>2. CASE /\ \E r \in Flush(Untimed(s), messages) : preview' = r[1] /\ messages' = r[2]
           /\ armed' = Stopped
           /\ UNCHANGED <<fired, timers>>
  <2> DEFINE v == Untimed(s)
  <2>1. /\ v \in View /\ v.timer = 0 /\ v.handle = preview.handle
        /\ v.degraded = preview.degraded /\ v.last = preview.last
        /\ v.viaUpdate = preview.viaUpdate
    BY <1>1, UntimedFacts
  <2> HIDE DEF v
  <2>2. PICK r \in Flush(v, messages) : preview' = r[1] /\ messages' = r[2]
    BY <1>2 DEF v
  <2>3. Shape(v, messages) /\ Ready(v, messages)
    BY <1>0, <2>1 DEF Shape, Owned, Ready
  <2>4. /\ Shape(r[1], r[2]) /\ Owned(r[1], r[2]) /\ Touches(v, messages, r[2])
        /\ r[1].timer = v.timer
        /\ Mirrors(v, messages) => Mirrors(r[1], r[2])
        /\ \A n \in Nat : Placed(v, messages, n) => Placed(r[1], r[2], n)
        /\ \A c : Seen(c, v, messages) => Seen(c, r[1], r[2])
    BY <2>3, FlushFacts
  <2>5. /\ Mirrors(preview, messages) => Mirrors(v, messages)
        /\ \A n \in Nat : Placed(preview, messages, n) => Placed(v, messages, n)
        /\ \A c : Seen(c, preview, messages) => Seen(c, v, messages)
    BY <2>1 DEF Mirrors, Placed, Seen
  <2>6. Touches(preview, messages, messages')
    BY <2>1, <2>2, <2>4 DEF Touches
  <2>7. TimersOK'
    BY <1>0, <1>2, <2>1, <2>2, <2>4 DEF TimersOK, Stopped
  <2> QED BY <2>2, <2>4, <2>5, <2>6, <2>7
<1>3. ASSUME preview' \in View, preview'.handle = preview.handle,
             preview'.degraded = preview.degraded, preview'.last = preview.last,
             preview'.viaUpdate = preview.viaUpdate, preview.last # {},
             UNCHANGED messages, TimersOK'
      PROVE  /\ Shape(preview', messages') /\ Owned(preview', messages') /\ TimersOK'
             /\ Touches(preview, messages, messages')
             /\ \A n \in Nat :
                  Placed(preview, messages, n) => Placed(preview', messages', n)
             /\ \A c : Seen(c, preview, messages) => Seen(c, preview', messages')
             /\ Mirrors(preview, messages) => Mirrors(preview', messages')
  BY <1>0, <1>3 DEF Shape, Owned, Ready, Touches, Placed, Seen, Mirrors
<1>4. CASE /\ s.last # {} /\ s.timer # 0
           /\ preview' = s
           /\ UNCHANGED <<messages, timerVars>>
  <2>1. TimersOK'
    BY <1>0, <1>1, <1>4 DEF TimersOK, timerVars
  <2> QED BY <1>1, <1>3, <1>4, <2>1
<1>5. CASE /\ s.last # {} /\ s.timer = 0 /\ timers < MaxTimers
           /\ timers' = timers + 1
           /\ armed' = armed \cup {timers'}
           /\ preview' = [s EXCEPT !.timer = timers']
           /\ UNCHANGED <<messages, fired>>
  <2>1. timers' \in Nat
    BY <1>0, <1>5 DEF TimersOK
  <2>2. /\ preview' \in View /\ preview'.timer = timers'
        /\ preview'.handle = s.handle /\ preview'.degraded = s.degraded
        /\ preview'.last = s.last /\ preview'.viaUpdate = s.viaUpdate
    BY <1>1, <1>5, <2>1 DEF View
  <2>3. TimersOK'
    BY <1>0, <1>5, <2>2 DEF TimersOK
  <2> QED BY <1>1, <1>3, <1>5, <2>2, <2>3
<1> QED BY <1>a, <1>2, <1>4, <1>5

-----------------------------------------------------------------------------
(* Text, and the end of a segment *)

\* What a step of the turn keeps.
PreviewStep ==
  PreviewInv' /\ Touches(preview, messages, messages')

LEMMA TextStep ==
  ASSUME PreviewInv, NEW marker \in BOOLEAN, Text(marker)
  PROVE  PreviewStep
<1>1. /\ LoopOK /\ Standing /\ TimersOK
      /\ Shape(preview, messages) /\ Owned(preview, messages)
      /\ parts \in Nat /\ segment \in Nat /\ segment <= parts /\ MaxText \in Nat
  BY LoopTexts DEF PreviewInv, Text
<1>2. /\ parts' = parts + 1 /\ parts < MaxText
      /\ UNCHANGED <<caps, shown, segment, block, tools, breaks, outcome, lapsed>>
      /\ outcome = "running"
  BY DEF Text
<1>3. LoopOK'
  <2>1. parts' \in 0 .. MaxText /\ segment' \in 0 .. parts' /\ block' \in 0 .. parts'
    BY <1>1, <1>2 DEF LoopOK
  <2>2. hold' \in BOOLEAN /\ tools' \in BOOLEAN
    BY <1>1, <1>2, Zenon DEF LoopOK, Text
  <2> QED BY <1>1, <1>2, <2>1, <2>2 DEF LoopOK
<1>4. CASE marker \/ ~CanPreview
  <2>1. UNCHANGED <<preview, messages, timerVars>>
    BY <1>4 DEF Text
  <2>2. Touches(preview, messages, messages')
    BY <1>1, <2>1 DEF Touches, Shape
  <2>3. TimersOK' /\ Shape(preview', messages') /\ Owned(preview', messages')
    BY <1>1, <2>1 DEF TimersOK, timerVars
  <2>4. Standing'
    BY <1>1, <1>2, <2>1 DEF Standing
  <2> QED BY <1>3, <2>2, <2>3, <2>4 DEF PreviewStep, PreviewInv
<1>5. CASE ~(marker \/ ~CanPreview)
  <2>1. PICK chunks \in SUBSET Chunks : AppendText(chunks)
    <3>1. (segment + 1 .. parts') \in SUBSET Chunks /\ {parts'} \in SUBSET Chunks
      BY <1>1, <1>2 DEF Chunks
    <3>2. AppendText(IF hold THEN segment + 1 .. parts' ELSE {parts'})
      BY <1>5 DEF Text
    <3> QED BY <3>1, <3>2
  <2>2. /\ Shape(preview', messages') /\ Owned(preview', messages') /\ TimersOK'
        /\ Touches(preview, messages, messages')
        /\ \A n \in Nat :
             Placed(preview, messages, n) => Placed(preview', messages', n)
        /\ \A c : Seen(c, preview, messages) => Seen(c, preview', messages')
        /\ Mirrors(preview, messages) => Mirrors(preview', messages')
    BY <2>1, AppendFacts
  <2>3. Standing'
    BY <1>1, <1>2, <2>2 DEF Standing
  <2> QED BY <1>3, <2>2, <2>3 DEF PreviewStep, PreviewInv
<1> QED BY <1>4, <1>5

\* Messages that are added to the others disturb nothing.
LEMMA Extended ==
  ASSUME NEW s, NEW ms, NEW ns \in Seq(Message), Shape(s, ms), Owned(s, ms),
         Len(ns) >= Len(ms), \A i \in 1 .. Len(ms) : ns[i] = ms[i]
  PROVE  /\ Shape(s, ns) /\ Owned(s, ns) /\ Touches(s, ms, ns)
         /\ Mirrors(s, ms) => Mirrors(s, ns)
         /\ \A c : Seen(c, s, ms) => Seen(c, s, ns)
<1>1. /\ s.handle \in 0 .. Len(ms) /\ ms \in Seq(Message)
      /\ Len(ms) \in Nat /\ Len(ns) \in Nat
  BY DEF Shape
<1>2. \A i \in 1 .. Len(ms) : i \in 1 .. Len(ns)
  BY <1>1
<1>3. Shape(s, ns) /\ Touches(s, ms, ns)
  BY <1>1 DEF Shape, Touches
<1>4. s.handle # 0 => ns[s.handle] = ms[s.handle]
  BY <1>1
<1> QED BY <1>2, <1>3, <1>4 DEF Owned, Ready, Mirrors, Seen

LEMMA TouchesBoth ==
  ASSUME NEW s, NEW ms, NEW ns, NEW os \in Seq(Message), Touches(s, ms, ns),
         ms \in Seq(Message), Len(os) >= Len(ns), \A i \in 1 .. Len(ns) : os[i] = ns[i]
  PROVE  Touches(s, ms, os)
<1>1. Len(ms) \in Nat /\ Len(ns) \in Nat /\ Len(os) \in Nat
  BY DEF Touches
<1>2. \A i \in 1 .. Len(ms) : i \in 1 .. Len(ns)
  BY <1>1 DEF Touches
<1> QED BY <1>1, <1>2 DEF Touches

LEMMA SegmentEnds ==
  ASSUME PreviewInv, outcome = "running", NEW detach \in BOOLEAN,
         detach = CanPreview, EndSegment(detach)
  PROVE  /\ Shape(preview', messages') /\ Owned(preview', messages') /\ TimersOK'
         /\ Touches(preview, messages, messages')
         /\ segment' = parts /\ lapsed' \subseteq Chunks
         /\ Placed(preview', messages', parts)
         /\ \A c \in 1 .. parts : c \in lapsed' \/ Seen(c, preview', messages')
         /\ Mirrors(preview', messages')
<1>1. /\ LoopOK /\ Standing /\ TimersOK
      /\ Shape(preview, messages) /\ Owned(preview, messages)
      /\ parts \in Nat /\ segment \in Nat /\ segment <= parts
      /\ Segment \in SUBSET Chunks /\ 1 .. parts = (1 .. segment) \cup Segment
  BY LoopTexts DEF PreviewInv
<1>s. /\ preview.handle \in 0 .. Len(messages) /\ Len(messages) \in Nat
      /\ messages \in Seq(Message)
  BY <1>1 DEF Shape
<1>2. PICK r \in Freeze(preview, messages, detach) :
        /\ preview' = r[1]
        /\ messages' = IF CanPreview \/ Segment = {} THEN r[2] ELSE Posted(r[2], Segment)
        /\ lapsed' = lapsed \cup (IF CanPreview THEN Segment \ Surfaced(r[2]) ELSE {})
  BY DEF EndSegment
<1>3. /\ Shape(r[1], r[2]) /\ Owned(r[1], r[2]) /\ Touches(preview, messages, r[2])
      /\ r[1].timer = 0 /\ r[1].degraded /\ Len(r[2]) = Len(messages)
      /\ r[1].handle = IF detach THEN 0 ELSE preview.handle
      /\ preview.handle # 0 =>
           /\ r[2][preview.handle].gone = messages[preview.handle].gone
           /\ detach => r[2][preview.handle].kept
  BY <1>1, FreezeFacts
<1>4. TimersOK'
  BY <1>1, <1>2, <1>3 DEF TimersOK, EndSegment, Stopped
<1>5. segment' = parts /\ lapsed' \subseteq Chunks
  BY <1>1, <1>2 DEF EndSegment, LoopOK
<1>6. /\ r[2] \in Seq(Message)
      /\ \A i \in 1 .. Len(messages) : i # preview.handle => r[2][i] = messages[i]
  BY <1>3 DEF Touches
<1>7. Placed(r[1], r[2], parts)
  <2>1. \A i \in 1 .. Len(messages) :
          /\ ~messages[i].gone
          /\ messages[i].kept \/ messages[i].text \subseteq 1 .. parts \/ i = preview.handle
    BY <1>1 DEF Standing, Placed
  <2>2. ASSUME NEW i \in 1 .. Len(r[2])
        PROVE  /\ ~r[2][i].gone
               /\ r[2][i].kept \/ r[2][i].text \subseteq 1 .. parts \/ i = r[1].handle
    <3>1. CASE i # preview.handle
      BY <1>3, <1>6, <2>1, <2>2, <3>1
    <3>2. CASE i = preview.handle
      BY <1>3, <2>1, <2>2, <3>2
    <3> QED BY <3>1, <3>2
  <2> QED BY <2>2 DEF Placed
<1>8. \A c \in 1 .. segment : c \in lapsed \/ Seen(c, r[1], r[2])
  <2>1. \A c \in 1 .. segment : c \in lapsed \/ Seen(c, preview, messages)
    BY <1>1 DEF Standing
  <2>2. ASSUME NEW c, Seen(c, preview, messages) PROVE Seen(c, r[1], r[2])
    <3>1. PICK i \in 1 .. Len(messages) : i # preview.handle /\ c \in messages[i].text
      BY <2>2 DEF Seen
    <3>2. i \in 1 .. Len(r[2]) /\ i # r[1].handle /\ c \in r[2][i].text
      BY <1>3, <1>6, <3>1
    <3> QED BY <3>2 DEF Seen
  <2> QED BY <2>1, <2>2
<1>9. CASE CanPreview
  <2>1. messages' = r[2] /\ r[1].handle = 0 /\ lapsed' = lapsed \cup (Segment \ Surfaced(r[2]))
    BY <1>2, <1>3, <1>9
  <2>2. ASSUME NEW c \in Segment PROVE c \in lapsed' \/ Seen(c, r[1], r[2])
    <3>1. CASE c \notin Surfaced(r[2])
      BY <2>1, <3>1
    <3>2. CASE c \in Surfaced(r[2])
      <4>1. preview.handle # 0
        BY <1>1, <1>9, <3>2 DEF Surfaced, Owned, CanPreview
      <4>2. c \in r[2][preview.handle].text
        BY <3>2, <4>1 DEF Surfaced
      <4> QED BY <1>3, <1>s, <2>1, <4>1, <4>2 DEF Seen
    <3> QED BY <3>1, <3>2
  <2>3. Mirrors(r[1], r[2])
    BY <2>1 DEF Mirrors
  <2> QED BY <1>1, <1>2, <1>3, <1>4, <1>5, <1>7, <1>8, <2>1, <2>2, <2>3
<1>10. CASE ~CanPreview
  <2>1. r[1].handle = preview.handle /\ lapsed' = lapsed
    BY <1>2, <1>3, <1>10
  <2>3. \A ms : Mirrors(r[1], ms)
    BY <1>3 DEF Mirrors
  <2>4. CASE Segment = {}
    <3>1. messages' = r[2]
      BY <1>2, <2>4
    <3> QED BY <1>1, <1>2, <1>3, <1>4, <1>5, <1>7, <1>8, <2>1, <2>3, <2>4, <3>1
  <2>5. CASE Segment # {}
    <3> DEFINE ns == Posted(r[2], Segment)
    <3>1. messages' = ns
      BY <1>2, <1>10, <2>5
    <3>2. /\ ns \in Seq(Message) /\ Len(ns) = Len(messages) + 1
          /\ \A i \in 1 .. Len(messages) : ns[i] = r[2][i]
          /\ ns[Len(messages) + 1].text = Segment /\ ~ns[Len(messages) + 1].gone
      <4>1. /\ ns \in Seq(Message) /\ Len(ns) = Len(r[2]) + 1
            /\ \A i \in 1 .. Len(r[2]) : ns[i] = r[2][i]
            /\ ns[Len(r[2]) + 1] =
                 [text |-> Segment, final |-> FALSE, kept |-> FALSE, gone |-> FALSE]
        BY <1>1, <1>6, PostedFacts
      <4> HIDE DEF ns
      <4> QED BY <1>3, <4>1
    <3> HIDE DEF ns
    <3>3. /\ Shape(r[1], ns) /\ Owned(r[1], ns)
          /\ \A c : Seen(c, r[1], r[2]) => Seen(c, r[1], ns)
      <4>1. Len(ns) >= Len(r[2]) /\ \A i \in 1 .. Len(r[2]) : ns[i] = r[2][i]
        BY <1>s, <1>3, <3>2
      <4> QED BY <1>3, <3>2, <4>1, Extended
    <3>4. Touches(preview, messages, ns)
      BY <1>s, <1>3, <3>2, TouchesBoth
    <3>5. Placed(r[1], ns, parts)
      <4>1. \A i \in 1 .. Len(ns) : i \in 1 .. Len(messages) \/ i = Len(messages) + 1
        BY <1>s, <3>2
      <4>2. Segment \subseteq 1 .. parts
        BY <1>1
      <4> QED BY <1>3, <1>7, <3>2, <4>1, <4>2 DEF Placed
    <3>6. \A c \in Segment : Seen(c, r[1], ns)
      <4>1. Len(messages) + 1 \in 1 .. Len(ns) /\ Len(messages) + 1 # r[1].handle
        BY <1>s, <2>1, <3>2
      <4> QED BY <3>2, <4>1 DEF Seen
    <3> QED BY <1>1, <1>2, <1>4, <1>5, <1>8, <2>1, <2>3, <3>1, <3>3, <3>4, <3>5, <3>6
  <2> QED BY <2>4, <2>5
<1> QED BY <1>9, <1>10

LEMMA BreakStep ==
  ASSUME PreviewInv, NEW kind, Break(kind)
  PROVE  PreviewStep
<1>1. /\ LoopOK /\ Standing /\ TimersOK /\ outcome = "running"
      /\ Shape(preview, messages) /\ Owned(preview, messages)
      /\ parts \in Nat /\ segment \in Nat /\ segment <= parts
      /\ Segment \in SUBSET Chunks /\ 1 .. parts = (1 .. segment) \cup Segment
  BY LoopTexts DEF PreviewInv, Break
<1>2. /\ breaks < MaxBreaks /\ breaks' = breaks + 1
      /\ block' = IF kind = "tool" THEN parts ELSE block
      /\ tools' = (tools \/ kind = "tool")
      /\ UNCHANGED <<caps, shown, parts, outcome>>
  BY DEF Break
<1>3. /\ breaks' \in 0 .. MaxBreaks /\ block' \in 0 .. parts
      /\ tools' \in BOOLEAN /\ hold' \in BOOLEAN
  <2>1. breaks' \in 0 .. MaxBreaks /\ block' \in 0 .. parts
    BY <1>1, <1>2, PreviewAssumption DEF LoopOK
  <2>2. tools' \in BOOLEAN
    BY <1>2
  <2>3. hold' \in BOOLEAN
    BY Zenon DEF Break
  <2> QED BY <2>1, <2>2, <2>3
<1>4. ~tools' => block' = 0
  BY <1>1, <1>2 DEF Standing
<1>5. ASSUME segment' = parts, lapsed' \subseteq Chunks, TimersOK',
             Shape(preview', messages'), Owned(preview', messages'),
             Placed(preview', messages', parts), Mirrors(preview', messages'),
             \A c \in 1 .. parts : c \in lapsed' \/ Seen(c, preview', messages')
      PROVE  PreviewInv'
  <2>1. LoopOK'
    <3>1. segment' \in 0 .. parts'
      BY <1>1, <1>2, <1>5
    <3> QED BY <1>1, <1>2, <1>3, <1>5, <3>1 DEF LoopOK
  <2>2. "tool" \in shown => block' <= parts
    BY <1>1, <1>3
  <2>3. Standing'
    BY <1>2, <1>4, <1>5, <2>2 DEF Standing
  <2> QED BY <1>5, <2>1, <2>3 DEF PreviewInv
<1>6. CASE \E detach \in BOOLEAN : detach = CanPreview /\ EndSegment(detach)
  BY <1>1, <1>5, <1>6, SegmentEnds DEF PreviewStep
<1>7. CASE /\ messages' = Posted(messages, Segment)
           /\ segment' = parts
           /\ UNCHANGED <<preview, timerVars, lapsed>>
  <2>s. /\ preview.handle \in 0 .. Len(messages) /\ Len(messages) \in Nat
        /\ messages \in Seq(Message)
    BY <1>1 DEF Shape
  <2>1. /\ messages' \in Seq(Message) /\ Len(messages') = Len(messages) + 1
        /\ \A i \in 1 .. Len(messages) : messages'[i] = messages[i]
        /\ messages'[Len(messages) + 1].text = Segment
        /\ ~messages'[Len(messages) + 1].gone
    <3> DEFINE ns == Posted(messages, Segment)
    <3>1. /\ ns \in Seq(Message) /\ Len(ns) = Len(messages) + 1
          /\ \A i \in 1 .. Len(messages) : ns[i] = messages[i]
          /\ ns[Len(messages) + 1] =
               [text |-> Segment, final |-> FALSE, kept |-> FALSE, gone |-> FALSE]
      BY <1>1, <2>s, PostedFacts
    <3>2. messages' = ns
      BY <1>7
    <3> HIDE DEF ns
    <3> QED BY <3>1, <3>2
  <2>2. /\ Shape(preview, messages') /\ Owned(preview, messages')
        /\ Touches(preview, messages, messages')
        /\ Mirrors(preview, messages')
        /\ \A c : Seen(c, preview, messages) => Seen(c, preview, messages')
    <3>1. Len(messages') >= Len(messages)
      BY <2>s, <2>1
    <3> QED BY <1>1, <2>1, <3>1, Extended DEF Standing
  <2>3. Placed(preview, messages', parts)
    <3>1. \A i \in 1 .. Len(messages') : i \in 1 .. Len(messages) \/ i = Len(messages) + 1
      BY <2>s, <2>1
    <3>2. Segment \subseteq 1 .. parts /\ 1 .. segment \subseteq 1 .. parts
      BY <1>1
    <3> QED BY <1>1, <2>1, <3>1, <3>2 DEF Standing, Placed
  <2>4. \A c \in Segment : Seen(c, preview, messages')
    <3>1. Len(messages) + 1 \in 1 .. Len(messages') /\ Len(messages) + 1 # preview.handle
      BY <2>s, <2>1
    <3> QED BY <2>1, <3>1 DEF Seen
  <2>5. TimersOK' /\ lapsed' \subseteq Chunks
    BY <1>1, <1>7 DEF TimersOK, timerVars, LoopOK
  <2> QED BY <1>1, <1>5, <1>7, <2>2, <2>3, <2>4, <2>5 DEF Standing, PreviewStep
<1>8. CASE /\ kind \notin shown \cup {"permission"}
           /\ UNCHANGED <<preview, messages, timerVars, segment, lapsed>>
  <2>1. Touches(preview, messages, messages')
    BY <1>1, <1>8 DEF Touches, Shape
  <2>2. TimersOK' /\ Shape(preview', messages') /\ Owned(preview', messages')
    BY <1>1, <1>8 DEF TimersOK, timerVars
  <2>3. LoopOK'
    BY <1>1, <1>2, <1>3, <1>8 DEF LoopOK
  <2>4. "tool" \in shown => block' <= segment
    BY <1>1, <1>2, <1>8 DEF Standing
  <2>5. Standing'
    BY <1>1, <1>2, <1>4, <1>8, <2>4 DEF Standing
  <2> QED BY <2>1, <2>2, <2>3, <2>5 DEF PreviewStep, PreviewInv
<1>9. CanPreview \in BOOLEAN
  BY <1>1, Zenon DEF CanPreview, Shape, View
<1> QED BY <1>6, <1>7, <1>8, <1>9 DEF Break

-----------------------------------------------------------------------------
(* The end of the turn *)

LEMMA TurnOver ==
  ASSUME PreviewInv, NEW how \in Outcomes \ {"running"}, End(how),
         TimersOK', Shape(preview', messages'), Owned(preview', messages')
  PROVE  PreviewInv'
<1>1. LoopOK'
  BY DEF PreviewInv, LoopOK, End
<1>2. outcome' # "running"
  BY DEF End
<1> QED BY <1>1, <1>2 DEF PreviewInv

\* The user has every chunk: those of the segments that have ended are where they
\* were, the others are somewhere.
LEMMA Completed ==
  ASSUME PreviewInv, Standing, Touches(preview, messages, messages'),
         parts' = parts, lapsed' = lapsed,
         \A c \in Segment : \E i \in 1 .. Len(messages') :
           ~messages'[i].gone /\ c \in messages'[i].text
  PROVE  Complete'
<1>1. /\ 1 .. parts = (1 .. segment) \cup Segment /\ messages \in Seq(Message)
      /\ Len(messages) \in Nat
  BY LoopTexts DEF PreviewInv, Shape
<1>2. ASSUME NEW c \in 1 .. segment, c \notin lapsed
      PROVE  \E i \in 1 .. Len(messages') : ~messages'[i].gone /\ c \in messages'[i].text
  <2>1. PICK i \in 1 .. Len(messages) : i # preview.handle /\ c \in messages[i].text
    BY <1>2 DEF Standing, Seen
  <2>2. messages'[i] = messages[i] /\ ~messages[i].gone
    BY <2>1 DEF Touches, Standing, Placed
  <2>3. i \in 1 .. Len(messages')
    BY <1>1, <2>1 DEF Touches
  <2> QED BY <2>1, <2>2, <2>3
<1>3. \A c \in 1 .. parts : c \in lapsed \/
        \E i \in 1 .. Len(messages') : ~messages'[i].gone /\ c \in messages'[i].text
  BY <1>1, <1>2
<1>4. \A c \in 1 .. parts' : c \in lapsed' \cup UNION {messages'[i].text : i \in Visible'}
  BY <1>3 DEF Visible
<1> QED BY <1>4 DEF Complete

\* No preview is left beside what has been sent.
LEMMA Tidied ==
  ASSUME PreviewInv, Standing, Touches(preview, messages, messages'),
         UNCHANGED <<caps, segment>>,
         \A i \in 1 .. Len(messages') : i \in 1 .. Len(messages) \/
           (messages'[i].final /\ outcome' = "result"),
         preview.handle # 0 /\ "clean" \in caps =>
           \/ messages'[preview.handle].gone
           \/ messages'[preview.handle].final /\ outcome' = "result"
  PROVE  Tidy'
<1>1. ASSUME NEW i \in 1 .. Len(messages), i # preview.handle
      PROVE  messages'[i].kept \/ messages'[i].text \subseteq 1 .. segment'
  <2>1. messages'[i] = messages[i]
    BY <1>1 DEF Touches
  <2> QED BY <1>1, <2>1 DEF Standing, Placed
<1>2. ASSUME NEW i \in Visible', "clean" \in caps
      PROVE  \/ messages'[i].kept \/ messages'[i].text \subseteq 1 .. segment'
             \/ messages'[i].final /\ outcome' = "result"
  <2>1. i \in 1 .. Len(messages') /\ ~messages'[i].gone
    BY DEF Visible
  <2>2. CASE i = preview.handle
    <3>1. i # 0
      BY <2>1 DEF Touches
    <3> QED BY <1>2, <2>1, <2>2, <3>1
  <2>3. CASE i # preview.handle
    BY <1>1, <2>1, <2>3
  <2> QED BY <2>2, <2>3
<1> QED BY <1>2 DEF Tidy

LEMMA DropStep ==
  ASSUME PreviewInv, NEW text \in SUBSET Chunks, DropAndSend(text)
  PROVE  /\ TimersOK' /\ Shape(preview', messages') /\ Owned(preview', messages')
         /\ Touches(preview, messages, messages')
         /\ \A i \in 1 .. Len(messages') : i \in 1 .. Len(messages) \/
              (text # {} /\ messages'[i].final)
         /\ preview.handle # 0 /\ "clean" \in caps => messages'[preview.handle].gone
         /\ \A c \in text : \E i \in 1 .. Len(messages') :
              ~messages'[i].gone /\ c \in messages'[i].text
<1> DEFINE d == Discard(preview, messages)
<1>1. /\ Shape(preview, messages) /\ Owned(preview, messages) /\ TimersOK
      /\ preview.handle \in 0 .. Len(messages) /\ Len(messages) \in Nat
      /\ messages \in Seq(Message)
  BY DEF PreviewInv, Shape
<1>2. PICK v, ms : v = d[1] /\ ms = d[2]
  OBVIOUS
<1>3. /\ Shape(v, ms) /\ Owned(v, ms) /\ Touches(preview, messages, ms)
      /\ v.timer = 0 /\ v.handle = 0 /\ Len(ms) = Len(messages)
      /\ preview.handle # 0 /\ "clean" \in caps => ms[preview.handle].gone
  BY <1>1, <1>2, DiscardFacts
<1>4. preview' = v /\ messages' = Sent(ms, text) /\ armed' = Stopped
      /\ UNCHANGED <<fired, timers>>
  BY <1>2 DEF DropAndSend
<1>5. TimersOK'
  BY <1>1, <1>3, <1>4 DEF TimersOK, Stopped
<1>6. ms \in Seq(Message) /\ Len(ms) \in Nat
  BY <1>1, <1>3 DEF Shape
<1>7. /\ messages' \in Seq(Message)
      /\ Len(messages') = IF text = {} THEN Len(ms) ELSE Len(ms) + 1
      /\ \A i \in 1 .. Len(ms) : messages'[i] = ms[i]
      /\ text # {} => /\ messages'[Len(ms) + 1].text = text
                      /\ messages'[Len(ms) + 1].final /\ ~messages'[Len(ms) + 1].gone
  BY <1>4, <1>6, SentFacts
<1>8. Len(messages') >= Len(ms)
  BY <1>6, <1>7
<1>9. Shape(preview', messages') /\ Owned(preview', messages')
  BY <1>3, <1>4, <1>7, <1>8, Extended
<1>10. Touches(preview, messages, messages')
  BY <1>1, <1>3, <1>7, <1>8, TouchesBoth
<1>11. \A i \in 1 .. Len(messages') : i \in 1 .. Len(messages) \/
         (text # {} /\ messages'[i].final)
  BY <1>1, <1>3, <1>7
<1>12. preview.handle # 0 /\ "clean" \in caps => messages'[preview.handle].gone
  BY <1>1, <1>3, <1>7
<1>13. \A c \in text : \E i \in 1 .. Len(messages') :
         ~messages'[i].gone /\ c \in messages'[i].text
  <2>1. text # {} => Len(ms) + 1 \in 1 .. Len(messages')
    BY <1>6, <1>7
  <2> QED BY <1>7, <2>1
<1> QED BY <1>5, <1>9, <1>10, <1>11, <1>12, <1>13

\* What the end of a turn leaves.
Ending ==
  PreviewStep /\ Complete' /\ Tidy'

\* Whatever of its text the agent repeats with the result, all of it is sent.
LEMMA AnswersWhole ==
  ASSUME LoopOK, ~tools => block = 0, "tool" \in shown => block <= segment,
         ~(tools /\ segment > 0), NEW text \in Answers
  PROVE  text \in SUBSET Chunks /\ text # {} /\ 1 .. parts \subseteq text
<1> DEFINE all == 1 .. parts
           Whole(t) == IF t # {} THEN t ELSE IF all # {} THEN all ELSE {Notice}
<1>1. /\ all \in SUBSET Chunks /\ block + 1 .. parts \in SUBSET Chunks
      /\ {Notice} \in SUBSET Chunks /\ segment \in Nat
  BY LoopTexts
<1>2. PICK t \in {all, block + 1 .. parts, {}} :
        /\ text = Whole(t)
        /\ t = block + 1 .. parts => ~(segment = 0 /\ "tool" \notin shown) \/ t = all
  BY DEF Answers
<1>3. block + 1 .. parts = all \/ (segment = 0 /\ "tool" \notin shown)
  <2>1. block \in Nat
    BY LoopTexts, PreviewAssumption DEF LoopOK
  <2>2. ~(segment = 0 /\ "tool" \notin shown) => block = 0
    BY <1>1, <2>1
  <2> QED BY <2>2
<1>4. t \in {all, {}}
  BY <1>2, <1>3
<1> HIDE DEF all
<1>5. text = IF all # {} THEN all ELSE {Notice}
  BY <1>2, <1>4
<1> QED BY <1>1, <1>5 DEF all

LEMMA SilentStep ==
  ASSUME PreviewInv, End("silent"), Dropped
  PROVE  Ending
<1>1. /\ Standing /\ LoopOK /\ Shape(preview, messages)
      /\ UNCHANGED <<caps, segment>> /\ outcome' = "silent"
  BY DEF PreviewInv, End
<1>2. {} \in SUBSET Chunks /\ DropAndSend({})
  BY DEF Dropped
<1>3. /\ TimersOK' /\ Shape(preview', messages') /\ Owned(preview', messages')
      /\ Touches(preview, messages, messages')
      /\ \A i \in 1 .. Len(messages') : i \in 1 .. Len(messages)
      /\ preview.handle # 0 /\ "clean" \in caps => messages'[preview.handle].gone
  <2>1. PICK text \in SUBSET Chunks : text = {} /\ DropAndSend(text)
    BY <1>2
  <2> QED BY <2>1, DropStep
<1>4. PreviewInv'
  BY <1>3, TurnOver DEF Outcomes
<1>5. Complete'
  BY <1>1 DEF Complete
<1>6. Tidy'
  BY <1>1, <1>3, Tidied
<1> QED BY <1>3, <1>4, <1>5, <1>6 DEF Ending, PreviewStep

LEMMA StopStep ==
  ASSUME PreviewInv, Stop
  PROVE  Ending
<1>1. /\ {} \in SUBSET Chunks /\ DropAndSend({}) /\ End("stopped")
      /\ outcome' = "stopped"
  BY DEF Stop, Dropped, End
<1>2. /\ TimersOK' /\ Shape(preview', messages') /\ Owned(preview', messages')
      /\ Touches(preview, messages, messages')
  BY <1>1, DropStep
<1>3. PreviewInv'
  BY <1>1, <1>2, TurnOver DEF Outcomes
<1>4. Complete' /\ Tidy'
  BY <1>1 DEF Complete, Tidy
<1> QED BY <1>2, <1>3, <1>4 DEF Ending, PreviewStep

\* The rest of the text is sent beside the segments.
LEMMA RestStep ==
  ASSUME PreviewInv, NEW how \in {"result", "closed"}, End(how), DropAndSend(Segment)
  PROVE  Ending
<1>1. /\ Standing /\ LoopOK /\ outcome' = how
      /\ UNCHANGED <<caps, segment, parts, lapsed>>
  BY DEF PreviewInv, End
<1>2. Segment \in SUBSET Chunks
  BY <1>1, LoopTexts
<1>3. /\ TimersOK' /\ Shape(preview', messages') /\ Owned(preview', messages')
      /\ Touches(preview, messages, messages')
      /\ \A i \in 1 .. Len(messages') : i \in 1 .. Len(messages) \/ messages'[i].final
      /\ preview.handle # 0 /\ "clean" \in caps => messages'[preview.handle].gone
      /\ \A c \in Segment : \E i \in 1 .. Len(messages') :
           ~messages'[i].gone /\ c \in messages'[i].text
  BY <1>2, DropStep
<1>4. PreviewInv'
  BY <1>3, TurnOver DEF Outcomes
<1>5. Complete'
  BY <1>1, <1>3, Completed
<1>6. Tidy'
  <2>1. CASE how = "result"
    BY <1>1, <1>3, <2>1, Tidied
  <2>2. CASE how = "closed"
    BY <1>1, <2>2 DEF Tidy
  <2> QED BY <2>1, <2>2
<1> QED BY <1>3, <1>4, <1>5, <1>6 DEF Ending, PreviewStep

\* The answer takes the preview's place, or the preview goes.
LEMMA AnswerStep ==
  ASSUME PreviewInv, End("result"), ~(tools /\ segment > 0),
         NEW text \in Answers, NEW r \in Finish(preview, messages, text),
         preview' = r[2], messages' = IF r[1] THEN r[3] ELSE Sent(r[3], text),
         armed' = Stopped, UNCHANGED <<fired, timers>>
  PROVE  Ending
<1>1. /\ Standing /\ LoopOK /\ TimersOK /\ outcome' = "result"
      /\ Shape(preview, messages) /\ Owned(preview, messages)
      /\ UNCHANGED <<caps, segment, parts, lapsed>>
      /\ preview.handle \in 0 .. Len(messages) /\ Len(messages) \in Nat
      /\ messages \in Seq(Message) /\ preview \in View
  BY DEF PreviewInv, End, Shape
<1>2. text \in SUBSET Chunks /\ text # {} /\ Segment \subseteq text
  <2>1. text \in SUBSET Chunks /\ text # {} /\ 1 .. parts \subseteq text
    BY <1>1, AnswersWhole DEF Standing
  <2> QED BY <1>1, <2>1, LoopTexts
<1>3. /\ r[1] \in BOOLEAN /\ r[2] = Untimed(preview)
      /\ Shape(r[2], r[3]) /\ Owned(r[2], r[3]) /\ Touches(preview, messages, r[3])
      /\ Len(r[3]) = Len(messages)
      /\ r[1] => /\ preview.handle # 0 /\ r[3][preview.handle].final
                 /\ r[3][preview.handle].gone = messages[preview.handle].gone
                 /\ r[3][preview.handle].text = text
      /\ ~r[1] /\ preview.handle # 0 /\ "clean" \in caps => r[3][preview.handle].gone
  BY <1>1, <1>2, FinishFacts DEF Standing
<1>4. TimersOK'
  <2>1. preview'.timer = 0
    BY <1>1, <1>3, UntimedFacts
  <2> QED BY <1>1, <2>1 DEF TimersOK, Stopped
<1>5. /\ Shape(preview', messages') /\ Owned(preview', messages')
      /\ Touches(preview, messages, messages')
      /\ \A i \in 1 .. Len(messages') : i \in 1 .. Len(messages) \/ messages'[i].final
      /\ preview.handle # 0 /\ "clean" \in caps =>
           messages'[preview.handle].gone \/ messages'[preview.handle].final
      /\ \E i \in 1 .. Len(messages') : ~messages'[i].gone /\ messages'[i].text = text
  <2>1. CASE r[1]
    <3>1. messages' = r[3] /\ preview' = r[2]
      BY <2>1
    <3>2. preview.handle \in 1 .. Len(messages') /\ ~messages'[preview.handle].gone
      BY <1>1, <1>3, <2>1, <3>1 DEF Standing, Placed
    <3> QED BY <1>3, <2>1, <3>1, <3>2
  <2>2. CASE ~r[1]
    <3>1. messages' = Sent(r[3], text) /\ r[3] \in Seq(Message)
      BY <1>3, <2>2 DEF Shape
    <3>2. /\ messages' \in Seq(Message) /\ Len(messages') = Len(r[3]) + 1
          /\ \A i \in 1 .. Len(r[3]) : messages'[i] = r[3][i]
          /\ messages'[Len(r[3]) + 1].text = text
          /\ messages'[Len(r[3]) + 1].final /\ ~messages'[Len(r[3]) + 1].gone
      BY <1>2, <3>1, SentFacts
    <3>3. Len(messages') >= Len(r[3])
      BY <1>1, <1>3, <3>2
    <3>4. Shape(preview', messages') /\ Owned(preview', messages')
      <4>1. PICK v, ms : v = r[2] /\ ms = r[3]
        OBVIOUS
      <4>2. Shape(v, ms) /\ Owned(v, ms) /\ preview' = v
        BY <1>3, <4>1
      <4>3. Len(messages') >= Len(ms) /\ \A i \in 1 .. Len(ms) : messages'[i] = ms[i]
        BY <3>2, <3>3, <4>1
      <4>4. messages' \in Seq(Message)
        BY <3>2
      <4>5. Shape(v, messages') /\ Owned(v, messages')
        BY <4>2, <4>3, <4>4, Extended, ZenonT(30)
      <4> QED BY <4>2, <4>5
    <3>5. Touches(preview, messages, messages')
      BY <1>1, <1>3, <3>2, <3>3, TouchesBoth
    <3>6. \A i \in 1 .. Len(messages') : i \in 1 .. Len(messages) \/ messages'[i].final
      BY <1>1, <1>3, <3>2
    <3>7. preview.handle # 0 /\ "clean" \in caps => messages'[preview.handle].gone
      BY <1>1, <1>3, <2>2, <3>2
    <3>8. Len(r[3]) + 1 \in 1 .. Len(messages')
      BY <1>1, <1>3, <3>2
    <3> QED BY <3>2, <3>4, <3>5, <3>6, <3>7, <3>8
  <2> QED BY <1>3, <2>1, <2>2
<1>6. PreviewInv'
  BY <1>4, <1>5, TurnOver DEF Outcomes
<1>7. Complete'
  BY <1>1, <1>2, <1>5, Completed
<1>8. Tidy'
  BY <1>1, <1>5, Tidied
<1> QED BY <1>5, <1>6, <1>7, <1>8 DEF Ending, PreviewStep

LEMMA ResultStep ==
  ASSUME PreviewInv, Result
  PROVE  Ending
<1>1. CASE End("silent") /\ Dropped
  BY <1>1, SilentStep
<1>2. CASE End("result") /\ DropAndSend(Segment)
  BY <1>2, RestStep
<1>3. CASE /\ ~(tools /\ segment > 0)
           /\ End("result")
           /\ \E text \in Answers : \E r \in Finish(preview, messages, text) :
                /\ preview' = r[2]
                /\ messages' = IF r[1] THEN r[3] ELSE Sent(r[3], text)
           /\ armed' = Stopped /\ UNCHANGED <<fired, timers>>
  BY <1>3, AnswerStep
<1> QED BY <1>1, <1>2, <1>3 DEF Result

LEMMA ClosedStep ==
  ASSUME PreviewInv, Closed
  PROVE  Ending
<1>1. CASE End("silent") /\ Dropped
  BY <1>1, SilentStep
<1>2. CASE End("closed") /\ DropAndSend(Segment)
  BY <1>2, RestStep
<1>3. CASE /\ End("closed")
           /\ messages' = Sent(messages, 1 .. parts)
           /\ UNCHANGED <<preview, timerVars>>
  <2>1. /\ Standing /\ LoopOK /\ TimersOK /\ outcome' = "closed"
        /\ Shape(preview, messages) /\ Owned(preview, messages)
        /\ UNCHANGED <<parts, lapsed>>
        /\ Len(messages) \in Nat /\ messages \in Seq(Message)
    BY <1>3 DEF PreviewInv, End, Shape
  <2>2. 1 .. parts \in SUBSET Chunks /\ Segment \subseteq 1 .. parts
    BY <2>1, LoopTexts
  <2>3. /\ messages' \in Seq(Message)
        /\ Len(messages') = IF 1 .. parts = {} THEN Len(messages) ELSE Len(messages) + 1
        /\ \A i \in 1 .. Len(messages) : messages'[i] = messages[i]
        /\ 1 .. parts # {} => /\ messages'[Len(messages) + 1].text = 1 .. parts
                              /\ ~messages'[Len(messages) + 1].gone
    <3>1. PICK text \in SUBSET Chunks : text = 1 .. parts
      BY <2>2
    <3>2. messages' = Sent(messages, text)
      BY <1>3, <3>1
    <3>3. /\ Sent(messages, text) \in Seq(Message)
          /\ Len(Sent(messages, text)) =
               IF text = {} THEN Len(messages) ELSE Len(messages) + 1
          /\ \A i \in 1 .. Len(messages) : Sent(messages, text)[i] = messages[i]
          /\ text # {} => /\ Sent(messages, text)[Len(messages) + 1].text = text
                          /\ ~Sent(messages, text)[Len(messages) + 1].gone
      BY <2>1, SentFacts
    <3> QED BY <3>1, <3>2, <3>3
  <2>4. Len(messages') >= Len(messages)
    BY <2>1, <2>3
  <2>5. /\ Shape(preview, messages') /\ Owned(preview, messages')
        /\ Touches(preview, messages, messages')
    BY <2>1, <2>3, <2>4, Extended
  <2>6. TimersOK'
    BY <1>3, <2>1 DEF TimersOK, timerVars
  <2>7. PreviewInv'
    BY <1>3, <2>5, <2>6, TurnOver DEF Outcomes
  <2>8. \A c \in Segment : \E i \in 1 .. Len(messages') :
          ~messages'[i].gone /\ c \in messages'[i].text
    <3>1. 1 .. parts # {} => Len(messages) + 1 \in 1 .. Len(messages')
      BY <2>1, <2>3
    <3> QED BY <2>2, <2>3, <3>1
  <2>9. Complete'
    BY <2>1, <2>5, <2>8, Completed
  <2>10. Tidy'
    BY <2>1 DEF Tidy
  <2> QED BY <2>5, <2>7, <2>9, <2>10 DEF Ending, PreviewStep
<1> QED BY <1>1, <1>2, <1>3 DEF Closed

-----------------------------------------------------------------------------
(* Timers *)

LEMMA FireStep ==
  ASSUME PreviewInv, NEW t \in armed, Fire(t)
  PROVE  PreviewStep /\ Len(messages') = Len(messages) /\ outcome' = outcome
<1>1. /\ armed' = armed \ {t} /\ fired' = fired \cup {t}
      /\ UNCHANGED <<caps, shown, preview, messages, timers, loopVars, lapsed>>
  BY DEF Fire
<1>2. TimersOK'
  BY <1>1 DEF PreviewInv, TimersOK
<1>3. LoopOK' /\ (Standing => Standing') /\ outcome' = outcome
  BY <1>1 DEF PreviewInv, LoopOK, loopVars, Standing
<1>4. Touches(preview, messages, messages')
  BY <1>1 DEF PreviewInv, Touches, Shape
<1> QED BY <1>1, <1>2, <1>3, <1>4 DEF PreviewInv, PreviewStep

LEMMA CallbackStep ==
  ASSUME PreviewInv, NEW t \in fired, Callback(t)
  PROVE  /\ PreviewStep /\ outcome' = outcome
         /\ outcome # "running" => Len(messages') = Len(messages)
<1> DEFINE s == Untimed(preview)
<1>1. /\ Shape(preview, messages) /\ Owned(preview, messages) /\ TimersOK /\ LoopOK
      /\ preview \in View
      /\ fired' = fired \ {t}
      /\ UNCHANGED <<caps, shown, armed, timers, loopVars, lapsed>>
  BY DEF PreviewInv, Shape, Callback
<1>2. /\ s \in View /\ s.timer = 0 /\ s.handle = preview.handle
      /\ s.degraded = preview.degraded /\ s.full = preview.full
      /\ s.last = preview.last /\ s.viaUpdate = preview.viaUpdate
  BY <1>1, UntimedFacts
<1>3. CASE preview.degraded
  <2>1. preview' = s /\ messages' = messages
    BY <1>3 DEF Callback
  <2> HIDE DEF s
  <2>2. Shape(preview', messages') /\ Owned(preview', messages')
    BY <1>1, <1>2, <2>1 DEF Shape, Owned, Ready
  <2>3. TimersOK'
    BY <1>1, <1>2, <2>1 DEF TimersOK
  <2>4. LoopOK' /\ outcome' = outcome /\ segment' = segment
    BY <1>1 DEF LoopOK, loopVars
  <2>5. Standing => Standing'
    BY <1>1, <1>2, <2>1 DEF Standing, Placed, Seen, Mirrors, loopVars
  <2>6. Touches(preview, messages, messages')
    BY <1>1, <2>1 DEF Touches, Shape
  <2> QED BY <2>1, <2>2, <2>3, <2>4, <2>5, <2>6 DEF PreviewInv, PreviewStep
<1>4. CASE ~preview.degraded
  <2>1. PICK r \in Flush(s, messages) : preview' = r[1] /\ messages' = r[2]
    BY <1>4 DEF Callback
  <2> HIDE DEF s
  <2>2. Shape(s, messages) /\ Ready(s, messages)
    BY <1>1, <1>2 DEF Shape, Owned, Ready
  <2>3. /\ Shape(r[1], r[2]) /\ Owned(r[1], r[2]) /\ Touches(s, messages, r[2])
        /\ r[1].timer = s.timer
        /\ s.handle # 0 \/ Cut(s.full) = s.last => Len(r[2]) = Len(messages)
        /\ Mirrors(s, messages) => Mirrors(r[1], r[2])
        /\ \A n \in Nat : Placed(s, messages, n) => Placed(r[1], r[2], n)
        /\ \A c : Seen(c, s, messages) => Seen(c, r[1], r[2])
    BY <2>2, FlushFacts
  <2>4. Touches(preview, messages, messages')
    BY <1>2, <2>1, <2>3 DEF Touches
  <2>5. Len(messages') = Len(messages)
    <3>1. preview.handle = 0 => Cut(preview.full) = preview.last
      BY <1>1, <1>4 DEF Owned, Ready
    <3> QED BY <1>2, <2>1, <2>3, <3>1
  <2>6. TimersOK'
    BY <1>1, <1>2, <2>1, <2>3 DEF TimersOK
  <2>7. LoopOK' /\ outcome' = outcome
    BY <1>1 DEF LoopOK, loopVars
  <2>8. Standing => Standing'
    <3>1. /\ Mirrors(preview, messages) => Mirrors(s, messages)
          /\ Placed(preview, messages, segment) => Placed(s, messages, segment)
          /\ \A c : Seen(c, preview, messages) => Seen(c, s, messages)
      BY <1>2 DEF Mirrors, Placed, Seen
    <3>2. segment \in Nat
      BY <1>1, LoopTexts
    <3> QED BY <1>1, <2>1, <2>3, <3>1, <3>2 DEF Standing, loopVars
  <2> QED BY <2>1, <2>3, <2>4, <2>5, <2>6, <2>7, <2>8 DEF PreviewInv, PreviewStep
<1> QED BY <1>3, <1>4

-----------------------------------------------------------------------------
(* The theorems *)

\* What any step of the turn, or of a timer, does.
Behaved ==
  /\ PreviewStep
  /\ outcome = "running" => Complete' /\ Tidy'
  /\ outcome # "running" => Len(messages') = Len(messages)

LEMMA PreviewBehaves ==
  ASSUME PreviewInv, [PreviewNext]_previewVars
  PROVE  PreviewInv' /\ (PreviewNext => Behaved)
<1>1. ASSUME NEW marker \in BOOLEAN, Text(marker) PROVE Behaved
  <2>1. outcome = "running" /\ outcome' = "running"
    BY <1>1 DEF Text
  <2> QED BY <1>1, <2>1, TextStep DEF Behaved, Complete, Tidy
<1>2. ASSUME NEW kind, Break(kind) PROVE Behaved
  <2>1. outcome = "running" /\ outcome' = "running"
    BY <1>2 DEF Break
  <2> QED BY <1>2, <2>1, BreakStep DEF Behaved, Complete, Tidy
<1>3. ASSUME Result \/ Closed \/ Stop PROVE Behaved
  <2>1. outcome = "running"
    BY <1>3 DEF Result, Closed, Stop, End
  <2> QED BY <1>3, <2>1, ResultStep, ClosedStep, StopStep DEF Behaved, Ending
<1>4. ASSUME NEW t \in armed, Fire(t) PROVE Behaved
  BY <1>4, FireStep DEF Behaved, Complete, Tidy
<1>5. ASSUME NEW t \in fired, Callback(t) PROVE Behaved
  BY <1>5, CallbackStep DEF Behaved, Complete, Tidy
<1>6. PreviewNext => Behaved
  BY <1>1, <1>2, <1>3, <1>4, <1>5 DEF PreviewNext
<1>7. CASE PreviewNext
  BY <1>6, <1>7 DEF Behaved, PreviewStep
<1>8. CASE UNCHANGED previewVars
  <2>1. /\ UNCHANGED <<caps, shown, preview, messages, lapsed>>
        /\ UNCHANGED <<armed, fired, timers>>
        /\ UNCHANGED <<parts, segment, block, hold, tools, breaks, outcome>>
    BY <1>8 DEF previewVars, timerVars, loopVars
  <2>2. LoopOK' /\ TimersOK' /\ (Standing => Standing')
    BY <2>1 DEF PreviewInv, LoopOK, TimersOK, Standing
  <2> QED BY <1>6, <2>1, <2>2 DEF PreviewInv
<1> QED BY <1>6, <1>7, <1>8

\* The inductive invariant of a turn's output: one preview among the messages,
\* the loop's and the timers' books, and where the segments that have ended are.
THEOREM PreviewInductive == PreviewSpec => []PreviewInv
<1>1. PreviewInit => PreviewInv
  BY PreviewStart
<1>2. PreviewInv /\ [PreviewNext]_previewVars => PreviewInv'
  BY PreviewBehaves
<1> QED BY <1>1, <1>2, PTL DEF PreviewSpec

\* Every reachable state of a turn's output is well formed, whatever the
\* platform can do and refuses.
THEOREM PreviewTypeCorrect == PreviewSpec => []PreviewTypeOK
BY PreviewInductive, PreviewTyped, PTL

\* When a turn ends with a result or with the agent's exit, every chunk of the
\* agent's text is before the user (Delivered), except what lapsed.
THEOREM PreviewDelivered == PreviewSpec => Delivered
<1>1. PreviewInv /\ [PreviewNext]_previewVars
        => [outcome = "running" => Complete']_previewVars
  BY PreviewBehaves DEF Behaved
<1> QED BY <1>1, PreviewInductive, PTL DEF PreviewSpec, Delivered

\* On a platform that can delete, a result leaves no preview beside it, and a
\* silent answer no trace (NoGhost).
THEOREM PreviewNoGhost == PreviewSpec => NoGhost
<1>1. PreviewInv /\ [PreviewNext]_previewVars
        => [outcome = "running" => Tidy']_previewVars
  BY PreviewBehaves DEF Behaved
<1> QED BY <1>1, PreviewInductive, PTL DEF PreviewSpec, NoGhost

\* The message of a segment is not touched any more (SegmentsStand).
THEOREM PreviewSegmentsStand == PreviewSpec => SegmentsStand
<1>1. ASSUME PreviewInv, PreviewNext,
             NEW i \in 1 .. Len(messages), messages[i].kept
      PROVE  messages'[i] = messages[i]
  <2>1. Touches(preview, messages, messages')
    BY <1>1, PreviewBehaves DEF Behaved, PreviewStep
  <2>2. i # preview.handle
    <3>1. i # 0
      BY <1>1 DEF PreviewInv, Shape
    <3> QED BY <1>1, <3>1 DEF PreviewInv, Owned, Ready
  <2> QED BY <2>1, <2>2 DEF Touches
<1>2. PreviewInv /\ [PreviewNext]_previewVars
        => [\A i \in 1 .. Len(messages) : messages[i].kept
              => messages'[i] = messages[i]]_previewVars
  BY <1>1
<1> QED BY <1>2, PreviewInductive, PTL DEF PreviewSpec, SegmentsStand

\* A timer that fires after the turn posts nothing (NoAfterword).
THEOREM PreviewNoAfterword == PreviewSpec => NoAfterword
<1>1. PreviewInv /\ [PreviewNext]_previewVars
        => [outcome # "running" => Len(messages') = Len(messages)]_previewVars
  BY PreviewBehaves DEF Behaved
<1> QED BY <1>1, PreviewInductive, PTL DEF PreviewSpec, NoAfterword

=============================================================================
