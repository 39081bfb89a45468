---------------------------- MODULE AgentProcess ----------------------------
(***************************************************************************)
(* A Claude Code process and the claudeSession around it                   *)
(* (agent/claudecode/session.go).  readLoop turns the lines of the         *)
(* process's output into events; some lines ask for a permission that the  *)
(* session answers itself.  One goroutine waits for the process and        *)
(* another closes the output when the wait is over; turns and answers      *)
(* write to the process's input; Close asks it to end, in three steps.     *)
(*                                                                         *)
(* The process, its descendants, the pipes and os/exec are external.  Wait *)
(* closes the read end of the output before it returns, and returns only   *)
(* when nobody holds the error output any more, whoever holds the output.  *)
(***************************************************************************)
EXTENDS Naturals, Sequences

CONSTANTS
  Writers,    \* the goroutines that write to the input: turns and answers
  MaxLines,   \* lines of output
  PipeSize,   \* lines a pipe holds
  Buffer,     \* events the channel holds (64)
  Hangs       \* a subset of HangKinds

\* What the process may fail to do: to read its input, to exit at the end of its
\* input, to exit on SIGTERM, to write lines that the scanner can take; whether
\* descendants may outlive it ("heirs") and leave its process group ("apart");
\* and whether the kernel may refuse the SIGKILL ("refused": EPERM under run_as_user).
HangKinds == {"input", "eof", "term", "long", "heirs", "apart", "refused"}

ASSUME AgentProcessAssumption ==
  /\ {"reader", "none"} \cap Writers = {}
  /\ MaxLines \in Nat /\ {PipeSize, Buffer} \subseteq Nat \ {0}
  /\ Hangs \subseteq HangKinds

VARIABLES
  proc,      \* "running" or "exited"
  heirs,     \* the outputs that its descendants hold
  apart,     \* have these left its process group?
  inbox,     \* lines in the input pipe
  stdin,     \* is our end of it open?
  out,       \* lines in the output pipe
  produced,  \* lines written to it
  stdout,    \* is our end of it open?
  wait,      \* cmd.Wait: "running", "closing", "returned" (waitDone)
  guard,     \* the goroutine that closes stdout: "watch", "grace", "gone"
  reader,    \* readLoop
  scanned,   \* lines it has taken
  events,    \* the channel
  closed,    \* are events and done closed?
  alive,     \* cs.alive
  mutex,     \* who holds stdinMu
  writer,    \* where each writer is
  cancelled, \* is ctx done?
  closing    \* Close

procVars == <<proc, heirs, apart>>
inVars == <<inbox, stdin>>
outVars == <<out, produced, stdout>>
readVars == <<reader, scanned, events, closed, alive>>
writeVars == <<mutex, writer>>
vars == <<procVars, inVars, outVars, wait, guard, readVars, writeVars, cancelled,
          closing>>

\* A "long" line is longer than the scanner's buffer.
Lines == {"text", "ask", "long"}
Outputs == {"out", "err"}
Events == {"text", "alarm", "failure"}

\* "emit" sends the event of a line, "alarm" that of a failed scan, "failure"
\* that of a failed process.
ReaderPcs == {"scan", "emit", "ask", "write", "alarm", "wait", "failure", "end", "gone"}

TypeOK ==
  /\ proc \in {"running", "exited"} /\ heirs \in SUBSET Outputs
  /\ apart \in BOOLEAN
  /\ inbox \in 0 .. PipeSize /\ stdin \in BOOLEAN
  /\ out \in Seq(Lines) /\ Len(out) <= PipeSize
  /\ produced \in 0 .. MaxLines /\ stdout \in BOOLEAN
  /\ wait \in {"running", "closing", "returned"}
  /\ guard \in {"watch", "grace", "gone"}
  /\ reader \in ReaderPcs /\ scanned \in 0 .. produced
  /\ events \in Seq(Events) /\ Len(events) <= Buffer
  /\ closed \in BOOLEAN /\ alive \in BOOLEAN
  /\ writer \in [Writers -> {"idle", "lock", "write", "end"}]
  /\ mutex \in Writers \cup {"reader", "none"}
  /\ cancelled \in BOOLEAN
  /\ closing \in {"no", "lock", "graceful", "term", "kill", "refused", "returned"}

Init ==
  /\ proc = "running" /\ heirs = {} /\ apart = FALSE
  /\ inbox = 0 /\ stdin = TRUE
  /\ out = <<>> /\ produced = 0 /\ stdout = TRUE
  /\ wait = "running" /\ guard = "watch"
  /\ reader = "scan" /\ scanned = 0 /\ events = <<>> /\ closed = FALSE /\ alive = TRUE
  /\ mutex = "none" /\ writer = [w \in Writers |-> "idle"]
  /\ cancelled = FALSE /\ closing = "no"

-----------------------------------------------------------------------------
(* The process *)

procOnly == <<outVars, inVars, wait, guard, readVars, writeVars, cancelled, closing>>

\* Somebody still has the other end of an output.
HeldOpen(o) == proc = "running" \/ o \in heirs

Produce(line) ==
  /\ HeldOpen("out") /\ stdout /\ (line = "long" => "long" \in Hangs)
  /\ produced < MaxLines /\ Len(out) < PipeSize
  /\ out' = Append(out, line) /\ produced' = produced + 1
  /\ UNCHANGED <<procVars, inVars, stdout, wait, guard, readVars, writeVars, cancelled,
                 closing>>

Ingest ==
  /\ proc = "running" /\ inbox > 0
  /\ inbox' = inbox - 1
  /\ UNCHANGED <<procVars, stdin, outVars, wait, guard, readVars, writeVars, cancelled,
                 closing>>

\* Of the descendants it leaves, those that hold an output are in its process
\* group or have left it.
Die ==
  /\ proc = "running" /\ proc' = "exited"
  /\ heirs' \in (IF "heirs" \in Hangs THEN SUBSET Outputs ELSE {{}})
  /\ apart' \in (IF "apart" \in Hangs /\ heirs' # {} THEN BOOLEAN ELSE {FALSE})
  /\ UNCHANGED procOnly

Depart(holders) ==
  /\ heirs' = heirs \ holders /\ apart' = (apart /\ heirs' # {})
  /\ UNCHANGED proc /\ UNCHANGED procOnly

\* It exits of its own accord; so do descendants.
Exit == Die
HeirExits == \E o \in heirs : Depart({o})

ExitAtEof == ~stdin /\ inbox = 0 /\ Die

\* A signal ends the process and every descendant in its group.
Signalled ==
  \/ Die /\ (heirs' # {} => apart')
  \/ heirs # {} /\ ~apart /\ Depart(heirs)

ExitOnTerm == closing = "term" /\ Signalled
Killed == closing = "kill" /\ Signalled

\* The end of the context kills the process alone, if the kernel lets it.
ContextEnds == cancelled /\ Die

\* cmd.Wait
WaitEnds ==
  \/ /\ wait = "running" /\ ~HeldOpen("err")
     /\ wait' = "closing" /\ stdout' = FALSE
  \/ /\ wait = "closing"
     /\ wait' = "returned" /\ UNCHANGED stdout
WaitStep ==
  WaitEnds /\ UNCHANGED <<procVars, inVars, out, produced, guard, readVars, writeVars,
                          cancelled, closing>>

\* The goroutine that closes the output, at once or after a grace period.
Guard ==
  /\ \/ /\ guard = "watch" /\ wait = "returned"
        /\ guard' = "grace" /\ UNCHANGED stdout
     \/ /\ guard = "grace" /\ closed
        /\ guard' = "gone" /\ UNCHANGED stdout
     \/ /\ (guard = "watch" /\ cancelled) \/ guard = "grace"
        /\ guard' = "gone" /\ stdout' = FALSE
  /\ UNCHANGED <<procVars, inVars, out, produced, wait, readVars, writeVars, cancelled,
                 closing>>

-----------------------------------------------------------------------------
(* readLoop *)

readOnly == <<procVars, inVars, produced, stdout, wait, guard, writer, cancelled, closing>>
Read(to) == reader' = to /\ UNCHANGED readOnly

\* What the loop goes on to after an error: to report it, unless the session is
\* ending.
Alarm == IF cancelled \/ wait = "returned" THEN "wait" ELSE "alarm"

\* The next line, or the end of the output, which is an error unless everybody
\* else has closed it.  So is a line that is too long: nobody reads the rest.
Scan ==
  /\ reader = "scan"
  /\ \/ /\ stdout /\ out # <<>>
        /\ out' = Tail(out) /\ scanned' = scanned + 1
        /\ Read(CASE Head(out) = "text" -> "emit" [] Head(out) = "ask" -> "ask"
                  [] Head(out) = "long" -> Alarm)
     \/ /\ stdout /\ out = <<>> /\ ~HeldOpen("out")
        /\ Read("wait") /\ UNCHANGED <<out, scanned>>
     \/ ~stdout /\ Read(Alarm) /\ UNCHANGED <<out, scanned>>
  /\ UNCHANGED <<events, closed, alive, mutex>>

\* Mutant of Emit: an event waits for room whatever happens.
EmitPatient ==
  /\ reader \in {"emit", "alarm", "failure"} /\ Len(events) < Buffer
  /\ events' = Append(events, IF reader = "emit" THEN "text" ELSE reader)
  /\ Read(CASE reader = "emit" -> "scan" [] reader = "alarm" -> "wait"
            [] reader = "failure" -> "end")
  /\ UNCHANGED <<out, scanned, closed, alive, mutex>>

\* An event is sent, or is dropped when the context is done.
Emit ==
  /\ reader \in {"emit", "alarm", "failure"}
  /\ \/ /\ Len(events) < Buffer
        /\ events' = Append(events, IF reader = "emit" THEN "text" ELSE reader)
     \/ cancelled /\ UNCHANGED events
  /\ Read(CASE reader = "emit" -> "scan" [] reader = "alarm" -> "wait"
            [] reader = "failure" -> "end")
  /\ UNCHANGED <<out, scanned, closed, alive, mutex>>

\* RespondPermission, by the reader itself: until it ends, the session is alive.
Answer ==
  /\ reader = "ask" /\ mutex = "none"
  /\ mutex' = "reader" /\ Read("write")
  /\ UNCHANGED <<out, scanned, events, closed, alive>>

\* A write to the input, under stdinMu: it blocks while the pipe is full.
Writable == ~stdin \/ proc # "running" \/ inbox < PipeSize
Put == inbox' = IF stdin /\ proc = "running" THEN inbox + 1 ELSE inbox

ReaderWrites ==
  /\ reader = "write" /\ Writable /\ Put
  /\ mutex' = "none" /\ reader' = "scan"
  /\ UNCHANGED <<procVars, stdin, outVars, wait, guard, scanned, events, closed, alive,
                 writer, cancelled, closing>>

\* Mutant of FinishReadLoop: readLoop does not wait for the process.
FinishUnwaited ==
  /\ \/ /\ reader = "wait"
        /\ alive' = FALSE
        /\ \E to \in {"end", "failure"} : Read(to)
        /\ UNCHANGED closed
     \/ reader = "end" /\ closed' = TRUE /\ Read("gone") /\ UNCHANGED alive
  /\ UNCHANGED <<out, scanned, events, mutex>>

\* Mutant of FinishReadLoop: the goroutine that waits tells of the failure by itself.
FinishAtOnce ==
  /\ \/ /\ alive /\ wait = "returned"
        /\ Len(events) < Buffer /\ events' = Append(events, "failure")
        /\ alive' = FALSE /\ Read(reader) /\ UNCHANGED closed
     \/ /\ reader = "wait" /\ wait = "returned"
        /\ alive' = FALSE /\ Read("end") /\ UNCHANGED <<events, closed>>
     \/ reader = "end" /\ closed' = TRUE /\ Read("gone") /\ UNCHANGED <<events, alive>>
  /\ UNCHANGED <<out, scanned, mutex>>

\* Mutant of FinishReadLoop: the session is alive until the engine has its last event.
FinishLate ==
  /\ \/ /\ reader = "wait" /\ wait = "returned"
        /\ \E to \in {"end", "failure"} : Read(to)
        /\ UNCHANGED <<closed, alive>>
     \/ reader = "end" /\ closed' = TRUE /\ alive' = FALSE /\ Read("gone")
  /\ UNCHANGED <<out, scanned, events, mutex>>

\* A process that has failed and said why on its error output gets a last event.
FinishReadLoop ==
  /\ \/ /\ reader = "wait" /\ wait = "returned"
        /\ alive' = FALSE
        /\ \E to \in {"end", "failure"} : Read(to)
        /\ UNCHANGED closed
     \/ reader = "end" /\ closed' = TRUE /\ Read("gone") /\ UNCHANGED alive
  /\ UNCHANGED <<out, scanned, events, mutex>>

-----------------------------------------------------------------------------
(* Writers *)

writeOnly == <<procVars, stdin, outVars, wait, guard, readVars, cancelled, closing>>
Go(w, to) == writer' = [writer EXCEPT ![w] = to] /\ UNCHANGED writeOnly

\* Send, or RespondPermission for a user's answer.
Send(w) ==
  /\ writer[w] = "idle"
  /\ Go(w, IF alive THEN "lock" ELSE "end")
  /\ UNCHANGED <<inbox, mutex>>

Lock(w) ==
  /\ writer[w] = "lock" /\ mutex = "none"
  /\ mutex' = w /\ Go(w, "write")
  /\ UNCHANGED inbox

Write(w) ==
  /\ writer[w] = "write" /\ Writable /\ Put
  /\ mutex' = "none" /\ Go(w, "end")

-----------------------------------------------------------------------------
(* The engine *)

\* A turn or a background reader takes an event.
Receive ==
  /\ events # <<>>
  /\ events' = Tail(events)
  /\ UNCHANGED <<procVars, inVars, outVars, wait, guard, reader, scanned, closed, alive,
                 writeVars, cancelled, closing>>

\* The engine is shut down.
Cancel ==
  /\ ~cancelled /\ cancelled' = TRUE
  /\ UNCHANGED <<procVars, inVars, outVars, wait, guard, readVars, writeVars, closing>>

closeOnly == <<procVars, inbox, outVars, wait, guard, readVars, writeVars>>
Close(from, to) == closing = from /\ closing' = to /\ UNCHANGED closeOnly

CloseCalled == Close("no", "lock") /\ UNCHANGED <<stdin, cancelled>>

\* Mutant of CloseSteps: after SIGTERM, Close waits for the process to end.
CloseStepsPatient ==
  \/ mutex = "none" /\ stdin' = FALSE /\ Close("lock", "graceful") /\ UNCHANGED cancelled
  \/ Close("graceful", "term") /\ UNCHANGED <<stdin, cancelled>>
  \/ \E from \in {"graceful", "term"} :
       closed /\ Close(from, "returned") /\ UNCHANGED <<stdin, cancelled>>

\* Close: the end of the input, then SIGTERM, then the end of the context and
\* SIGKILL, each after a timeout unless the session has ended.  That a signal is
\* refused is only logged; after the last one Close waits without a timeout.
CloseSteps ==
  \/ mutex = "none" /\ stdin' = FALSE /\ Close("lock", "graceful") /\ UNCHANGED cancelled
  \/ Close("graceful", "term") /\ UNCHANGED <<stdin, cancelled>>
  \/ /\ cancelled' = TRUE /\ UNCHANGED stdin
     /\ \/ Close("term", "kill")
        \/ "refused" \in Hangs /\ Close("term", "refused")
  \/ \E from \in {"graceful", "term", "kill", "refused"} :
       closed /\ Close(from, "returned") /\ UNCHANGED <<stdin, cancelled>>

-----------------------------------------------------------------------------

ReadLoop == Scan \/ Emit \/ Answer \/ ReaderWrites \/ FinishReadLoop
Writing(w) == Lock(w) \/ Write(w)

Next ==
  \/ \E line \in Lines : Produce(line)
  \/ Ingest \/ Exit \/ HeirExits \/ ExitAtEof \/ ExitOnTerm \/ Killed \/ ContextEnds
  \/ WaitStep \/ Guard \/ ReadLoop
  \/ \E w \in Writers : Send(w) \/ Writing(w)
  \/ Receive \/ Cancel \/ CloseCalled \/ CloseSteps

Spec == Init /\ [][Next]_vars

\* The scheduler and the timers; the kernel, for a SIGKILL that is not refused; the
\* process, as far as it does not hang: it reads its input even when its output
\* is full; and the engine, which need not read once the session is being closed or
\* the engine is shut down.  Descendants need never end.
Reads == Receive /\ closing = "no" /\ ~cancelled
Fairness ==
  /\ WF_vars(WaitStep) /\ WF_vars(Guard) /\ WF_vars(ReadLoop)
  /\ \A w \in Writers : SF_vars(Writing(w))
  /\ SF_vars(Answer) /\ SF_vars(CloseSteps)
  /\ WF_vars(Killed) /\ WF_vars(Reads)
  /\ "input" \notin Hangs => WF_vars(Ingest)
  /\ "eof" \notin Hangs => WF_vars(ExitAtEof)
  /\ {"term", "refused"} \cap Hangs = {} => WF_vars(ExitOnTerm)

FairSpec == Spec /\ Fairness

-----------------------------------------------------------------------------
(* Properties *)

\* A session that says it is not alive, or whose events are closed, has no
\* process any more and no descendant that can still write to its error output:
\* the engine starts another in its place.  A descendant that holds only the
\* output does not keep it alive (session_test.go:74).
NoTwin == ~alive \/ closed => ~HeldOpen("err")

\* The failure of a process is told after everything it has said, and the
\* engine that hears of it finds the session dead (core/engine.go:4580).
LastWord ==
  \A i \in 1 .. Len(events) : events[i] = "failure" => i = Len(events) /\ ~alive

\* What Close waits for after its last step (session.go:751) and cannot end: a
\* process that it may not kill, or descendants outside the group.
Unkillable == (closing = "refused" \/ (closing = "kill" /\ apart)) /\ HeldOpen("err")

\* A Close is not under way for ever, whatever the process and its descendants
\* ignore, if the process reads its input, unless what it cannot kill holds the
\* error output for ever: no wait of the reader, of a writer and of Close on one
\* another lasts.  (Close goes forward only, and Unkillable ends only once.)
CloseReturns == []<>(closing \in {"no", "returned"} \/ Unkillable)

\* Once the process is gone and nobody holds its error output, which nobody takes
\* hold of again, the session ends, with descendants that hold the output, with
\* nobody reading its events or with a full channel.
Ends == []<>(HeldOpen("err") \/ closed)

\* "events closed but system event lost" is what the test of
\* agent/claudecode/session_test.go:118 fails with: every line the process has
\* written is read before the events are closed.
OutputRead == closed /\ ~cancelled => scanned = produced

=============================================================================
