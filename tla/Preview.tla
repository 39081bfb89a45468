------------------------------- MODULE Preview -------------------------------
(***************************************************************************)
(* How the text of one turn reaches the user (core/streaming.go and the    *)
(* event loop of core/engine.go).  The agent's text comes in chunks.  They *)
(* are shown early in a preview message that is edited as the text grows,  *)
(* now or by a timer; a tool use, a thought or a permission request ends a *)
(* segment, whose preview is frozen and kept; the result replaces the      *)
(* preview or is sent beside it.  A timer that has fired waits for the     *)
(* preview's mutex, and writes when it gets it.                            *)
(*                                                                         *)
(* A text is the set of its chunks.  Cards, voice and side messages are    *)
(* left out, and a chunk's rendering.                                      *)
(***************************************************************************)
EXTENDS Naturals, Sequences, FiniteSets

CONSTANTS
  MaxText,       \* chunks of text in the turn
  MaxBreaks,     \* events that end a segment
  MaxChars,      \* how many chunks a preview shows while it grows
  MaxTimers,     \* timers that are set
  PreviewFaults, \* a subset of {"start", "update"}: calls the platform may refuse
  Platforms,     \* what a platform can do: sets of "update", "clean", "keep"
  Displays       \* sets of what is shown: "thinking", "tool", and "quiet"

ASSUME PreviewAssumption ==
  /\ {MaxText, MaxBreaks, MaxTimers} \subseteq Nat /\ MaxChars \in Nat \ {0}
  /\ PreviewFaults \subseteq {"start", "update"}
  /\ Platforms \subseteq SUBSET {"update", "clean", "keep"}
  /\ Displays \subseteq SUBSET {"thinking", "tool", "quiet"}

VARIABLES
  caps,     \* the turn's platform
  shown,    \* the display settings
  preview,  \* the streamPreview
  messages, \* what the user sees: the messages posted, in order
  armed,    \* the timers that run
  fired,    \* the timers that have fired and wait for the mutex
  timers,   \* how many have been set
  parts,    \* chunks received (textParts)
  segment,  \* segmentStart
  block,    \* where the agent's text after its last tool use starts
  hold,     \* silentHold
  tools,    \* is toolCount above zero?
  breaks,   \* events that ended a segment
  outcome,  \* how the turn ended
  lapsed    \* chunks of segments that were frozen while held, cut, or refused

timerVars == <<armed, fired, timers>>
loopVars == <<parts, segment, block, hold, tools, breaks, outcome>>
previewVars == <<caps, shown, preview, messages, timerVars, loopVars, lapsed>>

Notice == 0   \* the chunk that stands for "(empty response)"
Chunks == 0 .. MaxText
Outcomes == {"running", "result", "silent", "closed", "stopped"}

PreviewTypeOK ==
  /\ caps \in Platforms /\ shown \in Displays
  /\ preview \in [handle : 0 .. Len(messages), degraded : BOOLEAN, full : SUBSET Chunks,
                  last : SUBSET Chunks, viaUpdate : BOOLEAN, timer : 0 .. timers]
  /\ messages \in Seq([text : SUBSET Chunks, final : BOOLEAN, kept : BOOLEAN, gone : BOOLEAN])
  /\ armed \subseteq 1 .. timers /\ fired \subseteq (1 .. timers) \ armed
  /\ timers \in 0 .. MaxTimers
  /\ preview.timer = 0 \/ preview.timer \in armed \cup fired
  /\ parts \in 0 .. MaxText /\ segment \in 0 .. parts /\ block \in 0 .. parts
  /\ hold \in BOOLEAN /\ tools \in BOOLEAN
  /\ breaks \in 0 .. MaxBreaks
  /\ outcome \in Outcomes
  /\ lapsed \subseteq Chunks

PreviewInit ==
  /\ caps \in Platforms /\ shown \in Displays
  /\ preview = [handle |-> 0, degraded |-> FALSE, full |-> {}, last |-> {},
                viaUpdate |-> FALSE, timer |-> 0]
  /\ messages = <<>>
  /\ armed = {} /\ fired = {} /\ timers = 0
  /\ parts = 0 /\ segment = 0 /\ block = 0
  /\ hold = FALSE /\ tools = FALSE /\ breaks = 0
  /\ outcome = "running"
  /\ lapsed = {}

-----------------------------------------------------------------------------
(* The platform *)

Posted(ms, text) ==
  Append(ms, [text |-> text, final |-> FALSE, kept |-> FALSE, gone |-> FALSE])

\* The final answer is a message of its own, with the footer of the turn.
Sent(ms, text) ==
  IF text = {} THEN ms ELSE [Posted(ms, text) EXCEPT ![Len(ms) + 1].final = TRUE]

Only(cond, x) == IF cond THEN {x} ELSE {}
Refused(call) == call \in PreviewFaults

\* UpdateMessage: whether it succeeds, and the messages it leaves.
Update(ms, h, text, final) ==
  Only(~ms[h].gone, <<TRUE, [ms EXCEPT ![h].text = text, ![h].final = final]>>)
    \cup Only(ms[h].gone \/ Refused("update"), <<FALSE, ms>>)

\* DeletePreviewMessage, where the platform has it.
Deleted(ms, h) ==
  IF h # 0 /\ "clean" \in caps THEN [ms EXCEPT ![h].gone = TRUE] ELSE ms

-----------------------------------------------------------------------------
(* The preview.  An operation yields the pairs of a preview and of messages   *)
(* that it may leave.                                                         *)

Cut(text) == {i \in text : Cardinality({j \in text : j <= i}) <= MaxChars}

Untimed(s) == [s EXCEPT !.timer = 0]
Degraded(s) == [s EXCEPT !.degraded = TRUE]

\* Mutant of CanPreview: a preview the platform refused counts as active.
CanPreviewRefused == "update" \in caps

CanPreview == ~preview.degraded /\ "update" \in caps

\* flushLocked
Flush(s, ms) ==
  LET text == Cut(s.full)
      started == [s EXCEPT !.handle = Len(ms) + 1, !.last = text, !.viaUpdate = FALSE]
      updated == [s EXCEPT !.last = text, !.viaUpdate = TRUE]
  IN IF text = s.last THEN {<<s, ms>>}
     ELSE IF s.handle = 0
       THEN {<<started, Posted(ms, text)>>} \cup Only(Refused("start"), <<Degraded(s), ms>>)
     ELSE {<<IF u[1] THEN updated ELSE Degraded(s), u[2]>> :
             u \in Update(ms, s.handle, text, FALSE)}

\* Mutant of Freeze: the preview is never detached.
FreezeAttached(s, ms, detach) ==
  LET after == Untimed(Degraded(s))
      keep(m) == IF detach /\ s.handle # 0 THEN [m EXCEPT ![s.handle].kept = TRUE] ELSE m
  IN IF s.handle # 0 /\ ~s.degraded
       THEN {<<after, keep(u[2])>> : u \in Update(ms, s.handle, Cut(s.full), FALSE)}
       ELSE {<<after, keep(ms)>>}

\* freeze, and then detachPreview if the preview was active.
Freeze(s, ms, detach) ==
  LET after == [Untimed(Degraded(s)) EXCEPT !.handle = IF detach THEN 0 ELSE @]
      keep(m) == IF detach /\ s.handle # 0 THEN [m EXCEPT ![s.handle].kept = TRUE] ELSE m
  IN IF s.handle # 0 /\ ~s.degraded
       THEN {<<after, keep(u[2])>> : u \in Update(ms, s.handle, Cut(s.full), FALSE)}
       ELSE {<<after, keep(ms)>>}

\* Mutant of Discard: a timer that fires later finds the preview usable.
DiscardOpen(s, ms) == <<[Untimed(s) EXCEPT !.handle = 0], Deleted(ms, s.handle)>>

\* discard
Discard(s, ms) == <<[Untimed(Degraded(s)) EXCEPT !.handle = 0], Deleted(ms, s.handle)>>

\* Mutant of Finish: a degraded preview is left as it is.
FinishPlain(s, ms, text) ==
  LET live == s.handle # 0 /\ ~s.degraded
      drop == "clean" \in caps /\ ~s.degraded /\ "keep" \notin caps
  IN IF ~live \/ drop
       THEN {<<FALSE, Untimed(s), IF live THEN Deleted(ms, s.handle) ELSE ms>>}
       ELSE {<<u[1], Untimed(s), IF u[1] THEN u[2] ELSE Deleted(ms, s.handle)>> :
               u \in Update(ms, s.handle, text, TRUE)}

\* finish: does the preview show the final text?  A platform that deletes
\* previews gets a fresh message, unless it keeps them; a degraded preview is
\* tried once more.  A text without a footer may be what was shown last.
Finish(s, ms, text) ==
  LET drop == "clean" \in caps /\ ~s.degraded /\ "keep" \notin caps
      same == ~s.degraded /\ s.viaUpdate /\ text = s.last
  IN IF s.handle = 0 \/ drop
       THEN {<<FALSE, Untimed(s), Deleted(ms, s.handle)>>}
       ELSE {<<u[1], Untimed(s), IF u[1] THEN u[2] ELSE Deleted(ms, s.handle)>> :
               u \in Update(ms, s.handle, text, TRUE)}
            \cup Only(same, <<TRUE, Untimed(s), [ms EXCEPT ![s.handle].final = TRUE]>>)

\* What becomes of the timers: the preview stops the one it knows of.
Stopped == armed \ {preview.timer}

-----------------------------------------------------------------------------
(* The events of the turn *)

Segment == segment + 1 .. parts

\* appendText: the first text is shown at once; later, if enough time has passed
\* and there is enough of it, and otherwise by a timer.
AppendText(chunks) ==
  LET s == [preview EXCEPT !.full = @ \cup chunks] IN
    \/ /\ \E r \in Flush(Untimed(s), messages) : preview' = r[1] /\ messages' = r[2]
       /\ armed' = Stopped
       /\ UNCHANGED <<fired, timers>>
    \/ /\ s.last # {} /\ s.timer # 0
       /\ preview' = s
       /\ UNCHANGED <<messages, timerVars>>
    \/ /\ s.last # {} /\ s.timer = 0 /\ timers < MaxTimers
       /\ timers' = timers + 1
       /\ armed' = armed \cup {timers'}
       /\ preview' = [s EXCEPT !.timer = timers']
       /\ UNCHANGED <<messages, fired>>

\* A chunk of text.  While the segment may still turn out to be the silent
\* marker it is held back, and then shown at once.
Text(marker) ==
  /\ outcome = "running" /\ parts < MaxText
  /\ marker => hold \/ parts = segment
  /\ parts' = parts + 1
  /\ hold' = marker
  /\ IF marker \/ ~CanPreview
       THEN UNCHANGED <<preview, messages, timerVars>>
       ELSE AppendText(IF hold THEN segment + 1 .. parts' ELSE {parts'})
  /\ UNCHANGED <<caps, shown, segment, block, tools, breaks, outcome, lapsed>>

\* What a frozen preview shows of the segment: not what was held back or cut, and
\* less if the last update was refused.
Surfaced(ms) ==
  IF preview.handle = 0 THEN Cut(preview.full)
  ELSE Cut(preview.full) \cap ms[preview.handle].text

\* The preview of the segment becomes a message that stays, and what comes
\* after it is not previewed.  Without a preview the segment is sent.
EndSegment(detach) ==
  /\ \E r \in Freeze(preview, messages, detach) :
       /\ preview' = r[1]
       /\ messages' = IF CanPreview \/ Segment = {} THEN r[2] ELSE Posted(r[2], Segment)
       /\ lapsed' = lapsed \cup (IF CanPreview THEN Segment \ Surfaced(r[2]) ELSE {})
  /\ segment' = parts
  /\ armed' = Stopped
  /\ UNCHANGED <<fired, timers>>

\* A thought, a tool use or a permission request.  Where it is not shown, it
\* splits the text all the same, or in quiet mode does not.
Break(kind) ==
  /\ outcome = "running" /\ breaks < MaxBreaks
  /\ breaks' = breaks + 1
  /\ block' = IF kind = "tool" THEN parts ELSE block
  /\ tools' = (tools \/ kind = "tool")
  /\ \/ /\ kind \in shown \cup {"permission"}
        /\ EndSegment(CanPreview)
        /\ hold' = (hold /\ Segment = {})
     \/ /\ kind \notin shown \cup {"permission"}
        /\ Segment # {} /\ "quiet" \notin shown
        /\ IF CanPreview THEN EndSegment(TRUE)
           ELSE /\ messages' = Posted(messages, Segment)
                /\ segment' = parts
                /\ UNCHANGED <<preview, timerVars, lapsed>>
        /\ hold' = FALSE
     \/ /\ kind \notin shown \cup {"permission"}
        /\ Segment = {} \/ "quiet" \in shown
        /\ hold' = (hold /\ Segment = {})
        /\ UNCHANGED <<preview, messages, timerVars, segment, lapsed>>
  /\ UNCHANGED <<caps, shown, parts, outcome>>

End(how) ==
  /\ outcome = "running" /\ outcome' = how
  /\ UNCHANGED <<caps, shown, parts, segment, block, hold, tools, breaks, lapsed>>

DropAndSend(text) ==
  LET d == Discard(preview, messages) IN
    /\ preview' = d[1] /\ messages' = Sent(d[2], text)
    /\ armed' = Stopped /\ UNCHANGED <<fired, timers>>

Dropped == DropAndSend({})

\* The answer that comes with the result: the agent's text after its last tool
\* use, or everything where the tools are hidden and no segment has been closed,
\* or where the agent repeats nothing.
Answers ==
  LET all == 1 .. parts
      said == IF segment = 0 /\ "tool" \notin shown THEN {all} ELSE {block + 1 .. parts, {}}
      answer(text) == IF text # {} THEN text ELSE IF all # {} THEN all ELSE {Notice}
  IN {answer(text) : text \in said}

\* The result.  What has been surfaced in segments is not sent again.
Result ==
  /\ \/ /\ hold /\ segment = block
        /\ End("silent") /\ Dropped
     \/ /\ tools /\ segment > 0
        /\ End("result") /\ DropAndSend(Segment)
     \/ /\ ~(tools /\ segment > 0)
        /\ End("result")
        /\ \E text \in Answers : \E r \in Finish(preview, messages, text) :
             /\ preview' = r[2]
             /\ messages' = IF r[1] THEN r[3] ELSE Sent(r[3], text)
        /\ armed' = Stopped /\ UNCHANGED <<fired, timers>>

\* The agent exits in the middle.  The text it has given is sent, and the
\* preview is left as it is unless tools have been used.
Closed ==
  /\ \/ /\ hold /\ segment = 0
        /\ End("silent") /\ Dropped
     \/ /\ parts > 0 /\ tools /\ segment > 0
        /\ End("closed") /\ DropAndSend(Segment)
     \/ /\ ~(tools /\ segment > 0)
        /\ End("closed")
        /\ messages' = Sent(messages, 1 .. parts)
        /\ UNCHANGED <<preview, timerVars>>

\* An error, a timeout or a stop: the preview is discarded.
Stop == End("stopped") /\ Dropped

-----------------------------------------------------------------------------
(* Timers *)

Fire(t) ==
  /\ t \in armed
  /\ armed' = armed \ {t} /\ fired' = fired \cup {t}
  /\ UNCHANGED <<caps, shown, preview, messages, timers, loopVars, lapsed>>

\* The function of a timer, under the mutex: whichever timer the preview knows
\* of is forgotten, and the text is shown unless the preview is degraded.
Callback(t) ==
  /\ t \in fired
  /\ fired' = fired \ {t}
  /\ IF preview.degraded
       THEN preview' = Untimed(preview) /\ UNCHANGED messages
       ELSE \E r \in Flush(Untimed(preview), messages) :
              preview' = r[1] /\ messages' = r[2]
  /\ UNCHANGED <<caps, shown, armed, timers, loopVars, lapsed>>

-----------------------------------------------------------------------------

PreviewNext ==
  \/ \E marker \in BOOLEAN : Text(marker)
  \/ \E kind \in {"thinking", "tool", "permission"} : Break(kind)
  \/ Result \/ Closed \/ Stop
  \/ \E t \in armed : Fire(t)
  \/ \E t \in fired : Callback(t)

PreviewSpec == PreviewInit /\ [][PreviewNext]_previewVars

-----------------------------------------------------------------------------
(* Properties *)

Visible == {i \in 1 .. Len(messages) : ~messages[i].gone}

\* When the turn ends with a result, or with the agent's exit, the user has
\* every chunk of the agent's text before him, whatever the preview has been
\* through: except a segment that was frozen while it was held back, was longer
\* than a preview, or whose last update was refused.  (What a late timer does
\* to it afterwards is FinalStands.)
Complete ==
  outcome \in {"result", "closed"} =>
    1 .. parts \subseteq lapsed \cup UNION {messages[i].text : i \in Visible}

Delivered == [][outcome = "running" => Complete']_previewVars

\* A segment's message is not touched any more once the next segment has begun.
SegmentsStand ==
  [][\A i \in 1 .. Len(messages) : messages[i].kept => messages'[i] = messages[i]]_previewVars

\* On a platform that can delete, the result leaves no preview beside it, and
\* an answer that turns out to be silent leaves no trace.
Tidy ==
  outcome \in {"result", "silent"} /\ "clean" \in caps =>
    \A i \in Visible :
      \/ messages[i].kept \/ messages[i].text \subseteq 1 .. segment
      \/ messages[i].final /\ outcome = "result"

NoGhost == [][outcome = "running" => Tidy']_previewVars

\* A timer that fires late edits at most the preview there is: it posts nothing.
NoAfterword == [][outcome # "running" => Len(messages') = Len(messages)]_previewVars

\* "It cancels any pending timer" (core/streaming.go:313): the final text, once
\* it is shown, is not replaced by what the preview showed before it.
FinalStands ==
  [][\A i \in 1 .. Len(messages) : messages[i].final => messages'[i].final]_previewVars

=============================================================================
