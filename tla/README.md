# cc-connect in TLA+

This directory specifies and verifies the concurrent core of `cc-connect`
(`src/cc-connect`), the Go program of this repository that connects chat
platforms (Feishu, Telegram, Slack, ...) to command line coding agents (Claude
Code, Codex, Gemini, ...). The other programs of the repository are small and
independent of it (see the inventory).

Everything here is translated from the Go source; `PROJECT.json` ("map") names
the lines every definition stands for.

## 1. Inventory

| part | state it keeps | operations | what is hard |
|---|---|---|---|
| **engine turns** `core/engine.go` 1761-1847, 1933-2343, 2394-2516, 2600-3220, 3490-4760, 5322-5349, 8155-8432; `core/session.go` | `interactiveStates[key]`, and per state the agent session, `pendingMessages`, `stopped`, `currentMessageID`, `pending`; per Session `busy`, `AgentSessionID`, `History` | a message takes the Session's busy flag and runs a turn, or is queued, or refused; a turn drains the queue; `/new`, `/stop`, `/compress`, recall tear down or borrow the state | one goroutine per message, four kinds of mutex, each dropped between the steps of one operation; agent processes that die at any moment |
| **permission requests** `core/engine.go` 2394-2516, 4073-4150 | `state.pending`, `state.approveAll` | the turn publishes a request and blocks on it; a chat message answers it; a teardown resolves it | the answer, the teardown and the next request race each other |
| **event channel owners** `core/engine.go` 3223-3486, 2711-2761 | `unsolicitedCancel`, `unsolicitedDone`, `eventsNeedResync` | between turns a background reader relays what the agent says unasked; a turn stops it and takes the channel | two readers of one channel, events of a dead turn shown as the answer of the next |
| **session store** `core/session.go` | sessions by id, active session per user, the JSON file | create, switch, rename, delete, save, load | saves from many goroutines, a crash between a change and its save |
| **cron** `core/cron.go` | jobs, their timers, the running set | add, edit, enable, mute, remove, execute | a job that is edited or removed while it runs, a timeout against a late result |
| **heartbeat** `core/heartbeat.go` | one entry per key, paused flag, counters | tick, pause, resume, interval | a tick against a busy Session |
| **relay** `core/relay.go`, `core/engine.go` 12966-13167 | bindings, relay Sessions | a bot asks another bot and waits | a timeout against a late answer; no lock of the target Session |
| bridge `core/bridge.go` | connected adapters, pending requests | register, reconnect, send and wait | an adapter that reconnects while a request waits |
| **streaming preview** `core/streaming.go`, `core/engine.go` 3818-4700 | text, timer, preview handle | append, freeze, finish | the throttling timer firing after the finish |
| rate limits and dedup `core/ratelimit.go`, `outgoing_ratelimit.go`, `dedup.go` | windows, buckets, seen ids | allow, wait, duplicate? | window boundaries, concurrent waiters |
| **workspace pool** `core/workspace_state.go`, `core/engine.go` 500-526 | workspaces, turns in progress, last activity | begin/end turn, reap | reaping a workspace whose turn is starting |
| commands and cards, management and webhook servers, hooks, providers, text rendering, speech, host integration, configuration, command line, daemon, web console | settings, mostly | one step each, or pure formatting and I/O | little that a model checker reaches |
| **Claude Code adapter** `agent/claudecode/session.go` | the process, its pipes, the events channel, `alive` | read, write, answer, close | a process that ignores signals, blocked pipes, descendants that keep them open |
| other agent adapters `agent/*`, platform adapters `platform/*` | child processes, network connections | event streams | seen by the engine only as events and goroutines |
| Wordle_solver | word list, candidates | score a guess, filter, rank | duplicate letters in the scoring (pure) |
| LANShare, Nold, ClaudeBar | - | a file server, a scanner script, a menu bar | not concurrent in a way of their own |

How they meet: a platform adapter calls `Engine.handleMessage` from a goroutine
of its own; the handler starts another goroutine for the turn; the turn drives
one agent process through `AgentSession.Send`, `Events` and
`RespondPermission`; commands run in the handlers of the messages that carry
them. Cron, heartbeat, relay, bridge and the HTTP servers enter through the
same Session lock or, in the case of the relay, without it.

The parts in bold are modelled. What makes each part correct is listed with its hazards in `PROJECT.json`
("hazards"), every one at its line.

## 2. Modules

| module | what it is |
|---|---|
| `TurnEngine` | the detailed model of the turns of one session key |
| `SerialTurns` | what the engine promises its users, with no locks or states |
| `Permissions` | the permission requests of one interactive state |
| `SessionStore` | the session manager, its file, crashes and loading |
| `EventOwner` | who reads an agent's events channel: turns, background readers, `/compress`, `/stop` |
| `SessionLock` | the busy flag and the queue, as users and automation see them |
| `Cron`, `Heartbeat` | the two that start turns by themselves; both extend `SessionLock` |
| `Automation` | users, `Cron` and `Heartbeat` composed on one Session, with restarts |
| `Relay` | bots that ask each other, past the Session lock |
| `Workspaces` | the pool of workspaces, its reaper, and the turns in them |
| `Preview` | how the text of one turn reaches the user |
| `AgentProcess` | a Claude Code process, its pipes and the session around it |
| `MC...` | the instance of each that TLC checks, and the mutants that need one |
| `TurnEngineProofs`, `PermissionsProofs`, `SessionStoreProofs`, `EventOwnerProofs`, `AutomationProofs`, `RelayProofs`, `WorkspacesProofs`, `TurnOutputProofs` | the theorems; the last one is about `AgentProcess` and `Preview`, the two ends of a turn's output |

A definition called "Mutant of X" in its comment is a wrong version of the
definition X below it; no specification uses it. `PROJECT.json` ("mutants")
says which property finds it out.

How they hang together. `TurnEngine` proves that the busy flag is the lock of
the turns; the other modules take a turn as the holder of that flag and look at
what it meets there. `EventOwner` refines the inside of a turn's last steps
(start, stop and hand-over of the reader), `Permissions` and `Preview` the event
loop in the middle, `AgentProcess` the far end of the channel that `EventOwner`
calls `events`. `SessionLock` is the flag alone, on which `Cron` and `Heartbeat`
meet the users; `Automation` composes them: every step is one of the three
together with `UNCHANGED` of the others, a restart one of all three.

### TurnEngine

One goroutine per message (`Msgs`), which is the handler first and the turn it
starts afterwards (`go e.processInteractiveMessageWith`), and one per command
(`Commands`). `pc` says where a goroutine is, `sess`, `ptr`, `cur` and `clean`
are its local variables: the `*Session`, the `*interactiveState`, the message it
answers, and what `cleanupInteractiveState` has in hand.

| model | code |
|---|---|
| `entry` | `interactiveStates[key]` |
| `active`, `busy`, `bound`, `used` | the active Session; `Session.busy`, `AgentSessionID`, `History` not empty |
| `hasAgent`, `proc`, `agentId` | `state.agentSession # nil`, the process behind it ("closing" when its Close has been given up), its `CurrentSessionID()` |
| `queue`, `stopped`, `current` | `pendingMessages`, `stopped`, `currentMessageID` of an `interactiveState` |
| `told` | what the sender was told last (the notices and the answer) |

An action is one critical section together with the code up to the next one. So
the race windows of the code are the windows of the model: between the map
look-up and the append (`Lookup`, `QueueMessage`), between queueing and the
second `TryLock` (`Retry`), between taking an agent away from a state, marking
the state stopped, closing the process and deleting the entry (`CleanTake`,
`CleanQuiet`, `CleanClose`, `CleanDelete`), and so on. `interactiveState`
objects are pointers that outlive the map entry; they are named after the
goroutine and the place that allocates them, since each allocates at most one of
each kind.

Abstracted: the text of messages and answers (a message is a model value), the
agent's events other than the one that ends a turn, attachments, and the
rendering of replies. Permission requests and the file have modules of their
own. `Faults` is the set of things that may go wrong: the process exits, an
error event, a failing `Send`, a failing start or resume, a timeout, and a Close
that does not return in its 130 seconds ("hang"). The engine then goes on as if
the process had gone (`Closings`; engine.go:3169), deletes the entry and may
start another agent, while the abandoned Close has shut the input and the process
ends at any later time or never.

`SerialTurns` is the abstract service: a message is new, waiting, running or
finished; one runs at a time; the line is taken in order. `ServiceSpec` in
`TurnEngine` maps the engine to it: `Phase` reads the phase of a message off
`pc`, `told` and the queues, and the line is the queue of the state in the map.

### Permissions

One interactive state, its turn, the goroutines of messages that may be answers
(`handlePendingPermission`) and of teardowns. `pending` is `state.pending`,
`resolved` are the requests whose `Resolved` channel is closed, `question` and
`answers` are `CurrentQuestion` and `Answers` of a request. `held` is the request
a goroutine read earlier and still acts on, which may be stale. `responses` are
the calls of `RespondPermission` that reached the agent, and `approved` records
which requests an approver has allowed. `Serial` says whether the platform hands
over one message at a time; the code itself does not enforce it.

### SessionStore

`sessions`, `active`, `members`, `counter` and `legacy` are the fields of
`SessionManager`; `disk` is the snapshot in the file. Fields of a Session change
under its own mutex at any moment. Every operation of the manager takes the
exclusive lock, changes the tables and saves (`Lock`, then `Write`); `Save` takes
the lock shared, so that any number of Saves overlap. A save has three steps,
between which a Session may change and other Saves come: the Sessions are copied
(`Copying`), the legacy flag, which has no lock among Saves, is settled and the
snapshot made (`Settle`), the file is replaced (`Write`). `Write` may
fail, which the code only logs. `Crash` loses the memory, `Load` is
`NewSessionManager`. The file may come from an earlier version (`OldFile`): no
`legacyData` field, possibly with the sentinel `__continue__` as an id.

`issued`, `seen`, `old`, `kept`, `crossed` and `stale` are history variables for the
properties: ids of Sessions that reached the file, Sessions whose use by a user was
followed by a save, Sessions that an earlier version wrote, the agent ids of each
Session that reached the file, the saves that overlap another one, and whether the
file was last written by such a save. A crash while it is `stale` loses what the
file lacks, and the histories begin again with what it has.

### EventOwner

`reg` is whose reader `unsolicitedCancel` and `unsolicitedDone` belong to, and
`reader` says where each background reader is; a reader is named after the turn
that started it. `events` is the channel, `prompts` what the agent has yet to
answer, so that the model knows which message an outcome is really of, and
`told` what the message was answered with. `resync` is `eventsNeedResync`.

| model | code |
|---|---|
| `Arrive`, `ArriveBusy`, `Retry` | the lock and the queue of `handleMessage` (2129-2163) |
| the labels `stop`, `stopping` | `stopUnsolicitedReader` (3223-3247), with its 5 s limit (fault `timeout`) |
| `drain`, `send`, `loop`, ... (`Owning`) | a turn between the drain before its prompt and its unlock |
| `alive`, `register` | the start of a reader after the unlock (2749-2761, 3253-3262) |

`lapses` records what has gone wrong in the hand-over: a turn that began while
another was about to register its reader ("taken early"), a stop that timed
out ("timeout"), a `/compress` that left nobody listening ("compress").
`SoleConsumer` excludes the first two, `Listening` all three, and `LateReader`
(section 5) shows that the first happens. The fault `late` is an error that the
agent reports after a result.

### SessionLock, Cron, Heartbeat, Automation

`SessionLock` has `busy`, `queue` and the goroutine of each message, and bounds
what may start a turn (`MaxStimuli`). `Cron` has the store (`job`), the entries of the
scheduler's map (`entry`) and of the cron library (`live`), one goroutine per
command (`Admins`, with the steps between its critical sections) and per run
(`Runs`): a run takes the Session or one of its own (`NewPerRun`), and the
scheduler waits for it with a timeout, after which the run goes on alone.
`Heartbeat` has the tickers, the probe that takes and gives back the lock to see
whether the Session is idle, the overrides and their file, which is written in
place (`writing`). A crash in that write is the fault `torn`, a write that fails
the fault `write`: the code logs it and keeps what it has in memory
(heartbeat.go:312-314), with the old file or the beginning of a new one on disk.
`unsaved` records that the last write has failed.

### Relay

One goroutine per relay: it starts a process, with the id of the source's relay
Session or afresh when the resume fails, sends, reads until the result, and on
expiry hands the process to `drainRelaySession`. There is no lock of the
target's Session, so two relays of one source may run two processes. The id of
a session is represented by the request whose process began it. `learned` is a
history variable: ids that were read and not wiped by a failed resume.

### Workspaces

An entry of the pool and an interactive state are numbers, since both are
pointers that outlive their maps. A message takes its manager when it arrives
and counts its turn on the entry it finds later (`create`, `begin`); the reaper
removes an entry (`reaping`), collects the states of its directory (`targets`)
and closes them one by one. `idle` is the comparison of `lastActivity` with the
cutoff: it becomes true when time passes and false with each `Touch`. `Long`
says which uncounted steps may outlast the timeout (15 minutes by default).

### Preview

`preview` is the `streamPreview` with the message it edits, `messages` what the
user sees. A text is a set of chunks, which is enough to tell what is missing,
doubled or left over. Timers are numbered: `armed` run, `fired` wait for the
mutex; `timer` of the preview is the one it would stop. `lapsed` has the chunks
that the code gives up: of a segment frozen while it was held back, cut, or
refused by the platform. `caps` and `shown` are chosen once, from all the kinds
of platforms and display settings that change the control flow.

### AgentProcess

`wait`, `guard`, `reader` are the three goroutines of a `claudeSession`,
`closing` is `Close`, `mutex` is `stdinMu`, and the process, its descendants and
the pipes are external. `heirs` are the outputs that descendants hold after the
process has exited, each by itself: `cmd.Wait` waits for the holders of the error
output, which os/exec copies, and closes the standard output, which the reader has,
whoever holds it (session.go:239-262; session_test.go:74-129). `apart` says that
those descendants have left the process group, so that no signal to the group
reaches them. `Hangs` names what the process and the kernel may fail to do, "refused"
that a SIGKILL is not delivered (EPERM under `run_as_user`): that is only logged,
and Close goes on to a wait without a timeout (session.go:743-752). A line that is
longer than the scanner's buffer ends the reader with an error event while the
output is still open ("long", 292-312).

## 3. What is checked

| run | instance | question |
|---|---|---|
| `turn_features` | a message and a `/compress` on a warm agent, one `/new`, `/stop` or recall, idle reset and auto-compress on, every fault, abandoned Closes among them | is a message in one place and its sender told once, even where the lock is broken? |
| `turn_cold` | 3 messages race the start of the first agent, error events, failing prompts and resumes, timeouts, abandoned Closes, queue of 1 | is the busy flag the lock of the turns, is every queue in the map looked at again, is no process forgotten? |
| `turn_warm` | 2 messages and a `/compress` on a warm agent with error events, queue of 2, fairness | is every acknowledged message served and every sender told, does the engine implement `SerialTurns`? |
| `perm_serial` | 3 requests, the second one asks 2 questions; 3 replies, 2 of them from approvers; a cleanup or stop | is a request answered once, and only as an approver or the complete answers allow; can it be answered as long as the state lives? |
| `perm_leak` (violation) | a turn and a teardown | is a turn that waits for an answer always released? (section 5) |
| `store_safety` | 2 users, 2 Sessions, 2 agent ids, two savers that overlap, one of which is the manager as well, one step on a Session, failing writes, a crash, with and without an old file | do the tables agree in memory and in the file, are ids fresh, do deletions last, are agent ids and the legacy flag kept? |
| `event_owner` | 2 messages, a `/compress`, an agent that fails, speaks unasked and exits, a `/stop` | does a turn share the channel with a reader, is an idle agent listened to, is an answer shown to the message that asked? |
| `automation` | 2 messages, a job with 2 commands and 2 runs, a heartbeat, overrides of 2 projects, writes that fail or are broken off, restarts | does one of them have the Session at a time, is a queued message looked after, do store, scheduler and overrides agree? |
| `relay` | 2 relays of one source, processes that say 2 things, every fault and expiry | is every process closed, does the session stay resumable? |
| `workspaces` | 3 messages of one channel, one of them a `/compress`, one of another; the reaper strikes twice | does a channel have one turn although its lock moves between entries, are the counts right, can every running agent be reaped? |
| `preview` | 5 chunks, 3 breaks, 3 timers, 4 kinds of platform, 4 display settings | does the user get the whole text, does no preview stay beside the answer, do closed segments stand, is nothing posted afterwards? |
| `agent_close` | a process that ignores EOF and SIGTERM, a SIGKILL that may be refused, descendants in or outside the group that hold either output or both, 3 lines, room for one in the pipe and for 2 events, a writer, a shutdown | does `Close` return, does a dead session end, is there never a second process, is a failure told last? |

Each passing property has a mutant of the code that breaks it in its own run.

Why the bounds are enough. The races of the engine are between two goroutines
that hold the same pointer and a third party that takes the pointer out of the
map; two messages and one command are that, and the third message of `turn_cold`
lets one be queued while another fights for the lock. A queue of 1 reaches its
limit with two messages (`turn_cold`), one of 2 has an order (`turn_warm`).
Sessions and states are allocated by the goroutines, so their number is not a
bound of its own. For the permissions three requests are one before, during and
after a stale reply, and two questions are the shortest sequence with a
question that is not the last. For the store, two ids are needed for a deletion
followed by a creation, one crash for a restart, two users for ownership, and two
savers for the older copy that is written last: one agent id stored between two
copies (`MaxUses = 1`) makes them differ, and the operations of the manager, which
`MaxUses` does not bound, store and clear ids as well.

In `event_owner` a reader needs a turn before it and a turn after it, and the
`/compress` is the third party; the agent speaks once unasked (`MaxStrays = 1`),
since a second time meets the same reader in the same places, and either the
agent exits or a `/stop` comes, as both end the state. In `automation` three
stimuli are enough for one kind of turn to begin while a second one holds the
Session and a third one is queued or probing; two commands are what overlaps on
one job, and two projects make the file one that is rewritten for another's sake.
In `relay` two events are a text and a result, or an id and then
silence. `workspaces` strikes twice because the interesting lock is the one of
the entry after the next; `Long` is empty there, i.e. the uncounted steps do not
outlast the idle timeout, and the configuration `ReaperKillsTurn` does without.
In `preview` a chunk before, in and after a held segment, a cut (`MaxChars = 2`)
and a timer per segment need five chunks and three breaks. In `agent_close` a pipe holds one line, as a block needs it full; the channel
holds two events, the fewest that have an order, and a third line meets it full.

What is proved (section 4) does not depend on any of these bounds.

Deadlock is checked in all runs of `TurnEngine`: the only way to stop is
`Finished`, when all goroutines have returned. The other modules may really
stop: all requests answered, all relays over, the process gone, the bounds
reached.

### Fairness

*`turn_warm`.* `Fairness` asks that a goroutine that can take a step
takes one: Go's scheduler runs every runnable goroutine, the mutexes are held
for a bounded time and Go's mutex does not starve a waiter. It also asks that a
turn in the event loop leaves it: the loop waits for the agent, and
`eventIdleTimeout` (two hours unless configured otherwise, engine.go:3581)
bounds that wait; with the timeout switched off an agent that says nothing keeps
its Session busy for ever, and nothing here says otherwise. Arrivals are not fair:
users need not write. There is no fairness for the faults or for commands.

*`agent_close`.* `Fairness` of `AgentProcess` is weak for the goroutines of the
session and for the kernel (`Killed`: a SIGKILL that is delivered is carried out,
on the process and on who is still in its group), and strong for
the writers, the answers and `Close`, which compete for `stdinMu` (Go's mutex
hands itself to a starving waiter). The timers of `Close` are part of
`CloseSteps`. The process is fair only in what it does not hang in, its
descendants are not fair at all: `Hangs` decides. The engine reads the events
until a `Close` or a shutdown has begun (`Reads`); after that it may stop.

*`RelayDeadline`.* The goroutine of each relay is fair; the process is not,
since that is what a deadline is for.

## 4. What is proved

TLAPS checks these for every value of the constants, from the assumptions that
the modules declare, each named after its module (`TurnEngineAssumption`,
`EventOwnerAssumption`, `CronAssumption`, ...): disjoint sets of names, sets of
faults that are among those named, bounds that are numbers.

| theorem | says |
|---|---|
| `TypeCorrect` (`TurnEngineProofs`) | `Spec => []TypeOK` of the engine, the capacity of the queues included |
| `MutexCorrect` (`TurnEngineProofs`) | with `PlainTurns`, `Spec => []TurnMutex` |
| `PlacesCorrect`, `OutcomesFinal` (`TurnEngineProofs`) | `OnePlace` and `ToldOnce`, with all features, commands and faults |
| `ServiceQueueServed` (`TurnEngineProofs`) | with `Undisturbed`, `QueueServed`: no acknowledged message is left behind |
| `ServiceImplemented` (`TurnEngineProofs`) | with `Undisturbed`, the engine implements the initial states and the steps of `SerialTurns`, under the mapping of `ServiceSpec` |
| `NoAgentForgotten` (`TurnEngineProofs`) | with `OneKey`, `NoForgottenAgent`: an agent whose Close has neither ended nor been given up can be reached, or somebody is about to close it |
| `EntryQueueAttended` (`TurnEngineProofs`) | with `Enduring`, `EntryQueueServed`: the queue of the state in the map always has somebody who will look at it |
| `OnlyAuthorized`, `OnlyComplete` (`PermissionsProofs`) | `Authorized` and `QuestionsComplete`, also for replies that overlap |
| `OnceAnswered`, `StaysAnswerable` (`PermissionsProofs`) | with `Serial`, `AnsweredOnce` and `Answerable` |
| `StoreTypeCorrect`, `StoreOwnedByOne`, `StoreFreshIds`, `StoreNoResurrection` (`SessionStoreProofs`) | the store's type invariant, ownership, fresh ids, and deletions that last |
| `StoreLegacySound`, `StoreKeptOnDisk` (`SessionStoreProofs`) | `LegacySound` and `KeptOnDisk`, for any number of saves that overlap |
| `EventsSoleConsumer` (`EventOwnerProofs`) | `SoleConsumer`: no reader runs beside a turn, unless the hand-over lapsed |
| `EventsAnswerOwn`, `EventsListening` (`EventOwnerProofs`) | `AnswerOwn` and `Listening` |
| `AutomationTypeCorrect`, `AutomationOneHolder`, `AutomationNoneStranded`, `AutomationOneEntry`, `AutomationEnabledScheduled`, `AutomationOverridesKept` (`AutomationProofs`) | all that the run `automation` checks |
| `RelayAttended`, `RelayResumable` (`RelayProofs`) | all that the run `relay` checks |
| `WorkspacesTurnsCounted`, `WorkspacesReapable`, `WorkspacesOneTurn` (`WorkspacesProofs`) | all that the run `workspaces` checks; the last one with `Long = {}` and `Untouched = {}` |
| `SessionTypeCorrect`, `SessionNoTwin`, `SessionLastWord` (`TurnOutputProofs`) | the safety properties of the run `agent_close` |
| `PreviewTypeCorrect`, `PreviewDelivered`, `PreviewNoGhost`, `PreviewSegmentsStand`, `PreviewNoAfterword` (`TurnOutputProofs`) | the type invariant of `Preview` and all that the run `preview` checks |

The hypotheses of the theorems about the engine (a name in parentheses is a
configuration of section 5):

| name | says | needed because |
|---|---|---|
| `PlainTurns` | no idle reset, no auto-compress | both unlock a Session out of turn (`AutoCompressUnlocks`) |
| `Undisturbed` | `PlainTurns`, an agent that is up and reports errors only, no commands (`/compress` is no command here, it is a message) | a state that is torn down takes its queue with it, which the next two cover |
| `OneKey` | `PlainTurns`, no `/new` | a `/new` loses an agent (`NewLeaksAgent`) |
| `Enduring` | `OneKey`, no `/compress`, an agent that starts and does not exit by itself; stops, recalls, timeouts and refused prompts are allowed | a failed start leaves a queue behind (`StartFailure`); TLC finds the same with an agent that exits, and with a `/compress` that is stopped or whose prompt fails (engine.go:8309-8316) |

*The lock.* `TurnMutex` alone is not inductive: a goroutine in a cleanup could
return to a label at which it does not expect the lock, and a step could unlock
a Session that another goroutine holds. `MutexInv` adds where a cleanup returns
to, that no `runCompress` is nested in a turn, and that whoever is at a holding
label has the flag set. Then every step of a goroutine keeps what it holds,
takes a free Session, or gives back its own; three lemmas show that each of the
three preserves the invariant, and one lemma per action says which of the three
it is. `PlainTurns` (`~IdleReset /\ MaxAutoCompress = 0`) is needed, since both
features unlock a Session out of turn.

*The messages.* `PlaceInv` says of each message that it is nowhere, in the hand of
one goroutine or once in one queue (`Placed`). A step does one of six things to the places
(`PlaceStep`): it reports on what it has in hand and empties a queue, appends,
pops, hands a queue over to a new state, takes a message out of a queue, or lets one
arrive; one lemma per kind shows that places stay unique, one per action says which
kind it is. The hand-over needs `Unused`: the state a turn creates is not in use
before, so nothing is in its queue that would be overwritten. Since whoever is told was in a
place, and is in none afterwards, `ToldOnce` follows for the messages of the
chat; for `/compress`, `OutcomeInv` says that it reports at the end of its
first `runCompress` only, and that no command is ever queued. Neither theorem
needs the lock: they hold with the features that break `TurnMutex`.

*The service.* While nothing disturbs the turns, everybody works on the Session
and the state that are there at the start (`Steady`), and `Awaited` says that a
queue that is not empty has a holder of the lock or a goroutine in front of its
second `TryLock`. With `MutexInv` and `PlaceInv` this makes every step of a
goroutine one step of `SerialTurns` or none: the append is `Wait`, a refusal
`Refuse`, a message that takes the lock `Begin`, a pop `Resume`, a report
`Finish` (`Abort` is for a failing prompt, which does not happen here). That
`Begin` and `Resume` find the agent idle is `RunningHeld`: a message that runs
is in the hand of a goroutine with the lock. One lemma per kind of step says
which phase moves; those of all other messages stay because their places do
(`Unheard`). The fairness of `SerialTurns` is not part of the theorem.

*Agents.* `NoForgottenAgent` is not inductive, since a cleanup may come to its close
with nothing in hand or with a state that has an agent again. `LeakInv` says
what a cleanup has in hand from step to step: it owns nothing before it has
taken something (`Empty`), what it has found stays in the map without agent until it
deletes it (`Found`), and a running agent is in the map with its state or in the
hand of whoever will close it (`Reached`). `OneSession` keeps the other commands out
of it. A process whose Close has been given up is not "running": the engine has
done what it does, and what is left is that Close, in a goroutine of its own.

*The queue in the map.* `Attended` is what is wanted, with a holder of the lock or a
goroutine that will try it. A holder may give up the lock only if the queue is
empty, or its state is no longer in the map. Why that is so is in `Knows`, which
says for each label what the goroutine there knows of the state in the map: that
it is its own and alive (`Healthy`), that it is the one a cleanup is about to
delete, or that there is none. An agent in the map has not been asked to end
(`Whole`), since it is taken out of its state before its Close, which may be given up,
and a recycled state leaves the map in the same step. `Startless` and `Stopping` say that agents are
not given or taken by others: a state gets one from its own goroutine only, and
what a command closes has left the map before.

*Permissions.* A reply decides on a request that it read earlier. `HeldInv`
says that what is held was asked, `ApprovalInv` that an approval is recorded
before it is acted on and that `approveAll` has an approved request behind it,
`QuestionInv` that all questions before the current one have been answered.
Approvals and answers only grow, so none of it can be outdated by another reply.
Where messages come one at a time nothing is stale until the state is stopped:
`OnceInv` says that one reply is at work and decides on a request without an answer,
`OpenInv` that until then pending, held and asked are one request.

*The store.* `OwnedByOne` speaks of the file, and the file gets a copy of the
Sessions that was made earlier together with the tables of now. `SaveInv` says
that no Session is added or deleted while a copy waits, which is what the
manager's lock is for; `LockInv` says who may be saving; `MadeInv` and
`CounterInv` that a new id is above everything the file knows; `MemoryInv` that
what is in memory and was once in the file still is. For `KeptOnDisk` and
`LegacySound` the memory is what counts: `KeptInv` says that it answers for every
agent id the file ever held, also when an overlapping save has put an older copy
there. A save that no other one overlaps is alone (`Alone`), so its copy has all of
them too (`CopyInv`), and if it writes the flag off, or the flag was off when it
began, no untracked old Session (`CopySound`); what it writes is whole again.
`OldFiles` is what an earlier version may have left.

*The channel.* `Owner`, under `Clean` (the hypotheses of `SoleConsumer`), has four parts: at
most one message is between its lock and its reader's registration
(`Exclusive`), such a message has the flag set unless it has just unlocked
(`Flagged`), a reader that runs is the registered one or one that somebody waits
for (`Known`), and who owns the channel has found it free (`Free`). Every action
of a message changes that message's place only, and `OwnerStep` says what such a
step has to respect. `lapses` only grows, so a state that is clean has come from
clean ones. For `AnswerOwn` the goroutine with the flag is the only one that
talks to the agent (`Solo`), and what the agent owes or has said is what that
goroutine's prompt asks (`Asked`), also when a prompt or the process failed.
For `Listening` a message starts a reader once (`Once`), only who takes the
registration cancels it (`Current`), and when nobody is at work the one
registered runs (`Heard`).

*Automation.* The conjuncts are the mutual exclusion of three kinds of holders
(`Exclusive`), that neither a heartbeat nor a run has a turn before its test is over (`Probed`,
`Launched`) and a run that ends has a result (`Returned`), that each step of a
command is a step of its kind (`Serving`), and, for commands that do not
overlap, what the one in hand has done to store and schedule so far (`Orderly`,
`Scheduled`, `Halfway`). `OverridesKept` is
an action property: `Overridden` says that outside a write, unless the last one
has failed, the file has what memory has, whatever an earlier failure left.

*Relay.* A relay that is past its start has a source (`Sourced`); a process that
is up is attended (`Attended`). `Resumable` speaks of sources without a relay in
progress and says nothing about the steps before; `Kept` is the same at every
moment: the session has an id exactly when one has been learned, and it is one of
those.

*Workspaces.* `CountInv` is `TurnsCounted` with the facts that make an entry's
number fresh. `FreshInv` is the reason for `OneTurn`: an entry that is idle has
no message between its arrival and its turn, an entry that counts no turn
has none in a turn, so the one that is reaped has none at all, and whoever is between
arrival and the end of a turn has the manager of the entry in the pool. `LockInv`
then leaves one of them in each channel. `Long = {}` is needed for the first
step, `Untouched = {}` for arrivals to move the clock.

*AgentProcess.* `Waited` says that the wait is over only when nobody holds the
error output, and in which order the reader ends after it, `Held` who has `stdinMu`,
`Counted` that the lines add up, and `ToldLast`
that the failure is emitted by a reader that has nothing to say after it.

*Preview.* Every operation of the preview has a lemma of its own (`FlushFacts`,
`FreezeFacts`, `DiscardFacts`, `FinishFacts`) that says what it leaves: only the
preview's own message is edited (`Touches`), and that one is not a message left
to the user, nor has a preview without a message anything to show (`Owned`), so that a
late timer posts nothing. These hold for ever. While the turn runs, `Standing`
says where the text is: a chunk of an ended segment has lapsed or is in a message
that the preview does not touch, every message is there and is a segment's, one
that stays or the preview's (`Placed`), and a preview that was last shown by an
update says what it believes (`Mirrors`), which `finish` relies on when it skips
an update. Last, what makes an answer that the agent gives with the result the
whole text: without a tool use its last block is everything, and where tool uses are shown
the block begins before the segment does (`AnswersWhole`).

The invariants `TypeOK`, `PlaceInv`, `LeakInv`, `EntryInv`, `Standing` and the
others were checked by TLC on the instances of the runs first; the hypotheses
above are what its counterexamples asked for.

Only model-checked: what rests on fairness, as TLAPS has no rule for it here.
That is `EverySenderTold` and the fairness of `SerialTurns` in `ServiceSpec`
(`turn_warm`), and `CloseReturns` and `Ends` (`agent_close`). Every other property
of a passing run has a theorem.

## 5. Where the code and its words differ

`perm_leak` is part of the runs: a turn that publishes its request after a
teardown has taken `state.pending` waits for ever, with its Session locked.

The others are kept as configurations that reproduce them. Each checks the one
property named here, which TLC finds violated; the trace is the sequence of
steps (`tlc -config LateReader.cfg MCEventOwner`).

| configuration | property | what happens |
|---|---|---|
| `StartFailure` (`MCTurnEngine`) | `EntryQueueServed` | when `StartSession` fails, the failed state has taken over the messages queued during the start, and nobody looks at them until the next message |
| `AutoCompressUnlocks` (`MCTurnEngine`) | `TurnMutex` | `runCompress` unlocks the Session, and the turn that called it unlocks it once more, possibly for somebody else |
| `NewDuringTurn` (`MCTurnEngine`) | `NoPanic` | a `/new` between the nil check and the use of `state.agentSession` makes the turn call a method of nil; no goroutine recovers |
| `NewLeaksAgent` (`MCTurnEngine`) | `NoForgottenAgent` | the cleanup of `/new` deletes a state that a new message has put into the map while the old agent was being closed; its process stays |
| `StoreIdleClock` (`MCSessionStore`) | `IdleByUser` | `LastUserActivity` has a JSON tag and is never copied into the snapshot; after a restart automated turns put off the idle reset |
| `LateReader` (`MCEventOwner`) | `OneConsumer` | a turn unlocks its Session and then starts the reader; the next turn may have begun in between, and both read the channel. The comment of engine.go:3402-3410 says they never overlap |
| `RelayDeadline` (`MCRelay`) | `Deadline` | a relay looks at its context only after an event has arrived; the comment of engine.go:12966-12968 promises the timeout, which a silent process never lets happen |
| `ReaperKillsTurn` (`MCWorkspaces`) | `ReaperSpares` | a turn begun between the removal of an idle entry and the clean-up is closed with it; the test of engine_test.go:7002 says "idle reaper closed a session with an active turn" |
| `LateTimer` (`MCPreview`) | `FinalStands` | a timer that has fired and waits for the mutex during `finish` replaces the final text by the preview's text; the comment of streaming.go:312-313 says that finish cancels any pending timer |
| `BlockedClose` (`MCAgentProcess`) | `CloseReturns` | `Close` takes `stdinMu` before any of its timeouts, and a write to a process that does not read holds it; the escalation to SIGTERM and SIGKILL that the comments describe never starts |
| `OutputLost` (`MCAgentProcess`) | `OutputRead` | `cmd.Wait` closes the output while the scanner may still have lines to read; the test of session_test.go:118 says "events closed but system event lost" |

Found while modelling, without a configuration of their own.

Turns, permissions and the store:

- A message may be acknowledged as queued and yet be appended to the placeholder
  state after the starting turn has adopted its queue (engine.go:2257 against
  2163-2165 and 3019-3023): `QueueServed` holds on a warm agent only.
- When two messages reset the same idle Session, the one whose `TryLock` on the
  new Session fails goes on with the old one, which it has unlocked
  (engine.go:2222-2232).
- A fresh agent has no id yet and matches every Session (engine.go:2914): after
  `/new`, turns of two Sessions may read the events of one process.
- A failing `Send` of `/compress` with a living agent unlocks the Session
  without looking at the queue (engine.go:8309-8316).
- A reply dereferences `state.agentSession`, which a cleanup may have set to nil
  in the meantime (engine.go:2443).
- `Save` shares its lock with other `Save`s, although its comment calls it safe
  from outside (session.go:591): of two that overlap the older copy may be
  written last. The file then lacks an agent id that it had, or has the legacy flag
  off with a Session that is not tracked, until the next save that overlaps
  none, and a crash before that loses it. `KeptOnDisk` and `LegacySound` except such
  a file (`stale`), and nothing else: without that conjunct TLC finds both violated.
- A Close that is given up after 130 s leaves its process behind (engine.go:3169):
  the entry is deleted, and the next message starts a second process, possibly on
  the same agent session, while the first one runs.
- A store file that cannot be parsed gives an empty store, and the next save
  writes that over it (session.go:669).
- Replies that overlap (`Serial = FALSE`) may answer one request twice, and the
  second one clears the request that is pending by then: `AnsweredOnce` and
  `Answerable` hold for a platform that hands over one message at a time.

The events channel:

- The result of a turn the agent took by itself may be read by the next turn and
  shown as its answer (3309-3311): `AnswerOwn` holds for `strays = 0`.
- `/compress` stops the reader and starts none when it is done (8274, 8290): the
  agent is not listened to until the next turn.
- After a stop that timed out (3240-3247) the old reader may take and drop an
  event of the next turn, or clear `eventsNeedResync` (3426).
- A Codex session may report an error after a result (agent/codex/session.go:241-260),
  which the next turn reads as its own.

Cron and heartbeat:

- The idle test of a heartbeat takes the lock for a moment
  (heartbeat.go:338-349). A message that comes then is queued, and nobody drains
  the queue after the probe, against the comment of engine.go:2140-2143.
- Whether a run succeeded is told from the growth of the history, read after the
  unlock (engine.go:1229-1233, 1251): a turn of somebody else counts too.
- `AddJob` with a failing save leaves the job enabled in memory and unscheduled
  (cron.go:483); overlapping enable, disable and edit leave jobs enabled and
  unscheduled, or scheduled and disabled.
- The heartbeat file is written in place (heartbeat.go:312): a crash in the write
  loses the overrides of all projects. A write that fails is only logged
  (312-314): the command has told the user that the heartbeat is paused, and a
  restart takes it up again. The next write that succeeds makes up for it.

Relay:

- Two relays of one source run two processes on one agent session, since there
  is no lock; `drainRelaySession` stores its id over a newer one (13137); a resume that
  fails wipes an id that another relay has stored meanwhile (12994-12997).
- `cmdBind` uses the binding it reads back without a test for nil, which it is if
  another command has removed it in between (engine.go:13254), and `Send` reads the bots
  of a binding after it has released the lock (relay.go:198-203).

Workspaces:

- `EndTurn` of a background turn may fall on another entry than its `BeginTurn`
  (3296, 3419). Messages drained as orphans and `/compress` are not counted
  (2307-2343, 8289), nor are cron runs; with a directory override `Touch` falls on
  another entry (2053), a second manager opens the same file, and a channel
  may have two turns (2766-2851).
- `state.workspaceDir` is set after the state is in the map and read by the
  reaper without `state.mu` (518).
- The instances of `WorkspaceBindingManager` share one file and write it whole
  (workspace_binding.go:101-114, 205; main.go:299).

Previews:

- A segment that is held back as a possible `NO_REPLY` is lost at a tool use
  (engine.go:3914-3929). A frozen preview longer than `MaxChars` is cut and the
  rest is never sent (streaming.go:268-281); a refused update of a freeze is ignored.
- When the agent exits without a result and no tool was used, the preview
  stays beside the answer (4637-4645).
- A timer's callback that waited for the mutex clears the field of a newer timer.

The Claude Code session:

- With nobody reading and a full channel `Close` waits its full 120 seconds.
- Descendants that hold the error output keep `Wait` from returning, so that a
  dead process stays "alive" until they go; descendants that hold the standard
  output only do not, and may outlive the session.
- A refused SIGKILL is only logged, and one to the group misses who has left it
  (session.go:743-750): the wait that follows (751) has no timeout, so that `Close`
  does not return as long as what is left holds the error output (`Unkillable`).
- After the wait the reader may report "read stdout: file already closed" as an
  error of the turn.

## 6. What is not modelled

In the modelled parts: `Engine.Stop`, the recall probe and monitor, side
sessions; the history, display names, agent types and user metadata of the
store, a file that cannot be parsed; the requests that the background reader
and `/compress` answer by themselves; the descriptions, mute flags and shell
commands of jobs; the file of the relay bindings; cards, voice and the compact
progress message. In `TurnEngine` a drain of the events channel before a prompt
has no effect, since an agent process has one event at a time there;
`EventOwner` has the drain. A Close that is given up is in `TurnEngine` only: in
`Permissions`, `EventOwner` and `Workspaces` a teardown leaves no process. In
`AgentProcess` a process keeps both its outputs until it exits. In `Preview` posts
and edits may be refused; a plain message for a segment or an answer is delivered,
and a message that is to be deleted is gone (streaming.go:305, 351, 366, 404 and the
plain sends of engine.go ignore the error), so what the properties say of the user's
screen is for a platform that does these two.

The rest of the program is its greater part, more than nine tenths of
its lines, and it is of another kind. Platform adapters
(`platform/*`), the other agent adapters and the servers translate between a network protocol and
the calls the models start from. Configuration, the translations, the commands and the
management API read and set one value at a time and format pages. The web console and
the installers have no state that outlives a call. None of them has an order of
steps that goes wrong in a way a model would show and reading would not; where
one of them enters the core, it does so as a message, an event or a restart, and
these are in the models. The smaller ones with a state of their own are in the plan.
`PROJECT.json` ("components") has the reason for every part.

## 7. Plan

What is left, most useful first.

1. `Bridge`: adapters that reconnect while a request waits.
2. `RateLimits`: the sliding window, the token bucket with concurrent waiters,
   and the message ids with a TTL, as functions checked against a reference over
   bounded times.
3. `Permissions` extended by the background reader and by `/compress`, which
   answer requests by themselves.
4. `TurnEngine` extended by `Engine.Stop` and the recall monitor.
5. The compact progress message; the bindings of workspaces in their shared file.
6. Theorems: `EntryQueueServed` with a `/compress` whose agent lives, and the
   safety properties of the modules named above.
7. The scoring of a guess in `Wordle_solver`, a pure function, against its
   definition by multisets.
