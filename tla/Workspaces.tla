----------------------------- MODULE Workspaces -----------------------------
(***************************************************************************)
(* The pool of workspaces (core/workspace_state.go) and the engine around  *)
(* it in multi-workspace mode.  An entry of the pool has the agent and the *)
(* SessionManager of a directory; it counts the turns in progress and      *)
(* knows when it was last used.  A reaper removes entries that have been   *)
(* idle for too long and then closes the agents that run in them.  A       *)
(* message gets its Session from the entry when it arrives and begins its  *)
(* turn on the entry that is there later.                                  *)
(*                                                                         *)
(* One directory.  An entry, and with it its manager, is a number; so is   *)
(* an interactiveState.  Both are pointers that outlive their map.         *)
(***************************************************************************)
EXTENDS Naturals, FiniteSets

CONSTANTS
  Msgs,       \* messages and commands, each with its goroutines
  Channels,   \* the session keys of the workspace
  Channel,    \* the channel of each message
  Compresses, \* the messages that are /compress
  Untouched,  \* the messages of cron, and of channels whose directory is overridden
  Long,       \* a subset of LongSteps: what may outlast the idle timeout
  MaxReaps    \* how often the reaper finds something

\* Steps of a goroutine that an entry does not count as turns: the start of an
\* agent, the turns of messages whose queue nobody drained, and /compress.
LongSteps == {"start", "orphan", "compress"}

ASSUME WorkspacesAssumption ==
  /\ IsFiniteSet(Msgs) /\ IsFiniteSet(Channels)
  /\ Channel \in [Msgs -> Channels]
  /\ Compresses \subseteq Msgs /\ Untouched \subseteq Msgs
  /\ Long \subseteq LongSteps
  /\ MaxReaps \in Nat

VARIABLES
  current,  \* workspacePool.states of the directory: an entry, or None
  entries,  \* how many entries have been made
  turns,    \* activeTurns of each entry
  idle,     \* is lastActivity of the entry before the cutoff?
  made,     \* the entries that have their agent and manager
  busy,     \* the Sessions in use: a manager and a channel
  state,    \* interactiveStates of each channel: a state with an agent, or None
  states,   \* how many have been made
  pc,       \* where the goroutine of each message is
  manager,  \* the entry its Session comes from
  counted,  \* the entry it has begun its turn on
  talking,  \* the channels whose background reader relays a turn, each with
            \* the entry it has counted the turn on, or None
  strays,   \* the entries that have lost a turn begun on another entry
  targets,  \* what the reaper has collected and not cleaned up yet
  reaping,  \* has the reaper removed the entry and not collected?
  reaps,    \* how often it has removed one
  killed    \* the messages whose turn the reaper has ended

poolVars == <<current, entries, turns, idle, made>>
stateVars == <<state, states>>
msgVars == <<pc, manager, counted>>
reaperVars == <<targets, reaping, reaps, killed>>
readerVars == <<talking, strays>>
vars == <<poolVars, stateVars, busy, msgVars, readerVars, reaperVars>>

None == 0
Entries == 1 .. (2 * MaxReaps + 2)
Labels == {"idle", "create", "lock", "retry", "start", "begin", "turn", "ending",
           "orphan", "compress", "end"}

TypeOK ==
  /\ current \in {None} \cup Entries
  /\ entries \in {None} \cup Entries
  /\ turns \in [Entries -> 0 .. Cardinality(Msgs) + Cardinality(Channels)]
  /\ idle \in [Entries -> BOOLEAN]
  /\ made \subseteq 1 .. entries
  /\ busy \subseteq made \X Channels
  /\ state \in [Channels -> 0 .. states]
  /\ states \in Nat
  /\ pc \in [Msgs -> Labels]
  /\ manager \in [Msgs -> {None} \cup made]
  /\ counted \in [Msgs -> {None} \cup Entries]
  /\ talking \subseteq Channels \X ({None} \cup Entries)
  /\ strays \subseteq Entries
  /\ targets \subseteq Channels \X (1 .. states)
  /\ reaping \in BOOLEAN
  /\ reaps \in 0 .. MaxReaps
  /\ killed \subseteq Msgs

Init ==
  /\ current = None /\ entries = 0
  /\ turns = [n \in Entries |-> 0]
  /\ idle = [n \in Entries |-> FALSE]
  /\ made = {}
  /\ busy = {}
  /\ state = [c \in Channels |-> None] /\ states = 0
  /\ pc = [m \in Msgs |-> "idle"]
  /\ manager = [m \in Msgs |-> None]
  /\ counted = [m \in Msgs |-> None]
  /\ talking = {} /\ strays = {}
  /\ targets = {} /\ reaping = FALSE /\ reaps = 0
  /\ killed = {}

-----------------------------------------------------------------------------
(* The pool *)

Go(m, at) == pc' = [pc EXCEPT ![m] = at]

\* GetOrCreate
Entry == IF current = None THEN entries + 1 ELSE current
MakeEntry ==
  /\ current' = Entry
  /\ entries' = IF current = None THEN entries + 1 ELSE entries

BeginTurn(n) ==
  /\ turns' = [turns EXCEPT ![n] = @ + 1]
  /\ idle' = [idle EXCEPT ![n] = FALSE]

EndTurn(n) ==
  /\ turns' = [turns EXCEPT ![n] = IF @ > 0 THEN @ - 1 ELSE 0]
  /\ idle' = [idle EXCEPT ![n] = FALSE]

\* Time passes.  The steps of a goroutine from its arrival to its turn are
\* shorter than the idle timeout, unless they are Long.
Waiting(m) ==
  \/ pc[m] \in {"create", "lock", "retry", "begin", "ending"}
  \/ pc[m] \in LongSteps \ Long

Age ==
  /\ current # None /\ ~idle[current]
  /\ \A m \in Msgs : ~Waiting(m)
  /\ idle' = [idle EXCEPT ![current] = TRUE]
  /\ UNCHANGED <<current, entries, turns, made, stateVars, busy, msgVars, readerVars,
                 reaperVars>>

-----------------------------------------------------------------------------
(* Messages *)

\* Mutant of Arrive: a message is no activity.
ArriveUnseen(m) ==
  /\ pc[m] = "idle"
  /\ Go(m, "create")
  /\ UNCHANGED <<poolVars, stateVars, busy, manager, counted, readerVars, reaperVars>>

\* handleMessage touches the entry of the directory it resolves, if there is
\* one: not that of an override, and cron touches none.
Arrive(m) ==
  /\ pc[m] = "idle"
  /\ Go(m, "create")
  /\ idle' = IF current # None /\ m \notin Untouched
               THEN [idle EXCEPT ![current] = FALSE] ELSE idle
  /\ UNCHANGED <<current, entries, turns, made, stateVars, busy, manager, counted,
                 readerVars, reaperVars>>

\* getOrCreateWorkspaceAgent, under the entry's mutex.  When the agent cannot
\* be created the entry stays without.
Create(m) ==
  /\ pc[m] = "create"
  /\ MakeEntry
  /\ \/ /\ made' = made \cup {Entry}
        /\ manager' = [manager EXCEPT ![m] = Entry]
        /\ Go(m, "lock")
     \/ /\ Entry \notin made
        /\ Go(m, "end")
        /\ UNCHANGED <<made, manager>>
  /\ UNCHANGED <<turns, idle, stateVars, busy, counted, readerVars, reaperVars>>

SessionOf(m) == <<manager[m], Channel[m]>>
Free(m) == SessionOf(m) \notin busy
Take(m) == busy' = busy \cup {SessionOf(m)}

\* The Session of the channel in the manager that was found.  A message that
\* finds it busy is queued on the state of the channel, or refused; a /compress
\* needs an idle Session and a state.
Lock(m) ==
  /\ pc[m] = "lock"
  /\ \/ Free(m) /\ m \notin Compresses /\ Take(m) /\ Go(m, "start")
     \/ /\ Free(m) /\ m \in Compresses /\ state[Channel[m]] # None
        /\ Take(m) /\ Go(m, "compress")
     \/ ~Free(m) /\ m \notin Compresses /\ state[Channel[m]] # None
        /\ Go(m, "retry") /\ UNCHANGED busy
     \/ /\ m \in Compresses => ~Free(m) \/ state[Channel[m]] = None
        /\ m \notin Compresses => ~Free(m) /\ state[Channel[m]] = None
        /\ Go(m, "end") /\ UNCHANGED busy
  /\ UNCHANGED <<poolVars, stateVars, manager, counted, readerVars, reaperVars>>

Retry(m) ==
  /\ pc[m] = "retry"
  /\ \/ Free(m) /\ Take(m) /\ Go(m, "orphan")
     \/ ~Free(m) /\ Go(m, "end") /\ UNCHANGED busy
  /\ UNCHANGED <<poolVars, stateVars, manager, counted, readerVars, reaperVars>>

\* getOrCreateInteractiveStateWith, which may wait for the agent to start.
Start(m) ==
  /\ pc[m] = "start"
  /\ Go(m, "begin")
  /\ LET c == Channel[m] IN
       IF state[c] # None
         THEN UNCHANGED stateVars
         ELSE /\ states' = states + 1
              /\ state' = [state EXCEPT ![c] = states + 1]
  /\ UNCHANGED <<poolVars, busy, manager, counted, readerVars, reaperVars>>

\* The agent does not start: the Session is unlocked and no turn has begun.
StartFails(m) ==
  /\ pc[m] = "start" /\ state[Channel[m]] = None
  /\ Go(m, "end")
  /\ busy' = busy \ {SessionOf(m)}
  /\ UNCHANGED <<poolVars, stateVars, manager, counted, readerVars, reaperVars>>

\* The turn is counted on the entry that is in the pool by now.
Begin(m) ==
  /\ pc[m] = "begin"
  /\ Go(m, "turn")
  /\ MakeEntry
  /\ BeginTurn(Entry)
  /\ counted' = [counted EXCEPT ![m] = Entry]
  /\ UNCHANGED <<made, stateVars, busy, manager, readerVars, reaperVars>>

\* The agent of a turn in progress ends, and the turn cleans up after it.
Fail(m) ==
  /\ pc[m] \in {"turn", "orphan"}
  /\ state[Channel[m]] # None
  /\ state' = [state EXCEPT ![Channel[m]] = None]
  /\ UNCHANGED <<poolVars, states, busy, msgVars, readerVars, reaperVars>>

\* The turn is over; the Session is unlocked before the deferred EndTurn.
Unlock(m) ==
  /\ pc[m] \in {"turn", "orphan", "compress"}
  /\ Go(m, IF pc[m] = "turn" THEN "ending" ELSE "end")
  /\ busy' = busy \ {SessionOf(m)}
  /\ UNCHANGED <<poolVars, stateVars, manager, counted, readerVars, reaperVars>>

Finish(m) ==
  /\ pc[m] = "ending"
  /\ Go(m, "end")
  /\ EndTurn(counted[m])
  /\ UNCHANGED <<current, entries, made, stateVars, busy, manager, counted, readerVars,
                 reaperVars>>

-----------------------------------------------------------------------------
(* Background turns *)

Working(c) ==
  {m \in Msgs : Channel[m] = c /\ pc[m] \in {"start", "begin", "turn", "orphan", "compress"}}

Talking(c) == \E t \in talking : t[1] = c

\* The background reader relays the first event of a turn nobody asked for: it
\* counts it on the entry, if there is one.
Talk(c) ==
  /\ ~Talking(c)
  /\ state[c] # None /\ \A m \in Working(c) : pc[m] = "start"
  /\ talking' = talking \cup {<<c, current>>}
  /\ IF current # None THEN BeginTurn(current) ELSE UNCHANGED <<turns, idle>>
  /\ UNCHANGED <<current, entries, made, stateVars, busy, msgVars, strays, reaperVars>>

\* Mutant of Quiet: the end is not counted.
QuietUncounted(c, n) ==
  /\ <<c, n>> \in talking
  /\ talking' = talking \ {<<c, n>>}
  /\ strays' = strays \cup ({current} \ {None, n})
  /\ UNCHANGED <<poolVars, stateVars, busy, msgVars, reaperVars>>

\* The turn ends, or the reader is stopped, or its channel is closed: whatever
\* entry there is by now counts one turn less.
Quiet(c, n) ==
  /\ <<c, n>> \in talking
  /\ talking' = talking \ {<<c, n>>}
  /\ strays' = strays \cup ({current} \ {None, n})
  /\ IF current # None THEN EndTurn(current) ELSE UNCHANGED <<turns, idle>>
  /\ UNCHANGED <<current, entries, made, stateVars, busy, msgVars, reaperVars>>

-----------------------------------------------------------------------------
(* The reaper *)

\* ReapIdle, under the pool's mutex.
Reap ==
  /\ targets = {} /\ ~reaping /\ reaps < MaxReaps
  /\ current # None /\ idle[current] /\ turns[current] = 0
  /\ current' = None
  /\ reaping' = TRUE
  /\ reaps' = reaps + 1
  /\ UNCHANGED <<entries, turns, idle, made, stateVars, busy, msgVars, readerVars,
                 targets, killed>>

\* Mutant of Collect: the states that are in use are left alone.
CollectUnused ==
  /\ reaping
  /\ reaping' = FALSE
  /\ targets' = {<<c, state[c]>> : c \in {d \in Channels : state[d] # None /\ ~Talking(d)}}
  /\ UNCHANGED <<poolVars, stateVars, busy, msgVars, readerVars, reaps, killed>>

\* reapIdleWorkspaces collects the states of the directory, whoever uses them.
Collect ==
  /\ reaping
  /\ reaping' = FALSE
  /\ targets' = {<<c, state[c]>> : c \in {d \in Channels : state[d] # None}}
  /\ UNCHANGED <<poolVars, stateVars, busy, msgVars, readerVars, reaps, killed>>

\* cleanupInteractiveState closes the agent of a state, if it is still there.
Clean(c, n) ==
  /\ <<c, n>> \in targets
  /\ targets' = targets \ {<<c, n>>}
  /\ IF state[c] = n
       THEN /\ state' = [state EXCEPT ![c] = None]
            /\ killed' = killed \cup {m \in Working(c) : pc[m] # "start"}
       ELSE UNCHANGED <<state, killed>>
  /\ UNCHANGED <<poolVars, states, busy, msgVars, readerVars, reaping, reaps>>

-----------------------------------------------------------------------------

Next ==
  \/ \E m \in Msgs :
       \/ Arrive(m) \/ Create(m) \/ Lock(m) \/ Retry(m) \/ Start(m) \/ StartFails(m)
       \/ Begin(m) \/ Fail(m) \/ Unlock(m) \/ Finish(m)
  \/ \E c \in Channels : Talk(c)
  \/ \E t \in talking : Quiet(t[1], t[2])
  \/ Age \/ Reap \/ Collect
  \/ \E t \in targets : Clean(t[1], t[2])

Spec == Init /\ [][Next]_vars

-----------------------------------------------------------------------------
(* Properties *)

\* Two messages of a channel have the same manager, and so the same lock, for
\* as long as one of them has its turn: entries that come and go between a
\* message's arrival and its turn do not let two turns into one chat.  Where a
\* background turn has ended on another entry than it began on, an entry may
\* have lost the turn that keeps it.
OneTurn ==
  strays = {} => \A c \in Channels : Cardinality(Working(c)) <= 1

\* A workspace is not removed while a turn is in progress that has begun on it
\* (core/workspace_state.go:149): its count is not below the turns there are,
\* and is wrong only where a background turn has ended that began before the
\* entry did.
TurnsCounted ==
  current # None /\ current \notin strays =>
    turns[current] = Cardinality({m \in Msgs : counted[m] = current
                                                /\ pc[m] \in {"turn", "ending"}})
                     + Cardinality({c \in Channels : <<c, current>> \in talking})

\* An agent that runs has an entry that will be reaped, or a reaper that is at
\* work, or a goroutine that will make the entry.
Reapable ==
  \A c \in Channels :
    state[c] # None =>
      \/ current # None \/ reaping \/ <<c, state[c]>> \in targets
      \/ \E m \in Msgs : pc[m] \in {"create", "begin"}

\* "idle reaper closed a session with an active turn" is what the test of
\* core/engine_test.go:7002 fails with.
ReaperSpares == killed = {}

=============================================================================
