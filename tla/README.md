# Herdsman: a verification development

Herdsman is a daemon that watches the agents (Claude Code, Codex, Pi, Agy, ...)
running in the panes of the Herdr terminal multiplexer, keeps an index and an
event log of them in SQLite, and hands finished, blocked and failed outcomes to
the one terminal of each workspace that switched orchestration on, its *owner*.
The sources are Go, under `src/go/`; paths below are relative to
`src/go/internal/`.

These modules model the parts in which an outcome can be lost, delivered to the
wrong terminal or delivered for ever; TLC checks them on small instances and
TLAPS proves the central properties for every value of the constants.
`PROJECT.json` lists components, runs, mutants, the map from definitions to
source lines, findings, hazards and theorems.

## 1. The system

| component | source | state it keeps | operations |
|---|---|---|---|
| agent event store | `db/agent_events.go` | table `agent_events`, logical clock | Append, InvalidatePane, ListAfter, NextDeliverableAfter, ReservePending, ReclaimDelivered, MarkAcked, the reconcile writes, AckSelfOwned |
| scope store | `db/agent_orchestrator_scopes.go` | table `agent_orchestrator_scopes`: owner, cursor, updated_at | Get, Claim, Release\*, Ack, MoveOwner, Purge |
| agent store | `db/agents.go` | tables `agents`, `agent_pane_tombstones` | ReplaceForSession, RetirePane, UpdateStatus, session references |
| orchestrator service | `observability/agent_orchestrator_service.go` | none of its own | Claim, Release, Move, Pending, Ack |
| index service | `observability/agent_index_service.go`, `agent_index_events.go` | queue per session, mutation epoch, waiters | refresh, pane.closed, status changes |
| status plans | `observability/agent_index_plans.go`, `db/status_event_plans.go` | table `status_event_plans`, timers | plan, run, retry, cancel, drain |
| turn completion | `observability/turn_completion.go` | recorded signals, waiters | record, wait, time out |
| event reconciler | `daemon/agent_event_reconciler.go` | none | one pass: snapshot, batches, verdicts, TTLs, purge, self-ack |
| RPC server | `daemon/observability_server.go`, `..._handlers.go` | sockets, presences, Agy leases, grace timers, send queues | register, get, set, ack, publish, reconcile locations, heartbeat |
| watch manager | `daemon/herdr_session_watch_manager.go` | watchers per Herdr session, in-flight refreshes and plans | start, retire, restart, publish |
| daemon service | `daemon/service.go`, `process_manager.go` | instance lock, pid file, scheduler | start, supervise, stop |
| SQLite gate | `shared/sqlite_gate.go`, `sqlite_transaction.go`, `db/client.go` | holder, depth, wake channel, open transaction | acquire, release, exec, query, transaction |
| Agy hook, wake waiter | `agy/*.go`, `daemon/agy_wake_rearm.go` | state file per session | hook events, present, defer, ack, wait, re-arm |
| context service, history readers, Herdr client, CLI, config, contracts | see `PROJECT.json` | caches, or nothing | reading, parsing, formatting |

Interactions. The watch manager receives Herdr's events and calls the index
service, which serializes the operations of one session; their writes go to
`agents` and `agent_events`. New events are pushed to the RPC server, which
routes a frame to the newest socket of the owner. The frame is only a nudge:
the owner's client answers it with `agent.orchestrator.get`, and what it is
handed is what the event store *reserves* for it. The client acknowledges after
its turn; the acknowledgement settles rows and moves the workspace's cursor. The
reconciler repairs what lost events left behind, every fifteen minutes and once
at start. The RPC handlers hold the server's mutex, the index operations their
session's queue, the reconciler nothing; all three share one SQLite connection
behind the gate, and meet only in the tables. Timers of the RPC server release
owners whose terminal stays away.

What is hard, and where a unit test hardly reaches:

* the three activities interleave between SQLite transactions, and each acts on
  what it read in an earlier one (claim and cursor, snapshot and candidates,
  pane close in three transactions);
* Herdr re-uses pane ids; `pane.closed` may be lost, late, or without a
  generation, so an event must be told apart from one of an earlier pane;
* delivery is at least once: reserve, time out, reclaim, retain, acknowledge, with
  closes in between;
* every goroutine shares one connection, transactions nest, panic and fail to
  commit;
* a timer that fired cannot be cancelled, and a lease expires only when somebody
  looks at it;
* plans, hooks and the daemon itself restart in the middle of things: a row that
  was running is run again, a verdict may be half written, a state file that
  nobody locks is replaced whole by several processes;
* what a component waits for may have been replaced while it waited: a watcher
  by a rescan, a waiter by a new turn, a plan by a newer status, the daemon's
  startup by its own shutdown.

`PROJECT.json` lists these as hazards with their lines and the properties that
watch them.

## 2. The modules

| module | models | checked by | proofs |
|---|---|---|---|
| `AgentEvents` | event store, scope store, orchestrator service, reconciler, closes and refreshes of the index service | `MCAgentEvents`, `MCOwnerless` | `AgentEvents_proofs` |
| `StatusPlans` | status event plans of one agent: insertion, runs, retries, verdicts, rescue, drains, late replays, shutdown and crash | `MCStatusPlans` | `StatusPlans_proofs` |
| `PlanLedger` | the abstract promise of the plans, which `StatusPlans` implements | `MCStatusPlans` | `StatusPlans_proofs` |
| `TerminalPresence` | presence, leases and grace timers of the RPC server | `MCTerminalPresence` | `TerminalPresence_proofs` |
| `AgyHook` | the hooks of an Agy session, its state file, the wake waiters and the daemon's re-arm | `MCAgyHook` | `AgyHook_proofs`, `AgyTurns_proofs`, `AgyAnswers_proofs` |
| `WatchManager` | the Herdr session watch manager, with the event streams of the Herdr client | through `DaemonLifecycle` | `DaemonLifecycle_proofs` |
| `DaemonLifecycle` | the daemon process: boot, startup, signals, shutdown sequence, periodic reconcile; extends `WatchManager` | `MCDaemon` | `DaemonLifecycle_proofs` |
| `SqliteGate` | gate, transactions, serialized connection | `MCSqliteGate` | `SqliteGate_proofs` |

How they meet. `DaemonLifecycle` composes with `WatchManager` action by action:
a startup step starts the manager, a step of the shutdown stops it, the abort of
the first signal retires its watchers. What the manager's index operations do is
`StatusPlans` (how a status change becomes an event) and `AgentEvents` (what
becomes of the event); the daemon's `drain` steps are the drains of
`StatusPlans`, its `reconcile` the reconciler of `AgentEvents`. `AgyHook` is one
client of the orchestrator seen from its own side: the listing and the
acknowledgement it calls are `Get` and `Ack` of `AgentEvents`, reduced there to
what one workspace answers. `TerminalPresence` is the inside of one action of
`AgentEvents`: `PresenceLost` there releases an owner at any time, and says
nothing about when. `SqliteGate` is what justifies taking one transaction as one
action in the others.

### AgentEvents

One action is one SQLite transaction or statement; the activities interleave
between them. `rpc`, `ix` and `rec` hold the place of the RPC handler, the index
service and the reconciler, with what each has read.

| state | code |
|---|---|
| `row[e]` | the row of `agent_events` with id `e` (`status`, `deliverable`, type, pane, generation, `agent_id`, attempts, `delivered_to`, created and tried times, close reason) |
| `agents[p]` | the row of pane `p` in `agents` |
| `scope[w]` | the row of `agent_orchestrator_scopes`: cursor, owner, updated time |
| `opened`, `live`, `closing` | Herdr: pane ids and their incarnations; the `pane.closed` events on their way |

| actions | code |
|---|---|
| `Get`, `Reclaim`, `Select`, `Reserve` | `Pending` with ReclaimDelivered, NextDeliverableAfter over the served workspaces, ReservePending |
| `Ack`, `AckMark`, `AckAdvance` | `Ack`: checks, MarkAcked with the sweep, `scopes.Ack` |
| `Claim`, `ClaimWrite`, `TurnOff`, `PresenceLost` | set on and off, the cursor of a claim, releases |
| `Append`, `CloseInvalidate`, `CloseRetire`, `CloseRelease`, `Refresh` | the index service's writers |
| `RecSnapshot` ... `RecSelfAck` | one pass of the reconciler |
| `Tick`, `Crash`, `PaneCloses`, `PaneOpens` | time, death of the daemon, Herdr |

Abstractions. A pane stands for the terminal in it, and the id of an owner's
pane is not used again. `outcome` is a `done` or an `idle` after work.
`delivery_attempts` stops counting at `MaxAttempts`, where the code has exhausted
the row. Two reads with nothing in between are one step. A refresh sees exactly
Herdr's live panes; tombstones and the mutation epoch, which keep an old refresh
out, are not modelled. `tried` is `coalesce(last_attempt_at, created_at)`;
`next_attempt_at` is always null in this program. Page limits are never reached
at the checked sizes. Generations are ordered numbers (SQL compares them as text;
see the hazard). The owner release of the reconciler is off in both of the
daemon's calls (`service.go:675`, `:930`). SQL errors are not modelled. Moves of
owners between workspaces are not modelled.

### SqliteGate

`holder`, `depth`, `wake`, the waiters of the gate, the open transaction and the
rows of each goroutine. A goroutine whose id cannot be parsed (`Anonymous`) does
not re-enter. Exec, Query and Close of rows, BEGIN, a body that returns or panics,
COMMIT and ROLLBACK that may fail, `ReleaseAll` on the way out of a panic, and the
close of the driver connection are actions. A timed wait may expire at any time.
A rollback that fails is taken not to leave a transaction open, as SQLite itself
has then rolled back. Prepared statements are left out: nothing prepares one.

### TerminalPresence

| state | code |
|---|---|
| `conn` | `sockets`, `piPresenceBySocket`, `socketsByTerminal`; `want` is a registration being resolved with the mutex released |
| `lease` | `agyPresenceByTerminal` |
| `grace` | the `time.AfterFunc` timers (armed or fired) and the registries `disconnectTimers`, `startupTimers` that name them |
| `indexed`, `closed`, `leaving` | the agent in the index, tombstones, pane closes whose owner release is still to come |
| `scan` | a refresh's agents on their way to `ReconcileAgentLocations` |

A timer goes armed, fired, done: between *fired* and the callback's lock anything
may happen, and cancelling a fired timer has no effect (`Stopped`). The callback
deletes the registry entry of its key whichever timer it names (`Done`), as the
code does. `Present` is `hasTerminalPresence`, and `Checked` is its side effect:
looking at an expired lease deletes it. One workspace is enough, because no rule
here relates two; `EventOffered` is the look that an event of *another*,
ownerless workspace takes at this owner. A row of the index always names an
agent. An Agy client registers once per connection (`agy/hook.go:652`).
The heartbeat scan only closes sockets, which `SocketClose` covers.

### StatusPlans and PlanLedger

| state | code |
|---|---|
| `plan[p]` | the row of `status_event_plans` (`st`, from, to, whether Herdr numbered the event, attempts, last error, stored answer) |
| `log` | the `agent_events` rows of the agent, with the answer each tells |
| `queue`, `run` | `planTailByAgent`: the operations that wait, and the place of the one that runs |
| `timer`, `drain` | `waitingHistoryTimers`; the rows `DrainPendingPlans` has yet to visit |
| `owed` | a transition found by a refresh, between `ReplaceForSession` and `InsertPending` |
| `disk`, `live`, `pane` | the agent's last answer, its status in the index, its pane |

A run is taken from the queue (`SkipTask`, `StartOrphan`, `StartUnread`,
`StartRun`), waits in one of four ways (`grace`: a tool call in flight, `turn`:
a completion signal, `advance`: the history must move on, `ready`: the readiness
gate of the other agents), appends `agent.status.changed` and the terminal event
in two steps, and is settled: completed, withdrawn as degraded, put back, given
up with a verdict, rescued or cancelled. Beside it move `StatusEvent` and
`Refresh*` (new plans, which supersede older ones), the two steps of a pane
close, `LateCompletion`, timers, drains, `Stop`, `Dies` and `Starts`.

An answer is a number and whether the agent stopped with it; comparison of texts
is comparison of numbers. The time-out of a wait, the expiry of the retry window
and `isAgentStalled`'s window are choices. Appends do not fail here.

`PlanLedger` knows only whether a plan is open or how it ended, and what verdict
the log has of it. The refinement maps `row` to `RowOf` (pending and running are
*open*) and `verdict` to `VerdictOf` (none, the type of the one event, *rescued*
for the event of a rescue, and *twice*, which the ledger has no state for).
A plan thus ends once, keeps its end, and is told of at most once, over all
retries, restarts and drains that run a live plan a second time.

### AgyHook

| state | code |
|---|---|
| `file` | `SessionHookState` on disk: epochs, waiter pid, the presented, delivered, pending, deferred and retained events |
| `hook`, `wait[p]`, `rearm` | the place and the copy of the file of the running hook, of each waiter process, of `RearmAgyWaiters` |
| `stale` | the processes whose copy is no longer what the file holds |
| `severed` | the processes whose connection to the daemon is dead |
| `host`, `prompt`, `told` | the agent: idle or busy, a wake prompt it has not begun, the events its transcript shows |
| `row`, `cursor`, `owner`, `working`, `live` | what the daemon answers: events, acknowledged id, owner, `agent.list` |

`TurnBegins` to `Take` are `runPreInvocation`, `TurnEnds` to `StopReturns`
`runStop`; `Top`, `Peek`, `Commit`, `Trigger`, `Rearm`, `Clears`, `Prompts`,
`ClearsPid` are the loop of the waiter; `Scans` to `PidRecorded` the re-arm. Each
read of the file and each replacement is a step of its own, so every interleaving of
these processes on the unlocked file is there. Calls to the daemon are coarser:
`Registers`, `Claims` and `Refetch` are one call each, but `Flush`, `Take` and `Peek`
each join the agent list they read, the acknowledgements they send one after the
other (of which any may fail, with those before it done) and what they compute from
both. So no row moves and no owner changes between two acknowledgements of one flush.

A client dials the daemon once and never again (`daemon/client.go:55`). A restart
therefore cuts off the waiters that survive it and a hook that is under way: every
later call of theirs fails, and that spends no fault. Such a waiter leaves at its
third failed call, or at once if it is superseded; the re-arm, which looks at its pid
only, has by then passed the session over, and the agent counts as `deserted`. A
waiter that has not registered yet dials the new daemon.


A dropped batch, a failed call, an aborted turn, a restart or a waiter that quits is a
choice
that spends `faults`; an acknowledgement of one who no longer owns the workspace is
refused, as the service does, and costs none. `hist` remembers, for the properties only, that a write was
overwritten or a row was recorded by nobody (`lost`), that the parked agent was
left without a waiter (`deserted`), or that a turn has had two (`twins`). One session, in its own workspace; drafts,
deadlines and settle times are choices. `RowMoves` assumes that no look and no
restart lasts the 300 s a delivered row stays in the list (`Remembered`).

### WatchManager and DaemonLifecycle

| state | code |
|---|---|
| `watch[w]`, `at[s]` | the watch loops with their subscription, stream and connection; `m.watchers` |
| `scan[k]` | `RescanNow`, called by `Start` or by a tick: list, mark, replace one watcher after the other |
| `ticker`, `mgr` | the tick in flight; stopping, generation, the interval and its timer |
| `stop[k]` | the abort of the signal, the stop of the sequence, that of a failed startup |
| `plans`, `index`, `running` | plans in flight; what the index last learnt of each session; the `herdr_sessions` rows |
| `herdr` | the sessions, their panes and status changes |
| `main`, `mu`, `shut`, `job` | the startup step and its mutex; `stop()` and the goroutines of its four steps |
| `recon` | the periodic reconcile |
| `handler`, `files`, `db`, `exit` | signal disposition; owner record, pid file and socket; the database; the exit code |

One action of the manager is one section under its mutex with the calls up to the
next point where another goroutine can interfere. A connection is open, gone or
closed; an event is *status* or *topology*. A timer has fired before its callback
runs, and may do so after its interval was stopped. Steps of the shutdown may
outrun the budget at any time (`RaceOver`), which is how time enters. The
second signal's handler (`onSecondSignal`) is four steps, pid file, socket, lock and
exit, beside the startup step that may be under way and beside `stop()`. The
check-then-detach of `startupFailure` is one step, and so are the look at the abort and
the start of a startup step (the abort itself may come as late as one likes); RPC
handlers that still run
after `server.Stop` are not modelled, nor is what `reconcile` and `drain` do to
the database. Of the removals of files only that of the socket can fail, with
`server.Stop`: a pid file that is half written, or a file system that refuses an
unlink, is left out.

## 3. The runs

| run | instance | question |
|---|---|---|
| `AE_whole` | three instances side by side (below); 1.46 million states | types, row coherence, finality of acknowledgements, monotone cursor, an acknowledgement stays in its reach, what is in flight stays with its owner, no unseen failure lost |
| `AE_live` | 1 owner, 2 events, 160 896 states | what waits is handed over, the cursor is not blocked for ever, an acknowledgement swallows nothing unseen |
| `Plans` | a Pi, an Agy and another agent; 2 plans, 1 answer, 2 attempts, 1 end of the daemon; 278 655 states | the plans implement `PlanLedger` and are all settled; what waits is carried; the end of a Pi turn is told; Agy turns that follow one another tell different answers; a placeholder is withdrawn |
| `AgyHook` | 2 events of one terminal, 2 waiters, 1 turn nobody prompted, 1 fault, 1 retained id; 98 232 states | nothing is acknowledged unseen, no two prompts and none for nothing, an answer reaches the parked agent |
| `Daemon` | 1 session, 3 watcher slots, 1 status change, 1 move of Herdr, 2 signals; 434 207 states | one loop per session, quiet after `Stop`, a clean exit, a signal ends the process |
| `Daemon_follow` | the same without signals, 2 moves; 53 539 states | whatever falls between refresh and subscription, the index and the subscription catch up |
| `Presence` | 2 terminals, a Pi and an Agy connection, 2 timers; 1.88 million states | no absent owner without a timer, no connected owner dispossessed, over reconnections, stale timers, expiring leases, stop and restart; deadlock is checked |
| `Gate` | 3 goroutines, one without a parsable id, 2 open rows each | the gate's books, isolation of transactions, no lost wake-up, a panic frees the gate; deadlock is checked |
| `AE_settled`, `AE_stale_snapshot`, `AE_ownerless`, `Presence_forgotten` | the smallest that shows it | the findings of section 5 |

**Bounds.** An error of these protocols needs one event and one other thing: a
second event (order, sweep, cursor), a second incarnation (a stale close), a
second terminal (a sibling), a second tick (an age), a second waiter, a second
plan, a second loop, or one fault. Each instance has two of what its properties
are about and one of the rest.

`AE_whole` starts in one of three kinds of state, which never meet. *Alone*:
every action, with the reconciler, lost closes, crashes and a clock that crosses
every age limit, on one failure of the owner's own pane (reported at the start,
the third pane stays open) or of another (reported while there is time for it to
age). *Beside*: two owners in two workspaces take and lose ownership while an
outcome of the ownerless one is handed to its neighbour. *Reuse*: an outcome and
then a failure of a pane id that is used twice, with late closes. *Beside* and
*Reuse* have the handlers and the index service; one event that ages is as good
as another, so the clock is only in the first. Age limits are 0 or 1 tick, which
keeps their order and makes each of them crossed and not crossed. Of the
handler, the index service and the reconciler at most two are under way at a time
(`Apart`): every pair of them overlaps at every step, and no rule relates what all
three have read. `MaxAttempts`
is 2 (1 in `AE_live`), so an event is below its limit and at it. `AE_settled`
leaves out the reconciler (`DeliverySpec`), `AE_live` also time and the re-use of
panes (`FairSpec`: handlers, index service, closes).

`Plans` gives a second plan only to Agy, whose plans alone supersede each other,
and then without drain, pane close, stop or an event handed out; a stop meets
only Pi, whose plan has every wait; a refresh finds a transition only before the
first plan. Two plans, and a stop, meet only answers with which the agent has
stopped. `AgyHook` keeps the product of the fault and the second event small: with
a fault the second event comes from an idle peer and meets no restart, an event
that is noise meets no fault, and after a lost write there is neither. A waiter gives up at the second failure in a row
(`MaxAttempts`, 3 in the code). Three
generations (`MaxEpoch`) are the first turn, the wait that follows it and the turn
of a wake. Its transcript can always be read. One event is
retained at most (`KeepLimit`, 100 in the code), so two of them meet the limit.
In `Daemon` and `Daemon_follow` a reconcile run is in
flight only while neither Herdr has moved nor a tick is in flight, which share no
mutex with it; Herdr moves only while the daemon is up and no shutdown has begun,
a second signal comes before the third startup step and meets no move but a change
of status whose plan runs, the startup steps that may outlive the whole budget are
the reconcile and the start of the manager, and the stop of the server outlives its
own budget only where that of the manager did not. Three watcher slots are the one in the
map, the one a rescan replaces it by, and a retired one still ending. In `Presence`
the second terminal runs Pi only: the two kinds meet on the first.

The runs without a deadlock check are those in which everything may be over: every
event appended, the clock at its bound and all panes closed; a plan settled; a
session that nobody prompts; a process that has exited.

**Fairness.** `AE_live`: a handler that was begun finishes and the index service
finishes a close (weak); every owner's client keeps asking and keeps acknowledging
what it was given (strong, per owner and event: the clients poll on a timer, on
each pushed frame and on reconnection). Nothing is assumed of the reconciler,
Herdr or the authors. `Plans`: the queue's operation goes on, drains and their
backfills go on, a daemon that is stopping dies and one that is down is started
(weak); a plan that is put back for ever meets the end of its window (strong:
`MarkRetry` compares with the wall clock). The timers of retries need none: a
drain every fifteen minutes picks up what they leave. `AgyHook`: each hook, each
waiter and the re-arm go on (with a dead connection: its calls fail), the host begins a prompt it was given and ends its
turns, and `agent.list` catches up with a peer that is idle (weak). Nothing is
assumed of new invocations. `Daemon`: only the sequence of `stop()` goes on; its
steps, the startup and the manager need not. `Daemon_follow`: goroutines run,
timers fire, a session list does not fail for ever; a loop's way to the stream
(`top`, `refresh`, `subscribe`) is strongly fair because what cuts it short, a
rescan, comes a minute apart. The bounds narrow what is promised there: the
instance lets no tick begin while a reconcile run is in flight, so that fairness to the
ticks makes every run end, and behaviours with a reconcile that never ends are not among
those checked. In the code they share no lock. `Gate`: a goroutine that can go on goes on, and a
timed round ends. `Presence_forgotten`: time passes, timers fire, callbacks run, a
close that was begun is finished, refreshes go on, the daemon that was started
comes up and nobody stops it; nothing is assumed of the clients.
`ArmStartupGrace` is strongly fair only because the bound on timers can disable
it.

Every property of a passing run has a mutant in `PROJECT.json`: a change to one
mapped definition (a dropped guard, a missing reset, a swapped order) under which
TLC finds the property violated. The hazards list there names the properties that
watch each. Hazards left out of that list because nothing here can reach them, or
because another entry covers them: `pane_generation` is text and `<` compares it
character by character (`db/agent_events.go:444`); frames are queued under the
mutex and written after it (`daemon/observability_server_handlers.go:89`); the
logical clock is persisted (`db/agent_events.go:294`); a refresh replaces the row
before it inserts the plan, and a crash in between loses the transition
(`observability/agent_index_service.go:740`; the model has the crash, and no
promise of the code forbids the loss); a goroutine id that cannot be parsed waits
for its own transaction (`shared/sqlite_gate.go:116`; `Anonymous` has no nested
call in the model); a prepared statement with two open row sets
(`db/client.go:402`; nothing prepares one).

## 4. The proofs

Assumptions: the named ASSUMEs of each module (finite bounds are naturals, the
ages are ordered, `None` is no pane, watcher slots are numbers), nothing about
sizes.

**AgentEvents_proofs**, four layers, each inductive given the one below:

1. `Typed` is `TypeOK` with: an RPC handler that is not idle has a terminal.
2. `Known` adds `Coherent` (the columns of a row agree) and that ids above
   `lastId` have no row. Its step goes through one relation, `Evolves`, that says
   what any transaction may do to a row: it stays, it appears, it goes, or it
   keeps its identity and moves along the status graph. Every action is shown to
   let every row evolve; the properties of rows then follow from the relation
   alone. The case split over the actions is made once and not per property.
3. `Remembered` adds what an activity remembers across transactions: the cursor
   a claim is about to write is not behind the stored one as long as the scope
   row exists; the event an acknowledgement is about to mark is in reach; the
   verdicts of the reconciler still fit their rows. `TypeOK` and coherence say
   nothing about these, and without them a claim could move the cursor back.
4. `NoneSkipped`: between the cursor of a workspace and an event its owner was given
   nothing waits that this owner could be given and nobody ever was. A
   claim starts at the newest event or at the stored cursor; a hand-over reserves
   all it picked, and picks everything up to its last; what is appended later comes
   above; and no close, reconcile write or reclaim makes a row an offer that was none
   and was never given. The order of select and reserve matters: a row may change
   between the two. From it `SweepSparesUnseen`.

Theorems for `Spec` and all constants: `TypeCorrect`, `RowsAgree`,
`AcknowledgedIsFinal`, `InFlightIsKept`, `CursorIsMonotone`, `AckReachesOwnScopes`,
`UnseenFailuresSurvive`, `SweepSparesUnseen`.

**DaemonLifecycle_proofs**, of the composition of the daemon and its watch manager,
for any number of sessions, panes and watchers. `Typed` is `TypeOK` with the
sessions of the watchers (one that was ever used has one, the map agrees with
them) and the place of the sequence among its steps. On it stand

* `Tidy`: what the daemon has in its home on its way out. The startup that failed
  has removed everything but a socket its server would not give up once it reaches its
  last step; a sequence that took the startup over in time finds it ended, so no later
  startup step creates a file again; the step of the server is the only one that fails.
* `Forced`: where the forced exit of a second signal stands, and that whatever it has
  removed is back only by the startup step it met: `startupMu` does not hold it up, but
  no further step begins once the abort has fired. From both `CleanExit`.
* `Ordered`: what of startup, scans, ticks and stops cannot overlap. There is no
  tick before the manager's startup step, no rescan of the tick's without a tick,
  and no stop that did not first set `stopping`.
* `Watched`: who owns the live loops. While the manager is not stopping, a live
  loop is the one in the map or one that a rescan holds and awaits (`Owned`); a
  rescan about to dial a session knows that no loop of it is alive, and that its
  row says running (`ScanSafe`). Two rescans, the one of `Start` and that of a
  tick, exclude each other by `Ordered`. Neither `OneLoopPerSession` nor
  `WatchedIsRunning` is inductive alone: a dial adds a loop, and only what the
  rescan awaited says that it is the only one. Hence `SingleLoop` and
  `MarkedAreUnwatched`.

**SqliteGate_proofs**. `Inductive` joins the types, the equation between the gate's
depth and what its holder owes (a level per acquired call, per open set of rows,
per transaction), the place of the goroutine with the open transaction, and the
wake channel. From it: `TypeCorrect`, `BooksAgree`, `Isolation`, `BeginIsFirst`,
`WakeupIsNotLost`, for any number of goroutines.

**TerminalPresence_proofs**. First the timer operations: arming, cancelling, a
callback and a disconnection each keep the registries consistent, and none but a
cancellation for the terminal itself or the end of its own timer's callback takes
away the last timer that watches a terminal. `Typed` adds to `TypeOK` that an Agy
connection in the middle of its registration has no terminal yet, and that the
index reports only what a pane may run; with that, `NoForgottenOwner` is
inductive, because it speaks of *presence* (a lease in force) and not of the
lease's mere existence: the look that drops an expired lease does not change it.
`StaysCovered` is the step common to all actions. Theorems: `TypeCorrect`,
`ConnectedStaysOwner`, `AbsentOwnerIsWatched`.

**StatusPlans_proofs**, for any number of plans, answers, attempts and ends of the
daemon. `Typed` adds to `TypeOK` what the operation that runs is about: its place
says which type its plan has, which event it has appended and whether it is
degraded. On it stand, each for one property, what the operation, the queue, the
timers and the drain know of a row:

* `UnderWay`: a row that is running is the one of the operation, or of one that
  a drain put back while it was alive; what is waiting is in the hand of a timer,
  the queue, the drain or the operation, and the hand-overs overlap
  (`CarriedAlways`).
* a degraded event that is not withdrawn is the one whose run stands before its
  withdrawal (`PlaceholderAlways`); the readiness gate has compared the answer of
  the run with the last told turn, and nothing else tells in between, as one
  operation runs at a time (`TurnsDifferAlways`); a Pi row that is completed has
  its event, the repetition that stood for it or the replay (`DoneIsToldAlways`).
* The refinement (`LedgerKept`). `VerdictsFit`: the verdict that the log holds of a
  plan is none or fits the end of its row, or the operation that runs is between the
  append and the mark. With `UnderWay`, every step of the plans is a step of
  `PlanLedger` or leaves `RowOf` and `VerdictOf` as they are. A rescue of a plan
  that a newer one has superseded meanwhile is a step of the ledger too: the
  code does not look at the row again.

**DaemonLifecycle_proofs, `QuietAfterStop`**. Once `stopping` is set only a rescan
that is past its check can still put a watcher into the map: the one of a tick,
which the stop awaits, or that of `Start`, which belongs to the startup step
the sequence waits for. `Poised` says who may still dial, `Found` what a stop has
found and awaited at each of its steps (first the tick, then the map, then the
retiring loops, then the plans), `Hushed` what can no longer change behind it. The
order matters: a stop that drained the retiring loops before it awaited the tick
would leave the watcher the tick adds.

**AgyHook_proofs**, for any number of events, terminals and waiters, in two parts.
`Sound` (with `Owing` of the file and of *every copy of it*) needs no freshness:
what is delivered has text, what is pending is presented, acknowledged or
overtaken. Each operation keeps that of the copy it changes, the world only moves
on (`Onward`), so however old a copy is when it is written, the file it becomes
has it: `TypeCorrect`, `AckIsOwedAlways`. `OneGate` is about freshness: while no
write is lost, every write is of a copy that is still the file, so generations only
grow, and of the waiters of the current generation only one is *sure* (past the
last comparison with the file): the recorded one, or the one that the re-arming
daemon is about to record, having found the recorded one dead. Hence
`OnePrompterAlways`.

**AgyTurns_proofs**: what a waiter has seen of its own turn stays as it saw it.
While no write was lost and no turn has had two waiters,

* the living waiters are of different turns (`Apart`, from `Distinct`);
* a process that is about to write holds the file as it is, but for what it is about
  to change, and no waiter is past its last comparison with the file while the agent
  works on the turn it waits for (`Timely`);
* hence nobody but a waiter changes what the file says of its batch (`Sole`): the
  hooks write only when the turn is over for the waiter, a waiter of another turn
  finds itself superseded, the re-arm touches the pid alone;
* and what a waiter is about to prompt for is still not presented in the file: from
  its look (`look.any`) through the commit, the re-arm of a dropped batch and the
  second look to the prompt there is always such an event (`AllSee`). Hence
  `WakesForSomethingAlways`.

**AgyAnswers_proofs**, `NothingSwallowedAlways`. The daemon settles everything up to
the id it is told; an acknowledgement is safe when no *awaited* event (a result that
the agent was not shown and that still matters) is below. What a process may
acknowledge it reads in its copy of the file, so the invariant is about every copy:

* `Mindful`: an awaited event that is presented is delivered, none is pending, and
  with anything retained all that is awaited below it is retained too, as is one that
  has left the daemon's list. `Closed` says the same of a list: what is awaited below a
  listed event is in the list, or has aged.
* The retained ids are limited (`retainedCandidateEventLimit`), so a copy alone does
  not name all it must not pass over; the list does, as long as it is not older than
  the copy it is looked at with (`Covers`). That is a fact about the order of the
  reads: each process lists after it has read the file, and merges a look only into
  a file that nobody else has changed for its turn (`Sole`). Only what has left
  the list has to be retained, and the limit never cuts it off, since it had room
  when it was retained and later ids are higher (`Room`).
* What a waiter carries from its look to its second read of the file is `Looked` and
  `Measured`: it holds back what is awaited, and all of it below anything eligible.
* Before the first claim there is nothing to acknowledge in any copy (`Blank`).

`Minded` joins these for the session that owns its workspace (no other acknowledges
anything), and holds as long as no write was lost and no turn had two
waiters, which is how far the property goes. Its one hypothesis is `Readable`, that no
transcript is unreadable: where one is, the hook takes what it has handed out for seen
(section 5), and the property is not promised. The run's instance satisfies it.

Only model-checked is liveness (`EventuallyHandedOver`, `CursorCatchesUp`,
`EventuallySettled`, `EventuallyTold`, `SignalEnds`, `FollowsHerdr`, `GateIsTaken`,
`PanicFreesGate`), as fairness is out of the prover's reach. Every other property of
the passing runs has its theorem. The findings are runs that violate what a document
says, and have none.

## 5. Where the code and its documents disagree

With a run of their own:

1. `AE_settled`, `db/agent_events.go:517`: a comment says a pane incarnation with
   a consumed delivery is settled by its close. The next close of the same pane
   id without generation restores what the first one settled, and it is delivered.
2. `AE_stale_snapshot`, `daemon/agent_event_reconciler.go:267`: a pass compares
   events with a snapshot of panes that may be older than they are, and deletes
   the first event of a pane that was re-created in between.
3. `AE_ownerless`, `observability/agent_orchestrator_service.go:694`: the README
   says outcomes of an ownerless period are not replayed by a later claim. They
   are, when the workspace had an owner before: its cursor is kept.
4. `Presence_forgotten`, `daemon/observability_server.go:1242`: an owner whose Agy
   lease expires while an event of an ownerless workspace is being routed loses
   the lease and keeps the ownership. No timer, refresh or scan looks at it again.
   Without `EventOffered` the same instance satisfies the property.

Met while reading and modelling, without a run. The models behave as the code does
in each of these; the properties are stated so that they hold beside them.

*Presence.* A fired disconnect timer that loses the race with a reconnection
releases the owner right after its *next* disconnection, before the new grace is
over; and a client that registers between the listen and `armStartupGrace` leaves
a startup timer armed for a terminal that is connected already.

*Status plans.*

* The good answer of a degraded retry has the idempotency key of the withdrawn
  placeholder, so its append returns that one, invalidated as it is, and the
  answer is not told by that run. `DoneIsTold` counts only what is not withdrawn.
* `markPlanRetry` (`observability/agent_index_plans.go:176`) says that a live
  working agent is exempt from the window; `MarkRetry`'s own window
  (`db/status_event_plans.go:352`) discards it all the same.
* A wait cut short by a shutdown "must stay retryable"; it consumes an attempt, and
  at the last one the plan is discarded.
* `handlePaneClosed` aborts the waits before the tombstone is there, so a plan may
  be completed with nothing and its answer not rescued.
* The replay of a late answer and a run of a plan check what was told before they
  append, and can tell one Agy answer twice, and so can two runs with another turn
  between them: the readiness gate compares with the last completed turn only.
  `TurnsDiffer` speaks of turns that follow one another and leaves the replay out.
* A crash between the terminal append and `MarkCompleted` runs the plan again; a
  backfill acknowledges the verdict of a run that is still alive; a superseded Agy
  plan that is running still appends, and its rescue still completes it, although
  superseding is there so that "an obsolete plan can no longer execute late"
  (`db/status_event_plans.go:165`).

*Event store.*

* A failure that a close has settled, because the close consumed another delivery of
  the pane, is restored by a later close of the same pane id (the first finding) and
  retained below a hand-over that did not have it; the acknowledgement of that
  hand-over sweeps it. `AckSparesUnseen` speaks of events that are pending.

*Agy hook.*

* A waiter of an earlier turn that is still at its look acknowledges as suppressed
  (a fallback shadowed by an empty completion) what the current waiter has seen and is
  about to prompt for; the agent is then woken for nothing new.
  `WakesForSomething` speaks of what was unacknowledged at the look.
* A dropped batch that is re-armed after a newer completion of the same terminal
  was handed out is injected after it, or is in both the delivered and the pending
  list (`agy/hook.go:1104` merges what is delivered and never looks back).
* `agy/state.go:38` calls the pending ids "events that are already presented". An
  aborted turn takes what was delivered out of the presented ones, a suppressed
  event among them stays pending, and `AckIsAllThatIsOwed` has to say: presented,
  or overtaken.
* Two waiters of one turn (a daemon that restarts between the two writes of a
  `Stop` starts the second) can swallow an answer without a lost write. The second
  looks while the answer is presented and waits for its evidence; the first
  re-arms it, finds its terminal busy, clears it as stale and quits; the second
  then merges the *presented* ids of its older look into the file
  (`Merged`), and an answer that is presented, but not delivered, is taken for
  settled: the next acknowledgement passes over it. It takes a dropped batch, a
  restart and a waiter that quits, three faults; `NothingSwallowed` excuses turns
  with two waiters (`hist.twins`).
* `daemon/agy_wake_rearm.go:20` says that the waiter of a parked session dies with the
  daemon, one that a `Stop` has spawned because it loses its RPC socket. It loses the
  socket but lives on until its third failed call (`agy/wake_waiter.go:434`); meanwhile
  the re-arm of the new daemon finds its pid alive and passes the session over (line
  212). The waiter then leaves, and the parked agent has none until its next turn
  (`hist.deserted`).
* A daemon restart that kills the waiter between a `Stop`'s spawn and its second
  write leaves the session parked without one (`hist.deserted`). So do an aborted
  turn (`hook.go:489`) and a `Stop` whose registration fails.
* Rows handed to an abandoned look, or to a waiter that finds itself superseded,
  are recorded by nobody; after 300 s they leave the list, and as their owner keeps
  its scope `ReclaimDelivered` does not bring them back (`hist.lost`).
* Every process replaces the file whole (`state.go:228`): a slow writer undoes what
  another recorded, two waiters of one turn may then prompt, and a sweep made with
  an old list drops rows that were retained meanwhile.
* The push flag is cleared after the list was read (`wake_waiter.go:297`): a push
  in between waits for the next poll.
* A transcript that cannot be read acknowledges without evidence, and a batch that
  was confirmed while its acknowledgement failed is injected again.

*Watch manager and daemon.*

* A restart of the subscription drops the events it had received
  (`daemon/herdr_session_watch_manager.go:875`), which `herdr/socket_client.go:655`
  says it does not; they are lost until the next full rescan.
* A watcher retired during its redial keeps the connection it then opens
  (`replaceClient`, against its comment at line 418).
* One running session that cannot be dialled makes `RescanNow` fail: the sessions
  after it get no watcher, every tick tries again, and a daemon that meets it in
  `Start` does not come up. A loop whose redial fails ends without back-off and
  waits for the next rescan.
* A reconcile tick that had fired runs after `Stop` found no run in flight
  (`daemon/service.go:267`), against a database that is being closed. The tick's
  guard is cleared after the run is reported as settled, as defers run last-in
  first-out, and not before as its comment says.
* A signal between the first one and the re-arm of the handler is swallowed, or,
  once the first handler is detached, kills the process with its pid file, socket
  and lock record in place (against `service.go:760`). `ExitIsClean` speaks of
  exits of the process's own.
* The handler of the second signal is there so that no signal leaves "the pid file,
  socket and instance lock behind" (`service.go:760`). It removes them without
  `startupMu`: a startup step under way, `server.Start` or `WriteDaemonPidFile`, may
  create its file between the removal and the exit. `ExitIsClean` allows exactly the
  file of the step that the forced exit met.
* `startupFailure` drops the error of `server.Stop` (`service.go:857`), which may
  return before the socket is removed: a startup that fails can leave it behind. So can
  a shutdown whose server stop fails or is abandoned.
* The lock is said to be released on every failure of the startup; the returns
  between `AcquireDaemonLock` and the signal handlers keep it until the process is
  gone. The failure path releases it before the database is closed.
* The reconciler is given `connectedTerminal` by value before it is assigned
  (`service.go:585`), and sees every terminal as away. Nothing follows from it
  while both callers leave the release of stale owners switched off.

## 6. Plan

In this order; each with its run, mutants and, where it says so, theorems.

1. `Delivery`, an abstract at-least-once channel (offered, given, settled; cursor)
   and the refinement from `AgentEvents`; theorem for the step relation.
2. `Locations`: owner moves between panes and workspaces (`MoveOwner`, the owner
   loop of `reconcileAgentLocationsLocked`), composed with the cursors.
3. `Publication`: routing, enqueue under the mutex, drain after it; frames of one
   socket arrive in the order they were generated.
4. Pure algorithms against a reference: the JSON line decoder, the logical clock.

A further module needs room among the runs: `AE_live` and `Daemon_follow` are the
ones whose instances can be joined to their larger neighbours.

## 7. Not modelled

History readers (parsing of files of other programs), the context service (a
cache in front of them), configuration, command line, wire contracts, migrations
and the workspace store: no protocol of their own. The peer credential lookup,
process inspection and the matching of Herdr's requests and responses are I/O.
Event publication is only a nudge for what `AgentEvents` delivers. Agy's
rendering, transcript parsing and sub-agents, the alerts and the pruning of
settled plans, and the back-off delays of the watch manager are left out of the
modules that model the rest of those files. Failing SQL statements in the modules
other than `SqliteGate`: the handlers return the error to the client, who retries;
`SqliteGate` shows that the connection survives it.
