---------------------------- MODULE WatchManager ----------------------------
(* HerdrSessionWatchManager: the part of the daemon that follows the Herdr
   sessions.

   A rescan lists the running sessions and gives each a fresh watcher; a
   watcher is a goroutine that refreshes the session's index, subscribes to the
   events of its panes on a connection of its own and handles them; a tick
   every ten seconds refreshes the sessions that have a working agent, or
   rescans when the last full rescan is a minute old.  All of them run against
   Start, Stop and the abort of the shutdown signal.

   One action is one section under the manager's mutex together with the calls
   up to the next point where another goroutine can interfere: the end of an
   awaited loop, a dial, an index operation, the next event.  The index does
   one operation of a session at a time (enqueueSessionOperation), so a refresh
   is one step.

   Herdr itself is the environment: its sessions come and go, their panes open
   and close, and turn counts the status changes of a session's agents.  What
   the index knows of a session is the pair it last learnt. *)
EXTENDS Integers

CONSTANTS
  Sessions,
  Panes,          \* pane ids of every session
  Watchers,       \* slots for the watchers that exist at one time
  MaxTurn,        \* bound: status changes of a session
  MaxMoves,       \* bound: panes opened or closed, sessions stopped or started
  InitialPanes,   \* the panes a session starts with
  None

ASSUME WatchAssumption ==
  /\ MaxTurn \in Nat /\ MaxMoves \in Nat
  /\ Watchers \subseteq Nat /\ InitialPanes \subseteq Panes
  /\ None \notin Nat \cup Sessions

VARIABLES
  herdr,      \* the sessions as Herdr has them
  moves,      \* how often Herdr moved
  index,      \* the agents table, per session
  running,    \* sessions whose herdr_sessions row says running
  mgr,        \* the manager's flags
  ticker,     \* the tick in flight
  scan,       \* the rescan of Start and the one of a tick
  watch,      \* the watchers
  at,         \* m.watchers: the current watcher of each session
  plans,      \* m.inFlightPlans: status event plans being executed
  stop        \* the callers of beginShutdown and Stop

wmVars ==
  <<herdr, moves, index, running, mgr, ticker, scan, watch, at, plans, stop>>

Scanners == {"start", "tick"}
Stoppers == {"signal", "seq", "fail"}

LoopStep == {"free", "top", "refresh", "subscribe", "stream", "decide", "over",
             "failed", "redial", "ended"}
ScanStep == {"idle", "list", "gone", "next", "start", "dial", "launched", "done",
             "failed"}
StopStep == {"idle", "abort", "await", "tick", "drain", "last", "ending", "done"}
Watcher ==
  [session : Sessions \cup {None}, gen : Nat, step : LoopStep, aborted : BOOLEAN,
   retired : BOOLEAN, client : {"open", "gone", "closed"}, agents : SUBSET Panes,
   reuse : BOOLEAN, sub : SUBSET Panes, restart : BOOLEAN, cut : BOOLEAN,
   inbox : SUBSET {"status", "topology"}]
Scan ==
  [step : ScanStep, gen : Nat, todo : SUBSET Sessions,
   cur : Sessions \cup Watchers \cup {None}, wait : SUBSET Watchers]
Stop == [step : StopStep, wait : SUBSET Watchers, graceless : BOOLEAN]

NoWatch ==
  [session |-> None, gen |-> 0, step |-> "free", aborted |-> FALSE,
   retired |-> FALSE, client |-> "closed", agents |-> {}, reuse |-> FALSE,
   sub |-> {}, restart |-> FALSE, cut |-> FALSE, inbox |-> {}]
NoScan == [step |-> "idle", gen |-> 0, todo |-> {}, cur |-> None, wait |-> {}]
NoStop == [step |-> "idle", wait |-> {}, graceless |-> FALSE]

WatchInit ==
  /\ herdr = [s \in Sessions |-> [up |-> TRUE, panes |-> InitialPanes, turn |-> 0]]
  /\ moves = 0
  /\ index = [s \in Sessions |-> [panes |-> {}, turn |-> 0]]
  /\ running = {}
  /\ mgr = [stopping |-> FALSE, gen |-> 0, sched |-> FALSE, fired |-> FALSE,
            due |-> TRUE]
  /\ ticker = [step |-> "idle", todo |-> {}, awaited |-> {}]
  /\ scan = [k \in Scanners |-> NoScan]
  /\ watch = [w \in Watchers |-> NoWatch]
  /\ at = [s \in Sessions |-> None]
  /\ plans = {}
  /\ stop = [k \in Stoppers |-> NoStop]

WatchTypeOK ==
  /\ herdr \in [Sessions -> [up : BOOLEAN, panes : SUBSET Panes, turn : 0..MaxTurn]]
  /\ moves \in 0..MaxMoves
  /\ index \in [Sessions -> [panes : SUBSET Panes, turn : 0..MaxTurn]]
  /\ running \subseteq Sessions
  /\ mgr \in [stopping : BOOLEAN, gen : Nat, sched : BOOLEAN, fired : BOOLEAN,
              due : BOOLEAN]
  /\ ticker \in [step : {"idle", "look", "refresh", "rescan"},
                 todo : SUBSET Watchers, awaited : SUBSET Stoppers]
  /\ scan \in [Scanners -> Scan]
  /\ watch \in [Watchers -> Watcher]
  /\ at \in [Sessions -> Watchers \cup {None}]
  /\ plans \subseteq Sessions \X (0..MaxTurn)
  /\ stop \in [Stoppers -> Stop]

----------------------------------------------------------------------------
(* Helpers *)

Ended(w) == watch[w].step \in {"free", "ended"}
AllEnded(W) == \A w \in W : Ended(w)
Current == {at[s] : s \in Sessions} \ {None}

\* m.stopping || generation != m.generation
IsStopping(gen) == mgr.stopping \/ gen # mgr.gen

\* subscriptionCtx.Err() != nil
Cut(w) == watch[w].aborted \/ watch[w].cut

\* m.retiringWatcherLoops, without the loops that have ended.
Retiring == {w \in Watchers : watch[w].retired /\ ~Ended(w)}

\* The watchers W leave the map, aborted and with their connections closed;
\* retired says that Stop will find their loops (retireWatcherLocked).
TakeDown(W, retired) ==
  /\ watch' = [w \in Watchers |->
                 IF w \in W /\ ~Ended(w)
                 THEN [watch[w] EXCEPT !.aborted = TRUE, !.client = "closed",
                                       !.retired = retired]
                 ELSE watch[w]]
  /\ at' = [s \in Sessions |-> IF at[s] \in W THEN None ELSE at[s]]
Retire(W) == TakeDown(W, TRUE)

\* Mutant: the plan is for a status that is still to come.
NoticedAhead(s) ==
  IF index[s].turn = herdr[s].turn THEN {} ELSE {<<s, herdr[s].turn + 1>>}
\* refresh: the index reads the session's snapshot on a connection of its own
\* and a status change it finds becomes a plan the manager executes.
Noticed(s) ==
  IF index[s].turn = herdr[s].turn THEN {} ELSE {<<s, herdr[s].turn>>}
Refresh(s) ==
  /\ index' = [index EXCEPT ![s] = [panes |-> herdr[s].panes, turn |-> herdr[s].turn]]
  /\ plans' = plans \cup Noticed(s)

\* handleWatchEvent of a status event.
HandleStatus(s) ==
  /\ index' = [index EXCEPT ![s].turn = herdr[s].turn]
  /\ plans' = plans \cup Noticed(s)

\* A goroutine started by submitPlan ends.
PlanEnds(p) ==
  /\ p \in plans /\ plans' = plans \ {p}
  /\ UNCHANGED <<herdr, moves, index, running, mgr, ticker, scan, watch, at, stop>>

\* A slot nobody refers to any more may serve another watcher.
Referred(w) ==
  \/ w \in Current \/ w \in ticker.todo
  \/ \E k \in Scanners : w \in scan[k].wait \/ scan[k].cur = w
  \/ \E k \in Stoppers : w \in stop[k].wait
Free(w) == Ended(w) /\ ~Referred(w)

----------------------------------------------------------------------------
(* The watch loop of one watcher: watch and watchOnce *)

\* The watcher w moves to step and its record becomes r.
Move(w, r, step) == watch' = [watch EXCEPT ![w] = [r EXCEPT !.step = step]]

\* The loop's goroutine returns.
Return(w) ==
  watch' = [watch EXCEPT ![w] = [NoWatch EXCEPT !.session = watch[w].session,
                                                !.step = "ended"]]

LoopUnchanged == UNCHANGED <<herdr, moves, running, mgr, ticker, scan, at, stop>>

\* The top of the loop: a subscription context of its own, and the agents a
\* restart left behind are used instead of a refresh.
LoopTop(w) ==
  LET r == watch[w]
      fresh == [r EXCEPT !.restart = FALSE, !.cut = FALSE, !.reuse = FALSE]
  IN /\ r.step = "top"
     /\ IF r.aborted \/ IsStopping(r.gen) THEN Return(w)
        ELSE IF r.reuse THEN Move(w, [fresh EXCEPT !.sub = r.agents], "subscribe")
        ELSE Move(w, fresh, "refresh")
     /\ UNCHANGED <<index, plans>> /\ LoopUnchanged

LoopRefresh(w) ==
  LET r == watch[w]  s == r.session IN
  /\ r.step = "refresh"
  /\ IF ~herdr[s].up
     THEN Move(w, r, "failed") /\ UNCHANGED <<index, plans>>
     ELSE /\ Refresh(s)
          /\ IF Cut(w) THEN Move(w, r, "over")
             ELSE Move(w, [r EXCEPT !.sub = herdr[s].panes], "subscribe")
  /\ LoopUnchanged

Subscribe(w) ==
  LET r == watch[w] IN
  /\ r.step = "subscribe"
  /\ Move(w, [r EXCEPT !.inbox = {}],
          IF r.client # "open" THEN "failed" ELSE IF Cut(w) THEN "over" ELSE "stream")
  /\ UNCHANGED <<index, plans>> /\ LoopUnchanged

\* stream.Next: a failure of the connection comes before the queue, the queue
\* before the abort; an event read after the abort is dropped with the rest.
StreamEnds(w) ==
  LET r == watch[w]
      done == [r EXCEPT !.inbox = {}]
  IN /\ r.step = "stream"
     /\ \/ r.client # "open" /\ Move(w, done, "failed")
        \/ r.client = "open" /\ Cut(w) /\ Move(w, done, "over")
     /\ UNCHANGED <<index, plans>> /\ LoopUnchanged

Reads(w, e) ==
  /\ watch[w].step = "stream" /\ watch[w].client = "open" /\ ~Cut(w)
  /\ e \in watch[w].inbox

StatusEvent(w) ==
  LET r == watch[w] IN
  /\ Reads(w, "status")
  /\ HandleStatus(r.session)
  /\ Move(w, [r EXCEPT !.inbox = @ \ {"status"}], "stream")
  /\ LoopUnchanged

\* A pane opened or closed: the session is refreshed before anything else.
TopologyEvent(w) ==
  LET r == watch[w]  s == r.session
      read == [r EXCEPT !.inbox = @ \ {"topology"}]
  IN /\ Reads(w, "topology")
     /\ IF ~herdr[s].up
        THEN Move(w, read, "failed") /\ UNCHANGED <<index, plans>>
        ELSE /\ Refresh(s)
             /\ Move(w, [read EXCEPT !.agents = herdr[s].panes], "decide")
     /\ LoopUnchanged

\* A pane the subscription does not cover ends it; the next one starts from the
\* agents just read.  What the stream still holds goes with it.
Decide(w) ==
  LET r == watch[w] IN
  /\ r.step = "decide"
  /\ IF r.agents \subseteq r.sub THEN Move(w, r, "stream")
     ELSE Move(w, [r EXCEPT !.restart = TRUE, !.reuse = TRUE, !.inbox = {}], "over")
  /\ UNCHANGED <<index, plans>> /\ LoopUnchanged

\* The tail of an iteration.  Only a failure without a restart forgets the
\* agents read.
Tail(w) ==
  LET r == watch[w] IN
  /\ r.step \in {"over", "failed"}
  /\ IF r.aborted THEN Return(w)
     ELSE Move(w, [r EXCEPT !.reuse = r.reuse /\ (r.step = "over" \/ r.restart)],
               "redial")
  /\ UNCHANGED <<index, plans>> /\ LoopUnchanged

\* replaceClient: the dial of a stopped session fails and ends the loop; the new
\* connection is installed whatever happened to the watcher meanwhile.
Redial(w) ==
  LET r == watch[w] IN
  /\ r.step = "redial"
  /\ IF herdr[r.session].up THEN Move(w, [r EXCEPT !.client = "open"], "top")
     ELSE Return(w)
  /\ UNCHANGED <<index, plans>> /\ LoopUnchanged

Loop(w) ==
  \/ LoopTop(w) \/ LoopRefresh(w) \/ Subscribe(w) \/ StreamEnds(w)
  \/ StatusEvent(w) \/ TopologyEvent(w) \/ Decide(w) \/ Tail(w) \/ Redial(w)

----------------------------------------------------------------------------
(* RescanNow *)

ScanTo(k, r) == scan' = [scan EXCEPT ![k] = r]
ScanUnchanged == UNCHANGED <<herdr, moves, index, ticker, plans, stop>>

\* The session list; watchers of sessions that no longer run are retired.
ScanList(k) ==
  LET r == scan[k]
      listed == {s \in Sessions : herdr[s].up}
      gone == {at[s] : s \in Sessions \ listed} \ {None}
  IN /\ r.step = "list"
     /\ IF IsStopping(r.gen)
        THEN ScanTo(k, [r EXCEPT !.step = "done"]) /\ UNCHANGED <<watch, at>>
        ELSE /\ Retire(gone)
             /\ ScanTo(k, [r EXCEPT !.step = "gone", !.todo = listed, !.wait = gone])
     /\ UNCHANGED <<running, mgr>> /\ ScanUnchanged

\* herdr session list failed.
ScanListFails(k) ==
  /\ scan[k].step = "list"
  /\ ScanTo(k, [scan[k] EXCEPT !.step = "failed"])
  /\ UNCHANGED <<running, mgr, watch, at>> /\ ScanUnchanged

\* Mutant: every row is marked.
NoRows(listed) == {}
\* MarkStoppedMissingFrom: the rows that go on saying running.
RowsLeft(listed) == running \cap listed

ScanMark(k) ==
  LET r == scan[k] IN
  /\ r.step = "gone" /\ AllEnded(r.wait)
  /\ IF IsStopping(r.gen)
     THEN ScanTo(k, [r EXCEPT !.step = "done", !.wait = {}]) /\ running' = running
     ELSE /\ running' = RowsLeft(r.todo)
          /\ ScanTo(k, [r EXCEPT !.step = "next", !.wait = {}])
  /\ UNCHANGED <<mgr, watch, at>> /\ ScanUnchanged

\* The next listed session: its present watcher is retired first.
ScanNext(k) ==
  LET r == scan[k] IN
  /\ r.step = "next" /\ AllEnded(r.wait) /\ r.todo # {} /\ ~IsStopping(r.gen)
  /\ \E s \in r.todo :
       LET old == {at[s]} \ {None} IN
       /\ Retire(old)
       /\ ScanTo(k, [r EXCEPT !.step = "start", !.todo = @ \ {s}, !.cur = s,
                              !.wait = old])
  /\ UNCHANGED <<running, mgr>> /\ ScanUnchanged

ScanDone(k) ==
  LET r == scan[k] IN
  /\ r.step = "next" /\ AllEnded(r.wait) /\ (r.todo = {} \/ IsStopping(r.gen))
  /\ ScanTo(k, [r EXCEPT !.step = "done", !.todo = {}, !.wait = {}])
  /\ mgr' = [mgr EXCEPT !.due = @ /\ IsStopping(r.gen)]
  /\ UNCHANGED <<running, watch, at>> /\ ScanUnchanged

\* Mutant: the loop of the watcher replaced is not awaited.
Unawaited(r) == TRUE
\* startWatcher awaits the loop of the watcher it replaces.
Replaced(r) == AllEnded(r.wait)

\* startWatcher up to the dial.
ScanStart(k) ==
  LET r == scan[k] IN
  /\ r.step = "start" /\ Replaced(r)
  /\ IF IsStopping(r.gen)
     THEN ScanTo(k, [r EXCEPT !.step = "next", !.wait = {}, !.cur = None])
          /\ running' = running
     ELSE ScanTo(k, [r EXCEPT !.step = "dial", !.wait = {}])
          /\ running' = running \cup {r.cur}
  /\ UNCHANGED <<mgr, watch, at>> /\ ScanUnchanged

\* The dial succeeded: the watcher enters the map and its goroutine runs, with
\* no look at the flags under the same lock.
ScanDial(k) ==
  LET r == scan[k]  s == r.cur IN
  /\ r.step = "dial"
  /\ IF ~herdr[s].up
     THEN /\ ScanTo(k, [r EXCEPT !.step = "failed", !.todo = {}, !.cur = None])
          /\ UNCHANGED <<watch, at>>
     ELSE \E w \in Watchers :
            /\ Free(w) /\ \A v \in Watchers : v < w => ~Free(v)
            /\ Move(w, [NoWatch EXCEPT !.session = s, !.gen = r.gen, !.client = "open"],
                    "top")
            /\ at' = [at EXCEPT ![s] = w]
            /\ ScanTo(k, [r EXCEPT !.step = "launched", !.cur = w])
  /\ UNCHANGED <<running, mgr>> /\ ScanUnchanged

\* The last lines of startWatcher: a manager that stopped meanwhile takes the
\* new watcher down again.
ScanLaunched(k) ==
  LET r == scan[k]  w == r.cur
      next == [r EXCEPT !.step = "next", !.cur = None]
  IN /\ r.step = "launched"
     /\ IF IsStopping(r.gen)
        THEN TakeDown({w}, FALSE) /\ ScanTo(k, [next EXCEPT !.wait = {w}])
        ELSE ScanTo(k, next) /\ UNCHANGED <<watch, at>>
     /\ UNCHANGED <<running, mgr>> /\ ScanUnchanged

Rescan(k) ==
  \/ ScanList(k) \/ ScanListFails(k) \/ ScanMark(k) \/ ScanNext(k) \/ ScanDone(k)
  \/ ScanStart(k) \/ ScanDial(k) \/ ScanLaunched(k)

----------------------------------------------------------------------------
(* The interval and its tick *)

TickUnchanged == UNCHANGED <<herdr, moves, running, at, stop>>

\* The interval's timer; the callback runs later, even after the interval was
\* stopped.
TimerFires ==
  /\ mgr.sched /\ ~mgr.fired /\ mgr' = [mgr EXCEPT !.fired = TRUE]
  /\ UNCHANGED <<index, ticker, scan, watch, plans>> /\ TickUnchanged

\* The last full rescan is a minute old.
RescanFallsDue ==
  /\ ~mgr.due /\ mgr' = [mgr EXCEPT !.due = TRUE]
  /\ UNCHANGED <<index, ticker, scan, watch, plans>> /\ TickUnchanged

\* scheduleTick: one tick at a time.
ScheduleTick ==
  /\ mgr.fired /\ mgr' = [mgr EXCEPT !.fired = FALSE]
  /\ ticker' = IF ticker.step = "idle" THEN [ticker EXCEPT !.step = "look"] ELSE ticker
  /\ UNCHANGED <<index, scan, watch, plans>> /\ TickUnchanged

\* tick: a rescan when it is due, else the sessions with a working agent.
TickLook ==
  /\ ticker.step = "look"
  /\ IF mgr.due
     THEN /\ ticker' = [ticker EXCEPT !.step = "rescan"]
          /\ ScanTo("tick", [NoScan EXCEPT !.step = "list", !.gen = mgr.gen])
     ELSE /\ \E W \in SUBSET Current :
               ticker' = [ticker EXCEPT !.step = "refresh", !.todo = W]
          /\ scan' = scan
  /\ UNCHANGED <<index, mgr, watch, plans>> /\ TickUnchanged

\* One session of the tick; a pane its subscription lacks restarts that one.
TickRefresh(w) ==
  LET r == watch[w]  s == r.session IN
  /\ ticker.step = "refresh" /\ w \in ticker.todo
  /\ ticker' = [ticker EXCEPT !.todo = @ \ {w}]
  /\ IF herdr[s].up
     THEN /\ Refresh(s)
          /\ watch' = IF herdr[s].panes \subseteq r.sub \/ Ended(w) THEN watch
                      ELSE [watch EXCEPT ![w] = [r EXCEPT !.restart = TRUE, !.cut = TRUE]]
     ELSE UNCHANGED <<index, plans, watch>>
  /\ UNCHANGED <<mgr, scan>> /\ TickUnchanged

\* Mutant: a rescan that fails leaves its tick in flight.
TickDone ==
  \/ ticker.step = "refresh" /\ ticker.todo = {}
  \/ ticker.step = "rescan" /\ scan["tick"].step = "done"
TickOver ==
  \/ ticker.step = "refresh" /\ ticker.todo = {}
  \/ ticker.step = "rescan" /\ scan["tick"].step \in {"done", "failed"}

TickEnds ==
  /\ TickOver
  /\ ticker' = [step |-> "idle", todo |-> {}, awaited |-> {}]
  /\ ScanTo("tick", NoScan)
  /\ UNCHANGED <<index, mgr, watch, plans>> /\ TickUnchanged

Interval == TimerFires \/ ScheduleTick \/ TickLook \/ TickEnds
            \/ \E w \in Watchers : TickRefresh(w)

----------------------------------------------------------------------------
(* beginShutdown and Stop.  The goroutine on the shutdown signal runs the first
   three steps, Stop all of them. *)

StopTo(k, step, wait) ==
  stop' = [stop EXCEPT ![k] = [@ EXCEPT !.step = step, !.wait = wait]]
StopUnchanged == UNCHANGED <<herdr, moves, index, running, scan, plans>>

StopBegin(k) ==
  /\ stop[k].step = "idle"
  /\ mgr' = [mgr EXCEPT !.stopping = TRUE, !.gen = @ + 1, !.sched = FALSE]
  /\ StopTo(k, "abort", {})
  /\ UNCHANGED <<ticker, watch, at>> /\ StopUnchanged

\* abortWatchers: the current watchers are retired; they and the loops still
\* retiring are awaited.
StopAborts(k) ==
  /\ stop[k].step \in {"abort", "last"}
  /\ Retire(Current)
  /\ StopTo(k, IF stop[k].step = "abort" THEN "await" ELSE "ending",
            Current \cup Retiring)
  /\ UNCHANGED <<mgr, ticker>> /\ StopUnchanged

\* Mutant: Stop does not look for a tick.
NoTick(k) == FALSE
\* Stop, not the abort of the signal, awaits the tick in flight.
FindsTick(k) == k # "signal" /\ ticker.step # "idle"

StopLooks(k) ==
  /\ stop[k].step = "await" /\ AllEnded(stop[k].wait)
  /\ StopTo(k, IF k = "signal" THEN "done" ELSE "tick", {})
  /\ ticker' = IF FindsTick(k) THEN [ticker EXCEPT !.awaited = @ \cup {k}] ELSE ticker
  /\ UNCHANGED <<mgr, watch, at>> /\ StopUnchanged

StopTicked(k) ==
  /\ stop[k].step = "tick" /\ k \notin ticker.awaited
  /\ StopTo(k, "drain", Retiring)
  /\ UNCHANGED <<mgr, ticker, watch, at>> /\ StopUnchanged

\* The plans drain until none is left or PlanDrainGraceMs is over.
StopDrains(k) ==
  /\ stop[k].step = "drain" /\ AllEnded(stop[k].wait)
  /\ stop' = [stop EXCEPT ![k] = [step |-> "last", wait |-> {},
                                  graceless |-> plans # {}]]
  /\ UNCHANGED <<mgr, ticker, watch, at>> /\ StopUnchanged

StopEnds(k) ==
  /\ stop[k].step = "ending" /\ AllEnded(stop[k].wait)
  /\ StopTo(k, "done", {})
  /\ UNCHANGED <<mgr, ticker, watch, at>> /\ StopUnchanged

StopSteps(k) ==
  StopAborts(k) \/ StopLooks(k) \/ StopTicked(k) \/ StopDrains(k) \/ StopEnds(k)

----------------------------------------------------------------------------
(* Start *)

StartBegins ==
  /\ mgr' = [mgr EXCEPT !.stopping = FALSE, !.gen = @ + 1]
  /\ ScanTo("start", [NoScan EXCEPT !.step = "list", !.gen = mgr.gen + 1])
  /\ UNCHANGED <<herdr, moves, index, running, ticker, watch, at,
                 plans, stop>>

\* The rescan is over: the interval starts unless the manager stopped meanwhile.
StartArms ==
  /\ scan["start"].step = "done"
  /\ mgr' = [mgr EXCEPT !.sched = @ \/ ~IsStopping(scan["start"].gen)]
  /\ ScanTo("start", NoScan)
  /\ UNCHANGED <<herdr, moves, index, running, ticker, watch, at,
                 plans, stop>>

----------------------------------------------------------------------------
(* Herdr *)

HerdrUnchanged == UNCHANGED <<index, running, mgr, ticker, scan, at,
                              plans, stop>>

\* The open streams of the session; those in W queue the event.
Streams(s) ==
  {w \in Watchers : /\ watch[w].session = s /\ watch[w].client = "open"
                    /\ watch[w].step \in {"stream", "decide"}}
Queued(W, e) ==
  [w \in Watchers |->
     IF w \in W THEN [watch[w] EXCEPT !.inbox = @ \cup {e}] ELSE watch[w]]

\* An agent of the session changes its status: news for the streams that
\* subscribed to its pane.
AgentMoves(s) ==
  /\ herdr[s].up /\ herdr[s].turn < MaxTurn
  /\ herdr' = [herdr EXCEPT ![s].turn = @ + 1]
  /\ \E p \in herdr[s].panes :
       watch' = Queued({w \in Streams(s) : p \in watch[w].sub}, "status")
  /\ moves' = moves /\ HerdrUnchanged

PanesMove(s) ==
  /\ herdr[s].up /\ moves < MaxMoves /\ moves' = moves + 1
  /\ \E p \in Panes :
       herdr' = [herdr EXCEPT ![s].panes = IF p \in @ THEN @ \ {p} ELSE @ \cup {p}]
  /\ watch' = Queued(Streams(s), "topology")
  /\ HerdrUnchanged

\* A session ends and takes its connections with it, or starts again.
SessionMoves(s) ==
  /\ moves < MaxMoves /\ moves' = moves + 1
  /\ herdr' = [herdr EXCEPT ![s].up = ~@]
  /\ watch' = [w \in Watchers |->
                 IF herdr[s].up /\ watch[w].session = s /\ watch[w].client = "open"
                 THEN [watch[w] EXCEPT !.client = "gone"] ELSE watch[w]]
  /\ HerdrUnchanged

HerdrMoves == \E s \in Sessions : AgentMoves(s) \/ PanesMove(s) \/ SessionMoves(s)

=============================================================================
