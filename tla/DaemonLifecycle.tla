-------------------------- MODULE DaemonLifecycle --------------------------
(* The daemon process around the watch manager: RunObservabilityDaemonService.

   main      the startup: boot (instance lock, database, signal handlers), then
             seven steps under startupMu;
   shut      stop(), the handler of the first signal: it takes the daemon over
             from the startup, then runs four steps on goroutines of their own
             under one budget, closes the database, removes the pid file,
             releases the lock and exits;
   recon     the periodic reconcile scheduler.

   A step or a wait that outruns the budget is abandoned and goes on in the
   background: time is not modelled, so any step may be slow.  The process ends
   at once when exit is set. *)
EXTENDS WatchManager

CONSTANT MaxSignals       \* bound: SIGTERM or SIGINT

ASSUME SignalAssumption == MaxSignals \in Nat

VARIABLES
  main,       \* the startup step, and whether it is running
  mu,         \* the holder of startupMu
  shut,       \* stop(): its step, the step of the sequence, what was abandoned
  job,        \* the goroutines of the sequence's steps
  recon,      \* the reconcile scheduler and its run
  aborted,    \* the shutdown signal is aborted
  handler,    \* what SIGTERM does
  signals,    \* signals delivered
  files,      \* what the daemon has in its home: owner record, pid file, socket
  force,      \* the forced exit of a second signal: its next step, and the startup
              \* step it met under way
  db,         \* the database connection
  exit        \* exit code, None while the process lives

lifeVars ==
  <<main, mu, shut, job, recon, aborted, handler, signals, files, force, db, exit>>
vars == <<wmVars, lifeVars>>

StartupSteps == <<"server", "pid", "reconcile", "drain", "sched", "watch", "rearm">>
Jobs == {"drain", "recon", "watch", "server"}
JobOf == <<"drain", "recon", "watch", "server">>
FailSteps == <<"recon", "await", "watch", "stopping", "server">>

Killed == 143           \* the exit status of a default SIGTERM

NoRun == [armed |-> FALSE, fired |-> FALSE, run |-> "idle", awaited |-> {}]

Init ==
  /\ WatchInit
  /\ main = [step |-> 0, busy |-> FALSE, done |-> FALSE, fail |-> 0]
  /\ mu = "free"
  /\ shut = [step |-> "idle", i |-> 0, late |-> FALSE, snap |-> {}, code |-> 0]
  /\ job = [j \in Jobs |-> "none"]
  /\ recon = NoRun
  /\ aborted = FALSE /\ handler = "default" /\ signals = 0
  /\ files = {} /\ force = [step |-> "none", met |-> "none"] /\ db = "none" /\ exit = None

\* stop() has been entered or the shared abort has fired.
Stopping == shut.step # "idle"
ShutdownOwnsDaemon == aborted \/ Stopping

----------------------------------------------------------------------------
(* Startup *)

\* Lock, database, wiring and signal handlers; a failure on the way returns with
\* the owner record of the lock still there (main exits with it).
Boot ==
  /\ main.step = 0
  /\ files' = {"owner"}
  /\ \/ /\ main' = [main EXCEPT !.step = 1] /\ db' = "open" /\ handler' = "stop"
        /\ exit' = exit
     \/ exit' = 1 /\ UNCHANGED <<main, db, handler>>
  /\ UNCHANGED <<wmVars, mu, shut, job, recon, aborted, signals, force>>

Step == StartupSteps[main.step]
Starting == main.step \in 1..7 /\ ~main.done /\ main.fail = 0

\* startupStep takes the mutex; a shutdown that owns the daemon ends the startup.
StepBegins ==
  /\ Starting /\ ~main.busy /\ mu = "free"
  /\ IF ShutdownOwnsDaemon
     THEN main' = [main EXCEPT !.done = TRUE] /\ mu' = mu /\ UNCHANGED wmVars
     ELSE /\ main' = [main EXCEPT !.busy = TRUE] /\ mu' = "startup"
          /\ IF Step = "watch" THEN StartBegins ELSE UNCHANGED wmVars
  /\ UNCHANGED <<shut, job, recon, aborted, handler, signals, files, force, db, exit>>

\* The step is over and the mutex free; the last one ends the startup.
StepOver ==
  /\ mu' = "free"
  /\ main' = [main EXCEPT !.busy = FALSE, !.step = @ + 1, !.done = main.step = 7]

StepEnds ==
  /\ Starting /\ main.busy
  /\ StepOver
  /\ files' = files \cup (CASE Step = "server" -> {"socket"} [] Step = "pid" -> {"pid"}
                            [] OTHER -> {})
  /\ recon' = IF Step = "sched" THEN [recon EXCEPT !.armed = TRUE] ELSE recon
  /\ IF Step = "watch" THEN StartArms ELSE UNCHANGED wmVars
  /\ UNCHANGED <<shut, job, aborted, handler, signals, force, db, exit>>

\* A step that can fail does: the shutdown's doing is left to stop(), anything
\* else is unwound here, under the mutex, with the handlers detached and the
\* abort fired (startupFailure).
StepFails ==
  /\ Starting /\ main.busy
  /\ \/ Step \in {"server", "pid", "reconcile", "drain"}
     \/ Step = "watch" /\ scan["start"].step = "failed"
  /\ scan' = [scan EXCEPT !["start"] = NoScan]
  /\ IF ShutdownOwnsDaemon
     THEN /\ main' = [main EXCEPT !.busy = FALSE, !.done = TRUE] /\ mu' = "free"
          /\ UNCHANGED <<aborted, handler>>
     ELSE /\ main' = [main EXCEPT !.fail = 1] /\ mu' = mu
          /\ aborted' = TRUE /\ handler' = "default"
  /\ UNCHANGED <<herdr, moves, index, running, mgr, ticker, watch, at,
                 plans, stop>>
  /\ UNCHANGED <<shut, job, recon, signals, files, force, db, exit>>

\* The scheduler stops: the interval is cleared and the run in flight awaited.
ReconStops(k) ==
  recon' = [recon EXCEPT !.armed = FALSE,
                         !.awaited = IF recon.run = "idle" THEN @ ELSE @ \cup {k}]

\* The unwinding of a failed startup: scheduler, watch manager, server, pid file
\* and lock, then the database; the process exits with the error.  The error of a
\* server.Stop that leaves the socket is dropped.
Unwind ==
  LET f == FailSteps[main.fail] IN
  /\ main.fail \in 1..5
  /\ main' = [main EXCEPT !.fail = @ + 1]
  /\ \/ f = "recon" /\ ReconStops("main") /\ UNCHANGED <<wmVars, files>>
     \/ f = "await" /\ "main" \notin recon.awaited /\ UNCHANGED <<wmVars, recon, files>>
     \/ f = "watch" /\ StopBegin("fail") /\ UNCHANGED <<recon, files>>
     \/ f = "stopping" /\ stop["fail"].step = "done" /\ UNCHANGED <<wmVars, recon, files>>
     \/ f = "server" /\ files' \in SUBSET (files \cap {"socket"}) /\ UNCHANGED <<wmVars, recon>>
  /\ job' = IF f = "server" /\ files' # {} THEN [job EXCEPT !["server"] = "failed"] ELSE job
  /\ UNCHANGED <<mu, shut, aborted, handler, signals, force, db, exit>>

\* main returns the error: startupDone is closed and the process exits.
Unwound ==
  /\ main.fail = 6
  /\ IF db = "open"
     THEN /\ db' = "closed" /\ UNCHANGED <<main, mu, exit>>
     ELSE /\ main' = [main EXCEPT !.done = TRUE] /\ mu' = "free" /\ exit' = 1 /\ db' = db
  /\ UNCHANGED <<wmVars, shut, job, recon, aborted, handler, signals, files, force>>

----------------------------------------------------------------------------
(* Signals and stop() *)

\* SIGTERM or SIGINT.  The handler of the first runs stop(), the one armed by
\* stop() the forced exit; a signal between the two is swallowed by the channel
\* of the first or, once that is detached, takes the default action.
Signal ==
  /\ signals < MaxSignals /\ signals' = signals + 1
  /\ CASE handler = "stop" ->
            /\ handler' = "taken" /\ shut' = [shut EXCEPT !.step = "taken"]
            /\ UNCHANGED <<force, exit>>
       [] handler = "force" ->
            /\ handler' = "taken" /\ UNCHANGED <<shut, exit>>
            /\ force' = [step |-> "pid", met |-> IF Starting /\ main.busy THEN Step ELSE "none"]
       [] handler = "taken" -> UNCHANGED <<handler, shut, force, exit>>
       [] handler = "default" -> exit' = Killed /\ UNCHANGED <<handler, shut, force>>
  /\ UNCHANGED <<wmVars, main, mu, job, recon, aborted, files, db>>

\* onSecondSignal: pid file, socket and owner record go one after the other, then
\* the process; nothing holds startupMu, and stop() goes on beside it.
ForcedExit ==
  /\ \/ /\ force.step = "pid" /\ files' = files \ {"pid"}
        /\ force' = [force EXCEPT !.step = "socket"] /\ exit' = exit
     \/ /\ force.step = "socket" /\ files' = files \ {"socket"}
        /\ force' = [force EXCEPT !.step = "lock"] /\ exit' = exit
     \/ /\ force.step = "lock" /\ files' = files \ {"owner"}
        /\ force' = [force EXCEPT !.step = "exit"] /\ exit' = exit
     \/ /\ force.step = "exit" /\ files' = files
        /\ force' = [force EXCEPT !.step = "done"] /\ exit' = 0
  /\ UNCHANGED <<wmVars, main, mu, shut, job, recon, aborted, handler, signals, db>>

ShutTo(step) == shut' = [shut EXCEPT !.step = step]

\* detachSignalHandlers, attachSignalHandlers(onSecondSignal), Abort.
StopRearms ==
  /\ \/ shut.step = "taken" /\ ShutTo("detached") /\ handler' = "default" /\ aborted' = aborted
     \/ shut.step = "detached" /\ ShutTo("waiting") /\ handler' = "force" /\ aborted' = TRUE
  /\ UNCHANGED <<wmVars, main, mu, job, recon, signals, files, force, db, exit>>

\* The startup hand-off: the end of the startup, or of the budget.
TakesOver ==
  /\ shut.step = "waiting"
  /\ shut' = [shut EXCEPT !.step = "job", !.i = 1, !.late = ~main.done]
  /\ mu' = IF mu = "free" THEN "stop" ELSE mu
  /\ UNCHANGED <<wmVars, main, job, recon, aborted, handler, signals, files, force, db, exit>>

Job == JobOf[shut.i]

\* The next step of the sequence starts on a goroutine of its own.
JobStarts ==
  /\ shut.step = "job" /\ shut.i \in 1..4
  /\ job' = [job EXCEPT ![Job] = "runs"]
  /\ shut' = [shut EXCEPT !.step = "race", !.snap = IF Job = "drain" THEN plans ELSE @]
  /\ IF Job = "recon" THEN ReconStops("stop") ELSE recon' = recon
  /\ IF Job = "watch" THEN StopBegin("seq") ELSE UNCHANGED wmVars
  /\ UNCHANGED <<main, mu, aborted, handler, signals, files, force, db, exit>>

\* DrainInFlightPlans waits for the plans it found, the scheduler for the run it
\* found, the manager's Stop for its steps; the server's Stop may fail.  Of a
\* step left behind only the server's has an effect of its own still to come.
JobEnds(j) ==
  /\ job[j] = "runs" \/ (j = "server" /\ job[j] = "left")
  /\ CASE j = "drain" -> shut.snap \cap plans = {}
       [] j = "recon" -> "stop" \notin recon.awaited
       [] j = "watch" -> stop["seq"].step = "done"
       [] j = "server" -> TRUE
  /\ \/ job' = [job EXCEPT ![j] = "done"]
        /\ files' = IF j = "server" THEN files \ {"socket"} ELSE files
     \/ j = "server" /\ job' = [job EXCEPT ![j] = "failed"] /\ files' = files
  /\ UNCHANGED <<wmVars, main, mu, shut, recon, aborted, handler, signals, force, db, exit>>

\* Mutants: a step has no deadline; the step that failed is the last thing done.
RaceUnlimited == shut.step = "race" /\ job[Job] # "runs"
AfterFailureExit == "exit"
\* raceShutdownStep: the step is over, or its time is and it is left behind.  One
\* that failed ends the sequence before the close of the database but not before
\* the cleanup.
RaceOver == shut.step = "race"
AfterFailure == "cleanup"

JobRaced ==
  /\ RaceOver
  /\ shut' = IF job[Job] = "failed" THEN [shut EXCEPT !.step = AfterFailure, !.code = 1]
             ELSE [shut EXCEPT !.step = IF shut.i = 4 THEN "close" ELSE "job", !.i = @ + 1,
                               !.snap = {}]
  /\ job' = [job EXCEPT ![Job] = IF Job # "server" THEN "none"
                                       ELSE IF @ = "runs" THEN "left" ELSE @]
  /\ UNCHANGED <<wmVars, main, mu, recon, aborted, handler, signals, files, force, db, exit>>

Closes ==
  /\ shut.step = "close" /\ ShutTo("cleanup") /\ db' = "closed"
  /\ UNCHANGED <<wmVars, main, mu, job, recon, aborted, handler, signals, files, force, exit>>

Cleanup ==
  /\ shut.step = "cleanup" /\ ShutTo("exit")
  /\ files' = files \ {"pid", "owner"}
  /\ UNCHANGED <<wmVars, main, mu, job, recon, aborted, handler, signals, force, db, exit>>

Exits ==
  /\ shut.step = "exit" /\ exit' = shut.code
  /\ UNCHANGED <<wmVars, main, mu, shut, job, recon, aborted, handler, signals, files, force,
                 db>>

----------------------------------------------------------------------------
(* The periodic reconcile *)

ReconTimer ==
  /\ recon.armed /\ ~recon.fired /\ recon' = [recon EXCEPT !.fired = TRUE]
  /\ UNCHANGED <<wmVars, main, mu, shut, job, aborted, handler, signals, files, force, db,
                 exit>>

\* tick: skipped while a run is in flight; it does not ask whether the interval
\* was stopped after its timer fired.
ReconTick ==
  /\ recon.fired
  /\ recon' = [recon EXCEPT !.fired = FALSE,
                            !.run = IF @ = "idle" THEN "reconcile" ELSE @]
  /\ UNCHANGED <<wmVars, main, mu, shut, job, aborted, handler, signals, files, force, db,
                 exit>>

\* The run: Reconcile, whose error ends it, then DrainPendingPlans.
ReconRuns ==
  /\ recon.run # "idle"
  /\ \/ recon.run = "reconcile" /\ recon' = [recon EXCEPT !.run = "drain"]
     \/ recon' = [recon EXCEPT !.run = "idle", !.awaited = {}]
  /\ UNCHANGED <<wmVars, main, mu, shut, job, aborted, handler, signals, files, force, db,
                 exit>>

----------------------------------------------------------------------------

Startup == Boot \/ StepBegins \/ StepEnds \/ StepFails \/ Unwind \/ Unwound
Sequence == StopRearms \/ TakesOver \/ JobStarts \/ JobRaced \/ Closes \/ Cleanup \/ Exits
Periodic == ReconTimer \/ ReconTick \/ ReconRuns
Manager ==
  /\ \/ \E w \in Watchers : Loop(w)
     \/ \E k \in Scanners : Rescan(k)
     \/ Interval
     \/ \E k \in Stoppers : StopSteps(k)
     \/ aborted /\ StopBegin("signal")
     \/ \E p \in plans : PlanEnds(p)
     \/ RescanFallsDue
  /\ UNCHANGED lifeVars
World == HerdrMoves /\ UNCHANGED lifeVars

Next ==
  /\ exit = None
  /\ \/ Startup \/ Signal \/ ForcedExit \/ Sequence \/ Periodic \/ Manager \/ World
     \/ \E j \in Jobs : JobEnds(j)

Spec == Init /\ [][Next]_vars

(* Fairness of the manager: goroutines run, timers fire, a dial and a session list come back.
   Rescans are a minute apart, so a session's watchers are not all cut short
   between two steps of their way to the stream, and the list is not read only
   when it fails.  Nothing is assumed of plans, of the periodic run, of failures. *)
Lives(A) == exit = None /\ A /\ UNCHANGED lifeVars
Uncut(w, s, step) ==
  /\ watch[w].session = s /\ watch[w].step = step /\ ~watch[w].aborted
  /\ watch[w].cut => step = "top"
ManagerFairness ==
  /\ WF_vars(Startup /\ exit = None)
  /\ \A w \in Watchers : WF_vars(Lives(Loop(w)))
  /\ \A s \in Sessions, step \in {"top", "refresh", "subscribe"} :
       SF_vars(Lives(\E w \in Watchers : Uncut(w, s, step) /\ Loop(w)))
  /\ \A k \in Scanners : WF_vars(Lives(Rescan(k))) /\ SF_vars(Lives(ScanList(k)))
  /\ WF_vars(Lives(TimerFires)) /\ WF_vars(Lives(ScheduleTick))
  /\ WF_vars(Lives(RescanFallsDue))
  /\ WF_vars(Lives(TickLook \/ TickEnds \/ \E w \in Watchers : TickRefresh(w)))
FollowingSpec == Spec /\ ManagerFairness

(* Fairness of the shutdown: stop() goes on.  Nothing else need run. *)
StoppingSpec == Spec /\ WF_vars(Sequence /\ exit = None)

----------------------------------------------------------------------------
(* Properties *)

\* Every variable stays in its domain.
TypeOK ==
  /\ WatchTypeOK
  /\ main \in [step : 0..8, busy : BOOLEAN, done : BOOLEAN, fail : 0..6]
  /\ mu \in {"free", "startup", "stop"}
  /\ shut \in [step : {"idle", "taken", "detached", "waiting", "job", "race", "close",
                       "cleanup", "exit"},
               i : 0..5, late : BOOLEAN, snap : SUBSET (Sessions \X (0..MaxTurn)),
               code : {0, 1}]
  /\ job \in [Jobs -> {"none", "runs", "left", "done", "failed"}]
  /\ recon \in [armed : BOOLEAN, fired : BOOLEAN, run : {"idle", "reconcile", "drain"},
                awaited : SUBSET {"main", "stop"}]
  /\ aborted \in BOOLEAN /\ handler \in {"default", "stop", "taken", "force"}
  /\ signals \in 0..MaxSignals
  /\ files \subseteq {"owner", "pid", "socket"}
  /\ force \in [step : {"none", "pid", "socket", "lock", "exit", "done"},
                met : {"none"} \cup {StartupSteps[i] : i \in 1..7}]
  /\ db \in {"none", "open", "closed"}
  /\ exit \in {None, 0, 1, Killed}

Live(w) == ~Ended(w)

\* Two loops of one session never live at the same time: its events are handled
\* by one goroutine, in the order of one stream, whatever rescans, restarts,
\* reconnections and shutdowns overlap.
OneLoopPerSession ==
  \A v, w \in Watchers :
    Live(v) /\ Live(w) /\ watch[v].session = watch[w].session => v = w

\* The herdr_sessions row of a watched session says running: the rows marked
\* stopped by a rescan are those whose watchers it retired.
WatchedIsRunning == \A s \in Sessions : at[s] # None => s \in running

\* Once Stop has returned - to the shutdown sequence that took the startup over
\* in time, or to the unwinding of a failed startup - no watcher lives or can be
\* started, no tick touches a session, and no plan runs that the drain grace did
\* not give up.
Quiet ==
  /\ \A w \in Watchers : Ended(w)
  /\ \A s \in Sessions : at[s] = None
  /\ ticker.todo = {}
  /\ \A k \in Scanners : scan[k].step \in {"idle", "list", "done", "failed"}
StoppedIsQuiet ==
  \A k \in {"seq", "fail"} :
    stop[k].step = "done" /\ ~shut.late
      => Quiet /\ (plans = {} \/ stop[k].graceless)

\* A process that exits of its own after it has booted leaves neither pid file nor
\* lock record, and no socket unless server.Stop failed or was abandoned: whatever
\* steps of the startup and of the shutdown failed, hung or overlapped, short of a
\* startup step that outlives the whole budget.  A forced exit, which waits for
\* nobody, can leave one file: what the startup step it met makes after it has
\* looked (onSecondSignal); a step that has not begun by then makes none.
MetBySignal(step) == force = [step |-> "done", met |-> step]
ExitIsClean ==
  exit \in {0, 1} /\ main.step > 0 /\ ~shut.late =>
    /\ "owner" \notin files
    /\ "pid" \in files => MetBySignal("pid")
    /\ "socket" \in files => job["server"] \in {"left", "failed"} \/ MetBySignal("server")

\* Every change of a running session reaches the index, and its panes a
\* subscription, unless the session ends or the daemon stops: whatever falls
\* between a refresh and a subscription, whatever a restart drops, whichever
\* loop died.
Followed(s) ==
  /\ index[s].panes = herdr[s].panes /\ index[s].turn = herdr[s].turn
  /\ at[s] # None /\ watch[at[s]].step = "stream"
  /\ herdr[s].panes \subseteq watch[at[s]].sub
FollowsHerdr ==
  \A s \in Sessions :
    herdr[s].up ~> Followed(s) \/ ~herdr[s].up \/ ShutdownOwnsDaemon \/ exit # None

\* A process told to stop exits, however many of its steps hang.
SignalEnds == Stopping ~> exit # None
=============================================================================
