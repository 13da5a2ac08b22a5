---------------------------- MODULE StatusPlans ----------------------------
(* How a change of an agent's status becomes an event, or a verdict that it
   will not.

   Every transition of the agent is a plan: a row that outlives the daemon.  A
   run of the plan waits until the agent's answer is on disk, then appends the
   events; a run that cannot do so puts the plan back, with a timer or for the
   next drain, until its attempts or its window run out.  The runs of one agent
   follow one another through a queue; what moves beside them are the insertion
   of newer plans, the close of the pane, the replay of a late answer, the
   periodic drain and the end of the daemon.

   One agent in one pane.  An answer is its number and whether the agent stopped
   with it; the events of the agent are `log`.  Appends do not fail here. *)
EXTENDS Integers, Sequences

CONSTANTS
  MaxPlans,      \* bound: transitions
  MaxRef,        \* bound: answers the agent writes
  MaxAttempts,   \* StatusPlanMaxAttempts
  MaxStops,      \* bound: ends of the daemon
  MaxQueue,      \* bound: operations that wait when a timer or a drain adds one
  Kinds,         \* agents to look at
  Statuses,      \* statuses Herdr reports
  EventIds,      \* whether Herdr numbers its events
  None

Plans == 1..MaxPlans
Unfinished == {"pending", "running"}
Settled == {"completed", "cancelled", "failed", "discarded"}
ToldTypes == {"idle", "done", "blocked"}

ASSUME PlansAssumption ==
  /\ MaxPlans \in Nat \ {0} /\ MaxRef \in Nat /\ MaxAttempts \in Nat \ {0}
  /\ MaxStops \in Nat /\ MaxQueue \in Nat \ {0}
  /\ Kinds \subseteq {"pi", "agy", "other"} /\ Kinds # {}
  /\ Statuses \subseteq ToldTypes \cup {"working", "unknown"}
  /\ EventIds \subseteq BOOLEAN /\ EventIds # {}
  /\ None \notin [ref : 0..MaxRef, end : BOOLEAN]

VARIABLES
  kind,    \* the agent
  disk,    \* its last answer
  live,    \* the status in its row, "gone" without a row
  pane,    \* "open", "closing" (handlePaneClosed has begun), "closed"
  plan,    \* status_event_plans
  log,     \* agent_events
  owed,    \* a transition of a refresh not yet in plan, or None
  queue,   \* planTailByAgent: the operations that wait
  run,     \* the operation that runs
  timer,   \* waitingHistoryTimers: plan -> the answer its retry holds, or None
  drain,   \* the rows DrainPendingPlans has yet to visit
  phase,   \* "up", "stopping", "down"
  stops

mind == <<queue, run, timer, drain, owed>>
vars == <<kind, disk, live, pane, plan, log, owed, queue, run, timer,
          drain, phase, stops>>

Hist == [ref : 0..MaxRef, end : BOOLEAN]
NoHist == [ref |-> 0, end |-> FALSE]
Errors == {"none", "waiting", "degraded", "other", "stalled", "superseded"}

Row == [st : Unfinished \cup Settled \cup {"none"}, from : Statuses, to : Statuses,
        keyed : BOOLEAN, tries : 0..MaxAttempts, err : Errors, stored : Hist,
        born : Nat, ended : Nat]  \* length of the log at its creation and its end
Signal == [confirmed : BOOLEAN, matches : BOOLEAN]
Task == [by : {"exec", "retry", "drain"}, plan : Plans, snap : Hist, allow : BOOLEAN]

NoRun == [pc |-> "none", plan |-> 1, by |-> "exec", allow |-> TRUE, tries |-> 0,
          err |-> "none", snap |-> NoHist, body |-> NoHist, degraded |-> FALSE,
          got |-> None, skip |-> FALSE, obs |-> 0, event |-> 0, out |-> "none",
          aborted |-> FALSE]
NoDrain == [on |-> FALSE, todo |-> {}, at |-> 0, allow |-> FALSE]

Init ==
  /\ kind \in Kinds /\ live \in Statuses \ ToldTypes
  /\ disk = NoHist
  /\ pane = "open" /\ log = <<>> /\ owed = None
  /\ plan = [p \in Plans |-> [st |-> "none", from |-> live, to |-> live,
               keyed |-> FALSE, tries |-> 0, err |-> "none", stored |-> NoHist,
               born |-> 0, ended |-> 0]]
  /\ queue = <<>> /\ run = NoRun /\ timer = [p \in Plans |-> None]
  /\ drain = NoDrain /\ phase = "up" /\ stops = 0

----------------------------------------------------------------------------
(* Answers and what the events say of them *)

HasText(h) == h.ref # 0
IsTerminal(h) == h.ref # 0 /\ h.end
InFlight(h) == h.ref # 0 /\ ~h.end
SameContent(h, g) == h.ref # 0 /\ h.ref = g.ref
\* HistoryHasAdvanced, asked for a change of the assistant message.
Advanced(h, base) == h.ref # 0 /\ h.ref # base.ref

Newest(S) == IF S = {} THEN 0 ELSE CHOOSE i \in S : \A j \in S : j <= i
HistAt(i) == IF i = 0 THEN NoHist ELSE log[i].hist
Ids == DOMAIN log

LastChanged == Newest({i \in Ids : log[i].type = "changed"})
ToldIds == {i \in Ids : log[i].type \in ToldTypes /\ log[i].st # "invalid"}
ToldAfter(i) == \E j \in ToldIds : j > i
LastTold == Newest(ToldIds)
CompletedTurns ==
  {i \in Ids : /\ HasText(log[i].hist)
               /\ \/ log[i].type = "done"
                  \/ log[i].type = "idle" /\ log[i].from = "working"}
LastCompleted == Newest(CompletedTurns)
\* DeliveredTerminalHistories
GivenIds ==
  {i \in Ids : /\ log[i].st = "given"
               /\ \/ log[i].type \in {"done", "blocked"}
                  \/ log[i].type = "idle" /\ log[i].from = "working"}

\* Two appends of one idempotency key are one event.
Key(e) == <<e.type, e.from, e.to, e.obs, e.by>>
Known(l, e) == \E i \in DOMAIN l : Key(l[i]) = Key(e)
Logged(l, e) == IF Known(l, e) THEN l ELSE Append(l, e)
IdOf(l, e) == IF Known(l, e) THEN CHOOSE i \in DOMAIN l : Key(l[i]) = Key(e)
              ELSE Len(l) + 1

Transition(r, type) ==
  [type |-> type, from |-> plan[r.plan].from, to |-> plan[r.plan].to, obs |-> r.obs,
   by |-> IF plan[r.plan].keyed THEN r.plan ELSE 0, hist |-> r.body,
   degraded |-> r.degraded, st |-> "pending", why |-> "status"]
Verdict(p, type, h, st, why) ==
  [type |-> type, from |-> plan[p].from, to |-> plan[p].to, obs |-> 0, by |-> p,
   hist |-> h, degraded |-> FALSE, st |-> st, why |-> why]
Posted(p, type) == \E i \in Ids : log[i].type = type /\ log[i].by = p

----------------------------------------------------------------------------
(* The agent, its terminal and Herdr *)

AgentWrites(end) ==
  /\ live # "gone" /\ disk.ref < MaxRef
  /\ disk' = [ref |-> disk.ref + 1, end |-> end]
  /\ UNCHANGED <<kind, live, pane, plan, log, owed, queue, run, timer, drain, phase, stops>>

\* The orchestrator takes what is pending.
Give ==
  /\ \E i \in Ids : log[i].st = "pending"
  /\ log' = [i \in Ids |-> IF log[i].st = "pending" THEN [log[i] EXCEPT !.st = "given"]
                           ELSE log[i]]
  /\ UNCHANGED <<kind, disk, live, pane, plan, owed, queue, run, timer, drain, phase, stops>>

----------------------------------------------------------------------------
(* Transitions become plans *)

IsNext(p) == plan[p].st = "none" /\ \A q \in Plans : q < p => plan[q].st # "none"

NewRow(from, to, keyed, stored) ==
  [st |-> "pending", from |-> from, to |-> to, keyed |-> keyed, tries |-> 0,
   err |-> "none", stored |-> stored, born |-> Len(log), ended |-> 0]

\* CancelSupersededPendingPlans
Superseded(q, p, to) ==
  /\ q # p /\ plan[q].st \in Unfinished
  /\ plan[q].to = "idle" /\ plan[q].from # "working" /\ to # "idle"

Inserted(p, row) ==
  [q \in Plans |-> IF q = p THEN row
                   ELSE IF Superseded(q, p, row.to)
                        THEN [plan[q] EXCEPT !.st = "cancelled", !.err = "superseded"]
                        ELSE plan[q]]

Enqueued(p, snap) ==
  Append(queue, [by |-> "exec", plan |-> p, snap |-> snap, allow |-> TRUE])

\* pane.agent_status_changed: the status and the plan in one transaction, which
\* leaves the answer to the operation alone.
StatusEvent(p, to, keyed) ==
  /\ phase = "up" /\ pane = "open" /\ to # live /\ IsNext(p)
  /\ live' = to
  /\ plan' = Inserted(p, NewRow(live, to, keyed, NoHist))
  /\ queue' = Enqueued(p, disk)
  /\ UNCHANGED <<kind, disk, pane, log, owed, run, timer, drain, phase, stops>>

\* A refresh of the session replaces the row; its plan follows later.
RefreshStatus(to) ==
  /\ phase = "up" /\ pane = "open" /\ to # live /\ owed = None
  /\ \E p \in Plans : plan[p].st = "none"
  /\ live' = to
  /\ owed' = [from |-> live, to |-> to, snap |-> disk]
  /\ UNCHANGED <<kind, disk, pane, plan, log, queue, run, timer, drain, phase, stops>>

RefreshPlan(p) ==
  /\ owed # None /\ IsNext(p)
  /\ plan' = Inserted(p, NewRow(owed.from, owed.to, FALSE, owed.snap))
  /\ queue' = Enqueued(p, owed.snap)
  /\ owed' = None
  /\ UNCHANGED <<kind, disk, live, pane, log, run, timer, drain, phase, stops>>

\* handlePaneClosed: waits are aborted and the events invalidated before the
\* tombstone is written and the row removed.
Registered(r) == r.pc \in {"grace", "turn", "advance", "ready", "append", "tell"}

CloseBegins ==
  /\ phase = "up" /\ pane = "open" /\ pane' = "closing"
  /\ run' = IF Registered(run) THEN [run EXCEPT !.aborted = TRUE] ELSE run
  /\ log' = [i \in Ids |-> IF log[i].st = "pending" THEN [log[i] EXCEPT !.st = "invalid"]
                           ELSE log[i]]
  /\ UNCHANGED <<kind, disk, live, plan, owed, queue, timer, drain, phase, stops>>

CloseRetires ==
  /\ phase = "up" /\ pane = "closing"
  /\ pane' = "closed" /\ live' = "gone"
  /\ UNCHANGED <<kind, disk, plan, log, owed, queue, run, timer, drain, phase, stops>>

\* isAgentStalled: a round was lost and nothing has told of a later one.
StalledIds == {p \in Plans : plan[p].st = "discarded" /\ plan[p].err \in {"waiting", "stalled", "degraded"}}
IsStalled ==
  /\ StalledIds # {}
  /\ LET last == Newest(StalledIds)
         discards == {i \in Ids : log[i].type = "discarded" /\ log[i].by = last}
     IN  /\ \A p \in Plans : p > last => plan[p].st # "completed"
         /\ \A i \in discards : LastCompleted <= i
         /\ discards = {} => LastCompleted <= plan[last].ended

\* reconcileLateCompletion, run by refreshes and event handlers beside the queue.
LateCompletion ==
  /\ phase = "up" /\ pane # "closed" /\ live \in {"idle", "done"}
  /\ HasText(disk) /\ IsStalled /\ disk.ref # HistAt(LastCompleted).ref
  /\ LET e == [type |-> live, from |-> "working", to |-> live, obs |-> -1,
               by |-> disk.ref, hist |-> disk, degraded |-> FALSE,
               st |-> "pending", why |-> "late"]
     IN  ~Known(log, e) /\ log' = Append(log, e)
  /\ UNCHANGED <<kind, disk, live, pane, plan, owed, queue, run, timer, drain, phase, stops>>

----------------------------------------------------------------------------
(* The operations of the queue: enqueueAgentPlan *)

Finish ==
  /\ run' = NoRun
  /\ drain' = IF run.by = "drain" THEN [drain EXCEPT !.at = 0] ELSE drain

Next1(t) ==   \* the head of the queue becomes the operation that runs
  /\ phase # "down" /\ run = NoRun /\ queue # <<>> /\ t = Head(queue)
  /\ queue' = Tail(queue)

Cleared(p) == [timer EXCEPT ![p] = None]

\* A plan that is not pending any more leaves its operation nothing to do.
SkipTask(t) ==
  /\ Next1(t) /\ plan[t.plan].st # "pending"
  /\ timer' = Cleared(t.plan)
  /\ drain' = IF t.by = "drain" THEN [drain EXCEPT !.at = 0] ELSE drain
  /\ UNCHANGED <<kind, disk, live, pane, plan, log, owed, run, phase, stops>>

\* exec holds the row as it was inserted, the others read it.
Opened(t) ==
  [NoRun EXCEPT !.plan = t.plan, !.by = t.by, !.allow = t.allow,
                !.tries = IF t.by = "exec" THEN 0 ELSE plan[t.plan].tries,
                !.err = IF t.by = "exec" THEN "none" ELSE plan[t.plan].err,
                !.snap = t.snap, !.body = t.snap]
Running(p) == [plan EXCEPT ![p].st = "running"]

\* drainPlanRow finds no agent.
StartOrphan(t) ==
  /\ Next1(t) /\ plan[t.plan].st = "pending" /\ t.by = "drain" /\ live = "gone"
  /\ run' = [Opened(t) EXCEPT !.pc = "salvage"]
  /\ UNCHANGED <<kind, disk, live, pane, plan, log, owed, timer, drain, phase, stops>>

\* What the settlement of a run looks at.
Ended(r, out) ==
  [NoRun EXCEPT !.pc = "settle", !.plan = r.plan, !.by = r.by, !.allow = r.allow,
                !.err = r.err, !.snap = r.snap, !.out = out]

\* The history cannot be read before the run: a round without an answer.
StartUnread(t) ==
  /\ Next1(t) /\ plan[t.plan].st = "pending" /\ t.by # "exec"
  /\ t.by = "drain" => live # "gone"
  /\ run' = [Opened(t) EXCEPT !.pc = "settle", !.out = "waiting",
             !.snap = IF t.by = "drain" THEN plan[t.plan].stored ELSE t.snap]
  /\ UNCHANGED <<kind, disk, live, pane, plan, log, owed, timer, drain, phase, stops>>

\* Mutant: any answer will do.
IsAnyAnswer(h) == HasText(h)

\* An agy turn is new once its answer differs from the last completed turn, any
\* other once it differs from the last terminal event.
IsReady(h) ==
  HasText(h) /\ h.ref # HistAt(IF kind = "agy" THEN LastCompleted ELSE LastTold).ref

FirstWait(r) ==
  LET p == plan[r.plan]
  IN  CASE kind = "pi" /\ p.from = "working" /\ p.to = "idle" /\ InFlight(r.snap) -> "grace"
        [] kind = "pi" /\ p.to \in {"done", "blocked"} -> "turn"
        [] kind # "pi" /\ p.to \in {"idle", "done"} /\ ~IsReady(r.snap) -> "ready"
        [] OTHER -> "append"

\* appendStatusEvents up to its first wait.
Gated(r) ==
  LET p == plan[r.plan]
      repeated == LastChanged # 0 /\ log[LastChanged].from = p.from /\ log[LastChanged].to = p.to
      told == repeated /\ ToldAfter(LastChanged)
      previous == HistAt(IF kind = "agy" THEN LastCompleted ELSE LastTold)
      announced == kind = "other" /\ p.keyed /\ p.to \in {"idle", "done"}
                   /\ SameContent(r.snap, HistAt(LastTold))
  IN  CASE pane = "closed" -> Ended(r, "nothing")
        [] repeated /\ ~told /\ p.to \notin ToldTypes -> Ended(r, "nothing")
        [] told /\ ~p.keyed /\ SameContent(r.snap, previous) ->
             Ended(r, IF r.tries > 0 /\ kind # "agy" THEN "waiting" ELSE "nothing")
        [] announced -> Ended(r, "nothing")
        [] OTHER -> [r EXCEPT !.pc = FirstWait(r), !.skip = repeated /\ ~told,
                              !.obs = LastChanged, !.aborted = (phase = "stopping")]

StartRun(t) ==
  /\ Next1(t) /\ plan[t.plan].st = "pending"
  /\ t.by = "drain" => live # "gone"
  /\ LET snap == IF t.by = "exec" THEN t.snap ELSE disk
     IN  run' = Gated([Opened(t) EXCEPT !.snap = snap, !.body = snap])
  /\ plan' = Running(t.plan)
  /\ UNCHANGED <<kind, disk, live, pane, log, owed, timer, drain, phase, stops>>

----------------------------------------------------------------------------
(* The waits *)

\* throwIfShutdownAbort: the end of the daemon leaves the plan retryable.
CutShort(r) == r.aborted \/ pane = "closed"
CutOutcome(r) == IF r.aborted /\ phase = "stopping" THEN "waiting" ELSE "nothing"

Still(pc) == phase # "down" /\ run.pc = pc
Waits(r) ==   \* a step of the wait that touches nothing but the operation
  /\ run' = r
  /\ UNCHANGED <<kind, disk, live, pane, plan, log, owed, queue, timer, drain, phase, stops>>

WaitCut ==
  /\ run.pc \in {"grace", "turn", "ready"} /\ phase # "down" /\ CutShort(run)
  /\ Waits(Ended(run, CutOutcome(run)))

\* The read of the history fails.  The wait of the other agents goes on.
WaitFails ==
  /\ run.pc \in {"grace", "turn", "advance"} /\ phase # "down"
  /\ Waits(Ended(run, "error"))

\* waitForInFlightToolUseResolution
GraceEnds ==
  /\ Still("grace") /\ ~CutShort(run)
  /\ Waits(CASE live = "gone" \/ live = "working" -> Ended(run, "nothing")
             [] live \notin {"gone", "working"} /\ InFlight(disk) -> [run EXCEPT !.pc = "append"]
             [] OTHER -> [run EXCEPT !.pc = "append", !.body = disk, !.snap = disk])
 

\* waitForSignal, then an answer that can be taken at once.
AcceptsAtOnce(r, s, fresh) ==
  LET emitted == r.tries > 0 /\ SameContent(r.snap, HistAt(LastTold))
  IN  /\ IsTerminal(fresh) /\ s.matches
      /\ \/ s.confirmed
         \/ ~emitted /\ (IsTerminal(r.snap) \/ Advanced(fresh, r.snap))

TurnSignalled(s) ==
  /\ Still("turn") /\ ~CutShort(run)
  /\ Waits(IF AcceptsAtOnce(run, s, disk) THEN [run EXCEPT !.pc = "append", !.body = disk]
           ELSE [run EXCEPT !.pc = "advance", !.got = s])

TurnTimesOut ==
  /\ Still("turn") /\ ~CutShort(run)
  /\ Waits([run EXCEPT !.pc = "advance"])

\* What is released once the history has advanced, or has had its time.
Baseline(r) == IF r.tries > 0 /\ LastTold # 0 THEN HistAt(LastTold) ELSE r.snap
Blank(r, degraded) == [r EXCEPT !.pc = "append", !.body = NoHist, !.degraded = degraded]
Released(r, fresh) ==
  LET retry == r.tries > 0
      given == \E i \in GivenIds : SameContent(fresh, log[i].hist)
      deliverable == IsTerminal(fresh) /\ ~given
      frozen == ~retry /\ ~Advanced(fresh, r.snap)
      asItIs == [r EXCEPT !.pc = "append", !.body = fresh]
  IN  CASE retry /\ ~Advanced(fresh, Baseline(r)) -> Ended(r, "waiting")
        [] r.got = None /\ (frozen \/ ~IsTerminal(fresh)) -> Blank(r, TRUE)
        [] r.got # None /\ frozen /\ deliverable /\ (GivenIds = {} \/ r.got.confirmed) -> asItIs
        [] r.got # None /\ (frozen \/ ~deliverable) -> Blank(r, ~r.got.confirmed)
        [] OTHER -> asItIs

AdvanceEnds ==
  /\ Still("advance") /\ pane # "closed"
  /\ Waits(Released(run, disk))
\* Between two polls: an abort reads as a missing answer, a closed pane as none.
AdvanceCut ==
  /\ Still("advance") /\ CutShort(run)
  /\ Waits(Ended(run, IF run.aborted THEN "waiting" ELSE "nothing"))

\* The readiness gate of the other agents: eight rounds.
ReadyEnds ==
  /\ Still("ready") /\ ~CutShort(run)
  /\ Waits(CASE IsReady(disk) -> [run EXCEPT !.pc = "append", !.body = disk]
             [] ~IsReady(disk) /\ kind = "agy" /\ HasText(disk) -> Ended(run, "nothing")
             [] OTHER -> Ended(run, "waiting"))
 

----------------------------------------------------------------------------
(* The events of a run *)

\* The status the plan is about has passed: only the ends of a turn are told.
Outrun(to) == live # to /\ to \notin {"done", "blocked"} /\ ~(to = "idle" /\ kind = "agy")

AppendRefused ==
  /\ Still("append")
  /\ \/ CutShort(run) /\ run' = Ended(run, CutOutcome(run))
     \/ ~CutShort(run) /\ live = "gone" /\ run' = Ended(run, "cancelled")
     \/ ~CutShort(run) /\ live # "gone" /\ Outrun(plan[run.plan].to)
        /\ run' = Ended(run, "nothing")
  /\ UNCHANGED <<kind, disk, live, pane, plan, log, owed, queue, timer, drain, phase, stops>>

\* agent.status.changed, unless a run before this one has appended it.
AppendChanged ==
  LET e == Transition(run, "changed")
      told == plan[run.plan].to \in ToldTypes
  IN  /\ Still("append") /\ ~CutShort(run) /\ live # "gone" /\ ~Outrun(plan[run.plan].to)
      /\ log' = IF run.skip THEN log ELSE Logged(log, e)
      /\ run' = IF told THEN [run EXCEPT !.pc = "tell"]
                ELSE [Ended(run, "event") EXCEPT !.event = IdOf(log, e)]
      /\ UNCHANGED <<kind, disk, live, pane, plan, owed, queue, timer, drain, phase, stops>>

AppendTerminal ==
  LET e == Transition(run, plan[run.plan].to)
  IN  /\ Still("tell")
      /\ log' = Logged(log, e)
      /\ run' = [Ended(run, "event") EXCEPT !.event = IdOf(log, e)]
      /\ UNCHANGED <<kind, disk, live, pane, plan, owed, queue, timer, drain, phase, stops>>

----------------------------------------------------------------------------
(* What becomes of the plan *)

\* Mutant: a placeholder is taken for an answer.
NeverDegraded == FALSE

IsDegraded == run.out = "event" /\ log[run.event].degraded

\* Mutant: a settled row is settled again.
RowResettled(p, st) == [plan EXCEPT ![p].st = st, ![p].ended = Len(log)]

\* markSettled
RowSettled(p, st) ==
  IF plan[p].st \in Unfinished
  THEN [plan EXCEPT ![p].st = st, ![p].ended = Len(log)] ELSE plan

Complete ==
  /\ Still("settle")
  /\ \/ run.out = "event" /\ ~IsDegraded
     \/ run.out = "nothing" /\ pane # "closed"
  /\ plan' = RowSettled(run.plan, "completed")
  /\ timer' = Cleared(run.plan) /\ Finish
  /\ UNCHANGED <<kind, disk, live, pane, log, owed, queue, phase, stops>>

\* Mutant: what the orchestrator has taken stays.
WithdrawnPending(i) ==
  IF log[i].st = "pending" THEN [log EXCEPT ![i].st = "invalid"] ELSE log

Withdrawn(i) ==
  IF log[i].st \in {"pending", "given"} THEN [log EXCEPT ![i].st = "invalid"] ELSE log

\* A degraded event is withdrawn before the plan is put back.
Withdraw ==
  /\ Still("settle") /\ IsDegraded
  /\ log' = Withdrawn(run.event)
  /\ timer' = Cleared(run.plan)
  /\ run' = [run EXCEPT !.pc = "mark", !.err = "degraded"]
  /\ UNCHANGED <<kind, disk, live, pane, plan, owed, queue, drain, phase, stops>>

\* An agy agent that works, or seems to have stopped too early, is waited for.
IsLiveWorking(r) == r.allow /\ kind = "agy" /\ live = "working"
IsSuspected(r) ==
  /\ r.allow /\ kind = "agy"
  /\ plan[r.plan].to \in {"idle", "done"} \/ live \in {"idle", "done"}
  /\ ~(HasText(r.snap) /\ r.snap.ref # HistAt(LastCompleted).ref)
\* The tracker of the window never starts before the row: MarkRetry's own
\* comparison with the age of the row decides whether it is `expired`, and it
\* does so once, for an expired row is settled.
IsExempt(r, expired) == IsLiveWorking(r) \/ (IsSuspected(r) /\ ~expired)

\* Mutants: a degraded round is recorded as a missing answer; the attempts are
\* counted beyond their bound.
RetriedAsWaiting(row, error, exempt, stalled, expired) ==
  [row EXCEPT !.st = IF row.tries + 1 >= MaxAttempts THEN "discarded" ELSE "pending",
              !.tries = IF @ + 1 >= MaxAttempts THEN MaxAttempts ELSE @ + 1,
              !.err = "waiting"]
RetriedUncapped(row, error, exempt, stalled, expired) ==
  [row EXCEPT !.st = IF exempt THEN "pending" ELSE "discarded", !.tries = @ + 1, !.err = error]

\* MarkRetry
Retried(row, error, exempt, stalled, expired) ==
  LET exhausted == row.tries + 1 >= MaxAttempts
      over == \/ stalled \/ expired
              \/ exhausted /\ ~exempt
      st == IF ~over THEN "pending" ELSE IF error = "waiting" THEN "discarded" ELSE "failed"
  IN  [row EXCEPT !.st = st, !.tries = IF exhausted THEN MaxAttempts ELSE @ + 1,
                  !.err = IF stalled THEN "stalled" ELSE error,
                  !.ended = IF over THEN Len(log) ELSE @]

RetryError(r) ==
  IF r.err = "degraded" THEN "degraded" ELSE IF r.out = "waiting" THEN "waiting" ELSE "other"

Retryable ==
  \/ Still("mark")
  \/ Still("settle") /\ (run.out = "waiting" \/ (run.out = "error" /\ pane # "closed"))

\* markPlanRetry found the row settled.
MarkTooLate ==
  /\ Retryable /\ plan[run.plan].st \notin Unfinished
  /\ timer' = Cleared(run.plan) /\ Finish
  /\ UNCHANGED <<kind, disk, live, pane, plan, log, owed, queue, phase, stops>>

\* Only a missing answer arms the timer again: a degraded plan, or one that
\* failed otherwise, waits for the next drain.
PutBack(stalled, expired) ==
  LET p == run.plan
      row == Retried(plan[p], RetryError(run), IsExempt(run, expired), stalled, expired)
  IN  /\ Retryable /\ plan[p].st \in Unfinished /\ row.st = "pending"
      /\ stalled => IsExempt(run, expired)
      /\ plan' = [plan EXCEPT ![p] = row]
      /\ timer' = IF RetryError(run) = "waiting" THEN [timer EXCEPT ![p] = run.snap]
                  ELSE IF run.out = "error" THEN Cleared(p) ELSE timer
      /\ Finish
      /\ UNCHANGED <<kind, disk, live, pane, log, owed, queue, phase, stops>>

GiveUp(stalled, expired) ==
  LET p == run.plan
      row == Retried(plan[p], RetryError(run), IsExempt(run, expired), stalled, expired)
  IN  /\ Retryable /\ plan[p].st \in Unfinished /\ row.st # "pending"
      /\ stalled => IsExempt(run, expired)
      /\ plan' = [plan EXCEPT ![p] = row]
      /\ timer' = Cleared(p)
      /\ run' = [run EXCEPT !.pc = "verdict"]
      /\ UNCHANGED <<kind, disk, live, pane, log, owed, queue, drain, phase, stops>>

\* appendPlanFailedEvent, appendPlanDiscardedEvent: a degraded round without an
\* answer is no failure of the agent.
Unsaid(row, h) == row.st = "failed" /\ row.err = "degraded" /\ ~HasText(h)

AppendVerdict ==
  LET p == run.plan
  IN  /\ Still("verdict")
      /\ log' = IF Unsaid(plan[p], run.snap) THEN log
                ELSE Logged(log, Verdict(p, plan[p].st, run.snap, "pending", "row"))
      /\ Finish
      /\ UNCHANGED <<kind, disk, live, pane, plan, owed, queue, timer, phase, stops>>

----------------------------------------------------------------------------
(* A plan whose agent is gone: salvageOrCancelMissingAgentPlan *)

ToSalvage ==
  \/ Still("salvage")
  \/ Still("settle") /\ (run.out = "cancelled" \/ (run.out \in {"nothing", "error"} /\ pane = "closed"))

GivenBefore(p, h) ==
  \E i \in Ids : /\ i <= plan[p].born /\ log[i].type \in ToldTypes /\ log[i].st = "given"
                 /\ SameContent(h, log[i].hist)
Untold(p, h) == IsTerminal(h) /\ ~GivenBefore(p, h)
Tail20(p) == {i \in Ids : i <= plan[p].born /\ log[i].st # "given" /\ Untold(p, log[i].hist)}
SalvageBody(p) ==
  IF Untold(p, plan[p].stored) THEN plan[p].stored ELSE HistAt(Newest(Tail20(p)))
\* orphanScopeDeliverable
ScopeKnown(p) == live # "gone" \/ plan[p].born > 0

Salvage ==
  LET p == run.plan
  IN  /\ ToSalvage /\ HasText(SalvageBody(p)) /\ ScopeKnown(p)
      /\ log' = Logged(log, Verdict(p, "failed", SalvageBody(p), "pending", "salvage"))
      /\ run' = [run EXCEPT !.pc = "salvaged"]
      /\ UNCHANGED <<kind, disk, live, pane, plan, owed, queue, timer, drain, phase, stops>>

SalvageDone ==
  /\ Still("salvaged")
  /\ plan' = RowSettled(run.plan, "completed")
  /\ timer' = Cleared(run.plan) /\ Finish
  /\ UNCHANGED <<kind, disk, live, pane, log, owed, queue, phase, stops>>

CancelMissing ==
  /\ ToSalvage /\ ~(HasText(SalvageBody(run.plan)) /\ ScopeKnown(run.plan))
  /\ plan' = RowSettled(run.plan, "cancelled")
  /\ timer' = Cleared(run.plan) /\ Finish
  /\ UNCHANGED <<kind, disk, live, pane, log, owed, queue, phase, stops>>

----------------------------------------------------------------------------
(* The retry ring and the drain *)

TimerFires(p) ==
  /\ phase # "down" /\ timer[p] # None /\ Len(queue) < MaxQueue
  /\ timer' = Cleared(p)
  /\ queue' = IF plan[p].st = "pending"
              THEN Append(queue, [by |-> "retry", plan |-> p, snap |-> timer[p], allow |-> TRUE])
              ELSE queue
  /\ UNCHANGED <<kind, disk, live, pane, plan, log, owed, run, drain, phase, stops>>

UnfinishedPlans == {p \in Plans : plan[p].st \in Unfinished}
\* Mutant: what ran is left as it is.
ResetNothing == plan

\* ResetRunningToPending
Reset == [p \in Plans |-> IF plan[p].st = "running" THEN [plan[p] EXCEPT !.st = "pending"]
                          ELSE plan[p]]

\* Rows that a backfill can give their verdict.
Silent(p) ==
  /\ plan[p].st \in {"failed", "discarded"} /\ ~Posted(p, plan[p].st)
  /\ ~Unsaid(plan[p], plan[p].stored) /\ ScopeKnown(p)

\* The periodic drain, left out when it has nothing to do.
DrainBegins ==
  /\ phase = "up" /\ ~drain.on
  /\ UnfinishedPlans # {} \/ \E p \in Plans : Silent(p)
  /\ plan' = Reset
  /\ drain' = [on |-> TRUE, todo |-> UnfinishedPlans, at |-> 0, allow |-> TRUE]
  /\ UNCHANGED <<kind, disk, live, pane, log, owed, queue, run, timer, phase, stops>>

DrainVisits(p) ==
  /\ phase # "down" /\ drain.on /\ drain.at = 0 /\ Len(queue) < MaxQueue
  /\ p \in drain.todo /\ \A q \in drain.todo : p <= q
  /\ queue' = Append(queue, [by |-> "drain", plan |-> p, snap |-> NoHist, allow |-> drain.allow])
  /\ drain' = [drain EXCEPT !.todo = @ \ {p}, !.at = p]
  /\ UNCHANGED <<kind, disk, live, pane, plan, log, owed, run, timer, phase, stops>>

\* The verdict a crash swallowed is written and acknowledged at once.
Backfill(p) ==
  /\ phase # "down" /\ drain.on /\ drain.at = 0 /\ drain.todo = {} /\ Silent(p)
  /\ log' = Append(log, Verdict(p, plan[p].st, plan[p].stored, "acked", "row"))
  /\ UNCHANGED <<kind, disk, live, pane, plan, owed, queue, run, timer, drain, phase, stops>>

DrainEnds ==
  /\ phase # "down" /\ drain.on /\ drain.at = 0 /\ drain.todo = {}
  /\ \A p \in Plans : ~Silent(p)
  /\ drain' = NoDrain
  /\ UNCHANGED <<kind, disk, live, pane, plan, log, owed, queue, run, timer, phase, stops>>

----------------------------------------------------------------------------
(* The end of the daemon and its successor *)

\* StopWaitingHistoryRetries, then the abort of the waits.
Stop ==
  /\ phase = "up" /\ stops < MaxStops
  /\ phase' = "stopping" /\ stops' = stops + 1
  /\ timer' = [p \in Plans |-> None]
  /\ run' = IF Registered(run) THEN [run EXCEPT !.aborted = TRUE] ELSE run
  /\ UNCHANGED <<kind, disk, live, pane, plan, log, owed, queue, drain>>

\* A crash, or the end of the budget of the shutdown.
Dies ==
  /\ phase = "stopping" \/ (phase = "up" /\ stops < MaxStops)
  /\ stops' = IF phase = "up" THEN stops + 1 ELSE stops
  /\ phase' = "down" /\ owed' = None /\ queue' = <<>> /\ run' = NoRun
  /\ timer' = [p \in Plans |-> None] /\ drain' = NoDrain
  /\ UNCHANGED <<kind, disk, live, pane, plan, log>>

\* The drain of the start trusts no status in the index.
Starts ==
  /\ phase = "down" /\ phase' = "up"
  /\ plan' = Reset
  /\ drain' = [on |-> TRUE, todo |-> UnfinishedPlans, at |-> 0, allow |-> FALSE]
  /\ UNCHANGED <<kind, disk, live, pane, log, owed, queue, run, timer, stops>>

----------------------------------------------------------------------------
Taking == \E t \in {queue[i] : i \in DOMAIN queue} :
            SkipTask(t) \/ StartOrphan(t) \/ StartUnread(t) \/ StartRun(t)
Waiting == \/ WaitCut \/ WaitFails \/ GraceEnds \/ TurnTimesOut \/ (\E s \in Signal : TurnSignalled(s))
           \/ AdvanceEnds \/ AdvanceCut \/ ReadyEnds
Telling == AppendRefused \/ AppendChanged \/ AppendTerminal
Settling == \/ Complete \/ Withdraw \/ MarkTooLate \/ AppendVerdict
            \/ \E stalled, expired \in BOOLEAN : PutBack(stalled, expired) \/ GiveUp(stalled, expired)
            \/ Salvage \/ SalvageDone \/ CancelMissing
Runner == Taking \/ Waiting \/ Telling \/ Settling

Draining == \/ DrainBegins \/ DrainEnds
            \/ \E p \in Plans : DrainVisits(p) \/ Backfill(p)
Daemon == Stop \/ Dies \/ Starts
Agent == \/ \E end \in BOOLEAN : AgentWrites(end)
         \/ Give
Herdr == \/ \E p \in Plans, to \in Statuses, keyed \in EventIds : StatusEvent(p, to, keyed)
         \/ \E to \in Statuses : RefreshStatus(to)
         \/ \E p \in Plans : RefreshPlan(p)
         \/ CloseBegins \/ CloseRetires \/ LateCompletion

Next == Runner \/ Draining \/ Daemon \/ Agent \/ Herdr \/ \E p \in Plans : TimerFires(p)

Spec == Init /\ [][Next]_vars

\* The operations of the queue and the drain end, a shutdown has a budget, the
\* daemon comes back, and the window of a plan that is marked again and again
\* ends.
Fairness ==
  /\ WF_vars(Runner) /\ WF_vars(phase = "stopping" /\ Dies) /\ WF_vars(Starts)
  /\ WF_vars(DrainBegins) /\ WF_vars(DrainEnds)
  /\ \A p \in Plans : WF_vars(DrainVisits(p)) /\ WF_vars(Backfill(p))
  /\ SF_vars(GiveUp(FALSE, TRUE))
FairSpec == Spec /\ Fairness

----------------------------------------------------------------------------
(* What holds *)

Event ==
  [type : ToldTypes \cup {"changed", "failed", "discarded"}, from : Statuses \cup {"working"},
   to : Statuses, obs : Int, by : Nat, hist : Hist, degraded : BOOLEAN,
   st : {"pending", "given", "invalid", "acked"}, why : {"status", "row", "salvage", "late"}]

TypeOK ==
  /\ kind \in Kinds /\ disk \in Hist /\ live \in Statuses \cup {"gone"}
  /\ pane \in {"open", "closing", "closed"} /\ phase \in {"up", "stopping", "down"}
  /\ plan \in [Plans -> Row] /\ log \in Seq(Event) /\ queue \in Seq(Task)
  /\ timer \in [Plans -> Hist \cup {None}] /\ stops \in 0..MaxStops
  /\ owed = None \/ owed \in [from : Statuses, to : Statuses, snap : Hist]
  /\ drain \in [on : BOOLEAN, todo : SUBSET Plans, at : Plans \cup {0}, allow : BOOLEAN]
  /\ run.plan \in Plans /\ run.snap \in Hist /\ run.body \in Hist

\* A plan put back for a missing answer is tried again without waiting for the
\* next drain: its timer is armed, or an operation or a drain under way has it.
\* scheduleWaitingHistoryRetry, retryWaitingPlanRow, clearWaitingTimer.
Carried(p) ==
  \/ timer[p] # None \/ p \in drain.todo
  \/ run.pc # "none" /\ run.plan = p
  \/ \E i \in DOMAIN queue : queue[i].plan = p
WaitingIsCarried ==
  \A p \in Plans : plan[p].st = "pending" /\ plan[p].err = "waiting" /\ phase = "up" => Carried(p)

\* The end of a pi turn that its plan counts as told is in the log, if only as
\* the replay of its late answer: neither a retry, a drain nor a restart completes
\* it silently while the pane is open.
DoneIsTold ==
  \A p \in Plans :
    kind = "pi" /\ pane = "open" /\ plan[p].to = "done" /\ plan[p].st = "completed"
    => \E i \in ToldIds : ~log[i].degraded /\ (log[i].type = "done" \/ log[i].why = "late")

\* Two turns of an agy agent that follow one another in the log tell different
\* answers, however often their plans are retried or overtaken; only a late
\* replay, which does not wait its turn in the queue, may repeat one.
TurnsDiffer ==
  \A i, j \in CompletedTurns :
    kind = "agy" /\ i < j /\ (\A k \in CompletedTurns : k <= i \/ j <= k)
    /\ SameContent(log[i].hist, log[j].hist)
    => "late" \in {log[i].why, log[j].why}

\* A placeholder for an answer that is missing is withdrawn by the run that told
\* it, unless the daemon died in between.
PlaceholderWithdrawn ==
  \A i \in Ids :
    i \in ToldIds /\ log[i].degraded /\ stops = 0
    => run.pc = "settle" /\ run.event = i

\* The plans keep the promise of PlanLedger.
VerdictIds(p) == {i \in Ids : log[i].type \in {"failed", "discarded"} /\ log[i].by = p}
RowOf(p) == IF plan[p].st \in Unfinished THEN "open" ELSE plan[p].st
VerdictOf(p) ==
  CASE VerdictIds(p) = {} -> "none"
    [] \E i \in VerdictIds(p) : VerdictIds(p) = {i} /\ log[i].why = "salvage" -> "rescued"
    [] \E i \in VerdictIds(p) : VerdictIds(p) = {i} /\ log[i].why = "row" ->
         log[Newest(VerdictIds(p))].type
    [] OTHER -> "twice"
Ledger == INSTANCE PlanLedger WITH row <- [p \in Plans |-> RowOf(p)],
                                   verdict <- [p \in Plans |-> VerdictOf(p)]
ImplementsLedger == Ledger!LedgerSpec

\* Every plan ends, and so do those that come in the meantime: the attempts or the
\* window run out, a drain picks up what no timer carries, and a restart what the
\* daemon left running.
EventuallySettled == UnfinishedPlans # {} ~> UnfinishedPlans = {}
====
