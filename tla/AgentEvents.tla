---------------------------- MODULE AgentEvents ----------------------------
(* Delivery of agent events to the orchestrator (owner) terminals of one
   Herdr session.

   State: the agent_events, agents and agent_orchestrator_scopes tables of the
   daemon's SQLite database, the panes Herdr really has, and the position of
   the three activities of the daemon that use these tables concurrently:
     rpc   one RPC handler (the server's mutex admits one at a time),
     ix    the index service handling a pane.closed event,
     rec   the periodic reconciler.
   One action is one SQLite transaction or statement of the code: the activities
   interleave between them.

   A pane stands for the terminal it hosts.  The n-th pane opened under one
   pane id is incarnation n of that id; its generation is n, or 0 where Herdr
   reports none (pane_generation null). *)
EXTENDS Integers

CONSTANTS
  Workspaces, Panes,
  Owners,         \* panes running a Pi that may become an orchestrator
  Authors,        \* panes whose agent appends events in this instance
  Home,           \* the workspace of each pane
  TaggedRows,     \* panes whose agents and events rows carry a generation
  TaggedCloses,   \* panes whose pane.closed events carry a generation
  EventTypes,     \* the types of agent event this instance appends
  MaxEvents, MaxIncarnations, MaxClock,     \* bounds of the instance
  MaxAttempts,    \* delivery_attempts budget (10 in the code)
  ReclaimAge,     \* 60 s: a delivery to a closed pane's owner may be given up
  FreshAge,       \* 300 s: RedeliveryFreshnessMs
  GraceAge,       \* 1 h: InvalidatedGraceMs
  SettledAge,     \* 7 d: ReconcileSettledTtlMs
  ScopeAge,       \* 30 d: ScopeReleaseTtlMs
  None

AllTypes == {"outcome", "failed", "discarded", "blocked", "status"}

ASSUME PaneAssumption ==
  /\ Owners \subseteq Panes /\ Authors \subseteq Panes /\ Panes # {}
  /\ TaggedRows \subseteq Panes /\ TaggedCloses \subseteq Panes
  /\ Home \in [Panes -> Workspaces]
  /\ None \notin Panes
  /\ EventTypes \subseteq AllTypes

ASSUME BoundAssumption ==
  /\ MaxEvents \in Nat /\ MaxIncarnations \in Nat \ {0} /\ MaxClock \in Nat
  /\ MaxAttempts \in Nat \ {0}

ASSUME AgeAssumption ==
  /\ ReclaimAge \in Nat /\ FreshAge \in Nat /\ GraceAge \in Nat
  /\ SettledAge \in Nat /\ ScopeAge \in Nat
  /\ ReclaimAge <= FreshAge /\ FreshAge <= GraceAge
  /\ GraceAge <= SettledAge /\ SettledAge <= ScopeAge

VARIABLES
  clock,    \* wall clock, in ticks
  lastId,   \* highest agent_events id handed out
  row,      \* agent_events: id -> row
  agents,   \* agents: pane -> incarnation of its row, 0 without a row
  scope,    \* agent_orchestrator_scopes: workspace -> row
  opened,   \* Herdr: pane -> how often the pane id was opened
  live,     \* Herdr: the panes open now (incarnation opened[p])
  closing,  \* pane.closed events on their way: <<pane, incarnation>>
  rpc, ix, rec

vars == <<clock, lastId, row, agents, scope, opened, live, closing,
          rpc, ix, rec>>
tables == <<lastId, row, agents, scope>>
herdr  == <<opened, live, closing>>

EventIds == 1..MaxEvents
Incarnations == 0..MaxIncarnations
Statuses == {"none", "pending", "delivered", "acked", "invalidated", "failed"}
Reasons == {"none", "closed", "legacy", "reclaim", "retained"}

Row == [status : Statuses, deliverable : BOOLEAN, type : AllTypes,
        pane : Panes, inc : Incarnations, orphan : BOOLEAN,
        attempts : 0..MaxAttempts, to : Owners \cup {None},
        made : 0..MaxClock, tried : 0..MaxClock, reason : Reasons]

\* A missing row: an id not yet handed out, or physically deleted.
NoRow == [status |-> "none", deliverable |-> FALSE, type |-> "status",
          pane |-> CHOOSE p \in Panes : TRUE, inc |-> 0, orphan |-> TRUE,
          attempts |-> 0, to |-> None, made |-> 0, tried |-> 0,
          reason |-> "none"]

Scope == [exists : BOOLEAN, cursor : 0..MaxEvents,
          owner : Owners \cup {None}, updated : 0..MaxClock]
NoScope == [exists |-> FALSE, cursor |-> 0, owner |-> None, updated |-> 0]

----------------------------------------------------------------------------
(* Predicates of one row *)

RowGen(p, i)   == IF p \in TaggedRows THEN i ELSE 0
CloseGen(p, i) == IF p \in TaggedCloses THEN i ELSE 0
EventWorkspace(r) == Home[r.pane]

Open(r) == r.status \in {"pending", "delivered"}
Retained(r) == r.status = "invalidated" /\ r.deliverable
Fresh(t) == t >= clock - FreshAge

\* The agents row of a live event is the one its foreign key names: deleting
\* the agents row sets agent_id to null, which is orphan.
OrphanOutcome(r) == r.orphan /\ r.deliverable /\ r.type = "outcome"
FailedOrRetained(r) == r.type \in {"failed", "discarded"} \/ Retained(r)
NeedsNoAgent(r) == FailedOrRetained(r) \/ OrphanOutcome(r)

IsDeliverable(r, w, t) ==
  /\ Open(r) \/ Retained(r)
  /\ EventWorkspace(r) = w
  /\ r.pane # t
  /\ r.type # "status"
  /\ r.status = "delivered" => r.to = t
  /\ NeedsNoAgent(r) \/ ~r.orphan

\* The status filter shared by listAfter, nextDeliverableAfter, reservePending.
Listable(r, t) ==
  \/ r.status = "pending"
  \/ r.status = "delivered" /\ r.to = t /\ Fresh(r.tried)
  \/ Retained(r)

Owns(t) == \E w \in Workspaces : scope[w].owner = t

\* OwnerlessSiblingScopes: workspaces with indexed agents and no owner.
Neighbours(w) ==
  {v \in Workspaces \ {w} : \E p \in Panes : agents[p] # 0 /\ Home[p] = v}
Siblings(w) == {v \in Neighbours(w) : scope[v].owner = None}

Served(t) == {Home[t]} \cup Siblings(Home[t])

\* The events after t's cursor that t can be given in one of the workspaces.
DeliverableAfter(t, workspaces) ==
  {e \in EventIds :
     /\ e > scope[Home[t]].cursor
     /\ Listable(row[e], t)
     /\ EventWorkspace(row[e]) \in workspaces
     /\ IsDeliverable(row[e], EventWorkspace(row[e]), t)}

\* nextDeliverableAcrossScopes, as a predicate.
IsNextDeliverable(e, t) ==
  LET all == DeliverableAfter(t, Served(t))
  IN  e \in all /\ \A d \in all : e <= d

\* claimCursor: an existing scope row keeps its cursor, the first claim of a
\* workspace starts after its newest event.
EventsIn(w) == {e \in EventIds : row[e].status # "none" /\ EventWorkspace(row[e]) = w}
IsNewestEvent(c, w) ==
  c \in EventsIn(w) \cup {0} /\ \A e \in EventsIn(w) : e <= c
IsClaimCursor(c, w) ==
  IF scope[w].exists THEN c = scope[w].cursor
  ELSE IsNewestEvent(c, w)

----------------------------------------------------------------------------
(* Activities *)

RpcSteps == {"idle", "claim", "reclaim", "select", "reserve",
             "mark", "advance"}
Rpc == [step : RpcSteps, term : Owners \cup {None}, cursor : 0..MaxEvents,
        served : SUBSET Workspaces, picked : SUBSET EventIds,
        event : 0..MaxEvents]
RpcIdle == [step |-> "idle", term |-> None, cursor |-> 0, served |-> {},
            picked |-> {}, event |-> 0]

Ix == [step : {"idle", "retire", "release"}, pane : Panes, gen : Incarnations]
IxIdle == [step |-> "idle", pane |-> CHOOSE p \in Panes : TRUE, gen |-> 0]

Verdicts == {"keep", "retain", "fresh", "delete"}
Rec == [step : {"idle", "list", "walk", "expire", "purge", "self"},
        snap : [Panes -> Incarnations],    \* 0: the pane is not in the snapshot
        todo : SUBSET (EventIds \X Verdicts), cursor : 0..MaxEvents,
        owned : SUBSET (Workspaces \X Owners)]
RecIdle == [step |-> "idle", snap |-> [p \in Panes |-> 0], todo |-> {},
            cursor |-> 0, owned |-> {}]

Init ==
  /\ clock = 0 /\ lastId = 0
  /\ row = [e \in EventIds |-> NoRow]
  /\ agents = [p \in Panes |-> 1]
  /\ scope = [w \in Workspaces |-> NoScope]
  /\ opened = [p \in Panes |-> 1]
  /\ live = Panes
  /\ closing = {}
  /\ rpc = RpcIdle /\ ix = IxIdle /\ rec = RecIdle

----------------------------------------------------------------------------
(* Time and Herdr *)

Tick ==
  /\ clock < MaxClock
  /\ clock' = clock + 1
  /\ UNCHANGED <<tables, herdr, rpc, ix, rec>>

\* The watch connection may be down: then the pane.closed event is lost and
\* only the next refresh notices.
PaneCloses(p) ==
  /\ p \in live
  /\ live' = live \ {p}
  /\ closing' \in {closing, closing \cup {<<p, opened[p]>>}}
  /\ UNCHANGED <<clock, tables, opened, rpc, ix, rec>>

\* A pane id is opened again for another terminal: never an owner's.
PaneOpens(p) ==
  /\ p \notin live /\ p \notin Owners
  /\ opened[p] < MaxIncarnations
  /\ opened' = [opened EXCEPT ![p] = @ + 1]
  /\ live' = live \cup {p}
  /\ UNCHANGED <<clock, tables, closing, rpc, ix, rec>>

----------------------------------------------------------------------------
(* Index service *)

\* Append: by the status event plan of incarnation i, which may complete after
\* the pane was retired; the row is then an orphan.
Append(p, i, type) ==
  /\ lastId < MaxEvents
  /\ i \in 1..opened[p]
  /\ lastId' = lastId + 1
  /\ row' = [row EXCEPT ![lastId + 1] =
               [status |-> "pending", deliverable |-> TRUE, type |-> type,
                pane |-> p, inc |-> i, orphan |-> agents[p] # i,
                attempts |-> 0, to |-> None, made |-> clock, tried |-> clock,
                reason |-> "none"]]
  /\ UNCHANGED <<clock, agents, scope, herdr, rpc, ix, rec>>

\* invalidatePaneCore on one row of the pane.  g is the generation of the
\* close; settle is AcknowledgeDelivered; consumed says step 0 settled a row.
GenMatches(r, g) ==
  LET own == RowGen(r.pane, r.inc) IN g = 0 \/ own = 0 \/ own <= g

DeliveredOnce(r, p, g) ==
  r.pane = p /\ Open(r) /\ r.attempts >= 1 /\ GenMatches(r, g)

CloseReason(g) == IF g = 0 THEN "legacy" ELSE "closed"

SettledRow(r) ==
  [r EXCEPT !.status = "acked", !.deliverable = FALSE, !.reason = "none"]
InvalidatedRow(r, g) ==
  [r EXCEPT !.status = "invalidated", !.deliverable = FALSE,
            !.reason = CloseReason(g)]
\* Mutant: retaining gives the delivery attempt back.
RefundedRow(r) ==
  [r EXCEPT !.status = "invalidated", !.deliverable = TRUE,
            !.reason = "retained", !.attempts = @ - 1]
RetainedRow(r) ==
  [r EXCEPT !.status = "invalidated", !.deliverable = TRUE,
            !.reason = "retained"]

RestorableOutcome(r, g) ==
  /\ g = 0 \/ RowGen(r.pane, r.inc) = g
  /\ r.type = "outcome"
  /\ Fresh(r.made)
Restorable(r, g) ==
  RestorableOutcome(r, g) \/ (r.type = "failed" /\ r.attempts = 0)

ClosedRow(r, p, g, settle, consumed) ==
  LET step1 == IF settle /\ DeliveredOnce(r, p, g) THEN SettledRow(r)
               ELSE IF r.pane = p /\ Open(r) /\ GenMatches(r, g)
               THEN InvalidatedRow(r, g) ELSE r
  IN  IF /\ ~consumed
         /\ step1.pane = p
         /\ step1.status = "invalidated" /\ ~step1.deliverable
         /\ step1.reason = CloseReason(g)
         /\ Restorable(step1, g)
      THEN RetainedRow(step1) ELSE step1

\* handlePaneClosed: InvalidatePane, RetirePane and the release of the pane's
\* ownership are three transactions.  The closes of one pane id arrive in order.
CloseInvalidate(p, i) ==
  LET g == CloseGen(p, i)
      consumed == \E e \in EventIds : DeliveredOnce(row[e], p, g)
  IN  /\ ix.step = "idle"
      /\ <<p, i>> \in closing
      /\ \A j \in Incarnations : <<p, j>> \in closing => i <= j
      /\ closing' = closing \ {<<p, i>>}
      /\ row' = [e \in EventIds |-> ClosedRow(row[e], p, g, TRUE, consumed)]
      /\ ix' = [step |-> "retire", pane |-> p, gen |-> g]
      /\ UNCHANGED <<clock, lastId, agents, scope, opened, live, rpc, rec>>

\* Deleting agents rows sets the agent_id of their events to null.
OrphanedBy(gone) ==
  [e \in EventIds |->
     IF row[e].pane \in gone THEN [row[e] EXCEPT !.orphan = TRUE] ELSE row[e]]

CloseRetire ==
  LET p == ix.pane
      retired == agents[p] # 0 /\ (ix.gen = 0 \/ RowGen(p, agents[p]) = ix.gen)
  IN  /\ ix.step = "retire"
      /\ agents' = IF retired THEN [agents EXCEPT ![p] = 0] ELSE agents
      /\ row' = IF retired THEN OrphanedBy({p}) ELSE row
      /\ ix' = IF retired THEN [ix EXCEPT !.step = "release"] ELSE IxIdle
      /\ UNCHANGED <<clock, lastId, scope, herdr, rpc, rec>>

Released(w) == [scope[w] EXCEPT !.owner = None, !.updated = clock]

CloseRelease ==
  LET w == Home[ix.pane]
  IN  /\ ix.step = "release"
      /\ scope' = IF scope[w].owner = ix.pane
                  THEN [scope EXCEPT ![w] = Released(w)] ELSE scope
      /\ ix' = IxIdle
      /\ UNCHANGED <<clock, lastId, row, agents, herdr, rpc, rec>>

\* refreshHerdrSessionNow -> ReplaceForSession: the agents rows become those of
\* a session snapshot.  Rows whose pane is gone, or whose pane id now hosts
\* another terminal, are removed after their events are invalidated.
Refresh ==
  LET removed == {p \in Panes : agents[p] # 0 /\ (p \notin live \/ agents[p] # opened[p])}
      closedRow(r) ==
        IF r.pane \in removed
        THEN [ClosedRow(r, r.pane, RowGen(r.pane, agents[r.pane]), FALSE, FALSE)
                EXCEPT !.orphan = TRUE]
        ELSE r
  IN  /\ ix.step = "idle"
      /\ agents # [p \in Panes |-> IF p \in live THEN opened[p] ELSE 0]
      /\ row' = [e \in EventIds |-> closedRow(row[e])]
      /\ agents' = [p \in Panes |-> IF p \in live THEN opened[p] ELSE 0]
      /\ UNCHANGED <<clock, lastId, scope, herdr, rpc, ix, rec>>

----------------------------------------------------------------------------
(* RPC handlers: agent.orchestrator.get and set, agent.notifications.ack.
   The server mutex admits the next one only when rpc is idle. *)

\* connectionStateLocked: only an owner is served its ownerless siblings.
ConnectionState(t, isOwner) ==
  [RpcIdle EXCEPT !.step = "reclaim", !.term = t,
                  !.served = IF isOwner THEN Served(t) ELSE {Home[t]}]

Get(t) ==
  /\ rpc.step = "idle"
  /\ rpc' = ConnectionState(t, scope[Home[t]].owner = t)
  /\ UNCHANGED <<clock, tables, herdr, ix, rec>>

\* set enabled=true: claimCursor reads the cursor, scopes.Claim writes it.
Claim(t) ==
  /\ rpc.step = "idle"
  /\ \E c \in 0..MaxEvents :
       /\ IsClaimCursor(c, Home[t])
       /\ rpc' = [RpcIdle EXCEPT !.step = "claim", !.term = t, !.cursor = c]
  /\ UNCHANGED <<clock, tables, herdr, ix, rec>>

\* connected is hasTerminalPresence(owner), read when the handler began.
ClaimWrite(connected) ==
  LET t == rpc.term
      w == Home[t]
      refused == scope[w].owner \notin {None, t} /\ connected
  IN  /\ rpc.step = "claim"
      /\ scope' = IF refused THEN scope
                  ELSE [scope EXCEPT ![w] =
                          [exists |-> TRUE, cursor |-> rpc.cursor, owner |-> t,
                           updated |-> clock]]
      /\ rpc' = IF refused THEN RpcIdle
                ELSE ConnectionState(t, TRUE)
      /\ UNCHANGED <<clock, lastId, row, agents, herdr, ix, rec>>

\* set enabled=false releases and then answers with the connection state.
TurnOff(t) ==
  LET w == Home[t]
  IN  /\ rpc.step = "idle"
      /\ rpc' = ConnectionState(t, FALSE)
      /\ scope' = IF scope[w].owner = t
                  THEN [scope EXCEPT ![w] = Released(w)] ELSE scope
      /\ UNCHANGED <<clock, lastId, row, agents, herdr, ix, rec>>

\* A grace timer fires, under the same mutex.
PresenceLost(t) ==
  /\ rpc.step = "idle"
  /\ Owns(t)
  /\ scope' = [w \in Workspaces |->
                 IF scope[w].owner = t THEN Released(w) ELSE scope[w]]
  /\ UNCHANGED <<clock, lastId, row, agents, herdr, rpc, ix, rec>>

\* Mutant: only the scope of the event's own workspace is looked at.
LostItsWorkspace(r) == scope[EventWorkspace(r)].owner # r.to
\* The terminal the row was handed to owns no scope, of any workspace.
LostItsOwner(r) == ~Owns(r.to)

\* Mutant: the addressee survives.
ReopenedFor(r) == [r EXCEPT !.status = "pending", !.deliverable = TRUE]
Reopened(r) ==
  [r EXCEPT !.status = "pending", !.deliverable = TRUE, !.to = None]

ReclaimedRow(r) ==
  IF r.status # "delivered" THEN r
  ELSE IF r.orphan
  THEN IF r.attempts >= 1 /\ r.tried < clock - ReclaimAge
       THEN [r EXCEPT !.status = "invalidated", !.deliverable = FALSE,
                      !.reason = "reclaim"]
       ELSE r
  ELSE IF ~LostItsOwner(r) THEN r
  ELSE IF r.attempts >= MaxAttempts
  THEN [r EXCEPT !.status = "failed", !.deliverable = FALSE, !.to = None]
  ELSE Reopened(r)

Reclaim ==
  /\ rpc.step = "reclaim"
  /\ row' = [e \in EventIds |-> ReclaimedRow(row[e])]
  /\ rpc' = [rpc EXCEPT !.step = "select"]
  /\ UNCHANGED <<clock, lastId, agents, scope, herdr, ix, rec>>

Select ==
  LET t == rpc.term
      picked == DeliverableAfter(t, rpc.served)
  IN  /\ rpc.step = "select"
      /\ rpc' = IF scope[Home[t]].owner # t \/ picked = {} THEN RpcIdle
                ELSE [rpc EXCEPT !.step = "reserve", !.picked = picked]
      /\ UNCHANGED <<clock, tables, herdr, ix, rec>>

ReservedRow(r, t) ==
  IF r.status = "pending" \/ Retained(r)
  THEN [r EXCEPT !.status = "delivered", !.deliverable = TRUE,
                 !.attempts = IF @ < MaxAttempts THEN @ + 1 ELSE @,
                 !.tried = clock, !.to = t]
  ELSE r

Reserve ==
  LET t == rpc.term
      taken == {e \in rpc.picked : Listable(row[e], t)}
  IN  /\ rpc.step = "reserve"
      /\ row' = [e \in EventIds |->
                   IF e \in taken THEN ReservedRow(row[e], t) ELSE row[e]]
      /\ rpc' = RpcIdle
      /\ UNCHANGED <<clock, lastId, agents, scope, herdr, ix, rec>>

\* What a terminal may acknowledge among the events it was given.
\* Mutant: not what a pane.closed has acknowledged in its place.
UnsettledStatuses == {"delivered", "invalidated"}
GivenStatuses == {"delivered", "invalidated", "acked"}

\* The checks of ack; a rejected or repeated ack changes nothing.
AckAdmitted(t, e) ==
  LET r == row[e]
      mine == r.to = t
  IN  /\ \/ r.status = "pending"
         \/ r.status \in GivenStatuses /\ mine
      /\ (Open(r) /\ ~r.orphan) =>
           IsDeliverable([r EXCEPT !.status = "pending"], EventWorkspace(r), t)

Blocks(next, t) ==
  \/ row[next].status = "pending"
  \/ Retained(row[next]) /\ row[next].to # t

Ack(t, e) ==
  /\ rpc.step = "idle"
  /\ scope[Home[t]].owner = t
  /\ e > scope[Home[t]].cursor
  /\ row[e].status # "none"
  /\ EventWorkspace(row[e]) \in Served(t)
  /\ AckAdmitted(t, e)
  /\ ~\E n \in EventIds : n < e /\ IsNextDeliverable(n, t) /\ Blocks(n, t)
  /\ rpc' = [RpcIdle EXCEPT !.step = "mark", !.term = t, !.event = e,
                            !.served = {EventWorkspace(row[e])}]
  /\ UNCHANGED <<clock, tables, herdr, ix, rec>>

\* Mutant: the sweep has no upper bound.
SweptWhole == LET w == Home[rpc.term] IN
  IF w \notin rpc.served THEN {rpc.event}
  ELSE {e \in EventIds : EventWorkspace(row[e]) = w}
\* MarkAcked: the row alone when it was read in a sibling workspace, else every
\* row of the workspace up to it.
Swept == LET w == Home[rpc.term] IN
  IF w \notin rpc.served THEN {rpc.event}
  ELSE {e \in EventIds : e <= rpc.event /\ EventWorkspace(row[e]) = w}

AckMark ==
  LET acked(r) == IF Open(r) \/ Retained(r)
                  THEN [r EXCEPT !.status = "acked", !.deliverable = FALSE]
                  ELSE r
  IN  /\ rpc.step = "mark"
      /\ row' = [e \in EventIds |-> IF e \in Swept THEN acked(row[e]) ELSE row[e]]
      /\ rpc' = IF Home[rpc.term] \in rpc.served
                THEN [rpc EXCEPT !.step = "advance"] ELSE RpcIdle
      /\ UNCHANGED <<clock, lastId, agents, scope, herdr, ix, rec>>

\* scopes.Ack fails, leaving the cursor, when the ownership is gone by now.
AckAdvance ==
  LET w == Home[rpc.term]
  IN  /\ rpc.step = "advance"
      /\ scope' = IF scope[w].owner # rpc.term THEN scope
                  ELSE [scope EXCEPT ![w].cursor = IF @ < rpc.event THEN rpc.event ELSE @,
                                     ![w].updated = clock]
      /\ rpc' = RpcIdle
      /\ UNCHANGED <<clock, lastId, row, agents, herdr, ix, rec>>

----------------------------------------------------------------------------
(* Reconciler *)

RecSnapshot ==
  /\ rec.step = "idle"
  /\ rec' = [RecIdle EXCEPT !.step = "list",
               !.snap = [p \in Panes |-> IF p \in live THEN opened[p] ELSE 0]]
  /\ UNCHANGED <<clock, tables, herdr, rpc, ix>>

\* paneMatchesEvent: a generation missing on either side contradicts nothing.
SnapshotMatches(r) ==
  /\ rec.snap[r.pane] # 0
  /\ LET own == RowGen(r.pane, r.inc)
         seen == RowGen(r.pane, rec.snap[r.pane])
     IN  own = 0 \/ seen = 0 \/ own = seen

RetainableFailure(r) == r.type = "failed" /\ r.deliverable /\ r.attempts = 0

Verdict(r) ==
  IF SnapshotMatches(r) THEN "keep"
  ELSE IF RetainableFailure(r) THEN "retain"
  ELSE IF rec.snap[r.pane] = 0 /\ r.deliverable /\ r.type = "outcome" THEN "fresh"
  ELSE "delete"

\* ListReconcileCandidates reads a batch; every later step works from the rows
\* as they were read here.
RecList ==
  LET ids == {e \in EventIds : e > rec.cursor /\ Open(row[e])}
  IN  /\ rec.step = "list"
      /\ \/ rec' = [rec EXCEPT !.step = "expire"]   \* no rows left, or stopping
         \/ \E last \in ids :
              /\ \A e \in ids : e <= last
              /\ rec' = [rec EXCEPT !.step = "walk", !.cursor = last,
                            !.todo = {<<e, Verdict(row[e])>> : e \in ids}]
      /\ UNCHANGED <<clock, tables, herdr, rpc, ix>>

\* Mutant: the writes do not test the status again.
VerdictUnguarded(e, verdict) ==
  LET r == row[e]
      keep == verdict = "retain" \/ (verdict = "fresh" /\ Fresh(r.made))
  IN  IF verdict = "keep" THEN r
      ELSE IF keep THEN RetainedRow(r) ELSE NoRow
VerdictOn(e, verdict) ==
  LET r == row[e]
      keep == verdict = "retain" \/ (verdict = "fresh" /\ Fresh(r.made))
  IN  IF verdict = "keep" \/ ~Open(r) THEN r
      ELSE IF keep THEN RetainedRow(r) ELSE NoRow

RecApply(e, verdict) ==
  /\ rec.step = "walk"
  /\ <<e, verdict>> \in rec.todo
  /\ \A job \in rec.todo : e <= job[1]
  /\ row' = [row EXCEPT ![e] = VerdictOn(e, verdict)]
  /\ rec' = [rec EXCEPT !.todo = @ \ {<<e, verdict>>},
               !.step = IF rec.todo = {<<e, verdict>>} THEN "list" ELSE @]
  /\ UNCHANGED <<clock, lastId, agents, scope, herdr, rpc, ix>>

\* DeleteInvalidatedOlderThan and DeleteSettledOlderThan.
Expired(r) ==
  \/ /\ r.status = "invalidated" /\ ~r.deliverable
     /\ r.tried < clock - GraceAge
  \/ /\ r.status \in {"acked", "failed"} \/ Retained(r)
     /\ r.made < clock - SettledAge

RecExpire ==
  /\ rec.step = "expire"
  /\ row' = [e \in EventIds |-> IF Expired(row[e]) THEN NoRow ELSE row[e]]
  /\ rec' = [rec EXCEPT !.step = "purge"]
  /\ UNCHANGED <<clock, lastId, agents, scope, herdr, rpc, ix>>

\* PurgeReleasedOlderThan, then the read of the owned scopes.
RecPurge ==
  LET owned == {own \in Workspaces \X Owners : scope[own[1]].owner = own[2]}
  IN  /\ rec.step = "purge"
      /\ scope' = [w \in Workspaces |->
                     IF /\ scope[w].owner = None
                        /\ scope[w].updated < clock - ScopeAge
                     THEN NoScope ELSE scope[w]]
      /\ rec' = IF owned = {} THEN RecIdle
                ELSE [RecIdle EXCEPT !.step = "self", !.owned = owned]
      /\ UNCHANGED <<clock, lastId, row, agents, herdr, rpc, ix>>

\* AckSelfOwned: an owner's own events need no delivery.
RecSelfAck(w, t) ==
  /\ rec.step = "self"
  /\ <<w, t>> \in rec.owned
  /\ row' = [e \in EventIds |->
               IF row[e].pane = t /\ EventWorkspace(row[e]) = w /\ Open(row[e])
               THEN [row[e] EXCEPT !.status = "acked", !.deliverable = FALSE]
               ELSE row[e]]
  /\ rec' = IF rec.owned = {<<w, t>>} THEN RecIdle
            ELSE [rec EXCEPT !.owned = @ \ {<<w, t>>}]
  /\ UNCHANGED <<clock, lastId, agents, scope, herdr, rpc, ix>>

----------------------------------------------------------------------------
\* The daemon dies and restarts: what it was doing and the queued pane.closed
\* events are gone, the tables stay.
Crash ==
  /\ <<rpc, ix, rec, closing>> # <<RpcIdle, IxIdle, RecIdle, {}>>
  /\ rpc' = RpcIdle /\ ix' = IxIdle /\ rec' = RecIdle /\ closing' = {}
  /\ UNCHANGED <<clock, tables, opened, live>>

Index ==
  \/ \E p \in Authors, i \in Incarnations, type \in EventTypes : Append(p, i, type)
  \/ \E p \in Panes, i \in Incarnations : CloseInvalidate(p, i)
  \/ CloseRetire \/ CloseRelease \/ Refresh

Handlers ==
  \/ \E t \in Owners : Get(t) \/ Claim(t) \/ TurnOff(t) \/ PresenceLost(t)
  \/ \E t \in Owners, e \in EventIds : Ack(t, e)
  \/ \E connected \in BOOLEAN : ClaimWrite(connected)
  \/ Reclaim \/ Select \/ Reserve \/ AckMark \/ AckAdvance

Reconciler ==
  \/ RecSnapshot \/ RecList \/ RecExpire \/ RecPurge
  \/ \E e \in EventIds, verdict \in Verdicts : RecApply(e, verdict)
  \/ \E w \in Workspaces, t \in Owners : RecSelfAck(w, t)

Environment == Tick \/ Crash \/ \E p \in Panes : PaneCloses(p) \/ PaneOpens(p)

Next == Index \/ Handlers \/ Reconciler \/ Environment

Spec == Init /\ [][Next]_vars

----------------------------------------------------------------------------
(* Properties *)

\* Every variable stays in its domain.
TypeOK ==
  /\ clock \in 0..MaxClock /\ lastId \in 0..MaxEvents
  /\ row \in [EventIds -> Row]
  /\ agents \in [Panes -> Incarnations]
  /\ scope \in [Workspaces -> Scope]
  /\ opened \in [Panes -> 1..MaxIncarnations]
  /\ live \in SUBSET Panes
  /\ closing \in SUBSET (Panes \X Incarnations)
  /\ rpc \in Rpc /\ ix \in Ix /\ rec \in Rec

\* What the columns of a row say together: a row in flight names the terminal
\* it was handed to and counts the hand-over, a settled row is never offered
\* again by its deliverable flag, and an agent_id names an existing agents row
\* of the same incarnation.
RowCoherent(r) ==
  /\ r.status = "pending" => r.deliverable /\ r.to = None
  /\ r.status = "delivered" => r.deliverable /\ r.to \in Owners
  /\ r.status \in {"acked", "failed"} => ~r.deliverable
  /\ r.to # None => r.attempts >= 1
  /\ ~r.orphan => r.inc # 0 /\ agents[r.pane] = r.inc
RowsCoherent == \A e \in EventIds : RowCoherent(row[e])

\* An acknowledgement or an exhausted delivery is final: whatever the handlers,
\* the index service and the reconciler had read before, none of them brings
\* the row back; it can only be deleted (the status guards of the writes at
\* MarkRetainedInvalidated, DeleteReconcileCandidate, invalidatePaneCore).
AckIsFinal ==
  [][\A e \in EventIds :
       row[e].status \in {"acked", "failed"} =>
         row'[e] = NoRow \/ row'[e].status = row[e].status]_vars

\* An event in flight with a terminal that owns a scope is neither reclaimed
\* nor handed to another terminal (branch (c) of ReclaimDelivered and the
\* status guard of ReservePending).
InFlightStaysWithOwner ==
  [][\A e \in EventIds :
       row[e].status = "delivered" /\ Owns(row[e].to) =>
         /\ row'[e].status \notin {"pending", "failed"}
         /\ row'[e].status = "delivered" => row'[e].to = row[e].to]_vars

\* Only a purge makes a workspace forget its cursor: a claim, an ack or a
\* release never moves it back, although a claim writes a cursor it read in an
\* earlier transaction.
CursorNeverRetreats ==
  [][\A w \in Workspaces :
       scope[w].exists /\ scope'[w].exists => scope'[w].cursor >= scope[w].cursor]_vars

\* When an owner acknowledges an event it was given, the id <= cursor sweep
\* swallows no waiting event that it could still have been given and that nobody
\* has ever been given: a hand-over takes all that wait below it, whatever was
\* appended, closed, orphaned, released or purged between its two transactions
\* and before the ack.  (A failure that a close has settled and a later close
\* retains again comes back behind the hand-over, and may be swept.)
AckSparesUnseen ==
  [][\A e \in EventIds :
       LET t == rpc.term IN
       /\ rpc.step = "mark" /\ rpc' # rpc
       /\ row[rpc.event].to = t /\ scope[Home[t]].exists
       /\ e # rpc.event /\ row[e].status = "pending" /\ row'[e].status = "acked"
       => row[e].attempts > 0 \/ e \notin DeliverableAfter(t, {Home[t]})]_vars

\* An acknowledgement settles only events of the owner's workspace or of a
\* workspace nobody owns.
AckStaysInReach ==
  [][\A e \in EventIds :
       /\ rpc.step = "mark" /\ rpc' # rpc
       /\ row[e].status # "acked" /\ row'[e].status = "acked"
       => scope[EventWorkspace(row[e])].owner \in {None, rpc.term}]_vars

\* A failure nobody has been told of survives pane close, refresh and the
\* reconciler, whatever they read before: it stays pending or retained.  The
\* exceptions are named by the code: an owner's own event, an explicit close
\* that settles a pane which had a delivery, the 7 day limit, and an ack sweep.
Unseen(r) == (Open(r) \/ Retained(r)) /\ r.attempts = 0
HadDelivery(p) == \E e \in EventIds : row[e].pane = p /\ Open(row[e]) /\ row[e].attempts > 0
UnseenFailureSurvives ==
  [][\A e \in EventIds :
       LET r == row[e] IN
       /\ r.type = "failed" /\ Unseen(r)
       /\ r.pane \notin Owners /\ rpc.step # "mark"
       /\ r.made >= clock - SettledAge
       /\ ix' = ix \/ ~HadDelivery(r.pane)
       => Unseen(row'[e]) \/ row'[e].attempts > 0]_vars

(* Liveness.  A handler that has begun finishes, and so does the index service;
   every owner's client keeps asking (it calls get on each pushed frame, on
   reconnect and on its own timer) and keeps acknowledging what it was given. *)
Fairness ==
  /\ WF_vars(\E connected \in BOOLEAN : ClaimWrite(connected))
  /\ WF_vars(Reclaim \/ Select \/ Reserve)
  /\ WF_vars(AckMark \/ AckAdvance)
  /\ WF_vars(CloseRetire \/ CloseRelease)
  /\ \A t \in Owners : SF_vars(Get(t))
  /\ \A t \in Owners, e \in EventIds : SF_vars(row[e].to = t /\ Ack(t, e))

\* An outcome or failure that waits above the owner's cursor is handed over, or
\* stops waiting because its pane's close or the loss of the owner settles it.
Awaits(e, t) ==
  /\ row[e].status = "pending" /\ row[e].type \in {"outcome", "failed"}
  /\ row[e].pane # t /\ EventWorkspace(row[e]) = Home[t]
  /\ scope[Home[t]].owner = t /\ e > scope[Home[t]].cursor
EventuallyHandedOver ==
  \A e \in EventIds, t \in Owners : Awaits(e, t) ~> ~Awaits(e, t)

\* What an owner was given it can always acknowledge: no order of closes,
\* retained rows and partial acknowledgements blocks its cursor for ever, and
\* an event the close has acknowledged for it still advances the cursor.
Owed(e, t) ==
  /\ row[e].to = t /\ row[e].status # "none"
  /\ EventWorkspace(row[e]) = Home[t]
  /\ scope[Home[t]].owner = t /\ e > scope[Home[t]].cursor
CursorCatchesUp ==
  \A e \in EventIds, t \in Owners : Owed(e, t) ~> ~Owed(e, t)

============================================================================
