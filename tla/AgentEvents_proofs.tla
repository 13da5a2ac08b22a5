------------------------- MODULE AgentEvents_proofs -------------------------
(* Machine-checked proofs about AgentEvents, for every set of workspaces, panes
   and owners, every bound and every age limit.

   The invariants are proved in layers, each using the ones before it:
   types, then what the columns of a row say together, then what the
   activities remember between their transactions, then that a hand-over
   skips nothing (SweepSparesUnseen). *)
EXTENDS AgentEvents, TLAPS

\* A handler at work has the terminal of its connection.
HandlerHasTerminal == rpc.step # "idle" => rpc.term \in Owners

Typed == TypeOK /\ HandlerHasTerminal

----------------------------------------------------------------------------
(* Row transformations keep rows typed *)

\* There is a pane for the missing row to name.
LEMMA NoRowTyped == NoRow \in Row
<1>1. (CHOOSE p \in Panes : TRUE) \in Panes
  BY PaneAssumption
<1> QED
  BY <1>1, BoundAssumption DEF NoRow, Row, Statuses, AllTypes, Incarnations, Reasons

\* What pane.closed writes into a row is a row.
LEMMA ClosedTyped ==
  ASSUME NEW r \in Row, NEW p \in Panes, NEW g \in Incarnations,
         NEW settle \in BOOLEAN, NEW consumed \in BOOLEAN
  PROVE  ClosedRow(r, p, g, settle, consumed) \in Row
<1> DEFINE s == IF settle /\ DeliveredOnce(r, p, g) THEN SettledRow(r)
                ELSE IF r.pane = p /\ Open(r) /\ GenMatches(r, g)
                THEN InvalidatedRow(r, g) ELSE r
<1>1. SettledRow(r) \in Row
  BY DEF SettledRow, Row, Statuses, Reasons
<1>2. InvalidatedRow(r, g) \in Row
  BY DEF InvalidatedRow, CloseReason, Row, Statuses, Reasons
<1>3. s \in Row
  BY <1>1, <1>2
<1> HIDE DEF s
<1>4. RetainedRow(s) \in Row
  BY <1>3 DEF RetainedRow, Row, Statuses, Reasons
<1>5. ClosedRow(r, p, g, settle, consumed) \in {s, RetainedRow(s)}
  BY DEF ClosedRow, s
<1> QED
  BY <1>3, <1>4, <1>5

\* What a pending read writes into a row is a row.
LEMMA ReclaimedTyped ==
  ASSUME TypeOK, NEW r \in Row
  PROVE  ReclaimedRow(r) \in Row
BY DEF ReclaimedRow, Reopened, Row, Statuses, Reasons

\* A hand-over to a terminal gives a row.
LEMMA ReservedTyped ==
  ASSUME TypeOK, NEW r \in Row, NEW t \in Owners
  PROVE  ReservedRow(r, t) \in Row
<1>1. /\ r.attempts \in 0..MaxAttempts /\ clock \in 0..MaxClock
      /\ "delivered" \in Statuses
  BY DEF TypeOK, Row, Statuses
<1>2. (IF r.attempts < MaxAttempts THEN r.attempts + 1 ELSE r.attempts) \in 0..MaxAttempts
  BY <1>1, BoundAssumption
<1> QED
  BY <1>1, <1>2 DEF ReservedRow, Row

\* What the reconciler writes is a row or nothing.
LEMMA VerdictTyped ==
  ASSUME TypeOK, NEW e \in EventIds, NEW verdict \in Verdicts
  PROVE  VerdictOn(e, verdict) \in Row
<1>1. row[e] \in Row
  BY DEF TypeOK
<1>2. RetainedRow(row[e]) \in Row
  BY <1>1 DEF RetainedRow, Row, Statuses, Reasons
<1> QED
  BY <1>1, <1>2, NoRowTyped DEF VerdictOn

\* The generation of a pane incarnation is one of them, or absent.
LEMMA GenTyped ==
  ASSUME NEW p \in Panes, NEW i \in Incarnations
  PROVE  CloseGen(p, i) \in Incarnations /\ RowGen(p, i) \in Incarnations
BY BoundAssumption DEF CloseGen, RowGen, Incarnations

\* A terminal is served workspaces.
LEMMA ServedTyped ==
  ASSUME NEW t \in Owners
  PROVE  Home[t] \in Workspaces /\ Served(t) \subseteq Workspaces
BY PaneAssumption DEF Served, Siblings, Neighbours

----------------------------------------------------------------------------
(* Types *)

\* The initial tables and positions have their types.
LEMMA TypeInit == Init => Typed
<1> SUFFICES ASSUME Init PROVE Typed
  OBVIOUS
<1>1. row \in [EventIds -> Row] /\ lastId \in 0..MaxEvents /\ clock \in 0..MaxClock
  BY NoRowTyped, BoundAssumption DEF Init
<1>2. /\ agents \in [Panes -> Incarnations] /\ opened \in [Panes -> 1..MaxIncarnations]
      /\ live \in SUBSET Panes /\ closing \in SUBSET (Panes \X Incarnations)
  BY BoundAssumption DEF Init, Incarnations
<1>3. scope \in [Workspaces -> Scope]
  BY BoundAssumption DEF Init, Scope, NoScope
<1>4. rpc \in Rpc /\ HandlerHasTerminal
  BY BoundAssumption DEF Init, Rpc, RpcIdle, RpcSteps, HandlerHasTerminal
<1>5. ix \in Ix
  <2>1. (CHOOSE p \in Panes : TRUE) \in Panes
    BY PaneAssumption
  <2> QED
    BY <2>1, BoundAssumption DEF Init, Ix, IxIdle, Incarnations
<1>6. rec \in Rec
  BY BoundAssumption DEF Init, Rec, RecIdle, Incarnations
<1> QED
  BY <1>1, <1>2, <1>3, <1>4, <1>5, <1>6 DEF Typed, TypeOK

\* The initial position of each activity is one of its positions.
LEMMA IdleTyped == RpcIdle \in Rpc /\ IxIdle \in Ix /\ RecIdle \in Rec
<1>1. (CHOOSE p \in Panes : TRUE) \in Panes
  BY PaneAssumption
<1>2. RpcIdle \in Rpc
  BY BoundAssumption DEF Rpc, RpcIdle, RpcSteps
<1>3. IxIdle \in Ix
  BY <1>1, BoundAssumption DEF Ix, IxIdle, Incarnations
<1>4. RecIdle \in Rec
  BY BoundAssumption DEF Rec, RecIdle, Incarnations
<1> QED
  BY <1>2, <1>3, <1>4

\* The index service and Herdr.
LEMMA TypeIndex ==
  ASSUME Typed, Index \/ Environment
  PROVE  Typed'
<1> USE DEF Typed, TypeOK, tables, herdr
<1>1. CASE Tick
  BY <1>1, BoundAssumption DEF Tick, HandlerHasTerminal
<1>2. ASSUME NEW p \in Panes, PaneCloses(p)
      PROVE  Typed'
  <2>1. <<p, opened[p]>> \in Panes \X Incarnations
    BY BoundAssumption DEF Incarnations
  <2> QED
    BY <1>2, <2>1 DEF PaneCloses, HandlerHasTerminal
<1>3. ASSUME NEW p \in Panes, PaneOpens(p)
      PROVE  Typed'
  BY <1>3, BoundAssumption DEF PaneOpens, HandlerHasTerminal
<1>4. CASE Crash
  BY <1>4, IdleTyped DEF Crash, HandlerHasTerminal, RpcIdle
<1>5. ASSUME NEW p \in Authors, NEW i \in Incarnations, NEW type \in EventTypes,
             Append(p, i, type)
      PROVE  Typed'
  <2> DEFINE r == [status |-> "pending", deliverable |-> TRUE, type |-> type,
                   pane |-> p, inc |-> i, orphan |-> agents[p] # i,
                   attempts |-> 0, to |-> None, made |-> clock, tried |-> clock,
                   reason |-> "none"]
  <2>1. r \in Row
    <3>1. (agents[p] # i) \in BOOLEAN
      OBVIOUS
    <3> QED
      BY <3>1, PaneAssumption, BoundAssumption DEF Row, Statuses, Reasons
  <2>2. row' = [row EXCEPT ![lastId + 1] = r] /\ lastId' = lastId + 1 /\ lastId < MaxEvents
        /\ UNCHANGED <<clock, agents, scope, opened, live, closing, rpc, ix, rec>>
    BY <1>5 DEF Append
  <2> HIDE DEF r
  <2>3. row' \in [EventIds -> Row] /\ lastId' \in 0..MaxEvents
    BY <2>1, <2>2, BoundAssumption DEF EventIds
  <2> QED
    BY <2>2, <2>3 DEF HandlerHasTerminal
<1>6. ASSUME NEW p \in Panes, NEW i \in Incarnations, CloseInvalidate(p, i)
      PROVE  Typed'
  <2> DEFINE g == CloseGen(p, i)
             consumed == \E e \in EventIds : DeliveredOnce(row[e], p, g)
  <2>1. g \in Incarnations
    BY GenTyped
  <2>2. \A e \in EventIds : ClosedRow(row[e], p, g, TRUE, consumed) \in Row
    <3>1. consumed \in BOOLEAN
      OBVIOUS
    <3> HIDE DEF g, consumed
    <3> QED
      BY <2>1, <3>1, ClosedTyped
  <2>3. /\ row' = [e \in EventIds |-> ClosedRow(row[e], p, g, TRUE, consumed)]
        /\ closing' = closing \ {<<p, i>>}
        /\ ix' = [step |-> "retire", pane |-> p, gen |-> g]
        /\ UNCHANGED <<clock, lastId, agents, scope, opened, live, rpc, rec>>
    BY <1>6 DEF CloseInvalidate
  <2> HIDE DEF g, consumed
  <2>4. row' \in [EventIds -> Row]
    BY <2>2, <2>3
  <2> QED
    BY <2>1, <2>3, <2>4 DEF HandlerHasTerminal, Ix
<1>7. CASE CloseRetire
  <2>1. row' \in [EventIds -> Row]
    <3>1. \A r \in Row : [r EXCEPT !.orphan = TRUE] \in Row
      BY DEF Row
    <3>2. OrphanedBy({ix.pane}) \in [EventIds -> Row]
      BY <3>1 DEF OrphanedBy
    <3>3. row' = row \/ row' = OrphanedBy({ix.pane})
      BY <1>7 DEF CloseRetire
    <3> QED
      BY <3>2, <3>3
  <2>2. ix' \in Ix
    BY <1>7, IdleTyped DEF CloseRetire, Ix
  <2>3. agents' \in [Panes -> Incarnations]
    <3>1. agents' = agents \/ agents' = [agents EXCEPT ![ix.pane] = 0]
      BY <1>7 DEF CloseRetire
    <3> QED
      BY <3>1, BoundAssumption DEF Incarnations
  <2> QED
    BY <1>7, <2>1, <2>2, <2>3 DEF CloseRetire, HandlerHasTerminal
<1>8. CASE CloseRelease
  <2>1. \A w \in Workspaces : Released(w) \in Scope
    BY DEF Released, Scope
  <2>2. scope' \in [Workspaces -> Scope]
    BY <1>8, <2>1 DEF CloseRelease
  <2> QED
    BY <1>8, <2>2, IdleTyped DEF CloseRelease, HandlerHasTerminal
<1>9. CASE Refresh
  <2> DEFINE closed(r) == ClosedRow(r, r.pane, RowGen(r.pane, agents[r.pane]), FALSE, FALSE)
  <2>1. \A r \in Row : closed(r) \in Row
    <3> SUFFICES ASSUME NEW r \in Row PROVE closed(r) \in Row
      OBVIOUS
    <3>1. r.pane \in Panes /\ agents[r.pane] \in Incarnations
      BY DEF Row
    <3> QED
      BY <3>1, GenTyped, ClosedTyped
  <2>2. \A r \in Row : [closed(r) EXCEPT !.orphan = TRUE] \in Row
    <3> HIDE DEF closed
    <3> QED
      BY <2>1 DEF Row
  <2> DEFINE removed == {p \in Panes : agents[p] # 0 /\ (p \notin live \/ agents[p] # opened[p])}
  <2>3. /\ row' = [e \in EventIds |-> IF row[e].pane \in removed
                                      THEN [closed(row[e]) EXCEPT !.orphan = TRUE]
                                      ELSE row[e]]
        /\ agents' = [p \in Panes |-> IF p \in live THEN opened[p] ELSE 0]
        /\ UNCHANGED <<clock, lastId, scope, opened, live, closing, rpc, ix, rec>>
    BY <1>9 DEF Refresh
  <2> HIDE DEF closed, removed
  <2>4. row' \in [EventIds -> Row]
    BY <2>2, <2>3
  <2>5. agents' \in [Panes -> Incarnations]
    BY <2>3, BoundAssumption DEF Incarnations
  <2> QED
    BY <2>3, <2>4, <2>5 DEF HandlerHasTerminal
<1> QED
  BY <1>1, <1>2, <1>3, <1>4, <1>5, <1>6, <1>7, <1>8, <1>9 DEF Index, Environment

\* The RPC handlers.
LEMMA TypeHandlers ==
  ASSUME Typed, Handlers
  PROVE  Typed'
<1> USE DEF Typed, TypeOK, tables, herdr
<1>0. ASSUME NEW t \in Owners, NEW isOwner \in BOOLEAN
      PROVE  /\ ConnectionState(t, isOwner) \in Rpc
             /\ ConnectionState(t, isOwner).term = t
  <2>1. (IF isOwner THEN Served(t) ELSE {Home[t]}) \in SUBSET Workspaces
    BY ServedTyped
  <2> HIDE DEF Served
  <2> QED
    BY <2>1, IdleTyped DEF ConnectionState, Rpc, RpcSteps
<1>1. \A w \in Workspaces : Released(w) \in Scope
  BY DEF Released, Scope
<1>2. ASSUME NEW t \in Owners, Get(t)
      PROVE  Typed'
  <2>1. rpc' \in Rpc /\ rpc'.term = t
    BY <1>0, <1>2 DEF Get
  <2> QED
    BY <1>2, <2>1 DEF Get, HandlerHasTerminal
<1>3. ASSUME NEW t \in Owners, Claim(t)
      PROVE  Typed'
  <2>1. rpc' \in Rpc /\ rpc'.term = t
    <3>1. PICK c \in 0..MaxEvents :
            rpc' = [RpcIdle EXCEPT !.step = "claim", !.term = t, !.cursor = c]
      BY <1>3 DEF Claim
    <3>2. QED
      BY <3>1, IdleTyped DEF Rpc, RpcSteps
  <2> QED
    BY <1>3, <2>1 DEF Claim, HandlerHasTerminal
<1>4. ASSUME NEW t \in Owners, TurnOff(t)
      PROVE  Typed'
  <2>1. rpc' \in Rpc /\ rpc'.term = t
    BY <1>0, <1>4 DEF TurnOff
  <2>2. scope' \in [Workspaces -> Scope]
    BY <1>1, <1>4 DEF TurnOff
  <2> QED
    BY <1>4, <2>1, <2>2 DEF TurnOff, HandlerHasTerminal
<1>5. ASSUME NEW t \in Owners, PresenceLost(t)
      PROVE  Typed'
  BY <1>1, <1>5 DEF PresenceLost, HandlerHasTerminal
<1>6. ASSUME NEW t \in Owners, NEW e \in EventIds, Ack(t, e)
      PROVE  Typed'
  <2>1. EventWorkspace(row[e]) \in Workspaces
    BY PaneAssumption DEF EventWorkspace, Row
  <2>2. rpc' = [RpcIdle EXCEPT !.step = "mark", !.term = t, !.event = e,
                               !.served = {EventWorkspace(row[e])}]
        /\ UNCHANGED <<clock, tables, herdr, ix, rec>>
    BY <1>6 DEF Ack
  <2>3. rpc' \in Rpc /\ rpc'.term = t
    <3>1. {EventWorkspace(row[e])} \in SUBSET Workspaces /\ e \in 0..MaxEvents
      BY <2>1, BoundAssumption DEF EventIds
    <3> HIDE DEF EventWorkspace
    <3> QED
      BY <2>2, <3>1, IdleTyped DEF Rpc, RpcSteps
  <2> QED
    BY <2>2, <2>3 DEF HandlerHasTerminal
<1>7. ASSUME NEW connected \in BOOLEAN, ClaimWrite(connected)
      PROVE  Typed'
  <2>1. rpc.term \in Owners /\ rpc.cursor \in 0..MaxEvents
    BY <1>7 DEF ClaimWrite, HandlerHasTerminal, Rpc
  <2>2. rpc' \in Rpc /\ HandlerHasTerminal'
    <3>1. rpc' \in {RpcIdle, ConnectionState(rpc.term, TRUE)}
      BY <1>7 DEF ClaimWrite
    <3>2. RpcIdle.step = "idle"
      BY DEF RpcIdle
    <3> QED
      BY <1>0, <2>1, <3>1, <3>2, IdleTyped DEF HandlerHasTerminal
  <2>3. scope' \in [Workspaces -> Scope]
    BY <1>7, <2>1 DEF ClaimWrite, Scope
  <2> QED
    BY <1>7, <2>2, <2>3 DEF ClaimWrite
<1>8. CASE Reclaim
  <2>1. \A r \in Row : ReclaimedRow(r) \in Row
    BY ReclaimedTyped
  <2>2. row' \in [EventIds -> Row]
    BY <1>8, <2>1 DEF Reclaim
  <2> QED
    BY <1>8, <2>2 DEF Reclaim, HandlerHasTerminal, Rpc, RpcSteps
<1>9. CASE Select
  <2>1. DeliverableAfter(rpc.term, rpc.served) \in SUBSET EventIds
    BY DEF DeliverableAfter
  <2>2. rpc' \in Rpc /\ HandlerHasTerminal'
    <3>1. rpc' = RpcIdle
          \/ rpc' = [rpc EXCEPT !.step = "reserve",
                                !.picked = DeliverableAfter(rpc.term, rpc.served)]
      BY <1>9 DEF Select
    <3>2. rpc.term \in Owners
      BY <1>9 DEF Select, HandlerHasTerminal
    <3>3. RpcIdle.step = "idle"
      BY DEF RpcIdle
    <3> HIDE DEF DeliverableAfter
    <3> QED
      BY <2>1, <3>1, <3>2, <3>3, IdleTyped DEF HandlerHasTerminal, Rpc, RpcSteps
  <2> QED
    BY <1>9, <2>2 DEF Select
<1>10. CASE Reserve
  <2>1. rpc.term \in Owners
    BY <1>10 DEF Reserve, HandlerHasTerminal
  <2>2. \A r \in Row : ReservedRow(r, rpc.term) \in Row
    BY <2>1, ReservedTyped
  <2>3. row' \in [EventIds -> Row]
    BY <1>10, <2>2 DEF Reserve
  <2>4. RpcIdle.step = "idle"
    BY DEF RpcIdle
  <2> QED
    BY <1>10, <2>3, <2>4, IdleTyped DEF Reserve, HandlerHasTerminal
<1>11. CASE AckMark
  <2>1. \A r \in Row : [r EXCEPT !.status = "acked", !.deliverable = FALSE] \in Row
    BY DEF Row, Statuses
  <2>2. row' \in [EventIds -> Row]
    BY <1>11, <2>1 DEF AckMark
  <2>3. RpcIdle.step = "idle"
    BY DEF RpcIdle
  <2> QED
    BY <1>11, <2>2, <2>3, IdleTyped DEF AckMark, HandlerHasTerminal, Rpc, RpcSteps
<1>12. CASE AckAdvance
  <2>1. scope' \in [Workspaces -> Scope]
    <3>1. rpc.event \in 0..MaxEvents
      BY DEF Rpc
    <3>2. \A s \in Scope : [s EXCEPT !.cursor = IF @ < rpc.event THEN rpc.event ELSE @,
                                    !.updated = clock] \in Scope
      BY <3>1 DEF Scope
    <3>3. \A w \in Workspaces :
            [scope EXCEPT ![w].cursor = IF @ < rpc.event THEN rpc.event ELSE @,
                          ![w].updated = clock] \in [Workspaces -> Scope]
      <4> SUFFICES ASSUME NEW w \in Workspaces
                   PROVE  [scope EXCEPT ![w].cursor = IF @ < rpc.event THEN rpc.event ELSE @,
                                        ![w].updated = clock] \in [Workspaces -> Scope]
        OBVIOUS
      <4> DEFINE s == [scope[w] EXCEPT !.cursor = IF @ < rpc.event THEN rpc.event ELSE @,
                                       !.updated = clock]
      <4>1. s \in Scope
        BY <3>2
      <4>2. [scope EXCEPT ![w].cursor = IF @ < rpc.event THEN rpc.event ELSE @,
                          ![w].updated = clock] = [scope EXCEPT ![w] = s]
        OBVIOUS
      <4> HIDE DEF s
      <4>3. [scope EXCEPT ![w] = s] \in [Workspaces -> Scope]
        BY <4>1
      <4> QED
        BY <4>2, <4>3
    <3> QED
      BY <1>12, <3>3 DEF AckAdvance
  <2>2. RpcIdle.step = "idle"
    BY DEF RpcIdle
  <2> QED
    BY <1>12, <2>1, <2>2, IdleTyped DEF AckAdvance, HandlerHasTerminal
<1> QED
  BY <1>2, <1>3, <1>4, <1>5, <1>6, <1>7, <1>8, <1>9, <1>10, <1>11, <1>12 DEF Handlers

\* The reconciler.
LEMMA TypeReconciler ==
  ASSUME Typed, Reconciler
  PROVE  Typed'
<1> USE DEF Typed, TypeOK, tables, herdr
<1>1. CASE RecSnapshot
  <2>1. [p \in Panes |-> IF p \in live THEN opened[p] ELSE 0] \in [Panes -> Incarnations]
    BY BoundAssumption DEF Incarnations
  <2> QED
    BY <1>1, <2>1, IdleTyped DEF RecSnapshot, HandlerHasTerminal, Rec
<1>2. CASE RecList
  <2>1. \A r : Verdict(r) \in Verdicts
    BY DEF Verdict, Verdicts
  <2>2. rec' \in Rec
    <3>1. CASE rec' = [rec EXCEPT !.step = "expire"]
      BY <3>1 DEF Rec
    <3>2. CASE rec' # [rec EXCEPT !.step = "expire"]
      <4> DEFINE ids == {e \in EventIds : e > rec.cursor /\ Open(row[e])}
      <4>1. PICK last \in ids :
              rec' = [rec EXCEPT !.step = "walk", !.cursor = last,
                        !.todo = {<<e, Verdict(row[e])>> : e \in ids}]
        BY <1>2, <3>2 DEF RecList
      <4>2. {<<e, Verdict(row[e])>> : e \in ids} \in SUBSET (EventIds \X Verdicts)
        BY <2>1
      <4>3. last \in 0..MaxEvents
        BY DEF EventIds
      <4> HIDE DEF ids
      <4> QED
        BY <4>1, <4>2, <4>3 DEF Rec
    <3> QED
      BY <3>1, <3>2
  <2> QED
    BY <1>2, <2>2 DEF RecList, HandlerHasTerminal
<1>3. CASE RecExpire
  BY <1>3, NoRowTyped DEF RecExpire, HandlerHasTerminal, Rec
<1>4. CASE RecPurge
  <2>1. NoScope \in Scope
    BY BoundAssumption DEF NoScope, Scope
  <2>2. scope' \in [Workspaces -> Scope]
    BY <1>4, <2>1 DEF RecPurge
  <2>3. {own \in Workspaces \X Owners : scope[own[1]].owner = own[2]}
          \in SUBSET (Workspaces \X Owners)
    OBVIOUS
  <2>4. rec' \in Rec
    <3> DEFINE owned == {own \in Workspaces \X Owners : scope[own[1]].owner = own[2]}
    <3>1. rec' = RecIdle \/ rec' = [RecIdle EXCEPT !.step = "self", !.owned = owned]
      BY <1>4 DEF RecPurge
    <3> HIDE DEF owned
    <3>2. owned \in SUBSET (Workspaces \X Owners)
      BY <2>3 DEF owned
    <3> QED
      BY <3>1, <3>2, IdleTyped DEF Rec
  <2> QED
    BY <1>4, <2>2, <2>4 DEF RecPurge, HandlerHasTerminal
<1>5. ASSUME NEW e \in EventIds, NEW verdict \in Verdicts, RecApply(e, verdict)
      PROVE  Typed'
  <2>1. row' \in [EventIds -> Row]
    <3>1. VerdictOn(e, verdict) \in Row
      BY VerdictTyped
    <3> QED
      BY <1>5, <3>1 DEF RecApply
  <2>2. rec' \in Rec
    BY <1>5 DEF RecApply, Rec
  <2> QED
    BY <1>5, <2>1, <2>2 DEF RecApply, HandlerHasTerminal
<1>6. ASSUME NEW w \in Workspaces, NEW t \in Owners, RecSelfAck(w, t)
      PROVE  Typed'
  <2>1. \A r \in Row : [r EXCEPT !.status = "acked", !.deliverable = FALSE] \in Row
    BY DEF Row, Statuses
  <2>2. row' \in [EventIds -> Row]
    BY <1>6, <2>1 DEF RecSelfAck
  <2>3. rec' \in Rec
    <3>1. rec' = RecIdle \/ rec' = [rec EXCEPT !.owned = @ \ {<<w, t>>}]
      BY <1>6 DEF RecSelfAck
    <3> QED
      BY <3>1, IdleTyped DEF Rec
  <2> QED
    BY <1>6, <2>2, <2>3 DEF RecSelfAck, HandlerHasTerminal
<1> QED
  BY <1>1, <1>2, <1>3, <1>4, <1>5, <1>6 DEF Reconciler

\* Whatever the daemon and Herdr do, every variable stays in its domain.
THEOREM TypeCorrect == Spec => []TypeOK
<1>1. Typed /\ [Next]_vars => Typed'
  <2>1. CASE UNCHANGED vars
    BY <2>1 DEF Typed, TypeOK, HandlerHasTerminal, vars
  <2> QED
    BY <2>1, TypeIndex, TypeHandlers, TypeReconciler DEF Next
<1>2. Spec => []Typed
  BY <1>1, TypeInit, PTL DEF Spec
<1> QED
  BY <1>2, PTL DEF Typed

----------------------------------------------------------------------------
(* What one step does to one row *)

\* The columns of a row agree (RowCoherent without the agents row).
Columns(r) ==
  /\ r.status = "pending" => r.deliverable /\ r.to = None
  /\ r.status = "delivered" => r.deliverable /\ r.to \in Owners
  /\ r.status \in {"acked", "failed"} => ~r.deliverable
  /\ r.to # None => r.attempts >= 1
  /\ r.status = "none" => r = NoRow

AgentOf(r, table) == ~r.orphan => r.inc # 0 /\ table[r.pane] = r.inc

SameEvent(r, s) ==
  /\ s.type = r.type /\ s.pane = r.pane /\ s.inc = r.inc /\ s.made = r.made
  /\ s.orphan = r.orphan /\ s.attempts >= r.attempts

Keeps(r, s) ==
  /\ SameEvent(r, s) \/ SameEvent([r EXCEPT !.orphan = TRUE], s)
  /\ r.status \in {"acked", "failed"} => s.status = r.status
  /\ r.status = "delivered" /\ Owns(r.to) =>
       /\ s.status \notin {"pending", "failed"}
       /\ s.status = "delivered" => s.to = r.to
  /\ r.status = "none" => s = r

\* What any step may make of a row: nothing, or the same event, further on.
Evolves(r, s) == s = NoRow \/ Keeps(r, s)

Coherent == \A e \in EventIds : Columns(row[e]) /\ AgentOf(row[e], agents)
IdsHandedOut == \A e \in EventIds : e > lastId => row[e] = NoRow

\* The missing row is in order.
LEMMA NoRowFits == Columns(NoRow) /\ NoRow.orphan /\ NoRow.status = "none"
BY DEF Columns, NoRow

\* A step that settles nothing final and hands nothing over keeps the event.
LEMMA Kept ==
  ASSUME NEW r, NEW s, SameEvent(r, s), r.status \notin {"acked", "failed", "none"},
         r.status = "delivered" /\ Owns(r.to) => s.status \in {"acked", "invalidated"}
  PROVE  Evolves(r, s)
BY DEF Evolves, Keeps

\* A row is the same event as itself.
LEMMA SameItself ==
  ASSUME NEW r \in Row
  PROVE  SameEvent(r, r)
BY DEF SameEvent, Row

\* A row that is left alone evolves.
LEMMA SameEvolves ==
  ASSUME NEW r \in Row
  PROVE  Evolves(r, r)
BY SameItself DEF Evolves, Keeps

\* A row that loses its agents row evolves.
LEMMA OrphanEvolves ==
  ASSUME NEW r \in Row, Columns(r)
  PROVE  LET s == [r EXCEPT !.orphan = TRUE]
         IN  Columns(s) /\ Evolves(r, s) /\ s.orphan
<1> DEFINE s == [r EXCEPT !.orphan = TRUE]
<1>1. CASE r.status = "none"
  <2>1. r = NoRow /\ NoRow \in Row
    BY <1>1, NoRowTyped DEF Columns
  <2>2. s = NoRow
    <3>1. r.orphan = TRUE
      BY <2>1 DEF NoRow
    <3>2. s = r
      BY <3>1, SMT DEF Row
    <3> QED
      BY <2>1, <3>2
  <2> QED
    BY <2>2, NoRowFits DEF Evolves
<1>2. CASE r.status # "none"
  <2>1. s \in Row
    BY DEF Row
  <2>2. s.status = r.status /\ s.to = r.to /\ s.orphan
    BY DEF Row
  <2>3. Columns(s)
    BY <1>2 DEF Columns, Row
  <2> HIDE DEF s
  <2>4. SameEvent(s, s)
    BY <2>1, SameItself
  <2>5. Keeps(r, s)
    BY <1>2, <2>2, <2>4 DEF Keeps, s
  <2> QED
    BY <2>2, <2>3, <2>5 DEF Evolves, s
<1> QED
  BY <1>1, <1>2

\* An invalidated row that is retained is the same event.
LEMMA RetainedSame ==
  ASSUME NEW r \in Row, Columns(r), r.status \notin {"acked", "failed", "none"}
  PROVE  LET s == RetainedRow(r)
         IN  Columns(s) /\ SameEvent(r, s) /\ s.status = "invalidated"
<1>1. Columns(RetainedRow(r))
  BY DEF Columns, RetainedRow, Row
<1>2. SameEvent(r, RetainedRow(r)) /\ RetainedRow(r).status = "invalidated"
  BY DEF RetainedRow, SameEvent, Row
<1> QED
  BY <1>1, <1>2

\* pane.closed settles, invalidates or retains a row.
LEMMA ClosedEvolves ==
  ASSUME NEW r \in Row, Columns(r), NEW p \in Panes, NEW g \in Incarnations,
         NEW settle \in BOOLEAN, NEW consumed \in BOOLEAN
  PROVE  LET s == ClosedRow(r, p, g, settle, consumed)
         IN  Columns(s) /\ Evolves(r, s) /\ s.orphan = r.orphan
<1> DEFINE s == IF settle /\ DeliveredOnce(r, p, g) THEN SettledRow(r)
                ELSE IF r.pane = p /\ Open(r) /\ GenMatches(r, g)
                THEN InvalidatedRow(r, g) ELSE r
           t == ClosedRow(r, p, g, settle, consumed)
<1>1. \/ Open(r) /\ s = SettledRow(r)
      \/ Open(r) /\ s = InvalidatedRow(r, g)
      \/ s = r
  BY DEF DeliveredOnce
<1>2. t = s \/ (t = RetainedRow(s) /\ s.status = "invalidated")
  BY DEF ClosedRow
<1> HIDE DEF s, t
<1>3. s \in Row /\ Columns(s) /\ SameEvent(r, s)
      /\ (s # r => Open(r) /\ s.status \in {"acked", "invalidated"})
  <2>1. CASE Open(r) /\ s = SettledRow(r)
    <3>1. s \in Row
      BY <2>1 DEF SettledRow, Row, Statuses, Reasons
    <3>2. Columns(s)
      BY <2>1 DEF Columns, Open, SettledRow, Row
    <3>3. SameEvent(r, s) /\ s.status = "acked"
      BY <2>1 DEF SettledRow, Row, SameEvent
    <3> QED
      BY <2>1, <3>1, <3>2, <3>3
  <2>2. CASE Open(r) /\ s = InvalidatedRow(r, g)
    <3>1. s \in Row
      BY <2>2 DEF InvalidatedRow, CloseReason, Row, Statuses, Reasons
    <3>2. Columns(s)
      BY <2>2 DEF Columns, Open, InvalidatedRow, Row
    <3>3. SameEvent(r, s) /\ s.status = "invalidated"
      BY <2>2 DEF InvalidatedRow, Row, SameEvent
    <3> QED
      BY <2>2, <3>1, <3>2, <3>3
  <2>3. CASE s = r
    BY <2>3, SameItself
  <2> QED
    BY <1>1, <2>1, <2>2, <2>3
<1>4. CASE t = s
  <2>1. s.orphan = r.orphan
    BY <1>3 DEF SameEvent
  <2>2. Evolves(r, s)
    <3>1. CASE s = r
      BY <3>1, SameEvolves
    <3>2. CASE s # r
      BY <1>3, <3>2, Kept DEF Open
    <3> QED
      BY <3>1, <3>2
  <2> QED
    BY <1>3, <1>4, <2>1, <2>2 DEF t
<1>5. CASE t = RetainedRow(s) /\ s.status = "invalidated"
  <2>1. Columns(t) /\ SameEvent(s, t) /\ t.status = "invalidated"
    BY <1>3, <1>5, RetainedSame
  <2>2. SameEvent(r, t)
    <3>1. r.attempts \in Int /\ s.attempts \in Int
      BY <1>3 DEF Row
    <3>2. t.attempts = s.attempts
      BY <1>3, <1>5 DEF RetainedRow, Row
    <3> QED
      BY <1>3, <2>1, <3>1, <3>2 DEF SameEvent
  <2>3. r.status \notin {"acked", "failed", "none"}
    BY <1>3, <1>5 DEF Open
  <2>4. t.orphan = r.orphan
    BY <2>2 DEF SameEvent
  <2>5. Evolves(r, t)
    BY <2>1, <2>2, <2>3, Kept
  <2> QED
    BY <2>1, <2>4, <2>5 DEF t
<1> QED
  BY <1>2, <1>4, <1>5

\* A pending read takes back what its terminal can no longer acknowledge.
LEMMA ReclaimedEvolves ==
  ASSUME TypeOK, NEW r \in Row, Columns(r)
  PROVE  LET s == ReclaimedRow(r)
         IN  Columns(s) /\ Evolves(r, s) /\ s.orphan = r.orphan
<1> DEFINE s == ReclaimedRow(r)
           lapsed == [r EXCEPT !.status = "invalidated", !.deliverable = FALSE,
                               !.reason = "reclaim"]
           given == [r EXCEPT !.status = "failed", !.deliverable = FALSE, !.to = None]
           again == [r EXCEPT !.status = "pending", !.deliverable = TRUE, !.to = None]
<1>1. \/ s = r
      \/ r.status = "delivered" /\ s = lapsed
      \/ r.status = "delivered" /\ ~Owns(r.to) /\ s \in {given, again}
  BY DEF ReclaimedRow, LostItsOwner, Reopened
<1> HIDE DEF s, lapsed, given, again
<1>2. CASE s = r
  BY <1>2, SameEvolves DEF s
<1>3. CASE r.status = "delivered" /\ s = lapsed
  <2>1. Columns(s)
    BY <1>3 DEF Columns, Row, lapsed
  <2>2. SameEvent(r, s) /\ s.status = "invalidated"
    BY <1>3 DEF SameEvent, Row, lapsed
  <2>3. Evolves(r, s)
    BY <1>3, <2>2, Kept
  <2> QED
    BY <2>1, <2>2, <2>3 DEF SameEvent, s
<1>4. CASE r.status = "delivered" /\ ~Owns(r.to) /\ s \in {given, again}
  <2>1. Columns(s)
    BY <1>4 DEF Columns, Row, given, again
  <2>2. SameEvent(r, s)
    <3>1. CASE s = given
      BY <3>1 DEF SameEvent, Row, given
    <3>2. CASE s = again
      BY <3>2 DEF SameEvent, Row, again
    <3> QED
      BY <1>4, <3>1, <3>2
  <2>3. Evolves(r, s)
    BY <1>4, <2>2, Kept
  <2> QED
    BY <2>1, <2>2, <2>3 DEF SameEvent, s
<1> QED
  BY <1>1, <1>2, <1>3, <1>4

\* A hand-over counts itself and names its terminal.
LEMMA ReservedEvolves ==
  ASSUME TypeOK, NEW r \in Row, Columns(r), NEW t \in Owners
  PROVE  LET s == ReservedRow(r, t)
         IN  Columns(s) /\ Evolves(r, s) /\ s.orphan = r.orphan
<1> DEFINE s == ReservedRow(r, t)
           n == IF r.attempts < MaxAttempts THEN r.attempts + 1 ELSE r.attempts
<1>1. \/ s = r
      \/ /\ r.status \in {"pending", "invalidated"}
         /\ s = [r EXCEPT !.status = "delivered", !.deliverable = TRUE,
                          !.attempts = n, !.tried = clock, !.to = t]
  BY DEF ReservedRow, Retained
<1>2. r.attempts \in 0..MaxAttempts
  BY DEF Row
<1>3. n >= 1 /\ n >= r.attempts
  BY <1>2, BoundAssumption
<1> HIDE DEF s, n
<1>4. CASE s = r
  BY <1>4, SameEvolves DEF s
<1>5. CASE /\ r.status \in {"pending", "invalidated"}
           /\ s = [r EXCEPT !.status = "delivered", !.deliverable = TRUE,
                            !.attempts = n, !.tried = clock, !.to = t]
  <2>1. Columns(s)
    BY <1>3, <1>5 DEF Columns, Row
  <2>2. SameEvent(r, s)
    BY <1>3, <1>5 DEF SameEvent, Row
  <2>3. Evolves(r, s)
    BY <1>5, <2>2, Kept
  <2> QED
    BY <2>1, <2>2, <2>3 DEF SameEvent, s
<1> QED
  BY <1>1, <1>4, <1>5

\* An acknowledgement of a row that is still offered.
LEMMA AckedEvolves ==
  ASSUME NEW r \in Row, Columns(r), Open(r) \/ Retained(r)
  PROVE  LET s == [r EXCEPT !.status = "acked", !.deliverable = FALSE]
         IN  Columns(s) /\ Evolves(r, s) /\ s.orphan = r.orphan
<1> DEFINE s == [r EXCEPT !.status = "acked", !.deliverable = FALSE]
<1>1. Columns(s)
  BY DEF Columns, Row, Open, Retained
<1>2. SameEvent(r, s) /\ s.status = "acked"
  BY DEF SameEvent, Row
<1>3. r.status \notin {"acked", "failed", "none"}
  BY DEF Open, Retained
<1> HIDE DEF s
<1>4. Evolves(r, s)
  BY <1>2, <1>3, Kept
<1> QED
  BY <1>1, <1>2, <1>4 DEF SameEvent, s

\* The reconciler deletes or retains what is still open.
LEMMA VerdictEvolves ==
  ASSUME TypeOK, NEW e \in EventIds, Columns(row[e]), NEW verdict \in Verdicts
  PROVE  LET s == VerdictOn(e, verdict)
         IN  Columns(s) /\ Evolves(row[e], s) /\ (row[e].orphan => s.orphan)
<1> DEFINE s == VerdictOn(e, verdict)
<1>1. row[e] \in Row
  BY DEF TypeOK
<1>2. s \in {row[e], NoRow} \/ (s = RetainedRow(row[e]) /\ Open(row[e]))
  BY DEF VerdictOn
<1> HIDE DEF s
<1>3. CASE s = row[e]
  BY <1>1, <1>3, SameEvolves DEF s
<1>4. CASE s = NoRow
  BY <1>4, NoRowFits DEF Evolves, s
<1>5. CASE s = RetainedRow(row[e]) /\ Open(row[e])
  <2>1. row[e].status \notin {"acked", "failed", "none"}
    BY <1>5 DEF Open
  <2>2. Columns(s) /\ SameEvent(row[e], s) /\ s.status = "invalidated"
    BY <1>1, <1>5, <2>1, RetainedSame
  <2>3. Evolves(row[e], s)
    BY <2>1, <2>2, Kept
  <2> QED
    BY <2>2, <2>3 DEF SameEvent, s
<1> QED
  BY <1>2, <1>3, <1>4, <1>5

----------------------------------------------------------------------------
(* What one step does to the whole table *)

\* A row that still has its agent had it before.
LEMMA AgentKept ==
  ASSUME NEW r \in Row, NEW s, Evolves(r, s), ~s.orphan
  PROVE  ~r.orphan /\ s.pane = r.pane /\ s.inc = r.inc
<1>1. Keeps(r, s)
  BY NoRowFits DEF Evolves
<1>2. [r EXCEPT !.orphan = TRUE].orphan = TRUE
  BY DEF Row
<1> QED
  BY <1>1, <1>2 DEF Keeps, SameEvent

\* A missing row stays missing unless its id is handed out.
LEMMA MissingKept ==
  ASSUME NEW s, Evolves(NoRow, s)
  PROVE  s = NoRow
BY NoRowFits DEF Evolves, Keeps

Known == Typed /\ Coherent /\ IdsHandedOut

\* Every row evolves and its columns keep agreeing.
Advances == \A e \in EventIds : Columns(row'[e]) /\ Evolves(row[e], row'[e])

\* In what is known a row is typed and its columns agree.
LEMMA KnownRow ==
  ASSUME Known, NEW e \in EventIds
  PROVE  row[e] \in Row /\ Columns(row[e])
BY DEF Known, Typed, TypeOK, Coherent

\* Steps that leave the table alone.
LEMMA UnchangedAdvances ==
  ASSUME Known, row' = row
  PROVE  Advances
BY KnownRow, SameEvolves DEF Advances

\* The RPC handlers.
LEMMA HandlersAdvance ==
  ASSUME Known, Handlers
  PROVE  Advances /\ agents' = agents /\ lastId' = lastId
<1>1. TypeOK /\ HandlerHasTerminal
  BY DEF Known, Typed
<1>2. CASE Reclaim
  <2>1. \A e \in EventIds : row'[e] = ReclaimedRow(row[e])
    BY <1>2 DEF Reclaim
  <2>2. Advances
    BY <1>1, <2>1, KnownRow, ReclaimedEvolves DEF Advances
  <2> QED
    BY <1>2, <2>2 DEF Reclaim
<1>3. CASE Reserve
  <2>1. rpc.term \in Owners
    BY <1>1, <1>3 DEF Reserve, HandlerHasTerminal
  <2>2. \A e \in EventIds : row'[e] \in {row[e], ReservedRow(row[e], rpc.term)}
    BY <1>3 DEF Reserve
  <2>3. Advances
    BY <1>1, <2>1, <2>2, KnownRow, SameEvolves, ReservedEvolves DEF Advances
  <2> QED
    BY <1>3, <2>3 DEF Reserve
<1>4. CASE AckMark
  <2>1. \A e \in EventIds :
          \/ row'[e] = row[e]
          \/ /\ Open(row[e]) \/ Retained(row[e])
             /\ row'[e] = [row[e] EXCEPT !.status = "acked", !.deliverable = FALSE]
    BY <1>4 DEF AckMark
  <2>2. ASSUME NEW e \in EventIds PROVE Columns(row'[e]) /\ Evolves(row[e], row'[e])
    <3>1. row[e] \in Row /\ Columns(row[e])
      BY KnownRow
    <3>2. CASE row'[e] = row[e]
      BY <3>1, <3>2, SameEvolves
    <3>3. CASE /\ Open(row[e]) \/ Retained(row[e])
               /\ row'[e] = [row[e] EXCEPT !.status = "acked", !.deliverable = FALSE]
      BY <3>1, <3>3, AckedEvolves
    <3>4. QED
      BY <2>1, <3>2, <3>3
  <2>3. Advances
    BY <2>2 DEF Advances
  <2> QED
    BY <1>4, <2>3 DEF AckMark
<1>5. CASE UNCHANGED <<lastId, row, agents>>
  BY <1>5, UnchangedAdvances
<1> QED
  BY <1>2, <1>3, <1>4, <1>5
  DEF Handlers, Get, Claim, TurnOff, PresenceLost, Ack, ClaimWrite, Select,
      AckAdvance, tables

\* The reconciler.
LEMMA ReconcilerAdvances ==
  ASSUME Known, Reconciler
  PROVE  Advances /\ agents' = agents /\ lastId' = lastId
<1>1. TypeOK
  BY DEF Known, Typed
<1>2. ASSUME NEW e \in EventIds, NEW verdict \in Verdicts, RecApply(e, verdict)
      PROVE  Advances /\ agents' = agents /\ lastId' = lastId
  <2>1. \A d \in EventIds : row'[d] = IF d = e THEN VerdictOn(e, verdict) ELSE row[d]
    BY <1>1, <1>2 DEF RecApply, TypeOK
  <2>2. Advances
    BY <1>1, <2>1, KnownRow, SameEvolves, VerdictEvolves DEF Advances
  <2> QED
    BY <1>2, <2>2 DEF RecApply
<1>3. CASE RecExpire
  <2>1. \A e \in EventIds : row'[e] \in {row[e], NoRow}
    BY <1>3 DEF RecExpire
  <2>2. Advances
    BY <2>1, KnownRow, SameEvolves, NoRowFits DEF Advances, Evolves
  <2> QED
    BY <1>3, <2>2 DEF RecExpire
<1>4. ASSUME NEW w \in Workspaces, NEW t \in Owners, RecSelfAck(w, t)
      PROVE  Advances /\ agents' = agents /\ lastId' = lastId
  <2>1. \A e \in EventIds :
          \/ row'[e] = row[e]
          \/ /\ Open(row[e])
             /\ row'[e] = [row[e] EXCEPT !.status = "acked", !.deliverable = FALSE]
    BY <1>4 DEF RecSelfAck
  <2>2. Advances
    <3> SUFFICES ASSUME NEW e \in EventIds
                 PROVE  Columns(row'[e]) /\ Evolves(row[e], row'[e])
      BY DEF Advances
    <3>1. row[e] \in Row /\ Columns(row[e])
      BY KnownRow
    <3>2. CASE row'[e] = row[e]
      BY <3>1, <3>2, SameEvolves
    <3>3. CASE /\ Open(row[e])
               /\ row'[e] = [row[e] EXCEPT !.status = "acked", !.deliverable = FALSE]
      BY <3>1, <3>3, AckedEvolves
    <3> QED
      BY <2>1, <3>2, <3>3
  <2> QED
    BY <1>4, <2>2 DEF RecSelfAck
<1>5. CASE UNCHANGED <<lastId, row, agents>>
  BY <1>5, UnchangedAdvances
<1> QED
  BY <1>2, <1>3, <1>4, <1>5 DEF Reconciler, RecSnapshot, RecList, RecPurge, tables

\* pane.closed and the refreshes; a retired agent takes its events' agent_id.
LEMMA ClosesAdvance ==
  ASSUME Known,
         \/ \E p \in Panes, i \in Incarnations : CloseInvalidate(p, i)
         \/ CloseRetire \/ CloseRelease \/ Refresh
  PROVE  /\ Advances /\ lastId' = lastId
         /\ \A e \in EventIds :
              agents'[row[e].pane] # agents[row[e].pane] /\ ~row[e].orphan
                => row'[e].orphan
<1>1. TypeOK
  BY DEF Known, Typed
<1>2. ASSUME NEW p \in Panes, NEW i \in Incarnations, CloseInvalidate(p, i)
      PROVE  Advances /\ lastId' = lastId /\ agents' = agents
  <2> DEFINE g == CloseGen(p, i)
             consumed == \E e \in EventIds : DeliveredOnce(row[e], p, g)
  <2>1. \A e \in EventIds : row'[e] = ClosedRow(row[e], p, g, TRUE, consumed)
    BY <1>2 DEF CloseInvalidate
  <2>2. g \in Incarnations /\ consumed \in BOOLEAN
    BY GenTyped
  <2> HIDE DEF g, consumed
  <2>3. Advances
    BY <2>1, <2>2, KnownRow, ClosedEvolves DEF Advances
  <2> QED
    BY <1>2, <2>3 DEF CloseInvalidate
<1>3. CASE CloseRetire
  <2>1. \A e \in EventIds : \/ row'[e] = row[e]
                            \/ row'[e] = [row[e] EXCEPT !.orphan = TRUE]
    BY <1>3 DEF CloseRetire, OrphanedBy
  <2>2. Advances
    BY <2>1, KnownRow, SameEvolves, OrphanEvolves DEF Advances
  <2>3. ASSUME NEW e \in EventIds, agents'[row[e].pane] # agents[row[e].pane]
        PROVE  row'[e].orphan
    <3>1. row[e].pane \in Panes /\ agents \in [Panes -> Incarnations]
      BY <1>1 DEF TypeOK, Row
    <3>2. row' = OrphanedBy({ix.pane}) /\ row[e].pane = ix.pane
      BY <1>3, <2>3, <3>1 DEF CloseRetire
    <3>3. row'[e] = [row[e] EXCEPT !.orphan = TRUE]
      BY <3>2 DEF OrphanedBy
    <3> QED
      BY <3>3, KnownRow, OrphanEvolves
  <2> QED
    BY <1>3, <2>2, <2>3 DEF CloseRetire
<1>4. CASE CloseRelease
  BY <1>4, UnchangedAdvances DEF CloseRelease
<1>5. CASE Refresh
  <2> DEFINE removed == {p \in Panes : agents[p] # 0 /\ (p \notin live \/ agents[p] # opened[p])}
             closed(r) == ClosedRow(r, r.pane, RowGen(r.pane, agents[r.pane]), FALSE, FALSE)
  <2>1. \A e \in EventIds :
          row'[e] = IF row[e].pane \in removed
                    THEN [closed(row[e]) EXCEPT !.orphan = TRUE] ELSE row[e]
    BY <1>5 DEF Refresh
  <2>2. ASSUME NEW r \in Row, Columns(r)
        PROVE  LET s == [closed(r) EXCEPT !.orphan = TRUE]
               IN  Columns(s) /\ Evolves(r, s) /\ s.orphan
    <3> DEFINE c == closed(r)
               s == [c EXCEPT !.orphan = TRUE]
    <3>1. r.pane \in Panes /\ RowGen(r.pane, agents[r.pane]) \in Incarnations
      BY <1>1, GenTyped DEF TypeOK, Row
    <3>2. c \in Row /\ Columns(c) /\ Evolves(r, c)
      BY <2>2, <3>1, ClosedTyped, ClosedEvolves
    <3> HIDE DEF c
    <3>3. Columns(s) /\ Evolves(c, s) /\ s.orphan
      BY <3>2, OrphanEvolves
    <3>4. Evolves(r, s)
      <4>1. CASE c = NoRow
        BY <3>3, <4>1, MissingKept DEF Evolves
      <4>2. CASE c # NoRow /\ s # NoRow
        <5>1. Keeps(r, c)
          BY <3>2, <4>2 DEF Evolves
        <5>2. s.status = c.status /\ s.to = c.to
          BY <3>2 DEF Row
        <5>3. SameEvent([r EXCEPT !.orphan = TRUE], s)
          <6>1. r.attempts \in Int /\ c.attempts \in Int
            BY <2>2, <3>2 DEF Row
          <6>2. /\ c.type = r.type /\ c.pane = r.pane /\ c.inc = r.inc /\ c.made = r.made
                /\ c.attempts >= r.attempts
            BY <2>2, <5>1 DEF Keeps, SameEvent, Row
          <6>3. /\ s.type = c.type /\ s.pane = c.pane /\ s.inc = c.inc /\ s.made = c.made
                /\ s.attempts = c.attempts /\ s.orphan = TRUE
            BY <3>2 DEF Row
          <6> HIDE DEF s
          <6>4. /\ s.type = r.type /\ s.pane = r.pane /\ s.inc = r.inc /\ s.made = r.made
                /\ s.attempts >= r.attempts /\ s.orphan = TRUE
            BY <6>1, <6>2, <6>3
          <6> QED
            BY <2>2, <6>4 DEF SameEvent, Row
        <5>4. r.status = "none" => s = r
          <6>1. SUFFICES ASSUME r.status = "none" PROVE s = r
            OBVIOUS
          <6>2. c = r /\ r = NoRow
            BY <2>2, <5>1, <6>1 DEF Keeps, Columns
          <6> QED
            BY <3>3, <6>2, MissingKept
        <5> HIDE DEF s
        <5>5. Keeps(r, s)
          BY <5>1, <5>2, <5>3, <5>4 DEF Keeps
        <5> QED
          BY <5>5 DEF Evolves
      <4> QED
        BY <4>1, <4>2 DEF Evolves
    <3> QED
      BY <3>3, <3>4 DEF c
  <2> HIDE DEF removed, closed
  <2>3. Advances
    BY <2>1, <2>2, KnownRow, SameEvolves DEF Advances
  <2>4. ASSUME NEW e \in EventIds, agents'[row[e].pane] # agents[row[e].pane], ~row[e].orphan
        PROVE  row'[e].orphan
    <3>1. row[e].pane \in Panes /\ agents[row[e].pane] = row[e].inc /\ row[e].inc # 0
      BY <2>4, KnownRow DEF Known, Coherent, AgentOf, Row
    <3>2. agents' = [p \in Panes |-> IF p \in live THEN opened[p] ELSE 0]
      BY <1>5 DEF Refresh
    <3>3. row[e].pane \in removed
      BY <2>4, <3>1, <3>2 DEF removed
    <3> QED
      BY <2>1, <2>2, <3>3, KnownRow
  <2> QED
    BY <1>5, <2>3, <2>4 DEF Refresh
<1> QED
  BY <1>2, <1>3, <1>4, <1>5

\* The id an append hands out; every other step hands out none.
Handed(e) == e = lastId + 1 /\ lastId' = lastId + 1 /\ row[e] = NoRow

\* Append writes a fresh row under the next id and touches no other.
LEMMA AppendHandsOut ==
  ASSUME Known, NEW p \in Authors, NEW i \in Incarnations, NEW type \in EventTypes,
         Append(p, i, type)
  PROVE  \A e \in EventIds :
           /\ Columns(row'[e]) /\ AgentOf(row'[e], agents')
           /\ Evolves(row[e], row'[e]) \/ Handed(e)
           /\ e > lastId' => row'[e] = NoRow
<1> DEFINE r == [status |-> "pending", deliverable |-> TRUE, type |-> type,
                 pane |-> p, inc |-> i, orphan |-> agents[p] # i,
                 attempts |-> 0, to |-> None, made |-> clock, tried |-> clock,
                 reason |-> "none"]
<1>1. /\ lastId' = lastId + 1 /\ lastId \in Nat /\ agents' = agents
      /\ i \in 1..opened[p]
      /\ row' = [row EXCEPT ![lastId + 1] = r]
      /\ row \in [EventIds -> Row]
  BY BoundAssumption DEF Append, Known, Typed, TypeOK
<1>2. i # 0
  <2>1. p \in Panes /\ opened[p] \in Int
    BY PaneAssumption DEF Known, Typed, TypeOK
  <2> QED
    BY <1>1, <2>1
<1>3. Columns(r) /\ AgentOf(r, agents)
  <2>1. Columns(r)
    BY DEF Columns
  <2>2. r.pane = p /\ r.inc = i /\ (r.orphan <=> agents[p] # i)
    OBVIOUS
  <2> HIDE DEF r
  <2> QED
    BY <1>2, <2>1, <2>2 DEF AgentOf
<1> HIDE DEF r
<1> SUFFICES ASSUME NEW e \in EventIds
             PROVE  /\ Columns(row'[e]) /\ AgentOf(row'[e], agents')
                    /\ Evolves(row[e], row'[e]) \/ Handed(e)
                    /\ e > lastId' => row'[e] = NoRow
  OBVIOUS
<1>4. e \in Nat
  BY BoundAssumption DEF EventIds
<1>5. CASE e = lastId + 1
  <2>1. row'[e] = r /\ ~(e > lastId')
    BY <1>1, <1>5
  <2>2. row[e] = NoRow
    BY <1>1, <1>5 DEF Known, IdsHandedOut
  <2> QED
    BY <1>1, <1>3, <1>5, <2>1, <2>2 DEF Handed
<1>6. CASE e # lastId + 1
  <2>1. row'[e] = row[e]
    BY <1>1, <1>6
  <2>2. Columns(row[e]) /\ AgentOf(row[e], agents) /\ Evolves(row[e], row[e])
    BY KnownRow, SameEvolves DEF Known, Coherent
  <2>3. e > lastId' => row[e] = NoRow
    BY <1>1, <1>4 DEF Known, IdsHandedOut
  <2> QED
    BY <1>1, <2>1, <2>2, <2>3
<1> QED
  BY <1>5, <1>6

\* Every step keeps what is known; every row evolves or its id is handed out.
LEMMA Step ==
  ASSUME Known, [Next]_vars
  PROVE  /\ Coherent' /\ IdsHandedOut'
         /\ \A e \in EventIds : Evolves(row[e], row'[e]) \/ Handed(e)
         /\ lastId' \in Nat /\ lastId' >= lastId
<1>0. lastId \in Nat
  BY BoundAssumption DEF Known, Typed, TypeOK
<1>1. ASSUME Advances, lastId' = lastId,
             \A e \in EventIds :
               agents'[row[e].pane] # agents[row[e].pane] /\ ~row[e].orphan
                 => row'[e].orphan
      PROVE  /\ Coherent' /\ IdsHandedOut'
             /\ \A e \in EventIds : Evolves(row[e], row'[e]) \/ Handed(e)
             /\ lastId' \in Nat /\ lastId' >= lastId
  <2>1. ASSUME NEW e \in EventIds
        PROVE  AgentOf(row'[e], agents')
    <3>1. SUFFICES ASSUME ~row'[e].orphan
                   PROVE  row'[e].inc # 0 /\ agents'[row'[e].pane] = row'[e].inc
      BY DEF AgentOf
    <3>2. Evolves(row[e], row'[e])
      BY <1>1 DEF Advances
    <3>3. ~row[e].orphan /\ row'[e].pane = row[e].pane /\ row'[e].inc = row[e].inc
      BY <3>1, <3>2, KnownRow, AgentKept
    <3>4. row[e].inc # 0 /\ agents[row[e].pane] = row[e].inc
      BY <3>3 DEF Known, Coherent, AgentOf
    <3> QED
      BY <1>1, <3>1, <3>3, <3>4
  <2>2. Coherent'
    BY <1>1, <2>1 DEF Coherent, Advances
  <2>3. IdsHandedOut'
    BY <1>1, MissingKept DEF Known, IdsHandedOut, Advances
  <2> QED
    BY <1>0, <1>1, <2>2, <2>3 DEF Advances
<1>2. ASSUME NEW p \in Authors, NEW i \in Incarnations, NEW type \in EventTypes,
             Append(p, i, type)
      PROVE  /\ Coherent' /\ IdsHandedOut'
             /\ \A e \in EventIds : Evolves(row[e], row'[e]) \/ Handed(e)
             /\ lastId' \in Nat /\ lastId' >= lastId
  <2>1. lastId' = lastId + 1
    BY <1>2 DEF Append
  <2> QED
    BY <1>0, <1>2, <2>1, AppendHandsOut DEF Coherent, IdsHandedOut
<1>3. CASE UNCHANGED <<lastId, row, agents>>
  BY <1>1, <1>3, UnchangedAdvances
<1> QED
  BY <1>1, <1>2, <1>3, HandlersAdvance, ReconcilerAdvances, ClosesAdvance
  DEF Next, Index, Environment, Tick, Crash, PaneCloses, PaneOpens, vars, tables

\* The initial tables are empty and in order.
LEMMA KnownInit == Init => Known
<1> SUFFICES ASSUME Init PROVE Known
  OBVIOUS
<1>1. \A e \in EventIds : row[e] = NoRow
  BY DEF Init
<1>2. Coherent
  BY <1>1, NoRowFits DEF Coherent, AgentOf
<1> QED
  BY <1>1, <1>2, TypeInit DEF Known, IdsHandedOut

\* What is known stays known.
LEMMA AlwaysKnown == Spec => []Known
<1>1. Known /\ [Next]_vars => Known'
  <2> SUFFICES ASSUME Known, [Next]_vars PROVE Known'
    OBVIOUS
  <2>1. Typed'
    <3>1. CASE UNCHANGED vars
      BY <3>1 DEF Known, Typed, TypeOK, HandlerHasTerminal, vars
    <3> QED
      BY <3>1, TypeIndex, TypeHandlers, TypeReconciler DEF Next, Known
  <2> QED
    BY <2>1, Step DEF Known
<1> QED
  BY <1>1, KnownInit, PTL DEF Spec

\* The columns of every row agree with each other and with the agents table.
THEOREM RowsAgree == Spec => []RowsCoherent
<1>1. Known => RowsCoherent
  BY DEF Known, Coherent, Columns, AgentOf, RowsCoherent, RowCoherent
<1> QED
  BY <1>1, AlwaysKnown, PTL

\* An acknowledged or exhausted event is never brought back, whatever the
\* handlers, the index service and the reconciler had read before.
THEOREM AcknowledgedIsFinal == Spec => AckIsFinal
<1>1. Known /\ [Next]_vars =>
        \A e \in EventIds :
          row[e].status \in {"acked", "failed"} =>
            row'[e] = NoRow \/ row'[e].status = row[e].status
  <2> SUFFICES ASSUME Known, [Next]_vars, NEW e \in EventIds,
                      row[e].status \in {"acked", "failed"}
               PROVE  row'[e] = NoRow \/ row'[e].status = row[e].status
    OBVIOUS
  <2>1. ~Handed(e)
    BY NoRowFits DEF Handed
  <2> QED
    BY <2>1, Step DEF Evolves, Keeps
<1> QED
  BY <1>1, AlwaysKnown, PTL DEF Spec, AckIsFinal

\* What a terminal that owns a scope was given is not taken back or given to
\* another terminal.
THEOREM InFlightIsKept == Spec => InFlightStaysWithOwner
<1>1. Known /\ [Next]_vars =>
        \A e \in EventIds :
          row[e].status = "delivered" /\ Owns(row[e].to) =>
            /\ row'[e].status \notin {"pending", "failed"}
            /\ row'[e].status = "delivered" => row'[e].to = row[e].to
  <2> SUFFICES ASSUME Known, [Next]_vars, NEW e \in EventIds,
                      row[e].status = "delivered", Owns(row[e].to)
               PROVE  /\ row'[e].status \notin {"pending", "failed"}
                      /\ row'[e].status = "delivered" => row'[e].to = row[e].to
    OBVIOUS
  <2>1. ~Handed(e)
    BY NoRowFits DEF Handed
  <2> QED
    BY <2>1, Step, NoRowFits DEF Evolves, Keeps
<1> QED
  BY <1>1, AlwaysKnown, PTL DEF Spec, InFlightStaysWithOwner

----------------------------------------------------------------------------
(* What the activities remember between their transactions *)

\* A claim writes back the cursor it read, unless the workspace has none.
ClaimHoldsCursor ==
  rpc.step = "claim" =>
    LET s == scope[Home[rpc.term]] IN s.exists => s.cursor = rpc.cursor

\* An ack about to settle rows names an event of its reach, and nobody else
\* owns a workspace of the reach.
MarkInReach ==
  rpc.step = "mark" =>
    /\ rpc.event \in EventIds /\ rpc.event <= lastId
    /\ row[rpc.event].status # "none" => EventWorkspace(row[rpc.event]) \in rpc.served
    /\ \A w \in rpc.served : scope[w].owner \in {None, rpc.term}

\* The reconciler has not condemned a failure nobody has been told of.
VerdictsSound ==
  \A job \in rec.todo :
    /\ job[1] <= lastId
    /\ row[job[1]].type = "failed" /\ row[job[1]].attempts = 0
         => job[2] \in {"keep", "retain"}

Remembered == ClaimHoldsCursor /\ MarkInReach /\ VerdictsSound

\* Only handlers take a step of the server; everybody else only releases or
\* purges scopes.
LEMMA OthersRelease ==
  ASSUME Known, Index \/ Reconciler \/ Environment
  PROVE  /\ rpc' \in {rpc, RpcIdle}
         /\ \A w \in Workspaces :
              /\ scope'[w].owner \in {scope[w].owner, None}
              /\ scope'[w].exists => scope[w].exists /\ scope'[w].cursor = scope[w].cursor
<1>1. \A w \in Workspaces :
        /\ Released(w).owner = None /\ Released(w).exists = scope[w].exists
        /\ Released(w).cursor = scope[w].cursor
  BY DEF Known, Typed, TypeOK, Released, Scope
<1>2. NoScope.owner = None /\ ~NoScope.exists
  BY DEF NoScope
<1>3. CASE CloseRelease
  <2>1. scope \in [Workspaces -> Scope]
    BY DEF Known, Typed, TypeOK
  <2>2. \A w \in Workspaces : scope'[w] \in {scope[w], Released(w)}
    BY <1>3, <2>1 DEF CloseRelease
  <2> QED
    BY <1>1, <1>3, <2>2 DEF CloseRelease
<1>4. CASE RecPurge
  <2>1. \A w \in Workspaces : scope'[w] \in {scope[w], NoScope}
    BY <1>4 DEF RecPurge
  <2> QED
    BY <1>2, <1>4, <2>1 DEF RecPurge
<1>5. CASE rpc' \in {rpc, RpcIdle} /\ scope' = scope
  BY <1>5
<1> QED
  BY <1>3, <1>4, <1>5
  DEF Index, Reconciler, Environment, Append, CloseInvalidate, CloseRetire, Refresh,
      RecSnapshot, RecList, RecExpire, RecApply, RecSelfAck, Tick, Crash,
      PaneCloses, PaneOpens, tables, herdr

\* What a row in the reach of an ack says of itself survives every step.
LEMMA ReachKept ==
  ASSUME Known, [Next]_vars, NEW e \in EventIds, e <= lastId, row'[e].status # "none"
  PROVE  row[e].status # "none" /\ EventWorkspace(row'[e]) = EventWorkspace(row[e])
<1>1. lastId \in Nat /\ ~Handed(e)
  BY BoundAssumption DEF Known, Typed, TypeOK, Handed, EventIds
<1>2. Keeps(row[e], row'[e])
  BY <1>1, Step, NoRowFits DEF Evolves
<1>3. row'[e].pane = row[e].pane
  BY <1>2, KnownRow DEF Keeps, SameEvent, Row
<1> QED
  BY <1>2, <1>3 DEF Keeps, EventWorkspace

\* A claim that is being written and an ack about to settle rows stay sound.
LEMMA HandlersRemember ==
  ASSUME Known, Remembered, [Next]_vars
  PROVE  ClaimHoldsCursor' /\ MarkInReach'
<1> USE DEF Remembered
<1>1. TypeOK /\ HandlerHasTerminal
  BY DEF Known, Typed
<1>2. ASSUME rpc'.step \notin {"claim", "mark"}
      PROVE  ClaimHoldsCursor' /\ MarkInReach'
  BY <1>2 DEF ClaimHoldsCursor, MarkInReach
<1>3. ASSUME rpc' = rpc,
             \A w \in Workspaces :
               /\ scope'[w].owner \in {scope[w].owner, None}
               /\ scope'[w].exists => scope[w].exists /\ scope'[w].cursor = scope[w].cursor
      PROVE  ClaimHoldsCursor' /\ MarkInReach'
  <2>1. ClaimHoldsCursor'
    <3>1. rpc.step = "claim" => Home[rpc.term] \in Workspaces
      BY <1>1, PaneAssumption DEF HandlerHasTerminal
    <3> QED
      BY <1>3, <3>1 DEF ClaimHoldsCursor
  <2>2. MarkInReach'
    <3>1. SUFFICES ASSUME rpc.step = "mark" PROVE MarkInReach'
      BY <1>3 DEF MarkInReach
    <3>2. rpc.event \in EventIds /\ rpc.event <= lastId /\ rpc.event <= lastId'
      BY <3>1, Step, BoundAssumption DEF MarkInReach, Known, Typed, TypeOK, EventIds
    <3>3. rpc.served \subseteq Workspaces
      BY <1>1 DEF TypeOK, Rpc
    <3>4. \A w \in rpc.served : scope'[w].owner \in {None, rpc.term}
      BY <1>3, <3>1, <3>3 DEF MarkInReach
    <3>5. row'[rpc.event].status # "none" => EventWorkspace(row'[rpc.event]) \in rpc.served
      BY <3>1, <3>2, ReachKept DEF MarkInReach
    <3> QED
      BY <1>3, <3>2, <3>4, <3>5 DEF MarkInReach, EventWorkspace
  <2> QED
    BY <2>1, <2>2
<1>4. RpcIdle.step = "idle"
  BY DEF RpcIdle
<1>5. \A t, isOwner : ConnectionState(t, isOwner).step = "reclaim"
  BY DEF ConnectionState, RpcIdle
<1>6. CASE Index \/ Reconciler \/ Environment
  BY <1>2, <1>3, <1>4, <1>6, OthersRelease
<1>7. CASE UNCHANGED vars
  BY <1>3, <1>7 DEF vars
<1>8. ASSUME NEW t \in Owners, Claim(t)
      PROVE  ClaimHoldsCursor' /\ MarkInReach'
  <2>1. PICK c \in 0..MaxEvents :
          /\ IsClaimCursor(c, Home[t])
          /\ rpc' = [RpcIdle EXCEPT !.step = "claim", !.term = t, !.cursor = c]
    BY <1>8 DEF Claim
  <2>2. rpc'.step = "claim" /\ rpc'.term = t /\ rpc'.cursor = c /\ scope' = scope
    BY <1>8, <2>1 DEF RpcIdle, Claim, tables
  <2> QED
    BY <2>1, <2>2 DEF ClaimHoldsCursor, MarkInReach, IsClaimCursor
<1>9. ASSUME NEW t \in Owners, NEW e \in EventIds, Ack(t, e)
      PROVE  ClaimHoldsCursor' /\ MarkInReach'
  <2>1. /\ rpc'.step = "mark" /\ rpc'.term = t /\ rpc'.event = e
        /\ rpc'.served = {EventWorkspace(row[e])}
        /\ scope' = scope /\ row' = row /\ lastId' = lastId
    BY <1>9 DEF Ack, RpcIdle, tables
  <2>2. e <= lastId
    BY <1>9, NoRowFits, BoundAssumption
    DEF Ack, Known, IdsHandedOut, Typed, TypeOK, EventIds
  <2>3. scope[EventWorkspace(row[e])].owner \in {None, t}
    BY <1>9 DEF Ack, Served, Siblings
  <2> QED
    BY <2>1, <2>2, <2>3 DEF ClaimHoldsCursor, MarkInReach, EventWorkspace
<1>10. ASSUME NEW t \in Owners, PresenceLost(t)
       PROVE  ClaimHoldsCursor' /\ MarkInReach'
  BY <1>2, <1>10 DEF PresenceLost
<1>11. ASSUME \/ \E t \in Owners : Get(t) \/ TurnOff(t)
              \/ \E connected \in BOOLEAN : ClaimWrite(connected)
              \/ Reclaim \/ Select \/ Reserve \/ AckMark \/ AckAdvance
       PROVE  ClaimHoldsCursor' /\ MarkInReach'
  <2>1. rpc \in Rpc
    BY <1>1 DEF TypeOK
  <2>2. rpc'.step \notin {"claim", "mark"}
    <3>1. CASE \/ \E t \in Owners : Get(t) \/ TurnOff(t)
               \/ \E connected \in BOOLEAN : ClaimWrite(connected)
      <4>1. \/ rpc' = RpcIdle
            \/ \E t, isOwner : rpc' = ConnectionState(t, isOwner)
        BY <3>1 DEF Get, TurnOff, ClaimWrite
      <4>2. QED
        BY <1>4, <1>5, <4>1
    <3>2. CASE Reclaim
      BY <2>1, <3>2 DEF Reclaim, Rpc
    <3>3. CASE Select
      BY <1>4, <2>1, <3>3 DEF Select, Rpc
    <3>4. CASE AckMark
      BY <1>4, <2>1, <3>4 DEF AckMark, Rpc
    <3>5. CASE Reserve \/ AckAdvance
      BY <1>4, <3>5 DEF Reserve, AckAdvance
    <3> QED
      BY <1>11, <3>1, <3>2, <3>3, <3>4, <3>5
  <2> QED
    BY <1>2, <2>2
<1> QED
  BY <1>6, <1>7, <1>8, <1>9, <1>10, <1>11 DEF Next, Handlers

\* The reconciler's verdicts stay sound while it walks through them.
LEMMA ReconcilerRemembers ==
  ASSUME Known, Remembered, [Next]_vars
  PROVE  VerdictsSound'
<1>1. TypeOK
  BY DEF Known, Typed
<1>2. ASSUME rec'.todo \subseteq rec.todo
      PROVE  VerdictsSound'
  <2> SUFFICES ASSUME NEW job \in rec'.todo
               PROVE  /\ job[1] <= lastId'
                      /\ row'[job[1]].type = "failed" /\ row'[job[1]].attempts = 0
                           => job[2] \in {"keep", "retain"}
    BY DEF VerdictsSound
  <2>1. job \in EventIds \X Verdicts /\ job \in rec.todo
    BY <1>1, <1>2 DEF TypeOK, Rec
  <2> DEFINE e == job[1]
  <2>2. e \in EventIds /\ e <= lastId /\ lastId \in Nat /\ e \in Nat
    BY <1>1, <2>1, BoundAssumption DEF Remembered, VerdictsSound, TypeOK, EventIds
  <2>3. e <= lastId' /\ ~Handed(e)
    BY <2>2, Step DEF Handed
  <2>4. SUFFICES ASSUME row'[e].type = "failed", row'[e].attempts = 0
                 PROVE  row[e].type = "failed" /\ row[e].attempts = 0
    BY <2>1, <2>3 DEF Remembered, VerdictsSound
  <2>5. Keeps(row[e], row'[e])
    <3>1. NoRow.type = "status"
      BY DEF NoRow
    <3> QED
      BY <2>2, <2>3, <2>4, <3>1, Step DEF Evolves
  <2>6. row[e] \in Row
    BY <2>2, KnownRow
  <2>7. /\ row'[e].type = row[e].type
        /\ row'[e].attempts >= row[e].attempts
    BY <2>5, <2>6 DEF Keeps, SameEvent, Row
  <2>8. row[e].attempts \in Nat
    BY <2>6, BoundAssumption DEF Row
  <2> QED
    BY <2>4, <2>7, <2>8
<1>3. RecIdle.todo = {}
  BY DEF RecIdle
<1>4. CASE RecList /\ rec'.todo # rec.todo
  <2> DEFINE ids == {e \in EventIds : e > rec.cursor /\ Open(row[e])}
  <2>1. /\ rec'.todo = {<<e, Verdict(row[e])>> : e \in ids}
        /\ row' = row /\ lastId' = lastId
    BY <1>1, <1>4 DEF RecList, TypeOK, Rec, tables
  <2>2. ASSUME NEW e \in ids
        PROVE  /\ e <= lastId
               /\ row[e].type = "failed" /\ row[e].attempts = 0
                    => Verdict(row[e]) \in {"keep", "retain"}
    <3>1. row[e] \in Row /\ Columns(row[e]) /\ Open(row[e])
      BY KnownRow
    <3>2. e <= lastId
      BY <3>1, NoRowFits, BoundAssumption
      DEF Known, IdsHandedOut, Typed, TypeOK, EventIds, Open
    <3>3. row[e].attempts = 0 => row[e].deliverable
      BY <3>1, PaneAssumption DEF Columns, Open
    <3> QED
      BY <3>2, <3>3 DEF Verdict, RetainableFailure
  <2> HIDE DEF ids
  <2> QED
    BY <2>1, <2>2 DEF VerdictsSound
<1>5. ASSUME \/ Reconciler /\ ~(RecList /\ rec'.todo # rec.todo)
             \/ Crash \/ rec' = rec
      PROVE  rec'.todo \subseteq rec.todo
  <2>1. rec \in Rec
    BY <1>1 DEF TypeOK
  <2>2. CASE RecSnapshot \/ RecPurge
    <3>1. rec' = RecIdle \/ (\E own : rec' = [RecIdle EXCEPT !.step = "self", !.owned = own])
          \/ (\E snap : rec' = [RecIdle EXCEPT !.step = "list", !.snap = snap])
      BY <2>2 DEF RecSnapshot, RecPurge
    <3>2. RecIdle \in Rec
      BY IdleTyped
    <3>3. rec'.todo = RecIdle.todo
      BY <3>1, <3>2 DEF Rec
    <3> QED
      BY <1>3, <3>3
  <2>3. CASE RecList /\ rec'.todo = rec.todo
    BY <2>3
  <2>4. CASE RecExpire
    BY <2>1, <2>4 DEF RecExpire, Rec
  <2>5. ASSUME NEW e \in EventIds, NEW verdict \in Verdicts, RecApply(e, verdict)
        PROVE  rec'.todo \subseteq rec.todo
    <3>1. rec'.todo = rec.todo \ {<<e, verdict>>}
      BY <2>1, <2>5 DEF RecApply, Rec
    <3> QED
      BY <3>1
  <2>6. ASSUME NEW w \in Workspaces, NEW t \in Owners, RecSelfAck(w, t)
        PROVE  rec'.todo \subseteq rec.todo
    <3>1. rec' = RecIdle \/ rec' = [rec EXCEPT !.owned = @ \ {<<w, t>>}]
      BY <2>6 DEF RecSelfAck
    <3>2. rec'.todo \in {rec.todo, {}}
      BY <1>3, <2>1, <3>1 DEF Rec
    <3> QED
      BY <3>2
  <2>7. CASE Crash \/ rec' = rec
    BY <1>3, <2>7 DEF Crash
  <2> QED
    BY <1>5, <2>2, <2>3, <2>4, <2>5, <2>6, <2>7 DEF Reconciler
<1>6. ASSUME Index \/ Handlers \/ Environment \/ UNCHANGED vars
      PROVE  Crash \/ rec' = rec
  BY <1>6
  DEF Index, Handlers, Environment, vars, Append, CloseInvalidate, CloseRetire,
      CloseRelease, Refresh, Get, Claim, TurnOff, PresenceLost, Ack, ClaimWrite,
      Reclaim, Select, Reserve, AckMark, AckAdvance, Tick, PaneCloses, PaneOpens
<1> QED
  BY <1>2, <1>4, <1>5, <1>6 DEF Next

\* Nothing is remembered at first.
LEMMA RememberedInit == Init => Remembered
BY DEF Init, Remembered, ClaimHoldsCursor, MarkInReach, VerdictsSound, RpcIdle, RecIdle

\* What the activities remember stays sound.
LEMMA AlwaysRemembered == Spec => [](Known /\ Remembered)
<1>1. Known /\ Remembered /\ [Next]_vars => Remembered'
  BY HandlersRemember, ReconcilerRemembers DEF Remembered
<1> QED
  BY <1>1, AlwaysKnown, RememberedInit, PTL DEF Spec

\* Claims, acknowledgements and releases never move a workspace's cursor back.
THEOREM CursorIsMonotone == Spec => CursorNeverRetreats
<1>1. Known /\ Remembered /\ [Next]_vars =>
        \A w \in Workspaces :
          scope[w].exists /\ scope'[w].exists => scope'[w].cursor >= scope[w].cursor
  <2> SUFFICES ASSUME Known, Remembered, [Next]_vars, NEW w \in Workspaces,
                      scope[w].exists, scope'[w].exists
               PROVE  scope'[w].cursor >= scope[w].cursor
    OBVIOUS
  <2>1. /\ scope \in [Workspaces -> Scope] /\ rpc \in Rpc /\ HandlerHasTerminal
        /\ scope[w].cursor \in 0..MaxEvents
    BY DEF Known, Typed, TypeOK, Scope
  <2>2. CASE scope'[w].cursor = scope[w].cursor
    BY <2>1, <2>2
  <2>3. CASE Index \/ Reconciler \/ Environment
    BY <2>2, <2>3, OthersRelease
  <2>4. ASSUME NEW connected \in BOOLEAN, ClaimWrite(connected)
        PROVE  scope'[w].cursor >= scope[w].cursor
    <3>1. \/ scope' = scope
          \/ scope' = [scope EXCEPT ![Home[rpc.term]] =
                         [exists |-> TRUE, cursor |-> rpc.cursor, owner |-> rpc.term,
                          updated |-> clock]]
      BY <2>4 DEF ClaimWrite
    <3>2. rpc.step = "claim"
      BY <2>4 DEF ClaimWrite
    <3> QED
      BY <2>1, <2>2, <3>1, <3>2 DEF Remembered, ClaimHoldsCursor
  <2>5. CASE AckAdvance
    <3>1. rpc.event \in 0..MaxEvents
      BY <2>1 DEF Rpc
    <3>2. \/ scope'[w].cursor = scope[w].cursor
          \/ scope'[w].cursor = IF scope[w].cursor < rpc.event THEN rpc.event
                                ELSE scope[w].cursor
      BY <2>1, <2>5 DEF AckAdvance, Scope
    <3> QED
      BY <2>1, <3>1, <3>2
  <2>6. ASSUME NEW t \in Owners, TurnOff(t) \/ PresenceLost(t)
        PROVE  scope'[w].cursor >= scope[w].cursor
    <3>1. scope'[w] \in {scope[w], Released(w)}
      BY <2>1, <2>6 DEF TurnOff, PresenceLost
    <3>2. Released(w).cursor = scope[w].cursor
      BY <2>1 DEF Released, Scope
    <3> QED
      BY <2>2, <3>1, <3>2
  <2>7. CASE UNCHANGED scope
    BY <2>2, <2>7
  <2> QED
    BY <2>3, <2>4, <2>5, <2>6, <2>7
    DEF Next, Handlers, Get, Claim, Ack, Reclaim, Select, Reserve, AckMark, vars, tables
<1> QED
  BY <1>1, AlwaysRemembered, PTL DEF Spec, CursorNeverRetreats

\* An acknowledgement settles only events of the owner's own workspace or of one
\* that nobody owns.
THEOREM AckReachesOwnScopes == Spec => AckStaysInReach
<1>1. Known /\ Remembered /\ [Next]_vars =>
        \A e \in EventIds :
          /\ rpc.step = "mark" /\ rpc' # rpc
          /\ row[e].status # "acked" /\ row'[e].status = "acked"
          => scope[EventWorkspace(row[e])].owner \in {None, rpc.term}
  <2> SUFFICES ASSUME Known, Remembered, [Next]_vars, NEW e \in EventIds,
                      rpc.step = "mark", rpc' # rpc,
                      row[e].status # "acked", row'[e].status = "acked"
               PROVE  scope[EventWorkspace(row[e])].owner \in {None, rpc.term}
    OBVIOUS
  <2>1. row' # row
    OBVIOUS
  <2>2. AckMark
    <3>1. ~Crash /\ ~(Reconciler /\ rpc' # rpc) /\ ~(Index /\ rpc' # rpc)
      BY <2>1 DEF Crash, Reconciler, Index, RecSnapshot, RecList, RecExpire, RecPurge,
                  RecApply, RecSelfAck, Append, CloseInvalidate, CloseRetire,
                  CloseRelease, Refresh, tables
    <3> QED
      BY <3>1 DEF Next, Environment, Tick, PaneCloses, PaneOpens, vars, Handlers,
                  Get, Claim, TurnOff, PresenceLost, Ack, ClaimWrite, Reclaim, Select,
                  Reserve, AckAdvance
  <2>3. e \in Swept /\ (Open(row[e]) \/ Retained(row[e]))
    BY <2>1, <2>2 DEF AckMark
  <2>4. row[e].status # "none"
    BY <2>3 DEF Open, Retained
  <2>5. EventWorkspace(row[e]) \in rpc.served
    <3>1. CASE Home[rpc.term] \notin rpc.served
      BY <2>3, <2>4, <3>1 DEF Swept, Remembered, MarkInReach
    <3>2. CASE Home[rpc.term] \in rpc.served
      BY <2>3, <3>2 DEF Swept
    <3> QED
      BY <3>1, <3>2
  <2> QED
    BY <2>5 DEF Remembered, MarkInReach
<1> QED
  BY <1>1, AlwaysRemembered, PTL DEF Spec, AckStaysInReach

----------------------------------------------------------------------------
(* A failure nobody has been told of *)

\* A close that settles nothing of the pane retains its unseen failures.
LEMMA CloseSparesFailure ==
  ASSUME NEW r \in Row, Columns(r), r.type = "failed", Unseen(r),
         NEW p \in Panes, NEW g \in Incarnations,
         NEW settle \in BOOLEAN, NEW consumed \in BOOLEAN, r.pane = p => ~consumed
  PROVE  Unseen(ClosedRow(r, p, g, settle, consumed))
<1> DEFINE s == IF settle /\ DeliveredOnce(r, p, g) THEN SettledRow(r)
                ELSE IF r.pane = p /\ Open(r) /\ GenMatches(r, g)
                THEN InvalidatedRow(r, g) ELSE r
           t == ClosedRow(r, p, g, settle, consumed)
<1>1. r.attempts = 0 /\ ~DeliveredOnce(r, p, g)
  BY DEF Unseen, DeliveredOnce
<1>2. t = IF /\ ~consumed /\ s.pane = p
             /\ s.status = "invalidated" /\ ~s.deliverable
             /\ s.reason = CloseReason(g) /\ Restorable(s, g)
          THEN RetainedRow(s) ELSE s
  BY DEF ClosedRow
<1>3. CASE r.pane = p /\ Open(r) /\ GenMatches(r, g)
  <2>1. s = InvalidatedRow(r, g)
    BY <1>1, <1>3
  <2> HIDE DEF s, t
  <2>2. s \in Row
    BY <2>1 DEF InvalidatedRow, CloseReason, Row, Statuses, Reasons
  <2>3. /\ s.pane = p /\ s.status = "invalidated" /\ s.deliverable = FALSE
        /\ s.reason = CloseReason(g) /\ s.type = "failed" /\ s.attempts = 0
    BY <1>1, <1>3, <2>1 DEF InvalidatedRow, Row
  <2>4. t = RetainedRow(s)
    BY <1>2, <1>3, <2>3 DEF Restorable
  <2>5. t.status = "invalidated" /\ t.deliverable /\ t.attempts = 0
    BY <2>2, <2>3, <2>4 DEF RetainedRow, Row
  <2> QED
    BY <2>5 DEF Unseen, Retained, t
<1>4. CASE ~(r.pane = p /\ Open(r) /\ GenMatches(r, g))
  <2>1. s = r
    BY <1>1, <1>4
  <2> HIDE DEF s
  <2>2. ~(r.status = "invalidated" /\ ~r.deliverable)
    BY DEF Unseen, Open, Retained
  <2>3. t = r
    BY <1>2, <2>1, <2>2
  <2> QED
    BY <2>3
<1> QED
  BY <1>3, <1>4

\* A failure that was never handed over survives every step, except those its
\* statement names; the reconciler works from verdicts it reached earlier.
THEOREM UnseenFailuresSurvive == Spec => UnseenFailureSurvives
<1>1. Known /\ Remembered /\ [Next]_vars =>
        \A e \in EventIds :
          LET r == row[e] IN
          /\ r.type = "failed" /\ Unseen(r)
          /\ r.pane \notin Owners /\ rpc.step # "mark"
          /\ r.made >= clock - SettledAge
          /\ ix' = ix \/ ~HadDelivery(r.pane)
          => Unseen(row'[e]) \/ row'[e].attempts > 0
  <2> SUFFICES ASSUME Known, Remembered, [Next]_vars, NEW e \in EventIds,
                      row[e].type = "failed", Unseen(row[e]),
                      row[e].pane \notin Owners, rpc.step # "mark",
                      row[e].made >= clock - SettledAge,
                      ix' = ix \/ ~HadDelivery(row[e].pane)
               PROVE  Unseen(row'[e]) \/ row'[e].attempts > 0
    OBVIOUS
  <2>0. /\ row[e] \in Row /\ Columns(row[e]) /\ row[e].attempts = 0
        /\ TypeOK /\ HandlerHasTerminal
    BY KnownRow DEF Unseen, Known, Typed
  <2>1. CASE row'[e] = row[e]
    BY <2>1
  <2>2. CASE row'[e] = [row[e] EXCEPT !.orphan = TRUE]
    BY <2>0, <2>2 DEF Unseen, Open, Retained, Row
  <2>3. ASSUME NEW p \in Panes, NEW i \in Incarnations, CloseInvalidate(p, i)
        PROVE  Unseen(row'[e])
    <3> DEFINE g == CloseGen(p, i)
               consumed == \E d \in EventIds : DeliveredOnce(row[d], p, g)
    <3>1. row'[e] = ClosedRow(row[e], p, g, TRUE, consumed)
      BY <2>3 DEF CloseInvalidate
    <3>2. g \in Incarnations /\ consumed \in BOOLEAN
      BY GenTyped
    <3>3. row[e].pane = p => ~consumed
      <4>1. SUFFICES ASSUME row[e].pane = p PROVE ~consumed
        OBVIOUS
      <4>2. ix' # ix
        BY <2>3 DEF CloseInvalidate
      <4>3. \A d \in EventIds : row[d].attempts >= 1 => row[d].attempts > 0
        BY KnownRow, BoundAssumption DEF Row
      <4> QED
        BY <4>1, <4>2, <4>3 DEF HadDelivery, DeliveredOnce
    <3> HIDE DEF g, consumed
    <3> QED
      BY <2>0, <3>1, <3>2, <3>3, CloseSparesFailure
  <2>4. CASE CloseRetire
    BY <2>1, <2>2, <2>4 DEF CloseRetire, OrphanedBy
  <2>5. CASE Refresh
    <3> DEFINE p == row[e].pane
               c == ClosedRow(row[e], p, RowGen(p, agents[p]), FALSE, FALSE)
    <3>1. row'[e] = row[e] \/ row'[e] = [c EXCEPT !.orphan = TRUE]
      BY <2>5 DEF Refresh
    <3>2. p \in Panes /\ RowGen(p, agents[p]) \in Incarnations
      BY <2>0, GenTyped DEF TypeOK, Row
    <3>3. c \in Row /\ Unseen(c)
      BY <2>0, <3>2, ClosedTyped, CloseSparesFailure
    <3> HIDE DEF c, p
    <3>4. Unseen([c EXCEPT !.orphan = TRUE])
      BY <3>3 DEF Unseen, Open, Retained, Row
    <3> QED
      BY <3>1, <3>4
  <2>6. CASE Reclaim
    <3>1. row[e].status # "delivered"
      BY <2>0, PaneAssumption DEF Columns
    <3> QED
      BY <2>1, <2>6, <3>1 DEF Reclaim, ReclaimedRow
  <2>7. CASE Reserve
    <3>1. row'[e] \in {row[e], ReservedRow(row[e], rpc.term)}
      BY <2>7 DEF Reserve
    <3>2. ReservedRow(row[e], rpc.term) = row[e]
          \/ ReservedRow(row[e], rpc.term).attempts = 1
      BY <2>0, BoundAssumption DEF ReservedRow, Row
    <3> QED
      BY <2>1, <3>1, <3>2
  <2>8. ASSUME NEW d \in EventIds, NEW verdict \in Verdicts, RecApply(d, verdict)
        PROVE  Unseen(row'[e])
    <3>1. row'[e] = IF e = d THEN VerdictOn(d, verdict) ELSE row[e]
      BY <2>0, <2>8 DEF RecApply, TypeOK
    <3>2. e = d => verdict \in {"keep", "retain"}
      BY <2>0, <2>8 DEF RecApply, Remembered, VerdictsSound
    <3>3. e = d => VerdictOn(d, verdict) \in {row[e], RetainedRow(row[e])}
      BY <3>2 DEF VerdictOn
    <3>4. Unseen(RetainedRow(row[e]))
      BY <2>0 DEF Unseen, Retained, RetainedRow, Row
    <3> QED
      BY <3>1, <3>3, <3>4
  <2>9. CASE RecExpire
    <3>1. ~Expired(row[e])
      <4>1. row[e].made \in Int /\ clock - SettledAge \in Int
        BY <2>0, AgeAssumption DEF Row, TypeOK
      <4>2. ~(row[e].made < clock - SettledAge)
        BY <4>1
      <4> QED
        BY <4>2 DEF Expired, Unseen, Open, Retained
    <3> QED
      BY <2>1, <2>9, <3>1 DEF RecExpire
  <2>10. ASSUME NEW w \in Workspaces, NEW t \in Owners, RecSelfAck(w, t)
         PROVE  Unseen(row'[e])
    BY <2>10 DEF RecSelfAck
  <2>11. ASSUME NEW p \in Authors, NEW i \in Incarnations, NEW type \in EventTypes,
                Append(p, i, type)
         PROVE  Unseen(row'[e])
    <3>1. e # lastId + 1
      <4>1. NoRow.type = "status"
        BY DEF NoRow
      <4> QED
        BY <4>1, BoundAssumption DEF Known, IdsHandedOut, Typed, TypeOK
    <3>2. row'[e] = row[e]
      BY <2>0, <2>11, <3>1 DEF Append, TypeOK
    <3> QED
      BY <3>2
  <2>12. ~AckMark
    BY DEF AckMark
  <2>13. CASE UNCHANGED row
    BY <2>1, <2>13
  <2> QED
    BY <2>3, <2>4, <2>5, <2>6, <2>7, <2>8, <2>9, <2>10, <2>11, <2>12, <2>13
    DEF Next, Index, Handlers, Reconciler, Environment, CloseRelease, Get, Claim,
        TurnOff, PresenceLost, Ack, ClaimWrite, Select, AckAdvance, RecSnapshot,
        RecList, RecPurge, Tick, Crash, PaneCloses, PaneOpens, vars, tables
<1> QED
  BY <1>1, AlwaysRemembered, PTL DEF Spec, UnseenFailureSurvives

----------------------------------------------------------------------------
(* What a hand-over leaves behind *)

Waits(r) == r.status = "pending" /\ r.attempts = 0

\* Nothing waits between c and an event that t was given, that t could be given.
NothingBehind(t, c, table) ==
  \A e, f \in EventIds :
    /\ table[f].to = t /\ EventWorkspace(table[f]) = Home[t]
    /\ e < f /\ e > c /\ Waits(table[e])
    => ~IsDeliverable(table[e], Home[t], t)

CursorsSkipNothing ==
  \A t \in Owners :
    scope[Home[t]].exists => NothingBehind(t, scope[Home[t]].cursor, row)
ClaimSkipsNothing ==
  rpc.step = "claim" =>
    \A t \in Owners :
      Home[t] = Home[rpc.term] => NothingBehind(t, rpc.cursor, row)
ServesHome ==
  rpc.step \in {"reclaim", "select", "reserve"} => Home[rpc.term] \in rpc.served
PicksAllBelow ==
  rpc.step = "reserve" =>
    \A f \in rpc.picked :
      /\ f <= lastId
      /\ scope[Home[rpc.term]].exists =>
           \A e \in EventIds :
             /\ e < f /\ e > scope[Home[rpc.term]].cursor
             /\ Waits(row[e]) /\ IsDeliverable(row[e], Home[rpc.term], rpc.term)
             => e \in rpc.picked
MarksOneWorkspace == rpc.step = "mark" => \E w \in Workspaces : rpc.served = {w}

\* The handlers skip nothing: what is given is given with all that waits below
\* it, and stays so until the cursor has passed it.
NoneSkipped ==
  /\ CursorsSkipNothing /\ ClaimSkipsNothing
  /\ ServesHome /\ PicksAllBelow /\ MarksOneWorkspace

\* A row that a step makes no new offer of, and gives to nobody.
Lingers(r, s) == (Waits(s) => Waits(r)) /\ s.to \in {r.to, None}

\* A missing row offers nothing.
LEMMA NoRowLingers == ASSUME NEW r PROVE Lingers(r, NoRow)
BY DEF Lingers, Waits, NoRow

\* An acknowledged row offers nothing.
LEMMA AckedLingers ==
  ASSUME NEW r \in Row, NEW s, s = [r EXCEPT !.status = "acked", !.deliverable = FALSE]
  PROVE  Lingers(r, s)
BY DEF Lingers, Waits, Row

\* What pane.closed makes of a row offers nothing.
LEMMA ClosedLingers ==
  ASSUME NEW r \in Row, NEW p \in Panes, NEW g \in Incarnations,
         NEW settle \in BOOLEAN, NEW consumed \in BOOLEAN
  PROVE  /\ Lingers(r, ClosedRow(r, p, g, settle, consumed))
         /\ Lingers(r, [ClosedRow(r, p, g, settle, consumed) EXCEPT !.orphan = TRUE])
<1> DEFINE s == IF settle /\ DeliveredOnce(r, p, g) THEN SettledRow(r)
                ELSE IF r.pane = p /\ Open(r) /\ GenMatches(r, g)
                THEN InvalidatedRow(r, g) ELSE r
           c == ClosedRow(r, p, g, settle, consumed)
<1>1. s \in {r, SettledRow(r), InvalidatedRow(r, g)}
  OBVIOUS
<1>2. c \in {s, RetainedRow(s)}
  BY DEF ClosedRow
<1> HIDE DEF s
<1>3. s \in Row /\ s.to = r.to /\ (s = r \/ s.status \in {"acked", "invalidated"})
  <2>1. SettledRow(r) \in Row /\ SettledRow(r).to = r.to /\ SettledRow(r).status = "acked"
    BY DEF SettledRow, Row, Statuses, Reasons
  <2>2. /\ InvalidatedRow(r, g) \in Row /\ InvalidatedRow(r, g).to = r.to
        /\ InvalidatedRow(r, g).status = "invalidated"
    BY DEF InvalidatedRow, CloseReason, Row, Statuses, Reasons
  <2> QED
    BY <1>1, <2>1, <2>2
<1>4. c \in Row
  BY ClosedTyped
<1> HIDE DEF c
<1>5. c.to = r.to /\ (c = r \/ c.status \in {"acked", "invalidated"})
  BY <1>2, <1>3 DEF RetainedRow, Row
<1>6. Lingers(r, c)
  BY <1>5 DEF Lingers, Waits
<1>7. Lingers(r, [c EXCEPT !.orphan = TRUE])
  BY <1>4, <1>5 DEF Lingers, Waits, Row
<1> QED
  BY <1>6, <1>7 DEF c

\* A delivery that is opened again has been attempted.
LEMMA ReclaimedLingers ==
  ASSUME NEW r \in Row, Columns(r)
  PROVE  Lingers(r, ReclaimedRow(r))
<1>1. CASE r.status # "delivered"
  BY <1>1 DEF ReclaimedRow, Lingers
<1>2. CASE r.status = "delivered"
  <2>1. r.attempts >= 1 /\ r.attempts \in Int
    BY <1>2, PaneAssumption DEF Columns, Row
  <2>2. Reopened(r).attempts = r.attempts /\ Reopened(r).to = None
    BY DEF Reopened, Row
  <2>3. Lingers(r, Reopened(r))
    BY <2>1, <2>2 DEF Lingers, Waits
  <2>4. \/ ReclaimedRow(r) \in {r, Reopened(r)}
        \/ ReclaimedRow(r) = [r EXCEPT !.status = "invalidated", !.deliverable = FALSE,
                                       !.reason = "reclaim"]
        \/ ReclaimedRow(r) = [r EXCEPT !.status = "failed", !.deliverable = FALSE, !.to = None]
    BY DEF ReclaimedRow
  <2> QED
    BY <2>3, <2>4 DEF Lingers, Waits, Row
<1> QED
  BY <1>1, <1>2

\* The reconciler's verdict offers nothing.
LEMMA VerdictLingers ==
  ASSUME NEW e \in EventIds, NEW verdict \in Verdicts, row[e] \in Row
  PROVE  Lingers(row[e], VerdictOn(e, verdict))
<1>1. Lingers(row[e], RetainedRow(row[e]))
  BY DEF Lingers, Waits, RetainedRow, Row
<1> QED
  BY <1>1, NoRowLingers DEF VerdictOn, Lingers

\* Only a hand-over gives an event to a terminal, only an append offers one.
LEMMA OnlyReserveGives ==
  ASSUME Known, [Next]_vars, ~Reserve
  PROVE  \A e \in EventIds :
           Lingers(row[e], row'[e]) \/ (Handed(e) /\ row'[e].to = None)
<1>1. TypeOK /\ row \in [EventIds -> Row]
  BY DEF Known, Typed, TypeOK
<1> SUFFICES ASSUME NEW e \in EventIds
             PROVE  Lingers(row[e], row'[e]) \/ (Handed(e) /\ row'[e].to = None)
  OBVIOUS
<1>2. row[e] \in Row /\ Columns(row[e])
  BY KnownRow
<1>3. CASE row'[e] = row[e]
  BY <1>3 DEF Lingers
<1>4. CASE row'[e] = [row[e] EXCEPT !.orphan = TRUE]
  BY <1>2, <1>4 DEF Lingers, Waits, Row
<1>5. ASSUME NEW p \in Authors, NEW i \in Incarnations, NEW type \in EventTypes,
             Append(p, i, type)
      PROVE  Lingers(row[e], row'[e]) \/ (Handed(e) /\ row'[e].to = None)
  <2>1. lastId' = lastId + 1 /\ (e # lastId + 1 => row'[e] = row[e])
        /\ (e = lastId + 1 => row'[e].to = None)
    BY <1>1, <1>5 DEF Append
  <2>2. e = lastId + 1 => row[e] = NoRow
    BY BoundAssumption DEF Known, IdsHandedOut, Typed, TypeOK
  <2> QED
    BY <1>3, <2>1, <2>2 DEF Handed
<1>6. ASSUME NEW p \in Panes, NEW i \in Incarnations, CloseInvalidate(p, i)
      PROVE  Lingers(row[e], row'[e])
  <2> DEFINE g == CloseGen(p, i)
             consumed == \E d \in EventIds : DeliveredOnce(row[d], p, g)
  <2>1. row'[e] = ClosedRow(row[e], p, g, TRUE, consumed)
    BY <1>6 DEF CloseInvalidate
  <2>2. g \in Incarnations /\ consumed \in BOOLEAN
    BY GenTyped
  <2> HIDE DEF g, consumed
  <2> QED
    BY <1>2, <2>1, <2>2, ClosedLingers
<1>7. CASE CloseRetire
  BY <1>3, <1>4, <1>7 DEF CloseRetire, OrphanedBy
<1>8. CASE Refresh
  <2> DEFINE p == row[e].pane
             c == ClosedRow(row[e], p, RowGen(p, agents[p]), FALSE, FALSE)
  <2>1. row'[e] = row[e] \/ row'[e] = [c EXCEPT !.orphan = TRUE]
    BY <1>8 DEF Refresh
  <2>2. p \in Panes /\ RowGen(p, agents[p]) \in Incarnations
    BY <1>1, <1>2, GenTyped DEF TypeOK, Row
  <2>3. Lingers(row[e], [c EXCEPT !.orphan = TRUE])
    BY <1>2, <2>2, ClosedLingers
  <2> QED
    BY <1>3, <2>1, <2>3
<1>9. CASE Reclaim
  BY <1>2, <1>9, ReclaimedLingers DEF Reclaim
<1>10. CASE AckMark
  <2>1. \A d \in EventIds :
          \/ row'[d] = row[d]
          \/ /\ Open(row[d]) \/ Retained(row[d])
             /\ row'[d] = [row[d] EXCEPT !.status = "acked", !.deliverable = FALSE]
    BY <1>10 DEF AckMark
  <2>2. \/ row'[e] = row[e]
        \/ row'[e] = [row[e] EXCEPT !.status = "acked", !.deliverable = FALSE]
    BY <2>1
  <2> QED
    BY <1>2, <1>3, <2>2, AckedLingers
<1>11. ASSUME NEW d \in EventIds, NEW verdict \in Verdicts, RecApply(d, verdict)
       PROVE  Lingers(row[e], row'[e])
  <2>1. row'[e] = IF e = d THEN VerdictOn(d, verdict) ELSE row[e]
    BY <1>1, <1>11 DEF RecApply
  <2> QED
    BY <1>2, <1>3, <2>1, VerdictLingers DEF Lingers
<1>12. CASE RecExpire
  BY <1>3, <1>12, NoRowLingers DEF RecExpire, Lingers
<1>13. ASSUME NEW w \in Workspaces, NEW t \in Owners, RecSelfAck(w, t)
       PROVE  Lingers(row[e], row'[e])
  <2>1. \A d \in EventIds :
          \/ row'[d] = row[d]
          \/ /\ Open(row[d])
             /\ row'[d] = [row[d] EXCEPT !.status = "acked", !.deliverable = FALSE]
    BY <1>13 DEF RecSelfAck
  <2>2. \/ row'[e] = row[e]
        \/ row'[e] = [row[e] EXCEPT !.status = "acked", !.deliverable = FALSE]
    BY <2>1
  <2>3. row'[e] = row[e] => Lingers(row[e], row'[e])
    BY DEF Lingers
  <2> QED
    BY <1>2, <2>2, <2>3, AckedLingers
<1>14. CASE row' = row
  BY <1>3, <1>14
<1>15. CASE Index
  BY <1>5, <1>6, <1>7, <1>8, <1>14, <1>15 DEF Index, CloseRelease
<1>16. CASE Handlers
  <2>1. Reclaim \/ AckMark \/ row' = row
    BY <1>16 DEF Handlers, Get, Claim, TurnOff, PresenceLost, Ack, ClaimWrite, Select,
                 AckAdvance, tables
  <2> QED
    BY <1>9, <1>10, <1>14, <2>1
<1>17. CASE Reconciler
  <2>1. CASE row' = row
    BY <1>14, <2>1
  <2>2. CASE row' # row
    <3>1. \/ RecExpire
          \/ \E d \in EventIds, verdict \in Verdicts : RecApply(d, verdict)
          \/ \E w \in Workspaces, t \in Owners : RecSelfAck(w, t)
      BY <1>17, <2>2 DEF Reconciler, RecSnapshot, RecList, RecPurge, tables
    <3> QED
      BY <1>11, <1>12, <1>13, <3>1
  <2> QED
    BY <2>1, <2>2
<1>18. CASE Environment \/ UNCHANGED vars
  BY <1>14, <1>18
  DEF Environment, Tick, Crash, PaneCloses, PaneOpens, vars, tables
<1> QED
  BY <1>15, <1>16, <1>17, <1>18 DEF Next

\* An offer after a step was one before: no step but an append offers an event.
LEMMA OfferedBefore ==
  ASSUME NEW r \in Row, NEW s, Columns(r), Evolves(r, s), Lingers(r, s), Waits(s),
         NEW w, NEW t, IsDeliverable(s, w, t)
  PROVE  Waits(r) /\ IsDeliverable(r, w, t)
<1>1. Waits(r) /\ r.deliverable
  BY DEF Lingers, Waits, Columns
<1>2. Keeps(r, s)
  BY NoRowFits DEF Evolves, Waits
<1>3. s.pane = r.pane /\ s.type = r.type /\ (r.orphan => s.orphan)
  BY <1>2 DEF Keeps, SameEvent, Row
<1> QED
  BY <1>1, <1>3
  DEF Waits, IsDeliverable, EventWorkspace, NeedsNoAgent, FailedOrRetained, Retained,
      OrphanOutcome, Open

\* What is skipped nowhere stays so while nothing is given, and as cursors rise.
LEMMA SkippedNowhere ==
  ASSUME Known, [Next]_vars, ~Reserve, NEW t \in Owners, NEW c \in Int, NEW d \in Int,
         c <= d, NothingBehind(t, c, row)
  PROVE  NothingBehind(t, d, row')
<1> SUFFICES ASSUME NEW e \in EventIds, NEW f \in EventIds,
                    row'[f].to = t, EventWorkspace(row'[f]) = Home[t],
                    e < f, e > d, Waits(row'[e]), IsDeliverable(row'[e], Home[t], t)
             PROVE  FALSE
  BY DEF NothingBehind
<1>1. e \in Int /\ f \in Int /\ lastId \in Int /\ t # None
  BY BoundAssumption, PaneAssumption DEF EventIds, Known, Typed, TypeOK
<1>2. ~Handed(f) /\ row[f].to = t
  <2>1. Lingers(row[f], row'[f])
    BY <1>1, OnlyReserveGives
  <2>2. row[f].to = t
    BY <1>1, <2>1 DEF Lingers
  <2>3. NoRow.to = None
    BY DEF NoRow
  <2> QED
    BY <1>1, <2>2, <2>3 DEF Handed
<1>3. f <= lastId
  <2>1. row[f] # NoRow
    BY <1>1, <1>2 DEF NoRow
  <2> QED
    BY <1>1, <2>1 DEF Known, IdsHandedOut
<1>4. ~Handed(e)
  BY <1>1, <1>3 DEF Handed
<1>5. /\ Lingers(row[e], row'[e]) /\ Evolves(row[e], row'[e]) /\ Evolves(row[f], row'[f])
      /\ row[e] \in Row /\ Columns(row[e]) /\ row[f] \in Row
  BY <1>2, <1>4, OnlyReserveGives, Step, KnownRow
<1>6. Waits(row[e]) /\ IsDeliverable(row[e], Home[t], t)
  BY <1>5, OfferedBefore
<1>7. EventWorkspace(row[f]) = Home[t]
  <2>1. row'[f] # NoRow
    BY <1>1 DEF NoRow
  <2>2. row'[f].pane = row[f].pane
    BY <1>5, <2>1 DEF Evolves, Keeps, SameEvent, Row
  <2> QED
    BY <2>2 DEF EventWorkspace
<1>8. e > c
  BY <1>1
<1> QED
  BY <1>2, <1>6, <1>7, <1>8 DEF NothingBehind

\* Outside a claim no scope appears and no cursor falls.
CursorsRise ==
  \A w \in Workspaces :
    scope'[w].exists =>
      /\ scope[w].exists /\ scope'[w].cursor \in Int
      /\ scope[w].cursor <= scope'[w].cursor

\* Every step but the end of a claim keeps the cursors, or raises one.
LEMMA OnlyClaimsOpen ==
  ASSUME Known, [Next]_vars
  PROVE  CursorsRise \/ \E connected \in BOOLEAN : ClaimWrite(connected)
<1>1. /\ scope \in [Workspaces -> Scope] /\ rpc \in Rpc
      /\ \A w \in Workspaces : scope[w].cursor \in 0..MaxEvents
  BY DEF Known, Typed, TypeOK, Scope
<1>2. CASE Index \/ Reconciler \/ Environment
  BY <1>1, <1>2, OthersRelease, BoundAssumption DEF CursorsRise
<1>3. ASSUME NEW t \in Owners, TurnOff(t) \/ PresenceLost(t)
      PROVE  CursorsRise
  <2>1. \A w \in Workspaces : scope'[w] \in {scope[w], Released(w)}
    BY <1>1, <1>3 DEF TurnOff, PresenceLost
  <2>2. \A w \in Workspaces :
          Released(w).exists = scope[w].exists /\ Released(w).cursor = scope[w].cursor
    BY <1>1 DEF Released, Scope
  <2> QED
    BY <1>1, <2>1, <2>2, BoundAssumption DEF CursorsRise
<1>4. CASE AckAdvance
  <2>1. rpc.event \in 0..MaxEvents
    BY <1>1 DEF Rpc
  <2>2. ASSUME NEW w \in Workspaces
        PROVE  /\ scope'[w].exists = scope[w].exists
               /\ \/ scope'[w].cursor = scope[w].cursor
                  \/ scope'[w].cursor = IF scope[w].cursor < rpc.event THEN rpc.event
                                        ELSE scope[w].cursor
    BY <1>1, <1>4 DEF AckAdvance, Scope
  <2> QED
    BY <1>1, <2>1, <2>2, BoundAssumption DEF CursorsRise
<1>5. CASE scope' = scope
  BY <1>1, <1>5, BoundAssumption DEF CursorsRise
<1> QED
  BY <1>2, <1>3, <1>4, <1>5
  DEF Next, Handlers, Get, Claim, Ack, Reclaim, Select, Reserve, AckMark, vars, tables

\* The cursors skip nothing while nothing is given.
LEMMA CursorsKept ==
  ASSUME Known, [Next]_vars, NoneSkipped, ~Reserve, CursorsRise
  PROVE  CursorsSkipNothing'
<1> SUFFICES ASSUME NEW t \in Owners, scope'[Home[t]].exists
             PROVE  NothingBehind(t, scope'[Home[t]].cursor, row')
  BY DEF CursorsSkipNothing, NothingBehind, EventWorkspace, Waits, IsDeliverable,
         NeedsNoAgent, FailedOrRetained, OrphanOutcome, Retained, Open
<1>1. Home[t] \in Workspaces
  BY PaneAssumption
<1>2. /\ scope[Home[t]].exists /\ scope[Home[t]].cursor \in Int
      /\ scope'[Home[t]].cursor \in Int
      /\ scope[Home[t]].cursor <= scope'[Home[t]].cursor
  BY <1>1, BoundAssumption DEF CursorsRise, Known, Typed, TypeOK, Scope
<1>3. NothingBehind(t, scope[Home[t]].cursor, row)
  BY <1>2 DEF NoneSkipped, CursorsSkipNothing
<1> QED
  BY <1>2, <1>3, SkippedNowhere

\* A claim starts where nothing is skipped.
LEMMA ClaimStarts ==
  ASSUME Known, NoneSkipped, NEW t \in Owners, NEW c \in 0..MaxEvents,
         IsClaimCursor(c, Home[t]),
         NEW u \in Owners, Home[u] = Home[t]
  PROVE  NothingBehind(u, c, row)
<1>1. CASE scope[Home[t]].exists
  BY <1>1 DEF IsClaimCursor, NoneSkipped, CursorsSkipNothing
<1>2. CASE ~scope[Home[t]].exists
  <2> SUFFICES ASSUME NEW e \in EventIds, NEW f \in EventIds,
                      row[f].to = u, EventWorkspace(row[f]) = Home[u], e < f, e > c
               PROVE  FALSE
    BY DEF NothingBehind
  <2>1. row[f].status # "none"
    <3>1. u # None /\ NoRow.to = None
      BY PaneAssumption DEF NoRow
    <3> QED
      BY <3>1, KnownRow DEF Columns
  <2>2. f <= c
    BY <1>2, <2>1 DEF IsClaimCursor, IsNewestEvent, EventsIn
  <2> QED
    BY <2>2, BoundAssumption DEF EventIds
<1> QED
  BY <1>1, <1>2

\* A claim under way skips nothing.
LEMMA ClaimsKept ==
  ASSUME Known, [Next]_vars, NoneSkipped
  PROVE  ClaimSkipsNothing'
<1> SUFFICES ASSUME rpc'.step = "claim", NEW u \in Owners, Home[u] = Home[rpc'.term]
             PROVE  NothingBehind(u, rpc'.cursor, row')
  BY DEF ClaimSkipsNothing, NothingBehind, EventWorkspace, Waits, IsDeliverable,
         NeedsNoAgent, FailedOrRetained, OrphanOutcome, Retained, Open
<1>1. rpc \in Rpc /\ rpc.cursor \in Int
  BY BoundAssumption DEF Known, Typed, TypeOK, Rpc
<1>2. RpcIdle.step # "claim" /\ \A t, o : ConnectionState(t, o).step # "claim"
  BY DEF RpcIdle, ConnectionState
<1>3. CASE rpc' = rpc /\ ~Reserve
  BY <1>1, <1>3, SkippedNowhere DEF NoneSkipped, ClaimSkipsNothing
<1>4. ASSUME NEW t \in Owners, Claim(t)
      PROVE  NothingBehind(u, rpc'.cursor, row')
  <2>1. PICK c \in 0..MaxEvents :
          /\ IsClaimCursor(c, Home[t])
          /\ rpc' = [RpcIdle EXCEPT !.step = "claim", !.term = t, !.cursor = c]
    BY <1>4 DEF Claim
  <2>2. rpc'.term = t /\ rpc'.cursor = c /\ row' = row
    BY <1>4, <2>1 DEF RpcIdle, Claim, tables
  <2> QED
    BY <2>1, <2>2, ClaimStarts
<1>5. ~Reserve
  BY <1>2 DEF Reserve
<1>6. CASE Index \/ Reconciler \/ Environment
  BY <1>2, <1>3, <1>5, <1>6, OthersRelease
<1>7. CASE UNCHANGED vars
  BY <1>3, <1>5, <1>7 DEF vars
<1>8. ASSUME NEW t \in Owners, Get(t) \/ TurnOff(t)
      PROVE  FALSE
  <2>1. \E x, o : rpc' = ConnectionState(x, o)
    BY <1>8 DEF Get, TurnOff
  <2> QED
    BY <1>2, <2>1
<1>9. ASSUME NEW t \in Owners, PresenceLost(t)
      PROVE  NothingBehind(u, rpc'.cursor, row')
  BY <1>3, <1>5, <1>9 DEF PresenceLost
<1>10. ASSUME NEW t \in Owners, NEW e \in EventIds, Ack(t, e)
       PROVE  FALSE
  BY <1>10 DEF Ack, RpcIdle
<1>11. ASSUME NEW connected \in BOOLEAN, ClaimWrite(connected)
       PROVE  FALSE
  BY <1>2, <1>11 DEF ClaimWrite
<1>12. ~Reclaim
  BY <1>1 DEF Reclaim, Rpc
<1>13. ~Select
  BY <1>1, <1>2 DEF Select, Rpc
<1>14. ~AckMark
  BY <1>1, <1>2 DEF AckMark, Rpc
<1>15. ~AckAdvance
  BY <1>2 DEF AckAdvance
<1> QED
  BY <1>4, <1>5, <1>6, <1>7, <1>8, <1>9, <1>10, <1>11, <1>12, <1>13, <1>14, <1>15
  DEF Next, Handlers

\* The handlers' connection states serve the terminal's own workspace, an ack
\* settles in one workspace.
LEMMA PositionsKept ==
  ASSUME Known, [Next]_vars, NoneSkipped
  PROVE  ServesHome' /\ MarksOneWorkspace'
<1>1. rpc \in Rpc /\ RpcIdle.step = "idle"
  BY DEF Known, Typed, TypeOK, RpcIdle
<1>2. CASE rpc' \in {rpc, RpcIdle}
  BY <1>1, <1>2 DEF NoneSkipped, ServesHome, MarksOneWorkspace
<1>3. ASSUME NEW t \in Owners, NEW o \in BOOLEAN, rpc' = ConnectionState(t, o)
      PROVE  ServesHome' /\ MarksOneWorkspace'
  <2>1. /\ rpc'.step = "reclaim" /\ rpc'.term = t
        /\ rpc'.served = IF o THEN Served(t) ELSE {Home[t]}
    BY <1>3 DEF ConnectionState, RpcIdle
  <2> QED
    BY <2>1 DEF ServesHome, MarksOneWorkspace, Served
<1>4. CASE Reclaim \/ Select
  <2>1. \/ rpc' = RpcIdle
        \/ /\ rpc'.step # "mark" /\ rpc'.term = rpc.term /\ rpc'.served = rpc.served
           /\ rpc.step \in {"reclaim", "select"}
    BY <1>1, <1>4 DEF Reclaim, Select, Rpc
  <2> QED
    BY <1>2, <2>1 DEF NoneSkipped, ServesHome, MarksOneWorkspace
<1>5. ASSUME NEW t \in Owners, NEW e \in EventIds, Ack(t, e)
      PROVE  ServesHome' /\ MarksOneWorkspace'
  <2>1. rpc'.step = "mark" /\ rpc'.served = {EventWorkspace(row[e])}
    BY <1>5 DEF Ack, RpcIdle
  <2>2. EventWorkspace(row[e]) \in Workspaces
    BY KnownRow, PaneAssumption DEF EventWorkspace, Row
  <2> QED
    BY <2>1, <2>2 DEF ServesHome, MarksOneWorkspace
<1>6. ASSUME rpc'.step \in {"claim", "advance"}
      PROVE  ServesHome' /\ MarksOneWorkspace'
  BY <1>6 DEF ServesHome, MarksOneWorkspace
<1>7. CASE Index \/ Reconciler \/ Environment \/ UNCHANGED vars
  BY <1>2, <1>7, OthersRelease DEF vars
<1>8. ASSUME NEW t \in Owners, Get(t) \/ TurnOff(t)
      PROVE  ServesHome' /\ MarksOneWorkspace'
  <2>1. \E o \in BOOLEAN : rpc' = ConnectionState(t, o)
    BY <1>8 DEF Get, TurnOff
  <2> QED
    BY <1>3, <2>1
<1>9. ASSUME NEW t \in Owners, Claim(t) \/ PresenceLost(t)
      PROVE  ServesHome' /\ MarksOneWorkspace'
  <2>1. rpc' = rpc \/ rpc'.step = "claim"
    BY <1>9 DEF Claim, PresenceLost, RpcIdle
  <2> QED
    BY <1>2, <1>6, <2>1
<1>10. ASSUME NEW connected \in BOOLEAN, ClaimWrite(connected)
       PROVE  ServesHome' /\ MarksOneWorkspace'
  <2>1. rpc.term \in Owners
    BY <1>10 DEF ClaimWrite, Known, Typed, HandlerHasTerminal
  <2>2. rpc' \in {RpcIdle, ConnectionState(rpc.term, TRUE)}
    BY <1>10 DEF ClaimWrite
  <2> QED
    BY <1>2, <1>3, <2>1, <2>2
<1>11. CASE Reserve \/ AckMark \/ AckAdvance
  <2>1. rpc' = RpcIdle \/ rpc'.step = "advance"
    BY <1>1, <1>11 DEF Reserve, AckMark, AckAdvance, Rpc
  <2> QED
    BY <1>2, <1>6, <2>1
<1> QED
  BY <1>4, <1>5, <1>7, <1>8, <1>9, <1>10, <1>11 DEF Next, Handlers

\* What select picks is all that can be given below it, and stays so until it
\* is reserved.
LEMMA PicksKept ==
  ASSUME Known, [Next]_vars, NoneSkipped
  PROVE  PicksAllBelow'
<1>1. /\ rpc \in Rpc /\ RpcIdle.step = "idle" /\ lastId \in Int
      /\ \A e \in EventIds : e \in Int
  BY BoundAssumption DEF Known, Typed, TypeOK, RpcIdle, EventIds
<1>2. ASSUME rpc'.step # "reserve"
      PROVE  PicksAllBelow'
  BY <1>2 DEF PicksAllBelow
<1>3. ASSUME rpc' = rpc, rpc.step = "reserve", ~Reserve, CursorsRise
      PROVE  PicksAllBelow'
  <2> DEFINE t == rpc.term
  <2>1. /\ t \in Owners /\ Home[t] \in Workspaces /\ rpc.picked \subseteq EventIds
        /\ scope[Home[t]].cursor \in Int
    BY <1>1, <1>3, PaneAssumption, BoundAssumption
    DEF Known, Typed, TypeOK, HandlerHasTerminal, Rpc, Scope
  <2>2. lastId' \in Int /\ lastId' >= lastId
    BY Step
  <2> HIDE DEF t
  <2>3. ASSUME NEW f \in rpc.picked
        PROVE  /\ f <= lastId'
               /\ scope'[Home[t]].exists =>
                    \A e \in EventIds :
                      /\ e < f /\ e > scope'[Home[t]].cursor
                      /\ Waits(row'[e]) /\ IsDeliverable(row'[e], Home[t], t)
                      => e \in rpc.picked
    <3>1. f \in Int /\ f <= lastId
      BY <1>1, <1>3, <2>1 DEF NoneSkipped, PicksAllBelow
    <3>2. SUFFICES ASSUME scope'[Home[t]].exists, NEW e \in EventIds,
                          e < f, e > scope'[Home[t]].cursor,
                          Waits(row'[e]), IsDeliverable(row'[e], Home[t], t)
                   PROVE  e \in rpc.picked
      BY <1>1, <2>2, <3>1
    <3>3. /\ scope[Home[t]].exists /\ scope'[Home[t]].cursor \in Int
          /\ scope[Home[t]].cursor <= scope'[Home[t]].cursor
      BY <1>3, <2>1, <3>2 DEF CursorsRise
    <3>4. e > scope[Home[t]].cursor
      BY <1>1, <2>1, <3>2, <3>3
    <3>5. ~Handed(e)
      BY <1>1, <3>1, <3>2 DEF Handed
    <3>6. Lingers(row[e], row'[e]) /\ Evolves(row[e], row'[e])
      BY <1>3, <3>5, OnlyReserveGives, Step
    <3>7. Waits(row[e]) /\ IsDeliverable(row[e], Home[t], t)
      BY <3>2, <3>6, KnownRow, OfferedBefore
    <3> QED
      BY <1>3, <3>2, <3>3, <3>4, <3>7 DEF NoneSkipped, PicksAllBelow, t
  <2> QED
    BY <1>3, <2>3
    DEF PicksAllBelow, t, EventWorkspace, Waits, IsDeliverable,
        NeedsNoAgent, FailedOrRetained, OrphanOutcome, Retained, Open
<1>4. CASE Select /\ rpc'.step = "reserve"
  <2> DEFINE t == rpc.term
             picked == DeliverableAfter(t, rpc.served)
  <2>1. /\ rpc'.term = t /\ rpc'.picked = picked /\ Home[t] \in rpc.served
        /\ row' = row /\ scope' = scope /\ lastId' = lastId
    BY <1>1, <1>4 DEF Select, Rpc, NoneSkipped, ServesHome, tables
  <2>2. ASSUME NEW f \in picked
        PROVE  f \in EventIds /\ f <= lastId
    <3>1. f \in EventIds /\ row[f].status # "none"
      BY DEF DeliverableAfter, Listable, Retained
    <3> QED
      BY <1>1, <3>1, NoRowFits DEF Known, IdsHandedOut
  <2>3. ASSUME NEW e \in EventIds, e > scope[Home[t]].cursor,
               Waits(row[e]), IsDeliverable(row[e], Home[t], t)
        PROVE  e \in picked
    BY <2>1, <2>3 DEF DeliverableAfter, Waits, Listable, IsDeliverable
  <2> HIDE DEF picked, t
  <2>4. \A f \in picked :
          /\ f <= lastId'
          /\ scope'[Home[t]].exists =>
               \A e \in EventIds :
                 /\ e < f /\ e > scope'[Home[t]].cursor
                 /\ Waits(row'[e]) /\ IsDeliverable(row'[e], Home[t], t)
                 => e \in picked
    BY <2>1, <2>2, <2>3
  <2> QED
    BY <2>1, <2>4
    DEF PicksAllBelow, EventWorkspace, Waits, IsDeliverable,
        NeedsNoAgent, FailedOrRetained, OrphanOutcome, Retained, Open
<1>5. CASE Reserve
  BY <1>1, <1>2, <1>5 DEF Reserve
<1>6. CASE rpc' \in {rpc, RpcIdle} /\ CursorsRise
  BY <1>1, <1>2, <1>3, <1>5, <1>6
<1>7. CASE Index \/ Reconciler \/ Environment \/ UNCHANGED vars
  <2>1. rpc' \in {rpc, RpcIdle}
    BY <1>7, OthersRelease DEF vars
  <2>2. CursorsRise
    <3>1. \A w \in Workspaces :
            /\ scope'[w].exists => scope[w].exists /\ scope'[w].cursor = scope[w].cursor
            /\ scope[w].cursor \in Int
      BY <1>7, OthersRelease, BoundAssumption DEF vars, Known, Typed, TypeOK, Scope
    <3> QED
      BY <3>1 DEF CursorsRise
  <2> QED
    BY <1>6, <2>1, <2>2
<1>8. \A t, o : ConnectionState(t, o).step = "reclaim"
  BY DEF ConnectionState, RpcIdle
<1>9. ASSUME NEW t \in Owners, Get(t) \/ TurnOff(t) \/ Claim(t) \/ PresenceLost(t)
      PROVE  PicksAllBelow'
  <2>1. rpc'.step # "reserve"
    <3>1. CASE Get(t) \/ TurnOff(t)
      <4>1. \E x, o : rpc' = ConnectionState(x, o)
        BY <3>1 DEF Get, TurnOff
      <4> QED
        BY <1>8, <4>1
    <3>2. CASE Claim(t) \/ PresenceLost(t)
      BY <3>2 DEF Claim, PresenceLost, RpcIdle
    <3> QED
      BY <1>9, <3>1, <3>2
  <2> QED
    BY <1>2, <2>1
<1>10. ASSUME NEW t \in Owners, NEW e \in EventIds, Ack(t, e)
       PROVE  PicksAllBelow'
  BY <1>2, <1>10 DEF Ack, RpcIdle
<1>11. ASSUME NEW connected \in BOOLEAN, ClaimWrite(connected)
       PROVE  PicksAllBelow'
  BY <1>1, <1>2, <1>8, <1>11 DEF ClaimWrite
<1>12. CASE Reclaim \/ AckMark \/ AckAdvance
  <2>1. rpc'.step # "reserve"
    BY <1>1, <1>12 DEF Reclaim, AckMark, AckAdvance, Rpc
  <2> QED
    BY <1>2, <2>1
<1> QED
  BY <1>2, <1>4, <1>5, <1>7, <1>9, <1>10, <1>11, <1>12 DEF Next, Handlers

\* A hand-over skips nothing: it gives all it picked that still can be given.
LEMMA ReserveSkipsNothing ==
  ASSUME Known, NoneSkipped, Reserve
  PROVE  CursorsSkipNothing'
<1> DEFINE t == rpc.term
           taken == {e \in rpc.picked : Listable(row[e], t)}
<1>1. /\ t \in Owners /\ scope' = scope /\ rpc.step = "reserve"
      /\ row' = [e \in EventIds |->
                   IF e \in taken THEN ReservedRow(row[e], t) ELSE row[e]]
  BY DEF Reserve, Known, Typed, HandlerHasTerminal
<1>2. ASSUME NEW e \in EventIds, Waits(row'[e])
      PROVE  row'[e] = row[e] /\ e \notin rpc.picked
  <2>1. row[e] \in Row
    BY KnownRow
  <2>2. ReservedRow(row[e], t).status = "delivered" \/ ReservedRow(row[e], t) = row[e]
    BY <2>1 DEF ReservedRow, Row
  <2>3. row'[e] = row[e]
    BY <1>1, <1>2, <2>2 DEF Waits
  <2>4. e \notin taken
    <3>1. row[e].status = "pending" => ReservedRow(row[e], t).status = "delivered"
      BY <2>1 DEF ReservedRow, Row
    <3> HIDE DEF taken
    <3> QED
      BY <1>1, <1>2, <2>3, <3>1 DEF Waits
  <2> QED
    BY <1>2, <2>3, <2>4 DEF Waits, Listable
<1>3. ASSUME NEW f \in EventIds
      PROVE  /\ EventWorkspace(row'[f]) = EventWorkspace(row[f])
             /\ row'[f].to = row[f].to \/ (f \in rpc.picked /\ row'[f].to = t)
  <2>1. row[f] \in Row
    BY KnownRow
  <2>2. /\ ReservedRow(row[f], t).pane = row[f].pane
        /\ ReservedRow(row[f], t).to \in {row[f].to, t}
    BY <2>1 DEF ReservedRow, Row
  <2> QED
    BY <1>1, <2>2 DEF EventWorkspace
<1> HIDE DEF t, taken
<1>4. ASSUME NEW u \in Owners, scope[Home[u]].exists
      PROVE  NothingBehind(u, scope[Home[u]].cursor, row')
  <2> SUFFICES ASSUME NEW e \in EventIds, NEW f \in EventIds,
                      row'[f].to = u, EventWorkspace(row'[f]) = Home[u],
                      e < f, e > scope[Home[u]].cursor, Waits(row'[e]),
                      IsDeliverable(row'[e], Home[u], u)
               PROVE  FALSE
    BY DEF NothingBehind
  <2>1. row'[e] = row[e] /\ e \notin rpc.picked
    BY <1>2
  <2>2. CASE row[f].to = u
    BY <1>3, <1>4, <2>1, <2>2 DEF NoneSkipped, CursorsSkipNothing, NothingBehind
  <2>3. CASE f \in rpc.picked /\ u = t
    BY <1>1, <1>4, <2>1, <2>3 DEF NoneSkipped, PicksAllBelow, t
  <2> QED
    BY <1>3, <2>2, <2>3
<1> QED
  BY <1>1, <1>4
  DEF CursorsSkipNothing, NothingBehind, EventWorkspace, Waits, IsDeliverable,
      NeedsNoAgent, FailedOrRetained, OrphanOutcome, Retained, Open

\* A claim that is written skips nothing.
LEMMA ClaimWriteSkipsNothing ==
  ASSUME Known, NoneSkipped, NEW connected \in BOOLEAN, ClaimWrite(connected)
  PROVE  CursorsSkipNothing'
<1> DEFINE w == Home[rpc.term]
<1>1. row' = row /\ rpc.step = "claim" /\ scope \in [Workspaces -> Scope]
  BY DEF ClaimWrite, Known, Typed, TypeOK
<1>2. \/ scope' = scope
      \/ scope' = [scope EXCEPT ![w] =
                     [exists |-> TRUE, cursor |-> rpc.cursor, owner |-> rpc.term,
                      updated |-> clock]]
  BY DEF ClaimWrite
<1> HIDE DEF w
<1>3. ASSUME NEW t \in Owners, scope'[Home[t]].exists
      PROVE  NothingBehind(t, scope'[Home[t]].cursor, row')
  <2>1. Home[t] \in Workspaces
    BY PaneAssumption
  <2>2. CASE scope'[Home[t]] = scope[Home[t]]
    BY <1>1, <1>3, <2>2 DEF NoneSkipped, CursorsSkipNothing
  <2>3. CASE Home[t] = w /\ scope'[Home[t]].cursor = rpc.cursor
    BY <1>1, <2>3 DEF NoneSkipped, ClaimSkipsNothing, w
  <2> QED
    BY <1>1, <1>2, <2>1, <2>2, <2>3
<1> QED
  BY <1>3
  DEF CursorsSkipNothing, NothingBehind, EventWorkspace, Waits, IsDeliverable,
      NeedsNoAgent, FailedOrRetained, OrphanOutcome, Retained, Open

\* Nothing is given at first.
LEMMA NoneSkippedInit == Init => NoneSkipped
<1> SUFFICES ASSUME Init PROVE NoneSkipped
  OBVIOUS
<1>1. NoScope.exists = FALSE /\ RpcIdle.step = "idle"
  BY DEF NoScope, RpcIdle
<1>2. \A t \in Owners : ~scope[Home[t]].exists
  BY <1>1, PaneAssumption DEF Init
<1> QED
  BY <1>1, <1>2
  DEF Init, NoneSkipped, CursorsSkipNothing, ClaimSkipsNothing, ServesHome,
      PicksAllBelow, MarksOneWorkspace

\* The handlers never skip an event.
LEMMA AlwaysNoneSkipped == Spec => []NoneSkipped
<1>1. Known /\ NoneSkipped /\ [Next]_vars => NoneSkipped'
  <2> SUFFICES ASSUME Known, NoneSkipped, [Next]_vars PROVE NoneSkipped'
    OBVIOUS
  <2>1. CursorsSkipNothing'
    BY CursorsKept, OnlyClaimsOpen, ReserveSkipsNothing, ClaimWriteSkipsNothing
  <2> QED
    BY <2>1, ClaimsKept, PositionsKept, PicksKept DEF NoneSkipped
<1> QED
  BY <1>1, AlwaysKnown, NoneSkippedInit, PTL DEF Spec

\* When an owner acknowledges what it was given, the sweep below it reaches no
\* waiting event that could still be given and never was.
THEOREM SweepSparesUnseen == Spec => AckSparesUnseen
<1>1. Known /\ Remembered /\ NoneSkipped /\ [Next]_vars =>
        \A e \in EventIds :
          LET t == rpc.term IN
          /\ rpc.step = "mark" /\ rpc' # rpc
          /\ row[rpc.event].to = t /\ scope[Home[t]].exists
          /\ e # rpc.event /\ row[e].status = "pending" /\ row'[e].status = "acked"
          => row[e].attempts > 0 \/ e \notin DeliverableAfter(t, {Home[t]})
  <2> DEFINE t == rpc.term
  <2> SUFFICES ASSUME Known, Remembered, NoneSkipped, [Next]_vars, NEW e \in EventIds,
                      rpc.step = "mark", rpc' # rpc,
                      row[rpc.event].to = t, scope[Home[t]].exists,
                      e # rpc.event, row[e].status = "pending",
                      row'[e].status = "acked",
                      ~(row[e].attempts > 0), e \in DeliverableAfter(t, {Home[t]})
               PROVE  FALSE
    OBVIOUS
  <2>1. t \in Owners /\ rpc.event \in EventIds
    BY DEF Known, Typed, HandlerHasTerminal, Remembered, MarkInReach
  <2>2. row' # row
    OBVIOUS
  <2>3. AckMark
    <3>1. ~Crash /\ ~(Reconciler /\ rpc' # rpc) /\ ~(Index /\ rpc' # rpc)
      BY <2>2 DEF Crash, Reconciler, Index, RecSnapshot, RecList, RecExpire, RecPurge,
                  RecApply, RecSelfAck, Append, CloseInvalidate, CloseRetire,
                  CloseRelease, Refresh, tables
    <3> QED
      BY <3>1 DEF Next, Environment, Tick, PaneCloses, PaneOpens, vars, Handlers,
                  Get, Claim, TurnOff, PresenceLost, Ack, ClaimWrite, Reclaim, Select,
                  Reserve, AckAdvance
  <2>4. e \in Swept
    BY <2>2, <2>3 DEF AckMark
  <2>5. Home[t] \in rpc.served /\ e <= rpc.event
    BY <2>4 DEF Swept
  <2>6. EventWorkspace(row[rpc.event]) = Home[t]
    <3>1. row[rpc.event].status # "none"
      <4>1. t # None /\ NoRow.to = None
        BY <2>1, PaneAssumption DEF NoRow
      <4> QED
        BY <2>1, <4>1, KnownRow DEF Columns
    <3> QED
      BY <2>5, <3>1 DEF Remembered, MarkInReach, NoneSkipped, MarksOneWorkspace
  <2>7. e < rpc.event
    BY <2>1, <2>5, BoundAssumption DEF EventIds
  <2>8. Waits(row[e])
    BY KnownRow, BoundAssumption DEF Waits, Row
  <2>9. e > scope[Home[t]].cursor /\ IsDeliverable(row[e], Home[t], t)
    BY DEF DeliverableAfter
  <2> QED
    BY <2>1, <2>6, <2>7, <2>8, <2>9 DEF NoneSkipped, CursorsSkipNothing, NothingBehind
<1> QED
  BY <1>1, AlwaysRemembered, AlwaysNoneSkipped, PTL DEF Spec, AckSparesUnseen

=============================================================================
