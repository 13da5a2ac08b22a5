--------------------------- MODULE MCAgentEvents ---------------------------
(* Small instances of AgentEvents.  The full next-state relation interleaves
   three activities; the larger instances leave one of them out.

   The last section states what comments of the repository claim and the code
   does not keep: each property there has a run that finds it violated. *)
EXTENDS AgentEvents

CONSTANTS o1, o2, p1, p2, w1, w2

\* All panes in one workspace.
HomeShared == [p \in Panes |-> w1]
\* The second pane of each kind lives in the second workspace.
HomeSplit == [p \in Panes |-> IF p \in {o2, p2} THEN w2 ELSE w1]

Herdr == \E p \in Panes : PaneCloses(p) \/ PaneOpens(p)

\* RPC handlers against the index service.
DeliverySpec == Init /\ [][Handlers \/ Index \/ Herdr \/ Tick]_vars
FairSpec ==
  /\ Init /\ [][Handlers \/ Index \/ \E p \in Panes : PaneCloses(p)]_vars
  /\ Fairness

\* Three instances side by side, told apart by the second owner's pane.
\*   Alone (it does not exist): every action, Apart, on one failure of either pane; the
\*   owner's own comes at the start and leaves the third pane open, the third
\*   pane's while there is time for it to age.
\*   Beside (it is open): handlers and index service, on one outcome of the third
\*   pane; the owners' panes stay open.
\*   Reuse (it was opened twice and is gone): handlers and index service, on an
\*   outcome and then a failure of the third pane, whose id is used twice.
Reuse == opened[o2] = 2
Alone == o2 \notin live /\ ~Reuse
ApartInit(uses) ==
  /\ clock = 0 /\ lastId = 0 /\ row = [e \in EventIds |-> NoRow]
  /\ agents = [p \in Panes |-> IF p = o2 THEN 0 ELSE 1]
  /\ scope = [w \in Workspaces |-> NoScope]
  /\ opened = [p \in Panes |-> IF p = o2 THEN uses ELSE 1]
  /\ live = Panes \ {o2} /\ closing = {}
  /\ rpc = RpcIdle /\ ix = IxIdle /\ rec = RecIdle
\* Of RPC handler, index service and reconciler at most two are under way at a
\* time, and no pane.closed event waits for the index service while the other two
\* are.
Apart == rpc' = RpcIdle \/ rec' = RecIdle \/ (ix' = IxIdle /\ closing' = {})
AloneNext ==
  /\ Alone /\ Next /\ Apart
  /\ rpc'.term # o2 /\ opened' = opened /\ lastId' <= 1
  /\ row'[1].status # "none" => row'[1].type = "failed"
  /\ lastId' = 1 => IF row'[1].pane = p1 THEN clock < 2 \/ lastId = 1
                                        ELSE p1 \in live' /\ (clock = 0 \/ lastId = 1)
BesideNext ==
  /\ ~Alone /\ ~Reuse /\ (Handlers \/ Index \/ PaneCloses(p1))
  /\ lastId' <= 1
  /\ lastId' # lastId => row'[lastId'].pane = p1 /\ row'[lastId'].type # "failed"
ReuseNext ==
  /\ Reuse /\ (Handlers \/ Index \/ PaneCloses(p1) \/ PaneOpens(p1))
  /\ rpc'.term # o2
  /\ lastId' # lastId => /\ row'[lastId'].pane = p1
                         /\ row'[lastId'].type = "failed" <=> lastId = 1
WholeSpec ==
  /\ Init \/ ApartInit(1) \/ ApartInit(2)
  /\ [][AloneNext \/ BesideNext \/ ReuseNext]_vars

\* RPC handlers against the reconciler and the index service.
SweepSpec == Init /\ [][Handlers \/ Reconciler \/ Index \/ Herdr \/ Tick]_vars

----------------------------------------------------------------------------
(* Claims of the repository that the code does not keep *)

\* "when the explicit close already consumed a delivered row, the whole pane
\* incarnation is settled" (invalidatePaneCore): an event such a close left
\* undeliverable does not come back as a retained event.
SettledByClose(e) ==
  /\ row[e].status = "invalidated" /\ ~row[e].deliverable
  /\ row[e].reason \in {"closed", "legacy"}
  /\ \E d \in EventIds : /\ row[d].pane = row[e].pane /\ row[d].inc = row[e].inc
                         /\ row[d].status = "acked" /\ row[d].attempts > 0
SettledIncarnationStaysSettled ==
  [][\A e \in EventIds : SettledByClose(e) => ~Retained(row'[e])]_vars

\* "only two different non-null generations mean the pane was re-created and
\* the old generation's events are stale" (paneMatchesEvent): the sweep leaves
\* the pending events of the incarnation that lives now alone.
Current(r) == r.pane \in live /\ r.inc = opened[r.pane] /\ ~r.orphan
SweepSparesLiveIncarnation ==
  [][\A e \in EventIds :
       /\ rec.step = "walk" /\ rec' # rec
       /\ Open(row[e]) /\ Current(row[e])
       => Open(row'[e])]_vars
=============================================================================
