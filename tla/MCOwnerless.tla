---------------------------- MODULE MCOwnerless ----------------------------
(* AgentEvents with a record of the events appended while their workspace,
   claimed before, had no owner. *)
EXTENDS MCAgentEvents

VARIABLE ownerless

OwnerlessAppend ==
  IF lastId' # lastId /\ scope[EventWorkspace(row'[lastId'])].exists
                      /\ scope[EventWorkspace(row'[lastId'])].owner = None
  THEN ownerless \cup {lastId'} ELSE ownerless

OwnerlessSpec ==
  /\ Init /\ ownerless = {}
  /\ [][(Handlers \/ Index) /\ ownerless' = OwnerlessAppend]_<<vars, ownerless>>

\* "outcomes created during the ownerless period are not replayed by a later
\* claim" (README): nobody is ever given one of them.
NoOwnerlessReplay == \A e \in ownerless : row[e].to = None
=============================================================================
