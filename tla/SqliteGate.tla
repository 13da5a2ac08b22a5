----------------------------- MODULE SqliteGate -----------------------------
(* The database gate: one SQLite connection shared by every goroutine of the
   daemon, serialised by a lock that is reentrant per goroutine.

   owner, depth and wake are the fields of SqliteGate; the gate's own mutex
   makes each action atomic.  A goroutine acquires the gate once for every
   statement, once more for the rows a query returned, and once around a whole
   RunSqliteTransaction.  at[g] is its place in RunSqliteTransaction, call[g]
   what it acquires the gate for and acq[g] how far Acquire has got. *)
EXTENDS Integers

CONSTANTS
  Goroutines,
  Anonymous,    \* goroutines whose id cannot be parsed: goroutineID gives 0
  MaxRows,      \* bound: open row sets of one goroutine
  Free          \* owner 0: of the free gate, and of an anonymous goroutine

ASSUME GateAssumption ==
  Anonymous \subseteq Goroutines /\ MaxRows \in Nat /\ Free \notin Goroutines

VARIABLES
  owner, depth,
  wake,         \* the one-slot channel: not made yet, empty or full
  at, call, acq,
  rows,         \* gate levels held by open rows
  tx,           \* the goroutine whose transaction is open on the connection
  closed        \* the driver connection has been closed

gate == <<owner, depth, wake>>
vars == <<owner, depth, wake, at, call, acq, rows, tx, closed>>

Places == {"idle", "begin", "body", "commit", "undo", "unwind", "settle",
           "repanic", "leave"}
Calls == {"none", "gate", "begin", "exec", "query", "commit", "rollback", "close"}
Stages == {"no", "wait", "recheck", "held"}

Gid(g) == IF g \in Anonymous THEN Free ELSE g

Init ==
  /\ owner = Free /\ depth = 0 /\ wake = "none"
  /\ at = [g \in Goroutines |-> "idle"]
  /\ call = [g \in Goroutines |-> "none"]
  /\ acq = [g \in Goroutines |-> "no"]
  /\ rows = [g \in Goroutines |-> 0]
  /\ tx = Free /\ closed = FALSE

----------------------------------------------------------------------------
(* Acquire *)

Grantable(g) == depth = 0 \/ (Gid(g) # Free /\ owner = Gid(g))

\* The outer acquire of RunSqliteTransaction moves on to its begin; any other
\* one lets the statement into the driver.
Grant(g, c) ==
  /\ owner' = Gid(g)
  /\ depth' = depth + 1
  /\ call' = [call EXCEPT ![g] = IF c = "gate" THEN "none" ELSE c]
  /\ acq' = [acq EXCEPT ![g] = IF c = "gate" THEN "no" ELSE "held"]
  /\ at' = IF c = "gate" THEN [at EXCEPT ![g] = "begin"] ELSE at

\* What g may run next, by its place.
Runs(g, c) ==
  \/ at[g] = "idle" /\ c \in {"gate", "exec", "query"}
  \/ at[g] = "idle" /\ c = "close" /\ rows[g] = 0 /\ ~closed
     /\ \A h \in Goroutines : call[h] # "close"
  \/ at[g] = "begin" /\ c = "begin"
  \/ at[g] = "body" /\ c \in {"exec", "query"}
  \/ at[g] = "commit" /\ c = "commit"
  \/ at[g] \in {"undo", "unwind"} /\ c = "rollback"

Acquire(g, c) ==
  /\ call[g] = "none"
  /\ Runs(g, c)
  /\ IF Grantable(g) THEN Grant(g, c) /\ wake' = wake
     ELSE /\ wake' = IF wake = "none" THEN "empty" ELSE wake
          /\ call' = [call EXCEPT ![g] = c]
          /\ acq' = [acq EXCEPT ![g] = "wait"]
          /\ UNCHANGED <<owner, depth, at>>
  /\ UNCHANGED <<rows, tx, closed>>

TakeWake(g) ==
  /\ acq[g] = "wait" /\ wake = "full"
  /\ wake' = "empty"
  /\ acq' = [acq EXCEPT ![g] = "recheck"]
  /\ UNCHANGED <<owner, depth, at, call, rows, tx, closed>>

\* The timed round expires: it is reported and then rechecked like a wake.
Expire(g) ==
  /\ acq[g] = "wait"
  /\ acq' = [acq EXCEPT ![g] = "recheck"]
  /\ UNCHANGED <<gate, at, call, rows, tx, closed>>

\* Mutant: whoever was woken takes the gate without looking again.
RecheckBlind(g) ==
  /\ acq[g] = "recheck"
  /\ Grant(g, call[g])
  /\ UNCHANGED <<wake, rows, tx, closed>>
Recheck(g) ==
  /\ acq[g] = "recheck"
  /\ IF Grantable(g) THEN Grant(g, call[g])
     ELSE acq' = [acq EXCEPT ![g] = "wait"] /\ UNCHANGED <<owner, depth, at, call>>
  /\ UNCHANGED <<wake, rows, tx, closed>>

----------------------------------------------------------------------------
(* Release *)

\* Mutant: the send finds no slot.
Unsignalled == wake
Signalled == IF wake = "none" THEN "none" ELSE "full"

\* Mutant: the caller is not compared with the owner.
ReleaseAny(g) ==
  IF depth = 0 THEN UNCHANGED gate
  ELSE /\ depth' = depth - 1
       /\ IF depth = 1 THEN owner' = Free /\ wake' = Signalled
          ELSE UNCHANGED <<owner, wake>>
Release(g) ==
  IF depth = 0 \/ owner # Gid(g) THEN UNCHANGED gate
  ELSE /\ depth' = depth - 1
       /\ IF depth = 1 THEN owner' = Free /\ wake' = Signalled
          ELSE UNCHANGED <<owner, wake>>

ReleaseAll(g) ==
  IF depth = 0 \/ owner # Gid(g) THEN UNCHANGED gate
  ELSE depth' = 0 /\ owner' = Free /\ wake' = Signalled

----------------------------------------------------------------------------
(* Statements: the serializedConn holds one level while the driver runs *)

InDriver(g, c) == acq[g] = "held" /\ call[g] = c
Left(g) ==
  /\ call' = [call EXCEPT ![g] = "none"]
  /\ acq' = [acq EXCEPT ![g] = "no"]

Exec(g) ==
  /\ InDriver(g, "exec")
  /\ Left(g) /\ Release(g)
  /\ UNCHANGED <<at, rows, tx, closed>>

\* The rows keep the level until they are closed; a failed query drops it.
Query(g) ==
  /\ InDriver(g, "query")
  /\ Left(g)
  /\ \/ /\ rows[g] < MaxRows /\ ~closed
        /\ rows' = [rows EXCEPT ![g] = @ + 1]
        /\ UNCHANGED gate
     \/ Release(g) /\ rows' = rows
  /\ UNCHANGED <<at, tx, closed>>

\* Mutant: closing rows a second time is not noticed.
CloseRowsAgain(g) ==
  /\ call[g] = "none"
  /\ at[g] \in {"idle", "body"}
  /\ rows' = [rows EXCEPT ![g] = @ - 1]
  /\ Release(g)
  /\ UNCHANGED <<at, call, acq, tx, closed>>
CloseRows(g) ==
  /\ call[g] = "none" /\ rows[g] > 0
  /\ at[g] \in {"idle", "body"}
  /\ rows' = [rows EXCEPT ![g] = @ - 1]
  /\ Release(g)
  /\ UNCHANGED <<at, call, acq, tx, closed>>

\* serializedConnector.Close
CloseConn(g) ==
  /\ InDriver(g, "close")
  /\ closed' = TRUE
  /\ Left(g) /\ Release(g)
  /\ UNCHANGED <<at, rows, tx>>

----------------------------------------------------------------------------
(* RunSqliteTransaction *)

Goto(g, place) == at' = [at EXCEPT ![g] = place]

\* SQLite refuses a begin inside an open transaction, and may be busy.
Begin(g) ==
  /\ InDriver(g, "begin")
  /\ \/ tx = Free /\ ~closed /\ tx' = g /\ Goto(g, "body")
     \/ tx' = tx /\ Goto(g, "leave")
  /\ Left(g) /\ Release(g)
  /\ UNCHANGED <<rows, closed>>

FnReturns(g) ==
  /\ at[g] = "body" /\ call[g] = "none"
  /\ Goto(g, "commit") \/ Goto(g, "undo")
  /\ UNCHANGED <<gate, call, acq, rows, tx, closed>>

\* A panic leaves the levels of open rows behind, and a panicking query the
\* level it holds itself.
FnPanics(g) ==
  /\ at[g] = "body"
  /\ \/ call[g] = "none" /\ UNCHANGED <<call, acq, rows>>
     \/ /\ InDriver(g, "query") /\ rows[g] < MaxRows
        /\ rows' = [rows EXCEPT ![g] = @ + 1]
        /\ Left(g)
  /\ Goto(g, "unwind")
  /\ UNCHANGED <<gate, tx, closed>>

\* A failed commit leaves the transaction open: it is rolled back.
\* Mutant: it is not.
CommitOnly(g) ==
  /\ InDriver(g, "commit")
  /\ \/ tx' = Free /\ Goto(g, "leave")
     \/ tx' = tx /\ Goto(g, "leave")
  /\ Left(g) /\ Release(g)
  /\ UNCHANGED <<rows, closed>>
Commit(g) ==
  /\ InDriver(g, "commit")
  /\ \/ tx' = Free /\ Goto(g, "leave")
     \/ tx' = tx /\ Goto(g, "undo")
  /\ Left(g) /\ Release(g)
  /\ UNCHANGED <<rows, closed>>

Rollback(g) ==
  /\ InDriver(g, "rollback")
  /\ tx' = Free
  /\ Goto(g, IF at[g] = "undo" THEN "leave" ELSE "settle")
  /\ Left(g) /\ Release(g)
  /\ UNCHANGED <<rows, closed>>

Settle(g) ==
  /\ at[g] = "settle"
  /\ ReleaseAll(g)
  /\ rows' = [rows EXCEPT ![g] = 0]
  /\ Goto(g, "repanic")
  /\ UNCHANGED <<call, acq, tx, closed>>

\* The deferred release of the outer level; after Settle there is none left.
Leave(g) ==
  /\ at[g] \in {"leave", "repanic"}
  /\ Release(g)
  /\ Goto(g, "idle")
  /\ UNCHANGED <<call, acq, rows, tx, closed>>

Holder(g) ==
  \/ Exec(g) \/ Query(g) \/ CloseRows(g) \/ CloseConn(g)
  \/ Begin(g) \/ FnReturns(g) \/ FnPanics(g) \/ Commit(g) \/ Rollback(g)
  \/ Settle(g) \/ Leave(g)
Step(g) ==
  \/ \E c \in Calls : Acquire(g, c)
  \/ TakeWake(g) \/ Recheck(g) \/ Holder(g)

Next == \E g \in Goroutines : Step(g) \/ Expire(g)
Spec == Init /\ [][Next]_vars

----------------------------------------------------------------------------
(* Properties *)

\* Every variable stays in its domain.
TypeOK ==
  /\ owner \in Goroutines \cup {Free} /\ depth \in Nat
  /\ wake \in {"none", "empty", "full"}
  /\ at \in [Goroutines -> Places]
  /\ call \in [Goroutines -> Calls]
  /\ acq \in [Goroutines -> Stages]
  /\ rows \in [Goroutines -> 0..MaxRows]
  /\ tx \in Goroutines \cup {Free} /\ closed \in BOOLEAN

\* The levels g has to give back: its open rows, the statement it has in the
\* driver and the transaction it is in.
Levels(g) ==
  rows[g] + (IF acq[g] = "held" THEN 1 ELSE 0)
          + (IF at[g] \in {"idle", "repanic"} THEN 0 ELSE 1)

\* The gate's depth is what its one holder has to give back: through reentry,
\* rows that outlive their statement, failed statements and panics no level is
\* lost (the gate would stay taken for ever) and none is released twice.
LevelsAgree ==
  \/ depth = 0 /\ owner = Free /\ \A g \in Goroutines : Levels(g) = 0
  \/ /\ depth > 0
     /\ \E h \in Goroutines :
          /\ owner = Gid(h) /\ Levels(h) = depth
          /\ \A g \in Goroutines \ {h} : Levels(g) = 0

\* While a transaction is open its goroutine holds the gate and is still on its
\* way to commit or roll back: no statement of another goroutine joins it, and
\* it is not left behind on the shared connection, neither by a failed commit
\* nor by a panic.
TransactionWindow ==
  tx # Free =>
    /\ depth > 0 /\ owner = Gid(tx)
    /\ at[tx] \in {"body", "commit", "undo", "unwind"}

\* A begin that reaches the driver finds no transaction open ("cannot start a
\* transaction within a transaction").
BeginFindsNone == \A g \in Goroutines : InDriver(g, "begin") => tx = Free

\* No lost wakeup: when the gate is free and somebody waits, a signal is
\* buffered or a waiter is about to look.
NoLostWakeup ==
  depth = 0 /\ (\E g \in Goroutines : acq[g] = "wait") =>
    wake = "full" \/ \E g \in Goroutines : acq[g] = "recheck"

(* Liveness, without any fairness of the timed rounds: they only report. *)
Fairness ==
  \A g \in Goroutines :
    /\ WF_vars(TakeWake(g)) /\ WF_vars(Recheck(g))
    /\ WF_vars(at[g] \in {"unwind", "settle", "repanic"} /\ Step(g))
FairSpec == Spec /\ Fairness

\* A free gate that somebody waits for is taken, no timer needed.
GateIsTaken ==
  (depth = 0 /\ \E g \in Goroutines : acq[g] = "wait") ~> depth > 0

\* A goroutine that panics inside a transaction ends up without the gate,
\* whatever rows it left open.
PanicFreesGate ==
  \A g \in Goroutines : at[g] = "unwind" ~> Levels(g) = 0 /\ (depth = 0 \/ owner # Gid(g))

=============================================================================
