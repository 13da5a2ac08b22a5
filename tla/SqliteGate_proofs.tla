-------------------------- MODULE SqliteGate_proofs --------------------------
(* Machine-checked proofs of the safety properties of SqliteGate, for every set
   of goroutines.  IInv is the inductive invariant: beside the properties it
   records which place in RunSqliteTransaction every call and every open
   transaction belongs to, and that an anonymous goroutine, which cannot
   re-enter, never gets a transaction open. *)
EXTENDS SqliteGate, TLAPS

Transacting == {"body", "commit", "undo", "unwind"}

\* The stage of an acquire, its purpose and its place agree.
CallFits(g) ==
  /\ call[g] = "none" <=> acq[g] = "no"
  /\ call[g] = "gate" => at[g] = "idle" /\ acq[g] # "held"
  /\ call[g] = "begin" => at[g] = "begin"
  /\ call[g] = "commit" => at[g] = "commit"
  /\ call[g] = "rollback" => at[g] \in {"undo", "unwind"}
  /\ call[g] \in {"exec", "query"} => at[g] \in {"idle", "body"}
  /\ call[g] = "close" => at[g] = "idle"
  /\ at[g] = "repanic" => rows[g] = 0 /\ acq[g] = "no"
  /\ at[g] \in Transacting => tx = g
  /\ acq[g] \in {"wait", "recheck"} => wake # "none"
  /\ g \in Anonymous => at[g] \in {"idle", "begin"} /\ ~InDriver(g, "begin")

IInv ==
  /\ TypeOK /\ LevelsAgree /\ TransactionWindow /\ NoLostWakeup
  /\ \A g \in Goroutines : CallFits(g)

----------------------------------------------------------------------------

\* Only the holder of the gate has anything to give back.
LEMMA HolderIsUnique ==
  ASSUME TypeOK, LevelsAgree, NEW g \in Goroutines, Levels(g) # 0
  PROVE  /\ depth = Levels(g) /\ depth \in Nat \ {0} /\ owner = Gid(g)
         /\ \A h \in Goroutines \ {g} : Levels(h) = 0
BY DEF TypeOK, LevelsAgree

\* Levels are natural numbers.
LEMMA LevelsNat ==
  ASSUME TypeOK, NEW g \in Goroutines
  PROVE  Levels(g) \in Nat
BY GateAssumption DEF TypeOK, Levels

\* Giving back one of the levels one has keeps the books; the gate becomes free
\* exactly with the last level, and is then signalled.
LEMMA ReleaseAgrees ==
  ASSUME TypeOK, LevelsAgree, NEW g \in Goroutines, Levels(g) # 0, Release(g),
         Levels(g)' = Levels(g) - 1,
         \A h \in Goroutines \ {g} : Levels(h)' = Levels(h)
  PROVE  /\ LevelsAgree'
         /\ depth' \in Nat /\ owner' \in Goroutines \cup {Free}
         /\ wake' \in {"none", "empty", "full"}
         /\ depth' = 0 => wake' = Signalled
         /\ depth' # 0 => owner' = owner
         /\ wake = "none" <=> wake' = "none"
         /\ Levels(g)' # 0 => depth' # 0 /\ owner' = owner
<1>1. /\ depth = Levels(g) /\ depth \in Nat \ {0} /\ owner = Gid(g)
      /\ \A h \in Goroutines \ {g} : Levels(h) = 0
  BY HolderIsUnique
<1>2. depth' = depth - 1 /\ Levels(g)' = depth'
  BY <1>1 DEF Release
<1>3. CASE depth = 1
  <2>1. depth' = 0 /\ owner' = Free /\ wake' = Signalled
    BY <1>1, <1>2, <1>3 DEF Release
  <2>2. \A h \in Goroutines : Levels(h)' = 0
    BY <1>1, <1>2, <2>1
  <2> QED BY <1>2, <2>1, <2>2 DEF LevelsAgree, Signalled, TypeOK
<1>4. CASE depth # 1
  <2>1. owner' = owner /\ wake' = wake /\ depth' > 0 /\ depth' \in Nat
    BY <1>1, <1>2, <1>4 DEF Release
  <2>2. owner' = Gid(g)' /\ \A h \in Goroutines \ {g} : Levels(h)' = 0
    BY <1>1, <2>1 DEF Gid
  <2> QED BY <1>2, <2>1, <2>2 DEF LevelsAgree, TypeOK
<1> QED BY <1>3, <1>4

\* Taking a level of a gate that may be taken keeps the books.
LEMMA GrantAgrees ==
  ASSUME TypeOK, LevelsAgree, NEW g \in Goroutines, Grantable(g),
         owner' = Gid(g), depth' = depth + 1, Levels(g)' = Levels(g) + 1,
         \A h \in Goroutines \ {g} : Levels(h)' = Levels(h)
  PROVE  LevelsAgree' /\ depth' \in Nat \ {0} /\ owner' \in Goroutines \cup {Free}
<1>1. depth' \in Nat \ {0} /\ owner' \in Goroutines \cup {Free}
  BY GateAssumption DEF TypeOK, Gid
<1>2. Levels(g) = depth /\ \A h \in Goroutines \ {g} : Levels(h) = 0
  <2>1. CASE depth = 0
    BY <2>1 DEF LevelsAgree
  <2>2. CASE depth # 0
    <3>1. Gid(g) # Free /\ owner = Gid(g)
      BY <2>2 DEF Grantable
    <3>2. PICK h \in Goroutines : /\ owner = Gid(h) /\ Levels(h) = depth
                                  /\ \A k \in Goroutines \ {h} : Levels(k) = 0
      BY <2>2 DEF LevelsAgree
    <3>3. h = g
      BY <3>1, <3>2, GateAssumption DEF Gid
    <3> QED BY <3>2, <3>3
  <2> QED BY <2>1, <2>2
<1>3. Levels(g)' = depth' /\ \A h \in Goroutines \ {g} : Levels(h)' = 0
  BY <1>2
<1> QED BY <1>1, <1>3 DEF LevelsAgree, Gid

\* A step that moves no level and leaves the gate alone keeps the books.
LEMMA KeepAgrees ==
  ASSUME LevelsAgree, owner' = owner, depth' = depth,
         \A h \in Goroutines : Levels(h)' = Levels(h)
  PROVE  LevelsAgree'
BY DEF LevelsAgree, Gid

\* While a transaction is open nobody else has anything to give back.
LEMMA TransactionIsHolders ==
  ASSUME IInv, NEW g \in Goroutines, Levels(g) # 0
  PROVE  tx \in {Free, g}
<1> SUFFICES ASSUME tx # Free, tx # g PROVE FALSE
  OBVIOUS
<1>1. tx \in Goroutines /\ at[tx] \in Transacting
  BY DEF IInv, TypeOK, TransactionWindow, Transacting
<1>2. Levels(tx) # 0
  BY <1>1, GateAssumption DEF IInv, TypeOK, Levels, Transacting
<1> QED BY <1>1, <1>2, HolderIsUnique DEF IInv

\* A transaction is only ever open for a goroutine that can re-enter.
LEMMA GidOfTransaction ==
  ASSUME IInv, tx # Free
  PROVE  tx \in Goroutines /\ tx \notin Anonymous /\ Gid(tx) = tx /\ owner = tx
BY GateAssumption DEF IInv, TypeOK, TransactionWindow, CallFits, Gid

\* Everything but the books follows locally for a step of g that gives back one
\* of g's levels: the waiters are signalled and an open transaction stays held.
LEMMA ReleaseKeepsRest ==
  ASSUME IInv, NEW g \in Goroutines, Levels(g) # 0, Release(g),
         Levels(g)' = Levels(g) - 1,
         \A h \in Goroutines \ {g} : Levels(h)' = Levels(h),
         tx' # Free => tx' = g /\ at'[g] \in Transacting /\ Levels(g)' # 0,
         acq'[g] = "no",
         \A h \in Goroutines \ {g} : acq'[h] = acq[h]
  PROVE  /\ LevelsAgree' /\ TransactionWindow' /\ NoLostWakeup'
         /\ depth' \in Nat /\ owner' \in Goroutines \cup {Free}
         /\ wake' \in {"none", "empty", "full"}
         /\ wake = "none" <=> wake' = "none"
<1>1. /\ LevelsAgree'
      /\ depth' \in Nat /\ owner' \in Goroutines \cup {Free}
      /\ wake' \in {"none", "empty", "full"}
      /\ depth' = 0 => wake' = Signalled
      /\ wake = "none" <=> wake' = "none"
      /\ Levels(g)' # 0 => depth' # 0 /\ owner' = owner
  BY ReleaseAgrees DEF IInv
<1>2. owner = Gid(g)
  BY HolderIsUnique DEF IInv
<1>3. TransactionWindow'
  BY <1>1, <1>2 DEF TransactionWindow, Transacting, Gid
<1>4. NoLostWakeup'
  <2> SUFFICES ASSUME depth' = 0, NEW h \in Goroutines, acq'[h] = "wait"
               PROVE  wake' = "full"
    BY DEF NoLostWakeup
  <2>1. acq[h] = "wait" /\ wake # "none"
    BY DEF IInv, CallFits
  <2> QED BY <1>1, <2>1 DEF Signalled
<1> QED BY <1>1, <1>3, <1>4


----------------------------------------------------------------------------

\* The invariant holds initially.
LEMMA InitInv == ASSUME Init PROVE IInv
<1> USE GateAssumption DEF Init
<1>1. TypeOK
  <2>1. closed \in BOOLEAN
    OBVIOUS
  <2>2. rows \in [Goroutines -> 0..MaxRows]
    OBVIOUS
  <2> QED BY <2>1, <2>2 DEF TypeOK, Places, Calls, Stages
<1>2. LevelsAgree
  BY DEF LevelsAgree, Levels
<1>3. TransactionWindow /\ NoLostWakeup
  BY DEF TransactionWindow, NoLostWakeup
<1>4. \A g \in Goroutines : CallFits(g)
  BY DEF CallFits, InDriver, Transacting
<1> QED BY <1>1, <1>2, <1>3, <1>4 DEF IInv

\* Granting the gate to g for c, as Acquire and Recheck do.
LEMMA GrantInv ==
  ASSUME IInv, NEW g \in Goroutines, NEW c \in Calls, Grantable(g), Grant(g, c),
         acq[g] # "held", Runs(g, c) \/ call[g] = c, c # "none",
         UNCHANGED <<wake, rows, tx, closed>>
  PROVE  IInv'
<1> USE GateAssumption DEF IInv, Grant
<1>0. TypeOK /\ LevelsAgree /\ CallFits(g)
  OBVIOUS
<1>a. /\ c = "gate" => at[g] = "idle"
      /\ c = "begin" => at[g] = "begin"
      /\ c = "commit" => at[g] = "commit"
      /\ c = "rollback" => at[g] \in {"undo", "unwind"}
      /\ c \in {"exec", "query"} => at[g] \in {"idle", "body"}
      /\ c = "close" => at[g] = "idle"
  BY <1>0 DEF Runs, CallFits
<1>1. Levels(g)' = Levels(g) + 1
  <2>1. CASE c = "gate"
    BY <1>0, <1>a, <2>1 DEF Levels, TypeOK
  <2>2. CASE c # "gate"
    BY <1>0, <2>2 DEF Levels, TypeOK
  <2> QED BY <2>1, <2>2
<1>2. \A h \in Goroutines \ {g} : Levels(h)' = Levels(h)
  BY <1>0 DEF Levels, TypeOK
<1>3. LevelsAgree' /\ depth' \in Nat \ {0} /\ owner' \in Goroutines \cup {Free}
  BY <1>0, <1>1, <1>2, GrantAgrees
<1>4. TypeOK'
  BY <1>0, <1>3 DEF TypeOK, Places, Calls, Stages
<1>5. TransactionWindow'
  <2> SUFFICES ASSUME tx # Free
               PROVE  owner' = Gid(tx) /\ at'[tx] \in {"body", "commit", "undo", "unwind"}
    BY <1>3 DEF TransactionWindow, Gid
  <2>1. depth > 0 /\ owner = Gid(tx) /\ at[tx] \in {"body", "commit", "undo", "unwind"}
    BY DEF TransactionWindow
  <2>2. owner' = Gid(tx)
    BY <1>0, <2>1 DEF Grantable, TypeOK
  <2> QED BY <1>0, <1>a, <2>1, <2>2 DEF TypeOK
<1>6. NoLostWakeup'
  BY <1>3 DEF NoLostWakeup
<1>7. ASSUME NEW h \in Goroutines \ {g} PROVE CallFits(h)'
  BY <1>0, <1>7 DEF CallFits, InDriver, Transacting, TypeOK
<1>8. CallFits(g)'
  <2>1. ASSUME g \in Anonymous, c = "begin" PROVE FALSE
    <3>1. at[g] = "begin"
      BY <1>a, <2>1
    <3>2. Levels(g) # 0
      BY <1>0, <3>1 DEF Levels, TypeOK
    <3>3. depth # 0
      BY <1>0, <3>2, HolderIsUnique
    <3> QED BY <2>1, <3>3 DEF Grantable, Gid
  <2>2. CASE c = "gate"
    BY <1>0, <1>a, <2>2 DEF CallFits, InDriver, Transacting, TypeOK
  <2>3. CASE c # "gate"
    <3>1. at' = at /\ call'[g] = c /\ acq'[g] = "held"
      BY <1>0, <2>3 DEF TypeOK
    <3> QED BY <1>0, <1>a, <2>1, <2>3, <3>1 DEF CallFits, InDriver, Transacting, Calls
  <2> QED BY <2>2, <2>3
<1> QED BY <1>3, <1>4, <1>5, <1>6, <1>7, <1>8


\* A step of g that gives back one level, after its statement or its rows or at
\* the end of its transaction, and goes where GoesTo allows.
LEMMA ReleaseInv ==
  ASSUME IInv, NEW g \in Goroutines, Levels(g) # 0, Release(g),
         Levels(g)' = Levels(g) - 1,
         call' \in [Goroutines -> Calls], acq' \in [Goroutines -> Stages],
         at' \in [Goroutines -> Places], rows' \in [Goroutines -> 0..MaxRows],
         tx' \in {Free, g}, closed' \in BOOLEAN,
         call'[g] = "none", acq'[g] = "no",
         \A h \in Goroutines \ {g} :
            /\ call'[h] = call[h] /\ acq'[h] = acq[h] /\ at'[h] = at[h]
            /\ rows'[h] = rows[h],
         tx' # Free <=> at'[g] \in Transacting,
         tx' # Free => Levels(g)' # 0,
         at'[g] = "repanic" => rows'[g] = 0,
         g \in Anonymous => at'[g] \in {"idle", "begin"}
  PROVE  IInv'
<1> USE DEF IInv
<1>0. TypeOK /\ LevelsAgree /\ GateAssumption
  BY GateAssumption
<1>1. \A h \in Goroutines \ {g} : Levels(h)' = Levels(h)
  BY DEF Levels
<1>2. tx' # Free => tx' = g /\ at'[g] \in Transacting /\ Levels(g)' # 0
  OBVIOUS
<1>3. /\ LevelsAgree' /\ TransactionWindow' /\ NoLostWakeup'
      /\ depth' \in Nat /\ owner' \in Goroutines \cup {Free}
      /\ wake' \in {"none", "empty", "full"}
      /\ wake = "none" <=> wake' = "none"
  BY <1>1, <1>2, ReleaseKeepsRest
<1>4. TypeOK'
  BY <1>0, <1>3 DEF TypeOK
<1>5. ASSUME NEW h \in Goroutines \ {g} PROVE CallFits(h)'
  <2>1. CallFits(h) /\ Levels(h) = 0
    BY <1>0, HolderIsUnique
  <2>2. at[h] \notin Transacting
    BY <1>0, <2>1 DEF Levels, TypeOK, Transacting
  <2> QED BY <1>3, <2>1, <2>2 DEF CallFits, InDriver
<1>6. CallFits(g)'
  BY <1>0, <1>3 DEF CallFits, InDriver, Transacting
<1> QED BY <1>3, <1>4, <1>5, <1>6

\* A step of g that moves no level and leaves the gate and the transaction alone.
LEMMA StayInv ==
  ASSUME IInv, NEW g \in Goroutines, UNCHANGED <<owner, depth, tx, closed>>,
         Levels(g)' = Levels(g),
         call' \in [Goroutines -> Calls], acq' \in [Goroutines -> Stages],
         at' \in [Goroutines -> Places], rows' \in [Goroutines -> 0..MaxRows],
         wake' \in {"none", "empty", "full"}, wake # "none" => wake' # "none",
         \A h \in Goroutines \ {g} :
            /\ call'[h] = call[h] /\ acq'[h] = acq[h] /\ at'[h] = at[h]
            /\ rows'[h] = rows[h],
         at'[g] \in Transacting <=> at[g] \in Transacting,
         NoLostWakeup', CallFits(g)'
  PROVE  IInv'
<1> USE DEF IInv
<1>0. TypeOK /\ LevelsAgree
  OBVIOUS
<1>1. \A h \in Goroutines : Levels(h)' = Levels(h)
  BY DEF Levels
<1>2. LevelsAgree'
  BY <1>1, KeepAgrees
<1>3. TypeOK'
  BY <1>0 DEF TypeOK
<1>4. TransactionWindow'
  <2> SUFFICES ASSUME tx # Free PROVE at'[tx] \in Transacting
    BY DEF TransactionWindow, Transacting, Gid
  <2>1. tx \in Goroutines /\ at[tx] \in Transacting
    BY <1>0 DEF TypeOK, TransactionWindow, Transacting
  <2> QED BY <2>1
<1>5. ASSUME NEW h \in Goroutines \ {g} PROVE CallFits(h)'
  BY <1>0 DEF CallFits, InDriver, Transacting
<1> QED BY <1>2, <1>3, <1>4, <1>5


\* What IInv says of the goroutine that steps.
LEMMA StepFacts ==
  ASSUME IInv, NEW g \in Goroutines
  PROVE  /\ TypeOK /\ LevelsAgree /\ CallFits(g) /\ NoLostWakeup /\ GateAssumption
         /\ call[g] \in Calls /\ acq[g] \in Stages /\ at[g] \in Places
         /\ rows[g] \in 0..MaxRows /\ rows[g] \in Nat /\ MaxRows \in Nat
         /\ Levels(g) # 0 => tx \in {Free, g}
         /\ tx = g => at[g] \in Transacting
         /\ at[g] \in Transacting => tx = g
<1>1. Levels(g) # 0 => tx \in {Free, g}
  BY TransactionIsHolders
<1> QED BY <1>1, GateAssumption DEF IInv, TypeOK, TransactionWindow, CallFits, Transacting

\* A statement that leaves the driver.
LEMMA LeftTypes ==
  ASSUME TypeOK, NEW g \in Goroutines, Left(g)
  PROVE  /\ call' \in [Goroutines -> Calls] /\ acq' \in [Goroutines -> Stages]
         /\ call'[g] = "none" /\ acq'[g] = "no"
         /\ \A h \in Goroutines \ {g} : call'[h] = call[h] /\ acq'[h] = acq[h]
BY DEF TypeOK, Left, Calls, Stages

\* Acquire grants the gate or queues.
LEMMA AcquireInv ==
  ASSUME IInv, NEW g \in Goroutines, NEW c \in Calls, Acquire(g, c)
  PROVE  IInv'
<1> USE StepFacts
<1>1. CASE Grantable(g)
  BY <1>1, GrantInv DEF Acquire, CallFits, Runs
<1>2. CASE ~Grantable(g)
  <2> USE <1>2 DEF Acquire
  <2>1. Levels(g)' = Levels(g)
    BY DEF Levels, TypeOK, CallFits
  <2>2. NoLostWakeup'
    BY DEF NoLostWakeup, Grantable
  <2>3. CallFits(g)'
    BY DEF CallFits, InDriver, Transacting, TypeOK, Runs
  <2>4. /\ call' \in [Goroutines -> Calls] /\ acq' \in [Goroutines -> Stages]
        /\ wake' \in {"none", "empty", "full"}
    BY DEF TypeOK, Stages
  <2> QED BY <2>1, <2>2, <2>3, <2>4, StayInv DEF TypeOK
<1> QED BY <1>1, <1>2

\* A waiter that is woken, times out or looks again.
LEMMA WaitInv ==
  ASSUME IInv, NEW g \in Goroutines, TakeWake(g) \/ Expire(g) \/ Recheck(g)
  PROVE  IInv'
<1> USE StepFacts
<1>1. CASE TakeWake(g) \/ Expire(g)
  <2> USE <1>1 DEF TakeWake, Expire, gate
  <2>1. Levels(g)' = Levels(g)
    BY DEF Levels, TypeOK
  <2>2. NoLostWakeup'
    BY DEF NoLostWakeup, TypeOK
  <2>3. CallFits(g)'
    <3>1. acq[g] = "wait" /\ acq'[g] = "recheck" /\ call'[g] = call[g]
      BY DEF TypeOK
    <3> QED BY <3>1 DEF CallFits, InDriver, Transacting
  <2>4. acq' \in [Goroutines -> Stages]
    BY DEF TypeOK, Stages
  <2> QED BY <2>1, <2>2, <2>3, <2>4, StayInv DEF TypeOK
<1>2. CASE Recheck(g) /\ Grantable(g)
  BY <1>2, GrantInv DEF Recheck, CallFits
<1>3. CASE Recheck(g) /\ ~Grantable(g)
  <2> USE <1>3 DEF Recheck
  <2>1. Levels(g)' = Levels(g)
    BY DEF Levels, TypeOK
  <2>2. NoLostWakeup'
    BY DEF NoLostWakeup, Grantable
  <2>3. CallFits(g)'
    BY DEF CallFits, InDriver, Transacting, TypeOK
  <2>4. acq' \in [Goroutines -> Stages]
    BY DEF TypeOK, Stages
  <2> QED BY <2>1, <2>2, <2>3, <2>4, StayInv DEF TypeOK
<1> QED BY <1>1, <1>2, <1>3

\* The statements of a serializedConn, its rows and its Close.
LEMMA StatementInv ==
  ASSUME IInv, NEW g \in Goroutines,
         Exec(g) \/ Query(g) \/ CloseRows(g) \/ CloseConn(g)
  PROVE  IInv'
<1> USE StepFacts
<1>1. CASE Exec(g)
  <2> USE <1>1 DEF Exec, InDriver, Left
  <2>1. Levels(g) # 0 /\ Levels(g)' = Levels(g) - 1
    BY DEF Levels, TypeOK
  <2>2. /\ call' \in [Goroutines -> Calls] /\ acq' \in [Goroutines -> Stages]
        /\ call'[g] = "none" /\ acq'[g] = "no"
        /\ \A h \in Goroutines \ {g} : call'[h] = call[h] /\ acq'[h] = acq[h]
    BY LeftTypes
  <2>3. closed' \in BOOLEAN
    BY DEF TypeOK
  <2>4. /\ tx' # Free <=> at'[g] \in Transacting
        /\ tx' # Free => Levels(g)' # 0
        /\ at'[g] # "repanic"
        /\ g \in Anonymous => at'[g] \in {"idle", "begin"}
    BY <2>1, <2>2 DEF CallFits, Levels, Transacting, InDriver
  <2> QED BY <2>1, <2>2, <2>3, <2>4, ReleaseInv DEF TypeOK
<1>2. CASE CloseConn(g)
  <2> USE <1>2 DEF CloseConn, InDriver, Left
  <2>1. Levels(g) # 0 /\ Levels(g)' = Levels(g) - 1
    BY DEF Levels, TypeOK
  <2>2. /\ call' \in [Goroutines -> Calls] /\ acq' \in [Goroutines -> Stages]
        /\ call'[g] = "none" /\ acq'[g] = "no"
        /\ \A h \in Goroutines \ {g} : call'[h] = call[h] /\ acq'[h] = acq[h]
    BY LeftTypes
  <2>3. closed' \in BOOLEAN
    BY DEF TypeOK
  <2>4. /\ tx' # Free <=> at'[g] \in Transacting
        /\ tx' # Free => Levels(g)' # 0
        /\ at'[g] # "repanic"
        /\ g \in Anonymous => at'[g] \in {"idle", "begin"}
    BY <2>1, <2>2 DEF CallFits, Levels, Transacting, InDriver
  <2> QED BY <2>1, <2>2, <2>3, <2>4, ReleaseInv DEF TypeOK
<1>3. CASE CloseRows(g)
  <2> USE <1>3 DEF CloseRows
  <2>1. Levels(g) # 0 /\ Levels(g)' = Levels(g) - 1
    BY DEF Levels, TypeOK
  <2>2. /\ call' \in [Goroutines -> Calls] /\ acq' \in [Goroutines -> Stages]
        /\ call'[g] = "none" /\ acq'[g] = "no"
        /\ \A h \in Goroutines \ {g} : call'[h] = call[h] /\ acq'[h] = acq[h]
    BY DEF TypeOK, CallFits
  <2>3. closed' \in BOOLEAN
    BY DEF TypeOK
  <2>4. /\ tx' # Free <=> at'[g] \in Transacting
        /\ tx' # Free => Levels(g)' # 0
        /\ at'[g] # "repanic"
        /\ g \in Anonymous => at'[g] \in {"idle", "begin"}
    BY <2>1, <2>2 DEF CallFits, Levels, Transacting, InDriver
  <2>5. /\ rows' \in [Goroutines -> 0..MaxRows]
        /\ \A h \in Goroutines \ {g} : rows'[h] = rows[h]
    BY DEF TypeOK
  <2> QED BY <2>1, <2>2, <2>3, <2>4, <2>5, ReleaseInv DEF TypeOK
<1>4. CASE Query(g) /\ rows' = rows /\ Release(g)
  <2> USE <1>4 DEF Query, InDriver, Left
  <2>1. Levels(g) # 0 /\ Levels(g)' = Levels(g) - 1
    BY DEF Levels, TypeOK
  <2>2. /\ call' \in [Goroutines -> Calls] /\ acq' \in [Goroutines -> Stages]
        /\ call'[g] = "none" /\ acq'[g] = "no"
        /\ \A h \in Goroutines \ {g} : call'[h] = call[h] /\ acq'[h] = acq[h]
    BY LeftTypes
  <2>3. closed' \in BOOLEAN
    BY DEF TypeOK
  <2>4. /\ tx' # Free <=> at'[g] \in Transacting
        /\ tx' # Free => Levels(g)' # 0
        /\ at'[g] # "repanic"
        /\ g \in Anonymous => at'[g] \in {"idle", "begin"}
    BY <2>1, <2>2 DEF CallFits, Levels, Transacting, InDriver
  <2> QED BY <2>1, <2>2, <2>3, <2>4, ReleaseInv DEF TypeOK
<1>5. CASE Query(g) /\ rows[g] < MaxRows /\ rows' = [rows EXCEPT ![g] = @ + 1] /\ UNCHANGED gate
  <2> USE <1>5 DEF Query, InDriver, Left, gate
  <2>1. Levels(g)' = Levels(g)
    BY DEF Levels, TypeOK
  <2>2. NoLostWakeup' /\ CallFits(g)'
    BY DEF NoLostWakeup, CallFits, TypeOK, Transacting
  <2>3. /\ call' \in [Goroutines -> Calls] /\ acq' \in [Goroutines -> Stages]
        /\ \A h \in Goroutines \ {g} : call'[h] = call[h] /\ acq'[h] = acq[h]
    BY LeftTypes DEF Left
  <2> QED BY <2>1, <2>2, <2>3, StayInv DEF TypeOK
<1> QED BY <1>1, <1>2, <1>3, <1>4, <1>5 DEF Query


\* The steps of RunSqliteTransaction that only move on.
LEMMA BodyInv ==
  ASSUME IInv, NEW g \in Goroutines, FnReturns(g) \/ FnPanics(g)
  PROVE  IInv'
<1> USE StepFacts DEF Goto, gate
<1>1. CASE FnReturns(g)
  <2> USE <1>1 DEF FnReturns
  <2>1. at' \in [Goroutines -> Places] /\ at'[g] \in {"commit", "undo"}
    BY DEF TypeOK, Places
  <2>2. Levels(g)' = Levels(g)
    BY <2>1 DEF Levels, TypeOK
  <2>3. NoLostWakeup' /\ CallFits(g)'
    BY <2>1 DEF NoLostWakeup, CallFits, TypeOK, Transacting, InDriver
  <2> QED BY <2>1, <2>2, <2>3, StayInv DEF TypeOK, Transacting
<1>2. CASE FnPanics(g)
  <2> USE <1>2 DEF FnPanics
  <2>1. at' \in [Goroutines -> Places] /\ at'[g] = "unwind"
    BY DEF TypeOK, Places
  <2>2. /\ call' \in [Goroutines -> Calls] /\ acq' \in [Goroutines -> Stages]
        /\ rows' \in [Goroutines -> 0..MaxRows]
        /\ call'[g] = "none" /\ acq'[g] = "no"
        /\ \A h \in Goroutines \ {g} :
             call'[h] = call[h] /\ acq'[h] = acq[h] /\ rows'[h] = rows[h]
    BY LeftTypes DEF TypeOK, CallFits
  <2>3. Levels(g)' = Levels(g)
    BY <2>1, <2>2 DEF Levels, TypeOK, InDriver, CallFits
  <2>4. NoLostWakeup' /\ CallFits(g)'
    BY <2>1, <2>2 DEF NoLostWakeup, CallFits, TypeOK, Transacting, InDriver
  <2> QED BY <2>1, <2>2, <2>3, <2>4, StayInv DEF TypeOK, Transacting
<1> QED BY <1>1, <1>2

\* The statements of RunSqliteTransaction itself.
LEMMA TransactionInv ==
  ASSUME IInv, NEW g \in Goroutines, Begin(g) \/ Commit(g) \/ Rollback(g)
  PROVE  IInv'
<1> USE StepFacts DEF Begin, Commit, Rollback, Goto, InDriver
<1>1. /\ Left(g) /\ Release(g) /\ rows' = rows /\ closed' = closed
      /\ acq[g] = "held" /\ at[g] \in {"begin", "commit", "undo", "unwind"}
      /\ g \notin Anonymous
  BY DEF CallFits
<1>2. /\ call' \in [Goroutines -> Calls] /\ acq' \in [Goroutines -> Stages]
      /\ call'[g] = "none" /\ acq'[g] = "no"
      /\ \A h \in Goroutines \ {g} : call'[h] = call[h] /\ acq'[h] = acq[h]
  BY <1>1, LeftTypes
<1>3. /\ at' \in [Goroutines -> Places]
      /\ at'[g] \in {"body", "undo", "leave", "settle"}
      /\ \A h \in Goroutines \ {g} : at'[h] = at[h]
  BY DEF TypeOK, Places
<1>4. Levels(g) # 0 /\ Levels(g)' = Levels(g) - 1 /\ Levels(g)' # 0
  BY <1>1, <1>2, <1>3 DEF Levels, TypeOK
<1>5. tx' \in {Free, g} /\ (tx' # Free <=> at'[g] \in Transacting)
  BY <1>1, <1>4 DEF CallFits, Transacting, TypeOK
<1>6. closed' \in BOOLEAN
  BY <1>1 DEF TypeOK
<1> QED BY <1>1, <1>2, <1>3, <1>4, <1>5, <1>6, ReleaseInv DEF TypeOK

\* The end of RunSqliteTransaction.
LEMMA LeaveInv ==
  ASSUME IInv, NEW g \in Goroutines, Leave(g)
  PROVE  IInv'
<1> USE StepFacts DEF Leave, Goto
<1>1. call[g] = "none" /\ acq[g] = "no"
  BY DEF CallFits, Stages, Calls
<1>2. at' \in [Goroutines -> Places] /\ at'[g] = "idle" /\ tx # g
  BY DEF TypeOK, Places, Transacting
<1>3. CASE at[g] = "leave"
  <2>1. Levels(g) # 0 /\ Levels(g)' = Levels(g) - 1
    BY <1>1, <1>2, <1>3 DEF Levels, TypeOK
  <2>2. closed' \in BOOLEAN
    BY DEF TypeOK
  <2> QED BY <1>1, <1>2, <2>1, <2>2, ReleaseInv DEF TypeOK, Transacting
<1>4. CASE at[g] = "repanic"
  <2>1. rows[g] = 0 /\ g \notin Anonymous /\ Gid(g) = g
    BY <1>4 DEF CallFits, Gid
  <2>2. Levels(g) = 0 /\ Levels(g)' = 0
    BY <1>1, <1>2, <1>4, <2>1 DEF Levels, TypeOK
  <2>3. depth = 0 \/ owner # Gid(g)
    BY <2>1, <2>2 DEF LevelsAgree, Gid
  <2>4. UNCHANGED gate
    BY <2>3 DEF Release
  <2>5. NoLostWakeup' /\ CallFits(g)'
    BY <1>1, <1>2, <2>1, <2>4 DEF NoLostWakeup, CallFits, Transacting, InDriver, gate
  <2> QED BY <1>1, <1>2, <1>4, <2>2, <2>4, <2>5, StayInv DEF TypeOK, Transacting, gate
<1> QED BY <1>3, <1>4


\* ReleaseAll after a panic empties the gate.
LEMMA SettleInv ==
  ASSUME IInv, NEW g \in Goroutines, Settle(g)
  PROVE  IInv'
<1> USE StepFacts DEF Settle, Goto
<1>1. call[g] = "none" /\ acq[g] = "no" /\ g \notin Anonymous
  BY DEF CallFits, Stages, Calls
<1>2. /\ at' \in [Goroutines -> Places] /\ at'[g] = "repanic"
      /\ rows' \in [Goroutines -> 0..MaxRows] /\ rows'[g] = 0
  BY DEF TypeOK, Places
<1>3. Levels(g) # 0
  BY <1>1 DEF Levels, TypeOK
<1>4. /\ depth # 0 /\ owner = Gid(g) /\ tx \in {Free, g}
      /\ \A h \in Goroutines \ {g} : Levels(h) = 0
  BY <1>3, HolderIsUnique
<1>5. depth' = 0 /\ owner' = Free /\ wake' = Signalled /\ tx = Free /\ tx' = Free
  BY <1>4 DEF ReleaseAll, Transacting
<1>6. \A h \in Goroutines : Levels(h)' = 0
  <2>1. Levels(g)' = 0
    BY <1>1, <1>2 DEF Levels, TypeOK
  <2>2. ASSUME NEW h \in Goroutines \ {g} PROVE Levels(h)' = Levels(h)
    BY DEF Levels, TypeOK
  <2> QED BY <1>4, <2>1, <2>2
<1>7. LevelsAgree' /\ TransactionWindow'
  BY <1>5, <1>6 DEF LevelsAgree, TransactionWindow
<1>8. TypeOK'
  <2>1. closed' \in BOOLEAN
    BY DEF TypeOK
  <2>2. wake' \in {"none", "empty", "full"}
    BY <1>5 DEF Signalled, TypeOK
  <2> QED BY <1>2, <1>5, <2>1, <2>2 DEF TypeOK
<1>9. \A h \in Goroutines : CallFits(h)'
  <2>1. wake # "none" => wake' = "full"
    BY <1>5 DEF Signalled
  <2>2. ASSUME NEW h \in Goroutines \ {g} PROVE CallFits(h)'
    <3>1. CallFits(h) /\ at'[h] = at[h] /\ rows'[h] = rows[h]
      BY DEF IInv, TypeOK
    <3> QED BY <1>5, <2>1, <3>1 DEF CallFits, InDriver
  <2>3. CallFits(g)'
    BY <1>1, <1>2 DEF CallFits, InDriver, Transacting
  <2> QED BY <2>2, <2>3
<1>10. NoLostWakeup'
  BY <1>5 DEF NoLostWakeup, IInv, CallFits, Signalled
<1> QED BY <1>7, <1>8, <1>9, <1>10 DEF IInv

\* Every step keeps the invariant.
LEMMA NextInv == ASSUME IInv, [Next]_vars PROVE IInv'
<1>1. CASE UNCHANGED vars
  BY <1>1 DEF vars, IInv, TypeOK, LevelsAgree, Levels, TransactionWindow,
              NoLostWakeup, CallFits, InDriver, Gid
<1>2. ASSUME NEW g \in Goroutines, Step(g) \/ Expire(g) PROVE IInv'
  BY <1>2, AcquireInv, WaitInv, StatementInv, BodyInv, TransactionInv, LeaveInv,
     SettleInv DEF Step, Holder
<1> QED BY <1>1, <1>2 DEF Next

\* The inductive invariant holds in every reachable state.
THEOREM Inductive == Spec => []IInv
<1>1. Init => IInv
  BY InitInv
<1>2. IInv /\ [Next]_vars => IInv'
  BY NextInv
<1> QED BY <1>1, <1>2, PTL DEF Spec

----------------------------------------------------------------------------

\* Type correctness.
THEOREM TypeCorrect == Spec => []TypeOK
<1>1. IInv => TypeOK
  BY DEF IInv
<1> QED BY <1>1, Inductive, PTL

\* Acquire, Release and ReleaseAll: the depth is always exactly what the one
\* holder of the gate has to give back.
THEOREM BooksAgree == Spec => []LevelsAgree
<1>1. IInv => LevelsAgree
  BY DEF IInv
<1> QED BY <1>1, Inductive, PTL

\* RunSqliteTransaction: an open transaction is never left behind and never
\* joined.
THEOREM Isolation == Spec => []TransactionWindow
<1>1. IInv => TransactionWindow
  BY DEF IInv
<1> QED BY <1>1, Inductive, PTL

\* RunSqliteTransaction: a begin in the driver never meets an open transaction.
THEOREM BeginIsFirst == Spec => []BeginFindsNone
<1>1. ASSUME IInv PROVE BeginFindsNone
  <2> SUFFICES ASSUME NEW g \in Goroutines, InDriver(g, "begin") PROVE tx = Free
    BY DEF BeginFindsNone
  <2>1. at[g] = "begin" /\ acq[g] = "held"
    BY <1>1 DEF IInv, CallFits, InDriver
  <2>2. Levels(g) # 0
    BY <1>1, <2>1, GateAssumption DEF Levels, IInv, TypeOK
  <2> QED BY <1>1, <2>1, <2>2, StepFacts DEF Transacting
<1> QED BY <1>1, Inductive, PTL

\* The wake channel: a free gate that somebody waits for is signalled.
THEOREM WakeupIsNotLost == Spec => []NoLostWakeup
<1>1. IInv => NoLostWakeup
  BY DEF IInv
<1> QED BY <1>1, Inductive, PTL

=============================================================================
