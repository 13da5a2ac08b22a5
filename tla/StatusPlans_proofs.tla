------------------------- MODULE StatusPlans_proofs -------------------------
(* Proofs about the plans of one agent, for any number of plans, answers,
   attempts, ends of the daemon and waiting operations.

   The invariants stand on one another: Typed is what the types do not say of the
   operation that runs; UnderWay ties a row to its operation; the later ones
   each add what one property needs. *)
EXTENDS StatusPlans, TLAPS, WellFoundedInduction

RunPlaces == {"none", "salvage", "salvaged", "grace", "turn", "ready", "advance",
              "append", "tell", "settle", "mark", "verdict"}
Outcomes == {"none", "event", "nothing", "waiting", "error", "cancelled"}
RunType ==
  [pc : RunPlaces, plan : Plans, by : {"exec", "retry", "drain"}, allow : BOOLEAN,
   tries : 0..MaxAttempts, err : Errors, snap : Hist, body : Hist, degraded : BOOLEAN,
   got : Signal \cup {None}, skip : BOOLEAN, obs : Nat, event : Nat, out : Outcomes,
   aborted : BOOLEAN]

\* The row of the agent goes with its pane.
RowGoesWithPane == live = "gone" <=> pane = "closed"

\* What waits or runs is about a plan that exists.
OfPlans ==
  /\ \A i \in DOMAIN queue : plan[queue[i].plan].st # "none"
  /\ \A p \in drain.todo : plan[p].st # "none"
  /\ run.pc # "none" => plan[run.plan].st # "none"

\* The place of the operation says what it is about.
Placed ==
  /\ run.pc = "tell" => plan[run.plan].to \in ToldTypes
  /\ run.pc = "verdict" => plan[run.plan].st \in {"failed", "discarded"}
  /\ run.out = "event" => run.pc \in {"settle", "mark", "verdict"}
  /\ run.out = "event" => run.event \in Ids
  /\ run.event # 0 => run.out = "event"
  /\ run.skip /\ run.pc \in {"grace", "turn", "ready", "advance", "append"}
     => plan[run.plan].to \in ToldTypes

Typed == TypeOK /\ run \in RunType /\ RowGoesWithPane /\ OfPlans /\ Placed

----------------------------------------------------------------------------
(* Sequences and their ids *)

\* A sequence made entry by entry is a sequence.
LEMMA MadeEntryByEntry ==
  ASSUME NEW S, NEW n \in Nat, NEW s \in [1..n -> S]
  PROVE  s \in Seq(S) /\ Len(s) = n /\ DOMAIN s = 1..n
OBVIOUS

\* A set of naturals has a least one.
LEMMA LeastExists ==
  ASSUME NEW T \in SUBSET Nat, T # {}
  PROVE  \E x \in T : \A y \in T : x <= y
<1>1. PICK x \in T : \A y \in T : ~(<<y, x>> \in OpToRel(<, Nat))
  BY WFMin, NatLessThanWellFounded
<1>2. \A y \in T : ~(y < x)
  BY <1>1 DEF OpToRel
<1> QED
  BY <1>2

\* A set of ids has a largest one.
LEMMA NewestIsLargest ==
  ASSUME NEW n \in Nat, NEW S \in SUBSET (1..n), S # {}
  PROVE  Newest(S) \in S /\ \A j \in S : j <= Newest(S)
<1>1. PICK x \in {n - i : i \in S} : \A y \in {n - i : i \in S} : x <= y
  <2>1. {n - i : i \in S} \in SUBSET Nat
    BY Z3
  <2>2. {n - i : i \in S} # {}
    OBVIOUS
  <2> QED
    BY <2>1, <2>2, LeastExists
<1>2. PICK m \in S : x = n - m
  OBVIOUS
<1>3. \A j \in S : j <= m
  <2> SUFFICES ASSUME NEW j \in S PROVE j <= m
    OBVIOUS
  <2>1. n - m <= n - j
    BY <1>1, <1>2
  <2> QED
    BY <2>1
<1> QED
  BY <1>3 DEF Newest

----------------------------------------------------------------------------
(* Types of what the actions write *)

LEMMA NoHistTyped == NoHist \in Hist
BY PlansAssumption DEF NoHist, Hist

\* The answer of an event, or of none.
LEMMA HistAtTyped ==
  ASSUME log \in Seq(Event), NEW S \in SUBSET Ids
  PROVE  /\ Newest(S) \in Nat /\ HistAt(Newest(S)) \in Hist
         /\ S # {} => Newest(S) \in S /\ \A j \in S : j <= Newest(S)
         /\ S = {} => Newest(S) = 0
<1>1. Ids = 1..Len(log) /\ Len(log) \in Nat
  BY DEF Ids
<1>2. \A i \in Ids : log[i].hist \in Hist
  <2>1. \A i \in Ids : log[i] \in Event
    BY <1>1
  <2> QED
    BY <2>1 DEF Event
<1>3. CASE S = {}
  BY <1>3, NoHistTyped DEF Newest, HistAt
<1>4. CASE S # {}
  <2>1. Newest(S) \in S /\ \A j \in S : j <= Newest(S)
    BY <1>1, <1>4, NewestIsLargest
  <2> DEFINE m == Newest(S)
  <2>a. m \in Ids
    BY <2>1
  <2>2. m \in Ids /\ m # 0 /\ m \in Nat
    <3> HIDE DEF m
    <3> QED
      BY <2>a, <1>1
  <2>3. HistAt(Newest(S)) \in Hist
    BY <2>2, <1>2 DEF HistAt
  <2> QED
    BY <2>1, <2>2, <2>3, <1>4
<1> QED
  BY <1>3, <1>4

\* An append, with the idempotency of its key.
LEMMA LoggedIs ==
  ASSUME NEW l \in Seq(Event), NEW e \in Event
  PROVE  /\ Logged(l, e) \in Seq(Event)
         /\ IdOf(l, e) \in DOMAIN Logged(l, e) /\ IdOf(l, e) \in Nat \ {0}
         /\ Key(Logged(l, e)[IdOf(l, e)]) = Key(e)
         /\ \A i \in DOMAIN l : i \in DOMAIN Logged(l, e) /\ Logged(l, e)[i] = l[i]
         /\ \/ Logged(l, e) = l /\ IdOf(l, e) \in DOMAIN l
            \/ /\ Logged(l, e) = Append(l, e) /\ IdOf(l, e) = Len(l) + 1 
               /\ Logged(l, e)[Len(l) + 1] = e /\ ~Known(l, e)
               /\ DOMAIN Logged(l, e) = DOMAIN l \cup {Len(l) + 1}
<1> DEFINE a == Append(l, e)
<1>1. /\ a \in Seq(Event) /\ DOMAIN a = DOMAIN l \cup {Len(l) + 1} /\ Len(l) \in Nat
      /\ a[Len(l) + 1] = e /\ \A i \in DOMAIN l : a[i] = l[i]
      /\ DOMAIN l = 1..Len(l)
  OBVIOUS
<1>2. CASE Known(l, e)
  <2>1. Logged(l, e) = l /\ IdOf(l, e) = CHOOSE i \in DOMAIN l : Key(l[i]) = Key(e)
    BY <1>2 DEF Logged, IdOf
  <2>2. IdOf(l, e) \in DOMAIN l /\ Key(l[IdOf(l, e)]) = Key(e)
    BY <2>1, <1>2 DEF Known
  <2>3. IdOf(l, e) \in Nat \ {0}
    BY <2>2, <1>1
  <2>4. Key(Logged(l, e)[IdOf(l, e)]) = Key(e)
    BY <2>1, <2>2
  <2> QED
    BY <2>1, <2>2, <2>3, <2>4
<1>3. CASE ~Known(l, e)
  <2>1. Logged(l, e) = a /\ IdOf(l, e) = Len(l) + 1
    BY <1>3 DEF Logged, IdOf
  <2>2. IdOf(l, e) \in Nat \ {0} /\ IdOf(l, e) \in DOMAIN Logged(l, e)
    BY <2>1, <1>1
  <2>3. Logged(l, e)[IdOf(l, e)] = e
    BY <2>1, <1>1
  <2>4. \A i \in DOMAIN l : i \in DOMAIN Logged(l, e) /\ Logged(l, e)[i] = l[i]
    BY <2>1, <1>1
  <2> QED
    BY <2>1, <2>2, <2>3, <2>4, <1>1, <1>3
<1> QED
  BY <1>2, <1>3

LEMMA NoRunTyped == NoRun \in RunType
<1>1. 1 \in Plans /\ 0 \in 0..MaxAttempts
  BY PlansAssumption DEF Plans
<1> QED
  BY <1>1, NoHistTyped DEF NoRun, RunType, RunPlaces, Errors, Outcomes

\* What an operation leaves to its settlement.
LEMMA EndedTyped ==
  ASSUME NEW r \in RunType, NEW out \in Outcomes
  PROVE  /\ Ended(r, out) \in RunType /\ Ended(r, out).pc = "settle"
         /\ Ended(r, out).plan = r.plan /\ Ended(r, out).out = out
         /\ Ended(r, out).event = 0 /\ ~Ended(r, out).degraded /\ ~Ended(r, out).aborted
<1>1. /\ r.plan \in Plans /\ r.by \in {"exec", "retry", "drain"} /\ r.allow \in BOOLEAN
      /\ r.err \in Errors /\ r.snap \in Hist
  BY DEF RunType
<1>2. NoRun \in RunType /\ NoRun.event = 0 /\ ~NoRun.degraded /\ ~NoRun.aborted
  BY NoRunTyped DEF NoRun
<1>3. "settle" \in RunPlaces
  BY DEF RunPlaces
<1> HIDE DEF NoRun
<1> QED
  BY <1>1, <1>2, <1>3 DEF Ended, RunType

LEMMA RowTyped ==
  ASSUME TypeOK, NEW p \in Plans
  PROVE  /\ plan[p] \in Row /\ plan[p].from \in Statuses /\ plan[p].to \in Statuses
         /\ plan[p].tries \in 0..MaxAttempts /\ plan[p].err \in Errors
         /\ plan[p].stored \in Hist /\ plan[p].born \in Nat
         /\ plan[p].st \in Unfinished \cup Settled \cup {"none"}
<1>1. plan[p] \in Row
  BY DEF TypeOK
<1> QED
  BY <1>1 DEF Row

\* The events of a run.
LEMMA TransitionTyped ==
  ASSUME TypeOK, NEW r \in RunType, NEW type \in ToldTypes \cup {"changed"}
  PROVE  Transition(r, type) \in Event
<1>1. r.plan \in Plans /\ r.obs \in Int /\ r.body \in Hist /\ r.degraded \in BOOLEAN
  BY DEF RunType
<1>2. plan[r.plan].from \in Statuses /\ plan[r.plan].to \in Statuses
  BY <1>1, RowTyped
<1>3. (IF plan[r.plan].keyed THEN r.plan ELSE 0) \in Nat
  BY <1>1, PlansAssumption DEF Plans
<1> QED
  BY <1>1, <1>2, <1>3 DEF Transition, Event

LEMMA VerdictTyped ==
  ASSUME TypeOK, NEW p \in Plans, NEW type \in {"failed", "discarded"}, NEW h \in Hist,
         NEW st \in {"pending", "acked"}, NEW why \in {"row", "salvage"}
  PROVE  Verdict(p, type, h, st, why) \in Event
<1>1. plan[p].from \in Statuses /\ plan[p].to \in Statuses /\ p \in Nat
  BY PlansAssumption, RowTyped DEF Plans
<1> QED
  BY <1>1 DEF Verdict, Event

\* What opens a run.
LEMMA OpenedTyped ==
  ASSUME TypeOK, NEW t \in Task
  PROVE  /\ Opened(t) \in RunType /\ Opened(t).plan = t.plan
         /\ Opened(t).event = 0 /\ Opened(t).out = "none" /\ ~Opened(t).degraded
         /\ ~Opened(t).skip
<1>1. /\ t.plan \in Plans /\ t.by \in {"exec", "retry", "drain"} /\ t.allow \in BOOLEAN
      /\ t.snap \in Hist
  BY DEF Task
<1>2. plan[t.plan].tries \in 0..MaxAttempts /\ plan[t.plan].err \in Errors
  BY <1>1, RowTyped
<1>3. 0 \in 0..MaxAttempts /\ "none" \in Errors
  BY PlansAssumption DEF Errors
<1>4. /\ (IF t.by = "exec" THEN 0 ELSE plan[t.plan].tries) \in 0..MaxAttempts
      /\ (IF t.by = "exec" THEN "none" ELSE plan[t.plan].err) \in Errors
  BY <1>2, <1>3
<1>5. NoRun \in RunType /\ NoRun.event = 0 /\ NoRun.out = "none" /\ ~NoRun.degraded /\ ~NoRun.skip
  BY NoRunTyped DEF NoRun
<1> HIDE DEF NoRun
<1>6. Opened(t) \in RunType
  BY <1>1, <1>4, <1>5 DEF Opened, RunType
<1>7. /\ Opened(t).plan = t.plan /\ Opened(t).event = 0 /\ Opened(t).out = "none"
      /\ ~Opened(t).degraded /\ ~Opened(t).skip
  BY <1>5 DEF Opened, RunType
<1> QED
  BY <1>6, <1>7

\* The first wait, or none.
LEMMA GatedTyped ==
  ASSUME TypeOK, NEW r \in RunType
  PROVE  /\ Gated(r) \in RunType
         /\ \/ Gated(r) \in {Ended(r, "nothing"), Ended(r, "waiting")}
            \/ /\ Gated(r).pc = FirstWait(r) /\ Gated(r).obs = LastChanged
               /\ Gated(r).skip => /\ LastChanged # 0 /\ log[LastChanged].to = plan[r.plan].to
                                   /\ plan[r.plan].to \in ToldTypes
               /\ \A f \in {"plan", "by", "allow", "tries", "err", "snap", "body", "degraded", "got",
                            "event", "out"} : Gated(r)[f] = r[f]
<1> DEFINE repeated == LastChanged # 0 /\ log[LastChanged].from = plan[r.plan].from
                       /\ log[LastChanged].to = plan[r.plan].to
           told == repeated /\ ToldAfter(LastChanged)
           g == [r EXCEPT !.pc = FirstWait(r), !.skip = repeated /\ ~told,
                          !.obs = LastChanged, !.aborted = (phase = "stopping")]
<1>1. LastChanged \in Nat
  <2>1. {i \in Ids : log[i].type = "changed"} \in SUBSET Ids
    OBVIOUS
  <2> QED
    BY <2>1, HistAtTyped DEF TypeOK, LastChanged
<1>2. FirstWait(r) \in RunPlaces
  BY DEF FirstWait, RunPlaces
<1>3. g \in RunType
  BY <1>1, <1>2 DEF RunType
<1>4. /\ g.pc = FirstWait(r) /\ g.obs = LastChanged
      /\ g.skip => repeated /\ ~told
      /\ \A f \in {"plan", "by", "allow", "tries", "err", "snap", "body", "degraded", "got",
                   "event", "out"} : g[f] = r[f]
  BY DEF RunType
<1>5. \/ Gated(r) \in {Ended(r, "nothing"), Ended(r, "waiting")}
      \/ Gated(r) = g /\ ~(repeated /\ ~told /\ plan[r.plan].to \notin ToldTypes)
  BY DEF Gated
<1>6. Ended(r, "nothing") \in RunType /\ Ended(r, "waiting") \in RunType
  BY EndedTyped DEF Outcomes
<1>7. repeated => LastChanged # 0 /\ log[LastChanged].to = plan[r.plan].to
  OBVIOUS
<1> HIDE DEF g, repeated, told
<1> QED
  BY <1>3, <1>4, <1>5, <1>6, <1>7

----------------------------------------------------------------------------
(* What the actions write into the rows *)

\* The rows after any action: a transition keeps its statuses, and what has ended
\* stays as it ended.
KeepsRows(f) ==
  /\ f \in [Plans -> Row]
  /\ \A q \in Plans : plan[q].st # "none" =>
       /\ f[q].from = plan[q].from /\ f[q].to = plan[q].to /\ f[q].st # "none"
       /\ plan[q].st \in Settled => f[q].st = plan[q].st

LEMMA StatusSets ==
  /\ Unfinished \cap Settled = {} /\ "none" \notin Unfinished \cup Settled
  /\ "running" \in Unfinished /\ "pending" \in Unfinished
BY DEF Unfinished, Settled

LEMMA RowSettledIs ==
  ASSUME TypeOK, log \in Seq(Event), NEW p \in Plans, NEW st \in Settled
  PROVE  /\ KeepsRows(RowSettled(p, st))
         /\ \A q \in Plans :
              /\ RowSettled(p, st)[q].st = IF q = p /\ plan[p].st \in Unfinished THEN st ELSE plan[q].st
              /\ RowSettled(p, st)[q].err = plan[q].err
<1>1. /\ plan \in [Plans -> Row] /\ plan[p] \in Row /\ Len(log) \in Nat
      /\ plan[p].st \in Unfinished \cup Settled \cup {"none"}
  BY RowTyped DEF TypeOK
<1>2. CASE plan[p].st \in Unfinished
  <2> DEFINE row == [plan[p] EXCEPT !.st = st, !.ended = Len(log)]
  <2>1. row \in Row /\ row.st = st /\ row.err = plan[p].err
        /\ row.from = plan[p].from /\ row.to = plan[p].to
    BY <1>1 DEF Row
  <2>2. RowSettled(p, st) = [plan EXCEPT ![p] = row]
    BY <1>2 DEF RowSettled
  <2> HIDE DEF row
  <2>3. st # "none" /\ plan[p].st # "none" /\ plan[p].st \notin Settled
    BY <1>2, StatusSets
  <2> QED
    BY <1>1, <1>2, <2>1, <2>2, <2>3 DEF KeepsRows
<1>3. CASE plan[p].st \notin Unfinished
  <2>1. RowSettled(p, st) = plan
    BY <1>3 DEF RowSettled
  <2> QED
    BY <1>1, <1>3, <2>1 DEF KeepsRows
<1> QED
  BY <1>2, <1>3

LEMMA ResetIs ==
  ASSUME TypeOK
  PROVE  /\ KeepsRows(Reset)
         /\ \A q \in Plans : /\ Reset[q].st = IF plan[q].st = "running" THEN "pending" ELSE plan[q].st
                             /\ Reset[q].err = plan[q].err
<1> SUFFICES ASSUME NEW q \in Plans
             PROVE  /\ Reset[q] \in Row /\ Reset[q].from = plan[q].from /\ Reset[q].to = plan[q].to
                    /\ Reset[q].st = IF plan[q].st = "running" THEN "pending" ELSE plan[q].st
                    /\ Reset[q].err = plan[q].err
  BY StatusSets DEF KeepsRows, Reset, Settled
<1>1. plan[q] \in Row
  BY RowTyped
<1>2. /\ Reset[q].from = plan[q].from /\ Reset[q].to = plan[q].to /\ Reset[q].err = plan[q].err
      /\ Reset[q].st = IF plan[q].st = "running" THEN "pending" ELSE plan[q].st
  BY <1>1 DEF Reset, Row
<1>3. Reset[q] \in Row
  BY <1>1 DEF Reset, Row, Unfinished
<1> QED
  BY <1>2, <1>3

LEMMA RunningIs ==
  ASSUME TypeOK, NEW p \in Plans, plan[p].st = "pending"
  PROVE  /\ KeepsRows(Running(p))
         /\ \A q \in Plans : /\ Running(p)[q].st = IF q = p THEN "running" ELSE plan[q].st
                             /\ Running(p)[q].err = plan[q].err
<1> DEFINE row == [plan[p] EXCEPT !.st = "running"]
<1>1. plan \in [Plans -> Row] /\ plan[p] \in Row
  BY RowTyped DEF TypeOK
<1>2. row \in Row /\ row.st = "running" /\ row.err = plan[p].err
      /\ row.from = plan[p].from /\ row.to = plan[p].to
  BY <1>1 DEF Row, Unfinished
<1>3. Running(p) = [plan EXCEPT ![p] = row]
  BY DEF Running
<1> HIDE DEF row
<1> QED
  BY <1>1, <1>2, <1>3, StatusSets DEF KeepsRows, Settled

\* MarkRetry: the row is pending again, failed or discarded.
LEMMA RetriedIs ==
  ASSUME TypeOK, log \in Seq(Event), NEW p \in Plans, NEW error \in {"degraded", "waiting", "other"},
         NEW exempt \in BOOLEAN, NEW stalled \in BOOLEAN, NEW expired \in BOOLEAN,
         NEW row, row = Retried(plan[p], error, exempt, stalled, expired)
  PROVE  /\ row \in Row /\ row.from = plan[p].from /\ row.to = plan[p].to
         /\ row.st \in {"pending", "failed", "discarded"}
         /\ row.st = "pending" => row.err = error
<1> DEFINE exhausted == plan[p].tries + 1 >= MaxAttempts
           tries == IF exhausted THEN MaxAttempts ELSE plan[p].tries + 1
           over == stalled \/ expired \/ (exhausted /\ ~exempt)
           st == IF ~over THEN "pending" ELSE IF error = "waiting" THEN "discarded" ELSE "failed"
           err == IF stalled THEN "stalled" ELSE error
           ended == IF over THEN Len(log) ELSE plan[p].ended
<1>1. plan[p] \in Row /\ plan[p].tries \in 0..MaxAttempts /\ plan[p].ended \in Nat
  BY RowTyped DEF Row
<1>2. tries \in 0..MaxAttempts
  BY <1>1, PlansAssumption
<1>3. st \in {"pending", "failed", "discarded"} /\ err \in Errors /\ ended \in Nat
  BY <1>1 DEF Errors
<1>4. row = [plan[p] EXCEPT !.st = st, !.tries = tries, !.err = err, !.ended = ended]
  BY <1>1 DEF Retried, Row
<1>5. st = "pending" => err = error
  OBVIOUS
<1> HIDE DEF tries, st, err, ended
<1>6. row \in Row /\ row.from = plan[p].from /\ row.to = plan[p].to /\ row.st = st /\ row.err = err
  BY <1>1, <1>2, <1>3, <1>4 DEF Row, Unfinished, Settled
<1> QED
  BY <1>3, <1>5, <1>6

LEMMA RetriedRows ==
  ASSUME TypeOK, NEW p \in Plans, plan[p].st \in Unfinished, NEW row \in Row,
         row.from = plan[p].from, row.to = plan[p].to, row.st # "none"
  PROVE  KeepsRows([plan EXCEPT ![p] = row])
BY StatusSets DEF KeepsRows, TypeOK

\* A new row supersedes open ones and leaves the others alone.
LEMMA InsertedIs ==
  ASSUME TypeOK, NEW p \in Plans, NEW row \in Row
  PROVE  /\ Inserted(p, row) \in [Plans -> Row]
         /\ Inserted(p, row)[p] = row
         /\ plan[p].st = "none" => KeepsRows(Inserted(p, row))
         /\ \A q \in Plans \ {p} :
              /\ Inserted(p, row)[q].from = plan[q].from /\ Inserted(p, row)[q].to = plan[q].to
              /\ \/ Inserted(p, row)[q] = plan[q] /\ ~Superseded(q, p, row.to)
                 \/ /\ Inserted(p, row)[q].st = "cancelled" /\ plan[q].st \in Unfinished
                    /\ Superseded(q, p, row.to)
<1>1. \A q \in Plans : plan[q] \in Row
  BY RowTyped
<1>2. \A q \in Plans \ {p} :
        /\ Inserted(p, row)[q] \in Row
        /\ Inserted(p, row)[q].from = plan[q].from /\ Inserted(p, row)[q].to = plan[q].to
        /\ \/ Inserted(p, row)[q] = plan[q] /\ ~Superseded(q, p, row.to)
           \/ /\ Inserted(p, row)[q].st = "cancelled" /\ plan[q].st \in Unfinished
              /\ Superseded(q, p, row.to)
  <2> SUFFICES ASSUME NEW q \in Plans \ {p} PROVE <1>2!(q)
    OBVIOUS
  <2>1. CASE Superseded(q, p, row.to)
    <3>1. Inserted(p, row)[q] = [plan[q] EXCEPT !.st = "cancelled", !.err = "superseded"]
      BY <2>1 DEF Inserted
    <3>2. plan[q].st \in Unfinished
      BY <2>1 DEF Superseded
    <3> QED
      BY <1>1, <2>1, <3>1, <3>2 DEF Row, Settled, Errors
  <2>2. CASE ~Superseded(q, p, row.to)
    <3>1. Inserted(p, row)[q] = plan[q]
      BY <2>2 DEF Inserted
    <3> QED
      BY <1>1, <2>2, <3>1
  <2> QED
    BY <2>1, <2>2
<1>3. Inserted(p, row)[p] = row
  BY DEF Inserted
<1>4. Inserted(p, row) \in [Plans -> Row]
  BY <1>2, <1>3 DEF Inserted
<1>5. plan[p].st = "none" => KeepsRows(Inserted(p, row))
  BY <1>2, <1>4, StatusSets DEF KeepsRows
<1> QED
  BY <1>2, <1>3, <1>4, <1>5

----------------------------------------------------------------------------
(* What a wait ends with *)

Waitings == {"grace", "turn", "ready", "advance"}

\* A wait touches nothing but its operation, which settles or goes on.
WaitOutcome ==
  /\ UNCHANGED <<kind, disk, live, pane, plan, log, owed, queue, timer, drain, phase, stops>>
  /\ run.pc \in Waitings /\ phase # "down"
  /\ run' \in RunType /\ run'.plan = run.plan /\ run'.event = 0
  /\ \/ /\ run'.pc = "settle" /\ run'.out \in {"nothing", "waiting", "error"}
        /\ ~run'.degraded /\ ~run'.aborted
        /\ run'.out = "nothing" => \/ pane = "closed" \/ (run.aborted /\ phase # "stopping")
                                   \/ run.pc = "grace" \/ kind = "agy"
     \/ /\ run'.pc \in {"append", "advance"} /\ run'.out = run.out /\ run'.skip = run.skip
        /\ run'.obs = run.obs /\ run'.aborted = run.aborted
        /\ run'.pc = "advance" => run.pc = "turn" /\ run'.degraded = run.degraded
        /\ run'.degraded => run.degraded \/ run'.body = NoHist
        /\ run.pc = "ready" => IsReady(run'.body)

LEMMA CutEnds ==
  ASSUME run \in RunType, NEW out \in {"nothing", "waiting", "error"},
         run.pc \in Waitings, phase # "down",
         run' = Ended(run, out),
         UNCHANGED <<kind, disk, live, pane, plan, log, owed, queue, timer, drain, phase, stops>>,
         out = "nothing" => \/ pane = "closed" \/ (run.aborted /\ phase # "stopping")
                            \/ run.pc = "grace" \/ kind = "agy"
  PROVE  WaitOutcome
<1>1. out \in Outcomes
  BY DEF Outcomes
<1> QED
  BY <1>1, EndedTyped DEF WaitOutcome

\* What an operation that goes on may change of itself.
Edits(r, r2, pc, body, degraded) ==
  /\ r2 \in RunType /\ r2.plan = r.plan /\ r2.event = r.event /\ r2.pc = pc
  /\ r2.out = r.out /\ r2.skip = r.skip /\ r2.obs = r.obs /\ r2.aborted = r.aborted
  /\ r2.body = body /\ r2.degraded = degraded

LEMMA EditsTyped ==
  ASSUME NEW r \in RunType, NEW pc \in {"append", "advance"}
  PROVE  /\ Edits(r, [r EXCEPT !.pc = pc], pc, r.body, r.degraded)
         /\ \A h \in Hist : Edits(r, [r EXCEPT !.pc = pc, !.body = h], pc, h, r.degraded)
         /\ \A h \in Hist : Edits(r, [r EXCEPT !.pc = pc, !.body = h, !.snap = h], pc, h, r.degraded)
         /\ \A s \in Signal : Edits(r, [r EXCEPT !.pc = pc, !.got = s], pc, r.body, r.degraded)
         /\ \A h \in Hist, d \in BOOLEAN :
              Edits(r, [r EXCEPT !.pc = pc, !.body = h, !.degraded = d], pc, h, d)
<1>1. pc \in RunPlaces
  BY DEF RunPlaces
<1>2. Edits(r, [r EXCEPT !.pc = pc], pc, r.body, r.degraded)
  BY <1>1 DEF Edits, RunType
<1>3. ASSUME NEW h \in Hist
      PROVE  Edits(r, [r EXCEPT !.pc = pc, !.body = h], pc, h, r.degraded)
  BY <1>1, <1>3 DEF Edits, RunType
<1>4. ASSUME NEW h \in Hist
      PROVE  Edits(r, [r EXCEPT !.pc = pc, !.body = h, !.snap = h], pc, h, r.degraded)
  BY <1>1, <1>4 DEF Edits, RunType
<1>5. ASSUME NEW s \in Signal
      PROVE  Edits(r, [r EXCEPT !.pc = pc, !.got = s], pc, r.body, r.degraded)
  BY <1>1, <1>5 DEF Edits, RunType
<1>6. ASSUME NEW h \in Hist, NEW d \in BOOLEAN
      PROVE  Edits(r, [r EXCEPT !.pc = pc, !.body = h, !.degraded = d], pc, h, d)
  BY <1>1, <1>6 DEF Edits, RunType
<1> QED
  BY <1>2, <1>3, <1>4, <1>5, <1>6

\* The answer on disk, a blank, or what was known before is what is told.
LEMMA GoesOn ==
  ASSUME run \in RunType, run.event = 0, run.pc \in Waitings, phase # "down",
         NEW pc \in {"append", "advance"}, NEW body, NEW degraded \in BOOLEAN,
         Edits(run, run', pc, body, degraded),
         UNCHANGED <<kind, disk, live, pane, plan, log, owed, queue, timer, drain, phase, stops>>,
         pc = "advance" => run.pc = "turn" /\ degraded = run.degraded,
         degraded => run.degraded \/ body = NoHist,
         run.pc = "ready" => IsReady(body)
  PROVE  WaitOutcome
BY DEF WaitOutcome, Edits

LEMMA WaitsEnd ==
  ASSUME TypeOK, run \in RunType, Placed, Waiting
  PROVE  WaitOutcome
<1> DEFINE Same == UNCHANGED <<kind, disk, live, pane, plan, log, owed, queue, timer, drain, phase, stops>>
<1>0. {"grace", "turn", "ready", "advance"} = Waitings
  BY DEF Waitings
<1>1. /\ run.body \in Hist /\ run.snap \in Hist /\ run.degraded \in BOOLEAN
      /\ run.got \in Signal \cup {None} /\ disk \in Hist
  BY DEF RunType, TypeOK
<1>2. run.pc \in Waitings => run.event = 0
  BY DEF Placed, Waitings
<1>3. CASE WaitCut
  <2>1. run.pc \in Waitings /\ phase # "down" /\ CutShort(run) /\ run' = Ended(run, CutOutcome(run)) /\ Same
    BY <1>0, <1>3 DEF WaitCut, Waits
  <2>2. CutOutcome(run) = "nothing" => pane = "closed" \/ (run.aborted /\ phase # "stopping")
    BY <2>1 DEF CutShort, CutOutcome
  <2>3. CutOutcome(run) \in {"nothing", "waiting"}
    BY DEF CutOutcome
  <2> QED
    BY <2>1, <2>2, <2>3, CutEnds
<1>4. CASE WaitFails
  <2>1. run.pc \in Waitings /\ phase # "down" /\ run' = Ended(run, "error") /\ Same
    BY <1>0, <1>4 DEF WaitFails, Waits
  <2> QED
    BY <2>1, CutEnds
<1>5. CASE GraceEnds
  <2>1. run.pc = "grace" /\ run.pc \in Waitings /\ phase # "down" /\ Same
    BY <1>0, <1>5 DEF GraceEnds, Still, Waits
  <2>2. \/ run' = Ended(run, "nothing")
        \/ run' = [run EXCEPT !.pc = "append"]
        \/ run' = [run EXCEPT !.pc = "append", !.body = disk, !.snap = disk]
    BY <1>5 DEF GraceEnds, Waits
  <2>3. CASE run' = Ended(run, "nothing")
    BY <2>1, <2>3, CutEnds
  <2>4. CASE run' # Ended(run, "nothing")
    <3>1. Edits(run, run', "append", run.body, run.degraded) \/ Edits(run, run', "append", disk, run.degraded)
      BY <1>1, <2>2, <2>4, EditsTyped
    <3> QED
      BY <1>1, <1>2, <2>1, <3>1, GoesOn
  <2> QED
    BY <2>3, <2>4
<1>6. CASE TurnTimesOut
  <2>1. /\ run.pc = "turn" /\ run.pc \in Waitings /\ phase # "down" /\ Same
        /\ run' = [run EXCEPT !.pc = "advance"]
    BY <1>0, <1>6 DEF TurnTimesOut, Still, Waits
  <2>2. Edits(run, run', "advance", run.body, run.degraded)
    BY <2>1, EditsTyped
  <2> QED
    BY <1>1, <1>2, <2>1, <2>2, GoesOn
<1>7. ASSUME NEW s \in Signal, TurnSignalled(s) PROVE WaitOutcome
  <2>1. run.pc = "turn" /\ run.pc \in Waitings /\ phase # "down" /\ Same
    BY <1>0, <1>7 DEF TurnSignalled, Still, Waits
  <2>2. \/ run' = [run EXCEPT !.pc = "append", !.body = disk]
        \/ run' = [run EXCEPT !.pc = "advance", !.got = s]
    BY <1>7 DEF TurnSignalled, Waits
  <2>3. CASE run' = [run EXCEPT !.pc = "append", !.body = disk]
    <3>1. Edits(run, run', "append", disk, run.degraded)
      BY <1>1, <2>3, EditsTyped
    <3> QED
      BY <1>1, <1>2, <2>1, <3>1, GoesOn
  <2>4. CASE run' = [run EXCEPT !.pc = "advance", !.got = s]
    <3>1. Edits(run, run', "advance", run.body, run.degraded)
      BY <1>1, <2>4, EditsTyped
    <3> QED
      BY <1>1, <1>2, <2>1, <3>1, GoesOn
  <2> QED
    BY <2>2, <2>3, <2>4
<1>8. CASE AdvanceEnds
  <2>1. run.pc = "advance" /\ run.pc \in Waitings /\ phase # "down" /\ Same /\ run' = Released(run, disk)
    BY <1>0, <1>8 DEF AdvanceEnds, Still, Waits
  <2>2. \/ Released(run, disk) = Ended(run, "waiting")
        \/ Released(run, disk) = Blank(run, TRUE)
        \/ Released(run, disk) = Blank(run, ~run.got.confirmed) /\ run.got # None
        \/ Released(run, disk) = [run EXCEPT !.pc = "append", !.body = disk]
    BY DEF Released, Blank
  <2>3. run.got # None => (~run.got.confirmed) \in BOOLEAN
    OBVIOUS
  <2>4. CASE run' = Ended(run, "waiting")
    BY <2>1, <2>4, CutEnds
  <2>5. ASSUME NEW d \in BOOLEAN, run' = Blank(run, d) PROVE WaitOutcome
    <3>1. Edits(run, run', "append", NoHist, d)
      BY <2>5, EditsTyped, NoHistTyped DEF Blank
    <3> QED
      BY <1>1, <1>2, <2>1, <3>1, GoesOn
  <2>6. CASE run' = [run EXCEPT !.pc = "append", !.body = disk]
    <3>1. Edits(run, run', "append", disk, run.degraded)
      BY <1>1, <2>6, EditsTyped
    <3> QED
      BY <1>1, <1>2, <2>1, <3>1, GoesOn
  <2> QED
    BY <2>1, <2>2, <2>3, <2>4, <2>5, <2>6
<1>9. CASE AdvanceCut
  <2>1. /\ run.pc = "advance" /\ run.pc \in Waitings /\ phase # "down" /\ CutShort(run) /\ Same
        /\ run' = Ended(run, IF run.aborted THEN "waiting" ELSE "nothing")
    BY <1>0, <1>9 DEF AdvanceCut, Still, Waits
  <2>2. ~run.aborted => pane = "closed"
    BY <2>1 DEF CutShort
  <2> QED
    BY <2>1, <2>2, CutEnds
<1>10. CASE ReadyEnds
  <2>1. run.pc = "ready" /\ run.pc \in Waitings /\ phase # "down" /\ Same
    BY <1>0, <1>10 DEF ReadyEnds, Still, Waits
  <2>2. CASE IsReady(disk)
    <3>1. run' = [run EXCEPT !.pc = "append", !.body = disk]
      BY <1>10, <2>2 DEF ReadyEnds, Waits
    <3>2. Edits(run, run', "append", disk, run.degraded)
      BY <1>1, <3>1, EditsTyped
    <3> QED
      BY <1>1, <1>2, <2>1, <2>2, <3>2, GoesOn
  <2>3. CASE ~IsReady(disk)
    <3>1. run' = Ended(run, "waiting") \/ (run' = Ended(run, "nothing") /\ kind = "agy")
      BY <1>10, <2>3 DEF ReadyEnds, Waits
    <3> QED
      BY <2>1, <3>1, CutEnds
  <2> QED
    BY <2>2, <2>3
<1> QED
  BY <1>3, <1>4, <1>5, <1>6, <1>7, <1>8, <1>9, <1>10 DEF Waiting

----------------------------------------------------------------------------
(* Types, step by step *)

LEMMA QueueTail ==
  ASSUME TypeOK, queue # <<>>
  PROVE  /\ Tail(queue) \in Seq(Task) /\ Head(queue) \in Task
         /\ 1 \in DOMAIN queue /\ Head(queue) = queue[1]
         /\ \A i \in DOMAIN Tail(queue) : i + 1 \in DOMAIN queue /\ Tail(queue)[i] = queue[i + 1]
<1>1. queue \in Seq(Task)
  BY DEF TypeOK
<1> QED
  BY <1>1

LEMMA QueueAppend ==
  ASSUME TypeOK, NEW t \in Task
  PROVE  /\ Append(queue, t) \in Seq(Task)
         /\ \A i \in DOMAIN Append(queue, t) :
              (i \in DOMAIN queue /\ Append(queue, t)[i] = queue[i]) \/ Append(queue, t)[i] = t
<1>1. queue \in Seq(Task)
  BY DEF TypeOK
<1> QED
  BY <1>1

LEMMA RowsTyped ==
  ASSUME TypeOK PROVE KeepsRows(plan)
BY DEF TypeOK, KeepsRows

\* The operation that runs keeps what its place says of it.
LEMMA PlacedKept ==
  ASSUME run \in RunType, Placed, OfPlans, KeepsRows(plan'), Ids \subseteq Ids',
         run' = run \/ run' = [run EXCEPT !.aborted = TRUE]
  PROVE  Placed' /\ run' \in RunType /\ run'.pc = run.pc /\ run'.plan = run.plan
<1>1. /\ run' \in RunType /\ run'.pc = run.pc /\ run'.plan = run.plan /\ run'.out = run.out
      /\ run'.event = run.event /\ run'.skip = run.skip
  BY DEF RunType
<1>2. run.pc # "none" =>
        /\ plan'[run.plan].to = plan[run.plan].to
        /\ plan[run.plan].st \in Settled => plan'[run.plan].st = plan[run.plan].st
  BY DEF OfPlans, KeepsRows, RunType
<1> QED
  BY <1>1, <1>2 DEF Placed, Settled

LEMMA OfPlansKept ==
  ASSUME TypeOK, run \in RunType, OfPlans, KeepsRows(plan'), queue' \in Seq(Task),
         \A i \in DOMAIN queue' : \/ \E j \in DOMAIN queue : queue'[i].plan = queue[j].plan
                                  \/ plan'[queue'[i].plan].st # "none",
         \A p \in drain'.todo : p \in drain.todo \/ plan'[p].st # "none",
         run'.pc # "none" => \/ run.pc # "none" /\ run'.plan = run.plan
                             \/ plan'[run'.plan].st # "none"
  PROVE  OfPlans'
<1>1. \A q \in Plans : plan[q].st # "none" => plan'[q].st # "none"
  BY DEF KeepsRows
<1>2. drain.todo \subseteq Plans /\ run.plan \in Plans
  BY DEF TypeOK
<1>3. \A j \in DOMAIN queue : queue[j].plan \in Plans
  <2>1. \A j \in DOMAIN queue : queue[j] \in Task
    BY DEF TypeOK
  <2> QED
    BY <2>1 DEF Task
<1> QED
  BY <1>1, <1>2, <1>3 DEF OfPlans

\* The log after an action that appends nothing: entries may change their state.
Restated(l) ==
  /\ l \in Seq(Event) /\ DOMAIN l = Ids
  /\ \A i \in Ids : /\ l[i].type = log[i].type /\ l[i].from = log[i].from /\ l[i].to = log[i].to
                    /\ l[i].obs = log[i].obs /\ l[i].by = log[i].by /\ l[i].hist = log[i].hist
                    /\ l[i].degraded = log[i].degraded /\ l[i].why = log[i].why
                    /\ \/ l[i].st = log[i].st
                       \/ log[i].st = "pending" /\ l[i].st = "given"
                       \/ log[i].st \in {"pending", "given"} /\ l[i].st = "invalid"

LEMMA RestatedBy ==
  ASSUME log \in Seq(Event), NEW l, NEW st \in {"given", "invalid"},
         l = [i \in Ids |-> l[i]],
         \A i \in Ids : \/ l[i] = log[i]
                        \/ /\ l[i] = [log[i] EXCEPT !.st = st]
                           /\ \/ log[i].st = "pending"
                              \/ log[i].st = "given" /\ st = "invalid"
  PROVE  Restated(l)
<1>1. Ids = 1..Len(log) /\ Len(log) \in Nat /\ \A i \in Ids : log[i] \in Event
  BY DEF Ids
<1>2. ASSUME NEW i \in Ids
      PROVE  /\ l[i] \in Event
             /\ l[i].type = log[i].type /\ l[i].from = log[i].from /\ l[i].to = log[i].to
             /\ l[i].obs = log[i].obs /\ l[i].by = log[i].by /\ l[i].hist = log[i].hist
             /\ l[i].degraded = log[i].degraded /\ l[i].why = log[i].why
             /\ \/ l[i].st = log[i].st
                \/ log[i].st = "pending" /\ l[i].st = "given"
                \/ log[i].st \in {"pending", "given"} /\ l[i].st = "invalid"
  <2>1. log[i] \in Event
    BY <1>1
  <2>2. CASE l[i] # log[i]
    <3>1. /\ l[i] = [log[i] EXCEPT !.st = st]
          /\ \/ log[i].st = "pending"
             \/ log[i].st = "given" /\ st = "invalid"
      BY <2>2
    <3> QED
      BY <2>1, <3>1 DEF Event
  <2>3. CASE l[i] = log[i]
    BY <2>1, <2>3
  <2> QED
    BY <2>2, <2>3
<1>3. l \in [1..Len(log) -> Event]
  BY <1>1, <1>2
<1>4. l \in Seq(Event) /\ DOMAIN l = Ids
  BY <1>1, <1>3, MadeEntryByEntry
<1> QED
  BY <1>2, <1>4 DEF Restated

LEMMA GiveRestates ==
  ASSUME TypeOK, Give PROVE Restated(log')
<1>1. log' = [i \in Ids |-> IF log[i].st = "pending" THEN [log[i] EXCEPT !.st = "given"] ELSE log[i]]
  BY DEF Give
<1>2. log \in Seq(Event)
  BY DEF TypeOK
<1> QED
  BY <1>1, <1>2, RestatedBy

LEMMA CloseRestates ==
  ASSUME TypeOK, CloseBegins PROVE Restated(log')
<1>1. log' = [i \in Ids |-> IF log[i].st = "pending" THEN [log[i] EXCEPT !.st = "invalid"] ELSE log[i]]
  BY DEF CloseBegins
<1>2. log \in Seq(Event)
  BY DEF TypeOK
<1> QED
  BY <1>1, <1>2, RestatedBy

LEMMA WithdrawRestates ==
  ASSUME TypeOK, NEW i \in Ids
  PROVE  Restated(Withdrawn(i)) /\ (log[i].st \in {"pending", "given"} => Withdrawn(i)[i].st = "invalid")
<1> DEFINE l == Withdrawn(i)
<1>1. log \in Seq(Event) /\ Ids = 1..Len(log) /\ log = [j \in Ids |-> log[j]]
  BY DEF TypeOK, Ids
<1>2. log[i] \in Event
  BY <1>1
<1>3. CASE log[i].st \in {"pending", "given"}
  <2>1. l = [log EXCEPT ![i] = [log[i] EXCEPT !.st = "invalid"]]
    BY <1>3 DEF Withdrawn
  <2>2. l = [j \in Ids |-> l[j]]
    BY <1>1, <2>1
  <2>3. l[i].st = "invalid"
    BY <1>1, <1>2, <2>1 DEF Event
  <2>4. \A j \in Ids : \/ l[j] = log[j]
                       \/ /\ l[j] = [log[j] EXCEPT !.st = "invalid"]
                          /\ log[j].st = "pending" \/ log[j].st = "given"
    BY <1>1, <1>3, <2>1
  <2> HIDE DEF l
  <2>5. Restated(l)
    BY <1>1, <2>2, <2>4, RestatedBy
  <2> QED
    BY <2>3, <2>5 DEF l
<1>4. CASE log[i].st \notin {"pending", "given"}
  <2>1. l = log
    BY <1>4 DEF Withdrawn
  <2> QED
    BY <1>1, <1>4, <2>1 DEF Restated
<1> QED
  BY <1>3, <1>4

\* What a step has to show, given what the earlier lemmas give for the rest.
LEMMA TypedFrom ==
  ASSUME Typed, KeepsRows(plan'), run' \in RunType, Placed',
         kind' = kind, disk' \in Hist, live' \in Statuses \cup {"gone"},
         pane' \in {"open", "closing", "closed"}, phase' \in {"up", "stopping", "down"},
         log' \in Seq(Event), queue' \in Seq(Task),
         timer' \in [Plans -> Hist \cup {None}], stops' \in 0..MaxStops,
         owed' = None \/ owed' \in [from : Statuses, to : Statuses, snap : Hist],
         drain' \in [on : BOOLEAN, todo : SUBSET Plans, at : Plans \cup {0}, allow : BOOLEAN],
         live' = "gone" <=> pane' = "closed",
         \A i \in DOMAIN queue' : \/ \E j \in DOMAIN queue : queue'[i].plan = queue[j].plan
                                  \/ plan'[queue'[i].plan].st # "none",
         \A p \in drain'.todo : p \in drain.todo \/ plan'[p].st # "none",
         run'.pc # "none" => \/ run.pc # "none" /\ run'.plan = run.plan
                             \/ plan'[run'.plan].st # "none"
  PROVE  Typed'
<1>1. TypeOK /\ run \in RunType /\ OfPlans
  BY DEF Typed
<1>2. OfPlans'
  BY <1>1, OfPlansKept
<1>3. plan' \in [Plans -> Row]
  BY DEF KeepsRows
<1>4. run'.plan \in Plans /\ run'.snap \in Hist /\ run'.body \in Hist
  BY DEF RunType
<1>5. TypeOK'
  BY <1>1, <1>3, <1>4 DEF TypeOK
<1> QED
  BY <1>2, <1>5 DEF Typed, RowGoesWithPane

\* The same for a step of the agent, of Herdr, of a timer or of the drain, beside
\* the operation that runs.
LEMMA TypedBeside ==
  ASSUME Typed, KeepsRows(plan'), run' = run \/ run' = [run EXCEPT !.aborted = TRUE],
         kind' = kind, disk' \in Hist, live' \in Statuses \cup {"gone"},
         pane' \in {"open", "closing", "closed"}, phase' \in {"up", "stopping", "down"},
         log' \in Seq(Event), Ids \subseteq Ids', queue' \in Seq(Task),
         timer' \in [Plans -> Hist \cup {None}], stops' \in 0..MaxStops,
         owed' = None \/ owed' \in [from : Statuses, to : Statuses, snap : Hist],
         drain' \in [on : BOOLEAN, todo : SUBSET Plans, at : Plans \cup {0}, allow : BOOLEAN],
         live' = "gone" <=> pane' = "closed",
         \A i \in DOMAIN queue' : \/ \E j \in DOMAIN queue : queue'[i].plan = queue[j].plan
                                  \/ plan'[queue'[i].plan].st # "none",
         \A p \in drain'.todo : p \in drain.todo \/ plan'[p].st # "none"
  PROVE  Typed'
<1>1. run \in RunType /\ Placed /\ OfPlans
  BY DEF Typed
<1>2. Placed' /\ run' \in RunType /\ run'.pc = run.pc /\ run'.plan = run.plan
  BY <1>1, PlacedKept
<1> QED
  BY <1>2, TypedFrom

LEMMA TypeFacts ==
  ASSUME Typed
  PROVE  /\ TypeOK /\ run \in RunType /\ RowGoesWithPane /\ OfPlans /\ Placed
         /\ kind \in Kinds /\ disk \in Hist /\ live \in Statuses \cup {"gone"}
         /\ pane \in {"open", "closing", "closed"} /\ phase \in {"up", "stopping", "down"}
         /\ plan \in [Plans -> Row] /\ log \in Seq(Event) /\ queue \in Seq(Task)
         /\ timer \in [Plans -> Hist \cup {None}] /\ stops \in 0..MaxStops
         /\ owed = None \/ owed \in [from : Statuses, to : Statuses, snap : Hist]
         /\ drain \in [on : BOOLEAN, todo : SUBSET Plans, at : Plans \cup {0}, allow : BOOLEAN]
         /\ live = "gone" <=> pane = "closed"
         /\ run.plan \in Plans /\ run.snap \in Hist /\ run.body \in Hist /\ run.err \in Errors
         /\ run.by \in {"exec", "retry", "drain"} /\ run.allow \in BOOLEAN
         /\ KeepsRows(plan)
BY RowsTyped DEF Typed, TypeOK, RowGoesWithPane, RunType

LEMMA WaitingTimers ==
  ASSUME Typed
  PROVE  \A p \in Plans : Cleared(p) \in [Plans -> Hist \cup {None}]
BY TypeFacts DEF Cleared

LEMMA TypedAgent ==
  ASSUME Typed, Agent PROVE Typed'
<1>1. ASSUME NEW end \in BOOLEAN, AgentWrites(end) PROVE Typed'
  <2>1. disk' \in Hist
    BY <1>1, TypeFacts, PlansAssumption DEF AgentWrites, Hist
  <2> QED
    BY <1>1, <2>1, TypeFacts, TypedBeside DEF AgentWrites, Ids
<1>2. CASE Give
  <2>1. log' \in Seq(Event) /\ Ids \subseteq Ids'
    BY <1>2, TypeFacts, GiveRestates DEF Restated, Ids
  <2> QED
    BY <1>2, <2>1, TypeFacts, TypedBeside DEF Give
<1> QED
  BY <1>1, <1>2 DEF Agent

\* Herdr: statuses, refreshes, the close of the pane, the late answer.
LEMMA NewRowTyped ==
  ASSUME Typed, NEW from \in Statuses, NEW to \in Statuses, NEW keyed \in BOOLEAN, NEW h \in Hist
  PROVE  NewRow(from, to, keyed, h) \in Row /\ NewRow(from, to, keyed, h).st = "pending"
<1>1. Len(log) \in Nat /\ 0 \in 0..MaxAttempts
  BY TypeFacts, PlansAssumption
<1> QED
  BY <1>1 DEF NewRow, Row, Unfinished, Errors

LEMMA EnqueuedTyped ==
  ASSUME Typed, NEW p \in Plans, NEW h \in Hist, plan'[p].st # "none", queue' = Enqueued(p, h)
  PROVE  /\ queue' \in Seq(Task)
         /\ \A i \in DOMAIN queue' : \/ \E j \in DOMAIN queue : queue'[i].plan = queue[j].plan
                                     \/ plan'[queue'[i].plan].st # "none"
<1> DEFINE t == [by |-> "exec", plan |-> p, snap |-> h, allow |-> TRUE]
<1>1. t \in Task /\ t.plan = p
  BY DEF Task
<1>2. queue' = Append(queue, t)
  BY DEF Enqueued
<1> HIDE DEF t
<1> QED
  BY <1>1, <1>2, QueueAppend, TypeFacts

LEMMA TypedHerdr ==
  ASSUME Typed, Herdr PROVE Typed'
<1>1. live # "gone" => live \in Statuses
  BY TypeFacts
<1>2. "gone" \notin Statuses
  BY PlansAssumption DEF ToldTypes
<1>3. ASSUME NEW p \in Plans, NEW to \in Statuses, NEW keyed \in EventIds, StatusEvent(p, to, keyed)
      PROVE  Typed'
  <2>1. live \in Statuses /\ keyed \in BOOLEAN
    BY <1>1, <1>3, TypeFacts, PlansAssumption DEF StatusEvent
  <2>2. NewRow(live, to, keyed, NoHist) \in Row /\ NewRow(live, to, keyed, NoHist).st = "pending"
    BY <2>1, NewRowTyped, NoHistTyped
  <2>3. KeepsRows(plan') /\ plan'[p].st # "none"
    BY <1>3, <2>2, InsertedIs, TypeFacts DEF StatusEvent, IsNext
  <2>4. queue' = Enqueued(p, disk)
    BY <1>3 DEF StatusEvent
  <2>5. /\ queue' \in Seq(Task)
        /\ \A i \in DOMAIN queue' : \/ \E j \in DOMAIN queue : queue'[i].plan = queue[j].plan
                                    \/ plan'[queue'[i].plan].st # "none"
    BY <2>3, <2>4, EnqueuedTyped, TypeFacts
  <2> QED
    BY <1>2, <1>3, <2>3, <2>5, TypeFacts, TypedBeside DEF StatusEvent, Ids
<1>4. ASSUME NEW to \in Statuses, RefreshStatus(to) PROVE Typed'
  <2>1. live \in Statuses
    BY <1>1, <1>4, TypeFacts DEF RefreshStatus
  <2>2. owed' \in [from : Statuses, to : Statuses, snap : Hist]
    BY <1>4, <2>1, TypeFacts DEF RefreshStatus
  <2> QED
    BY <1>2, <1>4, <2>2, TypeFacts, TypedBeside DEF RefreshStatus, Ids
<1>5. ASSUME NEW p \in Plans, RefreshPlan(p) PROVE Typed'
  <2>1. owed.from \in Statuses /\ owed.to \in Statuses /\ owed.snap \in Hist
    BY <1>5, TypeFacts DEF RefreshPlan
  <2>2. /\ NewRow(owed.from, owed.to, FALSE, owed.snap) \in Row
        /\ NewRow(owed.from, owed.to, FALSE, owed.snap).st = "pending"
    BY <2>1, NewRowTyped
  <2>3. KeepsRows(plan') /\ plan'[p].st # "none"
    BY <1>5, <2>2, InsertedIs, TypeFacts DEF RefreshPlan, IsNext
  <2>4. queue' = Enqueued(p, owed.snap)
    BY <1>5 DEF RefreshPlan
  <2>5. /\ queue' \in Seq(Task)
        /\ \A i \in DOMAIN queue' : \/ \E j \in DOMAIN queue : queue'[i].plan = queue[j].plan
                                    \/ plan'[queue'[i].plan].st # "none"
    BY <2>1, <2>3, <2>4, EnqueuedTyped
  <2> QED
    BY <1>5, <2>3, <2>5, TypeFacts, TypedBeside DEF RefreshPlan, Ids
<1>6. CASE CloseBegins
  <2>1. log' \in Seq(Event) /\ Ids \subseteq Ids'
    BY <1>6, TypeFacts, CloseRestates DEF Restated, Ids
  <2>2. run' = run \/ run' = [run EXCEPT !.aborted = TRUE]
    BY <1>6 DEF CloseBegins
  <2>3. live' = "gone" <=> pane' = "closed"
    BY <1>6, TypeFacts DEF CloseBegins
  <2> QED
    BY <1>6, <2>1, <2>2, <2>3, TypeFacts, TypedBeside DEF CloseBegins
<1>7. CASE CloseRetires
  BY <1>7, TypeFacts, TypedBeside DEF CloseRetires, Ids
<1>8. CASE LateCompletion
  <2> DEFINE e == [type |-> live, from |-> "working", to |-> live, obs |-> -1,
                   by |-> disk.ref, hist |-> disk, degraded |-> FALSE,
                   st |-> "pending", why |-> "late"]
  <2>1. live \in Statuses /\ live \in ToldTypes /\ disk.ref \in Nat /\ disk \in Hist
    BY <1>1, <1>8, TypeFacts DEF LateCompletion, Hist, ToldTypes
  <2>2. e \in Event
    BY <2>1 DEF Event
  <2>3. log' = Append(log, e)
    BY <1>8 DEF LateCompletion
  <2> HIDE DEF e
  <2>4. log' \in Seq(Event) /\ Ids \subseteq Ids'
    BY <2>2, <2>3, TypeFacts DEF Ids
  <2> QED
    BY <1>8, <2>4, TypeFacts, TypedBeside DEF LateCompletion
<1> QED
  BY <1>3, <1>4, <1>5, <1>6, <1>7, <1>8 DEF Herdr

\* What stays of the queue, and the task that leaves it.
LEMMA TaskTaken ==
  ASSUME Typed, NEW t, Next1(t)
  PROVE  /\ t \in Task /\ t.plan \in Plans /\ plan[t.plan].st # "none" /\ t.snap \in Hist
         /\ queue' \in Seq(Task) /\ run = NoRun /\ phase # "down"
         /\ 1 \in DOMAIN queue /\ queue[1] = t
         /\ \A i \in DOMAIN queue' : i + 1 \in DOMAIN queue /\ queue'[i] = queue[i + 1]
         /\ \A i \in DOMAIN queue' : \E j \in DOMAIN queue : queue'[i].plan = queue[j].plan
<1>1. /\ queue' = Tail(queue) /\ t = Head(queue) /\ queue # <<>> /\ run = NoRun /\ phase # "down"
  BY DEF Next1
<1>2. /\ t \in Task /\ queue' \in Seq(Task) /\ 1 \in DOMAIN queue /\ queue[1] = t
      /\ \A i \in DOMAIN queue' : i + 1 \in DOMAIN queue /\ queue'[i] = queue[i + 1]
  BY <1>1, QueueTail, TypeFacts
<1>3. t.plan \in Plans /\ t.snap \in Hist
  BY <1>2 DEF Task
<1>4. plan[t.plan].st # "none"
  BY <1>2, TypeFacts DEF OfPlans
<1> QED
  BY <1>1, <1>2, <1>3, <1>4

\* An operation that is over, and one that has only just been settled, say nothing.
LEMMA PlacedEnded ==
  ASSUME run' = NoRun \/ \E r \in RunType, out \in Outcomes \ {"event"} : run' = Ended(r, out)
  PROVE  Placed' /\ run' \in RunType
<1>1. CASE run' = NoRun
  <2>1. NoRun.pc = "none" /\ NoRun.out = "none" /\ NoRun.event = 0
    BY DEF NoRun
  <2> QED
    BY <1>1, <2>1, NoRunTyped DEF Placed
<1>2. CASE \E r \in RunType, out \in Outcomes \ {"event"} : run' = Ended(r, out)
  <2>1. PICK r \in RunType, out \in Outcomes \ {"event"} : run' = Ended(r, out)
    BY <1>2
  <2>2. run' \in RunType /\ run'.pc = "settle" /\ run'.out = out /\ run'.event = 0
    BY <2>1, EndedTyped
  <2> QED
    BY <2>2 DEF Placed
<1> QED
  BY <1>1, <1>2

\* Where an operation begins: at the rescue, at its settlement, or at a wait.
LEMMA StartedRun ==
  ASSUME Typed, NEW t, StartRun(t)
  PROVE  /\ run' \in RunType /\ Placed' /\ run'.plan = t.plan /\ run'.pc # "none"
         /\ ~run'.degraded /\ run'.event = 0
         /\ \/ run'.pc = "settle" /\ run'.out \in {"nothing", "waiting"} /\ ~run'.aborted
            \/ /\ run'.pc \in Waitings \cup {"append"} /\ run'.out = "none"
               /\ run'.aborted = (phase = "stopping") /\ run'.obs = LastChanged
               /\ run'.skip => /\ LastChanged # 0 /\ log[LastChanged].to = plan[t.plan].to
                               /\ plan[t.plan].to \in ToldTypes
<1> DEFINE snap == IF t.by = "exec" THEN t.snap ELSE disk
           r == [Opened(t) EXCEPT !.snap = snap, !.body = snap]
<1>1. Next1(t) /\ run' = Gated(r)
  BY DEF StartRun
<1>2. t \in Task /\ t.plan \in Plans /\ snap \in Hist
  BY <1>1, TaskTaken, TypeFacts
<1>3. /\ Opened(t) \in RunType /\ Opened(t).plan = t.plan /\ Opened(t).event = 0
      /\ Opened(t).out = "none" /\ ~Opened(t).degraded
  BY <1>2, OpenedTyped, TypeFacts
<1> HIDE DEF snap
<1>4. /\ r \in RunType /\ r.plan = t.plan /\ r.event = 0 /\ r.out = "none" /\ ~r.degraded
  BY <1>2, <1>3 DEF RunType
<1> HIDE DEF r
<1>5. /\ run' \in RunType
      /\ \/ run' \in {Ended(r, "nothing"), Ended(r, "waiting")}
         \/ /\ run'.pc = FirstWait(r) /\ run'.obs = LastChanged
            /\ run'.skip => /\ LastChanged # 0 /\ log[LastChanged].to = plan[r.plan].to
                            /\ plan[r.plan].to \in ToldTypes
            /\ \A f \in {"plan", "by", "allow", "tries", "err", "snap", "body", "degraded", "got",
                         "event", "out"} : run'[f] = r[f]
  BY <1>1, <1>4, GatedTyped, TypeFacts
<1>6. CASE run' \in {Ended(r, "nothing"), Ended(r, "waiting")}
  <2>1. PICK out \in {"nothing", "waiting"} : run' = Ended(r, out)
    BY <1>6
  <2>2. out \in Outcomes \ {"event"}
    BY DEF Outcomes
  <2>3. Placed'
    BY <1>4, <2>1, <2>2, PlacedEnded
  <2> QED
    BY <1>4, <1>5, <2>1, <2>2, <2>3, EndedTyped
<1>7. CASE run' \notin {Ended(r, "nothing"), Ended(r, "waiting")}
  <2>1. /\ run'.plan = r.plan /\ run'.event = r.event /\ run'.out = r.out
        /\ run'.degraded = r.degraded
    BY <1>5, <1>7
  <2>2. FirstWait(r) \in Waitings \cup {"append"}
    BY DEF FirstWait, Waitings
  <2>3. run'.aborted = (phase = "stopping")
    <3>1. run' = [r EXCEPT !.pc = FirstWait(r), !.skip = run'.skip,
                           !.obs = LastChanged, !.aborted = (phase = "stopping")]
      <4> DEFINE gated(s) == [r EXCEPT !.pc = FirstWait(r), !.skip = s,
                                       !.obs = LastChanged, !.aborted = (phase = "stopping")]
      <4>1. \E s \in BOOLEAN : Gated(r) \in {Ended(r, "nothing"), Ended(r, "waiting"), gated(s)}
        BY DEF Gated
      <4>2. \A s \in BOOLEAN : gated(s).skip = s
        BY <1>4 DEF RunType
      <4> HIDE DEF gated
      <4>3. \E s \in BOOLEAN : run' = gated(s)
        BY <1>1, <1>7, <4>1
      <4> QED
        BY <4>2, <4>3 DEF gated
    <3> QED
      BY <1>4, <3>1 DEF RunType
  <2>4. plan'[t.plan].to = plan[t.plan].to
    BY <1>1, <1>2, RunningIs, TypeFacts DEF StartRun, KeepsRows, Unfinished, Settled
  <2>5. Placed'
    BY <1>4, <1>5, <1>7, <2>1, <2>2, <2>4 DEF Placed, Waitings
  <2> QED
    BY <1>4, <1>5, <1>7, <2>1, <2>2, <2>3, <2>5 DEF Waitings
<1> QED
  BY <1>6, <1>7

LEMMA TypedTaking ==
  ASSUME Typed, NEW t, SkipTask(t) \/ StartOrphan(t) \/ StartUnread(t) \/ StartRun(t)
  PROVE  Typed'
<1>0. Next1(t)
  BY DEF SkipTask, StartOrphan, StartUnread, StartRun
<1>1. /\ t \in Task /\ t.plan \in Plans /\ plan[t.plan].st # "none" /\ t.snap \in Hist
      /\ queue' \in Seq(Task)
      /\ \A i \in DOMAIN queue' : \E j \in DOMAIN queue : queue'[i].plan = queue[j].plan
  BY <1>0, TaskTaken
<1>2. CASE SkipTask(t)
  <2>1. timer' \in [Plans -> Hist \cup {None}]
    BY <1>1, <1>2, WaitingTimers DEF SkipTask
  <2>2. /\ drain' \in [on : BOOLEAN, todo : SUBSET Plans, at : Plans \cup {0}, allow : BOOLEAN]
        /\ drain'.todo = drain.todo
    BY <1>2, TypeFacts DEF SkipTask
  <2> QED
    BY <1>1, <1>2, <2>1, <2>2, TypeFacts, TypedBeside DEF SkipTask, Ids
<1>3. /\ Opened(t) \in RunType /\ Opened(t).plan = t.plan /\ Opened(t).event = 0
      /\ Opened(t).out = "none" /\ ~Opened(t).degraded
  BY <1>1, OpenedTyped, TypeFacts
<1>4. CASE StartOrphan(t)
  <2>1. run' = [Opened(t) EXCEPT !.pc = "salvage"]
    BY <1>4 DEF StartOrphan
  <2>2. /\ run' \in RunType /\ run'.pc = "salvage" /\ run'.plan = t.plan /\ run'.event = 0
        /\ run'.out = "none"
    BY <1>3, <2>1 DEF RunType, RunPlaces
  <2>3. Placed'
    BY <2>2 DEF Placed
  <2> QED
    BY <1>1, <1>4, <2>2, <2>3, TypeFacts, TypedFrom DEF StartOrphan
<1>5. CASE StartUnread(t)
  <2> DEFINE snap == IF t.by = "drain" THEN plan[t.plan].stored ELSE t.snap
  <2>1. run' = [Opened(t) EXCEPT !.pc = "settle", !.out = "waiting", !.snap = snap]
    BY <1>5 DEF StartUnread
  <2>2. snap \in Hist
    BY <1>1, RowTyped, TypeFacts
  <2> HIDE DEF snap
  <2>3. /\ run' \in RunType /\ run'.pc = "settle" /\ run'.plan = t.plan /\ run'.event = 0
        /\ run'.out = "waiting"
    BY <1>3, <2>1, <2>2 DEF RunType, RunPlaces, Outcomes
  <2>4. Placed'
    BY <2>3 DEF Placed
  <2> QED
    BY <1>1, <1>5, <2>3, <2>4, TypeFacts, TypedFrom DEF StartUnread
<1>6. CASE StartRun(t)
  <2>1. run' \in RunType /\ Placed' /\ run'.plan = t.plan
    BY <1>6, StartedRun
  <2>2. plan[t.plan].st = "pending" /\ plan' = Running(t.plan)
    BY <1>6 DEF StartRun
  <2>3. KeepsRows(plan') /\ plan'[t.plan].st # "none"
    BY <1>1, <2>2, RunningIs, TypeFacts
  <2> QED
    BY <1>1, <1>6, <2>1, <2>3, TypeFacts, TypedFrom DEF StartRun
<1> QED
  BY <1>2, <1>4, <1>5, <1>6

LEMMA TypedWaiting ==
  ASSUME Typed, Waiting PROVE Typed'
<1>1. WaitOutcome
  BY WaitsEnd, TypeFacts
<1>2. /\ UNCHANGED <<kind, disk, live, pane, plan, log, owed, queue, timer, drain, phase, stops>>
      /\ run' \in RunType /\ run'.plan = run.plan /\ run'.event = 0 /\ run.pc # "none"
      /\ run'.pc \in {"settle", "append", "advance"} 
      /\ \/ run'.pc = "settle" /\ run'.out # "event"
         \/ run'.out = run.out /\ run.pc \in Waitings /\ run'.skip = run.skip
  BY <1>1 DEF WaitOutcome, Waitings
<1>3. Placed'
  BY <1>2, TypeFacts DEF Placed, Waitings
<1> QED
  BY <1>2, <1>3, TypeFacts, TypedFrom

\* The two events of a run.
LEMMA ToldRun ==
  ASSUME Typed, NEW id \in Nat \ {0}, id \in Ids',
         run' = [Ended(run, "event") EXCEPT !.event = id]
  PROVE  /\ run' \in RunType /\ Placed' /\ run'.plan = run.plan /\ run'.pc = "settle"
         /\ run'.out = "event" /\ run'.event = id /\ ~run'.degraded /\ ~run'.aborted
<1>1. "event" \in Outcomes
  BY DEF Outcomes
<1>2. /\ Ended(run, "event") \in RunType /\ Ended(run, "event").pc = "settle"
      /\ Ended(run, "event").plan = run.plan /\ Ended(run, "event").out = "event"
      /\ ~Ended(run, "event").degraded /\ ~Ended(run, "event").aborted
  BY <1>1, EndedTyped, TypeFacts
<1>3. /\ run' \in RunType /\ run'.plan = run.plan /\ run'.pc = "settle"
      /\ run'.out = "event" /\ run'.event = id /\ ~run'.degraded /\ ~run'.aborted
  BY <1>2 DEF RunType
<1>4. Placed'
  BY <1>3 DEF Placed
<1> QED
  BY <1>3, <1>4

LEMMA AppendRefusedIs ==
  ASSUME Typed, AppendRefused
  PROVE  /\ UNCHANGED <<kind, disk, live, pane, plan, log, owed, queue, timer, drain, phase, stops>>
         /\ run.pc = "append" /\ phase # "down"
         /\ \E out \in {"nothing", "waiting", "cancelled"} :
              /\ run' = Ended(run, out)
              /\ out = "cancelled" => live = "gone"
              /\ out = "nothing" => \/ pane = "closed" \/ (run.aborted /\ phase # "stopping")
                                    \/ plan[run.plan].to \notin {"done", "blocked"}
<1>1. run.pc = "append" /\ phase # "down"
  BY DEF AppendRefused, Still
<1>2. CutShort(run) /\ CutOutcome(run) = "nothing"
      => pane = "closed" \/ (run.aborted /\ phase # "stopping")
  BY DEF CutShort, CutOutcome
<1>3. CutOutcome(run) \in {"nothing", "waiting"}
  BY DEF CutOutcome
<1>4. CASE CutShort(run)
  BY <1>1, <1>2, <1>3, <1>4 DEF AppendRefused
<1>5. CASE ~CutShort(run) /\ live = "gone"
  BY <1>1, <1>5 DEF AppendRefused
<1>6. CASE ~CutShort(run) /\ live # "gone"
  BY <1>1, <1>6 DEF AppendRefused, Outrun
<1> QED
  BY <1>4, <1>5, <1>6

\* Either the event is in the log and the operation is over, or the terminal event
\* follows.
LEMMA AppendChangedIs ==
  ASSUME Typed, AppendChanged
  PROVE  LET e == Transition(run, "changed")
         IN  /\ UNCHANGED <<kind, disk, live, pane, plan, owed, queue, timer, drain, phase, stops>>
             /\ run.pc = "append" /\ phase # "down" /\ live # "gone"
             /\ e \in Event /\ log' \in Seq(Event) /\ Ids \subseteq Ids'
             /\ log' = IF run.skip THEN log ELSE Logged(log, e)
             /\ \/ /\ plan[run.plan].to \in ToldTypes /\ run' = [run EXCEPT !.pc = "tell"]
                \/ /\ plan[run.plan].to \notin ToldTypes /\ ~run.skip
                   /\ IdOf(log, e) \in Nat \ {0} /\ IdOf(log, e) \in Ids'
                   /\ run' = [Ended(run, "event") EXCEPT !.event = IdOf(log, e)]
<1> DEFINE e == Transition(run, "changed")
<1>1. run.pc = "append" /\ phase # "down" /\ live # "gone"
      /\ log' = IF run.skip THEN log ELSE Logged(log, e)
  BY DEF AppendChanged, Still
<1>2. e \in Event
  BY TransitionTyped, TypeFacts
<1>3. run.skip => plan[run.plan].to \in ToldTypes
  BY <1>1, TypeFacts DEF Placed
<1>4. UNCHANGED <<kind, disk, live, pane, plan, owed, queue, timer, drain, phase, stops>>
  BY DEF AppendChanged
<1>5. \/ plan[run.plan].to \in ToldTypes /\ run' = [run EXCEPT !.pc = "tell"]
      \/ /\ plan[run.plan].to \notin ToldTypes
         /\ run' = [Ended(run, "event") EXCEPT !.event = IdOf(log, e)]
  BY DEF AppendChanged
<1> HIDE DEF e
<1>6. /\ log' \in Seq(Event) /\ Ids \subseteq Ids'
      /\ ~run.skip => IdOf(log, e) \in Nat \ {0} /\ IdOf(log, e) \in Ids'
  BY <1>1, <1>2, LoggedIs, TypeFacts DEF Ids
<1> QED
  BY <1>1, <1>2, <1>3, <1>4, <1>5, <1>6 DEF e

LEMMA AppendTerminalIs ==
  ASSUME Typed, AppendTerminal
  PROVE  LET e == Transition(run, plan[run.plan].to)
         IN  /\ UNCHANGED <<kind, disk, live, pane, plan, owed, queue, timer, drain, phase, stops>>
             /\ run.pc = "tell" /\ phase # "down" /\ plan[run.plan].to \in ToldTypes
             /\ e \in Event /\ log' \in Seq(Event) /\ Ids \subseteq Ids'
             /\ log' = Logged(log, e)
             /\ IdOf(log, e) \in Nat \ {0} /\ IdOf(log, e) \in Ids'
             /\ run' = [Ended(run, "event") EXCEPT !.event = IdOf(log, e)]
<1> DEFINE e == Transition(run, plan[run.plan].to)
<1>1. /\ run.pc = "tell" /\ phase # "down" /\ log' = Logged(log, e)
      /\ run' = [Ended(run, "event") EXCEPT !.event = IdOf(log, e)]
      /\ UNCHANGED <<kind, disk, live, pane, plan, owed, queue, timer, drain, phase, stops>>
  BY DEF AppendTerminal, Still
<1>2. plan[run.plan].to \in ToldTypes
  BY <1>1, TypeFacts DEF Placed
<1>3. e \in Event
  BY <1>2, TransitionTyped, TypeFacts
<1> HIDE DEF e
<1>4. /\ log' \in Seq(Event) /\ Ids \subseteq Ids'
      /\ IdOf(log, e) \in Nat \ {0} /\ IdOf(log, e) \in Ids'
  BY <1>1, <1>3, LoggedIs, TypeFacts DEF Ids
<1> QED
  BY <1>1, <1>2, <1>3, <1>4 DEF e

LEMMA TypedTelling ==
  ASSUME Typed, Telling PROVE Typed'
<1>1. CASE AppendRefused
  <2>1. PICK out \in {"nothing", "waiting", "cancelled"} : run' = Ended(run, out)
    BY <1>1, AppendRefusedIs
  <2>2. out \in Outcomes \ {"event"}
    BY DEF Outcomes
  <2>3. run' \in RunType /\ Placed' /\ run'.plan = run.plan /\ run.pc # "none"
    BY <1>1, <2>1, <2>2, EndedTyped, PlacedEnded, TypeFacts, AppendRefusedIs
  <2> QED
    BY <1>1, <2>3, AppendRefusedIs, TypeFacts, TypedFrom
<1>2. CASE AppendChanged
  <2>1. CASE run' = [run EXCEPT !.pc = "tell"] /\ plan[run.plan].to \in ToldTypes
    <3>1. run.out # "event" /\ run.event = 0
      BY <1>2, AppendChangedIs, TypeFacts DEF Placed
    <3>2. /\ run' \in RunType /\ run'.pc = "tell" /\ run'.plan = run.plan /\ run'.out = run.out
          /\ run'.event = run.event
      BY <2>1, TypeFacts DEF RunType, RunPlaces
    <3>3. Placed'
      BY <1>2, <2>1, <3>1, <3>2, AppendChangedIs DEF Placed
    <3> QED
      BY <1>2, <3>2, <3>3, AppendChangedIs, TypeFacts, TypedFrom
  <2>2. CASE ~(run' = [run EXCEPT !.pc = "tell"] /\ plan[run.plan].to \in ToldTypes)
    <3>1. run' \in RunType /\ Placed' /\ run'.plan = run.plan
      BY <1>2, <2>2, AppendChangedIs, ToldRun
    <3> QED
      BY <1>2, <3>1, AppendChangedIs, TypeFacts, TypedFrom
  <2> QED
    BY <2>1, <2>2
<1>3. CASE AppendTerminal
  <2>1. run' \in RunType /\ Placed' /\ run'.plan = run.plan
    BY <1>3, AppendTerminalIs, ToldRun
  <2> QED
    BY <1>3, <2>1, AppendTerminalIs, TypeFacts, TypedFrom
<1> QED
  BY <1>1, <1>2, <1>3 DEF Telling

\* The end of an operation.
LEMMA FinishIs ==
  ASSUME Typed, Finish
  PROVE  /\ run' = NoRun /\ run' \in RunType /\ run'.pc = "none" /\ Placed'
         /\ drain' \in [on : BOOLEAN, todo : SUBSET Plans, at : Plans \cup {0}, allow : BOOLEAN]
         /\ drain'.todo = drain.todo
<1>1. run' = NoRun
  BY DEF Finish
<1>2. NoRun.pc = "none"
  BY DEF NoRun
<1>3. /\ drain' \in [on : BOOLEAN, todo : SUBSET Plans, at : Plans \cup {0}, allow : BOOLEAN]
      /\ drain'.todo = drain.todo
  BY TypeFacts DEF Finish
<1> QED
  BY <1>1, <1>2, <1>3, PlacedEnded, NoRunTyped

\* The four ways in which an operation is over leave these behind.
LEMMA TypedFinished ==
  ASSUME Typed, Finish, KeepsRows(plan'), log' \in Seq(Event),
         timer' \in [Plans -> Hist \cup {None}],
         UNCHANGED <<kind, disk, live, pane, owed, queue, phase, stops>>
  PROVE  Typed'
BY FinishIs, TypeFacts, TypedFrom

\* What a retry writes into the row of its plan.
LEMMA RetryRow ==
  ASSUME Typed, NEW stalled \in BOOLEAN, NEW expired \in BOOLEAN, plan[run.plan].st \in Unfinished,
         NEW row, row = Retried(plan[run.plan], RetryError(run), IsExempt(run, expired), stalled, expired)
  PROVE  /\ row \in Row /\ row.from = plan[run.plan].from /\ row.to = plan[run.plan].to
         /\ row.st \in {"pending", "failed", "discarded"}
         /\ row.st = "pending" => row.err = RetryError(run)
         /\ KeepsRows([plan EXCEPT ![run.plan] = row])
<1>1. RetryError(run) \in {"degraded", "waiting", "other"}
  BY DEF RetryError
<1>2. IsExempt(run, expired) \in BOOLEAN
  BY DEF IsExempt, IsLiveWorking, IsSuspected
<1>3. run.plan \in Plans
  BY TypeFacts
<1>4. /\ row \in Row /\ row.from = plan[run.plan].from /\ row.to = plan[run.plan].to
      /\ row.st \in {"pending", "failed", "discarded"}
      /\ row.st = "pending" => row.err = RetryError(run)
  <2>1. PICK error \in {"degraded", "waiting", "other"} : error = RetryError(run)
    BY <1>1
  <2>2. PICK exempt \in BOOLEAN : exempt = IsExempt(run, expired)
    BY <1>2
  <2>3. row = Retried(plan[run.plan], error, exempt, stalled, expired)
    BY <2>1, <2>2
  <2>4. TypeOK /\ log \in Seq(Event)
    BY TypeFacts
  <2>5. PICK p \in Plans : p = run.plan
    BY <1>3
  <2>6. row = Retried(plan[p], error, exempt, stalled, expired)
    BY <2>3, <2>5
  <2>7. /\ row \in Row /\ row.from = plan[p].from /\ row.to = plan[p].to
        /\ row.st \in {"pending", "failed", "discarded"}
        /\ row.st = "pending" => row.err = error
    BY <2>4, <2>6, RetriedIs
  <2> QED
    BY <2>1, <2>5, <2>7
<1> QED
  BY <1>3, <1>4, RetriedRows, TypeFacts

\* The answer a rescue finds.
LEMMA SalvageBodyTyped ==
  ASSUME Typed, NEW p \in Plans PROVE SalvageBody(p) \in Hist
<1>1. Tail20(p) \in SUBSET Ids
  BY DEF Tail20
<1>2. HistAt(Newest(Tail20(p))) \in Hist
  BY <1>1, HistAtTyped, TypeFacts
<1>3. plan[p].stored \in Hist
  BY RowTyped, TypeFacts
<1> QED
  BY <1>2, <1>3 DEF SalvageBody

\* What a rescue or a verdict appends.
LEMMA SalvageIs ==
  ASSUME Typed, Salvage
  PROVE  LET e == Verdict(run.plan, "failed", SalvageBody(run.plan), "pending", "salvage")
         IN  /\ e \in Event /\ log' = Logged(log, e) /\ log' \in Seq(Event) /\ Ids \subseteq Ids'
             /\ run' = [run EXCEPT !.pc = "salvaged"] /\ run' \in RunType /\ run'.pc = "salvaged"
             /\ run'.plan = run.plan /\ run'.out = run.out /\ run'.event = run.event
             /\ ToSalvage /\ run.pc \in {"salvage", "settle"} /\ run.out # "event"
             /\ UNCHANGED <<kind, disk, live, pane, plan, owed, queue, timer, drain, phase, stops>>
<1> DEFINE e == Verdict(run.plan, "failed", SalvageBody(run.plan), "pending", "salvage")
<1>1. e \in Event
  BY SalvageBodyTyped, VerdictTyped, TypeFacts
<1>2. log' = Logged(log, e) /\ ToSalvage /\ run' = [run EXCEPT !.pc = "salvaged"]
      /\ UNCHANGED <<kind, disk, live, pane, plan, owed, queue, timer, drain, phase, stops>>
  BY DEF Salvage
<1> HIDE DEF e
<1>3. log' \in Seq(Event) /\ Ids \subseteq Ids'
  BY <1>1, <1>2, LoggedIs, TypeFacts DEF Ids
<1>4. /\ run' \in RunType /\ run'.pc = "salvaged" /\ run'.plan = run.plan
      /\ run'.out = run.out /\ run'.event = run.event
  BY <1>2, TypeFacts DEF RunType, RunPlaces
<1>5. run.pc \in {"salvage", "settle"}
  BY <1>2 DEF ToSalvage, Still
<1>6. run.out # "event"
  BY <1>2, TypeFacts DEF ToSalvage, Still, Placed
<1> QED
  BY <1>1, <1>2, <1>3, <1>4, <1>5, <1>6 DEF e

LEMMA AppendVerdictIs ==
  ASSUME Typed, AppendVerdict
  PROVE  LET e == Verdict(run.plan, plan[run.plan].st, run.snap, "pending", "row")
         IN  /\ plan[run.plan].st \in {"failed", "discarded"} /\ run.pc = "verdict" /\ Finish
             /\ e \in Event /\ log' \in Seq(Event) /\ Ids \subseteq Ids'
             /\ log' \in {log, Logged(log, e)}
             /\ UNCHANGED <<kind, disk, live, pane, plan, owed, queue, timer, phase, stops>>
<1> DEFINE e == Verdict(run.plan, plan[run.plan].st, run.snap, "pending", "row")
<1>1. run.pc = "verdict" /\ plan[run.plan].st \in {"failed", "discarded"}
  BY TypeFacts DEF AppendVerdict, Still, Placed
<1>2. e \in Event
  BY <1>1, VerdictTyped, TypeFacts
<1>3. log' \in {log, Logged(log, e)} /\ Finish
      /\ UNCHANGED <<kind, disk, live, pane, plan, owed, queue, timer, phase, stops>>
  BY DEF AppendVerdict
<1> HIDE DEF e
<1>4. Logged(log, e) \in Seq(Event) /\ Ids \subseteq DOMAIN Logged(log, e) /\ log \in Seq(Event)
  BY <1>2, LoggedIs, TypeFacts DEF Ids
<1>5. log' \in Seq(Event) /\ Ids \subseteq Ids'
  BY <1>3, <1>4 DEF Ids
<1> QED
  BY <1>1, <1>2, <1>3, <1>5 DEF e

\* Withdraw
LEMMA WithdrawIs ==
  ASSUME Typed, Withdraw
  PROVE  /\ run.pc = "settle" /\ phase # "down" /\ run.event \in Ids /\ log[run.event].degraded
         /\ Restated(log') /\ log' = Withdrawn(run.event) /\ run.out = "event"
         /\ log[run.event].st \in {"pending", "given"} => log'[run.event].st = "invalid"
         /\ run' \in RunType /\ run'.pc = "mark" /\ run'.plan = run.plan /\ run'.out = run.out
         /\ run'.event = run.event /\ run'.err = "degraded" /\ run'.degraded = run.degraded
         /\ timer' = Cleared(run.plan)
         /\ UNCHANGED <<kind, disk, live, pane, plan, owed, queue, drain, phase, stops>>
<1>1. /\ run.pc = "settle" /\ phase # "down" /\ run.out = "event" /\ log[run.event].degraded
      /\ log' = Withdrawn(run.event) /\ timer' = Cleared(run.plan)
      /\ run' = [run EXCEPT !.pc = "mark", !.err = "degraded"]
      /\ UNCHANGED <<kind, disk, live, pane, plan, owed, queue, drain, phase, stops>>
  BY DEF Withdraw, Still, IsDegraded
<1>2. run.event \in Ids
  BY <1>1, TypeFacts DEF Placed
<1>3. /\ run' \in RunType /\ run'.pc = "mark" /\ run'.plan = run.plan /\ run'.out = run.out
      /\ run'.event = run.event /\ run'.err = "degraded" /\ run'.degraded = run.degraded
  BY <1>1, TypeFacts DEF RunType, RunPlaces, Errors
<1> QED
  BY <1>1, <1>2, <1>3, WithdrawRestates, TypeFacts

LEMMA TypedSettling ==
  ASSUME Typed, Settling PROVE Typed'
<1>0. run.plan \in Plans /\ Cleared(run.plan) \in [Plans -> Hist \cup {None}] /\ Len(log) \in Nat
  BY TypeFacts, WaitingTimers
<1>1. CASE Complete
  <2>1. plan' = RowSettled(run.plan, "completed") /\ timer' = Cleared(run.plan) /\ Finish
        /\ UNCHANGED <<kind, disk, live, pane, log, owed, queue, phase, stops>>
    BY <1>1 DEF Complete
  <2>2. KeepsRows(plan')
    BY <1>0, <2>1, RowSettledIs, TypeFacts DEF Settled
  <2> QED
    BY <1>0, <2>1, <2>2, TypedFinished, TypeFacts
<1>2. CASE Withdraw
  <2>1. Placed'
    BY <1>2, WithdrawIs, TypeFacts DEF Placed, Restated, Ids
  <2>2. run.pc # "none" /\ log' \in Seq(Event)
    BY <1>2, WithdrawIs DEF Restated
  <2> QED
    BY <1>0, <1>2, <2>1, <2>2, WithdrawIs, TypeFacts, TypedFrom
<1>3. CASE MarkTooLate
  BY <1>0, <1>3, TypedFinished, TypeFacts DEF MarkTooLate
<1>4. CASE AppendVerdict
  BY <1>4, AppendVerdictIs, TypedFinished, TypeFacts
<1>5. ASSUME NEW stalled \in BOOLEAN, NEW expired \in BOOLEAN, PutBack(stalled, expired)
      PROVE  Typed'
  <2> DEFINE row == Retried(plan[run.plan], RetryError(run), IsExempt(run, expired), stalled, expired)
  <2>1. /\ plan[run.plan].st \in Unfinished /\ plan' = [plan EXCEPT ![run.plan] = row] /\ Finish
        /\ timer' = IF RetryError(run) = "waiting" THEN [timer EXCEPT ![run.plan] = run.snap]
                    ELSE IF run.out = "error" THEN Cleared(run.plan) ELSE timer
        /\ UNCHANGED <<kind, disk, live, pane, log, owed, queue, phase, stops>>
    BY <1>5 DEF PutBack
  <2>2. KeepsRows(plan')
    BY <2>1, RetryRow
  <2>3. timer' \in [Plans -> Hist \cup {None}]
    BY <1>0, <2>1, TypeFacts
  <2> QED
    BY <2>1, <2>2, <2>3, TypedFinished, TypeFacts
<1>6. ASSUME NEW stalled \in BOOLEAN, NEW expired \in BOOLEAN, GiveUp(stalled, expired)
      PROVE  Typed'
  <2> DEFINE row == Retried(plan[run.plan], RetryError(run), IsExempt(run, expired), stalled, expired)
  <2>1. /\ plan[run.plan].st \in Unfinished /\ plan' = [plan EXCEPT ![run.plan] = row]
        /\ row.st # "pending" /\ timer' = Cleared(run.plan) /\ run' = [run EXCEPT !.pc = "verdict"]
        /\ UNCHANGED <<kind, disk, live, pane, log, owed, queue, drain, phase, stops>>
        /\ run.pc \in {"mark", "settle"}
    BY <1>6 DEF GiveUp, Retryable, Still
  <2>2. KeepsRows(plan') /\ row.st \in {"failed", "discarded"}
    BY <2>1, RetryRow
  <2>3. /\ run' \in RunType /\ run'.pc = "verdict" /\ run'.plan = run.plan /\ run'.out = run.out
        /\ run'.event = run.event
    BY <2>1, TypeFacts DEF RunType, RunPlaces
  <2>4. plan'[run.plan].st \in {"failed", "discarded"}
    BY <1>0, <2>1, <2>2, TypeFacts
  <2>5. Placed'
    BY <2>1, <2>3, <2>4, TypeFacts DEF Placed, Ids
  <2> QED
    BY <1>0, <2>1, <2>2, <2>3, <2>5, TypeFacts, TypedFrom
<1>7. CASE Salvage
  <2>1. Placed'
    BY <1>7, SalvageIs, TypeFacts DEF Placed
  <2> QED
    BY <1>7, <2>1, SalvageIs, TypeFacts, TypedFrom
<1>8. ASSUME NEW st \in {"completed", "cancelled"}, plan' = RowSettled(run.plan, st),
             timer' = Cleared(run.plan), Finish,
             UNCHANGED <<kind, disk, live, pane, log, owed, queue, phase, stops>>
      PROVE  Typed'
  <2>1. KeepsRows(plan')
    BY <1>0, <1>8, RowSettledIs, TypeFacts DEF Settled
  <2> QED
    BY <1>0, <1>8, <2>1, TypedFinished, TypeFacts
<1>9. CASE SalvageDone
  BY <1>8, <1>9 DEF SalvageDone
<1>10. CASE CancelMissing
  BY <1>8, <1>10 DEF CancelMissing
<1> QED
  BY <1>1, <1>2, <1>3, <1>4, <1>5, <1>6, <1>7, <1>9, <1>10 DEF Settling

\* The drain, the daemon and the timers
LEMMA UnfinishedExist ==
  ASSUME Typed, NEW f, KeepsRows(f)
  PROVE  UnfinishedPlans \subseteq Plans /\ \A p \in UnfinishedPlans : f[p].st # "none"
BY StatusSets DEF UnfinishedPlans, KeepsRows

LEMMA TypedDraining ==
  ASSUME Typed, Draining PROVE Typed'
<1> USE DEF Ids
<1>1. CASE DrainBegins
  <2>1. KeepsRows(plan') /\ drain' = [on |-> TRUE, todo |-> UnfinishedPlans, at |-> 0, allow |-> TRUE]
    BY <1>1, ResetIs, TypeFacts DEF DrainBegins
  <2>2. UnfinishedPlans \subseteq Plans /\ \A p \in UnfinishedPlans : plan'[p].st # "none"
    BY <2>1, UnfinishedExist
  <2>3. /\ drain' \in [on : BOOLEAN, todo : SUBSET Plans, at : Plans \cup {0}, allow : BOOLEAN]
        /\ drain'.todo = UnfinishedPlans
    BY <2>1, <2>2
  <2> QED
    BY <1>1, <2>1, <2>2, <2>3, TypeFacts, TypedBeside DEF DrainBegins
<1>2. CASE DrainEnds
  <2>1. /\ drain' \in [on : BOOLEAN, todo : SUBSET Plans, at : Plans \cup {0}, allow : BOOLEAN]
        /\ drain'.todo = {}
    BY <1>2 DEF DrainEnds, NoDrain
  <2> QED
    BY <1>2, <2>1, TypeFacts, TypedBeside DEF DrainEnds
<1>3. ASSUME NEW p \in Plans, DrainVisits(p) PROVE Typed'
  <2> DEFINE t == [by |-> "drain", plan |-> p, snap |-> NoHist, allow |-> drain.allow]
  <2>1. t \in Task /\ t.plan = p
    BY NoHistTyped, TypeFacts DEF Task
  <2>2. queue' = Append(queue, t) /\ p \in drain.todo /\ plan' = plan
    BY <1>3 DEF DrainVisits
  <2>3. plan[p].st # "none"
    BY <2>2, TypeFacts DEF OfPlans
  <2> HIDE DEF t
  <2>4. /\ queue' \in Seq(Task)
        /\ \A i \in DOMAIN queue' : \/ \E j \in DOMAIN queue : queue'[i].plan = queue[j].plan
                                    \/ plan'[queue'[i].plan].st # "none"
    BY <2>1, <2>2, <2>3, QueueAppend, TypeFacts
  <2>5. /\ drain' \in [on : BOOLEAN, todo : SUBSET Plans, at : Plans \cup {0}, allow : BOOLEAN]
        /\ drain'.todo \subseteq drain.todo
    BY <1>3, TypeFacts DEF DrainVisits
  <2> QED
    BY <1>3, <2>4, <2>5, TypeFacts, TypedBeside DEF DrainVisits
<1>4. ASSUME NEW p \in Plans, Backfill(p) PROVE Typed'
  <2> DEFINE e == Verdict(p, plan[p].st, plan[p].stored, "acked", "row")
  <2>1. plan[p].st \in {"failed", "discarded"} /\ log' = Append(log, e)
    BY <1>4 DEF Backfill, Silent
  <2>2. e \in Event
    BY <2>1, VerdictTyped, RowTyped, TypeFacts
  <2> HIDE DEF e
  <2>3. log' \in Seq(Event) /\ Ids \subseteq Ids'
    BY <2>1, <2>2, TypeFacts
  <2> QED
    BY <1>4, <2>3, TypeFacts, TypedBeside DEF Backfill
<1> QED
  BY <1>1, <1>2, <1>3, <1>4 DEF Draining

LEMMA TypedDaemon ==
  ASSUME Typed, Daemon PROVE Typed'
<1>1. CASE Stop
  <2>1. stops' \in 0..MaxStops /\ timer' \in [Plans -> Hist \cup {None}]
    BY <1>1, TypeFacts, PlansAssumption DEF Stop
  <2>2. run' = run \/ run' = [run EXCEPT !.aborted = TRUE]
    BY <1>1 DEF Stop
  <2> QED
    BY <1>1, <2>1, <2>2, TypeFacts, TypedBeside DEF Stop, Ids
<1>2. CASE Dies
  <2>1. stops' \in 0..MaxStops /\ timer' \in [Plans -> Hist \cup {None}]
    BY <1>2, TypeFacts, PlansAssumption DEF Dies
  <2>2. /\ drain' \in [on : BOOLEAN, todo : SUBSET Plans, at : Plans \cup {0}, allow : BOOLEAN]
        /\ drain'.todo = {}
    BY <1>2 DEF Dies, NoDrain
  <2>3. run' \in RunType /\ Placed' /\ run'.pc = "none"
    BY <1>2, PlacedEnded DEF Dies, NoRun
  <2>4. queue' = <<>> /\ queue' \in Seq(Task) /\ DOMAIN queue' = {}
    BY <1>2 DEF Dies
  <2> QED
    BY <1>2, <2>1, <2>2, <2>3, <2>4, TypeFacts, TypedFrom DEF Dies
<1>3. CASE Starts
  <2>1. KeepsRows(plan') /\ drain' = [on |-> TRUE, todo |-> UnfinishedPlans, at |-> 0, allow |-> FALSE]
    BY <1>3, ResetIs, TypeFacts DEF Starts
  <2>2. UnfinishedPlans \subseteq Plans /\ \A p \in UnfinishedPlans : plan'[p].st # "none"
    BY <2>1, UnfinishedExist
  <2>3. /\ drain' \in [on : BOOLEAN, todo : SUBSET Plans, at : Plans \cup {0}, allow : BOOLEAN]
        /\ drain'.todo = UnfinishedPlans
    BY <2>1, <2>2
  <2> QED
    BY <1>3, <2>1, <2>2, <2>3, TypeFacts, TypedBeside DEF Starts, Ids
<1> QED
  BY <1>1, <1>2, <1>3 DEF Daemon

LEMMA TypedTimer ==
  ASSUME Typed, NEW p \in Plans, TimerFires(p) PROVE Typed'
<1> DEFINE t == [by |-> "retry", plan |-> p, snap |-> timer[p], allow |-> TRUE]
<1>1. timer[p] \in Hist /\ t \in Task /\ t.plan = p
  BY TypeFacts DEF TimerFires, Task
<1>2. timer' \in [Plans -> Hist \cup {None}] /\ plan' = plan
  BY WaitingTimers DEF TimerFires
<1>3. queue' = queue \/ (queue' = Append(queue, t) /\ plan[p].st = "pending")
  BY DEF TimerFires
<1> HIDE DEF t
<1>4. /\ queue' \in Seq(Task)
      /\ \A i \in DOMAIN queue' : \/ \E j \in DOMAIN queue : queue'[i].plan = queue[j].plan
                                  \/ plan'[queue'[i].plan].st # "none"
  BY <1>1, <1>2, <1>3, QueueAppend, TypeFacts
<1> QED
  BY <1>2, <1>4, TypeFacts, TypedBeside DEF TimerFires, Ids

LEMMA TypedInit ==
  ASSUME Init PROVE Typed
<1>1. /\ NoHist \in Hist /\ NoRun \in RunType /\ live \in Statuses /\ live # "gone" /\ 1 \in Plans
      /\ 0 \in 0..MaxAttempts
  BY NoHistTyped, NoRunTyped, PlansAssumption DEF Init, ToldTypes, Plans
<1>2. plan \in [Plans -> Row]
  BY <1>1 DEF Init, Row, Errors
<1>3. log \in Seq(Event) /\ queue \in Seq(Task) /\ DOMAIN queue = {}
  BY DEF Init
<1>4. /\ drain \in [on : BOOLEAN, todo : SUBSET Plans, at : Plans \cup {0}, allow : BOOLEAN]
      /\ drain.todo = {}
  BY DEF Init, NoDrain
<1>5. run \in RunType /\ run.plan \in Plans /\ run.snap \in Hist /\ run.body \in Hist /\ run.pc = "none"
      /\ run.event = 0 /\ run.out = "none"
  BY <1>1 DEF Init, NoRun
<1>6. /\ timer \in [Plans -> Hist \cup {None}] /\ stops \in 0..MaxStops /\ owed = None
      /\ kind \in Kinds /\ disk \in Hist /\ pane = "open" /\ phase = "up"
  BY <1>1, PlansAssumption DEF Init
<1>8. TypeOK
  BY <1>1, <1>2, <1>3, <1>4, <1>5, <1>6 DEF TypeOK
<1>7. RowGoesWithPane /\ OfPlans /\ Placed
  BY <1>1, <1>3, <1>4, <1>5 DEF RowGoesWithPane, OfPlans, Placed, Init
<1> QED
  BY <1>5, <1>7, <1>8 DEF Typed

LEMMA TypedStep ==
  ASSUME Typed, [Next]_vars PROVE Typed'
<1>1. CASE Next
  <2>1. CASE Runner
    BY <2>1, TypedTaking, TypedWaiting, TypedTelling, TypedSettling DEF Runner, Taking
  <2> QED
    BY <1>1, <2>1, TypedDraining, TypedDaemon, TypedAgent, TypedHerdr, TypedTimer DEF Next
<1>2. CASE UNCHANGED vars
  BY <1>2, TypeFacts, TypedBeside DEF vars, Ids
<1> QED
  BY <1>1, <1>2

\* Every variable keeps its type: whatever the plans, the operations and the
\* drains write, TypeOK holds.
THEOREM TypeCorrect == Spec => []TypeOK
<1>1. Init => Typed
  BY TypedInit
<1>2. Typed /\ [Next]_vars => Typed'
  BY TypedStep
<1>3. Typed => TypeOK
  BY DEF Typed
<1> QED
  BY <1>1, <1>2, <1>3, PTL DEF Spec

----------------------------------------------------------------------------
(* A row and its operation *)

\* A row runs only while its operation does, and an operation that has not given
\* up finds its row open, or superseded by a newer plan.
UnderWay ==
  /\ \A p \in Plans : plan[p].st = "running" /\ phase # "down" => run.pc # "none" /\ run.plan = p
  /\ run.pc \notin {"none", "verdict"} => plan[run.plan].st \in {"pending", "running", "cancelled"}

\* What a step beside the operation does to the states of the rows.
RowsMove ==
  \A q \in Plans : \/ plan'[q].st = plan[q].st
                   \/ plan'[q].st = "pending" /\ plan[q].st \in {"none", "running"}
                   \/ plan'[q].st = "cancelled" /\ plan[q].st \in Unfinished

LEMMA UnderWayBeside ==
  ASSUME Typed, UnderWay, RowsMove, run'.pc = run.pc, run'.plan = run.plan,
         phase' # "down" => phase # "down" \/ \A q \in Plans : plan'[q].st # "running"
  PROVE  UnderWay'
<1>1. run.plan \in Plans /\ (run.pc # "none" => plan[run.plan].st # "none")
  BY TypeFacts DEF OfPlans
<1> QED
  BY <1>1 DEF UnderWay, RowsMove, Unfinished

\* The operation goes on, and its row with it.
LEMMA UnderWayRuns ==
  ASSUME Typed, UnderWay, plan' = plan, phase' = phase, run'.plan = run.plan,
         run.pc \notin {"none", "verdict"}, run'.pc # "none"
  PROVE  UnderWay'
BY TypeFacts DEF UnderWay

\* The operation ends, and leaves no row that runs.
LEMMA UnderWayEnds ==
  ASSUME Typed, UnderWay, Finish, phase' = phase, plan'[run.plan].st # "running",
         \A q \in Plans : q # run.plan => plan'[q].st = plan[q].st
  PROVE  UnderWay'
<1>1. run'.pc = "none"
  BY FinishIs
<1> QED
  BY <1>1, TypeFacts DEF UnderWay

LEMMA InsertedMoves ==
  ASSUME Typed, NEW p \in Plans, IsNext(p), NEW row \in Row, row.st = "pending",
         plan' = Inserted(p, row)
  PROVE  RowsMove /\ \A q \in Plans : plan'[q].st = "pending" => \/ q = p
                                                                 \/ plan'[q] = plan[q]
<1>1. plan[p].st = "none"
  BY DEF IsNext
<1>2. plan'[p] = row
  BY InsertedIs, TypeFacts
<1>3. \A q \in Plans \ {p} : \/ plan'[q] = plan[q]
                             \/ plan'[q].st = "cancelled" /\ plan[q].st \in Unfinished
  <2> SUFFICES ASSUME NEW q \in Plans \ {p}
               PROVE  \/ plan'[q] = plan[q]
                      \/ plan'[q].st = "cancelled" /\ plan[q].st \in Unfinished
    OBVIOUS
  <2>1. plan[q] \in Row
    BY RowTyped, TypeFacts
  <2>2. CASE Superseded(q, p, row.to)
    <3>1. plan'[q] = [plan[q] EXCEPT !.st = "cancelled", !.err = "superseded"]
      BY <2>2 DEF Inserted
    <3> QED
      BY <2>1, <2>2, <3>1 DEF Superseded, Row
  <2>3. CASE ~Superseded(q, p, row.to)
    BY <2>3 DEF Inserted
  <2> QED
    BY <2>2, <2>3
<1> QED
  BY <1>1, <1>2, <1>3 DEF RowsMove

\* What the settlement of an operation does to its row.
LEMMA SettlesRow ==
  ASSUME Typed, NEW st \in {"completed", "cancelled"}, plan' = RowSettled(run.plan, st)
  PROVE  /\ plan'[run.plan].st \notin Unfinished
         /\ \A q \in Plans : /\ q # run.plan => plan'[q].st = plan[q].st
                             /\ plan'[q].err = plan[q].err
                             /\ \/ plan'[q].st = plan[q].st
                                \/ plan'[q].st = st /\ plan[q].st \in Unfinished
<1>1. st \in Settled /\ st \notin Unfinished /\ run.plan \in Plans
  BY TypeFacts DEF Settled, Unfinished
<1> QED
  BY <1>1, RowSettledIs, TypeFacts

\* An operation that tells goes on, or is to be settled.
LEMMA TellingRuns ==
  ASSUME Typed, Telling PROVE run'.plan = run.plan /\ run'.pc # "none"
<1>1. CASE AppendRefused
  <2>1. PICK out \in {"nothing", "waiting", "cancelled"} : run' = Ended(run, out)
    BY <1>1, AppendRefusedIs
  <2>2. out \in Outcomes
    BY DEF Outcomes
  <2> QED
    BY <2>1, <2>2, EndedTyped, TypeFacts
<1>2. CASE AppendChanged
  <2>1. CASE run' = [run EXCEPT !.pc = "tell"]
    BY <2>1, TypeFacts DEF RunType
  <2>2. CASE run' # [run EXCEPT !.pc = "tell"]
    BY <1>2, <2>2, AppendChangedIs, ToldRun
  <2> QED
    BY <2>1, <2>2
<1>3. CASE AppendTerminal
  BY <1>3, AppendTerminalIs, ToldRun
<1> QED
  BY <1>1, <1>2, <1>3 DEF Telling

LEMMA UnderWayStep ==
  ASSUME Typed, UnderWay, [Next]_vars PROVE UnderWay'
<1>0. run.plan \in Plans
  BY TypeFacts
<1>a. plan' = plan => RowsMove
  BY DEF RowsMove
<1>b. run' = run \/ run' = [run EXCEPT !.aborted = TRUE] => run'.pc = run.pc /\ run'.plan = run.plan
  BY TypeFacts DEF RunType
<1>1. CASE Agent
  BY <1>1, <1>a, UnderWayBeside DEF Agent, AgentWrites, Give
<1>2. CASE Herdr
  <2>1. ASSUME NEW p \in Plans, NEW to \in Statuses, NEW keyed \in EventIds, StatusEvent(p, to, keyed)
        PROVE  UnderWay'
    <3>1. live \in Statuses /\ keyed \in BOOLEAN
      BY <2>1, TypeFacts, PlansAssumption DEF StatusEvent
    <3>2. NewRow(live, to, keyed, NoHist) \in Row /\ NewRow(live, to, keyed, NoHist).st = "pending"
      BY <3>1, NewRowTyped, NoHistTyped
    <3>3. RowsMove
      BY <2>1, <3>2, InsertedMoves DEF StatusEvent
    <3> QED
      BY <2>1, <3>3, UnderWayBeside DEF StatusEvent
  <2>2. ASSUME NEW to \in Statuses, RefreshStatus(to) PROVE UnderWay'
    BY <1>a, <2>2, UnderWayBeside DEF RefreshStatus
  <2>3. ASSUME NEW p \in Plans, RefreshPlan(p) PROVE UnderWay'
    <3>1. owed.from \in Statuses /\ owed.to \in Statuses /\ owed.snap \in Hist
      BY <2>3, TypeFacts DEF RefreshPlan
    <3>2. /\ NewRow(owed.from, owed.to, FALSE, owed.snap) \in Row
          /\ NewRow(owed.from, owed.to, FALSE, owed.snap).st = "pending"
      BY <3>1, NewRowTyped
    <3>3. RowsMove
      BY <2>3, <3>2, InsertedMoves DEF RefreshPlan
    <3> QED
      BY <2>3, <3>3, UnderWayBeside DEF RefreshPlan
  <2>4. CASE CloseBegins
    <3>1. run'.pc = run.pc /\ run'.plan = run.plan
      BY <1>b, <2>4 DEF CloseBegins
    <3> QED
      BY <1>a, <2>4, <3>1, UnderWayBeside DEF CloseBegins
  <2>5. CASE CloseRetires \/ LateCompletion
    BY <1>a, <2>5, UnderWayBeside DEF CloseRetires, LateCompletion
  <2> QED
    BY <1>2, <2>1, <2>2, <2>3, <2>4, <2>5 DEF Herdr
<1>3. CASE Taking
  <2>1. PICK t : SkipTask(t) \/ StartOrphan(t) \/ StartUnread(t) \/ StartRun(t)
    BY <1>3 DEF Taking
  <2>2. Next1(t)
    BY <2>1 DEF SkipTask, StartOrphan, StartUnread, StartRun
  <2>3. t \in Task /\ t.plan \in Plans /\ run = NoRun /\ phase # "down"
    BY <2>2, TaskTaken
  <2>4. run.pc = "none"
    BY <2>3 DEF NoRun
  <2>5. \A q \in Plans : plan[q].st # "running"
    BY <2>3, <2>4 DEF UnderWay
  <2>6. Opened(t) \in RunType /\ Opened(t).plan = t.plan
    BY <2>3, OpenedTyped, TypeFacts
  <2>7. CASE SkipTask(t)
    BY <1>a, <2>7, UnderWayBeside DEF SkipTask
  <2>8. CASE StartOrphan(t) \/ StartUnread(t)
    <3>1. run'.plan = t.plan /\ plan' = plan /\ plan[t.plan].st = "pending"
      BY <2>6, <2>8 DEF StartOrphan, StartUnread, RunType
    <3> QED
      BY <2>5, <3>1 DEF UnderWay
  <2>9. CASE StartRun(t)
    <3>1. run'.plan = t.plan /\ run'.pc # "none"
      BY <2>9, StartedRun
    <3>2. plan[t.plan].st = "pending" /\ plan' = Running(t.plan)
      BY <2>9 DEF StartRun
    <3>3. \A q \in Plans : plan'[q].st = IF q = t.plan THEN "running" ELSE plan[q].st
      BY <2>3, <3>2, RunningIs, TypeFacts
    <3> QED
      BY <2>3, <2>5, <3>1, <3>3 DEF UnderWay
  <2> QED
    BY <2>1, <2>7, <2>8, <2>9
<1>4. CASE Waiting
  <2>1. WaitOutcome
    BY <1>4, WaitsEnd, TypeFacts
  <2>2. /\ plan' = plan /\ phase' = phase /\ run'.plan = run.plan
        /\ run.pc \notin {"none", "verdict"} /\ run'.pc # "none"
    BY <2>1 DEF WaitOutcome, Waitings
  <2> QED
    BY <2>2, UnderWayRuns
<1>5. CASE Telling
  <2>1. /\ plan' = plan /\ phase' = phase /\ run.pc \in {"append", "tell"}
    BY <1>5 DEF Telling, AppendRefused, AppendChanged, AppendTerminal, Still
  <2>3. run'.plan = run.plan /\ run'.pc # "none"
    BY <1>5, TellingRuns
  <2> QED
    BY <2>1, <2>3, UnderWayRuns
<1>6. CASE Settling
  <2>1. ASSUME NEW st \in {"completed", "cancelled"}, plan' = RowSettled(run.plan, st), Finish, phase' = phase
        PROVE  UnderWay'
    BY <2>1, SettlesRow, UnderWayEnds DEF Unfinished
  <2>2. CASE Complete \/ SalvageDone \/ CancelMissing
    BY <2>1, <2>2 DEF Complete, SalvageDone, CancelMissing
  <2>3. CASE Withdraw
    BY <2>3, WithdrawIs, UnderWayRuns
  <2>4. CASE MarkTooLate
    BY <2>4, UnderWayEnds DEF MarkTooLate, Unfinished
  <2>5. CASE AppendVerdict
    BY <2>5, AppendVerdictIs, UnderWayEnds
  <2>6. ASSUME NEW stalled \in BOOLEAN, NEW expired \in BOOLEAN, PutBack(stalled, expired)
        PROVE  UnderWay'
    <3> DEFINE row == Retried(plan[run.plan], RetryError(run), IsExempt(run, expired), stalled, expired)
    <3>1. plan' = [plan EXCEPT ![run.plan] = row] /\ row.st = "pending" /\ Finish /\ phase' = phase
      BY <2>6 DEF PutBack
    <3> HIDE DEF row
    <3> QED
      BY <1>0, <3>1, UnderWayEnds, TypeFacts
  <2>7. ASSUME NEW stalled \in BOOLEAN, NEW expired \in BOOLEAN, GiveUp(stalled, expired)
        PROVE  UnderWay'
    <3> DEFINE row == Retried(plan[run.plan], RetryError(run), IsExempt(run, expired), stalled, expired)
    <3>1. /\ plan' = [plan EXCEPT ![run.plan] = row] /\ row.st # "pending" /\ phase' = phase
          /\ run' = [run EXCEPT !.pc = "verdict"] /\ plan[run.plan].st \in Unfinished
      BY <2>7 DEF GiveUp
    <3>2. row.st \in {"failed", "discarded"}
      BY <3>1, RetryRow
    <3>3. run'.pc = "verdict" /\ run'.plan = run.plan
      BY <3>1, TypeFacts DEF RunType
    <3> HIDE DEF row
    <3> QED
      BY <1>0, <3>1, <3>2, <3>3, TypeFacts DEF UnderWay
  <2>8. CASE Salvage
    BY <2>8, SalvageIs, UnderWayRuns
  <2> QED
    BY <1>6, <2>2, <2>3, <2>4, <2>5, <2>6, <2>7, <2>8 DEF Settling
<1>7. CASE Draining
  <2>1. CASE DrainBegins
    <3>1. RowsMove
      BY <2>1, ResetIs, TypeFacts DEF DrainBegins, RowsMove
    <3> QED
      BY <2>1, <3>1, UnderWayBeside DEF DrainBegins
  <2>2. CASE DrainEnds
    BY <1>a, <2>2, UnderWayBeside DEF DrainEnds
  <2>3. ASSUME NEW p \in Plans, DrainVisits(p) \/ Backfill(p) PROVE UnderWay'
    BY <1>a, <2>3, UnderWayBeside DEF DrainVisits, Backfill
  <2> QED
    BY <1>7, <2>1, <2>2, <2>3 DEF Draining
<1>8. CASE Daemon
  <2>1. CASE Stop
    <3>1. run'.pc = run.pc /\ run'.plan = run.plan
      BY <1>b, <2>1 DEF Stop
    <3> QED
      BY <1>a, <2>1, <3>1, UnderWayBeside DEF Stop
  <2>2. CASE Dies
    BY <2>2 DEF Dies, UnderWay, NoRun
  <2>3. CASE Starts
    <3>1. RowsMove /\ \A q \in Plans : plan'[q].st # "running"
      BY <2>3, ResetIs, TypeFacts DEF Starts, RowsMove
    <3> QED
      BY <2>3, <3>1, UnderWayBeside DEF Starts
  <2> QED
    BY <1>8, <2>1, <2>2, <2>3 DEF Daemon
<1>9. ASSUME NEW p \in Plans, TimerFires(p) PROVE UnderWay'
  BY <1>a, <1>9, UnderWayBeside DEF TimerFires
<1>10. CASE UNCHANGED vars
  BY <1>a, <1>10, UnderWayBeside DEF vars
<1> QED
  BY <1>1, <1>2, <1>3, <1>4, <1>5, <1>6, <1>7, <1>8, <1>9, <1>10 DEF Next, Runner

----------------------------------------------------------------------------
(* A plan that waits for an answer is carried *)

\* It waits for an answer, while the daemon is up.
Lacks(p) == plan[p].st = "pending" /\ plan[p].err = "waiting" /\ phase = "up"

\* An append leaves what waits where it was, with one more behind it.
LEMMA QueueHolds ==
  ASSUME Typed, NEW t, queue' = Append(queue, t)
  PROVE  /\ \A i \in DOMAIN queue : i \in DOMAIN queue' /\ queue'[i] = queue[i]
         /\ \E i \in DOMAIN queue' : queue'[i] = t
<1>1. queue \in Seq(Task)
  BY TypeFacts
<1>2. Len(queue) + 1 \in DOMAIN queue' /\ queue'[Len(queue) + 1] = t
  BY <1>1
<1> QED
  BY <1>1, <1>2

\* What a step leaves alone goes on carrying.
LEMMA CarriedOn ==
  ASSUME WaitingIsCarried, NEW p \in Plans, Lacks(p), timer'[p] = timer[p], drain' = drain,
         run' = run \/ (run'.pc # "none" /\ run'.plan = run.plan),
         \A i \in DOMAIN queue : i \in DOMAIN queue' /\ queue'[i] = queue[i]
  PROVE  Carried(p)'
BY DEF WaitingIsCarried, Lacks, Carried

LEMMA NewPlanCarried ==
  ASSUME Typed, WaitingIsCarried, NEW p \in Plans, IsNext(p), NEW row \in Row, row.st = "pending",
         NEW h, plan' = Inserted(p, row), queue' = Enqueued(p, h),
         UNCHANGED <<run, timer, drain, phase>>
  PROVE  WaitingIsCarried'
<1> SUFFICES ASSUME NEW q \in Plans, Lacks(q)' PROVE Carried(q)'
  BY DEF WaitingIsCarried, Lacks
<1> DEFINE t == [by |-> "exec", plan |-> p, snap |-> h, allow |-> TRUE]
<1>1. queue' = Append(queue, t) /\ t.plan = p
  BY DEF Enqueued
<1> HIDE DEF t
<1>2. /\ \A i \in DOMAIN queue : i \in DOMAIN queue' /\ queue'[i] = queue[i]
      /\ \E i \in DOMAIN queue' : queue'[i].plan = p
  BY <1>1, QueueHolds
<1>3. CASE q = p
  BY <1>2, <1>3 DEF Carried
<1>4. CASE q # p
  <2>1. plan'[q] = plan[q]
    BY <1>4, InsertedMoves DEF Lacks
  <2>2. Lacks(q)
    BY <2>1 DEF Lacks
  <2> QED
    BY <1>2, <2>2, CarriedOn
<1> QED
  BY <1>3, <1>4

\* What leaves the queue becomes the operation.
LEMMA TakenCarried ==
  ASSUME Typed, WaitingIsCarried, NEW t, Next1(t), NEW q \in Plans, Lacks(q), timer' = timer, drain' = drain,
         run'.pc # "none", run'.plan = t.plan
  PROVE  Carried(q)'
<1>1. queue \in Seq(Task) /\ queue # <<>> /\ t = Head(queue) /\ queue' = Tail(queue) /\ run.pc = "none"
  BY TypeFacts DEF Next1, NoRun
<1>2. ASSUME NEW i \in DOMAIN queue, queue[i].plan = q PROVE Carried(q)'
  <2>1. CASE i = 1
    BY <1>1, <1>2, <2>1 DEF Carried
  <2>2. CASE i # 1
    <3>1. i - 1 \in DOMAIN queue' /\ queue'[i - 1] = queue[i]
      BY <1>1, <2>2
    <3> QED
      BY <1>2, <3>1 DEF Carried
  <2> QED
    BY <2>1, <2>2
<1>3. Carried(q)
  BY DEF WaitingIsCarried, Lacks
<1> QED
  BY <1>1, <1>2, <1>3 DEF Carried

LEMMA CarriedStep ==
  ASSUME Typed, WaitingIsCarried, [Next]_vars PROVE WaitingIsCarried'
<1>0. run.plan \in Plans /\ run.snap \in Hist /\ run.snap # None
  BY TypeFacts, PlansAssumption DEF Hist
<1>a. UNCHANGED <<plan, phase, queue, run, timer, drain>> => WaitingIsCarried'
  BY DEF WaitingIsCarried, Carried
<1>b. ASSUME UNCHANGED <<plan, phase, queue, timer, drain>>, run'.pc # "none" \/ run.pc = "none", run'.plan = run.plan
      PROVE  WaitingIsCarried'
  BY <1>b DEF WaitingIsCarried, Carried
\* An operation is over whose row is settled, or that leaves it for a timer.
<1>c. ASSUME Finish, phase' = phase, queue' = queue,
             \A q \in Plans \ {run.plan} : plan'[q] = plan[q] /\ timer'[q] = timer[q],
             plan'[run.plan].st = "pending" /\ plan'[run.plan].err = "waiting"
               => timer'[run.plan] # None
      PROVE  WaitingIsCarried'
  <2>1. drain'.todo = drain.todo
    BY <1>c, FinishIs
  <2> QED
    BY <1>c, <2>1 DEF WaitingIsCarried, Carried, Lacks
<1>d. ASSUME plan' = Reset, drain'.todo = UnfinishedPlans, phase' = "up" PROVE WaitingIsCarried'
  <2>1. \A q \in Plans : plan'[q].st = "pending" => q \in UnfinishedPlans
    BY <1>d, ResetIs, TypeFacts DEF UnfinishedPlans, Unfinished
  <2> QED
    BY <1>d, <2>1 DEF WaitingIsCarried, Carried
<1>1. CASE Agent
  BY <1>1, <1>a DEF Agent, AgentWrites, Give
<1>2. CASE Herdr
  <2>1. ASSUME NEW p \in Plans, NEW to \in Statuses, NEW keyed \in EventIds, StatusEvent(p, to, keyed)
        PROVE  WaitingIsCarried'
    <3>1. live \in Statuses /\ keyed \in BOOLEAN
      BY <2>1, TypeFacts, PlansAssumption DEF StatusEvent
    <3>2. NewRow(live, to, keyed, NoHist) \in Row /\ NewRow(live, to, keyed, NoHist).st = "pending"
      BY <3>1, NewRowTyped, NoHistTyped
    <3> QED
      BY <2>1, <3>2, NewPlanCarried DEF StatusEvent
  <2>2. ASSUME NEW to \in Statuses, RefreshStatus(to) PROVE WaitingIsCarried'
    BY <1>a, <2>2 DEF RefreshStatus
  <2>3. ASSUME NEW p \in Plans, RefreshPlan(p) PROVE WaitingIsCarried'
    <3>1. owed.from \in Statuses /\ owed.to \in Statuses /\ owed.snap \in Hist
      BY <2>3, TypeFacts DEF RefreshPlan
    <3>2. /\ NewRow(owed.from, owed.to, FALSE, owed.snap) \in Row
          /\ NewRow(owed.from, owed.to, FALSE, owed.snap).st = "pending"
      BY <3>1, NewRowTyped
    <3> QED
      BY <2>3, <3>2, NewPlanCarried DEF RefreshPlan
  <2>4. CASE CloseBegins
    <3>1. run'.pc = run.pc /\ run'.plan = run.plan
      BY <2>4, TypeFacts DEF CloseBegins, RunType
    <3> QED
      BY <1>b, <2>4, <3>1 DEF CloseBegins
  <2>5. CASE CloseRetires \/ LateCompletion
    BY <1>a, <2>5 DEF CloseRetires, LateCompletion
  <2> QED
    BY <1>2, <2>1, <2>2, <2>3, <2>4, <2>5 DEF Herdr
<1>3. CASE Taking
  <2>1. PICK t : SkipTask(t) \/ StartOrphan(t) \/ StartUnread(t) \/ StartRun(t)
    BY <1>3 DEF Taking
  <2>2. Next1(t)
    BY <2>1 DEF SkipTask, StartOrphan, StartUnread, StartRun
  <2>3. t \in Task /\ t.plan \in Plans
    BY <2>2, TaskTaken
  <2>4. CASE SkipTask(t)
    <3> SUFFICES ASSUME NEW q \in Plans, Lacks(q)' PROVE Carried(q)'
      BY DEF WaitingIsCarried, Lacks
    <3>1. q # t.plan /\ Lacks(q) /\ timer'[q] = timer[q] /\ drain'.todo = drain.todo /\ run' = run
      BY <2>3, <2>4, TypeFacts DEF SkipTask, Lacks, Cleared
    <3>2. \A i \in DOMAIN queue : queue[i].plan = q => \E j \in DOMAIN queue' : queue'[j].plan = q
      <4>1. queue \in Seq(Task) /\ t = Head(queue) /\ queue' = Tail(queue) /\ queue # <<>>
        BY <2>2, TypeFacts DEF Next1
      <4> SUFFICES ASSUME NEW i \in DOMAIN queue, queue[i].plan = q
                   PROVE  \E j \in DOMAIN queue' : queue'[j].plan = q
        OBVIOUS
      <4>2. i # 1
        BY <3>1, <4>1
      <4>3. i - 1 \in DOMAIN queue' /\ queue'[i - 1] = queue[i]
        BY <4>1, <4>2
      <4> QED
        BY <4>3
    <3> QED
      BY <3>1, <3>2 DEF WaitingIsCarried, Lacks, Carried
  <2>5. ASSUME run'.pc # "none", run'.plan = t.plan, UNCHANGED <<timer, drain, phase>>,
               \A q \in Plans : Lacks(q)' => Lacks(q)
        PROVE  WaitingIsCarried'
    <3> SUFFICES ASSUME NEW q \in Plans, Lacks(q)' PROVE Carried(q)'
      BY DEF WaitingIsCarried, Lacks
    <3> QED
      BY <2>2, <2>5, TakenCarried
  <2>6. CASE StartOrphan(t) \/ StartUnread(t)
    <3>1. Opened(t) \in RunType /\ Opened(t).plan = t.plan
      BY <2>3, OpenedTyped, TypeFacts
    <3>2. run'.pc # "none" /\ run'.plan = t.plan
      BY <2>6, <3>1 DEF StartOrphan, StartUnread, RunType
    <3> QED
      BY <2>5, <2>6, <3>2 DEF StartOrphan, StartUnread, Lacks
  <2>7. CASE StartRun(t)
    <3>1. run'.pc # "none" /\ run'.plan = t.plan
      BY <2>7, StartedRun
    <3>2. plan[t.plan].st = "pending" /\ plan' = Running(t.plan) /\ UNCHANGED <<timer, drain, phase>>
      BY <2>7 DEF StartRun
    <3>3. \A q \in Plans : Lacks(q)' => Lacks(q)
      BY <2>3, <3>2, RunningIs, TypeFacts DEF Lacks
    <3> QED
      BY <2>5, <3>1, <3>2, <3>3
  <2> QED
    BY <2>1, <2>4, <2>6, <2>7
<1>4. CASE Waiting
  <2>1. WaitOutcome
    BY <1>4, WaitsEnd, TypeFacts
  <2> QED
    BY <1>b, <2>1 DEF WaitOutcome
<1>5. CASE Telling
  <2>1. UNCHANGED <<plan, phase, queue, timer, drain>>
    BY <1>5 DEF Telling, AppendRefused, AppendChanged, AppendTerminal
  <2>2. run'.plan = run.plan /\ run'.pc # "none"
    BY <1>5, TellingRuns
  <2> QED
    BY <1>b, <2>1, <2>2
<1>6. CASE Settling
  <2>1. ASSUME NEW st \in {"completed", "cancelled"}, plan' = RowSettled(run.plan, st), Finish,
               timer' = Cleared(run.plan), phase' = phase, queue' = queue
        PROVE  WaitingIsCarried'
    <3>1. \A q \in Plans \ {run.plan} : plan'[q] = plan[q] /\ timer'[q] = timer[q]
      BY <1>0, <2>1, TypeFacts DEF RowSettled, Cleared
    <3>2. plan'[run.plan].st # "pending"
      BY <2>1, SettlesRow DEF Unfinished
    <3> QED
      BY <1>c, <2>1, <3>1, <3>2
  <2>2. CASE Complete \/ SalvageDone \/ CancelMissing
    BY <2>1, <2>2 DEF Complete, SalvageDone, CancelMissing
  <2>3. CASE Withdraw
    <3>1. /\ run'.pc = "mark" /\ run'.plan = run.plan /\ timer' = Cleared(run.plan)
          /\ UNCHANGED <<plan, queue, drain, phase>>
      BY <2>3, WithdrawIs
    <3> QED
      BY <3>1, TypeFacts DEF WaitingIsCarried, Carried, Cleared
  <2>4. CASE MarkTooLate
    <3>1. /\ plan[run.plan].st # "pending" /\ timer' = Cleared(run.plan) /\ Finish
          /\ UNCHANGED <<plan, queue, phase>>
      BY <2>4 DEF MarkTooLate, Unfinished
    <3>2. \A q \in Plans \ {run.plan} : timer'[q] = timer[q]
      BY <3>1, TypeFacts DEF Cleared
    <3> QED
      BY <1>c, <3>1, <3>2
  <2>5. CASE AppendVerdict
    <3>1. plan[run.plan].st # "pending" /\ Finish /\ UNCHANGED <<plan, queue, timer, phase>>
      BY <2>5, AppendVerdictIs
    <3> QED
      BY <1>c, <3>1
  <2>6. ASSUME NEW stalled \in BOOLEAN, NEW expired \in BOOLEAN, PutBack(stalled, expired)
        PROVE  WaitingIsCarried'
    <3> DEFINE row == Retried(plan[run.plan], RetryError(run), IsExempt(run, expired), stalled, expired)
    <3>1. /\ plan' = [plan EXCEPT ![run.plan] = row] /\ row.st = "pending" /\ Finish
          /\ plan[run.plan].st \in Unfinished /\ UNCHANGED <<queue, phase>>
          /\ timer' = IF RetryError(run) = "waiting" THEN [timer EXCEPT ![run.plan] = run.snap]
                      ELSE IF run.out = "error" THEN Cleared(run.plan) ELSE timer
      BY <2>6 DEF PutBack
    <3>2. row.err = RetryError(run)
      BY <3>1, RetryRow
    <3> HIDE DEF row
    <3>3. \A q \in Plans \ {run.plan} : plan'[q] = plan[q] /\ timer'[q] = timer[q]
      BY <1>0, <3>1, TypeFacts DEF Cleared
    <3>4. plan'[run.plan].err = "waiting" => timer'[run.plan] # None
      BY <1>0, <3>1, <3>2, TypeFacts
    <3> QED
      BY <1>c, <3>1, <3>3, <3>4
  <2>7. ASSUME NEW stalled \in BOOLEAN, NEW expired \in BOOLEAN, GiveUp(stalled, expired)
        PROVE  WaitingIsCarried'
    <3> DEFINE row == Retried(plan[run.plan], RetryError(run), IsExempt(run, expired), stalled, expired)
    <3>1. /\ plan' = [plan EXCEPT ![run.plan] = row] /\ row.st # "pending" /\ timer' = Cleared(run.plan)
          /\ run' = [run EXCEPT !.pc = "verdict"] /\ UNCHANGED <<queue, drain, phase>>
      BY <2>7 DEF GiveUp
    <3>2. run'.pc = "verdict" /\ run'.plan = run.plan
      BY <3>1, TypeFacts DEF RunType
    <3> HIDE DEF row
    <3>3. \A q \in Plans \ {run.plan} : plan'[q] = plan[q] /\ timer'[q] = timer[q]
      BY <1>0, <3>1, TypeFacts DEF Cleared
    <3> QED
      BY <3>1, <3>2, <3>3 DEF WaitingIsCarried, Carried
  <2>8. CASE Salvage
    <3>1. run'.pc # "none" /\ run'.plan = run.plan /\ UNCHANGED <<plan, phase, queue, timer, drain>>
      BY <2>8, SalvageIs
    <3> QED
      BY <1>b, <3>1
  <2> QED
    BY <1>6, <2>2, <2>3, <2>4, <2>5, <2>6, <2>7, <2>8 DEF Settling
<1>7. CASE Draining
  <2>1. CASE DrainBegins
    BY <1>d, <2>1 DEF DrainBegins
  <2>2. CASE DrainEnds
    BY <2>2 DEF DrainEnds, WaitingIsCarried, Carried
  <2>3. ASSUME NEW p \in Plans, DrainVisits(p) PROVE WaitingIsCarried'
    <3> DEFINE t == [by |-> "drain", plan |-> p, snap |-> NoHist, allow |-> drain.allow]
    <3>1. queue' = Append(queue, t) /\ t.plan = p /\ drain'.todo = drain.todo \ {p}
          /\ UNCHANGED <<plan, run, timer, phase>>
      BY <2>3, TypeFacts DEF DrainVisits
    <3> HIDE DEF t
    <3>2. /\ \A i \in DOMAIN queue : i \in DOMAIN queue' /\ queue'[i] = queue[i]
          /\ \E i \in DOMAIN queue' : queue'[i].plan = p
      BY <3>1, QueueHolds
    <3> QED
      BY <3>1, <3>2 DEF WaitingIsCarried, Carried
  <2>4. ASSUME NEW p \in Plans, Backfill(p) PROVE WaitingIsCarried'
    BY <1>a, <2>4 DEF Backfill
  <2> QED
    BY <1>7, <2>1, <2>2, <2>3, <2>4 DEF Draining
<1>8. CASE Daemon
  <2>1. CASE Stop \/ Dies
    BY <2>1 DEF Stop, Dies, WaitingIsCarried
  <2>2. CASE Starts
    BY <1>d, <2>2 DEF Starts
  <2> QED
    BY <1>8, <2>1, <2>2 DEF Daemon
<1>9. ASSUME NEW p \in Plans, TimerFires(p) PROVE WaitingIsCarried'
  <2> DEFINE t == [by |-> "retry", plan |-> p, snap |-> timer[p], allow |-> TRUE]
  <2>1. /\ queue' = IF plan[p].st = "pending" THEN Append(queue, t) ELSE queue
        /\ t.plan = p /\ timer' = Cleared(p) /\ UNCHANGED <<plan, run, drain, phase>>
    BY <1>9 DEF TimerFires
  <2> HIDE DEF t
  <2>2. \A q \in Plans \ {p} : timer'[q] = timer[q]
    BY <2>1, TypeFacts DEF Cleared
  <2>3. CASE plan[p].st = "pending"
    <3>1. /\ \A i \in DOMAIN queue : i \in DOMAIN queue' /\ queue'[i] = queue[i]
          /\ \E i \in DOMAIN queue' : queue'[i].plan = p
      BY <2>1, <2>3, QueueHolds
    <3> QED
      BY <2>1, <2>2, <3>1 DEF WaitingIsCarried, Carried
  <2>4. CASE plan[p].st # "pending"
    BY <2>1, <2>2, <2>4 DEF WaitingIsCarried, Carried
  <2> QED
    BY <2>3, <2>4
<1>10. CASE UNCHANGED vars
  BY <1>a, <1>10 DEF vars
<1> QED
  BY <1>1, <1>2, <1>3, <1>4, <1>5, <1>6, <1>7, <1>8, <1>9, <1>10 DEF Next, Runner

\* A plan put back for a missing answer is always in some hand: its timer, the
\* drain, the queue or the operation that runs.  scheduleWaitingHistoryRetry,
\* retryWaitingPlanRow and the drain hand it to one another without a gap.
THEOREM CarriedAlways == Spec => []WaitingIsCarried
<1>1. Init => Typed /\ WaitingIsCarried
  BY TypedInit DEF Init, WaitingIsCarried
<1>2. Typed /\ WaitingIsCarried /\ [Next]_vars => Typed' /\ WaitingIsCarried'
  BY TypedStep, CarriedStep
<1> QED
  BY <1>1, <1>2, PTL DEF Spec

----------------------------------------------------------------------------
(* A placeholder is withdrawn *)

\* An append leaves the other events alone.
LEMMA Appended ==
  ASSUME Typed, NEW e \in Event, log' \in {log, Append(log, e), Logged(log, e)}
  PROVE  /\ log' \in Seq(Event) /\ Ids \subseteq Ids'
         /\ \A i \in Ids : log'[i] = log[i]
         /\ \A i \in Ids' \ Ids : i = Len(log) + 1 /\ log'[i] = e
<1>1. log \in Seq(Event) /\ Ids = 1..Len(log) /\ Len(log) \in Nat
  BY TypeFacts DEF Ids
<1>2. log' = log \/ log' = Append(log, e)
  BY DEF Logged
<1>3. CASE log' = log
  BY <1>1, <1>3 DEF Ids
<1>4. CASE log' = Append(log, e)
  <2>1. /\ log' \in Seq(Event) /\ Ids' = 1..(Len(log) + 1) /\ log'[Len(log) + 1] = e
        /\ \A i \in Ids : log'[i] = log[i]
    BY <1>1, <1>4 DEF Ids
  <2>2. \A i \in Ids' \ Ids : i = Len(log) + 1
    BY <1>1, <2>1
  <2> QED
    BY <1>1, <2>1, <2>2
<1> QED
  BY <1>2, <1>3, <1>4

\* A placeholder that still counts is the one its own operation is about to
\* withdraw; no event but the verdict of a row is ever born acknowledged.
NoPlaceholder ==
  /\ stops = 0 => phase = "up"
  /\ \A i \in Ids : log[i].st = "acked" => log[i].type \notin ToldTypes
  /\ PlaceholderWithdrawn

\* Away from the settlement of a told event there is none.
LEMMA NoneDegraded ==
  ASSUME Typed, NoPlaceholder, stops = 0, ~(run.pc = "settle" /\ run.out = "event")
  PROVE  \A i \in ToldIds : ~log[i].degraded
<1> SUFFICES ASSUME NEW i \in ToldIds, log[i].degraded PROVE FALSE
  OBVIOUS
<1>1. i \in Ids /\ run.pc = "settle" /\ run.event = i
  BY DEF NoPlaceholder, PlaceholderWithdrawn, ToldIds
<1>2. i # 0
  BY <1>1, TypeFacts DEF Ids
<1> QED
  BY <1>1, <1>2, TypeFacts DEF Placed

\* No event is told.
LEMMA PlaceholderBeside ==
  ASSUME Typed, NoPlaceholder, Restated(log'), stops' = 0 => stops = 0 /\ phase' = "up",
         \/ run'.pc = run.pc /\ run'.event = run.event
         \/ run.pc # "settle"
         \/ run.out # "event"
         \/ ~log[run.event].degraded
         \/ run.event \in Ids /\ log'[run.event].st = "invalid"
         \/ stops' # 0
  PROVE  NoPlaceholder'
<1>1. /\ Ids' = Ids
      /\ \A i \in Ids : /\ log'[i].type = log[i].type /\ log'[i].degraded = log[i].degraded
                        /\ log'[i].st = "acked" => log[i].st = "acked"
                        /\ log'[i].st # "invalid" => log[i].st # "invalid"
  BY DEF Restated, Ids
<1>2. \A i \in Ids' : log'[i].st = "acked" => log'[i].type \notin ToldTypes
  BY <1>1 DEF NoPlaceholder
<1>3. PlaceholderWithdrawn'
  <2> SUFFICES ASSUME NEW i \in Ids, log'[i].type \in ToldTypes, log'[i].st # "invalid",
                      log'[i].degraded, stops' = 0
               PROVE  run'.pc = "settle" /\ run'.event = i
    BY <1>1 DEF PlaceholderWithdrawn, ToldIds
  <2>1. i \in ToldIds /\ log[i].degraded /\ stops = 0
    BY <1>1 DEF ToldIds
  <2>2. run.pc = "settle" /\ run.event = i
    BY <2>1 DEF NoPlaceholder, PlaceholderWithdrawn
  <2>3. run.out = "event"
    BY <2>1, NoneDegraded
  <2> QED
    BY <2>1, <2>2, <2>3
<1> QED
  BY <1>2, <1>3 DEF NoPlaceholder

\* An event is told that is no placeholder, or none that counts.
LEMMA PlaceholderAppended ==
  ASSUME Typed, NoPlaceholder, NEW e \in Event, log' \in {log, Append(log, e), Logged(log, e)},
         e.type \notin ToldTypes \/ (~e.degraded /\ e.st # "acked"), stops' = stops, phase' = phase,
         \/ run'.pc = run.pc /\ run'.event = run.event
         \/ run.pc # "settle"
         \/ run.out # "event"
  PROVE  NoPlaceholder'
<1>1. /\ Ids \subseteq Ids' /\ \A i \in Ids : log'[i] = log[i]
      /\ \A i \in Ids' \ Ids : log'[i] = e
  BY Appended
<1>2. \A i \in Ids' : log'[i].st = "acked" => log'[i].type \notin ToldTypes
  <2> SUFFICES ASSUME NEW i \in Ids', log'[i].st = "acked" PROVE log'[i].type \notin ToldTypes
    OBVIOUS
  <2>1. CASE i \in Ids
    BY <1>1, <2>1 DEF NoPlaceholder
  <2>2. CASE i \notin Ids
    BY <1>1, <2>2
  <2> QED
    BY <2>1, <2>2
<1>3. PlaceholderWithdrawn'
  <2> SUFFICES ASSUME NEW i \in Ids', log'[i].type \in ToldTypes, log'[i].st # "invalid",
                      log'[i].degraded, stops = 0
               PROVE  run'.pc = "settle" /\ run'.event = i
    BY DEF PlaceholderWithdrawn, ToldIds
  <2>1. i \in Ids
    BY <1>1
  <2>2. i \in ToldIds /\ log[i].degraded /\ PlaceholderWithdrawn
    BY <1>1, <2>1 DEF ToldIds, NoPlaceholder
  <2>3. run.pc = "settle" /\ run.event = i
    BY <2>1, <2>2 DEF PlaceholderWithdrawn
  <2>4. run.out = "event"
    BY <2>2, NoneDegraded
  <2> QED
    BY <2>3, <2>4
<1> QED
  BY <1>2, <1>3 DEF NoPlaceholder

LEMMA Unrestated ==
  ASSUME Typed, log' = log PROVE Restated(log')
BY TypeFacts DEF Restated, Ids

LEMMA PlaceholderStep ==
  ASSUME Typed, NoPlaceholder, [Next]_vars PROVE NoPlaceholder'
<1>0. stops \in Nat /\ (stops = 0 => phase = "up")
  BY TypeFacts, PlansAssumption DEF NoPlaceholder
\* A step that appends nothing and has no event to settle.
<1>a. ASSUME log' = log, stops' = stops, phase' = phase,
             \/ run'.pc = run.pc /\ run'.event = run.event
             \/ run.pc # "settle"
             \/ run.out # "event"
             \/ ~log[run.event].degraded
      PROVE  NoPlaceholder'
  <2>1. Restated(log')
    BY <1>a, Unrestated
  <2> QED
    BY <1>0, <1>a, <2>1, PlaceholderBeside
<1>1. CASE Agent
  <2>1. Restated(log')
    BY <1>1, GiveRestates, Unrestated, TypeFacts DEF Agent, AgentWrites
  <2> QED
    BY <1>0, <1>1, <2>1, PlaceholderBeside DEF Agent, AgentWrites, Give
<1>2. CASE Herdr
  <2>1. CASE CloseBegins
    <3>1. run'.pc = run.pc /\ run'.event = run.event
      BY <2>1, TypeFacts DEF CloseBegins, RunType
    <3>2. Restated(log')
      BY <2>1, CloseRestates, TypeFacts
    <3> QED
      BY <1>0, <2>1, <3>1, <3>2, PlaceholderBeside DEF CloseBegins
  <2>2. CASE LateCompletion
    <3> DEFINE e == [type |-> live, from |-> "working", to |-> live, obs |-> -1,
                     by |-> disk.ref, hist |-> disk, degraded |-> FALSE,
                     st |-> "pending", why |-> "late"]
    <3>1. live \in Statuses /\ live \in ToldTypes /\ disk.ref \in Nat /\ disk \in Hist
      BY <2>2, TypeFacts DEF LateCompletion, Hist, ToldTypes
    <3>2. e \in Event /\ ~e.degraded /\ e.st # "acked"
      BY <3>1 DEF Event
    <3>3. log' = Append(log, e)
      BY <2>2 DEF LateCompletion
    <3> HIDE DEF e
    <3> QED
      BY <2>2, <3>2, <3>3, PlaceholderAppended DEF LateCompletion
  <2>3. CASE ~CloseBegins /\ ~LateCompletion
    BY <1>2, <1>a, <2>3 DEF Herdr, StatusEvent, RefreshStatus, RefreshPlan, CloseRetires
  <2> QED
    BY <2>1, <2>2, <2>3
<1>3. CASE Taking
  <2>1. PICK t : SkipTask(t) \/ StartOrphan(t) \/ StartUnread(t) \/ StartRun(t)
    BY <1>3 DEF Taking
  <2>2. run.pc = "none" /\ log' = log /\ stops' = stops /\ phase' = phase
    BY <2>1 DEF SkipTask, StartOrphan, StartUnread, StartRun, Next1, NoRun
  <2> QED
    BY <1>a, <2>2
<1>4. CASE Waiting
  <2>1. WaitOutcome
    BY <1>4, WaitsEnd, TypeFacts
  <2> QED
    BY <1>a, <2>1 DEF WaitOutcome, Waitings
<1>5. CASE Telling
  <2>1. CASE AppendRefused
    BY <1>a, <2>1, AppendRefusedIs
  <2>2. CASE AppendChanged
    <3> DEFINE e == Transition(run, "changed")
    <3>1. /\ e \in Event /\ log' \in {log, Logged(log, e)} /\ run.pc # "settle"
          /\ phase' = phase /\ stops' = stops
      BY <2>2, AppendChangedIs
    <3>2. e.type \notin ToldTypes
      BY DEF Transition, ToldTypes
    <3> HIDE DEF e
    <3> QED
      BY <3>1, <3>2, PlaceholderAppended
  <2>3. CASE AppendTerminal
    <3> DEFINE e == Transition(run, plan[run.plan].to)
               id == IdOf(log, e)
    <3>1. /\ e \in Event /\ log' = Logged(log, e) /\ run.pc = "tell"
          /\ phase' = phase /\ stops' = stops /\ id \in Nat \ {0} /\ id \in Ids'
          /\ run' = [Ended(run, "event") EXCEPT !.event = id]
      BY <2>3, AppendTerminalIs
    <3>2. e.st = "pending" /\ e.type \in ToldTypes
      BY <2>3, AppendTerminalIs DEF Transition
    <3>3. log \in Seq(Event) /\ Len(log) \in Nat
      BY TypeFacts
    <3>4. log' = log \/ id = Len(log) + 1
      <4> HIDE DEF e
      <4> QED
        BY <3>1, <3>3, LoggedIs
    <3> HIDE DEF e, id
    <3>5. run'.pc = "settle" /\ run'.event = id
      BY <3>1, ToldRun
    <3>6. /\ Ids \subseteq Ids' /\ \A i \in Ids : log'[i] = log[i]
          /\ \A i \in Ids' \ Ids : i = Len(log) + 1 /\ log'[i] = e
      BY <3>1, Appended
    <3>7. \A i \in Ids' : log'[i].st = "acked" => log'[i].type \notin ToldTypes
      <4> SUFFICES ASSUME NEW i \in Ids', log'[i].st = "acked" PROVE log'[i].type \notin ToldTypes
        OBVIOUS
      <4>1. i \in Ids
        BY <3>2, <3>6
      <4> QED
        BY <3>6, <4>1 DEF NoPlaceholder
    <3>8. PlaceholderWithdrawn'
      <4> SUFFICES ASSUME NEW i \in Ids', log'[i].type \in ToldTypes, log'[i].st # "invalid",
                          log'[i].degraded, stops = 0
                   PROVE  i = id
        BY <3>1, <3>5 DEF PlaceholderWithdrawn, ToldIds
      <4>1. i \notin Ids
        <5> SUFFICES ASSUME i \in Ids PROVE FALSE
          OBVIOUS
        <5>1. i \in ToldIds /\ log[i].degraded
          BY <3>6 DEF ToldIds
        <5> QED
          BY <3>1, <5>1, NoneDegraded
      <4>2. log' # log
        BY <4>1 DEF Ids
      <4> QED
        BY <3>4, <3>6, <4>1, <4>2
    <3> QED
      BY <1>0, <3>1, <3>7, <3>8 DEF NoPlaceholder
  <2> QED
    BY <1>5, <2>1, <2>2, <2>3 DEF Telling
<1>6. CASE Settling
  <2>1. CASE Complete
    BY <1>a, <2>1 DEF Complete, IsDegraded
  <2>2. CASE Withdraw
    <3>1. /\ Restated(log') /\ run.event \in Ids /\ run.out = "event" /\ run.pc = "settle"
          /\ log[run.event].st \in {"pending", "given"} => log'[run.event].st = "invalid"
          /\ UNCHANGED <<stops, phase>>
      BY <2>2, WithdrawIs
    <3>2. log[run.event] \in Event
      BY <3>1, TypeFacts DEF Ids
    <3>3. log[run.event].st = "invalid" => log'[run.event].st = "invalid"
      BY <3>1 DEF Restated
    <3>4. CASE log[run.event].st = "acked" /\ stops = 0
      <4>1. log[run.event].type \notin ToldTypes
        BY <3>1, <3>4 DEF NoPlaceholder
      <4>2. \A i \in ToldIds : ~log[i].degraded
        BY <1>0, <3>4, <4>1 DEF NoPlaceholder, PlaceholderWithdrawn, ToldIds
      <4>3. PlaceholderWithdrawn'
        BY <3>1, <3>4, <4>2 DEF PlaceholderWithdrawn, ToldIds, Restated, Ids
      <4>4. \A i \in Ids' : log'[i].st = "acked" => log'[i].type \notin ToldTypes
        BY <3>1 DEF NoPlaceholder, Restated, Ids
      <4> QED
        BY <1>0, <3>1, <4>3, <4>4 DEF NoPlaceholder
    <3>5. CASE ~(log[run.event].st = "acked" /\ stops = 0)
      <4>1. stops # 0 \/ log'[run.event].st = "invalid"
        BY <3>1, <3>2, <3>3, <3>5 DEF Event
      <4> QED
        BY <1>0, <3>1, <4>1, PlaceholderBeside
    <3> QED
      BY <3>4, <3>5
  <2>3. CASE MarkTooLate
    BY <1>a, <2>3 DEF MarkTooLate, Retryable, Still
  <2>4. CASE AppendVerdict
    <3> DEFINE e == Verdict(run.plan, plan[run.plan].st, run.snap, "pending", "row")
    <3>1. /\ e \in Event /\ log' \in {log, Logged(log, e)} /\ run.pc = "verdict"
          /\ plan[run.plan].st \in {"failed", "discarded"} /\ UNCHANGED <<stops, phase>>
      BY <2>4, AppendVerdictIs
    <3>2. e.type \notin ToldTypes
      BY <3>1 DEF Verdict, ToldTypes
    <3> HIDE DEF e
    <3> QED
      BY <3>1, <3>2, PlaceholderAppended
  <2>5. ASSUME NEW stalled \in BOOLEAN, NEW expired \in BOOLEAN,
               PutBack(stalled, expired) \/ GiveUp(stalled, expired)
        PROVE  NoPlaceholder'
    BY <1>a, <2>5 DEF PutBack, GiveUp, Retryable, Still
  <2>6. CASE Salvage
    <3> DEFINE e == Verdict(run.plan, "failed", SalvageBody(run.plan), "pending", "salvage")
    <3>1. e \in Event /\ log' = Logged(log, e) /\ run.out # "event" /\ UNCHANGED <<stops, phase>>
      BY <2>6, SalvageIs
    <3>2. e.type \notin ToldTypes
      BY DEF Verdict, ToldTypes
    <3> HIDE DEF e
    <3> QED
      BY <3>1, <3>2, PlaceholderAppended
  <2>7. CASE SalvageDone
    BY <1>a, <2>7 DEF SalvageDone, Still
  <2>8. CASE CancelMissing
    BY <1>a, <2>8 DEF CancelMissing, ToSalvage, Still
  <2> QED
    BY <1>6, <2>1, <2>2, <2>3, <2>4, <2>5, <2>6, <2>7, <2>8 DEF Settling
<1>7. CASE Draining
  <2>1. ASSUME NEW p \in Plans, Backfill(p) PROVE NoPlaceholder'
    <3> DEFINE e == Verdict(p, plan[p].st, plan[p].stored, "acked", "row")
    <3>1. plan[p].st \in {"failed", "discarded"} /\ log' = Append(log, e)
      BY <2>1 DEF Backfill, Silent
    <3>2. e \in Event
      BY <3>1, VerdictTyped, RowTyped, TypeFacts
    <3>3. e.type \notin ToldTypes
      BY <3>1 DEF Verdict, ToldTypes
    <3> HIDE DEF e
    <3> QED
      BY <2>1, <3>1, <3>2, <3>3, PlaceholderAppended DEF Backfill
  <2> QED
    BY <1>7, <1>a, <2>1 DEF Draining, DrainBegins, DrainEnds, DrainVisits
<1>8. CASE Daemon
  <2>1. Restated(log')
    BY <1>8, Unrestated DEF Daemon, Stop, Dies, Starts
  <2>2. stops' = 0 => stops = 0 /\ phase = "up" /\ phase' = "up" /\ FALSE
    BY <1>0, <1>8 DEF Daemon, Stop, Dies, Starts
  <2> QED
    BY <2>1, <2>2, PlaceholderBeside
<1>9. ASSUME NEW p \in Plans, TimerFires(p) PROVE NoPlaceholder'
  BY <1>a, <1>9 DEF TimerFires
<1>10. CASE UNCHANGED vars
  BY <1>a, <1>10 DEF vars
<1> QED
  BY <1>1, <1>2, <1>3, <1>4, <1>5, <1>6, <1>7, <1>8, <1>9, <1>10 DEF Next, Runner

\* While the daemon has not stopped, a degraded event that counts is the one whose
\* run is about to withdraw it: waitForSignal's timeouts and a pi agent's blank
\* answer leave no placeholder behind.
THEOREM PlaceholderAlways == Spec => []PlaceholderWithdrawn
<1>1. Init => Typed /\ NoPlaceholder
  BY TypedInit DEF Init, NoPlaceholder, PlaceholderWithdrawn, ToldIds, Ids
<1>2. Typed /\ NoPlaceholder /\ [Next]_vars => Typed' /\ NoPlaceholder'
  BY TypedStep, PlaceholderStep
<1>3. NoPlaceholder => PlaceholderWithdrawn
  BY DEF NoPlaceholder
<1> QED
  BY <1>1, <1>2, <1>3, PTL DEF Spec

----------------------------------------------------------------------------
(* Turns tell different answers *)

\* What an agy operation is about to tell is not what the last turn told, unless
\* that one was replayed beside the queue.
AboutToTell ==
  kind = "agy" /\ run.pc \in {"append", "tell"} /\ plan[run.plan].to \in {"idle", "done"}
  => /\ HasText(run.body)
     /\ \/ run.body.ref # HistAt(LastCompleted).ref
        \/ LastCompleted # 0 /\ log[LastCompleted].why = "late"
PiAlone == run.pc \in {"grace", "turn", "advance"} => kind = "pi"
Turns == PiAlone /\ AboutToTell /\ TurnsDiffer

LEMMA LastIsLargest ==
  ASSUME Typed
  PROVE  /\ CompletedTurns \subseteq Ids /\ LastCompleted \in Nat
         /\ CompletedTurns # {} => /\ LastCompleted \in CompletedTurns
                                   /\ \A j \in CompletedTurns : j <= LastCompleted
         /\ CompletedTurns = {} => LastCompleted = 0
         /\ 0 \notin Ids
<1>1. CompletedTurns \in SUBSET Ids
  BY DEF CompletedTurns
<1>2. 0 \notin Ids
  BY TypeFacts DEF Ids
<1> QED
  BY <1>1, <1>2, HistAtTyped, TypeFacts DEF LastCompleted

\* The step adds no completed turn.
SameTurns ==
  /\ CompletedTurns' = CompletedTurns
  /\ \A i \in CompletedTurns : log'[i].hist = log[i].hist /\ log'[i].why = log[i].why

LEMMA TurnsFrom ==
  ASSUME Typed, Turns, SameTurns, kind' = kind,
         run'.pc \in {"grace", "turn", "advance"} => kind = "pi",
         kind = "agy" /\ run'.pc \in {"append", "tell"} /\ plan'[run'.plan].to \in {"idle", "done"}
         => \/ /\ run.pc \in {"append", "tell"} /\ plan'[run'.plan].to = plan[run.plan].to
               /\ run'.body = run.body
            \/ IsReady(run'.body)
  PROVE  Turns'
<1>1. LastCompleted' = LastCompleted
  BY DEF SameTurns, LastCompleted
<1>2. HistAt(LastCompleted)' = HistAt(LastCompleted)
      /\ (LastCompleted # 0 => log'[LastCompleted].why = log[LastCompleted].why)
  BY <1>1, LastIsLargest DEF SameTurns, HistAt
<1>3. AboutToTell'
  <2> SUFFICES ASSUME kind = "agy", run'.pc \in {"append", "tell"}, plan'[run'.plan].to \in {"idle", "done"}
               PROVE  /\ HasText(run'.body)
                      /\ \/ run'.body.ref # HistAt(LastCompleted).ref
                         \/ LastCompleted # 0 /\ log[LastCompleted].why = "late"
    BY <1>1, <1>2 DEF AboutToTell, HasText
  <2>1. CASE IsReady(run'.body)
    BY <2>1 DEF IsReady, HasText
  <2>2. CASE ~IsReady(run'.body)
    BY <2>2 DEF Turns, AboutToTell
  <2> QED
    BY <2>1, <2>2
<1>4. TurnsDiffer'
  BY DEF Turns, TurnsDiffer, SameTurns, SameContent
<1> QED
  BY <1>3, <1>4 DEF Turns, PiAlone

\* Beside the operation.
LEMMA TurnsBeside ==
  ASSUME Typed, Turns, SameTurns, kind' = kind, KeepsRows(plan'),
         run' = run \/ run' = [run EXCEPT !.aborted = TRUE]
  PROVE  Turns'
<1>1. run'.pc = run.pc /\ run'.plan = run.plan /\ run'.body = run.body
  BY TypeFacts DEF RunType
<1>2. run.pc # "none" => plan'[run.plan].to = plan[run.plan].to
  BY TypeFacts DEF OfPlans, KeepsRows
<1> QED
  BY <1>1, <1>2, TurnsFrom DEF Turns, PiAlone

LEMMA RestatedTurns ==
  ASSUME Typed, Restated(log') PROVE SameTurns
BY DEF Restated, SameTurns, CompletedTurns, Ids

LEMMA AppendedTurns ==
  ASSUME Typed, NEW e \in Event, log' \in {log, Append(log, e), Logged(log, e)},
         e.type \notin {"idle", "done"}
  PROVE  SameTurns
<1>1. /\ Ids \subseteq Ids' /\ \A i \in Ids : log'[i] = log[i]
      /\ \A i \in Ids' \ Ids : log'[i] = e
  BY Appended
<1> QED
  BY <1>1 DEF SameTurns, CompletedTurns

\* One turn more, whose answer is new or a replay's.
LEMMA TurnAdded ==
  ASSUME Typed, TurnsDiffer, NEW e \in Event, log' \in {log, Append(log, e), Logged(log, e)}, kind' = kind,
         \/ e.why = "late"
         \/ kind # "agy"
         \/ e.hist.ref # HistAt(LastCompleted).ref
         \/ LastCompleted # 0 /\ log[LastCompleted].why = "late"
         \/ e.type \notin {"idle", "done"}
  PROVE  TurnsDiffer'
<1>1. /\ Ids \subseteq Ids' /\ \A i \in Ids : log'[i] = log[i]
      /\ \A i \in Ids' \ Ids : i = Len(log) + 1 /\ log'[i] = e
  BY Appended
<1>2. \A i \in Ids : i \in CompletedTurns <=> i \in CompletedTurns'
  BY <1>1 DEF CompletedTurns
<1>0. Len(log) \in Nat /\ Ids = 1..Len(log)
  BY TypeFacts DEF Ids
<1> SUFFICES ASSUME NEW i \in CompletedTurns', NEW j \in CompletedTurns', kind = "agy", i < j,
                    \A k \in CompletedTurns' : k <= i \/ j <= k,
                    SameContent(log'[i].hist, log'[j].hist)
             PROVE  "late" \in {log'[i].why, log'[j].why}
  BY DEF TurnsDiffer, SameContent
<1>3. i \in Ids' /\ j \in Ids'
  BY DEF CompletedTurns
<1>4. i \in Ids
  BY <1>0, <1>1, <1>3
<1>5. CASE j \in Ids
  <2>1. i \in CompletedTurns /\ j \in CompletedTurns /\ \A k \in CompletedTurns : k <= i \/ j <= k
    <3>1. CompletedTurns \subseteq Ids
      BY LastIsLargest
    <3> QED
      BY <1>2, <1>4, <1>5, <3>1
  <2> QED
    BY <1>1, <1>4, <1>5, <2>1 DEF TurnsDiffer
<1>6. CASE j \notin Ids
  <2>1. log'[j] = e /\ j = Len(log) + 1 /\ i \in CompletedTurns
    BY <1>1, <1>2, <1>3, <1>4, <1>6
  <2>2. /\ LastCompleted \in CompletedTurns /\ LastCompleted \in Ids
        /\ \A k \in CompletedTurns : k <= LastCompleted
    BY <2>1, LastIsLargest
  <2>3. i = LastCompleted
    <3>1. LastCompleted <= i \/ j <= LastCompleted
      BY <1>2, <2>2
    <3>2. i <= LastCompleted /\ LastCompleted <= Len(log) /\ i \in Nat /\ LastCompleted \in Nat
      BY <1>0, <1>4, <2>1, <2>2
    <3> QED
      BY <1>0, <2>1, <3>1, <3>2
  <2>4. e.type \in {"idle", "done"}
    BY <2>1 DEF CompletedTurns
  <2>5. log'[i] = log[i] /\ HistAt(LastCompleted) = log[i].hist
    BY <1>1, <1>4, <2>2, <2>3, LastIsLargest DEF HistAt
  <2>6. log[i].hist.ref = e.hist.ref
    BY <2>1, <2>5 DEF SameContent
  <2> QED
    BY <2>1, <2>3, <2>4, <2>5, <2>6
<1> QED
  BY <1>5, <1>6

\* What a settlement leaves of its operation tells nothing more.
LEMMA SettlingOn ==
  ASSUME Typed, Settling
  PROVE  kind' = kind /\ run'.pc \in {"none", "mark", "verdict", "salvaged"}
<1>1. Finish => run'.pc = "none"
  BY FinishIs
<1>2. CASE Withdraw
  BY <1>2, WithdrawIs
<1>3. CASE Salvage
  BY <1>3, SalvageIs
<1>4. ASSUME NEW stalled \in BOOLEAN, NEW expired \in BOOLEAN, GiveUp(stalled, expired)
      PROVE  kind' = kind /\ run'.pc = "verdict"
  BY <1>4, TypeFacts DEF GiveUp, RunType
<1>5. ASSUME NEW stalled \in BOOLEAN, NEW expired \in BOOLEAN, PutBack(stalled, expired)
      PROVE  kind' = kind /\ run'.pc = "none"
  BY <1>1, <1>5 DEF PutBack
<1>6. CASE Complete \/ MarkTooLate \/ AppendVerdict \/ SalvageDone \/ CancelMissing
  BY <1>1, <1>6 DEF Complete, MarkTooLate, AppendVerdict, SalvageDone, CancelMissing
<1> QED
  BY <1>2, <1>3, <1>4, <1>5, <1>6 DEF Settling

\* Herdr's steps insert rows and leave the others their transition.
LEMMA HerdrKeepsRows ==
  ASSUME Typed, Herdr PROVE Typed' /\ KeepsRows(plan')
<1>1. Typed'
  BY TypedHerdr
<1>2. ASSUME NEW p \in Plans, NEW to \in Statuses, NEW keyed \in EventIds, StatusEvent(p, to, keyed)
      PROVE  KeepsRows(plan')
  <2>1. live \in Statuses /\ keyed \in BOOLEAN
    BY <1>2, TypeFacts, PlansAssumption DEF StatusEvent
  <2>2. NewRow(live, to, keyed, NoHist) \in Row
    BY <2>1, NewRowTyped, NoHistTyped
  <2> QED
    BY <1>2, <2>2, InsertedIs, TypeFacts DEF StatusEvent, IsNext
<1>3. ASSUME NEW p \in Plans, RefreshPlan(p) PROVE KeepsRows(plan')
  <2>1. owed.from \in Statuses /\ owed.to \in Statuses /\ owed.snap \in Hist
    BY <1>3, TypeFacts DEF RefreshPlan
  <2>2. NewRow(owed.from, owed.to, FALSE, owed.snap) \in Row
    BY <2>1, NewRowTyped
  <2> QED
    BY <1>3, <2>2, InsertedIs, TypeFacts DEF RefreshPlan, IsNext
<1>4. CASE plan' = plan
  BY <1>1, <1>4, TypeFacts
<1> QED
  BY <1>1, <1>2, <1>3, <1>4 DEF Herdr, RefreshStatus, CloseBegins, CloseRetires, LateCompletion

\* Where a run begins, by the kind of its agent: an agy run that has nothing to
\* wait for has an answer that is new.
LEMMA StartedReady ==
  ASSUME Typed, NEW t, StartRun(t)
  PROVE  /\ run'.pc \in {"grace", "turn", "advance"} => kind = "pi"
         /\ kind = "agy" /\ run'.pc \in {"append", "tell"} /\ plan[t.plan].to \in {"idle", "done"}
            => IsReady(run'.body)
<1> DEFINE snap == IF t.by = "exec" THEN t.snap ELSE disk
           r == [Opened(t) EXCEPT !.snap = snap, !.body = snap]
<1>1. Next1(t) /\ run' = Gated(r)
  BY DEF StartRun
<1>2. t \in Task /\ t.plan \in Plans /\ snap \in Hist
  BY <1>1, TaskTaken, TypeFacts
<1>3. Opened(t) \in RunType /\ Opened(t).plan = t.plan
  BY <1>2, OpenedTyped, TypeFacts
<1> HIDE DEF snap
<1>4. r \in RunType /\ r.plan = t.plan /\ r.snap = r.body
  BY <1>2, <1>3 DEF RunType
<1> HIDE DEF r
<1>5. \/ run' \in {Ended(r, "nothing"), Ended(r, "waiting")}
      \/ run'.pc = FirstWait(r) /\ run'.body = r.body
  BY <1>1, <1>4, GatedTyped, TypeFacts
<1>6. CASE run' \in {Ended(r, "nothing"), Ended(r, "waiting")}
  <2>1. run'.pc = "settle"
    BY <1>4, <1>6, EndedTyped DEF Outcomes
  <2> QED
    BY <2>1
<1>7. CASE run' \notin {Ended(r, "nothing"), Ended(r, "waiting")}
  <2>1. run'.pc = FirstWait(r) /\ run'.body = r.snap
    BY <1>4, <1>5, <1>7
  <2>2. FirstWait(r) \in {"grace", "turn", "advance"} => kind = "pi"
    BY DEF FirstWait
  <2>3. kind = "agy" /\ plan[r.plan].to \in {"idle", "done"} /\ FirstWait(r) \in {"append", "tell"}
        => IsReady(r.snap)
    BY DEF FirstWait
  <2> QED
    BY <1>4, <2>1, <2>2, <2>3
<1> QED
  BY <1>6, <1>7

LEMMA TurnsStep ==
  ASSUME Typed, Turns, [Next]_vars PROVE Turns'
<1>0. KeepsRows(plan) /\ run.plan \in Plans
  BY TypeFacts
\* A step that appends nothing, and whose operation tells nothing after it.
<1>a. ASSUME log' = log, kind' = kind, run'.pc \notin {"grace", "turn", "advance", "append", "tell"}
      PROVE  Turns'
  BY <1>a, Unrestated, RestatedTurns, TurnsFrom
<1>1. CASE Agent
  <2>1. SameTurns
    BY <1>1, GiveRestates, Unrestated, RestatedTurns, TypeFacts DEF Agent, AgentWrites
  <2> QED
    BY <1>0, <1>1, <2>1, TurnsBeside DEF Agent, AgentWrites, Give
<1>2. CASE Herdr
  <2>0. Typed' /\ KeepsRows(plan')
    BY <1>2, HerdrKeepsRows
  <2>1. CASE CloseBegins
    <3>1. SameTurns
      BY <2>1, CloseRestates, RestatedTurns, TypeFacts
    <3> QED
      BY <2>0, <2>1, <3>1, TurnsBeside DEF CloseBegins
  <2>2. CASE LateCompletion
    <3> DEFINE e == [type |-> live, from |-> "working", to |-> live, obs |-> -1,
                     by |-> disk.ref, hist |-> disk, degraded |-> FALSE,
                     st |-> "pending", why |-> "late"]
    <3>1. live \in Statuses /\ live \in {"idle", "done"} /\ disk.ref \in Nat /\ disk \in Hist /\ HasText(disk)
      BY <2>2, TypeFacts DEF LateCompletion, Hist
    <3>2. e \in Event /\ e.why = "late" /\ e.type = live /\ e.from = "working" /\ e.hist = disk
      BY <3>1 DEF Event, ToldTypes
    <3>3. log' = Append(log, e) /\ UNCHANGED <<kind, plan, run>>
      BY <2>2 DEF LateCompletion
    <3> HIDE DEF e
    <3>4. TurnsDiffer'
      BY <3>2, <3>3, TurnAdded DEF Turns
    <3>5. /\ Len(log) + 1 \in Ids' /\ log'[Len(log) + 1] = e /\ Len(log) \in Nat
          /\ \A i \in Ids' : i <= Len(log) + 1 /\ i \in Nat
      BY <3>2, <3>3, TypeFacts DEF Ids
    <3>6. Len(log) + 1 \in CompletedTurns' /\ CompletedTurns' \subseteq Ids'
      BY <3>1, <3>2, <3>5 DEF CompletedTurns, HasText
    <3>7. LastCompleted' \in CompletedTurns' /\ \A i \in CompletedTurns' : i <= LastCompleted'
      <4>1. CompletedTurns' \in SUBSET (1..(Len(log) + 1)) /\ CompletedTurns' # {} /\ Len(log) + 1 \in Nat
        BY <3>3, <3>6, TypeFacts DEF Ids
      <4>2. /\ Newest(CompletedTurns') \in CompletedTurns'
            /\ \A i \in CompletedTurns' : i <= Newest(CompletedTurns')
        <5> HIDE DEF CompletedTurns
        <5> QED
          BY <4>1, NewestIsLargest
      <4> QED
        BY <4>2 DEF LastCompleted
    <3>8. LastCompleted' = Len(log) + 1
      BY <3>5, <3>6, <3>7
    <3>9. LastCompleted' # 0 /\ log'[LastCompleted'].why = "late"
      BY <3>2, <3>5, <3>8
    <3>10. AboutToTell'
      BY <3>3, <3>9 DEF Turns, AboutToTell
    <3> QED
      BY <3>3, <3>4, <3>10 DEF Turns, PiAlone
  <2>3. CASE ~CloseBegins /\ ~LateCompletion
    <3>1. log' = log /\ kind' = kind /\ run' = run
      BY <1>2, <2>3 DEF Herdr, StatusEvent, RefreshStatus, RefreshPlan, CloseRetires
    <3> QED
      BY <2>0, <3>1, Unrestated, RestatedTurns, TurnsBeside
  <2> QED
    BY <2>1, <2>2, <2>3
<1>3. CASE Taking
  <2>1. PICK t : SkipTask(t) \/ StartOrphan(t) \/ StartUnread(t) \/ StartRun(t)
    BY <1>3 DEF Taking
  <2>2. Next1(t)
    BY <2>1 DEF SkipTask, StartOrphan, StartUnread, StartRun
  <2>3. t \in Task /\ t.plan \in Plans /\ run.pc = "none"
    BY <2>2, TaskTaken DEF NoRun
  <2>4. CASE SkipTask(t)
    BY <1>a, <2>3, <2>4 DEF SkipTask
  <2>5. CASE StartOrphan(t) \/ StartUnread(t)
    <3>1. Opened(t) \in RunType
      BY <2>3, OpenedTyped, TypeFacts
    <3>2. run'.pc \in {"salvage", "settle"} /\ log' = log /\ kind' = kind
      BY <2>5, <3>1 DEF StartOrphan, StartUnread, RunType
    <3> QED
      BY <1>a, <3>2
  <2>6. CASE StartRun(t)
    <3>1. /\ run'.pc \in {"grace", "turn", "advance"} => kind = "pi"
          /\ kind = "agy" /\ run'.pc \in {"append", "tell"} /\ plan[t.plan].to \in {"idle", "done"}
             => IsReady(run'.body)
      BY <2>6, StartedReady
    <3>2. run'.plan = t.plan /\ log' = log /\ kind' = kind /\ plan' = Running(t.plan) /\ plan[t.plan].st = "pending"
      BY <2>6, StartedRun DEF StartRun
    <3>3. plan'[t.plan].to = plan[t.plan].to
      BY <2>3, <3>2, RunningIs, TypeFacts DEF KeepsRows
    <3> QED
      BY <3>1, <3>2, <3>3, Unrestated, RestatedTurns, TurnsFrom
  <2> QED
    BY <2>1, <2>4, <2>5, <2>6
<1>4. CASE Waiting
  <2>1. WaitOutcome
    BY <1>4, WaitsEnd, TypeFacts
  <2>2. SameTurns
    BY <2>1, Unrestated, RestatedTurns DEF WaitOutcome
  <2>3. kind' = kind /\ (run'.pc \in {"grace", "turn", "advance"} => kind = "pi")
    BY <2>1 DEF WaitOutcome, Turns, PiAlone
  <2>4. kind = "agy" => run'.pc # "tell" /\ (run'.pc = "append" => IsReady(run'.body))
    BY <2>1 DEF WaitOutcome, Waitings, Turns, PiAlone
  <2> QED
    BY <2>2, <2>3, <2>4, TurnsFrom
<1>5. CASE Telling
  <2>1. CASE AppendRefused
    <3>1. PICK out \in {"nothing", "waiting", "cancelled"} : run' = Ended(run, out)
      BY <2>1, AppendRefusedIs
    <3>2. out \in Outcomes
      BY DEF Outcomes
    <3>3. run'.pc = "settle"
      BY <3>1, <3>2, EndedTyped, TypeFacts
    <3> QED
      BY <1>a, <2>1, <3>3, AppendRefusedIs
  <2>2. CASE AppendChanged
    <3> DEFINE e == Transition(run, "changed")
    <3>1. /\ e \in Event /\ log' \in {log, Logged(log, e)} /\ run.pc = "append"
          /\ kind' = kind /\ plan' = plan
      BY <2>2, AppendChangedIs
    <3>2. e.type = "changed"
      BY DEF Transition
    <3> HIDE DEF e
    <3>3. SameTurns
      BY <3>1, <3>2, AppendedTurns
    <3>4. \/ run'.pc = "tell" /\ run'.plan = run.plan /\ run'.body = run.body
          \/ run'.pc = "settle"
      <4>1. CASE run' = [run EXCEPT !.pc = "tell"]
        BY <4>1, TypeFacts DEF RunType
      <4>2. CASE run' # [run EXCEPT !.pc = "tell"]
        BY <2>2, <4>2, AppendChangedIs, ToldRun
      <4> QED
        BY <4>1, <4>2
    <3> QED
      BY <3>1, <3>3, <3>4, TurnsFrom
  <2>3. CASE AppendTerminal
    <3> DEFINE e == Transition(run, plan[run.plan].to)
    <3>1. /\ e \in Event /\ log' = Logged(log, e) /\ run.pc = "tell" /\ kind' = kind
      BY <2>3, AppendTerminalIs
    <3>2. e.type = plan[run.plan].to /\ e.hist = run.body
      BY DEF Transition
    <3>3. run'.pc = "settle"
      BY <2>3, AppendTerminalIs, ToldRun
    <3> HIDE DEF e
    <3>4. TurnsDiffer'
      BY <3>1, <3>2, TurnAdded DEF Turns, AboutToTell
    <3> QED
      BY <3>3, <3>4 DEF Turns, PiAlone, AboutToTell
  <2> QED
    BY <1>5, <2>1, <2>2, <2>3 DEF Telling
<1>6. CASE Settling
  <2>1. kind' = kind /\ run'.pc \notin {"grace", "turn", "advance", "append", "tell"}
    BY <1>6, SettlingOn
  <2>2. CASE Withdraw
    BY <2>1, <2>2, WithdrawIs, RestatedTurns, TurnsFrom
  <2>3. CASE AppendVerdict
    <3> DEFINE e == Verdict(run.plan, plan[run.plan].st, run.snap, "pending", "row")
    <3>1. /\ e \in Event /\ log' \in {log, Logged(log, e)}
          /\ plan[run.plan].st \in {"failed", "discarded"}
      BY <2>3, AppendVerdictIs
    <3>2. e.type \notin {"idle", "done"}
      BY <3>1 DEF Verdict
    <3> HIDE DEF e
    <3> QED
      BY <2>1, <3>1, <3>2, AppendedTurns, TurnsFrom
  <2>4. CASE Salvage
    <3> DEFINE e == Verdict(run.plan, "failed", SalvageBody(run.plan), "pending", "salvage")
    <3>1. e \in Event /\ log' = Logged(log, e)
      BY <2>4, SalvageIs
    <3>2. e.type \notin {"idle", "done"}
      BY DEF Verdict
    <3> HIDE DEF e
    <3> QED
      BY <2>1, <3>1, <3>2, AppendedTurns, TurnsFrom
  <2>5. CASE ~Withdraw /\ ~AppendVerdict /\ ~Salvage
    <3>1. log' = log
      BY <1>6, <2>5 DEF Settling, Complete, MarkTooLate, PutBack, GiveUp, SalvageDone, CancelMissing
    <3> QED
      BY <1>a, <2>1, <3>1
  <2> QED
    BY <2>2, <2>3, <2>4, <2>5
<1>7. CASE Draining
  <2>1. ASSUME NEW p \in Plans, Backfill(p) PROVE Turns'
    <3> DEFINE e == Verdict(p, plan[p].st, plan[p].stored, "acked", "row")
    <3>1. plan[p].st \in {"failed", "discarded"} /\ log' = Append(log, e) /\ UNCHANGED <<kind, plan, run>>
      BY <2>1 DEF Backfill, Silent
    <3>2. e \in Event
      BY <3>1, VerdictTyped, RowTyped, TypeFacts
    <3>3. e.type \notin {"idle", "done"}
      BY <3>1 DEF Verdict
    <3> HIDE DEF e
    <3> QED
      BY <1>0, <3>1, <3>2, <3>3, AppendedTurns, TurnsBeside
  <2>2. CASE DrainBegins
    <3>1. KeepsRows(plan') /\ UNCHANGED <<kind, log, run>>
      BY <2>2, ResetIs, TypeFacts DEF DrainBegins
    <3> QED
      BY <3>1, Unrestated, RestatedTurns, TurnsBeside
  <2>3. ASSUME NEW p \in Plans, DrainEnds \/ DrainVisits(p) PROVE Turns'
    BY <1>0, <2>3, Unrestated, RestatedTurns, TurnsBeside DEF DrainEnds, DrainVisits
  <2> QED
    BY <1>0, <1>7, <2>1, <2>2, <2>3 DEF Draining
<1>8. CASE Daemon
  <2>1. KeepsRows(plan') /\ kind' = kind /\ log' = log
    BY <1>8, ResetIs, TypeFacts DEF Daemon, Stop, Dies, Starts
  <2>2. CASE Dies
    <3>1. run'.pc = "none"
      BY <2>2 DEF Dies, NoRun
    <3> QED
      BY <1>a, <2>1, <3>1
  <2>3. CASE ~Dies
    BY <1>8, <2>1, <2>3, Unrestated, RestatedTurns, TurnsBeside DEF Daemon, Stop, Starts
  <2> QED
    BY <2>2, <2>3
<1>9. ASSUME NEW p \in Plans, TimerFires(p) PROVE Turns'
  BY <1>0, <1>9, Unrestated, RestatedTurns, TurnsBeside DEF TimerFires
<1>10. CASE UNCHANGED vars
  BY <1>0, <1>10, Unrestated, RestatedTurns, TurnsBeside DEF vars
<1> QED
  BY <1>1, <1>2, <1>3, <1>4, <1>5, <1>6, <1>7, <1>8, <1>9, <1>10 DEF Next, Runner

\* Two turns of an agy agent that follow one another tell different answers: the
\* readiness gate compares with the last completed turn, and the queue lets no
\* other operation tell in between.
THEOREM TurnsDifferAlways == Spec => []TurnsDiffer
<1>1. Init => Typed /\ Turns
  BY TypedInit DEF Init, Turns, PiAlone, AboutToTell, TurnsDiffer, CompletedTurns, Ids, NoRun
<1>2. Typed /\ Turns /\ [Next]_vars => Typed' /\ Turns'
  BY TypedStep, TurnsStep
<1>3. Turns => TurnsDiffer
  BY DEF Turns
<1> QED
  BY <1>1, <1>2, <1>3, PTL DEF Spec

----------------------------------------------------------------------------
(* A pi turn that ended is told *)

\* The three ways in which a verdict is written.
Judged(e) ==
  \/ /\ AppendVerdict /\ log' \in {log, Logged(log, e)}
     /\ e = Verdict(run.plan, plan[run.plan].st, run.snap, "pending", "row")
  \/ /\ Salvage /\ log' = Logged(log, e)
     /\ e = Verdict(run.plan, "failed", SalvageBody(run.plan), "pending", "salvage")
  \/ \E p \in Plans : /\ Backfill(p) /\ log' = Append(log, e)
                        /\ e = Verdict(p, plan[p].st, plan[p].stored, "acked", "row")

\* What the appends write.
Said(e) ==
  \/ ~e.degraded /\ e.type \in {"failed", "discarded"} /\ Judged(e)
  \/ ~e.degraded /\ e.type \in {"idle", "done"} /\ e.why = "late"
  \/ AppendChanged /\ e = Transition(run, "changed") /\ log' = IF run.skip THEN log ELSE Logged(log, e)
  \/ AppendTerminal /\ e = Transition(run, plan[run.plan].to) /\ log' = Logged(log, e)

\* The log after a step.
LogMoves ==
  \/ /\ Restated(log')
     /\ \A i \in Ids : log'[i].st = "invalid" /\ pane' = "open" => log[i].st = "invalid" \/ log[i].degraded
  \/ /\ \E e \in Event : /\ log' \in {log, Append(log, e), Logged(log, e)}
                         /\ e.st # "invalid" /\ Said(e)
     /\ pane' = pane

LEMMA LogStep ==
  ASSUME Typed, [Next]_vars PROVE LogMoves
<1>a. log' = log => LogMoves
  BY Unrestated DEF LogMoves
<1>b. ASSUME NEW e \in Event, log' \in {log, Append(log, e), Logged(log, e)}, e.st # "invalid", Said(e),
             pane' = pane
      PROVE  LogMoves
  BY <1>b DEF LogMoves
<1>1. CASE Give
  <2>1. Restated(log')
    BY <1>1, GiveRestates, TypeFacts
  <2>2. ASSUME NEW i \in Ids, log'[i].st = "invalid" PROVE log[i].st = "invalid"
    <3>1. log[i] \in Event /\ log'[i] = IF log[i].st = "pending" THEN [log[i] EXCEPT !.st = "given"] ELSE log[i]
      BY <1>1, TypeFacts DEF Give, Ids
    <3> QED
      BY <2>2, <3>1 DEF Event
  <2> QED
    BY <2>1, <2>2 DEF LogMoves
<1>2. CASE CloseBegins
  BY <1>2, CloseRestates, TypeFacts DEF LogMoves, CloseBegins
<1>3. CASE LateCompletion
  <2> DEFINE e == [type |-> live, from |-> "working", to |-> live, obs |-> -1,
                   by |-> disk.ref, hist |-> disk, degraded |-> FALSE,
                   st |-> "pending", why |-> "late"]
  <2>1. live \in Statuses /\ live \in {"idle", "done"} /\ disk.ref \in Nat /\ disk \in Hist
    BY <1>3, TypeFacts DEF LateCompletion, Hist
  <2>2. e \in Event /\ e.st # "invalid" /\ ~e.degraded /\ e.type \in {"idle", "done"} /\ e.why = "late"
    BY <2>1 DEF Event, ToldTypes
  <2>3. log' = Append(log, e) /\ pane' = pane
    BY <1>3 DEF LateCompletion
  <2> HIDE DEF e
  <2> QED
    BY <1>b, <2>2, <2>3 DEF Said
<1>4. CASE AppendChanged
  <2> DEFINE e == Transition(run, "changed")
  <2>1. /\ e \in Event /\ log' = (IF run.skip THEN log ELSE Logged(log, e)) /\ pane' = pane
    BY <1>4, AppendChangedIs
  <2>2. e.st # "invalid" /\ Said(e)
    BY <1>4, <2>1 DEF Transition, Said
  <2> HIDE DEF e
  <2> QED
    BY <1>b, <2>1, <2>2
<1>5. CASE AppendTerminal
  <2> DEFINE e == Transition(run, plan[run.plan].to)
  <2>1. e \in Event /\ log' = Logged(log, e) /\ pane' = pane
    BY <1>5, AppendTerminalIs
  <2>2. e.st # "invalid" /\ Said(e)
    BY <1>5, <2>1 DEF Transition, Said
  <2> HIDE DEF e
  <2> QED
    BY <1>b, <2>1, <2>2
<1>6. CASE Withdraw
  <2>1. /\ Restated(log') /\ log' = Withdrawn(run.event) /\ run.event \in Ids
        /\ log[run.event].degraded /\ pane' = pane
    BY <1>6, WithdrawIs
  <2>2. \A i \in Ids : i # run.event => log'[i] = log[i]
    BY <2>1, TypeFacts DEF Withdrawn, Ids
  <2> QED
    BY <2>1, <2>2 DEF LogMoves
<1>7. CASE AppendVerdict
  <2> DEFINE e == Verdict(run.plan, plan[run.plan].st, run.snap, "pending", "row")
  <2>1. /\ e \in Event /\ log' \in {log, Logged(log, e)} /\ pane' = pane
        /\ plan[run.plan].st \in {"failed", "discarded"}
    BY <1>7, AppendVerdictIs
  <2>2. e.st # "invalid" /\ ~e.degraded /\ e.type \in {"failed", "discarded"} /\ Judged(e)
    BY <1>7, <2>1 DEF Verdict, Judged
  <2> HIDE DEF e
  <2> QED
    BY <1>b, <2>1, <2>2 DEF Said
<1>8. CASE Salvage
  <2> DEFINE e == Verdict(run.plan, "failed", SalvageBody(run.plan), "pending", "salvage")
  <2>1. e \in Event /\ log' = Logged(log, e) /\ pane' = pane
    BY <1>8, SalvageIs
  <2>2. e.st # "invalid" /\ ~e.degraded /\ e.type \in {"failed", "discarded"} /\ Judged(e)
    BY <1>8, <2>1 DEF Verdict, Judged
  <2> HIDE DEF e
  <2> QED
    BY <1>b, <2>1, <2>2 DEF Said
<1>9. ASSUME NEW p \in Plans, Backfill(p) PROVE LogMoves
  <2> DEFINE e == Verdict(p, plan[p].st, plan[p].stored, "acked", "row")
  <2>1. plan[p].st \in {"failed", "discarded"} /\ log' = Append(log, e) /\ pane' = pane
    BY <1>9 DEF Backfill, Silent
  <2>2. e \in Event
    BY <2>1, VerdictTyped, RowTyped, TypeFacts
  <2>3. e.st # "invalid" /\ ~e.degraded /\ e.type \in {"failed", "discarded"} /\ Judged(e)
    BY <1>9, <2>1 DEF Verdict, Judged
  <2> HIDE DEF e
  <2> QED
    BY <1>b, <2>1, <2>2, <2>3 DEF Said
<1>10. CASE Runner
  <2>1. CASE Taking
    BY <1>a, <2>1 DEF Taking, SkipTask, StartOrphan, StartUnread, StartRun
  <2>2. CASE Waiting
    BY <1>a, <2>2, WaitsEnd, TypeFacts DEF WaitOutcome
  <2>3. CASE Telling
    BY <1>a, <1>4, <1>5, <2>3 DEF Telling, AppendRefused
  <2>4. CASE Settling
    BY <1>a, <1>6, <1>7, <1>8, <2>4
       DEF Settling, Complete, MarkTooLate, PutBack, GiveUp, SalvageDone, CancelMissing
  <2> QED
    BY <1>10, <2>1, <2>2, <2>3, <2>4 DEF Runner
<1>11. CASE Draining \/ Daemon
  BY <1>a, <1>9, <1>11 DEF Draining, DrainBegins, DrainEnds, DrainVisits, Daemon, Stop, Dies, Starts
<1>12. CASE Agent \/ Herdr
  BY <1>a, <1>1, <1>2, <1>3, <1>12
     DEF Agent, AgentWrites, Herdr, StatusEvent, RefreshStatus, RefreshPlan, CloseRetires
<1>13. CASE (\E p \in Plans : TimerFires(p)) \/ UNCHANGED vars
  BY <1>a, <1>13 DEF TimerFires, vars
<1> QED
  BY <1>10, <1>11, <1>12, <1>13 DEF Next

Changes == {i \in Ids : log[i].type = "changed"}

\* An event that is told stands after the change of status it belongs to; nothing
\* is invalid before the close but a placeholder, which has no text.
Headed ==
  \A j \in Ids : log[j].type \in ToldTypes /\ log[j].why # "late" =>
    \A c \in Changes : c < j /\ (\A d \in Changes : d < j => d <= c) => log[c].to = log[j].type
LogFacts ==
  /\ \A i \in Changes : log[i].obs < i
  /\ Headed
  /\ \A i \in Ids : log[i].st = "invalid" /\ pane = "open" => log[i].degraded
  /\ \A i \in Ids : log[i].degraded => ~HasText(log[i].hist)

\* What the operation knows of the log: the last change it saw is still the last,
\* and is the change of its own status once it is to tell or has skipped it.
AfterOwnChange == LastChanged # 0 /\ log[LastChanged].to = plan[run.plan].to
Witnessed == \E i \in ToldIds : ~log[i].degraded /\ (log[i].type = "done" \/ log[i].why = "late")
RunFacts ==
  /\ run.pc \in Waitings \cup {"append"} => run.obs = LastChanged /\ (run.skip => AfterOwnChange)
  /\ run.pc = "tell" => AfterOwnChange
  /\ run.out = "event" /\ plan[run.plan].to \in ToldTypes => log[run.event].type = plan[run.plan].to
  /\ run.degraded => run.pc \in {"append", "tell"} /\ ~HasText(run.body)
  /\ run.aborted /\ pane = "open" => phase = "stopping"
  /\ run.pc = "grace" => plan[run.plan].to = "idle"
  /\ run.pc \in {"salvage", "salvaged"} \/ run.out = "cancelled" => pane = "closed"
  /\ kind = "pi" /\ pane = "open" /\ run.pc = "settle" /\ run.out = "nothing" /\ plan[run.plan].to = "done"
     => Witnessed

Done == LogFacts /\ RunFacts /\ DoneIsTold

LEMMA LastChangedIs ==
  ASSUME Typed
  PROVE  /\ Changes \subseteq Ids /\ LastChanged = Newest(Changes) /\ LastChanged \in Nat
         /\ Changes # {} => LastChanged \in Changes /\ \A j \in Changes : j <= LastChanged
         /\ Changes = {} => LastChanged = 0
         /\ Ids = 1..Len(log) /\ Len(log) \in Nat
<1>1. Changes \in SUBSET Ids
  BY DEF Changes
<1>2. LastChanged = Newest(Changes)
  BY DEF LastChanged, Changes
<1>3. Ids = 1..Len(log) /\ Len(log) \in Nat
  BY TypeFacts DEF Ids
<1> HIDE DEF Changes
<1> QED
  BY <1>1, <1>2, <1>3, HistAtTyped, TypeFacts

\* What Said says of an event but its kind.
LEMMA SaidIs ==
  ASSUME Typed, RunFacts, NEW e \in Event, Said(e)
  PROVE  /\ e.degraded => ~HasText(e.hist)
         /\ e.type = "changed" => e.obs = LastChanged /\ e.to = plan[run.plan].to /\ AppendChanged
         /\ e.type \in ToldTypes /\ e.why # "late" => AfterOwnChange /\ plan[run.plan].to = e.type
<1>1. CASE AppendChanged /\ e = Transition(run, "changed")
  <2>1. run.pc = "append"
    BY <1>1 DEF AppendChanged, Still
  <2>2. /\ e.type = "changed" /\ e.obs = run.obs /\ e.to = plan[run.plan].to
        /\ e.degraded = run.degraded /\ e.hist = run.body
    BY <1>1 DEF Transition
  <2> QED
    BY <1>1, <2>1, <2>2 DEF RunFacts, ToldTypes
<1>2. CASE AppendTerminal /\ e = Transition(run, plan[run.plan].to)
  <2>1. run.pc = "tell" /\ plan[run.plan].to \in ToldTypes
    BY <1>2, AppendTerminalIs
  <2>2. e.type = plan[run.plan].to /\ e.degraded = run.degraded /\ e.hist = run.body
    BY <1>2 DEF Transition
  <2> QED
    BY <2>1, <2>2 DEF RunFacts, ToldTypes
<1>3. CASE ~e.degraded /\ (e.type \in {"failed", "discarded"} \/ (e.type \in {"idle", "done"} /\ e.why = "late"))
  BY <1>3 DEF ToldTypes
<1> QED
  BY <1>1, <1>2, <1>3 DEF Said

LEMMA PaneNeverReopens ==
  ASSUME Typed, [Next]_vars PROVE pane' = "open" => pane = "open"
<1>1. CASE Runner
  <2>1. CASE Waiting
    BY <2>1, WaitsEnd, TypeFacts DEF WaitOutcome
  <2>2. CASE Taking \/ Telling \/ Settling
    BY <2>2 DEF Taking, SkipTask, StartOrphan, StartUnread, StartRun, Telling, AppendRefused,
                AppendChanged, AppendTerminal, Settling, Complete, Withdraw, MarkTooLate, AppendVerdict,
                PutBack, GiveUp, Salvage, SalvageDone, CancelMissing
  <2> QED
    BY <1>1, <2>1, <2>2 DEF Runner
<1>2. CASE Draining \/ Daemon \/ Agent
  BY <1>2 DEF Draining, DrainBegins, DrainEnds, DrainVisits, Backfill, Daemon, Stop, Dies, Starts,
              Agent, AgentWrites, Give
<1>3. CASE Herdr \/ (\E p \in Plans : TimerFires(p)) \/ UNCHANGED vars
  BY <1>3 DEF Herdr, StatusEvent, RefreshStatus, RefreshPlan, CloseBegins, CloseRetires, LateCompletion,
              TimerFires, vars
<1> QED
  BY <1>1, <1>2, <1>3 DEF Next

LEMMA LogFactsStep ==
  ASSUME Typed, LogFacts, RunFacts, [Next]_vars PROVE LogFacts'
<1>1. CASE /\ Restated(log')
           /\ \A i \in Ids : log'[i].st = "invalid" /\ pane' = "open" => log[i].st = "invalid" \/ log[i].degraded
  <2>1. Ids' = Ids /\ Changes' = Changes
    BY <1>1 DEF Restated, Ids, Changes
  <2>2. \A i \in Ids : /\ log'[i].type = log[i].type /\ log'[i].to = log[i].to /\ log'[i].obs = log[i].obs
                       /\ log'[i].hist = log[i].hist /\ log'[i].degraded = log[i].degraded
                       /\ log'[i].why = log[i].why
    BY <1>1 DEF Restated
  <2>3. \A i \in Changes' : log'[i].obs < i
    BY <2>1, <2>2 DEF LogFacts, Changes
  <2>4. Headed'
    BY <2>1, <2>2 DEF LogFacts, Headed, Changes
  <2>5. \A i \in Ids' : log'[i].st = "invalid" /\ pane' = "open" => log'[i].degraded
    <3> SUFFICES ASSUME NEW i \in Ids, log'[i].st = "invalid", pane' = "open" PROVE log[i].degraded
      BY <2>1, <2>2
    <3>1. pane = "open"
      BY PaneNeverReopens
    <3> QED
      BY <1>1, <3>1 DEF LogFacts
  <2>6. \A i \in Ids' : log'[i].degraded => ~HasText(log'[i].hist)
    BY <2>1, <2>2 DEF LogFacts
  <2> QED
    BY <2>3, <2>4, <2>5, <2>6 DEF LogFacts
<1>2. ASSUME NEW e \in Event, log' \in {log, Append(log, e), Logged(log, e)}, e.st # "invalid", Said(e),
             pane' = pane
      PROVE  LogFacts'
  <2>1. /\ Ids \subseteq Ids' /\ \A i \in Ids : log'[i] = log[i]
        /\ \A i \in Ids' \ Ids : i = Len(log) + 1 /\ log'[i] = e
    BY <1>2, Appended
  <2>2. /\ e.degraded => ~HasText(e.hist)
        /\ e.type = "changed" => e.obs = LastChanged
        /\ e.type \in ToldTypes /\ e.why # "late" => AfterOwnChange /\ plan[run.plan].to = e.type
    BY <1>2, SaidIs
  <2>3. /\ Changes \subseteq Ids /\ LastChanged \in Nat
        /\ Changes # {} => LastChanged \in Changes /\ \A j \in Changes : j <= LastChanged
        /\ Changes = {} => LastChanged = 0
        /\ Ids = 1..Len(log) /\ Len(log) \in Nat
    BY LastChangedIs
  <2>4. LastChanged < Len(log) + 1
    BY <2>3
  <2>5. \A i \in Ids' : i \in Ids \/ i = Len(log) + 1
    BY <2>1
  <2>6. \A i \in Ids : i < Len(log) + 1 /\ i \in Nat
    BY <2>3
  <2>7. \A c \in Changes' : c \in Changes \/ c = Len(log) + 1
    BY <2>1, <2>5 DEF Changes
  <2>8. Changes \subseteq Changes' /\ \A c \in Changes : log'[c] = log[c]
    BY <2>1 DEF Changes
  <2>9. \A i \in Changes' : log'[i].obs < i
    <3> SUFFICES ASSUME NEW i \in Changes' PROVE log'[i].obs < i
      OBVIOUS
    <3>1. CASE i \in Changes
      BY <2>8, <3>1 DEF LogFacts
    <3>2. CASE i \notin Changes
      <4>1. i \in Ids' \ Ids /\ log'[i].type = "changed"
        BY <2>1, <3>2 DEF Changes
      <4> QED
        BY <2>1, <2>2, <2>4, <4>1
    <3> QED
      BY <3>1, <3>2
  <2>10. Headed'
    <3> SUFFICES ASSUME NEW j \in Ids', log'[j].type \in ToldTypes, log'[j].why # "late",
                        NEW c \in Changes', c < j, \A d \in Changes' : d < j => d <= c
                 PROVE  log'[c].to = log'[j].type
      BY DEF Headed
    <3>1. c \in Changes
      <4>1. j <= Len(log) + 1
        BY <2>5, <2>6, <2>3
      <4>2. c # Len(log) + 1
        BY <2>3, <2>5, <2>6, <4>1
      <4> QED
        BY <2>7, <4>2
    <3>2. CASE j \in Ids
      BY <2>1, <2>8, <3>1, <3>2 DEF LogFacts, Headed
    <3>3. CASE j \notin Ids
      <4>1. log'[j] = e /\ j = Len(log) + 1
        BY <2>1, <3>3
      <4>2. AfterOwnChange /\ plan[run.plan].to = e.type
        BY <2>2, <4>1
      <4>3. LastChanged \in Changes /\ c <= LastChanged /\ LastChanged < j
        BY <2>3, <2>4, <3>1, <4>1
      <4>4. LastChanged <= c
        BY <2>8, <4>3
      <4>5. c = LastChanged
        BY <2>3, <3>1, <4>3, <4>4
      <4> QED
        BY <2>8, <4>1, <4>2, <4>3, <4>5 DEF AfterOwnChange
    <3> QED
      BY <3>2, <3>3
  <2>11. \A i \in Ids' : log'[i].st = "invalid" /\ pane' = "open" => log'[i].degraded
    <3> SUFFICES ASSUME NEW i \in Ids', log'[i].st = "invalid", pane = "open" PROVE log'[i].degraded
      BY <1>2
    <3>1. i \in Ids
      BY <1>2, <2>1
    <3> QED
      BY <2>1, <3>1 DEF LogFacts
  <2>12. \A i \in Ids' : log'[i].degraded => ~HasText(log'[i].hist)
    <3> SUFFICES ASSUME NEW i \in Ids', log'[i].degraded PROVE ~HasText(log'[i].hist)
      OBVIOUS
    <3>1. CASE i \in Ids
      BY <2>1, <3>1 DEF LogFacts
    <3>2. CASE i \notin Ids
      BY <2>1, <2>2, <3>2
    <3> QED
      BY <3>1, <3>2
  <2> QED
    BY <2>9, <2>10, <2>11, <2>12 DEF LogFacts
<1> QED
  BY <1>1, <1>2, LogStep DEF LogMoves

LEMMA WitnessKept ==
  ASSUME Typed, [Next]_vars, pane' = "open", Witnessed PROVE Witnessed'
<1>1. PICK i \in ToldIds : ~log[i].degraded /\ (log[i].type = "done" \/ log[i].why = "late")
  BY DEF Witnessed
<1>2. i \in Ids /\ log[i].type \in ToldTypes /\ log[i].st # "invalid"
  BY <1>1 DEF ToldIds
<1>3. CASE /\ Restated(log')
           /\ \A j \in Ids : log'[j].st = "invalid" /\ pane' = "open" => log[j].st = "invalid" \/ log[j].degraded
  <2>1. i \in Ids' /\ log'[i].st # "invalid" /\ log'[i].type = log[i].type
        /\ log'[i].degraded = log[i].degraded /\ log'[i].why = log[i].why
    BY <1>1, <1>2, <1>3 DEF Restated, Ids
  <2> QED
    BY <1>1, <1>2, <2>1 DEF Witnessed, ToldIds
<1>4. ASSUME NEW e \in Event, log' \in {log, Append(log, e), Logged(log, e)} PROVE Witnessed'
  <2>1. i \in Ids' /\ log'[i] = log[i]
    BY <1>2, <1>4, Appended
  <2> QED
    BY <1>1, <1>2, <2>1 DEF Witnessed, ToldIds
<1> QED
  BY <1>3, <1>4, LogStep DEF LogMoves

\* Only the operation that announces a change changes what the last change is.
SameChange ==
  /\ LastChanged' = LastChanged
  /\ LastChanged # 0 => log'[LastChanged].to = log[LastChanged].to

LEMMA ChangeKept ==
  ASSUME Typed, RunFacts, [Next]_vars, ~AppendChanged PROVE SameChange
<1>0. Changes \subseteq Ids /\ (LastChanged # 0 => LastChanged \in Changes)
  BY LastChangedIs
<1>1. Changes' = Changes /\ \A c \in Changes : log'[c].to = log[c].to
  <2>1. CASE Restated(log')
    BY <2>1 DEF Restated, Ids, Changes
  <2>2. ASSUME NEW e \in Event, log' \in {log, Append(log, e), Logged(log, e)}, Said(e)
        PROVE  Changes' = Changes /\ \A c \in Changes : log'[c].to = log[c].to
    <3>1. e.type # "changed"
      BY <2>2, SaidIs
    <3>2. /\ Ids \subseteq Ids' /\ \A i \in Ids : log'[i] = log[i]
          /\ \A i \in Ids' \ Ids : log'[i] = e
      BY <2>2, Appended
    <3> QED
      BY <3>1, <3>2 DEF Changes
  <2> QED
    BY <2>1, <2>2, LogStep DEF LogMoves
<1>2. LastChanged' = LastChanged
  BY <1>1 DEF LastChanged, Changes
<1> QED
  BY <1>0, <1>1, <1>2 DEF SameChange

\* What an event is about does not change.
LEMMA EventsKeep ==
  ASSUME Typed, [Next]_vars PROVE \A i \in Ids : i \in Ids' /\ log'[i].type = log[i].type
<1>1. CASE Restated(log')
  BY <1>1 DEF Restated, Ids
<1>2. ASSUME NEW e \in Event, log' \in {log, Append(log, e), Logged(log, e)}
      PROVE  \A i \in Ids : i \in Ids' /\ log'[i].type = log[i].type
  BY <1>2, Appended
<1> QED
  BY <1>1, <1>2, LogStep DEF LogMoves

LEMMA RunFactsBeside ==
  ASSUME Typed, RunFacts, [Next]_vars, ~AppendChanged, KeepsRows(plan'), kind' = kind,
         run' = run \/ run' = [run EXCEPT !.aborted = TRUE],
         run'.aborted /\ pane' = "open" => phase' = "stopping",
         pane = "closed" => pane' = "closed"
  PROVE  RunFacts'
<1>1. /\ run'.pc = run.pc /\ run'.plan = run.plan /\ run'.obs = run.obs /\ run'.skip = run.skip
      /\ run'.out = run.out /\ run'.event = run.event /\ run'.degraded = run.degraded
      /\ run'.body = run.body
  BY TypeFacts DEF RunType
<1>2. SameChange
  BY ChangeKept
<1>3. run.pc # "none" => plan'[run.plan].to = plan[run.plan].to
  BY TypeFacts DEF OfPlans, KeepsRows
<1>4. run.pc # "none" /\ AfterOwnChange => AfterOwnChange'
  BY <1>1, <1>2, <1>3 DEF SameChange, AfterOwnChange
<1>5. run.out = "event" => run.pc # "none" /\ log'[run.event].type = log[run.event].type
  BY EventsKeep, TypeFacts DEF Placed
<1>6. pane' = "open" /\ Witnessed => Witnessed'
  BY WitnessKept
<1>7. run'.pc \in Waitings \cup {"append"} => run'.obs = LastChanged' /\ (run'.skip => AfterOwnChange')
  BY <1>1, <1>2, <1>4 DEF RunFacts, SameChange, Waitings
<1>8. run'.pc = "tell" => AfterOwnChange'
  BY <1>1, <1>4 DEF RunFacts
<1>9. run'.out = "event" /\ plan'[run'.plan].to \in ToldTypes => log'[run'.event].type = plan'[run'.plan].to
  BY <1>1, <1>3, <1>5 DEF RunFacts
<1>10. run'.degraded => run'.pc \in {"append", "tell"} /\ ~HasText(run'.body)
  BY <1>1 DEF RunFacts
<1>11. run'.pc = "grace" => plan'[run'.plan].to = "idle"
  BY <1>1, <1>3 DEF RunFacts
<1>12. run'.pc \in {"salvage", "salvaged"} \/ run'.out = "cancelled" => pane' = "closed"
  BY <1>1 DEF RunFacts
<1>13. kind' = "pi" /\ pane' = "open" /\ run'.pc = "settle" /\ run'.out = "nothing"
       /\ plan'[run'.plan].to = "done" => Witnessed'
  BY <1>1, <1>3, <1>6, PaneNeverReopens DEF RunFacts
<1> QED
  BY <1>7, <1>8, <1>9, <1>10, <1>11, <1>12, <1>13 DEF RunFacts

\* An operation that has nothing more to wait for or to tell.
LEMMA RunFactsOver ==
  ASSUME run'.pc \in {"none", "settle", "mark", "verdict", "salvage", "salvaged"}, ~run'.degraded,
         run'.aborted /\ pane' = "open" => phase' = "stopping",
         run'.pc \in {"salvage", "salvaged"} \/ run'.out = "cancelled" => pane' = "closed",
         run'.out = "event" /\ plan'[run'.plan].to \in ToldTypes
           => log'[run'.event].type = plan'[run'.plan].to,
         kind' = "pi" /\ pane' = "open" /\ run'.pc = "settle" /\ run'.out = "nothing"
           /\ plan'[run'.plan].to = "done" => Witnessed'
  PROVE  RunFacts'
BY DEF RunFacts, Waitings

\* A run that finds a turn of pi told by the last event leaves that event behind.
LEMMA StartedTold ==
  ASSUME Typed, LogFacts, NEW t, StartRun(t)
  PROVE  /\ run'.pc = "grace" => plan[t.plan].to = "idle"
         /\ kind = "pi" /\ pane = "open" /\ run'.pc = "settle" /\ run'.out = "nothing"
            /\ plan[t.plan].to = "done" => Witnessed
<1> DEFINE snap == IF t.by = "exec" THEN t.snap ELSE disk
           r == [Opened(t) EXCEPT !.snap = snap, !.body = snap]
<1>1. Next1(t) /\ run' = Gated(r)
  BY DEF StartRun
<1>2. t \in Task /\ t.plan \in Plans /\ snap \in Hist
  BY <1>1, TaskTaken, TypeFacts
<1>3. Opened(t) \in RunType /\ Opened(t).plan = t.plan
  BY <1>2, OpenedTyped, TypeFacts
<1> HIDE DEF snap
<1>4. r \in RunType /\ r.plan = t.plan
  BY <1>2, <1>3 DEF RunType
<1> HIDE DEF r
<1>5. \/ run' \in {Ended(r, "nothing"), Ended(r, "waiting")}
      \/ run'.pc = FirstWait(r)
  BY <1>1, <1>4, GatedTyped, TypeFacts
<1>6. /\ Ended(r, "nothing").pc = "settle" /\ Ended(r, "waiting").pc = "settle"
      /\ Ended(r, "waiting").out = "waiting"
  BY <1>4, EndedTyped DEF Outcomes
<1>7. run'.pc = "grace" => plan[t.plan].to = "idle"
  BY <1>4, <1>5, <1>6 DEF FirstWait
<1>8. ASSUME kind = "pi", pane = "open", run'.pc = "settle", run'.out = "nothing", plan[t.plan].to = "done"
      PROVE  Witnessed
  <2>1. FirstWait(r) # "settle"
    BY DEF FirstWait
  <2>2. run' = Ended(r, "nothing") /\ run' # Ended(r, "waiting")
    BY <1>5, <1>6, <1>8, <2>1
  <2>3. \A skip \in BOOLEAN, aborted \in BOOLEAN :
          [r EXCEPT !.pc = FirstWait(r), !.skip = skip, !.obs = LastChanged, !.aborted = aborted].pc # "settle"
    BY <1>4, <2>1 DEF RunType
  <2>4. /\ LastChanged # 0 /\ log[LastChanged].to = "done" /\ ToldAfter(LastChanged)
        /\ SameContent(r.snap, HistAt(LastTold))
    BY <1>1, <1>4, <1>8, <2>2, <2>3 DEF Gated, ToldTypes
  <2>5. ToldIds \in SUBSET Ids
    BY DEF ToldIds
  <2>6. /\ ToldIds # {} /\ LastTold \in ToldIds /\ \A j \in ToldIds : j <= LastTold
    BY <2>4, <2>5, HistAtTyped, TypeFacts DEF ToldAfter, LastTold
  <2>7. /\ Changes \subseteq Ids /\ LastChanged \in Changes /\ \A j \in Changes : j <= LastChanged
        /\ Ids = 1..Len(log) /\ Len(log) \in Nat
    BY <2>4, LastChangedIs
  <2>8. LastChanged < LastTold /\ LastTold \in Ids /\ LastTold # 0
    <3>1. PICK j \in ToldIds : j > LastChanged
      BY <2>4 DEF ToldAfter
    <3>2. j <= LastTold /\ j \in Ids /\ LastTold \in Ids /\ LastChanged \in Ids
      BY <2>5, <2>6, <2>7
    <3> QED
      BY <2>7, <3>1, <3>2
  <2>9. log[LastTold].type = "done" \/ log[LastTold].why = "late"
    BY <2>4, <2>6, <2>7, <2>8 DEF LogFacts, Headed, ToldIds
  <2>10. ~log[LastTold].degraded
    BY <2>4, <2>8 DEF LogFacts, SameContent, HistAt, HasText
  <2> QED
    BY <2>6, <2>9, <2>10 DEF Witnessed
<1> QED
  BY <1>7, <1>8

\* A change is announced once: the key of a new one holds the last change before.
LEMMA ChangeIsNew ==
  ASSUME Typed, LogFacts, run.obs = LastChanged PROVE ~Known(log, Transition(run, "changed"))
<1> DEFINE e == Transition(run, "changed")
<1>1. e.type = "changed" /\ e.obs = LastChanged
  BY DEF Transition
<1> HIDE DEF e
<1> SUFFICES ASSUME NEW i \in DOMAIN log, Key(log[i]) = Key(e) PROVE FALSE
  BY DEF Known, e
<1>2. log[i].type = "changed" /\ log[i].obs = LastChanged
  BY <1>1 DEF Key
<1>3. i \in Changes
  BY <1>2 DEF Changes, Ids
<1>4. LastChanged < i /\ i <= LastChanged /\ i \in Nat /\ LastChanged \in Nat
  BY <1>2, <1>3, LastChangedIs DEF LogFacts
<1> QED
  BY <1>4

LEMMA ChangedFacts ==
  ASSUME Typed, LogFacts, RunFacts, AppendChanged, [Next]_vars PROVE RunFacts'
<1> DEFINE e == Transition(run, "changed")
<1>1. /\ UNCHANGED <<kind, pane, plan, phase>> /\ run.pc = "append"
      /\ e \in Event /\ log' = IF run.skip THEN log ELSE Logged(log, e)
  BY AppendChangedIs
<1>2. CASE run' = [run EXCEPT !.pc = "tell"]
  <2>1. /\ run'.pc = "tell" /\ run'.plan = run.plan /\ run'.out = run.out /\ run'.event = run.event
        /\ run'.degraded = run.degraded /\ run'.body = run.body /\ run'.aborted = run.aborted
    BY <1>2, TypeFacts DEF RunType
  <2>2. run.out # "event"
    BY <1>1, TypeFacts DEF Placed
  <2>3. AfterOwnChange'
    <3>1. CASE run.skip
      <4>1. log' = log /\ AfterOwnChange
        BY <1>1, <3>1 DEF RunFacts
      <4> QED
        BY <1>1, <2>1, <4>1 DEF AfterOwnChange, LastChanged, Ids
    <3>2. CASE ~run.skip
      <4>1. run.obs = LastChanged
        BY <1>1 DEF RunFacts
      <4>2. log' = Append(log, e) /\ log \in Seq(Event)
        BY <1>1, <3>2, <4>1, ChangeIsNew, TypeFacts DEF Logged
      <4>3. e.type = "changed" /\ e.to = plan[run.plan].to
        BY DEF Transition
      <4> HIDE DEF e
      <4>4. /\ Len(log) \in Nat /\ Len(log) + 1 \in Ids' /\ log'[Len(log) + 1] = e
            /\ \A i \in Ids' : i <= Len(log) + 1 /\ i \in Nat
        BY <1>1, <4>2 DEF Ids
      <4>5. Len(log) + 1 \in Changes' /\ Changes' \subseteq Ids'
        BY <4>3, <4>4 DEF Changes
      <4>6. Changes' \in SUBSET (1..(Len(log) + 1)) /\ Changes' # {} /\ Len(log) + 1 \in Nat
        BY <1>1, <4>2, <4>4, <4>5 DEF Ids
      <4>7. Newest(Changes') \in Changes' /\ \A i \in Changes' : i <= Newest(Changes')
        <5> HIDE DEF Changes
        <5> QED
          BY <4>6, NewestIsLargest
      <4>8. Newest(Changes') = Len(log) + 1
        BY <4>4, <4>5, <4>7
      <4>9. LastChanged' = Len(log) + 1
        BY <4>8 DEF LastChanged, Changes
      <4> QED
        BY <1>1, <2>1, <4>3, <4>4, <4>9 DEF AfterOwnChange
    <3> QED
      BY <3>1, <3>2
  <2> QED
    BY <1>1, <2>1, <2>2, <2>3 DEF RunFacts, Waitings
<1>3. CASE run' # [run EXCEPT !.pc = "tell"]
  <2>1. plan[run.plan].to \notin ToldTypes
    BY <1>3, AppendChangedIs
  <2>2. /\ run'.pc = "settle" /\ run'.plan = run.plan /\ run'.out = "event"
        /\ ~run'.degraded /\ ~run'.aborted
    BY <1>3, AppendChangedIs, ToldRun
  <2> QED
    BY <1>1, <2>1, <2>2, RunFactsOver
<1> QED
  BY <1>2, <1>3

LEMMA RunFactsStep ==
  ASSUME Typed, LogFacts, RunFacts, [Next]_vars PROVE RunFacts'
<1>0. KeepsRows(plan) /\ run.plan \in Plans
  BY TypeFacts
<1>a. Still("append") => run.pc = "append"
  BY DEF Still
\* A step that leaves the operation and the rows alone.
<1>b. ASSUME UNCHANGED <<kind, pane, plan, run, phase>>, ~AppendChanged PROVE RunFacts'
  <2>1. run'.aborted /\ pane' = "open" => phase' = "stopping"
    BY <1>b DEF RunFacts
  <2> QED
    BY <1>0, <1>b, <2>1, RunFactsBeside
<1>c. ASSUME Finish PROVE RunFacts'
  <2>1. run' = NoRun
    BY <1>c, FinishIs
  <2>2. NoRun.pc = "none" /\ ~NoRun.degraded /\ ~NoRun.aborted /\ NoRun.out = "none"
    BY DEF NoRun
  <2> HIDE DEF NoRun
  <2> QED
    BY <2>1, <2>2, RunFactsOver
<1>d. AppendChanged => run.pc = "append" /\ run'.pc \in {"tell", "settle"}
  <2>1. run.pc = "append" /\ AppendChanged /\ run' = [run EXCEPT !.pc = "tell"] => run'.pc = "tell"
    BY TypeFacts DEF RunType
  <2> QED
    BY <2>1, AppendChangedIs, ToldRun
<1>1. CASE AppendChanged
  BY <1>1, ChangedFacts
<1>2. CASE Agent
  <2>1. CASE AppendChanged
    BY <2>1, ChangedFacts
  <2> QED
    BY <1>2, <1>b, <2>1 DEF Agent, AgentWrites, Give
<1>3. CASE Herdr /\ ~AppendChanged
  <2>0. KeepsRows(plan') /\ kind' = kind
    BY <1>3, HerdrKeepsRows DEF Herdr, StatusEvent, RefreshStatus, RefreshPlan, CloseBegins, CloseRetires,
                                LateCompletion
  <2>1. CASE CloseBegins
    <3>1. /\ run' = run \/ run' = [run EXCEPT !.aborted = TRUE]
          /\ pane' = "closing" /\ pane = "open"
      BY <2>1 DEF CloseBegins
    <3> QED
      BY <1>3, <2>0, <3>1, RunFactsBeside
  <2>2. CASE ~CloseBegins
    <3>1. run' = run /\ phase' = phase /\ pane' \in {pane, "closed"}
      BY <1>3, <2>2 DEF Herdr, StatusEvent, RefreshStatus, RefreshPlan, CloseRetires, LateCompletion
    <3>2. run'.aborted /\ pane' = "open" => phase' = "stopping"
      BY <3>1 DEF RunFacts
    <3> QED
      BY <1>3, <2>0, <3>1, <3>2, RunFactsBeside
  <2> QED
    BY <2>1, <2>2
<1>4. CASE Taking
  <2>1. PICK t : SkipTask(t) \/ StartOrphan(t) \/ StartUnread(t) \/ StartRun(t)
    BY <1>4 DEF Taking
  <2>2. Next1(t)
    BY <2>1 DEF SkipTask, StartOrphan, StartUnread, StartRun
  <2>3. t \in Task /\ t.plan \in Plans /\ run.pc = "none"
    BY <2>2, TaskTaken DEF NoRun
  <2>4. ~AppendChanged
    BY <1>d, <2>3
  <2>5. /\ Opened(t) \in RunType /\ Opened(t).plan = t.plan
        /\ Opened(t).out = "none" /\ ~Opened(t).degraded
    BY <2>3, OpenedTyped, TypeFacts
  <2>6. ~Opened(t).aborted
    BY DEF Opened, NoRun
  <2>7. CASE SkipTask(t)
    BY <1>b, <2>4, <2>7 DEF SkipTask
  <2>8. CASE StartOrphan(t)
    <3>1. run' = [Opened(t) EXCEPT !.pc = "salvage"] /\ live = "gone" /\ pane' = pane
      BY <2>8 DEF StartOrphan
    <3>2. run'.pc = "salvage" /\ run'.out = "none" /\ ~run'.degraded /\ ~run'.aborted
      BY <2>5, <2>6, <3>1 DEF RunType
    <3>3. pane' = "closed"
      BY <3>1, TypeFacts
    <3> QED
      BY <3>2, <3>3, RunFactsOver
  <2>9. CASE StartUnread(t)
    <3> DEFINE snap == IF t.by = "drain" THEN plan[t.plan].stored ELSE t.snap
    <3>1. run' = [Opened(t) EXCEPT !.pc = "settle", !.out = "waiting", !.snap = snap]
      BY <2>9 DEF StartUnread
    <3> HIDE DEF snap
    <3>2. run'.pc = "settle" /\ run'.out = "waiting" /\ ~run'.degraded /\ ~run'.aborted
      BY <2>5, <2>6, <3>1 DEF RunType
    <3> QED
      BY <3>2, RunFactsOver
  <2>10. CASE StartRun(t)
    <3>1. /\ run'.plan = t.plan /\ run' \in RunType /\ ~run'.degraded
          /\ \/ run'.pc = "settle" /\ run'.out \in {"nothing", "waiting"} /\ ~run'.aborted
             \/ /\ run'.pc \in Waitings \cup {"append"} /\ run'.out = "none"
                /\ run'.aborted = (phase = "stopping") /\ run'.obs = LastChanged
                /\ run'.skip => LastChanged # 0 /\ log[LastChanged].to = plan[t.plan].to
      BY <2>10, StartedRun
    <3>2. UNCHANGED <<kind, pane, log, phase>> /\ plan' = Running(t.plan) /\ plan[t.plan].st = "pending"
      BY <2>10 DEF StartRun
    <3>3. plan'[t.plan].to = plan[t.plan].to
      BY <2>3, <3>2, RunningIs, TypeFacts DEF KeepsRows
    <3>4. /\ run'.pc = "grace" => plan[t.plan].to = "idle"
          /\ kind = "pi" /\ pane = "open" /\ run'.pc = "settle" /\ run'.out = "nothing"
             /\ plan[t.plan].to = "done" => Witnessed
      BY <2>10, StartedTold
    <3>5. pane' = "open" /\ Witnessed => Witnessed'
      BY WitnessKept
    <3>6. CASE run'.pc = "settle"
      <4>1. run'.out \in {"nothing", "waiting"} /\ ~run'.aborted
        BY <3>1, <3>6 DEF Waitings
      <4> QED
        BY <3>1, <3>2, <3>3, <3>4, <3>5, <3>6, <4>1, RunFactsOver
    <3>7. CASE run'.pc # "settle"
      <4>1. LastChanged' = LastChanged
        BY <3>2 DEF LastChanged, Ids
      <4>2. run'.skip => AfterOwnChange'
        BY <3>1, <3>2, <3>3, <3>7, <4>1 DEF AfterOwnChange
      <4> QED
        BY <3>1, <3>2, <3>3, <3>4, <3>7, <4>1, <4>2 DEF RunFacts, Waitings
    <3> QED
      BY <3>6, <3>7
  <2> QED
    BY <2>1, <2>7, <2>8, <2>9, <2>10
<1>5. CASE Waiting
  <2>1. WaitOutcome
    BY <1>5, WaitsEnd, TypeFacts
  <2>2. /\ UNCHANGED <<kind, pane, plan, log, phase>> /\ run.pc \in Waitings /\ run'.plan = run.plan
    BY <2>1 DEF WaitOutcome
  <2>3. LastChanged' = LastChanged /\ (AfterOwnChange => AfterOwnChange') /\ (Witnessed => Witnessed')
    BY <2>2 DEF LastChanged, Ids, AfterOwnChange, Witnessed, ToldIds
  <2>4. CASE /\ run'.pc = "settle" /\ run'.out \in {"nothing", "waiting", "error"}
             /\ ~run'.degraded /\ ~run'.aborted
             /\ run'.out = "nothing" => \/ pane = "closed" \/ (run.aborted /\ phase # "stopping")
                                        \/ run.pc = "grace" \/ kind = "agy"
    <3>1. kind = "pi" /\ pane = "open" /\ run'.out = "nothing" => plan[run.plan].to = "idle"
      BY <2>4 DEF RunFacts
    <3> QED
      BY <2>2, <2>4, <3>1, RunFactsOver
  <2>5. CASE /\ run'.pc \in {"append", "advance"} /\ run'.out = run.out /\ run'.skip = run.skip
             /\ run'.obs = run.obs /\ run'.aborted = run.aborted
             /\ run'.pc = "advance" => run.pc = "turn" /\ run'.degraded = run.degraded
             /\ run'.degraded => run.degraded \/ run'.body = NoHist
    <3>1. ~run.degraded /\ run.out # "event" /\ run.obs = LastChanged /\ (run.skip => AfterOwnChange)
      BY <2>2, TypeFacts DEF RunFacts, Waitings, Placed
    <3>a. run.degraded \in BOOLEAN /\ run'.degraded \in BOOLEAN
      BY <2>1, TypeFacts DEF WaitOutcome, RunType
    <3>b. run'.pc = "append" \/ ~run'.degraded
      BY <2>5, <3>1, <3>a
    <3>c. run'.degraded => run'.body = NoHist
      BY <2>5, <3>1
    <3>2. run'.degraded => run'.pc = "append" /\ ~HasText(run'.body)
      BY <3>b, <3>c DEF HasText, NoHist
    <3> QED
      BY <2>2, <2>3, <2>5, <3>1, <3>2 DEF RunFacts, Waitings
  <2> QED
    BY <2>1, <2>4, <2>5 DEF WaitOutcome
<1>6. CASE AppendRefused
  <2>1. PICK out \in {"nothing", "waiting", "cancelled"} :
          /\ run' = Ended(run, out)
          /\ out = "cancelled" => live = "gone"
          /\ out = "nothing" => \/ pane = "closed" \/ (run.aborted /\ phase # "stopping")
                                \/ plan[run.plan].to \notin {"done", "blocked"}
    BY <1>6, AppendRefusedIs
  <2>2. out \in Outcomes
    BY DEF Outcomes
  <2>3. run'.pc = "settle" /\ run'.out = out /\ ~run'.degraded /\ ~run'.aborted /\ run'.plan = run.plan
    BY <2>1, <2>2, EndedTyped, TypeFacts
  <2>4. UNCHANGED <<kind, pane, plan, phase>>
    BY <1>6, AppendRefusedIs
  <2>5. out = "cancelled" => pane = "closed"
    BY <2>1, TypeFacts
  <2> QED
    BY <2>1, <2>3, <2>4, <2>5, RunFactsOver DEF RunFacts
<1>7. CASE AppendTerminal
  <2> DEFINE e == Transition(run, plan[run.plan].to)
  <2>1. /\ e \in Event /\ log' = Logged(log, e) /\ UNCHANGED <<kind, pane, plan, phase>>
        /\ run' = [Ended(run, "event") EXCEPT !.event = IdOf(log, e)]
        /\ IdOf(log, e) \in Nat \ {0} /\ IdOf(log, e) \in Ids'
    BY <1>7, AppendTerminalIs
  <2>2. e.type = plan[run.plan].to
    BY DEF Transition
  <2> HIDE DEF e
  <2>3. log'[IdOf(log, e)].type = plan[run.plan].to
    BY <2>1, <2>2, LoggedIs, TypeFacts DEF Key
  <2>4. /\ run'.pc = "settle" /\ run'.plan = run.plan /\ run'.out = "event" /\ run'.event = IdOf(log, e)
        /\ ~run'.degraded /\ ~run'.aborted
    BY <2>1, ToldRun
  <2> QED
    BY <2>1, <2>3, <2>4, RunFactsOver
<1>8. CASE Settling
  <2>1. CASE Withdraw
    <3>1. /\ run'.pc = "mark" /\ run'.plan = run.plan /\ run'.out = "event" /\ run.out = "event"
          /\ run'.event = run.event /\ run'.degraded = run.degraded /\ run.pc = "settle"
          /\ run.event \in Ids /\ UNCHANGED <<kind, pane, plan, phase>>
      BY <2>1, WithdrawIs
    <3>2. log'[run.event].type = log[run.event].type
      BY <3>1, EventsKeep
    <3>3. run'.aborted = run.aborted
      BY <2>1, TypeFacts DEF Withdraw, RunType
    <3>4. ~run'.degraded
      BY <3>1 DEF RunFacts
    <3>5. run'.aborted /\ pane' = "open" => phase' = "stopping"
      BY <3>1, <3>3 DEF RunFacts
    <3>6. plan'[run'.plan].to \in ToldTypes => log'[run'.event].type = plan'[run'.plan].to
      BY <3>1, <3>2 DEF RunFacts
    <3> QED
      BY <3>1, <3>4, <3>5, <3>6, RunFactsOver
  <2>2. ASSUME NEW stalled \in BOOLEAN, NEW expired \in BOOLEAN, GiveUp(stalled, expired)
        PROVE  RunFacts'
    <3>1. /\ run' = [run EXCEPT !.pc = "verdict"] /\ run.pc \in {"mark", "settle"}
          /\ UNCHANGED <<kind, pane, phase, log>>
      BY <2>2 DEF GiveUp, Retryable, Still
    <3>2. /\ run'.pc = "verdict" /\ run'.plan = run.plan /\ run'.out = run.out /\ run'.event = run.event
          /\ run'.degraded = run.degraded /\ run'.aborted = run.aborted
      BY <3>1, TypeFacts DEF RunType
    <3>3. plan'[run.plan].to = plan[run.plan].to
      <4> DEFINE row == Retried(plan[run.plan], RetryError(run), IsExempt(run, expired), stalled, expired)
      <4>1. plan[run.plan].st \in Unfinished /\ plan' = [plan EXCEPT ![run.plan] = row]
        BY <2>2 DEF GiveUp
      <4>2. row.to = plan[run.plan].to
        BY <4>1, RetryRow
      <4> HIDE DEF row
      <4> QED
        BY <1>0, <4>1, <4>2, TypeFacts
    <3>4. /\ ~run'.degraded /\ (run'.aborted /\ pane' = "open" => phase' = "stopping")
          /\ (run'.out = "cancelled" => pane' = "closed")
      BY <3>1, <3>2 DEF RunFacts
    <3>5. run'.out = "event" /\ plan'[run'.plan].to \in ToldTypes
          => log'[run'.event].type = plan'[run'.plan].to
      BY <3>1, <3>2, <3>3 DEF RunFacts
    <3> QED
      BY <3>2, <3>4, <3>5, RunFactsOver
  <2>3. CASE Salvage
    <3>1. /\ run'.pc = "salvaged" /\ run'.plan = run.plan /\ run'.out = run.out
          /\ ToSalvage /\ run.pc \in {"salvage", "settle"} /\ run.out # "event"
          /\ run' = [run EXCEPT !.pc = "salvaged"] /\ UNCHANGED <<kind, pane, plan, phase>>
      BY <2>3, SalvageIs
    <3>2. run'.degraded = run.degraded /\ run'.aborted = run.aborted
      BY <3>1, TypeFacts DEF RunType
    <3>3. pane = "closed"
      BY <3>1 DEF ToSalvage, Still, RunFacts
    <3>4. ~run'.degraded
      BY <3>1, <3>2 DEF RunFacts
    <3> QED
      BY <3>1, <3>3, <3>4, RunFactsOver
  <2>4. ASSUME NEW stalled \in BOOLEAN, NEW expired \in BOOLEAN, PutBack(stalled, expired)
        PROVE  RunFacts'
    BY <1>c, <2>4 DEF PutBack
  <2> QED
    BY <1>8, <1>c, <2>1, <2>2, <2>3, <2>4
       DEF Settling, Complete, MarkTooLate, AppendVerdict, SalvageDone, CancelMissing
<1>9. CASE Draining /\ ~AppendChanged
  <2>1. KeepsRows(plan') /\ UNCHANGED <<kind, pane, run, phase>>
    BY <1>0, <1>9, ResetIs, TypeFacts DEF Draining, DrainBegins, DrainEnds, DrainVisits, Backfill
  <2>2. run'.aborted /\ pane' = "open" => phase' = "stopping"
    BY <2>1 DEF RunFacts
  <2> QED
    BY <1>9, <2>1, <2>2, RunFactsBeside
<1>10. CASE Daemon /\ ~AppendChanged
  <2>1. CASE Dies
    <3>1. run' = NoRun
      BY <2>1 DEF Dies
    <3>2. NoRun.pc = "none" /\ ~NoRun.degraded /\ ~NoRun.aborted /\ NoRun.out = "none"
      BY DEF NoRun
    <3> HIDE DEF NoRun
    <3> QED
      BY <3>1, <3>2, RunFactsOver
  <2>2. CASE Stop
    <3>1. /\ run' = run \/ run' = [run EXCEPT !.aborted = TRUE]
          /\ UNCHANGED <<kind, pane, plan>> /\ phase' = "stopping"
      BY <2>2 DEF Stop
    <3> QED
      BY <1>0, <1>10, <3>1, RunFactsBeside
  <2>3. CASE Starts
    <3>1. KeepsRows(plan') /\ UNCHANGED <<kind, pane, run>> /\ phase = "down"
      BY <2>3, ResetIs, TypeFacts DEF Starts
    <3>2. run'.aborted => pane' # "open"
      BY <3>1 DEF RunFacts
    <3> QED
      BY <1>10, <3>1, <3>2, RunFactsBeside
  <2> QED
    BY <1>10, <2>1, <2>2, <2>3 DEF Daemon
<1>11. ASSUME NEW p \in Plans, TimerFires(p), ~AppendChanged PROVE RunFacts'
  BY <1>b, <1>11 DEF TimerFires
<1>12. CASE UNCHANGED vars
  <2>1. CASE AppendChanged
    BY <2>1, ChangedFacts
  <2> QED
    BY <1>12, <1>b, <2>1 DEF vars
<1> QED
  BY <1>1, <1>2, <1>3, <1>4, <1>5, <1>6, <1>7, <1>8, <1>9, <1>10, <1>11, <1>12 DEF Next, Runner, Telling

\* Herdr's steps open rows and supersede open ones.
LEMMA HerdrMoves ==
  ASSUME Typed, Herdr PROVE RowsMove
<1>1. ASSUME NEW p \in Plans, NEW to \in Statuses, NEW keyed \in EventIds, StatusEvent(p, to, keyed)
      PROVE  RowsMove
  <2>1. live \in Statuses /\ keyed \in BOOLEAN
    BY <1>1, TypeFacts, PlansAssumption DEF StatusEvent
  <2>2. NewRow(live, to, keyed, NoHist) \in Row /\ NewRow(live, to, keyed, NoHist).st = "pending"
    BY <2>1, NewRowTyped, NoHistTyped
  <2> QED
    BY <1>1, <2>2, InsertedMoves DEF StatusEvent
<1>2. ASSUME NEW p \in Plans, RefreshPlan(p) PROVE RowsMove
  <2>1. owed.from \in Statuses /\ owed.to \in Statuses /\ owed.snap \in Hist
    BY <1>2, TypeFacts DEF RefreshPlan
  <2>2. /\ NewRow(owed.from, owed.to, FALSE, owed.snap) \in Row
        /\ NewRow(owed.from, owed.to, FALSE, owed.snap).st = "pending"
    BY <2>1, NewRowTyped
  <2> QED
    BY <1>2, <2>2, InsertedMoves DEF RefreshPlan
<1>3. CASE plan' = plan
  BY <1>3 DEF RowsMove
<1> QED
  BY <1>1, <1>2, <1>3 DEF Herdr, RefreshStatus, CloseBegins, CloseRetires, LateCompletion

\* The transition of a row, and how it ended, are kept by every step.
LEMMA RowsKeep ==
  ASSUME Typed, [Next]_vars PROVE KeepsRows(plan')
<1>0. KeepsRows(plan) /\ run.plan \in Plans /\ log \in Seq(Event) /\ TypeOK
  BY TypeFacts
<1>1. CASE plan' = plan
  BY <1>0, <1>1
<1>2. CASE Settling
  <2>1. ASSUME NEW stalled \in BOOLEAN, NEW expired \in BOOLEAN,
               PutBack(stalled, expired) \/ GiveUp(stalled, expired)
        PROVE  KeepsRows(plan')
    <3> DEFINE row == Retried(plan[run.plan], RetryError(run), IsExempt(run, expired), stalled, expired)
    <3>1. plan[run.plan].st \in Unfinished /\ plan' = [plan EXCEPT ![run.plan] = row]
      BY <2>1 DEF PutBack, GiveUp
    <3>2. KeepsRows([plan EXCEPT ![run.plan] = row])
      BY <3>1, RetryRow
    <3> HIDE DEF row
    <3> QED
      BY <3>1, <3>2
  <2>2. ASSUME NEW st \in Settled, plan' = RowSettled(run.plan, st) PROVE KeepsRows(plan')
    BY <1>0, <2>2, RowSettledIs
  <2>3. CASE Complete \/ SalvageDone \/ CancelMissing
    BY <2>2, <2>3 DEF Complete, SalvageDone, CancelMissing, Settled
  <2> QED
    BY <1>1, <1>2, <2>1, <2>3 DEF Settling, Withdraw, MarkTooLate, AppendVerdict, Salvage
<1>3. CASE Taking
  <2>1. PICK t : SkipTask(t) \/ StartOrphan(t) \/ StartUnread(t) \/ StartRun(t)
    BY <1>3 DEF Taking
  <2>2. CASE StartRun(t)
    <3>1. t.plan \in Plans /\ plan[t.plan].st = "pending" /\ plan' = Running(t.plan)
      BY <2>2, TaskTaken DEF StartRun
    <3> QED
      BY <1>0, <3>1, RunningIs
  <2> QED
    BY <1>1, <2>1, <2>2 DEF SkipTask, StartOrphan, StartUnread
<1>4. CASE DrainBegins \/ Starts
  BY <1>4, ResetIs, TypeFacts DEF DrainBegins, Starts
<1>5. CASE Herdr
  BY <1>5, HerdrKeepsRows
<1>6. CASE Waiting
  BY <1>1, <1>6, WaitsEnd, TypeFacts DEF WaitOutcome
<1>7. CASE Telling \/ Agent \/ DrainEnds \/ Stop \/ Dies \/ UNCHANGED vars
  BY <1>1, <1>7 DEF Telling, AppendRefused, AppendChanged, AppendTerminal, Agent, AgentWrites, Give,
                    DrainEnds, Stop, Dies, vars
<1>8. ASSUME NEW p \in Plans, DrainVisits(p) \/ Backfill(p) \/ TimerFires(p) PROVE KeepsRows(plan')
  BY <1>1, <1>8 DEF DrainVisits, Backfill, TimerFires
<1> QED
  BY <1>2, <1>3, <1>4, <1>5, <1>6, <1>7, <1>8 DEF Next, Runner, Draining, Daemon

LEMMA KindKept ==
  ASSUME Typed, [Next]_vars PROVE kind' = kind
<1>1. CASE Waiting
  BY <1>1, WaitsEnd, TypeFacts DEF WaitOutcome
<1>2. CASE Taking \/ Telling \/ Settling
  BY <1>2 DEF Taking, SkipTask, StartOrphan, StartUnread, StartRun, Telling, AppendRefused,
              AppendChanged, AppendTerminal, Settling, Complete, Withdraw, MarkTooLate, AppendVerdict,
              PutBack, GiveUp, Salvage, SalvageDone, CancelMissing
<1>3. CASE Draining \/ Daemon \/ Agent
  BY <1>3 DEF Draining, DrainBegins, DrainEnds, DrainVisits, Backfill, Daemon, Stop, Dies, Starts,
              Agent, AgentWrites, Give
<1>4. CASE Herdr \/ (\E p \in Plans : TimerFires(p)) \/ UNCHANGED vars
  BY <1>4 DEF Herdr, StatusEvent, RefreshStatus, RefreshPlan, CloseBegins, CloseRetires, LateCompletion,
              TimerFires, vars
<1> QED
  BY <1>1, <1>2, <1>3, <1>4 DEF Next, Runner

\* What completes a row.
LEMMA CompletesIs ==
  ASSUME Typed, [Next]_vars, NEW q \in Plans, plan'[q].st = "completed", plan[q].st # "completed"
  PROVE  (Complete \/ SalvageDone) /\ q = run.plan
<1>0. run.plan \in Plans
  BY TypeFacts
<1>1. plan' # plan
  OBVIOUS
<1>2. CASE Settling
  <2>1. ASSUME NEW stalled \in BOOLEAN, NEW expired \in BOOLEAN,
               PutBack(stalled, expired) \/ GiveUp(stalled, expired)
        PROVE  FALSE
    <3> DEFINE row == Retried(plan[run.plan], RetryError(run), IsExempt(run, expired), stalled, expired)
    <3>1. plan[run.plan].st \in Unfinished /\ plan' = [plan EXCEPT ![run.plan] = row]
      BY <2>1 DEF PutBack, GiveUp
    <3>2. row.st # "completed"
      BY <3>1, RetryRow
    <3> HIDE DEF row
    <3> QED
      BY <1>0, <3>1, <3>2, TypeFacts
  <2>2. CASE Complete \/ SalvageDone
    <3>1. plan' = RowSettled(run.plan, "completed")
      BY <2>2 DEF Complete, SalvageDone
    <3>2. q = run.plan
      BY <3>1, SettlesRow
    <3> QED
      BY <2>2, <3>2
  <2>3. CASE CancelMissing
    <3>1. plan' = RowSettled(run.plan, "cancelled")
      BY <2>3 DEF CancelMissing
    <3> QED
      BY <3>1, SettlesRow
  <2> QED
    BY <1>1, <1>2, <2>1, <2>2, <2>3 DEF Settling, Withdraw, MarkTooLate, AppendVerdict, Salvage
<1>3. CASE Taking
  <2>1. PICK t : SkipTask(t) \/ StartOrphan(t) \/ StartUnread(t) \/ StartRun(t)
    BY <1>3 DEF Taking
  <2>2. StartRun(t)
    BY <1>1, <2>1 DEF SkipTask, StartOrphan, StartUnread
  <2>3. t.plan \in Plans /\ plan[t.plan].st = "pending" /\ plan' = Running(t.plan)
    BY <2>2, TaskTaken DEF StartRun
  <2> QED
    BY <2>3, RunningIs, TypeFacts
<1>4. CASE DrainBegins \/ Starts
  BY <1>4, ResetIs, TypeFacts DEF DrainBegins, Starts
<1>5. CASE Herdr
  <2>1. RowsMove
    BY <1>5, HerdrMoves
  <2> QED
    BY <2>1 DEF RowsMove
<1>6. CASE Waiting
  BY <1>1, <1>6, WaitsEnd, TypeFacts DEF WaitOutcome
<1>7. CASE Telling \/ Agent \/ DrainEnds \/ Stop \/ Dies \/ UNCHANGED vars
  BY <1>1, <1>7 DEF Telling, AppendRefused, AppendChanged, AppendTerminal, Agent, AgentWrites, Give,
                    DrainEnds, Stop, Dies, vars
<1>8. ASSUME NEW p \in Plans, DrainVisits(p) \/ Backfill(p) \/ TimerFires(p) PROVE FALSE
  BY <1>1, <1>8 DEF DrainVisits, Backfill, TimerFires
<1> QED
  BY <1>2, <1>3, <1>4, <1>5, <1>6, <1>7, <1>8 DEF Next, Runner, Draining, Daemon

LEMMA DoneStep ==
  ASSUME Typed, Done, [Next]_vars PROVE DoneIsTold'
<1> SUFFICES ASSUME NEW p \in Plans, kind' = "pi", pane' = "open", plan'[p].to = "done",
                    plan'[p].st = "completed"
             PROVE  Witnessed'
  BY DEF DoneIsTold, Witnessed
<1>1. pane = "open" /\ kind = "pi" /\ plan[p].st # "none" => plan'[p].to = plan[p].to
  BY RowsKeep, PaneNeverReopens DEF KeepsRows
<1>0. pane = "open" /\ kind = "pi"
  BY PaneNeverReopens, KindKept
<1>2. CASE plan[p].st = "completed"
  <2>1. Witnessed
    BY <1>0, <1>1, <1>2 DEF Done, DoneIsTold, Witnessed
  <2> QED
    BY <2>1, WitnessKept
<1>3. CASE plan[p].st # "completed"
  <2>1. (Complete \/ SalvageDone) /\ p = run.plan
    BY <1>3, CompletesIs
  <2>2. Complete
    BY <1>0, <2>1 DEF SalvageDone, Still, Done, RunFacts
  <2>3. plan[run.plan].to = "done"
    <3>1. run.pc # "none"
      BY <2>2 DEF Complete, Still
    <3>2. plan[run.plan].st # "none"
      BY <3>1, TypeFacts DEF OfPlans
    <3> QED
      BY <1>0, <1>1, <2>1, <3>2
  <2>4. CASE run.out = "event"
    <3>1. run.event \in Ids /\ log[run.event].type = "done" /\ ~log[run.event].degraded
      BY <2>2, <2>3, <2>4, TypeFacts DEF Complete, IsDegraded, Placed, Done, RunFacts, ToldTypes
    <3>2. log[run.event].st # "invalid"
      BY <1>0, <3>1 DEF Done, LogFacts
    <3>3. Witnessed
      BY <3>1, <3>2 DEF Witnessed, ToldIds, ToldTypes
    <3> QED
      BY <3>3, WitnessKept
  <2>5. CASE run.out = "nothing"
    <3>1. Witnessed
      BY <1>0, <2>2, <2>3, <2>5 DEF Complete, Still, Done, RunFacts
    <3> QED
      BY <3>1, WitnessKept
  <2> QED
    BY <2>2, <2>4, <2>5 DEF Complete
<1> QED
  BY <1>2, <1>3

\* A pi turn whose plan counts as told is told: every way to complete a plan whose
\* turn ended, by the event of the run, a repetition found before it, or a retry,
\* leaves an event that is no placeholder, or the replay of the late answer.
THEOREM DoneIsToldAlways == Spec => []DoneIsTold
<1>1. Init => Typed /\ Done
  <2> SUFFICES ASSUME Init PROVE Typed /\ Done
    OBVIOUS
  <2>1. Typed
    BY TypedInit
  <2>2. Ids = {} /\ Changes = {} /\ \A p \in Plans : plan[p].st = "none"
    BY DEF Init, Ids, Changes
  <2>3. /\ run.pc = "none" /\ ~run.degraded /\ ~run.aborted /\ run.out = "none"
    BY DEF Init, NoRun
  <2> QED
    BY <2>1, <2>2, <2>3 DEF Done, LogFacts, Headed, RunFacts, Waitings, DoneIsTold
<1>2. Typed /\ Done /\ [Next]_vars => Typed' /\ Done'
  BY TypedStep, LogFactsStep, RunFactsStep, DoneStep DEF Done
<1>3. Done => DoneIsTold
  BY DEF Done
<1> QED
  BY <1>1, <1>2, <1>3, PTL DEF Spec

----------------------------------------------------------------------------
(* The promise of PlanLedger is kept *)

IsVerdict(e) == e.type \in {"failed", "discarded"}
Rescuable == {"pending", "running", "completed", "cancelled"}

\* A verdict says what became of its row, or rescues an answer of a row that has
\* not failed, and no plan has two.
Fits(e, rows) ==
  /\ e.by \in Plans /\ e.obs = 0
  /\ e.from = rows[e.by].from /\ e.to = rows[e.by].to
  /\ \/ e.why = "row" /\ e.type = rows[e.by].st
     \/ e.why = "salvage" /\ e.type = "failed" /\ rows[e.by].st \in Rescuable
VerdictsFit ==
  /\ \A i \in Ids : IsVerdict(log[i]) => Fits(log[i], plan)
  /\ \A i, j \in Ids : IsVerdict(log[i]) /\ IsVerdict(log[j]) /\ log[i].by = log[j].by => i = j

\* Once the answer of an unfinished plan has been rescued, nothing but the rescue
\* comes back to it.
Rescued(p) == \E i \in Ids : IsVerdict(log[i]) /\ log[i].why = "salvage" /\ log[i].by = p
QuietFor(p) ==
  /\ timer[p] = None
  /\ \A i \in DOMAIN queue : queue[i].plan = p => queue[i].by = "drain"
  /\ run.pc # "none" /\ run.plan = p => run.pc = "salvage"
OnlyRescued(p) == (run.pc = "salvaged" /\ run.plan = p) \/ QuietFor(p)
Rescues ==
  \A p \in Plans : Rescued(p) /\ plan[p].st \in Unfinished => pane = "closed" /\ OnlyRescued(p)

Judges == UnderWay /\ VerdictsFit /\ Rescues

\* A verdict that is appended is the first of its plan.
LEMMA JudgedIs ==
  ASSUME Typed, UnderWay, VerdictsFit, NEW e \in Event, IsVerdict(e), Judged(e)
  PROVE  /\ Fits(e, plan) /\ plan' = plan
         /\ e.why = "salvage" => Salvage /\ e.by = run.plan /\ plan[e.by].st \in {"pending", "running", "cancelled"}
         /\ \/ log' = log
            \/ /\ log' = Append(log, e)
               /\ \A j \in Ids : IsVerdict(log[j]) => log[j].by # e.by
<1>0. run.plan \in Plans /\ Ids = 1..Len(log) /\ \A j \in Ids : log[j] \in Event
  BY TypeFacts DEF Ids
<1>1. CASE AppendVerdict /\ e = Verdict(run.plan, plan[run.plan].st, run.snap, "pending", "row")
           /\ log' \in {log, Logged(log, e)}
  <2>1. /\ plan[run.plan].st \in {"failed", "discarded"} /\ plan' = plan
    BY <1>1, AppendVerdictIs
  <2>2. /\ e.by = run.plan /\ e.type = plan[run.plan].st /\ e.why = "row" /\ e.obs = 0
        /\ e.from = plan[run.plan].from /\ e.to = plan[run.plan].to
    BY <1>1 DEF Verdict
  <2>3. Fits(e, plan)
    BY <1>0, <2>1, <2>2 DEF Fits
  <2>4. ASSUME NEW j \in Ids, IsVerdict(log[j]), log[j].by = e.by PROVE Known(log, e)
    <3>1. Fits(log[j], plan)
      BY <2>4 DEF VerdictsFit
    <3>2. Key(log[j]) = Key(e)
      BY <2>1, <2>2, <2>4, <3>1 DEF Fits, Key, Rescuable
    <3> QED
      BY <3>2 DEF Known, Ids
  <2>5. log' = log \/ (log' = Append(log, e) /\ ~Known(log, e))
    BY <1>1 DEF Logged
  <2> QED
    BY <2>1, <2>2, <2>3, <2>4, <2>5
<1>2. CASE Salvage /\ e = Verdict(run.plan, "failed", SalvageBody(run.plan), "pending", "salvage")
           /\ log' = Logged(log, e)
  <2>1. plan' = plan /\ run.pc \in {"salvage", "settle"}
    BY <1>2, SalvageIs
  <2>2. plan[run.plan].st \in {"pending", "running", "cancelled"}
    BY <2>1 DEF UnderWay
  <2>3. /\ e.by = run.plan /\ e.type = "failed" /\ e.why = "salvage" /\ e.obs = 0
        /\ e.from = plan[run.plan].from /\ e.to = plan[run.plan].to
    BY <1>2 DEF Verdict
  <2>4. Fits(e, plan)
    BY <1>0, <2>2, <2>3 DEF Fits, Rescuable
  <2>5. ASSUME NEW j \in Ids, IsVerdict(log[j]), log[j].by = e.by PROVE Known(log, e)
    <3>1. Fits(log[j], plan)
      BY <2>5 DEF VerdictsFit
    <3>2. Key(log[j]) = Key(e)
      BY <2>2, <2>3, <2>5, <3>1 DEF Fits, Key, IsVerdict
    <3> QED
      BY <3>2 DEF Known, Ids
  <2>6. log' = log \/ (log' = Append(log, e) /\ ~Known(log, e))
    BY <1>2 DEF Logged
  <2> QED
    BY <1>2, <2>1, <2>2, <2>3, <2>4, <2>5, <2>6
<1>3. ASSUME NEW p \in Plans, Backfill(p), log' = Append(log, e),
             e = Verdict(p, plan[p].st, plan[p].stored, "acked", "row")
      PROVE  /\ Fits(e, plan) /\ plan' = plan /\ e.why = "row"
             /\ \A j \in Ids : IsVerdict(log[j]) => log[j].by # e.by
  <2>1. plan' = plan /\ plan[p].st \in {"failed", "discarded"} /\ ~Posted(p, plan[p].st)
    BY <1>3 DEF Backfill, Silent
  <2>2. /\ e.by = p /\ e.type = plan[p].st /\ e.why = "row" /\ e.obs = 0
        /\ e.from = plan[p].from /\ e.to = plan[p].to
    BY <1>3 DEF Verdict
  <2>3. Fits(e, plan)
    BY <2>1, <2>2 DEF Fits
  <2>4. ASSUME NEW j \in Ids, IsVerdict(log[j]), log[j].by = p PROVE FALSE
    <3>1. Fits(log[j], plan)
      BY <2>4 DEF VerdictsFit
    <3>2. log[j].type = plan[p].st
      BY <2>1, <2>4, <3>1 DEF Fits, Rescuable
    <3> QED
      BY <2>1, <2>4, <3>2 DEF Posted
  <2> QED
    BY <2>1, <2>2, <2>3, <2>4
<1>4. CASE \E p \in Plans : /\ Backfill(p) /\ log' = Append(log, e)
                            /\ e = Verdict(p, plan[p].st, plan[p].stored, "acked", "row")
  <2>1. PICK p \in Plans : /\ Backfill(p) /\ log' = Append(log, e)
                           /\ e = Verdict(p, plan[p].st, plan[p].stored, "acked", "row")
    BY <1>4
  <2>2. /\ Fits(e, plan) /\ plan' = plan /\ e.why = "row"
        /\ \A j \in Ids : IsVerdict(log[j]) => log[j].by # e.by
    BY <1>3, <2>1
  <2> QED
    BY <2>1, <2>2
<1> QED
  BY <1>1, <1>2, <1>4 DEF Judged

\* Only an operation that gives up fails or discards a row.
LEMMA GivenUpIs ==
  ASSUME Typed, [Next]_vars, NEW q \in Plans, plan'[q].st \in {"failed", "discarded"},
         plan[q].st \notin {"failed", "discarded"}
  PROVE  /\ q = run.plan /\ run.pc \in {"mark", "settle"} /\ plan[q].st \in Unfinished
         /\ \E stalled, expired \in BOOLEAN : GiveUp(stalled, expired)
<1>0. run.plan \in Plans
  BY TypeFacts
<1>1. plan' # plan
  OBVIOUS
<1>2. CASE Settling
  <2>1. ASSUME NEW stalled \in BOOLEAN, NEW expired \in BOOLEAN, PutBack(stalled, expired) PROVE FALSE
    <3> DEFINE row == Retried(plan[run.plan], RetryError(run), IsExempt(run, expired), stalled, expired)
    <3>1. plan' = [plan EXCEPT ![run.plan] = row] /\ row.st = "pending"
      BY <2>1 DEF PutBack
    <3> HIDE DEF row
    <3> QED
      BY <1>0, <3>1, TypeFacts
  <2>2. ASSUME NEW stalled \in BOOLEAN, NEW expired \in BOOLEAN, GiveUp(stalled, expired)
        PROVE  q = run.plan /\ run.pc \in {"mark", "settle"} /\ plan[q].st \in Unfinished
    <3> DEFINE row == Retried(plan[run.plan], RetryError(run), IsExempt(run, expired), stalled, expired)
    <3>1. plan' = [plan EXCEPT ![run.plan] = row] /\ plan[run.plan].st \in Unfinished
      BY <2>2 DEF GiveUp
    <3>2. run.pc \in {"mark", "settle"}
      BY <2>2 DEF GiveUp, Retryable, Still
    <3> HIDE DEF row
    <3> QED
      BY <1>0, <3>1, <3>2, TypeFacts
  <2>3. ASSUME NEW st \in {"completed", "cancelled"}, plan' = RowSettled(run.plan, st) PROVE FALSE
    BY <2>3, SettlesRow
  <2>4. CASE Complete \/ SalvageDone \/ CancelMissing
    BY <2>3, <2>4 DEF Complete, SalvageDone, CancelMissing
  <2> QED
    BY <1>1, <1>2, <2>1, <2>2, <2>4 DEF Settling, Withdraw, MarkTooLate, AppendVerdict, Salvage
<1>3. CASE Taking
  <2>1. PICK t : SkipTask(t) \/ StartOrphan(t) \/ StartUnread(t) \/ StartRun(t)
    BY <1>3 DEF Taking
  <2>2. StartRun(t)
    BY <1>1, <2>1 DEF SkipTask, StartOrphan, StartUnread
  <2>3. t.plan \in Plans /\ plan[t.plan].st = "pending" /\ plan' = Running(t.plan)
    BY <2>2, TaskTaken DEF StartRun
  <2> QED
    BY <2>3, RunningIs, TypeFacts
<1>4. CASE DrainBegins \/ Starts
  BY <1>4, ResetIs, TypeFacts DEF DrainBegins, Starts
<1>5. CASE Herdr
  <2>1. RowsMove
    BY <1>5, HerdrMoves
  <2> QED
    BY <2>1 DEF RowsMove
<1>6. CASE Waiting
  BY <1>1, <1>6, WaitsEnd, TypeFacts DEF WaitOutcome
<1>7. CASE Telling \/ Agent \/ DrainEnds \/ Stop \/ Dies \/ UNCHANGED vars
  BY <1>1, <1>7 DEF Telling, AppendRefused, AppendChanged, AppendTerminal, Agent, AgentWrites, Give,
                    DrainEnds, Stop, Dies, vars
<1>8. ASSUME NEW p \in Plans, DrainVisits(p) \/ Backfill(p) \/ TimerFires(p) PROVE FALSE
  BY <1>1, <1>8 DEF DrainVisits, Backfill, TimerFires
<1> QED
  BY <1>2, <1>3, <1>4, <1>5, <1>6, <1>7, <1>8 DEF Next, Runner, Draining, Daemon

LEMMA VerdictsFitStep ==
  ASSUME Typed, Judges, [Next]_vars PROVE VerdictsFit'
<1>0. /\ Typed' /\ KeepsRows(plan') /\ Ids = 1..Len(log) /\ \A j \in Ids : log[j] \in Event
      /\ UnderWay /\ VerdictsFit /\ Rescues
  BY TypedStep, RowsKeep, TypeFacts DEF Ids, Judges
\* A row keeps to what its verdict said of it.
<1>1. ASSUME NEW i \in Ids, IsVerdict(log[i]) PROVE Fits(log[i], plan')
  <2>1. Fits(log[i], plan) /\ log[i].by \in Plans
    BY <1>0, <1>1 DEF VerdictsFit, Fits
  <2> DEFINE p == log[i].by
  <2>2. plan[p].st # "none" /\ (log[i].why = "row" => plan[p].st \in Settled)
    BY <1>1, <2>1 DEF Fits, Rescuable, Settled, IsVerdict
  <2>3. /\ plan'[p].from = plan[p].from /\ plan'[p].to = plan[p].to /\ plan'[p].st # "none"
        /\ plan[p].st \in Settled => plan'[p].st = plan[p].st
    BY <1>0, <2>1, <2>2 DEF KeepsRows
  <2>4. CASE log[i].why = "row" /\ log[i].type = plan[p].st
    BY <2>1, <2>2, <2>3, <2>4 DEF Fits
  <2>5. CASE log[i].why = "salvage" /\ log[i].type = "failed" /\ plan[p].st \in Rescuable
    <3>1. plan'[p].st \notin {"failed", "discarded"}
      <4>1. SUFFICES ASSUME plan'[p].st \in {"failed", "discarded"} PROVE FALSE
        OBVIOUS
      <4>2. p = run.plan /\ run.pc \in {"mark", "settle"} /\ plan[p].st \in Unfinished
        BY <2>1, <2>5, <4>1, GivenUpIs DEF Rescuable
      <4>3. OnlyRescued(p)
        BY <1>0, <1>1, <2>1, <2>5, <4>2 DEF Rescues, Rescued
      <4> QED
        BY <4>2, <4>3 DEF OnlyRescued, QuietFor
    <3>2. plan'[p] \in Row
      BY <1>0, <2>1 DEF KeepsRows
    <3>3. plan'[p].st \in Rescuable
      BY <2>3, <3>1, <3>2 DEF Row, Rescuable, Unfinished, Settled
    <3> QED
      BY <2>1, <2>3, <2>5, <3>3 DEF Fits
  <2> QED
    BY <2>1, <2>4, <2>5 DEF Fits
<1>2. CASE Restated(log')
  <2>1. /\ Ids' = Ids
        /\ \A i \in Ids : /\ log'[i].type = log[i].type /\ log'[i].from = log[i].from
                          /\ log'[i].to = log[i].to /\ log'[i].obs = log[i].obs
                          /\ log'[i].by = log[i].by /\ log'[i].why = log[i].why
    BY <1>2 DEF Restated, Ids
  <2>2. \A i \in Ids : /\ IsVerdict(log'[i]) <=> IsVerdict(log[i])
                       /\ Fits(log[i], plan') => Fits(log'[i], plan')
    BY <2>1 DEF IsVerdict, Fits
  <2>3. \A i \in Ids' : IsVerdict(log'[i]) => Fits(log'[i], plan')
    BY <1>1, <2>1, <2>2
  <2>4. \A i, j \in Ids' : IsVerdict(log'[i]) /\ IsVerdict(log'[j]) /\ log'[i].by = log'[j].by => i = j
    BY <1>0, <2>1, <2>2 DEF VerdictsFit
  <2> QED
    BY <2>3, <2>4 DEF VerdictsFit
<1>3. ASSUME NEW e \in Event, log' \in {log, Append(log, e), Logged(log, e)},
             log' = log \/ ~IsVerdict(e)
                        \/ (Fits(e, plan') /\ \A j \in Ids : IsVerdict(log[j]) => log[j].by # e.by)
      PROVE  VerdictsFit'
  <2>1. /\ Ids \subseteq Ids' /\ \A i \in Ids : log'[i] = log[i]
        /\ \A i \in Ids' \ Ids : i = Len(log) + 1 /\ log'[i] = e
    BY <1>3, Appended
  <2>2. log' = log => Ids' = Ids
    BY DEF Ids
  <2>3. \A i \in Ids' : IsVerdict(log'[i]) => Fits(log'[i], plan')
    BY <1>1, <1>3, <2>1, <2>2
  <2>4. \A i, j \in Ids' : IsVerdict(log'[i]) /\ IsVerdict(log'[j]) /\ log'[i].by = log'[j].by => i = j
    <3> SUFFICES ASSUME NEW i \in Ids', NEW j \in Ids', IsVerdict(log'[i]), IsVerdict(log'[j]),
                        log'[i].by = log'[j].by
                 PROVE  i = j
      OBVIOUS
    <3>1. CASE i \in Ids /\ j \in Ids
      BY <1>0, <2>1, <3>1 DEF VerdictsFit
    <3>2. CASE i \notin Ids /\ j \notin Ids
      BY <2>1, <3>2
    <3>3. CASE i \in Ids /\ j \notin Ids
      BY <1>3, <2>1, <2>2, <3>3
    <3>4. CASE i \notin Ids /\ j \in Ids
      BY <1>3, <2>1, <2>2, <3>4
    <3> QED
      BY <3>1, <3>2, <3>3, <3>4
  <2> QED
    BY <2>3, <2>4 DEF VerdictsFit
<1>4. ASSUME NEW e \in Event, log' \in {log, Append(log, e), Logged(log, e)}, Said(e)
      PROVE  VerdictsFit'
  <2>1. CASE IsVerdict(e) /\ Judged(e)
    <3>1. /\ Fits(e, plan) /\ plan' = plan
          /\ log' = log \/ \A j \in Ids : IsVerdict(log[j]) => log[j].by # e.by
      BY <1>0, <2>1, JudgedIs
    <3> QED
      BY <1>3, <1>4, <3>1
  <2>2. CASE ~IsVerdict(e)
    BY <1>3, <1>4, <2>2
  <2>3. IsVerdict(e) => Judged(e)
    <3>1. AppendTerminal => plan[run.plan].to \in ToldTypes
      BY AppendTerminalIs
    <3> QED
      BY <1>4, <3>1 DEF Said, IsVerdict, Transition, ToldTypes
  <2> QED
    BY <2>1, <2>2, <2>3
<1> QED
  BY <1>2, <1>4, LogStep DEF LogMoves

LEMMA PaneStaysClosed ==
  ASSUME Typed, [Next]_vars PROVE pane = "closed" => pane' = "closed"
<1>1. CASE Runner
  <2>1. CASE Waiting
    BY <2>1, WaitsEnd, TypeFacts DEF WaitOutcome
  <2>2. CASE Taking \/ Telling \/ Settling
    BY <2>2 DEF Taking, SkipTask, StartOrphan, StartUnread, StartRun, Telling, AppendRefused,
                AppendChanged, AppendTerminal, Settling, Complete, Withdraw, MarkTooLate, AppendVerdict,
                PutBack, GiveUp, Salvage, SalvageDone, CancelMissing
  <2> QED
    BY <1>1, <2>1, <2>2 DEF Runner
<1>2. CASE Draining \/ Daemon \/ Agent
  BY <1>2 DEF Draining, DrainBegins, DrainEnds, DrainVisits, Backfill, Daemon, Stop, Dies, Starts,
              Agent, AgentWrites, Give
<1>3. CASE Herdr \/ (\E p \in Plans : TimerFires(p)) \/ UNCHANGED vars
  BY <1>3 DEF Herdr, StatusEvent, RefreshStatus, RefreshPlan, CloseBegins, CloseRetires, LateCompletion,
              TimerFires, vars
<1> QED
  BY <1>1, <1>2, <1>3 DEF Next

\* What waits of it is taken up by the drain alone, which finds no agent.
LEMMA QuietTaking ==
  ASSUME Typed, NEW p \in Plans, plan[p].st \in Unfinished, pane = "closed", QuietFor(p), Taking
  PROVE  QuietFor(p)'
<1>1. PICK t : SkipTask(t) \/ StartOrphan(t) \/ StartUnread(t) \/ StartRun(t)
  BY DEF Taking
<1>2. Next1(t)
  BY <1>1 DEF SkipTask, StartOrphan, StartUnread, StartRun
<1>3. /\ t \in Task /\ t.plan \in Plans /\ live = "gone" /\ 1 \in DOMAIN queue /\ queue[1] = t
      /\ \A i \in DOMAIN queue' : i + 1 \in DOMAIN queue /\ queue'[i] = queue[i + 1]
  BY <1>2, TaskTaken, TypeFacts
<1>4. t.plan = p => t.by = "drain"
  BY <1>3 DEF QuietFor
<1>5. \A i \in DOMAIN queue' : queue'[i].plan = p => queue'[i].by = "drain"
  BY <1>3 DEF QuietFor
<1>6. timer'[p] = None
  BY <1>1, <1>3, TypeFacts DEF SkipTask, StartOrphan, StartUnread, StartRun, QuietFor, Cleared
<1>7. CASE SkipTask(t)
  BY <1>5, <1>6, <1>7 DEF SkipTask, QuietFor
<1>8. CASE StartOrphan(t)
  <2>1. Opened(t) \in RunType /\ run' = [Opened(t) EXCEPT !.pc = "salvage"]
    BY <1>3, <1>8, OpenedTyped, TypeFacts DEF StartOrphan
  <2>2. run'.pc = "salvage"
    BY <2>1 DEF RunType
  <2> QED
    BY <1>5, <1>6, <2>2 DEF QuietFor
<1>9. CASE StartUnread(t) \/ StartRun(t)
  <2>1. t.by # "drain"
    BY <1>3, <1>9 DEF StartUnread, StartRun
  <2>2. run'.plan = t.plan
    <3>1. CASE StartRun(t)
      BY <3>1, StartedRun
    <3>2. CASE StartUnread(t)
      <4>1. Opened(t) \in RunType /\ Opened(t).plan = t.plan
        BY <1>3, OpenedTyped, TypeFacts
      <4> QED
        BY <3>2, <4>1 DEF StartUnread, RunType
    <3> QED
      BY <1>9, <3>1, <3>2
  <2> QED
    BY <1>4, <1>5, <1>6, <2>1, <2>2 DEF QuietFor
<1> QED
  BY <1>1, <1>7, <1>8, <1>9

\* An operation that ends leaves nothing of another plan.
LEMMA QuietEnds ==
  ASSUME Typed, NEW p \in Plans, QuietFor(p), Finish, queue' = queue,
         timer'[p] = timer[p] \/ timer'[p] = None
  PROVE  QuietFor(p)'
BY FinishIs DEF QuietFor

LEMMA QuietGoesOn ==
  ASSUME NEW p \in Plans, QuietFor(p), queue' = queue, timer'[p] \in {None, timer[p]},
         run.pc # "none", run'.plan = run.plan, run.plan # p
  PROVE  QuietFor(p)'
BY DEF QuietFor

LEMMA QuietBeside ==
  ASSUME NEW p \in Plans, QuietFor(p), timer'[p] \in {None, timer[p]},
         run'.pc = run.pc, run'.plan = run.plan,
         \A i \in DOMAIN queue' : \/ i \in DOMAIN queue /\ queue'[i] = queue[i]
                                  \/ queue'[i].plan = p => queue'[i].by = "drain"
  PROVE  QuietFor(p)'
BY DEF QuietFor

\* What an operation that runs for another plan does, and the steps beside it.
LEMMA QuietStep ==
  ASSUME Typed, NEW p \in Plans, plan[p].st \in Unfinished, pane = "closed", QuietFor(p), [Next]_vars,
         ~(Salvage /\ run.plan = p)
  PROVE  QuietFor(p)'
<1>0. /\ run.plan \in Plans /\ p = run.plan /\ run.pc # "none" => run.pc = "salvage"
      /\ timer[p] = None /\ plan[p].st # "none" /\ timer \in [Plans -> Hist \cup {None}]
  BY TypeFacts, StatusSets DEF QuietFor
<1>a. run' = run \/ run' = [run EXCEPT !.aborted = TRUE] => run'.pc = run.pc /\ run'.plan = run.plan
  BY TypeFacts DEF RunType
<1>b. Cleared(run.plan)[p] = None
  BY <1>0 DEF Cleared
<1>1. CASE Agent
  BY <1>1, QuietBeside DEF Agent, AgentWrites, Give
<1>2. CASE Herdr
  <2>1. ASSUME NEW q \in Plans, NEW h \in Hist, plan[q].st = "none", queue' = Enqueued(q, h),
               run' = run, timer' = timer
        PROVE  QuietFor(p)'
    <3> DEFINE t == [by |-> "exec", plan |-> q, snap |-> h, allow |-> TRUE]
    <3>1. t \in Task /\ queue' = Append(queue, t) /\ t.plan # p
      BY <1>0, <2>1 DEF Task, Enqueued
    <3> HIDE DEF t
    <3>2. \A i \in DOMAIN queue' : (i \in DOMAIN queue /\ queue'[i] = queue[i]) \/ queue'[i] = t
      BY <3>1, QueueAppend, TypeFacts
    <3> QED
      BY <2>1, <3>1, <3>2, QuietBeside
  <2>2. ASSUME NEW q \in Plans, NEW to \in Statuses, NEW keyed \in EventIds, StatusEvent(q, to, keyed)
        PROVE  QuietFor(p)'
    BY <2>1, <2>2, TypeFacts DEF StatusEvent, IsNext
  <2>3. ASSUME NEW q \in Plans, RefreshPlan(q) PROVE QuietFor(p)'
    BY <2>1, <2>3, TypeFacts DEF RefreshPlan, IsNext
  <2>4. CASE CloseBegins
    BY <1>a, <2>4, QuietBeside DEF CloseBegins
  <2>5. ASSUME NEW to \in Statuses, RefreshStatus(to) PROVE QuietFor(p)'
    BY <2>5, QuietBeside DEF RefreshStatus
  <2>6. CASE CloseRetires \/ LateCompletion
    BY <2>6, QuietBeside DEF CloseRetires, LateCompletion
  <2> QED
    BY <1>2, <2>2, <2>3, <2>4, <2>5, <2>6 DEF Herdr
<1>3. CASE Taking
  BY <1>3, QuietTaking
<1>4. CASE Waiting
  <2>1. WaitOutcome
    BY <1>4, WaitsEnd, TypeFacts
  <2>2. /\ queue' = queue /\ timer' = timer /\ run'.plan = run.plan /\ run.pc \in Waitings
    BY <2>1 DEF WaitOutcome
  <2>3. run.plan # p
    BY <1>0, <2>2 DEF Waitings
  <2> QED
    BY <2>2, <2>3, QuietGoesOn DEF Waitings
<1>5. CASE Telling
  <2>1. /\ queue' = queue /\ timer' = timer /\ run.pc \in {"append", "tell"}
    BY <1>5 DEF Telling, AppendRefused, AppendChanged, AppendTerminal, Still
  <2>2. run'.plan = run.plan
    BY <1>5, TellingRuns
  <2> QED
    BY <1>0, <2>1, <2>2, QuietGoesOn
<1>6. CASE Settling
  <2>1. CASE Complete \/ MarkTooLate \/ SalvageDone \/ CancelMissing
    BY <1>b, <2>1, QuietEnds DEF Complete, MarkTooLate, SalvageDone, CancelMissing
  <2>2. CASE Withdraw
    BY <1>0, <1>b, <2>2, WithdrawIs, QuietGoesOn
  <2>3. CASE AppendVerdict
    BY <2>3, AppendVerdictIs, QuietEnds
  <2>4. ASSUME NEW stalled \in BOOLEAN, NEW expired \in BOOLEAN, PutBack(stalled, expired)
        PROVE  QuietFor(p)'
    <3>1. /\ run.pc \in {"mark", "settle"} /\ Finish /\ queue' = queue
          /\ timer' = IF RetryError(run) = "waiting" THEN [timer EXCEPT ![run.plan] = run.snap]
                      ELSE IF run.out = "error" THEN Cleared(run.plan) ELSE timer
      BY <2>4 DEF PutBack, Retryable, Still
    <3>2. run.plan # p
      BY <1>0, <3>1
    <3>3. timer'[p] = timer[p]
      BY <1>0, <3>1, <3>2 DEF Cleared
    <3> QED
      BY <3>1, <3>3, QuietEnds
  <2>5. ASSUME NEW stalled \in BOOLEAN, NEW expired \in BOOLEAN, GiveUp(stalled, expired)
        PROVE  QuietFor(p)'
    <3>1. /\ run.pc \in {"mark", "settle"} /\ queue' = queue /\ timer' = Cleared(run.plan)
          /\ run' = [run EXCEPT !.pc = "verdict"]
      BY <2>5 DEF GiveUp, Retryable, Still
    <3>2. run'.plan = run.plan
      BY <3>1, TypeFacts DEF RunType
    <3> QED
      BY <1>0, <1>b, <3>1, <3>2, QuietGoesOn
  <2>6. CASE Salvage
    BY <1>0, <2>6, SalvageIs, QuietGoesOn
  <2> QED
    BY <1>6, <2>1, <2>2, <2>3, <2>4, <2>5, <2>6 DEF Settling
<1>7. CASE Draining
  <2>1. ASSUME NEW q \in Plans, DrainVisits(q) PROVE QuietFor(p)'
    <3> DEFINE t == [by |-> "drain", plan |-> q, snap |-> NoHist, allow |-> drain.allow]
    <3>1. t \in Task /\ queue' = Append(queue, t) /\ t.by = "drain" /\ run' = run /\ timer' = timer
      BY <2>1, NoHistTyped, TypeFacts DEF DrainVisits, Task
    <3> HIDE DEF t
    <3>2. \A i \in DOMAIN queue' : (i \in DOMAIN queue /\ queue'[i] = queue[i]) \/ queue'[i] = t
      BY <3>1, QueueAppend, TypeFacts
    <3> QED
      BY <3>1, <3>2, QuietBeside
  <2>2. CASE DrainBegins \/ DrainEnds \/ \E q \in Plans : Backfill(q)
    BY <2>2, QuietBeside DEF DrainBegins, DrainEnds, Backfill
  <2> QED
    BY <1>7, <2>1, <2>2 DEF Draining
<1>8. CASE Daemon
  <2>1. CASE Stop
    BY <1>a, <2>1, QuietBeside DEF Stop
  <2>2. CASE Dies
    BY <2>2 DEF Dies, QuietFor, NoRun
  <2>3. CASE Starts
    BY <2>3, QuietBeside DEF Starts
  <2> QED
    BY <1>8, <2>1, <2>2, <2>3 DEF Daemon
<1>9. ASSUME NEW q \in Plans, TimerFires(q) PROVE QuietFor(p)'
  <2> DEFINE t == [by |-> "retry", plan |-> q, snap |-> timer[q], allow |-> TRUE]
  <2>1. q # p /\ timer[q] \in Hist /\ timer'[p] = None /\ run' = run
        /\ queue' \in {queue, Append(queue, t)}
    BY <1>0, <1>9 DEF TimerFires, Cleared
  <2>2. t \in Task /\ t.plan = q
    BY <2>1 DEF Task
  <2> HIDE DEF t
  <2>3. \A i \in DOMAIN queue' : (i \in DOMAIN queue /\ queue'[i] = queue[i]) \/ queue'[i] = t
    BY <2>1, <2>2, QueueAppend, TypeFacts
  <2> QED
    BY <2>1, <2>2, <2>3, QuietBeside
<1>10. CASE UNCHANGED vars
  BY <1>10, QuietBeside DEF vars
<1> QED
  BY <1>1, <1>2, <1>3, <1>4, <1>5, <1>6, <1>7, <1>8, <1>9, <1>10 DEF Next, Runner

\* While the answer is rescued, the operation is the rescue's.
LEMMA SalvagedStep ==
  ASSUME Typed, NEW p \in Plans, run.pc = "salvaged", run.plan = p, [Next]_vars,
         plan'[p].st \in Unfinished
  PROVE  OnlyRescued(p)'
<1>a. run' = run => OnlyRescued(p)'
  BY DEF OnlyRescued
<1>1. CASE Waiting
  BY <1>1, WaitsEnd, TypeFacts DEF WaitOutcome, Waitings
<1>2. CASE Taking
  BY <1>2 DEF Taking, SkipTask, StartOrphan, StartUnread, StartRun, Next1, NoRun
<1>3. CASE Telling
  BY <1>3 DEF Telling, AppendRefused, AppendChanged, AppendTerminal, Still
<1>4. CASE Settling
  <2>1. CASE SalvageDone
    <3>1. plan' = RowSettled(run.plan, "completed")
      BY <2>1 DEF SalvageDone
    <3> QED
      BY <3>1, SettlesRow
  <2> QED
    BY <1>4, <2>1 DEF Settling, Complete, Withdraw, MarkTooLate, AppendVerdict, PutBack, GiveUp,
                      Retryable, Salvage, ToSalvage, CancelMissing, Still
<1>5. CASE Draining \/ Agent
  BY <1>a, <1>5 DEF Draining, DrainBegins, DrainEnds, DrainVisits, Backfill, Agent, AgentWrites, Give
<1>6. CASE Daemon
  <2>1. CASE Dies
    BY <2>1 DEF Dies, OnlyRescued, QuietFor, NoRun
  <2>2. CASE Stop
    BY <1>a, <2>2 DEF Stop, Registered
  <2> QED
    BY <1>a, <1>6, <2>1, <2>2 DEF Daemon, Starts
<1>7. CASE Herdr
  <2>1. CASE CloseBegins
    BY <1>a, <2>1 DEF CloseBegins, Registered
  <2> QED
    BY <1>a, <1>7, <2>1 DEF Herdr, StatusEvent, RefreshStatus, RefreshPlan, CloseRetires, LateCompletion
<1>8. CASE (\E q \in Plans : TimerFires(q)) \/ UNCHANGED vars
  BY <1>a, <1>8 DEF TimerFires, vars
<1> QED
  BY <1>1, <1>2, <1>3, <1>4, <1>5, <1>6, <1>7, <1>8 DEF Next, Runner

LEMMA RescuesStep ==
  ASSUME Typed, Done, Judges, [Next]_vars PROVE Rescues'
<1>0. /\ KeepsRows(plan') /\ Ids = 1..Len(log) /\ \A j \in Ids : log[j] \in Event
      /\ UnderWay /\ VerdictsFit /\ Rescues
  BY RowsKeep, TypeFacts DEF Ids, Judges
<1> SUFFICES ASSUME NEW p \in Plans, Rescued(p)', plan'[p].st \in Unfinished
             PROVE  pane' = "closed" /\ OnlyRescued(p)'
  BY DEF Rescues
<1>1. CASE Rescued(p)
  <2>1. plan[p].st # "none"
    BY <1>0, <1>1 DEF Rescued, VerdictsFit, Fits, Rescuable, IsVerdict
  <2>2. plan[p].st \in Unfinished
    <3>1. plan[p] \in Row
      BY RowTyped, TypeFacts
    <3>2. plan[p].st \notin Settled
      BY <1>0, StatusSets DEF KeepsRows
    <3> QED
      BY <2>1, <3>1, <3>2 DEF Row
  <2>3. pane = "closed" /\ OnlyRescued(p)
    BY <1>0, <1>1, <2>2 DEF Rescues
  <2>4. pane' = "closed"
    BY <2>3, PaneStaysClosed
  <2>5. CASE run.pc = "salvaged" /\ run.plan = p
    BY <2>4, <2>5, SalvagedStep
  <2>6. CASE Salvage /\ run.plan = p
    BY <2>4, <2>6, SalvageIs DEF OnlyRescued
  <2>7. CASE QuietFor(p) /\ ~(Salvage /\ run.plan = p)
    BY <2>2, <2>3, <2>4, <2>7, QuietStep DEF OnlyRescued
  <2> QED
    BY <2>3, <2>5, <2>6, <2>7 DEF OnlyRescued
<1>2. CASE ~Rescued(p)
  <2>1. ~Restated(log')
    <3>1. SUFFICES ASSUME Restated(log') PROVE Rescued(p)
      BY <1>2
    <3> QED
      BY <3>1 DEF Rescued, Restated, Ids, IsVerdict
  <2>2. PICK e \in Event : log' \in {log, Append(log, e), Logged(log, e)} /\ Said(e)
    BY <2>1, LogStep DEF LogMoves
  <2>3. PICK i \in Ids' : IsVerdict(log'[i]) /\ log'[i].why = "salvage" /\ log'[i].by = p
    BY DEF Rescued
  <2>4. i \notin Ids /\ log'[i] = e
    BY <1>2, <2>2, <2>3, Appended DEF Rescued
  <2>5. Judged(e)
    <3>1. AppendTerminal => plan[run.plan].to \in ToldTypes
      BY AppendTerminalIs
    <3> QED
      BY <2>2, <2>3, <2>4, <3>1 DEF Said, IsVerdict, Transition, ToldTypes
  <2>6. Salvage /\ e.by = run.plan
    BY <1>0, <2>3, <2>4, <2>5, JudgedIs
  <2>7. OnlyRescued(p)'
    BY <2>3, <2>4, <2>6, SalvageIs DEF OnlyRescued
  <2>8. pane = "closed"
    BY <2>6 DEF Salvage, ToSalvage, Still, Done, RunFacts
  <2> QED
    BY <2>7, <2>8, PaneStaysClosed
<1> QED
  BY <1>1, <1>2

LEMMA JudgesStep ==
  ASSUME Typed, Done, Judges, [Next]_vars PROVE Judges'
BY UnderWayStep, VerdictsFitStep, RescuesStep DEF Judges

\* What the log says of a plan.
Says(p) ==
  /\ VerdictOf(p) = "none" <=> \A i \in Ids : ~(IsVerdict(log[i]) /\ log[i].by = p)
  /\ \A i \in Ids : IsVerdict(log[i]) /\ log[i].by = p
                    => VerdictOf(p) = IF log[i].why = "salvage" THEN "rescued" ELSE log[i].type

LEMMA VerdictSays ==
  Typed /\ VerdictsFit => \A p \in Plans : Says(p)
<1> SUFFICES ASSUME Typed, VerdictsFit, NEW p \in Plans PROVE Says(p)
  OBVIOUS
<1>1. VerdictIds(p) = {i \in Ids : IsVerdict(log[i]) /\ log[i].by = p}
  BY DEF VerdictIds, IsVerdict
<1>2. CASE VerdictIds(p) = {}
  <2>1. VerdictOf(p) = "none"
    BY <1>2 DEF VerdictOf
  <2> QED
    BY <1>1, <1>2, <2>1 DEF Says
<1>3. ASSUME NEW i \in Ids, IsVerdict(log[i]), log[i].by = p
      PROVE  VerdictOf(p) = (IF log[i].why = "salvage" THEN "rescued" ELSE log[i].type) /\ VerdictOf(p) # "none"
  <2>1. VerdictIds(p) = {i}
    BY <1>1, <1>3 DEF VerdictsFit
  <2>2. Newest({i}) = i
    <3>1. {i} # {} /\ i \in Nat
      BY TypeFacts DEF Ids
    <3> QED
      BY <3>1 DEF Newest
  <2>3. log[i].why \in {"row", "salvage"}
    BY <1>3 DEF VerdictsFit, Fits
  <2>4. CASE log[i].why = "salvage"
    BY <1>3, <2>1, <2>4 DEF VerdictOf
  <2>5. CASE log[i].why = "row"
    <3>1. VerdictOf(p) = log[Newest(VerdictIds(p))].type
      BY <2>1, <2>5 DEF VerdictOf
    <3> QED
      BY <1>3, <2>1, <2>2, <2>5, <3>1 DEF IsVerdict
  <2> QED
    BY <1>3, <2>3, <2>4, <2>5
<1> QED
  BY <1>1, <1>2, <1>3 DEF Says

LedgerRow == [p \in Plans |-> RowOf(p)]
LedgerVerdict == [p \in Plans |-> VerdictOf(p)]

LEMMA LedgerStutters ==
  ASSUME \A p \in Plans : RowOf(p)' = RowOf(p) /\ VerdictOf(p)' = VerdictOf(p)
  PROVE  [Ledger!LedgerNext]_<<LedgerRow, LedgerVerdict>>
BY DEF LedgerRow, LedgerVerdict

LEMMA SameRows ==
  ASSUME plan' = plan PROVE \A p \in Plans : RowOf(p)' = RowOf(p)
BY DEF RowOf

LEMMA SameLog ==
  ASSUME log' = log PROVE \A p \in Plans : VerdictOf(p)' = VerdictOf(p)
BY DEF VerdictOf, VerdictIds, Ids, Newest

\* A plan is opened, and supersedes open ones.
LEMMA LedgerOpens ==
  ASSUME Typed, NEW p \in Plans, IsNext(p), NEW row \in Row, row.st = "pending",
         plan' = Inserted(p, row), log' = log
  PROVE  [Ledger!LedgerNext]_<<LedgerRow, LedgerVerdict>>
<1> DEFINE S == {q \in Plans \ {p} : Superseded(q, p, row.to)}
<1>1. RowOf(p) = "none" /\ \A q \in S : RowOf(q) = "open"
  BY DEF RowOf, IsNext, Superseded, Unfinished
<1>2. ASSUME NEW q \in Plans
      PROVE  RowOf(q)' = IF q = p THEN "open" ELSE IF q \in S THEN "cancelled" ELSE RowOf(q)
  <2>1. RowOf(q)' = IF plan'[q].st \in Unfinished THEN "open" ELSE plan'[q].st
    BY DEF RowOf
  <2>2. CASE q = p
    <3>1. plan'[q].st = "pending"
      BY <2>2, InsertedIs, TypeFacts
    <3> QED
      BY <2>1, <2>2, <3>1, StatusSets
  <2>3. CASE q # p /\ Superseded(q, p, row.to)
    <3>1. plan'[q] = [plan[q] EXCEPT !.st = "cancelled", !.err = "superseded"] /\ plan[q] \in Row
      BY <2>3, RowTyped, TypeFacts DEF Inserted
    <3>2. plan'[q].st = "cancelled"
      BY <3>1 DEF Row
    <3> QED
      BY <2>1, <2>3, <3>2 DEF Unfinished
  <2>4. CASE q # p /\ ~Superseded(q, p, row.to)
    <3>1. plan'[q] = plan[q]
      BY <2>4, InsertedIs, TypeFacts
    <3> QED
      BY <2>1, <2>4, <3>1 DEF RowOf
  <2> QED
    BY <2>2, <2>3, <2>4
<1>3. S \in SUBSET Plans
  OBVIOUS
<1> HIDE DEF S
<1>4. Ledger!Opens(p, S)
  BY <1>1, <1>2, <1>3, SameLog DEF Ledger!Opens
<1> QED
  BY <1>3, <1>4 DEF Ledger!LedgerNext

\* A plan ends.
LEMMA LedgerEnds ==
  ASSUME Typed, NEW p \in Plans, NEW st \in Settled, plan[p].st \in Unfinished,
         plan'[p].st = st, \A q \in Plans : q # p => plan'[q].st = plan[q].st, log' = log,
         VerdictOf(p) = "rescued" => st \in {"completed", "cancelled"}
  PROVE  [Ledger!LedgerNext]_<<LedgerRow, LedgerVerdict>>
<1>1. RowOf(p) = "open"
  BY DEF RowOf
<1>2. \A q \in Plans : RowOf(q)' = IF q = p THEN st ELSE RowOf(q)
  BY StatusSets DEF RowOf
<1>3. Ledger!Ends(p, st)
  BY <1>1, <1>2, SameLog DEF Ledger!Ends
<1> QED
  BY <1>3 DEF Ledger!LedgerNext, Settled

LEMMA VerdictSaysNext ==
  (Typed /\ VerdictsFit)' => (\A p \in Plans : Says(p))'
BY VerdictSays, PTL

\* An append that is no verdict, and a change of the states, say nothing new.
LEMMA VerdictsKept ==
  ASSUME Typed, VerdictsFit, Typed', VerdictsFit',
         \A i \in Ids : /\ i \in Ids' /\ log'[i].type = log[i].type /\ log'[i].by = log[i].by
                        /\ log'[i].why = log[i].why,
         NEW p \in Plans, \A i \in Ids' \ Ids : ~(IsVerdict(log'[i]) /\ log'[i].by = p)
  PROVE  VerdictOf(p)' = VerdictOf(p)
<1>1. Says(p)
  BY VerdictSays
<1>3. Says(p)'
  BY VerdictSaysNext
<1>4. \A i \in Ids : IsVerdict(log'[i]) <=> IsVerdict(log[i])
  BY DEF IsVerdict
<1>5. CASE \A i \in Ids : ~(IsVerdict(log[i]) /\ log[i].by = p)
  BY <1>1, <1>3, <1>4, <1>5 DEF Says
<1>6. CASE \E i \in Ids : IsVerdict(log[i]) /\ log[i].by = p
  <2>1. PICK i \in Ids : IsVerdict(log[i]) /\ log[i].by = p
    BY <1>6
  <2>2. IsVerdict(log'[i]) /\ log'[i].by = p /\ i \in Ids'
    BY <1>4, <2>1
  <2> QED
    BY <1>1, <1>3, <2>1, <2>2 DEF Says
<1> QED
  BY <1>5, <1>6

\* What is written in the log of a plan is its first verdict.
LEMMA LedgerWrites ==
  ASSUME Typed, Judges, Typed', VerdictsFit', NEW e \in Event, IsVerdict(e), Judged(e)
  PROVE  [Ledger!LedgerNext]_<<LedgerRow, LedgerVerdict>>
<1>0. UnderWay /\ VerdictsFit /\ Ids = 1..Len(log) /\ Len(log) \in Nat
  BY TypeFacts DEF Judges, Ids
<1>1. /\ Fits(e, plan) /\ plan' = plan /\ e.by \in Plans
      /\ e.why = "salvage" => plan[e.by].st \in {"pending", "running", "cancelled"}
      /\ \/ log' = log
         \/ log' = Append(log, e) /\ \A j \in Ids : IsVerdict(log[j]) => log[j].by # e.by
  BY <1>0, JudgedIs DEF Fits
<1>2. CASE log' = log
  BY <1>1, <1>2, SameRows, SameLog, LedgerStutters
<1>3. CASE log' = Append(log, e) /\ \A j \in Ids : IsVerdict(log[j]) => log[j].by # e.by
  <2> DEFINE p == e.by
  <2>1. /\ Ids \subseteq Ids' /\ \A i \in Ids : log'[i] = log[i]
        /\ \A i \in Ids' \ Ids : i = Len(log) + 1 /\ log'[i] = e
    BY <1>3, Appended
  <2>2. Len(log) + 1 \in Ids' /\ log'[Len(log) + 1] = e
    <3>1. log \in Seq(Event)
      BY TypeFacts
    <3> QED
      BY <1>3, <3>1 DEF Ids
  <2>3. Says(p) /\ Says(p)'
    BY <1>0, <1>1, VerdictSays, VerdictSaysNext
  <2>4. VerdictOf(p) = "none"
    BY <1>3, <2>3 DEF Says
  <2>5. VerdictOf(p)' = IF e.why = "salvage" THEN "rescued" ELSE e.type
    BY <2>2, <2>3 DEF Says
  <2>6. \A q \in Plans : q # p => VerdictOf(q)' = VerdictOf(q)
    BY <1>0, <2>1, VerdictsKept
  <2>7. \A q \in Plans : RowOf(q)' = RowOf(q)
    BY <1>1, SameRows
  <2>8. CASE e.why = "salvage"
    <3>1. RowOf(p) \in {"open", "cancelled"}
      BY <1>1, <2>8 DEF RowOf, Unfinished
    <3>2. Ledger!Rescues(p)
      BY <1>1, <2>4, <2>5, <2>6, <2>7, <2>8, <3>1 DEF Ledger!Rescues
    <3> QED
      BY <1>1, <3>2 DEF Ledger!LedgerNext
  <2>9. CASE e.why # "salvage"
    <3>1. e.type = plan[p].st /\ plan[p].st \in {"failed", "discarded"}
      BY <1>1, <2>9 DEF Fits, IsVerdict
    <3>2. RowOf(p) = e.type
      BY <3>1 DEF RowOf, Unfinished
    <3>3. Ledger!Tells(p)
      BY <1>1, <2>4, <2>5, <2>6, <2>7, <2>9, <3>1, <3>2 DEF Ledger!Tells
    <3> QED
      BY <1>1, <3>3 DEF Ledger!LedgerNext
  <2> QED
    BY <2>8, <2>9
<1> QED
  BY <1>1, <1>2, <1>3

\* A step that leaves the rows alone stutters, or writes a verdict.
LEMMA LedgerLogs ==
  ASSUME Typed, Judges, Typed', Judges', [Next]_vars, plan' = plan
  PROVE  [Ledger!LedgerNext]_<<LedgerRow, LedgerVerdict>>
<1>0. VerdictsFit /\ VerdictsFit'
  BY DEF Judges
<1>1. CASE Restated(log')
  <2>1. /\ Ids' = Ids
        /\ \A i \in Ids : /\ log'[i].type = log[i].type /\ log'[i].by = log[i].by
                          /\ log'[i].why = log[i].why
    BY <1>1 DEF Restated, Ids
  <2>2. \A p \in Plans : VerdictOf(p)' = VerdictOf(p)
    BY <1>0, <2>1, VerdictsKept
  <2> QED
    BY <2>2, SameRows, LedgerStutters
<1>2. ASSUME NEW e \in Event, log' \in {log, Append(log, e), Logged(log, e)}, Said(e)
      PROVE  [Ledger!LedgerNext]_<<LedgerRow, LedgerVerdict>>
  <2>1. CASE IsVerdict(e)
    <3>1. AppendTerminal => plan[run.plan].to \in ToldTypes
      BY AppendTerminalIs
    <3>2. Judged(e)
      BY <1>2, <2>1, <3>1 DEF Said, IsVerdict, Transition, ToldTypes
    <3> QED
      BY <1>0, <2>1, <3>2, LedgerWrites
  <2>2. CASE ~IsVerdict(e)
    <3>1. /\ Ids \subseteq Ids' /\ \A i \in Ids : log'[i] = log[i]
          /\ \A i \in Ids' \ Ids : log'[i] = e
      BY <1>2, Appended
    <3>2. \A p \in Plans : VerdictOf(p)' = VerdictOf(p)
      BY <1>0, <2>2, <3>1, VerdictsKept
    <3> QED
      BY <3>2, SameRows, LedgerStutters
  <2> QED
    BY <2>1, <2>2
<1> QED
  BY <1>1, <1>2, LogStep DEF LogMoves

LEMMA LedgerStep ==
  ASSUME Typed, Judges, Typed', Judges', [Next]_vars
  PROVE  [Ledger!LedgerNext]_<<LedgerRow, LedgerVerdict>>
<1>0. run.plan \in Plans
  BY TypeFacts
<1>1. CASE plan' = plan
  BY <1>1, LedgerLogs
<1>2. ASSUME NEW st \in {"completed", "cancelled"}, plan' = RowSettled(run.plan, st), log' = log
      PROVE  [Ledger!LedgerNext]_<<LedgerRow, LedgerVerdict>>
  <2>1. CASE plan[run.plan].st \in Unfinished
    <3>1. plan'[run.plan].st = st /\ \A q \in Plans : q # run.plan => plan'[q].st = plan[q].st
      BY <1>0, <1>2, <2>1, RowSettledIs, TypeFacts DEF Settled
    <3> QED
      BY <1>0, <1>2, <2>1, <3>1, LedgerEnds DEF Settled
  <2>2. CASE plan[run.plan].st \notin Unfinished
    <3>1. plan' = plan
      BY <1>2, <2>2 DEF RowSettled
    <3> QED
      BY <3>1, LedgerLogs
  <2> QED
    BY <2>1, <2>2
<1>3. ASSUME \A q \in Plans : \/ plan'[q].st = plan[q].st
                              \/ plan[q].st \in Unfinished /\ plan'[q].st \in Unfinished,
             log' = log
      PROVE  [Ledger!LedgerNext]_<<LedgerRow, LedgerVerdict>>
  <2>1. \A q \in Plans : RowOf(q)' = RowOf(q)
    BY <1>3 DEF RowOf
  <2> QED
    BY <1>3, <2>1, SameLog, LedgerStutters
<1>4. CASE Settling
  <2>1. ASSUME NEW stalled \in BOOLEAN, NEW expired \in BOOLEAN, PutBack(stalled, expired)
        PROVE  [Ledger!LedgerNext]_<<LedgerRow, LedgerVerdict>>
    <3> DEFINE row == Retried(plan[run.plan], RetryError(run), IsExempt(run, expired), stalled, expired)
    <3>1. /\ plan[run.plan].st \in Unfinished /\ plan' = [plan EXCEPT ![run.plan] = row]
          /\ row.st = "pending" /\ log' = log
      BY <2>1 DEF PutBack
    <3> HIDE DEF row
    <3>2. plan'[run.plan].st \in Unfinished /\ \A q \in Plans : q # run.plan => plan'[q].st = plan[q].st
      BY <1>0, <3>1, StatusSets, TypeFacts
    <3> QED
      BY <1>3, <3>1, <3>2
  <2>2. ASSUME NEW stalled \in BOOLEAN, NEW expired \in BOOLEAN, GiveUp(stalled, expired)
        PROVE  [Ledger!LedgerNext]_<<LedgerRow, LedgerVerdict>>
    <3> DEFINE row == Retried(plan[run.plan], RetryError(run), IsExempt(run, expired), stalled, expired)
    <3>1. /\ plan[run.plan].st \in Unfinished /\ plan' = [plan EXCEPT ![run.plan] = row]
          /\ row.st # "pending" /\ log' = log /\ run.pc \in {"mark", "settle"}
      BY <2>2 DEF GiveUp, Retryable, Still
    <3>2. row.st \in {"failed", "discarded"}
      BY <3>1, RetryRow
    <3>3. VerdictOf(run.plan) # "rescued"
      <4>1. Says(run.plan)
        BY <1>0, VerdictSays DEF Judges
      <4>2. ~Rescued(run.plan)
        BY <1>0, <3>1 DEF Judges, Rescues, OnlyRescued, QuietFor
      <4> QED
        BY <4>1, <4>2 DEF Says, Rescued, IsVerdict
    <3> HIDE DEF row
    <3>4. /\ plan'[run.plan].st = row.st /\ row.st \in Settled
          /\ \A q \in Plans : q # run.plan => plan'[q].st = plan[q].st
      BY <1>0, <3>1, <3>2, TypeFacts DEF Settled
    <3> QED
      BY <1>0, <3>1, <3>3, <3>4, LedgerEnds
  <2> QED
    BY <1>1, <1>2, <1>4, <2>1, <2>2
       DEF Settling, Complete, SalvageDone, CancelMissing, Withdraw, MarkTooLate, AppendVerdict, Salvage
<1>5. CASE Herdr
  <2>1. ASSUME NEW p \in Plans, NEW to \in Statuses, NEW keyed \in EventIds, StatusEvent(p, to, keyed)
        PROVE  [Ledger!LedgerNext]_<<LedgerRow, LedgerVerdict>>
    <3>1. live \in Statuses /\ keyed \in BOOLEAN
      BY <2>1, TypeFacts, PlansAssumption DEF StatusEvent
    <3>2. NewRow(live, to, keyed, NoHist) \in Row /\ NewRow(live, to, keyed, NoHist).st = "pending"
      BY <3>1, NewRowTyped, NoHistTyped
    <3> QED
      BY <2>1, <3>2, LedgerOpens DEF StatusEvent
  <2>2. ASSUME NEW p \in Plans, RefreshPlan(p) PROVE [Ledger!LedgerNext]_<<LedgerRow, LedgerVerdict>>
    <3>1. owed.from \in Statuses /\ owed.to \in Statuses /\ owed.snap \in Hist
      BY <2>2, TypeFacts DEF RefreshPlan
    <3>2. /\ NewRow(owed.from, owed.to, FALSE, owed.snap) \in Row
          /\ NewRow(owed.from, owed.to, FALSE, owed.snap).st = "pending"
      BY <3>1, NewRowTyped
    <3> QED
      BY <2>2, <3>2, LedgerOpens DEF RefreshPlan
  <2> QED
    BY <1>1, <1>5, <2>1, <2>2 DEF Herdr, RefreshStatus, CloseBegins, CloseRetires, LateCompletion
<1>6. CASE Taking
  <2>1. PICK t : SkipTask(t) \/ StartOrphan(t) \/ StartUnread(t) \/ StartRun(t)
    BY <1>6 DEF Taking
  <2>2. CASE StartRun(t)
    <3>1. t.plan \in Plans /\ plan[t.plan].st = "pending" /\ plan' = Running(t.plan) /\ log' = log
      BY <2>2, TaskTaken DEF StartRun
    <3>2. \A q \in Plans : plan'[q].st = IF q = t.plan THEN "running" ELSE plan[q].st
      BY <3>1, RunningIs, TypeFacts
    <3> QED
      BY <1>3, <3>1, <3>2, StatusSets
  <2> QED
    BY <1>1, <2>1, <2>2 DEF SkipTask, StartOrphan, StartUnread
<1>7. CASE DrainBegins \/ Starts
  <2>1. \A q \in Plans : plan'[q].st = IF plan[q].st = "running" THEN "pending" ELSE plan[q].st
    BY <1>7, ResetIs, TypeFacts DEF DrainBegins, Starts
  <2> QED
    BY <1>3, <1>7, <2>1, StatusSets DEF DrainBegins, Starts
<1>8. CASE Waiting
  BY <1>1, <1>8, WaitsEnd, TypeFacts DEF WaitOutcome
<1>9. CASE Telling \/ Agent \/ DrainEnds \/ Stop \/ Dies \/ UNCHANGED vars
  BY <1>1, <1>9 DEF Telling, AppendRefused, AppendChanged, AppendTerminal, Agent, AgentWrites, Give,
                    DrainEnds, Stop, Dies, vars
<1>10. ASSUME NEW p \in Plans, DrainVisits(p) \/ Backfill(p) \/ TimerFires(p)
       PROVE  [Ledger!LedgerNext]_<<LedgerRow, LedgerVerdict>>
  BY <1>1, <1>10 DEF DrainVisits, Backfill, TimerFires
<1> QED
  BY <1>4, <1>5, <1>6, <1>7, <1>8, <1>9, <1>10 DEF Next, Runner, Draining, Daemon

\* The plans keep the promise of PlanLedger: through retries, drains, superseding
\* plans, closes and restarts, a plan ends once, what the log says of it is written
\* at most once and agrees with its row, and a rescued answer is never followed by
\* the failure of its plan.
THEOREM LedgerKept == Spec => ImplementsLedger
<1> DEFINE Inv == Typed /\ Done /\ Judges
<1>1. Init => Inv /\ Ledger!LedgerInit
  <2> SUFFICES ASSUME Init PROVE Inv /\ Ledger!LedgerInit
    OBVIOUS
  <2>1. Typed
    BY TypedInit
  <2>2. Ids = {} /\ Changes = {} /\ \A p \in Plans : plan[p].st = "none"
    BY DEF Init, Ids, Changes
  <2>3. /\ run.pc = "none" /\ ~run.degraded /\ ~run.aborted /\ run.out = "none"
    BY DEF Init, NoRun
  <2>4. Done
    BY <2>2, <2>3 DEF Done, LogFacts, Headed, RunFacts, Waitings, DoneIsTold
  <2>5. Judges
    BY <2>2, <2>3 DEF Judges, UnderWay, VerdictsFit, Rescues, Rescued
  <2>6. \A p \in Plans : RowOf(p) = "none" /\ VerdictOf(p) = "none"
    BY <2>2 DEF RowOf, Unfinished, VerdictOf, VerdictIds
  <2>7. Ledger!LedgerInit
    BY <2>6 DEF Ledger!LedgerInit
  <2> QED
    BY <2>1, <2>4, <2>5, <2>7
<1>2. Inv /\ [Next]_vars => Inv'
  BY TypedStep, LogFactsStep, RunFactsStep, DoneStep, JudgesStep DEF Done
<1>3. Inv /\ Inv' /\ [Next]_vars
      => [Ledger!LedgerNext]_<<[p \in Plans |-> RowOf(p)], [p \in Plans |-> VerdictOf(p)]>>
  BY LedgerStep DEF LedgerRow, LedgerVerdict
<1> HIDE DEF Inv
<1> QED
  BY <1>1, <1>2, <1>3, PTL DEF Spec, ImplementsLedger, Ledger!LedgerSpec

=============================================================================
