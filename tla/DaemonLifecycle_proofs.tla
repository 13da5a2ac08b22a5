------------------------ MODULE DaemonLifecycle_proofs ------------------------
(* Theorems about DaemonLifecycle, for any sessions, panes and watchers.

   The types come first, with the sessions of the watchers (Typed).  On them rest
   what the daemon has in its home on its way out (Tidy) and the order in which
   startup, scans, ticks and stops follow each other (Ordered), and on both who
   owns the live watch loops (Watched).  The last part follows a loop out: to the
   entry in the map or the tick that still stops it (Poised, Found), and once the
   stop is over to its end (Hushed). *)
EXTENDS DaemonLifecycle, TLAPS

\* A watcher that was ever used has a session.
HasSession(w) == watch[w].session \in Sessions
Seated ==
  /\ \A w \in Watchers : watch[w].step # "free" => HasSession(w)
  /\ \A w \in ticker.todo : HasSession(w)
  /\ \A s \in Sessions : at[s] # None => watch[at[s]].session = s
  /\ \A k \in Scanners :
       /\ scan[k].step \in {"start", "dial"} => scan[k].cur \in Sessions
       /\ scan[k].step = "launched" => scan[k].cur \in Watchers

\* The steps of the sequence are those of JobOf.
InSequence == shut.step \in {"job", "race"} => shut.i \in 1..4

WTyped == WatchTypeOK /\ Seated
Typed == TypeOK /\ Seated /\ InSequence

LifeTypeOK ==
  /\ main \in [step : 0..8, busy : BOOLEAN, done : BOOLEAN, fail : 0..6]
  /\ mu \in {"free", "startup", "stop"}
  /\ shut \in [step : {"idle", "taken", "detached", "waiting", "job", "race", "close",
                       "cleanup", "exit"},
               i : 0..5, late : BOOLEAN, snap : SUBSET (Sessions \X (0..MaxTurn)),
               code : {0, 1}]
  /\ job \in [Jobs -> {"none", "runs", "left", "done", "failed"}]
  /\ recon \in [armed : BOOLEAN, fired : BOOLEAN, run : {"idle", "reconcile", "drain"},
                awaited : SUBSET {"main", "stop"}]
  /\ aborted \in BOOLEAN /\ handler \in {"default", "stop", "taken", "force"}
  /\ signals \in 0..MaxSignals
  /\ files \subseteq {"owner", "pid", "socket"}
  /\ force \in [step : {"none", "pid", "socket", "lock", "exit", "done"},
                met : {"none"} \cup {StartupSteps[i] : i \in 1..7}]
  /\ db \in {"none", "open", "closed"}
  /\ exit \in {None, 0, 1, Killed}

----------------------------------------------------------------------------
(* Types: the watch manager *)

\* One watcher moves, and neither it nor another changes its session.
LEMMA MoveTyped ==
  ASSUME WTyped, NEW w \in Watchers, NEW r \in Watcher, NEW step \in LoopStep,
         HasSession(w), r.session = watch[w].session, Move(w, r, step),
         UNCHANGED <<herdr, moves, running, mgr, ticker, scan, at, stop>>,
         index' \in [Sessions -> [panes : SUBSET Panes, turn : 0..MaxTurn]],
         plans' \subseteq Sessions \X (0..MaxTurn)
  PROVE  WTyped'
<1> DEFINE q == [r EXCEPT !.step = step]
<1>1. q \in Watcher /\ q.session = watch[w].session
  BY DEF Watcher, LoopStep
<1>2. watch' = [watch EXCEPT ![w] = q]
  BY DEF Move
<1> HIDE DEF q
<1>3. watch' \in [Watchers -> Watcher]
  BY <1>1, <1>2 DEF WTyped, WatchTypeOK
<1>4. \A v \in Watchers : watch'[v].session = watch[v].session
  BY <1>1, <1>2 DEF WTyped, WatchTypeOK
<1>5. \A v \in Watchers \ {w} : watch'[v] = watch[v]
  BY <1>2 DEF WTyped, WatchTypeOK
<1>6. WatchTypeOK'
  BY <1>3 DEF WTyped, WatchTypeOK
<1>7. Seated'
  BY <1>4, <1>5, WatchAssumption DEF WTyped, WatchTypeOK, Seated, HasSession
<1>8. QED
  BY <1>6, <1>7 DEF WTyped

LEMMA ReturnMoves ==
  ASSUME WTyped, NEW w \in Watchers, HasSession(w), Return(w)
  PROVE  \E r \in Watcher : r.session = watch[w].session /\ Move(w, r, "ended")
<1> DEFINE r == [NoWatch EXCEPT !.session = watch[w].session]
<1>1. r \in Watcher
  BY DEF NoWatch, Watcher, HasSession, LoopStep
<1>2. r.session = watch[w].session
  BY DEF NoWatch
<1>3. [r EXCEPT !.step = "ended"] = [NoWatch EXCEPT !.session = watch[w].session, !.step = "ended"]
  BY DEF NoWatch
<1>4. Move(w, r, "ended")
  BY <1>3 DEF Return, Move
<1>5. QED
  BY <1>1, <1>2, <1>4

\* A read of Herdr leaves index and plans in their domains.
LEMMA ReadsTyped ==
  ASSUME WTyped, NEW s \in Sessions, Refresh(s) \/ HandleStatus(s)
  PROVE  /\ index' \in [Sessions -> [panes : SUBSET Panes, turn : 0..MaxTurn]]
         /\ plans' \subseteq Sessions \X (0..MaxTurn)
<1>1. herdr[s].panes \subseteq Panes /\ herdr[s].turn \in 0..MaxTurn
  BY DEF WTyped, WatchTypeOK
<1>2. Noticed(s) \subseteq Sessions \X (0..MaxTurn)
  BY <1>1 DEF Noticed
<1>3. plans' \subseteq Sessions \X (0..MaxTurn)
  BY <1>2 DEF Refresh, HandleStatus, WTyped, WatchTypeOK
<1>4. index' \in [Sessions -> [panes : SUBSET Panes, turn : 0..MaxTurn]]
  <2> DEFINE Learnt == [panes : SUBSET Panes, turn : 0..MaxTurn]
  <2>1. index \in [Sessions -> Learnt]
    BY DEF WTyped, WatchTypeOK
  <2>2. PICK r \in Learnt : index' = [index EXCEPT ![s] = r]
    <3>1. CASE Refresh(s)
      <4>1. [panes |-> herdr[s].panes, turn |-> herdr[s].turn] \in Learnt
        BY <1>1
      <4>2. QED
        BY <3>1, <4>1 DEF Refresh
    <3>2. CASE HandleStatus(s)
      <4>1. [index[s] EXCEPT !.turn = herdr[s].turn] \in Learnt
        BY <1>1, <2>1
      <4>2. index' = [index EXCEPT ![s] = [index[s] EXCEPT !.turn = herdr[s].turn]]
        BY <3>2 DEF HandleStatus
      <4>3. QED
        BY <4>1, <4>2
    <3>3. QED
      BY <3>1, <3>2
  <2> HIDE DEF Learnt
  <2>3. index' \in [Sessions -> Learnt]
    BY <2>1, <2>2
  <2>4. QED
    BY <2>3 DEF Learnt
<1>5. QED
  BY <1>3, <1>4

\* What every step of a watch loop is.
LoopMove(w) ==
  /\ Live(w)
  /\ \E r \in Watcher, step \in LoopStep :
       /\ r.session = watch[w].session /\ Move(w, r, step)
       /\ step = "ended" \/ r.retired = watch[w].retired
  /\ index' \in [Sessions -> [panes : SUBSET Panes, turn : 0..MaxTurn]]
  /\ plans' \subseteq Sessions \X (0..MaxTurn)
  /\ UNCHANGED <<herdr, moves, running, mgr, ticker, scan, at, stop>>

LEMMA LoopMoves ==
  ASSUME WTyped, NEW w \in Watchers, Loop(w)
  PROVE  LoopMove(w) /\ HasSession(w)
<1> DEFINE r == watch[w]
           Same(q) == q \in Watcher /\ q.session = r.session /\ q.retired = r.retired
           IndexTyped == index' \in [Sessions -> [panes : SUBSET Panes, turn : 0..MaxTurn]]
           PlansTyped == plans' \subseteq Sessions \X (0..MaxTurn)
<1>1. r \in Watcher
  BY DEF WTyped, WatchTypeOK
<1>2. r.step \in LoopStep \ {"free", "ended"}
  BY DEF Loop, LoopTop, LoopRefresh, Subscribe, StreamEnds, StatusEvent, TopologyEvent,
         Decide, Tail, Redial, Reads, LoopStep
<1>3. HasSession(w) /\ Live(w)
  BY <1>2 DEF WTyped, Seated, Live, Ended
<1>4. LoopUnchanged
  BY DEF Loop, LoopTop, LoopRefresh, Subscribe, StreamEnds, StatusEvent, TopologyEvent,
         Decide, Tail, Redial
<1>5. ASSUME UNCHANGED <<index, plans>>
      PROVE  IndexTyped /\ PlansTyped
  BY <1>5 DEF WTyped, WatchTypeOK
<1>6. ASSUME Refresh(r.session) \/ HandleStatus(r.session)
      PROVE  IndexTyped /\ PlansTyped
  BY <1>3, <1>6, ReadsTyped DEF HasSession
<1>7. ASSUME NEW q, Same(q), NEW step \in LoopStep, Move(w, q, step), IndexTyped, PlansTyped
      PROVE  LoopMove(w)
  BY <1>3, <1>4, <1>7 DEF LoopMove, LoopUnchanged
<1>8. ASSUME Return(w), IndexTyped, PlansTyped
      PROVE  LoopMove(w)
  <2>1. PICK q \in Watcher : q.session = r.session /\ Move(w, q, "ended")
    BY <1>3, <1>8, ReturnMoves
  <2>2. "ended" \in LoopStep
    BY DEF LoopStep
  <2>3. QED
    BY <1>3, <1>4, <1>8, <2>1, <2>2 DEF LoopMove, LoopUnchanged
<1>9. CASE LoopTop(w)
  <2> DEFINE fresh == [r EXCEPT !.restart = FALSE, !.cut = FALSE, !.reuse = FALSE]
             kept == [fresh EXCEPT !.sub = r.agents]
  <2>1. Same(fresh) /\ Same(kept)
    BY <1>1 DEF Watcher
  <2> HIDE DEF fresh, kept
  <2>2. Return(w) \/ Move(w, kept, "subscribe") \/ Move(w, fresh, "refresh")
    BY <1>9 DEF LoopTop, fresh, kept
  <2>3. IndexTyped /\ PlansTyped
    BY <1>5, <1>9 DEF LoopTop
  <2>4. "subscribe" \in LoopStep /\ "refresh" \in LoopStep
    BY DEF LoopStep
  <2>5. LoopMove(w)
    BY <1>7, <1>8, <2>1, <2>2, <2>3, <2>4
  <2>6. QED
    BY <1>3, <2>5
<1>10. CASE LoopRefresh(w)
  <2> DEFINE q == [r EXCEPT !.sub = herdr[r.session].panes]
  <2>1. Same(q) /\ Same(r)
    BY <1>1, <1>3 DEF Watcher, HasSession, WTyped, WatchTypeOK
  <2> HIDE DEF q
  <2>2. Move(w, r, "failed") \/ Move(w, r, "over") \/ Move(w, q, "subscribe")
    BY <1>10 DEF LoopRefresh, q
  <2>3. IndexTyped /\ PlansTyped
    BY <1>5, <1>6, <1>10 DEF LoopRefresh
  <2>4. "failed" \in LoopStep /\ "over" \in LoopStep /\ "subscribe" \in LoopStep
    BY DEF LoopStep
  <2>5. LoopMove(w)
    BY <1>7, <2>1, <2>2, <2>3, <2>4
  <2>6. QED
    BY <1>3, <2>5
<1>11. CASE Subscribe(w)
  <2> DEFINE q == [r EXCEPT !.inbox = {}]
             step == IF r.client # "open" THEN "failed" ELSE IF Cut(w) THEN "over" ELSE "stream"
  <2>1. Same(q)
    BY <1>1 DEF Watcher
  <2>2. Move(w, q, step)
    BY <1>11 DEF Subscribe
  <2>3. step \in LoopStep
    BY DEF LoopStep
  <2>4. IndexTyped /\ PlansTyped
    BY <1>5, <1>11 DEF Subscribe
  <2> HIDE DEF q, step
  <2>5. LoopMove(w)
    BY <1>7, <2>1, <2>2, <2>3, <2>4
  <2>6. QED
    BY <1>3, <2>5
<1>12. CASE StreamEnds(w)
  <2> DEFINE q == [r EXCEPT !.inbox = {}]
  <2>1. Same(q)
    BY <1>1 DEF Watcher
  <2>2. Move(w, q, "failed") \/ Move(w, q, "over")
    BY <1>12 DEF StreamEnds
  <2>3. "failed" \in LoopStep /\ "over" \in LoopStep
    BY DEF LoopStep
  <2>4. IndexTyped /\ PlansTyped
    BY <1>5, <1>12 DEF StreamEnds
  <2> HIDE DEF q
  <2>5. LoopMove(w)
    BY <1>7, <2>1, <2>2, <2>3, <2>4
  <2>6. QED
    BY <1>3, <2>5
<1>13. CASE StatusEvent(w)
  <2> DEFINE q == [r EXCEPT !.inbox = @ \ {"status"}]
  <2>1. Same(q)
    BY <1>1 DEF Watcher
  <2>2. Move(w, q, "stream")
    BY <1>13 DEF StatusEvent
  <2>3. "stream" \in LoopStep
    BY DEF LoopStep
  <2>4. IndexTyped /\ PlansTyped
    BY <1>6, <1>13 DEF StatusEvent
  <2> HIDE DEF q
  <2>5. LoopMove(w)
    BY <1>7, <2>1, <2>2, <2>3, <2>4
  <2>6. QED
    BY <1>3, <2>5
<1>14. CASE TopologyEvent(w)
  <2> DEFINE read == [r EXCEPT !.inbox = @ \ {"topology"}]
             q == [read EXCEPT !.agents = herdr[r.session].panes]
  <2>1. Same(read)
    BY <1>1 DEF Watcher
  <2>2. Same(q)
    BY <1>1, <1>3, <2>1 DEF Watcher, HasSession, WTyped, WatchTypeOK
  <2> HIDE DEF q, read
  <2>3. Move(w, read, "failed") \/ Move(w, q, "decide")
    BY <1>14 DEF TopologyEvent, q, read
  <2>4. "failed" \in LoopStep /\ "decide" \in LoopStep
    BY DEF LoopStep
  <2>5. IndexTyped /\ PlansTyped
    BY <1>5, <1>6, <1>14 DEF TopologyEvent
  <2>6. LoopMove(w)
    BY <1>7, <2>1, <2>2, <2>3, <2>4, <2>5
  <2>7. QED
    BY <1>3, <2>6
<1>15. CASE Decide(w)
  <2> DEFINE q == [r EXCEPT !.restart = TRUE, !.reuse = TRUE, !.inbox = {}]
  <2>1. Same(q) /\ Same(r)
    BY <1>1 DEF Watcher
  <2>2. Move(w, r, "stream") \/ Move(w, q, "over")
    BY <1>15 DEF Decide
  <2>3. "stream" \in LoopStep /\ "over" \in LoopStep
    BY DEF LoopStep
  <2>4. IndexTyped /\ PlansTyped
    BY <1>5, <1>15 DEF Decide
  <2> HIDE DEF q
  <2>5. LoopMove(w)
    BY <1>7, <2>1, <2>2, <2>3, <2>4
  <2>6. QED
    BY <1>3, <2>5
<1>16. CASE Tail(w)
  <2> DEFINE q == [r EXCEPT !.reuse = r.reuse /\ (r.step = "over" \/ r.restart)]
  <2>1. Same(q)
    BY <1>1 DEF Watcher
  <2>2. Return(w) \/ Move(w, q, "redial")
    BY <1>16 DEF Tail
  <2>3. "redial" \in LoopStep
    BY DEF LoopStep
  <2>4. IndexTyped /\ PlansTyped
    BY <1>5, <1>16 DEF Tail
  <2> HIDE DEF q
  <2>5. LoopMove(w)
    BY <1>7, <1>8, <2>1, <2>2, <2>3, <2>4
  <2>6. QED
    BY <1>3, <2>5
<1>17. CASE Redial(w)
  <2> DEFINE q == [r EXCEPT !.client = "open"]
  <2>1. Same(q)
    BY <1>1 DEF Watcher
  <2>2. Return(w) \/ Move(w, q, "top")
    BY <1>17 DEF Redial
  <2>3. "top" \in LoopStep
    BY DEF LoopStep
  <2>4. IndexTyped /\ PlansTyped
    BY <1>5, <1>17 DEF Redial
  <2> HIDE DEF q
  <2>5. LoopMove(w)
    BY <1>7, <1>8, <2>1, <2>2, <2>3, <2>4
  <2>6. QED
    BY <1>3, <2>5
<1>18. QED
  BY <1>9, <1>10, <1>11, <1>12, <1>13, <1>14, <1>15, <1>16, <1>17 DEF Loop

LEMMA LoopTyped ==
  ASSUME WTyped, NEW w \in Watchers, Loop(w)
  PROVE  WTyped'
BY LoopMoves, MoveTyped DEF LoopMove

\* Watchers taken down keep step and session; they leave the map.
LEMMA TakeDownKeeps ==
  ASSUME WTyped, NEW W, NEW retired \in BOOLEAN, TakeDown(W, retired)
  PROVE  /\ watch' \in [Watchers -> Watcher]
         /\ \A w \in Watchers : /\ watch'[w].step = watch[w].step
                                /\ watch'[w].session = watch[w].session
         /\ at' \in [Sessions -> Watchers \cup {None}]
         /\ \A s \in Sessions : at'[s] = IF at[s] \in W THEN None ELSE at[s]
<1> DEFINE down(r) == [r EXCEPT !.aborted = TRUE, !.client = "closed", !.retired = retired]
<1>1. \A r \in Watcher : /\ down(r) \in Watcher
                        /\ down(r).step = r.step /\ down(r).session = r.session
  BY DEF Watcher
<1>a. \A w \in Watchers : watch[w] \in Watcher
  BY DEF WTyped, WatchTypeOK
<1>b. watch' = [w \in Watchers |-> IF w \in W /\ ~Ended(w) THEN down(watch[w]) ELSE watch[w]]
  BY DEF TakeDown
<1> HIDE DEF down
<1>2. watch' \in [Watchers -> Watcher]
  BY <1>1, <1>a, <1>b
<1>3. \A w \in Watchers : /\ watch'[w].step = watch[w].step
                          /\ watch'[w].session = watch[w].session
  BY <1>1, <1>a, <1>b
<1>4. at' \in [Sessions -> Watchers \cup {None}]
  BY DEF TakeDown, WTyped, WatchTypeOK
<1>5. \A s \in Sessions : at'[s] = IF at[s] \in W THEN None ELSE at[s]
  BY DEF TakeDown
<1>6. QED
  BY <1>2, <1>3, <1>4, <1>5

\* Watchers and map as a step may leave them.
WatchersKept ==
  /\ watch' \in [Watchers -> Watcher] /\ at' \in [Sessions -> Watchers \cup {None}]
  /\ \A w \in Watchers : /\ HasSession(w) => HasSession(w)'
                         /\ watch'[w].step # "free" => HasSession(w)'
  /\ \A s \in Sessions : at'[s] # None => watch'[at'[s]].session = s

LEMMA TakeDownKept ==
  ASSUME WTyped, NEW W, NEW retired \in BOOLEAN, TakeDown(W, retired)
  PROVE  WatchersKept
<1>1. \A w \in Watchers : HasSession(w) => HasSession(w)'
  BY TakeDownKeeps DEF HasSession
<1>2. \A w \in Watchers : watch'[w].step # "free" => HasSession(w)'
  BY <1>1, TakeDownKeeps DEF WTyped, Seated
<1>3. \A s \in Sessions : at'[s] # None => watch'[at'[s]].session = s
  <2> SUFFICES ASSUME NEW s \in Sessions, at'[s] # None
               PROVE  watch'[at'[s]].session = s
    OBVIOUS
  <2>1. at'[s] = at[s] /\ at[s] \in Watchers /\ watch[at[s]].session = s
    BY TakeDownKeeps DEF WTyped, WatchTypeOK, Seated
  <2>2. QED
    BY <2>1, TakeDownKeeps
<1>4. QED
  BY <1>1, <1>2, <1>3, TakeDownKeeps DEF WatchersKept

LEMMA UnchangedKept ==
  ASSUME WTyped, UNCHANGED <<watch, at>>
  PROVE  WatchersKept
<1>1. watch' = watch /\ at' = at
  OBVIOUS
<1>2. QED
  BY <1>1 DEF WTyped, WatchTypeOK, Seated, HasSession, WatchersKept

\* What the current session of a scan is.
CurTyped(q) ==
  /\ q \in Scan
  /\ q.step \in {"start", "dial"} => q.cur \in Sessions
  /\ q.step = "launched" => q.cur \in Watchers

LEMMA ScanTyped ==
  ASSUME WTyped, NEW k \in Scanners, NEW q, CurTyped(q), ScanTo(k, q), WatchersKept,
         running' \subseteq Sessions, ScanUnchanged,
         mgr' \in [stopping : BOOLEAN, gen : Nat, sched : BOOLEAN, fired : BOOLEAN,
                   due : BOOLEAN]
  PROVE  WTyped'
<1>1. scan' \in [Scanners -> Scan]
  BY DEF ScanTo, CurTyped, WTyped, WatchTypeOK
<1>2. \A j \in Scanners : CurTyped(scan'[j])
  BY DEF ScanTo, CurTyped, WTyped, WatchTypeOK, Seated
<1>3. WatchTypeOK'
  BY <1>1 DEF WTyped, WatchTypeOK, ScanUnchanged, WatchersKept
<1>4. Seated'
  <2>1. \A w \in ticker'.todo : HasSession(w)'
    BY DEF WTyped, WatchTypeOK, Seated, WatchersKept, ScanUnchanged
  <2>2. \A w \in Watchers : watch'[w].step # "free" => HasSession(w)'
    BY DEF WatchersKept
  <2>3. \A s \in Sessions : at'[s] # None => watch'[at'[s]].session = s
    BY DEF WatchersKept
  <2>4. \A j \in Scanners :
          /\ scan'[j].step \in {"start", "dial"} => scan'[j].cur \in Sessions
          /\ scan'[j].step = "launched" => scan'[j].cur \in Watchers
    BY <1>2 DEF CurTyped
  <2>5. QED
    BY <2>1, <2>2, <2>3, <2>4 DEF Seated
<1>5. QED
  BY <1>3, <1>4 DEF WTyped

\* A fresh watcher in a free slot: nobody refers to the slot.
LEMMA Launched ==
  ASSUME WTyped, NEW w \in Watchers, NEW s \in Sessions, NEW gen \in Nat, Free(w),
         Move(w, [NoWatch EXCEPT !.session = s, !.gen = gen, !.client = "open"], "top"),
         at' = [at EXCEPT ![s] = w]
  PROVE  /\ watch' \in [Watchers -> Watcher]
         /\ watch'[w].session = s /\ watch'[w].step = "top"
         /\ \A v \in Watchers \ {w} : watch'[v] = watch[v]
         /\ at' \in [Sessions -> Watchers \cup {None}]
         /\ at'[s] = w /\ \A t \in Sessions \ {s} : at'[t] = at[t] /\ at[t] # w
<1> DEFINE new == [NoWatch EXCEPT !.session = s, !.gen = gen, !.client = "open"]
           q == [new EXCEPT !.step = "top"]
<1>1. new \in Watcher /\ new.session = s
  BY DEF NoWatch, Watcher, LoopStep
<1>2. watch' = [watch EXCEPT ![w] = q]
  BY DEF Move
<1> HIDE DEF new
<1>3. q \in Watcher /\ q.session = s /\ q.step = "top"
  BY <1>1 DEF Watcher, LoopStep
<1> HIDE DEF q
<1>4. w \notin Current
  BY DEF Free, Referred
<1>5. \A t \in Sessions : at[t] # w
  BY <1>4, WatchAssumption DEF Current
<1>6. QED
  BY <1>2, <1>3, <1>5 DEF WTyped, WatchTypeOK

LEMMA LaunchKept ==
  ASSUME WTyped, NEW w \in Watchers, NEW s \in Sessions, NEW gen \in Nat, Free(w),
         Move(w, [NoWatch EXCEPT !.session = s, !.gen = gen, !.client = "open"], "top"),
         at' = [at EXCEPT ![s] = w]
  PROVE  WatchersKept
<1>0. /\ watch'[w].session = s /\ \A v \in Watchers \ {w} : watch'[v] = watch[v]
      /\ \A t \in Sessions \ {s} : at'[t] = at[t] /\ at[t] # w
      /\ at'[s] = w /\ watch' \in [Watchers -> Watcher]
      /\ at' \in [Sessions -> Watchers \cup {None}]
  BY Launched
<1>1. \A v \in Watchers : /\ HasSession(v) => HasSession(v)'
                          /\ watch'[v].step # "free" => HasSession(v)'
  BY <1>0 DEF HasSession, WTyped, Seated
<1>2. \A t \in Sessions : at'[t] # None => watch'[at'[t]].session = t
  <2> SUFFICES ASSUME NEW t \in Sessions, at'[t] # None
               PROVE  watch'[at'[t]].session = t
    OBVIOUS
  <2>1. CASE t = s
    BY <2>1, <1>0
  <2>2. CASE t # s
    <3>1. at'[t] = at[t] /\ at[t] \in Watchers \ {w} /\ watch[at[t]].session = t
      BY <1>0, <2>2 DEF WTyped, WatchTypeOK, Seated
    <3>2. QED
      BY <1>0, <2>2, <3>1
  <2>3. QED
    BY <2>1, <2>2
<1>3. QED
  BY <1>0, <1>1, <1>2 DEF WatchersKept

LEMMA RescanTyped ==
  ASSUME WTyped, NEW k \in Scanners, Rescan(k)
  PROVE  WTyped'
<1> DEFINE r == scan[k]
           MgrTyped == mgr' \in [stopping : BOOLEAN, gen : Nat, sched : BOOLEAN,
                                 fired : BOOLEAN, due : BOOLEAN]
<1>1. r \in Scan
  BY DEF WTyped, WatchTypeOK
<1>2. ASSUME UNCHANGED mgr PROVE MgrTyped
  BY <1>2 DEF WTyped, WatchTypeOK
<1>3. ASSUME UNCHANGED running PROVE running' \subseteq Sessions
  BY <1>3 DEF WTyped, WatchTypeOK
<1>4. ASSUME NEW W, Retire(W) PROVE WatchersKept
  BY <1>4, TakeDownKept DEF Retire
<1>5. CASE ScanList(k)
  <2> DEFINE listed == {s \in Sessions : herdr[s].up}
             gone == {at[s] : s \in Sessions \ listed} \ {None}
             q == [r EXCEPT !.step = "gone", !.todo = listed, !.wait = gone]
             p == [r EXCEPT !.step = "done"]
  <2>1. gone \subseteq Watchers /\ listed \subseteq Sessions
    BY DEF WTyped, WatchTypeOK
  <2> HIDE DEF gone, listed
  <2>2. CurTyped(q) /\ CurTyped(p)
    BY <1>1, <2>1 DEF Scan, CurTyped, ScanStep
  <2>3. \/ ScanTo(k, p) /\ UNCHANGED <<watch, at>>
        \/ ScanTo(k, q) /\ Retire(gone)
    BY <1>5 DEF ScanList, gone, listed
  <2>4. WatchersKept
    BY <1>4, <2>3, UnchangedKept
  <2>5. UNCHANGED <<running, mgr>> /\ ScanUnchanged
    BY <1>5 DEF ScanList
  <2> HIDE DEF q, p
  <2>6. QED
    BY <1>2, <1>3, <2>2, <2>3, <2>4, <2>5, ScanTyped
<1>6. CASE ScanListFails(k)
  <2> DEFINE q == [r EXCEPT !.step = "failed"]
  <2>1. CurTyped(q)
    BY <1>1 DEF Scan, CurTyped, ScanStep
  <2>2. ScanTo(k, q) /\ UNCHANGED <<running, mgr, watch, at>> /\ ScanUnchanged
    BY <1>6 DEF ScanListFails
  <2> HIDE DEF q
  <2>3. QED
    BY <1>2, <1>3, <2>1, <2>2, UnchangedKept, ScanTyped
<1>7. CASE ScanMark(k)
  <2> DEFINE p == [r EXCEPT !.step = "done", !.wait = {}]
             q == [r EXCEPT !.step = "next", !.wait = {}]
  <2>1. CurTyped(p) /\ CurTyped(q)
    BY <1>1 DEF Scan, CurTyped, ScanStep
  <2>2. /\ ScanTo(k, p) \/ ScanTo(k, q)
        /\ UNCHANGED <<mgr, watch, at>> /\ ScanUnchanged
        /\ running' \subseteq running
    BY <1>7 DEF ScanMark, RowsLeft
  <2> HIDE DEF q, p
  <2>3. running' \subseteq Sessions
    BY <2>2 DEF WTyped, WatchTypeOK
  <2>4. QED
    BY <1>2, <2>1, <2>2, <2>3, UnchangedKept, ScanTyped
<1>8. CASE ScanNext(k)
  <2>1. PICK s \in r.todo :
          /\ Retire({at[s]} \ {None})
          /\ ScanTo(k, [r EXCEPT !.step = "start", !.todo = @ \ {s}, !.cur = s,
                                 !.wait = {at[s]} \ {None}])
    BY <1>8 DEF ScanNext
  <2> DEFINE old == {at[s]} \ {None}
             q == [r EXCEPT !.step = "start", !.todo = @ \ {s}, !.cur = s, !.wait = old]
  <2>2. s \in Sessions
    BY <1>1 DEF Scan
  <2>3. old \subseteq Watchers
    BY <2>2 DEF WTyped, WatchTypeOK
  <2> HIDE DEF old
  <2>4. CurTyped(q)
    BY <1>1, <2>2, <2>3 DEF Scan, CurTyped, ScanStep
  <2>5. ScanTo(k, q) /\ Retire(old)
    BY <2>1 DEF old
  <2>6. UNCHANGED <<running, mgr>> /\ ScanUnchanged
    BY <1>8 DEF ScanNext
  <2> HIDE DEF q
  <2>7. QED
    BY <1>2, <1>3, <1>4, <2>4, <2>5, <2>6, ScanTyped
<1>9. CASE ScanDone(k)
  <2> DEFINE q == [r EXCEPT !.step = "done", !.todo = {}, !.wait = {}]
  <2>1. CurTyped(q)
    BY <1>1 DEF Scan, CurTyped, ScanStep
  <2>2. ScanTo(k, q) /\ UNCHANGED <<running, watch, at>> /\ ScanUnchanged
    BY <1>9 DEF ScanDone
  <2>3. MgrTyped
    BY <1>9 DEF ScanDone, WTyped, WatchTypeOK
  <2> HIDE DEF q
  <2>4. QED
    BY <1>3, <2>1, <2>2, <2>3, UnchangedKept, ScanTyped
<1>10. CASE ScanStart(k)
  <2> DEFINE p == [r EXCEPT !.step = "next", !.wait = {}, !.cur = None]
             q == [r EXCEPT !.step = "dial", !.wait = {}]
  <2>1. r.cur \in Sessions
    BY <1>10 DEF ScanStart, WTyped, Seated
  <2>2. CurTyped(p) /\ CurTyped(q)
    BY <1>1, <2>1 DEF Scan, CurTyped, ScanStep
  <2>3. /\ ScanTo(k, p) \/ ScanTo(k, q)
        /\ UNCHANGED <<mgr, watch, at>> /\ ScanUnchanged
        /\ running' \subseteq running \cup {r.cur}
    BY <1>10 DEF ScanStart
  <2>4. running' \subseteq Sessions
    BY <2>1, <2>3 DEF WTyped, WatchTypeOK
  <2> HIDE DEF q, p
  <2>5. QED
    BY <1>2, <2>2, <2>3, <2>4, UnchangedKept, ScanTyped
<1>11. CASE ScanDial(k)
  <2> DEFINE s == r.cur
             p == [r EXCEPT !.step = "failed", !.todo = {}, !.cur = None]
             q(w) == [r EXCEPT !.step = "launched", !.cur = w]
             new == [NoWatch EXCEPT !.session = s, !.gen = r.gen, !.client = "open"]
  <2>1. s \in Sessions
    BY <1>11 DEF ScanDial, WTyped, Seated
  <2>2. CurTyped(p) /\ \A w \in Watchers : CurTyped(q(w))
    BY <1>1 DEF Scan, CurTyped, ScanStep
  <2>3. \/ ScanTo(k, p) /\ UNCHANGED <<watch, at>>
        \/ \E w \in Watchers : Free(w) /\ Move(w, new, "top") /\ ScanTo(k, q(w))
                               /\ at' = [at EXCEPT ![s] = w]
    BY <1>11 DEF ScanDial
  <2>4. UNCHANGED <<running, mgr>> /\ ScanUnchanged
    BY <1>11 DEF ScanDial
  <2> HIDE DEF q, p
  <2>5. CASE ScanTo(k, p) /\ UNCHANGED <<watch, at>>
    BY <1>2, <1>3, <2>2, <2>4, <2>5, UnchangedKept, ScanTyped
  <2>6. CASE \E w \in Watchers : Free(w) /\ Move(w, new, "top") /\ ScanTo(k, q(w))
                                 /\ at' = [at EXCEPT ![s] = w]
    <3>1. PICK w \in Watchers : Free(w) /\ Move(w, new, "top") /\ ScanTo(k, q(w))
                                /\ at' = [at EXCEPT ![s] = w]
      BY <2>6
    <3>2. WatchersKept
      BY <1>1, <2>1, <3>1, LaunchKept DEF Scan
    <3>3. QED
      BY <1>2, <1>3, <2>2, <2>4, <3>1, <3>2, ScanTyped
  <2>7. QED
    BY <2>3, <2>5, <2>6
<1>12. CASE ScanLaunched(k)
  <2> DEFINE w == r.cur
             next == [r EXCEPT !.step = "next", !.cur = None]
             q == [next EXCEPT !.wait = {w}]
  <2>1. w \in Watchers
    BY <1>12 DEF ScanLaunched, WTyped, Seated
  <2>2. CurTyped(next) /\ CurTyped(q)
    BY <1>1, <2>1 DEF Scan, CurTyped, ScanStep
  <2>3. \/ TakeDown({w}, FALSE) /\ ScanTo(k, q)
        \/ ScanTo(k, next) /\ UNCHANGED <<watch, at>>
    BY <1>12 DEF ScanLaunched
  <2>4. UNCHANGED <<running, mgr>> /\ ScanUnchanged
    BY <1>12 DEF ScanLaunched
  <2>5. WatchersKept
    BY <2>3, TakeDownKept, UnchangedKept
  <2> HIDE DEF q, next
  <2>6. QED
    BY <1>2, <1>3, <2>2, <2>3, <2>4, <2>5, ScanTyped
<1>13. QED
  BY <1>5, <1>6, <1>7, <1>8, <1>9, <1>10, <1>11, <1>12 DEF Rescan

\* Flags of watchers change, neither their steps nor their sessions, and none is retired.
FlagsOnly ==
  /\ watch' \in [Watchers -> Watcher]
  /\ \A v \in Watchers : /\ watch'[v].step = watch[v].step
                         /\ watch'[v].session = watch[v].session
                         /\ watch'[v].retired = watch[v].retired

LEMMA FlagsOnlyTyped ==
  ASSUME WTyped, FlagsOnly, UNCHANGED <<running, mgr, scan, at, stop>>,
         herdr' \in [Sessions -> [up : BOOLEAN, panes : SUBSET Panes, turn : 0..MaxTurn]],
         moves' \in 0..MaxMoves,
         index' \in [Sessions -> [panes : SUBSET Panes, turn : 0..MaxTurn]],
         plans' \subseteq Sessions \X (0..MaxTurn),
         ticker' \in [step : {"idle", "look", "refresh", "rescan"},
                      todo : SUBSET Watchers, awaited : SUBSET Stoppers],
         ticker'.todo \subseteq ticker.todo
  PROVE  WTyped'
<1>1. WatchTypeOK'
  BY DEF WTyped, WatchTypeOK, FlagsOnly
<1>2. \A v \in Watchers : HasSession(v) <=> HasSession(v)'
  BY DEF HasSession, FlagsOnly
<1>3. \A s \in Sessions : at'[s] # None => watch'[at'[s]].session = s
  BY DEF WTyped, WatchTypeOK, Seated, FlagsOnly
<1>4. \A v \in ticker'.todo : HasSession(v)'
  BY <1>2 DEF WTyped, WatchTypeOK, Seated
<1>5. \A v \in Watchers : watch'[v].step # "free" => HasSession(v)'
  BY <1>2 DEF WTyped, Seated, FlagsOnly
<1>6. Seated'
  BY <1>3, <1>4, <1>5 DEF WTyped, Seated
<1>7. QED
  BY <1>1, <1>6 DEF WTyped

LEMMA TickRefreshFlags ==
  ASSUME WTyped, NEW w \in Watchers, TickRefresh(w)
  PROVE  FlagsOnly
<1> DEFINE q == [watch[w] EXCEPT !.restart = TRUE, !.cut = TRUE]
<1>1. watch[w] \in Watcher
  BY DEF WTyped, WatchTypeOK
<1>2. /\ q \in Watcher /\ q.step = watch[w].step /\ q.session = watch[w].session
      /\ q.retired = watch[w].retired
  BY <1>1 DEF Watcher
<1>3. watch' = watch \/ watch' = [watch EXCEPT ![w] = q]
  BY DEF TickRefresh
<1> HIDE DEF q
<1>4. QED
  BY <1>2, <1>3 DEF FlagsOnly, WTyped, WatchTypeOK

LEMMA TickRefreshTyped ==
  ASSUME WTyped, NEW w \in Watchers, TickRefresh(w)
  PROVE  WTyped'
<1> DEFINE s == watch[w].session
           Ticker == [step : {"idle", "look", "refresh", "rescan"},
                      todo : SUBSET Watchers, awaited : SUBSET Stoppers]
<1>1. s \in Sessions
  BY DEF TickRefresh, WTyped, Seated, HasSession
<1>2. Refresh(s) \/ UNCHANGED <<index, plans>>
  BY DEF TickRefresh
<1>3. /\ index' \in [Sessions -> [panes : SUBSET Panes, turn : 0..MaxTurn]]
      /\ plans' \subseteq Sessions \X (0..MaxTurn)
  <2>1. CASE Refresh(s)
    BY <1>1, <2>1, ReadsTyped
  <2>2. CASE UNCHANGED <<index, plans>>
    BY <2>2 DEF WTyped, WatchTypeOK
  <2>3. QED
    BY <1>2, <2>1, <2>2
<1>4. ticker' \in Ticker /\ ticker'.todo \subseteq ticker.todo
  <2>1. ticker \in Ticker
    BY DEF WTyped, WatchTypeOK
  <2>2. ticker' = [ticker EXCEPT !.todo = @ \ {w}]
    BY DEF TickRefresh
  <2>3. QED
    BY <2>1, <2>2
<1>5. UNCHANGED <<herdr, moves, running, mgr, scan, at, stop>>
  BY DEF TickRefresh, TickUnchanged
<1>6. QED
  BY <1>3, <1>4, <1>5, TickRefreshFlags, FlagsOnlyTyped DEF WTyped, WatchTypeOK

\* The flags of the manager may change at any time.
LEMMA FlagsTyped ==
  ASSUME WTyped, UNCHANGED <<herdr, moves, index, running, watch, at, plans>>,
         mgr' \in [stopping : BOOLEAN, gen : Nat, sched : BOOLEAN, fired : BOOLEAN,
                   due : BOOLEAN],
         ticker' \in [step : {"idle", "look", "refresh", "rescan"},
                      todo : SUBSET Watchers, awaited : SUBSET Stoppers],
         \A w \in ticker'.todo : HasSession(w),
         scan' \in [Scanners -> Scan],
         \A k \in Scanners : CurTyped(scan'[k]),
         stop' \in [Stoppers -> Stop]
  PROVE  WTyped'
<1>1. WatchTypeOK'
  BY DEF WTyped, WatchTypeOK
<1>2. Seated'
  BY DEF WTyped, Seated, HasSession, CurTyped
<1>3. QED
  BY <1>1, <1>2 DEF WTyped

LEMMA ScansTyped ==
  ASSUME WTyped
  PROVE  /\ scan \in [Scanners -> Scan] /\ \A k \in Scanners : CurTyped(scan[k])
         /\ CurTyped(NoScan)
         /\ \A n \in Nat : CurTyped([NoScan EXCEPT !.step = "list", !.gen = n])
<1>1. scan \in [Scanners -> Scan] /\ \A k \in Scanners : CurTyped(scan[k])
  BY DEF WTyped, WatchTypeOK, Seated, CurTyped
<1>2. CurTyped(NoScan)
  BY DEF NoScan, CurTyped, Scan, ScanStep
<1>3. ASSUME NEW n \in Nat
      PROVE  CurTyped([NoScan EXCEPT !.step = "list", !.gen = n])
  BY <1>2 DEF CurTyped, Scan, ScanStep
<1>4. QED
  BY <1>1, <1>2, <1>3

LEMMA ScanToTyped ==
  ASSUME WTyped, NEW k \in Scanners, NEW q, CurTyped(q), ScanTo(k, q)
  PROVE  scan' \in [Scanners -> Scan] /\ \A j \in Scanners : CurTyped(scan'[j])
BY ScansTyped DEF ScanTo, CurTyped

LEMMA IntervalTyped ==
  ASSUME WTyped, Interval \/ RescanFallsDue
  PROVE  WTyped'
<1> DEFINE Ticker == [step : {"idle", "look", "refresh", "rescan"},
                      todo : SUBSET Watchers, awaited : SUBSET Stoppers]
           Mgr == [stopping : BOOLEAN, gen : Nat, sched : BOOLEAN, fired : BOOLEAN,
                   due : BOOLEAN]
<1>1. mgr \in Mgr /\ ticker \in Ticker /\ stop \in [Stoppers -> Stop]
  BY DEF WTyped, WatchTypeOK
<1>2. \A w \in ticker.todo : HasSession(w)
  BY DEF WTyped, Seated
<1>3. CASE TimerFires \/ RescanFallsDue
  <2>1. mgr' \in Mgr
    BY <1>1, <1>3 DEF TimerFires, RescanFallsDue
  <2>2. UNCHANGED <<ticker, scan, stop, herdr, moves, index, running, watch, at, plans>>
    BY <1>3 DEF TimerFires, RescanFallsDue, TickUnchanged
  <2>3. QED
    BY <1>1, <1>2, <2>1, <2>2, ScansTyped, FlagsTyped
<1>4. CASE ScheduleTick
  <2>1. mgr' \in Mgr /\ ticker' \in Ticker /\ ticker'.todo = ticker.todo
    BY <1>1, <1>4 DEF ScheduleTick
  <2>2. UNCHANGED <<scan, stop, herdr, moves, index, running, watch, at, plans>>
    BY <1>4 DEF ScheduleTick, TickUnchanged
  <2>3. QED
    BY <1>1, <1>2, <2>1, <2>2, ScansTyped, FlagsTyped
<1>5. CASE TickLook
  <2> DEFINE q == [NoScan EXCEPT !.step = "list", !.gen = mgr.gen]
  <2>1. CurTyped(q)
    BY <1>1, ScansTyped
  <2> HIDE DEF q
  <2>2. \/ ticker' = [ticker EXCEPT !.step = "rescan"] /\ ScanTo("tick", q)
        \/ /\ \E W \in SUBSET Current : ticker' = [ticker EXCEPT !.step = "refresh", !.todo = W]
           /\ scan' = scan
    BY <1>5 DEF TickLook, q
  <2>3. Current \subseteq Watchers /\ \A w \in Current : HasSession(w)
    BY DEF Current, WTyped, WatchTypeOK, Seated, HasSession
  <2>4. ticker' \in Ticker /\ \A w \in ticker'.todo : HasSession(w)
    BY <1>1, <1>2, <2>2, <2>3
  <2>5. scan' \in [Scanners -> Scan] /\ \A k \in Scanners : CurTyped(scan'[k])
    BY <2>1, <2>2, ScansTyped, ScanToTyped DEF Scanners
  <2>6. UNCHANGED <<mgr, stop, herdr, moves, index, running, watch, at, plans>>
    BY <1>5 DEF TickLook, TickUnchanged
  <2>7. QED
    BY <1>1, <2>4, <2>5, <2>6, FlagsTyped
<1>6. CASE \E w \in Watchers : TickRefresh(w)
  BY <1>6, TickRefreshTyped
<1>7. CASE TickEnds
  <2>1. ticker' \in Ticker /\ ticker'.todo = {}
    BY <1>7 DEF TickEnds
  <2>2. scan' \in [Scanners -> Scan] /\ \A k \in Scanners : CurTyped(scan'[k])
    BY <1>7, ScansTyped, ScanToTyped DEF TickEnds, Scanners
  <2>3. UNCHANGED <<mgr, stop, herdr, moves, index, running, watch, at, plans>>
    BY <1>7 DEF TickEnds, TickUnchanged
  <2>4. QED
    BY <1>1, <2>1, <2>2, <2>3, FlagsTyped
<1>8. QED
  BY <1>3, <1>4, <1>5, <1>6, <1>7 DEF Interval

LEMMA StopToTyped ==
  ASSUME WTyped, NEW k \in Stoppers, NEW step \in StopStep, NEW wait \in SUBSET Watchers,
         StopTo(k, step, wait)
  PROVE  stop' \in [Stoppers -> Stop]
<1> DEFINE q == [stop[k] EXCEPT !.step = step, !.wait = wait]
<1>1. stop \in [Stoppers -> Stop]
  BY DEF WTyped, WatchTypeOK
<1>2. q \in Stop
  BY <1>1 DEF Stop
<1>3. stop' = [stop EXCEPT ![k] = q]
  BY DEF StopTo
<1> HIDE DEF q
<1>4. QED
  BY <1>1, <1>2, <1>3

LEMMA StopBeginTyped ==
  ASSUME WTyped, NEW k \in Stoppers, StopBegin(k)
  PROVE  WTyped'
<1>1. stop' \in [Stoppers -> Stop]
  BY StopToTyped DEF StopBegin, StopStep
<1> DEFINE Mgr == [stopping : BOOLEAN, gen : Nat, sched : BOOLEAN, fired : BOOLEAN,
                   due : BOOLEAN]
<1>0. mgr \in Mgr
  BY DEF WTyped, WatchTypeOK
<1>n. mgr.gen + 1 \in Nat
  BY <1>0
<1> DEFINE next == mgr.gen + 1
<1>e. mgr' = [mgr EXCEPT !.stopping = TRUE, !.gen = next, !.sched = FALSE]
  BY DEF StopBegin
<1> HIDE DEF next
<1>2. mgr' \in Mgr
  BY <1>0, <1>n, <1>e DEF next
<1>3. UNCHANGED <<ticker, watch, at, herdr, moves, index, running, scan, plans>>
  BY DEF StopBegin, StopUnchanged
<1>4. ticker \in [step : {"idle", "look", "refresh", "rescan"},
                  todo : SUBSET Watchers, awaited : SUBSET Stoppers]
      /\ \A w \in ticker.todo : HasSession(w)
  BY DEF WTyped, WatchTypeOK, Seated
<1>5. QED
  BY <1>1, <1>2, <1>3, <1>4, ScansTyped, FlagsTyped

LEMMA StopStepsTyped ==
  ASSUME WTyped, NEW k \in Stoppers, StopSteps(k)
  PROVE  WTyped'
<1> DEFINE Ticker == [step : {"idle", "look", "refresh", "rescan"},
                      todo : SUBSET Watchers, awaited : SUBSET Stoppers]
<1>1. /\ ticker \in Ticker /\ \A w \in ticker.todo : HasSession(w)
      /\ mgr \in [stopping : BOOLEAN, gen : Nat, sched : BOOLEAN, fired : BOOLEAN,
                  due : BOOLEAN]
      /\ stop \in [Stoppers -> Stop]
  BY DEF WTyped, WatchTypeOK, Seated
<1>2. Retiring \subseteq Watchers /\ Current \subseteq Watchers
  BY DEF Retiring, Current, WTyped, WatchTypeOK
<1>3. ASSUME stop' \in [Stoppers -> Stop], ticker' \in Ticker, ticker'.todo = ticker.todo,
             UNCHANGED <<mgr, watch, at>>, StopUnchanged
      PROVE  WTyped'
  BY <1>1, <1>3, ScansTyped, FlagsTyped DEF StopUnchanged
<1>4. CASE StopAborts(k)
  <2>1. stop' \in [Stoppers -> Stop]
    <3>1. StopTo(k, "await", Current \cup Retiring) \/ StopTo(k, "ending", Current \cup Retiring)
      BY <1>4 DEF StopAborts
    <3>2. QED
      BY <1>2, <3>1, StopToTyped DEF StopStep
  <2>2. WatchersKept
    BY <1>4, TakeDownKept DEF StopAborts, Retire
  <2>3. UNCHANGED <<mgr, ticker, herdr, moves, index, running, scan, plans>>
    BY <1>4 DEF StopAborts, StopUnchanged
  <2>4. WatchTypeOK'
    BY <2>1, <2>2, <2>3 DEF WTyped, WatchTypeOK, WatchersKept
  <2>5. \A w \in ticker'.todo : HasSession(w)'
    BY <1>1, <2>2, <2>3 DEF WatchersKept
  <2>6. Seated'
    BY <2>2, <2>3, <2>5 DEF WTyped, Seated, WatchersKept
  <2>7. QED
    BY <2>4, <2>6 DEF WTyped
<1>5. CASE StopLooks(k)
  <2>1. stop' \in [Stoppers -> Stop]
    <3>1. StopTo(k, "done", {}) \/ StopTo(k, "tick", {})
      BY <1>5 DEF StopLooks
    <3>2. QED
      BY <3>1, StopToTyped DEF StopStep
  <2>2. ticker' \in Ticker /\ ticker'.todo = ticker.todo
    BY <1>1, <1>5 DEF StopLooks
  <2>3. UNCHANGED <<mgr, watch, at>> /\ StopUnchanged
    BY <1>5 DEF StopLooks
  <2>4. QED
    BY <1>3, <2>1, <2>2, <2>3
<1>6. CASE StopTicked(k)
  <2>1. StopTo(k, "drain", Retiring) /\ UNCHANGED <<mgr, ticker, watch, at>> /\ StopUnchanged
    BY <1>6 DEF StopTicked
  <2>2. stop' \in [Stoppers -> Stop]
    BY <1>2, <2>1, StopToTyped DEF StopStep
  <2>3. QED
    BY <1>1, <1>3, <2>1, <2>2
<1>7. CASE StopDrains(k)
  <2> DEFINE q == [step |-> "last", wait |-> {}, graceless |-> plans # {}]
  <2>1. q \in Stop
    BY DEF Stop, StopStep
  <2>2. stop' = [stop EXCEPT ![k] = q] /\ UNCHANGED <<mgr, ticker, watch, at>> /\ StopUnchanged
    BY <1>7 DEF StopDrains
  <2> HIDE DEF q
  <2>3. stop' \in [Stoppers -> Stop]
    BY <1>1, <2>1, <2>2
  <2>4. QED
    BY <1>1, <1>3, <2>2, <2>3
<1>8. CASE StopEnds(k)
  <2>1. StopTo(k, "done", {}) /\ UNCHANGED <<mgr, ticker, watch, at>> /\ StopUnchanged
    BY <1>8 DEF StopEnds
  <2>2. stop' \in [Stoppers -> Stop]
    BY <2>1, StopToTyped DEF StopStep
  <2>3. QED
    BY <1>1, <1>3, <2>1, <2>2
<1>9. QED
  BY <1>4, <1>5, <1>6, <1>7, <1>8 DEF StopSteps

LEMMA StartTyped ==
  ASSUME WTyped, StartBegins \/ StartArms
  PROVE  WTyped'
<1>1. /\ ticker \in [step : {"idle", "look", "refresh", "rescan"},
                     todo : SUBSET Watchers, awaited : SUBSET Stoppers]
      /\ \A w \in ticker.todo : HasSession(w)
      /\ stop \in [Stoppers -> Stop] /\ mgr.gen \in Nat
  BY DEF WTyped, WatchTypeOK, Seated
<1> DEFINE Mgr == [stopping : BOOLEAN, gen : Nat, sched : BOOLEAN, fired : BOOLEAN,
                   due : BOOLEAN]
<1>0. mgr \in Mgr
  BY DEF WTyped, WatchTypeOK
<1>n. mgr.gen + 1 \in Nat
  BY <1>0
<1>b. ASSUME StartBegins PROVE mgr' \in Mgr
  BY <1>0, <1>n, <1>b DEF StartBegins
<1>a. ASSUME StartArms PROVE mgr' \in Mgr
  BY <1>0, <1>a DEF StartArms
<1>2. mgr' \in Mgr
  BY <1>a, <1>b
<1>3. UNCHANGED <<ticker, stop, watch, at, herdr, moves, index, running, plans>>
  BY DEF StartBegins, StartArms
<1>4. \/ ScanTo("start", [NoScan EXCEPT !.step = "list", !.gen = mgr.gen + 1])
      \/ ScanTo("start", NoScan)
  BY DEF StartBegins, StartArms
<1>5. mgr.gen + 1 \in Nat
  BY <1>1
<1>6. scan' \in [Scanners -> Scan] /\ \A k \in Scanners : CurTyped(scan'[k])
  <2>1. CurTyped([NoScan EXCEPT !.step = "list", !.gen = mgr.gen + 1])
    BY <1>5, ScansTyped
  <2>2. QED
    BY <1>4, <2>1, ScansTyped, ScanToTyped DEF Scanners
<1>7. QED
  BY <1>1, <1>2, <1>3, <1>6, FlagsTyped

\* An event for streams, or the end of connections.
LEMMA HerdrFlags ==
  ASSUME WTyped, NEW s \in Sessions, AgentMoves(s) \/ PanesMove(s) \/ SessionMoves(s)
  PROVE  FlagsOnly
<1>1. \A w \in Watchers : watch[w] \in Watcher
  BY DEF WTyped, WatchTypeOK
<1>2. ASSUME NEW W, NEW e \in {"status", "topology"}, watch' = Queued(W, e)
      PROVE  FlagsOnly
  <2> DEFINE q(w) == [watch[w] EXCEPT !.inbox = @ \cup {e}]
  <2>1. \A w \in Watchers : /\ q(w) \in Watcher /\ q(w).step = watch[w].step
                            /\ q(w).session = watch[w].session
                            /\ q(w).retired = watch[w].retired
    BY <1>1 DEF Watcher
  <2>2. watch' = [w \in Watchers |-> IF w \in W THEN q(w) ELSE watch[w]]
    BY <1>2 DEF Queued
  <2> HIDE DEF q
  <2>3. QED
    BY <1>1, <2>1, <2>2 DEF FlagsOnly
<1>3. CASE AgentMoves(s)
  <2>1. PICK p \in herdr[s].panes :
          watch' = Queued({w \in Streams(s) : p \in watch[w].sub}, "status")
    BY <1>3 DEF AgentMoves
  <2>2. QED
    BY <1>2, <2>1
<1>4. CASE PanesMove(s)
  BY <1>2, <1>4 DEF PanesMove
<1>5. CASE SessionMoves(s)
  <2> DEFINE q(w) == [watch[w] EXCEPT !.client = "gone"]
  <2>1. \A w \in Watchers : /\ q(w) \in Watcher /\ q(w).step = watch[w].step
                            /\ q(w).session = watch[w].session
                            /\ q(w).retired = watch[w].retired
    BY <1>1 DEF Watcher
  <2>2. watch' = [w \in Watchers |->
                    IF herdr[s].up /\ watch[w].session = s /\ watch[w].client = "open"
                    THEN q(w) ELSE watch[w]]
    BY <1>5 DEF SessionMoves
  <2> HIDE DEF q
  <2>3. QED
    BY <1>1, <2>1, <2>2 DEF FlagsOnly
<1>6. QED
  BY <1>3, <1>4, <1>5

LEMMA HerdrTyped ==
  ASSUME WTyped, HerdrMoves
  PROVE  WTyped'
<1>1. PICK s \in Sessions : AgentMoves(s) \/ PanesMove(s) \/ SessionMoves(s)
  BY DEF HerdrMoves
<1>2. FlagsOnly
  BY <1>1, HerdrFlags
<1>3. UNCHANGED <<index, running, mgr, ticker, scan, at, plans, stop>>
  BY <1>1 DEF AgentMoves, PanesMove, SessionMoves, HerdrUnchanged
<1>4. moves' \in 0..MaxMoves
  BY <1>1, WatchAssumption DEF AgentMoves, PanesMove, SessionMoves, WTyped, WatchTypeOK
<1>5. herdr' \in [Sessions -> [up : BOOLEAN, panes : SUBSET Panes, turn : 0..MaxTurn]]
  <2> DEFINE Herd == [up : BOOLEAN, panes : SUBSET Panes, turn : 0..MaxTurn]
  <2>1. herdr \in [Sessions -> Herd]
    BY DEF WTyped, WatchTypeOK
  <2>2. CASE AgentMoves(s)
    BY <2>1, <2>2, WatchAssumption DEF AgentMoves
  <2>3. CASE PanesMove(s)
    BY <2>1, <2>3 DEF PanesMove
  <2>4. CASE SessionMoves(s)
    BY <2>1, <2>4 DEF SessionMoves
  <2>5. QED
    BY <1>1, <2>2, <2>3, <2>4
<1>6. QED
  BY <1>2, <1>3, <1>4, <1>5, FlagsOnlyTyped DEF WTyped, WatchTypeOK

LEMMA PlanEndsTyped ==
  ASSUME WTyped, NEW p \in plans, PlanEnds(p)
  PROVE  WTyped'
<1>1. FlagsOnly
  BY DEF PlanEnds, FlagsOnly, WTyped, WatchTypeOK
<1>2. QED
  BY <1>1, FlagsOnlyTyped DEF PlanEnds, WTyped, WatchTypeOK

----------------------------------------------------------------------------
(* Types: the process around it *)

LEMMA WatchUnchangedTyped == ASSUME WTyped, UNCHANGED wmVars PROVE WTyped'
<1>1. WatchTypeOK'
  BY DEF WTyped, WatchTypeOK, wmVars
<1>2. Seated'
  BY DEF WTyped, Seated, HasSession, wmVars
<1>3. QED
  BY <1>1, <1>2 DEF WTyped

LEMMA TypedParts == Typed <=> WTyped /\ LifeTypeOK /\ InSequence
BY DEF Typed, TypeOK, WTyped, LifeTypeOK

LEMMA ReconStopsTyped ==
  ASSUME LifeTypeOK, NEW k \in {"main", "stop"}, ReconStops(k) \/ recon' = recon
  PROVE  recon' \in [armed : BOOLEAN, fired : BOOLEAN, run : {"idle", "reconcile", "drain"},
                     awaited : SUBSET {"main", "stop"}]
<1> DEFINE Recon == [armed : BOOLEAN, fired : BOOLEAN, run : {"idle", "reconcile", "drain"},
                     awaited : SUBSET {"main", "stop"}]
           W == IF recon.run = "idle" THEN recon.awaited ELSE recon.awaited \cup {k}
<1>1. recon \in Recon
  BY DEF LifeTypeOK
<1>2. W \in SUBSET {"main", "stop"}
  BY <1>1
<1>3. recon' = recon \/ recon' = [recon EXCEPT !.armed = FALSE, !.awaited = W]
  BY DEF ReconStops
<1> HIDE DEF W
<1>4. QED
  BY <1>1, <1>2, <1>3

LEMMA StartupTyped ==
  ASSUME Typed, Startup
  PROVE  Typed'
<1> DEFINE Main == [step : 0..8, busy : BOOLEAN, done : BOOLEAN, fail : 0..6]
<1>1. WTyped /\ LifeTypeOK /\ InSequence
  BY TypedParts
<1>2. main \in Main
  BY <1>1 DEF LifeTypeOK
<1>3. UNCHANGED <<shut, signals, force>>
  BY DEF Startup, Boot, StepBegins, StepEnds, StepFails, Unwind, Unwound
<1>a. job' = job \/ job' = [job EXCEPT !["server"] = "failed"]
  BY DEF Startup, Boot, StepBegins, StepEnds, StepFails, Unwind, Unwound
<1>b. job' \in [Jobs -> {"none", "runs", "left", "done", "failed"}]
  BY <1>1, <1>a DEF LifeTypeOK
<1>4. InSequence'
  BY <1>1, <1>3 DEF InSequence
<1>5. ASSUME WTyped', LifeTypeOK' PROVE Typed'
  BY <1>4, <1>5 DEF Typed, TypeOK, WTyped, LifeTypeOK
<1>6. CASE Boot
  <2>1. WTyped'
    BY <1>1, <1>6, WatchUnchangedTyped DEF Boot
  <2>2. main' \in Main
    BY <1>2, <1>6 DEF Boot
  <2>3. /\ files' = {"owner"} /\ db' \in {"none", "open", "closed"}
        /\ handler' \in {"default", "stop", "taken", "force"} /\ exit' \in {None, 0, 1, Killed}
        /\ UNCHANGED <<mu, recon, aborted>>
    BY <1>1, <1>6 DEF Boot, LifeTypeOK
  <2>4. LifeTypeOK'
    BY <1>1, <1>3, <1>b, <2>2, <2>3 DEF LifeTypeOK
  <2>5. QED
    BY <1>5, <2>1, <2>4
<1>7. CASE StepBegins
  <2>1. WTyped'
    <3>1. StartBegins \/ UNCHANGED wmVars
      BY <1>7 DEF StepBegins
    <3>2. QED
      BY <1>1, <3>1, StartTyped, WatchUnchangedTyped
  <2>2. main' \in Main
    BY <1>2, <1>7 DEF StepBegins
  <2>3. mu' \in {"free", "startup", "stop"}
        /\ UNCHANGED <<recon, aborted, handler, files, db, exit>>
    BY <1>1, <1>7 DEF StepBegins, LifeTypeOK
  <2>4. LifeTypeOK'
    BY <1>1, <1>3, <1>b, <2>2, <2>3 DEF LifeTypeOK
  <2>5. QED
    BY <1>5, <2>1, <2>4
<1>8. CASE StepEnds
  <2>1. WTyped'
    <3>1. StartArms \/ UNCHANGED wmVars
      BY <1>8 DEF StepEnds
    <3>2. QED
      BY <1>1, <3>1, StartTyped, WatchUnchangedTyped
  <2>2. main' \in Main
    <3>1. main.step \in 1..7
      BY <1>8 DEF StepEnds, Starting
    <3>2. main' = [main EXCEPT !.busy = FALSE, !.step = main.step + 1, !.done = (main.step = 7)]
      BY <1>8 DEF StepEnds, StepOver
    <3>3. main.step + 1 \in 0..8
      BY <3>1
    <3> DEFINE next == main.step + 1
               last == main.step = 7
    <3>4. main' = [main EXCEPT !.busy = FALSE, !.step = next, !.done = last]
      BY <3>2
    <3>5. next \in 0..8 /\ last \in BOOLEAN
      BY <3>3
    <3> HIDE DEF next, last
    <3>6. QED
      BY <1>2, <3>4, <3>5
  <2>3. files' \subseteq {"owner", "pid", "socket"}
    <3>1. files' \in {files, files \cup {"socket"}, files \cup {"pid"}}
      BY <1>8 DEF StepEnds
    <3>2. QED
      BY <1>1, <3>1 DEF LifeTypeOK
  <2>4. recon' \in [armed : BOOLEAN, fired : BOOLEAN, run : {"idle", "reconcile", "drain"},
                    awaited : SUBSET {"main", "stop"}]
    BY <1>1, <1>8 DEF StepEnds, LifeTypeOK
  <2>5. mu' = "free" /\ UNCHANGED <<aborted, handler, db, exit>>
    BY <1>8 DEF StepEnds, StepOver
  <2>6. LifeTypeOK'
    BY <1>1, <1>3, <1>b, <2>2, <2>3, <2>4, <2>5 DEF LifeTypeOK
  <2>7. QED
    BY <1>5, <2>1, <2>6
<1>9. CASE StepFails
  <2>1. WTyped'
    <3>1. UNCHANGED <<herdr, moves, index, running, mgr, ticker, watch, at, plans, stop>>
      BY <1>9 DEF StepFails
    <3>2. ScanTo("start", NoScan)
      BY <1>9 DEF StepFails, ScanTo
    <3>3. scan' \in [Scanners -> Scan] /\ \A k \in Scanners : CurTyped(scan'[k])
      BY <1>1, <3>2, ScansTyped, ScanToTyped DEF Scanners
    <3>4. /\ mgr \in [stopping : BOOLEAN, gen : Nat, sched : BOOLEAN, fired : BOOLEAN,
                      due : BOOLEAN]
          /\ ticker \in [step : {"idle", "look", "refresh", "rescan"},
                         todo : SUBSET Watchers, awaited : SUBSET Stoppers]
          /\ \A w \in ticker.todo : HasSession(w)
          /\ stop \in [Stoppers -> Stop]
      BY <1>1 DEF WTyped, WatchTypeOK, Seated
    <3>5. QED
      BY <1>1, <3>1, <3>3, <3>4, FlagsTyped
  <2>2. main' \in Main
    <3>1. \/ main' = [main EXCEPT !.busy = FALSE, !.done = TRUE]
          \/ main' = [main EXCEPT !.fail = 1]
      BY <1>9 DEF StepFails
    <3>2. [main EXCEPT !.busy = FALSE, !.done = TRUE] \in Main
      BY <1>2
    <3>3. [main EXCEPT !.fail = 1] \in Main
      BY <1>2
    <3>4. QED
      BY <3>1, <3>2, <3>3
  <2>3. /\ mu' \in {"free", "startup", "stop"} /\ aborted' \in BOOLEAN
        /\ handler' \in {"default", "stop", "taken", "force"}
    BY <1>1, <1>9 DEF StepFails, LifeTypeOK
  <2>4. UNCHANGED <<recon, files, db, exit>>
    BY <1>9 DEF StepFails
  <2>5. LifeTypeOK'
    BY <1>1, <1>3, <1>b, <2>2, <2>3, <2>4 DEF LifeTypeOK
  <2>6. QED
    BY <1>5, <2>1, <2>5
<1>10. CASE Unwind
  <2>1. main' \in Main
    <3>1. main.fail \in 1..5 /\ main' = [main EXCEPT !.fail = main.fail + 1]
      BY <1>10 DEF Unwind
    <3>2. main.fail + 1 \in 0..6
      BY <3>1
    <3>3. QED
      BY <1>2, <3>1, <3>2
  <2>2. UNCHANGED wmVars \/ StopBegin("fail")
    BY <1>10 DEF Unwind
  <2>3. WTyped'
    BY <1>1, <2>2, WatchUnchangedTyped, StopBeginTyped DEF Stoppers
  <2>4. (recon' = recon \/ ReconStops("main")) /\ files' \subseteq files
    BY <1>10 DEF Unwind
  <2>5. recon' \in [armed : BOOLEAN, fired : BOOLEAN, run : {"idle", "reconcile", "drain"},
                    awaited : SUBSET {"main", "stop"}]
    BY <1>1, <2>4, ReconStopsTyped
  <2>6. UNCHANGED <<mu, aborted, handler, db, exit>>
    BY <1>10 DEF Unwind
  <2>7. LifeTypeOK'
    BY <1>1, <1>3, <1>b, <2>1, <2>4, <2>5, <2>6 DEF LifeTypeOK
  <2>8. QED
    BY <1>5, <2>3, <2>7
<1>11. CASE Unwound
  <2>1. main' \in Main
    BY <1>2, <1>11 DEF Unwound
  <2>2. /\ db' \in {"none", "open", "closed"} /\ mu' \in {"free", "startup", "stop"}
        /\ exit' \in {None, 0, 1, Killed}
    BY <1>1, <1>11 DEF Unwound, LifeTypeOK
  <2>3. UNCHANGED <<recon, aborted, handler, files>>
    BY <1>11 DEF Unwound
  <2>4. LifeTypeOK'
    BY <1>1, <1>3, <1>b, <2>1, <2>2, <2>3 DEF LifeTypeOK
  <2>5. WTyped'
    BY <1>1, <1>11, WatchUnchangedTyped DEF Unwound
  <2>6. QED
    BY <1>5, <2>4, <2>5
<1>12. QED
  BY <1>6, <1>7, <1>8, <1>9, <1>10, <1>11 DEF Startup

\* A step that leaves the watch manager alone.
LEMMA ProcessTyped ==
  ASSUME Typed, UNCHANGED <<wmVars, main>>,
         mu' \in {"free", "startup", "stop"},
         shut' \in [step : {"idle", "taken", "detached", "waiting", "job", "race", "close",
                            "cleanup", "exit"},
                    i : 0..5, late : BOOLEAN, snap : SUBSET (Sessions \X (0..MaxTurn)),
                    code : {0, 1}],
         shut'.step \in {"job", "race"} => shut'.i \in 1..4,
         job' \in [Jobs -> {"none", "runs", "left", "done", "failed"}],
         recon' \in [armed : BOOLEAN, fired : BOOLEAN, run : {"idle", "reconcile", "drain"},
                     awaited : SUBSET {"main", "stop"}],
         aborted' \in BOOLEAN, handler' \in {"default", "stop", "taken", "force"},
         signals' \in 0..MaxSignals,
         files' \subseteq {"owner", "pid", "socket"},
         force' \in [step : {"none", "pid", "socket", "lock", "exit", "done"},
                     met : {"none"} \cup {StartupSteps[n] : n \in 1..7}],
         db' \in {"none", "open", "closed"},
         exit' \in {None, 0, 1, Killed}
  PROVE  Typed'
<1>1. WTyped /\ LifeTypeOK
  BY TypedParts
<1>2. WTyped'
  BY <1>1, WatchUnchangedTyped
<1>3. LifeTypeOK' /\ InSequence'
  BY <1>1 DEF LifeTypeOK, InSequence
<1>4. QED
  BY <1>2, <1>3 DEF Typed, TypeOK, WTyped, LifeTypeOK

LEMMA SequenceTyped ==
  ASSUME Typed, Sequence
  PROVE  Typed'
<1> DEFINE ShutStep == {"idle", "taken", "detached", "waiting", "job", "race", "close",
                        "cleanup", "exit"}
           Shut == [step : ShutStep, i : 0..5, late : BOOLEAN,
                    snap : SUBSET (Sessions \X (0..MaxTurn)), code : {0, 1}]
           JobType == [Jobs -> {"none", "runs", "left", "done", "failed"}]
<1>1. WTyped /\ LifeTypeOK /\ InSequence
  BY TypedParts
<1>2. shut \in Shut /\ job \in JobType
  BY <1>1 DEF LifeTypeOK
<1>3. \A step \in ShutStep : [shut EXCEPT !.step = step] \in Shut
                             /\ [shut EXCEPT !.step = step].i = shut.i
                             /\ [shut EXCEPT !.step = step].step = step
  BY <1>2
<1>4. CASE StopRearms
  <2>1. ShutTo("detached") \/ ShutTo("waiting")
    BY <1>4 DEF StopRearms
  <2>2. shut' \in Shut /\ shut'.step \in {"detached", "waiting"}
    BY <1>3, <2>1 DEF ShutTo
  <2>3. aborted' \in BOOLEAN /\ handler' \in {"default", "stop", "taken", "force"}
    BY <1>1, <1>4 DEF StopRearms, LifeTypeOK
  <2>4. UNCHANGED <<wmVars, main, mu, job, recon, signals, files, force, db, exit>>
    BY <1>4 DEF StopRearms
  <2>5. QED
    BY <1>1, <2>2, <2>3, <2>4, ProcessTyped DEF LifeTypeOK
<1>5. CASE TakesOver
  <2> DEFINE late == ~main.done
  <2>1. shut' = [shut EXCEPT !.step = "job", !.i = 1, !.late = late]
    BY <1>5 DEF TakesOver
  <2>2. late \in BOOLEAN
    BY <1>1 DEF LifeTypeOK
  <2> HIDE DEF late
  <2>3. shut' \in Shut /\ shut'.i = 1
    <3>1. /\ shut'.step = "job" /\ shut'.i = 1 /\ shut'.late = late
          /\ shut'.snap = shut.snap /\ shut'.code = shut.code
          /\ shut' = [step |-> shut'.step, i |-> shut'.i, late |-> shut'.late,
                      snap |-> shut'.snap, code |-> shut'.code]
      BY <1>2, <2>1
    <3>2. 1 \in 0..5
      OBVIOUS
    <3>3. QED
      BY <1>2, <2>2, <3>1, <3>2
  <2>4. mu' \in {"free", "startup", "stop"}
    BY <1>1, <1>5 DEF TakesOver, LifeTypeOK
  <2>5. UNCHANGED <<wmVars, main, job, recon, aborted, handler, signals, files, force, db, exit>>
    BY <1>5 DEF TakesOver
  <2>6. QED
    BY <1>1, <2>3, <2>4, <2>5, ProcessTyped DEF LifeTypeOK
<1>6. CASE JobStarts
  <2> DEFINE snap == IF Job = "drain" THEN plans ELSE shut.snap
  <2>1. shut' = [shut EXCEPT !.step = "race", !.snap = snap]
    BY <1>6 DEF JobStarts
  <2>2. snap \in SUBSET (Sessions \X (0..MaxTurn))
    BY <1>1, <1>2 DEF WTyped, WatchTypeOK
  <2> HIDE DEF snap
  <2>3. shut' \in Shut /\ shut'.i = shut.i
    BY <1>2, <2>1, <2>2
  <2>4. job' \in JobType
    BY <1>2, <1>6 DEF JobStarts
  <2>5. UNCHANGED wmVars \/ StopBegin("seq")
    BY <1>6 DEF JobStarts
  <2>6. WTyped'
    BY <1>1, <2>5, WatchUnchangedTyped, StopBeginTyped DEF Stoppers
  <2>7. recon' \in [armed : BOOLEAN, fired : BOOLEAN, run : {"idle", "reconcile", "drain"},
                    awaited : SUBSET {"main", "stop"}]
    BY <1>1, <1>6, ReconStopsTyped DEF JobStarts
  <2>8. UNCHANGED <<main, mu, aborted, handler, signals, files, force, db, exit>>
    BY <1>6 DEF JobStarts
  <2>9. LifeTypeOK'
    BY <1>1, <2>3, <2>4, <2>7, <2>8 DEF LifeTypeOK
  <2>10. InSequence'
    BY <1>6, <2>3 DEF JobStarts, InSequence
  <2>11. QED
    BY <2>6, <2>9, <2>10 DEF Typed, TypeOK, WTyped, LifeTypeOK
<1>7. CASE JobRaced
  <2>1. shut.i \in 1..4
    BY <1>1, <1>7 DEF JobRaced, RaceOver, InSequence
  <2> DEFINE step == IF shut.i = 4 THEN "close" ELSE "job"
             next == shut.i + 1
  <2>2. \/ shut' = [shut EXCEPT !.step = "cleanup", !.code = 1]
        \/ shut' = [shut EXCEPT !.step = step, !.i = next, !.snap = {}]
    BY <1>7 DEF JobRaced, AfterFailure
  <2>3. next \in 0..5 /\ step \in ShutStep /\ (step \in {"job", "race"} => next \in 1..4)
    BY <2>1
  <2> HIDE DEF step, next
  <2>4. shut' \in Shut
    <3>1. [shut EXCEPT !.step = "cleanup", !.code = 1] \in Shut
      BY <1>2
    <3>2. [shut EXCEPT !.step = step, !.i = next, !.snap = {}] \in Shut
      BY <1>2, <2>3
    <3>3. QED
      BY <2>2, <3>1, <3>2
  <2>5. shut'.step \in {"job", "race"} => shut'.i \in 1..4
    BY <1>2, <2>2, <2>3
  <2>6. job' \in JobType
    BY <1>2, <1>7 DEF JobRaced
  <2>7. UNCHANGED <<wmVars, main, mu, recon, aborted, handler, signals, files, force, db, exit>>
    BY <1>7 DEF JobRaced
  <2>8. QED
    BY <1>1, <2>4, <2>5, <2>6, <2>7, ProcessTyped DEF LifeTypeOK
<1>8. CASE Closes \/ Cleanup
  <2>1. ShutTo("cleanup") \/ ShutTo("exit")
    BY <1>8 DEF Closes, Cleanup
  <2>2. shut' \in Shut /\ shut'.step \in {"cleanup", "exit"}
    BY <1>3, <2>1 DEF ShutTo
  <2>3. files' \subseteq {"owner", "pid", "socket"} /\ db' \in {"none", "open", "closed"}
    BY <1>1, <1>8 DEF Closes, Cleanup, LifeTypeOK
  <2>4. UNCHANGED <<wmVars, main, mu, job, recon, aborted, handler, signals, force, exit>>
    BY <1>8 DEF Closes, Cleanup
  <2>5. QED
    BY <1>1, <2>2, <2>3, <2>4, ProcessTyped DEF LifeTypeOK
<1>9. CASE Exits
  <2>1. exit' \in {0, 1}
    BY <1>2, <1>9 DEF Exits
  <2>2. UNCHANGED <<wmVars, main, mu, shut, job, recon, aborted, handler, signals, files,
                    force, db>>
    BY <1>9 DEF Exits
  <2>3. QED
    BY <1>1, <2>1, <2>2, ProcessTyped DEF LifeTypeOK, InSequence
<1>10. QED
  BY <1>4, <1>5, <1>6, <1>7, <1>8, <1>9 DEF Sequence

LEMMA SignalTyped ==
  ASSUME Typed, Signal
  PROVE  Typed'
<1>1. WTyped /\ LifeTypeOK /\ InSequence
  BY TypedParts
<1>2. shut' = shut \/ shut' = [shut EXCEPT !.step = "taken"]
  BY <1>1 DEF Signal, LifeTypeOK
<1>3. /\ shut' \in [step : {"idle", "taken", "detached", "waiting", "job", "race", "close",
                            "cleanup", "exit"},
                    i : 0..5, late : BOOLEAN, snap : SUBSET (Sessions \X (0..MaxTurn)),
                    code : {0, 1}]
      /\ shut'.step \in {"job", "race"} => shut'.i \in 1..4
  BY <1>1, <1>2 DEF LifeTypeOK, InSequence
<1>4. signals' \in 0..MaxSignals
  BY <1>1, SignalAssumption DEF Signal, LifeTypeOK
<1>5. /\ handler' \in {"default", "stop", "taken", "force"} /\ exit' \in {None, 0, 1, Killed}
  BY <1>1 DEF Signal, LifeTypeOK
<1>6. UNCHANGED <<wmVars, main, mu, job, recon, aborted, files, db>>
  BY DEF Signal
<1> DEFINE Met == {"none"} \cup {StartupSteps[i] : i \in 1..7}
           met == IF Starting /\ main.busy THEN Step ELSE "none"
<1>7. force' \in [step : {"none", "pid", "socket", "lock", "exit", "done"}, met : Met]
  <2>1. force' = force \/ (handler = "force" /\ force' = [step |-> "pid", met |-> met])
    BY <1>1 DEF Signal, LifeTypeOK
  <2>2. handler = "force" => met \in Met
    BY DEF Starting, Step
  <2> HIDE DEF met, Met
  <2>3. QED
    BY <1>1, <2>1, <2>2 DEF LifeTypeOK, Met
<1>8. QED
  BY <1>1, <1>3, <1>4, <1>5, <1>6, <1>7, ProcessTyped DEF LifeTypeOK

LEMMA ForcedExitTyped ==
  ASSUME Typed, ForcedExit
  PROVE  Typed'
<1>1. WTyped /\ LifeTypeOK /\ InSequence
  BY TypedParts
<1>2. UNCHANGED <<wmVars, main, mu, shut, job, recon, aborted, handler, signals, db>>
      /\ files' \subseteq files /\ exit' \in {exit, 0}
  BY DEF ForcedExit
<1> DEFINE Met == {"none"} \cup {StartupSteps[i] : i \in 1..7}
<1>3. \E step \in {"socket", "lock", "exit", "done"} : force' = [force EXCEPT !.step = step]
  BY DEF ForcedExit
<1>4. force \in [step : {"none", "pid", "socket", "lock", "exit", "done"}, met : Met]
  BY <1>1 DEF LifeTypeOK
<1> HIDE DEF Met
<1>5. force' \in [step : {"none", "pid", "socket", "lock", "exit", "done"}, met : Met]
  BY <1>3, <1>4
<1>6. QED
  BY <1>1, <1>2, <1>5, ProcessTyped DEF LifeTypeOK, InSequence, Met

LEMMA PeriodicTyped ==
  ASSUME Typed, Periodic \/ \E j \in Jobs : JobEnds(j)
  PROVE  Typed'
<1>1. WTyped /\ LifeTypeOK /\ InSequence
  BY TypedParts
<1>2. CASE Periodic
  <2>1. recon' \in [armed : BOOLEAN, fired : BOOLEAN, run : {"idle", "reconcile", "drain"},
                    awaited : SUBSET {"main", "stop"}]
    <3>1. recon \in [armed : BOOLEAN, fired : BOOLEAN, run : {"idle", "reconcile", "drain"},
                     awaited : SUBSET {"main", "stop"}]
      BY <1>1 DEF LifeTypeOK
    <3>2. CASE ReconTimer
      BY <3>1, <3>2 DEF ReconTimer
    <3>3. CASE ReconTick
      <4> DEFINE run == IF recon.run = "idle" THEN "reconcile" ELSE recon.run
      <4>1. run \in {"idle", "reconcile", "drain"}
        BY <3>1
      <4>2. recon' = [recon EXCEPT !.fired = FALSE, !.run = run]
        BY <3>3 DEF ReconTick
      <4> HIDE DEF run
      <4>3. QED
        BY <3>1, <4>1, <4>2
    <3>4. CASE ReconRuns
      <4>1. recon' = [recon EXCEPT !.run = "drain"]
            \/ recon' = [recon EXCEPT !.run = "idle", !.awaited = {}]
        BY <3>4 DEF ReconRuns
      <4>2. QED
        BY <3>1, <4>1
    <3>5. QED
      BY <1>2, <3>2, <3>3, <3>4 DEF Periodic
  <2>2. UNCHANGED <<wmVars, main, mu, shut, job, aborted, handler, signals, files, force, db,
                    exit>>
    BY <1>2 DEF Periodic, ReconTimer, ReconTick, ReconRuns
  <2>3. QED
    BY <1>1, <2>1, <2>2, ProcessTyped DEF LifeTypeOK, InSequence
<1>3. CASE \E j \in Jobs : JobEnds(j)
  <2>1. PICK j \in Jobs : JobEnds(j)
    BY <1>3
  <2>2. job' = [job EXCEPT ![j] = "done"] \/ job' = [job EXCEPT ![j] = "failed"]
    BY <2>1 DEF JobEnds
  <2>3. job' \in [Jobs -> {"none", "runs", "left", "done", "failed"}]
    BY <1>1, <2>2 DEF LifeTypeOK
  <2>4. files' \in {files, files \ {"socket"}}
    BY <2>1 DEF JobEnds
  <2>5. UNCHANGED <<wmVars, main, mu, shut, recon, aborted, handler, signals, force, db, exit>>
    BY <2>1 DEF JobEnds
  <2>6. QED
    BY <1>1, <2>3, <2>4, <2>5, ProcessTyped DEF LifeTypeOK, InSequence
<1>4. QED
  BY <1>2, <1>3

LEMMA ManagerTyped ==
  ASSUME Typed, Manager \/ World
  PROVE  Typed'
<1>1. WTyped /\ LifeTypeOK /\ InSequence
  BY TypedParts
<1>2. WTyped'
  <2>1. CASE World
    BY <1>1, <2>1, HerdrTyped DEF World
  <2>2. CASE Manager
    BY <1>1, <2>2, LoopTyped, RescanTyped, IntervalTyped, StopStepsTyped, StopBeginTyped,
       PlanEndsTyped DEF Manager, Stoppers
  <2>3. QED
    BY <2>1, <2>2
<1>3. UNCHANGED lifeVars
  BY DEF Manager, World
<1>4. LifeTypeOK' /\ InSequence'
  BY <1>1, <1>3 DEF LifeTypeOK, InSequence, lifeVars
<1>5. QED
  BY <1>2, <1>4 DEF Typed, TypeOK, WTyped, LifeTypeOK

LEMMA InitTyped == Init => Typed
<1> SUFFICES ASSUME Init PROVE Typed
  OBVIOUS
<1>1. NoWatch \in Watcher /\ NoScan \in Scan /\ NoStop \in Stop
  BY DEF NoWatch, Watcher, LoopStep, NoScan, Scan, ScanStep, NoStop, Stop, StopStep
<1>2. WatchTypeOK
  BY <1>1, WatchAssumption DEF Init, WatchInit, WatchTypeOK
<1>3. Seated
  BY DEF Init, WatchInit, Seated, NoWatch, NoScan
<1>4. LifeTypeOK
  <2>1. main \in [step : 0..8, busy : BOOLEAN, done : BOOLEAN, fail : 0..6]
    BY DEF Init
  <2>2. job \in [Jobs -> {"none", "runs", "left", "done", "failed"}]
    BY DEF Init
  <2>3. recon \in [armed : BOOLEAN, fired : BOOLEAN, run : {"idle", "reconcile", "drain"},
                  awaited : SUBSET {"main", "stop"}]
    BY DEF Init, NoRun
  <2>4. shut \in [step : {"idle", "taken", "detached", "waiting", "job", "race", "close",
                         "cleanup", "exit"},
                 i : 0..5, late : BOOLEAN, snap : SUBSET (Sessions \X (0..MaxTurn)),
                 code : {0, 1}]
    BY DEF Init
  <2>5. /\ mu \in {"free", "startup", "stop"}
        /\ aborted \in BOOLEAN /\ handler \in {"default", "stop", "taken", "force"}
        /\ files \subseteq {"owner", "pid", "socket"} /\ db \in {"none", "open", "closed"}
        /\ exit \in {None, 0, 1, Killed}
    BY DEF Init
  <2>a. force \in [step : {"none", "pid", "socket", "lock", "exit", "done"},
                  met : {"none"} \cup {StartupSteps[i] : i \in 1..7}]
    BY DEF Init
  <2>6. signals \in 0..MaxSignals
    BY SignalAssumption DEF Init
  <2>7. QED
    BY <2>1, <2>2, <2>3, <2>4, <2>5, <2>6, <2>a DEF LifeTypeOK
<1>5. InSequence
  BY DEF Init, InSequence
<1>6. QED
  BY <1>2, <1>3, <1>4, <1>5 DEF Typed, TypeOK, LifeTypeOK

LEMMA NextTyped == Typed /\ [Next]_vars => Typed'
<1> SUFFICES ASSUME Typed, [Next]_vars PROVE Typed'
  OBVIOUS
<1>1. CASE Next
  BY <1>1, StartupTyped, SignalTyped, ForcedExitTyped, SequenceTyped, PeriodicTyped,
     ManagerTyped DEF Next
<1>2. CASE UNCHANGED vars
  <2>1. WTyped /\ LifeTypeOK /\ InSequence /\ UNCHANGED wmVars /\ UNCHANGED lifeVars
    BY <1>2, TypedParts DEF vars
  <2>2. WTyped'
    BY <2>1, WatchUnchangedTyped
  <2>3. LifeTypeOK' /\ InSequence'
    BY <2>1 DEF LifeTypeOK, InSequence, lifeVars
  <2>4. QED
    BY <2>2, <2>3 DEF Typed, TypeOK, WTyped, LifeTypeOK
<1>3. QED
  BY <1>1, <1>2

\* Every variable of the daemon and its watch manager keeps its type, for any
\* number of sessions, panes and watchers (TypeOK).
THEOREM TypeCorrect == Spec => []TypeOK
<1>1. Typed => TypeOK
  BY DEF Typed
<1>2. QED
  BY <1>1, InitTyped, NextTyped, PTL DEF Spec

----------------------------------------------------------------------------
(* What the process leaves behind *)

Sequenced == {"job", "race", "close", "cleanup", "exit"}
Leaving == {"close", "cleanup", "exit"}
Tidy ==
  /\ main.step = 0 => ~main.done /\ main.fail = 0 /\ shut.step = "idle"
  /\ handler = "stop" => main.step > 0 /\ shut.step = "idle"
  /\ main.fail > 0 => handler = "default" /\ shut.step = "idle"
  /\ main.fail = 6 => files \subseteq {"socket"} /\ (files = {} \/ job["server"] = "failed")
  /\ shut.step \in Sequenced /\ ~shut.late => main.done
  /\ shut.step \notin Sequenced
       => job["server"] = "none" \/ (main.fail = 6 /\ job["server"] = "failed")
  /\ \A j \in Jobs : job[j] = "failed" => j = "server"
  /\ shut.step = "race" => job[Job] \in {"runs", "done", "failed"}
  /\ shut.step \in Leaving => job["server"] \in {"done", "failed", "left"}
  /\ job["server"] = "done" /\ ~shut.late => "socket" \notin files
  /\ shut.step = "exit" /\ ~shut.late => files \subseteq {"socket"}

\* What a step may do to the files without leaving anything behind.
LEMMA StartupTidy ==
  ASSUME Typed, Tidy, Startup
  PROVE  Tidy'
<1>1. LifeTypeOK
  BY TypedParts
<1>2. UNCHANGED shut /\ (Unwind \/ UNCHANGED job)
  BY DEF Startup, Boot, StepBegins, StepEnds, StepFails, Unwind, Unwound
<1>3. main \in [step : 0..8, busy : BOOLEAN, done : BOOLEAN, fail : 0..6]
  BY <1>1 DEF LifeTypeOK
<1> DEFINE Rest ==
      /\ main'.step = 0 => ~main'.done /\ main'.fail = 0 /\ shut.step = "idle"
      /\ handler' = "stop" => main'.step > 0 /\ shut.step = "idle"
      /\ main'.fail > 0 => handler' = "default" /\ shut.step = "idle"
      /\ main'.fail = 6
           => files' \subseteq {"socket"} /\ (files' = {} \/ job["server"] = "failed")
      /\ main.done => main'.done
      /\ job["server"] = "done" /\ ~shut.late => "socket" \notin files'
      /\ shut.step = "exit" /\ ~shut.late => files' \subseteq {"socket"}
<1>4. ASSUME Rest, UNCHANGED job, main.fail = 6 => main'.fail = 6 PROVE Tidy'
  <2>1. Job' = Job
    BY <1>2 DEF Job
  <2>2. QED
    BY <1>2, <1>4, <2>1 DEF Tidy
<1>5. CASE Boot
  <2>1. main.step = 0 /\ ~main.done /\ main.fail = 0 /\ shut.step = "idle"
        /\ job["server"] = "none"
    BY <1>5 DEF Boot, Tidy, Sequenced
  <2>2. \/ main'.step = 1 /\ main'.done = main.done /\ main'.fail = main.fail
        \/ main' = main /\ handler' = handler
    BY <1>3, <1>5 DEF Boot
  <2>3. UNCHANGED job
    BY <1>5 DEF Boot
  <2>4. main'.fail = 0
    BY <2>1, <2>2
  <2>5. handler' = "stop" => main'.step > 0
    BY <2>1, <2>2 DEF Tidy
  <2>6. main'.step = 0 => ~main'.done
    BY <2>1, <2>2
  <2>7. Rest
    BY <2>1, <2>2, <2>4, <2>5, <2>6
  <2>8. QED
    BY <1>4, <2>1, <2>3, <2>7
<1>6. CASE StepBegins
  <2>1. main.step > 0 /\ main'.step = main.step /\ main.fail = 0 /\ main'.fail = 0
        /\ (main.done => main'.done)
    BY <1>3, <1>6 DEF StepBegins, Starting
  <2>2. UNCHANGED <<handler, files, job>>
    BY <1>6 DEF StepBegins
  <2>3. Rest
    BY <2>1, <2>2 DEF Tidy
  <2>4. QED
    BY <1>4, <2>1, <2>2, <2>3
<1>7. CASE StepEnds
  <2>1. main.step \in 1..7 /\ ~main.done /\ main.fail = 0
    BY <1>7 DEF StepEnds, Starting
  <2>2. main' = [main EXCEPT !.busy = FALSE, !.step = main.step + 1, !.done = (main.step = 7)]
    BY <1>7 DEF StepEnds, StepOver
  <2>3. main'.step = main.step + 1 /\ main'.fail = 0
    BY <1>3, <2>1, <2>2
  <2>4. main'.step > 0
    BY <2>1, <2>3
  <2>5. shut.step \in Sequenced => shut.late
    BY <2>1 DEF Tidy
  <2>6. shut.step = "exit" => shut.late
    BY <2>5 DEF Sequenced
  <2>7. job["server"] = "done" => shut.late
    BY <2>5 DEF Tidy
  <2>8. UNCHANGED <<handler, job>>
    BY <1>7 DEF StepEnds
  <2>9. Rest
    BY <2>1, <2>3, <2>4, <2>6, <2>7, <2>8 DEF Tidy
  <2>10. QED
    BY <1>4, <2>1, <2>8, <2>9
<1>8. CASE StepFails
  <2>1. main.step > 0 /\ ~main.done /\ main.fail = 0
    BY <1>3, <1>8 DEF StepFails, Starting
  <2>2. main'.step = main.step /\ main'.fail \in {0, 1}
    BY <1>3, <1>8, <2>1 DEF StepFails
  <2>3. UNCHANGED <<files, job>> /\ handler' \in {handler, "default"}
    BY <1>8 DEF StepFails
  <2>4. main'.fail = 0 \/ (handler' = "default" /\ shut.step = "idle")
    BY <1>3, <1>8, <2>1 DEF StepFails, ShutdownOwnsDaemon, Stopping
  <2>5. Rest
    BY <2>1, <2>2, <2>3, <2>4 DEF Tidy
  <2>6. QED
    BY <1>4, <2>1, <2>3, <2>5
<1>9. CASE Unwind
  <2>1. main.fail \in 1..5 /\ main' = [main EXCEPT !.fail = main.fail + 1]
    BY <1>9 DEF Unwind
  <2>2. main'.fail = main.fail + 1 /\ main'.step = main.step /\ main'.done = main.done
    BY <1>3, <2>1
  <2>3. shut.step = "idle" /\ handler = "default" /\ main.step # 0 /\ job["server"] = "none"
    BY <1>3, <2>1 DEF Tidy, Sequenced
  <2>4. UNCHANGED <<handler, shut>> /\ files' \subseteq files
    BY <1>9 DEF Unwind
  <2>5. CASE FailSteps[main.fail] # "server"
    <3>1. job' = job /\ main.fail # 5
      BY <1>9, <2>5 DEF Unwind, FailSteps
    <3>2. main'.fail # 6 /\ main'.fail > 0
      BY <2>1, <2>2, <3>1
    <3>3. QED
      BY <1>4, <2>1, <2>2, <2>3, <2>4, <3>1, <3>2 DEF Tidy
  <2>6. CASE FailSteps[main.fail] = "server"
    <3>1. main'.fail = 6
      BY <2>1, <2>2, <2>6 DEF FailSteps
    <3>2. files' \subseteq {"socket"}
      BY <1>9, <2>6 DEF Unwind
    <3>3. job' = IF files' # {} THEN [job EXCEPT !["server"] = "failed"] ELSE job
      BY <1>9, <2>6 DEF Unwind
    <3>4. /\ job'["server"] = "failed" \/ (job'["server"] = "none" /\ files' = {})
          /\ \A j \in Jobs \ {"server"} : job'[j] = job[j]
      BY <1>1, <2>3, <3>3 DEF LifeTypeOK, Jobs
    <3>5. \A j \in Jobs : job'[j] = "failed" => j = "server"
      BY <3>4 DEF Tidy
    <3>6. shut'.step \notin Sequenced \cup Leaving /\ shut'.step # "race" /\ shut'.step # "exit"
      BY <2>3, <2>4 DEF Sequenced, Leaving
    <3>7. QED
      BY <2>2, <2>3, <2>4, <3>1, <3>2, <3>4, <3>5, <3>6 DEF Tidy
  <2>7. QED
    BY <2>5, <2>6
<1>10. CASE Unwound
  <2>1. main.fail = 6 /\ main.step # 0
    BY <1>10 DEF Unwound, Tidy
  <2>2. main'.fail = 6 /\ main'.step = main.step /\ (main.done => main'.done)
    BY <1>3, <1>10, <2>1 DEF Unwound
  <2>3. UNCHANGED <<handler, files, job>>
    BY <1>10 DEF Unwound
  <2>4. Rest
    BY <2>1, <2>2, <2>3 DEF Tidy
  <2>5. QED
    BY <1>4, <2>2, <2>3, <2>4
<1>11. QED
  BY <1>5, <1>6, <1>7, <1>8, <1>9, <1>10 DEF Startup

LEMMA SignalTidy ==
  ASSUME Typed, Tidy, Signal
  PROVE  Tidy'
<1>1. LifeTypeOK
  BY TypedParts
<1>2. UNCHANGED <<main, job>>
  BY DEF Signal
<1>3. files' = files /\ (handler = "default" => handler' = "default")
  BY DEF Signal
<1>4. handler' # "stop"
  BY <1>1 DEF Signal, LifeTypeOK
<1>5. CASE shut' = shut
  <2>1. Job' = Job
    BY <1>5 DEF Job
  <2>2. QED
    BY <1>2, <1>3, <1>4, <1>5, <2>1 DEF Tidy
<1>6. CASE shut' # shut
  <2>1. handler = "stop" /\ shut' = [shut EXCEPT !.step = "taken"]
    BY <1>1, <1>6 DEF Signal, LifeTypeOK
  <2>2. main.step > 0 /\ shut.step = "idle" /\ shut'.step = "taken"
    BY <1>1, <2>1 DEF Tidy, LifeTypeOK
  <2>3. main.fail = 0
    BY <1>1, <2>1 DEF Tidy, LifeTypeOK
  <2>4. job["server"] = "none"
    BY <2>2, <2>3 DEF Tidy, Sequenced
  <2>5. QED
    BY <1>1, <1>2, <1>3, <1>4, <2>2, <2>3, <2>4 DEF Tidy, Sequenced, Leaving, LifeTypeOK
<1>7. QED
  BY <1>5, <1>6

LEMMA SequenceTidy ==
  ASSUME Typed, Tidy, Sequence
  PROVE  Tidy'
<1>1. LifeTypeOK /\ InSequence
  BY TypedParts
<1> DEFINE Shut == [step : {"idle", "taken", "detached", "waiting", "job", "race", "close",
                            "cleanup", "exit"},
                    i : 0..5, late : BOOLEAN, snap : SUBSET (Sessions \X (0..MaxTurn)),
                    code : {0, 1}]
           JobType == [Jobs -> {"none", "runs", "left", "done", "failed"}]
<1>2. shut \in Shut /\ job \in JobType
  BY <1>1 DEF LifeTypeOK
<1>3. UNCHANGED main
  BY DEF Sequence, StopRearms, TakesOver, JobStarts, JobRaced, Closes, Cleanup, Exits
<1>a. shut.step # "idle"
  BY DEF Sequence, StopRearms, TakesOver, JobStarts, JobRaced, RaceOver, Closes, Cleanup, Exits
<1>b. main.fail = 0
  BY <1>1, <1>a DEF Tidy, LifeTypeOK
<1>4. \A step : /\ ShutTo(step) => /\ shut'.step = step /\ shut'.late = shut.late
                                  /\ shut'.i = shut.i
  BY <1>2 DEF ShutTo
<1>5. CASE StopRearms
  <2>1. shut.step \notin Sequenced /\ shut'.step \in {"detached", "waiting"}
        /\ shut'.late = shut.late
    BY <1>4, <1>5 DEF StopRearms, Sequenced
  <2>2. handler' # "stop" /\ UNCHANGED <<job, files>> /\ main.step # 0
    BY <1>5 DEF StopRearms, Tidy
  <2>3. shut'.step \notin Sequenced /\ shut'.step \notin Leaving
    BY <2>1 DEF Sequenced, Leaving
  <2>4. shut'.step # "race" /\ shut'.step # "exit"
    BY <2>1
  <2>5. QED
    BY <1>3, <1>b, <2>1, <2>2, <2>3, <2>4 DEF Tidy
<1>6. CASE TakesOver
  <2>1. shut.step = "waiting" /\ UNCHANGED <<job, handler, files>>
    BY <1>6 DEF TakesOver
  <2>2. shut'.step = "job" /\ shut'.late = ~main.done
    BY <1>2, <1>6 DEF TakesOver
  <2>3. main.done \in BOOLEAN
    BY <1>1 DEF LifeTypeOK
  <2>4. job["server"] = "none" /\ handler # "stop" /\ main.step # 0
    BY <1>b, <2>1 DEF Tidy, Sequenced
  <2>5. QED
    BY <1>3, <1>b, <2>1, <2>2, <2>3, <2>4 DEF Tidy, Leaving
<1>7. CASE JobStarts
  <2>1. shut.step = "job" /\ shut.i \in 1..4 /\ UNCHANGED <<handler, files>>
    BY <1>7 DEF JobStarts
  <2>2. shut'.step = "race" /\ shut'.late = shut.late /\ shut'.i = shut.i
    BY <1>2, <1>7 DEF JobStarts
  <2>3. job' = [job EXCEPT ![Job] = "runs"]
    BY <1>7 DEF JobStarts
  <2>4. Job' = Job /\ Job \in Jobs
    BY <2>1, <2>2 DEF Job, JobOf, Jobs
  <2>5. job'[Job] = "runs" /\ \A j \in Jobs : job'[j] \in {job[j], "runs"}
    BY <1>2, <2>3, <2>4
  <2>6. handler # "stop" /\ main.step # 0 /\ (~shut.late => main.done)
    BY <2>1 DEF Tidy, Sequenced
  <2>7. "server" \in Jobs
    BY DEF Jobs
  <2>8. QED
    BY <1>3, <1>b, <2>1, <2>2, <2>4, <2>5, <2>6, <2>7 DEF Tidy, Sequenced, Leaving
<1>8. CASE JobRaced
  <2>1. shut.step = "race" /\ shut.i \in 1..4 /\ UNCHANGED <<handler, files>>
    BY <1>1, <1>8 DEF JobRaced, RaceOver, InSequence
  <2>2. Job \in Jobs /\ (Job = "server" <=> shut.i = 4) /\ "server" \in Jobs
    BY <2>1 DEF Job, JobOf, Jobs
  <2>3. job[Job] \in {"runs", "done", "failed"} /\ (job[Job] = "failed" => Job = "server")
    BY <2>1, <2>2 DEF Tidy
  <2>4. handler # "stop" /\ main.step # 0 /\ (~shut.late => main.done)
    BY <2>1 DEF Tidy, Sequenced
  <2>5. \/ shut'.step = "cleanup" /\ job[Job] = "failed" /\ shut'.late = shut.late
        \/ shut'.step = "close" /\ shut.i = 4 /\ shut'.late = shut.late
        \/ shut'.step = "job" /\ shut.i # 4 /\ shut'.late = shut.late
    BY <1>2, <1>8 DEF JobRaced, AfterFailure
  <2>6. job' = [job EXCEPT ![Job] = IF Job # "server" THEN "none"
                                    ELSE IF job[Job] = "runs" THEN "left" ELSE job[Job]]
    BY <1>8 DEF JobRaced
  <2>7. \A j \in Jobs : job'[j] \in {job[j], "none", "left"}
    BY <1>2, <2>2, <2>6
  <2>8. Job = "server" => job'["server"] \in {"left", "done", "failed"}
    BY <1>2, <2>2, <2>3, <2>6
  <2>9. shut'.step \in {"cleanup", "close"} => job'["server"] \in {"left", "done", "failed"}
    BY <2>2, <2>3, <2>5, <2>8
  <2>10. job'["server"] = "done" => job["server"] = "done"
    BY <2>2, <2>7
  <2>11. \A j \in Jobs : job'[j] = "failed" => j = "server"
    BY <2>7 DEF Tidy
  <2>12. shut'.step \in Sequenced /\ shut'.step \notin {"race", "exit"}
         /\ (shut'.step \in Leaving => shut'.step \in {"cleanup", "close"})
         /\ shut'.late = shut.late
    BY <2>5 DEF Sequenced, Leaving
  <2>13. QED
    BY <1>3, <1>b, <2>1, <2>4, <2>9, <2>10, <2>11, <2>12 DEF Tidy
<1>9. CASE Closes \/ Cleanup
  <2>1. shut.step \in {"close", "cleanup"} /\ UNCHANGED <<handler, job>>
    BY <1>9 DEF Closes, Cleanup
  <2>2. shut'.late = shut.late /\ shut'.step \in {"cleanup", "exit"}
    BY <1>4, <1>9 DEF Closes, Cleanup
  <2>3. files' \subseteq files
    BY <1>9 DEF Closes, Cleanup
  <2>4. shut'.step = "exit" => files' = files \ {"pid", "owner"}
    BY <1>4, <1>9 DEF Closes, Cleanup
  <2>5. shut'.step = "exit" => files' \subseteq {"socket"}
    BY <1>1, <2>4 DEF LifeTypeOK
  <2>6. handler # "stop" /\ main.step # 0 /\ (~shut.late => main.done)
        /\ job["server"] \in {"left", "done", "failed"}
    BY <2>1 DEF Tidy, Sequenced, Leaving
  <2>7. QED
    BY <1>3, <1>b, <2>1, <2>2, <2>3, <2>5, <2>6 DEF Tidy, Sequenced
<1>10. CASE Exits
  <2>1. UNCHANGED <<shut, job, handler, files>>
    BY <1>10 DEF Exits
  <2>2. QED
    BY <1>3, <1>b, <2>1 DEF Tidy, Job
<1>11. QED
  BY <1>5, <1>6, <1>7, <1>8, <1>9, <1>10 DEF Sequence

LEMMA JobEndsTidy ==
  ASSUME Typed, Tidy, NEW j \in Jobs, JobEnds(j)
  PROVE  Tidy'
<1>1. LifeTypeOK
  BY TypedParts
<1>2. UNCHANGED <<main, shut, handler>> /\ job[j] \in {"runs", "left"}
  BY DEF JobEnds
<1>3. files' \subseteq files
  BY DEF JobEnds
<1>4. job \in [Jobs -> {"none", "runs", "left", "done", "failed"}] /\ "server" \in Jobs
  BY <1>1 DEF LifeTypeOK, Jobs
<1>5. \/ job' = [job EXCEPT ![j] = "done"] /\ (j = "server" => "socket" \notin files')
      \/ job' = [job EXCEPT ![j] = "failed"] /\ j = "server"
  BY DEF JobEnds
<1>6. /\ job'[j] \in {"done", "failed"} /\ \A k \in Jobs \ {j} : job'[k] = job[k]
      /\ job'[j] = "failed" => j = "server"
      /\ j = "server" /\ job'[j] = "done" => "socket" \notin files'
  BY <1>4, <1>5
<1>7. Job' = Job
  BY <1>2 DEF Job
<1>8. shut.step = "race" => job'[Job] \in {"runs", "done", "failed"}
  <2>1. CASE Job \in Jobs
    BY <1>6, <2>1 DEF Tidy
  <2>2. CASE Job \notin Jobs
    <3>1. shut.step = "race" => Job \in Jobs
      BY DEF Typed, InSequence, Job, JobOf, Jobs
    <3>2. QED
      BY <2>2, <3>1
  <2>3. QED
    BY <2>1, <2>2
<1>9. \A k \in Jobs : job'[k] = "failed" => k = "server"
  BY <1>6 DEF Tidy
<1>10. /\ job'["server"] = "none" <=> job["server"] = "none"
       /\ job["server"] = "failed" => job'["server"] = "failed"
  BY <1>2, <1>4, <1>6
<1>11. shut.step \in Leaving => job'["server"] \in {"done", "failed", "left"}
  BY <1>4, <1>6 DEF Tidy
<1>12. job'["server"] = "done" /\ ~shut.late => "socket" \notin files'
  BY <1>3, <1>4, <1>6 DEF Tidy
<1>13. QED
  BY <1>2, <1>3, <1>7, <1>8, <1>9, <1>10, <1>11, <1>12 DEF Tidy

\* The rest of the daemon leaves the way out alone, or only clears it.
LEMMA UntouchedTidy ==
  ASSUME Tidy, UNCHANGED <<main, shut, job, handler>>, files' \subseteq files
  PROVE  Tidy'
BY DEF Tidy, Job

LEMMA NextTidy ==
  ASSUME Typed, Tidy, [Next]_vars
  PROVE  Tidy'
<1>1. CASE Periodic \/ Manager \/ World \/ UNCHANGED vars
  <2>1. UNCHANGED <<main, shut, job, handler, files>>
    BY <1>1 DEF Periodic, ReconTimer, ReconTick, ReconRuns, Manager, World, lifeVars, vars
  <2>2. QED
    BY <2>1, UntouchedTidy
<1>2. CASE ForcedExit
  <2>1. UNCHANGED <<main, shut, job, handler>> /\ files' \subseteq files
    BY <1>2 DEF ForcedExit
  <2>2. QED
    BY <2>1, UntouchedTidy
<1>3. QED
  BY <1>1, <1>2, StartupTidy, SignalTidy, SequenceTidy, JobEndsTidy DEF Next

\* What the forced exit has removed comes back only from the startup step it met:
\* a step begins only while no shutdown owns the daemon.
Forced ==
  /\ handler = "force" => aborted /\ shut.step # "idle"
  /\ force.step # "none" => aborted /\ shut.step # "idle"
  /\ force.step # "none" /\ Starting /\ main.busy => force.met = Step
  /\ force.step \notin {"none", "pid"} /\ "pid" \in files => force.met = "pid"
  /\ force.step \in {"lock", "exit", "done"} /\ "socket" \in files => force.met = "server"
  /\ force.step \in {"exit", "done"} => "owner" \notin files

\* A step that makes no file, begins nothing and stays clear of the forced exit.
LEMMA AsideForced ==
  ASSUME Forced, UNCHANGED force, files' \subseteq files,
         handler' = "force" => aborted' /\ shut'.step # "idle",
         force.step # "none" => aborted' /\ shut'.step # "idle",
         (Starting /\ main.busy)' => Starting /\ main.busy /\ main'.step = main.step
  PROVE  Forced'
BY DEF Forced, Step

LEMMA StartupForced ==
  ASSUME Typed, Tidy, Forced, Startup
  PROVE  Forced'
<1>1. LifeTypeOK
  BY TypedParts
<1>2. main \in [step : 0..8, busy : BOOLEAN, done : BOOLEAN, fail : 0..6]
  BY <1>1 DEF LifeTypeOK
<1>3. UNCHANGED <<shut, force>>
  BY DEF Startup, Boot, StepBegins, StepEnds, StepFails, Unwind, Unwound
<1>4. CASE Boot
  <2>1. shut.step = "idle"
    BY <1>4 DEF Boot, Tidy
  <2>2. force.step = "none" /\ handler # "force"
    BY <2>1 DEF Forced
  <2>3. handler' # "force"
    BY <1>4, <2>2 DEF Boot
  <2>4. QED
    BY <1>3, <2>2, <2>3 DEF Forced
<1>5. CASE StepBegins
  <2>1. UNCHANGED <<aborted, handler, files>>
    BY <1>5 DEF StepBegins
  <2>2. CASE ShutdownOwnsDaemon
    <3>1. main'.done
      BY <1>2, <1>5, <2>2 DEF StepBegins
    <3>2. QED
      BY <1>3, <2>1, <3>1, AsideForced DEF Forced, Starting
  <2>3. CASE ~ShutdownOwnsDaemon
    <3>1. force.step = "none" /\ handler # "force"
      BY <2>3 DEF Forced, ShutdownOwnsDaemon
    <3>2. QED
      BY <1>3, <2>1, <3>1 DEF Forced
  <2>4. QED
    BY <2>2, <2>3
<1>6. CASE StepEnds
  <2>1. Starting /\ main.busy /\ UNCHANGED <<aborted, handler>>
    BY <1>6 DEF StepEnds
  <2>2. files' \subseteq files \cup (CASE Step = "server" -> {"socket"} [] Step = "pid" -> {"pid"}
                                       [] OTHER -> {})
    BY <1>6 DEF StepEnds
  <2>3. /\ "owner" \in files' => "owner" \in files
        /\ "pid" \in files' => "pid" \in files \/ Step = "pid"
        /\ "socket" \in files' => "socket" \in files \/ Step = "server"
    BY <2>2
  <2>4. ~main'.busy
    BY <1>2, <1>6 DEF StepEnds, StepOver
  <2>5. QED
    BY <1>3, <2>1, <2>3, <2>4 DEF Forced
<1>7. CASE StepFails
  <2>1. files' = files /\ Starting /\ main.busy
    BY <1>7 DEF StepFails
  <2>2. CASE ShutdownOwnsDaemon
    <3>1. ~main'.busy /\ UNCHANGED <<aborted, handler>>
      BY <1>2, <1>7, <2>2 DEF StepFails
    <3>2. QED
      BY <1>3, <2>1, <3>1, AsideForced DEF Forced
  <2>3. CASE ~ShutdownOwnsDaemon
    <3>1. force.step = "none" /\ handler' = "default"
      BY <1>7, <2>3 DEF Forced, ShutdownOwnsDaemon, StepFails
    <3>2. QED
      BY <1>3, <2>1, <3>1 DEF Forced
  <2>4. QED
    BY <2>2, <2>3
<1>8. CASE Unwind \/ Unwound
  <2>1. files' \subseteq files /\ UNCHANGED <<aborted, handler>>
    BY <1>8 DEF Unwind, Unwound
  <2>2. main.fail > 0
    BY <1>8 DEF Unwind, Unwound
  <2>3. main'.fail > 0
    <3>1. CASE Unwind
      <4>1. main.fail \in 1..5 /\ main' = [main EXCEPT !.fail = main.fail + 1]
        BY <3>1 DEF Unwind
      <4>2. QED
        BY <1>2, <4>1
    <3>2. CASE Unwound
      BY <1>2, <3>2 DEF Unwound
    <3>3. QED
      BY <1>8, <3>1, <3>2
  <2>4. ~Starting'
    BY <2>3 DEF Starting
  <2>5. QED
    BY <1>3, <2>1, <2>4, AsideForced DEF Forced
<1>9. QED
  BY <1>4, <1>5, <1>6, <1>7, <1>8 DEF Startup

LEMMA SignalForced ==
  ASSUME Typed, Forced, Signal
  PROVE  Forced'
<1>1. LifeTypeOK
  BY TypedParts
<1>2. UNCHANGED <<main, aborted, files>>
  BY DEF Signal
<1>3. UNCHANGED shut \/ shut'.step = "taken"
  BY <1>1 DEF Signal, LifeTypeOK
<1>4. handler' = "force" => handler = "force"
  BY <1>1 DEF Signal, LifeTypeOK
<1>5. CASE force' = force
  BY <1>2, <1>3, <1>4, <1>5, AsideForced DEF Forced, Starting
<1>6. CASE force' # force
  <2>1. handler = "force" /\ shut' = shut
        /\ force' = [step |-> "pid", met |-> IF Starting /\ main.busy THEN Step ELSE "none"]
    BY <1>1, <1>6 DEF Signal, LifeTypeOK
  <2>2. force'.step = "pid" /\ (Starting /\ main.busy => force'.met = Step)
    BY <2>1
  <2>3. Starting' = Starting /\ Step' = Step
    BY <1>2 DEF Starting, Step
  <2>4. QED
    BY <1>2, <1>4, <2>1, <2>2, <2>3 DEF Forced
<1>7. QED
  BY <1>5, <1>6

LEMMA SequenceForced ==
  ASSUME Typed, Forced, Sequence
  PROVE  Forced'
<1>1. LifeTypeOK
  BY TypedParts
<1>2. UNCHANGED <<main, force>> /\ files' \subseteq files /\ shut.step # "idle"
  BY DEF Sequence, StopRearms, TakesOver, JobStarts, JobRaced, RaceOver, Closes, Cleanup, Exits
<1>3. shut'.step # "idle"
  <2>1. CASE TakesOver
    BY <1>1, <2>1 DEF TakesOver, LifeTypeOK
  <2>2. CASE JobStarts
    BY <1>1, <2>2 DEF JobStarts, LifeTypeOK
  <2>3. CASE JobRaced
    BY <1>1, <2>3 DEF JobRaced, AfterFailure, LifeTypeOK
  <2>4. CASE StopRearms \/ Closes \/ Cleanup
    BY <1>1, <2>4 DEF StopRearms, Closes, Cleanup, ShutTo, LifeTypeOK
  <2>5. CASE Exits
    BY <1>2, <2>5 DEF Exits
  <2>6. QED
    BY <2>1, <2>2, <2>3, <2>4, <2>5 DEF Sequence
<1>4. (aborted => aborted') /\ (handler' = "force" => aborted' \/ handler = "force")
  <2>1. CASE StopRearms
    BY <2>1 DEF StopRearms
  <2>2. CASE ~StopRearms
    BY <2>2 DEF Sequence, TakesOver, JobStarts, JobRaced, Closes, Cleanup, Exits
  <2>3. QED
    BY <2>1, <2>2
<1>5. QED
  BY <1>2, <1>3, <1>4, AsideForced DEF Forced, Starting

LEMMA ForcedExitForced ==
  ASSUME Typed, Forced, ForcedExit
  PROVE  Forced'
<1>1. LifeTypeOK
  BY TypedParts
<1>2. UNCHANGED <<main, shut, aborted, handler>>
  BY DEF ForcedExit
<1>3. Starting' = Starting /\ Step' = Step
  BY <1>2 DEF Starting, Step
<1>4. force.step # "none" /\ force'.met = force.met
      /\ \/ force.step = "pid" /\ force'.step = "socket" /\ files' = files \ {"pid"}
         \/ force.step = "socket" /\ force'.step = "lock" /\ files' = files \ {"socket"}
         \/ force.step = "lock" /\ force'.step = "exit" /\ files' = files \ {"owner"}
         \/ force.step = "exit" /\ force'.step = "done" /\ files' = files
  BY <1>1 DEF ForcedExit, LifeTypeOK
<1>5. QED
  BY <1>2, <1>3, <1>4 DEF Forced

LEMMA NextForced ==
  ASSUME Typed, Tidy, Forced, [Next]_vars
  PROVE  Forced'
<1>1. CASE Periodic \/ Manager \/ World \/ (\E j \in Jobs : JobEnds(j)) \/ UNCHANGED vars
  <2>1. UNCHANGED <<main, shut, handler, aborted, force>> /\ files' \subseteq files
    BY <1>1 DEF Periodic, ReconTimer, ReconTick, ReconRuns, Manager, World, JobEnds, lifeVars,
                vars
  <2>2. QED
    BY <2>1, AsideForced DEF Forced, Starting
<1>2. QED
  BY <1>1, StartupForced, SignalForced, SequenceForced, ForcedExitForced DEF Next

\* Only these steps end the process of its own, and nothing happens after them.
LEMMA ExitsTidy ==
  ASSUME Typed, Tidy, Forced, ExitIsClean, [Next]_vars
  PROVE  ExitIsClean'
<1>1. LifeTypeOK
  BY TypedParts
<1>2. CASE UNCHANGED vars
  BY <1>2 DEF vars, lifeVars, ExitIsClean, MetBySignal
<1>3. CASE Next /\ exit' = exit
  <2>1. exit = None /\ None \notin {0, 1}
    BY <1>3, WatchAssumption DEF Next
  <2>2. QED
    BY <1>3, <2>1 DEF ExitIsClean
<1>4. CASE Boot /\ exit' # exit
  <2>1. main.step = 0 /\ main' = main
    BY <1>4 DEF Boot
  <2>2. QED
    BY <2>1 DEF ExitIsClean
<1>5. CASE Unwound
  <2>1. main.fail = 6 /\ UNCHANGED <<job, files>>
    BY <1>5 DEF Unwound
  <2>2. QED
    BY <2>1 DEF Tidy, ExitIsClean
<1>6. CASE Signal /\ exit' # exit
  <2>1. handler \in {"default", "stop", "taken", "force"}
    BY <1>1 DEF LifeTypeOK
  <2>2. exit' = 143
    BY <1>6, <2>1 DEF Signal, Killed
  <2>3. QED
    BY <2>2 DEF ExitIsClean
<1>7. CASE Exits
  <2>1. shut.step = "exit" /\ UNCHANGED <<main, shut, job, files>>
    BY <1>7 DEF Exits
  <2>2. job["server"] \in {"done", "failed", "left"}
    BY <2>1 DEF Tidy, Leaving
  <2>3. QED
    BY <2>1, <2>2 DEF Tidy, ExitIsClean
<1>8. CASE ForcedExit /\ exit' # exit
  <2>1. force.step = "exit" /\ files' = files /\ force' = [force EXCEPT !.step = "done"]
    BY <1>8 DEF ForcedExit
  <2>2. force' = [step |-> "done", met |-> force.met]
    BY <1>1, <2>1 DEF LifeTypeOK
  <2>3. QED
    BY <2>1, <2>2 DEF Forced, ExitIsClean, MetBySignal
<1>9. QED
  BY <1>2, <1>3, <1>4, <1>5, <1>6, <1>7, <1>8
     DEF Next, Startup, StepBegins, StepEnds, StepFails, Unwind, Sequence, StopRearms,
         TakesOver, JobStarts, JobRaced, Closes, Cleanup, Periodic, ReconTimer, ReconTick,
         ReconRuns, Manager, World, JobEnds, lifeVars

LEMMA InitTidy == Init => Tidy
BY DEF Init, Tidy, Sequenced, Leaving, Jobs

LEMMA InitForced == Init => Forced
BY DEF Init, Forced

\* A process that exits of its own after it has booted leaves no lock record, a
\* socket only when server.Stop failed or was abandoned, and no pid file; a forced
\* exit can leave the one file that the startup step it met makes behind it,
\* because onSecondSignal does not wait for that step (ExitIsClean).
THEOREM CleanExit == Spec => []ExitIsClean
<1>1. Init => ExitIsClean
  BY WatchAssumption DEF Init, ExitIsClean
<1>2. QED
  BY <1>1, InitTidy, InitForced, InitTyped, NextTyped, NextTidy, NextForced, ExitsTidy,
     PTL DEF Spec

----------------------------------------------------------------------------
(* Order: which of startup, scans, ticks and stops may be under way at a time *)

\* Ticks begin when the startup has started the interval, Start's rescan is part
\* of a step of the startup, a tick's rescan part of its tick; the manager stops
\* only when the daemon does.
Ordered ==
  /\ main.step <= 6 => ticker.step = "idle" /\ ~mgr.sched /\ ~mgr.fired
  /\ scan["start"].step # "idle" => main.step = 6 /\ main.busy
  /\ ticker.step # "rescan" => scan["tick"].step = "idle"
  /\ mgr.stopping => ShutdownOwnsDaemon
  /\ \A k \in Stoppers : stop[k].step # "idle" => mgr.stopping
  /\ main.fail > 0 => aborted

\* What a step of a rescan leaves alone.
RescanStep(k) ==
  /\ scan[k].step # "idle" /\ \A j \in Scanners \ {k} : scan'[j] = scan[j]
  /\ mgr'.stopping = mgr.stopping /\ mgr'.sched = mgr.sched /\ mgr'.fired = mgr.fired
  /\ UNCHANGED <<ticker, stop>>

LEMMA RescanSteps ==
  ASSUME WTyped, NEW k \in Scanners, Rescan(k)
  PROVE  RescanStep(k)
<1>1. scan[k].step # "idle" /\ UNCHANGED <<ticker, stop>>
  BY DEF Rescan, ScanList, ScanListFails, ScanMark, ScanNext, ScanDone, ScanStart, ScanDial,
         ScanLaunched, ScanUnchanged
<1>2. \E q : ScanTo(k, q)
  <2>1. CASE ScanNext(k)
    BY <2>1 DEF ScanNext
  <2>2. CASE ScanDial(k)
    BY <2>2 DEF ScanDial
  <2>3. CASE ScanLaunched(k)
    BY <2>3 DEF ScanLaunched
  <2>4. CASE ScanList(k) \/ ScanListFails(k)
    BY <2>4 DEF ScanList, ScanListFails
  <2>5. CASE ScanMark(k) \/ ScanDone(k) \/ ScanStart(k)
    BY <2>5 DEF ScanMark, ScanDone, ScanStart
  <2>6. QED
    BY <2>1, <2>2, <2>3, <2>4, <2>5 DEF Rescan
<1>3. \A j \in Scanners \ {k} : scan'[j] = scan[j]
  BY <1>2 DEF ScanTo, WTyped, WatchTypeOK
<1>4. mgr' = mgr \/ \E b : mgr' = [mgr EXCEPT !.due = b]
  BY DEF Rescan, ScanList, ScanListFails, ScanMark, ScanNext, ScanDone, ScanStart, ScanDial,
         ScanLaunched
<1>5. mgr'.stopping = mgr.stopping /\ mgr'.sched = mgr.sched /\ mgr'.fired = mgr.fired
  BY <1>4 DEF WTyped, WatchTypeOK
<1>6. QED
  BY <1>1, <1>3, <1>5 DEF RescanStep

\* A step of Stop or of the abort of the signal.
StopStepTaken(k) ==
  /\ stop[k].step # "idle" /\ \A j \in Stoppers \ {k} : stop'[j] = stop[j]
  /\ ticker'.step = ticker.step /\ UNCHANGED <<mgr, scan, running>>

LEMMA StopStepsTaken ==
  ASSUME WTyped, NEW k \in Stoppers, StopSteps(k)
  PROVE  StopStepTaken(k)
<1>1. stop[k].step # "idle" /\ UNCHANGED <<mgr, scan, running>>
  BY DEF StopSteps, StopAborts, StopLooks, StopTicked, StopDrains, StopEnds, StopUnchanged
<1>2. \E q : stop' = [stop EXCEPT ![k] = q]
  BY DEF StopSteps, StopAborts, StopLooks, StopTicked, StopDrains, StopEnds, StopTo
<1>3. \A j \in Stoppers \ {k} : stop'[j] = stop[j]
  BY <1>2 DEF WTyped, WatchTypeOK
<1>4. ticker' = ticker \/ \E q : ticker' = [ticker EXCEPT !.awaited = q]
  BY DEF StopSteps, StopAborts, StopLooks, StopTicked, StopDrains, StopEnds
<1>5. ticker'.step = ticker.step
  BY <1>4 DEF WTyped, WatchTypeOK
<1>6. QED
  BY <1>1, <1>3, <1>5 DEF StopStepTaken

\* The manager begins to stop.
Stops(k) ==
  /\ mgr'.stopping /\ ~mgr'.sched /\ mgr'.fired = mgr.fired
  /\ UNCHANGED <<ticker, scan, running, watch, at>>

LEMMA StopBegins ==
  ASSUME WTyped, NEW k \in Stoppers, StopBegin(k)
  PROVE  Stops(k)
BY DEF StopBegin, StopUnchanged, Stops, WTyped, WatchTypeOK

LEMMA IntervalOrdered ==
  ASSUME Typed, Ordered, Interval \/ RescanFallsDue, UNCHANGED lifeVars
  PROVE  Ordered'
<1>1. WTyped /\ LifeTypeOK
  BY TypedParts
<1> DEFINE Mgr == [stopping : BOOLEAN, gen : Nat, sched : BOOLEAN, fired : BOOLEAN,
                   due : BOOLEAN]
           Ticker == [step : {"idle", "look", "refresh", "rescan"},
                      todo : SUBSET Watchers, awaited : SUBSET Stoppers]
<1>2. mgr \in Mgr /\ ticker \in Ticker /\ scan \in [Scanners -> Scan]
  BY <1>1 DEF WTyped, WatchTypeOK
<1>3. stop' = stop /\ UNCHANGED <<main, aborted, shut>>
  BY DEF lifeVars, Interval, TimerFires, ScheduleTick, TickLook, TickEnds, TickRefresh,
         TickUnchanged, RescanFallsDue
<1>4. ShutdownOwnsDaemon <=> ShutdownOwnsDaemon'
  BY <1>3 DEF ShutdownOwnsDaemon, Stopping
<1> DEFINE Rest ==
      /\ mgr'.stopping = mgr.stopping
      /\ main.step <= 6 => ticker'.step = "idle" /\ ~mgr'.sched /\ ~mgr'.fired
      /\ scan'["start"] = scan["start"]
      /\ ticker'.step # "rescan" => scan'["tick"].step = "idle"
<1>5. ASSUME Rest PROVE Ordered'
  BY <1>3, <1>4, <1>5 DEF Ordered
<1>6. CASE TimerFires \/ RescanFallsDue
  <2>1. /\ mgr'.stopping = mgr.stopping /\ mgr'.sched = mgr.sched
        /\ mgr.sched \/ mgr'.fired = mgr.fired
    BY <1>2, <1>6 DEF TimerFires, RescanFallsDue
  <2>2. UNCHANGED <<ticker, scan>>
    BY <1>6 DEF TimerFires, RescanFallsDue
  <2>3. QED
    BY <1>5, <2>1, <2>2 DEF Ordered
<1>7. CASE ScheduleTick
  <2>1. /\ mgr'.stopping = mgr.stopping /\ mgr'.sched = mgr.sched
        /\ mgr.fired /\ scan' = scan
    BY <1>2, <1>7 DEF ScheduleTick
  <2>2. ticker' = ticker \/ (ticker.step = "idle" /\ ticker'.step = "look")
    BY <1>2, <1>7 DEF ScheduleTick
  <2>3. QED
    BY <1>5, <2>1, <2>2 DEF Ordered
<1>8. CASE TickLook
  <2>1. ticker.step = "look" /\ mgr' = mgr
    BY <1>8 DEF TickLook
  <2>2. \/ ticker'.step = "rescan" /\ scan'["start"] = scan["start"]
        \/ ticker'.step = "refresh" /\ scan' = scan
    <3>1. CASE mgr.due
      BY <1>2, <1>8, <3>1 DEF TickLook, ScanTo, Scanners
    <3>2. CASE ~mgr.due
      <4>1. PICK W \in SUBSET Current : ticker' = [ticker EXCEPT !.step = "refresh", !.todo = W]
        BY <1>8, <3>2 DEF TickLook
      <4>2. ticker'.step = "refresh"
        BY <1>2, <4>1
      <4>3. QED
        BY <1>8, <3>2, <4>2 DEF TickLook
    <3>3. QED
      BY <3>1, <3>2
  <2>3. QED
    BY <1>5, <2>1, <2>2 DEF Ordered
<1>9. CASE TickEnds
  <2>1. /\ ticker'.step = "idle" /\ ticker.step # "idle" /\ mgr' = mgr
        /\ scan' = [scan EXCEPT !["tick"] = NoScan]
    BY <1>9 DEF TickEnds, TickOver, ScanTo
  <2>2. scan'["start"] = scan["start"] /\ scan'["tick"] = NoScan
    BY <1>2, <2>1 DEF Scanners
  <2>3. scan'["tick"].step = "idle"
    BY <2>2 DEF NoScan
  <2>4. QED
    BY <1>5, <2>1, <2>2, <2>3 DEF Ordered
<1>10. CASE \E w \in Watchers : TickRefresh(w)
  <2>1. ticker'.step = ticker.step /\ UNCHANGED <<mgr, scan>>
    BY <1>2, <1>10 DEF TickRefresh
  <2>2. QED
    BY <1>5, <2>1 DEF Ordered
<1>11. QED
  BY <1>6, <1>7, <1>8, <1>9, <1>10 DEF Interval

LEMMA ManagerOrdered ==
  ASSUME Typed, Ordered, Manager \/ World
  PROVE  Ordered'
<1>1. WTyped /\ UNCHANGED lifeVars
  BY TypedParts DEF Manager, World
<1>2. UNCHANGED <<main, aborted>> /\ (ShutdownOwnsDaemon <=> ShutdownOwnsDaemon')
  BY <1>1 DEF lifeVars, ShutdownOwnsDaemon, Stopping
<1>3. ASSUME UNCHANGED <<mgr, ticker, scan, stop>> PROVE Ordered'
  BY <1>2, <1>3 DEF Ordered
<1>4. ASSUME NEW w \in Watchers, Loop(w) PROVE Ordered'
  <2>1. UNCHANGED <<mgr, ticker, scan, stop>>
    BY <1>1, <1>4, LoopMoves DEF LoopMove
  <2>2. QED
    BY <1>3, <2>1
<1>5. ASSUME NEW k \in Scanners, Rescan(k) PROVE Ordered'
  <2>1. RescanStep(k)
    BY <1>1, <1>5, RescanSteps
  <2>2. /\ scan["start"].step = "idle" => scan'["start"].step = "idle"
        /\ scan["tick"].step = "idle" => scan'["tick"].step = "idle"
    BY <2>1 DEF RescanStep, Scanners
  <2>3. QED
    BY <1>2, <2>1, <2>2 DEF Ordered, RescanStep
<1>6. ASSUME NEW k \in Stoppers, StopSteps(k) PROVE Ordered'
  <2>1. StopStepTaken(k)
    BY <1>1, <1>6, StopStepsTaken
  <2>2. \A j \in Stoppers : stop'[j].step # "idle" => mgr.stopping
    BY <2>1 DEF StopStepTaken, Ordered
  <2>3. QED
    BY <1>2, <2>1, <2>2 DEF Ordered, StopStepTaken
<1>7. ASSUME aborted, StopBegin("signal") PROVE Ordered'
  <2>1. Stops("signal") /\ ShutdownOwnsDaemon
    BY <1>1, <1>7, StopBegins DEF Stoppers, ShutdownOwnsDaemon
  <2>2. QED
    BY <1>2, <2>1 DEF Ordered, Stops
<1>8. ASSUME NEW p \in plans, PlanEnds(p) PROVE Ordered'
  BY <1>3, <1>8 DEF PlanEnds
<1>9. ASSUME HerdrMoves PROVE Ordered'
  <2>1. UNCHANGED <<mgr, ticker, scan, stop>>
    BY <1>9 DEF HerdrMoves, AgentMoves, PanesMove, SessionMoves, HerdrUnchanged
  <2>2. QED
    BY <1>3, <2>1
<1>10. QED
  BY <1>1, <1>4, <1>5, <1>6, <1>7, <1>8, <1>9, IntervalOrdered DEF Manager, World

\* Start begins its rescan, or ends it and starts the interval.
LEMMA StartSteps ==
  ASSUME WTyped, StartBegins \/ StartArms
  PROVE  /\ UNCHANGED <<running, ticker, watch, at, stop>>
         /\ scan'["tick"] = scan["tick"] /\ mgr'.fired = mgr.fired
         /\ StartBegins => ~mgr'.stopping /\ mgr'.sched = mgr.sched
                           /\ scan'["start"].step = "list"
         /\ StartArms => mgr'.stopping = mgr.stopping /\ scan["start"].step = "done"
                         /\ scan'["start"].step = "idle"
<1> DEFINE Mgr == [stopping : BOOLEAN, gen : Nat, sched : BOOLEAN, fired : BOOLEAN,
                   due : BOOLEAN]
<1>1. mgr \in Mgr /\ scan \in [Scanners -> Scan]
  BY DEF WTyped, WatchTypeOK
<1>2. UNCHANGED <<running, ticker, watch, at, stop>>
  BY DEF StartBegins, StartArms
<1>3. \E q : scan' = [scan EXCEPT !["start"] = q]
  BY DEF StartBegins, StartArms, ScanTo
<1>4. scan'["tick"] = scan["tick"]
  BY <1>1, <1>3 DEF Scanners
<1>5. mgr'.fired = mgr.fired
  BY <1>1 DEF StartBegins, StartArms
<1>6. ASSUME StartBegins
      PROVE  ~mgr'.stopping /\ mgr'.sched = mgr.sched /\ scan'["start"].step = "list"
  <2>1. ~mgr'.stopping /\ mgr'.sched = mgr.sched
    BY <1>1, <1>6 DEF StartBegins
  <2>2. scan' = [scan EXCEPT !["start"] = [NoScan EXCEPT !.step = "list", !.gen = mgr.gen + 1]]
    BY <1>6 DEF StartBegins, ScanTo
  <2>3. scan'["start"] = [NoScan EXCEPT !.step = "list", !.gen = mgr.gen + 1]
    BY <1>1, <2>2 DEF Scanners
  <2>4. QED
    BY <2>1, <2>3 DEF NoScan
<1>7. ASSUME StartArms
      PROVE  mgr'.stopping = mgr.stopping /\ scan["start"].step = "done"
             /\ scan'["start"].step = "idle"
  <2>1. mgr'.stopping = mgr.stopping /\ scan["start"].step = "done"
    BY <1>1, <1>7 DEF StartArms
  <2>2. scan'["start"] = NoScan
    BY <1>1, <1>7 DEF StartArms, ScanTo, Scanners
  <2>3. QED
    BY <2>1, <2>2 DEF NoScan
<1>8. QED
  BY <1>2, <1>4, <1>5, <1>6, <1>7

LEMMA StartupOrdered ==
  ASSUME Typed, Ordered, Startup
  PROVE  Ordered'
<1>1. WTyped /\ LifeTypeOK
  BY TypedParts
<1>2. main \in [step : 0..8, busy : BOOLEAN, done : BOOLEAN, fail : 0..6]
      /\ scan \in [Scanners -> Scan]
  BY <1>1 DEF LifeTypeOK, WTyped, WatchTypeOK
<1>3. UNCHANGED shut
  BY DEF Startup, Boot, StepBegins, StepEnds, StepFails, Unwind, Unwound
<1>4. ASSUME aborted => aborted'
      PROVE  ShutdownOwnsDaemon => ShutdownOwnsDaemon'
  BY <1>3, <1>4 DEF ShutdownOwnsDaemon, Stopping
<1>5. CASE Boot
  <2>1. main.step = 0 /\ UNCHANGED <<wmVars, aborted>>
    BY <1>5 DEF Boot
  <2>2. main'.step \in {0, 1} /\ main'.fail = main.fail
    BY <1>2, <1>5, <2>1 DEF Boot
  <2>3. scan["start"].step = "idle" /\ ticker.step = "idle" /\ ~mgr.sched /\ ~mgr.fired
    BY <2>1 DEF Ordered
  <2>4. QED
    BY <1>4, <2>1, <2>2, <2>3 DEF Ordered, wmVars
<1>6. CASE StepBegins /\ UNCHANGED wmVars
  <2>1. ~main.busy /\ UNCHANGED aborted
    BY <1>6 DEF StepBegins
  <2>2. main'.step = main.step /\ main'.fail = main.fail
    BY <1>2, <1>6 DEF StepBegins
  <2>3. scan["start"].step = "idle"
    BY <2>1 DEF Ordered
  <2>4. QED
    BY <1>4, <1>6, <2>1, <2>2, <2>3 DEF Ordered, wmVars
<1>7. CASE StepBegins /\ StartBegins /\ ~ShutdownOwnsDaemon /\ Step = "watch"
  <2>1. main.step \in 1..7 /\ UNCHANGED aborted
    BY <1>7 DEF StepBegins, Starting
  <2>2. main.step = 6
    BY <1>7, <2>1 DEF Step, StartupSteps
  <2>3. main' = [main EXCEPT !.busy = TRUE]
    BY <1>7 DEF StepBegins
  <2>4. main'.step = 6 /\ main'.busy /\ main'.fail = main.fail
    BY <1>2, <2>2, <2>3
  <2>5. \A k \in Stoppers : stop[k].step = "idle"
    BY <1>7 DEF Ordered
  <2>6. QED
    BY <1>1, <1>7, <2>1, <2>2, <2>4, <2>5, StartSteps DEF Ordered
<1>8. CASE StepEnds
  <2>1. main.step \in 1..7 /\ UNCHANGED aborted
    BY <1>8 DEF StepEnds, Starting
  <2>2. main' = [main EXCEPT !.busy = FALSE, !.step = main.step + 1, !.done = (main.step = 7)]
    BY <1>8 DEF StepEnds, StepOver
  <2>3. main'.step = main.step + 1 /\ main'.fail = main.fail
    BY <1>2, <2>2
  <2>4. Step = "watch" <=> main.step = 6
    BY <2>1 DEF Step, StartupSteps
  <2>5. CASE Step = "watch"
    <3>1. StartArms /\ main'.step = 7
      BY <1>8, <2>3, <2>4, <2>5 DEF StepEnds
    <3>2. ShutdownOwnsDaemon => ShutdownOwnsDaemon'
      BY <1>4, <2>1
    <3>3. QED
      BY <1>1, <2>1, <2>3, <3>1, <3>2, StartSteps DEF Ordered
  <2>6. CASE Step # "watch"
    <3>1. scan["start"].step = "idle" /\ UNCHANGED wmVars
      BY <1>8, <2>4, <2>6 DEF StepEnds, Ordered
    <3>2. main'.step <= 6 => main.step <= 6
      BY <2>1, <2>3
    <3>3. ShutdownOwnsDaemon => ShutdownOwnsDaemon'
      BY <1>4, <2>1
    <3>4. QED
      BY <2>1, <2>3, <3>1, <3>2, <3>3 DEF Ordered, wmVars
  <2>7. QED
    BY <2>5, <2>6
<1>9. CASE StepFails
  <2>1. main'.step = main.step /\ (main'.fail = main.fail \/ aborted')
        /\ (aborted => aborted')
    BY <1>2, <1>9 DEF StepFails
  <2>2. scan' = [scan EXCEPT !["start"] = NoScan]
        /\ UNCHANGED <<mgr, ticker, stop>>
    BY <1>9 DEF StepFails
  <2>3. scan'["start"].step = "idle" /\ scan'["tick"] = scan["tick"]
    BY <1>2, <2>2 DEF Scanners, NoScan
  <2>4. ShutdownOwnsDaemon => ShutdownOwnsDaemon'
    BY <1>4, <2>1
  <2>5. QED
    BY <2>1, <2>2, <2>3, <2>4 DEF Ordered
<1>10. CASE Unwind
  <2>1. main.fail > 0 /\ main'.step = main.step /\ main'.busy = main.busy /\ UNCHANGED aborted
    BY <1>2, <1>10 DEF Unwind
  <2>2. aborted /\ ShutdownOwnsDaemon'
    BY <2>1 DEF Ordered, ShutdownOwnsDaemon
  <2>3. CASE UNCHANGED wmVars
    BY <2>1, <2>2, <2>3 DEF Ordered, wmVars
  <2>4. CASE StopBegin("fail")
    <3>1. Stops("fail")
      BY <1>1, <2>4, StopBegins DEF Stoppers
    <3>2. QED
      BY <2>1, <2>2, <3>1 DEF Ordered, Stops
  <2>5. QED
    BY <1>10, <2>3, <2>4 DEF Unwind
<1>11. CASE Unwound
  <2>1. main'.step = main.step /\ main'.busy = main.busy /\ main'.fail = main.fail
        /\ UNCHANGED <<wmVars, aborted>>
    BY <1>2, <1>11 DEF Unwound
  <2>2. QED
    BY <1>4, <2>1 DEF Ordered, wmVars
<1>12. QED
  BY <1>5, <1>6, <1>7, <1>8, <1>9, <1>10, <1>11 DEF Startup, StepBegins

LEMMA ShutdownOrdered ==
  ASSUME Typed, Ordered, Sequence \/ Signal
  PROVE  Ordered'
<1>1. WTyped /\ LifeTypeOK
  BY TypedParts
<1>2. UNCHANGED main /\ (aborted => aborted')
  <2>1. UNCHANGED main
    BY DEF Sequence, StopRearms, TakesOver, JobStarts, JobRaced, Closes, Cleanup, Exits, Signal
  <2>2. CASE StopRearms
    BY <2>1, <2>2 DEF StopRearms
  <2>3. CASE ~StopRearms
    <3>1. aborted' = aborted
      BY <2>3 DEF Sequence, TakesOver, JobStarts, JobRaced, Closes, Cleanup, Exits, Signal
    <3>2. QED
      BY <2>1, <3>1
  <2>4. QED
    BY <2>2, <2>3
<1>3. shut.step # "idle" => shut'.step # "idle"
  <2>1. shut' = shut \/ \E step \in {"taken", "detached", "waiting", "cleanup", "exit"} :
          shut' = [shut EXCEPT !.step = step]
        \/ TakesOver \/ JobStarts \/ JobRaced
    BY <1>1 DEF Sequence, StopRearms, Closes, Cleanup, Exits, Signal, ShutTo, LifeTypeOK
  <2>2. CASE TakesOver
    BY <1>1, <2>2 DEF TakesOver, LifeTypeOK
  <2>3. CASE JobStarts
    BY <1>1, <2>3 DEF JobStarts, LifeTypeOK
  <2>4. CASE JobRaced
    BY <1>1, <2>4 DEF JobRaced, AfterFailure, LifeTypeOK
  <2>5. QED
    BY <1>1, <2>1, <2>2, <2>3, <2>4 DEF LifeTypeOK
<1>4. ShutdownOwnsDaemon => ShutdownOwnsDaemon'
  BY <1>2, <1>3 DEF ShutdownOwnsDaemon, Stopping
<1>5. CASE UNCHANGED wmVars
  BY <1>2, <1>4, <1>5 DEF Ordered, wmVars
<1>6. CASE JobStarts /\ StopBegin("seq")
  <2>1. Stops("seq")
    BY <1>1, <1>6, StopBegins DEF Stoppers
  <2>2. ShutdownOwnsDaemon
    BY <1>6 DEF JobStarts, ShutdownOwnsDaemon, Stopping
  <2>3. QED
    BY <1>2, <1>4, <2>1, <2>2 DEF Ordered, Stops
<1>7. QED
  BY <1>5, <1>6 DEF Sequence, StopRearms, TakesOver, JobStarts, JobRaced, Closes, Cleanup,
                    Exits, Signal

LEMMA NextOrdered ==
  ASSUME Typed, Ordered, [Next]_vars
  PROVE  Ordered'
<1>1. CASE ForcedExit \/ Periodic \/ (\E j \in Jobs : JobEnds(j)) \/ UNCHANGED vars
  <2>1. UNCHANGED <<wmVars, main, shut, aborted>>
    BY <1>1 DEF ForcedExit, Periodic, ReconTimer, ReconTick, ReconRuns, JobEnds, lifeVars, vars
  <2>2. QED
    BY <2>1 DEF Ordered, wmVars, ShutdownOwnsDaemon, Stopping
<1>2. QED
  BY <1>1, StartupOrdered, ShutdownOrdered, ManagerOrdered DEF Next

LEMMA InitOrdered == Init => Ordered
BY DEF Init, WatchInit, Ordered, NoScan, NoStop, Scanners, Stoppers

----------------------------------------------------------------------------
(* Ownership of the live watch loops *)

\* The steps at which a scan holds watchers it retired, and the session it dials.
Holding == {"gone", "next", "start"}
Busy == Holding \cup {"dial"}

\* A live loop belongs to the map, or to the scan that awaits it, while the
\* manager is not stopping.
Owned ==
  ~mgr.stopping =>
    \A w \in Watchers : Live(w) =>
      \/ at[watch[w].session] = w
      \/ \E k \in Scanners : scan[k].step \in Holding /\ w \in scan[k].wait

\* What a scan relies on between its steps.
ScanSafe(k) ==
  LET r == scan[k] IN
  /\ r.step = "gone" => \A s \in Sessions : at[s] # None => s \in r.todo
  /\ r.step = "start" /\ ~mgr.stopping =>
       \A w \in Watchers : Live(w) /\ watch[w].session = r.cur => w \in r.wait
  /\ r.step = "dial" =>
       r.cur \in running /\ \A w \in Watchers : Live(w) => watch[w].session # r.cur

Watched ==
  /\ OneLoopPerSession /\ WatchedIsRunning /\ Owned
  /\ \A k \in Scanners : ScanSafe(k)

\* No loop is started and none changes its session.
Dwindling ==
  \A w \in Watchers : /\ watch'[w].session = watch[w].session
                      /\ Live(w)' => Live(w)

\* A step that starts no loop and does not advance a busy scan.
Undisturbed ==
  /\ Dwindling /\ UNCHANGED running
  /\ \A s \in Sessions : at'[s] = at[s] \/ (at'[s] = None /\ mgr'.stopping)
  /\ mgr.stopping => mgr'.stopping
  /\ \A k \in Scanners : \/ scan'[k] = scan[k]
                         \/ scan[k].step \notin Busy /\ scan'[k].step \notin Busy

LEMMA UndisturbedWatched ==
  ASSUME WTyped, Watched, Undisturbed
  PROVE  Watched'
<1>1. OneLoopPerSession'
  BY DEF Watched, OneLoopPerSession, Undisturbed, Dwindling
<1>2. WatchedIsRunning'
  BY DEF Watched, WatchedIsRunning, Undisturbed
<1>3. Owned'
  <2> SUFFICES ASSUME ~mgr'.stopping, NEW w \in Watchers, Live(w)'
               PROVE  \/ at'[watch'[w].session] = w
                      \/ \E k \in Scanners : scan'[k].step \in Holding /\ w \in scan'[k].wait
    BY DEF Owned
  <2>1. Live(w) /\ watch'[w].session = watch[w].session /\ ~mgr.stopping
    BY DEF Undisturbed, Dwindling
  <2>2. CASE at[watch[w].session] = w
    <3>1. watch[w].session \in Sessions
      BY <2>1 DEF Live, Ended, WTyped, Seated, HasSession
    <3>2. QED
      BY <2>1, <2>2, <3>1 DEF Undisturbed
  <2>3. CASE \E k \in Scanners : scan[k].step \in Holding /\ w \in scan[k].wait
    <3>1. PICK k \in Scanners : scan[k].step \in Holding /\ w \in scan[k].wait
      BY <2>3
    <3>2. scan'[k] = scan[k]
      BY <3>1 DEF Undisturbed, Busy
    <3>3. QED
      BY <3>1, <3>2
  <2>4. QED
    BY <2>1, <2>2, <2>3 DEF Watched, Owned
<1>4. ASSUME NEW k \in Scanners PROVE ScanSafe(k)'
  <2>1. CASE scan'[k].step \notin Busy
    BY <2>1 DEF ScanSafe, Busy, Holding
  <2>2. CASE scan'[k] = scan[k]
    <3>1. ScanSafe(k)
      BY DEF Watched
    <3>2. scan[k].step = "gone" => \A s \in Sessions : at'[s] # None => s \in scan[k].todo
      BY <3>1 DEF ScanSafe, Undisturbed
    <3>3. scan[k].step = "start" /\ ~mgr'.stopping =>
            \A w \in Watchers : Live(w)' /\ watch'[w].session = scan[k].cur
                                  => w \in scan[k].wait
      BY <3>1 DEF ScanSafe, Undisturbed, Dwindling
    <3>4. scan[k].step = "dial" =>
            /\ scan[k].cur \in running'
            /\ \A w \in Watchers : Live(w)' => watch'[w].session # scan[k].cur
      BY <3>1 DEF ScanSafe, Undisturbed, Dwindling
    <3>5. QED
      BY <2>2, <3>2, <3>3, <3>4 DEF ScanSafe
  <2>3. QED
    BY <2>1, <2>2 DEF Undisturbed
<1>5. QED
  BY <1>1, <1>2, <1>3, <1>4 DEF Watched

\* Watchers taken down go on living; the map loses those of W only.
LEMMA TakeDownDwindles ==
  ASSUME WTyped, NEW W, NEW retired \in BOOLEAN, TakeDown(W, retired)
  PROVE  /\ \A w \in Watchers : /\ watch'[w].session = watch[w].session
                                /\ watch'[w].step = watch[w].step
         /\ Dwindling
         /\ \A s \in Sessions : at'[s] = IF at[s] \in W THEN None ELSE at[s]
BY TakeDownKeeps DEF Dwindling, Live, Ended

LEMMA SameDwindle == ASSUME UNCHANGED watch PROVE Dwindling
BY DEF Dwindling, Live, Ended

\* The manager's other steps.
LEMMA ManagerUndisturbed ==
  ASSUME Typed, Ordered,
         \/ \E w \in Watchers : Loop(w)
         \/ Interval \/ RescanFallsDue \/ HerdrMoves
         \/ \E k \in Stoppers : StopSteps(k) \/ StopBegin(k)
         \/ \E p \in plans : PlanEnds(p)
  PROVE  Undisturbed
<1>1. WTyped
  BY TypedParts
<1>2. ASSUME FlagsOnly PROVE Dwindling
  BY <1>2 DEF FlagsOnly, Dwindling, Live, Ended
<1>3. ASSUME Dwindling, UNCHANGED <<running, at, scan, mgr>> PROVE Undisturbed
  BY <1>3 DEF Undisturbed
<1>4. ASSUME NEW w \in Watchers, Loop(w) PROVE Undisturbed
  <2>1. LoopMove(w)
    BY <1>1, <1>4, LoopMoves
  <2>2. PICK r \in Watcher, step \in LoopStep : r.session = watch[w].session /\ Move(w, r, step)
    BY <2>1 DEF LoopMove
  <2>3. \A v \in Watchers \ {w} : watch'[v] = watch[v]
    BY <1>1, <2>2 DEF Move, WTyped, WatchTypeOK
  <2>4. watch'[w] = [r EXCEPT !.step = step]
    BY <1>1, <2>2 DEF Move, WTyped, WatchTypeOK
  <2>5. watch'[w].session = watch[w].session
    BY <2>2, <2>4 DEF Watcher
  <2>6. Dwindling
    BY <2>1, <2>3, <2>5 DEF Dwindling, Live, Ended, LoopMove
  <2>7. QED
    BY <1>3, <2>1, <2>6 DEF LoopMove
<1>5. ASSUME NEW w \in Watchers, TickRefresh(w) PROVE Undisturbed
  BY <1>1, <1>2, <1>3, <1>5, TickRefreshFlags DEF TickRefresh, TickUnchanged
<1>6. ASSUME HerdrMoves PROVE Undisturbed
  <2>1. PICK s \in Sessions : AgentMoves(s) \/ PanesMove(s) \/ SessionMoves(s)
    BY <1>6 DEF HerdrMoves
  <2>2. UNCHANGED <<running, at, scan, mgr>>
    BY <2>1 DEF AgentMoves, PanesMove, SessionMoves, HerdrUnchanged
  <2>3. QED
    BY <1>1, <1>2, <1>3, <2>1, <2>2, HerdrFlags
<1>7. ASSUME TimerFires \/ RescanFallsDue \/ ScheduleTick PROVE Undisturbed
  <2>1. UNCHANGED <<running, at, scan, watch>>
    BY <1>7 DEF TimerFires, RescanFallsDue, ScheduleTick, TickUnchanged
  <2>2. mgr'.stopping = mgr.stopping
    BY <1>1, <1>7 DEF TimerFires, RescanFallsDue, ScheduleTick, WTyped, WatchTypeOK
  <2>3. QED
    BY <2>1, <2>2, SameDwindle DEF Undisturbed
<1>8. ASSUME TickLook \/ TickEnds PROVE Undisturbed
  <2>1. UNCHANGED <<running, at, watch, mgr>>
    BY <1>8 DEF TickLook, TickEnds, TickUnchanged
  <2>2. scan["tick"].step \notin Busy
    <3>1. CASE TickLook
      BY <3>1 DEF TickLook, Ordered, Busy, Holding
    <3>2. CASE TickEnds
      BY <3>2 DEF TickEnds, TickOver, Ordered, Busy, Holding
    <3>3. QED
      BY <1>8, <3>1, <3>2
  <2>3. ASSUME NEW q, scan' = [scan EXCEPT !["tick"] = q], q.step \in {"idle", "list"}
        PROVE  Undisturbed
    <3>1. scan'["tick"] = q /\ \A k \in Scanners \ {"tick"} : scan'[k] = scan[k]
      BY <1>1, <2>3 DEF WTyped, WatchTypeOK, Scanners
    <3>2. scan'["tick"].step \notin Busy
      BY <2>3, <3>1 DEF Busy, Holding
    <3>3. QED
      BY <2>1, <2>2, <3>1, <3>2, SameDwindle DEF Undisturbed
  <2>4. CASE TickEnds
    BY <2>3, <2>4 DEF TickEnds, ScanTo, NoScan
  <2>5. CASE TickLook /\ mgr.due
    <3>1. [NoScan EXCEPT !.step = "list", !.gen = mgr.gen].step = "list"
      BY DEF NoScan
    <3>2. QED
      BY <2>3, <2>5, <3>1 DEF TickLook, ScanTo
  <2>6. CASE TickLook /\ ~mgr.due
    <3>1. scan' = scan
      BY <2>6 DEF TickLook
    <3>2. QED
      BY <1>3, <2>1, <3>1, SameDwindle
  <2>7. QED
    BY <1>8, <2>4, <2>5, <2>6
<1>9. ASSUME NEW k \in Stoppers, StopBegin(k) PROVE Undisturbed
  BY <1>1, <1>9, StopBegins, SameDwindle DEF Stops, Undisturbed
<1>10. ASSUME NEW k \in Stoppers, StopSteps(k) PROVE Undisturbed
  <2>1. StopStepTaken(k)
    BY <1>1, <1>10, StopStepsTaken
  <2>2. mgr.stopping
    BY <2>1 DEF StopStepTaken, Ordered
  <2>3. Retire(Current) \/ UNCHANGED <<watch, at>>
    BY <1>10 DEF StopSteps, StopAborts, StopLooks, StopTicked, StopDrains, StopEnds
  <2>4. Dwindling /\ \A s \in Sessions : at'[s] = at[s] \/ at'[s] = None
    <3>1. CASE Retire(Current)
      BY <1>1, <3>1, TakeDownDwindles DEF Retire
    <3>2. CASE UNCHANGED <<watch, at>>
      BY <3>2, SameDwindle
    <3>3. QED
      BY <2>3, <3>1, <3>2
  <2>5. QED
    BY <2>1, <2>2, <2>4 DEF StopStepTaken, Undisturbed
<1>11. ASSUME NEW p \in plans, PlanEnds(p) PROVE Undisturbed
  BY <1>3, <1>11, SameDwindle DEF PlanEnds
<1>12. QED
  BY <1>4, <1>5, <1>6, <1>7, <1>8, <1>9, <1>10, <1>11 DEF Interval

\* While a scan is under way the other one is not.
LEMMA OneScan ==
  ASSUME Ordered, NEW k \in Scanners, scan[k].step # "idle", NEW j \in Scanners \ {k}
  PROVE  scan[j].step = "idle"
BY DEF Ordered, Scanners

\* Every live loop is in the map, unless the manager stops.
Mapped == ~mgr.stopping => \A w \in Watchers : Live(w) => at[watch[w].session] = w

LEMMA NothingHeld ==
  ASSUME Ordered, Watched, NEW k \in Scanners, scan[k].step # "idle",
         scan[k].step \notin Holding \/ AllEnded(scan[k].wait)
  PROVE  Mapped
<1> SUFFICES ASSUME ~mgr.stopping, NEW w \in Watchers, Live(w)
             PROVE  at[watch[w].session] = w
  BY DEF Mapped
<1>1. ASSUME NEW j \in Scanners, scan[j].step \in Holding, w \in scan[j].wait
      PROVE  FALSE
  <2>1. CASE j = k
    BY <1>1, <2>1 DEF AllEnded, Live
  <2>2. CASE j # k
    BY <1>1, <2>2, OneScan DEF Holding
  <2>3. QED
    BY <2>1, <2>2
<1>2. QED
  BY <1>1 DEF Watched, Owned

\* What a step of the only scan has to keep.
LEMMA ScanWatched ==
  ASSUME WTyped, Ordered, Watched, NEW k \in Scanners, scan[k].step # "idle",
         NEW q, ScanTo(k, q), OneLoopPerSession', WatchedIsRunning',
         ~mgr'.stopping => \A w \in Watchers : Live(w)' =>
           at'[watch'[w].session] = w \/ (q.step \in Holding /\ w \in q.wait),
         q.step = "gone" => \A s \in Sessions : at'[s] # None => s \in q.todo,
         q.step = "start" /\ ~mgr'.stopping =>
           \A w \in Watchers : Live(w)' /\ watch'[w].session = q.cur => w \in q.wait,
         q.step = "dial" =>
           q.cur \in running' /\ \A w \in Watchers : Live(w)' => watch'[w].session # q.cur
  PROVE  Watched'
<1>1. scan'[k] = q /\ \A j \in Scanners \ {k} : scan'[j] = scan[j]
  BY DEF ScanTo, WTyped, WatchTypeOK
<1>2. Owned'
  BY <1>1 DEF Owned
<1>3. ScanSafe(k)'
  BY <1>1 DEF ScanSafe
<1>4. ASSUME NEW j \in Scanners \ {k} PROVE ScanSafe(j)'
  <2>1. scan'[j].step = "idle"
    BY <1>1, OneScan
  <2>2. QED
    BY <2>1 DEF ScanSafe
<1>5. QED
  BY <1>2, <1>3, <1>4 DEF Watched

\* A scan's step that touches neither watchers nor map.
LEMMA PlainScanWatched ==
  ASSUME WTyped, Ordered, Watched, NEW k \in Scanners, scan[k].step # "idle", Mapped,
         NEW q, ScanTo(k, q), q.step \in {"next", "done", "failed"},
         UNCHANGED <<watch, at>>, mgr'.stopping = mgr.stopping, WatchedIsRunning'
  PROVE  Watched'
<1>1. OneLoopPerSession'
  BY DEF Watched, OneLoopPerSession, Live, Ended
<1>2. ~mgr'.stopping => \A w \in Watchers : Live(w)' => at'[watch'[w].session] = w
  BY DEF Mapped, Live, Ended
<1>3. QED
  BY <1>1, <1>2, ScanWatched

\* Retiring leaves at most one loop of a session and nothing new in the map.
LEMMA RetireKeeps ==
  ASSUME WTyped, Watched, NEW W, NEW retired \in BOOLEAN, TakeDown(W, retired),
         UNCHANGED running
  PROVE  OneLoopPerSession' /\ WatchedIsRunning'
<1>1. OneLoopPerSession'
  BY TakeDownDwindles DEF Watched, OneLoopPerSession, Dwindling
<1>2. WatchedIsRunning'
  BY TakeDownDwindles DEF Watched, WatchedIsRunning
<1>3. QED
  BY <1>1, <1>2

LEMMA ScanListWatched ==
  ASSUME WTyped, Ordered, Watched, NEW k \in Scanners, ScanList(k)
  PROVE  Watched'
<1> DEFINE r == scan[k]
           listed == {s \in Sessions : herdr[s].up}
           gone == {at[s] : s \in Sessions \ listed} \ {None}
           q == [r EXCEPT !.step = "gone", !.todo = listed, !.wait = gone]
<1>1. r \in Scan /\ r.step = "list" /\ UNCHANGED <<running, mgr>>
  BY DEF ScanList, WTyped, WatchTypeOK
<1>2. Mapped
  BY <1>1, NothingHeld DEF Holding
<1>3. CASE IsStopping(r.gen)
  <2>1. ScanTo(k, [r EXCEPT !.step = "done"]) /\ UNCHANGED <<watch, at>>
    BY <1>3 DEF ScanList
  <2>2. [r EXCEPT !.step = "done"].step = "done"
    BY <1>1 DEF Scan
  <2>3. WatchedIsRunning'
    BY <1>1, <2>1 DEF Watched, WatchedIsRunning
  <2>4. QED
    BY <1>1, <1>2, <2>1, <2>2, <2>3, PlainScanWatched
<1>4. CASE ~IsStopping(r.gen)
  <2>1. TakeDown(gone, TRUE) /\ ScanTo(k, q)
    BY <1>4 DEF ScanList, Retire
  <2>2. q.step = "gone" /\ q.todo = listed /\ q.wait = gone
    BY <1>1 DEF Scan
  <2>3. ASSUME NEW s \in Sessions, at'[s] # None PROVE s \in listed
    <3>1. at[s] \notin gone /\ at[s] # None
      BY <2>1, <2>3, TakeDownDwindles
    <3>2. QED
      BY <3>1
  <2>4. ASSUME ~mgr'.stopping, NEW w \in Watchers, Live(w)'
        PROVE  at'[watch'[w].session] = w \/ w \in gone
    <3>1. Live(w) /\ watch'[w].session = watch[w].session
      BY <2>1, <2>4, TakeDownDwindles DEF Dwindling
    <3>2. at[watch[w].session] = w
      BY <1>1, <1>2, <2>4, <3>1 DEF Mapped
    <3>3. watch[w].session \in Sessions
      BY <3>1 DEF Live, Ended, WTyped, Seated, HasSession
    <3>4. \A s \in Sessions : at'[s] = IF at[s] \in gone THEN None ELSE at[s]
      BY <2>1, TakeDownDwindles
    <3> HIDE DEF gone, listed, q
    <3>5. at'[watch[w].session] = w \/ w \in gone
      BY <3>2, <3>3, <3>4
    <3>6. QED
      BY <3>1, <3>5
  <2>5. OneLoopPerSession' /\ WatchedIsRunning'
    BY <1>1, <2>1, RetireKeeps
  <2> HIDE DEF q, gone, listed
  <2>6. QED
    BY <1>1, <2>1, <2>2, <2>3, <2>4, <2>5, ScanWatched DEF Holding
<1>5. QED
  BY <1>3, <1>4

LEMMA ScanMarkWatched ==
  ASSUME WTyped, Ordered, Watched, NEW k \in Scanners, ScanMark(k)
  PROVE  Watched'
<1> DEFINE r == scan[k]
<1>1. r \in Scan /\ r.step = "gone" /\ AllEnded(r.wait) /\ UNCHANGED <<mgr, watch, at>>
  BY DEF ScanMark, WTyped, WatchTypeOK
<1>2. Mapped
  BY <1>1, NothingHeld
<1>3. ASSUME NEW step \in {"done", "next"}
      PROVE  [r EXCEPT !.step = step, !.wait = {}].step = step
  BY <1>1 DEF Scan
<1>4. PICK step \in {"done", "next"} : ScanTo(k, [r EXCEPT !.step = step, !.wait = {}])
  BY DEF ScanMark
<1>5. \A s \in Sessions : at[s] # None => s \in running /\ s \in r.todo
  BY <1>1 DEF Watched, WatchedIsRunning, ScanSafe
<1>6. running' \in {running, running \cap r.todo}
  BY DEF ScanMark, RowsLeft
<1>7. WatchedIsRunning'
  BY <1>1, <1>5, <1>6 DEF WatchedIsRunning
<1>8. QED
  BY <1>1, <1>2, <1>3, <1>4, <1>7, PlainScanWatched

LEMMA ScanNextWatched ==
  ASSUME WTyped, Ordered, Watched, NEW k \in Scanners, ScanNext(k)
  PROVE  Watched'
<1> DEFINE r == scan[k]
<1>1. r \in Scan /\ r.step = "next" /\ AllEnded(r.wait) /\ UNCHANGED <<running, mgr>>
  BY DEF ScanNext, WTyped, WatchTypeOK
<1>2. Mapped
  BY <1>1, NothingHeld
<1>3. PICK s \in r.todo :
        LET old == {at[s]} \ {None} IN
        /\ Retire(old)
        /\ ScanTo(k, [r EXCEPT !.step = "start", !.todo = @ \ {s}, !.cur = s, !.wait = old])
  BY DEF ScanNext
<1> DEFINE old == {at[s]} \ {None}
           q == [r EXCEPT !.step = "start", !.todo = r.todo \ {s}, !.cur = s, !.wait = old]
<1>4. TakeDown(old, TRUE) /\ ScanTo(k, q)
  BY <1>3 DEF Retire
<1>5. q.step = "start" /\ q.cur = s /\ q.wait = old
  BY <1>1 DEF Scan
<1>6. OneLoopPerSession' /\ WatchedIsRunning'
  BY <1>1, <1>4, RetireKeeps
<1>7. ASSUME ~mgr'.stopping, NEW w \in Watchers, Live(w)'
      PROVE  (at'[watch'[w].session] = w \/ w \in old) /\ (watch'[w].session = s => w \in old)
  <2>1. Live(w) /\ watch'[w].session = watch[w].session
    BY <1>4, <1>7, TakeDownDwindles DEF Dwindling
  <2>2. at[watch[w].session] = w
    BY <1>1, <1>2, <1>7, <2>1 DEF Mapped
  <2>3. watch[w].session \in Sessions
    BY <2>1 DEF Live, Ended, WTyped, Seated, HasSession
  <2>4. \A u \in Sessions : at'[u] = IF at[u] \in old THEN None ELSE at[u]
    BY <1>4, TakeDownDwindles
  <2>5. w # None
    BY WatchAssumption
  <2>6. watch[w].session = s => w \in old
    BY <2>2, <2>5
  <2> HIDE DEF q, old
  <2>7. at'[watch[w].session] = w \/ w \in old
    BY <2>2, <2>3, <2>4
  <2>8. QED
    BY <2>1, <2>6, <2>7
<1> HIDE DEF q, old
<1>8. QED
  BY <1>1, <1>4, <1>5, <1>6, <1>7, ScanWatched DEF Holding

LEMMA ScanStartWatched ==
  ASSUME WTyped, Ordered, Watched, NEW k \in Scanners, ScanStart(k)
  PROVE  Watched'
<1> DEFINE r == scan[k]
           q == [r EXCEPT !.step = "dial", !.wait = {}]
<1>1. r \in Scan /\ r.step = "start" /\ AllEnded(r.wait) /\ UNCHANGED <<mgr, watch, at>>
  BY DEF ScanStart, Replaced, WTyped, WatchTypeOK
<1>2. Mapped
  BY <1>1, NothingHeld
<1>3. CASE IsStopping(r.gen)
  <2>1. ScanTo(k, [r EXCEPT !.step = "next", !.wait = {}, !.cur = None]) /\ running' = running
    BY <1>3 DEF ScanStart
  <2>2. [r EXCEPT !.step = "next", !.wait = {}, !.cur = None].step = "next"
    BY <1>1 DEF Scan
  <2>3. WatchedIsRunning'
    BY <1>1, <2>1 DEF Watched, WatchedIsRunning
  <2>4. QED
    BY <1>1, <1>2, <2>1, <2>2, <2>3, PlainScanWatched
<1>4. CASE ~IsStopping(r.gen)
  <2>1. ScanTo(k, q) /\ running' = running \cup {r.cur} /\ ~mgr.stopping
    BY <1>4 DEF ScanStart, IsStopping
  <2>2. q.step = "dial" /\ q.cur = r.cur
    BY <1>1 DEF Scan
  <2>3. ASSUME NEW w \in Watchers, Live(w)' PROVE watch'[w].session # r.cur
    <3>1. Live(w) /\ watch' = watch
      BY <1>1, <2>3 DEF Live, Ended
    <3>2. watch[w].session = r.cur => w \in r.wait
      BY <1>1, <2>1, <3>1 DEF Watched, ScanSafe
    <3>3. QED
      BY <1>1, <3>1, <3>2 DEF AllEnded, Live
  <2>4. OneLoopPerSession' /\ WatchedIsRunning'
    BY <1>1, <2>1 DEF Watched, OneLoopPerSession, WatchedIsRunning, Live, Ended
  <2>5. ~mgr'.stopping => \A w \in Watchers : Live(w)' => at'[watch'[w].session] = w
    BY <1>1, <1>2 DEF Mapped, Live, Ended
  <2> HIDE DEF q
  <2>6. QED
    BY <1>1, <2>1, <2>2, <2>3, <2>4, <2>5, ScanWatched
<1>5. QED
  BY <1>3, <1>4

LEMMA ScanDialWatched ==
  ASSUME WTyped, Ordered, Watched, NEW k \in Scanners, ScanDial(k)
  PROVE  Watched'
<1> DEFINE r == scan[k]
           s == r.cur
<1>1. r \in Scan /\ r.step = "dial" /\ s \in Sessions /\ UNCHANGED <<running, mgr>>
  BY DEF ScanDial, WTyped, WatchTypeOK, Seated
<1>2. Mapped
  BY <1>1, NothingHeld DEF Holding
<1>3. s \in running /\ \A w \in Watchers : Live(w) => watch[w].session # s
  BY <1>1 DEF Watched, ScanSafe
<1>4. CASE ~herdr[s].up
  <2>1. ScanTo(k, [r EXCEPT !.step = "failed", !.todo = {}, !.cur = None])
        /\ UNCHANGED <<watch, at>>
    BY <1>4 DEF ScanDial
  <2>2. [r EXCEPT !.step = "failed", !.todo = {}, !.cur = None].step = "failed"
    BY <1>1 DEF Scan
  <2>3. WatchedIsRunning'
    BY <1>1, <2>1 DEF Watched, WatchedIsRunning
  <2>4. QED
    BY <1>1, <1>2, <2>1, <2>2, <2>3, PlainScanWatched
<1>5. CASE herdr[s].up
  <2>1. PICK w \in Watchers :
          /\ Free(w)
          /\ Move(w, [NoWatch EXCEPT !.session = s, !.gen = r.gen, !.client = "open"], "top")
          /\ at' = [at EXCEPT ![s] = w]
          /\ ScanTo(k, [r EXCEPT !.step = "launched", !.cur = w])
    BY <1>5 DEF ScanDial
  <2> DEFINE q == [r EXCEPT !.step = "launched", !.cur = w]
  <2>2. q.step = "launched"
    BY <1>1 DEF Scan
  <2>3. r.gen \in Nat
    BY <1>1 DEF Scan
  <2>4. /\ watch'[w].session = s /\ watch'[w].step = "top"
        /\ \A v \in Watchers \ {w} : watch'[v] = watch[v]
        /\ at'[s] = w /\ \A t \in Sessions \ {s} : at'[t] = at[t]
    <3> DEFINE gen == r.gen
    <3>1. s \in Sessions /\ gen \in Nat /\ Free(w) /\ at' = [at EXCEPT ![s] = w]
          /\ Move(w, [NoWatch EXCEPT !.session = s, !.gen = gen, !.client = "open"], "top")
      BY <1>1, <2>1, <2>3
    <3> HIDE DEF s, gen
    <3>2. QED
      BY <3>1, Launched
  <2>5. \A v \in Watchers \ {w} : Live(v)' => Live(v) /\ watch'[v].session = watch[v].session
                                             /\ watch[v].session # s
    BY <1>3, <2>4 DEF Live, Ended
  <2>6. OneLoopPerSession'
    <3> SUFFICES ASSUME NEW u \in Watchers, NEW v \in Watchers, Live(u)', Live(v)',
                        watch'[u].session = watch'[v].session
                 PROVE  u = v
      BY DEF OneLoopPerSession
    <3>1. CASE u = w \/ v = w
      BY <2>4, <2>5, <3>1
    <3>2. CASE u # w /\ v # w
      BY <2>5, <3>2 DEF Watched, OneLoopPerSession
    <3>3. QED
      BY <3>1, <3>2
  <2>7. WatchedIsRunning'
    BY <1>1, <1>3, <2>4 DEF Watched, WatchedIsRunning
  <2>8. ASSUME ~mgr'.stopping, NEW v \in Watchers, Live(v)'
        PROVE  at'[watch'[v].session] = v
    <3>1. CASE v = w
      BY <2>4, <3>1
    <3>2. CASE v # w
      <4>1. Live(v) /\ watch'[v].session = watch[v].session /\ watch[v].session # s
        BY <2>5, <2>8, <3>2
      <4>2. watch[v].session \in Sessions
        BY <4>1 DEF Live, Ended, WTyped, Seated, HasSession
      <4>3. at[watch[v].session] = v
        BY <1>1, <1>2, <2>8, <4>1 DEF Mapped
      <4>4. QED
        BY <2>4, <4>1, <4>2, <4>3
    <3>3. QED
      BY <3>1, <3>2
  <2> HIDE DEF q
  <2>9. ScanTo(k, q)
    BY <2>1 DEF q
  <2>10. QED
    BY <1>1, <2>2, <2>6, <2>7, <2>8, <2>9, ScanWatched
<1>6. QED
  BY <1>4, <1>5

LEMMA ScanLaunchedWatched ==
  ASSUME WTyped, Ordered, Watched, NEW k \in Scanners, ScanLaunched(k)
  PROVE  Watched'
<1> DEFINE r == scan[k]
           w == r.cur
           next == [r EXCEPT !.step = "next", !.cur = None]
           q == [next EXCEPT !.wait = {w}]
<1>1. r \in Scan /\ r.step = "launched" /\ UNCHANGED <<running, mgr>>
  BY DEF ScanLaunched, WTyped, WatchTypeOK
<1>2. Mapped
  BY <1>1, NothingHeld DEF Holding
<1>3. next.step = "next"
  BY <1>1 DEF Scan
<1>4. q.step = "next" /\ q.wait = {w}
  BY <1>1 DEF Scan
<1>5. CASE ~IsStopping(r.gen)
  <2>1. ScanTo(k, next) /\ UNCHANGED <<watch, at>>
    BY <1>5 DEF ScanLaunched
  <2>2. WatchedIsRunning'
    BY <1>1, <2>1 DEF Watched, WatchedIsRunning
  <2> HIDE DEF next
  <2>3. QED
    BY <1>1, <1>2, <1>3, <2>1, <2>2, PlainScanWatched
<1>6. CASE IsStopping(r.gen)
  <2>1. TakeDown({w}, FALSE) /\ ScanTo(k, q)
    BY <1>6 DEF ScanLaunched
  <2>2. OneLoopPerSession' /\ WatchedIsRunning'
    BY <1>1, <2>1, RetireKeeps
  <2>3. ASSUME ~mgr'.stopping, NEW v \in Watchers, Live(v)'
        PROVE  at'[watch'[v].session] = v \/ v \in {w}
    <3>1. Live(v) /\ watch'[v].session = watch[v].session
      BY <2>1, <2>3, TakeDownDwindles DEF Dwindling
    <3>2. at[watch[v].session] = v
      BY <1>1, <1>2, <2>3, <3>1 DEF Mapped
    <3>3. watch[v].session \in Sessions
      BY <3>1 DEF Live, Ended, WTyped, Seated, HasSession
    <3>4. QED
      BY <2>1, <3>1, <3>2, <3>3, TakeDownDwindles
  <2> HIDE DEF q, next
  <2>4. QED
    BY <1>1, <1>4, <2>1, <2>2, <2>3, ScanWatched DEF Holding
<1>7. QED
  BY <1>5, <1>6

LEMMA RescanWatched ==
  ASSUME WTyped, Ordered, Watched, NEW k \in Scanners, Rescan(k)
  PROVE  Watched'
<1>1. scan[k] \in Scan /\ RescanStep(k)
  BY RescanSteps DEF WTyped, WatchTypeOK
<1>2. CASE ScanListFails(k)
  <2>1. Mapped
    BY <1>1, <1>2, NothingHeld DEF ScanListFails, RescanStep, Holding
  <2>2. WatchedIsRunning'
    BY <1>2 DEF ScanListFails, Watched, WatchedIsRunning
  <2>3. [scan[k] EXCEPT !.step = "failed"].step = "failed"
    BY <1>1 DEF Scan
  <2>4. QED
    BY <1>1, <1>2, <2>1, <2>2, <2>3, PlainScanWatched DEF ScanListFails, RescanStep
<1>3. CASE ScanDone(k)
  <2>1. Mapped
    BY <1>1, <1>3, NothingHeld DEF ScanDone, RescanStep
  <2>2. WatchedIsRunning'
    BY <1>3 DEF ScanDone, Watched, WatchedIsRunning
  <2>3. [scan[k] EXCEPT !.step = "done", !.todo = {}, !.wait = {}].step = "done"
    BY <1>1 DEF Scan
  <2>4. QED
    BY <1>1, <1>3, <2>1, <2>2, <2>3, PlainScanWatched DEF ScanDone, RescanStep
<1>4. QED
  BY <1>2, <1>3, ScanListWatched, ScanMarkWatched, ScanNextWatched, ScanStartWatched,
     ScanDialWatched, ScanLaunchedWatched DEF Rescan

\* The startup's part: the rescan of Start begins, ends, or is dropped.
LEMMA StartupUndisturbed ==
  ASSUME Typed, Ordered, StartBegins \/ StartArms \/ StepFails,
         StartBegins => ~ShutdownOwnsDaemon /\ ~main.busy
  PROVE  Undisturbed
<1>1. WTyped
  BY TypedParts
<1>2. CASE StartBegins
  <2>1. scan["start"].step = "idle" /\ ~mgr.stopping
    BY <1>2 DEF Ordered
  <2>2. UNCHANGED <<running, watch, at>> /\ scan'["start"].step = "list"
        /\ scan'["tick"] = scan["tick"]
    BY <1>1, <1>2, StartSteps
  <2>3. QED
    BY <2>1, <2>2, SameDwindle DEF Undisturbed, Scanners, Busy, Holding
<1>3. CASE StartArms
  <2>1. UNCHANGED <<running, watch, at>> /\ scan["start"].step = "done"
        /\ scan'["start"].step = "idle" /\ scan'["tick"] = scan["tick"]
        /\ mgr'.stopping = mgr.stopping
    BY <1>1, <1>3, StartSteps
  <2>2. QED
    BY <2>1, SameDwindle DEF Undisturbed, Scanners, Busy, Holding
<1>4. CASE StepFails
  <2>1. UNCHANGED <<running, watch, at, mgr>> /\ scan' = [scan EXCEPT !["start"] = NoScan]
    BY <1>4 DEF StepFails
  <2>2. scan'["start"].step = "idle" /\ scan'["tick"] = scan["tick"]
    BY <1>1, <2>1 DEF WTyped, WatchTypeOK, Scanners, NoScan
  <2>3. scan["start"].step \in {"idle", "failed"}
    <3>1. main.step \in 1..7
      BY <1>4 DEF StepFails, Starting
    <3>2. Step = "watch" <=> main.step = 6
      BY <3>1 DEF Step, StartupSteps
    <3>3. QED
      BY <1>4, <3>2 DEF StepFails, Ordered
  <2>4. QED
    BY <2>1, <2>2, <2>3, SameDwindle DEF Undisturbed, Scanners, Busy, Holding
<1>5. QED
  BY <1>2, <1>3, <1>4

\* A step of the process, as the manager sees it.
LEMMA ProcessSteps ==
  ASSUME Typed,
         Startup \/ Signal \/ ForcedExit \/ Sequence \/ Periodic \/ \E j \in Jobs : JobEnds(j)
  PROVE  \/ UNCHANGED wmVars
         \/ StartBegins /\ ~ShutdownOwnsDaemon /\ ~main.busy
         \/ StartArms \/ StepFails
         \/ \E k \in Stoppers : StopBegin(k)
<1>1. CASE Startup
  BY <1>1 DEF Startup, Boot, StepBegins, StepEnds, Unwind, Unwound, Stoppers
<1>2. CASE Sequence
  BY <1>2 DEF Sequence, StopRearms, TakesOver, JobStarts, JobRaced, Closes, Cleanup, Exits,
              Stoppers
<1>3. CASE Signal \/ ForcedExit \/ Periodic \/ \E j \in Jobs : JobEnds(j)
  BY <1>3 DEF Signal, ForcedExit, Periodic, ReconTimer, ReconTick, ReconRuns, JobEnds
<1>4. QED
  BY <1>1, <1>2, <1>3

LEMMA NextWatched ==
  ASSUME Typed, Ordered, Watched, [Next]_vars
  PROVE  Watched'
<1>1. WTyped
  BY TypedParts
<1>2. CASE UNCHANGED wmVars
  <2>1. UNCHANGED <<mgr, running, scan, watch, at>>
    BY <1>2 DEF wmVars
  <2>2. Undisturbed
    BY <2>1, SameDwindle DEF Undisturbed
  <2>3. QED
    BY <1>1, <2>2, UndisturbedWatched
<1>3. CASE Manager \/ World
  <2>1. CASE \E k \in Scanners : Rescan(k)
    BY <1>1, <2>1, RescanWatched
  <2>2. CASE ~\E k \in Scanners : Rescan(k)
    <3>1. Undisturbed
      BY <1>3, <2>2, ManagerUndisturbed DEF Manager, World, Stoppers
    <3>2. QED
      BY <1>1, <3>1, UndisturbedWatched
  <2>3. QED
    BY <2>1, <2>2
<1>4. CASE Startup \/ Signal \/ ForcedExit \/ Sequence \/ Periodic \/ \E j \in Jobs : JobEnds(j)
  <2>1. CASE \E k \in Stoppers : StopBegin(k)
    BY <1>1, <2>1, ManagerUndisturbed, UndisturbedWatched
  <2>2. CASE ~StartBegins /\ (StartArms \/ StepFails)
    BY <1>1, <2>2, StartupUndisturbed, UndisturbedWatched
  <2>3. CASE StartBegins /\ ~ShutdownOwnsDaemon /\ ~main.busy
    BY <1>1, <2>3, StartupUndisturbed, UndisturbedWatched
  <2>4. CASE StartBegins /\ (StartArms \/ StepFails)
    <3>1. ~StartArms
      BY <1>1, <2>4, StartSteps DEF WTyped, WatchTypeOK
    <3>2. FALSE
      BY <1>1, <2>4, <3>1, StartSteps DEF StepFails, NoScan, WTyped, WatchTypeOK, Scanners
    <3>3. QED
      BY <3>2
  <2>5. QED
    BY <1>2, <1>4, <2>1, <2>2, <2>3, <2>4, ProcessSteps
<1>5. QED
  BY <1>2, <1>3, <1>4 DEF Next, vars

LEMMA InitWatched == Init => Watched
<1> SUFFICES ASSUME Init PROVE Watched
  OBVIOUS
<1>1. \A w \in Watchers : ~Live(w)
  BY DEF Init, WatchInit, NoWatch, Live, Ended
<1>2. \A s \in Sessions : at[s] = None
  BY DEF Init, WatchInit
<1>3. \A k \in Scanners : scan[k].step = "idle"
  BY DEF Init, WatchInit, NoScan
<1>4. QED
  BY <1>1, <1>2, <1>3
     DEF Watched, OneLoopPerSession, WatchedIsRunning, Owned, ScanSafe

\* The three layers above, of every reachable state.
LEMMA Invariants == Spec => [](Typed /\ Ordered /\ Watched)
BY InitTyped, InitOrdered, InitWatched, NextTyped, NextOrdered, NextWatched, PTL DEF Spec

\* However rescans, ticks, restarts and stops overlap, a session never has two live
\* watch loops: replacing a watcher waits for the loop it replaces
\* (OneLoopPerSession).
THEOREM SingleLoop == Spec => []OneLoopPerSession
<1>1. Watched => OneLoopPerSession
  BY DEF Watched
<1>2. QED
  BY <1>1, Invariants, PTL

\* The rows a rescan marks stopped are never those of sessions that are watched
\* (WatchedIsRunning).
THEOREM MarkedAreUnwatched == Spec => []WatchedIsRunning
<1>1. Watched => WatchedIsRunning
  BY DEF Watched
<1>2. QED
  BY <1>1, Invariants, PTL

----------------------------------------------------------------------------
(* Rest: what Stop has waited for when it returns *)

\* A tick has sessions to visit only while it refreshes them.  When startup is over,
\* done or failed, so is its rescan; the sequence stops the manager after the
\* take-over, a failed startup while it unwinds.
Poised ==
  /\ ticker.step # "refresh" => ticker.todo = {}
  /\ main.done \/ main.fail > 0 => scan["start"].step = "idle"
  /\ shut.step \notin Sequenced => ~shut.late
  /\ stop["seq"].step # "idle" => shut.step \in Sequenced
  /\ stop["fail"].step # "idle" => main.fail > 0

\* Stop finds every live loop: retired, in the map, or with the scan that took its
\* watcher down and waits for it.
Found ==
  \A w \in Watchers : Live(w) =>
    \/ watch[w].retired \/ at[watch[w].session] = w
    \/ \E k \in Scanners : scan[k].step = "next" /\ w \in scan[k].wait

----------------------------------------------------------------------------
(* Rest: the live loops are found *)

\* A step that starts no loop and loses none.
Tracked ==
  \A w \in Watchers : Live(w)' =>
    /\ Live(w) /\ watch'[w].session = watch[w].session
    /\ watch[w].retired => watch'[w].retired
    /\ at[watch[w].session] = w => at'[watch[w].session] = w \/ watch'[w].retired
    /\ \A k \in Scanners :
         scan[k].step = "next" /\ w \in scan[k].wait => scan'[k] = scan[k]

LEMMA TrackedFound ==
  ASSUME Found, Tracked
  PROVE  Found'
<1> SUFFICES ASSUME NEW w \in Watchers, Live(w)'
             PROVE  \/ watch'[w].retired \/ at'[watch'[w].session] = w
                    \/ \E k \in Scanners : scan'[k].step = "next" /\ w \in scan'[k].wait
  BY DEF Found
<1>1. Live(w) /\ watch'[w].session = watch[w].session
  BY DEF Tracked
<1>2. CASE watch[w].retired \/ at[watch[w].session] = w
  BY <1>1, <1>2 DEF Tracked
<1>3. CASE \E k \in Scanners : scan[k].step = "next" /\ w \in scan[k].wait
  <2>1. PICK k \in Scanners : scan[k].step = "next" /\ w \in scan[k].wait
    BY <1>3
  <2>2. scan'[k] = scan[k]
    BY <2>1 DEF Tracked
  <2>3. QED
    BY <2>1, <2>2
<1>4. QED
  BY <1>1, <1>2, <1>3 DEF Found

LEMMA RetireTracks ==
  ASSUME WTyped, NEW W, Retire(W),
         \A w \in Watchers, k \in Scanners :
           Live(w) /\ scan[k].step = "next" /\ w \in scan[k].wait => scan'[k] = scan[k]
  PROVE  Tracked
<1>1. TakeDown(W, TRUE)
  BY DEF Retire
<1>2. /\ \A w \in Watchers : /\ watch'[w].session = watch[w].session
                             /\ watch'[w].step = watch[w].step
      /\ \A s \in Sessions : at'[s] = IF at[s] \in W THEN None ELSE at[s]
  BY <1>1, TakeDownDwindles
<1>3. \A w \in Watchers : watch[w] \in Watcher
  BY DEF WTyped, WatchTypeOK
<1>4. \A w \in Watchers :
        watch'[w] = IF w \in W /\ ~Ended(w)
                    THEN [watch[w] EXCEPT !.aborted = TRUE, !.client = "closed",
                                          !.retired = TRUE]
                    ELSE watch[w]
  BY <1>1 DEF TakeDown
<1> SUFFICES ASSUME NEW w \in Watchers, Live(w)'
             PROVE  /\ Live(w) /\ watch'[w].session = watch[w].session
                    /\ watch[w].retired => watch'[w].retired
                    /\ at[watch[w].session] = w =>
                         at'[watch[w].session] = w \/ watch'[w].retired
                    /\ \A k \in Scanners :
                         scan[k].step = "next" /\ w \in scan[k].wait => scan'[k] = scan[k]
  BY DEF Tracked
<1>5. Live(w) /\ watch'[w].session = watch[w].session
  BY <1>2 DEF Live, Ended
<1>6. watch[w].session \in Sessions
  BY <1>5 DEF Live, Ended, WTyped, Seated, HasSession
<1>7. w \in W => watch'[w].retired
  BY <1>3, <1>4, <1>5 DEF Live, Watcher
<1>8. w \notin W => watch'[w] = watch[w]
  BY <1>4
<1>9. QED
  BY <1>2, <1>5, <1>6, <1>7, <1>8

\* Watchers and map stay; a scan with a live loop to wait for stays too.
LEMMA StillTracks ==
  ASSUME UNCHANGED <<watch, at>>,
         \A w \in Watchers, k \in Scanners :
           Live(w) /\ scan[k].step = "next" /\ w \in scan[k].wait => scan'[k] = scan[k]
  PROVE  Tracked
BY DEF Tracked, Live, Ended

LEMMA FlagsTrack ==
  ASSUME FlagsOnly, UNCHANGED <<at, scan>>
  PROVE  Tracked
BY DEF Tracked, FlagsOnly, Live, Ended

LEMMA LoopTracks ==
  ASSUME WTyped, NEW w \in Watchers, Loop(w)
  PROVE  Tracked
<1>1. LoopMove(w)
  BY LoopMoves
<1>2. PICK r \in Watcher, step \in LoopStep :
        /\ r.session = watch[w].session /\ Move(w, r, step)
        /\ step = "ended" \/ r.retired = watch[w].retired
  BY <1>1 DEF LoopMove
<1>3. \A v \in Watchers \ {w} : watch'[v] = watch[v]
  BY <1>2 DEF Move, WTyped, WatchTypeOK
<1>4. watch'[w] = [r EXCEPT !.step = step]
  BY <1>2 DEF Move, WTyped, WatchTypeOK
<1>5. watch'[w].session = watch[w].session
      /\ (Live(w)' => watch'[w].retired = watch[w].retired)
  BY <1>2, <1>4 DEF Watcher, Live, Ended
<1>6. UNCHANGED <<at, scan>> /\ Live(w)
  BY <1>1 DEF LoopMove
<1>7. QED
  BY <1>3, <1>5, <1>6 DEF Tracked, Live, Ended

LEMMA ScanDialFound ==
  ASSUME WTyped, Ordered, Watched, Found, NEW k \in Scanners, ScanDial(k)
  PROVE  Found'
<1> DEFINE r == scan[k]
           s == r.cur
<1>1. r \in Scan /\ r.step = "dial" /\ s \in Sessions
  BY DEF ScanDial, WTyped, WatchTypeOK, Seated
<1>2. \A j \in Scanners \ {k} : scan'[j] = scan[j]
  BY RescanSteps DEF RescanStep, Rescan
<1>3. CASE ~herdr[s].up
  <2>1. UNCHANGED <<watch, at>>
    BY <1>3 DEF ScanDial
  <2>2. QED
    BY <1>1, <1>2, <2>1, StillTracks, TrackedFound
<1>4. CASE herdr[s].up
  <2>1. PICK w \in Watchers :
          /\ Free(w)
          /\ Move(w, [NoWatch EXCEPT !.session = s, !.gen = r.gen, !.client = "open"], "top")
          /\ at' = [at EXCEPT ![s] = w]
    BY <1>4 DEF ScanDial
  <2>2. /\ watch'[w].session = s
        /\ \A v \in Watchers \ {w} : watch'[v] = watch[v]
        /\ at'[s] = w /\ \A t \in Sessions \ {s} : at'[t] = at[t]
    <3> DEFINE gen == r.gen
    <3>1. s \in Sessions /\ gen \in Nat /\ Free(w) /\ at' = [at EXCEPT ![s] = w]
          /\ Move(w, [NoWatch EXCEPT !.session = s, !.gen = gen, !.client = "open"], "top")
      BY <1>1, <2>1 DEF Scan
    <3> HIDE DEF s, gen
    <3>2. QED
      BY <3>1, Launched
  <2>3. \A v \in Watchers : Live(v) => watch[v].session # s
    BY <1>1 DEF Watched, ScanSafe
  <2>4. ASSUME NEW v \in Watchers \ {w}, Live(v)'
        PROVE  \/ watch'[v].retired \/ at'[watch'[v].session] = v
               \/ \E j \in Scanners : scan'[j].step = "next" /\ v \in scan'[j].wait
    <3>1. Live(v) /\ watch'[v] = watch[v] /\ watch[v].session # s
      BY <2>2, <2>3, <2>4 DEF Live, Ended
    <3>2. watch[v].session \in Sessions
      BY <3>1 DEF Live, Ended, WTyped, Seated, HasSession
    <3>3. at'[watch[v].session] = at[watch[v].session]
      BY <2>2, <3>1, <3>2
    <3>4. \A j \in Scanners : scan[j].step = "next" => scan'[j] = scan[j]
      BY <1>1, <1>2
    <3>5. \/ watch[v].retired \/ at[watch[v].session] = v
          \/ \E j \in Scanners : scan[j].step = "next" /\ v \in scan[j].wait
      BY <3>1 DEF Found
    <3>6. QED
      BY <3>1, <3>3, <3>4, <3>5
  <2>5. QED
    BY <2>2, <2>4 DEF Found
<1>5. QED
  BY <1>3, <1>4

LEMMA ScanLaunchedFound ==
  ASSUME WTyped, Ordered, Found, NEW k \in Scanners, ScanLaunched(k)
  PROVE  Found'
<1> DEFINE r == scan[k]
           w == r.cur
           next == [r EXCEPT !.step = "next", !.cur = None]
           q == [next EXCEPT !.wait = {w}]
<1>1. r \in Scan /\ r.step = "launched"
  BY DEF ScanLaunched, WTyped, WatchTypeOK
<1>2. \A j \in Scanners \ {k} : scan'[j] = scan[j]
  BY RescanSteps DEF RescanStep, Rescan
<1>3. CASE ~IsStopping(r.gen)
  <2>1. UNCHANGED <<watch, at>>
    BY <1>3 DEF ScanLaunched
  <2>2. QED
    BY <1>1, <1>2, <2>1, StillTracks, TrackedFound
<1>4. CASE IsStopping(r.gen)
  <2>1. TakeDown({w}, FALSE) /\ ScanTo(k, q)
    BY <1>4 DEF ScanLaunched
  <2>2. q.step = "next" /\ q.wait = {w}
    BY <1>1 DEF Scan
  <2>3. scan'[k] = q
    BY <2>1 DEF ScanTo, WTyped, WatchTypeOK
  <2>4. /\ \A v \in Watchers : /\ watch'[v].session = watch[v].session
                               /\ watch'[v].step = watch[v].step
        /\ \A s \in Sessions : at'[s] = IF at[s] \in {w} THEN None ELSE at[s]
    BY <2>1, TakeDownDwindles
  <2>5. \A v \in Watchers \ {w} : watch'[v] = watch[v]
    BY <2>1 DEF TakeDown
  <2>6. ASSUME NEW v \in Watchers \ {w}, Live(v)'
        PROVE  \/ watch'[v].retired \/ at'[watch'[v].session] = v
               \/ \E j \in Scanners : scan'[j].step = "next" /\ v \in scan'[j].wait
    <3>1. Live(v) /\ watch'[v] = watch[v]
      BY <2>5, <2>6 DEF Live, Ended
    <3>2. watch[v].session \in Sessions
      BY <3>1 DEF Live, Ended, WTyped, Seated, HasSession
    <3>3. at[watch[v].session] = v => at'[watch[v].session] = v
      BY <2>4, <3>2
    <3>4. \A j \in Scanners : scan[j].step = "next" => scan'[j] = scan[j]
      BY <1>1, <1>2
    <3>5. \/ watch[v].retired \/ at[watch[v].session] = v
          \/ \E j \in Scanners : scan[j].step = "next" /\ v \in scan[j].wait
      BY <3>1 DEF Found
    <3>6. QED
      BY <3>1, <3>3, <3>4, <3>5
  <2> HIDE DEF q
  <2>7. QED
    BY <2>2, <2>3, <2>6 DEF Found
<1>5. QED
  BY <1>3, <1>4

LEMMA RescanFound ==
  ASSUME WTyped, Ordered, Watched, Found, NEW k \in Scanners, Rescan(k)
  PROVE  Found'
<1> DEFINE Waits == \A w \in Watchers, j \in Scanners :
                      Live(w) /\ scan[j].step = "next" /\ w \in scan[j].wait
                        => scan'[j] = scan[j]
<1>1. \A j \in Scanners \ {k} : scan'[j] = scan[j]
  BY RescanSteps DEF RescanStep
<1>2. ASSUME scan[k].step # "next" \/ AllEnded(scan[k].wait)
      PROVE  Waits
  BY <1>1, <1>2 DEF AllEnded, Live
<1>3. ASSUME NEW W, Retire(W), Waits PROVE Found'
  BY <1>3, RetireTracks, TrackedFound
<1>4. ASSUME UNCHANGED <<watch, at>>, Waits PROVE Found'
  BY <1>4, StillTracks, TrackedFound
<1>5. CASE ScanList(k)
  <2>1. Waits
    BY <1>2, <1>5 DEF ScanList
  <2>2. UNCHANGED <<watch, at>>
        \/ Retire({at[s] : s \in Sessions \ {s \in Sessions : herdr[s].up}} \ {None})
    BY <1>5 DEF ScanList
  <2>3. QED
    BY <1>3, <1>4, <2>1, <2>2
<1>6. CASE ScanNext(k)
  <2>1. Waits
    BY <1>2, <1>6 DEF ScanNext
  <2>2. PICK s \in scan[k].todo : Retire({at[s]} \ {None})
    BY <1>6 DEF ScanNext
  <2>3. QED
    BY <1>3, <2>1, <2>2
<1>7. CASE ScanListFails(k) \/ ScanMark(k) \/ ScanDone(k) \/ ScanStart(k)
  <2>1. scan[k].step # "next" \/ AllEnded(scan[k].wait)
    BY <1>7 DEF ScanListFails, ScanMark, ScanDone, ScanStart
  <2>2. UNCHANGED <<watch, at>>
    BY <1>7 DEF ScanListFails, ScanMark, ScanDone, ScanStart
  <2>3. QED
    BY <1>2, <1>4, <2>1, <2>2
<1>8. QED
  BY <1>5, <1>6, <1>7, ScanDialFound, ScanLaunchedFound DEF Rescan

LEMMA ManagerFound ==
  ASSUME Typed, Ordered, Found,
         \/ \E w \in Watchers : Loop(w)
         \/ Interval \/ RescanFallsDue \/ HerdrMoves
         \/ \E k \in Stoppers : StopSteps(k) \/ StopBegin(k)
         \/ \E p \in plans : PlanEnds(p)
  PROVE  Found'
<1>1. WTyped
  BY TypedParts
<1>2. ASSUME UNCHANGED <<watch, at>>,
             \A k \in Scanners : scan[k].step = "next" => scan'[k] = scan[k]
      PROVE  Found'
  BY <1>2, StillTracks, TrackedFound
<1>3. ASSUME NEW w \in Watchers, Loop(w) PROVE Found'
  BY <1>1, <1>3, LoopTracks, TrackedFound
<1>4. ASSUME FlagsOnly, UNCHANGED <<at, scan>> PROVE Found'
  BY <1>4, FlagsTrack, TrackedFound
<1>5. ASSUME NEW w \in Watchers, TickRefresh(w) PROVE Found'
  BY <1>1, <1>4, <1>5, TickRefreshFlags DEF TickRefresh, TickUnchanged
<1>6. ASSUME HerdrMoves PROVE Found'
  <2>1. PICK s \in Sessions : AgentMoves(s) \/ PanesMove(s) \/ SessionMoves(s)
    BY <1>6 DEF HerdrMoves
  <2>2. UNCHANGED <<at, scan>>
    BY <2>1 DEF AgentMoves, PanesMove, SessionMoves, HerdrUnchanged
  <2>3. QED
    BY <1>1, <1>4, <2>1, <2>2, HerdrFlags
<1>7. ASSUME TimerFires \/ RescanFallsDue \/ ScheduleTick PROVE Found'
  BY <1>2, <1>7 DEF TimerFires, RescanFallsDue, ScheduleTick, TickUnchanged
<1>8. ASSUME TickLook \/ TickEnds PROVE Found'
  <2>1. UNCHANGED <<watch, at>>
    BY <1>8 DEF TickLook, TickEnds, TickUnchanged
  <2>2. scan["tick"].step # "next"
    <3>1. CASE TickLook
      BY <3>1 DEF TickLook, Ordered
    <3>2. CASE TickEnds
      BY <3>2 DEF TickEnds, TickOver, Ordered
    <3>3. QED
      BY <1>8, <3>1, <3>2
  <2>3. scan' = scan \/ \E q : scan' = [scan EXCEPT !["tick"] = q]
    BY <1>8 DEF TickLook, TickEnds, ScanTo
  <2>4. \A k \in Scanners : scan[k].step = "next" => scan'[k] = scan[k]
    BY <1>1, <2>2, <2>3 DEF WTyped, WatchTypeOK, Scanners
  <2>5. QED
    BY <1>2, <2>1, <2>4
<1>9. ASSUME NEW k \in Stoppers, StopBegin(k) PROVE Found'
  BY <1>2, <1>9 DEF StopBegin, StopUnchanged
<1>10. ASSUME NEW k \in Stoppers, StopSteps(k) PROVE Found'
  <2>1. scan' = scan
    BY <1>1, <1>10, StopStepsTaken DEF StopStepTaken
  <2>2. Retire(Current) \/ UNCHANGED <<watch, at>>
    BY <1>10 DEF StopSteps, StopAborts, StopLooks, StopTicked, StopDrains, StopEnds
  <2>3. CASE Retire(Current)
    BY <1>1, <2>1, <2>3, RetireTracks, TrackedFound
  <2>4. QED
    BY <1>2, <2>1, <2>2, <2>3
<1>11. ASSUME NEW p \in plans, PlanEnds(p) PROVE Found'
  BY <1>2, <1>11 DEF PlanEnds
<1>12. QED
  BY <1>3, <1>5, <1>6, <1>7, <1>8, <1>9, <1>10, <1>11 DEF Interval

\* Start's rescan begins, ends or is dropped: it waits for nobody then.
LEMMA StartupFound ==
  ASSUME Typed, Ordered, Found, StartBegins \/ StartArms \/ StepFails,
         StartBegins => ~main.busy
  PROVE  Found'
<1>1. WTyped
  BY TypedParts
<1>2. UNCHANGED <<watch, at>>
  BY DEF StartBegins, StartArms, StepFails
<1>3. scan["start"].step # "next"
  <2>1. CASE StartBegins
    BY <2>1 DEF Ordered
  <2>2. CASE StartArms
    BY <2>2 DEF StartArms
  <2>3. CASE StepFails
    <3>1. main.step \in 1..7
      BY <2>3 DEF StepFails, Starting
    <3>2. Step = "watch" <=> main.step = 6
      BY <3>1 DEF Step, StartupSteps
    <3>3. QED
      BY <2>3, <3>2 DEF StepFails, Ordered
  <2>4. QED
    BY <2>1, <2>2, <2>3
<1>4. \E q : scan' = [scan EXCEPT !["start"] = q]
  BY DEF StartBegins, StartArms, StepFails, ScanTo
<1>5. \A k \in Scanners : scan[k].step = "next" => scan'[k] = scan[k]
  BY <1>1, <1>3, <1>4 DEF WTyped, WatchTypeOK, Scanners
<1>6. QED
  BY <1>2, <1>5, StillTracks, TrackedFound

LEMMA NextFound ==
  ASSUME Typed, Ordered, Watched, Found, [Next]_vars
  PROVE  Found'
<1>1. WTyped
  BY TypedParts
<1>2. CASE UNCHANGED wmVars
  BY <1>2, StillTracks, TrackedFound DEF wmVars
<1>3. CASE Manager \/ World
  <2>1. CASE \E k \in Scanners : Rescan(k)
    BY <1>1, <2>1, RescanFound
  <2>2. CASE ~\E k \in Scanners : Rescan(k)
    BY <1>3, <2>2, ManagerFound DEF Manager, World, Stoppers
  <2>3. QED
    BY <2>1, <2>2
<1>4. CASE Startup \/ Signal \/ ForcedExit \/ Sequence \/ Periodic \/ \E j \in Jobs : JobEnds(j)
  <2>1. CASE \E k \in Stoppers : StopBegin(k)
    BY <2>1, ManagerFound
  <2>2. CASE StartBegins /\ ~main.busy
    BY <2>2, StartupFound
  <2>3. CASE ~StartBegins /\ (StartArms \/ StepFails)
    BY <2>3, StartupFound
  <2>4. CASE StartBegins /\ (StartArms \/ StepFails)
    <3>1. ~StartArms
      BY <1>1, <2>4, StartSteps DEF WTyped, WatchTypeOK
    <3>2. FALSE
      BY <1>1, <2>4, <3>1, StartSteps DEF StepFails, NoScan, WTyped, WatchTypeOK, Scanners
    <3>3. QED
      BY <3>2
  <2>5. QED
    BY <1>2, <1>4, <2>1, <2>2, <2>3, <2>4, ProcessSteps
<1>5. QED
  BY <1>2, <1>3, <1>4 DEF Next, vars

LEMMA InitFound == Init => Found
BY DEF Init, WatchInit, NoWatch, Found, Live, Ended

----------------------------------------------------------------------------
(* Rest: what goes before a stop *)

\* Only a look fills the sessions of a tick.
LEMMA TickerPoised ==
  ASSUME WTyped, Ordered, Interval \/ RescanFallsDue,
         ticker.step # "refresh" => ticker.todo = {}
  PROVE  ticker'.step # "refresh" => ticker'.todo = {}
<1>1. ticker \in [step : {"idle", "look", "refresh", "rescan"},
                  todo : SUBSET Watchers, awaited : SUBSET Stoppers]
  BY DEF WTyped, WatchTypeOK
<1>2. CASE TimerFires \/ RescanFallsDue
  BY <1>2 DEF TimerFires, RescanFallsDue
<1>3. CASE ScheduleTick
  BY <1>1, <1>3 DEF ScheduleTick
<1>4. CASE TickLook
  <2>1. CASE mgr.due
    BY <1>1, <1>4, <2>1 DEF TickLook
  <2>2. CASE ~mgr.due
    <3>1. PICK W \in SUBSET Current : ticker' = [ticker EXCEPT !.step = "refresh", !.todo = W]
      BY <1>4, <2>2 DEF TickLook
    <3>2. QED
      BY <1>1, <3>1
  <2>3. QED
    BY <2>1, <2>2
<1>5. CASE TickEnds
  BY <1>5 DEF TickEnds
<1>6. CASE \E w \in Watchers : TickRefresh(w)
  BY <1>1, <1>6 DEF TickRefresh
<1>7. QED
  BY <1>2, <1>3, <1>4, <1>5, <1>6 DEF Interval

LEMMA StopBeginsOne ==
  ASSUME WTyped, NEW k \in Stoppers, StopBegin(k)
  PROVE  /\ stop'[k].step = "abort" /\ \A j \in Stoppers \ {k} : stop'[j] = stop[j]
         /\ UNCHANGED <<ticker, scan, watch, at, plans>>
<1>1. stop' = [stop EXCEPT ![k] = [stop[k] EXCEPT !.step = "abort", !.wait = {}]]
  BY DEF StopBegin, StopTo
<1>2. stop[k] \in Stop
  BY DEF WTyped, WatchTypeOK
<1>3. [stop[k] EXCEPT !.step = "abort", !.wait = {}].step = "abort"
  BY <1>2 DEF Stop
<1>4. stop'[k] = [stop[k] EXCEPT !.step = "abort", !.wait = {}]
      /\ \A j \in Stoppers \ {k} : stop'[j] = stop[j]
  BY <1>1 DEF WTyped, WatchTypeOK
<1>5. UNCHANGED <<ticker, scan, watch, at, plans>>
  BY DEF StopBegin, StopUnchanged
<1>6. QED
  BY <1>3, <1>4, <1>5

LEMMA ManagerPoised ==
  ASSUME Typed, Ordered, Poised, Manager \/ World
  PROVE  Poised'
<1>1. WTyped /\ UNCHANGED <<main, shut>>
  BY TypedParts DEF Manager, World, lifeVars
<1> DEFINE Kept ==
      /\ ticker'.step # "refresh" => ticker'.todo = {}
      /\ scan["start"].step = "idle" => scan'["start"].step = "idle"
      /\ \A k \in {"seq", "fail"} : stop[k].step = "idle" => stop'[k].step = "idle"
<1>2. ASSUME Kept PROVE Poised'
  BY <1>1, <1>2 DEF Poised
<1>3. ASSUME UNCHANGED <<ticker, scan, stop>> PROVE Poised'
  BY <1>2, <1>3 DEF Poised
<1>4. ASSUME NEW w \in Watchers, Loop(w) PROVE Poised'
  BY <1>1, <1>3, <1>4, LoopMoves DEF LoopMove
<1>5. ASSUME NEW k \in Scanners, Rescan(k) PROVE Poised'
  <2>1. RescanStep(k)
    BY <1>1, <1>5, RescanSteps
  <2>2. scan["start"].step = "idle" => scan'["start"].step = "idle"
    BY <2>1 DEF RescanStep, Scanners
  <2>3. QED
    BY <1>2, <2>1, <2>2 DEF RescanStep, Poised
<1>6. ASSUME Interval \/ RescanFallsDue PROVE Poised'
  <2>1. stop' = stop
    BY <1>6 DEF Interval, TimerFires, ScheduleTick, TickLook, TickEnds, TickRefresh,
                RescanFallsDue, TickUnchanged
  <2>2. scan' = scan \/ \E q : scan' = [scan EXCEPT !["tick"] = q]
    BY <1>6 DEF Interval, TimerFires, ScheduleTick, TickLook, TickEnds, TickRefresh,
                RescanFallsDue, ScanTo
  <2>3. scan'["start"] = scan["start"]
    BY <1>1, <2>2 DEF WTyped, WatchTypeOK, Scanners
  <2>4. ticker'.step # "refresh" => ticker'.todo = {}
    BY <1>1, <1>6, TickerPoised DEF Poised
  <2>5. QED
    BY <1>2, <2>1, <2>3, <2>4
<1>7. ASSUME NEW k \in Stoppers, StopSteps(k) PROVE Poised'
  <2>1. StopStepTaken(k)
    BY <1>1, <1>7, StopStepsTaken
  <2>2. ticker' = ticker \/ \E W : ticker' = [ticker EXCEPT !.awaited = W]
    BY <1>7 DEF StopSteps, StopAborts, StopLooks, StopTicked, StopDrains, StopEnds
  <2>3. ticker'.step = ticker.step /\ ticker'.todo = ticker.todo
    BY <1>1, <2>2 DEF WTyped, WatchTypeOK
  <2>4. \A j \in {"seq", "fail"} : stop[j].step = "idle" => stop'[j].step = "idle"
    BY <2>1 DEF StopStepTaken, Stoppers
  <2>5. QED
    BY <1>2, <2>1, <2>3, <2>4 DEF StopStepTaken, Poised
<1>8. ASSUME StopBegin("signal") PROVE Poised'
  <2>1. UNCHANGED <<ticker, scan>> /\ \A j \in Stoppers \ {"signal"} : stop'[j] = stop[j]
    BY <1>1, <1>8, StopBeginsOne DEF Stoppers
  <2>2. QED
    BY <1>2, <2>1 DEF Poised, Stoppers
<1>9. ASSUME NEW p \in plans, PlanEnds(p) PROVE Poised'
  BY <1>3, <1>9 DEF PlanEnds
<1>10. ASSUME HerdrMoves PROVE Poised'
  BY <1>3, <1>10 DEF HerdrMoves, AgentMoves, PanesMove, SessionMoves, HerdrUnchanged
<1>11. QED
  BY <1>4, <1>5, <1>6, <1>7, <1>8, <1>9, <1>10 DEF Manager, World

LEMMA StartupPoised ==
  ASSUME Typed, Ordered, Poised, Startup
  PROVE  Poised'
<1>1. WTyped /\ LifeTypeOK
  BY TypedParts
<1>2. main \in [step : 0..8, busy : BOOLEAN, done : BOOLEAN, fail : 0..6]
      /\ scan \in [Scanners -> Scan]
  BY <1>1 DEF LifeTypeOK, WTyped, WatchTypeOK
<1>3. shut' = shut
  BY DEF Startup, Boot, StepBegins, StepEnds, StepFails, Unwind, Unwound
<1> DEFINE Kept ==
      /\ ticker' = ticker
      /\ main'.done \/ main'.fail > 0 => scan'["start"].step = "idle"
      /\ main.fail > 0 => main'.fail > 0
      /\ stop'["seq"] = stop["seq"]
      /\ stop'["fail"] = stop["fail"] \/ main'.fail > 0
<1>4. ASSUME Kept PROVE Poised'
  BY <1>3, <1>4 DEF Poised
<1>5. CASE Boot
  <2>1. main'.done = main.done /\ main'.fail = main.fail
    BY <1>2, <1>5 DEF Boot
  <2>2. UNCHANGED <<ticker, scan, stop>>
    BY <1>5 DEF Boot, wmVars
  <2>3. QED
    BY <1>4, <2>1, <2>2 DEF Poised
<1>6. CASE StepBegins /\ UNCHANGED wmVars
  <2>1. main.busy = FALSE /\ main'.fail = main.fail
    BY <1>2, <1>6 DEF StepBegins
  <2>2. scan["start"].step = "idle"
    BY <2>1 DEF Ordered
  <2>3. UNCHANGED <<ticker, scan, stop>>
    BY <1>6 DEF wmVars
  <2>4. QED
    BY <1>4, <2>1, <2>2, <2>3
<1>7. CASE StepBegins /\ StartBegins /\ ~ShutdownOwnsDaemon
  <2>1. ~main.done /\ main.fail = 0 /\ main' = [main EXCEPT !.busy = TRUE]
    BY <1>7 DEF StepBegins, Starting
  <2>2. ~main'.done /\ main'.fail = 0
    BY <1>2, <2>1
  <2>3. UNCHANGED <<ticker, stop>>
    BY <1>7 DEF StartBegins
  <2>4. QED
    BY <1>4, <2>1, <2>2, <2>3
<1>8. CASE StepEnds
  <2>1. main.step \in 1..7 /\ ~main.done /\ main.fail = 0
    BY <1>8 DEF StepEnds, Starting
  <2>2. main' = [main EXCEPT !.busy = FALSE, !.step = main.step + 1, !.done = (main.step = 7)]
    BY <1>8 DEF StepEnds, StepOver
  <2>3. main'.done = (main.step = 7) /\ main'.fail = 0
    BY <1>2, <2>1, <2>2
  <2>4. Step = "watch" <=> main.step = 6
    BY <2>1 DEF Step, StartupSteps
  <2>5. StartArms \/ UNCHANGED wmVars
    BY <1>8 DEF StepEnds
  <2>6. UNCHANGED <<ticker, stop>>
    BY <2>5 DEF StartArms, wmVars
  <2>7. main.step = 7 => scan'["start"].step = "idle"
    BY <1>8, <2>4 DEF StepEnds, Ordered, wmVars
  <2>8. main'.done => scan'["start"].step = "idle"
    BY <2>3, <2>7
  <2>9. ~(main'.fail > 0) /\ ~(main.fail > 0)
    BY <2>1, <2>3
  <2>10. QED
    BY <1>4, <2>6, <2>8, <2>9
<1>9. CASE StepFails
  <2>1. scan' = [scan EXCEPT !["start"] = NoScan] /\ UNCHANGED <<ticker, stop>>
    BY <1>9 DEF StepFails
  <2>2. scan'["start"].step = "idle"
    BY <1>2, <2>1 DEF Scanners, NoScan
  <2>3. main.fail = 0
    BY <1>9 DEF StepFails, Starting
  <2>4. QED
    BY <1>4, <2>1, <2>2, <2>3
<1>10. CASE Unwind
  <2>1. main.fail > 0 /\ main' = [main EXCEPT !.fail = main.fail + 1]
    BY <1>2, <1>10 DEF Unwind
  <2>2. main'.fail > 0
    BY <1>2, <2>1
  <2>3. UNCHANGED wmVars \/ StopBegin("fail")
    BY <1>10 DEF Unwind
  <2>4. UNCHANGED <<ticker, scan>> /\ stop'["seq"] = stop["seq"]
    BY <1>1, <2>3, StopBeginsOne DEF wmVars, Stoppers
  <2>5. QED
    BY <1>4, <2>1, <2>2, <2>4 DEF Poised
<1>11. CASE Unwound
  <2>1. main.fail = 6 /\ UNCHANGED wmVars
    BY <1>11 DEF Unwound
  <2>2. main'.fail = main.fail
    BY <1>2, <1>11 DEF Unwound
  <2>3. scan["start"].step = "idle"
    BY <2>1 DEF Poised
  <2>4. QED
    BY <1>4, <2>1, <2>2, <2>3 DEF wmVars
<1>12. QED
  BY <1>5, <1>6, <1>7, <1>8, <1>9, <1>10, <1>11 DEF Startup, StepBegins

LEMMA ShutdownPoised ==
  ASSUME Typed, Tidy, Poised, Sequence \/ Signal
  PROVE  Poised'
<1>1. WTyped /\ LifeTypeOK /\ InSequence
  BY TypedParts
<1>2. UNCHANGED main
  BY DEF Sequence, StopRearms, TakesOver, JobStarts, JobRaced, Closes, Cleanup, Exits, Signal
<1>3. UNCHANGED wmVars \/ (JobStarts /\ StopBegin("seq"))
  BY DEF Sequence, StopRearms, TakesOver, JobStarts, JobRaced, Closes, Cleanup, Exits, Signal
<1>4. UNCHANGED <<ticker, scan>> /\ stop'["fail"] = stop["fail"]
  BY <1>1, <1>3, StopBeginsOne DEF wmVars, Stoppers
<1> DEFINE Kept ==
      /\ shut'.step \notin Sequenced => ~shut'.late
      /\ shut.step \in Sequenced => shut'.step \in Sequenced
<1>5. ASSUME Kept, JobStarts \/ stop'["seq"] = stop["seq"], JobStarts => shut'.step \in Sequenced
      PROVE  Poised'
  BY <1>2, <1>4, <1>5 DEF Poised
<1>6. CASE StopRearms
  <2>1. shut.step \in {"taken", "detached"}
        /\ (ShutTo("detached") \/ ShutTo("waiting"))
    BY <1>6 DEF StopRearms
  <2>2. ~shut.late
    BY <2>1 DEF Poised, Sequenced
  <2>3. shut'.late = shut.late
    BY <1>1, <2>1 DEF ShutTo, LifeTypeOK
  <2>4. UNCHANGED wmVars
    BY <1>6 DEF StopRearms
  <2>5. shut.step \notin Sequenced
    BY <2>1 DEF Sequenced
  <2>6. ~JobStarts
    BY <2>1 DEF JobStarts
  <2>7. QED
    BY <1>5, <2>2, <2>3, <2>4, <2>5, <2>6 DEF wmVars
<1>7. CASE TakesOver
  <2>1. shut'.step = "job"
    BY <1>1, <1>7 DEF TakesOver, LifeTypeOK
  <2>2. UNCHANGED wmVars
    BY <1>7 DEF TakesOver
  <2>3. QED
    BY <1>5, <2>1, <2>2 DEF wmVars, Sequenced
<1>8. CASE JobStarts
  <2>1. shut'.step = "race"
    BY <1>1, <1>8 DEF JobStarts, LifeTypeOK
  <2>2. QED
    BY <1>5, <1>8, <2>1 DEF Sequenced
<1>9. CASE JobRaced
  <2>1. shut'.step \in {"cleanup", "close", "job"}
    BY <1>1, <1>9 DEF JobRaced, AfterFailure, LifeTypeOK
  <2>2. UNCHANGED wmVars
    BY <1>9 DEF JobRaced
  <2>3. QED
    BY <1>5, <2>1, <2>2 DEF wmVars, Sequenced
<1>10. CASE Closes \/ Cleanup \/ Exits
  <2>1. shut'.step \in {"cleanup", "exit"}
    BY <1>1, <1>10 DEF Closes, Cleanup, Exits, ShutTo, LifeTypeOK
  <2>2. UNCHANGED wmVars
    BY <1>10 DEF Closes, Cleanup, Exits
  <2>3. QED
    BY <1>5, <2>1, <2>2 DEF wmVars, Sequenced
<1>11. CASE Signal
  <2>1. UNCHANGED wmVars
    BY <1>11 DEF Signal
  <2>2. CASE shut' = shut
    <3>1. ~JobStarts \/ shut'.step \in Sequenced
      BY <2>2 DEF JobStarts, Sequenced
    <3>2. QED
      BY <1>5, <2>1, <2>2, <3>1 DEF wmVars, Poised
  <2>3. CASE shut' # shut
    <3>1. handler = "stop" /\ shut' = [shut EXCEPT !.step = "taken"]
      BY <1>1, <1>11, <2>3 DEF Signal, LifeTypeOK
    <3>2. shut.step = "idle"
      BY <3>1 DEF Tidy
    <3>3. ~shut.late
      BY <3>2 DEF Poised, Sequenced
    <3>4. ~shut'.late
      BY <1>1, <3>1, <3>3 DEF LifeTypeOK
    <3>5. ~JobStarts /\ shut.step \notin Sequenced
      BY <3>2 DEF JobStarts, Sequenced
    <3>6. QED
      BY <1>5, <2>1, <3>4, <3>5 DEF wmVars
  <2>4. QED
    BY <2>2, <2>3
<1>12. QED
  BY <1>6, <1>7, <1>8, <1>9, <1>10, <1>11 DEF Sequence

LEMMA NextPoised ==
  ASSUME Typed, Tidy, Ordered, Poised, [Next]_vars
  PROVE  Poised'
<1>1. CASE ForcedExit \/ Periodic \/ (\E j \in Jobs : JobEnds(j)) \/ UNCHANGED vars
  <2>1. UNCHANGED <<wmVars, main, shut>>
    BY <1>1 DEF ForcedExit, Periodic, ReconTimer, ReconTick, ReconRuns, JobEnds, lifeVars, vars
  <2>2. QED
    BY <2>1 DEF Poised, wmVars
<1>2. QED
  BY <1>1, StartupPoised, ShutdownPoised, ManagerPoised DEF Next

LEMMA InitPoised == Init => Poised
BY DEF Init, WatchInit, Poised, NoScan, NoStop, Scanners, Stoppers, Sequenced

----------------------------------------------------------------------------
(* Rest: a stopping manager stays calm *)

\* The callers of Stop.
Enders == {"seq", "fail"}
AfterDrain == {"last", "ending", "done"}
AfterTick == AfterDrain \cup {"drain"}
AfterLook == AfterTick \cup {"tick"}
AfterAbort == AfterLook \cup {"await"}

\* No watcher is in the map, but for one the tick's rescan has just put there and
\* is about to take down.
Unmapped ==
  \A s \in Sessions :
    at[s] # None => scan["tick"].step = "launched" /\ scan["tick"].cur = at[s]

\* No tick visits a session or starts a watcher.
TickQuiet ==
  ticker.todo = {} /\ scan["tick"].step \in {"idle", "list", "done", "failed"}

Rested == \A w \in Watchers : Ended(w)

\* What a caller of Stop has seen to: nothing is mapped once it has aborted the
\* watchers, the tick is quiet once it has been awaited, a live loop is awaited
\* while plans drain, and after that there is none.
Winding(k) ==
  /\ stop[k].step \in AfterAbort => Unmapped
  /\ stop[k].step \in AfterLook /\ k \notin ticker.awaited => TickQuiet
  /\ stop[k].step \in AfterTick => k \notin ticker.awaited
  /\ stop[k].step = "drain" => \A w \in Watchers : Live(w) => w \in stop[k].wait
  /\ stop[k].step \in AfterDrain => Rested /\ (plans = {} \/ stop[k].graceless)

Hushed == ~shut.late => \A k \in Enders : Winding(k)

\* A step that undoes nothing of it.
Calm ==
  /\ Unmapped => Unmapped'
  /\ Unmapped /\ TickQuiet => TickQuiet'
  /\ ticker.awaited \subseteq ticker'.awaited \/ TickQuiet'
  /\ \A k \in ticker'.awaited \ ticker.awaited : stop'[k] # stop[k]
  /\ TickQuiet => \A w \in Watchers : Live(w)' => Live(w)
  /\ TickQuiet /\ Rested => plans' \subseteq plans

LEMMA CalmWhenAside ==
  ASSUME UNCHANGED <<ticker, at>>, scan'["tick"] = scan["tick"], Dwindling,
         Rested => plans' \subseteq plans
  PROVE  Calm
<1>1. Unmapped => Unmapped'
  BY DEF Unmapped
<1>2. TickQuiet => TickQuiet'
  BY DEF TickQuiet
<1>3. QED
  BY <1>1, <1>2 DEF Calm, Dwindling

LEMMA CalmInterval ==
  ASSUME WTyped, Ordered, Interval \/ RescanFallsDue
  PROVE  Calm
<1>1. ticker \in [step : {"idle", "look", "refresh", "rescan"},
                  todo : SUBSET Watchers, awaited : SUBSET Stoppers]
  BY DEF WTyped, WatchTypeOK
<1>2. CASE TimerFires \/ RescanFallsDue
  BY <1>2, CalmWhenAside, SameDwindle
     DEF TimerFires, RescanFallsDue, TickUnchanged
<1>3. CASE ScheduleTick
  <2>1. ticker'.todo = ticker.todo /\ ticker'.awaited = ticker.awaited
    BY <1>1, <1>3 DEF ScheduleTick
  <2>2. UNCHANGED <<scan, at, watch, plans>>
    BY <1>3 DEF ScheduleTick, TickUnchanged
  <2>3. QED
    BY <2>1, <2>2 DEF Calm, Unmapped, TickQuiet, Live, Ended
<1>4. CASE TickLook
  <2>1. scan["tick"].step = "idle" /\ UNCHANGED <<at, watch, plans>>
    BY <1>4 DEF TickLook, TickUnchanged, Ordered
  <2>2. Unmapped => \A s \in Sessions : at[s] = None
    BY <2>1 DEF Unmapped
  <2>3. Unmapped => Unmapped'
    BY <2>1, <2>2 DEF Unmapped
  <2>4. scan'["tick"].step \in {"idle", "list"}
    <3>1. CASE mgr.due
      <4>1. scan'["tick"] = [NoScan EXCEPT !.step = "list", !.gen = mgr.gen]
        BY <1>4, <3>1 DEF TickLook, ScanTo, WTyped, WatchTypeOK, Scanners
      <4>2. QED
        BY <4>1 DEF NoScan
    <3>2. CASE ~mgr.due
      BY <1>4, <2>1, <3>2 DEF TickLook
    <3>3. QED
      BY <3>1, <3>2
  <2>5. ticker'.awaited = ticker.awaited
        /\ (ticker'.todo = ticker.todo \/ ticker'.todo \subseteq Current)
    <3>1. CASE mgr.due
      BY <1>1, <1>4, <3>1 DEF TickLook
    <3>2. CASE ~mgr.due
      <4>1. PICK W \in SUBSET Current :
              ticker' = [ticker EXCEPT !.step = "refresh", !.todo = W]
        BY <1>4, <3>2 DEF TickLook
      <4>2. QED
        BY <1>1, <4>1
    <3>3. QED
      BY <3>1, <3>2
  <2>6. Unmapped /\ TickQuiet => TickQuiet'
    BY <2>2, <2>4, <2>5 DEF TickQuiet, Current
  <2>7. QED
    BY <2>1, <2>3, <2>5, <2>6 DEF Calm, Live, Ended
<1>5. CASE TickEnds
  <2>1. scan'["tick"].step = "idle"
    BY <1>5 DEF TickEnds, ScanTo, NoScan, WTyped, WatchTypeOK, Scanners
  <2>2. scan["tick"].step # "launched" /\ UNCHANGED <<at, watch, plans>>
    BY <1>5 DEF TickEnds, TickOver, TickUnchanged, Ordered
  <2>3. ticker'.todo = {} /\ ticker'.awaited = {}
    BY <1>5 DEF TickEnds
  <2>4. QED
    BY <2>1, <2>2, <2>3 DEF Calm, Unmapped, TickQuiet, Live, Ended
<1>6. ASSUME NEW w \in Watchers, TickRefresh(w) PROVE Calm
  <2>1. ticker'.awaited = ticker.awaited /\ ticker.todo # {} /\ UNCHANGED <<scan, at>>
    BY <1>1, <1>6 DEF TickRefresh, TickUnchanged
  <2>2. QED
    BY <2>1 DEF Calm, Unmapped, TickQuiet
<1>7. QED
  BY <1>2, <1>3, <1>4, <1>5, <1>6 DEF Interval

\* The tick's rescan, of a stopping manager.
LEMMA CalmRescan ==
  ASSUME WTyped, mgr.stopping, Rescan("tick")
  PROVE  Calm
<1> DEFINE r == scan["tick"]
<1>1. UNCHANGED <<ticker, plans>> /\ r \in Scan
  BY DEF Rescan, ScanList, ScanListFails, ScanMark, ScanNext, ScanDone, ScanStart, ScanDial,
         ScanLaunched, ScanUnchanged, WTyped, WatchTypeOK, Scanners
<1>2. IsStopping(r.gen)
  BY DEF IsStopping
<1>3. ASSUME NEW q, ScanTo("tick", q) PROVE scan'["tick"] = q
  BY <1>3 DEF ScanTo, WTyped, WatchTypeOK, Scanners
<1>4. CASE ScanList("tick") \/ ScanListFails("tick")
  <2>1. PICK step \in {"done", "failed"} : ScanTo("tick", [r EXCEPT !.step = step])
    BY <1>2, <1>4 DEF ScanList, ScanListFails
  <2>2. scan'["tick"].step = step
    BY <1>1, <1>3, <2>1 DEF Scan
  <2>3. r.step = "list" /\ UNCHANGED <<watch, at>>
    BY <1>2, <1>4 DEF ScanList, ScanListFails
  <2>4. QED
    BY <1>1, <2>2, <2>3 DEF Calm, Unmapped, TickQuiet, Live, Ended
<1>5. ASSUME r.step \in {"gone", "next", "start", "dial", "launched"},
             Unmapped => Unmapped'
      PROVE  Calm
  BY <1>1, <1>5 DEF Calm, TickQuiet
<1>6. CASE ScanMark("tick") \/ ScanDone("tick") \/ ScanStart("tick")
  <2>1. r.step \in {"gone", "next", "start"} /\ at' = at
    BY <1>6 DEF ScanMark, ScanDone, ScanStart
  <2>2. QED
    BY <1>5, <2>1 DEF Unmapped
<1>7. CASE ScanNext("tick")
  BY <1>2, <1>7 DEF ScanNext
<1>8. CASE ScanDial("tick") /\ ~herdr[r.cur].up
  <2>1. r.step = "dial" /\ at' = at
    BY <1>8 DEF ScanDial
  <2>2. QED
    BY <1>5, <2>1 DEF Unmapped
<1>9. CASE ScanDial("tick") /\ herdr[r.cur].up
  <2>1. PICK w \in Watchers :
          /\ at' = [at EXCEPT ![r.cur] = w]
          /\ ScanTo("tick", [r EXCEPT !.step = "launched", !.cur = w])
    BY <1>9 DEF ScanDial
  <2>2. scan'["tick"].step = "launched" /\ scan'["tick"].cur = w
    BY <1>1, <1>3, <2>1 DEF Scan
  <2>3. r.step = "dial"
    BY <1>9 DEF ScanDial
  <2>4. \A s \in Sessions : at'[s] = at[s] \/ at'[s] = w
    BY <2>1 DEF WTyped, WatchTypeOK
  <2>5. Unmapped => Unmapped'
    BY <2>2, <2>3, <2>4 DEF Unmapped
  <2>6. QED
    BY <1>5, <2>3, <2>5
<1>10. CASE ScanLaunched("tick")
  <2>1. TakeDown({r.cur}, FALSE) /\ r.step = "launched"
    BY <1>2, <1>10 DEF ScanLaunched
  <2>2. \A s \in Sessions : at'[s] = IF at[s] \in {r.cur} THEN None ELSE at[s]
    BY <2>1, TakeDownDwindles
  <2>3. Unmapped => Unmapped'
    BY <2>2 DEF Unmapped
  <2>4. QED
    BY <1>5, <2>1, <2>3
<1>11. QED
  BY <1>4, <1>6, <1>7, <1>8, <1>9, <1>10 DEF Rescan

LEMMA CalmStops ==
  ASSUME WTyped, NEW k \in Stoppers, StopSteps(k)
  PROVE  Calm
<1>1. StopStepTaken(k)
  BY StopStepsTaken
<1>2. Retire(Current) \/ UNCHANGED <<watch, at>>
  BY DEF StopSteps, StopAborts, StopLooks, StopTicked, StopDrains, StopEnds
<1>3. Dwindling /\ \A s \in Sessions : at'[s] = at[s] \/ at'[s] = None
  <2>1. CASE Retire(Current)
    BY <2>1, TakeDownDwindles DEF Retire
  <2>2. CASE UNCHANGED <<watch, at>>
    BY <2>2, SameDwindle
  <2>3. QED
    BY <1>2, <2>1, <2>2
<1>4. scan' = scan /\ plans' = plans
  BY DEF StopSteps, StopAborts, StopLooks, StopTicked, StopDrains, StopEnds, StopUnchanged
<1>5. /\ ticker'.todo = ticker.todo
      /\ ticker'.awaited = ticker.awaited
         \/ (ticker'.awaited = ticker.awaited \cup {k} /\ StopLooks(k))
  <2>1. ticker' = ticker \/ (ticker' = [ticker EXCEPT !.awaited = @ \cup {k}] /\ StopLooks(k))
    BY DEF StopSteps, StopAborts, StopLooks, StopTicked, StopDrains, StopEnds
  <2>2. QED
    BY <2>1 DEF WTyped, WatchTypeOK
<1>6. ASSUME StopLooks(k) PROVE stop'[k] # stop[k]
  <2>1. stop[k] \in Stop /\ stop[k].step = "await"
    BY <1>6 DEF StopLooks, WTyped, WatchTypeOK
  <2>2. PICK step \in {"done", "tick"} :
          stop' = [stop EXCEPT ![k] = [stop[k] EXCEPT !.step = step, !.wait = {}]]
    BY <1>6 DEF StopLooks, StopTo
  <2>3. stop'[k] = [stop[k] EXCEPT !.step = step, !.wait = {}]
    BY <2>2 DEF WTyped, WatchTypeOK
  <2>4. stop'[k].step = step
    BY <2>1, <2>3 DEF Stop
  <2>5. QED
    BY <2>1, <2>4
<1>7. Unmapped => Unmapped'
  BY <1>3, <1>4 DEF Unmapped
<1>8. TickQuiet => TickQuiet'
  BY <1>4, <1>5 DEF TickQuiet
<1>9. QED
  BY <1>3, <1>4, <1>5, <1>6, <1>7, <1>8 DEF Calm, Dwindling

\* While the manager stops and Start's rescan is over, every step is calm.
LEMMA NextCalm ==
  ASSUME Typed, Ordered, mgr.stopping, scan["start"].step = "idle", [Next]_vars
  PROVE  Calm
<1>1. WTyped
  BY TypedParts
<1>2. ASSUME NEW k \in Stoppers, StopBegin(k) PROVE Calm
  BY <1>1, <1>2, StopBeginsOne, CalmWhenAside, SameDwindle
<1>3. CASE UNCHANGED wmVars
  BY <1>3, CalmWhenAside, SameDwindle DEF wmVars
<1>4. CASE Manager \/ World
  <2>1. ASSUME NEW w \in Watchers, Loop(w) PROVE Calm
    <3>1. LoopMove(w)
      BY <1>1, <2>1, LoopMoves
    <3>2. PICK r \in Watcher, step \in LoopStep :
            r.session = watch[w].session /\ Move(w, r, step)
      BY <3>1 DEF LoopMove
    <3>3. \A v \in Watchers \ {w} : watch'[v] = watch[v]
      BY <1>1, <3>2 DEF Move, WTyped, WatchTypeOK
    <3>4. watch'[w].session = watch[w].session
      BY <1>1, <3>2 DEF Move, WTyped, WatchTypeOK, Watcher
    <3>5. Dwindling /\ ~Rested
      BY <3>1, <3>3, <3>4 DEF LoopMove, Dwindling, Rested, Live, Ended
    <3>6. QED
      BY <3>1, <3>5, CalmWhenAside DEF LoopMove
  <2>2. ASSUME NEW k \in Scanners, Rescan(k) PROVE Calm
    <3>1. scan[k].step # "idle"
      BY <1>1, <2>2, RescanSteps DEF RescanStep
    <3>2. k = "tick"
      BY <3>1 DEF Scanners
    <3>3. QED
      BY <1>1, <2>2, <3>2, CalmRescan
  <2>3. ASSUME HerdrMoves PROVE Calm
    <3>1. PICK s \in Sessions : AgentMoves(s) \/ PanesMove(s) \/ SessionMoves(s)
      BY <2>3 DEF HerdrMoves
    <3>2. UNCHANGED <<ticker, at, scan, plans>>
      BY <3>1 DEF AgentMoves, PanesMove, SessionMoves, HerdrUnchanged
    <3>3. Dwindling
      BY <1>1, <3>1, HerdrFlags DEF FlagsOnly, Dwindling, Live, Ended
    <3>4. QED
      BY <3>2, <3>3, CalmWhenAside
  <2>4. ASSUME NEW p \in plans, PlanEnds(p) PROVE Calm
    BY <2>4, CalmWhenAside, SameDwindle DEF PlanEnds
  <2>5. QED
    BY <1>1, <1>2, <1>4, <2>1, <2>2, <2>3, <2>4, CalmInterval, CalmStops
       DEF Manager, World, Stoppers
<1>5. CASE Startup \/ Signal \/ ForcedExit \/ Sequence \/ Periodic \/ \E j \in Jobs : JobEnds(j)
  <2>1. ~(StartBegins /\ ~ShutdownOwnsDaemon)
    BY DEF Ordered
  <2>2. ~StartArms
    BY DEF StartArms
  <2>3. ASSUME StepFails PROVE Calm
    <3>1. /\ scan' = [scan EXCEPT !["start"] = NoScan]
          /\ UNCHANGED <<ticker, at, watch, plans>>
      BY <2>3 DEF StepFails
    <3>2. scan'["tick"] = scan["tick"]
      BY <1>1, <3>1 DEF WTyped, WatchTypeOK, Scanners
    <3>3. QED
      BY <3>1, <3>2, CalmWhenAside, SameDwindle
  <2>4. QED
    BY <1>2, <1>3, <1>5, <2>1, <2>2, <2>3, ProcessSteps
<1>6. QED
  BY <1>3, <1>4, <1>5 DEF Next, vars

----------------------------------------------------------------------------
(* Rest: Stop, step by step *)

LEMMA StagesNested ==
  /\ AfterDrain \subseteq AfterTick /\ AfterTick \subseteq AfterLook
  /\ AfterLook \subseteq AfterAbort
  /\ "drain" \in AfterTick \ AfterDrain /\ "tick" \in AfterLook \ AfterTick
  /\ "await" \in AfterAbort \ AfterLook
BY DEF AfterDrain, AfterTick, AfterLook, AfterAbort

\* A stop that another step leaves where it is.
LEMMA WindingKept ==
  ASSUME NEW k \in Stoppers, Winding(k), Calm, stop'[k] = stop[k]
  PROVE  Winding(k)'
<1>1. stop[k].step \in AfterAbort => Unmapped'
  BY DEF Winding, Calm
<1>2. ASSUME stop[k].step \in AfterLook, k \notin ticker'.awaited PROVE TickQuiet'
  BY <1>2, StagesNested DEF Winding, Calm
<1>3. stop[k].step \in AfterTick => k \notin ticker'.awaited
  BY DEF Winding, Calm
<1>4. stop[k].step \in AfterTick => TickQuiet
  BY StagesNested DEF Winding
<1>5. stop[k].step = "drain" => \A w \in Watchers : Live(w)' => w \in stop[k].wait
  BY <1>4, StagesNested DEF Winding, Calm
<1>6. ASSUME stop[k].step \in AfterDrain
      PROVE  Rested' /\ (plans' = {} \/ stop[k].graceless)
  <2>1. TickQuiet /\ Rested /\ (plans = {} \/ stop[k].graceless)
    BY <1>4, <1>6, StagesNested DEF Winding
  <2>2. Rested' /\ plans' \subseteq plans
    BY <2>1 DEF Calm, Rested, Live
  <2>3. QED
    BY <2>1, <2>2
<1>7. QED
  BY <1>1, <1>2, <1>3, <1>5, <1>6 DEF Winding

\* What a step of a stop leaves of its record.
LEMMA StopWrites ==
  ASSUME WTyped, NEW k \in Stoppers, NEW step, NEW W, StopTo(k, step, W)
  PROVE  stop'[k].step = step /\ stop'[k].wait = W
         /\ stop'[k].graceless = stop[k].graceless
<1>1. stop[k] \in Stop
  BY DEF WTyped, WatchTypeOK
<1>2. stop'[k] = [stop[k] EXCEPT !.step = step, !.wait = W]
  BY DEF StopTo, WTyped, WatchTypeOK
<1>3. QED
  BY <1>1, <1>2 DEF Stop

LEMMA WindingAborts ==
  ASSUME WTyped, NEW k \in Stoppers, Winding(k), Calm, StopAborts(k)
  PROVE  Winding(k)'
<1>1. Retire(Current)
  BY DEF StopAborts
<1>2. \A s \in Sessions : at'[s] = None
  <2>1. \A s \in Sessions : at'[s] = IF at[s] \in Current THEN None ELSE at[s]
    BY <1>1, TakeDownDwindles DEF Retire
  <2>2. \A s \in Sessions : at[s] = None \/ at[s] \in Current
    BY DEF Current
  <2>3. QED
    BY <2>1, <2>2
<1>3. Unmapped'
  BY <1>2 DEF Unmapped
<1>4. CASE stop[k].step = "abort"
  <2>1. StopTo(k, "await", Current \cup Retiring)
    BY <1>4 DEF StopAborts
  <2>2. stop'[k].step = "await"
    BY <2>1, StopWrites
  <2>3. QED
    BY <1>3, <2>2, StagesNested DEF Winding
<1>5. CASE stop[k].step = "last"
  <2>1. StopTo(k, "ending", Current \cup Retiring)
    BY <1>5 DEF StopAborts
  <2>2. stop'[k].step = "ending" /\ stop'[k].graceless = stop[k].graceless
    BY <2>1, StopWrites
  <2>3. "last" \in AfterDrain /\ "ending" \in AfterDrain
    BY DEF AfterDrain
  <2>4. ticker' = ticker /\ plans' = plans
    BY DEF StopAborts, StopUnchanged
  <2>5. Unmapped /\ TickQuiet /\ k \notin ticker.awaited /\ Rested
        /\ (plans = {} \/ stop[k].graceless)
    BY <1>5, <2>3, StagesNested DEF Winding
  <2>6. TickQuiet' /\ Rested'
    BY <2>5 DEF Calm, Rested, Live
  <2>7. QED
    BY <1>3, <2>2, <2>4, <2>5, <2>6 DEF Winding
<1>6. QED
  BY <1>4, <1>5 DEF StopAborts

\* The tick Stop does not find in flight is over, and visits nobody.
LEMMA WindingLooks ==
  ASSUME WTyped, Ordered, Poised, NEW k \in Enders, Winding(k), Calm, StopLooks(k)
  PROVE  Winding(k)'
<1>1. k \in Stoppers /\ k # "signal"
  BY DEF Enders, Stoppers
<1>2. StopTo(k, "tick", {}) /\ stop[k].step = "await"
  BY <1>1 DEF StopLooks
<1>3. stop'[k].step = "tick"
  BY <1>1, <1>2, StopWrites
<1>4. Unmapped'
  BY <1>2, StagesNested DEF Winding, Calm
<1>5. ASSUME k \notin ticker'.awaited PROVE TickQuiet'
  <2>1. ticker.step = "idle" /\ ticker' = ticker /\ scan' = scan
    BY <1>1, <1>5 DEF StopLooks, FindsTick, StopUnchanged, WTyped, WatchTypeOK
  <2>2. ticker.todo = {} /\ scan["tick"].step = "idle"
    BY <2>1 DEF Poised, Ordered
  <2>3. QED
    BY <2>1, <2>2 DEF TickQuiet
<1>6. QED
  BY <1>3, <1>4, <1>5, StagesNested DEF Winding, AfterTick, AfterDrain

\* With nothing mapped and no rescan to hold one, the live loops are the retiring.
LEMMA WindingTicked ==
  ASSUME WTyped, Found, scan["start"].step = "idle", NEW k \in Stoppers, Winding(k),
         StopTicked(k)
  PROVE  Winding(k)'
<1>1. StopTo(k, "drain", Retiring) /\ stop[k].step = "tick" /\ k \notin ticker.awaited
      /\ UNCHANGED <<ticker, watch, at, scan>>
  BY DEF StopTicked, StopUnchanged
<1>2. stop'[k].step = "drain" /\ stop'[k].wait = Retiring
  BY <1>1, StopWrites
<1>3. Unmapped /\ TickQuiet
  BY <1>1, StagesNested DEF Winding
<1>4. Unmapped' /\ TickQuiet'
  BY <1>1, <1>3 DEF Unmapped, TickQuiet
<1>5. ASSUME NEW w \in Watchers, Live(w) PROVE w \in Retiring
  <2>1. watch[w].session \in Sessions /\ w # None
    BY <1>5, WatchAssumption DEF Live, Ended, WTyped, Seated, HasSession
  <2>2. at[watch[w].session] # w
    BY <1>3, <2>1 DEF Unmapped, TickQuiet
  <2>3. \A j \in Scanners : scan[j].step # "next"
    BY <1>3 DEF TickQuiet, Scanners
  <2>4. watch[w].retired
    BY <1>5, <2>2, <2>3 DEF Found
  <2>5. QED
    BY <1>5, <2>4 DEF Retiring, Live
<1>6. \A w \in Watchers : Live(w)' => w \in stop'[k].wait
  BY <1>1, <1>2, <1>5 DEF Live, Ended
<1>7. QED
  BY <1>1, <1>2, <1>4, <1>6, StagesNested DEF Winding

LEMMA WindingDrains ==
  ASSUME WTyped, NEW k \in Stoppers, Winding(k), StopDrains(k) \/ StopEnds(k)
  PROVE  Winding(k)'
<1>1. UNCHANGED <<ticker, watch, at, scan, plans>>
      /\ stop[k].step \in {"drain", "ending"}
  BY DEF StopDrains, StopEnds, StopUnchanged
<1>2. "drain" \in AfterTick /\ "ending" \in AfterTick
  BY DEF AfterTick, AfterDrain
<1>3. Unmapped /\ TickQuiet /\ k \notin ticker.awaited
  BY <1>1, <1>2, StagesNested DEF Winding
<1>4. Unmapped' /\ TickQuiet' /\ k \notin ticker'.awaited
  BY <1>1, <1>3 DEF Unmapped, TickQuiet
<1>5. stop'[k].step \in {"last", "done"} /\ Rested /\ (plans = {} \/ stop'[k].graceless)
  <2>1. CASE StopDrains(k)
    <3>1. stop'[k] = [step |-> "last", wait |-> {}, graceless |-> plans # {}]
          /\ stop[k].step = "drain" /\ AllEnded(stop[k].wait)
      BY <2>1 DEF StopDrains, WTyped, WatchTypeOK
    <3>2. Rested
      BY <3>1 DEF Winding, Rested, AllEnded, Live
    <3>3. stop'[k].step = "last" /\ stop'[k].graceless = (plans # {})
      BY <3>1
    <3>4. plans = {} \/ stop'[k].graceless
      BY <3>3
    <3>5. QED
      BY <3>2, <3>3, <3>4
  <2>2. CASE StopEnds(k)
    <3>1. StopTo(k, "done", {}) /\ stop[k].step = "ending"
      BY <2>2 DEF StopEnds
    <3>2. stop'[k].step = "done" /\ stop'[k].graceless = stop[k].graceless
      BY <3>1, StopWrites
    <3>3. QED
      BY <3>1, <3>2 DEF Winding, AfterDrain
  <2>3. QED
    BY <2>1, <2>2
<1>6. Rested'
  BY <1>1, <1>5 DEF Rested, Ended
<1>7. QED
  BY <1>1, <1>4, <1>5, <1>6 DEF Winding

\* Before the abort a stop has nothing to keep.
LEMMA WindingBegins ==
  ASSUME NEW k, stop[k].step \in {"idle", "abort"}
  PROVE  Winding(k)
BY DEF Winding, AfterAbort, AfterLook, AfterTick, AfterDrain

\* Only its own steps touch a stop.
LEMMA StopsAlone ==
  ASSUME Typed, [Next]_vars
  PROVE  UNCHANGED stop \/ \E j \in Stoppers : StopBegin(j) \/ StopSteps(j)
<1>1. WTyped
  BY TypedParts
<1>2. CASE Manager \/ World
  <2>1. ASSUME NEW w \in Watchers, Loop(w) PROVE stop' = stop
    BY <1>1, <2>1, LoopMoves DEF LoopMove
  <2>2. ASSUME NEW j \in Scanners, Rescan(j) PROVE stop' = stop
    BY <1>1, <2>2, RescanSteps DEF RescanStep
  <2>3. ASSUME Interval \/ RescanFallsDue PROVE stop' = stop
    BY <2>3 DEF Interval, TimerFires, ScheduleTick, TickLook, TickEnds, TickRefresh,
                RescanFallsDue, TickUnchanged
  <2>4. ASSUME HerdrMoves PROVE stop' = stop
    BY <2>4 DEF HerdrMoves, AgentMoves, PanesMove, SessionMoves, HerdrUnchanged
  <2>5. ASSUME NEW p \in plans, PlanEnds(p) PROVE stop' = stop
    BY <2>5 DEF PlanEnds
  <2>6. QED
    BY <1>2, <2>1, <2>2, <2>3, <2>4, <2>5 DEF Manager, World, Stoppers
<1>3. CASE Startup \/ Signal \/ ForcedExit \/ Sequence \/ Periodic \/ \E j \in Jobs : JobEnds(j)
  BY <1>3, ProcessSteps DEF wmVars, StartBegins, StartArms, StepFails
<1>4. QED
  BY <1>2, <1>3 DEF Next, vars, wmVars

\* Once the sequence runs, whether it took the startup over late is settled.
LEMMA LateIsSettled ==
  ASSUME Typed, Poised, [Next]_vars, ~shut'.late
  PROVE  ~shut.late
<1>0. LifeTypeOK
  BY TypedParts
<1>1. shut' = shut \/ shut.step \notin Sequenced \/ shut'.late = shut.late
  <2>1. CASE Sequence
    <3>1. CASE StopRearms \/ TakesOver
      BY <3>1 DEF StopRearms, TakesOver, Sequenced
    <3>2. CASE JobStarts
      BY <1>0, <3>2 DEF JobStarts, LifeTypeOK
    <3>3. CASE JobRaced
      BY <1>0, <3>3 DEF JobRaced, LifeTypeOK
    <3>4. CASE Closes \/ Cleanup \/ Exits
      BY <1>0, <3>4 DEF Closes, Cleanup, Exits, ShutTo, LifeTypeOK
    <3>5. QED
      BY <2>1, <3>1, <3>2, <3>3, <3>4 DEF Sequence
  <2>2. CASE Signal
    BY <1>0, <2>2 DEF Signal, Sequenced, LifeTypeOK
  <2>3. CASE ~Sequence /\ ~Signal
    BY <2>3 DEF Next, vars, lifeVars, Startup, Boot, StepBegins, StepEnds, StepFails,
                Unwind, Unwound, ForcedExit, Periodic, ReconTimer, ReconTick, ReconRuns, JobEnds,
                Manager, World
  <2>4. QED
    BY <2>1, <2>2, <2>3
<1>2. QED
  BY <1>1 DEF Poised

LEMMA NextHushed ==
  ASSUME Typed, Tidy, Ordered, Watched, Poised, Found, Hushed, [Next]_vars
  PROVE  Hushed'
<1>1. WTyped /\ LifeTypeOK
  BY TypedParts
<1> SUFFICES ASSUME ~shut'.late, NEW k \in Enders PROVE Winding(k)'
  BY DEF Hushed
<1>2. k \in Stoppers /\ stop \in [Stoppers -> Stop]
  BY <1>1 DEF Enders, Stoppers, WTyped, WatchTypeOK
<1>3. CASE stop[k].step = "idle"
  <2>1. stop'[k].step \in {"idle", "abort"}
    <3>1. ASSUME NEW j \in Stoppers, StopBegin(j) PROVE stop'[k].step \in {"idle", "abort"}
      <4>1. stop'[j].step = "abort" /\ \A i \in Stoppers \ {j} : stop'[i] = stop[i]
        BY <1>1, <3>1, StopBeginsOne
      <4>2. QED
        BY <1>2, <1>3, <4>1
    <3>2. ASSUME NEW j \in Stoppers, StopSteps(j) PROVE stop'[k] = stop[k]
      BY <1>1, <1>2, <1>3, <3>2, StopStepsTaken DEF StopStepTaken
    <3>3. CASE UNCHANGED stop
      BY <1>3, <3>3
    <3>4. UNCHANGED stop \/ \E j \in Stoppers : StopBegin(j) \/ StopSteps(j)
      BY StopsAlone
    <3>5. QED
      BY <1>3, <3>1, <3>2, <3>3, <3>4
  <2>2. Winding(k)'
    BY <2>1 DEF Winding, AfterAbort, AfterLook, AfterTick, AfterDrain
  <2>3. QED
    BY <2>2
<1>4. CASE stop[k].step # "idle"
  <2>1. mgr.stopping
    BY <1>2, <1>4 DEF Ordered
  <2>2. ~shut.late
    BY LateIsSettled
  <2>3. scan["start"].step = "idle"
    <3>1. main.done \/ main.fail > 0
      <4>1. CASE k = "seq"
        BY <1>4, <2>2, <4>1 DEF Poised, Tidy
      <4>2. CASE k = "fail"
        BY <1>4, <4>2 DEF Poised
      <4>3. QED
        BY <4>1, <4>2 DEF Enders
    <3>2. QED
      BY <3>1 DEF Poised
  <2>4. Calm
    BY <2>1, <2>3, NextCalm
  <2>5. Winding(k)
    BY <2>2 DEF Hushed
  <2>6. CASE stop'[k] = stop[k]
    BY <1>2, <2>4, <2>5, <2>6, WindingKept
  <2>7. CASE StopSteps(k)
    BY <1>1, <1>2, <2>3, <2>4, <2>5, <2>7, WindingAborts, WindingLooks, WindingTicked,
       WindingDrains DEF StopSteps
  <2>8. stop'[k] = stop[k] \/ StopSteps(k)
    <3>1. ASSUME NEW j \in Stoppers, StopBegin(j) PROVE stop'[k] = stop[k]
      <4>1. j # k
        BY <1>4, <3>1 DEF StopBegin
      <4>2. QED
        BY <1>1, <1>2, <3>1, <4>1, StopBeginsOne
    <3>2. ASSUME NEW j \in Stoppers, StopSteps(j) PROVE j = k \/ stop'[k] = stop[k]
      BY <1>1, <1>2, <3>2, StopStepsTaken DEF StopStepTaken
    <3>3. QED
      BY <3>1, <3>2, StopsAlone
  <2>9. QED
    BY <2>6, <2>7, <2>8
<1>5. QED
  BY <1>3, <1>4

LEMMA InitHushed == Init => Hushed
<1> SUFFICES ASSUME Init, NEW k \in Enders PROVE Winding(k)
  BY DEF Hushed
<1>1. stop[k].step = "idle"
  BY DEF Init, WatchInit, NoStop, Enders, Stoppers
<1>2. QED
  BY <1>1, WindingBegins

\* When Stop returns to a shutdown that took over in time, or to a startup that
\* failed, no watcher lives or can be started, no tick visits a session, and no
\* plan runs that the drain grace did not give up (StoppedIsQuiet): Stop awaits the
\* tick in flight, the one way left to start a watcher, before it takes down the
\* retiring loops.
THEOREM QuietAfterStop == Spec => []StoppedIsQuiet
<1> DEFINE Inv == Typed /\ Ordered /\ Watched /\ Tidy /\ Poised /\ Found /\ Hushed
<1>1. Init => Inv
  BY InitTyped, InitOrdered, InitWatched, InitTidy, InitPoised, InitFound, InitHushed
<1>2. Inv /\ [Next]_vars => Inv'
  BY NextTyped, NextOrdered, NextWatched, NextTidy, NextPoised, NextFound, NextHushed
<1>3. Inv => StoppedIsQuiet
  <2> SUFFICES ASSUME Inv, NEW k \in {"seq", "fail"}, stop[k].step = "done", ~shut.late
               PROVE  Quiet /\ (plans = {} \/ stop[k].graceless)
    BY DEF StoppedIsQuiet
  <2>1. Winding(k)
    BY DEF Hushed, Enders
  <2>2. "done" \in AfterDrain
    BY DEF AfterDrain
  <2>3. Unmapped /\ TickQuiet /\ Rested /\ (plans = {} \/ stop[k].graceless)
    BY <2>1, <2>2, StagesNested DEF Winding
  <2>4. scan["start"].step = "idle"
    BY DEF Poised, Tidy
  <2>5. Quiet
    BY <2>3, <2>4 DEF Quiet, Unmapped, TickQuiet, Rested, Scanners
  <2>6. QED
    BY <2>3, <2>5
<1>4. QED
  BY <1>1, <1>2, <1>3, PTL DEF Spec
=============================================================================
