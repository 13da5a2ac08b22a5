--------------------------- MODULE AgyTurns_proofs ---------------------------
(* What a waiter has seen of its own turn stays as it saw it.

   While no write of the session file is lost and no turn has had two waiters, the
   waiters that live are of different turns (Distinct), whoever writes has a copy of
   the file as it is but for what it is about to change, and no waiter is past its
   last look at the file while the agent works on the turn it waits for (Timely).
   So nobody but a waiter itself changes what the file says of its batch (Sole), and
   what it is about to prompt for is still to be shown (WakesForSomethingAlways). *)
EXTENDS AgyHook_proofs

\* The waiters that live are of different turns.
Distinct ==
  \A p, q \in Pids :
    (wait[p].pc # "off" /\ wait[q].pc # "off" /\ wait[p].epoch = wait[q].epoch) => p = q

\* Next, as its processes.
LEMMA Steps ==
  ASSUME Next
  PROVE  \/ TurnBegins \/ TurnEnds \/ Aborts \/ HookStep
         \/ RearmStep \/ \E killed \in BOOLEAN : Restarts(killed)
         \/ \E p \in Pids : WaiterStep(p) \/ Quits(p) \/ CallFails(p)
         \/ \E k \in Kinds, t \in Terminals, busy \in BOOLEAN : Publish(k, t, busy)
         \/ OwnerMoves \/ (\E t \in Terminals : PeerIdle(t) \/ PeerLeaves(t))
         \/ \E e \in Events : RowMoves(e)
BY DEF Next

----------------------------------------------------------------------------
(* What a step does to the rows *)

\* What is awaited after a step was awaited before, or is new.
Narrows == \A f \in Events : Awaited(f)' => Awaited(f) \/ ~Published(f)
NoneAges == \A e \in Events : row'[e].st = "aged" => row[e].st = "aged"
NonePublished == \A e \in Events : Published(e)' <=> Published(e)
\* What is published stays so, with its kind and terminal; what has aged or is withdrawn does not come back.
Persists ==
  \A e \in Events :
    /\ Published(e) => Published(e)' /\ row'[e].kind = row[e].kind /\ row'[e].term = row[e].term
    /\ row[e].st = "aged" => row'[e].st = "aged"
    /\ row[e].st \in {"void", "gone"} => row'[e].st \in {"void", "gone"}

\* The session's own processes: the daemon hands out rows, and the transcript grows.
Serves ==
  /\ row' = row \/ GivesRows
  /\ told \subseteq told' /\ live' = live

LEMMA ServesNarrows ==
  ASSUME World, Serves
  PROVE  Narrows /\ NoneAges /\ NonePublished /\ Persists
<1>1. \A e \in Events :
        /\ row'[e].kind = row[e].kind /\ row'[e].term = row[e].term
        /\ \/ row'[e].st = row[e].st
           \/ row[e].st \in {"pending", "delivered"} /\ row'[e].st = "delivered"
  <2>1. CASE row' = row
    BY <2>1
  <2>2. CASE GivesRows
    <3>1. \A e \in Conn.list : row[e].st \in {"pending", "delivered"}
      BY DEF Conn, Listed
    <3> QED
      BY <2>2, <3>1 DEF GivesRows, World, Rows
  <2> QED
    BY <2>1, <2>2 DEF Serves
<1>2. NonePublished /\ NoneAges /\ Persists
  BY <1>1 DEF NonePublished, NoneAges, Persists, Published
<1>3. \A f \in Events : Moot(f) => Moot(f)'
  BY <1>1 DEF Moot, SamePane, Serves
<1>4. \A f \in Events : Awaited(f)' => Awaited(f)
  BY <1>1, <1>3 DEF Awaited, IsResult, Serves
<1> QED
  BY <1>2, <1>4 DEF Narrows

LEMMA HookServes ==
  ASSUME Sound, TurnBegins \/ TurnEnds \/ Aborts \/ HookStep
  PROVE  Serves
<1>1. TurnBegins \/ TurnEnds \/ Aborts => Serves
  BY DEF TurnBegins, TurnEnds, Aborts, Serves, daemonVars, hostVars
<1>2. PreWrites \/ Claims \/ NotOwner \/ AbortWrites \/ Spawns => Serves
  BY DEF PreWrites, Claims, NotOwner, AbortWrites, Spawns, Serves, daemonVars, hostVars
<1>3. Registers \/ Refetch => Serves
  BY DEF Registers, Refetch, Serves, hostVars
<1>4. FlushNothing \/ Flush => Serves
  BY DEF FlushNothing, Flush, Serves, daemonVars, hostVars
<1>5. Take => Serves
  <2> SUFFICES ASSUME Take PROVE Serves
    OBVIOUS
  <2>1. PICK mem \in Files, writes \in BOOLEAN, batch \in SUBSET Events : Taken(mem, writes, batch)
    BY TakeTakes
  <2>2. told \subseteq told'
    BY <2>1 DEF Taken
  <2> QED
    BY <2>2 DEF Take, Serves
<1>6. StopReturns => Serves
  BY DEF StopReturns, Serves, daemonVars
<1> QED
  BY <1>1, <1>2, <1>3, <1>4, <1>5, <1>6 DEF HookStep

LEMMA WaiterServes ==
  ASSUME NEW p \in Pids, WaiterStep(p) \/ Quits(p) \/ CallFails(p)
  PROVE  Serves
<1>1. Top(p) \/ Peek(p) => Serves
  BY DEF Top, Peek, Serves, hostVars
<1>2. WaitsOn => Serves
  BY DEF WaitsOn, Serves, hostVars, daemonVars
<1>3. LooksInVain(p) \/ Commit(p) \/ CommitWrites(p) \/ Trigger(p) \/ Rearm(p) \/ RearmWrites(p)
      \/ Clears(p) \/ ClearWrites(p) \/ ClearsPid(p) \/ PidCleared(p) \/ Quits(p) \/ CallFails(p)
      => WaitsOn
  BY DEF LooksInVain, Commit, CommitWrites, Trigger, Rearm, RearmWrites, Clears, ClearWrites,
         ClearsPid, PidCleared, Quits, CallFails
<1>4. Prompts(p) => Serves
  BY DEF Prompts, Serves, daemonVars
<1> QED
  BY <1>1, <1>2, <1>3, <1>4 DEF WaiterStep

LEMMA DaemonServes ==
  ASSUME RearmStep \/ \E killed \in BOOLEAN : Restarts(killed)
  PROVE  Serves
<1>1. Daemonic
  BY DEF RearmStep, Scans, Matches, PidDropped, PidRecorded, Writes, Respawns, Records, Restarts
<1> QED
  BY <1>1 DEF Daemonic, Serves, hostVars, daemonVars

\* The other agents: one event is published, a row moves, a pane is closed.
LEMMA PublishNarrows ==
  ASSUME World, World', NEW k \in Kinds, NEW t \in Terminals, NEW busy \in BOOLEAN, Publish(k, t, busy)
  PROVE  /\ Narrows /\ NoneAges /\ Persists
         /\ \E e \in Events : /\ row[e].st = "none"
                              /\ \A f \in Events : f < e => Published(f)
                              /\ \A f \in Events : Published(f)' <=> f = e \/ Published(f)
                              /\ UNCHANGED <<cursor, owner, file, hook, rearm, stale, hist, live, told, host>>
                              /\ wait' = Pushed
<1>1. PICK e \in Events : /\ row[e].st = "none" /\ \A f \in Events : f < e => row[f].st # "none"
                          /\ row' = [row EXCEPT ![e] = [st |-> "pending", kind |-> k, term |-> t]]
                          /\ UNCHANGED <<cursor, owner, file, hook, rearm, stale, hist, live, told, host>>
                          /\ wait' = Pushed
  BY DEF Publish, hostVars
<1>2. /\ \A f \in Events : f # e => row'[f] = row[f]
      /\ row'[e].st = "pending"
  BY <1>1 DEF World, Rows
<1>3. NoneAges /\ Persists /\ \A f \in Events : Published(f)' <=> f = e \/ Published(f)
  BY <1>1, <1>2 DEF NoneAges, Persists, Published
<1>4. \A f \in Events : Published(f) /\ Moot(f) => Moot(f)'
  <2> SUFFICES ASSUME NEW f \in Events, Published(f), Moot(f) PROVE Moot(f)'
    OBVIOUS
  <2>1. f # e /\ row'[f] = row[f]
    BY <1>1, <1>2 DEF Published
  <2>2. CASE row[f].st \in {"void", "gone"} \/ row[f].term \notin live
    BY <1>1, <2>1, <2>2 DEF Moot
  <2>3. CASE \E g \in Events : /\ g > f /\ SamePane(f, g) /\ row[g].st # "none" /\ row[g].kind = "completed"
    <3>1. PICK g \in Events : /\ g > f /\ SamePane(f, g) /\ row[g].st # "none" /\ row[g].kind = "completed"
      BY <2>3
    <3>2. g # e /\ row'[g] = row[g]
      BY <1>1, <1>2, <3>1
    <3> QED
      BY <2>1, <3>1, <3>2 DEF Moot, SamePane
  <2> QED
    BY <2>2, <2>3 DEF Moot
<1>5. Narrows
  <2> SUFFICES ASSUME NEW f \in Events, Awaited(f)', Published(f) PROVE Awaited(f)
    BY DEF Narrows
  <2>1. row'[f] = row[f]
    BY <1>1, <1>2 DEF Published
  <2> QED
    BY <1>1, <1>4, <2>1 DEF Awaited, IsResult, Published
<1> QED
  BY <1>1, <1>3, <1>5 DEF Published

LEMMA OthersNarrow ==
  ASSUME World, World',
         \/ OwnerMoves \/ (\E t \in Terminals : PeerIdle(t) \/ PeerLeaves(t))
         \/ \E e \in Events : RowMoves(e)
  PROVE  /\ Narrows /\ NonePublished /\ Persists
         /\ NoneAges \/ \E e \in Events : RowMoves(e)
         /\ UNCHANGED <<cursor, file, hook, rearm, stale, told, host>>
         /\ wait' = wait \/ wait' = Pushed
         /\ ~OwnerMoves => owner' = owner
<1>1. \A e \in Events :
        /\ row'[e].kind = row[e].kind /\ row'[e].term = row[e].term
        /\ row'[e].st = "none" <=> row[e].st = "none"
        /\ row[e].st \in {"void", "gone"} => row'[e].st \in {"void", "gone"}
        /\ row'[e].st = "aged" => row[e].st = "aged" \/ \E f \in Events : RowMoves(f)
        /\ row[e].st = "aged" => row'[e].st = "aged"
  <2>1. CASE row' = row
    BY <2>1
  <2>2. CASE \E t \in Terminals : PeerLeaves(t)
    BY <2>2 DEF PeerLeaves, World, Rows
  <2>3. CASE \E e \in Events : RowMoves(e)
    <3>1. PICK e \in Events : RowMoves(e)
      BY <2>3
    <3>2. \E st \in {"aged", "pending", "void", "gone"} :
            row[e].st \in {"delivered", "pending"} /\ row' = [row EXCEPT ![e].st = st]
      BY <3>1 DEF RowMoves
    <3> QED
      BY <2>3, <3>2 DEF World, Rows
  <2> QED
    BY <2>1, <2>2, <2>3 DEF OwnerMoves, PeerIdle, daemonVars
<1>2. UNCHANGED <<cursor, file, hook, rearm, stale, told, host>> /\ live' \subseteq live
      /\ (wait' = wait \/ wait' = Pushed) /\ (~OwnerMoves => owner' = owner)
  BY DEF OwnerMoves, PeerIdle, PeerLeaves, RowMoves, daemonVars, hostVars
<1>3. \A f \in Events : Moot(f) => Moot(f)'
  BY <1>1, <1>2 DEF Moot, SamePane
<1>4. \A f \in Events : Awaited(f)' => Awaited(f)
  BY <1>1, <1>2, <1>3 DEF Awaited, IsResult
<1> QED
  BY <1>1, <1>2, <1>4 DEF Narrows, NonePublished, NoneAges, Persists, Published

LEMMA RowsMove ==
  ASSUME Sound, Sound', [Next]_vars
  PROVE  /\ Narrows /\ Persists
         /\ NoneAges \/ \E e \in Events : RowMoves(e)
         /\ NonePublished \/ \E e \in Events : /\ \A f \in Events : f < e => Published(f)
                                               /\ \A f \in Events : Published(f)' <=> f = e \/ Published(f)
<1>0. World /\ World'
  BY DEF Sound
<1>1. CASE UNCHANGED vars
  BY <1>0, <1>1, ServesNarrows DEF vars, daemonVars, hostVars, Serves
<1>2. CASE \/ TurnBegins \/ TurnEnds \/ Aborts \/ HookStep
           \/ RearmStep \/ \E killed \in BOOLEAN : Restarts(killed)
           \/ \E p \in Pids : WaiterStep(p) \/ Quits(p) \/ CallFails(p)
  <2>1. Serves
    BY <1>2, HookServes, DaemonServes, WaiterServes
  <2> QED
    BY <1>0, <2>1, ServesNarrows
<1>3. CASE \E k \in Kinds, t \in Terminals, busy \in BOOLEAN : Publish(k, t, busy)
  BY <1>0, <1>3, PublishNarrows
<1>4. CASE \/ OwnerMoves \/ (\E t \in Terminals : PeerIdle(t) \/ PeerLeaves(t))
           \/ \E e \in Events : RowMoves(e)
  BY <1>0, <1>4, OthersNarrow
<1> QED
  BY <1>1, <1>2, <1>3, <1>4, Steps

----------------------------------------------------------------------------
(* What a waiter has found *)

\* An event the waiter has not seen acknowledged and S does not present.
Finds(w, S) == \E e \in Events : e > w.conn.at /\ Published(e) /\ e \notin S

\* A look that has an outcome has found something, and acknowledges nothing.
LEMMA PeekSees ==
  ASSUME Sound, NEW p \in Pids, Peek(p)
  PROVE  \E v \in Waiters :
           /\ Becomes(p, v)
           /\ v.pc = "commit" /\ v.epoch = wait[p].epoch /\ v.mem = wait[p].mem
           /\ v.verify = wait[p].verify /\ v.owed = wait[p].owed
           /\ v.look.outs => v.look.any /\ Finds(v, v.mem.presented \cup v.look.pres)
<1> DEFINE w == wait[p]
           s == w.mem
           c == IF w.verify THEN w.conn ELSE Conn
           pres == Unacked(s, c)
<1>1. PICK ok \in BOOLEAN :
        LET elig == Eligible(w.mem, c, ok)
            cand == elig \ pres
            proj == ProjectionOf(cand, ok)
            sup == IF proj.outcomes = {} THEN proj.suppressed ELSE {}
            hold == proj.deferred \cup w.mem.delivered \cup file.delivered
        IN  \E cut \in Cuts(p, sup) :
            LET got == Settling(sup, hold, cut) IN
            /\ Spent(p, Cost(p, cut), ok)
            /\ cursor' = AckedTo(got.done)
            /\ Becomes(p, [w EXCEPT !.pc = "commit", !.conn = c,
                 !.look = [any |-> cand # {}, outs |-> proj.outcomes # {}, elig |-> elig,
                           pres |-> pres \cup got.done \cup got.held,
                           deferred |-> proj.deferred, held |-> got.held]])
  BY DEF Peek
<1> DEFINE elig == Eligible(s, c, ok)
           cand == elig \ pres
           busy == IF ok THEN working \cap live ELSE {}
           proj == ProjectionOf(cand, ok)
           sup == IF proj.outcomes = {} THEN proj.suppressed ELSE {}
           hold == proj.deferred \cup s.delivered \cup file.delivered
<1>2. PICK cut \in Cuts(p, sup) :
        LET got == Settling(sup, hold, cut) IN
        /\ Spent(p, Cost(p, cut), ok)
        /\ cursor' = AckedTo(got.done)
        /\ Becomes(p, [w EXCEPT !.pc = "commit", !.conn = c,
             !.look = [any |-> cand # {}, outs |-> proj.outcomes # {}, elig |-> elig,
                       pres |-> pres \cup got.done \cup got.held,
                       deferred |-> proj.deferred, held |-> got.held]])
  BY <1>1
<1> DEFINE got == Settling(sup, hold, cut)
           any == cand # {}
           outs == proj.outcomes # {}
           seen == pres \cup got.done \cup got.held
           look == [any |-> any, outs |-> outs, elig |-> elig, pres |-> seen,
                    deferred |-> proj.deferred, held |-> got.held]
           v == [w EXCEPT !.pc = "commit", !.conn = c, !.look = look]
<1>3. Becomes(p, v)
  BY <1>2
<1>4. /\ WaiterSound(w) /\ w \in Waiters /\ World /\ Owing(s) /\ s \in Files /\ file \in Files
  BY WaiterIs DEF WaiterSound, Owing
<1>5. Answered(c) /\ c \in Conns
  BY <1>4, ConnAnswered DEF WaiterSound, Answered
<1> HIDE DEF s, c
<1>6. /\ elig \in SUBSET Events /\ \A e \in elig : Published(e) /\ e > c.at
      /\ pres \in SUBSET Events /\ cand \in SUBSET Events
  BY <1>4, <1>5, EligibleIs, UnackedIs DEF Eligible, Known
<1>7. \A e \in cand : e \in elig /\ e \notin s.presented /\ Published(e)
  BY <1>6 DEF Unacked
<1> HIDE DEF elig, pres, cand
<1>8. proj = Projection(cand, busy)
  BY DEF ProjectionOf
<1> HIDE DEF proj, busy
<1>9. proj.deferred \subseteq cand /\ proj.suppressed \subseteq cand /\ proj.outcomes \subseteq cand
  BY <1>4, <1>6, <1>7, <1>8, ProjectionParts
<1>10. sup \in SUBSET Events /\ hold \in SUBSET Events /\ (outs => sup = {})
  BY <1>4, <1>6, <1>9 DEF Files
<1> HIDE DEF sup, hold
<1>11. got.done \subseteq sup /\ got.held \subseteq sup
  BY <1>10, SettlingIs
<1>12. outs => any /\ \E e \in Events : e > c.at /\ Published(e) /\ e \notin s.presented /\ e \notin seen
  <2> SUFFICES ASSUME outs PROVE any /\ \E e \in Events : e > c.at /\ Published(e) /\ e \notin s.presented /\ e \notin seen
    OBVIOUS
  <2>1. PICK e \in proj.outcomes : TRUE
    OBVIOUS
  <2>2. e \in cand /\ e \in Events /\ e \notin pres
    BY <1>6, <1>9, <2>1 DEF cand
  <2> QED
    BY <1>6, <1>7, <1>10, <1>11, <2>2
<1>13. look \in Looks /\ look.pres = seen /\ look.any = any /\ look.outs = outs
  <2>1. seen \in SUBSET Events /\ got.held \in SUBSET Events /\ proj.deferred \in SUBSET Events
        /\ any \in BOOLEAN /\ outs \in BOOLEAN
    BY <1>6, <1>9, <1>10, <1>11
  <2> HIDE DEF seen, got, any, outs
  <2> QED
    BY <1>6, <2>1 DEF Looks
<1> HIDE DEF look, seen, any, outs
<1>14. /\ v \in Waiters /\ v.mem = s /\ v.conn = c /\ v.look = look /\ v.owed = w.owed
       /\ v.pc = "commit" /\ v.epoch = w.epoch /\ v.verify = w.verify
  <2> HIDE DEF w
  <2> QED
    BY <1>4, <1>5, <1>13 DEF Waiters, WaiterPlaces, s
<1> HIDE DEF v
<1>15. v.look.outs => v.look.any /\ Finds(v, v.mem.presented \cup v.look.pres)
  BY <1>12, <1>13, <1>14 DEF Finds
<1> QED
  BY <1>3, <1>14, <1>15 DEF s

----------------------------------------------------------------------------
(* While no turn has had two waiters, those that live are of different turns *)

\* p does not begin: it goes on with its turn, or has ended.
Continues(p) == wait'[p].pc # "off" => wait[p].pc # "off" /\ wait'[p].epoch = wait[p].epoch

LEMMA WaiterContinues ==
  ASSUME Sound, NEW p \in Pids, WaiterStep(p) \/ Quits(p) \/ CallFails(p)
  PROVE  /\ \E v : Becomes(p, v)
         /\ wait[p].pc # "off" /\ Continues(p)
         /\ \A q \in Pids : q # p => wait'[q] = wait[q]
<1> DEFINE w == wait[p]
<1>1. w \in Waiters /\ Idle(w) \in Waiters /\ Idle(w).epoch = w.epoch /\ Leaving(w).epoch = w.epoch
      /\ \A q : Decided(w, q).epoch = w.epoch
  BY WaiterIs, IdleIs, DecidedIs
<1>2. SUFFICES \E v : Becomes(p, v) /\ w.pc # "off" /\ (v.pc # "off" => v.epoch = w.epoch)
  <2>1. wait \in [Pids -> Waiters]
    BY DEF Sound
  <2>2. PICK v : Becomes(p, v) /\ w.pc # "off" /\ (v.pc # "off" => v.epoch = w.epoch)
    BY <1>2
  <2>3. wait'[p] = v /\ \A q \in Pids : q # p => wait'[q] = wait[q]
    BY <2>1, <2>2 DEF Becomes
  <2> QED
    BY <2>2, <2>3 DEF Continues
<1> HIDE DEF w
<1>3. CASE Top(p)
  <2> USE DEF w
  <2> DEFINE look == [w EXCEPT !.pc = "look", !.mem = file, !.first = FALSE, !.owed = file.delivered # {},
                               !.targets = file.delivered]
             idle == [Idle(w) EXCEPT !.errors = 0]
  <2>1. Becomes(p, Leaving(w)) \/ Becomes(p, look) \/ Becomes(p, idle)
    BY <1>3 DEF Top
  <2>2. w.pc = "top"
    BY <1>3 DEF Top, At
  <2> HIDE DEF w
  <2>3. look.epoch = w.epoch /\ idle.epoch = w.epoch
    BY <1>1 DEF Waiters
  <2> QED
    BY <1>1, <2>1, <2>2, <2>3
<1>4. CASE Quits(p) \/ LooksInVain(p)
  <2>1. Becomes(p, Leaving(w)) /\ w.pc \in {"top", "look"}
    BY <1>4 DEF Quits, LooksInVain, At, w
  <2> QED
    BY <1>1, <2>1
<1>5. CASE CallFails(p)
  <2> DEFINE idle == [Idle(w) EXCEPT !.errors = @ + 1]
  <2>1. (Becomes(p, Leaving(w)) \/ Becomes(p, idle)) /\ w.pc \in {"top", "look"}
    BY <1>5 DEF CallFails, w
  <2>2. idle.epoch = w.epoch
    BY <1>1 DEF Waiters
  <2> QED
    BY <1>1, <2>1, <2>2
<1>6. CASE Peek(p)
  <2>1. w.pc = "look"
    BY <1>6 DEF Peek, At, w
  <2> QED
    BY <1>6, <2>1, PeekSees DEF w
<1>7. CASE Commit(p)
  <2> DEFINE fresh == IF w.look.any THEN Merged(file, w.look, w.conn) ELSE Swept(file, w.look)
             targets == IF ~w.look.any /\ fresh # file THEN fresh.delivered ELSE w.targets
             v == [w EXCEPT !.pc = "commitW", !.mem = fresh, !.targets = IF w.verify THEN @ ELSE targets]
  <2>1. w.pc = "commit" /\ (Becomes(p, Leaving(w)) \/ Becomes(p, Decided(w, p)) \/ Becomes(p, v))
    BY <1>7 DEF Commit, At, w
  <2>2. v.epoch = w.epoch
    BY <1>1 DEF Waiters
  <2> QED
    BY <1>1, <2>1, <2>2
<1>8. CASE CommitWrites(p) \/ ClearWrites(p)
  <2>1. w.pc \in {"commitW", "staleW"} /\ (Becomes(p, Decided(w, p)) \/ Becomes(p, Idle(w)))
    BY <1>8 DEF CommitWrites, ClearWrites, At, w
  <2> QED
    BY <1>1, <2>1
<1>9. CASE Trigger(p)
  <2> DEFINE idle == [Idle(w) EXCEPT !.retry = TRUE]
             v == [w EXCEPT !.pc = IF w.owed THEN "rearm" ELSE "prompt"]
  <2>1. w.pc = "trigger" /\ (Becomes(p, Leaving(w)) \/ Becomes(p, idle) \/ Becomes(p, v))
    BY <1>9 DEF Trigger, At, w
  <2>2. idle.epoch = w.epoch /\ v.epoch = w.epoch
    BY <1>1 DEF Waiters
  <2> QED
    BY <1>1, <2>1, <2>2
<1>10. CASE Rearm(p)
  <2> DEFINE x == [w EXCEPT !.pc = "look", !.verify = TRUE, !.mem = file]
             y == [w EXCEPT !.pc = "rearmW", !.mem = [file EXCEPT !.presented = @ \ file.delivered]]
  <2>1. w.pc = "rearm" /\ (Becomes(p, x) \/ Becomes(p, y))
    BY <1>10 DEF Rearm, At, w
  <2>2. x.epoch = w.epoch /\ y.epoch = w.epoch
    BY <1>1 DEF Waiters
  <2> QED
    BY <2>1, <2>2
<1>11. CASE RearmWrites(p)
  <2> DEFINE x == [w EXCEPT !.pc = "look", !.verify = TRUE]
  <2>1. w.pc = "rearmW" /\ Becomes(p, x)
    BY <1>11 DEF RearmWrites, At, w
  <2>2. x.epoch = w.epoch
    BY <1>1 DEF Waiters
  <2> QED
    BY <2>1, <2>2
<1>12. CASE Clears(p)
  <2> DEFINE y == [w EXCEPT !.pc = "staleW", !.mem = [file EXCEPT !.delivered = @ \ w.targets]]
  <2>1. w.pc = "stale" /\ (Becomes(p, Idle(w)) \/ Becomes(p, y))
    BY <1>12 DEF Clears, At, w
  <2>2. y.epoch = w.epoch
    BY <1>1 DEF Waiters
  <2> QED
    BY <1>1, <2>1, <2>2
<1>13. CASE Prompts(p)
  <2> DEFINE x == [Idle(w) EXCEPT !.tries = @ + 1, !.retry = TRUE]
             y == [w EXCEPT !.pc = "done", !.mem = NoFile, !.look = NoLook, !.conn = NoConn]
  <2>1. w.pc = "prompt" /\ (Becomes(p, Leaving(w)) \/ Becomes(p, x) \/ Becomes(p, y))
    BY <1>13 DEF Prompts, At, w
  <2>2. x.epoch = w.epoch /\ y.epoch = w.epoch
    BY <1>1 DEF Waiters
  <2> QED
    BY <1>1, <2>1, <2>2
<1>14. CASE ClearsPid(p) \/ PidCleared(p)
  <2> DEFINE y(pc) == [w EXCEPT !.mem = [file EXCEPT !.pid = NoPid], !.pc = pc]
  <2>1. /\ w.pc \in {"done", "exit", "doneW", "byeW"}
        /\ \/ Becomes(p, Leaving(w)) \/ Becomes(p, NoWaiter)
           \/ Becomes(p, y("doneW")) \/ Becomes(p, y("byeW"))
    BY <1>14 DEF ClearsPid, PidCleared, At, w
  <2>2. y("doneW").epoch = w.epoch /\ y("byeW").epoch = w.epoch /\ NoWaiter.pc = "off"
    BY <1>1 DEF Waiters, NoWaiter
  <2> QED
    BY <1>1, <2>1, <2>2
<1> QED
  BY <1>3, <1>4, <1>5, <1>6, <1>7, <1>8, <1>9, <1>10, <1>11, <1>12, <1>13, <1>14 DEF WaiterStep

LEMMA HookRests ==
  ASSUME TurnBegins \/ TurnEnds \/ Aborts \/ HookStep, ~Spawns
  PROVE  UNCHANGED <<wait, rearm>>
BY DEF TurnBegins, TurnEnds, Aborts, HookStep, PreWrites, Registers, Claims, NotOwner, FlushNothing, Flush,
       Refetch, Take, AbortWrites, StopReturns, Rests

LEMMA AllContinue ==
  ASSUME Sound, [Next]_vars, ~Spawns, ~Respawns, NEW p \in Pids
  PROVE  Continues(p)
<1>0. wait \in [Pids -> Waiters]
  BY DEF Sound
<1>1. CASE wait' = wait
  BY <1>1 DEF Continues
<1>2. CASE RearmStep
  <2>1. CASE Records
    <3>1. wait' = wait \/ Becomes(rearm.pid, NoWaiter)
      BY <2>1 DEF Records
    <3>2. wait'[p] = wait[p] \/ wait'[p] = NoWaiter
      BY <1>0, <3>1 DEF Becomes
    <3> QED
      BY <3>2 DEF Continues, NoWaiter
  <2>2. CASE ~Records
    BY <1>1, <1>2, <2>2 DEF RearmStep, Scans, Matches, PidDropped, PidRecorded, Writes
  <2> QED
    BY <2>1, <2>2
<1>3. CASE \E killed \in BOOLEAN : Restarts(killed)
  <2>1. wait'[p] = wait[p] \/ wait'[p] = NoWaiter
    BY <1>3 DEF Restarts
  <2> QED
    BY <2>1 DEF Continues, NoWaiter
<1>4. ASSUME NEW q \in Pids, WaiterStep(q) \/ Quits(q) \/ CallFails(q) PROVE Continues(p)
  BY <1>4, WaiterContinues DEF Continues
<1>5. CASE wait' = Pushed
  <2>1. wait[p] \in Waiters
    BY <1>0
  <2>2. wait'[p] = wait[p] \/ (wait[p].pc # "off" /\ wait'[p] = [wait[p] EXCEPT !.push = TRUE])
    BY <1>5 DEF Pushed
  <2> QED
    BY <2>1, <2>2 DEF Continues, Waiters
<1>6. CASE \/ \E k \in Kinds, t \in Terminals, busy \in BOOLEAN : Publish(k, t, busy)
           \/ OwnerMoves \/ (\E t \in Terminals : PeerIdle(t) \/ PeerLeaves(t))
           \/ \E e \in Events : RowMoves(e)
  BY <1>1, <1>5, <1>6 DEF Publish, OwnerMoves, PeerIdle, PeerLeaves, RowMoves
<1>7. CASE TurnBegins \/ TurnEnds \/ Aborts \/ HookStep
  BY <1>1, <1>7, HookRests
<1>8. CASE UNCHANGED vars
  BY <1>1, <1>8 DEF vars
<1> QED
  BY <1>2, <1>3, <1>4, <1>6, <1>7, <1>8, Steps

Apart == hist.twins \/ Distinct

LEMMA ApartStays ==
  ASSUME Sound, Histories, Apart, [Next]_vars
  PROVE  Apart'
<1>1. SUFFICES ASSUME ~hist'.twins PROVE Distinct'
  BY DEF Apart
<1>2. Distinct
  BY <1>1, HistoriesGrow DEF Apart, Remembers
<1>3. CASE ~Spawns /\ ~Respawns
  <2>1. \A p \in Pids : Continues(p)
    BY <1>3, AllContinue
  <2> QED
    BY <1>2, <2>1 DEF Distinct, Continues
<1>4. ASSUME NEW p \in Free, NEW epoch, Started(p, epoch), ~Twinned(epoch) PROVE Distinct'
  <2>1. wait \in [Pids -> Waiters] /\ p \in Pids
    BY DEF Sound, Free, Lowest
  <2>2. /\ wait'[p] = [NoWaiter EXCEPT !.pc = "top", !.epoch = epoch]
        /\ \A q \in Pids : q # p => wait'[q] = wait[q]
    BY <1>4, <2>1 DEF Started
  <2>3. wait'[p].epoch = epoch
    BY <2>2 DEF NoWaiter
  <2>4. \A q \in Pids : q # p /\ wait'[q].pc # "off" => wait'[q].epoch # epoch
    BY <1>4, <2>2 DEF Twinned
  <2>5. ASSUME NEW q \in Pids, NEW r \in Pids, wait'[q].pc # "off", wait'[r].pc # "off",
               wait'[q].epoch = wait'[r].epoch
        PROVE  q = r
    <3>1. CASE q = p \/ r = p
      BY <2>3, <2>4, <2>5, <3>1
    <3>2. CASE q # p /\ r # p
      <4>1. wait'[q] = wait[q] /\ wait'[r] = wait[r]
        BY <2>2, <3>2
      <4> QED
        BY <1>2, <2>5, <4>1 DEF Distinct
    <3> QED
      BY <3>1, <3>2
  <2> QED
    BY <2>5 DEF Distinct
<1>5. CASE Respawns
  <2>1. PICK p \in Free : Started(p, rearm.epoch)
    BY <1>5 DEF Respawns
  <2>2. ~Twinned(rearm.epoch)
    BY <1>1, <1>5 DEF Respawns, Histories
  <2> QED
    BY <1>4, <2>1, <2>2
<1>6. CASE Spawns
  <2>1. CASE UNCHANGED wait
    BY <1>2, <2>1 DEF Distinct
  <2>2. CASE wait' # wait
    <3>1. PICK p \in Free : /\ Started(p, hook.mem.epoch)
                            /\ hist' = [hist EXCEPT !.deserted = FALSE,
                                                    !.twins = @ \/ Twinned(hook.mem.epoch)]
      BY <1>6, <2>2 DEF Spawns
    <3>2. ~Twinned(hook.mem.epoch)
      BY <1>1, <3>1 DEF Histories
    <3> QED
      BY <1>4, <3>1, <3>2
  <2> QED
    BY <2>1, <2>2
<1> QED
  BY <1>3, <1>5, <1>6

LEMMA AlwaysApart == Spec => []Apart
<1>1. Init => Apart
  BY DEF Init, Apart, Distinct, NoWaiter
<1>2. Sound /\ OneGate /\ Apart /\ [Next]_vars => Apart'
  BY ApartStays DEF OneGate
<1> QED
  BY <1>1, <1>2, AlwaysSound, AlwaysOneGate, PTL DEF Spec

----------------------------------------------------------------------------
(* While no write is lost, a copy that is still current is the file, but for what its
   process is about to change, and no waiter is past its last look at the file while
   the agent works on the turn it waits for *)

\* A waiter that has seen the host idle.
UnderPlaces == {"look", "commit", "commitW", "trigger", "rearm", "rearmW", "stale", "prompt"}
Under(p) == wait[p].pc \in UnderPlaces
Parted(p) == Under(p) => host = "idle" \/ hook.pc = "preW" \/ wait[p].epoch # file.epoch
HookExact == Hook \notin stale /\ hook.pc = "preW" => hook.mem.epoch > file.epoch
WaiterExact(p) ==
  p \notin stale =>
    /\ wait[p].pc \in {"commitW", "staleW"} => wait[p].epoch = file.epoch
    /\ wait[p].pc \in {"doneW", "byeW"} => wait[p].mem = [file EXCEPT !.pid = NoPid]
    /\ wait[p].pc = "rearmW" => wait[p].mem = [file EXCEPT !.presented = @ \ file.delivered]
    /\ wait[p].pc = "staleW" => wait[p].mem = [file EXCEPT !.delivered = @ \ wait[p].targets]
DaemonExact ==
  Daemon \notin stale =>
    /\ rearm.pc = "clear" => rearm.mem = [file EXCEPT !.pid = NoPid]
    /\ rearm.pc = "record" => rearm.mem = [file EXCEPT !.pid = rearm.pid]
Timely == HookExact /\ DaemonExact /\ \A p \in Pids : Parted(p) /\ WaiterExact(p)

\* A copy of another process that is still current was so before, and the file is the same.
SparesOthers(r) ==
  \A q \in Actors : (q # r /\ Holds(q) /\ q \notin stale') => q \notin stale /\ file' = file

LEMMA ReadsSpare ==
  ASSUME NEW r, UNCHANGED file, stale' = stale \/ Load(r)
  PROVE  SparesOthers(r)
BY DEF SparesOthers, Load
LEMMA SaveSpares ==
  ASSUME NEW r, NEW s, Save(r, s)
  PROVE  SparesOthers(r) /\ file' = s
BY DEF SparesOthers, Save

LEMMA WaiterExactKept ==
  ASSUME NEW r, SparesOthers(r), NEW p \in Pids, p # r, WaiterExact(p),
         \/ wait'[p] = wait[p] \/ wait'[p].pc \in {"off", "top"}
         \/ wait' = Pushed /\ wait[p] \in Waiters
  PROVE  WaiterExact(p)'
<1>1. p \in Actors
  BY ActorsApart
<1>2. CASE wait'[p].pc \in {"off", "top"}
  BY <1>2 DEF WaiterExact
<1>3. ASSUME wait'[p].pc = wait[p].pc, wait'[p].epoch = wait[p].epoch, wait'[p].mem = wait[p].mem,
             wait'[p].targets = wait[p].targets
      PROVE  WaiterExact(p)'
  <2>1. CASE wait[p].pc \in {"commitW", "rearmW", "staleW", "doneW", "byeW"}
    <3>1. Holds(p)
      BY <2>1, ActorsApart DEF Holds
    <3>2. p \notin stale' => p \notin stale /\ file' = file
      BY <1>1, <3>1 DEF SparesOthers
    <3> QED
      BY <1>3, <3>2 DEF WaiterExact
  <2>2. CASE wait[p].pc \notin {"commitW", "rearmW", "staleW", "doneW", "byeW"}
    BY <1>3, <2>2 DEF WaiterExact
  <2> QED
    BY <2>1, <2>2
<1>4. CASE wait' = Pushed /\ wait[p] \in Waiters
  <2>1. wait'[p] = wait[p] \/ wait'[p] = [wait[p] EXCEPT !.push = TRUE]
    BY <1>4 DEF Pushed
  <2>2. /\ wait'[p].pc = wait[p].pc /\ wait'[p].epoch = wait[p].epoch /\ wait'[p].mem = wait[p].mem
        /\ wait'[p].targets = wait[p].targets
    BY <1>4, <2>1 DEF Waiters
  <2> QED
    BY <1>3, <2>2
<1> QED
  BY <1>2, <1>3, <1>4

LEMMA HookExactKept ==
  ASSUME NEW r, SparesOthers(r), r # Hook, HookExact, hook' = hook
  PROVE  HookExact'
<1>1. Hook \in Actors
  BY ActorsApart
<1>2. CASE hook.pc = "preW"
  <2>1. Holds(Hook)
    BY <1>2 DEF Holds
  <2> QED
    BY <1>1, <2>1 DEF HookExact, SparesOthers
<1> QED
  BY <1>2 DEF HookExact

LEMMA DaemonExactKept ==
  ASSUME NEW r, SparesOthers(r), r # Daemon, DaemonExact, rearm' = rearm
  PROVE  DaemonExact'
<1>1. Daemon \in Actors /\ Daemon # Hook
  BY ActorsApart
<1>2. CASE rearm.pc \in {"clear", "record"}
  <2>1. Holds(Daemon)
    BY <1>1, <1>2 DEF Holds
  <2> QED
    BY <1>1, <2>1 DEF DaemonExact, SparesOthers
<1> QED
  BY <1>2 DEF DaemonExact

LEMMA PartedKept ==
  ASSUME Sound, Gated, NEW p \in Pids, Parted(p),
         Under(p)' => Under(p) /\ wait'[p].epoch = wait[p].epoch,
         \/ hook'.pc = "preW"
         \/ file' \in Files /\ file'.epoch > file.epoch
         \/ file'.epoch = file.epoch /\ hook.pc # "preW" /\ host # "idle"
         \/ file'.epoch = file.epoch /\ UNCHANGED <<hook, host>>
  PROVE  Parted(p)'
<1>1. SUFFICES ASSUME Under(p), wait'[p].epoch = wait[p].epoch, Under(p)'
               PROVE  host' = "idle" \/ hook'.pc = "preW" \/ wait[p].epoch # file'.epoch
  BY DEF Parted
<1>2. wait[p].epoch \in Nat /\ file.epoch \in Nat /\ wait[p].epoch <= file.epoch
  <2>1. wait[p] \in Waiters /\ file \in Files
    BY WaiterIs
  <2>2. wait[p].pc # "off"
    BY <1>1 DEF Under, UnderPlaces
  <2> QED
    BY <2>1, <2>2 DEF Gated, Generations, Waiters, Files
<1>3. CASE file' \in Files /\ file'.epoch > file.epoch
  <2>1. file'.epoch \in Nat
    BY <1>3 DEF Files
  <2> QED
    BY <1>2, <1>3, <2>1
<1> QED
  BY <1>1, <1>3 DEF Parted

----------------------------------------------------------------------------
\* A hook goes on with a generation of its own, or leaves the generation as it is while
\* the agent is at work.
HookTimes ==
  /\ hook'.pc # "preW" /\ SparesOthers(Hook)
  /\ \/ file' \in Files /\ file'.epoch > file.epoch
     \/ file'.epoch = file.epoch /\ hook.pc # "preW" /\ host # "idle"

LEMMA HookReadsTimes ==
  ASSUME HookInTurn \/ host # "idle", file' = file, stale' = stale \/ Load(Hook), hook'.pc # "preW",
         hook.pc \notin {"none", "preW"} \/ (hook.pc = "none" /\ host # "idle")
  PROVE  HookTimes
BY ReadsSpare DEF HookTimes, HookInTurn

LEMMA HookSavesTimes ==
  ASSUME Sound, Gated, HookInTurn, Hook \notin stale, NEW s \in Files, Save(Hook, s), hook'.pc # "preW",
         hook.pc \in {"claim", "owner", "take", "abortW", "pidW"} \/ (hook.pc = "reg" /\ hook.ev = "pre"),
         s.epoch = hook.mem.epoch \/ s.epoch = hook.mem.epoch + 1
  PROVE  HookTimes
<1>1. file' = s /\ SparesOthers(Hook) /\ host # "idle"
  BY SaveSpares DEF HookInTurn
<1>2. hook.mem.epoch = file.epoch /\ file.epoch \in Nat
  BY DEF Gated, HookFresh, SameGen, Sound, Owing, Files
<1> QED
  BY <1>1, <1>2 DEF HookTimes

LEMMA HookStepTimes ==
  ASSUME Sound, Gated, HookInTurn, HookExact, Histories, ~hist'.lost, TurnEnds \/ Aborts \/ HookStep
  PROVE  HookTimes
<1>0. /\ World /\ file \in Files /\ hook \in Hooks /\ hook.mem \in Files /\ HookSound(hook)
  BY DEF Sound, HookSound, Owing, Hooks
<1>1. NoHook.pc # "preW" /\ Hook \in Actors
  BY ActorsApart DEF NoHook
<1>2. ASSUME NEW s, HookSaves(s) PROVE Hook \notin stale /\ Save(Hook, s)
  BY <1>2, NotLost DEF HookSaves
<1>3. CASE TurnEnds
  <2>1. hook' = [NoHook EXCEPT !.pc = "reg", !.ev = "stop"] /\ hook.pc = "none" /\ host = "busy"
        /\ file' = file /\ stale' = stale
    BY <1>3 DEF TurnEnds, Keeps
  <2> QED
    BY <2>1, HookReadsTimes DEF NoHook
<1>4. CASE Aborts
  <2>1. hook'.pc = "abortW" /\ hook.pc = "none" /\ host = "busy" /\ file' = file /\ Load(Hook)
    BY <1>4 DEF Aborts, NoHook
  <2> QED
    BY <2>1, HookReadsTimes
<1>5. CASE PreWrites
  <2>1. /\ hook.pc = "preW" /\ HookSaves(hook.mem) /\ hook' = [hook EXCEPT !.pc = "reg", !.mem = hook.mem]
    BY <1>5 DEF PreWrites, HookTo
  <2>2. Hook \notin stale /\ Save(Hook, hook.mem)
    BY <1>2, <2>1
  <2>3. hook.mem.epoch > file.epoch
    BY <2>1, <2>2 DEF HookExact
  <2>4. file' = hook.mem /\ SparesOthers(Hook)
    BY <2>2, SaveSpares
  <2> QED
    BY <1>0, <2>1, <2>3, <2>4 DEF HookTimes, Hooks
<1>6. CASE Registers
  <2> DEFINE parked == [file EXCEPT !.awaiting = TRUE]
             mem == IF hook.ev = "pre" THEN hook.mem ELSE parked
             place == IF mem.claimed THEN "owner" ELSE "claim"
  <2>1. /\ hook.pc = "reg" /\ file' = file /\ (stale' = stale \/ Load(Hook))
        /\ hook' = [hook EXCEPT !.pc = place, !.conn = Conn, !.mem = mem] \/ hook' = NoHook
    BY <1>6 DEF Registers, HookEnds
  <2>2. place # "preW"
    OBVIOUS
  <2> HIDE DEF mem, place
  <2>3. hook'.pc # "preW"
    BY <1>0, <1>1, <2>1, <2>2 DEF Hooks
  <2> QED
    BY <2>1, <2>3, HookReadsTimes
<1>7. CASE Claims
  <2> DEFINE mem == [hook.mem EXCEPT !.claimed = TRUE]
  <2>1. hook.pc = "claim" /\ HookSaves(mem) /\ hook'.pc = "owner"
    BY <1>0, <1>7 DEF Claims, Hooks
  <2>2. mem \in Files /\ mem.epoch = hook.mem.epoch
    BY <1>0 DEF Files
  <2> HIDE DEF mem
  <2> QED
    BY <1>2, <2>1, <2>2, HookSavesTimes
<1>8. CASE NotOwner
  <2> DEFINE none == [hook.mem EXCEPT !.delivered = {}, !.pending = {}, !.deferred = {}, !.kept = {}]
  <2>1. HookSaves(hook.mem) \/ HookSaves(none)
    BY <1>8 DEF NotOwner
  <2>2. none \in Files /\ none.epoch = hook.mem.epoch
    BY <1>0 DEF Files
  <2> HIDE DEF none
  <2>3. hook.pc = "owner" /\ hook' = NoHook
    BY <1>8 DEF NotOwner, HookEnds
  <2> QED
    BY <1>0, <1>1, <1>2, <2>1, <2>2, <2>3, HookSavesTimes
<1>9. CASE FlushNothing
  <2> DEFINE less == [hook.mem EXCEPT !.deferred = {}]
  <2>1. /\ hook.pc = "owner"
        /\ \/ HookTo("take", hook.mem) /\ Keeps
           \/ HookTo("take", less) /\ HookSaves(less)
    BY <1>9 DEF FlushNothing
  <2>2. less \in Files /\ less.epoch = hook.mem.epoch
    BY <1>0 DEF Files
  <2>3. hook'.pc = "take"
    BY <1>0, <2>1 DEF HookTo, Hooks
  <2> HIDE DEF less
  <2> QED
    BY <1>2, <2>1, <2>2, <2>3, HookReadsTimes, HookSavesTimes DEF Keeps
<1>10. CASE Flush
  <2>1. PICK mem \in Files : SameGen(mem, hook.mem) /\ HookSaves(mem) /\ hook'.pc = "take"
    BY <1>10, FlushLeaves
  <2>2. hook.pc = "owner" /\ mem.epoch = hook.mem.epoch
    BY <1>10, <2>1 DEF Flush, SameGen
  <2> QED
    BY <1>2, <2>1, <2>2, HookSavesTimes
<1>11. CASE Refetch
  <2>1. hook.pc = "take" /\ hook'.pc = "take" /\ file' = file /\ stale' = stale
    BY <1>0, <1>11 DEF Refetch, Keeps, Hooks
  <2> QED
    BY <2>1, HookReadsTimes
<1>12. CASE Take
  <2>1. PICK mem \in Files, writes \in BOOLEAN, batch \in SUBSET Events :
          Owing(mem) /\ SameGen(mem, hook.mem) /\ Taken(mem, writes, batch)
    BY <1>12, TakeTakes
  <2>2. hook.pc \in {"take", "owner"}
    BY <1>12 DEF Take
  <2> DEFINE e == mem.epoch + 1
             armed == [mem EXCEPT !.epoch = e, !.wepoch = e, !.pid = NoPid]
  <2>3. \/ HookSaves(armed) /\ hook' = [hook EXCEPT !.pc = "spawn", !.mem = armed, !.batch = batch]
        \/ hook' = NoHook /\ HookSaves(mem)
        \/ hook' = NoHook /\ Load(Hook) /\ UNCHANGED file
    BY <2>1 DEF Taken
  <2>4. armed \in Files /\ armed.epoch = hook.mem.epoch + 1 /\ mem.epoch = hook.mem.epoch
    <3>1. e \in Nat /\ e = hook.mem.epoch + 1 /\ mem.epoch = hook.mem.epoch
      BY <2>1 DEF Files, SameGen
    <3> HIDE DEF e
    <3> QED
      BY <3>1 DEF Files
  <2> HIDE DEF armed
  <2>5. hook'.pc # "preW"
    BY <1>0, <1>1, <2>3 DEF Hooks
  <2> QED
    BY <1>2, <2>2, <2>3, <2>4, <2>5, HookReadsTimes, HookSavesTimes
<1>13. CASE AbortWrites
  <2>1. hook.pc = "abortW" /\ Save(Hook, hook.mem) /\ hook' = NoHook
        /\ hist' = [hist EXCEPT !.lost = @ \/ Clobbers(Hook), !.deserted = TRUE]
    BY <1>13 DEF AbortWrites, HookEnds
  <2>2. Hook \notin stale
    BY <2>1 DEF Histories, Clobbers
  <2> QED
    BY <1>0, <1>1, <2>1, <2>2, HookSavesTimes
<1>14. CASE Spawns
  <2>1. /\ hook.pc = "spawn" /\ file' = file /\ stale' = stale
        /\ (\E p \in Free : hook' = [hook EXCEPT !.pc = "pidW", !.mem = [hook.mem EXCEPT !.pid = p]])
           \/ hook' = [hook EXCEPT !.pc = "give", !.mem = hook.mem]
    BY <1>14 DEF Spawns, HookTo, Keeps
  <2>2. hook'.pc # "preW"
    BY <1>0, <2>1 DEF Hooks
  <2> QED
    BY <2>1, <2>2, HookReadsTimes
<1>15. CASE StopReturns
  <2>1. /\ hook' = NoHook
        /\ \/ hook.pc = "pidW" /\ HookSaves(hook.mem)
           \/ hook.pc = "give" /\ Load(Hook) /\ UNCHANGED file
    BY <1>15 DEF StopReturns
  <2> QED
    BY <1>0, <1>1, <1>2, <2>1, HookReadsTimes, HookSavesTimes
<1> QED
  BY <1>3, <1>4, <1>5, <1>6, <1>7, <1>8, <1>9, <1>10, <1>11, <1>12, <1>13, <1>14, <1>15 DEF HookStep

LEMMA HookTimely ==
  ASSUME Sound, Gated, HookInTurn, Timely, Histories, ~hist'.lost,
         TurnBegins \/ TurnEnds \/ Aborts \/ HookStep
  PROVE  Timely'
<1>0. /\ file \in Files /\ hook \in Hooks /\ wait \in [Pids -> Waiters]
  BY DEF Sound, HookSound, Owing
<1>1. ASSUME NEW p \in Pids
      PROVE  wait'[p] = wait[p] \/ wait'[p].pc = "top"
  <2>1. CASE Spawns
    <3>1. UNCHANGED wait \/ \E q \in Free : Started(q, hook.mem.epoch)
      BY <2>1 DEF Spawns
    <3> QED
      BY <1>0, <3>1 DEF Started, NoWaiter
  <2> QED
    BY <2>1, HookRests
<1>2. UNCHANGED rearm
  BY HookRests DEF Spawns
<1>3. CASE TurnBegins
  <2>1. PICK first \in BOOLEAN : PreBegins(first) /\ (host = "idle" => first)
    BY <1>3 DEF TurnBegins
  <2> DEFINE new == file.awaiting \/ file.pid # NoPid \/ file.epoch = 0 \/ first
             mem == IF new THEN [file EXCEPT !.epoch = @ + 1, !.awaiting = FALSE, !.pid = NoPid,
                                             !.wepoch = 0]
                    ELSE file
  <2>2. hook' = [NoHook EXCEPT !.pc = IF new THEN "preW" ELSE "reg", !.mem = mem] /\ Load(Hook)
    BY <2>1 DEF PreBegins
  <2>3. file' = file /\ hook.pc = "none"
    BY <1>3 DEF TurnBegins
  <2>4. /\ hook'.pc = (IF new THEN "preW" ELSE "reg") /\ hook'.mem = mem
        /\ new => mem.epoch > file.epoch
    BY <1>0, <2>2 DEF NoHook, Files
  <2>5. HookExact'
    BY <2>3, <2>4 DEF HookExact
  <2>6. SparesOthers(Hook)
    BY <2>2, <2>3, ReadsSpare
  <2>7. DaemonExact' /\ \A p \in Pids : WaiterExact(p)'
    BY <1>1, <1>2, <2>6, DaemonExactKept, WaiterExactKept, ActorsApart DEF Timely
  <2>8. ASSUME NEW p \in Pids PROVE Parted(p)'
    <3>1. Under(p)' => Under(p) /\ wait'[p].epoch = wait[p].epoch
      BY <1>1 DEF Under, UnderPlaces
    <3>2. hook'.pc = "preW" \/ host # "idle"
      BY <2>1, <2>4
    <3>3. hook.pc # "preW" /\ file'.epoch = file.epoch /\ Parted(p)
      BY <2>3 DEF Timely
    <3> QED
      BY <3>1, <3>2, <3>3, PartedKept
  <2> QED
    BY <2>5, <2>7, <2>8 DEF Timely
<1>4. CASE TurnEnds \/ Aborts \/ HookStep
  <2>1. HookTimes
    BY <1>4, HookStepTimes DEF Timely
  <2>2. HookExact'
    BY <2>1 DEF HookExact, HookTimes
  <2>3. DaemonExact' /\ \A p \in Pids : WaiterExact(p)'
    BY <1>1, <1>2, <2>1, DaemonExactKept, WaiterExactKept, ActorsApart DEF Timely, HookTimes
  <2>4. ASSUME NEW p \in Pids PROVE Parted(p)'
    <3>1. Under(p)' => Under(p) /\ wait'[p].epoch = wait[p].epoch
      BY <1>1 DEF Under, UnderPlaces
    <3> QED
      BY <2>1, <3>1, PartedKept DEF HookTimes, Timely
  <2> QED
    BY <2>2, <2>3, <2>4 DEF Timely
<1> QED
  BY <1>3, <1>4

\* A waiter's step, by what it makes of the file and of itself.
LEMMA WaiterLeavesTimely ==
  ASSUME Sound, Gated, Timely, NEW p \in Pids, NEW v, Becomes(p, v), UNCHANGED <<hook, rearm, host>>,
         SparesOthers(p), file'.epoch = file.epoch,
         v.pc \in UnderPlaces => host = "idle" \/ (Under(p) /\ v.epoch = wait[p].epoch),
         v.pc \in {"commitW", "staleW"} => v.epoch = file'.epoch,
         v.pc \in {"doneW", "byeW"} => v.mem = [file' EXCEPT !.pid = NoPid],
         v.pc = "rearmW" => v.mem = [file' EXCEPT !.presented = @ \ file'.delivered],
         v.pc = "staleW" => v.mem = [file' EXCEPT !.delivered = @ \ v.targets]
  PROVE  Timely'
<1>1. /\ wait'[p] = v /\ \A q \in Pids : q # p => wait'[q] = wait[q]
  BY DEF Sound, Becomes
<1>2. p # Hook /\ p # Daemon
  BY ActorsApart
<1>3. HookExact' /\ DaemonExact'
  BY <1>2, HookExactKept, DaemonExactKept DEF Timely
<1>4. ASSUME NEW q \in Pids PROVE WaiterExact(q)'
  <2>1. CASE q = p
    BY <1>1, <2>1 DEF WaiterExact
  <2>2. CASE q # p
    BY <1>1, <2>2, WaiterExactKept DEF Timely
  <2> QED
    BY <2>1, <2>2
<1>5. ASSUME NEW q \in Pids PROVE Parted(q)'
  <2>1. CASE q = p /\ host = "idle"
    BY <2>1 DEF Parted
  <2>2. CASE q # p \/ host # "idle"
    <3>1. Under(q)' => Under(q) /\ wait'[q].epoch = wait[q].epoch
      BY <1>1, <2>2 DEF Under, UnderPlaces
    <3> QED
      BY <3>1, PartedKept DEF Timely
  <2> QED
    BY <2>1, <2>2
<1> QED
  BY <1>3, <1>4, <1>5 DEF Timely

LEMMA WaiterReadsTimely ==
  ASSUME Sound, Gated, Timely, NEW p \in Pids, NEW v, Becomes(p, v), UNCHANGED <<hook, rearm, host, file>>,
         stale' = stale \/ Load(p),
         v.pc \in UnderPlaces => host = "idle" \/ (Under(p) /\ v.epoch = wait[p].epoch),
         v.pc \in {"commitW", "staleW"} => v.epoch = file.epoch,
         v.pc \in {"doneW", "byeW"} => v.mem = [file EXCEPT !.pid = NoPid],
         v.pc = "rearmW" => v.mem = [file EXCEPT !.presented = @ \ file.delivered],
         v.pc = "staleW" => v.mem = [file EXCEPT !.delivered = @ \ v.targets]
  PROVE  Timely'
<1>1. SparesOthers(p)
  BY ReadsSpare
<1> QED
  BY <1>1, WaiterLeavesTimely DEF UnderPlaces

LEMMA WaiterWritesTimely ==
  ASSUME Sound, Gated, Timely, NEW p \in Pids, NEW v, Becomes(p, v), UNCHANGED <<hook, rearm, host>>,
         Save(p, wait[p].mem), p \notin stale,
         wait[p].pc \in {"commitW", "rearmW", "staleW", "doneW", "byeW"},
         v.pc \in {"top", "exit", "off"}
           \/ (v.pc \in {"look", "trigger", "stale", "prompt"} /\ Under(p) /\ v.epoch = wait[p].epoch)
  PROVE  Timely'
<1>1. SparesOthers(p) /\ file' = wait[p].mem
  BY SaveSpares
<1>2. file'.epoch = file.epoch
  BY <1>1 DEF Gated, WaiterFresh, SameGen
<1> QED
  BY <1>1, <1>2, WaiterLeavesTimely DEF UnderPlaces

LEMMA WaiterTimely ==
  ASSUME Sound, Gated, HookInTurn, Timely, Histories, ~hist'.lost, NEW p \in Pids,
         WaiterStep(p) \/ Quits(p) \/ CallFails(p)
  PROVE  Timely'
<1> DEFINE w == wait[p]
<1>0. /\ file \in Files /\ w \in Waiters /\ Idle(w) \in Waiters /\ Idle(w).pc = "top"
      /\ Leaving(w).pc = "exit"
  BY WaiterIs, IdleIs
<1>1. UNCHANGED <<hook, rearm, host>>
  BY DEF WaiterStep, Top, Peek, LooksInVain, Commit, CommitWrites, Trigger, Rearm, RearmWrites, Clears,
         ClearWrites, Prompts, ClearsPid, PidCleared, Quits, CallFails, WaitsOn, hostVars
<1>2. NoWaiter.pc = "off"
  BY DEF NoWaiter
<1> HIDE DEF w
<1>3. CASE Top(p)
  <2> DEFINE look == [w EXCEPT !.pc = "look", !.mem = file, !.first = FALSE, !.owed = file.delivered # {},
                               !.targets = file.delivered]
             idle == [Idle(w) EXCEPT !.errors = 0]
  <2>1. /\ Becomes(p, Leaving(w)) \/ (Becomes(p, look) /\ host = "idle") \/ Becomes(p, idle)
        /\ UNCHANGED <<file, stale>>
    BY <1>3 DEF Top, SelfReady, Keeps, w
  <2>2. look.pc = "look" /\ idle.pc = "top"
    BY <1>0 DEF Waiters
  <2> HIDE DEF look, idle
  <2> QED
    BY <1>0, <1>1, <2>1, <2>2, WaiterReadsTimely DEF UnderPlaces
<1>4. CASE Quits(p) \/ LooksInVain(p)
  <2>1. Becomes(p, Leaving(w)) /\ UNCHANGED <<file, stale>>
    BY <1>4 DEF Quits, LooksInVain, Keeps, w
  <2> QED
    BY <1>0, <1>1, <2>1, WaiterReadsTimely DEF UnderPlaces
<1>5. CASE CallFails(p)
  <2> DEFINE idle == [Idle(w) EXCEPT !.errors = @ + 1]
  <2>1. (Becomes(p, Leaving(w)) \/ Becomes(p, idle)) /\ UNCHANGED <<file, stale>>
    BY <1>5 DEF CallFails, Keeps, w
  <2>2. idle.pc = "top"
    BY <1>0 DEF Waiters
  <2> HIDE DEF idle
  <2> QED
    BY <1>0, <1>1, <2>1, <2>2, WaiterReadsTimely DEF UnderPlaces
<1>6. CASE Peek(p)
  <2>1. PICK v \in Waiters : Becomes(p, v) /\ v.pc = "commit" /\ v.epoch = w.epoch
    BY <1>6, PeekSees DEF w
  <2>2. Under(p) /\ UNCHANGED <<file, stale>>
    BY <1>6 DEF Peek, At, Under, UnderPlaces, Keeps
  <2> QED
    BY <1>1, <2>1, <2>2, WaiterReadsTimely DEF w, UnderPlaces
<1>7. CASE Commit(p)
  <2> DEFINE fresh == IF w.look.any THEN Merged(file, w.look, w.conn) ELSE Swept(file, w.look)
             targets == IF ~w.look.any /\ fresh # file THEN fresh.delivered ELSE w.targets
             v == [w EXCEPT !.pc = "commitW", !.mem = fresh, !.targets = IF w.verify THEN @ ELSE targets]
  <2>1. /\ w.pc = "commit" /\ file' = file /\ Load(p)
        /\ \/ Becomes(p, Leaving(w))
           \/ Becomes(p, Decided(w, p))
           \/ Becomes(p, v) /\ ~Superseded(file, p)
    BY <1>7 DEF Commit, At, w
  <2>2. v.epoch = w.epoch /\ v.pc = "commitW"
    BY <1>0 DEF Waiters
  <2>3. Under(p) /\ Waits(p) /\ w.pc # "top"
    BY <2>1 DEF Under, UnderPlaces, Waits, w
  <2>4. /\ Decided(w, p).pc \in {"top", "trigger", "prompt", "stale"} /\ Decided(w, p).epoch = w.epoch
    BY <1>0, DecidedIs
  <2>5. ~Superseded(file, p) => w.epoch = file.epoch
    BY <2>3, LastLook DEF Current, w
  <2> HIDE DEF v
  <2>6. CASE Becomes(p, Leaving(w))
    BY <1>0, <1>1, <2>1, <2>6, WaiterReadsTimely DEF UnderPlaces
  <2>7. CASE Becomes(p, Decided(w, p))
    BY <1>1, <2>1, <2>3, <2>4, <2>7, WaiterReadsTimely DEF w, UnderPlaces
  <2>8. CASE Becomes(p, v) /\ ~Superseded(file, p)
    BY <1>1, <2>1, <2>2, <2>3, <2>5, <2>8, WaiterReadsTimely DEF w, UnderPlaces
  <2> QED
    BY <2>1, <2>6, <2>7, <2>8
<1>8. ASSUME WClobber(p) PROVE p \notin stale
  BY <1>8, NotLost DEF WClobber
<1>9. CASE CommitWrites(p)
  <2>1. w.pc = "commitW" /\ Save(p, w.mem) /\ p \notin stale /\ Becomes(p, Decided(w, p))
    BY <1>8, <1>9 DEF CommitWrites, At, w
  <2>2. Under(p)
    BY <2>1 DEF Under, UnderPlaces, w
  <2>3. /\ Decided(w, p).pc \in {"top", "trigger", "prompt", "stale"} /\ Decided(w, p).epoch = w.epoch
    BY <1>0, DecidedIs
  <2> QED
    BY <1>1, <2>1, <2>2, <2>3, WaiterWritesTimely DEF w, UnderPlaces
<1>10. CASE Trigger(p)
  <2> DEFINE idle == [Idle(w) EXCEPT !.retry = TRUE]
             v == [w EXCEPT !.pc = IF w.owed THEN "rearm" ELSE "prompt"]
  <2>1. /\ w.pc = "trigger" /\ UNCHANGED <<file, stale>>
        /\ Becomes(p, Leaving(w)) \/ Becomes(p, idle) \/ Becomes(p, v)
    BY <1>10 DEF Trigger, At, Keeps, w
  <2>2. idle.pc = "top" /\ v.epoch = w.epoch /\ v.pc \in {"rearm", "prompt"}
    BY <1>0 DEF Waiters
  <2>3. Under(p)
    BY <2>1 DEF Under, UnderPlaces, w
  <2> HIDE DEF idle, v
  <2> QED
    BY <1>0, <1>1, <2>1, <2>2, <2>3, WaiterReadsTimely DEF w, UnderPlaces
<1>11. CASE Rearm(p)
  <2> DEFINE mem == [file EXCEPT !.presented = @ \ file.delivered]
             x == [w EXCEPT !.pc = "look", !.verify = TRUE, !.mem = file]
             y == [w EXCEPT !.pc = "rearmW", !.mem = mem]
  <2>1. w.pc = "rearm" /\ file' = file /\ Load(p) /\ (Becomes(p, x) \/ Becomes(p, y))
    BY <1>11 DEF Rearm, At, w
  <2>2. x.pc = "look" /\ x.epoch = w.epoch /\ y.pc = "rearmW" /\ y.epoch = w.epoch /\ y.mem = mem
    BY <1>0 DEF Waiters
  <2>3. Under(p)
    BY <2>1 DEF Under, UnderPlaces, w
  <2> HIDE DEF x, y
  <2> QED
    BY <1>1, <2>1, <2>2, <2>3, WaiterReadsTimely DEF w, UnderPlaces
<1>12. CASE RearmWrites(p)
  <2> DEFINE x == [w EXCEPT !.pc = "look", !.verify = TRUE]
  <2>1. w.pc = "rearmW" /\ Save(p, w.mem) /\ p \notin stale /\ Becomes(p, x)
    BY <1>8, <1>12 DEF RearmWrites, At, w
  <2>2. x.pc = "look" /\ x.epoch = w.epoch
    BY <1>0 DEF Waiters
  <2>3. Under(p)
    BY <2>1 DEF Under, UnderPlaces, w
  <2> HIDE DEF x
  <2> QED
    BY <1>1, <2>1, <2>2, <2>3, WaiterWritesTimely DEF w, UnderPlaces
<1>13. CASE Clears(p)
  <2> DEFINE mem == [file EXCEPT !.delivered = @ \ w.targets]
             y == [w EXCEPT !.pc = "staleW", !.mem = mem]
  <2>1. /\ w.pc = "stale" /\ file' = file /\ Load(p)
        /\ Becomes(p, Idle(w)) \/ (Becomes(p, y) /\ ~Superseded(file, p))
    BY <1>13 DEF Clears, At, w
  <2>2. y.pc = "staleW" /\ y.epoch = w.epoch /\ y.mem = mem /\ y.targets = w.targets
    BY <1>0 DEF Waiters
  <2>3. Waits(p) /\ w.pc # "top"
    BY <2>1 DEF Waits, w
  <2>4. ~Superseded(file, p) => w.epoch = file.epoch
    BY <2>3, LastLook DEF Current, w
  <2> HIDE DEF y
  <2> QED
    BY <1>0, <1>1, <2>1, <2>2, <2>4, WaiterReadsTimely DEF UnderPlaces
<1>14. CASE ClearWrites(p)
  <2>1. w.pc = "staleW" /\ Save(p, w.mem) /\ p \notin stale /\ Becomes(p, Idle(w))
    BY <1>8, <1>14 DEF ClearWrites, At, w
  <2> QED
    BY <1>0, <1>1, <2>1, WaiterWritesTimely DEF w, UnderPlaces
<1>15. CASE Prompts(p)
  <2> DEFINE x == [Idle(w) EXCEPT !.tries = @ + 1, !.retry = TRUE]
             y == [w EXCEPT !.pc = "done", !.mem = NoFile, !.look = NoLook, !.conn = NoConn]
  <2>1. UNCHANGED <<file, stale>> /\ (Becomes(p, Leaving(w)) \/ Becomes(p, x) \/ Becomes(p, y))
    BY <1>15 DEF Prompts, Keeps, w
  <2>2. x.pc = "top" /\ y.pc = "done"
    BY <1>0 DEF Waiters
  <2> HIDE DEF x, y
  <2> QED
    BY <1>0, <1>1, <2>1, <2>2, WaiterReadsTimely DEF UnderPlaces
<1>16. CASE ClearsPid(p)
  <2> DEFINE mem == [file EXCEPT !.pid = NoPid]
             y(pc) == [w EXCEPT !.mem = mem, !.pc = pc]
  <2>1. /\ file' = file /\ Load(p)
        /\ \/ Becomes(p, Leaving(w)) \/ Becomes(p, NoWaiter)
           \/ Becomes(p, y("doneW")) \/ Becomes(p, y("byeW"))
    BY <1>16 DEF ClearsPid, w
  <2>2. /\ y("doneW").pc = "doneW" /\ y("doneW").mem = mem
        /\ y("byeW").pc = "byeW" /\ y("byeW").mem = mem
    BY <1>0 DEF Waiters
  <2> HIDE DEF y
  <2> QED
    BY <1>0, <1>1, <1>2, <2>1, <2>2, WaiterReadsTimely DEF UnderPlaces
<1>17. CASE PidCleared(p)
  <2>1. w.pc \in {"doneW", "byeW"} /\ Save(p, w.mem) /\ p \notin stale
        /\ (Becomes(p, Leaving(w)) \/ Becomes(p, NoWaiter))
    BY <1>8, <1>17 DEF PidCleared, At, w
  <2> QED
    BY <1>0, <1>1, <1>2, <2>1, WaiterWritesTimely DEF w, UnderPlaces
<1> QED
  BY <1>3, <1>4, <1>5, <1>6, <1>7, <1>9, <1>10, <1>11, <1>12, <1>13, <1>14, <1>15, <1>16, <1>17 DEF WaiterStep

LEMMA DaemonTimely ==
  ASSUME Sound, Gated, Timely, Histories, ~hist'.lost, RearmStep \/ \E killed \in BOOLEAN : Restarts(killed)
  PROVE  Timely'
<1>0. /\ file \in Files /\ wait \in [Pids -> Waiters] /\ rearm \in Rearms
  BY DEF Sound, Owing, RearmSound
<1>1. Daemonic
  BY DEF RearmStep, Scans, Matches, PidDropped, PidRecorded, Writes, Respawns, Records, Restarts
<1>2. UNCHANGED <<hook, host>>
  BY <1>1 DEF Daemonic, hostVars
<1>3. Daemon # Hook /\ \A p \in Pids : p # Daemon
  BY ActorsApart
<1>4. ASSUME SparesOthers(Daemon), file'.epoch = file.epoch, DaemonExact',
             \A p \in Pids : wait'[p] = wait[p] \/ wait'[p].pc \in {"off", "top"}
      PROVE  Timely'
  <2>1. HookExact'
    BY <1>2, <1>3, <1>4, HookExactKept DEF Timely
  <2>2. ASSUME NEW p \in Pids PROVE WaiterExact(p)' /\ Parted(p)'
    <3>1. WaiterExact(p)'
      BY <1>3, <1>4, WaiterExactKept DEF Timely
    <3>2. Under(p)' => Under(p) /\ wait'[p].epoch = wait[p].epoch
      BY <1>4 DEF Under, UnderPlaces
    <3> QED
      BY <1>2, <1>4, <3>1, <3>2, PartedKept DEF Timely
  <2> QED
    BY <1>4, <2>1, <2>2 DEF Timely
<1>5. NoWaiter.pc = "off" /\ NoRearm.pc = "none"
  BY DEF NoWaiter, NoRearm
<1>6. CASE \E killed \in BOOLEAN : Restarts(killed)
  <2>1. PICK killed \in BOOLEAN : Restarts(killed)
    BY <1>6
  <2>2. /\ rearm' = [NoRearm EXCEPT !.pc = "scan"] /\ file' = file
        /\ \A p \in Pids : wait'[p] = (IF killed THEN NoWaiter ELSE wait[p])
        /\ stale' = stale \ (IF killed THEN Pids ELSE {})
    BY <2>1 DEF Restarts, RearmTo
  <2>3. rearm'.pc = "scan"
    BY <2>2 DEF NoRearm
  <2>4. DaemonExact'
    BY <2>3 DEF DaemonExact
  <2>5. HookExact'
    <3>1. Hook \notin Pids
      BY ActorsApart
    <3> QED
      BY <1>2, <2>2, <3>1 DEF Timely, HookExact
  <2>6. ASSUME NEW p \in Pids PROVE WaiterExact(p)' /\ Parted(p)'
    <3>1. CASE killed
      BY <1>5, <2>2, <3>1 DEF WaiterExact, Parted, Under, UnderPlaces
    <3>2. CASE ~killed
      <4>1. wait'[p] = wait[p] /\ file' = file /\ stale' = stale /\ hook' = hook /\ host' = host
        BY <1>2, <2>2, <3>2
      <4> QED
        BY <4>1 DEF Timely, WaiterExact, Parted, Under, UnderPlaces
    <3> QED
      BY <3>1, <3>2
  <2> QED
    BY <2>4, <2>5, <2>6 DEF Timely
<1>7. CASE Scans
  <2>1. /\ rearm' = NoRearm \/ rearm' = [NoRearm EXCEPT !.pc = "match", !.epoch = EffectiveEpoch(file),
                                                        !.was = file.pid]
        /\ UNCHANGED <<file, wait, stale>>
    BY <1>7 DEF Scans, RearmTo, Keeps
  <2>2. rearm'.pc \in {"none", "match"}
    <3>1. rearm' # NoRearm => rearm'.pc = "match"
      BY <2>1 DEF NoRearm
    <3> QED
      BY <1>5, <3>1
  <2> QED
    BY <1>4, <2>1, <2>2, ReadsSpare DEF DaemonExact
<1>8. CASE Matches \/ Records
  <2> DEFINE mem(x) == [file EXCEPT !.pid = x]
  <2>1. /\ \/ rearm' = NoRearm
           \/ rearm' = [rearm EXCEPT !.pc = "clear", !.mem = mem(NoPid)]
           \/ rearm' = [rearm EXCEPT !.pc = "record", !.mem = mem(rearm.pid)]
        /\ file' = file /\ (wait' = wait \/ Becomes(rearm.pid, NoWaiter)) /\ Load(Daemon)
    BY <1>8 DEF Matches, Records, RearmTo
  <2>2. DaemonExact'
    <3>1. CASE rearm' = NoRearm
      BY <1>5, <3>1 DEF DaemonExact
    <3>2. CASE rearm' = [rearm EXCEPT !.pc = "clear", !.mem = mem(NoPid)]
      <4>1. rearm'.pc = "clear" /\ rearm'.mem = mem(NoPid)
        BY <1>0, <3>2 DEF Rearms
      <4> QED
        BY <2>1, <4>1 DEF DaemonExact
    <3>3. CASE rearm' = [rearm EXCEPT !.pc = "record", !.mem = mem(rearm.pid)]
      <4>1. rearm'.pc = "record" /\ rearm'.mem = mem(rearm.pid) /\ rearm'.pid = rearm.pid
        BY <1>0, <3>3 DEF Rearms
      <4> QED
        BY <2>1, <4>1 DEF DaemonExact
    <3> QED
      BY <2>1, <3>1, <3>2, <3>3
  <2>3. \A p \in Pids : wait'[p] = wait[p] \/ wait'[p] = NoWaiter
    BY <1>0, <2>1 DEF Becomes
  <2> QED
    BY <1>4, <1>5, <2>1, <2>2, <2>3, ReadsSpare
<1>9. CASE PidDropped \/ PidRecorded
  <2>1. /\ Save(Daemon, rearm.mem) /\ wait' = wait /\ rearm.pc \in {"clear", "record"}
        /\ rearm' = NoRearm \/ rearm' = [rearm EXCEPT !.pc = "spawn", !.mem = NoFile]
    BY <1>9 DEF PidDropped, PidRecorded, Writes, RearmTo
  <2>2. Daemon \notin stale
    BY <1>9, NotLost DEF PidDropped, PidRecorded, Writes
  <2>3. rearm'.pc \in {"none", "spawn"}
    BY <1>0, <1>5, <2>1 DEF Rearms
  <2>4. file' = rearm.mem /\ SparesOthers(Daemon)
    BY <2>1, SaveSpares
  <2>5. file'.epoch = file.epoch
    BY <2>1, <2>2, <2>4 DEF Gated, DaemonFresh
  <2> QED
    BY <1>4, <2>1, <2>3, <2>4, <2>5 DEF DaemonExact
<1>10. CASE Respawns
  <2>1. PICK p \in Free : /\ Started(p, rearm.epoch)
                          /\ rearm' = [rearm EXCEPT !.pc = "check", !.pid = p]
    BY <1>10 DEF Respawns, RearmTo
  <2>2. UNCHANGED <<file, stale>>
    BY <1>10 DEF Respawns, Keeps
  <2>3. rearm'.pc = "check"
    BY <1>0, <2>1 DEF Rearms
  <2>4. \A q \in Pids : wait'[q] = wait[q] \/ wait'[q].pc = "top"
    BY <1>0, <2>1 DEF Started, NoWaiter
  <2> QED
    BY <1>4, <2>2, <2>3, <2>4, ReadsSpare DEF DaemonExact
<1> QED
  BY <1>6, <1>7, <1>8, <1>9, <1>10 DEF RearmStep

LEMMA OthersTimely ==
  ASSUME Sound, Timely, UNCHANGED <<file, hook, rearm, stale, host>>, wait' = wait \/ wait' = Pushed
  PROVE  Timely'
<1>1. wait \in [Pids -> Waiters]
  BY DEF Sound
<1>2. ASSUME NEW p \in Pids
      PROVE  /\ wait'[p].pc = wait[p].pc /\ wait'[p].epoch = wait[p].epoch
             /\ wait'[p].mem = wait[p].mem /\ wait'[p].targets = wait[p].targets
  <2>1. wait[p] \in Waiters
    BY <1>1
  <2>2. wait'[p] = wait[p] \/ wait'[p] = [wait[p] EXCEPT !.push = TRUE]
    BY DEF Pushed
  <2> QED
    BY <2>1, <2>2 DEF Waiters
<1>3. HookExact' /\ DaemonExact'
  BY DEF Timely, HookExact, DaemonExact
<1>4. ASSUME NEW p \in Pids PROVE Parted(p)' /\ WaiterExact(p)'
  <2>1. Parted(p) /\ WaiterExact(p)
    BY DEF Timely
  <2>2. Parted(p)'
    BY <1>2, <2>1 DEF Parted, Under
  <2>3. WaiterExact(p)'
    BY <1>2, <2>1 DEF WaiterExact
  <2> QED
    BY <2>2, <2>3
<1> QED
  BY <1>3, <1>4 DEF Timely

LEMMA TimelyStays ==
  ASSUME Sound, OneGate, hist.lost \/ Timely, [Next]_vars
  PROVE  (hist.lost \/ Timely)'
<1>1. SUFFICES ASSUME ~hist'.lost PROVE Timely'
  OBVIOUS
<1>2. Histories /\ HookInTurn /\ Gated /\ Timely
  BY <1>1, HistoriesGrow DEF OneGate, Remembers
<1>3. CASE UNCHANGED vars
  BY <1>2, <1>3, OthersTimely DEF vars, hostVars
<1>4. CASE TurnBegins \/ TurnEnds \/ Aborts \/ HookStep
  BY <1>1, <1>2, <1>4, HookTimely
<1>5. CASE RearmStep \/ \E killed \in BOOLEAN : Restarts(killed)
  BY <1>1, <1>2, <1>5, DaemonTimely
<1>6. CASE \E p \in Pids : WaiterStep(p) \/ Quits(p) \/ CallFails(p)
  BY <1>1, <1>2, <1>6, WaiterTimely
<1>7. CASE \/ \E k \in Kinds, t \in Terminals, busy \in BOOLEAN : Publish(k, t, busy)
           \/ OwnerMoves \/ (\E t \in Terminals : PeerIdle(t) \/ PeerLeaves(t))
           \/ \E e \in Events : RowMoves(e)
  <2>1. UNCHANGED <<file, hook, rearm, stale, host>> /\ (wait' = wait \/ wait' = Pushed)
    BY <1>7 DEF Publish, OwnerMoves, PeerIdle, PeerLeaves, RowMoves, hostVars
  <2> QED
    BY <1>2, <2>1, OthersTimely
<1> QED
  BY <1>3, <1>4, <1>5, <1>6, <1>7, Steps

LEMMA AlwaysTimely == Spec => [](hist.lost \/ Timely)
<1>1. Init => Timely
  BY DEF Init, Timely, HookExact, DaemonExact, Parted, WaiterExact, Under, UnderPlaces, NoHook, NoWaiter, NoRearm
<1>2. Sound /\ OneGate /\ (hist.lost \/ Timely) /\ [Next]_vars => (hist.lost \/ Timely)'
  BY TimelyStays
<1> QED
  BY <1>1, <1>2, AlwaysSound, AlwaysOneGate, PTL DEF Spec

----------------------------------------------------------------------------
(* While no turn has had two waiters, nobody else changes what a waiter has seen of its
   own turn *)

\* What the file says of the batch stays while p is under way, or it is another turn's.
FileKeeps(p) ==
  (Under(p) /\ wait[p].epoch = file'.epoch) =>
    /\ wait[p].epoch = file.epoch
    /\ file'.kept = file.kept /\ file'.delivered = file.delivered /\ file'.pending = file.pending
    /\ file'.presented \subseteq file.presented
    /\ file.presented \subseteq file'.presented \cup file.delivered

LEMMA SameFileKeeps ==
  ASSUME file' = file, NEW p
  PROVE  FileKeeps(p)
BY DEF FileKeeps

LEMMA HookKeepsFile ==
  ASSUME Sound, Gated, HookInTurn, Timely, Histories, ~hist'.lost,
         TurnBegins \/ TurnEnds \/ Aborts \/ HookStep, NEW p \in Pids
  PROVE  FileKeeps(p)
<1>1. CASE TurnBegins
  BY <1>1, SameFileKeeps DEF TurnBegins
<1>2. CASE TurnEnds \/ Aborts \/ HookStep
  <2>1. HookTimes
    BY <1>2, HookStepTimes DEF Timely
  <2>2. SUFFICES ASSUME Under(p), wait[p].epoch = file'.epoch PROVE FALSE
    BY DEF FileKeeps
  <2>3. wait[p].epoch \in Nat /\ file.epoch \in Nat /\ wait[p].epoch <= file.epoch
    <3>1. wait[p] \in Waiters /\ file \in Files /\ wait[p].pc # "off"
      BY <2>2, WaiterIs DEF Under, UnderPlaces
    <3> QED
      BY <3>1 DEF Gated, Generations, Waiters, Files
  <2>4. CASE file'.epoch > file.epoch
    BY <2>2, <2>3, <2>4
  <2>5. CASE file'.epoch = file.epoch /\ hook.pc # "preW" /\ host # "idle"
    BY <2>2, <2>5 DEF Timely, Parted
  <2> QED
    BY <2>1, <2>4, <2>5 DEF HookTimes
<1> QED
  BY <1>1, <1>2

LEMMA WaiterKeepsFile ==
  ASSUME Sound, Gated, Timely, Distinct, Histories, ~hist'.lost,
         NEW q \in Pids, WaiterStep(q) \/ Quits(q) \/ CallFails(q), NEW p \in Pids, p # q
  PROVE  FileKeeps(p)
<1>0. file \in Files /\ WaiterExact(q)
  BY DEF Sound, Owing, Timely
<1>1. CASE CommitWrites(q) \/ ClearWrites(q)
  <2>1. wait[q].pc \in {"commitW", "staleW"} /\ Save(q, wait[q].mem) /\ WClobber(q)
    BY <1>1 DEF CommitWrites, ClearWrites, At
  <2>2. q \notin stale /\ file' = wait[q].mem
    BY <2>1, NotLost DEF WClobber, Save
  <2>3. wait[q].epoch = file.epoch
    BY <1>0, <2>1, <2>2 DEF WaiterExact
  <2>4. SUFFICES ASSUME Under(p), wait[p].epoch = file'.epoch PROVE FALSE
    BY DEF FileKeeps
  <2>5. Under(p) => wait[p].pc # "off"
    BY DEF Under, UnderPlaces
  <2>6. file'.epoch = file.epoch
    BY <2>1, <2>2 DEF Gated, WaiterFresh, SameGen
  <2> QED
    BY <2>1, <2>3, <2>4, <2>5, <2>6 DEF Distinct
<1>2. CASE RearmWrites(q) \/ PidCleared(q)
  <2>1. wait[q].pc \in {"rearmW", "doneW", "byeW"} /\ Save(q, wait[q].mem) /\ WClobber(q)
    BY <1>2 DEF RearmWrites, PidCleared, At
  <2>2. q \notin stale /\ file' = wait[q].mem
    BY <2>1, NotLost DEF WClobber, Save
  <2>3. file' = [file EXCEPT !.presented = @ \ file.delivered] \/ file' = [file EXCEPT !.pid = NoPid]
    BY <1>0, <2>1, <2>2 DEF WaiterExact
  <2>4. /\ file'.epoch = file.epoch /\ file'.kept = file.kept /\ file'.delivered = file.delivered
        /\ file'.pending = file.pending
        /\ file'.presented \subseteq file.presented
        /\ file.presented \subseteq file'.presented \cup file.delivered
    BY <1>0, <2>3 DEF Files
  <2> QED
    BY <2>4 DEF FileKeeps
<1>3. CASE ~(CommitWrites(q) \/ ClearWrites(q) \/ RearmWrites(q) \/ PidCleared(q))
  <2>1. file' = file
    BY <1>3 DEF WaiterStep, Top, Peek, LooksInVain, Commit, Trigger, Rearm, Clears, Prompts, ClearsPid,
                Quits, CallFails, Keeps
  <2> QED
    BY <2>1, SameFileKeeps
<1> QED
  BY <1>1, <1>2, <1>3

LEMMA DaemonKeepsFile ==
  ASSUME Sound, Timely, Histories, ~hist'.lost, RearmStep \/ \E killed \in BOOLEAN : Restarts(killed),
         NEW p \in Pids
  PROVE  FileKeeps(p)
<1>0. file \in Files
  BY DEF Sound, Owing
<1>1. CASE PidDropped \/ PidRecorded
  <2>1. Save(Daemon, rearm.mem) /\ rearm.pc \in {"clear", "record"}
        /\ hist' = [hist EXCEPT !.lost = @ \/ Clobbers(Daemon)]
    BY <1>1 DEF PidDropped, PidRecorded, Writes
  <2>2. Daemon \notin stale /\ file' = rearm.mem
    BY <2>1, NotLost DEF Save
  <2>3. \E x : file' = [file EXCEPT !.pid = x]
    BY <2>1, <2>2 DEF Timely, DaemonExact
  <2>4. /\ file'.epoch = file.epoch /\ file'.kept = file.kept /\ file'.delivered = file.delivered
        /\ file'.pending = file.pending
        /\ file'.presented = file.presented
    BY <1>0, <2>3 DEF Files
  <2> QED
    BY <2>4 DEF FileKeeps
<1>2. CASE ~(PidDropped \/ PidRecorded)
  <2>1. file' = file
    BY <1>2 DEF RearmStep, Scans, Matches, Respawns, Records, Restarts, Keeps
  <2> QED
    BY <2>1, SameFileKeeps
<1> QED
  BY <1>1, <1>2

Alone(p) ==
  (wait[p].pc \in {"look", "commit"} /\ wait[p].epoch = file.epoch) =>
    /\ file.kept = wait[p].mem.kept /\ file.delivered = wait[p].mem.delivered
    /\ file.pending = wait[p].mem.pending
    /\ wait[p].mem.presented \subseteq file.presented \cup file.delivered
Sole == \A p \in Pids : Alone(p)

LEMMA AloneKept ==
  ASSUME NEW p, Alone(p), FileKeeps(p),
         \/ wait'[p] = wait[p] \/ wait'[p].pc \in {"off", "top"}
         \/ wait' = Pushed /\ p \in Pids /\ wait[p] \in Waiters
  PROVE  Alone(p)'
<1>1. ASSUME wait'[p].pc = wait[p].pc, wait'[p].epoch = wait[p].epoch, wait'[p].mem = wait[p].mem
      PROVE  Alone(p)'
  BY <1>1 DEF Alone, FileKeeps, Under, UnderPlaces
<1>2. CASE wait'[p].pc \in {"off", "top"}
  BY <1>2 DEF Alone
<1>3. CASE wait' = Pushed /\ p \in Pids /\ wait[p] \in Waiters
  <2>1. wait'[p] = wait[p] \/ wait'[p] = [wait[p] EXCEPT !.push = TRUE]
    BY <1>3 DEF Pushed
  <2>2. /\ wait'[p].pc = wait[p].pc /\ wait'[p].epoch = wait[p].epoch /\ wait'[p].mem = wait[p].mem
    BY <1>3, <2>1 DEF Waiters
  <2> QED
    BY <1>1, <2>2
<1> QED
  BY <1>1, <1>2, <1>3

\* What a waiter has read is the file, and what it has written.
LEMMA WaiterAlone ==
  ASSUME Sound, NEW p \in Pids, Alone(p), WaiterStep(p) \/ Quits(p) \/ CallFails(p)
  PROVE  Alone(p)'
<1> DEFINE w == wait[p]
<1>0. /\ w \in Waiters /\ Idle(w) \in Waiters /\ Idle(w).pc = "top" /\ Leaving(w).pc = "exit"
      /\ wait \in [Pids -> Waiters]
  BY WaiterIs, IdleIs DEF Sound
<1>1. NoWaiter.pc = "off"
  BY DEF NoWaiter
<1>2. ASSUME NEW v, Becomes(p, v), v.pc \notin {"look", "commit"} PROVE Alone(p)'
  BY <1>0, <1>2 DEF Alone, Becomes
<1>3. ASSUME NEW v, Becomes(p, v), v.mem = file' PROVE Alone(p)'
  BY <1>0, <1>3 DEF Alone, Becomes
<1>4. ASSUME NEW v, Becomes(p, v), v.mem = w.mem, v.epoch = w.epoch, file' = file, w.pc \in {"look", "commit"}
      PROVE  Alone(p)'
  BY <1>0, <1>4 DEF Alone, Becomes
<1> HIDE DEF w
<1>5. CASE Top(p)
  <2> DEFINE look == [w EXCEPT !.pc = "look", !.mem = file, !.first = FALSE, !.owed = file.delivered # {},
                               !.targets = file.delivered]
             idle == [Idle(w) EXCEPT !.errors = 0]
  <2>1. (Becomes(p, Leaving(w)) \/ Becomes(p, look) \/ Becomes(p, idle)) /\ file' = file
    BY <1>5 DEF Top, Keeps, w
  <2>2. look.mem = file /\ idle.pc = "top"
    BY <1>0 DEF Waiters
  <2> HIDE DEF look, idle
  <2> QED
    BY <1>0, <1>2, <1>3, <2>1, <2>2
<1>6. CASE Peek(p)
  <2>1. PICK v \in Waiters : Becomes(p, v) /\ v.mem = w.mem /\ v.epoch = w.epoch
    BY <1>6, PeekSees DEF w
  <2>2. w.pc = "look" /\ file' = file
    BY <1>6 DEF Peek, At, Keeps, w
  <2> QED
    BY <1>4, <2>1, <2>2
<1>7. CASE Rearm(p)
  <2> DEFINE mem == [file EXCEPT !.presented = @ \ file.delivered]
             x == [w EXCEPT !.pc = "look", !.verify = TRUE, !.mem = file]
             y == [w EXCEPT !.pc = "rearmW", !.mem = mem]
  <2>1. file' = file /\ (Becomes(p, x) \/ Becomes(p, y))
    BY <1>7 DEF Rearm, At, w
  <2>2. x.mem = file /\ y.pc = "rearmW"
    BY <1>0 DEF Waiters
  <2> HIDE DEF x, y
  <2> QED
    BY <1>2, <1>3, <2>1, <2>2
<1>8. CASE RearmWrites(p)
  <2> DEFINE x == [w EXCEPT !.pc = "look", !.verify = TRUE]
  <2>1. file' = w.mem /\ Becomes(p, x)
    BY <1>8 DEF RearmWrites, Save, w
  <2>2. x.mem = w.mem
    BY <1>0 DEF Waiters
  <2> HIDE DEF x
  <2> QED
    BY <1>3, <2>1, <2>2
<1>9. CASE ~(Top(p) \/ Peek(p) \/ Rearm(p) \/ RearmWrites(p))
  <2> SUFFICES wait'[p].pc \notin {"look", "commit"}
    BY DEF Alone
  <2>1. CASE Quits(p) \/ LooksInVain(p) \/ ClearWrites(p) \/ PidCleared(p)
    BY <1>0, <1>1, <2>1 DEF Quits, LooksInVain, ClearWrites, PidCleared, Becomes, w
  <2>2. CASE CallFails(p)
    <3>1. [Idle(w) EXCEPT !.errors = @ + 1].pc = "top"
      BY <1>0 DEF Waiters
    <3> QED
      BY <1>0, <2>2, <3>1 DEF CallFails, Becomes, w
  <2>3. CASE Commit(p) \/ CommitWrites(p)
    <3> DEFINE fresh == IF w.look.any THEN Merged(file, w.look, w.conn) ELSE Swept(file, w.look)
               targets == IF ~w.look.any /\ fresh # file THEN fresh.delivered ELSE w.targets
               v == [w EXCEPT !.pc = "commitW", !.mem = fresh, !.targets = IF w.verify THEN @ ELSE targets]
    <3>1. Becomes(p, Leaving(w)) \/ Becomes(p, Decided(w, p)) \/ Becomes(p, v)
      BY <2>3 DEF Commit, CommitWrites, w
    <3>2. v.pc = "commitW" /\ Decided(w, p).pc \in {"top", "trigger", "prompt", "stale"}
      BY <1>0, DecidedIs DEF Waiters
    <3> HIDE DEF v
    <3> QED
      BY <1>0, <3>1, <3>2 DEF Becomes
  <2>4. CASE Trigger(p)
    <3> DEFINE idle == [Idle(w) EXCEPT !.retry = TRUE]
               v == [w EXCEPT !.pc = IF w.owed THEN "rearm" ELSE "prompt"]
    <3>1. Becomes(p, Leaving(w)) \/ Becomes(p, idle) \/ Becomes(p, v)
      BY <2>4 DEF Trigger, w
    <3>2. idle.pc = "top" /\ v.pc \in {"rearm", "prompt"}
      BY <1>0 DEF Waiters
    <3> HIDE DEF idle, v
    <3> QED
      BY <1>0, <3>1, <3>2 DEF Becomes
  <2>5. CASE Clears(p)
    <3> DEFINE y == [w EXCEPT !.pc = "staleW", !.mem = [file EXCEPT !.delivered = @ \ w.targets]]
    <3>1. Becomes(p, Idle(w)) \/ Becomes(p, y)
      BY <2>5 DEF Clears, w
    <3>2. y.pc = "staleW"
      BY <1>0 DEF Waiters
    <3> HIDE DEF y
    <3> QED
      BY <1>0, <3>1, <3>2 DEF Becomes
  <2>6. CASE Prompts(p)
    <3> DEFINE x == [Idle(w) EXCEPT !.tries = @ + 1, !.retry = TRUE]
               y == [w EXCEPT !.pc = "done", !.mem = NoFile, !.look = NoLook, !.conn = NoConn]
    <3>1. Becomes(p, Leaving(w)) \/ Becomes(p, x) \/ Becomes(p, y)
      BY <2>6 DEF Prompts, w
    <3>2. x.pc = "top" /\ y.pc = "done"
      BY <1>0 DEF Waiters
    <3> HIDE DEF x, y
    <3> QED
      BY <1>0, <3>1, <3>2 DEF Becomes
  <2>7. CASE ClearsPid(p)
    <3> DEFINE y(pc) == [w EXCEPT !.mem = [file EXCEPT !.pid = NoPid], !.pc = pc]
    <3>1. \/ Becomes(p, Leaving(w)) \/ Becomes(p, NoWaiter)
          \/ Becomes(p, y("doneW")) \/ Becomes(p, y("byeW"))
      BY <2>7 DEF ClearsPid, w
    <3>2. y("doneW").pc = "doneW" /\ y("byeW").pc = "byeW"
      BY <1>0 DEF Waiters
    <3> HIDE DEF y
    <3> QED
      BY <1>0, <1>1, <3>1, <3>2 DEF Becomes
  <2> QED
    BY <1>9, <2>1, <2>2, <2>3, <2>4, <2>5, <2>6, <2>7 DEF WaiterStep
<1> QED
  BY <1>5, <1>6, <1>7, <1>8, <1>9

\* What a step of the others does to p: nothing, an event that wakes it, its end or its start.
Bystands(p) ==
  \/ wait'[p] = wait[p]
  \/ wait'[p].pc \in {"off", "top"} /\ wait'[p].conn = NoConn
  \/ wait' = Pushed

LEMMA OthersBystand ==
  ASSUME Sound, Gated, HookInTurn, Timely, Distinct, Histories, ~hist'.lost, [Next]_vars, NEW p \in Pids
  PROVE  \/ WaiterStep(p) \/ Quits(p) \/ CallFails(p)
         \/ FileKeeps(p) /\ Bystands(p)
<1>0. wait \in [Pids -> Waiters] /\ NoWaiter.pc = "off" /\ NoWaiter.conn = NoConn
  BY DEF Sound, NoWaiter
<1>1. CASE UNCHANGED vars
  BY <1>1, SameFileKeeps DEF vars, Bystands
<1>2. CASE TurnBegins \/ TurnEnds \/ Aborts \/ HookStep
  <2>1. FileKeeps(p)
    BY <1>2, HookKeepsFile
  <2>2. CASE Spawns
    <3>1. UNCHANGED wait \/ \E q \in Free : Started(q, hook.mem.epoch)
      BY <2>2 DEF Spawns
    <3>2. CASE UNCHANGED wait
      BY <2>1, <3>2 DEF Bystands
    <3>3. ASSUME NEW q \in Free, Started(q, hook.mem.epoch)
          PROVE  Bystands(p)
      <4> DEFINE new == [NoWaiter EXCEPT !.pc = "top", !.epoch = hook.mem.epoch]
      <4>1. wait' = [wait EXCEPT ![q] = new]
        BY <3>3 DEF Started
      <4>2. new.pc = "top" /\ new.conn = NoConn
        BY DEF NoWaiter
      <4> HIDE DEF new
      <4> QED
        BY <1>0, <4>1, <4>2 DEF Bystands
    <3> QED
      BY <2>1, <3>1, <3>2, <3>3
  <2> QED
    BY <1>2, <2>1, <2>2, HookRests DEF Bystands
<1>3. CASE RearmStep \/ \E killed \in BOOLEAN : Restarts(killed)
  <2>1. FileKeeps(p)
    BY <1>3, DaemonKeepsFile
  <2>2. CASE Respawns
    <3>1. \E q \in Free : Started(q, rearm.epoch)
      BY <2>2 DEF Respawns
    <3> QED
      BY <1>0, <2>1, <3>1 DEF Started, NoWaiter, Bystands
  <2>3. CASE ~Respawns
    <3>1. wait'[p] = wait[p] \/ wait'[p] = NoWaiter
      BY <1>0, <1>3, <2>3 DEF RearmStep, Scans, Matches, PidDropped, PidRecorded, Writes, Records, Restarts,
                              Becomes
    <3> QED
      BY <1>0, <2>1, <3>1 DEF Bystands
  <2> QED
    BY <2>2, <2>3
<1>4. ASSUME NEW q \in Pids, WaiterStep(q) \/ Quits(q) \/ CallFails(q), q # p
      PROVE  FileKeeps(p) /\ Bystands(p)
  BY <1>4, WaiterKeepsFile, WaiterContinues DEF Bystands
<1>5. CASE \/ \E k \in Kinds, t \in Terminals, busy \in BOOLEAN : Publish(k, t, busy)
           \/ OwnerMoves \/ (\E t \in Terminals : PeerIdle(t) \/ PeerLeaves(t))
           \/ \E e \in Events : RowMoves(e)
  <2>1. file' = file /\ (wait' = wait \/ wait' = Pushed)
    BY <1>5 DEF Publish, OwnerMoves, PeerIdle, PeerLeaves, RowMoves
  <2> QED
    BY <2>1, SameFileKeeps DEF Bystands
<1> QED
  BY <1>1, <1>2, <1>3, <1>4, <1>5, Steps

LEMMA SoleStays ==
  ASSUME Sound, OneGate, hist.lost \/ Timely, Apart, hist.lost \/ hist.twins \/ Sole, [Next]_vars
  PROVE  (hist.lost \/ hist.twins \/ Sole)'
<1>1. SUFFICES ASSUME ~hist'.lost, ~hist'.twins PROVE Sole'
  OBVIOUS
<1>2. Histories /\ HookInTurn /\ Gated /\ Timely /\ Distinct /\ Sole
  BY <1>1, HistoriesGrow DEF OneGate, Remembers, Apart
<1>3. ASSUME NEW p \in Pids PROVE Alone(p)'
  <2>1. CASE WaiterStep(p) \/ Quits(p) \/ CallFails(p)
    BY <1>2, <2>1, WaiterAlone DEF Sole
  <2>2. CASE FileKeeps(p) /\ Bystands(p)
    BY <1>2, <2>2, AloneKept DEF Sole, Bystands, Sound
  <2> QED
    BY <1>1, <1>2, <2>1, <2>2, OthersBystand
<1> QED
  BY <1>3 DEF Sole

LEMMA AlwaysSole == Spec => [](hist.lost \/ hist.twins \/ Sole)
<1>1. Init => Sole
  BY DEF Init, Sole, Alone, NoWaiter
<1>2. /\ Sound /\ OneGate /\ (hist.lost \/ Timely) /\ Apart /\ (hist.lost \/ hist.twins \/ Sole)
      /\ [Next]_vars
      => (hist.lost \/ hist.twins \/ Sole)'
  BY SoleStays
<1> QED
  BY <1>1, <1>2, AlwaysSound, AlwaysOneGate, AlwaysTimely, AlwaysApart, PTL DEF Spec

----------------------------------------------------------------------------
(* The agent is not woken for nothing *)

\* What a waiter that is still current is about to prompt for is out of reach of what
\* the file presents, whatever it has merged into it, written or rearmed.
Seeing(w, s) ==
  w.epoch = s.epoch =>
    /\ w.pc \in {"look", "commit"} => s.presented \subseteq w.mem.presented
    /\ w.pc = "commit" /\ w.look.outs => w.look.any /\ Finds(w, w.mem.presented \cup w.look.pres)
    /\ w.pc = "commitW" /\ w.look.outs => Finds(w, w.mem.presented)
    /\ w.pc = "trigger" => w.owed \/ Finds(w, s.presented)
    /\ w.pc = "prompt" => Finds(w, s.presented)
AllSee == \A p \in Pids : Seeing(wait[p], file)

LEMMA SeesOn ==
  ASSUME Persists, NEW p \in Pids, NEW v, NEW s, Seeing(v, s), wait'[p] = v, file' = s
  PROVE  Seeing(wait[p], file)'
<1>1. \A S : Finds(v, S) => Finds(v, S)'
  BY DEF Finds, Persists
<1>2. Seeing(v, s)'
  BY <1>1 DEF Seeing
<1> QED
  BY <1>2 DEF Seeing, Finds

\* What others do leaves p under way with no more presented than before.
LEMMA BystanderSees ==
  ASSUME NEW p \in Pids, Seeing(wait[p], file), FileKeeps(p), Bystands(p), wait \in [Pids -> Waiters]
  PROVE  Seeing(wait'[p], file')
<1> DEFINE w == wait[p]
           v == wait'[p]
<1>1. CASE v.pc \in {"off", "top"}
  BY <1>1 DEF Seeing
<1>2. CASE wait'[p] = wait[p] \/ wait' = Pushed
  <2>1. v = w \/ v = [w EXCEPT !.push = TRUE]
    BY <1>2 DEF Pushed
  <2>2. w \in Waiters
    OBVIOUS
  <2>3. /\ v.pc = w.pc /\ v.epoch = w.epoch /\ v.mem = w.mem /\ v.conn = w.conn /\ v.look = w.look
        /\ v.owed = w.owed
    BY <2>1, <2>2 DEF Waiters
  <2>4. SUFFICES ASSUME Under(p), w.epoch = file'.epoch PROVE Seeing(v, file')
    BY <2>3 DEF Seeing, Under, UnderPlaces
  <2>5. w.epoch = file.epoch /\ file'.presented \subseteq file.presented
    BY <2>4 DEF FileKeeps
  <2>6. \A S, R : R \subseteq S /\ Finds(w, S) => Finds(v, R)
    BY <2>3 DEF Finds
  <2> HIDE DEF v, w
  <2> QED
    BY <2>3, <2>5, <2>6 DEF Seeing, w
<1> QED
  BY <1>1, <1>2 DEF Bystands

\* What its second read leaves to write does not present what it has found.
LEMMA MergedPresents ==
  ASSUME NEW s \in Files, NEW l \in Looks, NEW c, NEW S, s.presented \subseteq S
  PROVE  Merged(s, l, c).presented \subseteq S \cup l.pres
<1> DEFINE m == Merged(s, l, c)
<1>1. m.presented = Unacked(s, c) \cup l.pres
  BY DEF Merged, Files
<1> QED
  BY <1>1, UnackedIs

\* What a waiter decides, by what it saw.
LEMMA DecidedFinds ==
  ASSUME NEW w \in Waiters, NEW p
  PROVE  /\ Decided(w, p).pc \in {"trigger", "prompt"} => Decided(w, p).conn = w.conn
         /\ Decided(w, p).pc = "trigger" => Decided(w, p).owed \/ w.look.outs
         /\ Decided(w, p).pc = "prompt" => w.look.outs
<1> DEFINE retry == w.look.deferred # {}
           v == [w EXCEPT !.check = FALSE, !.push = FALSE, !.errors = 0, !.retry = retry]
           next == IF w.look.outs THEN "prompt" ELSE "stale"
           a == [w EXCEPT !.pc = next]
           b == [Idle(v) EXCEPT !.grace = TRUE]
           c == [v EXCEPT !.pc = "trigger", !.grace = FALSE]
<1>1. \/ w.verify /\ Decided(w, p) = a
      \/ Decided(w, p) = b \/ Decided(w, p) = Idle(v)
      \/ Decided(w, p) = c /\ (w.owed \/ w.look.outs)
  BY DEF Decided
<1>2. retry \in BOOLEAN
  OBVIOUS
<1> HIDE DEF retry
<1>3. /\ a.pc = next /\ a.conn = w.conn
      /\ v \in Waiters /\ v.conn = w.conn /\ v.owed = w.owed
  BY <1>2 DEF Waiters
<1> HIDE DEF v
<1>4. Idle(v) \in Waiters /\ Idle(v).pc = "top"
  BY <1>3, IdleIs
<1>5. b.pc = "top" /\ c.pc = "trigger" /\ c.conn = v.conn /\ c.owed = v.owed
  BY <1>3, <1>4 DEF Waiters
<1> HIDE DEF a, b, c
<1> QED
  BY <1>1, <1>3, <1>4, <1>5

\* p's own step: what it reads is the file, and what it writes presents no more than
\* what it saw and has seen acknowledged.
LEMMA WaiterSees ==
  ASSUME Sound, Gated, Histories, ~hist'.lost, NEW p \in Pids, Seeing(wait[p], file),
         WaiterStep(p) \/ Quits(p) \/ CallFails(p)
  PROVE  Seeing(wait'[p], file')
<1> DEFINE w == wait[p]
<1>0. /\ w \in Waiters /\ file \in Files /\ Idle(w).pc = "top" /\ Leaving(w).pc = "exit"
      /\ Idle(w) \in Waiters /\ wait \in [Pids -> Waiters]
  BY WaiterIs, IdleIs DEF Sound
<1>1. ASSUME NEW v, Becomes(p, v) PROVE wait'[p] = v
  BY <1>0, <1>1 DEF Becomes
<1>2. ASSUME NEW v, Becomes(p, v), v.pc \notin {"look", "commit", "commitW", "trigger", "prompt"}
      PROVE  Seeing(wait'[p], file')
  BY <1>1, <1>2 DEF Seeing
<1>3. ASSUME NEW v, Becomes(p, v), v.pc = "look", v.mem = file' PROVE Seeing(wait'[p], file')
  BY <1>1, <1>3 DEF Seeing
<1>4. Seeing(w, file)
  OBVIOUS
<1>5. NoWaiter.pc = "off"
  BY DEF NoWaiter
<1> HIDE DEF w
<1>6. CASE Top(p)
  <2> DEFINE look == [w EXCEPT !.pc = "look", !.mem = file, !.first = FALSE, !.owed = file.delivered # {},
                               !.targets = file.delivered]
             idle == [Idle(w) EXCEPT !.errors = 0]
  <2>1. (Becomes(p, Leaving(w)) \/ Becomes(p, look) \/ Becomes(p, idle)) /\ file' = file
    BY <1>6 DEF Top, Keeps, w
  <2>2. look.mem = file /\ look.pc = "look" /\ idle.pc = "top"
    BY <1>0 DEF Waiters
  <2> HIDE DEF look, idle
  <2> QED
    BY <1>0, <1>2, <1>3, <2>1, <2>2
<1>7. CASE Peek(p)
  <2>1. PICK v \in Waiters :
          /\ Becomes(p, v)
          /\ v.pc = "commit" /\ v.epoch = w.epoch /\ v.mem = w.mem
          /\ v.look.outs => v.look.any /\ Finds(v, v.mem.presented \cup v.look.pres)
    BY <1>7, PeekSees DEF w
  <2>2. w.pc = "look" /\ file' = file
    BY <1>7 DEF Peek, At, Keeps, w
  <2> QED
    BY <1>1, <1>4, <2>1, <2>2 DEF Seeing
<1>8. CASE Commit(p)
  <2> DEFINE fresh == IF w.look.any THEN Merged(file, w.look, w.conn) ELSE Swept(file, w.look)
             targets == IF ~w.look.any /\ fresh # file THEN fresh.delivered ELSE w.targets
             v == [w EXCEPT !.pc = "commitW", !.mem = fresh, !.targets = IF w.verify THEN @ ELSE targets]
             d == Decided(w, p)
  <2>1. /\ w.pc = "commit" /\ file' = file
        /\ Becomes(p, Leaving(w)) \/ (Becomes(p, d) /\ ~w.look.any) \/ Becomes(p, v)
    BY <1>8 DEF Commit, At, w
  <2>2. /\ v.pc = "commitW" /\ v.epoch = w.epoch /\ v.mem = fresh /\ v.conn = w.conn /\ v.look = w.look
    BY <1>0 DEF Waiters
  <2>3. /\ d.pc \in {"top", "trigger", "prompt", "stale"} /\ d.epoch = w.epoch
        /\ d.pc = "trigger" => d.owed \/ w.look.outs
        /\ d.pc = "prompt" => w.look.outs
    BY <1>0, DecidedIs, DecidedFinds
  <2> HIDE DEF v, d
  <2>4. CASE Becomes(p, d) /\ ~w.look.any
    BY <1>1, <1>4, <2>1, <2>3, <2>4 DEF Seeing
  <2>5. CASE Becomes(p, v)
    <3> SUFFICES ASSUME w.epoch = file.epoch, w.look.outs PROVE Finds(v, fresh.presented)
      BY <1>1, <2>1, <2>2, <2>5 DEF Seeing
    <3>1. /\ file.presented \subseteq w.mem.presented /\ w.look.any
          /\ Finds(w, w.mem.presented \cup w.look.pres)
      BY <1>4, <2>1 DEF Seeing
    <3>2. w.look \in Looks
      BY <1>0 DEF Waiters
    <3>3. fresh.presented \subseteq w.mem.presented \cup w.look.pres
      BY <1>0, <3>1, <3>2, MergedPresents
    <3> HIDE DEF fresh
    <3> QED
      BY <2>2, <3>1, <3>3 DEF Finds
  <2> QED
    BY <1>0, <1>2, <2>1, <2>4, <2>5
<1>9. ASSUME WClobber(p), Save(p, w.mem) PROVE p \notin stale /\ file' = w.mem
  BY <1>9, NotLost DEF WClobber, Save
<1>10. CASE CommitWrites(p)
  <2> DEFINE d == Decided(w, p)
  <2>1. w.pc = "commitW" /\ Save(p, w.mem) /\ WClobber(p) /\ Becomes(p, d)
    BY <1>10 DEF CommitWrites, At, w
  <2>2. p \notin stale /\ file' = w.mem
    BY <1>9, <2>1
  <2>3. file'.epoch = file.epoch
    BY <2>1, <2>2 DEF Gated, WaiterFresh, SameGen, w
  <2>4. /\ d.pc \in {"top", "trigger", "prompt", "stale"} /\ d.epoch = w.epoch
        /\ d.pc \in {"trigger", "prompt"} => d.conn = w.conn
        /\ d.pc = "trigger" => d.owed \/ w.look.outs
        /\ d.pc = "prompt" => w.look.outs
    BY <1>0, DecidedIs, DecidedFinds
  <2> HIDE DEF d
  <2>5. (w.epoch = file.epoch /\ w.look.outs) => Finds(w, w.mem.presented)
    BY <1>4, <2>1 DEF Seeing
  <2> QED
    BY <1>1, <2>1, <2>2, <2>3, <2>4, <2>5 DEF Seeing, Finds
<1>11. CASE Trigger(p)
  <2> DEFINE idle == [Idle(w) EXCEPT !.retry = TRUE]
             v == [w EXCEPT !.pc = IF w.owed THEN "rearm" ELSE "prompt"]
  <2>1. /\ w.pc = "trigger" /\ file' = file
        /\ Becomes(p, Leaving(w)) \/ Becomes(p, idle) \/ Becomes(p, v)
    BY <1>11 DEF Trigger, At, Keeps, w
  <2>2. /\ idle.pc = "top" /\ v.epoch = w.epoch /\ v.conn = w.conn
        /\ v.pc = IF w.owed THEN "rearm" ELSE "prompt"
    BY <1>0 DEF Waiters
  <2> HIDE DEF idle, v
  <2>3. CASE Becomes(p, v)
    <3>1. (w.epoch = file.epoch /\ ~w.owed) => Finds(v, file.presented)
      BY <1>4, <2>1, <2>2 DEF Seeing, Finds
    <3> QED
      BY <1>1, <2>1, <2>2, <2>3, <3>1 DEF Seeing
  <2> QED
    BY <1>0, <1>2, <2>1, <2>2, <2>3
<1>12. CASE Rearm(p)
  <2> DEFINE mem == [file EXCEPT !.presented = @ \ file.delivered]
             x == [w EXCEPT !.pc = "look", !.verify = TRUE, !.mem = file]
             y == [w EXCEPT !.pc = "rearmW", !.mem = mem]
  <2>1. file' = file /\ (Becomes(p, x) \/ Becomes(p, y))
    BY <1>12 DEF Rearm, At, w
  <2>2. x.pc = "look" /\ x.mem = file /\ y.pc = "rearmW"
    BY <1>0 DEF Waiters
  <2> HIDE DEF x, y
  <2> QED
    BY <1>2, <1>3, <2>1, <2>2
<1>13. CASE RearmWrites(p)
  <2> DEFINE x == [w EXCEPT !.pc = "look", !.verify = TRUE]
  <2>1. Save(p, w.mem) /\ Becomes(p, x)
    BY <1>13 DEF RearmWrites, w
  <2>2. x.pc = "look" /\ x.mem = w.mem
    BY <1>0 DEF Waiters
  <2> HIDE DEF x
  <2> QED
    BY <1>3, <2>1, <2>2 DEF Save
<1>14. CASE CallFails(p)
  <2> DEFINE idle == [Idle(w) EXCEPT !.errors = @ + 1]
  <2>1. Becomes(p, Leaving(w)) \/ Becomes(p, idle)
    BY <1>14 DEF CallFails, w
  <2>2. idle.pc = "top"
    BY <1>0 DEF Waiters
  <2> HIDE DEF idle
  <2> QED
    BY <1>0, <1>2, <2>1, <2>2
<1>15. CASE Quits(p) \/ LooksInVain(p) \/ ClearWrites(p) \/ PidCleared(p)
  BY <1>0, <1>2, <1>5, <1>15 DEF Quits, LooksInVain, ClearWrites, PidCleared, w
<1>16. CASE Clears(p)
  <2> DEFINE y == [w EXCEPT !.pc = "staleW", !.mem = [file EXCEPT !.delivered = @ \ w.targets]]
  <2>1. Becomes(p, Idle(w)) \/ Becomes(p, y)
    BY <1>16 DEF Clears, w
  <2>2. y.pc = "staleW"
    BY <1>0 DEF Waiters
  <2> HIDE DEF y
  <2> QED
    BY <1>0, <1>2, <2>1, <2>2
<1>17. CASE Prompts(p)
  <2> DEFINE x == [Idle(w) EXCEPT !.tries = @ + 1, !.retry = TRUE]
             y == [w EXCEPT !.pc = "done", !.mem = NoFile, !.look = NoLook, !.conn = NoConn]
  <2>1. Becomes(p, Leaving(w)) \/ Becomes(p, x) \/ Becomes(p, y)
    BY <1>17 DEF Prompts, w
  <2>2. x.pc = "top" /\ y.pc = "done"
    BY <1>0 DEF Waiters
  <2> HIDE DEF x, y
  <2> QED
    BY <1>0, <1>2, <2>1, <2>2
<1>18. CASE ClearsPid(p)
  <2> DEFINE y(pc) == [w EXCEPT !.mem = [file EXCEPT !.pid = NoPid], !.pc = pc]
  <2>1. \/ Becomes(p, Leaving(w)) \/ Becomes(p, NoWaiter)
        \/ Becomes(p, y("doneW")) \/ Becomes(p, y("byeW"))
    BY <1>18 DEF ClearsPid, w
  <2>2. y("doneW").pc = "doneW" /\ y("byeW").pc = "byeW"
    BY <1>0 DEF Waiters
  <2> HIDE DEF y
  <2> QED
    BY <1>0, <1>2, <1>5, <2>1, <2>2
<1> QED
  BY <1>6, <1>7, <1>8, <1>10, <1>11, <1>12, <1>13, <1>14, <1>15, <1>16, <1>17, <1>18 DEF WaiterStep

LEMMA AllSeeStays ==
  ASSUME Sound, Sound', OneGate, hist.lost \/ Timely, Apart, hist.lost \/ hist.twins \/ AllSee, [Next]_vars
  PROVE  (hist.lost \/ hist.twins \/ AllSee)'
<1>1. SUFFICES ASSUME ~hist'.lost, ~hist'.twins PROVE AllSee'
  OBVIOUS
<1>2. /\ Histories /\ HookInTurn /\ Gated /\ Timely /\ Distinct /\ AllSee /\ Persists
      /\ wait \in [Pids -> Waiters]
  BY <1>1, HistoriesGrow, RowsMove DEF OneGate, Remembers, Apart, Sound
<1>3. ASSUME NEW p \in Pids PROVE Seeing(wait[p], file)'
  <2>1. Seeing(wait'[p], file')
    <3>1. CASE WaiterStep(p) \/ Quits(p) \/ CallFails(p)
      BY <1>1, <1>2, <3>1, WaiterSees DEF AllSee
    <3>2. CASE FileKeeps(p) /\ Bystands(p)
      BY <1>2, <3>2, BystanderSees DEF AllSee
    <3> QED
      BY <1>1, <1>2, <3>1, <3>2, OthersBystand
  <2> QED
    BY <1>2, <2>1, SeesOn
<1> QED
  BY <1>3 DEF AllSee

LEMMA AlwaysAllSee == Spec => [](hist.lost \/ hist.twins \/ AllSee)
<1>1. Init => AllSee
  BY DEF Init, AllSee, Seeing, NoWaiter
<1>2. /\ Sound /\ Sound' /\ OneGate /\ (hist.lost \/ Timely) /\ Apart
      /\ (hist.lost \/ hist.twins \/ AllSee) /\ [Next]_vars
      => (hist.lost \/ hist.twins \/ AllSee)'
  BY AllSeeStays
<1> QED
  BY <1>1, <1>2, AlwaysSound, AlwaysOneGate, AlwaysTimely, AlwaysApart, PTL DEF Spec

\* A waiter that is still the current one prompts the agent only for an event that was
\* not acknowledged when it looked and that the file does not present: between its look
\* and its prompt it merges what it saw into a file that may have changed, rearms the
\* batch that was dropped and looks again (peekNextWakeBatch, rearmDeliveredEvents), and
\* no hook, no other waiter and no restart of the daemon presents in between what it is
\* about to prompt for.
THEOREM WakesForSomethingAlways == Spec => WakesForSomething
<1>1. ASSUME Sound, OneGate, hist.lost \/ hist.twins \/ AllSee
      PROVE  [\A p \in Pids :
                (/\ At(p, "prompt") /\ wait'[p].pc = "done"
                 /\ ~Superseded(file, p) /\ ~hist.lost /\ ~hist.twins)
                => \E e \in Events : /\ e > wait[p].conn.at /\ row[e].st # "none"
                                     /\ e \notin file.presented]_vars
  <2> SUFFICES ASSUME Gated, AllSee, NEW p \in Pids, At(p, "prompt"), ~Superseded(file, p)
               PROVE  \E e \in Events : /\ e > wait[p].conn.at /\ row[e].st # "none"
                                        /\ e \notin file.presented
    BY <1>1 DEF OneGate
  <2>1. wait[p].epoch = file.epoch
    BY <1>1, LastLook DEF At, Waits, Current
  <2>2. Seeing(wait[p], file)
    BY DEF AllSee
  <2> QED
    BY <2>1, <2>2 DEF At, Seeing, Finds, Published
<1> QED
  BY <1>1, AlwaysSound, AlwaysOneGate, AlwaysAllSee, PTL DEF WakesForSomething
=============================================================================
