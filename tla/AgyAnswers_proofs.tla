-------------------------- MODULE AgyAnswers_proofs --------------------------
(* No answer is acknowledged before the agent has seen it (NothingSwallowed), for
   any number of terminals, waiters, turns and failures.

   The daemon settles everything up to the event it is told, so an acknowledgement
   is safe when no awaited event is below it, and what a process may acknowledge it
   reads in its copy of the session file: it has to find there what it must not pass
   over.  Mindful says so of a copy: an awaited event that is presented is delivered,
   and is retained if anything behind it is.

   What is retained is limited (retainedCandidateEventLimit), so a copy alone does not
   hold all it must not pass over: the daemon's list does, as long as it is not older
   than what it is looked at with (Covers).  Only what has left the list has to be
   retained, and the limit never cuts it off, because it was retained with Room before
   and nothing that was listed later comes below it.

   A waiter mixes two copies when it writes: what it saw, and the file as it is then.
   That is sound because nobody else has changed what it saw of its own turn (Sole),
   which takes both excuses of the property: no write was lost, and no turn has had
   two waiters. *)
EXTENDS AgyTurns_proofs, FiniteSetTheorems

\* A transcript can be read; without it the hook acknowledges what it has handed out.
Readable == FALSE \notin Transcripts

\* What is published is a prefix of the events, and so is what is acknowledged.
Ordered ==
  /\ cursor = 0 \/ (cursor \in Events /\ Published(cursor))
  /\ \A e, f \in Events : f < e /\ Published(e) => Published(f)

\* Before the first claim there is nothing to acknowledge, in no copy.
Empty(s) == s.presented = {} /\ s.delivered = {} /\ s.pending = {} /\ s.kept = {}
BlankHook(h) ==
  /\ Empty(h.mem) /\ h.conn.list = {} /\ h.conn.owner # "self"
  /\ h.pc \notin {"take", "spawn", "pidW", "give"}
BlankWaiter(w) ==
  /\ w.pc \in {"off", "top", "look", "exit", "byeW"} /\ ~w.verify
  /\ Empty(w.mem) /\ w.conn = NoConn
Unclaimed ==
  /\ \A e \in Events : row[e].st \notin {"delivered", "aged"}
  /\ Empty(file) /\ BlankHook(hook) /\ Empty(rearm.mem)
  /\ \A p \in Pids : BlankWaiter(wait[p])
Blank == owner = "none" => Unclaimed

----------------------------------------------------------------------------
(* Sets of events *)

LEMMA EventsAre == Events \subseteq Nat \ {0} /\ \A e \in Events : e <= MaxEvent
BY AgyAssumption DEF Events

LEMMA EventsFinite == IsFiniteSet(Events) /\ Cardinality(Events) = MaxEvent
<1>1. MaxEvent \in Nat
  BY AgyAssumption
<1> QED
  BY <1>1, FS_Interval DEF Events

\* The limit on what is retained has room for f and what is below it in X.
Fits(X, f) == Cardinality({x \in X : x < f}) < KeepLimit

LEMMA FitsLess ==
  ASSUME NEW f, NEW g, NEW X, NEW Y \in SUBSET Events, \A x \in X : x < f => x \in Y /\ x < g, Fits(Y, g)
  PROVE  Fits(X, f)
<1> DEFINE A == {x \in X : x < f}
           B == {x \in Y : x < g}
<1>1. A \subseteq B /\ B \subseteq Events
  OBVIOUS
<1>2. Cardinality(B) < KeepLimit
  BY DEF Fits
<1> HIDE DEF A, B
<1>3. IsFiniteSet(B)
  BY <1>1, EventsFinite, FS_Subset
<1>4. IsFiniteSet(A) /\ Cardinality(A) <= Cardinality(B)
  BY <1>1, <1>3, FS_Subset
<1>5. Cardinality(A) \in Nat /\ Cardinality(B) \in Nat
  BY <1>3, <1>4, FS_CardinalityType
<1>6. Cardinality(A) < KeepLimit
  BY <1>2, <1>4, <1>5, AgyAssumption
<1> QED
  BY <1>6 DEF A, Fits

\* What is retained of X fits, and with an event all of X that is below it.
LEMMA LowestFits ==
  ASSUME NEW X \in SUBSET Events
  PROVE  /\ Lowest(KeepLimit, X) \subseteq X
         /\ \A f \in X : f \in Lowest(KeepLimit, X) <=> Fits(X, f)
         /\ \A g \in Lowest(KeepLimit, X), f \in X : f <= g => f \in Lowest(KeepLimit, X)
<1>1. /\ Lowest(KeepLimit, X) \subseteq X
      /\ \A f \in X : f \in Lowest(KeepLimit, X) <=> Fits(X, f)
  BY DEF Lowest, Fits
<1>2. ASSUME NEW g \in Lowest(KeepLimit, X), NEW f \in X, f <= g PROVE f \in Lowest(KeepLimit, X)
  <2>1. g \in X /\ Fits(X, g)
    BY <1>1
  <2>2. \A x \in X : x < f => x < g
    BY <1>2, <2>1, EventsAre
  <2>3. Fits(X, f)
    BY <2>1, <2>2, FitsLess
  <2> QED
    BY <1>1, <2>3
<1> QED
  BY <1>1, <1>2

\* The first of a set of events.
LEMMA LowestIsFirst ==
  ASSUME NEW S \in SUBSET Events, NEW e \in Lowest(1, S)
  PROVE  e \in S /\ \A f \in S : e <= f
<1> DEFINE B == {f \in S : f < e}
<1>1. e \in S /\ Cardinality(B) < 1
  BY DEF Lowest
<1>2. IsFiniteSet(B)
  BY EventsFinite, FS_Subset
<1>3. B = {}
  <2> HIDE DEF B
  <2>1. Cardinality(B) \in Nat
    BY <1>2, FS_CardinalityType
  <2>2. Cardinality(B) = 0
    BY <1>1, <2>1
  <2> QED
    BY <1>2, <2>2, FS_EmptySet
<1>4. \A f \in S : ~(f < e)
  BY <1>3
<1> QED
  BY <1>1, <1>4, EventsAre

\* An acknowledgement moves the cursor to one of what was sent, or not at all.
LEMMA AckedToIs ==
  ASSUME cursor \in Nat, NEW S \in SUBSET Events
  PROVE  AckedTo(S) = cursor \/ (AckedTo(S) \in S /\ cursor < AckedTo(S))
<1> DEFINE ok == {e \in S : Answer(e) = "ok" /\ e > cursor}
<1>1. CASE ok = {}
  BY <1>1 DEF AckedTo
<1>2. CASE ok # {}
  <2>1. \E x \in ok : \A y \in ok : y <= x
    BY <1>2, LastExists
  <2>2. AckedTo(S) = CHOOSE x \in ok : \A y \in ok : y <= x
    BY <1>2 DEF AckedTo
  <2> HIDE DEF ok
  <2>3. AckedTo(S) \in ok
    BY <2>1, <2>2
  <2> QED
    BY <2>3 DEF ok
<1> QED
  BY <1>1, <1>2

\* One who does not own the workspace has his first acknowledgement refused.
LEMMA CutsRefuse ==
  ASSUME owner # "self", NEW q, NEW S \in SUBSET Events, NEW cut \in Cuts(q, S)
  PROVE  IF S = {} THEN cut = 0 ELSE cut \in S /\ \A e \in S : cut <= e
<1>1. CASE S = {}
  BY <1>1 DEF Cuts
<1>2. CASE S # {}
  BY <1>2, LowestIsFirst DEF Cuts
<1> QED
  BY <1>1, <1>2

\* So he acknowledges nothing.
LEMMA RefusedSettling ==
  ASSUME owner # "self", NEW q, NEW S \in SUBSET Events, NEW H \in SUBSET Events,
         NEW cut \in Cuts(q, S)
  PROVE  Settling(S, H, cut).done = {}
<1> DEFINE sent == {e \in S : \A h \in H : e <= h}
           failing == {e \in sent : Answer(e) = "order" \/ e = cut}
           done == {e \in sent : \A f \in failing : e < f}
<1>1. Settling(S, H, cut).done = done
  BY DEF Settling
<1>2. ASSUME NEW e \in done PROVE FALSE
  <2>1. S # {} /\ e \in S /\ e \in sent
    BY <1>2
  <2>2. cut \in S /\ cut <= e
    BY <2>1, CutsRefuse
  <2>3. cut \in sent
    BY <2>1, <2>2, EventsAre
  <2>4. e < cut
    BY <1>2, <2>3
  <2> QED
    BY <2>1, <2>2, <2>4, EventsAre
<1> QED
  BY <1>1, <1>2

----------------------------------------------------------------------------
(* What is awaited, and what a look makes of it *)

LEMMA AwaitedIs ==
  ASSUME NEW f \in Events, Awaited(f)
  PROVE  /\ Published(f) /\ f \notin told /\ row[f].st \notin {"void", "gone"}
         /\ row[f].term \in live /\ row[f].kind \in {"completed", "failed"}
         /\ \A g \in Events : ~(g > f /\ SamePane(f, g) /\ Published(g) /\ row[g].kind = "completed")
BY DEF Awaited, Moot, IsResult, Published

\* projectAgyOutcomes suppresses no event that is awaited: it is an outcome, or
\* deferred while its peer works.
LEMMA AwaitedIsKept ==
  ASSUME NEW C \in SUBSET Events, \A e \in C : Published(e), NEW busy,
         NEW f \in Events, Awaited(f)
  PROVE  /\ f \notin Projection(C, busy).suppressed
         /\ f \in C => f \in Projection(C, busy).deferred \cup Projection(C, busy).outcomes
<1> DEFINE deferred == {e \in C : IsCompletion(e) /\ row[e].term \in busy}
           older == {e \in C : /\ IsCompletion(e)
                               /\ \E g \in C : /\ g > e /\ SamePane(e, g)
                                               /\ row[g].kind = "completed"}
           shadowed == {e \in C : /\ row[e].kind = "fallback"
                                  /\ \E g \in C : IsCompletion(g) /\ SamePane(e, g)}
           mute == {e \in C : row[e].kind \in {"noise", "empty"}}
           suppressed == (older \cup shadowed \cup mute) \ deferred
           P == Projection(C, busy)
<1>1. P.deferred = deferred /\ P.suppressed = suppressed
      /\ P.outcomes = C \ (deferred \cup suppressed)
  BY DEF Projection
<1>2. f \notin older
  BY AwaitedIs
<1>3. f \notin shadowed /\ f \notin mute
  BY AwaitedIs
<1>4. f \notin suppressed
  BY <1>2, <1>3
<1> HIDE DEF deferred, older, shadowed, mute, suppressed, P
<1> QED
  BY <1>1, <1>4 DEF P

\* What a copy has presented and holds no more: no look retains it.
Out(s) == s.presented \ s.delivered
\* What is awaited and retained fits with all that the list L may add below it.
Room(s, L) == \A f \in Events : Awaited(f) /\ f \in s.kept => Fits((s.kept \cup L) \ Out(s), f)
\* An awaited event does not get onto its way to being acknowledged in copy s: it is
\* delivered there if it is presented, it is not pending, and is retained if anything
\* behind it is, or if the daemon no longer lists it.
Mindful(s) ==
  /\ \A e \in s.presented : Published(e)
  /\ \A f \in Events : Awaited(f) =>
       /\ f \in s.presented => f \in s.delivered
       /\ f \notin s.pending
       /\ \A g \in s.kept : f <= g => f \in s.kept
       /\ row[f].st = "aged" => f \in s.kept
  /\ Room(s, Listed)
\* A list of the daemon is above what was acknowledged, and has what is awaited and below
\* anything in it, or that has aged.
Closed(c) ==
  /\ \A e \in c.list : e > c.at
  /\ \A f \in Events : Awaited(f) =>
       \A g \in c.list : f <= g => f \in c.list \/ row[f].st = "aged"
\* Of what is in S, the list L has all that is below and still listed.
Lists(S, L) == \A x \in Listed, g \in S : x <= g => x \in L
\* A list that can be looked at with copy s: it is not older than what s has.
Covers(s, c) ==
  /\ Lists(s.kept \cup s.pending \cup s.delivered \cup c.list, c.list)
  /\ Room(s, c.list)
\* What a waiter has seen in its copy m,
Looked(l, m) ==
  /\ l.held \subseteq l.elig /\ \A e \in l.pres : Published(e)
  /\ \A f \in Events : Awaited(f) =>
       /\ f \in l.pres => f \in m.delivered
       /\ f \notin l.held
       /\ f \in m.kept => f \in l.elig
       /\ \A g \in l.elig : f <= g => f \in l.elig
\* ... with list c, as long as it is the current one.
Measured(l, m, c) ==
  /\ Covers(m, c) /\ c.list \subseteq l.elig /\ l.elig \subseteq m.kept \cup c.list
  /\ \A e \in l.elig : e > c.at
  /\ Unacked(m, c) \subseteq l.pres
  /\ ~l.any => l.pres \subseteq m.presented
Unshown(S) == \A f \in Events : Awaited(f) => f \notin S
Safe == \A f \in Events : Awaited(f) => f > cursor

\* What is known of an awaited event is considered.
LEMMA AwaitedIsEligible ==
  ASSUME NEW s, NEW c, NEW ok, NEW f \in Events, Awaited(f), f \in s.kept \cup c.list, f > c.at
  PROVE  f \in Eligible(s, c, ok)
BY AwaitedIs DEF Eligible, Known

\* And so is what is awaited below anything that is considered.
LEMMA AwaitedBelow ==
  ASSUME NEW s, Mindful(s), NEW c, Closed(c), NEW ok, NEW f \in Events, Awaited(f), f > c.at,
         NEW g \in Eligible(s, c, ok), f <= g
  PROVE  f \in Eligible(s, c, ok)
<1>1. g \in s.kept \cup c.list
  BY DEF Eligible, Known
<1>2. f \in s.kept \cup c.list
  BY <1>1 DEF Mindful, Closed
<1> QED
  BY <1>2, AwaitedIsEligible

LEMMA AboveAnswer ==
  ASSUME World, Safe, NEW c, Answered(c)
  PROVE  \A f \in Events : Awaited(f) => f > c.at
BY DEF World, Safe, Answered, Conns, Events

\* What is awaited is listed, or has aged.
LEMMA AwaitedListed ==
  ASSUME World, Safe, NEW f \in Events, Awaited(f)
  PROVE  f \in Listed \/ row[f].st = "aged"
<1>1. f > cursor
  BY DEF Safe
<1>2. row[f].st \in {"pending", "delivered", "aged"}
  BY AwaitedIs DEF World, Rows, Published
<1> QED
  BY <1>1, <1>2 DEF Listed

\* So one below anything that a copy retains, delivers or has pending is retained there,
\* or in the list that goes with it.
LEMMA AwaitedIsCovered ==
  ASSUME World, Safe, NEW s, Mindful(s), NEW c, Covers(s, c), NEW f \in Events, Awaited(f),
         NEW g \in s.kept \cup s.pending \cup s.delivered \cup c.list, f <= g
  PROVE  f \in s.kept \cup c.list
<1>1. row[f].st = "aged" => f \in s.kept
  BY DEF Mindful
<1>2. f \in Listed => f \in c.list
  BY DEF Covers, Lists
<1> QED
  BY <1>1, <1>2, AwaitedListed

\* ackSuppressedInOrder: what is suppressed is acknowledged below everything that is
\* deferred or delivered, so below everything that is awaited.
LEMMA SettlingSpares ==
  ASSUME World, Safe, NEW s, Owing(s), Mindful(s), NEW c, Answered(c), Closed(c), NEW ok, NEW busy,
         NEW C, C = Eligible(s, c, ok) \ Unacked(s, c),
         NEW H, Projection(C, busy).deferred \cup s.delivered \subseteq H,
         Projection(C, busy).outcomes = {}, NEW cut,
         NEW a \in Settling(Projection(C, busy).suppressed, H, cut).done,
         NEW f \in Events, Awaited(f)
  PROVE  f > a
<1> DEFINE P == Projection(C, busy)
<1>1. C \in SUBSET Events /\ \A e \in C : Published(e)
  BY EligibleIs
<1>2. a \in P.suppressed /\ \A h \in H : a <= h
  BY DEF Settling
<1>3. a \in C /\ a \in Events
  BY <1>1, <1>2, ProjectionParts
<1>4. f \notin P.suppressed /\ (f \in C => f \in P.deferred)
  BY <1>1, AwaitedIsKept
<1> HIDE DEF P
<1>5. SUFFICES ASSUME f <= a PROVE FALSE
  BY <1>3, EventsAre
<1>6. f > c.at
  BY AboveAnswer
<1>7. f \in Eligible(s, c, ok)
  BY <1>3, <1>5, <1>6, AwaitedBelow
<1>8. CASE f \in C
  <2>1. f \in H
    BY <1>4, <1>8 DEF P
  <2>2. a = f
    BY <2>1, <1>2, <1>3, <1>5, EventsAre
  <2> QED
    BY <2>2, <1>2, <1>4
<1>9. CASE f \notin C
  <2>1. f \in Unacked(s, c)
    BY <1>7, <1>9
  <2>2. f \in s.presented
    BY <2>1 DEF Unacked
  <2>3. f \in H
    BY <2>2 DEF Mindful
  <2>4. a = f
    BY <2>3, <1>2, <1>3, <1>5, EventsAre
  <2> QED
    BY <2>4, <1>3, <1>9
<1> QED
  BY <1>8, <1>9

----------------------------------------------------------------------------
(* What the processes make of a copy *)

\* The room that is left in a copy does not shrink with what it presents, nor with the list.
LEMMA RoomLess ==
  ASSUME NEW s \in Files, NEW t, NEW K \in SUBSET Events, NEW L \in SUBSET Events, Room(s, K),
         t.kept = s.kept, \A e \in Out(s) : e \in Out(t),
         \A x \in L, g \in s.kept : x <= g => x \in K
  PROVE  Room(t, L)
<1> SUFFICES ASSUME NEW f \in Events, Awaited(f), f \in s.kept
             PROVE  Fits((t.kept \cup L) \ Out(t), f)
  BY DEF Room
<1> DEFINE X == (t.kept \cup L) \ Out(t)
           Y == (s.kept \cup K) \ Out(s)
<1>1. Fits(Y, f) /\ Y \in SUBSET Events
  BY DEF Room, Files
<1>2. \A x \in X : x < f => x \in Y /\ x < f
  <2>1. \A x \in L : x < f => x \in K
    BY EventsAre DEF Files
  <2> QED
    BY <2>1
<1> HIDE DEF X, Y
<1>3. Fits(X, f)
  BY <1>1, <1>2, FitsLess
<1> QED
  BY <1>3 DEF X

\* A copy that presents, holds for acknowledgement and retains the same of what is
\* awaited, or less.
LEMMA MindfulLess ==
  ASSUME NEW s \in Files, Mindful(s), NEW t,
         t.kept = s.kept, t.delivered \subseteq s.delivered,
         t.pending \subseteq s.pending \cup s.delivered, \A e \in Out(s) : e \in Out(t),
         \A e \in t.presented : Published(e),
         \A f \in Events : Awaited(f) => (f \in t.presented => f \in t.delivered) /\ f \notin t.pending
  PROVE  Mindful(t) /\ \A c \in Conns : Covers(s, c) => Covers(t, c)
<1>1. Room(t, Listed)
  <2>1. Listed \in SUBSET Events /\ \A x \in Listed, g \in s.kept : x <= g => x \in Listed
    BY DEF Listed
  <2> QED
    BY <2>1, RoomLess DEF Mindful
<1>2. ASSUME NEW c \in Conns, Covers(s, c) PROVE Covers(t, c)
  <2>1. c.list \in SUBSET Events /\ \A x \in c.list, g \in s.kept : x <= g => x \in c.list
    BY DEF Conns
  <2>2. Room(t, c.list)
    BY <1>2, <2>1, RoomLess DEF Covers
  <2> QED
    BY <1>2, <2>2 DEF Covers, Lists
<1> QED
  BY <1>1, <1>2 DEF Mindful

LEMMA MindfulAlike ==
  ASSUME NEW s \in Files, Mindful(s), NEW t, t.kept = s.kept, t.delivered = s.delivered,
         t.pending = s.pending, t.presented \subseteq s.presented,
         s.presented \subseteq t.presented \cup s.delivered
  PROVE  Mindful(t) /\ \A c \in Conns : Covers(s, c) => Covers(t, c)
<1>1. \A e \in Out(s) : e \in Out(t)
  BY DEF Out
<1>2. /\ \A e \in t.presented : Published(e)
      /\ \A f \in Events : Awaited(f) => (f \in t.presented => f \in t.delivered) /\ f \notin t.pending
  BY DEF Mindful
<1> QED
  BY <1>1, <1>2, MindfulLess

\* A list that is fetched goes with every copy.
LEMMA ConnCovers ==
  ASSUME owner = "self", NEW s, Mindful(s)
  PROVE  Covers(s, Conn)
BY DEF Covers, Lists, Conn, Mindful

\* A copy t that retains as much as the limit allows of X, what a look of copy s and list c
\* has that is not presented, or still delivered.
LEMMA MindfulLook ==
  ASSUME NEW s \in Files, Mindful(s), NEW c \in Conns, Covers(s, c), NEW t,
         NEW elig \in SUBSET Events, NEW X \in SUBSET elig, t.kept = Lowest(KeepLimit, X),
         c.list \subseteq elig, elig \subseteq s.kept \cup c.list,
         \A e \in X : e \notin Out(s), \A e \in elig : e \in X \/ e \in Out(t),
         \A e \in t.presented : Published(e),
         \A f \in Events : Awaited(f) =>
           /\ f \in s.kept => f \in elig
           /\ \A g \in elig : f <= g => f \in elig
           /\ f \in t.presented => f \in t.delivered
           /\ f \notin t.pending,
         t.pending \subseteq s.pending \cup elig, t.delivered \subseteq s.delivered \cup elig
  PROVE  Mindful(t) /\ Covers(t, c)
<1> DEFINE Y == (s.kept \cup c.list) \ Out(s)
<1>1. X \in SUBSET Events /\ Y \in SUBSET Events /\ X \subseteq Y
  BY DEF Files, Conns
<1>2. /\ t.kept \subseteq X
      /\ \A f \in X : f \in t.kept <=> Fits(X, f)
      /\ \A g \in t.kept, f \in X : f <= g => f \in t.kept
  BY <1>1, LowestFits
<1>3. \A f \in Events : Awaited(f) /\ f \in elig => f \in X
  BY DEF Out
<1>4. ASSUME NEW f \in Events, Awaited(f), f \in s.kept PROVE f \in t.kept
  <2>1. Fits(Y, f)
    BY <1>4 DEF Covers, Room
  <2> HIDE DEF Y
  <2>2. Fits(X, f)
    BY <1>1, <2>1, FitsLess
  <2> QED
    BY <1>2, <1>3, <1>4, <2>2
<1>5. Room(t, c.list)
  <2> SUFFICES ASSUME NEW f \in Events, Awaited(f), f \in t.kept
               PROVE  Fits((t.kept \cup c.list) \ Out(t), f)
    BY DEF Room
  <2> DEFINE Z == (t.kept \cup c.list) \ Out(t)
  <2>1. Fits(X, f)
    BY <1>2
  <2>2. \A x \in Z : x \in X
    BY <1>2
  <2> HIDE DEF Z
  <2>3. Fits(Z, f)
    BY <1>1, <2>1, <2>2, FitsLess
  <2> QED
    BY <2>3 DEF Z
<1>6. Lists(t.kept \cup t.pending \cup t.delivered \cup c.list, c.list)
  BY <1>2 DEF Covers, Lists
<1>7. Room(t, Listed)
  <2>1. /\ c.list \in SUBSET Events /\ t \in {t}
        /\ \A x \in Listed, g \in t.kept : x <= g => x \in c.list
    BY <1>6 DEF Conns, Lists
  <2> SUFFICES ASSUME NEW f \in Events, Awaited(f), f \in t.kept
               PROVE  Fits((t.kept \cup Listed) \ Out(t), f)
    BY DEF Room
  <2> DEFINE Z == (t.kept \cup Listed) \ Out(t)
             W == (t.kept \cup c.list) \ Out(t)
  <2>2. Fits(W, f)
    BY <1>5 DEF Room
  <2>3. W \in SUBSET Events
    BY <1>1, <1>2, <2>1
  <2>4. \A x \in Z : x < f => x \in W /\ x < f
    BY <2>1 DEF Listed, Events
  <2> HIDE DEF Z, W
  <2>5. Fits(Z, f)
    BY <2>2, <2>3, <2>4, FitsLess
  <2> QED
    BY <2>5 DEF Z
<1>8. ASSUME NEW f \in Events, Awaited(f)
      PROVE  /\ \A g \in t.kept : f <= g => f \in t.kept
             /\ row[f].st = "aged" => f \in t.kept
  <2>1. \A g \in t.kept : f <= g => f \in t.kept
    BY <1>2, <1>3, <1>8
  <2>2. row[f].st = "aged" => f \in t.kept
    BY <1>4, <1>8 DEF Mindful
  <2> QED
    BY <2>1, <2>2
<1> QED
  BY <1>5, <1>6, <1>7, <1>8 DEF Mindful, Covers

\* What a look of copy s at list c has: all that is awaited and retained, everything
\* awaited below what it has, and what it takes for presented is delivered.
LEMMA LookIs ==
  ASSUME World, Safe, NEW s, Owing(s), Mindful(s), NEW c, Answered(c), Closed(c), NEW ok,
         NEW f \in Events, Awaited(f)
  PROVE  /\ f \in s.kept => f \in Eligible(s, c, ok)
         /\ \A g \in Eligible(s, c, ok) : f <= g => f \in Eligible(s, c, ok)
         /\ f \in Unacked(s, c) => f \in s.delivered
         /\ f \notin s.pending
<1>1. f > c.at
  BY AboveAnswer
<1> QED
  BY <1>1, AwaitedIsEligible, AwaitedBelow DEF Mindful, Unacked

LEMMA EligibleCovers ==
  ASSUME NEW s, NEW c, Closed(c), NEW ok
  PROVE  c.list \subseteq Eligible(s, c, ok) /\ Eligible(s, c, ok) \subseteq s.kept \cup c.list
BY DEF Closed, Eligible, Known

\* takeNextWakeBatch without a candidate.
LEMMA TakeNoneMindful ==
  ASSUME World, Safe, NEW s, Owing(s), Mindful(s), NEW c, Answered(c), Closed(c), Covers(s, c), NEW ok
  PROVE  Mindful(TakeNone(s, c, ok))
<1> DEFINE elig == Eligible(s, c, ok)
           pres == Unacked(s, c)
           X == {e \in elig : e \notin pres \/ e \in s.delivered}
           t == TakeNone(s, c, ok)
<1>1. /\ s \in Files /\ c \in Conns /\ elig \in SUBSET Events
      /\ c.list \subseteq elig /\ elig \subseteq s.kept \cup c.list /\ \A e \in elig : e > c.at
  BY EligibleIs, EligibleCovers DEF Owing, Answered
<1>2. /\ t.presented = pres /\ t.pending = s.pending
      /\ t.delivered = s.delivered \cap (elig \cup hook.held)
      /\ t.kept = Lowest(KeepLimit, X)
  BY <1>1 DEF TakeNone, Files, StaleDropped, Kept
<1>3. \A f \in Events : Awaited(f) =>
        /\ f \in s.kept => f \in elig
        /\ \A g \in elig : f <= g => f \in elig
        /\ f \in pres => f \in s.delivered
        /\ f \notin s.pending
        /\ f \in s.delivered => f \in elig
  <2> SUFFICES ASSUME NEW f \in Events, Awaited(f), f \in s.delivered PROVE f \in elig
    BY LookIs
  <2>1. f <= f
    BY EventsAre
  <2>2. f \in s.kept \cup c.list
    BY <2>1, AwaitedIsCovered
  <2> QED
    BY <2>2, AboveAnswer, AwaitedIsEligible
<1>4. \A e \in pres : Published(e)
  BY DEF Unacked, Mindful
<1>5. \A e \in elig : e \in pres <=> e \in s.presented
  BY <1>1 DEF Unacked
<1> HIDE DEF elig, pres
<1>6. X \in SUBSET elig /\ (\A e \in X : e \notin Out(s)) /\ \A e \in elig : e \in X \/ e \in Out(t)
  BY <1>2, <1>5 DEF Out
<1> HIDE DEF X, t
<1>7. Mindful(t)
  BY <1>1, <1>2, <1>3, <1>4, <1>6, MindfulLook
<1> QED
  BY <1>7 DEF t

\* ... with candidates, none of which is an outcome.
LEMMA TakeQuietMindful ==
  ASSUME World, Safe, NEW s, Owing(s), Mindful(s), NEW c, Answered(c), Closed(c), Covers(s, c), NEW ok,
         NEW C, C = Eligible(s, c, ok) \ Unacked(s, c), NEW busy,
         NEW proj, proj = Projection(C, busy), NEW H, NEW cut,
         NEW got, got = Settling(proj.suppressed, H, cut)
  PROVE  Mindful(TakeQuiet(s, c, ok, proj, got))
<1> DEFINE elig == Eligible(s, c, ok)
           pres == Unacked(s, c) \cup got.done \cup got.held
           X == {e \in elig : e \notin pres \/ e \in s.delivered}
           t == TakeQuiet(s, c, ok, proj, got)
<1>1. /\ s \in Files /\ c \in Conns /\ elig \in SUBSET Events /\ C \in SUBSET Events
      /\ \A e \in C : Published(e)
      /\ c.list \subseteq elig /\ elig \subseteq s.kept \cup c.list /\ \A e \in elig : e > c.at
  BY EligibleIs, EligibleCovers DEF Owing, Answered
<1>2. /\ proj.suppressed \subseteq C /\ got.done \subseteq proj.suppressed
      /\ got.held \subseteq proj.suppressed
  BY <1>1, ProjectionParts DEF Settling
<1>3. /\ t.presented = pres /\ t.pending = s.pending \cup got.held
      /\ t.delivered = s.delivered /\ t.kept = Lowest(KeepLimit, X)
  <2>1. t = [s EXCEPT !.presented = pres, !.deferred = proj.deferred,
                      !.pending = @ \cup got.held, !.kept = Lowest(KeepLimit, X)]
    BY DEF TakeQuiet, Kept
  <2> HIDE DEF t, elig, pres, X
  <2> QED
    BY <1>1, <2>1 DEF Files
<1>4. \A f \in Events : Awaited(f) => f \notin proj.suppressed
  BY <1>1, AwaitedIsKept
<1>5. \A f \in Events : Awaited(f) =>
        /\ f \in s.kept => f \in elig
        /\ \A g \in elig : f <= g => f \in elig
        /\ f \in pres => f \in s.delivered
        /\ f \notin s.pending
  BY <1>2, <1>4, LookIs
<1>6. got.held \subseteq elig
  BY <1>2
<1>7. \A e \in pres : Published(e)
  BY <1>1, <1>2 DEF Unacked, Mindful
<1>8. \A e \in elig : e \in s.presented => e \in pres
  BY <1>1 DEF Unacked
<1> HIDE DEF elig, pres
<1>9. X \in SUBSET elig /\ (\A e \in X : e \notin Out(s)) /\ \A e \in elig : e \in X \/ e \in Out(t)
  BY <1>3, <1>8 DEF Out
<1> HIDE DEF X, t
<1>10. Mindful(t)
  <2>1. t.pending \subseteq s.pending \cup elig /\ t.delivered \subseteq s.delivered \cup elig
    BY <1>3, <1>6
  <2>2. \A f \in Events : Awaited(f) =>
          /\ f \in s.kept => f \in elig
          /\ \A g \in elig : f <= g => f \in elig
          /\ f \in t.presented => f \in t.delivered
          /\ f \notin t.pending
    BY <1>2, <1>3, <1>4, <1>5
  <2> QED
    BY <1>1, <1>3, <1>7, <1>9, <2>1, <2>2, MindfulLook
<1> QED
  BY <1>10 DEF t

\* ... and with a batch.
LEMMA TakeBatchMindful ==
  ASSUME World, Safe, NEW s, Owing(s), Mindful(s), NEW c, Answered(c), Closed(c), Covers(s, c), NEW ok,
         NEW C, C = Eligible(s, c, ok) \ Unacked(s, c), NEW busy,
         NEW proj, proj = Projection(C, busy)
  PROVE  Mindful(TakeBatch(s, c, ok, proj))
<1> DEFINE elig == Eligible(s, c, ok)
           pres == Unacked(s, c) \cup proj.suppressed \cup proj.outcomes
           del == s.delivered \cup proj.outcomes
           X == {e \in elig : e \notin pres \/ e \in del}
           t == TakeBatch(s, c, ok, proj)
<1>1. /\ s \in Files /\ c \in Conns /\ elig \in SUBSET Events /\ C \in SUBSET Events
      /\ \A e \in C : Published(e)
      /\ c.list \subseteq elig /\ elig \subseteq s.kept \cup c.list /\ \A e \in elig : e > c.at
  BY EligibleIs, EligibleCovers DEF Owing, Answered
<1>2. proj.suppressed \subseteq C /\ proj.outcomes \subseteq C
  BY <1>1, ProjectionParts
<1>3. /\ t.presented = pres /\ t.pending = s.pending \cup proj.suppressed
      /\ t.delivered = del /\ t.kept = Lowest(KeepLimit, X)
  <2>1. t = [s EXCEPT !.presented = pres, !.delivered = del,
                      !.pending = @ \cup proj.suppressed, !.deferred = proj.deferred,
                      !.kept = Lowest(KeepLimit, X)]
    BY DEF TakeBatch, Kept
  <2> HIDE DEF t, elig, pres, del, X
  <2> QED
    BY <1>1, <2>1 DEF Files
<1>4. \A f \in Events : Awaited(f) => f \notin proj.suppressed
  BY <1>1, AwaitedIsKept
<1>5. \A f \in Events : Awaited(f) =>
        /\ f \in s.kept => f \in elig
        /\ \A g \in elig : f <= g => f \in elig
        /\ f \in pres => f \in del
        /\ f \notin s.pending
  BY <1>4, LookIs
<1>6. \A e \in pres : Published(e)
  BY <1>1, <1>2 DEF Unacked, Mindful
<1>7. \A e \in elig : (e \in s.presented => e \in pres) /\ (e \in C => e \notin s.presented)
  BY <1>1 DEF Unacked
<1>8. C \subseteq elig
  OBVIOUS
<1> HIDE DEF elig, pres
<1>9. X \in SUBSET elig /\ (\A e \in X : e \notin Out(s)) /\ \A e \in elig : e \in X \/ e \in Out(t)
  BY <1>2, <1>3, <1>7 DEF Out
<1>10. t.pending \subseteq s.pending \cup elig /\ t.delivered \subseteq s.delivered \cup elig
  BY <1>2, <1>3, <1>8
<1>11. \A f \in Events : Awaited(f) =>
          /\ f \in s.kept => f \in elig
          /\ \A g \in elig : f <= g => f \in elig
          /\ f \in t.presented => f \in t.delivered
          /\ f \notin t.pending
  BY <1>3, <1>4, <1>5
<1> HIDE DEF X, t
<1>12. Mindful(t)
  BY <1>1, <1>3, <1>6, <1>9, <1>10, <1>11, MindfulLook
<1> QED
  BY <1>12 DEF t

\* peekNextWakeBatch: what a waiter has seen, sup being what it may acknowledge.
LEMMA PeekLooked ==
  ASSUME World, Safe, NEW s, Owing(s), Mindful(s), NEW c, Answered(c), Closed(c), NEW ok,
         NEW C, C = Eligible(s, c, ok) \ Unacked(s, c), NEW busy,
         NEW sup, sup \subseteq Projection(C, busy).suppressed, NEW H, NEW cut,
         NEW got, got = Settling(sup, H, cut),
         NEW l, l.elig = Eligible(s, c, ok), l.pres = Unacked(s, c) \cup got.done \cup got.held,
         l.held = got.held, ~l.any => C = {}
  PROVE  /\ Looked(l, s) /\ (Unshown(s.presented) => Unshown(l.pres))
         /\ Covers(s, c) => Measured(l, s, c)
<1> DEFINE elig == Eligible(s, c, ok)
           P == Projection(C, busy)
<1>1. C \in SUBSET Events /\ C \subseteq elig /\ \A e \in C : Published(e)
  BY EligibleIs
<1>2. P.suppressed \subseteq C /\ got.done \subseteq sup /\ got.held \subseteq sup
  BY <1>1, ProjectionParts DEF Settling
<1>3. \A f \in Events : Awaited(f) => f \notin P.suppressed
  BY <1>1, AwaitedIsKept
<1>4. \A f \in Events : Awaited(f) =>
        /\ f \in s.kept => f \in elig
        /\ \A g \in elig : f <= g => f \in elig
        /\ f \in Unacked(s, c) => f \in s.delivered
  BY LookIs
<1>5. \A f \in Unacked(s, c) : f \in s.presented
  BY DEF Unacked
<1>8. /\ c.list \subseteq elig /\ elig \subseteq s.kept \cup c.list /\ \A e \in elig : e > c.at
  BY EligibleIs, EligibleCovers
<1> HIDE DEF elig, P
<1>6. Looked(l, s)
  <2>1. l.held \subseteq l.elig /\ \A e \in l.pres : Published(e)
    BY <1>1, <1>2, <1>5 DEF elig, P, Mindful
  <2>2. \A f \in Events : Awaited(f) => f \notin l.held /\ (f \in l.pres => f \in s.delivered)
    BY <1>2, <1>3, <1>4 DEF P
  <2> QED
    BY <2>1, <2>2, <1>4 DEF Looked, elig
<1>7. Unshown(s.presented) => Unshown(l.pres)
  BY <1>2, <1>3, <1>5 DEF Unshown, P
<1>9. ~l.any => l.pres \subseteq s.presented
  BY <1>2, <1>5 DEF P
<1>10. Unacked(s, c) \subseteq l.pres
  OBVIOUS
<1> QED
  BY <1>6, <1>7, <1>8, <1>9, <1>10 DEF Measured, elig

\* What it writes is as mindful as what it saw, when the file has what its copy m had.
LEMMA MergedMindful ==
  ASSUME NEW s \in Files, Mindful(s), NEW l \in Looks, NEW m \in Files, Mindful(m), Looked(l, m),
         NEW c \in Conns, Measured(l, m, c),
         s.kept = m.kept, s.delivered = m.delivered, s.pending = m.pending
  PROVE  /\ Mindful(Merged(s, l, c)) /\ Covers(Merged(s, l, c), c)
         /\ Unshown(s.presented) /\ Unshown(l.pres) => Unshown(Merged(s, l, c).presented)
<1> DEFINE t == Merged(s, l, c)
           elig == l.elig
           X == {e \in elig : e \notin l.pres \/ e \in s.delivered}
<1>1. /\ elig \in SUBSET Events /\ l.held \subseteq elig /\ X \in SUBSET elig
      /\ Covers(m, c) /\ c.list \subseteq elig /\ elig \subseteq m.kept \cup c.list
      /\ \A e \in elig : e \in m.presented => e \in l.pres
  BY DEF Looks, Looked, Measured, Unacked
<1>2. /\ t.presented = Unacked(s, c) \cup l.pres /\ t.pending = s.pending \cup l.held
      /\ t.delivered = s.delivered /\ t.kept = Lowest(KeepLimit, X)
  <2>1. t = [s EXCEPT !.presented = Unacked(s, c) \cup l.pres, !.deferred = l.deferred,
                      !.pending = @ \cup l.held, !.kept = Lowest(KeepLimit, X)]
    BY DEF Merged, Kept
  <2> HIDE DEF t, elig, X
  <2> QED
    BY <2>1 DEF Files
<1>3. Unacked(s, c) \subseteq s.presented
  BY DEF Unacked
<1>4. \A f \in Events : Awaited(f) =>
        /\ f \in m.kept => f \in elig
        /\ \A g \in elig : f <= g => f \in elig
        /\ f \in t.presented => f \in t.delivered
        /\ f \notin t.pending
  BY <1>2, <1>3 DEF Looked, Mindful
<1>7. \A e \in t.presented : Published(e)
  BY <1>2, <1>3 DEF Looked, Mindful
<1>8. (\A e \in X : e \notin Out(m)) /\ \A e \in elig : e \in X \/ e \in Out(t)
  BY <1>1, <1>2 DEF Out
<1>9. t.pending \subseteq m.pending \cup elig /\ t.delivered \subseteq m.delivered \cup elig
  BY <1>1, <1>2
<1> HIDE DEF t, elig, X
<1>5. Mindful(t) /\ Covers(t, c)
  <2>1. t.kept = Lowest(KeepLimit, X)
    BY <1>2
  <2> QED
    BY <1>1, <1>4, <1>7, <1>8, <1>9, <2>1, MindfulLook
<1>6. Unshown(s.presented) /\ Unshown(l.pres) => Unshown(t.presented)
  BY <1>2, <1>3 DEF Unshown
<1> QED
  BY <1>5, <1>6 DEF t

LEMMA SweptMindful ==
  ASSUME World, Safe,
         NEW s \in Files, Mindful(s), NEW l \in Looks, NEW m \in Files, Mindful(m), Looked(l, m),
         NEW c \in Conns, Measured(l, m, c), ~l.any, m.presented \subseteq s.presented \cup s.delivered,
         s.kept = m.kept, s.delivered = m.delivered, s.pending = m.pending
  PROVE  /\ Mindful(Swept(s, l)) /\ Covers(Swept(s, l), c)
         /\ Swept(s, l).presented = s.presented
<1> DEFINE t == Swept(s, l)
           elig == l.elig
           X == {e \in elig : e \notin l.pres \/ e \in s.delivered}
<1>1. /\ elig \in SUBSET Events /\ X \in SUBSET elig
      /\ Covers(m, c) /\ c.list \subseteq elig /\ elig \subseteq m.kept \cup c.list
      /\ \A e \in elig : e \in m.presented => e \in l.pres
      /\ l.pres \subseteq m.presented
  BY DEF Looks, Measured, Unacked
<1>2. /\ t.presented = s.presented /\ t.pending = s.pending
      /\ t.delivered = s.delivered \cap elig
      /\ t.kept = Lowest(KeepLimit, X)
  <2>1. t = [s EXCEPT !.delivered = s.delivered \cap (elig \cup {}), !.deferred = {},
                      !.kept = Lowest(KeepLimit, X)]
    BY DEF Swept, StaleDropped, Kept
  <2> HIDE DEF t, elig, X
  <2> QED
    BY <2>1 DEF Files
<1>3. \A f \in Events : Awaited(f) /\ f \in m.delivered => f \in elig
  <2> SUFFICES ASSUME NEW f \in Events, Awaited(f), f \in m.delivered PROVE f \in elig
    OBVIOUS
  <2>1. f <= f
    BY EventsAre
  <2>2. f \in m.kept \cup c.list
    BY <1>1, <2>1, AwaitedIsCovered
  <2> QED
    BY <1>1, <2>2 DEF Looked
<1>4. \A f \in Events : Awaited(f) =>
        /\ f \in m.kept => f \in elig
        /\ \A g \in elig : f <= g => f \in elig
        /\ f \in t.presented => f \in t.delivered
        /\ f \notin t.pending
  BY <1>2, <1>3 DEF Looked, Mindful
<1>7. \A e \in t.presented : Published(e)
  BY <1>2 DEF Mindful
<1>8. (\A e \in X : e \notin Out(m)) /\ \A e \in elig : e \in X \/ e \in Out(t)
  BY <1>1, <1>2 DEF Out
<1>9. t.pending \subseteq m.pending \cup elig /\ t.delivered \subseteq m.delivered \cup elig
  BY <1>1, <1>2
<1> HIDE DEF t, elig, X
<1>5. Mindful(t) /\ Covers(t, c)
  BY <1>1, <1>2, <1>4, <1>7, <1>8, <1>9, MindfulLook
<1> QED
  BY <1>2, <1>5 DEF t

\* flushDeliveredAcks: what it acknowledges is below everything that is awaited.
LEMMA FlushSpares ==
  ASSUME World, Safe, NEW s, Owing(s), Mindful(s), NEW c, Answered(c), Closed(c), Covers(s, c),
         NEW ok, NEW unseen, unseen = Unconfirmed(s, TRUE),
         NEW floor, floor = HoldingBack(s, c, ok) \cup unseen,
         NEW a \in (s.pending \cup s.delivered) \ unseen, \A h \in floor : a < h,
         NEW f \in Events, Awaited(f)
  PROVE  f > a
<1> DEFINE C == Eligible(s, c, ok) \ Unacked(s, c)
           busy == IF ok THEN working \cap live ELSE {}
           P == Projection(C, busy)
<1>1. C \in SUBSET Events /\ \A e \in C : Published(e)
  BY EligibleIs
<1>2. f \in C => f \in floor
  <2>1. HoldingBack(s, c, ok) = P.deferred \cup P.outcomes
    BY DEF HoldingBack, ProjectionOf
  <2>2. f \in C => f \in P.deferred \cup P.outcomes
    BY <1>1, AwaitedIsKept
  <2> HIDE DEF P, C, busy
  <2> QED
    BY <2>1, <2>2
<1>3. f \in s.delivered => f \in floor
  BY AwaitedIs DEF Unconfirmed
<1>4. a \in Events
  BY DEF Owing, Files
<1>5. SUFFICES ASSUME f <= a PROVE FALSE
  BY <1>4, EventsAre
<1>6. f \in s.kept \cup c.list
  BY <1>5, AwaitedIsCovered
<1>7. f \in Eligible(s, c, ok)
  BY <1>6, AboveAnswer, AwaitedIsEligible
<1>8. f \in floor
  <2>1. f \in Unacked(s, c) => f \in s.delivered
    BY DEF Unacked, Mindful
  <2> QED
    BY <2>1, <1>2, <1>3, <1>7
<1>9. a < f
  BY <1>8
<1> QED
  BY <1>4, <1>5, <1>9, EventsAre

\* What it leaves in its copy.
LEMMA FlushMindful ==
  ASSUME NEW s, Owing(s), Mindful(s), NEW unseen, unseen = Unconfirmed(s, TRUE),
         NEW t, t.kept = s.kept,
         NEW acked, acked \subseteq (s.pending \cup s.delivered) \ unseen,
         s.presented \subseteq t.presented, t.presented \subseteq s.presented \cup acked \cup s.pending,
         t.pending \subseteq acked \cup s.pending, t.delivered \subseteq s.delivered,
         unseen \subseteq t.delivered
  PROVE  Mindful(t) /\ \A c \in Conns : Covers(s, c) => Covers(t, c)
<1>1. ASSUME NEW f \in Events, Awaited(f)
      PROVE  /\ f \in s.presented => f \in s.delivered
             /\ f \notin s.pending /\ f \notin acked
             /\ f \in s.delivered => f \in t.delivered
  <2>1. f \in s.delivered => f \in unseen
    BY <1>1, AwaitedIs DEF Unconfirmed
  <2> QED
    BY <1>1, <2>1 DEF Mindful
<1>2. \A f \in Events : Awaited(f) => (f \in t.presented => f \in t.delivered) /\ f \notin t.pending
  BY <1>1
<1>3. \A e \in t.presented : Published(e)
  BY DEF Owing, Mindful
<1>4. s \in Files /\ t.pending \subseteq s.pending \cup s.delivered
  BY DEF Owing
<1>5. \A e \in Out(s) : e \in Out(t)
  BY DEF Out
<1> QED
  BY <1>2, <1>3, <1>4, <1>5, MindfulLess

----------------------------------------------------------------------------
(* What is acknowledged *)

\* The daemon's list is closed.
LEMMA ConnClosed ==
  ASSUME World, Safe
  PROVE  Closed(Conn)
<1>4. \A e \in Conn.list : e > Conn.at
  BY DEF Conn, Listed
<1> SUFFICES ASSUME NEW f \in Events, Awaited(f), NEW g \in Conn.list, f <= g
             PROVE  f \in Conn.list \/ row[f].st = "aged"
  BY <1>4 DEF Closed
<1>1. Conn.list = Listed
  BY DEF Conn
<1>2. f > cursor
  BY DEF Safe
<1>3. row[f].st \in {"pending", "delivered", "aged"}
  BY AwaitedIs DEF World, Rows, Published
<1> QED
  BY <1>1, <1>2, <1>3 DEF Listed

\* S can be acknowledged: it holds events, and none that is awaited or above such a one.
Harmless(S) ==
  /\ S \in SUBSET Events /\ \A a \in S : Published(a)
  /\ owner # "self" => S = {}
Spared(S) == \A a \in S : \A f \in Events : Awaited(f) => f > a

LEMMA FlushDoes ==
  ASSUME Sound, Flush
  PROVE  \E mem \in Files, S \in SUBSET Events :
           /\ cursor' = AckedTo(S) /\ Harmless(S)
           /\ HookSaves(mem) /\ hook'.mem = mem /\ hook'.pc = "take"
           /\ hook'.conn = hook.conn /\ hook'.ev = hook.ev
           /\ (/\ Readable /\ Safe /\ Mindful(hook.mem)
               /\ Closed(hook.conn) /\ Covers(hook.mem, hook.conn))
                => Mindful(mem) /\ Covers(mem, hook.conn) /\ Spared(S)
<1> DEFINE s == hook.mem
           all == s.pending \cup s.delivered
<1>1. PICK readable \in Transcripts, ok \in BOOLEAN :
        LET unseen == Unconfirmed(s, readable)
            floor == HoldingBack(s, hook.conn, ok) \cup unseen
            sent == {e \in all \ unseen : \A h \in floor : e < h}
        IN  \E cut \in Cuts(Hook, sent) :
            LET before(S) == {e \in S : cut = 0 \/ e < cut}
                rest == {e \in all : cut # 0 /\ e >= cut}
                late == {e \in before(sent) : Answer(e) = "order"}
                high == before(all \ (sent \cup unseen))
                acked == \E e \in before(sent) : Answer(e) = "ok"
                mem == [s EXCEPT
                  !.presented = @ \cup before(sent) \cup high \cup (rest \ s.delivered),
                  !.delivered = before(unseen) \cup (rest \cap @),
                  !.pending = high \cup late \cup (rest \ s.delivered)]
            IN  /\ Spent(Hook, Cost(Hook, cut), ok)
                /\ cursor' = AckedTo(before(sent))
                /\ HookSaves(mem)
                /\ hook' = [hook EXCEPT !.pc = "take", !.held = before(unseen), !.mem = mem,
                                        !.again = acked]
  BY DEF Flush
<1> DEFINE unseen == Unconfirmed(s, readable)
           floor == HoldingBack(s, hook.conn, ok) \cup unseen
           sent == {e \in all \ unseen : \A h \in floor : e < h}
<1>2. PICK cut \in Cuts(Hook, sent) :
        LET before(S) == {e \in S : cut = 0 \/ e < cut}
            rest == {e \in all : cut # 0 /\ e >= cut}
            late == {e \in before(sent) : Answer(e) = "order"}
            high == before(all \ (sent \cup unseen))
            acked == \E e \in before(sent) : Answer(e) = "ok"
            mem == [s EXCEPT
              !.presented = @ \cup before(sent) \cup high \cup (rest \ s.delivered),
              !.delivered = before(unseen) \cup (rest \cap @),
              !.pending = high \cup late \cup (rest \ s.delivered)]
        IN  /\ Spent(Hook, Cost(Hook, cut), ok)
            /\ cursor' = AckedTo(before(sent))
            /\ HookSaves(mem)
            /\ hook' = [hook EXCEPT !.pc = "take", !.held = before(unseen), !.mem = mem,
                                    !.again = acked]
  BY <1>1
<1> DEFINE sentNow == {e \in sent : cut = 0 \/ e < cut}
           unseenNow == {e \in unseen : cut = 0 \/ e < cut}
           rest == {e \in all : cut # 0 /\ e >= cut}
           late == {e \in sentNow : Answer(e) = "order"}
           high == {e \in all \ (sent \cup unseen) : cut = 0 \/ e < cut}
           acked == \E e \in sentNow : Answer(e) = "ok"
           presented == s.presented \cup sentNow \cup high \cup (rest \ s.delivered)
           delivered == unseenNow \cup (rest \cap s.delivered)
           pending == high \cup late \cup (rest \ s.delivered)
           mem == [s EXCEPT !.presented = presented, !.delivered = delivered, !.pending = pending]
<1>3. /\ cursor' = AckedTo(sentNow) /\ HookSaves(mem)
      /\ hook' = [hook EXCEPT !.pc = "take", !.held = unseenNow, !.mem = mem, !.again = acked]
  BY <1>2
<1>4. World /\ HookSound(hook) /\ Owing(s) /\ s \in Files /\ hook \in Hooks /\ Answered(hook.conn)
  BY DEF Sound, HookSound, Owing
<1>5. all \in SUBSET Events /\ unseen \subseteq s.delivered /\ \A e \in all : Published(e)
  BY <1>4 DEF Files, Unconfirmed, Owing
<1>6. sent \in SUBSET Events /\ sent \subseteq all \ unseen /\ \A a \in sent : \A h \in floor : a < h
  BY <1>5
<1>7. sentNow \subseteq sent /\ (owner # "self" => sentNow = {})
  <2>1. ASSUME owner # "self", NEW e \in sentNow PROVE FALSE
    <3>1. e \in sent /\ (cut = 0 \/ e < cut)
      BY <2>1
    <3> HIDE DEF sent, sentNow
    <3>2. cut \in sent /\ cut <= e
      BY <1>6, <2>1, <3>1, CutsRefuse
    <3>3. cut \in Events /\ e \in Events
      BY <1>6, <3>1, <3>2
    <3> QED
      BY <3>1, <3>2, <3>3, EventsAre
  <2> QED
    BY <2>1
<1>8. Harmless(sentNow)
  BY <1>5, <1>6, <1>7 DEF Harmless
<1> HIDE DEF unseen, floor, sent
<1>9. /\ presented \in SUBSET Events /\ delivered \in SUBSET Events /\ pending \in SUBSET Events
      /\ delivered \subseteq s.delivered
      /\ s.presented \subseteq presented
      /\ presented \subseteq s.presented \cup (all \ unseen) \cup s.pending
      /\ pending \subseteq (all \ unseen) \cup s.pending
      /\ unseen \subseteq delivered
  <2>1. \A e \in unseen : e \in delivered
    <3> SUFFICES ASSUME NEW e \in unseen, ~(cut = 0 \/ e < cut) PROVE e \in rest \cap s.delivered
      OBVIOUS
    <3>1. e \in Events /\ e \in s.delivered /\ cut \in Int
      BY <1>5, <1>6 DEF Cuts, Events, Lowest
    <3> QED
      BY <3>1, EventsAre
  <2> QED
    BY <1>4, <1>5, <1>6, <1>7, <2>1 DEF Files
<1> HIDE DEF presented, delivered, pending, sentNow, unseenNow, acked
<1>10. /\ mem \in Files /\ mem.presented = presented /\ mem.delivered = delivered
       /\ mem.pending = pending /\ mem.kept = s.kept
  BY <1>4, <1>9 DEF Files
<1> HIDE DEF mem
<1>11. hook'.mem = mem /\ hook'.pc = "take" /\ hook'.conn = hook.conn /\ hook'.ev = hook.ev
  BY <1>3, <1>4 DEF Hooks
<1>12. ASSUME Readable, Safe, Mindful(s), Closed(hook.conn), Covers(s, hook.conn)
       PROVE  Mindful(mem) /\ Covers(mem, hook.conn) /\ Spared(sentNow)
  <2>1. readable = TRUE
    BY <1>12, AgyAssumption DEF Readable
  <2>2. unseen = Unconfirmed(s, TRUE) /\ floor = HoldingBack(s, hook.conn, ok) \cup unseen
    BY <2>1 DEF unseen, floor
  <2> DEFINE acks == all \ unseen
  <2>3. acks \subseteq (s.pending \cup s.delivered) \ unseen
    OBVIOUS
  <2>4. Mindful(mem) /\ Covers(mem, hook.conn)
    <3>2. hook.conn \in Conns
      BY <1>4 DEF Answered
    <3>1. s.presented \subseteq mem.presented
          /\ mem.presented \subseteq s.presented \cup acks \cup s.pending
          /\ mem.pending \subseteq acks \cup s.pending
          /\ mem.delivered \subseteq s.delivered /\ unseen \subseteq mem.delivered
      BY <1>9, <1>10
    <3> HIDE DEF s, all, acks
    <3> QED
      BY <1>4, <1>10, <1>12, <2>2, <2>3, <3>1, <3>2, FlushMindful DEF all
  <2>5. ASSUME NEW a \in sentNow, NEW f \in Events, Awaited(f) PROVE f > a
    <3>1. a \in (s.pending \cup s.delivered) \ unseen /\ \A h \in floor : a < h
      BY <1>6, <1>7
    <3> HIDE DEF s, all, acks
    <3> QED
      BY <1>4, <1>12, <2>2, <2>5, <3>1, FlushSpares
  <2> QED
    BY <2>4, <2>5 DEF Spared
<1>13. sentNow \in SUBSET Events
  BY <1>8 DEF Harmless
<1> QED
  BY <1>3, <1>8, <1>10, <1>11, <1>12, <1>13

LEMMA TakeDoes ==
  ASSUME Sound, Take
  PROVE  \E mem \in Files, writes \in BOOLEAN, batch \in SUBSET Events, S \in SUBSET Events :
           /\ cursor' = AckedTo(S) /\ Harmless(S)
           /\ Taken(mem, writes, batch)
           /\ (/\ Safe /\ Mindful(hook.mem)
               /\ Closed(hook.conn) /\ Covers(hook.mem, hook.conn))
                => Mindful(mem) /\ Spared(S)
<1> DEFINE s == hook.mem
           c == hook.conn
<1>1. World /\ Owing(s) /\ Answered(c) /\ s \in Files
  BY DEF Sound, HookSound, Owing
<1>2. PICK ok \in BOOLEAN :
        \E cand \in {Eligible(s, c, ok) \ Unacked(s, c)} :
        \E proj \in {ProjectionOf(cand, ok)}, none \in {TakeNone(s, c, ok)} :
             \/ /\ cand = {} /\ Spent(Hook, 0, ok) /\ UNCHANGED cursor
                /\ Taken(none, none # [s EXCEPT !.presented = Unacked(s, c)], {})
             \/ /\ cand # {} /\ proj.outcomes = {}
                /\ \E cut \in Cuts(Hook, proj.suppressed) :
                   LET got == Settling(proj.suppressed, proj.deferred \cup s.delivered, cut)
                   IN  /\ Spent(Hook, Cost(Hook, cut), ok) /\ cursor' = AckedTo(got.done)
                       /\ Taken(TakeQuiet(s, c, ok, proj, got), TRUE, {})
             \/ /\ proj.outcomes # {} /\ UNCHANGED cursor
                /\ Taken(TakeBatch(s, c, ok, proj), TRUE, proj.outcomes)
                /\ Spent(Hook, IF proj.outcomes \subseteq told' \/ hook.ev = "stop" THEN 0 ELSE 1, ok)
  BY DEF Take
<1> DEFINE cand == Eligible(s, c, ok) \ Unacked(s, c)
           busy == IF ok THEN working \cap live ELSE {}
           proj == Projection(cand, busy)
           none == TakeNone(s, c, ok)
<1>3. \/ /\ UNCHANGED cursor
         /\ Taken(none, none # [s EXCEPT !.presented = Unacked(s, c)], {})
      \/ /\ proj.outcomes = {}
         /\ \E cut \in Cuts(Hook, proj.suppressed) :
              LET got == Settling(proj.suppressed, proj.deferred \cup s.delivered, cut)
              IN  /\ cursor' = AckedTo(got.done)
                  /\ Taken(TakeQuiet(s, c, ok, proj, got), TRUE, {})
      \/ /\ UNCHANGED cursor /\ Taken(TakeBatch(s, c, ok, proj), TRUE, proj.outcomes)
  <2> DEFINE Nothing(n) ==
               UNCHANGED cursor /\ Taken(n, n # [s EXCEPT !.presented = Unacked(s, c)], {})
             Quiet(x) ==
               /\ x.outcomes = {}
               /\ \E cut \in Cuts(Hook, x.suppressed) :
                    LET got == Settling(x.suppressed, x.deferred \cup s.delivered, cut)
                    IN  /\ cursor' = AckedTo(got.done)
                        /\ Taken(TakeQuiet(s, c, ok, x, got), TRUE, {})
             Batch(x) ==
               UNCHANGED cursor /\ Taken(TakeBatch(s, c, ok, x), TRUE, x.outcomes)
  <2> SUFFICES Nothing(none) \/ Quiet(proj) \/ Batch(proj)
    OBVIOUS
  <2>1. PICK k \in {Eligible(s, c, ok) \ Unacked(s, c)} :
        \E x \in {ProjectionOf(k, ok)}, n \in {TakeNone(s, c, ok)} :
             \/ /\ k = {} /\ Spent(Hook, 0, ok) /\ UNCHANGED cursor
                /\ Taken(n, n # [s EXCEPT !.presented = Unacked(s, c)], {})
             \/ /\ k # {} /\ x.outcomes = {}
                /\ \E cut \in Cuts(Hook, x.suppressed) :
                   LET got == Settling(x.suppressed, x.deferred \cup s.delivered, cut)
                   IN  /\ Spent(Hook, Cost(Hook, cut), ok) /\ cursor' = AckedTo(got.done)
                       /\ Taken(TakeQuiet(s, c, ok, x, got), TRUE, {})
             \/ /\ x.outcomes # {} /\ UNCHANGED cursor
                /\ Taken(TakeBatch(s, c, ok, x), TRUE, x.outcomes)
                /\ Spent(Hook, IF x.outcomes \subseteq told' \/ hook.ev = "stop" THEN 0 ELSE 1, ok)
    BY <1>2
  <2>2. k = cand
    OBVIOUS
  <2> HIDE DEF cand, s, c
  <2>3. PICK x \in {ProjectionOf(k, ok)}, n \in {TakeNone(s, c, ok)} :
             Nothing(n) \/ Quiet(x) \/ Batch(x)
    BY <2>1
  <2>4. x = proj /\ n = none
    BY <2>2 DEF ProjectionOf
  <2> HIDE DEF Nothing, Quiet, Batch, proj, none
  <2> QED
    BY <2>3, <2>4
<1>4. cand \in SUBSET Events /\ \A e \in cand : Published(e)
  BY <1>1, EligibleIs
<1>5. proj.suppressed \subseteq cand /\ proj.outcomes \subseteq cand /\ proj.deferred \subseteq cand
  BY <1>1, <1>4, ProjectionParts
<1> DEFINE nothing == {}
<1>6. /\ nothing \in SUBSET Events /\ Harmless(nothing) /\ Spared(nothing)
      /\ (UNCHANGED cursor => cursor' = AckedTo(nothing))
  BY DEF Harmless, Spared, AckedTo
<1> HIDE DEF nothing, cand, busy, none
<1>7. CASE /\ UNCHANGED cursor
           /\ Taken(none, none # [s EXCEPT !.presented = Unacked(s, c)], {})
  <2> DEFINE writes == none # [s EXCEPT !.presented = Unacked(s, c)]
             batch == {}
  <2>1. writes \in BOOLEAN /\ batch \in SUBSET Events /\ Taken(none, writes, batch)
    BY <1>7
  <2>2. none \in Files
    BY <1>1, TakeNoneOwing DEF none, Owing
  <2>3. Safe /\ Mindful(s) /\ Closed(c) /\ Covers(s, c) => Mindful(none)
    BY <1>1, TakeNoneMindful DEF none
  <2> HIDE DEF writes, batch
  <2> QED
    BY <1>6, <1>7, <2>1, <2>2, <2>3
<1>8. CASE /\ proj.outcomes = {}
           /\ \E cut \in Cuts(Hook, proj.suppressed) :
                LET got == Settling(proj.suppressed, proj.deferred \cup s.delivered, cut)
                IN  /\ cursor' = AckedTo(got.done)
                    /\ Taken(TakeQuiet(s, c, ok, proj, got), TRUE, {})
  <2>1. PICK cut \in Cuts(Hook, proj.suppressed) :
             LET got == Settling(proj.suppressed, proj.deferred \cup s.delivered, cut)
             IN  /\ cursor' = AckedTo(got.done)
                 /\ Taken(TakeQuiet(s, c, ok, proj, got), TRUE, {})
    BY <1>8
  <2> DEFINE hold == proj.deferred \cup s.delivered
             got == Settling(proj.suppressed, hold, cut)
             mem == TakeQuiet(s, c, ok, proj, got)
             batch == {}
             writes == TRUE
             S == got.done
  <2>2. cursor' = AckedTo(S) /\ Taken(mem, writes, batch)
    BY <2>1
  <2>3. writes \in BOOLEAN /\ batch \in SUBSET Events
    OBVIOUS
  <2>4. /\ proj.suppressed \in SUBSET Events /\ hold \in SUBSET Events
        /\ proj.deferred \in SUBSET Events
    BY <1>1, <1>4, <1>5 DEF Files
  <2>5. S \subseteq proj.suppressed /\ got.held \subseteq proj.suppressed
    BY <2>4, SettlingIs
  <2>6. owner # "self" => S = {}
    BY <2>4, RefusedSettling
  <2>7. Harmless(S)
    BY <1>4, <1>5, <2>4, <2>5, <2>6 DEF Harmless
  <2>8. mem \in Files
    <3> HIDE DEF got, proj
    <3>1. Eligible(s, c, ok) \in SUBSET Events /\ Unacked(s, c) \in SUBSET Events
      BY <1>1, EligibleIs, UnackedIs
    <3>2. \A P, D : Kept(Eligible(s, c, ok), P, D) \in SUBSET Events
      BY <3>1, KeptIs
    <3>3. got.done \in SUBSET Events /\ got.held \in SUBSET Events
      BY <2>4, <2>5
    <3> QED
      BY <1>1, <2>4, <3>1, <3>2, <3>3 DEF TakeQuiet, Files
  <2>9. ASSUME Safe, Mindful(s), Closed(c), Covers(s, c)
        PROVE  Mindful(mem) /\ Spared(S)
    <3>1. Mindful(mem)
      BY <1>1, <2>9, TakeQuietMindful DEF cand
    <3>2. ASSUME NEW a \in S, NEW f \in Events, Awaited(f) PROVE f > a
      <4>1. proj.deferred \cup s.delivered \subseteq hold
        OBVIOUS
      <4> HIDE DEF hold, s, c
      <4> QED
        BY <1>1, <1>8, <2>9, <3>2, <4>1, SettlingSpares DEF cand
    <3> QED
      BY <3>1, <3>2 DEF Spared
  <2> HIDE DEF mem, S, batch, writes
  <2> QED
    BY <2>2, <2>3, <2>4, <2>5, <2>7, <2>8, <2>9 DEF Harmless
<1>9. CASE UNCHANGED cursor /\ Taken(TakeBatch(s, c, ok, proj), TRUE, proj.outcomes)
  <2> DEFINE mem == TakeBatch(s, c, ok, proj)
             writes == TRUE
  <2>1. Taken(mem, writes, proj.outcomes) /\ writes \in BOOLEAN /\ proj.outcomes \in SUBSET Events
    BY <1>4, <1>5, <1>9
  <2>2. mem \in Files
    <3>1. Eligible(s, c, ok) \in SUBSET Events /\ Unacked(s, c) \in SUBSET Events
      BY <1>1, EligibleIs, UnackedIs
    <3>2. \A P, D : Kept(Eligible(s, c, ok), P, D) \in SUBSET Events
      BY <3>1, KeptIs
    <3>3. /\ proj.suppressed \in SUBSET Events /\ proj.outcomes \in SUBSET Events
          /\ proj.deferred \in SUBSET Events
      BY <1>4, <1>5
    <3> HIDE DEF proj
    <3> QED
      BY <1>1, <3>1, <3>2, <3>3 DEF TakeBatch, Files
  <2>3. Safe /\ Mindful(s) /\ Closed(c) /\ Covers(s, c) => Mindful(mem)
    BY <1>1, TakeBatchMindful DEF cand
  <2> HIDE DEF mem, writes, proj
  <2> QED
    BY <1>6, <1>9, <2>1, <2>2, <2>3
<1> QED
  BY <1>3, <1>7, <1>8, <1>9

\* What a waiter sees, it sees in its copy and the list it has fetched.
LEMMA PeekDoes ==
  ASSUME Sound, NEW p \in Pids, Peek(p)
  PROVE  \E v \in Waiters, S \in SUBSET Events :
           /\ Becomes(p, v) /\ cursor' = AckedTo(S) /\ Harmless(S)
           /\ v.pc = "commit" /\ v.epoch = wait[p].epoch /\ v.mem = wait[p].mem
           /\ v.verify = wait[p].verify /\ v.conn.owner = "self"
           /\ (Safe /\ Mindful(wait[p].mem) /\ Closed(wait[p].conn))
                => /\ Closed(v.conn) /\ Looked(v.look, v.mem) /\ Spared(S)
                   /\ Unshown(v.mem.presented) => Unshown(v.look.pres)
                   /\ (wait[p].verify => Covers(wait[p].mem, wait[p].conn))
                        => Measured(v.look, v.mem, v.conn)
<1> DEFINE w == wait[p]
           s == w.mem
           c == IF w.verify THEN w.conn ELSE Conn
           pres == Unacked(s, c)
<1>1. PICK ok \in BOOLEAN :
        LET elig == Eligible(w.mem, c, ok)
            cand == elig \ pres
            proj == ProjectionOf(cand, ok)
            sup == IF proj.outcomes = {} THEN proj.suppressed ELSE {}
            hold == proj.deferred \cup w.mem.delivered \cup file.delivered
        IN  \E cut \in Cuts(p, sup) :
            LET got == Settling(sup, hold, cut) IN
            /\ Spent(p, Cost(p, cut), ok)
            /\ cursor' = AckedTo(got.done)
            /\ Becomes(p, [w EXCEPT !.pc = "commit", !.conn = c,
                 !.look = [any |-> cand # {}, outs |-> proj.outcomes # {}, elig |-> elig,
                           pres |-> pres \cup got.done \cup got.held,
                           deferred |-> proj.deferred, held |-> got.held]])
  BY DEF Peek
<1> DEFINE elig == Eligible(s, c, ok)
           cand == elig \ pres
           busy == IF ok THEN working \cap live ELSE {}
           proj == ProjectionOf(cand, ok)
           sup == IF proj.outcomes = {} THEN proj.suppressed ELSE {}
           hold == proj.deferred \cup s.delivered \cup file.delivered
<1>2. PICK cut \in Cuts(p, sup) :
        LET got == Settling(sup, hold, cut) IN
        /\ Spent(p, Cost(p, cut), ok)
        /\ cursor' = AckedTo(got.done)
        /\ Becomes(p, [w EXCEPT !.pc = "commit", !.conn = c,
             !.look = [any |-> cand # {}, outs |-> proj.outcomes # {}, elig |-> elig,
                       pres |-> pres \cup got.done \cup got.held,
                       deferred |-> proj.deferred, held |-> got.held]])
  BY <1>1
<1> DEFINE got == Settling(sup, hold, cut)
           any == cand # {}
           outs == proj.outcomes # {}
           seen == pres \cup got.done \cup got.held
           look == [any |-> any, outs |-> outs, elig |-> elig, pres |-> seen,
                    deferred |-> proj.deferred, held |-> got.held]
           v == [w EXCEPT !.pc = "commit", !.conn = c, !.look = look]
           S == got.done
<1>3. cursor' = AckedTo(S) /\ Becomes(p, v)
  BY <1>2
<1>4. /\ WaiterSound(w) /\ w \in Waiters /\ World /\ Owing(s) /\ s \in Files /\ file \in Files
  BY WaiterIs DEF WaiterSound, Owing
<1>5. Answered(c) /\ c \in Conns /\ c.owner = "self"
  BY <1>4, ConnAnswered DEF WaiterSound, Answered, Peek
<1>6. Safe /\ Closed(w.conn) => Closed(c)
  BY <1>4, ConnClosed
<1>19. Mindful(s) /\ (w.verify => Covers(s, w.conn)) => Covers(s, c)
  BY <1>5, ConnCovers DEF Conn
<1> HIDE DEF s, c
<1>7. /\ elig \in SUBSET Events /\ \A e \in elig : Published(e)
      /\ pres \in SUBSET Events /\ cand \in SUBSET Events /\ \A e \in cand : Published(e)
  BY <1>4, <1>5, EligibleIs, UnackedIs
<1> HIDE DEF elig, pres, cand
<1>8. /\ proj.deferred \subseteq cand /\ proj.suppressed \subseteq cand
  BY <1>4, <1>7, ProjectionParts DEF ProjectionOf
<1>18. proj = Projection(cand, busy)
  BY DEF ProjectionOf
<1> HIDE DEF proj, busy
<1>9. /\ sup \in SUBSET Events /\ sup \subseteq proj.suppressed /\ \A e \in sup : Published(e)
      /\ hold \in SUBSET Events /\ proj.deferred \cup s.delivered \subseteq hold
  BY <1>4, <1>7, <1>8 DEF Files
<1>10. sup # {} => proj.outcomes = {} /\ sup = proj.suppressed
  OBVIOUS
<1> HIDE DEF sup, hold
<1>11. S \subseteq sup /\ got.held \subseteq sup
  BY <1>9, SettlingIs
<1>12. any \in BOOLEAN /\ outs \in BOOLEAN
  OBVIOUS
<1>13. owner # "self" => S = {}
  BY <1>9, RefusedSettling
<1>14. Harmless(S) /\ S \in SUBSET Events
  BY <1>9, <1>11, <1>13 DEF Harmless
<1>15. /\ look \in Looks /\ look.elig = elig /\ look.pres = seen /\ look.held = got.held
       /\ look.any = any
  <2>1. seen \in SUBSET Events /\ got.held \in SUBSET Events /\ proj.deferred \in SUBSET Events
    BY <1>7, <1>8, <1>9, <1>11
  <2> HIDE DEF seen, got, any, outs
  <2> QED
    BY <1>7, <1>12, <2>1 DEF Looks
<1>16. ASSUME Safe, Mindful(s), Closed(w.conn)
       PROVE  /\ Looked(look, s) /\ Spared(S)
              /\ Unshown(s.presented) => Unshown(look.pres)
              /\ Covers(s, c) => Measured(look, s, c)
  <2>1. \A a \in S : \A f \in Events : Awaited(f) => f > a
    <3> SUFFICES ASSUME NEW a \in S, NEW f \in Events, Awaited(f) PROVE f > a
      OBVIOUS
    <3>1. proj.outcomes = {} /\ sup = proj.suppressed
      BY <1>10, <1>11
    <3>2. a \in Settling(proj.suppressed, hold, cut).done
      BY <3>1
    <3>3. cand = Eligible(s, c, ok) \ Unacked(s, c)
      BY DEF cand, elig, pres
    <3> HIDE DEF w, got, S, look
    <3> QED
      BY <1>4, <1>5, <1>6, <1>9, <1>16, <3>1, <3>2, <3>3, <1>18, SettlingSpares
  <2>2. /\ Looked(look, s) /\ (Unshown(s.presented) => Unshown(look.pres))
        /\ Covers(s, c) => Measured(look, s, c)
    <3>1. cand = Eligible(s, c, ok) \ Unacked(s, c)
      BY DEF cand, elig, pres
    <3>2. /\ look.elig = Eligible(s, c, ok) /\ look.pres = Unacked(s, c) \cup got.done \cup got.held
          /\ look.held = got.held /\ (~look.any => cand = {})
      BY <1>15 DEF elig, pres
    <3>3. sup \subseteq Projection(cand, busy).suppressed
      BY <1>9, <1>18
    <3> HIDE DEF w, look, S
    <3> QED
      BY <1>4, <1>5, <1>6, <1>16, <3>1, <3>2, <3>3, PeekLooked
  <2> QED
    BY <2>1, <2>2 DEF Spared
<1> HIDE DEF look, S
<1>17. /\ v \in Waiters /\ v.mem = s /\ v.conn = c /\ v.look = look
       /\ v.pc = "commit" /\ v.epoch = w.epoch /\ v.verify = w.verify
  <2> HIDE DEF w
  <2> QED
    BY <1>4, <1>5, <1>15 DEF Waiters, WaiterPlaces, s
<1> HIDE DEF v
<1> QED
  BY <1>3, <1>5, <1>6, <1>14, <1>16, <1>17, <1>19 DEF s

----------------------------------------------------------------------------
(* What is published is a prefix of the events *)

LEMMA NothingAcked ==
  ASSUME UNCHANGED cursor
  PROVE  \E S \in SUBSET Events : cursor' = AckedTo(S) /\ Harmless(S) /\ Spared(S)
<1> DEFINE S == {}
<1>1. S \in SUBSET Events /\ cursor' = AckedTo(S) /\ Harmless(S) /\ Spared(S)
  BY DEF Harmless, Spared, AckedTo
<1> HIDE DEF S
<1> QED
  BY <1>1

LEMMA CursorMoves ==
  ASSUME Sound, [Next]_vars
  PROVE  \E S \in SUBSET Events : cursor' = AckedTo(S) /\ Harmless(S)
<1>1. CASE UNCHANGED vars
  BY <1>1, NothingAcked DEF vars, daemonVars
<1>2. CASE TurnBegins \/ TurnEnds \/ Aborts \/ HookStep
  <2>1. CASE Flush
    BY <2>1, FlushDoes
  <2>2. CASE Take
    BY <2>2, TakeDoes
  <2>3. CASE ~Flush /\ ~Take
    <3>1. UNCHANGED cursor
      BY <1>2, <2>3 DEF TurnBegins, TurnEnds, Aborts, HookStep, PreWrites, Registers, Claims, NotOwner,
                        FlushNothing, Refetch, AbortWrites, Spawns, StopReturns, daemonVars
    <3> QED
      BY <3>1, NothingAcked
  <2> QED
    BY <2>1, <2>2, <2>3
<1>3. CASE RearmStep \/ \E killed \in BOOLEAN : Restarts(killed)
  <2>1. Daemonic
    BY <1>3 DEF RearmStep, Scans, Matches, PidDropped, PidRecorded, Writes, Respawns, Records, Restarts
  <2> QED
    BY <2>1, NothingAcked DEF Daemonic, daemonVars
<1>4. ASSUME NEW p \in Pids, WaiterStep(p) \/ Quits(p) \/ CallFails(p)
      PROVE  \E S \in SUBSET Events : cursor' = AckedTo(S) /\ Harmless(S)
  <2>1. CASE Peek(p)
    BY <2>1, PeekDoes
  <2>2. CASE ~Peek(p)
    <3>1. UNCHANGED cursor
      BY <1>4, <2>2 DEF WaiterStep, Top, LooksInVain, Commit, CommitWrites, Trigger, Rearm, RearmWrites,
                        Clears, ClearWrites, Prompts, ClearsPid, PidCleared, Quits, CallFails, WaitsOn,
                        daemonVars
    <3> QED
      BY <3>1, NothingAcked
  <2> QED
    BY <2>1, <2>2
<1>5. CASE \/ \E k \in Kinds, t \in Terminals, busy \in BOOLEAN : Publish(k, t, busy)
           \/ OwnerMoves \/ (\E t \in Terminals : PeerIdle(t) \/ PeerLeaves(t))
           \/ \E e \in Events : RowMoves(e)
  <2>1. UNCHANGED cursor
    BY <1>5 DEF Publish, OwnerMoves, PeerIdle, PeerLeaves, RowMoves
  <2> QED
    BY <2>1, NothingAcked
<1> QED
  BY <1>1, <1>2, <1>3, <1>4, <1>5, Steps

LEMMA OrderedStays ==
  ASSUME Sound, Sound', Ordered, [Next]_vars
  PROVE  Ordered'
<1>1. PICK S \in SUBSET Events : cursor' = AckedTo(S) /\ Harmless(S)
  BY CursorMoves
<1>2. cursor' = cursor \/ cursor' \in S
  BY <1>1, AckedToIs DEF Sound, World
<1>3. cursor' = 0 \/ (cursor' \in Events /\ Published(cursor'))
  BY <1>1, <1>2 DEF Ordered, Harmless
<1>4. \A e \in Events : Published(e) => Published(e)'
  BY RowsMove DEF Persists
<1>5. cursor' = 0 \/ (cursor' \in Events /\ Published(cursor)')
  BY <1>3, <1>4 DEF Published
<1>6. ASSUME NEW e \in Events, NEW f \in Events, f < e, Published(e)' PROVE Published(f)'
  BY <1>4, <1>6, RowsMove DEF NonePublished, Ordered
<1> QED
  BY <1>5, <1>6 DEF Ordered

LEMMA AlwaysOrdered == Spec => []Ordered
<1>1. Init => Ordered
  BY EventsAre DEF Init, Ordered, Published
<1>2. Sound /\ Sound' /\ Ordered /\ [Next]_vars => Ordered'
  BY OrderedStays
<1> QED
  BY <1>1, <1>2, AlwaysSound, PTL DEF Spec

----------------------------------------------------------------------------
(* Before the first claim no copy holds anything *)

LEMMA BlankCopies ==
  /\ Empty(NoFile) /\ BlankHook(NoHook) /\ BlankWaiter(NoWaiter)
  /\ \A s \in Files : Empty(s) =>
       /\ \A x : Empty([s EXCEPT !.pid = x]) /\ Empty([s EXCEPT !.claimed = x])
       /\ Empty([s EXCEPT !.epoch = @ + 1, !.awaiting = FALSE, !.pid = NoPid, !.wepoch = 0])
       /\ Empty([s EXCEPT !.awaiting = TRUE])
       /\ Empty([s EXCEPT !.awaiting = TRUE, !.presented = @ \ s.delivered, !.delivered = {}])
       /\ Empty([s EXCEPT !.delivered = {}, !.pending = {}, !.deferred = {}, !.kept = {}])
<1>1. Empty(NoFile) /\ BlankHook(NoHook) /\ BlankWaiter(NoWaiter)
  BY DEF Empty, BlankHook, BlankWaiter, NoFile, NoHook, NoWaiter, NoConn
<1>2. ASSUME NEW s \in Files, Empty(s), NEW x
      PROVE  Empty([s EXCEPT !.pid = x]) /\ Empty([s EXCEPT !.claimed = x])
  BY <1>2 DEF Empty, Files
<1>3. ASSUME NEW s \in Files, Empty(s)
      PROVE  /\ Empty([s EXCEPT !.epoch = @ + 1, !.awaiting = FALSE, !.pid = NoPid, !.wepoch = 0])
             /\ Empty([s EXCEPT !.awaiting = TRUE])
             /\ Empty([s EXCEPT !.awaiting = TRUE, !.presented = @ \ s.delivered, !.delivered = {}])
             /\ Empty([s EXCEPT !.delivered = {}, !.pending = {}, !.deferred = {}, !.kept = {}])
  BY <1>3 DEF Empty, Files
<1> QED
  BY <1>1, <1>2, <1>3

\* Nothing is listed, so nothing is handed out.
LEMMA NothingListed ==
  ASSUME World, owner # "self"
  PROVE  /\ Conn.list = {} /\ Conn.owner # "self"
         /\ GivesRows => row' = row
BY DEF Conn, GivesRows, World, Rows

LEMMA BlankHookMoves ==
  ASSUME Sound, owner = "none", owner' = "none", Unclaimed,
         TurnBegins \/ TurnEnds \/ Aborts \/ HookStep, ~Spawns
  PROVE  Unclaimed'
<1>0. /\ World /\ file \in Files /\ hook \in Hooks /\ hook.mem \in Files
  BY DEF Sound, HookSound, Owing, Hooks
<1>1. UNCHANGED <<wait, rearm>>
  BY HookRests
<1>2. /\ Empty(file) /\ BlankHook(hook) /\ Empty(hook.mem) /\ hook.conn.owner # "self"
      /\ hook.pc \notin {"take", "spawn", "pidW", "give"}
      /\ \A e \in Events : row[e].st \notin {"delivered", "aged"}
  BY DEF Unclaimed, BlankHook
<1>3. SUFFICES row' = row /\ Empty(file') /\ BlankHook(hook')
  BY <1>1, <1>2 DEF Unclaimed
<1>4. CASE TurnBegins
  <2>1. PICK first \in BOOLEAN : PreBegins(first)
    BY <1>4 DEF TurnBegins
  <2> DEFINE new == file.awaiting \/ file.pid # NoPid \/ file.epoch = 0 \/ first
             mem == IF new THEN [file EXCEPT !.epoch = @ + 1, !.awaiting = FALSE, !.pid = NoPid,
                                             !.wepoch = 0]
                    ELSE file
  <2>2. hook' = [NoHook EXCEPT !.pc = IF new THEN "preW" ELSE "reg", !.mem = mem]
    BY <2>1 DEF PreBegins
  <2>3. Empty(mem)
    BY <1>0, <1>2, BlankCopies
  <2>4. row' = row /\ file' = file
    BY <1>4 DEF TurnBegins, daemonVars
  <2> HIDE DEF mem, new
  <2> QED
    BY <1>2, <2>2, <2>3, <2>4 DEF BlankHook, NoHook, NoConn
<1>5. CASE PreWrites
  <2>1. row' = row /\ file' = hook.mem /\ hook' = [hook EXCEPT !.pc = "reg", !.mem = hook.mem]
    BY <1>5 DEF PreWrites, HookSaves, Save, HookTo, daemonVars
  <2> QED
    BY <1>0, <1>2, <2>1 DEF BlankHook, Hooks
<1>6. CASE TurnEnds
  <2>1. row' = row /\ file' = file /\ hook' = [NoHook EXCEPT !.pc = "reg", !.ev = "stop"]
    BY <1>6 DEF TurnEnds, Keeps, daemonVars
  <2> QED
    BY <1>2, <2>1, BlankCopies DEF BlankHook, NoHook, NoConn
<1>7. CASE Aborts
  <2> DEFINE mem == [file EXCEPT !.awaiting = TRUE, !.presented = @ \ file.delivered, !.delivered = {}]
  <2>1. row' = row /\ file' = file /\ hook' = [NoHook EXCEPT !.pc = "abortW", !.ev = "stop", !.mem = mem]
    BY <1>7 DEF Aborts, daemonVars
  <2>2. Empty(mem)
    BY <1>0, <1>2, BlankCopies
  <2> HIDE DEF mem
  <2> QED
    BY <1>2, <2>1, <2>2 DEF BlankHook, NoHook, NoConn
<1>8. CASE AbortWrites
  BY <1>2, <1>8, BlankCopies DEF AbortWrites, Save, HookEnds, daemonVars
<1>9. CASE Registers
  <2> DEFINE parked == [file EXCEPT !.awaiting = TRUE]
             mem == IF hook.ev = "pre" THEN hook.mem ELSE parked
             place == IF mem.claimed THEN "owner" ELSE "claim"
  <2>1. Empty(mem)
    BY <1>0, <1>2, BlankCopies
  <2>2. /\ file' = file
        /\ \/ hook' = [hook EXCEPT !.pc = place, !.conn = Conn, !.mem = mem] /\ GivesRows
           \/ HookEnds /\ row' = row
    BY <1>9 DEF Registers
  <2>3. place \in {"owner", "claim"}
    OBVIOUS
  <2> HIDE DEF mem, place
  <2>4. CASE hook' = [hook EXCEPT !.pc = place, !.conn = Conn, !.mem = mem] /\ GivesRows
    <3>1. hook'.pc = place /\ hook'.conn = Conn /\ hook'.mem = mem
      BY <1>0, <2>4 DEF Hooks
    <3> QED
      BY <1>0, <1>2, <2>1, <2>2, <2>3, <2>4, <3>1, NothingListed DEF BlankHook
  <2>5. CASE HookEnds /\ row' = row
    BY <1>2, <2>2, <2>5, BlankCopies DEF HookEnds
  <2> QED
    BY <2>2, <2>4, <2>5
<1>10. CASE Claims
  <2> DEFINE mem == [hook.mem EXCEPT !.claimed = TRUE]
  <2>1. ~(hook.conn.owner = "none" /\ owner = "none" /\ Hook \notin severed)
    BY <1>10 DEF Claims
  <2>2. row' = row /\ file' = mem /\ hook' = [hook EXCEPT !.pc = "owner", !.mem = mem, !.conn = hook.conn]
    BY <1>10, <2>1 DEF Claims, HookSaves, Save
  <2>3. Empty(mem)
    BY <1>0, <1>2, BlankCopies
  <2> HIDE DEF mem
  <2>4. hook'.pc = "owner" /\ hook'.conn = hook.conn /\ hook'.mem = mem
    BY <1>0, <2>2 DEF Hooks
  <2> QED
    BY <1>2, <2>2, <2>3, <2>4 DEF BlankHook
<1>11. CASE NotOwner
  <2> DEFINE none == [hook.mem EXCEPT !.delivered = {}, !.pending = {}, !.deferred = {}, !.kept = {}]
  <2>1. row' = row /\ (file' = hook.mem \/ file' = none) /\ HookEnds
    BY <1>11 DEF NotOwner, HookSaves, Save, daemonVars
  <2>2. Empty(none)
    BY <1>0, <1>2, BlankCopies
  <2> HIDE DEF none
  <2> QED
    BY <1>2, <2>1, <2>2, BlankCopies DEF HookEnds
<1>12. ~FlushNothing /\ ~Flush /\ ~Refetch /\ ~Take /\ ~Spawns /\ ~StopReturns
  BY <1>2 DEF FlushNothing, Flush, Refetch, Take, Spawns, StopReturns
<1> QED
  BY <1>4, <1>5, <1>6, <1>7, <1>8, <1>9, <1>10, <1>11, <1>12 DEF HookStep

LEMMA BlankWaiterMoves ==
  ASSUME Sound, owner = "none", Unclaimed, NEW p \in Pids, WaiterStep(p) \/ Quits(p) \/ CallFails(p)
  PROVE  Unclaimed'
<1> DEFINE w == wait[p]
<1>0. /\ World /\ file \in Files /\ w \in Waiters /\ wait \in [Pids -> Waiters] /\ Idle(w) \in Waiters
  BY WaiterIs DEF Sound
<1>1. /\ Empty(file) /\ BlankHook(hook) /\ Empty(rearm.mem) /\ BlankWaiter(w)
      /\ \A e \in Events : row[e].st \notin {"delivered", "aged"}
      /\ \A q \in Pids : BlankWaiter(wait[q])
  BY DEF Unclaimed
<1>2. w.pc \in {"off", "top", "look", "exit", "byeW"} /\ ~w.verify /\ Empty(w.mem) /\ w.conn = NoConn
  BY <1>1 DEF BlankWaiter
<1>3. /\ BlankWaiter(Idle(w)) /\ BlankWaiter(Leaving(w)) /\ BlankWaiter(NoWaiter)
  <2>1. BlankWaiter(Idle(w))
    <3>1. Idle(w).pc = "top" /\ Idle(w).verify = FALSE /\ Idle(w).mem = NoFile /\ Idle(w).conn = NoConn
      BY <1>0 DEF Idle, Waiters
    <3> QED
      BY <3>1, BlankCopies DEF BlankWaiter
  <2> QED
    BY <2>1, BlankCopies DEF BlankWaiter, Leaving, NoWaiter
<1>4. ASSUME UNCHANGED <<hook, rearm>>, row' = row, Empty(file'), NEW v, Becomes(p, v), BlankWaiter(v)
      PROVE  Unclaimed'
  BY <1>0, <1>1, <1>4 DEF Unclaimed, Becomes
<1> HIDE DEF w
<1>5. CASE Top(p)
  <2> DEFINE look == [w EXCEPT !.pc = "look", !.mem = file, !.first = FALSE, !.owed = file.delivered # {},
                               !.targets = file.delivered]
             idle == [Idle(w) EXCEPT !.errors = 0]
  <2>1. /\ Becomes(p, Leaving(w)) \/ Becomes(p, look) \/ Becomes(p, idle)
        /\ UNCHANGED <<hook, rearm, file>> /\ (row' = row \/ GivesRows)
    BY <1>5 DEF Top, Keeps, w
  <2>2. row' = row
    BY <1>0, <2>1, NothingListed
  <2>3. BlankWaiter(look)
    <3>1. look.pc = "look" /\ look.verify = w.verify /\ look.mem = file /\ look.conn = w.conn
      BY <1>0 DEF Waiters
    <3> QED
      BY <1>1, <1>2, <3>1 DEF BlankWaiter
  <2>4. BlankWaiter(idle)
    <3>1. idle.pc = Idle(w).pc /\ idle.verify = Idle(w).verify /\ idle.mem = Idle(w).mem
          /\ idle.conn = Idle(w).conn
      BY <1>0 DEF Waiters
    <3> QED
      BY <1>3, <3>1 DEF BlankWaiter
  <2> HIDE DEF look, idle
  <2> QED
    BY <1>1, <1>3, <1>4, <2>1, <2>2, <2>3, <2>4
<1>6. CASE Quits(p) \/ LooksInVain(p)
  <2>1. Becomes(p, Leaving(w)) /\ UNCHANGED <<hook, rearm, file, row>>
    BY <1>6 DEF Quits, LooksInVain, WaitsOn, Keeps, daemonVars, w
  <2> QED
    BY <1>1, <1>3, <1>4, <2>1
<1>7. CASE CallFails(p)
  <2> DEFINE idle == [Idle(w) EXCEPT !.errors = @ + 1]
  <2>1. (Becomes(p, Leaving(w)) \/ Becomes(p, idle)) /\ UNCHANGED <<hook, rearm, file, row>>
    BY <1>7 DEF CallFails, WaitsOn, Keeps, daemonVars, w
  <2>2. BlankWaiter(idle)
    <3>1. idle.pc = Idle(w).pc /\ idle.verify = Idle(w).verify /\ idle.mem = Idle(w).mem
          /\ idle.conn = Idle(w).conn
      BY <1>0 DEF Waiters
    <3> QED
      BY <1>3, <3>1 DEF BlankWaiter
  <2> HIDE DEF idle
  <2> QED
    BY <1>1, <1>3, <1>4, <2>1, <2>2
<1>8. CASE ClearsPid(p)
  <2> DEFINE bye == [w EXCEPT !.mem = [file EXCEPT !.pid = NoPid], !.pc = "byeW"]
  <2>1. (Becomes(p, NoWaiter) \/ Becomes(p, bye)) /\ UNCHANGED <<hook, rearm, file, row>>
    BY <1>2, <1>8 DEF ClearsPid, At, WaitsOn, daemonVars, w
  <2>2. BlankWaiter(bye)
    <3>1. /\ bye.pc = "byeW" /\ bye.verify = w.verify /\ bye.mem = [file EXCEPT !.pid = NoPid]
          /\ bye.conn = w.conn
      BY <1>0 DEF Waiters
    <3>2. Empty([file EXCEPT !.pid = NoPid])
      BY <1>0, <1>1, BlankCopies
    <3> HIDE DEF bye
    <3> QED
      BY <1>2, <3>1, <3>2 DEF BlankWaiter
  <2> HIDE DEF bye
  <2> QED
    BY <1>1, <1>3, <1>4, <2>1, <2>2
<1>9. CASE PidCleared(p)
  <2>1. Becomes(p, NoWaiter) /\ UNCHANGED <<hook, rearm, row>> /\ file' = w.mem
    BY <1>2, <1>9 DEF PidCleared, At, WaitsOn, Save, daemonVars, w
  <2> QED
    BY <1>2, <1>3, <1>4, <2>1
<1>10. ~Peek(p)
  BY <1>2 DEF Peek, Conn, w
<1>11. /\ ~Commit(p) /\ ~CommitWrites(p) /\ ~Trigger(p) /\ ~Rearm(p) /\ ~RearmWrites(p)
       /\ ~Clears(p) /\ ~ClearWrites(p) /\ ~Prompts(p)
  BY <1>2 DEF Commit, CommitWrites, Trigger, Rearm, RearmWrites, Clears, ClearWrites, Prompts, At, w
<1> QED
  BY <1>5, <1>6, <1>7, <1>8, <1>9, <1>10, <1>11 DEF WaiterStep

LEMMA BlankDaemonMoves ==
  ASSUME Sound, Unclaimed, RearmStep \/ \E killed \in BOOLEAN : Restarts(killed)
  PROVE  Unclaimed'
<1>0. /\ file \in Files /\ wait \in [Pids -> Waiters] /\ rearm \in Rearms
  BY DEF Sound, Owing, RearmSound
<1>1. /\ Empty(file) /\ Empty(rearm.mem) /\ \A q \in Pids : BlankWaiter(wait[q])
  BY DEF Unclaimed
<1>2. Daemonic
  BY DEF RearmStep, Scans, Matches, PidDropped, PidRecorded, Writes, Respawns, Records, Restarts
<1>3. UNCHANGED <<row, hook>>
  BY <1>2 DEF Daemonic, daemonVars
<1>4. SUFFICES Empty(file') /\ Empty(rearm'.mem) /\ \A q \in Pids : BlankWaiter(wait'[q])
  BY <1>3 DEF Unclaimed
<1>5. Empty(NoRearm.mem)
  BY BlankCopies DEF NoRearm
<1>6. CASE \E killed \in BOOLEAN : Restarts(killed)
  <2>1. rearm' = [NoRearm EXCEPT !.pc = "scan"] /\ file' = file
        /\ \A q \in Pids : wait'[q] = wait[q] \/ wait'[q] = NoWaiter
    BY <1>6 DEF Restarts, RearmTo
  <2>2. rearm'.mem = NoRearm.mem
    BY <2>1 DEF NoRearm
  <2> QED
    BY <1>1, <1>5, <2>1, <2>2, BlankCopies
<1>7. CASE Scans
  <2>1. /\ rearm' = NoRearm \/ rearm' = [NoRearm EXCEPT !.pc = "match", !.epoch = EffectiveEpoch(file),
                                                        !.was = file.pid]
        /\ UNCHANGED <<file, wait>>
    BY <1>7 DEF Scans, RearmTo, Keeps
  <2>2. rearm'.mem = NoRearm.mem
    BY <2>1 DEF NoRearm
  <2> QED
    BY <1>1, <1>5, <2>1, <2>2
<1>8. CASE Matches \/ Records
  <2> DEFINE mem(x) == [file EXCEPT !.pid = x]
  <2>1. /\ \/ rearm' = NoRearm
           \/ rearm' = [rearm EXCEPT !.pc = "clear", !.mem = mem(NoPid)]
           \/ rearm' = [rearm EXCEPT !.pc = "record", !.mem = mem(rearm.pid)]
        /\ file' = file /\ (wait' = wait \/ Becomes(rearm.pid, NoWaiter))
    BY <1>8 DEF Matches, Records, RearmTo
  <2>2. \A x : Empty(mem(x))
    BY <1>0, <1>1, BlankCopies
  <2> HIDE DEF mem
  <2>3. Empty(rearm'.mem)
    <3>1. CASE rearm' = NoRearm
      BY <1>5, <3>1
    <3>2. ASSUME NEW pc, NEW x, rearm' = [rearm EXCEPT !.pc = pc, !.mem = mem(x)] PROVE Empty(rearm'.mem)
      <4>1. rearm'.mem = mem(x)
        BY <1>0, <3>2 DEF Rearms
      <4> QED
        BY <2>2, <4>1
    <3> QED
      BY <2>1, <3>1, <3>2
  <2>4. \A q \in Pids : wait'[q] = wait[q] \/ wait'[q] = NoWaiter
    BY <1>0, <2>1 DEF Becomes
  <2> QED
    BY <1>1, <2>1, <2>3, <2>4, BlankCopies
<1>9. CASE PidDropped \/ PidRecorded
  <2>1. /\ file' = rearm.mem /\ wait' = wait
        /\ rearm' = NoRearm \/ rearm' = [rearm EXCEPT !.pc = "spawn", !.mem = NoFile]
    BY <1>9 DEF PidDropped, PidRecorded, Writes, Save, RearmTo
  <2>2. Empty(rearm'.mem)
    BY <1>0, <1>5, <2>1, BlankCopies DEF Rearms
  <2> QED
    BY <1>1, <2>1, <2>2
<1>10. CASE Respawns
  <2>1. PICK p \in Free : /\ Started(p, rearm.epoch)
                          /\ rearm' = [rearm EXCEPT !.pc = "check", !.pid = p]
    BY <1>10 DEF Respawns, RearmTo
  <2>2. file' = file
    BY <1>10 DEF Respawns, Keeps
  <2>3. rearm'.mem = rearm.mem
    BY <1>0, <2>1 DEF Rearms
  <2>4. \A q \in Pids : wait'[q] = wait[q] \/ wait'[q] = [NoWaiter EXCEPT !.pc = "top", !.epoch = rearm.epoch]
    BY <1>0, <2>1 DEF Started
  <2>5. BlankWaiter([NoWaiter EXCEPT !.pc = "top", !.epoch = rearm.epoch])
    BY BlankCopies DEF BlankWaiter, NoWaiter
  <2> QED
    BY <1>1, <2>2, <2>3, <2>4, <2>5
<1> QED
  BY <1>6, <1>7, <1>8, <1>9, <1>10 DEF RearmStep

LEMMA BlankOthersMove ==
  ASSUME Sound, Unclaimed,
         \/ \E k \in Kinds, t \in Terminals, busy \in BOOLEAN : Publish(k, t, busy)
         \/ OwnerMoves \/ (\E t \in Terminals : PeerIdle(t) \/ PeerLeaves(t))
         \/ \E e \in Events : RowMoves(e)
  PROVE  Unclaimed'
<1>0. wait \in [Pids -> Waiters] /\ row \in Rows
  BY DEF Sound, World
<1>1. /\ \A q \in Pids : BlankWaiter(wait[q])
      /\ \A e \in Events : row[e].st \notin {"delivered", "aged"}
  BY DEF Unclaimed
<1>2. UNCHANGED <<file, hook, rearm>> /\ (wait' = wait \/ wait' = Pushed)
  BY DEF Publish, OwnerMoves, PeerIdle, PeerLeaves, RowMoves
<1>3. \A q \in Pids : BlankWaiter(wait'[q])
  <2> SUFFICES ASSUME NEW q \in Pids, wait' = Pushed PROVE BlankWaiter(wait'[q])
    BY <1>1, <1>2
  <2>1. wait[q] \in Waiters
    BY <1>0
  <2>2. wait'[q] = wait[q] \/ wait'[q] = [wait[q] EXCEPT !.push = TRUE]
    BY DEF Pushed
  <2>3. /\ wait'[q].pc = wait[q].pc /\ wait'[q].verify = wait[q].verify
        /\ wait'[q].mem = wait[q].mem /\ wait'[q].conn = wait[q].conn
    BY <2>1, <2>2 DEF Waiters
  <2> QED
    BY <1>1, <2>3 DEF BlankWaiter
<1>4. \A e \in Events : row'[e].st \notin {"delivered", "aged"}
  <2>1. CASE row' = row
    BY <1>1, <2>1
  <2>2. CASE \E k \in Kinds, t \in Terminals, busy \in BOOLEAN : Publish(k, t, busy)
    BY <1>0, <1>1, <2>2 DEF Publish, Rows
  <2>3. CASE \E t \in Terminals : PeerLeaves(t)
    BY <1>0, <1>1, <2>3 DEF PeerLeaves, Rows
  <2>4. CASE \E e \in Events : RowMoves(e)
    <3>1. PICK e \in Events : row' = [row EXCEPT ![e].st = "gone"]
      BY <1>1, <2>4 DEF RowMoves
    <3> QED
      BY <1>0, <1>1, <3>1 DEF Rows
  <2> QED
    BY <2>1, <2>2, <2>3, <2>4 DEF OwnerMoves, PeerIdle
<1> QED
  BY <1>2, <1>3, <1>4 DEF Unclaimed

LEMMA OwnerMovesOn ==
  ASSUME Next
  PROVE  owner' = owner \/ (Claims /\ owner = "none" /\ owner' = "self") \/ owner' = "other"
<1>1. CASE TurnBegins \/ TurnEnds \/ Aborts \/ HookStep
  BY <1>1 DEF TurnBegins, TurnEnds, Aborts, HookStep, PreWrites, Registers, Claims, NotOwner, FlushNothing,
              Flush, Refetch, Take, AbortWrites, Spawns, StopReturns, daemonVars
<1>2. CASE RearmStep \/ \E killed \in BOOLEAN : Restarts(killed)
  <2>1. Daemonic
    BY <1>2 DEF RearmStep, Scans, Matches, PidDropped, PidRecorded, Writes, Respawns, Records, Restarts
  <2> QED
    BY <2>1 DEF Daemonic, daemonVars
<1>3. ASSUME NEW p \in Pids, WaiterStep(p) \/ Quits(p) \/ CallFails(p) PROVE owner' = owner
  BY <1>3 DEF WaiterStep, Top, Peek, LooksInVain, Commit, CommitWrites, Trigger, Rearm, RearmWrites, Clears,
              ClearWrites, Prompts, ClearsPid, PidCleared, Quits, CallFails, WaitsOn, daemonVars
<1>4. CASE \/ \E k \in Kinds, t \in Terminals, busy \in BOOLEAN : Publish(k, t, busy)
           \/ OwnerMoves \/ (\E t \in Terminals : PeerIdle(t) \/ PeerLeaves(t))
           \/ \E e \in Events : RowMoves(e)
  BY <1>4 DEF Publish, OwnerMoves, PeerIdle, PeerLeaves, RowMoves
<1> QED
  BY <1>1, <1>2, <1>3, <1>4, Steps

LEMMA BlankStays ==
  ASSUME Sound, Blank, [Next]_vars
  PROVE  Blank'
<1>1. SUFFICES ASSUME owner' = "none" PROVE Unclaimed'
  BY DEF Blank
<1>2. CASE UNCHANGED vars
  <2>1. Unclaimed
    BY <1>1, <1>2 DEF Blank, vars, daemonVars
  <2> QED
    BY <1>2, <2>1 DEF Unclaimed, vars, daemonVars
<1>3. CASE Next
  <2>1. owner = "none" /\ Unclaimed
    BY <1>1, <1>3, OwnerMovesOn DEF Blank
  <2>2. ~Spawns
    BY <2>1 DEF Spawns, Unclaimed, BlankHook
  <2> QED
    BY <1>1, <1>3, <2>1, <2>2, Steps, BlankHookMoves, BlankWaiterMoves, BlankDaemonMoves, BlankOthersMove
<1> QED
  BY <1>2, <1>3

LEMMA AlwaysBlank == Spec => []Blank
<1>1. Init => Blank
  <2> SUFFICES ASSUME Init PROVE Unclaimed
    BY DEF Blank
  <2>1. /\ file = NoFile /\ hook = NoHook /\ rearm.mem = NoFile /\ \A p \in Pids : wait[p] = NoWaiter
        /\ \A e \in Events : row[e].st = "none"
    BY DEF Init, NoRearm
  <2> QED
    BY <2>1, BlankCopies DEF Unclaimed
<1>2. Sound /\ Blank /\ [Next]_vars => Blank'
  BY BlankStays
<1> QED
  BY <1>1, <1>2, AlwaysSound, PTL DEF Spec

----------------------------------------------------------------------------
(* Every copy is mindful while the session owns the workspace *)

HookMindful(h) ==
  /\ (h.pc # "none" /\ (h.pc = "reg" => h.ev = "pre")) => Mindful(h.mem)
  /\ Closed(h.conn)
  /\ h.pc \in {"claim", "owner", "take"} => h.conn.owner = "self" /\ Covers(h.mem, h.conn)
\* s is the file: after rearmDeliveredEvents it presents nothing that is awaited, in
\* what the waiter has seen and on disk, until clearStaleDeliveredEvents has written.
\* The list of the first look still goes with the file, and with what is read of it,
\* when the second one looks at it again.
WaiterMindful(w, s) ==
  /\ Closed(w.conn)
  /\ w.pc = "top" => ~w.verify
  /\ w.pc \in {"look", "commit", "commitW", "rearmW", "staleW"} => Mindful(w.mem)
  /\ w.pc = "commit" => Looked(w.look, w.mem)
  /\ w.pc \in {"commit", "commitW", "trigger", "rearm", "rearmW", "stale", "staleW"}
       => w.conn.owner = "self"
  /\ w.pc = "look" /\ w.verify => w.conn.owner = "self"
  /\ w.verify /\ w.pc \in {"look", "commit", "commitW"} => Unshown(w.mem.presented)
  /\ w.verify /\ w.pc = "commit" => Unshown(w.look.pres)
  /\ ((w.pc = "stale" \/ (w.verify /\ w.pc \in {"look", "commit"})) /\ w.epoch = s.epoch)
       => Unshown(s.presented)
  /\ w.pc = "commitW" => Covers(w.mem, w.conn)
  /\ w.epoch = s.epoch =>
       /\ w.pc \in {"trigger", "rearm"} => Covers(s, w.conn)
       /\ w.pc = "rearmW" \/ (w.pc = "look" /\ w.verify) => Covers(w.mem, w.conn)
       /\ w.pc = "commit" => Measured(w.look, w.mem, w.conn)
AllMindful == Mindful(file) /\ HookMindful(hook) /\ \A p \in Pids : WaiterMindful(wait[p], file)
Minded == Safe /\ (owner = "self" => AllMindful)

\* What is awaited, or listed, after a step of the session's own was so before.
Fewer == \A f \in Events : Awaited(f)' => Awaited(f)
Shrinks == \A e \in Listed' : e \in Listed
LEMMA ServesFewer ==
  ASSUME World, Serves
  PROVE  Fewer /\ NoneAges /\ Persists
<1>1. Narrows /\ NoneAges /\ NonePublished /\ Persists
  BY ServesNarrows
<1>2. \A f \in Events : Awaited(f)' => Published(f)'
  BY DEF Awaited, Published
<1> QED
  BY <1>1, <1>2 DEF Fewer, Narrows, NonePublished

LEMMA ServesShrinks ==
  ASSUME World, World', Serves, cursor <= cursor'
  PROVE  Shrinks
<1> SUFFICES ASSUME NEW e \in Events, e > cursor', row'[e].st \in {"pending", "delivered"}
             PROVE  e > cursor /\ row[e].st \in {"pending", "delivered"}
  BY DEF Shrinks, Listed
<1>1. NonePublished /\ Persists
  BY ServesNarrows
<1>2. row[e].st \in {"pending", "delivered"}
  BY <1>1 DEF NonePublished, Persists, Published, World, Rows
<1>3. e > cursor
  BY EventsAre DEF World
<1> QED
  BY <1>2, <1>3

\* Then nothing that held of a copy, of a list, of a look is lost.
LEMMA RoomServed ==
  ASSUME Fewer, NEW s, NEW L, Room(s, L)
  PROVE  Room(s, L)'
BY DEF Room, Fewer
LEMMA MindfulServed ==
  ASSUME Fewer, Shrinks, NoneAges, Persists, NEW s \in Files, Mindful(s)
  PROVE  Mindful(s)'
<1>1. \A e \in s.presented : Published(e)'
  BY DEF Mindful, Files, Persists
<1>2. Room(s, Listed)'
  <2> SUFFICES ASSUME NEW f \in Events, Awaited(f)', f \in s.kept
               PROVE  Fits((s.kept \cup Listed') \ Out(s), f)
    BY DEF Room
  <2> DEFINE X == (s.kept \cup Listed') \ Out(s)
             Y == (s.kept \cup Listed) \ Out(s)
  <2>1. Fits(Y, f)
    BY DEF Mindful, Room, Fewer
  <2>2. Y \in SUBSET Events /\ \A x \in X : x \in Y
    BY DEF Files, Listed, Shrinks
  <2> HIDE DEF X, Y
  <2>3. Fits(X, f)
    BY <2>1, <2>2, FitsLess
  <2> QED
    BY <2>3 DEF X
<1> QED
  BY <1>1, <1>2 DEF Mindful, Fewer, NoneAges
LEMMA ClosedServed ==
  ASSUME Fewer, Persists, NEW c, Closed(c)
  PROVE  Closed(c)'
BY DEF Closed, Fewer, Persists
LEMMA CoversServed ==
  ASSUME Fewer, Shrinks, NEW s, NEW c, Covers(s, c)
  PROVE  Covers(s, c)'
BY RoomServed DEF Covers, Lists, Shrinks
LEMMA LookedServed ==
  ASSUME Fewer, Persists, NEW l \in Looks, NEW m, Looked(l, m)
  PROVE  Looked(l, m)'
<1>1. \A e \in l.pres : Published(e)'
  BY DEF Looked, Looks, Persists
<1> QED
  BY <1>1 DEF Looked, Fewer
LEMMA MeasuredServed ==
  ASSUME Fewer, Shrinks, NEW l, NEW m, NEW c, Measured(l, m, c)
  PROVE  Measured(l, m, c)'
BY CoversServed DEF Measured, Unacked
LEMMA UnshownServed ==
  ASSUME Fewer, NEW S, Unshown(S)
  PROVE  Unshown(S)'
BY DEF Unshown, Fewer

LEMMA WaiterServed ==
  ASSUME Fewer, Shrinks, NoneAges, Persists, NEW w \in Waiters, NEW s, WaiterMindful(w, s)
  PROVE  WaiterMindful(w, s)'
<1>1. w.mem \in Files /\ w.look \in Looks
  BY DEF Waiters
<1>2. /\ Mindful(w.mem) => Mindful(w.mem)'
      /\ Closed(w.conn) => Closed(w.conn)'
      /\ Covers(w.mem, w.conn) => Covers(w.mem, w.conn)'
      /\ Covers(s, w.conn) => Covers(s, w.conn)'
  BY <1>1, MindfulServed, ClosedServed, CoversServed
<1>3. /\ Looked(w.look, w.mem) => Looked(w.look, w.mem)'
      /\ Measured(w.look, w.mem, w.conn) => Measured(w.look, w.mem, w.conn)'
      /\ Unshown(w.mem.presented) => Unshown(w.mem.presented)'
      /\ Unshown(w.look.pres) => Unshown(w.look.pres)'
      /\ Unshown(s.presented) => Unshown(s.presented)'
  BY <1>1, LookedServed, MeasuredServed, UnshownServed
<1> QED
  BY <1>2, <1>3 DEF WaiterMindful

LEMMA ServedMindful ==
  ASSUME World, Serves, cursor <= cursor', Sound', Mindful(file'), HookMindful(hook'),
         \A p \in Pids : WaiterMindful(wait'[p], file')
  PROVE  AllMindful'
<1>1. Fewer /\ NoneAges /\ Persists /\ Shrinks
  BY ServesFewer, ServesShrinks DEF Sound
<1>2. /\ file' \in Files /\ hook'.mem \in Files
      /\ \A p \in Pids : wait'[p] \in Waiters
  BY DEF Sound, HookSound, WaiterSound, Owing, Seen
<1>3. Mindful(file)'
  BY <1>1, <1>2, MindfulServed
<1>4. HookMindful(hook)'
  BY <1>1, <1>2, MindfulServed, ClosedServed, CoversServed DEF HookMindful
<1>5. ASSUME NEW p \in Pids PROVE WaiterMindful(wait[p], file)'
  <2>1. WaiterMindful(wait'[p], file') /\ wait'[p] \in Waiters
    BY <1>2
  <2> QED
    BY <1>1, <2>1, WaiterServed
<1> QED
  BY <1>3, <1>4, <1>5 DEF AllMindful

LEMMA SafeServed ==
  ASSUME World, Serves, Safe, NEW S \in SUBSET Events, cursor' = AckedTo(S), Spared(S)
  PROVE  Safe'
<1>1. Fewer
  BY ServesFewer
<1>2. cursor' = cursor \/ cursor' \in S
  BY AckedToIs DEF World
<1> QED
  BY <1>1, <1>2 DEF Safe, Spared, Fewer

\* What a process changes in a copy without looking at its events.
LEMMA MindfulCopies ==
  ASSUME NEW s \in Files, Mindful(s)
  PROVE  /\ \A x : Mindful([s EXCEPT !.pid = x]) /\ Mindful([s EXCEPT !.claimed = x])
         /\ \A x : Mindful([s EXCEPT !.epoch = x, !.wepoch = x, !.pid = NoPid])
         /\ Mindful([s EXCEPT !.epoch = @ + 1, !.awaiting = FALSE, !.pid = NoPid, !.wepoch = 0])
         /\ Mindful([s EXCEPT !.awaiting = TRUE]) /\ Mindful([s EXCEPT !.deferred = {}])
         /\ Mindful([s EXCEPT !.presented = @ \ s.delivered])
         /\ Mindful([s EXCEPT !.awaiting = TRUE, !.presented = @ \ s.delivered, !.delivered = {}])
         /\ \A c \in Conns : Covers(s, c) =>
              /\ \A x : Covers([s EXCEPT !.claimed = x], c)
              /\ Covers([s EXCEPT !.deferred = {}], c)
              /\ Covers([s EXCEPT !.presented = @ \ s.delivered], c)
<1>1. ASSUME NEW t, t.kept = s.kept, t.delivered = s.delivered, t.pending = s.pending,
             t.presented = s.presented
      PROVE  Mindful(t) /\ \A c \in Conns : Covers(s, c) => Covers(t, c)
  BY <1>1, MindfulAlike
<1>7. ASSUME NEW c \in Conns, Covers(s, c)
      PROVE  (\A x : Covers([s EXCEPT !.claimed = x], c)) /\ Covers([s EXCEPT !.deferred = {}], c)
  BY <1>1, <1>7 DEF Files
<1>2. ASSUME NEW x
      PROVE  /\ Mindful([s EXCEPT !.pid = x]) /\ Mindful([s EXCEPT !.claimed = x])
             /\ Mindful([s EXCEPT !.epoch = x, !.wepoch = x, !.pid = NoPid])
  BY <1>1 DEF Files
<1>3. /\ Mindful([s EXCEPT !.awaiting = TRUE]) /\ Mindful([s EXCEPT !.deferred = {}])
  BY <1>1 DEF Files
<1>4. Mindful([s EXCEPT !.epoch = @ + 1, !.awaiting = FALSE, !.pid = NoPid, !.wepoch = 0])
  <2> DEFINE e == s.epoch + 1
             t == [s EXCEPT !.epoch = e, !.awaiting = FALSE, !.pid = NoPid, !.wepoch = 0]
  <2>1. t = [s EXCEPT !.epoch = @ + 1, !.awaiting = FALSE, !.pid = NoPid, !.wepoch = 0]
    OBVIOUS
  <2> HIDE DEF e
  <2>2. /\ t.kept = s.kept /\ t.delivered = s.delivered /\ t.pending = s.pending
        /\ t.presented = s.presented
    BY DEF Files
  <2> HIDE DEF t
  <2>3. Mindful(t)
    BY <1>1, <2>2
  <2> QED
    BY <2>1, <2>3
<1>5. /\ Mindful([s EXCEPT !.presented = @ \ s.delivered])
      /\ \A c \in Conns : Covers(s, c) => Covers([s EXCEPT !.presented = @ \ s.delivered], c)
  <2> DEFINE t == [s EXCEPT !.presented = s.presented \ s.delivered]
  <2>1. /\ t.kept = s.kept /\ t.delivered = s.delivered /\ t.pending = s.pending
        /\ t.presented = s.presented \ s.delivered
    BY DEF Files
  <2> HIDE DEF t
  <2>2. Mindful(t) /\ \A c \in Conns : Covers(s, c) => Covers(t, c)
    BY <2>1, MindfulAlike
  <2> QED
    BY <2>2 DEF t
<1>6. Mindful([s EXCEPT !.awaiting = TRUE, !.presented = @ \ s.delivered, !.delivered = {}])
  <2> DEFINE t == [s EXCEPT !.awaiting = TRUE, !.presented = s.presented \ s.delivered, !.delivered = {}]
  <2>1. /\ t.kept = s.kept /\ t.delivered = {} /\ t.pending = s.pending
        /\ t.presented = s.presented \ s.delivered
    BY DEF Files
  <2> HIDE DEF t
  <2>2. Mindful(t)
    <3>1. \A f \in Events : Awaited(f) => f \notin t.presented /\ f \notin t.pending
      BY <2>1 DEF Mindful
    <3>2. \A e \in t.presented : Published(e)
      BY <2>1 DEF Mindful
    <3>3. \A e \in Out(s) : e \in Out(t)
      BY <2>1 DEF Out
    <3> QED
      BY <2>1, <3>1, <3>2, <3>3, MindfulLess
  <2> QED
    BY <2>2 DEF t
<1> QED
  BY <1>2, <1>3, <1>4, <1>5, <1>6, <1>7

LEMMA NothingMindful ==
  /\ HookMindful(NoHook) /\ Closed(NoConn) /\ NoHook.conn = NoConn /\ NoHook.pc = "none"
  /\ NoHook.ev = "pre"
  /\ \A s, w : WaiterMindful(NoWaiter, s) /\ WaiterMindful(Leaving(w), s)
BY DEF HookMindful, WaiterMindful, Closed, NoHook, NoConn, NoWaiter, Leaving

LEMMA HookStepMindful ==
  ASSUME Sound, Readable, Safe, AllMindful, owner = "self",
         TurnBegins \/ TurnEnds \/ Aborts \/ HookStep
  PROVE  /\ Mindful(file') /\ HookMindful(hook')
         /\ \E S \in SUBSET Events : cursor' = AckedTo(S) /\ Harmless(S) /\ Spared(S)
<1> DEFINE s == hook.mem
           Spares == \E S \in SUBSET Events : cursor' = AckedTo(S) /\ Harmless(S) /\ Spared(S)
<1>0. /\ World /\ file \in Files /\ hook \in Hooks /\ s \in Files
      /\ Mindful(file) /\ HookMindful(hook) /\ hook.conn \in Conns
  BY DEF Sound, HookSound, Owing, Hooks, AllMindful
<1>1. UNCHANGED cursor => Spares
  BY NothingAcked
<1>2. /\ Closed(hook.conn)
      /\ (hook.pc # "none" /\ (hook.pc = "reg" => hook.ev = "pre")) => Mindful(s)
      /\ hook.pc \in {"claim", "owner", "take"} => hook.conn.owner = "self" /\ Covers(s, hook.conn)
  BY <1>0 DEF HookMindful
\* A hook goes on with copy m and list c, or has ended.
<1>3. ASSUME NEW m, Mindful(m), NEW c, Closed(c), hook'.mem = m, hook'.conn = c,
             hook'.pc \in {"claim", "owner", "take"} => c.owner = "self" /\ Covers(m, c)
      PROVE  HookMindful(hook')
  BY <1>3 DEF HookMindful
<1>4. HookMindful(NoHook)
  BY NothingMindful
<1>5. CASE TurnBegins
  <2>1. PICK first \in BOOLEAN : PreBegins(first)
    BY <1>5 DEF TurnBegins
  <2> DEFINE new == file.awaiting \/ file.pid # NoPid \/ file.epoch = 0 \/ first
             mem == IF new THEN [file EXCEPT !.epoch = @ + 1, !.awaiting = FALSE, !.pid = NoPid,
                                             !.wepoch = 0]
                    ELSE file
             pc == IF new THEN "preW" ELSE "reg"
  <2>2. hook' = [NoHook EXCEPT !.pc = pc, !.mem = mem]
    BY <2>1 DEF PreBegins
  <2>3. Mindful(mem)
    BY <1>0, MindfulCopies
  <2>4. cursor' = cursor /\ file' = file /\ pc \in {"preW", "reg"}
    BY <1>5 DEF TurnBegins, daemonVars
  <2> HIDE DEF mem, pc
  <2>5. hook'.mem = mem /\ hook'.conn = NoConn /\ hook'.pc = pc
    BY <2>2 DEF NoHook
  <2> QED
    BY <1>0, <1>1, <1>3, <2>3, <2>4, <2>5, NothingMindful
<1>6. CASE TurnEnds
  <2>1. cursor' = cursor /\ file' = file /\ hook' = [NoHook EXCEPT !.pc = "reg", !.ev = "stop"]
    BY <1>6 DEF TurnEnds, Keeps, daemonVars
  <2>2. hook'.pc = "reg" /\ hook'.ev = "stop" /\ hook'.conn = NoConn
    BY <2>1 DEF NoHook
  <2> QED
    BY <1>0, <1>1, <2>1, <2>2, NothingMindful DEF HookMindful
<1>7. CASE Aborts
  <2> DEFINE mem == [file EXCEPT !.awaiting = TRUE, !.presented = @ \ file.delivered, !.delivered = {}]
  <2>1. cursor' = cursor /\ file' = file
        /\ hook' = [NoHook EXCEPT !.pc = "abortW", !.ev = "stop", !.mem = mem]
    BY <1>7 DEF Aborts, daemonVars
  <2>2. Mindful(mem)
    BY <1>0, MindfulCopies
  <2> HIDE DEF mem
  <2>3. hook'.pc = "abortW" /\ hook'.mem = mem /\ hook'.conn = NoConn
    BY <2>1 DEF NoHook
  <2> QED
    BY <1>0, <1>1, <1>3, <2>1, <2>2, <2>3, NothingMindful
<1>8. CASE PreWrites
  <2>1. cursor' = cursor /\ file' = s /\ hook' = [hook EXCEPT !.pc = "reg", !.mem = s] /\ hook.pc = "preW"
    BY <1>8 DEF PreWrites, HookSaves, Save, HookTo, daemonVars
  <2>2. hook'.pc = "reg" /\ hook'.mem = s /\ hook'.conn = hook.conn
    BY <1>0, <2>1 DEF Hooks
  <2> QED
    BY <1>1, <1>2, <1>3, <2>1, <2>2
<1>9. CASE Registers
  <2> DEFINE parked == [file EXCEPT !.awaiting = TRUE]
             mem == IF hook.ev = "pre" THEN s ELSE parked
             place == IF mem.claimed THEN "owner" ELSE "claim"
  <2>1. /\ cursor' = cursor /\ file' = file /\ hook.pc = "reg"
        /\ hook' = [hook EXCEPT !.pc = place, !.conn = Conn, !.mem = mem] \/ HookEnds
    BY <1>9 DEF Registers
  <2>2. Mindful(mem)
    BY <1>0, <1>2, <2>1, MindfulCopies
  <2>3. Closed(Conn) /\ Conn.owner = "self" /\ Covers(mem, Conn)
    BY <1>0, <2>2, ConnClosed, ConnCovers DEF Conn
  <2> HIDE DEF mem, place
  <2>4. CASE hook' = [hook EXCEPT !.pc = place, !.conn = Conn, !.mem = mem]
    <3>1. hook'.mem = mem /\ hook'.conn = Conn
      BY <1>0, <2>4 DEF Hooks
    <3> QED
      BY <1>0, <1>1, <1>3, <2>1, <2>2, <2>3, <3>1
  <2> QED
    BY <1>0, <1>1, <1>4, <2>1, <2>4 DEF HookEnds
<1>10. CASE Claims
  <2> DEFINE mem == [s EXCEPT !.claimed = TRUE]
  <2>1. /\ cursor' = cursor /\ file' = mem /\ hook.pc = "claim"
        /\ hook' = [hook EXCEPT !.pc = "owner", !.mem = mem, !.conn = hook.conn]
    BY <1>10 DEF Claims, HookSaves, Save
  <2>2. Mindful(mem) /\ Covers(mem, hook.conn)
    BY <1>0, <1>2, <2>1, MindfulCopies
  <2> HIDE DEF mem
  <2>3. hook'.mem = mem /\ hook'.conn = hook.conn
    BY <1>0, <2>1 DEF Hooks
  <2> QED
    BY <1>1, <1>2, <1>3, <2>1, <2>2, <2>3
<1>11. ~NotOwner
  BY <1>2 DEF NotOwner
<1>12. CASE FlushNothing
  <2> DEFINE less == [s EXCEPT !.deferred = {}]
             mem == IF s.deferred = {} THEN s ELSE less
  <2>1. /\ cursor' = cursor /\ (file' = file \/ file' = mem) /\ hook.pc = "owner"
        /\ hook' = [hook EXCEPT !.pc = "take", !.mem = mem]
    BY <1>12 DEF FlushNothing, HookSaves, Save, HookTo, Keeps, daemonVars
  <2>2. Mindful(mem) /\ Covers(mem, hook.conn)
    BY <1>0, <1>2, <2>1, MindfulCopies
  <2> HIDE DEF mem
  <2>3. hook'.mem = mem /\ hook'.conn = hook.conn
    BY <1>0, <2>1 DEF Hooks
  <2> QED
    BY <1>0, <1>1, <1>2, <1>3, <2>1, <2>2, <2>3
<1>13. CASE Flush
  <2>1. hook.pc = "owner"
    BY <1>13 DEF Flush
  <2>2. PICK mem \in Files, S \in SUBSET Events :
           /\ cursor' = AckedTo(S) /\ Harmless(S)
           /\ HookSaves(mem) /\ hook'.mem = mem /\ hook'.pc = "take"
           /\ hook'.conn = hook.conn /\ hook'.ev = hook.ev
           /\ Mindful(mem) /\ Covers(mem, hook.conn) /\ Spared(S)
    BY <1>2, <1>13, <2>1, FlushDoes
  <2>3. file' = mem
    BY <2>2 DEF HookSaves, Save
  <2> QED
    BY <1>2, <1>3, <2>1, <2>2, <2>3
<1>14. CASE Refetch
  <2>1. /\ cursor' = cursor /\ file' = file /\ hook.pc = "take"
        /\ \/ hook' = [hook EXCEPT !.again = FALSE, !.conn = Conn]
           \/ hook' = [hook EXCEPT !.again = FALSE]
    BY <1>14 DEF Refetch, Keeps
  <2>2. hook'.mem = s /\ hook'.conn \in {hook.conn, Conn}
    BY <1>0, <2>1 DEF Hooks
  <2>3. Closed(Conn) /\ Conn.owner = "self" /\ Covers(s, Conn)
    BY <1>0, <1>2, <2>1, ConnClosed, ConnCovers DEF Conn
  <2> QED
    BY <1>0, <1>1, <1>2, <1>3, <2>1, <2>2, <2>3
<1>15. CASE Take
  <2>1. hook.pc \in {"take", "owner"}
    BY <1>15 DEF Take
  <2>2. PICK mem \in Files, writes \in BOOLEAN, batch \in SUBSET Events, S \in SUBSET Events :
           /\ cursor' = AckedTo(S) /\ Harmless(S) /\ Taken(mem, writes, batch)
           /\ Mindful(mem) /\ Spared(S)
    BY <1>2, <1>15, <2>1, TakeDoes
  <2> DEFINE e == mem.epoch + 1
             armed == [mem EXCEPT !.epoch = e, !.wepoch = e, !.pid = NoPid]
  <2>3. \/ /\ file' = armed /\ hook' = [hook EXCEPT !.pc = "spawn", !.mem = armed, !.batch = batch]
        \/ (file' = mem \/ file' = file) /\ hook' = NoHook
    BY <2>2 DEF Taken, HookSaves, Save
  <2>4. Mindful(armed)
    BY <2>2, MindfulCopies
  <2> HIDE DEF armed
  <2>5. CASE file' = armed /\ hook' = [hook EXCEPT !.pc = "spawn", !.mem = armed, !.batch = batch]
    <3>1. hook'.mem = armed /\ hook'.conn = hook.conn /\ hook'.pc = "spawn"
      BY <1>0, <2>5 DEF Hooks
    <3> QED
      BY <1>2, <1>3, <2>2, <2>4, <2>5, <3>1
  <2> QED
    BY <1>0, <1>4, <2>2, <2>3, <2>5
<1>16. CASE AbortWrites
  <2>1. cursor' = cursor /\ file' = s /\ hook' = NoHook /\ hook.pc = "abortW"
    BY <1>16 DEF AbortWrites, Save, HookEnds, daemonVars
  <2> QED
    BY <1>1, <1>2, <1>4, <2>1
<1>17. CASE Spawns
  <2> DEFINE given(p) == [s EXCEPT !.pid = p]
  <2>1. /\ cursor' = cursor /\ file' = file /\ hook.pc = "spawn"
        /\ \/ hook' = [hook EXCEPT !.pc = "give", !.mem = s]
           \/ \E p \in Free : hook' = [hook EXCEPT !.pc = "pidW", !.mem = given(p)]
    BY <1>17 DEF Spawns, HookTo, Keeps, daemonVars
  <2>2. Mindful(s) /\ \A p : Mindful(given(p))
    BY <1>0, <1>2, <2>1, MindfulCopies
  <2> HIDE DEF given
  <2>3. CASE hook' = [hook EXCEPT !.pc = "give", !.mem = s]
    <3>1. hook'.mem = s /\ hook'.conn = hook.conn /\ hook'.pc = "give"
      BY <1>0, <2>3 DEF Hooks
    <3> QED
      BY <1>0, <1>1, <1>2, <1>3, <2>1, <2>2, <3>1
  <2>4. ASSUME NEW p \in Free, hook' = [hook EXCEPT !.pc = "pidW", !.mem = given(p)]
        PROVE  HookMindful(hook')
    <3>1. hook'.mem = given(p) /\ hook'.conn = hook.conn /\ hook'.pc = "pidW"
      BY <1>0, <2>4 DEF Hooks
    <3> QED
      BY <1>2, <1>3, <2>2, <3>1
  <2> QED
    BY <1>0, <1>1, <2>1, <2>3, <2>4
<1>18. CASE StopReturns
  <2>1. /\ cursor' = cursor /\ hook' = NoHook /\ hook.pc \in {"pidW", "give"}
        /\ file' = s \/ file' = file
    BY <1>18 DEF StopReturns, HookSaves, Save, daemonVars
  <2> QED
    BY <1>0, <1>1, <1>2, <1>4, <2>1
<1> QED
  BY <1>5, <1>6, <1>7, <1>8, <1>9, <1>10, <1>11, <1>12, <1>13, <1>14, <1>15, <1>16, <1>17, <1>18
     DEF HookStep

\* A waiter that is still the current one has seen the file as it is.
LEMMA CurrentIs ==
  ASSUME Sound, Gated, NEW p \in Pids, Waits(p), wait[p].pc # "top", ~Superseded(file, p)
  PROVE  wait[p].epoch = file.epoch
BY LastLook DEF Current

\* What the waiter does when it has written what it saw, or has nothing to write.
LEMMA DecidedMindful ==
  ASSUME NEW w \in Waiters, NEW p, NEW s, Closed(w.conn), w.conn.owner = "self",
         (w.verify /\ w.epoch = s.epoch) => Unshown(s.presented),
         w.epoch = s.epoch => Covers(s, w.conn)
  PROVE  WaiterMindful(Decided(w, p), s)
<1> DEFINE retry == w.look.deferred # {}
           v == [w EXCEPT !.check = FALSE, !.push = FALSE, !.errors = 0, !.retry = retry]
           next == IF w.look.outs THEN "prompt" ELSE "stale"
           a == [w EXCEPT !.pc = next]
           b == [Idle(v) EXCEPT !.grace = TRUE]
           c == [v EXCEPT !.pc = "trigger", !.grace = FALSE]
<1>1. \/ w.verify /\ Decided(w, p) = a
      \/ Decided(w, p) = b \/ Decided(w, p) = c \/ Decided(w, p) = Idle(v)
  BY DEF Decided
<1>2. retry \in BOOLEAN /\ next \in {"prompt", "stale"}
  OBVIOUS
<1> HIDE DEF retry, next
<1>3. a.pc = next /\ a.epoch = w.epoch /\ a.conn = w.conn /\ a.verify = w.verify
  BY DEF Waiters
<1>4. v \in Waiters /\ v.conn = w.conn /\ v.epoch = w.epoch
  BY <1>2 DEF Waiters
<1> HIDE DEF v
<1>5. Idle(v) \in Waiters /\ Idle(v).pc = "top" /\ Idle(v).conn = NoConn /\ Idle(v).verify = FALSE
  BY <1>4, IdleIs DEF Idle, Waiters
<1>6. b.pc = "top" /\ b.conn = NoConn /\ b.verify = FALSE
  BY <1>5 DEF Waiters
<1>7. c.pc = "trigger" /\ c.conn = w.conn /\ c.epoch = w.epoch
  BY <1>4 DEF Waiters
<1> HIDE DEF a, b, c
<1>8. w.verify => WaiterMindful(a, s)
  BY <1>2, <1>3 DEF WaiterMindful
<1>9. WaiterMindful(b, s) /\ WaiterMindful(Idle(v), s) /\ WaiterMindful(c, s)
  BY <1>5, <1>6, <1>7, NothingMindful DEF WaiterMindful
<1> QED
  BY <1>1, <1>8, <1>9

LEMMA IdleMindful ==
  ASSUME NEW w \in Waiters, NEW s
  PROVE  /\ WaiterMindful(Idle(w), s)
         /\ Idle(w).pc = "top" /\ Idle(w).conn = NoConn /\ Idle(w).verify = FALSE
<1>1. Idle(w).pc = "top" /\ Idle(w).conn = NoConn /\ Idle(w).verify = FALSE
  BY DEF Idle, Waiters
<1> QED
  BY <1>1, NothingMindful DEF WaiterMindful

LEMMA CommitMindful ==
  ASSUME Sound, Safe, AllMindful, Gated, Sole, NEW p \in Pids, Commit(p)
  PROVE  Mindful(file') /\ WaiterMindful(wait'[p], file')
<1> DEFINE w == wait[p]
           l == w.look
           fresh == IF l.any THEN Merged(file, l, w.conn) ELSE Swept(file, l)
           targets == IF ~l.any /\ fresh # file THEN fresh.delivered ELSE w.targets
           aimed == IF w.verify THEN w.targets ELSE targets
           v == [w EXCEPT !.pc = "commitW", !.mem = fresh, !.targets = aimed]
<1>0. /\ w \in Waiters /\ file \in Files /\ l \in Looks /\ wait \in [Pids -> Waiters]
      /\ Mindful(file) /\ WaiterMindful(w, file) /\ World
      /\ w.mem \in Files /\ w.conn \in Conns
  BY WaiterIs DEF Sound, Waiters, AllMindful
<1>1. /\ \/ Becomes(p, Leaving(w))
         \/ /\ (Becomes(p, Decided(w, p)) /\ fresh = file) \/ Becomes(p, v)
            /\ ~Superseded(file, p)
      /\ file' = file /\ w.pc = "commit"
  BY DEF Commit, At
<1>2. /\ Closed(w.conn) /\ w.conn.owner = "self" /\ Mindful(w.mem) /\ Looked(l, w.mem)
      /\ w.epoch = file.epoch => Measured(l, w.mem, w.conn)
      /\ w.verify => Unshown(l.pres)
      /\ (w.verify /\ w.epoch = file.epoch) => Unshown(file.presented)
  BY <1>0, <1>1 DEF WaiterMindful
<1>3. ASSUME NEW x, Becomes(p, x) PROVE wait'[p] = x
  BY <1>0, <1>3 DEF Becomes
<1>4. CASE Becomes(p, Leaving(w))
  BY <1>0, <1>1, <1>3, <1>4, NothingMindful
\* The current waiter writes what goes with its list.
<1>7. ASSUME ~Superseded(file, p)
      PROVE  /\ w.epoch = file.epoch /\ Mindful(fresh) /\ Covers(fresh, w.conn)
             /\ w.verify => Unshown(fresh.presented)
  <2>1. w.epoch = file.epoch
    BY <1>1, <1>7, CurrentIs DEF Waits
  <2>2. /\ file.kept = w.mem.kept /\ file.delivered = w.mem.delivered /\ file.pending = w.mem.pending
        /\ w.mem.presented \subseteq file.presented \cup file.delivered
    BY <1>1, <2>1 DEF Sole, Alone
  <2>3. CASE l.any
    <3>1. /\ Mindful(Merged(file, l, w.conn)) /\ Covers(Merged(file, l, w.conn), w.conn)
          /\ Unshown(file.presented) /\ Unshown(l.pres) => Unshown(Merged(file, l, w.conn).presented)
      BY <1>0, <1>2, <2>1, <2>2, MergedMindful
    <3> QED
      BY <1>2, <2>1, <2>3, <3>1
  <2>4. CASE ~l.any
    <3>1. /\ Mindful(Swept(file, l)) /\ Covers(Swept(file, l), w.conn)
          /\ Swept(file, l).presented = file.presented
      BY <1>0, <1>2, <2>1, <2>2, <2>4, SweptMindful
    <3> QED
      BY <1>2, <2>1, <2>4, <3>1
  <2> QED
    BY <2>1, <2>3, <2>4
<1> HIDE DEF fresh
<1>5. CASE Becomes(p, Decided(w, p)) /\ fresh = file /\ ~Superseded(file, p)
  <2>1. WaiterMindful(Decided(w, p), file)
    BY <1>0, <1>2, <1>5, <1>7, DecidedMindful
  <2> DEFINE d == Decided(w, p)
  <2>2. WaiterMindful(d, file) /\ Becomes(p, d)
    BY <1>5, <2>1
  <2> HIDE DEF d
  <2> QED
    BY <1>0, <1>1, <1>3, <2>2
<1>6. CASE Becomes(p, v) /\ ~Superseded(file, p)
  <2> HIDE DEF aimed
  <2>1. v.pc = "commitW" /\ v.mem = fresh /\ v.conn = w.conn /\ v.verify = w.verify
    BY <1>0 DEF Waiters
  <2>2. Mindful(fresh) /\ Covers(fresh, w.conn) /\ (w.verify => Unshown(fresh.presented))
    BY <1>6, <1>7
  <2> HIDE DEF v, w
  <2>3. WaiterMindful(v, file)
    BY <1>2, <2>1, <2>2 DEF WaiterMindful
  <2> QED
    BY <1>0, <1>1, <1>3, <1>6, <2>3
<1> QED
  BY <1>1, <1>4, <1>5, <1>6

LEMMA WaiterStepMindful ==
  ASSUME Sound, Safe, AllMindful, Gated, Timely, Sole, Histories, ~hist'.lost,
         NEW p \in Pids, WaiterStep(p) \/ Quits(p) \/ CallFails(p)
  PROVE  /\ Mindful(file') /\ WaiterMindful(wait'[p], file')
         /\ \E S \in SUBSET Events : cursor' = AckedTo(S) /\ Harmless(S) /\ Spared(S)
<1> DEFINE w == wait[p]
           Spares == \E S \in SUBSET Events : cursor' = AckedTo(S) /\ Harmless(S) /\ Spared(S)
<1>0. /\ w \in Waiters /\ file \in Files /\ w.mem \in Files /\ wait \in [Pids -> Waiters]
      /\ Mindful(file) /\ WaiterMindful(w, file) /\ WaiterExact(p) /\ w.conn \in Conns
  BY WaiterIs DEF Sound, Waiters, AllMindful, Timely
<1>1. UNCHANGED cursor => Spares
  BY NothingAcked
<1>2. ASSUME NEW x, Becomes(p, x) PROVE wait'[p] = x
  BY <1>0, <1>2 DEF Becomes
<1>3. ASSUME ~Peek(p) PROVE UNCHANGED cursor
  BY <1>3 DEF WaiterStep, Top, LooksInVain, Commit, CommitWrites, Trigger, Rearm, RearmWrites,
              Clears, ClearWrites, Prompts, ClearsPid, PidCleared, Quits, CallFails, WaitsOn, daemonVars
<1>4. \A s : WaiterMindful(Leaving(w), s) /\ WaiterMindful(NoWaiter, s) /\ WaiterMindful(Idle(w), s)
  BY <1>0, NothingMindful, IdleMindful
<1>5. Idle(w) \in Waiters /\ Idle(w).pc = "top" /\ Idle(w).conn = NoConn /\ Idle(w).verify = FALSE
  BY <1>0, IdleIs, IdleMindful
\* It waits again, or has left.
<1>6. ASSUME NEW x, x.pc \in {"top", "prompt", "done", "doneW", "byeW"}, Closed(x.conn),
             x.pc = "top" => ~x.verify, NEW s
      PROVE  WaiterMindful(x, s)
  BY <1>6 DEF WaiterMindful
<1>7. ASSUME WClobber(p), NEW s, Save(p, s) PROVE p \notin stale /\ file' = s
  BY <1>7, NotLost DEF WClobber, Save
<1> HIDE DEF Spares
<1>8. CASE Top(p)
  <2> DEFINE owed == file.delivered # {}
             targets == file.delivered
             look == [w EXCEPT !.pc = "look", !.mem = file, !.first = FALSE, !.owed = owed,
                               !.targets = targets]
             idle == [Idle(w) EXCEPT !.errors = 0]
  <2>1. /\ Becomes(p, Leaving(w)) \/ Becomes(p, look) \/ Becomes(p, idle)
        /\ file' = file /\ w.pc = "top"
    BY <1>8 DEF Top, Keeps, At
  <2>2. Closed(w.conn) /\ w.verify = FALSE
    BY <1>0, <2>1 DEF WaiterMindful, Waiters
  <2> HIDE DEF owed, targets, w
  <2>3. look.pc = "look" /\ look.mem = file /\ look.conn = w.conn /\ look.verify = w.verify
        /\ idle.pc = "top" /\ idle.conn = NoConn /\ idle.verify = FALSE
    BY <1>0, <1>5 DEF Waiters
  <2> HIDE DEF look, idle
  <2>4. WaiterMindful(look, file) /\ WaiterMindful(idle, file)
    BY <1>0, <1>6, <2>2, <2>3, NothingMindful DEF WaiterMindful
  <2> QED
    BY <1>0, <1>1, <1>2, <1>3, <1>4, <1>8, <2>1, <2>4 DEF Peek, Top, At, w, Spares
<1>9. CASE Quits(p) \/ LooksInVain(p) \/ CallFails(p)
  <2> DEFINE idle == [Idle(w) EXCEPT !.errors = @ + 1]
  <2>1. (Becomes(p, Leaving(w)) \/ Becomes(p, idle)) /\ file' = file /\ cursor' = cursor
    BY <1>9 DEF Quits, LooksInVain, CallFails, Keeps, WaitsOn, daemonVars
  <2>2. idle.pc = "top" /\ idle.conn = NoConn /\ idle.verify = FALSE
    BY <1>5 DEF Waiters
  <2> HIDE DEF idle
  <2>3. WaiterMindful(idle, file)
    BY <1>6, <2>2, NothingMindful
  <2> QED
    BY <1>0, <1>1, <1>2, <1>4, <2>1, <2>3 DEF Spares
<1>10. CASE Peek(p)
  <2>1. w.pc = "look" /\ file' = file
    BY <1>10 DEF Peek, At, Keeps
  <2>2. Mindful(w.mem) /\ Closed(w.conn) /\ (w.verify => Unshown(w.mem.presented))
        /\ (w.verify /\ w.epoch = file.epoch => Unshown(file.presented))
        /\ (w.verify /\ w.epoch = file.epoch => Covers(w.mem, w.conn))
    BY <1>0, <2>1 DEF WaiterMindful
  <2>3. PICK v \in Waiters, S \in SUBSET Events :
           /\ Becomes(p, v) /\ cursor' = AckedTo(S) /\ Harmless(S)
           /\ v.pc = "commit" /\ v.epoch = w.epoch /\ v.mem = w.mem
           /\ v.verify = w.verify /\ v.conn.owner = "self"
           /\ Closed(v.conn) /\ Looked(v.look, v.mem) /\ Spared(S)
           /\ Unshown(v.mem.presented) => Unshown(v.look.pres)
           /\ (w.verify => Covers(w.mem, w.conn)) => Measured(v.look, v.mem, v.conn)
    BY <1>10, <2>2, PeekDoes
  <2> HIDE DEF w
  <2>4. WaiterMindful(v, file)
    BY <2>2, <2>3 DEF WaiterMindful
  <2> QED
    BY <1>0, <1>2, <2>1, <2>3, <2>4
<1>11. CASE Commit(p)
  <2>1. ~Peek(p)
    BY <1>11 DEF Commit, Peek, At
  <2> QED
    BY <1>1, <1>3, <1>11, <2>1, CommitMindful DEF Spares
<1>12. CASE CommitWrites(p)
  <2>1. /\ w.pc = "commitW" /\ file' = w.mem /\ Becomes(p, Decided(w, p)) /\ cursor' = cursor
    BY <1>12 DEF CommitWrites, At, Save, WaitsOn, daemonVars
  <2>2. Mindful(w.mem) /\ Closed(w.conn) /\ w.conn.owner = "self"
        /\ (w.verify => Unshown(w.mem.presented)) /\ Covers(w.mem, w.conn)
    BY <1>0, <2>1 DEF WaiterMindful
  <2> DEFINE d == Decided(w, p)
  <2>3. WaiterMindful(d, w.mem)
    BY <1>0, <2>2, DecidedMindful
  <2>4. Becomes(p, d)
    BY <2>1
  <2> HIDE DEF d, w
  <2> QED
    BY <1>1, <1>2, <2>1, <2>2, <2>3, <2>4 DEF Spares
<1>13. CASE Trigger(p)
  <2> DEFINE idle == [Idle(w) EXCEPT !.retry = TRUE]
             next == IF w.owed THEN "rearm" ELSE "prompt"
             v == [w EXCEPT !.pc = next]
  <2>1. /\ Becomes(p, Leaving(w)) \/ Becomes(p, idle) \/ Becomes(p, v)
        /\ w.pc = "trigger" /\ file' = file /\ cursor' = cursor
    BY <1>13 DEF Trigger, At, Keeps, WaitsOn, daemonVars
  <2>2. Closed(w.conn) /\ w.conn.owner = "self" /\ next \in {"rearm", "prompt"}
        /\ (w.epoch = file.epoch => Covers(file, w.conn))
    BY <1>0, <2>1 DEF WaiterMindful
  <2> HIDE DEF next, w
  <2>3. /\ idle.pc = "top" /\ idle.conn = NoConn /\ idle.verify = FALSE
        /\ v.pc = next /\ v.conn = w.conn /\ v.epoch = w.epoch
    BY <1>0, <1>5 DEF Waiters
  <2> HIDE DEF idle, v
  <2>4. WaiterMindful(idle, file) /\ WaiterMindful(v, file)
    BY <2>2, <2>3, NothingMindful DEF WaiterMindful
  <2> QED
    BY <1>0, <1>1, <1>2, <1>4, <2>1, <2>4 DEF Spares
<1>14. CASE Rearm(p)
  <2> DEFINE mem == [file EXCEPT !.presented = @ \ file.delivered]
             x == [w EXCEPT !.pc = "look", !.verify = TRUE, !.mem = file]
             y == [w EXCEPT !.pc = "rearmW", !.mem = mem]
  <2>1. /\ (file.delivered = {} /\ Becomes(p, x)) \/ Becomes(p, y)
        /\ w.pc = "rearm" /\ file' = file /\ cursor' = cursor
    BY <1>14 DEF Rearm, At, WaitsOn, daemonVars
  <2>6. Closed(w.conn) /\ w.conn.owner = "self" /\ (w.epoch = file.epoch => Covers(file, w.conn))
    BY <1>0, <2>1 DEF WaiterMindful
  <2>2. Mindful(mem) /\ (w.epoch = file.epoch => Covers(mem, w.conn))
    BY <1>0, <2>6, MindfulCopies
  <2>3. file.delivered = {} => Unshown(file.presented)
    BY <1>0 DEF Mindful, Unshown
  <2> HIDE DEF mem, w
  <2>4. /\ x.pc = "look" /\ x.mem = file /\ x.conn = w.conn /\ x.epoch = w.epoch
        /\ y.pc = "rearmW" /\ y.mem = mem /\ y.conn = w.conn /\ y.epoch = w.epoch
    BY <1>0 DEF Waiters
  <2> HIDE DEF x, y
  <2>5. (file.delivered = {} => WaiterMindful(x, file)) /\ WaiterMindful(y, file)
    BY <1>0, <2>2, <2>3, <2>4, <2>6 DEF WaiterMindful
  <2> QED
    BY <1>0, <1>1, <1>2, <2>1, <2>5 DEF Spares
<1>15. CASE RearmWrites(p)
  <2> DEFINE x == [w EXCEPT !.pc = "look", !.verify = TRUE]
  <2>1. /\ Becomes(p, x) /\ w.pc = "rearmW" /\ cursor' = cursor /\ p \notin stale /\ file' = w.mem
    BY <1>7, <1>15 DEF RearmWrites, At, WaitsOn, daemonVars
  <2>2. Closed(w.conn) /\ w.conn.owner = "self" /\ Mindful(w.mem)
        /\ (w.epoch = file.epoch => Covers(w.mem, w.conn))
    BY <1>0, <2>1 DEF WaiterMindful
  <2>3. w.mem.presented = file.presented \ file.delivered /\ w.mem.epoch = file.epoch
    BY <1>0, <2>1 DEF WaiterExact, Files
  <2>4. Unshown(w.mem.presented)
    BY <1>0, <2>3 DEF Mindful, Unshown
  <2> HIDE DEF w
  <2>5. x.pc = "look" /\ x.mem = w.mem /\ x.conn = w.conn /\ x.epoch = w.epoch
    BY <1>0 DEF Waiters
  <2> HIDE DEF x
  <2>6. WaiterMindful(x, w.mem)
    BY <2>2, <2>3, <2>4, <2>5 DEF WaiterMindful
  <2> QED
    BY <1>1, <1>2, <2>1, <2>2, <2>6 DEF Spares
<1>16. CASE Clears(p)
  <2> DEFINE del == file.delivered \ w.targets
             mem == [file EXCEPT !.delivered = del]
             y == [w EXCEPT !.pc = "staleW", !.mem = mem]
  <2>1. /\ Becomes(p, Idle(w)) \/ (Becomes(p, y) /\ ~Superseded(file, p))
        /\ w.pc = "stale" /\ file' = file /\ cursor' = cursor
    BY <1>16 DEF Clears, At, WaitsOn, daemonVars
  <2>2. Closed(w.conn) /\ w.conn.owner = "self"
        /\ (w.epoch = file.epoch => Unshown(file.presented))
    BY <1>0, <2>1 DEF WaiterMindful
  <2>3. ~Superseded(file, p) => Mindful(mem)
    <3> SUFFICES ASSUME ~Superseded(file, p) PROVE Mindful(mem)
      OBVIOUS
    <3>1. Unshown(file.presented)
      BY <2>1, <2>2, CurrentIs DEF Waits
    <3> HIDE DEF w
    <3>2. del \subseteq file.delivered
      OBVIOUS
    <3> HIDE DEF del
    <3>3. /\ mem.kept = file.kept /\ mem.delivered = del /\ mem.pending = file.pending
          /\ mem.presented = file.presented
      BY <1>0 DEF Files
    <3> HIDE DEF mem
    <3>4. \A f \in Events : Awaited(f) => f \notin mem.presented /\ f \notin mem.pending
      BY <1>0, <3>1, <3>3 DEF Unshown, Mindful
    <3>5. \A e \in mem.presented : Published(e)
      BY <1>0, <3>3 DEF Mindful
    <3>6. \A e \in Out(file) : e \in Out(mem)
      BY <3>2, <3>3 DEF Out
    <3> QED
      BY <1>0, <3>2, <3>3, <3>4, <3>5, <3>6, MindfulLess
  <2> HIDE DEF mem, w
  <2>4. y.pc = "staleW" /\ y.mem = mem /\ y.conn = w.conn
    BY <1>0 DEF Waiters
  <2> HIDE DEF y
  <2>5. ~Superseded(file, p) => WaiterMindful(y, file)
    BY <2>2, <2>3, <2>4 DEF WaiterMindful
  <2> QED
    BY <1>0, <1>1, <1>2, <1>4, <2>1, <2>5 DEF Spares
<1>17. CASE ClearWrites(p)
  <2>1. Becomes(p, Idle(w)) /\ w.pc = "staleW" /\ cursor' = cursor /\ file' = w.mem
    BY <1>17 DEF ClearWrites, At, Save, WaitsOn, daemonVars
  <2>2. Mindful(w.mem)
    BY <1>0, <2>1 DEF WaiterMindful
  <2> HIDE DEF w
  <2> QED
    BY <1>1, <1>2, <1>4, <2>1, <2>2 DEF Spares
<1>18. CASE Prompts(p)
  <2> DEFINE x == [Idle(w) EXCEPT !.tries = @ + 1, !.retry = TRUE]
             y == [w EXCEPT !.pc = "done", !.mem = NoFile, !.look = NoLook, !.conn = NoConn]
  <2>1. /\ Becomes(p, Leaving(w)) \/ Becomes(p, x) \/ Becomes(p, y)
        /\ file' = file /\ cursor' = cursor
    BY <1>18 DEF Prompts, Keeps, daemonVars
  <2> HIDE DEF w
  <2>2. /\ x.pc = "top" /\ x.conn = NoConn /\ x.verify = FALSE
        /\ y.pc = "done" /\ y.conn = NoConn
    BY <1>0, <1>5 DEF Waiters
  <2> HIDE DEF x, y
  <2>3. WaiterMindful(x, file) /\ WaiterMindful(y, file)
    BY <1>6, <2>2, NothingMindful
  <2> QED
    BY <1>0, <1>1, <1>2, <1>4, <2>1, <2>3 DEF Spares
<1>19. CASE ClearsPid(p)
  <2> DEFINE mem == [file EXCEPT !.pid = NoPid]
             y(pc) == [w EXCEPT !.mem = mem, !.pc = pc]
  <2>1. /\ \/ Becomes(p, Leaving(w)) \/ Becomes(p, NoWaiter)
           \/ Becomes(p, y("doneW")) \/ Becomes(p, y("byeW"))
        /\ file' = file /\ cursor' = cursor
    BY <1>19 DEF ClearsPid, WaitsOn, daemonVars
  <2>2. Closed(w.conn)
    BY <1>0 DEF WaiterMindful
  <2> HIDE DEF w, mem
  <2>3. /\ y("doneW").pc = "doneW" /\ y("doneW").conn = w.conn
        /\ y("byeW").pc = "byeW" /\ y("byeW").conn = w.conn
    BY <1>0 DEF Waiters
  <2> HIDE DEF y
  <2>4. WaiterMindful(y("doneW"), file) /\ WaiterMindful(y("byeW"), file)
    BY <1>6, <2>2, <2>3
  <2> QED
    BY <1>0, <1>1, <1>2, <1>4, <2>1, <2>4 DEF Spares
<1>20. CASE PidCleared(p)
  <2>1. /\ Becomes(p, Leaving(w)) \/ Becomes(p, NoWaiter)
        /\ w.pc \in {"doneW", "byeW"} /\ p \notin stale /\ file' = w.mem /\ cursor' = cursor
    BY <1>7, <1>20 DEF PidCleared, WaitsOn, daemonVars
  <2>2. w.mem = [file EXCEPT !.pid = NoPid]
    BY <1>0, <2>1 DEF WaiterExact
  <2> DEFINE t == [file EXCEPT !.pid = NoPid]
  <2>3. /\ t.kept = file.kept /\ t.delivered = file.delivered /\ t.pending = file.pending
        /\ t.presented = file.presented /\ w.mem = t
    BY <1>0, <2>2 DEF Files
  <2> HIDE DEF t, w
  <2>4. Mindful(w.mem)
    BY <1>0, <2>3, MindfulAlike
  <2> QED
    BY <1>1, <1>2, <1>4, <2>1, <2>4 DEF Spares
<1> QED
  BY <1>8, <1>9, <1>10, <1>11, <1>12, <1>13, <1>14, <1>15, <1>16, <1>17, <1>18, <1>19, <1>20
     DEF WaiterStep

\* p does not move: what it has seen of its turn is still there.
LEMMA BystanderMindful ==
  ASSUME NEW w \in Waiters, NEW s \in Files, Mindful(s), WaiterMindful(w, s), NEW v, NEW t,
         \/ v = w \/ v = [w EXCEPT !.push = TRUE]
         \/ v.pc \in {"off", "top"} /\ v.conn = NoConn /\ (v.pc = "top" => ~v.verify),
         \/ t = s
         \/ (/\ w.pc \in {"look", "commit", "commitW", "trigger", "rearm", "rearmW", "stale"}
             /\ w.epoch = t.epoch)
            => /\ w.epoch = s.epoch /\ t.presented \subseteq s.presented
               /\ t.kept = s.kept /\ t.delivered = s.delivered /\ t.pending = s.pending
               /\ s.presented \subseteq t.presented \cup s.delivered
  PROVE  WaiterMindful(v, t)
<1>1. CASE v.pc \in {"off", "top"} /\ v.conn = NoConn /\ (v.pc = "top" => ~v.verify)
  BY <1>1, NothingMindful DEF WaiterMindful
<1>2. CASE v = w \/ v = [w EXCEPT !.push = TRUE]
  <2>1. /\ v.pc = w.pc /\ v.conn = w.conn /\ v.mem = w.mem /\ v.look = w.look
        /\ v.verify = w.verify /\ v.epoch = w.epoch
    BY <1>2 DEF Waiters
  <2>2. ASSUME v.pc = "stale" \/ (v.verify /\ v.pc \in {"look", "commit"}), v.epoch = t.epoch
        PROVE  Unshown(t.presented)
    <3>1. w.epoch = s.epoch /\ t.presented \subseteq s.presented
      BY <2>1, <2>2
    <3>2. Unshown(s.presented)
      BY <2>1, <2>2, <3>1 DEF WaiterMindful
    <3> QED
      BY <3>1, <3>2 DEF Unshown
  <2>3. ASSUME v.pc \in {"trigger", "rearm", "rearmW", "look", "commit"}, v.epoch = t.epoch
        PROVE  w.epoch = s.epoch /\ (Covers(s, w.conn) => Covers(t, w.conn))
    <3>1. CASE t = s
      BY <2>1, <2>3, <3>1
    <3>2. CASE t # s
      <4>1. /\ w.epoch = s.epoch /\ t.presented \subseteq s.presented
            /\ t.kept = s.kept /\ t.delivered = s.delivered /\ t.pending = s.pending
            /\ s.presented \subseteq t.presented \cup s.delivered
        BY <2>1, <2>3, <3>2
      <4>2. w.conn \in Conns
        BY DEF Waiters
      <4> QED
        BY <4>1, <4>2, MindfulAlike
    <3> QED
      BY <3>1, <3>2
  <2> QED
    BY <2>1, <2>2, <2>3 DEF WaiterMindful
<1> QED
  BY <1>1, <1>2

\* One that is started, or whose daemon ends, is off or waits, and is not verifying.
LEMMA BystandsFresh ==
  ASSUME Sound, [Next]_vars, NEW p \in Pids, ~(WaiterStep(p) \/ Quits(p) \/ CallFails(p))
  PROVE  \/ wait'[p] = wait[p] \/ wait'[p] = [wait[p] EXCEPT !.push = TRUE]
         \/ /\ wait'[p].pc \in {"off", "top"} /\ wait'[p].conn = NoConn
            /\ wait'[p].pc = "top" => ~wait'[p].verify
<1>0. wait \in [Pids -> Waiters] /\ NoWaiter.pc = "off" /\ NoWaiter.conn = NoConn
      /\ NoWaiter.verify = FALSE
  BY DEF Sound, NoWaiter
<1>1. CASE UNCHANGED vars
  BY <1>1 DEF vars
<1>2. ASSUME NEW q \in Free, NEW epoch, Started(q, epoch)
      PROVE  \/ wait'[p] = wait[p]
             \/ wait'[p].pc = "top" /\ wait'[p].conn = NoConn /\ ~wait'[p].verify
  BY <1>0, <1>2 DEF Started, NoWaiter
<1>3. CASE TurnBegins \/ TurnEnds \/ Aborts \/ HookStep
  <2>1. CASE Spawns
    <3>1. UNCHANGED wait \/ \E q \in Free : Started(q, hook.mem.epoch)
      BY <2>1 DEF Spawns
    <3> QED
      BY <1>2, <3>1
  <2> QED
    BY <1>3, <2>1, HookRests
<1>4. CASE RearmStep \/ \E killed \in BOOLEAN : Restarts(killed)
  <2>1. CASE Respawns
    <3>1. \E q \in Free : Started(q, rearm.epoch)
      BY <2>1 DEF Respawns
    <3> QED
      BY <1>2, <3>1
  <2>2. CASE ~Respawns
    <3>1. wait'[p] = wait[p] \/ wait'[p] = NoWaiter
      BY <1>0, <1>4, <2>2 DEF RearmStep, Scans, Matches, PidDropped, PidRecorded, Writes, Records, Restarts,
                              Becomes
    <3> QED
      BY <1>0, <3>1
  <2> QED
    BY <2>1, <2>2
<1>5. ASSUME NEW q \in Pids, WaiterStep(q) \/ Quits(q) \/ CallFails(q) PROVE wait'[p] = wait[p]
  <2>1. q # p
    BY <1>5
  <2> QED
    BY <1>5, <2>1, WaiterContinues
<1>6. CASE \/ \E k \in Kinds, t \in Terminals, busy \in BOOLEAN : Publish(k, t, busy)
           \/ OwnerMoves \/ (\E t \in Terminals : PeerIdle(t) \/ PeerLeaves(t))
           \/ \E e \in Events : RowMoves(e)
  <2>1. wait' = wait \/ wait' = Pushed
    BY <1>6 DEF Publish, OwnerMoves, PeerIdle, PeerLeaves, RowMoves
  <2> QED
    BY <2>1 DEF Pushed
<1> QED
  BY <1>1, <1>3, <1>4, <1>5, <1>6, Steps

----------------------------------------------------------------------------
(* What the other agents do: an event is published, ages, is withdrawn *)

\* What has aged is retained.
Ages(s) == \A e \in Events : row'[e].st = "aged" => row[e].st = "aged" \/ e \in s.kept

\* What is listed anew was not published: it is above all that anyone has.
Recedes == \A e \in Listed' : e \in Listed \/ ~Published(e)
LEMMA OthersRecede ==
  ASSUME World, Persists, cursor' = cursor
  PROVE  Recedes
BY DEF World, Rows, Persists, Published, Listed, Recedes

LEMMA NotBelow ==
  ASSUME Ordered, NEW f \in Events, ~Published(f), NEW g \in Events, Published(g)
  PROVE  ~(f <= g)
<1> SUFFICES ASSUME f <= g PROVE FALSE
  OBVIOUS
<1>1. f < g \/ f = g
  BY EventsAre
<1> QED
  BY <1>1 DEF Ordered

LEMMA RoomStays ==
  ASSUME Narrows, NEW s, Owing(s), NEW L, Room(s, L)
  PROVE  Room(s, L)'
BY DEF Room, Narrows, Owing

LEMMA CoversStays ==
  ASSUME Ordered, Narrows, Recedes, NEW s, Owing(s), NEW c, Answered(c), Covers(s, c)
  PROVE  Covers(s, c)'
<1>1. \A g \in s.kept \cup s.pending \cup s.delivered \cup c.list : g \in Events /\ Published(g)
  BY DEF Owing, Answered, Files, Conns
<1>2. \A x \in Listed' : x \in Events
  BY DEF Listed
<1>3. Lists(s.kept \cup s.pending \cup s.delivered \cup c.list, c.list)'
  BY <1>1, <1>2, NotBelow DEF Covers, Lists, Recedes
<1> QED
  BY <1>3, RoomStays DEF Covers

LEMMA MeasuredStays ==
  ASSUME Ordered, Narrows, Recedes, NEW l, NEW m, Owing(m), NEW c, Answered(c), Measured(l, m, c)
  PROVE  Measured(l, m, c)'
BY CoversStays DEF Measured, Unacked

LEMMA MindfulStays ==
  ASSUME Ordered, Narrows, Recedes, Persists, NEW s, Owing(s), Mindful(s), Ages(s)
  PROVE  Mindful(s)'
<1>1. s \in Files /\ \A e \in s.kept \cup s.pending \cup s.delivered \cup s.presented : e \in Events /\ Published(e)
  BY DEF Owing, Mindful, Files
<1>2. \A e \in s.presented : Published(e)'
  BY <1>1 DEF Persists
<1>3. ASSUME NEW f \in Events, Awaited(f)'
      PROVE  /\ f \in s.presented => f \in s.delivered
             /\ f \notin s.pending
             /\ \A g \in s.kept : f <= g => f \in s.kept
             /\ row'[f].st = "aged" => f \in s.kept
  <2>1. CASE Awaited(f)
    BY <2>1 DEF Mindful, Ages
  <2>2. CASE ~Published(f)
    <3>1. \A g \in s.kept : ~(f <= g)
      BY <1>1, <2>2, NotBelow
    <3>2. row'[f].st = "aged" => f \in s.kept
      BY <2>2 DEF Ages, Published
    <3> QED
      BY <1>1, <2>2, <3>1, <3>2
  <2> QED
    BY <1>3, <2>1, <2>2 DEF Narrows
<1>4. Room(s, Listed)'
  <2> SUFFICES ASSUME NEW f \in Events, Awaited(f)', f \in s.kept
               PROVE  Fits((s.kept \cup Listed') \ Out(s), f)
    BY DEF Room
  <2> DEFINE X == (s.kept \cup Listed') \ Out(s)
             Y == (s.kept \cup Listed) \ Out(s)
  <2>1. Published(f) /\ Awaited(f)
    BY <1>1 DEF Narrows
  <2>2. Fits(Y, f)
    BY <2>1 DEF Mindful, Room
  <2>3. Y \in SUBSET Events /\ Listed' \subseteq Events
    BY <1>1 DEF Listed, Files
  <2>4. ASSUME NEW x \in Listed', x < f PROVE x \in Listed
    <3>1. x \in Events /\ x <= f
      BY <2>3, <2>4, EventsAre
    <3> QED
      BY <2>1, <3>1, NotBelow DEF Recedes
  <2>5. \A x \in X : x < f => x \in Y /\ x < f
    BY <2>4
  <2> HIDE DEF X, Y
  <2>6. Fits(X, f)
    BY <2>2, <2>3, <2>5, FitsLess
  <2> QED
    BY <2>6 DEF X
<1> QED
  BY <1>2, <1>3, <1>4 DEF Mindful

LEMMA ClosedStays ==
  ASSUME Ordered, Narrows, Persists, NEW c, Answered(c), Closed(c)
  PROVE  Closed(c)'
<1>1. ASSUME NEW f \in Events, Awaited(f)', NEW g \in c.list, f <= g
      PROVE  f \in c.list \/ row'[f].st = "aged"
  <2>1. g \in Events /\ Published(g)
    BY DEF Answered, Conns
  <2>2. f < g \/ f = g
    BY <1>1, <2>1, EventsAre
  <2>3. Published(f)
    BY <2>1, <2>2 DEF Ordered
  <2> QED
    BY <1>1, <2>3 DEF Closed, Narrows, Persists
<1> QED
  BY <1>1 DEF Closed

LEMMA LookedStays ==
  ASSUME Ordered, Narrows, Persists, NEW l, Seen(l), NEW m, Owing(m), Looked(l, m)
  PROVE  Looked(l, m)'
<1>1. /\ \A e \in l.elig \cup l.held \cup l.pres : e \in Events /\ Published(e)
      /\ \A e \in m.kept : Published(e)
  BY DEF Seen, Looks, Looked, Owing
<1>2. l.held \subseteq l.elig /\ \A e \in l.pres : Published(e)'
  BY <1>1 DEF Looked, Persists
<1>3. ASSUME NEW f \in Events, Awaited(f)'
      PROVE  /\ f \in l.pres => f \in m.delivered
             /\ f \notin l.held
             /\ f \in m.kept => f \in l.elig
             /\ \A g \in l.elig : f <= g => f \in l.elig
  <2>1. CASE Awaited(f)
    BY <2>1 DEF Looked
  <2>2. CASE ~Published(f)
    <3>1. ASSUME NEW g \in l.elig, f <= g PROVE FALSE
      <4>1. g \in Events /\ Published(g)
        BY <1>1
      <4>2. f < g \/ f = g
        BY <3>1, <4>1, EventsAre
      <4> QED
        BY <2>2, <4>1, <4>2 DEF Ordered
    <3> QED
      BY <1>1, <2>2, <3>1
  <2> QED
    BY <1>3, <2>1, <2>2 DEF Narrows
<1> QED
  BY <1>2, <1>3 DEF Looked

LEMMA UnshownStays ==
  ASSUME Narrows, NEW S, \A e \in S : Published(e), Unshown(S)
  PROVE  Unshown(S)'
BY DEF Unshown, Narrows

LEMMA SafeStays ==
  ASSUME World, Ordered, Narrows, Safe, cursor' = cursor
  PROVE  Safe'
<1> SUFFICES ASSUME NEW f \in Events, Awaited(f)' PROVE f > cursor
  BY DEF Safe
<1>1. CASE Awaited(f)
  BY <1>1 DEF Safe
<1>2. CASE ~Published(f)
  <2>1. CASE cursor = 0
    BY <2>1, EventsAre
  <2>2. CASE cursor \in Events /\ Published(cursor)
    <3>1. ~(f < cursor) /\ f # cursor
      BY <1>2, <2>2 DEF Ordered
    <3> QED
      BY <2>2, <3>1, EventsAre
  <2> QED
    BY <2>1, <2>2 DEF Ordered
<1> QED
  BY <1>1, <1>2 DEF Narrows

\* A row ages that all who look, and the file, have retained.
LEMMA OthersAge ==
  ASSUME Sound, Sound', Histories, ~hist'.lost,
         \/ \E k \in Kinds, t \in Terminals, busy \in BOOLEAN : Publish(k, t, busy)
         \/ OwnerMoves \/ (\E t \in Terminals : PeerIdle(t) \/ PeerLeaves(t))
         \/ \E e \in Events : RowMoves(e)
  PROVE  /\ Ages(file) /\ (hook.pc # "none" => Ages(hook.mem))
         /\ \A p \in Pids : wait[p].pc = "look" \/ wait[p].conn.owner = "self" => Ages(wait[p].mem)
<1>0. World /\ World'
  BY DEF Sound
<1>1. CASE NoneAges
  BY <1>1 DEF NoneAges, Ages
<1>2. CASE \E e \in Events : RowMoves(e)
  <2>1. PICK e \in Events : RowMoves(e)
    BY <1>2
  <2>2. CASE row[e].st = "delivered" /\ Remembered(e) /\ hist' = [hist EXCEPT !.lost = @ \/ e \notin file.kept]
             /\ row' = [row EXCEPT ![e].st = "aged"]
    <3>1. e \in file.kept
      BY <2>2 DEF Histories
    <3>2. \A f \in Events : row'[f].st = "aged" => row[f].st = "aged" \/ f = e
      BY <2>2, <1>0 DEF World, Rows
    <3>3. hook.pc # "none" => e \in hook.mem.kept
      BY <2>2 DEF Remembered
    <3>4. ASSUME NEW p \in Pids, wait[p].pc = "look" \/ wait[p].conn.owner = "self"
          PROVE  e \in wait[p].mem.kept
      BY <2>2, <3>4 DEF Remembered
    <3> QED
      BY <3>1, <3>2, <3>3, <3>4 DEF Ages
  <2>3. CASE \E st \in {"pending", "void", "gone"} : row' = [row EXCEPT ![e].st = st]
    <3>1. NoneAges
      BY <1>0, <2>3 DEF World, Rows, NoneAges
    <3> QED
      BY <1>1, <3>1
  <2> QED
    BY <2>1, <2>2, <2>3 DEF RowMoves
<1>3. NoneAges \/ \E e \in Events : RowMoves(e)
  BY <1>0, PublishNarrows, OthersNarrow
<1> QED
  BY <1>1, <1>2, <1>3

LEMMA WaiterStaysMindful ==
  ASSUME Ordered, Narrows, Recedes, Persists, NEW w, NEW s, WaiterMindful(w, s), Mindful(s),
         Owing(s), Owing(w.mem), Answered(w.conn), Seen(w.look),
         w.pc = "look" \/ w.conn.owner = "self" => Ages(w.mem)
  PROVE  WaiterMindful(w, s)'
<1>1. Closed(w.conn)'
  BY ClosedStays DEF WaiterMindful
<1>2. w.pc \in {"look", "commit", "commitW", "rearmW", "staleW"} => Mindful(w.mem)'
  BY MindfulStays DEF WaiterMindful
<1>3. w.pc = "commit" => Looked(w.look, w.mem)'
  BY LookedStays DEF WaiterMindful
<1>4. ASSUME w.verify, w.pc \in {"look", "commit", "commitW"} PROVE Unshown(w.mem.presented)'
  BY <1>4, UnshownStays DEF WaiterMindful, Mindful
<1>5. ASSUME w.verify, w.pc = "commit" PROVE Unshown(w.look.pres)'
  BY <1>5, UnshownStays DEF WaiterMindful, Looked
<1>6. ASSUME w.pc = "stale" \/ (w.verify /\ w.pc \in {"look", "commit"}), w.epoch = s.epoch
      PROVE  Unshown(s.presented)'
  BY <1>6, UnshownStays DEF WaiterMindful, Mindful
<1>7. /\ Covers(s, w.conn) => Covers(s, w.conn)'
      /\ Covers(w.mem, w.conn) => Covers(w.mem, w.conn)'
      /\ Measured(w.look, w.mem, w.conn) => Measured(w.look, w.mem, w.conn)'
  BY CoversStays, MeasuredStays
<1> QED
  BY <1>1, <1>2, <1>3, <1>4, <1>5, <1>6, <1>7 DEF WaiterMindful

LEMMA OthersMindful ==
  ASSUME Sound, Sound', Histories, ~hist'.lost, Ordered, AllMindful,
         \/ \E k \in Kinds, t \in Terminals, busy \in BOOLEAN : Publish(k, t, busy)
         \/ OwnerMoves \/ (\E t \in Terminals : PeerIdle(t) \/ PeerLeaves(t))
         \/ \E e \in Events : RowMoves(e)
  PROVE  AllMindful'
<1>0. World /\ World' /\ Mindful(file) /\ HookMindful(hook) /\ Owing(file) /\ HookSound(hook)
  BY DEF Sound, AllMindful
<1>6. /\ Narrows /\ Persists /\ UNCHANGED <<cursor, file, hook>> /\ (wait' = wait \/ wait' = Pushed)
  BY <1>0, PublishNarrows, OthersNarrow
<1>1. /\ Narrows /\ Persists /\ UNCHANGED <<file, hook>> /\ (wait' = wait \/ wait' = Pushed)
      /\ Recedes
  BY <1>0, <1>6, OthersRecede
<1>2. /\ Ages(file) /\ (hook.pc # "none" => Ages(hook.mem))
      /\ \A p \in Pids : wait[p].pc = "look" \/ wait[p].conn.owner = "self" => Ages(wait[p].mem)
  BY OthersAge
<1>3. Mindful(file)'
  <2>1. \A s : Owing(s) /\ Mindful(s) /\ Ages(s) => Mindful(s)'
    BY <1>1, MindfulStays
  <2> QED
    BY <2>1, <1>0, <1>1, <1>2 DEF Mindful
<1>4. HookMindful(hook)'
  <2> DEFINE m == hook.mem
             c == hook.conn
  <2>1. Owing(m) /\ Answered(c)
    BY <1>0 DEF HookSound
  <2>2. Closed(c)'
    BY <1>0, <1>1, <2>1, ClosedStays DEF HookMindful
  <2>3. Mindful(m) /\ Ages(m) => Mindful(m)'
    BY <1>1, <2>1, MindfulStays
  <2>4. Covers(m, c) => Covers(m, c)'
    BY <1>1, <2>1, CoversStays
  <2> QED
    BY <1>0, <1>1, <1>2, <2>2, <2>3, <2>4 DEF HookMindful, Closed, Mindful, Covers
<1>5. ASSUME NEW p \in Pids PROVE WaiterMindful(wait[p], file)'
  <2> DEFINE w == wait'[p]
  <2>1. /\ WaiterMindful(wait[p], file) /\ WaiterSound(wait[p]) /\ wait[p] \in Waiters
        /\ wait \in [Pids -> Waiters]
    BY WaiterIs DEF Sound, AllMindful
  <2>2. w = wait[p] \/ w = [wait[p] EXCEPT !.push = TRUE]
    BY <1>1 DEF Pushed
  <2>3. /\ w.pc = wait[p].pc /\ w.mem = wait[p].mem /\ w.conn = wait[p].conn /\ w.look = wait[p].look
    BY <2>1, <2>2 DEF Waiters
  <2>4. WaiterMindful(w, file) /\ Owing(w.mem) /\ Answered(w.conn) /\ Seen(w.look)
    BY <1>0, <2>1, <2>2, <2>3, BystanderMindful DEF WaiterSound, Owing
  <2>5. w.pc = "look" \/ w.conn.owner = "self" => Ages(w.mem)
    BY <1>2, <2>3
  <2>6. \A v : /\ WaiterMindful(v, file) /\ Owing(v.mem) /\ Answered(v.conn) /\ Seen(v.look)
               /\ v.pc = "look" \/ v.conn.owner = "self" => Ages(v.mem)
               => WaiterMindful(v, file)'
    <3> SUFFICES ASSUME NEW v, NEW s, s = file, Mindful(s), WaiterMindful(v, s), Owing(v.mem),
                        Answered(v.conn), Seen(v.look), Owing(s),
                        v.pc = "look" \/ v.conn.owner = "self" => Ages(v.mem)
                 PROVE  WaiterMindful(v, s)'
      BY <1>0, <1>1
    <3> QED
      BY <1>1, WaiterStaysMindful
  <2> QED
    BY <2>4, <2>5, <2>6
<1> QED
  BY <1>3, <1>4, <1>5 DEF AllMindful

----------------------------------------------------------------------------
(* The session claims the workspace with nothing in its copies; from then on they are
   mindful, whatever it and the others do *)

LEMMA EmptyMindful ==
  ASSUME Unclaimed, NEW s, Empty(s)
  PROVE  Mindful(s) /\ \A c : c.list = {} => Covers(s, c)
BY DEF Unclaimed, Empty, Mindful, Covers, Lists, Room

LEMMA ClaimMindful ==
  ASSUME Sound, Unclaimed, Claims, owner = "none", owner' = "self"
  PROVE  /\ Mindful(file') /\ HookMindful(hook')
         /\ \A p \in Pids : WaiterMindful(wait'[p], file')
<1>0. hook \in Hooks /\ hook.mem \in Files /\ Empty(hook.mem) /\ World
  BY DEF Sound, HookSound, Hooks, Unclaimed, BlankHook
<1> DEFINE mem == [hook.mem EXCEPT !.claimed = TRUE]
           conn == [Conn EXCEPT !.owner = "self"]
<1>1. file' = mem /\ wait' = wait
      /\ hook' = [hook EXCEPT !.pc = "owner", !.mem = mem, !.conn = conn]
  BY DEF Claims, HookSaves, Save, Rests
<1>2. Empty(mem) /\ mem \in Files
  BY <1>0 DEF Empty, Files
<1>3. conn.list = {} /\ conn.owner = "self"
  BY NothingListed DEF Conn
<1> HIDE DEF mem, conn
<1>4. hook'.pc = "owner" /\ hook'.mem = mem /\ hook'.conn = conn
  BY <1>0, <1>1 DEF Hooks
<1>5. Mindful(mem) /\ Covers(mem, conn)
  BY <1>2, <1>3, EmptyMindful
<1>6. HookMindful(hook')
  BY <1>3, <1>4, <1>5 DEF HookMindful, Closed
<1>7. ASSUME NEW p \in Pids PROVE WaiterMindful(wait[p], file')
  <2>1. BlankWaiter(wait[p])
    BY DEF Unclaimed
  <2>2. Mindful(wait[p].mem)
    BY <2>1, EmptyMindful DEF BlankWaiter
  <2> QED
    BY <2>1, <2>2 DEF BlankWaiter, WaiterMindful, Closed, NoConn
<1> QED
  BY <1>1, <1>5, <1>6, <1>7

\* The copies of the session, after a step of its own.
LEMMA OwnMindful ==
  ASSUME Sound, Readable, OneGate, Timely, Distinct, Sole, Safe, AllMindful, owner = "self",
         Histories, Gated, ~hist'.lost, Sound', Next,
         \/ TurnBegins \/ TurnEnds \/ Aborts \/ HookStep
         \/ RearmStep \/ \E killed \in BOOLEAN : Restarts(killed)
         \/ \E p \in Pids : WaiterStep(p) \/ Quits(p) \/ CallFails(p)
  PROVE  AllMindful' /\ Safe'
<1>0. /\ World /\ HookInTurn /\ file \in Files /\ hook \in Hooks
      /\ Mindful(file) /\ HookMindful(hook) /\ wait \in [Pids -> Waiters]
      /\ \A p \in Pids : WaiterMindful(wait[p], file)
  BY DEF Sound, HookSound, Owing, OneGate, AllMindful
<1>1. Next
  OBVIOUS
<1>2. Serves
  BY HookServes, DaemonServes, WaiterServes
\* A waiter that does not move.
<1>3. ASSUME NEW p \in Pids, ~(WaiterStep(p) \/ Quits(p) \/ CallFails(p))
      PROVE  WaiterMindful(wait'[p], file')
  <2>1. FileKeeps(p)
    BY <1>0, <1>1, <1>3, OthersBystand
  <2>2. \/ wait'[p] = wait[p] \/ wait'[p] = [wait[p] EXCEPT !.push = TRUE]
        \/ /\ wait'[p].pc \in {"off", "top"} /\ wait'[p].conn = NoConn
           /\ wait'[p].pc = "top" => ~wait'[p].verify
    BY <1>1, <1>3, BystandsFresh
  <2>3. (/\ wait[p].pc \in {"look", "commit", "commitW", "trigger", "rearm", "rearmW", "stale"}
         /\ wait[p].epoch = file'.epoch)
        => /\ wait[p].epoch = file.epoch /\ file'.presented \subseteq file.presented
           /\ file'.kept = file.kept /\ file'.delivered = file.delivered /\ file'.pending = file.pending
           /\ file.presented \subseteq file'.presented \cup file.delivered
    BY <2>1 DEF FileKeeps, Under, UnderPlaces
  <2>4. wait[p] \in Waiters /\ WaiterMindful(wait[p], file)
    BY <1>0
  <2> QED
    BY <1>0, <2>2, <2>3, <2>4, BystanderMindful
<1>4. ASSUME Mindful(file'), HookMindful(hook'), \A p \in Pids : WaiterMindful(wait'[p], file'),
             \E S \in SUBSET Events : cursor' = AckedTo(S) /\ Harmless(S) /\ Spared(S)
      PROVE  AllMindful' /\ Safe'
  <2>1. cursor <= cursor'
    BY <1>0, <1>4, AckedToIs DEF World, Sound
  <2> QED
    BY <1>0, <1>2, <1>4, <2>1, ServedMindful, SafeServed
<1>5. CASE TurnBegins \/ TurnEnds \/ Aborts \/ HookStep
  <2>1. /\ Mindful(file') /\ HookMindful(hook')
        /\ \E S \in SUBSET Events : cursor' = AckedTo(S) /\ Harmless(S) /\ Spared(S)
    BY <1>5, HookStepMindful
  <2>2. ASSUME NEW p \in Pids PROVE WaiterMindful(wait'[p], file')
    <3>1. CASE WaiterStep(p) \/ Quits(p) \/ CallFails(p)
      BY <3>1, <1>0, WaiterStepMindful
    <3> QED
      BY <3>1, <1>3
  <2> QED
    BY <1>4, <2>1, <2>2
<1>6. ASSUME NEW p \in Pids, WaiterStep(p) \/ Quits(p) \/ CallFails(p) PROVE AllMindful' /\ Safe'
  <2>1. /\ Mindful(file') /\ WaiterMindful(wait'[p], file')
        /\ \E S \in SUBSET Events : cursor' = AckedTo(S) /\ Harmless(S) /\ Spared(S)
    BY <1>6, WaiterStepMindful
  <2>2. hook' = hook
    BY <1>6 DEF WaiterStep, Top, Peek, LooksInVain, Commit, CommitWrites, Trigger, Rearm, RearmWrites,
                Clears, ClearWrites, Prompts, ClearsPid, PidCleared, Quits, CallFails, WaitsOn
  <2>3. ASSUME NEW q \in Pids PROVE WaiterMindful(wait'[q], file')
    <3>1. CASE WaiterStep(q) \/ Quits(q) \/ CallFails(q)
      BY <3>1, <1>0, WaiterStepMindful
    <3> QED
      BY <3>1, <1>3
  <2> QED
    BY <1>0, <1>4, <2>1, <2>2, <2>3
<1>7. CASE RearmStep \/ \E killed \in BOOLEAN : Restarts(killed)
  <2>1. Daemonic
    BY <1>7 DEF RearmStep, Scans, Matches, PidDropped, PidRecorded, Writes, Respawns, Records, Restarts
  <2>2. hook' = hook /\ cursor' = cursor
    BY <2>1 DEF Daemonic, daemonVars
  <2>3. Mindful(file')
    <3>1. CASE PidDropped \/ PidRecorded
      <4>1. Save(Daemon, rearm.mem) /\ rearm.pc \in {"clear", "record"}
            /\ hist' = [hist EXCEPT !.lost = @ \/ Clobbers(Daemon)]
        BY <3>1 DEF PidDropped, PidRecorded, Writes
      <4>2. Daemon \notin stale /\ file' = rearm.mem
        BY <4>1, NotLost DEF Save
      <4>3. \E x : file' = [file EXCEPT !.pid = x]
        BY <4>1, <4>2 DEF Timely, DaemonExact
      <4> QED
        BY <1>0, <4>3, MindfulCopies
    <3>2. CASE ~(PidDropped \/ PidRecorded)
      <4>1. file' = file
        BY <1>7, <3>2 DEF RearmStep, Scans, Matches, Respawns, Records, Restarts, Keeps
      <4> QED
        BY <1>0, <4>1
    <3> QED
      BY <3>1, <3>2
  <2>4. ASSUME NEW p \in Pids PROVE WaiterMindful(wait'[p], file')
    <3>1. CASE WaiterStep(p) \/ Quits(p) \/ CallFails(p)
      BY <3>1, <1>0, WaiterStepMindful
    <3> QED
      BY <3>1, <1>3
  <2> QED
    BY <1>0, <1>4, <2>2, <2>3, <2>4, NothingAcked
<1> QED
  BY <1>5, <1>6, <1>7

LEMMA MindedStays ==
  ASSUME Sound, Sound', Readable, OneGate, Ordered, Blank, hist.lost \/ Timely, Apart,
         hist.lost \/ hist.twins \/ Sole, hist.lost \/ hist.twins \/ Minded, [Next]_vars
  PROVE  (hist.lost \/ hist.twins \/ Minded)'
<1>1. SUFFICES ASSUME ~hist'.lost, ~hist'.twins PROVE Minded'
  OBVIOUS
<1>2. Histories /\ Gated /\ Timely /\ Distinct /\ Sole /\ Minded /\ World
  BY <1>1, HistoriesGrow DEF OneGate, Remembers, Apart, Sound
<1>3. CASE UNCHANGED vars
  <2>1. /\ UNCHANGED <<file, hook, wait, cursor, owner>> /\ Serves /\ cursor <= cursor'
    BY <1>2, <1>3 DEF vars, daemonVars, hostVars, Serves, World
  <2>2. Safe'
    BY <1>2, <2>1, RowsMove, SafeStays DEF Minded
  <2>3. ASSUME owner = "self" PROVE AllMindful'
    <3>1. AllMindful
      BY <1>2, <2>3 DEF Minded
    <3>2. /\ Mindful(file') /\ HookMindful(hook')
          /\ \A p \in Pids : WaiterMindful(wait'[p], file')
      BY <2>1, <3>1 DEF AllMindful
    <3> QED
      BY <1>2, <2>1, <3>2, ServedMindful
  <2> QED
    BY <2>1, <2>2, <2>3 DEF Minded
<1>4. ASSUME Next, owner # "self" PROVE Minded'
  <2>1. PICK S \in SUBSET Events : cursor' = AckedTo(S) /\ Harmless(S)
    BY <1>4, CursorMoves
  <2>2. cursor' = cursor
    BY <1>4, <2>1 DEF Harmless, AckedTo
  <2>3. Safe'
    BY <1>2, <2>2, RowsMove, SafeStays DEF Minded
  <2>4. CASE owner' = "self"
    <3>1. Claims /\ owner = "none"
      BY <1>4, <2>4, OwnerMovesOn
    <3>2. Unclaimed
      BY <3>1 DEF Blank
    <3>3. Serves
      BY <3>1, HookServes DEF HookStep
    <3>5. cursor <= cursor'
      BY <1>2, <2>2 DEF World
    <3>4. AllMindful'
      BY <1>2, <2>4, <3>1, <3>2, <3>3, <3>5, ClaimMindful, ServedMindful
    <3> QED
      BY <2>3, <3>4 DEF Minded
  <2> QED
    BY <2>3, <2>4 DEF Minded
<1>5. ASSUME Next, owner = "self" PROVE Minded'
  <2>1. Safe /\ AllMindful
    BY <1>2, <1>5 DEF Minded
  <2>2. CASE \/ TurnBegins \/ TurnEnds \/ Aborts \/ HookStep
             \/ RearmStep \/ \E killed \in BOOLEAN : Restarts(killed)
             \/ \E p \in Pids : WaiterStep(p) \/ Quits(p) \/ CallFails(p)
    BY <1>1, <1>2, <1>5, <2>1, <2>2, OwnMindful DEF Minded
  <2>3. CASE \/ \E k \in Kinds, t \in Terminals, busy \in BOOLEAN : Publish(k, t, busy)
             \/ OwnerMoves \/ (\E t \in Terminals : PeerIdle(t) \/ PeerLeaves(t))
             \/ \E e \in Events : RowMoves(e)
    <3>1. AllMindful'
      BY <1>1, <1>2, <2>1, <2>3, OthersMindful
    <3>2. cursor' = cursor
      BY <2>3 DEF Publish, OwnerMoves, PeerIdle, PeerLeaves, RowMoves
    <3>3. Safe'
      BY <1>2, <2>1, <3>2, RowsMove, SafeStays
    <3> QED
      BY <3>1, <3>3 DEF Minded
  <2> QED
    BY <1>5, <2>2, <2>3, Steps
<1> QED
  BY <1>3, <1>4, <1>5

LEMMA InitMinded ==
  ASSUME Init
  PROVE  Minded
<1>1. \A e \in Events : row[e].st = "none"
  BY DEF Init
<1>2. \A f \in Events : ~Awaited(f)
  BY <1>1 DEF Awaited
<1>3. /\ file = NoFile /\ hook = NoHook /\ \A p \in Pids : wait[p] = NoWaiter
  BY DEF Init
<1>4. Mindful(file) /\ HookMindful(hook)
  BY <1>2, <1>3, NothingMindful DEF Mindful, Room, NoFile
<1>5. \A p \in Pids : WaiterMindful(wait[p], file)
  BY <1>3, NothingMindful
<1> QED
  BY <1>2, <1>4, <1>5 DEF Minded, Safe, AllMindful

LEMMA AlwaysMinded ==
  ASSUME Readable
  PROVE  Spec => [](hist.lost \/ hist.twins \/ Minded)
<1>1. Init => Minded
  BY InitMinded
<1>2. /\ Sound /\ Sound' /\ OneGate /\ Ordered /\ Blank /\ (hist.lost \/ Timely) /\ Apart
      /\ (hist.lost \/ hist.twins \/ Sole) /\ (hist.lost \/ hist.twins \/ Minded) /\ [Next]_vars
      => (hist.lost \/ hist.twins \/ Minded)'
  BY MindedStays
<1> QED
  BY <1>1, <1>2, AlwaysSound, AlwaysOneGate, AlwaysOrdered, AlwaysBlank, AlwaysTimely, AlwaysApart,
     AlwaysSole, PTL DEF Spec

\* No order of drops, aborted turns, retries, failed acks, reclaimed rows, moved panes
\* and restarts acknowledges an answer the agent has not been shown: flushDeliveredAcks
\* sends what the transcript confirms below everything that waits, ackSuppressedInOrder
\* what is suppressed below everything that is deferred or delivered.  Readable: where
\* no transcript can be read, the hook takes what it has handed out for seen.  No limit on
\* the retained ids (retainedCandidateEventLimit) cuts off one that is awaited.
THEOREM NothingSwallowedAlways ==
  ASSUME Readable
  PROVE  Spec => []NothingSwallowed
<1>1. Sound /\ (hist.lost \/ hist.twins \/ Minded) => NothingSwallowed
  <2> SUFFICES ASSUME World, Safe, NEW e \in Events, Published(e), e <= cursor, IsResult(e),
                      e \notin told, ~Moot(e)
               PROVE  FALSE
    BY DEF Sound, Minded, NothingSwallowed, Published
  <2>1. e > cursor
    BY DEF Safe, Awaited, Published
  <2> QED
    BY <2>1, EventsAre DEF World
<1> QED
  BY <1>1, AlwaysSound, AlwaysMinded, PTL
=============================================================================
