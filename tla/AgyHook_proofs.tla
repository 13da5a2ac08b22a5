--------------------------- MODULE AgyHook_proofs ---------------------------
(* Proofs about the session state of an agy agent, for any number of events,
   terminals, waiters, turns and failures.

   Nothing locks the file, so what holds of it must hold of every copy a process
   has taken, however old: Owing is said of the file and of each copy, and is kept
   by what the others do in the meantime because rows are only ever published,
   their kind is fixed, and the acknowledged event never goes back (Onward).

   Which waiter may prompt is another matter: that is settled by the generation and
   the pid in the file, and a copy that is written back late takes both with it.  So
   the second part is about the time in which no write has been lost (OneGate). *)
EXTENDS AgyHook, TLAPS, WellFoundedInduction

Files ==
  [epoch : Nat, wepoch : Nat, pid : Pids \cup {NoPid}, awaiting : BOOLEAN,
   claimed : BOOLEAN, presented : SUBSET Events, delivered : SUBSET Events,
   pending : SUBSET Events, deferred : SUBSET Events, kept : SUBSET Events]
Conns == [at : Nat, list : SUBSET Events, owner : {"self", "other", "none"}]
HookPlaces == {"none", "preW", "reg", "claim", "owner", "take", "abortW", "spawn", "pidW", "give"}
Hooks == [pc : HookPlaces, ev : {"pre", "stop"}, mem : Files, conn : Conns,
          held : SUBSET Events, again : BOOLEAN, batch : SUBSET Events]
Looks == [any : BOOLEAN, outs : BOOLEAN, elig : SUBSET Events, pres : SUBSET Events,
          deferred : SUBSET Events, held : SUBSET Events]
WaiterPlaces == {"off", "top", "look", "commit", "commitW", "trigger", "rearm", "rearmW",
                 "stale", "staleW", "prompt", "done", "doneW", "exit", "byeW"}
Waiters == [pc : WaiterPlaces, epoch : Nat, mem : Files, conn : Conns, first : BOOLEAN,
            check : BOOLEAN, push : BOOLEAN, retry : BOOLEAN, grace : BOOLEAN,
            owed : BOOLEAN, targets : SUBSET Events, verify : BOOLEAN, look : Looks,
            tries : Nat, errors : Nat]
Rearms == [pc : {"none", "scan", "match", "clear", "spawn", "check", "record"},
           epoch : Nat, was : Pids \cup {NoPid}, pid : Pids \cup {NoPid}, mem : Files]
AllKinds == {"completed", "empty", "failed", "fallback", "noise"}
Places == Terminals \cup {CHOOSE t \in Terminals : TRUE}
Rows == [Events -> [st : {"none", "pending", "delivered", "aged", "void", "gone"},
                    kind : AllKinds, term : Places]]

World ==
  /\ row \in Rows /\ cursor \in Nat /\ owner \in {"self", "other", "none"}
  /\ told \subseteq Events

Published(e) == row[e].st # "none"
Mute(e) == row[e].kind \in {"noise", "empty"}
\* Its acknowledgement is out of the way of the next batch.
Settled(e) == e <= cursor \/ Overtaken(e)

\* What is true of the file and of every copy of it.
Owing(s) ==
  /\ s \in Files
  /\ \A e \in s.delivered \cup s.pending \cup s.kept : Published(e)
  /\ \A e \in s.delivered : ~Mute(e)
  /\ \A e \in s.pending : e \in s.presented \/ Settled(e)
  /\ \A e \in s.pending : e \in s.delivered => Settled(e)
\* A list the daemon has answered with, then or before.
Answered(c) == c \in Conns /\ c.at <= cursor /\ \A e \in c.list : Published(e)
Seen(l) ==
  /\ l \in Looks
  /\ \A e \in l.elig : Published(e)
  /\ \A e \in l.held : e \in l.pres /\ Published(e) /\ (Mute(e) \/ Overtaken(e))

HookSound(h) == h \in Hooks /\ Owing(h.mem) /\ Answered(h.conn)
WaiterSound(w) == w \in Waiters /\ Owing(w.mem) /\ Answered(w.conn) /\ Seen(w.look)
RearmSound(r) == r \in Rearms /\ Owing(r.mem)

Sound ==
  /\ World /\ Owing(file) /\ HookSound(hook) /\ RearmSound(rearm)
  /\ wait \in [Pids -> Waiters] /\ \A p \in Pids : WaiterSound(wait[p])

----------------------------------------------------------------------------
(* Sets of events *)

\* A set of naturals has a least one.
LEMMA LeastExists ==
  ASSUME NEW T \in SUBSET Nat, T # {}
  PROVE  \E x \in T : \A y \in T : x <= y
<1>1. PICK x \in T : \A y \in T : ~(<<y, x>> \in OpToRel(<, Nat))
  BY WFMin, NatLessThanWellFounded
<1>2. \A y \in T : ~(y < x)
  BY <1>1 DEF OpToRel
<1> QED
  BY <1>2

\* A set of events has a last one.
LEMMA LastExists ==
  ASSUME NEW S \in SUBSET Events, S # {}
  PROVE  \E x \in S : \A y \in S : y <= x
<1>1. MaxEvent \in Nat
  BY AgyAssumption
<1>2. PICK x \in {MaxEvent - i : i \in S} : \A y \in {MaxEvent - i : i \in S} : x <= y
  <2>1. {MaxEvent - i : i \in S} \in SUBSET Nat
    BY <1>1, Z3 DEF Events
  <2>2. {MaxEvent - i : i \in S} # {}
    OBVIOUS
  <2> QED
    BY <2>1, <2>2, LeastExists
<1>3. PICK m \in S : x = MaxEvent - m
  OBVIOUS
<1>4. \A j \in S : j <= m
  <2> SUFFICES ASSUME NEW j \in S PROVE j <= m
    OBVIOUS
  <2>1. MaxEvent - m <= MaxEvent - j
    BY <1>2, <1>3
  <2> QED
    BY <1>1, <2>1 DEF Events
<1> QED
  BY <1>4

\* An acknowledgement never takes the cursor back.
LEMMA AckedToForward ==
  ASSUME cursor \in Nat, NEW S \in SUBSET Events
  PROVE  AckedTo(S) \in Nat /\ cursor <= AckedTo(S)
<1> DEFINE ok == {e \in S : Answer(e) = "ok" /\ e > cursor}
<1>1. CASE ok = {}
  BY <1>1 DEF AckedTo
<1>2. CASE ok # {}
  <2>1. \E x \in ok : \A y \in ok : y <= x
    BY <1>2, LastExists
  <2>2. AckedTo(S) = CHOOSE x \in ok : \A y \in ok : y <= x
    BY <1>2 DEF AckedTo
  <2>3. AckedTo(S) \in ok
    <3> HIDE DEF ok
    <3> QED
      BY <2>1, <2>2
  <2>4. AckedTo(S) \in Events /\ AckedTo(S) > cursor
    BY <2>3
  <2> HIDE DEF ok
  <2> DEFINE a == AckedTo(S)
  <2>5. a \in Nat /\ a > cursor
    <3> HIDE DEF a
    <3> USE <2>4 DEF a
    <3> QED
      BY AgyAssumption DEF Events
  <2> QED
    BY <2>5
<1> QED
  BY <1>1, <1>2

\* What projectAgyOutcomes makes of candidates: the three parts are apart, an
\* outcome has a text, and what is suppressed has none or is overtaken.
LEMMA ProjectionParts ==
  ASSUME World, NEW C \in SUBSET Events, \A e \in C : Published(e), NEW busy
  PROVE  /\ Projection(C, busy).deferred \subseteq C
         /\ Projection(C, busy).suppressed \subseteq C
         /\ Projection(C, busy).outcomes \subseteq C
         /\ \A e \in Projection(C, busy).outcomes : ~Mute(e)
         /\ \A e \in Projection(C, busy).suppressed : Mute(e) \/ Overtaken(e)
         /\ \A e \in Projection(C, busy).outcomes : e \notin Projection(C, busy).suppressed
<1> DEFINE deferred == {e \in C : IsCompletion(e) /\ row[e].term \in busy}
           older == {e \in C : /\ IsCompletion(e)
                               /\ \E f \in C : /\ f > e /\ SamePane(e, f)
                                               /\ row[f].kind = "completed"}
           shadowed == {e \in C : /\ row[e].kind = "fallback"
                                  /\ \E f \in C : IsCompletion(f) /\ SamePane(e, f)}
           mute == {e \in C : row[e].kind \in {"noise", "empty"}}
           suppressed == (older \cup shadowed \cup mute) \ deferred
           P == Projection(C, busy)
<1>1. P.deferred = deferred /\ P.suppressed = suppressed
      /\ P.outcomes = C \ (deferred \cup suppressed)
  BY DEF Projection
<1>2. \A e \in older \cup shadowed : Overtaken(e)
  BY DEF Overtaken, Published
<1>3. \A e \in mute : Mute(e)
  BY DEF Mute
<1>4. \A e \in C : Mute(e) => e \in mute
  BY DEF Mute
<1>5. /\ deferred \subseteq C /\ suppressed \subseteq C /\ mute \subseteq suppressed \cup deferred
      /\ suppressed \subseteq older \cup shadowed \cup mute
  OBVIOUS
<1> HIDE DEF deferred, older, shadowed, mute, suppressed, P
<1> QED
  BY <1>1, <1>2, <1>3, <1>4, <1>5 DEF P

\* What a look may consider is known, and published.
LEMMA EligibleIs ==
  ASSUME NEW s, Owing(s), NEW c, Answered(c), NEW ok
  PROVE  /\ Eligible(s, c, ok) \in SUBSET Events
         /\ \A e \in Eligible(s, c, ok) : Published(e) /\ e > c.at
BY DEF Owing, Answered, Eligible, Known, Files, Conns

\* What is still presented after an answer of the daemon.
LEMMA UnackedIs ==
  ASSUME NEW s \in Files, NEW c
  PROVE  /\ Unacked(s, c) \in SUBSET Events
         /\ \A e \in Unacked(s, c) : e \in s.presented
         /\ \A e \in s.presented : e > c.at => e \in Unacked(s, c)
BY DEF Unacked, Files

LEMMA KeptIs ==
  ASSUME NEW S \in SUBSET Events, NEW P, NEW D
  PROVE  Kept(S, P, D) \in SUBSET Events /\ Kept(S, P, D) \subseteq S
BY DEF Kept, Lowest

LEMMA SettlingIs ==
  ASSUME NEW S \in SUBSET Events, NEW H, NEW cut
  PROVE  Settling(S, H, cut).done \subseteq S /\ Settling(S, H, cut).held \subseteq S
BY DEF Settling

----------------------------------------------------------------------------
(* What the daemon and the other processes do meanwhile *)

\* Rows are only published, never changed in kind or terminal, and the cursor
\* only goes forward.
Onward ==
  /\ cursor <= cursor'
  /\ \A e \in Events : Published(e) => /\ Published(e)' /\ row'[e].kind = row[e].kind
                                        /\ row'[e].term = row[e].term

LEMMA OvertakenStays ==
  ASSUME World, World', Onward, NEW e \in Events, Published(e)
  PROVE  /\ Overtaken(e) => Overtaken(e)'
         /\ Mute(e)' <=> Mute(e)
         /\ Settled(e) => Settled(e)'
<1>1. Overtaken(e) => Overtaken(e)'
  BY DEF Overtaken, Onward, Published, SamePane, IsCompletion
<1>2. Mute(e)' <=> Mute(e)
  BY DEF Mute, Onward
<1>3. e <= cursor => e <= cursor'
  BY DEF World, Onward, Events
<1> QED
  BY <1>1, <1>2, <1>3 DEF Settled

LEMMA OwingStays ==
  ASSUME World, World', Onward, NEW s, Owing(s)
  PROVE  Owing(s)'
<1>1. \A e \in s.delivered \cup s.pending \cup s.kept :
        e \in Events /\ Published(e) /\ Published(e)' /\ (Settled(e) => Settled(e)')
        /\ (Mute(e)' <=> Mute(e))
  <2> SUFFICES ASSUME NEW e \in s.delivered \cup s.pending \cup s.kept
               PROVE  e \in Events /\ Published(e) /\ Published(e)'
                      /\ (Settled(e) => Settled(e)') /\ (Mute(e)' <=> Mute(e))
    OBVIOUS
  <2>1. e \in Events /\ Published(e)
    BY DEF Owing, Files
  <2>2. Published(e)'
    BY <2>1 DEF Onward
  <2> QED
    BY <2>1, <2>2, OvertakenStays
<1> QED
  BY <1>1 DEF Owing

LEMMA AnsweredStays ==
  ASSUME World, World', Onward, NEW c, Answered(c)
  PROVE  Answered(c)'
<1>1. c.at <= cursor'
  BY DEF Answered, Conns, World, Onward
<1>2. \A e \in c.list : Published(e)'
  BY DEF Answered, Conns, Onward
<1> QED
  BY <1>1, <1>2 DEF Answered

LEMMA SeenStays ==
  ASSUME World, World', Onward, NEW l, Seen(l)
  PROVE  Seen(l)'
<1>1. \A e \in l.elig : Published(e)'
  BY DEF Seen, Looks, Onward
<1>2. \A e \in l.held : Published(e)' /\ (Mute(e) \/ Overtaken(e))' /\ e \in l.pres
  <2> SUFFICES ASSUME NEW e \in l.held PROVE Published(e)' /\ (Mute(e) \/ Overtaken(e))' /\ e \in l.pres
    OBVIOUS
  <2>1. e \in Events /\ Published(e)
    BY DEF Seen, Looks
  <2>2. Published(e)'
    BY <2>1 DEF Onward
  <2> QED
    BY <2>1, <2>2, OvertakenStays DEF Seen
<1> QED
  BY <1>1, <1>2 DEF Seen

\* So what a process holds stays sound while it does not move.
LEMMA HookStays ==
  ASSUME World, World', Onward, NEW h, HookSound(h)
  PROVE  HookSound(h)'
BY OwingStays, AnsweredStays DEF HookSound
LEMMA WaiterStays ==
  ASSUME World, World', Onward, NEW w, WaiterSound(w)
  PROVE  WaiterSound(w)'
BY OwingStays, AnsweredStays, SeenStays DEF WaiterSound
LEMMA RearmStays ==
  ASSUME World, World', Onward, NEW r, RearmSound(r)
  PROVE  RearmSound(r)'
BY OwingStays DEF RearmSound

----------------------------------------------------------------------------
(* What the processes make of a copy *)

\* A copy that owes no more than the one it was made of, and presents what it
\* still owes.
LEMMA OwingLess ==
  ASSUME NEW s, Owing(s), NEW t \in Files,
         t.delivered \subseteq s.delivered, t.pending \subseteq s.pending,
         \A e \in t.kept : Published(e),
         \A e \in t.pending : e \in s.presented => e \in t.presented \/ Settled(e)
  PROVE  Owing(t)
BY DEF Owing

\* takeNextWakeBatch without a candidate.
LEMMA TakeNoneOwing ==
  ASSUME World, NEW s, Owing(s), NEW c, Answered(c), NEW ok
  PROVE  Owing(TakeNone(s, c, ok))
<1> DEFINE t == TakeNone(s, c, ok)
<1>1. s \in Files /\ Eligible(s, c, ok) \in SUBSET Events
  BY EligibleIs DEF Owing
<1>2. Unacked(s, c) \in SUBSET Events
  BY <1>1, UnackedIs
<1>3. /\ Kept(Eligible(s, c, ok), Unacked(s, c), s.delivered) \in SUBSET Events
      /\ Kept(Eligible(s, c, ok), Unacked(s, c), s.delivered) \subseteq Eligible(s, c, ok)
  BY <1>1, KeptIs
<1>4. /\ t \in Files /\ t.presented = Unacked(s, c) /\ t.pending = s.pending
      /\ t.delivered \subseteq s.delivered
      /\ t.kept = Kept(Eligible(s, c, ok), Unacked(s, c), s.delivered)
  BY <1>1, <1>2, <1>3 DEF TakeNone, Files, StaleDropped
<1>5. \A e \in t.kept : Published(e)
  BY <1>3, <1>4, EligibleIs
<1>6. \A e \in t.pending : e \in s.presented => e \in t.presented \/ Settled(e)
  <2> SUFFICES ASSUME NEW e \in s.pending, e \in s.presented, ~(e \in Unacked(s, c))
               PROVE  Settled(e)
    BY <1>4
  <2>1. ~(e > c.at)
    BY <1>1, UnackedIs
  <2> QED
    BY <2>1, <1>1 DEF Settled, Answered, Conns, World, Events, Files
<1> QED
  BY <1>4, <1>5, <1>6, OwingLess

\* What is suppressed joins what is to be acknowledged without evidence.
LEMMA OwingWithHeld ==
  ASSUME NEW s, Owing(s), NEW t \in Files, NEW held \in SUBSET Events,
         NEW new \in SUBSET Events,
         t.delivered = s.delivered \cup new, t.pending = s.pending \cup held,
         \A e \in t.kept : Published(e),
         \A e \in s.presented : e \in t.presented \/ Settled(e),
         \A e \in held : e \in t.presented /\ Published(e) /\ (Mute(e) \/ Overtaken(e)),
         \A e \in new : /\ Published(e) /\ ~Mute(e) /\ e \notin held
                        /\ e \in s.presented => Settled(e)
  PROVE  Owing(t)
<1>1. \A e \in t.delivered \cup t.pending \cup t.kept : Published(e)
  BY DEF Owing
<1>2. \A e \in t.delivered : ~Mute(e)
  BY DEF Owing
<1>3. \A e \in t.pending : e \in t.presented \/ Settled(e)
  BY DEF Owing
<1>4. \A e \in t.pending : e \in t.delivered => Settled(e)
  <2> SUFFICES ASSUME NEW e \in t.pending, e \in t.delivered PROVE Settled(e)
    OBVIOUS
  <2>1. CASE e \in held
    BY <2>1, <1>2 DEF Settled
  <2>2. CASE e \in s.pending /\ e \in s.delivered
    BY <2>2 DEF Owing
  <2>3. CASE e \in s.pending /\ e \in new
    BY <2>3 DEF Owing
  <2> QED
    BY <2>1, <2>2, <2>3
<1> QED
  BY <1>1, <1>2, <1>3, <1>4 DEF Owing

\* takeNextWakeBatch that finds no outcome, and one that hands out a batch.
LEMMA TakeQuietOwing ==
  ASSUME World, NEW s, Owing(s), NEW c, Answered(c), NEW ok, NEW proj, NEW got,
         proj.deferred \in SUBSET Events,
         got.done \in SUBSET Events, got.held \in SUBSET Events,
         \A e \in got.held : Published(e) /\ (Mute(e) \/ Overtaken(e))
  PROVE  Owing(TakeQuiet(s, c, ok, proj, got))
<1> DEFINE t == TakeQuiet(s, c, ok, proj, got)
           pres == Unacked(s, c) \cup got.done \cup got.held
<1>1. s \in Files /\ Eligible(s, c, ok) \in SUBSET Events
  BY EligibleIs DEF Owing
<1>2. Unacked(s, c) \in SUBSET Events /\ pres \in SUBSET Events
  BY <1>1, UnackedIs
<1>3. /\ Kept(Eligible(s, c, ok), pres, s.delivered) \in SUBSET Events
      /\ Kept(Eligible(s, c, ok), pres, s.delivered) \subseteq Eligible(s, c, ok)
  BY <1>1, KeptIs
<1>4. /\ t \in Files /\ t.presented = pres /\ t.pending = s.pending \cup got.held
      /\ t.delivered = s.delivered /\ t.kept = Kept(Eligible(s, c, ok), pres, s.delivered)
  BY <1>1, <1>2, <1>3 DEF TakeQuiet, Files
<1>5. \A e \in t.kept : Published(e)
  BY <1>3, <1>4, EligibleIs
<1>6. \A e \in s.presented : e \in t.presented \/ Settled(e)
  <2> SUFFICES ASSUME NEW e \in s.presented, ~(e \in Unacked(s, c)) PROVE Settled(e)
    BY <1>4
  <2>1. ~(e > c.at)
    BY <1>1, UnackedIs
  <2> QED
    BY <2>1, <1>1 DEF Settled, Answered, Conns, World, Events, Files
<1>7. \A e \in got.held : e \in t.presented
  BY <1>4
<1> DEFINE nothing == {}
<1>8. /\ t.delivered = s.delivered \cup nothing /\ nothing \in SUBSET Events
      /\ \A e \in nothing : /\ Published(e) /\ ~Mute(e) /\ e \notin got.held
                            /\ e \in s.presented => Settled(e)
  BY <1>4
<1> HIDE DEF t, pres, nothing
<1>9. Owing(t)
  BY <1>4, <1>5, <1>6, <1>7, <1>8, OwingWithHeld
<1> QED
  BY <1>9 DEF t

LEMMA TakeBatchOwing ==
  ASSUME World, NEW s, Owing(s), NEW c, Answered(c), NEW ok, NEW proj,
         proj.deferred \in SUBSET Events,
         proj.suppressed \in SUBSET Events, proj.outcomes \in SUBSET Events,
         \A e \in proj.suppressed : Published(e) /\ (Mute(e) \/ Overtaken(e)),
         \A e \in proj.outcomes : /\ Published(e) /\ ~Mute(e) /\ e \notin proj.suppressed
                                  /\ e > c.at /\ e \notin Unacked(s, c)
  PROVE  Owing(TakeBatch(s, c, ok, proj))
<1> DEFINE t == TakeBatch(s, c, ok, proj)
           pres == Unacked(s, c) \cup proj.suppressed \cup proj.outcomes
           del == s.delivered \cup proj.outcomes
<1>1. s \in Files /\ Eligible(s, c, ok) \in SUBSET Events
  BY EligibleIs DEF Owing
<1>2. Unacked(s, c) \in SUBSET Events /\ pres \in SUBSET Events
  BY <1>1, UnackedIs
<1>3. /\ Kept(Eligible(s, c, ok), pres, del) \in SUBSET Events
      /\ Kept(Eligible(s, c, ok), pres, del) \subseteq Eligible(s, c, ok)
  BY <1>1, KeptIs
<1>4. /\ t \in Files /\ t.presented = pres /\ t.pending = s.pending \cup proj.suppressed
      /\ t.delivered = s.delivered \cup proj.outcomes
      /\ t.kept = Kept(Eligible(s, c, ok), pres, del)
  BY <1>1, <1>2, <1>3 DEF TakeBatch, Files
<1>5. \A e \in t.kept : Published(e)
  BY <1>3, <1>4, EligibleIs
<1>6. \A e \in s.presented : e \in t.presented \/ Settled(e)
  <2> SUFFICES ASSUME NEW e \in s.presented, ~(e \in Unacked(s, c)) PROVE Settled(e)
    BY <1>4
  <2>1. ~(e > c.at)
    BY <1>1, UnackedIs
  <2> QED
    BY <2>1, <1>1 DEF Settled, Answered, Conns, World, Events, Files
<1>7. \A e \in proj.suppressed : e \in t.presented
  BY <1>4
<1>8. \A e \in proj.outcomes : e \notin s.presented
  BY <1>1, UnackedIs
<1> HIDE DEF t, pres, del
<1>9. Owing(t)
  BY <1>4, <1>5, <1>6, <1>7, <1>8, OwingWithHeld
<1> QED
  BY <1>9 DEF t

\* The second read of a look: without a candidate, and with one.
LEMMA SweptOwing ==
  ASSUME NEW s, Owing(s), NEW l, Seen(l)
  PROVE  Owing(Swept(s, l))
<1>1. s \in Files /\ l.elig \in SUBSET Events
  BY DEF Owing, Seen, Looks
<1>2. /\ Kept(l.elig, l.pres, s.delivered) \in SUBSET Events
      /\ Kept(l.elig, l.pres, s.delivered) \subseteq l.elig
  BY <1>1, KeptIs
<1>3. /\ Swept(s, l) \in Files /\ Swept(s, l).presented = s.presented
      /\ Swept(s, l).pending = s.pending /\ Swept(s, l).delivered \subseteq s.delivered
      /\ Swept(s, l).kept = Kept(l.elig, l.pres, s.delivered)
  BY <1>1, <1>2 DEF Swept, Files, StaleDropped
<1>4. \A e \in Swept(s, l).kept : Published(e)
  BY <1>2, <1>3 DEF Seen
<1> QED
  BY <1>3, <1>4, OwingLess

LEMMA MergedOwing ==
  ASSUME World, NEW s, Owing(s), NEW l, Seen(l), NEW c, Answered(c)
  PROVE  Owing(Merged(s, l, c))
<1> DEFINE t == Merged(s, l, c)
<1>1. s \in Files /\ l \in Looks /\ l.held \in SUBSET Events
  BY DEF Owing, Seen, Looks
<1>2. /\ Kept(l.elig, l.pres, s.delivered) \in SUBSET Events
      /\ Kept(l.elig, l.pres, s.delivered) \subseteq l.elig
  BY <1>1, KeptIs DEF Looks
<1>3. Unacked(s, c) \in SUBSET Events
  BY <1>1, UnackedIs
<1>4. /\ t \in Files /\ t.presented = Unacked(s, c) \cup l.pres
      /\ t.pending = s.pending \cup l.held /\ t.delivered = s.delivered
      /\ t.kept = Kept(l.elig, l.pres, s.delivered)
  BY <1>1, <1>2, <1>3 DEF Merged, Files, Looks
<1>5. \A e \in t.kept : Published(e)
  BY <1>2, <1>4 DEF Seen
<1>6. \A e \in s.presented : e \in t.presented \/ Settled(e)
  <2> SUFFICES ASSUME NEW e \in s.presented, ~(e \in Unacked(s, c)) PROVE Settled(e)
    BY <1>4
  <2>1. ~(e > c.at)
    BY <1>1, UnackedIs
  <2> QED
    BY <2>1, <1>1 DEF Settled, Answered, Conns, World, Events, Files
<1>7. \A e \in l.held : e \in t.presented /\ Published(e) /\ (Mute(e) \/ Overtaken(e))
  BY <1>4 DEF Seen
<1> DEFINE nothing == {}
<1>8. /\ t.delivered = s.delivered \cup nothing /\ nothing \in SUBSET Events
      /\ \A e \in nothing : /\ Published(e) /\ ~Mute(e) /\ e \notin l.held
                            /\ e \in s.presented => Settled(e)
  BY <1>4
<1> HIDE DEF t, nothing
<1>9. Owing(t)
  BY <1>1, <1>4, <1>5, <1>6, <1>7, <1>8, OwingWithHeld
<1> QED
  BY <1>9 DEF t

----------------------------------------------------------------------------
(* Steps *)

\* A step of a hook, of a waiter and of the daemon, by what they leave.
LEMMA HookLeaves ==
  ASSUME Sound, World', Onward, UNCHANGED <<wait, rearm>>, Owing(file'), HookSound(hook')
  PROVE  Sound'
<1>1. Owing(file)' /\ HookSound(hook)'
  BY OwingStays, HookStays DEF Sound
<1>2. RearmSound(rearm)'
  BY RearmStays DEF Sound
<1>3. (wait \in [Pids -> Waiters])' /\ \A p \in Pids : WaiterSound(wait[p])'
  BY WaiterStays DEF Sound
<1> QED
  BY <1>1, <1>2, <1>3 DEF Sound

LEMMA WaiterLeaves ==
  ASSUME Sound, World', Onward, UNCHANGED <<hook, rearm>>, Owing(file'),
         NEW p \in Pids, NEW w, WaiterSound(w), Becomes(p, w)
  PROVE  Sound'
<1>1. Owing(file)' /\ HookSound(hook)'
  BY OwingStays, HookStays DEF Sound
<1>2. RearmSound(rearm)'
  BY RearmStays DEF Sound
<1>3. /\ wait' \in [Pids -> Waiters] /\ wait'[p] = w
      /\ \A q \in Pids : q # p => wait'[q] = wait[q]
  BY DEF Sound, Becomes, WaiterSound
<1>4. \A q \in Pids : WaiterSound(wait[q])'
  <2> SUFFICES ASSUME NEW q \in Pids PROVE WaiterSound(wait[q])'
    OBVIOUS
  <2>1. WaiterSound(wait'[q])
    BY <1>3 DEF Sound
  <2> QED
    BY <2>1, WaiterStays DEF Sound
<1> QED
  BY <1>1, <1>2, <1>3, <1>4 DEF Sound

LEMMA DaemonLeaves ==
  ASSUME Sound, World', Onward, UNCHANGED hook, Owing(file'), RearmSound(rearm'),
         wait' \in [Pids -> Waiters],
         \A p \in Pids : WaiterSound(wait'[p])
  PROVE  Sound'
<1>1. Owing(file)' /\ HookSound(hook)'
  BY OwingStays, HookStays DEF Sound
<1>2. RearmSound(rearm)'
  BY RearmStays DEF Sound
<1>3. \A p \in Pids : WaiterSound(wait[p])'
  BY WaiterStays DEF Sound
<1> QED
  BY <1>1, <1>2, <1>3 DEF Sound

\* Nothing is published and nothing acknowledged.
LEMMA SameWorld ==
  ASSUME World, UNCHANGED <<row, cursor, owner, told>>
  PROVE  World' /\ Onward
BY DEF World, Onward, Published

\* Rows that are handed out.
LEMMA GivesRowsOnward ==
  ASSUME World, GivesRows, cursor' = cursor, owner' = owner, told' = told
  PROVE  World' /\ Onward
<1>1. row' \in Rows /\ \A e \in Events :
        (Published(e) => Published(e)') /\ row'[e].kind = row[e].kind /\ row'[e].term = row[e].term
  <2>1. row' = [e \in Events |-> IF e \in Conn.list THEN [row[e] EXCEPT !.st = "delivered"]
                                 ELSE row[e]]
    BY DEF GivesRows
  <2> QED
    BY <2>1 DEF World, Rows, Published
<1> QED
  BY <1>1 DEF World, Onward

\* The list of the daemon.
LEMMA ConnAnswered ==
  ASSUME World
  PROVE  Answered(Conn)
BY DEF World, Answered, Conn, Conns, Listed, Published

LEMMA EmptyOwing ==
  ASSUME World
  PROVE  /\ Owing(NoFile) /\ Answered(NoConn) /\ Seen(NoLook)
         /\ HookSound(NoHook) /\ WaiterSound(NoWaiter) /\ RearmSound(NoRearm)
<1>1. NoFile \in Files
  BY DEF NoFile, Files
<1>2. NoFile.delivered = {} /\ NoFile.pending = {} /\ NoFile.kept = {}
  BY DEF NoFile
<1>3. Owing(NoFile)
  BY <1>1, <1>2 DEF Owing
<1>4. NoConn \in Conns /\ NoConn.at = 0 /\ NoConn.list = {}
  BY DEF NoConn, Conns
<1>5. Answered(NoConn)
  BY <1>4 DEF Answered, World
<1>6. NoLook \in Looks /\ NoLook.elig = {} /\ NoLook.held = {}
  BY DEF NoLook, Looks
<1>7. Seen(NoLook)
  BY <1>6 DEF Seen
<1>8. NoHook \in Hooks /\ NoHook.mem = NoFile /\ NoHook.conn = NoConn
  BY <1>1, <1>4 DEF NoHook, Hooks, HookPlaces
<1>9. NoWaiter \in Waiters /\ NoWaiter.mem = NoFile /\ NoWaiter.conn = NoConn
      /\ NoWaiter.look = NoLook
  BY <1>1, <1>4, <1>6 DEF NoWaiter, Waiters, WaiterPlaces
<1>10. NoRearm \in Rearms /\ NoRearm.mem = NoFile
  BY <1>1 DEF NoRearm, Rearms
<1> QED
  BY <1>3, <1>5, <1>7, <1>8, <1>9, <1>10 DEF HookSound, WaiterSound, RearmSound

\* A copy with another generation, pid, claim or readiness owes the same.
LEMMA OwingAlike ==
  ASSUME NEW s, Owing(s), NEW t \in Files, t.presented = s.presented,
         t.delivered = s.delivered, t.pending = s.pending, t.kept = s.kept
  PROVE  Owing(t)
BY OwingLess DEF Owing

LEMMA PreBeginsSound ==
  ASSUME Sound, NEW first \in BOOLEAN, PreBegins(first)
  PROVE  HookSound(hook')
<1> DEFINE new == file.awaiting \/ file.pid # NoPid \/ file.epoch = 0 \/ first
           fresh == [file EXCEPT !.epoch = @ + 1, !.awaiting = FALSE, !.pid = NoPid, !.wepoch = 0]
           mem == IF new THEN fresh ELSE file
<1>1. hook' = [NoHook EXCEPT !.pc = IF new THEN "preW" ELSE "reg", !.mem = mem]
  BY DEF PreBegins
<1>2. file \in Files
  BY DEF Sound, Owing
<1>3. /\ fresh \in Files /\ fresh.presented = file.presented
      /\ fresh.delivered = file.delivered /\ fresh.pending = file.pending
      /\ fresh.kept = file.kept
  <2> DEFINE e == file.epoch + 1
  <2>1. e \in Nat
    BY <1>2 DEF Files
  <2>2. fresh = [file EXCEPT !.epoch = e, !.awaiting = FALSE, !.pid = NoPid, !.wepoch = 0]
    OBVIOUS
  <2> HIDE DEF e, fresh
  <2> QED
    BY <1>2, <2>1, <2>2 DEF Files
<1>4. Owing(mem)
  BY <1>3, OwingAlike DEF Sound
<1>5. mem \in Files
  BY <1>4 DEF Owing
<1> HIDE DEF mem, new
<1>6. hook' \in Hooks /\ hook'.mem = mem /\ hook'.conn = NoConn
  BY <1>1, <1>5, EmptyOwing DEF Sound, HookSound, Hooks, NoHook, HookPlaces
<1> QED
  BY <1>4, <1>6, EmptyOwing DEF Sound, HookSound

LEMMA TurnBeginsSound ==
  ASSUME Sound, TurnBegins
  PROVE  Sound'
<1>1. UNCHANGED <<wait, rearm, file, row, cursor, owner, told>>
  BY DEF TurnBegins, Rests, daemonVars
<1>2. World' /\ Onward
  BY <1>1, SameWorld DEF Sound
<1>3. PreBegins(TRUE) \/ PreBegins(FALSE)
  BY DEF TurnBegins
<1>4. HookSound(hook')
  BY <1>3, PreBeginsSound
<1> QED
  BY <1>1, <1>2, <1>4, HookLeaves DEF Sound

LEMMA PreWritesSound ==
  ASSUME Sound, PreWrites
  PROVE  Sound'
<1>1. /\ file' = hook.mem /\ hook' = [hook EXCEPT !.pc = "reg", !.mem = hook.mem]
      /\ UNCHANGED <<wait, rearm, row, cursor, owner, told>>
  BY DEF PreWrites, HookSaves, Save, HookTo, Rests, daemonVars, hostVars
<1>2. World' /\ Onward
  BY <1>1, SameWorld DEF Sound
<1>3. Owing(file') /\ HookSound(hook')
  BY <1>1 DEF Sound, HookSound, Hooks, HookPlaces
<1> QED
  BY <1>1, <1>2, <1>3, HookLeaves

LEMMA TurnEndsSound ==
  ASSUME Sound, TurnEnds
  PROVE  Sound'
<1>1. /\ hook' = [NoHook EXCEPT !.pc = "reg", !.ev = "stop"]
      /\ UNCHANGED <<file, wait, rearm, row, cursor, owner, told>>
  BY DEF TurnEnds, Keeps, Rests, daemonVars, hostVars
<1>2. World' /\ Onward
  BY <1>1, SameWorld DEF Sound
<1>3. HookSound(NoHook)
  BY EmptyOwing DEF Sound
<1>4. HookSound(hook')
  BY <1>1, <1>3 DEF HookSound, Hooks, HookPlaces
<1> QED
  BY <1>1, <1>2, <1>4, HookLeaves DEF Sound

LEMMA RegistersSound ==
  ASSUME Sound, Registers
  PROVE  Sound'
<1> DEFINE parked == [file EXCEPT !.awaiting = TRUE]
           mem == IF hook.ev = "pre" THEN hook.mem ELSE parked
           to == IF mem.claimed THEN "owner" ELSE "claim"
<1>1. UNCHANGED <<wait, rearm, file, told, cursor, owner>>
  BY DEF Registers, Rests
<1>2. \/ hook' = [hook EXCEPT !.pc = to, !.conn = Conn, !.mem = mem] /\ GivesRows
      \/ hook' = NoHook /\ UNCHANGED row
  BY DEF Registers, HookEnds
<1>3. World' /\ Onward
  BY <1>1, <1>2, SameWorld, GivesRowsOnward DEF Sound
<1>4. file \in Files /\ HookSound(hook) /\ World
  BY DEF Sound, Owing
<1>5. /\ parked \in Files /\ parked.presented = file.presented
      /\ parked.delivered = file.delivered /\ parked.pending = file.pending
      /\ parked.kept = file.kept
  BY <1>4 DEF Files
<1>6. Owing(mem)
  BY <1>4, <1>5, OwingAlike DEF Sound, HookSound
<1>7. mem \in Files /\ to \in HookPlaces
  BY <1>6 DEF Owing, HookPlaces
<1> HIDE DEF mem, to
<1>8. Answered(Conn) /\ Conn \in Conns
  BY <1>4, ConnAnswered DEF Answered
<1>9. HookSound(hook')
  <2>1. CASE hook' = NoHook
    BY <2>1, <1>4, EmptyOwing
  <2>2. CASE hook' = [hook EXCEPT !.pc = to, !.conn = Conn, !.mem = mem]
    <3>1. hook' \in Hooks /\ hook'.mem = mem /\ hook'.conn = Conn
      BY <2>2, <1>4, <1>7, <1>8 DEF HookSound, Hooks
    <3> QED
      BY <3>1, <1>6, <1>8 DEF HookSound
  <2> QED
    BY <1>2, <2>1, <2>2
<1> QED
  BY <1>1, <1>3, <1>9, HookLeaves DEF Sound

LEMMA ClaimsSound ==
  ASSUME Sound, Claims
  PROVE  Sound'
<1> DEFINE mem == [hook.mem EXCEPT !.claimed = TRUE]
           asks == hook.conn.owner = "none" /\ owner = "none" /\ Hook \notin severed
           conn == IF asks THEN [Conn EXCEPT !.owner = "self"] ELSE hook.conn
<1>1. /\ UNCHANGED <<wait, rearm, row, cursor, told>> /\ file' = mem
      /\ owner' = IF asks THEN "self" ELSE owner
      /\ hook' = [hook EXCEPT !.pc = "owner", !.mem = mem, !.conn = conn]
  BY DEF Claims, Rests, HookSaves, Save, hostVars
<1>2. World' /\ Onward
  BY <1>1 DEF Sound, World, Onward, Published
<1>3. World /\ HookSound(hook) /\ hook.mem \in Files
  BY DEF Sound, HookSound, Owing
<1>4. /\ mem \in Files /\ mem.presented = hook.mem.presented
      /\ mem.delivered = hook.mem.delivered /\ mem.pending = hook.mem.pending
      /\ mem.kept = hook.mem.kept
  BY <1>3 DEF Files
<1>5. Owing(mem)
  BY <1>3, <1>4, OwingAlike DEF HookSound
<1>6. Answered(conn)
  BY <1>3, ConnAnswered DEF Answered, Conns, HookSound
<1> HIDE DEF mem, conn
<1>7. hook' \in Hooks /\ hook'.mem = mem /\ hook'.conn = conn
  BY <1>1, <1>3, <1>4, <1>6 DEF Hooks, HookPlaces, HookSound, Answered
<1>8. HookSound(hook')
  BY <1>5, <1>6, <1>7 DEF HookSound
<1> QED
  BY <1>1, <1>2, <1>5, <1>8, HookLeaves

LEMMA NotOwnerSound ==
  ASSUME Sound, NotOwner
  PROVE  Sound'
<1> DEFINE none == [hook.mem EXCEPT !.delivered = {}, !.pending = {}, !.deferred = {}, !.kept = {}]
<1>1. /\ UNCHANGED <<wait, rearm, row, cursor, owner, told>> /\ hook' = NoHook
      /\ file' = IF hook.ev = "stop" THEN hook.mem ELSE none
  BY DEF NotOwner, Rests, HookSaves, Save, daemonVars, HookEnds
<1>2. World' /\ Onward
  BY <1>1, SameWorld DEF Sound
<1>3. Owing(hook.mem) /\ hook.mem \in Files
  BY DEF Sound, HookSound, Owing
<1>4. none \in Files /\ none.delivered = {} /\ none.pending = {} /\ none.kept = {}
  BY <1>3 DEF Files
<1>5. Owing(none)
  BY <1>4 DEF Owing
<1> HIDE DEF none
<1>6. Owing(file') /\ HookSound(hook')
  BY <1>1, <1>3, <1>5, EmptyOwing DEF Sound
<1> QED
  BY <1>1, <1>2, <1>6, HookLeaves

LEMMA FlushNothingSound ==
  ASSUME Sound, FlushNothing
  PROVE  Sound'
<1> DEFINE less == [hook.mem EXCEPT !.deferred = {}]
           mem == IF hook.mem.deferred = {} THEN hook.mem ELSE less
<1>1. /\ UNCHANGED <<wait, rearm, row, cursor, owner, told>>
      /\ hook' = [hook EXCEPT !.pc = "take", !.mem = mem]
      /\ file' = file \/ file' = less
  BY DEF FlushNothing, Rests, HookSaves, Save, daemonVars, hostVars, HookTo, Keeps
<1>2. World' /\ Onward
  BY <1>1, SameWorld DEF Sound
<1>3. Owing(hook.mem) /\ hook.mem \in Files /\ HookSound(hook)
  BY DEF Sound, HookSound, Owing
<1>4. /\ less \in Files /\ less.presented = hook.mem.presented
      /\ less.delivered = hook.mem.delivered /\ less.pending = hook.mem.pending
      /\ less.kept = hook.mem.kept
  BY <1>3 DEF Files
<1>5. Owing(less) /\ Owing(mem) /\ mem \in Files
  BY <1>3, <1>4, OwingAlike
<1> HIDE DEF less, mem
<1>6. HookSound(hook')
  BY <1>1, <1>3, <1>5 DEF HookSound, Hooks, HookPlaces
<1>7. Owing(file')
  BY <1>1, <1>5 DEF Sound
<1> QED
  BY <1>1, <1>2, <1>6, <1>7, HookLeaves

\* Two copies are of one generation and name the same waiter.
SameGen(s, t) == s.epoch = t.epoch /\ s.wepoch = t.wepoch /\ s.pid = t.pid

\* What a flush leaves is apart: confirmed ids are presented, unconfirmed ones stay
\* delivered, the rest is presented and still to be acknowledged.
LEMMA FlushLeaves ==
  ASSUME Sound, Flush
  PROVE  /\ World' /\ Onward
         /\ \E mem \in Files :
              /\ Owing(mem) /\ SameGen(mem, hook.mem) /\ HookSaves(mem)
              /\ HookSound(hook') /\ hook'.pc = "take" /\ hook'.mem = mem
<1> DEFINE s == hook.mem
           all == s.pending \cup s.delivered
<1>1. PICK readable \in Transcripts, ok \in BOOLEAN :
        LET unseen == Unconfirmed(s, readable)
            floor == HoldingBack(s, hook.conn, ok) \cup unseen
            sent == {e \in all \ unseen : \A h \in floor : e < h}
        IN  \E cut \in Cuts(Hook, sent) :
            LET before(S) == {e \in S : cut = 0 \/ e < cut}
                rest == {e \in all : cut # 0 /\ e >= cut}
                late == {e \in before(sent) : Answer(e) = "order"}
                high == before(all \ (sent \cup unseen))
                acked == \E e \in before(sent) : Answer(e) = "ok"
                mem == [s EXCEPT
                  !.presented = @ \cup before(sent) \cup high \cup (rest \ s.delivered),
                  !.delivered = before(unseen) \cup (rest \cap @),
                  !.pending = high \cup late \cup (rest \ s.delivered)]
            IN  /\ Spent(Hook, Cost(Hook, cut), ok)
                /\ cursor' = AckedTo(before(sent))
                /\ HookSaves(mem)
                /\ hook' = [hook EXCEPT !.pc = "take", !.held = before(unseen), !.mem = mem,
                                        !.again = acked]
  BY DEF Flush
<1> DEFINE unseen == Unconfirmed(s, readable)
           floor == HoldingBack(s, hook.conn, ok) \cup unseen
           sent == {e \in all \ unseen : \A h \in floor : e < h}
<1>2. PICK cut \in Cuts(Hook, sent) :
        LET before(S) == {e \in S : cut = 0 \/ e < cut}
            rest == {e \in all : cut # 0 /\ e >= cut}
            late == {e \in before(sent) : Answer(e) = "order"}
            high == before(all \ (sent \cup unseen))
            acked == \E e \in before(sent) : Answer(e) = "ok"
            mem == [s EXCEPT
              !.presented = @ \cup before(sent) \cup high \cup (rest \ s.delivered),
              !.delivered = before(unseen) \cup (rest \cap @),
              !.pending = high \cup late \cup (rest \ s.delivered)]
        IN  /\ Spent(Hook, Cost(Hook, cut), ok)
            /\ cursor' = AckedTo(before(sent))
            /\ HookSaves(mem)
            /\ hook' = [hook EXCEPT !.pc = "take", !.held = before(unseen), !.mem = mem,
                                    !.again = acked]
  BY <1>1
<1> DEFINE sentNow == {e \in sent : cut = 0 \/ e < cut}
           unseenNow == {e \in unseen : cut = 0 \/ e < cut}
           rest == {e \in all : cut # 0 /\ e >= cut}
           late == {e \in sentNow : Answer(e) = "order"}
           high == {e \in all \ (sent \cup unseen) : cut = 0 \/ e < cut}
           acked == \E e \in sentNow : Answer(e) = "ok"
           presented == s.presented \cup sentNow \cup high \cup (rest \ s.delivered)
           delivered == unseenNow \cup (rest \cap s.delivered)
           pending == high \cup late \cup (rest \ s.delivered)
           mem == [s EXCEPT !.presented = presented, !.delivered = delivered, !.pending = pending]
<1>3. /\ cursor' = AckedTo(sentNow) /\ HookSaves(mem)
      /\ hook' = [hook EXCEPT !.pc = "take", !.held = unseenNow, !.mem = mem, !.again = acked]
  BY <1>2
<1>4. UNCHANGED <<wait, rearm, row, owner, told>>
  BY DEF Flush, Rests, hostVars
<1>5. World /\ HookSound(hook) /\ Owing(s) /\ s \in Files /\ hook \in Hooks
  BY DEF Sound, HookSound, Owing
<1>6. all \in SUBSET Events /\ unseen \subseteq s.delivered
  BY <1>5 DEF Files, Unconfirmed
<1> HIDE DEF unseen, floor
<1>7. /\ sentNow \in SUBSET Events /\ presented \in SUBSET Events
      /\ delivered \in SUBSET Events /\ pending \in SUBSET Events /\ unseenNow \in SUBSET Events
      /\ acked \in BOOLEAN
  BY <1>5, <1>6 DEF Files
<1>8. /\ delivered \subseteq s.delivered /\ pending \subseteq presented
      /\ pending \subseteq all /\ \A e \in pending : e \notin delivered
  <2>1. sentNow \subseteq sent /\ late \subseteq sentNow /\ unseenNow \subseteq unseen
        /\ (\A e \in sent : e \notin unseen) /\ sent \subseteq all
    OBVIOUS
  <2>2. delivered \subseteq s.delivered /\ pending \subseteq presented /\ pending \subseteq all
    BY <1>6, <2>1
  <2>3. \A e \in late \cup high : e \notin rest /\ e \notin unseenNow
    <3>1. cut \in Int /\ all \subseteq Int
      BY <1>6 DEF Cuts, Events
    <3>2. \A e \in sentNow \cup high : (cut = 0 \/ e < cut) /\ e \notin unseen /\ e \in Int
      BY <3>1, <2>1
    <3> QED
      BY <3>1, <3>2
  <2>4. \A e \in unseenNow : e \in s.delivered
    BY <1>6, <2>1
  <2>5. \A e \in pending : e \notin delivered
    <3> HIDE DEF late, high, rest, unseenNow
    <3> QED
      BY <2>3, <2>4
  <2> QED
    BY <2>2, <2>5
<1> HIDE DEF sentNow, unseenNow, presented, delivered, pending, acked
<1>9. /\ mem \in Files /\ mem.presented = presented /\ mem.delivered = delivered
      /\ mem.pending = pending /\ mem.kept = s.kept /\ SameGen(mem, s)
  BY <1>5, <1>7 DEF Files, SameGen
<1> HIDE DEF mem
<1>10. Owing(mem)
  <2>1. /\ \A e \in s.delivered \cup s.pending \cup s.kept : Published(e)
        /\ \A e \in s.delivered : ~Mute(e)
    BY <1>5 DEF Owing
  <2>2. mem.delivered \subseteq s.delivered /\ mem.pending \subseteq s.delivered \cup s.pending
    BY <1>8, <1>9
  <2>3. \A e \in mem.pending : e \in mem.presented /\ e \notin mem.delivered
    BY <1>8, <1>9
  <2> HIDE DEF s
  <2> QED
    BY <1>9, <2>1, <2>2, <2>3 DEF Owing
<1>11. World' /\ Onward
  BY <1>3, <1>4, <1>5, <1>7, AckedToForward DEF World, Onward, Published
<1>12. HookSound(hook') /\ hook'.pc = "take" /\ hook'.mem = mem
  <2>1. hook' \in Hooks /\ hook'.mem = mem /\ hook'.conn = hook.conn /\ hook'.pc = "take"
    BY <1>3, <1>5, <1>7, <1>9 DEF Hooks, HookPlaces
  <2> QED
    BY <2>1, <1>5, <1>10 DEF HookSound
<1> QED
  BY <1>3, <1>9, <1>10, <1>11, <1>12

LEMMA FlushSound ==
  ASSUME Sound, Flush
  PROVE  Sound'
<1>1. UNCHANGED <<wait, rearm>>
  BY DEF Flush, Rests
<1>2. World' /\ Onward /\ Owing(file') /\ HookSound(hook')
  BY FlushLeaves DEF HookSaves, Save
<1> QED
  BY <1>1, <1>2, HookLeaves

LEMMA RefetchSound ==
  ASSUME Sound, Refetch
  PROVE  Sound'
<1>1. /\ UNCHANGED <<file, wait, rearm, cursor, owner, told>>
      /\ \/ GivesRows /\ hook' = [hook EXCEPT !.again = FALSE, !.conn = Conn]
         \/ row' = row /\ hook' = [hook EXCEPT !.again = FALSE]
  BY DEF Refetch, Rests, Keeps, hostVars
<1>2. World' /\ Onward
  <2>1. CASE GivesRows
    BY <1>1, <2>1, GivesRowsOnward DEF Sound
  <2>2. CASE row' = row
    BY <1>1, <2>2 DEF Sound, World, Onward, Published
  <2> QED
    BY <1>1, <2>1, <2>2
<1>3. Answered(Conn) /\ Conn \in Conns /\ HookSound(hook)
  BY ConnAnswered DEF Sound, Answered
<1>4. HookSound(hook')
  <2>1. hook' \in Hooks /\ hook'.mem = hook.mem /\ hook'.conn \in {hook.conn, Conn}
    BY <1>1, <1>3 DEF HookSound, Hooks
  <2> QED
    BY <2>1, <1>3 DEF HookSound
<1> QED
  BY <1>1, <1>2, <1>4, HookLeaves DEF Sound

\* A batch that is taken, by a Stop or by a PreInvocation.
LEMMA TakenSound ==
  ASSUME Sound, NEW mem, Owing(mem), NEW writes \in BOOLEAN, NEW batch \in SUBSET Events,
         Taken(mem, writes, batch)
  PROVE  Owing(file') /\ HookSound(hook') /\ told' \subseteq Events
<1> DEFINE e == mem.epoch + 1
           armed == [mem EXCEPT !.epoch = e, !.wepoch = e, !.pid = NoPid]
<1>1. mem \in Files /\ hook \in Hooks /\ HookSound(hook) /\ World /\ Owing(file)
  BY DEF Sound, Owing, HookSound
<1>2. e \in Nat
  BY <1>1 DEF Files
<1>3. CASE hook.ev = "stop"
  <2>1. /\ HookSaves(armed) /\ UNCHANGED told
        /\ hook' = [hook EXCEPT !.pc = "spawn", !.mem = armed, !.batch = batch]
    BY <1>3 DEF Taken
  <2> HIDE DEF e
  <2>2. /\ armed \in Files /\ armed.presented = mem.presented
        /\ armed.delivered = mem.delivered /\ armed.pending = mem.pending
        /\ armed.kept = mem.kept
    BY <1>1, <1>2 DEF Files
  <2> HIDE DEF armed
  <2>3. Owing(armed)
    BY <2>2, OwingAlike
  <2>4. hook' \in Hooks /\ hook'.mem = armed /\ hook'.conn = hook.conn
    BY <1>1, <2>1, <2>2 DEF Hooks, HookPlaces
  <2> QED
    BY <1>1, <2>1, <2>3, <2>4 DEF HookSound, HookSaves, Save, World
<1>4. CASE hook.ev # "stop"
  <2>1. /\ hook' = NoHook /\ (file' = mem \/ file' = file)
        /\ told' = told \cup batch \/ told' = told
    BY <1>4 DEF Taken, HookSaves, Save
  <2> QED
    BY <1>1, <2>1, EmptyOwing DEF World
<1> QED
  BY <1>3, <1>4

\* A take ends with a copy of the same generation.
LEMMA TakeTakes ==
  ASSUME Sound, Take
  PROVE  /\ cursor' \in Nat /\ cursor <= cursor'
         /\ \E mem \in Files, writes \in BOOLEAN, batch \in SUBSET Events :
              Owing(mem) /\ SameGen(mem, hook.mem) /\ Taken(mem, writes, batch)
<1> DEFINE s == hook.mem
           c == hook.conn
<1>1. World /\ Owing(s) /\ Answered(c) /\ s \in Files
  BY DEF Sound, HookSound, Owing
<1>2. PICK ok \in BOOLEAN :
        \E cand \in {Eligible(s, c, ok) \ Unacked(s, c)} :
        \E proj \in {ProjectionOf(cand, ok)}, none \in {TakeNone(s, c, ok)} :
             \/ /\ cand = {} /\ Spent(Hook, 0, ok) /\ UNCHANGED cursor
                /\ Taken(none, none # [s EXCEPT !.presented = Unacked(s, c)], {})
             \/ /\ cand # {} /\ proj.outcomes = {}
                /\ \E cut \in Cuts(Hook, proj.suppressed) :
                   LET got == Settling(proj.suppressed, proj.deferred \cup s.delivered, cut)
                   IN  /\ Spent(Hook, Cost(Hook, cut), ok) /\ cursor' = AckedTo(got.done)
                       /\ Taken(TakeQuiet(s, c, ok, proj, got), TRUE, {})
             \/ /\ proj.outcomes # {} /\ UNCHANGED cursor
                /\ Taken(TakeBatch(s, c, ok, proj), TRUE, proj.outcomes)
                /\ Spent(Hook, IF proj.outcomes \subseteq told' \/ hook.ev = "stop" THEN 0 ELSE 1, ok)
  BY DEF Take
<1> DEFINE cand == Eligible(s, c, ok) \ Unacked(s, c)
           proj == ProjectionOf(cand, ok)
           none == TakeNone(s, c, ok)
<1>3. \/ /\ UNCHANGED cursor
         /\ Taken(none, none # [s EXCEPT !.presented = Unacked(s, c)], {})
      \/ \E cut \in Cuts(Hook, proj.suppressed) :
           LET got == Settling(proj.suppressed, proj.deferred \cup s.delivered, cut)
           IN  /\ cursor' = AckedTo(got.done)
               /\ Taken(TakeQuiet(s, c, ok, proj, got), TRUE, {})
      \/ /\ UNCHANGED cursor /\ Taken(TakeBatch(s, c, ok, proj), TRUE, proj.outcomes)
  BY <1>2
<1>5. cand \in SUBSET Events /\ \A e \in cand : Published(e) /\ e > c.at /\ e \notin Unacked(s, c)
  BY <1>1, EligibleIs
<1> HIDE DEF cand
<1>6. /\ proj.deferred \subseteq cand /\ proj.suppressed \subseteq cand /\ proj.outcomes \subseteq cand
      /\ \A e \in proj.outcomes : ~Mute(e)
      /\ \A e \in proj.suppressed : Mute(e) \/ Overtaken(e)
      /\ \A e \in proj.outcomes : e \notin proj.suppressed
  BY <1>1, <1>5, ProjectionParts DEF ProjectionOf
<1> HIDE DEF proj, none
<1>7. /\ proj.deferred \in SUBSET Events /\ proj.suppressed \in SUBSET Events
      /\ proj.outcomes \in SUBSET Events
  BY <1>5, <1>6
<1>8. CASE /\ UNCHANGED cursor
           /\ Taken(none, none # [s EXCEPT !.presented = Unacked(s, c)], {})
  <2>1. Owing(none) /\ SameGen(none, s)
    BY <1>1, TakeNoneOwing DEF none, TakeNone, Files, SameGen
  <2> DEFINE writes == none # [s EXCEPT !.presented = Unacked(s, c)]
             batch == {}
  <2>2. writes \in BOOLEAN /\ batch \in SUBSET Events /\ Taken(none, writes, batch)
    BY <1>8
  <2> HIDE DEF writes, batch
  <2> QED
    BY <1>1, <1>8, <2>1, <2>2 DEF World, Owing
<1>9. CASE \E cut \in Cuts(Hook, proj.suppressed) :
             LET got == Settling(proj.suppressed, proj.deferred \cup s.delivered, cut)
             IN  /\ cursor' = AckedTo(got.done)
                 /\ Taken(TakeQuiet(s, c, ok, proj, got), TRUE, {})
  <2>1. PICK cut \in Cuts(Hook, proj.suppressed) :
             LET got == Settling(proj.suppressed, proj.deferred \cup s.delivered, cut)
             IN  /\ cursor' = AckedTo(got.done)
                 /\ Taken(TakeQuiet(s, c, ok, proj, got), TRUE, {})
    BY <1>9
  <2> DEFINE got == Settling(proj.suppressed, proj.deferred \cup s.delivered, cut)
             mem == TakeQuiet(s, c, ok, proj, got)
             batch == {}
             writes == TRUE
  <2>2. got.done \subseteq proj.suppressed /\ got.held \subseteq proj.suppressed
    BY <1>7, SettlingIs
  <2>3. cursor' = AckedTo(got.done) /\ Taken(mem, writes, batch)
    BY <2>1
  <2> HIDE DEF got
  <2>4. got.done \in SUBSET Events /\ got.held \in SUBSET Events
    BY <2>2, <1>7
  <2>5. \A e \in got.held : Published(e) /\ (Mute(e) \/ Overtaken(e))
    BY <2>2, <1>5, <1>6
  <2>6. Owing(mem) /\ SameGen(mem, s)
    <3>1. SameGen(mem, s)
      BY <1>1 DEF TakeQuiet, Files, SameGen
    <3> HIDE DEF s, c
    <3> QED
      BY <1>1, <1>7, <2>4, <2>5, <3>1, TakeQuietOwing
  <2>7. writes \in BOOLEAN /\ batch \in SUBSET Events
    OBVIOUS
  <2> HIDE DEF mem, batch, writes
  <2> QED
    BY <1>1, <2>3, <2>4, <2>6, <2>7, AckedToForward DEF World, Owing
<1>10. CASE UNCHANGED cursor /\ Taken(TakeBatch(s, c, ok, proj), TRUE, proj.outcomes)
  <2> DEFINE mem == TakeBatch(s, c, ok, proj)
             writes == TRUE
  <2>1. Owing(mem) /\ SameGen(mem, s)
    <3>1. \A e \in proj.suppressed : Published(e) /\ (Mute(e) \/ Overtaken(e))
      BY <1>5, <1>6
    <3>2. \A e \in proj.outcomes : /\ Published(e) /\ ~Mute(e) /\ e \notin proj.suppressed
                                   /\ e > c.at /\ e \notin Unacked(s, c)
      BY <1>5, <1>6
    <3>3. SameGen(mem, s)
      BY <1>1 DEF TakeBatch, Files, SameGen
    <3> HIDE DEF s, c
    <3> QED
      BY <1>1, <1>7, <3>1, <3>2, <3>3, TakeBatchOwing
  <2>2. Taken(mem, writes, proj.outcomes) /\ writes \in BOOLEAN
    BY <1>10
  <2> HIDE DEF mem, writes
  <2> QED
    BY <1>1, <1>7, <1>10, <2>1, <2>2 DEF World, Owing
<1> QED
  BY <1>3, <1>8, <1>9, <1>10

LEMMA TakeSound ==
  ASSUME Sound, Take
  PROVE  Sound'
<1>1. UNCHANGED <<wait, rearm, row, owner>>
  BY DEF Take, Rests
<1>2. PICK mem \in Files, writes \in BOOLEAN, batch \in SUBSET Events :
        Owing(mem) /\ Taken(mem, writes, batch)
  BY TakeTakes
<1>3. Owing(file') /\ HookSound(hook') /\ told' \subseteq Events
  BY <1>2, TakenSound
<1>4. World' /\ Onward
  BY <1>1, <1>3, TakeTakes DEF Sound, World, Onward, Published
<1> QED
  BY <1>1, <1>3, <1>4, HookLeaves

\* A copy whose batch can be handed out again: what is no longer presented was owed
\* on evidence too.
LEMMA PutBackOwing ==
  ASSUME NEW s, Owing(s), NEW t \in Files, t.presented = s.presented \ s.delivered,
         t.delivered \subseteq s.delivered, t.pending = s.pending, t.kept = s.kept
  PROVE  Owing(t)
<1>1. \A e \in t.pending : e \in s.presented => e \in t.presented \/ Settled(e)
  BY DEF Owing
<1>2. \A e \in t.kept : Published(e)
  BY DEF Owing
<1> QED
  BY <1>1, <1>2, OwingLess

LEMMA AbortsSound ==
  ASSUME Sound, Aborts
  PROVE  Sound'
<1> DEFINE mem == [file EXCEPT !.awaiting = TRUE, !.presented = @ \ file.delivered,
                               !.delivered = {}]
<1>1. /\ UNCHANGED <<file, wait, rearm, row, cursor, owner, told>>
      /\ hook' = [NoHook EXCEPT !.pc = "abortW", !.ev = "stop", !.mem = mem]
  BY DEF Aborts, Rests, hostVars, daemonVars
<1>2. World' /\ Onward
  BY <1>1, SameWorld DEF Sound
<1>3. file \in Files /\ HookSound(NoHook)
  BY EmptyOwing DEF Sound, Owing
<1>4. /\ mem \in Files /\ mem.presented = file.presented \ file.delivered
      /\ mem.delivered = {} /\ mem.pending = file.pending /\ mem.kept = file.kept
  BY <1>3 DEF Files
<1> HIDE DEF mem
<1>5. Owing(mem)
  BY <1>4, PutBackOwing DEF Sound
<1>6. HookSound(hook')
  BY <1>1, <1>3, <1>4, <1>5 DEF HookSound, Hooks, HookPlaces
<1> QED
  BY <1>1, <1>2, <1>6, HookLeaves DEF Sound

LEMMA AbortWritesSound ==
  ASSUME Sound, AbortWrites
  PROVE  Sound'
<1>1. /\ UNCHANGED <<wait, rearm, row, cursor, owner, told>>
      /\ hook' = NoHook /\ file' = hook.mem
  BY DEF AbortWrites, Save, HookEnds, Rests, daemonVars
<1>2. World' /\ Onward
  BY <1>1, SameWorld DEF Sound
<1>3. Owing(file') /\ HookSound(hook')
  BY <1>1, EmptyOwing DEF Sound, HookSound
<1> QED
  BY <1>1, <1>2, <1>3, HookLeaves

\* A waiter that is started.
LEMMA StartedSound ==
  ASSUME World, NEW epoch \in Nat
  PROVE  WaiterSound([NoWaiter EXCEPT !.pc = "top", !.epoch = epoch])
BY EmptyOwing DEF WaiterSound, Waiters, WaiterPlaces

LEMMA SpawnsSound ==
  ASSUME Sound, Spawns
  PROVE  Sound'
<1>1. UNCHANGED <<file, rearm, row, cursor, owner, told>>
  BY DEF Spawns, Keeps, hostVars, daemonVars
<1>2. World' /\ Onward
  BY <1>1, SameWorld DEF Sound
<1>3. hook.mem \in Files /\ hook \in Hooks /\ HookSound(hook) /\ World /\ Owing(file)
      /\ wait \in [Pids -> Waiters] /\ \A p \in Pids : WaiterSound(wait[p])
  BY DEF Sound, HookSound, Owing
<1>4. HookSound(hook')
  <2>1. CASE \E p \in Free : HookTo("pidW", [hook.mem EXCEPT !.pid = p])
    <3>1. PICK p \in Free : hook' = [hook EXCEPT !.pc = "pidW", !.mem = [hook.mem EXCEPT !.pid = p]]
      BY <2>1 DEF HookTo
    <3> DEFINE mem == [hook.mem EXCEPT !.pid = p]
    <3>2. p \in Pids
      BY DEF Free, Lowest
    <3>3. /\ mem \in Files /\ mem.presented = hook.mem.presented
          /\ mem.delivered = hook.mem.delivered /\ mem.pending = hook.mem.pending
          /\ mem.kept = hook.mem.kept
      BY <1>3, <3>2 DEF Files
    <3>4. hook' = [hook EXCEPT !.pc = "pidW", !.mem = mem]
      BY <3>1
    <3> HIDE DEF mem
    <3>5. Owing(mem)
      BY <1>3, <3>3, OwingAlike DEF HookSound
    <3> QED
      BY <1>3, <3>3, <3>4, <3>5 DEF HookSound, Hooks, HookPlaces
  <2>2. CASE HookTo("give", hook.mem)
    BY <1>3, <2>2 DEF HookTo, HookSound, Hooks, HookPlaces
  <2> QED
    BY <2>1, <2>2 DEF Spawns
<1>5. wait' \in [Pids -> Waiters] /\ \A p \in Pids : WaiterSound(wait'[p])
  <2>1. CASE UNCHANGED wait
    BY <1>3, <2>1
  <2>2. CASE \E p \in Free : Started(p, hook.mem.epoch)
    <3>1. PICK p \in Free : wait' = [wait EXCEPT ![p] = [NoWaiter EXCEPT !.pc = "top", !.epoch = hook.mem.epoch]]
      BY <2>2 DEF Started
    <3> DEFINE w == [NoWaiter EXCEPT !.pc = "top", !.epoch = hook.mem.epoch]
    <3>2. WaiterSound(w) /\ w \in Waiters
      <4>1. hook.mem.epoch \in Nat
        BY <1>3 DEF Files
      <4> QED
        BY <4>1, <1>3, StartedSound DEF WaiterSound
    <3>3. wait' = [wait EXCEPT ![p] = w]
      BY <3>1
    <3> HIDE DEF w
    <3> QED
      BY <1>3, <3>2, <3>3
  <2> QED
    BY <2>1, <2>2 DEF Spawns
<1>6. Owing(file)' /\ HookSound(hook)' /\ RearmSound(rearm)'
  BY <1>1, <1>2, <1>3, <1>4, OwingStays, HookStays, RearmStays DEF Sound
<1>7. \A p \in Pids : WaiterSound(wait[p])'
  BY <1>2, <1>3, <1>5, WaiterStays
<1> QED
  BY <1>2, <1>5, <1>6, <1>7 DEF Sound

LEMMA StopReturnsSound ==
  ASSUME Sound, StopReturns
  PROVE  Sound'
<1>1. /\ UNCHANGED <<wait, rearm, row, cursor, owner>> /\ hook' = NoHook
      /\ file' = hook.mem \/ file' = file
      /\ told' = told \/ told' = told \cup hook.batch
  BY DEF StopReturns, Rests, HookSaves, Save, daemonVars
<1>2. World' /\ Onward
  BY <1>1 DEF Sound, World, Onward, Published, HookSound, Hooks
<1>3. Owing(file') /\ HookSound(hook')
  BY <1>1, EmptyOwing DEF Sound, HookSound
<1> QED
  BY <1>1, <1>2, <1>3, HookLeaves

----------------------------------------------------------------------------
(* The daemon and the other agents *)

\* A nudge changes no waiter but its flag.
LEMMA PushedSound ==
  ASSUME Sound
  PROVE  Pushed \in [Pids -> Waiters] /\ \A p \in Pids : WaiterSound(Pushed[p])
<1>1. \A p \in Pids : WaiterSound(Pushed[p])
  <2> SUFFICES ASSUME NEW p \in Pids PROVE WaiterSound(Pushed[p])
    OBVIOUS
  <2>1. WaiterSound(wait[p]) /\ wait[p] \in Waiters
    BY DEF Sound, WaiterSound
  <2>2. Pushed[p] = wait[p] \/ Pushed[p] = [wait[p] EXCEPT !.push = TRUE]
    BY DEF Pushed
  <2> QED
    BY <2>1, <2>2 DEF WaiterSound, Waiters
<1> QED
  BY <1>1 DEF Pushed, WaiterSound

\* A step of the daemon or of a peer, by what it leaves.
LEMMA OthersLeave ==
  ASSUME Sound, World', Onward, UNCHANGED <<file, hook, rearm>>,
         wait' = wait \/ wait' = Pushed
  PROVE  Sound'
<1>1. wait' \in [Pids -> Waiters] /\ \A p \in Pids : WaiterSound(wait'[p])
  BY PushedSound DEF Sound
<1> QED
  BY <1>1, DaemonLeaves DEF Sound

LEMMA PublishSound ==
  ASSUME Sound, NEW k \in Kinds, NEW t \in Terminals, NEW busy \in BOOLEAN, Publish(k, t, busy)
  PROVE  Sound'
<1>1. PICK e \in Events :
        /\ row[e].st = "none"
        /\ row' = [row EXCEPT ![e] = [st |-> "pending", kind |-> k, term |-> t]]
  BY DEF Publish
<1>2. UNCHANGED <<file, hook, rearm, told, cursor, owner>> /\ wait' = Pushed
  BY DEF Publish, hostVars
<1>3. World' /\ Onward
  BY <1>1, <1>2, AgyAssumption DEF Sound, World, Onward, Published, Rows, AllKinds, Places
<1> QED
  BY <1>2, <1>3, OthersLeave

LEMMA RowMovesSound ==
  ASSUME Sound, NEW e \in Events, RowMoves(e)
  PROVE  Sound'
<1>1. UNCHANGED <<file, hook, wait, rearm, told, cursor, owner>>
  BY DEF RowMoves, hostVars
<1>2. \E st \in {"aged", "pending", "void", "gone"} : row' = [row EXCEPT ![e].st = st]
  BY DEF RowMoves
<1>3. World' /\ Onward
  BY <1>1, <1>2 DEF Sound, World, Onward, Published, Rows
<1> QED
  BY <1>1, <1>3, OthersLeave

LEMMA PeerLeavesSound ==
  ASSUME Sound, NEW t \in Terminals, PeerLeaves(t)
  PROVE  Sound'
<1>1. UNCHANGED <<file, hook, wait, rearm, told, cursor, owner>>
  BY DEF PeerLeaves, hostVars
<1>2. row' = [e \in Events |-> IF row[e].term = t /\ row[e].st = "delivered"
                               THEN [row[e] EXCEPT !.st = "void"] ELSE row[e]]
  BY DEF PeerLeaves
<1>3. World' /\ Onward
  BY <1>1, <1>2 DEF Sound, World, Onward, Published, Rows
<1> QED
  BY <1>1, <1>3, OthersLeave

LEMMA OthersSound ==
  ASSUME Sound, OwnerMoves \/ \E t \in Terminals : PeerIdle(t)
  PROVE  Sound'
<1>1. /\ UNCHANGED <<file, hook, rearm, told, cursor, row>>
      /\ wait' = wait \/ wait' = Pushed
      /\ owner' = owner \/ owner' = "other"
  BY DEF OwnerMoves, PeerIdle, hostVars
<1>2. World' /\ Onward
  BY <1>1 DEF Sound, World, Onward, Published
<1> QED
  BY <1>1, <1>2, OthersLeave

----------------------------------------------------------------------------
(* WakeWaiter *)

LEMMA IdleSound ==
  ASSUME World, NEW w, WaiterSound(w)
  PROVE  WaiterSound(Idle(w)) /\ WaiterSound(Leaving(w))
<1>1. WaiterSound(Idle(w))
  <2>1. NoFile \in Files /\ NoConn \in Conns /\ NoLook \in Looks /\ w \in Waiters
    BY EmptyOwing DEF WaiterSound, Owing, Answered, Seen
  <2>2. Idle(w) \in Waiters
    BY <2>1 DEF Waiters, WaiterPlaces, Idle
  <2>3. Idle(w).mem = NoFile /\ Idle(w).conn = NoConn /\ Idle(w).look = NoLook
    BY <2>1 DEF Waiters, Idle
  <2> QED
    BY <2>2, <2>3, EmptyOwing DEF WaiterSound
<1>2. WaiterSound(Leaving(w))
  <2>1. /\ Leaving(w) \in Waiters /\ Leaving(w).mem = NoFile /\ Leaving(w).conn = NoConn
        /\ Leaving(w).look = NoLook
    <3>1. NoWaiter \in Waiters /\ NoWaiter.mem = NoFile /\ NoWaiter.conn = NoConn
          /\ NoWaiter.look = NoLook /\ w.epoch \in Nat
      BY EmptyOwing DEF WaiterSound, NoWaiter, Waiters
    <3> QED
      BY <3>1 DEF Leaving, Waiters, WaiterPlaces
  <2> QED
    BY <2>1, EmptyOwing DEF WaiterSound
<1> QED
  BY <1>1, <1>2

\* A waiter with the same copy, list and look.
LEMMA WaiterAlike ==
  ASSUME NEW w, WaiterSound(w), NEW v \in Waiters, v.mem = w.mem, v.conn = w.conn, v.look = w.look
  PROVE  WaiterSound(v)
BY DEF WaiterSound

\* A waiter that has read or changed a copy.
LEMMA WaiterCopies ==
  ASSUME NEW w, WaiterSound(w), NEW v \in Waiters, Owing(v.mem), v.conn = w.conn, v.look = w.look
  PROVE  WaiterSound(v)
BY DEF WaiterSound

\* Everyone else stands still.
LEMMA AloneWorld ==
  ASSUME Sound, WaitsOn
  PROVE  World' /\ Onward /\ UNCHANGED <<hook, rearm>> /\ (UNCHANGED file => Owing(file'))
<1>1. UNCHANGED <<hook, rearm, row, cursor, owner, told>>
  BY DEF WaitsOn, daemonVars, hostVars
<1> QED
  BY <1>1, SameWorld DEF Sound

\* What a step of p starts from.
LEMMA WaiterIs ==
  ASSUME Sound, NEW p \in Pids
  PROVE  /\ WaiterSound(wait[p]) /\ wait[p] \in Waiters /\ World
         /\ WaiterSound(Idle(wait[p])) /\ WaiterSound(Leaving(wait[p]))
         /\ Idle(wait[p]) \in Waiters
         /\ Owing(file) /\ file \in Files
BY IdleSound DEF Sound, WaiterSound, Owing

LEMMA TopSound ==
  ASSUME Sound, NEW p \in Pids, Top(p)
  PROVE  Sound'
<1> DEFINE w == wait[p]
           owed == file.delivered # {}
           look == [w EXCEPT !.pc = "look", !.mem = file, !.first = FALSE, !.owed = owed,
                             !.targets = file.delivered]
           idle == [Idle(w) EXCEPT !.errors = 0]
<1>1. /\ Becomes(p, Leaving(w)) \/ Becomes(p, look) \/ Becomes(p, idle)
      /\ GivesRows \/ UNCHANGED row
      /\ UNCHANGED <<file, hook, rearm, told, cursor, owner>>
  BY DEF Top, Keeps, hostVars
<1>2. World' /\ Onward
  BY <1>1, SameWorld, GivesRowsOnward DEF Sound
<1>3. /\ WaiterSound(w) /\ w \in Waiters /\ WaiterSound(Idle(w)) /\ WaiterSound(Leaving(w))
      /\ Idle(w) \in Waiters /\ Owing(file) /\ file \in Files
  BY WaiterIs
<1>4. owed \in BOOLEAN /\ file.delivered \in SUBSET Events
  BY <1>3 DEF Files
<1> HIDE DEF w, owed
<1>5. WaiterSound(look)
  <2>1. look \in Waiters
    BY <1>3, <1>4 DEF Waiters, WaiterPlaces
  <2>2. look.mem = file /\ look.conn = w.conn /\ look.look = w.look
    BY <1>3 DEF Waiters
  <2> HIDE DEF look
  <2> QED
    BY <2>1, <2>2, <1>3, WaiterCopies
<1>6. WaiterSound(idle)
  <2>1. idle \in Waiters /\ idle.mem = Idle(w).mem /\ idle.conn = Idle(w).conn /\ idle.look = Idle(w).look
    BY <1>3 DEF Waiters
  <2> QED
    BY <2>1, <1>3, WaiterAlike
<1> HIDE DEF look, idle
<1> QED
  BY <1>1, <1>2, <1>3, <1>5, <1>6, WaiterLeaves

LEMMA QuitsSound ==
  ASSUME Sound, NEW p \in Pids, Quits(p) \/ LooksInVain(p)
  PROVE  Sound'
<1>1. Becomes(p, Leaving(wait[p])) /\ WaitsOn /\ UNCHANGED file
  BY DEF Quits, LooksInVain, Keeps
<1> QED
  BY <1>1, AloneWorld, WaiterIs, WaiterLeaves

LEMMA CallFailsSound ==
  ASSUME Sound, NEW p \in Pids, CallFails(p)
  PROVE  Sound'
<1> DEFINE idle == [Idle(wait[p]) EXCEPT !.errors = @ + 1]
<1>1. /\ Becomes(p, idle) \/ Becomes(p, Leaving(wait[p]))
      /\ WaitsOn /\ UNCHANGED file
  BY DEF CallFails, Keeps
<1>2. Idle(wait[p]) \in Waiters /\ WaiterSound(Idle(wait[p]))
  BY WaiterIs
<1>3. WaiterSound(idle)
  <2> DEFINE v == Idle(wait[p])
             n == v.errors + 1
  <2>1. n \in Nat /\ v \in Waiters
    BY <1>2 DEF Waiters
  <2>2. idle = [v EXCEPT !.errors = n]
    OBVIOUS
  <2> HIDE DEF n, v, idle
  <2>3. idle \in Waiters /\ idle.mem = v.mem /\ idle.conn = v.conn /\ idle.look = v.look
    BY <2>1, <2>2 DEF Waiters
  <2> QED
    BY <2>3, <1>2, WaiterAlike DEF v
<1> HIDE DEF idle
<1> QED
  BY <1>1, <1>3, AloneWorld, WaiterIs, WaiterLeaves

LEMMA PeekLeaves ==
  ASSUME Sound, NEW p \in Pids, Peek(p)
  PROVE  /\ World' /\ Onward
         /\ \E v : WaiterSound(v) /\ v.pc = "commit" /\ v.epoch = wait[p].epoch /\ Becomes(p, v)
<1> DEFINE w == wait[p]
           s == w.mem
           c == IF w.verify THEN w.conn ELSE Conn
           pres == Unacked(s, c)
<1>1. PICK ok \in BOOLEAN :
        LET elig == Eligible(w.mem, c, ok)
            cand == elig \ pres
            proj == ProjectionOf(cand, ok)
            sup == IF proj.outcomes = {} THEN proj.suppressed ELSE {}
            hold == proj.deferred \cup w.mem.delivered \cup file.delivered
        IN  \E cut \in Cuts(p, sup) :
            LET got == Settling(sup, hold, cut) IN
            /\ Spent(p, Cost(p, cut), ok)
            /\ cursor' = AckedTo(got.done)
            /\ Becomes(p, [w EXCEPT !.pc = "commit", !.conn = c,
                 !.look = [any |-> cand # {}, outs |-> proj.outcomes # {}, elig |-> elig,
                           pres |-> pres \cup got.done \cup got.held,
                           deferred |-> proj.deferred, held |-> got.held]])
  BY DEF Peek
<1> DEFINE elig == Eligible(s, c, ok)
           cand == elig \ pres
           proj == ProjectionOf(cand, ok)
           sup == IF proj.outcomes = {} THEN proj.suppressed ELSE {}
           hold == proj.deferred \cup s.delivered \cup file.delivered
<1>2. PICK cut \in Cuts(p, sup) :
        LET got == Settling(sup, hold, cut) IN
        /\ Spent(p, Cost(p, cut), ok)
        /\ cursor' = AckedTo(got.done)
        /\ Becomes(p, [w EXCEPT !.pc = "commit", !.conn = c,
             !.look = [any |-> cand # {}, outs |-> proj.outcomes # {}, elig |-> elig,
                       pres |-> pres \cup got.done \cup got.held,
                       deferred |-> proj.deferred, held |-> got.held]])
  BY <1>1
<1> DEFINE got == Settling(sup, hold, cut)
           any == cand # {}
           outs == proj.outcomes # {}
           seen == pres \cup got.done \cup got.held
           look == [any |-> any, outs |-> outs, elig |-> elig, pres |-> seen,
                    deferred |-> proj.deferred, held |-> got.held]
           v == [w EXCEPT !.pc = "commit", !.conn = c, !.look = look]
<1>3. cursor' = AckedTo(got.done) /\ Becomes(p, v)
  BY <1>2
<1>4. /\ WaiterSound(w) /\ w \in Waiters /\ World /\ Owing(s) /\ s \in Files
  BY WaiterIs DEF WaiterSound, Owing
<1>5. Answered(c) /\ c \in Conns
  BY <1>4, ConnAnswered DEF WaiterSound, Answered
<1>6. UNCHANGED <<file, hook, rearm, told, owner>> /\ (row' = row \/ GivesRows)
  BY DEF Peek, Keeps, hostVars
<1> HIDE DEF s, c
<1>7. /\ elig \in SUBSET Events /\ \A e \in elig : Published(e)
      /\ pres \in SUBSET Events /\ cand \in SUBSET Events /\ \A e \in cand : Published(e)
  BY <1>4, <1>5, EligibleIs, UnackedIs
<1> HIDE DEF elig, pres, cand
<1>8. /\ proj.deferred \subseteq cand /\ proj.suppressed \subseteq cand
      /\ \A e \in proj.suppressed : Mute(e) \/ Overtaken(e)
  BY <1>4, <1>7, ProjectionParts DEF ProjectionOf
<1> HIDE DEF proj
<1>9. sup \in SUBSET Events /\ \A e \in sup : Published(e) /\ (Mute(e) \/ Overtaken(e))
  BY <1>7, <1>8
<1> HIDE DEF sup, hold
<1>10. got.done \subseteq sup /\ got.held \subseteq sup
  BY <1>9, SettlingIs
<1>11. any \in BOOLEAN /\ outs \in BOOLEAN
  OBVIOUS
<1> HIDE DEF got, any, outs
<1>12. Seen(look) /\ look \in Looks
  <2>1. seen \in SUBSET Events /\ got.held \in SUBSET Events /\ got.held \subseteq seen
        /\ got.done \in SUBSET Events /\ proj.deferred \in SUBSET Events
    BY <1>7, <1>8, <1>9, <1>10
  <2> HIDE DEF seen
  <2>2. look \in Looks
    BY <1>7, <1>11, <2>1 DEF Looks
  <2>3. \A e \in got.held : e \in seen /\ Published(e) /\ (Mute(e) \/ Overtaken(e))
    BY <2>1, <1>9, <1>10
  <2>4. look.elig = elig /\ look.held = got.held /\ look.pres = seen
    OBVIOUS
  <2> HIDE DEF look
  <2> QED
    BY <2>2, <2>3, <2>4, <1>7 DEF Seen
<1> HIDE DEF look
<1>13. WaiterSound(v)
  <2>1. v \in Waiters /\ v.mem = s /\ v.conn = c /\ v.look = look
    <3>1. w \in Waiters
      BY <1>4
    <3> HIDE DEF w
    <3> QED
      BY <3>1, <1>5, <1>12 DEF Waiters, WaiterPlaces, s
  <2> QED
    BY <2>1, <1>4, <1>5, <1>12 DEF WaiterSound
<1>14. got.done \in SUBSET Events
  BY <1>9, <1>10
<1>15. /\ cursor' \in Nat /\ cursor <= cursor'
  BY <1>3, <1>4, <1>14, AckedToForward DEF World
<1>16. row' \in Rows /\ \A e \in Events : Published(e) =>
         Published(e)' /\ row'[e].kind = row[e].kind /\ row'[e].term = row[e].term
  <2>1. CASE row' = row
    BY <2>1, <1>4 DEF World, Published
  <2>2. CASE GivesRows
    <3>1. row' = [e \in Events |-> IF e \in Conn.list THEN [row[e] EXCEPT !.st = "delivered"]
                                 ELSE row[e]]
      BY <2>2 DEF GivesRows
    <3> QED
      BY <3>1, <1>4 DEF World, Rows, Published
  <2> QED
    BY <1>6, <2>1, <2>2
<1>17. World' /\ Onward
  BY <1>4, <1>6, <1>15, <1>16 DEF World, Onward
<1>18. v.pc = "commit" /\ v.epoch = wait[p].epoch
  BY <1>4 DEF Waiters
<1> HIDE DEF v
<1> QED
  BY <1>3, <1>13, <1>17, <1>18

LEMMA PeekSound ==
  ASSUME Sound, NEW p \in Pids, Peek(p)
  PROVE  Sound'
<1>1. World' /\ Onward /\ UNCHANGED <<file, hook, rearm>>
  BY PeekLeaves DEF Peek, Keeps
<1>2. PICK v : WaiterSound(v) /\ Becomes(p, v)
  BY PeekLeaves
<1> QED
  BY <1>1, <1>2, WaiterLeaves DEF Sound

\* What a waiter decides changes only its own flags.
LEMMA DecidedSound ==
  ASSUME World, NEW w, WaiterSound(w), NEW p
  PROVE  WaiterSound(Decided(w, p))
<1> DEFINE retry == w.look.deferred # {}
           v == [w EXCEPT !.check = FALSE, !.push = FALSE, !.errors = 0, !.retry = retry]
           next == IF w.look.outs THEN "prompt" ELSE "stale"
           a == [w EXCEPT !.pc = next]
           b == [Idle(v) EXCEPT !.grace = TRUE]
           c == [v EXCEPT !.pc = "trigger", !.grace = FALSE]
<1>1. Decided(w, p) = a \/ Decided(w, p) = b \/ Decided(w, p) = c \/ Decided(w, p) = Idle(v)
  BY DEF Decided
<1>2. w \in Waiters /\ retry \in BOOLEAN /\ next \in WaiterPlaces
  BY DEF WaiterSound, WaiterPlaces
<1> HIDE DEF retry, next
<1>3. WaiterSound(a)
  <2>1. a \in Waiters /\ a.mem = w.mem /\ a.conn = w.conn /\ a.look = w.look
    BY <1>2 DEF Waiters
  <2> QED
    BY <2>1, WaiterAlike
<1>4. WaiterSound(v) /\ v \in Waiters
  <2>1. v \in Waiters /\ v.mem = w.mem /\ v.conn = w.conn /\ v.look = w.look
    BY <1>2 DEF Waiters
  <2> QED
    BY <2>1, WaiterAlike
<1> HIDE DEF v
<1>5. WaiterSound(Idle(v)) /\ Idle(v) \in Waiters
  BY <1>4, IdleSound DEF WaiterSound
<1>6. WaiterSound(b)
  <2>1. b \in Waiters /\ b.mem = Idle(v).mem /\ b.conn = Idle(v).conn /\ b.look = Idle(v).look
    BY <1>5 DEF Waiters
  <2> QED
    BY <2>1, <1>5, WaiterAlike
<1>7. WaiterSound(c)
  <2>1. c \in Waiters /\ c.mem = v.mem /\ c.conn = v.conn /\ c.look = v.look
    BY <1>4 DEF Waiters, WaiterPlaces
  <2> QED
    BY <2>1, <1>4, WaiterAlike
<1> HIDE DEF a, b, c
<1> QED
  BY <1>1, <1>3, <1>5, <1>6, <1>7

LEMMA CommitSound ==
  ASSUME Sound, NEW p \in Pids, Commit(p)
  PROVE  Sound'
<1> DEFINE w == wait[p]
           l == w.look
           fresh == IF l.any THEN Merged(file, l, w.conn) ELSE Swept(file, l)
           targets == IF ~l.any /\ fresh # file THEN fresh.delivered ELSE w.targets
           aimed == IF w.verify THEN w.targets ELSE targets
           v == [w EXCEPT !.pc = "commitW", !.mem = fresh, !.targets = aimed]
<1>1. /\ Becomes(p, Leaving(w)) \/ Becomes(p, Decided(w, p)) \/ Becomes(p, v)
      /\ WaitsOn /\ UNCHANGED file
  BY DEF Commit
<1>2. /\ WaiterSound(w) /\ w \in Waiters /\ World /\ WaiterSound(Leaving(w)) /\ Owing(file)
      /\ Seen(l) /\ Answered(w.conn)
  BY WaiterIs DEF WaiterSound
<1>3. WaiterSound(Decided(w, p))
  BY <1>2, DecidedSound
<1>4. Owing(fresh) /\ fresh \in Files
  BY <1>2, SweptOwing, MergedOwing DEF Owing
<1>5. aimed \in SUBSET Events
  BY <1>2, <1>4 DEF Files, Waiters
<1> HIDE DEF w, l, fresh, targets, aimed
<1>6. WaiterSound(v)
  <2>1. v \in Waiters /\ v.mem = fresh /\ v.conn = w.conn /\ v.look = w.look
    BY <1>2, <1>4, <1>5 DEF Waiters, WaiterPlaces
  <2> QED
    BY <2>1, <1>2, <1>4, WaiterCopies
<1> HIDE DEF v
<1> QED
  BY <1>1, <1>2, <1>3, <1>6, AloneWorld, WaiterLeaves

\* The four writes of a waiter, and what it then is.
LEMMA WaiterWritesSound ==
  ASSUME Sound, NEW p \in Pids,
         CommitWrites(p) \/ RearmWrites(p) \/ ClearWrites(p) \/ PidCleared(p)
  PROVE  Sound'
<1> DEFINE w == wait[p]
           look == [w EXCEPT !.pc = "look", !.verify = TRUE]
<1>1. /\ file' = w.mem /\ WaitsOn
      /\ \/ Becomes(p, Decided(w, p)) \/ Becomes(p, look) \/ Becomes(p, Idle(w))
         \/ Becomes(p, Leaving(w)) \/ Becomes(p, NoWaiter)
  BY DEF CommitWrites, RearmWrites, ClearWrites, PidCleared, Save
<1>2. /\ WaiterSound(w) /\ w \in Waiters /\ World /\ WaiterSound(Leaving(w))
      /\ WaiterSound(Idle(w)) /\ WaiterSound(NoWaiter) /\ Owing(w.mem)
  BY WaiterIs, EmptyOwing DEF WaiterSound
<1>3. WaiterSound(Decided(w, p))
  BY <1>2, DecidedSound
<1> HIDE DEF w
<1>4. WaiterSound(look)
  <2>1. look \in Waiters /\ look.mem = w.mem /\ look.conn = w.conn /\ look.look = w.look
    BY <1>2 DEF Waiters, WaiterPlaces
  <2> QED
    BY <2>1, <1>2, WaiterAlike
<1> HIDE DEF look
<1>5. World' /\ Onward /\ UNCHANGED <<hook, rearm>>
  BY <1>1, AloneWorld
<1>6. Owing(file')
  BY <1>1, <1>2
<1> QED
  BY <1>1, <1>2, <1>3, <1>4, <1>5, <1>6, WaiterLeaves

LEMMA TriggerSound ==
  ASSUME Sound, NEW p \in Pids, Trigger(p)
  PROVE  Sound'
<1> DEFINE w == wait[p]
           again == [Idle(w) EXCEPT !.retry = TRUE]
           next == IF w.owed THEN "rearm" ELSE "prompt"
           on == [w EXCEPT !.pc = next]
<1>1. /\ Becomes(p, Leaving(w)) \/ Becomes(p, again) \/ Becomes(p, on)
      /\ WaitsOn /\ UNCHANGED file
  BY DEF Trigger, Keeps
<1>2. /\ WaiterSound(w) /\ w \in Waiters /\ World /\ WaiterSound(Leaving(w))
      /\ WaiterSound(Idle(w)) /\ Idle(w) \in Waiters /\ next \in WaiterPlaces
  BY WaiterIs DEF WaiterPlaces
<1> HIDE DEF w, next
<1>3. WaiterSound(again)
  <2>1. again \in Waiters /\ again.mem = Idle(w).mem /\ again.conn = Idle(w).conn
        /\ again.look = Idle(w).look
    BY <1>2 DEF Waiters
  <2> QED
    BY <2>1, <1>2, WaiterAlike
<1>4. WaiterSound(on)
  <2>1. on \in Waiters /\ on.mem = w.mem /\ on.conn = w.conn /\ on.look = w.look
    BY <1>2 DEF Waiters
  <2> QED
    BY <2>1, <1>2, WaiterAlike
<1> HIDE DEF again, on
<1> QED
  BY <1>1, <1>2, <1>3, <1>4, AloneWorld, WaiterLeaves

LEMMA RearmSoundStep ==
  ASSUME Sound, NEW p \in Pids, Rearm(p)
  PROVE  Sound'
<1> DEFINE w == wait[p]
           mem == [file EXCEPT !.presented = @ \ file.delivered]
           a == [w EXCEPT !.pc = "look", !.verify = TRUE, !.mem = file]
           b == [w EXCEPT !.pc = "rearmW", !.mem = mem]
<1>1. /\ Becomes(p, a) \/ Becomes(p, b)
      /\ WaitsOn /\ UNCHANGED file
  BY DEF Rearm
<1>2. WaiterSound(w) /\ w \in Waiters /\ World /\ Owing(file) /\ file \in Files
  BY WaiterIs
<1>3. Owing(mem) /\ mem \in Files
  <2>1. /\ mem \in Files /\ mem.presented = file.presented \ file.delivered
        /\ mem.delivered = file.delivered /\ mem.pending = file.pending /\ mem.kept = file.kept
    BY <1>2 DEF Files
  <2> HIDE DEF mem
  <2> QED
    BY <2>1, <1>2, PutBackOwing
<1> HIDE DEF w, mem
<1>4. WaiterSound(a)
  <2>1. a \in Waiters /\ a.mem = file /\ a.conn = w.conn /\ a.look = w.look
    BY <1>2 DEF Waiters, WaiterPlaces
  <2> QED
    BY <2>1, <1>2, WaiterCopies
<1>5. WaiterSound(b)
  <2>1. b \in Waiters /\ b.mem = mem /\ b.conn = w.conn /\ b.look = w.look
    BY <1>2, <1>3 DEF Waiters, WaiterPlaces
  <2> QED
    BY <2>1, <1>2, <1>3, WaiterCopies
<1> HIDE DEF a, b
<1> QED
  BY <1>1, <1>4, <1>5, AloneWorld, WaiterLeaves

LEMMA ClearsSound ==
  ASSUME Sound, NEW p \in Pids, Clears(p)
  PROVE  Sound'
<1> DEFINE w == wait[p]
           mem == [file EXCEPT !.delivered = @ \ w.targets]
           b == [w EXCEPT !.pc = "staleW", !.mem = mem]
<1>1. /\ Becomes(p, Idle(w)) \/ Becomes(p, b)
      /\ WaitsOn /\ UNCHANGED file
  BY DEF Clears
<1>2. /\ WaiterSound(w) /\ w \in Waiters /\ World /\ WaiterSound(Idle(w))
      /\ Owing(file) /\ file \in Files
  BY WaiterIs
<1>3. Owing(mem) /\ mem \in Files
  <2>1. /\ mem \in Files /\ mem.presented = file.presented
        /\ mem.delivered \subseteq file.delivered /\ mem.pending = file.pending
        /\ mem.kept = file.kept
    BY <1>2 DEF Files
  <2> HIDE DEF mem
  <2> QED
    BY <2>1, <1>2, OwingLess DEF Owing
<1> HIDE DEF w, mem
<1>4. WaiterSound(b)
  <2>1. b \in Waiters /\ b.mem = mem /\ b.conn = w.conn /\ b.look = w.look
    BY <1>2, <1>3 DEF Waiters, WaiterPlaces
  <2> QED
    BY <2>1, <1>2, <1>3, WaiterCopies
<1> HIDE DEF b
<1> QED
  BY <1>1, <1>2, <1>4, AloneWorld, WaiterLeaves

LEMMA PromptsSound ==
  ASSUME Sound, NEW p \in Pids, Prompts(p)
  PROVE  Sound'
<1> DEFINE w == wait[p]
           again == [Idle(w) EXCEPT !.tries = @ + 1, !.retry = TRUE]
           done == [w EXCEPT !.pc = "done", !.mem = NoFile, !.look = NoLook, !.conn = NoConn]
<1>1. /\ Becomes(p, Leaving(w)) \/ Becomes(p, again) \/ Becomes(p, done)
      /\ UNCHANGED <<hook, rearm, told, row, cursor, owner, file>>
  BY DEF Prompts, Keeps, daemonVars
<1>2. /\ WaiterSound(w) /\ w \in Waiters /\ World /\ WaiterSound(Leaving(w))
      /\ WaiterSound(Idle(w)) /\ Idle(w) \in Waiters
  BY WaiterIs
<1>3. World' /\ Onward
  BY <1>1, <1>2, SameWorld
<1> HIDE DEF w
<1>4. WaiterSound(again)
  <2> DEFINE v == Idle(w)
             n == v.tries + 1
  <2>1. n \in Nat /\ v \in Waiters
    BY <1>2 DEF Waiters
  <2>2. again = [v EXCEPT !.tries = n, !.retry = TRUE]
    OBVIOUS
  <2> HIDE DEF n, v, again
  <2>3. again \in Waiters /\ again.mem = v.mem /\ again.conn = v.conn /\ again.look = v.look
    BY <2>1, <2>2 DEF Waiters
  <2> QED
    BY <2>3, <1>2, WaiterAlike DEF v
<1>5. WaiterSound(done)
  <2>1. NoFile \in Files /\ NoConn \in Conns /\ NoLook \in Looks
    BY <1>2, EmptyOwing DEF Owing, Answered, Seen
  <2>2. done \in Waiters /\ done.mem = NoFile /\ done.conn = NoConn /\ done.look = NoLook
    BY <1>2, <2>1 DEF Waiters, WaiterPlaces
  <2> QED
    BY <2>2, <1>2, EmptyOwing DEF WaiterSound
<1> HIDE DEF again, done
<1> QED
  BY <1>1, <1>2, <1>3, <1>4, <1>5, WaiterLeaves DEF Sound

LEMMA ClearsPidSound ==
  ASSUME Sound, NEW p \in Pids, ClearsPid(p)
  PROVE  Sound'
<1> DEFINE w == wait[p]
           mem == [file EXCEPT !.pid = NoPid]
           next == IF At(p, "done") THEN "doneW" ELSE "byeW"
           b == [w EXCEPT !.mem = mem, !.pc = next]
<1>1. /\ Becomes(p, b) \/ Becomes(p, Leaving(w)) \/ Becomes(p, NoWaiter)
      /\ WaitsOn /\ UNCHANGED file
  BY DEF ClearsPid
<1>2. /\ WaiterSound(w) /\ w \in Waiters /\ World /\ WaiterSound(Leaving(w))
      /\ WaiterSound(NoWaiter) /\ Owing(file) /\ file \in Files /\ next \in WaiterPlaces
  BY WaiterIs, EmptyOwing DEF WaiterPlaces
<1>3. Owing(mem) /\ mem \in Files
  <2>1. /\ mem \in Files /\ mem.presented = file.presented
        /\ mem.delivered = file.delivered /\ mem.pending = file.pending
        /\ mem.kept = file.kept
    BY <1>2 DEF Files
  <2> HIDE DEF mem
  <2> QED
    BY <2>1, <1>2, OwingAlike
<1> HIDE DEF w, mem, next
<1>4. WaiterSound(b)
  <2>1. b \in Waiters /\ b.mem = mem /\ b.conn = w.conn /\ b.look = w.look
    BY <1>2, <1>3 DEF Waiters
  <2> QED
    BY <2>1, <1>2, <1>3, WaiterCopies
<1> HIDE DEF b
<1> QED
  BY <1>1, <1>2, <1>4, AloneWorld, WaiterLeaves

----------------------------------------------------------------------------
(* RearmAgyWaiters *)

LEMMA RearmStepSound ==
  ASSUME Sound, RearmStep
  PROVE  Sound'
<1>1. World /\ Owing(file) /\ file \in Files /\ RearmSound(rearm) /\ rearm \in Rearms
      /\ rearm.mem \in Files /\ Owing(rearm.mem) /\ RearmSound(NoRearm) /\ NoRearm \in Rearms
      /\ Owing(NoFile) /\ NoFile \in Files /\ WaiterSound(NoWaiter)
      /\ wait \in [Pids -> Waiters] /\ \A p \in Pids : WaiterSound(wait[p])
  BY EmptyOwing DEF Sound, Owing, RearmSound
<1>2. UNCHANGED <<hook, row, cursor, owner, told>>
  BY DEF RearmStep, Scans, Matches, PidDropped, Respawns, Records, PidRecorded, Writes,
         Daemonic, hostVars, daemonVars
<1>3. World' /\ Onward
  BY <1>1, <1>2, SameWorld
\* a copy with another pid
<1>4. ASSUME NEW q \in Pids \cup {NoPid}
      PROVE  Owing([file EXCEPT !.pid = q]) /\ [file EXCEPT !.pid = q] \in Files
  <2> DEFINE mem == [file EXCEPT !.pid = q]
  <2>1. /\ mem \in Files /\ mem.presented = file.presented /\ mem.delivered = file.delivered
        /\ mem.pending = file.pending /\ mem.kept = file.kept
    BY <1>1, <1>4 DEF Files
  <2> HIDE DEF mem
  <2>2. Owing(mem)
    BY <1>1, <2>1, OwingAlike
  <2> QED
    BY <2>1, <2>2 DEF mem
<1>5. CASE Scans
  <2> DEFINE to == [NoRearm EXCEPT !.pc = "match", !.epoch = EffectiveEpoch(file), !.was = file.pid]
  <2>1. rearm' = NoRearm \/ rearm' = to
    BY <1>5 DEF Scans, RearmTo
  <2>2. EffectiveEpoch(file) \in Nat /\ file.pid \in Pids \cup {NoPid}
    BY <1>1 DEF EffectiveEpoch, Files
  <2>3. to \in Rearms /\ to.mem = NoRearm.mem
    BY <1>1, <2>2 DEF Rearms
  <2> HIDE DEF to
  <2>4. RearmSound(rearm')
    BY <1>1, <2>1, <2>3 DEF RearmSound
  <2>5. UNCHANGED <<file, wait>>
    BY <1>5 DEF Scans, Keeps
  <2> QED
    BY <1>1, <1>2, <1>3, <2>4, <2>5, DaemonLeaves
<1>6. CASE Matches
  <2> DEFINE mem == [file EXCEPT !.pid = NoPid]
             to == [rearm EXCEPT !.pc = "clear", !.mem = mem]
  <2>1. (rearm' = NoRearm \/ rearm' = to) /\ UNCHANGED <<file, wait>>
    BY <1>6 DEF Matches, RearmTo
  <2>2. Owing(mem) /\ mem \in Files
    BY <1>4
  <2> HIDE DEF mem
  <2>3. to \in Rearms /\ to.mem = mem
    BY <1>1, <2>2 DEF Rearms
  <2> HIDE DEF to
  <2>4. RearmSound(rearm')
    BY <1>1, <2>1, <2>2, <2>3 DEF RearmSound
  <2> QED
    BY <1>1, <1>2, <1>3, <2>1, <2>4, DaemonLeaves
<1>7. CASE PidDropped \/ PidRecorded
  <2> DEFINE to == [rearm EXCEPT !.pc = "spawn", !.mem = NoFile]
  <2>1. (rearm' = NoRearm \/ rearm' = to) /\ file' = rearm.mem /\ wait' = wait
    BY <1>7 DEF PidDropped, PidRecorded, Writes, RearmTo, Save
  <2>2. to \in Rearms /\ to.mem = NoFile
    BY <1>1 DEF Rearms
  <2> HIDE DEF to
  <2>3. RearmSound(rearm')
    BY <1>1, <2>1, <2>2 DEF RearmSound
  <2> QED
    BY <1>1, <1>2, <1>3, <2>1, <2>3, DaemonLeaves
<1>8. CASE Respawns
  <2>1. PICK p \in Free : /\ Started(p, rearm.epoch)
                          /\ rearm' = [rearm EXCEPT !.pc = "check", !.pid = p]
    BY <1>8 DEF Respawns, RearmTo
  <2>2. p \in Pids
    BY DEF Free, Lowest
  <2>3. rearm' \in Rearms /\ rearm'.mem = rearm.mem
    BY <1>1, <2>1, <2>2 DEF Rearms
  <2>4. RearmSound(rearm')
    BY <1>1, <2>3 DEF RearmSound
  <2> DEFINE w == [NoWaiter EXCEPT !.pc = "top", !.epoch = rearm.epoch]
  <2>5. WaiterSound(w) /\ w \in Waiters
    <3>1. rearm.epoch \in Nat
      BY <1>1 DEF Rearms
    <3> QED
      BY <3>1, <1>1, StartedSound DEF WaiterSound
  <2>6. wait' = [wait EXCEPT ![p] = w] /\ UNCHANGED file
    BY <1>8, <2>1 DEF Started, Respawns, Keeps
  <2> HIDE DEF w
  <2>7. wait' \in [Pids -> Waiters] /\ \A q \in Pids : WaiterSound(wait'[q])
    BY <1>1, <2>5, <2>6
  <2> QED
    BY <1>1, <1>2, <1>3, <2>4, <2>6, <2>7, DaemonLeaves
<1>9. CASE Records
  <2> DEFINE mem == [file EXCEPT !.pid = rearm.pid]
             to == [rearm EXCEPT !.pc = "record", !.mem = mem]
  <2>1. /\ \/ rearm' = to /\ UNCHANGED wait
           \/ rearm' = NoRearm /\ wait' = [wait EXCEPT ![rearm.pid] = NoWaiter]
        /\ UNCHANGED file
    BY <1>9 DEF Records, RearmTo, Becomes
  <2>2. rearm.pid \in Pids \cup {NoPid}
    BY <1>1 DEF Rearms
  <2>3. Owing(mem) /\ mem \in Files
    BY <1>4, <2>2
  <2> HIDE DEF mem
  <2>4. to \in Rearms /\ to.mem = mem
    BY <1>1, <2>3 DEF Rearms
  <2> HIDE DEF to
  <2>5. RearmSound(rearm')
    BY <1>1, <2>1, <2>3, <2>4 DEF RearmSound
  <2>6. wait' \in [Pids -> Waiters] /\ \A q \in Pids : WaiterSound(wait'[q])
    BY <1>1, <2>1 DEF WaiterSound
  <2> QED
    BY <1>1, <1>2, <1>3, <2>1, <2>5, <2>6, DaemonLeaves
<1> QED
  BY <1>5, <1>6, <1>7, <1>8, <1>9 DEF RearmStep

LEMMA RestartsSound ==
  ASSUME Sound, NEW killed \in BOOLEAN, Restarts(killed)
  PROVE  Sound'
<1>1. /\ UNCHANGED <<file, hook, row, cursor, owner, told>>
      /\ rearm' = [NoRearm EXCEPT !.pc = "scan"]
      /\ wait' = [p \in Pids |-> IF killed THEN NoWaiter ELSE wait[p]]
  BY DEF Restarts, RearmTo, Daemonic, hostVars, daemonVars
<1>2. World' /\ Onward
  BY <1>1, SameWorld DEF Sound
<1>3. RearmSound(NoRearm) /\ WaiterSound(NoWaiter)
  BY EmptyOwing DEF Sound
<1>4. RearmSound(rearm')
  BY <1>1, <1>3 DEF RearmSound, Rearms
<1>5. wait' \in [Pids -> Waiters] /\ \A q \in Pids : WaiterSound(wait'[q])
  BY <1>1, <1>3 DEF Sound, WaiterSound
<1> QED
  BY <1>1, <1>2, <1>4, <1>5, DaemonLeaves DEF Sound

----------------------------------------------------------------------------
(* Soundness *)

LEMMA InitSound == Init => Sound
<1> SUFFICES ASSUME Init PROVE Sound
  OBVIOUS
<1>1. row \in Rows
  <2> DEFINE first == CHOOSE t \in Terminals : TRUE
  <2>1. first \in Places
    BY DEF Places
  <2>2. row = [e \in Events |-> [st |-> "none", kind |-> "noise", term |-> first]]
    BY DEF Init
  <2> HIDE DEF first
  <2> QED
    BY <2>1, <2>2 DEF Rows, AllKinds
<1>2. World
  BY <1>1, AgyAssumption DEF Init, World
<1>3. HookSound(NoHook) /\ Owing(NoFile) /\ WaiterSound(NoWaiter) /\ RearmSound(NoRearm)
  BY <1>2, EmptyOwing
<1>4. file = NoFile /\ hook = NoHook /\ rearm = NoRearm /\ wait = [p \in Pids |-> NoWaiter]
  BY DEF Init
<1> QED
  BY <1>2, <1>3, <1>4 DEF Sound, WaiterSound

LEMMA NextSound ==
  ASSUME Sound, [Next]_vars
  PROVE  Sound'
<1>1. CASE UNCHANGED vars
  <2>1. UNCHANGED <<file, hook, wait, rearm, row, cursor, owner, told>>
    BY <1>1 DEF vars, hostVars, daemonVars
  <2>2. World' /\ Onward
    BY <2>1, SameWorld DEF Sound
  <2> QED
    BY <2>1, <2>2, OthersLeave
<1>2. CASE TurnBegins \/ TurnEnds \/ Aborts
  BY <1>2, TurnBeginsSound, TurnEndsSound, AbortsSound
<1>3. CASE HookStep
  BY <1>3, PreWritesSound, RegistersSound, ClaimsSound, NotOwnerSound, FlushNothingSound,
     FlushSound, RefetchSound, TakeSound, AbortWritesSound, SpawnsSound, StopReturnsSound
     DEF HookStep
<1>4. CASE RearmStep
  BY <1>4, RearmStepSound
<1>5. CASE \E p \in Pids : WaiterStep(p) \/ Quits(p) \/ CallFails(p)
  <2> SUFFICES ASSUME NEW p \in Pids, WaiterStep(p) \/ Quits(p) \/ CallFails(p)
               PROVE  Sound'
    BY <1>5
  <2> QED
    BY TopSound, PeekSound, QuitsSound, CommitSound, WaiterWritesSound, TriggerSound,
       RearmSoundStep, ClearsSound, PromptsSound, ClearsPidSound, CallFailsSound DEF WaiterStep
<1>6. CASE \E k \in Kinds, t \in Terminals, busy \in BOOLEAN : Publish(k, t, busy)
  BY <1>6, PublishSound
<1>7. CASE \E t \in Terminals : PeerIdle(t) \/ PeerLeaves(t)
  BY <1>7, OthersSound, PeerLeavesSound
<1>8. CASE (\E e \in Events : RowMoves(e)) \/ OwnerMoves
  BY <1>8, RowMovesSound, OthersSound
<1>9. CASE \E killed \in BOOLEAN : Restarts(killed)
  BY <1>9, RestartsSound
<1> QED
  BY <1>1, <1>2, <1>3, <1>4, <1>5, <1>6, <1>7, <1>8, <1>9 DEF Next

LEMMA AlwaysSound == Spec => []Sound
<1>1. Init => Sound
  BY InitSound
<1>2. Sound /\ [Next]_vars => Sound'
  BY NextSound
<1> QED
  BY <1>1, <1>2, PTL DEF Spec

\* The file and every copy of it are session states: a pid in the file is that of a
\* waiter or none, its ids are ids of events, whoever wrote it last
\* (writeSessionState, updateAgyWaiterPIDConditionally).
THEOREM TypeCorrect == Spec => []TypeOK
<1>1. Sound => TypeOK
  <2>1. ASSUME NEW s \in Files PROVE FileType(s)
    BY <2>1 DEF Files, FileType
  <2> QED
    BY <2>1 DEF Sound, Owing, HookSound, WaiterSound, TypeOK
<1> QED
  BY <1>1, AlwaysSound, PTL

\* deliveredEventIds holds no row without text, and pendingAckEventIds none that is
\* neither presented, acknowledged nor overtaken by an answer of its terminal,
\* whatever order the hooks, the waiters and the
\* restarts of the daemon write the file in and however old the copy is that they
\* write (hook.go, takeNextWakeBatch and flushDeliveredAcks).
THEOREM AckIsOwedAlways == Spec => []AckIsAllThatIsOwed
<1>1. Sound => AckIsAllThatIsOwed
  BY DEF Sound, Owing, AckIsAllThatIsOwed, Mute, Settled
<1> QED
  BY <1>1, AlwaysSound, PTL

----------------------------------------------------------------------------
(* One prompter.  As long as no write was lost, a write is of a copy of the file as
   it is, so the generations of the file only grow, and the pid in it is that of the
   waiter that was started last and has not left. *)

\* p waits for its turn to end; it may prompt.
Waits(p) == wait[p].pc \notin {"off", "exit", "byeW", "done", "doneW"}
\* p has passed its last look at the generation.
Sure(p) == wait[p].pc = "prompt" \/ (wait[p].pc = "commitW" /\ wait[p].verify)
Current(p) == wait[p].epoch = file.epoch
Rearming(p) == rearm.pc \in {"check", "record"} /\ rearm.pid = p

\* Generations grow, and a waiter is of this one or an older one.
Generations ==
  /\ file.wepoch \in {0, file.epoch}
  /\ \A p \in Pids : wait[p].pc # "off" => wait[p].epoch <= file.epoch
  /\ rearm.pc \notin {"none", "scan"} => rearm.epoch <= file.epoch
  /\ hook.pc \in {"spawn", "pidW"} => hook.mem.epoch <= file.epoch

\* What a copy of the file as it is has of its generation.
HookFresh ==
  Hook \notin stale =>
    /\ hook.pc = "preW" => \/ SameGen(hook.mem, file)
                           \/ /\ hook.mem.epoch > file.epoch
                              /\ hook.mem.wepoch = 0 /\ hook.mem.pid = NoPid
    /\ hook.pc \in {"claim", "owner", "take", "abortW", "spawn"} => SameGen(hook.mem, file)
    /\ hook.pc = "reg" /\ hook.ev = "pre" => SameGen(hook.mem, file)
    /\ hook.pc = "pidW" => hook.mem.epoch = file.epoch /\ hook.mem.wepoch = file.wepoch
    /\ hook.pc \in {"spawn", "pidW"} =>
         /\ file.pid = NoPid
         /\ rearm.pc = "match" /\ rearm.epoch = file.epoch => rearm.was = NoPid
WaiterFresh(p) ==
  p \notin stale =>
    /\ wait[p].pc \in {"commitW", "rearmW", "staleW"} => SameGen(wait[p].mem, file)
    /\ wait[p].pc \in {"doneW", "byeW"} =>
         /\ wait[p].mem.epoch = file.epoch /\ wait[p].mem.wepoch = file.wepoch
         /\ wait[p].mem.pid = NoPid /\ file.pid = p
DaemonFresh ==
  Daemon \notin stale =>
    /\ rearm.pc = "clear" =>
         /\ rearm.mem.epoch = file.epoch /\ rearm.mem.wepoch = file.wepoch
         /\ rearm.mem.pid = NoPid
         /\ file.pid # NoPid => wait[file.pid].pc = "off"
    /\ rearm.pc = "record" =>
         /\ rearm.mem.epoch = file.epoch /\ rearm.mem.wepoch = file.wepoch
         /\ rearm.mem.pid = rearm.pid /\ file.pid = NoPid

\* The waiter that a restarting daemon found dead is dead while its generation lasts.
FoundDead ==
  (/\ rearm.pc = "match" /\ rearm.was # NoPid
   /\ file.pid = rearm.was /\ file.epoch = rearm.epoch) => wait[rearm.was].pc = "off"
\* A waiter of this generation is recorded, or about to be.
Recorded ==
  \A p \in Pids : (Waits(p) /\ Current(p)) =>
    \/ file.pid = p \/ Rearming(p)
    \/ hook.pc = "pidW" /\ hook.mem.pid = p /\ hook.mem.epoch = wait[p].epoch
\* The waiters of a turn that has not ended are not under way.
Parked ==
  hook.pc \in {"spawn", "pidW"} =>
    \A p \in Pids : (Waits(p) /\ wait[p].epoch = hook.mem.epoch) => wait[p].pc = "top"
\* One that is sure of this generation is the recorded one.
SureIsRecorded ==
  \A p \in Pids : (Sure(p) /\ Current(p)) => file.pid = p \/ (file.pid = NoPid /\ Rearming(p))
OneIsSure ==
  \A p, q \in Pids : (Sure(p) /\ Sure(q) /\ wait[p].epoch = wait[q].epoch) => p = q

Gated ==
  /\ Generations /\ HookFresh /\ (\A p \in Pids : WaiterFresh(p)) /\ DaemonFresh
  /\ FoundDead /\ Recorded /\ Parked /\ SureIsRecorded /\ OneIsSure
\* A hook runs while its turn does.
HookInTurn == hook.pc # "none" => host = "busy"
Histories == hist \in [lost : BOOLEAN, deserted : BOOLEAN, twins : BOOLEAN]
OneGate == Histories /\ HookInTurn /\ (hist.lost \/ Gated)

LEMMA ActorsApart ==
  /\ Hook \in Actors /\ Daemon \in Actors /\ Hook # Daemon
  /\ \A p \in Pids : p \in Actors /\ p # Hook /\ p # Daemon /\ p # NoPid
BY AgyAssumption DEF Actors, Hook, Daemon, Pids, NoPid

\* r reads the file, or writes it as it is in generation and pid: the copies of the
\* others are as true as before.
Undisturbed(r) ==
  /\ SameGen(file', file)
  /\ \A q \in Actors : (q # r /\ Holds(q) /\ q \notin stale') => q \notin stale /\ file' = file

LEMMA ReadsUndisturbed ==
  ASSUME NEW r, UNCHANGED file, stale' = stale \/ Load(r)
  PROVE  Undisturbed(r)
BY DEF Undisturbed, SameGen, Load

LEMMA SaveUndisturbed ==
  ASSUME NEW r, NEW s, Save(r, s), SameGen(s, file)
  PROVE  Undisturbed(r) /\ file' = s
BY DEF Undisturbed, Save

\* The same of a write that changes the generation or the pid.
LEMMA SaveDisturbs ==
  ASSUME NEW r, NEW s, Save(r, s), s # file
  PROVE  file' = s /\ \A q \in Actors : (q # r /\ Holds(q)) => q \in stale'
BY DEF Save

\* The hook moves on, in its generation.
LEMMA HookMoves ==
  ASSUME Sound, Gated, Undisturbed(Hook), UNCHANGED <<wait, rearm>>,
         hook.pc # "pidW", hook'.pc \notin {"spawn", "pidW"}, HookFresh'
  PROVE  Gated'
<1>1. /\ file'.epoch = file.epoch /\ file'.wepoch = file.wepoch /\ file'.pid = file.pid
      /\ \A q \in Actors : (q # Hook /\ Holds(q) /\ q \notin stale') => q \notin stale /\ file' = file
  BY DEF Undisturbed, SameGen
<1>2. Generations'
  BY <1>1 DEF Gated, Generations
<1>3. ASSUME NEW p \in Pids PROVE WaiterFresh(p)'
  <2>1. p \in Actors /\ p # Hook /\ p # Daemon
    BY ActorsApart
  <2>2. Holds(p) <=> wait[p].pc \in {"commitW", "rearmW", "staleW", "doneW", "byeW"}
    BY <2>1 DEF Holds
  <2> QED
    BY <1>1, <2>1, <2>2 DEF Gated, WaiterFresh
<1>4. DaemonFresh'
  <2>1. Holds(Daemon) <=> rearm.pc \in {"clear", "record"}
    BY ActorsApart DEF Holds
  <2> QED
    BY <1>1, <2>1, ActorsApart DEF Gated, DaemonFresh
<1>5. FoundDead'
  BY <1>1 DEF Gated, FoundDead
<1>6. Recorded'
  BY <1>1 DEF Gated, Recorded, Waits, Current, Rearming
<1>7. Parked'
  BY DEF Parked
<1>8. SureIsRecorded' /\ OneIsSure'
  BY <1>1 DEF Gated, SureIsRecorded, OneIsSure, Sure, Current, Rearming
<1> QED
  BY <1>2, <1>3, <1>4, <1>5, <1>6, <1>7, <1>8 DEF Gated

\* The hook begins a generation: no waiter is of it.
LEMMA HookAdvances ==
  ASSUME Sound, Gated, NEW s \in Files, Save(Hook, s), s.epoch > file.epoch,
         s.wepoch \in {0, s.epoch}, s.pid = NoPid, UNCHANGED <<wait, rearm>>,
         hook.pc # "pidW", hook'.pc # "pidW",
         hook'.pc = "spawn" => hook'.mem.epoch = s.epoch, HookFresh'
  PROVE  Gated'
<1>0. file \in Files /\ rearm \in Rearms /\ \A p \in Pids : wait[p] \in Waiters
  BY DEF Sound, Owing, RearmSound, WaiterSound
<1>1. /\ file' = s /\ \A q \in Actors : (q # Hook /\ Holds(q)) => q \in stale'
  <2>1. s # file
    BY <1>0 DEF Files
  <2> QED
    BY <2>1, SaveDisturbs
<1>2. /\ \A p \in Pids : wait[p].pc # "off" => wait[p].epoch < s.epoch
      /\ rearm.pc \notin {"none", "scan"} => rearm.epoch < s.epoch
  BY <1>0 DEF Gated, Generations, Files, Waiters, Rearms
<1>3. Generations'
  BY <1>0, <1>1, <1>2 DEF Generations, Files, Waiters, Rearms
<1>4. ASSUME NEW p \in Pids PROVE WaiterFresh(p)'
  <2>1. p \in Actors /\ p # Hook /\ p # Daemon
    BY ActorsApart
  <2>2. Holds(p) <=> wait[p].pc \in {"commitW", "rearmW", "staleW", "doneW", "byeW"}
    BY <2>1 DEF Holds
  <2> QED
    BY <1>1, <2>1, <2>2 DEF WaiterFresh
<1>5. DaemonFresh'
  <2>1. Holds(Daemon) <=> rearm.pc \in {"clear", "record"}
    BY ActorsApart DEF Holds
  <2> QED
    BY <1>1, <2>1, ActorsApart DEF DaemonFresh
<1>6. FoundDead'
  BY <1>1 DEF FoundDead
<1>7. \A p \in Pids : wait[p].pc # "off" => wait[p].epoch # s.epoch
  BY <1>0, <1>2 DEF Files, Waiters
<1>8. Recorded' /\ SureIsRecorded' /\ Parked'
  BY <1>1, <1>7 DEF Recorded, SureIsRecorded, Parked, Sure, Current, Waits
<1>9. OneIsSure'
  BY DEF Gated, OneIsSure, Sure
<1> QED
  BY <1>3, <1>4, <1>5, <1>6, <1>8, <1>9 DEF Gated

\* A waiter moves on, in its generation.
LEMMA WaiterMoves ==
  ASSUME Sound, Gated, NEW p \in Pids, NEW w, Undisturbed(p), UNCHANGED <<hook, rearm>>,
         Becomes(p, w), WaiterFresh(p)',
         w.pc # "off" => wait[p].pc # "off" /\ w.epoch = wait[p].epoch,
         w.pc \notin {"off", "exit", "byeW", "done", "doneW"} => Waits(p),
         w.pc \notin {"off", "exit", "byeW", "done", "doneW", "top"}
           => wait[p].pc # "top" \/ hook.pc \notin {"spawn", "pidW"},
         w.pc = "prompt" \/ (w.pc = "commitW" /\ w.verify)
           => \/ Sure(p)
              \/ Current(p) /\ (file.pid = p \/ (file.pid = NoPid /\ Rearming(p)))
  PROVE  Gated'
<1>1. /\ file'.epoch = file.epoch /\ file'.wepoch = file.wepoch /\ file'.pid = file.pid
      /\ \A q \in Actors : (q # p /\ Holds(q) /\ q \notin stale') => q \notin stale /\ file' = file
  BY DEF Undisturbed, SameGen
<1>2. wait'[p] = w /\ (\A q \in Pids : q # p => wait'[q] = wait[q])
  BY DEF Becomes, Sound
<1>3. /\ \A q \in Pids : wait'[q].pc # "off" => wait[q].pc # "off" /\ wait'[q].epoch = wait[q].epoch
      /\ \A q \in Pids : Waits(q)' => Waits(q) /\ wait'[q].epoch = wait[q].epoch
  BY <1>2 DEF Waits
<1>4. Generations'
  BY <1>1, <1>3 DEF Gated, Generations
<1>5. ASSUME NEW q \in Pids PROVE WaiterFresh(q)'
  <2>1. q \in Actors /\ q # Hook /\ q # Daemon
    BY ActorsApart
  <2>2. Holds(q) <=> wait[q].pc \in {"commitW", "rearmW", "staleW", "doneW", "byeW"}
    BY <2>1 DEF Holds
  <2>3. CASE q # p
    BY <1>1, <1>2, <2>1, <2>2, <2>3 DEF Gated, WaiterFresh
  <2> QED
    BY <2>3
<1>6. DaemonFresh'
  <2>1. Holds(Daemon) <=> rearm.pc \in {"clear", "record"}
    BY ActorsApart DEF Holds
  <2>2. Daemon # p
    BY ActorsApart
  <2>3. file.pid \in Pids \cup {NoPid}
    BY DEF Sound, Owing, Files
  <2> QED
    BY <1>1, <1>3, <2>1, <2>2, <2>3, ActorsApart DEF Gated, DaemonFresh
<1>7. HookFresh'
  <2>1. Holds(Hook) <=> hook.pc # "none"
    BY DEF Holds
  <2>2. Hook # p
    BY ActorsApart
  <2> QED
    BY <1>1, <2>1, <2>2, ActorsApart DEF Gated, HookFresh, SameGen
<1>8. FoundDead'
  <2>1. rearm.was \in Pids \cup {NoPid}
    BY DEF Sound, RearmSound, Rearms
  <2> QED
    BY <1>1, <1>3, <2>1 DEF Gated, FoundDead
<1>9. Recorded'
  BY <1>1, <1>3 DEF Gated, Recorded, Current, Rearming
<1>10. Parked'
  <2> SUFFICES ASSUME hook.pc \in {"spawn", "pidW"}, NEW q \in Pids, Waits(q)',
                      wait'[q].epoch = hook.mem.epoch
               PROVE  wait'[q].pc = "top"
    BY DEF Parked
  <2>1. wait[q].pc = "top"
    BY <1>3 DEF Gated, Parked
  <2> QED
    BY <1>2, <2>1 DEF Waits
<1>11. SureIsRecorded'
  BY <1>1, <1>2 DEF Gated, SureIsRecorded, Sure, Current, Rearming
<1>12. OneIsSure'
  <2>1. \A q \in Pids : Sure(q)' => /\ wait'[q].epoch = wait[q].epoch
                                    /\ \/ Sure(q)
                                       \/ q = p /\ Current(p) /\ (file.pid = p \/ (file.pid = NoPid /\ Rearming(p)))
    BY <1>2 DEF Sure
  <2>2. ASSUME NEW a \in Pids, NEW b \in Pids, Sure(a)', Sure(b)', wait'[a].epoch = wait'[b].epoch
        PROVE  a = b
    <3>1. wait[a].epoch = wait[b].epoch
      BY <2>1, <2>2
    <3>2. CASE Sure(a) /\ Sure(b)
      BY <3>1, <3>2 DEF Gated, OneIsSure
    <3>3. CASE ~Sure(a) \/ ~Sure(b)
      <4>1. Current(a) /\ Current(b)
        BY <2>1, <2>2, <3>1, <3>3 DEF Current
      <4>2. \A q \in {a, b} : file.pid = q \/ (file.pid = NoPid /\ Rearming(q))
        BY <2>1, <2>2, <4>1 DEF Gated, SureIsRecorded
      <4> QED
        BY <4>2, ActorsApart DEF Rearming
    <3> QED
      BY <3>2, <3>3
  <2> QED
    BY <2>2 DEF OneIsSure
<1> QED
  BY <1>4, <1>5, <1>6, <1>7, <1>8, <1>9, <1>10, <1>11, <1>12 DEF Gated

LEMMA FreshCopy ==
  ASSUME \/ hook'.pc \in {"claim", "owner", "take", "abortW", "reg"} /\ SameGen(hook'.mem, file')
         \/ hook'.pc \in {"none", "give"} \/ (hook'.pc = "reg" /\ hook'.ev = "stop")
  PROVE  HookFresh'
BY DEF HookFresh

\* What a hook does in its generation, by what it writes and where it goes on.
LEMMA HookWritesAlike ==
  ASSUME Sound, Gated, Hook \notin stale, NEW s, Save(Hook, s), SameGen(s, file),
         UNCHANGED <<wait, rearm>>, hook.pc # "pidW",
         \/ hook'.pc \in {"claim", "owner", "take", "reg"} /\ SameGen(hook'.mem, s)
         \/ hook'.pc = "none"
  PROVE  Gated'
<1>1. Undisturbed(Hook) /\ file' = s
  BY SaveUndisturbed
<1>2. HookFresh'
  BY <1>1, FreshCopy
<1> QED
  BY <1>1, <1>2, HookMoves

LEMMA HookReadsAlike ==
  ASSUME Sound, Gated, UNCHANGED <<file, wait, rearm>>, stale' = stale \/ Load(Hook),
         hook.pc # "pidW",
         \/ hook'.pc \in {"claim", "owner", "take", "reg", "abortW"} /\ SameGen(hook'.mem, file)
         \/ hook'.pc \in {"none", "give"} \/ (hook'.pc = "reg" /\ hook'.ev = "stop")
  PROVE  Gated'
<1>1. Undisturbed(Hook)
  BY ReadsUndisturbed
<1>2. HookFresh'
  BY FreshCopy
<1> QED
  BY <1>1, <1>2, HookMoves

\* A write that is counted as no loss is of a copy of the file as it is.
LEMMA NotLost ==
  ASSUME Histories, ~hist'.lost, NEW r, hist' = [hist EXCEPT !.lost = @ \/ Clobbers(r)]
  PROVE  r \notin stale
BY DEF Histories, Clobbers

LEMMA TurnBeginsGated ==
  ASSUME Sound, Gated, TurnBegins
  PROVE  Gated'
<1>1. PICK first \in BOOLEAN : PreBegins(first)
  BY DEF TurnBegins
<1>2. UNCHANGED <<file, wait, rearm>> /\ hook.pc = "none"
  BY DEF TurnBegins, Rests
<1> DEFINE new == file.awaiting \/ file.pid # NoPid \/ file.epoch = 0 \/ first
           fresh == [file EXCEPT !.epoch = @ + 1, !.awaiting = FALSE, !.pid = NoPid, !.wepoch = 0]
<1>3. /\ hook' = [NoHook EXCEPT !.pc = IF new THEN "preW" ELSE "reg",
                                !.mem = IF new THEN fresh ELSE file]
      /\ Load(Hook)
  BY <1>1 DEF PreBegins
<1>4. file \in Files
  BY DEF Sound, Owing
<1>5. fresh.epoch > file.epoch /\ fresh.wepoch = 0 /\ fresh.pid = NoPid
  BY <1>4 DEF Files
<1> HIDE DEF new, fresh
<1>6. HookFresh'
  <2>1. CASE new
    <3>1. hook'.pc = "preW" /\ hook'.mem = fresh
      BY <1>3, <2>1 DEF NoHook
    <3> QED
      BY <1>2, <1>5, <3>1 DEF HookFresh
  <2>2. CASE ~new
    <3>1. hook'.pc = "reg" /\ hook'.mem = file
      BY <1>3, <2>2 DEF NoHook
    <3> QED
      BY <1>2, <3>1, FreshCopy DEF SameGen
  <2> QED
    BY <2>1, <2>2
<1>7. hook'.pc \in {"preW", "reg"}
  BY <1>3 DEF NoHook
<1> QED
  BY <1>2, <1>3, <1>6, <1>7, ReadsUndisturbed, HookMoves

LEMMA PreWritesGated ==
  ASSUME Sound, Gated, Histories, ~hist'.lost, PreWrites
  PROVE  Gated'
<1>1. /\ Save(Hook, hook.mem) /\ hook' = [hook EXCEPT !.pc = "reg", !.mem = hook.mem]
      /\ UNCHANGED <<wait, rearm>> /\ hook.pc = "preW" /\ Hook \notin stale
  BY NotLost DEF PreWrites, HookSaves, HookTo, Rests
<1>2. hook \in Hooks /\ hook.mem \in Files
  BY DEF Sound, HookSound, Owing
<1>3. hook'.pc = "reg" /\ hook'.mem = hook.mem /\ file' = hook.mem
  BY <1>1, <1>2 DEF Hooks, Save
<1>4. HookFresh'
  BY <1>3, FreshCopy DEF SameGen
<1>5. CASE SameGen(hook.mem, file)
  BY <1>1, <1>3, <1>4, <1>5, SaveUndisturbed, HookMoves
<1>6. CASE hook.mem.epoch > file.epoch /\ hook.mem.wepoch = 0 /\ hook.mem.pid = NoPid
  BY <1>1, <1>2, <1>3, <1>4, <1>6, HookAdvances
<1> QED
  BY <1>1, <1>5, <1>6 DEF Gated, HookFresh

LEMMA TurnEndsGated ==
  ASSUME Sound, Gated, TurnEnds
  PROVE  Gated'
<1>1. /\ hook' = [NoHook EXCEPT !.pc = "reg", !.ev = "stop"] /\ hook.pc = "none"
      /\ UNCHANGED <<file, stale, wait, rearm>>
  BY DEF TurnEnds, Keeps, Rests
<1>2. hook'.pc = "reg" /\ hook'.ev = "stop"
  BY <1>1 DEF NoHook
<1> QED
  BY <1>1, <1>2, HookReadsAlike

LEMMA RegistersGated ==
  ASSUME Sound, Gated, Registers
  PROVE  Gated'
<1> DEFINE parked == [file EXCEPT !.awaiting = TRUE]
           mem == IF hook.ev = "pre" THEN hook.mem ELSE parked
           to == IF mem.claimed THEN "owner" ELSE "claim"
<1>1. UNCHANGED <<wait, rearm, file>> /\ hook.pc = "reg" /\ hook \in Hooks /\ file \in Files
  BY DEF Registers, Rests, Sound, HookSound, Owing
<1>2. \/ /\ hook' = [hook EXCEPT !.pc = to, !.conn = Conn, !.mem = mem]
         /\ IF hook.ev = "pre" THEN UNCHANGED stale ELSE Load(Hook)
      \/ hook' = NoHook /\ Load(Hook)
  BY DEF Registers, HookEnds
<1>3. SameGen(parked, file)
  BY <1>1 DEF Files, SameGen
<1>4. CASE hook' = NoHook /\ Load(Hook)
  BY <1>1, <1>4, HookReadsAlike DEF NoHook
<1>5. CASE /\ hook' = [hook EXCEPT !.pc = to, !.conn = Conn, !.mem = mem]
           /\ IF hook.ev = "pre" THEN UNCHANGED stale ELSE Load(Hook)
  <2>1. hook'.pc \in {"owner", "claim"} /\ hook'.mem = mem
    BY <1>1, <1>5 DEF Hooks
  <2>2. CASE hook.ev = "pre" /\ Hook \in stale
    <3>1. HookFresh'
      BY <1>5, <2>2 DEF HookFresh
    <3>2. Undisturbed(Hook)
      BY <1>1, <1>5, <2>2, ReadsUndisturbed
    <3> QED
      BY <1>1, <2>1, <3>1, <3>2, HookMoves
  <2>3. CASE hook.ev # "pre" \/ Hook \notin stale
    <3>1. SameGen(mem, file)
      BY <1>1, <1>3, <2>3 DEF Gated, HookFresh
    <3> HIDE DEF mem
    <3> QED
      BY <1>1, <1>5, <2>1, <3>1, HookReadsAlike
  <2> QED
    BY <2>2, <2>3
<1> QED
  BY <1>2, <1>4, <1>5

LEMMA ClaimsGated ==
  ASSUME Sound, Gated, Histories, ~hist'.lost, Claims
  PROVE  Gated'
<1> DEFINE mem == [hook.mem EXCEPT !.claimed = TRUE]
           asks == hook.conn.owner = "none" /\ owner = "none" /\ Hook \notin severed
           conn == IF asks THEN [Conn EXCEPT !.owner = "self"] ELSE hook.conn
<1>1. /\ Save(Hook, mem) /\ UNCHANGED <<wait, rearm>> /\ hook.pc = "claim" /\ Hook \notin stale
      /\ hook' = [hook EXCEPT !.pc = "owner", !.mem = mem, !.conn = conn]
  BY NotLost DEF Claims, Rests, HookSaves
<1>2. hook \in Hooks /\ hook.mem \in Files
  BY DEF Sound, HookSound, Owing
<1>3. SameGen(mem, hook.mem) /\ SameGen(hook.mem, file)
  BY <1>1, <1>2 DEF SameGen, Files, Gated, HookFresh
<1> HIDE DEF mem, conn
<1>4. hook'.pc = "owner" /\ hook'.mem = mem
  BY <1>1, <1>2 DEF Hooks
<1> QED
  BY <1>1, <1>3, <1>4, HookWritesAlike DEF SameGen

LEMMA NotOwnerGated ==
  ASSUME Sound, Gated, Histories, ~hist'.lost, NotOwner
  PROVE  Gated'
<1> DEFINE none == [hook.mem EXCEPT !.delivered = {}, !.pending = {}, !.deferred = {}, !.kept = {}]
           mem == IF hook.ev = "stop" THEN hook.mem ELSE none
<1>1. /\ Save(Hook, mem) /\ UNCHANGED <<wait, rearm>> /\ hook.pc = "owner" /\ Hook \notin stale
      /\ hook' = NoHook
  BY NotLost DEF NotOwner, Rests, HookSaves, HookEnds
<1>2. hook.mem \in Files
  BY DEF Sound, HookSound, Owing
<1>3. SameGen(mem, file)
  BY <1>1, <1>2 DEF SameGen, Files, Gated, HookFresh
<1> HIDE DEF mem
<1>4. hook'.pc = "none"
  BY <1>1 DEF NoHook
<1> QED
  BY <1>1, <1>3, <1>4, HookWritesAlike

LEMMA FlushNothingGated ==
  ASSUME Sound, Gated, Histories, ~hist'.lost, FlushNothing
  PROVE  Gated'
<1> DEFINE less == [hook.mem EXCEPT !.deferred = {}]
<1>1. /\ UNCHANGED <<wait, rearm>> /\ hook.pc = "owner"
      /\ \/ hook' = [hook EXCEPT !.pc = "take", !.mem = hook.mem] /\ UNCHANGED <<file, stale>>
         \/ /\ hook' = [hook EXCEPT !.pc = "take", !.mem = less]
            /\ Save(Hook, less) /\ Hook \notin stale
  BY NotLost DEF FlushNothing, Rests, HookSaves, HookTo, Keeps
<1>2. hook \in Hooks /\ hook.mem \in Files
  BY DEF Sound, HookSound, Owing
<1>3. SameGen(less, hook.mem)
  BY <1>2 DEF SameGen, Files
<1> HIDE DEF less
<1>4. CASE hook' = [hook EXCEPT !.pc = "take", !.mem = hook.mem] /\ UNCHANGED <<file, stale>>
  <2>1. hook'.pc = "take" /\ hook'.mem = hook.mem
    BY <1>2, <1>4 DEF Hooks
  <2>2. HookFresh'
    BY <1>1, <1>4, <2>1 DEF Gated, HookFresh
  <2> QED
    BY <1>1, <1>4, <2>1, <2>2, ReadsUndisturbed, HookMoves
<1>5. CASE /\ hook' = [hook EXCEPT !.pc = "take", !.mem = less]
           /\ Save(Hook, less) /\ Hook \notin stale
  <2>1. hook'.pc = "take" /\ hook'.mem = less
    BY <1>2, <1>5 DEF Hooks
  <2>2. SameGen(less, file)
    BY <1>1, <1>3, <1>5 DEF Gated, HookFresh, SameGen
  <2> QED
    BY <1>1, <1>5, <2>1, <2>2, HookWritesAlike DEF SameGen
<1> QED
  BY <1>1, <1>4, <1>5

LEMMA FlushGated ==
  ASSUME Sound, Gated, Histories, ~hist'.lost, Flush
  PROVE  Gated'
<1>1. PICK mem \in Files : /\ SameGen(mem, hook.mem) /\ HookSaves(mem)
                           /\ hook'.pc = "take" /\ hook'.mem = mem
  BY FlushLeaves
<1>2. /\ Save(Hook, mem) /\ UNCHANGED <<wait, rearm>> /\ hook.pc = "owner" /\ Hook \notin stale
  <2>1. UNCHANGED <<wait, rearm>> /\ hook.pc = "owner"
    BY DEF Flush, Rests
  <2>2. Save(Hook, mem) /\ hist' = [hist EXCEPT !.lost = @ \/ Clobbers(Hook)]
    BY <1>1 DEF HookSaves
  <2> QED
    BY <2>1, <2>2, NotLost
<1>3. SameGen(mem, file)
  BY <1>1, <1>2 DEF Gated, HookFresh, SameGen
<1> QED
  BY <1>1, <1>2, <1>3, HookWritesAlike DEF SameGen

LEMMA RefetchGated ==
  ASSUME Sound, Gated, Refetch
  PROVE  Gated'
<1>1. /\ UNCHANGED <<file, stale, wait, rearm>> /\ hook.pc = "take" /\ hook \in Hooks
      /\ \/ hook' = [hook EXCEPT !.again = FALSE, !.conn = Conn]
         \/ hook' = [hook EXCEPT !.again = FALSE]
  BY DEF Refetch, Rests, Keeps, Sound, HookSound
<1>2. hook'.pc = "take" /\ hook'.mem = hook.mem
  BY <1>1 DEF Hooks
<1>3. HookFresh'
  BY <1>1, <1>2 DEF Gated, HookFresh
<1> QED
  BY <1>1, <1>2, <1>3, ReadsUndisturbed, HookMoves

LEMMA TakeGated ==
  ASSUME Sound, Gated, Histories, ~hist'.lost, Take
  PROVE  Gated'
<1>1. PICK mem \in Files, writes \in BOOLEAN, batch \in SUBSET Events :
        SameGen(mem, hook.mem) /\ Taken(mem, writes, batch)
  BY TakeTakes
<1>2. /\ UNCHANGED <<wait, rearm>> /\ hook.pc \in {"take", "owner"} /\ hook \in Hooks
      /\ file \in Files /\ rearm \in Rearms
  BY DEF Take, Rests, Sound, HookSound, Owing, RearmSound
<1> DEFINE e == mem.epoch + 1
           armed == [mem EXCEPT !.epoch = e, !.wepoch = e, !.pid = NoPid]
<1>3. Hook \notin stale => mem.epoch = file.epoch /\ SameGen(mem, file)
  BY <1>1, <1>2 DEF Gated, HookFresh, SameGen
<1>4. CASE hook.ev = "stop"
  <2>1. /\ Save(Hook, armed) /\ Hook \notin stale
        /\ hook' = [hook EXCEPT !.pc = "spawn", !.mem = armed, !.batch = batch]
    BY <1>1, <1>4, NotLost DEF Taken, HookSaves
  <2>2. e \in Nat /\ e > file.epoch
    BY <1>2, <1>3, <2>1 DEF Files
  <2> HIDE DEF e
  <2>3. armed \in Files /\ armed.epoch = e /\ armed.wepoch = e /\ armed.pid = NoPid
    BY <2>2 DEF Files
  <2> HIDE DEF armed
  <2>4. hook'.pc = "spawn" /\ hook'.mem = armed /\ file' = armed
    BY <1>2, <2>1 DEF Hooks, Save
  <2>5. rearm.pc = "match" => rearm.epoch # e
    BY <1>2, <2>2 DEF Gated, Generations, Files, Rearms
  <2>6. HookFresh'
    BY <1>2, <2>3, <2>4, <2>5 DEF HookFresh, SameGen
  <2> QED
    BY <1>2, <2>1, <2>2, <2>3, <2>4, <2>6, HookAdvances
<1>5. CASE hook.ev # "stop"
  <2>1. hook' = NoHook
    BY <1>1, <1>5 DEF Taken
  <2>2. CASE writes
    <3>1. Save(Hook, mem) /\ Hook \notin stale
      BY <1>1, <1>5, <2>2, NotLost DEF Taken, HookSaves
    <3> QED
      BY <1>2, <1>3, <2>1, <3>1, HookWritesAlike DEF NoHook
  <2>3. CASE ~writes
    <3>1. Load(Hook) /\ UNCHANGED file
      BY <1>1, <1>5, <2>3 DEF Taken
    <3> QED
      BY <1>2, <2>1, <3>1, HookReadsAlike DEF NoHook
  <2> QED
    BY <2>2, <2>3
<1> QED
  BY <1>4, <1>5

LEMMA AbortsGated ==
  ASSUME Sound, Gated, Aborts
  PROVE  Gated'
<1> DEFINE mem == [file EXCEPT !.awaiting = TRUE, !.presented = @ \ file.delivered,
                               !.delivered = {}]
<1>1. /\ UNCHANGED <<file, wait, rearm>> /\ hook.pc = "none" /\ Load(Hook) /\ file \in Files
      /\ hook' = [NoHook EXCEPT !.pc = "abortW", !.ev = "stop", !.mem = mem]
  BY DEF Aborts, Rests, Sound, Owing
<1>2. SameGen(mem, file)
  BY <1>1 DEF Files, SameGen
<1> HIDE DEF mem
<1>3. hook'.pc = "abortW" /\ hook'.mem = mem
  BY <1>1 DEF NoHook
<1> QED
  BY <1>1, <1>2, <1>3, HookReadsAlike

LEMMA AbortWritesGated ==
  ASSUME Sound, Gated, Histories, ~hist'.lost, AbortWrites
  PROVE  Gated'
<1>0. Hook \notin stale
  BY DEF AbortWrites, Histories, Clobbers
<1>1. /\ Save(Hook, hook.mem) /\ UNCHANGED <<wait, rearm>> /\ hook.pc = "abortW"
      /\ Hook \notin stale /\ hook' = NoHook
  BY <1>0 DEF AbortWrites, HookEnds, Rests
<1>2. SameGen(hook.mem, file)
  BY <1>1 DEF Gated, HookFresh
<1> QED
  BY <1>1, <1>2, HookWritesAlike DEF NoHook

\* p is started in the current generation, or an older one.
LEMMA StartsGated ==
  ASSUME Sound, Gated, UNCHANGED <<file, stale>>, NEW p \in Free, NEW epoch \in Nat,
         Started(p, epoch)
  PROVE  /\ p \in Pids /\ wait[p].pc = "off" /\ p # file.pid
         /\ wait'[p].pc = "top" /\ wait'[p].epoch = epoch
         /\ \A q \in Pids : q # p => wait'[q] = wait[q]
         /\ \A q \in Pids : WaiterFresh(q)'
         /\ \A q \in Pids : Sure(q)' => Sure(q) /\ q # p
         /\ OneIsSure'
         /\ \A q \in Pids : Waits(q)' => q = p \/ Waits(q)
<1>1. p \in Pids /\ wait[p].pc = "off" /\ p # file.pid
  BY DEF Free, Lowest
<1>2. /\ wait'[p].pc = "top" /\ wait'[p].epoch = epoch
      /\ \A q \in Pids : q # p => wait'[q] = wait[q]
  BY <1>1 DEF Started, NoWaiter, Sound
<1>3. \A q \in Pids : WaiterFresh(q)'
  BY <1>2 DEF Gated, WaiterFresh
<1>4. \A q \in Pids : Sure(q)' => Sure(q) /\ q # p
  BY <1>2 DEF Sure
<1>5. OneIsSure'
  BY <1>2, <1>4 DEF Gated, OneIsSure
<1>6. \A q \in Pids : Waits(q)' => q = p \/ Waits(q)
  BY <1>2 DEF Waits
<1> QED
  BY <1>1, <1>2, <1>3, <1>4, <1>5, <1>6

LEMMA SpawnsGated ==
  ASSUME Sound, Gated, Spawns
  PROVE  Gated'
<1>1. /\ UNCHANGED <<file, stale, rearm>> /\ hook.pc = "spawn" /\ hook \in Hooks
      /\ hook.mem \in Files /\ file \in Files /\ rearm \in Rearms
  BY DEF Spawns, Keeps, Sound, HookSound, Owing, RearmSound
<1>2. CASE HookTo("give", hook.mem) /\ UNCHANGED wait
  <2>1. hook'.pc = "give"
    BY <1>1, <1>2 DEF HookTo, Hooks
  <2> QED
    BY <1>1, <1>2, <2>1, HookReadsAlike
<1>3. CASE \E p \in Free : Started(p, hook.mem.epoch) /\ HookTo("pidW", [hook.mem EXCEPT !.pid = p])
  <2>1. PICK p \in Free : Started(p, hook.mem.epoch) /\ HookTo("pidW", [hook.mem EXCEPT !.pid = p])
    BY <1>3
  <2>2. hook.mem.epoch \in Nat
    BY <1>1 DEF Files
  <2>3. /\ p \in Pids /\ wait[p].pc = "off" /\ p # file.pid
        /\ wait'[p].pc = "top" /\ wait'[p].epoch = hook.mem.epoch
        /\ \A q \in Pids : q # p => wait'[q] = wait[q]
        /\ \A q \in Pids : WaiterFresh(q)'
        /\ \A q \in Pids : Sure(q)' => Sure(q) /\ q # p
        /\ OneIsSure'
        /\ \A q \in Pids : Waits(q)' => q = p \/ Waits(q)
    BY <1>1, <2>1, <2>2, StartsGated
  <2>4. /\ hook'.pc = "pidW" /\ hook'.mem.epoch = hook.mem.epoch
        /\ hook'.mem.wepoch = hook.mem.wepoch /\ hook'.mem.pid = p
    BY <1>1, <2>1 DEF HookTo, Hooks, Files
  <2>5. Generations'
    BY <1>1, <2>3, <2>4 DEF Gated, Generations
  <2>6. HookFresh'
    BY <1>1, <2>4 DEF Gated, HookFresh, SameGen
  <2>7. DaemonFresh'
    BY <1>1, <2>3 DEF Gated, DaemonFresh, Sound, Owing, Files
  <2>8. FoundDead'
    BY <1>1, <2>3 DEF Gated, FoundDead, Rearms
  <2>9. Recorded'
    BY <1>1, <2>3, <2>4 DEF Gated, Recorded, Current, Rearming
  <2>10. Parked'
    BY <1>1, <2>3, <2>4 DEF Gated, Parked
  <2>11. SureIsRecorded'
    BY <1>1, <2>3 DEF Gated, SureIsRecorded, Current, Rearming
  <2> QED
    BY <2>3, <2>5, <2>6, <2>7, <2>8, <2>9, <2>10, <2>11 DEF Gated
<1> QED
  BY <1>2, <1>3 DEF Spawns

LEMMA StopReturnsGated ==
  ASSUME Sound, Gated, Histories, ~hist'.lost, StopReturns
  PROVE  Gated'
<1>1. UNCHANGED <<wait, rearm>> /\ hook' = NoHook
  BY DEF StopReturns, Rests
<1>2. hook'.pc = "none"
  BY <1>1 DEF NoHook
<1>3. CASE hook.pc = "give"
  <2>1. Load(Hook) /\ UNCHANGED file
    BY <1>3 DEF StopReturns
  <2> QED
    BY <1>1, <1>2, <1>3, <2>1, HookReadsAlike
<1>4. CASE hook.pc = "pidW"
  <2>1. Save(Hook, hook.mem) /\ Hook \notin stale
    BY <1>4, NotLost DEF StopReturns, HookSaves
  <2>2. /\ hook.mem.epoch = file.epoch /\ hook.mem.wepoch = file.wepoch /\ file.pid = NoPid
        /\ rearm.pc = "match" /\ rearm.epoch = file.epoch => rearm.was = NoPid
    BY <1>4, <2>1 DEF Gated, HookFresh
  <2>3. /\ file' = hook.mem /\ file'.epoch = file.epoch /\ file'.wepoch = file.wepoch
        /\ \A q \in Actors : (q # Hook /\ Holds(q) /\ q \notin stale') => q \notin stale /\ file' = file
    BY <2>1, <2>2 DEF Save
  <2>4. Generations' /\ HookFresh' /\ Parked'
    BY <1>1, <1>2, <2>3 DEF Gated, Generations, HookFresh, Parked
  <2>5. ASSUME NEW p \in Pids PROVE WaiterFresh(p)'
    <3>1. p \in Actors /\ p # Hook /\ p # Daemon
      BY ActorsApart
    <3>2. Holds(p) <=> wait[p].pc \in {"commitW", "rearmW", "staleW", "doneW", "byeW"}
      BY <3>1 DEF Holds
    <3> QED
      BY <1>1, <2>3, <3>1, <3>2 DEF Gated, WaiterFresh
  <2>6. DaemonFresh'
    <3>1. Holds(Daemon) <=> rearm.pc \in {"clear", "record"}
      BY ActorsApart DEF Holds
    <3> QED
      BY <1>1, <2>3, <3>1, ActorsApart DEF Gated, DaemonFresh
  <2>7. FoundDead'
    BY <1>1, <2>2, <2>3 DEF FoundDead
  <2>8. Recorded'
    BY <1>1, <2>2, <2>3, ActorsApart DEF Gated, Recorded, Waits, Current, Rearming
  <2>9. \A p \in Pids : ~(Sure(p) /\ Current(p))
    BY <1>4, <2>2 DEF Gated, Parked, Sure, Waits, Current
  <2>10. SureIsRecorded' /\ OneIsSure'
    BY <1>1, <2>3, <2>9 DEF Gated, SureIsRecorded, OneIsSure, Sure, Current
  <2> QED
    BY <2>4, <2>5, <2>6, <2>7, <2>8, <2>10 DEF Gated
<1> QED
  BY <1>3, <1>4 DEF StopReturns

\* The last look at the generation: a waiter that is not superseded is the recorded
\* one, or the one a restarting daemon is about to record.
LEMMA LastLook ==
  ASSUME Sound, Gated, NEW p \in Pids, Waits(p), wait[p].pc # "top", ~Superseded(file, p)
  PROVE  Current(p) /\ (file.pid = p \/ (file.pid = NoPid /\ Rearming(p)))
<1>1. wait[p].epoch \in Nat /\ file.epoch \in Nat /\ wait[p].epoch <= file.epoch
  BY WaiterIs DEF Waiters, Files, Gated, Generations, Waits
<1>2. Current(p)
  BY <1>1 DEF Superseded, OtherTurn, Current
<1>3. ~(hook.pc = "pidW" /\ hook.mem.pid = p /\ hook.mem.epoch = wait[p].epoch)
  BY DEF Gated, Parked
<1> QED
  BY <1>2, <1>3 DEF Gated, Recorded, Superseded

\* A waiter reads, and goes on as w.
LEMMA WaiterReads ==
  ASSUME Sound, Gated, NEW p \in Pids, NEW w, UNCHANGED <<file, hook, rearm>>,
         stale' = stale \/ Load(p), Becomes(p, w), Waits(p), w.epoch = wait[p].epoch,
         w.pc \in {"top", "exit", "done"} \/ wait[p].pc # "top" \/ hook.pc = "none",
         w.pc \in {"commitW", "rearmW", "staleW"} => SameGen(w.mem, file),
         w.pc \notin {"off", "doneW", "byeW"},
         w.pc = "prompt" \/ (w.pc = "commitW" /\ w.verify)
           => wait[p].pc # "top" /\ ~Superseded(file, p)
  PROVE  Gated'
<1>1. Undisturbed(p)
  BY ReadsUndisturbed
<1>2. wait'[p] = w
  BY DEF Becomes, Sound
<1>3. WaiterFresh(p)'
  BY <1>2 DEF WaiterFresh
<1>4. wait[p].pc # "off"
  BY DEF Waits
<1>5. w.pc = "prompt" \/ (w.pc = "commitW" /\ w.verify)
        => Current(p) /\ (file.pid = p \/ (file.pid = NoPid /\ Rearming(p)))
  BY LastLook
<1> QED
  BY <1>1, <1>3, <1>4, <1>5, WaiterMoves

\* It writes the copy it has, and goes on as w.
LEMMA WaiterWrites ==
  ASSUME Sound, Gated, NEW p \in Pids, NEW w, UNCHANGED <<hook, rearm>>,
         Save(p, wait[p].mem), p \notin stale, wait[p].pc \in {"commitW", "rearmW", "staleW"},
         Becomes(p, w), w.epoch = wait[p].epoch,
         w.pc \in {"top", "look", "stale", "trigger", "prompt"},
         w.pc = "prompt" => Sure(p)
  PROVE  Gated'
<1>1. SameGen(wait[p].mem, file)
  BY DEF Gated, WaiterFresh
<1>2. Undisturbed(p)
  BY <1>1, SaveUndisturbed
<1>3. wait'[p] = w
  BY DEF Becomes, Sound
<1>4. WaiterFresh(p)'
  BY <1>3 DEF WaiterFresh
<1> QED
  BY <1>2, <1>4, WaiterMoves DEF Waits

\* What is left of a waiter when it waits again or leaves.
LEMMA IdleIs ==
  ASSUME NEW w, w \in Waiters
  PROVE  /\ Idle(w) \in Waiters /\ Idle(w).pc = "top" /\ Idle(w).epoch = w.epoch
         /\ Leaving(w).pc = "exit" /\ Leaving(w).epoch = w.epoch
<1>1. NoFile \in Files /\ NoConn \in Conns /\ NoLook \in Looks
  BY AgyAssumption DEF NoFile, Files, NoConn, Conns, NoLook, Looks, Pids, NoPid
<1> QED
  BY <1>1 DEF Idle, Leaving, NoWaiter, Waiters, WaiterPlaces

LEMMA TopGated ==
  ASSUME Sound, Gated, HookInTurn, NEW p \in Pids, Top(p)
  PROVE  Gated'
<1> DEFINE w == wait[p]
           owed == file.delivered # {}
           look == [w EXCEPT !.pc = "look", !.mem = file, !.first = FALSE, !.owed = owed,
                             !.targets = file.delivered]
           idle == [Idle(w) EXCEPT !.errors = 0]
<1>1. /\ \/ Becomes(p, Leaving(w)) \/ (Becomes(p, look) /\ SelfReady) \/ Becomes(p, idle)
      /\ UNCHANGED <<file, hook, rearm, stale>> /\ w.pc = "top"
  BY DEF Top, Keeps, At
<1>2. w \in Waiters
  BY WaiterIs
<1>3. Waits(p)
  BY <1>1 DEF Waits
<1>4. SelfReady => hook.pc = "none"
  BY DEF SelfReady, HookInTurn
<1>5. /\ look.pc = "look" /\ look.epoch = w.epoch
      /\ idle.pc = "top" /\ idle.epoch = w.epoch
      /\ Leaving(w).pc = "exit" /\ Leaving(w).epoch = w.epoch
  BY <1>2, IdleIs DEF Waiters
<1> HIDE DEF look, idle
<1> QED
  BY <1>1, <1>3, <1>4, <1>5, WaiterReads

LEMMA LeavesGated ==
  ASSUME Sound, Gated, NEW p \in Pids, Quits(p) \/ LooksInVain(p) \/ CallFails(p)
  PROVE  Gated'
<1> DEFINE w == wait[p]
           idle == [Idle(w) EXCEPT !.errors = @ + 1]
<1>1. /\ Becomes(p, Leaving(w)) \/ Becomes(p, idle)
      /\ UNCHANGED <<file, hook, rearm, stale>> /\ w.pc \in {"top", "look"}
  BY DEF Quits, LooksInVain, CallFails, Keeps, At, WaitsOn
<1>2. w \in Waiters
  BY WaiterIs
<1>3. Waits(p)
  BY <1>1 DEF Waits
<1>4. /\ idle.pc = "top" /\ idle.epoch = w.epoch
      /\ Leaving(w).pc = "exit" /\ Leaving(w).epoch = w.epoch
  BY <1>2, IdleIs DEF Waiters
<1> HIDE DEF idle
<1> QED
  BY <1>1, <1>3, <1>4, WaiterReads

LEMMA PeekGated ==
  ASSUME Sound, Gated, NEW p \in Pids, Peek(p)
  PROVE  Gated'
<1>1. PICK v : v.pc = "commit" /\ v.epoch = wait[p].epoch /\ Becomes(p, v)
  BY PeekLeaves
<1>2. UNCHANGED <<file, hook, rearm, stale>> /\ wait[p].pc = "look"
  BY DEF Peek, Keeps, At
<1> QED
  BY <1>1, <1>2, WaiterReads DEF Waits

LEMMA DecidedIs ==
  ASSUME NEW w, w \in Waiters, NEW p
  PROVE  /\ Decided(w, p).pc \in {"top", "trigger", "prompt", "stale"}
         /\ Decided(w, p).epoch = w.epoch
         /\ Decided(w, p).pc = "prompt" => w.verify
<1> DEFINE retry == w.look.deferred # {}
           v == [w EXCEPT !.check = FALSE, !.push = FALSE, !.errors = 0, !.retry = retry]
           next == IF w.look.outs THEN "prompt" ELSE "stale"
           a == [w EXCEPT !.pc = next]
           b == [Idle(v) EXCEPT !.grace = TRUE]
           c == [v EXCEPT !.pc = "trigger", !.grace = FALSE]
<1>1. \/ w.verify /\ Decided(w, p) = a
      \/ Decided(w, p) = b \/ Decided(w, p) = c \/ Decided(w, p) = Idle(v)
  BY DEF Decided
<1>2. retry \in BOOLEAN /\ next \in {"prompt", "stale"}
  OBVIOUS
<1> HIDE DEF retry, next
<1>3. a.pc = next /\ a.epoch = w.epoch
  BY DEF Waiters
<1>4. v \in Waiters /\ v.epoch = w.epoch
  BY <1>2 DEF Waiters
<1> HIDE DEF v
<1>5. Idle(v) \in Waiters /\ Idle(v).pc = "top" /\ Idle(v).epoch = v.epoch
  BY <1>4, IdleIs
<1>6. b.pc = "top" /\ b.epoch = v.epoch
  BY <1>5 DEF Waiters
<1>7. c.pc = "trigger" /\ c.epoch = v.epoch
  BY <1>4 DEF Waiters
<1> HIDE DEF a, b, c
<1> QED
  BY <1>1, <1>2, <1>3, <1>4, <1>5, <1>6, <1>7

LEMMA CommitGated ==
  ASSUME Sound, Gated, NEW p \in Pids, Commit(p)
  PROVE  Gated'
<1> DEFINE w == wait[p]
           l == w.look
           fresh == IF l.any THEN Merged(file, l, w.conn) ELSE Swept(file, l)
           targets == IF ~l.any /\ fresh # file THEN fresh.delivered ELSE w.targets
           aimed == IF w.verify THEN w.targets ELSE targets
           v == [w EXCEPT !.pc = "commitW", !.mem = fresh, !.targets = aimed]
<1>1. /\ \/ Becomes(p, Leaving(w))
         \/ (Becomes(p, Decided(w, p)) \/ Becomes(p, v)) /\ ~Superseded(file, p)
      /\ UNCHANGED <<file, hook, rearm>> /\ Load(p) /\ w.pc = "commit"
  BY DEF Commit, At, WaitsOn
<1>2. w \in Waiters /\ file \in Files
  BY WaiterIs
<1>3. SameGen(fresh, file)
  BY <1>2 DEF SameGen, Merged, Swept, Files
<1> HIDE DEF fresh, aimed
<1>4. v.pc = "commitW" /\ v.epoch = w.epoch /\ v.mem = fresh /\ v.verify = w.verify
  BY <1>2 DEF Waiters
<1>5. Leaving(w).pc = "exit" /\ Leaving(w).epoch = w.epoch
  BY <1>2, IdleIs
<1>6. /\ Decided(w, p).pc \in {"top", "trigger", "prompt", "stale"}
      /\ Decided(w, p).epoch = w.epoch
  BY <1>2, DecidedIs
<1>7. Waits(p)
  BY <1>1 DEF Waits
<1> HIDE DEF v
<1>8. CASE Becomes(p, Leaving(w))
  BY <1>1, <1>5, <1>7, <1>8, WaiterReads
<1>9. CASE Becomes(p, Decided(w, p)) /\ ~Superseded(file, p)
  <2> DEFINE d == Decided(w, p)
  <2>1. Becomes(p, d) /\ d.pc \in {"top", "trigger", "prompt", "stale"} /\ d.epoch = w.epoch
    BY <1>6, <1>9
  <2> HIDE DEF d
  <2> QED
    BY <1>1, <1>7, <1>9, <2>1, WaiterReads
<1>10. CASE Becomes(p, v) /\ ~Superseded(file, p)
  BY <1>1, <1>3, <1>4, <1>7, <1>10, WaiterReads
<1> QED
  BY <1>1, <1>8, <1>9, <1>10

LEMMA WaiterWritesGated ==
  ASSUME Sound, Gated, Histories, ~hist'.lost, NEW p \in Pids,
         CommitWrites(p) \/ RearmWrites(p) \/ ClearWrites(p)
  PROVE  Gated'
<1> DEFINE w == wait[p]
           look == [w EXCEPT !.pc = "look", !.verify = TRUE]
<1>1. /\ \/ Becomes(p, Decided(w, p)) /\ w.pc = "commitW"
         \/ Becomes(p, look) \/ Becomes(p, Idle(w))
      /\ w.pc \in {"commitW", "rearmW", "staleW"}
      /\ Save(p, w.mem) /\ UNCHANGED <<hook, rearm>> /\ p \notin stale
  BY NotLost DEF CommitWrites, RearmWrites, ClearWrites, WClobber, WaitsOn, At
<1>2. w \in Waiters
  BY WaiterIs
<1>3. look.pc = "look" /\ look.epoch = w.epoch
  BY <1>2 DEF Waiters
<1>4. Idle(w).pc = "top" /\ Idle(w).epoch = w.epoch
  BY <1>2, IdleIs
<1> HIDE DEF look
<1>5. CASE Becomes(p, Decided(w, p)) /\ w.pc = "commitW"
  <2> DEFINE d == Decided(w, p)
  <2>1. /\ Becomes(p, d) /\ d.pc \in {"top", "trigger", "prompt", "stale"} /\ d.epoch = w.epoch
        /\ d.pc = "prompt" => Sure(p)
    BY <1>2, <1>5, DecidedIs DEF Sure
  <2> HIDE DEF d
  <2> QED
    BY <1>1, <2>1, WaiterWrites
<1>6. CASE Becomes(p, look) \/ Becomes(p, Idle(w))
  BY <1>1, <1>3, <1>4, <1>6, WaiterWrites
<1> QED
  BY <1>1, <1>5, <1>6

LEMMA TriggerGated ==
  ASSUME Sound, Gated, NEW p \in Pids, Trigger(p)
  PROVE  Gated'
<1> DEFINE w == wait[p]
           again == [Idle(w) EXCEPT !.retry = TRUE]
           next == IF w.owed THEN "rearm" ELSE "prompt"
           on == [w EXCEPT !.pc = next]
<1>1. /\ \/ Becomes(p, Leaving(w)) \/ Becomes(p, again)
         \/ Becomes(p, on) /\ ~Superseded(file, p)
      /\ UNCHANGED <<file, hook, rearm, stale>> /\ w.pc = "trigger"
  BY DEF Trigger, Keeps, At, WaitsOn
<1>2. w \in Waiters /\ next \in {"rearm", "prompt"}
  BY WaiterIs
<1> HIDE DEF next
<1>3. /\ again.pc = "top" /\ again.epoch = w.epoch
      /\ on.pc = next /\ on.epoch = w.epoch
      /\ Leaving(w).pc = "exit" /\ Leaving(w).epoch = w.epoch
  BY <1>2, IdleIs DEF Waiters
<1>4. Waits(p)
  BY <1>1 DEF Waits
<1> HIDE DEF again, on
<1> QED
  BY <1>1, <1>2, <1>3, <1>4, WaiterReads

LEMMA RearmGated ==
  ASSUME Sound, Gated, NEW p \in Pids, Rearm(p)
  PROVE  Gated'
<1> DEFINE w == wait[p]
           mem == [file EXCEPT !.presented = @ \ file.delivered]
           a == [w EXCEPT !.pc = "look", !.verify = TRUE, !.mem = file]
           b == [w EXCEPT !.pc = "rearmW", !.mem = mem]
<1>1. /\ Becomes(p, a) \/ Becomes(p, b)
      /\ UNCHANGED <<file, hook, rearm>> /\ Load(p) /\ w.pc = "rearm"
  BY DEF Rearm, At, WaitsOn
<1>2. w \in Waiters /\ file \in Files
  BY WaiterIs
<1>3. SameGen(mem, file)
  BY <1>2 DEF SameGen, Files
<1> HIDE DEF mem
<1>4. /\ a.pc = "look" /\ a.epoch = w.epoch
      /\ b.pc = "rearmW" /\ b.epoch = w.epoch /\ b.mem = mem
  BY <1>2 DEF Waiters
<1>5. Waits(p)
  BY <1>1 DEF Waits
<1> HIDE DEF a, b
<1> QED
  BY <1>1, <1>3, <1>4, <1>5, WaiterReads

LEMMA ClearsGated ==
  ASSUME Sound, Gated, NEW p \in Pids, Clears(p)
  PROVE  Gated'
<1> DEFINE w == wait[p]
           mem == [file EXCEPT !.delivered = @ \ w.targets]
           b == [w EXCEPT !.pc = "staleW", !.mem = mem]
<1>1. /\ Becomes(p, Idle(w)) \/ Becomes(p, b)
      /\ UNCHANGED <<file, hook, rearm>> /\ Load(p) /\ w.pc = "stale"
  BY DEF Clears, At, WaitsOn
<1>2. w \in Waiters /\ file \in Files
  BY WaiterIs
<1>3. SameGen(mem, file)
  BY <1>2 DEF SameGen, Files
<1> HIDE DEF mem
<1>4. /\ Idle(w).pc = "top" /\ Idle(w).epoch = w.epoch
      /\ b.pc = "staleW" /\ b.epoch = w.epoch /\ b.mem = mem
  BY <1>2, IdleIs DEF Waiters
<1>5. Waits(p)
  BY <1>1 DEF Waits
<1> HIDE DEF b
<1> QED
  BY <1>1, <1>3, <1>4, <1>5, WaiterReads

LEMMA PromptsGated ==
  ASSUME Sound, Gated, NEW p \in Pids, Prompts(p)
  PROVE  Gated'
<1> DEFINE w == wait[p]
           again == [Idle(w) EXCEPT !.tries = @ + 1, !.retry = TRUE]
           done == [w EXCEPT !.pc = "done", !.mem = NoFile, !.look = NoLook, !.conn = NoConn]
<1>1. /\ Becomes(p, Leaving(w)) \/ Becomes(p, again) \/ Becomes(p, done)
      /\ UNCHANGED <<file, hook, rearm, stale>> /\ w.pc = "prompt"
  BY DEF Prompts, Keeps, At
<1>2. w \in Waiters
  BY WaiterIs
<1>3. /\ again.pc = "top" /\ again.epoch = w.epoch
      /\ done.pc = "done" /\ done.epoch = w.epoch
      /\ Leaving(w).pc = "exit" /\ Leaving(w).epoch = w.epoch
  BY <1>2, IdleIs DEF Waiters
<1>4. Waits(p)
  BY <1>1 DEF Waits
<1> HIDE DEF again, done
<1> QED
  BY <1>1, <1>3, <1>4, WaiterReads

\* On its way out it clears its own pid only.
LEMMA ClearsPidGated ==
  ASSUME Sound, Gated, NEW p \in Pids, ClearsPid(p)
  PROVE  Gated'
<1> DEFINE w == wait[p]
           mem == [file EXCEPT !.pid = NoPid]
           next == IF At(p, "done") THEN "doneW" ELSE "byeW"
           b == [w EXCEPT !.mem = mem, !.pc = next]
<1>1. /\ (Becomes(p, b) /\ file.pid = p) \/ Becomes(p, Leaving(w)) \/ Becomes(p, NoWaiter)
      /\ UNCHANGED <<file, hook, rearm>> /\ Load(p) /\ w.pc \in {"done", "exit"}
  BY DEF ClearsPid, At, WaitsOn
<1>2. w \in Waiters /\ file \in Files /\ next \in {"doneW", "byeW"}
  BY WaiterIs
<1>3. mem.epoch = file.epoch /\ mem.wepoch = file.wepoch /\ mem.pid = NoPid
  BY <1>2 DEF Files
<1> HIDE DEF mem, next
<1>4. b.pc = next /\ b.epoch = w.epoch /\ b.mem = mem
  BY <1>2 DEF Waiters
<1>5. Leaving(w).pc = "exit" /\ Leaving(w).epoch = w.epoch /\ NoWaiter.pc = "off"
  BY <1>2, IdleIs DEF NoWaiter
<1> HIDE DEF b
<1>6. \A v : Becomes(p, v) => wait'[p] = v
  BY DEF Becomes, Sound
<1>7. WaiterFresh(p)'
  BY <1>1, <1>2, <1>3, <1>4, <1>5, <1>6 DEF WaiterFresh
<1>8. Undisturbed(p)
  BY <1>1, ReadsUndisturbed
<1>9. \A v \in {b, Leaving(w), NoWaiter} :
        v.pc \in {"doneW", "byeW", "exit", "off"} /\ (v.pc # "off" => v.epoch = w.epoch)
  BY <1>2, <1>4, <1>5
<1> QED
  BY <1>1, <1>7, <1>8, <1>9, WaiterMoves

\* What it then writes is the file without that pid.
LEMMA PidClearedGated ==
  ASSUME Sound, Gated, Histories, ~hist'.lost, NEW p \in Pids, PidCleared(p)
  PROVE  Gated'
<1> DEFINE w == wait[p]
<1>1. /\ Becomes(p, Leaving(w)) \/ Becomes(p, NoWaiter)
      /\ w.pc \in {"doneW", "byeW"} /\ Save(p, w.mem) /\ UNCHANGED <<hook, rearm>>
      /\ p \notin stale
  BY NotLost DEF PidCleared, WClobber, WaitsOn, At
<1>2. w.mem.epoch = file.epoch /\ w.mem.wepoch = file.wepoch /\ w.mem.pid = NoPid /\ file.pid = p
  BY <1>1 DEF Gated, WaiterFresh
<1>3. w \in Waiters /\ p # NoPid
  BY WaiterIs, ActorsApart
<1>4. /\ file' = w.mem /\ \A q \in Actors : (q # p /\ Holds(q)) => q \in stale'
  BY <1>1, <1>2, <1>3, SaveDisturbs
<1>5. /\ wait'[p].pc \in {"exit", "off"} /\ (wait'[p].pc = "exit" => wait'[p].epoch = w.epoch)
      /\ \A q \in Pids : q # p => wait'[q] = wait[q]
  BY <1>1, <1>3, IdleIs DEF Becomes, NoWaiter, Sound
<1>6. Generations'
  BY <1>1, <1>2, <1>4, <1>5 DEF Gated, Generations
<1>7. HookFresh'
  <2>1. hook.pc # "none" => Hook \in stale'
    BY <1>4, ActorsApart DEF Holds
  <2> QED
    BY <1>1, <2>1 DEF HookFresh
<1>8. ASSUME NEW q \in Pids PROVE WaiterFresh(q)'
  <2>1. q \in Actors /\ q # Hook /\ q # Daemon
    BY ActorsApart
  <2>2. Holds(q) <=> wait[q].pc \in {"commitW", "rearmW", "staleW", "doneW", "byeW"}
    BY <2>1 DEF Holds
  <2> QED
    BY <1>4, <1>5, <2>1, <2>2 DEF WaiterFresh
<1>9. DaemonFresh'
  <2>1. Holds(Daemon) <=> rearm.pc \in {"clear", "record"}
    BY ActorsApart DEF Holds
  <2> QED
    BY <1>1, <1>4, <2>1, ActorsApart DEF DaemonFresh
<1>10. FoundDead'
  BY <1>2, <1>4 DEF FoundDead
<1>11. \A q \in Pids : Waits(q)' => q # p /\ Waits(q)
  BY <1>5 DEF Waits
<1>12. Recorded'
  BY <1>1, <1>2, <1>4, <1>5, <1>11 DEF Gated, Recorded, Current, Rearming
<1>13. Parked'
  BY <1>1, <1>5, <1>11 DEF Gated, Parked
<1>14. \A q \in Pids : Sure(q)' => q # p /\ Sure(q)
  BY <1>5 DEF Sure
<1>15. SureIsRecorded' /\ OneIsSure'
  BY <1>1, <1>2, <1>3, <1>4, <1>5, <1>14 DEF Gated, SureIsRecorded, OneIsSure, Current, Rearming
<1> QED
  BY <1>6, <1>7, <1>8, <1>9, <1>10, <1>12, <1>13, <1>15 DEF Gated

----------------------------------------------------------------------------
(* RearmAgyWaiters, and the rest *)

\* The daemon reads, or goes on without the file.
LEMMA DaemonReads ==
  ASSUME Sound, Gated, UNCHANGED <<file, hook, wait>>, stale' = stale \/ Load(Daemon),
         rearm.pc \in {"scan", "match", "check"}, rearm'.pc \in {"none", "match", "clear", "record"},
         rearm'.pc # "none" => rearm'.epoch <= file.epoch,
         rearm'.pc = "match" => \/ rearm'.was = NoPid
                                \/ rearm'.was = file.pid /\ wait[file.pid].pc = "off",
         rearm.pc = "check" => rearm'.pc = "record" /\ rearm'.pid = rearm.pid,
         DaemonFresh'
  PROVE  Gated'
<1>1. \A q \in Pids \cup {Hook} : q \in stale <=> q \in stale'
  BY ActorsApart DEF Load
<1>2. Generations'
  BY DEF Gated, Generations
<1>3. HookFresh'
  BY <1>1 DEF Gated, HookFresh
<1>4. ASSUME NEW p \in Pids PROVE WaiterFresh(p)'
  BY <1>1 DEF Gated, WaiterFresh
<1>5. FoundDead'
  BY DEF FoundDead
<1>6. \A p \in Pids : Rearming(p) => Rearming(p)'
  BY DEF Rearming
<1>7. Recorded'
  BY <1>6 DEF Gated, Recorded, Waits, Current
<1>8. Parked' /\ SureIsRecorded' /\ OneIsSure'
  BY <1>6 DEF Gated, Parked, SureIsRecorded, OneIsSure, Sure, Current, Waits
<1> QED
  BY <1>2, <1>3, <1>4, <1>5, <1>7, <1>8 DEF Gated

\* It writes a pid, of a waiter it has started or of none.
LEMMA DaemonWrites ==
  ASSUME Sound, Gated, UNCHANGED <<hook, wait>>, Save(Daemon, rearm.mem), Daemon \notin stale,
         \/ rearm.pc = "clear" /\ rearm'.pc = "spawn" /\ rearm'.epoch = rearm.epoch
         \/ rearm.pc = "record" /\ rearm'.pc = "none"
  PROVE  Gated'
<1>1. rearm.mem.epoch = file.epoch /\ rearm.mem.wepoch = file.wepoch
  BY DEF Gated, DaemonFresh
<1>2. /\ file' = rearm.mem /\ file'.epoch = file.epoch /\ file'.wepoch = file.wepoch
      /\ \A q \in Actors : (q # Daemon /\ Holds(q) /\ q \notin stale') => q \notin stale /\ file' = file
  BY <1>1 DEF Save
<1>3. Generations'
  BY <1>2 DEF Gated, Generations
<1>4. HookFresh'
  <2>1. hook.pc # "none" /\ Hook \notin stale' => Hook \notin stale /\ file' = file
    BY <1>2, ActorsApart DEF Holds
  <2> QED
    BY <2>1 DEF Gated, HookFresh, SameGen
<1>5. ASSUME NEW p \in Pids PROVE WaiterFresh(p)'
  <2>1. p \in Actors /\ p # Hook /\ p # Daemon
    BY ActorsApart
  <2>2. Holds(p) <=> wait[p].pc \in {"commitW", "rearmW", "staleW", "doneW", "byeW"}
    BY <2>1 DEF Holds
  <2> QED
    BY <1>2, <2>1, <2>2 DEF Gated, WaiterFresh
<1>6. DaemonFresh' /\ FoundDead'
  BY DEF DaemonFresh, FoundDead
\* the pid that is dropped is that of no waiter, the one recorded is the one started
<1>7. ASSUME NEW p \in Pids, Waits(p), file.pid = p \/ Rearming(p)
      PROVE  file'.pid = p
  <2>1. p # NoPid /\ wait[p].pc # "off"
    BY <1>7, ActorsApart DEF Waits
  <2> QED
    BY <1>2, <1>7, <2>1 DEF Gated, DaemonFresh, Rearming
<1>8. Recorded'
  BY <1>2, <1>7 DEF Gated, Recorded, Waits, Current
<1>9. Parked' /\ OneIsSure'
  BY DEF Gated, Parked, OneIsSure, Sure, Waits
<1>10. SureIsRecorded'
  <2>1. \A p \in Pids : Sure(p) => Waits(p)
    BY DEF Sure, Waits
  <2> QED
    BY <1>2, <1>7, <2>1 DEF Gated, SureIsRecorded, Sure, Current
<1> QED
  BY <1>3, <1>4, <1>5, <1>6, <1>8, <1>9, <1>10 DEF Gated

LEMMA ScansGated ==
  ASSUME Sound, Gated, Scans
  PROVE  Gated'
<1> DEFINE to == [NoRearm EXCEPT !.pc = "match", !.epoch = EffectiveEpoch(file), !.was = file.pid]
<1>1. /\ rearm' = NoRearm \/ (rearm' = to /\ ~Alive(file.pid))
      /\ UNCHANGED <<file, hook, wait, stale>> /\ rearm.pc = "scan"
  BY DEF Scans, RearmTo, Keeps, Daemonic
<1>2. file \in Files
  BY WaiterIs DEF Sound, Owing
<1>3. to.pc = "match" /\ to.epoch = file.epoch /\ to.was = file.pid /\ NoRearm.pc = "none"
  BY <1>2 DEF NoRearm, EffectiveEpoch, Gated, Generations, Files
<1>4. file.epoch <= file.epoch
  BY <1>2 DEF Files
<1> HIDE DEF to
<1>5. DaemonFresh'
  BY <1>1, <1>3 DEF DaemonFresh
<1> QED
  BY <1>1, <1>3, <1>4, <1>5, DaemonReads DEF Alive

LEMMA MatchesGated ==
  ASSUME Sound, Gated, Matches
  PROVE  Gated'
<1> DEFINE mem == [file EXCEPT !.pid = NoPid]
           to == [rearm EXCEPT !.pc = "clear", !.mem = mem]
<1>1. /\ rearm' = NoRearm \/ (rearm' = to /\ SameGeneration(file, rearm.was))
      /\ UNCHANGED <<file, hook, wait>> /\ rearm.pc = "match" /\ Load(Daemon)
  BY DEF Matches, RearmTo, Daemonic
<1>2. file \in Files /\ rearm \in Rearms
  BY DEF Sound, Owing, RearmSound
<1>3. mem.epoch = file.epoch /\ mem.wepoch = file.wepoch /\ mem.pid = NoPid
  BY <1>2 DEF Files
<1> HIDE DEF mem
<1>4. to.pc = "clear" /\ to.epoch = rearm.epoch /\ to.mem = mem /\ NoRearm.pc = "none"
  BY <1>2 DEF NoRearm, Rearms
<1> HIDE DEF to
<1>5. rearm.epoch <= file.epoch
  BY <1>1 DEF Gated, Generations
<1>6. SameGeneration(file, rearm.was) => file.pid = rearm.was /\ file.epoch = rearm.epoch
  BY <1>2 DEF SameGeneration, EffectiveEpoch, Gated, Generations
<1>7. DaemonFresh'
  BY <1>1, <1>3, <1>4, <1>6 DEF DaemonFresh, Gated, FoundDead
<1> QED
  BY <1>1, <1>4, <1>5, <1>7, DaemonReads

LEMMA RecordsGated ==
  ASSUME Sound, Gated, Records
  PROVE  Gated'
<1> DEFINE mem == [file EXCEPT !.pid = rearm.pid]
           to == [rearm EXCEPT !.pc = "record", !.mem = mem]
<1>1. UNCHANGED <<file, hook>> /\ rearm.pc = "check" /\ Load(Daemon)
  BY DEF Records, Daemonic
<1>2. file \in Files /\ rearm \in Rearms /\ rearm.epoch <= file.epoch
  BY <1>1 DEF Sound, Owing, RearmSound, Gated, Generations
<1>3. CASE rearm' = to /\ UNCHANGED wait /\ SameGeneration(file, NoPid)
  <2>1. mem.epoch = file.epoch /\ mem.wepoch = file.wepoch /\ mem.pid = rearm.pid
    BY <1>2 DEF Files, Rearms
  <2> HIDE DEF mem
  <2>2. to.pc = "record" /\ to.epoch = rearm.epoch /\ to.mem = mem /\ to.pid = rearm.pid
    BY <1>2 DEF Rearms
  <2> HIDE DEF to
  <2>3. DaemonFresh'
    BY <1>1, <1>3, <2>1, <2>2 DEF DaemonFresh, SameGeneration
  <2> QED
    BY <1>1, <1>2, <1>3, <2>2, <2>3, DaemonReads
\* the generation has moved on: the waiter that was just started gets the signal
<1>4. CASE rearm' = NoRearm /\ Becomes(rearm.pid, NoWaiter)
  <2>1. rearm'.pc = "none"
    BY <1>4 DEF NoRearm
  <2>2. \A q \in Pids : IF q = rearm.pid THEN wait'[q].pc = "off" ELSE wait'[q] = wait[q]
    BY <1>4 DEF Becomes, Sound, NoWaiter
  <2>3. \A q \in Pids \cup {Hook} : q \in stale <=> q \in stale'
    BY <1>1, ActorsApart DEF Load
  <2>4. Generations' /\ HookFresh' /\ DaemonFresh' /\ FoundDead'
    BY <1>1, <2>1, <2>2, <2>3 DEF Gated, Generations, HookFresh, DaemonFresh, FoundDead
  <2>5. ASSUME NEW p \in Pids PROVE WaiterFresh(p)'
    BY <1>1, <2>2, <2>3 DEF Gated, WaiterFresh
  <2>6. /\ \A p \in Pids : Waits(p)' => Waits(p) /\ wait'[p] = wait[p] /\ ~Rearming(p)
        /\ \A p \in Pids : Sure(p)' => Sure(p) /\ wait'[p] = wait[p] /\ ~Rearming(p)
    BY <2>2 DEF Waits, Sure, Rearming
  <2>7. Recorded' /\ Parked'
    BY <1>1, <2>6 DEF Gated, Recorded, Parked, Current
  <2>8. SureIsRecorded' /\ OneIsSure'
    BY <1>1, <2>6 DEF Gated, SureIsRecorded, OneIsSure, Current
  <2> QED
    BY <2>4, <2>5, <2>7, <2>8 DEF Gated
<1> QED
  BY <1>3, <1>4 DEF Records, RearmTo

LEMMA DaemonWritesGated ==
  ASSUME Sound, Gated, Histories, ~hist'.lost, PidDropped \/ PidRecorded
  PROVE  Gated'
<1>1. /\ Save(Daemon, rearm.mem) /\ Daemon \notin stale /\ UNCHANGED <<hook, wait>>
      /\ \/ rearm.pc = "clear" /\ rearm' = [rearm EXCEPT !.pc = "spawn", !.mem = NoFile]
         \/ rearm.pc = "record" /\ rearm' = NoRearm
  BY NotLost DEF PidDropped, PidRecorded, Writes, RearmTo, Daemonic
<1>2. rearm \in Rearms
  BY DEF Sound, RearmSound
<1> DEFINE to == [rearm EXCEPT !.pc = "spawn", !.mem = NoFile]
<1>3. to.pc = "spawn" /\ to.epoch = rearm.epoch /\ NoRearm.pc = "none"
  BY <1>2 DEF Rearms, NoRearm
<1>4. \/ rearm.pc = "clear" /\ rearm' = to
      \/ rearm.pc = "record" /\ rearm' = NoRearm
  BY <1>1
<1> HIDE DEF to
<1> QED
  BY <1>1, <1>3, <1>4, DaemonWrites

LEMMA RespawnsGated ==
  ASSUME Sound, Gated, Respawns
  PROVE  Gated'
<1>1. /\ UNCHANGED <<file, stale, hook>> /\ rearm.pc = "spawn" /\ rearm \in Rearms
      /\ rearm.epoch <= file.epoch
  BY DEF Respawns, Keeps, Daemonic, Sound, RearmSound, Gated, Generations
<1>2. PICK p \in Free : /\ Started(p, rearm.epoch)
                        /\ rearm' = [rearm EXCEPT !.pc = "check", !.pid = p]
  BY DEF Respawns, RearmTo
<1>3. rearm'.pc = "check" /\ rearm'.epoch = rearm.epoch /\ rearm'.pid = p
  BY <1>1, <1>2 DEF Rearms
<1>4. rearm.epoch \in Nat
  BY <1>1 DEF Rearms
<1>5. /\ p \in Pids /\ wait[p].pc = "off" /\ p # file.pid
      /\ wait'[p].pc = "top" /\ wait'[p].epoch = rearm.epoch
      /\ \A q \in Pids : q # p => wait'[q] = wait[q]
      /\ \A q \in Pids : WaiterFresh(q)'
      /\ \A q \in Pids : Sure(q)' => Sure(q) /\ q # p
      /\ OneIsSure'
      /\ \A q \in Pids : Waits(q)' => q = p \/ Waits(q)
  BY <1>1, <1>2, <1>4, StartsGated
<1>6. Generations' /\ HookFresh' /\ DaemonFresh' /\ FoundDead'
  BY <1>1, <1>3, <1>5 DEF Gated, Generations, HookFresh, DaemonFresh, FoundDead
<1>7. Recorded'
  BY <1>1, <1>3, <1>5 DEF Gated, Recorded, Current, Rearming
<1>8. Parked'
  BY <1>1, <1>5 DEF Gated, Parked
<1>9. SureIsRecorded'
  BY <1>1, <1>3, <1>5 DEF Gated, SureIsRecorded, Current, Rearming
<1> QED
  BY <1>5, <1>6, <1>7, <1>8, <1>9 DEF Gated

LEMMA RestartsGated ==
  ASSUME Sound, Gated, NEW killed \in BOOLEAN, Restarts(killed)
  PROVE  Gated'
<1>1. /\ UNCHANGED <<file, hook>> /\ rearm.pc = "none" /\ rearm' = [NoRearm EXCEPT !.pc = "scan"]
      /\ wait' = [p \in Pids |-> IF killed THEN NoWaiter ELSE wait[p]]
      /\ stale' = stale \ (IF killed THEN Pids ELSE {})
  BY DEF Restarts, RearmTo, Daemonic
<1>2. rearm'.pc = "scan" /\ NoWaiter.pc = "off"
  BY <1>1 DEF NoRearm, NoWaiter
<1>3. Hook \in stale' <=> Hook \in stale
  BY <1>1, ActorsApart
<1>4. \A p \in Pids : IF killed THEN wait'[p].pc = "off"
                      ELSE wait'[p] = wait[p] /\ (p \in stale' <=> p \in stale)
  BY <1>1, <1>2
<1>5. Generations' /\ HookFresh' /\ DaemonFresh' /\ FoundDead'
  BY <1>1, <1>2, <1>3, <1>4 DEF Gated, Generations, HookFresh, DaemonFresh, FoundDead
<1>6. ASSUME NEW p \in Pids PROVE WaiterFresh(p)'
  BY <1>1, <1>4 DEF Gated, WaiterFresh
<1>7. Recorded' /\ Parked'
  BY <1>1, <1>2, <1>4 DEF Gated, Recorded, Parked, Waits, Current, Rearming
<1>8. SureIsRecorded' /\ OneIsSure'
  BY <1>1, <1>2, <1>4 DEF Gated, SureIsRecorded, OneIsSure, Sure, Current, Rearming
<1> QED
  BY <1>5, <1>6, <1>7, <1>8 DEF Gated

\* What the others do touches a waiter only in its push flag.
LEMMA OthersGated ==
  ASSUME Sound, Gated, UNCHANGED <<file, hook, rearm, stale>>, wait' = wait \/ wait' = Pushed
  PROVE  Gated'
<1>1. ASSUME NEW p \in Pids
      PROVE  /\ wait'[p].pc = wait[p].pc /\ wait'[p].epoch = wait[p].epoch
             /\ wait'[p].mem = wait[p].mem /\ wait'[p].verify = wait[p].verify
  <2>1. wait[p] \in Waiters
    BY WaiterIs
  <2>2. [wait[p] EXCEPT !.push = TRUE].pc = wait[p].pc
        /\ [wait[p] EXCEPT !.push = TRUE].epoch = wait[p].epoch
        /\ [wait[p] EXCEPT !.push = TRUE].mem = wait[p].mem
        /\ [wait[p] EXCEPT !.push = TRUE].verify = wait[p].verify
    BY <2>1 DEF Waiters
  <2> QED
    BY <2>2 DEF Pushed
<1>2. file.pid \in Pids \cup {NoPid} /\ rearm.was \in Pids \cup {NoPid}
  BY DEF Sound, Owing, Files, RearmSound, Rearms
<1>3. Generations' /\ HookFresh'
  BY <1>1 DEF Gated, Generations, HookFresh
<1>4. DaemonFresh' /\ FoundDead'
  BY <1>1, <1>2 DEF Gated, DaemonFresh, FoundDead
<1>5. ASSUME NEW p \in Pids PROVE WaiterFresh(p)'
  BY <1>1 DEF Gated, WaiterFresh
<1>6. Recorded' /\ Parked'
  BY <1>1 DEF Gated, Recorded, Parked, Waits, Current, Rearming
<1>7. SureIsRecorded' /\ OneIsSure'
  BY <1>1 DEF Gated, SureIsRecorded, OneIsSure, Sure, Current, Rearming
<1> QED
  BY <1>3, <1>4, <1>5, <1>6, <1>7 DEF Gated

----------------------------------------------------------------------------
(* One prompter *)

LEMMA InitGate == Init => OneGate
<1> SUFFICES ASSUME Init PROVE OneGate
  OBVIOUS
<1>1. \A p \in Pids : wait[p].pc = "off"
  BY DEF Init, NoWaiter
<1>2. file.wepoch = 0 /\ hook.pc = "none" /\ rearm.pc = "none"
  BY DEF Init, NoFile, NoHook, NoRearm
<1>3. Generations /\ HookFresh /\ DaemonFresh /\ FoundDead
  BY <1>1, <1>2 DEF Generations, HookFresh, DaemonFresh, FoundDead
<1>4. (\A p \in Pids : WaiterFresh(p)) /\ Recorded /\ Parked /\ SureIsRecorded /\ OneIsSure
  BY <1>1, <1>2 DEF WaiterFresh, Recorded, Parked, SureIsRecorded, OneIsSure, Waits, Sure
<1>5. Histories /\ HookInTurn
  BY <1>2 DEF Init, Histories, HookInTurn
<1> QED
  BY <1>3, <1>4, <1>5 DEF OneGate, Gated

\* A hook runs in a turn: the host waits for it, and is idle or told to go on when it
\* has returned.
LEMMA HookStaysInTurn ==
  ASSUME Sound, HookInTurn, [Next]_vars
  PROVE  HookInTurn'
<1>1. CASE UNCHANGED <<hook, host>>
  BY <1>1 DEF HookInTurn
<1>2. CASE TurnBegins \/ TurnEnds \/ Aborts
  BY <1>2 DEF TurnBegins, TurnEnds, Aborts, HookInTurn, hostVars
<1>3. CASE HookStep
  <2>1. hook.pc # "none" /\ host = "busy"
    BY <1>3 DEF HookStep, PreWrites, Registers, Claims, NotOwner, FlushNothing, Flush, Refetch,
           Take, AbortWrites, Spawns, StopReturns, HookInTurn
  <2>2. host' = host \/ hook' = NoHook
    BY <1>3 DEF HookStep, PreWrites, Registers, Claims, NotOwner, FlushNothing, Flush, Refetch,
           Take, AbortWrites, Spawns, StopReturns, HookEnds, hostVars
  <2> QED
    BY <2>1, <2>2 DEF HookInTurn, NoHook
<1>4. CASE RearmStep \/ \E killed \in BOOLEAN : Restarts(killed)
  <2>1. Daemonic
    BY <1>4 DEF RearmStep, Scans, Matches, PidDropped, Respawns, Records, PidRecorded,
           Writes, Restarts
  <2> QED
    BY <1>1, <2>1 DEF Daemonic, hostVars
<1>5. CASE \E p \in Pids : WaiterStep(p) \/ Quits(p) \/ CallFails(p)
  <2>1. PICK p \in Pids : WaiterStep(p) \/ Quits(p) \/ CallFails(p)
    BY <1>5
  <2>2. CASE Top(p) \/ Peek(p) \/ Prompts(p)
    BY <1>1, <2>2 DEF Top, Peek, Prompts, hostVars
  <2>3. CASE \/ LooksInVain(p) \/ Commit(p) \/ CommitWrites(p) \/ Trigger(p) \/ Rearm(p)
             \/ RearmWrites(p) \/ Clears(p) \/ ClearWrites(p) \/ ClearsPid(p) \/ PidCleared(p)
             \/ Quits(p) \/ CallFails(p)
    <3>1. WaitsOn
      BY <2>3 DEF LooksInVain, Commit, CommitWrites, Trigger, Rearm, RearmWrites, Clears,
             ClearWrites, ClearsPid, PidCleared, Quits, CallFails
    <3> QED
      BY <1>1, <3>1 DEF WaitsOn, hostVars
  <2> QED
    BY <2>1, <2>2, <2>3 DEF WaiterStep
<1>6. CASE \/ \E k \in Kinds, t \in Terminals, busy \in BOOLEAN : Publish(k, t, busy)
           \/ \E t \in Terminals : PeerIdle(t) \/ PeerLeaves(t)
           \/ (\E e \in Events : RowMoves(e)) \/ OwnerMoves
  BY <1>1, <1>6 DEF Publish, PeerIdle, PeerLeaves, RowMoves, OwnerMoves, hostVars
<1>7. CASE UNCHANGED vars
  BY <1>1, <1>7 DEF vars, hostVars
<1> QED
  BY <1>2, <1>3, <1>4, <1>5, <1>6, <1>7 DEF Next

\* A write that was lost and a turn that had two waiters are not forgotten.
Remembers == Histories' /\ (hist.lost => hist'.lost) /\ (hist.twins => hist'.twins)

LEMMA HistoryMoves ==
  ASSUME Histories,
         \/ hist' = hist
         \/ \E r \in Actors : hist' = [hist EXCEPT !.lost = @ \/ Clobbers(r)]
         \/ hist' = [hist EXCEPT !.lost = @ \/ Clobbers(Hook), !.deserted = TRUE]
         \/ \E e \in Events : hist' = [hist EXCEPT !.lost = @ \/ e \notin file.kept]
         \/ hist' = [hist EXCEPT !.deserted = TRUE]
         \/ \E x \in BOOLEAN : hist' = [hist EXCEPT !.deserted = @ \/ x]
         \/ \E x \in BOOLEAN : hist' = [hist EXCEPT !.deserted = FALSE, !.twins = @ \/ x]
         \/ \E x \in BOOLEAN : hist' = [hist EXCEPT !.twins = @ \/ x]
  PROVE  Remembers
<1>1. hist.lost \in BOOLEAN /\ hist.deserted \in BOOLEAN /\ hist.twins \in BOOLEAN
  BY DEF Histories
<1>2. ASSUME NEW x \in BOOLEAN, NEW y \in BOOLEAN, NEW z \in BOOLEAN,
             hist' = [lost |-> x, deserted |-> y, twins |-> z],
             hist.lost => x, hist.twins => z
      PROVE  Remembers
  BY <1>2 DEF Remembers, Histories
<1>3. CASE hist' = hist
  BY <1>3 DEF Remembers, Histories
<1>4. CASE \E r \in Actors : hist' = [hist EXCEPT !.lost = @ \/ Clobbers(r)]
  <2>1. PICK r \in Actors : hist' = [hist EXCEPT !.lost = @ \/ Clobbers(r)]
    BY <1>4
  <2> DEFINE x == hist.lost \/ Clobbers(r)
  <2>2. hist' = [lost |-> x, deserted |-> hist.deserted, twins |-> hist.twins]
    BY <2>1 DEF Histories
  <2>3. x \in BOOLEAN /\ (hist.lost => x)
    BY <1>1 DEF Clobbers
  <2> HIDE DEF x
  <2> QED
    BY <1>1, <1>2, <2>2, <2>3
<1>5. CASE hist' = [hist EXCEPT !.lost = @ \/ Clobbers(Hook), !.deserted = TRUE]
  <2> DEFINE x == hist.lost \/ Clobbers(Hook)
  <2>1. hist' = [lost |-> x, deserted |-> TRUE, twins |-> hist.twins]
    BY <1>5 DEF Histories
  <2>2. x \in BOOLEAN /\ (hist.lost => x)
    BY <1>1 DEF Clobbers
  <2> HIDE DEF x
  <2> QED
    BY <1>1, <1>2, <2>1, <2>2
<1>6. CASE \E e \in Events : hist' = [hist EXCEPT !.lost = @ \/ e \notin file.kept]
  <2>1. PICK e \in Events : hist' = [hist EXCEPT !.lost = @ \/ e \notin file.kept]
    BY <1>6
  <2> DEFINE x == hist.lost \/ e \notin file.kept
  <2>2. hist' = [lost |-> x, deserted |-> hist.deserted, twins |-> hist.twins]
    BY <2>1 DEF Histories
  <2>3. x \in BOOLEAN /\ (hist.lost => x)
    BY <1>1
  <2> HIDE DEF x
  <2> QED
    BY <1>1, <1>2, <2>2, <2>3
<1>7. CASE hist' = [hist EXCEPT !.deserted = TRUE]
  <2>1. hist' = [lost |-> hist.lost, deserted |-> TRUE, twins |-> hist.twins]
    BY <1>7 DEF Histories
  <2> QED
    BY <1>1, <1>2, <2>1
<1>8. CASE \E x \in BOOLEAN : hist' = [hist EXCEPT !.deserted = @ \/ x]
  <2>1. PICK x \in BOOLEAN : hist' = [hist EXCEPT !.deserted = @ \/ x]
    BY <1>8
  <2> DEFINE y == hist.deserted \/ x
  <2>2. /\ hist' = [lost |-> hist.lost, deserted |-> y, twins |-> hist.twins]
        /\ y \in BOOLEAN
    BY <2>1 DEF Histories
  <2> HIDE DEF y
  <2> QED
    BY <1>1, <1>2, <2>2
<1>9. CASE \E x \in BOOLEAN : hist' = [hist EXCEPT !.deserted = FALSE, !.twins = @ \/ x]
  <2>1. PICK x \in BOOLEAN : hist' = [hist EXCEPT !.deserted = FALSE, !.twins = @ \/ x]
    BY <1>9
  <2> DEFINE y == hist.twins \/ x
  <2>2. /\ hist' = [lost |-> hist.lost, deserted |-> FALSE, twins |-> y]
        /\ y \in BOOLEAN /\ (hist.twins => y)
    BY <2>1 DEF Histories
  <2> HIDE DEF y
  <2> QED
    BY <1>1, <1>2, <2>2
<1>10. CASE \E x \in BOOLEAN : hist' = [hist EXCEPT !.twins = @ \/ x]
  <2>1. PICK x \in BOOLEAN : hist' = [hist EXCEPT !.twins = @ \/ x]
    BY <1>10
  <2> DEFINE y == hist.twins \/ x
  <2>2. /\ hist' = [lost |-> hist.lost, deserted |-> hist.deserted, twins |-> y]
        /\ y \in BOOLEAN /\ (hist.twins => y)
    BY <2>1 DEF Histories
  <2> HIDE DEF y
  <2> QED
    BY <1>1, <1>2, <2>2
<1> QED
  BY <1>3, <1>4, <1>5, <1>6, <1>7, <1>8, <1>9, <1>10

LEMMA HistoriesGrow ==
  ASSUME Sound, Histories, [Next]_vars
  PROVE  Remembers
<1> DEFINE Loses(r) == hist' = [hist EXCEPT !.lost = @ \/ Clobbers(r)]
           Deserted(x) == hist' = [hist EXCEPT !.deserted = @ \/ x]
<1>0. \A r \in Actors : Loses(r) => Remembers
  BY HistoryMoves
<1>1. hist' = hist => Remembers
  BY HistoryMoves
<1>2. \A x \in BOOLEAN : Deserted(x) => Remembers
  BY HistoryMoves
<1> HIDE DEF Loses, Deserted
<1>3. CASE PreWrites \/ Claims \/ NotOwner
  <2>1. Loses(Hook)
    BY <1>3 DEF PreWrites, Claims, NotOwner, HookSaves, Loses
  <2> QED
    BY <1>0, <2>1, ActorsApart
<1>4. CASE FlushNothing \/ Flush \/ StopReturns
  <2>1. Loses(Hook) \/ hist' = hist
    BY <1>4, FlushLeaves DEF FlushNothing, StopReturns, HookSaves, Loses
  <2> QED
    BY <1>0, <1>1, <2>1, ActorsApart
<1>5. CASE Take
  <2>1. PICK mem \in Files, writes \in BOOLEAN, batch \in SUBSET Events :
          SameGen(mem, hook.mem) /\ Taken(mem, writes, batch)
    BY <1>5, TakeTakes
  <2>2. Loses(Hook) \/ hist' = hist
    BY <2>1 DEF Taken, HookSaves, Loses
  <2> QED
    BY <1>0, <1>1, <2>2, ActorsApart
<1>6. CASE Registers
  <2>1. hist' = hist \/ Deserted(hook.ev = "stop")
    BY <1>6 DEF Registers, Deserted
  <2>2. (hook.ev = "stop") \in BOOLEAN
    OBVIOUS
  <2> QED
    BY <1>1, <1>2, <2>1, <2>2
<1>7. CASE Spawns
  <2>1. Twinned(hook.mem.epoch) \in BOOLEAN
    BY DEF Twinned
  <2>2. \/ hist' = [hist EXCEPT !.deserted = TRUE]
        \/ hist' = [hist EXCEPT !.deserted = FALSE, !.twins = @ \/ Twinned(hook.mem.epoch)]
    BY <1>7 DEF Spawns
  <2> QED
    BY <2>1, <2>2, HistoryMoves
<1>8. CASE AbortWrites
  BY <1>8, HistoryMoves DEF AbortWrites
<1>9. CASE TurnBegins \/ TurnEnds \/ Aborts \/ Refetch
  BY <1>1, <1>9 DEF TurnBegins, TurnEnds, Aborts, Refetch
<1>10. CASE Scans \/ Matches \/ Records
  BY <1>1, <1>10 DEF Scans, Matches, Records
<1>11. CASE PidDropped \/ PidRecorded
  <2>1. Loses(Daemon)
    BY <1>11 DEF PidDropped, PidRecorded, Writes, Loses
  <2> QED
    BY <1>0, <2>1, ActorsApart
<1>12. CASE \E killed \in BOOLEAN : Restarts(killed)
  <2>1. PICK killed \in BOOLEAN : Restarts(killed)
    BY <1>12
  <2>2. Deserted(killed /\ hook.pc = "pidW")
    BY <2>1 DEF Restarts, Deserted
  <2> QED
    BY <1>2, <2>2
<1>13. CASE \E p \in Pids : WaiterStep(p) \/ Quits(p) \/ CallFails(p)
  <2>1. PICK p \in Pids : WaiterStep(p) \/ Quits(p) \/ CallFails(p)
    BY <1>13
  <2>2. CASE CommitWrites(p) \/ RearmWrites(p) \/ ClearWrites(p) \/ PidCleared(p)
    <3>1. Loses(p)
      BY <2>2 DEF CommitWrites, RearmWrites, ClearWrites, PidCleared, WClobber, Loses
    <3> QED
      BY <1>0, <3>1, ActorsApart
  <2>3. CASE Quits(p) \/ CallFails(p) \/ Prompts(p)
    <3>1. Deserted(~Superseded(file, p)) \/ hist' = hist
      BY <2>3 DEF Quits, CallFails, Prompts, Deserts, Deserted
    <3> QED
      BY <1>1, <1>2, <3>1
  <2>4. CASE \/ Top(p) \/ Peek(p) \/ LooksInVain(p) \/ Commit(p) \/ Trigger(p) \/ Rearm(p)
             \/ Clears(p) \/ ClearsPid(p)
    BY <1>1, <2>4 DEF Top, Peek, LooksInVain, Commit, Trigger, Rearm, Clears, ClearsPid
  <2> QED
    BY <2>1, <2>2, <2>3, <2>4 DEF WaiterStep
<1>14. CASE \E e \in Events : RowMoves(e)
  <2>1. hist' = hist \/ \E e \in Events : hist' = [hist EXCEPT !.lost = @ \/ e \notin file.kept]
    BY <1>14 DEF RowMoves
  <2> QED
    BY <2>1, HistoryMoves
<1>15. CASE \/ \E k \in Kinds, t \in Terminals, busy \in BOOLEAN : Publish(k, t, busy)
            \/ (\E t \in Terminals : PeerIdle(t) \/ PeerLeaves(t)) \/ OwnerMoves
  BY <1>1, <1>15 DEF Publish, PeerIdle, PeerLeaves, OwnerMoves
<1>16. CASE UNCHANGED vars
  BY <1>1, <1>16 DEF vars
<1>17. CASE Respawns
  <2>1. Twinned(rearm.epoch) \in BOOLEAN
    BY DEF Twinned
  <2>2. hist' = [hist EXCEPT !.twins = @ \/ Twinned(rearm.epoch)]
    BY <1>17 DEF Respawns
  <2> QED
    BY <2>1, <2>2, HistoryMoves
<1> QED
  BY <1>3, <1>4, <1>5, <1>6, <1>7, <1>8, <1>9, <1>10, <1>11, <1>12, <1>13, <1>14, <1>15, <1>16,
     <1>17
     DEF Next, HookStep, RearmStep

LEMMA NextGated ==
  ASSUME Sound, Histories, HookInTurn, Gated, ~hist'.lost, [Next]_vars
  PROVE  Gated'
<1>1. CASE TurnBegins \/ TurnEnds \/ Aborts
  BY <1>1, TurnBeginsGated, TurnEndsGated, AbortsGated
<1>2. CASE HookStep
  BY <1>2, PreWritesGated, RegistersGated, ClaimsGated, NotOwnerGated, FlushNothingGated,
     FlushGated, RefetchGated, TakeGated, AbortWritesGated, SpawnsGated, StopReturnsGated
     DEF HookStep
<1>3. CASE RearmStep
  BY <1>3, ScansGated, MatchesGated, RespawnsGated, RecordsGated, DaemonWritesGated DEF RearmStep
<1>4. CASE \E p \in Pids : WaiterStep(p) \/ Quits(p) \/ CallFails(p)
  <2> SUFFICES ASSUME NEW p \in Pids, WaiterStep(p) \/ Quits(p) \/ CallFails(p)
               PROVE  Gated'
    BY <1>4
  <2> QED
    BY TopGated, PeekGated, LeavesGated, CommitGated, WaiterWritesGated, TriggerGated, RearmGated,
       ClearsGated, PromptsGated, ClearsPidGated, PidClearedGated DEF WaiterStep
<1>5. CASE \/ \E k \in Kinds, t \in Terminals, busy \in BOOLEAN : Publish(k, t, busy)
           \/ \E t \in Terminals : PeerIdle(t) \/ PeerLeaves(t)
           \/ (\E e \in Events : RowMoves(e)) \/ OwnerMoves \/ UNCHANGED vars
  <2>1. UNCHANGED <<file, hook, rearm, stale>> /\ (wait' = wait \/ wait' = Pushed)
    BY <1>5 DEF Publish, PeerIdle, PeerLeaves, RowMoves, OwnerMoves, vars
  <2> QED
    BY <2>1, OthersGated
<1>6. CASE \E killed \in BOOLEAN : Restarts(killed)
  BY <1>6, RestartsGated
<1> QED
  BY <1>1, <1>2, <1>3, <1>4, <1>5, <1>6 DEF Next

LEMMA NextGate ==
  ASSUME Sound, OneGate, [Next]_vars
  PROVE  OneGate'
<1>1. HookInTurn' /\ Remembers
  BY HookStaysInTurn, HistoriesGrow DEF OneGate
<1>2. hist'.lost \/ Gated'
  BY <1>1, NextGated DEF OneGate, Remembers
<1> QED
  BY <1>1, <1>2 DEF OneGate, Remembers

LEMMA AlwaysOneGate == Spec => []OneGate
<1>1. Init => OneGate
  BY InitGate
<1>2. Sound /\ OneGate /\ [Next]_vars => OneGate'
  BY NextGate
<1> QED
  BY <1>1, <1>2, AlwaysSound, PTL DEF Spec

\* As long as no write of the file was lost, two waiters of one turn never both get as
\* far as the prompt, however many there are and whoever started them: the Stop that
\* armed the turn, or a daemon that restarted any number of times and found the
\* recorded one dead (isWaiterSuperseded, updateAgyWaiterPIDConditionally).
THEOREM OnePrompterAlways == Spec => []OnePrompter
<1>1. OneGate => OnePrompter
  BY DEF OneGate, Gated, OneIsSure, Sure, OnePrompter, At
<1> QED
  BY <1>1, AlwaysOneGate, PTL
=============================================================================
