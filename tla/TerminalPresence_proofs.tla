------------------------ MODULE TerminalPresence_proofs ------------------------
(* Theorems about TerminalPresence, for any terminals, connections and timers.

   First the operations on timers: each keeps the registry consistent, and none
   but a cancellation for the terminal itself, or the end of its timer's own
   callback, takes away the last timer that watches a terminal.  Then types,
   and at last the absent owner. *)
EXTENDS TerminalPresence, TLAPS

\* What a registration in progress, the index and the panes say together.
Consistent ==
  /\ \A c \in AgyConns : conn[c].want # None => conn[c].term = None
  /\ \A t \in Terminals : indexed[t] \in MayRun[t] \/ t \in closed

Typed == TypeOK /\ Consistent

----------------------------------------------------------------------------
(* Timers *)

\* A timer is watching the terminals it watched before.
KeepsWatch(g, h, ts) == \A t \in ts : Watched(g, t) => Watched(h, t)

LEMMA FreeTimerTyped == FreeTimer \in Timer
BY PresenceAssumption DEF FreeTimer, Timer, Kinds, MaxGrace

\* Arming a timer registers it for its key and disturbs no other timer.
LEMMA ArmedSound ==
  ASSUME NEW g, RegistryOK(g), FreeHandles(g) # {},
         NEW kind \in Kinds, NEW t \in Terminals, NEW ticks \in 0..MaxGrace
  PROVE  /\ RegistryOK(Armed(g, kind, t, ticks))
         /\ Watched(Armed(g, kind, t, ticks), t)
         /\ KeepsWatch(g, Armed(g, kind, t, ticks), Terminals)
<1> DEFINE k == NextHandle(g)
           new == [state |-> "armed", kind |-> kind, term |-> t, left |-> ticks]
           h == Armed(g, kind, t, ticks)
<1>1. k \in Handles /\ g.timer[k].state = "free"
  BY DEF NextHandle, FreeHandles
<1>2. new \in Timer
  BY DEF Timer
<1>3. h = [timer |-> [g.timer EXCEPT ![k] = new], entry |-> [g.entry EXCEPT ![kind][t] = k]]
  BY DEF Armed
<1> HIDE DEF k, h
<1>4. RegistryOK(h)
  <2>1. /\ h.timer = [g.timer EXCEPT ![k] = new]
        /\ h.entry = [g.entry EXCEPT ![kind][t] = k]
    BY <1>3
  <2>2. g.timer \in [Handles -> Timer] /\ g.entry \in [Kinds -> [Terminals -> Handles \cup {None}]]
    BY DEF RegistryOK
  <2> HIDE DEF new
  <2>3. h.timer \in [Handles -> Timer] /\ \A j \in Handles \ {k} : h.timer[j] = g.timer[j]
    BY <1>1, <1>2, <2>1, <2>2
  <2>4. h.timer[k] = new /\ k # None
    BY <1>1, <2>1, <2>2, PresenceAssumption
  <2>5. [g.entry[kind] EXCEPT ![t] = k] \in [Terminals -> Handles \cup {None}]
    BY <1>1, <2>2
  <2>6. h.entry \in [Kinds -> [Terminals -> Handles \cup {None}]]
    BY <2>1, <2>2, <2>5
  <2>7. ASSUME NEW d \in Kinds, NEW u \in Terminals
        PROVE  h.entry[d][u] = IF d = kind /\ u = t THEN k ELSE g.entry[d][u]
    BY <2>1, <2>2
  <2>8. new.state # "free" /\ new.kind = kind /\ new.term = t
    BY DEF new
  <2>9. ASSUME NEW d \in Kinds, NEW u \in Terminals, h.entry[d][u] # None
        PROVE  /\ h.timer[h.entry[d][u]].state # "free"
               /\ h.timer[h.entry[d][u]].kind = d /\ h.timer[h.entry[d][u]].term = u
    <3>1. CASE d = kind /\ u = t
      BY <2>4, <2>7, <2>8, <3>1
    <3>2. CASE ~(d = kind /\ u = t)
      <4>1. h.entry[d][u] = g.entry[d][u]
        BY <2>7, <3>2
      <4>2. /\ g.timer[h.entry[d][u]].state # "free"
            /\ g.timer[h.entry[d][u]].kind = d /\ g.timer[h.entry[d][u]].term = u
        BY <2>9, <4>1 DEF RegistryOK
      <4>3. h.entry[d][u] \in Handles \ {k}
        BY <1>1, <2>6, <2>9, <4>2
      <4>4. QED
        BY <2>3, <4>2, <4>3
    <3>3. QED
      BY <3>1, <3>2
  <2>10. h = [timer |-> h.timer, entry |-> h.entry]
    BY <1>3
  <2>11. QED
    BY <2>3, <2>6, <2>9, <2>10 DEF RegistryOK
<1>5. h.timer[k] = new /\ \A j \in Handles \ {k} : h.timer[j] = g.timer[j]
  BY <1>1, <1>3 DEF RegistryOK
<1>6. Watched(h, t)
  BY <1>1, <1>5 DEF Watched
<1>7. KeepsWatch(g, h, Terminals)
  BY <1>1, <1>5 DEF Watched, KeepsWatch
<1>8. QED
  BY <1>4, <1>6, <1>7 DEF h

LEMMA StoppedTimersSound ==
  ASSUME NEW g, RegistryOK(g), NEW ks
  PROVE  /\ StoppedTimers(g, ks) \in [Handles -> Timer]
         /\ \A k \in Handles \ ks : StoppedTimers(g, ks)[k] = g.timer[k]
         /\ \A k \in Handles \cap ks : StoppedTimers(g, ks)[k] \in {g.timer[k], FreeTimer}
BY FreeTimerTyped DEF StoppedTimers, Stopped, RegistryOK

\* A cancellation touches only the timers registered for its terminal.
LEMMA CancelledSound ==
  ASSUME NEW g, RegistryOK(g), NEW t \in Terminals
  PROVE  /\ RegistryOK(Cancelled(g, t))
         /\ KeepsWatch(g, Cancelled(g, t), Terminals \ {t})
         /\ FreeHandles(g) \subseteq FreeHandles(Cancelled(g, t))
<1> DEFINE ks == Registered(g, t)
           tm == StoppedTimers(g, ks)
           en == [kind \in Kinds |-> [g.entry[kind] EXCEPT ![t] = None]]
           h == Cancelled(g, t)
<1>1. h = [timer |-> tm, entry |-> en]
  BY DEF Cancelled
<1>2. /\ tm \in [Handles -> Timer]
      /\ \A k \in Handles \ ks : tm[k] = g.timer[k]
  BY StoppedTimersSound
<1>3. \A k \in Handles \cap ks : g.timer[k].term = t
  BY PresenceAssumption DEF Registered, RegistryOK
<1>4. \A kind \in Kinds, u \in Terminals :
        en[kind][u] = IF u = t THEN None ELSE g.entry[kind][u]
  BY DEF RegistryOK
<1>5. en \in [Kinds -> [Terminals -> Handles \cup {None}]]
  BY DEF RegistryOK
<1> HIDE DEF ks, tm, en, h
<1>6. ASSUME NEW kind \in Kinds, NEW u \in Terminals, en[kind][u] # None
      PROVE  /\ tm[en[kind][u]].state # "free"
             /\ tm[en[kind][u]].kind = kind /\ tm[en[kind][u]].term = u
  <2>1. u # t /\ en[kind][u] = g.entry[kind][u]
    BY <1>4, <1>6
  <2>2. g.timer[en[kind][u]].state # "free" /\ g.timer[en[kind][u]].kind = kind
        /\ g.timer[en[kind][u]].term = u
    BY <2>1, <1>6 DEF RegistryOK
  <2>3. en[kind][u] \in Handles \ ks
    BY <1>3, <1>5, <1>6, <2>1, <2>2
  <2>4. QED
    BY <1>2, <2>2, <2>3
<1>7. RegistryOK(h)
  BY <1>1, <1>2, <1>5, <1>6 DEF RegistryOK
<1>8. KeepsWatch(g, h, Terminals \ {t})
  BY <1>1, <1>2, <1>3 DEF KeepsWatch, Watched
<1>9. FreeHandles(g) \subseteq FreeHandles(h)
  <2>1. \A k \in Handles \cap ks : tm[k] \in {g.timer[k], FreeTimer}
    BY StoppedTimersSound DEF tm
  <2>2. QED
    BY <1>1, <1>2, <2>1 DEF FreeHandles, FreeTimer
<1>10. QED
  BY <1>7, <1>8, <1>9 DEF h

\* A callback ends its own timer, although it may forget another one's entry.
LEMMA DoneSound ==
  ASSUME NEW g, RegistryOK(g), NEW k \in Handles
  PROVE  /\ RegistryOK(Done(g, k))
         /\ KeepsWatch(g, Done(g, k), Terminals \ {g.timer[k].term})
<1> DEFINE kd == g.timer[k].kind
           t == g.timer[k].term
           tm == [g.timer EXCEPT ![k] = FreeTimer]
           en == [g.entry EXCEPT ![kd][t] = None]
           h == Done(g, k)
<1>1. h = [timer |-> tm, entry |-> en]
  BY DEF Done
<1>2. /\ tm \in [Handles -> Timer]
      /\ \A j \in Handles \ {k} : tm[j] = g.timer[j]
  BY FreeTimerTyped DEF RegistryOK
<1>3. kd \in Kinds /\ t \in Terminals \cup {None}
  BY DEF RegistryOK, Timer
<1>4. /\ en \in [Kinds -> [Terminals -> Handles \cup {None}]]
      /\ \A kind \in Kinds, u \in Terminals :
           en[kind][u] = IF kind = kd /\ u = t THEN None ELSE g.entry[kind][u]
  <2>1. g.entry \in [Kinds -> [Terminals -> Handles \cup {None}]]
    BY DEF RegistryOK
  <2> DEFINE old == g.entry
  <2> HIDE DEF kd, t, old
  <2>2. old \in [Kinds -> [Terminals -> Handles \cup {None}]]
    BY <2>1 DEF old
  <2>3. en = [old EXCEPT ![kd] = [old[kd] EXCEPT ![t] = None]]
    BY DEF old
  <2>4. [old[kd] EXCEPT ![t] = None] \in [Terminals -> Handles \cup {None}]
    BY <1>3, <2>2
  <2>5. en \in [Kinds -> [Terminals -> Handles \cup {None}]]
    BY <1>3, <2>2, <2>3, <2>4
  <2>6. ASSUME NEW kind \in Kinds, NEW u \in Terminals
        PROVE  en[kind][u] = IF kind = kd /\ u = t THEN None ELSE old[kind][u]
    <3>1. kind # kd => en[kind] = old[kind]
      BY <1>3, <2>2, <2>3
    <3>2. kind = kd => en[kind] = [old[kd] EXCEPT ![t] = None]
      BY <2>2, <2>3
    <3>3. u \in DOMAIN old[kind]
      BY <2>2
    <3> HIDE DEF en
    <3>4. QED
      BY <3>1, <3>2, <3>3
  <2>7. QED
    BY <2>5, <2>6 DEF old
<1> HIDE DEF tm, en, h
<1>5. ASSUME NEW kind \in Kinds, NEW u \in Terminals, en[kind][u] # None
      PROVE  /\ tm[en[kind][u]].state # "free"
             /\ tm[en[kind][u]].kind = kind /\ tm[en[kind][u]].term = u
  <2>1. ~(kind = kd /\ u = t) /\ en[kind][u] = g.entry[kind][u]
    BY <1>4, <1>5
  <2>2. /\ g.timer[en[kind][u]].state # "free" /\ g.timer[en[kind][u]].kind = kind
        /\ g.timer[en[kind][u]].term = u
    BY <2>1, <1>5 DEF RegistryOK
  <2>3. en[kind][u] \in Handles \ {k}
    BY <1>4, <1>5, <2>1, <2>2
  <2>4. QED
    BY <1>2, <2>2, <2>3
<1>6. RegistryOK(h)
  BY <1>1, <1>2, <1>4, <1>5 DEF RegistryOK
<1>7. KeepsWatch(g, h, Terminals \ {t})
  BY <1>1, <1>2 DEF KeepsWatch, Watched
<1>8. QED
  BY <1>6, <1>7 DEF h

\* A disconnection leaves the terminal present or watched.
LEMMA DisconnectingSound ==
  ASSUME NEW g, RegistryOK(g), FreeHandles(g) # {}, NEW cs, NEW ls, NEW t \in Terminals
  PROVE  /\ RegistryOK(Disconnecting(g, cs, ls, t))
         /\ KeepsWatch(g, Disconnecting(g, cs, ls, t), Terminals)
         /\ Present(cs, ls, t) \/ Watched(Disconnecting(g, cs, ls, t), t)
<1>1. CASE Present(cs, ls, t)
  BY <1>1 DEF Disconnecting, KeepsWatch
<1>2. CASE ~Present(cs, ls, t) /\ g.entry["disconnect"][t] # None
  <2>1. g.entry["disconnect"][t] \in Handles
    BY <1>2 DEF RegistryOK, Kinds
  <2>2. Watched(g, t)
    BY <1>2, <2>1 DEF RegistryOK, Kinds, Watched
  <2>3. QED
    BY <1>2, <2>2 DEF Disconnecting, KeepsWatch
<1>3. CASE ~Present(cs, ls, t) /\ g.entry["disconnect"][t] = None
  <2>1. Grace \in 0..MaxGrace /\ "disconnect" \in Kinds
    BY PresenceAssumption DEF MaxGrace, Kinds
  <2>2. Disconnecting(g, cs, ls, t) = Armed(g, "disconnect", t, Grace)
    BY <1>3 DEF Disconnecting
  <2>3. QED
    BY <2>1, <2>2, ArmedSound
<1>4. QED
  BY <1>1, <1>2, <1>3

\* Time passing and a timer firing change no registration and free no timer.
LEMMA ClockworkSound ==
  ASSUME RegistryOK(grace), Tick \/ \E k \in Handles : TimerFires(k)
  PROVE  RegistryOK(grace') /\ KeepsWatch(grace, grace', Terminals)
<1>1. CASE Tick
  <2> DEFINE running == {k \in Handles : grace.timer[k].state = "armed" /\ grace.timer[k].left > 0}
             tm == [k \in Handles |-> IF k \in running
                                      THEN [grace.timer[k] EXCEPT !.left = @ - 1]
                                      ELSE grace.timer[k]]
  <2>1. grace' = [grace EXCEPT !.timer = tm]
    BY <1>1 DEF Tick
  <2>2. ASSUME NEW k \in Handles
        PROVE  /\ tm[k] \in Timer /\ tm[k].state = grace.timer[k].state
               /\ tm[k].kind = grace.timer[k].kind /\ tm[k].term = grace.timer[k].term
    <3>1. grace.timer[k] \in Timer
      BY DEF RegistryOK
    <3>2. CASE k \in running
      <4>1. grace.timer[k].left - 1 \in 0..MaxGrace
        BY <3>1, <3>2, PresenceAssumption DEF Timer, MaxGrace
      <4>2. tm[k] = [grace.timer[k] EXCEPT !.left = grace.timer[k].left - 1]
        BY <3>2
      <4> HIDE DEF tm, running
      <4>3. QED
        BY <3>1, <4>1, <4>2 DEF Timer
    <3>3. CASE k \notin running
      BY <3>1, <3>3
    <3>4. QED
      BY <3>2, <3>3
  <2>3. tm \in [Handles -> Timer]
    BY <2>2
  <2> HIDE DEF tm
  <2>4. grace'.timer = tm /\ grace'.entry = grace.entry
        /\ grace' \in [timer : [Handles -> Timer],
                       entry : [Kinds -> [Terminals -> Handles \cup {None}]]]
    BY <2>1, <2>3 DEF RegistryOK
  <2>5. QED
    BY <2>2, <2>4, PresenceAssumption DEF RegistryOK, KeepsWatch, Watched
<1>2. ASSUME NEW k \in Handles, TimerFires(k)
      PROVE  RegistryOK(grace') /\ KeepsWatch(grace, grace', Terminals)
  <2> DEFINE tm == [grace.timer EXCEPT ![k] = [grace.timer[k] EXCEPT !.state = "fired"]]
  <2>1. grace' = [grace EXCEPT !.timer = tm]
    BY <1>2 DEF TimerFires, RegistryOK
  <2>2. grace.timer[k] \in Timer
    BY DEF RegistryOK
  <2>3. [grace.timer[k] EXCEPT !.state = "fired"] \in Timer
    BY <2>2 DEF Timer
  <2>4. ASSUME NEW j \in Handles
        PROVE  /\ (tm[j].state = "free" <=> grace.timer[j].state = "free")
               /\ tm[j].kind = grace.timer[j].kind /\ tm[j].term = grace.timer[j].term
    BY <1>2, <2>2 DEF TimerFires, RegistryOK, Timer
  <2>5. tm \in [Handles -> Timer]
    BY <2>3 DEF RegistryOK
  <2> HIDE DEF tm
  <2>6. grace'.timer = tm /\ grace'.entry = grace.entry
        /\ grace' \in [timer : [Handles -> Timer],
                       entry : [Kinds -> [Terminals -> Handles \cup {None}]]]
    BY <2>1, <2>5 DEF RegistryOK
  <2>7. QED
    BY <2>4, <2>6, PresenceAssumption DEF RegistryOK, KeepsWatch, Watched
<1>3. QED
  BY <1>1, <1>2

LEMMA NoGraceSound == RegistryOK(NoGrace)
BY FreeTimerTyped DEF NoGrace, RegistryOK

\* A registration cancels for the terminal it connects, and leaves the one it
\* comes from present or watched.
LEMMA RegisterCommitSound ==
  ASSUME TypeOK, NEW c \in Conns, RegisterCommit(c)
  PROVE  /\ conn[c].want \in Terminals
         /\ conn' = [conn EXCEPT ![c].term = conn[c].want, ![c].want = None]
         /\ lease' \subseteq Terminals
         /\ RegistryOK(grace')
         /\ KeepsWatch(grace, grace', Terminals \ {conn[c].want})
         /\ c \notin AgyConns /\ conn[c].term \notin {None, conn[c].want} =>
              Present(conn', lease', conn[c].term) \/ Watched(grace', conn[c].term)
<1> DEFINE t == conn[c].want
           previous == conn[c].term
           cs == [conn EXCEPT ![c].term = t, ![c].want = None]
           isAgy == c \in AgyConns
           leased == isAgy /\ owner = t /\ ~IsPiTerminal(cs, t)
           ls == IF ~isAgy THEN lease \ {t} ELSE IF leased THEN lease \cup {t} ELSE lease
           g == IF isAgy /\ ~leased THEN grace ELSE Cancelled(grace, t)
           left == ~isAgy /\ previous \notin {None, t}
<1>1. /\ t # None /\ FreeHandles(grace) # {} /\ conn' = cs
      /\ lease' = (IF left THEN Checked(cs, ls, previous) ELSE ls)
      /\ grace' = (IF left THEN Disconnecting(g, cs, ls, previous) ELSE g)
  BY DEF RegisterCommit
<1>2. conn[c] \in Conn /\ RegistryOK(grace) /\ lease \subseteq Terminals
  BY DEF TypeOK
<1>3. t \in Terminals /\ previous \in Terminals \cup {None}
  BY <1>1, <1>2 DEF Conn
<1>4. /\ RegistryOK(g) /\ FreeHandles(g) # {}
      /\ KeepsWatch(grace, g, Terminals \ {t})
  BY <1>1, <1>2, <1>3, CancelledSound DEF KeepsWatch
<1>5. lease' \subseteq Terminals
  BY <1>1, <1>2, <1>3 DEF Checked
<1> HIDE DEF g, cs, ls, leased
<1>6. CASE left
  <2>1. previous \in Terminals
    BY <1>3, <1>6
  <2>2. /\ RegistryOK(grace') /\ KeepsWatch(g, grace', Terminals)
        /\ Present(cs, ls, previous) \/ Watched(grace', previous)
    BY <1>1, <1>4, <1>6, <2>1, DisconnectingSound
  <2>3. Present(cs, ls, previous) => Present(cs, Checked(cs, ls, previous), previous)
    BY DEF Present, Checked
  <2>4. KeepsWatch(grace, grace', Terminals \ {t})
    BY <1>4, <2>2 DEF KeepsWatch
  <2>5. Present(conn', lease', previous) \/ Watched(grace', previous)
    BY <1>1, <1>6, <2>2, <2>3
  <2>6. QED
    BY <1>1, <1>3, <1>5, <2>2, <2>4, <2>5 DEF cs
<1>7. CASE ~left
  BY <1>1, <1>3, <1>4, <1>5, <1>7 DEF cs
<1>8. QED
  BY <1>6, <1>7

\* A closed socket leaves its terminal present or watched.
LEMMA SocketCloseSound ==
  ASSUME TypeOK, NEW c \in Conns, SocketClose(c)
  PROVE  /\ conn' = [conn EXCEPT ![c] = NoConn]
         /\ lease' \subseteq Terminals
         /\ RegistryOK(grace') /\ KeepsWatch(grace, grace', Terminals)
         /\ conn[c].term # None =>
              Present(conn', lease', conn[c].term) \/ Watched(grace', conn[c].term)
<1> DEFINE t == conn[c].term
           cs == [conn EXCEPT ![c] = NoConn]
<1>1. /\ FreeHandles(grace) # {} /\ conn' = cs
      /\ lease' = (IF t = None THEN lease ELSE Checked(cs, lease, t))
      /\ grace' = (IF t = None THEN grace ELSE Disconnecting(grace, cs, lease, t))
  BY DEF SocketClose
<1>2. conn[c] \in Conn /\ RegistryOK(grace) /\ lease \subseteq Terminals
  BY DEF TypeOK
<1>3. lease' \subseteq Terminals
  BY <1>1, <1>2 DEF Checked
<1>4. CASE t = None
  BY <1>1, <1>2, <1>3, <1>4 DEF KeepsWatch
<1>5. CASE t # None
  <2>1. t \in Terminals
    BY <1>2, <1>5 DEF Conn
  <2>2. /\ RegistryOK(grace') /\ KeepsWatch(grace, grace', Terminals)
        /\ Present(cs, lease, t) \/ Watched(grace', t)
    BY <1>1, <1>2, <1>5, <2>1, DisconnectingSound
  <2>3. Present(cs, lease, t) => Present(cs, Checked(cs, lease, t), t)
    BY DEF Present, Checked
  <2>4. QED
    BY <1>1, <1>3, <1>5, <2>2, <2>3
<1>6. QED
  BY <1>4, <1>5

----------------------------------------------------------------------------
(* Types *)

LEMMA InitTyped == Init => Typed
<1>1. Init => RegistryOK(grace)
  BY NoGraceSound DEF Init
<1>2. QED
  BY <1>1, PresenceAssumption DEF Init, Typed, TypeOK, Consistent, Conn, NoConn

\* Requests of the clients.
LEMMA RequestTyped ==
  ASSUME Typed, Requests
  PROVE  Typed'
<1> USE DEF Typed
<1> SUFFICES ASSUME NEW c \in Conns,
                    \/ Connect(c) \/ RegisterFails(c) \/ RegisterCommit(c)
                    \/ SetOn(c) \/ SetOff(c) \/ SocketClose(c)
                    \/ \E t \in Terminals : RegisterBegin(c, t)
             PROVE  Typed'
  BY DEF Requests
<1>0. conn[c] \in Conn /\ RegistryOK(grace)
  BY DEF TypeOK
<1>1. CASE Connect(c)
  <2>1. conn' = [conn EXCEPT ![c].open = TRUE]
    BY <1>1 DEF Connect
  <2>2. /\ conn' \in [Conns -> Conn]
        /\ \A d \in Conns : conn'[d].want = conn[d].want /\ conn'[d].term = conn[d].term
    BY <2>1 DEF TypeOK, Conn
  <2>3. UNCHANGED <<phase, owner, indexed, closed, leaving, lease, grace, scan>>
    BY <1>1 DEF Connect
  <2>4. QED
    BY <1>0, <2>2, <2>3, PresenceAssumption DEF TypeOK, Consistent
<1>2. CASE RegisterFails(c)
  <2>1. conn' = [conn EXCEPT ![c].want = None]
    BY <1>2 DEF RegisterFails
  <2>2. conn' \in [Conns -> Conn] /\ \A d \in Conns : conn'[d].want # None => conn'[d] = conn[d]
    BY <2>1 DEF TypeOK, Conn
  <2>3. UNCHANGED <<phase, owner, indexed, closed, leaving, lease, grace, scan>>
    BY <1>2 DEF RegisterFails
  <2>4. QED
    BY <1>0, <2>2, <2>3, PresenceAssumption DEF TypeOK, Consistent
<1>3. ASSUME NEW t \in Terminals, RegisterBegin(c, t)
      PROVE  Typed'
  <2>1. /\ conn' = [conn EXCEPT ![c].want = t]
        /\ c \in AgyConns => conn[c].term = None
        /\ UNCHANGED <<phase, owner, indexed, closed, leaving, lease, grace, scan>>
    BY <1>3 DEF RegisterBegin
  <2>2. [conn[c] EXCEPT !.want = t] \in Conn
    BY <1>0 DEF Conn
  <2>3. conn' \in [Conns -> Conn]
    BY <2>1, <2>2 DEF TypeOK
  <2>4. \A d \in AgyConns : conn'[d].want # None => conn'[d].term = None
    BY <1>0, <2>1 DEF TypeOK, Consistent, Conn
  <2>5. RegistryOK(grace')
    BY <1>0, <2>1
  <2>6. QED
    BY <2>1, <2>3, <2>4, <2>5 DEF TypeOK, Consistent
<1>4. CASE RegisterCommit(c)
  <2>1. /\ conn[c].want \in Terminals /\ RegistryOK(grace') /\ lease' \subseteq Terminals
        /\ conn' = [conn EXCEPT ![c].term = conn[c].want, ![c].want = None]
    BY <1>4, RegisterCommitSound
  <2>2. conn' \in [Conns -> Conn] /\ \A d \in Conns : conn'[d].want # None => conn'[d] = conn[d]
    BY <2>1 DEF TypeOK, Conn
  <2>3. UNCHANGED <<phase, owner, indexed, closed, leaving, scan>>
    BY <1>4 DEF RegisterCommit
  <2>4. QED
    BY <2>1, <2>2, <2>3, PresenceAssumption DEF TypeOK, Consistent
<1>5. CASE SetOn(c)
  <2>1. conn[c].term \in Terminals
    BY <1>0, <1>5 DEF SetOn, Conn
  <2>2. RegistryOK(grace')
    BY <1>0, <1>5, <2>1, CancelledSound DEF SetOn
  <2>3. lease' \subseteq Terminals /\ owner' \in Terminals
    BY <1>5, <2>1 DEF SetOn, TypeOK, Checked
  <2>4. UNCHANGED <<phase, indexed, closed, leaving, conn, scan>>
    BY <1>5 DEF SetOn
  <2>5. QED
    BY <2>2, <2>3, <2>4 DEF TypeOK, Consistent
<1>6. CASE SetOff(c)
  <2>1. /\ owner' \in {None, owner} /\ lease' \subseteq lease
        /\ UNCHANGED <<phase, indexed, closed, leaving, conn, grace, scan>>
    BY <1>6 DEF SetOff
  <2>2. RegistryOK(grace')
    BY <1>0, <2>1
  <2>3. QED
    BY <2>1, <2>2 DEF TypeOK, Consistent
<1>7. CASE SocketClose(c)
  <2>1. /\ RegistryOK(grace') /\ lease' \subseteq Terminals
        /\ conn' = [conn EXCEPT ![c] = NoConn]
    BY <1>7, SocketCloseSound
  <2>2. UNCHANGED <<phase, owner, indexed, closed, leaving, scan>>
    BY <1>7 DEF SocketClose
  <2>3. QED
    BY <2>1, <2>2 DEF TypeOK, Consistent, Conn, NoConn
<1>8. QED
  BY <1>1, <1>2, <1>3, <1>4, <1>5, <1>6, <1>7

\* Timers, the index and the panes.
LEMMA InnerTyped ==
  ASSUME Typed, Clockwork \/ IndexSteps
  PROVE  Typed'
<1> USE DEF Typed
<1>0. RegistryOK(grace)
  BY DEF TypeOK
<1>1. CASE Tick \/ \E k \in Handles : TimerFires(k)
  <2>1. RegistryOK(grace')
    BY <1>0, <1>1, ClockworkSound
  <2>2. UNCHANGED <<phase, owner, indexed, closed, leaving, conn, lease, scan>>
    BY <1>1 DEF Tick, TimerFires
  <2>3. QED
    BY <2>1, <2>2 DEF TypeOK, Consistent
<1>2. ASSUME NEW k \in Handles, Callback(k)
      PROVE  Typed'
  <2>1. RegistryOK(grace')
    BY <1>0, <1>2, DoneSound DEF Callback
  <2>2. /\ lease' \subseteq Terminals /\ owner' \in Terminals \cup {None}
        /\ UNCHANGED <<phase, indexed, closed, leaving, conn, scan>>
    BY <1>2 DEF Callback, TypeOK, Checked
  <2>3. QED
    BY <2>1, <2>2 DEF TypeOK, Consistent
<1>3. ASSUME NEW t \in Terminals, NEW agent \in Agents, AgentChanges(t, agent)
      PROVE  Typed'
  <2>1. /\ indexed' = [indexed EXCEPT ![t] = agent] /\ agent \in MayRun[t]
        /\ UNCHANGED <<phase, owner, closed, leaving, conn, lease, grace, scan>>
    BY <1>3 DEF AgentChanges
  <2>2. RegistryOK(grace')
    BY <1>0, <2>1
  <2>3. indexed' \in [Terminals -> Agents]
        /\ \A u \in Terminals : indexed'[u] \in MayRun[u] \/ u \in closed
    BY <2>1 DEF TypeOK, Consistent
  <2>4. QED
    BY <2>1, <2>2, <2>3 DEF TypeOK, Consistent
<1>4. ASSUME NEW t \in Terminals, PaneCloses(t) \/ CloseReleases(t)
      PROVE  Typed'
  <2>1. RegistryOK(grace')
    BY <1>0, <1>4 DEF PaneCloses, CloseReleases
  <2>2. CASE PaneCloses(t)
    <3>1. /\ indexed' = [indexed EXCEPT ![t] = "none"]
          /\ closed' = closed \cup {t} /\ leaving' = leaving \cup {t}
          /\ UNCHANGED <<phase, owner, conn, lease, grace, scan>>
      BY <2>2 DEF PaneCloses
    <3>2. indexed' \in [Terminals -> Agents]
          /\ \A u \in Terminals : indexed'[u] \in MayRun[u] \/ u \in closed'
      BY <3>1 DEF TypeOK, Consistent, Agents
    <3>3. QED
      BY <2>1, <3>1, <3>2 DEF TypeOK, Consistent
  <2>3. CASE CloseReleases(t)
    <3>1. /\ owner' \in {None, owner} /\ leaving' \subseteq leaving
          /\ UNCHANGED <<phase, indexed, closed, conn, lease, grace, scan>>
      BY <2>3 DEF CloseReleases
    <3>2. QED
      BY <2>1, <3>1 DEF TypeOK, Consistent
  <2>4. QED
    BY <1>4, <2>2, <2>3
<1>5. CASE Refreshed \/ Relocate \/ EventOffered
  <2>1. /\ owner' \in {None, owner} /\ lease' \subseteq lease /\ scan' \in {None, scan, indexed}
        /\ UNCHANGED <<phase, indexed, closed, leaving, conn, grace>>
    BY <1>5 DEF Refreshed, Relocate, EventOffered, Checked
  <2>2. RegistryOK(grace')
    BY <1>0, <2>1
  <2>3. QED
    BY <2>1, <2>2 DEF TypeOK, Consistent
<1>6. QED
  BY <1>1, <1>2, <1>3, <1>4, <1>5 DEF Clockwork, IndexSteps

\* The server's life.
LEMMA LifecycleTyped ==
  ASSUME Typed, Lifecycle
  PROVE  Typed'
<1> USE DEF Typed
<1>0. RegistryOK(grace)
  BY DEF TypeOK
<1>1. CASE Listen
  BY <1>1 DEF Listen, TypeOK, Consistent, RegistryOK
<1>2. CASE ArmStartupGrace
  <2>1. StartupGrace \in 0..MaxGrace /\ "startup" \in Kinds
    BY PresenceAssumption DEF MaxGrace, Kinds
  <2>2. RegistryOK(grace')
    BY <1>0, <1>2, <2>1, ArmedSound DEF ArmStartupGrace, TypeOK
  <2>3. QED
    BY <1>2, <2>2 DEF ArmStartupGrace, TypeOK, Consistent
<1>3. CASE Stop
  <2> DEFINE ks == UNION {Registered(grace, t) : t \in Terminals}
             tm == StoppedTimers(grace, ks)
  <2>1. tm \in [Handles -> Timer]
    BY <1>0, StoppedTimersSound
  <2>2. grace' = [NoGrace EXCEPT !.timer = tm]
    BY <1>3 DEF Stop
  <2> HIDE DEF tm
  <2>3. RegistryOK(grace')
    BY <2>1, <2>2, NoGraceSound DEF RegistryOK, NoGrace
  <2>4. conn' = [c \in Conns |-> [NoConn EXCEPT !.want = conn[c].want]]
    BY <1>3 DEF Stop
  <2>5. conn' \in [Conns -> Conn] /\ \A c \in Conns : conn'[c].term = None
    BY <2>4 DEF TypeOK, Conn, NoConn
  <2>6. /\ phase' = "stopping" /\ lease' = {}
        /\ UNCHANGED <<owner, indexed, closed, leaving, scan>>
    BY <1>3 DEF Stop
  <2>7. QED
    BY <2>3, <2>5, <2>6, PresenceAssumption DEF TypeOK, Consistent
<1>4. CASE Exit
  <2>1. RegistryOK(grace')
    BY <1>4, NoGraceSound DEF Exit
  <2>2. QED
    BY <1>4, <2>1, PresenceAssumption DEF Exit, TypeOK, Consistent, Conn, NoConn
<1>5. QED
  BY <1>1, <1>2, <1>3, <1>4 DEF Lifecycle

LEMMA NextTyped ==
  ASSUME Typed, [Next]_vars
  PROVE  Typed'
<1>1. CASE UNCHANGED vars
  BY <1>1 DEF vars, Typed, TypeOK, Consistent, RegistryOK
<1>2. QED
  BY <1>1, RequestTyped, InnerTyped, LifecycleTyped DEF Next

\* Every variable keeps its type, and the two registries name no timer of
\* another terminal and no stopped one, whatever stale callbacks have deleted.
THEOREM TypeCorrect == Spec => []TypeOK
<1>1. Typed => TypeOK
  BY DEF Typed
<1>2. QED
  BY InitTyped, NextTyped, <1>1, PTL DEF Spec

----------------------------------------------------------------------------
(* Ownership of connected terminals *)

\* Only a request of the owner or the close of its pane takes the ownership of
\* a terminal with a socket: claims, scans and callbacks look for one first.
LEMMA OwnerKept ==
  ASSUME TypeOK, [Next]_vars, owner # None, HasSocket(conn, owner), owner' # owner
  PROVE  \/ owner \in leaving /\ leaving' # leaving
         \/ \E c \in Conns : conn[c].term = owner /\ SetOff(c)
<1>1. Present(conn, lease, owner)
  BY DEF Present
<1>2. CASE Requests
  <2>1. PICK c \in Conns :
          \/ Connect(c) \/ RegisterFails(c) \/ RegisterCommit(c)
          \/ SetOn(c) \/ SetOff(c) \/ SocketClose(c)
          \/ \E t \in Terminals : RegisterBegin(c, t)
    BY <1>2 DEF Requests
  <2>2. CASE SetOn(c)
    BY <1>1, <2>2 DEF SetOn
  <2>3. CASE SetOff(c)
    <3>1. conn[c].term = owner
      BY <2>3 DEF SetOff
    <3>2. QED
      BY <2>3, <3>1
  <2>4. CASE ~SetOn(c) /\ ~SetOff(c)
    BY <2>1, <2>4 DEF Connect, RegisterFails, RegisterCommit, SocketClose, RegisterBegin
  <2>5. QED
    BY <2>2, <2>3, <2>4
<1>3. ASSUME NEW k \in Handles, Callback(k)
      PROVE  FALSE
  BY <1>1, <1>3 DEF Callback, LosesOwnership, LosesAlways
<1>4. CASE Clockwork
  BY <1>3, <1>4 DEF Clockwork, Tick, TimerFires
<1>5. ASSUME NEW t \in Terminals, CloseReleases(t)
      PROVE  owner \in leaving /\ leaving' # leaving
  BY <1>5 DEF CloseReleases
<1>6. CASE IndexSteps
  BY <1>5, <1>6 DEF IndexSteps, Refreshed, Relocate, EventOffered, PaneCloses, AgentChanges
<1>7. CASE Lifecycle
  BY <1>7 DEF Lifecycle, Listen, ArmStartupGrace, Stop, Exit
<1>8. QED
  BY <1>2, <1>4, <1>6, <1>7 DEF Next, vars

\* No stale timer, scan or foreign claim takes the ownership of a terminal that
\* has a registered socket.
THEOREM ConnectedStaysOwner == Spec => ConnectedOwnerKept
<1>1. ASSUME TypeOK, [Next]_vars
      PROVE  [owner # None /\ HasSocket(conn, owner) /\ owner' # owner
              => \/ owner \in leaving /\ leaving' # leaving
                 \/ \E c \in Conns : conn[c].term = owner /\ SetOff(c)]_vars
  BY <1>1, OwnerKept
<1>2. QED
  BY <1>1, TypeCorrect, PTL DEF Spec, ConnectedOwnerKept

----------------------------------------------------------------------------
(* Absent owners *)

\* The step from a covered owner to a covered owner: it stays owner, and what
\* covers it is replaced when it goes.
LEMMA StaysCovered ==
  ASSUME NoForgottenOwner, phase' = phase, owner' = owner,
         owner \in leaving => owner \in leaving',
         Steady(owner) => (Watched(grace, owner) => Watched(grace', owner)),
         Steady(owner) /\ Present(conn, lease, owner) =>
           Present(conn, lease, owner)' \/ Watched(grace', owner) \/ owner \in leaving'
  PROVE  NoForgottenOwner'
<1>1. Steady(owner)' <=> Steady(owner)
  BY DEF Steady
<1>2. Watched(grace, owner)' <=> Watched(grace', owner)
  BY DEF Watched
<1>3. QED
  BY <1>1, <1>2 DEF NoForgottenOwner

LEMMA RequestCovers ==
  ASSUME Typed, NoForgottenOwner, Requests
  PROVE  NoForgottenOwner'
<1> USE DEF Typed
<1>0. PICK c \in Conns :
        \/ Connect(c) \/ RegisterFails(c) \/ RegisterCommit(c)
        \/ SetOn(c) \/ SetOff(c) \/ SocketClose(c)
        \/ \E t \in Terminals : RegisterBegin(c, t)
  BY DEF Requests
<1>a. conn[c] \in Conn /\ owner \in Terminals \cup {None}
  BY DEF TypeOK
<1>1. CASE Connect(c) \/ RegisterFails(c) \/ \E t \in Terminals : RegisterBegin(c, t)
  <2>1. /\ UNCHANGED <<phase, owner, indexed, closed, leaving, lease, grace>>
        /\ \A d \in Conns : conn'[d].term = conn[d].term
    BY <1>1 DEF Connect, RegisterFails, RegisterBegin, TypeOK, Conn
  <2>2. Present(conn, lease, owner) => Present(conn, lease, owner)'
    BY <2>1 DEF Present, HasSocket, LeaseExpired
  <2>3. QED
    BY <2>1, <2>2, StaysCovered
<1>2. CASE RegisterCommit(c)
  <2> DEFINE t == conn[c].want
  <2>1. /\ t \in Terminals /\ conn' = [conn EXCEPT ![c].term = t, ![c].want = None]
        /\ KeepsWatch(grace, grace', Terminals \ {t})
        /\ c \notin AgyConns /\ conn[c].term \notin {None, t} =>
             Present(conn', lease', conn[c].term) \/ Watched(grace', conn[c].term)
    BY <1>2, RegisterCommitSound
  <2>2. UNCHANGED <<phase, owner, indexed, closed, leaving>>
    BY <1>2 DEF RegisterCommit
  <2>3. conn'[c].term = t /\ \A d \in Conns \ {c} : conn'[d].term = conn[d].term
    BY <2>1 DEF TypeOK, Conn
  <2>4. CASE owner = t \/ owner = None
    <3>1. owner = t => Present(conn, lease, owner)'
      BY <2>2, <2>3 DEF Present, HasSocket
    <3>2. QED
      BY <2>2, <2>4, <3>1, PresenceAssumption DEF NoForgottenOwner
  <2>5. CASE owner # t /\ owner # None
    <3>1. Watched(grace, owner) => Watched(grace', owner)
      BY <1>a, <2>1, <2>5 DEF KeepsWatch
    <3>2. CASE conn[c].term = owner
      <4>1. c \notin AgyConns
        BY <2>1, <2>5, <3>2, PresenceAssumption DEF Consistent
      <4>2. Present(conn', lease', owner) \/ Watched(grace', owner)
        BY <2>1, <2>5, <3>2, <4>1
      <4>3. Present(conn', lease', owner) => Present(conn, lease, owner)'
        BY <2>2 DEF Present, HasSocket, LeaseExpired
      <4>4. QED
        BY <2>2, <3>1, <4>2, <4>3, StaysCovered
    <3>3. CASE conn[c].term # owner
      <4>1. HasSocket(conn, owner) => HasSocket(conn', owner)
        BY <2>3, <3>3 DEF HasSocket
      <4>2. owner \in lease => owner \in lease'
        BY <1>2, <2>5, <3>3 DEF RegisterCommit, Checked
      <4>3. Present(conn, lease, owner) => Present(conn, lease, owner)'
        BY <2>2, <4>1, <4>2 DEF Present, HasSocket, LeaseExpired
      <4>4. QED
        BY <2>2, <3>1, <4>3, StaysCovered
    <3>4. QED
      BY <3>2, <3>3
  <2>6. QED
    BY <2>4, <2>5
<1>3. CASE SetOn(c)
  <2>1. owner' = conn[c].term /\ conn' = conn
    BY <1>3 DEF SetOn
  <2>2. Present(conn, lease, owner)'
    BY <2>1 DEF Present, HasSocket
  <2>3. QED
    BY <2>2 DEF NoForgottenOwner
<1>4. CASE SetOff(c)
  <2>1. /\ UNCHANGED <<phase, indexed, closed, leaving, conn, grace>>
        /\ lease' = lease \ {conn[c].term}
        /\ owner' = IF owner = conn[c].term THEN None ELSE owner
    BY <1>4 DEF SetOff
  <2>2. CASE owner = conn[c].term
    BY <2>1, <2>2 DEF NoForgottenOwner
  <2>3. CASE owner # conn[c].term
    <3>1. Present(conn, lease, owner) => Present(conn, lease, owner)'
      BY <2>1, <2>3 DEF Present, HasSocket, LeaseExpired
    <3>2. QED
      BY <2>1, <2>3, <3>1, StaysCovered
  <2>4. QED
    BY <2>2, <2>3
<1>5. CASE SocketClose(c)
  <2>1. /\ conn' = [conn EXCEPT ![c] = NoConn] /\ KeepsWatch(grace, grace', Terminals)
        /\ conn[c].term # None =>
             Present(conn', lease', conn[c].term) \/ Watched(grace', conn[c].term)
    BY <1>5, SocketCloseSound
  <2>2. UNCHANGED <<phase, owner, indexed, closed, leaving>>
    BY <1>5 DEF SocketClose
  <2>3. CASE owner = None
    BY <2>2, <2>3 DEF NoForgottenOwner
  <2>4. CASE owner # None
    <3>1. Watched(grace, owner) => Watched(grace', owner)
      BY <1>a, <2>1, <2>4 DEF KeepsWatch
    <3>2. CASE conn[c].term = owner
      <4>1. Present(conn', lease', owner) => Present(conn, lease, owner)'
        BY <2>2 DEF Present, HasSocket, LeaseExpired
      <4>2. QED
        BY <2>1, <2>2, <2>4, <3>1, <3>2, <4>1, StaysCovered
    <3>3. CASE conn[c].term # owner
      <4>1. HasSocket(conn, owner) => HasSocket(conn', owner)
        BY <2>1, <3>3 DEF HasSocket, TypeOK
      <4>2. owner \in lease => owner \in lease'
        BY <1>5, <3>3 DEF SocketClose, Checked
      <4>3. Present(conn, lease, owner) => Present(conn, lease, owner)'
        BY <2>2, <4>1, <4>2 DEF Present, HasSocket, LeaseExpired
      <4>4. QED
        BY <2>2, <3>1, <4>3, StaysCovered
    <3>4. QED
      BY <3>2, <3>3
  <2>5. QED
    BY <2>3, <2>4
<1>6. QED
  BY <1>0, <1>1, <1>2, <1>3, <1>4, <1>5

LEMMA ClockworkCovers ==
  ASSUME Typed, NoForgottenOwner, Clockwork
  PROVE  NoForgottenOwner'
<1> USE DEF Typed
<1>0. RegistryOK(grace) /\ owner \in Terminals \cup {None}
  BY DEF TypeOK
<1>1. CASE Tick \/ \E k \in Handles : TimerFires(k)
  <2>1. KeepsWatch(grace, grace', Terminals)
    BY <1>0, <1>1, ClockworkSound
  <2>2. UNCHANGED <<phase, owner, indexed, closed, leaving, conn, lease>>
    BY <1>1 DEF Tick, TimerFires
  <2>3. Present(conn, lease, owner) => Present(conn, lease, owner)'
    BY <2>2 DEF Present, HasSocket, LeaseExpired
  <2>4. CASE owner = None
    BY <2>2, <2>4 DEF NoForgottenOwner
  <2>5. CASE owner # None
    BY <1>0, <2>1, <2>2, <2>3, <2>5, StaysCovered DEF KeepsWatch
  <2>6. QED
    BY <2>4, <2>5
<1>2. ASSUME NEW k \in Handles, Callback(k)
      PROVE  NoForgottenOwner'
  <2> DEFINE t == grace.timer[k].term
  <2>1. /\ UNCHANGED <<phase, indexed, closed, leaving, conn>>
        /\ lease' = (IF phase = "stopping" THEN lease ELSE Checked(conn, lease, t))
        /\ owner' = (IF LosesOwnership(t) THEN None ELSE owner)
    BY <1>2 DEF Callback
  <2>2. KeepsWatch(grace, grace', Terminals \ {t})
    BY <1>0, <1>2, DoneSound DEF Callback
  <2>3. CASE owner = None \/ LosesOwnership(t)
    BY <2>1, <2>3 DEF NoForgottenOwner
  <2>4. Present(conn, lease, owner) => Present(conn, lease, owner)'
    <3>1. CASE owner # None /\ ~LosesOwnership(t)
      BY <2>1, <3>1 DEF Present, HasSocket, LeaseExpired, Checked
    <3>2. CASE owner # None /\ LosesOwnership(t)
      BY <3>2 DEF LosesOwnership, LosesAlways, Present, HasSocket
    <3>3. CASE owner = None
      <4>1. owner' = None
        BY <2>1, <3>3
      <4>2. QED
        BY <2>1, <3>3, <4>1 DEF Present, HasSocket, LeaseExpired, Checked
    <3>4. QED
      BY <3>1, <3>2, <3>3
  <2>5. CASE owner # None /\ ~LosesOwnership(t) /\ owner # t
    <3>1. Watched(grace, owner) => Watched(grace', owner)
      BY <1>0, <2>2, <2>5 DEF KeepsWatch
    <3>2. QED
      BY <2>1, <2>4, <2>5, <3>1, StaysCovered
  <2>6. CASE owner # None /\ ~LosesOwnership(t) /\ owner = t
    <3>1. phase = "up" => Present(conn, lease, owner)
      BY <2>6 DEF LosesOwnership, LosesAlways
    <3>2. owner' = owner
      BY <2>1, <2>6
    <3>3. QED
      BY <2>1, <2>4, <3>1, <3>2 DEF NoForgottenOwner
  <2>7. QED
    BY <2>3, <2>5, <2>6
<1>3. QED
  BY <1>1, <1>2 DEF Clockwork

LEMMA IndexCovers ==
  ASSUME Typed, NoForgottenOwner, IndexSteps
  PROVE  NoForgottenOwner'
<1> USE DEF Typed
<1>1. ASSUME NEW t \in Terminals, NEW agent \in Agents, AgentChanges(t, agent)
      PROVE  NoForgottenOwner'
  <2>1. /\ t \notin closed /\ agent \in MayRun[t] /\ indexed' = [indexed EXCEPT ![t] = agent]
        /\ UNCHANGED <<phase, owner, closed, leaving, conn, lease, grace>>
    BY <1>1 DEF AgentChanges
  <2>2. indexed[t] \in MayRun[t] /\ indexed'[t] = agent
        /\ \A u \in Terminals \ {t} : indexed'[u] = indexed[u]
    BY <2>1 DEF TypeOK, Consistent
  <2>3. owner \in Terminals /\ Steady(owner) => (LeaseExpired(owner) <=> LeaseExpired(owner)')
    BY <2>1, <2>2 DEF LeaseExpired, Steady
  <2>4. CASE owner = None
    BY <2>1, <2>4 DEF NoForgottenOwner
  <2>5. CASE owner # None
    <3>1. owner \in Terminals
      BY <2>5 DEF TypeOK
    <3>2. Steady(owner) /\ Present(conn, lease, owner) => Present(conn, lease, owner)'
      BY <2>1, <2>3, <3>1 DEF Present, HasSocket
    <3>3. QED
      BY <2>1, <3>2, StaysCovered
  <2>6. QED
    BY <2>4, <2>5
<1>2. ASSUME NEW t \in Terminals, PaneCloses(t)
      PROVE  NoForgottenOwner'
  <2>1. /\ closed' = closed \cup {t} /\ leaving' = leaving \cup {t}
        /\ indexed' = [indexed EXCEPT ![t] = "none"]
        /\ UNCHANGED <<phase, owner, conn, lease, grace>>
    BY <1>2 DEF PaneCloses
  <2>2. CASE owner = t
    BY <2>1, <2>2 DEF NoForgottenOwner
  <2>3. CASE owner # t
    <3>1. indexed'[owner] = indexed[owner]
      BY <2>1, <2>3 DEF TypeOK
    <3>2. Present(conn, lease, owner) => Present(conn, lease, owner)'
      BY <2>1, <2>3, <3>1 DEF Present, HasSocket, LeaseExpired
    <3>3. QED
      BY <2>1, <3>2, StaysCovered
  <2>4. QED
    BY <2>2, <2>3
<1>3. ASSUME NEW t \in Terminals, CloseReleases(t)
      PROVE  NoForgottenOwner'
  <2>1. /\ leaving' = leaving \ {t} /\ owner' = (IF owner = t THEN None ELSE owner)
        /\ UNCHANGED <<phase, indexed, closed, conn, lease, grace>>
    BY <1>3 DEF CloseReleases
  <2>2. CASE owner = t
    BY <2>1, <2>2 DEF NoForgottenOwner
  <2>3. CASE owner # t
    <3>1. Present(conn, lease, owner) => Present(conn, lease, owner)'
      BY <2>1, <2>3 DEF Present, HasSocket, LeaseExpired
    <3>2. QED
      BY <2>1, <2>3, <3>1, StaysCovered
  <2>4. QED
    BY <2>2, <2>3
<1>4. CASE Refreshed \/ EventOffered
  <2>1. /\ UNCHANGED <<phase, owner, indexed, closed, leaving, conn, grace>>
        /\ lease' = lease \/ lease' = Checked(conn, lease, owner)
    BY <1>4 DEF Refreshed, EventOffered
  <2>2. Present(conn, lease, owner) => Present(conn, lease, owner)'
    BY <2>1 DEF Present, HasSocket, LeaseExpired, Checked
  <2>3. QED
    BY <2>1, <2>2, StaysCovered
<1>5. CASE Relocate
  <2> DEFINE dropped == {t \in lease : IF scan[t] = "none" THEN t \in closed ELSE scan[t] # "agy"}
  <2>1. /\ lease' = lease \ dropped
        /\ owner' = (IF owner \in dropped /\ ~HasSocket(conn, owner) THEN None ELSE owner)
        /\ UNCHANGED <<phase, indexed, closed, leaving, conn, grace>>
    BY <1>5 DEF Relocate
  <2> HIDE DEF dropped
  <2>2. CASE owner \in dropped /\ ~HasSocket(conn, owner)
    BY <2>1, <2>2 DEF NoForgottenOwner
  <2>3. CASE ~(owner \in dropped /\ ~HasSocket(conn, owner))
    <3>1. Present(conn, lease, owner) => Present(conn, lease, owner)'
      BY <2>1, <2>3 DEF Present, HasSocket, LeaseExpired
    <3>2. QED
      BY <2>1, <2>3, <3>1, StaysCovered
  <2>4. QED
    BY <2>2, <2>3
<1>6. QED
  BY <1>1, <1>2, <1>3, <1>4, <1>5 DEF IndexSteps

LEMMA LifecycleCovers ==
  ASSUME Typed, NoForgottenOwner, Lifecycle
  PROVE  NoForgottenOwner'
<1> USE DEF Typed
<1>1. CASE Listen \/ Stop \/ Exit
  BY <1>1 DEF Listen, Stop, Exit, NoForgottenOwner
<1>2. CASE ArmStartupGrace
  <2>1. owner' = owner /\ FreeHandles(grace) # {} /\ RegistryOK(grace)
    BY <1>2 DEF ArmStartupGrace, TypeOK
  <2>2. CASE owner = None
    BY <2>1, <2>2 DEF NoForgottenOwner
  <2>3. CASE owner # None
    <3>1. owner \in Terminals /\ StartupGrace \in 0..MaxGrace /\ "startup" \in Kinds
      BY <2>3, PresenceAssumption DEF TypeOK, MaxGrace, Kinds
    <3>2. grace' = Armed(grace, "startup", owner, StartupGrace)
      BY <1>2, <2>3 DEF ArmStartupGrace
    <3>3. Watched(grace', owner)
      BY <2>1, <3>1, <3>2, ArmedSound
    <3>4. Watched(grace, owner)'
      BY <2>1, <3>3 DEF Watched
    <3>5. QED
      BY <3>4 DEF NoForgottenOwner
  <2>4. QED
    BY <2>2, <2>3
<1>3. QED
  BY <1>1, <1>2 DEF Lifecycle

\* No order of registrations, closes, cancelled or fired timers, scans and lost
\* leases leaves an absent owner without a timer or a pane close that is going
\* to look at it, on any terminal whose pane keeps its agent.
THEOREM AbsentOwnerIsWatched == Spec => []NoForgottenOwner
<1> DEFINE IInv == Typed /\ NoForgottenOwner
<1>1. Init => IInv
  BY InitTyped DEF Init, NoForgottenOwner
<1>2. IInv /\ [Next]_vars => IInv'
  <2>1. ASSUME IInv, UNCHANGED vars
        PROVE  NoForgottenOwner'
    BY <2>1 DEF vars, NoForgottenOwner, Steady, Present, HasSocket, LeaseExpired, Watched
  <2>2. ASSUME IInv, Next
        PROVE  NoForgottenOwner'
    BY <2>2, RequestCovers, ClockworkCovers, IndexCovers, LifecycleCovers DEF Next
  <2>3. QED
    BY <2>1, <2>2, NextTyped
<1>3. IInv => NoForgottenOwner
  OBVIOUS
<1>4. QED
  BY <1>1, <1>2, <1>3, PTL DEF Spec
==============================================================================
