-------------------------- MODULE TerminalPresence --------------------------
(* Which terminal counts as connected, and when the owner of a workspace loses
   its ownership for being away.

   The observability server keeps, under one mutex, the registered sockets of
   every terminal, the Agy leases and two registries of grace timers.  A timer
   that has fired runs its callback on a goroutine of its own, which still has
   to take the mutex: cancelling comes too late for it.  A terminal stands for
   its pane, and one workspace is enough: no rule relates two of them. *)
EXTENDS Integers

CONSTANTS
  Terminals, Conns,
  AgyConns,        \* the connections of Agy hooks; the others are Pi's
  MayRun,          \* terminal -> agents the index may report in it
  MaxTimers,       \* bound: timers not yet dealt with at one time
  Grace,           \* disconnectGraceMs
  StartupGrace,    \* startupReconnectGraceMs
  None

Agents == {"pi", "agy", "other", "none"}
Kinds == {"disconnect", "startup"}
Handles == 1..MaxTimers

ASSUME PresenceAssumption ==
  /\ AgyConns \subseteq Conns /\ None \notin Terminals /\ None \notin Handles
  /\ MayRun \in [Terminals -> SUBSET Agents]
  /\ MaxTimers \in Nat \ {0} /\ Grace \in Nat \ {0} /\ StartupGrace \in Nat \ {0}

VARIABLES
  phase,    \* "down", "listening", "up", "stopping"
  owner,    \* the persisted owner of the workspace
  indexed,  \* terminal -> agent of its row in the index, "none" without a row
            \* (a row always names an agent here)
  closed,   \* terminals whose pane has a tombstone
  leaving,  \* of these, those the index service has yet to release
  conn,     \* connection -> record
  lease,    \* agyPresenceByTerminal
  grace,    \* the timers and the two registries of them
  scan      \* the agents of a refresh on their way to the server, or None

vars == <<phase, owner, indexed, closed, leaving, conn, lease, grace, scan>>

Conn == [open : BOOLEAN, term : Terminals \cup {None}, want : Terminals \cup {None}]
NoConn == [open |-> FALSE, term |-> None, want |-> None]

MaxGrace == IF Grace > StartupGrace THEN Grace ELSE StartupGrace
Timer == [state : {"free", "armed", "fired"}, kind : Kinds,
          term : Terminals \cup {None}, left : 0..MaxGrace]
FreeTimer == [state |-> "free", kind |-> "disconnect", term |-> None, left |-> 0]
NoGrace == [timer |-> [k \in Handles |-> FreeTimer],
            entry |-> [kind \in Kinds |-> [t \in Terminals |-> None]]]

Serving == phase \in {"listening", "up"}

Init ==
  /\ phase = "down" /\ owner \in Terminals \cup {None}
  /\ indexed \in [Terminals -> Agents]
  /\ \A t \in Terminals : indexed[t] \in MayRun[t]
  /\ closed = {} /\ leaving = {} /\ lease = {} /\ scan = None
  /\ conn = [c \in Conns |-> NoConn] /\ grace = NoGrace

----------------------------------------------------------------------------
(* Presence.  cs, ls and g are connections, leases and timers in the middle of
   a handler. *)

HasSocket(cs, t) == \E c \in Conns : cs[c].term = t

LeaseExpired(t) == indexed[t] \notin {"agy", "none"} \/ t \in closed

\* hasTerminalPresence, and what it leaves of the leases.
Present(cs, ls, t) == HasSocket(cs, t) \/ (t \in ls /\ ~LeaseExpired(t))
Checked(cs, ls, t) == IF HasSocket(cs, t) \/ ~LeaseExpired(t) THEN ls ELSE ls \ {t}

IsPiTerminal(cs, t) ==
  indexed[t] = "pi" \/ \E c \in Conns \ AgyConns : cs[c].term = t

FreeHandles(g) == {k \in Handles : g.timer[k].state = "free"}
NextHandle(g) == CHOOSE k \in FreeHandles(g) : TRUE

Armed(g, kind, t, ticks) ==
  LET k == NextHandle(g)
  IN  [timer |-> [g.timer EXCEPT ![k] = [state |-> "armed", kind |-> kind,
                                         term |-> t, left |-> ticks]],
       entry |-> [g.entry EXCEPT ![kind][t] = k]]

\* cancelGraceForTerminal: a timer that has fired cannot be stopped any more.
Stopped(timer) == IF timer.state = "armed" THEN FreeTimer ELSE timer
Registered(g, t) == {g.entry[kind][t] : kind \in Kinds}
StoppedTimers(g, ks) ==
  [k \in Handles |-> IF k \in ks THEN Stopped(g.timer[k]) ELSE g.timer[k]]
\* Mutant: the stopped timers stay registered.
StoppedOnly(g, t) == [g EXCEPT !.timer = StoppedTimers(g, Registered(g, t))]
Cancelled(g, t) ==
  [timer |-> StoppedTimers(g, Registered(g, t)),
   entry |-> [kind \in Kinds |-> [g.entry[kind] EXCEPT ![t] = None]]]

\* scheduleDisconnect
Disconnecting(g, cs, ls, t) ==
  IF Present(cs, ls, t) \/ g.entry["disconnect"][t] # None THEN g
  ELSE Armed(g, "disconnect", t, Grace)

----------------------------------------------------------------------------
(* Connections.  The handlers of one connection run one after the other; the
   resolution of a registration asks Herdr with the mutex released. *)

Connect(c) ==
  /\ Serving /\ conn[c] = NoConn
  /\ conn' = [conn EXCEPT ![c].open = TRUE]
  /\ UNCHANGED <<phase, owner, indexed, closed, leaving, lease, grace, scan>>

\* An Agy client registers once per connection (bound).
RegisterBegin(c, t) ==
  /\ conn[c].open /\ conn[c].want = None
  /\ c \in AgyConns => conn[c].term = None
  /\ t \notin closed
  /\ conn' = [conn EXCEPT ![c].want = t]
  /\ UNCHANGED <<phase, owner, indexed, closed, leaving, lease, grace, scan>>

RegisterFails(c) ==
  /\ conn[c].want # None
  /\ conn' = [conn EXCEPT ![c].want = None]
  /\ UNCHANGED <<phase, owner, indexed, closed, leaving, lease, grace, scan>>

RegisterCommit(c) ==
  LET t == conn[c].want
      previous == conn[c].term
      cs == [conn EXCEPT ![c].term = t, ![c].want = None]
      isAgy == c \in AgyConns
      leased == isAgy /\ owner = t /\ ~IsPiTerminal(cs, t)
      ls == IF ~isAgy THEN lease \ {t} ELSE IF leased THEN lease \cup {t} ELSE lease
      g == IF isAgy /\ ~leased THEN grace ELSE Cancelled(grace, t)
      left == ~isAgy /\ previous \notin {None, t}
  IN  /\ t # None /\ FreeHandles(grace) # {}
      /\ conn' = cs
      /\ lease' = IF left THEN Checked(cs, ls, previous) ELSE ls
      /\ grace' = IF left THEN Disconnecting(g, cs, ls, previous) ELSE g
      /\ UNCHANGED <<phase, owner, indexed, closed, leaving, scan>>

\* set enabled=true; a refused claim changes nothing.
SetOn(c) ==
  LET t == conn[c].term
      ls == IF owner = None THEN lease ELSE Checked(conn, lease, owner)
      leased == c \in AgyConns /\ ~IsPiTerminal(conn, t)
  IN  /\ t # None /\ conn[c].want = None
      /\ owner \in {None, t} \/ ~Present(conn, lease, owner)
      /\ owner' = t
      /\ lease' = IF leased THEN ls \cup {t} ELSE ls
      /\ grace' = IF leased THEN Cancelled(grace, t) ELSE grace
      /\ UNCHANGED <<phase, indexed, closed, leaving, conn, scan>>

SetOff(c) ==
  LET t == conn[c].term
  IN  /\ t # None /\ conn[c].want = None
      /\ owner' = IF owner = t THEN None ELSE owner
      /\ lease' = lease \ {t}
      /\ UNCHANGED <<phase, indexed, closed, leaving, conn, grace, scan>>

\* handleSocketClose: the peer went away, or the heartbeat scan cut it off.
SocketClose(c) ==
  LET t == conn[c].term
      cs == [conn EXCEPT ![c] = NoConn]
  IN  /\ conn[c].open /\ conn[c].want = None /\ FreeHandles(grace) # {}
      /\ conn' = cs
      /\ lease' = IF t = None THEN lease ELSE Checked(cs, lease, t)
      /\ grace' = IF t = None THEN grace ELSE Disconnecting(grace, cs, lease, t)
      /\ UNCHANGED <<phase, owner, indexed, closed, leaving, scan>>

----------------------------------------------------------------------------
(* Timers *)

Tick ==
  LET running == {k \in Handles : grace.timer[k].state = "armed" /\ grace.timer[k].left > 0}
  IN  /\ running # {}
      /\ grace' = [grace EXCEPT !.timer =
                     [k \in Handles |-> IF k \in running
                                        THEN [grace.timer[k] EXCEPT !.left = @ - 1]
                                        ELSE grace.timer[k]]]
      /\ UNCHANGED <<phase, owner, indexed, closed, leaving, conn, lease, scan>>

TimerFires(k) ==
  /\ grace.timer[k].state = "armed" /\ grace.timer[k].left = 0
  /\ grace' = [grace EXCEPT !.timer[k].state = "fired"]
  /\ UNCHANGED <<phase, owner, indexed, closed, leaving, conn, lease, scan>>

\* Mutant: the callback leaves the registry alone.
Spent(g, k) == [g EXCEPT !.timer[k] = FreeTimer]
\* The callback forgets the entry of its key, whichever timer that names.
Done(g, k) ==
  [timer |-> [g.timer EXCEPT ![k] = FreeTimer],
   entry |-> [g.entry EXCEPT ![g.timer[k].kind][g.timer[k].term] = None]]

\* Mutant: the callback does not look at the terminal again.
LosesAlways(t) == phase # "stopping" /\ owner = t
LosesOwnership(t) == LosesAlways(t) /\ ~Present(conn, lease, t)

Callback(k) ==
  LET t == grace.timer[k].term
  IN  /\ grace.timer[k].state = "fired"
      /\ grace' = Done(grace, k)
      /\ lease' = IF phase = "stopping" THEN lease ELSE Checked(conn, lease, t)
      /\ owner' = IF LosesOwnership(t) THEN None ELSE owner
      /\ UNCHANGED <<phase, indexed, closed, leaving, conn, scan>>

----------------------------------------------------------------------------
(* The index and the panes *)

AgentChanges(t, agent) ==
  /\ t \notin closed /\ agent \in MayRun[t] \ {indexed[t]}
  /\ indexed' = [indexed EXCEPT ![t] = agent]
  /\ UNCHANGED <<phase, owner, closed, leaving, conn, lease, grace, scan>>

\* handlePaneClosed retires the pane first and releases its ownership later.
PaneCloses(t) ==
  /\ phase = "up" /\ t \notin closed
  /\ closed' = closed \cup {t} /\ leaving' = leaving \cup {t}
  /\ indexed' = [indexed EXCEPT ![t] = "none"]
  /\ UNCHANGED <<phase, owner, conn, lease, grace, scan>>

CloseReleases(t) ==
  /\ t \in leaving
  /\ leaving' = leaving \ {t}
  /\ owner' = IF owner = t THEN None ELSE owner
  /\ UNCHANGED <<phase, indexed, closed, conn, lease, grace, scan>>

\* A refresh hands the agents it found to the server.
Refreshed ==
  /\ phase = "up" /\ scan = None
  /\ scan' = indexed
  /\ UNCHANGED <<phase, owner, indexed, closed, leaving, conn, lease, grace>>

\* reconcileAgentLocations drops the leases of panes that closed or run
\* another agent, with the ownership of terminals that have nothing else.
Relocate ==
  LET dropped == {t \in lease : IF scan[t] = "none" THEN t \in closed ELSE scan[t] # "agy"}
  IN  /\ scan # None
      /\ lease' = lease \ dropped
      /\ owner' = IF owner \in dropped /\ ~HasSocket(conn, owner) THEN None ELSE owner
      /\ scan' = None
      /\ UNCHANGED <<phase, indexed, closed, leaving, conn, grace>>

\* An event of an ownerless workspace is offered to the one owner of the
\* session that is connected: singleActiveSessionOwner looks at this owner.
EventOffered ==
  /\ phase # "down" /\ owner # None
  /\ lease' = Checked(conn, lease, owner)
  /\ UNCHANGED <<phase, owner, indexed, closed, leaving, conn, grace, scan>>

----------------------------------------------------------------------------
(* The server's life *)

Listen ==
  /\ phase = "down"
  /\ phase' = "listening"
  /\ UNCHANGED <<owner, indexed, closed, leaving, conn, lease, grace, scan>>

\* armStartupGrace runs after the socket accepts connections.
ArmStartupGrace ==
  /\ phase = "listening" /\ FreeHandles(grace) # {}
  /\ phase' = "up"
  /\ lease' = IF owner # None /\ indexed[owner] = "agy" THEN lease \cup {owner} ELSE lease
  /\ grace' = IF owner = None THEN grace ELSE Armed(grace, "startup", owner, StartupGrace)
  /\ UNCHANGED <<owner, indexed, closed, leaving, conn, scan>>

\* Stop drops everything; a registration being resolved completes later.
Stop ==
  /\ phase = "up"
  /\ phase' = "stopping"
  /\ conn' = [c \in Conns |-> [NoConn EXCEPT !.want = conn[c].want]]
  /\ lease' = {}
  /\ grace' = [NoGrace EXCEPT !.timer = StoppedTimers(grace,
                  UNION {Registered(grace, t) : t \in Terminals})]
  /\ UNCHANGED <<owner, indexed, closed, leaving, scan>>

Exit ==
  /\ phase # "down"
  /\ phase' = "down" /\ conn' = [c \in Conns |-> NoConn]
  /\ lease' = {} /\ grace' = NoGrace /\ scan' = None /\ leaving' = {}
  /\ UNCHANGED <<owner, indexed, closed>>

Requests ==
  \E c \in Conns :
    \/ Connect(c) \/ RegisterFails(c) \/ RegisterCommit(c)
    \/ SetOn(c) \/ SetOff(c) \/ SocketClose(c)
    \/ \E t \in Terminals : RegisterBegin(c, t)

Clockwork == Tick \/ \E k \in Handles : TimerFires(k) \/ Callback(k)

IndexSteps ==
  \/ Refreshed \/ Relocate \/ EventOffered
  \/ \E t \in Terminals :
       PaneCloses(t) \/ CloseReleases(t) \/ \E agent \in Agents : AgentChanges(t, agent)

Lifecycle == Listen \/ ArmStartupGrace \/ Stop \/ Exit

Next == Requests \/ Clockwork \/ IndexSteps \/ Lifecycle

Spec == Init /\ [][Next]_vars

(* Time passes, fired callbacks run, the index service finishes a close and the
   watch manager refreshes again and again.  The daemon that was started comes
   up: only the bound MaxTimers can hold ArmStartupGrace back, hence SF.  Nobody
   stops the daemon, and no client has to do anything. *)
Fairness ==
  /\ WF_vars(Tick) /\ WF_vars(Refreshed) /\ WF_vars(Relocate)
  /\ \A k \in Handles : WF_vars(TimerFires(k) \/ Callback(k))
  /\ \A t \in Terminals : WF_vars(CloseReleases(t))
  /\ WF_vars(Listen) /\ SF_vars(ArmStartupGrace)

Running == Requests \/ Clockwork \/ IndexSteps \/ Listen \/ ArmStartupGrace
FairSpec == Init /\ [][Running]_vars /\ Fairness

----------------------------------------------------------------------------
(* Properties *)

RegistryOK(g) ==
  /\ g \in [timer : [Handles -> Timer],
            entry : [Kinds -> [Terminals -> Handles \cup {None}]]]
  /\ \A kind \in Kinds, t \in Terminals :
       LET k == g.entry[kind][t] IN
       k # None => /\ g.timer[k].state # "free"
                   /\ g.timer[k].kind = kind /\ g.timer[k].term = t

\* Every variable stays in its domain, and a registry entry names a timer of
\* its own key that is not free, also after stale callbacks and cancellations.
TypeOK ==
  /\ phase \in {"down", "listening", "up", "stopping"}
  /\ owner \in Terminals \cup {None}
  /\ indexed \in [Terminals -> Agents]
  /\ closed \subseteq Terminals /\ leaving \subseteq closed
  /\ conn \in [Conns -> Conn] /\ lease \subseteq Terminals
  /\ RegistryOK(grace)
  /\ scan = None \/ scan \in [Terminals -> Agents]

\* No change of agent makes or ends an Agy lease of the terminal.
Steady(t) == MayRun[t] \subseteq {"agy", "none"} \/ MayRun[t] \cap {"agy", "none"} = {}

Watched(g, t) == \E k \in Handles : g.timer[k].state # "free" /\ g.timer[k].term = t

\* Once the server is up, an owner that is not present has a timer that will
\* look at it, or a pane close about to release it: no order of closes,
\* reconnections, cancelled and already fired timers, expired leases and scans
\* forgets it.  A terminal whose agent changes is left out: see AbsenceEnds.
NoForgottenOwner ==
  phase = "up" /\ owner # None /\ ~Present(conn, lease, owner) =>
    owner \in leaving \/ ~Steady(owner) \/ Watched(grace, owner)

\* An owner with a registered socket loses its ownership only to its own
\* request or to the close of its pane: neither a stale timer, nor a scan, nor
\* another terminal's claim takes it away.
ConnectedOwnerKept ==
  [][owner # None /\ HasSocket(conn, owner) /\ owner' # owner
     => \/ owner \in leaving /\ leaving' # leaving
        \/ \E c \in Conns : conn[c].term = owner /\ SetOff(c)]_vars

\* Ownership "clears when that terminal remains disconnected beyond the grace
\* period" (README): an owner with neither a socket nor a lease in force is
\* released, or comes back.  It is not, when EventOffered is the first to see
\* that another agent took over its pane: the lease is gone then, and neither
\* Relocate nor a timer looks at the owner again.
Absent(t) == owner = t /\ ~Present(conn, lease, t)
AbsenceEnds == \A t \in Terminals : Absent(t) ~> ~Absent(t)

=============================================================================
