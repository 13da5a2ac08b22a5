------------------------------ MODULE AgyHook ------------------------------
(* How the answers of other agents reach an agent of kind agy.

   agy runs a command at the start of every invocation (PreInvocation) and at
   the end of every turn (Stop).  Each reads a state file of the session, talks
   to the daemon, may hand a batch of events to the host and writes the file
   back; a Stop also leaves a process behind, the WakeWaiter, that polls and
   prompts the idle agent when something is there.  A restarting daemon starts
   a new waiter for a session that is parked (RearmAgyWaiters).  Nothing locks
   the file: every process reads it whole, works on its copy and replaces it.

   One session.  A prompt is a flag, a transcript the set of events it shows;
   deadlines, drafts and failures are choices that spend `faults`. *)
EXTENDS Integers, FiniteSets

CONSTANTS
  MaxEvent,     \* bound: events of other agents
  Terminals,    \* their terminals
  MaxPid,       \* bound: waiters at a time
  MaxTurns,     \* bound: invocations nobody prompted
  MaxFaults,    \* bound: failures, drops, aborts, moves
  MaxAttempts,  \* maxWakePromptAttempts
  KeepLimit,    \* retainedCandidateEventLimit
  Kinds,        \* kinds of events
  Owners,       \* owners of the workspace at first
  Transcripts   \* whether the transcript can be read

Events == 1..MaxEvent
Pids == 1..MaxPid
NoPid == 0
Hook == 0
Daemon == MaxPid + 1
Actors == Pids \cup {Hook, Daemon}

ASSUME AgyAssumption ==
  /\ MaxEvent \in Nat /\ MaxPid \in Nat \ {0} /\ MaxTurns \in Nat /\ MaxFaults \in Nat
  /\ MaxAttempts \in Nat \ {0} /\ KeepLimit \in Nat \ {0}
  /\ Kinds \subseteq {"completed", "empty", "failed", "fallback", "noise"}
  /\ Owners \subseteq {"self", "other", "none"} /\ Transcripts \subseteq BOOLEAN

VARIABLES
  file,     \* SessionHookState on disk
  hook,     \* the PreInvocation or Stop that runs
  wait,     \* the WakeWaiters
  rearm,    \* RearmAgyWaiters
  host,     \* the agent: "idle", "busy", "again" (told to continue)
  prompt,   \* a wake prompt the host has not begun
  told,     \* the events its transcript shows
  row,      \* agent_events of the scope
  cursor,   \* the acknowledged event id
  owner,    \* who owns the workspace
  working,  \* terminals agent.list shows as working
  live,     \* terminals agent.list shows
  turns, faults,
  severed,  \* actors whose connection to the daemon is dead
  stale,    \* actors whose copy of the file is no longer the file
  hist      \* for the properties: was a write or a row `lost`, is the parked agent
            \* `deserted`, without a waiter, has one turn had `twins`, two waiters

daemonVars == <<row, cursor, owner, working, live>>
hostVars == <<host, prompt, told, turns>>
vars == <<file, hook, wait, rearm, hostVars, daemonVars, faults, severed, stale, hist>>

NoConn == [at |-> 0, list |-> {}, owner |-> "none"]
NoFile == [epoch |-> 0, wepoch |-> 0, pid |-> NoPid, awaiting |-> FALSE,
           claimed |-> FALSE, presented |-> {}, delivered |-> {}, pending |-> {},
           deferred |-> {}, kept |-> {}]
NoHook == [pc |-> "none", ev |-> "pre", mem |-> NoFile, conn |-> NoConn,
           held |-> {}, again |-> FALSE, batch |-> {}]
NoLook == [any |-> FALSE, outs |-> FALSE, elig |-> {}, pres |-> {},
           deferred |-> {}, held |-> {}]
NoWaiter == [pc |-> "off", epoch |-> 0, mem |-> NoFile, conn |-> NoConn,
             first |-> TRUE, check |-> TRUE, push |-> FALSE, retry |-> FALSE,
             grace |-> FALSE, owed |-> FALSE, targets |-> {}, verify |-> FALSE,
             look |-> NoLook, tries |-> 0, errors |-> 0]
NoRearm == [pc |-> "none", epoch |-> 0, was |-> NoPid, pid |-> NoPid, mem |-> NoFile]

Init ==
  /\ file = NoFile /\ hook = NoHook /\ rearm = NoRearm
  /\ wait = [p \in Pids |-> NoWaiter]
  /\ host = "idle" /\ prompt = FALSE /\ told = {} /\ turns = 0
  /\ row = [e \in Events |->
              [st |-> "none", kind |-> "noise", term |-> CHOOSE t \in Terminals : TRUE]]
  /\ cursor = 0 /\ owner \in Owners /\ working = {} /\ live = Terminals
  /\ faults = 0 /\ severed = {} /\ stale = {}
  /\ hist = [lost |-> FALSE, deserted |-> FALSE, twins |-> FALSE]

Fault == faults < MaxFaults /\ faults' = faults + 1
NoFault == UNCHANGED faults
\* A call of p fails; on a dead connection every call does.
Fails(p) == IF p \in severed THEN NoFault ELSE Fault
Lowest(n, S) == {e \in S : Cardinality({f \in S : f < e}) < n}

----------------------------------------------------------------------------
(* The file *)

Holds(p) ==
  IF p = Hook THEN hook.pc # "none"
  ELSE IF p = Daemon THEN rearm.pc \in {"clear", "record"}
  ELSE wait[p].pc \in {"commitW", "rearmW", "staleW", "doneW", "byeW"}

Load(p) == stale' = stale \ {p}
\* writeSessionState: the file becomes p's copy, whatever it held.
Save(p, s) ==
  /\ file' = s
  /\ stale' = (IF s = file THEN stale ELSE stale \cup {q \in Actors : Holds(q)}) \ {p}
Clobbers(p) == p \in stale
Keeps == UNCHANGED <<file, stale>>

----------------------------------------------------------------------------
(* What a batch is made of *)

Listed == {e \in Events : e > cursor /\ row[e].st \in {"pending", "delivered"}}
Conn == [at |-> cursor, list |-> IF owner = "self" THEN Listed ELSE {}, owner |-> owner]
\* A row that is handed out is delivered.
GivesRows == row' = [e \in Events |-> IF e \in Conn.list THEN [row[e] EXCEPT !.st = "delivered"]
                                      ELSE row[e]]

IsCompletion(e) == row[e].kind \in {"completed", "empty"}
SamePane(e, f) == row[e].term = row[f].term
\* projectAgyOutcomes
Projection(C, busy) ==
  LET deferred == {e \in C : IsCompletion(e) /\ row[e].term \in busy}
      older == {e \in C : /\ IsCompletion(e)
                          /\ \E f \in C : /\ f > e /\ SamePane(e, f)
                                          /\ row[f].kind = "completed"}
      shadowed == {e \in C : /\ row[e].kind = "fallback"
                             /\ \E f \in C : IsCompletion(f) /\ SamePane(e, f)}
      mute == {e \in C : row[e].kind \in {"noise", "empty"}}
      suppressed == (older \cup shadowed \cup mute) \ deferred
  IN  [deferred |-> deferred, suppressed |-> suppressed,
       outcomes |-> C \ (deferred \cup suppressed)]

Known(s, c) == {e \in s.kept \cup c.list : e > c.at}
\* ok: agent.list has answered.
Eligible(s, c, ok) ==
  {e \in Known(s, c) : ~ok \/ e \in c.list \/ row[e].term \in live}
Unacked(s, c) == {e \in s.presented : e > c.at}
Kept(elig, pres, del) == Lowest(KeepLimit, {e \in elig : e \notin pres \/ e \in del})
ProjectionOf(cand, ok) == Projection(cand, IF ok THEN working \cap live ELSE {})

\* What the daemon answers to an ack of e.
Answer(e) ==
  IF row[e].st = "gone" THEN "gone"
  ELSE IF \E n \in Lowest(1, Listed) : n < e /\ row[n].st = "pending" THEN "order"
  ELSE "ok"
AckedTo(S) ==
  LET ok == {e \in S : Answer(e) = "ok" /\ e > cursor}
  IN  IF ok = {} THEN cursor ELSE CHOOSE e \in ok : \A f \in ok : f <= e

\* The acks of a look that found no outcome: `cut` is the one that fails.
Settling(sup, hold, cut) ==
  LET sent == {e \in sup : \A h \in hold : e <= h}
      failing == {e \in sent : Answer(e) = "order" \/ e = cut}
      done == {e \in sent : \A f \in failing : e < f}
  IN  [done |-> done, held |-> IF failing = {} THEN sup \ sent ELSE {}]
\* A cut is possible only where an ack is sent.  One who is no longer the owner has
\* his first ack refused (AckNotOwner), which the hook takes for a failed call; on a
\* dead connection the first ack fails, and agent.list.
Cuts(p, S) ==
  IF S = {} \/ (owner = "self" /\ p \notin severed)
  THEN {0} \cup (IF faults < MaxFaults THEN S ELSE {})
  ELSE Lowest(1, S)
Cost(p, cut) == IF cut = 0 \/ owner # "self" \/ p \in severed THEN 0 ELSE 1
Spent(p, cost, ok) ==
  LET n == cost + (IF ok \/ p \in severed THEN 0 ELSE 1)
  IN  (p \in severed => ~ok) /\ faults + n <= MaxFaults /\ faults' = faults + n

----------------------------------------------------------------------------
(* The daemon and the other agents *)

PeersActive == working \cap live # {}
Pushed == [p \in Pids |-> IF wait[p].pc = "off" \/ p \in severed THEN wait[p]
                          ELSE [wait[p] EXCEPT !.push = TRUE]]

\* The next event of terminal t, which agent.list may still show as working.
Publish(k, t, busy) ==
  \E e \in Events :
    /\ row[e].st = "none" /\ \A f \in Events : f < e => row[f].st # "none"
    /\ t \in live
    /\ row' = [row EXCEPT ![e] = [st |-> "pending", kind |-> k, term |-> t]]
    /\ working' = IF busy THEN working \cup {t} ELSE working
    /\ wait' = Pushed
    /\ UNCHANGED <<file, hook, rearm, hostVars, cursor, owner, live, faults, stale, hist>>

PeerIdle(t) ==
  /\ t \in working /\ working' = working \ {t}
  /\ UNCHANGED <<file, hook, wait, rearm, hostVars, row, cursor, owner, live, faults,
                 stale, hist>>

\* No look takes or waits 300 s, the time a delivered row stays in the list, nor
\* does a restart: a row leaves the list between two looks, or when all who look
\* have it in their copies.
Remembered(e) ==
  LET due(w) == w.pc = "top" /\ (w.check \/ w.push \/ w.retry \/ ~PeersActive)
      looks == {p \in Pids : wait[p].pc = "look" \/ due(wait[p]) \/ wait[p].conn.owner = "self"}
      copies == {wait[p].mem : p \in looks}
                \cup IF hook.pc # "none" \/ prompt \/ host = "again" THEN {hook.mem} ELSE {}
  IN  rearm.pc = "none" /\ \A s \in copies : e \in s.kept \cap file.kept

\* A delivered row is listed for 300 s, and lost if nobody has recorded it by then;
\* it is reclaimed, or withdrawn, and only a row that was delivered can still be
\* acknowledged then ("void").
RowMoves(e) ==
  /\ e > cursor
  /\ \/ /\ row[e].st = "delivered" /\ Remembered(e) /\ NoFault
        /\ row' = [row EXCEPT ![e].st = "aged"]
        /\ hist' = [hist EXCEPT !.lost = @ \/ e \notin file.kept]
     \/ /\ row[e].st = "delivered" /\ Fault /\ UNCHANGED hist
        /\ \E st \in {"pending", "void", "gone"} : row' = [row EXCEPT ![e].st = st]
     \/ row[e].st = "pending" /\ Fault /\ row' = [row EXCEPT ![e].st = "gone"] /\ UNCHANGED hist
  /\ UNCHANGED <<file, hook, wait, rearm, hostVars, cursor, owner, working, live, stale>>

\* Its pane is closed: what was delivered is settled, what was not is kept.
PeerLeaves(t) ==
  /\ t \in live /\ Fault
  /\ live' = live \ {t} /\ working' = working \ {t}
  /\ row' = [e \in Events |-> IF row[e].term = t /\ row[e].st = "delivered"
                             THEN [row[e] EXCEPT !.st = "void"] ELSE row[e]]
  /\ UNCHANGED <<file, hook, wait, rearm, hostVars, cursor, owner, stale, hist>>

OwnerMoves ==
  /\ owner # "other" /\ owner' = "other" /\ Fault /\ wait' = Pushed
  /\ UNCHANGED <<file, hook, rearm, hostVars, row, cursor, working, live, stale, hist>>

----------------------------------------------------------------------------
(* PreInvocation and Stop.  What a hook computes and writes between two calls of
   the daemon is one step; its first read and the write that follows, and the
   two writes around the spawn of the waiter, are steps of their own. *)

HookTo(pc, mem) == hook' = [hook EXCEPT !.pc = pc, !.mem = mem]
Rests == UNCHANGED <<wait, rearm>>
HookSaves(s) ==
  /\ Save(Hook, s) /\ hist' = [hist EXCEPT !.lost = @ \/ Clobbers(Hook)]

\* The start of runPreInvocation.
PreBegins(first) ==
  LET new == file.awaiting \/ file.pid # NoPid \/ file.epoch = 0 \/ first
      mem == IF new THEN [file EXCEPT !.epoch = @ + 1, !.awaiting = FALSE, !.pid = NoPid,
                                      !.wepoch = 0]
             ELSE file
  IN  /\ hook' = [NoHook EXCEPT !.pc = IF new THEN "preW" ELSE "reg", !.mem = mem]
      /\ Load(Hook)

TurnBegins ==
  /\ hook.pc = "none"
  /\ \/ /\ host = "again" /\ UNCHANGED <<prompt, turns>> /\ PreBegins(FALSE)
     \/ /\ host = "idle" /\ prompt /\ prompt' = FALSE /\ UNCHANGED turns /\ PreBegins(TRUE)
     \/ /\ host = "idle" /\ turns < MaxTurns /\ turns' = turns + 1
        /\ UNCHANGED prompt /\ PreBegins(TRUE)
     \/ /\ host = "busy" /\ turns < MaxTurns /\ turns' = turns + 1
        /\ UNCHANGED prompt /\ PreBegins(FALSE)
  /\ host' = "busy"
  /\ Rests /\ UNCHANGED <<file, told, daemonVars, faults, hist>>

PreWrites ==
  /\ hook.pc = "preW" /\ HookSaves(hook.mem) /\ HookTo("reg", hook.mem)
  /\ Rests /\ UNCHANGED <<hostVars, daemonVars, faults>>

\* runStop of an answered turn.
TurnEnds ==
  /\ host = "busy" /\ hook.pc = "none"
  /\ hook' = [NoHook EXCEPT !.pc = "reg", !.ev = "stop"]
  /\ Rests /\ Keeps /\ UNCHANGED <<hostVars, daemonVars, faults, hist>>

HookEnds == hook' = NoHook /\ host' = IF hook.ev = "pre" THEN host ELSE "idle"

\* registerAgyPresence; Stop then reports the end of the turn and reads the file.
Registers ==
  LET mem == IF hook.ev = "pre" THEN hook.mem ELSE [file EXCEPT !.awaiting = TRUE]
  IN  /\ hook.pc = "reg"
      /\ \/ /\ hook' = [hook EXCEPT !.pc = IF mem.claimed THEN "owner" ELSE "claim",
                                    !.conn = Conn, !.mem = mem]
            /\ GivesRows /\ NoFault /\ UNCHANGED <<host, hist>>
            /\ IF hook.ev = "pre" THEN UNCHANGED stale ELSE Load(Hook)
         \/ /\ HookEnds /\ Fault /\ UNCHANGED row /\ Load(Hook)
            /\ hist' = [hist EXCEPT !.deserted = @ \/ hook.ev = "stop"]
      /\ Rests /\ UNCHANGED <<file, prompt, told, turns, cursor, owner, working, live>>

\* autoClaimIfNeeded
Claims ==
  LET mem == [hook.mem EXCEPT !.claimed = TRUE]
      asks == hook.conn.owner = "none" /\ owner = "none" /\ Hook \notin severed
  IN  /\ hook.pc = "claim" /\ HookSaves(mem)
      /\ owner' = IF asks THEN "self" ELSE owner
      /\ hook' = [hook EXCEPT !.pc = "owner", !.mem = mem,
                              !.conn = IF asks THEN [Conn EXCEPT !.owner = "self"] ELSE @]
      /\ Rests /\ UNCHANGED <<hostVars, row, cursor, working, live, faults>>

\* Not the owner: what PreInvocation held for the agent is dropped.
NotOwner ==
  /\ hook.pc = "owner" /\ hook.conn.owner # "self"
  /\ HookSaves(IF hook.ev = "stop" THEN hook.mem
               ELSE [hook.mem EXCEPT !.delivered = {}, !.pending = {}, !.deferred = {},
                                     !.kept = {}])
  /\ HookEnds
  /\ Rests /\ UNCHANGED <<prompt, told, turns, daemonVars, faults>>

UnconfirmedNone(s, readable) == {}
\* What a transcript that can be read does not show.
Unconfirmed(s, readable) == {e \in s.delivered : readable /\ e \notin told}

\* resolveMinHoldbackEventID: what is still to be handed out.
HoldingBack(s, c, ok) ==
  LET proj == ProjectionOf(Eligible(s, c, ok) \ Unacked(s, c), ok)
  IN  proj.deferred \cup proj.outcomes

\* flushDeliveredAcks: what the transcript confirms is acknowledged, in order and
\* below everything that still waits.
FlushNothing ==
  LET s == hook.mem IN
  /\ hook.pc = "owner" /\ hook.ev = "stop" /\ hook.conn.owner = "self"
  /\ s.pending \cup s.delivered = {}
  /\ IF s.deferred = {} THEN HookTo("take", s) /\ Keeps /\ UNCHANGED hist
     ELSE HookTo("take", [s EXCEPT !.deferred = {}]) /\ HookSaves([s EXCEPT !.deferred = {}])
  /\ Rests /\ UNCHANGED <<hostVars, daemonVars, faults>>

Flush ==
  LET s == hook.mem
      c == hook.conn
      all == s.pending \cup s.delivered
  IN  /\ hook.pc = "owner" /\ hook.ev = "stop" /\ c.owner = "self" /\ all # {}
      /\ \E readable \in Transcripts, ok \in BOOLEAN :
         LET unseen == Unconfirmed(s, readable)
             floor == HoldingBack(s, c, ok) \cup unseen
             sent == {e \in all \ unseen : \A h \in floor : e < h}
         IN  \E cut \in Cuts(Hook, sent) :
             LET before(S) == {e \in S : cut = 0 \/ e < cut}
                 rest == {e \in all : cut # 0 /\ e >= cut}
                 late == {e \in before(sent) : Answer(e) = "order"}
                 high == before(all \ (sent \cup unseen))
                 acked == \E e \in before(sent) : Answer(e) = "ok"
                 mem == [s EXCEPT
                   !.presented = @ \cup before(sent) \cup high \cup (rest \ s.delivered),
                   !.delivered = before(unseen) \cup (rest \cap @),
                   !.pending = high \cup late \cup (rest \ s.delivered)]
             IN  /\ Spent(Hook, Cost(Hook, cut), ok)
                 /\ cursor' = AckedTo(before(sent))
                 /\ HookSaves(mem)
                 /\ hook' = [hook EXCEPT !.pc = "take", !.held = before(unseen), !.mem = mem,
                                         !.again = acked]
      /\ Rests /\ UNCHANGED <<hostVars, row, owner, working, live>>

\* The list after an ack; the call may fail, and the old list does.
Refetch ==
  /\ hook.pc = "take" /\ hook.again
  /\ \/ /\ hook' = [hook EXCEPT !.again = FALSE, !.conn = Conn] /\ GivesRows
        /\ Hook \notin severed /\ NoFault
     \/ hook' = [hook EXCEPT !.again = FALSE] /\ UNCHANGED row /\ Fails(Hook)
  /\ Rests /\ Keeps /\ UNCHANGED <<hostVars, cursor, owner, working, live, hist>>

\* dropStaleDelivered
StaleDropped(s, elig, spared) == s.delivered \cap (elig \cup spared)

\* takeNextWakeBatch: its three ends, as the state it leaves and the batch.
TakeNone(s, c, ok) ==
  LET elig == Eligible(s, c, ok)
      pres == Unacked(s, c)
  IN  [s EXCEPT !.presented = pres, !.deferred = {},
                !.delivered = StaleDropped(s, elig, hook.held),
                !.kept = Kept(elig, pres, s.delivered)]
TakeQuiet(s, c, ok, proj, got) ==
  LET pres == Unacked(s, c) \cup got.done \cup got.held
  IN  [s EXCEPT !.presented = pres, !.deferred = proj.deferred,
                !.pending = @ \cup got.held,
                !.kept = Kept(Eligible(s, c, ok), pres, s.delivered)]
TakeBatchAll(s, c, ok, proj) ==
  LET pres == Unacked(s, c) \cup proj.suppressed \cup proj.outcomes
      del == s.delivered \cup proj.suppressed \cup proj.outcomes
  IN  [s EXCEPT !.presented = pres, !.delivered = del, !.deferred = proj.deferred,
                !.kept = Kept(Eligible(s, c, ok), pres, del)]
TakeBatch(s, c, ok, proj) ==
  LET pres == Unacked(s, c) \cup proj.suppressed \cup proj.outcomes
      del == s.delivered \cup proj.outcomes
  IN  [s EXCEPT !.presented = pres, !.delivered = del,
                !.pending = @ \cup proj.suppressed, !.deferred = proj.deferred,
                !.kept = Kept(Eligible(s, c, ok), pres, del)]

\* A Stop that has its batch arms the next waiter; the host applies what a
\* PreInvocation returns, or drops it.
Taken(mem, writes, batch) ==
  LET e == mem.epoch + 1
      armed == [mem EXCEPT !.epoch = e, !.wepoch = e, !.pid = NoPid]
  IN  IF hook.ev = "stop"
      THEN HookSaves(armed) /\ UNCHANGED told
           /\ hook' = [hook EXCEPT !.pc = "spawn", !.mem = armed, !.batch = batch]
      ELSE /\ hook' = NoHook
           /\ IF writes THEN HookSaves(mem) ELSE Load(Hook) /\ UNCHANGED <<file, hist>>
           /\ told' \in {told \cup batch} \cup (IF faults < MaxFaults THEN {told} ELSE {})

\* Each of the three ends needs all of what the look has found.
Take ==
  LET s == hook.mem
      c == hook.conn
  IN  /\ \/ hook.pc = "take" /\ ~hook.again
         \/ hook.pc = "owner" /\ hook.ev = "pre" /\ c.owner = "self"
      /\ \E ok \in BOOLEAN :
         \E cand \in {Eligible(s, c, ok) \ Unacked(s, c)} :
         \E proj \in {ProjectionOf(cand, ok)}, none \in {TakeNone(s, c, ok)} :
             \/ /\ cand = {} /\ Spent(Hook, 0, ok) /\ UNCHANGED cursor
                /\ Taken(none, none # [s EXCEPT !.presented = Unacked(s, c)], {})
             \/ /\ cand # {} /\ proj.outcomes = {}
                /\ \E cut \in Cuts(Hook, proj.suppressed) :
                   LET got == Settling(proj.suppressed, proj.deferred \cup s.delivered, cut)
                   IN  /\ Spent(Hook, Cost(Hook, cut), ok) /\ cursor' = AckedTo(got.done)
                       /\ Taken(TakeQuiet(s, c, ok, proj, got), TRUE, {})
             \/ /\ proj.outcomes # {} /\ UNCHANGED cursor
                /\ Taken(TakeBatch(s, c, ok, proj), TRUE, proj.outcomes)
                /\ Spent(Hook, IF proj.outcomes \subseteq told' \/ hook.ev = "stop" THEN 0 ELSE 1,
                         ok)
      /\ Rests /\ UNCHANGED <<host, prompt, turns, row, owner, working, live>>

\* A Stop that is not the end of an answer: the batch is put back.
Aborts ==
  /\ host = "busy" /\ hook.pc = "none" /\ Fault /\ Load(Hook)
  /\ hook' = [NoHook EXCEPT
       !.pc = "abortW", !.ev = "stop",
       !.mem = [file EXCEPT !.awaiting = TRUE, !.presented = @ \ file.delivered,
                            !.delivered = {}]]
  /\ Rests /\ UNCHANGED <<file, hostVars, daemonVars, hist>>

AbortWrites ==
  /\ hook.pc = "abortW" /\ Save(Hook, hook.mem) /\ HookEnds
  /\ hist' = [hist EXCEPT !.lost = @ \/ Clobbers(Hook), !.deserted = TRUE]
  /\ Rests /\ UNCHANGED <<prompt, told, turns, daemonVars, faults>>

Free == Lowest(1, {p \in Pids : wait[p].pc = "off" /\ p \notin {file.pid, rearm.pid}})
Started(p, epoch) == wait' = [wait EXCEPT ![p] = [NoWaiter EXCEPT !.pc = "top", !.epoch = epoch]]
Twinned(epoch) == \E q \in Pids : wait[q].pc # "off" /\ wait[q].epoch = epoch

Spawns ==
  /\ hook.pc = "spawn"
  /\ \/ \E p \in Free : /\ Started(p, hook.mem.epoch) /\ NoFault
                        /\ hist' = [hist EXCEPT !.deserted = FALSE,
                                                !.twins = @ \/ Twinned(hook.mem.epoch)]
                        /\ HookTo("pidW", [hook.mem EXCEPT !.pid = p])
     \/ /\ Fault /\ HookTo("give", hook.mem) /\ UNCHANGED wait
        /\ hist' = [hist EXCEPT !.deserted = TRUE]
  /\ Keeps /\ UNCHANGED <<rearm, hostVars, daemonVars>>

\* The pid is recorded, unless there is none; the host goes on with the batch, or
\* ignores it.
StopReturns ==
  /\ \/ hook.pc = "pidW" /\ HookSaves(hook.mem)
     \/ hook.pc = "give" /\ Load(Hook) /\ UNCHANGED <<file, hist>>
  /\ hook' = NoHook
  /\ \/ hook.batch = {} /\ host' = "idle" /\ NoFault /\ UNCHANGED told
     \/ hook.batch # {} /\ host' = "again" /\ NoFault /\ told' = told \cup hook.batch
     \/ hook.batch # {} /\ host' = "idle" /\ Fault /\ UNCHANGED told
  /\ Rests /\ UNCHANGED <<prompt, turns, daemonVars>>

----------------------------------------------------------------------------
(* WakeWaiter *)

At(p, pc) == wait[p].pc = pc
Becomes(p, w) == wait' = [wait EXCEPT ![p] = w]
WaitsOn == UNCHANGED <<hook, rearm, hostVars, daemonVars>>
Idle(w) == [w EXCEPT !.pc = "top", !.mem = NoFile, !.conn = NoConn, !.look = NoLook,
                     !.owed = FALSE, !.targets = {}, !.verify = FALSE, !.first = FALSE]
Leaving(w) == [NoWaiter EXCEPT !.pc = "exit", !.epoch = w.epoch]
OtherTurn(s, w) == s.epoch # 0 /\ s.epoch # w.epoch
\* isWaiterSuperseded
SupersededByTurn(s, p) == OtherTurn(s, wait[p])
Superseded(s, p) ==
  \/ OtherTurn(s, wait[p])
  \/ s.wepoch # 0 /\ s.wepoch # wait[p].epoch
  \/ s.pid # NoPid /\ s.pid # p
Deserts(p) == hist' = [hist EXCEPT !.deserted = @ \/ ~Superseded(file, p)]
WClobber(p) == hist' = [hist EXCEPT !.lost = @ \/ Clobbers(p)]

SelfReady == host = "idle"

\* The top of the loop, up to the decision to look; a new waiter registers first.
Top(p) ==
  LET w == wait[p]
      owed == file.delivered # {}
  IN  /\ At(p, "top")
      /\ p \notin severed \/ OtherTurn(file, w) \/ (file.pid # NoPid /\ file.pid # p)
      /\ IF OtherTurn(file, w) \/ (~w.first /\ file.pid # NoPid /\ file.pid # p)
         THEN Becomes(p, Leaving(w))
         ELSE IF SelfReady /\ (w.check \/ w.push \/ w.retry \/ w.grace \/ owed \/ ~PeersActive)
         THEN Becomes(p, [w EXCEPT !.pc = "look", !.mem = file, !.first = FALSE,
                                   !.owed = owed, !.targets = file.delivered])
         ELSE Becomes(p, [Idle(w) EXCEPT !.errors = 0])
      /\ IF w.first THEN GivesRows ELSE UNCHANGED row
      /\ Keeps /\ UNCHANGED <<hook, rearm, hostVars, cursor, owner, working, live, faults, hist>>

\* It ends without a wake: its pane has left, its time is over.
Quits(p) ==
  /\ At(p, "top") /\ Fault /\ Deserts(p) /\ Becomes(p, Leaving(wait[p]))
  /\ WaitsOn /\ Keeps

\* An RPC fails: the registration, which ends the waiter, or one of a poll.
CallFails(p) ==
  LET w == wait[p] IN
  /\ w.pc \in {"top", "look"} /\ ~w.verify /\ Fails(p)
  /\ IF ~w.first /\ w.errors + 1 < MaxAttempts
     THEN Becomes(p, [Idle(w) EXCEPT !.errors = @ + 1]) /\ UNCHANGED hist
     ELSE Becomes(p, Leaving(w)) /\ Deserts(p)
  /\ WaitsOn /\ Keeps

\* peekNextWakeBatch, up to its second read of the file; a first look fetches its
\* list, a second one (after a rearm) looks at the list of the first.
Peek(p) ==
  LET w == wait[p]
      c == IF w.verify THEN w.conn ELSE Conn
      pres == Unacked(w.mem, c)
  IN  /\ At(p, "look") /\ c.owner = "self" /\ (p \in severed => w.verify)
      /\ \E ok \in BOOLEAN :
         LET elig == Eligible(w.mem, c, ok)
             cand == elig \ pres
             proj == ProjectionOf(cand, ok)
             sup == IF proj.outcomes = {} THEN proj.suppressed ELSE {}
             hold == proj.deferred \cup w.mem.delivered \cup file.delivered
         IN  \E cut \in Cuts(p, sup) :
             LET got == Settling(sup, hold, cut) IN
             /\ Spent(p, Cost(p, cut), ok)
             /\ cursor' = AckedTo(got.done)
             /\ Becomes(p, [w EXCEPT !.pc = "commit", !.conn = c,
                  !.look = [any |-> cand # {}, outs |-> proj.outcomes # {}, elig |-> elig,
                            pres |-> pres \cup got.done \cup got.held,
                            deferred |-> proj.deferred, held |-> got.held]])
      /\ IF w.verify THEN UNCHANGED row ELSE GivesRows
      /\ Keeps /\ UNCHANGED <<hook, rearm, hostVars, owner, working, live, hist>>

LooksInVain(p) ==
  /\ At(p, "look") /\ ~wait[p].verify /\ p \notin severed
  /\ owner # "self" /\ Becomes(p, Leaving(wait[p]))
  /\ WaitsOn /\ Keeps /\ UNCHANGED <<faults, hist>>

DecidedBlindly(w, p) ==
  LET v == [w EXCEPT !.check = FALSE, !.push = FALSE, !.errors = 0]
  IN  IF w.verify THEN [w EXCEPT !.pc = IF w.look.outs THEN "prompt" ELSE "stale"]
      ELSE [v EXCEPT !.pc = "trigger", !.grace = FALSE]
\* What the waiter does with what it saw.
Decided(w, p) ==
  LET l == w.look
      v == [w EXCEPT !.check = FALSE, !.push = FALSE, !.errors = 0,
                     !.retry = l.deferred # {}]
  IN  IF w.verify
      THEN [w EXCEPT !.pc = IF l.outs THEN "prompt" ELSE "stale"]
      ELSE IF w.owed /\ ~l.outs /\ ~w.grace THEN [Idle(v) EXCEPT !.grace = TRUE]
      ELSE IF w.owed \/ l.outs THEN [v EXCEPT !.pc = "trigger", !.grace = FALSE]
      ELSE Idle(v)

\* What the second read leaves to write: without a candidate, and with one.
Swept(s, l) ==
  [s EXCEPT !.delivered = StaleDropped(s, l.elig, {}), !.deferred = {},
            !.kept = Kept(l.elig, l.pres, s.delivered)]
Merged(s, l, c) ==
  [s EXCEPT !.presented = Unacked(s, c) \cup l.pres, !.deferred = l.deferred,
            !.pending = @ \cup l.held, !.kept = Kept(l.elig, l.pres, s.delivered)]

Commit(p) ==
  LET w == wait[p]
      l == w.look
      fresh == IF l.any THEN Merged(file, l, w.conn) ELSE Swept(file, l)
      targets == IF ~l.any /\ fresh # file THEN fresh.delivered ELSE w.targets
  IN  /\ At(p, "commit") /\ Load(p)
      /\ Becomes(p, IF Superseded(file, p) THEN Leaving(w)
                    ELSE IF ~l.any /\ fresh = file THEN Decided(w, p)
                    ELSE [w EXCEPT !.pc = "commitW", !.mem = fresh,
                                   !.targets = IF w.verify THEN @ ELSE targets])
      /\ WaitsOn /\ UNCHANGED <<file, faults, hist>>

CommitWrites(p) ==
  /\ At(p, "commitW") /\ Save(p, wait[p].mem) /\ WClobber(p)
  /\ Becomes(p, Decided(wait[p], p))
  /\ WaitsOn /\ UNCHANGED faults

\* The draft in the composer, then a last look at the generation.
Trigger(p) ==
  LET w == wait[p] IN
  /\ At(p, "trigger")
  /\ \/ /\ Fault /\ Becomes(p, IF OtherTurn(file, w) THEN Leaving(w)
                                ELSE [Idle(w) EXCEPT !.retry = TRUE])
     \/ /\ NoFault
        /\ Becomes(p, IF Superseded(file, p) THEN Leaving(w)
                      ELSE [w EXCEPT !.pc = IF w.owed THEN "rearm" ELSE "prompt"])
  /\ WaitsOn /\ Keeps /\ UNCHANGED hist

RearmPresented(p) ==
  /\ At(p, "rearm") /\ Load(p)
  /\ Becomes(p, [wait[p] EXCEPT !.pc = "look", !.verify = TRUE, !.mem = file])
  /\ WaitsOn /\ UNCHANGED <<file, faults, hist>>
\* rearmDeliveredEvents: the batch can be taken again.
Rearm(p) ==
  /\ At(p, "rearm") /\ Load(p)
  /\ Becomes(p, IF file.delivered = {}
                THEN [wait[p] EXCEPT !.pc = "look", !.verify = TRUE, !.mem = file]
                ELSE [wait[p] EXCEPT !.pc = "rearmW",
                        !.mem = [file EXCEPT !.presented = @ \ file.delivered]])
  /\ WaitsOn /\ UNCHANGED <<file, faults, hist>>

RearmWrites(p) ==
  /\ At(p, "rearmW") /\ Save(p, wait[p].mem) /\ WClobber(p)
  /\ Becomes(p, [wait[p] EXCEPT !.pc = "look", !.verify = TRUE])
  /\ WaitsOn /\ UNCHANGED faults

\* clearStaleDeliveredEvents
Clears(p) ==
  LET w == wait[p]
      stay == Superseded(file, p) \/ w.targets \cap file.delivered = {}
  IN  /\ At(p, "stale") /\ Load(p)
      /\ Becomes(p, IF stay THEN Idle(w)
                    ELSE [w EXCEPT !.pc = "staleW",
                            !.mem = [file EXCEPT !.delivered = @ \ w.targets]])
      /\ WaitsOn /\ UNCHANGED <<file, faults, hist>>

ClearWrites(p) ==
  /\ At(p, "staleW") /\ Save(p, wait[p].mem) /\ WClobber(p)
  /\ Becomes(p, Idle(wait[p]))
  /\ WaitsOn /\ UNCHANGED faults

Prompts(p) ==
  LET w == wait[p] IN
  /\ At(p, "prompt")
  /\ \/ /\ Fault /\ UNCHANGED prompt
        /\ IF w.tries + 1 < MaxAttempts
           THEN Becomes(p, [Idle(w) EXCEPT !.tries = @ + 1, !.retry = TRUE]) /\ UNCHANGED hist
           ELSE Becomes(p, Leaving(w)) /\ Deserts(p)
     \/ /\ NoFault /\ prompt' = TRUE /\ UNCHANGED hist
        /\ Becomes(p, [w EXCEPT !.pc = "done", !.mem = NoFile, !.look = NoLook,
                                !.conn = NoConn])
  /\ Keeps /\ UNCHANGED <<hook, rearm, host, told, turns, daemonVars>>

\* After the prompt, and on every way out (clearOwnWaiterPid): its own pid only.
ClearsPid(p) ==
  LET w == wait[p]
      own == file.pid = p /\ (At(p, "done") => ~OtherTurn(file, w))
  IN  /\ w.pc \in {"done", "exit"} /\ Load(p)
      /\ Becomes(p, IF own THEN [w EXCEPT !.mem = [file EXCEPT !.pid = NoPid],
                                         !.pc = IF At(p, "done") THEN "doneW" ELSE "byeW"]
                    ELSE IF At(p, "done") THEN Leaving(w) ELSE NoWaiter)
      /\ WaitsOn /\ UNCHANGED <<file, faults, hist>>

PidCleared(p) ==
  /\ wait[p].pc \in {"doneW", "byeW"} /\ Save(p, wait[p].mem) /\ WClobber(p)
  /\ Becomes(p, IF At(p, "doneW") THEN Leaving(wait[p]) ELSE NoWaiter)
  /\ WaitsOn /\ UNCHANGED faults

----------------------------------------------------------------------------
(* The daemon restarts, with its waiters or without them, and parks again *)

RearmTo(r) == rearm' = r
Daemonic == UNCHANGED <<hook, hostVars, daemonVars>>
EffectiveEpoch(s) == IF s.wepoch # 0 THEN s.wepoch ELSE s.epoch
Alive(p) == p # NoPid /\ wait[p].pc # "off"
\* stateMatchesGeneration
SameGeneration(s, was) == s.awaiting /\ EffectiveEpoch(s) = rearm.epoch /\ s.pid = was

\* Who survives has a dead connection from then on (ObservabilityRpcClient dials
\* once); a waiter that has not registered yet has none.
Restarts(killed) ==
  /\ rearm.pc = "none" /\ Fault
  /\ severed' = {p \in Pids : ~killed /\ ~wait[p].first}
                \cup (IF hook.pc \in {"claim", "owner", "take"} THEN {Hook} ELSE {})
  /\ wait' = [p \in Pids |-> IF killed THEN NoWaiter ELSE wait[p]]
  /\ stale' = stale \ (IF killed THEN Pids ELSE {})
  /\ RearmTo([NoRearm EXCEPT !.pc = "scan"])
  /\ hist' = [hist EXCEPT !.deserted = @ \/ (killed /\ hook.pc = "pidW")]
  /\ Daemonic /\ UNCHANGED file

Scans ==
  /\ rearm.pc = "scan"
  /\ RearmTo(IF ~file.awaiting \/ Alive(file.pid) THEN NoRearm
             ELSE [NoRearm EXCEPT !.pc = "match", !.epoch = EffectiveEpoch(file),
                                  !.was = file.pid])
  /\ Daemonic /\ Keeps /\ UNCHANGED <<wait, faults, hist>>

\* updateAgyWaiterPIDConditionally, with no pid.
Matches ==
  /\ rearm.pc = "match" /\ Load(Daemon)
  /\ RearmTo(IF ~SameGeneration(file, rearm.was) THEN NoRearm
             ELSE [rearm EXCEPT !.pc = "clear", !.mem = [file EXCEPT !.pid = NoPid]])
  /\ Daemonic /\ UNCHANGED <<file, wait, faults, hist>>

Writes(next) ==
  /\ Save(Daemon, rearm.mem)
  /\ hist' = [hist EXCEPT !.lost = @ \/ Clobbers(Daemon)]
  /\ RearmTo(next)
  /\ Daemonic /\ UNCHANGED <<wait, faults>>
PidDropped == rearm.pc = "clear" /\ Writes([rearm EXCEPT !.pc = "spawn", !.mem = NoFile])
PidRecorded == rearm.pc = "record" /\ Writes(NoRearm)

Respawns ==
  /\ rearm.pc = "spawn"
  /\ \E p \in Free : Started(p, rearm.epoch) /\ RearmTo([rearm EXCEPT !.pc = "check", !.pid = p])
  /\ hist' = [hist EXCEPT !.twins = @ \/ Twinned(rearm.epoch)]
  /\ Daemonic /\ Keeps /\ UNCHANGED faults

RecordsItself ==
  /\ rearm.pc = "check" /\ Load(Daemon)
  /\ RearmTo([rearm EXCEPT !.pc = "record", !.mem = [file EXCEPT !.pid = Daemon]])
  /\ Daemonic /\ UNCHANGED <<file, wait, faults, hist>>
\* ... and with the new pid: a generation that has moved on gets no waiter.
Records ==
  /\ rearm.pc = "check" /\ Load(Daemon)
  /\ IF SameGeneration(file, NoPid)
     THEN RearmTo([rearm EXCEPT !.pc = "record", !.mem = [file EXCEPT !.pid = rearm.pid]])
          /\ UNCHANGED wait
     ELSE RearmTo(NoRearm) /\ Becomes(rearm.pid, NoWaiter)
  /\ Daemonic /\ UNCHANGED <<file, faults, hist>>

\* A dead connection goes with its process.
Connected ==
  severed' = {p \in severed : IF p = Hook THEN hook'.pc # "none" ELSE ~wait'[p].first}

----------------------------------------------------------------------------
HookStep == \/ PreWrites \/ Registers \/ Claims \/ NotOwner \/ FlushNothing \/ Flush
            \/ Refetch \/ Take \/ AbortWrites \/ Spawns \/ StopReturns
WaiterStep(p) ==
  \/ Top(p) \/ Peek(p) \/ LooksInVain(p) \/ Commit(p) \/ CommitWrites(p) \/ Trigger(p)
  \/ Rearm(p) \/ RearmWrites(p) \/ Clears(p) \/ ClearWrites(p)
  \/ Prompts(p) \/ ClearsPid(p) \/ PidCleared(p)
RearmStep == Scans \/ Matches \/ PidDropped \/ Respawns \/ Records \/ PidRecorded

Next ==
  \/ /\ \/ TurnBegins \/ TurnEnds \/ Aborts \/ HookStep \/ RearmStep
        \/ \E p \in Pids : WaiterStep(p) \/ Quits(p) \/ CallFails(p)
        \/ \E k \in Kinds, t \in Terminals, busy \in BOOLEAN : Publish(k, t, busy)
        \/ \E t \in Terminals : PeerIdle(t) \/ PeerLeaves(t)
        \/ \E e \in Events : RowMoves(e)
        \/ OwnerMoves
     /\ Connected
  \/ \E killed \in BOOLEAN : Restarts(killed)

Spec == Init /\ [][Next]_vars

\* The processes run, a call on a dead connection fails, a prompt is begun, a turn
\* ends, a peer's status is caught up.
Fairness ==
  /\ WF_vars(HookStep /\ Connected) /\ WF_vars(RearmStep /\ Connected)
  /\ \A p \in Pids :
       WF_vars((WaiterStep(p) \/ (p \in severed /\ CallFails(p))) /\ Connected)
  /\ WF_vars((prompt \/ host = "again") /\ TurnBegins /\ Connected)
  /\ WF_vars(TurnEnds /\ Connected)
  /\ \A t \in Terminals : WF_vars(PeerIdle(t) /\ Connected)
FairSpec == Spec /\ Fairness

----------------------------------------------------------------------------
FileType(s) ==
  /\ s.epoch \in Nat /\ s.wepoch \in Nat /\ s.pid \in Pids \cup {NoPid}
  /\ s.awaiting \in BOOLEAN /\ s.claimed \in BOOLEAN
  /\ s.presented \cup s.delivered \cup s.pending \cup s.deferred \cup s.kept \subseteq Events
TypeOK == FileType(file) /\ FileType(hook.mem) /\ \A p \in Pids : FileType(wait[p].mem)

IsResult(e) == row[e].kind \in {"completed", "failed"}
\* Withdrawn, its terminal gone, or answered again by the same terminal.
Moot(e) ==
  \/ row[e].st \in {"void", "gone"} \/ row[e].term \notin live
  \/ \E f \in Events : /\ f > e /\ SamePane(e, f)
                        /\ row[f].st # "none" /\ row[f].kind = "completed"

\* An answer or a failure that the daemon holds for acknowledged has been shown to
\* the agent (the transcript says so), unless it no longer matters: no order of
\* drops, aborted turns, retries, failed acks, reclaimed rows and restarts
\* acknowledges over it (flushDeliveredAcks, ackSuppressedInOrder), as long as no
\* write of the file and no row that nobody has recorded was lost, and no turn has
\* had two waiters, of which one may write what it saw before the other.
NothingSwallowed ==
  \/ hist.lost \/ hist.twins
  \/ \A e \in Events :
       (row[e].st # "none" /\ e <= cursor /\ IsResult(e)) => e \in told \/ Moot(e)

\* A newer answer of the terminal makes e a suppressed event of every batch both are in.
Overtaken(e) ==
  \E f \in Events :
    /\ row[f].st # "none" /\ SamePane(e, f)
    /\ \/ f > e /\ row[f].kind = "completed" /\ IsCompletion(e)
       \/ IsCompletion(f) /\ row[e].kind = "fallback"

\* What is kept to be acknowledged on evidence is never a row without text, which
\* no transcript can show and which would hold back every ack behind it; and what
\* is to be acknowledged without evidence is out of the way of the next batch, as
\* presented or, where an aborted turn has put back what it held, as overtaken
\* (deliveredEventIds and pendingAckEventIds of hook.go).
AckIsAllThatIsOwed ==
  /\ \A e \in file.delivered : row[e].kind \notin {"noise", "empty"}
  /\ \A e \in file.pending : e \in file.presented \/ e <= cursor \/ Overtaken(e)

\* Two waiters of one turn never both get as far as the prompt, whoever started
\* them (isWaiterSuperseded), while no write of the file was lost.
OnePrompter ==
  \A p, q \in Pids :
    (At(p, "prompt") /\ At(q, "prompt") /\ wait[p].epoch = wait[q].epoch) => p = q \/ hist.lost

\* A waiter that is still the current one prompts the agent only for an event that was
\* not acknowledged when it looked and that no batch has presented since: the agent is
\* never woken for nothing it knows of (the second look after rearmDeliveredEvents), as
\* long as no write of the file was lost and no turn has had two waiters.  What it saw
\* may be acknowledged behind its back by a waiter of an earlier turn that is still at
\* its look, whose acks (ackSuppressedInOrder) precede its second read of the file.
WakesForSomething ==
  [][\A p \in Pids :
       (/\ At(p, "prompt") /\ wait'[p].pc = "done"
        /\ ~Superseded(file, p) /\ ~hist.lost /\ ~hist.twins)
       => \E e \in Events : /\ e > wait[p].conn.at /\ row[e].st # "none"
                            /\ e \notin file.presented]_vars

\* An answer of a peer that waits for the parked agent reaches it or stops to
\* matter, and so do those that come in the meantime: a waiter looks, waits for a
\* busy peer, prompts, and the invocation hands out what is there; after a drop too,
\* and after a restart that ended its waiter or met it before it had registered.
\* Excused: the workspace changes hands, a write of the file was overwritten, a row
\* left the daemon's list before anyone had recorded it, or the agent was left without
\* a waiter, as it is by one that survives a restart: RearmAgyWaiters takes it for a
\* live one, and it leaves at its third failed call.
Excused == owner # "self" \/ hist.deserted \/ hist.lost
Awaited(e) == row[e].st # "none" /\ IsResult(e) /\ e \notin told /\ ~Moot(e)
NoneAwaited == \A e \in Events : ~Awaited(e)
EventuallyTold == (file.awaiting /\ ~NoneAwaited) ~> (NoneAwaited \/ Excused)
=============================================================================
