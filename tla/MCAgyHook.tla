----------------------------- MODULE MCAgyHook -----------------------------
(* A small instance of AgyHook: two events of one terminal, two waiters, one
   invocation of the agent's own and one fault.  Bounded keeps the product of
   the fault and the second event small: with a fault the second event comes
   from a peer that is idle, stays in the daemon's list and meets no restart,
   and noise comes only without a fault; after a lost write there is neither a
   fault nor a second event.  The first turn, the wait that follows it and the turn
   of a wake, up to the batch of its Stop, are the MaxEpoch generations. *)
EXTENDS AgyHook

MaxEpoch == 3
Second == row[2].st # "none"
Noisy == \E e \in Events : row[e].st # "none" /\ row[e].kind = "noise"
Bounded ==
  /\ hook.mem.epoch <= MaxEpoch
  /\ Second => /\ rearm.pc = "none"
               /\ faults = 0 \/ (working = {} /\ \A e \in Events : row[e].st # "aged")
  /\ Noisy => faults = 0
  /\ hist.lost => faults = 0 /\ ~Second
MCSpec == Init /\ [][Next /\ Bounded']_vars /\ Fairness
=============================================================================
