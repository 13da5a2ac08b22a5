--------------------------- MODULE MCStatusPlans ---------------------------
(* A small instance of StatusPlans: Pi, Agy and another agent, told apart by
   kind.  Bounded keeps the products small that no rule of the code relates: a
   second plan follows the first only for Agy, whose plans alone supersede each
   other, and then without drain, pane close, shutdown or an event handed out;
   a refresh finds a transition only before the first plan; a shutdown meets Pi,
   whose plan has every wait, before its pane closes, and a close that follows it
   no event handed out.  Two plans and a shutdown meet only answers with which
   the agent has stopped. *)
EXTENDS StatusPlans

Alone == plan'[2].st = "none" /\ (owed' # None => plan'[1].st = "none")
Handed == \E i \in DOMAIN log : log[i].st = "given"
Stopped == disk.ref = 0 \/ disk.end
Undisturbed == ~drain'.on /\ pane' = "open" /\ stops' = 0 /\ ~Handed' /\ Stopped'
Bounded ==
  /\ kind = "agy" => Alone \/ Undisturbed
  /\ kind # "agy" => Alone
  /\ stops' # stops => pane = "open"
  /\ stops' = 0 \/ (kind = "pi" /\ owed' = None /\ Stopped' /\ (pane' = "open" \/ ~Handed'))
MCSpec == Init /\ [][Next /\ Bounded]_vars
MCFairSpec == MCSpec /\ Fairness
=============================================================================
