----------------------------- MODULE MCDaemon -----------------------------
(* Small instance of DaemonLifecycle. *)
EXTENDS DaemonLifecycle

CONSTANT s1

\* Bounds of the instance.  A reconcile run, a change of Herdr and a tick of the
\* manager share nothing but the mutexes of their own parts, so a reconcile run
\* is in flight only while neither of the others has happened.  Herdr moves while
\* the daemon is up; of its moves a shutdown meets a change of status whose plan
\* runs.  A second signal, which only ends the process or is lost, comes before
\* the third startup step.
\* The startup steps that may outlive the whole budget of a shutdown are the
\* reconcile and the start of the watch manager; the stop of the server outlives
\* its own where that of the manager did not.
Reconciling == recon.fired \/ recon.run # "idle"
Moved == moves + (IF \E s \in Sessions : herdr[s].turn > 0 THEN 1 ELSE 0)
Bounded ==
  /\ Reconciling' => main'.done /\ ticker'.step = "idle" /\ ~mgr'.fired /\ Moved' = 0
  /\ herdr' # herdr => main.done /\ ~ShutdownOwnsDaemon
  /\ signals' # signals => moves = 0 /\ (Moved = 1 => plans # {})
  /\ signals' = 2 => signals = 2 \/ main.step < 3
  /\ shut'.late => Step \in {"reconcile", "watch"}
  /\ job'["server"] = "left" => stop'["seq"].step = "done"

MCNext == Next /\ Bounded
MCStoppingSpec == Init /\ [][MCNext]_vars /\ WF_vars(Sequence /\ exit = None)
MCFollowingSpec == Init /\ [][MCNext]_vars /\ ManagerFairness
=============================================================================
