------------------------- MODULE MCTerminalPresence -------------------------
(* Two terminals, a Pi connection and an Agy connection.  The pane of the first
   terminal runs Agy, when the index knows it, that of the second Pi; a pane
   whose agent changes is the subject of OneMayRun. *)
EXTENDS TerminalPresence, TLC

CONSTANTS t1, t2, c1, c2

MCTerminals == {t1, t2}
MCConns == {c1, c2}
MCAgyConns == {c2}
MCMayRun == (t1 :> {"agy", "none"}) @@ (t2 :> {"pi"})

OneTerminal == {t1}
OneMayRun == t1 :> Agents
=============================================================================
