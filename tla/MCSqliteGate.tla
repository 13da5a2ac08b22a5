---------------------------- MODULE MCSqliteGate ----------------------------
(* Small instances of SqliteGate. *)
EXTENDS SqliteGate

CONSTANTS g1, g2, g3
=============================================================================
