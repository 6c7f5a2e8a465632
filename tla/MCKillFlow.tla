----------------------------- MODULE MCKillFlow -----------------------------
(* Small instances of KillFlow for TLC. *)
EXTENDS KillFlow
=============================================================================
