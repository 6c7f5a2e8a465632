-------------------------- MODULE MCPropertyWindows -------------------------
(* Small instances of PropertyWindows for TLC. *)
EXTENDS PropertyWindows
=============================================================================
