----------------------------- MODULE MCMainLoop -----------------------------
(* Small instances of MainLoop for TLC. *)
EXTENDS MainLoop

Sizes == {"small", "large"}
=============================================================================
