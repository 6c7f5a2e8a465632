--------------------------- MODULE MCProcessFacts ---------------------------
(* Small instances of ProcessFacts for TLC. *)
EXTENDS ProcessFacts
=============================================================================
