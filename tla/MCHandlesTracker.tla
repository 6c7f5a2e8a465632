--------------------------- MODULE MCHandlesTracker -------------------------
(* Small instances of HandlesTracker for TLC. *)
EXTENDS HandlesTracker
=============================================================================
