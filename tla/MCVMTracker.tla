----------------------------- MODULE MCVMTracker ----------------------------
(* Small instances of VMTracker for TLC. *)
EXTENDS VMTracker
=============================================================================
