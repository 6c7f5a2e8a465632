----------------------------- MODULE MCDialogs ------------------------------
(* A small instance of Dialogs for TLC. *)
EXTENDS Dialogs
=============================================================================
