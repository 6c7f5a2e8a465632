-------------------------- MODULE MCProcessesView ---------------------------
(* Small instances of ProcessesView for TLC. *)
EXTENDS ProcessesView

\* The text box filters nothing, or one of the processes.
SomeFilters == {{}, {CHOOSE k \in Key : TRUE}}
NoFilter == {{}}
=============================================================================
