---------------------------- MODULE ProcessTable ----------------------------
(***************************************************************************)
(* What EnumProcesses promises whoever calls it from one place at a time:  *)
(* the table changes at once, to what the system was when the call asked   *)
(* for its snapshot.  An object listed before that the snapshot shows      *)
(* stays, one it does not show has gone, and a process seen for the first  *)
(* time gets an object of its own.  WinSys::ProcessManager implements this *)
(* entry by entry while processes start and exit (module ProcessManager);  *)
(* ProcessesView relies on it (module ProcessesView).                      *)
(***************************************************************************)
EXTENDS Naturals

CONSTANTS
    Key,      \* process keys
    Initial   \* the processes that run when the manager is made

VARIABLES
    alive, started,   \* the system: running processes, all that ever ran
    list,             \* the objects listed by GetProcesses
    gone,             \* those of GetTerminatedProcesses
    builds            \* objects built for each key

vars == <<alive, started, list, gone, builds>>

Keys(objects) == {o.Key : o \in objects}

Init == /\ alive = Initial /\ started = Initial
        /\ list = {} /\ gone = {}
        /\ builds = [k \in Key |-> 0]

StartProcess(k) == /\ k \in Key \ started
                   /\ alive' = alive \cup {k}
                   /\ started' = started \cup {k}
                   /\ UNCHANGED <<list, gone, builds>>

ExitProcess(k) == /\ k \in alive
                  /\ alive' = alive \ {k}
                  /\ UNCHANGED <<started, list, gone, builds>>

\* The snapshot shows every running process, the one with the id asked for,
\* or none: it failed, or no process has that id.
Snapshots == {{}, alive} \cup {{k} : k \in alive}

Built(S) == {[Key |-> k, Serial |-> builds[k] + 1] : k \in S \ Keys(list)}

Enum(S) ==
    /\ list' = {o \in list : o.Key \in S} \cup Built(S)
    /\ gone' = {o \in list : o.Key \notin S}
    /\ builds' = [k \in Key |-> IF k \in S \ Keys(list) THEN builds[k] + 1
                                                        ELSE builds[k]]
    /\ UNCHANGED <<alive, started>>

Next == \/ \E k \in Key : StartProcess(k)
        \/ \E k \in Key : ExitProcess(k)
        \/ \E S \in Snapshots : Enum(S)

Spec == Init /\ [][Next]_vars
=============================================================================
