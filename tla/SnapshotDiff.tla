---------------------------- MODULE SnapshotDiff ----------------------------
(***************************************************************************)
(* What an object that follows a changing collection by taking snapshots   *)
(* promises its user: it remembers the items of the last snapshot and,     *)
(* after each new one, says which items are new and which have gone.  Both *)
(* the process side and the thread side of WinSys::ProcessManager          *)
(* implement it (module ProcessManager).                                   *)
(***************************************************************************)
CONSTANT Item

VARIABLES
    busy,    \* a snapshot is being processed
    known,   \* the items of the last complete snapshot
    fresh,   \* items of that snapshot that were not in the one before it
    gone     \* items of the one before that are missing from it

vars == <<busy, known, fresh, gone>>

Init == /\ busy = FALSE
        /\ known = {}
        /\ fresh = {}
        /\ gone = {}

\* The list of new items is emptied when a call begins, not when it ends.
Start == /\ ~busy
         /\ busy' = TRUE
         /\ fresh' = {}
         /\ UNCHANGED <<known, gone>>

Publish(snapshot) == /\ busy
                     /\ busy' = FALSE
                     /\ known' = snapshot
                     /\ fresh' = snapshot \ known
                     /\ gone' = known \ snapshot

Next == Start \/ \E snapshot \in SUBSET Item : Publish(snapshot)

Spec == Init /\ [][Next]_vars
=============================================================================
