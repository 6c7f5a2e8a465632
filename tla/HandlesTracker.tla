--------------------------- MODULE HandlesTracker ---------------------------
(***************************************************************************)
(* ProcessHandlesTracker: successive snapshots of the handle table of one  *)
(* process, and after each the lists of handles opened and closed since.   *)
(*                                                                         *)
(* The target opens and closes handles and exits at any moment, also       *)
(* between the two system calls of EnumHandles: the wait that tells        *)
(* whether the process exited, and the query (repeated with a larger       *)
(* buffer while the table does not fit).                                   *)
(*                                                                         *)
(* A handle value the target closed may be given out again for an object   *)
(* of another type; HandleEntryInfo compares the values only.              *)
(***************************************************************************)
EXTENDS Naturals, FiniteSets

CONSTANTS HandleValue,  \* values of handles
          ObjectType,   \* object type indices
          FirstRoom,    \* handles the first buffer has room for
          Slack         \* handles that the slack of 1 << 12 bytes holds

ASSUME RoomsAreNat == FirstRoom \in Nat /\ Slack \in Nat

HandleEntryInfo == [HandleValue : HandleValue, ObjectTypeIndex : ObjectType]

VARIABLES
    table,    \* the target's handles
    running,  \* the target did not exit
    handles, newHandles, closedHandles,  \* the members of Impl
    pc,       \* "idle", or "query" between the wait and the answer
    clear,    \* the argument of the call
    room,     \* handles that the buffer has room for
    last,     \* history: values open in the last answered call
    mirror    \* history: values a client derives from the lists

target == <<table, running>>
history == <<last, mirror>>
tracker == <<handles, newHandles, closedHandles, pc, clear, room>>
vars == <<target, tracker, history>>

Values(S) == {h.HandleValue : h \in S}

-----------------------------------------------------------------------------
(* The target. *)

OpenHandle(v, t) ==
    /\ running
    /\ v \notin Values(table)
    /\ table' = table \cup {[HandleValue |-> v, ObjectTypeIndex |-> t]}
    /\ UNCHANGED <<running, tracker, history>>

CloseHandle(h) ==
    /\ h \in table
    /\ table' = table \ {h}
    /\ UNCHANGED <<running, tracker, history>>

\* The table is gone before the process object is signalled.
Exit ==
    /\ running
    /\ running' = FALSE
    /\ table' = {}
    /\ UNCHANGED <<tracker, history>>

-----------------------------------------------------------------------------
(* The tracker. *)

Init == /\ table = {} /\ running = TRUE
        /\ handles = {} /\ newHandles = {} /\ closedHandles = {}
        /\ pc = "idle" /\ clear = FALSE /\ room = FirstRoom
        /\ last = {} /\ mirror = {}

\* What a client that follows the lists believes open after a call.
Replay(new, closed) == (mirror \ Values(closed)) \cup Values(new)

\* Mutant: the handles of the exited process are not reported.
AfterExitSilent ==
    /\ closedHandles' = {}
    /\ newHandles' = {}
    /\ handles' = {}

AfterExit ==
    /\ closedHandles' = handles
    /\ newHandles' = {}
    /\ handles' = {}

\* The wait found the process signalled.
EnumExited ==
    /\ pc = "idle" /\ ~running
    /\ AfterExit
    /\ last' = {}
    /\ mirror' = Replay(newHandles', closedHandles')
    /\ UNCHANGED <<target, pc, clear, room>>

EnumHandles(c) ==
    /\ pc = "idle" /\ running
    /\ pc' = "query"
    /\ clear' = c
    /\ room' = FirstRoom
    /\ UNCHANGED <<target, handles, newHandles, closedHandles, history>>

\* Mutant: the same buffer is tried again.
EnlargedNot == room

Enlarged == Cardinality(table) + Slack

QueryTooSmall ==
    /\ pc = "query" /\ running
    /\ Cardinality(table) > room
    /\ room' = Enlarged
    /\ UNCHANGED <<target, handles, newHandles, closedHandles, pc, clear,
                   history>>

\* Any other status, also that the process is terminating: the old lists stay.
QueryFails ==
    /\ pc = "query"
    /\ pc' = "idle"
    /\ mirror' = Replay(newHandles, closedHandles)
    /\ UNCHANGED <<target, handles, newHandles, closedHandles, clear, room,
                   last>>

Known == IF clear THEN {} ELSE handles

\* What the lookup by value in `known` makes of the entries of the table.
NewIn(known) == {h \in table : h.HandleValue \notin Values(known)}
GoneFrom(known) == {h \in known : h.HandleValue \notin Values(table)}

\* Mutant: the closed handles stay in _handles.
DiffKeeps ==
    /\ newHandles' = NewIn(Known)
    /\ closedHandles' = GoneFrom(Known)
    /\ handles' = Known \cup newHandles'

\* A handle known by value keeps the entry, and the type, it was found with.
Diff ==
    /\ newHandles' = NewIn(Known)
    /\ closedHandles' = GoneFrom(Known)
    /\ handles' = (Known \ closedHandles') \cup newHandles'

\* Mutant: the lists of the call before are not cleared.
BaselineUncleared ==
    /\ UNCHANGED <<newHandles, closedHandles>>
    /\ handles' = table

\* Without known handles the table is only taken over.
Baseline ==
    /\ newHandles' = {}
    /\ closedHandles' = {}
    /\ handles' = table

QueryAnswers ==
    /\ pc = "query" /\ running
    /\ Cardinality(table) <= room
    /\ pc' = "idle"
    /\ last' = Values(table)
    /\ \/ Known = {} /\ Baseline /\ mirror' = Values(table)
       \/ Known # {} /\ Diff /\ mirror' = Replay(newHandles', closedHandles')
    /\ UNCHANGED <<target, clear, room>>

-----------------------------------------------------------------------------

Target == \/ \E v \in HandleValue, t \in ObjectType : OpenHandle(v, t)
          \/ \E h \in table : CloseHandle(h)
          \/ Exit

Query == QueryTooSmall \/ QueryFails \/ QueryAnswers

Next == \/ Target
        \/ EnumExited
        \/ \E c \in BOOLEAN : EnumHandles(c)
        \/ Query

Spec == Init /\ [][Next]_vars

\* A query of a running target is answered, one of an exited target fails;
\* and clients go on calling.
FairSpec == /\ Spec
            /\ WF_vars(QueryTooSmall \/ QueryAnswers)
            /\ WF_vars(~running /\ QueryFails)
            /\ WF_vars(EnumExited)

-----------------------------------------------------------------------------
(* Properties. *)

\* Every variable has its type, and _handles has one entry per value, as a
\* set that hashes and compares by value must.
TypeOK ==
    /\ table \subseteq HandleEntryInfo
    /\ running \in BOOLEAN /\ clear \in BOOLEAN
    /\ handles \subseteq HandleEntryInfo
    /\ newHandles \subseteq HandleEntryInfo
    /\ closedHandles \subseteq HandleEntryInfo
    /\ pc \in {"idle", "query"} /\ room \in Nat
    /\ last \subseteq HandleValue /\ mirror \subseteq HandleValue
    /\ \A g, h \in handles : g.HandleValue = h.HandleValue => g = h

\* A client that knows the handles of the first call and applies the two
\* lists after every later one, failed calls with their repeated lists
\* included, knows the handle values open at the last call that answered.
MirrorIsLast == mirror = last

\* What the tracker holds is what it told: no handle is held that a client
\* does not know of, so none is ever reported closed without being known.
HeldIsTold == Values(handles) = mirror

\* EnumHandles returns, although the target may fill its table while the
\* buffer grows after it.
CallReturns == pc = "query" ~> pc = "idle"

\* After the target exits every handle that was reported open is reported
\* closed, whatever call was under way.
ExitIsReported == ~running ~> mirror = {} /\ handles = {}
=============================================================================
