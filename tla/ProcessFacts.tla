---------------------------- MODULE ProcessFacts ----------------------------
(***************************************************************************)
(* What the view tells of a process beyond the snapshot: its parent, which *)
(* is looked up by id in the manager's list in every frame, and the        *)
(* attributes and the path, which ProcessInfoEx asks of the system by id   *)
(* when a row first needs them and then keeps.  (The user name is asked    *)
(* and kept as the attributes are, also when it is refused.)               *)
(*                                                                         *)
(* Ids are reused, rows outlive their processes and lists are older than   *)
(* the processes that run: an id may lead to another process.              *)
(*                                                                         *)
(* Snapshots are taken at once here; ProcessManager has the walk, and      *)
(* ProcessesView the marks that keep rows of exited processes.             *)
(***************************************************************************)
EXTENDS Naturals, FiniteSets

CONSTANTS Pid,       \* ids that processes get, without 0
          NotComputed, Denied,  \* facts not asked for, and refused
          MaxTime,   \* bound: the clock
          MaxStarts  \* bound: processes that start

ASSUME BoundsAreNat == MaxTime \in Nat /\ MaxStarts \in Nat
ASSUME ZeroIsNoPid == 0 \notin Pid

Key == [Id : Pid, Created : 0 .. MaxTime]
NoKey == [Id |-> 0, Created |-> 0]

\* A process and the key of the one that created it; its ParentId is
\* Parent.Id.
Process == [Key : Key, Parent : Key \cup {NoKey}]

Fact == {NotComputed, Denied} \cup Key

\* A fact is named by the process that it was read from.  seen: the process
\* that the search for services.exe took for the parent.
ProcessInfoEx == [attributes : Fact, seen : Key \cup {NoKey},
                  executablePath : Fact]

VARIABLES
    clock,    \* the system time
    started,  \* processes so far
    alive,    \* processes that run
    listed,   \* _processesById of the manager
    rows,     \* _processes of the view
    infos     \* _processesEx of the view

vars == <<clock, started, alive, listed, rows, infos>>

Init == /\ clock = 0 /\ started = {} /\ alive = {} /\ listed = {}
        /\ rows = {} /\ infos = [k \in {} |-> NoKey]

-----------------------------------------------------------------------------
(* The system. *)

Tick ==
    /\ clock < MaxTime
    /\ clock' = clock + 1
    /\ UNCHANGED <<started, alive, listed, rows, infos>>

\* A running process, or the system, creates one.  An id is given again only
\* when its process has exited, and never twice at the same time.
StartProcess(id, parent) ==
    LET p == [Key |-> [Id |-> id, Created |-> clock], Parent |-> parent] IN
    /\ Cardinality(started) < MaxStarts
    /\ \A q \in alive : q.Key.Id # id
    /\ \A q \in started : q.Key # p.Key
    /\ started' = started \cup {p}
    /\ alive' = alive \cup {p}
    /\ UNCHANGED <<clock, listed, rows, infos>>

ExitProcess(p) ==
    /\ alive' = alive \ {p}
    /\ UNCHANGED <<clock, started, listed, rows, infos>>

-----------------------------------------------------------------------------
(* The view. *)

\* A snapshot; rows of processes that are gone from it stay for a while.
DoUpdate ==
    /\ listed' = alive
    /\ rows' = rows \cup alive
    /\ UNCHANGED <<clock, started, alive, infos>>

\* Mutant: infos are kept by id.
InfoKeyById(p) == [Id |-> p.Key.Id, Created |-> 0]

InfoKey(p) == p.Key

RemoveRow(p) ==
    /\ p \notin listed
    /\ rows' = rows \ {p}
    /\ infos' = [k \in DOMAIN infos \ {InfoKey(p)} |-> infos[k]]
    /\ UNCHANGED <<clock, started, alive, listed>>

NewInfo == [attributes |-> NotComputed, seen |-> NoKey,
            executablePath |-> NotComputed]

GetProcessInfoEx(p) == IF InfoKey(p) \in DOMAIN infos THEN infos[InfoKey(p)]
                                                      ELSE NewInfo

Keep(p, info) ==
    /\ infos' = [k \in DOMAIN infos \cup {InfoKey(p)} |->
                    IF k = InfoKey(p) THEN info ELSE infos[k]]
    /\ UNCHANGED <<clock, started, alive, listed, rows>>

\* Process::OpenById: the process that has the id now; it may be refused.
OpenById(id) == {Denied} \cup {q.Key : q \in {r \in alive : r.Key.Id = id}}

\* GetProcessById for the parent's id, or NoKey.
ListedById(id) ==
    LET found == {q \in listed : q.Key.Id = id} IN
    IF found = {} THEN NoKey ELSE (CHOOSE q \in found : TRUE).Key

\* Computed once, also when the process cannot be opened.
GetAttributes(p) ==
    LET info == GetProcessInfoEx(p) IN
    /\ info.attributes = NotComputed
    /\ \E fact \in OpenById(p.Key.Id) :
           Keep(p, [info EXCEPT
                    !.attributes = fact,
                    !.seen = IF fact = Denied THEN NoKey
                             ELSE ListedById(p.Parent.Id)])

\* Asked again in every frame while there is no answer.
GetExecutablePath(p) ==
    LET info == GetProcessInfoEx(p) IN
    /\ info.executablePath = NotComputed
    /\ \E fact \in OpenById(p.Key.Id) \ {Denied} :
           Keep(p, [info EXCEPT !.executablePath = fact])

\* Draws the row of p.  Its colour and the column of attributes need the ones,
\* its icon and the column of the path the other; hidden columns ask nothing.
BuildRow(p) == GetAttributes(p) \/ GetExecutablePath(p)

\* Mutant: the creation times may be the same.
IsParentOrSame(q, p) == q # NoKey /\ q.Created <= p.Key.Created

\* The test of the parent column.
IsParent(q, p) == q # NoKey /\ q.Created < p.Key.Created

-----------------------------------------------------------------------------

System == \/ Tick
          \/ \E id \in Pid, parent \in {q.Key : q \in alive} \cup {NoKey} :
                 StartProcess(id, parent)
          \/ \E p \in alive : ExitProcess(p)

View == \/ DoUpdate
        \/ \E p \in rows : RemoveRow(p) \/ BuildRow(p)

Next == System \/ View

Spec == Init /\ [][Next]_vars

-----------------------------------------------------------------------------
(* Properties. *)

\* Every variable has its type.
TypeOK ==
    /\ clock \in 0 .. MaxTime
    /\ started \subseteq Process
    /\ alive \subseteq started /\ listed \subseteq started
    /\ rows \subseteq started
    /\ DOMAIN infos \subseteq Key
    /\ \A k \in DOMAIN infos : infos[k] \in ProcessInfoEx

\* The parent column names a process only if that process did create the one
\* of the row, although the id of a parent that exited may belong to another
\* one by now, and the list may be older than the row or newer.  The search
\* for services.exe looks at the id alone: the process it takes for the parent
\* is the parent, or is not older than the child.
NamedParentIsParent ==
    \A p \in rows :
        /\ IsParent(ListedById(p.Parent.Id), p) =>
               ListedById(p.Parent.Id) = p.Parent
        /\ IsParent(GetProcessInfoEx(p).seen, p) =>
               GetProcessInfoEx(p).seen = p.Parent

\* While a process runs, nothing that is kept for it was read from another
\* process, whoever had its id before.  (Of a process that has exited, the
\* one that got its id may be asked.)
FactsAreOwn ==
    \A p \in rows \cap alive :
        LET info == GetProcessInfoEx(p) IN
        {info.attributes, info.executablePath}
            \subseteq {NotComputed, Denied, p.Key}
=============================================================================
