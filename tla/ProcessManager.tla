--------------------------- MODULE ProcessManager ---------------------------
(***************************************************************************)
(* WinSys::ProcessManager: a table of the processes (and threads) of a     *)
(* running Windows system, refreshed by EnumProcesses.  A call takes one   *)
(* snapshot of the system and walks it entry by entry; processes and       *)
(* threads start and exit before, during and after the walk.               *)
(*                                                                         *)
(* A C++ map is the set of its values: a ProcessInfo is a record of its    *)
(* key and a serial number that tells two objects built for the same key   *)
(* apart, so "the same shared_ptr" is equality.  Counters, names and times *)
(* of a process are left out.                                              *)
(***************************************************************************)
EXTENDS Naturals

CONSTANTS
    Zero,       \* process id 0: the Idle process, and "no filter" in a call
    Pid,        \* the other process ids
    Tid,        \* thread ids
    Stamp,      \* creation times
    MaxPartial  \* bound: calls that fail or are filtered by id

ASSUME ZeroIsNotPid == Zero \notin Pid
ASSUME MaxPartialIsNat == MaxPartial \in Nat

IdleKey == [Created |-> Zero, Id |-> Zero]

ProcKey == [Created : Stamp, Id : Pid] \cup {IdleKey}

ThreadKey == [Created : Stamp, Id : Tid]

\* A ProcessInfo object.
Object == [Key : ProcKey, Serial : Nat]

\* One thread entry of a snapshot, with the process it is listed under.
ThreadEntry == [Thread : ThreadKey, Owner : ProcKey]

VARIABLES
    \* the system
    alive,                \* keys of the running processes
    started,              \* keys of all processes that ever ran
    running,              \* the running threads
    threadsStarted,       \* keys of all threads that ever ran
    \* ProcessManager::Impl, processes
    processesById, processes, terminatedProcesses, newProcesses,
    processesByKey,
    builds,               \* number of objects built for each key
    \* ProcessManager::Impl, threads (sets of keys)
    threads, newThreads, terminatedThreads, threadsByKey,
    processThreads,       \* ProcessInfo::_threads of the last object built
                          \* for a key: times a thread is in it (0, 1, 2+)
    \* locals of EnumProcesses
    pc,                   \* "idle" or "walk"
    call,                 \* the arguments of the call and its outcome
    buffer,               \* snapshot entries still to visit
    threadBuffer,         \* thread entries of the snapshot
    lProcesses, lProcessesByKey, lThreadsByKey,
    partial               \* number of partial calls so far

systemVars == <<alive, started, running, threadsStarted>>
processVars == <<processesById, processes, terminatedProcesses, newProcesses,
                 processesByKey, builds>>
threadVars == <<threads, newThreads, terminatedThreads, threadsByKey,
                processThreads>>
localVars == <<pc, call, buffer, threadBuffer, lProcesses, lProcessesByKey,
               lThreadsByKey, partial>>
vars == <<systemVars, processVars, threadVars, localVars>>

Keys(objects) == {o.Key : o \in objects}

NoThreads == [t \in ThreadKey |-> 0]

Init ==
    /\ alive = {IdleKey} /\ started = {IdleKey}
    /\ running = {} /\ threadsStarted = {}
    /\ processesById = {} /\ processes = {} /\ terminatedProcesses = {}
    /\ newProcesses = {} /\ processesByKey = {}
    /\ builds = [k \in ProcKey |-> 0]
    /\ threads = {} /\ newThreads = {} /\ terminatedThreads = {}
    /\ threadsByKey = {}
    /\ processThreads = [k \in ProcKey |-> NoThreads]
    /\ pc = "idle"
    /\ call = [threads |-> FALSE, pid |-> Zero, ok |-> FALSE]
    /\ buffer = {} /\ threadBuffer = {}
    /\ lProcesses = {} /\ lProcessesByKey = {} /\ lThreadsByKey = {}
    /\ partial = 0

-----------------------------------------------------------------------------
(* The system.  A process id is reused once its process is gone; the pair  *)
(* of creation time and id is not.                                         *)

StartProcess(k) ==
    /\ k \in ProcKey \ started
    /\ \A j \in alive : j.Id # k.Id
    /\ alive' = alive \cup {k}
    /\ started' = started \cup {k}
    /\ UNCHANGED <<running, threadsStarted, processVars, threadVars, localVars>>

ExitProcess(k) ==
    /\ k \in alive \ {IdleKey}
    /\ alive' = alive \ {k}
    /\ running' = {r \in running : r.Owner # k}
    /\ UNCHANGED <<started, threadsStarted, processVars, threadVars, localVars>>

StartThread(t, k) ==
    /\ k \in alive \ {IdleKey}
    /\ t \in ThreadKey \ threadsStarted
    /\ \A r \in running : r.Thread.Id # t.Id
    /\ running' = running \cup {[Thread |-> t, Owner |-> k]}
    /\ threadsStarted' = threadsStarted \cup {t}
    /\ UNCHANGED <<alive, started, processVars, threadVars, localVars>>

ExitThread(r) ==
    /\ r \in running
    /\ running' = running \ {r}
    /\ UNCHANGED <<alive, started, threadsStarted, processVars, threadVars,
                   localVars>>

-----------------------------------------------------------------------------
(* EnumProcesses(includeThreads, pid).  The public EnumProcesses() passes  *)
(* no threads and no filter, EnumProcessesAndThreads(pid) passes both.  A  *)
(* failed NtQuerySystemInformation leaves nothing to walk.                 *)

\* Mutant: the map by id is not cleared.
ClearResultsButIds(includeThreads) ==
    /\ processesById' = processesById
    /\ newProcesses' = {}
    /\ newThreads' = IF includeThreads THEN {} ELSE newThreads
    /\ threads' = IF includeThreads THEN {} ELSE threads

\* Mutant: the list of new processes is not cleared.
ClearResultsButNew(includeThreads) ==
    /\ processesById' = {}
    /\ newProcesses' = newProcesses
    /\ newThreads' = IF includeThreads THEN {} ELSE newThreads
    /\ threads' = IF includeThreads THEN {} ELSE threads

\* What a call empties before it asks for the snapshot.
ClearResults(includeThreads) ==
    /\ processesById' = {}
    /\ newProcesses' = {}
    /\ newThreads' = IF includeThreads THEN {} ELSE newThreads
    /\ threads' = IF includeThreads THEN {} ELSE threads

BeginEnum(includeThreads, pid, ok) ==
    /\ pc = "idle"
    /\ ~includeThreads => pid = Zero
    /\ (~ok \/ pid # Zero) => partial < MaxPartial
    /\ partial' = IF ~ok \/ pid # Zero THEN partial + 1 ELSE partial
    /\ pc' = "walk"
    /\ call' = [threads |-> includeThreads, pid |-> pid, ok |-> ok]
    /\ ClearResults(includeThreads)
    /\ buffer' = {k \in alive : ok /\ (pid = Zero \/ pid = k.Id)}
    /\ threadBuffer' = {r \in running : ok}
    /\ lProcesses' = {} /\ lProcessesByKey' = {} /\ lThreadsByKey' = {}
    /\ UNCHANGED <<systemVars, processes, terminatedProcesses, processesByKey,
                   builds, terminatedThreads, threadsByKey, processThreads>>

\* The thread loop of BuildProcessInfo, for all threads listed under k.
ListedThreads(k) ==
    IF call.threads /\ k.Id # Zero
    THEN {r.Thread : r \in {e \in threadBuffer : e.Owner = k}}
    ELSE {}

\* AddThread pushes without looking: count 0, 1, or "2 or more".
Push(list, T) == [t \in ThreadKey |->
    IF t \in T THEN (IF list[t] = 0 THEN 1 ELSE 2) ELSE list[t]]

\* Mutant: a known thread is not removed from the old map.
BuildThreadsNoErase(k, list) ==
    LET T == ListedThreads(k) IN
    /\ threads' = threads \cup T
    /\ newThreads' = newThreads \cup (T \ threadsByKey)
    /\ threadsByKey' = threadsByKey
    /\ lThreadsByKey' = lThreadsByKey \cup T
    /\ processThreads' = [processThreads EXCEPT ![k] = Push(list, T)]

\* Mutant: only new threads are added to the process.
BuildThreadsAddNew(k, list) ==
    LET T == ListedThreads(k) IN
    /\ threads' = threads \cup T
    /\ newThreads' = newThreads \cup (T \ threadsByKey)
    /\ threadsByKey' = threadsByKey \ T
    /\ lThreadsByKey' = lThreadsByKey \cup T
    /\ processThreads' =
         [processThreads EXCEPT ![k] = Push(list, T \ threadsByKey)]

BuildThreads(k, list) ==
    LET T == ListedThreads(k) IN
    /\ threads' = threads \cup T
    /\ newThreads' = newThreads \cup (T \ threadsByKey)
    /\ threadsByKey' = threadsByKey \ T
    /\ lThreadsByKey' = lThreadsByKey \cup T
    /\ processThreads' = [processThreads EXCEPT ![k] = Push(list, T)]

\* unordered_map::insert does not replace an existing entry.
InsertByKey(map, o) == IF o.Key \in Keys(map) THEN map ELSE map \cup {o}
InsertById(map, o) ==
    IF \E x \in map : x.Key.Id = o.Key.Id THEN map ELSE map \cup {o}

\* The end of the loop body: list the object and enter it in the maps.
Enter(o) ==
    /\ lProcesses' = lProcesses \cup {o}
    /\ lProcessesByKey' = InsertByKey(lProcessesByKey, o)
    /\ processesById' = InsertById(processesById, o)
    /\ buffer' = buffer \ {o.Key}

NewObject(k) == [Key |-> k, Serial |-> builds[k] + 1]

VisitNew(k) ==
    LET pi == NewObject(k) IN
    /\ pc = "walk"
    /\ k \in buffer
    /\ k \notin Keys(processesByKey)
    /\ builds' = [builds EXCEPT ![k] = @ + 1]
    /\ BuildThreads(k, NoThreads)
    /\ newProcesses' = newProcesses \cup {pi}
    /\ Enter(pi)
    /\ UNCHANGED <<systemVars, processes, terminatedProcesses, processesByKey,
                   terminatedThreads, pc, call, threadBuffer, partial>>

\* Mutant: a process that was found again stays in the old map.
EraseNothing(map, o) == map

Erase(map, o) == map \ {o}

VisitKnown(pi) ==
    /\ pc = "walk"
    /\ pi \in processesByKey
    /\ pi.Key \in buffer
    /\ BuildThreads(pi.Key, processThreads[pi.Key])
    /\ processesByKey' = Erase(processesByKey, pi)
    /\ Enter(pi)
    /\ UNCHANGED <<systemVars, processes, terminatedProcesses, newProcesses,
                   builds, terminatedThreads, pc, call, threadBuffer, partial>>

\* Mutant: the map built by the walk does not replace the old one.
PublishKeepsOldMap ==
    /\ processes' = lProcesses
    /\ terminatedProcesses' = processesByKey
    /\ processesByKey' = processesByKey

\* Mutant: the list of terminated processes is not cleared.
PublishAddsTerminated ==
    /\ processes' = lProcesses
    /\ terminatedProcesses' = terminatedProcesses \cup processesByKey
    /\ processesByKey' = lProcessesByKey

\* What is left in the old map is reported as terminated.
Publish ==
    /\ processes' = lProcesses
    /\ terminatedProcesses' = processesByKey
    /\ processesByKey' = lProcessesByKey

FinishEnum ==
    /\ pc = "walk"
    /\ buffer = {}
    /\ pc' = "idle"
    /\ Publish
    /\ terminatedThreads' =
         IF call.threads THEN threadsByKey ELSE terminatedThreads
    /\ threadsByKey' = IF call.threads THEN lThreadsByKey ELSE threadsByKey
    /\ UNCHANGED <<systemVars, processesById, newProcesses, builds, threads,
                   newThreads, processThreads, call, buffer, threadBuffer,
                   lProcesses, lProcessesByKey, lThreadsByKey, partial>>

-----------------------------------------------------------------------------
System == \/ \E k \in ProcKey : StartProcess(k)
          \/ \E k \in ProcKey : ExitProcess(k)
          \/ \E t \in ThreadKey, k \in ProcKey : StartThread(t, k)
          \/ \E r \in ThreadEntry : ExitThread(r)

Enum == \/ \E includeThreads, ok \in BOOLEAN, pid \in Pid \cup {Zero} :
              BeginEnum(includeThreads, pid, ok)
        \/ \E k \in ProcKey : VisitNew(k)
        \/ \E pi \in processesByKey : VisitKnown(pi)
        \/ FinishEnum

Next == System \/ Enum

Spec == Init /\ [][Next]_vars

-----------------------------------------------------------------------------
(* Properties. *)

\* Every variable has its type.
TypeOK ==
    /\ started \subseteq ProcKey /\ alive \subseteq started
    /\ running \subseteq ThreadEntry /\ threadsStarted \subseteq ThreadKey
    /\ processesById \subseteq Object /\ processes \subseteq Object
    /\ terminatedProcesses \subseteq Object /\ newProcesses \subseteq Object
    /\ processesByKey \subseteq Object
    /\ builds \in [ProcKey -> Nat]
    /\ threads \subseteq ThreadKey /\ newThreads \subseteq ThreadKey
    /\ terminatedThreads \subseteq ThreadKey /\ threadsByKey \subseteq ThreadKey
    /\ processThreads \in [ProcKey -> [ThreadKey -> {0, 1, 2}]]
    /\ pc \in {"idle", "walk"}
    /\ call \in [threads : BOOLEAN, pid : Pid \cup {Zero}, ok : BOOLEAN]
    /\ buffer \subseteq ProcKey /\ threadBuffer \subseteq ThreadEntry
    /\ lProcesses \subseteq Object /\ lProcessesByKey \subseteq Object
    /\ lThreadsByKey \subseteq ThreadKey
    /\ partial \in 0 .. MaxPartial

\* The last call succeeded and was not filtered: it saw every process.
Complete == call.ok /\ call.pid = Zero

\* Between calls the list returned by GetProcesses, the map behind
\* GetProcessByKey and the map behind GetProcessById hold the same objects,
\* and no two of them share an id.
TablesAgree ==
    pc = "idle" =>
        /\ processes = processesByKey
        /\ processesById = processesByKey
        /\ \A p, q \in processes : p.Key.Id = q.Key.Id => p = q

\* A process reported as terminated has really exited, if the call saw
\* every process: neither its new incarnation under the same id nor an exit
\* and start in the middle of the walk can make a running process look dead.
TerminatedAreDead ==
    pc = "idle" /\ Complete =>
        \A p \in terminatedProcesses : p.Key \notin alive

\* A process that stays in the list from one call to the next keeps its
\* ProcessInfo object: clients hold pointers to it (ProcessesView does).
StableIdentity ==
    [][\A p \in processes, q \in processes' : p.Key = q.Key => p = q]_vars

\* After a call that asked for threads, the thread list of every listed
\* process (the Idle process apart) has each thread of the snapshot.
ThreadListsCover ==
    pc = "idle" /\ call.threads =>
        \A p \in processes, r \in threadBuffer :
            (r.Owner = p.Key /\ p.Key # IdleKey)
                => /\ processThreads[p.Key][r.Thread] > 0
                   /\ r.Thread \in threads

\* The process side keeps the promise of SnapshotDiff: after every call, the
\* new, terminated and listed processes are consistent with one another.
\* During a walk the previous snapshot is scattered: what was not visited
\* yet is in processesByKey, what was found again in lProcessesByKey.
ProcessDiff == INSTANCE SnapshotDiff WITH
    Item <- ProcKey,
    busy <- pc = "walk",
    known <- Keys(processesByKey) \cup Keys(lProcessesByKey \ newProcesses),
    fresh <- IF pc = "idle" THEN Keys(newProcesses) ELSE {},
    gone <- Keys(terminatedProcesses)

ImplementsProcessDiff == ProcessDiff!Spec

\* So does the thread side, where only calls that ask for threads count.
ThreadWalk == pc = "walk" /\ call.threads

ThreadDiff == INSTANCE SnapshotDiff WITH
    Item <- ThreadKey,
    busy <- ThreadWalk,
    known <- IF ThreadWalk
             THEN threadsByKey \cup (lThreadsByKey \ newThreads)
             ELSE threadsByKey,
    fresh <- IF ThreadWalk THEN {} ELSE newThreads,
    gone <- terminatedThreads

ImplementsThreadDiff == ThreadDiff!Spec

\* A call that walks its snapshot entry by entry, while processes start and
\* exit and the tables are half filled, is one atomic step for its caller:
\* the one that finds, at the moment of the snapshot, which objects stay,
\* which have gone and which are to be built.
Snapshot == buffer \cup Keys(lProcessesByKey)

\* Entries of the snapshot that no visit has built an object for yet.
ToBuild == buffer \ Keys(processesByKey)

Table == INSTANCE ProcessTable WITH
    Key <- ProcKey,
    Initial <- {IdleKey},
    list <- IF pc = "idle" THEN processes
            ELSE {o \in processes : o.Key \in Snapshot} \cup newProcesses
                    \cup {NewObject(k) : k \in ToBuild},
    gone <- IF pc = "idle" THEN terminatedProcesses
            ELSE {o \in processes : o.Key \notin Snapshot},
    builds <- [k \in ProcKey |-> IF k \in ToBuild THEN builds[k] + 1
                                                  ELSE builds[k]]

ImplementsTable == Table!Spec
=============================================================================
