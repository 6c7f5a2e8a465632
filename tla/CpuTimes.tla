------------------------------ MODULE CpuTimes ------------------------------
(***************************************************************************)
(* The CPU column: how ProcessManager::Impl::EnumProcesses turns the       *)
(* processor times of two snapshots into shares of the time between them.  *)
(* The clock is read before the snapshot is taken, a call may fail or list *)
(* one process only, and calls with and without threads mix: the times of  *)
(* a process are recorded by every call that lists it, those of a thread   *)
(* only by calls with threads, the clock by every call.                    *)
(*                                                                         *)
(* Times are relative: time used since it was last recorded.  One unit of  *)
(* the clock is one unit of processor time (both 100 ns if                 *)
(* QueryPerformanceCounter runs at 10 MHz, which the code takes for        *)
(* granted).  Which objects are listed is the concern of ProcessManager;   *)
(* here a map of objects is the domain of the function of its times.       *)
(***************************************************************************)
EXTENDS FiniteSets, Integers

CONSTANTS
    Process, Thread,
    Owner,      \* the process of each thread
    Idle,       \* the Idle process: it runs where nothing else does
    Everything, \* pid 0 in a call: no filter
    Processors, \* _totalProcessors
    Unit,       \* 100% of all processors (1000000 in the code)
    Half,       \* an int32_t is in -Half .. Half - 1
    MaxGap,     \* bound: time between two calls
    MaxLag,     \* bound: time between reading the clock and the snapshot
    MaxUsed     \* bound: time a thread uses between two calls with threads

ASSUME OwnersAreProcesses == Owner \in [Thread -> Process]
ASSUME NotProcesses == Idle \notin Process /\ Everything \notin Process
ASSUME SomeProcessor == Processors \in Nat \ {0}
ASSUME UnitsAreNat == Unit \in Nat /\ Half \in Nat \ {0}

VARIABLES
    running, started,   \* the system: threads that exist, that ever existed
    elapsed,            \* time since _prevTicks
    used, cpu,          \* of each object in _processesByKey: time used since
                        \* the times in it; its CPU member
    usedT, cpuT,        \* the same in _threadsByKey
    pc, lag,            \* "idle", or "ticked" for lag units
    delta,              \* of the last call
    age, interval,      \* history: time since the last snapshot; between the
                        \* last two
    threadCalls         \* history: how many calls in a row, up to the last
                        \* one, had threads (0, 1, 2+)

systemVars == <<running, started>>
objectVars == <<used, cpu, usedT, cpuT>>
historyVars == <<age, interval, threadCalls>>
vars == <<systemVars, elapsed, objectVars, pc, lag, delta, historyVars>>

Init ==
    /\ running = {} /\ started = {} /\ elapsed = 0
    /\ used = <<>> /\ cpu = <<>> /\ usedT = <<>> /\ cpuT = <<>>
    /\ pc = "idle" /\ lag = 0 /\ delta = 0
    /\ age = 0 /\ interval = 0 /\ threadCalls = 0

-----------------------------------------------------------------------------
(* The system. *)

ThreadsOf(p, T) == {t \in T : Owner[t] = p}

Alive == {Owner[t] : t \in running}

\* A process starts with its first thread and exits with its last.
StartThread(t) ==
    /\ t \notin started
    /\ ThreadsOf(Owner[t], started) # {} => Owner[t] \in Alive
    /\ running' = running \cup {t}
    /\ started' = started \cup {t}
    /\ UNCHANGED <<elapsed, objectVars, pc, lag, delta, historyVars>>

ExitThread(t) ==
    /\ t \in running
    /\ running' = running \ {t}
    /\ UNCHANGED <<started, elapsed, objectVars, pc, lag, delta, historyVars>>

\* Each processor runs one thread for a unit of time, or is idle.
Run(T) ==
    /\ T \subseteq running /\ Cardinality(T) <= Processors
    /\ IF pc = "idle" THEN elapsed < MaxGap /\ UNCHANGED lag
                      ELSE lag < MaxLag /\ lag' = lag + 1
    /\ elapsed' = elapsed + 1
    /\ age' = age + 1
    /\ used' = [p \in DOMAIN used |-> used[p] +
                   IF p = Idle THEN Processors - Cardinality(T)
                               ELSE Cardinality(ThreadsOf(p, T))]
    /\ usedT' = [t \in DOMAIN usedT |-> usedT[t] + IF t \in T THEN 1 ELSE 0]
    /\ \A t \in DOMAIN usedT : usedT'[t] <= MaxUsed
    /\ UNCHANGED <<systemVars, cpu, cpuT, pc, delta, interval, threadCalls>>

-----------------------------------------------------------------------------
(* EnumProcesses. *)

Int32(n) == ((n + Half) % (2 * Half)) - Half

\* Mutant: a share of one processor.
ShareOfOne(time) ==
    IF delta = 0 THEN 0 ELSE Int32((time * Unit) \div delta)

Share(time) ==
    IF delta = 0 THEN 0 ELSE Int32(((time * Unit) \div delta) \div Processors)

\* The clock, read before the snapshot.
ReadTicks ==
    /\ pc = "idle"
    /\ pc' = "ticked"
    /\ delta' = elapsed
    /\ lag' = 0
    /\ UNCHANGED <<systemVars, elapsed, objectVars, historyVars>>

\* The processes that a call lists.
Listed(ok, pid) ==
    IF ~ok THEN {} ELSE {p \in Alive \cup {Idle} : pid \in {Everything, p}}

\* CPU of the objects that stay or come.
Shares(times, S) ==
    [x \in S |-> IF x \in DOMAIN times THEN Share(times[x]) ELSE 0]

\* Mutant: the times of an object that stays are not assigned.
RecordNewOnly(times, S) ==
    [x \in S |-> IF x \in DOMAIN times THEN times[x] ELSE 0]

\* The times of the snapshot are stored; other objects are dropped.
Record(times, S) == [x \in S |-> 0]

\* Mutant: threads that the call does not list stay in the map.
EnumThreadsKeepsAll(S) ==
    LET T == {t \in running : Owner[t] \in S}
    IN  /\ cpuT' = Shares(usedT, T)
        /\ usedT' = [t \in T \cup DOMAIN usedT |-> IF t \in T THEN 0
                                                  ELSE usedT[t]]

\* The threads of the listed processes; none are listed under Idle.
EnumThreads(S) ==
    LET T == {t \in running : Owner[t] \in S}
    IN  cpuT' = Shares(usedT, T) /\ usedT' = Record(usedT, T)

\* The snapshot, what is made of it, and the assignment of _prevTicks.  Only
\* EnumProcessesAndThreads takes a pid.
Snapshot(ok, withThreads, pid) ==
    LET S == Listed(ok, pid) IN
    /\ pc = "ticked"
    /\ pc' = "idle"
    /\ withThreads \/ pid = Everything
    /\ cpu' = Shares(used, S)
    /\ used' = Record(used, S)
    /\ IF withThreads THEN EnumThreads(S) ELSE UNCHANGED <<usedT, cpuT>>
    /\ elapsed' = lag
    /\ lag' = 0
    /\ age' = 0 /\ interval' = age
    /\ threadCalls' = IF ~withThreads THEN 0
                      ELSE IF threadCalls < 2 THEN threadCalls + 1 ELSE 2
    /\ UNCHANGED <<systemVars, delta>>

-----------------------------------------------------------------------------
Next ==
    \/ \E t \in Thread : StartThread(t) \/ ExitThread(t)
    \/ \E T \in SUBSET running : Run(T)
    \/ ReadTicks
    \/ \E ok, withThreads \in BOOLEAN, pid \in Process \cup {Everything} :
          Snapshot(ok, withThreads, pid)

Spec == Init /\ [][Next]_vars

-----------------------------------------------------------------------------
(* Properties. *)

\* The sum of shares over S, counted: a share of n is a set of n pairs.
Total(shares, S) == Cardinality(UNION {{x} \X (1 .. shares[x]) : x \in S})

\* All processors did not do more between the last two snapshots than an
\* int32_t holds, measured in the time between the two readings of the clock.
\* Two calls within less time than a snapshot may lag behind the clock can do
\* more, and then a share may overflow.
NoOverflow == delta > 0 => Unit * interval < Half * delta

\* Unless a share can overflow, the CPU column never adds up to more than all
\* processors did between the two snapshots, measured in the time between the
\* two readings of the clock (100% unless the snapshot lagged behind the clock
\* by more than the one before), whatever calls failed, were filtered or came
\* in between.
SharesFit ==
    pc = "idle" /\ NoOverflow =>
        /\ \A p \in DOMAIN cpu : cpu[p] >= 0
        /\ Total(cpu, DOMAIN cpu) * delta <= Unit * interval

\* After two calls with threads in a row, no thread has a greater share than
\* one processor gave it.  After calls without threads it may, because those
\* move _prevTicks and leave the times of the threads.
ThreadOnOneProcessor ==
    pc = "idle" /\ threadCalls = 2 /\ NoOverflow =>
        \A t \in DOMAIN cpuT : /\ cpuT[t] >= 0
                               /\ cpuT[t] * delta * Processors
                                      <= Unit * interval

\* After two calls with threads in a row, the threads of a process have no
\* greater share together than the process: both are measured from the same
\* snapshot, also if the process was not listed for a while.
ThreadsWithinProcess ==
    pc = "idle" /\ threadCalls = 2 /\ NoOverflow =>
        \A p \in DOMAIN cpu :
            Total(cpuT, ThreadsOf(p, DOMAIN cpuT)) <= cpu[p]
=============================================================================
