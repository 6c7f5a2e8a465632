------------------------ MODULE ProcessManagerProofs ------------------------
(***************************************************************************)
(* Proofs about ProcessManager, for every set of ids, threads and times    *)
(* and every number of partial calls.                                      *)
(***************************************************************************)
EXTENDS ProcessManager, TLAPS

\* Running processes have distinct ids.
AliveUnique == \A j, k \in alive : j.Id = k.Id => j = k

KeysUnique(S) == \A p, q \in S : p.Key = q.Key => p = q

\* The two maps have one object per key, of a process that did run.
MapsOK ==
    /\ KeysUnique(processesByKey) /\ KeysUnique(lProcessesByKey)
    /\ \A p \in processesByKey \cup lProcessesByKey : p.Key \in started
    /\ newProcesses \subseteq lProcessesByKey

\* The three tables that the loop body fills agree after every entry.
TablesTogether ==
    /\ lProcesses = lProcessesByKey
    /\ processesById = lProcessesByKey

\* The entries of one snapshot, visited or not, have distinct ids.
SnapshotUnique ==
    /\ \A j, k \in buffer \cup Keys(lProcessesByKey) : j.Id = k.Id => j = k
    /\ buffer \cap Keys(lProcessesByKey) = {}
    /\ buffer \subseteq started

\* While the walk goes on, every object of the previous list is in one of
\* the two maps, whose keys are disjoint; between calls they are the list.
WalkSplits ==
    /\ pc = "walk" =>
         /\ Keys(processesByKey) \cap Keys(lProcessesByKey) = {}
         /\ processes \subseteq processesByKey \cup lProcessesByKey
    /\ pc = "idle" =>
         /\ processesByKey = lProcessesByKey
         /\ processes = lProcessesByKey
         /\ buffer = {}

\* What a complete call has not visited and will not visit is dead.
UnvisitedAreDead ==
    Complete =>
        /\ pc = "walk" =>
             \A p \in processesByKey : p.Key \in buffer \/ p.Key \notin alive
        /\ pc = "idle" =>
             \A p \in terminatedProcesses :
                p.Key \notin alive /\ p.Key \in started

IInv == /\ TypeOK /\ AliveUnique /\ MapsOK /\ TablesTogether
        /\ SnapshotUnique /\ WalkSplits /\ UnvisitedAreDead

-----------------------------------------------------------------------------
(* Helpers. *)

LEMMA IdleKeyType == IdleKey \in ProcKey
  BY DEF ProcKey

\* Adding a thread keeps the shape of a thread list.
LEMMA PushType ==
    ASSUME NEW list \in [ThreadKey -> {0, 1, 2}], NEW T
    PROVE  Push(list, T) \in [ThreadKey -> {0, 1, 2}]
  BY DEF Push

LEMMA NoThreadsType == NoThreads \in [ThreadKey -> {0, 1, 2}]
  BY DEF NoThreads

\* The threads listed under a process are threads.
LEMMA ListedThreadsType ==
    ASSUME TypeOK, NEW k \in ProcKey
    PROVE  ListedThreads(k) \subseteq ThreadKey
  BY DEF TypeOK, ListedThreads, ThreadEntry

\* The thread loop preserves the types of what it changes.
LEMMA BuildThreadsType ==
    ASSUME TypeOK, NEW k \in ProcKey,
           NEW list \in [ThreadKey -> {0, 1, 2}],
           BuildThreads(k, list)
    PROVE  /\ threads' \subseteq ThreadKey /\ newThreads' \subseteq ThreadKey
           /\ threadsByKey' \subseteq ThreadKey
           /\ lThreadsByKey' \subseteq ThreadKey
           /\ processThreads' \in [ProcKey -> [ThreadKey -> {0, 1, 2}]]
  <1>1. ListedThreads(k) \subseteq ThreadKey
    BY ListedThreadsType
  <1>2. Push(list, ListedThreads(k)) \in [ThreadKey -> {0, 1, 2}]
    BY PushType
  <1>3. QED
    BY <1>1, <1>2 DEF BuildThreads, TypeOK

-----------------------------------------------------------------------------
(* Types. *)

LEMMA TypeInit == Init => TypeOK
  BY IdleKeyType, NoThreadsType, MaxPartialIsNat, SMT DEF Init, TypeOK

LEMMA TypeStep == TypeOK /\ [Next]_vars => TypeOK'
  <1> SUFFICES ASSUME TypeOK, [Next]_vars PROVE TypeOK'
    OBVIOUS
  <1>1. ASSUME NEW k \in ProcKey, StartProcess(k) PROVE TypeOK'
    BY <1>1 DEF TypeOK, StartProcess, processVars, threadVars, localVars
  <1>2. ASSUME NEW k \in ProcKey, ExitProcess(k) PROVE TypeOK'
    BY <1>2 DEF TypeOK, ExitProcess, processVars, threadVars, localVars
  <1>3. ASSUME NEW t \in ThreadKey, NEW k \in ProcKey, StartThread(t, k)
        PROVE TypeOK'
    BY <1>3 DEF TypeOK, StartThread, ThreadEntry, processVars, threadVars,
                localVars
  <1>4. ASSUME NEW r \in ThreadEntry, ExitThread(r) PROVE TypeOK'
    BY <1>4 DEF TypeOK, ExitThread, processVars, threadVars, localVars
  <1>5. ASSUME NEW includeThreads \in BOOLEAN, NEW ok \in BOOLEAN,
               NEW pid \in Pid \cup {Zero}, BeginEnum(includeThreads, pid, ok)
        PROVE TypeOK'
    <2>1. partial' \in 0 .. MaxPartial
      BY <1>5, MaxPartialIsNat DEF TypeOK, BeginEnum
    <2>2. buffer' \subseteq ProcKey /\ threadBuffer' \subseteq ThreadEntry
      BY <1>5 DEF TypeOK, BeginEnum
    <2>3. QED
      BY <1>5, <2>1, <2>2 DEF TypeOK, BeginEnum, ClearResults, systemVars
  <1>6. ASSUME NEW k \in ProcKey, VisitNew(k) PROVE TypeOK'
    <2>1. NewObject(k) \in Object
      BY <1>6 DEF NewObject, Object, TypeOK
    <2>2. BuildThreads(k, NoThreads)
      BY <1>6 DEF VisitNew
    <2>3. /\ threads' \subseteq ThreadKey /\ newThreads' \subseteq ThreadKey
          /\ threadsByKey' \subseteq ThreadKey
          /\ lThreadsByKey' \subseteq ThreadKey
          /\ processThreads' \in [ProcKey -> [ThreadKey -> {0, 1, 2}]]
      BY <2>2, BuildThreadsType, NoThreadsType
    <2>4. /\ lProcesses' \subseteq Object /\ lProcessesByKey' \subseteq Object
          /\ processesById' \subseteq Object /\ newProcesses' \subseteq Object
          /\ buffer' \subseteq ProcKey
      BY <1>6, <2>1 DEF VisitNew, Enter, InsertByKey, InsertById, TypeOK
    <2>5. builds' \in [ProcKey -> Nat]
      BY <1>6 DEF VisitNew, TypeOK
    <2>6. QED
      BY <1>6, <2>3, <2>4, <2>5 DEF TypeOK, VisitNew, systemVars
  <1>7. ASSUME NEW pi \in processesByKey, VisitKnown(pi) PROVE TypeOK'
    <2>1. pi \in Object /\ pi.Key \in ProcKey
      BY DEF TypeOK, Object
    <2>2. /\ BuildThreads(pi.Key, processThreads[pi.Key])
          /\ processThreads[pi.Key] \in [ThreadKey -> {0, 1, 2}]
      BY <1>7, <2>1 DEF VisitKnown, TypeOK
    <2>3. /\ threads' \subseteq ThreadKey /\ newThreads' \subseteq ThreadKey
          /\ threadsByKey' \subseteq ThreadKey
          /\ lThreadsByKey' \subseteq ThreadKey
          /\ processThreads' \in [ProcKey -> [ThreadKey -> {0, 1, 2}]]
      BY <2>1, <2>2, BuildThreadsType
    <2>4. /\ lProcesses' \subseteq Object /\ lProcessesByKey' \subseteq Object
          /\ processesById' \subseteq Object /\ processesByKey' \subseteq Object
          /\ buffer' \subseteq ProcKey
      BY <1>7, <2>1 DEF VisitKnown, Enter, Erase, InsertByKey, InsertById, TypeOK
    <2>5. QED
      BY <1>7, <2>3, <2>4 DEF TypeOK, VisitKnown, systemVars
  <1>8. ASSUME FinishEnum PROVE TypeOK'
    BY <1>8 DEF TypeOK, FinishEnum, Publish, systemVars
  <1>9. CASE UNCHANGED vars
    BY <1>9 DEF TypeOK, vars, systemVars, processVars, threadVars, localVars
  <1>10. QED
    BY <1>1, <1>2, <1>3, <1>4, <1>5, <1>6, <1>7, <1>8, <1>9
       DEF Next, System, Enum

\* Every variable keeps its type.
THEOREM TypeCorrect == Spec => []TypeOK
  BY TypeInit, TypeStep, PTL DEF Spec

-----------------------------------------------------------------------------
(* The inductive invariant. *)

LEMMA IInvInit == Init => IInv
  <1> SUFFICES ASSUME Init PROVE IInv
    OBVIOUS
  <1>1. TypeOK
    BY TypeInit
  <1>2. QED
    BY <1>1 DEF Init, IInv, AliveUnique, MapsOK, KeysUnique, TablesTogether,
                SnapshotUnique, WalkSplits, UnvisitedAreDead, Keys, Complete

\* Steps of the system touch none of the program's variables.
LEMMA SystemStep ==
    ASSUME IInv, System
    PROVE  /\ AliveUnique' /\ MapsOK' /\ TablesTogether' /\ SnapshotUnique'
           /\ WalkSplits' /\ UnvisitedAreDead'
  <1> DEFINE Post == /\ AliveUnique' /\ MapsOK' /\ TablesTogether'
                     /\ SnapshotUnique' /\ WalkSplits' /\ UnvisitedAreDead'
  <1> USE DEF IInv, processVars, threadVars, localVars
  <1>1. ASSUME started \subseteq started',
               alive' \ alive \subseteq ProcKey \ started,
               AliveUnique', UNCHANGED <<processVars, localVars>>
        PROVE  Post
    <2>1. MapsOK'
      BY <1>1 DEF MapsOK, KeysUnique
    <2>2. TablesTogether'
      BY <1>1 DEF TablesTogether
    <2>3. SnapshotUnique'
      BY <1>1 DEF SnapshotUnique, Keys
    <2>4. WalkSplits'
      BY <1>1 DEF WalkSplits, Keys
    <2>5. UnvisitedAreDead'
      BY <1>1 DEF UnvisitedAreDead, Complete, MapsOK
    <2>6. QED
      BY <1>1, <2>1, <2>2, <2>3, <2>4, <2>5
  <1>2. ASSUME NEW k \in ProcKey, StartProcess(k) PROVE Post
    <2>1. AliveUnique'
      BY <1>2 DEF StartProcess, AliveUnique
    <2>2. QED
      BY <1>1, <1>2, <2>1 DEF StartProcess
  <1>3. ASSUME NEW k \in ProcKey, ExitProcess(k) PROVE Post
    <2>1. AliveUnique'
      BY <1>3 DEF ExitProcess, AliveUnique
    <2>2. QED
      BY <1>1, <1>3, <2>1 DEF ExitProcess
  <1>4. ASSUME NEW t \in ThreadKey, NEW k \in ProcKey, StartThread(t, k)
        PROVE Post
    BY <1>1, <1>4 DEF StartThread, AliveUnique
  <1>5. ASSUME NEW r \in ThreadEntry, ExitThread(r) PROVE Post
    BY <1>1, <1>5 DEF ExitThread, AliveUnique
  <1>6. QED
    BY <1>2, <1>3, <1>4, <1>5 DEF System

\* A call starts with every running process that passes the filter unvisited.
LEMMA BeginStep ==
    ASSUME IInv, NEW includeThreads \in BOOLEAN, NEW ok \in BOOLEAN,
           NEW pid \in Pid \cup {Zero}, BeginEnum(includeThreads, pid, ok)
    PROVE  /\ AliveUnique' /\ MapsOK' /\ TablesTogether' /\ SnapshotUnique'
           /\ WalkSplits' /\ UnvisitedAreDead'
  <1> USE DEF IInv, BeginEnum, ClearResults, systemVars
  <1>1. AliveUnique'
    BY DEF AliveUnique
  <1>2. MapsOK'
    BY DEF MapsOK, KeysUnique
  <1>3. TablesTogether'
    BY DEF TablesTogether
  <1>4. SnapshotUnique'
    BY DEF SnapshotUnique, Keys, AliveUnique, TypeOK
  <1>5. WalkSplits'
    BY DEF WalkSplits, Keys
  <1>6. UnvisitedAreDead'
    BY DEF UnvisitedAreDead, Complete
  <1>7. QED
    BY <1>1, <1>2, <1>3, <1>4, <1>5, <1>6

\* Entering an object whose key was still unvisited keeps the tables together.
LEMMA EnterStep ==
    ASSUME IInv, NEW o \in Object, o.Key \in buffer, Enter(o),
           UNCHANGED started
    PROVE  /\ lProcesses' = lProcesses \cup {o}
           /\ lProcessesByKey' = lProcessesByKey \cup {o}
           /\ processesById' = processesById \cup {o}
           /\ KeysUnique(lProcessesByKey)'
           /\ TablesTogether' /\ SnapshotUnique'
  <1> USE DEF IInv, Enter
  <1>1. o.Key \notin Keys(lProcessesByKey)
    BY DEF SnapshotUnique
  <1>2. lProcessesByKey' = lProcessesByKey \cup {o}
    BY <1>1 DEF InsertByKey
  <1>3. \A x \in processesById : x.Key.Id # o.Key.Id
    BY <1>1 DEF SnapshotUnique, TablesTogether, Keys
  <1>4. processesById' = processesById \cup {o}
    BY <1>3 DEF InsertById
  <1>5. lProcesses' = lProcesses \cup {o}
    OBVIOUS
  <1>6. KeysUnique(lProcessesByKey)'
    BY <1>1, <1>2 DEF MapsOK, KeysUnique, Keys
  <1>7. TablesTogether'
    BY <1>2, <1>4, <1>5 DEF TablesTogether
  <1>8. Keys(lProcessesByKey)' = Keys(lProcessesByKey) \cup {o.Key}
    BY <1>2 DEF Keys
  <1>9. SnapshotUnique'
    BY <1>1, <1>8 DEF SnapshotUnique
  <1>10. QED
    BY <1>2, <1>4, <1>5, <1>6, <1>7, <1>9

LEMMA VisitNewStep ==
    ASSUME IInv, NEW k \in ProcKey, VisitNew(k)
    PROVE  /\ AliveUnique' /\ MapsOK' /\ TablesTogether' /\ SnapshotUnique'
           /\ WalkSplits' /\ UnvisitedAreDead'
  <1> DEFINE pi == NewObject(k)
  <1> USE DEF IInv, VisitNew, systemVars
  <1>1. pi \in Object /\ pi.Key = k
    BY DEF NewObject, Object, TypeOK
  <1>2. /\ lProcessesByKey' = lProcessesByKey \cup {pi}
        /\ KeysUnique(lProcessesByKey)'
        /\ TablesTogether' /\ SnapshotUnique'
    BY <1>1, EnterStep
  <1>3. AliveUnique'
    BY DEF AliveUnique
  <1>4. MapsOK'
    BY <1>1, <1>2 DEF MapsOK, KeysUnique, SnapshotUnique
  <1>5. WalkSplits'
    BY <1>1, <1>2 DEF WalkSplits, Keys
  <1>6. UnvisitedAreDead'
    <2>1. buffer' = buffer \ {k} /\ k \notin Keys(processesByKey)
      BY <1>1 DEF Enter
    <2>2. QED
      BY <2>1 DEF UnvisitedAreDead, Complete, Keys
  <1>7. QED
    BY <1>2, <1>3, <1>4, <1>5, <1>6

LEMMA VisitKnownStep ==
    ASSUME IInv, NEW pi \in processesByKey, VisitKnown(pi)
    PROVE  /\ AliveUnique' /\ MapsOK' /\ TablesTogether' /\ SnapshotUnique'
           /\ WalkSplits' /\ UnvisitedAreDead'
  <1> USE DEF IInv, VisitKnown, Erase, systemVars
  <1>1. pi \in Object
    BY DEF TypeOK
  <1>2. /\ lProcessesByKey' = lProcessesByKey \cup {pi}
        /\ KeysUnique(lProcessesByKey)'
        /\ TablesTogether' /\ SnapshotUnique'
    BY <1>1, EnterStep
  <1>3. AliveUnique'
    BY DEF AliveUnique
  <1>4. MapsOK'
    BY <1>2 DEF MapsOK, KeysUnique
  <1>5. WalkSplits'
    BY <1>2 DEF WalkSplits, Keys, MapsOK, KeysUnique
  <1>6. UnvisitedAreDead'
    <2>1. buffer' = buffer \ {pi.Key}
      BY DEF Enter
    <2>2. \A p \in processesByKey' : p.Key # pi.Key
      BY DEF MapsOK, KeysUnique
    <2>3. QED
      BY <2>1, <2>2 DEF UnvisitedAreDead, Complete
  <1>7. QED
    BY <1>2, <1>3, <1>4, <1>5, <1>6

LEMMA FinishStep ==
    ASSUME IInv, FinishEnum
    PROVE  /\ AliveUnique' /\ MapsOK' /\ TablesTogether' /\ SnapshotUnique'
           /\ WalkSplits' /\ UnvisitedAreDead'
  <1> USE DEF IInv, FinishEnum, Publish, systemVars
  <1>1. AliveUnique'
    BY DEF AliveUnique
  <1>2. MapsOK'
    BY DEF MapsOK, KeysUnique
  <1>3. TablesTogether'
    BY DEF TablesTogether
  <1>4. SnapshotUnique'
    BY DEF SnapshotUnique, Keys
  <1>5. WalkSplits'
    BY DEF WalkSplits, TablesTogether
  <1>6. UnvisitedAreDead'
    BY DEF UnvisitedAreDead, Complete, MapsOK
  <1>7. QED
    BY <1>1, <1>2, <1>3, <1>4, <1>5, <1>6

LEMMA IInvStep == IInv /\ [Next]_vars => IInv'
  <1> SUFFICES ASSUME IInv, [Next]_vars PROVE IInv'
    OBVIOUS
  <1>1. TypeOK'
    BY TypeStep DEF IInv
  <1> DEFINE Rest == /\ AliveUnique /\ MapsOK /\ TablesTogether
                     /\ SnapshotUnique /\ WalkSplits /\ UnvisitedAreDead
  <1>2. CASE System
    BY <1>1, <1>2, SystemStep DEF IInv
  <1>3. ASSUME NEW includeThreads \in BOOLEAN, NEW ok \in BOOLEAN,
               NEW pid \in Pid \cup {Zero}, BeginEnum(includeThreads, pid, ok)
        PROVE Rest'
    BY <1>3, BeginStep
  <1>4. ASSUME NEW k \in ProcKey, VisitNew(k) PROVE Rest'
    BY <1>4, VisitNewStep
  <1>5. ASSUME NEW pi \in processesByKey, VisitKnown(pi) PROVE Rest'
    BY <1>5, VisitKnownStep
  <1>6. CASE FinishEnum
    BY <1>1, <1>6, FinishStep DEF IInv
  <1>7. CASE UNCHANGED vars
    BY <1>1, <1>7 DEF IInv, AliveUnique, MapsOK, KeysUnique, TablesTogether,
          SnapshotUnique, WalkSplits, UnvisitedAreDead, Keys, Complete,
          vars, systemVars, processVars, localVars
  <1>8. CASE Enum
    BY <1>1, <1>3, <1>4, <1>5, <1>6, <1>8 DEF Enum, IInv
  <1>9. QED
    BY <1>2, <1>7, <1>8 DEF Next

LEMMA InductiveInvariant == Spec => []IInv
  BY IInvInit, IInvStep, PTL DEF Spec

-----------------------------------------------------------------------------
(* What it gives. *)

\* Between calls the list and the two maps of processes are one and the same,
\* without two objects for one id.
THEOREM TablesAlwaysAgree == Spec => []TablesAgree
  <1>1. IInv => TablesAgree
    BY DEF IInv, TablesAgree, TablesTogether, WalkSplits, SnapshotUnique,
           MapsOK, KeysUnique, Keys
  <1>2. QED
    BY <1>1, InductiveInvariant, PTL

\* A call that saw every process reports only dead ones as terminated.
THEOREM TerminatedAlwaysDead == Spec => []TerminatedAreDead
  <1>1. IInv => TerminatedAreDead
    BY DEF IInv, TerminatedAreDead, UnvisitedAreDead
  <1>2. QED
    BY <1>1, InductiveInvariant, PTL

\* A process that stays listed keeps its object.
THEOREM IdentityIsStable == Spec => StableIdentity
  <1> DEFINE Keeps ==
        \A p \in processes, q \in processes' : p.Key = q.Key => p = q
  <1>1. IInv /\ [Next]_vars => [Keeps]_vars
    <2> SUFFICES ASSUME IInv, [Next]_vars PROVE Keeps
      OBVIOUS
    <2>1. \A p \in processes, q \in processes \cup lProcesses :
             p.Key = q.Key => p = q
      <3>1. pc = "idle" \/ pc = "walk"
        BY DEF IInv, TypeOK
      <3>2. CASE pc = "idle"
        <4>1. processes = processesByKey /\ lProcesses = processesByKey
          BY <3>2 DEF IInv, WalkSplits, TablesTogether
        <4>2. QED
          BY <4>1 DEF IInv, MapsOK, KeysUnique
      <3>3. CASE pc = "walk"
        <4>1. /\ processes \subseteq processesByKey \cup lProcesses
              /\ \A p \in processesByKey, q \in lProcesses : p.Key # q.Key
          BY <3>3 DEF IInv, WalkSplits, TablesTogether, Keys
        <4>2. KeysUnique(processesByKey) /\ KeysUnique(lProcesses)
          BY DEF IInv, MapsOK, TablesTogether
        <4>3. QED
          BY <4>1, <4>2 DEF KeysUnique
      <3>4. QED
        BY <3>1, <3>2, <3>3
    <2>2. processes' = processes \/ processes' = lProcesses
      BY DEF Next, System, Enum, StartProcess, ExitProcess, StartThread,
             ExitThread, BeginEnum, VisitNew, VisitKnown, FinishEnum, Publish,
             vars, processVars
    <2>3. QED
      BY <2>1, <2>2
  <1>2. QED
    BY <1>1, InductiveInvariant, PTL DEF Spec, StableIdentity

-----------------------------------------------------------------------------
(* The process side implements SnapshotDiff. *)

\* The abstract "known": the keys of the previous snapshot.
Known == Keys(processesByKey) \cup Keys(lProcessesByKey \ newProcesses)

\* Visiting an entry moves keys between the maps and leaves "known" alone.
LEMMA VisitKeepsKnown ==
    ASSUME IInv,
           \/ \E k \in ProcKey : VisitNew(k)
           \/ \E pi \in processesByKey : VisitKnown(pi)
    PROVE  Known' = Known
  <1>1. ASSUME NEW k \in ProcKey, VisitNew(k) PROVE Known' = Known
    <2> DEFINE pi == NewObject(k)
    <2>1. pi \in Object /\ pi.Key = k
      BY DEF NewObject, Object, TypeOK, IInv
    <2>2. /\ lProcessesByKey' = lProcessesByKey \cup {pi}
          /\ newProcesses' = newProcesses \cup {pi}
          /\ processesByKey' = processesByKey
      BY <1>1, <2>1, EnterStep DEF VisitNew, systemVars
    <2>3. pi \notin lProcessesByKey
      BY <1>1, <2>1 DEF IInv, SnapshotUnique, Keys, VisitNew
    <2>4. lProcessesByKey' \ newProcesses' = lProcessesByKey \ newProcesses
      BY <2>2, <2>3
    <2>5. QED
      BY <2>2, <2>4 DEF Known, Keys
  <1>2. ASSUME NEW pi \in processesByKey, VisitKnown(pi) PROVE Known' = Known
    <2>1. pi \in Object
      BY DEF TypeOK, IInv
    <2>2. /\ lProcessesByKey' = lProcessesByKey \cup {pi}
          /\ newProcesses' = newProcesses
          /\ processesByKey' = processesByKey \ {pi}
      BY <1>2, <2>1, EnterStep DEF VisitKnown, Erase, systemVars
    <2>3. pi \notin newProcesses
      BY <1>2 DEF IInv, SnapshotUnique, MapsOK, Keys, VisitKnown
    <2>4. QED
      BY <2>2, <2>3 DEF Known, Keys
  <1>3. QED
    BY <1>1, <1>2

LEMMA DiffInit == Init => ProcessDiff!Init
  BY DEF Init, ProcessDiff!Init, Keys

LEMMA DiffStart ==
    ASSUME IInv, NEW includeThreads \in BOOLEAN, NEW ok \in BOOLEAN,
           NEW pid \in Pid \cup {Zero}, BeginEnum(includeThreads, pid, ok)
    PROVE  ProcessDiff!Start
  <1>1. Known' = Known
    BY DEF BeginEnum, ClearResults, Known, Keys, IInv, WalkSplits
  <1>2. QED
    BY <1>1 DEF BeginEnum, ClearResults, ProcessDiff!Start, Known, Keys

LEMMA DiffPublish ==
    ASSUME IInv, FinishEnum
    PROVE  \E snapshot \in SUBSET ProcKey : ProcessDiff!Publish(snapshot)
  <1> DEFINE listed == Keys(lProcessesByKey)
  <1> USE DEF FinishEnum, Publish
  <1>1. listed \in SUBSET ProcKey
    BY DEF IInv, TypeOK, Keys, Object
  <1>2. Known' = listed
    BY DEF Known, Keys
  <1>3. Keys(newProcesses) = listed \ Known
    BY DEF Known, Keys, IInv, MapsOK, KeysUnique, WalkSplits
  <1>4. Keys(processesByKey) = Known \ listed
    BY DEF Known, Keys, IInv, MapsOK, WalkSplits
  <1>5. ProcessDiff!Publish(listed)
    BY <1>2, <1>3, <1>4 DEF ProcessDiff!Publish, Known, Keys
  <1>6. QED
    BY <1>1, <1>5

\* EnumProcesses reports new, listed and terminated processes that are
\* consistent with one another and with the previous call.
THEOREM ProcessSideRefines == Spec => ImplementsProcessDiff
  <1>1. IInv /\ [Next]_vars => [ProcessDiff!Next]_(ProcessDiff!vars)
    <2> SUFFICES ASSUME IInv, [Next]_vars
                 PROVE  [ProcessDiff!Next]_(ProcessDiff!vars)
      OBVIOUS
    <2>1. ASSUME Known' = Known, UNCHANGED <<pc, terminatedProcesses>>,
                 pc = "idle" => newProcesses' = newProcesses
          PROVE  UNCHANGED ProcessDiff!vars
      BY <2>1 DEF ProcessDiff!vars, Known, Keys
    <2>2. CASE System \/ UNCHANGED vars
      <3>1. UNCHANGED <<pc, terminatedProcesses, newProcesses, processesByKey,
                        lProcessesByKey>>
        BY <2>2 DEF System, StartProcess, ExitProcess, StartThread, ExitThread,
                    processVars, localVars, vars
      <3>2. QED
        BY <2>1, <3>1 DEF Known, Keys
    <2>3. CASE \E includeThreads, ok \in BOOLEAN, pid \in Pid \cup {Zero} :
                  BeginEnum(includeThreads, pid, ok)
      BY <2>3, DiffStart DEF ProcessDiff!Next
    <2>4. CASE \/ \E k \in ProcKey : VisitNew(k)
               \/ \E pi \in processesByKey : VisitKnown(pi)
      <3>1. pc = "walk" /\ UNCHANGED <<pc, terminatedProcesses>>
        BY <2>4 DEF VisitNew, VisitKnown
      <3>2. QED
        BY <2>1, <2>4, <3>1, VisitKeepsKnown
    <2>5. CASE FinishEnum
      BY <2>5, DiffPublish DEF ProcessDiff!Next
    <2>6. QED
      BY <2>2, <2>3, <2>4, <2>5 DEF Next, Enum
  <1>2. QED
    BY <1>1, DiffInit, InductiveInvariant, PTL
       DEF Spec, ImplementsProcessDiff, ProcessDiff!Spec

-----------------------------------------------------------------------------
(* The thread side. *)

\* A thread runs in one process, and was started once.
RunningOwned ==
    /\ \A r, s \in running : r.Thread = s.Thread => r = s
    /\ \A r \in running : r.Thread \in threadsStarted

BufferOwned == \A r, s \in threadBuffer : r.Thread = s.Thread => r = s

\* While a walk with threads goes on, the old map and the new one are disjoint,
\* and no thread of a process still to visit is in the new one.
ThreadsSplit ==
    ThreadWalk =>
        /\ newThreads \subseteq lThreadsByKey
        /\ lThreadsByKey \cap threadsByKey = {}
        /\ \A r \in threadBuffer :
               r.Owner \in buffer => r.Thread \notin lThreadsByKey

\* The processes visited so far have their threads of the snapshot.
VisitedCovered ==
    call.threads =>
        \A k \in Keys(lProcessesByKey), r \in threadBuffer :
            (r.Owner = k /\ k # IdleKey) =>
                /\ processThreads[k][r.Thread] > 0
                /\ r.Thread \in threads

TInv == RunningOwned /\ BufferOwned /\ ThreadsSplit /\ VisitedCovered

LEMMA TInvInit == Init => TInv
  BY DEF Init, TInv, RunningOwned, BufferOwned, ThreadsSplit, ThreadWalk,
         VisitedCovered, Keys

\* Steps that leave the call alone disturb only which threads run.
LEMMA ThreadSystemStep ==
    ASSUME TypeOK, TInv, System
    PROVE  TInv' /\ UNCHANGED <<threadVars, localVars>>
  <1>1. UNCHANGED <<processVars, threadVars, localVars>>
    BY DEF System, StartProcess, ExitProcess, StartThread, ExitThread
  <1>2. RunningOwned'
    <2>1. ASSUME NEW k \in ProcKey, StartProcess(k) PROVE RunningOwned'
      BY <2>1 DEF StartProcess, RunningOwned, TInv
    <2>2. ASSUME NEW k \in ProcKey, ExitProcess(k) PROVE RunningOwned'
      BY <2>2 DEF ExitProcess, RunningOwned, TInv
    <2>3. ASSUME NEW t \in ThreadKey, NEW k \in ProcKey, StartThread(t, k)
          PROVE RunningOwned'
      BY <2>3 DEF StartThread, RunningOwned, TInv
    <2>4. ASSUME NEW r \in ThreadEntry, ExitThread(r) PROVE RunningOwned'
      BY <2>4 DEF ExitThread, RunningOwned, TInv
    <2>5. QED
      BY <2>1, <2>2, <2>3, <2>4 DEF System
  <1>3. BufferOwned' /\ ThreadsSplit' /\ VisitedCovered'
    BY <1>1 DEF TInv, BufferOwned, ThreadsSplit, ThreadWalk, VisitedCovered,
                Keys, processVars, threadVars, localVars
  <1>4. QED
    BY <1>1, <1>2, <1>3 DEF TInv

LEMMA ThreadBeginStep ==
    ASSUME TInv, NEW includeThreads \in BOOLEAN, NEW ok \in BOOLEAN,
           NEW pid \in Pid \cup {Zero}, BeginEnum(includeThreads, pid, ok)
    PROVE  TInv'
  <1> USE DEF BeginEnum, ClearResults, systemVars, TInv
  <1>1. RunningOwned'
    BY DEF RunningOwned
  <1>2. BufferOwned'
    BY DEF BufferOwned, RunningOwned
  <1>3. ThreadsSplit'
    BY DEF ThreadsSplit, ThreadWalk
  <1>4. VisitedCovered'
    BY DEF VisitedCovered, Keys
  <1>5. QED
    BY <1>1, <1>2, <1>3, <1>4

\* What a visit, of a new process or a known one, does to the threads.
LEMMA VisitThreads ==
    ASSUME IInv, TInv, NEW o \in Object, o.Key \in buffer, pc = "walk",
           NEW list \in [ThreadKey -> {0, 1, 2}],
           BuildThreads(o.Key, list), Enter(o),
           UNCHANGED <<systemVars, pc, call, threadBuffer>>
    PROVE  /\ TInv'
           /\ ThreadWalk => (threadsByKey \cup (lThreadsByKey \ newThreads))'
                              = threadsByKey \cup (lThreadsByKey \ newThreads)
           /\ ~ThreadWalk => UNCHANGED <<threadsByKey, newThreads>>
  <1> DEFINE k == o.Key
             T == ListedThreads(k)
  <1> USE DEF TInv
  <1>1. /\ lProcessesByKey' = lProcessesByKey \cup {o}
        /\ k \in ProcKey /\ k \notin Keys(lProcessesByKey)
        /\ buffer' = buffer \ {k}
    BY EnterStep DEF IInv, SnapshotUnique, TypeOK, Enter, systemVars
  <1>2. /\ \A t \in T : \E r \in threadBuffer : r.Thread = t /\ r.Owner = k
        /\ \A r \in threadBuffer :
              (call.threads /\ r.Owner = k /\ k # IdleKey) => r.Thread \in T
        /\ ~call.threads => T = {}
        /\ T \subseteq ThreadKey
    <2>1. k # IdleKey => k.Id # Zero
      BY <1>1, ZeroIsNotPid DEF ProcKey, IdleKey
    <2>2. T \subseteq ThreadKey
      BY <1>1, ListedThreadsType DEF IInv
    <2>3. QED
      BY <2>1, <2>2 DEF ListedThreads
  <1>3. ThreadWalk => T \cap lThreadsByKey = {}
    BY <1>2 DEF ThreadsSplit
  <1>4. /\ threads' = threads \cup T
        /\ newThreads' = newThreads \cup (T \ threadsByKey)
        /\ threadsByKey' = threadsByKey \ T
        /\ lThreadsByKey' = lThreadsByKey \cup T
        /\ processThreads' = [processThreads EXCEPT ![k] = Push(list, T)]
    BY DEF BuildThreads
  <1>5. RunningOwned' /\ BufferOwned'
    BY DEF RunningOwned, BufferOwned, systemVars
  <1>6. ThreadsSplit'
    <2> SUFFICES ASSUME ThreadWalk PROVE ThreadsSplit'
      BY DEF ThreadsSplit, ThreadWalk
    <2>1. newThreads' \subseteq lThreadsByKey'
      BY <1>4 DEF ThreadsSplit
    <2>2. lThreadsByKey' \cap threadsByKey' = {}
      BY <1>4 DEF ThreadsSplit
    <2>3. ASSUME NEW r \in threadBuffer, r.Owner \in buffer'
          PROVE  r.Thread \notin lThreadsByKey'
      <3>1. r.Owner # k /\ r.Thread \notin lThreadsByKey
        BY <1>1, <2>3 DEF ThreadsSplit
      <3>2. r.Thread \notin T
        BY <1>2, <3>1 DEF BufferOwned
      <3>3. QED
        BY <1>4, <3>1, <3>2
    <2>4. QED
      BY <2>1, <2>2, <2>3 DEF ThreadsSplit
  <1>7. VisitedCovered'
    <2> SUFFICES ASSUME call.threads,
                        NEW j \in Keys(lProcessesByKey'), NEW r \in threadBuffer,
                        r.Owner = j, j # IdleKey
                 PROVE  processThreads'[j][r.Thread] > 0 /\ r.Thread \in threads'
      BY DEF VisitedCovered, Keys
    <2>1. j = k \/ j \in Keys(lProcessesByKey)
      BY <1>1 DEF Keys
    <2>2. j \in ProcKey /\ processThreads \in [ProcKey -> [ThreadKey -> {0, 1, 2}]]
      BY <1>1, <2>1 DEF IInv, TypeOK, Keys, Object
    <2>3. CASE j = k
      <3>1. r.Thread \in T
        BY <1>2, <2>3
      <3>2. Push(list, T)[r.Thread] > 0
        BY <1>2, <3>1 DEF Push
      <3>3. QED
        BY <1>4, <2>2, <2>3, <3>1, <3>2
    <2>4. CASE j # k
      BY <1>4, <2>1, <2>2, <2>4 DEF VisitedCovered
    <2>5. QED
      BY <2>3, <2>4
  <1>8. ThreadWalk => (threadsByKey \cup (lThreadsByKey \ newThreads))'
                        = threadsByKey \cup (lThreadsByKey \ newThreads)
    <2> SUFFICES ASSUME ThreadWalk
                 PROVE  threadsByKey' \cup (lThreadsByKey' \ newThreads')
                            = threadsByKey \cup (lThreadsByKey \ newThreads)
      OBVIOUS
    <2>1. newThreads \subseteq lThreadsByKey /\ T \cap newThreads = {}
      BY <1>3 DEF ThreadsSplit
    <2>2. QED
      BY <1>3, <1>4, <2>1
  <1>9. ~ThreadWalk => UNCHANGED <<threadsByKey, newThreads>>
    BY <1>2, <1>4 DEF ThreadWalk
  <1>10. QED
    BY <1>5, <1>6, <1>7, <1>8, <1>9

\* VisitThreads for the two actions that visit.
LEMMA ThreadVisitStep ==
    ASSUME IInv, TInv,
           \/ \E k \in ProcKey : VisitNew(k)
           \/ \E pi \in processesByKey : VisitKnown(pi)
    PROVE  /\ TInv'
           /\ ThreadWalk => (threadsByKey \cup (lThreadsByKey \ newThreads))'
                              = threadsByKey \cup (lThreadsByKey \ newThreads)
           /\ ~ThreadWalk => UNCHANGED <<threadsByKey, newThreads>>
           /\ UNCHANGED <<pc, call, terminatedThreads>>
  <1> DEFINE Post ==
        /\ TInv'
        /\ ThreadWalk => (threadsByKey \cup (lThreadsByKey \ newThreads))'
                           = threadsByKey \cup (lThreadsByKey \ newThreads)
        /\ ~ThreadWalk => UNCHANGED <<threadsByKey, newThreads>>
        /\ UNCHANGED <<pc, call, terminatedThreads>>
  <1>1. ASSUME NEW k \in ProcKey, VisitNew(k) PROVE Post
    <2> DEFINE o == NewObject(k)
    <2>1. o \in Object /\ o.Key = k
      BY DEF NewObject, Object, TypeOK, IInv
    <2>2. /\ o.Key \in buffer /\ pc = "walk" /\ BuildThreads(o.Key, NoThreads)
          /\ Enter(o) /\ UNCHANGED <<systemVars, pc, call, threadBuffer>>
          /\ UNCHANGED terminatedThreads
      BY <1>1, <2>1 DEF VisitNew
    <2> HIDE DEF o
    <2>3. QED
      BY <2>1, <2>2, VisitThreads, NoThreadsType
  <1>2. ASSUME NEW pi \in processesByKey, VisitKnown(pi) PROVE Post
    <2>1. pi \in Object /\ processThreads[pi.Key] \in [ThreadKey -> {0, 1, 2}]
      BY DEF TypeOK, IInv, Object
    <2>2. /\ pi.Key \in buffer /\ pc = "walk"
          /\ BuildThreads(pi.Key, processThreads[pi.Key])
          /\ Enter(pi) /\ UNCHANGED <<systemVars, pc, call, threadBuffer>>
          /\ UNCHANGED terminatedThreads
      BY <1>2 DEF VisitKnown
    <2>3. QED
      BY <2>1, <2>2, VisitThreads
  <1>3. QED
    BY <1>1, <1>2

LEMMA ThreadFinishStep ==
    ASSUME IInv, TInv, FinishEnum
    PROVE  TInv'
  <1> USE DEF FinishEnum, Publish, systemVars, TInv
  <1>1. RunningOwned' /\ BufferOwned'
    BY DEF RunningOwned, BufferOwned
  <1>2. ThreadsSplit'
    BY DEF ThreadsSplit, ThreadWalk
  <1>3. VisitedCovered'
    BY DEF VisitedCovered, Keys
  <1>4. QED
    BY <1>1, <1>2, <1>3

LEMMA TInvStep == IInv /\ TInv /\ [Next]_vars => TInv'
  <1> SUFFICES ASSUME IInv, TInv, [Next]_vars PROVE TInv'
    OBVIOUS
  <1>1. CASE System
    BY <1>1, ThreadSystemStep DEF IInv
  <1>2. CASE \E includeThreads, ok \in BOOLEAN, pid \in Pid \cup {Zero} :
                BeginEnum(includeThreads, pid, ok)
    BY <1>2, ThreadBeginStep
  <1>3. CASE \/ \E k \in ProcKey : VisitNew(k)
             \/ \E pi \in processesByKey : VisitKnown(pi)
    BY <1>3, ThreadVisitStep
  <1>4. CASE FinishEnum
    BY <1>4, ThreadFinishStep
  <1>5. CASE UNCHANGED vars
    BY <1>5 DEF TInv, RunningOwned, BufferOwned, ThreadsSplit, ThreadWalk,
           VisitedCovered, Keys, vars, systemVars, processVars, threadVars,
           localVars
  <1>6. QED
    BY <1>1, <1>2, <1>3, <1>4, <1>5 DEF Next, Enum

LEMMA ThreadInvariant == Spec => [](IInv /\ TInv)
  BY TInvInit, TInvStep, InductiveInvariant, PTL DEF Spec

\* After a call with threads the thread list of every listed process has each
\* of its threads.
THEOREM ThreadListsAlwaysCover == Spec => []ThreadListsCover
  <1>1. IInv /\ TInv => ThreadListsCover
    BY DEF IInv, TInv, VisitedCovered, ThreadListsCover, WalkSplits, Keys
  <1>2. QED
    BY <1>1, ThreadInvariant, PTL

LEMMA ThreadDiffInit == Init => ThreadDiff!Init
  BY DEF Init, ThreadDiff!Init, ThreadWalk

LEMMA ThreadDiffStart ==
    ASSUME NEW includeThreads \in BOOLEAN, NEW ok \in BOOLEAN,
           NEW pid \in Pid \cup {Zero}, BeginEnum(includeThreads, pid, ok)
    PROVE  [ThreadDiff!Next]_(ThreadDiff!vars)
  <1> USE DEF BeginEnum, ClearResults
  <1>1. CASE includeThreads
    BY <1>1 DEF ThreadDiff!Next, ThreadDiff!Start, ThreadWalk
  <1>2. CASE ~includeThreads
    BY <1>2 DEF ThreadDiff!vars, ThreadWalk
  <1>3. QED
    BY <1>1, <1>2

LEMMA ThreadDiffPublish ==
    ASSUME IInv, TInv, FinishEnum
    PROVE  [ThreadDiff!Next]_(ThreadDiff!vars)
  <1> USE DEF FinishEnum
  <1>1. CASE call.threads
    <2>1. lThreadsByKey \in SUBSET ThreadKey
      BY DEF IInv, TypeOK
    <2>2. ThreadDiff!Publish(lThreadsByKey)
      BY <1>1 DEF TInv, ThreadsSplit, ThreadWalk, ThreadDiff!Publish
    <2>3. QED
      BY <2>1, <2>2 DEF ThreadDiff!Next
  <1>2. CASE ~call.threads
    BY <1>2 DEF ThreadDiff!vars, ThreadWalk
  <1>3. QED
    BY <1>1, <1>2

\* The threads reported as new, listed and terminated are consistent with one
\* another over all calls that ask for threads.
THEOREM ThreadSideRefines == Spec => ImplementsThreadDiff
  <1>1. IInv /\ TInv /\ [Next]_vars => [ThreadDiff!Next]_(ThreadDiff!vars)
    <2> SUFFICES ASSUME IInv, TInv, [Next]_vars
                 PROVE  [ThreadDiff!Next]_(ThreadDiff!vars)
      OBVIOUS
    <2>1. CASE System
      <3>1. UNCHANGED <<threadVars, localVars>>
        BY <2>1, ThreadSystemStep DEF IInv
      <3>2. QED
        BY <3>1 DEF ThreadDiff!vars, ThreadWalk, threadVars, localVars
    <2>2. CASE \E includeThreads, ok \in BOOLEAN, pid \in Pid \cup {Zero} :
                  BeginEnum(includeThreads, pid, ok)
      BY <2>2, ThreadDiffStart
    <2>3. CASE \/ \E k \in ProcKey : VisitNew(k)
               \/ \E pi \in processesByKey : VisitKnown(pi)
      BY <2>3, ThreadVisitStep DEF ThreadDiff!vars, ThreadWalk
    <2>4. CASE FinishEnum
      BY <2>4, ThreadDiffPublish
    <2>5. CASE UNCHANGED vars
      BY <2>5 DEF ThreadDiff!vars, ThreadWalk, vars, threadVars, localVars
    <2>6. QED
      BY <2>1, <2>2, <2>3, <2>4, <2>5 DEF Next, Enum
  <1>2. QED
    BY <1>1, ThreadDiffInit, ThreadInvariant, PTL
       DEF Spec, ImplementsThreadDiff, ThreadDiff!Spec

-----------------------------------------------------------------------------
(* For its caller the walk is one atomic step. *)

\* Nothing joins the maps in the middle of a walk but what is new: what is
\* left in the old map and what was found again was listed before, and what
\* is new was not.
OldListed ==
    pc = "walk" =>
        /\ processesByKey \subseteq processes
        /\ lProcessesByKey \ newProcesses \subseteq processes
        /\ Keys(newProcesses) \cap Keys(processes) = {}

WalkInv == IInv /\ OldListed

\* What one visit does to the tables of processes.
VisitsNew(k) ==
    /\ pc = "walk" /\ k \in buffer /\ k \notin Keys(processesByKey)
    /\ NewObject(k) \notin lProcessesByKey
    /\ lProcessesByKey' = lProcessesByKey \cup {NewObject(k)}
    /\ newProcesses' = newProcesses \cup {NewObject(k)}
    /\ builds' = [builds EXCEPT ![k] = @ + 1]
    /\ buffer' = buffer \ {k}
    /\ UNCHANGED <<alive, started, pc, processes, terminatedProcesses,
                   processesByKey>>

VisitsKnown(pi) ==
    /\ pc = "walk" /\ pi.Key \in buffer
    /\ lProcessesByKey' = lProcessesByKey \cup {pi}
    /\ processesByKey' = processesByKey \ {pi}
    /\ buffer' = buffer \ {pi.Key}
    /\ UNCHANGED <<alive, started, pc, processes, terminatedProcesses,
                   newProcesses, builds>>

LEMMA NewVisit ==
    ASSUME IInv, NEW k \in ProcKey, VisitNew(k)
    PROVE  VisitsNew(k)
  <1> DEFINE o == NewObject(k)
  <1>1. o \in Object /\ o.Key = k
    BY DEF NewObject, Object, TypeOK, IInv
  <1>2. o.Key \in buffer /\ Enter(o) /\ UNCHANGED started
    BY <1>1 DEF VisitNew, systemVars
  <1>3. lProcessesByKey' = lProcessesByKey \cup {o}
    <2> HIDE DEF o
    <2>1. QED
      BY <1>1, <1>2, EnterStep
  <1>4. o \notin lProcessesByKey
    BY <1>1, <1>2 DEF IInv, SnapshotUnique, Keys
  <1>5. buffer' = buffer \ {k}
    BY <1>1, <1>2 DEF Enter
  <1>6. QED
    BY <1>3, <1>4, <1>5 DEF VisitNew, VisitsNew, systemVars

LEMMA KnownVisit ==
    ASSUME IInv, NEW pi \in processesByKey, VisitKnown(pi)
    PROVE  VisitsKnown(pi)
  <1>1. pi \in Object
    BY DEF TypeOK, IInv
  <1>2. pi.Key \in buffer /\ Enter(pi) /\ UNCHANGED started
    BY DEF VisitKnown, systemVars
  <1>3. lProcessesByKey' = lProcessesByKey \cup {pi}
    BY <1>1, <1>2, EnterStep
  <1>4. QED
    BY <1>2, <1>3 DEF VisitKnown, VisitsKnown, Enter, Erase, systemVars

LEMMA OldListedStep == IInv /\ OldListed /\ [Next]_vars => OldListed'
  <1> SUFFICES ASSUME IInv, OldListed, [Next]_vars PROVE OldListed'
    OBVIOUS
  <1>1. CASE System \/ UNCHANGED vars
    <2>1. UNCHANGED <<pc, processes, processesByKey, lProcessesByKey,
                      newProcesses>>
      BY <1>1 DEF System, StartProcess, ExitProcess, StartThread, ExitThread,
                  processVars, localVars, vars
    <2>2. QED
      BY <2>1 DEF OldListed
  <1>2. CASE \E includeThreads, ok \in BOOLEAN, pid \in Pid \cup {Zero} :
                BeginEnum(includeThreads, pid, ok)
    <2>1. /\ processesByKey' = processes' /\ lProcessesByKey' = {}
          /\ newProcesses' = {}
      BY <1>2 DEF BeginEnum, ClearResults, IInv, WalkSplits
    <2>2. QED
      BY <2>1 DEF OldListed, Keys
  <1>3. ASSUME NEW k \in ProcKey, VisitNew(k) PROVE OldListed'
    <2>1. VisitsNew(k) /\ NewObject(k).Key = k
      BY <1>3, NewVisit DEF NewObject
    <2>2. k \notin Keys(processes)
      BY <2>1 DEF VisitsNew, IInv, SnapshotUnique, WalkSplits, Keys
    <2>3. Keys(newProcesses') = Keys(newProcesses) \cup {k}
      BY <2>1 DEF VisitsNew, Keys
    <2>4. QED
      BY <2>1, <2>2, <2>3 DEF VisitsNew, OldListed
  <1>4. ASSUME NEW pi \in processesByKey, VisitKnown(pi) PROVE OldListed'
    BY <1>4, KnownVisit DEF VisitsKnown, OldListed
  <1>5. CASE FinishEnum
    BY <1>5 DEF FinishEnum, OldListed
  <1>6. QED
    BY <1>1, <1>2, <1>3, <1>4, <1>5 DEF Next, Enum

LEMMA WalkInvariant == Spec => []WalkInv
  <1>1. Init => OldListed
    BY DEF Init, OldListed
  <1>2. QED
    BY <1>1, OldListedStep, InductiveInvariant, PTL DEF Spec, WalkInv

\* What the caller is to see of the table.
TableList == IF pc = "idle" THEN processes
             ELSE {o \in processes : o.Key \in Snapshot} \cup newProcesses
                     \cup {NewObject(k) : k \in ToBuild}

TableGone == IF pc = "idle" THEN terminatedProcesses
             ELSE {o \in processes : o.Key \notin Snapshot}

TableBuilds == [k \in ProcKey |-> IF k \in ToBuild THEN builds[k] + 1
                                                   ELSE builds[k]]

LEMMA TableInit == Init => Table!Init
  <1> SUFFICES ASSUME Init PROVE Table!Init
    OBVIOUS
  <1>1. TableBuilds = [k \in ProcKey |-> 0]
    BY DEF Init, TableBuilds, ToBuild
  <1>2. QED
    BY <1>1 DEF Init, Table!Init, TableBuilds

\* Between calls nothing is to be built.
LEMMA IdleTable ==
    ASSUME IInv, pc = "idle"
    PROVE  TableList = processes /\ TableBuilds = builds
  <1>1. ToBuild = {}
    BY DEF IInv, WalkSplits, ToBuild
  <1>2. builds \in [ProcKey -> Nat]
    BY DEF IInv, TypeOK
  <1>3. QED
    BY <1>1, <1>2 DEF TableList, TableBuilds

\* Enum of the abstract table, in the terms above.
LEMMA TableEnum ==
    ASSUME NEW S,
           TableList' = {o \in TableList : o.Key \in S}
                           \cup {[Key |-> k, Serial |-> TableBuilds[k] + 1] :
                                   k \in S \ Keys(TableList)},
           TableGone' = {o \in TableList : o.Key \notin S},
           TableBuilds' = [k \in ProcKey |-> IF k \in S \ Keys(TableList)
                                             THEN TableBuilds[k] + 1
                                             ELSE TableBuilds[k]],
           UNCHANGED <<alive, started>>
    PROVE  Table!Enum(S)
  BY DEF Table!Enum, Table!Built, Table!Keys, Keys, TableList, TableGone,
         TableBuilds

\* The step of the abstract table is taken when the call asks for the snapshot.
LEMMA TableBegin ==
    ASSUME IInv, NEW includeThreads \in BOOLEAN, NEW ok \in BOOLEAN,
           NEW pid \in Pid \cup {Zero}, BeginEnum(includeThreads, pid, ok)
    PROVE  \E S \in Table!Snapshots : Table!Enum(S)
  <1>. PICK S : S = {k \in alive : ok /\ (pid = Zero \/ pid = k.Id)}
    OBVIOUS
  <1>1. S \in Table!Snapshots
    <2>1. CASE ~ok
      BY <2>1 DEF Table!Snapshots
    <2>2. CASE ok /\ pid = Zero
      BY <2>2 DEF Table!Snapshots
    <2>3. CASE ok /\ pid # Zero
      <3>1. \A j, k \in S : j \in alive /\ j = k
        BY <2>3 DEF IInv, AliveUnique
      <3>2. S = {} \/ \E k \in alive : S = {k}
        BY <3>1
      <3>3. QED
        BY <3>2 DEF Table!Snapshots
    <2>4. QED
      BY <2>1, <2>2, <2>3
  <1>2. /\ pc = "idle" /\ pc' = "walk" /\ processesByKey = processes
        /\ newProcesses' = {} /\ lProcessesByKey' = {} /\ buffer' = S
        /\ UNCHANGED <<alive, started, processes, processesByKey, builds>>
    BY DEF BeginEnum, ClearResults, IInv, WalkSplits, systemVars
  <1>3. TableList = processes /\ TableBuilds = builds
    BY <1>2, IdleTable
  <1>4. Snapshot' = S /\ ToBuild' = S \ Keys(processes)
    BY <1>2 DEF Snapshot, ToBuild, Keys
  <1>5. {NewObject(k) : k \in ToBuild}'
            = {[Key |-> k, Serial |-> builds[k] + 1] : k \in S \ Keys(processes)}
    BY <1>2, <1>4 DEF NewObject
  <1>6. TableList' = {o \in processes : o.Key \in S}
                        \cup {[Key |-> k, Serial |-> builds[k] + 1] :
                                k \in S \ Keys(processes)}
    BY <1>2, <1>4, <1>5 DEF TableList
  <1>7. TableGone' = {o \in processes : o.Key \notin S}
    BY <1>2, <1>4 DEF TableGone
  <1>8. TableBuilds' = [k \in ProcKey |-> IF k \in S \ Keys(processes)
                                          THEN builds[k] + 1 ELSE builds[k]]
    BY <1>2, <1>4 DEF TableBuilds
  <1>9. Table!Enum(S)
    BY <1>2, <1>3, <1>6, <1>7, <1>8, TableEnum
  <1>10. QED
    BY <1>1, <1>9

\* A visit builds what was to be built and keeps what was to be kept.
LEMMA TableNew ==
    ASSUME IInv, NEW k \in ProcKey, VisitsNew(k)
    PROVE  TableList' = TableList /\ TableGone' = TableGone
              /\ TableBuilds' = TableBuilds
  <1> USE DEF VisitsNew
  <1>1. builds \in [ProcKey -> Nat] /\ NewObject(k).Key = k
    BY DEF IInv, TypeOK, NewObject
  <1>2. Keys(lProcessesByKey') = Keys(lProcessesByKey) \cup {k}
    BY <1>1 DEF Keys
  <1>3. Snapshot' = Snapshot
    BY <1>2 DEF Snapshot
  <1>4. k \in ToBuild /\ ToBuild' = ToBuild \ {k}
    BY DEF ToBuild
  <1>5. \A j \in ToBuild' : builds'[j] = builds[j] /\ NewObject(j)' = NewObject(j)
    <2>1. \A j \in ToBuild' : j # k /\ j \in ProcKey
      BY <1>4 DEF ToBuild, IInv, TypeOK
    <2>2. \A j \in ToBuild' : builds'[j] = builds[j]
      BY <1>1, <2>1
    <2>3. QED
      BY <2>2 DEF NewObject
  <1>6. newProcesses' \cup {NewObject(j)' : j \in ToBuild'}
            = newProcesses \cup {NewObject(j) : j \in ToBuild}
    BY <1>4, <1>5
  <1>7. TableList' = TableList
    BY <1>3, <1>6 DEF TableList
  <1>8. TableGone' = TableGone
    BY <1>3 DEF TableGone
  <1>9. TableBuilds' = TableBuilds
    BY <1>1, <1>4, <1>5 DEF TableBuilds
  <1>10. QED
    BY <1>7, <1>8, <1>9

LEMMA TableKnown ==
    ASSUME IInv, NEW pi \in processesByKey, VisitsKnown(pi)
    PROVE  TableList' = TableList /\ TableGone' = TableGone
              /\ TableBuilds' = TableBuilds
  <1> USE DEF VisitsKnown
  <1>1. Snapshot' = Snapshot
    BY DEF Snapshot, Keys
  <1>2. ToBuild' = ToBuild
    <2>1. Keys(processesByKey') = Keys(processesByKey) \ {pi.Key}
      BY DEF IInv, MapsOK, KeysUnique, Keys
    <2>2. pi.Key \in Keys(processesByKey)
      BY DEF Keys
    <2>3. QED
      BY <2>1, <2>2 DEF ToBuild
  <1>3. {NewObject(j)' : j \in ToBuild'} = {NewObject(j) : j \in ToBuild}
    BY <1>2 DEF NewObject
  <1>4. QED
    BY <1>1, <1>2, <1>3 DEF TableList, TableGone, TableBuilds

\* When the call returns the tables are what the caller was to see.
LEMMA TableFinish ==
    ASSUME WalkInv, FinishEnum
    PROVE  TableList' = TableList /\ TableGone' = TableGone
              /\ TableBuilds' = TableBuilds
  <1> USE DEF FinishEnum, Publish, WalkInv
  <1>1. Snapshot = Keys(lProcessesByKey) /\ ToBuild = {} /\ ToBuild' = {}
    BY DEF Snapshot, ToBuild
  <1>2. /\ processesByKey \subseteq processes
        /\ processes \subseteq processesByKey \cup lProcessesByKey
        /\ newProcesses \subseteq lProcessesByKey
        /\ lProcessesByKey \ newProcesses \subseteq processes
        /\ \A p \in processesByKey : p.Key \notin Keys(lProcessesByKey)
        /\ \A p \in lProcessesByKey : p.Key \in Keys(lProcessesByKey)
    BY DEF OldListed, IInv, WalkSplits, MapsOK, Keys
  <1>3. lProcessesByKey = {o \in processes : o.Key \in Snapshot} \cup newProcesses
    BY <1>1, <1>2
  <1>4. processesByKey = {o \in processes : o.Key \notin Snapshot}
    BY <1>1, <1>2
  <1>5. TableList' = TableList
    BY <1>1, <1>3 DEF TableList, IInv, TablesTogether
  <1>6. TableGone' = TableGone
    BY <1>4 DEF TableGone
  <1>7. TableBuilds' = TableBuilds
    BY <1>1 DEF TableBuilds
  <1>8. QED
    BY <1>5, <1>6, <1>7

\* A process starts or exits at any moment, in the middle of a walk too, and
\* the table is not touched.
LEMMA TableSystem ==
    ASSUME System
    PROVE  \/ \E k \in ProcKey : Table!StartProcess(k)
           \/ \E k \in ProcKey : Table!ExitProcess(k)
           \/ UNCHANGED Table!vars
  <1>1. /\ UNCHANGED <<TableList, TableGone, TableBuilds>>
        /\ UNCHANGED <<processVars, localVars>>
    BY DEF System, StartProcess, ExitProcess, StartThread, ExitThread,
           processVars, localVars, TableList, TableGone, TableBuilds, Snapshot,
           ToBuild, NewObject, Keys
  <1>2. ASSUME NEW k \in ProcKey, StartProcess(k) PROVE Table!StartProcess(k)
    BY <1>1, <1>2 DEF StartProcess, Table!StartProcess, TableList, TableGone,
                      TableBuilds
  <1>3. ASSUME NEW k \in ProcKey, ExitProcess(k) PROVE Table!ExitProcess(k)
    BY <1>1, <1>3 DEF ExitProcess, Table!ExitProcess, TableList, TableGone,
                      TableBuilds
  <1>4. CASE \/ \E t \in ThreadKey, k \in ProcKey : StartThread(t, k)
             \/ \E r \in ThreadEntry : ExitThread(r)
    <2>1. UNCHANGED <<alive, started>>
      BY <1>4 DEF StartThread, ExitThread
    <2>2. QED
      BY <1>1, <2>1 DEF Table!vars, TableList, TableGone, TableBuilds
  <1>5. QED
    BY <1>2, <1>3, <1>4 DEF System

\* Whoever calls EnumProcesses sees one change of the table, the one that the
\* snapshot determines: entries visited one by one while processes start and
\* exit, failed and filtered calls, and ids used again make no difference.
THEOREM WalkIsAtomic == Spec => ImplementsTable
  <1>1. WalkInv /\ [Next]_vars => [Table!Next]_(Table!vars)
    <2> SUFFICES ASSUME WalkInv, [Next]_vars
                 PROVE  [Table!Next]_(Table!vars)
      OBVIOUS
    <2> USE DEF WalkInv
    <2>1. ASSUME UNCHANGED <<TableList, TableGone, TableBuilds>>,
                 UNCHANGED <<alive, started>>
          PROVE  UNCHANGED Table!vars
      BY <2>1 DEF Table!vars, TableList, TableGone, TableBuilds
    <2>2. CASE System
      BY <2>2, TableSystem DEF Table!Next
    <2>3. CASE \E includeThreads, ok \in BOOLEAN, pid \in Pid \cup {Zero} :
                  BeginEnum(includeThreads, pid, ok)
      BY <2>3, TableBegin DEF Table!Next
    <2>4. ASSUME NEW k \in ProcKey, VisitNew(k) PROVE UNCHANGED Table!vars
      <3>1. VisitsNew(k)
        BY <2>4, NewVisit
      <3>2. QED
        BY <2>1, <3>1, TableNew DEF VisitsNew
    <2>5. ASSUME NEW pi \in processesByKey, VisitKnown(pi)
          PROVE  UNCHANGED Table!vars
      <3>1. VisitsKnown(pi)
        BY <2>5, KnownVisit
      <3>2. QED
        BY <2>1, <3>1, TableKnown DEF VisitsKnown
    <2>6. CASE FinishEnum
      BY <2>1, <2>6, TableFinish DEF FinishEnum, systemVars
    <2>7. CASE UNCHANGED vars
      BY <2>1, <2>7 DEF vars, systemVars, processVars, localVars, TableList,
         TableGone, TableBuilds, Snapshot, ToBuild, NewObject, Keys
    <2>8. QED
      BY <2>2, <2>3, <2>4, <2>5, <2>6, <2>7 DEF Next, Enum
  <1>2. QED
    BY <1>1, TableInit, WalkInvariant, PTL
       DEF Spec, ImplementsTable, Table!Spec

\* A client that had the list, drops what GetTerminatedProcesses returns and
\* adds what GetNewProcesses returns, has the list again: nothing is lost,
\* reported twice or reported without having been there.
ListsReplay ==
    [][pc = "walk" /\ pc' = "idle" =>
          /\ processes' = (processes \ terminatedProcesses') \cup newProcesses'
          /\ terminatedProcesses' \subseteq processes
          /\ Keys(newProcesses') \cap Keys(processes) = {}]_vars

THEOREM ListsAlwaysReplay == Spec => ListsReplay
  <1> DEFINE Replay ==
        pc = "walk" /\ pc' = "idle" =>
          /\ processes' = (processes \ terminatedProcesses') \cup newProcesses'
          /\ terminatedProcesses' \subseteq processes
          /\ Keys(newProcesses') \cap Keys(processes) = {}
  <1>1. WalkInv /\ [Next]_vars => [Replay]_vars
    <2> SUFFICES ASSUME WalkInv, [Next]_vars, pc = "walk", pc' = "idle"
                 PROVE  Replay
      OBVIOUS
    <2>1. FinishEnum
      BY DEF Next, System, Enum, StartProcess, ExitProcess, StartThread,
             ExitThread, BeginEnum, VisitNew, VisitKnown, vars, localVars
    <2>2. /\ processes' = lProcessesByKey /\ terminatedProcesses' = processesByKey
          /\ newProcesses' = newProcesses
      BY <2>1 DEF FinishEnum, Publish, WalkInv, IInv, TablesTogether
    <2>3. /\ processesByKey \subseteq processes
          /\ processes \subseteq processesByKey \cup lProcessesByKey
          /\ newProcesses \subseteq lProcessesByKey
          /\ lProcessesByKey \ newProcesses \subseteq processes
      BY DEF WalkInv, OldListed, IInv, WalkSplits, MapsOK
    <2>4. processesByKey \cap lProcessesByKey = {}
      BY DEF WalkInv, IInv, WalkSplits, Keys
    <2>5. Keys(newProcesses) \cap Keys(processes) = {}
      BY DEF WalkInv, OldListed
    <2>6. processes' = (processes \ terminatedProcesses') \cup newProcesses'
      BY <2>2, <2>3, <2>4
    <2>7. Keys(newProcesses') = Keys(newProcesses)
      BY <2>2
    <2>8. QED
      BY <2>2, <2>3, <2>5, <2>6, <2>7
  <1>2. QED
    BY <1>1, WalkInvariant, PTL DEF Spec, ListsReplay
=============================================================================
