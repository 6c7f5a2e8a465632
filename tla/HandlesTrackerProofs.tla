------------------------ MODULE HandlesTrackerProofs ------------------------
(***************************************************************************)
(* That a client of ProcessHandlesTracker can follow the handle table by   *)
(* the lists of new and closed handles, for any set of handle values and   *)
(* types, any sizes of the buffer, any failures and exits.                 *)
(***************************************************************************)
EXTENDS HandlesTracker, FiniteSetTheorems, TLAPS

\* A handle table is finite and has one entry per value.
TableOK ==
    /\ IsFiniteSet(table)
    /\ \A g, h \in table : g.HandleValue = h.HandleValue => g = h

\* The lists on show have been applied: to apply them once more, as a client
\* does after a call that failed, changes nothing.
ListsApplied ==
    /\ Values(newHandles) \subseteq mirror
    /\ Values(closedHandles) \cap mirror = {}

Inv == TypeOK /\ TableOK /\ HeldIsTold /\ MirrorIsLast /\ ListsApplied

-----------------------------------------------------------------------------
(* What the comparison by value finds. *)

\* The values of a set of entries are handle values.
LEMMA ValuesType ==
    ASSUME NEW S \in SUBSET HandleEntryInfo
    PROVE  Values(S) \subseteq HandleValue
BY DEF Values, HandleEntryInfo

\* The values opened since are those of the table that were not known, the
\* values closed since are the known ones that are not in the table.
LEMMA DiffValues ==
    ASSUME NEW S
    PROVE  /\ Values(NewIn(S)) = Values(table) \ Values(S)
           /\ Values(GoneFrom(S)) = Values(S) \ Values(table)
           /\ Values((S \ GoneFrom(S)) \cup NewIn(S)) = Values(table)
<1>1. Values(NewIn(S)) = Values(table) \ Values(S)
  BY DEF Values, NewIn
<1>2. Values(GoneFrom(S)) = Values(S) \ Values(table)
  BY DEF Values, GoneFrom
<1>3. Values((S \ GoneFrom(S)) \cup NewIn(S)) = Values(table)
  BY DEF Values, NewIn, GoneFrom
<1>4. QED
  BY <1>1, <1>2, <1>3

\* One entry per value is kept when the handles are brought up to date.
LEMMA DiffUnique ==
    ASSUME NEW S,
           \A g, h \in S : g.HandleValue = h.HandleValue => g = h,
           TableOK
    PROVE  \A g, h \in (S \ GoneFrom(S)) \cup NewIn(S) :
               g.HandleValue = h.HandleValue => g = h
BY DEF TableOK, NewIn, GoneFrom, Values

-----------------------------------------------------------------------------
(* The invariant. *)

LEMMA InvInit == Init => Inv
<1>. SUFFICES ASSUME Init PROVE Inv
  OBVIOUS
<1>1. IsFiniteSet(table)
  BY FS_EmptySet DEF Init
<1>2. TypeOK
  BY RoomsAreNat DEF Init, TypeOK
<1>3. QED
  BY <1>1, <1>2
  DEF Init, Inv, TableOK, HeldIsTold, MirrorIsLast, ListsApplied, Values

\* The target changes its table and nothing else.
LEMMA InvTarget ==
    ASSUME Inv, Target
    PROVE  Inv'
<1>1. UNCHANGED <<tracker, history>>
  BY DEF Target, OpenHandle, CloseHandle, Exit
<1>2. running' \in BOOLEAN /\ table' \subseteq HandleEntryInfo /\ TableOK'
  <2>1. ASSUME NEW v \in HandleValue, NEW t \in ObjectType, OpenHandle(v, t)
        PROVE  running' \in BOOLEAN /\ table' \subseteq HandleEntryInfo
                   /\ TableOK'
    <3>1. IsFiniteSet(table')
      BY <2>1, FS_AddElement DEF OpenHandle, Inv, TableOK
    <3>2. QED
      BY <2>1, <3>1
      DEF OpenHandle, Inv, TypeOK, TableOK, HandleEntryInfo, Values
  <2>2. ASSUME NEW h \in table, CloseHandle(h)
        PROVE  running' \in BOOLEAN /\ table' \subseteq HandleEntryInfo
                   /\ TableOK'
    <3>1. IsFiniteSet(table')
      BY <2>2, FS_RemoveElement DEF CloseHandle, Inv, TableOK
    <3>2. QED
      BY <2>2, <3>1 DEF CloseHandle, Inv, TypeOK, TableOK
  <2>3. CASE Exit
    <3>1. IsFiniteSet(table')
      BY <2>3, FS_EmptySet DEF Exit
    <3>2. QED
      BY <2>3, <3>1 DEF Exit, TableOK
  <2>4. QED
    BY <2>1, <2>2, <2>3 DEF Target
<1>3. TypeOK' /\ HeldIsTold' /\ MirrorIsLast' /\ ListsApplied'
  BY <1>1, <1>2
  DEF Inv, TypeOK, HeldIsTold, MirrorIsLast, ListsApplied, Values, tracker,
      history
<1>4. QED
  BY <1>2, <1>3 DEF Inv

\* A call that finds the target exited reports all handles it holds as closed.
LEMMA InvExited ==
    ASSUME Inv, EnumExited
    PROVE  Inv'
<1>. USE DEF EnumExited, AfterExit, Inv
<1>1. Values({}) = {}
  BY DEF Values
<1>2. Values(handles) = mirror
  BY DEF HeldIsTold
<1>3. mirror' = {} /\ last' = {} /\ newHandles' = {} /\ handles' = {}
          /\ closedHandles' = handles
  BY <1>1, <1>2 DEF Replay
<1>4. TypeOK'
  BY <1>3 DEF TypeOK, target
<1>5. TableOK'
  BY DEF TableOK, target
<1>6. HeldIsTold' /\ MirrorIsLast' /\ ListsApplied'
  BY <1>1, <1>3 DEF HeldIsTold, MirrorIsLast, ListsApplied, Values
<1>7. QED
  BY <1>4, <1>5, <1>6

\* A call that fails leaves everything: its client applies old lists again.
LEMMA InvFails ==
    ASSUME Inv, QueryFails
    PROVE  Inv'
<1>. USE DEF QueryFails, Inv
<1>1. mirror' = mirror
  BY DEF Replay, ListsApplied
<1>2. TypeOK'
  BY <1>1 DEF TypeOK, target
<1>3. TableOK'
  BY DEF TableOK, target
<1>4. HeldIsTold' /\ MirrorIsLast' /\ ListsApplied'
  BY <1>1 DEF HeldIsTold, MirrorIsLast, ListsApplied, Values
<1>5. QED
  BY <1>2, <1>3, <1>4

\* A call that is answered leaves the client with the values of the table.
LEMMA InvAnswers ==
    ASSUME Inv, QueryAnswers
    PROVE  Inv'
<1>. USE DEF QueryAnswers, Inv
<1>1. UNCHANGED target /\ last' = Values(table)
  OBVIOUS
<1>2. TableOK'
  BY <1>1 DEF TableOK, target
<1>3. Values({}) = {}
  BY DEF Values
<1>4. table \subseteq HandleEntryInfo /\ Values(table) \subseteq HandleValue
  BY ValuesType DEF TypeOK
<1>5. CASE Known = {} /\ Baseline /\ mirror' = Values(table)
  <2>1. newHandles' = {} /\ closedHandles' = {} /\ handles' = table
    BY <1>5 DEF Baseline
  <2>2. TypeOK'
    BY <1>1, <1>4, <1>5, <2>1 DEF TypeOK, TableOK, target
  <2>3. HeldIsTold' /\ MirrorIsLast' /\ ListsApplied'
    BY <1>1, <1>3, <1>5, <2>1
    DEF HeldIsTold, MirrorIsLast, ListsApplied, Values
  <2>4. QED
    BY <1>2, <2>2, <2>3
<1>6. CASE Known # {} /\ Diff /\ mirror' = Replay(newHandles', closedHandles')
  <2>1. Known = handles
    BY <1>6 DEF Known
  <2>2. /\ newHandles' = NewIn(handles)
        /\ closedHandles' = GoneFrom(handles)
        /\ handles' = (handles \ GoneFrom(handles)) \cup NewIn(handles)
    BY <1>6, <2>1 DEF Diff
  <2>3. Values(handles) = mirror
    BY DEF HeldIsTold
  <2>4. mirror' = Values(table)
    BY <1>6, <2>2, <2>3, DiffValues DEF Replay
  <2>5. \A g, h \in handles' : g.HandleValue = h.HandleValue => g = h
    BY <2>2, DiffUnique DEF TypeOK
  <2>6. /\ NewIn(handles) \subseteq HandleEntryInfo
        /\ GoneFrom(handles) \subseteq HandleEntryInfo
    BY <1>4 DEF TypeOK, NewIn, GoneFrom
  <2>7. TypeOK'
    BY <1>1, <1>4, <2>2, <2>4, <2>5, <2>6 DEF TypeOK, target
  <2>8. Values(newHandles)' = Values(newHandles')
            /\ Values(closedHandles)' = Values(closedHandles')
            /\ Values(handles)' = Values(handles')
    BY DEF Values
  <2>9. HeldIsTold' /\ MirrorIsLast' /\ ListsApplied'
    BY <1>1, <2>2, <2>4, <2>8, DiffValues
    DEF HeldIsTold, MirrorIsLast, ListsApplied
  <2>10. QED
    BY <1>2, <2>7, <2>9
<1>7. QED
  BY <1>5, <1>6

LEMMA InvNext == Inv /\ [Next]_vars => Inv'
<1>. SUFFICES ASSUME Inv, [Next]_vars PROVE Inv'
  OBVIOUS
<1>1. CASE Target
  BY <1>1, InvTarget
<1>2. CASE EnumExited
  BY <1>2, InvExited
<1>3. ASSUME NEW c \in BOOLEAN, EnumHandles(c) PROVE Inv'
  BY <1>3, RoomsAreNat
  DEF EnumHandles, Inv, TypeOK, TableOK, HeldIsTold, MirrorIsLast,
      ListsApplied, Values, target, history
<1>4. CASE QueryTooSmall
  <2>1. Enlarged \in Nat
    BY FS_CardinalityType, RoomsAreNat DEF Enlarged, Inv, TableOK
  <2>2. QED
    BY <1>4, <2>1
    DEF QueryTooSmall, Inv, TypeOK, TableOK, HeldIsTold, MirrorIsLast,
        ListsApplied, Values, target, history
<1>5. CASE QueryFails
  BY <1>5, InvFails
<1>6. CASE QueryAnswers
  BY <1>6, InvAnswers
<1>7. CASE UNCHANGED vars
  BY <1>7
  DEF Inv, TypeOK, TableOK, HeldIsTold, MirrorIsLast, ListsApplied, Values,
      vars, target, tracker, history
<1>8. QED
  BY <1>1, <1>2, <1>3, <1>4, <1>5, <1>6, <1>7 DEF Next, Query

LEMMA Invariance == Spec => []Inv
<1>1. Init => Inv
  BY InvInit
<1>2. Inv /\ [Next]_vars => Inv'
  BY InvNext
<1>3. QED
  BY <1>1, <1>2, PTL DEF Spec

-----------------------------------------------------------------------------
(* The theorems. *)

\* Every variable of the tracker keeps its type, and the set of held handles
\* never has two entries for one value.
THEOREM TypeCorrect == Spec => []TypeOK
<1>1. Inv => TypeOK
  BY DEF Inv
<1>2. QED
  BY <1>1, Invariance, PTL

\* The lists of new and closed handles tell a client the handle values that
\* were open at the last answered call, whatever failed in between.
THEOREM MirrorStaysLast == Spec => []MirrorIsLast
<1>1. Inv => MirrorIsLast
  BY DEF Inv
<1>2. QED
  BY <1>1, Invariance, PTL

\* The tracker never holds a handle its client was not told of.
THEOREM HeldWasTold == Spec => []HeldIsTold
<1>1. Inv => HeldIsTold
  BY DEF Inv
<1>2. QED
  BY <1>1, Invariance, PTL
=============================================================================
