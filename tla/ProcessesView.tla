--------------------------- MODULE ProcessesView ----------------------------
(***************************************************************************)
(* The process list of the ProcExpX window: the rows that ProcessesView    *)
(* keeps beside the ProcessManager, the ProcessInfoEx kept for each key    *)
(* (coloured "new" or "terminated" for a while) and the frame that         *)
(* refreshes, prunes, filters, sorts and draws them.                       *)
(*                                                                         *)
(* One frame is Refresh, one VisitRow per row, EndLoop and EndFrame; the   *)
(* user acts at its start, and the system and the clock move between any   *)
(* two steps.  EnumProcesses is one step here: what it returns is fixed by *)
(* the snapshot it starts with (module ProcessManager).                    *)
(*                                                                         *)
(* Times are kept relative to now: how long ago the last refresh was and   *)
(* how long a row may stay coloured.                                       *)
(***************************************************************************)
EXTENDS SequencesExt

CONSTANTS
    Key,        \* process keys; each is the key of at most one process
    Hold,       \* ticks a row stays coloured (2000 ms)
    Intervals,  \* update intervals, in ticks
    Filters,    \* filter texts, each the set of keys it hides
    MaxFailed,  \* bound: failed snapshots
    CanWrap     \* whether the system may be up for more than 2^32 ms

ASSUME HoldIsNat == Hold \in Nat
ASSUME IntervalsArePositive == Intervals \subseteq Nat \ {0}
ASSUME OneIsLongest == \E n \in Intervals : \A m \in Intervals : n >= m
ASSUME FiltersHideKeys == Filters \subseteq SUBSET Key
ASSUME MaxFailedIsNat == MaxFailed \in Nat
ASSUME CanWrapIsBoolean == CanWrap \in BOOLEAN

Object == [Key : Key, Serial : Nat]

Info == [isNew : BOOLEAN, isTerminated : BOOLEAN, filtered : BOOLEAN,
         left : -1 .. Hold, pi : Object]

NoInfo == [missing |-> TRUE]

Unset == -1     \* an int no constructor initialises

VARIABLES
    alive, started,   \* the system: running processes, all that ever ran
    pm,               \* ProcessManager: the objects it lists
    pmTerminated,     \* and those of GetTerminatedProcesses
    builds,           \* objects built for each key
    rows,             \* _processes of the view
    info,             \* _processesEx
    hidden,           \* keys whose name the filter text does not match
    specs,            \* whether _specs is set
    interval, oldInterval,  \* _updateInterval, _oldInterval
    age,              \* ticks since _tick, up to the longest interval
    wrapped,          \* GetTickCount() has wrapped
    pc, i, indices,   \* progress of the frame; loop index (from 1)
    failed            \* failed snapshots so far

systemVars == <<alive, started>>
pmVars == <<pm, pmTerminated, builds>>
viewVars == <<rows, info>>
userVars == <<hidden, interval, oldInterval>>
clockVars == <<age, wrapped>>
vars == <<systemVars, pmVars, viewVars, userVars, clockVars, specs, pc, i,
          indices, failed>>

Keys(objects) == {o.Key : o \in objects}
RowSet == Range(rows)
MaxAge == Max(Intervals)

Init ==
    /\ alive = {} /\ started = {}
    /\ pm = {} /\ pmTerminated = {} /\ builds = [k \in Key |-> 0]
    /\ rows = <<>> /\ info = [k \in Key |-> NoInfo]
    /\ hidden = {} /\ specs = FALSE
    /\ interval \in Intervals /\ oldInterval = Unset
    /\ age = MaxAge /\ wrapped = FALSE
    /\ pc = "input" /\ i = 1 /\ indices = <<>>
    /\ failed = 0

-----------------------------------------------------------------------------
(* The system and the clock. *)

StartProcess(k) ==
    /\ k \in Key \ started
    /\ alive' = alive \cup {k}
    /\ started' = started \cup {k}
    /\ UNCHANGED <<pmVars, viewVars, userVars, clockVars, specs, pc, i,
                   indices, failed>>

ExitProcess(k) ==
    /\ k \in alive
    /\ alive' = alive \ {k}
    /\ UNCHANGED <<started, pmVars, viewVars, userVars, clockVars, specs, pc,
                   i, indices, failed>>

Passed(x) ==
    IF x # NoInfo /\ x.left >= 0 THEN [x EXCEPT !.left = @ - 1] ELSE x

Tick ==
    /\ age' = IF age < MaxAge THEN age + 1 ELSE age
    /\ info' = [k \in Key |-> Passed(info[k])]
    /\ UNCHANGED <<systemVars, pmVars, rows, userVars, wrapped, specs, pc, i,
                   indices, failed>>

\* GetTickCount() starts again from zero, GetTickCount64() does not.
Wrap ==
    /\ CanWrap /\ ~wrapped
    /\ wrapped' = TRUE
    /\ UNCHANGED <<systemVars, pmVars, viewVars, userVars, age, specs, pc, i,
                   indices, failed>>

-----------------------------------------------------------------------------
(* The user, in BuildToolBar and with the space bar. *)

ChooseInterval(n) ==
    /\ pc = "input"
    /\ interval' = n
    /\ UNCHANGED <<systemVars, pmVars, viewVars, hidden, oldInterval,
                   clockVars, specs, pc, i, indices, failed>>

\* Mutant: the interval is not saved.
TogglePauseForgets ==
    /\ pc = "input"
    /\ oldInterval' = oldInterval
    /\ interval' = IF interval = 0 THEN oldInterval ELSE 0
    /\ UNCHANGED <<systemVars, pmVars, viewVars, hidden, clockVars, specs, pc,
                   i, indices, failed>>

TogglePause ==
    /\ pc = "input"
    /\ IF interval = 0
       THEN interval' = oldInterval /\ oldInterval' = oldInterval
       ELSE interval' = 0 /\ oldInterval' = interval
    /\ UNCHANGED <<systemVars, pmVars, viewVars, hidden, clockVars, specs, pc,
                   i, indices, failed>>

SetFilter(S) ==
    /\ pc = "input"
    /\ hidden' = S
    /\ UNCHANGED <<systemVars, pmVars, viewVars, interval, oldInterval,
                   clockVars, specs, pc, i, indices, failed>>

-----------------------------------------------------------------------------
(* ProcessInfoEx. *)

NewInfo(o) == [isNew |-> FALSE, isTerminated |-> FALSE, filtered |-> FALSE,
               left |-> -1, pi |-> o]

\* GetProcessInfoEx: found by key, or made for the object at hand.
GetInfo(f, o) == IF f[o.Key] = NoInfo THEN NewInfo(o) ELSE f[o.Key]

\* An older object of the same key may have terminated: that flag stays.
New(x) == [x EXCEPT !.isNew = TRUE, !.left = Hold]

Term(x) == [x EXCEPT !.isNew = FALSE, !.isTerminated = TRUE, !.left = Hold]

\* What colours a row: its age first, if the user left that colour enabled.
GetColors(x, enabled) ==
    IF "DeletedObjects" \in enabled /\ x.isTerminated THEN "DeletedObjects"
    ELSE IF "NewObjects" \in enabled /\ x.isNew THEN "NewObjects"
    ELSE "Attributes"

\* The comparison in Update: GetTickCount() > _expiryTime.  A wrapped count
\* stays below every 64-bit expiry time for another 49 days.
TimePassed(x) == x.left < 0 /\ ~wrapped

Expires(x) == (x.isNew \/ x.isTerminated) /\ TimePassed(x)

\* Mutant: Update reports a terminated process for every expired colour.
UpdateAlways(x) == Expires(x)

\* Update's result: the process is to be removed.
Update(x) == Expires(x) /\ x.isTerminated

Updated(x) ==
    IF Expires(x) THEN [x EXCEPT !.isNew = FALSE, !.isTerminated = FALSE]
                  ELSE x

-----------------------------------------------------------------------------
(* The refresh: EnumProcesses, DoUpdate, DoSort. *)

\* Objects the manager lists after a snapshot of the processes S.
NewObjects(S) == {[Key |-> k, Serial |-> builds[k] + 1] : k \in S \ Keys(pm)}
Kept(S) == {o \in pm : o.Key \in S}
Gone(S) == pm \ Kept(S)

EnumProcesses(S) ==
    /\ pm' = Kept(S) \cup NewObjects(S)
    /\ pmTerminated' = Gone(S)
    /\ builds' = [k \in Key |-> IF k \in S \ Keys(pm) THEN builds[k] + 1
                                                      ELSE builds[k]]

\* Sorting by a column whose values change from one refresh to the next can
\* leave any order.
Sorted(s) == {[n \in DOMAIN s |-> s[p[n]]] : p \in SetToSeqs(DOMAIN s)}

MayBeSorted(s, doSort) == IF doSort THEN Sorted(s) ELSE {s}

MarkNew(f, new) ==
    [k \in Key |-> IF \E o \in new : o.Key = k
                   THEN New(GetInfo(f, CHOOSE o \in new : o.Key = k))
                   ELSE f[k]]

MarkTerminated(f, gone) ==
    [k \in Key |-> IF \E o \in gone : o.Key = k
                   THEN Term(GetInfo(f, CHOOSE o \in gone : o.Key = k))
                   ELSE f[k]]

\* Mutant: terminated processes are not marked.
DoUpdateNoTerm(new, gone) ==
    /\ \E s \in SetToSeqs(new) : rows' \in MayBeSorted(rows \o s, specs)
    /\ info' = MarkNew(info, new)

\* Mutant: new processes are marked but not listed.
DoUpdateNoPush(new, gone) ==
    /\ rows' \in MayBeSorted(rows, specs)
    /\ info' = MarkTerminated(MarkNew(info, new), gone)

\* DoUpdate and the sort that follows it.
DoUpdate(new, gone) ==
    /\ \E s \in SetToSeqs(new) : rows' \in MayBeSorted(rows \o s, specs)
    /\ info' = MarkTerminated(MarkNew(info, new), gone)

RefreshDue == interval > 0 /\ age >= interval

Refresh(ok) ==
    LET S == IF ok THEN alive ELSE {} IN
    /\ pc = "input"
    /\ RefreshDue
    /\ ~ok => failed < MaxFailed
    /\ failed' = IF ok THEN failed ELSE failed + 1
    /\ EnumProcesses(S)
    /\ IF rows = <<>>
       THEN /\ \E s \in SetToSeqs(Kept(S) \cup NewObjects(S)) :
                  rows' \in MayBeSorted(s, specs)
            /\ info' = info
       ELSE DoUpdate(NewObjects(S), Gone(S))
    /\ age' = 0
    /\ pc' = "loop" /\ i' = 1 /\ indices' = <<>>
    /\ UNCHANGED <<systemVars, userVars, wrapped, specs>>

NoRefresh ==
    /\ pc = "input"
    /\ ~RefreshDue
    /\ pc' = "loop" /\ i' = 1 /\ indices' = <<>>
    /\ UNCHANGED <<systemVars, pmVars, viewVars, userVars, clockVars, specs,
                   failed>>

-----------------------------------------------------------------------------
(* The loop over the rows, and the rest of the frame. *)

\* Mutant: the row is erased first, then the info of the row now at i.
RemoveRowFirst ==
    /\ rows' = RemoveAt(rows, i)
    /\ info' = IF i <= Len(rows') THEN [info EXCEPT ![rows'[i].Key] = NoInfo]
                                  ELSE info
    /\ i' = i
    /\ indices' = indices

\* Mutant: the infos are left behind.
RemoveRowOnly ==
    /\ rows' = RemoveAt(rows, i)
    /\ info' = info
    /\ i' = i
    /\ indices' = indices

RemoveRow ==
    /\ info' = [info EXCEPT ![rows[i].Key] = NoInfo]
    /\ rows' = RemoveAt(rows, i)
    /\ i' = i
    /\ indices' = indices

KeepRow(x) ==
    /\ info' = [info EXCEPT ![rows[i].Key] =
                   [x EXCEPT !.filtered = rows[i].Key \in hidden]]
    /\ rows' = rows
    /\ i' = i + 1
    /\ indices' = IF rows[i].Key \in hidden THEN indices ELSE Append(indices, i)

VisitRow ==
    /\ pc = "loop"
    /\ i <= Len(rows)
    /\ LET x == GetInfo(info, rows[i])
       IN  IF Update(x) THEN RemoveRow ELSE KeepRow(Updated(x))
    /\ UNCHANGED <<systemVars, pmVars, userVars, clockVars, specs, pc, failed>>

\* A click on a column header sorts after the indices were collected.
EndLoop(dirty) ==
    /\ pc = "loop"
    /\ i > Len(rows)
    /\ specs' = (specs \/ dirty)
    /\ rows' \in MayBeSorted(rows, dirty)
    /\ pc' = IF dirty THEN "drawSorted" ELSE "draw"
    /\ UNCHANGED <<systemVars, pmVars, info, userVars, clockVars, i, indices,
                   failed>>

\* Mutant: the row's own Filtered flag is not looked at.
ShownAll == {rows[indices[j]] : j \in DOMAIN indices}

\* The rows drawn: through the indices, but not those marked as filtered.
Shown == {rows[indices[j]] : j \in
            {n \in DOMAIN indices : ~info[rows[indices[n]].Key].filtered}}

EndFrame ==
    /\ pc \in {"draw", "drawSorted"}
    /\ pc' = "input" /\ i' = 1 /\ indices' = <<>>
    /\ UNCHANGED <<systemVars, pmVars, viewVars, userVars, clockVars, specs,
                   failed>>

-----------------------------------------------------------------------------
System == \/ \E k \in Key : StartProcess(k)
          \/ \E k \in Key : ExitProcess(k)
          \/ Wrap

User == \/ \E n \in Intervals : ChooseInterval(n)
        \/ TogglePause
        \/ \E S \in Filters : SetFilter(S)

Frame == \/ \E ok \in BOOLEAN : Refresh(ok)
         \/ NoRefresh
         \/ VisitRow
         \/ \E dirty \in BOOLEAN : EndLoop(dirty)
         \/ EndFrame

Next == System \/ Tick \/ User \/ Frame

Spec == Init /\ [][Next]_vars

\* The message loop of main draws frame after frame, and time passes.
FairSpec == Spec /\ WF_vars(Frame) /\ WF_vars(Tick)

-----------------------------------------------------------------------------
(* Properties. *)

\* Every variable has its type.  In particular the interval is never the
\* value that _oldInterval has before the first pause.
TypeOK ==
    /\ started \subseteq Key /\ alive \subseteq started
    /\ pm \subseteq Object /\ pmTerminated \subseteq Object
    /\ builds \in [Key -> Nat]
    /\ rows \in Seq(Object)
    /\ info \in [Key -> Info \cup {NoInfo}]
    /\ hidden \subseteq Key /\ specs \in BOOLEAN
    /\ interval \in Intervals \cup {0}
    /\ oldInterval \in Intervals \cup {Unset}
    /\ age \in 0 .. MaxAge /\ wrapped \in BOOLEAN
    /\ pc \in {"input", "loop", "draw", "drawSorted"}
    /\ i \in 1 .. Len(rows) + 1
    /\ indices \in Seq(1 .. Len(rows))
    /\ failed \in 0 .. MaxFailed

HasRow(k) == \E n \in DOMAIN rows : rows[n].Key = k

\* A process the manager lists is never missing from the view, whatever
\* snapshots failed: no colour that runs out takes a live row with it.
KnownHaveRows == \A o \in pm : HasRow(o.Key)

\* ProcessInfoEx holds a raw pointer.  The object it points to is always kept
\* alive by a row or by the manager.
InfoPointsToHeldObject ==
    \A k \in Key : info[k] # NoInfo =>
        info[k].pi \in RowSet \cup pm \cup pmTerminated

\* If no snapshot failed, there is one row per key, and a row has the object
\* that the manager lists or the colour of deleted ones: none stays behind with
\* an object that nothing updates.
RowsMatchManager ==
    /\ \A m, n \in DOMAIN rows : rows[m].Key = rows[n].Key => m = n
    /\ \A o \in RowSet :
          \/ o \in pm
          \/ GetColors(GetInfo(info, o), {"DeletedObjects", "NewObjects"})
                 = "DeletedObjects"

\* What is drawn passes the filter, also when a sort has moved the rows under
\* the collected indices; without such a sort every row that passes is drawn.
DrawnPassFilter ==
    /\ pc \in {"draw", "drawSorted"} => Keys(Shown) \cap hidden = {}
    /\ pc = "draw" => Shown = {o \in RowSet : o.Key \notin hidden}

\* The comment "process terminated" where the loop erases a row: the process
\* of an erased row has exited (true if no snapshot failed).
ErasedAreTerminated ==
    [][pc = "loop" /\ Len(rows') < Len(rows) => rows[i].Key \notin alive]_vars

\* Unless the updates are paused for good or the 32-bit clock has wrapped, the
\* row of a process that exited goes away in the end.
DeadRowsGo ==
    <>[](interval > 0) =>
        \A k \in Key : (k \in started \ alive /\ HasRow(k))
                           ~> (~HasRow(k) \/ wrapped)

\* Unless the updates are paused for good, a running process gets its row.
LiveRowsCome ==
    <>[](interval > 0) =>
        \A k \in Key : k \in alive ~> (HasRow(k) \/ k \notin alive)
=============================================================================
