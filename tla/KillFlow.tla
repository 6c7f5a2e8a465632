------------------------------ MODULE KillFlow ------------------------------
(***************************************************************************)
(* Killing a process from the process list: the selection, the dialog that *)
(* asks for confirmation, the call that opens the process by its id and    *)
(* terminates it, and the message box that reports a failure.  ImGui runs  *)
(* the dialogs in immediate mode: ShowModal is called again in every frame *)
(* and says whether the user has answered yet.                             *)
(*                                                                         *)
(* The list itself is module ProcessesView; here it is the set of rows,    *)
(* which follows the system with a delay, and each frame draws some of     *)
(* them (the filter, the clipper) in some order (the sort).                *)
(***************************************************************************)
EXTENDS Naturals

CONSTANTS Pid, Stamp,   \* process ids, creation times
          None          \* no process

\* An object of the view; no snapshot fails here, so its key identifies it.
Process == [Created : Stamp, Id : Pid]

ASSUME NoneIsNoProcess == None \notin Process

VARIABLES
    alive, started,  \* the system: running processes, all that ever ran
    rows,            \* processes listed in the view
    selected,        \* _selectedProcess
    modalOpen,       \* _modalOpen
    killFailed,      \* _killFailed
    pc,              \* "toolbar", "box" (failure box) or "rows"
    del,             \* Shift+DEL is pressed in this frame
    drawn, todo,     \* rows this frame draws; those not drawn yet
    asked,           \* history: selection when the open dialog was opened
    killed           \* history: processes that this frame terminated

systemVars == <<alive, started>>
frameVars == <<pc, del, drawn, todo>>
vars == <<systemVars, rows, selected, modalOpen, killFailed, frameVars, asked,
          killed>>

Init ==
    /\ alive = {} /\ started = {} /\ rows = {}
    /\ selected = None /\ modalOpen = FALSE /\ killFailed = FALSE
    /\ pc = "toolbar" /\ del = FALSE /\ drawn = {} /\ todo = {}
    /\ asked = None /\ killed = {}

-----------------------------------------------------------------------------
(* The system, and the list that follows it between frames. *)

StartProcess(p) ==
    /\ p \in Process \ started
    /\ \A q \in alive : q.Id # p.Id
    /\ alive' = alive \cup {p}
    /\ started' = started \cup {p}
    /\ UNCHANGED <<rows, selected, modalOpen, killFailed, frameVars, asked,
                   killed>>

ExitProcess(p) ==
    /\ p \in alive
    /\ alive' = alive \ {p}
    /\ UNCHANGED <<started, rows, selected, modalOpen, killFailed, frameVars,
                   asked, killed>>

ListProcess(p) ==
    /\ pc = "toolbar"
    /\ p \in alive \ rows
    /\ rows' = rows \cup {p}
    /\ UNCHANGED <<systemVars, selected, modalOpen, killFailed, frameVars,
                   asked, killed>>

\* The selection is not reset when its row goes.
RemoveRow(p) ==
    /\ pc = "toolbar"
    /\ p \in rows \ alive
    /\ rows' = rows \ {p}
    /\ UNCHANGED <<systemVars, selected, modalOpen, killFailed, frameVars,
                   asked, killed>>

-----------------------------------------------------------------------------
(* TryKillProcess. *)

Answer == {"StillOpen", "OK", "Cancel"}

\* OpenProcess finds whichever process has the id now; Windows may refuse.
Targets(id) == {p \in alive : p.Id = id}

KillProcess(p) ==
    \/ UNCHANGED <<alive, killed>> /\ selected' = p
    \/ \E t \in Targets(p.Id) :
         /\ alive' = alive \ {t} /\ killed' = killed \cup {t}
         /\ selected' = None

\* Mutant: only OK clears the flag.
TryKillProcessStuck(p, answer) ==
    /\ modalOpen' = (answer # "OK")
    /\ IF answer = "OK" THEN KillProcess(p)
                        ELSE UNCHANGED <<alive, killed>> /\ selected' = p

TryKillProcess(p, answer) ==
    /\ modalOpen' = (answer = "StillOpen")
    /\ IF answer = "OK" THEN KillProcess(p)
                        ELSE UNCHANGED <<alive, killed>> /\ selected' = p

\* The caller's test of "success", which only OK has assigned: it is FALSE if
\* nothing was terminated, and after Cancel it has any value.
ReportFailure(answer) ==
    \/ /\ answer = "OK"
       /\ killFailed' = (killFailed \/ alive' = alive)
    \/ answer = "Cancel" /\ killFailed' \in {killFailed, TRUE}
    \/ answer = "StillOpen" /\ UNCHANGED killFailed

-----------------------------------------------------------------------------
(* A frame: the tool bar, the failure box, the rows. *)

\* The click on Kill cannot confirm the dialog in the same frame, but the
\* Escape key can close it; success is not looked at.
Toolbar(click, answer, D, shiftDel) ==
    /\ pc = "toolbar"
    /\ pc' = "box"
    /\ drawn' = D /\ todo' = D /\ del' = shiftDel
    /\ IF click /\ selected # None
       THEN /\ answer # "OK"
            /\ TryKillProcess(selected, answer)
            /\ asked' = IF modalOpen THEN asked ELSE selected
       ELSE UNCHANGED <<alive, selected, modalOpen, asked, killed>>
    /\ UNCHANGED <<started, rows, killFailed>>

\* Mutant: only OK clears _killFailed.
FailureBoxOnlyOK(answer) ==
    /\ pc = "box"
    /\ pc' = "rows"
    /\ killFailed' = (killFailed /\ answer # "OK")
    /\ UNCHANGED <<systemVars, rows, selected, modalOpen, del, drawn, todo,
                   asked, killed>>

FailureBox(answer) ==
    /\ pc = "box"
    /\ pc' = "rows"
    /\ killFailed' = (killFailed /\ answer = "StillOpen")
    /\ UNCHANGED <<systemVars, rows, selected, modalOpen, del, drawn, todo,
                   asked, killed>>

\* Mutant: a click selects although the dialog is open.
ClickedAlways(p, click) == IF click THEN p ELSE selected

\* The selection after a click on the row.
Clicked(p, click) == IF ~modalOpen /\ click THEN p ELSE selected

\* Mutant: Shift+DEL opens the dialog without a selection.
OpenedByKeyAlways(sel) == ~modalOpen /\ del

OpenedByKey(sel) == ~modalOpen /\ sel # None /\ del

\* The selection after a click and the context menu, which selects its row.
Selection(p, click, menu) == IF ~modalOpen /\ menu THEN p ELSE Clicked(p, click)

\* _modalOpen after Shift+DEL and the Kill item of the menu (which is drawn
\* only if ~modalOpen).
Opened(p, click, menu, menuKill) ==
    \/ modalOpen
    \/ OpenedByKey(Clicked(p, click))
    \/ menu /\ menuKill

\* The row of p: a click, Shift+DEL, the context menu, and the dialog if the
\* row is the selected one.
DrawRow(p, click, menu, menuKill, answer) ==
    LET sel == Selection(p, click, menu)
        open == Opened(p, click, menu, menuKill)
    IN  /\ pc = "rows"
        /\ p \in todo
        /\ todo' = todo \ {p}
        /\ asked' = IF open /\ ~modalOpen THEN sel ELSE asked
        /\ IF open /\ sel = p
           THEN TryKillProcess(p, answer) /\ ReportFailure(answer)
           ELSE /\ selected' = sel /\ modalOpen' = open
                /\ UNCHANGED <<alive, killed, killFailed>>
        /\ UNCHANGED <<started, rows, pc, del, drawn>>

\* The histories of this frame are dropped.
EndFrame ==
    /\ pc = "rows"
    /\ todo = {}
    /\ pc' = "toolbar"
    /\ del' = FALSE /\ killed' = {}
    /\ asked' = IF modalOpen THEN asked ELSE None
    /\ UNCHANGED <<systemVars, rows, selected, modalOpen, killFailed, drawn,
                   todo>>

-----------------------------------------------------------------------------
System == \E p \in Process : \/ StartProcess(p) \/ ExitProcess(p)
                             \/ ListProcess(p) \/ RemoveRow(p)

StartFrame == \E click, shiftDel \in BOOLEAN, answer \in Answer,
                 D \in SUBSET rows : Toolbar(click, answer, D, shiftDel)

ShowBox == \E answer \in Answer : FailureBox(answer)

DrawSome == \E p \in todo, click, menu, menuKill \in BOOLEAN,
               answer \in Answer : DrawRow(p, click, menu, menuKill, answer)

Frame == StartFrame \/ ShowBox \/ DrawSome \/ EndFrame

Next == System \/ Frame

Spec == Init /\ [][Next]_vars

-----------------------------------------------------------------------------
(* Properties. *)

\* Every variable has its type.
TypeOK ==
    /\ started \subseteq Process /\ alive \subseteq started
    /\ rows \subseteq started
    /\ selected \in started \cup {None} /\ asked \in started \cup {None}
    /\ modalOpen \in BOOLEAN /\ killFailed \in BOOLEAN /\ del \in BOOLEAN
    /\ pc \in {"toolbar", "box", "rows"}
    /\ drawn \subseteq started /\ todo \subseteq drawn
    /\ killed \subseteq started

\* TryKillProcess uses the selection without looking whether there is one:
\* while the dialog is open there is, and it is the one it was opened for.
DialogHasSelection == modalOpen => selected # None /\ selected = asked

\* "Kill process %u (%ws)?": the process that is terminated is the one the
\* dialog named when it was opened.
KilledWasAsked == [][killed' \subseteq killed \cup {asked'}]_vars

\* If the row of the selection is drawn in every frame from some time on, an
\* open dialog is closed in the end.  Without the premise it need not be: the
\* dialog is shown by the row, and the row may be gone.
DialogCloses == <>[](selected \in drawn) => (modalOpen ~> ~modalOpen)
=============================================================================
