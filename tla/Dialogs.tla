------------------------------ MODULE Dialogs ------------------------------
(***************************************************************************)
(* Everything that pops up over the process list: the question before a    *)
(* process is killed (asked by the tool bar or by a row), the box that     *)
(* reports a failure, the About box and the context menu of a row.  They   *)
(* share one place, the entry at level 0 of ImGui's OpenPopupStack, and    *)
(* each is drawn anew in every frame by whoever thinks it is open:         *)
(* SimpleMessageBox::ShowModal takes the place if another popup has it.    *)
(*                                                                         *)
(* Module KillFlow says what the question does; here its steps happen only *)
(* with the clicks and answers that ImGui lets through.  Submenus (level 1)*)
(* and popups that hold nothing of this (main menu, colors, combo box) are *)
(* left out.                                                               *)
(***************************************************************************)
EXTENDS KillFlow

VARIABLES
    popup,      \* the entry at level 0 of OpenPopupStack
    atStart,    \* what it was at the start of this frame
    escape,     \* the Escape key is pressed in this frame
    about,      \* BuildHelpMenu's flag: the About box is open
    holder,     \* the process whose row has the index of the open menu
    menuFor,    \* history: the process for which the menu was opened
    moved,      \* history: whether rows moved since then
    acted       \* history: the process whose priority the menu set in this
                \* frame

menuVars == <<holder, menuFor, moved, acted>>
dialogVars == <<popup, atStart, escape, about, menuVars>>
allVars == <<vars, dialogVars>>

Modals == {"About", "Box", "Row", "Toolbar"}

ASSUME NoneIsNoPopup == None \notin Modals \cup {"Menu"}

\* begun: BeginPopup was called for it in this frame (at the start of a frame:
\* in the last one).  fresh: it was opened in this frame, and is hidden.
Popup == [id : Modals \cup {"Menu", None}, begun : BOOLEAN, fresh : BOOLEAN]

Closed == [id |-> None, begun |-> FALSE, fresh |-> FALSE]

InitDialogs ==
    /\ Init
    /\ popup = Closed /\ atStart = Closed /\ escape = FALSE /\ about = FALSE
    /\ holder = None /\ menuFor = None /\ moved = FALSE /\ acted = None

-----------------------------------------------------------------------------
(* ImGui. *)

\* NewFrame moves the focus away from a popup that was not drawn in the last
\* frame, which closes it; a menu is also closed by a click beside it and by
\* Escape.
KeptByNewFrame(frame) ==
    {[frame EXCEPT !.fresh = FALSE]} \cup
        IF frame.id = "Menu" \/ ~frame.begun THEN {Closed} ELSE {}

\* Nothing else gets clicks while a popup is open; it had to be drawn in the
\* last frame to get some itself.
Unobstructed == atStart.id = None

InFront(id) == atStart.id = id /\ atStart.begun

\* OpenPopup if not IsPopupOpen, and BeginPopup: a popup with another id loses
\* its place.
Shown(place, id) ==
    [id |-> id, begun |-> TRUE, fresh |-> place.fresh \/ place.id # id]

-----------------------------------------------------------------------------
(* SimpleMessageBox::ShowModal. *)

\* The Escape key reaches every box of the frame and comes last; the buttons
\* are those of the box that was in front.
CanAnswer(id, answer, buttons) ==
    IF escape' THEN answer = "Cancel"
    ELSE answer # "StillOpen" => answer \in buttons /\ InFront(id)'

ShowModal(place, id, answer) ==
    IF answer = "StillOpen" THEN Shown(place, id) ELSE Closed

-----------------------------------------------------------------------------
(* The system and the list: a refresh moves rows, and so does a sort. *)

\* The open menu is named by an index into _processes.
RowsMove ==
    /\ IF popup.id = "Menu"
       THEN holder' \in rows' \cup {None} /\ moved' = TRUE
       ELSE UNCHANGED <<holder, moved>>
    /\ UNCHANGED <<popup, atStart, escape, about, menuFor, acted>>

ChangeRows(p) == (ListProcess(p) \/ RemoveRow(p)) /\ RowsMove

Sort == pc = "toolbar" /\ popup.id = "Menu" /\ UNCHANGED vars /\ RowsMove

ChangeSystem(p) == (StartProcess(p) \/ ExitProcess(p)) /\ UNCHANGED dialogVars

-----------------------------------------------------------------------------
(* A frame. *)

\* Mutant: Cancel clears the flag of the About box, OK does not.
AboutAfterSwapped(open, answer) == open /\ answer # "Cancel"

\* Only OK clears the flag of the About box.
AboutAfter(open, answer) == open /\ answer # "OK"

\* NewFrame, BuildHelpMenu (item: About is chosen in the Help menu) and the
\* tool bar.
BeginFrame(esc, item, aboutAnswer, click, D, shiftDel) ==
    LET open == about \/ item
        first == IF open THEN ShowModal(atStart', "About", aboutAnswer)
                         ELSE [atStart' EXCEPT !.begun = FALSE]
        answer == IF esc THEN "Cancel" ELSE "StillOpen"
    IN  /\ Toolbar(click, answer, D, shiftDel)
        /\ escape' = esc
        /\ about' = AboutAfter(open, aboutAnswer)
        /\ atStart' \in KeptByNewFrame(popup)
        /\ item \/ click => Unobstructed'
        /\ IF open THEN CanAnswer("About", aboutAnswer, {"OK"})
                   ELSE aboutAnswer = "StillOpen"
        /\ popup' = IF click /\ selected # None
                    THEN ShowModal(first, "Toolbar", answer) ELSE first
        /\ UNCHANGED menuVars

\* The box that reports a failure.
DrawBox(answer) ==
    /\ UNCHANGED <<atStart, escape, about, menuVars>>
    /\ IF killFailed
       THEN /\ CanAnswer("Box", answer, {"OK"})
            /\ popup' = ShowModal(popup, "Box", answer)
       ELSE answer = "StillOpen" /\ UNCHANGED popup
    /\ FailureBox(answer)

\* Mutant: the name of the menu has no index, so that every row draws it.
MenuOfAnyRow(p) == popup.id = "Menu"

\* The menu that is open is the one of the row of p.
MenuOf(p) == popup.id = "Menu" /\ holder = p

\* The other items only close the menu, as NewFrame may.
Items == {"none", "Priority", "Kill"}

\* BuildPriorityClassMenu opens the process by its id in every frame.
SetPriority(p, item) ==
    IF item = "Priority" THEN acted' \in Targets(p.Id) ELSE UNCHANGED acted

\* The row of p: rightClick opens its menu, item is chosen in it.
DrawRowAndMenu(p, click, rightClick, item, answer) ==
    LET menu == ~modalOpen /\ (rightClick \/ MenuOf(p))
        asks == Opened(p, click, menu, item = "Kill")
                    /\ Selection(p, click, menu) = p
        afterMenu == IF ~menu THEN popup
                     ELSE IF item # "none" THEN Closed
                     ELSE Shown(popup, "Menu")
    IN  /\ pc = "rows"
        /\ UNCHANGED <<atStart, escape, about>>
        /\ click => Unobstructed
        /\ rightClick => ~modalOpen /\ atStart.id \notin Modals
        /\ item # "none" => menu /\ ~rightClick /\ InFront("Menu")
        /\ IF asks THEN CanAnswer("Row", answer, {"OK", "Cancel"})
                   ELSE answer = "StillOpen"
        /\ popup' = IF asks THEN ShowModal(afterMenu, "Row", answer)
                            ELSE afterMenu
        /\ DrawRow(p, click, menu, item = "Kill", answer)
        /\ SetPriority(p, item)
        /\ IF rightClick THEN holder' = p /\ menuFor' = p /\ moved' = FALSE
                         ELSE UNCHANGED <<holder, menuFor, moved>>

FinishFrame ==
    /\ EndFrame
    /\ atStart' = Closed /\ escape' = FALSE /\ acted' = None
    /\ IF popup.id = "Menu"
       THEN UNCHANGED <<holder, menuFor, moved>>
       ELSE holder' = None /\ menuFor' = None /\ moved' = FALSE
    /\ UNCHANGED <<popup, about>>

-----------------------------------------------------------------------------
Begins == \E esc, item, click, shiftDel \in BOOLEAN, aboutAnswer \in Answer,
             D \in SUBSET rows :
             BeginFrame(esc, item, aboutAnswer, click, D, shiftDel)

Draws == \/ \E answer \in Answer : DrawBox(answer)
         \/ \E p \in todo, click, rightClick \in BOOLEAN, item \in Items,
               answer \in Answer :
               DrawRowAndMenu(p, click, rightClick, item, answer)

NextDialogs == \/ \E p \in Process : ChangeSystem(p) \/ ChangeRows(p)
               \/ Sort
               \/ Begins \/ Draws \/ FinishFrame

\* The user presses Escape while a question or the failure box is open.
PressEscape ==
    /\ modalOpen \/ killFailed
    /\ \E aboutAnswer \in Answer, D \in SUBSET rows :
          BeginFrame(TRUE, FALSE, aboutAnswer, FALSE, D, FALSE)

\* The user presses OK in an About box that is on the screen.
CloseAbout ==
    /\ popup.id = "About" /\ ~popup.fresh
    /\ \E D \in SUBSET rows : BeginFrame(FALSE, FALSE, "OK", FALSE, D, FALSE)

\* Frames go on (the message loop), and the user answers in the end.
FairDialogs == /\ InitDialogs /\ [][NextDialogs]_allVars
               /\ WF_frameVars(Begins \/ Draws \/ FinishFrame)
               /\ SF_allVars(PressEscape) /\ SF_allVars(CloseAbout)

-----------------------------------------------------------------------------
(* Properties, besides those of KillFlow. *)

\* What is chosen in a context menu happens to the process whose row was
\* clicked, unless rows moved while the menu was open: then it belongs to
\* whichever row has the index now.
MenuActsOnItsRow ==
    [][acted' \notin {None, acted} => moved \/ acted' = menuFor]_allVars

\* The box that reports a failure closes in the end, also if a question or the
\* About box takes its place in every frame: Escape answers all of them.
FailureBoxCloses == killFailed ~> ~killFailed

\* The About box closes in the end if nothing else pops up and the user leaves
\* Escape alone, which would open it again in the next frame.
AboutCloses ==
    <>[](popup.id \in {"About", None} /\ ~escape) => (about ~> ~about)
=============================================================================
