--------------------------- MODULE KillFlowProofs ---------------------------
(***************************************************************************)
(* For any processes, any ids that are reused, any frames and any input,   *)
(* an open dialog belongs to the selection it was opened for; and if ids   *)
(* are not reused, only the process that the dialog named is terminated.   *)
(* With everything that pops up beside the dialog (module Dialogs) this    *)
(* still holds, and a context menu acts on its own row.                    *)
(***************************************************************************)
EXTENDS Dialogs, TLAPS

Inv == TypeOK /\ DialogHasSelection

\* No two processes ever have the same id.
IdsNotReused == \A p, q \in Process : p.Id = q.Id => p = q

\* What a step terminates was running, and a dialog had asked for its id.
KillsById == \A t \in killed' \ killed :
                t \in alive /\ asked' \in Process /\ t.Id = asked'.Id

-----------------------------------------------------------------------------
(* TryKillProcess. *)

\* A selected process stays selected while the dialog is open; the process is
\* terminated, if one is, by OK, and it is one that has the id.
LEMMA TryKill ==
    ASSUME NEW p \in started, NEW answer \in Answer, TypeOK,
           TryKillProcess(p, answer)
    PROVE  /\ modalOpen' \in BOOLEAN
           /\ modalOpen' => selected' = p
           /\ selected' \in started \cup {None}
           /\ alive' \subseteq started
           /\ killed' \subseteq started
           /\ killed' \subseteq killed \cup Targets(p.Id)
           /\ answer # "OK" => killed' = killed
<1>1. CASE answer = "OK"
  <2>1. CASE UNCHANGED <<alive, killed>> /\ selected' = p
    BY <1>1, <2>1 DEF TryKillProcess, TypeOK
  <2>2. ASSUME NEW t \in Targets(p.Id), alive' = alive \ {t},
               killed' = killed \cup {t}, selected' = None
        PROVE  /\ selected' \in started \cup {None}
               /\ alive' \subseteq started
               /\ killed' \subseteq started
               /\ killed' \subseteq killed \cup Targets(p.Id)
    BY <2>2 DEF TypeOK, Targets
  <2>3. modalOpen' = FALSE
    BY <1>1 DEF TryKillProcess
  <2>4. QED
    BY <1>1, <2>1, <2>2, <2>3 DEF TryKillProcess, KillProcess
<1>2. CASE answer # "OK"
  BY <1>2 DEF TryKillProcess, TypeOK
<1>3. QED
  BY <1>1, <1>2

\* The report of a failure only sets the flag.
LEMMA Report ==
    ASSUME NEW answer \in Answer, TypeOK, ReportFailure(answer)
    PROVE  killFailed' \in BOOLEAN
BY DEF ReportFailure, TypeOK

-----------------------------------------------------------------------------
(* The invariant. *)

LEMMA InvInit == Init => Inv
BY DEF Init, Inv, TypeOK, DialogHasSelection

\* The system and the list leave selection and dialog alone.
LEMMA InvSystem ==
    ASSUME Inv, System
    PROVE  Inv'
<1>. PICK p \in Process : \/ StartProcess(p) \/ ExitProcess(p)
                          \/ ListProcess(p) \/ RemoveRow(p)
  BY DEF System
<1>1. UNCHANGED <<selected, modalOpen, killFailed, frameVars, asked, killed>>
  BY DEF StartProcess, ExitProcess, ListProcess, RemoveRow
<1>2. /\ started \subseteq started' /\ started' \subseteq Process
      /\ alive' \subseteq started' /\ rows' \subseteq started'
  BY DEF Inv, TypeOK, StartProcess, ExitProcess, ListProcess, RemoveRow,
         systemVars
<1>3. QED
  BY <1>1, <1>2 DEF Inv, TypeOK, DialogHasSelection, frameVars

\* The tool bar may open the dialog, for the selection, and may close it.
LEMMA InvToolbar ==
    ASSUME Inv, StartFrame
    PROVE  Inv'
<1>. PICK click \in BOOLEAN, shiftDel \in BOOLEAN, answer \in Answer,
          D \in SUBSET rows : Toolbar(click, answer, D, shiftDel)
  BY DEF StartFrame
<1>1. /\ pc' = "box" /\ drawn' = D /\ todo' = D /\ del' = shiftDel
      /\ UNCHANGED <<started, rows, killFailed>>
  BY DEF Toolbar
<1>2. CASE click /\ selected # None
  <2>1. selected \in started
    BY <1>2 DEF Inv, TypeOK
  <2>2. TryKillProcess(selected, answer)
            /\ asked' = IF modalOpen THEN asked ELSE selected
    BY <1>2 DEF Toolbar
  <2>3. /\ modalOpen' \in BOOLEAN /\ (modalOpen' => selected' = selected)
        /\ selected' \in started \cup {None} /\ alive' \subseteq started
        /\ killed' \subseteq started
    BY <2>1, <2>2, TryKill DEF Inv
  <2>4. QED
    BY <1>1, <1>2, <2>2, <2>3 DEF Inv, TypeOK, DialogHasSelection
<1>3. CASE ~(click /\ selected # None)
  <2>1. UNCHANGED <<alive, selected, modalOpen, asked, killed>>
    BY <1>3 DEF Toolbar
  <2>2. QED
    BY <1>1, <2>1 DEF Inv, TypeOK, DialogHasSelection
<1>4. QED
  BY <1>2, <1>3

\* The row of a process: what is selected after click and menu is what the
\* dialog, if it is open then, belongs to.
LEMMA InvRow ==
    ASSUME Inv,
           NEW p \in todo, NEW click \in BOOLEAN, NEW menu \in BOOLEAN,
           NEW menuKill \in BOOLEAN, NEW answer \in Answer,
           DrawRow(p, click, menu, menuKill, answer)
    PROVE  Inv' /\ KillsById
<1>. DEFINE sel == Selection(p, click, menu)
            open == Opened(p, click, menu, menuKill)
<1>1. /\ todo' = todo \ {p}
      /\ asked' = IF open /\ ~modalOpen THEN sel ELSE asked
      /\ UNCHANGED <<started, rows, pc, del, drawn>>
  BY DEF DrawRow
<1>2. p \in started /\ p \in Process /\ p # None
  BY NoneIsNoProcess DEF Inv, TypeOK
<1>3. sel \in started \cup {None} /\ open \in BOOLEAN
  BY <1>2 DEF Selection, Opened, Clicked, OpenedByKey, Inv, TypeOK
<1>4. open => /\ sel # None
              /\ sel = IF ~modalOpen THEN sel ELSE asked
  BY <1>2 DEF Selection, Opened, Clicked, OpenedByKey, Inv, DialogHasSelection
<1>5. asked' \in started \cup {None} /\ (open => asked' = sel)
  BY <1>1, <1>3, <1>4 DEF Inv, TypeOK
<1>6. CASE open /\ sel = p
  <2>1. TryKillProcess(p, answer) /\ ReportFailure(answer)
    BY <1>6 DEF DrawRow
  <2>2. /\ modalOpen' \in BOOLEAN /\ (modalOpen' => selected' = p)
        /\ selected' \in started \cup {None} /\ alive' \subseteq started
        /\ killed' \subseteq started
        /\ killed' \subseteq killed \cup Targets(p.Id)
    BY <1>2, <2>1, TryKill DEF Inv
  <2>3. killFailed' \in BOOLEAN
    BY <2>1, Report DEF Inv
  <2>4. TypeOK'
    BY <1>1, <1>5, <2>2, <2>3 DEF Inv, TypeOK
  <2>5. DialogHasSelection'
    BY <1>2, <1>5, <1>6, <2>2 DEF DialogHasSelection
  <2>6. KillsById
    BY <1>2, <1>5, <1>6, <2>2 DEF KillsById, Targets
  <2>7. QED
    BY <2>4, <2>5, <2>6 DEF Inv
<1>7. CASE ~(open /\ sel = p)
  <2>1. /\ selected' = sel /\ modalOpen' = open
        /\ UNCHANGED <<alive, killed, killFailed>>
    BY <1>7 DEF DrawRow
  <2>2. TypeOK'
    BY <1>1, <1>3, <1>5, <2>1 DEF Inv, TypeOK
  <2>3. DialogHasSelection'
    BY <1>4, <1>5, <2>1 DEF DialogHasSelection
  <2>4. KillsById
    BY <2>1 DEF KillsById
  <2>5. QED
    BY <2>2, <2>3, <2>4 DEF Inv
<1>8. QED
  BY <1>6, <1>7

LEMMA InvNext == Inv /\ [Next]_vars => Inv'
<1>. SUFFICES ASSUME Inv, [Next]_vars PROVE Inv'
  OBVIOUS
<1>1. CASE System
  BY <1>1, InvSystem
<1>2. CASE StartFrame
  BY <1>2, InvToolbar
<1>3. CASE ShowBox
  BY <1>3
  DEF ShowBox, FailureBox, Inv, TypeOK, DialogHasSelection, systemVars
<1>4. CASE DrawSome
  BY <1>4, InvRow DEF DrawSome
<1>5. CASE EndFrame
  BY <1>5 DEF EndFrame, Inv, TypeOK, DialogHasSelection, systemVars
<1>6. CASE UNCHANGED vars
  BY <1>6 DEF vars, Inv, TypeOK, DialogHasSelection, systemVars, frameVars
<1>7. QED
  BY <1>1, <1>2, <1>3, <1>4, <1>5, <1>6 DEF Next, Frame

LEMMA Invariance == Spec => []Inv
<1>1. Init => Inv
  BY InvInit
<1>2. Inv /\ [Next]_vars => Inv'
  BY InvNext
<1>3. QED
  BY <1>1, <1>2, PTL DEF Spec

-----------------------------------------------------------------------------
(* The theorems. *)

\* Every variable of the flow keeps its type.
THEOREM TypeCorrect == Spec => []TypeOK
<1>1. Inv => TypeOK
  BY DEF Inv
<1>2. QED
  BY <1>1, Invariance, PTL

\* TryKillProcess never meets a null selection while the dialog is open, and
\* the selection does not change under the dialog.
THEOREM DialogAlwaysHasSelection == Spec => []DialogHasSelection
<1>1. Inv => DialogHasSelection
  BY DEF Inv
<1>2. QED
  BY <1>1, Invariance, PTL

LEMMA StepKillsById == Inv /\ [Next]_vars => KillsById
<1>. SUFFICES ASSUME Inv, [Next]_vars PROVE KillsById
  OBVIOUS
<1>1. CASE DrawSome
  BY <1>1, InvRow DEF DrawSome
<1>2. CASE StartFrame
  <2>. PICK click \in BOOLEAN, shiftDel \in BOOLEAN, answer \in Answer,
            D \in SUBSET rows : Toolbar(click, answer, D, shiftDel)
    BY <1>2 DEF StartFrame
  <2>1. killed' = killed
    BY DEF Toolbar, TryKillProcess
  <2>2. QED
    BY <2>1 DEF KillsById
<1>3. CASE killed' \subseteq killed
  BY <1>3 DEF KillsById
<1>4. DrawSome \/ StartFrame \/ killed' \subseteq killed
  BY DEF Next, System, StartProcess, ExitProcess, ListProcess, RemoveRow,
         Frame, ShowBox, FailureBox, EndFrame, vars
<1>5. QED
  BY <1>1, <1>2, <1>3, <1>4

\* Whatever becomes of ids, a process is terminated only while it runs, and
\* only under an id that a dialog showed: no other input terminates anything.
KilledHasAskedId == [][KillsById]_vars

THEOREM OnlyAskedIdIsKilled == Spec => KilledHasAskedId
<1>1. Inv /\ [Next]_vars => [KillsById]_vars
  BY StepKillsById
<1>2. QED
  BY <1>1, Invariance, PTL DEF Spec, KilledHasAskedId

\* "Kill process %u (%ws)?": if ids are not reused, confirming the dialog
\* terminates the process that it named and no other.
THEOREM OnlyAskedIsKilled ==
    ASSUME IdsNotReused
    PROVE  Spec => KilledWasAsked
<1>1. Inv /\ [Next]_vars => [killed' \subseteq killed \cup {asked'}]_vars
  <2>. SUFFICES ASSUME Inv, [Next]_vars, NEW t \in killed' \ killed
                PROVE  t = asked'
    OBVIOUS
  <2>1. t \in Process /\ asked' \in Process /\ t.Id = asked'.Id
    BY StepKillsById DEF KillsById, Inv, TypeOK
  <2>2. QED
    BY <2>1, IdsNotReused DEF IdsNotReused
<1>2. QED
  BY <1>1, Invariance, PTL DEF Spec, KilledWasAsked

-----------------------------------------------------------------------------
(* The dialogs. *)

DialogSpec == InitDialogs /\ [][NextDialogs]_allVars

LEMMA DialogStep == [NextDialogs]_allVars => [Next]_vars
<1>. SUFFICES ASSUME [NextDialogs]_allVars PROVE [Next]_vars
  OBVIOUS
<1>1. ASSUME NEW p \in Process, ChangeSystem(p) \/ ChangeRows(p)
      PROVE  System
  BY <1>1 DEF ChangeSystem, ChangeRows, System
<1>2. CASE Sort
  BY <1>2 DEF Sort
<1>3. CASE Begins
  <2>1. PICK esc \in BOOLEAN, item \in BOOLEAN, click \in BOOLEAN,
             shiftDel \in BOOLEAN, aboutAnswer \in Answer,
             D \in SUBSET rows :
             BeginFrame(esc, item, aboutAnswer, click, D, shiftDel)
    BY <1>3 DEF Begins
  <2>2. Toolbar(click, IF esc THEN "Cancel" ELSE "StillOpen", D, shiftDel)
    BY <2>1 DEF BeginFrame
  <2>3. (IF esc THEN "Cancel" ELSE "StillOpen") \in Answer
    BY DEF Answer
  <2>4. StartFrame
    BY <2>2, <2>3 DEF StartFrame
  <2>5. QED
    BY <2>4 DEF Next, Frame
<1>4. CASE Draws
  <2>1. ASSUME NEW answer \in Answer, DrawBox(answer)
        PROVE  ShowBox
    BY <2>1 DEF DrawBox, ShowBox
  <2>2. ASSUME NEW p \in todo, NEW click \in BOOLEAN,
               NEW rightClick \in BOOLEAN, NEW item \in Items,
               NEW answer \in Answer,
               DrawRowAndMenu(p, click, rightClick, item, answer)
        PROVE  DrawSome
    <3>. DEFINE menu == ~modalOpen /\ (rightClick \/ MenuOf(p))
    <3>1. menu \in BOOLEAN /\ (item = "Kill") \in BOOLEAN
      OBVIOUS
    <3>2. DrawRow(p, click, menu, item = "Kill", answer)
      BY <2>2 DEF DrawRowAndMenu
    <3>3. QED
      BY <3>1, <3>2 DEF DrawSome
  <2>3. QED
    BY <1>4, <2>1, <2>2 DEF Draws, Next, Frame
<1>5. CASE FinishFrame
  BY <1>5 DEF FinishFrame, Next, Frame
<1>6. CASE UNCHANGED allVars
  BY <1>6 DEF allVars
<1>7. QED
  BY <1>1, <1>2, <1>3, <1>4, <1>5, <1>6 DEF NextDialogs, Next

\* Whatever else pops up, and however popups take the place of each other, what
\* happens to the question is a behaviour of the flow by itself: all that is
\* proved of it above holds with the other dialogs too.
THEOREM DialogsImplementKillFlow == DialogSpec => Spec
<1>1. InitDialogs => Init
  BY DEF InitDialogs
<1>2. QED
  BY <1>1, DialogStep, PTL DEF DialogSpec, Spec

\* The row that has the index of an open menu is the one it was opened for,
\* as long as rows stay where they are.
MenuInv == /\ popup \in Popup
           /\ popup.id = "Menu" /\ ~moved => holder = menuFor

\* ShowModal leaves no menu.
LEMMA ModalIsNoMenu ==
    ASSUME NEW place \in Popup, NEW id \in Modals, NEW answer
    PROVE  /\ ShowModal(place, id, answer) \in Popup
           /\ ShowModal(place, id, answer).id # "Menu"
BY NoneIsNoPopup DEF ShowModal, Shown, Closed, Popup, Modals

LEMMA NewFrameOpensNothing ==
    ASSUME NEW place \in Popup, NEW kept \in KeptByNewFrame(place)
    PROVE  /\ kept \in Popup
           /\ [kept EXCEPT !.begun = FALSE] \in Popup
           /\ [kept EXCEPT !.begun = FALSE].id \in {place.id, None}
<1>1. kept \in {[place EXCEPT !.fresh = FALSE], Closed}
  BY DEF KeptByNewFrame
<1>2. CASE kept = Closed
  BY <1>2 DEF Closed, Popup
<1>3. CASE kept = [place EXCEPT !.fresh = FALSE]
  BY <1>3 DEF Popup
<1>4. QED
  BY <1>1, <1>2, <1>3

LEMMA MenuInvBegins ==
    ASSUME MenuInv, Begins
    PROVE  MenuInv'
<1>1. PICK esc \in BOOLEAN, item \in BOOLEAN, click \in BOOLEAN,
           shiftDel \in BOOLEAN, aboutAnswer \in Answer, D \in SUBSET rows :
           BeginFrame(esc, item, aboutAnswer, click, D, shiftDel)
  BY DEF Begins
<1>. DEFINE open == about \/ item
            idle == [atStart' EXCEPT !.begun = FALSE]
            first == IF open THEN ShowModal(atStart', "About", aboutAnswer)
                             ELSE idle
            answer == IF esc THEN "Cancel" ELSE "StillOpen"
<1>2. /\ atStart' \in KeptByNewFrame(popup) /\ UNCHANGED menuVars
      /\ popup' = IF click /\ selected # None
                  THEN ShowModal(first, "Toolbar", answer) ELSE first
  BY <1>1 DEF BeginFrame
<1>3. /\ atStart' \in Popup /\ idle \in Popup
      /\ idle.id \in {popup.id, None}
  BY <1>2, NewFrameOpensNothing DEF MenuInv
<1>4. first \in Popup /\ (first.id = "Menu" => popup.id = "Menu")
  BY <1>3, ModalIsNoMenu, NoneIsNoPopup DEF Modals
<1>5. popup' \in Popup /\ (popup'.id = "Menu" => popup.id = "Menu")
  <2>. HIDE DEF first, answer
  <2>1. CASE click /\ selected # None
    BY <1>2, <1>4, <2>1, ModalIsNoMenu DEF Modals
  <2>2. CASE ~(click /\ selected # None)
    BY <1>2, <1>4, <2>2
  <2>3. QED
    BY <2>1, <2>2
<1>6. QED
  BY <1>2, <1>5 DEF MenuInv, menuVars

LEMMA MenuInvRow ==
    ASSUME MenuInv, NEW p \in todo, NEW click \in BOOLEAN,
           NEW rightClick \in BOOLEAN, NEW item \in Items,
           NEW answer \in Answer,
           DrawRowAndMenu(p, click, rightClick, item, answer)
    PROVE  MenuInv'
<1>. DEFINE menu == ~modalOpen /\ (rightClick \/ MenuOf(p))
            asks == Opened(p, click, menu, item = "Kill")
                        /\ Selection(p, click, menu) = p
            afterMenu == IF ~menu THEN popup
                         ELSE IF item # "none" THEN Closed
                         ELSE Shown(popup, "Menu")
<1>1. /\ popup' = IF asks THEN ShowModal(afterMenu, "Row", answer)
                          ELSE afterMenu
      /\ rightClick => ~modalOpen
      /\ IF rightClick THEN holder' = p /\ menuFor' = p /\ moved' = FALSE
                       ELSE UNCHANGED <<holder, menuFor, moved>>
  BY DEF DrawRowAndMenu
<1>2. /\ afterMenu \in Popup
      /\ afterMenu.id = "Menu" => rightClick \/ popup.id = "Menu"
  BY NoneIsNoPopup DEF MenuInv, MenuOf, Closed, Shown, Popup
<1>3. popup' \in Popup /\ (popup'.id = "Menu" => popup' = afterMenu)
  <2>. HIDE DEF asks, afterMenu
  <2>1. CASE asks
    BY <1>1, <1>2, <2>1, ModalIsNoMenu DEF Modals
  <2>2. CASE ~asks
    BY <1>1, <1>2, <2>2
  <2>3. QED
    BY <2>1, <2>2
<1>4. QED
  <2>. HIDE DEF afterMenu
  <2>1. CASE rightClick
    BY <1>1, <1>3, <2>1 DEF MenuInv
  <2>2. CASE ~rightClick
    BY <1>1, <1>2, <1>3, <2>2 DEF MenuInv
  <2>3. QED
    BY <2>1, <2>2

LEMMA MenuInvNext == MenuInv /\ [NextDialogs]_allVars => MenuInv'
<1>. SUFFICES ASSUME MenuInv, [NextDialogs]_allVars PROVE MenuInv'
  OBVIOUS
<1>1. ASSUME NEW p \in Process, ChangeSystem(p) \/ ChangeRows(p)
      PROVE  MenuInv'
  BY <1>1
  DEF ChangeSystem, ChangeRows, RowsMove, MenuInv, dialogVars, menuVars
<1>2. CASE Sort
  BY <1>2 DEF Sort, RowsMove, MenuInv
<1>3. CASE Begins
  BY <1>3, MenuInvBegins
<1>4. CASE Draws
  <2>1. ASSUME NEW answer \in Answer, DrawBox(answer)
        PROVE  MenuInv'
    <3>1. UNCHANGED menuVars
      BY <2>1 DEF DrawBox
    <3>2. CASE killFailed
      <4>1. popup' = ShowModal(popup, "Box", answer)
        BY <2>1, <3>2 DEF DrawBox
      <4>2. QED
        BY <3>1, <4>1, ModalIsNoMenu DEF MenuInv, Modals
    <3>3. CASE ~killFailed
      BY <2>1, <3>1, <3>3 DEF DrawBox, MenuInv, menuVars
    <3>4. QED
      BY <3>2, <3>3
  <2>2. QED
    BY <1>4, <2>1, MenuInvRow DEF Draws
<1>5. CASE FinishFrame
  BY <1>5 DEF FinishFrame, MenuInv
<1>6. CASE UNCHANGED allVars
  BY <1>6 DEF allVars, dialogVars, menuVars, MenuInv
<1>7. QED
  BY <1>1, <1>2, <1>3, <1>4, <1>5, <1>6 DEF NextDialogs

LEMMA StepActsOnItsRow ==
    Inv /\ MenuInv /\ IdsNotReused /\ [NextDialogs]_allVars
        => [acted' \notin {None, acted} => moved \/ acted' = menuFor]_allVars
<1>. SUFFICES ASSUME Inv, MenuInv, IdsNotReused, NextDialogs,
                     acted' \notin {None, acted}
              PROVE  moved \/ acted' = menuFor
  OBVIOUS
<1>1. Draws /\ \A answer \in Answer : ~DrawBox(answer)
  BY DEF NextDialogs, ChangeSystem, ChangeRows, RowsMove, Sort, Begins,
         BeginFrame, FinishFrame, Draws, DrawBox, dialogVars, menuVars
<1>2. PICK p \in todo, click \in BOOLEAN, rightClick \in BOOLEAN,
           item \in Items, answer \in Answer :
           DrawRowAndMenu(p, click, rightClick, item, answer)
  BY <1>1 DEF Draws
<1>3. item = "Priority" /\ acted' \in Targets(p.Id)
  BY <1>2 DEF DrawRowAndMenu, SetPriority
<1>4. popup.id = "Menu" /\ holder = p
  BY <1>2, <1>3 DEF DrawRowAndMenu, MenuOf
<1>5. acted' = p
  BY <1>3 DEF IdsNotReused, Targets, Inv, TypeOK
<1>6. QED
  BY <1>4, <1>5 DEF MenuInv

\* If ids are not reused, the priority menu of a row acts on the process of that
\* row, for any number of rows, as long as rows do not move under it.
THEOREM MenuAlwaysActsOnItsRow ==
    ASSUME IdsNotReused
    PROVE  DialogSpec => MenuActsOnItsRow
<1>1. InitDialogs => MenuInv
  BY NoneIsNoPopup DEF InitDialogs, MenuInv, Closed, Popup
<1>2. MenuInv /\ [NextDialogs]_allVars => MenuInv'
  BY MenuInvNext
<1>3. Inv /\ MenuInv /\ [NextDialogs]_allVars
        => [acted' \notin {None, acted} => moved \/ acted' = menuFor]_allVars
  BY StepActsOnItsRow, IdsNotReused
<1>4. QED
  BY <1>1, <1>2, <1>3, DialogsImplementKillFlow, Invariance, PTL
  DEF DialogSpec, MenuActsOnItsRow

-----------------------------------------------------------------------------
(* One answer, one process. *)

\* A frame terminates at most one process, and only if the question was in
\* front of the user when the frame began: none is asked and confirmed within
\* one frame, and neither Shift+DEL, which is seen by every row, nor a menu
\* asks again in the frame of the answer.
OneKillPerAnswer ==
    killed # {} => /\ atStart.id = "Row"
                   /\ \A s, t \in killed : s = t

AnswerInv ==
    /\ OneKillPerAnswer
    /\ killed # {} => /\ pc = "rows" /\ ~modalOpen
                      /\ selected = None /\ popup.id # "Menu"

\* The row on which OK is pressed.
LEMMA FirstKill ==
    ASSUME killed = {}, NEW p \in todo, NEW click \in BOOLEAN,
           NEW rightClick \in BOOLEAN, NEW item \in Items,
           NEW answer \in Answer,
           DrawRowAndMenu(p, click, rightClick, item, answer)
    PROVE  AnswerInv'
<1>. DEFINE menu == ~modalOpen /\ (rightClick \/ MenuOf(p))
            asks == Opened(p, click, menu, item = "Kill")
                        /\ Selection(p, click, menu) = p
            afterMenu == IF ~menu THEN popup
                         ELSE IF item # "none" THEN Closed
                         ELSE Shown(popup, "Menu")
<1>1. /\ pc = "rows" /\ UNCHANGED <<pc, atStart>>
      /\ DrawRow(p, click, menu, item = "Kill", answer)
      /\ asks => CanAnswer("Row", answer, {"OK", "Cancel"})
      /\ asks => popup' = ShowModal(afterMenu, "Row", answer)
  BY DEF DrawRowAndMenu, DrawRow
<1>2. IF asks THEN TryKillProcess(p, answer) ELSE killed' = killed
  BY <1>1 DEF DrawRow
<1>. HIDE DEF asks, afterMenu
<1>3. CASE asks /\ answer = "OK" /\ killed' # {}
  <2>1. atStart'.id = "Row"
    BY <1>1, <1>3 DEF CanAnswer, InFront
  <2>2. ~modalOpen'
    BY <1>2, <1>3 DEF TryKillProcess
  <2>3. PICK t \in Targets(p.Id) : killed' = {t} /\ selected' = None
    BY <1>2, <1>3 DEF TryKillProcess, KillProcess
  <2>4. popup'.id # "Menu"
    BY <1>1, <1>3, NoneIsNoPopup DEF ShowModal, Closed
  <2>5. QED
    BY <1>1, <2>1, <2>2, <2>3, <2>4 DEF AnswerInv, OneKillPerAnswer
<1>4. CASE killed' = {}
  BY <1>4 DEF AnswerInv, OneKillPerAnswer
<1>5. (asks /\ answer = "OK") \/ killed' = {}
  BY <1>2 DEF TryKillProcess
<1>6. QED
  BY <1>3, <1>4, <1>5

\* The rows drawn after it.
LEMMA NoSecondKill ==
    ASSUME AnswerInv, killed # {}, NEW p \in todo, NEW click \in BOOLEAN,
           NEW rightClick \in BOOLEAN, NEW item \in Items,
           NEW answer \in Answer,
           DrawRowAndMenu(p, click, rightClick, item, answer)
    PROVE  AnswerInv'
<1>. DEFINE menu == ~modalOpen /\ (rightClick \/ MenuOf(p))
<1>1. /\ atStart.id = "Row" /\ pc = "rows" /\ ~modalOpen
      /\ selected = None /\ popup.id # "Menu"
  BY DEF AnswerInv, OneKillPerAnswer
<1>2. ~click /\ ~rightClick /\ item = "none"
  BY <1>1, NoneIsNoPopup DEF DrawRowAndMenu, Unobstructed, InFront, Modals
<1>3. ~menu
  BY <1>1, <1>2 DEF MenuOf
<1>4. ~Opened(p, click, menu, item = "Kill")
  BY <1>1, <1>2, <1>3 DEF Opened, OpenedByKey, Clicked
<1>5. Selection(p, click, menu) = None
  BY <1>1, <1>2, <1>3 DEF Selection, Clicked
<1>6. DrawRow(p, click, menu, item = "Kill", answer)
      /\ popup' = popup /\ atStart' = atStart
  BY <1>3, <1>4 DEF DrawRowAndMenu
<1>. HIDE DEF menu
<1>7. selected' = None /\ modalOpen' = FALSE /\ killed' = killed /\ pc' = pc
  BY <1>4, <1>5, <1>6 DEF DrawRow
<1>8. QED
  BY <1>1, <1>6, <1>7 DEF AnswerInv, OneKillPerAnswer

LEMMA AnswerInvNext == AnswerInv /\ [NextDialogs]_allVars => AnswerInv'
<1>. SUFFICES ASSUME AnswerInv, [NextDialogs]_allVars PROVE AnswerInv'
  OBVIOUS
<1>1. CASE killed' = {}
  BY <1>1 DEF AnswerInv, OneKillPerAnswer
<1>2. CASE UNCHANGED <<killed, pc, modalOpen, selected, popup, atStart>>
  BY <1>2 DEF AnswerInv, OneKillPerAnswer
<1>3. ASSUME pc # "rows", killed' = killed PROVE AnswerInv'
  BY <1>1, <1>3 DEF AnswerInv
<1>4. ASSUME NEW p \in Process, ChangeSystem(p) \/ ChangeRows(p)
      PROVE  AnswerInv'
  BY <1>2, <1>4 DEF ChangeSystem, ChangeRows, RowsMove, StartProcess,
     ExitProcess, ListProcess, RemoveRow, frameVars, dialogVars
<1>5. CASE Sort
  BY <1>2, <1>5 DEF Sort, RowsMove, vars, frameVars
<1>6. CASE Begins
  <2>1. PICK esc \in BOOLEAN, item \in BOOLEAN, click \in BOOLEAN,
             shiftDel \in BOOLEAN, aboutAnswer \in Answer, D \in SUBSET rows :
             BeginFrame(esc, item, aboutAnswer, click, D, shiftDel)
    BY <1>6 DEF Begins
  <2>2. pc = "toolbar" /\ killed' = killed
    BY <2>1 DEF BeginFrame, Toolbar, TryKillProcess
  <2>3. QED
    BY <1>3, <2>2
<1>7. ASSUME NEW answer \in Answer, DrawBox(answer) PROVE AnswerInv'
  BY <1>3, <1>7 DEF DrawBox, FailureBox
<1>8. CASE Draws
  BY <1>7, <1>8, FirstKill, NoSecondKill DEF Draws
<1>9. CASE FinishFrame
  BY <1>1, <1>9 DEF FinishFrame, EndFrame
<1>10. CASE UNCHANGED allVars
  BY <1>2, <1>10 DEF allVars, vars, frameVars, dialogVars
<1>11. QED
  BY <1>4, <1>5, <1>6, <1>8, <1>9, <1>10 DEF NextDialogs

THEOREM OneAnswerOneProcess == DialogSpec => []OneKillPerAnswer
<1>1. InitDialogs => AnswerInv
  BY DEF InitDialogs, Init, AnswerInv, OneKillPerAnswer
<1>2. AnswerInv => OneKillPerAnswer
  BY DEF AnswerInv
<1>3. QED
  BY <1>1, <1>2, AnswerInvNext, PTL DEF DialogSpec
=============================================================================
