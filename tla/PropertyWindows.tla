--------------------------- MODULE PropertyWindows --------------------------
(***************************************************************************)
(* The Properties windows of processes.  Each is kept twice: by the view   *)
(* (_processProperties, by process key), which draws it, and by the tab    *)
(* manager (_windows, by window name), which lists it in the Window menu.  *)
(* Both drop a window they find closed, at different points of the frame:  *)
(*                                                                         *)
(*   "menu"   TabManager::BuildWindowMenu drops closed windows             *)
(*   "table"  ProcessesView::BuildTable, where the user asks for windows   *)
(*   "draw"   the loop of ProcessesView::BuildWindow draws or drops each   *)
(*                                                                         *)
(* A window's name has the name, id and creation time of its process, so   *)
(* names and keys correspond; only the key is kept.                        *)
(***************************************************************************)
EXTENDS Naturals

CONSTANTS Key,        \* process keys
          MaxWindows  \* bound: windows made for one key

ASSUME MaxWindowsIsNat == MaxWindows \in Nat

\* A ProcessProperties object.
Window == [Key : Key, Serial : Nat]

VARIABLES
    props,     \* _processProperties
    windows,   \* _windows
    open,      \* objects whose WindowOpen is true
    made,      \* objects made for each key
    pc, todo,  \* progress of the frame
    closing,   \* history: windows the user closed in the last draw loop
    wanted     \* history: keys the user asked for in this frame

windowVars == <<props, windows, open, made, pc, todo, closing, wanted>>

Keys(S) == {w.Key : w \in S}

\* S is a map: one entry per key.
OnePerKey(S) == \A v, w \in S : v.Key = w.Key => v = w

InitWindows ==
    /\ props = {} /\ windows = {} /\ open = {}
    /\ made = [k \in Key |-> 0]
    /\ pc = "menu" /\ todo = {}
    /\ closing = {} /\ wanted = {}

KeptInMenu == windows \cap open

BuildWindowMenu ==
    /\ pc = "menu"
    /\ pc' = "table"
    /\ windows' = KeptInMenu
    /\ wanted' = {}
    /\ UNCHANGED <<props, open, made, todo, closing>>

\* Mutant: the tab manager is told of the window only if it has others.
AddWindowToOthers(w) == IF windows = {} THEN windows ELSE windows \cup {w}

\* insert: a window of the same name stays.
AddWindow(w) == IF w.Key \in Keys(windows) THEN windows ELSE windows \cup {w}

MakeWindow(k) ==
    LET w == [Key |-> k, Serial |-> made[k] + 1] IN
    /\ made[k] < MaxWindows
    /\ made' = [made EXCEPT ![k] = @ + 1]
    /\ props' = props \cup {w}
    /\ open' = open \cup {w}
    /\ windows' = AddWindow(w)

GetOrAddProcessProperties(k) ==
    /\ pc = "table"
    /\ wanted' = wanted \cup {k}
    /\ \/ k \in Keys(props) /\ UNCHANGED <<props, windows, open, made>>
       \/ k \notin Keys(props) /\ MakeWindow(k)
    /\ UNCHANGED <<pc, todo, closing>>

EndTable ==
    /\ pc = "table"
    /\ pc' = "draw"
    /\ todo' = props
    /\ closing' = {}
    /\ UNCHANGED <<props, windows, open, made, wanted>>

\* Begin draws the window and clears WindowOpen if the user closes it.
BuildPropertiesWindow(w, close) ==
    /\ pc = "draw"
    /\ w \in todo \cap open
    /\ todo' = todo \ {w}
    /\ open' = IF close THEN open \ {w} ELSE open
    /\ closing' = IF close THEN closing \cup {w} ELSE closing
    /\ UNCHANGED <<props, windows, made, pc, wanted>>

\* Mutant: closed windows are not dropped.
KeptPropsAll == props

\* The keys found closed were collected in the loop: what the user closes in
\* this frame was open when the loop came to it and stays for one more.
KeptProps == props \ todo

EndFrame ==
    /\ pc = "draw"
    /\ todo \cap open = {}
    /\ pc' = "menu"
    /\ props' = KeptProps
    /\ todo' = {}
    /\ UNCHANGED <<windows, open, made, closing, wanted>>

Frame == \/ BuildWindowMenu
         \/ EndTable
         \/ \E w \in todo, close \in BOOLEAN : BuildPropertiesWindow(w, close)
         \/ EndFrame

NextWindows == Frame \/ \E k \in Key : GetOrAddProcessProperties(k)

WindowsSpec == InitWindows /\ [][NextWindows]_windowVars

\* The message loop draws frame after frame.
FairWindowsSpec == WindowsSpec /\ WF_windowVars(Frame)

-----------------------------------------------------------------------------
(* Properties. *)

\* Every variable has its type, and a key has one window in each map.
WindowsTypeOK ==
    /\ props \subseteq Window /\ windows \subseteq Window
    /\ open \subseteq Window /\ todo \subseteq props
    /\ made \in [Key -> Nat]
    /\ pc \in {"menu", "table", "draw"}
    /\ closing \subseteq Window /\ wanted \subseteq Key
    /\ OnePerKey(props) /\ OnePerKey(windows)

\* A window on the screen is in the Window menu, the very object: the insert
\* that keeps an old entry of the same name never meets one.
OpenIsListed == props \cap open \subseteq windows

\* A window that was asked for is open when the frame comes to draw, unless
\* the user closed the same process's window in the frame just before: the
\* closed object is then still in the map, is found by GetOrAdd, and the
\* request is lost.  No other request may be.
RequestIsServed ==
    [][pc = "table" /\ pc' = "draw" =>
        wanted \subseteq Keys(props \cap open) \cup Keys(closing)]_windowVars

\* A closed window is dropped from both maps in the end.
ClosedGoes ==
    \A k \in Key, n \in 1 .. MaxWindows :
        LET w == [Key |-> k, Serial |-> n] IN
        w \in (props \cup windows) \ open ~> w \notin props \cup windows
=============================================================================
