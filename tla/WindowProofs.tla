---------------------------- MODULE WindowProofs ----------------------------
(***************************************************************************)
(* The windows of the program: its main window, in MainLoop, and the       *)
(* Properties windows, in PropertyWindows.                                 *)
(*                                                                         *)
(* For any sizes of the main window and any sequence of messages, a frame  *)
(* is drawn to a view of the current buffers, and these have the size of   *)
(* the window, unless it is minimized.                                     *)
(*                                                                         *)
(* For any number of processes and Properties windows, the two registries  *)
(* of these windows agree where it matters, and a request for a window is  *)
(* lost only when the user closed that window in the frame before.         *)
(***************************************************************************)
EXTENDS MainLoop, PropertyWindows, SequenceTheorems, TLAPS

-----------------------------------------------------------------------------
(* The main window. *)

\* Until ShowWindow the window is as CreateDeviceD3D found it.
StartOK ==
    /\ step \in {"device", "show"} => window \in Size /\ queue = <<>> /\ ~quit
    /\ step = "show" =>
           device /\ swapChain \in Size /\ target = swapChain /\ views = 1

\* n is the last message of queue q that tells a size.
LastSize(q, n) ==
    /\ n \in 1 .. Len(q) /\ q[n] # Close
    /\ \A m \in 1 .. Len(q) : m > n => q[m] = Close

NoSize(q) == \A n \in 1 .. Len(q) : q[n] = Close

\* The size w is the last one in q, or there is none and the buffers have it.
Told(q, w, buffers) ==
    \/ \E n \in 1 .. Len(q) : LastSize(q, n) /\ q[n] = w
    \/ NoSize(q) /\ w \in {buffers, Minimized}

\* While the window and its buffers exist, its size was told or will be.
SizeIsTold ==
    step \in {"show", "poll", "build", "render"} /\ window # "destroyed" =>
        Told(queue, window, swapChain)

\* The window is not destroyed without the end of the program.
DestroyedQuits == window = "destroyed" => quit \/ step = "done"

\* After WM_QUIT the view is still there to be released.
OneViewIsLeft == step = "cleanup" => target # "none" /\ views = 1

Inv == /\ TypeOK /\ TargetIsCurrent /\ OneViewIsLeft
       /\ StartOK /\ SizeIsTold /\ DestroyedQuits

-----------------------------------------------------------------------------
(* The queue. *)

\* A message that is sent is the last of the queue.
LEMMA SizeIsToldSend ==
    ASSUME NEW q \in Seq(Message), NEW w, NEW v, NEW b, NEW m \in Message,
           Told(q, w, b),
           v = IF m = Close THEN w ELSE m
    PROVE  Told(Append(q, m), v, b)
<1>. DEFINE r == Append(q, m)
<1>1. /\ Len(q) \in Nat /\ Len(r) = Len(q) + 1 /\ r[Len(q) + 1] = m
      /\ \A n \in 1 .. Len(q) : r[n] = q[n]
  OBVIOUS
<1>. HIDE DEF r
<1>2. CASE m # Close
  <2>1. Len(q) + 1 \in 1 .. Len(r) /\ LastSize(r, Len(q) + 1)
            /\ r[Len(q) + 1] = v
    BY <1>1, <1>2 DEF LastSize
  <2>2. QED
    BY <2>1 DEF r, Told
<1>3. CASE m = Close
  <2>1. ASSUME NEW n \in 1 .. Len(q), LastSize(q, n), q[n] = w
        PROVE  n \in 1 .. Len(r) /\ LastSize(r, n) /\ r[n] = v
    BY <1>1, <1>3, <2>1 DEF LastSize
  <2>2. ASSUME NoSize(q), w \in {b, Minimized}
        PROVE  NoSize(r) /\ v \in {b, Minimized}
    BY <1>1, <1>3, <2>2 DEF NoSize
  <2>3. QED
    BY <2>1, <2>2 DEF r, Told
<1>4. QED
  BY <1>2, <1>3

\* A size at the head of the queue is the window's, or a later one is.
LEMMA SizeIsToldDispatch ==
    ASSUME NEW q \in Seq(Message), q # <<>>, Head(q) # Close, NEW w,
           NEW b, NEW c,
           Told(q, w, b),
           c = IF Head(q) = Minimized THEN b ELSE Head(q)
    PROVE  Told(Tail(q), w, c)
<1>. DEFINE r == Tail(q)
<1>1. /\ Len(q) \in Nat /\ Len(q) > 0 /\ Len(r) = Len(q) - 1
      /\ \A n \in 1 .. Len(r) : r[n] = q[n + 1]
      /\ Head(q) = q[1]
  OBVIOUS
<1>. HIDE DEF r
<1>2. ~NoSize(q)
  BY <1>1 DEF NoSize
<1>3. PICK n \in 1 .. Len(q) : LastSize(q, n) /\ q[n] = w
  BY <1>2 DEF Told
<1>4. CASE n = 1
  <2>1. NoSize(r)
    BY <1>1, <1>3, <1>4 DEF NoSize, LastSize
  <2>2. w \in {c, Minimized}
    BY <1>1, <1>3, <1>4
  <2>3. QED
    BY <2>1, <2>2 DEF r, Told
<1>5. CASE n # 1
  <2>1. n - 1 \in 1 .. Len(r) /\ LastSize(r, n - 1) /\ r[n - 1] = w
    BY <1>1, <1>3, <1>5 DEF LastSize
  <2>2. QED
    BY <2>1 DEF r, Told
<1>6. QED
  BY <1>4, <1>5

\* An empty queue tells nothing.
LEMMA NothingTold ==
    ASSUME NEW w, NEW b, w \in {b, Minimized}
    PROVE  Told(<<>>, w, b)
BY DEF Told, NoSize

LEMMA ToldNext ==
    ASSUME window' # "destroyed" => Told(queue', window', swapChain')
    PROVE  SizeIsTold'
BY DEF SizeIsTold, Told, LastSize, NoSize

-----------------------------------------------------------------------------
(* The steps. *)

LEMMA InvInit == Init => Inv
<1>. SUFFICES ASSUME Init PROVE Inv
  OBVIOUS
<1>1. queue \in Seq(Message)
  BY EmptySeq DEF Init
<1>2. TypeOK
  <2>1. sent \in 0 .. MaxMessages /\ views \in Nat
    BY MaxMessagesIsNat DEF Init
  <2>2. QED
    BY <1>1, <2>1, Zenon DEF Init, TypeOK
<1>3. TargetIsCurrent /\ OneViewIsLeft /\ StartOK /\ DestroyedQuits
          /\ SizeIsTold
  BY SizesAreSizes
  DEF Init, TargetIsCurrent, OneViewIsLeft, StartOK, DestroyedQuits, SizeIsTold
<1>4. QED
  BY <1>2, <1>3 DEF Inv

LEMMA InvSend ==
    ASSUME Inv, NEW m \in Message, Send(m)
    PROVE  Inv'
<1>. USE DEF Inv, Send
<1>1. UNCHANGED <<step, quit, device, swapChain, target, views>>
  BY DEF graphics
<1>2. queue' \in Seq(Message)
  BY DEF TypeOK
<1>3. sent' \in 0 .. MaxMessages
  BY MaxMessagesIsNat DEF TypeOK
<1>4. window' \in Size \cup {Minimized, "destroyed"}
          /\ window' # "destroyed"
  BY SizesAreSizes DEF TypeOK, Message, Minimized
<1>5. TypeOK' /\ TargetIsCurrent' /\ OneViewIsLeft' /\ StartOK'
          /\ DestroyedQuits'
  BY <1>1, <1>2, <1>3, <1>4
  DEF TypeOK, TargetIsCurrent, OneViewIsLeft, StartOK, DestroyedQuits
<1>6. queue \in Seq(Message) /\ queue' = Append(queue, m)
          /\ window' = IF m = Close THEN window ELSE m
  BY DEF TypeOK
<1>7. SizeIsTold'
  <2>1. Told(queue, window, swapChain)
    BY DEF SizeIsTold
  <2>2. Told(Append(queue, m), window', swapChain)
    BY <2>1, <1>6, SizeIsToldSend
  <2>3. QED
    BY <1>1, <1>6, <2>2, ToldNext
<1>8. QED
  BY <1>5, <1>7

LEMMA InvCreate ==
    ASSUME Inv, NEW ok \in BOOLEAN, CreateDeviceD3D(ok)
    PROVE  Inv'
<1>. USE DEF Inv, CreateDeviceD3D
<1>1. window \in Size /\ queue = <<>> /\ ~quit
  BY DEF StartOK
<1>2. TypeOK'
  <2>1. views' \in Nat /\ device' \in BOOLEAN
            /\ swapChain' \in Size \cup {"none"} /\ target' \in Size \cup {"none"}
    <3>1. CASE ok
      BY <1>1, <3>1
    <3>2. CASE ~ok
      BY <3>2 DEF TypeOK, graphics
    <3>3. QED
      BY <3>1, <3>2
  <2>2. step' \in {"show", "done"} /\ UNCHANGED <<window, queue, sent, quit>>
    OBVIOUS
  <2>3. QED
    BY <2>1, <2>2 DEF TypeOK
<1>3. TargetIsCurrent' /\ OneViewIsLeft' /\ StartOK' /\ DestroyedQuits'
  <2>1. window # "destroyed"
    BY <1>1, SizesAreSizes
  <2>2. CASE ok
    BY <1>1, <2>1, <2>2
    DEF TargetIsCurrent, OneViewIsLeft, StartOK, DestroyedQuits
  <2>3. CASE ~ok
    BY <2>3 DEF TargetIsCurrent, OneViewIsLeft, StartOK, DestroyedQuits
  <2>4. QED
    BY <2>2, <2>3
<1>4. SizeIsTold'
  <2>1. CASE ok
    BY <1>1, <2>1, NothingTold, ToldNext
  <2>2. CASE ~ok
    BY <2>2 DEF SizeIsTold
  <2>3. QED
    BY <2>1, <2>2
<1>5. QED
  BY <1>2, <1>3, <1>4

\* A resize releases the one view there is, so that it can replace the
\* buffers, and makes a view of the new ones.
LEMMA ResizeCurrent ==
    ASSUME TypeOK, device, target # "none", views = 1,
           NEW size \in Size, Resize(size)
    PROVE  device' /\ swapChain' = size /\ target' = size /\ views' = 1
BY DEF TypeOK, Resize, ResizeBuffers, CleanupRenderTarget

LEMMA InvShow ==
    ASSUME Inv, ShowWindow
    PROVE  Inv'
<1>. USE DEF Inv, ShowWindow
<1>1. /\ window \in Size /\ queue = <<>> /\ ~quit
      /\ device /\ swapChain \in Size /\ target = swapChain /\ views = 1
  BY DEF StartOK
<1>2. window # Minimized /\ target # "none"
  BY <1>1, SizesAreSizes
<1>3. Resize(window) /\ UNCHANGED <<window, quit, queue, sent>>
  BY <1>1, <1>2 DEF OnSize
<1>4. device' /\ swapChain' = window /\ target' = window /\ views' = 1
  BY <1>1, <1>2, <1>3, ResizeCurrent
<1>5. TypeOK' /\ TargetIsCurrent' /\ OneViewIsLeft' /\ StartOK'
          /\ DestroyedQuits'
  BY <1>1, <1>3, <1>4, SizesAreSizes
  DEF TypeOK, TargetIsCurrent, OneViewIsLeft, StartOK, DestroyedQuits
<1>6. SizeIsTold'
  BY <1>1, <1>3, <1>4, NothingTold, ToldNext
<1>7. QED
  BY <1>5, <1>6

LEMMA InvDispatch ==
    ASSUME Inv, Dispatch
    PROVE  Inv'
<1>. USE DEF Inv, Dispatch
<1>1. /\ step = "poll" /\ queue # <<>> /\ UNCHANGED <<step, sent>>
      /\ device /\ target = swapChain /\ target # "none" /\ views = 1
      /\ swapChain \in Size
  BY DEF TargetIsCurrent, TypeOK
<1>2. queue \in Seq(Message) /\ Head(queue) \in Message
          /\ Tail(queue) \in Seq(Message)
  BY <1>1, HeadTailProperties DEF TypeOK
<1>3. CASE Head(queue) = Close /\ OnClose /\ queue' = <<>>
  <2>1. /\ window' = "destroyed" /\ quit'
        /\ UNCHANGED <<device, swapChain, target, views>>
    BY <1>3 DEF OnClose, graphics
  <2>2. queue' \in Seq(Message)
    BY <1>3, EmptySeq
  <2>3. TypeOK' /\ TargetIsCurrent' /\ OneViewIsLeft' /\ StartOK'
          /\ DestroyedQuits'
    BY <1>1, <2>1, <2>2
    DEF TypeOK, TargetIsCurrent, OneViewIsLeft, StartOK, DestroyedQuits, OnClose
  <2>4. SizeIsTold'
    BY <2>1 DEF SizeIsTold
  <2>5. QED
    BY <1>3, <2>3, <2>4 DEF OnClose
<1>4. CASE Head(queue) # Close /\ OnSize(Head(queue)) /\ queue' = Tail(queue)
  <2>1. UNCHANGED <<window, quit>>
    BY <1>4 DEF OnSize
  <2>2. /\ device' /\ target' = swapChain' /\ views' = 1
        /\ swapChain' = IF Head(queue) = Minimized THEN swapChain
                        ELSE Head(queue)
        /\ swapChain' \in Size
    <3>1. CASE Head(queue) = Minimized
      BY <1>1, <1>4, <3>1 DEF OnSize, graphics
    <3>2. CASE Head(queue) # Minimized
      <4>1. Head(queue) \in Size
        BY <1>2, <1>4, <3>2 DEF Message
      <4>2. Resize(Head(queue))
        BY <1>1, <1>4, <3>2 DEF OnSize
      <4>3. QED
        BY <1>1, <3>2, <4>1, <4>2, ResizeCurrent
    <3>3. QED
      BY <3>1, <3>2
  <2>3. TypeOK' /\ TargetIsCurrent' /\ OneViewIsLeft' /\ StartOK'
          /\ DestroyedQuits'
    BY <1>1, <1>2, <1>4, <2>1, <2>2, SizesAreSizes
    DEF TypeOK, TargetIsCurrent, OneViewIsLeft, StartOK, DestroyedQuits
  <2>4. window # "destroyed" => Told(queue', window, swapChain')
    <3>1. window # "destroyed" => Told(queue, window, swapChain)
      BY <1>1 DEF SizeIsTold
    <3>2. QED
      BY <1>1, <1>2, <1>4, <2>2, <3>1, SizeIsToldDispatch
  <2>5. SizeIsTold'
    BY <2>1, <2>4, ToldNext
  <2>6. QED
    BY <2>3, <2>5
<1>5. QED
  BY <1>3, <1>4

\* The steps that leave window, queue and Direct3D objects alone.
LEMMA InvFrame ==
    ASSUME Inv,
           \/ BeginFrame \/ Render \/ Quit
           \/ \E exit \in BOOLEAN : BuildTabs(exit)
    PROVE  Inv'
<1>1. /\ UNCHANGED <<window, queue, sent, device, swapChain, target, views>>
      /\ step \in {"poll", "build", "render"}
      /\ step' \in {"poll", "build", "render", "cleanup"}
      /\ quit' \in BOOLEAN /\ (quit => quit')
  BY DEF BeginFrame, Render, Quit, BuildTabs, graphics, Inv, TypeOK
<1>2. QED
  BY <1>1
  DEF Inv, TypeOK, TargetIsCurrent, OneViewIsLeft, StartOK, SizeIsTold,
      DestroyedQuits, Told, LastSize, NoSize

LEMMA InvCleanup ==
    ASSUME Inv, Cleanup
    PROVE  Inv'
<1>1. views' = 0
  BY DEF Cleanup, CleanupDeviceD3D, CleanupRenderTarget, Inv, OneViewIsLeft
<1>2. /\ step' = "done" /\ device' = FALSE /\ window' = "destroyed"
      /\ swapChain' = "none" /\ target' = "none"
      /\ UNCHANGED <<queue, sent, quit>>
  BY DEF Cleanup, CleanupDeviceD3D
<1>3. TypeOK'
  BY <1>1, <1>2 DEF Inv, TypeOK
<1>4. TargetIsCurrent' /\ OneViewIsLeft' /\ StartOK' /\ SizeIsTold'
          /\ DestroyedQuits'
  BY <1>2
  DEF TargetIsCurrent, OneViewIsLeft, StartOK, SizeIsTold, DestroyedQuits
<1>5. QED
  BY <1>3, <1>4 DEF Inv

LEMMA InvNext == Inv /\ [Next]_vars => Inv'
<1>. SUFFICES ASSUME Inv, [Next]_vars PROVE Inv'
  OBVIOUS
<1>1. CASE Loop
  BY <1>1, InvCreate, InvShow, InvDispatch, InvFrame, InvCleanup DEF Loop
<1>2. ASSUME NEW m \in Message, Send(m) PROVE Inv'
  BY <1>2, InvSend
<1>3. CASE UNCHANGED vars
  BY <1>3
  DEF vars, Inv, TypeOK, TargetIsCurrent, OneViewIsLeft, StartOK, SizeIsTold,
      DestroyedQuits, Told, LastSize, NoSize
<1>4. QED
  BY <1>1, <1>2, <1>3 DEF Next

LEMMA Invariance == Spec => []Inv
<1>1. Init => Inv
  BY InvInit
<1>2. Inv /\ [Next]_vars => Inv'
  BY InvNext
<1>3. QED
  BY <1>1, <1>2, PTL DEF Spec

-----------------------------------------------------------------------------
(* The theorems. *)

\* Every variable keeps its type.
THEOREM TypeCorrect == Spec => []TypeOK
<1>1. Inv => TypeOK
  BY DEF Inv
<1>2. QED
  BY <1>1, Invariance, PTL

\* Whenever a frame is drawn, the render target views the current buffers and
\* is the only view of them.
THEOREM TargetIsAlwaysCurrent == Spec => []TargetIsCurrent
<1>1. Inv => TargetIsCurrent
  BY DEF Inv
<1>2. QED
  BY <1>1, Invariance, PTL

\* However often the size changed, a frame begins with buffers that fit.
THEOREM FramesFit == Spec => FrameFits
<1>1. Inv /\ [Next]_vars
          => [step = "poll" /\ step' = "build" =>
                window \in {swapChain, Minimized}]_vars
  <2>. SUFFICES ASSUME Inv, Next, step = "poll", step' = "build"
                PROVE  window \in {swapChain, Minimized}
    OBVIOUS
  <2>1. queue = <<>> /\ ~quit
    BY DEF Next, Loop, Send, CreateDeviceD3D, ShowWindow, Dispatch, BeginFrame,
           NoMessage, BuildTabs, Render, Quit, Cleanup
  <2>2. Len(queue) = 0
    BY <2>1
  <2>3. QED
    BY <2>1, <2>2 DEF Inv, DestroyedQuits, SizeIsTold, Told
<1>2. QED
  BY <1>1, Invariance, PTL DEF Spec, FrameFits

-----------------------------------------------------------------------------
(* The Properties windows. *)

\* The other direction of OpenIsListed, which holds as well, and what the menu
\* makes of it until windows are drawn: AddWindow never meets an old entry.
ListedIsKept ==
    /\ windows \cap open \subseteq props
    /\ pc = "table" => windows \subseteq open

\* A window that the view keeps although it is closed was closed in the last
\* loop.
ClosedLately ==
    /\ pc # "draw" => props \subseteq open \cup closing
    /\ pc = "draw" => props \ todo \subseteq open \cup closing

WantedIsKept == pc = "table" => wanted \subseteq Keys(props)

WinInv == /\ WindowsTypeOK /\ OpenIsListed
       /\ ListedIsKept /\ ClosedLately /\ WantedIsKept

-----------------------------------------------------------------------------

LEMMA WinInvInit == InitWindows => WinInv
BY DEF InitWindows, WinInv, WindowsTypeOK, OnePerKey, OpenIsListed,
       ListedIsKept, ClosedLately, WantedIsKept, Keys

\* Closed windows leave the menu; the view still has them.
LEMMA WinInvMenu ==
    ASSUME WinInv, BuildWindowMenu
    PROVE  WinInv'
<1>. USE DEF WinInv, BuildWindowMenu, KeptInMenu
<1>1. WindowsTypeOK'
  BY DEF WindowsTypeOK, OnePerKey
<1>2. OpenIsListed' /\ ListedIsKept' /\ ClosedLately' /\ WantedIsKept'
  BY DEF OpenIsListed, ListedIsKept, ClosedLately, WantedIsKept
<1>3. QED
  BY <1>1, <1>2

\* A request finds the window of the view or makes one; no old entry of the
\* tab manager stands in the way of the new one.
LEMMA WinInvRequest ==
    ASSUME WinInv, NEW k \in Key, GetOrAddProcessProperties(k)
    PROVE  WinInv'
<1>. USE DEF WinInv, GetOrAddProcessProperties
<1>1. pc = "table" /\ UNCHANGED <<pc, todo, closing>>
          /\ wanted' = wanted \cup {k}
  OBVIOUS
<1>2. CASE k \in Keys(props) /\ UNCHANGED <<props, windows, open, made>>
  <2>1. WindowsTypeOK'
    BY <1>1, <1>2 DEF WindowsTypeOK, OnePerKey
  <2>2. OpenIsListed' /\ ListedIsKept' /\ ClosedLately' /\ WantedIsKept'
    BY <1>1, <1>2
    DEF OpenIsListed, ListedIsKept, ClosedLately, WantedIsKept, Keys
  <2>3. QED
    BY <2>1, <2>2
<1>3. CASE k \notin Keys(props) /\ MakeWindow(k)
  <2>. DEFINE w == [Key |-> k, Serial |-> made[k] + 1]
  <2>1. /\ made[k] \in Nat /\ made[k] < MaxWindows
        /\ made' = [made EXCEPT ![k] = @ + 1]
        /\ props' = props \cup {w} /\ open' = open \cup {w}
        /\ windows' = AddWindow(w)
    BY <1>3 DEF MakeWindow, WindowsTypeOK
  <2>2. w \in Window /\ w.Key = k
    BY <2>1 DEF Window
  <2>3. k \notin Keys(windows)
    BY <1>1, <1>3 DEF ListedIsKept, Keys
  <2>4. windows' = windows \cup {w}
    BY <2>1, <2>2, <2>3 DEF AddWindow
  <2>5. OnePerKey(props') /\ OnePerKey(windows')
    BY <1>3, <2>1, <2>2, <2>3, <2>4 DEF WindowsTypeOK, OnePerKey, Keys
  <2>6. made' \in [Key -> Nat]
    BY <2>1 DEF WindowsTypeOK
  <2>7. WindowsTypeOK'
    BY <1>1, <2>1, <2>2, <2>4, <2>5, <2>6 DEF WindowsTypeOK, OnePerKey
  <2>8. OpenIsListed' /\ ListedIsKept' /\ ClosedLately'
    BY <1>1, <2>1, <2>4 DEF OpenIsListed, ListedIsKept, ClosedLately
  <2>9. WantedIsKept'
    BY <1>1, <2>1, <2>2 DEF WantedIsKept, Keys
  <2>10. QED
    BY <2>7, <2>8, <2>9
<1>4. QED
  BY <1>2, <1>3

LEMMA WinInvEndTable ==
    ASSUME WinInv, EndTable
    PROVE  WinInv'
BY DEF WinInv, EndTable, WindowsTypeOK, OnePerKey, OpenIsListed,
       ListedIsKept, ClosedLately, WantedIsKept

\* A window is closed where it is drawn.
LEMMA WinInvDraw ==
    ASSUME WinInv, NEW w \in todo, NEW close \in BOOLEAN,
           BuildPropertiesWindow(w, close)
    PROVE  WinInv'
<1>. USE DEF WinInv, BuildPropertiesWindow
<1>1. WindowsTypeOK'
  BY DEF WindowsTypeOK, OnePerKey
<1>2. OpenIsListed' /\ ListedIsKept' /\ ClosedLately' /\ WantedIsKept'
  BY DEF OpenIsListed, ListedIsKept, ClosedLately, WantedIsKept
<1>3. QED
  BY <1>1, <1>2

\* What the loop did not draw was closed before, and is dropped.
LEMMA WinInvEndFrame ==
    ASSUME WinInv, EndFrame
    PROVE  WinInv'
<1>. USE DEF WinInv, EndFrame, KeptProps
<1>1. WindowsTypeOK'
  BY DEF WindowsTypeOK, OnePerKey
<1>2. OpenIsListed' /\ ListedIsKept' /\ ClosedLately' /\ WantedIsKept'
  BY DEF OpenIsListed, ListedIsKept, ClosedLately, WantedIsKept
<1>3. QED
  BY <1>1, <1>2

LEMMA WinInvNext == WinInv /\ [NextWindows]_windowVars => WinInv'
<1>. SUFFICES ASSUME WinInv, [NextWindows]_windowVars PROVE WinInv'
  OBVIOUS
<1>1. CASE BuildWindowMenu
  BY <1>1, WinInvMenu
<1>2. ASSUME NEW k \in Key, GetOrAddProcessProperties(k) PROVE WinInv'
  BY <1>2, WinInvRequest
<1>3. CASE EndTable
  BY <1>3, WinInvEndTable
<1>4. ASSUME NEW w \in todo, NEW close \in BOOLEAN,
             BuildPropertiesWindow(w, close)
      PROVE  WinInv'
  BY <1>4, WinInvDraw
<1>5. CASE EndFrame
  BY <1>5, WinInvEndFrame
<1>6. CASE UNCHANGED windowVars
  BY <1>6
  DEF windowVars, WinInv, WindowsTypeOK, OnePerKey, OpenIsListed,
      ListedIsKept, ClosedLately, WantedIsKept, Keys
<1>7. QED
  BY <1>1, <1>2, <1>3, <1>4, <1>5, <1>6 DEF NextWindows, Frame

LEMMA WinInvariance == WindowsSpec => []WinInv
<1>1. InitWindows => WinInv
  BY WinInvInit
<1>2. WinInv /\ [NextWindows]_windowVars => WinInv'
  BY WinInvNext
<1>3. QED
  BY <1>1, <1>2, PTL DEF WindowsSpec

\* Both registries stay maps of windows.
THEOREM WindowsTypeCorrect == WindowsSpec => []WindowsTypeOK
<1>1. WinInv => WindowsTypeOK
  BY DEF WinInv
<1>2. QED
  BY <1>1, WinInvariance, PTL

\* A window on the screen is always in the Window menu.
THEOREM OpenIsAlwaysListed == WindowsSpec => []OpenIsListed
<1>1. WinInv => OpenIsListed
  BY DEF WinInv
<1>2. QED
  BY <1>1, WinInvariance, PTL

\* A request for a window is lost only right after the window was closed.
THEOREM RequestsAreServed == WindowsSpec => RequestIsServed
<1>1. WinInv /\ [NextWindows]_windowVars
          => [pc = "table" /\ pc' = "draw" =>
                wanted \subseteq Keys(props \cap open)
                              \cup Keys(closing)]_windowVars
  BY DEF WinInv, ClosedLately, WantedIsKept, Keys
<1>2. QED
  BY <1>1, WinInvariance, PTL DEF WindowsSpec, RequestIsServed
=============================================================================
