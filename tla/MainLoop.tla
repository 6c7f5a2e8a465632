------------------------------ MODULE MainLoop ------------------------------
(***************************************************************************)
(* wWinMain and WndProc: the window, the Direct3D objects, and the loop    *)
(* that handles window messages and draws a frame whenever there is none.  *)
(*                                                                         *)
(*   "device"   the window exists, CreateDeviceD3D comes next              *)
(*   "show"     ShowWindow, then ImGui and Globals                         *)
(*   "poll"     PeekMessage                                                *)
(*   "build"    BuildTabs, the user interface of the frame                 *)
(*   "render"   the frame goes to the render target                        *)
(*   "cleanup"  after WM_QUIT                                              *)
(*   "done"     wWinMain has returned                                      *)
(***************************************************************************)
EXTENDS Naturals, Sequences

CONSTANTS Size,        \* client sizes of the window
          MaxMessages  \* bound: window messages in a behaviour

ASSUME MaxMessagesIsNat == MaxMessages \in Nat

Minimized == "minimized"  \* WM_SIZE with SIZE_MINIMIZED
Close == "close"          \* WM_CLOSE, or SC_CLOSE of the system menu
Message == Size \cup {Minimized, Close}

ASSUME SizesAreSizes ==
    Size \cap {Minimized, Close, "destroyed", "none"} = {}

VARIABLES
    step,       \* progress of wWinMain
    window,     \* client size, "minimized", or "destroyed"
    queue,      \* window messages not handled yet
    sent,       \* messages sent so far
    quit,       \* PostQuitMessage was called
    device,     \* g_pd3dDevice and its context are not null
    swapChain,  \* size of the buffers of g_pSwapChain, or "none"
    target,     \* g_mainRenderTargetView: the buffers it views, or "none"
    views       \* number of render target views that were not released

vars == <<step, window, queue, sent, quit, device, swapChain, target, views>>
graphics == <<device, swapChain, target, views>>

Init == /\ step = "device"
        /\ window \in Size /\ queue = <<>> /\ sent = 0 /\ quit = FALSE
        /\ device = FALSE /\ swapChain = "none" /\ target = "none"
        /\ views = 0

-----------------------------------------------------------------------------
(* The user and Windows. *)

\* A message for the window; its size changes before it is told.
Send(m) ==
    /\ step \in {"poll", "build", "render"}
    /\ window # "destroyed"
    /\ sent < MaxMessages
    /\ sent' = sent + 1
    /\ queue' = Append(queue, m)
    /\ window' = IF m = Close THEN window ELSE m
    /\ UNCHANGED <<step, quit, graphics>>

-----------------------------------------------------------------------------
(* Direct3D. *)

\* Only the pointer is released; the view of a lost pointer stays.
CleanupRenderTarget == IF target = "none" THEN views ELSE views - 1

\* Fails, and leaves the buffers, while a view of them exists.
ResizeBuffers(held, size) == IF held = 0 THEN size ELSE swapChain

CreateDeviceD3D(ok) ==
    /\ step = "device"
    /\ IF ok
       THEN /\ step' = "show"
            /\ device' = TRUE
            /\ swapChain' = window
            /\ target' = window
            /\ views' = 1
       ELSE /\ step' = "done"
            /\ UNCHANGED graphics
    /\ UNCHANGED <<window, queue, sent, quit>>

\* Mutant: the render target is not released before the buffers are resized.
ResizeHeld(size) ==
    /\ swapChain' = ResizeBuffers(views, size)
    /\ target' = swapChain'
    /\ views' = views + 1
    /\ UNCHANGED device

\* CleanupRenderTarget, ResizeBuffers, CreateRenderTarget.
Resize(size) ==
    /\ swapChain' = ResizeBuffers(CleanupRenderTarget, size)
    /\ target' = swapChain'
    /\ views' = CleanupRenderTarget + 1
    /\ UNCHANGED device

-----------------------------------------------------------------------------
(* WndProc. *)

OnSize(size) ==
    /\ \/ device /\ size # Minimized /\ Resize(size)
       \/ ~(device /\ size # Minimized) /\ UNCHANGED graphics
    /\ UNCHANGED <<window, quit>>

\* DefWindowProc destroys the window; WM_DESTROY calls PostQuitMessage.
OnClose ==
    /\ window' = "destroyed"
    /\ quit' = TRUE
    /\ UNCHANGED graphics

\* ShowWindow sends WM_SIZE when the device exists already.
ShowWindow ==
    /\ step = "show"
    /\ step' = "poll"
    /\ OnSize(window)
    /\ UNCHANGED <<queue, sent>>

\* Mutant: PeekMessage leaves the message in the queue.
DispatchKeeps ==
    /\ step = "poll" /\ queue # <<>>
    /\ \/ Head(queue) = Close /\ OnClose
       \/ Head(queue) # Close /\ OnSize(Head(queue))
    /\ UNCHANGED <<step, queue, sent>>

\* The messages of a destroyed window are gone with it.
Dispatch ==
    /\ step = "poll" /\ queue # <<>>
    /\ \/ /\ Head(queue) = Close
          /\ OnClose
          /\ queue' = <<>>
       \/ /\ Head(queue) # Close
          /\ OnSize(Head(queue))
          /\ queue' = Tail(queue)
    /\ UNCHANGED <<step, sent>>

-----------------------------------------------------------------------------
(* The loop. *)

\* Mutant: a frame is drawn after each message.
NoMessageLeft == queue = <<>> \/ ~quit

\* `continue` after every message: frames come when there is none.
NoMessage == queue = <<>>

BeginFrame ==
    /\ step = "poll" /\ NoMessage /\ ~quit
    /\ step' = "build"
    /\ UNCHANGED <<window, queue, sent, quit, graphics>>

\* File, Exit of the menu calls PostQuitMessage; the frame is finished.
BuildTabs(exit) ==
    /\ step = "build"
    /\ step' = "render"
    /\ quit' = (quit \/ exit)
    /\ UNCHANGED <<window, queue, sent, graphics>>

Render ==
    /\ step = "render"
    /\ step' = "poll"
    /\ UNCHANGED <<window, queue, sent, quit, graphics>>

\* WM_QUIT is found when no other message is left.
Quit ==
    /\ step = "poll" /\ queue = <<>> /\ quit
    /\ step' = "cleanup"
    /\ UNCHANGED <<window, queue, sent, quit, graphics>>

CleanupDeviceD3D ==
    /\ device' = FALSE /\ swapChain' = "none"
    /\ target' = "none"
    /\ views' = CleanupRenderTarget

\* DestroyWindow comes last: its messages find no device.
Cleanup ==
    /\ step = "cleanup"
    /\ step' = "done"
    /\ CleanupDeviceD3D
    /\ window' = "destroyed"
    /\ UNCHANGED <<queue, sent, quit>>

-----------------------------------------------------------------------------

Loop == \/ \E ok \in BOOLEAN : CreateDeviceD3D(ok)
        \/ ShowWindow \/ Dispatch \/ BeginFrame
        \/ \E exit \in BOOLEAN : BuildTabs(exit)
        \/ Render \/ Quit \/ Cleanup

Next == Loop \/ \E m \in Message : Send(m)

Spec == Init /\ [][Next]_vars

\* The thread runs on.
FairSpec == Spec /\ WF_vars(Loop)

-----------------------------------------------------------------------------
(* Properties. *)

\* Every variable has its type.
TypeOK ==
    /\ step \in {"device", "show", "poll", "build", "render", "cleanup", "done"}
    /\ window \in Size \cup {Minimized, "destroyed"}
    /\ queue \in Seq(Message) /\ sent \in 0 .. MaxMessages
    /\ quit \in BOOLEAN /\ device \in BOOLEAN
    /\ swapChain \in Size \cup {"none"} /\ target \in Size \cup {"none"}
    /\ views \in Nat

\* From the first frame to the last the render target views the buffers that
\* the swap chain has, and no other view of them exists: a resize can replace
\* the buffers.
TargetIsCurrent ==
    step \in {"poll", "build", "render"} =>
        device /\ target = swapChain /\ target # "none" /\ views = 1

\* A frame begins with buffers of the window's size, after any number of
\* changes of the size, unless the window is minimized; and never after the
\* window is gone.
FrameFits ==
    [][step = "poll" /\ step' = "build"
           => window \in {swapChain, Minimized}]_vars

\* After Exit or the end of the window, wWinMain returns.
QuitEnds == quit ~> step = "done"
=============================================================================
