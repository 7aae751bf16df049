-------------------------- MODULE DeviceResources --------------------------
(***************************************************************************)
(* The devices and the sized resources of D3DInteropHelper, and the frame  *)
(* that draws with them: Direct2D draws the user interface on a texture it *)
(* shares with Direct3D 11, which blends it over the scene.  A keyed mutex *)
(* hands the texture over, under key 0 to Direct2D and under key 1 to      *)
(* Direct3D 11.  Both sides belong to one thread and wait without limit.   *)
(*                                                                         *)
(* Objects are made in a fixed order and the first failure ends the order, *)
(* so that what exists is a prefix of it: `devices' and `sized' say how    *)
(* long.  A null pointer that is dereferenced, or an exception that leaves *)
(* the window procedure, ends in the stage "crashed".                      *)
(*                                                                         *)
(* The user interface makes its own brushes and text formats, the scroll   *)
(* bars when they are drawn after a layout and all others in               *)
(* CreateD2DResources, which is called once at most: when the devices are  *)
(* created and the sized resources succeed at the first attempt.           *)
(***************************************************************************)
EXTENDS Naturals

VARIABLES
  hwnd,         \* m_hwnd is set
  client,       \* 0 if the client area is empty (minimised), else 1
  dirty,        \* the window waits to be painted
  stage,        \* where the thread is in OnRender
  devices,      \* how many of the objects made only once exist
  sized,        \* how many of the objects made at every resize exist
  blend,        \* m_pD3D11BlendState exists
  key,          \* the key under which the shared texture was released
  ui,           \* what CreateD2DResources makes: "never", "made", "discarded"
  barsLost,     \* the scroll bars have discarded their brushes
  shown,        \* what is drawn over the scene besides the scroll bars
  removed,      \* the graphics device has been removed or reset
  failed        \* history: a call of Windows has failed

vars == <<hwnd, client, dirty, stage, devices, sized, blend, key, ui, barsLost, shown,
          removed, failed>>

-----------------------------------------------------------------------------
(* The order of creation.                                                  *)

\* CreateDeviceResources; the scene is what the canvas makes on the device.
Device11  == 1
SwapChain == 2
Device10  == 3
Scene     == 4

\* _RecreateSizedResources11, which also makes the view of the back buffer,
\* the depth buffer and its view (1 to 3) and takes the back buffer (4).
SharedTexture == 5
Mutex11       == 6
Handle        == 7
Surface10     == 8
Mutex10       == 9
Target2D      == 10
Blend         == 11

\* How far the sized resources can get: the depth buffer of an empty client
\* area cannot be made, and a removed device does not even resize its chain.
Reach(c) == IF removed THEN {0} ELSE IF c = 0 THEN 0 .. 1 ELSE 0 .. Blend

StopAnywhere(k) == k                                              \* mutant
Stop(k) == IF k < Target2D THEN k ELSE Target2D

\* Unchecked pointers on the way of a rebuild that gets as far as k.
Faults(k) == \/ devices < SwapChain
             \/ devices < Device10 /\ k >= Handle
             \/ devices < Scene /\ k >= Target2D

\* What the user can have drawn over the scene.
Overlays == {"dialog", "fps"}

-----------------------------------------------------------------------------
Init ==
  /\ hwnd = FALSE
  /\ client \in 0 .. 1
  /\ dirty = TRUE
  /\ stage = "idle"
  /\ devices = 0
  /\ sized = 0
  /\ blend = FALSE
  /\ key = 0
  /\ ui = "never"
  /\ barsLost = FALSE
  /\ shown = {}
  /\ removed = FALSE
  /\ failed = FALSE

\* Everything is made once, n objects of it, then the sized ones up to k; only
\* when all of them succeed does CreateD2DResources lay out the user interface
\* and make its brushes and formats.
Create(n, k, c) ==
  /\ n \in 0 .. Scene
  /\ k \in IF n = Scene THEN Reach(c) ELSE {0}
  /\ devices' = n
  /\ sized' = Stop(k)
  /\ blend' = (k = Blend)
  /\ key' = 0
  /\ ui' = IF k = Blend THEN "made" ELSE ui
  /\ barsLost' = (barsLost /\ k # Blend)
  /\ failed' = (failed \/ n < Scene \/ (c = 1 /\ k < Blend))
  /\ UNCHANGED removed

\* The sized resources alone: the user interface stays as it is.
Recreate(k, c) ==
  /\ k \in Reach(c)
  /\ sized' = Stop(k)
  /\ blend' = (blend \/ k = Blend)
  /\ key' = 0
  /\ stage' = IF Faults(k) THEN "crashed" ELSE "idle"
  /\ failed' = (failed \/ (c = 1 /\ k < Blend))
  /\ UNCHANGED <<devices, ui, barsLost, removed>>

SetHWnd ==
  /\ ~hwnd /\ stage = "idle"
  /\ hwnd' = TRUE
  /\ UNCHANGED <<client, dirty, stage, devices, sized, blend, key, ui, barsLost, shown, removed,
                 failed>>

\* WM_SIZE, when CreateDeviceResources finds no window.
ResizeEarly(c) ==
  /\ ~hwnd
  /\ UNCHANGED <<stage, devices, sized, blend, key, ui, barsLost, removed, failed>>

\* Mutant: the sized resources are made before there is a device.
ResizeAtOnce(c) ==
  /\ hwnd /\ devices < Device11
  /\ \E k \in 0 .. Blend : Recreate(k, c)

\* WM_SIZE without a device, which pays no heed to the size: an empty client
\* area contradicts the assertions of _RecreateSizedResources11.
ResizeFirst(c) ==
  /\ hwnd /\ devices < Device11
  /\ \E n \in 0 .. Scene, k \in 0 .. Blend : Create(n, k, c)
  /\ UNCHANGED stage

ResizeAgain(c) ==
  /\ hwnd /\ devices >= Device11 /\ c > 0
  /\ \E k \in 0 .. Blend : Recreate(k, c)

Minimise(c) ==
  /\ hwnd /\ devices >= Device11 /\ c = 0
  /\ UNCHANGED <<stage, devices, sized, blend, key, ui, barsLost, removed, failed>>

OnResize(c) ==
  /\ stage = "idle"
  /\ client' = c
  /\ dirty' = TRUE
  /\ ResizeEarly(c) \/ ResizeFirst(c) \/ ResizeAgain(c) \/ Minimise(c)
  /\ UNCHANGED <<hwnd, shown>>

-----------------------------------------------------------------------------
(* What the user does between frames.                                      *)

\* ResizeByRibbonResized, also for a new size of the main window: after the
\* WM_SIZE that MoveWindow may send, the scroll bars are due for new brushes.
LayoutComponents ==
  /\ stage = "idle" /\ hwnd
  /\ barsLost' = FALSE
  /\ dirty' = TRUE
  /\ UNCHANGED <<hwnd, client, stage, devices, sized, blend, key, ui, shown, removed, failed>>

Show(what) ==
  /\ stage = "idle" /\ hwnd
  /\ shown' = what
  /\ UNCHANGED <<hwnd, client, stage, devices, sized, blend, key, ui, barsLost, removed, failed>>

\* OnSettings displays the dialog, OK and Cancel close it.
ShowDialog  == Show(shown \cup {"dialog"}) /\ dirty' = TRUE
CloseDialog == Show(shown \ {"dialog"}) /\ UNCHANGED dirty

\* The accelerator switches the label with the frames per second on and off.
SetFPSEnable ==
  /\ Show(IF "fps" \in shown THEN shown \ {"fps"} ELSE shown \cup {"fps"})
  /\ UNCHANGED dirty

-----------------------------------------------------------------------------
(* WM_PAINT.  CanvasPanel::OnRender asks for the next one in any case.     *)

Painting == stage = "idle" /\ hwnd /\ dirty /\ client = 1

\* The animation timer or manager fails: nothing is drawn.
SkipFrame ==
  /\ Painting
  /\ failed' = TRUE
  /\ UNCHANGED <<hwnd, client, dirty, stage, devices, sized, blend, key, ui, barsLost, shown,
                 removed>>

\* The first frame creates everything, and draws only if all succeeded.
FirstFrame ==
  /\ Painting /\ devices < Device11
  /\ \E n \in 0 .. Scene, k \in 0 .. Blend :
       /\ Create(n, k, client)
       /\ IF k = Blend THEN stage' = "draw2D" /\ dirty' = FALSE
                       ELSE UNCHANGED <<stage, dirty>>
  /\ UNCHANGED <<hwnd, client, shown>>

\* Later frames take what there is.
LaterFrame ==
  /\ Painting /\ devices >= Device11
  /\ stage' = "draw2D"
  /\ dirty' = FALSE
  /\ UNCHANGED <<hwnd, client, devices, sized, blend, key, ui, barsLost, shown, removed, failed>>

Paint == SkipFrame \/ FirstFrame \/ LaterFrame

\* The keys: Direct2D takes 0 and leaves 1, Direct3D 11 the other way round.
LeftBy2D == 1
LeftBy3D == 0

After2DKept == {key}                                              \* mutant
After2D == IF removed THEN {key, LeftBy2D} ELSE {LeftBy2D}

After3DKept == {key}                                              \* mutant
After3D == IF removed THEN {key, LeftBy3D} ELSE {LeftBy3D}

BlocksNever(k) == FALSE                                           \* mutant
\* A removed device returns from AcquireSync with an error.
Blocks(k) == ~removed /\ key # k

\* What is drawn asks for a brush that does not exist, or its text (a new one
\* every second) for a format that does not: an exception, which nothing catches.
Undrawable ==
  \/ barsLost
  \/ "dialog" \in shown /\ ui # "made"
  \/ "fps" \in shown /\ ui = "never"

\* CanvasPanel::DiscardDeviceResources, for the whole user interface.
DiscardUI ==
  /\ ui' = IF ui = "made" THEN "discarded" ELSE ui
  /\ barsLost' = TRUE

Draw2D ==
  /\ stage = "draw2D"
  /\ \/ /\ sized < Target2D
        /\ stage' = "draw3D"
        /\ UNCHANGED <<key, ui, barsLost, failed>>
     \/ /\ sized = Target2D /\ Blocks(LeftBy3D)
        /\ stage' = "stuck"
        /\ UNCHANGED <<key, ui, barsLost, failed>>
     \/ /\ sized = Target2D /\ ~Blocks(LeftBy3D) /\ Undrawable
        /\ stage' = "crashed"
        /\ UNCHANGED <<key, ui, barsLost, failed>>
     \/ /\ sized = Target2D /\ ~Blocks(LeftBy3D) /\ ~Undrawable
        /\ stage' = "draw3D"
        /\ key' \in After2D
        /\ \/ UNCHANGED <<ui, barsLost, failed>>
           \/ DiscardUI /\ failed' = TRUE     \* D2DERR_RECREATE_TARGET
  /\ UNCHANGED <<hwnd, client, dirty, devices, sized, blend, shown, removed>>

Draw3D ==
  /\ stage = "draw3D"
  /\ \/ /\ sized < Mutex11
        /\ stage' = "crashed"
        /\ UNCHANGED key
     \/ /\ sized >= Mutex11 /\ Blocks(LeftBy2D)
        /\ stage' = "stuck"
        /\ UNCHANGED key
     \/ /\ sized >= Mutex11 /\ ~Blocks(LeftBy2D)
        /\ stage' = "present"
        /\ key' \in After3D
  /\ UNCHANGED <<hwnd, client, dirty, devices, sized, blend, ui, barsLost, shown, removed, failed>>

\* DiscardDeviceResources leaves the devices and the swap chain.
Discard ==
  /\ sized' = 0
  /\ blend' = FALSE
  /\ DiscardUI

InvalidatesIfBusy == FALSE                                        \* mutant
Invalidates == TRUE

Present ==
  /\ stage = "present"
  /\ stage' = "idle"
  /\ dirty' = Invalidates
  /\ IF removed THEN Discard ELSE UNCHANGED <<sized, blend, ui, barsLost>>
  /\ UNCHANGED <<hwnd, client, devices, key, shown, removed, failed>>

\* The driver is updated, hangs or loses the adapter, at any moment.
Remove ==
  /\ devices >= Device11 /\ ~removed
  /\ stage \notin {"crashed", "stuck"}
  /\ removed' = TRUE
  /\ failed' = TRUE
  /\ UNCHANGED <<hwnd, client, dirty, stage, devices, sized, blend, key, ui, barsLost, shown>>

\* The process has ended, or hangs.
Stopped == stage \in {"crashed", "stuck"} /\ UNCHANGED vars

Next ==
  \/ SetHWnd
  \/ \E c \in 0 .. 1 : OnResize(c)
  \/ LayoutComponents
  \/ ShowDialog
  \/ CloseDialog
  \/ SetFPSEnable
  \/ Paint
  \/ Draw2D
  \/ Draw3D
  \/ Present
  \/ Remove
  \/ Stopped

\* The thread goes on, and Windows paints a window that waits for it.
Fairness ==
  /\ WF_vars(SetHWnd)
  /\ WF_vars(Paint)
  /\ WF_vars(Draw2D)
  /\ WF_vars(Draw3D)
  /\ WF_vars(Present)

Spec == Init /\ [][Next]_vars /\ Fairness

-----------------------------------------------------------------------------
(* Properties.                                                             *)

Stages == {"idle", "draw2D", "draw3D", "present", "crashed", "stuck"}

\* Every variable has its type.
FlagsOK ==
  /\ hwnd \in BOOLEAN /\ dirty \in BOOLEAN /\ blend \in BOOLEAN
  /\ barsLost \in BOOLEAN /\ removed \in BOOLEAN /\ failed \in BOOLEAN

NumbersOK ==
  /\ client \in 0 .. 1
  /\ stage \in Stages
  /\ devices \in 0 .. Scene
  /\ sized \in 0 .. Target2D
  /\ key \in 0 .. 1
  /\ ui \in {"never", "made", "discarded"}
  /\ shown \subseteq Overlays

TypeOK == FlagsOK /\ NumbersOK

\* As long as no call of Windows fails and no device is lost, no order of
\* sizes, minimising, frames and commands waits for ever, and only one ends in
\* an exception: the device was created for an empty client area, for which
\* CreateD2DResources is not called and never made up, and then the dialog or
\* the frames per second are displayed.
SafeUnlessFailed ==
  stage \in {"crashed", "stuck"} /\ ~failed =>
    stage = "crashed" /\ ui = "never" /\ shown # {}

\* Even after failures the endless wait has only one cause: the sized
\* resources stopped between the mutex of Direct3D 11 and the target of
\* Direct2D, which then never releases key 1.
WaitsOnlyHalfway == stage = "stuck" => Mutex11 <= sized /\ sized < Target2D

\* Between frames the texture waits for Direct2D, whatever failed before.
KeyReturned == stage = "idle" /\ sized >= SharedTexture => key = 0

\* A frame reaches the screen whole: the user interface was drawn and the
\* scene exists, although neither is checked.
ShowsWhole == stage = "present" /\ ~removed => sized = Target2D /\ devices = Scene

\* What the user displays has the brushes of CreateD2DResources.
Drawable == ui = "made" \/ shown = {}

\* As long as nothing fails, a window that stays visible, and displays nothing
\* for which the brushes were never made, is drawn again and again.
KeepsDrawing == <>[](client = 1 /\ Drawable) /\ []~failed => []<>(stage = "present")
=============================================================================
