----------------------- MODULE DeviceResourcesProofs -----------------------
(***************************************************************************)
(* DeviceResources has no parameter; its safety properties are proved from *)
(* an inductive invariant, which says why no check is missing as long as   *)
(* nothing fails, and what holds all the same when something does.         *)
(***************************************************************************)
EXTENDS DeviceResources, TLAPS

Drawing == {"draw2D", "draw3D", "present"}

\* Nothing is made before there is a window, and nothing sized or lost
\* before there is a device.
MadeInOrder ==
  /\ ~hwnd => devices = 0
  /\ devices = 0 => sized = 0 /\ ~removed /\ stage = "idle"
  /\ stage # "crashed" /\ sized = Target2D => devices = Scene

\* Whose turn it is on the shared texture.
Turns ==
  /\ stage \in {"idle", "draw2D"} /\ sized >= SharedTexture => key = 0
  /\ stage = "draw3D" /\ ~removed =>
       IF sized = Target2D THEN key = 1 ELSE sized >= SharedTexture => key = 0
  /\ stage = "present" /\ ~removed => key = 0

\* Unless something failed, all objects exist, but for an empty window, and
\* but for those of the user interface if the window was empty at first.
WholeUnlessFailed ==
  ~failed =>
    /\ ~removed /\ ~barsLost /\ ui # "discarded"
    /\ stage # "stuck"
    /\ stage = "crashed" => ui = "never" /\ shown # {}
    /\ devices \in {0, Scene}
    /\ devices = Scene /\ client = 1 => sized = Target2D
    /\ stage \in Drawing => client = 1

Inv ==
  /\ TypeOK
  /\ MadeInOrder
  /\ Turns
  /\ WholeUnlessFailed
  /\ WaitsOnlyHalfway
  /\ ShowsWhole

\* The numbers behind the names, and how they are ordered.
USE DEF Device11, SwapChain, Device10, Scene, SharedTexture, Mutex11, Handle, Target2D, Blend,
        LeftBy2D, LeftBy3D, Invalidates

LEMMA InitInv == Init => Inv
<1> SUFFICES ASSUME Init PROVE Inv
  OBVIOUS
<1>1. FlagsOK
  BY DEF Init, FlagsOK
<1>2. NumbersOK
  BY DEF Init, NumbersOK, Stages
<1>3. MadeInOrder /\ Turns /\ WaitsOnlyHalfway /\ ShowsWhole
  BY DEF Init, MadeInOrder, Turns, WaitsOnlyHalfway, ShowsWhole
<1>4. WholeUnlessFailed
  BY DEF Init, WholeUnlessFailed, Drawing
<1> QED BY <1>1, <1>2, <1>3, <1>4 DEF Inv, TypeOK

\* How far a creation gets.
LEMMA StopType ==
  ASSUME NEW k \in 0 .. Blend
  PROVE  /\ Stop(k) \in 0 .. Target2D
         /\ k = Blend => Stop(k) = Target2D
         /\ k = 0 => Stop(k) = 0
         /\ Stop(k) = Target2D => k >= Target2D
         /\ k >= Target2D => Stop(k) = Target2D
BY DEF Stop

LEMMA CreateType ==
  ASSUME TypeOK, NEW n, NEW k, NEW c, Create(n, k, c)
  PROVE  /\ blend' \in BOOLEAN /\ barsLost' \in BOOLEAN /\ failed' \in BOOLEAN
         /\ ui' \in {"never", "made", "discarded"}
<1>1. barsLost' = (barsLost /\ k # Blend) /\ ui' = IF k = Blend THEN "made" ELSE ui
  BY DEF Create
<1>2. blend' = (k = Blend) /\ failed' = (failed \/ n < Scene \/ (c = 1 /\ k < Blend))
  BY DEF Create
<1>3. blend' \in BOOLEAN /\ barsLost' \in BOOLEAN /\ failed' \in BOOLEAN
  BY <1>1, <1>2
<1> QED BY <1>1, <1>3 DEF TypeOK, NumbersOK

LEMMA ResizeFirstInv ==
  ASSUME Inv, NEW c \in 0 .. 1, stage = "idle", client' = c, dirty' = TRUE, UNCHANGED <<hwnd, shown>>,
         ResizeFirst(c)
  PROVE  Inv'
<1>1. PICK n \in 0 .. Scene, k \in 0 .. Blend : Create(n, k, c)
  BY DEF ResizeFirst
<1>2. n < Scene => k = 0
  BY <1>1 DEF Create
<1>3. hwnd /\ devices = 0 /\ ~removed /\ ~removed' /\ stage' = "idle" /\ hwnd'
  BY <1>1 DEF ResizeFirst, Inv, TypeOK, NumbersOK, Create, MadeInOrder
<1>4. devices' = n /\ sized' = Stop(k) /\ key' = 0
  BY <1>1 DEF Create
<1>5. ~failed' => /\ ~failed /\ ~barsLost' /\ ui' # "discarded"
                  /\ ~(n < Scene) /\ ~(c = 1 /\ k < Blend)
  BY <1>1 DEF Create, Inv, WholeUnlessFailed
<1>6. FlagsOK'
  <2>1. /\ blend' \in BOOLEAN /\ barsLost' \in BOOLEAN /\ failed' \in BOOLEAN
    BY <1>1, CreateType DEF Inv
  <2>2. hwnd' \in BOOLEAN /\ dirty' \in BOOLEAN /\ removed' \in BOOLEAN
    BY <1>1 DEF Create, Inv, TypeOK, FlagsOK
  <2> QED BY <2>1, <2>2 DEF FlagsOK
<1>7. NumbersOK'
  BY <1>1, <1>3, <1>4, StopType, CreateType DEF Inv, TypeOK, NumbersOK, Stages
<1>8. MadeInOrder'
  BY <1>2, <1>3, <1>4, StopType DEF MadeInOrder
<1>9. WholeUnlessFailed'
  BY <1>2, <1>3, <1>4, <1>5, StopType DEF WholeUnlessFailed, Drawing
<1> QED BY <1>3, <1>4, <1>6, <1>7, <1>8, <1>9 DEF Inv, TypeOK, Turns, WaitsOnlyHalfway, ShowsWhole

LEMMA ResizeAgainInv ==
  ASSUME Inv, NEW c \in 0 .. 1, stage = "idle", client' = c, dirty' = TRUE, UNCHANGED <<hwnd, shown>>,
         ResizeAgain(c)
  PROVE  Inv'
<1>1. PICK k \in 0 .. Blend : Recreate(k, c)
  BY DEF ResizeAgain
<1>2. c = 1 /\ hwnd /\ hwnd' /\ devices # 0
  BY DEF ResizeAgain
<1>3. /\ sized' = Stop(k) /\ key' = 0 /\ devices' = devices
      /\ UNCHANGED <<removed, ui, barsLost>>
      /\ stage' = IF Faults(k) THEN "crashed" ELSE "idle"
  BY <1>1 DEF Recreate
<1>4. ~failed' => ~failed /\ k = Blend
  <2>1. ~failed' => ~failed /\ ~(c = 1 /\ k < Blend)
    BY <1>1 DEF Recreate
  <2> QED BY <1>2, <2>1
<1>5. FlagsOK'
  BY <1>1 DEF Recreate, Inv, TypeOK, FlagsOK
<1>6. NumbersOK'
  BY <1>3, StopType DEF Inv, TypeOK, NumbersOK, Stages
<1>7. MadeInOrder'
  BY <1>2, <1>3, StopType DEF Inv, MadeInOrder, Faults, TypeOK, NumbersOK
<1>8. WholeUnlessFailed'
  BY <1>2, <1>3, <1>4, StopType
  DEF Inv, TypeOK, NumbersOK, WholeUnlessFailed, Drawing, Faults
<1> QED BY <1>3, <1>5, <1>6, <1>7, <1>8 DEF Inv, TypeOK, Turns, WaitsOnlyHalfway, ShowsWhole

LEMMA OnResizeInv == ASSUME Inv, NEW c \in 0 .. 1, OnResize(c) PROVE Inv'
<1>1. stage = "idle" /\ client' = c /\ dirty' = TRUE /\ UNCHANGED <<hwnd, shown>>
  BY DEF OnResize
<1>2. ASSUME ResizeEarly(c) \/ Minimise(c) PROVE Inv'
  <2>1. /\ UNCHANGED <<stage, devices, sized, blend, key, ui, barsLost, removed, failed>>
        /\ devices = 0 \/ c = 0
    BY <1>2 DEF ResizeEarly, Minimise, Inv, MadeInOrder
  <2>2. FlagsOK'
    BY <1>1, <2>1 DEF Inv, TypeOK, FlagsOK
  <2> QED BY <1>1, <2>1, <2>2 DEF Inv, TypeOK, NumbersOK, MadeInOrder, Turns, WholeUnlessFailed,
          WaitsOnlyHalfway, ShowsWhole, Drawing
<1> QED BY <1>1, <1>2, ResizeFirstInv, ResizeAgainInv DEF OnResize

LEMMA FirstFrameInv == Inv /\ FirstFrame => Inv'
<1> SUFFICES ASSUME Inv, FirstFrame PROVE Inv'
  OBVIOUS
<1>1. PICK n \in 0 .. Scene, k \in 0 .. Blend :
        /\ Create(n, k, client)
        /\ IF k = Blend THEN stage' = "draw2D" /\ dirty' = FALSE ELSE UNCHANGED <<stage, dirty>>
  BY DEF FirstFrame
<1>2. n < Scene => k = 0
  BY <1>1 DEF Create
<1>3. /\ hwnd /\ hwnd' /\ devices = 0 /\ ~removed /\ ~removed' /\ stage = "idle"
      /\ client = 1 /\ client' = 1 /\ UNCHANGED <<hwnd, shown>>
  BY <1>1 DEF FirstFrame, Painting, Inv, TypeOK, NumbersOK, Create, MadeInOrder
<1>4. devices' = n /\ sized' = Stop(k) /\ key' = 0
  BY <1>1 DEF Create
<1>5. ~failed' => /\ ~failed /\ ~barsLost' /\ ui' # "discarded"
                  /\ ~(n < Scene) /\ ~(k < Blend)
  BY <1>1, <1>3 DEF Create, Inv, WholeUnlessFailed
<1>6. stage' \in {"idle", "draw2D"} /\ (stage' = "draw2D" => k = Blend)
  BY <1>1, <1>3
<1>7. FlagsOK'
  <2>1. dirty' \in BOOLEAN
    BY <1>1 DEF Inv, TypeOK, FlagsOK
  <2>2. /\ blend' \in BOOLEAN /\ barsLost' \in BOOLEAN /\ failed' \in BOOLEAN
    BY <1>1, CreateType DEF Inv
  <2>3. hwnd' \in BOOLEAN /\ removed' \in BOOLEAN
    BY <1>1, <1>3 DEF Create, Inv, TypeOK, FlagsOK
  <2> QED BY <2>1, <2>2, <2>3 DEF FlagsOK
<1>8. NumbersOK'
  BY <1>1, <1>3, <1>4, <1>6, StopType, CreateType DEF Inv, TypeOK, NumbersOK, Stages
<1>9. MadeInOrder'
  BY <1>2, <1>3, <1>4, <1>6, StopType DEF MadeInOrder
<1>10. WholeUnlessFailed'
  BY <1>2, <1>3, <1>4, <1>5, <1>6, StopType DEF WholeUnlessFailed, Drawing
<1> QED BY <1>3, <1>4, <1>6, <1>7, <1>8, <1>9, <1>10
        DEF Inv, TypeOK, Turns, WaitsOnlyHalfway, ShowsWhole

LEMMA PaintInv == Inv /\ Paint => Inv'
<1> SUFFICES ASSUME Inv, Paint PROVE Inv'
  OBVIOUS
<1>1. CASE SkipFrame
  <2>1. FlagsOK'
    BY <1>1 DEF SkipFrame, Inv, TypeOK, FlagsOK
  <2> QED BY <1>1, <2>1 DEF SkipFrame, Inv, TypeOK, NumbersOK, MadeInOrder, Turns,
          WholeUnlessFailed, WaitsOnlyHalfway, ShowsWhole
<1>2. CASE LaterFrame
  <2>1. FlagsOK'
    BY <1>2 DEF LaterFrame, Inv, TypeOK, FlagsOK
  <2> QED BY <1>2, <2>1 DEF LaterFrame, Painting, Inv, TypeOK, NumbersOK, Stages, MadeInOrder,
          Turns, WholeUnlessFailed, WaitsOnlyHalfway, ShowsWhole, Drawing
<1> QED BY <1>1, <1>2, FirstFrameInv DEF Paint

\* The commands of the user touch nothing that a frame rests on, but for what
\* is to be displayed.
LEMMA UserInv ==
  ASSUME Inv, LayoutComponents \/ ShowDialog \/ CloseDialog \/ SetFPSEnable
  PROVE  Inv' /\ stage = "idle" /\ UNCHANGED <<stage, failed>>
<1> DEFINE Kept == UNCHANGED <<hwnd, client, stage, devices, sized, blend, key, ui, removed, failed>>
<1>1. shown \subseteq Overlays /\ dirty \in BOOLEAN /\ barsLost \in BOOLEAN
  BY DEF Inv, TypeOK, FlagsOK, NumbersOK
<1>2. /\ stage = "idle" /\ Kept /\ shown' \subseteq Overlays /\ dirty' \in BOOLEAN
      /\ barsLost' \in BOOLEAN /\ (barsLost' => barsLost)
  <2>1. CASE LayoutComponents
    BY <1>1, <2>1 DEF LayoutComponents
  <2>2. CASE ShowDialog
    BY <1>1, <2>2 DEF ShowDialog, Show, Overlays
  <2>3. CASE CloseDialog
    BY <1>1, <2>3 DEF CloseDialog, Show
  <2>4. CASE SetFPSEnable
    BY <1>1, <2>4 DEF SetFPSEnable, Show, Overlays
  <2> QED BY <2>1, <2>2, <2>3, <2>4
<1>3. FlagsOK'
  BY <1>2 DEF Inv, TypeOK, FlagsOK
<1>4. NumbersOK'
  BY <1>2 DEF Inv, TypeOK, NumbersOK
<1>5. WholeUnlessFailed'
  BY <1>2 DEF Inv, WholeUnlessFailed, Drawing
<1> QED BY <1>2, <1>3, <1>4, <1>5 DEF Inv, TypeOK, MadeInOrder, Turns, WaitsOnlyHalfway, ShowsWhole

\* Discarding takes the user interface from one legal state to another.
LEMMA DiscardUIType ==
  ASSUME NumbersOK, DiscardUI
  PROVE  barsLost' = TRUE /\ ui' \in {"never", "made", "discarded"}
BY DEF DiscardUI, NumbersOK

LEMMA Draw2DInv == Inv /\ Draw2D => Inv'
<1> SUFFICES ASSUME Inv, Draw2D PROVE Inv'
  OBVIOUS
<1>1. /\ stage = "draw2D" /\ devices # 0
      /\ UNCHANGED <<hwnd, client, dirty, devices, sized, blend, shown, removed>>
  BY DEF Draw2D, Inv, MadeInOrder
<1>2. sized = Target2D => ~Blocks(LeftBy3D)
  BY <1>1 DEF Inv, Turns, Blocks
<1>3. ~failed => sized = Target2D /\ ~barsLost /\ ui # "discarded" /\ ~removed
  BY <1>1 DEF Inv, WholeUnlessFailed, Drawing, TypeOK, NumbersOK
<1>4. CASE sized < Target2D
  <2>1. stage' = "draw3D" /\ UNCHANGED <<key, ui, barsLost, failed>>
    BY <1>4 DEF Draw2D
  <2>2. FlagsOK'
    BY <1>1, <2>1 DEF Inv, TypeOK, FlagsOK
  <2> QED BY <1>1, <1>3, <1>4, <2>1, <2>2 DEF Inv, TypeOK, NumbersOK, Stages, MadeInOrder, Turns,
          WholeUnlessFailed, WaitsOnlyHalfway, ShowsWhole
<1>5. CASE sized = Target2D /\ Undrawable
  <2>1. stage' = "crashed" /\ UNCHANGED <<key, ui, barsLost, failed>>
    <3>1. ~(sized < Target2D)
      BY <1>5
    <3> QED BY <1>2, <1>5, <3>1 DEF Draw2D
  <2>2. FlagsOK'
    BY <1>1, <2>1 DEF Inv, TypeOK, FlagsOK
  <2>3. ~failed => ui = "never" /\ shown # {}
    BY <1>3, <1>5 DEF Undrawable, Inv, TypeOK, NumbersOK
  <2> QED BY <1>1, <1>3, <1>5, <2>1, <2>2, <2>3 DEF Inv, TypeOK, NumbersOK, Stages, MadeInOrder,
          Turns, WholeUnlessFailed, WaitsOnlyHalfway, ShowsWhole, Drawing
<1>6. CASE sized = Target2D /\ ~Undrawable
  <2>1. /\ stage' = "draw3D" /\ key' \in After2D
        /\ UNCHANGED <<ui, barsLost, failed>> \/ (DiscardUI /\ failed' = TRUE)
    BY <1>2, <1>6 DEF Draw2D
  <2>2. key' \in 0 .. 1 /\ (~removed => key' = 1)
    BY <2>1 DEF After2D, Inv, TypeOK, NumbersOK
  <2>3. FlagsOK' /\ ui' \in {"never", "made", "discarded"}
    BY <1>1, <2>1, DiscardUIType DEF Inv, TypeOK, FlagsOK, NumbersOK
  <2>4. ~failed' => ~failed /\ UNCHANGED <<ui, barsLost>>
    BY <2>1
  <2>5. stage' = "draw3D"
    BY <2>1
  <2> QED BY <1>1, <1>3, <1>6, <2>2, <2>3, <2>4, <2>5 DEF Inv, TypeOK, NumbersOK, Stages,
          MadeInOrder, Turns, WholeUnlessFailed, WaitsOnlyHalfway, ShowsWhole, Drawing
<1> QED BY <1>4, <1>5, <1>6 DEF Inv, TypeOK, NumbersOK

LEMMA Draw3DInv == Inv /\ Draw3D => Inv'
<1> SUFFICES ASSUME Inv, Draw3D PROVE Inv'
  OBVIOUS
<1>1. /\ stage = "draw3D" /\ devices # 0
      /\ UNCHANGED <<hwnd, client, dirty, devices, sized, blend, ui, barsLost, shown, removed, failed>>
  BY DEF Draw3D, Inv, MadeInOrder
<1>2. ~failed => sized = Target2D /\ ~removed /\ key = 1
  BY <1>1 DEF Inv, WholeUnlessFailed, Drawing, TypeOK, NumbersOK, Turns
<1>3. FlagsOK'
  BY <1>1 DEF Inv, TypeOK, FlagsOK
<1>4. CASE sized < Mutex11 /\ stage' = "crashed" /\ UNCHANGED key
  BY <1>1, <1>2, <1>3, <1>4 DEF Inv, TypeOK, NumbersOK, Stages, MadeInOrder, Turns,
     WholeUnlessFailed, WaitsOnlyHalfway, ShowsWhole
<1>5. CASE sized >= Mutex11 /\ Blocks(LeftBy2D) /\ stage' = "stuck" /\ UNCHANGED key
  <2>1. sized >= Mutex11 /\ ~removed /\ key # 1
    BY <1>5 DEF Blocks
  <2>2. sized < Target2D /\ failed
    BY <1>1, <1>2, <2>1 DEF Inv, Turns, TypeOK, NumbersOK
  <2> QED BY <1>1, <1>3, <1>5, <2>1, <2>2 DEF Inv, TypeOK, NumbersOK, Stages, MadeInOrder, Turns,
          WholeUnlessFailed, WaitsOnlyHalfway, ShowsWhole
<1>6. CASE sized >= Mutex11 /\ ~Blocks(LeftBy2D) /\ stage' = "present" /\ key' \in After3D
  <2>1. key' \in 0 .. 1 /\ (~removed => key' = 0)
    BY <1>6 DEF After3D, Inv, TypeOK, NumbersOK
  <2>2. ~removed => sized = Target2D
    <3>1. ~removed => key = 1
      BY <1>6 DEF Blocks
    <3>2. sized >= Mutex11 => sized >= SharedTexture
      BY DEF Inv, TypeOK, NumbersOK
    <3> QED BY <1>1, <1>6, <3>1, <3>2 DEF Inv, Turns
  <2> QED BY <1>1, <1>3, <1>6, <2>1, <2>2 DEF Inv, TypeOK, NumbersOK, Stages, MadeInOrder, Turns,
          WholeUnlessFailed, WaitsOnlyHalfway, ShowsWhole, Drawing
<1> QED BY <1>4, <1>5, <1>6 DEF Draw3D

LEMMA PresentInv == Inv /\ Present => Inv'
<1> SUFFICES ASSUME Inv, Present PROVE Inv'
  OBVIOUS
<1>1. /\ stage = "present" /\ stage' = "idle" /\ dirty' = TRUE /\ devices # 0
      /\ UNCHANGED <<hwnd, client, devices, key, shown, removed, failed>>
  BY DEF Present, Inv, MadeInOrder
<1>2. CASE removed
  <2>1. /\ sized' = 0 /\ blend' = FALSE /\ barsLost' = TRUE
        /\ ui' \in {"never", "made", "discarded"}
    BY <1>2, DiscardUIType DEF Present, Discard, Inv, TypeOK
  <2>2. failed
    BY <1>2 DEF Inv, WholeUnlessFailed
  <2>3. FlagsOK'
    BY <1>1, <2>1 DEF Inv, TypeOK, FlagsOK
  <2> QED BY <1>1, <2>1, <2>2, <2>3 DEF Inv, TypeOK, NumbersOK, Stages, MadeInOrder, Turns,
          WholeUnlessFailed, WaitsOnlyHalfway, ShowsWhole
<1>3. CASE ~removed
  <2>1. UNCHANGED <<sized, blend, ui, barsLost>>
    BY <1>3 DEF Present
  <2>2. FlagsOK'
    BY <1>1, <2>1 DEF Inv, TypeOK, FlagsOK
  <2> QED BY <1>1, <1>3, <2>1, <2>2 DEF Inv, TypeOK, NumbersOK, Stages, MadeInOrder, Turns,
          WholeUnlessFailed, WaitsOnlyHalfway, ShowsWhole, Drawing
<1> QED BY <1>2, <1>3

LEMMA NextInv == Inv /\ [Next]_vars => Inv'
<1> SUFFICES ASSUME Inv, [Next]_vars PROVE Inv'
  OBVIOUS
<1>1. CASE SetHWnd
  <2>1. FlagsOK'
    BY <1>1 DEF SetHWnd, Inv, TypeOK, FlagsOK
  <2> QED BY <1>1, <2>1 DEF SetHWnd, Inv, TypeOK, NumbersOK, MadeInOrder, Turns, WholeUnlessFailed, WaitsOnlyHalfway,
     ShowsWhole
<1>2. CASE Remove
  <2>1. FlagsOK'
    BY <1>2 DEF Remove, Inv, TypeOK, FlagsOK
  <2> QED BY <1>2, <2>1 DEF Remove, Inv, TypeOK, NumbersOK, MadeInOrder, Turns, WholeUnlessFailed, WaitsOnlyHalfway,
     ShowsWhole
<1>3. CASE UNCHANGED vars
  BY <1>3 DEF vars, Inv, TypeOK, FlagsOK, NumbersOK, MadeInOrder, Turns, WholeUnlessFailed, WaitsOnlyHalfway,
     ShowsWhole
<1> QED BY <1>1, <1>2, <1>3, OnResizeInv, UserInv, PaintInv, Draw2DInv, Draw3DInv, PresentInv
        DEF Next, Stopped

LEMMA Invariance == Spec => []Inv
BY InitInv, NextInv, PTL DEF Spec

-----------------------------------------------------------------------------
\* Every variable keeps its type (see TypeOK).
THEOREM Typing == Spec => []TypeOK
<1>1. Inv => TypeOK
  BY DEF Inv
<1> QED BY <1>1, Invariance, PTL

\* Without a failure of Windows no wait is endless, and no null is
\* dereferenced and no exception thrown but for brushes that were never made,
\* because the window was empty when the device was (see SafeUnlessFailed).
THEOREM Safety == Spec => []SafeUnlessFailed
<1>1. Inv => SafeUnlessFailed
  BY DEF Inv, WholeUnlessFailed, SafeUnlessFailed
<1> QED BY <1>1, Invariance, PTL

\* With failures the endless wait still has one cause only (see
\* WaitsOnlyHalfway).
THEOREM Waiting == Spec => []WaitsOnlyHalfway
<1>1. Inv => WaitsOnlyHalfway
  BY DEF Inv
<1> QED BY <1>1, Invariance, PTL

\* Between frames Direct2D's key is back, whatever failed (see KeyReturned).
THEOREM HandOver == Spec => []KeyReturned
<1>1. Inv => KeyReturned
  BY DEF Inv, Turns, KeyReturned
<1> QED BY <1>1, Invariance, PTL

\* No frame is displayed half drawn (see ShowsWhole).
THEOREM WholeFrames == Spec => []ShowsWhole
<1>1. Inv => ShowsWhole
  BY DEF Inv
<1> QED BY <1>1, Invariance, PTL

-----------------------------------------------------------------------------
(* What KeepsDrawing comes from: fairness gives that a step which is       *)
(* enabled is taken, and these are the steps.                              *)

NextStage == [idle |-> "draw2D", draw2D |-> "draw3D", draw3D |-> "present",
              present |-> "idle"]

\* As long as nothing fails, a visible window that is not being drawn waits
\* to be painted; no step leads out of the order of a frame, and each part of
\* a frame that is run leads on to the next: none of them waits for a key or
\* ends early, unless it is to draw what has no brushes.
FrameAdvances ==
  [][hwnd /\ client = 1 /\ client' = 1 /\ Drawable /\ Drawable' /\ ~failed' =>
       /\ stage \in DOMAIN NextStage
       /\ stage = "idle" => Painting
       /\ stage' \in {stage, NextStage[stage]}
       /\ Paint \/ Draw2D \/ Draw3D \/ Present => stage' = NextStage[stage]]_vars

\* Whoever stops drawing has asked to be painted again.
Waits == stage = "idle" => dirty

LEMMA InitWaits == Init => Waits
BY DEF Init, Waits

LEMMA NextWaits == Waits /\ [Next]_vars => Waits'
<1> SUFFICES ASSUME Waits, [Next]_vars PROVE Waits'
  OBVIOUS
<1>1. CASE SetHWnd \/ Remove \/ Stopped \/ UNCHANGED vars
  BY <1>1 DEF SetHWnd, Remove, Stopped, vars, Waits
<1>2. ASSUME NEW c \in 0 .. 1, OnResize(c) PROVE Waits'
  BY <1>2 DEF OnResize, Waits
<1>3. CASE Paint
  <2>1. CASE SkipFrame \/ LaterFrame
    BY <2>1 DEF SkipFrame, LaterFrame, Waits
  <2>2. CASE FirstFrame
    BY <2>2 DEF FirstFrame, Waits
  <2> QED BY <1>3, <2>1, <2>2 DEF Paint
<1>4. CASE Draw2D \/ Draw3D
  BY <1>4 DEF Draw2D, Draw3D, Waits
<1>5. CASE Present
  BY <1>5 DEF Present, Waits
<1>6. CASE LayoutComponents \/ ShowDialog \/ CloseDialog \/ SetFPSEnable
  BY <1>6 DEF LayoutComponents, ShowDialog, CloseDialog, SetFPSEnable, Show, Waits
<1> QED BY <1>1, <1>2, <1>3, <1>4, <1>5, <1>6 DEF Next

\* Nothing takes back that a call failed.
LEMMA FailedRemains == [Next]_vars /\ failed => failed'
<1> SUFFICES ASSUME [Next]_vars, failed PROVE failed'
  OBVIOUS
<1>1. ASSUME NEW n, NEW k, NEW c, Create(n, k, c) PROVE failed'
  BY <1>1, Zenon DEF Create
<1>2. ASSUME NEW k, NEW c, Recreate(k, c) PROVE failed'
  BY <1>2, Zenon DEF Recreate
<1>3. CASE SetHWnd \/ Remove \/ Stopped \/ UNCHANGED vars
  BY <1>3 DEF SetHWnd, Remove, Stopped, vars
<1>4. ASSUME NEW c \in 0 .. 1, OnResize(c) PROVE failed'
  <2>1. CASE ResizeEarly(c) \/ Minimise(c)
    BY <2>1 DEF ResizeEarly, Minimise
  <2>2. CASE ResizeFirst(c) \/ ResizeAgain(c)
    BY <1>1, <1>2, <2>2, Zenon DEF ResizeFirst, ResizeAgain
  <2> QED BY <1>4, <2>1, <2>2 DEF OnResize
<1>5. CASE Paint
  <2>1. CASE SkipFrame \/ LaterFrame
    BY <2>1 DEF SkipFrame, LaterFrame
  <2>2. CASE FirstFrame
    BY <1>1, <2>2, Zenon DEF FirstFrame
  <2> QED BY <1>5, <2>1, <2>2 DEF Paint
<1>6. CASE Draw2D
  BY <1>6, Zenon DEF Draw2D
<1>7. CASE Draw3D \/ Present
  BY <1>7 DEF Draw3D, Present
<1>8. CASE LayoutComponents \/ ShowDialog \/ CloseDialog \/ SetFPSEnable
  BY <1>8 DEF LayoutComponents, ShowDialog, CloseDialog, SetFPSEnable, Show
<1> QED BY <1>3, <1>4, <1>5, <1>6, <1>7, <1>8 DEF Next

LEMMA StepAdvances ==
  ASSUME Inv, Waits, Next, hwnd, client = 1, client' = 1, Drawable, Drawable', ~failed'
  PROVE  /\ stage \in DOMAIN NextStage
         /\ stage = "idle" => Painting
         /\ stage' \in {stage, NextStage[stage]}
         /\ Paint \/ Draw2D \/ Draw3D \/ Present => stage' = NextStage[stage]
<1>1. /\ ~failed /\ ~removed /\ ~barsLost /\ ui # "discarded"
      /\ stage \notin {"crashed", "stuck"}
  BY FailedRemains DEF Inv, WholeUnlessFailed, Drawable
<1>2. Inv' /\ stage' \notin {"crashed", "stuck"}
  BY NextInv DEF Inv, WholeUnlessFailed, Drawable
<1>3. stage \in {"idle", "draw2D", "draw3D", "present"}
  BY <1>1 DEF Inv, TypeOK, NumbersOK, Stages
<1>4. stage = "idle" => Painting
  BY DEF Waits, Painting
<1>5. CASE SetHWnd \/ Remove \/ Stopped
  BY <1>1, <1>5 DEF SetHWnd, Remove, Stopped
<1>6. ASSUME NEW c \in 0 .. 1, OnResize(c) PROVE stage = "idle" /\ stage' = "idle"
  <2>1. stage = "idle"
    BY <1>6 DEF OnResize
  <2>2. CASE ResizeEarly(c) \/ Minimise(c) \/ ResizeFirst(c)
    BY <2>1, <2>2 DEF ResizeEarly, Minimise, ResizeFirst
  <2>3. CASE ResizeAgain(c)
    <3>1. PICK k \in 0 .. Blend : Recreate(k, c)
      BY <2>3 DEF ResizeAgain
    <3> QED BY <1>2, <2>1, <3>1 DEF Recreate
  <2> QED BY <1>6, <2>1, <2>2, <2>3 DEF OnResize
<1>7. Paint => stage = "idle" /\ stage' = "draw2D"
  <2>1. ASSUME FirstFrame PROVE stage' = "draw2D"
    <3>1. PICK n \in 0 .. Scene, k \in 0 .. Blend :
            /\ Create(n, k, client)
            /\ IF k = Blend THEN stage' = "draw2D" /\ dirty' = FALSE
                            ELSE UNCHANGED <<stage, dirty>>
      BY <2>1 DEF FirstFrame
    <3>2. ~(client = 1 /\ k < Blend)
      BY <3>1, Zenon DEF Create
    <3> QED BY <3>1, <3>2
  <2> QED BY <2>1 DEF Paint, SkipFrame, FirstFrame, LaterFrame, Painting
<1>8. Draw2D => stage = "draw2D" /\ stage' = "draw3D"
  BY <1>1, <1>2 DEF Draw2D
<1>9. Draw3D => stage = "draw3D" /\ stage' = "present"
  BY <1>1, <1>2 DEF Draw3D
<1>10. Present => stage = "present" /\ stage' = "idle"
  BY DEF Present
<1>11. stage \in DOMAIN NextStage
  BY <1>3 DEF NextStage
<1>12. Paint \/ Draw2D \/ Draw3D \/ Present => stage' = NextStage[stage]
  BY <1>7, <1>8, <1>9, <1>10 DEF NextStage
<1>13. stage' \in {stage, NextStage[stage]}
  <2>1. CASE Paint \/ Draw2D \/ Draw3D \/ Present
    BY <1>12, <2>1
  <2>2. CASE SetHWnd \/ Remove \/ Stopped
    BY <2>2 DEF SetHWnd, Remove, Stopped, vars
  <2>3. ASSUME NEW c \in 0 .. 1, OnResize(c) PROVE stage' = stage
    BY <1>6, <2>3
  <2>4. CASE LayoutComponents \/ ShowDialog \/ CloseDialog \/ SetFPSEnable
    BY <2>4, UserInv
  <2> QED BY <2>1, <2>2, <2>3, <2>4 DEF Next
<1> QED BY <1>4, <1>11, <1>12, <1>13

\* While nothing fails, and what is displayed has its brushes, the parts of a
\* frame follow each other without a way out or a wait (see FrameAdvances):
\* with the fairness of each part this is the safety half of KeepsDrawing.
THEOREM Advances == Spec => FrameAdvances
<1> DEFINE Step == hwnd /\ client = 1 /\ client' = 1 /\ Drawable /\ Drawable' /\ ~failed' =>
       /\ stage \in DOMAIN NextStage
       /\ stage = "idle" => Painting
       /\ stage' \in {stage, NextStage[stage]}
       /\ Paint \/ Draw2D \/ Draw3D \/ Present => stage' = NextStage[stage]
<1>1. Inv /\ Waits /\ [Next]_vars => [Step]_vars
  BY StepAdvances
<1>2. Spec => []Waits
  BY InitWaits, NextWaits, PTL DEF Spec
<1> QED BY <1>1, <1>2, Invariance, PTL DEF Spec, FrameAdvances
=============================================================================
