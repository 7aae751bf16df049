------------------------------ MODULE UIProofs ------------------------------
(***************************************************************************)
(* The mouse on any set of elements.  The handlers touch the focus, the    *)
(* looks, the presses and the drags apart from one another, so that each   *)
(* part of the invariant is preserved by a lemma of its own.               *)
(***************************************************************************)
EXTENDS UI, TLAPS

\* What a point hits is a child of the side that is displayed.
LEMMA Hits ==
  ASSUME FlagsOK, NEW p \in Points
  PROVE  /\ Side \in Sides
         /\ Under[Side][p] \in Children \cup {Nothing}
         /\ dialog => Side = "dialog" /\ Under[Side][p] \in InDialog \cup {Nothing}
         /\ ~dialog => Side = "root" /\ Under[Side][p] \in Bars \cup {Nothing}
<1>1. CASE dialog
  BY <1>1, PointsAssumption DEF Side, Sides, Children
<1>2. CASE ~dialog
  BY <1>2, PointsAssumption DEF Side, Sides, Children
<1> QED BY <1>1, <1>2

-----------------------------------------------------------------------------
(* The focus.                                                              *)

\* The children that can have the focus.
Focusable == Fields \cup Radios \cup Buttons

\* A step leaves the focus alone or lets one child take it.
LEMMA FocusSteps ==
  ASSUME [Next]_vars
  PROVE  UNCHANGED keys \/ \E e \in Focusable : TakeFocus(e)
<1>1. ASSUME NEW p \in Client, LeftDown(p) \/ LeftDoubleClick(p)
      PROVE  UNCHANGED keys \/ \E e \in Focusable : TakeFocus(e)
  BY <1>1 DEF LeftDown, LeftDoubleClick, Press, Focusable
<1>2. ASSUME NEW p \in Points, LeftUp(p)
      PROVE  UNCHANGED keys \/ \E e \in Focusable : TakeFocus(e)
  BY <1>2 DEF LeftUp, Release, Fire, Focusable
<1>3. ASSUME NEW p \in Points, MouseMove(p)
      PROVE  UNCHANGED keys
  BY <1>3 DEF MouseMove
<1>4. CASE LeftUpFails \/ LoseUp \/ TimerFires \/ ShowDialog \/ UNCHANGED vars
  BY <1>4 DEF LeftUpFails, LoseUp, TimerFires, ShowDialog, vars
<1> QED BY <1>1, <1>2, <1>3, <1>4 DEF Next

\* Whoever takes the focus is the only one of its siblings to have it.
LEMMA FocusKept ==
  ASSUME KeysOK, KeysFollow, misled \in BOOLEAN,
         UNCHANGED keys \/ \E e \in Focusable : TakeFocus(e)
  PROVE  KeysOK' /\ KeysFollow' /\ misled' \in BOOLEAN
<1>1. CASE UNCHANGED keys
  BY <1>1 DEF keys, KeysOK, KeysFollow
<1>2. ASSUME NEW e \in Focusable, TakeFocus(e)
      PROVE  KeysOK' /\ KeysFollow' /\ misled' \in BOOLEAN
  <2>1. focus' \subseteq Focusable /\ latest' \in Children
    BY <1>2 DEF TakeFocus, FocusOf, KeysOK, Focusable, Children, InDialog
  <2>2. misled' \in BOOLEAN
    BY <1>2 DEF TakeFocus
  <2>3. CASE e \notin focus
    <3>1. focus' \ Radios \subseteq {e}
      BY <1>2, <2>3 DEF TakeFocus, FocusOf
    <3> QED BY <1>2, <2>1, <2>2, <3>1 DEF TakeFocus, KeysOK, KeysFollow, Focusable
  <2>4. CASE e \in focus /\ e \in Radios
    BY <1>2, <2>1, <2>2, <2>4 DEF TakeFocus, FocusOf, KeysOK, KeysFollow, Focusable
  <2>5. CASE e \in focus /\ e \notin Radios
    BY <1>2, <2>1, <2>2, <2>5 DEF TakeFocus, FocusOf, KeysOK, KeysFollow, Focusable
  <2> QED BY <2>3, <2>4, <2>5
<1> QED BY <1>1, <1>2

-----------------------------------------------------------------------------
(* The flags and the looks.                                                *)

\* What was pressed in the dialog got its release before the dialog closed.
Released == ~dialog => leftDownChild = Nothing

\* Every handler leaves its flags as flags.
LEMMA FlagsKept ==
  ASSUME FlagsOK, [Next]_vars, misled' \in BOOLEAN
  PROVE  FlagsOK'
<1>1. ASSUME NEW p \in Client, LeftDown(p) \/ LeftDoubleClick(p)
      PROVE  FlagsOK'
  BY <1>1 DEF LeftDown, LeftDoubleClick, FlagsOK
<1>2. ASSUME NEW p \in Points, LeftUp(p)
      PROVE  FlagsOK'
  <2>1. dialog' \in BOOLEAN
    BY <1>2 DEF LeftUp, Release, Fire, FlagsOK
  <2> QED BY <1>2, <2>1 DEF LeftUp, FlagsOK
<1>3. ASSUME NEW p \in Points, MouseMove(p)
      PROVE  FlagsOK'
  BY <1>3 DEF MouseMove, FlagsOK
<1>4. CASE LeftUpFails \/ LoseUp \/ TimerFires \/ ShowDialog \/ UNCHANGED vars
  BY <1>4 DEF LeftUpFails, LoseUp, TimerFires, ShowDialog, vars, FlagsOK
<1> QED BY <1>1, <1>2, <1>3, <1>4 DEF Next

\* A press that got no release is known as an orphan when the button is up.
Captured ==
  leftDownChild \in Buttons =>
    leftDownChild \in orphans \/ (down /\ leftDownChild = origin)

\* What a press does to the dialog.
LEMMA PressSteps ==
  ASSUME FlagsOK, PressesOK, LooksOK, LooksFollow, Captured, Released, ~down,
         NEW c \in Children \cup {Nothing}, Press(c),
         ~dialog => c \notin InDialog, dialog' = dialog,
         down' = TRUE, origin' = c, orphans' = orphans,
         mouseOverChild' = mouseOverChild
  PROVE  /\ LooksOK' /\ LooksFollow' /\ Captured' /\ Released'
         /\ leftDownChild' \in InDialog \cup {Nothing}
<1>1. leftDownChild' = IF c \in InDialog THEN c ELSE leftDownChild
  BY DEF Press
<1>2. leftDownChild' \in InDialog \cup {Nothing} /\ Released'
  BY <1>1 DEF PressesOK, Released
<1>3. Captured'
  BY <1>1 DEF Captured
<1>4. CASE c \in Buttons
  <2>1. look' = [look EXCEPT ![c] = "down"]
    BY <1>4, ChildrenAssumption DEF Press, InDialog
  <2>2. LooksOK'
    BY <2>1 DEF LooksOK
  <2>3. LooksFollow'
    BY <2>1, <1>1, <1>4 DEF LooksFollow, LooksOK, InDialog, Captured
  <2> QED BY <1>2, <1>3, <2>2, <2>3
<1>5. CASE c \notin Buttons
  <2>1. look' = look
    BY <1>5 DEF Press
  <2>2. LooksOK'
    BY <2>1 DEF LooksOK
  <2>3. ASSUME NEW b \in Buttons
        PROVE  /\ look[b] = "over" => mouseOverChild = b
               /\ look[b] = "down" => leftDownChild' = b \/ b \in orphans
    BY <1>1, <1>5 DEF LooksFollow, Captured
  <2>4. LooksFollow'
    BY <2>1, <2>3 DEF LooksFollow
  <2> QED BY <1>2, <1>3, <2>2, <2>4
<1> QED BY <1>4, <1>5

\* Each handler leaves the looks to the button under the pointer and to the
\* one that was pressed.
LEMMA LooksKept ==
  ASSUME FlagsOK, PressesOK, LooksOK, LooksFollow, Captured, Released,
         [Next]_vars
  PROVE  /\ LooksOK' /\ LooksFollow' /\ Captured' /\ Released'
         /\ leftDownChild' \in InDialog \cup {Nothing}
         /\ orphans' \subseteq Buttons
<1> DEFINE Kept == /\ LooksOK' /\ LooksFollow' /\ Captured' /\ Released'
                   /\ leftDownChild' \in InDialog \cup {Nothing}
                   /\ orphans' \subseteq Buttons
<1>1. ASSUME NEW p \in Client, LeftDown(p)
      PROVE  Kept
  <2>1. /\ Under[Side][p] \in Children \cup {Nothing}
        /\ ~dialog => Under[Side][p] \notin InDialog
    BY <1>1, Hits, PointsAssumption, ChildrenAssumption
  <2>2. orphans' \subseteq Buttons
    BY <1>1 DEF LeftDown, PressesOK
  <2> QED BY <1>1, <2>1, <2>2, PressSteps DEF LeftDown
<1>2. ASSUME NEW p \in Client, LeftDoubleClick(p)
      PROVE  Kept
  BY <1>2 DEF LeftDoubleClick, looks, LooksOK, LooksFollow, Captured, Released, PressesOK
<1>3. ASSUME NEW p \in Points, LeftUp(p)
      PROVE  Kept
  <2>1. mouseOverChild' = mouseOverChild
    BY <1>3 DEF LeftUp
  <2>2. CASE ~dialog
    <3>1. UNCHANGED <<leftDownChild, orphans, look, dialog>> /\ leftDownChild = Nothing
      BY <1>3, <2>2 DEF LeftUp, Release, Released
    <3>2. leftDownChild \notin Buttons
      BY <3>1, ChildrenAssumption DEF InDialog
    <3> QED BY <2>1, <3>1, <3>2 DEF LooksOK, LooksFollow, Captured, Released, PressesOK
  <2>3. CASE dialog
    <3>1. /\ leftDownChild' = Nothing
          /\ orphans' = orphans \ {leftDownChild}
          /\ look' = [b \in Buttons |-> IF b = leftDownChild THEN "normal" ELSE look[b]]
      BY <1>3, <2>3 DEF LeftUp, Release, AfterRelease
    <3>2. Nothing \notin Buttons
      BY ChildrenAssumption DEF InDialog
    <3>3. LooksOK'
      BY <2>1, <3>1 DEF LooksOK
    <3>4. LooksFollow'
      BY <2>1, <3>1 DEF LooksFollow, LooksOK
    <3> QED BY <3>1, <3>2, <3>3, <3>4 DEF Captured, Released, PressesOK
  <2> QED BY <2>2, <2>3
<1>4. ASSUME NEW p \in Points, MouseMove(p)
      PROVE  Kept
  <2>1. UNCHANGED <<down, dialog, leftDownChild, origin, orphans>>
    BY <1>4 DEF MouseMove, presses
  <2>2. CASE UNCHANGED looks
    BY <2>1, <2>2 DEF looks, LooksOK, LooksFollow, Captured, Released, PressesOK
  <2>3. CASE Hover(Under[Side][p])
    <3>1. LooksOK'
      BY <2>3 DEF Hover, LooksOK
    <3>2. LooksFollow'
      BY <2>1, <2>3 DEF Hover, LooksFollow, LooksOK
    <3> QED BY <2>1, <3>1, <3>2 DEF Captured, Released, PressesOK
  <2>4. CASE Leave
    <3>1. LooksOK'
      BY <2>4 DEF Leave, LooksOK
    <3>2. LooksFollow'
      BY <2>1, <2>4 DEF Leave, LooksFollow, LooksOK
    <3> QED BY <2>1, <3>1, <3>2 DEF Captured, Released, PressesOK
  <2>5. UNCHANGED looks \/ Hover(Under[Side][p]) \/ Leave
    BY <1>4 DEF MouseMove, MoveStarts, MoveDrags, MoveEnds, MoveHovers
  <2> QED BY <2>2, <2>3, <2>4, <2>5
<1>5. CASE LeftUpFails \/ LoseUp
  BY <1>5 DEF LeftUpFails, LoseUp, Orphaned, looks, LooksOK, LooksFollow,
              Captured, Released, PressesOK
<1>6. CASE TimerFires \/ UNCHANGED vars
  BY <1>6 DEF TimerFires, vars, looks, presses, LooksOK, LooksFollow,
              Captured, Released, PressesOK
<1>7. CASE ShowDialog
  BY <1>7 DEF ShowDialog, looks, presses, LooksOK, LooksFollow,
              Captured, Released, PressesOK
<1> QED BY <1>1, <1>2, <1>3, <1>4, <1>5, <1>6, <1>7 DEF Next

-----------------------------------------------------------------------------
(* The drags.                                                              *)

\* While no dialog is displayed, a drag begins on the child of the press.
Starts ==
  drag = "prepare" /\ down /\ ~dialog => Under["root"][lastPoint] = origin

\* The root keeps a child to drag only while the drag of its press lasts, or
\* when a drag was cut off.
DragKnown ==
  draggingChild["root"] # Nothing =>
    \/ "root" \in cut
    \/ drag = "dragging" /\ ~dialog /\ draggingChild["root"] = origin

\* The status of the drag and the places it begins and ends at.
PlacesOK ==
  /\ drag \in {"not", "prepare", "dragging"}
  /\ lastPoint \in Points \cup {Nothing}
  /\ drag = "prepare" => lastPoint \in Points
  /\ origin \in Children \cup {Nothing}

\* A scroll bar stays a page away from its end, wherever it is moved to.
LEMMA Ranges ==
  ASSUME NEW v \in Int
  PROVE  InRange(v) \in 0 .. MaxValue - PageSize
BY BarAssumption DEF InRange

\* A scroll bar is moved to an integer.
LEMMA Values ==
  ASSUME DragsOK, NEW c \in Bars, NEW v \in Int,
         value' = [value EXCEPT ![c] = InRange(v)]
  PROVE  value' \in [Bars -> 0 .. MaxValue - PageSize]
BY Ranges DEF DragsOK

\* A press moves at most the scroll bar it hits.
LEMMA PressMoves ==
  ASSUME FlagsOK, DragsOK, NEW c \in Children \cup {Nothing}, Press(c)
  PROVE  /\ value' \in [Bars -> 0 .. MaxValue - PageSize]
         /\ \A b \in Bars : value'[b] # value[b] => b = c
<1>1. CASE c \in Bars
  <2>1. PICK d \in Steps : value' = [value EXCEPT ![c] = InRange(@ + d)]
    BY <1>1, ChildrenAssumption DEF Press, InDialog
  <2>2. value[c] + d \in Int
    BY <1>1, BarAssumption DEF Steps, DragsOK
  <2>3. value' = [value EXCEPT ![c] = InRange(value[c] + d)]
    BY <2>1
  <2>4. value' \in [Bars -> 0 .. MaxValue - PageSize]
    BY <1>1, <2>2, <2>3, Values
  <2> QED BY <2>3, <2>4 DEF DragsOK
<1>2. CASE c \notin Bars
  <2>1. value' = value
    BY <1>2 DEF Press
  <2> QED BY <2>1 DEF DragsOK
<1> QED BY <1>1, <1>2

\* A drag, and its end, move at most the bar that is dragged on this side.
LEMMA DragMoves ==
  ASSUME FlagsOK, DragsOK, Drag \/ EndDrag
  PROVE  /\ value' \in [Bars -> 0 .. MaxValue - PageSize]
         /\ \A b \in Bars : value'[b] # value[b] =>
              ~dialog /\ b = draggingChild["root"]
<1> DEFINE c == draggingChild[Side]
<1>1. CASE value' = value
  BY <1>1 DEF DragsOK
<1>2. CASE c \in held /\ \E v \in Positions : value' = [value EXCEPT ![c] = InRange(v)]
  <2>1. PICK v \in Positions : value' = [value EXCEPT ![c] = InRange(v)]
    BY <1>2
  <2>2. v \in Int /\ c \in Bars
    BY <1>2, BarAssumption DEF DragsOK
  <2>3. value' \in [Bars -> 0 .. MaxValue - PageSize]
    BY <2>1, <2>2, Values
  <2>4. ~dialog
    BY <2>2, ChildrenAssumption DEF Side, DragsOK
  <2> QED BY <2>1, <2>3, <2>4 DEF Side, DragsOK
<1> QED BY <1>1, <1>2 DEF Drag, EndDrag

\* When the mouse button or the timer gives up a drag, the root knows it.
LEMMA TornKnown ==
  ASSUME DragsOK, PlacesOK, DragKnown
  PROVE  /\ Torn \subseteq Sides
         /\ draggingChild["root"] # Nothing => "root" \in Torn
BY DEF Torn, DragsOK, PlacesOK, DragKnown, Sides

\* The end of a drag lets go of the child of the side that is displayed.
LEMMA EndKnown ==
  ASSUME FlagsOK, DragsOK, DragKnown, EndDrag
  PROVE  DragsOK' /\ (draggingChild'["root"] # Nothing => "root" \in cut')
<1>1. value' \in [Bars -> 0 .. MaxValue - PageSize]
  BY DragMoves
<1>2. held' \subseteq Bars /\ cut' \subseteq Sides
  BY DEF EndDrag, DragsOK
<1>3. draggingChild' = [draggingChild EXCEPT ![Side] = Nothing]
  BY DEF EndDrag
<1>4. DragsOK'
  BY <1>1, <1>2, <1>3 DEF DragsOK, Sides
<1>5. CASE dialog
  BY <1>3, <1>4, <1>5 DEF Side, EndDrag, DragKnown, DragsOK, Sides
<1>6. CASE ~dialog
  BY <1>3, <1>4, <1>6 DEF Side, DragsOK, Sides
<1> QED BY <1>5, <1>6

\* The handlers, each with what it does to the drag.
LEMMA DragsKept ==
  ASSUME FlagsOK, PlacesOK, DragsOK, Starts, DragKnown, [Next]_vars
  PROVE  PlacesOK' /\ DragsOK' /\ Starts' /\ DragKnown'
<1> DEFINE Kept == PlacesOK' /\ DragsOK' /\ Starts' /\ DragKnown'
<1>1. ASSUME NEW p \in Client, LeftDown(p)
      PROVE  Kept
  <2>1. p \in Points /\ Under[Side][p] \in Children \cup {Nothing}
    BY <1>1, Hits, PointsAssumption
  <2>2. value' \in [Bars -> 0 .. MaxValue - PageSize]
    BY <1>1, <2>1, PressMoves DEF LeftDown
  <2>3. PlacesOK'
    BY <1>1, <2>1 DEF LeftDown, PlacesOK
  <2>4. DragsOK'
    BY <1>1, <2>2, TornKnown DEF LeftDown, DragsOK
  <2>5. Starts'
    BY <1>1 DEF LeftDown, Starts, Side
  <2>6. DragKnown'
    BY <1>1, TornKnown DEF LeftDown, DragKnown
  <2> QED BY <2>3, <2>4, <2>5, <2>6
<1>2. ASSUME NEW p \in Client, LeftDoubleClick(p)
      PROVE  Kept
  <2>1. PlacesOK' /\ Starts'
    BY <1>2 DEF LeftDoubleClick, PlacesOK, Starts
  <2> QED BY <1>2, <2>1, TornKnown DEF LeftDoubleClick, DragsOK, DragKnown, bars
<1>3. ASSUME NEW p \in Points, LeftUp(p)
      PROVE  Kept
  <2>1. PlacesOK' /\ Starts'
    BY <1>3 DEF LeftUp, PlacesOK, Starts
  <2>2. CASE drag = "dragging" /\ EndDrag
    BY <2>1, <2>2, EndKnown DEF DragKnown
  <2>3. CASE drag # "dragging" /\ UNCHANGED <<drags, bars>>
    BY <2>1, <2>3 DEF drags, bars, DragsOK, DragKnown
  <2> QED BY <1>3, <2>2, <2>3 DEF LeftUp
<1>4. ASSUME NEW p \in Points, MouseMove(p)
      PROVE  Kept
  <2>1. UNCHANGED <<down, dialog, origin>> /\ lastPoint' = p
    BY <1>4 DEF MouseMove, presses
  <2>2. CASE MoveStarts
    <3> DEFINE c == Under[Side][lastPoint]
    <3>1. lastPoint \in Points
      BY <2>2 DEF MoveStarts, PlacesOK
    <3>2. /\ dialog => Side = "dialog" /\ c \in InDialog \cup {Nothing}
          /\ ~dialog => Side = "root" /\ c \in Bars \cup {Nothing}
      BY <3>1, Hits
    <3>3. PlacesOK' /\ Starts'
      BY <2>1, <2>2 DEF MoveStarts, PlacesOK, Starts
    <3>4. /\ draggingChild' = IF c = Nothing THEN draggingChild
                              ELSE [draggingChild EXCEPT ![Side] = c]
          /\ cut' = IF c = Nothing THEN cut ELSE cut \ {Side}
          /\ held' \subseteq Bars /\ value' = value
      BY <2>2 DEF MoveStarts, StartDrag, DragsOK
    <3>5. CASE dialog
      <4>1. DragsOK'
        BY <3>2, <3>4, <3>5 DEF DragsOK, Sides, Children
      <4>2. draggingChild["root"] # Nothing => "root" \in cut
        BY <3>5 DEF DragKnown
      <4>3. DragKnown'
        BY <3>2, <3>4, <3>5, <4>2 DEF DragKnown, DragsOK, Sides
      <4> QED BY <3>3, <4>1, <4>3
    <3>6. CASE ~dialog
      <4>1. DragsOK'
        BY <3>2, <3>4, <3>6 DEF DragsOK, Sides, Children
      <4>2. c = origin /\ drag = "prepare" /\ drag' = "dragging"
        BY <2>2, <3>2, <3>6 DEF MoveStarts, Starts
      <4>3. DragKnown'
        BY <2>1, <3>2, <3>4, <3>6, <4>2 DEF DragKnown, DragsOK, Sides
      <4> QED BY <3>3, <4>1, <4>3
    <3> QED BY <3>5, <3>6
  <2>3. CASE MoveDrags
    <3>1. value' \in [Bars -> 0 .. MaxValue - PageSize]
      BY <2>3, DragMoves DEF MoveDrags
    <3> QED BY <2>1, <2>3, <3>1
            DEF MoveDrags, Drag, drags, PlacesOK, DragsOK, Starts, DragKnown
  <2>4. CASE MoveEnds
    <3>1. PlacesOK' /\ Starts'
      BY <2>1, <2>4 DEF MoveEnds, PlacesOK, Starts
    <3> QED BY <2>4, <3>1, EndKnown DEF MoveEnds, DragKnown
  <2>5. CASE MoveHovers(p)
    BY <2>1, <2>5 DEF MoveHovers, drags, bars, PlacesOK, DragsOK, Starts, DragKnown
  <2> QED BY <1>4, <2>2, <2>3, <2>4, <2>5 DEF MouseMove
<1>5. CASE LeftUpFails \/ LoseUp
  BY <1>5 DEF LeftUpFails, LoseUp, drags, bars, PlacesOK, DragsOK, Starts, DragKnown
<1>6. CASE TimerFires
  <2>1. PlacesOK' /\ Starts'
    BY <1>6 DEF TimerFires, presses, PlacesOK, Starts
  <2> QED BY <1>6, <2>1, TornKnown DEF TimerFires, bars, DragsOK, DragKnown
<1>7. CASE ShowDialog
  <2>1. PlacesOK' /\ Starts'
    BY <1>7 DEF ShowDialog, presses, PlacesOK, Starts
  <2> QED BY <1>7, <2>1, TornKnown DEF ShowDialog, bars, DragsOK, DragKnown
<1>8. CASE UNCHANGED vars
  BY <1>8 DEF vars, presses, drags, bars, PlacesOK, DragsOK, Starts, DragKnown
<1> QED BY <1>1, <1>2, <1>3, <1>4, <1>5, <1>6, <1>7, <1>8 DEF Next

-----------------------------------------------------------------------------
(* The invariant: a release that is lost is remembered by the orphans, a   *)
(* drag that is cut off by the sides that are cut.                         *)

IInv ==
  /\ TypeOK
  /\ KeysFollow
  /\ LooksFollow
  /\ Captured
  /\ Released
  /\ Starts
  /\ DragKnown

\* What LooksKept and DragsKept say of the presses together is their type.
LEMMA PressesAre ==
  PressesOK <=> /\ PlacesOK
                /\ leftDownChild \in InDialog \cup {Nothing}
                /\ orphans \subseteq Buttons
BY DEF PressesOK, PlacesOK

\* The program starts in it.
LEMMA InitIInv == Init => IInv
<1> SUFFICES ASSUME Init PROVE IInv
  OBVIOUS
<1>1. FlagsOK
  BY DEF Init, FlagsOK
<1>2. PressesOK /\ LooksOK /\ KeysOK
  BY DEF Init, PressesOK, LooksOK, KeysOK
<1>3. value \in [Bars -> 0 .. MaxValue - PageSize]
  BY BarAssumption DEF Init
<1>4. DragsOK
  BY <1>3 DEF Init, DragsOK, Sides
<1>5. KeysFollow /\ LooksFollow
  BY DEF Init, KeysFollow, LooksFollow
<1>6. Nothing \notin Buttons
  BY ChildrenAssumption DEF InDialog
<1>7. Captured /\ Released /\ Starts /\ DragKnown
  BY <1>6 DEF Init, Captured, Released, Starts, DragKnown, Sides
<1> QED BY <1>1, <1>2, <1>4, <1>5, <1>7 DEF IInv, TypeOK

\* It is preserved by every handler.
LEMMA NextIInv == IInv /\ [Next]_vars => IInv'
<1> SUFFICES ASSUME IInv, [Next]_vars PROVE IInv'
  OBVIOUS
<1>1. KeysOK' /\ KeysFollow' /\ misled' \in BOOLEAN
  BY FocusSteps, FocusKept DEF IInv, TypeOK, FlagsOK
<1>2. FlagsOK'
  BY <1>1, FlagsKept DEF IInv, TypeOK
<1>3. /\ LooksOK' /\ LooksFollow' /\ Captured' /\ Released'
      /\ leftDownChild' \in InDialog \cup {Nothing}
      /\ orphans' \subseteq Buttons
  BY LooksKept DEF IInv, TypeOK
<1>4. PlacesOK' /\ DragsOK' /\ Starts' /\ DragKnown'
  BY DragsKept, PressesAre DEF IInv, TypeOK
<1>5. PressesOK'
  BY <1>3, <1>4 DEF PressesOK, PlacesOK
<1> QED BY <1>1, <1>2, <1>3, <1>4, <1>5 DEF IInv, TypeOK

\* It holds always.
THEOREM Invariance == Spec => []IInv
BY InitIInv, NextIInv, PTL DEF Spec

\* Every variable keeps its type: a scroll bar stays in its range.
THEOREM Typing == Spec => []TypeOK
BY Invariance, PTL DEF IInv

\* Characters go to the child that was clicked last.
THEOREM Keys == Spec => []KeysFollow
BY Invariance, PTL DEF IInv

\* No button keeps the look of a pointer that has left it.
THEOREM Looks == Spec => []LooksFollow
BY Invariance, PTL DEF IInv

-----------------------------------------------------------------------------
(* What a step may do.                                                     *)

\* Only a release closes the dialog, over the button that was pressed.
LEMMA CloseStep ==
  ASSUME Captured, [Next]_vars, dialog, ~dialog'
  PROVE  leftDownChild \in Buttons /\ (leftDownChild = origin \/ leftDownChild \in orphans)
<1>1. ASSUME NEW p \in Client, LeftDown(p) \/ LeftDoubleClick(p)
      PROVE  FALSE
  BY <1>1 DEF LeftDown, LeftDoubleClick
<1>2. ASSUME NEW p \in Points, MouseMove(p)
      PROVE  FALSE
  BY <1>2 DEF MouseMove
<1>3. ASSUME NEW p \in Points, LeftUp(p)
      PROVE  leftDownChild \in Buttons
  BY <1>3 DEF LeftUp, Release
<1>4. CASE LeftUpFails \/ LoseUp \/ TimerFires \/ ShowDialog \/ UNCHANGED vars
  BY <1>4 DEF LeftUpFails, LoseUp, TimerFires, ShowDialog, vars
<1>5. leftDownChild \in Buttons
  BY <1>1, <1>2, <1>3, <1>4 DEF Next
<1> QED BY <1>5 DEF Captured

\* Only a press, a drag and its end move a scroll bar.
LEMMA MoveStep ==
  ASSUME FlagsOK, PressesOK, DragsOK, DragKnown, [Next]_vars,
         NEW b \in Bars, value'[b] # value[b]
  PROVE  ~dialog /\ (b = origin' \/ "root" \in cut)
<1>0. b # Nothing /\ b \notin InDialog
  BY ChildrenAssumption
<1>1. ASSUME NEW p \in Client, LeftDown(p)
      PROVE  ~dialog /\ b = origin'
  <2>1. /\ Under[Side][p] \in Children \cup {Nothing}
        /\ dialog => Under[Side][p] \in InDialog \cup {Nothing}
    BY <1>1, Hits, PointsAssumption
  <2>2. b = Under[Side][p]
    BY <1>1, <2>1, PressMoves DEF LeftDown
  <2> QED BY <1>0, <1>1, <2>1, <2>2 DEF LeftDown
<1>2. ASSUME Drag \/ EndDrag
      PROVE  ~dialog /\ (b = origin \/ "root" \in cut)
  BY <1>0, <1>2, DragMoves DEF DragKnown
<1>3. ASSUME NEW p \in Points, LeftUp(p)
      PROVE  origin' = origin /\ (Drag \/ EndDrag)
  BY <1>3 DEF LeftUp, bars
<1>4. ASSUME NEW p \in Points, MouseMove(p)
      PROVE  origin' = origin /\ (Drag \/ EndDrag)
  BY <1>4 DEF MouseMove, MoveStarts, StartDrag, MoveDrags, MoveEnds, MoveHovers,
              presses, bars
<1>5. ASSUME NEW p \in Client
      PROVE  ~LeftDoubleClick(p)
  BY DEF LeftDoubleClick, bars
<1>6. ~(LeftUpFails \/ LoseUp \/ TimerFires \/ ShowDialog \/ UNCHANGED vars)
  BY DEF LeftUpFails, LoseUp, TimerFires, ShowDialog, vars, bars
<1> QED BY <1>1, <1>2, <1>3, <1>4, <1>5, <1>6 DEF Next

\* The dialog closes as it was pressed to.
THEOREM Closes == Spec => ClosesAsPressed
<1>1. IInv /\ [Next]_vars =>
        [dialog /\ ~dialog' =>
           /\ leftDownChild \in Buttons
           /\ leftDownChild = origin \/ leftDownChild \in orphans]_vars
  BY CloseStep DEF IInv
<1> QED BY <1>1, Invariance, PTL DEF Spec, ClosesAsPressed

\* A scroll bar moves only under the hand that holds it.
THEOREM Moves == Spec => MovesWhatIsHeld
<1>1. IInv /\ [Next]_vars =>
        [\A b \in Bars : value'[b] # value[b] =>
           ~dialog /\ (b = origin' \/ "root" \in cut)]_vars
  BY MoveStep DEF IInv, TypeOK
<1> QED BY <1>1, Invariance, PTL DEF Spec, MovesWhatIsHeld
=============================================================================
