------------------------------- MODULE UI -------------------------------
(***************************************************************************)
(* The mouse on the canvas: touch/AbstractManipulationHelper.cpp turns     *)
(* window messages into presses, drags and hovering, ui/UIRoot.cpp sends   *)
(* them to the dialog while one is displayed and to its own children       *)
(* otherwise, and ui/UIContainer.cpp to the child under the pointer or to  *)
(* the child an earlier event was given to.  The children are those of the *)
(* program: scroll bars on the root; text fields, radio buttons, buttons   *)
(* and labels in the settings dialog.                                      *)
(*                                                                         *)
(* A handler is one action.  Children of a container do not overlap, so a  *)
(* point is known by the child it hits on either side.  What only the      *)
(* carets of text fields see is in TextStore, and what the buttons of the  *)
(* dialog do is in CanvasPanel.                                            *)
(***************************************************************************)
EXTENDS Integers

CONSTANTS
  Bars,       \* the scroll bars
  Fields,     \* the text fields
  Radios,     \* the radio buttons
  Group,      \* the group of each of them
  Buttons,    \* the buttons
  Closing,    \* those that always close the dialog, as Cancel does
  Labels,     \* labels, and a group beside its radio buttons
  Nothing,    \* no child
  Points,     \* where the pointer may be
  Client,     \* those in the client area
  Under,      \* the child at a point, on each side
  MaxValue,   \* of a scroll bar; the smallest value is 0
  PageSize,
  Positions   \* what a drag may ask a scroll bar for

Sides == {"root", "dialog"}
InDialog == Fields \cup Radios \cup Buttons \cup Labels

ASSUME ChildrenAssumption ==
  /\ Nothing \notin Bars \cup InDialog \cup Points
  /\ Bars \cap InDialog = {}
  /\ Buttons \cap (Fields \cup Radios \cup Labels) = {}
  /\ Fields \cap (Radios \cup Labels) = {} /\ Radios \cap Labels = {}
  /\ Closing \subseteq Buttons

ASSUME PointsAssumption ==
  /\ Client \subseteq Points
  /\ DOMAIN Under = Sides
  /\ Under["root"] \in [Points -> Bars \cup {Nothing}]
  /\ Under["dialog"] \in [Points -> InDialog \cup {Nothing}]

ASSUME BarAssumption ==
  /\ PageSize \in Nat /\ MaxValue \in Nat
  /\ PageSize <= MaxValue
  /\ Positions \subseteq Int

VARIABLES
  \* Windows and the helper
  down,            \* the left button is down
  drag,            \* m_draggingStatus
  lastPoint,       \* m_lastPoint
  timer,           \* the timer of the double click runs
  \* the containers
  dialog,          \* a dialog is displayed
  leftDownChild,   \* m_leftDownChild of the dialog
  draggingChild,   \* m_draggingChild of each side
  mouseOverChild,  \* m_mouseOverChild of the dialog
  \* their children
  value,           \* m_currentValue of a scroll bar
  held,            \* the scroll bars with m_dragging
  look,            \* m_status of a button
  focus,           \* the children with m_focus
  \* history
  origin,          \* the child the latest press began on
  orphans,         \* buttons that never got the release of a press
  cut,             \* sides whose drag ended without OnDraggingEnd
  latest,          \* the child that asked for the focus last
  misled           \* it was a radio button that had the focus already

bars == <<value, held>>
drags == <<draggingChild, cut>>
keys == <<focus, latest, misled>>
looks == <<mouseOverChild, look>>
presses == <<leftDownChild, origin, orphans>>
vars == <<down, drag, lastPoint, timer, dialog, presses, drags, looks, bars, keys>>

\* Every handler of UIRoot: the dialog that is displayed, or the root.
Side == IF dialog THEN "dialog" ELSE "root"

-----------------------------------------------------------------------------
(* The children.                                                           *)

\* Mutant: no page is left at the end.
NoPage(v) == IF v < 0 THEN 0 ELSE IF v > MaxValue THEN MaxValue ELSE v

\* MoveBarPosition and SetBarPosition.
InRange(v) ==
  IF v < 0 THEN 0 ELSE IF v + PageSize > MaxValue THEN MaxValue - PageSize ELSE v

\* OnLeftMouseDown of a scroll bar: half a page on an arrow, a page beside
\* the bar, nothing on the bar.
Steps == {- PageSize, - (PageSize \div 2), 0, PageSize \div 2, PageSize}

\* Mutant: a radio button tells nobody that it has the focus.
KeepsToItself(e) ==
  IF e \in focus THEN focus
  ELSE IF e \in Radios THEN focus \cup {e} ELSE (focus \cap Radios) \cup {e}

\* RequestFocus and NotifyFocusObtained up the parents: the siblings lose
\* the focus, but not the radio buttons in a sibling.
FocusOf(e) ==
  IF e \in focus THEN focus
  ELSE {r \in focus \cap Radios : e \in Radios => Group[r] # Group[e]} \cup {e}

TakeFocus(e) ==
  /\ focus' = FocusOf(e)
  /\ latest' = e
  /\ misled' = (e \in Radios /\ e \in focus)

\* A button that is released under the pointer runs its listeners: Cancel
\* closes the dialog, OK does unless it rejects what was entered.
Fire(b) ==
  /\ TakeFocus(b)
  /\ IF b \in Closing THEN dialog' = FALSE ELSE dialog' \in BOOLEAN
-----------------------------------------------------------------------------
(* UIContainer.                                                            *)

\* OnLeftMouseDown with the handlers of the children.  The child of an
\* earlier press stays when none is hit.
Press(c) ==
  /\ leftDownChild' = IF c \in InDialog THEN c ELSE leftDownChild
  /\ \/ /\ c \in Bars
        /\ \E d \in Steps : value' = [value EXCEPT ![c] = InRange(@ + d)]
        /\ UNCHANGED <<look, keys>>
     \/ /\ c \in Buttons
        /\ look' = [look EXCEPT ![c] = "down"]
        /\ UNCHANGED <<value, keys>>
     \/ /\ c \in Fields \cup Radios
        /\ TakeFocus(c)
        /\ UNCHANGED <<value, look>>
     \/ /\ c \in Labels \cup {Nothing}
        /\ UNCHANGED <<value, look, keys>>

\* Mutant: m_leftDownChild.reset() is forgotten.
StaysDown == leftDownChild

AfterRelease == Nothing

\* OnLeftMouseUp.  Of the children only buttons listen; those of the root do
\* not, so that its m_leftDownChild is left out.
Release(c) ==
  \/ /\ ~dialog
     /\ UNCHANGED <<leftDownChild, orphans, look, keys, dialog>>
  \/ /\ dialog
     /\ leftDownChild' = AfterRelease
     /\ orphans' = orphans \ {leftDownChild}
     /\ look' = [b \in Buttons |-> IF b = leftDownChild THEN "normal" ELSE look[b]]
     /\ IF leftDownChild \in Buttons /\ leftDownChild = c
        THEN Fire(c) ELSE UNCHANGED <<keys, dialog>>

\* OnDraggingStart: a scroll bar is held when the point is on its bar.
StartDrag(c) ==
  /\ draggingChild' = IF c = Nothing THEN draggingChild
                      ELSE [draggingChild EXCEPT ![Side] = c]
  /\ cut' = IF c = Nothing THEN cut ELSE cut \ {Side}
  /\ held' \in IF c \in Bars THEN {held, held \cup {c}} ELSE {held}
  /\ UNCHANGED value

\* OnDragging.
Drag ==
  LET c == draggingChild[Side] IN
  /\ IF c \in held
     THEN \E v \in Positions : value' = [value EXCEPT ![c] = InRange(v)]
     ELSE UNCHANGED value
  /\ UNCHANGED <<held, drags>>

\* OnDraggingEnd: a scroll bar moves once more when the bar is under the
\* pointer.
EndDrag ==
  LET c == draggingChild[Side] IN
  /\ \/ UNCHANGED value
     \/ /\ c \in held
        /\ \E v \in Positions : value' = [value EXCEPT ![c] = InRange(v)]
  /\ held' = held \ {c}
  /\ draggingChild' = [draggingChild EXCEPT ![Side] = Nothing]
  /\ cut' = cut \ {Side}

\* Mutant: the button the pointer left is not told.
Forgets(c) ==
  /\ mouseOverChild' = IF c \in Buttons THEN c ELSE Nothing
  /\ look' = [b \in Buttons |-> IF b = c THEN "over" ELSE look[b]]

\* OnMouseOver: OnMouseOut to the child before, OnMouseOver to this one.
\* Only a button takes the event; any other child is left again at once.
Hover(c) ==
  /\ mouseOverChild' = IF c \in Buttons THEN c ELSE Nothing
  /\ look' = [b \in Buttons |->
                IF b = c THEN "over"
                ELSE IF b = mouseOverChild THEN "normal" ELSE look[b]]

\* OnMouseOut.
Leave ==
  /\ mouseOverChild' = Nothing
  /\ look' = [b \in Buttons |-> IF b = mouseOverChild THEN "normal" ELSE look[b]]
-----------------------------------------------------------------------------
(* AbstractManipulationHelper.                                             *)

\* The drags that are given up now without OnDraggingEnd.
Torn ==
  IF drag = "dragging" THEN cut \cup {s \in Sides : draggingChild[s] # Nothing}
  ELSE cut

\* _OnLeftMouseDown.
LeftDown(p) ==
  /\ ~down
  /\ down' = TRUE
  /\ drag' = "prepare"
  /\ lastPoint' = p
  /\ Press(Under[Side][p])
  /\ origin' = Under[Side][p]
  /\ cut' = Torn
  /\ UNCHANGED <<timer, dialog, orphans, draggingChild, mouseOverChild, held>>

\* _OnLeftMouseDoubleClick, the second press at a place: no element listens
\* to it, and when the timer cannot be stopped they are not even asked.
LeftDoubleClick(p) ==
  /\ ~down /\ lastPoint = p
  /\ down' = TRUE
  /\ drag' = "not"
  /\ timer' = FALSE
  /\ origin' = Nothing
  /\ cut' = Torn
  /\ UNCHANGED <<lastPoint, dialog, leftDownChild, orphans, draggingChild, looks,
                 bars, keys>>

\* The release comes after a drag, or as a click that starts the timer.
LeftUp(p) ==
  /\ down
  /\ down' = FALSE
  /\ drag' = "not"
  /\ Release(Under[Side][p])
  /\ \/ drag = "dragging" /\ EndDrag /\ UNCHANGED timer
     \/ drag # "dragging" /\ timer' = TRUE /\ UNCHANGED <<drags, bars>>
  /\ UNCHANGED <<lastPoint, origin, mouseOverChild>>

Orphaned == orphans \cup ({leftDownChild} \cap Buttons)

\* SetTimer fails: the handler returns before anyone hears of the release.
LeftUpFails ==
  /\ down /\ drag # "dragging"
  /\ down' = FALSE
  /\ orphans' = Orphaned
  /\ UNCHANGED <<drag, lastPoint, timer, dialog, leftDownChild, origin, drags,
                 looks, bars, keys>>

\* The release goes to another window, or is lost with the capture.
LoseUp ==
  /\ down
  /\ down' = FALSE
  /\ orphans' = Orphaned
  /\ UNCHANGED <<drag, lastPoint, timer, dialog, leftDownChild, origin, drags,
                 looks, bars, keys>>

MoveStarts ==
  /\ down /\ drag = "prepare"
  /\ StartDrag(Under[Side][lastPoint])
  /\ drag' = "dragging"
  /\ UNCHANGED looks

MoveDrags ==
  /\ down /\ drag = "dragging"
  /\ Drag
  /\ UNCHANGED <<drag, looks>>

\* Mutant: a drag whose release was lost is just forgotten.
MoveForgets ==
  /\ ~down /\ drag = "dragging"
  /\ drag' = "not"
  /\ UNCHANGED <<drags, bars, looks>>

\* "WM_LBUTTONUP event has not been received".
MoveEnds ==
  /\ ~down /\ drag = "dragging"
  /\ EndDrag
  /\ drag' = "not"
  /\ UNCHANGED looks

MoveHovers(p) ==
  /\ drag = "not" \/ (drag = "prepare" /\ ~down)
  /\ drag' = "not"
  /\ IF ~dialog THEN UNCHANGED looks
     ELSE IF p \in Client THEN Hover(Under[Side][p]) ELSE Leave
  /\ UNCHANGED <<drags, bars>>

\* _OnMouseMove.
MouseMove(p) ==
  /\ MoveStarts \/ MoveDrags \/ MoveEnds \/ MoveHovers(p)
  /\ lastPoint' = p
  /\ UNCHANGED <<down, timer, dialog, presses, keys>>

\* _OnTimer: the single click, that no child listens to.
TimerFires ==
  /\ timer
  /\ timer' = FALSE
  /\ drag' = "not"
  /\ cut' = Torn
  /\ UNCHANGED <<down, lastPoint, dialog, presses, draggingChild, looks, bars, keys>>

\* ShowDialog, by a command of the ribbon: the keyboard can give it while
\* the mouse button is down.
ShowDialog ==
  /\ dialog' = TRUE
  /\ cut' = IF dialog THEN cut ELSE Torn
  /\ UNCHANGED <<down, drag, lastPoint, timer, presses, draggingChild, looks,
                 bars, keys>>
-----------------------------------------------------------------------------
Init ==
  /\ down = FALSE
  /\ drag = "not"
  /\ lastPoint = Nothing
  /\ timer = FALSE
  /\ dialog = FALSE
  /\ leftDownChild = Nothing
  /\ draggingChild = [s \in Sides |-> Nothing]
  /\ mouseOverChild = Nothing
  /\ value = [b \in Bars |-> 0]
  /\ held = {}
  /\ look = [b \in Buttons |-> "normal"]
  /\ focus = {}
  /\ origin = Nothing
  /\ orphans = {}
  /\ cut = {}
  /\ latest = Nothing
  /\ misled = FALSE

Next ==
  \/ \E p \in Client : LeftDown(p) \/ LeftDoubleClick(p)
  \/ \E p \in Points : LeftUp(p) \/ MouseMove(p)
  \/ LeftUpFails
  \/ LoseUp
  \/ TimerFires
  \/ ShowDialog

Spec == Init /\ [][Next]_vars
-----------------------------------------------------------------------------
(* Properties.                                                             *)

Children == Bars \cup InDialog

FlagsOK ==
  /\ down \in BOOLEAN /\ timer \in BOOLEAN /\ dialog \in BOOLEAN
  /\ misled \in BOOLEAN

PressesOK ==
  /\ drag \in {"not", "prepare", "dragging"}
  /\ lastPoint \in Points \cup {Nothing}
  /\ drag = "prepare" => lastPoint \in Points
  /\ leftDownChild \in InDialog \cup {Nothing}
  /\ origin \in Children \cup {Nothing}
  /\ orphans \subseteq Buttons

DragsOK ==
  /\ draggingChild \in [Sides -> Children \cup {Nothing}]
  /\ draggingChild["root"] \in Bars \cup {Nothing}
  /\ draggingChild["dialog"] \in InDialog \cup {Nothing}
  /\ cut \subseteq Sides
  /\ held \subseteq Bars
  /\ value \in [Bars -> 0 .. MaxValue - PageSize]

LooksOK ==
  /\ mouseOverChild \in Buttons \cup {Nothing}
  /\ look \in [Buttons -> {"normal", "down", "over"}]

KeysOK ==
  /\ focus \subseteq Fields \cup Radios \cup Buttons
  /\ latest \in Children \cup {Nothing}

\* Every variable has a value the code can give it; a scroll bar stays a page
\* away from its end however it is moved.
TypeOK == FlagsOK /\ PressesOK /\ DragsOK /\ LooksOK /\ KeysOK

\* UIContainer::OnChar gives characters to the first child with the focus:
\* there is never a second one, and it is the one that was clicked last,
\* unless that was a radio button that had kept a focus it did not have.
KeysFollow ==
  /\ \A d, e \in focus \ Radios : d = e
  /\ \A e \in focus \ Radios : e = latest \/ misled

\* A button that looks as if the pointer were on it is the one that will be
\* told when the pointer leaves, also after the dialog was closed and opened
\* again; one that looks pressed is the one that will get the release, or its
\* release was lost.
LooksFollow ==
  \A b \in Buttons :
    /\ look[b] = "over" => mouseOverChild = b
    /\ look[b] = "down" => leftDownChild = b \/ b \in orphans

\* The dialog is closed only by a press that began on the button it ends on,
\* or on a button that never got the release of an earlier press.
ClosesAsPressed ==
  [][dialog /\ ~dialog' =>
       /\ leftDownChild \in Buttons
       /\ leftDownChild = origin \/ leftDownChild \in orphans]_vars

\* A scroll bar, and with it the view, moves only while no dialog is displayed,
\* and only by a press on it or a drag that began on it, unless an earlier
\* drag of it was cut off: by the timer of a click just before, or by a dialog.
MovesWhatIsHeld ==
  [][\A b \in Bars : value'[b] # value[b] =>
       ~dialog /\ (b = origin' \/ "root" \in cut)]_vars
=============================================================================
