--------------------------- MODULE TextStoreProofs ---------------------------
(***************************************************************************)
(* The text store for texts of any length.  Each conjunct of the invariant *)
(* is preserved on its own account, but for the selection and the crash,   *)
(* which need the types.                                                   *)
(***************************************************************************)
EXTENDS TextStore, TLAPS

\* The steps Next is made of, below the choice of what is typed or asked for.
Steps ==
  \/ Type \/ Backspace \/ Delete \/ CursorLeft \/ CursorRight \/ OnMouseEvent
  \/ \E kind \in {"read", "write"} : RequestLock(kind)
  \/ RequestUpgrade
  \/ \E s, e \in Positions, a \in Ends : s <= e /\ SetSelection(s, e, a)
  \/ \E n \in 0 .. MaxLength : InsertTextAtSelection(n)
  \/ \E s, e \in Positions, n \in 0 .. MaxLength : s <= e /\ ServiceSetText(s, e, n)
  \/ \E n \in 0 .. MaxLength : SetText(n)
  \/ Unlock
  \/ Render

\* A step of the specification is one of these or changes nothing.
LEMMA StepsAreNext == [Next]_vars => Steps \/ UNCHANGED vars
BY DEF Next, AppNext, ServiceNext, Steps, Ended

\* The positions the service may name are positions of some text.
LEMMA PositionsAreNumbers == NumbersOK => \A p \in Positions : p \in 0 .. MaxLength
BY MaxLengthAssumption DEF NumbersOK, Positions

-----------------------------------------------------------------------------
(* Types.                                                                  *)

\* The selection never has a start after its end inside the text; where it
\* has, no edit gets through.  This and the numbers go together.
Straight == acpStart <= acpEnd \/ (text < acpStart /\ text <= acpEnd)

\* Text, layout and selection stay numbers within the bound.
LEMMA NumbersKept ==
  ASSUME NumbersOK, Straight, Steps \/ UNCHANGED vars
  PROVE  NumbersOK' /\ Straight'
<1> USE MaxLengthAssumption DEF NumbersOK, Straight
<1>1. CASE Type
  <2>1. CASE Edit(acpStart, acpEnd, acpEnd - acpStart, 1, acpStart + 1, acpStart + 1)
    BY <2>1 DEF Edit, AppLocks, Select, Spliced, Least
  <2>2. CASE EditThrows(acpStart)
    BY <2>2 DEF EditThrows, AppLocks, document
  <2> QED BY <1>1, <2>1, <2>2 DEF Type
<1>2. CASE Backspace
  <2>1. CASE acpStart > 0 /\ Edit(acpStart - 1, acpStart, 1, 0, acpStart - 1, acpStart - 1)
    BY <2>1 DEF Edit, AppLocks, Select, Spliced, Least
  <2>2. CASE Edit(acpStart, acpEnd, acpEnd - acpStart, 0, acpStart, acpStart)
    BY <2>2 DEF Edit, AppLocks, Select, Spliced, Least
  <2>3. CASE EditThrows(acpStart) \/ EditThrows(acpStart - 1) \/ NoEdit
    BY <2>3 DEF EditThrows, NoEdit, AppLocks, document
  <2> QED BY <1>2, <2>1, <2>2, <2>3 DEF Backspace, EraseOne, EraseSelection
<1>3. CASE Delete
  <2>1. CASE acpStart = acpEnd /\ acpStart < text /\ Edit(acpStart, acpStart + 1, 1, 0, acpStart, acpEnd)
    BY <2>1 DEF Edit, AppLocks, Select, Spliced, Least
  <2>2. CASE Edit(acpStart, acpEnd, acpEnd - acpStart, 0, acpStart, acpEnd)
    BY <2>2 DEF Edit, AppLocks, Select, Spliced, Least
  <2>3. CASE EditThrows(acpStart) \/ NoEdit
    BY <2>3 DEF EditThrows, NoEdit, AppLocks, document
  <2> QED BY <1>3, <2>1, <2>2, <2>3 DEF Delete
<1>4. CASE CursorLeft
  BY <1>4 DEF CursorLeft, Before, Move, AppLocks, Select
<1>5. CASE CursorRight
  BY <1>5 DEF CursorRight, After, Least, Move, AppLocks, Select
<1>6. CASE OnMouseEvent
  <2>1. CASE NoEdit
    BY <2>1 DEF NoEdit, AppLocks, document
  <2>2. ASSUME NEW p \in 0 .. layout - 1 \cup {text}, NEW q \in 0 .. layout - 1 \cup {text},
               (p < q /\ Move(p, q, "end")) \/ (p >= q /\ Move(q, p, "start"))
        PROVE  NumbersOK' /\ Straight'
    BY <2>2 DEF Move, AppLocks, Select
  <2> QED BY <1>6, <2>1, <2>2 DEF OnMouseEvent
<1>7. ASSUME NEW kind \in {"read", "write"}, RequestLock(kind)
      PROVE  NumbersOK' /\ Straight'
  BY <1>7 DEF RequestLock, document
<1>8. CASE RequestUpgrade \/ Unlock \/ Render \/ UNCHANGED vars
  BY <1>8 DEF RequestUpgrade, Unlock, Render, document, vars
<1>9. ASSUME NEW s \in Positions, NEW e \in Positions, NEW a \in Ends, s <= e, SetSelection(s, e, a)
      PROVE  NumbersOK' /\ Straight'
  BY <1>9, PositionsAreNumbers DEF SetSelection, InSession, Select
<1>10. ASSUME NEW n \in 0 .. MaxLength, InsertTextAtSelection(n)
       PROVE  NumbersOK' /\ Straight'
  BY <1>10 DEF InsertTextAtSelection, InSession, Insert, selection, Spliced, Least
<1>11. ASSUME NEW s \in Positions, NEW e \in Positions, NEW n \in 0 .. MaxLength, s <= e,
              ServiceSetText(s, e, n)
       PROVE  NumbersOK' /\ Straight'
  <2>1. s \in 0 .. MaxLength /\ e \in 0 .. MaxLength
    BY PositionsAreNumbers
  <2> QED BY <1>11, <2>1 DEF ServiceSetText, InSession, Insert, Select, Spliced, Least
<1>12. ASSUME NEW n \in 0 .. MaxLength, SetText(n)
       PROVE  NumbersOK' /\ Straight'
  BY <1>12 DEF SetText, Select
<1> QED BY <1>1, <1>2, <1>3, <1>4, <1>5, <1>6, <1>7, <1>8, <1>9, <1>10, <1>11, <1>12 DEF Steps

\* The flags.
LEMMA FlagsKept ==
  ASSUME FlagsOK, Steps \/ UNCHANGED vars
  PROVE  FlagsOK'
<1>1. ASSUME NEW s, NEW e, NEW gone, NEW n, NEW a, NEW b, Edit(s, e, gone, n, a, b), loose' \in BOOLEAN
      PROVE  FlagsOK'
  BY <1>1 DEF FlagsOK, Edit, AppLocks, Report
<1>2. ASSUME NEW s, EditThrows(s) PROVE FlagsOK'
  BY <1>2 DEF FlagsOK, EditThrows, AppLocks, document
<1>3. CASE NoEdit
  BY <1>3 DEF FlagsOK, NoEdit, AppLocks, document
<1>4. ASSUME NEW s, NEW e, NEW a, Move(s, e, a), loose' \in BOOLEAN
      PROVE  FlagsOK'
  BY <1>4 DEF FlagsOK, Move, AppLocks
<1>5. CASE Type
  BY <1>1, <1>2, <1>5 DEF Type
<1>6. CASE Backspace
  BY <1>1, <1>2, <1>3, <1>6 DEF Backspace, EraseOne, EraseSelection
<1>7. CASE Delete
  BY <1>1, <1>2, <1>3, <1>7 DEF Delete, FlagsOK
<1>8. CASE CursorLeft
  BY <1>4, <1>8 DEF CursorLeft, FlagsOK
<1>9. CASE CursorRight
  BY <1>4, <1>9 DEF CursorRight, FlagsOK
<1>10. CASE OnMouseEvent
  BY <1>3, <1>4, <1>10 DEF OnMouseEvent
<1>11. ASSUME NEW kind, RequestLock(kind) PROVE FlagsOK'
  BY <1>11 DEF FlagsOK, RequestLock, document
<1>12. CASE RequestUpgrade
  BY <1>12 DEF FlagsOK, RequestUpgrade, document
<1>13. ASSUME NEW s, NEW e, NEW n, Insert(s, e, n), InSession, loose' \in BOOLEAN
       PROVE  FlagsOK'
  BY <1>13 DEF FlagsOK, Insert, InSession, Report
<1>14. ASSUME NEW s, NEW e, NEW a, SetSelection(s, e, a) PROVE FlagsOK'
  BY <1>14 DEF FlagsOK, SetSelection, InSession
<1>15. ASSUME NEW n, InsertTextAtSelection(n) PROVE FlagsOK'
  BY <1>13, <1>15 DEF InsertTextAtSelection
<1>16. ASSUME NEW s, NEW e, NEW n, ServiceSetText(s, e, n) PROVE FlagsOK'
  <2>1. loose' \in BOOLEAN
    BY <1>16 DEF ServiceSetText
  <2>2. CASE Insert(s, e, n)
    BY <1>13, <1>16, <2>1, <2>2 DEF ServiceSetText
  <2>3. CASE UNCHANGED <<text, synced, layoutChanged, textChanged>>
    BY <1>16, <2>1, <2>3 DEF FlagsOK, ServiceSetText, InSession
  <2> QED BY <1>16, <2>2, <2>3 DEF ServiceSetText
<1>17. ASSUME NEW n, SetText(n) PROVE FlagsOK'
  BY <1>17 DEF FlagsOK, SetText
<1>18. CASE Unlock
  BY <1>18 DEF FlagsOK, Unlock, document
<1>19. CASE Render
  BY <1>19 DEF FlagsOK, Render, document
<1>20. CASE UNCHANGED vars
  BY <1>20 DEF FlagsOK, vars
<1> QED BY <1>5, <1>6, <1>7, <1>8, <1>9, <1>10, <1>11, <1>12, <1>14, <1>15, <1>16, <1>17, <1>18, <1>19, <1>20 DEF Steps

\* The lock and the end of the selection that holds the caret.
LEMMA LockKept ==
  ASSUME LockOK, activeEnd \in Ends, Steps \/ UNCHANGED vars
  PROVE  LockOK' /\ activeEnd' \in Ends
<1> USE DEF LockOK, Ends
<1>1. CASE Type
  BY <1>1 DEF Type, Edit, EditThrows, AppLocks, Select, document
<1>2. CASE Backspace
  BY <1>2 DEF Backspace, EraseOne, EraseSelection, NoEdit, Edit, EditThrows, AppLocks, Select, document
<1>3. CASE Delete
  BY <1>3 DEF Delete, NoEdit, Edit, EditThrows, AppLocks, Select, document
<1>4. CASE CursorLeft
  BY <1>4 DEF CursorLeft, Move, AppLocks, Select
<1>5. CASE CursorRight
  BY <1>5 DEF CursorRight, Move, AppLocks, Select
<1>6. CASE OnMouseEvent
  BY <1>6 DEF OnMouseEvent, NoEdit, Move, AppLocks, Select, document
<1>7. ASSUME NEW kind \in {"read", "write"}, RequestLock(kind)
      PROVE  LockOK' /\ activeEnd' \in Ends
  BY <1>7 DEF RequestLock, document
<1>8. CASE RequestUpgrade \/ Unlock \/ Render \/ UNCHANGED vars
  BY <1>8 DEF RequestUpgrade, Unlock, Render, document, vars
<1>9. ASSUME NEW s, NEW e, NEW a \in Ends, SetSelection(s, e, a)
      PROVE  LockOK' /\ activeEnd' \in Ends
  BY <1>9 DEF SetSelection, InSession, Select
<1>10. ASSUME NEW n, InsertTextAtSelection(n)
       PROVE  LockOK' /\ activeEnd' \in Ends
  BY <1>10 DEF InsertTextAtSelection, InSession, selection
<1>11. ASSUME NEW s, NEW e, NEW n, ServiceSetText(s, e, n)
       PROVE  LockOK' /\ activeEnd' \in Ends
  BY <1>11 DEF ServiceSetText, InSession, Select
<1>12. ASSUME NEW n, SetText(n)
       PROVE  LockOK' /\ activeEnd' \in Ends
  BY <1>12 DEF SetText, Select
<1> QED BY <1>1, <1>2, <1>3, <1>4, <1>5, <1>6, <1>7, <1>8, <1>9, <1>10, <1>11, <1>12 DEF Steps

-----------------------------------------------------------------------------
(* The selection.                                                          *)

\* A selection that is not loose after a step lies in the text after it.
LEMMA SelectionKept ==
  ASSUME NumbersOK, Straight, FlagsOK, SelectionInText, Steps \/ UNCHANGED vars
  PROVE  SelectionInText'
<1> SUFFICES ASSUME ~loose' PROVE acpStart' <= acpEnd' /\ acpEnd' <= text'
  BY DEF SelectionInText
<1> DEFINE Within == acpStart <= acpEnd /\ acpEnd <= text
<1> USE MaxLengthAssumption DEF NumbersOK
<1>a. ~loose => Within
  BY DEF SelectionInText
<1>1. CASE Type
  <2>1. CASE Edit(acpStart, acpEnd, acpEnd - acpStart, 1, acpStart + 1, acpStart + 1)
    BY <2>1 DEF Edit, AppLocks, Select, Spliced, Least, Straight
  <2>2. CASE EditThrows(acpStart)
    BY <2>2, <1>a DEF EditThrows, AppLocks, document
  <2> QED BY <1>1, <2>1, <2>2 DEF Type
<1>2. CASE Backspace
  <2>1. CASE acpStart > 0 /\ Edit(acpStart - 1, acpStart, 1, 0, acpStart - 1, acpStart - 1)
    BY <2>1 DEF Edit, AppLocks, Select, Spliced, Least
  <2>2. CASE Edit(acpStart, acpEnd, acpEnd - acpStart, 0, acpStart, acpStart)
    BY <2>2 DEF Edit, AppLocks, Select, Spliced, Least, Straight
  <2>3. CASE EditThrows(acpStart) \/ EditThrows(acpStart - 1) \/ NoEdit
    BY <2>3, <1>a DEF EditThrows, NoEdit, AppLocks, document
  <2> QED BY <1>2, <2>1, <2>2, <2>3 DEF Backspace, EraseOne, EraseSelection
<1>3. CASE Delete
  <2>1. CASE acpStart = acpEnd /\ acpStart < text /\ Edit(acpStart, acpStart + 1, 1, 0, acpStart, acpEnd)
    BY <2>1 DEF Edit, AppLocks, Select, Spliced, Least
  <2>2. CASE EditThrows(acpStart) \/ NoEdit
    BY <2>2, <1>a DEF EditThrows, NoEdit, AppLocks, document
  <2> QED BY <1>3, <2>1, <2>2 DEF Delete
<1>4. CASE CursorLeft
  <2>1. ~loose
    BY <1>4 DEF CursorLeft
  <2> QED BY <1>4, <2>1, <1>a DEF CursorLeft, Before, Move, AppLocks, Select
<1>5. CASE CursorRight
  <2>1. ~loose
    BY <1>5 DEF CursorRight
  <2> QED BY <1>5, <2>1, <1>a DEF CursorRight, After, Least, Move, AppLocks, Select
<1>6. CASE OnMouseEvent
  <2>1. CASE NoEdit
    BY <2>1, <1>a DEF NoEdit, document
  <2>2. ASSUME NEW p \in 0 .. layout - 1 \cup {text}, NEW q \in 0 .. layout - 1 \cup {text},
               (p < q /\ Move(p, q, "end")) \/ (p >= q /\ Move(q, p, "start")), loose' = (layout # text)
        PROVE  acpStart' <= acpEnd' /\ acpEnd' <= text'
    <3>1. layout = text
      BY <2>2
    <3> QED BY <2>2, <3>1 DEF Move, Select
  <2> QED BY <1>6, <2>1, <2>2 DEF OnMouseEvent
<1>7. ASSUME NEW kind, RequestLock(kind)
      PROVE  acpStart' <= acpEnd' /\ acpEnd' <= text'
  BY <1>7, <1>a DEF RequestLock, document
<1>8. CASE RequestUpgrade \/ Unlock \/ Render \/ UNCHANGED vars
  BY <1>8, <1>a DEF RequestUpgrade, Unlock, Render, document, vars
<1>9. ASSUME NEW s \in Positions, NEW e \in Positions, NEW a, s <= e, SetSelection(s, e, a)
      PROVE  acpStart' <= acpEnd' /\ acpEnd' <= text'
  <2>1. synced
    BY <1>9 DEF SetSelection, FlagsOK
  <2> QED BY <1>9, <2>1 DEF SetSelection, Select, Positions
<1>10. ASSUME NEW n \in 0 .. MaxLength, InsertTextAtSelection(n)
       PROVE  acpStart' <= acpEnd' /\ acpEnd' <= text'
  <2>1. ~loose /\ ~(n < acpEnd - acpStart)
    BY <1>10 DEF InsertTextAtSelection
  <2> QED BY <1>10, <2>1, <1>a DEF InsertTextAtSelection, Insert, selection, Spliced, Least
<1>11. ASSUME NEW s \in Positions, NEW e \in Positions, NEW n \in 0 .. MaxLength, s <= e,
              ServiceSetText(s, e, n)
       PROVE  acpStart' <= acpEnd' /\ acpEnd' <= text'
  <2>1. synced /\ ~(n < e - s)
    BY <1>11 DEF ServiceSetText, FlagsOK
  <2>2. s \in 0 .. text /\ e \in 0 .. text
    BY <2>1 DEF Positions
  <2>3. acpStart' = s /\ acpEnd' = e
    BY <1>11 DEF ServiceSetText, Select
  <2>4. Insert(s, e, n) => e <= text'
    BY <2>1, <2>2 DEF Insert, Spliced, Least
  <2>5. Insert(s, e, n) \/ text' = text
    BY <1>11 DEF ServiceSetText
  <2> QED BY <1>11, <2>2, <2>3, <2>4, <2>5
<1>12. ASSUME NEW n \in 0 .. MaxLength, SetText(n)
       PROVE  acpStart' <= acpEnd' /\ acpEnd' <= text'
  BY <1>12 DEF SetText, Select
<1> QED BY <1>1, <1>2, <1>3, <1>4, <1>5, <1>6, <1>7, <1>8, <1>9, <1>10, <1>11, <1>12 DEF Steps

\* An edit that throws starts behind the text, which only a loose selection does.
LEMMA ThrowsKept ==
  ASSUME NumbersOK, FlagsOK, SelectionInText, OnlyLooseThrows, Steps \/ UNCHANGED vars
  PROVE  OnlyLooseThrows'
<1> USE MaxLengthAssumption
<1>1. ASSUME NEW s \in {acpStart, acpStart - 1}, EditThrows(s) PROVE loose'
  <2>1. s > text /\ loose' = loose
    BY <1>1 DEF EditThrows, document
  <2>2. loose
    BY <2>1 DEF NumbersOK, SelectionInText
  <2> QED BY <2>1, <2>2
<1>2. CASE Steps
  <2>1. ~crashed
    BY <1>2 DEF Steps, Type, Backspace, Delete, CursorLeft, CursorRight, OnMouseEvent, EraseOne, EraseSelection,
                Edit, EditThrows, NoEdit, Move, AppLocks, RequestLock, RequestUpgrade, SetSelection,
                InsertTextAtSelection, ServiceSetText, InSession, SetText, Unlock, Render
  <2>2. \/ EditThrows(acpStart) \/ EditThrows(acpStart - 1)
        \/ UNCHANGED crashed
    BY <1>2 DEF Steps, Type, Backspace, Delete, CursorLeft, CursorRight, OnMouseEvent, EraseOne, EraseSelection,
                Edit, NoEdit, Move, RequestLock, RequestUpgrade, SetSelection,
                InsertTextAtSelection, ServiceSetText, InSession, SetText, Unlock, Render
  <2> QED BY <1>1, <2>1, <2>2 DEF OnlyLooseThrows
<1>3. CASE UNCHANGED vars
  BY <1>3 DEF vars, OnlyLooseThrows
<1> QED BY <1>2, <1>3

-----------------------------------------------------------------------------
(* The layout.                                                             *)

\* A step that changes the text marks the layout as old.
LEMMA LayoutKept ==
  ASSUME FlagsOK, LayoutFollows, Steps \/ UNCHANGED vars
  PROVE  LayoutFollows'
<1>1. \/ textChanged'
      \/ UNCHANGED <<text, layout>> /\ (textChanged => textChanged')
      \/ Render
      \/ UNCHANGED vars
  <2>1. CASE Type
    BY <2>1 DEF Type, Edit, EditThrows, AppLocks, document
  <2>2. CASE Backspace
    BY <2>2 DEF Backspace, EraseOne, EraseSelection, Edit, EditThrows, NoEdit, AppLocks, document
  <2>3. CASE Delete
    BY <2>3 DEF Delete, Edit, EditThrows, NoEdit, AppLocks, document
  <2>4. CASE CursorLeft
    BY <2>4 DEF CursorLeft, Move, AppLocks
  <2>5. CASE CursorRight
    BY <2>5 DEF CursorRight, Move, AppLocks
  <2>6. CASE OnMouseEvent
    BY <2>6 DEF OnMouseEvent, NoEdit, Move, AppLocks, document
  <2>7. CASE \E kind \in {"read", "write"} : RequestLock(kind)
    BY <2>7 DEF RequestLock, document
  <2>8. CASE RequestUpgrade
    BY <2>8 DEF RequestUpgrade, document
  <2>9. CASE \E s, e \in Positions, a \in Ends : s <= e /\ SetSelection(s, e, a)
    BY <2>9 DEF SetSelection, InSession
  <2>10. CASE \E n \in 0 .. MaxLength : InsertTextAtSelection(n)
    BY <2>10 DEF InsertTextAtSelection, Insert
  <2>11. CASE \E s, e \in Positions, n \in 0 .. MaxLength : s <= e /\ ServiceSetText(s, e, n)
    BY <2>11 DEF ServiceSetText, Insert, InSession
  <2>12. CASE \E n \in 0 .. MaxLength : SetText(n)
    BY <2>12 DEF SetText
  <2>13. CASE Unlock
    <3>1. textChanged => textChanged'
      BY <2>13 DEF Unlock
    <3> QED BY <2>13, <3>1 DEF Unlock, document
  <2> QED BY <2>1, <2>2, <2>3, <2>4, <2>5, <2>6, <2>7, <2>8, <2>9, <2>10, <2>11, <2>12, <2>13 DEF Steps
<1>2. CASE UNCHANGED <<text, layout>> /\ (textChanged => textChanged')
  BY <1>2 DEF LayoutFollows
<1>3. CASE Render
  BY <1>3 DEF LayoutFollows, Render, document
<1>4. CASE UNCHANGED vars
  BY <1>4 DEF LayoutFollows, vars
<1> QED BY <1>1, <1>2, <1>3, <1>4 DEF LayoutFollows

-----------------------------------------------------------------------------
(* The reports.                                                            *)

\* One step: only SetText, or an edit of a loose selection, goes unreported.
LEMMA ReportsStep ==
  ASSUME NumbersOK, FlagsOK, SelectionInText, Steps \/ UNCHANGED vars
  PROVE  synced => synced' \/ loose \/ \E n \in 0 .. MaxLength : SetText(n)
<1> SUFFICES ASSUME synced, ~loose, ~\E n \in 0 .. MaxLength : SetText(n)
             PROVE  synced'
  OBVIOUS
<1>a. acpStart <= acpEnd /\ acpEnd <= text
  BY DEF SelectionInText
<1> USE MaxLengthAssumption DEF NumbersOK
<1>b. ASSUME NEW s \in Int, NEW e \in Int, NEW gone \in Int, NEW n \in Int, NEW a, NEW b,
             Edit(s, e, gone, n, a, b), e <= text, s + gone = e
      PROVE  synced'
  <2>1. s + gone <= text /\ text' = text + n - ((s + gone) - s)
    BY <1>b DEF Edit, Spliced, Least
  <2> QED BY <2>1, <1>b DEF Edit, Report
<1>c. ASSUME NEW s, EditThrows(s) PROVE synced'
  BY <1>c DEF EditThrows, document
<1>d. ASSUME NEW s \in 0 .. text, NEW e \in 0 .. text, NEW n \in Int, Insert(s, e, n)
      PROVE  synced'
  <2>1. e <= text /\ text' = text + n - (e - s)
    BY <1>d DEF Insert, Spliced, Least
  <2> QED BY <2>1, <1>d DEF Insert, Report
<1>e. /\ acpStart \in Int /\ acpEnd \in Int /\ acpEnd - acpStart \in Int
      /\ acpStart + (acpEnd - acpStart) = acpEnd
      /\ acpStart - 1 \in Int /\ (acpStart - 1) + 1 = acpStart
      /\ acpStart + 1 \in Int /\ acpStart <= text
      /\ acpStart < text => acpStart + 1 <= text
      /\ 0 \in Int /\ 1 \in Int
  BY <1>a
<1>1. CASE Type
  <2>1. CASE Edit(acpStart, acpEnd, acpEnd - acpStart, 1, acpStart + 1, acpStart + 1)
    BY <2>1, <1>a, <1>b, <1>e, Zenon
  <2> QED BY <1>1, <2>1, <1>c DEF Type
<1>2. CASE Backspace
  <2>1. CASE Edit(acpStart - 1, acpStart, 1, 0, acpStart - 1, acpStart - 1)
    BY <2>1, <1>a, <1>b, <1>e, Zenon
  <2>2. CASE Edit(acpStart, acpEnd, acpEnd - acpStart, 0, acpStart, acpStart)
    BY <2>2, <1>a, <1>b, <1>e, Zenon
  <2>3. CASE NoEdit
    BY <2>3 DEF NoEdit, document
  <2> QED BY <1>2, <1>c, <2>1, <2>2, <2>3 DEF Backspace, EraseOne, EraseSelection
<1>3. CASE Delete
  <2>1. CASE acpStart < text /\ Edit(acpStart, acpStart + 1, 1, 0, acpStart, acpEnd)
    BY <2>1, <1>a, <1>b, <1>e, Zenon
  <2>2. CASE Edit(acpStart, acpEnd, acpEnd - acpStart, 0, acpStart, acpEnd)
    BY <2>2, <1>a, <1>b, <1>e, Zenon
  <2>3. CASE NoEdit
    BY <2>3 DEF NoEdit, document
  <2> QED BY <1>3, <1>c, <2>1, <2>2, <2>3 DEF Delete
<1>4. CASE CursorLeft \/ CursorRight \/ OnMouseEvent
  BY <1>4 DEF CursorLeft, CursorRight, OnMouseEvent, Move, NoEdit, document
<1>5. CASE \E n \in 0 .. MaxLength : InsertTextAtSelection(n)
  <2>1. PICK n \in 0 .. MaxLength : Insert(acpStart, acpEnd, n)
    BY <1>5 DEF InsertTextAtSelection
  <2>2. acpStart \in 0 .. text /\ acpEnd \in 0 .. text /\ n \in Int
    BY <1>a
  <2> QED BY <2>1, <2>2, <1>d, Zenon
<1>6. CASE \E s, e \in Positions, n \in 0 .. MaxLength : s <= e /\ ServiceSetText(s, e, n)
  <2>1. PICK s \in 0 .. text, e \in 0 .. text, n \in 0 .. MaxLength :
             Insert(s, e, n) \/ UNCHANGED synced
    BY <1>6 DEF ServiceSetText, Positions
  <2>2. n \in Int
    OBVIOUS
  <2> QED BY <2>1, <2>2, <1>d, Zenon
<1>7. CASE \/ \E kind \in {"read", "write"} : RequestLock(kind)
           \/ RequestUpgrade
           \/ \E s, e \in Positions, a \in Ends : s <= e /\ SetSelection(s, e, a)
           \/ Unlock \/ Render
           \/ UNCHANGED vars
  BY <1>7 DEF RequestLock, RequestUpgrade, SetSelection, Unlock, Render, document, vars
<1> QED BY <1>1, <1>2, <1>3, <1>4, <1>5, <1>6, <1>7 DEF Steps

-----------------------------------------------------------------------------
(* The lock.                                                               *)

\* One step: a lock that is held is kept as it is or given up.
LEMMA LockStep ==
  ASSUME LockOK, Steps \/ UNCHANGED vars, holder # "none", ~(pending /\ ~pending')
  PROVE  holder' \in {holder, "none"} /\ (holder' = holder => lock' = lock)
<1>1. lock # "free"
  BY DEF LockOK
<1>2. CASE Type \/ Backspace \/ Delete \/ CursorLeft \/ CursorRight \/ OnMouseEvent
  BY <1>1, <1>2 DEF Type, Backspace, Delete, CursorLeft, CursorRight, OnMouseEvent, EraseOne, EraseSelection,
                    Edit, EditThrows, NoEdit, Move, AppLocks
<1>3. CASE Unlock
  BY <1>3 DEF Unlock
<1>4. CASE UNCHANGED <<lock, holder>>
  BY <1>4
<1> QED BY <1>1, <1>2, <1>3, <1>4 DEF Steps, RequestLock, RequestUpgrade, SetSelection, InsertTextAtSelection,
                    ServiceSetText, InSession, SetText, Render, vars

-----------------------------------------------------------------------------
(* The theorems.                                                           *)

\* The inductive invariant.
IInv == TypeOK /\ Straight /\ SelectionInText /\ OnlyLooseThrows /\ LayoutFollows

\* It holds of an empty or a preset text.
LEMMA InitIInv == Init => IInv
<1> SUFFICES ASSUME Init PROVE IInv
  OBVIOUS
<1> USE DEF Init
<1>1. NumbersOK /\ Straight /\ acpStart <= acpEnd /\ acpEnd <= text
  BY MaxLengthAssumption DEF NumbersOK, Straight
<1>2. FlagsOK
  BY DEF FlagsOK
<1>3. LockOK /\ activeEnd \in Ends
  BY DEF LockOK, Ends
<1>4. SelectionInText /\ OnlyLooseThrows /\ LayoutFollows
  BY <1>1 DEF SelectionInText, OnlyLooseThrows, LayoutFollows
<1> QED BY <1>1, <1>2, <1>3, <1>4 DEF IInv, TypeOK

\* It is preserved by every step.
LEMMA NextIInv == IInv /\ [Next]_vars => IInv'
<1> SUFFICES ASSUME IInv, [Next]_vars PROVE IInv'
  OBVIOUS
<1>1. Steps \/ UNCHANGED vars
  BY StepsAreNext
<1>2. NumbersOK' /\ Straight'
  BY <1>1, NumbersKept DEF IInv, TypeOK
<1>3. FlagsOK'
  BY <1>1, FlagsKept DEF IInv, TypeOK
<1>4. LockOK' /\ activeEnd' \in Ends
  BY <1>1, LockKept DEF IInv, TypeOK
<1>5. SelectionInText'
  BY <1>1, SelectionKept DEF IInv, TypeOK
<1>6. OnlyLooseThrows'
  BY <1>1, ThrowsKept DEF IInv, TypeOK
<1>7. LayoutFollows'
  BY <1>1, LayoutKept DEF IInv, TypeOK
<1>8. TypeOK'
  BY <1>2, <1>3, <1>4 DEF TypeOK, Ends
<1> QED BY <1>2, <1>5, <1>6, <1>7, <1>8 DEF IInv

\* It holds always.
THEOREM Invariance == Spec => []IInv
BY InitIInv, NextIInv, PTL DEF Spec

\* Every variable keeps its type: the positions never leave the bounds.
THEOREM Typing == Spec => []TypeOK
BY Invariance, PTL DEF IInv

\* The selection lies in the text unless it was left loose.
THEOREM Selections == Spec => []SelectionInText
BY Invariance, PTL DEF IInv

\* Only a loose selection makes an edit throw.
THEOREM Throws == Spec => []OnlyLooseThrows
BY Invariance, PTL DEF IInv

\* No edit is left out of the layout.
THEOREM Layouts == Spec => []LayoutFollows
BY Invariance, PTL DEF IInv

\* What is reported to the service is what happened.
THEOREM Reports == Spec => ReportsAddUp
<1>1. IInv /\ [Next]_vars => [synced => synced' \/ loose \/ \E n \in 0 .. MaxLength : SetText(n)]_vars
  BY StepsAreNext, ReportsStep DEF IInv, TypeOK
<1> QED BY <1>1, Invariance, PTL DEF Spec, ReportsAddUp

\* The lock passes from one side to the other only through an unlock.
THEOREM Exclusion == Spec => Exclusive
<1>1. IInv /\ [Next]_vars =>
        [holder # "none" /\ ~(pending /\ ~pending') =>
           /\ holder' \in {holder, "none"}
           /\ holder' = holder => lock' = lock]_vars
  BY StepsAreNext, LockStep DEF IInv, TypeOK
<1> QED BY <1>1, Invariance, PTL DEF Spec, Exclusive

-----------------------------------------------------------------------------
(* What UpgradeGranted comes from: the fairness of Unlock, and this.       *)

\* A write lock asked for under a read lock stays asked for, whatever the two
\* sides do, until the unlock, whose way is never barred and which hands the
\* lock over to the service at once.
UpgradeStays ==
  [][pending /\ lock = "read" =>
       /\ ~crashed
       /\ \/ pending' /\ lock' = "read" /\ holder' = holder
          \/ ~pending' /\ lock' = "write" /\ holder' = "service"
       /\ Unlock => lock' = "write" /\ holder' = "service"]_vars

\* An edit that throws was under a lock of its own, which nobody returns.
ThrewUnderLock == crashed => lock = "write"

LEMMA NextThrewUnderLock == ThrewUnderLock /\ [Next]_vars => ThrewUnderLock'
<1> SUFFICES ASSUME ThrewUnderLock, [Next]_vars PROVE ThrewUnderLock'
  OBVIOUS
<1>1. Steps \/ UNCHANGED vars
  BY StepsAreNext
<1>2. ASSUME AppLocks PROVE ThrewUnderLock'
  BY <1>2 DEF AppLocks, ThrewUnderLock
<1>3. CASE Type \/ Backspace \/ Delete \/ CursorLeft \/ CursorRight \/ OnMouseEvent
  BY <1>2, <1>3 DEF Type, Backspace, Delete, CursorLeft, CursorRight, OnMouseEvent,
     EraseOne, EraseSelection, Edit, EditThrows, NoEdit, Move
<1>4. CASE RequestUpgrade \/ Unlock \/ Render \/ UNCHANGED vars
  BY <1>4 DEF RequestUpgrade, Unlock, Render, vars, ThrewUnderLock
<1>5. ASSUME NEW n, SetText(n) PROVE ThrewUnderLock'
  BY <1>5 DEF SetText, ThrewUnderLock
<1>6. ASSUME NEW kind, RequestLock(kind) PROVE ThrewUnderLock'
  BY <1>6 DEF RequestLock, ThrewUnderLock
<1>7. ASSUME InSession PROVE ThrewUnderLock'
  BY <1>7 DEF InSession, ThrewUnderLock
<1> QED BY <1>1, <1>3, <1>4, <1>5, <1>6, <1>7
        DEF Steps, SetSelection, InsertTextAtSelection, ServiceSetText

LEMMA UpgradeStep ==
  ASSUME ThrewUnderLock, FlagsOK, Next, pending, lock = "read"
  PROVE  /\ ~crashed
         /\ \/ pending' /\ lock' = "read" /\ holder' = holder
            \/ ~pending' /\ lock' = "write" /\ holder' = "service"
         /\ Unlock => lock' = "write" /\ holder' = "service"
<1>1. ~crashed /\ (Steps \/ UNCHANGED vars)
  BY StepsAreNext DEF ThrewUnderLock
<1>2. ~AppLocks
  BY DEF AppLocks
<1>3. Unlock => ~pending' /\ lock' = "write" /\ holder' = "service"
  BY DEF Unlock
<1>4. CASE Type \/ Backspace \/ Delete \/ CursorLeft \/ CursorRight \/ OnMouseEvent
  BY <1>2, <1>4 DEF Type, Backspace, Delete, CursorLeft, CursorRight, OnMouseEvent,
     EraseOne, EraseSelection, Edit, EditThrows, NoEdit, Move
<1>5. CASE RequestUpgrade \/ Render \/ UNCHANGED vars
  BY <1>3, <1>5, <1>1 DEF RequestUpgrade, Render, vars
<1>6. ASSUME NEW n, SetText(n) PROVE pending' /\ lock' = "read" /\ holder' = holder
  BY <1>6 DEF SetText
<1>7. ASSUME NEW kind, RequestLock(kind) PROVE FALSE
  BY <1>7 DEF RequestLock
<1>8. ASSUME InSession PROVE pending' /\ lock' = "read" /\ holder' = holder
  BY <1>8 DEF InSession
<1>9. \/ pending' /\ lock' = "read" /\ holder' = holder
      \/ ~pending' /\ lock' = "write" /\ holder' = "service"
  BY <1>1, <1>3, <1>4, <1>5, <1>6, <1>7, <1>8
     DEF Steps, SetSelection, InsertTextAtSelection, ServiceSetText
<1> QED BY <1>1, <1>3, <1>9

\* A request for an upgrade is never lost or overtaken (see UpgradeStays): with
\* the fairness of Unlock this is the safety half of UpgradeGranted.
THEOREM Upgrades == Spec => UpgradeStays
<1> DEFINE Step == pending /\ lock = "read" =>
       /\ ~crashed
       /\ \/ pending' /\ lock' = "read" /\ holder' = holder
          \/ ~pending' /\ lock' = "write" /\ holder' = "service"
       /\ Unlock => lock' = "write" /\ holder' = "service"
<1>1. Init => ThrewUnderLock
  BY DEF Init, ThrewUnderLock
<1>2. Spec => []ThrewUnderLock
  BY <1>1, NextThrewUnderLock, PTL DEF Spec
<1>3. IInv /\ ThrewUnderLock /\ [Next]_vars => [Step]_vars
  BY UpgradeStep DEF IInv, TypeOK
<1> QED BY <1>2, <1>3, Invariance, PTL DEF Spec, UpgradeStays
=============================================================================
