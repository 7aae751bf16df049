------------------------------ MODULE TextStore ------------------------------
(***************************************************************************)
(* The text store of a text field, UITextStoreACP, between the text field  *)
(* that edits it and the text service of Windows that edits it too.  Both  *)
(* run on the window's thread: the service is called when it is granted a  *)
(* lock, and the window's messages, keys among them, can be handled while  *)
(* that call lasts.  The application locks the document around its own     *)
(* edits, during which the service is told of the change and may ask for a *)
(* lock in vain.  A text is known by its length.                           *)
(***************************************************************************)
EXTENDS Integers

CONSTANT MaxLength      \* bound: the longest text considered

ASSUME MaxLengthAssumption == MaxLength \in Nat

VARIABLES
  text,           \* the length of m_text
  acpStart,       \* the selection, from m_acpStart ...
  acpEnd,         \* ... to m_acpEnd
  activeEnd,      \* m_ActiveSelEnd, the end that holds the caret
  lock,           \* m_fLocked and m_dwLockType
  holder,         \* whose lock it is
  pending,        \* m_fPendingLockUpgrade
  layoutChanged,  \* m_fLayoutChanged
  textChanged,    \* UITextField's m_textChanged
  layout,         \* the length of the text in m_textLayout
  crashed,        \* std::out_of_range has left the window procedure
  synced,         \* history: each change was reported to the service as it was
  loose           \* history: the selection was left, or put, where no text need be

selection == <<acpStart, acpEnd, activeEnd>>
document  == <<text, acpStart, acpEnd, activeEnd, synced, loose>>
vars == <<text, acpStart, acpEnd, activeEnd, lock, holder, pending,
          layoutChanged, textChanged, layout, crashed, synced, loose>>

Ends == {"start", "end", "none"}

Least(a, b) == IF a < b THEN a ELSE b

-----------------------------------------------------------------------------
\* Two flags are not initialised by the constructor.
Init ==
  /\ text \in 0 .. MaxLength
  /\ acpStart = text /\ acpEnd = text /\ activeEnd = "start"
  /\ lock = "free" /\ holder = "none"
  /\ pending \in BOOLEAN
  /\ layoutChanged \in BOOLEAN
  /\ textChanged = TRUE
  /\ layout = text
  /\ crashed = FALSE
  /\ synced = TRUE
  /\ loose = FALSE

Select(s, e, a) == acpStart' = s /\ acpEnd' = e /\ activeEnd' = a

\* The text once n characters replace those from s to e; std::wstring cuts e
\* to its length and throws if s is beyond it.
Spliced(s, e, n) == text - (Least(e, text) - s) + n

\* The change is reported: the characters from s to e have become n.
Report(s, e, n) == synced' = (synced /\ e <= text /\ text' = text + n - (e - s))

-----------------------------------------------------------------------------
(* The application's edits, each under a write lock of its own, and none   *)
(* while the document is locked: keys are dropped then.                    *)

AppLocksAnyway ==                                                 \* mutant
  /\ ~crashed
  /\ lock' = "write" /\ holder' = "app"
  /\ UNCHANGED <<pending, layoutChanged, layout>>
AppLocks ==
  /\ ~crashed /\ lock = "free"
  /\ lock' = "write" /\ holder' = "app"
  /\ UNCHANGED <<pending, layoutChanged, layout>>

\* n characters replace those from s to e, which is reported as `gone'
\* characters less, and the caret or selection goes from a to b.
Edit(s, e, gone, n, a, b) ==
  /\ AppLocks
  /\ s <= text
  /\ text' = Spliced(s, e, n) /\ text' <= MaxLength
  /\ Report(s, s + gone, n)
  /\ Select(a, b, activeEnd)
  /\ textChanged' = TRUE
  /\ UNCHANGED crashed

EditThrows(s) ==
  /\ AppLocks
  /\ s > text
  /\ crashed' = TRUE
  /\ UNCHANGED <<document, textChanged>>

NoEdit ==
  /\ AppLocks
  /\ UNCHANGED <<document, textChanged, crashed>>

\* InsertTextAtACP of one character.
Type ==
  \/ Edit(acpStart, acpEnd, acpEnd - acpStart, 1, acpStart + 1, acpStart + 1) /\ loose' = FALSE
  \/ EditThrows(acpStart)

EraseOneReportsTwo ==                                             \* mutant
  \/ Edit(acpStart - 1, acpStart, 2, 0, acpStart - 1, acpStart - 1) /\ loose' = FALSE
  \/ EditThrows(acpStart - 1)
EraseOneKeepsEnd ==                                               \* mutant
  \/ Edit(acpStart - 1, acpStart, 1, 0, acpStart - 1, acpEnd) /\ loose' = FALSE
  \/ EditThrows(acpStart - 1)
EraseOne ==
  \/ Edit(acpStart - 1, acpStart, 1, 0, acpStart - 1, acpStart - 1) /\ loose' = FALSE
  \/ EditThrows(acpStart - 1)

EraseSelection ==
  \/ Edit(acpStart, acpEnd, acpEnd - acpStart, 0, acpStart, acpStart) /\ loose' = FALSE
  \/ EditThrows(acpStart)

Backspace ==
  \/ acpStart = acpEnd /\ acpStart > 0 /\ EraseOne
  \/ acpStart = acpEnd /\ acpStart = 0 /\ NoEdit
  \/ acpStart # acpEnd /\ EraseSelection

\* Deleting a selection leaves its end where it was, behind the text perhaps.
Delete ==
  \/ /\ acpStart = acpEnd /\ acpStart < text
     /\ Edit(acpStart, acpStart + 1, 1, 0, acpStart, acpEnd)
     /\ UNCHANGED loose
  \/ acpStart = acpEnd /\ acpStart >= text /\ NoEdit
  \/ /\ acpStart # acpEnd
     /\ \/ Edit(acpStart, acpEnd, acpEnd - acpStart, 0, acpStart, acpEnd) /\ loose' = TRUE
        \/ EditThrows(acpStart)

-----------------------------------------------------------------------------
(* The application moves the selection.                                    *)

Move(s, e, a) ==
  /\ AppLocks
  /\ Select(s, e, IF s = e THEN "start" ELSE a)
  /\ UNCHANGED <<text, textChanged, crashed, synced>>

BeforeUnbounded(p) == p - 1                                       \* mutant
Before(p) == IF p = 0 THEN 0 ELSE p - 1

AfterUnbounded(p) == Least(p + 1, MaxLength)                      \* mutant
After(p) == Least(p + 1, text)

CursorLeft ==
  LET s == Before(acpStart)
      e == Before(acpEnd)
  IN /\ UNCHANGED loose
     /\ \/ acpStart = acpEnd /\ Move(s, s, "start")
        \/ acpStart # acpEnd /\ Move(acpStart, acpStart, "start")
        \* with the Shift key
        \/ activeEnd = "end" /\ acpStart <= e /\ Move(acpStart, e, "end")
        \/ activeEnd = "end" /\ acpStart > e /\ Move(e, acpStart, "start")
        \/ activeEnd # "end" /\ Move(s, acpEnd, activeEnd)

CursorRight ==
  LET s == After(acpStart)
      e == After(acpEnd)
  IN /\ UNCHANGED loose
     /\ \/ acpStart = acpEnd /\ Move(s, s, "start")
        \/ acpStart # acpEnd /\ Move(acpEnd, acpEnd, "start")
        \* with the Shift key
        \/ activeEnd = "start" /\ s <= acpEnd /\ Move(s, acpEnd, "start")
        \/ activeEnd = "start" /\ s > acpEnd /\ Move(acpEnd, s, "end")
        \/ activeEnd # "start" /\ Move(acpStart, e, activeEnd)

\* A click or a drag from p to q: characters of the layout, or the space
\* behind it, which stands for the end of the text; it can be elsewhere.
OnMouseEvent ==
  \/ NoEdit
  \/ \E p, q \in 0 .. layout - 1 \cup {text} :
       /\ \/ p < q /\ Move(p, q, "end")
          \/ p >= q /\ Move(q, p, "start")
       /\ loose' = (layout # text)

\* UITextField::SetText: no lock and no report.
SetText(n) ==
  /\ ~crashed
  /\ text' = n
  /\ Select(n, n, "start")
  /\ textChanged' = TRUE /\ synced' = FALSE /\ loose' = FALSE
  /\ UNCHANGED <<lock, holder, pending, layoutChanged, layout, crashed>>

\* Render lays the text out anew if it has changed.
Render ==
  /\ ~crashed /\ textChanged
  /\ layout' = text /\ textChanged' = FALSE
  /\ UNCHANGED <<document, lock, holder, pending, layoutChanged, crashed>>

-----------------------------------------------------------------------------
(* The text service.                                                       *)

\* The positions the service may name: those of the text, if it knows it.
Positions == 0 .. IF synced THEN text ELSE MaxLength

\* RequestLock of an unlocked document calls OnLockGranted at once.
RequestLock(kind) ==
  /\ ~crashed /\ lock = "free"
  /\ lock' = kind /\ holder' = "service"
  /\ UNCHANGED <<document, pending, layoutChanged, textChanged, layout, crashed>>

\* A write lock asked for under a read lock; other requests are refused.
RequestUpgrade ==
  /\ ~crashed /\ holder = "service" /\ lock = "read"
  /\ pending' = TRUE
  /\ UNCHANGED <<document, lock, holder, layoutChanged, textChanged, layout, crashed>>

\* In a session; the code takes any lock for a write lock.
InSession ==
  /\ ~crashed /\ holder = "service"
  /\ UNCHANGED <<lock, holder, pending, layout, crashed>>

SetSelection(s, e, a) ==
  /\ InSession
  /\ Select(s, e, a)
  /\ loose' = ~synced
  /\ UNCHANGED <<text, synced, layoutChanged, textChanged>>

\* _TestInsert refuses a selection that starts behind the text; the selection
\* stays as it is.
InsertUnseen(s, e, n) ==                                          \* mutant
  /\ s <= e /\ s <= text
  /\ text' = Spliced(s, e, n) /\ text' <= MaxLength
  /\ Report(s, e, n)
  /\ layoutChanged' = TRUE
  /\ UNCHANGED textChanged
Insert(s, e, n) ==
  /\ s <= e /\ s <= text
  /\ text' = Spliced(s, e, n) /\ text' <= MaxLength
  /\ Report(s, e, n)
  /\ layoutChanged' = TRUE
  /\ textChanged' = TRUE

InsertTextAtSelection(n) ==
  /\ InSession
  /\ Insert(acpStart, acpEnd, n)
  /\ loose' = (loose \/ n < acpEnd - acpStart)
  /\ UNCHANGED selection

ServiceSetText(s, e, n) ==
  /\ InSession
  /\ Select(s, e, "start")
  /\ loose' = (~synced \/ n < e - s)
  /\ \/ Insert(s, e, n)
     \/ (s > e \/ s > text) /\ UNCHANGED <<text, synced, layoutChanged, textChanged>>

-----------------------------------------------------------------------------
\* _UnlockDocument: a pending upgrade becomes a write lock of the service's at
\* once, and the next unlock reports the change of the layout.
UnlockForgetsUpgrade ==                                           \* mutant
  /\ ~crashed /\ lock # "free"
  /\ lock' = "free" /\ holder' = "none" /\ layoutChanged' = FALSE
  /\ textChanged' = (textChanged \/ holder = "app")
  /\ UNCHANGED <<document, pending, layout, crashed>>
Unlock ==
  /\ ~crashed /\ lock # "free"
  /\ IF pending
     THEN lock' = "write" /\ holder' = "service" /\ UNCHANGED layoutChanged
     ELSE lock' = "free" /\ holder' = "none" /\ layoutChanged' = FALSE
  /\ pending' = FALSE
  /\ textChanged' = (textChanged \/ holder = "app")
  /\ UNCHANGED <<document, layout, crashed>>

\* The program has ended.
Ended == crashed /\ UNCHANGED vars

AppNext == Type \/ Backspace \/ Delete \/ CursorLeft \/ CursorRight \/ OnMouseEvent

ServiceNext ==
  \/ \E kind \in {"read", "write"} : RequestLock(kind)
  \/ RequestUpgrade
  \/ \E s, e \in Positions, a \in Ends : s <= e /\ SetSelection(s, e, a)
  \/ \E n \in 0 .. MaxLength : InsertTextAtSelection(n)
  \/ \E s, e \in Positions, n \in 0 .. MaxLength : s <= e /\ ServiceSetText(s, e, n)

Next ==
  \/ AppNext
  \/ ServiceNext
  \/ \E n \in 0 .. MaxLength : SetText(n)
  \/ Unlock
  \/ Render
  \/ Ended

\* Every callback of the service returns, and so does every edit.
Spec == Init /\ [][Next]_vars /\ WF_vars(Unlock)

-----------------------------------------------------------------------------
(* Properties.                                                             *)

NumbersOK ==
  /\ text \in 0 .. MaxLength /\ layout \in 0 .. MaxLength
  /\ acpStart \in 0 .. MaxLength /\ acpEnd \in 0 .. MaxLength

LockOK ==
  /\ lock \in {"free", "read", "write"}
  /\ holder \in {"none", "app", "service"}
  /\ holder = "none" <=> lock = "free"

FlagsOK ==
  /\ pending \in BOOLEAN /\ layoutChanged \in BOOLEAN /\ textChanged \in BOOLEAN
  /\ crashed \in BOOLEAN /\ synced \in BOOLEAN /\ loose \in BOOLEAN

\* Every variable has its type, and the lock has a holder when it is taken.
TypeOK == NumbersOK /\ activeEnd \in Ends /\ LockOK /\ FlagsOK

\* The selection lies in the text, whatever keys, clicks, edits of the service
\* and changes of the text came before, unless it was left loose: by Delete, by
\* a click on an old layout, by a service that shortened the text or that was
\* not told of a change.
SelectionInText == loose \/ (acpStart <= acpEnd /\ acpEnd <= text)

\* Only a loose selection makes an edit throw.
OnlyLooseThrows == crashed => loose

\* What an edit reports to the service is what happened to the text, unless the
\* selection was loose; SetText alone changes the text without a report.
ReportsAddUp == [][synced => synced' \/ loose \/ \E n \in 0 .. MaxLength : SetText(n)]_vars

\* "set true if text has changed and need to recreate the text format and the
\* text layout": no edit, of either side, is left out of the layout.
LayoutFollows == textChanged \/ layout = text

\* A lock is given up before it passes to the other side, and in a session of
\* the service no key and no click gets through to the document.
Exclusive ==
  [][holder # "none" /\ ~(pending /\ ~pending') =>
       /\ holder' \in {holder, "none"}
       /\ holder' = holder => lock' = lock]_vars

\* A write lock asked for under a read lock is granted.
UpgradeGranted == pending /\ lock = "read" ~> holder = "service" /\ lock = "write"
=============================================================================
