------------------------- MODULE CanvasPanelProofs -------------------------
(***************************************************************************)
(* Theorems about the canvas, for every size, file, dialog entry and for   *)
(* every uptime below the sign bit of the tick.                            *)
(***************************************************************************)
EXTENDS CanvasPanel, TLAPS

-----------------------------------------------------------------------------
(* Types.                                                                  *)

\* The dialog's speeds and the canvas's intervals.
LEMMA SpeedsAreIntervals ==
  /\ \A s \in Speeds : IntervalOf(s) \in {1, 2, 4}
  /\ \A i \in {1, 2, 4} : SpeedOf(i) \in Speeds /\ IntervalOf(SpeedOf(i)) = i
  /\ \A s \in Speeds : SpeedOf(IntervalOf(s)) = s
BY DEF Speeds, IntervalOf, SpeedOf

LEMMA AsIntType == \A n \in Int : AsInt(n) \in Int
<1>1. IntRange \in Nat \ {0}
  BY ClockAssumption DEF IntRange
<1> QED BY <1>1 DEF AsInt

LEMMA LengthType ==
  ASSUME NEW w \in Nat, NEW h \in Nat
  PROVE  /\ Length(w, h) \in Nat
         /\ w * h < Word => Length(w, h) = w * h
<1>1. w * h \in Nat /\ Word \in Nat \ {0}
  BY SizeAssumption
<1>2. \A a \in Nat, b \in Nat \ {0} : a % b \in Nat /\ (a < b => a % b = a)
  OBVIOUS
<1> QED BY <1>1, <1>2, Zenon DEF Length

LEMMA RandomDataType ==
  ASSUME NEW fill \in Fills, NEW w \in Nat, NEW h \in Nat
  PROVE  RandomData(fill, w, h) \in DataType
BY LengthType DEF RandomData, DataType

LEMMA FileDataType ==
  ASSUME NEW f \in LifeFiles, NEW w \in Nat, NEW h \in Nat
  PROVE  FileData(f, w, h) \in DataType
<1>1. /\ f.w \in Nat /\ f.h \in Nat /\ f.live \subseteq (0 .. f.w - 1) \X (0 .. f.h - 1)
      /\ Word \in Nat \ {0}
  BY FilesAssumption, SizeAssumption
<1>2. ASSUME NEW p \in f.live PROVE Index(f, w, h, p) \in Int
  <2>1. p[1] \in Int /\ p[2] \in Int
    BY <1>1
  <2>2. \A a, b \in Int : (a - b) \div 2 \in Int
    OBVIOUS
  <2>3. (w - f.w) \div 2 \in Int /\ (h - f.h) \div 2 \in Int
    BY <1>1, <2>2
  <2>4. p[1] + (w - f.w) \div 2 + (p[2] + (h - f.h) \div 2) * w \in Int
    BY <2>1, <2>3
  <2>5. \A a \in Int, b \in Nat \ {0} : a % b \in Int
    OBVIOUS
  <2> QED BY <1>1, <2>4, <2>5, Zenon DEF Index
<1> QED BY <1>2, LengthType DEF FileData, DataType

LEMMA DisplayType ==
  ASSUME NEW data \in PanelType PROVE Display(data) \in EntryType
<1>1. SpeedOf(data.updateInterval) \in Speeds
  BY SpeedsAreIntervals DEF PanelType
<1> QED BY <1>1, SizeAssumption DEF Display, EntryType, PanelType

\* The panel record in terms of its parts.
LEMMA PanelParts ==
  Panel \in PanelType <=>
    /\ width \in Nat \ {0} /\ height \in Nat \ {0} /\ generations \in 1 .. MaxSize
    /\ updateInterval \in {1, 2, 4} /\ method \in Methods
BY DEF Panel, PanelType

LEMMA InitTypeOK == Init => TypeOK
<1> SUFFICES ASSUME Init PROVE TypeOK
  OBVIOUS
<1>1. Panel \in PanelType
  BY SizeAssumption DEF Init, Panel, PanelType, Methods
<1>2. initialLife \in DataType
  BY RandomDataType, SizeAssumption DEF Init
<1>3. csFileName = NoFile
  BY DEF Init
<1>4. life \in [w : Nat \ {0}, h : Nat \ {0}, data : DataType, rule : Rules \cup {Conway}]
  BY <1>2, <1>3, SizeAssumption DEF Init, NewLife, RuleOfNew
<1>5. window \in [method : Methods, depth : 1 .. MaxSize]
  BY SizeAssumption DEF Init, NewWindow, Methods
<1>6. fields \in EntryType
  BY SizeAssumption DEF Init, EntryType, Speeds, Methods
<1>7. tick \in FirstTick .. LastTick
  BY ClockAssumption DEF Init
<1>8. previous \in Int
  BY DEF Init, Never
<1> QED BY <1>1, <1>2, <1>3, <1>4, <1>5, <1>6, <1>7, <1>8 DEF Init, TypeOK

\* What a new simulator and window are made of.
LEMMA NewTypes ==
  ASSUME TypeOK
  PROVE  /\ NewLife \in [w : Nat \ {0}, h : Nat \ {0}, data : DataType,
                         rule : Rules \cup {Conway}]
         /\ NewWindow \in [method : Methods, depth : 1 .. MaxSize]
<1>1. /\ width \in Nat \ {0} /\ height \in Nat \ {0} /\ generations \in 1 .. MaxSize
      /\ method \in Methods
  BY PanelParts DEF TypeOK
<1>2. initialLife \in DataType
  BY DEF TypeOK
<1>3. RuleOfNew \in Rules \cup {Conway}
  BY DEF RuleOfNew, Loads, TypeOK
<1> QED BY <1>1, <1>2, <1>3 DEF NewLife, NewWindow

LEMMA FrameTypeOK == TypeOK /\ Frame => TypeOK'
<1> SUFFICES ASSUME TypeOK, Frame PROVE TypeOK'
  OBVIOUS
<1>1. UNCHANGED <<computeShader, asked, initialLife, csFileName, running, settings, tick, disk,
                  edited, ended>>
  BY DEF Frame, Runs
<1>2. Panel' = Panel
  BY <1>1 DEF Panel, asked
<1>3. /\ life' \in [w : Nat \ {0}, h : Nat \ {0}, data : DataType,
                    rule : Rules \cup {Conway}]
      /\ window' \in [method : Methods, depth : 1 .. MaxSize]
      /\ parametersModified' \in BOOLEAN /\ renewed' \in BOOLEAN
  <2>1. CASE parametersModified
    BY <2>1, NewTypes DEF Frame, Refresh
  <2>2. CASE ~parametersModified
    BY <2>2 DEF Frame, Refresh, shown, TypeOK
  <2> QED BY <2>1, <2>2
<1>4. AgeBefore \in Nat
  BY DEF AgeBefore, TypeOK
<1>5. tick \in FirstTick .. LastTick /\ FirstTick \in Nat /\ LastTick \in Nat
  BY ClockAssumption DEF TypeOK
<1>6. age' \in Nat /\ previous' \in Int /\ moved' \subseteq FirstTick .. tick
  <2>1. CASE Due
    <3>1. AsInt(tick) \in Int
      BY <1>5, AsIntType
    <3> QED BY <2>1, <1>4, <1>5, <3>1 DEF Frame, Advance
  <2>2. CASE ~Due
    BY <2>2, <1>4 DEF Frame, Advance, clock, TypeOK
  <2> QED BY <2>1, <2>2
<1> QED BY <1>1, <1>2, <1>3, <1>6 DEF TypeOK, settings

LEMMA TickTypeOK == TypeOK /\ Tick => TypeOK'
<1> SUFFICES ASSUME TypeOK, Tick PROVE TypeOK'
  OBVIOUS
<1>1. UNCHANGED <<computeShader, asked, initialLife, csFileName,
                  parametersModified, running, shown, age, settings, clock, rules, ended>>
  BY DEF Tick, Runs
<1>2. Panel' = Panel
  BY <1>1 DEF Panel, asked
<1>3. tick' \in FirstTick .. LastTick /\ moved' \subseteq FirstTick .. tick'
  BY ClockAssumption DEF Tick, clock, TypeOK
<1> QED BY <1>1, <1>2, <1>3 DEF TypeOK, settings, shown, clock, rules

\* A new life file: the area only grows, so that it stays positive.
LEMMA SetLifeFileTypeOK ==
  ASSUME TypeOK, NEW f \in LifeFiles, SetLifeFile(f) PROVE TypeOK'
<1>1. /\ width \in Nat \ {0} /\ height \in Nat \ {0} /\ generations \in 1 .. MaxSize
      /\ updateInterval \in {1, 2, 4} /\ method \in Methods
  BY PanelParts DEF TypeOK
<1>2. f.w \in Nat /\ f.h \in Nat
  BY FilesAssumption
<1>3. width' \in Nat \ {0} /\ height' \in Nat \ {0}
  BY <1>1, <1>2 DEF SetLifeFile, Larger
<1>4. Panel' \in PanelType
  BY <1>1, <1>3 DEF SetLifeFile, Panel, PanelType
<1>5. initialLife' \in DataType
  BY <1>3, FileDataType DEF SetLifeFile
<1>6. ended' \in BOOLEAN
  BY DEF SetLifeFile, Overruns
<1> QED BY <1>4, <1>5, <1>6 DEF SetLifeFile, TypeOK, others, shown, settings, clock, rules

LEMMA AcceptTypeOK ==
  ASSUME TypeOK, NEW fill \in Fills, Accept(fill) PROVE TypeOK'
<1>1. /\ fields.width \in 1 .. MaxSize /\ fields.height \in 1 .. MaxSize
      /\ fields.generations \in 1 .. MaxSize
      /\ fields.speed \in Speeds /\ fields.method \in Methods
  BY DEF Accept, Accepted, Valid, TypeOK, EntryType
<1>2. IntervalOf(fields.speed) \in {1, 2, 4}
  BY <1>1, SpeedsAreIntervals
<1>3. width' \in Nat \ {0} /\ height' \in Nat \ {0} /\ MaxSize \in Nat
  BY <1>1, SizeAssumption DEF Accept
<1>4. Panel' \in PanelType
  BY <1>1, <1>2, <1>3 DEF Accept, Panel, PanelType
<1>5. initialLife' \in DataType
  BY <1>3, RandomDataType DEF Accept
<1> QED BY <1>4, <1>5 DEF Accept, Runs, TypeOK, others, shown, clock, rules

LEMMA RejectTypeOK == TypeOK /\ Reject => TypeOK'
<1> SUFFICES ASSUME TypeOK, Reject PROVE TypeOK'
  OBVIOUS
<1> DEFINE W == IF Valid(fields.width) THEN fields.width ELSE settingData.width
           H == IF Valid(fields.width) /\ Valid(fields.height)
                THEN fields.height ELSE settingData.height
<1>a. settingData \in PanelType
  BY DEF TypeOK
<1>b. W \in Nat \ {0} /\ H \in Nat \ {0}
  BY <1>a, SizeAssumption DEF Valid, PanelType
<1>c. settingData' = [settingData EXCEPT !.width = W, !.height = H]
  BY <1>a DEF Reject, PanelType
<1> HIDE DEF W, H
<1>1. settingData' \in PanelType
  BY <1>a, <1>b, <1>c DEF PanelType
<1>2. Panel' = Panel
  BY DEF Reject, Panel, asked
<1> QED BY <1>1, <1>2 DEF Reject, Runs, TypeOK, others, shown, clock, rules

LEMMA NextTypeOK == TypeOK /\ [Next]_vars => TypeOK'
<1> SUFFICES ASSUME TypeOK, [Next]_vars PROVE TypeOK'
  OBVIOUS
<1>a. Frame \/ Tick => TypeOK'
  BY FrameTypeOK, TickTypeOK
<1>b. OnStart \/ OnStop \/ Cancel => TypeOK'
  <2>1. OnStart \/ OnStop \/ Cancel => Panel' = Panel
    BY DEF OnStart, OnStop, Cancel, Panel, asked
  <2> QED BY <2>1 DEF OnStart, OnStop, Cancel, Runs, TypeOK, others, shown, settings, clock, rules
<1>c. ASSUME NEW fill \in Fills, OnRandom(fill) PROVE TypeOK'
  <2>1. Panel' = Panel
    BY <1>c DEF OnRandom, Panel, asked
  <2>2. width \in Nat /\ height \in Nat
    BY PanelParts DEF TypeOK
  <2>3. initialLife' \in DataType
    BY <1>c, <2>2, RandomDataType DEF OnRandom
  <2> QED BY <1>c, <2>1, <2>3 DEF OnRandom, Runs, TypeOK, others, shown, settings, clock, rules
<1>d. ASSUME NEW fill \in Fills, Accept(fill) PROVE TypeOK'
  BY <1>d, AcceptTypeOK
<1>e. ASSUME NEW f \in LifeFiles, SetLifeFile(f) PROVE TypeOK'
  BY <1>e, SetLifeFileTypeOK
<1>f. ASSUME NEW name \in RuleFiles, OpenCSFile(name) PROVE TypeOK'
  <2>1. Panel' = Panel
    BY <1>f DEF OpenCSFile, Panel, asked
  <2>2. life' \in [w : Nat \ {0}, h : Nat \ {0}, data : DataType,
                   rule : Rules \cup {Conway}]
    BY <1>f DEF OpenCSFile, Loads, TypeOK
  <2> QED BY <1>f, <2>1, <2>2 DEF OpenCSFile, Runs, TypeOK, settings, clock
<1>g. OnSettings => TypeOK'
  <2> SUFFICES ASSUME OnSettings PROVE TypeOK'
    OBVIOUS
  <2>1. Panel' = Panel
    BY DEF OnSettings, Panel, asked
  <2>2. settingData' \in PanelType
    BY DEF OnSettings, DataToShow, TypeOK
  <2>3. fields' \in EntryType
    BY <2>2, DisplayType DEF OnSettings
  <2> QED BY <2>1, <2>2, <2>3 DEF OnSettings, Runs, TypeOK, others, shown, clock, rules
<1>h. ASSUME NEW e \in Entries, Edit(e) PROVE TypeOK'
  <2>1. Panel' = Panel
    BY <1>h DEF Edit, Panel, asked
  <2>2. e \in EntryType
    BY EntriesAssumption
  <2> QED BY <1>h, <2>1, <2>2 DEF Edit, Runs, TypeOK, others, shown, clock, rules
<1>i. Reject => TypeOK'
  BY RejectTypeOK
<1>j. UNCHANGED vars => TypeOK'
  <2>1. UNCHANGED vars => Panel' = Panel
    BY DEF vars, Panel, asked
  <2> QED BY <2>1 DEF vars, TypeOK, shown, settings, clock, rules
<1>k. FrameThrows => TypeOK'
  <2>1. FrameThrows => Panel' = Panel
    BY DEF FrameThrows, Panel, asked
  <2> QED BY <2>1 DEF FrameThrows, TypeOK, shown, settings, clock, rules
<1>l. ASSUME NEW name \in RuleFiles, NEW content \in Rules \cup {Broken}, Save(name, content)
      PROVE  TypeOK'
  <2>1. Panel' = Panel
    BY <1>l DEF Save, Panel, asked
  <2>2. disk' \in [RuleFiles -> Rules \cup {Broken}]
    BY <1>l DEF Save, TypeOK
  <2>3. edited' \in BOOLEAN
    BY <1>l DEF Save
  <2> QED BY <1>l, <2>1, <2>2, <2>3 DEF Save, Runs, TypeOK, shown, settings, clock
<1> QED BY <1>a, <1>b, <1>c, <1>d, <1>e, <1>f, <1>g, <1>h, <1>i, <1>j, <1>k, <1>l DEF Next, Ended

\* Every variable of the canvas keeps its type, for every size the dialog
\* may be given and every life file: validation precedes every use.
THEOREM TypeCorrect == Spec => []TypeOK
<1> QED BY InitTypeOK, NextTypeOK, PTL DEF Spec

-----------------------------------------------------------------------------
(* The initial data.                                                       *)

\* The index of a column and a row, and back.
LEMMA Divide ==
  \A w \in Nat \ {0}, x \in Nat, y \in Int :
    x < w => /\ (x + y * w) % w = x
             /\ (x + y * w) \div w = y
OBVIOUS

LEMMA Compose ==
  \A w \in Nat \ {0}, c \in Nat :
    /\ c = (c % w) + (c \div w) * w
    /\ c % w \in 0 .. w - 1
    /\ c \div w \in Nat
OBVIOUS

LEMMA RowBelow ==
  \A w, h \in Nat \ {0}, c \in Nat : c < w * h <=> c \div w < h
OBVIOUS

\* In an area that does not wrap no index wraps, and every cell of the file
\* lies in the area, displaced by the margins.
LEMMA IndexInArea ==
  ASSUME NEW f \in LifeFiles, NEW w \in Nat \ {0}, NEW h \in Nat \ {0},
         f.w <= w, f.h <= h, w * h < Word, NEW p \in Cells(f)
  PROVE  LET c == Index(f, w, h, p)
         IN  /\ c \in 0 .. w * h - 1
             /\ c % w = p[1] + (w - f.w) \div 2
             /\ c \div w = p[2] + (h - f.h) \div 2
<1> DEFINE dx == (w - f.w) \div 2
           dy == (h - f.h) \div 2
           x == p[1] + dx
           y == p[2] + dy
           c == x + y * w
<1>1. f.w \in Nat /\ f.h \in Nat /\ Word \in Nat \ {0}
  BY FilesAssumption, SizeAssumption
<1>2. dx \in Nat /\ dx + f.w <= w /\ dy \in Nat /\ dy + f.h <= h
  BY <1>1
<1>3. p[1] \in 0 .. f.w - 1 /\ p[2] \in 0 .. f.h - 1
  BY <1>1 DEF Cells
<1>4. x \in 0 .. w - 1 /\ y \in 0 .. h - 1
  <2> HIDE DEF dx, dy
  <2> QED BY <1>1, <1>2, <1>3
<1>5. Index(f, w, h, p) = c % Word
  BY DEF Index
<1> HIDE DEF x, y
<1>6. c % w = x /\ c \div w = y
  <2>1. x \in Nat /\ y \in Int /\ x < w
    BY <1>4
  <2> QED BY <2>1, Divide, Zenon
<1>7. c \in Nat
  BY <1>4
<1>8. c < w * h
  <2>1. y < h
    BY <1>4
  <2> HIDE DEF c
  <2>2. c < w * h <=> c \div w < h
    BY <1>7, RowBelow, Zenon
  <2> QED BY <1>6, <2>1, <2>2
<1> HIDE DEF c
<1>9. w * h \in Nat
  OBVIOUS
<1>10. \A a, b, d \in Nat : a < b /\ b < d => a % d = a
  OBVIOUS
<1>11. c % Word = c
  BY <1>1, <1>7, <1>8, <1>9, <1>10, Zenon
<1>12. c \in 0 .. w * h - 1
  BY <1>7, <1>8, <1>9
<1> QED BY <1>5, <1>6, <1>11, <1>12 DEF x, y, dx, dy

\* Centring with one index is centring by column and row.
LEMMA CentredIsTranslated ==
  ASSUME NEW f \in LifeFiles, NEW w \in Nat \ {0}, NEW h \in Nat \ {0},
         f.w <= w, f.h <= h, w * h < Word
  PROVE  {Index(f, w, h, p) : p \in f.live} =
           {c \in 0 .. w * h - 1 : <<(c % w) - (w - f.w) \div 2,
                                     (c \div w) - (h - f.h) \div 2>> \in f.live}
<1> DEFINE dx == (w - f.w) \div 2
           dy == (h - f.h) \div 2
           At(c) == <<(c % w) - dx, (c \div w) - dy>>
           I(p) == Index(f, w, h, p)
<1>1. f.w \in Nat /\ f.h \in Nat /\ f.live \subseteq Cells(f)
  BY FilesAssumption DEF Cells
<1>2. dx \in Nat /\ dy \in Nat
  BY <1>1
<1>3. \A p \in Cells(f) : /\ I(p) \in 0 .. w * h - 1
                          /\ I(p) % w = p[1] + dx
                          /\ I(p) \div w = p[2] + dy
  BY IndexInArea
<1> HIDE DEF dx, dy, I
<1>4. ASSUME NEW p \in f.live PROVE I(p) \in 0 .. w * h - 1 /\ At(I(p)) = p
  <2>1. p \in Cells(f)
    BY <1>1
  <2>2. p[1] \in Int /\ p[2] \in Int /\ p = <<p[1], p[2]>>
    BY <1>1, <2>1 DEF Cells
  <2>3. I(p) % w = p[1] + dx /\ I(p) \div w = p[2] + dy /\ I(p) \in 0 .. w * h - 1
    BY <1>3, <2>1
  <2>4. (p[1] + dx) - dx = p[1] /\ (p[2] + dy) - dy = p[2]
    BY <1>2, <2>2
  <2> QED BY <2>2, <2>3, <2>4
<1>5. ASSUME NEW c \in 0 .. w * h - 1, At(c) \in f.live PROVE c = I(At(c))
  <2>a. c \in Nat
    OBVIOUS
  <2>1. /\ c = (c % w) + (c \div w) * w
        /\ c % w \in Nat /\ c \div w \in Nat
    <3>1. c = (c % w) + (c \div w) * w /\ c % w \in 0 .. w - 1 /\ c \div w \in Nat
      BY <2>a, Compose, Zenon
    <3>2. \A n \in 0 .. w - 1 : n \in Nat
      OBVIOUS
    <3> QED BY <3>1, <3>2, Zenon
  <2>2. At(c)[1] + dx = c % w /\ At(c)[2] + dy = c \div w
    BY <1>2, <2>1
  <2>3. /\ I(At(c)) \in 0 .. w * h - 1
        /\ I(At(c)) % w = c % w /\ I(At(c)) \div w = c \div w
    <3>1. At(c) \in Cells(f)
      BY <1>1, <1>5
    <3> HIDE DEF At
    <3> QED BY <1>3, <2>2, <3>1
  <2> HIDE DEF At
  <2>4. I(At(c)) \in Nat
    BY <2>3
  <2>5. I(At(c)) = (I(At(c)) % w) + (I(At(c)) \div w) * w
    BY <2>4, Compose, Zenon
  <2> QED BY <2>1, <2>3, <2>5
<1>6. {I(p) : p \in f.live} = {c \in 0 .. w * h - 1 : At(c) \in f.live}
  <2> HIDE DEF At
  <2> QED BY <1>4, <1>5
<1> QED BY <1>6 DEF dx, dy, I
-----------------------------------------------------------------------------
\* Random data fit the area they were made for.
LEMMA RandomFits ==
  ASSUME NEW fill \in Fills, NEW w \in Nat, NEW h \in Nat, w * h < Word
  PROVE  LET data == RandomData(fill, w, h)
         IN  /\ data.length = w * h /\ data.cells = {}
             /\ data.source \notin LifeFiles
BY LengthType, FilesAssumption DEF RandomData

LEMMA InitDataFits == Init => DataFitsArea
<1> SUFFICES ASSUME Init PROVE DataFitsArea
  OBVIOUS
<1>1. width \in Nat /\ height \in Nat /\ ~ended
  BY SizeAssumption DEF Init
<1>2. PICK fill \in Fills : initialLife = RandomData(fill, width, height)
  BY DEF Init
<1> QED BY <1>1, <1>2, RandomFits DEF DataFitsArea, Copies

LEMMA RandomStepFits ==
  ASSUME TypeOK', ~ended', NEW fill \in Fills, initialLife' = RandomData(fill, width', height')
  PROVE  DataFitsArea'
<1>1. width' \in Nat /\ height' \in Nat
  BY DEF TypeOK, Panel, PanelType
<1> QED BY <1>1, RandomFits DEF DataFitsArea, Copies

LEMMA SetLifeFileDataFits ==
  ASSUME TypeOK, NEW f \in LifeFiles, SetLifeFile(f) PROVE DataFitsArea'
<1>1. width \in Nat \ {0} /\ height \in Nat \ {0}
  BY PanelParts DEF TypeOK
<1>2. f.w \in Nat /\ f.h \in Nat
  BY FilesAssumption
<1>3. /\ width' \in Nat \ {0} /\ f.w <= width'
      /\ height' \in Nat \ {0} /\ f.h <= height'
  BY <1>1, <1>2 DEF SetLifeFile, Larger
<1>4. /\ initialLife' = FileData(f, width', height')
      /\ ended' = Overruns(f, width', height')
  BY DEF SetLifeFile
<1>5. SUFFICES ASSUME width' * height' < Word PROVE ~ended' /\ DataFitsArea'
  BY DEF DataFitsArea, Copies
<1>6. Length(width', height') = width' * height' /\ width' * height' \in Nat
  BY <1>3, <1>5, LengthType
<1>7. ~ended'
  <2>1. ASSUME NEW p \in Cells(f)
        PROVE  ~(Index(f, width', height', p) >= Length(width', height'))
    <3>1. Index(f, width', height', p) \in 0 .. width' * height' - 1
      BY <1>3, <1>5, IndexInArea
    <3> QED BY <1>6, <3>1
  <2> QED BY <1>4, <2>1 DEF Overruns
<1>8. /\ initialLife'.cells = {Index(f, width', height', p) : p \in f.live}
      /\ initialLife'.source = f /\ initialLife'.length = width' * height'
  BY <1>4, <1>6 DEF FileData
<1>9. {Index(f, width', height', p) : p \in f.live} =
        {c \in 0 .. width' * height' - 1 :
           <<(c % width') - (width' - f.w) \div 2,
             (c \div width') - (height' - f.h) \div 2>> \in f.live}
  BY <1>3, <1>5, CentredIsTranslated
<1>10. initialLife'.cells \subseteq 0 .. width' * height' - 1
  BY <1>8, <1>9
<1> QED BY <1>7, <1>8, <1>9, <1>10 DEF DataFitsArea, Area

LEMMA NextDataFits == TypeOK /\ DataFitsArea /\ [Next]_vars => DataFitsArea'
<1> SUFFICES ASSUME TypeOK, DataFitsArea, [Next]_vars PROVE DataFitsArea'
  OBVIOUS
<1>a. TypeOK'
  BY NextTypeOK
<1>1. UNCHANGED <<asked, initialLife, ended>> => DataFitsArea'
  BY DEF asked, DataFitsArea, Area, Copies
<1>2. CASE Frame
  BY <1>1, <1>2 DEF Frame, Runs
<1>3. CASE Tick
  BY <1>1, <1>3 DEF Tick, Runs
<1>4. CASE OnStart \/ OnStop \/ Cancel \/ Reject \/ OnSettings
  BY <1>1, <1>4 DEF OnStart, OnStop, Cancel, Reject, OnSettings, Runs
<1>5. ASSUME NEW fill \in Fills, OnRandom(fill) PROVE DataFitsArea'
  BY <1>a, <1>5, RandomStepFits DEF OnRandom, asked, Runs
<1>6. ASSUME NEW fill \in Fills, Accept(fill) PROVE DataFitsArea'
  BY <1>a, <1>6, RandomStepFits DEF Accept, Runs
<1>7. ASSUME NEW f \in LifeFiles, SetLifeFile(f) PROVE DataFitsArea'
  BY <1>7, SetLifeFileDataFits
<1>8. ASSUME NEW name \in RuleFiles, OpenCSFile(name) PROVE DataFitsArea'
  BY <1>1, <1>8 DEF OpenCSFile, Runs
<1>9. ASSUME NEW e \in Entries, Edit(e) PROVE DataFitsArea'
  BY <1>1, <1>9 DEF Edit, Runs
<1>10. CASE UNCHANGED vars
  BY <1>1, <1>10 DEF vars
<1>11. CASE FrameThrows
  BY <1>11 DEF FrameThrows, asked, DataFitsArea, Copies
<1>12. (\E name \in RuleFiles, content \in Rules \cup {Broken} : Save(name, content))
         => DataFitsArea'
  BY <1>1 DEF Save, Runs
<1> QED BY <1>2, <1>3, <1>4, <1>5, <1>6, <1>7, <1>8, <1>9, <1>10, <1>11, <1>12
        DEF Next, Ended

\* Unless the number of its cells wraps, the initial data fit the area a
\* simulator is created with, and a life file lies in its middle undistorted;
\* and only where it wraps is anything read or written out of bounds: for
\* every file, size and width of a UINT (see DataFitsArea).
THEOREM DataFits == Spec => []DataFitsArea
<1> QED BY InitTypeOK, NextTypeOK, InitDataFits, NextDataFits, PTL DEF Spec

-----------------------------------------------------------------------------
(* What is shown.                                                          *)

LEMMA InitShows == Init => ShowsWhatWasAsked /\ RuleFileSurvives
BY DEF Init, ShowsWhatWasAsked, RuleFileSurvives

\* A step either leaves alone what the property compares, marks it as
\* pending, or is a frame.
LEMMA NextShows == TypeOK /\ ShowsWhatWasAsked /\ [Next]_vars => ShowsWhatWasAsked'
<1> SUFFICES ASSUME TypeOK, ShowsWhatWasAsked, [Next]_vars PROVE ShowsWhatWasAsked'
  OBVIOUS
<1>1. UNCHANGED <<asked, initialLife, parametersModified, shown>> => ShowsWhatWasAsked'
  BY DEF asked, shown, ShowsWhatWasAsked
<1>2. CASE Frame
  <2>1. CASE parametersModified
    BY <1>2, <2>1 DEF Frame, Refresh, NewLife, NewWindow, asked, ShowsWhatWasAsked
  <2>2. CASE ~parametersModified
    BY <1>1, <1>2, <2>2 DEF Frame, Refresh
  <2> QED BY <2>1, <2>2
<1>3. CASE Tick
  BY <1>1, <1>3 DEF Tick
<1>4. CASE OnStart \/ OnStop \/ Cancel \/ Reject \/ OnSettings
  BY <1>1, <1>4 DEF OnStart, OnStop, Cancel, Reject, OnSettings, others
<1>5. (\E fill \in Fills : OnRandom(fill) \/ Accept(fill)) => ShowsWhatWasAsked'
  BY DEF OnRandom, Accept, ShowsWhatWasAsked
<1>6. (\E f \in LifeFiles : SetLifeFile(f)) => ShowsWhatWasAsked'
  BY DEF SetLifeFile, ShowsWhatWasAsked
<1>7. ASSUME NEW name \in RuleFiles, OpenCSFile(name) PROVE ShowsWhatWasAsked'
  <2>1. life'.w = life.w /\ life'.h = life.h /\ life'.data = life.data
    BY <1>7 DEF OpenCSFile, TypeOK
  <2> QED BY <1>7, <2>1 DEF OpenCSFile, asked, ShowsWhatWasAsked
<1>8. ASSUME NEW e \in Entries, Edit(e) PROVE ShowsWhatWasAsked'
  BY <1>1, <1>8 DEF Edit, others
<1>9. CASE UNCHANGED vars
  BY <1>1, <1>9 DEF vars
<1>10. CASE FrameThrows
  BY <1>1, <1>10 DEF FrameThrows
<1>11. (\E name \in RuleFiles, content \in Rules \cup {Broken} : Save(name, content))
         => ShowsWhatWasAsked'
  BY <1>1 DEF Save
<1> QED BY <1>2, <1>3, <1>4, <1>5, <1>6, <1>7, <1>8, <1>9, <1>10, <1>11 DEF Next, Ended

LEMMA NextRuleFile == TypeOK /\ RuleFileSurvives /\ [Next]_vars => RuleFileSurvives'
<1> SUFFICES ASSUME TypeOK, RuleFileSurvives, [Next]_vars PROVE RuleFileSurvives'
  OBVIOUS
<1>1. UNCHANGED <<computeShader, csFileName, shown, rules>> => RuleFileSurvives'
  BY DEF shown, rules, RuleFileSurvives
<1>2. CASE Frame
  <2>1. CASE parametersModified
    <3>1. /\ life'.rule = RuleOfNew
          /\ UNCHANGED <<computeShader, csFileName, disk, edited>>
      BY <1>2, <2>1 DEF Frame, Refresh, NewLife
    <3> QED BY <3>1 DEF RuleOfNew, Loads, RuleFileSurvives
  <2>2. CASE ~parametersModified
    BY <1>1, <1>2, <2>2 DEF Frame, Refresh, rules
  <2> QED BY <2>1, <2>2
<1>3. CASE Tick \/ FrameThrows
  BY <1>1, <1>3 DEF Tick, FrameThrows
<1>4. CASE OnStart \/ OnStop \/ Cancel \/ Reject \/ OnSettings
  BY <1>1, <1>4 DEF OnStart, OnStop, Cancel, Reject, OnSettings, others
<1>5. (\E fill \in Fills : OnRandom(fill) \/ Accept(fill)) => RuleFileSurvives'
  BY <1>1 DEF OnRandom, Accept, others
<1>6. (\E f \in LifeFiles : SetLifeFile(f)) => RuleFileSurvives'
  BY <1>1 DEF SetLifeFile, others
<1>7. ASSUME NEW name \in RuleFiles, OpenCSFile(name) PROVE RuleFileSurvives'
  <2>1. csFileName' = name /\ ~renewed' /\ UNCHANGED <<computeShader, disk>>
    BY <1>7 DEF OpenCSFile
  <2>2. computeShader /\ disk[name] # Broken => life'.rule = disk[name]
    BY <1>7 DEF OpenCSFile, Loads, TypeOK
  <2> QED BY <2>1, <2>2 DEF RuleFileSurvives
<1>8. ASSUME NEW e \in Entries, Edit(e) PROVE RuleFileSurvives'
  BY <1>1, <1>8 DEF Edit, others
<1>9. CASE UNCHANGED vars
  BY <1>1, <1>9 DEF vars
<1>10. ASSUME NEW name \in RuleFiles, NEW content \in Rules \cup {Broken}, Save(name, content)
       PROVE  RuleFileSurvives'
  <2>1. CASE name = csFileName
    BY <1>10, <2>1 DEF Save, RuleFileSurvives
  <2>2. CASE name # csFileName
    <3>1. /\ UNCHANGED <<computeShader, csFileName, shown, renewed>>
          /\ edited' = edited
      BY <1>10, <2>2 DEF Save, TypeOK
    <3>2. disk'[csFileName] = disk[csFileName] \/ csFileName = NoFile
      BY <1>10, <2>2 DEF Save, TypeOK
    <3> QED BY <3>1, <3>2 DEF shown, RuleFileSurvives
  <2> QED BY <2>1, <2>2
<1> QED BY <1>2, <1>3, <1>4, <1>5, <1>6, <1>7, <1>8, <1>9, <1>10 DEF Next, Ended

\* Once a frame has taken the pending parameters over, the simulator and the
\* window are the ones asked for.
THEOREM ShowsAsked == Spec => []ShowsWhatWasAsked
<1> QED BY InitTypeOK, NextTypeOK, InitShows, NextShows, PTL DEF Spec

\* A rule file that compiles is lost neither by a resize of the area nor by a
\* new life file, and one that does not leaves its predecessor in the running
\* simulator alone, as long as nobody writes it again (see RuleFileSurvives).
THEOREM RuleFileInForce == Spec => []RuleFileSurvives
<1> QED BY InitTypeOK, NextTypeOK, InitShows, NextRuleFile, PTL DEF Spec

-----------------------------------------------------------------------------
(* Time.                                                                   *)

\* dwTimePrevious is the time of the last generation.
ClockInv == \/ moved = {} /\ previous = Never
            \/ previous \in FirstTick .. LastTick /\ moved = {previous}

\* The cast to int is the identity where nothing wraps.
LEMMA AsIntIdentity ==
  ASSUME NEW half \in Nat, IntRange = 2 * half
  PROVE  \A n \in Int : -half <= n /\ n < half => AsInt(n) = n
<1>1. IntRange \in Nat \ {0}
  BY ClockAssumption DEF IntRange
<1>2. half > 0 /\ (2 * half) \div 2 = half
  BY <1>1
<1>3. \A n \in Int : 0 <= n /\ n < half => n % (2 * half) = n
  BY <1>2
<1>4. ASSUME NEW n \in Int, -half <= n, n < 0
      PROVE  n % (2 * half) = n + 2 * half
  <2>1. \A m \in Nat, x \in Int : m > 0 /\ -m <= x /\ x < 0 => x % m = x + m
    OBVIOUS
  <2> QED BY <1>2, <1>4, <2>1
<1> QED BY <1>1, <1>2, <1>3, <1>4 DEF AsInt

LEMMA NoWrap ==
  ASSUME ShortUptime, TypeOK, ClockInv
  PROVE  /\ AsInt(tick) = tick
         /\ AsInt(previous + updateInterval) = previous + updateInterval
<1>1. PICK half \in Nat : /\ IntRange = 2 * half
                          /\ LastTick + IntervalOf("slow") < half
                          /\ -Never <= half
  BY DEF ShortUptime
<1>2. IntervalOf("slow") = 4
  BY DEF IntervalOf
<1>3. tick \in FirstTick .. LastTick /\ FirstTick \in Nat /\ LastTick \in Nat
  BY ClockAssumption DEF TypeOK
<1>4. updateInterval \in 1 .. 4
  BY PanelParts DEF TypeOK
<1>5. LastTick + 4 < half /\ 20 <= half
  BY <1>1, <1>2 DEF Never
<1>6. tick \in Int /\ -half <= tick /\ tick < half
  BY <1>3, <1>5
<1>7. LET n == previous + updateInterval
      IN  n \in Int /\ -half <= n /\ n < half
  <2>1. CASE previous = Never
    BY <2>1, <1>4, <1>5 DEF Never
  <2>2. CASE previous \in FirstTick .. LastTick
    BY <2>2, <1>3, <1>4, <1>5
  <2> QED BY <2>1, <2>2 DEF ClockInv
<1> QED BY <1>1, <1>6, <1>7, AsIntIdentity

LEMMA NextClockInv == ShortUptime /\ TypeOK /\ ClockInv /\ [Next]_vars => ClockInv'
<1> SUFFICES ASSUME ShortUptime, TypeOK, ClockInv, [Next]_vars PROVE ClockInv'
  OBVIOUS
<1>1. UNCHANGED clock => ClockInv'
  BY DEF clock, ClockInv
<1>2. CASE Frame
  <2>1. CASE Due
    <3>1. AsInt(tick) = tick /\ tick \in FirstTick .. LastTick
      BY NoWrap DEF TypeOK
    <3> QED BY <1>2, <2>1, <3>1 DEF Frame, Advance, ClockInv
  <2>2. CASE ~Due
    BY <1>1, <1>2, <2>2 DEF Frame, Advance
  <2> QED BY <2>1, <2>2
<1>3. CASE Tick
  BY <1>1, <1>3 DEF Tick
<1>4. CASE OnStart \/ OnStop \/ Cancel \/ Reject \/ OnSettings
  BY <1>1, <1>4 DEF OnStart, OnStop, Cancel, Reject, OnSettings, others
<1>5. (\E fill \in Fills : OnRandom(fill) \/ Accept(fill)) => ClockInv'
  BY <1>1 DEF OnRandom, Accept, others
<1>6. (\E f \in LifeFiles : SetLifeFile(f)) => ClockInv'
  BY <1>1 DEF SetLifeFile, others
<1>7. (\E name \in RuleFiles : OpenCSFile(name)) => ClockInv'
  BY <1>1 DEF OpenCSFile
<1>8. (\E e \in Entries : Edit(e)) => ClockInv'
  BY <1>1 DEF Edit, others
<1>9. CASE UNCHANGED vars
  BY <1>1, <1>9 DEF vars
<1>10. CASE FrameThrows
  BY <1>1, <1>10 DEF FrameThrows
<1>11. (\E name \in RuleFiles, content \in Rules \cup {Broken} : Save(name, content))
         => ClockInv'
  BY <1>1 DEF Save
<1> QED BY <1>2, <1>3, <1>4, <1>5, <1>6, <1>7, <1>8, <1>9, <1>10, <1>11 DEF Next, Ended

LEMMA FrameKeepsTime ==
  ASSUME ShortUptime, TypeOK, ClockInv, Frame
  PROVE  age' > AgeBefore <=> running /\ \A t \in moved : tick - t > updateInterval
<1>1. Due <=> running /\ tick > previous + updateInterval
  BY NoWrap DEF Due
<1>2. tick \in Nat /\ updateInterval \in 1 .. 4
  BY ClockAssumption, PanelParts DEF TypeOK
<1>3. tick > previous + updateInterval <=> \A t \in moved : tick - t > updateInterval
  <2>1. CASE moved = {} /\ previous = Never
    BY <1>2, <2>1 DEF Never
  <2>2. CASE previous \in FirstTick .. LastTick /\ moved = {previous}
    <3>1. previous \in Int
      BY DEF TypeOK
    <3>2. tick > previous + updateInterval <=> tick - previous > updateInterval
      BY <1>2, <3>1
    <3> QED BY <2>2, <3>2
  <2> QED BY <2>1, <2>2 DEF ClockInv
<1>4. AgeBefore \in Nat
  BY DEF AgeBefore, TypeOK
<1>5. age' > AgeBefore <=> Due
  BY <1>4 DEF Frame, Advance
<1> QED BY <1>1, <1>3, <1>5

\* For every uptime below 2 ^ 31 milliseconds the canvas keeps the interval
\* the settings ask for: no generation comes early, and no frame after the
\* interval goes without one.
THEOREM KeepsTime == ShortUptime => (Spec => GenerationsKeepTime)
<1> SUFFICES ASSUME ShortUptime PROVE Spec => GenerationsKeepTime
  OBVIOUS
<1>1. Init => TypeOK /\ ClockInv
  BY InitTypeOK DEF Init, ClockInv
<1>2. TypeOK /\ ClockInv /\ [Next]_vars => (TypeOK /\ ClockInv)'
  BY NextTypeOK, NextClockInv
<1>3. TypeOK /\ ClockInv /\ [Next]_vars =>
        [Frame => (age' > AgeBefore
                     <=> running /\ \A t \in moved : tick - t > updateInterval)]_vars
  BY FrameKeepsTime
<1> QED BY <1>1, <1>2, <1>3, PTL DEF Spec, GenerationsKeepTime
-----------------------------------------------------------------------------
(* The settings.                                                           *)

LEMMA StepSettings ==
  ASSUME TypeOK, [Next]_vars
  PROVE  /\ Panel' # Panel =>
              \/ dialog /\ ~dialog' /\ Display(Panel') = fields
              \/ /\ width' >= width /\ height' >= height
                 /\ UNCHANGED <<generations, updateInterval, method>>
         /\ ~dialog /\ dialog' => fields' = Display(Panel)
<1> DEFINE Goal == /\ Panel' # Panel =>
                        \/ dialog /\ ~dialog' /\ Display(Panel') = fields
                        \/ /\ width' >= width /\ height' >= height
                           /\ UNCHANGED <<generations, updateInterval, method>>
                   /\ ~dialog /\ dialog' => fields' = Display(Panel)
<1>1. UNCHANGED asked => Panel' = Panel
  BY DEF asked, Panel
<1>2. ASSUME UNCHANGED <<asked, dialog>> PROVE Goal
  BY <1>1, <1>2
<1>3. CASE Frame \/ Tick
  BY <1>2, <1>3 DEF Frame, Tick, settings
<1>4. CASE OnStart \/ OnStop \/ Reject
  BY <1>2, <1>4 DEF OnStart, OnStop, Reject, settings
<1>5. CASE Cancel
  BY <1>1, <1>5 DEF Cancel
<1>6. CASE OnSettings
  BY <1>1, <1>6 DEF OnSettings, DataToShow
<1>7. ASSUME NEW fill \in Fills, OnRandom(fill) PROVE Goal
  BY <1>2, <1>7 DEF OnRandom, settings
<1>8. ASSUME NEW fill \in Fills, Accept(fill) PROVE Goal
  <2>1. fields \in EntryType
    BY DEF TypeOK
  <2>2. SpeedOf(IntervalOf(fields.speed)) = fields.speed
    BY <2>1, SpeedsAreIntervals DEF EntryType
  <2>3. Display(Panel') = [width |-> fields.width, height |-> fields.height,
                           generations |-> fields.generations,
                           speed |-> fields.speed, method |-> fields.method]
    BY <1>8, <2>2 DEF Accept, Display, Panel
  <2>4. Display(Panel') = fields
    BY <2>1, <2>3 DEF EntryType
  <2> QED BY <1>8, <2>4 DEF Accept
<1>9. ASSUME NEW f \in LifeFiles, SetLifeFile(f) PROVE Goal
  <2>1. width \in Nat /\ height \in Nat /\ f.w \in Nat /\ f.h \in Nat
    BY PanelParts, FilesAssumption DEF TypeOK
  <2>2. width' >= width /\ height' >= height
    BY <1>9, <2>1 DEF SetLifeFile, Larger
  <2> QED BY <1>9, <2>2 DEF SetLifeFile, settings
<1>10. ASSUME NEW name \in RuleFiles, OpenCSFile(name) PROVE Goal
  BY <1>2, <1>10 DEF OpenCSFile, settings
<1>11. ASSUME NEW e \in Entries, Edit(e) PROVE Goal
  BY <1>2, <1>11 DEF Edit
<1>12. CASE UNCHANGED vars
  BY <1>2, <1>12 DEF vars, settings
<1>13. CASE FrameThrows
  BY <1>2, <1>13 DEF FrameThrows, settings
<1>14. ASSUME NEW name \in RuleFiles, NEW content \in Rules \cup {Broken}, Save(name, content)
       PROVE  Goal
  BY <1>2, <1>14 DEF Save, settings
<1> QED BY <1>3, <1>4, <1>5, <1>6, <1>7, <1>8, <1>9, <1>10, <1>11, <1>12, <1>13, <1>14
        DEF Next, Ended

\* Settings are taken over whole or not at all, and the dialog opens with
\* the truth.
THEOREM SettingsWhole == Spec => SettingsAreWhole
<1>1. TypeOK /\ [Next]_vars =>
        [/\ Panel' # Panel =>
              \/ dialog /\ ~dialog' /\ Display(Panel') = fields
              \/ /\ width' >= width /\ height' >= height
                 /\ UNCHANGED <<generations, updateInterval, method>>
         /\ ~dialog /\ dialog' => fields' = Display(Panel)]_vars
  BY StepSettings
<1> QED BY <1>1, InitTypeOK, NextTypeOK, PTL DEF Spec, SettingsAreWhole
=============================================================================
