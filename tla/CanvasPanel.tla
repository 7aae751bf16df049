---------------------------- MODULE CanvasPanel ----------------------------
(***************************************************************************)
(* The canvas (CanvasPanel.cpp) with the commands of the ribbon that reach *)
(* it, the settings dialog (dialogs/SettingsDialog.cpp) and the clock.     *)
(*                                                                         *)
(* Everything runs on the one thread of the message loop: a command or a   *)
(* frame is one action.  A command never touches the simulator or the 3D   *)
(* window; it changes the parameters and sets m_parametersModified, and    *)
(* the next frame creates both anew.  The dialog is drawn by the canvas    *)
(* itself, so frames and ribbon commands go on while it is open.           *)
(*                                                                         *)
(* What the simulator computes and what the window draws is said by        *)
(* LifeSimulator and Draw3D; here they are the parameters they were        *)
(* created with and the number of generations since.  Time is counted in   *)
(* units of 500 milliseconds, the shortest interval of the dialog.         *)
(*                                                                         *)
(* Sizes, lengths and indexes are UINT: the product of two sizes that a    *)
(* life file may bring can wrap.  Memory is taken to suffice.              *)
(***************************************************************************)
EXTENDS Integers, FiniteSets

CONSTANTS
  InitialSize,   \* INITIAL_SIZE, 24
  MaxSize,       \* the largest size the dialog takes, 1024
  Word,          \* one more than the largest UINT, 2 ^ 32
  Fills,         \* the random fills rand() may give
  LifeFiles,     \* what LifeFile::Load may leave: [w, h, live]
  RuleFiles,     \* names of rule files
  Rules,         \* the rules that a file may hold
  Broken,        \* what does not compile, or cannot be read
  Conway,        \* the rule every simulator is created with
  NoFile,        \* the empty m_csFileName
  Entries,       \* what a user may leave in the fields of the dialog
  TickBits,      \* the width of int
  FirstTick,     \* the uptime of Windows when the program starts
  LastTick       \* the uptime to which the model follows it

ASSUME SizeAssumption ==
  /\ MaxSize \in Nat \ {0}
  /\ InitialSize \in 1 .. MaxSize
  /\ Word \in Nat \ {0}
  /\ MaxSize * MaxSize < Word

ASSUME FilesAssumption ==
  /\ Fills # {} /\ Fills \cap LifeFiles = {}
  /\ NoFile \notin RuleFiles
  /\ Broken \notin Rules
  /\ \A f \in LifeFiles :
       /\ f.w \in 0 .. Word - 1 /\ f.h \in 0 .. Word - 1
       /\ f.live \subseteq (0 .. f.w - 1) \X (0 .. f.h - 1)

Methods == {"CPU", "GPU"}
Speeds == {"slow", "normal", "fast"}

\* Sizes are typed; -1 stands for a text that is not all digits, and the
\* empty text counts as 0.
EntryType == [width : Int, height : Int, generations : Int,
              speed : Speeds, method : Methods]

ASSUME EntriesAssumption == Entries \subseteq EntryType

\* The second conjunct is arithmetic that the provers do not know.
ASSUME ClockAssumption ==
  /\ TickBits \in Nat \ {0}
  /\ 2 ^ TickBits \in Nat \ {0}
  /\ FirstTick \in Nat /\ LastTick \in Nat
  /\ FirstTick <= LastTick

VARIABLES
  computeShader,       \* IsComputeShaderSupported()
  width, height,       \* m_lifeAreaWidth, m_lifeAreaHeight
  generations,         \* m_numberOfGenerations
  updateInterval,      \* m_updateInterval
  method,              \* m_vertexGenerationMethod
  initialLife,         \* m_initialLifeData: [length, source, cells]
  csFileName,          \* m_csFileName
  parametersModified,  \* m_parametersModified
  running,             \* m_running
  life,                \* *m_pLifeSimulator: [w, h, data, rule]
  window,              \* *m_pDraw3D: [method, depth]
  age,                 \* generations since the simulator was created
  dialog,              \* the settings dialog is displayed
  settingData,         \* SettingsDialog::m_settingData
  fields,              \* the text fields and radio buttons
  tick,                \* GetTickCount()
  previous,            \* dwTimePrevious
  moved,               \* when the last generation was, {} before the first
  disk,                \* what the rule files hold
  edited,              \* history: the open one was written since it was opened
  renewed,             \* history: a simulator was created since then
  ended                \* the program has thrown, or written past its data

asked == <<width, height, generations, updateInterval, method>>
settings == <<dialog, settingData, fields>>
shown == <<life, window>>
clock == <<previous, moved>>
rules == <<disk, edited, renewed>>
vars == <<computeShader, asked, initialLife, csFileName, parametersModified,
          running, shown, age, settings, tick, clock, rules, ended>>

-----------------------------------------------------------------------------
(* The initial data.                                                       *)

Length(w, h) == (w * h) % Word

\* RandomizeInitialData, after the size is set.
RandomData(fill, w, h) == [length |-> Length(w, h), source |-> fill, cells |-> {}]

Larger(a, b) == IF a > b THEN a ELSE b

\* Mutant: the stride of the file instead of that of the area.
StrideOfFile(f, w, h, p) ==
  (p[1] + (w - f.w) \div 2 + (p[2] + (h - f.h) \div 2) * f.w) % Word

\* Where a cell of a file in the middle of the area is written.
Index(f, w, h, p) ==
  (p[1] + (w - f.w) \div 2 + (p[2] + (h - f.h) \div 2) * w) % Word

Cells(f) == (0 .. f.w - 1) \X (0 .. f.h - 1)

\* All cells are written, dead ones as well, and no index is checked.
Overruns(f, w, h) == \E p \in Cells(f) : Index(f, w, h, p) >= Length(w, h)

\* Two cells share a place only in an area that wraps, whose data no
\* simulator gets to see.
FileData(f, w, h) ==
  [length |-> Length(w, h), source |-> f, cells |-> {Index(f, w, h, p) : p \in f.live}]
-----------------------------------------------------------------------------
(* The simulator and the 3D window a frame creates.                        *)

\* Mutant: the name of the rule file forgotten.
ForgottenRule == Conway

\* LoadRuleFile: it reads and compiles the file, which the CPU simulator
\* does not do.
Loads(name) == computeShader /\ disk[name] # Broken

\* The rule of a new simulator: that of the named file as it is now, or the
\* built-in one.
RuleOfNew ==
  IF csFileName # NoFile /\ Loads(csFileName) THEN disk[csFileName] ELSE Conway

NewLife == [w |-> width, h |-> height, data |-> initialLife, rule |-> RuleOfNew]

\* Mutant: the method is not asked for.
AlwaysShader == [method |-> "GPU", depth |-> generations]

NewWindow == [method |-> method, depth |-> generations]

\* Mutant: m_parametersModified = false is forgotten.
RefreshAlways ==
  \/ /\ parametersModified
     /\ life' = NewLife /\ window' = NewWindow
     /\ renewed' = TRUE
     /\ UNCHANGED parametersModified
  \/ /\ ~parametersModified
     /\ UNCHANGED <<shown, parametersModified, renewed>>

\* InitializeLifeSimulator at the beginning of a frame, when it does not throw.
Refresh ==
  \/ /\ parametersModified
     /\ life' = NewLife /\ window' = NewWindow
     /\ parametersModified' = FALSE
     /\ renewed' = TRUE
  \/ /\ ~parametersModified
     /\ UNCHANGED <<shown, parametersModified, renewed>>
-----------------------------------------------------------------------------
(* The clock.                                                              *)

\* A DWORD, or the sum of two ints, as an int.
IntRange == 2 ^ TickBits
AsInt(n) ==
  LET m == n % IntRange IN IF m < IntRange \div 2 THEN m ELSE m - IntRange

\* dwTimePrevious = -9999.
Never == -20

\* Mutant: a generation as soon as the interval is reached.
DueEarly == running /\ AsInt(tick) >= AsInt(previous + updateInterval)

Due == running /\ AsInt(tick) > AsInt(previous + updateInterval)

AgeBefore == IF parametersModified THEN 0 ELSE age

\* MoveToNextGeneration, when it is due.
Advance ==
  \/ /\ Due
     /\ age' = AgeBefore + 1
     /\ previous' = AsInt(tick)
     /\ moved' = {tick}
  \/ /\ ~Due
     /\ age' = AgeBefore
     /\ UNCHANGED clock

Runs == ~ended /\ UNCHANGED ended

\* The simulator copies the data cell by cell with the same indexes, each
\* checked against the length: one is out of range exactly if that wraps.
Copies == width * height < Word

\* One execution of Draw3D.
Frame ==
  /\ Runs
  /\ parametersModified => Copies
  /\ Refresh
  /\ Advance
  /\ UNCHANGED <<computeShader, asked, initialLife, csFileName, running,
                 settings, tick, disk, edited>>

FrameThrows ==
  /\ ~ended
  /\ parametersModified /\ ~Copies
  /\ ended' = TRUE
  /\ UNCHANGED <<computeShader, asked, initialLife, csFileName, parametersModified,
                 running, shown, age, settings, tick, clock, rules>>

Tick ==
  /\ Runs
  /\ tick < LastTick
  /\ tick' = tick + 1
  /\ UNCHANGED <<computeShader, asked, initialLife, csFileName,
                 parametersModified, running, shown, age, settings, clock, rules>>
-----------------------------------------------------------------------------
(* Commands of the ribbon.                                                 *)

others == <<computeShader, shown, age, tick, clock, rules>>

OnStart ==
  /\ Runs
  /\ running' = TRUE
  /\ UNCHANGED <<asked, initialLife, csFileName, parametersModified, settings, others>>

OnStop ==
  /\ Runs
  /\ running' = FALSE
  /\ UNCHANGED <<asked, initialLife, csFileName, parametersModified, settings, others>>

OnRandom(fill) ==
  /\ Runs
  /\ initialLife' = RandomData(fill, width, height)
  /\ parametersModified' = TRUE
  /\ UNCHANGED <<asked, csFileName, running, settings, others>>

\* OnOpenFile loads and SetLifeFile takes over whatever Load left: the area
\* grows to hold it and never shrinks.
SetLifeFile(f) ==
  /\ ~ended
  /\ width' = Larger(width, f.w)
  /\ height' = Larger(height, f.h)
  /\ initialLife' = FileData(f, width', height')
  /\ ended' = Overruns(f, width', height')
  /\ parametersModified' = TRUE
  /\ UNCHANGED <<generations, updateInterval, method, csFileName, running,
                 settings, others>>

\* OpenCSFile remembers the name and loads the file into the simulator that
\* runs; one that does not compile, or any on the CPU, only brings a message.
OpenCSFile(name) ==
  /\ Runs
  /\ csFileName' = name
  /\ life' = IF Loads(name) THEN [life EXCEPT !.rule = disk[name]] ELSE life
  /\ edited' = FALSE /\ renewed' = FALSE
  /\ UNCHANGED <<computeShader, asked, initialLife, parametersModified,
                 running, window, age, settings, tick, clock, disk>>

\* An editor, or whatever else writes, moves or removes a rule file.
Save(name, content) ==
  /\ Runs
  /\ disk' = [disk EXCEPT ![name] = content]
  /\ edited' = (edited \/ name = csFileName)
  /\ UNCHANGED <<computeShader, asked, initialLife, csFileName, parametersModified,
                 running, shown, age, settings, tick, clock, renewed>>
-----------------------------------------------------------------------------
(* The settings dialog.                                                    *)

IntervalOf(speed) ==
  CASE speed = "slow" -> 4 [] speed = "normal" -> 2 [] speed = "fast" -> 1

SpeedOf(interval) ==
  CASE interval < 2 -> "fast" [] interval > 2 -> "slow" [] OTHER -> "normal"

Panel == [width |-> width, height |-> height, generations |-> generations,
          updateInterval |-> updateInterval, method |-> method]

\* What the fields are filled with before the dialog is displayed.
Display(data) ==
  [width |-> data.width, height |-> data.height,
   generations |-> data.generations,
   speed |-> SpeedOf(data.updateInterval), method |-> data.method]

\* Mutant: SetData is not called.
DataForDialog == settingData

DataToShow == Panel

\* OnSettings, also when the dialog is displayed already.
OnSettings ==
  /\ Runs
  /\ dialog' = TRUE
  /\ settingData' = DataToShow
  /\ fields' = Display(settingData')
  /\ UNCHANGED <<asked, initialLife, csFileName, parametersModified, running, others>>

\* The user types and clicks.
Edit(e) ==
  /\ Runs
  /\ dialog
  /\ fields' = e
  /\ UNCHANGED <<asked, initialLife, csFileName, parametersModified, running,
                 dialog, settingData, others>>

\* Mutant: zero is let through.
ValidOrZero(n) == n \in 0 .. MaxSize

Valid(n) == n \in 1 .. MaxSize

Accepted == Valid(fields.width) /\ Valid(fields.height) /\ Valid(fields.generations)

\* OK with a size that is not valid: the sizes before it are already stored
\* in m_settingData when the error is shown.
Reject ==
  /\ Runs
  /\ dialog
  /\ ~Accepted
  /\ settingData' =
       [settingData EXCEPT
          !.width  = IF Valid(fields.width) THEN fields.width ELSE @,
          !.height = IF Valid(fields.width) /\ Valid(fields.height)
                     THEN fields.height ELSE @]
  /\ UNCHANGED <<asked, initialLife, csFileName, parametersModified, running,
                 dialog, fields, others>>

\* OK: the callback copies the data to the canvas and fills it at random.
Accept(fill) ==
  /\ Runs
  /\ dialog
  /\ Accepted
  /\ width' = fields.width
  /\ height' = fields.height
  /\ generations' = fields.generations
  /\ updateInterval' = IntervalOf(fields.speed)
  /\ method' = fields.method
  /\ settingData' = Panel'
  /\ initialLife' = RandomData(fill, width', height')
  /\ parametersModified' = TRUE
  /\ dialog' = FALSE
  /\ UNCHANGED <<csFileName, running, fields, others>>

Cancel ==
  /\ Runs
  /\ dialog
  /\ dialog' = FALSE
  /\ UNCHANGED <<asked, initialLife, csFileName, parametersModified, running,
                 settingData, fields, others>>
-----------------------------------------------------------------------------
(* The constructor, and CreateD3DResources on the first OnRender, which    *)
(* creates the device; no command comes before it.                         *)
Init ==
  /\ computeShader \in BOOLEAN
  /\ width = InitialSize /\ height = InitialSize
  /\ generations = InitialSize
  /\ updateInterval = 2
  /\ method = "GPU"
  /\ \E fill \in Fills : initialLife = RandomData(fill, width, height)
  /\ csFileName = NoFile
  /\ parametersModified = TRUE
  /\ running = FALSE
  /\ life = NewLife
  /\ window = NewWindow
  /\ age = 0
  /\ dialog = FALSE
  /\ settingData = Panel
  /\ fields = [width |-> InitialSize, height |-> InitialSize,
               generations |-> InitialSize, speed |-> "slow", method |-> "CPU"]
  /\ tick = FirstTick
  /\ previous = Never
  /\ moved = {}
  /\ disk \in [RuleFiles -> Rules \cup {Broken}]
  /\ edited = FALSE /\ renewed = FALSE
  /\ ended = FALSE

\* The process is gone, or may do anything.
Ended == ended /\ UNCHANGED vars

Next ==
  \/ Frame
  \/ FrameThrows
  \/ Tick
  \/ OnStart
  \/ OnStop
  \/ \E fill \in Fills : OnRandom(fill) \/ Accept(fill)
  \/ \E f \in LifeFiles : SetLifeFile(f)
  \/ \E name \in RuleFiles : OpenCSFile(name)
  \/ \E name \in RuleFiles, content \in Rules \cup {Broken} : Save(name, content)
  \/ OnSettings
  \/ \E e \in Entries : Edit(e)
  \/ Reject
  \/ Cancel
  \/ Ended

\* OnRender invalidates the window again, so that frames come as long as the
\* thread is not busy; nothing else is fair.
Spec == Init /\ [][Next]_vars /\ WF_vars(Frame \/ FrameThrows)
-----------------------------------------------------------------------------
(* Properties.                                                             *)

\* The program starts and is followed for less than 2 ^ 31 milliseconds of
\* uptime, so that neither the tick nor previous + updateInterval wraps.
ShortUptime ==
  \E half \in Nat : /\ IntRange = 2 * half
                    /\ LastTick + IntervalOf("slow") < half
                    /\ -Never <= half

Area == 0 .. width * height - 1
PanelType == [width : Nat \ {0}, height : Nat \ {0}, generations : 1 .. MaxSize,
              updateInterval : {1, 2, 4}, method : Methods]
DataType == [length : Nat, source : Fills \cup LifeFiles, cells : SUBSET Int]

\* Types; whatever is typed in the dialog, no size of the canvas is ever
\* zero, negative or (the depth) more than the dialog allows.
TypeOK ==
  /\ computeShader \in BOOLEAN
  /\ Panel \in PanelType
  /\ initialLife \in DataType
  /\ csFileName \in RuleFiles \cup {NoFile}
  /\ parametersModified \in BOOLEAN
  /\ running \in BOOLEAN
  /\ life \in [w : Nat \ {0}, h : Nat \ {0}, data : DataType,
               rule : Rules \cup {Conway}]
  /\ window \in [method : Methods, depth : 1 .. MaxSize]
  /\ age \in Nat
  /\ dialog \in BOOLEAN
  /\ settingData \in PanelType
  /\ fields \in EntryType
  /\ tick \in FirstTick .. LastTick
  /\ previous \in Int
  /\ moved \subseteq FirstTick .. tick
  /\ disk \in [RuleFiles -> Rules \cup {Broken}]
  /\ edited \in BOOLEAN /\ renewed \in BOOLEAN
  /\ ended \in BOOLEAN

\* Unless the number of cells of the area wraps, which no size of the dialog
\* but two life files one after the other can bring about, nothing is read or
\* written out of bounds: the initial data have one cell for each cell of the
\* area, and a life file lies in its middle, each live cell in the column and
\* row it had in the file.
DataFitsArea ==
  /\ ended => ~Copies
  /\ Copies =>
       /\ initialLife.length = width * height
       /\ initialLife.cells \subseteq Area
       /\ initialLife.source \in LifeFiles =>
            LET f == initialLife.source
            IN  initialLife.cells =
                  {c \in Area : <<(c % width) - (width - f.w) \div 2,
                                  (c \div width) - (height - f.h) \div 2>> \in f.live}

\* When nothing is pending, the simulator and the 3D window are the ones the
\* parameters ask for, whatever commands, settings and frames came in which
\* order.
ShowsWhatWasAsked ==
  ~parametersModified =>
    /\ life.w = width /\ life.h = height /\ life.data = initialLife
    /\ window = [method |-> method, depth |-> generations]

\* As long as the rule file that was opened last is not written again: if it
\* compiles, its rule is in force from then on, also in every simulator that
\* is created afterwards; if not, the simulator that runs keeps the rule it
\* had, and every simulator that is created afterwards has the built-in one.
RuleFileSurvives ==
  computeShader /\ csFileName # NoFile /\ ~edited =>
    IF disk[csFileName] # Broken THEN life.rule = disk[csFileName]
                                 ELSE renewed => life.rule = Conway

\* m_updateInterval is in milliseconds: while the canvas runs, a frame moves
\* to the next generation exactly when more than that has passed since the
\* last one (or there was none).
GenerationsKeepTime ==
  [][Frame =>
       (age' > AgeBefore
          <=> running /\ \A t \in moved : tick - t > updateInterval)]_vars

\* The settings of the dialog reach the canvas all together, as the fields
\* show them, or not at all; a file only makes the area grow; and the dialog
\* opens with the parameters of the canvas, whatever a rejected OK or a
\* cancelled edit left behind.
SettingsAreWhole ==
  [][/\ Panel' # Panel =>
          \/ /\ dialog /\ ~dialog'
             /\ Display(Panel') = fields
          \/ /\ width' >= width /\ height' >= height
             /\ UNCHANGED <<generations, updateInterval, method>>
     /\ ~dialog /\ dialog' => fields' = Display(Panel)]_vars

\* Whatever was asked for is in effect after some frame, unless the area
\* wraps and the program ends.
SettingsTakeEffect == parametersModified ~> ~parametersModified \/ ended
=============================================================================
