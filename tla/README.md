# A verification of Game of Life 3D

TLA+ models of the program in `src/`, the TLC runs that check them, and
theorems about them that TLAPS checks. Paths below are relative to
`src/GameOfLife3DLib/` unless they begin with `src/`.

## The system

Game of Life 3D is a Windows program with one message loop. It computes
generations of a cellular automaton with a DirectCompute shader or, where that
is not supported, on the CPU, and draws the last generations as layers of cubes
with Direct3D 11. A 2D user interface (dialogs, text fields, scroll bars) is
drawn over the cubes with Direct2D into a surface that both devices share.

| component | state it keeps | operations | talks to |
|---|---|---|---|
| life simulators (`gameoflife3d/lifeSimulator`, `src/GameOfLife3D/shaders/gameoflife.fx`) | two buffers of cells, the index of the current and of the next one, a rule or a compiled shader | `Initialize`, `Compute`, `CopyNext`, `LoadRuleFile` | called by the 3D windows; worker threads or the GPU inside |
| 3D windows (`gameoflife3d/draw3d`, `src/GameOfLife3D/shaders/simple_d3d_gs.fx`) | the last generations as vertexes or as cells, the vertex and index buffers | `Initialize`, `MoveNextGeneration`, `Draw3D` | the simulator, the device |
| canvas (`gameoflife3d/CanvasPanel.cpp`) | size of the area, number of generations, interval, method, initial cells, rule file, pending flag, running flag, clock | commands of the ribbon, settings callback, one frame | creates simulator and window; owns the dialog |
| settings dialog (`gameoflife3d/dialogs`) | the data it was opened with, its fields | display, OK, Cancel | callback into the canvas |
| main window and ribbon (`gameoflife3d/MainWnd.cpp`, `Ribbon.cpp`) | none of interest | one method for each command | the canvas, life files |
| life files (`gameoflife3d/io`) | width, height, cells | `Load` of three formats, `Save` of two | canvas |
| device helper (`graphics/D3DInteropHelper.cpp`) | D3D11 device, compute device, D3D10.1 device, a chain of sized resources, the keyed mutex | create, discard, resize, one frame | calls the canvas back to draw |
| text store (`ui/UITextStoreACP.cpp`, `tsf/MessageQueue.h`, `ui/UITextField.cpp`) | text, selection, document lock, pending lock, layout | `RequestLock` and the calls under a lock | the Text Services Framework |
| UI elements (`ui/`) | children pressed, dragged and hovered over, focus, the dialog displayed, looks of buttons, values of scroll bars | mouse and key events, layout | each other |
| touch (`touch/`) | status of a drag, timer of the double click | mouse, touch and timer messages | the UI elements |
| drawing, animation, utilities | caches of device objects | drawing | none |

What is hard here: cells are computed by threads that read a shared buffer while
others write, or by a GPU that runs behind the program; the two windows keep the
same history in different ways and derive the same picture from it, one with two
buffers whose capacity and indexes are computed apart, the other in a shader from
a running number; commands, the open dialog and frames interleave on the message
loop and nothing but a flag says that the simulator lags behind the parameters;
time is a 32 bit counter cast to int; devices fail half way and get lost; two
devices take turns on one surface by the values of a mutex's keys; a text service
calls into the text at moments of its own choice; mouse messages come in orders
nobody meant; files are read into arrays nobody measured. The correctness of each
part, stated in the modules: the simulator makes generations of Conway's rule and
its client sees all of them; a window shows its history, cube by cell; the canvas
shows what was asked, whole, on time and eventually; a frame uses only what was
created, waits for nobody for ever and comes again; edits of the two sides of a
text exclude each other and add up; a press, a drag, the focus and a look belong
to the element they began on; a file is loaded with its cells and nothing else is
overwritten.

## Modules

    Conway                     what a generation is
      GameOfLife               abstract simulator    <--- implemented by ---.
      LifeSimulator            both simulators  ----------------------------'
        LifeSimulatorProofs
        MCLifeSimulator
    History                    abstract window       <--- implemented by ---.
    Draw3D                     both windows, shaders -----------------------'
      SequenceLemmas         induction, FlattenSeq, sets in order
      Draw3DProofs
      MCDraw3D
    CanvasPanel                canvas, dialog, commands, clock
      CanvasPanelProofs
      MCCanvasPanel
    DeviceResources            device helper and its frame
      DeviceResourcesProofs
      MCDeviceResources
    TextStore                  a text, its store and the text service
      TextStoreProofs
      MCTextStore
    UI                         mouse, root, dialog, elements
      UIProofs
      MCUI
    LifeFile                   loading and saving
      LifeFileProofs
      MCLifeFile

**Conway** and **GameOfLife** do not look at the code. `Generation` is defined
from cells that touch, not from the eight offsets and the bounds check of the
program; `LifeSimulator` has those (`SumIndex`, `Inside`, `Counted`, `Lives`),
and that the two agree is a lemma of the proofs and part of each run.

**LifeSimulator**. `buffer`, `currentIndex` and `nextIndex` are the members of
the two classes; `src`, `dst` and `active` are what the running `parallel_for` or
queued `Dispatch` has bound. `Compute` starts one, `Read` and `Write` are the two
halves of the body for one cell, `Finish` is its end, `CopyNext` the end of
`MoveNextGeneration`. `backend` chooses the class. `LifeSimulatorCS.cpp:9`
defines `DEBUG_LIFESIMULATOR`, and the dumps it turns on map the buffers, so that
`Compute` waits for the GPU; without it only the `Map` in `CopyNext` does, and the
indexes are swapped while the GPU still works. The constant `DebugLifeSimulator`
says which build is meant, and both are checked.

**History** and **Draw3D**. `generations` is `m_generationVertexData` or
`m_lifeDataArray`, each generation the set of its live cells, since the vertexes
and indexes `Add` computes are a function of it: `InOrder` lists the cells as the
loop of `Add` meets them, `IndexSum` is the running `indexSum` of `CopyIndexes`. A
cube has at least one triangle, and its indexes come by threes (`CornersAssumption`).
`Update` copies them all, with
the checks that throw, and sets `failed` if they do. `picture` is what a draw call
makes of the buffers: `DrawIndexed` looks vertexes up through indexes,
`DrawPoints` applies the vertex and the geometry shader to the number of each
cell.

**CanvasPanel**. One action for each command (`OnStart`, `OnStop`, `OnRandom`,
`SetLifeFile`, `OpenCSFile`, `OnSettings`), for each thing a user does in the
dialog (`Edit`, `Reject` and `Accept` for OK, `Cancel`), for a frame and for the
clock. A frame first creates simulator and window if `m_parametersModified` is
set, then moves to the next generation if it is due. The dialog is drawn by the
canvas itself, so commands and frames go on while it is open. `Init` is the state
after the constructor and `CreateD3DResources`, which runs before any command can
be given. Time is in units of 500 ms, so the -9999 the clock starts with is -20
units. What a life file holds after `Load` is a constant, an empty one included
(a failed `Load`); where it comes from is `LifeFile`. `Length` and `Index` are the
UINT products of `SetLifeFile`: they wrap at `Word`, so that two files, one wide and
one tall, can make an area whose number of cells wraps. Then either `SetLifeFile`
writes past the data or the next frame gives up (`FrameThrows`: the simulators copy
cell by cell, with the checked `at`), and `ended` is set. A rule file is read and
compiled again for every new simulator (`RuleOfNew`), and `disk` says what it holds
at that moment: `Save` is an editor that may write, break or remove any of them at
any time. `edited` and `renewed` are histories for the property about them.

**DeviceResources**. What exists is a prefix of a chain, since each step of
`CreateDeviceResources` and `_RecreateSizedResources11` needs the ones before:
`devices` counts four (Direct3D 11, swap chain, Direct3D 10, what the canvas
draws), `sized` ten (from the back buffer over the shared texture and its two
keyed mutexes to the Direct2D target). `Reach` says how far a call gets when a step
fails, `Stop` which steps can. The user interface makes its brushes and text formats
in `CreateD2DResources`, which `CreateDeviceResources` calls only when the sized
resources succeed at once, and which nothing else calls: `ui` says whether it ever
ran and whether its work was discarded since. The scroll bars alone get new brushes
at every layout (`LayoutComponents`, `barsLost`). `shown` is the dialog and the label
with the frames per second, which the user brings up and takes away between frames;
drawing them without their brushes throws (`Undrawable`). A frame is three actions,
`Paint`, `Draw2D` and `Draw3D`, because the two keyed waits lie between them; `key` is
the key the mutex waits with. `OnResize` comes between frames, and a size may be empty:
the first one as well, for which a debug build ends in the assertions of
`D3DInteropHelper.cpp:350`; the release build is modelled. `failed` remembers that a
call of Windows failed. `crashed` is the use of a pointer that is null, or an exception
that nobody catches, `stuck` a wait without limit.

**TextStore**. Of a text only the length is kept: `acpStart`, `acpEnd` and
`activeEnd` are positions in it. The application types, deletes, moves, clicks and
sets the text (`SetText`, of the dialog, without a lock and without a report); the
service asks for locks (`RequestLock`, `RequestUpgrade`), selects, inserts and sets
the text under them, and `Unlock` returns the lock and grants what is `pending`.
What the constructor leaves uninitialised may have either value in `Init`. `synced`
remembers whether the service has been told of every edit, `loose` whether the
selection was left behind the text by a path that does not move it; positions that
the service sends are in the text while `synced`, and any otherwise.

**UI**. The children of the program: scroll bars on the root; fields, radio
buttons, buttons and labels in the dialog. `AbstractManipulationHelper` is `down`,
`drag`, `lastPoint` and `timer`, with one action for each message and, for
`WM_MOUSEMOVE`, one part for each branch; `UIContainer` is `Press`, `Release`,
`StartDrag`, `Drag`, `EndDrag`, `Hover` and `Leave`, sent to the root or to the
dialog by `Side`. `LoseUp` is a release that goes to another window, `LeftUpFails`
one that `SetTimer` swallows, and `ShowDialog` may come at any moment, by keyboard.
Four histories say what went wrong before: the `origin` of the press, `orphans`
whose release was lost, sides whose drag was `cut` off, and `misled`, a radio
button that was given the focus it already seemed to have.

**LifeFile**. `Open` looks at the first line and makes a new object, one action
reads a line (`ReadPosition`, `ReadTooShort`, whose missing numbers are whatever was
in memory, `ReadRow` of a picture, `ReadOurs` of a file that was saved), `Place`
sizes the area and writes the cells, `Save` writes what `GetLifeData` shows.
Numbers have `Word` values, so that the product of the sizes wraps around. The
class is modelled with its whole interface; the program only ever saves a new object
(`OnSaveFileAs`), because `GetLifeFile` does nothing, and the type index it tests
for 0 counts from 1: what it saves is an empty Life 1.06 file under either name.

## Runs

| run | instance | what it shows |
|---|---|---|
| `simulator` | 2 threads; CPU: all 16 worlds of 2x2 and a blinker on 3x3; compute shader: 2x2, 2x3, 3x2; a second rule | `TypeOK`, `NoDataRace`, `RefinesGameOfLife`, `CopiesAreConsecutive` in every interleaving |
| `simulator_async` | the compute shader boards without the debug dumps | the same when the indexes are swapped before the GPU has begun |
| `simulator_tall` | a 2x3 board on the CPU | finding: not the Game of Life on an area taller than wide |
| `window` | CPU windows 2x1x3, 2x2x2, 3x1x1, 1x2x2 and shader windows 1x2x3, 3x1x2, 2x2x2 with a cube of one face, all worlds | `OnlyTallOverMax`, `IndexesNameTheirCube`, `PictureShowsHistory`, `RefinesHistory` |
| `window_tall` | a CPU window 1x2x2 | finding: the buffers are too small and the copy throws |
| `canvas` | sizes up to 2 for 1024, UINTs below 12, a row of 4, a column of 7 and one of 2 cells, an empty file, entries valid, zero and too deep; clock stopped, no rule file | `DataFitsArea`, `ShowsWhatWasAsked`, `SettingsAreWhole`, `SettingsTakeEffect` |
| `canvas_clock` | no life files, a rule file that may be written and broken at any time, with and without compute shader, every speed, 12 ticks of a 6 bit clock far from half its range | `RuleFileSurvives`, `GenerationsKeepTime` |
| `canvas_late` | a clock that starts at half its range | finding: no generation is ever shown |
| `device` | every step may fail at every call, the device may be lost, the window resized, minimised and painted, the dialog and the label shown in any order | `SafeUnlessFailed`, `WaitsOnlyHalfway`, `KeyReturned`, `ShowsWhole`, `KeepsDrawing` |
| `text` | texts up to 3 characters, edits of both sides in every order, positions of the service up to the longest text | `SelectionInText`, `OnlyLooseThrows`, `LayoutFollows`, `ReportsAddUp`, `Exclusive`, `UpgradeGranted` |
| `mouse` | a scroll bar and, at the same place in the dialog, the OK button, which may reject; a field, a radio button, free space and a point outside | `KeysFollow`, `LooksFollow`, `ClosesAsPressed`, `MovesWhatIsHeld` |
| `life_file` | files of up to two lines of each format, coordinates -1, 0, 1 and 3, numbers of three bits; saved, loaded and saved again | `LoadsItsCells`, `SurvivesSaving` |

The bounds. A board of 3x3 has corner, edge and inner cells and two threads give
every order of two cells' reads and writes; a third thread adds nothing, since a
thread touches only its own cell of the target buffer. A depth of 3 with more
than three moves fills a history and pushes worlds out, and one face of the cube
(4 vertexes, 6 indexes) has the same index arithmetic as six. In the canvas a
largest size of 2 gives the values below, at and above the limit. Files can be
opened in every order: the column of 2 lies in the middle of an area of 4 columns or
7 rows, the row of 4 and the column of 7 make 28 cells, which wrap at 12 to 4 and are
written past the data in one order and not in the other. All areas of the dialog stay
below 12, as those of 1024 do below 2^32. `TickBits` = 6 keeps 2^5 half ticks where
the program has 2^31 milliseconds.

The chain of devices has its real length. Three characters give a selection with
text before, in and after it. In `mouse` two things at one place, one on each side,
make every event that is sent to the wrong side count; one child of each kind with
free space lets a press, a drag and a release begin and end on and beside it. Three
bits make 4 by 2 cells an area whose size wraps to 0, as 65536 by 65536 does in 32.

In the canvas only the frame is fair (`WF_vars(Frame \/ FrameThrows)`): `OnRender` ends with
`Invalidate`, so that Windows sends `WM_PAINT` whenever the queue is otherwise
empty. Commands, edits and the clock are the environment's and may stop.
`SettingsTakeEffect` needs no more, and takes for granted that a frame comes; that one
does is `KeepsDrawing`, which splits the frame into its parts and needs each of them
fair, and `SetHWnd`, which the start of the program does once.
`UpgradeGranted` needs `WF_vars(Unlock)`: a service returns from its callback, and
an edit of the application from its handler. `UI` and `LifeFile` promise nothing
that must happen and assume no fairness. `window` has no deadlock check because the program ends
when a copy throws; where a device fails, an area wraps or a text is out of range the end is a
state of the model (`Stopped`, `Ended`), and the other runs never stop.

## Findings

- `LifeSimulatorCPU.cpp:53` bounds rows by the width. On areas taller than wide
  the CPU simulator ignores neighbours, on wider ones it reads past the buffer
  (what it may read is left open by the model).
- `VertexGenerator.h:147` computes capacities from the width alone; on areas
  taller than wide `vertex index over max` is thrown and ends the program.
- `CanvasPanel.cpp:592` compares ticks as signed ints, so that a program started
  when Windows has been up for 25 days shows no generation for weeks.

## Theorems

TLAPS proves these for every value of the constants that satisfies the assumptions
declared with them (`BoardsAssumption`, `SizesAssumption`, `FilesAssumption`, ...,
which say no more than that sizes are positive and cells lie in their area).

*LifeSimulator.* `TypeCorrect`; `NoRace`; `ImplementsGameOfLife`; `CopiesFollow`. `NoDataRace` is
not inductive: that a computation reads one buffer and writes the other follows
from the two indexes being different when it starts. `RaceInv` adds `Control`,
which says where the indexes are relative to the running computation, in both
kinds of build. For the refinement `Partial` adds that every cell computed so far
agrees with the successor of the buffer being read; when the last cell is written
the whole buffer does. That the offsets of the code lead to the cells that touch is
`CountedIsNeighbours`, from facts on division proved in `CellCoordinates`. The
theorem assumes `SquareOnCPU`, and `simulator_tall` shows that it has to.

`CopiesFollow` says that calls of `CopyNext` deliver one generation after the other.
What it needs is `Lineage`: at each point of a computation it says which of the two
buffers holds the successor of the copy delivered last, and whether the indexes have
been swapped yet; `Uncopied` adds that no generation is computed that was not asked
for, and `Laws` that a new rule comes in only between two computations.

*Draw3D.* `TypeCorrect`; `ImplementsHistory`: erasing before pushing and pushing
before erasing both keep the last `depth` worlds; `ShowsHistory`: the picture of
either window is one cube for each live cell of each generation. For the geometry
shader (`ShaderShowsHistory`) the divisions of the running vertex number have to give
back the cell and the generation. For the CPU window `BuffersLaidOut` shows by
induction over the generations that there is one sequence of places, a cell and a
depth for each cube, of which both buffers are functions: `VertexesAt` gives every
cube its block of `Corners` vertexes, `IndexesFor` its block of `PerCube` indexes,
and `indexSum` is where the block of vertexes begins (`NextLayout`, from
`JoinVertexes` and `JoinIndexes`). From it follow `CheckVertexAndIndex` (indexes name
the vertexes of their own cube), `DrawsCubes` (what `DrawIndexed` looks up), and
`FitsUnlessTall`: in a window that is not higher than wide `vertex index over max` is
never thrown, whatever its history, so that the finding of `window_tall` is the only
way to it. `TallOverMax` is the converse: every window of the CPU that is higher than
wide, not only the one of `window_tall`, has a history whose vertexes do not fit. The
invariant `BufferInv` says that the
buffers hold the current generations unless they are still empty.

*SequenceLemmas.* An induction theorem that takes a predicate cannot be used here, so
`Induction` is stated of a set: one that holds 0 and each successor holds every
number. From it come that the recursive functions behind `FlattenSeq` and `indexSum`
exist, what `FlattenSeq` returns (`Flatten`), and that a finite set of numbers has one
list in increasing order (`Enumeration`, `IncreasingIsOnto`), which is what `InOrder`
chooses.

*CanvasPanel.* `TypeCorrect`; `DataFits`; `ShowsAsked`; `RuleFileInForce`;
`SettingsWhole`; `KeepsTime`. `DataFits` says of files and areas of every size that
only an area whose number of cells wraps is written or copied out of bounds, and that
in every other one a file lies in its middle, cell by cell (`IndexInArea`, from facts
on division). `RuleFileInForce` holds until the file that was opened is written again:
one that compiles is in force in the simulator that runs and in all later ones, one
that does not leaves the running one its rule and gives the later ones the built-in
rule. `KeepsTime` assumes `ShortUptime`, that neither the tick
nor the sum compared with it reaches half the range of an int, and `canvas_late`
shows that it has to. Its invariant, `ClockInv`, ties `dwTimePrevious` to the time
of the last generation.

*DeviceResources.* `Typing`; `Safety`; `Waiting`; `HandOver`; `WholeFrames`: the
five invariants, for the chain of the program and every order of failures and
commands. `Safety` names the one way to an exception without a failure: the device
was created for an empty client area and the dialog or the label is displayed. The
argument is that a frame begins with the key at 0 and everything up to where the
creation came, and that each of its parts leaves what the next one needs or an end.
`Advances` proves what `KeepsDrawing` rests on besides fairness: while nothing fails
and nothing is displayed whose brushes were never made (`Drawable`), a visible window
that is not being drawn is marked dirty (`Waits`), and every part of a
frame that is run leads to the next one.

*TextStore.* `Typing`; `Selections`; `Throws`; `Layouts`; `Reports`; `Exclusion`,
for texts of any length. `SelectionInText` is inductive only with `Straight`, that a
selection begins before it ends or lies behind the text, and with `OnlyLooseThrows`.
`Upgrades` proves what `UpgradeGranted` rests on besides the fairness of `Unlock`: no
step loses a pending request or changes the lock under it, and `Unlock` grants it.

*UI.* `Typing`; `Keys`; `Looks`; `Closes`; `Moves`, for any children at any places.
The invariant adds to the five properties `Captured` (a button that is pressed is
that of the latest press, or lost its release), `Released` (nothing is pressed in a
dialog that is not displayed), `Starts` and `DragKnown` (what the root drags is what
the press began on, or its drag was cut off).

*LifeFile.* `Typing`; `Loading`; `Survival`, for files of any length and numbers of
any width. `Bounded` says that what was read lies in the area its coordinates will
lead to; `Unique` that an area whose size fits an int gives every cell an index of
its own; `NoGap` that an object all of whose cells can be read has such an area, so
that the file saved from it has one too (`DiskFits`). Assumed is
`NumbersAssumption`: the rows of a picture are shorter than half the range of an int.

Only model-checked: `SettingsTakeEffect`, `KeepsDrawing` and `UpgradeGranted`, which
are liveness under fairness and need ENABLED, which this prover does not know. Of the
last two the steps are proved (`Advances`, `Upgrades`); that the steps are enabled and
that fairness takes them is what TLC alone shows. Every other property of a run is stated by a theorem,
`NeverOverMax` and `RefinesGameOfLife` under the conditions that the findings break.

## What the models say of the code

Each property names the conditions under which it holds, and the paths of the code
that break them are part of the models. A property does not catch what its conditions
leave out: those hazards are listed in `PROJECT.json` with a note instead of a
property. The ones a maintainer would want to know:

- After a lost device `DiscardDeviceResources` keeps the Direct3D 11 device, and
  `CreateDeviceResources` does nothing while there is one: the next frame uses null
  pointers. A Direct3D 10 device that cannot be created has the same effect, and a
  target that cannot be created leaves Direct3D 11 waiting for key 1 for ever.
- A `WM_SIZE` with an empty client area creates the device with sized resources that
  cannot be made (`D3DInteropHelper.cpp:304`, against the assertions at line 350).
  `OnResize` makes them up, but not `CreateD2DResources`: opening the settings dialog
  or switching on the frames per second then throws while it is drawn, although
  nothing has failed.
- Two life files, one of 65536 columns and one of 65536 rows, make an area whose number
  of cells is 0 as a UINT (`CanvasPanel.cpp:706`): the cells are written past the data,
  or the simulator throws.
- The name of a rule file is kept although it does not compile: the running simulator
  keeps the rule before it and says so, every later one takes the built-in rule in
  silence (`CanvasPanel.cpp:682`). The same happens to a file that was broken or removed
  since it was opened.
- OK in the settings dialog puts the old size back over a life file that was opened
  while the dialog was displayed, and fills the area at random.
- Deleting a selection with the Delete key leaves its end where it was
  (`UITextStoreACP.cpp:908`): cursor right and a key throw `std::out_of_range`. An
  insertion of the service moves neither end; a click uses the layout of the last
  frame; texts set by the dialog are not reported to the service.
- The timer of a click ends a drag that began since without telling anyone
  (`AbstractManipulationHelper.cpp:190`): the scroll bar stays held, and a drag from
  free space moves it. A press on nothing leaves an earlier press of a button whose
  release was lost, and the next release on that button runs it. A radio button
  keeps its focus when a field takes one, so that clicking it again does not take
  the field's.
- Every Life3D 1.00 file with a cell writes outside of the data, because the area is
  one less than its largest coordinates; so does any file with negative or missing
  coordinates. The first line of a picture is taken for a header and lost. `Load`
  returns `OK` whatever it read, and `OnOpenFile` ignores it: a file that cannot be
  read clears the cells.

## Not modelled

Colours (determined by the live cells), coordinates of vertexes (functions of cell,
corner and depth), the camera, what the FPS label says, and the overflow of products
of sizes in the windows' buffers; the canvas and the life files do have their UINTs. Of the device helper, the shader helpers and the blend
state that one frame leaves to the next. Of the text store, queries, attributes, the
composition and the caret on the screen, the advising of sinks, and the message
queue, which nothing fills. Of the elements, the list box and the panel, which the
program never creates, layout and drawing, and the arithmetic of a scroll bar: a
drag may ask it for any position, which covers the jump a drag without movement
makes because positions and the bar are scaled differently, but not the division by
a slide length of 0. Of touch, the gestures, which no element listens to. Memory, in
the program and on the GPU, is taken to suffice wherever a size does not wrap. The components that `PROJECT.json` lists as not modelled are callbacks
that only invalidate, pure functions to pixels or strings, resources, third-party
code, and tests that are disabled in this commit.

A step further would compose the frame of `DeviceResources` with that of
`CanvasPanel`, whose `Frame` takes the device to be there, and refine the lock of
`TextStore` from an abstract one.
