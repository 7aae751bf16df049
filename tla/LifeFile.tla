------------------------------ MODULE LifeFile ------------------------------
(***************************************************************************)
(* io/LifeFile.cpp: a file of cells is read line by line into an object    *)
(* that MainWnd::OnOpenFile makes for it, and an object is saved.  The     *)
(* three formats are told apart by the first line; "default" is a picture  *)
(* of the cells, the others have one line with the coordinates of each.    *)
(* Neither the coordinates nor the size they lead to are checked.          *)
(*                                                                         *)
(* Empty lines and comments are skipped and left out here, as are colours. *)
(* Numbers have the width of an int: Word values.  The program itself      *)
(* only saves new objects, see OnSaveFileAs.                               *)
(***************************************************************************)
EXTENDS Integers, FiniteSets

CONSTANTS
  Word,         \* how many values an int has
  Coordinates,  \* what a line of numbers may hold
  Lengths,      \* of the rows of a picture
  MaxLines      \* bound: of a file that the program did not write

ASSUME WordAssumption == Word \in Nat /\ Word > 1

\* No picture is so large that the coordinates of its cells are no ints.
ASSUME NumbersAssumption ==
  /\ MaxLines \in Nat /\ 2 * MaxLines <= Word
  /\ \A x \in Coordinates : x \in Int /\ 2 * x < Word
  /\ \A n \in Lengths : n \in Nat /\ 2 * n <= Word

VARIABLES
  \* Load
  format,    \* of the file that is read
  reading,   \* Load has not returned
  ours,      \* it is the file that was saved last
  posArray,  \* posArray, or the living cells in the lines of a picture
  maxX,      \* maxX, or max of a picture
  maxY,      \* maxY, or the number of its lines
  unset,     \* history: a position is negative, or was never set
  \* the object
  width, height,
  size,      \* of m_data
  alive,     \* the indexes of living cells in m_data
  stray,     \* an index was not in m_data
  \* the file system
  disk,      \* the file that was saved last: its format and its cells
  kept       \* history: the living cells of the object it was saved from

parsed == <<posArray, maxX, maxY, unset>>
object == <<width, height, size, alive>>
files == <<disk, kept>>
vars == <<format, reading, ours, parsed, object, stray, files>>

Formats == {"default", "life106", "life3D100"}

\* Mutant: the maximum is not kept.
Latest(a, b) == b

Greater(a, b) == IF a < b THEN b ELSE a

\* m_data[x + y * m_width], with numbers that wrap around.
Index(p, w) == (p[1] + p[2] * w) % Word

Area(w, h) == (0 .. w - 1) \X (0 .. h - 1)

\* Where GetLifeData finds a living cell.
Cells == {p \in Area(width, height) : Index(p, width) \in alive}

-----------------------------------------------------------------------------
(* Load, into a new object.                                                *)

NewObject ==
  /\ width' = 0 /\ height' = 0 /\ size' = 0
  /\ alive' = {} /\ stray' = FALSE

NothingParsed == posArray' = {} /\ maxX' = 0 /\ maxY' = 0 /\ unset' = FALSE

\* The first line names the format, and is not read again when it does not.
Open(f) ==
  /\ ~reading
  /\ reading' = TRUE
  /\ format' = f
  /\ ours' \in {FALSE, disk.format = f}
  /\ NewObject /\ NothingParsed
  /\ UNCHANGED files

\* A file that is missing, or that ends in its first line.
OpenFails ==
  /\ ~reading
  /\ NewObject /\ NothingParsed
  /\ format' = "default"
  /\ ours' = FALSE
  /\ UNCHANGED <<reading, files>>

TakePosition(p) ==
  /\ reading
  /\ posArray' = posArray \cup {p}
  /\ maxX' = Greater(maxX, p[1])
  /\ maxY' = Greater(maxY, p[2])
  /\ UNCHANGED <<format, reading, ours, object, stray, files>>

More == reading /\ ~ours /\ Cardinality(posArray) < MaxLines

ReadPosition(x, y) ==
  /\ More /\ format # "default"
  /\ TakePosition(<<x, y>>)
  /\ unset' = (unset \/ x < 0 \/ y < 0)

\* A line with fewer than two numbers leaves the others as they were in memory.
ReadTooShort(x, y) ==
  /\ More /\ format # "default"
  /\ TakePosition(<<x, y>>)
  /\ unset' = TRUE

ReadOurs(p) ==
  /\ ours /\ p \in disk.cells \ posArray
  /\ TakePosition(p)
  /\ UNCHANGED unset

\* A row of a picture with living cells in some columns.
ReadRow(n, columns) ==
  /\ reading /\ format = "default" /\ maxY < MaxLines
  /\ posArray' = posArray \cup (columns \X {maxY})
  /\ maxX' = Greater(maxX, n)
  /\ maxY' = maxY + 1
  /\ UNCHANGED <<format, reading, ours, unset, object, stray, files>>

\* Mutant: Life 1.06 as Life3D 1.00 has it, one less.
Tight(f, max) == max

\* The width or height of the area.
SizeOf(f, max) == IF f = "life106" THEN max + 1 ELSE max

\* The end of the file: the area gets its size and the cells are put there.
\* A picture sets every cell of it.
Place ==
  /\ reading
  /\ ours => disk.cells \subseteq posArray
  /\ reading' = FALSE
  /\ width' = SizeOf(format, maxX)
  /\ height' = SizeOf(format, maxY)
  /\ size' = (width' * height') % Word
  /\ LET set == IF format = "default" THEN Area(width', height') ELSE posArray
     IN  stray' = \E p \in set : Index(p, width') >= size'
  /\ alive' = {Index(p, width') : p \in posArray} \cap 0 .. size' - 1
  /\ UNCHANGED <<format, ours, parsed, files>>

-----------------------------------------------------------------------------
(* Save.                                                                   *)

\* Mutant: the last row is not written.
AllButOneRow == {p \in Cells : p[2] < height - 1}

Written == Cells

\* Either format lists the living cells of the area, row by row.
Save(f) ==
  /\ ~reading /\ ~stray
  /\ IF \E p \in Area(width, height) : Index(p, width) >= size
     THEN stray' = TRUE /\ UNCHANGED files
     ELSE /\ disk' = [format |-> f, cells |-> Written]
          /\ kept' = Cells
          /\ UNCHANGED stray
  /\ ours' = FALSE
  /\ UNCHANGED <<format, reading, parsed, object>>

\* OnSaveFileAs: GetLifeFile leaves the new object as it is, and the index of
\* the first file type is 1, never 0: Life 1.06 without a cell.
OnSaveFileAs ==
  /\ ~reading
  /\ NewObject /\ NothingParsed
  /\ format' = "default"
  /\ disk' = [format |-> "life106", cells |-> {}]
  /\ kept' = {}
  /\ ours' = FALSE
  /\ UNCHANGED reading
-----------------------------------------------------------------------------
Init ==
  /\ format = "default" /\ reading = FALSE /\ ours = FALSE
  /\ posArray = {} /\ maxX = 0 /\ maxY = 0 /\ unset = FALSE
  /\ width = 0 /\ height = 0 /\ size = 0
  /\ alive = {} /\ stray = FALSE
  /\ disk = [format |-> "none", cells |-> {}] /\ kept = {}

Next ==
  \/ \E f \in Formats : Open(f)
  \/ OpenFails
  \/ \E x, y \in Coordinates : ReadPosition(x, y) \/ ReadTooShort(x, y)
  \/ \E p \in disk.cells : ReadOurs(p)
  \/ \E n \in Lengths : \E columns \in SUBSET (0 .. n - 1) : ReadRow(n, columns)
  \/ Place
  \/ \E f \in {"life106", "life3D100"} : Save(f)
  \/ OnSaveFileAs

Spec == Init /\ [][Next]_vars
-----------------------------------------------------------------------------
(* Properties.                                                             *)

FlagsOK ==
  /\ reading \in BOOLEAN /\ ours \in BOOLEAN
  /\ unset \in BOOLEAN /\ stray \in BOOLEAN

ParsedOK ==
  /\ format \in Formats
  /\ maxX \in Nat /\ 2 * maxX <= Word
  /\ maxY \in Nat /\ 2 * maxY <= Word
  /\ format # "default" => 2 * maxX < Word /\ 2 * maxY < Word
  /\ posArray \subseteq Int \X Int

ObjectOK ==
  /\ width \in 0 .. Word - 1 /\ height \in 0 .. Word - 1
  /\ size = (width * height) % Word
  /\ alive \subseteq 0 .. size - 1

DiskOK ==
  /\ disk.format \in {"none", "life106", "life3D100"}
  /\ disk.cells \subseteq Nat \X Nat /\ kept \subseteq Nat \X Nat
  /\ \A p \in disk.cells : 2 * p[1] < Word /\ 2 * p[2] < Word

\* Types: whatever the file holds, the numbers stay in their width and the data
\* are as long as the product of the two sizes, as a UINT.
TypeOK == FlagsOK /\ ParsedOK /\ ObjectOK /\ DiskOK

\* A file has what it takes to be read: a format that leaves room for the
\* largest coordinates, numbers in every line, and an area whose size fits an
\* int.
Sound ==
  /\ format # "life3D100"
  /\ ~unset
  /\ width * height < Word

\* A picture or a Life 1.06 file is loaded with the cells its lines name (after
\* the first), each where it belongs, and nothing outside of the data is
\* written, unless a coordinate is negative or missing, or the area too large.
LoadsItsCells == ~reading /\ Sound => ~stray /\ Cells = posArray

\* What is saved as Life 1.06 and opened again has the cells it had: neither
\* the area that shrinks to them nor the size of the numbers loses one.
SurvivesSaving ==
  ~reading /\ ours /\ disk.format = "life106" => ~stray /\ Cells = kept
=============================================================================
