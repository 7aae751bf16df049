--------------------------- MODULE LifeFileProofs ---------------------------
(***************************************************************************)
(* Files of any length with numbers of any width.  While a file is read    *)
(* its cells stay in the area its coordinates will lead to; an area whose  *)
(* size fits an int gives each cell an index of its own; and a file that   *)
(* was saved fits the area of the object it was saved from.                *)
(***************************************************************************)
EXTENDS LifeFile, TLAPS

-----------------------------------------------------------------------------
(* Indexes.                                                                *)

\* A number that fits does not wrap around.
LEMMA Small ==
  ASSUME NEW v \in Nat, v < Word
  PROVE  v % Word = v
BY WordAssumption

\* Whatever it is, a number that wraps around fits.
LEMMA Wrapped ==
  ASSUME NEW v \in Int
  PROVE  v % Word \in 0 .. Word - 1
BY WordAssumption

\* A product grows with its factors.
LEMMA Products ==
  ASSUME NEW a \in Nat, NEW b \in Nat, NEW c \in Nat, NEW d \in Nat,
         a <= c, b <= d
  PROVE  a * b \in Nat /\ a * b <= c * d
<1>1. a * b \in Nat /\ a * b <= c * b
  OBVIOUS
<1>2. c * b <= c * d
  OBVIOUS
<1> QED BY <1>1, <1>2

\* In an area that fits an int every cell has an index in the data.
LEMMA Fits ==
  ASSUME NEW w \in Nat, NEW h \in Nat, w * h < Word, NEW p \in Area(w, h)
  PROVE  Index(p, w) = p[1] + p[2] * w /\ Index(p, w) \in 0 .. w * h - 1
<1>1. p[1] \in 0 .. w - 1 /\ p[2] \in 0 .. h - 1
  BY DEF Area
<1>2. p[2] * w \in Nat /\ (p[2] + 1) * w <= h * w
  BY <1>1, Products
<1>3. (p[2] + 1) * w = p[2] * w + w /\ h * w = w * h
  BY <1>1
<1>4. p[1] + p[2] * w \in 0 .. w * h - 1
  BY <1>1, <1>2, <1>3
<1>5. p[1] + p[2] * w \in Nat /\ p[1] + p[2] * w < Word
  BY <1>4, WordAssumption
<1> QED BY <1>4, <1>5, Small DEF Index

\* Rows do not overlap.
LEMMA Rows ==
  ASSUME NEW w \in Nat, NEW a \in 0 .. w - 1, NEW b \in 0 .. w - 1,
         NEW c \in Nat, NEW d \in Nat, a + c * w = b + d * w
  PROVE  ~(c < d)
<1> SUFFICES ASSUME c < d PROVE FALSE
  OBVIOUS
<1>1. c + 1 \in Nat /\ c + 1 <= d
  OBVIOUS
<1>2. (c + 1) * w <= d * w
  BY <1>1, Products
<1>3. (c + 1) * w = c * w + w /\ c * w \in Nat /\ d * w \in Nat
  OBVIOUS
<1> QED BY <1>2, <1>3

\* And no two cells share one.
LEMMA Unique ==
  ASSUME NEW w \in Nat, NEW h \in Nat, w * h < Word,
         NEW p \in Area(w, h), NEW q \in Area(w, h), Index(p, w) = Index(q, w)
  PROVE  p = q
<1>1. /\ p = <<p[1], p[2]>> /\ p[1] \in 0 .. w - 1 /\ p[2] \in 0 .. h - 1
      /\ q = <<q[1], q[2]>> /\ q[1] \in 0 .. w - 1 /\ q[2] \in 0 .. h - 1
  BY DEF Area
<1>2. p[1] + p[2] * w = q[1] + q[2] * w
  BY Fits
<1>3. p[2] \in Nat /\ q[2] \in Nat
  BY <1>1
<1>4. ~(p[2] < q[2])
  BY <1>1, <1>2, <1>3, Rows
<1>5. ~(q[2] < p[2])
  BY <1>1, <1>2, <1>3, Rows
<1>6. p[2] = q[2]
  BY <1>3, <1>4, <1>5
<1>7. p[2] * w \in Nat
  BY <1>3, Products
<1>8. p[1] = q[1]
  BY <1>1, <1>2, <1>6, <1>7
<1> QED BY <1>1, <1>6, <1>8

\* Division with a remainder.
LEMMA Division ==
  ASSUME NEW a \in Nat, NEW w \in Nat \ {0}
  PROVE  /\ a % w \in 0 .. w - 1 /\ a \div w \in Nat
         /\ a = (a % w) + (a \div w) * w
OBVIOUS

\* When every cell of an area has an index in the data, its size did not wrap
\* around: otherwise some cell has the largest index there is.
LEMMA NoGap ==
  ASSUME NEW w \in 1 .. Word - 1, NEW h \in 1 .. Word - 1,
         ~ \E p \in Area(w, h) : Index(p, w) >= (w * h) % Word
  PROVE  w * h < Word
<1> SUFFICES ASSUME w * h >= Word PROVE FALSE
  BY WordAssumption
<1>1. Word - 1 \in Nat /\ w \in Nat \ {0} /\ h \in Nat
  BY WordAssumption
<1>2. PICK x \in 0 .. w - 1, y \in Nat : Word - 1 = x + y * w
  BY <1>1, Division
<1>3. y < h
  <2> SUFFICES ASSUME h <= y PROVE FALSE
    BY <1>1, <1>2
  <2>1. h * w <= y * w
    BY <1>1, <1>2, Products
  <2>2. h * w = w * h /\ y * w \in Nat /\ h * w \in Nat
    BY <1>1, <1>2, Products
  <2> QED BY <1>2, <2>1, <2>2, WordAssumption
<1>4. <<x, y>> \in Area(w, h)
  BY <1>1, <1>2, <1>3 DEF Area
<1>5. Index(<<x, y>>, w) = Word - 1
  BY <1>1, <1>2, Small, WordAssumption DEF Index
<1>6. (w * h) % Word \in 0 .. Word - 1
  BY <1>1, Wrapped
<1> QED BY <1>4, <1>5, <1>6, WordAssumption

-----------------------------------------------------------------------------
(* The invariant.                                                          *)

\* The width and the height that what was read so far leads to.
W == SizeOf(format, maxX)
H == SizeOf(format, maxY)

\* What was read lies in the area it leads to.
Bounded == format # "life3D100" /\ ~unset => posArray \subseteq Area(W, H)

\* A loaded object is what its file leads to.
Loaded ==
  ~reading =>
    /\ width = W /\ height = H
    /\ alive = {Index(p, width) : p \in posArray} \cap 0 .. size - 1

\* A sound file writes inside of the data.
Inside == ~reading /\ Sound => ~stray

\* Our own file is read line by line, to its end.
OursFits ==
  ours => /\ format = disk.format /\ ~unset
          /\ posArray \subseteq disk.cells
          /\ ~reading => disk.cells \subseteq posArray

\* The file that was saved fits an area that fits an int.
DiskFits ==
  /\ kept = disk.cells
  /\ \E w, h \in Nat \ {0} :
       /\ w * h < Word
       /\ disk.cells \subseteq Area(w, h)
       /\ ours => maxX < w /\ maxY < h

IInv ==
  /\ TypeOK
  /\ Bounded
  /\ Loaded
  /\ Inside
  /\ OursFits
  /\ DiskFits

\* A sound object has exactly the cells of its file.
LEMMA SoundCells ==
  ASSUME ParsedOK, ObjectOK, Bounded, Loaded, ~reading, Sound
  PROVE  Cells = posArray
<1>1. width \in Nat /\ height \in Nat /\ width * height < Word
  BY DEF ObjectOK, Sound
<1>2. posArray \subseteq Area(width, height)
  BY DEF Bounded, Loaded, Sound
<1>3. size = width * height
  BY <1>1, Products, Small DEF ObjectOK
<1>4. \A p \in posArray : Index(p, width) \in 0 .. size - 1
  BY <1>1, <1>2, <1>3, Fits
<1>5. alive = {Index(p, width) : p \in posArray}
  BY <1>4 DEF Loaded
<1>6. ASSUME NEW p \in Area(width, height)
      PROVE  Index(p, width) \in alive <=> p \in posArray
  BY <1>1, <1>2, <1>5, Unique
<1> QED BY <1>2, <1>6 DEF Cells

\* It implies what it is for.
LEMMA Loads == IInv => LoadsItsCells
BY SoundCells DEF IInv, TypeOK, Inside, LoadsItsCells

\* A file of our own is sound: its area is not larger than the one it was
\* saved from.
LEMMA Survives == IInv => SurvivesSaving
<1> SUFFICES ASSUME IInv, ~reading, ours, disk.format = "life106"
             PROVE  ~stray /\ Cells = kept
  BY DEF SurvivesSaving
<1>1. /\ format = "life106" /\ ~unset /\ posArray = disk.cells /\ kept = disk.cells
      /\ width = maxX + 1 /\ height = maxY + 1
  BY DEF IInv, OursFits, DiskFits, Loaded, W, H, SizeOf
<1>2. PICK w, h \in Nat \ {0} : w * h < Word /\ maxX < w /\ maxY < h
  BY DEF IInv, DiskFits
<1>3. width * height \in Nat /\ width * height <= w * h
  BY <1>1, <1>2, Products DEF IInv, TypeOK, ParsedOK
<1>4. w * h \in Nat
  BY <1>2, Products
<1>5. width * height < Word
  BY <1>2, <1>3, <1>4, WordAssumption
<1>6. Sound
  BY <1>1, <1>5 DEF Sound
<1> QED BY <1>1, <1>6, SoundCells DEF IInv, TypeOK, Inside
-----------------------------------------------------------------------------
(* The steps, by what they do.                                             *)

\* A new object, with nothing read into it.
Fresh ==
  /\ NewObject /\ NothingParsed
  /\ reading' \in BOOLEAN /\ format' \in Formats
  /\ ~reading' => format' = "default" /\ ours' = FALSE
  /\ \/ UNCHANGED files /\ ours' \in BOOLEAN /\ (ours' => format' = disk.format)
     \/ /\ ours' = FALSE
        /\ disk' = [format |-> "life106", cells |-> {}] /\ kept' = {}

\* A position is read, of a foreign file or of our own.
ReadOne(p) ==
  /\ TakePosition(p)
  /\ \/ /\ ~ours /\ format # "default" /\ p \in Coordinates \X Coordinates
        /\ unset' \in BOOLEAN
        /\ ~unset' => ~unset /\ p \in Nat \X Nat
     \/ /\ ours /\ p \in disk.cells \ posArray
        /\ UNCHANGED unset

\* Every step is one of these.
Steps ==
  \/ Fresh
  \/ \E p \in Int \X Int : ReadOne(p)
  \/ \E n \in Lengths : \E columns \in SUBSET (0 .. n - 1) : ReadRow(n, columns)
  \/ Place
  \/ \E f \in {"life106", "life3D100"} : Save(f)
  \/ UNCHANGED vars

\* There is no other step.
LEMMA StepsAreNext ==
  ASSUME TypeOK, [Next]_vars
  PROVE  Steps
<1>1. ASSUME NEW f \in Formats, Open(f)
      PROVE  Fresh
  BY <1>1 DEF Open, Fresh, Formats
<1>2. CASE OpenFails
  BY <1>2 DEF Steps, OpenFails, Fresh, TypeOK, FlagsOK, Formats
<1>3. CASE OnSaveFileAs
  BY <1>3 DEF Steps, OnSaveFileAs, Fresh, TypeOK, FlagsOK, Formats
<1>4. ASSUME NEW x \in Coordinates, NEW y \in Coordinates,
             ReadPosition(x, y) \/ ReadTooShort(x, y)
      PROVE  \E p \in Int \X Int : ReadOne(p)
  <2>1. /\ x \in Int /\ y \in Int /\ <<x, y>> \in Int \X Int
        /\ x >= 0 <=> ~(x < 0)
        /\ y >= 0 <=> ~(y < 0)
    BY NumbersAssumption
  <2>2. unset' \in BOOLEAN
    BY <1>4 DEF ReadPosition, ReadTooShort
  <2>3. ~unset' => ~unset /\ x >= 0 /\ y >= 0
    BY <1>4, <2>1, Zenon DEF ReadPosition, ReadTooShort
  <2>4. ~unset' => ~unset /\ <<x, y>> \in Nat \X Nat
    BY <2>1, <2>3
  <2>5. ReadOne(<<x, y>>)
    BY <1>4, <2>2, <2>4 DEF ReadPosition, ReadTooShort, More, ReadOne
  <2> QED BY <2>1, <2>5
<1>5. ASSUME NEW p \in disk.cells, ReadOurs(p)
      PROVE  \E q \in Int \X Int : ReadOne(q)
  <2>1. p \in Int \X Int
    BY DEF TypeOK, DiskOK
  <2> QED BY <1>5, <2>1 DEF ReadOurs, ReadOne
<1> QED BY <1>1, <1>2, <1>3, <1>4, <1>5 DEF Next, Steps

\* The greater of two numbers is one of them.
LEMMA Greatest ==
  ASSUME NEW a \in Int, NEW b \in Int
  PROVE  Greater(a, b) \in {a, b} /\ Greater(a, b) >= a /\ Greater(a, b) >= b
BY DEF Greater

\* The size of an area fits its variable.
LEMMA Sizes ==
  ASSUME ParsedOK
  PROVE  W \in 0 .. Word - 1 /\ H \in 0 .. Word - 1
BY WordAssumption DEF ParsedOK, W, H, SizeOf, Formats

\* A new object is as good as a file that names nothing.
LEMMA FreshStep ==
  ASSUME IInv, Fresh
  PROVE  IInv'
<1>1. FlagsOK'
  BY DEF Fresh, NewObject, NothingParsed, FlagsOK, IInv, TypeOK
<1>2. ParsedOK'
  BY WordAssumption DEF Fresh, NothingParsed, ParsedOK
<1>3. ObjectOK'
  <2>1. 0 * 0 = 0 /\ 0 % Word = 0 /\ 0 \in 0 .. Word - 1
    BY WordAssumption, Small
  <2> QED BY <2>1 DEF Fresh, NewObject, ObjectOK
<1>4. DiskOK'
  BY DEF Fresh, DiskOK, files, IInv, TypeOK
<1>5. Bounded'
  BY DEF Fresh, NothingParsed, Bounded
<1>6. Loaded'
  BY DEF Fresh, NothingParsed, NewObject, Loaded, W, H, SizeOf
<1>7. Inside'
  BY DEF Fresh, NewObject, Inside
<1>8. OursFits'
  BY DEF Fresh, NothingParsed, OursFits, files
<1>9. DiskFits'
  <2>1. CASE UNCHANGED files
    <3>1. PICK w, h \in Nat \ {0} : w * h < Word /\ disk.cells \subseteq Area(w, h)
      BY DEF IInv, DiskFits
    <3>2. maxX' < w /\ maxY' < h
      BY DEF Fresh, NothingParsed
    <3>3. kept' = disk'.cells /\ disk' = disk
      BY <2>1 DEF files, IInv, DiskFits
    <3> QED BY <3>1, <3>2, <3>3 DEF DiskFits
  <2>2. CASE ours' = FALSE /\ disk' = [format |-> "life106", cells |-> {}] /\ kept' = {}
    <3>1. 1 \in Nat \ {0} /\ 1 * 1 < Word
      BY WordAssumption
    <3> QED BY <2>2, <3>1 DEF DiskFits
  <2> QED BY <2>1, <2>2 DEF Fresh
<1> QED BY <1>1, <1>2, <1>3, <1>4, <1>5, <1>6, <1>7, <1>8, <1>9 DEF IInv, TypeOK

\* A position that is read stays in the area, and in the bounds of our file.
LEMMA ReadStep ==
  ASSUME IInv, NEW p \in Int \X Int, ReadOne(p)
  PROVE  IInv'
<1>0. /\ UNCHANGED <<format, reading, ours, width, height, size, alive, stray, disk, kept>>
      /\ posArray' = posArray \cup {p} /\ reading
      /\ maxX' = Greater(maxX, p[1]) /\ maxY' = Greater(maxY, p[2])
  BY DEF ReadOne, TakePosition, object, files
<1>1. FlagsOK'
  BY <1>0 DEF ReadOne, FlagsOK, IInv, TypeOK
<1>2. 2 * p[1] < Word /\ 2 * p[2] < Word /\ format # "default"
  <2>1. CASE p \in Coordinates \X Coordinates /\ format # "default"
    BY <2>1, NumbersAssumption
  <2>2. CASE ours /\ p \in disk.cells
    <3>1. format # "default"
      BY <2>2 DEF IInv, OursFits, TypeOK, DiskOK
    <3> QED BY <2>2, <3>1 DEF IInv, TypeOK, DiskOK
  <2> QED BY <2>1, <2>2 DEF ReadOne
<1>3. /\ maxX' \in {maxX, p[1]} /\ maxX' >= maxX /\ maxX' >= p[1]
      /\ maxY' \in {maxY, p[2]} /\ maxY' >= maxY /\ maxY' >= p[2]
      /\ maxX \in Nat /\ maxY \in Nat
  BY <1>0, Greatest DEF IInv, TypeOK, ParsedOK
<1>4. ParsedOK'
  <2>1. maxX' \in Nat /\ 2 * maxX' < Word /\ maxY' \in Nat /\ 2 * maxY' < Word
    BY <1>2, <1>3 DEF IInv, TypeOK, ParsedOK
  <2> QED BY <1>0, <2>1, WordAssumption DEF IInv, TypeOK, ParsedOK
<1>5. ObjectOK' /\ DiskOK'
  BY <1>0 DEF ObjectOK, DiskOK, IInv, TypeOK
<1>6. Bounded'
  <2> SUFFICES ASSUME format = "life106", ~unset', NEW q \in posArray'
               PROVE  q \in (0 .. maxX') \X (0 .. maxY')
    BY <1>0, <1>2, <1>4 DEF Bounded, Area, W, H, SizeOf, Formats, ParsedOK
  <2>1. ~unset /\ p \in Nat \X Nat
    BY DEF ReadOne, IInv, TypeOK, DiskOK
  <2>2. posArray \subseteq (0 .. maxX) \X (0 .. maxY)
    BY <1>3, <2>1 DEF IInv, Bounded, Area, W, H, SizeOf
  <2>3. CASE q = p
    BY <1>3, <2>1, <2>3
  <2>4. CASE q \in posArray
    BY <1>3, <2>2, <2>4
  <2> QED BY <1>0, <2>3, <2>4
<1>7. Loaded' /\ Inside'
  BY <1>0 DEF Loaded, Inside
<1>8. OursFits'
  BY <1>0 DEF ReadOne, OursFits, IInv
<1>9. DiskFits'
  <2>1. PICK w, h \in Nat \ {0} :
          /\ w * h < Word /\ disk.cells \subseteq Area(w, h)
          /\ ours => maxX < w /\ maxY < h
    BY DEF IInv, DiskFits
  <2>2. ours => p[1] < w /\ p[2] < h
    BY <2>1 DEF ReadOne, Area
  <2>3. ours => maxX' < w /\ maxY' < h
    BY <1>3, <2>1, <2>2
  <2> QED BY <1>0, <2>1, <2>3 DEF DiskFits, IInv
<1> QED BY <1>1, <1>4, <1>5, <1>6, <1>7, <1>8, <1>9 DEF IInv, TypeOK

\* The cells of a row.
LEMMA RowCells ==
  ASSUME NEW S, NEW y, NEW q \in S \X {y}
  PROVE  q = <<q[1], y>> /\ q[1] \in S
<1>1. q = <<q[1], q[2]>> /\ q[1] \in S /\ q[2] \in {y}
  OBVIOUS
<1>2. q[2] = y
  BY <1>1
<1> QED BY <1>1, <1>2

\* So does a row of a picture.
LEMMA RowStep ==
  ASSUME IInv, NEW n \in Lengths, NEW columns \in SUBSET (0 .. n - 1),
         ReadRow(n, columns)
  PROVE  IInv'
<1>0. /\ UNCHANGED <<format, reading, ours, unset, width, height, size, alive,
                     stray, disk, kept>>
      /\ posArray' = posArray \cup (columns \X {maxY}) /\ reading
      /\ maxX' = Greater(maxX, n) /\ maxY' = maxY + 1 /\ maxY < MaxLines
      /\ format = "default"
  BY DEF ReadRow, object, files
<1>1. ~ours
  BY <1>0 DEF IInv, OursFits, TypeOK, DiskOK
<1>2. n \in Nat /\ 2 * n <= Word /\ maxX \in Nat /\ maxY \in Nat /\ columns \subseteq Int
  BY NumbersAssumption DEF IInv, TypeOK, ParsedOK
<1>3. /\ maxX' \in {maxX, n} /\ maxX' >= maxX /\ maxX' >= n
      /\ maxX' \in Nat /\ maxY' \in Nat
  BY <1>0, <1>2, Greatest
<1>4. ParsedOK'
  <2>1. 2 * maxX' <= Word /\ 2 * maxY' <= Word
    BY <1>0, <1>2, <1>3, NumbersAssumption, WordAssumption DEF IInv, TypeOK, ParsedOK
  <2>2. ASSUME NEW q \in columns \X {maxY}
        PROVE  q \in Int \X Int
    <3>1. q = <<q[1], maxY>> /\ q[1] \in columns
      BY RowCells
    <3>2. q[1] \in 0 .. n - 1
      BY <3>1
    <3>3. q[1] \in Int /\ maxY \in Int
      BY <1>2, <3>2
    <3> QED BY <3>1, <3>3
  <2>3. posArray' \subseteq Int \X Int
    BY <1>0, <2>2 DEF IInv, TypeOK, ParsedOK
  <2> QED BY <1>0, <1>3, <2>1, <2>3 DEF IInv, TypeOK, ParsedOK
<1>5. FlagsOK' /\ ObjectOK' /\ DiskOK'
  BY <1>0 DEF FlagsOK, ObjectOK, DiskOK, IInv, TypeOK
<1>6. Bounded'
  <2> SUFFICES ASSUME ~unset, NEW q \in posArray'
               PROVE  q \in (0 .. maxX' - 1) \X (0 .. maxY' - 1)
    BY <1>0 DEF Bounded, Area, W, H, SizeOf
  <2>1. posArray \subseteq (0 .. maxX - 1) \X (0 .. maxY - 1)
    BY <1>0 DEF IInv, Bounded, Area, W, H, SizeOf
  <2>2. CASE q \in columns \X {maxY}
    <3>1. q = <<q[1], maxY>> /\ q[1] \in columns
      BY <2>2, RowCells
    <3>2. q[1] \in 0 .. maxX' - 1 /\ maxY \in 0 .. maxY' - 1
      BY <1>0, <1>2, <1>3, <3>1
    <3> QED BY <3>1, <3>2
  <2>3. CASE q \in posArray
    BY <1>0, <1>2, <1>3, <2>1, <2>3
  <2> QED BY <1>0, <2>2, <2>3
<1>7. Loaded' /\ Inside' /\ OursFits'
  BY <1>0, <1>1 DEF Loaded, Inside, OursFits
<1>8. DiskFits'
  <2>1. PICK w, h \in Nat \ {0} : w * h < Word /\ disk.cells \subseteq Area(w, h)
    BY DEF IInv, DiskFits
  <2> QED BY <1>0, <1>1, <2>1 DEF DiskFits, IInv
<1> QED BY <1>4, <1>5, <1>6, <1>7, <1>8 DEF IInv, TypeOK

\* At the end of a sound file every cell has its place in the data.
LEMMA PlaceStep ==
  ASSUME IInv, Place
  PROVE  IInv'
<1>0. /\ UNCHANGED <<format, ours, posArray, maxX, maxY, unset, disk, kept>>
      /\ width' = W /\ height' = H /\ size' = (width' * height') % Word
      /\ reading' = FALSE
      /\ alive' = {Index(q, width') : q \in posArray} \cap 0 .. size' - 1
      /\ ours => disk.cells \subseteq posArray
  BY DEF Place, parsed, files, W, H
<1>1. W \in 0 .. Word - 1 /\ H \in 0 .. Word - 1
  BY Sizes DEF IInv, TypeOK
<1>2. FlagsOK'
  BY <1>0 DEF Place, FlagsOK, IInv, TypeOK
<1>3. ParsedOK' /\ DiskOK' /\ Bounded' /\ DiskFits'
  BY <1>0 DEF ParsedOK, DiskOK, Bounded, DiskFits, W, H, IInv, TypeOK
<1>4. ObjectOK'
  BY <1>0, <1>1 DEF ObjectOK
<1>5. Loaded'
  BY <1>0 DEF Loaded, W, H
<1>6. OursFits'
  BY <1>0 DEF OursFits, IInv
<1>7. Inside'
  <2> SUFFICES ASSUME format # "life3D100", ~unset, W * H < Word PROVE ~stray'
    BY <1>0 DEF Inside, Sound
  <2>1. W \in Nat /\ H \in Nat /\ W * H \in Nat
    BY <1>1, Products
  <2>2. size' = W * H
    BY <1>0, <2>1, Small
  <2>3. posArray \subseteq Area(W, H)
    BY DEF IInv, Bounded
  <2>4. \A q \in Area(W, H) : Index(q, W) \in 0 .. W * H - 1
    BY <2>1, Fits
  <2>5. \A q \in Area(W, H) : ~(Index(q, W) >= W * H)
    BY <2>1, <2>4
  <2>6. stray' => \E q \in Area(W, H) : Index(q, W) >= size'
    BY <1>0, <2>3 DEF Place
  <2> QED BY <2>2, <2>5, <2>6
<1> QED BY <1>2, <1>3, <1>4, <1>5, <1>6, <1>7 DEF IInv, TypeOK

\* An object that is saved leaves a file that fits the area it has, or it had
\* read outside of its data.
LEMMA SaveStep ==
  ASSUME IInv, NEW f \in {"life106", "life3D100"}, Save(f)
  PROVE  IInv'
<1>0. /\ UNCHANGED <<format, reading, posArray, maxX, maxY, unset,
                     width, height, size, alive>>
      /\ ours' = FALSE /\ ~reading
  BY DEF Save, parsed, object
<1>1. /\ width \in Nat /\ height \in Nat /\ width * height \in Nat
      /\ size = (width * height) % Word
  BY Products DEF IInv, TypeOK, ObjectOK
<1>2. FlagsOK'
  BY <1>0 DEF Save, FlagsOK, IInv, TypeOK
<1>3. ParsedOK' /\ ObjectOK' /\ Bounded' /\ Loaded' /\ OursFits'
  BY <1>0 DEF ParsedOK, ObjectOK, Bounded, Loaded, OursFits, W, H, IInv, TypeOK
<1>4. width = W /\ height = H
  BY <1>0 DEF IInv, Loaded
<1>5. CASE \E p \in Area(width, height) : Index(p, width) >= size
  <2>1. UNCHANGED files
    BY <1>5 DEF Save
  <2>2. DiskOK' /\ DiskFits'
    BY <1>0, <2>1 DEF files, DiskOK, DiskFits, IInv, TypeOK
  <2>3. ~(width * height < Word)
    <3> SUFFICES ASSUME width * height < Word PROVE FALSE
      OBVIOUS
    <3>1. size = width * height
      BY <1>1, Small
    <3>2. PICK p \in Area(width, height) : Index(p, width) >= size
      BY <1>5
    <3>3. Index(p, width) \in 0 .. width * height - 1
      BY <1>1, Fits
    <3> QED BY <1>1, <3>1, <3>2, <3>3
  <2>4. Inside'
    BY <1>0, <2>3 DEF Inside, Sound
  <2> QED BY <1>2, <1>3, <2>2, <2>4 DEF IInv, TypeOK
<1>6. CASE ~(\E p \in Area(width, height) : Index(p, width) >= size)
  <2>1. /\ disk' = [format |-> f, cells |-> Cells] /\ kept' = Cells
        /\ stray' = stray /\ ~stray
    BY <1>6 DEF Save, Written
  <2>2. Cells \subseteq Area(width, height)
    BY DEF Cells
  <2>3. Inside'
    BY <2>1 DEF Inside
  <2>4. ASSUME NEW p \in Cells
        PROVE  p \in Nat \X Nat /\ 2 * p[1] < Word /\ 2 * p[2] < Word
    <3>1. p = <<p[1], p[2]>> /\ p[1] \in 0 .. width - 1 /\ p[2] \in 0 .. height - 1
      BY <2>2 DEF Area
    <3>2. 2 * (width - 1) < Word /\ 2 * (height - 1) < Word
      BY <1>4, WordAssumption DEF W, H, SizeOf, IInv, TypeOK, ParsedOK
    <3> QED BY <1>1, <3>1, <3>2, WordAssumption
  <2>5. DiskOK'
    BY <2>1, <2>4 DEF DiskOK
  <2>6. CASE Cells = {}
    <3>1. 1 \in Nat \ {0} /\ 1 * 1 < Word
      BY WordAssumption
    <3> QED BY <1>0, <1>2, <1>3, <2>1, <2>3, <2>5, <2>6, <3>1 DEF DiskFits, IInv, TypeOK
  <2>7. CASE Cells # {}
    <3>1. width \in Nat \ {0} /\ height \in Nat \ {0}
      BY <1>1, <2>2, <2>7 DEF Area
    <3>2. width * height < Word
      BY <1>1, <1>6, <3>1, NoGap DEF IInv, TypeOK, ObjectOK
    <3> QED BY <1>0, <1>2, <1>3, <2>1, <2>2, <2>3, <2>5, <3>1, <3>2
            DEF DiskFits, IInv, TypeOK
  <2> QED BY <2>6, <2>7
<1> QED BY <1>5, <1>6

-----------------------------------------------------------------------------
(* The theorems.                                                           *)

\* The program starts without a file.
LEMMA InitIInv == Init => IInv
<1> SUFFICES ASSUME Init PROVE IInv
  OBVIOUS
<1>1. FlagsOK
  BY DEF Init, FlagsOK
<1>2. ParsedOK /\ DiskOK
  BY WordAssumption DEF Init, ParsedOK, DiskOK, Formats
<1>3. 0 * 0 = 0 /\ 0 % Word = 0 /\ 0 \in 0 .. Word - 1
  BY WordAssumption, Small
<1>4. ObjectOK
  BY <1>3 DEF Init, ObjectOK
<1>5. Bounded /\ Loaded /\ Inside /\ OursFits
  BY DEF Init, Bounded, Loaded, Inside, OursFits, W, H, SizeOf
<1>6. DiskFits
  <2>1. 1 \in Nat \ {0} /\ 1 * 1 < Word
    BY WordAssumption
  <2> QED BY <2>1 DEF Init, DiskFits
<1> QED BY <1>1, <1>2, <1>4, <1>5, <1>6 DEF IInv, TypeOK

\* The invariant is preserved by every step.
LEMMA NextIInv == IInv /\ [Next]_vars => IInv'
<1> SUFFICES ASSUME IInv, [Next]_vars PROVE IInv'
  OBVIOUS
<1>1. Steps
  BY StepsAreNext DEF IInv
<1>2. CASE UNCHANGED vars
  <2>1. FlagsOK' /\ ParsedOK' /\ ObjectOK' /\ DiskOK'
    BY <1>2 DEF vars, parsed, object, files, IInv, TypeOK, FlagsOK, ParsedOK,
                ObjectOK, DiskOK
  <2>2. Bounded' /\ Loaded' /\ Inside' /\ OursFits' /\ DiskFits'
    BY <1>2 DEF vars, parsed, object, files, IInv, Bounded, Loaded, Inside, Sound,
                OursFits, DiskFits, W, H
  <2> QED BY <2>1, <2>2 DEF IInv, TypeOK
<1> QED BY <1>1, <1>2, FreshStep, ReadStep, RowStep, PlaceStep, SaveStep DEF Steps

\* It holds always.
THEOREM Invariance == Spec => []IInv
BY InitIInv, NextIInv, PTL DEF Spec

\* No index that is remembered lies outside of the data.
THEOREM Typing == Spec => []TypeOK
BY Invariance, PTL DEF IInv

\* A sound file is loaded with its cells, and nothing is written elsewhere.
THEOREM Loading == Spec => []LoadsItsCells
BY Invariance, Loads, PTL

\* What is saved as Life 1.06 is loaded again as it was.
THEOREM Survival == Spec => []SurvivesSaving
BY Invariance, Survives, PTL
=============================================================================
