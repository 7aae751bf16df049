---------------------------- MODULE Draw3DProofs ----------------------------
(***************************************************************************)
(* Theorems about Draw3D, for every set of sizes and every cube.           *)
(*                                                                         *)
(*   TypeCorrect          a window holds exactly depth generations         *)
(*   ImplementsHistory    both windows implement History                   *)
(*   ShaderShowsHistory   the geometry shader's picture is the history     *)
(*   CheckVertexAndIndex  the indexes of a cube name its own vertexes      *)
(*   ShowsHistory         either window's picture is the history           *)
(*   FitsUnlessTall       a window that is not tall never gives up         *)
(*   TallOverMax          every window that is tall has worlds too many    *)
(***************************************************************************)
EXTENDS Draw3D, SequenceLemmas, SequenceTheorems, TLAPS

\* The window after a push, in the two orders the code pushes in.
LEMMA PushForgetsOldest ==
  \A S : \A gens \in Seq(S), world \in S, n \in Nat \ {0} :
    Len(gens) = n =>
      /\ Append(KeepLast(gens, n - 1), world) = Append(Tail(gens), world)
      /\ KeepLast(Append(gens, world), n) = Append(Tail(gens), world)
      /\ Append(Tail(gens), world) \in Seq(S)
      /\ Len(Append(Tail(gens), world)) = n
<1> SUFFICES ASSUME NEW S, NEW gens \in Seq(S), NEW world \in S,
                    NEW n \in Nat \ {0}, Len(gens) = n
             PROVE  /\ Append(KeepLast(gens, n - 1), world) = Append(Tail(gens), world)
                    /\ KeepLast(Append(gens, world), n) = Append(Tail(gens), world)
                    /\ Append(Tail(gens), world) \in Seq(S)
                    /\ Len(Append(Tail(gens), world)) = n
  OBVIOUS
<1>1. /\ Tail(gens) \in Seq(S)
      /\ Len(Tail(gens)) = n - 1
      /\ \A i \in 1 .. n - 1 : Tail(gens)[i] = gens[i + 1]
  OBVIOUS
<1>2. KeepLast(gens, n - 1) = SubSeq(gens, 2, n)
  BY DEF KeepLast
<1>3. SubSeq(gens, 2, n) = Tail(gens)
  BY <1>1
<1>4. KeepLast(Append(gens, world), n) = SubSeq(Append(gens, world), 2, n + 1)
  <2>1. Len(Append(gens, world)) = n + 1
    OBVIOUS
  <2>2. n + 1 > n /\ n + 1 - n + 1 = 2
    OBVIOUS
  <2>3. QED
    BY <2>1, <2>2 DEF KeepLast
<1>5. SubSeq(Append(gens, world), 2, n + 1) = Append(Tail(gens), world)
  BY <1>1
<1>6. QED
  BY <1>1, <1>2, <1>3, <1>4, <1>5

\* The two ways to move on both push the new world.
LEMMA MoveIsPush ==
  ASSUME TypeOK, NEW world \in Worlds(size), MoveNextGeneration(world)
  PROVE  /\ generations' = Append(Tail(generations), world)
         /\ generations' \in Seq(Worlds(size))
         /\ Len(generations') = size.depth
         /\ size' = size
<1>1. /\ generations \in Seq(Worlds(size)) /\ Len(generations) = size.depth
      /\ size.depth \in Nat \ {0}
  BY SizesAssumption DEF TypeOK
<1>2. /\ Append(KeepLast(generations, size.depth - 1), world)
           = Append(Tail(generations), world)
      /\ KeepLast(Append(generations, world), size.depth)
           = Append(Tail(generations), world)
      /\ Append(Tail(generations), world) \in Seq(Worlds(size))
      /\ Len(Append(Tail(generations), world)) = size.depth
  <2> DEFINE n == size.depth
             S == Worlds(size)
  <2>1. /\ generations \in Seq(S) /\ Len(generations) = n
        /\ n \in Nat \ {0} /\ world \in S
    BY <1>1
  <2> HIDE DEF n, S
  <2>2. Append(KeepLast(generations, n - 1), world) = Append(Tail(generations), world)
    BY <2>1, PushForgetsOldest
  <2>3. KeepLast(Append(generations, world), n) = Append(Tail(generations), world)
    BY <2>1, PushForgetsOldest
  <2>4. Append(Tail(generations), world) \in Seq(S)
    BY <2>1, PushForgetsOldest
  <2>5. Len(Append(Tail(generations), world)) = n
    BY <2>1, PushForgetsOldest
  <2>6. QED
    BY <2>2, <2>3, <2>4, <2>5 DEF n, S
<1>3. QED
  BY <1>2 DEF MoveNextGeneration

\* A window opens with as many empty worlds as it is deep.
LEMMA EmptyWindow ==
  ASSUME NEW s \in Sizes
  PROVE  /\ [g \in 1 .. s.depth |-> {}] \in Seq(Worlds(s))
         /\ Len([g \in 1 .. s.depth |-> {}]) = s.depth
  BY SizesAssumption DEF Worlds
-----------------------------------------------------------------------------
LEMMA InitTypeOK == Init => TypeOK
  BY EmptyWindow DEF Init, TypeOK

\* Update says whether the program failed.
LEMMA UpdateTypeOK ==
  ASSUME NEW gens, Update(gens)
  PROVE  failed' \in BOOLEAN
<1> DEFINE vertexes == Len(CopyVertexes(gens)) > MaxVertexes(size)
           indexes == Len(CopyIndexes(gens)) > MaxIndexes(size)
<1>1. failed' = TRUE \/ failed' = indexes
  BY DEF Update
<1>2. indexes \in BOOLEAN
  OBVIOUS
<1>3. QED
  BY <1>1, <1>2

LEMMA NextTypeOK == TypeOK /\ [Next]_vars => TypeOK'
<1> SUFFICES ASSUME TypeOK, [Next]_vars PROVE TypeOK'
  OBVIOUS
<1>1. ASSUME NEW s \in Sizes, Initialize(s) PROVE TypeOK'
  BY <1>1, EmptyWindow DEF Initialize, TypeOK
<1>2. ASSUME NEW world \in Worlds(size), MoveNextGeneration(world) PROVE TypeOK'
  <2>1. /\ generations' \in Seq(Worlds(size))
        /\ Len(generations') = size.depth
        /\ size' = size
    BY <1>2, MoveIsPush
  <2>2. failed' \in BOOLEAN
    BY <1>2, UpdateTypeOK DEF MoveNextGeneration, TypeOK
  <2>3. frame' = "moved"
    BY <1>2 DEF MoveNextGeneration
  <2>4. QED
    BY <2>1, <2>2, <2>3 DEF TypeOK
<1>3. CASE Draw
  <2>1. failed' \in BOOLEAN
    BY <1>3, UpdateTypeOK DEF Draw, TypeOK
  <2>2. QED
    BY <1>3, <2>1 DEF Draw, TypeOK
<1>4. CASE UNCHANGED vars
  BY <1>4 DEF TypeOK, vars
<1>5. QED
  BY <1>1, <1>2, <1>3, <1>4 DEF Next

\* Types are kept, and a window never holds more or fewer generations than
\* it was opened with (Draw3DWithGS::Draw3D reads that many).
THEOREM TypeCorrect == Spec => []TypeOK
  BY InitTypeOK, NextTypeOK, PTL DEF Spec
-----------------------------------------------------------------------------
\* Both windows implement the history of the last worlds, for all sizes.
THEOREM ImplementsHistory == Spec => RefinesHistory
<1> DEFINE Open(s) == [depth |-> s.depth, worlds |-> Worlds(s)]
<1>1. Init => Past!Init
  <2> SUFFICES ASSUME Init PROVE Past!Init
    OBVIOUS
  <2>1. Open(size) \in {Open(s) : s \in Sizes} /\ Open(size).depth = size.depth
    BY DEF Init
  <2>2. generations = [g \in 1 .. Open(size).depth |-> {}]
    BY <2>1 DEF Init
  <2>3. QED
    BY <2>1, <2>2, Zenon DEF Past!Init
<1>2. TypeOK /\ [Next]_vars => [Past!Next]_(Past!hvars)
  <2> SUFFICES ASSUME TypeOK, [Next]_vars PROVE [Past!Next]_(Past!hvars)
    OBVIOUS
  <2>1. ASSUME NEW s \in Sizes, Initialize(s) PROVE Past!Next
    <3>1. Open(s) \in {Open(r) : r \in Sizes} /\ Open(s).depth = s.depth
      OBVIOUS
    <3>2. Open(size)' = Open(s)
      BY <2>1 DEF Initialize, Worlds, Cells
    <3>3. generations' = [g \in 1 .. Open(s).depth |-> {}]
      BY <2>1, <3>1 DEF Initialize
    <3>4. Past!Open(Open(s))
      BY <3>2, <3>3, Zenon DEF Past!Open
    <3>5. QED
      BY <3>1, <3>4, Zenon DEF Past!Next
  <2>2. ASSUME NEW world \in Worlds(size), MoveNextGeneration(world)
        PROVE  Past!Next
    <3>1. /\ generations' = Append(Tail(generations), world)
          /\ size' = size
      BY <2>2, MoveIsPush
    <3>2. Past!Push(world)
      BY <3>1 DEF Past!Push, Worlds, Cells
    <3>3. QED
      BY <3>2 DEF Past!Next
  <2>3. CASE Draw
    BY <2>3 DEF Draw, Past!hvars, Worlds, Cells
  <2>4. CASE UNCHANGED vars
    BY <2>4 DEF vars, Past!hvars, Worlds, Cells
  <2>5. QED
    BY <2>1, <2>2, <2>3, <2>4 DEF Next
<1>3. QED
  BY <1>1, <1>2, TypeCorrect, PTL DEF Spec, RefinesHistory, Past!Spec
-----------------------------------------------------------------------------
(* The picture of the GS window.  Its vertex shader gets a number, not a   *)
(* place, and divides; the lemmas invert that.                             *)

LEMMA Divide ==
  \A a \in Nat \ {0}, n \in Nat :
    /\ n - (n \div a) * a = n % a
    /\ (n % a) + a * (n \div a) = n
    /\ n % a \in 0 .. a - 1
    /\ n \div a \in Nat
  OBVIOUS

LEMMA DivideProduct ==
  \A a \in Nat \ {0}, d \in Nat \ {0} :
    /\ a * d \in Nat \ {0}
    /\ \A n \in Nat : n < a * d => n \div a < d
    /\ \A g \in 0 .. d - 1, c \in 0 .. a - 1 : g * a + c < a * d
  OBVIOUS

LEMMA Compose ==
  \A a \in Nat \ {0}, g \in Nat : \A c \in 0 .. a - 1 :
    /\ (g * a + c) \div a = g
    /\ (g * a + c) % a = c
    /\ g * a + c \in Nat
  OBVIOUS

LEMMA AreaType ==
  ASSUME TypeOK
  PROVE  /\ size.w \in Nat \ {0}
         /\ size.w * size.h \in Nat \ {0}
         /\ size.depth \in Nat \ {0}
<1>1. size.w \in Nat \ {0} /\ size.h \in Nat \ {0} /\ size.depth \in Nat \ {0}
  BY SizesAssumption DEF TypeOK
<1>2. QED
  BY <1>1, DivideProduct

\* The shader gives every vertex the cell and the depth its number stands for.
LEMMA PlaceOfVertex ==
  ASSUME TypeOK, NEW id \in Nat
  PROVE  /\ Position(id).cell = id % (size.w * size.h)
         /\ Position(id).depth = id \div (size.w * size.h)
<1> DEFINE area == size.w * size.h
           temp == id - (id \div area) * area
<1>1. area \in Nat \ {0} /\ size.w \in Nat \ {0}
  BY AreaType
<1>2. (id \div area) * area = (id \div area) * size.w * size.h
  BY <1>1, SizesAssumption DEF TypeOK
<1> HIDE DEF area
<1>3. temp = id % area /\ temp \in Nat
  BY <1>1, Divide
<1> HIDE DEF temp
<1>4. (temp % size.w) + size.w * (temp \div size.w) = temp
  BY <1>1, <1>3, Divide
<1>5. Position(id) = [cell |-> (temp % size.w) + size.w * (temp \div size.w),
                      depth |-> id \div area]
  BY <1>2 DEF Position, temp, area
<1>6. QED
  BY <1>3, <1>4, <1>5 DEF area

\* The places of the numbers of the live cells are the live places.
LEMMA ShaderDrawsLivePlaces ==
  ASSUME TypeOK
  PROVE  DrawPoints(AllCells) = UNION {Cube(p[2], p[1] - 1) : p \in LivePlaces}
<1> DEFINE area == size.w * size.h
           n == area * size.depth
           place(i) == <<((i - 1) \div area) + 1, (i - 1) % area>>
           number(p) == (p[1] - 1) * area + p[2] + 1
           live == {j \in DOMAIN AllCells : AllCells[j]}
           cube(p) == Cube(p[2], p[1] - 1)
           alive(k) == k % area \in generations[(k \div area) + 1]
<1>1. /\ area \in Nat \ {0} /\ size.depth \in Nat \ {0} /\ n \in Nat \ {0}
      /\ Cells(size) = 0 .. area - 1
  BY AreaType, DivideProduct DEF Cells
<1>2. AllCells = [i \in 1 .. n |-> (i - 1) % area \in generations[((i - 1) \div area) + 1]]
  BY DEF AllCells
<1>2a. live = {i \in 1 .. n : alive(i - 1)}
  BY <1>2
<1>2b. ASSUME NEW k \in Nat, k < n, alive(k) PROVE k + 1 \in live
  <2>1. k + 1 \in 1 .. n /\ k + 1 - 1 = k
    BY <1>1, <1>2b
  <2>2. alive(k + 1 - 1)
    BY <2>1, <1>2b
  <2>3. QED
    BY <1>2a, <2>1, <2>2
<1> HIDE DEF area, live
<1>3. ASSUME NEW i \in 1 .. n
      PROVE  place(i) \in (1 .. size.depth) \X Cells(size)
  <2>1. i - 1 \in Nat /\ i - 1 < area * size.depth
    BY <1>1
  <2>2. /\ (i - 1) \div area < size.depth
        /\ (i - 1) \div area \in Nat
        /\ (i - 1) % area \in 0 .. area - 1
    BY <1>1, <2>1, Divide, DivideProduct
  <2>3. QED
    BY <1>1, <2>2
<1>4. ASSUME NEW i \in live
      PROVE  /\ place(i) \in LivePlaces
             /\ Cube(Position(i - 1).cell, Position(i - 1).depth) = cube(place(i))
  <2>1. i \in 1 .. n /\ alive(i - 1)
    BY <1>2a, Zenon
  <2>2. place(i) \in (1 .. size.depth) \X Cells(size)
    BY <1>3, <2>1
  <2>3. i - 1 \in Nat /\ (i - 1) \div area \in Nat
    <3>1. i - 1 \in Nat
      BY <1>1, <2>1
    <3>2. QED
      BY <1>1, <3>1, Divide
  <2>4. /\ Position(i - 1).cell = (i - 1) % area
        /\ Position(i - 1).depth = (i - 1) \div area
    BY <2>3, PlaceOfVertex DEF area
  <2>5. place(i) \in LivePlaces
    BY <2>1, <2>2 DEF LivePlaces
  <2>6. place(i)[2] = (i - 1) % area /\ place(i)[1] = ((i - 1) \div area) + 1
    OBVIOUS
  <2> HIDE DEF place
  <2>7. cube(place(i)) = Cube((i - 1) % area, (i - 1) \div area)
    <3>1. place(i)[1] - 1 = (i - 1) \div area
      BY <2>3, <2>6
    <3>2. QED
      BY <2>6, <3>1, Zenon
  <2>8. QED
    BY <2>4, <2>5, <2>7
<1>5. ASSUME NEW p \in LivePlaces
      PROVE  number(p) \in live /\ place(number(p)) = p
  <2>1. /\ p = <<p[1], p[2]>> /\ p[1] \in 1 .. size.depth /\ p[2] \in 0 .. area - 1
        /\ p[2] \in generations[p[1]]
    BY <1>1 DEF LivePlaces
  <2>2. p[1] - 1 \in 0 .. size.depth - 1 /\ p[1] - 1 \in Nat /\ p[1] - 1 + 1 = p[1]
    BY <1>1, <2>1
  <2> DEFINE m == (p[1] - 1) * area + p[2]
  <2>3. m \div area = p[1] - 1 /\ m % area = p[2] /\ m \in Nat /\ m < n
    BY <1>1, <2>1, <2>2, Compose, DivideProduct
  <2>4. number(p) = m + 1
    OBVIOUS
  <2> HIDE DEF m
  <2>5. m + 1 \in 1 .. n /\ m + 1 - 1 = m
    BY <1>1, <2>3
  <2>6. place(m + 1) = p
    BY <2>1, <2>2, <2>3, <2>5
  <2>7. m + 1 \in live
    <3>1. m % area \in generations[(m \div area) + 1]
      BY <2>1, <2>2, <2>3
    <3>2. QED
      BY <1>2b, <2>3, <3>1
  <2>8. QED
    BY <2>4, <2>6, <2>7
<1> HIDE DEF place, number, live, cube
<1>6. DrawPoints(AllCells)
        = UNION {Cube(Position(i - 1).cell, Position(i - 1).depth) : i \in live}
  BY DEF DrawPoints, live
<1>7. {Cube(Position(i - 1).cell, Position(i - 1).depth) : i \in live}
        = {cube(p) : p \in LivePlaces}
  BY <1>4, <1>5
<1>8. QED
  BY <1>6, <1>7 DEF cube

\* The GS window's picture is that of its generations after every frame.
ShaderPicture == size.method = "GS" => PictureShowsHistory

LEMMA InitShaderPicture == Init => ShaderPicture
  BY DEF Init, ShaderPicture, PictureShowsHistory

LEMMA NextShaderPicture == TypeOK /\ ShaderPicture /\ [Next]_vars => ShaderPicture'
<1> SUFFICES ASSUME TypeOK, ShaderPicture, [Next]_vars PROVE ShaderPicture'
  OBVIOUS
<1>1. ASSUME NEW s \in Sizes, Initialize(s) PROVE ShaderPicture'
  BY <1>1 DEF Initialize, ShaderPicture, PictureShowsHistory
<1>2. ASSUME NEW world \in Worlds(size), MoveNextGeneration(world) PROVE ShaderPicture'
  BY <1>2 DEF MoveNextGeneration, ShaderPicture, PictureShowsHistory
<1>3. CASE Draw
  <2> SUFFICES ASSUME size.method = "GS" PROVE ShaderPicture'
    BY <1>3 DEF Draw, ShaderPicture
  <2>1. picture' = DrawPoints(AllCells) /\ UNCHANGED <<size, generations>>
    BY <1>3 DEF Draw
  <2>2. picture' = UNION {Cube(p[2], p[1] - 1) : p \in LivePlaces}
    BY <2>1, ShaderDrawsLivePlaces
  <2>3. LivePlaces' = LivePlaces
    BY <2>1 DEF LivePlaces, Cells
  <2>4. QED
    BY <2>2, <2>3 DEF ShaderPicture, PictureShowsHistory
<1>4. CASE UNCHANGED vars
  BY <1>4 DEF vars, ShaderPicture, PictureShowsHistory, LivePlaces, Cells
<1>5. QED
  BY <1>1, <1>2, <1>3, <1>4 DEF Next

\* For every area and depth, what the geometry shader draws is a cube for
\* each live cell of each generation, at its own place.
THEOREM ShaderShowsHistory == Spec => [](size.method = "GS" => PictureShowsHistory)
<1>1. Spec => []ShaderPicture
  BY InitShaderPicture, NextShaderPicture, TypeCorrect, PTL,
     InitTypeOK, NextTypeOK DEF Spec
<1>2. QED
  BY <1>1 DEF ShaderPicture
-----------------------------------------------------------------------------
(* The buffers of the CPU window.  Its cubes are numbered through all      *)
(* generations; PS is the sequence of their places, and the two buffers    *)
(* are functions of it.                                                    *)

\* The cell and the depth of a cube.
CubePlace == Nat \X Nat

Block(i, size_) == ((i - 1) \div size_) + 1

VertexOf(PS, i) ==
  [cell |-> PS[Block(i, Corners)][1], corner |-> (i - 1) % Corners,
   depth |-> PS[Block(i, Corners)][2]]

VertexesAt(PS) == [i \in 1 .. Len(PS) * Corners |-> VertexOf(PS, i)]

IndexesFor(n) ==
  [i \in 1 .. n * PerCube |->
     s_indices[((i - 1) % PerCube) + 1] + Corners * ((i - 1) \div PerCube)]

VertexType == [cell : Nat, corner : Nat, depth : Nat]
IndexType == Nat

\* The n blocks of c entries of a buffer.
LEMMA Blocks ==
  \A c \in Nat \ {0}, n \in Nat : \A i \in 1 .. n * c :
    /\ i - 1 \in Nat /\ (i - 1) \div c \in 0 .. n - 1 /\ (i - 1) % c \in 0 .. c - 1
    /\ Block(i, c) \in 1 .. n
<1> SUFFICES ASSUME NEW c \in Nat \ {0}, NEW n \in Nat, NEW i \in 1 .. n * c
             PROVE  /\ i - 1 \in Nat /\ (i - 1) \div c \in 0 .. n - 1
                    /\ (i - 1) % c \in 0 .. c - 1 /\ Block(i, c) \in 1 .. n
  OBVIOUS
<1>1. i - 1 \in Nat /\ n # 0 /\ i - 1 < c * n
  <2>1. n * c \in Nat /\ n * c = c * n /\ 0 * c = 0
    OBVIOUS
  <2> QED BY <2>1
<1>2. (i - 1) \div c < n /\ (i - 1) \div c \in Nat /\ (i - 1) % c \in 0 .. c - 1
  BY <1>1, Divide, DivideProduct
<1> QED BY <1>1, <1>2 DEF Block

LEMMA Distribute ==
  \A c \in Nat, p \in Nat, q \in Nat :
    (p + q) * c = p * c + q * c /\ p * c \in Nat /\ q * c \in Nat
  OBVIOUS

\* The entry after the first p blocks lie p blocks further on.
LEMMA LaterBlocks ==
  ASSUME NEW c \in Nat \ {0}, NEW p \in Nat, NEW k \in Nat
  PROVE  /\ (k + p * c) \div c = (k \div c) + p
         /\ (k + p * c) % c = k % c
<1>1. PICK d \in Nat, r \in 0 .. c - 1 :
        d = k \div c /\ r = k % c /\ k = r + c * d
  BY Divide
<1>2. PICK g \in Nat : g = d + p
  BY <1>1
<1>3. k + p * c = g * c + r
  BY <1>1, <1>2, Distribute
<1>4. (g * c + r) \div c = g /\ (g * c + r) % c = r
  BY Compose
<1> QED BY <1>1, <1>2, <1>3, <1>4

\* Two parts of a buffer, of p blocks in a entries and q blocks in b entries.
Parts(c, p, a, q, b) ==
  /\ \A i \in 1 .. a : Block(i, c) \in 1 .. p
  /\ \A j \in 1 .. b : /\ Block(j, c) \in 1 .. q
                       /\ Block(j + a, c) = Block(j, c) + p
                       /\ (j + a - 1) % c = (j - 1) % c

LEMMA JoinBlocks ==
  ASSUME NEW c \in Nat \ {0}, NEW p \in Nat, NEW q \in Nat,
         NEW a \in Nat, NEW b \in Nat, a = p * c, b = q * c
  PROVE  Parts(c, p, a, q, b)
<1>1. \A i \in 1 .. a : Block(i, c) \in 1 .. p
  BY Blocks
<1>2. ASSUME NEW j \in 1 .. b
      PROVE  /\ Block(j, c) \in 1 .. q
             /\ Block(j + a, c) = Block(j, c) + p
             /\ (j + a - 1) % c = (j - 1) % c
  <2>1. Block(j, c) \in 1 .. q
    BY Blocks
  <2>2. j - 1 \in Nat /\ j + a - 1 = (j - 1) + a
    OBVIOUS
  <2>3. /\ ((j - 1) + a) \div c = ((j - 1) \div c) + p
        /\ ((j - 1) + a) % c = (j - 1) % c
    BY <2>2, LaterBlocks
  <2>4. (j - 1) \div c \in Nat
    BY <2>2, Divide
  <2>5. ((j - 1) \div c) + p + 1 = ((j - 1) \div c) + 1 + p
    BY <2>4
  <2> QED BY <2>1, <2>2, <2>3, <2>5 DEF Block
<1> QED BY <1>1, <1>2 DEF Parts

LEMMA VertexesType ==
  ASSUME NEW PS \in Seq(CubePlace)
  PROVE  /\ VertexesAt(PS) \in Seq(VertexType)
         /\ Len(VertexesAt(PS)) = Len(PS) * Corners
<1>1. Corners \in Nat \ {0} /\ Len(PS) \in Nat /\ Len(PS) * Corners \in Nat
  BY CornersAssumption, Distribute
<1>2. ASSUME NEW i \in 1 .. Len(PS) * Corners PROVE VertexOf(PS, i) \in VertexType
  <2>1. Block(i, Corners) \in 1 .. Len(PS) /\ (i - 1) % Corners \in 0 .. Corners - 1
    BY <1>1, Blocks
  <2>2. PS[Block(i, Corners)] \in CubePlace
    BY <2>1
  <2> QED BY <1>1, <2>1, <2>2 DEF VertexType, CubePlace, VertexOf
<1> QED BY <1>1, <1>2 DEF VertexesAt

LEMMA IndexesType ==
  ASSUME NEW n \in Nat
  PROVE  /\ IndexesFor(n) \in Seq(IndexType)
         /\ Len(IndexesFor(n)) = n * PerCube
<1>1. PerCube \in Nat \ {0} /\ n * PerCube \in Nat /\ Corners \in Nat \ {0}
  BY CornersAssumption, Distribute DEF PerCube
<1>2. ASSUME NEW i \in 1 .. n * PerCube
      PROVE  s_indices[((i - 1) % PerCube) + 1] + Corners * ((i - 1) \div PerCube) \in Nat
  <2>1. (i - 1) \div PerCube \in Nat /\ ((i - 1) % PerCube) + 1 \in 1 .. PerCube
    BY <1>1, Blocks
  <2>2. s_indices[((i - 1) % PerCube) + 1] \in Nat
    BY <2>1, CornersAssumption DEF PerCube
  <2>3. Corners * ((i - 1) \div PerCube) \in Nat
    BY <1>1, <2>1, Distribute
  <2> QED BY <2>2, <2>3
<1> QED BY <1>1, <1>2 DEF IndexesFor, IndexType

\* Vertexes of more cubes follow those of the first ones.
LEMMA JoinVertexes ==
  ASSUME NEW PS \in Seq(CubePlace), NEW QS \in Seq(CubePlace)
  PROVE  VertexesAt(PS \o QS) = VertexesAt(PS) \o VertexesAt(QS)
<1> DEFINE all == VertexesAt(PS \o QS)
           first == VertexesAt(PS)
           second == VertexesAt(QS)
<1>1. PICK p \in Nat, q \in Nat, c \in Nat \ {0} :
        p = Len(PS) /\ q = Len(QS) /\ c = Corners
  BY CornersAssumption
<1>2. PICK a \in Nat, b \in Nat : a = p * c /\ b = q * c /\ (p + q) * c = a + b
  BY Distribute
<1>3. /\ PS \o QS \in Seq(CubePlace) /\ Len(PS \o QS) = p + q
      /\ \A k \in 1 .. p : (PS \o QS)[k] = PS[k]
      /\ \A k \in 1 .. q : (PS \o QS)[k + p] = QS[k]
  BY <1>1
<1>4. /\ all \in Seq(VertexType) /\ Len(all) = a + b
      /\ first \in Seq(VertexType) /\ Len(first) = a
      /\ second \in Seq(VertexType) /\ Len(second) = b
  BY <1>1, <1>2, <1>3, VertexesType
<1>5. /\ \A i \in 1 .. a + b : all[i] = VertexOf(PS \o QS, i)
      /\ \A i \in 1 .. a : first[i] = VertexOf(PS, i)
      /\ \A i \in 1 .. b : second[i] = VertexOf(QS, i)
  BY <1>1, <1>2, <1>3 DEF VertexesAt
<1>6. Parts(c, p, a, q, b)
  BY <1>2, JoinBlocks
<1> HIDE DEF all, first, second
<1>7. ASSUME NEW i \in 1 .. a PROVE all[i] = first[i]
  <2>1. (PS \o QS)[Block(i, c)] = PS[Block(i, c)]
    BY <1>3, <1>6 DEF Parts
  <2>2. VertexOf(PS \o QS, i) = VertexOf(PS, i)
    BY <1>1, <2>1 DEF VertexOf
  <2> QED BY <1>5, <2>2
<1>8. ASSUME NEW j \in 1 .. b PROVE all[j + a] = second[j]
  <2>1. (PS \o QS)[Block(j + a, c)] = QS[Block(j, c)] /\ (j + a - 1) % c = (j - 1) % c
    BY <1>3, <1>6 DEF Parts
  <2>2. VertexOf(PS \o QS, j + a) = VertexOf(QS, j)
    BY <1>1, <2>1 DEF VertexOf
  <2> QED BY <1>5, <2>2
<1>9. all = first \o second
  BY <1>4, <1>7, <1>8, JoinedParts
<1> QED BY <1>9 DEF all, first, second

\* So do indexes, which are as much larger as there are vertexes before.
LEMMA JoinIndexes ==
  ASSUME NEW m \in Nat, NEW n \in Nat
  PROVE  IndexesFor(m + n) = IndexesFor(m) \o
           [j \in 1 .. Len(IndexesFor(n)) |-> Corners * m + IndexesFor(n)[j]]
<1> DEFINE all == IndexesFor(m + n)
           first == IndexesFor(m)
           added == IndexesFor(n)
           second == [j \in 1 .. Len(added) |-> Corners * m + added[j]]
           Index(i) == s_indices[((i - 1) % PerCube) + 1] + Corners * ((i - 1) \div PerCube)
<1>1. PICK c \in Nat \ {0}, C \in Nat \ {0} : c = PerCube /\ C = Corners
  BY CornersAssumption DEF PerCube
<1>2. PICK a \in Nat, b \in Nat, d \in Nat :
        a = m * c /\ b = n * c /\ (m + n) * c = a + b /\ d = C * m
  BY Distribute
<1>3. /\ all \in Seq(IndexType) /\ Len(all) = a + b
      /\ first \in Seq(IndexType) /\ Len(first) = a
      /\ added \in Seq(IndexType) /\ Len(added) = b
  BY <1>1, <1>2, IndexesType
<1>4. /\ \A i \in 1 .. a + b : all[i] = Index(i)
      /\ \A i \in 1 .. a : first[i] = Index(i)
      /\ \A i \in 1 .. b : added[i] = Index(i)
  BY <1>1, <1>2 DEF IndexesFor
<1> HIDE DEF all, first, added
<1>5. second \in Seq(IndexType) /\ Len(second) = b /\ \A j \in 1 .. b : second[j] = d + added[j]
  <2>1. Corners * m = d
    BY <1>1, <1>2
  <2>2. second = [j \in 1 .. b |-> d + added[j]]
    BY <1>3, <2>1
  <2>3. \A j \in 1 .. b : d + added[j] \in Nat
    BY <1>3 DEF IndexType
  <2> HIDE DEF second
  <2> QED BY <2>2, <2>3 DEF IndexType
<1>6. Parts(c, m, a, n, b)
  BY <1>2, JoinBlocks
<1> HIDE DEF second
<1>7. ASSUME NEW i \in 1 .. a PROVE all[i] = first[i]
  <2> HIDE DEF Index
  <2> QED BY <1>4
<1>8. ASSUME NEW j \in 1 .. b PROVE all[j + a] = second[j]
  <2>1. PICK r \in 0 .. c - 1, k \in Nat :
          /\ r = (j - 1) % c /\ k = (j - 1) \div c
          /\ r = (j + a - 1) % c
    <3>0. j - 1 \in Nat
      OBVIOUS
    <3>1. (j - 1) % c \in 0 .. c - 1 /\ (j - 1) \div c \in Nat
      BY <3>0, Divide
    <3>2. (j + a - 1) % c = (j - 1) % c
      BY <1>6 DEF Parts
    <3> QED BY <3>1, <3>2
  <2>2. (j + a - 1) \div c = k + m
    <3>1. /\ (j + a - 1) \div c \in Nat
          /\ ((j + a - 1) \div c) + 1 = ((j - 1) \div c) + 1 + m
      BY <1>6, Divide DEF Parts, Block
    <3> QED BY <2>1, <3>1
  <2>3. PICK x \in Nat : x = s_indices[r + 1]
    BY <1>1, CornersAssumption DEF PerCube
  <2>4. C * (k + m) = C * k + d /\ C * k \in Nat
    BY <1>2, Distribute
  <2>5. Index(j + a) = x + (C * k + d) /\ Index(j) = x + C * k
    BY <1>1, <2>1, <2>2, <2>3, <2>4
  <2> HIDE DEF Index
  <2>6. all[j + a] = Index(j + a) /\ second[j] = d + Index(j)
    BY <1>4, <1>5
  <2> QED BY <2>4, <2>5, <2>6
<1>9. all = first \o second
  <2>1. Len(all) = Len(first) + Len(second)
    BY <1>3, <1>5
  <2>2. /\ \A i \in 1 .. Len(first) : all[i] = first[i]
        /\ \A j \in 1 .. Len(second) : all[j + Len(first)] = second[j]
    BY <1>3, <1>5, <1>7, <1>8
  <2> QED BY <1>3, <1>5, <2>1, <2>2, JoinedParts
<1> QED BY <1>9 DEF all, first, second, added

\* The cubes of one generation: the cells in index order, at its depth.
PlacesOf(world, g) == [i \in 1 .. Cardinality(world) |-> <<InOrder(world)[i], g - 1>>]

LEMMA InOrderLists ==
  ASSUME NEW m \in Nat, NEW world, world \subseteq 0 .. m - 1
  PROVE  /\ Cardinality(world) \in Nat /\ Cardinality(world) <= m
         /\ Lists(InOrder(world), Cardinality(world), world)
<1> DEFINE n == Cardinality(world)
           cubes == InOrder(world)
<1>1. n \in Nat /\ n <= m /\ \E f : Lists(f, n, world)
  BY Enumeration
<1>2. \E f \in [1 .. n -> world] : \A i, j \in 1 .. n : i < j => f[i] < f[j]
  BY <1>1 DEF Lists, Increasing
<1>3. cubes \in [1 .. n -> world] /\ \A i, j \in 1 .. n : i < j => cubes[i] < cubes[j]
  BY <1>2 DEF InOrder
<1> HIDE DEF cubes
<1>4. Increasing(cubes, n)
  BY <1>3 DEF Increasing
<1>5. \A c \in world : \E i \in 1 .. n : cubes[i] = c
  BY <1>3, <1>4, IncreasingIsOnto
<1>6. Lists(cubes, n, world)
  BY <1>3, <1>4, <1>5 DEF Lists
<1> QED BY <1>1, <1>6 DEF cubes

\* The vertexes of a generation at its depth.
AtDepth(vertexes, depth) ==
  [i \in 1 .. Len(vertexes) |->
     [cell |-> vertexes[i].cell, corner |-> vertexes[i].corner, depth |-> depth]]

\* What Add and the copy loop make of one generation.
LEMMA OneGeneration ==
  ASSUME NEW m \in Nat, NEW world, world \subseteq 0 .. m - 1, NEW g \in Nat \ {0}
  PROVE  /\ PlacesOf(world, g) \in Seq(CubePlace)
         /\ Len(PlacesOf(world, g)) = Cardinality(world)
         /\ {PlacesOf(world, g)[i] : i \in 1 .. Cardinality(world)}
              = world \X {g - 1}
         /\ IndexesOf(world) = IndexesFor(Cardinality(world))
         /\ Len(VertexesOf(world)) = Corners * Cardinality(world)
         /\ VertexesAt(PlacesOf(world, g)) = AtDepth(VertexesOf(world), g - 1)
<1> DEFINE n == Cardinality(world)
           cubes == InOrder(world)
           PS == PlacesOf(world, g)
<1>0. n \in Nat /\ Lists(cubes, n, world)
  BY InOrderLists
<1>1. /\ n \in Nat /\ cubes \in [1 .. n -> world]
      /\ \A c \in world : \E i \in 1 .. n : cubes[i] = c
  BY <1>0 DEF Lists
<1>2. \A i \in 1 .. n : cubes[i] \in world /\ cubes[i] \in Nat
  <2>1. \A i \in 1 .. n : cubes[i] \in world
    BY <1>1
  <2>2. \A c \in world : c \in Nat
    OBVIOUS
  <2> QED BY <2>1, <2>2
<1>3. cubes = [i \in 1 .. n |-> cubes[i]] /\ Len(cubes) = n
  BY <1>1
<1>4. Corners \in Nat \ {0} /\ n * Corners \in Nat /\ n * Corners = Corners * n
  BY <1>1, CornersAssumption, Distribute
<1> HIDE DEF n, cubes
<1>5. PS = [i \in 1 .. n |-> <<cubes[i], g - 1>>]
  BY DEF PlacesOf, n, cubes
<1> HIDE DEF PS
<1>6. PS \in Seq(CubePlace) /\ Len(PS) = n
  BY <1>1, <1>2, <1>5 DEF CubePlace
<1>7. {PS[i] : i \in 1 .. n} = world \X {g - 1}
  <2>1. \A i \in 1 .. n : PS[i] \in world \X {g - 1}
    BY <1>2, <1>5
  <2>2. ASSUME NEW p \in world \X {g - 1} PROVE \E i \in 1 .. n : PS[i] = p
    <3>1. p[1] \in world /\ p = <<p[1], g - 1>>
      OBVIOUS
    <3>2. PICK i \in 1 .. n : cubes[i] = p[1]
      BY <1>1, <3>1
    <3> QED BY <1>5, <3>1, <3>2
  <2> QED BY <2>1, <2>2
<1>8. VertexesOf(world) = [i \in 1 .. n * Corners |->
         [cell |-> cubes[Block(i, Corners)], corner |-> (i - 1) % Corners]]
  BY <1>3 DEF VertexesOf, Block, cubes
<1>9. Len(VertexesOf(world)) = n * Corners
  BY <1>4, <1>8
<1>10. ASSUME NEW i \in 1 .. n * Corners
       PROVE  VertexOf(PS, i) = [cell |-> VertexesOf(world)[i].cell,
                corner |-> VertexesOf(world)[i].corner, depth |-> g - 1]
  <2>1. Block(i, Corners) \in 1 .. n
    BY <1>1, <1>4, Blocks
  <2>2. PS[Block(i, Corners)] = <<cubes[Block(i, Corners)], g - 1>>
    BY <1>5, <2>1
  <2> QED BY <1>8, <2>2 DEF VertexOf
<1>11. VertexesAt(PS) = [i \in 1 .. n * Corners |-> VertexOf(PS, i)]
  BY <1>6 DEF VertexesAt
<1>12. IndexesOf(world) = IndexesFor(n)
  BY DEF IndexesOf, IndexesFor, n
<1>13. VertexesAt(PS) = AtDepth(VertexesOf(world), g - 1)
  BY <1>9, <1>10, <1>11 DEF AtDepth
<1> QED BY <1>4, <1>6, <1>7, <1>9, <1>12, <1>13 DEF n, PS

\* The number of vertexes in the generations before, as a running sum.
LEMMA IndexSums ==
  ASSUME NEW m \in Nat, NEW gens \in Seq(SUBSET (0 .. m - 1)), Len(gens) > 0
  PROVE  /\ IndexSum(gens)[1] = 0
         /\ \A k \in 1 .. Len(gens) : IndexSum(gens)[k] \in Nat
         /\ \A k \in 1 .. Len(gens) - 1 :
              IndexSum(gens)[k + 1] =
                IndexSum(gens)[k] + Corners * Cardinality(gens[k])
<1> DEFINE n == Len(gens)
           a == [k \in 1 .. n |-> Len(VertexesOf(gens[k]))]
           Is(f) == f = [g \in 1 .. n |->
                           IF g = 1 THEN 0 ELSE f[g - 1] + Len(VertexesOf(gens[g - 1]))]
           sum == IndexSum(gens)
           S == {k \in Nat : k + 1 \in 1 .. n => sum[k + 1] \in Nat}
<1>1. n \in Nat \ {0} /\ \A k \in 1 .. n : gens[k] \subseteq 0 .. m - 1
  OBVIOUS
<1>2. \A k \in 1 .. n : /\ Len(VertexesOf(gens[k])) = Corners * Cardinality(gens[k])
                        /\ Corners * Cardinality(gens[k]) \in Nat
  <2> SUFFICES ASSUME NEW k \in 1 .. n
               PROVE  /\ Len(VertexesOf(gens[k])) = Corners * Cardinality(gens[k])
                      /\ Corners * Cardinality(gens[k]) \in Nat
    OBVIOUS
  <2>1. gens[k] \subseteq 0 .. m - 1
    BY <1>1
  <2> HIDE DEF n
  <2>2. Len(VertexesOf(gens[k])) = Corners * Cardinality(gens[k])
    <3>1. PICK g \in Nat \ {0} : g = 1
      OBVIOUS
    <3> QED BY <2>1, OneGeneration
  <2>3. Cardinality(gens[k]) \in Nat
    BY <2>1, InOrderLists
  <2> QED BY <2>2, <2>3, CornersAssumption, Distribute
<1>3. Is(sum)
  <2>1. PICK f : f = [i \in 1 .. n |-> IF i = 1 THEN 0 ELSE f[i - 1] + a[i - 1]]
    <3> HIDE DEF a
    <3> QED BY <1>1, RunningSumExists
  <2>2. \A i \in 1 .. n : i # 1 => a[i - 1] = Len(VertexesOf(gens[i - 1]))
    BY <1>1
  <2> HIDE DEF a, n
  <2>3. \A i \in 1 .. n : (IF i = 1 THEN 0 ELSE f[i - 1] + a[i - 1])
          = IF i = 1 THEN 0 ELSE f[i - 1] + Len(VertexesOf(gens[i - 1]))
    BY <2>2
  <2>4. Is(f)
    BY <2>1, <2>3
  <2>5. sum = CHOOSE g : Is(g)
    BY DEF IndexSum, n
  <2> HIDE DEF Is, sum
  <2> QED BY <2>4, <2>5
<1> HIDE DEF sum
<1>4. \A g \in 1 .. n : sum[g] = IF g = 1 THEN 0
                                 ELSE sum[g - 1] + Len(VertexesOf(gens[g - 1]))
  BY <1>3
<1>5. sum[1] = 0
  BY <1>1, <1>4
<1>6. ASSUME NEW k \in 1 .. n - 1
      PROVE  sum[k + 1] = sum[k] + Corners * Cardinality(gens[k])
  <2>1. PICK g \in 1 .. n : g = k + 1 /\ g - 1 = k /\ g # 1 /\ k \in 1 .. n
    BY <1>1
  <2> HIDE DEF n
  <2>2. sum[g] = sum[k] + Len(VertexesOf(gens[k]))
    BY <1>4, <2>1
  <2> QED BY <1>2, <2>1, <2>2
<1> HIDE DEF n
<1>7. \A k \in Nat : k \in S
  <2>1. 0 \in S
    BY <1>5
  <2>2. ASSUME NEW k \in Nat, k \in S PROVE k + 1 \in S
    <3> SUFFICES ASSUME k + 2 \in 1 .. n PROVE sum[k + 2] \in Nat
      OBVIOUS
    <3>1. PICK j \in 1 .. n - 1 : j = k + 1 /\ j + 1 = k + 2 /\ j \in 1 .. n
      BY <1>1
    <3>2. sum[j + 1] = sum[j] + Corners * Cardinality(gens[j])
      BY <1>6
    <3>3. sum[j] \in Nat
      BY <2>2, <3>1
    <3> QED BY <1>2, <3>1, <3>2, <3>3
  <2> HIDE DEF S
  <2> QED BY <2>1, <2>2, Induction
<1>8. ASSUME NEW k \in 1 .. n PROVE sum[k] \in Nat
  <2>1. PICK j \in Nat : j + 1 = k
    BY <1>1
  <2> QED BY <1>7, <2>1
<1> QED BY <1>5, <1>6, <1>8 DEF n, sum

\* The vertexes and the indexes of each generation, before they are joined.
VertexParts(gens) ==
  [g \in 1 .. Len(gens) |-> AtDepth(VertexesOf(gens[g]), g - 1)]

IndexParts(gens) == [g \in 1 .. Len(gens) |->
  LET indexes == IndexesOf(gens[g])
  IN  [i \in 1 .. Len(indexes) |-> IndexSum(gens)[g] + indexes[i]]]

LEMMA PartsOfBuffers ==
  ASSUME NEW m \in Nat, NEW gens \in Seq(SUBSET (0 .. m - 1))
  PROVE  /\ VertexParts(gens) \in Seq(Seq(VertexType))
         /\ IndexParts(gens) \in Seq(Seq(IndexType))
         /\ Len(VertexParts(gens)) = Len(gens) /\ Len(IndexParts(gens)) = Len(gens)
         /\ \A g \in 1 .. Len(gens) :
              /\ VertexParts(gens)[g] = VertexesAt(PlacesOf(gens[g], g))
              /\ IndexParts(gens)[g] =
                   [j \in 1 .. Len(IndexesFor(Cardinality(gens[g]))) |->
                      IndexSum(gens)[g] + IndexesFor(Cardinality(gens[g]))[j]]
<1>1. ASSUME NEW g \in 1 .. Len(gens)
      PROVE  /\ VertexParts(gens)[g] = VertexesAt(PlacesOf(gens[g], g))
             /\ IndexParts(gens)[g] =
                   [j \in 1 .. Len(IndexesFor(Cardinality(gens[g]))) |->
                      IndexSum(gens)[g] + IndexesFor(Cardinality(gens[g]))[j]]
             /\ VertexParts(gens)[g] \in Seq(VertexType)
             /\ IndexParts(gens)[g] \in Seq(IndexType)
  <2> DEFINE world == gens[g]
             n == Cardinality(world)
  <2>1. world \subseteq 0 .. m - 1 /\ g \in Nat \ {0}
    OBVIOUS
  <2>2. VertexParts(gens)[g] = AtDepth(VertexesOf(world), g - 1)
    BY DEF VertexParts
  <2>3. IndexParts(gens)[g] = [i \in 1 .. Len(IndexesOf(world)) |->
                 IndexSum(gens)[g] + IndexesOf(world)[i]]
    BY DEF IndexParts
  <2>4. IndexSum(gens)[g] \in Nat
    <3>1. Len(gens) > 0
      OBVIOUS
    <3> QED BY <3>1, IndexSums
  <2>s. PICK sum \in Nat : sum = IndexSum(gens)[g]
    BY <2>4
  <2> HIDE DEF world
  <2>5. /\ PlacesOf(world, g) \in Seq(CubePlace)
        /\ IndexesOf(world) = IndexesFor(n)
        /\ VertexesAt(PlacesOf(world, g)) = AtDepth(VertexesOf(world), g - 1)
    BY <2>1, OneGeneration
  <2>6. n \in Nat
    BY <2>1, InOrderLists
  <2>7. VertexParts(gens)[g] = VertexesAt(PlacesOf(world, g))
    BY <2>2, <2>5
  <2>8. VertexParts(gens)[g] \in Seq(VertexType)
    BY <2>5, <2>7, VertexesType
  <2> HIDE DEF n
  <2>9. PICK is \in Seq(IndexType) : is = IndexesFor(n)
    BY <2>6, IndexesType
  <2>10. IndexParts(gens)[g] = [j \in 1 .. Len(is) |-> sum + is[j]]
    BY <2>3, <2>5, <2>9, <2>s
  <2>11. IndexParts(gens)[g] \in Seq(IndexType)
    <3>1. \A j \in 1 .. Len(is) : sum + is[j] \in Nat
      BY DEF IndexType
    <3> QED BY <2>10, <3>1 DEF IndexType
  <2> QED BY <2>7, <2>8, <2>9, <2>10, <2>11, <2>s DEF world, n
<1>2. Len(VertexParts(gens)) = Len(gens) /\ VertexParts(gens) \in Seq(Seq(VertexType))
  <2> DEFINE n == Len(gens)
             parts == VertexParts(gens)
             PartType == Seq(VertexType)
  <2>0. \A g \in 1 .. n : parts[g] \in PartType
    BY <1>1, Zenon
  <2>1. n \in Nat /\ \A g \in 1 .. n : parts[g] \in PartType
    BY <2>0
  <2>2. parts = [g \in 1 .. n |-> parts[g]]
    BY DEF VertexParts
  <2> HIDE DEF n, parts, PartType
  <2>3. Len(parts) = n /\ parts \in Seq(PartType)
    BY <2>1, <2>2
  <2> QED BY <2>3 DEF n, parts, PartType
<1>3. Len(IndexParts(gens)) = Len(gens) /\ IndexParts(gens) \in Seq(Seq(IndexType))
  <2> DEFINE n == Len(gens)
             parts == IndexParts(gens)
             PartType == Seq(IndexType)
  <2>0. \A g \in 1 .. n : parts[g] \in PartType
    BY <1>1, Zenon
  <2>1. n \in Nat /\ \A g \in 1 .. n : parts[g] \in PartType
    BY <2>0
  <2>2. parts = [g \in 1 .. n |-> parts[g]]
    BY DEF IndexParts
  <2> HIDE DEF n, parts, PartType
  <2>3. Len(parts) = n /\ parts \in Seq(PartType)
    BY <2>1, <2>2
  <2> QED BY <2>3 DEF n, parts, PartType
<1> QED BY <1>1, <1>2, <1>3

\* What a sequence of places holds, and of joined sequences.
Members(PS) == {PS[i] : i \in 1 .. Len(PS)}

LEMMA MembersOfJoin ==
  ASSUME NEW T, NEW s \in Seq(T), NEW t \in Seq(T)
  PROVE  Members(s \o t) = Members(s) \cup Members(t)
<1>1. \A i \in 1 .. Len(s \o t) :
        \/ i \in 1 .. Len(s) /\ (s \o t)[i] = s[i]
        \/ i - Len(s) \in 1 .. Len(t) /\ (s \o t)[i] = t[i - Len(s)]
  OBVIOUS
<1>2. \A i \in 1 .. Len(s) : i \in 1 .. Len(s \o t) /\ (s \o t)[i] = s[i]
  OBVIOUS
<1>3. \A i \in 1 .. Len(t) :
        i + Len(s) \in 1 .. Len(s \o t) /\ (s \o t)[i + Len(s)] = t[i]
  OBVIOUS
<1>4. ASSUME NEW x \in Members(s \o t) PROVE x \in Members(s) \cup Members(t)
  BY <1>1, <1>4 DEF Members
<1>5. ASSUME NEW x \in Members(s) PROVE x \in Members(s \o t)
  BY <1>2, <1>5 DEF Members
<1>6. ASSUME NEW x \in Members(t) PROVE x \in Members(s \o t)
  <2>1. PICK i \in 1 .. Len(t) : t[i] = x
    BY <1>6 DEF Members
  <2> QED BY <1>3, <2>1 DEF Members
<1> QED BY <1>4, <1>5, <1>6

\* The cubes of the first k generations.
Places(gens, k) == UNION {gens[g] \X {g - 1} : g \in 1 .. k}

\* PS gives the cubes of the first k generations, which make the vertexes vs
\* and the indexes is.
Layout(gens, m, k, PS, vs, is) ==
  /\ PS \in Seq(CubePlace)
  /\ Members(PS) = Places(gens, k)
  /\ Len(PS) <= m * k
  /\ (\A g \in 1 .. k : gens[g] = 0 .. m - 1) => Len(PS) = m * k
  /\ vs = VertexesAt(PS)
  /\ is = IndexesFor(Len(PS))
  /\ k < Len(gens) => IndexSum(gens)[k + 1] = Corners * Len(PS)

LEMMA NextLayout ==
  ASSUME NEW m \in Nat, NEW gens \in Seq(SUBSET (0 .. m - 1)),
         NEW g \in 1 .. Len(gens), NEW PS, NEW vs, NEW is,
         Layout(gens, m, g - 1, PS, vs, is)
  PROVE  Layout(gens, m, g, PS \o PlacesOf(gens[g], g),
                vs \o VertexParts(gens)[g], is \o IndexParts(gens)[g])
<1> DEFINE QS == PlacesOf(gens[g], g)
           n == Cardinality(gens[g])
<1>1. /\ PS \in Seq(CubePlace) /\ Members(PS) = Places(gens, g - 1)
      /\ Len(PS) <= m * (g - 1) /\ vs = VertexesAt(PS) /\ is = IndexesFor(Len(PS))
      /\ (\A h \in 1 .. g - 1 : gens[h] = 0 .. m - 1) => Len(PS) = m * (g - 1)
      /\ IndexSum(gens)[g] = Corners * Len(PS)
  <2>1. g - 1 < Len(gens) /\ g - 1 + 1 = g
    OBVIOUS
  <2> QED BY <2>1 DEF Layout
<1>2. gens[g] \subseteq 0 .. m - 1 /\ g \in Nat \ {0}
  OBVIOUS
<1>3. /\ QS \in Seq(CubePlace) /\ Len(QS) = n
      /\ {QS[i] : i \in 1 .. n} = gens[g] \X {g - 1}
  BY <1>2, OneGeneration
<1>4. n \in Nat /\ n <= m /\ (gens[g] = 0 .. m - 1 => n = m)
  <2>1. Cardinality(0 .. m - 1) = m
    BY FS_Interval
  <2> QED BY <1>2, <2>1, InOrderLists
<1>5. /\ VertexParts(gens)[g] = VertexesAt(QS)
      /\ IndexParts(gens)[g] = [j \in 1 .. Len(IndexesFor(n)) |->
                                  IndexSum(gens)[g] + IndexesFor(n)[j]]
  BY PartsOfBuffers
<1>6. /\ g < Len(gens) =>
           IndexSum(gens)[g + 1] = IndexSum(gens)[g] + Corners * n
  <2>1. Len(gens) > 0 /\ (g < Len(gens) => g \in 1 .. Len(gens) - 1)
    OBVIOUS
  <2> QED BY <2>1, IndexSums
<1> HIDE DEF QS, n
<1>7. PICK p \in Nat, C \in Nat : p = Len(PS) /\ C = Corners
  BY <1>1, CornersAssumption
<1>8. PS \o QS \in Seq(CubePlace) /\ Len(PS \o QS) = p + n
  <2>1. PS \in Seq(CubePlace) /\ QS \in Seq(CubePlace)
    BY <1>1, <1>3
  <2>2. PS \o QS \in Seq(CubePlace) /\ Len(PS \o QS) = Len(PS) + Len(QS)
    BY <2>1
  <2> QED BY <1>3, <1>7, <2>2
<1>9. Members(PS \o QS) = Places(gens, g)
  <2>1. Members(PS \o QS) = Members(PS) \cup Members(QS)
    BY <1>1, <1>3, MembersOfJoin
  <2>2. Members(QS) = gens[g] \X {g - 1}
    BY <1>3 DEF Members
  <2>3. \A h : h \in 1 .. g <=> h \in 1 .. g - 1 \/ h = g
    BY <1>2
  <2>4. Places(gens, g) = Places(gens, g - 1) \cup (gens[g] \X {g - 1})
    BY <2>3 DEF Places
  <2> QED BY <1>1, <2>1, <2>2, <2>4
<1>10. p + n <= m * g /\ ((\A h \in 1 .. g : gens[h] = 0 .. m - 1) => p + n = m * g)
  <2>1. PICK d \in Nat : d = g - 1 /\ g = d + 1
    BY <1>2
  <2>2. m * (d + 1) = m * d + m
    OBVIOUS
  <2>3. PICK e \in Nat : e = m * d
    OBVIOUS
  <2>4. m * g = e + m /\ p <= e
    BY <1>1, <1>7, <2>1, <2>2, <2>3
  <2>5. ASSUME \A h \in 1 .. g : gens[h] = 0 .. m - 1 PROVE p = e /\ n = m
    <3>1. /\ \A h \in 1 .. g - 1 : gens[h] = 0 .. m - 1
          /\ gens[g] = 0 .. m - 1
      BY <1>2, <2>5
    <3> QED BY <1>1, <1>4, <1>7, <2>1, <2>3, <3>1
  <2> QED BY <1>4, <2>4, <2>5
<1>11. vs \o VertexParts(gens)[g] = VertexesAt(PS \o QS)
  BY <1>1, <1>3, <1>5, JoinVertexes
<1>12. is \o IndexParts(gens)[g] = IndexesFor(p + n)
  <2>1. IndexesFor(p + n) = IndexesFor(p) \o
          [j \in 1 .. Len(IndexesFor(n)) |-> Corners * p + IndexesFor(n)[j]]
    BY <1>4, <1>7, JoinIndexes
  <2> QED BY <1>1, <1>5, <1>7, <2>1
<1>13. g < Len(gens) => IndexSum(gens)[g + 1] = Corners * (p + n)
  <2>1. C * (p + n) = C * p + C * n
    BY <1>4, Distribute
  <2> QED BY <1>1, <1>6, <1>7, <2>1
<1> QED BY <1>8, <1>9, <1>10, <1>11, <1>12, <1>13 DEF Layout, QS

\* The buffers of the CPU window are laid out by the cubes of all its
\* generations, one after the other.
LEMMA BuffersLaidOut ==
  ASSUME NEW m \in Nat, NEW gens \in Seq(SUBSET (0 .. m - 1))
  PROVE  \E PS : Layout(gens, m, Len(gens), PS, CopyVertexes(gens), CopyIndexes(gens))
<1> DEFINE n == Len(gens)
<1>1. /\ n \in Nat
      /\ VertexParts(gens) \in Seq(Seq(VertexType)) /\ Len(VertexParts(gens)) = n
      /\ IndexParts(gens) \in Seq(Seq(IndexType)) /\ Len(IndexParts(gens)) = n
  <2>1. n \in Nat
    OBVIOUS
  <2> QED BY <2>1, PartsOfBuffers, Zenon
<1>2. /\ CopyVertexes(gens) = FlattenSeq(VertexParts(gens))
      /\ CopyIndexes(gens) = FlattenSeq(IndexParts(gens))
  BY DEF CopyVertexes, CopyIndexes, VertexParts, IndexParts, AtDepth
<1>3. PICK vs : /\ vs[0] = << >> /\ vs[n] = CopyVertexes(gens)
                /\ \A k \in 1 .. n : vs[k] = vs[k - 1] \o VertexParts(gens)[k]
  <2> DEFINE parts == VertexParts(gens)
  <2>0. parts \in Seq(Seq(VertexType)) /\ Len(parts) = n
    BY <1>1
  <2> HIDE DEF n, parts
  <2>1. \E f : /\ f[0] = << >> /\ FlattenSeq(parts) = f[n]
               /\ \A k \in 1 .. n : f[k] = f[k - 1] \o parts[k]
    <3>1. PICK f : /\ f \in [0 .. Len(parts) -> Seq(VertexType)] /\ f[0] = << >>
                   /\ \A k \in 1 .. Len(parts) : f[k] = f[k - 1] \o parts[k]
                   /\ FlattenSeq(parts) = f[Len(parts)]
      BY <2>0, Flatten, Zenon
    <3> QED BY <2>0, <3>1
  <2> USE DEF parts
  <2> QED BY <1>2, <2>1
<1>4. PICK is : /\ is[0] = << >> /\ is[n] = CopyIndexes(gens)
                /\ \A k \in 1 .. n : is[k] = is[k - 1] \o IndexParts(gens)[k]
  <2> DEFINE parts == IndexParts(gens)
  <2>0. parts \in Seq(Seq(IndexType)) /\ Len(parts) = n
    BY <1>1
  <2> HIDE DEF n, parts
  <2>1. \E f : /\ f[0] = << >> /\ FlattenSeq(parts) = f[n]
               /\ \A k \in 1 .. n : f[k] = f[k - 1] \o parts[k]
    <3>1. PICK f : /\ f \in [0 .. Len(parts) -> Seq(IndexType)] /\ f[0] = << >>
                   /\ \A k \in 1 .. Len(parts) : f[k] = f[k - 1] \o parts[k]
                   /\ FlattenSeq(parts) = f[Len(parts)]
      BY <2>0, Flatten, Zenon
    <3> QED BY <2>0, <3>1
  <2> USE DEF parts
  <2> QED BY <1>2, <2>1
<1> DEFINE Found(k) == \E PS : Layout(gens, m, k, PS, vs[k], is[k])
           S == {k \in Nat : k <= n => Found(k)}
<1>5. 0 \in S
  <2>1. /\ << >> \in Seq(CubePlace) /\ Members(<< >>) = {} /\ Len(<< >>) = 0
    BY DEF Members
  <2>2. Places(gens, 0) = {}
    BY DEF Places
  <2>3. VertexesAt(<< >>) = << >> /\ IndexesFor(0) = << >>
    <3>1. 0 * Corners = 0 /\ 0 * PerCube = 0
      BY CornersAssumption DEF PerCube
    <3> QED BY <3>1 DEF VertexesAt, IndexesFor
  <2>4. 0 < n => IndexSum(gens)[0 + 1] = Corners * 0
    <3>1. Corners * 0 = 0
      BY CornersAssumption
    <3>2. 0 < n => IndexSum(gens)[1] = 0
      BY IndexSums
    <3> QED BY <3>1, <3>2
  <2>5. 0 <= m * 0 /\ 0 = m * 0
    OBVIOUS
  <2>6. Layout(gens, m, 0, << >>, vs[0], is[0])
    <3>1. vs[0] = << >> /\ is[0] = << >>
      BY <1>3, <1>4
    <3> QED BY <2>1, <2>2, <2>3, <2>4, <2>5, <3>1 DEF Layout
  <2> HIDE DEF n
  <2> QED BY <2>6
<1>6. ASSUME NEW k \in Nat, k \in S PROVE k + 1 \in S
  <2> SUFFICES ASSUME k + 1 <= n PROVE Found(k + 1)
    OBVIOUS
  <2>1. PICK g \in 1 .. n : g = k + 1 /\ g - 1 = k
    BY <1>1
  <2>2. k <= n
    BY <1>1, <2>1
  <2>3. PICK PS : Layout(gens, m, k, PS, vs[k], is[k])
    BY <1>6, <2>2
  <2>4. Layout(gens, m, g, PS \o PlacesOf(gens[g], g),
               vs[k] \o VertexParts(gens)[g], is[k] \o IndexParts(gens)[g])
    BY <2>1, <2>3, NextLayout
  <2>5. vs[g] = vs[k] \o VertexParts(gens)[g] /\ is[g] = is[k] \o IndexParts(gens)[g]
    BY <1>3, <1>4, <2>1
  <2>6. Found(g)
    BY <2>4, <2>5
  <2> HIDE DEF Found
  <2> QED BY <2>1, <2>6
<1> HIDE DEF S
<1>7. n \in S
  BY <1>1, <1>5, <1>6, Induction
<1>8. Found(n)
  BY <1>1, <1>7 DEF S
<1> QED BY <1>3, <1>4, <1>8

-----------------------------------------------------------------------------
(* What the buffers mean, once they are laid out by a sequence of cubes.   *)

\* The q-th index and the vertexes of the cube after the first b cubes.
LEMMA IndexAt ==
  ASSUME NEW n \in Nat, NEW b \in 0 .. n - 1, NEW q \in 1 .. PerCube
  PROVE  /\ b * PerCube + q \in 1 .. n * PerCube
         /\ IndexesFor(n)[b * PerCube + q] = s_indices[q] + Corners * b
<1>1. PICK c \in Nat \ {0} : c = PerCube
  BY CornersAssumption DEF PerCube
<1>2. PICK r \in 0 .. c - 1 : r = q - 1 /\ q = r + 1
  BY <1>1
<1>3. b \in Nat /\ n \in Nat \ {0}
  OBVIOUS
<1>4. PICK a \in Nat : a = b * c
  BY <1>3, Distribute
<1>5. (a + r) \div c = b /\ (a + r) % c = r
  BY <1>3, <1>4, Compose
<1>6. a + r < n * c /\ n * c \in Nat
  <2>1. b * c + r < c * n
    BY <1>2, DivideProduct
  <2>2. n * c = c * n
    OBVIOUS
  <2> QED BY <1>4, <2>1, <2>2, Distribute
<1>7. a + q - 1 = a + r /\ a + q \in 1 .. n * c
  BY <1>2, <1>6
<1>8. IndexesFor(n) = [i \in 1 .. n * c |->
         s_indices[((i - 1) % c) + 1] + Corners * ((i - 1) \div c)]
  BY <1>1 DEF IndexesFor
<1>9. IndexesFor(n)[a + q] = s_indices[r + 1] + Corners * b
  <2>1. PICK i \in 1 .. n * c : i = a + q /\ i - 1 = a + r
    BY <1>7
  <2>2. IndexesFor(n)[i] = s_indices[((i - 1) % c) + 1] + Corners * ((i - 1) \div c)
    BY <1>8
  <2>3. (i - 1) % c = r /\ (i - 1) \div c = b
    BY <1>5, <2>1
  <2> QED BY <2>1, <2>2, <2>3
<1> QED BY <1>1, <1>2, <1>4, <1>7, <1>9

LEMMA VertexAt ==
  ASSUME NEW PS \in Seq(CubePlace), NEW b \in 0 .. Len(PS) - 1, NEW c \in 0 .. Corners - 1
  PROVE  VertexesAt(PS)[(c + Corners * b) + 1]
           = [cell |-> PS[b + 1][1], corner |-> c, depth |-> PS[b + 1][2]]
<1>0. Len(PS) \in Nat \ {0}
  OBVIOUS
<1>1. PICK C \in Nat \ {0}, n \in Nat \ {0} : C = Corners /\ n = Len(PS)
  BY <1>0, CornersAssumption
<1>2. PICK a \in Nat : a = b * C /\ C * b = a
  BY Distribute
<1>3. (a + c) \div C = b /\ (a + c) % C = c
  BY <1>1, <1>2, Compose
<1>4. a + c < n * C /\ n * C \in Nat
  <2>1. b * C + c < C * n
    BY <1>1, DivideProduct
  <2>2. n * C = C * n
    OBVIOUS
  <2> QED BY <1>2, <2>1, <2>2, Distribute
<1>5. PICK i \in 1 .. n * C : i = c + a + 1 /\ i - 1 = a + c
  BY <1>1, <1>4
<1>6. VertexesAt(PS)[i] = VertexOf(PS, i)
  BY <1>1 DEF VertexesAt
<1>7. VertexOf(PS, i) = [cell |-> PS[b + 1][1], corner |-> c, depth |-> PS[b + 1][2]]
  BY <1>1, <1>3, <1>5 DEF VertexOf, Block
<1> QED BY <1>1, <1>2, <1>5, <1>6, <1>7

\* The t-th triangle drawn of the cube after the first b cubes.
LEMMA TriangleAt ==
  ASSUME NEW PS \in Seq(CubePlace), NEW b \in 0 .. Len(PS) - 1,
         NEW t \in 0 .. (PerCube \div 3) - 1
  PROVE  [j \in 1 .. 3 |-> VertexesAt(PS)[
            IndexesFor(Len(PS))[3 * (b * (PerCube \div 3) + t) + j] + 1]]
           = Triangle(PS[b + 1][1], PS[b + 1][2], t)
<1>1. PICK T \in Nat \ {0}, c \in Nat : T = PerCube \div 3 /\ c = PerCube /\ c = 3 * T
  BY CornersAssumption DEF PerCube
<1>2. PICK a \in Nat : a = b * T /\ b * c = 3 * a
  BY <1>1
<1>3. ASSUME NEW j \in 1 .. 3
      PROVE  VertexesAt(PS)[IndexesFor(Len(PS))[3 * (a + t) + j] + 1]
               = [cell |-> PS[b + 1][1], corner |-> s_indices[3 * t + j],
                  depth |-> PS[b + 1][2]]
  <2>1. PICK q \in 1 .. PerCube : q = 3 * t + j
    BY <1>1
  <2>2. 3 * (a + t) + j = b * PerCube + q
    BY <1>1, <1>2, <2>1
  <2>3. IndexesFor(Len(PS))[3 * (a + t) + j] = s_indices[q] + Corners * b
    BY <2>2, IndexAt
  <2>4. PICK x \in 0 .. Corners - 1 : x = s_indices[q]
    BY CornersAssumption DEF PerCube
  <2>5. VertexesAt(PS)[(x + Corners * b) + 1]
           = [cell |-> PS[b + 1][1], corner |-> x, depth |-> PS[b + 1][2]]
    BY VertexAt
  <2> QED BY <2>1, <2>3, <2>4, <2>5
<1>4. Triangle(PS[b + 1][1], PS[b + 1][2], t) =
        [j \in 1 .. 3 |-> [cell |-> PS[b + 1][1], corner |-> s_indices[3 * t + j],
                           depth |-> PS[b + 1][2]]]
  BY DEF Triangle
<1> QED BY <1>1, <1>2, <1>3, <1>4

\* DrawIndexed draws the cubes of the sequence and nothing else.
LEMMA DrawsCubes ==
  ASSUME NEW PS \in Seq(CubePlace)
  PROVE  DrawIndexed(VertexesAt(PS), IndexesFor(Len(PS)))
           = UNION {Cube(p[1], p[2]) : p \in Members(PS)}
<1> DEFINE drawn(k) == [j \in 1 .. 3 |-> VertexesAt(PS)[
                          IndexesFor(Len(PS))[3 * k + j] + 1]]
           picture_ == DrawIndexed(VertexesAt(PS), IndexesFor(Len(PS)))
           cubes == UNION {Cube(p[1], p[2]) : p \in Members(PS)}
<1>1. PICK n \in Nat, T \in Nat \ {0} :
        n = Len(PS) /\ T = PerCube \div 3 /\ PerCube = 3 * T
  BY CornersAssumption DEF PerCube
<1>2. PICK m \in Nat : m = T * n /\ Len(IndexesFor(n)) \div 3 = m
  <2>1. Len(IndexesFor(n)) = n * PerCube
    BY IndexesType
  <2>2. n * PerCube = 3 * (T * n) /\ T * n \in Nat
    BY <1>1
  <2>3. \A k \in Nat : (3 * k) \div 3 = k
    OBVIOUS
  <2> QED BY <2>1, <2>2, <2>3
<1>3. picture_ = {drawn(k) : k \in 0 .. m - 1}
  BY <1>1, <1>2 DEF DrawIndexed
<1>4. ASSUME NEW b \in 0 .. n - 1, NEW t \in 0 .. T - 1
      PROVE  drawn(b * T + t) = Triangle(PS[b + 1][1], PS[b + 1][2], t)
  BY <1>1, TriangleAt
<1>5. \A b \in 0 .. n - 1 : PS[b + 1] \in Members(PS)
  BY <1>1 DEF Members
<1> HIDE DEF drawn, picture_, cubes
<1>6. ASSUME NEW x \in picture_ PROVE x \in cubes
  <2>1. PICK k \in 0 .. m - 1 : x = drawn(k)
    BY <1>3, <1>6
  <2>2. PICK b \in 0 .. n - 1, t \in 0 .. T - 1 : k = b * T + t
    <3>1. k \in Nat /\ n # 0 /\ k < T * n
      BY <1>2
    <3>2. k \div T < n /\ k \div T \in Nat /\ k % T \in 0 .. T - 1
      BY <1>1, <3>1, Divide, DivideProduct
    <3>3. (k % T) + T * (k \div T) = k
      BY <3>1, Divide
    <3>a. PICK t \in 0 .. T - 1 : t = k % T
      BY <3>2
    <3>b. PICK b \in Nat : b = k \div T /\ b < n
      BY <3>2
    <3>4. b \in 0 .. n - 1
      BY <3>b
    <3>5. t + T * b = k /\ T * b = b * T /\ b * T \in Nat
      BY <3>3, <3>a, <3>b, Distribute
    <3>6. k = b * T + t
      BY <3>5
    <3> QED BY <3>4, <3>6
  <2>3. x = Triangle(PS[b + 1][1], PS[b + 1][2], t)
    BY <1>4, <2>1, <2>2
  <2>4. x \in Cube(PS[b + 1][1], PS[b + 1][2])
    BY <1>1, <2>3 DEF Cube
  <2> QED BY <1>5, <2>4 DEF cubes
<1>7. ASSUME NEW x \in cubes PROVE x \in picture_
  <2>1. PICK p \in Members(PS) : x \in Cube(p[1], p[2])
    BY <1>7 DEF cubes
  <2>2. PICK b \in 0 .. n - 1 : p = PS[b + 1]
    <3>1. PICK i \in 1 .. n : p = PS[i]
      BY <1>1, <2>1 DEF Members
    <3>2. i - 1 \in 0 .. n - 1 /\ i - 1 + 1 = i
      OBVIOUS
    <3> QED BY <3>1, <3>2
  <2>3. PICK t \in 0 .. T - 1 : x = Triangle(p[1], p[2], t)
    BY <1>1, <2>1 DEF Cube
  <2>4. x = drawn(b * T + t)
    BY <1>4, <2>2, <2>3
  <2>5. b * T + t \in 0 .. m - 1
    <3>0. n \in Nat \ {0}
      OBVIOUS
    <3>1. b * T + t < T * n
      BY <1>1, <3>0, DivideProduct
    <3>2. b * T + t \in Nat
      BY Compose
    <3> QED BY <1>2, <3>1, <3>2
  <2> QED BY <1>3, <2>4, <2>5
<1> QED BY <1>6, <1>7 DEF picture_, cubes

-----------------------------------------------------------------------------
(* The CPU window in the state machine.                                    *)

\* A copy loop takes all of the data, or as much as the buffer holds.
LEMMA CopyKeepsOrCuts ==
  ASSUME NEW T, NEW data \in Seq(T), NEW max \in Nat
  PROVE  /\ Len(CopyChecked(data, max)) <= max
         /\ Len(data) <= max => CopyChecked(data, max) = data
<1>1. CASE Len(data) > max
  <2>1. CopyChecked(data, max) = SubSeq(data, 1, max)
    BY <1>1 DEF CopyChecked
  <2>2. Len(SubSeq(data, 1, max)) = max
    BY <1>1
  <2> QED BY <1>1, <2>1, <2>2
<1>2. CASE ~(Len(data) > max)
  <2>1. CopyChecked(data, max) = SubSeq(data, 1, Len(data))
    BY <1>2 DEF CopyChecked
  <2>2. SubSeq(data, 1, Len(data)) = data
    OBVIOUS
  <2> QED BY <1>2, <2>1, <2>2
<1> QED BY <1>1, <1>2

\* A cube has vertexes and indexes.
LEMMA CubeType == Corners \in Nat \ {0} /\ PerCube \in Nat \ {0}
  BY CornersAssumption DEF PerCube

\* The limits of the buffers, for a window of a width, height and depth.
LEMMA MaxType ==
  ASSUME NEW s \in Sizes
  PROVE  MaxVertexes(s) \in Nat /\ MaxIndexes(s) \in Nat /\ s.w * s.h \in Nat
<1>1. PICK w \in Nat, h \in Nat, d \in Nat : w = s.w /\ h = s.h /\ d = s.depth
  BY SizesAssumption
<1>2. PICK a \in Nat : a = w * w * d
  OBVIOUS
<1>3. PICK C \in Nat, c \in Nat : C = Corners /\ c = PerCube
  BY CubeType
<1>4. a * C \in Nat /\ a * c \in Nat /\ w * h \in Nat
  BY Distribute
<1> QED BY <1>1, <1>2, <1>3, <1>4 DEF MaxVertexes, MaxIndexes

\* The sequence of cubes a window is laid out by.
WindowLayout(s, gens, PS) ==
  /\ PS \in Seq(CubePlace)
  /\ Members(PS) = Places(gens, s.depth)
  /\ Len(PS) <= s.w * s.h * s.depth
  /\ (\A g \in 1 .. s.depth : gens[g] = Cells(s)) => Len(PS) = s.w * s.h * s.depth
  /\ CopyVertexes(gens) = VertexesAt(PS)
  /\ CopyIndexes(gens) = IndexesFor(Len(PS))
  /\ CopyVertexes(gens) \in Seq(VertexType) /\ Len(CopyVertexes(gens)) = Len(PS) * Corners
  /\ CopyIndexes(gens) \in Seq(IndexType) /\ Len(CopyIndexes(gens)) = Len(PS) * PerCube

LEMMA WindowLaidOut ==
  ASSUME NEW s \in Sizes, NEW gens \in Seq(Worlds(s)), Len(gens) = s.depth
  PROVE  \E PS : WindowLayout(s, gens, PS)
<1>1. PICK m \in Nat : m = s.w * s.h
  BY MaxType
<1>2. gens \in Seq(SUBSET (0 .. m - 1))
  BY <1>1 DEF Worlds, Cells
<1>3. PICK PS : Layout(gens, m, Len(gens), PS, CopyVertexes(gens), CopyIndexes(gens))
  BY <1>2, BuffersLaidOut
<1>4. /\ PS \in Seq(CubePlace) /\ Members(PS) = Places(gens, s.depth)
      /\ Len(PS) <= m * s.depth
      /\ (\A g \in 1 .. s.depth : gens[g] = 0 .. m - 1) => Len(PS) = m * s.depth
      /\ CopyVertexes(gens) = VertexesAt(PS)
      /\ CopyIndexes(gens) = IndexesFor(Len(PS))
  BY <1>3 DEF Layout
<1>5. Len(PS) \in Nat
  BY <1>4
<1>6. /\ VertexesAt(PS) \in Seq(VertexType)
      /\ Len(VertexesAt(PS)) = Len(PS) * Corners
      /\ IndexesFor(Len(PS)) \in Seq(IndexType)
      /\ Len(IndexesFor(Len(PS))) = Len(PS) * PerCube
  BY <1>4, <1>5, VertexesType, IndexesType
<1> QED BY <1>1, <1>4, <1>6 DEF WindowLayout, Cells

\* What Update leaves behind.
LEMMA UpdateCopies ==
  ASSUME TypeOK, size' = size,
         NEW gens \in Seq(Worlds(size)), Len(gens) = size.depth, Update(gens)
  PROVE  /\ Len(vertexBuffer') <= MaxVertexes(size)
         /\ \/ indexBuffer' = indexBuffer
            \/ Len(indexBuffer') <= MaxIndexes(size)
         /\ ~failed' => /\ vertexBuffer' = CopyVertexes(gens)
                        /\ indexBuffer' = CopyIndexes(gens)
<1>1. size \in Sizes
  BY DEF TypeOK
<1>2. PICK PS : WindowLayout(size, gens, PS)
  BY <1>1, WindowLaidOut
<1>3. PICK mv \in Nat, mi \in Nat : mv = MaxVertexes(size) /\ mi = MaxIndexes(size)
  BY <1>1, MaxType
<1>4. CopyVertexes(gens) \in Seq(VertexType) /\ CopyIndexes(gens) \in Seq(IndexType)
  BY <1>2 DEF WindowLayout
<1>5. /\ Len(CopyChecked(CopyVertexes(gens), mv)) <= mv
      /\ Len(CopyVertexes(gens)) <= mv =>
           CopyChecked(CopyVertexes(gens), mv) = CopyVertexes(gens)
  BY <1>4, CopyKeepsOrCuts
<1>6. /\ Len(CopyChecked(CopyIndexes(gens), mi)) <= mi
      /\ Len(CopyIndexes(gens)) <= mi =>
           CopyChecked(CopyIndexes(gens), mi) = CopyIndexes(gens)
  BY <1>4, CopyKeepsOrCuts
<1>7. Len(CopyIndexes(gens)) \in Nat
  BY <1>4
<1>8. /\ vertexBuffer' = CopyChecked(CopyVertexes(gens), mv)
      /\ \/ /\ Len(CopyVertexes(gens)) > mv
            /\ failed' = TRUE
            /\ UNCHANGED indexBuffer
         \/ /\ Len(CopyVertexes(gens)) <= mv
            /\ indexBuffer' = CopyChecked(CopyIndexes(gens), mi)
            /\ failed' = (Len(CopyIndexes(gens)) > mi)
  BY <1>3 DEF Update
<1>9. CASE failed' = TRUE /\ UNCHANGED indexBuffer
  BY <1>3, <1>5, <1>8, <1>9
<1>10. CASE /\ Len(CopyVertexes(gens)) <= mv
            /\ indexBuffer' = CopyChecked(CopyIndexes(gens), mi)
            /\ failed' = (Len(CopyIndexes(gens)) > mi)
  <2>0. ~failed' => ~(Len(CopyIndexes(gens)) > mi)
    BY <1>10, Zenon
  <2>1. ~failed' => Len(CopyIndexes(gens)) <= mi
    BY <1>7, <2>0
  <2> QED BY <1>3, <1>5, <1>6, <1>8, <1>10, <2>1
<1> QED BY <1>8, <1>9, <1>10

\* The buffers hold the current generations, unless they are still empty,
\* and the picture is what they say.
Copied ==
  /\ vertexBuffer = CopyVertexes(generations)
  /\ indexBuffer = CopyIndexes(generations)

BufferInv ==
  size.method = "CPU" =>
    /\ Len(vertexBuffer) <= MaxVertexes(size)
    /\ Len(indexBuffer) <= MaxIndexes(size)
    /\ ~failed => \/ /\ frame = "initialized"
                     /\ vertexBuffer = << >> /\ indexBuffer = << >>
                  \/ Copied
    /\ frame = "drawn" /\ ~failed =>
         Copied /\ picture = DrawIndexed(vertexBuffer, indexBuffer)

LEMMA InitBufferInv == Init => BufferInv
<1> SUFFICES ASSUME Init PROVE BufferInv
  OBVIOUS
<1>1. Len(<< >>) = 0 /\ MaxVertexes(size) \in Nat /\ MaxIndexes(size) \in Nat
  BY MaxType DEF Init
<1> QED BY <1>1 DEF Init, BufferInv

LEMMA NextBufferInv == TypeOK /\ BufferInv /\ [Next]_vars => BufferInv'
<1> SUFFICES ASSUME TypeOK, BufferInv, [Next]_vars PROVE BufferInv'
  OBVIOUS
<1>1. ASSUME NEW s \in Sizes, Initialize(s) PROVE BufferInv'
  <2>1. Len(<< >>) = 0 /\ MaxVertexes(s) \in Nat /\ MaxIndexes(s) \in Nat
    BY MaxType
  <2>2. /\ vertexBuffer' = << >> /\ indexBuffer' = << >> /\ size' = s
        /\ frame' = "initialized"
    BY <1>1 DEF Initialize
  <2>3. MaxVertexes(size)' = MaxVertexes(s) /\ MaxIndexes(size)' = MaxIndexes(s)
    BY <2>2
  <2> QED BY <2>1, <2>2, <2>3 DEF BufferInv
<1>2. ASSUME NEW world \in Worlds(size), MoveNextGeneration(world) PROVE BufferInv'
  <2> SUFFICES ASSUME size'.method = "CPU" PROVE BufferInv'
    BY DEF BufferInv
  <2>1. /\ generations' \in Seq(Worlds(size)) /\ Len(generations') = size.depth
        /\ size' = size
    BY <1>2, MoveIsPush
  <2>2. Update(generations') /\ frame' = "moved"
    BY <1>2, <2>1 DEF MoveNextGeneration
  <2>3. /\ Len(vertexBuffer') <= MaxVertexes(size)
        /\ \/ indexBuffer' = indexBuffer
           \/ Len(indexBuffer') <= MaxIndexes(size)
        /\ ~failed' => /\ vertexBuffer' = CopyVertexes(generations')
                       /\ indexBuffer' = CopyIndexes(generations')
    BY <2>1, <2>2, UpdateCopies
  <2>4. Len(indexBuffer') <= MaxIndexes(size)
    BY <2>1, <2>3 DEF BufferInv
  <2> QED BY <2>1, <2>2, <2>3, <2>4 DEF BufferInv, Copied
<1>3. CASE Draw
  <2> SUFFICES ASSUME size'.method = "CPU" PROVE BufferInv'
    BY DEF BufferInv
  <2>1. /\ size' = size /\ generations' = generations /\ Update(generations)
        /\ ~failed' => picture' = DrawIndexed(vertexBuffer', indexBuffer')
    BY <1>3 DEF Draw
  <2>2. generations \in Seq(Worlds(size)) /\ Len(generations) = size.depth
    BY DEF TypeOK
  <2>3. /\ Len(vertexBuffer') <= MaxVertexes(size)
        /\ \/ indexBuffer' = indexBuffer
           \/ Len(indexBuffer') <= MaxIndexes(size)
        /\ ~failed' => /\ vertexBuffer' = CopyVertexes(generations)
                       /\ indexBuffer' = CopyIndexes(generations)
    BY <2>1, <2>2, UpdateCopies
  <2>4. Len(indexBuffer') <= MaxIndexes(size)
    BY <2>1, <2>3 DEF BufferInv
  <2> QED BY <2>1, <2>3, <2>4 DEF BufferInv, Copied
<1>4. CASE UNCHANGED vars
  BY <1>4 DEF vars, BufferInv, Copied
<1> QED BY <1>1, <1>2, <1>3, <1>4 DEF Next

LEMMA BuffersCorrect == Spec => [](TypeOK /\ BufferInv)
  BY InitTypeOK, NextTypeOK, InitBufferInv, NextBufferInv, PTL DEF Spec

\* For every size and depth, the buffers hold as many cubes of vertexes as of
\* indexes, and the indexes of a cube name the vertexes of that cube.
THEOREM CheckVertexAndIndex == Spec => []IndexesNameTheirCube
<1>1. ASSUME TypeOK, BufferInv, size.method = "CPU", ~failed
      PROVE  /\ Len(vertexBuffer) % Corners = 0 /\ Len(indexBuffer) % PerCube = 0
             /\ Len(vertexBuffer) \div Corners = Len(indexBuffer) \div PerCube
             /\ \A i \in DOMAIN indexBuffer :
                  indexBuffer[i] \div Corners = (i - 1) \div PerCube
  <2>1. PICK C \in Nat \ {0}, c \in Nat \ {0} : C = Corners /\ c = PerCube
    BY CubeType
  <2>2. ASSUME NEW n \in Nat
        PROVE  /\ (n * C) % C = 0 /\ (n * C) \div C = n
               /\ (n * c) % c = 0 /\ (n * c) \div c = n
    <3>1. PICK a \in Nat, b \in Nat : a = n * C /\ b = n * c
      BY Distribute
    <3>2. (a + 0) % C = 0 /\ (a + 0) \div C = n /\ (b + 0) % c = 0 /\ (b + 0) \div c = n
      BY <3>1, Compose
    <3> QED BY <3>1, <3>2
  <2>3. CASE vertexBuffer = << >> /\ indexBuffer = << >>
    <3>1. Len(vertexBuffer) = 0 /\ Len(indexBuffer) = 0 /\ DOMAIN indexBuffer = {}
      BY <2>3
    <3>2. 0 % C = 0 /\ 0 \div C = 0 /\ 0 % c = 0 /\ 0 \div c = 0
      BY Divide
    <3> QED BY <2>1, <3>1, <3>2
  <2>4. CASE Copied
    <3>1. size \in Sizes /\ generations \in Seq(Worlds(size)) /\ Len(generations) = size.depth
      BY <1>1 DEF TypeOK
    <3>2. PICK PS : WindowLayout(size, generations, PS)
      BY <3>1, WindowLaidOut
    <3>3. PICK n \in Nat : n = Len(PS)
      BY <3>2 DEF WindowLayout
    <3>4. /\ Len(vertexBuffer) = n * C /\ Len(indexBuffer) = n * c
          /\ indexBuffer = IndexesFor(n)
      BY <2>1, <2>4, <3>2, <3>3 DEF WindowLayout, Copied
    <3>5. ASSUME NEW i \in DOMAIN indexBuffer
          PROVE  indexBuffer[i] \div Corners = (i - 1) \div PerCube
      <4>1. i \in 1 .. n * c
        BY <2>1, <3>4 DEF IndexesFor
      <4>2. (i - 1) \div c \in 0 .. n - 1 /\ (i - 1) % c \in 0 .. c - 1
        BY <4>1, Blocks
      <4>3. PICK b \in Nat, r \in 0 .. c - 1 : b = (i - 1) \div c /\ r = (i - 1) % c
        BY <4>2
      <4>4. PICK x \in 0 .. C - 1 : x = s_indices[r + 1]
        BY <2>1, CornersAssumption DEF PerCube
      <4>5. indexBuffer[i] = s_indices[((i - 1) % c) + 1] + Corners * ((i - 1) \div c)
        BY <2>1, <3>4, <4>1 DEF IndexesFor
      <4>6. indexBuffer[i] = x + C * b
        BY <2>1, <4>3, <4>4, <4>5
      <4>7. b * C \in Nat /\ C * b = b * C
        BY Distribute
      <4>8. x + C * b = b * C + x
        BY <4>7
      <4>9. (b * C + x) \div C = b
        BY Compose
      <4> QED BY <2>1, <4>3, <4>6, <4>8, <4>9
    <3> QED BY <2>1, <2>2, <3>4, <3>5
  <2> QED BY <1>1, <2>3, <2>4 DEF BufferInv
<1>2. TypeOK /\ BufferInv => IndexesNameTheirCube
  BY <1>1 DEF IndexesNameTheirCube
<1> QED BY <1>2, BuffersCorrect, PTL

\* For every size and depth, the picture of either window is a cube for each
\* live cell of each of its generations, at its own depth.
THEOREM ShowsHistory == Spec => []PictureShowsHistory
<1>1. ASSUME TypeOK, BufferInv, size.method = "CPU", frame = "drawn", ~failed
      PROVE  picture = UNION {Cube(p[2], p[1] - 1) : p \in LivePlaces}
  <2>1. /\ size \in Sizes /\ generations \in Seq(Worlds(size))
        /\ Len(generations) = size.depth
    BY <1>1 DEF TypeOK
  <2>2. PICK PS : WindowLayout(size, generations, PS)
    BY <2>1, WindowLaidOut
  <2>3. /\ PS \in Seq(CubePlace) /\ Members(PS) = Places(generations, size.depth)
        /\ picture = DrawIndexed(VertexesAt(PS), IndexesFor(Len(PS)))
    BY <1>1, <2>2 DEF WindowLayout, BufferInv, Copied
  <2>4. picture = UNION {Cube(p[1], p[2]) : p \in Places(generations, size.depth)}
    BY <2>3, DrawsCubes
  <2>5. /\ size.depth \in Nat /\ \A g \in 1 .. size.depth : generations[g] \subseteq Cells(size)
    BY <2>1, SizesAssumption DEF Worlds
  <2>6. ASSUME NEW p \in Places(generations, size.depth)
        PROVE  \E l \in LivePlaces : Cube(p[1], p[2]) = Cube(l[2], l[1] - 1)
    <3>1. PICK g \in 1 .. size.depth : p \in generations[g] \X {g - 1}
      BY DEF Places
    <3>2. p[1] \in generations[g] /\ p[2] = g - 1
      BY <3>1
    <3>3. <<g, p[1]>> \in LivePlaces
      BY <2>5, <3>2 DEF LivePlaces
    <3> QED BY <3>2, <3>3
  <2>7. ASSUME NEW l \in LivePlaces
        PROVE  \E p \in Places(generations, size.depth) :
                 Cube(p[1], p[2]) = Cube(l[2], l[1] - 1)
    <3>1. l[1] \in 1 .. size.depth /\ l[2] \in generations[l[1]]
      BY DEF LivePlaces
    <3>2. <<l[2], l[1] - 1>> \in Places(generations, size.depth)
      BY <3>1 DEF Places
    <3> QED BY <3>2
  <2> QED BY <2>4, <2>6, <2>7
<1>2. TypeOK /\ BufferInv /\ ShaderPicture => PictureShowsHistory
  <2>1. TypeOK => size.method \in {"CPU", "GS"}
    BY SizesAssumption DEF TypeOK
  <2> QED BY <1>1, <2>1 DEF PictureShowsHistory, ShaderPicture
<1> QED BY <1>2, BuffersCorrect, ShaderShowsHistory, PTL DEF ShaderPicture
-----------------------------------------------------------------------------
(* The limits are those of an area that is as wide as it is high.          *)

\* In a window that is not higher than wide, what is copied fits.
LEMMA WideFits ==
  ASSUME NEW s \in Sizes, s.h <= s.w,
         NEW gens \in Seq(Worlds(s)), Len(gens) = s.depth
  PROVE  /\ Len(CopyVertexes(gens)) <= MaxVertexes(s)
         /\ Len(CopyIndexes(gens)) <= MaxIndexes(s)
<1>1. PICK w \in Nat, h \in Nat, d \in Nat :
        w = s.w /\ h = s.h /\ d = s.depth /\ h <= w
  BY SizesAssumption
<1>2. PICK PS : WindowLayout(s, gens, PS)
  BY WindowLaidOut
<1>3. PICK n \in Nat : n = Len(PS) /\ n <= w * h * d
  BY <1>1, <1>2 DEF WindowLayout
<1>4. PICK a \in Nat : a = w * w * d /\ w * h * d <= a
  <2>1. \A x, y, z \in Nat : x <= y => x * z <= y * z
    OBVIOUS
  <2>2. w * h = h * w /\ h * w <= w * w /\ w * h \in Nat /\ w * w \in Nat
    BY <1>1, <2>1
  <2>3. (w * h) * d <= (w * w) * d
    BY <2>1, <2>2
  <2> QED BY <2>2, <2>3
<1>5. n <= a
  <2>1. PICK v \in Nat : v = w * h * d
    OBVIOUS
  <2>2. n <= v /\ v <= a
    BY <1>3, <1>4, <2>1
  <2> QED BY <2>2
<1>6. \A c \in Nat : n * c <= a * c
  BY <1>5
<1>7. n * Corners <= a * Corners /\ n * PerCube <= a * PerCube
  BY <1>6, CubeType
<1> QED BY <1>1, <1>2, <1>3, <1>4, <1>7 DEF WindowLayout, MaxVertexes, MaxIndexes

\* Update fails only when something does not fit.
LEMMA UpdateKeepsRunning ==
  ASSUME NEW gens, Update(gens),
         Len(CopyVertexes(gens)) <= MaxVertexes(size), MaxVertexes(size) \in Nat,
         Len(CopyIndexes(gens)) <= MaxIndexes(size), MaxIndexes(size) \in Nat,
         Len(CopyVertexes(gens)) \in Nat, Len(CopyIndexes(gens)) \in Nat
  PROVE  ~failed'
<1>1. /\ ~(Len(CopyVertexes(gens)) > MaxVertexes(size))
      /\ ~(Len(CopyIndexes(gens)) > MaxIndexes(size))
  OBVIOUS
<1> QED BY <1>1, Zenon DEF Update

\* A window that is not higher than wide, whatever its size and its
\* generations, never gives up with "vertex index over max"; nor does a
\* window of the other kind, which has no such limit.
THEOREM FitsUnlessTall == Spec => []OnlyTallOverMax
<1>1. Init => OnlyTallOverMax
  BY DEF Init, OnlyTallOverMax
<1>2. TypeOK /\ OnlyTallOverMax /\ [Next]_vars => OnlyTallOverMax'
  <2> SUFFICES ASSUME TypeOK, OnlyTallOverMax, [Next]_vars PROVE OnlyTallOverMax'
    OBVIOUS
  <2>0. size \in Sizes /\ size.w \in Nat /\ size.h \in Nat
    BY SizesAssumption DEF TypeOK
  <2>1. ASSUME NEW gens \in Seq(Worlds(size)), Len(gens) = size.depth,
               size.method = "CPU", UNCHANGED size, Update(gens)
        PROVE  OnlyTallOverMax'
    <3>1. CASE size.h > size.w
      BY <2>1, <3>1 DEF OnlyTallOverMax
    <3>2. CASE size.h <= size.w
      <4>1. /\ Len(CopyVertexes(gens)) <= MaxVertexes(size)
            /\ Len(CopyIndexes(gens)) <= MaxIndexes(size)
        BY <2>0, <2>1, <3>2, WideFits
      <4>2. MaxVertexes(size) \in Nat /\ MaxIndexes(size) \in Nat
        BY <2>0, MaxType
      <4>3. PICK PS : WindowLayout(size, gens, PS)
        BY <2>0, <2>1, WindowLaidOut
      <4>4. Len(CopyVertexes(gens)) \in Nat /\ Len(CopyIndexes(gens)) \in Nat
        BY <4>3 DEF WindowLayout
      <4>5. ~failed'
        BY <2>1, <4>1, <4>2, <4>4, UpdateKeepsRunning
      <4> QED BY <4>5 DEF OnlyTallOverMax
    <3> QED BY <2>0, <3>1, <3>2
  <2>2. ASSUME NEW s \in Sizes, Initialize(s) PROVE OnlyTallOverMax'
    BY <2>2 DEF Initialize, OnlyTallOverMax
  <2>3. ASSUME NEW world \in Worlds(size), MoveNextGeneration(world)
        PROVE  OnlyTallOverMax'
    <3>1. generations' \in Seq(Worlds(size)) /\ Len(generations') = size.depth
      BY <2>3, MoveIsPush
    <3>2. CASE size.method = "CPU" /\ Update(generations')
      BY <2>1, <2>3, <3>1, <3>2 DEF MoveNextGeneration
    <3>3. CASE UNCHANGED failed
      BY <2>3, <3>3 DEF MoveNextGeneration, OnlyTallOverMax
    <3> QED BY <2>3, <3>2, <3>3 DEF MoveNextGeneration
  <2>4. CASE Draw
    <3>1. generations \in Seq(Worlds(size)) /\ Len(generations) = size.depth
      BY DEF TypeOK
    <3>2. CASE size.method = "CPU" /\ Update(generations)
      BY <2>1, <2>4, <3>1, <3>2 DEF Draw
    <3>3. CASE UNCHANGED failed
      BY <2>4, <3>3 DEF Draw, OnlyTallOverMax
    <3> QED BY <2>4, <3>2, <3>3 DEF Draw
  <2>5. CASE UNCHANGED vars
    BY <2>5 DEF vars, OnlyTallOverMax
  <2> QED BY <2>2, <2>3, <2>4, <2>5 DEF Next
<1> QED BY <1>1, <1>2, TypeCorrect, PTL DEF Spec

\* The condition is the weakest: in every window that is higher than wide,
\* whatever its size, a history of full worlds has more vertexes than the
\* buffer.
THEOREM TallOverMax ==
  ASSUME NEW s \in Sizes, s.method = "CPU", s.h > s.w
  PROVE  LET full == [g \in 1 .. s.depth |-> Cells(s)]
         IN  /\ full \in Seq(Worlds(s)) /\ Len(full) = s.depth
             /\ Len(CopyVertexes(full)) > MaxVertexes(s)
<1> DEFINE full == [g \in 1 .. s.depth |-> Cells(s)]
<1>1. PICK w \in Nat \ {0}, h \in Nat \ {0}, d \in Nat \ {0} :
        w = s.w /\ h = s.h /\ d = s.depth /\ h > w
  BY SizesAssumption
<1>2. /\ full \in Seq(Worlds(s)) /\ Len(full) = s.depth
      /\ \A g \in 1 .. s.depth : full[g] = Cells(s)
  BY <1>1 DEF Worlds
<1> HIDE DEF full
<1>3. PICK PS : WindowLayout(s, full, PS)
  BY <1>2, WindowLaidOut
<1>4. /\ Len(CopyVertexes(full)) = (w * h * d) * Corners
      /\ MaxVertexes(s) = (w * w * d) * Corners
  BY <1>1, <1>2, <1>3 DEF WindowLayout, MaxVertexes
<1>5. \A x, y \in Nat, z \in Nat \ {0} : x < y => x * z < y * z
  OBVIOUS
<1>6. PICK C \in Nat \ {0} : C = Corners
  BY CubeType
<1>7. PICK a \in Nat, b \in Nat : a = w * w /\ b = w * h /\ a < b
  <2>1. w * w < h * w /\ h * w = w * h
    BY <1>1, <1>5
  <2> QED BY <2>1, Distribute
<1>8. PICK e \in Nat, f \in Nat : e = a * d /\ f = b * d /\ e < f
  BY <1>5, <1>7, Distribute
<1>9. e * C < f * C
  BY <1>5, <1>8
<1>10. Len(CopyVertexes(full)) = f * C /\ MaxVertexes(s) = e * C
  BY <1>4, <1>6, <1>7, <1>8
<1>11. Len(CopyVertexes(full)) > MaxVertexes(s)
  BY <1>9, <1>10, Distribute
<1> QED BY <1>2, <1>11 DEF full
=============================================================================
