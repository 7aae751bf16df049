------------------------------- MODULE Draw3D -------------------------------
(***************************************************************************)
(* The two windows on the past generations: Draw3DWithCPU with its         *)
(* VertexGenerator, which builds vertexes and indexes of cubes on the CPU, *)
(* and Draw3DWithGS, which hands every cell to a geometry shader.          *)
(*                                                                         *)
(* One frame (CanvasPanel::Draw3D) may initialize a new window, may move   *)
(* it to the next generation, and draws it.  The world a generation holds  *)
(* comes from CopyNext of a life simulator; here it is any world of the    *)
(* area.                                                                   *)
(*                                                                         *)
(* A generation is kept as the set of its live cells: the vertexes and     *)
(* indexes Add computes are a function of it (VertexesOf, IndexesOf).  A   *)
(* vertex is the cell, the corner of the cube and the depth that its       *)
(* position and colour are computed from.  Sizes are unbounded integers:   *)
(* the products of GetMaxVertexes and GetMaxIndexes are taken to fit.      *)
(***************************************************************************)
EXTENDS Naturals, Sequences, SequencesExt

CONSTANTS
  Sizes,     \* the [method, w, h, depth] a window is initialized with
  Corners,   \* NUMBER_OF_VERTICES_PER_LIFE
  s_indices  \* the corners of the triangles of one cube, three by three

ASSUME SizesAssumption ==
  \A s \in Sizes : /\ s.method \in {"CPU", "GS"}
                   /\ s.w \in Nat \ {0} /\ s.h \in Nat \ {0}
                   /\ s.depth \in Nat \ {0}

ASSUME CornersAssumption ==
  /\ Corners \in Nat \ {0}
  /\ s_indices \in Seq(0 .. Corners - 1)
  /\ Len(s_indices) > 0 /\ Len(s_indices) % 3 = 0

VARIABLES
  size,          \* the size of the window
  generations,   \* m_generationVertexData or m_lifeDataArray
  vertexBuffer,  \* what is written to m_pVertexBuffer
  indexBuffer,   \* what is written to m_pIndexBuffer
  picture,       \* the triangles last drawn
  frame,         \* what the current frame has done
  failed         \* an exception ended the program

vars == <<size, generations, vertexBuffer, indexBuffer, picture, frame, failed>>

Cells(s) == 0 .. s.w * s.h - 1
Worlds(s) == SUBSET Cells(s)
PerCube == Len(s_indices)
-----------------------------------------------------------------------------
(* Vertexes and indexes of the CPU window.                                 *)

\* The loop of Add over the cells meets the live ones in index order.
InOrder(world) ==
  CHOOSE cubes \in [1 .. Cardinality(world) -> world] :
    \A i, j \in 1 .. Cardinality(world) : i < j => cubes[i] < cubes[j]

\* Add: 24 vertexes and 36 indexes for each live cell.
VertexesOf(world) ==
  LET cubes == InOrder(world)
  IN  [i \in 1 .. Len(cubes) * Corners |->
         [cell |-> cubes[(i - 1) \div Corners + 1], corner |-> (i - 1) % Corners]]

IndexesOf(world) ==
  [i \in 1 .. Cardinality(world) * PerCube |->
     s_indices[((i - 1) % PerCube) + 1] + Corners * ((i - 1) \div PerCube)]

\* Every vertex gets the depth of its generation.
CopyVertexes(gens) ==
  FlattenSeq([g \in 1 .. Len(gens) |->
    LET vertexes == VertexesOf(gens[g])
    IN  [i \in 1 .. Len(vertexes) |->
           [cell |-> vertexes[i].cell, corner |-> vertexes[i].corner, depth |-> g - 1]]])

\* Mutant: the indexes of a generation are left as Add made them.
NoSum(gens) == [g \in 1 .. Len(gens) |-> 0]

\* indexSum: the vertexes of the generations before.
IndexSum(gens) ==
  LET indexSum[g \in 1 .. Len(gens)] ==
        IF g = 1 THEN 0 ELSE indexSum[g - 1] + Len(VertexesOf(gens[g - 1]))
  IN  indexSum

CopyIndexes(gens) ==
  FlattenSeq([g \in 1 .. Len(gens) |->
    LET indexes == IndexesOf(gens[g])
    IN  [i \in 1 .. Len(indexes) |-> IndexSum(gens)[g] + indexes[i]]])

\* Mutant: as many indexes as vertexes.
AsManyAsVertexes(s) == s.w * s.w * s.depth * Corners

\* GetMaxVertexes and GetMaxIndexes: the width twice.
MaxVertexes(s) == s.w * s.w * s.depth * Corners
MaxIndexes(s) == s.w * s.w * s.depth * PerCube

\* The copy loops throw when the buffer is full.
CopyChecked(data, max) == SubSeq(data, 1, IF Len(data) > max THEN max ELSE Len(data))

Update(gens) ==
  LET vertexes == CopyVertexes(gens)
      indexes == CopyIndexes(gens)
  IN  /\ vertexBuffer' = CopyChecked(vertexes, MaxVertexes(size))
      /\ \/ /\ Len(vertexes) > MaxVertexes(size)
            /\ failed' = TRUE
            /\ UNCHANGED indexBuffer
         \/ /\ Len(vertexes) <= MaxVertexes(size)
            /\ indexBuffer' = CopyChecked(indexes, MaxIndexes(size))
            /\ failed' = (Len(indexes) > MaxIndexes(size))
-----------------------------------------------------------------------------
(* The operations.                                                         *)

\* Initialize of a new object, which begins with depth empty generations,
\* and CreateD3DResources.
Initialize(s) ==
  /\ ~failed
  /\ frame \in {"initialized", "drawn"}
  /\ size' = s
  /\ generations' = [g \in 1 .. s.depth |-> {}]
  /\ vertexBuffer' = << >> /\ indexBuffer' = << >>
  /\ frame' = "initialized"
  /\ UNCHANGED <<picture, failed>>

\* Mutant: the newest generation is erased, not the oldest.
KeepOldest(gens, n) == SubSeq(gens, 1, IF Len(gens) > n THEN n ELSE Len(gens))

\* Mutant: the loop ends one too early.
KeepOneMore(gens, n) ==
  SubSeq(gens, IF Len(gens) > n + 1 THEN Len(gens) - n ELSE 1, Len(gens))

\* while (size > n) erase(begin): the last n of the sequence.
KeepLast(gens, n) ==
  SubSeq(gens, IF Len(gens) > n THEN Len(gens) - n + 1 ELSE 1, Len(gens))

\* The CPU window erases, pushes and updates the buffers; the GS window
\* pushes and erases.
MoveNextGeneration(world) ==
  /\ ~failed
  /\ frame \in {"initialized", "drawn"}
  /\ frame' = "moved"
  /\ \/ /\ size.method = "CPU"
        /\ generations' = Append(KeepLast(generations, size.depth - 1), world)
        /\ Update(generations')
     \/ /\ size.method = "GS"
        /\ generations' = KeepLast(Append(generations, world), size.depth)
        /\ UNCHANGED <<vertexBuffer, indexBuffer, failed>>
  /\ UNCHANGED <<size, picture>>

\* A triangle of the cube of a cell, and the cube.
Triangle(c, g, k) ==
  [j \in 1 .. 3 |-> [cell |-> c, corner |-> s_indices[3 * k + j], depth |-> g]]
Cube(c, g) == {Triangle(c, g, k) : k \in 0 .. PerCube \div 3 - 1}

\* DrawIndexed(numberOfIndexes): triangles of vertexes the indexes name.
DrawIndexed(vertexes, indexes) ==
  {[j \in 1 .. 3 |-> vertexes[indexes[3 * k + j] + 1]] :
     k \in 0 .. Len(indexes) \div 3 - 1}

\* Draw3D of the GS window: all cells of all generations, area after area.
AllCells ==
  LET area == size.w * size.h
  IN  [i \in 1 .. area * size.depth |->
         (i - 1) % area \in generations[(i - 1) \div area + 1]]

\* Mutant: the vertex shader divides by the height.
PositionByHeight(id) ==
  LET g == id \div (size.w * size.h)
      temp == id - g * size.w * size.h
  IN  [cell |-> (temp % size.h) + size.w * (temp \div size.h), depth |-> g]

\* The vertex shader: the place of a vertex from its number.
Position(id) ==
  LET g == id \div (size.w * size.h)
      temp == id - g * size.w * size.h
  IN  [cell |-> (temp % size.w) + size.w * (temp \div size.w), depth |-> g]

\* The geometry shader: a cube for every live cell.
DrawPoints(alive) ==
  UNION {Cube(Position(i - 1).cell, Position(i - 1).depth) :
           i \in {j \in DOMAIN alive : alive[j]}}

Draw ==
  /\ ~failed
  /\ frame' = "drawn"
  /\ \/ /\ size.method = "CPU"
        /\ Update(generations)
        /\ picture' = IF failed' THEN picture
                      ELSE DrawIndexed(vertexBuffer', indexBuffer')
     \/ /\ size.method = "GS"
        /\ vertexBuffer' = AllCells
        /\ picture' = DrawPoints(vertexBuffer')
        /\ UNCHANGED <<indexBuffer, failed>>
  /\ UNCHANGED <<size, generations>>
-----------------------------------------------------------------------------
Init ==
  /\ size \in Sizes
  /\ generations = [g \in 1 .. size.depth |-> {}]
  /\ vertexBuffer = << >> /\ indexBuffer = << >>
  /\ picture = {}
  /\ frame = "initialized"
  /\ failed = FALSE

Next ==
  \/ \E s \in Sizes : Initialize(s)
  \/ \E world \in Worlds(size) : MoveNextGeneration(world)
  \/ Draw

Spec == Init /\ [][Next]_vars
-----------------------------------------------------------------------------
(* Properties.                                                             *)

\* Types; the window always holds exactly depth generations, so Draw3D of
\* the GS window never reads past m_lifeDataArray.
TypeOK ==
  /\ size \in Sizes
  /\ generations \in Seq(Worlds(size))
  /\ Len(generations) = size.depth
  /\ frame \in {"initialized", "moved", "drawn"}
  /\ failed \in BOOLEAN

\* CheckVertexAndIndex: there are as many cubes of vertexes as of indexes,
\* and the indexes of the n-th cube name vertexes of the n-th cube, across
\* generations that were pushed, shifted and copied separately.
IndexesNameTheirCube ==
  size.method = "CPU" /\ ~failed =>
    /\ Len(vertexBuffer) % Corners = 0 /\ Len(indexBuffer) % PerCube = 0
    /\ Len(vertexBuffer) \div Corners = Len(indexBuffer) \div PerCube
    /\ \A i \in DOMAIN indexBuffer :
         indexBuffer[i] \div Corners = (i - 1) \div PerCube

\* The generations and cells where a cube belongs.
LivePlaces == {p \in (1 .. size.depth) \X Cells(size) : p[2] \in generations[p[1]]}

\* What a frame draws is one cube for each live cell of each generation of
\* the window, at the depth of the generation, in both windows: the vertex
\* shader's divisions and the indexes of the CPU window lead to the same.
PictureShowsHistory ==
  frame = "drawn" /\ ~failed =>
    picture = UNION {Cube(p[2], p[1] - 1) : p \in LivePlaces}

\* "vertex index over max" ends the program in a CPU window on an area that
\* is higher than wide and in no other: elsewhere the two capacities, which
\* are computed apart from the generations, hold every history.
OnlyTallOverMax == failed => size.method = "CPU" /\ size.h > size.w

\* The CPU window never gives up with "vertex index over max".
NeverOverMax == ~failed

Past == INSTANCE History WITH
  Windows <- {[depth |-> s.depth, worlds |-> Worlds(s)] : s \in Sizes},
  window <- [depth |-> size.depth, worlds |-> Worlds(size)],
  past <- generations

\* Both windows hold the last depth generations, oldest first, although one
\* erases before it pushes and the other after.
RefinesHistory == Past!Spec
=============================================================================
