------------------------------ MODULE MCDraw3D ------------------------------
(***************************************************************************)
(* Draw3D on small areas: wide ones in both windows, and one that is       *)
(* taller than wide.  A cube is one face of the program's cube: the first  *)
(* row of s_vertices and s_indices.                                        *)
(***************************************************************************)
EXTENDS Draw3D

MCCorners == 4
MCIndices == <<3, 1, 0, 2, 1, 3>>

Size(m, w, h, d) == [method |-> m, w |-> w, h |-> h, depth |-> d]

Wide == {Size("CPU", 2, 1, 3), Size("CPU", 2, 2, 2), Size("CPU", 3, 1, 1)}
Tall == {Size("CPU", 1, 2, 2)}
Shader == {Size("GS", 1, 2, 3), Size("GS", 3, 1, 2), Size("GS", 2, 2, 2)}

MCSizes == Wide \cup Tall \cup Shader
=============================================================================
