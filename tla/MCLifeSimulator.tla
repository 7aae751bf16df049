--------------------------- MODULE MCLifeSimulator ---------------------------
(***************************************************************************)
(* LifeSimulator on small boards: every world of a 2 x 2 board for the CPU *)
(* simulator and a blinker on 3 x 3, where cells are born, die and come    *)
(* back; for the compute shader also boards that are not square.           *)
(***************************************************************************)
EXTENDS LifeSimulator, TLC

All(w, h) == {[w |-> w, h |-> h, live |-> s] : s \in SUBSET Cells(w, h)}
Board(w, h, s) == [w |-> w, h |-> h, live |-> s]

MCCPUBoards == All(2, 2) \cup {Board(3, 3, {3, 4, 5})}
MCCSBoards == {Board(2, 2, {0, 1, 2}), Board(2, 3, {0, 2, 4}), Board(3, 2, {0, 1, 5}),
               Board(3, 2, {0, 1, 2, 3, 4})}
MCTallBoards == {Board(2, 3, {0, 2, 4})}

\* A rule under which every live cell dies and two neighbours make a birth.
Seeds == [born |-> {2}, survive |-> {}]
MCRuleFiles == {Seeds}

Interchangeable == Permutations(Workers)
=============================================================================
