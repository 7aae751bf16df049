----------------------------- MODULE GameOfLife -----------------------------
(***************************************************************************)
(* The abstract specification of a life simulator: a world that moves from *)
(* one generation to the next, all cells at once.                          *)
(*                                                                         *)
(* It knows nothing of buffers, threads or shaders.  LifeSimulator is      *)
(* shown to implement it.                                                  *)
(***************************************************************************)
EXTENDS Conway

CONSTANTS
  Boards,    \* the boards a simulation may start from: [w, h, live]
  RuleFiles  \* the rules a rule file may hold

VARIABLES
  board,     \* the area and its live cells
  law        \* the rule in force

avars == <<board, law>>

Start(b) == /\ board' = b
            /\ law' = ConwayRule

Evolve == /\ board' = [board EXCEPT !.live =
                         Generation(law, board.w, board.h, board.live)]
          /\ law' = law

Legislate(r) == /\ law' = r
                /\ board' = board

Init == /\ board \in Boards
        /\ law = ConwayRule

Next == \/ \E b \in Boards : Start(b)
        \/ Evolve
        \/ \E r \in RuleFiles : Legislate(r)

Spec == Init /\ [][Next]_avars
=============================================================================
