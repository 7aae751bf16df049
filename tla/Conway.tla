------------------------------- MODULE Conway -------------------------------
(***************************************************************************)
(* What a generation is: the reference definition of a cellular automaton  *)
(* on a finite area with dead borders.  Nothing here looks at how the      *)
(* program computes it; LifeSimulator does.                                *)
(*                                                                         *)
(* A cell is the index x + y * w that the program gives it, a world is the *)
(* set of the live cells, and a rule names the neighbour counts at which a *)
(* dead cell is born and a live one survives.                              *)
(***************************************************************************)
EXTENDS Integers, FiniteSets

Cells(w, h) == 0 .. w * h - 1

Column(w, c) == c % w
Row(w, c) == c \div w

\* The cells that touch c along a side or at a corner.
Neighbours(w, h, c) ==
  {d \in Cells(w, h) \ {c} : /\ Column(w, d) - Column(w, c) \in -1 .. 1
                             /\ Row(w, d) - Row(w, c) \in -1 .. 1}

ConwayRule == [born |-> {3}, survive |-> {2, 3}]

RuleType == [born : SUBSET (0 .. 8), survive : SUBSET (0 .. 8)]

\* The successor of a world under a rule.
Generation(rule, w, h, live) ==
  {c \in Cells(w, h) :
     LET sum == Cardinality(Neighbours(w, h, c) \cap live)
     IN  IF c \in live THEN sum \in rule.survive ELSE sum \in rule.born}
=============================================================================
