--------------------------- MODULE MCCanvasPanel ---------------------------
(***************************************************************************)
(* Small instances of CanvasPanel: sizes up to 2 where the program takes   *)
(* 1024, a UINT of less than 4 bits, files longer than the dialog allows,  *)
(* an empty one, and a rule file that may change at any time.              *)
(***************************************************************************)
EXTENDS CanvasPanel

CONSTANTS r1, file, fives

\* A row and a column longer than MaxSize, which together wrap and in one
\* order are still written without an overrun; a narrow file that lies in the
\* middle of the row when it is opened afterwards; and what a file that cannot
\* be read leaves.
MCLifeFiles == {[w |-> 4, h |-> 1, live |-> {<<0, 0>>, <<3, 0>>}],
                [w |-> 1, h |-> 7, live |-> {<<0, 6>>}],
                [w |-> 1, h |-> 2, live |-> {<<0, 1>>}],
                [w |-> 0, h |-> 0, live |-> {}]}

\* One that is valid, one with a zero and one that is too deep.
MCEntries ==
  {[width |-> 2, height |-> 1, generations |-> 2, speed |-> "fast", method |-> "CPU"],
   [width |-> 2, height |-> 0, generations |-> 1, speed |-> "fast", method |-> "CPU"],
   [width |-> 2, height |-> 1, generations |-> 3, speed |-> "fast", method |-> "CPU"]}

\* Every speed can be chosen.
MCValidEntries ==
  {[width |-> 1, height |-> 1, generations |-> 1, speed |-> s, method |-> "CPU"] : s \in Speeds}

\* The first tick at which the int is negative.
MCNegativeTick == 2 ^ (TickBits - 1)
=============================================================================
