----------------------------- MODULE MCLifeFile -----------------------------
(***************************************************************************)
(* Numbers of three bits: an area of 4 by 2 is already too large.          *)
(***************************************************************************)
EXTENDS LifeFile

MCCoordinates == {-1, 0, 1, 3}
MCLengths == {1, 3}
=============================================================================
