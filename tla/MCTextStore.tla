---------------------------- MODULE MCTextStore ----------------------------
(* Texts of up to three characters: a selection inside one, and one behind it. *)
EXTENDS TextStore
=============================================================================
