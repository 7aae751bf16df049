------------------------------ MODULE MCUI ------------------------------
(***************************************************************************)
(* A scroll bar, and in the dialog the OK button at the same place, a text *)
(* field, a radio button, free space, and a point outside of the window.   *)
(***************************************************************************)
EXTENDS UI

MCBars == {"bar"}
MCFields == {"field"}
MCRadios == {"radio"}
MCGroup == [r \in MCRadios |-> "speed"]
MCButtons == {"ok"}
MCPoints == {"corner", "field", "radio", "free", "out"}
MCClient == MCPoints \ {"out"}

MCUnder ==
  [root   |-> [p \in MCPoints |-> IF p = "corner" THEN "bar" ELSE "nothing"],
   dialog |-> [p \in MCPoints |->
                 CASE p = "corner" -> "ok"
                   [] p \in {"field", "radio"} -> p
                   [] p \in {"free", "out"} -> "nothing"]]

MCPositions == {-1, 2}
=============================================================================
