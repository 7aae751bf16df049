------------------------------- MODULE History -------------------------------
(***************************************************************************)
(* The abstract specification of the 3D window: a fixed number of past     *)
(* worlds, oldest first.  A window opens with empty worlds, and each new   *)
(* world pushes the oldest one out.                                        *)
(***************************************************************************)
EXTENDS Naturals, Sequences

CONSTANT Windows    \* the windows that may be opened: [depth, worlds]

VARIABLES window, past

hvars == <<window, past>>

Open(w) == /\ window' = w
           /\ past' = [g \in 1 .. w.depth |-> {}]

Push(world) == /\ past' = Append(Tail(past), world)
               /\ window' = window

Init == \E w \in Windows : /\ window = w
                           /\ past = [g \in 1 .. w.depth |-> {}]

Next == \/ \E w \in Windows : Open(w)
        \/ \E world \in window.worlds : Push(world)

Spec == Init /\ [][Next]_hvars
=============================================================================
