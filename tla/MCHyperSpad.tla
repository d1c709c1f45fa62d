---------------------------- MODULE MCHyperSpad ----------------------------
(* HyperSpad with two pages and three commands, the last of which needs the *)
(* others and a label nobody binds.                                         *)
EXTENDS HyperSpad
CONSTANTS c1, c2, c3, u

MCFrees == c1 :> <<>> @@ c2 :> <<c1>> @@ c3 :> <<u, c1, c2>>
MCSources == {c1, c3}
=============================================================================
