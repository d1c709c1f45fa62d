--------------------------- MODULE MCAxiomSession ----------------------------
(* AxiomSession for TLC: windows are model values and interchangeable. *)
EXTENDS AxiomSession, TLC

Symmetry == Permutations(Window)
=============================================================================
