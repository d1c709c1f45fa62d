------------------------------ MODULE MCViewman ------------------------------
(***************************************************************************)
(* Viewman for TLC: three windows of two slots, two of them 2D, as model   *)
(* values.                                                                 *)
(***************************************************************************)
EXTENDS Viewman
CONSTANTS v1, v2, v3, s1, s2
=============================================================================
