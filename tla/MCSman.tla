------------------------------- MODULE MCSman --------------------------------
(* Sman for TLC: pids are model values, given out again once reaped. *)
EXTENDS Sman
=============================================================================
