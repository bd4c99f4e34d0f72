------------------------------- MODULE MCGIL -------------------------------
EXTENDS GIL, TLC

CONSTANTS m, t1, t2, main, sub

OneInterp == [t \in Thread |-> main]

(* t2 belongs to a subinterpreter that shares the GIL of the main one. *)
TwoInterps == [t \in Thread |-> IF t = t2 THEN sub ELSE main]
=============================================================================
