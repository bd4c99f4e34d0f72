--------------------------- MODULE MCEvalBreaker ---------------------------
(* A main thread that computes, and a caller without the GIL.              *)
EXTENDS EvalBreaker, TLC

CONSTANTS m, a1, c1
=============================================================================
