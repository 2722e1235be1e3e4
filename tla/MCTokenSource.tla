--------------------------- MODULE MCTokenSource ---------------------------
(* TokenSource for TLC.  The callers are not declared symmetric: the        *)
(* liveness properties need them told apart.                                *)
EXTENDS TokenSource
============================================================================
