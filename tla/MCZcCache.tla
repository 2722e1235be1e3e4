----------------------------- MODULE MCZcCache -----------------------------
(* ZcCache for TLC.  The processes are not declared symmetric: the liveness *)
(* property needs them told apart.                                          *)
EXTENDS ZcCache
=============================================================================
