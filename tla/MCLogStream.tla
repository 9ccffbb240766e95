------------------------------ MODULE MCLogStream ------------------------------
(* LogStream for TLC: the constants of MCLogStream.cfg are model values.  No  *)
(* symmetry, since the run checks liveness.                                   *)
EXTENDS LogStream
=============================================================================
