------------------------------ MODULE MCSecureLink ------------------------------
(* SecureLink for TLC.  No symmetry: the run checks a liveness property.   *)
EXTENDS SecureLink
=============================================================================
