------------------------------ MODULE MCLoginLog ------------------------------
(* LoginLog for TLC: requests, and log paths, are interchangeable. *)
EXTENDS LoginLog, TLC

Symmetry == Permutations(Request) \cup Permutations(Path)
=============================================================================
