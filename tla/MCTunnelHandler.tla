--------------------------- MODULE MCTunnelHandler ---------------------------
(* TunnelHandler with symmetric connections and ports, for TLC. *)
EXTENDS TunnelHandler, TLC

Symmetry == Permutations(Conn) \cup Permutations(Port)
=============================================================================
