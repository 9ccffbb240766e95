----------------------------- MODULE MCQUICTunnel -----------------------------
(* QUICTunnel for TLC: model values for workers and links. *)
EXTENDS QUICTunnel
=============================================================================
