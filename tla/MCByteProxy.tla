------------------------------ MODULE MCByteProxy ------------------------------
(* ByteProxy for TLC; its sides differ (the AfterFunc closes 1 before 2), so *)
(* there is no symmetry to use.                                            *)
EXTENDS ByteProxy
=============================================================================
