---------------------------- MODULE MCPanelSessions ----------------------------
(* PanelSessions for TLC: model values with symmetry. *)
EXTENDS PanelSessions, TLC

Symmetry ==
    Permutations(Token) \cup Permutations(Editor) \cup Permutations(Visitor)
=============================================================================
