--------------------------- MODULE MCChatTurns ------------------------------
(* ChatTurns on two callers and one panel editor.                          *)
EXTENDS ChatTurns, TLC

Symmetry == Permutations(Callers)
=============================================================================
