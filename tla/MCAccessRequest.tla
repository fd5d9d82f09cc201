-------------------------- MODULE MCAccessRequest --------------------------
(* Small instances of AccessRequest. *)
EXTENDS AccessRequest, TLC

CONSTANTS ann, bot, h1, h2, e1, e2

OneUser == {ann}
OneBot == {bot}
TwoHandlers == {h1, h2}
OneEvent == {e1}
Symmetry == Permutations(TwoHandlers) \cup Permutations(Events)
=============================================================================
