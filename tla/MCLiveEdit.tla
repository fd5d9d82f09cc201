----------------------------- MODULE MCLiveEdit -----------------------------
(* Small instances of LiveEdit. *)
EXTENDS LiveEdit, TLC

CONSTANTS n1, n2, bot1, bot2, ann

BotUsers == {bot1, bot2, ann}
TwoBots  == {bot1, bot2}
AnnOnly  == {ann}
OneNode  == {n1}
\* A sheet shares its restore with a document and its error path with a board.
TwoKinds == {"document", "board"}
JustDocument == {"document"}
\* The requests are alike.
Symmetric == Permutations(TwoBots)
=============================================================================
