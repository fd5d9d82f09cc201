--------------------------- MODULE MCAutoSnapshot ---------------------------
(* A small instance of AutoSnapshot. *)
EXTENDS AutoSnapshot, TLC

CONSTANTS n1, n2

TwoServers == {n1, n2}
Symmetry == Permutations(TwoServers)
=============================================================================
