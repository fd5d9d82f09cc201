--------------------------- MODULE MCInviteAccept ---------------------------
(* Small instances of InviteAccept. *)
EXTENDS InviteAccept, TLC

CONSTANTS owner, ann, bob, i1, i2, c1, c2

Everyone == {owner, ann, bob}
OneInvite == {i1}
TwoInvites == {i1, i2}
WriterLink == [i \in Invites |-> Writer]
WriterAndReaderLinks == (i1 :> Writer) @@ (i2 :> Reader)
OneSeat   == [i \in Invites |-> 1]
TwoSeats  == [i \in Invites |-> 2]
Symmetry == Permutations(Calls) \cup Permutations({ann, bob})
=============================================================================
