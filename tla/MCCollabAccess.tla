--------------------------- MODULE MCCollabAccess ---------------------------
(* A small instance of CollabAccess. *)
EXTENDS CollabAccess, TLC

CONSTANTS n1, ann, bob, s1, r1

\* ann is a bystander; bob is the one whose role changes. The client belongs to either.
TwoUsers   == {ann, bob}
BobOnly    == {bob}
AllWriters == [u \in Users |-> "writer"]
OneNode    == {n1}
OneSock    == {s1}
OneReq     == {r1}
OnN1       == [s \in Socks |-> n1]
AnyScope   == {"restricted", "read", "edit"}
=============================================================================
