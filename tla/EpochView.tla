----------------------------- MODULE EpochView -----------------------------
(***************************************************************************)
(* What the permission-epoch machinery promises to the rest of the system: *)
(* one document has one epoch, kept in the database, that only counts up;  *)
(* every node keeps a watermark of it that may lag but never runs ahead    *)
(* and, while the node is up, never goes back.                             *)
(*                                                                         *)
(* EpochCache implements this specification (checked by TLC, proved in     *)
(* EpochCacheProofs); CollabAccess is built on top of it.                  *)
(***************************************************************************)
EXTENDS Integers

CONSTANTS
    Nodes,      \* the server processes
    MaxEpoch    \* bound on the number of bumps

ASSUME MaxEpochAssumption == MaxEpoch \in Nat

VARIABLES
    epoch,      \* doc_meta.permission_epoch
    mark        \* mark[n]: epochWatermark of node n, 0 when the map has no entry

viewVars == <<epoch, mark>>

ViewTypeOK ==
    /\ epoch \in 0..MaxEpoch
    /\ mark \in [Nodes -> 0..MaxEpoch]

ViewInit ==
    /\ epoch = 0
    /\ mark = [n \in Nodes |-> 0]

\* A permission change commits.
Bump == epoch < MaxEpoch /\ epoch' = epoch + 1

\* setEpochWatermark: a node hears of epoch e. The map only ever moves up.
Raise(n, e) == mark' = [mark EXCEPT ![n] = IF e > @ THEN e ELSE @]

BumpView == Bump /\ UNCHANGED mark

RaiseView(n) ==
    /\ \E e \in 0..epoch : Raise(n, e)
    /\ UNCHANGED epoch

\* The process dies and comes back with an empty map.
RestartView(n) ==
    /\ mark' = [mark EXCEPT ![n] = 0]
    /\ UNCHANGED epoch

ViewNext ==
    \/ BumpView
    \/ \E n \in Nodes : RaiseView(n) \/ RestartView(n)

ViewSpec == ViewInit /\ [][ViewNext]_viewVars

\* No node believes in a permission change that has not been committed.
MarkNeverAhead == \A n \in Nodes : mark[n] <= epoch

=============================================================================
