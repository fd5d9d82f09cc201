------------------------------- MODULE MCJobs -------------------------------
(* A small instance of Jobs: two requests of any kind. *)
EXTENDS Jobs, TLC

CONSTANTS j1, j2

TwoJobs == {j1, j2}
TwoParts == 1..2
ImageCounts == [j \in TwoJobs |-> IF j = j1 THEN 2 ELSE 1]
\* Two requests of the kinds the second one leaves out do not meet: each makes its own.
AnyKind == [j \in TwoJobs |-> IF j = j1 THEN Kinds
                              ELSE {"docxApply", "merge", "replace", "pdf"}]
\* One runs; with a second DOCX or board it waits, with a second PDF it is sent away.
QueueLimits == [q \in Queues |-> IF q = "typst" THEN <<1, 0>> ELSE <<1, 1>>]
=============================================================================
