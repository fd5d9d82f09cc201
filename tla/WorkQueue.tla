----------------------------- MODULE WorkQueue -----------------------------
(***************************************************************************)
(* The admission gate in front of heavy work. The same code stands three   *)
(* times, each with its own counters: src/import/docx/importQueue.ts,      *)
(* src/export/typstService.ts and src/whiteboard/boardExportQueue.ts.      *)
(* A queue is a record: work under way, the callers waiting for it and its *)
(* two limits.                                                             *)
(***************************************************************************)
EXTENDS Integers, Sequences

\* config.*.maxConcurrent and config.*.maxQueue.
NewQueue(limits) == [active |-> 0, waiting |-> <<>>, run |-> limits[1], wait |-> limits[2]]

HasSlot(q) == q.active < q.run
IsFull(q) == ~HasSlot(q) /\ Len(q.waiting) >= q.wait

\* acquire: a slot at once, or a place among the waiters; a full queue throws its Busy error.
Admitted(q, c) ==
    IF HasSlot(q) THEN [q EXCEPT !.active = @ + 1] ELSE [q EXCEPT !.waiting = Append(@, c)]

\* The caller whose promise a release resolves.
Woken(q) == IF q.waiting = <<>> THEN {} ELSE {Head(q.waiting)}

\* release: Math.max(0, active - 1), then the next waiter counts itself in.
Released(q) ==
    LET left == IF q.active > 0 THEN q.active - 1 ELSE 0
    IN  IF q.waiting = <<>> THEN [q EXCEPT !.active = left]
        ELSE [q EXCEPT !.active = left + 1, !.waiting = Tail(@)]
=============================================================================
