------------------------------ MODULE BodyEdit ------------------------------
(***************************************************************************)
(* The operations of PATCH /:docId/content as a function of the document   *)
(* and the batch (src/collab/docBodyEdit.ts, api/routes/docContent.ts).    *)
(* When they run and what is stored is in LiveEdit.                        *)
(*                                                                         *)
(* A document is a sequence of blocks [name, kids]; kids are blocks        *)
(* without kids, and a block with `box` TRUE must have one. Positions are  *)
(* ProseMirror's: a block counts for two tokens and for those of its kids. *)
(* Operations are records [kind, path, position, to, expect, content,      *)
(* attach]; content is a sequence of names of new blocks. Anchors inside a *)
(* block without kids are left out: ProseMirror's fitter decides there.    *)
(***************************************************************************)
EXTENDS Integers, Sequences, FiniteSets, SequencesExt

CONSTANTS OwnAttachments, MaxOps, MaxDepth

Token(name, side) == [name |-> name, side |-> side]
Both(name) == <<Token(name, "open"), Token(name, "close")>>
BlockTokens(b) ==
    <<Token(b.name, "open")>> \o FlattenSeq([i \in DOMAIN b.kids |-> Both(b.kids[i].name)]) \o <<Token(b.name, "close")>>
Tokens(doc) == FlattenSeq([i \in DOMAIN doc |-> BlockTokens(doc[i])])

-----------------------------------------------------------------------------
(* resolveBlockPath and insertionPos: indices of a path count from 0.      *)

Found(doc, path) ==
    /\ Len(path) \in 1..2
    /\ path[1] < Len(doc)
    /\ Len(path) = 2 => path[2] < Len(doc[path[1] + 1].kids)

Size(block) == 2 + 2 * Len(block.kids)

\* Mutant of StartOf: the open token of the parent is forgotten.
StartOfSibling(doc, path) ==
    FoldLeft(LAMBDA n, b : n + Size(b), 0, SubSeq(doc, 1, path[1]))
        + (IF Len(path) = 2 THEN 2 * path[2] ELSE 0)

StartOf(doc, path) ==
    FoldLeft(LAMBDA n, b : n + Size(b), 0, SubSeq(doc, 1, path[1]))
        + (IF Len(path) = 2 THEN 1 + 2 * path[2] ELSE 0)

EndOf(doc, path) ==
    StartOf(doc, path) + (IF Len(path) = 2 THEN 2 ELSE Size(doc[path[1] + 1]))

InsertionPos(doc, path, position) ==
    CASE position = "before" -> StartOf(doc, path)
      [] position = "after" -> EndOf(doc, path)
      [] position = "inside_start" -> IF path = <<>> THEN 0 ELSE StartOf(doc, path) + 1
      [] position = "inside_end" -> IF path = <<>> THEN Len(Tokens(doc)) ELSE EndOf(doc, path) - 1

TypeAt(doc, path) ==
    CASE path = <<>> -> "doc"
      [] Len(path) = 1 -> IF doc[path[1] + 1].box THEN "box" ELSE "paragraph"
      [] Len(path) = 2 -> "paragraph"

-----------------------------------------------------------------------------
(* validateOpsShape and checkOpsBounds: what the route turns away.         *)

ShapeValid(op) ==
    CASE op.kind = "insert" -> op.path # <<>> \/ op.position \in {"inside_start", "inside_end"}
      [] op.kind \in {"replace", "delete"} -> op.path # <<>> /\ op.to # <<>>

RouteRefuses(ops) ==
    \/ ops = <<>> \/ \E i \in DOMAIN ops : ~ShapeValid(ops[i])
    \/ Len(ops) > MaxOps
    \/ \E i \in DOMAIN ops : Len(ops[i].path) > MaxDepth \/ Len(ops[i].to) > MaxDepth

-----------------------------------------------------------------------------
(* applyIncrementalOps: every operation is resolved on the document as it  *)
(* was; the first that cannot be decides the answer.                       *)

SameParent(op) == Len(op.path) = Len(op.to) /\ Front(op.path) = Front(op.to)

OpError(doc, op) ==
    CASE op.kind = "insert" ->
            IF op.path # <<>> /\ ~Found(doc, op.path) THEN "anchor_not_found"
            ELSE IF op.expect \notin {"any", TypeAt(doc, op.path)} THEN "anchor_mismatch"
            ELSE IF op.content = <<>> THEN "invalid_ops" ELSE "none"
      [] op.kind \in {"replace", "delete"} ->
            IF ~SameParent(op) \/ Last(op.path) > Last(op.to) THEN "invalid_ops"
            ELSE IF ~Found(doc, op.path) \/ ~Found(doc, op.to) THEN "anchor_not_found"
            ELSE IF op.expect \notin {"any", TypeAt(doc, op.path)} THEN "anchor_mismatch"
            ELSE IF op.kind = "replace" /\ op.content = <<>> THEN "invalid_ops" ELSE "none"

Resolved(doc, op) ==
    [kind |-> op.kind, content |-> op.content, anchor |-> <<op.path, op.position>>,
     from |-> IF op.kind = "insert" THEN InsertionPos(doc, op.path, op.position) ELSE StartOf(doc, op.path),
     to |-> IF op.kind = "insert" THEN InsertionPos(doc, op.path, op.position) ELSE EndOf(doc, op.to)]

\* detectOverlaps, and two inserts at one anchor.
Collide(a, b) ==
    CASE a.kind = "insert" /\ b.kind = "insert" -> a.anchor = b.anchor
      [] a.kind = "insert" /\ b.kind # "insert" -> a.from > b.from /\ a.from < b.to
      [] a.kind # "insert" /\ b.kind = "insert" -> b.from > a.from /\ b.from < a.to
      [] a.kind # "insert" /\ b.kind # "insert" -> a.from < b.to /\ b.from < a.to

\* Mutant of Earlier: operations are applied in the order of the document.
EarlierAscending(r, i, j) == r[i].from < r[j].from \/ (r[i].from = r[j].from /\ i < j)

\* The order of application: descending, a range before an insert at its start, and else
\* as given (the sort is stable).
Earlier(r, i, j) ==
    \/ r[i].from > r[j].from
    \/ r[i].from = r[j].from /\ r[i].kind # "insert" /\ r[j].kind = "insert"
    \/ r[i].from = r[j].from /\ (r[i].kind = "insert" <=> r[j].kind = "insert") /\ i < j

Filler == 0

\* The document, or a box, that a deletion leaves empty gets an empty paragraph.
LeftEmpty(before, after, boxes) ==
    /\ before = <<>> \/ (Last(before).side = "open" /\ Last(before).name \in boxes)
    /\ after = <<>> \/ after[1].side = "close"

ApplyOne(tokens, op, boxes) ==
    LET before == SubSeq(tokens, 1, op.from)
        after == SubSeq(tokens, op.to + 1, Len(tokens))
        new == FlattenSeq([i \in DOMAIN op.content |-> Both(op.content[i])])
    IN  IF op.kind = "delete"
        THEN before \o (IF LeftEmpty(before, after, boxes) THEN Both(Filler) ELSE <<>>) \o after
        ELSE before \o new \o after

Boxes(doc) == {doc[i].name : i \in {j \in DOMAIN doc : doc[j].box}}

ApplyIncrementalOps(doc, ops) ==
    LET bad == {i \in DOMAIN ops : OpError(doc, ops[i]) # "none"}
        r == [i \in DOMAIN ops |-> Resolved(doc, ops[i])]
        order == SetToSortSeq(DOMAIN ops, LAMBDA i, j : Earlier(r, i, j))
    IN  IF bad # {} THEN [error |-> OpError(doc, ops[CHOOSE i \in bad : \A j \in bad : i <= j]), tokens |-> <<>>]
        ELSE IF \E i, j \in DOMAIN ops : i < j /\ Collide(r[i], r[j])
             THEN [error |-> "invalid_ops", tokens |-> <<>>]
        ELSE [error |-> "none",
              tokens |-> FoldLeft(LAMBDA t, i : ApplyOne(t, r[i], Boxes(doc)), Tokens(doc), order)]

\* collectAttachIds, and the check of editDocBody that they are this document's.
ForeignAttachment(ops) == \E i \in DOMAIN ops : ops[i].kind # "delete" /\ ops[i].attach \notin OwnAttachments

\* editDocBody up to its size gate.
EditBody(doc, ops) ==
    IF RouteRefuses(ops) THEN [error |-> "invalid_body", tokens |-> <<>>]
    ELSE LET result == ApplyIncrementalOps(doc, ops)
         IN  IF result.error = "none" /\ ForeignAttachment(ops)
             THEN [error |-> "attachment_not_found", tokens |-> <<>>]
             ELSE result

-----------------------------------------------------------------------------
(* What a batch means, by the names of blocks.                             *)

BlockAt(doc, path) ==
    IF Len(path) = 1 THEN doc[path[1] + 1] ELSE doc[path[1] + 1].kids[path[2] + 1]

Named(doc, path) ==
    LET b == BlockAt(doc, path) IN {b.name} \cup (IF Len(path) = 1 THEN {b.kids[i].name : i \in DOMAIN b.kids} ELSE {})

\* The blocks an operation takes away.
Taken(doc, op) ==
    IF op.kind = "insert" THEN {}
    ELSE UNION {Named(doc, Append(Front(op.path), i)) : i \in Last(op.path)..Last(op.to)}

\* The original tokens that come before what the operation puts in.
Ahead(doc, op) ==
    LET t == Tokens(doc)
        at(name, side) == CHOOSE i \in DOMAIN t : t[i] = Token(name, side)
        n == IF op.path = <<>> THEN 0 ELSE BlockAt(doc, op.path).name
        last == CASE op.kind # "insert" \/ op.position = "before" -> at(n, "open") - 1
                  [] op.position = "after" -> at(n, "close")
                  [] op.position = "inside_start" -> IF n = 0 THEN 0 ELSE at(n, "open")
                  [] op.position = "inside_end" -> IF n = 0 THEN Len(t) ELSE at(n, "close") - 1
    IN  {t[i] : i \in 1..last}

Index(tokens, token) == CHOOSE i \in DOMAIN tokens : tokens[i] = token

(* An accepted batch does what each of its operations asks of the document *)
(* as it was: what no operation takes away stays, in its order; new blocks *)
(* stand where their anchor was, in the order given; no two operations     *)
(* take the same block and none puts something into a block another takes; *)
(* an empty paragraph is added only where all was deleted                  *)
(* (docBodyEdit.ts:259-377).                                               *)
BatchExact(doc, ops) ==
    LET result == EditBody(doc, ops)
        gone == UNION {Taken(doc, ops[i]) : i \in DOMAIN ops}
        old == {Tokens(doc)[i] : i \in DOMAIN Tokens(doc)}
        Places(op, left) ==
            /\ \A i \in DOMAIN op.content, t \in left :
                 /\ Token(op.content[i], "open") \in {result.tokens[k] : k \in DOMAIN result.tokens}
                 /\ t \in Ahead(doc, op) <=> Index(result.tokens, t) < Index(result.tokens, Token(op.content[i], "open"))
            /\ \A i, j \in DOMAIN op.content :
                 i < j => Index(result.tokens, Token(op.content[i], "close")) < Index(result.tokens, Token(op.content[j], "open"))
    IN  result.error = "none" =>
            /\ SelectSeq(result.tokens, LAMBDA t : t \in old)
                   = SelectSeq(Tokens(doc), LAMBDA t : t.name \notin gone)
            /\ \A i \in DOMAIN ops :
                 ops[i].kind # "delete" => Places(ops[i], {t \in old : t.name \notin gone})
            /\ \A i, j \in DOMAIN ops : i # j =>
                 /\ Taken(doc, ops[i]) \cap Taken(doc, ops[j]) = {}
                 /\ ops[i].kind = "insert" /\ ops[i].path # <<>> =>
                      LET into == IF ops[i].position \in {"before", "after"} THEN Front(ops[i].path) ELSE ops[i].path
                      IN  into # <<>> => BlockAt(doc, into).name \notin Taken(doc, ops[j])
            /\ \A k \in DOMAIN result.tokens :
                 result.tokens[k].name = Filler =>
                    \E b \in 0..Len(doc) :
                        LET inside == IF b = 0 THEN {doc[i].name : i \in DOMAIN doc}
                                      ELSE {doc[b].kids[i].name : i \in DOMAIN doc[b].kids}
                        IN  inside # {} /\ inside \subseteq gone
=============================================================================
