---------------------------- MODULE AnchorResolve ----------------------------
(***************************************************************************)
(* Where a comment is pinned. A bot names the text and perhaps its block   *)
(* and its occurrence (src/collab/anchorResolve.ts); a client sends two    *)
(* encoded positions (src/api/services/commentAnchors.ts).                 *)
(*                                                                         *)
(* A document is a sequence of text blocks, a block a sequence of          *)
(* characters and atoms (mentions, images), each one position wide.        *)
(***************************************************************************)
EXTENDS Integers, Sequences, FiniteSets, SequencesExt

CONSTANTS Atom, NoPath

\* The positions of the characters of a block: the searched text leaves atoms out.
PosOf(block) == SetToSortSeq({i \in DOMAIN block : block[i] # Atom}, <)

\* Mutant of Contiguous: a hit across an atom passes.
ContiguousText(pos, i, n) == TRUE

Contiguous(pos, i, n) == \A k \in 1..(n - 1) : pos[i + k] = pos[i] + k

Hit(block, pos, i, needle) ==
    /\ i + Len(needle) - 1 <= Len(pos)
    /\ \A k \in DOMAIN needle : block[pos[i + k - 1]] = needle[k]

\* indexOf from the left; a hit is skipped as a whole, a hit across an atom by one.
MatchesIn(block, needle) ==
    LET pos == PosOf(block)
        n == Len(needle)
        scan[i \in 1..(Len(pos) + n + 1)] ==
            IF i > Len(pos) THEN <<>>
            ELSE IF ~Hit(block, pos, i, needle) \/ ~Contiguous(pos, i, n) THEN scan[i + 1]
            ELSE <<[from |-> pos[i], to |-> pos[i] + n]>> \o scan[i + n]
    IN  IF n = 0 THEN <<>> ELSE scan[1]

FindAnchorMatches(doc, needle) ==
    FlattenSeq([b \in DOMAIN doc |->
        LET found == MatchesIn(doc[b], needle)
        IN  [i \in DOMAIN found |-> [block |-> b, from |-> found[i].from, to |-> found[i].to]]])

\* selectAnchorMatch; occurrence 0 stands for none given.
SelectAnchorMatch(matches, path, occurrence) ==
    LET candidates == IF path = NoPath THEN matches ELSE SelectSeq(matches, LAMBDA m : m.block = path)
    IN  IF occurrence # 0
        THEN IF occurrence <= Len(candidates)
             THEN [error |-> "none", match |-> candidates[occurrence]]
             ELSE [error |-> "anchor_text_not_found", match |-> NoPath]
        ELSE CASE Len(candidates) = 0 -> [error |-> "anchor_text_not_found", match |-> NoPath]
               [] Len(candidates) = 1 -> [error |-> "none", match |-> candidates[1]]
               [] Len(candidates) > 1 -> [error |-> "ambiguous_anchor", match |-> NoPath]

-----------------------------------------------------------------------------
(* validateExplicitCommentAnchors. An end is a record [kind, id, ids] whose *)
(* kind is "garbled" (no strict base64), "bytes" (some other encoding),    *)
(* "point" or "element"; ids is empty when the anchor has no list.         *)

Garbled(end) == end.kind = "garbled"

\* Mutant of BoardAnchor: the list need not hold the element.
BoardAnchorAnyList(end) == end.kind \in {"point", "element"}

\* parseBoardAnchor: an element's list, when there is one, holds it.
BoardAnchor(end) ==
    \/ end.kind = "point"
    \/ end.kind = "element" /\ (end.ids = {} \/ end.id \in end.ids)

ExplicitAnchors(docType, start, end) ==
    IF Garbled(start) \/ Garbled(end) THEN "invalid_anchor"
    ELSE IF docType # "board"
         THEN IF BoardAnchor(start) \/ BoardAnchor(end) THEN "board_anchor_not_allowed" ELSE "ok"
    ELSE IF ~BoardAnchor(start) \/ ~BoardAnchor(end) THEN "board_anchor_required"
    ELSE IF start # end THEN "inconsistent_anchors" ELSE "ok"

-----------------------------------------------------------------------------
\* The needle stands in the block at these positions, nothing between its characters.
Stands(block, needle, from) ==
    from + Len(needle) - 1 <= Len(block) /\ SubSeq(block, from, from + Len(needle) - 1) = needle

(* A bot's comment is pinned to text that stands there in one piece, and   *)
(* without a block or an occurrence only when it stands nowhere else; a    *)
(* text found is refused only when there is none, or a choice              *)
(* (anchorResolve.ts:89-203).                                              *)
PinnedExactly(doc, needle, path, occurrence) ==
    LET result == SelectAnchorMatch(FindAnchorMatches(doc, needle), path, occurrence)
        places == {<<b, f>> \in UNION {{b} \X DOMAIN doc[b] : b \in DOMAIN doc} :
                      Stands(doc[b], needle, f) /\ path \in {NoPath, b}}
        Apart(p, q) == p[1] # q[1] \/ p[2] + Len(needle) <= q[2] \/ q[2] + Len(needle) <= p[2]
    IN  CASE result.error = "none" ->
               /\ <<result.match.block, result.match.from>> \in places
               /\ result.match.to = result.match.from + Len(needle)
               /\ occurrence = 0 => \A p \in places : ~Apart(p, <<result.match.block, result.match.from>>)
                                                       \/ p = <<result.match.block, result.match.from>>
          [] result.error = "ambiguous_anchor" -> \E p, q \in places : p # q /\ Apart(p, q)
          [] result.error = "anchor_text_not_found" ->
               occurrence = 0 => needle = <<>> \/ places = {}

(* A pin on a board is one target whose element is among those it lists,   *)
(* and a pin elsewhere is no board's (commentAnchors.ts:75-99).            *)
PinFits(docType, start, end) ==
    ExplicitAnchors(docType, start, end) = "ok" =>
        IF docType = "board"
        THEN start = end /\ start.kind \in {"point", "element"}
             /\ (start.kind = "element" /\ start.ids # {} => start.id \in start.ids)
        ELSE "point" \notin {start.kind, end.kind}
=============================================================================
