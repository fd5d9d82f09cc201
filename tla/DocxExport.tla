----------------------------- MODULE DocxExport -----------------------------
(***************************************************************************)
(* A document written for Word (src/export/serialization/docx): a flat     *)
(* sequence of paragraphs, which only styles, numbering and markers tie    *)
(* together, and tables. Nodes are those of MarkdownExport, but the attr   *)
(* of an ordered list is <<"from", start>>, that of a cell <<"spans",      *)
(* columns, rows>>; the character "---" stands for a run of line glyphs,   *)
(* "newline" for the end of a line of code, "icon" and "toggle" for the    *)
(* glyphs of callouts and details. A paragraph is [tag, style, num, box,   *)
(* align, border, runs]: num is empty or <<numbering, level>>, box is      *)
(* empty or <<check, indent>>. Left out: fonts, sizes, colours, widths,    *)
(* spans beyond MAX_SPAN, and images whose bytes are missing.              *)
(***************************************************************************)
EXTENDS MarkdownExport, TLC

WordParagraph(style, runs) ==
    [tag |-> "p", style |-> style, num |-> <<>>, box |-> <<>>, align |-> "left", border |-> FALSE, runs |-> runs]
BoundaryMarker(style) == WordParagraph(<<style>>, <<>>)
NoStyle == <<"">>

EachAt(Op(_), seq) == Each(Op, [i \in DOMAIN seq |-> i])

-----------------------------------------------------------------------------
(* Runs: what a paragraph says.                                            *)

\* A link whose scheme is refused loses its mark, code is a font.
RunMarks(marks) == marks \ {"badlink", "code"}

\* An image among text is its alternative text, a box gives what it holds, a rule, a formula
\* of its own and a file give nothing.
RECURSIVE ConvertInlineContent(_)
ConvertInlineContent(nodes) ==
    LET Run(node) ==
          CASE node.type = "text" -> <<Text(node.attr, RunMarks(node.marks))>>
            [] node.type \in {"hardBreak", "inlineMath"} -> <<node>>
            [] node.type = "mention" -> <<Text(node.attr, {"bold"})>>
            [] node.type = "emoji" -> <<Text(<<"emoji">>, {})>>
            [] node.type = "image" -> <<Text(<<"alt">>, {"italic"})>>
            [] OTHER -> ConvertInlineContent(node.kids)
    IN  Each(Run, nodes)

IconPrefix == <<Text(<<"icon">>, {"bold"}), Text(<<"_">>, {"bold"})>>

-----------------------------------------------------------------------------
(* Numbering. Every ordered list has an instance of its own, told apart by *)
(* the list's place in the document; bullets share one.                    *)

MaxLevel == 4

\* What numbering.xml says of an instance: kinds and starts of levels, and starts that override.
Instance(id, kind, level, start) ==
    LET starts == [l \in 0..MaxLevel |-> IF l = level THEN start ELSE 1]
    IN  [id |-> id, kinds |-> [l \in 0..MaxLevel |-> kind], starts |-> starts, overrides |-> (0 :> starts[0])]

Bulleted == Instance(<<"bullets">>, "bullet", 0, 1)

\* Mutant of GetOrderedListNumbering: ordered lists of one start share an instance.
SharedNumbering(list, place, depth) == Instance(<<"numbers">>, "ordered", Min({depth, MaxLevel}), list.attr[2])

GetOrderedListNumbering(list, place, depth) ==
    Instance(<<"numbers", place>>, "ordered", Min({depth, MaxLevel}), list.attr[2])

-----------------------------------------------------------------------------
(* Tables.                                                                 *)

RECURSIVE ConvertTable(_), ConvertBlock(_, _, _)

\* Lists in a cell become lines of text, of which an item's further blocks are no part.
ConvertCellContent(nodes) ==
    LET Line(item, prefix) == WordParagraph(NoStyle, <<Text(prefix, {})>> \o ConvertInlineContent(item.kids[1].kids))
        Content(node) ==
          CASE node.type = "paragraph" -> <<WordParagraph(NoStyle, ConvertInlineContent(node.kids))>>
            [] node.type = "image" -> <<WordParagraph(NoStyle, <<node>>)>>
            [] node.type = "table" -> <<ConvertTable(node)>>
            [] node.type \in {"bulletList", "orderedList"} ->
                  Map(LAMBDA item : Line(item, IF node.type = "orderedList" THEN <<"1", ".", "_">> ELSE <<"*", "_">>), node.kids)
            [] OTHER -> LET runs == ConvertInlineContent(node.kids)
                        IN  IF runs = <<>> THEN <<>> ELSE <<WordParagraph(NoStyle, runs)>>
    IN  Each(Content, nodes)

ConvertTableCell(cell) ==
    LET children == ConvertCellContent(cell.kids)
        filled == IF children = <<>> \/ Last(children).tag = "tbl"
                  THEN Append(children, WordParagraph(NoStyle, <<>>)) ELSE children
    IN  [span |-> cell.attr[2], rows |-> cell.attr[3], merge |-> IF cell.attr[3] > 1 THEN "restart" ELSE "none",
         blocks |-> filled]

\* The library continues a cell of several rows in the next row, before the cell at its column.
Continued(cells, above) ==
    LET ColumnOf(row, i) == Fold(LAMBDA sum, c : sum + c.span, 0, SubSeq(row, 1, i - 1))
        Add(row, i) ==
            LET cell == [above[i] EXCEPT !.rows = @ - 1, !.merge = "continue", !.blocks = <<>>]
                later == {k \in DOMAIN row : ColumnOf(row, k) + row[k].span > ColumnOf(above, i)}
            IN  IF above[i].rows = 1 THEN row
                ELSE IF later = {} THEN Append(row, cell) ELSE InsertAt(row, Min(later), cell)
    IN  Fold(Add, cells, [i \in DOMAIN above |-> i])

\* Mutant of ConvertTable: a cell of several rows is written once.
ConvertTableOnce(table) ==
    [tag |-> "tbl", head |-> FALSE,
     rows |-> EachAt(LAMBDA i : <<[head |-> i = 1 /\ \E c \in ToSet(table.kids[i].kids) : c.type = "tableHeader",
                                    cells |-> Map(ConvertTableCell, table.kids[i].kids)]>>, table.kids)]

ConvertTable(table) ==
    LET Row(rows, row) ==
            LET own == Map(ConvertTableCell, row.kids)
            IN  Append(rows, [head |-> rows = <<>> /\ \E c \in ToSet(row.kids) : c.type = "tableHeader",
                              cells |-> IF rows = <<>> THEN own ELSE Continued(own, Last(rows).cells)])
    IN  [tag |-> "tbl", head |-> FALSE, rows |-> Fold(Row, <<>>, table.kids)]

-----------------------------------------------------------------------------
(* Lists.                                                                  *)

RECURSIVE ConvertList(_, _, _, _), ConvertTaskList(_, _, _)

ConvertNestedList(list, depth, place) ==
    CASE list.type = "orderedList" -> ConvertList(list, GetOrderedListNumbering(list, place, depth), depth, place)
      [] list.type = "bulletList" -> ConvertList(list, Bulleted, depth, place)
      [] list.type = "taskList" -> ConvertTaskList(list, depth, place)

\* Only a paragraph and a formula can carry the item's number.
NumberedFirstBlock(block, numbering, depth, place) ==
    LET Numbered(runs) == <<[WordParagraph(NoStyle, runs) EXCEPT !.num = <<numbering, Min({depth, MaxLevel})>>]>>
    IN  CASE block.type = "paragraph" -> Numbered(ConvertInlineContent(block.kids))
          [] block.type = "blockMath" -> Numbered(<<block>>)
          [] OTHER -> ConvertBlock(block, depth, place)

ConvertItem(item, depth, place, First(_)) ==
    EachAt(LAMBDA i : LET block == item.kids[i]
                          here == Append(place, i)
                      IN  IF block.type \in Lists THEN ConvertNestedList(block, depth + 1, here)
                          ELSE IF i = 1 THEN First(block) ELSE ConvertBlock(block, depth, here),
           item.kids)

ConvertList(list, numbering, depth, place) ==
    EachAt(LAMBDA n : ConvertItem(list.kids[n], depth, Append(place, n),
                        LAMBDA block : NumberedFirstBlock(block, numbering, depth, place)), list.kids)

\* A checkbox, a blank and the text, indented by the depth; no numbering.
ConvertTaskList(list, depth, place) ==
    LET Check(item, block) ==
            <<[WordParagraph(NoStyle, <<Text(<<"_">>, {})>> \o ConvertInlineContent(block.kids))
                EXCEPT !.box = <<item.attr[1], Min({depth, MaxLevel}) + 1>>]>>
    IN  EachAt(LAMBDA n : ConvertItem(list.kids[n], depth, Append(place, n),
                            LAMBDA block : Check(list.kids[n], block)), list.kids)

-----------------------------------------------------------------------------
(* Boxes, between markers or under a style.                                *)

\* Mutant of ConvertBlockquote: only its paragraphs are marked, by their style.
ConvertBlockquoteByStyle(quote, place) ==
    EachAt(LAMBDA i : IF quote.kids[i].type = "paragraph"
                      THEN <<WordParagraph(<<"quote">>, ConvertInlineContent(quote.kids[i].kids))>>
                      ELSE ConvertBlock(quote.kids[i], 0, Append(place, i)), quote.kids)

ConvertBlockquote(quote, place) ==
    <<BoundaryMarker("quoteStart")>>
    \o EachAt(LAMBDA i : IF quote.kids[i].type = "paragraph"
                         THEN <<WordParagraph(<<"quote">>, ConvertInlineContent(quote.kids[i].kids))>>
                         ELSE ConvertBlock(quote.kids[i], 0, Append(place, i)), quote.kids)
    \o <<BoundaryMarker("quoteEnd")>>

\* A paragraph for each line, and the end.
CodeLines(code) ==
    LET Split(lines, c) ==
            IF c = "newline" THEN Append(lines, <<>>) ELSE Append(Front(lines), Append(Last(lines), c))
        Line(chars) == WordParagraph(<<"code">>, IF chars = <<>> THEN <<>> ELSE <<Text(chars, {})>>)
    IN  Map(Line, Fold(Split, <<<<>>>>, Each(LAMBDA text : text.attr, code.kids)))

\* Mutant of ConvertCodeBlock: nothing marks its end.
ConvertCodeBlockOpen(code) == CodeLines(code)

ConvertCodeBlock(code) == Append(CodeLines(code), BoundaryMarker("codeEnd"))

\* Other blocks leave the callout, and nothing marks its end.
ConvertCallout(callout, place) ==
    EachAt(LAMBDA i : IF callout.kids[i].type = "paragraph"
                      THEN <<WordParagraph(<<"callout", callout.attr[1]>>,
                                (IF i = 1 THEN IconPrefix ELSE <<>>) \o ConvertInlineContent(callout.kids[i].kids))>>
                      ELSE ConvertBlock(callout.kids[i], 0, Append(place, i)), callout.kids)

ConvertDetails(details, place) ==
    <<BoundaryMarker("detailsStart"),
      WordParagraph(<<"summary">>, <<Text(<<"toggle", "_">>, {"bold"})>> \o ConvertInlineContent(details.kids[1].kids))>>
    \o EachAt(LAMBDA i : ConvertBlock(details.kids[2].kids[i], 0, Append(place, i)), details.kids[2].kids)
    \o <<BoundaryMarker("detailsEnd")>>

\* A file or a bookmark is a link to it.
ConvertBlock(node, depth, place) ==
    LET Aligned(style) == <<[WordParagraph(style, ConvertInlineContent(node.kids)) EXCEPT !.align = node.attr[1]]>>
    IN  CASE node.type = "paragraph" -> Aligned(NoStyle)
          [] node.type = "heading" -> Aligned(<<"heading", node.attr[3]>>)
          [] node.type \in Lists -> ConvertNestedList(node, depth, place)
          [] node.type = "blockquote" -> ConvertBlockquote(node, place)
          [] node.type = "codeBlock" -> ConvertCodeBlock(node)
          [] node.type = "horizontalRule" -> <<[WordParagraph(NoStyle, <<>>) EXCEPT !.border = TRUE]>>
          [] node.type = "table" -> <<ConvertTable(node)>>
          [] node.type \in {"image", "blockMath"} -> <<WordParagraph(NoStyle, <<node>>)>>
          [] node.type \in {"fileAttachment", "bookmark"} ->
                <<WordParagraph(NoStyle, Tail(IconPrefix) \o <<Text(<<"name">>, {"link"})>>)>>
          [] node.type = "callout" -> ConvertCallout(node, place)
          [] node.type = "details" -> ConvertDetails(node, place)

ConvertBlocks(nodes) == EachAt(LAMBDA i : ConvertBlock(nodes[i], 0, <<i>>), nodes)
=============================================================================
