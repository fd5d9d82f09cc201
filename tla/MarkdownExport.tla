--------------------------- MODULE MarkdownExport ---------------------------
(***************************************************************************)
(* A document written as Markdown (src/export/serialization/markdown.ts).  *)
(*                                                                         *)
(* A node is [type, attr, marks, kids]; the attr of a text is the sequence *)
(* of its characters: words, "1" for a digit, "_" for a blank, "#" for     *)
(* every block marker and "*" for markup that is shown as text. Markdown   *)
(* is a tree of chunks [tok, info, inline, kids] with inline tokens        *)
(* <<kind, what>>: "c" character, "o" and "x" opening and closing a mark,  *)
(* "b" hard break, "m" a formula between dollars, "d" one between double   *)
(* dollars on one line (which the exporter never writes), "i" an image,    *)
(* "t" a tag that Markdown does not know, "s" the sentinel of an empty     *)
(* paragraph.                                                              *)
(* Left out: wording, resolved URLs, colours and sizes of textStyle,       *)
(* `==text==`, backslashes, nesting limits.                                *)
(***************************************************************************)
EXTENDS Integers, Sequences, FiniteSets, SequencesExt

Node(type, attr, kids) == [type |-> type, attr |-> attr, marks |-> {}, kids |-> kids]
Text(chars, marks) == [type |-> "text", attr |-> chars, marks |-> marks, kids |-> <<>>]
Chunk(tok, info, inline, kids) == [tok |-> tok, info |-> info, inline |-> inline, kids |-> kids]

Plain == <<"left", "0">>
Paragraph(kids) == Node("paragraph", Plain, kids)

\* The library's folds go through the subsets of the domain; texts are too long for that.
Fold(Op(_, _), base, seq) ==
    LET upTo[i \in 0..Len(seq)] == IF i = 0 THEN base ELSE Op(upTo[i - 1], seq[i]) IN upTo[Len(seq)]
Each(Op(_), seq) == Fold(LAMBDA done, x : done \o Op(x), <<>>, seq)
Map(Op(_), seq) == Each(LAMBDA x : <<Op(x)>>, seq)
Chars(string) == Map(LAMBDA x : <<"c", x>>, string)

-----------------------------------------------------------------------------
(* Writing. Marks wrap each text by itself, the schema's first innermost.  *)

Emphasis == <<"bold", "italic", "strike">>
Outer == <<"code", "link", "rellink", "highlight", "underline">>

Wrapped(tokens, order, marks) ==
    Fold(LAMBDA t, m : IF m \in marks THEN <<<<"o", m>>>> \o t \o <<<<"x", m>>>> ELSE t, tokens, order)

\* wrapEmphasis: blanks at the ends stay outside of the delimiters.
Emphasized(chars, marks) ==
    LET solid == {i \in DOMAIN chars : chars[i] # "_"}
        first == CHOOSE i \in solid : \A j \in solid : i <= j
        last == CHOOSE i \in solid : \A j \in solid : i >= j
    IN  IF solid = {} THEN Chars(chars)
        ELSE Chars(SubSeq(chars, 1, first - 1))
                \o Wrapped(Chars(SubSeq(chars, first, last)), Emphasis, marks)
                \o Chars(SubSeq(chars, last + 1, Len(chars)))

\* A link whose scheme is refused is written as its text.
ApplyMarks(chars, marks) == Wrapped(Emphasized(chars, marks), Outer, marks)

SerializeImage(node) ==
    IF node.attr[1] = "refused" THEN Chars(<<"alt">>) ELSE <<<<"i", node.attr[1]>>>>

SerializeInlineNode(node) ==
    CASE node.type = "text" -> ApplyMarks(node.attr, node.marks)
      [] node.type = "hardBreak" -> <<<<"b", "">>>>
      [] node.type = "inlineMath" -> <<<<"m", node.attr[1]>>>>
      [] node.type = "emoji" -> Chars(<<"emoji">>)
      [] node.type = "mention" -> Chars(node.attr)

SerializeInline(nodes) == Each(SerializeInlineNode, nodes)

\* escapeLeadingBlockMarkers: only a marker with a blank after it.
Escaped(inline) ==
    LET Marks(i) ==
            /\ inline[i] = <<"c", "#">> /\ (i = 1 \/ inline[i - 1][1] = "b")
            /\ i < Len(inline) /\ inline[i + 1] \in {<<"c", "_">>, <<"b", "">>}
    IN  Map(LAMBDA i : IF Marks(i) THEN <<"c", "\\#">> ELSE inline[i], [i \in DOMAIN inline |-> i])

\* wrapAlign
WrapAlign(node, chunk) ==
    IF node.attr[2] # "0" THEN Chunk("html", <<"indented">>, <<>>, <<chunk>>)
    ELSE IF node.attr[1] # "left" THEN Chunk("html", <<"aligned", node.attr[1]>>, <<>>, <<chunk>>)
    ELSE chunk

Lists == {"bulletList", "orderedList", "taskList"}
HtmlInCell == Lists \cup {"table", "image", "codeBlock", "blockquote", "details", "callout", "horizontalRule", "blockMath"}

\* hasMergedCells, tableNeedsHtml
NeedsHtml(cell) == Len(cell.kids) > 1 \/ \E i \in DOMAIN cell.kids : cell.kids[i].type \in HtmlInCell
TableNeedsHtml(table) ==
    \E i \in DOMAIN table.kids : \E j \in DOMAIN table.kids[i].kids :
        LET cell == table.kids[i].kids[j] IN cell.attr # <<"1">> \/ NeedsHtml(cell)

RECURSIVE Flat(_)
\* A chunk on one line.
Flat(chunk) ==
    LET kids == Each(Flat, chunk.kids)
        empty == chunk.tok = "html" /\ chunk.info = <<"empty">>
        tag == IF chunk.tok = "html" /\ ~empty THEN <<<<"t", "">>>> ELSE <<>>
        marker == CASE chunk.tok \in {"heading", "quote", "item"} -> Chars(<<"#", "_">>)
                    [] chunk.tok \in {"fence", "hr", "mathpara"} -> Chars(<<"*">>)
                    [] empty -> <<<<"s", "">>>>
                    [] OTHER -> tag
        code == IF chunk.tok = "fence" THEN Chars(Tail(chunk.info)) ELSE <<>>
        line == Map(LAMBDA t : IF t[1] = "b" THEN <<"c", "_">> ELSE t, chunk.inline)
    IN  marker \o line \o code \o kids \o tag

\* Tokens as the characters a reader would see: markup becomes text.
Literal(inline) ==
    Each(LAMBDA t : CASE t[1] = "c" -> <<t[2]>>
                      [] t[1] = "b" -> <<"_">>
                      [] t[1] \in {"m", "d"} -> <<"*", t[2], "*">>
                      [] OTHER -> <<"*">>, inline)

RECURSIVE SerializeBlock(_), SerializeItem(_), BlockToHtml(_), SerializeTableHtml(_)

SerializeBlocks(nodes) == Map(SerializeBlock, nodes)

\* The words of a cell on one line; the cell of one empty paragraph is empty.
CellText(cell) ==
    IF cell.kids = <<Paragraph(<<>>)>> THEN <<>> ELSE Each(LAMBDA b : Flat(SerializeBlock(b)), cell.kids)

SerializeTable(table) ==
    IF TableNeedsHtml(table) THEN SerializeTableHtml(table)
    ELSE Chunk("table", <<>>, <<>>,
           Map(LAMBDA row : Chunk("row", <<>>, <<>>,
                 Map(LAMBDA cell : Chunk("cell", <<>>, CellText(cell), <<>>), row.kids)), table.kids))

\* A cell of the fallback holds text, or HTML of its blocks.
SerializeTableHtml(table) ==
    LET Cell(cell) == Chunk(IF cell.type = "tableHeader" THEN "th" ELSE "td", cell.attr,
                            IF NeedsHtml(cell) THEN <<>> ELSE CellText(cell),
                            IF NeedsHtml(cell) THEN Map(BlockToHtml, cell.kids) ELSE <<>>)
    IN  Chunk("html", <<"table">>, <<>>, Map(LAMBDA row : Chunk("row", <<>>, <<>>, Map(Cell, row.kids)), table.kids))

BlockToHtml(node) ==
    LET inner == Map(BlockToHtml, node.kids)
    IN  CASE node.type = "table" -> SerializeTableHtml(node)
          [] node.type = "image" /\ node.attr[1] = "refused" -> Chunk("run", <<>>, Chars(<<"alt">>), <<>>)
          [] node.type = "image" /\ node.attr[1] # "refused" -> Chunk("img", node.attr, <<>>, <<>>)
          [] node.type = "paragraph" -> Chunk("p", <<>>, SerializeInline(node.kids), <<>>)
          [] node.type = "heading" -> Chunk("h", <<node.attr[3]>>, SerializeInline(node.kids), <<>>)
          [] node.type \in {"bulletList", "taskList"} -> Chunk("ul", <<>>, <<>>, inner)
          [] node.type = "orderedList" -> Chunk("ol", <<>>, <<>>, inner)
          [] node.type \in {"listItem", "taskItem"} -> Chunk("li", <<>>, <<>>, inner)
          [] node.type = "codeBlock" -> Chunk("pre", Each(LAMBDA t : t.attr, node.kids), <<>>, <<>>)
          [] node.type = "blockquote" -> Chunk("bq", <<>>, <<>>, inner)
          [] node.type = "horizontalRule" -> Chunk("hr", <<>>, <<>>, <<>>)
          [] OTHER -> Chunk("run", <<>>, Flat(SerializeBlock(node)), <<>>)

SerializeItem(item) ==
    LET box == IF item.type # "taskItem" THEN <<>>
               ELSE Chars(<<IF item.attr = <<"x">> THEN "[x]" ELSE "[ ]", "_">>)
    IN  Chunk("item", <<>>, box, SerializeBlocks(item.kids))

\* An item that would be a bare marker is left out, unless it has a checkbox.
Bare(item) ==
    /\ item.inline = <<>> /\ Len(item.kids) < 2
    /\ \A k \in DOMAIN item.kids : \A t \in ToSet(Flat(item.kids[k])) : t = <<"c", "_">>

SerializeList(list) ==
    Chunk(IF list.type = "orderedList" THEN "ordered" ELSE "bullet", list.attr, <<>>,
          Each(LAMBDA item : IF Bare(SerializeItem(item)) THEN <<>> ELSE <<SerializeItem(item)>>, list.kids))

SerializeFileAttachment(node) ==
    IF node.attr[1] = "refused" THEN Chunk("para", <<>>, Chars(<<"name">>), <<>>)
    ELSE Chunk("html", <<"attachment", node.attr[1]>>, <<>>, <<>>)

\* Mutant of EmptyParagraph: a blank line stands for it.
BlankLine(node) == Chunk("para", <<>>, <<>>, <<>>)

\* The sentinel of an empty paragraph, which carries no attribute.
EmptyParagraph(node) == Chunk("html", <<"empty">>, <<>>, <<>>)

SerializeBlock(node) ==
    CASE node.type = "paragraph" /\ node.kids = <<>> -> EmptyParagraph(node)
      [] node.type = "paragraph" /\ node.kids # <<>> ->
            WrapAlign(node, Chunk("para", <<>>, Escaped(SerializeInline(node.kids)), <<>>))
      [] node.type = "heading" -> WrapAlign(node, Chunk("heading", <<node.attr[3]>>, SerializeInline(node.kids), <<>>))
      [] node.type \in Lists -> SerializeList(node)
      [] node.type = "blockquote" -> Chunk("quote", <<>>, <<>>, SerializeBlocks(node.kids))
      [] node.type = "codeBlock" -> Chunk("fence", node.attr \o Each(LAMBDA t : t.attr, node.kids), <<>>, <<>>)
      [] node.type = "horizontalRule" -> Chunk("hr", <<>>, <<>>, <<>>)
      [] node.type = "table" -> SerializeTable(node)
      [] node.type = "image" -> Chunk("para", <<>>, SerializeImage(node), <<>>)
      [] node.type = "fileAttachment" -> SerializeFileAttachment(node)
      [] node.type = "bookmark" -> Chunk("para", <<>>, Wrapped(Chars(<<"title">>), <<"link">>, {"link"}), <<>>)
      [] node.type = "callout" -> Chunk("html", <<"callout", node.attr[1]>>, <<>>, SerializeBlocks(node.kids))
      [] node.type = "blockMath" -> Chunk("mathpara", node.attr, <<>>, <<>>)
      [] node.type = "details" ->
            Chunk("html", <<"details">>, SerializeInline(node.kids[1].kids), SerializeBlocks(node.kids[2].kids))

ExportDoc(doc) == SerializeBlocks(doc)
=============================================================================
