----------------------------- MODULE MCMarkdown -----------------------------
(* Documents to write and Markdown or Word to read, one construct and      *)
(* what it can meet at a time: every mark alone and in pairs, between      *)
(* words and at their edges; blocks beside and inside each other; lists    *)
(* below items; cells of every content, headers and spans.                 *)
EXTENDS DocxImport

W == Text(<<"a">>, {})
W2 == Text(<<"b">>, {})
End == Text(<<"d">>, {})
Literally == Text(<<"#", "_", "b">>, {})
Br == Node("hardBreak", <<>>, <<>>)
Formula(x) == Node("inlineMath", <<x>>, <<>>)

MarkSets ==
    {{}, {"bold"}, {"italic"}, {"bold", "italic"}, {"strike"}, {"bold", "strike"}, {"code"}, {"link"},
     {"rellink"}, {"badlink"}, {"underline"}, {"bold", "underline"}, {"italic", "link"}, {"highlight", "bold"}}
CharSets == {<<"b">>, <<"_">>, <<"b", "_">>, <<"_", "b">>, <<"#">>, <<"#", "_", "b">>, <<"1">>}
Texts == {t \in {Text(c, m) : c \in CharSets, m \in MarkSets} : "code" \in t.marks => t.attr = <<"b">>}
Marked == {t \in Texts : t.marks # {}}
InlineCases ==
    {<<>>, <<W, Br, W2>>, <<W, Br, Literally>>, <<Br, W>>, <<W, Br>>, <<Text(<<"a", "_">>, {}), Br, W2>>,
     <<Text(<<"a", "_">>, {}), Text(<<"b">>, {"strike", "bold"}), Text(<<"_", "d">>, {})>>,
     <<Formula("x")>>, <<Formula("_x"), W>>, <<W, Formula("x"), Text(<<"1">>, {})>>,
     <<Formula("x"), Text(<<"1">>, {"bold"})>>, <<Node("emoji", <<>>, <<>>), W>>,
     <<W, Node("mention", <<"b">>, <<>>)>>, <<Text(<<"[x]", "_", "b">>, {})>>}
    \cup {<<t>> : t \in Texts}
    \cup {<<W, t>> : t \in Marked} \cup {<<t, End>> : t \in Marked} \cup {<<W, t, End>> : t \in Marked}
Few == {<<>>, <<W>>, <<Text(<<"b">>, {"bold"})>>, <<W, Br, W2>>, <<Literally>>}

Heading(attr, kids) == Node("heading", attr \o <<"2">>, kids)
Centered == <<"center", "0">>
Indented == <<"left", "1">>
Paragraphs ==
    {Paragraph(k) : k \in InlineCases} \cup {Node("paragraph", at, k) : at \in {Centered, Indented}, k \in Few}
Headings ==
    {Heading(at, k) : at \in {Plain, Centered, Indented}, k \in Few}
    \cup {Heading(Plain, <<Text(<<"b", "_", "#">>, {})>>)}
Divider == Node("horizontalRule", <<>>, <<>>)
Source == Node("codeBlock", <<"js">>, <<W>>)
Pic(s) == Node("image", <<s>>, <<>>)
Leaves ==
    Headings \cup {Divider, Source, Node("blockMath", <<"x">>, <<>>), Node("bookmark", <<>>, <<>>)}
    \cup {Node(t, <<s>>, <<>>) : t \in {"image", "fileAttachment"}, s \in {"net", "rel", "refused"}}

Item(kids) == Node("listItem", <<>>, kids)
Task(check, kids) == Node("taskItem", <<check>>, kids)
Bullets(kids) == Node("bulletList", <<>>, kids)
Numbers(start, kids) == Node("orderedList", <<start>>, kids)
Tasks(kids) == Node("taskList", <<>>, kids)
Simple == Bullets(<<Item(<<Paragraph(<<W2>>)>>)>>)
SimpleTask == Tasks(<<Task("x", <<Paragraph(<<W2>>)>>)>>)
Numbered(start) == Numbers(start, <<Item(<<Paragraph(<<W2>>)>>)>>)

ItemKids ==
    {<<f>> \o r :
        f \in {Paragraph(<<W>>), Paragraph(<<>>), Paragraph(<<Text(<<"b">>, {"bold"})>>),
               Node("paragraph", Centered, <<W>>), Paragraph(<<Formula("x")>>)},
        r \in {<<>>, <<Simple>>, <<Numbered("1")>>, <<Numbered("5")>>, <<SimpleTask>>, <<Paragraph(<<W2>>)>>,
               <<Divider>>, <<Node("blockMath", <<"x">>, <<>>)>>, <<Bullets(<<Item(<<Paragraph(<<>>)>>)>>), Numbered("1")>>}}
ListCases ==
    {Bullets(<<Item(k)>>) : k \in ItemKids}
    \cup {Numbers("5", <<Item(k), Item(<<Paragraph(<<End>>)>>)>>) : k \in ItemKids}
    \cup {Tasks(<<Task(c, k), Task(" ", <<Paragraph(<<End>>)>>)>>) : c \in {"x", " "}, k \in ItemKids}
    \cup {Bullets(<<Item(<<Paragraph(<<Text(<<"[x]", "_", "b">>, {})>>)>>)>>)}

CellOf(type, span, kids) == Node(type, <<span>>, kids)
RowOf(kids) == Node("tableRow", <<>>, kids)
CellBodies ==
    {<<Paragraph(<<>>)>>, <<Paragraph(<<W>>)>>, <<Paragraph(<<Text(<<"b">>, {"bold"})>>)>>,
     <<Paragraph(<<W>>), Paragraph(<<>>)>>, <<Pic("net")>>, <<Pic("refused"), Paragraph(<<W>>)>>,
     <<Bullets(<<Item(<<Paragraph(<<W>>)>>), Item(<<Paragraph(<<W2>>), Numbered("1")>>)>>)>>, <<SimpleTask>>,
     <<Heading(Plain, <<W>>), Divider>>, <<Heading(Plain, <<W>>)>>,
     <<Node("blockquote", <<>>, <<Paragraph(<<W>>)>>)>>, <<Node("codeBlock", <<"">>, <<W>>)>>,
     <<Node("callout", <<"info">>, <<Paragraph(<<W>>)>>)>>, <<Node("paragraph", Centered, <<W>>)>>,
     <<Paragraph(<<W, Br, W2>>)>>,
     <<Node("table", <<>>, <<RowOf(<<CellOf("tableHeader", "2", <<Paragraph(<<W>>)>>)>>)>>)>>}
TableCases ==
    {Node("table", <<>>,
        <<RowOf(<<CellOf(t, s, k), CellOf(t, "1", <<Paragraph(<<End>>)>>)>>),
          RowOf(<<CellOf("tableCell", "1", <<Paragraph(<<W2>>)>>), CellOf("tableCell", "1", <<Paragraph(<<>>)>>)>>)>>) :
        t \in {"tableHeader", "tableCell"}, s \in {"1", "2"}, k \in CellBodies}

Basic ==
    {Paragraph(<<W>>), Paragraph(<<>>), Divider, Source, Node("blockMath", <<"x">>, <<>>), Pic("net"),
     Node("fileAttachment", <<"net">>, <<>>), Simple, SimpleTask, Numbered("5"), Node("paragraph", Centered, <<W>>),
     Node("blockquote", <<>>, <<Paragraph(<<W>>)>>), Node("callout", <<"warn">>, <<Paragraph(<<W>>)>>),
     Heading(Plain, <<W>>)}
Pairs == {<<x>> : x \in Basic} \cup {<<x, y>> : x \in Basic, y \in Basic}
BoxCases ==
    {Node("blockquote", <<>>, s) : s \in Pairs} \cup {Node("callout", <<"warn">>, s) : s \in Pairs}
    \cup {Node("details", <<>>, <<Node("detailsSummary", <<>>, k), Node("detailsContent", <<>>, s)>>) :
            s \in Pairs, k \in {<<>>, <<W2>>, <<Text(<<"b">>, {"bold"})>>}}
Nested ==
    {Node("blockquote", <<>>, <<b>>) : b \in BoxCases} \cup {Node("callout", <<"info">>, <<b>>) : b \in BoxCases}

DocumentCases ==
    {<<b>> : b \in Paragraphs \cup Leaves \cup ListCases \cup TableCases \cup BoxCases \cup Nested}
    \cup {<<x, y>> : x \in Basic \cup Headings, y \in Basic \cup TableCases \cup Leaves}
    \cup {<<Divider, Paragraph(<<W>>), x>> : x \in Basic}

-----------------------------------------------------------------------------
(* Markdown of other authors: tokens in every place that takes inline text.*)

Char == <<"c", "a">>
Network == <<"i", "net">>
Display == <<"d", "x">>
Spans ==
    {<<>>, <<Char>>, <<Network>>, <<Char, Network, Char>>, <<<<"o", "link">>, Network, <<"x", "link">>>>,
     <<Char, <<"b", "">>, Network>>, <<<<"c", "_">>, Network, <<"c", "_">>>>, <<<<"i", "rel">>>>,
     <<<<"c", "[x]">>, <<"c", "_">>>>, <<<<"c", "[x]">>, <<"c", "_">>, Char>>,
     <<<<"c", "[ ]">>, <<"c", "_">>, Network>>, <<<<"t", "">>, Char, <<"t", "">>>>,
     <<Display>>, <<Char, Display, Char>>, <<Display, Char, Display>>, <<Display, <<"c", "_">>, Network>>,
     <<<<"o", "bold">>, Display, <<"x", "bold">>>>, <<<<"c", "[x]">>, <<"c", "_">>, Display>>}
Para(span) == Chunk("para", <<>>, span, <<>>)
HtmlCells ==
    {<<>>, <<Chunk("ul", <<>>, <<>>, <<Chunk("li", <<>>, <<>>, <<>>), Chunk("li", <<>>, <<>>, <<Chunk("p", <<>>, <<>>, <<>>)>>)>>)>>,
     <<Chunk("bq", <<>>, <<>>, <<Chunk("img", <<"rel">>, <<>>, <<>>)>>)>>, <<Chunk("img", <<"rel">>, <<>>, <<>>)>>}

MarkdownCases ==
    {<<Para(s)>> : s \in Spans} \cup {<<Chunk("heading", <<"1">>, s, <<>>)>> : s \in Spans}
    \cup {<<Chunk(k, <<"1">>, <<>>, <<Chunk("item", <<>>, <<>>, <<Para(s)>> \o r), Chunk("item", <<>>, <<>>, <<Para(u)>> \o r)>>)>> :
            k \in {"bullet", "ordered"}, s \in Spans \ {<<>>}, u \in Spans \ {<<>>},
            r \in {<<>>, <<Chunk("hr", <<>>, <<>>, <<>>)>>, <<Para(<<Network>>)>>, <<Para(<<Display>>)>>}}
    \cup {<<Chunk("table", <<>>, <<>>, <<Chunk("row", <<>>, <<>>, <<Chunk("cell", <<>>, s, <<>>), Chunk("cell", <<>>, u, <<>>)>>)>>)>> :
            s \in Spans, u \in Spans}
    \cup {<<Chunk("quote", <<>>, <<>>, <<Chunk("html", <<f, "info">>, <<>>, IF s = <<>> THEN <<>> ELSE <<Para(s)>>)>>)>> :
            s \in Spans, f \in {"callout", "details", "aligned", "other"}}
    \cup {<<Chunk("html", <<"table">>, <<>>, <<Chunk("row", <<>>, <<>>, <<Chunk("td", <<"1">>, s, k)>>)>>)>> :
            s \in {<<>>, <<Char>>}, k \in HtmlCells}

-----------------------------------------------------------------------------
(* The same documents for Word, which counts, and what is of interest to   *)
(* it alone: deep lists, rows that cells cover, lines of code.             *)

Number == ("1" :> 1) @@ ("2" :> 2) @@ ("5" :> 5)
RECURSIVE Counted(_)
Counted(node) ==
    LET attr == CASE node.type = "orderedList" -> <<"from", Number[node.attr[1]]>>
                  [] node.type \in {"tableCell", "tableHeader"} -> <<"spans", Number[node.attr[1]], 1>>
                  [] node.type = "codeBlock" -> <<"">>
                  [] OTHER -> node.attr
    IN  [node EXCEPT !.attr = attr, !.kids = Map(Counted, node.kids)]

Deep(List(_), n) == Fold(LAMBDA nested, i : <<Paragraph(<<W>>), List(nested)>>, <<Paragraph(<<W2>>)>>, [i \in 1..n |-> i])[2]
DeepLists ==
    UNION {{Deep(LAMBDA kids : Bullets(<<Item(kids)>>), n), Deep(LAMBDA kids : Tasks(<<Task("x", kids)>>), n),
            Deep(LAMBDA kids : Numbers("5", <<Item(kids), Item(<<Paragraph(<<W2>>)>>)>>), n)} : n \in 3..6}
Code(chars) == Node("codeBlock", <<"">>, IF chars = <<>> THEN <<>> ELSE <<Text(chars, {})>>)
CodeCases == {Code(c) : c \in {<<>>, <<"newline">>, <<"a", "newline", "newline", "b">>, <<"newline", "_", "a">>}}
Rule3 == Text(<<"---">>, {})
Odd ==
    {Paragraph(<<Rule3>>), Paragraph(<<Rule3, Text(<<"a">>, {"link"})>>), Heading(Plain, <<Rule3>>),
     Paragraph(<<Formula("x"), Formula("x")>>), Node("callout", <<"info">>, <<Paragraph(<<Text(<<"_", "a">>, {})>>)>>),
     Node("callout", <<"info">>, <<Paragraph(<<Br, W>>), Paragraph(<<Rule3>>)>>)}

Span(columns, rows, kids) == Node("tableCell", <<"spans", columns, rows>>, kids)
GridOf(rows) == Node("table", <<>>, Map(RowOf, rows))
Cell11(x) == Span(1, 1, <<Paragraph(<<x>>)>>)
InCell(block) == GridOf(<<<<Span(1, 1, <<Paragraph(<<W>>), block, Paragraph(<<>>)>>)>>>>)
Spanning ==
    {GridOf(<<<<Span(c, 2, <<Paragraph(<<W>>)>>), Cell11(W2)>>, <<Cell11(End)>>, <<Cell11(W), Cell11(W2)>>>>) : c \in 1..2}
    \cup {GridOf(<<<<Cell11(W), Span(c, 3, <<Paragraph(<<W2>>)>>), Cell11(W)>>, <<Cell11(End), Cell11(W)>>, <<Cell11(W), Cell11(W2)>>>>) : c \in 1..2}
    \cup {GridOf(<<<<Cell11(W), Span(1, 2, <<Paragraph(<<W2>>)>>)>>, <<Span(1, 2, <<Paragraph(<<End>>)>>)>>, <<Cell11(W2)>>>>),
          GridOf(<<<<Span(1, 2, <<Paragraph(<<W>>)>>), Span(1, 2, <<Paragraph(<<W2>>)>>)>>, <<>>, <<Cell11(End), Cell11(W)>>>>)}
    \cup {InCell(GridOf(<<<<Cell11(W2)>>>>)), InCell(InCell(GridOf(<<<<Cell11(W2)>>>>)))}

WordCases ==
    {Map(Counted, d) : d \in DocumentCases}
    \cup {<<Counted(x)>> : x \in DeepLists} \cup {<<x>> : x \in CodeCases \cup Odd \cup Spanning}
    \cup {<<x, y>> : x, y \in CodeCases \cup {Counted(Numbers(s, <<Item(<<Paragraph(<<W>>)>>)>>)) : s \in {"1", "5"}}}

-----------------------------------------------------------------------------
(* Word files of other authors: levels that jump, numbering nobody         *)
(* defined, markers in any order, cells that continue nothing.             *)

Para1 == WordParagraph(NoStyle, <<W>>)
Styled(style) == WordParagraph(style, <<Text(<<"icon", "_", "b">>, {})>>)
InList(id, kinds, level) ==
    [Para1 EXCEPT !.num = <<[id |-> id, kinds |-> kinds, starts |-> (0 :> 5), overrides |-> (2 :> 3)], level>>]
Unknown == [l \in {} |-> ""]
Markers == {BoundaryMarker(m) : m \in {"quoteStart", "quoteEnd", "detailsStart", "detailsEnd"}} \cup {Styled(<<"summary">>)}
WordElements ==
    Markers
    \cup {Styled(k) : k \in {<<"quote">>, <<"code">>, <<"callout", "info">>, <<"callout", "warn">>, <<"heading", "2">>}}
    \cup {BoundaryMarker("codeEnd"), Para1, WordParagraph(NoStyle, <<>>), WordParagraph(NoStyle, <<Pic("net")>>),
          WordParagraph(NoStyle, <<W, Pic("net"), W2>>), WordParagraph(NoStyle, <<Rule3, Pic("net")>>),
          WordParagraph(<<"code">>, <<Node("blockMath", <<"x">>, <<>>)>>), [tag |-> "math", attr |-> <<"x">>]}
    \cup {InList(<<"n", 1>>, (0 :> "ordered") @@ (2 :> "bullet"), l) : l \in {-1, 0, 1, 2, 99}}
    \cup {InList(<<"n", 2>>, (0 :> "ordered"), 0), InList(<<"n", 3>>, Unknown, 1), InList(<<"0">>, Unknown, 0)}
    \cup {[Para1 EXCEPT !.box = <<"x", i>>] : i \in {0, 3}}

OfMerge(merge, span) == [span |-> span, rows |-> 1, merge |-> merge, blocks |-> IF span = 1 THEN <<Para1>> ELSE <<>>]
AnyCell == {OfMerge(m, s) : m \in {"none", "restart", "continue"}, s \in 1..2}
WordTable(rows) == [tag |-> "tbl", head |-> TRUE, rows |-> rows]
AnyTable ==
    {WordTable(<<[head |-> FALSE, cells |-> <<a, b>>], [head |-> TRUE, cells |-> <<c>>], [head |-> FALSE, cells |-> <<d>>]>>) :
        a, b, c, d \in AnyCell} \cup {WordTable(<<>>)}

DocxCases ==
    {<<x, y, z>> : x, y, z \in WordElements} \cup {<<x>> : x \in AnyTable}
    \cup {<<v, w, x, y, z>> : v, w, x, y, z \in Markers} \cup {<<>>}
=============================================================================
