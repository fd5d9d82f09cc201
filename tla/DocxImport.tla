----------------------------- MODULE DocxImport -----------------------------
(***************************************************************************)
(* What a Word document says (src/import/docx): the walk over its          *)
(* paragraphs and tables, and what comes back of a document that was       *)
(* written by the exporter. numbering.xml is a record for each instance;   *)
(* styles are known by their names. Left out: the bytes of pictures, links *)
(* to nowhere, formulas that cannot be read, the time budget.              *)
(***************************************************************************)
EXTENDS DocxExport, MarkdownTrip

CONSTANT MaxBlockDepth   \* MAX_BLOCK_DEPTH: deeper tables are dropped

MaxListLevel == 8

-----------------------------------------------------------------------------
(* Paragraphs.                                                             *)

IsPicture(run) == run.type = "image"
\* A displayed formula inside of text is a formula of the text.
CollectInline(runs) ==
    Map(LAMBDA r : IF r.type = "blockMath" THEN Node("inlineMath", r.attr, <<>>) ELSE r,
        SelectSeq(runs, LAMBDA r : ~IsPicture(r)))
Pictures(runs) == SelectSeq(runs, IsPicture)

\* The text that stands in runs of the paragraph itself.
ParagraphPlainText(p) ==
    Each(LAMBDA r : IF r.type = "text" /\ r.marks \cap {"link", "rellink"} = {} THEN r.attr ELSE <<>>, p.runs)
TrimmedText(chars) == SelectSeq(chars, LAMBDA c : c # "_")

IsHorizontalRule(p) ==
    LET text == TrimmedText(ParagraphPlainText(p))
    IN  (p.border /\ text = <<>>) \/ text = <<"---">>

HeadingLevel(p) == IF p.style[1] = "heading" THEN p.style[2] ELSE ""

\* Pictures follow the paragraph, which is left out when it is nothing but pictures.
MapParagraph(p) ==
    LET inline == CollectInline(p.runs)
        at == <<p.align, "0">>
        block == IF HeadingLevel(p) # "" THEN Node("heading", Append(at, HeadingLevel(p)), inline) ELSE Node("paragraph", at, inline)
    IN  IF IsHorizontalRule(p) THEN <<Node("horizontalRule", <<>>, <<>>)>>
        ELSE (IF inline # <<>> \/ Pictures(p.runs) = <<>> THEN <<block>> ELSE <<>>) \o Pictures(p.runs)

\* A displayed formula, or the first formula of a paragraph without any text.
BlockMathOf(p) ==
    LET shown == SelectSeq(p.runs, LAMBDA r : r.type = "blockMath")
        lone == SelectSeq(p.runs, LAMBDA r : r.type = "inlineMath")
        formulas == IF shown # <<>> THEN shown ELSE IF Len(lone) = Len(p.runs) THEN lone ELSE <<>>
    IN  IF formulas = <<>> \/ p.num # <<>> THEN <<>> ELSE <<Node("blockMath", formulas[1].attr, <<>>)>>

TrimLeadingBlank(inline) ==
    LET solid == {i \in DOMAIN inline : inline[i].type # "text" \/ TrimmedText(inline[i].attr) # <<>>}
    IN  IF solid = {} THEN <<>> ELSE SubSeq(inline, Min(solid), Len(inline))

\* The first text without these leading characters, and nothing of it when nothing is left.
WithoutLeading(inline, Dropped(_, _)) ==
    LET chars == inline[1].attr
        kept == {i \in DOMAIN chars : ~Dropped(chars, i)}
    IN  IF inline = <<>> \/ inline[1].type # "text" THEN inline
        ELSE IF kept = {} THEN Tail(inline)
        ELSE <<[inline[1] EXCEPT !.attr = SubSeq(chars, Min(kept), Len(chars))]>> \o Tail(inline)

StripLeadingCalloutIcon(inline) ==
    LET Icon(chars, i) == \A j \in 1..i : chars[j] = "_" \/ (j = 1 /\ chars[1] = "icon")
    IN  TrimLeadingBlank(WithoutLeading(TrimLeadingBlank(inline), Icon))

StripLeadingDetailsToggle(inline) ==
    LET Toggle(chars, i) ==
            \E t \in DOMAIN chars : /\ chars[t] = "toggle" /\ \A j \in 1..(t - 1) : chars[j] = "_"
                                    /\ \A j \in (t + 1)..i : chars[j] = "_"
    IN  WithoutLeading(inline, Toggle)

StripTaskCheckboxSpacer(inline) == WithoutLeading(inline, LAMBDA chars, i : i = 1 /\ chars[1] = "_")

-----------------------------------------------------------------------------
(* Lists: lines [level, kind, id, check, start, inline] become a tree.     *)

\* The nearest lower level that is defined, or bullets.
KindOf(instance, level) ==
    LET defined == {l \in DOMAIN instance.kinds : l <= level}
    IN  IF defined = {} THEN "bullet" ELSE instance.kinds[Max(defined)]

StartOfLevel(instance, level) ==
    IF level \in DOMAIN instance.overrides THEN instance.overrides[level]
    ELSE IF level \in DOMAIN instance.starts THEN instance.starts[level] ELSE 1

\* Task lists have no level but an indent, in steps of the exporter's.
IndentLevel(indent) == Max({0, Min({indent - 1, MaxListLevel})})

\* Instance "0" takes a paragraph out of the list that its style puts it in.
ListLineOf(p) ==
    LET level == Max({0, Min({p.num[2], MaxListLevel})})
        instance == p.num[1]
    IN  IF p.box # <<>>
        THEN <<[level |-> IndentLevel(p.box[2]), kind |-> "task", id |-> <<>>, check |-> p.box[1], start |-> 1,
                inline |-> StripTaskCheckboxSpacer(CollectInline(p.runs))]>>
        ELSE IF p.num # <<>> /\ instance.id # <<"0">>
        THEN <<[level |-> level, kind |-> KindOf(instance, level), id |-> instance.id, check |-> " ",
                start |-> StartOfLevel(instance, level), inline |-> CollectInline(p.runs)]>>
        ELSE <<>>

NewList(kind) ==
    CASE kind = "ordered" -> Node("orderedList", <<"from", 1>>, <<>>)
      [] kind = "bullet" -> Node("bulletList", <<>>, <<>>)
      [] kind = "task" -> Node("taskList", <<>>, <<>>)
NewItem(kind, check, inline) ==
    IF kind = "task" THEN Node("taskItem", <<check>>, <<Paragraph(inline)>>) ELSE Node("listItem", <<>>, <<Paragraph(inline)>>)
WithKid(node, kid) == [node EXCEPT !.kids = Append(@, kid)]

\* The tree so far: finished lists and the stack of open ones, [list, kind, level, id].
CloseList(t) ==
    LET last == Len(t.stack)
        list == t.stack[last].list
        items == t.stack[last - 1].list.kids
    IN  IF last = 1 THEN [roots |-> Append(t.roots, list), stack |-> <<>>]
        ELSE [t EXCEPT !.stack = [Front(@) EXCEPT ![last - 1].list.kids = [items EXCEPT ![Len(items)] = WithKid(@, list)]]]

\* Another kind or another instance at one level is another list.
EndsList(frame, line) ==
    frame.level = line.level /\ (frame.kind # line.kind \/ (line.id # <<>> /\ frame.id # line.id))

RECURSIVE CloseDeeper(_, _), OpenTo(_, _)
CloseDeeper(t, level) ==
    IF t.stack # <<>> /\ Last(t.stack).level > level THEN CloseDeeper(CloseList(t), level) ELSE t

\* ensurePlaceholderItem: a level that has no item of its own gets an empty one.
WithPlaceholder(frame) ==
    IF frame.list.kids # <<>> THEN frame
    ELSE [frame EXCEPT !.list = WithKid(@, NewItem(frame.kind, " ", <<>>))]

OpenTo(t, line) ==
    LET depth == Len(t.stack)
        level == IF depth = 0 THEN 0 ELSE Last(t.stack).level + 1
        frame == [list |-> NewList(line.kind), kind |-> line.kind, level |-> level, id |-> line.id]
        parents == IF depth = 0 THEN <<>> ELSE Append(Front(t.stack), WithPlaceholder(Last(t.stack)))
    IN  IF depth > 0 /\ Last(t.stack).level >= line.level THEN t
        ELSE OpenTo([t EXCEPT !.stack = Append(parents, frame)], line)

\* Mutant of AddLine: a change of the instance is not the end of a list.
AddLineByKind(t, line) ==
    LET closed == CloseDeeper(t, line.level)
        same == closed.stack # <<>> /\ Last(closed.stack).level = line.level /\ Last(closed.stack).kind # line.kind
        open == OpenTo(IF same THEN CloseList(closed) ELSE closed, line)
    IN  [open EXCEPT !.stack[Len(open.stack)].list = WithKid(@, NewItem(line.kind, line.check, line.inline))]

AddLine(t, line) ==
    LET closed == CloseDeeper(t, line.level)
        open == OpenTo(IF closed.stack # <<>> /\ EndsList(Last(closed.stack), line) THEN CloseList(closed) ELSE closed, line)
        top == Last(open.stack)
        started == top.kind = "ordered" /\ top.list.kids = <<>> /\ line.start > 1
        list == IF started THEN [top.list EXCEPT !.attr[2] = line.start] ELSE top.list
    IN  [open EXCEPT !.stack[Len(open.stack)].list = WithKid(list, NewItem(line.kind, line.check, line.inline))]

BuildList(lines) == CloseDeeper(Fold(AddLine, [roots |-> <<>>, stack |-> <<>>], lines), -1).roots

-----------------------------------------------------------------------------
(* Tables.                                                                 *)

RECURSIVE MapBlockChildren(_, _)

\* open: the cells that a continuation below would lengthen, by column, as <<row, cell>>.
MapCell(s, cell, header, depth) ==
    LET here == <<Len(s.rows) + 1, Len(s.row) + 1>>
        content == MapBlockChildren(cell.blocks, depth + 1)
        node == Node(IF header THEN "tableHeader" ELSE "tableCell", <<"spans", cell.span, 1>>,
                     IF content = <<>> THEN <<Paragraph(<<>>)>> ELSE content)
        next == [s EXCEPT !.column = @ + cell.span]
        others == {o \in s.open : o[1] # s.column}
        origin == CHOOSE o \in s.open : o[1] = s.column
    IN  CASE cell.merge = "continue" /\ others = s.open -> next
          [] cell.merge = "continue" /\ others # s.open ->
                IF origin[2] = Len(s.rows) + 1 THEN [next EXCEPT !.row[origin[3]].attr[3] = @ + 1]
                ELSE [next EXCEPT !.rows[origin[2]].kids[origin[3]].attr[3] = @ + 1]
          [] cell.merge = "restart" -> [next EXCEPT !.row = Append(@, node), !.open = others \cup {<<s.column>> \o here}]
          [] cell.merge = "none" -> [next EXCEPT !.row = Append(@, node), !.open = others]

\* A row of continuations only is no row.
MapRow(s, row, depth) ==
    LET end == Fold(LAMBDA t, cell : MapCell(t, cell, row.head, depth), [s EXCEPT !.row = <<>>, !.column = 0], row.cells)
    IN  IF end.row = <<>> THEN end ELSE [end EXCEPT !.rows = Append(@, Node("tableRow", <<>>, end.row))]

MapDocxTable(tbl, depth) ==
    LET row(i) == [tbl.rows[i] EXCEPT !.head = @ \/ (tbl.head /\ i = 1)]
        end == Fold(LAMBDA s, i : MapRow(s, row(i), depth),
                    [rows |-> <<>>, row |-> <<>>, column |-> 0, open |-> {}], [i \in DOMAIN tbl.rows |-> i])
        empty == Node("tableRow", <<>>, <<Node("tableCell", <<"spans", 1, 1>>, <<Paragraph(<<>>)>>)>>)
    IN  Node("table", <<>>, IF end.rows = <<>> THEN <<empty>> ELSE end.rows)

-----------------------------------------------------------------------------
(* Boxes: a style groups paragraphs that follow each other, markers stand  *)
(* in the content as nodes of their own until they are folded.             *)

Flush(s) ==
    LET run == s.styled
        inline(i) == CollectInline(run[i].runs)
        lines == [i \in DOMAIN run |-> ParagraphPlainText(run[i])]
        code == Fold(LAMBDA text, i : (IF i = 1 THEN <<>> ELSE Append(text, "newline")) \o lines[i], <<>>, [i \in DOMAIN run |-> i])
        kind == run[1].style
        box == CASE kind[1] = "code" -> Node("codeBlock", <<"">>, IF code = <<>> THEN <<>> ELSE <<Text(code, {})>>)
                 [] kind[1] = "quote" -> Node("blockquote", <<>>, [i \in DOMAIN run |-> Paragraph(inline(i))])
                 [] kind[1] = "callout" -> Node("callout", <<kind[2]>>,
                        [i \in DOMAIN run |-> Paragraph(IF i = 1 THEN StripLeadingCalloutIcon(inline(i)) ELSE inline(i))])
    IN  [s EXCEPT !.content = @ \o BuildList(s.lines) \o (IF run = <<>> THEN <<>> ELSE <<box>>), !.lines = <<>>, !.styled = <<>>]

Emit(s, node) ==
    IF s.stack = <<>> THEN [s EXCEPT !.out = Append(@, node)]
    ELSE [s EXCEPT !.stack[Len(s.stack)].content = Append(@, node)]

\* An end without a start is dropped, what is open at the end is closed there.
FoldMarkers(blocks, start, end, Box(_), Other(_, _)) ==
    LET Close(s) == IF s.stack = <<>> THEN s ELSE Emit([s EXCEPT !.stack = Front(@)], Box(Last(s.stack)))
        Step(s, b) ==
            CASE b.type = start -> [s EXCEPT !.stack = Append(@, [summary |-> <<>>, content |-> <<>>])]
              [] b.type = end -> Close(s)
              [] OTHER -> Other(s, b)
        open == Fold(Step, [out |-> <<>>, stack |-> <<>>], blocks)
    IN  Fold(LAMBDA s, frame : Close(s), open, open.stack).out

RECURSIVE FoldDetails(_), FoldBlockquote(_)
FoldBlockquote(blocks) ==
    LET Box(frame) == Node("blockquote", <<>>, IF frame.content = <<>> THEN OrEmpty(<<>>) ELSE FoldDetails(frame.content))
    IN  FoldMarkers(blocks, "__blockquoteStart", "__blockquoteEnd", Box, Emit)

\* The first summary after the start is the summary, another one a paragraph.
FoldDetails(blocks) ==
    LET Summary(s, b) ==
            IF b.type # "detailsSummary" THEN Emit(s, b)
            ELSE IF s.stack # <<>> /\ Last(s.stack).summary = <<>> THEN [s EXCEPT !.stack[Len(s.stack)].summary = <<b>>]
            ELSE Emit(s, Paragraph(b.kids))
        Box(frame) ==
            Node("details", <<>>,
                <<IF frame.summary = <<>> THEN Node("detailsSummary", <<>>, <<>>) ELSE frame.summary[1],
                  Node("detailsContent", <<>>, FoldBlockquote(OrEmpty(frame.content)))>>)
    IN  FoldMarkers(blocks, "__detailsStart", "__detailsEnd", Box, Summary)

-----------------------------------------------------------------------------
(* The walk. Lists and styled runs are open until something else comes.    *)

Sentinels == [quoteStart |-> "__blockquoteStart", quoteEnd |-> "__blockquoteEnd",
              detailsStart |-> "__detailsStart", detailsEnd |-> "__detailsEnd", summary |-> "detailsSummary"]
Sentinel(p) ==
    Node(Sentinels[p.style[1]], <<>>, IF p.style[1] = "summary" THEN StripLeadingDetailsToggle(CollectInline(p.runs)) ELSE <<>>)

MapParagraphChild(s, p) ==
    LET kind == p.style[1]
        flushed == Flush(s)
        styled == kind \in {"code", "callout"} \/ (kind = "quote" /\ s.quotes = 0)
        line == ListLineOf(p)
        Put(nodes) == [flushed EXCEPT !.content = @ \o nodes]
    IN  CASE BlockMathOf(p) # <<>> -> Put(BlockMathOf(p))
          [] BlockMathOf(p) = <<>> /\ kind = "codeEnd" -> IF s.styled = <<>> THEN s ELSE flushed
          [] BlockMathOf(p) = <<>> /\ kind = "quoteStart" -> [Put(<<Sentinel(p)>>) EXCEPT !.quotes = @ + 1]
          [] BlockMathOf(p) = <<>> /\ kind = "quoteEnd" -> [Put(<<Sentinel(p)>>) EXCEPT !.quotes = Max({0, @ - 1})]
          [] BlockMathOf(p) = <<>> /\ kind = "quote" /\ s.quotes > 0 -> Put(MapParagraph(p))
          [] BlockMathOf(p) = <<>> /\ styled ->
                IF s.styled # <<>> /\ s.styled[1].style = p.style THEN [s EXCEPT !.styled = Append(@, p)]
                ELSE [flushed EXCEPT !.styled = <<p>>]
          [] OTHER ->
                IF line # <<>> THEN [(IF s.styled = <<>> THEN s ELSE flushed) EXCEPT !.lines = @ \o line]
                ELSE Put(IF kind \in {"detailsStart", "detailsEnd", "summary"} THEN <<Sentinel(p)>> ELSE MapParagraph(p))

MapBlockChildren(blocks, depth) ==
    LET Child(s, b) ==
            CASE b.tag = "p" -> MapParagraphChild(s, b)
              [] b.tag = "math" -> [Flush(s) EXCEPT !.content = Append(@, Node("blockMath", b.attr, <<>>))]
              [] b.tag = "tbl" /\ depth >= MaxBlockDepth -> Flush(s)
              [] b.tag = "tbl" /\ depth < MaxBlockDepth -> [Flush(s) EXCEPT !.content = Append(@, MapDocxTable(b, depth))]
        end == Fold(Child, [content |-> <<>>, lines |-> <<>>, styled |-> <<>>, quotes |-> 0], blocks)
    IN  FoldDetails(FoldBlockquote(Flush(end).content))

WalkDocument(blocks) == OrEmpty(MapBlockChildren(blocks, 0))

-----------------------------------------------------------------------------
(* Documents that Word can carry. What is left out here is lost, or comes  *)
(* back as something else.                                                 *)

WordInline(kids) ==
    \A i \in DOMAIN kids :
        /\ kids[i].type \in {"text", "hardBreak", "inlineMath"}
        /\ kids[i].type = "text" => kids[i].attr # <<>> /\ kids[i].marks \cap {"code", "badlink"} = {}

\* Nothing but formulas is a formula of its own, nothing but glyphs of a line beside links a rule.
ReadAsRule(kids) ==
    TrimmedText(Each(LAMBDA k : IF k.type = "text" /\ k.marks \cap {"link", "rellink"} = {} THEN k.attr ELSE <<>>, kids)) = <<"---">>
ReadAsText(kids) == ~ReadAsRule(kids) /\ (kids = <<>> \/ \E i \in DOMAIN kids : kids[i].type # "inlineMath")

Merges(x, y) == x.type = y.type /\ (x.type \in {"bulletList", "taskList"} \/ (x.type = "callout" /\ x.attr = y.attr))
StandApart(kids) == \A i \in 1..(Len(kids) - 1) : ~Merges(kids[i], kids[i + 1])

RECURSIVE Carried(_, _, _)

\* An item is a paragraph and then lists, not too deep; a cell holds paragraphs, images and tables.
CarriedItem(item, depth) ==
    /\ item.kids[1].attr = Plain /\ WordInline(item.kids[1].kids) /\ StandApart(item.kids) /\ depth <= MaxLevel
    /\ \A i \in 2..Len(item.kids) : item.kids[i].type \in Lists /\ Carried(item.kids[i], "item", depth + 1)
CarriedCell(cell, depth) ==
    /\ Last(cell.kids).type # "table"
    /\ \A i \in DOMAIN cell.kids :
         cell.kids[i].type \in {"paragraph", "image", "table"} /\ Carried(cell.kids[i], "cell", depth + 1)

\* A header row is the first one, and no row consists of what rows above cover.
CarriedTable(table, depth) ==
    /\ depth < MaxBlockDepth
    /\ \A r \in DOMAIN table.kids :
         LET types == {c.type : c \in ToSet(table.kids[r].kids)}
         IN  types = {"tableCell"} \/ (r = 1 /\ types = {"tableHeader"})
    /\ \A r \in DOMAIN table.kids : \A c \in ToSet(table.kids[r].kids) : CarriedCell(c, depth)

Carried(node, place, depth) ==
    LET paragraph(kid) == kid.type = "paragraph" /\ kid.attr = Plain /\ WordInline(kid.kids)
        content(kids) == StandApart(kids) /\ \A i \in DOMAIN kids : Carried(kids[i], IF node.type = "blockquote" THEN "quote" ELSE "body", 0)
    IN  CASE node.type \in {"paragraph", "heading"} ->
                /\ node.attr[2] = "0" /\ (place # "body" /\ node.type = "paragraph" => node.attr[1] = "left")
                /\ WordInline(node.kids) /\ ReadAsText(node.kids)
          [] node.type \in Lists -> \A i \in DOMAIN node.kids : CarriedItem(node.kids[i], depth)
          [] node.type = "codeBlock" -> node.attr = <<"">> /\ Len(node.kids) <= 1
          [] node.type = "table" -> CarriedTable(node, depth)
          [] node.type = "blockquote" -> content(node.kids)
          [] node.type = "details" -> WordInline(node.kids[1].kids) /\ content(node.kids[2].kids)
          [] node.type = "callout" ->
                /\ \A i \in DOMAIN node.kids : paragraph(node.kids[i]) /\ (i > 1 => ReadAsText(node.kids[i].kids))
                /\ LET first == node.kids[1].kids IN first # <<>> /\ first[1].type = "text" => first[1].attr[1] # "_"
          [] OTHER -> node.type \in {"horizontalRule", "image", "blockMath"}

(* A document that keeps to what Word can carry comes back from export and *)
(* import as it was: lists with their nesting, numbers and checkboxes,     *)
(* quotes, details and code with their borders, cells with their spans,    *)
(* marks, formulas, alignment (document.ts:305-375, the markers that the   *)
(* exporter writes so that "any inner block stays inside").                *)
WordTripExact(doc, back) ==
    (StandApart(doc) /\ \A i \in DOMAIN doc : Carried(doc[i], "body", 0)) => back = doc

\* Not a link beside line glyphs, a table too deep or what follows the first paragraph of a
\* cell's list item.
RECURSIVE Spoken(_, _)
Spoken(node, depth) ==
    /\ node.type \in {"paragraph", "heading"} => ~ReadAsRule(node.kids)
    /\ node.type = "table" => depth < MaxBlockDepth
    /\ node.type = "listItem" => depth = 0 \/ Len(node.kids) = 1
    /\ \A kid \in ToSet(node.kids) : Spoken(kid, IF node.type = "table" THEN depth + 1 ELSE depth)

(* Whatever a document is made of, no word of it is lost on the way to     *)
(* Word and back and none changes its place, apart from those that the     *)
(* table serializer and the rule detection drop (document.ts:570-595).     *)
WordsCarried(doc, back) ==
    (\A i \in DOMAIN doc : Spoken(doc[i], 0)) => Each(WordsOf, back) = Each(WordsOf, doc)

(* A Word file of any origin becomes a document that the schema accepts:   *)
(* levels that jump, numbering that is not defined, markers that do not    *)
(* match, continued cells without a first one (document.ts:378-384,        *)
(* "malformed markers degrade gracefully"). Only an end of details right   *)
(* after the start of a quote leaves a quote that the schema refuses.      *)
WordImportLegal(blocks, doc) ==
    LET shown == SelectSeq(blocks, LAMBDA b : b.tag # "p" \/ b.style # <<"codeEnd">>)
        Is(i, style) == i \in DOMAIN shown /\ shown[i].tag = "p" /\ shown[i].style = <<style>>
    IN  (\A i \in DOMAIN shown : ~(Is(i, "quoteStart") /\ Is(i + 1, "detailsEnd")))
            => Legal(Node("doc", <<>>, doc))
=============================================================================
