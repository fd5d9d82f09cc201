--------------------------- MODULE MarkdownImport ---------------------------
(***************************************************************************)
(* Markdown read as a document (src/import/markdown/): what CommonMark     *)
(* makes of the chunks of MarkdownExport (markdown-it, external: as far as *)
(* the exporter's output needs it), and the importer's own mapping.        *)
(***************************************************************************)
EXTENDS MarkdownExport

-----------------------------------------------------------------------------
(* The parser. Delimiters of bold and italic next to each other are one run. *)

Blank(t) == t \in {<<"c", "_">>, <<"b", "">>}
Star(t) == t[1] \in {"o", "x"} /\ t[2] \in {"bold", "italic"}
Delimiter(t) == t[1] \in {"o", "x"} /\ t[2] \in {"bold", "italic", "strike"}

Trimmed(ts) ==
    LET solid == {i \in DOMAIN ts : ~Blank(ts[i])}
    IN  IF solid = {} THEN <<>>
        ELSE SubSeq(ts, CHOOSE i \in solid : \A j \in solid : i <= j, CHOOSE i \in solid : \A j \in solid : i >= j)

\* Blanks around a hard break belong to it.
Broken(ts) ==
    LET at == {i \in DOMAIN ts : ts[i] # <<"c", "_">>
                                 \/ ~\E j \in DOMAIN ts : ts[j][1] = "b"
                                        /\ \A k \in DOMAIN ts : (i <= k /\ k < j) \/ (j < k /\ k <= i) => ts[k] = <<"c", "_">>}
    IN  Each(LAMBDA i : IF i \in at THEN <<ts[i]>> ELSE <<>>, [i \in DOMAIN ts |-> i])

\* The class of the character before (step = -1) or after (step = 1) a delimiter.
Beside(ts, i, step) ==
    LET other == {j \in DOMAIN ts : (j - i) * step > 0 /\ ~(Star(ts[i]) /\ \A k \in DOMAIN ts :
                        (k - i) * step > 0 /\ (j - k) * step >= 0 => Star(ts[k]))}
        j == CHOOSE x \in other : \A y \in other : (y - x) * step >= 0
    IN  IF other = {} \/ Blank(ts[j]) THEN "blank"
        ELSE IF ts[j][1] = "c" /\ ts[j][2] \notin {"#", "\\#", "*"} THEN "word" ELSE "mark"

Flanks(ts, i) ==
    LET inward == IF ts[i][1] = "o" THEN 1 ELSE -1
    IN  /\ Beside(ts, i, inward) # "blank"
        /\ Beside(ts, i, inward) = "word" \/ Beside(ts, i, -inward) # "word"

\* Where the mark opened at i is closed, or the other way round.
Partner(ts, i) ==
    IF ts[i][1] = "o"
    THEN CHOOSE j \in DOMAIN ts : j > i /\ ts[j] = <<"x", ts[i][2]>> /\ \A k \in i..(j - 1) : ts[k] # ts[j]
    ELSE CHOOSE j \in DOMAIN ts : j < i /\ ts[j] = <<"o", ts[i][2]>> /\ \A k \in (j + 1)..i : ts[k] # ts[j]

\* mathInlineRule: nothing blank inside the dollars, no digit after them.
MathForms(ts, i) == ts[i][2] = "x" /\ (i = Len(ts) \/ ts[i + 1] # <<"c", "1">>)

ParseInline(inline) ==
    LET ts == Broken(Trimmed(inline))
        Read(i) == CASE Delimiter(ts[i]) /\ ~(Flanks(ts, i) /\ Flanks(ts, Partner(ts, i))) -> <<<<"c", "*">>>>
                     [] ts[i][1] = "m" /\ ~MathForms(ts, i) -> Chars(<<"*", ts[i][2], "*">>)
                     [] ts[i] = <<"c", "\\#">> -> Chars(<<"#">>)
                     [] OTHER -> <<ts[i]>>
    IN  Each(Read, [i \in DOMAIN ts |-> i])

RECURSIVE ParseBlocks(_), ParseParagraph(_)

Before(ts, P(_)) == LET at == {i \in DOMAIN ts : P(ts[i])}
                    IN  IF at = {} THEN Len(ts) ELSE (CHOOSE i \in at : \A j \in at : i <= j) - 1

\* A heading is one line, and a marker at its end is no part of it.
ParseHeading(level, inline) ==
    LET n == Before(inline, LAMBDA t : t[1] = "b")
        line == Trimmed(SubSeq(inline, 1, n))
        rest == Trimmed(SubSeq(inline, n + 1, Len(inline)))
        bare == IF line # <<>> /\ Last(line) = <<"c", "#">> /\ (Len(line) = 1 \/ line[Len(line) - 1] = <<"c", "_">>)
                THEN Front(line) ELSE line
    IN  <<Chunk("heading", <<level>>, ParseInline(bare), <<>>)>> \o ParseParagraph(rest)

\* detectBlockMath: a paragraph that begins and ends with double dollars is one formula.
WholeFormula(ts) == Head(ts)[1] = "d" /\ Last(ts)[1] = "d"

ParseParagraph(inline) ==
    LET ts == Trimmed(inline)
    IN  CASE ts = <<>> -> <<>>
          [] ts # <<>> /\ ts[1] = <<"c", "#">> /\ (Len(ts) = 1 \/ Blank(ts[2])) -> ParseHeading("1", Tail(ts))
          [] ts # <<>> /\ WholeFormula(ts) -> <<Chunk("mathpara", Tail(Front(Literal(ts))), <<>>, <<>>)>>
          [] OTHER -> <<Chunk("para", <<>>, ParseInline(ts), <<>>)>>

Lines(chunk) == IF chunk.tok \in {"bullet", "ordered"} THEN Map(Flat, chunk.kids) ELSE <<Flat(chunk)>>

\* The blocks of an item have no blank line between them: text runs on, a rule underlines
\* it, a list that does not start at one does not interrupt it, and HTML takes in the rest.
RunOn(blocks, next) ==
    LET last == Last(blocks)
        joined(more) == Append(Front(blocks), [last EXCEPT !.inline = @ \o Chars(<<"_">>) \o more])
    IN  CASE blocks = <<>> -> <<next>>
          [] blocks # <<>> /\ last.tok = "html" ->
                Append(Front(blocks), Chunk("html", <<"other">>, <<>>, <<last, next>>))
          [] blocks # <<>> /\ last.tok = "para" /\ next.tok = "para" -> joined(next.inline)
          [] blocks # <<>> /\ last.tok = "para" /\ next.tok = "mathpara" -> joined(Flat(next))
          [] blocks # <<>> /\ last.tok = "para" /\ next.tok = "hr" ->
                Append(Front(blocks), Chunk("heading", <<"2">>, last.inline, <<>>))
          [] blocks # <<>> /\ last.tok = "para" /\ next.tok = "ordered" /\ next.info # <<"1">> -> joined(Flat(next))
          [] OTHER -> Append(blocks, next)

ParseItem(item) ==
    LET first == item.kids[1]
        boxed == IF item.inline = <<>> THEN first ELSE Chunk("para", <<>>, item.inline \o Flat(first), <<>>)
    IN  Chunk("item", <<>>, <<>>, ParseBlocks(Fold(RunOn, <<boxed>>, Tail(item.kids))))

\* Lists with the same marker that follow each other are one list.
Adjoin(blocks, next) ==
    IF blocks # <<>> /\ next.tok \in {"bullet", "ordered"} /\ Last(blocks).tok = next.tok
    THEN Append(Front(blocks), [Last(blocks) EXCEPT !.kids = @ \o next.kids])
    ELSE Append(blocks, next)

ParseBlock(chunk) ==
    CASE chunk.tok = "para" -> ParseParagraph(chunk.inline)
      [] chunk.tok = "heading" -> ParseHeading(chunk.info[1], chunk.inline)
      [] chunk.tok = "quote" -> <<[chunk EXCEPT !.kids = ParseBlocks(@)]>>
      [] chunk.tok \in {"bullet", "ordered"} ->
            IF chunk.kids = <<>> THEN <<>> ELSE <<[chunk EXCEPT !.kids = Map(ParseItem, @)]>>
      [] chunk.tok = "table" ->
            <<[chunk EXCEPT !.kids = Map(LAMBDA row : [row EXCEPT !.kids =
                 Map(LAMBDA cell : [cell EXCEPT !.inline = ParseInline(@)], @)], @)]>>
      [] chunk.tok = "html" /\ chunk.info[1] \in {"aligned", "callout", "details"} ->
            <<[chunk EXCEPT !.kids = ParseBlocks(@)]>>
      [] OTHER -> <<chunk>>

ParseBlocks(chunks) == Fold(Adjoin, <<>>, Each(ParseBlock, chunks))

-----------------------------------------------------------------------------
(* The importer.                                                           *)

\* stripFrontMatter: from a rule that begins the file to the next one.
StripFrontMatter(chunks) ==
    LET rules == {i \in DOMAIN chunks : chunks[i].tok = "hr"}
        next == CHOOSE i \in rules \ {1} : \A j \in rules \ {1} : i <= j
    IN  IF 1 \in rules /\ rules # {1} THEN SubSeq(chunks, next + 1, Len(chunks)) ELSE chunks

\* isSafeHref makes an address relative to nothing one of safe.local.
MarkFor(m) == IF m = "rellink" THEN "movedlink" ELSE m

\* popMark: the innermost of its kind.
Popped(stack, m) ==
    LET at == {i \in DOMAIN stack : stack[i] = m}
    IN  IF at = {} THEN stack ELSE RemoveAt(stack, CHOOSE i \in at : \A j \in at : i >= j)

\* mapImage: only an image of the network is kept.
MapImage(src, marks) == IF src = "net" THEN Node("image", <<src>>, <<>>) ELSE Text(<<"missing">>, marks)

\* ProseMirror joins adjacent texts with the same marks.
Push(nodes, node) ==
    IF nodes # <<>> /\ node.type = "text" /\ Last(nodes).type = "text" /\ Last(nodes).marks = node.marks
    THEN Append(Front(nodes), [Last(nodes) EXCEPT !.attr = @ \o node.attr])
    ELSE Append(nodes, node)

\* mapInline, with parseInlineHtml: one stack for the marks of Markdown and of HTML.
MapInline(tokens) ==
    LET Step(s, t) ==
            LET marks == ToSet(s.stack)
            IN  CASE t[1] = "c" /\ t[2] = "emoji" /\ "code" \notin marks ->
                        [s EXCEPT !.out = Push(@, Node("emoji", <<>>, <<>>))]
                  [] t[1] = "c" /\ ~(t[2] = "emoji" /\ "code" \notin marks) ->
                        [s EXCEPT !.out = Push(@, Text(<<t[2]>>, marks))]
                  [] t[1] = "b" -> [s EXCEPT !.out = Push(@, Node("hardBreak", <<>>, <<>>))]
                  [] t[1] = "m" -> [s EXCEPT !.out = Push(@, Node("inlineMath", <<t[2]>>, <<>>))]
                  [] t[1] = "d" -> [s EXCEPT !.out = Push(@, Node("blockMath", <<t[2]>>, <<>>))]
                  [] t[1] = "i" -> [s EXCEPT !.out = Push(@, MapImage(t[2], marks))]
                  [] t[1] = "t" -> [s EXCEPT !.out = Push(@, Text(<<"*">>, marks))]
                  [] t[1] = "s" -> s
                  [] t[1] = "o" -> [s EXCEPT !.stack = Append(@, MarkFor(t[2]))]
                  [] t[1] = "x" -> [s EXCEPT !.stack = Popped(@, MarkFor(t[2]))]
    IN  Fold(Step, [out |-> <<>>, stack |-> <<>>], tokens).out

\* Mutant of BlocksFromInline: a formula between double dollars stays in its paragraph.
BlocksFromImages(nodes) ==
    LET Flushed(run) ==
            IF \A i \in DOMAIN run : run[i].type = "text" /\ ToSet(run[i].attr) \subseteq {"_"} THEN <<>> ELSE <<Paragraph(run)>>
        Step(s, n) == IF n.type = "image" THEN [out |-> s.out \o Flushed(s.run) \o <<n>>, run |-> <<>>]
                      ELSE [s EXCEPT !.run = Append(@, n)]
        end == Fold(Step, [out |-> <<>>, run |-> <<>>], nodes)
    IN  end.out \o Flushed(end.run)

\* blocksFromInline: an image or a display formula is a block of its own, and blanks around
\* it are nothing.
BlocksFromInline(nodes) ==
    LET Flushed(run) ==
            IF \A i \in DOMAIN run : run[i].type = "text" /\ ToSet(run[i].attr) \subseteq {"_"} THEN <<>> ELSE <<Paragraph(run)>>
        Step(s, n) == IF n.type \in {"image", "blockMath"} THEN [out |-> s.out \o Flushed(s.run) \o <<n>>, run |-> <<>>]
                      ELSE [s EXCEPT !.run = Append(@, n)]
        end == Fold(Step, [out |-> <<>>, run |-> <<>>], nodes)
    IN  end.out \o Flushed(end.run)

OrEmpty(blocks) == IF blocks = <<>> THEN <<Paragraph(<<>>)>> ELSE blocks

\* extractTask: a checkbox with a blank after it at the start of the first paragraph.
IsTask(blocks) ==
    /\ blocks # <<>> /\ blocks[1].type = "paragraph" /\ blocks[1].kids # <<>>
    /\ LET t == blocks[1].kids[1]
       IN  t.type = "text" /\ Len(t.attr) > 1 /\ t.attr[1] \in {"[ ]", "[x]"} /\ t.attr[2] = "_"

ExtractTask(blocks) ==
    LET t == blocks[1].kids[1]
        solid == {i \in DOMAIN t.attr : i > 1 /\ t.attr[i] # "_"}
        rest == IF solid = {} THEN <<>> ELSE SubSeq(t.attr, CHOOSE i \in solid : \A j \in solid : i <= j, Len(t.attr))
    IN  IF ~IsTask(blocks) THEN Node("taskItem", <<" ">>, blocks)
        ELSE Node("taskItem", <<IF t.attr[1] = "[x]" THEN "x" ELSE " ">>,
                  <<Paragraph((IF rest = <<>> THEN <<>> ELSE <<[t EXCEPT !.attr = rest]>>) \o Tail(blocks[1].kids))>>
                     \o Tail(blocks))

\* Mutant of TakeList: an item without a checkbox stays a plain item among tasks.
TakeListMixed(list, items) ==
    IF \E i \in DOMAIN items : IsTask(items[i])
    THEN Node("taskList", <<>>, Map(LAMBDA item :
            IF IsTask(item) THEN ExtractTask(item) ELSE Node("listItem", <<>>, OrEmpty(item)), items))
    ELSE Node(IF list.tok = "ordered" THEN "orderedList" ELSE "bulletList", list.info,
              Map(LAMBDA item : Node("listItem", <<>>, OrEmpty(item)), items))

\* takeList: one checkbox makes all items tasks.
TakeList(list, items) ==
    IF \E i \in DOMAIN items : IsTask(items[i])
    THEN Node("taskList", <<>>, Map(LAMBDA item : ExtractTask(OrEmpty(item)), items))
    ELSE Node(IF list.tok = "ordered" THEN "orderedList" ELSE "bulletList", list.info,
              Map(LAMBDA item : Node("listItem", <<>>, OrEmpty(item)), items))

\* mapTable: the first row is the header.
MapTable(chunk) ==
    LET Cell(type, c) == Node(type, <<"1">>, OrEmpty(BlocksFromInline(MapInline(c.inline))))
        Row(type, row) == Node("tableRow", <<>>, Map(LAMBDA c : Cell(type, c), row.kids))
    IN  Node("table", <<>>, <<Row("tableHeader", chunk.kids[1])>> \o Map(LAMBDA row : Row("tableCell", row), Tail(chunk.kids)))

\* The text of a line that is not understood, without the blanks at its ends.
TextOf(inline) == LET t == Literal(Trimmed(inline)) IN IF t = <<>> THEN <<>> ELSE <<Text(t, {})>>
TextParagraph(inline) == IF TextOf(inline) = <<>> THEN <<>> ELSE <<Paragraph(TextOf(inline))>>

RECURSIVE DomTable(_), DomBlock(_)

\* domCellToBlocks
DomCell(el) == TextParagraph(el.inline) \o Each(DomBlock, el.kids)

\* domTableToNode
DomTable(el) ==
    LET Cell(c) == Node(IF c.tok = "th" THEN "tableHeader" ELSE "tableCell", c.info, OrEmpty(DomCell(c)))
    IN  Node("table", <<>>, Map(LAMBDA row : Node("tableRow", <<>>, Map(Cell, row.kids)), el.kids))

DomBlock(el) ==
    LET text == Literal(el.inline)
        inline == IF text = <<>> THEN <<>> ELSE <<Text(text, {})>>
    IN  CASE el.tok = "html" -> <<DomTable(el)>>
          [] el.tok = "img" -> IF el.info[1] = "net" THEN <<Node("image", el.info, <<>>)>> ELSE <<>>
          [] el.tok = "p" -> <<Paragraph(inline)>>
          [] el.tok = "h" -> <<Node("heading", Plain \o el.info, inline)>>
          [] el.tok \in {"ul", "ol"} ->
                <<Node(IF el.tok = "ol" THEN "orderedList" ELSE "bulletList", IF el.tok = "ol" THEN <<"1">> ELSE <<>>,
                       Map(LAMBDA li : Node("listItem", <<>>, OrEmpty(DomCell(li))), el.kids))>>
          [] el.tok = "pre" -> <<Node("codeBlock", <<"">>, IF el.info = <<>> THEN <<>> ELSE <<Text(el.info, {})>>)>>
          [] el.tok = "bq" -> <<Node("blockquote", <<>>, OrEmpty(DomCell(el)))>>
          [] el.tok = "hr" -> <<Node("horizontalRule", <<>>, <<>>)>>
          [] el.tok = "run" -> TextParagraph(el.inline)

RECURSIVE Attached(_), MapBlockTokens(_, _)

\* The first attachment in a piece of HTML.
Attached(chunk) ==
    IF chunk.tok = "html" /\ chunk.info[1] = "attachment" THEN <<chunk>> ELSE Each(Attached, chunk.kids)

\* Mutant of Stamp: a heading's alignment is not put back.
StampParagraph(block, align) == IF block.type = "paragraph" THEN [block EXCEPT !.attr[1] = align] ELSE block

Stamp(block, align) == IF block.type \in {"paragraph", "heading"} THEN [block EXCEPT !.attr[1] = align] ELSE block

\* tryAssembleHtmlBlock: the body of a callout or of details is cut out of the source again,
\* with the marker of every quotation around it.
Reread(chunk, quoted) ==
    IF quoted = 0 THEN chunk.kids
    ELSE Fold(LAMBDA kids, i : <<Chunk("quote", <<>>, <<>>, kids)>>, chunk.kids, [i \in 1..quoted |-> i])

\* parseHtmlBlock
ParseHtmlBlock(chunk, quoted) ==
    LET form == chunk.info[1]
        body == OrEmpty(MapBlockTokens(Reread(chunk, quoted), 0))
        src == Attached(chunk)[1].info[2]
    IN  CASE form = "empty" -> <<Paragraph(<<>>)>>
          [] form # "empty" /\ Attached(chunk) # <<>> ->
                <<Node("fileAttachment", <<IF src = "rel" THEN "moved" ELSE src>>, <<>>)>>
          [] form = "callout" /\ Attached(chunk) = <<>> -> <<Node("callout", <<chunk.info[2]>>, body)>>
          [] form = "details" /\ Attached(chunk) = <<>> ->
                <<Node("details", <<>>, <<Node("detailsSummary", <<>>, TextOf(chunk.inline)), Node("detailsContent", <<>>, body)>>)>>
          [] form = "table" /\ Attached(chunk) = <<>> -> <<DomTable(chunk)>>
          [] form = "aligned" ->
                Map(LAMBDA block : Stamp(block, chunk.info[2]), OrEmpty(MapBlockTokens(chunk.kids, 0)))
          [] form = "indented" -> TextParagraph(Flat(chunk))
          [] form = "other" -> Each(TextParagraph, Each(Lines, chunk.kids))

\* mapBlockTokens
MapBlockTokens(chunks, quoted) ==
    LET MapChunk(c) ==
          CASE c.tok = "para" -> BlocksFromInline(MapInline(c.inline))
            [] c.tok = "heading" -> <<Node("heading", Plain \o c.info, MapInline(c.inline))>>
            [] c.tok \in {"bullet", "ordered"} ->
                  <<TakeList(c, Map(LAMBDA item : MapBlockTokens(item.kids, quoted), c.kids))>>
            [] c.tok = "quote" -> <<Node("blockquote", <<>>, OrEmpty(MapBlockTokens(c.kids, quoted + 1)))>>
            [] c.tok = "fence" ->
                  <<Node("codeBlock", <<c.info[1]>>, IF Len(c.info) = 1 THEN <<>> ELSE <<Text(Tail(c.info), {})>>)>>
            [] c.tok = "hr" -> <<Node("horizontalRule", <<>>, <<>>)>>
            [] c.tok = "table" -> <<MapTable(c)>>
            [] c.tok = "mathpara" -> <<Node("blockMath", c.info, <<>>)>>
            [] c.tok = "html" -> ParseHtmlBlock(c, quoted)
    IN  Each(MapChunk, chunks)

ImportDoc(chunks) == OrEmpty(MapBlockTokens(ParseBlocks(StripFrontMatter(chunks)), 0))
=============================================================================
