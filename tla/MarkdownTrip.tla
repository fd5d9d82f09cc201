---------------------------- MODULE MarkdownTrip ----------------------------
(***************************************************************************)
(* What survives the way to Markdown and back, and what the importer may   *)
(* make of any Markdown at all (src/schema/index.ts).                      *)
(***************************************************************************)
EXTENDS MarkdownImport

-----------------------------------------------------------------------------
(* The schema's content rules.                                             *)

Block == {"paragraph", "heading", "bulletList", "orderedList", "taskList", "blockquote", "codeBlock", "horizontalRule",
          "table", "image", "fileAttachment", "bookmark", "callout", "details", "blockMath"}
Inline == {"text", "hardBreak", "inlineMath", "emoji", "mention"}

\* A node may have these kids, in this order.
ContentFits(node) ==
    LET kinds == Map(LAMBDA k : k.type, node.kids)
        All(S) == ToSet(kinds) \subseteq S
    IN  CASE node.type \in {"doc", "blockquote", "callout", "detailsContent", "tableCell", "tableHeader"} -> kinds # <<>> /\ All(Block)
          [] node.type \in {"paragraph", "heading"} -> All(Inline)
          [] node.type \in {"bulletList", "orderedList"} -> kinds # <<>> /\ All({"listItem"})
          [] node.type = "taskList" -> kinds # <<>> /\ All({"taskItem"})
          [] node.type \in {"listItem", "taskItem"} -> kinds # <<>> /\ kinds[1] = "paragraph" /\ All(Block)
          [] node.type \in {"codeBlock", "detailsSummary"} -> All({"text"})
          [] node.type = "table" -> kinds # <<>> /\ All({"tableRow"})
          [] node.type = "tableRow" -> All({"tableCell", "tableHeader"})
          [] node.type = "details" -> kinds = <<"detailsSummary", "detailsContent">>
          [] OTHER -> kinds = <<>>

RECURSIVE Legal(_)
Legal(node) == ContentFits(node) /\ \A i \in DOMAIN node.kids : Legal(node.kids[i])

-----------------------------------------------------------------------------
(* Documents that Markdown can carry. What is left out here is lost, or    *)
(* comes back as something else.                                           *)

Words == {"a", "b", "d", "e"}
Emphatic(node) == node.marks \cap {"bold", "italic", "strike"}

\* A text whose delimiters touch punctuation stands apart from words.
Apart(kids, i) ==
    LET k == kids[i]
        Touches(j) == j \in DOMAIN kids /\ kids[j].type # "hardBreak" /\
                         ~(kids[j].type = "text" /\ (IF j < i THEN Last(kids[j].attr) ELSE kids[j].attr[1]) = "_")
        edgy == "#" \in {k.attr[1], Last(k.attr)} \/ ("strike" \in k.marks /\ Emphatic(k) # {"strike"})
    IN  Emphatic(k) = {} \/ ~edgy \/ (~Touches(i - 1) /\ ~Touches(i + 1))

FaithfulText(kids, i) ==
    LET k == kids[i]
        mayEndBlank == Emphatic(k) = {} /\ \A j \in {1, Len(kids)} : j # i \/ k.marks \cap {"code", "link", "highlight", "underline"} # {}
    IN  /\ k.attr # <<>> /\ k.marks \cap {"rellink", "badlink"} = {}
        /\ "_" \in {k.attr[1], Last(k.attr)} => mayEndBlank \/
              (Emphatic(k) = {} /\ (i = 1 => k.attr[1] # "_") /\ (i = Len(kids) => Last(k.attr) # "_"))
        /\ Apart(kids, i)
        /\ ToSet(k.attr) \cap {"[ ]", "[x]", "emoji"} = {}

FaithfulInline(kids) ==
    /\ kids # <<>> => kids[1].type # "hardBreak" /\ Last(kids).type # "hardBreak"
    /\ kids # <<>> => \E i \in DOMAIN kids : kids[i].type # "text" \/ ToSet(kids[i].attr) # {"_"}
    /\ kids # <<>> => ~(kids[1].type = "text" /\ kids[1].attr = <<"#">> /\ (Len(kids) = 1 \/ kids[2].type = "hardBreak"))
    /\ \A i \in DOMAIN kids :
         /\ kids[i].type # "mention"
         /\ kids[i].type = "text" => FaithfulText(kids, i)
         /\ kids[i].type = "hardBreak" =>
              \A j \in {i - 1, i + 1} : kids[j].type = "text" => "_" \notin {kids[j].attr[1], Last(kids[j].attr)}
         /\ kids[i].type = "inlineMath" =>
              /\ kids[i].attr = <<"x">>
              /\ ~(i < Len(kids) /\ kids[i + 1].type = "text" /\ kids[i + 1].attr[1] = "1" /\ kids[i + 1].marks = {})

OneLine(kids) == \A i \in DOMAIN kids : kids[i].type # "hardBreak"
PlainText(kids) == kids = <<>> \/ (Len(kids) = 1 /\ kids[1].type = "text" /\ kids[1].marks = {}
                                     /\ "_" \notin {kids[1].attr[1], Last(kids[1].attr)})

RECURSIVE Faithful(_, _), FaithfulHtml(_)

Marker(node) == IF node.type \in {"bulletList", "taskList"} THEN "-" ELSE IF node.type = "orderedList" THEN "1." ELSE node.type
Separate(kids) == \A i \in 1..(Len(kids) - 1) : kids[i].type \notin Lists \/ Marker(kids[i]) # Marker(kids[i + 1])

\* An item is a paragraph, and then lists of different markers that start at one.
FaithfulItem(item) ==
    LET p == item.kids[1]
    IN  /\ p.type = "paragraph" /\ Faithful(p, "item") /\ p.attr = Plain
        /\ Separate(item.kids)
        /\ p.kids = <<>> /\ item.type = "listItem" => Len(item.kids) = 1
        /\ \A i \in 2..Len(item.kids) :
             item.kids[i].type \in Lists /\ Faithful(item.kids[i], "item") /\ item.kids[i].attr \in {<<>>, <<"1">>}

\* Blocks of a cell that is written as HTML: plain text in paragraphs, headings, lists, quotes.
FaithfulHtml(node) ==
    CASE node.type \in {"paragraph", "heading"} -> node.attr[1] = "left" /\ node.attr[2] = "0" /\ PlainText(node.kids)
      [] node.type \in {"bulletList", "orderedList", "listItem", "blockquote"} ->
            node.attr \in {<<>>, <<"1">>} /\ \A i \in DOMAIN node.kids : FaithfulHtml(node.kids[i])
      [] node.type = "image" -> node.attr = <<"net">>
      [] node.type = "codeBlock" -> node.attr = <<"">>
      [] node.type = "table" -> Faithful(node, "cell")
      [] OTHER -> node.type = "horizontalRule"

FaithfulTable(table) ==
    LET Cells == UNION {{<<i, j>> : j \in DOMAIN table.kids[i].kids} : i \in DOMAIN table.kids}
        At(c) == table.kids[c[1]].kids[c[2]]
    IN  IF TableNeedsHtml(table)
        THEN \A c \in Cells : /\ \A k \in DOMAIN At(c).kids : FaithfulHtml(At(c).kids[k])
                               /\ (NeedsHtml(At(c)) \/ At(c).kids[1].type = "paragraph")
        ELSE \A c \in Cells :
               /\ At(c).type = (IF c[1] = 1 THEN "tableHeader" ELSE "tableCell")
               /\ At(c).kids[1].type = "paragraph" /\ At(c).kids[1].attr = Plain
               /\ OneLine(At(c).kids[1].kids) /\ FaithfulInline(At(c).kids[1].kids)

Faithful(node, place) ==
    LET kids(inside) == Separate(node.kids) /\ \A i \in DOMAIN node.kids : Faithful(node.kids[i], inside)
    IN  CASE node.type = "paragraph" ->
                node.attr[2] = "0" /\ (node.kids = <<>> => node.attr[1] = "left") /\ FaithfulInline(node.kids)
          [] node.type = "heading" ->
                /\ node.attr[2] = "0" /\ OneLine(node.kids) /\ FaithfulInline(node.kids)
                /\ node.kids # <<>> => ~(Last(node.kids).type = "text" /\ Last(node.kids).marks = {}
                                           /\ Last(Last(node.kids).attr) = "#")
          [] node.type \in Lists -> \A i \in DOMAIN node.kids : FaithfulItem(node.kids[i])
          [] node.type = "blockquote" -> kids("quote")
          [] node.type \in {"image", "fileAttachment"} -> node.attr = <<"net">> /\ (node.type = "image" \/ place = "body")
          [] node.type = "table" -> FaithfulTable(node)
          [] node.type = "callout" -> place # "quote" /\ kids("html")
          [] node.type = "details" ->
                /\ place # "quote" /\ PlainText(node.kids[1].kids) /\ Separate(node.kids[2].kids)
                /\ \A i \in DOMAIN node.kids[2].kids : Faithful(node.kids[2].kids[i], "html")
          [] node.type \in {"codeBlock", "horizontalRule", "blockMath"} -> TRUE
          [] OTHER -> FALSE

\* A second rule would end the front matter that a rule at the start begins.
NoFrontMatter(doc) == \A i \in 2..Len(doc) : ~(doc[1].type = "horizontalRule" /\ doc[i].type = "horizontalRule")

(* A document that keeps to what Markdown can carry comes back from export *)
(* and import as it was: alignment, order, checkboxes, starts of lists,    *)
(* empty paragraphs, marks, formulas, images, merged cells and nesting     *)
(* (markdown.ts:3-6, "the strict inverse of the export serializer").       *)
RoundTripExact(doc, back) ==
    (Separate(doc) /\ NoFrontMatter(doc) /\ \A i \in DOMAIN doc : Faithful(doc[i], "body")) => back = doc

RECURSIVE WordsOf(_)
WordsOf(node) == SelectSeq(IF node.type \in {"text", "mention"} THEN node.attr ELSE <<>>, LAMBDA c : c \in Words) \o Each(WordsOf, node.kids)

RECURSIVE Holds(_, _)
Holds(node, type) == node.type = type \/ \E i \in DOMAIN node.kids : Holds(node.kids[i], type)

(* Whatever a document is made of, no word of it is lost on the way and    *)
(* none changes its place, unless front matter or an attachment swallows   *)
(* it (serialization/markdown.ts:4-6, "no node is silently dropped").      *)
WordsKept(doc, back) ==
    (NoFrontMatter(doc) /\ \A i \in DOMAIN doc : ~(doc[i].type \notin {"fileAttachment"} /\ Holds(doc[i], "fileAttachment")))
        => Each(WordsOf, back) = Each(WordsOf, doc)

\* Headings with an image or a display formula, and items that begin with one of these, with
\* no text, or with text that a rule underlines, are refused when applied.
RECURSIVE Readable(_)
Readable(c) ==
    LET Lifted(t) == t = <<"i", "net">> \/ t[1] = "d"
        begins == c.kids[1].inline
        marked == c.tok = "para" /\ c.inline # <<>> /\ c.inline[1] = <<"c", "#">>
    IN  /\ c.tok = "heading" \/ marked => \A t \in ToSet(c.inline) : ~Lifted(t)
        /\ c.tok = "item" =>
             /\ c.kids # <<>> /\ c.kids[1].tok = "para"
             /\ Len(c.kids) > 1 => c.kids[2].tok # "hr"
             /\ \E i \in DOMAIN begins : begins[i][1] \in {"c", "m", "t"} /\ ~Blank(begins[i])
                                          /\ \A j \in 1..i : ~Lifted(begins[j])
        /\ \A i \in DOMAIN c.kids : Readable(c.kids[i])

(* Markdown of any origin, apart from the shapes that the apply step       *)
(* refuses (Readable names them; the importer calls its output a document  *)
(* of the schema all the same), becomes a document the schema accepts: no  *)
(* image and no display formula inside of a paragraph or a cell's text, no *)
(* plain item among tasks, nothing empty that may not be                   *)
(* (markdown.ts:235-245, 468-496, 560-570, 727-730).                       *)
ImportLegal(chunks, doc) ==
    (\A i \in DOMAIN chunks : Readable(chunks[i])) => Legal(Node("doc", <<>>, doc))
=============================================================================
