----------------------------- MODULE MCContents -----------------------------
(* Small instances of what is done to the contents of documents: boards    *)
(* repaired and sheets edited by several at a time, and, as calculations,  *)
(* batches on a body, anchors of comments, the sources of decks, Markdown  *)
(* and Word. `part` says which a behaviour is about, `input` what is       *)
(* calculated; the others rest.                                            *)
EXTENDS BoardRepair, SheetEdit, BodyEdit, AnchorResolve, PptSource, MCMarkdown, TLC

CONSTANTS f1, sheet2, perm1, perm2, ann, bob, id1, id2

VARIABLES part, input

-----------------------------------------------------------------------------
(* Boards: elements without a valid index, dangling references, halves of  *)
(* images.                                                                 *)

TwoIds == 1..2
OneFile == {f1}

Shape(ref, index) == [type |-> "shape", deleted |-> FALSE, ref |-> ref, file |-> Nothing, index |-> index]
Picture(ref, index) == [type |-> "image", deleted |-> FALSE, ref |-> ref, file |-> f1, index |-> index]
Alien == [type |-> "unknown", deleted |-> FALSE, ref |-> Nothing, file |-> Nothing, index |-> Nothing]

Some == {Shape(1, 0), Shape(2, Nothing), Picture(Nothing, 0), Picture(1, Nothing), Alien}
Legacy == [els : [TwoIds -> Some \cup {Absent}], files : SUBSET OneFile]
EmptyBoard == [els |-> [i \in TwoIds |-> Absent], files |-> {}]

-----------------------------------------------------------------------------
(* Sheets: two cells that read the same place, one above, one elsewhere.   *)

Key(on, s, at) == [on |-> on, sheet |-> s, at |-> at]
Here(on, at) == Key(on, DefaultSheet, at)
Elsewhere == Key("cells", sheet2, <<0, 0, 0>>)
GridCells == {Here("cells", <<0, 0, 0>>), Here("cells", <<1, 1, 0>>), Here("cells", <<1, 1, 1>>), Elsewhere}
Column == Here("dims", <<"c", 1>>)
Inverted == Here("merges", <<1, 0, 0, 1>>)
AllKeys == GridCells \cup
    {Column, Key("dims", NoSheet, <<"r", 0>>), Here("merges", <<0, 0, 1, 1>>), Inverted,
     Here("tabs", <<>>), Key("tabs", sheet2, <<>>), Key("tabs", Reserved, <<>>),
     Key("cells", NoSheet, <<0, 0, 0>>), Here("links", <<"l">>), Here("drawings", <<"d">>)}

SomeBatches ==
    {[k \in {x} |-> v] : x \in AllKeys, v \in {"good", "bad", "gone"}}
    \cup {[k \in {Here("cells", <<0, 0, 0>>), y} |-> "good"] : y \in AllKeys}
    \cup {[k \in {Here("tabs", <<>>), Here("links", <<"l">>)} |-> "good"]}
    \cup {[k \in GridCells |-> "good"], NoBatch, [k \in {Column} |-> "odd"]}
SomeBrowserKeys == {Here("cells", <<0, 0, 0>>), Here("cells", <<1, 1, 0>>), Here("drawings", <<"d">>)}

Rule(s, obj, perm, kind, ranges) ==
    [sheet |-> s, object |-> obj, permission |-> perm, kind |-> kind, ranges |-> ranges]
Corner == <<0, 0, 0, 0>>
Lower == Rule(DefaultSheet, TRUE, perm2, "range", {<<1, 1, 2, 2>>})
AllRules ==
    {Rule(DefaultSheet, TRUE, perm2, "range", r) :
        r \in {{}, {Junk}, {Junk, Corner}, {<<1, 1, 0, 0>>}, {<<-2, 0, -1, 1>>}}}
    \cup {Lower, Rule(DefaultSheet, TRUE, perm1, "range", {Junk, Corner}),
          Rule(DefaultSheet, TRUE, perm2, "worksheet", {}), Rule(sheet2, TRUE, perm1, "worksheet", {}),
          Rule(NoSheet, TRUE, perm2, "range", {Corner}), Rule(NoSheet, FALSE, perm1, "range", {Corner}),
          Rule(sheet2, FALSE, perm1, "range", {Corner}), Rule(sheet2, TRUE, NoOne, "range", {Corner})}
SomeRuleSets == {{}} \cup {{r} : r \in AllRules} \cup {{r, Lower} : r \in AllRules}
OneGrant == [x \in {perm1} |-> {ann}]
Everybody == {[uid |-> ann, admin |-> FALSE], [uid |-> bob, admin |-> FALSE], [uid |-> bob, admin |-> TRUE]}
\* A sheet whose other maps leave room for one cell on the first page.
Crowded ==
    [k \in (GridCells \ {Elsewhere}) \cup
        {Column, Key("dims", NoSheet, <<"r", 0>>), Here("merges", <<0, 0, 1, 1>>), Here("tabs", <<>>), Here("links", <<"l">>)}
        |-> "good"]
PagingOrder ==
    [s \in {DefaultSheet, sheet2, Reserved, NoSheet} |->
        CASE s = DefaultSheet -> 0 [] s = sheet2 -> 1 [] s = Reserved -> 2 [] s = NoSheet -> 3]
SomeSheets == {NoBatch, [k \in GridCells \cup {Column} |-> "good"], Crowded}

-----------------------------------------------------------------------------
(* Bodies: flat ones and two with a box of paragraphs; one operation and   *)
(* every two of them. What is inserted into a paragraph is left out.       *)

Leaf(n) == [name |-> n, box |-> FALSE, kids |-> <<>>]
Box(n, kids) == [name |-> n, box |-> TRUE, kids |-> kids]
Bodies == {<<>>, <<Leaf(1)>>, <<Leaf(1), Box(2, <<Leaf(3)>>)>>, <<Box(1, <<Leaf(2), Leaf(3)>>), Leaf(4)>>}
OwnFiles == {0}

Op(kind, path, position, to, expect, content, attach) ==
    [kind |-> kind, path |-> path, position |-> position, to |-> to, expect |-> expect,
     content |-> content, attach |-> attach]
OpsOf(i) ==
    {Op("insert", at, pos, <<>>, "any", IF i = 1 THEN <<11, 12>> ELSE <<21>>, 0) :
        at \in {<<>>, <<0>>, <<1>>, <<0, 0>>, <<1, 0>>}, pos \in {"before", "after", "inside_start", "inside_end"}}
    \cup {Op(k, at, "before", to, "any", <<10 * i>>, 0) :
        k \in {"replace", "delete"}, at \in {<<0>>, <<1>>, <<0, 0>>}, to \in {<<0>>, <<1>>, <<0, 1>>}}
    \cup {Op("replace", <<1>>, "before", <<1>>, "box", <<>>, 0),
          Op("delete", <<1>>, "before", <<1>>, "box", <<>>, 7),
          Op("insert", <<1>>, "after", <<>>, "box", <<10 * i>>, 7)}
InsideParagraph(doc, op) ==
    /\ op.kind = "insert" /\ op.position \in {"inside_start", "inside_end"}
    /\ op.path # <<>> /\ Found(doc, op.path) /\ TypeAt(doc, op.path) = "paragraph"
BodyInputs ==
    {i \in [doc : Bodies, ops : {<<a>> : a \in OpsOf(1)} \cup {<<a, b>> : a \in OpsOf(1), b \in OpsOf(2)}] :
        \A n \in DOMAIN i.ops : ~InsideParagraph(i.doc, i.ops[n])}

-----------------------------------------------------------------------------
(* Anchors: two blocks of letters and atoms, a text to find in them.       *)

Runs == UNION {[1..n -> {"a", "b", Atom}] : n \in 0..3}
AnchorInputs ==
    [doc : {<<x, y>> : x \in Runs, y \in {<<>>, <<"a", "b">>, <<"a", Atom, "a">>}},
     needle : {<<>>, <<"a">>, <<"a", "a">>, <<"a", "b">>, <<"a", "b", "a">>},
     path : {NoPath, 1, 2, 3}, occurrence : 0..2]
Ends == [kind : {"garbled", "bytes", "point", "element"}, id : {id1}, ids : {{}, {id1}, {id2}}]
PinInputs == [docType : {"doc", "board"}, from : Ends, to : Ends]

-----------------------------------------------------------------------------
(* Decks: what is stored today, everything, and a published one only.      *)
DeckInputs ==
    [req : SourceRequests, row : DeckRows \cup {NoDeck}, role : Roles,
     content : {StoredContent, [modes |-> Modes, html |-> TRUE], [modes |-> {"published"}, html |-> FALSE]}]

-----------------------------------------------------------------------------
Calculated == {"body", "anchor", "pin", "deck", "document", "markdown", "word", "docx"}
Inputs(of) ==
    CASE of = "body" -> BodyInputs
      [] of = "anchor" -> AnchorInputs
      [] of = "pin" -> PinInputs
      [] of = "deck" -> DeckInputs
      [] of = "document" -> DocumentCases
      [] of = "markdown" -> MarkdownCases
      [] of = "word" -> WordCases
      [] of = "docx" -> DocxCases
      [] OTHER -> {<<>>}

MCInit ==
    /\ part \in Calculated \cup {"board", "writes", "reads"} /\ input \in Inputs(part)
    /\ saved \in IF part = "board" THEN Stored ELSE {EmptyBoard}
    /\ sheet \in CASE part = "writes" -> Sheets \ {Crowded}
                  [] part = "reads" -> Sheets
                  [] OTHER -> {NoBatch}
    /\ rules \in IF part = "writes" THEN RuleSets ELSE {{}}
    /\ BoardInit /\ SheetInit

MCNext ==
    /\ UNCHANGED <<part, input>>
    /\ \/ part = "board" /\ BoardNext /\ UNCHANGED sheetVars
       \/ part = "writes" /\ SheetWrites /\ UNCHANGED boardVars
       \/ part = "reads" /\ SheetReads /\ UNCHANGED boardVars

MCSpec == MCInit /\ [][MCNext]_<<part, input, boardVars, sheetVars>>

(* What a bot or a comment asks for is done exactly or not at all: a batch *)
(* on a sheet touches what its caller may, leaves a sheet that can be read *)
(* again and pages that add up, a batch on a body lands where its paths    *)
(* said before it began, and an anchor is the one occurrence its author    *)
(* meant (SheetEdit, BodyEdit and AnchorResolve say each of them).         *)
EditsExact ==
    /\ WritesExact /\ WrittenIsReadable /\ WalkExact
    /\ part = "body" => BatchExact(input.doc, input.ops)
    /\ part = "anchor" => PinnedExactly(input.doc, input.needle, input.path, input.occurrence)
    /\ part = "pin" => PinFits(input.docType, input.from, input.to)

\* What comes of an input on its way through the importer.
Back ==
    IF part \in {"document", "markdown"}
    THEN ImportDoc(IF part = "document" THEN ExportDoc(input) ELSE input)
    ELSE WalkDocument(IF part = "word" THEN ConvertBlocks(input) ELSE input)

(* Export and import are inverse on what Markdown, or Word, can carry,     *)
(* lose no word of what it cannot, and make a legal document of any file;  *)
(* a deck's source is shown to its readers only (the parts are in          *)
(* MarkdownTrip, DocxImport and PptSource).                                *)
ConversionsExact ==
    /\ part = "deck" => SourceExact(input.req, input.row, input.role, input.content)
    /\ part \in {"document", "markdown", "word", "docx"} =>
         \E back \in {Back} :
            CASE part = "document" -> RoundTripExact(input, back) /\ WordsKept(input, back)
              [] part = "markdown" -> ImportLegal(input, back)
              [] part = "word" -> WordTripExact(input, back) /\ WordsCarried(input, back)
              [] part = "docx" -> WordImportLegal(input, back)
=============================================================================
