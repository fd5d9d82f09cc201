-------------------------- MODULE DocumentsProofs --------------------------
(***************************************************************************)
(* Proofs about the document routes and the services beside them: each     *)
(* part keeps what its properties say for any bots, people, documents,     *)
(* calls and deploys, and so does the specification of them all, which is  *)
(* the one the model checker runs (MCDocuments).                           *)
(***************************************************************************)
EXTENDS MCDocuments, FiniteSetTheorems, WellFoundedInduction, TLAPS

\* Ids and files are numbers: among some of them there is a least.
LEMMA LeastId == ASSUME NEW S \in SUBSET Nat, S # {} PROVE \E x \in S : \A y \in S : x <= y
<1>1. ASSUME NEW x \in Nat, NEW y \in Nat, y < x PROVE <<y, x>> \in OpToRel(<, Nat)
    BY <1>1 DEF OpToRel
<1>2. PICK x \in S : \A y \in S : <<y, x>> \notin OpToRel(<, Nat)
    BY NatLessThanWellFounded, WFMin
<1>3. ASSUME NEW y \in S PROVE ~(y < x)
    BY <1>1, <1>2
<1> QED BY <1>3

----------------------------------------------------------------------------
(* Registrations. A row, once inserted, keeps its owner, slug and space,   *)
(* and a call that has one in hand has its own: what the unique key said   *)
(* at the insert, or the owner check at a lookup, is still so when the     *)
(* call is answered.                                                       *)

RegistryPcs == {"new", "lookup", "insert", "refetch", "update", "grant", "created", "resolve",
                "guard", "write", "done", "failed", "forbidden", "notFound"}
RowSet == [owner : Bots, slug : Slugs, space : Spaces, active : BOOLEAN, title : Calls]
CallSet == [pc : RegistryPcs, by : Bots \cup Humans \cup {None}, space : Spaces \cup {None}, slug : Slugs \cup {None},
            op : {"register", "rename", "delete", None}, doc : DocIds \cup {None}]

RegistryTypeOK ==
    /\ html \in [DocIds -> RowSet \cup {NoRow}]
    /\ admins \subseteq DocIds \X Humans
    /\ call \in [Calls -> CallSet]

\* The row a registration has is the caller's, under its slug.
Has(c) ==
    LET d == call[c].doc
    IN  /\ d \in Rows /\ html[d].owner = call[c].by
        /\ html[d].slug = call[c].slug /\ html[d].space = call[c].space

\* A registration names a bot, a slug and its space, all along.
CallOK(c) ==
    /\ call[c].pc \in {"lookup", "insert", "refetch"} =>
         call[c].by \in Bots /\ call[c].slug \in Slugs /\ call[c].space \in Spaces
    /\ call[c].pc \in {"update", "grant", "created"} => Has(c)
    /\ call[c].pc = "created" /\ HumanOf[call[c].by] # None =>
         <<call[c].doc, HumanOf[call[c].by]>> \in admins
    /\ call[c].pc \in {"guard", "write"} => call[c].doc \in Rows

OneRowPerSlug ==
    \A d, e \in Rows : html[d].slug = html[e].slug /\ html[d].space = html[e].space => d = e

RegistryInv == RegistryTypeOK /\ OneRowPerSlug /\ \A c \in Calls : CallOK(c)

\* A row in the table is none of the missing ones: it has a title.
LEMMA RowIsThere ==
    ASSUME RegistryTypeOK
    PROVE  NoRow \notin RowSet /\ \A d \in Rows : html[d] \in RowSet
BY RegistryAssumption DEF RegistryTypeOK, RowSet, NoRow, Rows

\* Rows stay, and so does what a call relies on.
LEMMA RowsKept ==
    ASSUME RegistryTypeOK,
           \A d \in Rows : /\ d \in Rows' /\ html'[d].owner = html[d].owner
                           /\ html'[d].slug = html[d].slug /\ html'[d].space = html[d].space,
           admins \subseteq admins', NEW c \in Calls, CallOK(c), call'[c] = call[c]
    PROVE  CallOK(c)'
BY DEF CallOK, Has

\* One call moves on, with the document it has or with another.
Moved(c, pc, d) ==
    /\ call' \in [Calls -> CallSet]
    /\ call'[c].pc = pc /\ call'[c].by = call[c].by /\ call'[c].doc = d
    /\ call'[c].slug = call[c].slug /\ call'[c].space = call[c].space
    /\ \A b \in Calls \ {c} : call'[b] = call[b]

LEMMA GotoMoves ==
    ASSUME RegistryTypeOK, NEW c \in Calls, NEW pc \in RegistryPcs
    PROVE  /\ Goto(c, pc) => Moved(c, pc, call[c].doc)
           /\ \A d \in DocIds : GotoWith(c, pc, d) => Moved(c, pc, d)
<1>1. call[c] \in CallSet
    BY DEF RegistryTypeOK
<1>2. ASSUME Goto(c, pc) PROVE Moved(c, pc, call[c].doc)
    <2>1. call' = [call EXCEPT ![c] = [call[c] EXCEPT !.pc = pc]]
        BY <1>2 DEF Goto
    <2> QED BY <1>1, <2>1 DEF RegistryTypeOK, CallSet, Moved
<1>3. ASSUME NEW d \in DocIds, GotoWith(c, pc, d) PROVE Moved(c, pc, d)
    <2>1. call' = [call EXCEPT ![c] = [[call[c] EXCEPT !.pc = pc] EXCEPT !.doc = d]]
        BY <1>1, <1>3 DEF GotoWith, RegistryTypeOK, CallSet
    <2> QED BY <1>1, <2>1 DEF RegistryTypeOK, CallSet, Moved
<1> QED BY <1>2, <1>3

\* A call has moved, and rows and grants are what they were, or more.
LEMMA MoveStep ==
    ASSUME RegistryInv, NEW c \in Calls, NEW pc \in RegistryPcs, NEW d, Moved(c, pc, d),
           UNCHANGED html, admins' \subseteq DocIds \X Humans, admins \subseteq admins', CallOK(c)'
    PROVE  RegistryInv'
<1>1. RegistryTypeOK'
    BY DEF RegistryInv, RegistryTypeOK, Moved
<1>2. OneRowPerSlug'
    BY DEF RegistryInv, OneRowPerSlug, Rows
<1>3. ASSUME NEW b \in Calls PROVE CallOK(b)'
    <2>1. CASE b # c
        BY <2>1, RowsKept DEF RegistryInv, Moved, Rows
    <2> QED BY <2>1
<1> QED BY <1>1, <1>2, <1>3 DEF RegistryInv

\* A slug found is a row: its owner goes on to write it, anybody else is turned away.
LEMMA TakeOverStep ==
    ASSUME RegistryInv, NEW c \in Calls, call[c].pc \in {"lookup", "refetch"},
           NEW d \in Under(call[c].space, call[c].slug), TakeOver(c, d), UNCHANGED <<html, admins>>
    PROVE  RegistryInv'
<1>1. d \in DocIds /\ d \in Rows /\ html[d].space = call[c].space /\ html[d].slug = call[c].slug
    BY DEF Under, Rows
<1>2. CASE html[d].owner = call[c].by
    <2>1. Moved(c, "update", d)
        BY <1>1, <1>2, GotoMoves DEF TakeOver, RegistryInv, RegistryPcs
    <2>2. CallOK(c)'
        BY <1>1, <1>2, <2>1 DEF CallOK, Has, Moved, Rows
    <2> QED BY <2>1, <2>2, MoveStep DEF RegistryInv, RegistryTypeOK, RegistryPcs
<1>3. CASE html[d].owner # call[c].by
    <2>1. Moved(c, "forbidden", call[c].doc)
        BY <1>3, GotoMoves DEF TakeOver, RegistryInv, RegistryPcs
    <2>2. CallOK(c)'
        BY <2>1 DEF CallOK, Moved
    <2> QED BY <2>1, <2>2, MoveStep DEF RegistryInv, RegistryTypeOK, RegistryPcs
<1> QED BY <1>2, <1>3

LEMMA LookupStep ==
    ASSUME RegistryInv, NEW c \in Calls, Lookup(c) \/ Refetch(c)
    PROVE  RegistryInv'
<1>1. CASE Lookup(c) /\ Under(call[c].space, call[c].slug) = {}
    <2>1. Moved(c, "insert", call[c].doc)
        BY <1>1, GotoMoves DEF Lookup, RegistryInv, RegistryPcs
    <2>2. CallOK(c)'
        BY <1>1, <2>1 DEF Lookup, CallOK, Moved, RegistryInv
    <2> QED BY <1>1, <2>1, <2>2, MoveStep DEF Lookup, RegistryInv, RegistryTypeOK, RegistryPcs
<1>2. CASE Lookup(c) /\ Under(call[c].space, call[c].slug) # {}
    BY <1>2, TakeOverStep DEF Lookup
<1>3. CASE Refetch(c)
    BY <1>3, TakeOverStep DEF Refetch
<1> QED BY <1>1, <1>2, <1>3

\* The unique key: there was no row of this slug when this one came.
LEMMA InsertStep ==
    ASSUME RegistryInv, NEW c \in Calls, Insert(c)
    PROVE  RegistryInv'
<1>0. call[c].by \in Bots /\ call[c].slug \in Slugs /\ call[c].space \in Spaces
    BY DEF Insert, RegistryInv, CallOK
<1>1. CASE Under(call[c].space, call[c].slug) # {}
    <2>1. Moved(c, "refetch", call[c].doc)
        BY <1>1, GotoMoves DEF Insert, RegistryInv, RegistryPcs
    <2>2. CallOK(c)'
        BY <1>0, <2>1 DEF CallOK, Moved
    <2> QED BY <1>1, <2>1, <2>2, MoveStep DEF Insert, RegistryInv, RegistryTypeOK, RegistryPcs
<1>2. CASE Under(call[c].space, call[c].slug) = {}
    <2>1. PICK d \in DocIds \ Rows :
             /\ html' = [html EXCEPT ![d] = [owner |-> call[c].by, slug |-> call[c].slug,
                            space |-> call[c].space, active |-> TRUE, title |-> c]]
             /\ GotoWith(c, "grant", d)
        BY <1>2 DEF Insert
    <2>2. Moved(c, "grant", d)
        BY <2>1, GotoMoves DEF RegistryInv, RegistryPcs
    <2>3. /\ html'[d] \in RowSet /\ html'[d].owner = call[c].by
          /\ html'[d].slug = call[c].slug /\ html'[d].space = call[c].space
        BY <1>0, <2>1 DEF RegistryInv, RegistryTypeOK, RowSet
    <2>4. \A e \in DocIds \ {d} : html'[e] = html[e]
        BY <2>1 DEF RegistryInv, RegistryTypeOK
    <2>5. Rows' = Rows \cup {d}
        BY <2>1, <2>3, <2>4, RowIsThere DEF Rows, RegistryInv
    <2>6. RegistryTypeOK'
        BY <2>1, <2>2, <2>3 DEF RegistryInv, RegistryTypeOK, Moved, Insert
    <2>7. OneRowPerSlug'
        BY <1>2, <2>3, <2>4, <2>5 DEF RegistryInv, OneRowPerSlug, Under, Rows
    <2>8. CallOK(c)'
        BY <2>2, <2>3, <2>5 DEF CallOK, Has, Moved
    <2>9. ASSUME NEW b \in Calls \ {c} PROVE CallOK(b)'
        BY <2>1, <2>2, <2>4, <2>5, RowsKept DEF RegistryInv, Moved, Insert, Rows
    <2> QED BY <2>6, <2>7, <2>8, <2>9 DEF RegistryInv
<1> QED BY <1>1, <1>2

\* A write of a row's title or status: its key and its owner stay.
LEMMA WriteStep ==
    ASSUME RegistryInv, NEW c \in Calls, Update(c) \/ Write(c)
    PROVE  RegistryInv'
<1> DEFINE d == call[c].doc
<1>1. d \in Rows
    BY DEF Update, Write, RegistryInv, CallOK, Has
<1>2. d \in DocIds /\ html[d] \in RowSet
    BY <1>1, RowIsThere DEF RegistryInv, Rows
<1>3. /\ html'[d] \in RowSet /\ html' \in [DocIds -> RowSet \cup {NoRow}]
      /\ html'[d].owner = html[d].owner /\ html'[d].slug = html[d].slug
      /\ html'[d].space = html[d].space /\ \A e \in DocIds \ {d} : html'[e] = html[e]
    <2>1. \A r \in RowSet : /\ [r EXCEPT !.title = c] \in RowSet /\ [r EXCEPT !.active = TRUE] \in RowSet
                            /\ [r EXCEPT !.active = FALSE] \in RowSet
        BY DEF RowSet
    <2>2. \/ html' = [html EXCEPT ![d] = [[html[d] EXCEPT !.title = c] EXCEPT !.active = TRUE]]
          \/ html' = [html EXCEPT ![d] = [html[d] EXCEPT !.title = c]]
          \/ html' = [html EXCEPT ![d] = [html[d] EXCEPT !.active = FALSE]]
        BY <1>2 DEF Update, Write, RegistryInv, RegistryTypeOK, RowSet
    <2> HIDE DEF d
    <2>3. PICK r \in RowSet : /\ html' = [html EXCEPT ![d] = r] /\ r.owner = html[d].owner
                              /\ r.slug = html[d].slug /\ r.space = html[d].space
        <3> DEFINE old == html[d]
                   fresh == [[old EXCEPT !.title = c] EXCEPT !.active = TRUE]
                   named == [old EXCEPT !.title = c]
                   gone == [old EXCEPT !.active = FALSE]
        <3>1. /\ fresh \in RowSet /\ fresh.owner = old.owner /\ fresh.slug = old.slug /\ fresh.space = old.space
              /\ named \in RowSet /\ named.owner = old.owner /\ named.slug = old.slug /\ named.space = old.space
              /\ gone \in RowSet /\ gone.owner = old.owner /\ gone.slug = old.slug /\ gone.space = old.space
            BY <1>2 DEF RowSet
        <3>2. \E r \in {fresh, named, gone} : html' = [html EXCEPT ![d] = r]
            BY <2>2
        <3> HIDE DEF fresh, named, gone
        <3> QED BY <3>1, <3>2
    <2> QED BY <1>2, <2>3 DEF RegistryInv, RegistryTypeOK
<1>4. Rows' = Rows
    BY <1>1, <1>2, <1>3, RowIsThere DEF Rows, RegistryInv
<1>5. PICK pc \in {"grant", "done"} : Moved(c, pc, d) /\ (pc = "grant" => call[c].pc = "update")
    BY GotoMoves DEF Update, Write, RegistryInv, RegistryPcs
<1>6. UNCHANGED admins
    BY DEF Update, Write
<1>7. RegistryTypeOK'
    BY <1>3, <1>5, <1>6 DEF RegistryInv, RegistryTypeOK, Moved
<1>8. \A e \in Rows : html'[e].owner = html[e].owner /\ html'[e].slug = html[e].slug /\ html'[e].space = html[e].space
    BY <1>3 DEF Rows
<1> HIDE DEF d
<1>9. OneRowPerSlug'
    BY <1>4, <1>8 DEF RegistryInv, OneRowPerSlug
<1>10. CallOK(c)'
    BY <1>1, <1>3, <1>4, <1>5 DEF RegistryInv, CallOK, Has, Moved, d
<1>11. ASSUME NEW b \in Calls \ {c} PROVE CallOK(b)'
    BY <1>4, <1>5, <1>6, <1>8, RowsKept DEF RegistryInv, Moved
<1> QED BY <1>7, <1>9, <1>10, <1>11 DEF RegistryInv

\* The human owner is made an admin before the 201.
LEMMA GrantStep ==
    ASSUME RegistryInv, NEW c \in Calls, Grant(c)
    PROVE  RegistryInv'
<1>0. Has(c) /\ call[c].by \in Bots /\ call[c].doc \in DocIds
    <2>1. Has(c)
        BY DEF Grant, RegistryInv, CallOK
    <2> QED BY <2>1, RowIsThere DEF Has, RegistryInv, RowSet, Rows
<1>1. Moved(c, "created", call[c].doc) /\ UNCHANGED html
    BY GotoMoves DEF Grant, RegistryInv, RegistryPcs
<1>2. /\ admins \subseteq admins' /\ admins' \subseteq DocIds \X Humans
      /\ HumanOf[call[c].by] # None => <<call[c].doc, HumanOf[call[c].by]>> \in admins'
    BY <1>0, RegistryAssumption DEF Grant, RegistryInv, RegistryTypeOK
<1>3. CallOK(c)'
    BY <1>0, <1>1, <1>2 DEF CallOK, Has, Moved, Rows
<1> QED BY <1>1, <1>2, <1>3, MoveStep DEF RegistryPcs

\* What writes neither a row nor a grant.
LEMMA QuietStep ==
    ASSUME RegistryInv, NEW c \in Calls,
           Register(c) \/ Manage(c) \/ Resolve(c) \/ Guard(c) \/ CallFails(c)
    PROVE  RegistryInv'
<1>1. UNCHANGED <<html, admins>> /\ admins' \subseteq DocIds \X Humans
    BY DEF Register, Manage, Resolve, Guard, CallFails, RegistryInv, RegistryTypeOK
<1>2. ASSUME NEW n \in CallSet, call' = [call EXCEPT ![c] = n], n.pc \in {"lookup", "resolve"},
             n.pc = "lookup" => n.by \in Bots /\ n.slug \in Slugs /\ n.space \in Spaces
      PROVE  RegistryInv'
    <2>1. call'[c] = n /\ call' \in [Calls -> CallSet] /\ \A b \in Calls \ {c} : call'[b] = call[b]
        BY <1>2 DEF RegistryInv, RegistryTypeOK
    <2>2. CallOK(c)'
        BY <1>2, <2>1 DEF CallOK
    <2>3. ASSUME NEW b \in Calls \ {c} PROVE CallOK(b)'
        BY <1>1, <2>1, RowsKept DEF RegistryInv, Rows
    <2> QED BY <1>1, <2>1, <2>2, <2>3 DEF RegistryInv, RegistryTypeOK, OneRowPerSlug, Rows
<1>3. CASE Register(c)
    <2>1. PICK b \in Bots, s \in Slugs :
             call' = [call EXCEPT ![c] = [NewCall EXCEPT !.pc = "lookup", !.op = "register",
                                                         !.by = b, !.space = SpaceOf[b], !.slug = s]]
        BY <1>3 DEF Register
    <2> DEFINE n == [NewCall EXCEPT !.pc = "lookup", !.op = "register", !.by = b, !.space = SpaceOf[b], !.slug = s]
    <2>2. /\ n \in CallSet /\ n.pc = "lookup" /\ n.by \in Bots /\ n.slug \in Slugs /\ n.space \in Spaces
        BY RegistryAssumption DEF NewCall, CallSet, RegistryPcs
    <2>3. call' = [call EXCEPT ![c] = n]
        BY <2>1
    <2> HIDE DEF n
    <2> QED BY <1>2, <2>2, <2>3
<1>4. CASE Manage(c)
    <2>1. PICK u \in Bots \cup Humans, s \in Slugs, sp \in Spaces, op \in {"rename", "delete"} :
             call' = [call EXCEPT ![c] = [NewCall EXCEPT !.pc = "resolve", !.op = op,
                                                         !.by = u, !.space = sp, !.slug = s]]
        BY <1>4 DEF Manage
    <2> DEFINE n == [NewCall EXCEPT !.pc = "resolve", !.op = op, !.by = u, !.space = sp, !.slug = s]
    <2>2. n \in CallSet /\ n.pc = "resolve"
        BY DEF NewCall, CallSet, RegistryPcs
    <2>3. call' = [call EXCEPT ![c] = n]
        BY <2>1
    <2> HIDE DEF n
    <2> QED BY <1>2, <2>2, <2>3
<1>5. ASSUME NEW pc \in {"notFound", "forbidden", "failed"}, Goto(c, pc) PROVE RegistryInv'
    <2>1. Moved(c, pc, call[c].doc)
        BY <1>5, GotoMoves DEF RegistryInv, RegistryPcs
    <2>2. CallOK(c)'
        BY <2>1 DEF CallOK, Moved
    <2> QED BY <1>1, <2>1, <2>2, MoveStep DEF RegistryPcs
<1>6. CASE Resolve(c)
    <2>1. ASSUME NEW d \in Rows, GotoWith(c, "guard", d) PROVE RegistryInv'
        <3>1. Moved(c, "guard", d)
            BY <2>1, GotoMoves DEF RegistryInv, RegistryPcs, Rows
        <3>2. CallOK(c)'
            BY <1>1, <2>1, <3>1 DEF CallOK, Moved, Rows
        <3> QED BY <1>1, <3>1, <3>2, MoveStep DEF RegistryPcs
    <2> QED BY <1>5, <1>6, <2>1 DEF Resolve, Under
<1>7. CASE Guard(c)
    <2>1. ASSUME Goto(c, "write") PROVE RegistryInv'
        <3>1. Moved(c, "write", call[c].doc)
            BY <2>1, GotoMoves DEF RegistryInv, RegistryPcs
        <3>2. CallOK(c)'
            BY <1>1, <1>7, <3>1 DEF Guard, RegistryInv, CallOK, Moved, Rows
        <3> QED BY <1>1, <3>1, <3>2, MoveStep DEF RegistryPcs
    <2> QED BY <1>5, <1>7, <2>1 DEF Guard
<1>8. CASE CallFails(c)
    BY <1>5, <1>8 DEF CallFails
<1> QED BY <1>3, <1>4, <1>6, <1>7, <1>8

LEMMA RegistryInvStep == RegistryInv /\ [RegistryNext]_registryVars => RegistryInv'
<1>1. ASSUME RegistryInv, RegistryNext PROVE RegistryInv'
    BY <1>1, LookupStep, InsertStep, WriteStep, GrantStep, QuietStep DEF RegistryNext
<1>2. ASSUME RegistryInv, UNCHANGED registryVars PROVE RegistryInv'
    BY <1>2 DEF registryVars, RegistryInv, RegistryTypeOK, OneRowPerSlug, Rows, CallOK, Has
<1> QED BY <1>1, <1>2

LEMMA RegistryInvInit == RegistryInit => RegistryInv
<1> SUFFICES ASSUME RegistryInit PROVE RegistryInv
    OBVIOUS
<1>1. NewCall \in CallSet
    BY DEF NewCall, CallSet, RegistryPcs
<1>2. \A c \in Calls : call[c].pc = "new"
    BY DEF RegistryInit, NewCall
<1>3. Rows = {}
    BY DEF RegistryInit, Rows
<1> QED BY <1>1, <1>2, <1>3 DEF RegistryInit, RegistryInv, RegistryTypeOK, OneRowPerSlug, CallOK

\* However registrations race, fail and are repeated: a 201 names a document of the caller's
\* own under its slug, which the bot's human owner can open, and a slug of a space is one
\* document (docs.ts createDocHandler, docMetaRepo.ts upsertHtmlByOctoDocSlug).
THEOREM RegistrationsAgreed == RegistrySpec => []RegistrationsAgree
<1>1. RegistryInv => RegistrationsAgree
    BY DEF RegistryInv, RegistrationsAgree, OneRowPerSlug, CallOK, Has
<1> QED BY RegistryInvInit, RegistryInvStep, <1>1, PTL DEF RegistrySpec

----------------------------------------------------------------------------
(* Comments. A reply that is under way holds the lock of its root, and a   *)
(* deletion names a row of its own document that was committed: no id is   *)
(* given twice, so neither becomes something else meanwhile.               *)

CommentPcs == {"new", "reply", "insert", "inserted", "notFound", "done", "failed",
               "resolve", "reopen", "hide", "destroy", "purge"}
CommentRows == [doc : Docs, parent : Ids \cup {0}, author : Authors, deleted : BOOLEAN, resolved : BOOLEAN]
RequestSet == [pc : CommentPcs, op : {"none", "root", "reply", "resolve", "reopen", "hide", "destroy"},
               by : Authors \cup {NoOne}, doc : Docs \cup {NoOne}, on : Ids \cup {0}, id : Ids \cup {0}]
Changing == {"resolve", "reopen", "hide", "destroy", "purge"}

CommentsTypeOK ==
    /\ comments \in [Ids -> CommentRows \cup {Gone}]
    /\ lastId \in 0..MaxComments
    /\ lock \in [Ids -> Requests \cup {NoOne}]
    /\ request \in [Requests -> RequestSet]

\* The reply's root is there, in its document, and locked.
RootHeld(r) ==
    LET p == request[r].on
    IN  p \in Ids /\ IsRoot(p) /\ comments[p].doc = request[r].doc /\ lock[p] = r

\* An id that is given is not committed yet, and is of one request.
IdGiven(r) ==
    /\ request[r].id \in 1..lastId /\ ~Exists(request[r].id)
    /\ \A q \in Requests \ {r} : request[q].pc = "inserted" => request[q].id # request[r].id

\* The row a change names was committed, in the document the change has.
RowNamed(r) ==
    LET id == request[r].on
    IN  /\ id \in 1..lastId
        /\ Exists(id) => comments[id].doc = request[r].doc
        /\ \A q \in Requests : request[q].pc = "inserted" => request[q].id # id

RequestOK(r) ==
    /\ request[r].pc \in {"reply", "insert", "inserted"} => request[r].by \in Authors /\ request[r].doc \in Docs
    /\ request[r].pc \in {"reply", "insert"} => request[r].on \in Ids
    /\ request[r].pc = "insert" \/ (request[r].pc = "inserted" /\ request[r].on # 0) => RootHeld(r)
    /\ request[r].pc = "inserted" => IdGiven(r)
    /\ request[r].pc \in Changing => RowNamed(r)

CommentsInv ==
    /\ CommentsTypeOK
    /\ \A id \in Ids : Exists(id) => id <= lastId
    /\ NoOrphans
    /\ \A r \in Requests : RequestOK(r)

\* What the reader has had is behind its cursor, and nothing it is owed is left there.
PagerSet == [pc : {"new", "paging", "done"}, doc : Docs \cup {NoOne}, all : BOOLEAN, cursor : Ids \cup {0},
             seen : SUBSET Ids, owed : SUBSET Ids, again : BOOLEAN]
PagerInv ==
    /\ pager \in PagerSet
    /\ pager.pc = "new" => pager.cursor = 0 /\ pager.seen = {}
    /\ pager.pc = "paging" =>
          /\ pager.owed \subseteq Listed(pager.doc, pager.all)
          /\ \A id \in pager.seen : id <= pager.cursor
          /\ \A id \in pager.owed : id <= pager.cursor => id \in pager.seen
    /\ PagesComplete

\* A row that was committed is none of the missing ones: it has an author.
LEMMA CommentIsThere ==
    ASSUME CommentsTypeOK
    PROVE  /\ Gone \notin CommentRows /\ Ids \subseteq Nat /\ 0 \notin Ids /\ NoOne \notin Requests
           /\ 1..lastId \subseteq Ids
           /\ \A id \in Ids : Exists(id) <=> comments[id] \in CommentRows
<1>1. Gone \notin CommentRows
    BY CommentsAssumption DEF CommentRows, Gone
<1>2. Ids \subseteq Nat /\ 0 \notin Ids /\ 1..lastId \subseteq Ids
    BY CommentsAssumption DEF Ids, CommentsTypeOK
<1> QED BY <1>1, <1>2, CommentsAssumption DEF CommentsTypeOK, Exists

\* One request has moved on.
LEMMA ToMoves ==
    ASSUME CommentsTypeOK, NEW r \in Requests, NEW pc \in CommentPcs, To(r, pc)
    PROVE  /\ request' \in [Requests -> RequestSet]
           /\ request'[r].pc = pc /\ request'[r].by = request[r].by /\ request'[r].doc = request[r].doc
           /\ request'[r].on = request[r].on /\ request'[r].id = request[r].id
           /\ \A q \in Requests \ {r} : request'[q] = request[q]
<1>1. request[r] \in RequestSet
    BY DEF CommentsTypeOK
<1>2. request' = [request EXCEPT ![r] = [request[r] EXCEPT !.pc = pc]]
    BY DEF To
<1> QED BY <1>1, <1>2 DEF CommentsTypeOK, RequestSet

\* What another request relies on stays: its root, the ids given, the row it names.
LEMMA RequestKept ==
    ASSUME CommentsTypeOK, NEW q \in Requests, RequestOK(q), request'[q] = request[q],
           lastId' \in Nat, lastId <= lastId',
           \A id \in 1..lastId : Exists(id)' =>
               \/ Exists(id) /\ comments'[id].doc = comments[id].doc
               \/ \E s \in Requests \ {q} : request[s].pc = "inserted" /\ request[s].id = id,
           \A id \in Ids : lock[id] = q /\ IsRoot(id) =>
               IsRoot(id)' /\ comments'[id].doc = comments[id].doc /\ lock'[id] = q,
           \A s \in Requests : request'[s].pc = "inserted" =>
               \/ request[s].pc = "inserted" /\ request'[s].id = request[s].id
               \/ request'[s].id = lastId + 1
    PROVE  RequestOK(q)'
<1>0. lastId \in Nat /\ 1..lastId \subseteq 1..lastId'
    BY CommentsAssumption DEF CommentsTypeOK
<1>1. RootHeld(q) => RootHeld(q)'
    BY DEF RootHeld
<1>2. request[q].pc = "inserted" => IdGiven(q)'
    <2>1. SUFFICES ASSUME request[q].pc = "inserted" PROVE IdGiven(q)'
        OBVIOUS
    <2>2. IdGiven(q)
        BY <2>1 DEF RequestOK
    <2> QED BY <1>0, <2>2 DEF IdGiven
<1>3. request[q].pc \in Changing => RowNamed(q)'
    <2>1. SUFFICES ASSUME request[q].pc \in Changing PROVE RowNamed(q)'
        OBVIOUS
    <2>2. RowNamed(q)
        BY <2>1 DEF RequestOK
    <2> QED BY <1>0, <2>2 DEF RowNamed
<1> QED BY <1>1, <1>2, <1>3 DEF RequestOK

\* Steps that write no row and give no id.
LEMMA SilentStep ==
    ASSUME CommentsInv, NEW r \in Requests, UNCHANGED <<comments, lastId>>,
           request' \in [Requests -> RequestSet], \A q \in Requests \ {r} : request'[q] = request[q],
           request'[r].pc # "inserted", lock' \in [Ids -> Requests \cup {NoOne}],
           \A id \in Ids, q \in Requests \ {r} : lock[id] = q => lock'[id] = q,
           RequestOK(r)'
    PROVE  CommentsInv'
<1>1. CommentsTypeOK' /\ \A id \in Ids : Exists(id)' => id <= lastId'
    BY DEF CommentsInv, CommentsTypeOK, Exists
<1>2. NoOrphans'
    BY DEF CommentsInv, NoOrphans, IsRoot, Exists
<1>3. ASSUME NEW q \in Requests \ {r} PROVE RequestOK(q)'
    <2>1. lastId \in Nat
        BY CommentsAssumption DEF CommentsInv, CommentsTypeOK
    <2> QED BY <2>1, RequestKept DEF CommentsInv, Exists, IsRoot
<1> QED BY <1>1, <1>2, <1>3 DEF CommentsInv

LEMMA PostReplyStep ==
    ASSUME CommentsInv, NEW r \in Requests, PostReply(r)
    PROVE  CommentsInv'
<1>1. PICK u \in Authors, d \in Docs, p \in 1..lastId :
         request' = [request EXCEPT ![r] = [NoRequest EXCEPT !.pc = "reply", !.op = "reply",
                                                !.by = u, !.doc = d, !.on = p]]
    BY DEF PostReply
<1> DEFINE n == [NoRequest EXCEPT !.pc = "reply", !.op = "reply", !.by = u, !.doc = d, !.on = p]
<1>2. p \in Ids
    BY CommentIsThere DEF CommentsInv
<1>3. n \in RequestSet /\ n.pc = "reply" /\ n.by = u /\ n.doc = d /\ n.on = p
    BY <1>2 DEF NoRequest, RequestSet, CommentPcs
<1>4. request' = [request EXCEPT ![r] = n]
    BY <1>1
<1> HIDE DEF n
<1>5. /\ request'[r] = n /\ request' \in [Requests -> RequestSet]
      /\ \A q \in Requests \ {r} : request'[q] = request[q]
    BY <1>3, <1>4 DEF CommentsInv, CommentsTypeOK
<1>6. RequestOK(r)'
    BY <1>2, <1>3, <1>5 DEF RequestOK, Changing
<1> QED BY <1>3, <1>5, <1>6, SilentStep DEF PostReply, CommentsInv, CommentsTypeOK

LEMMA ChangeStep ==
    ASSUME CommentsInv, NEW r \in Requests, Change(r)
    PROVE  CommentsInv'
<1>1. PICK u \in Authors, id \in Ids, op \in {"resolve", "reopen", "hide", "destroy"} :
         /\ Exists(id)
         /\ request' = [request EXCEPT ![r] = [NoRequest EXCEPT !.pc = op, !.op = op, !.by = u,
                                                    !.doc = comments[id].doc, !.on = id]]
    BY DEF Change
<1>2. comments[id] \in CommentRows /\ id \in 1..lastId
    BY <1>1, CommentIsThere, CommentsAssumption DEF CommentsInv, Ids, CommentsTypeOK
<1> DEFINE n == [NoRequest EXCEPT !.pc = op, !.op = op, !.by = u, !.doc = comments[id].doc, !.on = id]
<1>3. n \in RequestSet /\ n.pc = op /\ n.doc = comments[id].doc /\ n.on = id
    <2>1. comments[id].doc \in Docs
        BY <1>2 DEF CommentRows
    <2> QED BY <2>1 DEF NoRequest, RequestSet, CommentPcs
<1>4. request' = [request EXCEPT ![r] = n]
    BY <1>1
<1> HIDE DEF n
<1>5. /\ request'[r] = n /\ request' \in [Requests -> RequestSet]
      /\ \A q \in Requests \ {r} : request'[q] = request[q]
    BY <1>3, <1>4 DEF CommentsInv, CommentsTypeOK
<1>6. UNCHANGED <<comments, lastId>>
    BY DEF Change
<1>7. ASSUME NEW q \in Requests, request'[q].pc = "inserted" PROVE request'[q].id # id
    <2>1. q # r /\ request'[q] = request[q]
        BY <1>3, <1>5, <1>7
    <2>2. IdGiven(q)
        BY <1>7, <2>1 DEF CommentsInv, RequestOK
    <2> QED BY <1>1, <2>1, <2>2 DEF IdGiven
<1>8. RowNamed(r)'
    BY <1>2, <1>3, <1>5, <1>6, <1>7 DEF RowNamed
<1>9. RequestOK(r)'
    BY <1>3, <1>5, <1>8 DEF RequestOK
<1> QED BY <1>3, <1>5, <1>9, SilentStep DEF Change, CommentsInv, CommentsTypeOK

\* The lock is taken when the root is found, and kept until the reply is committed.
LEMMA LockRootStep ==
    ASSUME CommentsInv, NEW r \in Requests, LockRoot(r)
    PROVE  CommentsInv'
<1>0. request[r].on \in Ids /\ request[r].by \in Authors /\ request[r].doc \in Docs
    BY DEF LockRoot, CommentsInv, RequestOK
<1>1. CASE ReplyRoot(r)
    <2>1. To(r, "insert") /\ lock' = [lock EXCEPT ![request[r].on] = r]
        BY <1>1 DEF LockRoot
    <2>2. RootHeld(r)'
        BY <1>0, <1>1, <2>1, ToMoves DEF CommentPcs, LockRoot, ReplyRoot, RootHeld, CommentsInv, CommentsTypeOK, IsRoot, Exists
    <2>3. RequestOK(r)'
        BY <1>0, <2>1, <2>2, ToMoves DEF CommentPcs, RequestOK, Changing, CommentsInv
    <2>4. \A id \in Ids, q \in Requests \ {r} : lock[id] = q => lock'[id] = q
        BY <2>1, CommentIsThere DEF LockRoot, CommentsInv, CommentsTypeOK
    <2> QED BY <1>0, <2>1, <2>3, <2>4, ToMoves, SilentStep DEF CommentPcs, LockRoot, CommentsInv, CommentsTypeOK
<1>2. CASE ~ReplyRoot(r)
    <2>1. To(r, "notFound") /\ UNCHANGED lock
        BY <1>2 DEF LockRoot
    <2>2. RequestOK(r)'
        BY <2>1, ToMoves DEF CommentPcs, RequestOK, Changing, CommentsInv
    <2> QED BY <2>1, <2>2, ToMoves, SilentStep DEF CommentPcs, LockRoot, CommentsInv, CommentsTypeOK
<1> QED BY <1>1, <1>2

LEMMA RollbackStep ==
    ASSUME CommentsInv, NEW r \in Requests, Rollback(r)
    PROVE  CommentsInv'
<1>1. To(r, "failed")
    BY DEF Rollback
<1>2. RequestOK(r)'
    BY <1>1, ToMoves DEF CommentPcs, RequestOK, Changing, CommentsInv
<1>3. /\ lock' \in [Ids -> Requests \cup {NoOne}]
      /\ \A id \in Ids, q \in Requests \ {r} : lock[id] = q => lock'[id] = q
    BY DEF Rollback, CommentsInv, CommentsTypeOK
<1> QED BY <1>1, <1>2, <1>3, ToMoves, SilentStep DEF CommentPcs, Rollback, CommentsInv

LEMMA LockTargetStep ==
    ASSUME CommentsInv, NEW r \in Requests, LockTarget(r)
    PROVE  CommentsInv'
<1>1. To(r, "purge")
    BY DEF LockTarget
<1>2. RowNamed(r) /\ request[r].on \in Ids
    <2>1. RowNamed(r)
        BY DEF LockTarget, CommentsInv, RequestOK, Changing
    <2> QED BY <2>1, CommentIsThere DEF RowNamed, CommentsInv
<1>3. RowNamed(r)'
    BY <1>1, <1>2, ToMoves DEF CommentPcs, RowNamed, LockTarget, CommentsInv, Exists
<1>4. RequestOK(r)'
    BY <1>1, <1>3, ToMoves DEF CommentPcs, RequestOK, CommentsInv
<1>5. /\ lock' \in [Ids -> Requests \cup {NoOne}]
      /\ \A id \in Ids, q \in Requests \ {r} : lock[id] = q => lock'[id] = q
    BY <1>2, CommentIsThere DEF LockTarget, CommentsInv, CommentsTypeOK
<1> QED BY <1>1, <1>4, <1>5, ToMoves, SilentStep DEF CommentPcs, LockTarget, CommentsInv

\* An id is the next one: neither a row nor a request has it.
LEMMA GivenStep ==
    ASSUME CommentsInv, NEW r \in Requests, lastId < MaxComments, lastId' = lastId + 1,
           UNCHANGED <<comments, lock>>, request' \in [Requests -> RequestSet],
           \A q \in Requests \ {r} : request'[q] = request[q],
           request'[r].pc = "inserted", request'[r].id = lastId + 1,
           request'[r].by \in Authors, request'[r].doc \in Docs,
           request'[r].on # 0 => RootHeld(r)'
    PROVE  CommentsInv'
<1>0. lastId \in Nat /\ lastId + 1 \in 0..MaxComments
    BY CommentsAssumption DEF CommentsInv, CommentsTypeOK
<1>1. CommentsTypeOK' /\ \A id \in Ids : Exists(id)' => id <= lastId'
    BY <1>0, CommentIsThere DEF CommentsInv, CommentsTypeOK, Exists
<1>2. NoOrphans'
    BY DEF CommentsInv, NoOrphans, IsRoot, Exists
<1>3. ASSUME NEW q \in Requests \ {r} PROVE RequestOK(q)'
    BY <1>0, RequestKept DEF CommentsInv, Exists, IsRoot
<1>4. IdGiven(r)'
    <2>0. PICK id \in Nat : id = lastId + 1
        BY <1>0
    <2>1. lastId' \in Nat /\ id \in 1..lastId' /\ ~(id <= lastId)
        BY <1>0, <2>0
    <2>2. ~Exists(id)'
        BY <2>1 DEF CommentsInv, Exists
    <2>3. ASSUME NEW q \in Requests \ {r}, request[q].pc = "inserted" PROVE request[q].id # id
        <3>1. IdGiven(q)
            BY <2>3 DEF CommentsInv, RequestOK
        <3> QED BY <1>0, <2>0, <3>1 DEF IdGiven
    <2>4. \A q \in Requests \ {r} : request'[q].pc = "inserted" => request'[q].id # id
        BY <2>3
    <2> QED BY <2>0, <2>1, <2>2, <2>4 DEF IdGiven
<1>5. RequestOK(r)'
    BY <1>4 DEF RequestOK, Changing
<1> QED BY <1>1, <1>2, <1>3, <1>5 DEF CommentsInv

LEMMA InsertedStep ==
    ASSUME CommentsInv, NEW r \in Requests, PostRoot(r) \/ InsertReply(r)
    PROVE  CommentsInv'
<1>0. lastId \in Nat /\ lastId + 1 \in Ids
    <2>1. lastId < MaxComments
        BY DEF PostRoot, InsertReply
    <2> QED BY <2>1, CommentsAssumption DEF CommentsInv, CommentsTypeOK, Ids
<1>1. CASE PostRoot(r)
    <2>1. PICK u \in Authors, d \in Docs :
             request' = [request EXCEPT ![r] = [NoRequest EXCEPT !.pc = "inserted", !.op = "root",
                                                    !.by = u, !.doc = d, !.id = lastId + 1]]
        BY <1>1 DEF PostRoot
    <2> DEFINE n == [NoRequest EXCEPT !.pc = "inserted", !.op = "root", !.by = u, !.doc = d, !.id = lastId + 1]
    <2>2. n \in RequestSet /\ n.pc = "inserted" /\ n.id = lastId + 1 /\ n.on = 0 /\ n.by = u /\ n.doc = d
        BY <1>0 DEF NoRequest, RequestSet, CommentPcs
    <2>3. request' = [request EXCEPT ![r] = n]
        BY <2>1
    <2> HIDE DEF n
    <2>4. /\ request'[r] = n /\ request' \in [Requests -> RequestSet]
          /\ \A q \in Requests \ {r} : request'[q] = request[q]
        BY <2>2, <2>3 DEF CommentsInv, CommentsTypeOK
    <2> QED BY <1>1, <2>2, <2>4, GivenStep DEF PostRoot
<1>2. CASE InsertReply(r)
    <2>1. RootHeld(r) /\ request[r].by \in Authors /\ request[r].doc \in Docs
        BY <1>2 DEF InsertReply, CommentsInv, RequestOK
    <2>2. request[r] \in RequestSet
        BY DEF CommentsInv, CommentsTypeOK
    <2>3. request' = [request EXCEPT ![r] = [[request[r] EXCEPT !.pc = "inserted"] EXCEPT !.id = lastId + 1]]
        BY <1>2, <2>2 DEF InsertReply, CommentsInv, CommentsTypeOK, RequestSet
    <2>4. /\ request'[r].pc = "inserted" /\ request'[r].id = lastId + 1 /\ request'[r].on = request[r].on
          /\ request'[r].by = request[r].by /\ request'[r].doc = request[r].doc
          /\ request'[r] \in RequestSet
        BY <1>0, <2>2, <2>3 DEF RequestSet, CommentPcs, CommentsInv, CommentsTypeOK
    <2>5. request' \in [Requests -> RequestSet] /\ \A q \in Requests \ {r} : request'[q] = request[q]
        BY <2>3, <2>4 DEF CommentsInv, CommentsTypeOK
    <2>6. RootHeld(r)'
        BY <1>2, <2>1, <2>4 DEF RootHeld, InsertReply, IsRoot, Exists
    <2> QED BY <1>2, <2>1, <2>4, <2>5, <2>6, GivenStep DEF InsertReply
<1> QED BY <1>1, <1>2

\* A reply is committed under a root that is there, a root under none.
LEMMA CommitStep ==
    ASSUME CommentsInv, NEW r \in Requests, CommitPost(r)
    PROVE  CommentsInv'
<1> DEFINE row == [Gone EXCEPT !.doc = request[r].doc, !.parent = request[r].on, !.author = request[r].by]
           new == request[r].id
<1>0. /\ request[r].by \in Authors /\ request[r].doc \in Docs /\ request[r].on \in Ids \cup {0}
      /\ new \in 1..lastId /\ new \in Ids /\ ~Exists(new) /\ lastId \in Nat
      /\ request[r].on # 0 => RootHeld(r)
    <2>1. /\ request[r].by \in Authors /\ request[r].doc \in Docs /\ IdGiven(r)
          /\ request[r].on # 0 => RootHeld(r)
        BY DEF CommitPost, CommentsInv, RequestOK
    <2>2. request[r] \in RequestSet
        BY DEF CommentsInv, CommentsTypeOK
    <2> QED BY <2>1, <2>2, CommentIsThere, CommentsAssumption DEF IdGiven, CommentsInv, RequestSet, CommentsTypeOK
<1>1. /\ row \in CommentRows /\ row # Gone /\ row.doc = request[r].doc /\ row.parent = request[r].on
    <2>1. row \in CommentRows /\ row.doc = request[r].doc /\ row.parent = request[r].on
        BY <1>0 DEF Gone, CommentRows
    <2> QED BY <2>1, CommentIsThere DEF CommentsInv
<1>2. comments' = [comments EXCEPT ![new] = row] /\ To(r, "done") /\ UNCHANGED lastId
    BY DEF CommitPost
<1> HIDE DEF row
<1>3. /\ comments'[new] = row /\ \A id \in Ids \ {new} : comments'[id] = comments[id]
      /\ comments' \in [Ids -> CommentRows \cup {Gone}]
    BY <1>0, <1>1, <1>2 DEF CommentsInv, CommentsTypeOK
<1>4. /\ lock' \in [Ids -> Requests \cup {NoOne}]
      /\ \A id \in Ids, q \in Requests \ {r} : lock[id] = q => lock'[id] = q
    BY DEF CommitPost, CommentsInv, CommentsTypeOK
<1>5. CommentsTypeOK'
    BY <1>2, <1>3, <1>4, ToMoves DEF CommentsInv, CommentsTypeOK, CommentPcs
<1>6. \A id \in Ids : Exists(id)' => id <= lastId'
    BY <1>0, <1>2, <1>3, CommentIsThere DEF CommentsInv, Exists
<1>7. \A id \in Ids : IsRoot(id) => id # new /\ IsRoot(id)' /\ comments'[id].doc = comments[id].doc
    BY <1>0, <1>3 DEF IsRoot, Exists
<1> HIDE DEF new
<1>8. NoOrphans'
    <2>1. SUFFICES ASSUME NEW id \in Ids, Exists(id)', comments'[id].parent # 0
                   PROVE  (IsRoot(comments[id].parent) /\ comments[comments[id].parent].doc = comments[id].doc)'
        BY DEF NoOrphans
    <2>2. PICK p : p = comments'[id].parent
        OBVIOUS
    <2>3. IsRoot(p) /\ comments[p].doc = comments'[id].doc
        <3>1. CASE id = new
            BY <1>0, <1>1, <1>3, <2>1, <2>2, <3>1 DEF RootHeld
        <3>2. CASE id # new
            BY <1>3, <2>1, <2>2, <3>2 DEF CommentsInv, NoOrphans, Exists
        <3> QED BY <3>1, <3>2
    <2>4. p \in Ids
        BY <2>3 DEF IsRoot, Exists
    <2>5. IsRoot(p)' /\ comments'[p].doc = comments'[id].doc
        BY <1>7, <2>3, <2>4
    <2> QED BY <2>2, <2>5 DEF IsRoot, Exists
<1>9. ASSUME NEW q \in Requests \ {r} PROVE RequestOK(q)'
    <2>1. request'[q] = request[q] /\ \A s \in Requests : request'[s].pc = "inserted" =>
                                          request[s].pc = "inserted" /\ request'[s].id = request[s].id
        BY <1>2, ToMoves DEF CommentPcs, CommentsInv
    <2>2. \A id \in 1..lastId : Exists(id)' =>
             \/ Exists(id) /\ comments'[id].doc = comments[id].doc
             \/ request[r].pc = "inserted" /\ request[r].id = id
        BY <1>3 DEF Exists, CommitPost, new
    <2>3. r \in Requests \ {q}
        OBVIOUS
    <2> QED BY <1>0, <1>2, <1>4, <1>7, <2>1, <2>2, <2>3, RequestKept DEF CommentsInv
<1>10. RequestOK(r)'
    BY <1>2, ToMoves DEF CommentPcs, RequestOK, Changing, CommentsInv
<1> QED BY <1>5, <1>6, <1>8, <1>9, <1>10 DEF CommentsInv

\* A change of a row that is there changes neither its thread nor its document.
LEMMA WroteRow ==
    ASSUME CommentsInv, NEW r \in Requests, WriteRow(r)
    PROVE  /\ comments' \in [Ids -> CommentRows \cup {Gone}]
           /\ \A id \in Ids : /\ Exists(id)' <=> Exists(id)
                              /\ comments'[id].parent = comments[id].parent /\ comments'[id].doc = comments[id].doc
<1> DEFINE id == request[r].on
<1>1. CASE comments' = comments
    BY <1>1 DEF CommentsInv, CommentsTypeOK, Exists
<1>2. CASE Exists(id)
    <2>1. id \in Ids /\ comments[id] \in CommentRows
        BY <1>2, CommentIsThere DEF Exists, CommentsInv
    <2>2. PICK row \in CommentRows : /\ comments' = [comments EXCEPT ![id] = row]
                                     /\ row.parent = comments[id].parent /\ row.doc = comments[id].doc
        <3> DEFINE old == comments[id]
                   hidden == [old EXCEPT !.deleted = TRUE]
                   marked == [old EXCEPT !.resolved = (request[r].op = "resolve")]
        <3>1. /\ hidden \in CommentRows /\ hidden.parent = old.parent /\ hidden.doc = old.doc
              /\ marked \in CommentRows /\ marked.parent = old.parent /\ marked.doc = old.doc
            BY <2>1 DEF CommentRows
        <3>2. \E x \in {hidden, marked} : comments' = [comments EXCEPT ![id] = x]
            BY <1>2 DEF WriteRow
        <3> HIDE DEF hidden, marked
        <3> QED BY <3>1, <3>2
    <2> QED BY <2>1, <2>2, CommentIsThere DEF CommentsInv, CommentsTypeOK, Exists
<1> QED BY <1>1, <1>2 DEF WriteRow

LEMMA WriteRowStep ==
    ASSUME CommentsInv, NEW r \in Requests, WriteRow(r)
    PROVE  CommentsInv'
<1>1. /\ comments' \in [Ids -> CommentRows \cup {Gone}]
      /\ \A id \in Ids : /\ Exists(id)' <=> Exists(id)
                         /\ comments'[id].parent = comments[id].parent /\ comments'[id].doc = comments[id].doc
    BY WroteRow
<1>2. To(r, "done") /\ UNCHANGED <<lastId, lock>>
    BY DEF WriteRow
<1>3. CommentsTypeOK'
    BY <1>1, <1>2, ToMoves DEF CommentsInv, CommentsTypeOK, CommentPcs
<1>4. \A id \in Ids : /\ Exists(id)' => id <= lastId'
                      /\ IsRoot(id) => IsRoot(id)' /\ comments'[id].doc = comments[id].doc
    BY <1>1, <1>2 DEF CommentsInv, IsRoot
<1>5. NoOrphans'
    <2>1. SUFFICES ASSUME NEW id \in Ids, Exists(id)', comments'[id].parent # 0
                   PROVE  (IsRoot(comments[id].parent) /\ comments[comments[id].parent].doc = comments[id].doc)'
        BY DEF NoOrphans
    <2>2. PICK p : p = comments'[id].parent
        OBVIOUS
    <2>3. IsRoot(p) /\ comments[p].doc = comments'[id].doc /\ p \in Ids
        BY <1>1, <2>1, <2>2 DEF CommentsInv, NoOrphans, IsRoot, Exists
    <2>4. IsRoot(p)' /\ comments'[p].doc = comments'[id].doc
        BY <1>4, <2>3
    <2> QED BY <2>2, <2>4 DEF IsRoot, Exists
<1>6. ASSUME NEW q \in Requests \ {r} PROVE RequestOK(q)'
    <2>1. request'[q] = request[q] /\ \A s \in Requests : request'[s].pc = "inserted" =>
                                          request[s].pc = "inserted" /\ request'[s].id = request[s].id
        BY <1>2, ToMoves DEF CommentPcs, CommentsInv
    <2>2. lastId \in Nat /\ 1..lastId \subseteq Ids
        BY CommentIsThere, CommentsAssumption DEF CommentsInv, CommentsTypeOK
    <2> QED BY <1>1, <1>2, <1>4, <2>1, <2>2, RequestKept DEF CommentsInv
<1>7. RequestOK(r)'
    BY <1>2, ToMoves DEF CommentPcs, RequestOK, Changing, CommentsInv
<1> QED BY <1>3, <1>4, <1>5, <1>6, <1>7 DEF CommentsInv

\* A deletion takes a root with its replies: none of them is of another document, and a
\* reply under way holds the root's lock.
LEMMA PurgeStep ==
    ASSUME CommentsInv, NEW r \in Requests, Purge(r)
    PROVE  CommentsInv'
<1>1. /\ comments' = [id \in Ids |-> IF id \in Purged(r) THEN Gone ELSE comments[id]]
      /\ To(r, "done") /\ UNCHANGED lastId /\ \A id \in Purged(r) : lock[id] \in {NoOne, r}
    BY DEF Purge
<1>2. RowNamed(r) /\ request[r].on \in Ids
    <2>1. RowNamed(r)
        BY DEF Purge, CommentsInv, RequestOK, Changing
    <2> QED BY <2>1, CommentIsThere DEF RowNamed, CommentsInv
<1>3. /\ lock' \in [Ids -> Requests \cup {NoOne}]
      /\ \A id \in Ids, q \in Requests \ {r} : lock[id] = q => lock'[id] = q
    BY DEF Purge, CommentsInv, CommentsTypeOK
<1>4. CommentsTypeOK'
    BY <1>1, <1>3, ToMoves DEF CommentsInv, CommentsTypeOK, CommentPcs
<1>5. \A id \in Ids : Exists(id)' => Exists(id) /\ id \notin Purged(r) /\ comments'[id] = comments[id]
    BY <1>1 DEF Exists
<1>6. \A id \in Ids : Exists(id)' => id <= lastId'
    BY <1>1, <1>5 DEF CommentsInv
<1>7. \A id \in Ids \ Purged(r) : IsRoot(id) => IsRoot(id)' /\ comments'[id].doc = comments[id].doc
    BY <1>1 DEF IsRoot, Exists
<1>8. NoOrphans'
    <2>1. SUFFICES ASSUME NEW id \in Ids, Exists(id)', comments'[id].parent # 0
                   PROVE  (IsRoot(comments[id].parent) /\ comments[comments[id].parent].doc = comments[id].doc)'
        BY DEF NoOrphans
    <2>2. PICK p : p = comments[id].parent
        OBVIOUS
    <2>3. Exists(id) /\ id \notin Purged(r) /\ comments'[id] = comments[id]
        BY <1>5, <2>1
    <2>4. IsRoot(p) /\ comments[p].doc = comments[id].doc /\ p \in Ids
        BY <2>1, <2>2, <2>3 DEF CommentsInv, NoOrphans, IsRoot, Exists
    <2>5. p # request[r].on
        BY <1>2, <2>2, <2>3, <2>4 DEF Purged, RowNamed, IsRoot
    <2>6. p \notin Purged(r)
        BY <1>2, <2>4, <2>5, CommentIsThere DEF Purged, IsRoot, CommentsInv
    <2>7. IsRoot(p)' /\ comments'[p].doc = comments[id].doc
        BY <1>7, <2>4, <2>6
    <2> QED BY <2>2, <2>3, <2>7 DEF IsRoot, Exists
<1>9. ASSUME NEW q \in Requests \ {r} PROVE RequestOK(q)'
    <2>1. request'[q] = request[q] /\ \A s \in Requests : request'[s].pc = "inserted" =>
                                          request[s].pc = "inserted" /\ request'[s].id = request[s].id
        BY <1>1, ToMoves DEF CommentPcs, CommentsInv
    <2>2. lastId \in Nat /\ 1..lastId \subseteq Ids
        BY CommentIsThere, CommentsAssumption DEF CommentsInv, CommentsTypeOK
    <2>3. \A id \in Ids : lock[id] = q => id \notin Purged(r)
        BY <1>1, CommentIsThere DEF CommentsInv
    <2> QED BY <1>1, <1>3, <1>5, <1>7, <2>1, <2>2, <2>3, RequestKept DEF CommentsInv
<1>10. RequestOK(r)'
    BY <1>1, ToMoves DEF CommentPcs, RequestOK, Changing, CommentsInv
<1> QED BY <1>4, <1>6, <1>8, <1>9, <1>10 DEF CommentsInv

LEMMA CommentsInvStep == CommentsInv /\ [CommentsNext]_commentVars => CommentsInv'
<1>1. ASSUME CommentsInv, UNCHANGED <<comments, lastId, lock, request>> PROVE CommentsInv'
    BY <1>1 DEF CommentsInv, CommentsTypeOK, NoOrphans, Exists, IsRoot, RequestOK, RootHeld, IdGiven, RowNamed
<1>2. ASSUME CommentsInv, NEW r \in Requests,
             \/ PostRoot(r) \/ PostReply(r) \/ LockRoot(r) \/ InsertReply(r) \/ CommitPost(r)
             \/ Rollback(r) \/ Change(r) \/ WriteRow(r) \/ LockTarget(r) \/ Purge(r)
      PROVE  CommentsInv'
    BY <1>2, InsertedStep, PostReplyStep, LockRootStep, CommitStep, RollbackStep, ChangeStep,
       WriteRowStep, LockTargetStep, PurgeStep
<1>3. ASSUME CommentsInv, StartPaging \/ ReadPage PROVE CommentsInv'
    BY <1>1, <1>3 DEF StartPaging, ReadPage
<1> QED BY <1>1, <1>2, <1>3 DEF CommentsNext, commentVars

LEMMA CommentsInvInit == CommentsInit => CommentsInv
<1> SUFFICES ASSUME CommentsInit PROVE CommentsInv
    OBVIOUS
<1>1. NoRequest \in RequestSet /\ NoRequest.pc = "new"
    BY DEF NoRequest, RequestSet, CommentPcs
<1>2. \A id \in Ids : ~Exists(id)
    BY DEF CommentsInit, Exists
<1>3. CommentsTypeOK
    BY <1>1, CommentsAssumption DEF CommentsInit, CommentsTypeOK
<1>4. \A r \in Requests : request[r].pc = "new"
    BY <1>1 DEF CommentsInit
<1>5. \A r \in Requests : RequestOK(r)
    BY <1>4 DEF RequestOK, Changing
<1> QED BY <1>2, <1>3, <1>5 DEF CommentsInv, NoOrphans

\* However replies race with deletions, every reply has its root, in its document
\* (docCommentRepo.ts createReply and hardDelete).
THEOREM RepliesHaveRoots == CommentsSpec => []NoOrphans
<1>1. CommentsInv => NoOrphans
    BY DEF CommentsInv
<1> QED BY CommentsInvInit, CommentsInvStep, <1>1, PTL DEF CommentsSpec

----------------------------------------------------------------------------
(* Pages.                                                                  *)

LEMMA LastId == ASSUME NEW S \in SUBSET Ids, S # {} PROVE Max(S) \in S /\ \A y \in S : y <= Max(S)
<1>1. MaxComments \in Nat /\ \A x \in S : x \in Nat /\ x <= MaxComments /\ MaxComments - x \in Nat
    BY CommentsAssumption DEF Ids
<1>2. PICK m \in {MaxComments - x : x \in S} : \A y \in {MaxComments - x : x \in S} : m <= y
    <2>1. {MaxComments - x : x \in S} \subseteq Nat /\ {MaxComments - x : x \in S} # {}
        BY <1>1
    <2> QED BY <2>1, LeastId
<1>3. PICK x \in S : m = MaxComments - x
    BY <1>2
<1>4. \A y \in S : x >= y
    <2>1. SUFFICES ASSUME NEW y \in S PROVE x >= y
        OBVIOUS
    <2>2. m <= MaxComments - y
        BY <1>2
    <2> QED BY <1>1, <1>3, <2>2
<1>5. Max(S) \in S /\ \A y \in S : Max(S) >= y
    BY <1>4 DEF Max
<1> QED BY <1>1, <1>5

\* A page takes what is ahead in order: a full one all up to its last, one that is not full
\* all there is.
LEMMA PageTakes ==
    ASSUME NEW c \in Ids \cup {0}, NEW all, NEW d, pager.doc = d, pager.all = all
    PROVE  /\ Page(c) \subseteq {id \in Listed(d, all) : id > c}
           /\ Cardinality(Page(c)) = Limit =>
                /\ Max(Page(c)) \in Page(c) /\ \A x \in Page(c) : x <= Max(Page(c))
                /\ \A id \in Listed(d, all) : id > c /\ id <= Max(Page(c)) => id \in Page(c)
           /\ Cardinality(Page(c)) # Limit => {id \in Listed(d, all) : id > c} \subseteq Page(c)
<1> DEFINE ahead == {id \in Listed(d, all) : id > c}
           before(id) == {x \in ahead : x < id}
           page == {id \in ahead : Cardinality(before(id)) < Limit}
<1>1. Page(c) = page
    BY DEF Page
<1>2. /\ ahead \subseteq Ids /\ Limit \in Nat \ {0} /\ IsFiniteSet(Ids)
      /\ ahead \subseteq Nat /\ \A x \in ahead : x \in Nat
    BY CommentsAssumption, FS_Interval DEF Listed, Ids
<1> HIDE DEF ahead
<1>3. IsFiniteSet(ahead) /\ \A S \in SUBSET ahead : IsFiniteSet(S) /\ Cardinality(S) \in Nat
    BY <1>2, FS_Subset, FS_CardinalityType
<1>4. ASSUME Cardinality(page) = Limit
      PROVE  /\ Max(page) \in page /\ \A x \in page : x <= Max(page)
             /\ \A id \in ahead : id <= Max(page) => id \in page
    <2>1. page # {}
        BY <1>2, <1>4, FS_EmptySet
    <2>2. Max(page) \in page /\ \A x \in page : x <= Max(page)
        BY <1>2, <2>1, LastId
    <2>3. ASSUME NEW id \in ahead, id <= Max(page) PROVE id \in page
        <3>1. before(id) \subseteq before(Max(page))
            <4>1. PICK m \in ahead : m = Max(page)
                BY <2>2
            <4>2. ASSUME NEW x \in ahead, x < id PROVE x < m
                BY <1>2, <2>3, <4>1, <4>2
            <4> QED BY <4>1, <4>2
        <3>2. Cardinality(before(id)) <= Cardinality(before(Max(page)))
            BY <1>3, <3>1, FS_Subset
        <3>3. Cardinality(before(Max(page))) < Limit
            BY <2>2
        <3>4. Cardinality(before(id)) \in Nat /\ Cardinality(before(Max(page))) \in Nat
            BY <1>3
        <3> QED BY <1>2, <3>2, <3>3, <3>4
    <2> QED BY <2>2, <2>3
<1>5. ASSUME Cardinality(page) # Limit PROVE ahead \subseteq page
    <2>1. SUFFICES ASSUME ahead \ page # {} PROVE FALSE
        OBVIOUS
    <2>2. PICK id \in ahead \ page : \A y \in ahead \ page : id <= y
        BY <1>2, <2>1, LeastId
    <2>3. before(id) \subseteq page
        <3>1. SUFFICES ASSUME NEW x \in ahead, x < id, x \notin page PROVE FALSE
            OBVIOUS
        <3>2. x \in ahead \ page /\ id \in ahead
            BY <2>2, <3>1
        <3>3. id <= x
            BY <2>2, <3>2
        <3> HIDE DEF page
        <3> QED BY <1>2, <3>1, <3>2, <3>3
    <2>4. Cardinality(before(id)) <= Cardinality(page) /\ ~(Cardinality(before(id)) < Limit)
        BY <1>3, <2>2, <2>3, FS_Subset
    <2>5. page # {}
        <3>1. before(id) # {}
            BY <1>2, <2>4, FS_EmptySet
        <3> QED BY <2>3, <3>1
    <2>6. PICK last \in page : \A y \in page : y <= last
        BY <1>2, <2>5, LastId
    <2>7. page \subseteq before(last) \cup {last} /\ last \notin before(last)
        <3>1. last \in ahead /\ page \subseteq ahead
            OBVIOUS
        <3>2. ASSUME NEW x \in page, x # last PROVE x < last
            <4>1. x <= last
                BY <2>6
            <4>2. x \in Nat /\ last \in Nat
                BY <1>2, <3>1
            <4> QED BY <3>2, <4>1, <4>2
        <3>3. last \in Nat /\ ~(last < last)
            BY <1>2, <3>1
        <3>4. \A x \in page : x # last => x \in before(last)
            BY <3>1, <3>2
        <3>5. last \notin before(last)
            BY <3>3
        <3> HIDE DEF page, before
        <3> QED BY <3>4, <3>5
    <2>8. Cardinality(page) <= Cardinality(before(last)) + 1
        <3>1. /\ IsFiniteSet(before(last) \cup {last})
              /\ Cardinality(before(last) \cup {last}) = Cardinality(before(last)) + 1
            BY <1>3, <2>7, FS_AddElement
        <3>2. Cardinality(page) <= Cardinality(before(last) \cup {last})
            BY <2>7, <3>1, FS_Subset
        <3> QED BY <3>1, <3>2
    <2>9. Cardinality(before(last)) < Limit
        BY <2>6
    <2>10. Cardinality(page) \in Nat /\ Cardinality(before(last)) \in Nat /\ Cardinality(before(id)) \in Nat
        BY <1>3
    <2> QED BY <1>2, <1>5, <2>4, <2>8, <2>9, <2>10
<1> QED BY <1>1, <1>4, <1>5 DEF ahead

\* The roots that stay listed are listed still, and the others are owed no longer.
LEMMA OwedStaysListed ==
    ASSUME PagerInv, Owe(comments'),
           \A id \in Ids : Exists(id)' => Exists(id) /\ comments'[id].parent = comments[id].parent
                                          /\ comments'[id].doc = comments[id].doc
    PROVE  PagerInv'
<1>1. /\ pager' \in PagerSet /\ pager'.owed \subseteq pager.owed
      /\ \A id \in pager'.owed : comments'[id] # Gone /\ ~comments'[id].deleted
                                 /\ (pager.all \/ ~comments'[id].resolved)
      /\ pager'.pc = pager.pc /\ pager'.doc = pager.doc /\ pager'.all = pager.all
      /\ pager'.cursor = pager.cursor /\ pager'.seen = pager.seen /\ pager'.again = pager.again
    BY DEF PagerInv, PagerSet, Owe
<1>2. pager.owed \subseteq Listed(pager.doc, pager.all) => pager'.owed \subseteq Listed(pager.doc, pager.all)'
    BY <1>1 DEF Listed, IsRoot, Exists, PagerInv, PagerSet
<1> QED BY <1>1, <1>2 DEF PagerInv, PagesComplete

\* The reader's own steps.
LEMMA ReaderStep ==
    ASSUME PagerInv, StartPaging \/ ReadPage
    PROVE  PagerInv'
<1>0. CommentsAssumption
    BY CommentsAssumption
<1>1. CASE StartPaging
    <2>1. PICK d \in Docs, all \in BOOLEAN :
             pager' = [pager EXCEPT !.pc = "paging", !.doc = d, !.all = all, !.owed = Listed(d, all)]
        BY <1>1 DEF StartPaging
    <2>2. Listed(d, all)' = Listed(d, all) /\ Listed(d, all) \subseteq Ids
        BY <1>1 DEF StartPaging, Listed, IsRoot, Exists
    <2>3. /\ pager' \in PagerSet /\ pager'.pc = "paging" /\ pager'.owed = Listed(d, all)
          /\ pager'.doc = d /\ pager'.all = all /\ pager'.seen = {} /\ pager'.cursor = 0 /\ ~pager'.again
        BY <1>1, <2>1, <2>2 DEF StartPaging, PagerInv, PagerSet, PagesComplete
    <2>4. \A id \in pager'.owed : ~(id <= 0)
        BY <2>2, <2>3, <1>0 DEF Ids, CommentsAssumption
    <2> QED BY <2>2, <2>3, <2>4 DEF PagerInv, PagesComplete
<1>2. CASE ReadPage
    <2> DEFINE page == Page(pager.cursor)
               full == Cardinality(page) = Limit
    <2>1. pager.pc = "paging" /\ pager.cursor \in Ids \cup {0} /\ pager.seen \subseteq Ids /\ pager.cursor \in Nat
          /\ \A x \in Ids : x \in Nat
        BY <1>0, <1>2 DEF ReadPage, PagerInv, PagerSet, Ids, CommentsAssumption
    <2>2. /\ page \subseteq {id \in Listed(pager.doc, pager.all) : id > pager.cursor}
          /\ full => /\ Max(page) \in page /\ \A x \in page : x <= Max(page)
                     /\ \A id \in Listed(pager.doc, pager.all) : id > pager.cursor /\ id <= Max(page) => id \in page
          /\ ~full => {id \in Listed(pager.doc, pager.all) : id > pager.cursor} \subseteq page
        BY <2>1, PageTakes
    <2>3. /\ Listed(pager.doc, pager.all) \subseteq Ids
          /\ \A id \in pager.seen : id <= pager.cursor
          /\ pager.owed \subseteq Listed(pager.doc, pager.all)
          /\ \A id \in pager.owed : id <= pager.cursor => id \in pager.seen
        BY <2>1 DEF Listed, PagerInv
    <2>4. pager' = [pager EXCEPT !.seen = @ \cup page, !.again = @ \/ page \cap pager.seen # {},
                                 !.pc = IF full THEN "paging" ELSE "done",
                                 !.cursor = IF full THEN NextCursor(page) ELSE @]
          /\ UNCHANGED comments
        BY <1>2 DEF ReadPage
    <2> HIDE DEF page, full
    <2>5. page \cap pager.seen = {} /\ page \subseteq Ids /\ \A x \in page : x > pager.cursor
        <3>1. \A x \in page : x > pager.cursor /\ x \in Ids
            BY <2>2, <2>3
        <3>2. ASSUME NEW x \in page, x \in pager.seen PROVE FALSE
            <4>1. x \in Nat /\ x <= pager.cursor /\ x > pager.cursor
                BY <2>1, <2>3, <3>1, <3>2
            <4> QED BY <2>1, <4>1
        <3> QED BY <3>1, <3>2
    <2>6. /\ pager' \in PagerSet /\ pager'.pc = (IF full THEN "paging" ELSE "done")
          /\ pager'.seen = pager.seen \cup page /\ pager'.owed = pager.owed /\ ~pager'.again
          /\ pager'.doc = pager.doc /\ pager'.all = pager.all
          /\ full => pager'.cursor = Max(page)
        BY <2>1, <2>2, <2>4, <2>5 DEF PagerInv, PagerSet, PagesComplete, NextCursor
    <2>7. Listed(pager.doc, pager.all)' = Listed(pager.doc, pager.all)
        BY <2>4, <2>6 DEF Listed, IsRoot, Exists
    <2>8. CASE full
        <3>0. PICK m \in page : m = Max(page) /\ m = pager'.cursor
            BY <2>2, <2>6, <2>8
        <3>1. ASSUME NEW id \in pager'.seen PROVE id <= m
            <4>1. CASE id \in page
                BY <2>2, <2>8, <3>0, <4>1
            <4>2. CASE id \in pager.seen
                <5>1. id <= pager.cursor /\ m > pager.cursor /\ id \in Nat /\ m \in Nat
                    BY <2>1, <2>3, <2>5, <4>2
                <5> QED BY <2>1, <5>1
            <4> QED BY <2>6, <3>1, <4>1, <4>2
        <3>2. ASSUME NEW id \in pager'.owed, id <= m PROVE id \in pager'.seen
            <4>1. id \in Listed(pager.doc, pager.all) /\ id \in Nat
                BY <2>1, <2>3, <2>6
            <4>2. CASE id <= pager.cursor
                BY <2>3, <2>6, <4>2
            <4>3. CASE id > pager.cursor
                BY <2>2, <2>6, <2>8, <3>0, <3>2, <4>1, <4>3
            <4> QED BY <2>1, <4>1, <4>2, <4>3
        <3> QED BY <2>3, <2>6, <2>7, <2>8, <3>0, <3>1, <3>2 DEF PagerInv, PagesComplete
    <2>9. CASE ~full
        <3>1. ASSUME NEW id \in pager'.owed PROVE id \in pager'.seen
            <4>1. id \in Listed(pager.doc, pager.all) /\ id \in Nat
                BY <2>1, <2>3, <2>6
            <4>2. CASE id <= pager.cursor
                BY <2>3, <2>6, <4>2
            <4>3. CASE id > pager.cursor
                BY <2>2, <2>6, <2>9, <4>1, <4>3
            <4> QED BY <2>1, <4>1, <4>2, <4>3
        <3> QED BY <2>6, <2>9, <3>1 DEF PagerInv, PagesComplete
    <2> QED BY <2>8, <2>9
<1> QED BY <1>1, <1>2

LEMMA PagerInvStep == CommentsInv /\ PagerInv /\ [CommentsNext]_commentVars => PagerInv'
<1> SUFFICES ASSUME CommentsInv, PagerInv, [CommentsNext]_commentVars PROVE PagerInv'
    OBVIOUS
<1>1. CASE UNCHANGED <<comments, pager>>
    BY <1>1 DEF PagerInv, PagesComplete, Listed, IsRoot, Exists
<1>2. ASSUME NEW r \in Requests, CommitPost(r) PROVE PagerInv'
    <2>1. ~Exists(request[r].id) /\ UNCHANGED pager
        BY <1>2 DEF CommitPost, CommentsInv, RequestOK, IdGiven
    <2>2. \A id \in Ids : Exists(id) => comments'[id] = comments[id]
        BY <1>2, <2>1 DEF CommitPost, CommentsInv, CommentsTypeOK
    <2>3. Listed(pager.doc, pager.all) \subseteq Listed(pager.doc, pager.all)'
        BY <2>1, <2>2 DEF Listed, IsRoot, Exists
    <2> QED BY <2>1, <2>3 DEF PagerInv, PagesComplete
<1>3. ASSUME NEW r \in Requests, WriteRow(r) PROVE PagerInv'
    <2>1. Owe(comments')
        BY <1>3 DEF WriteRow, Owe
    <2>2. \A id \in Ids : Exists(id)' => Exists(id) /\ comments'[id].parent = comments[id].parent
                                         /\ comments'[id].doc = comments[id].doc
        BY <1>3, WroteRow
    <2> QED BY <2>1, <2>2, OwedStaysListed
<1>4. ASSUME NEW r \in Requests, Purge(r) PROVE PagerInv'
    <2>1. Owe(comments')
        BY <1>4 DEF Purge, Owe
    <2>2. \A id \in Ids : Exists(id)' => Exists(id) /\ comments'[id] = comments[id]
        BY <1>4 DEF Purge, Exists
    <2> QED BY <2>1, <2>2, OwedStaysListed
<1>5. CASE StartPaging \/ ReadPage
    BY <1>5, ReaderStep
<1>6. ASSUME NEW r \in Requests,
             PostRoot(r) \/ PostReply(r) \/ LockRoot(r) \/ InsertReply(r) \/ Rollback(r) \/ Change(r) \/ LockTarget(r)
      PROVE  UNCHANGED <<comments, pager>>
    BY <1>6 DEF PostRoot, PostReply, LockRoot, InsertReply, Rollback, Change, LockTarget
<1> QED BY <1>1, <1>2, <1>3, <1>4, <1>5, <1>6 DEF CommentsNext, commentVars

\* Whatever is added, resolved and deleted while a reader pages through the roots: it has
\* had each that stayed listed, and none twice (docCommentRepo.ts listRoots).
THEOREM PagesAreComplete == CommentsSpec => []PagesComplete
<1>1. CommentsInit => PagerInv
    BY DEF CommentsInit, PagerInv, PagerSet, PagesComplete
<1>2. PagerInv => PagesComplete
    BY DEF PagerInv
<1> QED BY CommentsInvInit, CommentsInvStep, PagerInvStep, <1>1, <1>2, PTL DEF CommentsSpec

----------------------------------------------------------------------------
(* Lists. The rows of the view history are the user's last views, one for  *)
(* each document, so those ahead of a row are the views that came later.   *)

ListsTypeOK ==
    /\ meta \in [Documents -> [status : Statuses, share : Shares]]
    /\ direct \in [Documents -> 0..4]
    /\ inSpaces \subseteq SpaceSet
    /\ clock \in Nat
    /\ viewing \in Documents \cup {NotViewing}
    /\ latest \in [Documents -> Nat \cup {-1}]

ViewOf(d) == [doc |-> d, space |-> Homes[d], at |-> latest[d]]

ListsInv ==
    /\ ListsTypeOK
    /\ \A d \in Documents : latest[d] <= clock
    /\ views \subseteq {ViewOf(d) : d \in Documents}
    /\ \A d \in Documents : Remembered(d) => ViewOf(d) \in views

Later(d) == {e \in Documents : Homes[e] = Homes[d] /\ (latest[e] > latest[d] \/ (latest[e] = latest[d] /\ e > d))}

LEMMA NumbersAre ==
    ASSUME ListsTypeOK
    PROVE  /\ clock \in Nat /\ Keep \in Nat /\ Days \in Nat /\ IsFiniteSet(Documents)
           /\ \A d \in Documents : d \in Nat /\ latest[d] \in Int
           /\ NotViewing \notin Documents
           /\ \A S \in SUBSET Documents : IsFiniteSet(S) /\ Cardinality(S) \in Nat
<1>1. \A S \in SUBSET Documents : IsFiniteSet(S) /\ Cardinality(S) \in Nat
    BY ListsAssumption, FS_Subset, FS_CardinalityType
<1> QED BY <1>1, ListsAssumption DEF ListsTypeOK, NotViewing

LEMMA RecordViewStep ==
    ASSUME ListsInv, RecordView
    PROVE  ListsInv'
<1>0. PICK x \in Documents : x = viewing
    BY NumbersAre DEF RecordView, ListsInv, ListsTypeOK
<1> DEFINE s == Homes[x]
           new == [doc |-> x, space |-> s, at |-> clock]
           others == {v \in views : ~(v.doc = x /\ v.space = s)}
           rows == others \cup {new}
           here == {v \in rows : v.space = s}
<1>1. /\ views' = Aged(Pruned(rows, s)) /\ latest' = [latest EXCEPT ![x] = clock] /\ viewing' = NotViewing
      /\ UNCHANGED <<meta, direct, inSpaces, clock, changes>>
    BY <1>0 DEF RecordView
<1>2. /\ latest'[x] = clock /\ \A d \in Documents \ {x} : latest'[d] = latest[d]
      /\ latest' \in [Documents -> Nat \cup {-1}]
      /\ \A d \in Documents : latest'[d] \in Int /\ latest'[d] <= clock' /\ latest[d] <= latest'[d]
    BY <1>1, NumbersAre DEF ListsInv, ListsTypeOK
<1>3. ListsTypeOK'
    BY <1>1, <1>2 DEF ListsInv, ListsTypeOK
<1>4. \A v \in rows : v.doc \in Documents /\ v = [doc |-> v.doc, space |-> Homes[v.doc], at |-> latest'[v.doc]]
    <2>1. SUFFICES ASSUME NEW v \in rows
                   PROVE  v.doc \in Documents /\ v = [doc |-> v.doc, space |-> Homes[v.doc], at |-> latest'[v.doc]]
        OBVIOUS
    <2>2. CASE v = new
        BY <1>2, <2>2
    <2>3. CASE v \in others
        <3>1. PICK d \in Documents : v = [doc |-> d, space |-> Homes[d], at |-> latest[d]]
            BY <2>3 DEF ListsInv, ViewOf
        <3>2. d # x /\ v.doc = d
            BY <2>3, <3>1
        <3> QED BY <1>2, <3>1, <3>2
    <2> QED BY <2>2, <2>3
<1>5. views' \subseteq rows
    BY <1>1 DEF Aged, Pruned, NewestOf
<1>6. views' \subseteq {ViewOf(d) : d \in Documents}'
    BY <1>4, <1>5 DEF ViewOf
<1>7. ASSUME NEW d \in Documents, Remembered(d)' PROVE ViewOf(d)' \in views'
    <2> DEFINE v == [doc |-> d, space |-> Homes[d], at |-> latest'[d]]
    <2>1. v \in rows
        <3>1. CASE d = x
            BY <1>2, <3>1
        <3>2. CASE d # x
            <4>1. Later(d) \subseteq Later(d)'
                <5>1. SUFFICES ASSUME NEW e \in Later(d) PROVE e \in Later(d)'
                    OBVIOUS
                <5>2. e \in Documents /\ latest'[d] = latest[d] /\ latest[e] <= latest'[e]
                      /\ latest[d] \in Int /\ latest[e] \in Int /\ latest'[e] \in Int
                    BY <1>2, <3>2, NumbersAre DEF Later, ListsInv
                <5> QED BY <5>2 DEF Later
            <4>2. Cardinality(Later(d)) <= Cardinality(Later(d)')
                <5>1. IsFiniteSet(Later(d)')
                    BY NumbersAre DEF Later, ListsInv
                <5> QED BY <4>1, <5>1, FS_Subset
            <4>3. Cardinality(Later(d)) \in Nat /\ Cardinality(Later(d)') \in Nat
                BY NumbersAre DEF Later, ListsInv
            <4>4. latest'[d] = latest[d] /\ clock' = clock
                BY <1>1, <1>2, <3>2
            <4>5. Keep = 0 \/ Cardinality(Later(d)') < Keep
                BY <1>7 DEF Remembered, Later
            <4>6. Keep = 0 \/ Cardinality(Later(d)) < Keep
                BY <4>2, <4>3, <4>5, NumbersAre DEF ListsInv
            <4>7. latest[d] >= 0 /\ (Days = 0 \/ latest[d] >= clock - Days)
                BY <1>7, <4>4 DEF Remembered
            <4>8. Remembered(d)
                BY <4>6, <4>7 DEF Remembered, Later
            <4>9. v \in views
                BY <4>4, <4>8 DEF ListsInv, ViewOf
            <4> QED BY <3>2, <4>9
        <3> QED BY <3>1, <3>2
    <2>2. v \in Pruned(rows, s)
        <3>1. CASE Keep = 0 \/ v.space # s
            BY <2>1, <3>1 DEF Pruned
        <3>2. CASE Keep # 0 /\ v.space = s
            <4> DEFINE ahead == {w \in here : Before(w, v)}
                       later == {e \in Documents : Homes[e] = Homes[d] /\
                                    (latest'[e] > latest'[d] \/ (latest'[e] = latest'[d] /\ e > d))}
                       f == [w \in ahead |-> w.doc]
            <4>1. \A w \in ahead : w.doc \in later
                <5>1. SUFFICES ASSUME NEW w \in ahead PROVE w.doc \in later
                    OBVIOUS
                <5>2. PICK e \in Documents : w = [doc |-> e, space |-> Homes[e], at |-> latest'[e]]
                    BY <1>4
                <5>3. Homes[e] = Homes[d] /\ (latest'[e] > latest'[d] \/ (latest'[e] = latest'[d] /\ e > d))
                    BY <3>2, <5>2 DEF Before
                <5> QED BY <5>2, <5>3
            <4>2. \A w, y \in ahead : w.doc = y.doc => w = y
                BY <1>4
            <4> HIDE DEF ahead, later
            <4>3. f \in Injection(ahead, later)
                BY <4>1, <4>2 DEF Injection, IsInjective
            <4>4. IsFiniteSet(later) /\ Cardinality(later) \in Nat
                BY NumbersAre DEF later, ListsInv
            <4>5. IsFiniteSet(ahead) /\ Cardinality(ahead) <= Cardinality(later)
                BY <4>3, <4>4, FS_Injection
            <4>6. Cardinality(later) < Keep
                BY <1>7, <3>2 DEF Remembered, later
            <4>7. Cardinality(ahead) < Keep
                BY <4>4, <4>5, <4>6, FS_CardinalityType, NumbersAre DEF ListsInv
            <4>8. v \in NewestOf(here)
                <5>1. v \in here
                    BY <2>1, <3>2
                <5>2. Cardinality({w \in here : Before(w, v)}) < Keep
                    BY <4>7 DEF ahead
                <5> HIDE DEF here, v
                <5> QED BY <5>1, <5>2 DEF NewestOf
            <4> HIDE DEF rows, v, s
            <4> QED BY <2>1, <3>2, <4>8 DEF Pruned
        <3> QED BY <3>1, <3>2
    <2>3. Days = 0 \/ v.at >= clock - Days
        BY <1>1, <1>7 DEF Remembered
    <2>4. v \in views'
        BY <1>1, <2>2, <2>3 DEF Aged
    <2> QED BY <2>4 DEF ViewOf
<1> QED BY <1>2, <1>3, <1>6, <1>7 DEF ListsInv

LEMMA ListsInvStep == ListsInv /\ [ListsNext]_listVars => ListsInv'
<1> SUFFICES ASSUME ListsInv, [ListsNext]_listVars PROVE ListsInv'
    OBVIOUS
<1>1. CASE UNCHANGED <<views, clock, latest>> /\ ListsTypeOK'
    BY <1>1 DEF ListsInv, Remembered, ViewOf
<1>2. CASE Others
    <2>1. ListsTypeOK'
        <3>1. /\ UNCHANGED <<clock, viewing, latest>>
              /\ meta' \in [Documents -> [status : Statuses, share : Shares]] /\ direct' \in [Documents -> 0..4]
              /\ inSpaces' \subseteq SpaceSet
            <4>1. ASSUME NEW d \in Documents, NEW st \in Statuses, meta' = [meta EXCEPT ![d].status = st]
                  PROVE  meta' \in [Documents -> [status : Statuses, share : Shares]]
                BY <4>1 DEF ListsInv, ListsTypeOK
            <4>2. ASSUME NEW d \in Documents, NEW sh \in Shares, meta' = [meta EXCEPT ![d].share = sh]
                  PROVE  meta' \in [Documents -> [status : Statuses, share : Shares]]
                BY <4>2 DEF ListsInv, ListsTypeOK
            <4> QED BY <1>2, <4>1, <4>2 DEF Others, ListsInv, ListsTypeOK
        <3> QED BY <3>1 DEF ListsInv, ListsTypeOK
    <2> QED BY <1>1, <1>2, <2>1 DEF Others
<1>3. CASE Tick
    <2>1. clock' = clock + 1 /\ clock \in Nat /\ UNCHANGED <<meta, direct, inSpaces, views, viewing, latest, changes>>
        BY <1>3, NumbersAre DEF Tick, ListsInv
    <2>2. \A d \in Documents : latest[d] <= clock' /\ (Remembered(d)' => Remembered(d))
        <3>1. SUFFICES ASSUME NEW d \in Documents PROVE latest[d] <= clock' /\ (Remembered(d)' => Remembered(d))
            OBVIOUS
        <3>2. latest[d] \in Int /\ latest[d] <= clock /\ Days \in Nat
            BY NumbersAre DEF ListsInv
        <3> QED BY <2>1, <3>2 DEF Remembered
    <2> QED BY <2>1, <2>2 DEF ListsInv, ListsTypeOK, ViewOf
<1>4. CASE OpenDoc
    BY <1>1, <1>4 DEF OpenDoc, ListsInv, ListsTypeOK
<1>5. CASE UNCHANGED listVars
    BY <1>1, <1>5 DEF listVars, ListsInv, ListsTypeOK
<1> QED BY <1>2, <1>3, <1>4, <1>5, RecordViewStep DEF ListsNext

LEMMA ListsInvInit == ListsInit => ListsInv
<1> SUFFICES ASSUME ListsInit PROVE ListsInv
    OBVIOUS
<1>1. ListsTypeOK
    BY DEF ListsInit, ListsTypeOK, Statuses, Shares
<1>2. \A d \in Documents : latest[d] = -1 /\ ~Remembered(d)
    BY DEF ListsInit, Remembered
<1> QED BY <1>1, <1>2 DEF ListsInit, ListsInv

----------------------------------------------------------------------------
(* What the queries say of a document, and what the guard says of it.      *)

LEMMA RoleAgrees ==
    ASSUME ListsTypeOK, NEW d \in Documents, NEW s, Homes[d] = s
    PROVE  /\ Projected(d, Owned, s \in inSpaces) = EffectiveRole(d)
           /\ EffectiveRole(d) # 0 <=> \/ d \in Owned \/ MemberRow(d)
                                       \/ (s \in inSpaces /\ meta[d].share # "restricted")
<1>1. direct[d] \in {0, 1, 2, 3, 4} /\ meta[d].share \in Shares
    BY DEF ListsTypeOK
<1>2. Rank(0) = 0 /\ Rank(1) = 10 /\ Rank(4) = 20 /\ Rank(2) = 30 /\ Rank(3) = 40
    BY DEF Rank
<1>3. CASE d \in Owned
    BY <1>1, <1>2, <1>3 DEF Projected, EffectiveRole, DirectRole, ShareDerived, Shares
<1>4. CASE d \notin Owned /\ (meta[d].share = "restricted" \/ s \notin inSpaces)
    BY <1>1, <1>2, <1>4 DEF Projected, EffectiveRole, DirectRole, ShareDerived, MemberRow
<1>5. CASE d \notin Owned /\ meta[d].share # "restricted" /\ s \in inSpaces
    BY <1>1, <1>2, <1>5 DEF Projected, EffectiveRole, DirectRole, ShareDerived, MemberRow, MergedRole, Shares
<1> QED BY <1>3, <1>4, <1>5

LEMMA ListsInvMirrors == ListsInv => ListsMirrorGuard
<1> SUFFICES ASSUME ListsInv, NEW s \in SpaceSet
             PROVE  LET member == s \in inSpaces
                        active(list) == {e \in list : meta[e.doc].status = "active"}
                    IN  /\ VisibleDocIdSet(s, member) = {e.doc : e \in Permitted(s)}
                        /\ \A m \in {FALSE, member} :
                            SearchDocs(s, m, Documents) \subseteq VisibleDocIdSet(s, member)
                        /\ active(ListDocs(s, FALSE, member)) = Permitted(s)
                        /\ Recents(s, member) \subseteq Permitted(s)
                        /\ \A e \in Permitted(s) : Remembered(e.doc) => e \in Recents(s, member)
    BY DEF ListsMirrorGuard
<1> DEFINE member == s \in inSpaces
           active(list) == {e \in list : meta[e.doc].status = "active"}
           seen(d) == Homes[d] = s /\ meta[d].status = "active"
                      /\ (d \in Owned \/ MemberRow(d) \/ (member /\ meta[d].share # "restricted"))
<1>1. \A d \in Documents : seen(d) <=> Readable(d, s)
    BY RoleAgrees DEF Readable, ListsInv
<1>2. \A d \in Documents : Homes[d] = s => Projected(d, Owned, member) = EffectiveRole(d)
    BY RoleAgrees DEF ListsInv
<1>3. Permitted(s) = {[doc |-> d, role |-> EffectiveRole(d)] : d \in {x \in Documents : Readable(x, s)}}
    BY DEF Permitted, Entry
<1>4. VisibleDocIdSet(s, member) = {d \in Documents : seen(d)}
    BY DEF VisibleDocIdSet
<1> DEFINE entry(d) == [doc |-> d, role |-> EffectiveRole(d)]
<1>a. \A d \in Documents : Readable(d, s) => entry(d) \in Permitted(s) /\ entry(d).doc = d
    BY <1>3
<1>b. \A e \in Permitted(s) : e.doc \in Documents /\ Readable(e.doc, s) /\ e = entry(e.doc)
    BY <1>3
<1> HIDE DEF entry
<1>5. VisibleDocIdSet(s, member) = {e.doc : e \in Permitted(s)}
    <2>1. ASSUME NEW d \in Documents, seen(d) PROVE \E e \in Permitted(s) : d = e.doc
        BY <1>1, <1>a, <2>1
    <2>2. ASSUME NEW e \in Permitted(s) PROVE e.doc \in Documents /\ seen(e.doc)
        BY <1>1, <1>b
    <2> HIDE DEF seen
    <2> QED BY <1>4, <2>1, <2>2
<1>6. ASSUME NEW m \in {FALSE, member} PROVE SearchDocs(s, m, Documents) \subseteq VisibleDocIdSet(s, member)
    <2>1. VisibleDocIdSet(s, m) \subseteq VisibleDocIdSet(s, member)
        BY DEF VisibleDocIdSet
    <2> QED BY <2>1 DEF SearchDocs
<1>7. active(ListDocs(s, FALSE, member)) = Permitted(s)
    <2>1. ListForUser(s, FALSE, ~FALSE /\ member) =
             {[doc |-> d, role |-> Projected(d, Owned, member)] :
                d \in {x \in Documents : meta[x].status # "deleted" /\ Homes[x] = s
                                         /\ (x \in Owned \/ MemberRow(x) \/ (member /\ meta[x].share # "restricted"))}}
        BY DEF ListForUser, Entry
    <2>2. ASSUME NEW e \in active(ListDocs(s, FALSE, member)) PROVE e \in Permitted(s)
        <3>1. PICK d \in Documents : /\ e = [doc |-> d, role |-> Projected(d, Owned, member)] /\ Homes[d] = s
                                     /\ d \in Owned \/ MemberRow(d) \/ (member /\ meta[d].share # "restricted")
            BY <2>1 DEF ListDocs, Shown
        <3>2. seen(d) /\ e = entry(d)
            BY <1>2, <3>1 DEF entry
        <3> QED BY <1>1, <1>a, <3>2
    <2>3. ASSUME NEW e \in Permitted(s) PROVE e \in active(ListDocs(s, FALSE, member))
        <3>1. PICK d \in Documents : d = e.doc /\ seen(d) /\ e = entry(d) /\ Readable(d, s)
            BY <1>1, <1>b
        <3>2. e = [doc |-> d, role |-> Projected(d, Owned, member)] /\ e.role # 0
            BY <1>2, <3>1 DEF entry, Readable
        <3>3. e \in ListForUser(s, FALSE, ~FALSE /\ member)
            BY <2>1, <3>1, <3>2
        <3> QED BY <3>1, <3>2, <3>3 DEF ListDocs, Shown
    <2> QED BY <2>2, <2>3
<1>8. Recents(s, member) = {e \in Permitted(s) : \E v \in views : v.doc = e.doc}
    <2>1. \A v \in views : v.doc \in Documents /\ v.space = Homes[v.doc]
        BY DEF ListsInv, ViewOf
    <2>2. ListRecent(s, member) = {[doc |-> v.doc, role |-> EffectiveRole(v.doc)] : v \in {x \in views : seen(x.doc)}}
        BY <1>2, <2>1 DEF ListRecent, Entry
    <2> QED BY <1>1, <1>3, <2>1, <2>2 DEF Recents, Shown, Readable
<1>9. ASSUME NEW e \in Permitted(s), Remembered(e.doc) PROVE e \in Recents(s, member)
    <2>1. e.doc \in Documents
        BY <1>3
    <2>2. ViewOf(e.doc) \in views /\ ViewOf(e.doc).doc = e.doc
        BY <1>9, <2>1 DEF ListsInv, ViewOf
    <2> QED BY <1>8, <2>2
<1> QED BY <1>5, <1>6, <1>7, <1>8, <1>9

\* The document list, the recently viewed and the search say what the guard of a read would,
\* and a view is remembered while it is new enough (docMetaRepo.ts listForUser and
\* listVisibleDocIdSet, docViewHistoryRepo.ts upsertViewWithPrune).
THEOREM ListsSayWhatTheGuardSays == ListsSpec => []ListsMirrorGuard
BY ListsInvInit, ListsInvStep, ListsInvMirrors, PTL DEF ListsSpec

----------------------------------------------------------------------------
(* Cards. The ledger has rows only when the cards are out, so a card that  *)
(* was edited gets no buttons afterwards; and without a fault whatever was *)
(* listed is edited and marked.                                            *)

CardPcs == {"none", "edit", "mark", "renotify", "done"}
CardTexts == {"buttons", "text"} \cup Terminal
NotifySet == [pc : {"posting", "done"}, todo : SUBSET People, found : SUBSET People, late : BOOLEAN]
SyncSet == [pc : {"idle", "listing", "editing", "done"}, by : People, handled : BOOLEAN,
            listed : SUBSET People, at : [People -> CardPcs]]

CardsTypeOK ==
    /\ deciders \subseteq People /\ verdict \in {"pending"} \cup Terminal
    /\ shown \in [People -> SUBSET CardTexts]
    /\ ledger \in [People -> {"none", "active", "terminalized"}]
    /\ notify \in NotifySet
    /\ sync \in SyncSet
    /\ cardFaults \in Nat

Told(a) == verdict \in shown[a] /\ "buttons" \notin shown[a]

PersonOK(a) ==
    /\ shown[a] \cap Terminal \subseteq {verdict}
    /\ ledger[a] # "none" => notify.pc = "done"
    /\ ledger[a] = "terminalized" => Told(a)
    /\ sync.at[a] # "none" <=> a \in sync.listed
    /\ a \in sync.listed => notify.pc = "done" /\ ledger[a] # "none"
    /\ sync.at[a] = "mark" => Told(a)

NoFaultOK(a) ==
    /\ sync.pc = "done" => a \notin sync.listed
    /\ sync.at[a] # "renotify"
    /\ sync.at[a] = "done" => ledger[a] = "terminalized"
    /\ ledger[a] = "active" /\ sync.pc \in {"editing", "done"} =>
          a \in sync.listed \/ notify.late \/ (sync.handled /\ a = sync.by)

CardsInv ==
    /\ CardsTypeOK
    /\ verdict = "pending" <=> sync.pc = "idle"
    /\ sync.pc = "idle" => ~sync.handled
    /\ sync.pc \in {"idle", "listing"} => sync.listed = {}
    /\ \A a \in People : PersonOK(a) /\ (cardFaults = 0 => NoFaultOK(a))

LEMMA FaultsCount ==
    ASSUME CardsInv, Fault \/ NoFault
    PROVE  cardFaults' \in Nat /\ (cardFaults' = 0 => cardFaults = 0 /\ ~Fault)
BY DEF Fault, NoFault, CardsInv, CardsTypeOK

LEMMA PostCardStep ==
    ASSUME CardsInv, NEW a \in People, PostCard(a)
    PROVE  CardsInv'
<1>1. /\ UNCHANGED <<deciders, verdict, ledger, sync>> /\ notify.pc = "posting"
      /\ cardFaults' \in Nat /\ (cardFaults' = 0 => cardFaults = 0)
    BY FaultsCount DEF PostCard
<1>2. notify' \in NotifySet /\ notify'.pc = notify.pc /\ notify'.late = notify.late
    <2>1. \/ notify' = [[notify EXCEPT !.todo = notify.todo \ {a}] EXCEPT !.found = notify.found \cup {a}]
          \/ notify' = [notify EXCEPT !.todo = notify.todo \ {a}]
        <3>1. CASE notify' = [notify EXCEPT !.todo = @ \ {a}, !.found = @ \cup {a}]
            BY <3>1 DEF CardsInv, CardsTypeOK, NotifySet
        <3>2. CASE notify' = [notify EXCEPT !.todo = @ \ {a}]
            BY <3>2
        <3> QED BY <3>1, <3>2 DEF PostCard
    <2>2. notify.todo \ {a} \in SUBSET People /\ notify.found \cup {a} \in SUBSET People /\ notify \in NotifySet
        BY DEF CardsInv, CardsTypeOK, NotifySet
    <2>3. CASE notify' = [[notify EXCEPT !.todo = notify.todo \ {a}] EXCEPT !.found = notify.found \cup {a}]
        BY <2>2, <2>3 DEF NotifySet
    <2>4. CASE notify' = [notify EXCEPT !.todo = notify.todo \ {a}]
        BY <2>2, <2>4 DEF NotifySet
    <2> QED BY <2>1, <2>3, <2>4
<1>3. \E s \in {shown[a], shown[a] \cup {"buttons"}, shown[a] \cup {"text"}} : shown' = [shown EXCEPT ![a] = s]
    <2>1. shown = [shown EXCEPT ![a] = shown[a]]
        BY DEF CardsInv, CardsTypeOK
    <2> QED BY <2>1 DEF PostCard
<1>4. /\ shown' \in [People -> SUBSET CardTexts]
      /\ \A b \in People : shown'[b] \cap Terminal = shown[b] \cap Terminal
    BY <1>3 DEF CardsInv, CardsTypeOK, CardTexts, Terminal
<1>5. ASSUME NEW b \in People PROVE PersonOK(b)' /\ (cardFaults' = 0 => NoFaultOK(b)')
    <2>1. ledger[b] = "none" /\ b \notin sync.listed /\ sync.at[b] = "none" /\ PersonOK(b)
        BY <1>1 DEF CardsInv, PersonOK
    <2> QED BY <1>1, <1>2, <1>4, <2>1 DEF PersonOK, CardsInv, NoFaultOK
<1> QED BY <1>1, <1>2, <1>4, <1>5 DEF CardsInv, CardsTypeOK

\* The ledger is written once, by the task that is still posting.
LEMMA RecordCardsStep ==
    ASSUME CardsInv, Record
    PROVE  CardsInv'
<1>1. /\ UNCHANGED <<deciders, verdict, shown, sync>> /\ notify.pc = "posting"
      /\ cardFaults' \in Nat /\ (cardFaults' = 0 => cardFaults = 0)
    BY FaultsCount DEF Record
<1>2. /\ notify' \in NotifySet /\ notify'.pc = "done"
      /\ notify'.late = (sync.pc \notin {"idle", "listing"})
    BY DEF Record, CardsInv, CardsTypeOK, NotifySet
<1>3. \A b \in People : ledger[b] = "none" /\ b \notin sync.listed /\ sync.at[b] = "none"
    BY <1>1 DEF CardsInv, PersonOK
<1>4. ledger' \in [People -> {"none", "active"}]
    BY <1>3 DEF Record, CardsInv, CardsTypeOK
<1>5. ASSUME NEW b \in People PROVE PersonOK(b)' /\ (cardFaults' = 0 => NoFaultOK(b)')
    <2>1. PersonOK(b) /\ ledger'[b] # "terminalized"
        BY <1>4 DEF CardsInv
    <2> QED BY <1>1, <1>2, <1>3, <2>1 DEF PersonOK, NoFaultOK
<1> QED BY <1>1, <1>2, <1>4, <1>5 DEF CardsInv, CardsTypeOK

LEMMA DecideStep ==
    ASSUME CardsInv, NEW by \in People, NEW handled \in BOOLEAN, NEW outcome \in Terminal, Decide(by, handled, outcome)
    PROVE  CardsInv'
<1>1. /\ UNCHANGED <<deciders, shown, ledger, notify, cardFaults>> /\ verdict' = outcome
      /\ verdict = "pending" /\ sync.pc = "idle" /\ sync.listed = {}
    BY DEF Decide, CardsInv
<1>2. /\ sync' \in SyncSet /\ sync'.pc = "listing" /\ sync'.listed = sync.listed /\ sync'.at = sync.at
    BY DEF Decide, CardsInv, CardsTypeOK, SyncSet
<1>3. ASSUME NEW b \in People PROVE PersonOK(b)' /\ (cardFaults' = 0 => NoFaultOK(b)')
    <2>1. sync.at[b] = "none" /\ shown[b] \cap Terminal = {} /\ ledger[b] # "terminalized" /\ PersonOK(b)
        BY <1>1 DEF CardsInv, CardsTypeOK, CardTexts, PersonOK, Told, Terminal
    <2> QED BY <1>1, <1>2, <2>1 DEF PersonOK, NoFaultOK
<1> QED BY <1>1, <1>2, <1>3 DEF CardsInv, CardsTypeOK, Terminal

\* A card is made to tell the outcome: by octo-server, by an edit, or by another card.
LEMMA TellsStep ==
    ASSUME CardsInv, NEW a \in People, verdict # "pending", UNCHANGED <<deciders, verdict, ledger, notify>>,
           \/ shown' = [shown EXCEPT ![a] = (@ \ {"buttons"}) \cup {verdict}]
           \/ shown' = [shown EXCEPT ![a] = @ \cup {verdict}] /\ sync.at[a] = "renotify"
           \/ UNCHANGED shown,
           ledger[a] = "terminalized" => Told(a)',
           sync' \in SyncSet, sync'.pc = sync.pc, sync'.listed = sync.listed, sync'.handled = sync.handled,
           sync'.by = sync.by, \A b \in People \ {a} : sync'.at[b] = sync.at[b],
           sync'.at[a] # "none" <=> sync.at[a] # "none",
           sync'.at[a] = "mark" => Told(a)',
           cardFaults' \in Nat,
           cardFaults' = 0 => /\ cardFaults = 0 /\ sync'.at[a] # "renotify"
                              /\ sync'.at[a] = "done" => ledger[a] = "terminalized"
    PROVE  CardsInv'
<1>1. shown' \in [People -> SUBSET CardTexts] /\ verdict \in Terminal
    BY DEF CardsInv, CardsTypeOK, CardTexts, Terminal
<1>2. ASSUME NEW b \in People PROVE PersonOK(b)'
    <2>1. PersonOK(b)
        BY DEF CardsInv
    <2>2. CASE b = a
        <3>1. shown'[a] \subseteq shown[a] \cup {verdict}
            BY DEF CardsInv, CardsTypeOK
        <3> QED BY <2>1, <2>2, <3>1 DEF PersonOK
    <2>3. CASE b # a
        <3>1. shown'[b] = shown[b] /\ sync'.at[b] = sync.at[b]
            BY <2>3 DEF CardsInv, CardsTypeOK
        <3> QED BY <2>1, <3>1 DEF PersonOK, Told
    <2> QED BY <2>2, <2>3
<1>3. ASSUME NEW b \in People, cardFaults' = 0 PROVE NoFaultOK(b)'
    <2>1. NoFaultOK(b)
        BY <1>3 DEF CardsInv
    <2> QED BY <1>3, <2>1 DEF NoFaultOK
<1> QED BY <1>1, <1>2, <1>3 DEF CardsInv, CardsTypeOK

LEMMA FinalizeStep ==
    ASSUME CardsInv, Finalize
    PROVE  CardsInv'
<1>1. sync.by \in People /\ verdict # "pending" /\ sync \in SyncSet /\ cardFaults \in Nat
    BY DEF Finalize, CardsInv, CardsTypeOK, SyncSet
<1>2. Told(sync.by)'
    BY <1>1 DEF Told, Finalize, CardsInv, CardsTypeOK, Terminal
<1>3. cardFaults = 0 => NoFaultOK(sync.by)
    BY <1>1 DEF CardsInv
<1>4. /\ UNCHANGED <<deciders, verdict, ledger, notify, sync, cardFaults>>
      /\ shown' = [shown EXCEPT ![sync.by] = (@ \ {"buttons"}) \cup {verdict}]
    BY DEF Finalize
<1> QED BY <1>1, <1>2, <1>3, <1>4, TellsStep DEF NoFaultOK

LEMMA ListCardsStep ==
    ASSUME CardsInv, ListCards
    PROVE  CardsInv'
<1>0. /\ UNCHANGED <<deciders, verdict, shown, ledger, notify>> /\ sync.pc = "listing" /\ sync.listed = {}
      /\ cardFaults' \in Nat /\ (cardFaults' = 0 => cardFaults = 0 /\ ~Fault)
      /\ sync \in SyncSet /\ \A b \in People : sync.at[b] = "none"
    BY FaultsCount DEF ListCards, CardsInv, CardsTypeOK, PersonOK
<1>1. CASE Fault /\ sync' = [sync EXCEPT !.pc = "done"]
    <2>1. sync' \in SyncSet /\ sync'.pc = "done" /\ sync'.listed = {} /\ sync'.at = sync.at
        BY <1>0, <1>1 DEF SyncSet
    <2>2. \A b \in People : PersonOK(b)'
        BY <1>0, <2>1 DEF CardsInv, PersonOK, Told
    <2> QED BY <1>0, <1>1, <2>1, <2>2 DEF CardsInv, CardsTypeOK
<1>2. CASE NoFault /\ LET cards == Siblings({a \in People : ledger[a] # "none"})
                      IN  sync' = [sync EXCEPT !.pc = IF cards = {} THEN "done" ELSE "editing",
                                      !.listed = cards,
                                      !.at = [a \in People |-> IF a \in cards THEN "edit" ELSE "none"]]
    <2> DEFINE cards == Siblings({a \in People : ledger[a] # "none"})
    <2>1. /\ cards \subseteq {a \in People : ledger[a] # "none"}
          /\ \A a \in People : ledger[a] # "none" => a \in cards \/ (sync.handled /\ a = sync.by)
        BY DEF Siblings
    <2>2. sync' = [sync EXCEPT !.pc = IF cards = {} THEN "done" ELSE "editing", !.listed = cards,
                               !.at = [a \in People |-> IF a \in cards THEN "edit" ELSE "none"]]
        BY <1>2
    <2> HIDE DEF cards
    <2>3. /\ sync' \in SyncSet /\ sync'.pc = (IF cards = {} THEN "done" ELSE "editing")
          /\ sync'.listed = cards /\ sync'.handled = sync.handled /\ sync'.by = sync.by
          /\ \A a \in People : sync'.at[a] = IF a \in cards THEN "edit" ELSE "none"
        BY <1>0, <2>1, <2>2 DEF SyncSet, CardPcs
    <2>4. \A b \in People : PersonOK(b)'
        BY <1>0, <2>1, <2>3 DEF CardsInv, PersonOK, Told
    <2>5. \A b \in People : NoFaultOK(b)'
        BY <1>0, <2>1, <2>3 DEF NoFaultOK
    <2> QED BY <1>0, <2>3, <2>4, <2>5 DEF CardsInv, CardsTypeOK
<1> QED BY <1>1, <1>2 DEF ListCards

\* One card of those that were listed is edited, sent again or marked.
LEMMA GoesTo ==
    ASSUME CardsInv, NEW a \in People, NEW to \in CardPcs, Goes(a, to)
    PROVE  /\ sync' \in SyncSet /\ sync'.pc = sync.pc /\ sync'.listed = sync.listed
           /\ sync'.handled = sync.handled /\ sync'.by = sync.by
           /\ sync'.at[a] = to /\ \A b \in People \ {a} : sync'.at[b] = sync.at[b]
BY DEF Goes, CardsInv, CardsTypeOK, SyncSet

LEMMA MutateStep ==
    ASSUME CardsInv, NEW a \in People, Mutate(a) \/ Renotify(a)
    PROVE  CardsInv'
<1>0. verdict # "pending" /\ cardFaults' \in Nat /\ (cardFaults' = 0 => cardFaults = 0 /\ ~Fault)
      /\ UNCHANGED <<deciders, verdict, ledger, notify>>
    BY FaultsCount DEF Mutate, Renotify, CardsInv
<1>1. CASE NoFault /\ Mutate(a) /\ shown' = [shown EXCEPT ![a] = (@ \ {"buttons"}) \cup {verdict}] /\ Goes(a, "mark")
    <2>1. Told(a)'
        BY <1>0, <1>1 DEF Told, CardsInv, CardsTypeOK, Terminal
    <2> QED BY <1>0, <1>1, <2>1, GoesTo, TellsStep DEF Mutate, CardPcs
<1>2. CASE Fault /\ Mutate(a) /\ Goes(a, "renotify")
           /\ shown' \in {shown, [shown EXCEPT ![a] = (@ \ {"buttons"}) \cup {verdict}]}
    <2>1. ledger[a] = "terminalized" => Told(a)'
        BY <1>0, <1>2 DEF Told, CardsInv, CardsTypeOK, PersonOK, Terminal
    <2> QED BY <1>0, <1>2, <2>1, GoesTo, TellsStep DEF Mutate, CardPcs
<1>3. CASE Renotify(a)
    <2>1. /\ ledger[a] = "terminalized" => Told(a)'
          /\ cardFaults # 0
        BY <1>0, <1>3 DEF Renotify, Told, CardsInv, CardsTypeOK, PersonOK, NoFaultOK, Terminal
    <2> QED BY <1>0, <1>3, <2>1, GoesTo, TellsStep DEF Renotify, CardPcs
<1> QED BY <1>1, <1>2, <1>3 DEF Mutate

LEMMA MarkStep ==
    ASSUME CardsInv, NEW a \in People, Mark(a)
    PROVE  CardsInv'
<1>0. /\ UNCHANGED <<deciders, verdict, shown, notify>> /\ sync.at[a] = "mark" /\ Goes(a, "done")
      /\ cardFaults' \in Nat /\ (cardFaults' = 0 => cardFaults = 0 /\ ~Fault)
      /\ Told(a) /\ a \in sync.listed /\ notify.pc = "done"
    BY FaultsCount DEF Mark, CardsInv, PersonOK
<1>1. /\ sync' \in SyncSet /\ sync'.pc = sync.pc /\ sync'.listed = sync.listed
      /\ sync'.handled = sync.handled /\ sync'.by = sync.by
      /\ sync'.at[a] = "done" /\ \A b \in People \ {a} : sync'.at[b] = sync.at[b]
    BY <1>0, GoesTo DEF CardPcs
<1>2. /\ ledger' \in [People -> {"none", "active", "terminalized"}]
      /\ \A b \in People \ {a} : ledger'[b] = ledger[b]
      /\ ledger'[a] \in {ledger[a], "terminalized"}
      /\ cardFaults' = 0 => ledger'[a] = "terminalized"
    BY <1>0 DEF Mark, CardsInv, CardsTypeOK
<1>3. ASSUME NEW b \in People PROVE PersonOK(b)'
    <2>1. PersonOK(b)
        BY DEF CardsInv
    <2>2. CASE b = a
        BY <1>0, <1>1, <1>2, <2>1, <2>2 DEF PersonOK, Told
    <2>3. CASE b # a
        BY <1>0, <1>1, <1>2, <2>1, <2>3 DEF PersonOK, Told
    <2> QED BY <2>2, <2>3
<1>4. ASSUME NEW b \in People, cardFaults' = 0 PROVE NoFaultOK(b)'
    <2>1. NoFaultOK(b)
        BY <1>0, <1>4 DEF CardsInv
    <2>2. CASE b = a
        BY <1>0, <1>1, <1>2, <1>4, <2>1, <2>2 DEF NoFaultOK
    <2>3. CASE b # a
        BY <1>0, <1>1, <1>2, <2>1, <2>3 DEF NoFaultOK
    <2> QED BY <2>2, <2>3
<1> QED BY <1>0, <1>1, <1>2, <1>3, <1>4 DEF CardsInv, CardsTypeOK

LEMMA CardCrashStep ==
    ASSUME CardsInv, CardCrash
    PROVE  CardsInv'
<1>1. /\ UNCHANGED <<deciders, verdict, shown, ledger>>
      /\ cardFaults' \in Nat /\ cardFaults' # 0
      /\ notify' \in NotifySet /\ notify'.pc = "done"
    BY DEF CardCrash, Fault, CardsInv, CardsTypeOK, NotifySet
<1>2. /\ sync' \in SyncSet /\ sync'.listed = sync.listed /\ sync'.handled = sync.handled
      /\ sync'.at = sync.at /\ sync'.pc = IF sync.pc = "idle" THEN "idle" ELSE "done"
    BY DEF CardCrash, CardsInv, CardsTypeOK, SyncSet
<1>3. \A b \in People : PersonOK(b)'
    BY <1>1, <1>2 DEF CardsInv, PersonOK, Told
<1> QED BY <1>1, <1>2, <1>3 DEF CardsInv, CardsTypeOK

LEMMA CardsInvStep == CardsInv /\ [CardsNext \/ MentionsNext]_cardVars => CardsInv'
<1> SUFFICES ASSUME CardsInv, [CardsNext \/ MentionsNext]_cardVars PROVE CardsInv'
    OBVIOUS
<1>1. CASE UNCHANGED <<verdict, shown, ledger, notify, sync, cardFaults>> /\ deciders' \subseteq People
    BY <1>1 DEF CardsInv, CardsTypeOK, PersonOK, NoFaultOK, Told
<1>2. ASSUME NEW a \in People, ChangeAdmins(a) PROVE CardsInv'
    BY <1>1, <1>2 DEF ChangeAdmins, CardsInv, CardsTypeOK
<1>3. CASE MentionsNext \/ UNCHANGED cardVars
    BY <1>1, <1>3 DEF MentionsNext, Comment, TakeMention, EndMention, CardsInv, CardsTypeOK, cardVars
<1>4. CASE CardsNext
    <2>1. ASSUME NEW by \in People, NEW handled \in BOOLEAN, NEW outcome \in {"approved", "denied"},
                 Decide(by, handled, outcome)
          PROVE  CardsInv'
        BY <2>1, DecideStep DEF Terminal
    <2> QED BY <1>2, <1>4, <2>1, PostCardStep, RecordCardsStep, FinalizeStep, ListCardsStep, MutateStep, MarkStep,
               CardCrashStep DEF CardsNext
<1> QED BY <1>3, <1>4

LEMMA CardsInvInit == CardsInit => CardsInv
<1> SUFFICES ASSUME CardsInit PROVE CardsInv
    OBVIOUS
<1>1. CardsTypeOK
    BY CardAssumption DEF CardsInit, CardsTypeOK, NotifySet, SyncSet, CardPcs, Approvers
<1>2. \A a \in People : PersonOK(a) /\ NoFaultOK(a)
    BY DEF CardsInit, PersonOK, NoFaultOK
<1> QED BY <1>1, <1>2 DEF CardsInit, CardsInv

LEMMA CardsInvTells == CardsInv => CardsTellTheOutcome
<1> SUFFICES ASSUME CardsInv PROVE CardsTellTheOutcome
    OBVIOUS
<1>1. \A a \in People : shown[a] \cap Terminal \subseteq {verdict}
    BY DEF CardsInv, PersonOK
<1>2. \A a \in People : ledger[a] = "terminalized" => verdict \in shown[a] /\ "buttons" \notin shown[a]
    BY DEF CardsInv, PersonOK, Told
<1>3. ASSUME CardsAtRest, cardFaults = 0, NEW a \in People
      PROVE  /\ a \in sync.listed => "buttons" \notin shown[a] /\ verdict \in shown[a]
             /\ ledger[a] = "active" => notify.late \/ (sync.handled /\ a = sync.by)
    <2>1. NoFaultOK(a) /\ PersonOK(a)
        BY <1>3 DEF CardsInv
    <2>2. a \in sync.listed => sync.at[a] = "done"
        BY <1>3, <2>1 DEF CardsAtRest, SyncOver, PersonOK, NoFaultOK
    <2>3. a \in sync.listed => ledger[a] = "terminalized"
        BY <2>1, <2>2 DEF NoFaultOK
    <2>4. sync.pc \in {"editing", "done"}
        BY <1>3 DEF CardsAtRest, SyncOver
    <2> QED BY <1>2, <2>1, <2>3, <2>4 DEF NoFaultOK
<1> QED BY <1>1, <1>2, <1>3 DEF CardsTellTheOutcome

----------------------------------------------------------------------------
(* Mentions.                                                               *)

Reached == mention.todo \cup mention.flight \cup mention.told

MentionsInv ==
    /\ mention \in [pc : {"idle", "posting"}, open : BOOLEAN, readers : SUBSET People, todo : SUBSET People,
                    flight : SUBSET People, told : SUBSET People]
    /\ MentionsReach

LEMMA MentionsInvStep == MentionsInv /\ [CardsNext \/ MentionsNext]_cardVars => MentionsInv'
<1> SUFFICES ASSUME MentionsInv, [CardsNext \/ MentionsNext]_cardVars PROVE MentionsInv'
    OBVIOUS
<1>1. CASE UNCHANGED mention
    BY <1>1 DEF MentionsInv, MentionsReach
<1>2. ASSUME NEW author \in People, NEW named \in SUBSET People, NEW readers \in SUBSET People, NEW open \in BOOLEAN,
             Comment(author, named, readers, open)
      PROVE  MentionsInv'
    <2>1. PICK targets \in MentionTargets(open, readers, named, author) :
             mention' = [pc |-> "posting", open |-> open, readers |-> readers \cup {Owner},
                         todo |-> targets, flight |-> {}, told |-> {}]
        BY <1>2 DEF Comment
    <2>2. /\ targets \subseteq People /\ (open \/ targets \subseteq readers \cup {Owner})
          /\ Cardinality(targets) <= MentionCap
        <3> DEFINE allowed == (named \ {author}) \cap (IF open THEN People ELSE readers \cup {Owner})
        <3>1. CASE Cardinality(allowed) <= MentionCap /\ targets = allowed
            BY <3>1
        <3>2. CASE targets \in {s \in SUBSET allowed : Cardinality(s) = MentionCap}
            <4>1. targets \subseteq allowed /\ Cardinality(targets) = MentionCap
                BY <3>2
            <4> QED BY <4>1, CardAssumption
        <3> QED BY <2>1, <3>1, <3>2 DEF MentionTargets
    <2>3. 0 <= Concurrency /\ Cardinality({}) = 0 /\ Owner \in People
        BY CardAssumption, FS_EmptySet
    <2>4. mention'.todo \cup mention'.flight \cup mention'.told = targets
        BY <2>1
    <2> QED BY <2>1, <2>2, <2>3, <2>4 DEF MentionsInv, MentionsReach
<1>3. ASSUME NEW a \in People, TakeMention(a) \/ EndMention(a) PROVE MentionsInv'
    <2>1. /\ mention' \in [pc : {"idle", "posting"}, open : BOOLEAN, readers : SUBSET People, todo : SUBSET People,
                           flight : SUBSET People, told : SUBSET People]
          /\ mention'.open = mention.open /\ mention'.readers = mention.readers
          /\ mention'.todo \cup mention'.flight \cup mention'.told = Reached
          /\ TakeMention(a) => mention'.flight = mention.flight \cup {a}
          /\ EndMention(a) => mention'.flight \subseteq mention.flight
        <3>1. CASE TakeMention(a)
            <4>1. mention' = [[mention EXCEPT !.todo = mention.todo \ {a}] EXCEPT !.flight = mention.flight \cup {a}]
                  /\ a \in mention.todo /\ mention.pc = "posting"
                BY <3>1 DEF TakeMention, MentionsInv
            <4>2. ~EndMention(a) \/ mention'.flight \subseteq mention.flight
                BY DEF EndMention, MentionsInv
            <4> QED BY <4>1, <4>2 DEF MentionsInv, Reached
        <3>2. CASE EndMention(a)
            <4>1. mention' = [[mention EXCEPT !.flight = mention.flight \ {a}] EXCEPT !.told = mention.told \cup {a}]
                  /\ a \in mention.flight
                BY <3>2 DEF EndMention, MentionsInv
            <4>2. ~TakeMention(a) \/ mention'.flight = mention.flight \cup {a}
                BY DEF TakeMention, MentionsInv
            <4> QED BY <4>1, <4>2 DEF MentionsInv, Reached
        <3> QED BY <1>3, <3>1, <3>2
    <2>2. IsFiniteSet(mention.flight) /\ Cardinality(mention.flight) \in Nat /\ Concurrency \in Nat
        BY CardAssumption, FS_Subset, FS_CardinalityType DEF MentionsInv
    <2>3. Cardinality(mention'.flight) <= Concurrency
        <3>1. CASE TakeMention(a)
            <4>1. /\ Cardinality(mention.flight \cup {a}) \in {Cardinality(mention.flight), Cardinality(mention.flight) + 1}
                  /\ mention'.flight = mention.flight \cup {a} /\ Cardinality(mention.flight) < Concurrency
                BY <2>1, <2>2, <3>1, FS_AddElement DEF TakeMention, WorkerFree
            <4> QED BY <2>2, <4>1
        <3>2. CASE EndMention(a)
            <4>1. Cardinality(mention'.flight) <= Cardinality(mention.flight) /\ Cardinality(mention'.flight) \in Nat
                BY <2>1, <2>2, <3>2, FS_Subset, FS_CardinalityType
            <4> QED BY <2>2, <4>1 DEF MentionsInv, MentionsReach
        <3> QED BY <1>3, <3>1, <3>2
    <2> QED BY <2>1, <2>3 DEF MentionsInv, MentionsReach, Reached
<1>4. CASE CardsNext
    BY <1>1, <1>4 DEF CardsNext, PostCard, Record, Decide, Finalize, ListCards, Mutate, Renotify, Mark, CardCrash, ChangeAdmins
<1>5. CASE UNCHANGED cardVars
    BY <1>1, <1>5 DEF cardVars
<1> QED BY <1>2, <1>3, <1>4, <1>5 DEF MentionsNext

LEMMA MentionsInvInit == CardsInit => MentionsInv
BY FS_EmptySet, CardAssumption DEF CardsInit, MentionsInv, MentionsReach

\* A card never tells another outcome than the request's, and a mention reaches readers only,
\* whatever posts, edits and restarts do (docsDecisionCardSync.ts, docsNotify.ts).
THEOREM CardsAndMentionsAreRight == CardsSpec => [](CardsTellTheOutcome /\ MentionsReach)
<1>1. MentionsInv => MentionsReach
    BY DEF MentionsInv
<1> QED BY CardsInvInit, CardsInvStep, CardsInvTells, MentionsInvInit, MentionsInvStep, <1>1, PTL DEF CardsSpec

----------------------------------------------------------------------------
(* Membership. What octo-server reads was so when it read, so after the    *)
(* fetch began; what is cached was so a fetch before it was cached.        *)

FetchSet == [pc : {"none", "asked", "read"}, since : Nat, token : Tokens, waiting : SUBSET Askers, value : BOOLEAN]
AskerSet == [pc : {"idle", "waiting", "done"}, answer : BOOLEAN, sure : BOOLEAN]

MembershipTypeOK ==
    /\ now \in Nat /\ isMember \in BOOLEAN
    /\ lastHeld \in [BOOLEAN -> Nat \cup {-1}]
    /\ cached \in [value : BOOLEAN, until : Nat]
    /\ fetch \in FetchSet
    /\ asker \in [Askers -> AskerSet]

HeldSince(v, t) == lastHeld[v] >= 0 /\ lastHeld[v] >= t

MembershipInv ==
    /\ MembershipTypeOK
    /\ lastHeld[isMember] = now /\ \A v \in BOOLEAN : lastHeld[v] <= now
    /\ fetch.pc # "none" => fetch.since <= now /\ now <= fetch.since + FetchTime
    /\ fetch.pc = "read" /\ fetch.token = "own" => HeldSince(fetch.value, fetch.since)
    /\ cached.until > 0 => HeldSince(cached.value, cached.until - Lifetime - FetchTime)
    /\ \A c \in Askers : asker[c].pc = "done" /\ (asker[c].answer \/ asker[c].sure) =>
           HeldSince(asker[c].answer, now - Lifetime - FetchTime)

LEMMA TimesAre ==
    ASSUME MembershipTypeOK
    PROVE  /\ now \in Nat /\ Lifetime \in Nat /\ FetchTime \in Nat /\ cached.until \in Nat /\ fetch.since \in Nat
           /\ \A v \in BOOLEAN : lastHeld[v] \in Int
           /\ cached.value \in BOOLEAN /\ fetch.value \in BOOLEAN
           /\ \A c \in Askers : asker[c].answer \in BOOLEAN
BY MembershipAssumption DEF MembershipTypeOK, FetchSet, AskerSet

LEMMA AskStep ==
    ASSUME MembershipInv, NEW c \in Askers, NEW token \in Tokens, Ask(c, token)
    PROVE  MembershipInv'
<1>0. UNCHANGED <<now, isMember, lastHeld, cached>>
    BY DEF Ask
<1>1. ASSUME NEW v \in BOOLEAN, NEW sure \in BOOLEAN, Answered(c, v, sure), UNCHANGED fetch,
             v \/ sure => HeldSince(v, now - Lifetime - FetchTime)
      PROVE  MembershipInv'
    <2>1. asker'[c] = [pc |-> "done", answer |-> v, sure |-> sure] /\ asker' \in [Askers -> AskerSet]
          /\ \A e \in Askers \ {c} : asker'[e] = asker[e]
        BY <1>1 DEF Answered, MembershipInv, MembershipTypeOK, AskerSet
    <2> QED BY <1>0, <1>1, <2>1 DEF MembershipInv, MembershipTypeOK, HeldSince
<1>2. CASE token = "none" /\ Answered(c, FALSE, FALSE) /\ UNCHANGED fetch
    BY <1>1, <1>2
<1>3. CASE Fresh /\ Answered(c, cached.value, TRUE) /\ UNCHANGED fetch
    <2>1. HeldSince(cached.value, now - Lifetime - FetchTime) /\ cached.value \in BOOLEAN
        BY <1>3, TimesAre DEF Fresh, MembershipInv, HeldSince
    <2> QED BY <1>1, <1>3, <2>1
<1>4. CASE /\ asker' = [asker EXCEPT ![c].pc = "waiting"]
           /\ fetch' = IF fetch.pc # "none" THEN [fetch EXCEPT !.waiting = @ \cup {c}]
                       ELSE [pc |-> "asked", since |-> now, token |-> token, waiting |-> {c}, value |-> FALSE]
    <2>1. /\ asker'[c].pc = "waiting" /\ asker' \in [Askers -> AskerSet]
          /\ \A e \in Askers \ {c} : asker'[e] = asker[e]
        BY <1>4 DEF MembershipInv, MembershipTypeOK, AskerSet
    <2>2. CASE fetch.pc # "none"
        <3>1. /\ fetch' \in FetchSet /\ fetch'.pc = fetch.pc /\ fetch'.since = fetch.since
              /\ fetch'.token = fetch.token /\ fetch'.value = fetch.value
            BY <1>4, <2>2 DEF MembershipInv, MembershipTypeOK, FetchSet
        <3> QED BY <1>0, <2>1, <3>1 DEF MembershipInv, MembershipTypeOK, HeldSince
    <2>3. CASE fetch.pc = "none"
        <3>1. fetch' \in FetchSet /\ fetch'.pc = "asked" /\ fetch'.since = now
            BY <1>4, <2>3, TimesAre DEF FetchSet, MembershipInv
        <3>2. fetch'.since <= now' /\ now' <= fetch'.since + FetchTime
            BY <1>0, <3>1, TimesAre DEF MembershipInv
        <3> QED BY <1>0, <2>1, <3>1, <3>2 DEF MembershipInv, MembershipTypeOK, HeldSince
    <2> QED BY <2>2, <2>3
<1> QED BY <1>2, <1>3, <1>4 DEF Ask

LEMMA FetchEndsStep ==
    ASSUME MembershipInv, NEW heard \in BOOLEAN, FetchEnds(heard)
    PROVE  MembershipInv'
<1> DEFINE sure == heard /\ Confirms(fetch.token)
           value == sure /\ fetch.value
<1>0. /\ UNCHANGED <<now, isMember, lastHeld>> /\ fetch' = NoFetch
      /\ cached' = IF sure THEN [value |-> value, until |-> now + Lifetime] ELSE cached
      /\ asker' = [c \in Askers |-> IF c \in fetch.waiting THEN [pc |-> "done", answer |-> value, sure |-> sure]
                                    ELSE asker[c]]
    BY DEF FetchEnds
<1>1. sure => value = fetch.value /\ HeldSince(value, now - FetchTime)
    <2>1. SUFFICES ASSUME sure PROVE value = fetch.value /\ HeldSince(value, now - FetchTime)
        OBVIOUS
    <2>2. fetch.pc = "read" /\ fetch.token = "own" /\ value = fetch.value
        BY <2>1, TimesAre DEF FetchEnds, Confirms, MembershipInv
    <2> QED BY <2>2, TimesAre DEF MembershipInv, HeldSince
<1>2. sure \in BOOLEAN /\ value \in BOOLEAN /\ (~sure => ~value)
    BY DEF Confirms
<1> HIDE DEF sure, value
<1>3. /\ asker' \in [Askers -> AskerSet]
      /\ \A c \in Askers : asker'[c] = asker[c] \/ (asker'[c].answer = value /\ asker'[c].sure = sure)
    BY <1>0, <1>2 DEF MembershipInv, MembershipTypeOK, AskerSet
<1>4. fetch' \in FetchSet /\ fetch'.pc = "none"
    BY <1>0 DEF NoFetch, FetchSet, Tokens
<1>5. /\ cached' \in [value : BOOLEAN, until : Nat]
      /\ cached'.until > 0 => HeldSince(cached'.value, cached'.until - Lifetime - FetchTime)
    <2>1. CASE sure
        BY <1>0, <1>1, <1>2, <2>1, TimesAre DEF MembershipInv, HeldSince
    <2>2. CASE ~sure
        BY <1>0, <2>2 DEF MembershipInv, MembershipTypeOK
    <2> QED BY <2>1, <2>2
<1>6. ASSUME NEW c \in Askers, asker'[c].pc = "done", asker'[c].answer \/ asker'[c].sure
      PROVE  HeldSince(asker'[c].answer, now - Lifetime - FetchTime)
    <2>1. CASE asker'[c] = asker[c]
        BY <1>6, <2>1 DEF MembershipInv
    <2>2. CASE asker'[c].answer = value /\ asker'[c].sure = sure
        BY <1>1, <1>2, <1>6, <2>2, TimesAre DEF MembershipInv, HeldSince
    <2> QED BY <1>3, <2>1, <2>2
<1> QED BY <1>0, <1>3, <1>4, <1>5, <1>6 DEF MembershipInv, MembershipTypeOK, HeldSince

\* octo-server reads, and holds what it holds until it changes.
LEMMA OctoStep ==
    ASSUME MembershipInv, OctoReads \/ MemberChanges
    PROVE  MembershipInv'
<1>1. CASE OctoReads
    <2>1. /\ UNCHANGED <<now, isMember, lastHeld, cached, asker>>
          /\ fetch' \in FetchSet /\ fetch'.pc = "read" /\ fetch'.since = fetch.since /\ fetch'.token = fetch.token
          /\ fetch.token = "own" => fetch'.value = isMember
        BY <1>1 DEF OctoReads, MembershipInv, MembershipTypeOK, FetchSet
    <2>2. fetch.since <= now /\ now <= fetch.since + FetchTime
        BY <1>1 DEF OctoReads, MembershipInv
    <2>3. fetch'.pc = "read" /\ fetch'.token = "own" => HeldSince(fetch.value, fetch.since)'
        BY <2>1, <2>2, TimesAre DEF MembershipInv, HeldSince
    <2> QED BY <2>1, <2>2, <2>3 DEF MembershipInv, MembershipTypeOK, HeldSince
<1>2. CASE MemberChanges
    <2>1. /\ UNCHANGED <<now, cached, fetch, asker>> /\ isMember' \in BOOLEAN
          /\ lastHeld' \in [BOOLEAN -> Nat \cup {-1}] /\ lastHeld'[isMember'] = now
          /\ \A v \in BOOLEAN : lastHeld[v] <= lastHeld'[v] /\ lastHeld'[v] <= now
        BY <1>2, TimesAre DEF MemberChanges, MembershipInv, MembershipTypeOK
    <2>2. \A v \in BOOLEAN, t \in Int : HeldSince(v, t) => HeldSince(v, t)'
        <3>1. \A v \in BOOLEAN : lastHeld[v] \in Int /\ lastHeld'[v] \in Int
            BY <2>1, TimesAre DEF MembershipInv
        <3> QED BY <2>1, <3>1 DEF HeldSince
    <2>3. /\ fetch.since \in Int /\ cached.until - Lifetime - FetchTime \in Int /\ now - Lifetime - FetchTime \in Int
        BY TimesAre DEF MembershipInv
    <2>4. cached.until > 0 => HeldSince(cached.value, cached.until - Lifetime - FetchTime)'
        BY <2>1, <2>2, <2>3, TimesAre DEF MembershipInv
    <2>5. fetch.pc = "read" /\ fetch.token = "own" => HeldSince(fetch.value, fetch.since)'
        BY <2>1, <2>2, <2>3, TimesAre DEF MembershipInv
    <2>6. \A c \in Askers : asker[c].pc = "done" /\ (asker[c].answer \/ asker[c].sure) =>
             HeldSince(asker[c].answer, now - Lifetime - FetchTime)'
        BY <2>1, <2>2, <2>3, TimesAre DEF MembershipInv
    <2> QED BY <2>1, <2>4, <2>5, <2>6 DEF MembershipInv, MembershipTypeOK
<1> QED BY <1>1, <1>2

LEMMA TimeStep ==
    ASSUME MembershipInv, TimePasses
    PROVE  MembershipInv'
<1>1. /\ UNCHANGED <<isMember, cached, fetch, asker>> /\ now' = now + 1
      /\ \A c \in Askers : asker[c].pc # "done"
      /\ fetch.pc = "none" \/ now < fetch.since + FetchTime
    BY DEF TimePasses
<1>2. /\ lastHeld' \in [BOOLEAN -> Nat \cup {-1}] /\ lastHeld'[isMember] = now + 1
      /\ \A v \in BOOLEAN : lastHeld[v] <= lastHeld'[v] /\ lastHeld'[v] <= now + 1
    BY TimesAre DEF TimePasses, MembershipInv, MembershipTypeOK
<1>3. \A v \in BOOLEAN, t \in Int : HeldSince(v, t) => HeldSince(v, t)'
    <2>1. \A v \in BOOLEAN : lastHeld[v] \in Int /\ lastHeld'[v] \in Int
        BY <1>2, TimesAre DEF MembershipInv
    <2> QED BY <1>2, <2>1 DEF HeldSince
<1>4. cached.until > 0 => HeldSince(cached.value, cached.until - Lifetime - FetchTime)'
    <2>1. cached.until - Lifetime - FetchTime \in Int
        BY TimesAre DEF MembershipInv
    <2> QED BY <1>1, <1>3, <2>1, TimesAre DEF MembershipInv
<1>5. fetch.pc = "read" /\ fetch.token = "own" => HeldSince(fetch.value, fetch.since)'
    BY <1>1, <1>3, TimesAre DEF MembershipInv
<1>6. fetch.pc # "none" => fetch.since <= now' /\ now' <= fetch.since + FetchTime
    BY <1>1, TimesAre DEF MembershipInv
<1> QED BY <1>1, <1>2, <1>4, <1>5, <1>6, TimesAre DEF MembershipInv, MembershipTypeOK

LEMMA MembershipInvStep == MembershipInv /\ [MembershipNext]_membershipVars => MembershipInv'
<1>1. ASSUME MembershipInv, UNCHANGED membershipVars PROVE MembershipInv'
    BY <1>1 DEF membershipVars, MembershipInv, MembershipTypeOK, HeldSince
<1>2. ASSUME MembershipInv, NEW c \in Askers, AskAgain(c) PROVE MembershipInv'
    <2>1. /\ asker'[c].pc = "idle" /\ asker' \in [Askers -> AskerSet]
          /\ \A e \in Askers \ {c} : asker'[e] = asker[e]
          /\ UNCHANGED <<now, isMember, lastHeld, cached, fetch>>
        BY <1>2 DEF AskAgain, MembershipInv, MembershipTypeOK, AskerSet
    <2> QED BY <1>2, <2>1 DEF MembershipInv, MembershipTypeOK, HeldSince
<1> QED BY <1>1, <1>2, AskStep, FetchEndsStep, OctoStep, TimeStep DEF MembershipNext

LEMMA MembershipInvInit == MembershipInit => MembershipInv
<1> SUFFICES ASSUME MembershipInit PROVE MembershipInv
    OBVIOUS
<1>1. MembershipTypeOK /\ fetch.pc = "none"
    BY DEF MembershipInit, MembershipTypeOK, NoFetch, FetchSet, AskerSet, Tokens
<1>2. lastHeld[isMember] = now /\ \A v \in BOOLEAN : lastHeld[v] <= now
    BY DEF MembershipInit
<1>3. cached.until = 0 /\ \A c \in Askers : asker[c].pc = "idle"
    BY DEF MembershipInit
<1> QED BY <1>1, <1>2, <1>3 DEF MembershipInv

\* Whoever is told "member" was one a lifetime and a fetch ago or later, and an outage is
\* never remembered as an answer (octoIdentity.ts isSpaceMember).
THEOREM MembershipIsFresh == MembershipSpec => []MembershipFresh
<1>1. ASSUME MembershipInv PROVE MembershipFresh
    <2>1. Fresh => cached.until > 0
        BY <1>1, TimesAre DEF Fresh, MembershipInv
    <2> QED BY <1>1, <2>1 DEF MembershipInv, MembershipFresh, HeldSince
<1> QED BY MembershipInvInit, MembershipInvStep, <1>1, PTL DEF MembershipSpec

----------------------------------------------------------------------------
(* Migrations. Whoever checks, executes or records has the lock, so what   *)
(* it found in the ledger is still so.                                     *)

Working == {"check", "execute", "record"}
DeploySet == [pc : Working \cup {"idle", "failed", "done"}, file : Nat, next : Nat]

MigrationsTypeOK ==
    /\ holder \in Deploys \cup {Free}
    /\ schema \in [Files -> Nat]
    /\ ran \in [Files -> Nat \X Nat]
    /\ deploy \in [Deploys -> DeploySet]

\* What a run has behind it, and what it has in hand.
Behind(d) == \A f \in FilesOf(d) : f < deploy[d].file => schema[f] = Releases[d][f]
InHand(d) ==
    LET f == deploy[d].file
        n == deploy[d].next
    IN  /\ f \in FilesOf(d) /\ schema[f] = 0
        /\ deploy[d].pc = "execute" => n \in 1..Statements
        /\ deploy[d].pc = "execute" /\ n > 1 => ran[f] = <<Releases[d][f], n - 1>>
        /\ deploy[d].pc = "record" => ran[f] = <<Releases[d][f], Statements>>

DeployOK(d) ==
    /\ deploy[d].pc \in Working => holder = d /\ Behind(d)
    /\ deploy[d].pc \in {"execute", "record"} => InHand(d)
    /\ deploy[d].pc = "done" => \A f \in FilesOf(d) : schema[f] = Releases[d][f]

MigrationsInv ==
    /\ MigrationsTypeOK
    /\ \A f \in Files : schema[f] # 0 => ran[f] = <<schema[f], Statements>>
    /\ \A d \in Deploys : DeployOK(d)

LEMMA FilesAre ==
    ASSUME NEW d \in Deploys
    PROVE  /\ FilesOf(d) \subseteq Files /\ Releases[d] \in [Files -> Nat]
           /\ \A f \in FilesOf(d) : f \in Nat /\ f > 0 /\ Releases[d][f] \in Nat /\ Releases[d][f] # 0
<1>1. FilesOf(d) \subseteq Files /\ \A f \in FilesOf(d) : Releases[d][f] # 0
    BY DEF FilesOf
<1>2. Releases[d] \in [Files -> Nat] /\ \A f \in Files : f \in Nat /\ f > 0
    BY MigrationAssumption
<1>3. \A f \in Files : Releases[d][f] \in Nat
    BY <1>2
<1> QED BY <1>1, <1>2, <1>3

\* What another deploy relies on stays while the ledger keeps what it has.
LEMMA OthersKept ==
    ASSUME MigrationsInv, NEW d \in Deploys, NEW e \in Deploys \ {d}, deploy'[e] = deploy[e],
           deploy[d].pc \in Working \/ UNCHANGED <<schema, ran>>,
           deploy[d].pc \in Working \/ holder' = holder \/ holder = Free,
           \A f \in Files : schema[f] # 0 => schema'[f] = schema[f]
    PROVE  DeployOK(e)'
<1>0. DeployOK(e) /\ DeployOK(d) /\ Free \notin Deploys
    BY MigrationAssumption DEF MigrationsInv
<1>1. CASE deploy[e].pc \in Working
    <2>1. holder = e /\ deploy[d].pc \notin Working /\ Free # e
        BY <1>0, <1>1 DEF DeployOK
    <2>2. UNCHANGED <<schema, ran, holder>>
        BY <2>1
    <2> QED BY <1>0, <1>1, <2>2 DEF DeployOK, Behind, InHand, Working
<1>2. CASE deploy[e].pc \notin Working
    <2>1. deploy[e].pc = "done" => \A f \in FilesOf(e) : schema[f] = Releases[e][f] /\ schema'[f] = schema[f]
        BY <1>0, <1>2, FilesAre DEF DeployOK
    <2> QED BY <1>2, <2>1 DEF DeployOK, Working
<1> QED BY <1>1, <1>2

\* One deploy moves; ledger and tables are as they were.
LEMMA MovesOn ==
    ASSUME MigrationsInv, NEW d \in Deploys, NEW n \in DeploySet, deploy' = [deploy EXCEPT ![d] = n],
           UNCHANGED <<schema, ran>>, holder' \in Deploys \cup {Free},
           deploy[d].pc \in Working \/ holder' = holder \/ holder = Free,
           DeployOK(d)'
    PROVE  MigrationsInv'
<1>1. MigrationsTypeOK' /\ \A e \in Deploys \ {d} : deploy'[e] = deploy[e]
    BY DEF MigrationsInv, MigrationsTypeOK
<1>2. \A e \in Deploys \ {d} : DeployOK(e)'
    BY <1>1, OthersKept
<1> QED BY <1>1, <1>2 DEF MigrationsInv

LEMMA EndsStep ==
    ASSUME MigrationsInv, NEW d \in Deploys, NEW pc \in {"failed", "done"}, Ends(d, pc),
           deploy[d].pc \in Working, UNCHANGED <<schema, ran>>,
           pc = "done" => \A f \in FilesOf(d) : schema[f] = Releases[d][f]
    PROVE  MigrationsInv'
<1> DEFINE n == [deploy[d] EXCEPT !.pc = pc]
<1>1. n \in DeploySet /\ n.pc = pc
    BY DEF MigrationsInv, MigrationsTypeOK, DeploySet
<1>2. deploy' = [deploy EXCEPT ![d] = n]
    BY DEF Ends
<1> HIDE DEF n
<1>3. deploy'[d] = n
    BY <1>1, <1>2 DEF MigrationsInv, MigrationsTypeOK
<1>4. DeployOK(d)'
    BY <1>1, <1>3 DEF DeployOK, Working
<1>5. holder' \in Deploys \cup {Free}
    BY DEF Ends, MigrationsInv, MigrationsTypeOK
<1> QED BY <1>1, <1>2, <1>4, <1>5, MovesOn

LEMMA AcquireStep ==
    ASSUME MigrationsInv, NEW d \in Deploys, Acquire(d)
    PROVE  MigrationsInv'
<1>1. CASE LockIsFree /\ holder' = d /\ deploy' = [deploy EXCEPT ![d] = [pc |-> "check", file |-> 1, next |-> 0]]
    <2> DEFINE n == [pc |-> "check", file |-> 1, next |-> 0]
    <2>1. n \in DeploySet /\ deploy'[d] = n /\ UNCHANGED <<schema, ran>>
        BY <1>1 DEF DeploySet, Working, Acquire, MigrationsInv, MigrationsTypeOK
    <2>2. DeployOK(d)'
        BY <1>1, <2>1, FilesAre DEF DeployOK, Behind
    <2>3. deploy' = [deploy EXCEPT ![d] = n]
        BY <1>1
    <2> HIDE DEF n
    <2> QED BY <1>1, <2>1, <2>2, <2>3, MovesOn DEF LockIsFree
<1>2. CASE deploy' = [deploy EXCEPT ![d].pc = "failed"] /\ UNCHANGED holder
    <2> DEFINE n == [deploy[d] EXCEPT !.pc = "failed"]
    <2>1. n \in DeploySet /\ n.pc = "failed" /\ UNCHANGED <<schema, ran>>
        BY DEF DeploySet, Working, Acquire, MigrationsInv, MigrationsTypeOK
    <2>2. deploy' = [deploy EXCEPT ![d] = n]
        BY <1>2
    <2> HIDE DEF n
    <2>3. DeployOK(d)'
        BY <2>1, <2>2 DEF DeployOK, Working, MigrationsInv, MigrationsTypeOK
    <2> QED BY <1>2, <2>1, <2>2, <2>3, MovesOn DEF MigrationsInv, MigrationsTypeOK
<1> QED BY <1>1, <1>2 DEF Acquire

\* The files are gone through in order: behind the one that is next there is none.
LEMMA CheckStep ==
    ASSUME MigrationsInv, NEW d \in Deploys, Check(d)
    PROVE  MigrationsInv'
<1> DEFINE left == {f \in FilesOf(d) : f >= deploy[d].file}
<1>0. /\ deploy[d] \in DeploySet /\ deploy[d].pc = "check" /\ holder = d /\ Behind(d)
      /\ UNCHANGED <<schema, ran>>
    BY DEF Check, MigrationsInv, MigrationsTypeOK, DeployOK, Working
<1>1. CASE left = {}
    <2>1. Ends(d, "done")
        BY <1>1 DEF Check
    <2>2. \A f \in FilesOf(d) : schema[f] = Releases[d][f]
        BY <1>0, <1>1, FilesAre DEF Behind, DeploySet
    <2> QED BY <1>0, <2>1, <2>2, EndsStep DEF Working
<1>2. CASE left # {}
    <2>1. PICK f \in FilesOf(d) : f = Min(left) /\ \A g \in FilesOf(d) : g < f => g < deploy[d].file
        <3>1. left \subseteq Nat
            BY FilesAre
        <3>2. \E f \in left : \A g \in left : f <= g
            BY <1>2, <3>1, LeastId
        <3>3. Min(left) \in left /\ \A g \in left : Min(left) <= g
            BY <3>2 DEF Min
        <3>4. ASSUME NEW g \in FilesOf(d), g < Min(left), ~(g < deploy[d].file) PROVE FALSE
            <4>1. g \in Nat /\ deploy[d].file \in Nat /\ Min(left) \in Nat
                BY <1>0, <3>1, <3>3, FilesAre DEF DeploySet
            <4>2. g \in left
                BY <3>4, <4>1
            <4> QED BY <3>3, <3>4, <4>1, <4>2
        <3> QED BY <3>3, <3>4
    <2>2. /\ f \in Nat /\ schema[f] \in Nat /\ Releases[d][f] \in Nat
          /\ \A g \in FilesOf(d) : g < f => schema[g] = Releases[d][g]
        BY <1>0, <2>1, FilesAre DEF Behind, MigrationsInv, MigrationsTypeOK
    <2>3. \/ Verdict(d, f) = "skip" /\ deploy' = [deploy EXCEPT ![d].file = f + 1] /\ UNCHANGED holder
          \/ Verdict(d, f) = "mismatch" /\ Ends(d, "failed")
          \/ /\ Verdict(d, f) = "execute" /\ UNCHANGED holder
             /\ deploy' = [deploy EXCEPT ![d] = [pc |-> "execute", file |-> f, next |-> 1]]
        <3>1. Verdict(d, f) \in {"skip", "mismatch", "execute"}
            BY <2>2 DEF Verdict
        <3>2. CASE Verdict(d, f) = "skip"
            BY <1>2, <2>1, <3>2 DEF Check
        <3>3. CASE Verdict(d, f) = "mismatch"
            BY <1>2, <2>1, <3>3 DEF Check
        <3>4. CASE Verdict(d, f) = "execute"
            BY <1>2, <2>1, <3>4 DEF Check
        <3> QED BY <3>1, <3>2, <3>3, <3>4
    <2>4. CASE Verdict(d, f) = "skip" /\ deploy' = [deploy EXCEPT ![d].file = f + 1] /\ UNCHANGED holder
        <3> DEFINE n == [deploy[d] EXCEPT !.file = f + 1]
        <3>1. n \in DeploySet /\ n.pc = "check" /\ n.file = f + 1
            BY <1>0, <2>2 DEF DeploySet
        <3>2. deploy' = [deploy EXCEPT ![d] = n]
            BY <2>4
        <3> HIDE DEF n
        <3>3. deploy'[d] = n
            BY <3>1, <3>2 DEF MigrationsInv, MigrationsTypeOK
        <3>4. schema[f] = Releases[d][f]
            BY <2>2, <2>4 DEF Verdict
        <3>5. \A g \in FilesOf(d) : g < f + 1 => schema[g] = Releases[d][g]
            BY <2>2, <3>4, FilesAre
        <3>6. DeployOK(d)'
            BY <1>0, <2>4, <3>1, <3>3, <3>5 DEF DeployOK, Behind
        <3> QED BY <1>0, <2>4, <3>1, <3>2, <3>6, MovesOn DEF Working
    <2>5. CASE Verdict(d, f) = "execute" /\ deploy' = [deploy EXCEPT ![d] = [pc |-> "execute", file |-> f, next |-> 1]]
               /\ UNCHANGED holder
        <3> DEFINE n == [pc |-> "execute", file |-> f, next |-> 1]
        <3>1. n \in DeploySet /\ n.pc = "execute" /\ n.file = f /\ n.next = 1
            BY <2>2 DEF DeploySet, Working
        <3>2. deploy' = [deploy EXCEPT ![d] = n]
            BY <2>5
        <3> HIDE DEF n
        <3>3. deploy'[d] = n
            BY <3>1, <3>2 DEF MigrationsInv, MigrationsTypeOK
        <3>4. schema[f] = 0
            BY <2>2, <2>5 DEF Verdict
        <3>5. InHand(d)' /\ Behind(d)'
            BY <1>0, <2>1, <2>2, <3>1, <3>3, <3>4, MigrationAssumption DEF InHand, Behind
        <3>6. DeployOK(d)'
            BY <1>0, <2>5, <3>1, <3>3, <3>5 DEF DeployOK
        <3> QED BY <1>0, <2>5, <3>1, <3>2, <3>6, MovesOn DEF Working
    <2>6. CASE Ends(d, "failed")
        BY <1>0, <2>6, EndsStep DEF Working
    <2> QED BY <2>3, <2>4, <2>5, <2>6
<1> QED BY <1>1, <1>2

\* Statements run in a row, on a file that nobody has recorded.
LEMMA ExecuteStep ==
    ASSUME MigrationsInv, NEW d \in Deploys, Execute(d)
    PROVE  MigrationsInv'
<1> DEFINE f == deploy[d].file
           n == deploy[d].next
           m == [pc |-> IF n = Statements THEN "record" ELSE "execute", file |-> f, next |-> n + 1]
<1>0. /\ deploy[d] \in DeploySet /\ holder = d /\ Behind(d) /\ InHand(d) /\ deploy[d].pc = "execute"
      /\ f \in Files /\ n \in 1..Statements /\ schema[f] = 0 /\ Statements \in Nat /\ Releases[d][f] \in Nat
    BY FilesAre, MigrationAssumption DEF Execute, MigrationsInv, MigrationsTypeOK, DeployOK, Working, InHand
<1>1. /\ ran' = [ran EXCEPT ![f] = <<Releases[d][f], n>>]
      /\ UNCHANGED <<holder, schema>> /\ deploy' = [deploy EXCEPT ![d] = m]
    <2>1. n = 1 \/ (n > 1 /\ ran[f] = <<Releases[d][f], n - 1>>)
        BY <1>0 DEF InHand
    <2>2. ran' = [ran EXCEPT ![f] = IF n = 1 THEN <<Releases[d][f], 1>>
                                    ELSE IF ran[f] = <<Releases[d][f], n - 1>> THEN <<Releases[d][f], n>>
                                    ELSE <<0, 0>>]
        BY DEF Execute
    <2>3. ran' = [ran EXCEPT ![f] = <<Releases[d][f], n>>]
        BY <2>1, <2>2
    <2> QED BY <2>3 DEF Execute
<1>2. m \in DeploySet /\ m.file = f /\ m.next = n + 1 /\ m.pc = IF n = Statements THEN "record" ELSE "execute"
    BY <1>0 DEF DeploySet, Working
<1> HIDE DEF m
<1>3. /\ deploy'[d] = m /\ \A e \in Deploys \ {d} : deploy'[e] = deploy[e]
      /\ ran'[f] = <<Releases[d][f], n>> /\ \A g \in Files \ {f} : ran'[g] = ran[g]
      /\ MigrationsTypeOK'
    BY <1>0, <1>1, <1>2 DEF MigrationsInv, MigrationsTypeOK
<1>4. \A g \in Files : schema'[g] # 0 => ran'[g] = <<schema'[g], Statements>>
    BY <1>0, <1>1, <1>3 DEF MigrationsInv
<1>5. InHand(d)' /\ Behind(d)'
    BY <1>0, <1>1, <1>2, <1>3 DEF InHand, Behind
<1>6. DeployOK(d)'
    BY <1>0, <1>1, <1>2, <1>3, <1>5 DEF DeployOK
<1>7. \A e \in Deploys \ {d} : DeployOK(e)'
    BY <1>0, <1>1, <1>3, OthersKept DEF Working
<1> QED BY <1>3, <1>4, <1>6, <1>7 DEF MigrationsInv

LEMMA RecordStep ==
    ASSUME MigrationsInv, NEW d \in Deploys, RecordMigration(d)
    PROVE  MigrationsInv'
<1> DEFINE f == deploy[d].file
           m == [pc |-> "check", file |-> f + 1, next |-> 0]
<1>0. /\ deploy[d] \in DeploySet /\ holder = d /\ Behind(d) /\ InHand(d) /\ deploy[d].pc = "record"
      /\ f \in Files /\ schema[f] = 0 /\ f \in Nat /\ Releases[d][f] \in Nat
    BY FilesAre DEF RecordMigration, MigrationsInv, MigrationsTypeOK, DeployOK, Working, InHand
<1>1. schema' = [schema EXCEPT ![f] = Releases[d][f]] /\ UNCHANGED <<holder, ran>> /\ deploy' = [deploy EXCEPT ![d] = m]
    BY <1>0 DEF RecordMigration
<1>2. m \in DeploySet /\ m.pc = "check" /\ m.file = f + 1
    BY <1>0 DEF DeploySet, Working
<1> HIDE DEF m
<1>3. /\ deploy'[d] = m /\ \A e \in Deploys \ {d} : deploy'[e] = deploy[e]
      /\ schema'[f] = Releases[d][f] /\ \A g \in Files \ {f} : schema'[g] = schema[g]
      /\ MigrationsTypeOK'
    BY <1>0, <1>1, <1>2 DEF MigrationsInv, MigrationsTypeOK
<1>4. \A g \in Files : schema'[g] # 0 => ran'[g] = <<schema'[g], Statements>>
    BY <1>0, <1>1, <1>3 DEF MigrationsInv, InHand
<1>5. \A g \in FilesOf(d) : g < f + 1 => schema'[g] = Releases[d][g]
    BY <1>0, <1>3, FilesAre DEF Behind
<1>6. DeployOK(d)'
    BY <1>0, <1>1, <1>2, <1>3, <1>5 DEF DeployOK, Behind
<1>7. \A e \in Deploys \ {d} : DeployOK(e)'
    BY <1>0, <1>1, <1>3, OthersKept DEF Working
<1> QED BY <1>3, <1>4, <1>6, <1>7 DEF MigrationsInv

LEMMA MigrationsInvStep == MigrationsInv /\ [MigrationsNext]_migrationVars => MigrationsInv'
<1>1. ASSUME MigrationsInv, UNCHANGED migrationVars PROVE MigrationsInv'
    BY <1>1 DEF migrationVars, MigrationsInv, MigrationsTypeOK, DeployOK, Behind, InHand
<1>2. ASSUME MigrationsInv, NEW d \in Deploys, Stop(d) PROVE MigrationsInv'
    BY <1>2, EndsStep DEF Stop, Working
<1>3. ASSUME MigrationsInv, NEW d \in Deploys, Rerun(d) PROVE MigrationsInv'
    <2> DEFINE n == [pc |-> "idle", file |-> 0, next |-> 0]
    <2>1. n \in DeploySet /\ n.pc = "idle"
        BY DEF DeploySet
    <2>2. deploy' = [deploy EXCEPT ![d] = n] /\ UNCHANGED <<schema, ran, holder>>
        BY <1>3 DEF Rerun
    <2> HIDE DEF n
    <2>3. DeployOK(d)'
        BY <1>3, <2>1, <2>2 DEF DeployOK, Working, MigrationsInv, MigrationsTypeOK
    <2> QED BY <1>3, <2>1, <2>2, <2>3, MovesOn DEF MigrationsInv, MigrationsTypeOK
<1> QED BY <1>1, <1>2, <1>3, AcquireStep, CheckStep, ExecuteStep, RecordStep DEF MigrationsNext

LEMMA MigrationsInvInit == MigrationsInit => MigrationsInv
<1> SUFFICES ASSUME MigrationsInit PROVE MigrationsInv
    OBVIOUS
<1>1. \A d \in Deploys : deploy[d].pc = "idle"
    BY DEF MigrationsInit
<1>2. MigrationsTypeOK
    BY DEF MigrationsInit, MigrationsTypeOK, DeploySet
<1>3. \A d \in Deploys : DeployOK(d)
    BY <1>1 DEF DeployOK, Working
<1> QED BY <1>2, <1>3 DEF MigrationsInit, MigrationsInv

\* However deploys of different releases run, stop and are run again side by side
\* (migrate.ts runMigrations).
THEOREM MigrationsAreInOrder == MigrationsSpec => []MigrationsInOrder
<1>1. MigrationsInv => MigrationsInOrder
    BY DEF MigrationsInv, MigrationsInOrder, DeployOK, Behind, Working
<1> QED BY MigrationsInvInit, MigrationsInvStep, <1>1, PTL DEF MigrationsSpec

----------------------------------------------------------------------------
(* All of them.                                                            *)

\* Every behaviour of the whole is one of each part.
THEOREM PartsBehave ==
    MCSpec => RegistrySpec /\ CommentsSpec /\ ListsSpec /\ CardsSpec /\ MembershipSpec /\ MigrationsSpec
<1>1. MCInit => /\ RegistryInit /\ CommentsInit /\ ListsInit
                /\ CardsInit /\ MembershipInit /\ MigrationsInit
    BY DEF MCInit
<1> DEFINE all == <<part, registryVars, commentVars, listVars, cardVars, membershipVars, migrationVars>>
<1>2. [MCNext]_all => /\ [RegistryNext]_registryVars /\ [CommentsNext]_commentVars
                      /\ [ListsNext]_listVars /\ [CardsNext \/ MentionsNext]_cardVars
                      /\ [MembershipNext]_membershipVars /\ [MigrationsNext]_migrationVars
    BY DEF MCNext
<1> QED BY <1>1, <1>2, PTL DEF MCSpec, RegistrySpec, CommentsSpec, ListsSpec, CardsSpec,
                               MembershipSpec, MigrationsSpec

\* What no caller waits for leaves nothing false behind: cards, mentions, memberships and
\* migrations (the four files named in MCDocuments).
THEOREM ServicesAreExact == MCSpec => []ServicesExact
BY PartsBehave, CardsAndMentionsAreRight, MembershipIsFresh, MigrationsAreInOrder, PTL DEF ServicesExact

\* Rows, replies, pages and lists, in the specification of them all.
THEOREM DocumentsAreRight ==
    MCSpec => [](RegistrationsAgree /\ NoOrphans /\ PagesComplete /\ ListsMirrorGuard)
BY PartsBehave, RegistrationsAgreed, RepliesHaveRoots, PagesAreComplete, ListsSayWhatTheGuardSays, PTL
=============================================================================
