---------------------------- MODULE HtmlRegistry ----------------------------
(***************************************************************************)
(* HTML documents that bots register under a slug (src/api/routes/docs.ts, *)
(* docMetaRepo.ts upsertHtmlByOctoDocSlug). A registration is a chain of   *)
(* separate statements, without a transaction: look the slug up, insert or *)
(* take over one's own row, then make the bot's human owner an admin. Any  *)
(* of them may fail, and the bot registers again. Meanwhile admins rename  *)
(* and delete by slug. Epoch bumps are EpochCache's; removing members is   *)
(* CollabAccess's.                                                         *)
(***************************************************************************)
EXTENDS Naturals, FiniteSets

CONSTANTS
    Bots, Humans, Slugs, Spaces, DocIds,
    Calls,      \* requests, each made once
    SpaceOf,    \* the space verifyBot resolves for a bot
    HumanOf,    \* a bot's human owner, or None
    None

ASSUME RegistryAssumption ==
    /\ SpaceOf \in [Bots -> Spaces]
    /\ HumanOf \in [Bots -> Humans \cup {None}]
    /\ None \notin Humans \cup DocIds \cup Calls

VARIABLES
    html,       \* html[d]: the row of doc_meta, or NoRow
    admins,     \* the admin rows of doc_member
    call        \* call[c]: where request c is

registryVars == <<html, admins, call>>

NoRow == [owner |-> None, slug |-> None, space |-> None, active |-> FALSE, title |-> None]
NewCall == [pc |-> "new", by |-> None, space |-> None, slug |-> None, op |-> None, doc |-> None]

RegistryInit ==
    /\ html = [d \in DocIds |-> NoRow]
    /\ admins = {}
    /\ call = [c \in Calls |-> NewCall]

Rows == {d \in DocIds : html[d] # NoRow}

\* getByOctoDocSlug, and the unique key (space_id, octo_doc_slug). Deleted rows count.
Under(space, slug) == {d \in Rows : html[d].space = space /\ html[d].slug = slug}

Goto(c, pc) == call' = [call EXCEPT ![c].pc = pc]
GotoWith(c, pc, d) == call' = [call EXCEPT ![c].pc = pc, ![c].doc = d]

-----------------------------------------------------------------------------
(* createDocHandler for doc type html.                                     *)

Register(c) ==
    /\ call[c].pc = "new"
    /\ \E b \in Bots, s \in Slugs :
        call' = [call EXCEPT ![c] = [NewCall EXCEPT !.pc = "lookup", !.op = "register",
                                                    !.by = b, !.space = SpaceOf[b], !.slug = s]]
    /\ UNCHANGED <<html, admins>>

\* The row the slug names is taken over by its owner only.
TakeOver(c, d) ==
    IF html[d].owner = call[c].by THEN GotoWith(c, "update", d) ELSE Goto(c, "forbidden")

\* Mutant of Refetch's check: the loser of a race takes the winner's row.
TakeOverAnyway(c, d) == GotoWith(c, "update", d)

Lookup(c) ==
    /\ call[c].pc = "lookup"
    /\ LET found == Under(call[c].space, call[c].slug)
       IN  IF found = {} THEN Goto(c, "insert") ELSE \E d \in found : TakeOver(c, d)
    /\ UNCHANGED <<html, admins>>

\* docMetaRepo.create; the unique key refuses a second row for the slug.
Insert(c) ==
    /\ call[c].pc = "insert"
    /\ IF Under(call[c].space, call[c].slug) # {}
       THEN Goto(c, "refetch") /\ UNCHANGED html
       ELSE \E d \in DocIds \ Rows :
                /\ html' = [html EXCEPT ![d] = [owner |-> call[c].by, slug |-> call[c].slug,
                                space |-> call[c].space, active |-> TRUE, title |-> c]]
                /\ GotoWith(c, "grant", d)
    /\ UNCHANGED admins

\* Mutant of Refetch: the raced branch without its owner check.
RefetchUnchecked(c) ==
    /\ call[c].pc = "refetch"
    /\ \E d \in Under(call[c].space, call[c].slug) : TakeOverAnyway(c, d)
    /\ UNCHANGED <<html, admins>>

Refetch(c) ==
    /\ call[c].pc = "refetch"
    /\ \E d \in Under(call[c].space, call[c].slug) : TakeOver(c, d)
    /\ UNCHANGED <<html, admins>>

\* Writes title and status: a deleted document comes back.
Update(c) ==
    /\ call[c].pc = "update"
    /\ html' = [html EXCEPT ![call[c].doc].title = c, ![call[c].doc].active = TRUE]
    /\ Goto(c, "grant")
    /\ UNCHANGED admins

\* grantBotOwnerAdmin, after a fresh row and after one taken over; then 201.
Grant(c) ==
    /\ call[c].pc = "grant"
    /\ admins' = IF HumanOf[call[c].by] = None THEN admins
                 ELSE admins \cup {<<call[c].doc, HumanOf[call[c].by]>>}
    /\ Goto(c, "created")
    /\ UNCHANGED html

-----------------------------------------------------------------------------
(* Rename and delete by slug. A human names any space; a bot has its own.  *)

Manage(c) ==
    /\ call[c].pc = "new"
    /\ \E u \in Bots \cup Humans, s \in Slugs, sp \in Spaces, op \in {"rename", "delete"} :
        /\ u \in Bots => sp = SpaceOf[u]
        /\ call' = [call EXCEPT ![c] = [NewCall EXCEPT !.pc = "resolve", !.op = op,
                                                       !.by = u, !.space = sp, !.slug = s]]
    /\ UNCHANGED <<html, admins>>

\* resolveDocIdBySlug.
Resolve(c) ==
    /\ call[c].pc = "resolve"
    /\ LET found == {d \in Under(call[c].space, call[c].slug) : html[d].active}
       IN  IF found = {} THEN Goto(c, "notFound") ELSE \E d \in found : GotoWith(c, "guard", d)
    /\ UNCHANGED <<html, admins>>

IsAdmin(u, d) == html[d].owner = u \/ <<d, u>> \in admins

\* requireDocRole(admin).
Guard(c) ==
    /\ call[c].pc = "guard"
    /\ LET d == call[c].doc
       IN  Goto(c, IF ~html[d].active \/ html[d].space # call[c].space THEN "notFound"
                   ELSE IF IsAdmin(call[c].by, d) THEN "write" ELSE "forbidden")
    /\ UNCHANGED <<html, admins>>

\* rename, or softDelete.
Write(c) ==
    /\ call[c].pc = "write"
    /\ html' = IF call[c].op = "rename" THEN [html EXCEPT ![call[c].doc].title = c]
               ELSE [html EXCEPT ![call[c].doc].active = FALSE]
    /\ Goto(c, "done")
    /\ UNCHANGED admins

\* A statement fails, or the process dies: what was written stays, the answer is lost.
CallFails(c) ==
    /\ call[c].pc \in {"insert", "update", "grant", "write"}
    /\ Goto(c, "failed")
    /\ UNCHANGED <<html, admins>>

RegistryNext ==
    \E c \in Calls :
        \/ Register(c) \/ Lookup(c) \/ Insert(c) \/ Refetch(c) \/ Update(c) \/ Grant(c)
        \/ Manage(c) \/ Resolve(c) \/ Guard(c) \/ Write(c) \/ CallFails(c)

RegistrySpec == RegistryInit /\ [][RegistryNext]_registryVars

-----------------------------------------------------------------------------
(* However registrations race, fail and are repeated, a 201 names a        *)
(* document of the caller's own, under its slug in its space, that the     *)
(* bot's human owner can open; and a slug of a space is one document, never *)
(* that of another tenant (docs.ts:232-235, docMetaRepo.ts:127-193).       *)
RegistrationsAgree ==
    /\ \A c \in Calls :
        call[c].pc = "created" =>
            LET d == call[c].doc
            IN  /\ html[d].owner = call[c].by
                /\ html[d].slug = call[c].slug /\ html[d].space = call[c].space
                /\ HumanOf[call[c].by] # None => <<d, HumanOf[call[c].by]>> \in admins
    /\ \A d, e \in Rows : html[d].slug = html[e].slug /\ html[d].space = html[e].space => d = e
=============================================================================
