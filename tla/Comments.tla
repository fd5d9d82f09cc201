------------------------------ MODULE Comments ------------------------------
(***************************************************************************)
(* Comment threads (src/api/routes/comments.ts, docCommentRepo.ts): roots  *)
(* and their replies, one level deep, and a reader who pages through the   *)
(* roots while others create, resolve and delete. A reply locks its root   *)
(* before it is inserted; a hard delete locks its target and then removes  *)
(* it with its replies. Ids are given at the insert, rows are seen at the  *)
(* commit. Bodies, anchors and notifications are left out.                 *)
(***************************************************************************)
EXTENDS Integers, FiniteSets, FiniteSetsExt

CONSTANTS
    Docs,
    MaxComments,    \* bound on the ids given
    Requests,       \* mutating requests, each made once
    Authors,
    RoleIn,         \* RoleIn[u]: the role requireDocRole resolves
    Limit,          \* the page size
    NoOne

ASSUME CommentsAssumption ==
    /\ MaxComments \in Nat /\ Limit \in Nat \ {0}
    /\ RoleIn \in [Authors -> {"reader", "commenter", "writer", "admin"}]
    /\ NoOne \notin Authors \cup Requests \cup Docs

VARIABLES
    comments,   \* comments[id]: a committed row of doc_comment, or Gone
    lastId,     \* AUTO_INCREMENT
    lock,       \* lock[id]: the request whose transaction holds the row
    request,    \* request[r]: where it is
    pager       \* the reader

commentVars == <<comments, lastId, lock, request, pager>>

Ids == 1..MaxComments
Gone == [doc |-> NoOne, parent |-> 0, author |-> NoOne, deleted |-> FALSE, resolved |-> FALSE]
NoRequest == [pc |-> "new", op |-> "none", by |-> NoOne, doc |-> NoOne, on |-> 0, id |-> 0]

CommentsInit ==
    /\ comments = [id \in Ids |-> Gone]
    /\ lastId = 0
    /\ lock = [id \in Ids |-> NoOne]
    /\ request = [r \in Requests |-> NoRequest]
    /\ pager = [pc |-> "new", doc |-> NoOne, all |-> FALSE, cursor |-> 0, seen |-> {}, owed |-> {}, again |-> FALSE]

Exists(id) == id \in Ids /\ comments[id] # Gone
IsRoot(id) == Exists(id) /\ comments[id].parent = 0
MayComment(u) == RoleIn[u] \in {"commenter", "writer", "admin"}
MayWrite(u) == RoleIn[u] \in {"writer", "admin"}

To(r, pc) == request' = [request EXCEPT ![r].pc = pc]

\* What the reader is still owed: roots that stay listed all the while.
Owe(rows) ==
    pager' = [pager EXCEPT !.owed = {id \in @ : rows[id] # Gone /\ ~rows[id].deleted
                                                /\ (pager.all \/ ~rows[id].resolved)}]

-----------------------------------------------------------------------------
(* createCommentHandler.                                                   *)

PostRoot(r) ==
    /\ request[r].pc = "new" /\ lastId < MaxComments
    /\ \E u \in {x \in Authors : MayComment(x)}, d \in Docs :
        request' = [request EXCEPT ![r] = [NoRequest EXCEPT !.pc = "inserted", !.op = "root",
                                               !.by = u, !.doc = d, !.id = lastId + 1]]
    /\ lastId' = lastId + 1
    /\ UNCHANGED <<comments, lock, pager>>

PostReply(r) ==
    /\ request[r].pc = "new"
    /\ \E u \in {x \in Authors : MayComment(x)}, d \in Docs, p \in 1..lastId :
        request' = [request EXCEPT ![r] = [NoRequest EXCEPT !.pc = "reply", !.op = "reply",
                                               !.by = u, !.doc = d, !.on = p]]
    /\ UNCHANGED <<comments, lastId, lock, pager>>

\* SELECT ... FOR UPDATE of the root; 404 for what is no live root of this document.
ReplyRoot(r) == IsRoot(request[r].on) /\ comments[request[r].on].doc = request[r].doc
                    /\ ~comments[request[r].on].deleted

\* Mutant of LockRoot: the root is read without locking it.
LockRootRead(r) ==
    /\ request[r].pc = "reply"
    /\ IF ReplyRoot(r) THEN To(r, "insert") ELSE To(r, "notFound")
    /\ UNCHANGED <<comments, lastId, lock, pager>>

LockRoot(r) ==
    /\ request[r].pc = "reply"
    /\ lock[request[r].on] = NoOne
    /\ IF ReplyRoot(r)
       THEN To(r, "insert") /\ lock' = [lock EXCEPT ![request[r].on] = r]
       ELSE To(r, "notFound") /\ UNCHANGED lock
    /\ UNCHANGED <<comments, lastId, pager>>

InsertReply(r) ==
    /\ request[r].pc = "insert" /\ lastId < MaxComments
    /\ request' = [request EXCEPT ![r].pc = "inserted", ![r].id = lastId + 1]
    /\ lastId' = lastId + 1
    /\ UNCHANGED <<comments, lock, pager>>

CommitPost(r) ==
    /\ request[r].pc = "inserted"
    /\ comments' = [comments EXCEPT ![request[r].id] =
            [Gone EXCEPT !.doc = request[r].doc, !.parent = request[r].on, !.author = request[r].by]]
    /\ lock' = [id \in Ids |-> IF lock[id] = r THEN NoOne ELSE lock[id]]
    /\ To(r, "done")
    /\ UNCHANGED <<lastId, pager>>

\* The transaction is rolled back; its id stays used.
Rollback(r) ==
    /\ request[r].pc \in {"insert", "inserted"}
    /\ lock' = [id \in Ids |-> IF lock[id] = r THEN NoOne ELSE lock[id]]
    /\ To(r, "failed")
    /\ UNCHANGED <<comments, lastId, pager>>

-----------------------------------------------------------------------------
(* patchCommentHandler and deleteCommentHandler: read the row, check, and  *)
(* later write it by its id.                                               *)

MayChange(u, op, id) ==
    CASE op \in {"resolve", "reopen"} -> MayWrite(u) /\ comments[id].parent = 0
      [] op = "hide" -> comments[id].author = u
      [] op = "destroy" -> RoleIn[u] = "admin"

Change(r) ==
    /\ request[r].pc = "new"
    /\ \E u \in {x \in Authors : MayComment(x)}, id \in {x \in Ids : Exists(x)},
          op \in {"resolve", "reopen", "hide", "destroy"} :
        /\ ~comments[id].deleted /\ MayChange(u, op, id)
        /\ request' = [request EXCEPT ![r] = [NoRequest EXCEPT !.pc = op, !.op = op, !.by = u,
                                                   !.doc = comments[id].doc, !.on = id]]
    /\ UNCHANGED <<comments, lastId, lock, pager>>

\* setResolved and softDelete: an UPDATE by id, which waits for the row's lock and does
\* nothing to a row that is gone.
WriteRow(r) ==
    /\ request[r].pc \in {"resolve", "reopen", "hide"}
    /\ lock[request[r].on] = NoOne
    /\ LET id == request[r].on
           rows == IF ~Exists(id) THEN comments
                   ELSE IF request[r].op = "hide" THEN [comments EXCEPT ![id].deleted = TRUE]
                   ELSE [comments EXCEPT ![id].resolved = (request[r].op = "resolve")]
       IN  comments' = rows /\ Owe(rows)
    /\ To(r, "done")
    /\ UNCHANGED <<lastId, lock>>

LockTarget(r) ==
    /\ request[r].pc = "destroy"
    /\ lock[request[r].on] = NoOne
    /\ lock' = IF Exists(request[r].on) THEN [lock EXCEPT ![request[r].on] = r] ELSE lock
    /\ To(r, "purge")
    /\ UNCHANGED <<comments, lastId, pager>>

\* hardDelete: the row and its replies in this document, and the commit.
Purged(r) == {id \in Ids : /\ Exists(id) /\ comments[id].doc = request[r].doc
                           /\ (id = request[r].on \/ comments[id].parent = request[r].on)}
Purge(r) ==
    /\ request[r].pc = "purge"
    /\ \A id \in Purged(r) : lock[id] \in {NoOne, r}
    /\ LET rows == [id \in Ids |-> IF id \in Purged(r) THEN Gone ELSE comments[id]]
       IN  comments' = rows /\ Owe(rows)
    /\ lock' = [id \in Ids |-> IF lock[id] = r THEN NoOne ELSE lock[id]]
    /\ To(r, "done")
    /\ UNCHANGED lastId

-----------------------------------------------------------------------------
(* listCommentsHandler, and the marker feed, which has no resolved roots.  *)

Listed(d, all) == {id \in Ids : IsRoot(id) /\ comments[id].doc = d /\ ~comments[id].deleted
                                /\ (all \/ ~comments[id].resolved)}

StartPaging ==
    /\ pager.pc = "new"
    /\ \E d \in Docs, all \in BOOLEAN :
        pager' = [pager EXCEPT !.pc = "paging", !.doc = d, !.all = all, !.owed = Listed(d, all)]
    /\ UNCHANGED <<comments, lastId, lock, request>>

\* Rows with id > cursor, in order, at most Limit of them.
Page(c) ==
    LET ahead == {id \in Listed(pager.doc, pager.all) : id > c}
    IN  {id \in ahead : Cardinality({x \in ahead : x < id}) < Limit}

\* Mutant of NextCursor: one past the last root of the page.
NextCursorPast(page) == Max(page) + 1

NextCursor(page) == Max(page)

ReadPage ==
    /\ pager.pc = "paging"
    /\ LET page == Page(pager.cursor)
       IN  pager' = [pager EXCEPT !.seen = @ \cup page,
                                  !.again = @ \/ page \cap pager.seen # {},
                                  !.pc = IF Cardinality(page) = Limit THEN "paging" ELSE "done",
                                  !.cursor = IF Cardinality(page) = Limit THEN NextCursor(page) ELSE @]
    /\ UNCHANGED <<comments, lastId, lock, request>>

CommentsNext ==
    \/ \E r \in Requests :
        \/ PostRoot(r) \/ PostReply(r) \/ LockRoot(r) \/ InsertReply(r) \/ CommitPost(r)
        \/ Rollback(r) \/ Change(r) \/ WriteRow(r) \/ LockTarget(r) \/ Purge(r)
    \/ StartPaging \/ ReadPage

CommentsSpec == CommentsInit /\ [][CommentsNext]_commentVars

-----------------------------------------------------------------------------
(* "A removed thread root never leaves orphaned reply rows detached from   *)
(* any thread" (docCommentRepo.ts:268-276): every reply has its root, in   *)
(* its document, however replies race with deletions.                      *)
NoOrphans ==
    \A id \in Ids :
        Exists(id) /\ comments[id].parent # 0 =>
            IsRoot(comments[id].parent) /\ comments[comments[id].parent].doc = comments[id].doc

(* Paging by id gives every root that stayed listed from the first page to *)
(* the last exactly once, whatever is deleted, resolved or added meanwhile *)
(* (docCommentRepo.ts:178-203, comments.ts:163-209).                       *)
PagesComplete ==
    /\ pager.pc = "done" => pager.owed \subseteq pager.seen
    /\ ~pager.again
=============================================================================
