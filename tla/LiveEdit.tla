------------------------------ MODULE LiveEdit ------------------------------
(***************************************************************************)
(* Server-side writes to one document: the base-version guarded edits of   *)
(* editDocBody, editDocSheet and editBoardScene, version restore           *)
(* (restoreVersion) and named snapshots (versions.ts), over the live       *)
(* document and the stores of DocStore.                                    *)
(*                                                                         *)
(* Every request runs on the owner node and has three phases: a read of    *)
(* the live document without a lock, a transaction that re-checks role and *)
(* epoch and records a safety snapshot, and the write to the live document *)
(* followed by an awaited store. Connected clients, other requests, stores *)
(* and permission changes happen in between. Server-side writes need the   *)
(* document's owner node (getCollabServer, src/collab/server.ts); what     *)
(* other nodes do to the row is the business of DocStore.                  *)
(***************************************************************************)
EXTENDS DocStore

CONSTANTS
    Callers,    \* users of the REST API; each makes one request
    Clients,    \* users connected over a websocket
    Owner,      \* the node the requests run on
    Kinds,      \* content kinds the document may have
    Demoted,    \* callers whose role may change
    MaxEpoch    \* bound: permission changes

ASSUME UsersAssumption == Callers \cup Clients \subseteq Users /\ Demoted \subseteq Callers
ASSUME OwnerAssumption == Owner \in Nodes
ASSUME KindsAssumption == Kinds \subseteq {"document", "sheet", "board"}
ASSUME EpochAssumption == MaxEpoch \in Nat

VARIABLES
    kind,       \* the content kind of the document, fixed
    access,     \* doc_meta.permission_epoch and the callers' roles
    versions,   \* doc_version rows, named after the caller that wrote them
    req         \* req[c]: the request of caller c

vars == <<clock, row, updatedBy, live, loading, pending, stores, kind, access, versions, req>>

Roles == {"reader", "writer", "admin"}
Version == [id : Callers \cup {None}, kind : {"named", "marker"}, state : State]
Pcs == {"idle", "read", "tx", "apply", "flush", "refused", "done"}
NoState == Empty

\* pc: what comes next. base: the client's base version; for a restore the vector it is
\* applied to. seen: the structs the caller read. pre: the live state read for the safety snapshot. hit: the live document was changed,
\* left: as which it was left by the change. passed: the locked re-check let it through.
Idle == [pc |-> "idle", op |-> "edit", base |-> {}, seen |-> {}, pre |-> NoState,
         left |-> NoState, epoch |-> 0, target |-> {}, passed |-> FALSE, hit |-> FALSE,
         status |-> 0]

Request == [pc : Pcs, op : {"edit", "restore", "save"}, base : SUBSET Structs,
            seen : SUBSET Structs, pre : State, left : State, epoch : 0..MaxEpoch,
            target : SUBSET Texts, passed : BOOLEAN, hit : BOOLEAN,
            status : {0, 200, 403, 409, 412, 413, 422, 500}]

TypeOK ==
    /\ DocTypeOK
    /\ kind \in {"document", "sheet", "board"}
    /\ access \in [epoch : 0..MaxEpoch, role : [Callers -> Roles]]
    /\ versions \subseteq Version
    /\ req \in [Callers -> Request]

\* A snapshot from when the document was empty: restoring it only deletes.
Init ==
    /\ DocInit
    /\ kind \in Kinds
    /\ access = [epoch |-> 0, role |-> [c \in Callers |-> "admin"]]
    /\ versions = {[id |-> None, kind |-> "named", state |-> Empty]}
    /\ req = [c \in Callers |-> Idle]

Doc == live[Owner]
CanWrite(c) == access.role[c] \in {"writer", "admin"}
IsAdmin(c) == access.role[c] = "admin"
ContentOf(structs) == {s.text : s \in structs} \ {Mark}
Content(doc) == ContentOf(Visible(doc))
\* The answer; of a request that is over only what the properties speak of is kept.
Ended(r, code) ==
    LET o == [Idle EXCEPT !.pc = "done", !.op = r.op, !.passed = r.passed, !.status = code]
    IN  IF r.hit THEN [o EXCEPT !.hit = TRUE, !.base = r.base, !.left = r.left] ELSE o
End(c, code) == req' = [req EXCEPT ![c] = Ended(@, code)]

----------------------------------------------------------------------------
(* Phase 1: read the live document, no lock.                               *)

\* GET content / sheet / scene: the caller gets the content and the base version.
GetBase(c) ==
    /\ req[c].pc = "idle"
    /\ Loaded(Owner)
    /\ req' = [req EXCEPT ![c] = [Idle EXCEPT !.pc = "read", !.base = Vector(Doc),
                                              !.seen = Visible(Doc)]]
    /\ UNCHANGED <<docVars, kind, access, versions>>

\* PATCH: the route's guard, then the pre-flight: base version; anchors, schema and
\* attachments (422); the size of the result (413).
Preflight(c) ==
    /\ req[c].pc = "read"
    /\ Loaded(Owner)
    /\ IF ~CanWrite(c) THEN End(c, 403)
       ELSE IF Vector(Doc) # req[c].base THEN End(c, 412)
       ELSE \/ End(c, 422)
            \/ Size(Doc) >= MaxSize /\ End(c, 413)
            \/ req' = [req EXCEPT ![c] = [@ EXCEPT !.pc = "tx", !.pre = Doc, !.epoch = access.epoch]]
    /\ UNCHANGED <<docVars, kind, access, versions>>

\* POST restore: the target is immutable; the undo baseline is read before the lock.
StartRestore(c) ==
    /\ req[c].pc = "idle"
    /\ Loaded(Owner)
    /\ IsAdmin(c)
    /\ \E v \in versions :
          req' = [req EXCEPT ![c] = [Idle EXCEPT !.op = "restore", !.pc = "tx", !.pre = Doc,
                                        !.epoch = access.epoch, !.target = Content(v.state)]]
    /\ UNCHANGED <<docVars, kind, access, versions>>

\* POST versions: a named snapshot of the live state.
StartSave(c) ==
    /\ req[c].pc = "idle"
    /\ Loaded(Owner)
    /\ CanWrite(c)
    /\ req' = [req EXCEPT ![c] = [Idle EXCEPT !.op = "save", !.pc = "tx", !.pre = Doc]]
    /\ UNCHANGED <<docVars, kind, access, versions>>

----------------------------------------------------------------------------
(* Phase 2: the transaction.                                               *)

Row(c, k) == [id |-> c, kind |-> k, state |-> req[c].pre]

SaveTx(c) ==
    /\ req[c].pc = "tx" /\ req[c].op = "save"
    /\ versions' = versions \cup {Row(c, "named")}
    /\ End(c, 200)
    /\ UNCHANGED <<docVars, kind, access>>

\* The role is read again under the doc_meta lock, then the epoch compared.
RoleLost(c) == IF req[c].op = "edit" THEN ~CanWrite(c) ELSE ~IsAdmin(c)
Denied(c) == RoleLost(c) \/ access.epoch # req[c].epoch

DenyTx(c) ==
    /\ req[c].pc = "tx" /\ req[c].op # "save"
    /\ Denied(c)
    /\ End(c, IF RoleLost(c) THEN 403 ELSE 409)
    /\ UNCHANGED <<docVars, kind, access, versions>>

EditTx(c) ==
    /\ req[c].pc = "tx" /\ req[c].op = "edit"
    /\ ~Denied(c)
    /\ versions' = versions \cup {Row(c, "marker")}
    /\ req' = [req EXCEPT ![c] = [@ EXCEPT !.pc = "apply", !.passed = TRUE, !.pre = NoState]]
    /\ UNCHANGED <<docVars, kind, access>>

\* A target that cannot be loaded (409) and a reconciled row that is too large (413) are
\* refused before the snapshot and the stamp.
RestoreTx(c) ==
    /\ req[c].pc = "tx" /\ req[c].op = "restore"
    /\ ~Denied(c)
    /\ \/ End(c, 409) /\ UNCHANGED <<docVars, versions>>
       \/ /\ Size(row) + Cardinality(req[c].target \ Content(row)) > MaxSize
          /\ End(c, 413)
          /\ UNCHANGED <<docVars, versions>>
       \/ /\ Size(row) + Cardinality(req[c].target \ Content(row)) <= MaxSize
          /\ versions' = versions \cup {Row(c, "marker")}
          /\ Touch(c)
          /\ req' = [req EXCEPT ![c] = [@ EXCEPT !.pc = "apply", !.passed = TRUE, !.pre = NoState]]
    /\ UNCHANGED <<kind, access>>

----------------------------------------------------------------------------
(* Phase 3: the live write and its store.                                  *)

\* Mutant of Advance: a write that only deletes leaves the counter alone.
AdvanceOnInsert(texts) == IF texts = {} THEN {} ELSE texts \cup {Mark}

\* advanceEditVersion: every committed write integrates one more struct.
Advance(texts) == texts \cup {Mark}

Applied(c, base) ==
    req' = [req EXCEPT ![c] = [@ EXCEPT !.pc = "flush", !.hit = TRUE, !.base = base, !.left = live'[Owner]]]

\* The guard is the first statement of the transact: it sees the document it changes.
\* What it inserts has passed the size gate against the same content.
ApplyEdit(c) ==
    /\ req[c].pc = "apply" /\ req[c].op = "edit"
    /\ Loaded(Owner)
    /\ Vector(Doc) = req[c].base
    /\ \E texts \in {{}} \cup {{t} : t \in Texts}, gone \in {{}} \cup {{s} : s \in Visible(Doc)} :
          /\ texts # {} \/ gone # {}
          /\ texts # {} => Size(Doc) < MaxSize
          /\ \A s \in gone : s.text # Mark
          /\ DirectWrite(Owner, c, Advance(texts), gone)
    /\ Applied(c, req[c].base)
    /\ UNCHANGED <<kind, access, versions>>

\* A stale base, or an anchor, cell or protection check on the guarded content, throws
\* before any change; the connection still disconnects as the editor, with a store.
RefuseEdit(c) ==
    /\ req[c].pc = "apply" /\ req[c].op = "edit"
    /\ Loaded(Owner)
    /\ \E code \in {412, 422} :
          /\ (code = 412) <=> (Vector(Doc) # req[c].base)
          /\ req' = [req EXCEPT ![c] = [@ EXCEPT !.pc = "refused", !.status = code]]
    /\ WriterFlush(Owner, c)
    /\ UNCHANGED <<kind, access, versions>>

\* reconcileRestoreOntoDoc advances the edit version; reconcileBoardMaps does not.
Reconciled(texts) == IF kind = "board" THEN texts ELSE Advance(texts)

ApplyRestore(c) ==
    /\ req[c].pc = "apply" /\ req[c].op = "restore"
    /\ Loaded(Owner)
    /\ LET gone == {s \in Visible(Doc) : s.text \notin req[c].target \cup {Mark}}
       IN  DirectWrite(Owner, c, Reconciled(req[c].target \ Content(Doc)), gone)
    /\ Applied(c, Vector(Doc))
    /\ UNCHANGED <<kind, access, versions>>

\* Mutant of Drop: a refused request's snapshot is left where it is.
DropNothing(c) == versions

\* docVersionRepo.deleteById of the safety snapshot.
Drop(c) == {v \in versions : v.id # c \/ v.kind # "marker"}

\* Mutant of AfterFailure: every kind does what a document does.
AfterFailureAlike(c) == IF req[c].op = "edit" THEN Drop(c) ELSE versions

\* What the caller's catch block does when its store has failed: an edit of a document
\* takes its safety snapshot back, the others keep it.
AfterFailure(c) == IF req[c].op = "edit" /\ kind = "document" THEN Drop(c) ELSE versions

\* Mutant of StoreEnds: an error of the store is logged and not thrown.
StoreEndsSwallowed(s) ==
    LET c == s.for
        r == req[c]
    IN  /\ CommitStore(s) \/ FailStore(s)
        /\ End(c, IF r.pc = "refused" THEN r.status ELSE 200)
        /\ versions' = IF r.pc = "refused" THEN Drop(c) ELSE versions

\* The awaited store of a direct connection ends, and with it the request. A store
\* failure replaces the guard's error: the finally block throws last.
StoreEnds(s) ==
    LET c == s.for
        r == req[c]
    IN  \/ /\ CommitStore(s)
           /\ End(c, IF r.pc = "refused" THEN r.status ELSE 200)
           /\ versions' = IF r.pc = "refused" THEN Drop(c) ELSE versions
        \/ /\ FailStore(s)
           /\ End(c, 500)
           /\ versions' = AfterFailure(c)

FlushEnds ==
    /\ \E s \in stores : s.for # None /\ StoreEnds(s)
    /\ UNCHANGED <<kind, access>>

----------------------------------------------------------------------------
(* Around the requests.                                                    *)

\* A connected client inserts a struct or deletes one.
ClientEdit(u) ==
    /\ \/ \E t \in Texts : ClientWrite(Owner, u, {t}, {})
       \/ Loaded(Owner) /\ \E s \in Visible(Doc) : s.text # Mark /\ ClientWrite(Owner, u, {}, {s})
    /\ UNCHANGED <<kind, access, versions, req>>

\* A role changes, and the epoch with it.
ChangeRole(c, r) ==
    /\ access.epoch < MaxEpoch
    /\ r # access.role[c]
    /\ access' = [epoch |-> access.epoch + 1, role |-> [access.role EXCEPT ![c] = r]]
    /\ UNCHANGED <<docVars, kind, versions, req>>

Storing ==
    /\ \/ Fetch(Owner) \/ Hydrate(Owner) \/ DebouncedStore(Owner) \/ ReaderFlush(Owner) \/ Unload(Owner)
       \/ \E s \in stores : s.for = None /\ (CommitStore(s) \/ FailStore(s))
    /\ UNCHANGED <<kind, access, versions, req>>

\* The process dies, and its requests die with it, unanswered.
Crash ==
    /\ Restart(Owner)
    /\ req' = [c \in Callers |->
                 IF req[c].pc \notin {"idle", "read", "done"}
                 THEN Ended(req[c], 0) ELSE req[c]]
    /\ UNCHANGED <<kind, access, versions>>

Next ==
    \/ \E c \in Callers :
        \/ GetBase(c) \/ Preflight(c) \/ StartRestore(c) \/ StartSave(c)
        \/ SaveTx(c) \/ DenyTx(c) \/ EditTx(c) \/ RestoreTx(c)
        \/ ApplyEdit(c) \/ RefuseEdit(c) \/ ApplyRestore(c)
    \/ FlushEnds
    \/ Storing \/ Crash
    \/ \E u \in Clients : ClientEdit(u)
    \/ \E c \in Demoted, r \in Roles : ChangeRole(c, r)

Spec == Init /\ [][Next]_vars

----------------------------------------------------------------------------
(* Properties.                                                             *)

Markers == {v \in versions : v.kind = "marker"}
Answered(c) == req[c].pc = "done" /\ req[c].status = 200 /\ req[c].op \in {"edit", "restore"}

\* The base version moves with every committed write (advanceEditVersion): of two edits
\* answered 200 no two were guarded by one token, and no edit got through with a token
\* read before a restore that was answered 200; whether or not the owner died in between.
\* A board's restore is not covered: it does not advance the token.
OneWritePerToken ==
    \A c, d \in Callers :
        c # d /\ Answered(c) /\ Answered(d) /\ (kind = "board" => req[c].op = req[d].op)
            /\ req[c].op = "edit"
        => req[c].base # req[d].base

\* 200 is sent after the store: all that an answered write inserted and deleted is in the
\* row, even if the owner dies right after and other stores were under way.
AnsweredIsStored == \A c \in Callers : Answered(c) => Below(req[c].left, row)

\* A change of a sheet or board that peers have seen keeps its only undo record: the
\* safety snapshot stands, and no struct separates it from the state that was changed.
UndoKept ==
    \A c \in Callers : req[c].hit /\ req[c].op = "edit" /\ kind # "document" =>
        \E v \in Markers : v.id = c /\ Vector(v.state) = req[c].base

\* The same for every kind: what the catch blocks of the sheet and board services demand.
\* It fails for documents.
UndoKeptAlways ==
    \A c \in Callers : req[c].hit /\ req[c].op = "edit" =>
        \E v \in Markers : v.id = c /\ Vector(v.state) = req[c].base

\* A request refused by a guard leaves no restore point behind (the code tolerates one when
\* the compensating delete itself fails, which is not modelled).
RefusedLeavesNothing ==
    \A c \in Callers : req[c].pc = "done" /\ req[c].status \in {403, 409, 412, 413, 422} =>
        ~req[c].hit /\ \A v \in Markers : v.id # c

(* Stated by comments of the code and not kept by it: see the README.      *)

\* A restore is a content write, so its base-version token must move forward even when it
\* only deletes (liveRestore.ts): OneWritePerToken without the exception. A board's does not.
RestoreMovesToken ==
    \A c, d \in Callers :
        c # d /\ Answered(c) /\ Answered(d) /\ req[c].op = "edit" => req[c].base # req[d].base

\* A drift between the caller's read and the commit throws before any write
\* (liveDocWrite.ts). A client that only deletes does not move the token.
DriftIsRefused == [][\A c \in Callers : ApplyEdit(c) => Visible(Doc) = req[c].seen]_vars

\* A restore can be undone: its safety snapshot has the content the restore replaces
\* (restoreVersion.ts). What is edited after the snapshot's read and before the restore is
\* in neither.
RestoreUndoable ==
    [][\A c \in Callers : ApplyRestore(c) =>
            \E v \in Markers : v.id = c /\ Content(v.state) = Content(Doc)]_vars
=============================================================================
