# Octo Docs backend: verification project

TLA+ models of the Octo Docs backend, TLC runs that check them on small instances, and TLAPS
proofs of what matters most for instances of any size. They cover who may write a document and
see it, what becomes of what was written, the requests that move whole documents in and out, and
what conversions and edits do to a document's content.

Contents: [the system](#the-system), [the modules](#the-modules-and-the-code),
[the runs](#the-runs), [fairness](#fairness), [proofs](#proofs),
[where the code and its documentation part](#where-the-code-and-its-documentation-part),
[not modelled](#not-modelled), [plan](#plan). Paths without a prefix are under `src/src/`;
`contract` is `src/docs/contract/backend-design.md`.

## The system

An Express API and a Hocuspocus (Yjs) collaboration server in one process, several such
processes behind a load balancer, one MySQL database, one Redis. A document is a Y.Doc; its
authoritative copy is one binary row. Permissions are rows; a per-document *permission epoch*
versions them.

| component | state | operations | interacts with | correct when | status |
|---|---|---|---|---|---|
| permission epoch and caches: `permission/epoch.ts`, `util/singleflight.ts`, `index.ts` | `doc_meta.permission_epoch`; a Redis copy (TTL); a node-local copy (TTL); database reads in flight; pub/sub events; a watermark per node | `bumpEpoch`, `currentEpoch`, `refreshAndPublish`, `invalidateEpochCache`, the subscriber | everything that changes a role calls it; tokens and sockets are compared with it | no copy is ahead; a fresh cache stays fresh until a bump; stale copies go away | modelled |
| collaboration access: `auth/issueCollabToken.ts`, `collab/authenticate.ts`, hooks of `collab/server.ts`, `permission/recheck.ts`, `resolveRole.ts`, `shareScope.ts`, `api/routes/members.ts` | tokens (role and epoch), a context per connection, the recheck cache and its reads in flight, member rows, share setting | issue, authenticate, first message, later messages, recheck; PUT/DELETE member, share, invite, delete | epoch machinery; member writes race with all of it | nobody writes who may not; who may is not shut out | partly |
| invitation links: `api/services/acceptInvite.ts`, `acceptDecision.ts`, `docInviteRepo` | invite row, redemption rows, member row, row locks | accept (a transaction), revoke, expiry, member writes, deletion | bumps the epoch in its transaction | seats are counted, revocation is final, no deadlock | partly |
| access requests: `api/routes/accessRequests.ts`, `cardActionDecide.ts`, `grantRequestWithBots.ts` | request row, receipts, member rows | submit, approve/deny by REST, decide by a card click delivered at least once | octo-server; grants bump the epoch | decided once, granted as approved, answered once and truthfully | partly |
| document persistence: `collab/persistence.ts`, the Database and Redis extensions | one row; a Y.Doc in memory per node; pending and running stores | load, debounced store, flush of a direct connection, unload | every editor and every server-side read or write | nothing stored is ever lost | modelled |
| live edits, restore, snapshots: `collab/live*.ts`, `api/services/edit*.ts`, `restoreVersion.ts`, `api/routes/versions.ts` | version rows, base-version tokens, a counter in the document | read, guarded edit, restore, named snapshot | persistence; role and epoch under row locks; connected clients | one write per token; a 200 is durable; what peers saw can be undone; a refusal leaves nothing | partly |
| auto snapshots: `collab/autoSnapshot.ts` | timers and times per node, two Redis locks, version rows | after a store, when idle, at unload, prune | persistence, versions | the last burst is in a kept version; only automatic ones are pruned | partly |
| PPT documents: `ppt/*`, `api/ppt/*` | deck rows, idempotency rows | create, retry, serve the source | member rows, the guard | a retry has the effect of one call; who may not read a source learns nothing of it | partly |
| whiteboard repair: `whiteboard/repair.ts`, `boardEdit.ts`, `migrate.ts` | the board's maps | repair after a transaction and at load, bot edits, restore | collaboration server | the scoped pass does what the whole pass would; no image is lost | partly |
| work queues: `importQueue.ts`, `boardExportQueue.ts`, `typstService.ts` | slots, waiting callers | acquire, release | imports and exports | a slot comes back on every path; nobody waits for ever | modelled |
| documents, comments, view history: `api/routes/docs.ts`, `comments.ts`, `docMetaRepo.ts`, `docCommentRepo.ts`, `docViewHistoryRepo.ts` | rows | register a slug, rename, delete; comment, reply, resolve, delete, page; list, search, view | members, share settings, octo-server | one document per slug in a space; no orphan reply; a list shows what the guard allows | partly |
| decision cards: `docsNotify.ts`, `docsDecisionCardSync.ts` | a ledger of cards, cards at octo-server | post, list, update, mark; mention | access requests, comments | no card tells what was not decided | partly |
| attachments: `api/routes/attachments.ts`, `docAttachmentRepo.ts`, `storage/*` | rows and objects | presign, upload, copy, clean up | imports, live edits | what a document refers to is stored | partly |
| conversions: `import/*`, `export/*`, `agent/*` | none | Markdown and Word, in and out; batches on a body or a sheet; the handlers around them | queues, attachments, live edits | inverse on what the format carries, nothing lost beyond it, a legal document from any file | partly |
| platform: `auth/octoIdentity.ts`, `db/migrate.ts`, wiring | a membership cache, the migration ledger | ask, fetch, expire; lock, execute, record | octo-server; other deploys | an outage is no answer; files run in order, once | partly |

What is hard here: the epoch travels along three channels with different delays and is compared
with copies of itself; rechecks are cached and coalesced; accepts, decisions and server-side
edits each span several awaits while rows, locks and the live document change; card clicks are
delivered again after every failure; stores capture a document now and commit it later, in any
order, on several nodes; a CRDT's state vector is used as a version although it does not
count deletions; uploads, rows and edits fail separately and are cleaned up while others may
already use them; and a document crosses formats that can say less than its schema.
`PROJECT.json` lists the hazards at their lines with the properties that cover each.

## The modules and the code

An action is what the code does between two awaits, or a whole transaction where its row locks
make it one. Names follow the source.

**EpochView** states what the epoch machinery promises: the epoch only counts up, a node's
watermark lags but never runs ahead and never goes back while the node is up.

**EpochCache** (EXTENDS EpochView) is `permission/epoch.ts` with Redis, the local cache, the
singleflight and the subscriber of `index.ts`. `BumpTx`, `RefreshRedis`, `RefreshLocal` and
`Publish` are the awaits of `bumpEpoch`; `AskLocal`, `AskRedis`, `RedisHit` / `RedisMiss`,
`FlightRead`, `FlightWarm`, `FlightFill` those of `currentEpoch`; `Deliver`, `InvalidateRedis`,
`Heard` those of the subscriber. A Redis command and the use of its reply are separate steps.
Any Redis command or database read may fail, any node may restart. TTLs have no clock: a live
entry may expire at any time.

**CollabAccess** (EXTENDS EpochView, so it uses what EpochCache implements) is the road from a
member row to a socket. `IssueReadMeta` and `IssueReadRole` are the two reads of
`issueCollabToken`; `Authenticate`, `StaleMessage`, `Disconnect` the hooks; `FlightMeta`,
`FlightRole`, `FlightDone` and `KnownExpires` the coalesced, cached recheck; `PutMember`,
`RemoveMember`, `AcceptInvite`, `SetShareSettings`, `SoftDelete` the operations that change a
role, with the gap between a row write and its bump where there is one. Reader stands for
commenter and writer for admin: these hooks do not tell them apart. `user` is whose socket it
is: that of the user whose role changes, or a bystander's.

**InviteAccept** is `acceptInviteForUid` as an InnoDB transaction: a lock on the invite row,
snapshot reads (`ReadState`), a lock on the member row, `Commit` with all writes, `Abort`.
`Decide` is `decideAcceptBranch`. `StatusAfterUse` is the UPDATE of `incrementUsedCountTx` with
MySQL's left-to-right evaluation.

**AccessRequest** is the request row with its two ways to a decision. There is no transaction
in this code: each statement is a step (`Claim`, `Lookup`, `CheckAdmin`, `Decide`,
`GrantRequester`, `GrantBot`, `GrantsDone`, `Finalize`), and `Fault` is a database error or the
death of the process at any of them.

**DocStore** is one document between the nodes' memories and its row. A Y.Doc is what the code
tells two of them apart by: the structs integrated and those deleted; `Vector`
(Y.encodeStateVector) sees insertions only, `FinalState` is `computeFinalState` with its bypass of
the merge. `Fetch`
and `Hydrate` load it; `ClientWrite` changes it and leaves a debounced store; `Capture` is
onStoreDocument encoding the document, `CommitStore` the transaction of `persistence.store`
later; `ReaderFlush` is a read-only direct connection that disconnects (`liveDocRead.ts` and
the reads of the live* files), whose flush takes over the debounced store; `DirectWrite` and
`WriterFlush` are a direct connection acting for a user. Hocuspocus and the Redis extension are
external: stores may overtake each other, updates may reach the other node late or never.

**LiveEdit** (EXTENDS DocStore) adds the requests. `GetBase` / `Preflight` / `EditTx` /
`ApplyEdit` or `RefuseEdit` are editDocBody, editDocSheet and editBoardScene; `StartRestore` /
`RestoreTx` / `ApplyRestore` restoreVersion and liveRestore; `StartSave` / `SaveTx`
createVersionHandler; `DenyTx` the role and epoch re-check under the lock; `StoreEnds` the
awaited flush and, when it fails, the catch block, where documents differ from sheets and boards
(`AfterFailure`). `Advance` is advanceEditVersion. The three kinds differ in `Reconciled` (a
board's restore does not advance the counter) and `AfterFailure`; a sheet is a document in the
one and a board in the other.

**AutoSnapshot** is `collab/autoSnapshot.ts` on every node with the two Redis locks and the
`doc_version` rows. `AfterStore`, `FireIdle` and `BeforeUnload` begin a handler, `Acquire` /
`Encode` / `Commit` are its awaits, `Deadlocks` is InnoDB aborting one of two pruning
transactions, `Fails` an error; `CreateVersion` and `DeleteVersion` are users. A timer may fire
late, never early. Content is the number of stores so far; `GiveUp` notes the content that the code
gives up, on the paths the comment of `LatestIsKept` lists.

**PptOnce** states what an Idempotency-Key promises: one effect, and answers about it alone.
**PptCreate** is the create transaction: the placeholder row as a lock, `Wake` and `SharedInsert`
the waiting duplicates, `Victim` the InnoDB deadlock that a rollback causes, `CommitLost` a
commit whose reply is lost, `Resend` the caller. **PptSource** answers GET source as a function of
request, row, role and content.

**WorkQueue** is the gate that stands three times in the code. **Jobs** (EXTENDS WorkQueue) are
attachments, rows and objects that fail separately, and the handlers: `Start...` the admission
of each kind, `FetchPart` / `PutPart` / `RegisterPart` / `UnputPart` / `CheckPart` their images (a
lookup that throws ends the request: a Markdown import deletes its copies first),
`ReadLive` / `Preflight` / `Transaction` / `Apply` / `Flush` the edit under a base version,
`Sweep` the clean-up, `Answer` the `finally` that releases the slot. A job is one of eleven
kinds, given when it arrives; `ClientEdits` puts and removes references, and restores.

**BoardRepair** is a board on its node: `Transaction` applies a transaction and the scoped repair
that its observer runs, `ColdRepaired` the whole-board pass of a load. `Scope` and
`Referrers` are what the scoped pass looks at.

**HtmlRegistry**, **Comments**, **DocLists**, **DecisionCards**, **OctoMembership** and
**Migrations** are small machines with state of their own: the chain of statements that registers
a slug; threads with the row locks of a reply and of a hard delete; three SQL queries beside the
guard they repeat; the two tasks that post and update cards and the worker pool of mentions; the
membership cache with its shared fetch; deploys that run migrations one statement at a time.

**SheetProtection** decides who may write where; **SheetEdit** (EXTENDS it) is a batch from its
first read to the commit, browsers that write in between, paged reads, restores. **BodyEdit** is
`EditBody`, a batch of operations by path as a function of document and batch, over the tokens of
ProseMirror's positions. **AnchorResolve** finds the text a comment is pinned to.

**MarkdownExport** and **MarkdownImport** are the serializer and the importer over the document
tree, with as much of CommonMark between them as the serializer's output needs (markdown-it is
external); **MarkdownTrip** has the schema's content rules and what survives the way. **DocxExport**
and **DocxImport** are the same for Word: the exporter's flat sequence of paragraphs, and the walk
that folds it back by styles, numbering and boundary markers.

```
EpochView <- EpochCache <- EpochCacheProofs
EpochView <- CollabAccess <- MCCollabAccess, CollabAccessProofs
DocStore <- LiveEdit <- MCLiveEdit
LiveEdit + AutoSnapshot + BoardRepair + SheetEdit <- LiveDocumentProofs
InviteAccept <- MCInviteAccept, InviteAcceptProofs
AccessRequest <- MCAccessRequest, AccessRequestProofs
AutoSnapshot <- MCAutoSnapshot
PptCreate (INSTANCE PptOnce) <- PptCreateProofs
WorkQueue <- Jobs <- MCJobs, JobsProofs
HtmlRegistry + Comments + DocLists + DecisionCards + OctoMembership + Migrations <- MCDocuments
MCDocuments <- DocumentsProofs
SheetProtection <- SheetEdit
MarkdownExport <- MarkdownImport <- MarkdownTrip;  DocxExport + MarkdownTrip <- DocxImport
DocxImport <- MCMarkdown;  BoardRepair + SheetEdit + BodyEdit + AnchorResolve + PptSource + MCMarkdown <- MCContents
```

EpochCache, DocStore and PptCreate need no MC module: their .cfg files give sets of model values.
MCDocuments and MCContents each hold several parts: their variable `part`, chosen at the start,
says which of them a behaviour is about, and the others rest. In MCContents `input` is an input of
a calculation, and a behaviour about a calculation is its initial state.

## The runs

All runs are expected to pass and set `CHECK_DEADLOCK FALSE`: epochs, transactions, submissions
and requests are bounded, and the models stop at the bound. `SomebodyProceeds` checks row locks,
the liveness properties that nobody waits for ever. Sizes and times are of two workers.

| run | instance | shows |
|---|---|---|
| EpochCache | 2 nodes, 1 bumper, 1 call, 2 bumps, all failures | `NothingAhead`, `FreshnessIsStable`, `CachesConverge` and the refinement `ImplementsView`. Two bumps are the least for a copy that is two changes old; a bump on one node and a call on the other meet in every order; a stale copy needs one call, one bump and one delivery. With one bumper no two bumps are under way at once: for that case the three safety properties are proved (any number of bumpers), and `CachesConverge` is not checked |
| CollabAccess | 1 node, 1 socket of the user whose role changes or of a bystander, 3 bumps, all share scopes, crashes; 341 152 states | `TokenExact` and `RecheckExact`: the order of the reads makes the epoch a version of the role. `ReadOnlySticks`: lowered, raised and stale again takes three changes. `WritersUndisturbed` and `BystanderGetsIn`: somebody else's changes delay a writer and never shut it out |
| InviteAccept | owner and 2 guests, 2 links with one seat (writer and reader), 2 accepts at a time, an admin who makes readers | `SeatsCounted`, `RevokedIsFinal`, `SomebodyProceeds`. Two links and two accepts are the least for a lock cycle, two guests the least to fight for a last seat |
| AccessRequest | 1 requester, 1 bot, 1 click, 2 handlers, 2 submissions, 1 fault; 4.27 million states, 1 minute | `GrantedAsApproved`, `OneAnswer`, `AnswerIsTrue`: two deliveries, or a delivery and a REST decision, in every order, with a second submission and an error or crash in between |
| AccessLive | 1 requester, no bot, 2 handlers, 2 faults | `ClickAnswered` |
| DocStore | 2 nodes, 1 user, 2 transactions, 1 store under way per node, room for two texts, restarts; 213 184 states | `RowGrows`: two transactions on two nodes give documents of which neither contains the other, the case the bypass must not take. `PendingIsStored`, with the third text refused by the cap |
| LiveEdit | 2 callers whose roles change, 1 client, document or board, 2 transactions, 2 stores under way, room for two texts, 1 role change, failures and crashes; 3.6 million states, 2.5 minutes | `OneWritePerToken`, `AnsweredIsStored`, `UndoKept`, `RefusedLeavesNothing`. Two writes are the least that can share a token; the client's write takes the place of one of them |
| PptCreate | 3 calls of 2 users under 1 key, 2 payloads, 2 faults; 99 269 states | `ImplementsOnce`, `NeverInProgress`, `EveryCallSettles`. Three calls are the least for InnoDB's deadlock: one rolls back and two waiting inserts get a shared lock |
| Jobs | 2 requests, the first of any kind, with 2 images and 1; one slot per queue, one waiting place (none for typst), 1 fault, 1 edit of a client; 560 661 states, 2 minutes | `ReferencedIsStored`, `FailedLeavesNothing`, `SlotsExact`, `EveryJobAnswered`. Two images are the least for a failure half-way, two requests for a slot that is handed on and for an edit under the other's base version |
| AutoSnapshot | 2 nodes, 2 stores, idle after 1 tick, interval 3, 4 ticks, 2 versions kept, 1 named, 1 fault; 2.95 million states | `LatestIsKept`, `SavedIsKept`. Four ticks let an interval and an idle timer pass; a named version between two frames is what pruning could take |
| Documents | by part: 3 bots of 2 spaces and one slug, 3 calls; 3 comments, 3 requests, pages of one; 3 documents in 2 spaces, 1 view kept, 2 days; 3 people on cards, 2 faults; 2 askers, lifetime 2 of 5 ticks; 2 deploys of 3 files with 2 statements, 3 stops; 1.58 million states, 1.5 minutes | `RegistrationsAgree`, `NoOrphans`, `PagesComplete`, `ListsMirrorGuard`, and `ServicesExact`, the conjunction of `CardsTellTheOutcome`, `MentionsReach`, `MembershipFresh` and `MigrationsInOrder` |
| Contents | boards of 2 elements and 1 file; sheets of 4 cells and the maps beside them, 2 users, 13 rules and pairs of them, page cap 6; bodies of up to 4 blocks with every batch of 1 or 2 operations; two text blocks of up to 3 characters; documents, Markdown, and Word files given in MCMarkdown; every source request on every row; 628 196 states, 45 s | `RepairedAtRest`, `ImagesKept`; `EditsExact`, the conjunction of `WritesExact`, `WrittenIsReadable`, `WalkExact`, `BatchExact`, `PinnedExactly` and `PinFits`; `ConversionsExact`, that of `RoundTripExact`, `WordsKept`, `ImportLegal`, `WordTripExact`, `WordsCarried`, `WordImportLegal` and `SourceExact` |

Bounds, all in guards: `MaxEpoch` (bumps), `MaxId` (submissions), `MaxFaults` (errors and
crashes), `MaxTx` (transactions on the document), `MaxStores` (stores under way on a node),
`MaxContent` (AutoSnapshot's stores), `MaxSize` (config.maxDocBytes, counted in inserted texts; the few bytes of
the edit-version counter are not counted), `MaxEdits` (a client's edits in Jobs), `MaxTime` and
`MaxClock` (ticks), `MaxNamed` (saved versions), `MaxComments`, `MaxChanges` (of shares and
members), `MaxStops` (of deploys), `MaxIndex` (fractional keys),
`MaxBrowserWrites`, `MaxPlace` (rows and columns of a sheet). The code's own limits are constants with small values: `RetainCount`, `Keep`
and `Days` of view history, `Limit` of a page, `MaxTerms` of a search, `ReadCap`, `DocCap` and `PageLimit` of sheets,
`MaxOps`, `MaxDepth` and `MaxBlockDepth`, `MentionCap` and `Concurrency`. Symmetry is used in runs
without liveness properties only, over values the models treat alike. In LiveEdit everything
happens on the node that owns the document, `Owner`; what other nodes do to the row is DocStore's
business, and DocStore is what LiveEdit is proved to implement. AutoSnapshot calls its nodes
`Servers`.

The inputs of the conversions are built to meet each other: every mark inside and beside every
other, every block in every container that takes it, lists in lists with gaps in their levels,
tables with spans, and, for files of other authors, markers without partners. The round trips are
exact only for documents the format can carry: `Faithful` and `Carried` say which, and the list of
divergences below is what they leave out. `WordsKept` and `WordsCarried` speak of all documents.

Every property has a mutant in `PROJECT.json`: the definition it replaces and a form of it with a
plausible bug, with which TLC finds the property violated. The conjunctions of several modules'
properties have several mutants, each against another part.

## Fairness

* EpochCache: weak fairness of the steps of a request, a call and a database read (an await on
  MySQL or Redis ends, with an error if nothing else); strong fairness of delivering an event a
  node is subscribed to and of expiry (an entry that comes back again and again still expires:
  both caches have a TTL).
* CollabAccess: weak fairness of issuing and of the recheck's reads; strong fairness of
  authenticating and of finishing a recheck (a client reconnects by itself; a database read that
  is tried again and again succeeds at times).
* AccessRequest: weak fairness of a handler's steps; strong fairness of redelivery, which is
  octo-server's contract. Faults are finitely many.
* DocStore: weak fairness of the debounced store (maxDebounce is 10 s) and of the end of a store's
  transaction. `PendingIsStored` does not hold for stores that fail: Hocuspocus retries only on
  the next change, so that run has `StoresFail = FALSE`, and keeps the failure at the cap.
* PptCreate: weak fairness of the steps after an await, of InnoDB choosing a victim, of committing
  and of a caller who sends again. Faults are finitely many.
* Jobs: weak fairness of each request's steps: compiles and uploads are timed, MySQL and the store
  answer or fail.
* InviteAccept, LiveEdit, AutoSnapshot, Documents and Contents: none, their properties are about
  safety.

## Proofs

Every safety property that a run checks, but the two about calculations (`EditsExact` and
`ConversionsExact`), is proved, for any values of the constants under the modules' named
assumptions, and of `EditsExact` the three parts about sheets; so are two refinements between
modules of the project (EpochCache of EpochView, LiveEdit of DocStore) and one of an abstract specification (PptCreate of PptOnce). The assumptions:
bounds are naturals; the name of "nothing" is not the name of anything; callers, clients, targets
and socket users are users, and LiveEdit's owner is one of the nodes; initial and invited roles are
roles, invites have a natural limit (0 for none); the callers of PptCreate and the requests of Jobs
are finitely many, since `Cardinality` counts what they did, as are the documents of DocLists, the
people of DecisionCards and the elements of a board; every queue has at least one slot, and every
image of a request is a part; ids of comments, elements, files and documents are numbers; a
database holds boards before their first repair, whatever they are; a sheet's maps are finite,
their keys have the shape that the maps' patterns let through, sheets have an order, a rule's ranges
are rectangles or what cannot be read, and `MaxPlace` is at least every row and column. TLC evaluates all of them in the runs.

Each machine has one inductive invariant, which TLC checked on the run's instance before it was
proved, one lemma per action or per conjunct that an action can disturb, and theorems that follow
from it. What the invariants add to the properties, and why:

**EpochCacheProofs.** `IInv == TypeOK /\ CopiesInv /\ BumpInv /\ CallInv`. `NothingAhead` alone
is not inductive: it speaks of values in use, and a step may put another field of a record to use
(a Redis reply becomes the local entry, a flight's value becomes everybody's), so `IInv` bounds the
value of every record whatever its pc, and says that a request that has begun runs on some node.
From it `TypeCorrect`, `Safety` (`NothingAhead`), `Refinement` (each step is a step of EpochView or
a stutter: `Raise` gets a value at most `epoch`, which is `IInv`), and `Freshness`, where
`FreshInv`, all copies in use current, is preserved by every step that does not bump.

**CollabAccessProofs.** `TokenExact` and `RecheckExact` speak of the end of two reads made one
after the other. What makes them true is what is known between the two: as long as the epoch read
with `doc_meta` is the current one, that row has not changed (`ClientOK` while issuing, `ReadingOK`
of a recheck in flight); every write of a role either bumps in its transaction or leaves its user
in `Unsignalled`. For `WritersUndisturbed`, `Sheltered(u)` carries through tokens, readings and
cached answers that the role of a writer nobody touches reads writer, member or not a member, so no
refusal can start from one. `ReadOnlySticks` follows from the same invariant.

**InviteAcceptProofs.** That the seat an accept takes is free and its user new was found out one
statement before it commits. `InviteLocksOK` says whose the row lock is, and from when to when;
`DecisionsStand` that what was decided under it still stands; `SeatsOK` that the count is the
cardinality of the set of redemptions. `RevokedIsFinal` needs that a revocation waits for the same
lock. `SomebodyProceeds` is the lock order: whoever holds a member row's lock already holds its
invite row's and takes no other, so a chain of waiting accepts is at most two long
(`MemberLocksOK`).

**AccessRequestProofs.** No handler runs a transaction, so the invariant is about what each row
cannot do any more. `IdsOK`: a request id is given out once and names one row. A request once
decided stays as it was decided until a new submission, with a new id, replaces it
(`DecidedStays`); `ApprovalsOK` says that what was approved is so decided, which is why the CAS is
won once (`Won`). `HandlerOK` is what a handler knows at its statements: an approval of its request
before it grants, a claimed receipt before it finalizes, and that the result it is about to store
is true. `EventOK` relates a click, its receipt and its answer.

**LiveDocumentProofs**, first DocStore. `BypassIsUnion`: `computeFinalState` returns the union of
both states whichever branch it takes. The direction of the diff matters: an empty diff says that
existing adds nothing, and as an update carries its whole delete set, that existing has deleted
nothing either. `StoredStaysStored` (`RowGrows`) follows: only `CommitStore` writes the row.

LiveEdit. First the refinement: given `TypeOK`, which is inductive as it stands, each step of
LiveEdit is a step of DocStore or changes none of its variables (`StepMaps`); hence
`ImplementsStore` (`Spec => DocSpec`) and, with `StoredStaysStored`, `LiveRowGrows`. Then the
answers. `OwnerOnly`: no other node has the document in memory, as server-side writes run where it
is owned. `NodeOK`: the owner never holds less than the row or any store under way, and every struct
is of a transaction that has been; it is what makes an awaited store durable whatever overtakes it
(`AnsweredIsStored`). `StoresOK`: an awaited store belongs to one request, which waits for it.
`MarksOK`: where a request's safety snapshot stands at each statement (`UndoKept`,
`RefusedLeavesNothing`). `WriteOK` and `TokensOK`: a committed write left a struct that no token
read before it contains, so two writes that stand have different tokens (`OneWritePerToken`); that
needs the counter of advanceEditVersion, because an edit that only deletes inserts nothing else.

AutoSnapshot. `LatestIsKept` says what is so when nothing runs; `AutoInv` says who is in charge until
then: the latest content is safe, or a frame of it is being encoded or inserted (`InFlight`), or the
node that stored it has a handler before a lock or a timer that will get one (`InCharge`). A handler
that misses its lock is no longer in charge; what saves the content is when the lock runs out. The
idle lock is never held beyond `now + IdleMs`, so a timer armed after it was taken is due when it is
free again, and a timer armed before, on another node, is followed by the frame of whoever took it
(`FireIdleStep`, `AcquireStep`). `FramesGrow`: frames are numbered in the order of their contents,
so pruning, which keeps the last, keeps the latest (`KeptLatest`). The proof found a fault of an
earlier form of the model: it gave up, at an unload that finds the lock held, only what was stored
when the unload began, but a store that arrives in between is lost with the entry. The run's instance
was too small to show it; with three stores and two ticks TLC finds it too. `SavedVersionsStay`
(`SavedIsKept`) is inductive by itself: what a prune deletes are rows of its own kind.

BoardRepair. A scoped pass looks at what changed and what referred to what was removed. `Sound` says
of one element what a pass over the whole board would find in order: it can be shown, has an index,
and refers to nothing, to an element that may be referred to, or to one that a scoped pass dropped.
A pass makes everything in its scope sound (`ScopeIsSound`) and takes nobody's target away
(`TargetsStay`); outside the scope an element's target has not changed, or has only become another
target (`ScopedPassSound`). Hence `ScopedRepairIsEnough` (`RepairedAtRest`). `ImagesStay`
(`ImagesKept`): without evidence a pass drops only what cannot be shown.

SheetEdit. `SheetWritesAreRight`: the pre-flight measures, the commit checks the token, and in between
browsers may delete without moving it. What is left of a sheet (`LeftOf`) is still left of it after the
batch (`PatchedLess`) and can be read if the whole could (`ReadableLess`), which `PatchInv` carries to
the commit. Protection is a fact about one set of rules: what touches a rectangle crosses it
(`TouchCrosses`), what crosses one that holds cells touches it in some cell (`CrossTouches`), and a
rule without readable limits locks its sheet or the document (`BoundlessLocks`); so the guard blocks
whom some covering rule does not grant (`CoverBlocks`) and nobody else (`BlockCovers`). The proof
attempt made the statement precise: a batch may name an inverted merge to take it apart, which nobody
can have made and which the guard may refuse beyond need, so only the second direction asks for
upright merges; the run has such a batch now. `SheetPagesAreComplete`: cells are strictly ordered
(`CellsInOrder`), so a page is an initial part of what is ahead, some if there is any, and within the
budget unless it is one cell (`PageIs`). `WalkInv`: while the token stands, everything not yet shown
comes after everything that was. The order is on the key too; by places alone two keys of one cell
would be equal, which the model's mutant shows.

**DocumentsProofs** has one invariant for each of the six machines of the run, and `PartsBehave`: a
behaviour of the run's specification is one of each machine.
*Registrations*: a row keeps its owner, slug and space while it exists, so what the unique key or the
owner check said is still so at the answer (`CallOK`, `OneRowPerSlug`).
*Comments*: a reply under way holds the lock of its root (`RootHeld`), a change names a row that was
committed (`RowNamed`), and as ids are given once neither becomes another row; the pager is owed
nothing behind its cursor that it has not seen (`PagerInv`).
*Lists*: a row of the view history is the last view of its document, so the rows ahead of it are the
views that came later and pruning by count never takes one that should be remembered.
*Cards*: the ledger has rows only when all cards are out; a card that was edited gets no buttons any
more; without a fault whatever was listed is edited and marked (`NoFaultOK`).
*Membership*: `lastHeld` is when each answer was last true; what is read, cached or told held no
longer ago than the fetch and the lifetime together. A fetch with somebody else's token says nothing of this user, and
nothing of it is kept.
*Migrations*: whoever checks, executes or records holds the lock, so what it found in the ledger is
still so; a file that is recorded has run to its last statement.
The proof attempt also showed that a part of `CardsTellTheOutcome` asked for a state that the machine
does not reach; it now speaks of cards at rest (`CardsAtRest`) once the sync is over (`SyncOver`).

**PptCreateProofs.** `RequestOK` says what a request knows of its key's row at each statement (none
while it holds the key's lock, one when it is told of a duplicate), `OneWriter` that for a key only
one transaction is past its insert, also after a victim's rollback has given shared locks to
several, and `DecksOK` that rows and decks tell the same story and ids are handed out in order.
`AlwaysFinished` is `RequestOK`; `TakesEffectOnce` (`ImplementsOnce`) maps every step to a step of
PptOnce or a stutter: `Commit` to the effect, `Reply` to an answer about it.

**JobsProofs.** The invariant follows an attachment from its request to the document. `PrivateOK`:
until the edit is live only its request knows of it, so a clean-up takes nothing from anybody.
`BooksOK` and `CleanOK`: what a request has stored is on the list of what a failure deletes, at
every statement between the upload and the answer (`FailedLeavesNothing`). `ContentOK` and
`KnownOK`: what is about to be written, and what anybody knows of, is stored or was given up
(`ReferencedIsStored`). `SlotOK`: a queue's counter is the number of requests under it, its line
holds each waiting request once, and a slot is handed on without passing through free
(`SlotsExact`).

Only model-checked:

* All liveness (`CachesConverge`, `BystanderGetsIn`, `ClickAnswered`, `PendingIsStored`,
  `EveryCallSettles`, `EveryJobAnswered`): fairness and ENABLED are out of the prover's reach.
* `ConversionsExact`: the conversions recurse over trees with RECURSIVE operators, and what a
  recursive definition computes for every input is an induction over data, which the provers cannot
  instantiate. `SourceExact`, one of its parts, is recursion-free; the run has all its inputs.
* Of `EditsExact` what is not about sheets: BodyEdit and AnchorResolve compute by folds and a
  recursive scan over sequences, with the same induction behind them; `PinFits` is a case analysis
  that the run covers.

## Where the code and its documentation part

Some of the models define the formula that the documentation suggests and the code does not
keep. These are not checked by a run; their counterexamples are told here.

* **A removed member keeps writing** (`CurrentConnectionMayWrite` in CollabAccess).
  `beforeHandleMessage` adopts the watermark on the answer of a recheck that was cached, or begun,
  before the change (`collab/server.ts:350`; contract:767,774). The connection then counts as
  current and is not rechecked until the next bump.
* **A link loses a seat** (`ExhaustedIsFull` in InviteAccept). `SET used_count = used_count + 1,
  status = CASE WHEN ... used_count + 1 >= max_uses` is evaluated left to right: n seats are
  exhausted after n - 1 (`docInviteRepo.ts:85` against its comment at 79-80).
* **Approved and never granted** (`AppliedMeansGranted` in AccessRequest). The execution that won
  the CAS dies before the grant; the redelivered click reports "applied" and grants nothing
  (`cardActionDecide.ts:247` against 253-254).
* **The undo record of a visible edit is deleted** (`UndoKeptAlways` in LiveEdit). editDocBody
  deletes the safety snapshot on any error, a failed store after the broadcast included; its
  siblings keep it.
* **Drift is not always refused** (`DriftIsRefused`). `liveDocWrite.ts:14-18` says that a drift
  between the bot's read and the commit throws. A connected client that only deletes does not move
  the state vector.
* A board's restore does not advance the token (`RestoreMovesToken`; `liveRestore.ts:125-138`).
* A restore's undo baseline is read before the lock: edits between that read and the restore are
  in neither (`RestoreUndoable`; `restoreVersion.ts:112`).

Access and persistence:

* The watermark can stay behind for good: the subscriber's `currentEpoch` may join a database read
  begun before the bump (`permission/epoch.ts:60`, `util/singleflight.ts:9`).
* A reader is refused for being stale although nothing about it changed (`collab/server.ts:343`;
  contract:768 keeps everybody whose role has not dropped).
* A process that dies between a member's row and the bump leaves the change unsignalled
  (`api/routes/members.ts:90-97` against the comment at `permission/epoch.ts:12-13`).
* Accepting two links at once can lower a role: the role is read without a lock and the row
  overwritten (`acceptInvite.ts:104`, `docMemberRepo.ts:137`; contract:835).
* A refused edit (412) still stamps `updated_by`, as its connection disconnects as the editor; a
  store that fails there replaces the guard's error, so sheet and board keep an orphan snapshot.
* `autoSnapshot.ts:19-21` promises the last burst. `LatestIsKept` lists the five ways in which it
  is given up, among them an unload that finds the idle lock held.
* An import that fails after its edit went live cleans up attachments that the document shows.
* A copy request whose later lookup fails answers 500 and leaves the copies it has made
  (`api/routes/attachments.ts:498-509`); a copy whose read-back fails stays unannounced.
* The list of one's own documents (owner = me) shows role 3 for documents of one's bots, which the
  guard of a read may refuse.
* A decision that overtakes the writing of the card ledger, or that is about a superseded request,
  leaves cards with buttons; an update that times out may give a second card.

Boards and bodies:

* An element that a scoped repair itself drops leaves the references to it until the next load
  (`whiteboard/repair.ts:417-420`; `dropped` in BoardRepair).
* Two inserts whose different anchors mean the same gap land in the reverse order of the batch; a
  delete before an insert at the same place leaves the filler paragraph of an empty document.

Markdown (`import/markdown/markdown.ts:3-6` calls the importer the strict inverse of the export;
what follows is outside `Faithful`):

* Text: strike-through together with bold or italic, or emphasis with punctuation at its edge,
  next to a word comes back as literal markers; inline math that is spaced or followed by a digit
  becomes text; paragraphs of blanks, and of one block marker, vanish or become what the marker
  says; a heading with a hard break splits, and loses a trailing " #".
* Links and nodes: relative links become `https://safe.local/...`, absolute ones are normalised;
  mentions and bookmarks become text and links; images that are not on the network a placeholder;
  an indent comes back as literal text; an empty paragraph loses its alignment.
* Lists: neighbours merge, also a bullet list and a task list; the paragraphs of an item merge; an
  aligned or empty first paragraph swallows a nested list; a nested ordered list that does not
  start at 1 does not interrupt a paragraph; a rule after the text of an item makes a heading,
  which the schema refuses.
* Tables: the first row becomes a header; marks in tables written as HTML come back as literal
  Markdown, a task list as a bullet list, a list without its start.
* Formulas between double dollars, which the exporter never writes inside a line: in a heading, or
  at the start of a list item, one makes a document that the schema refuses, as an image does there
  (`markdown.ts:227-231`, `727-730`); a paragraph that begins and ends with one becomes a single
  formula, the words between included (`detectBlockMath`); one on a line of its own under an item's
  text runs on as text.
* Containers: a callout or details in a quote gains a quote; a file attachment replaces the callout
  or details it is in; in a document that starts with a rule, everything up to a second rule is
  taken for front matter and lost.

Word (outside `Carried`):

* A row that rows above cover is dropped on import while their spans still count it. Header cells
  beside the first row become plain, and a first row with one header cell becomes a header row.
* Adjacent bullet or task lists and adjacent callouts of one variant merge. What is not a paragraph
  leaves a callout. Blocks after the first paragraph of an item leave the list, and an ordered list
  restarts after them. Images in items and callouts are dropped; below level 4 lists are flat.
* A paragraph of formulas only becomes a block formula and loses all but the first. A paragraph or
  heading of line glyphs becomes a rule with whatever link or picture stands beside them; the
  comment of `isHorizontalRule` says that pictures are safe.
* Items of a list in a cell keep their first paragraph; formulas and files in cells are lost; a
  cell that ends in a table gains a paragraph; tables below `MAX_BLOCK_DEPTH` are dropped.
* Alignment is lost in quotes, items, cells and callouts; indent and the language of code everywhere.
  A code mark becomes a font.
* An end of details right after the start of a quote makes an empty quote, which the schema refuses
  (`import/docx/document.ts:378-384` says that malformed markers degrade gracefully).
* `fitColumnWidths` rounds and may exceed the width by a few twips (read, not modelled).

## Not modelled

* Conversions: Typst, XLSX and Excalidraw files, formulas between LaTeX and OMML, colours, sizes
  and fonts, ZIP and XML. They compute a value from a value without order or concurrency; typst
  and xlsx are next if the project goes on.
* Inserting into a paragraph by path (ProseMirror's fitter decides), document deletion during an
  edit or restore (404), renaming and deleting versions during one.
* The compensating delete of a safety snapshot is assumed to work; the code swallows its failure.
* Two nodes' concurrent repairs of one board under their reserved client ids, scene export.
* Pruning of versions by age; keyset paging of recent views; the search index.
* The content of PPT templates and bootstrap pages; signing of URLs and the local blob store.
* Awareness, JWT encoding, signatures, request parsing, rate limits, CORS, configuration.

## Plan

1. **RoleChanges**: EpochCache and CollabAccess composed by INSTANCE, so that the caches and the
   sockets are checked together on one node.
2. XLSX and Excalidraw in the manner of DocxImport; two nodes' board repairs.
3. `BatchExact` and `PinnedExactly` for documents of any size, by an induction done outside TLAPS.
