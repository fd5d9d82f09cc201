----------------------------- MODULE BoardRepair -----------------------------
(***************************************************************************)
(* A whiteboard on the node that holds it, and the repair that runs on it  *)
(* (src/whiteboard/repair.ts, schema/normalize.ts, boardEdit.ts): an       *)
(* observer after every transaction of a client, a bot or a restore, which *)
(* looks only at the elements that changed and at what referred to them,   *)
(* and a whole-board pass when a node loads the persisted board.           *)
(*                                                                         *)
(* An image and its file arrive in two transactions, in either order, and  *)
(* the board may be stored and loaded in between. One reference stands for *)
(* containerId, frameId and an entry of boundElements; an index is its     *)
(* rank among the fractional keys.                                         *)
(***************************************************************************)
EXTENDS Integers, FiniteSets, FiniteSetsExt

CONSTANTS
    Ids,        \* element ids, in their sort order
    Files,      \* file ids
    Inserted,   \* the elements clients and bots insert
    Stored,     \* the boards a database may hold before the first repair
    MaxIndex,   \* bound on the indices of elements
    Nothing     \* no element, reference, file or valid index

VARIABLES
    els,        \* els[id]: the element under that key of the live document, or Absent
    files,      \* keys of its files map
    saved,      \* the persisted board
    dropped,    \* elements a scoped pass dropped, and nobody put back
    named       \* the elements that the last step names

boardVars == <<els, files, saved, dropped, named>>

Absent == [type |-> "absent", deleted |-> FALSE, ref |-> Nothing, file |-> Nothing, index |-> Nothing]
Elements == [type : {"shape", "image", "unknown"}, deleted : BOOLEAN, ref : Ids \cup {Nothing},
             file : Files \cup {Nothing}, index : Nat \cup {Nothing}]
Boards == [els : [Ids -> Elements \cup {Absent}], files : SUBSET Files]

ASSUME BoardAssumption ==
    /\ Ids \subseteq Nat /\ IsFiniteSet(Ids)
    /\ Inserted \subseteq Elements /\ Stored \subseteq Boards
    /\ MaxIndex \in Nat
    /\ Nothing \notin Ids \cup Files \cup Nat

\* FilePolicy: the files the transaction deleted; a cold start and a live pass over elements
\* have none.
NoEvidence == {}

-----------------------------------------------------------------------------
(* planRepair and applyPlan. A board is a record of els and files.         *)

\* normalizeElement without a context: whether the element can be shown at all.
Renderable(e) == e.type \in {"shape", "image"}

\* Mutant of DropsImage: an image whose file is not there is dangling.
DropsImageAbsent(b, e, evidence) ==
    e.type = "image" /\ e.file \notin b.files

\* dropAbsentImage: only a file deleted in the transaction is evidence, never an absent one.
DropsImage(b, e, evidence) ==
    /\ e.type = "image" /\ e.file # Nothing /\ e.file \notin b.files
    /\ e.file \in evidence

Survivors(b, evidence) ==
    {id \in Ids : Renderable(b.els[id]) /\ ~DropsImage(b, b.els[id], evidence)}
Referenceable(b, evidence) == {id \in Survivors(b, evidence) : ~b.els[id].deleted}

\* Indexless survivors, by id, get the keys after the largest valid index.
Filled(b, evidence, id) ==
    LET all == Survivors(b, evidence)
        used == {b.els[x].index : x \in all} \ {Nothing}
        top == IF used = {} THEN -1 ELSE Max(used)
    IN  IF b.els[id].index # Nothing THEN b.els[id].index
        ELSE top + 1 + Cardinality({x \in all : b.els[x].index = Nothing /\ x < id})

Canonical(b, evidence, id) ==
    LET e == b.els[id]
    IN  [e EXCEPT !.index = Filled(b, evidence, id),
                  !.ref = IF @ \in Referenceable(b, evidence) THEN @ ELSE Nothing]

\* repairLiveDoc: write the survivors of the scope that differ, drop the rest of it.
Repaired(b, scope, evidence) ==
    LET alive == Survivors(b, evidence)
    IN  [b EXCEPT !.els = [id \in Ids |->
            IF id \notin scope THEN b.els[id]
            ELSE IF id \in alive THEN Canonical(b, evidence, id)
            ELSE Absent]]

\* repairWhiteboardState, for a load and for the migration of stored boards.
ColdRepaired(b) == Repaired(b, Ids, NoEvidence)

-----------------------------------------------------------------------------
(* The observers of a transaction that turned board b into c.              *)

\* isRemovedTarget, and referrersOf.
Removed(c, changed) == {id \in changed : c.els[id] = Absent \/ c.els[id].deleted}
Referrers(c, removed) == {id \in Ids : c.els[id].ref \in removed}

\* Mutant of Scope: only what changed.
ScopeChanged(c, changed) == changed

Scope(c, changed) == changed \cup Referrers(c, Removed(c, changed))

OnElements(c, changed) ==
    IF changed = {} THEN c ELSE Repaired(c, Scope(c, changed), NoEvidence)
OnFiles(c, deletedFiles) ==
    IF deletedFiles = {} THEN c ELSE Repaired(c, Ids, deletedFiles)

Live == [els |-> els, files |-> files]

\* A transaction that leaves the live document as c, and its repair.
Transaction(c) ==
    LET changed == {id \in Ids : c.els[id] # els[id]}
        after == OnElements(c, changed)
        end == OnFiles(after, files \ c.files)
    IN  /\ els' = end.els
        /\ files' = end.files
        /\ dropped' = (dropped \ changed) \cup
               {id \in changed : c.els[id] # Absent /\ after.els[id] = Absent}
        /\ named' = changed

BoardInit ==
    /\ saved \in Stored
    /\ LET b == ColdRepaired(saved) IN els = b.els /\ files = b.files
    /\ dropped = {}
    /\ named = {}

Indices(b) == {b.els[id].index : id \in Ids} \ {Nothing}
Bounded(b) == \A i \in Indices(b) : i < MaxIndex

-----------------------------------------------------------------------------
(* What changes a board.                                                   *)

Put(id, e) == [Live EXCEPT !.els[id] = e]

\* A client inserts or overwrites an element, flips its tombstone, or removes its key.
ClientElement ==
    /\ Bounded(Live)
    /\ \E id \in Ids :
        \/ \E e \in Inserted : e # els[id] /\ Transaction(Put(id, e))
        \/ els[id] # Absent /\ Transaction(Put(id, [els[id] EXCEPT !.deleted = ~@]))
        \/ els[id] # Absent /\ Transaction(Put(id, Absent))
    /\ UNCHANGED saved

\* The other half of an image, or the removal of a file.
ClientFile ==
    /\ \E f \in Files :
        \/ f \notin files /\ Transaction([Live EXCEPT !.files = @ \cup {f}])
        \/ f \in files /\ Transaction([Live EXCEPT !.files = @ \ {f}])
    /\ UNCHANGED saved

\* applyBoardOpsToDoc, of elements that validateBoardOps let through: an upsert that
\* supersedes, a tombstone, and file references.
BotEdits ==
    /\ Bounded(Live)
    /\ \E id \in Ids, f \in Files :
        LET tombstone == IF els[id] = Absent THEN Absent ELSE [els[id] EXCEPT !.deleted = TRUE]
        IN  \E e \in {x \in Inserted : Renderable(x)} \cup {tombstone}, fs \in {files, files \cup {f}, files \ {f}} :
            Transaction([Put(id, e) EXCEPT !.files = fs])
    /\ UNCHANGED saved

\* reconcileBoardMaps: elements and files become those of an older version.
Restore ==
    /\ Transaction(saved)
    /\ UNCHANGED saved

StoreBoard ==
    /\ saved' = Live
    /\ named' = {}
    /\ UNCHANGED <<els, files, dropped>>

\* Another node, or this one again, loads what was stored.
Load ==
    /\ LET b == ColdRepaired(saved) IN els' = b.els /\ files' = b.files
    /\ dropped' = {}
    /\ named' = Ids
    /\ UNCHANGED saved

\* migrateState on the stored board.
Migrate ==
    /\ saved' = ColdRepaired(saved)
    /\ named' = {}
    /\ UNCHANGED <<els, files, dropped>>

BoardNext == ClientElement \/ ClientFile \/ BotEdits \/ Restore \/ StoreBoard \/ Load \/ Migrate

BoardSpec == BoardInit /\ [][BoardNext]_boardVars

-----------------------------------------------------------------------------
(* Looking at the changed elements alone leaves the board as a pass over   *)
(* all of it would (repair.ts:15-21): after every transaction a cold start *)
(* would change nothing. Except one thing: an element that a scoped pass   *)
(* itself drops takes nobody with it, so what referred to it still does.   *)
RepairedAtRest ==
    \A id \in Ids :
        LET e == ColdRepaired(Live).els[id]
        IN  \/ els[id] = e
            \/ els[id].ref \in dropped /\ [els[id] EXCEPT !.ref = Nothing] = e

(* "GC must act only on positive delete evidence, never on absence alone"  *)
(* (repair.ts:66-67): an image leaves the board only in a transaction that *)
(* names it or removes its file, and no load or migration loses one,       *)
(* whichever half had arrived when the board was stored.                   *)
Image(e) == e.type = "image"

ImagesKept ==
    [][\A id \in Ids :
        /\ Image(saved.els[id]) => Image(ColdRepaired(saved).els[id])
        /\ Image(els[id]) => \/ Image(els'[id])
                             \/ id \in named'
                             \/ els[id].file \in files \ files']_boardVars
=============================================================================
