------------------------------ MODULE SheetEdit ------------------------------
(***************************************************************************)
(* The sheet routes (src/api/routes/docSheet.ts, services/editDocSheet.ts, *)
(* services/sheetPagination.ts, collab/liveSheetWrite.ts and the sheet     *)
(* half of collab/versionRestore.ts): one batch of a bot, from its first   *)
(* read to the live commit, browsers that write the same six maps and the  *)
(* protection beside them with nothing between, a walk through the pages   *)
(* of the sheet, and a restore. The transaction between pre-flight and     *)
(* commit, its roles and its snapshot are in LiveEdit.                     *)
(*                                                                         *)
(* A sheet is a function from keys (see SheetProtection) to values:        *)
(* "good", "bad" (breaks the contract of its map), or, in a batch, "gone"  *)
(* (null) and "odd" (not even the shape the route asks for). Every entry   *)
(* counts as one byte of the payload.                                      *)
(***************************************************************************)
EXTENDS SheetProtection

CONSTANTS
    Reserved,       \* an identifier of Object.prototype, as a sheet's
    Batches,        \* the batches a caller may send
    BrowserKeys,    \* the keys browsers set and delete
    RuleSets,       \* the protection an admin's browser may leave
    Grants,         \* grants[p]: who may edit what permission p protects
    Senders,        \* [uid, admin] of the batch
    Sheets,         \* the sheets to begin with
    MaxCells,       \* config.sheetWrite.maxCells
    ReadCap,        \* config.sheetRead.maxCellBytes
    DocCap,         \* config.maxDocBytes
    PageLimit,      \* the caller's limit
    MaxBrowserWrites,
    MaxPlace,       \* the last row and column that keys name
    SheetOrder      \* in which order sheets are paged

Coordinates == 0..MaxPlace
Rectangles == {r \in Int \X Int \X Int \X Int : \A i \in 1..4 : r[i] <= MaxPlace}

\* The keys that the patterns of the six maps let through (CELL_KEY and its siblings).
AddressOk(key) ==
    /\ key = [on |-> key.on, sheet |-> key.sheet, at |-> key.at]
    /\ key.sheet \in DOMAIN SheetOrder
    /\ \/ key.on = "cells" /\ key.at \in Coordinates \X Coordinates \X Nat
       \/ key.on = "dims" /\ key.at \in {"r", "c"} \X Coordinates
       \/ key.on = "merges" /\ key.at \in Coordinates \X Coordinates \X Coordinates \X Coordinates
       \/ key.on \in {"tabs", "links", "drawings"}

\* Maps are finite, sheets have an order, and a rule's ranges are rectangles or what cannot
\* be read.
ASSUME SheetAssumption ==
    /\ MaxCells \in Nat \ {0} /\ ReadCap \in Nat /\ DocCap \in Nat /\ PageLimit \in Nat \ {0}
    /\ MaxPlace \in Nat
    /\ NoOne \notin DOMAIN Grants
    /\ NoSheet # DefaultSheet /\ Reserved \notin {NoSheet, DefaultSheet}
    /\ \A maps \in Sheets \cup Batches : IsFiniteSet(DOMAIN maps)
    /\ \A maps \in Sheets \cup Batches : \A key \in DOMAIN maps : AddressOk(key)
    /\ \A key \in BrowserKeys : AddressOk(key)
    /\ \A s \in DOMAIN SheetOrder : SheetOrder[s] \in Nat
    /\ \A s, t \in DOMAIN SheetOrder : SheetOrder[s] = SheetOrder[t] => s = t
    /\ \A set \in RuleSets : \A rule \in set :
          rule.object \in BOOLEAN /\ rule.ranges \subseteq Rectangles \cup {Junk}
    /\ Junk \notin Rectangles

VARIABLES
    sheet,      \* the six maps of the live document
    rules,      \* its protection
    vector,     \* its state vector: how much was ever inserted
    savedSheet, \* a version of the sheet (at first the empty one)
    patch,      \* the batch: where it is, and what it read
    walk,       \* a reader of pages
    browsers    \* how often browsers wrote

sheetVars == <<sheet, rules, vector, savedSheet, patch, walk, browsers>>

NoBatch == [k \in {} |-> "good"]
IdlePatch == [pc |-> "idle", batch |-> NoBatch, by |-> NoOne, admin |-> FALSE, base |-> 0,
              before |-> NoBatch, rules |-> {}, status |-> 0]
NoWalk == [pc |-> "idle", base |-> 0, seen |-> {}, again |-> FALSE, begun |-> {}, left |-> {},
           status |-> 0, largest |-> 0]

SheetInit ==
    /\ sheet \in Sheets /\ rules \in RuleSets
    /\ vector = Cardinality(DOMAIN sheet)
    /\ savedSheet = NoBatch
    /\ patch = IdlePatch /\ walk = NoWalk /\ browsers = 0

-----------------------------------------------------------------------------
(* The contract of the six maps (validateSheetCell and its siblings), and  *)
(* of the batches: a deletion is checked by its key alone.                 *)

WellFormed(value) == value \in {"good", "gone"}

CellOk(key, value) == key.sheet # NoSheet /\ WellFormed(value)
DimOk(key, value) == WellFormed(value)
DrawingOk(key, value) == key.sheet # NoSheet /\ WellFormed(value)
LinkOk(key, value) == key.sheet # NoSheet /\ WellFormed(value)
TabOk(key, value) == key.sheet \notin {NoSheet, Reserved} /\ WellFormed(value)

\* Mutant of MergeOk: inverted merges are let in.
MergeOkAnyOrder(key, value) == key.sheet # NoSheet /\ WellFormed(value)

MergeOk(key, value) ==
    /\ key.sheet # NoSheet
    /\ WellFormed(value)
    /\ value = "good" => key.at[1] <= key.at[3] /\ key.at[2] <= key.at[4]

EntryOk(key, value) ==
    CASE key.on = "cells" -> CellOk(key, value)
      [] key.on = "dims" -> DimOk(key, value)
      [] key.on = "drawings" -> DrawingOk(key, value)
      [] key.on = "links" -> LinkOk(key, value)
      [] key.on = "merges" -> MergeOk(key, value)
      [] key.on = "tabs" -> TabOk(key, value)

BatchOk(batch) == \A key \in DOMAIN batch : EntryOk(key, batch[key])

\* apply*ToYMap: deletions first, then what is set. Keys of a batch are distinct.
Patched(maps, batch) ==
    LET set == {k \in DOMAIN batch : batch[k] # "gone"}
    IN  [k \in (DOMAIN maps \ DOMAIN batch) \cup set |-> IF k \in set THEN batch[k] ELSE maps[k]]

Insertions(batch) == Cardinality({k \in DOMAIN batch : batch[k] # "gone"})

Surface(maps, on) == {k \in DOMAIN maps : k.on = on}

\* The whole read decodes every map but the drawings.
Decodable(maps) == \A k \in DOMAIN maps : k.on # "drawings" => EntryOk(k, maps[k])

\* Mutant of PayloadBytes: only the cells are counted.
PayloadBytesCells(maps) == Cardinality(Surface(maps, "cells"))

PayloadBytes(maps) == Cardinality(DOMAIN maps \ Surface(maps, "drawings"))

-----------------------------------------------------------------------------
(* patchDocSheetHandler and editDocSheet before its transaction.           *)

ShapeOk(batch) == DOMAIN batch # {} /\ \A k \in DOMAIN batch : batch[k] # "odd"

BoundsOk(batch) ==
    \A on \in {"cells", "dims", "drawings", "links", "merges", "tabs"} :
        Cardinality(Surface(batch, on)) <= MaxCells

\* measureSheetAfterEdit: the encoded document keeps every insertion it ever had.
PatchPreflight(batch, base) ==
    LET after == Patched(sheet, batch)
    IN  CASE ~ShapeOk(batch) -> 400
          [] ShapeOk(batch) /\ ~BoundsOk(batch) -> 413
          [] ShapeOk(batch) /\ BoundsOk(batch) ->
                IF base # vector THEN 412
                ELSE IF ~BatchOk(batch) THEN 422
                ELSE IF ~Decodable(after) THEN 500
                ELSE IF PayloadBytes(after) > ReadCap THEN 413
                ELSE IF vector + Insertions(batch) > DocCap THEN 413
                ELSE 0

StartPatch ==
    /\ patch.pc = "idle"
    /\ \E batch \in Batches, caller \in Senders, base \in {vector, vector - 1} :
        LET status == PatchPreflight(batch, base)
        IN  patch' = [IdlePatch EXCEPT !.pc = IF status = 0 THEN "commit" ELSE "done",
                                       !.batch = batch, !.by = caller.uid, !.admin = caller.admin,
                                       !.base = base, !.before = sheet, !.rules = rules,
                                       !.status = status]
    /\ UNCHANGED <<sheet, rules, vector, savedSheet, walk, browsers>>

\* commitLiveSheetEdit: the token, the protection of the live document, the contract, and
\* only then the six maps and the edit-version counter.
CommitPatch ==
    /\ patch.pc = "commit"
    /\ LET status == IF patch.base # vector THEN 412
                     ELSE IF ~WriteAllowed(rules, Grants, patch.by, patch.admin, DOMAIN patch.batch)
                          THEN 403
                     ELSE IF ~BatchOk(patch.batch) THEN 422
                     ELSE 200
       IN  /\ patch' = [patch EXCEPT !.pc = "done", !.status = status, !.before = sheet, !.rules = rules]
           /\ IF status = 200
              THEN /\ sheet' = Patched(sheet, patch.batch)
                   /\ vector' = vector + Insertions(patch.batch) + 1
              ELSE UNCHANGED <<sheet, vector>>
    /\ UNCHANGED <<rules, savedSheet, walk, browsers>>

-----------------------------------------------------------------------------
(* Browsers write through the collaboration server, which looks at none of *)
(* it. A deletion leaves the state vector alone.                           *)

BrowserSets ==
    /\ browsers < MaxBrowserWrites
    /\ browsers' = browsers + 1
    /\ vector < DocCap /\ vector' = vector + 1
    /\ \/ /\ \E k \in BrowserKeys, v \in {"good", "bad"} : sheet' = Patched(sheet, [x \in {k} |-> v])
          /\ UNCHANGED rules
       \/ /\ \E r \in RuleSets : rules \subseteq r /\ rules' = r
          /\ UNCHANGED sheet
    /\ UNCHANGED <<savedSheet, patch, walk>>

BrowserDeletes ==
    /\ browsers < MaxBrowserWrites
    /\ browsers' = browsers + 1
    /\ \/ /\ \E k \in BrowserKeys \cap DOMAIN sheet : sheet' = Patched(sheet, [x \in {k} |-> "gone"])
          /\ UNCHANGED rules
       \/ /\ \E r \in RuleSets : r \subseteq rules /\ rules' = r
          /\ UNCHANGED sheet
    /\ UNCHANGED <<vector, savedSheet, patch, walk>>

-----------------------------------------------------------------------------
(* A version is saved and restored: reconcileSheetMap checks the whole     *)
(* target and then makes the six maps equal to it, setting anew whatever   *)
(* they share; an empty target only deletes. Protection stays.             *)

SaveVersion ==
    /\ savedSheet' = sheet
    /\ UNCHANGED <<sheet, rules, vector, patch, walk, browsers>>

RestoreSheet ==
    /\ vector + Cardinality(DOMAIN savedSheet) <= DocCap
    /\ IF \A k \in DOMAIN savedSheet : EntryOk(k, savedSheet[k])
       THEN /\ sheet' = savedSheet
            /\ vector' = vector + Cardinality(DOMAIN savedSheet)
       ELSE UNCHANGED <<sheet, vector>>
    /\ UNCHANGED <<rules, savedSheet, patch, walk, browsers>>

-----------------------------------------------------------------------------
(* respondPaginatedSheet. Pages follow compareCellKeys: sheet, row and     *)
(* column, and the spelling of the key where those are equal.              *)

Place(key) == <<SheetOrder[key.sheet], key.at[1], key.at[2], key.at[3]>>

Precedes(p, q) ==
    \E i \in 1..4 : p[i] < q[i] /\ \A j \in 1..(i - 1) : p[j] = q[j]

\* Mutant of Skipped: keys that denote one cell are taken for equal.
SkippedByNumber(key, after) == \A i \in 1..3 : Place(key)[i] = Place(after)[i]

\* compareCellKeys(key, after) = 0.
Skipped(key, after) == key = after

FirstBudget(maps) ==
    Larger(0, ReadCap - Cardinality(DOMAIN maps \ (Surface(maps, "cells") \cup Surface(maps, "drawings"))))

\* At most PageLimit cells and at most the budget, but always one.
PageOf(ahead, budget) ==
    {k \in ahead : LET first == Cardinality({x \in ahead : Precedes(Place(x), Place(k))})
                   IN  first < PageLimit /\ (first = 0 \/ first + 1 <= budget)}

Answer(status) == walk' = [walk EXCEPT !.pc = "done", !.status = status]

\* A page from a fresh read: 409 for what cannot be decoded, and for a cursor of another state.
ReadPageOf ==
    /\ walk.pc \in {"idle", "walking"}
    /\ LET first == walk.pc = "idle"
           cells == Surface(sheet, "cells")
           after == CHOOSE k \in walk.seen : \A x \in walk.seen : x = k \/ Precedes(Place(x), Place(k))
           ahead == IF first THEN cells
                    ELSE {k \in cells : Precedes(Place(after), Place(k)) /\ ~Skipped(k, after)}
           page == PageOf(ahead, IF first THEN FirstBudget(sheet) ELSE ReadCap)
           bytes == Cardinality(page) + IF first THEN ReadCap - FirstBudget(sheet) ELSE 0
       IN  IF ~Decodable(sheet) THEN Answer(409)
           ELSE IF ~first /\ walk.base # vector THEN Answer(409)
           ELSE walk' = [pc |-> IF page = ahead THEN "done" ELSE "walking",
                         base |-> vector,
                         seen |-> walk.seen \cup page,
                         again |-> walk.again \/ page \cap walk.seen # {},
                         begun |-> IF first THEN cells ELSE walk.begun,
                         left |-> cells,
                         status |-> IF page = ahead THEN 200 ELSE 0,
                         largest |-> IF Cardinality(page) = 1 THEN walk.largest ELSE Larger(walk.largest, bytes)]
    /\ UNCHANGED <<sheet, rules, vector, savedSheet, patch, browsers>>

SheetWrites == StartPatch \/ CommitPatch \/ BrowserSets \/ BrowserDeletes
SheetReads == BrowserSets \/ BrowserDeletes \/ SaveVersion \/ RestoreSheet \/ ReadPageOf

SheetSpec == SheetInit /\ [][SheetWrites \/ SheetReads]_sheetVars

-----------------------------------------------------------------------------
(* What a write touches, and what a rule may mean, said without rectangles *)
(* to intersect: by the cells of the grid.                                 *)

Grid == Coordinates \X Coordinates

Touched(key) ==
    CASE key.on = "cells" -> {<<key.at[1], key.at[2]>>}
      [] key.on = "dims" -> {c \in Grid : c[IF key.at[1] = "c" THEN 2 ELSE 1] = key.at[2]}
      [] key.on = "merges" -> {c \in Grid : c[1] \in key.at[1]..key.at[3] /\ c[2] \in key.at[2]..key.at[4]}
      [] key.on = "tabs" -> Grid

Between(x, a, b) == (a <= x /\ x <= b) \/ (b <= x /\ x <= a)
In(c, r) == Between(c[1], r[1], r[3]) /\ Between(c[2], r[2], r[4])

\* A rule without limits one can read.
Boundless(rule) ==
    \/ ~rule.object \/ rule.permission = NoOne \/ rule.kind = "worksheet"
    \/ rule.sheet = NoSheet \/ rule.ranges = {} \/ Junk \in rule.ranges
    \/ \E r \in rule.ranges \ {Junk} : (r[1] < 0 /\ r[3] < 0) \/ (r[2] < 0 /\ r[4] < 0)

MayCover(rule, key) ==
    /\ key.on \notin {"links", "drawings"}
    /\ rule.sheet \in {NoSheet, SheetOf(key)}
    /\ Boundless(rule) \/ \E c \in Touched(key), r \in rule.ranges : In(c, r)

GrantedBy(rule, uid) ==
    rule.object /\ rule.permission \in DOMAIN Grants /\ uid \in Grants[rule.permission]

\* An inverted merge, which nobody could make, may still be named to be taken apart.
Upright(key) == key.on = "merges" => key.at[1] <= key.at[3] /\ key.at[2] <= key.at[4]

(* A batch of one who is no administrator is carried out only when every   *)
(* rule that may cover a cell it touches grants the caller, and refused    *)
(* only when one does not: a rule that cannot be read covers all it may    *)
(* have meant, whatever became of it since the pre-flight                  *)
(* (sheetConversion.ts:251-579).                                           *)
WritesExact ==
    ~patch.admin =>
        LET granted == \A key \in DOMAIN patch.batch, rule \in patch.rules :
                           MayCover(rule, key) => GrantedBy(rule, patch.by)
        IN  /\ patch.status = 200 => granted
            /\ patch.status = 403 /\ (\A key \in DOMAIN patch.batch : Upright(key)) => ~granted

(* What a batch leaves can be read again: no answer of 200 for a sheet     *)
(* that the next whole read refuses as invalid or too large                *)
(* (editDocSheet.ts:160-197).                                              *)
WrittenIsReadable ==
    patch.status = 200 =>
        LET after == Patched(patch.before, patch.batch)
        IN  Decodable(after) /\ Cardinality({k \in DOMAIN after : k.on # "drawings"}) <= ReadCap

(* A walk that is answered to its end gives every cell that is still there *)
(* and none that was not there at its start, each once, in pages within    *)
(* the cap, browsers writing in between (sheetPagination.ts:20-94).        *)
WalkExact ==
    /\ walk.status = 200 => walk.left \subseteq walk.seen /\ walk.seen \subseteq walk.begun
    /\ ~walk.again
    /\ walk.largest <= ReadCap
=============================================================================
