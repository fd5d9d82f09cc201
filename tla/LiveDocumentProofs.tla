------------------------- MODULE LiveDocumentProofs -------------------------
(***************************************************************************)
(* What is guaranteed of a document while it is live, for any nodes, users *)
(* and bounds: of its row and its edits (DocStore, LiveEdit), of its       *)
(* automatic versions (AutoSnapshot), of a whiteboard's elements           *)
(* (BoardRepair), and of a sheet's maps and pages (SheetEdit).             *)
(*                                                                         *)
(* First DocStore alone: merge-on-write. The bypass of computeFinalState   *)
(* never changes the outcome, and the row never loses anything.            *)
(*                                                                         *)
(* Then LiveEdit keeps its types and implements DocStore: every step of a  *)
(* server-side write is a step of the document store or leaves it alone.   *)
(* So what DocStore guarantees of the row holds under edits and restores.  *)
(* TypeOK is inductive as it stands. The step lemma needs it: a restore    *)
(* writes what a version row says, so that must be texts of the document.  *)
(* The answers (tokens, durability, undo records and refusals) need an     *)
(* invariant of their own, IInv below.                                     *)
(*                                                                         *)
(* Automatic versions, boards and sheets come after, each with its         *)
(* invariant (AutoInv, SavedInv, BoardInv, PatchInv and WalkInv).          *)
(***************************************************************************)
EXTENDS LiveEdit, AutoSnapshot, BoardRepair, SheetEdit, FiniteSetTheorems, WellFoundedInduction, TLAPS

\* computeFinalState keeps everything of both sides (persistence.ts).
LEMMA FinalStateAbove ==
    ASSUME NEW e, NEW i
    PROVE  Below(e, FinalState(e, i)) /\ Below(i, FinalState(e, i))
<1>1. CASE DiffUpdate(e, Vector(i)) = Empty
    <2>1. e.ins \ i.ins = {} /\ e.del = {}
        BY <1>1 DEF DiffUpdate, Vector, Empty
    <2> QED BY <1>1, <2>1 DEF FinalState, Below
<1>2. CASE DiffUpdate(e, Vector(i)) # Empty
    BY <1>2 DEF FinalState, Merge, Below
<1> QED BY <1>1, <1>2

\* The diffUpdate bypass of computeFinalState (P1-D) is only an optimisation: for any two
\* states of a document the bytes stored are those of the union.
THEOREM BypassIsUnion ==
    ASSUME NEW S, NEW e \in [ins : SUBSET S, del : SUBSET S], NEW i \in [ins : SUBSET S, del : SUBSET S]
    PROVE  FinalState(e, i) = Merge(e, i)
<1>1. CASE DiffUpdate(e, Vector(i)) = Empty
    <2>1. e.ins \ i.ins = {} /\ e.del = {}
        BY <1>1 DEF DiffUpdate, Vector, Empty
    <2>2. e.ins \cup i.ins = i.ins /\ e.del \cup i.del = i.del
        BY <2>1
    <2>3. i = [ins |-> i.ins, del |-> i.del]
        OBVIOUS
    <2> QED BY <1>1, <2>2, <2>3 DEF FinalState, Merge
<1>2. CASE DiffUpdate(e, Vector(i)) # Empty
    BY <1>2 DEF FinalState
<1> QED BY <1>1, <1>2

\* Every action but CommitStore leaves the row alone.
LEMMA RowStep ==
    ASSUME [DocNext]_docVars
    PROVE  row' = row \/ \E s \in stores : row' = FinalState(row, s.doc)
<1>1. CASE \E s \in stores : CommitStore(s)
    BY <1>1 DEF CommitStore
<1>2. CASE \E s \in stores : FailStore(s)
    BY <1>2 DEF FailStore
<1>3. CASE \E u \in Users : Touch(u)
    BY <1>3 DEF Touch
<1>4. CASE UNCHANGED docVars
    BY <1>4 DEF docVars
<1>5. ASSUME NEW n \in Nodes,
             \/ Fetch(n) \/ Hydrate(n) \/ DebouncedStore(n) \/ ReaderFlush(n)
             \/ Unload(n) \/ Restart(n)
             \/ \E m \in Nodes \ {n} : Sync(n, m)
             \/ \E u \in Users : WriterFlush(n, u)
      PROVE  row' = row
    BY <1>5 DEF Fetch, Hydrate, DebouncedStore, ReaderFlush, Unload, Restart, Sync, WriterFlush
<1>6. ASSUME NEW n \in Nodes, NEW u, NEW texts, NEW gone,
             ClientWrite(n, u, texts, gone) \/ DirectWrite(n, u, texts, gone)
      PROVE  row' = row
    BY <1>6 DEF ClientWrite, DirectWrite
<1> QED BY <1>1, <1>2, <1>3, <1>4, <1>5, <1>6 DEF DocNext

\* Whatever was stored once stays stored (merge-on-write, persistence.ts).
THEOREM StoredStaysStored == DocSpec => RowGrows
<1>1. [DocNext]_docVars => [Below(row, row')]_row
    <2> SUFFICES ASSUME [DocNext]_docVars PROVE [Below(row, row')]_row
        OBVIOUS
    <2>1. row' = row \/ \E s \in stores : row' = FinalState(row, s.doc)
        BY RowStep
    <2> QED BY <2>1, FinalStateAbove
<1> QED BY <1>1, PTL DEF DocSpec, RowGrows

----------------------------------------------------------------------------
(* Types.                                                                  *)

LEMMA MergeType ==
    ASSUME NEW a \in State, NEW b \in State
    PROVE  Merge(a, b) \in State /\ FinalState(a, b) \in State
BY DEF State, Merge, FinalState

LEMMA ChangedType ==
    ASSUME DocTypeOK, clock < MaxTx, NEW doc \in State,
           NEW texts \in SUBSET (Texts \cup {Mark}), NEW gone \in SUBSET Visible(doc)
    PROVE  clock + 1 \in 0..MaxTx /\ Changed(doc, texts, gone) \in State
<1>1. clock + 1 \in 0..MaxTx
    BY BoundAssumption DEF DocTypeOK
<1>2. {Struct(clock + 1, t) : t \in texts} \subseteq Structs
    BY <1>1 DEF Struct, Structs
<1> QED BY <1>1, <1>2 DEF Changed, Visible, State

\* Every variable of DocStore keeps its type (inductive as it stands).
LEMMA DocTypeStep ==
    ASSUME DocTypeOK, [DocNext]_docVars
    PROVE  DocTypeOK'
<1> USE DEF DocTypeOK
<1>1. ASSUME NEW n \in Nodes, Fetch(n) PROVE DocTypeOK'
    BY <1>1 DEF Fetch
<1>2. ASSUME NEW n \in Nodes, Hydrate(n) PROVE DocTypeOK'
    BY <1>2 DEF Hydrate
<1>3. ASSUME NEW n \in Nodes, NEW doc \in State, NEW by \in Users \cup {System},
             NEW for \in Users \cup {None}, Capture(n, doc, by, for)
      PROVE  stores' \subseteq Store /\ pending' \in [Nodes -> Users \cup {None}]
    <2>1. [node |-> n, doc |-> doc, by |-> by, for |-> for] \in Store
        BY DEF Store
    <2> QED BY <1>3, <2>1 DEF Capture
<1>4. ASSUME NEW n \in Nodes, DebouncedStore(n) PROVE DocTypeOK'
    <2>1. live[n] \in State /\ pending[n] \in Users /\ Capture(n, live[n], pending[n], None)
        BY <1>4 DEF DebouncedStore, Loaded
    <2>2. stores' \subseteq Store /\ pending' \in [Nodes -> Users \cup {None}]
        BY <2>1, <1>3
    <2> QED BY <1>4, <2>2 DEF DebouncedStore
<1>5. ASSUME NEW n \in Nodes, ReaderFlush(n) PROVE DocTypeOK'
    <2>1. live[n] \in State /\ Capture(n, live[n], System, None)
        BY <1>5 DEF ReaderFlush, Loaded
    <2>2. stores' \subseteq Store /\ pending' \in [Nodes -> Users \cup {None}]
        BY <2>1, <1>3
    <2> QED BY <1>5, <2>2 DEF ReaderFlush
<1>6. ASSUME NEW n \in Nodes, NEW u \in Users, WriterFlush(n, u) PROVE DocTypeOK'
    <2>1. live[n] \in State /\ Capture(n, live[n], u, u)
        BY <1>6 DEF WriterFlush, Loaded
    <2>2. stores' \subseteq Store /\ pending' \in [Nodes -> Users \cup {None}]
        BY <2>1, <1>3
    <2> QED BY <1>6, <2>2 DEF WriterFlush
<1>7. ASSUME NEW n \in Nodes, NEW texts \in SUBSET (Texts \cup {Mark}), NEW gone \in SUBSET Visible(live[n]),
             Transact(n, texts, gone)
      PROVE  /\ clock' \in 0..MaxTx /\ live' \in [Nodes -> State \cup {None}]
             /\ Changed(live[n], texts, gone) \in State
    <2>1. live[n] \in State /\ clock < MaxTx
        BY <1>7 DEF Transact, Loaded
    <2>2. clock + 1 \in 0..MaxTx /\ Changed(live[n], texts, gone) \in State
        BY <2>1, ChangedType
    <2> QED BY <1>7, <2>2 DEF Transact
<1>8. ASSUME NEW n \in Nodes, NEW u \in Users, NEW texts \in SUBSET (Texts \cup {Mark}),
             NEW gone \in SUBSET Visible(live[n]), ClientWrite(n, u, texts, gone)
      PROVE  DocTypeOK'
    <2>1. clock' \in 0..MaxTx /\ live' \in [Nodes -> State \cup {None}]
        BY <1>7, <1>8 DEF ClientWrite
    <2> QED BY <1>8, <2>1 DEF ClientWrite
<1>9. ASSUME NEW n \in Nodes, NEW u \in Users, NEW texts \in SUBSET (Texts \cup {Mark}),
             NEW gone \in SUBSET Visible(live[n]), DirectWrite(n, u, texts, gone)
      PROVE  DocTypeOK'
    <2>1. /\ clock' \in 0..MaxTx /\ live' \in [Nodes -> State \cup {None}]
          /\ Changed(live[n], texts, gone) \in State
        BY <1>7, <1>9 DEF DirectWrite
    <2>2. stores' \subseteq Store /\ pending' \in [Nodes -> Users \cup {None}]
        BY <2>1, <1>3, <1>9 DEF DirectWrite
    <2> QED BY <1>9, <2>1, <2>2 DEF DirectWrite
<1>10. ASSUME NEW n \in Nodes, NEW m \in Nodes, Sync(n, m) PROVE DocTypeOK'
    <2>1. Merge(live[m], live[n]) \in State
        BY <1>10, MergeType DEF Sync, Loaded
    <2> QED BY <1>10, <2>1 DEF Sync
<1>11. ASSUME NEW n \in Nodes, Unload(n) \/ Restart(n) PROVE DocTypeOK'
    BY <1>11 DEF Unload, Restart
<1>12. ASSUME NEW s \in stores, CommitStore(s) PROVE DocTypeOK'
    <2>1. s.doc \in State /\ s.by \in Users \cup {System}
        BY DEF Store
    <2>2. FinalState(row, s.doc) \in State
        BY <2>1, MergeType
    <2> QED BY <1>12, <2>1, <2>2 DEF CommitStore, Stamp
<1>13. ASSUME NEW s \in stores, FailStore(s) PROVE DocTypeOK'
    BY <1>13 DEF FailStore
<1>14. ASSUME NEW u \in Users, Touch(u) PROVE DocTypeOK'
    BY <1>14 DEF Touch
<1>15. CASE UNCHANGED docVars
    BY <1>15 DEF docVars
<1> QED
    BY <1>1, <1>2, <1>4, <1>5, <1>6, <1>8, <1>9, <1>10, <1>11, <1>12, <1>13, <1>14, <1>15 DEF DocNext

----------------------------------------------------------------------------
(* LiveEdit: the types of what its steps are made of.                      *)

Statuses == {0, 200, 403, 409, 412, 413, 422, 500}

LEMMA EmptyType == Empty \in State /\ Visible(Empty) = {}
BY DEF Empty, State, Visible

LEMMA IdleType == Idle \in Request
BY EmptyType, EpochAssumption DEF Idle, NoState, Request, Pcs

\* A document's content is made of its texts.
LEMMA ContentType ==
    ASSUME NEW doc \in State
    PROVE  Vector(doc) \subseteq Structs /\ Visible(doc) \subseteq Structs /\ Content(doc) \subseteq Texts
<1>1. Vector(doc) \subseteq Structs /\ Visible(doc) \subseteq Structs
    BY DEF State, Vector, Visible
<1>2. \A s \in Visible(doc) : s.text \in Texts \cup {Mark}
    BY <1>1 DEF Structs
<1> QED BY <1>1, <1>2 DEF Content, ContentOf

\* One field of a request record is replaced by a value of its type.
LEMMA FieldTypes ==
    ASSUME NEW r \in Request
    PROVE  /\ \A x \in Pcs : [r EXCEPT !.pc = x] \in Request
           /\ \A x \in {"edit", "restore", "save"} : [r EXCEPT !.op = x] \in Request
           /\ \A x \in SUBSET Structs : [r EXCEPT !.base = x] \in Request
           /\ \A x \in SUBSET Structs : [r EXCEPT !.seen = x] \in Request
           /\ \A x \in State : [r EXCEPT !.pre = x] \in Request
           /\ \A x \in State : [r EXCEPT !.left = x] \in Request
           /\ \A x \in 0..MaxEpoch : [r EXCEPT !.epoch = x] \in Request
           /\ \A x \in SUBSET Texts : [r EXCEPT !.target = x] \in Request
           /\ \A x \in BOOLEAN : [r EXCEPT !.passed = x] \in Request
           /\ \A x \in BOOLEAN : [r EXCEPT !.hit = x] \in Request
           /\ \A x \in Statuses : [r EXCEPT !.status = x] \in Request
<1>1. \A x \in Pcs : [r EXCEPT !.pc = x] \in Request
    BY DEF Request
<1>2. \A x \in {"edit", "restore", "save"} : [r EXCEPT !.op = x] \in Request
    BY DEF Request
<1>3. \A x \in SUBSET Structs : [r EXCEPT !.base = x] \in Request
    BY DEF Request
<1>4. \A x \in SUBSET Structs : [r EXCEPT !.seen = x] \in Request
    BY DEF Request
<1>6. \A x \in State : [r EXCEPT !.pre = x] \in Request
    BY DEF Request
<1>7. \A x \in State : [r EXCEPT !.left = x] \in Request
    BY DEF Request
<1>8. \A x \in 0..MaxEpoch : [r EXCEPT !.epoch = x] \in Request
    BY DEF Request
<1>9. \A x \in SUBSET Texts : [r EXCEPT !.target = x] \in Request
    BY DEF Request
<1>10. \A x \in BOOLEAN : [r EXCEPT !.passed = x] \in Request
    BY DEF Request
<1>11. \A x \in BOOLEAN : [r EXCEPT !.hit = x] \in Request
    BY DEF Request
<1>12. \A x \in Statuses : [r EXCEPT !.status = x] \in Request
    BY DEF Request, Statuses
<1> QED BY <1>1, <1>2, <1>3, <1>4, <1>6, <1>7, <1>8, <1>9, <1>10, <1>11, <1>12

LEMMA EndedType ==
    ASSUME NEW r \in Request, NEW code \in Statuses
    PROVE  Ended(r, code) \in Request
<1> DEFINE a == [Idle EXCEPT !.pc = "done"]
           b == [a EXCEPT !.op = r.op]
           d == [b EXCEPT !.passed = r.passed]
           o == [d EXCEPT !.status = code]
           h == [o EXCEPT !.hit = TRUE]
           i == [h EXCEPT !.base = r.base]
<1>0. /\ r.op \in {"edit", "restore", "save"} /\ r.passed \in BOOLEAN
      /\ r.base \in SUBSET Structs /\ r.left \in State
    BY DEF Request
<1>1. a \in Request
    BY IdleType, FieldTypes DEF Pcs
<1>2. b \in Request
    BY <1>0, <1>1, FieldTypes
<1>3. d \in Request
    BY <1>0, <1>2, FieldTypes
<1>4. o \in Request
    BY <1>3, FieldTypes
<1>5. h \in Request
    BY <1>4, FieldTypes
<1>6. i \in Request
    BY <1>0, <1>5, FieldTypes
<1>7. [i EXCEPT !.left = r.left] \in Request
    BY <1>0, <1>6, FieldTypes
<1>8. Ended(r, code) = IF r.hit THEN [i EXCEPT !.left = r.left] ELSE o
    BY DEF Ended
<1> QED BY <1>4, <1>7, <1>8

LEMMA EndType ==
    ASSUME TypeOK, NEW c \in Callers, NEW code \in Statuses, End(c, code)
    PROVE  req' \in [Callers -> Request]
BY EndedType DEF TypeOK, End

\* What a phase reads of the live document has its type.
LEMMA DocType ==
    ASSUME TypeOK, Loaded(Owner)
    PROVE  Doc \in State /\ Owner \in Nodes
BY OwnerAssumption DEF TypeOK, DocTypeOK, Doc, Loaded

LEMMA RowType ==
    ASSUME TypeOK, NEW c \in Callers, NEW k \in {"named", "marker"}
    PROVE  Row(c, k) \in Version
BY DEF TypeOK, Row, Version, Request

----------------------------------------------------------------------------
(* Steps of LiveEdit as steps of DocStore.                                 *)

LEMMA EditMaps ==
    ASSUME TypeOK, NEW c \in Callers, ApplyEdit(c)
    PROVE  DocNext
<1>1. PICK texts \in {{}} \cup {{t} : t \in Texts}, gone \in {{}} \cup {{s} : s \in Visible(Doc)} :
         DirectWrite(Owner, c, Advance(texts), gone)
    BY DEF ApplyEdit
<1>2. Advance(texts) \in SUBSET (Texts \cup {Mark}) /\ gone \in SUBSET Visible(live[Owner])
    BY DEF Advance, Doc
<1>3. Loaded(Owner) /\ Owner \in Nodes /\ c \in Users
    BY OwnerAssumption, UsersAssumption DEF ApplyEdit
<1> QED BY <1>1, <1>2, <1>3 DEF DocNext

LEMMA RestoreMaps ==
    ASSUME TypeOK, NEW c \in Callers, ApplyRestore(c)
    PROVE  DocNext
<1> DEFINE texts == Reconciled(req[c].target \ Content(Doc))
           gone  == {s \in Visible(Doc) : s.text \notin req[c].target \cup {Mark}}
<1>1. DirectWrite(Owner, c, texts, gone)
    BY DEF ApplyRestore
<1>2. req[c].target \subseteq Texts
    BY DEF TypeOK, Request
<1>3. texts \in SUBSET (Texts \cup {Mark}) /\ gone \in SUBSET Visible(live[Owner])
    BY <1>2 DEF Reconciled, Advance, Doc
<1>4. Loaded(Owner) /\ Owner \in Nodes /\ c \in Users
    BY OwnerAssumption, UsersAssumption DEF ApplyRestore
<1> HIDE DEF texts, gone
<1> QED BY <1>1, <1>3, <1>4 DEF DocNext

LEMMA ClientMaps ==
    ASSUME TypeOK, NEW u \in Clients, ClientEdit(u)
    PROVE  DocNext
<1>1. u \in Users /\ Owner \in Nodes
    BY UsersAssumption, OwnerAssumption
<1>2. ASSUME NEW t \in Texts, ClientWrite(Owner, u, {t}, {}) PROVE DocNext
    <2>1. Loaded(Owner) /\ {t} \in SUBSET (Texts \cup {Mark}) /\ {} \in SUBSET Visible(live[Owner])
        BY <1>2 DEF ClientWrite, Transact
    <2> QED BY <1>1, <1>2, <2>1 DEF DocNext
<1>3. ASSUME NEW s \in Visible(Doc), ClientWrite(Owner, u, {}, {s}) PROVE DocNext
    <2>1. Loaded(Owner) /\ {} \in SUBSET (Texts \cup {Mark}) /\ {s} \in SUBSET Visible(live[Owner])
        BY <1>3 DEF ClientWrite, Transact, Doc
    <2> QED BY <1>1, <1>3, <2>1 DEF DocNext
<1> QED BY <1>2, <1>3 DEF ClientEdit

\* Every step of LiveEdit is a step of DocStore or leaves its variables alone.
LEMMA StepMaps ==
    ASSUME TypeOK, [Next]_vars
    PROVE  [DocNext]_docVars
<1>1. ASSUME NEW c \in Callers,
             \/ GetBase(c) \/ Preflight(c) \/ StartRestore(c) \/ StartSave(c)
             \/ SaveTx(c) \/ DenyTx(c) \/ EditTx(c)
      PROVE  UNCHANGED docVars
    BY <1>1 DEF GetBase, Preflight, StartRestore, StartSave, SaveTx, DenyTx, EditTx
<1>2. ASSUME NEW c \in Callers, RestoreTx(c) PROVE [DocNext]_docVars
    <2>1. UNCHANGED docVars \/ Touch(c)
        BY <1>2 DEF RestoreTx
    <2> QED BY <2>1, UsersAssumption DEF DocNext
<1>3. ASSUME NEW c \in Callers, RefuseEdit(c) PROVE DocNext
    BY <1>3, OwnerAssumption, UsersAssumption DEF RefuseEdit, DocNext
<1>4. CASE FlushEnds
    <2>1. PICK s \in stores : CommitStore(s) \/ FailStore(s)
        BY <1>4 DEF FlushEnds, StoreEnds
    <2> QED BY <2>1 DEF DocNext
<1>5. CASE Storing
    BY <1>5, OwnerAssumption DEF Storing, DocNext
<1>6. CASE Crash
    BY <1>6, OwnerAssumption DEF Crash, DocNext
<1>7. ASSUME NEW c \in Demoted, NEW r \in Roles, ChangeRole(c, r) PROVE UNCHANGED docVars
    BY <1>7 DEF ChangeRole
<1>8. CASE UNCHANGED vars
    BY <1>8 DEF vars, docVars
<1> QED BY <1>1, <1>2, <1>3, <1>4, <1>5, <1>6, <1>7, <1>8, EditMaps, RestoreMaps, ClientMaps DEF Next

----------------------------------------------------------------------------
(* Type correctness.                                                       *)

LEMMA TypeInit == Init => TypeOK
<1> SUFFICES ASSUME Init PROVE TypeOK
    OBVIOUS
<1>1. DocTypeOK
    <2>1. 0 \in 0..MaxTx
        BY BoundAssumption
    <2>2. row \in State
        BY <2>1 DEF Init, DocInit, State, Structs, Struct
    <2> QED BY <2>1, <2>2 DEF Init, DocInit, DocTypeOK
<1>2. versions \subseteq Version
    BY EmptyType DEF Init, Version
<1>3. access \in [epoch : 0..MaxEpoch, role : [Callers -> Roles]]
    BY EpochAssumption DEF Init, Roles
<1> QED BY <1>1, <1>2, <1>3, IdleType, KindsAssumption DEF Init, TypeOK

\* Phase 1 and the transaction, whose only effects are on req and versions.
LEMMA RequestTypes ==
    ASSUME TypeOK, NEW c \in Callers,
           \/ GetBase(c) \/ Preflight(c) \/ StartRestore(c) \/ StartSave(c)
           \/ SaveTx(c) \/ DenyTx(c) \/ EditTx(c) \/ RestoreTx(c)
    PROVE  req' \in [Callers -> Request] /\ versions' \subseteq Version
<1>0. req[c] \in Request /\ access.epoch \in 0..MaxEpoch /\ versions \subseteq Version
    BY DEF TypeOK
<1> DEFINE cleared == [req[c] EXCEPT !.pc = "apply"]
           allowed == [cleared EXCEPT !.passed = TRUE]
           onward  == [allowed EXCEPT !.pre = NoState]
<1>9. onward \in Request
    <2>1. cleared \in Request
        BY <1>0, FieldTypes DEF Pcs
    <2>2. allowed \in Request
        BY <2>1, FieldTypes
    <2> QED BY <2>2, EmptyType, FieldTypes DEF NoState
<1>10. ASSUME req' = [req EXCEPT ![c] = [@ EXCEPT !.pc = "apply", !.passed = TRUE, !.pre = NoState]]
       PROVE  req' \in [Callers -> Request]
    <2>1. req' = [req EXCEPT ![c] = onward]
        BY <1>10
    <2> QED BY <1>9, <2>1 DEF TypeOK
<1>1. CASE GetBase(c)
    <2>1. Vector(Doc) \subseteq Structs /\ Visible(Doc) \subseteq Structs
        BY <1>1, DocType, ContentType DEF GetBase
    <2> DEFINE a == [Idle EXCEPT !.pc = "read"]
               b == [a EXCEPT !.base = Vector(Doc)]
               d == [b EXCEPT !.seen = Visible(Doc)]
    <2>2. a \in Request
        BY IdleType, FieldTypes DEF Pcs
    <2>3. b \in Request
        BY <2>1, <2>2, FieldTypes
    <2>4. d \in Request
        BY <2>1, <2>3, FieldTypes
    <2>5. req' = [req EXCEPT ![c] = d]
        BY <1>1 DEF GetBase
    <2> QED BY <1>0, <1>1, <2>4, <2>5 DEF GetBase, TypeOK
<1>2. CASE Preflight(c)
    <2>1. Doc \in State
        BY <1>2, DocType DEF Preflight
    <2>3. CASE \E code \in Statuses : End(c, code)
        BY <1>0, <1>2, <2>3, EndType DEF Preflight
    <2>4. CASE req' = [req EXCEPT ![c] = [@ EXCEPT !.pc = "tx", !.pre = Doc, !.epoch = access.epoch]]
        <3> DEFINE a == [req[c] EXCEPT !.pc = "tx"]
                   b == [a EXCEPT !.pre = Doc]
                   d == [b EXCEPT !.epoch = access.epoch]
        <3>1. a \in Request
            BY <1>0, FieldTypes DEF Pcs
        <3>2. b \in Request
            BY <2>1, <3>1, FieldTypes
        <3>3. d \in Request
            BY <1>0, <3>2, FieldTypes
        <3>4. req' = [req EXCEPT ![c] = d]
            BY <2>4
        <3> QED BY <1>2, <3>3, <3>4 DEF Preflight, TypeOK
    <2> QED BY <1>2, <2>3, <2>4 DEF Preflight, Statuses
<1>3. CASE StartRestore(c)
    <2>1. PICK v \in versions :
            req' = [req EXCEPT ![c] = [Idle EXCEPT !.op = "restore", !.pc = "tx", !.pre = Doc,
                                          !.epoch = access.epoch, !.target = Content(v.state)]]
        BY <1>3 DEF StartRestore
    <2>2. Doc \in State
        BY <1>3, DocType DEF StartRestore
    <2>3. Content(v.state) \subseteq Texts
        BY <1>0, ContentType DEF Version
    <2> DEFINE a == [Idle EXCEPT !.op = "restore"]
               b == [a EXCEPT !.pc = "tx"]
               d == [b EXCEPT !.pre = Doc]
               e == [d EXCEPT !.epoch = access.epoch]
               f == [e EXCEPT !.target = Content(v.state)]
    <2>4. a \in Request
        BY IdleType, FieldTypes
    <2>5. b \in Request
        BY <2>4, FieldTypes DEF Pcs
    <2>6. d \in Request
        BY <2>2, <2>5, FieldTypes
    <2>7. e \in Request
        BY <1>0, <2>6, FieldTypes
    <2>8. f \in Request
        BY <2>3, <2>7, FieldTypes
    <2>9. req' = [req EXCEPT ![c] = f]
        BY <2>1
    <2> QED BY <1>0, <1>3, <2>8, <2>9 DEF StartRestore, TypeOK
<1>4. CASE StartSave(c)
    <2>1. Doc \in State
        BY <1>4, DocType DEF StartSave
    <2> DEFINE a == [Idle EXCEPT !.op = "save"]
               b == [a EXCEPT !.pc = "tx"]
               d == [b EXCEPT !.pre = Doc]
    <2>2. a \in Request
        BY IdleType, FieldTypes
    <2>3. b \in Request
        BY <2>2, FieldTypes DEF Pcs
    <2>4. d \in Request
        BY <2>1, <2>3, FieldTypes
    <2>5. req' = [req EXCEPT ![c] = d]
        BY <1>4 DEF StartSave
    <2> QED BY <1>0, <1>4, <2>4, <2>5 DEF StartSave, TypeOK
<1>5. CASE SaveTx(c)
    BY <1>0, <1>5, RowType, EndType DEF SaveTx, Statuses
<1>6. CASE DenyTx(c)
    BY <1>0, <1>6, EndType DEF DenyTx, Statuses
<1>7. CASE EditTx(c)
    BY <1>0, <1>7, <1>10, RowType DEF EditTx
<1>8. CASE RestoreTx(c)
    <2>1. CASE (End(c, 409) \/ End(c, 413)) /\ UNCHANGED versions
        BY <1>0, <2>1, EndType DEF Statuses
    <2>2. CASE /\ versions' = versions \cup {Row(c, "marker")}
               /\ req' = [req EXCEPT ![c] = [@ EXCEPT !.pc = "apply", !.passed = TRUE, !.pre = NoState]]
        BY <1>0, <1>10, <2>2, RowType
    <2> QED BY <1>8, <2>1, <2>2 DEF RestoreTx
<1> QED BY <1>1, <1>2, <1>3, <1>4, <1>5, <1>6, <1>7, <1>8

\* Phase 3; the type of the live document after the step is known already.
LEMMA ApplyTypes ==
    ASSUME TypeOK, DocTypeOK', NEW c \in Callers, ApplyEdit(c) \/ RefuseEdit(c) \/ ApplyRestore(c)
    PROVE  req' \in [Callers -> Request]
<1>1. ASSUME NEW base \in SUBSET Structs, Applied(c, base), Loaded(Owner), live'[Owner] \in State
      PROVE  req' \in [Callers -> Request]
    <2> DEFINE a == [req[c] EXCEPT !.pc = "flush"]
               b == [a EXCEPT !.hit = TRUE]
               d == [b EXCEPT !.base = base]
               f == [d EXCEPT !.left = live'[Owner]]
    <2>1. a \in Request
        BY FieldTypes DEF TypeOK, Pcs
    <2>2. b \in Request
        BY <2>1, FieldTypes
    <2>3. d \in Request
        BY <2>2, FieldTypes
    <2>4. f \in Request
        BY <1>1, <2>3, FieldTypes
    <2>5. req' = [req EXCEPT ![c] = f]
        BY <1>1 DEF Applied
    <2> QED BY <2>4, <2>5 DEF TypeOK
<1>2. ASSUME NEW texts, NEW gone, DirectWrite(Owner, c, texts, gone)
      PROVE  live'[Owner] \in State
    <2>1. Owner \in Nodes /\ Loaded(Owner) /\ live'[Owner] = Changed(live[Owner], texts, gone)
        BY <1>2, OwnerAssumption DEF DirectWrite, Transact, TypeOK, DocTypeOK
    <2>2. [node |-> Owner, doc |-> Changed(live[Owner], texts, gone), by |-> c, for |-> c] \in Store'
        BY <1>2 DEF DirectWrite, Capture, DocTypeOK, Store
    <2> QED BY <2>1, <2>2 DEF Store
<1>3. CASE ApplyEdit(c)
    <2>1. req[c].base \in SUBSET Structs
        BY DEF TypeOK, Request
    <2>2. Applied(c, req[c].base) /\ Loaded(Owner) /\ live'[Owner] \in State
        BY <1>2, <1>3 DEF ApplyEdit
    <2> QED BY <1>1, <2>1, <2>2
<1>4. CASE RefuseEdit(c)
    <2> DEFINE a == [req[c] EXCEPT !.pc = "refused"]
               b(code) == [a EXCEPT !.status = code]
    <2>1. a \in Request
        BY FieldTypes DEF TypeOK, Pcs
    <2>2. ASSUME NEW code \in Statuses PROVE b(code) \in Request
        <3> HIDE DEF a
        <3> QED BY <2>1, FieldTypes
    <2>3. PICK code \in {412, 422} :
             req' = [req EXCEPT ![c] = [@ EXCEPT !.pc = "refused", !.status = code]]
        BY ZenonT(60), <1>4 DEF RefuseEdit
    <2>4. code \in Statuses /\ req' = [req EXCEPT ![c] = b(code)]
        BY <2>3 DEF Statuses
    <2> QED BY <2>2, <2>4 DEF TypeOK
<1>5. CASE ApplyRestore(c)
    <2>1. Vector(Doc) \in SUBSET Structs
        BY <1>5, DocType, ContentType DEF ApplyRestore
    <2>2. Applied(c, Vector(Doc)) /\ Loaded(Owner) /\ live'[Owner] \in State
        BY <1>2, <1>5 DEF ApplyRestore
    <2> QED BY <1>1, <2>1, <2>2
<1> QED BY <1>3, <1>4, <1>5

\* A store that ends belongs to a user, not necessarily to a caller: req is a function of
\* callers only, and an update elsewhere leaves it alone.
LEMMA FlushTypes ==
    ASSUME TypeOK, FlushEnds
    PROVE  req' \in [Callers -> Request] /\ versions' \subseteq Version
<1>1. PICK s \in stores : s.for # None /\ StoreEnds(s)
    BY DEF FlushEnds
<1> DEFINE c == s.for
<1>2. CASE c \in Callers
    <2>1. req[c].status \in Statuses
        BY <1>2 DEF TypeOK, Request, Statuses
    <2>2. PICK code \in Statuses : End(c, code)
        BY <1>1, <2>1 DEF StoreEnds, Statuses
    <2>3. versions' \subseteq versions
        BY <1>1 DEF StoreEnds, Drop, AfterFailure
    <2> QED BY <1>2, <2>2, <2>3, EndType DEF TypeOK
<1>3. CASE c \notin Callers
    <2>1. \E code : End(c, code)
        BY <1>1 DEF StoreEnds
    <2>2. req' = req
        BY <1>3, <2>1 DEF End, TypeOK
    <2>3. versions' \subseteq versions
        BY <1>1 DEF StoreEnds, Drop, AfterFailure
    <2> QED BY <2>2, <2>3 DEF TypeOK
<1> QED BY <1>2, <1>3

LEMMA TypeStep ==
    ASSUME TypeOK, [Next]_vars
    PROVE  TypeOK'
<1>1. DocTypeOK'
    BY StepMaps, DocTypeStep DEF TypeOK
<1>2. kind' = kind
    BY DEF Next, vars, GetBase, Preflight, StartRestore, StartSave, SaveTx, DenyTx, EditTx,
           RestoreTx, ApplyEdit, RefuseEdit, ApplyRestore, FlushEnds, Storing, Crash, ClientEdit,
           ChangeRole
<1>3. ASSUME NEW c \in Demoted, NEW r \in Roles, ChangeRole(c, r)
      PROVE  access' \in [epoch : 0..MaxEpoch, role : [Callers -> Roles]]
    BY <1>3, UsersAssumption, EpochAssumption DEF ChangeRole, TypeOK
<1>4. access' \in [epoch : 0..MaxEpoch, role : [Callers -> Roles]]
    BY <1>3 DEF TypeOK, Next, vars, GetBase, Preflight, StartRestore, StartSave, SaveTx, DenyTx,
           EditTx, RestoreTx, ApplyEdit, RefuseEdit, ApplyRestore, FlushEnds, Storing, Crash, ClientEdit
<1>5. ASSUME Crash PROVE req' \in [Callers -> Request]
    <2>1. \A c \in Callers : Ended(req[c], 0) \in Request /\ req[c] \in Request
        BY EndedType DEF TypeOK, Statuses
    <2> QED BY <1>5, <2>1 DEF Crash
<1>6. req' \in [Callers -> Request]
    BY <1>1, <1>5, RequestTypes, ApplyTypes, FlushTypes
       DEF TypeOK, Next, vars, Storing, ClientEdit, ChangeRole
<1>7. versions' \subseteq Version
    BY RequestTypes, FlushTypes
       DEF TypeOK, Next, vars, ApplyEdit, RefuseEdit, ApplyRestore, Storing, Crash, ClientEdit, ChangeRole
<1> QED BY <1>1, <1>2, <1>4, <1>6, <1>7 DEF TypeOK

\* Every variable of LiveEdit keeps its type, for any callers, clients and bounds.
THEOREM LiveTypeCorrect == Spec => []TypeOK
<1>1. TypeOK /\ [Next]_vars => TypeOK'
    BY TypeStep
<1> QED BY TypeInit, <1>1, PTL DEF Spec

\* LiveEdit implements DocStore: server-side edits, restores, snapshots and crashes do
\* nothing to the document, its stores and its row that the store does not allow.
THEOREM ImplementsStore == Spec => DocSpec
<1>1. Init => DocInit
    BY DEF Init
<1>2. TypeOK /\ [Next]_vars => [DocNext]_docVars
    BY StepMaps
<1> QED BY <1>1, <1>2, LiveTypeCorrect, PTL DEF Spec, DocSpec

\* So the row never loses anything under server-side writes either.
THEOREM LiveRowGrows == Spec => RowGrows
BY ImplementsStore, StoredStaysStored, PTL
----------------------------------------------------------------------------
(* What the answers of the write routes promise, for any callers, clients  *)
(* and bounds. The invariant says of the node that it never holds less     *)
(* than its row or a store under way; of the stores, that each awaited one *)
(* belongs to a request that waits for it, and to one only; of a request,  *)
(* where its safety snapshot stands and where its write has got to; and of *)
(* two writes that stand, that their tokens differ.                        *)

Refusals == {403, 409, 412, 413, 422}
Guards == {412, 422}
Waiting == {"flush", "refused"}

\* Of what the document has, every struct is of a transaction that has been.
Past(doc) == \A s \in doc.ins : s.tx <= clock

\* The document is in the memory of its owner only.
OwnerOnly ==
    /\ \A n \in Nodes \ {Owner} : ~Loaded(n) /\ loading[n] = None
    /\ \A s \in stores : s.node = Owner

NodeOK ==
    /\ loading[Owner] # None => ~Loaded(Owner) /\ loading[Owner] = row
    /\ ~Loaded(Owner) => stores = {}
    /\ \A s \in stores : Below(s.doc, Doc)
    /\ Loaded(Owner) => Below(row, Doc) /\ Past(Doc)
    /\ Past(row)

\* The request a store is for waits for it; what it stores is what the request left.
StoreOK(s) ==
    s.for # None =>
        /\ s.for \in Callers
        /\ req[s.for].pc \in Waiting
        /\ req[s.for].pc = "flush" => s.doc = req[s.for].left

StoresOK ==
    /\ \A s \in stores : StoreOK(s)
    /\ \A s, t \in stores : s.for # None /\ s.for = t.for => s = t
    /\ \A c \in Callers : req[c].pc \in Waiting => \E s \in stores : s.for = c

MarkersOf(c) == {v \in versions : v.kind = "marker" /\ v.id = c}
UndoAt(c) == \E v \in MarkersOf(c) : Vector(v.state) = req[c].base

\* No snapshot before the transaction or after a refusal; from the transaction on one at
\* the base, for as long as the write may need it.
MarksOK(c) ==
    /\ req[c].pc \in {"idle", "read", "tx"} => MarkersOf(c) = {}
    /\ req[c].pc = "tx" /\ req[c].op = "edit" => Vector(req[c].pre) = req[c].base
    /\ req[c].pc = "apply" /\ req[c].op = "edit" => UndoAt(c)
    /\ req[c].hit /\ kind # "document" /\ req[c].op = "edit" => UndoAt(c)
    /\ req[c].pc = "done" /\ req[c].status \in Refusals => MarkersOf(c) = {}

\* A write that may still be answered 200, or was; and one that moved the token.
Stands(c) == req[c].hit /\ (req[c].pc = "flush" \/ Answered(c))
Moves(c) == kind # "board" \/ req[c].op = "edit"

WriteOK(c) ==
    /\ req[c].hit => req[c].pc \in {"flush", "done"}
    /\ req[c].pc = "flush" => req[c].hit /\ Below(req[c].left, Doc)
    /\ req[c].pc = "refused" => req[c].status \in Guards
    /\ req[c].pc = "done" /\ req[c].status \in Refusals => ~req[c].hit
    /\ Answered(c) => req[c].hit /\ Below(req[c].left, row)
    /\ Stands(c) /\ Moves(c) => ~(req[c].left.ins \subseteq req[c].base)

RequestsOK == \A c \in Callers : MarksOK(c) /\ WriteOK(c)

TokensOK ==
    \A c, d \in Callers :
        c # d /\ Stands(c) /\ Stands(d) /\ Moves(c) /\ Moves(d) => req[c].base # req[d].base

IInv == TypeOK /\ OwnerOnly /\ NodeOK /\ StoresOK /\ RequestsOK /\ TokensOK

LEMMA Codes ==
    /\ 0 \notin Refusals /\ 200 \notin Refusals /\ 500 \notin Refusals
    /\ 0 # 200 /\ 500 # 200 /\ 200 \notin Guards /\ Guards \subseteq Refusals
BY DEF Refusals, Guards

LEMMA BelowSteps ==
    ASSUME NEW a, NEW b, NEW c, Below(a, b)
    PROVE  /\ Below(b, c) => Below(a, c)
           /\ \A texts, gone : Below(a, Changed(b, texts, gone))
BY DEF Below, Changed

----------------------------------------------------------------------------
(* The node.                                                               *)

LEMMA OwnerOnlyStep ==
    ASSUME TypeOK, OwnerOnly, [Next]_vars
    PROVE  OwnerOnly'
<1> DEFINE Elsewhere == \A n \in Nodes \ {Owner} : live'[n] = live[n] /\ loading'[n] = loading[n]
           Ours == \A s \in stores' : s \in stores \/ s.node = Owner
<1>1. ASSUME NEW c \in Callers,
             \/ GetBase(c) \/ Preflight(c) \/ StartRestore(c) \/ StartSave(c)
             \/ SaveTx(c) \/ DenyTx(c) \/ EditTx(c) \/ RestoreTx(c)
      PROVE  Elsewhere /\ Ours
    <2>1. UNCHANGED <<live, loading, stores>>
        BY <1>1 DEF docVars, GetBase, Preflight, StartRestore, StartSave, SaveTx, DenyTx, EditTx,
                    RestoreTx, Touch
    <2> QED BY <2>1
<1>2. ASSUME NEW doc, NEW by, NEW for, Capture(Owner, doc, by, for) PROVE Ours
    BY <1>2 DEF Capture
<1>3. ASSUME NEW u, NEW texts, NEW gone,
             \/ DirectWrite(Owner, u, texts, gone) \/ ClientWrite(Owner, u, texts, gone)
             \/ WriterFlush(Owner, u)
      PROVE  Elsewhere /\ Ours
    BY <1>2, <1>3 DEF DirectWrite, ClientWrite, WriterFlush, Transact, TypeOK, DocTypeOK
<1>4. ASSUME NEW c \in Callers, ApplyEdit(c) \/ RefuseEdit(c) \/ ApplyRestore(c)
      PROVE  Elsewhere /\ Ours
    <2>1. CASE ApplyEdit(c)
        BY <1>3, <2>1 DEF ApplyEdit
    <2>2. CASE RefuseEdit(c)
        BY <1>3, <2>2 DEF RefuseEdit
    <2>3. CASE ApplyRestore(c)
        BY <1>3, <2>3 DEF ApplyRestore
    <2> QED BY <1>4, <2>1, <2>2, <2>3
<1>5. ASSUME NEW u \in Clients, ClientEdit(u) PROVE Elsewhere /\ Ours
    BY <1>3, <1>5 DEF ClientEdit
<1>6. ASSUME NEW s \in stores, CommitStore(s) \/ FailStore(s) PROVE Elsewhere /\ Ours
    BY <1>6 DEF CommitStore, FailStore
<1>7. ASSUME FlushEnds PROVE Elsewhere /\ Ours
    BY <1>6, <1>7 DEF FlushEnds, StoreEnds
<1>8. ASSUME \/ Fetch(Owner) \/ Hydrate(Owner) \/ DebouncedStore(Owner) \/ ReaderFlush(Owner)
             \/ Unload(Owner) \/ Restart(Owner)
      PROVE  Elsewhere /\ Ours
    <2>1. Elsewhere
        BY <1>8 DEF Fetch, Hydrate, DebouncedStore, ReaderFlush, Unload, Restart, TypeOK, DocTypeOK
    <2>2. Ours
        BY <1>2, <1>8 DEF Fetch, Hydrate, DebouncedStore, ReaderFlush, Unload, Restart
    <2> QED BY <2>1, <2>2
<1>9. ASSUME Storing PROVE Elsewhere /\ Ours
    BY <1>6, <1>8, <1>9 DEF Storing
<1>10. ASSUME Crash PROVE Elsewhere /\ Ours
    BY <1>8, <1>10 DEF Crash
<1>11. ASSUME NEW c \in Demoted, NEW r \in Roles, ChangeRole(c, r) PROVE Elsewhere /\ Ours
    BY <1>11 DEF ChangeRole, docVars
<1>12. ASSUME UNCHANGED vars PROVE Elsewhere /\ Ours
    BY <1>12 DEF vars
<1> HIDE DEF Elsewhere, Ours
<1>13. Elsewhere /\ Ours
    BY <1>1, <1>4, <1>5, <1>7, <1>9, <1>10, <1>11, <1>12 DEF Next
<1> QED BY <1>13 DEF Elsewhere, Ours, OwnerOnly, Loaded

\* One transaction of a connection: the node and its row stay in order, and whatever the
\* document had it has still.
LEMMA TransactStep ==
    ASSUME DocTypeOK, OwnerOnly, NodeOK, NEW n \in Nodes, NEW texts \in SUBSET (Texts \cup {Mark}),
           NEW gone, Transact(n, texts, gone), row' = row
    PROVE  /\ Loaded(Owner) /\ Loaded(Owner)' /\ Doc' = Changed(Doc, texts, gone)
           /\ Below(Doc, Doc') /\ Below(row, Doc') /\ Past(Doc)' /\ Past(row)'
<1>1. n = Owner /\ Loaded(Owner) /\ Owner \in Nodes /\ Doc \in State
    BY OwnerAssumption DEF OwnerOnly, Transact, Loaded, DocTypeOK, Doc
<1>2. Doc' = Changed(Doc, texts, gone) /\ clock' = clock + 1 /\ clock < MaxTx
    BY <1>1 DEF Transact, Doc, DocTypeOK
<1>3. gone \in SUBSET Visible(Doc)
    BY <1>1 DEF Transact, Doc
<1>4. Changed(Doc, texts, gone) \in State
    BY <1>1, <1>2, <1>3, ChangedType
<1>5. Loaded(Owner)'
    BY <1>2, <1>4, NoneAssumption DEF Loaded, Doc
<1>6. Below(Doc, Doc') /\ Below(row, Doc')
    BY <1>1, <1>2 DEF NodeOK, Below, Changed
<1>7. Past(Doc)'
    <2> SUFFICES ASSUME NEW s \in (Doc').ins PROVE s.tx <= clock'
        BY DEF Past
    <2>1. CASE s \in Doc.ins
        <3>1. s.tx <= clock /\ s.tx \in 0..MaxTx /\ clock \in 0..MaxTx
            BY <1>1, <2>1 DEF NodeOK, Past, State, Structs, DocTypeOK
        <3> QED BY <1>2, <3>1, BoundAssumption
    <2>2. CASE s \in {Struct(clock + 1, t) : t \in texts}
        <3>1. s.tx = clock + 1 /\ clock \in 0..MaxTx
            BY <2>2 DEF Struct, DocTypeOK
        <3> QED BY <1>2, <3>1, BoundAssumption
    <2> QED BY <1>2, <2>1, <2>2 DEF Changed
<1>8. Past(row)'
    <2> SUFFICES ASSUME NEW s \in row.ins PROVE s.tx <= clock'
        BY DEF Past
    <2>1. s.tx <= clock /\ s.tx \in 0..MaxTx /\ clock \in 0..MaxTx
        BY DEF NodeOK, Past, State, Structs, DocTypeOK
    <2> QED BY <1>2, <2>1, BoundAssumption
<1> QED BY <1>1, <1>2, <1>5, <1>6, <1>7, <1>8

LEMMA NodeStep ==
    ASSUME DocTypeOK, DocTypeOK', OwnerOnly, OwnerOnly', NodeOK, [DocNext]_docVars
    PROVE  /\ NodeOK'
           /\ Loaded(Owner) /\ Loaded(Owner)' => Below(Doc, Doc')
<1> DEFINE Goal == NodeOK' /\ (Loaded(Owner) /\ Loaded(Owner)' => Below(Doc, Doc'))
<1>0. Owner \in Nodes /\ \A n \in Nodes : Loaded(n) \/ loading[n] # None => n = Owner
    BY OwnerAssumption DEF OwnerOnly
<1>1. ASSUME NEW n \in Nodes, Fetch(n) PROVE Goal
    <2>0. n = Owner
        <3>1. loading'[n] = row /\ row # None
            BY <1>1, NoneAssumption DEF Fetch, DocTypeOK
        <3> QED BY <3>1 DEF OwnerOnly
    <2>1. loading'[Owner] = row /\ ~Loaded(Owner)
        BY <1>0, <1>1, <2>0 DEF Fetch, DocTypeOK
    <2> QED BY <1>1, <2>1 DEF Fetch, NodeOK, Loaded, Doc, Past
<1>2. ASSUME NEW n \in Nodes, Hydrate(n) PROVE Goal
    <2>1. loading[Owner] # None /\ live'[Owner] = loading[Owner] /\ loading'[Owner] = None
        BY <1>0, <1>2 DEF Hydrate, DocTypeOK
    <2>2. ~Loaded(Owner) /\ loading[Owner] = row /\ stores = {}
        BY <2>1 DEF NodeOK
    <2> QED BY <1>2, <2>1, <2>2 DEF Hydrate, NodeOK, Loaded, Doc, Past, Below
\* A store is captured of a document no larger than the node's.
<1>3. ASSUME NEW n \in Nodes, NEW doc, NEW by, NEW for, Capture(n, doc, by, for), Below(doc, Doc'),
             Loaded(Owner), Loaded(Owner)', Below(Doc, Doc'), Below(row, Doc'), Past(Doc)', Past(row)',
             row' = row, loading' = loading
      PROVE  Goal
    <2>1. \A s \in stores' : Below(s.doc, Doc')
        BY <1>3, BelowSteps DEF Capture, NodeOK
    <2> QED BY <1>3, <2>1 DEF NodeOK
<1>4. ASSUME NEW n \in Nodes,
             DebouncedStore(n) \/ ReaderFlush(n) \/ \E u \in Users : WriterFlush(n, u)
      PROVE  Goal
    <2>1. /\ Loaded(Owner) /\ UNCHANGED <<clock, row, live, loading>>
          /\ \E by, for : Capture(n, Doc, by, for)
        BY <1>0, <1>4 DEF DebouncedStore, ReaderFlush, WriterFlush, Doc
    <2>2. Loaded(Owner)' /\ Doc' = Doc
        BY <2>1 DEF Loaded, Doc
    <2>3. Below(Doc, Doc') /\ Below(row, Doc') /\ Past(Doc)' /\ Past(row)'
        BY <2>1, <2>2 DEF NodeOK, Below, Past
    <2> QED BY <1>3, <2>1, <2>2, <2>3
<1>5. ASSUME NEW n \in Nodes, NEW u \in Users, NEW texts \in SUBSET (Texts \cup {Mark}),
             NEW gone \in SUBSET Visible(live[n]), ClientWrite(n, u, texts, gone)
      PROVE  Goal
    <2>1. /\ Loaded(Owner) /\ Loaded(Owner)' /\ Below(Doc, Doc') /\ Below(row, Doc')
          /\ Past(Doc)' /\ Past(row)'
        BY <1>5, TransactStep DEF ClientWrite
    <2>2. \A s \in stores : Below(s.doc, Doc')
        BY <2>1, BelowSteps DEF NodeOK
    <2> QED BY <1>5, <2>1, <2>2 DEF ClientWrite, NodeOK
<1>6. ASSUME NEW n \in Nodes, NEW u \in Users, NEW texts \in SUBSET (Texts \cup {Mark}),
             NEW gone \in SUBSET Visible(live[n]), DirectWrite(n, u, texts, gone)
      PROVE  Goal
    <2>1. /\ Loaded(Owner) /\ Loaded(Owner)' /\ Below(Doc, Doc') /\ Below(row, Doc')
          /\ Past(Doc)' /\ Past(row)' /\ Doc' = Changed(Doc, texts, gone)
        BY <1>6, TransactStep DEF DirectWrite
    <2>2. Capture(n, Changed(Doc, texts, gone), u, u)
        BY <1>0, <1>6 DEF DirectWrite, Transact, Doc
    <2>3. Below(Doc', Doc') /\ row' = row /\ loading' = loading
        BY <1>6 DEF Below, DirectWrite
    <2> QED BY <1>3, <2>1, <2>2, <2>3
<1>7. ASSUME NEW n \in Nodes, NEW m \in Nodes \ {n}, Sync(n, m) PROVE Goal
    BY <1>0, <1>7 DEF Sync
<1>8. ASSUME NEW s \in stores, CommitStore(s) PROVE Goal
    <2>1. Loaded(Owner) /\ Below(s.doc, Doc) /\ Below(row, Doc)
        BY DEF NodeOK
    <2>2. Below(FinalState(row, s.doc), Doc)
        BY <2>1 DEF FinalState, Merge, Below
    <2>3. row' = FinalState(row, s.doc) /\ stores' \subseteq stores /\ UNCHANGED <<clock, live, loading>>
        BY <1>8 DEF CommitStore
    <2>4. Doc' = Doc /\ Loaded(Owner)' /\ Past(Doc)
        BY <2>1, <2>3 DEF Doc, Loaded, NodeOK
    <2>5. Past(Doc)' /\ Past(row)'
        BY <2>2, <2>3, <2>4 DEF Past, Below
    <2>6. Below(row', Doc') /\ Below(Doc, Doc') /\ \A t \in stores' : Below(t.doc, Doc')
        BY <2>2, <2>3, <2>4 DEF Below, NodeOK
    <2>7. loading'[Owner] = None
        BY <2>1, <2>3 DEF NodeOK
    <2> QED BY <2>4, <2>5, <2>6, <2>7 DEF NodeOK
<1>9. ASSUME NEW s \in stores, FailStore(s) PROVE Goal
    <2>1. stores' \subseteq stores /\ UNCHANGED <<clock, row, live, loading>>
        BY <1>9 DEF FailStore
    <2> QED BY <2>1 DEF NodeOK, Doc, Loaded, Past, Below
<1>10. ASSUME NEW u \in Users, Touch(u) PROVE Goal
    BY <1>10 DEF Touch, NodeOK, Doc, Loaded, Past, Below
<1>11. ASSUME NEW n \in Nodes, Unload(n) PROVE Goal
    <2>1. n = Owner /\ \A s \in stores : s.node = n
        BY <1>0, <1>11 DEF OwnerOnly, Unload
    <2>2. stores' = {} /\ ~Loaded(Owner)' /\ UNCHANGED <<clock, row, loading>> /\ Loaded(Owner)
        BY <1>0, <1>11, <2>1 DEF Unload, Loaded, DocTypeOK
    <2> QED BY <2>2 DEF NodeOK, Past
<1>12. ASSUME NEW n \in Nodes, Restart(n) PROVE Goal
    <2>1. n = Owner /\ \A s \in stores : s.node = n
        BY <1>0, <1>12 DEF OwnerOnly, Restart
    <2>2. stores' = {} /\ ~Loaded(Owner)' /\ UNCHANGED <<clock, row>> /\ loading'[Owner] = None
        BY <1>0, <1>12, <2>1 DEF Restart, Loaded, DocTypeOK
    <2> QED BY <2>2 DEF NodeOK, Past
<1>13. ASSUME UNCHANGED docVars PROVE Goal
    BY <1>13 DEF docVars, NodeOK, Doc, Loaded, Past, Below
<1> HIDE DEF Goal
<1>14. Goal
    BY <1>1, <1>2, <1>4, <1>5, <1>6, <1>7, <1>8, <1>9, <1>10, <1>11, <1>12, <1>13 DEF DocNext
<1> QED BY <1>14 DEF Goal

----------------------------------------------------------------------------
(* What the steps make of a request record.                                *)

\* A request that is over: what of it is kept.
LEMMA EndedFields ==
    ASSUME NEW r \in Request, NEW code
    PROVE  /\ Ended(r, code).pc = "done" /\ Ended(r, code).op = r.op
           /\ Ended(r, code).status = code /\ Ended(r, code).hit = r.hit
           /\ r.hit => Ended(r, code).base = r.base /\ Ended(r, code).left = r.left
<1>1. CASE r.hit
    BY <1>1 DEF Ended, Idle, Request
<1>2. CASE ~r.hit
    BY ZenonT(60), <1>2 DEF Ended, Idle, Request
<1> QED BY <1>1, <1>2

\* Through the transaction: on to the live write, with a snapshot on record.
LEMMA PassedFields ==
    ASSUME NEW r \in Request, NEW x,
           x = [r EXCEPT !.pc = "apply", !.passed = TRUE, !.pre = NoState]
    PROVE  /\ x.pc = "apply" /\ x.op = r.op /\ x.base = r.base /\ x.hit = r.hit
           /\ x.left = r.left /\ x.status = r.status
BY DEF Request

\* The live document was changed.
LEMMA AppliedFields ==
    ASSUME NEW r \in Request, NEW base, NEW left, NEW x,
           x = [r EXCEPT !.pc = "flush", !.hit = TRUE, !.base = base, !.left = left]
    PROVE  x.pc = "flush" /\ x.op = r.op /\ x.base = base /\ x.hit /\ x.left = left
BY DEF Request

LEMMA RefusedFields ==
    ASSUME NEW r \in Request, NEW code, NEW x, x = [r EXCEPT !.pc = "refused", !.status = code]
    PROVE  x.pc = "refused" /\ x.op = r.op /\ x.hit = r.hit /\ x.status = code
BY DEF Request

LEMMA IdleFields ==
    /\ Idle.pc = "idle" /\ Idle.op = "edit" /\ ~Idle.hit /\ Idle.status = 0
    /\ \A base, seen : LET x == [Idle EXCEPT !.pc = "read", !.base = base, !.seen = seen]
                       IN  x.pc = "read" /\ ~x.hit
    /\ \A pre, epoch, target :
         LET x == [Idle EXCEPT !.op = "restore", !.pc = "tx", !.pre = pre, !.epoch = epoch,
                               !.target = target]
         IN  x.pc = "tx" /\ x.op = "restore" /\ ~x.hit
    /\ \A pre : LET x == [Idle EXCEPT !.op = "save", !.pc = "tx", !.pre = pre]
                IN  x.pc = "tx" /\ x.op = "save" /\ ~x.hit
BY DEF Idle

\* Its request is a caller's own, and everybody else's stays as it is.
LEMMA OwnRequest ==
    ASSUME TypeOK, NEW c \in Callers, NEW x, req' = [req EXCEPT ![c] = x]
    PROVE  req'[c] = x /\ \A d \in Callers \ {c} : req'[d] = req[d]
BY DEF TypeOK

----------------------------------------------------------------------------
(* The requests.                                                           *)

\* A request ends: what must hold of the answer and of the snapshot.
LEMMA EndedOK ==
    ASSUME TypeOK, NEW c \in Callers, WriteOK(c), MarksOK(c), req[c].pc # "done",
           NEW code, req'[c] = Ended(req[c], code), kind' = kind,
           req[c].hit /\ req[c].op = "edit" /\ kind # "document" => MarkersOf(c)' = MarkersOf(c),
           code \in Refusals => ~req[c].hit /\ MarkersOf(c)' = {},
           code = 200 /\ req[c].op # "save" => req[c].hit /\ Below(req[c].left, row')
    PROVE  MarksOK(c)' /\ WriteOK(c)' /\ (Stands(c)' => Stands(c))
<1>0. req[c] \in Request
    BY DEF TypeOK
<1>1. /\ req'[c].pc = "done" /\ req'[c].op = req[c].op
      /\ req'[c].status = code /\ req'[c].hit = req[c].hit
      /\ req[c].hit => req'[c].base = req[c].base /\ req'[c].left = req[c].left
    BY <1>0, EndedFields
<1>2. MarksOK(c)'
    <2>1. ASSUME req[c].hit, kind # "document", req[c].op = "edit" PROVE UndoAt(c)'
        BY <1>1, <2>1 DEF MarksOK, UndoAt
    <2> QED BY <1>1, <2>1 DEF MarksOK
<1>3. Stands(c)' => Stands(c)
    BY <1>1 DEF Stands, WriteOK
<1>4. WriteOK(c)'
    <2>1. Answered(c)' => req[c].hit /\ Below(req[c].left, row')
        BY <1>1 DEF Answered
    <2>2. Stands(c)' /\ Moves(c)' => ~(req'[c].left.ins \subseteq req'[c].base)
        BY <1>1, <1>3 DEF Stands, Moves, WriteOK
    <2> QED BY <1>1, <2>1, <2>2 DEF WriteOK
<1> QED BY <1>2, <1>3, <1>4

\* A request to which nothing happens, whatever happens around it.
LEMMA KeptOK ==
    ASSUME NEW c \in Callers, WriteOK(c), MarksOK(c), req'[c] = req[c], kind' = kind,
           MarkersOf(c)' = MarkersOf(c), Below(row, row'),
           req[c].pc = "flush" => Below(Doc, Doc')
    PROVE  MarksOK(c)' /\ WriteOK(c)' /\ (Stands(c)' => Stands(c))
<1>1. MarksOK(c)'
    BY DEF MarksOK, UndoAt
<1>2. Stands(c)' <=> Stands(c)
    BY DEF Stands, Answered
<1>3. Answered(c)' => req[c].hit /\ Below(req[c].left, row')
    BY BelowSteps DEF Answered, WriteOK
<1>4. req[c].pc = "flush" => Below(req[c].left, Doc')
    BY BelowSteps DEF WriteOK
<1>5. WriteOK(c)'
    BY <1>2, <1>3, <1>4 DEF WriteOK, Moves
<1> QED BY <1>1, <1>2, <1>5

\* A request that has not written yet goes on to another phase before the write.
LEMMA EarlyOK ==
    ASSUME NEW c \in Callers, ~req'[c].hit, req'[c].pc \in {"read", "tx", "apply"},
           req'[c].pc # "apply" => MarkersOf(c)' = {},
           req'[c].pc = "tx" /\ req'[c].op = "edit" => Vector(req'[c].pre) = req'[c].base,
           req'[c].pc = "apply" /\ req'[c].op = "edit" => UndoAt(c)'
    PROVE  MarksOK(c)' /\ WriteOK(c)' /\ ~Stands(c)'
<1>1. MarksOK(c)'
    BY DEF MarksOK
<1>2. ~Stands(c)' /\ ~Answered(c)'
    BY DEF Stands, Answered
<1>3. WriteOK(c)'
    BY <1>2 DEF WriteOK
<1> QED BY <1>1, <1>2, <1>3

\* A version written for one caller is no marker of another.
LEMMA OthersMarkers ==
    ASSUME NEW c \in Callers, NEW k, versions' = versions \cup {Row(c, k)}
    PROVE  /\ \A d \in Callers \ {c} : MarkersOf(d)' = MarkersOf(d)
           /\ k # "marker" => MarkersOf(c)' = MarkersOf(c)
           /\ k = "marker" => \E v \in MarkersOf(c)' : v.state = req[c].pre
<1>1. Row(c, k).id = c /\ Row(c, k).kind = k /\ Row(c, k).state = req[c].pre
    BY DEF Row
<1>2. \A d \in Callers \ {c} : MarkersOf(d)' = MarkersOf(d)
    BY <1>1 DEF MarkersOf
<1>3. k # "marker" => MarkersOf(c)' = MarkersOf(c)
    BY <1>1 DEF MarkersOf
<1>4. k = "marker" => Row(c, k) \in MarkersOf(c)'
    BY <1>1 DEF MarkersOf
<1> QED BY <1>1, <1>2, <1>3, <1>4

\* The read and the transaction of a request: it has not written yet, and where it goes
\* from there is in order. What all eight actions share:
Early(c) ==
    /\ req[c].pc \in {"idle", "read", "tx"} /\ req'[c].pc \notin Waiting
    /\ \A d \in Callers \ {c} : req'[d] = req[d] /\ MarkersOf(d)' = MarkersOf(d)
    /\ UNCHANGED <<clock, row, live, loading, stores, kind>>
    /\ MarksOK(c)' /\ WriteOK(c)' /\ (Stands(c)' => Stands(c))

\* The request is refused or ends before it wrote anything.
LEMMA EarlyEnd ==
    ASSUME IInv, NEW c \in Callers, NEW code, End(c, code), req[c].pc \in {"idle", "read", "tx"},
           UNCHANGED <<clock, row, live, loading, stores, kind>>,
           UNCHANGED versions \/ (code \notin Refusals /\ versions' = versions \cup {Row(c, "named")}),
           code = 200 => req[c].op = "save"
    PROVE  Early(c)
<1>1. WriteOK(c) /\ MarksOK(c) /\ ~req[c].hit
    BY DEF IInv, RequestsOK, WriteOK
<1>2. req'[c] = Ended(req[c], code) /\ \A d \in Callers \ {c} : req'[d] = req[d]
    BY OwnRequest DEF End, IInv
<1>3. \A d \in Callers : MarkersOf(d)' = MarkersOf(d)
    BY OthersMarkers DEF MarkersOf
<1>4. MarkersOf(c) = {}
    BY <1>1 DEF MarksOK
<1>5. MarksOK(c)' /\ WriteOK(c)' /\ (Stands(c)' => Stands(c))
    BY <1>1, <1>2, <1>3, <1>4, EndedOK DEF IInv
<1>6. req'[c].pc = "done"
    BY <1>2, EndedFields DEF IInv, TypeOK
<1> QED BY <1>2, <1>3, <1>5, <1>6 DEF Early, Waiting

\* The request goes on without having written.
LEMMA EarlyOn ==
    ASSUME IInv, NEW c \in Callers, NEW x, req' = [req EXCEPT ![c] = x],
           req[c].pc \in {"idle", "read", "tx"}, ~x.hit, x.pc \in {"read", "tx", "apply"},
           UNCHANGED <<clock, row, live, loading, stores, kind>>,
           x.pc # "apply" => UNCHANGED versions,
           x.pc = "tx" /\ x.op = "edit" => Vector(x.pre) = x.base,
           x.pc = "apply" => versions' = versions \cup {Row(c, "marker")},
           x.pc = "apply" /\ x.op = "edit" => Vector(req[c].pre) = x.base
    PROVE  Early(c)
<1>1. WriteOK(c) /\ MarksOK(c)
    BY DEF IInv, RequestsOK
<1>2. req'[c] = x /\ \A d \in Callers \ {c} : req'[d] = req[d]
    BY OwnRequest DEF IInv
<1>3. \A d \in Callers \ {c} : MarkersOf(d)' = MarkersOf(d)
    BY OthersMarkers DEF MarkersOf
<1>4. x.pc # "apply" => MarkersOf(c)' = {}
    BY <1>1 DEF MarksOK, MarkersOf
<1>5. x.pc = "apply" /\ x.op = "edit" => UndoAt(c)'
    BY <1>2, OthersMarkers DEF UndoAt
<1>6. MarksOK(c)' /\ WriteOK(c)' /\ ~Stands(c)'
    BY <1>2, <1>4, <1>5, EarlyOK
<1> QED BY <1>2, <1>3, <1>6 DEF Early, Waiting

LEMMA EarlySteps ==
    ASSUME IInv, NEW c \in Callers,
           \/ GetBase(c) \/ Preflight(c) \/ StartRestore(c) \/ StartSave(c)
           \/ SaveTx(c) \/ DenyTx(c) \/ EditTx(c) \/ RestoreTx(c)
    PROVE  Early(c)
<1>0. WriteOK(c) /\ MarksOK(c) /\ req[c] \in Request
    BY DEF IInv, RequestsOK, TypeOK
<1> DEFINE onward == [req[c] EXCEPT !.pc = "apply", !.passed = TRUE, !.pre = NoState]
<1>9. ASSUME req[c].pc = "tx", req' = [req EXCEPT ![c] = onward],
             UNCHANGED <<clock, row, live, loading, stores, kind>>,
             versions' = versions \cup {Row(c, "marker")}
      PROVE  Early(c)
    <2>1. onward.pc = "apply" /\ onward.op = req[c].op /\ onward.base = req[c].base /\ onward.hit = req[c].hit
        BY <1>0, PassedFields
    <2>2. ~onward.hit
        BY <1>0, <1>9, <2>1 DEF WriteOK
    <2>3. onward.op = "edit" => Vector(req[c].pre) = onward.base
        BY <1>0, <1>9, <2>1 DEF MarksOK
    <2> HIDE DEF onward
    <2> QED BY <1>9, <2>1, <2>2, <2>3, EarlyOn
<1>1. CASE GetBase(c)
    <2> DEFINE x == [Idle EXCEPT !.pc = "read", !.base = Vector(Doc), !.seen = Visible(Doc)]
    <2>1. x.pc = "read" /\ ~x.hit
        BY IdleFields
    <2>2. req' = [req EXCEPT ![c] = x] /\ req[c].pc = "idle" /\ UNCHANGED <<docVars, kind, versions>>
        BY <1>1 DEF GetBase
    <2> HIDE DEF x
    <2> QED BY <2>1, <2>2, EarlyOn DEF docVars
<1>2. CASE Preflight(c)
    <2>0. req[c].pc = "read" /\ UNCHANGED <<docVars, kind, versions>>
        BY <1>2 DEF Preflight
    <2>1. CASE \E code \in {403, 412, 422, 413} : End(c, code)
        <3>1. PICK code \in {403, 412, 422, 413} : End(c, code)
            BY <2>1
        <3>2. code # 200
            OBVIOUS
        <3> QED BY <2>0, <3>1, <3>2, EarlyEnd DEF docVars
    <2>2. CASE /\ Vector(Doc) = req[c].base
               /\ req' = [req EXCEPT ![c] = [@ EXCEPT !.pc = "tx", !.pre = Doc, !.epoch = access.epoch]]
        <3>0. PICK x : x = [req[c] EXCEPT !.pc = "tx", !.pre = Doc, !.epoch = access.epoch]
            OBVIOUS
        <3>1. x.pc = "tx" /\ x.op = req[c].op /\ x.base = req[c].base /\ x.hit = req[c].hit /\ x.pre = Doc
            BY <1>0, <3>0 DEF Request
        <3>2. ~x.hit /\ Vector(x.pre) = x.base
            BY <1>0, <2>0, <2>2, <3>1 DEF WriteOK
        <3>3. req' = [req EXCEPT ![c] = x]
            BY <2>2, <3>0
        <3> QED BY <2>0, <3>1, <3>2, <3>3, EarlyOn DEF docVars
    <2> QED BY <1>2, <2>1, <2>2 DEF Preflight
<1>3. CASE StartRestore(c)
    <2>1. PICK v \in versions :
            req' = [req EXCEPT ![c] = [Idle EXCEPT !.op = "restore", !.pc = "tx", !.pre = Doc,
                                          !.epoch = access.epoch, !.target = Content(v.state)]]
        BY <1>3 DEF StartRestore
    <2> DEFINE x == [Idle EXCEPT !.op = "restore", !.pc = "tx", !.pre = Doc,
                                 !.epoch = access.epoch, !.target = Content(v.state)]
    <2>2. x.pc = "tx" /\ x.op = "restore" /\ ~x.hit
        BY IdleFields
    <2>3. req' = [req EXCEPT ![c] = x] /\ req[c].pc = "idle" /\ UNCHANGED <<docVars, kind, versions>>
        BY <1>3, <2>1 DEF StartRestore
    <2> HIDE DEF x
    <2> QED BY <2>2, <2>3, EarlyOn DEF docVars
<1>4. CASE StartSave(c)
    <2> DEFINE x == [Idle EXCEPT !.op = "save", !.pc = "tx", !.pre = Doc]
    <2>1. x.pc = "tx" /\ x.op = "save" /\ ~x.hit
        BY IdleFields
    <2>2. req' = [req EXCEPT ![c] = x] /\ req[c].pc = "idle" /\ UNCHANGED <<docVars, kind, versions>>
        BY <1>4 DEF StartSave
    <2> HIDE DEF x
    <2> QED BY <2>1, <2>2, EarlyOn DEF docVars
<1>5. CASE SaveTx(c)
    BY <1>5, Codes, EarlyEnd DEF SaveTx, docVars
<1>6. CASE DenyTx(c)
    <2>1. PICK code \in {403, 409} : End(c, code)
        BY <1>6 DEF DenyTx
    <2>2. code # 200
        OBVIOUS
    <2> QED BY <1>6, <2>1, <2>2, EarlyEnd DEF DenyTx, docVars
<1>7. CASE EditTx(c)
    BY <1>7, <1>9 DEF EditTx, docVars
<1>8. CASE RestoreTx(c)
    <2>0. req[c].pc = "tx" /\ UNCHANGED kind
        BY <1>8 DEF RestoreTx
    <2>1. ASSUME NEW code \in {409, 413}, End(c, code), UNCHANGED <<docVars, versions>> PROVE Early(c)
        <3>1. code # 200
            OBVIOUS
        <3> QED BY <2>0, <2>1, <3>1, EarlyEnd DEF docVars
    <2>2. CASE /\ versions' = versions \cup {Row(c, "marker")}
               /\ Touch(c)
               /\ req' = [req EXCEPT ![c] = [@ EXCEPT !.pc = "apply", !.passed = TRUE, !.pre = NoState]]
        BY <1>9, <2>0, <2>2 DEF Touch
    <2> QED BY <1>8, <2>1, <2>2 DEF RestoreTx
<1> QED BY <1>1, <1>2, <1>3, <1>4, <1>5, <1>6, <1>7, <1>8

\* Tokens of writes that stood already differ still.
LEMMA TokensKept ==
    ASSUME IInv, kind' = kind,
           \A c \in Callers : Stands(c)' => Stands(c) /\ req'[c].base = req[c].base /\ req'[c].op = req[c].op
    PROVE  TokensOK'
BY DEF IInv, TokensOK, Moves

\* Stores that nobody awaits come and go; the awaited ones stay, and so do their requests.
LEMMA StoresKept ==
    ASSUME IInv,
           \A c \in Callers : req[c].pc \in Waiting => req'[c] = req[c],
           \A c \in Callers : req'[c].pc \in Waiting => req[c].pc \in Waiting,
           \A s \in stores' : s \in stores \/ s.for = None,
           \A s \in stores : s.for # None => s \in stores'
    PROVE  StoresOK'
<1>1. \A s \in stores' : StoreOK(s)'
    BY DEF IInv, StoresOK, StoreOK
<1>2. \A s, t \in stores' : s.for # None /\ s.for = t.for => s = t
    BY DEF IInv, StoresOK
<1>3. \A c \in Callers : req'[c].pc \in Waiting => \E s \in stores' : s.for = c
    <2> SUFFICES ASSUME NEW c \in Callers, req'[c].pc \in Waiting PROVE \E s \in stores' : s.for = c
        OBVIOUS
    <2>1. PICK s \in stores : s.for = c
        BY DEF IInv, StoresOK
    <2>2. c # None
        BY NamesAssumption, UsersAssumption
    <2> QED BY <2>1, <2>2
<1> QED BY <1>1, <1>2, <1>3 DEF StoresOK

\* Nothing happens to the requests and their snapshots.
LEMMA Around ==
    ASSUME IInv, NodeOK', StoresOK', UNCHANGED <<kind, versions, req>>, Below(row, row'),
           Loaded(Owner) /\ Loaded(Owner)' => Below(Doc, Doc')
    PROVE  RequestsOK' /\ TokensOK'
<1>1. ASSUME NEW c \in Callers PROVE MarksOK(c)' /\ WriteOK(c)' /\ (Stands(c)' => Stands(c))
    <2>1. MarkersOf(c)' = MarkersOf(c)
        BY DEF MarkersOf
    <2>2. req[c].pc = "flush" => Loaded(Owner) /\ Loaded(Owner)'
        BY DEF IInv, NodeOK, StoresOK, Waiting
    <2> QED BY <2>1, <2>2, KeptOK DEF IInv, RequestsOK
<1>2. RequestsOK'
    BY <1>1 DEF RequestsOK
<1>3. TokensOK'
    BY <1>1, TokensKept
<1> QED BY <1>2, <1>3

\* One caller's request writes to the live document or is refused there: its store joins
\* the others.
LEMMA AwaitedStore ==
    ASSUME IInv, NEW c \in Callers, req[c].pc = "apply", NEW s, s.for = c,
           stores' = stores \cup {s}, req'[c].pc \in Waiting,
           req'[c].pc = "flush" => s.doc = req'[c].left,
           \A d \in Callers \ {c} : req'[d] = req[d]
    PROVE  StoresOK'
<1>0. c # None /\ req[c].pc \notin Waiting
    BY NamesAssumption, UsersAssumption DEF Waiting
<1>1. \A t \in stores : t.for # c
    BY <1>0 DEF IInv, StoresOK, StoreOK
<1>2. \A t \in stores' : StoreOK(t)'
    <2>1. StoreOK(s)'
        BY DEF StoreOK
    <2>2. ASSUME NEW t \in stores PROVE StoreOK(t)'
        BY <1>1 DEF IInv, StoresOK, StoreOK
    <2> QED BY <2>1, <2>2
<1>3. \A t, u \in stores' : t.for # None /\ t.for = u.for => t = u
    BY <1>1 DEF IInv, StoresOK
<1>4. \A d \in Callers : req'[d].pc \in Waiting => \E t \in stores' : t.for = d
    BY DEF IInv, StoresOK
<1> QED BY <1>2, <1>3, <1>4 DEF StoresOK

\* A live write: base is the vector of the document it changed, and with every write that
\* stands the document has moved past that write's token.
LEMMA WriteStep ==
    ASSUME IInv, TypeOK', NodeOK', NEW c \in Callers, req[c].pc = "apply",
           NEW texts \in SUBSET (Texts \cup {Mark}), NEW gone,
           DirectWrite(Owner, c, texts, gone), Applied(c, Vector(Doc)), UNCHANGED <<kind, versions>>,
           req[c].op = "edit" => Vector(Doc) = req[c].base,
           Moves(c) => Mark \in texts
    PROVE  StoresOK' /\ RequestsOK' /\ TokensOK'
<1>0. Owner \in Nodes /\ req[c] \in Request /\ WriteOK(c) /\ MarksOK(c)
    BY OwnerAssumption DEF IInv, TypeOK, RequestsOK
<1>1. /\ Loaded(Owner) /\ Loaded(Owner)' /\ Doc' = Changed(Doc, texts, gone)
      /\ Below(Doc, Doc') /\ row' = row
    BY <1>0, TransactStep DEF IInv, TypeOK, DirectWrite
<1>2. \A d \in Callers \ {c} : req'[d] = req[d]
    BY OwnRequest DEF Applied, IInv
<1>3. /\ req'[c].pc = "flush" /\ req'[c].op = req[c].op /\ req'[c].base = Vector(Doc)
      /\ req'[c].hit /\ req'[c].left = Doc'
    <2>1. PICK x : x = [req[c] EXCEPT !.pc = "flush", !.hit = TRUE, !.base = Vector(Doc), !.left = live'[Owner]]
        OBVIOUS
    <2>2. req'[c] = x
        BY <2>1, OwnRequest DEF Applied, IInv
    <2> QED BY <1>0, <2>1, <2>2 DEF Request, Doc
<1>4. StoresOK'
    <2>1. PICK s : s = [node |-> Owner, doc |-> Changed(Doc, texts, gone), by |-> c, for |-> c]
        OBVIOUS
    <2>2. stores' = stores \cup {s} /\ s.for = c /\ s.doc = Doc'
        BY <1>1, <2>1 DEF DirectWrite, Capture, Doc
    <2> QED BY <1>2, <1>3, <2>2, AwaitedStore DEF Waiting
<1>5. \A d \in Callers : MarkersOf(d)' = MarkersOf(d)
    BY DEF MarkersOf
<1>6. ASSUME NEW d \in Callers \ {c} PROVE MarksOK(d)' /\ WriteOK(d)' /\ (Stands(d)' => Stands(d))
    <2>1. Below(row, row')
        BY <1>1 DEF Below
    <2> QED BY <1>1, <1>2, <1>5, <2>1, KeptOK DEF IInv, RequestsOK
<1>7. MarksOK(c)'
    <2>1. req[c].op = "edit" => UndoAt(c)'
        BY <1>0, <1>3, <1>5 DEF MarksOK, UndoAt
    <2> QED BY <1>3, <2>1 DEF MarksOK
\* The counter's struct is new: its transaction is.
<1>8. Moves(c)' => ~(req'[c].left.ins \subseteq req'[c].base)
    <2> SUFFICES ASSUME Moves(c)' PROVE ~((Doc').ins \subseteq Doc.ins)
        BY <1>3 DEF Vector
    <2>1. Mark \in texts
        BY <1>3 DEF Moves
    <2>2. Struct(clock + 1, Mark) \in (Doc').ins
        BY <1>1, <2>1 DEF Changed
    <2>3. Struct(clock + 1, Mark) \notin Doc.ins
        <3>1. Struct(clock + 1, Mark).tx = clock + 1 /\ clock \in 0..MaxTx
            BY DEF Struct, IInv, TypeOK, DocTypeOK
        <3>2. ~(clock + 1 <= clock)
            BY <3>1, BoundAssumption
        <3> QED BY <1>1, <3>1, <3>2 DEF IInv, NodeOK, Past
    <2> QED BY <2>2, <2>3
<1>9. WriteOK(c)'
    <2>1. Below(req'[c].left, Doc')
        BY <1>3 DEF Below
    <2> QED BY <1>3, <1>8, <2>1 DEF WriteOK, Answered, Stands
<1>10. TokensOK'
    <2>1. ASSUME NEW d \in Callers \ {c}, Stands(d)', Moves(d)' PROVE req'[d].base # req'[c].base
        <3>1. Stands(d) /\ Moves(d) /\ WriteOK(d)
            BY <1>2, <1>6, <2>1 DEF Moves, IInv, RequestsOK
        <3>2. ~(req[d].left.ins \subseteq req[d].base)
            BY <3>1 DEF WriteOK
        <3>3. Below(req[d].left, Doc)
            <4>1. CASE req[d].pc = "flush"
                BY <3>1, <4>1 DEF WriteOK
            <4>2. CASE Answered(d)
                <5>1. Below(req[d].left, row)
                    BY <3>1, <4>2 DEF WriteOK
                <5> QED BY <1>1, <5>1, BelowSteps DEF IInv, NodeOK
            <4> QED BY <3>1, <4>1, <4>2 DEF Stands
        <3> QED BY <1>2, <1>3, <3>2, <3>3 DEF Below, Vector
    <2>2. ASSUME NEW d \in Callers \ {c}, NEW e \in Callers \ {c}, d # e, Stands(d)', Stands(e)', Moves(d)', Moves(e)'
          PROVE  req'[d].base # req'[e].base
        <3>1. Stands(d) /\ Stands(e) /\ Moves(d) /\ Moves(e)
            BY <1>2, <1>6, <2>2 DEF Moves
        <3> QED BY <1>2, <2>2, <3>1 DEF IInv, TokensOK
    <2> QED BY <2>1, <2>2 DEF TokensOK
<1>11. RequestsOK'
    BY <1>6, <1>7, <1>9 DEF RequestsOK
<1> QED BY <1>4, <1>10, <1>11

\* The awaited store ends, and the request with it.
LEMMA FlushStep ==
    ASSUME IInv, TypeOK', NodeOK', FlushEnds
    PROVE  StoresOK' /\ RequestsOK' /\ TokensOK'
<1>1. PICK s \in stores : s.for # None /\ StoreEnds(s)
    BY DEF FlushEnds
<1>2. PICK c \in Callers : c = s.for
    BY <1>1 DEF IInv, StoresOK, StoreOK
<1>3. req[c].pc \in Waiting /\ (req[c].pc = "flush" => s.doc = req[c].left) /\ StoreOK(s)
    BY <1>1, <1>2 DEF IInv, StoresOK, StoreOK
<1>4. WriteOK(c) /\ MarksOK(c) /\ req[c] \in Request
    BY DEF IInv, RequestsOK, TypeOK
<1>5. /\ stores' = stores \ {s} /\ live' = live /\ kind' = kind
      /\ row' = row \/ row' = FinalState(row, s.doc)
    BY <1>1 DEF FlushEnds, StoreEnds, CommitStore, FailStore
<1>6. Below(row, row')
    BY <1>5, FinalStateAbove DEF Below
<1>7. PICK code : End(c, code)
    BY <1>1, <1>2 DEF StoreEnds
<1>8. req'[c] = Ended(req[c], code) /\ \A d \in Callers \ {c} : req'[d] = req[d]
    BY <1>7, OwnRequest DEF End, IInv
<1>9. \A d \in Callers \ {c} : MarkersOf(d)' = MarkersOf(d)
    BY <1>1, <1>2 DEF StoreEnds, AfterFailure, Drop, MarkersOf
<1>10. MarksOK(c)' /\ WriteOK(c)' /\ (Stands(c)' => Stands(c))
    <2>0. req[c].pc # "done" /\ MarkersOf(c) = {v \in versions : v.kind = "marker" /\ v.id = c}
        BY <1>3 DEF Waiting, MarkersOf
    <2>1. CASE CommitStore(s) /\ req[c].pc = "refused"
               /\ End(c, req[c].status) /\ versions' = Drop(c)
        <3>1. req'[c] = Ended(req[c], req[c].status)
            BY <2>1, OwnRequest DEF End, IInv
        <3>2. MarkersOf(c)' = {}
            BY <2>1 DEF MarkersOf, Drop
        <3>3. ~req[c].hit /\ req[c].status # 200
            BY <1>4, <2>1, Codes DEF WriteOK
        <3> QED BY <1>4, <1>5, <2>0, <3>1, <3>2, <3>3, EndedOK DEF IInv
    <2>2. CASE CommitStore(s) /\ req[c].pc = "flush" /\ End(c, 200) /\ versions' = versions
        <3>0. PICK ok : End(c, ok) /\ ok \notin Refusals
            BY <2>2, Codes
        <3>1. req'[c] = Ended(req[c], ok)
            BY <3>0, OwnRequest DEF End, IInv
        <3>2. MarkersOf(c)' = MarkersOf(c)
            BY <2>2 DEF MarkersOf
        <3>3. req[c].hit /\ Below(req[c].left, row')
            BY <1>3, <1>4, <2>2, FinalStateAbove DEF WriteOK, CommitStore
        <3> QED BY <1>4, <1>5, <2>0, <3>0, <3>1, <3>2, <3>3, EndedOK DEF IInv
    <2>3. CASE End(c, 500) /\ versions' = AfterFailure(c)
        <3>0. PICK failed : End(c, failed) /\ failed \notin Refusals /\ failed # 200
            BY <2>3, Codes
        <3>1. req'[c] = Ended(req[c], failed)
            BY <3>0, OwnRequest DEF End, IInv
        <3>2. kind # "document" => MarkersOf(c)' = MarkersOf(c)
            BY <2>3 DEF MarkersOf, AfterFailure
        <3> QED BY <1>4, <1>5, <2>0, <3>0, <3>1, <3>2, EndedOK DEF IInv
    <2> QED BY <1>1, <1>2, <1>3, <2>1, <2>2, <2>3 DEF StoreEnds, Waiting
<1>11. StoresOK'
    <2>1. req'[c].pc = "done"
        BY <1>4, <1>8, EndedFields
    <2>2. \A t \in stores' : t.for # c
        BY <1>1, <1>2, <1>5 DEF IInv, StoresOK
    <2>3. \A t \in stores' : StoreOK(t)'
        BY <1>5, <1>8, <2>2 DEF IInv, StoresOK, StoreOK
    <2>4. \A t, u \in stores' : t.for # None /\ t.for = u.for => t = u
        BY <1>5 DEF IInv, StoresOK
    <2>5. \A d \in Callers : req'[d].pc \in Waiting => \E t \in stores' : t.for = d
        BY <1>2, <1>5, <1>8, <2>1 DEF IInv, StoresOK, Waiting
    <2> QED BY <2>3, <2>4, <2>5 DEF StoresOK
<1>12. ASSUME NEW d \in Callers \ {c} PROVE MarksOK(d)' /\ WriteOK(d)' /\ (Stands(d)' => Stands(d))
    <2>1. Below(Doc, Doc')
        BY <1>5 DEF Doc, Below
    <2> QED BY <1>5, <1>6, <1>8, <1>9, <2>1, KeptOK DEF IInv, RequestsOK
<1>13. RequestsOK'
    BY <1>10, <1>12 DEF RequestsOK
<1>14. TokensOK'
    <2>1. ASSUME NEW d \in Callers, Stands(d)'
          PROVE  Stands(d) /\ req'[d].base = req[d].base /\ req'[d].op = req[d].op
        <3>1. CASE d = c
            BY <1>4, <1>8, <1>10, <2>1, <3>1, EndedFields DEF Stands
        <3>2. CASE d # c
            BY <1>8, <1>12, <2>1, <3>2
        <3> QED BY <3>1, <3>2
    <2> QED BY <1>5, <2>1, TokensKept
<1> QED BY <1>11, <1>13, <1>14

\* The process dies: nothing is stored any more, and every request under way is over.
LEMMA CrashStep ==
    ASSUME IInv, TypeOK', NodeOK', Crash
    PROVE  StoresOK' /\ RequestsOK' /\ TokensOK'
<1>1. stores' = {} /\ row' = row /\ UNCHANGED <<kind, versions>>
    <2>1. \A s \in stores : s.node = Owner
        BY DEF IInv, OwnerOnly
    <2> QED BY <2>1 DEF Crash, Restart
<1>2. ASSUME NEW c \in Callers
      PROVE  /\ MarksOK(c)' /\ WriteOK(c)' /\ (Stands(c)' => Stands(c))
             /\ req'[c].pc \notin Waiting
             /\ Stands(c)' => req'[c].base = req[c].base /\ req'[c].op = req[c].op
    <2>0. WriteOK(c) /\ MarksOK(c) /\ req[c] \in Request
        BY DEF IInv, RequestsOK, TypeOK
    <2>1. MarkersOf(c)' = MarkersOf(c)
        BY <1>1 DEF MarkersOf
    <2>2. CASE req[c].pc \in {"idle", "read", "done"}
        <3>1. req'[c] = req[c]
            BY <2>2 DEF Crash
        <3>2. Below(row, row') /\ req[c].pc # "flush"
            BY <1>1, <2>2 DEF Below
        <3> QED BY <1>1, <2>0, <2>1, <2>2, <3>1, <3>2, KeptOK DEF Waiting
    <2>3. CASE req[c].pc \notin {"idle", "read", "done"}
        <3>1. req'[c] = Ended(req[c], 0)
            BY <2>3 DEF Crash
        <3>2. MarksOK(c)' /\ WriteOK(c)' /\ (Stands(c)' => Stands(c))
            BY <1>1, <2>0, <2>1, <2>3, <3>1, Codes, EndedOK DEF IInv
        <3>3. req'[c].pc = "done" /\ ~Stands(c)'
            BY <2>0, <3>1, Codes, EndedFields DEF Stands, Answered
        <3> QED BY <3>2, <3>3 DEF Waiting
    <2> QED BY <2>2, <2>3
<1>3. StoresOK'
    BY <1>1, <1>2 DEF StoresOK
<1>4. RequestsOK'
    BY <1>2 DEF RequestsOK
<1>5. TokensOK'
    BY <1>1, <1>2, TokensKept
<1> QED BY <1>3, <1>4, <1>5

\* The guard or a check refuses an edit on the live document.
LEMMA RefuseStep ==
    ASSUME IInv, TypeOK', NodeOK', NEW c \in Callers, RefuseEdit(c)
    PROVE  StoresOK' /\ RequestsOK' /\ TokensOK'
<1>0. req[c] \in Request /\ WriteOK(c) /\ MarksOK(c) /\ req[c].pc = "apply"
    BY DEF IInv, TypeOK, RequestsOK, RefuseEdit
<1>1. PICK code \in Guards : req' = [req EXCEPT ![c] = [@ EXCEPT !.pc = "refused", !.status = code]]
    BY ZenonT(60) DEF RefuseEdit, Guards
<1>2. /\ req'[c].pc = "refused" /\ req'[c].op = req[c].op
      /\ req'[c].hit = req[c].hit /\ req'[c].status = code
    <2>1. PICK x : x = [req[c] EXCEPT !.pc = "refused", !.status = code]
        OBVIOUS
    <2>2. req'[c] = x
        BY <1>1, <2>1, OwnRequest DEF IInv
    <2> QED BY <1>0, <2>1, <2>2 DEF Request
<1>3. \A d \in Callers \ {c} : req'[d] = req[d]
    BY <1>1, OwnRequest DEF IInv
<1>4. /\ Loaded(Owner) /\ Capture(Owner, Doc, c, c)
      /\ UNCHANGED <<clock, row, live, loading, kind, versions>>
    BY DEF RefuseEdit, WriterFlush, Doc
<1>5. StoresOK'
    <2>1. PICK s : s = [node |-> Owner, doc |-> Doc, by |-> c, for |-> c]
        OBVIOUS
    <2>2. stores' = stores \cup {s} /\ s.for = c
        BY <1>4, <2>1 DEF Capture
    <2> QED BY <1>0, <1>2, <1>3, <2>2, AwaitedStore DEF Waiting
<1>6. \A d \in Callers : MarkersOf(d)' = MarkersOf(d)
    BY <1>4 DEF MarkersOf
<1>7. ASSUME NEW d \in Callers \ {c} PROVE MarksOK(d)' /\ WriteOK(d)' /\ (Stands(d)' => Stands(d))
    <2>1. Below(row, row') /\ Below(Doc, Doc')
        BY <1>4 DEF Below, Doc
    <2> QED BY <1>3, <1>4, <1>6, <2>1, KeptOK DEF IInv, RequestsOK
<1>8. ~req'[c].hit
    BY <1>0, <1>2 DEF WriteOK
<1>9. MarksOK(c)' /\ WriteOK(c)' /\ ~Stands(c)'
    BY <1>2, <1>8 DEF MarksOK, WriteOK, Stands, Answered
<1>10. RequestsOK'
    BY <1>7, <1>9 DEF RequestsOK
<1>11. TokensOK'
    BY <1>3, <1>4, <1>7, <1>9, TokensKept
<1> QED BY <1>5, <1>10, <1>11

\* The steps of a request before it writes.
LEMMA EarlyStep ==
    ASSUME IInv, NEW c \in Callers, Early(c)
    PROVE  StoresOK' /\ RequestsOK' /\ TokensOK'
<1>1. ASSUME NEW d \in Callers PROVE MarksOK(d)' /\ WriteOK(d)' /\ (Stands(d)' => Stands(d))
    <2>1. Below(row, row') /\ Below(Doc, Doc')
        BY DEF Early, Below, Doc
    <2>2. CASE d # c
        BY <2>1, <2>2, KeptOK DEF Early, IInv, RequestsOK
    <2> QED BY <2>2 DEF Early
<1>2. ~Stands(c)
    BY DEF Early, Stands, Answered
<1>3. TokensOK'
    BY <1>1, <1>2, TokensKept DEF Early
<1>4. StoresOK'
    BY StoresKept DEF Early, Waiting
<1>5. RequestsOK'
    BY <1>1 DEF RequestsOK
<1> QED BY <1>3, <1>4, <1>5

\* A connected client, a store nobody awaits, a role, or nothing at all.
LEMMA OtherSteps ==
    ASSUME IInv, NodeOK', Below(row, row'), Loaded(Owner) /\ Loaded(Owner)' => Below(Doc, Doc'),
           \/ Storing
           \/ \E u \in Clients : ClientEdit(u)
           \/ \E c \in Demoted, r \in Roles : ChangeRole(c, r)
           \/ UNCHANGED vars
    PROVE  StoresOK' /\ RequestsOK' /\ TokensOK'
<1>1. UNCHANGED <<kind, versions, req>>
    BY DEF Storing, ClientEdit, ChangeRole, vars
<1>2. \A s \in stores' : s \in stores \/ s.for = None
    <2>1. ASSUME NEW n, NEW doc, NEW by, Capture(n, doc, by, None), NEW s \in stores' PROVE s \in stores \/ s.for = None
        BY <2>1 DEF Capture
    <2> QED BY <2>1 DEF Storing, ClientEdit, ChangeRole, vars, docVars, ClientWrite, Fetch, Hydrate,
                       DebouncedStore, ReaderFlush, Unload, CommitStore, FailStore
<1>3. \A s \in stores : s.for # None => s \in stores'
    <2>1. ASSUME NEW n, NEW doc, NEW by, Capture(n, doc, by, None) PROVE stores \subseteq stores'
        BY <2>1 DEF Capture
    <2> QED BY <2>1 DEF Storing, ClientEdit, ChangeRole, vars, docVars, ClientWrite, Fetch, Hydrate,
                       DebouncedStore, ReaderFlush, Unload, CommitStore, FailStore
<1>4. StoresOK'
    BY <1>1, <1>2, <1>3, StoresKept
<1> QED BY <1>1, <1>4, Around

LEMMA WriteSteps ==
    ASSUME IInv, TypeOK', NodeOK', NEW c \in Callers, ApplyEdit(c) \/ ApplyRestore(c)
    PROVE  StoresOK' /\ RequestsOK' /\ TokensOK'
<1>1. CASE ApplyEdit(c)
    <2>1. PICK texts \in {{}} \cup {{t} : t \in Texts}, gone \in {{}} \cup {{s} : s \in Visible(Doc)} :
             DirectWrite(Owner, c, Advance(texts), gone)
        BY <1>1 DEF ApplyEdit
    <2>2. Advance(texts) \in SUBSET (Texts \cup {Mark}) /\ Mark \in Advance(texts)
        BY DEF Advance
    <2>3. req[c].pc = "apply" /\ Vector(Doc) = req[c].base /\ UNCHANGED <<kind, versions>> /\ Applied(c, Vector(Doc))
        BY <1>1 DEF ApplyEdit
    <2> QED BY <2>1, <2>2, <2>3, WriteStep
<1>2. CASE ApplyRestore(c)
    <2> DEFINE texts == Reconciled(req[c].target \ Content(Doc))
               gone  == {s \in Visible(Doc) : s.text \notin req[c].target \cup {Mark}}
    <2>1. /\ DirectWrite(Owner, c, texts, gone) /\ Applied(c, Vector(Doc))
          /\ req[c].pc = "apply" /\ req[c].op = "restore" /\ UNCHANGED <<kind, versions>>
        BY <1>2 DEF ApplyRestore
    <2>2. texts \in SUBSET (Texts \cup {Mark})
        BY DEF Reconciled, Advance, IInv, TypeOK, Request
    <2>3. Moves(c) => Mark \in texts
        BY <2>1 DEF Moves, Reconciled, Advance
    <2> HIDE DEF texts, gone
    <2> QED BY <2>1, <2>2, <2>3, WriteStep
<1> QED BY <1>1, <1>2

LEMMA IInvStep ==
    ASSUME IInv, [Next]_vars
    PROVE  IInv'
<1>1. TypeOK' /\ [DocNext]_docVars
    BY TypeStep, StepMaps DEF IInv
<1>5. OwnerOnly'
    BY OwnerOnlyStep DEF IInv
<1>2. NodeOK' /\ (Loaded(Owner) /\ Loaded(Owner)' => Below(Doc, Doc'))
    BY <1>1, <1>5, NodeStep DEF IInv, TypeOK
<1>3. Below(row, row')
    BY <1>1, RowStep, FinalStateAbove DEF Below
<1>4. StoresOK' /\ RequestsOK' /\ TokensOK'
    <2>1. ASSUME NEW c \in Callers,
                 \/ GetBase(c) \/ Preflight(c) \/ StartRestore(c) \/ StartSave(c)
                 \/ SaveTx(c) \/ DenyTx(c) \/ EditTx(c) \/ RestoreTx(c)
          PROVE  StoresOK' /\ RequestsOK' /\ TokensOK'
        BY <2>1, EarlySteps, EarlyStep
    <2>2. ASSUME NEW c \in Callers, ApplyEdit(c) \/ RefuseEdit(c) \/ ApplyRestore(c)
          PROVE  StoresOK' /\ RequestsOK' /\ TokensOK'
        BY <1>1, <1>2, <2>2, WriteSteps, RefuseStep
    <2>3. CASE FlushEnds
        BY <1>1, <1>2, <2>3, FlushStep
    <2>4. ASSUME Crash PROVE StoresOK' /\ RequestsOK' /\ TokensOK'
        BY <1>1, <1>2, <2>4, CrashStep
    <2>5. CASE \/ Storing
               \/ \E u \in Clients : ClientEdit(u)
               \/ \E c \in Demoted, r \in Roles : ChangeRole(c, r)
               \/ UNCHANGED vars
        BY <1>2, <1>3, <2>5, OtherSteps
    <2> QED BY <2>1, <2>2, <2>3, <2>4, <2>5 DEF Next
<1> QED BY <1>1, <1>2, <1>4, <1>5 DEF IInv

LEMMA IInvInit == Init => IInv
<1> SUFFICES ASSUME Init PROVE IInv
    OBVIOUS
<1>1. Owner \in Nodes
    BY OwnerAssumption
<1>2. NodeOK
    <2>1. live[Owner] = None /\ loading[Owner] = None /\ stores = {}
        BY <1>1 DEF Init, DocInit
    <2>2. Past(row)
        BY DEF Init, DocInit, Past, Struct
    <2> QED BY <2>1, <2>2 DEF NodeOK, Loaded
<1>7. OwnerOnly
    BY DEF Init, DocInit, OwnerOnly, Loaded
<1>3. \A c \in Callers : req[c].pc = "idle" /\ ~req[c].hit
    BY IdleFields DEF Init
<1>4. StoresOK
    BY <1>3 DEF Init, DocInit, StoresOK, Waiting
<1>5. \A c \in Callers : MarkersOf(c) = {}
    BY DEF Init, MarkersOf
<1>6. RequestsOK /\ TokensOK
    BY <1>3, <1>5 DEF RequestsOK, TokensOK, MarksOK, WriteOK, Stands, Answered
<1> QED BY <1>2, <1>4, <1>6, <1>7, TypeInit DEF IInv

LEMMA Invariant == Spec => []IInv
<1>1. IInv /\ [Next]_vars => IInv'
    BY IInvStep
<1> QED BY IInvInit, <1>1, PTL DEF Spec

\* Of two edits answered 200 no two were guarded by one token, and none by a token read
\* before a restore that was answered 200 (advanceEditVersion, liveDocWrite.ts).
THEOREM TokensGuardOneWrite == Spec => []OneWritePerToken
<1>1. IInv => OneWritePerToken
    <2> SUFFICES ASSUME IInv, NEW c \in Callers, NEW d \in Callers, c # d, Answered(c), Answered(d),
                        kind = "board" => req[c].op = req[d].op, req[c].op = "edit"
                 PROVE  req[c].base # req[d].base
        BY DEF OneWritePerToken
    <2>1. Stands(c) /\ Stands(d)
        BY DEF IInv, RequestsOK, WriteOK, Stands
    <2>2. Moves(c) /\ Moves(d)
        BY DEF Moves
    <2> QED BY <2>1, <2>2 DEF IInv, TokensOK
<1> QED BY <1>1, Invariant, PTL

\* 200 is sent after the store: what an answered write left of the document is in the row.
THEOREM AnswersAreStored == Spec => []AnsweredIsStored
<1>1. IInv => AnsweredIsStored
    BY DEF IInv, RequestsOK, WriteOK, AnsweredIsStored
<1> QED BY <1>1, Invariant, PTL

\* An edit of a sheet or a board that changed the live document keeps its safety snapshot,
\* taken at the state the edit changed.
THEOREM UndoStands == Spec => []UndoKept
<1>1. IInv => UndoKept
    BY DEF IInv, RequestsOK, MarksOK, UndoKept, UndoAt, Markers, MarkersOf
<1> QED BY <1>1, Invariant, PTL

\* A request refused by a guard changed nothing and leaves no restore point behind.
THEOREM RefusalsLeaveNothing == Spec => []RefusedLeavesNothing
<1>1. IInv => RefusedLeavesNothing
    BY DEF IInv, RequestsOK, MarksOK, WriteOK, RefusedLeavesNothing, Refusals, Markers, MarkersOf
<1> QED BY <1>1, Invariant, PTL

-----------------------------------------------------------------------------
(* Automatic versions. Somebody is always in charge of the latest content: *)
(* it is safe, or a frame with it is being written, or the node that       *)
(* stored it has a handler waiting for a lock or a timer to start one.     *)
(* A timer's frame cannot miss its lock: whoever takes it after the timer  *)
(* was armed writes a frame that has all that the timer is for.            *)

TimerSet == [at : Int, due : Nat]
EntrySet == [store : Int, auto : Int, stored : Nat, frame : Nat, timer : SUBSET TimerSet]
OpSet == [pc : {"none", "lock", "encode", "prune"}, at : Int, stored : Nat, content : Nat, id : Nat,
          orphan : BOOLEAN]
VersionSet == [id : Nat, kind : {"auto", "named"}, content : Nat]

AutoTypeOK ==
    /\ now \in Nat /\ content \in Nat /\ lastId \in Nat /\ givenUp \in Nat
    /\ state \in [Servers -> EntrySet]
    /\ timers \in [Servers -> SUBSET TimerSet]
    /\ op \in [Servers -> [Handlers -> OpSet]]
    /\ locks \in [{"mininterval", "idle"} -> Nat]
    /\ rows \subseteq VersionSet

\* The rows of frames, and the frames inserted and not committed.
AutoRows == {r \in rows : r.kind = "auto"}
Writing == {o \in {op[n][k] : n \in Servers, k \in Handlers} : o.pc = "prune"}
Frames == AutoRows \cup Writing

FramesGrow ==
    /\ \A f \in Frames : f.id <= lastId /\ f.content <= content
    /\ \A f, g \in Frames : f.id < g.id => f.content <= g.content

Safe == content = 0 \/ givenUp >= content \/ \E r \in AutoRows : r.content = content

InFlight ==
    \E n \in Servers, k \in Handlers :
        op[n][k].pc = "encode" \/ (op[n][k].pc = "prune" /\ op[n][k].content = content)

InCharge(n) ==
    /\ state[n].stored = content
    /\ \/ op[n]["store"].pc = "lock" /\ ~op[n]["store"].orphan /\ op[n]["store"].stored = content
       \/ op[n]["idle"].pc = "lock" /\ op[n]["idle"].stored = content /\ locks["idle"] <= now
       \/ op[n]["unload"].pc = "lock"
       \/ \E t \in timers[n] : t.at = state[n].store /\ locks["idle"] <= t.due

EntryOK(n) ==
    /\ state[n].stored <= content /\ state[n].frame <= content
    /\ state[n].stored # 0 => Tracked(n)
    /\ state[n].frame = content => Safe

AutoInv ==
    /\ AutoTypeOK
    /\ locks["idle"] <= now + IdleMs
    /\ FramesGrow
    /\ \A n \in Servers : EntryOK(n)
    /\ Safe \/ InFlight \/ \E n \in Servers : InCharge(n)


-----------------------------------------------------------------------------

LEMMA MaxOfTwo ==
    ASSUME NEW a \in Int, NEW b \in Int
    PROVE  Max({a, b}) \in {a, b} /\ Max({a, b}) >= a /\ Max({a, b}) >= b
<1> DEFINE top == IF a >= b THEN a ELSE b
<1>1. top \in {a, b} /\ \A y \in {a, b} : top >= y
    OBVIOUS
<1>2. Max({a, b}) \in {a, b} /\ \A y \in {a, b} : Max({a, b}) >= y
    <2> HIDE DEF top
    <2> QED BY <1>1 DEF Max
<1> QED BY <1>2

LEMMA GivenUpGrows ==
    ASSUME AutoTypeOK, NEW c \in Nat, GiveUp(c)
    PROVE  givenUp' \in Nat /\ givenUp' >= givenUp /\ givenUp' >= c
<1>1. givenUp \in Int /\ c \in Int /\ givenUp \in Nat
    BY DEF AutoTypeOK
<1> QED BY <1>1, MaxOfTwo DEF GiveUp

LEMMA ServerIs ==
    ASSUME AutoTypeOK, NEW n \in Servers
    PROVE  /\ state[n] \in EntrySet /\ timers[n] \in SUBSET TimerSet /\ NoEntry \in EntrySet /\ NoOp \in OpSet
           /\ \A k \in Handlers : op[n][k] \in OpSet
           /\ IdleMs \in Nat /\ IdleMs > 0 /\ MinIntervalMs \in Nat /\ MinIntervalMs > 0 /\ Never \in Int /\ Never < 0
<1>1. IdleMs \in Nat /\ IdleMs > 0 /\ MinIntervalMs \in Nat /\ MinIntervalMs > 0
    BY AutoAssumption
<1>2. Never \in Int /\ Never < 0
    BY <1>1 DEF Never
<1>3. NoEntry \in EntrySet /\ NoOp \in OpSet
    BY <1>2 DEF NoEntry, NoOp, EntrySet, OpSet
<1> QED BY <1>1, <1>2, <1>3 DEF AutoTypeOK

\* One handler has moved on.
OpMoves(n, k, o) ==
    /\ op' \in [Servers -> [Handlers -> OpSet]]
    /\ op'[n][k] = o
    /\ \A j \in Handlers \ {k} : op'[n][j] = op[n][j]
    /\ \A m \in Servers \ {n} : op'[m] = op[m]

LEMMA SetMoves ==
    ASSUME AutoTypeOK, NEW n \in Servers, NEW k \in Handlers, NEW o \in OpSet, Set(n, k, o)
    PROVE  OpMoves(n, k, o)
<1>1. op' = [op EXCEPT ![n] = [op[n] EXCEPT ![k] = o]]
    BY DEF Set, AutoTypeOK
<1> QED BY <1>1 DEF AutoTypeOK, OpMoves

\* An entry is dropped: the unload ends, and what else is under way has lost it.
Drops(n) ==
    /\ op' \in [Servers -> [Handlers -> OpSet]] /\ state' \in [Servers -> EntrySet]
    /\ state'[n] = NoEntry /\ op'[n]["unload"] = NoOp
    /\ \A j \in Handlers : op'[n][j] = NoOp \/
          (op'[n][j].pc = op[n][j].pc /\ op'[n][j].id = op[n][j].id /\ op'[n][j].content = op[n][j].content)
    /\ \A j \in Handlers \ {"unload"} : op'[n][j].pc = op[n][j].pc
    /\ \A m \in Servers \ {n} : op'[m] = op[m] /\ state'[m] = state[m]

LEMMA DroppedDrops ==
    ASSUME AutoTypeOK, NEW n \in Servers, Dropped(n)
    PROVE  Drops(n)
<1> DEFINE new(k) == IF k = "unload" \/ op[n][k].pc = "none" THEN NoOp ELSE [op[n][k] EXCEPT !.orphan = TRUE]
<1>1. state' = [state EXCEPT ![n] = NoEntry] /\ op' = [op EXCEPT ![n] = [k \in Handlers |-> new(k)]]
    BY DEF Dropped, AutoTypeOK
<1>2. \A k \in Handlers : /\ new(k) \in OpSet
                          /\ new(k) = NoOp \/ (new(k).pc = op[n][k].pc /\ new(k).id = op[n][k].id /\ new(k).content = op[n][k].content)
                          /\ k # "unload" => new(k).pc = op[n][k].pc
    BY ServerIs DEF OpSet, NoOp
<1>3. new("unload") = NoOp /\ "unload" \in Handlers
    BY DEF Handlers
<1> HIDE DEF new
<1> QED BY <1>1, <1>2, <1>3, ServerIs DEF AutoTypeOK, Drops

\* Frames after a step are frames before it.
LEMMA FramesStay ==
    ASSUME AutoInv, content' = content, lastId' \in Nat, lastId' >= lastId,
           \A f \in Frames' : \E g \in Frames : g.id = f.id /\ g.content = f.content
    PROVE  FramesGrow'
<1>1. lastId \in Nat /\ \A f \in Frames : f.id \in Nat /\ f.content \in Nat
    <2>1. \A n \in Servers, k \in Handlers : op[n][k] \in OpSet
        BY ServerIs DEF AutoInv
    <2> QED BY <2>1 DEF AutoInv, AutoTypeOK, Frames, AutoRows, Writing, VersionSet, OpSet
<1>2. ASSUME NEW f \in Frames' PROVE f.id <= lastId' /\ f.content <= content'
    BY <1>1, <1>2 DEF AutoInv, FramesGrow
<1>3. ASSUME NEW f \in Frames', NEW g \in Frames', f.id < g.id PROVE f.content <= g.content
    <2>1. PICK a \in Frames, b \in Frames :
             a.id = f.id /\ a.content = f.content /\ b.id = g.id /\ b.content = g.content
        OBVIOUS
    <2> QED BY <1>3, <2>1 DEF AutoInv, FramesGrow
<1> QED BY <1>2, <1>3 DEF FramesGrow

LEMMA EntryStays ==
    ASSUME AutoInv, content' = content, Safe => Safe', NEW n \in Servers, state'[n] \in EntrySet,
           \/ state'[n] = NoEntry
           \/ /\ state'[n].stored = state[n].stored /\ state'[n].store = state[n].store
              /\ \/ state'[n].frame = state[n].frame
                 \/ state'[n].frame <= content /\ (state'[n].frame = content => Safe')
    PROVE  EntryOK(n)'
<1>0. content \in Nat
    BY DEF AutoInv, AutoTypeOK
<1>1. CASE state'[n] = NoEntry
    BY <1>0, <1>1 DEF NoEntry, EntryOK, Safe
<1>2. CASE state'[n] # NoEntry
    BY <1>0, <1>2 DEF AutoInv, EntryOK, Tracked
<1> QED BY <1>1, <1>2

\* A step of one node that stores nothing.
LEMMA ServerStep ==
    ASSUME AutoInv, AutoTypeOK', UNCHANGED <<content, now>>, locks'["idle"] <= now' + IdleMs, FramesGrow',
           Safe => Safe', InFlight => Safe' \/ InFlight',
           NEW n \in Servers,
           \A m \in Servers \ {n} : state'[m] = state[m] /\ timers'[m] = timers[m] /\ op'[m] = op[m],
           \/ state'[n] = NoEntry
           \/ /\ state'[n].stored = state[n].stored /\ state'[n].store = state[n].store
              /\ \/ state'[n].frame = state[n].frame
                 \/ state'[n].frame <= content /\ (state'[n].frame = content => Safe'),
           locks'["idle"] = locks["idle"] \/ InFlight',
           InCharge(n) => Safe' \/ InFlight' \/ InCharge(n)'
    PROVE  AutoInv'
<1>1. \A m \in Servers : EntryOK(m)'
    <2>1. SUFFICES ASSUME NEW m \in Servers PROVE EntryOK(m)'
        OBVIOUS
    <2>2. state'[m] \in EntrySet
        BY DEF AutoTypeOK
    <2>3. CASE m = n
        BY <2>2, <2>3, EntryStays
    <2>4. CASE m # n
        BY <2>2, <2>4, EntryStays
    <2> QED BY <2>3, <2>4
<1>2. ASSUME NEW m \in Servers, InCharge(m) PROVE Safe' \/ InFlight' \/ InCharge(m)'
    BY <1>2 DEF InCharge
<1> QED BY <1>1, <1>2 DEF AutoInv

LEMMA SafeStays ==
    ASSUME AutoInv, content' = content, rows \subseteq rows', givenUp' \in Nat, givenUp' >= givenUp
    PROVE  Safe => Safe'
<1>1. content \in Nat /\ givenUp \in Nat
    BY DEF AutoInv, AutoTypeOK
<1>2. AutoRows \subseteq AutoRows'
    BY DEF AutoRows
<1> QED BY <1>1, <1>2 DEF Safe

\* A handler waits for a lock, or ends without a frame.
LEMMA QuietStep ==
    ASSUME AutoInv, AutoTypeOK', UNCHANGED <<content, now, rows, lastId, locks>>, givenUp' >= givenUp,
           NEW n \in Servers, NEW k \in Handlers, NEW o, OpMoves(n, k, o),
           o.pc \in {"none", "lock"}, op[n][k].pc \in {"none", "lock"},
           \A m \in Servers \ {n} : state'[m] = state[m] /\ timers'[m] = timers[m],
           state'[n].stored = state[n].stored /\ state'[n].store = state[n].store /\ state'[n].frame = state[n].frame,
           InCharge(n) => Safe' \/ InCharge(n)'
    PROVE  AutoInv'
<1>1. \A m \in Servers, j \in Handlers : op'[m][j] = op[m][j] \/ (m = n /\ j = k)
    BY DEF OpMoves
<1>2. FramesGrow'
    <2>1. \A f \in Frames' : f \in Frames
        BY <1>1 DEF Frames, AutoRows, Writing, OpMoves
    <2> QED BY <2>1, FramesStay DEF AutoInv, AutoTypeOK
<1>3. Safe => Safe'
    BY SafeStays DEF AutoTypeOK
<1>4. InFlight => InFlight'
    BY <1>1 DEF InFlight
<1>5. locks'["idle"] <= now' + IdleMs
    BY DEF AutoInv
<1> QED BY <1>2, <1>3, <1>4, <1>5, ServerStep DEF OpMoves

\* An entry goes: its content is safe by then, or given up.
LEMMA DropStep ==
    ASSUME AutoInv, AutoTypeOK', UNCHANGED <<content, now, lastId, locks>>,
           NEW n \in Servers, Drops(n), \A m \in Servers \ {n} : timers'[m] = timers[m],
           FramesGrow', Safe => Safe', InFlight => Safe' \/ InFlight',
           state[n].stored = content => Safe'
    PROVE  AutoInv'
<1>1. locks'["idle"] <= now' + IdleMs
    BY DEF AutoInv
<1>2. InCharge(n) => Safe'
    BY DEF InCharge
<1> QED BY <1>1, <1>2, ServerStep DEF Drops

LEMMA DropFrames ==
    ASSUME AutoInv, UNCHANGED <<content, rows, lastId>>, NEW n \in Servers, Drops(n)
    PROVE  FramesGrow'
<1>1. ASSUME NEW f \in Frames' PROVE \E g \in Frames : g.id = f.id /\ g.content = f.content
    <2>1. CASE f \in AutoRows'
        BY <2>1 DEF AutoRows, Frames
    <2>2. CASE f \notin AutoRows'
        <3>1. PICK m \in Servers, j \in Handlers : f = op'[m][j] /\ f.pc = "prune"
            BY <2>2 DEF Frames, Writing
        <3>2. op[m][j].pc = "prune" /\ op[m][j].id = f.id /\ op[m][j].content = f.content
            BY <3>1 DEF Drops, NoOp
        <3> QED BY <3>2 DEF Frames, Writing
    <2> QED BY <2>1, <2>2
<1>2. lastId \in Nat
    BY DEF AutoInv, AutoTypeOK
<1> QED BY <1>1, <1>2, FramesStay

LEMMA DropFlight ==
    ASSUME NEW n \in Servers, Drops(n), content' = content, op[n]["unload"].pc \notin {"encode", "prune"}
    PROVE  InFlight => InFlight'
<1>1. ASSUME NEW m \in Servers, NEW j \in Handlers, op[m][j].pc \in {"encode", "prune"}
      PROVE  op'[m][j].pc = op[m][j].pc /\ op'[m][j].content = op[m][j].content
    BY <1>1 DEF Drops, NoOp
<1> QED BY <1>1 DEF InFlight

-----------------------------------------------------------------------------
(* The steps.                                                              *)

LEMMA RearmedTimer ==
    ASSUME AutoTypeOK, NEW n \in Servers, NEW s \in EntrySet, NEW at \in Int, Rearmed(n, s, at)
    PROVE  /\ state' \in [Servers -> EntrySet] /\ timers' \in [Servers -> SUBSET TimerSet]
           /\ state'[n].store = s.store /\ state'[n].stored = s.stored /\ state'[n].frame = s.frame
           /\ \E t \in timers'[n] : t.at = at /\ t.due = now + IdleMs
           /\ \A m \in Servers \ {n} : state'[m] = state[m] /\ timers'[m] = timers[m]
<1> DEFINE t == [at |-> at, due |-> now + IdleMs]
           e == [s EXCEPT !.timer = {t}]
<1>1. t \in TimerSet /\ t.at = at /\ t.due = now + IdleMs
    BY ServerIs DEF AutoTypeOK, TimerSet
<1>2. e \in EntrySet /\ e.store = s.store /\ e.stored = s.stored /\ e.frame = s.frame
    <2> HIDE DEF t
    <2> QED BY <1>1 DEF EntrySet
<1>3. state' = [state EXCEPT ![n] = e] /\ timers' = [timers EXCEPT ![n] = (timers[n] \ s.timer) \cup {t}]
    BY DEF Rearmed, AutoTypeOK
<1> HIDE DEF t, e
<1> QED BY <1>1, <1>2, <1>3 DEF AutoTypeOK

LEMMA AfterStoreStep ==
    ASSUME AutoInv, NEW n \in Servers, AfterStore(n)
    PROVE  AutoInv'
<1>0. /\ content \in Nat /\ now \in Nat /\ content' = content + 1 /\ content' \in Nat
      /\ UNCHANGED <<now, locks, rows, lastId, told, givenUp, faults>> /\ "store" \in Handlers
      /\ op[n]["store"].pc = "none"
    <2>1. content \in Nat /\ now \in Nat
        BY DEF AutoInv, AutoTypeOK
    <2>2. content' = content + 1 /\ op[n]["store"].pc = "none"
          /\ UNCHANGED <<now, locks, rows, lastId, told, givenUp, faults>>
        BY DEF AfterStore, Running
    <2> QED BY <2>1, <2>2 DEF Handlers
<1>1. PICK c \in Nat : c = content'
    BY <1>0
<1> DEFINE s == [state[n] EXCEPT !.store = now, !.stored = c]
           o == [NoOp EXCEPT !.pc = "lock", !.at = now, !.stored = c]
<1>2. s \in EntrySet /\ s.store = now /\ s.stored = c /\ s.frame = state[n].frame
    <2>1. state[n] \in EntrySet
        BY ServerIs DEF AutoInv
    <2>2. s = [[state[n] EXCEPT !.store = now] EXCEPT !.stored = c]
        BY <2>1 DEF EntrySet
    <2> HIDE DEF s
    <2>3. now \in Int
        BY <1>0
    <2> QED BY <2>1, <2>2, <2>3 DEF EntrySet
<1>3. o \in OpSet /\ o.pc = "lock" /\ o.stored = c /\ ~o.orphan
    <2>0. now \in Int
        BY <1>0
    <2>1. o \in OpSet
        BY <2>0 DEF NoOp, OpSet
    <2>2. o.pc = "lock" /\ o.stored = c /\ o.orphan = FALSE
        BY DEF NoOp
    <2> QED BY <2>1, <2>2
<1>4. \/ state' = [state EXCEPT ![n] = s] /\ Set(n, "store", o) /\ UNCHANGED timers
      \/ Rearmed(n, s, now) /\ UNCHANGED op
    BY <1>1 DEF AfterStore
<1> HIDE DEF s, o
<1>5. /\ state' \in [Servers -> EntrySet] /\ timers' \in [Servers -> SUBSET TimerSet]
      /\ state'[n].store = now /\ state'[n].stored = c /\ state'[n].frame = state[n].frame
      /\ \A m \in Servers \ {n} : state'[m] = state[m]
    <2>1. CASE state' = [state EXCEPT ![n] = s] /\ UNCHANGED timers
        BY <1>2, <2>1 DEF AutoInv, AutoTypeOK
    <2>2. CASE Rearmed(n, s, now)
        BY <1>0, <1>2, <2>2, RearmedTimer DEF AutoInv
    <2> QED BY <1>4, <2>1, <2>2
<1>6. /\ op' \in [Servers -> [Handlers -> OpSet]]
      /\ \A m \in Servers, j \in Handlers : op'[m][j] = op[m][j] \/ op'[m][j].pc = "lock"
    <2>1. CASE Set(n, "store", o)
        BY <1>0, <1>3, <2>1, SetMoves DEF AutoInv, OpMoves
    <2>2. CASE UNCHANGED op
        BY <2>2 DEF AutoInv, AutoTypeOK
    <2> QED BY <1>4, <2>1, <2>2
<1>7. AutoTypeOK'
    BY <1>0, <1>5, <1>6 DEF AutoInv, AutoTypeOK
<1>8. FramesGrow'
    <2>1. \A f \in Frames' : f \in Frames
        BY <1>0, <1>6 DEF Frames, AutoRows, Writing
    <2>2. \A f \in Frames : f.content \in Nat
        BY ServerIs DEF AutoInv, AutoTypeOK, Frames, AutoRows, Writing, VersionSet, OpSet
    <2> QED BY <1>0, <2>1, <2>2 DEF AutoInv, FramesGrow
<1>9. ASSUME NEW m \in Servers PROVE EntryOK(m)'
    <2>1. state[m] \in EntrySet /\ state[m].stored <= content /\ state[m].frame <= content
          /\ (state[m].stored # 0 => Tracked(m)) /\ Never < 0 /\ Never \in Int
        BY ServerIs DEF AutoInv, EntryOK
    <2>2. state[m].stored \in Nat /\ state[m].frame \in Nat
        BY <2>1 DEF EntrySet
    <2>3. CASE m = n
        BY <1>0, <1>1, <1>5, <2>1, <2>2, <2>3 DEF EntryOK, Tracked
    <2>4. CASE m # n
        BY <1>0, <1>1, <1>5, <2>1, <2>2, <2>4 DEF EntryOK, Tracked
    <2> QED BY <2>3, <2>4
<1>10. InCharge(n)'
    <2>1. CASE Set(n, "store", o)
        BY <1>0, <1>1, <1>3, <1>5, <2>1, SetMoves DEF AutoInv, OpMoves, InCharge
    <2>2. CASE Rearmed(n, s, now)
        <3>1. PICK t \in timers'[n] : t.at = now /\ t.due = now + IdleMs
            BY <1>0, <1>2, <2>2, RearmedTimer DEF AutoInv
        <3> QED BY <1>0, <1>1, <1>5, <3>1 DEF AutoInv, InCharge
    <2> QED BY <1>4, <2>1, <2>2
<1>11. locks'["idle"] <= now' + IdleMs
    BY <1>0 DEF AutoInv
<1> QED BY <1>7, <1>8, <1>9, <1>10, <1>11 DEF AutoInv

\* A timer that fires has its lock to itself, if nobody took it since it was armed.
LEMMA FireIdleStep ==
    ASSUME AutoInv, NEW n \in Servers, FireIdle(n)
    PROVE  AutoInv'
<1>1. PICK t \in timers[n] :
         /\ t.due <= now
         /\ timers' = [timers EXCEPT ![n] = timers[n] \ {t}]
         /\ IF Tracked(n) THEN state' = [state EXCEPT ![n] = [state[n] EXCEPT !.timer = {}]] ELSE UNCHANGED state
         /\ IF Tracked(n) /\ state[n].store = t.at
            THEN Set(n, "idle", [NoOp EXCEPT !.pc = "lock", !.stored = state[n].stored])
            ELSE UNCHANGED op
    BY DEF FireIdle, AutoInv, AutoTypeOK
<1>2. UNCHANGED <<now, content, locks, rows, lastId, told, givenUp, faults>> /\ op[n]["idle"].pc = "none"
      /\ "idle" \in Handlers
    BY DEF FireIdle, Running, Handlers
<1>3. /\ state' \in [Servers -> EntrySet] /\ \A m \in Servers \ {n} : state'[m] = state[m]
      /\ state'[n].stored = state[n].stored /\ state'[n].store = state[n].store /\ state'[n].frame = state[n].frame
    <2>1. state[n] \in EntrySet
        BY ServerIs DEF AutoInv
    <2> QED BY <1>1, <2>1 DEF AutoInv, AutoTypeOK, EntrySet
<1>4. /\ timers' \in [Servers -> SUBSET TimerSet] /\ timers'[n] = timers[n] \ {t}
      /\ \A m \in Servers \ {n} : timers'[m] = timers[m]
    BY <1>1 DEF AutoInv, AutoTypeOK
<1> DEFINE o == [NoOp EXCEPT !.pc = "lock", !.stored = state[n].stored]
<1>5. o \in OpSet /\ o.pc = "lock" /\ o.stored = state[n].stored
    <2>1. state[n].stored \in Nat
        BY ServerIs DEF AutoInv, EntrySet
    <2>2. NoOp \in OpSet
        BY ServerIs DEF AutoInv
    <2>3. o = [[NoOp EXCEPT !.pc = "lock"] EXCEPT !.stored = state[n].stored]
        BY <2>2 DEF OpSet
    <2> HIDE DEF o
    <2> QED BY <2>1, <2>2, <2>3 DEF OpSet
<1>6. CASE Tracked(n) /\ state[n].store = t.at
    <2>1. OpMoves(n, "idle", o)
        <3>1. Set(n, "idle", o)
            BY <1>1, <1>6
        <3> HIDE DEF o
        <3> QED BY <1>2, <1>5, <3>1, SetMoves DEF AutoInv
    <2> HIDE DEF o
    <2>2. AutoTypeOK'
        BY <1>2, <1>3, <1>4, <2>1 DEF AutoInv, AutoTypeOK, OpMoves
    <2>3. InCharge(n) => InCharge(n)'
        <3>1. t \in TimerSet /\ t.due <= now /\ t.at = state[n].store
            BY <1>1, <1>6, ServerIs DEF AutoInv
        <3>2. ASSUME InCharge(n), locks["idle"] <= now PROVE InCharge(n)'
            BY <1>2, <1>3, <1>5, <2>1, <3>2 DEF InCharge, OpMoves
        <3>3. ASSUME InCharge(n), ~(locks["idle"] <= now) PROVE InCharge(n)'
            <4>1. /\ now \in Nat /\ locks["idle"] \in Nat /\ t.due \in Nat
                BY <3>1 DEF AutoInv, AutoTypeOK, TimerSet
            <4>2. ~(locks["idle"] <= t.due)
                BY <3>1, <3>3, <4>1
            <4>3. \A x \in timers[n] : locks["idle"] <= x.due => x \in timers'[n]
                BY <1>4, <4>2
            <4>4. op'[n]["store"] = op[n]["store"] /\ op'[n]["unload"] = op[n]["unload"]
                BY <2>1 DEF OpMoves, Handlers
            <4> QED BY <1>2, <1>3, <3>3, <4>3, <4>4 DEF InCharge
        <3> QED BY <3>2, <3>3
    <2> QED BY <1>2, <1>3, <1>4, <1>5, <2>1, <2>2, <2>3, QuietStep DEF AutoInv, AutoTypeOK
<1>7. CASE ~(Tracked(n) /\ state[n].store = t.at)
    <2>1. OpMoves(n, "idle", op[n]["idle"])
        BY <1>1, <1>7 DEF OpMoves, AutoInv, AutoTypeOK
    <2>2. AutoTypeOK'
        BY <1>2, <1>3, <1>4, <2>1 DEF AutoInv, AutoTypeOK, OpMoves
    <2>3. InCharge(n) => Safe' \/ InCharge(n)'
        <3>1. CASE Tracked(n)
            <4>1. \A x \in timers[n] : x.at = state[n].store => x \in timers'[n]
                BY <1>4, <1>7, <3>1
            <4> QED BY <1>1, <1>2, <1>3, <1>7, <4>1 DEF InCharge
        <3>2. CASE ~Tracked(n)
            BY <1>2, <3>2 DEF InCharge, AutoInv, EntryOK, Safe
        <3> QED BY <3>1, <3>2
    <2> QED BY <1>2, <1>3, <1>4, <2>1, <2>2, <2>3, QuietStep DEF AutoInv, AutoTypeOK
<1> QED BY <1>6, <1>7

LEMMA BeforeUnloadStep ==
    ASSUME AutoInv, NEW n \in Servers, BeforeUnload(n)
    PROVE  AutoInv'
<1>1. /\ UNCHANGED <<now, content, locks, rows, lastId, told, faults>> /\ "unload" \in Handlers
      /\ op[n]["unload"].pc = "none" /\ timers' = [timers EXCEPT ![n] = timers[n] \ state[n].timer]
    BY DEF BeforeUnload, Running, Handlers, AutoInv, AutoTypeOK
<1>2. timers' \in [Servers -> SUBSET TimerSet] /\ \A m \in Servers \ {n} : timers'[m] = timers[m]
    BY <1>1 DEF AutoInv, AutoTypeOK
<1>3. state[n] \in EntrySet /\ state[n].stored \in Nat /\ state[n].frame \in Nat
    BY ServerIs DEF AutoInv, EntrySet
<1>4. CASE state[n].store > state[n].auto
    <2> DEFINE o == [NoOp EXCEPT !.pc = "lock"]
    <2>1. o \in OpSet /\ o.pc = "lock"
        <3>1. NoOp \in OpSet
            BY ServerIs DEF AutoInv
        <3> QED BY <3>1 DEF OpSet
    <2>2. OpMoves(n, "unload", o)
        <3>1. Set(n, "unload", o)
            BY <1>4 DEF BeforeUnload
        <3> HIDE DEF o
        <3> QED BY <1>1, <2>1, <3>1, SetMoves DEF AutoInv
    <2> HIDE DEF o
    <2>3. /\ state' \in [Servers -> EntrySet] /\ \A m \in Servers \ {n} : state'[m] = state[m]
          /\ state'[n].stored = state[n].stored /\ state'[n].store = state[n].store
          /\ state'[n].frame = state[n].frame /\ givenUp' = givenUp
        <3>1. state' = [state EXCEPT ![n] = [state[n] EXCEPT !.timer = {}]] /\ givenUp' = givenUp
            BY <1>4 DEF BeforeUnload, AutoInv, AutoTypeOK
        <3> QED BY <1>3, <3>1 DEF AutoInv, AutoTypeOK, EntrySet
    <2>4. AutoTypeOK'
        BY <1>1, <1>2, <2>2, <2>3 DEF AutoInv, AutoTypeOK, OpMoves
    <2>5. InCharge(n) => InCharge(n)'
        BY <1>1, <2>1, <2>2, <2>3 DEF InCharge, OpMoves
    <2> QED BY <1>1, <1>2, <2>1, <2>2, <2>3, <2>4, <2>5, QuietStep DEF AutoInv, AutoTypeOK
<1>5. CASE ~(state[n].store > state[n].auto)
    <2>1. Drops(n)
        BY <1>5, DroppedDrops DEF BeforeUnload, AutoInv
    <2>2. IF state[n].frame < state[n].stored THEN GiveUp(state[n].stored) ELSE UNCHANGED givenUp
        BY <1>5 DEF BeforeUnload
    <2>3. givenUp' \in Nat /\ givenUp' >= givenUp /\ (state[n].frame < state[n].stored => givenUp' >= state[n].stored)
        BY <1>3, <2>2, GivenUpGrows DEF AutoInv, AutoTypeOK
    <2>4. AutoTypeOK'
        BY <1>1, <1>2, <2>1, <2>3 DEF AutoInv, AutoTypeOK, Drops
    <2>5. Safe => Safe'
        BY <1>1, <2>3, SafeStays
    <2>6. state[n].stored = content => Safe'
        <3>1. CASE state[n].frame < state[n].stored
            BY <1>1, <2>3, <3>1 DEF Safe
        <3>2. CASE ~(state[n].frame < state[n].stored)
            <4>1. state[n].stored = content => state[n].frame = content
                <5>1. content \in Nat /\ state[n].frame <= content
                    BY DEF AutoInv, AutoTypeOK, EntryOK
                <5> QED BY <1>3, <3>2, <5>1
            <4> QED BY <2>5, <4>1 DEF AutoInv, EntryOK
        <3> QED BY <3>1, <3>2
    <2>7. InFlight => InFlight'
        BY <1>1, <2>1, DropFlight
    <2>8. FramesGrow'
        BY <1>1, <2>1, DropFrames
    <2> QED BY <1>1, <1>2, <2>1, <2>4, <2>5, <2>6, <2>7, <2>8, DropStep
<1> QED BY <1>4, <1>5

\* A store or an idle timer ends: a store arms a timer, unless its entry is gone.
LEMMA FinishEnds ==
    ASSUME AutoTypeOK, NEW n \in Servers, NEW k \in Handlers, NEW w \in Nat, Finish(n, k, w), k # "unload"
    PROVE  /\ OpMoves(n, k, NoOp) /\ givenUp' = givenUp
           /\ state' \in [Servers -> EntrySet] /\ timers' \in [Servers -> SUBSET TimerSet]
           /\ \A m \in Servers \ {n} : state'[m] = state[m] /\ timers'[m] = timers[m]
           /\ state'[n].stored = state[n].stored /\ state'[n].store = state[n].store
           /\ state'[n].frame \in {state[n].frame, w} /\ (w = 0 => state'[n].frame = state[n].frame)
           /\ \/ timers[n] \subseteq timers'[n] /\ (k = "store" => op[n][k].orphan)
              \/ \E t \in timers'[n] : t.at = state[n].store /\ t.due = now + IdleMs
<1> DEFINE s == IF w # 0 THEN [state[n] EXCEPT !.auto = now, !.frame = w] ELSE state[n]
<1>0. state[n] \in EntrySet /\ NoOp \in OpSet /\ now \in Nat /\ IdleMs \in Nat /\ now \in Int
    BY ServerIs DEF AutoTypeOK
<1>1. s \in EntrySet /\ s.store = state[n].store /\ s.stored = state[n].stored /\ s.frame \in {state[n].frame, w}
      /\ (w = 0 => s.frame = state[n].frame)
    <2>1. [state[n] EXCEPT !.auto = now, !.frame = w] = [[state[n] EXCEPT !.auto = now] EXCEPT !.frame = w]
        BY <1>0 DEF EntrySet
    <2> DEFINE e == [[state[n] EXCEPT !.auto = now] EXCEPT !.frame = w]
    <2>2. e \in EntrySet /\ e.store = state[n].store /\ e.stored = state[n].stored /\ e.frame = w
        BY <1>0 DEF EntrySet
    <2> QED BY <1>0, <2>1, <2>2
<1>2. CASE k = "store" /\ ~op[n][k].orphan
    <2>1. Rearmed(n, s, s.store) /\ Ends(n, k) /\ UNCHANGED givenUp
        BY <1>2 DEF Finish
    <2> HIDE DEF s
    <2>2. s.store \in Int
        BY <1>1 DEF EntrySet
    <2>3. OpMoves(n, k, NoOp)
        BY <1>0, <2>1, SetMoves DEF Ends
    <2> QED BY <1>1, <2>1, <2>2, <2>3, RearmedTimer
<1>3. CASE k = "store" /\ op[n][k].orphan
    <2>1. /\ timers' = [timers EXCEPT ![n] = timers[n] \cup {[at |-> op[n][k].at, due |-> now + IdleMs]}]
          /\ Ends(n, k) /\ UNCHANGED <<state, givenUp>>
        BY <1>3 DEF Finish, AutoTypeOK
    <2>2. [at |-> op[n][k].at, due |-> now + IdleMs] \in TimerSet
        <3>1. op[n][k].at \in Int
            BY ServerIs DEF OpSet
        <3> QED BY <1>0, <3>1 DEF TimerSet
    <2>3. OpMoves(n, k, NoOp)
        BY <1>0, <2>1, SetMoves DEF Ends
    <2> QED BY <1>3, <2>1, <2>2, <2>3 DEF AutoTypeOK
<1>4. CASE k = "idle"
    <2>1. Ends(n, k) /\ UNCHANGED <<timers, givenUp>> /\ \E e \in {s, state[n]} : state' = [state EXCEPT ![n] = e]
        BY <1>4 DEF Finish, AutoTypeOK
    <2> HIDE DEF s
    <2>2. OpMoves(n, k, NoOp)
        BY <1>0, <2>1, SetMoves DEF Ends
    <2> QED BY <1>0, <1>1, <1>4, <2>1, <2>2 DEF AutoTypeOK
<1> QED BY <1>2, <1>3, <1>4 DEF Handlers

LEMMA FinishDrops ==
    ASSUME AutoTypeOK, NEW n \in Servers, NEW w \in Nat, Finish(n, "unload", w)
    PROVE  /\ Drops(n) /\ UNCHANGED timers /\ givenUp' \in Nat /\ givenUp' >= givenUp
           /\ w < state[n].stored => givenUp' >= state[n].stored
<1>1. /\ Dropped(n) /\ UNCHANGED timers
      /\ IF w < state[n].stored THEN GiveUp(state[n].stored) ELSE UNCHANGED givenUp
    BY DEF Finish
<1>2. state[n].stored \in Nat
    BY ServerIs DEF EntrySet
<1> QED BY <1>1, <1>2, DroppedDrops, GivenUpGrows DEF AutoTypeOK

\* Who finds the lock held: the latest frame is being written, or a timer is armed, or the
\* entry goes with its content given up.
LEMMA AcquireStep ==
    ASSUME AutoInv, NEW n \in Servers, NEW k \in Handlers, Acquire(n, k)
    PROVE  AutoInv'
<1>0. /\ op[n][k].pc = "lock" /\ op[n][k] \in OpSet
      /\ UNCHANGED <<now, content, rows, lastId, told, faults>>
      /\ now \in Nat /\ lastId \in Nat /\ givenUp \in Nat /\ content \in Nat /\ IdleMs \in Nat /\ MinIntervalMs \in Nat
    BY ServerIs DEF Acquire, AutoInv, AutoTypeOK
<1> DEFINE key == KeyOf(k)
<1>1. CASE locks[key] <= now
    <2> DEFINE o == [op[n][k] EXCEPT !.pc = "encode"]
    <2>1. o \in OpSet /\ o.pc = "encode"
        BY <1>0 DEF OpSet
    <2>2. /\ locks' = [locks EXCEPT ![key] = now + Ttl(key)] /\ Set(n, k, o) /\ UNCHANGED <<state, timers, givenUp>>
        BY <1>1 DEF Acquire
    <2> HIDE DEF o
    <2>3. OpMoves(n, k, o)
        BY <2>1, <2>2, SetMoves DEF AutoInv
    <2>4. locks' \in [{"mininterval", "idle"} -> Nat] /\ locks'["idle"] <= now' + IdleMs
        BY <1>0, <2>2 DEF AutoInv, AutoTypeOK, Ttl, KeyOf
    <2>5. AutoTypeOK'
        BY <1>0, <2>2, <2>3, <2>4 DEF AutoInv, AutoTypeOK, OpMoves
    <2>6. InFlight'
        BY <2>1, <2>3 DEF InFlight, OpMoves
    <2>7. FramesGrow'
        <3>1. \A f \in Frames' : f \in Frames
            BY <1>0, <2>1, <2>3 DEF Frames, AutoRows, Writing, OpMoves
        <3> QED BY <1>0, <3>1, FramesStay
    <2>8. Safe => Safe'
        BY <1>0, <2>2, SafeStays
    <2> QED BY <1>0, <2>2, <2>3, <2>4, <2>5, <2>6, <2>7, <2>8, ServerStep DEF OpMoves
<1>2. CASE ~(locks[key] <= now) /\ k # "unload"
    <2>1. Finish(n, k, 0) /\ UNCHANGED locks
        BY <1>2 DEF Acquire
    <2>2. /\ OpMoves(n, k, NoOp) /\ givenUp' = givenUp
          /\ state' \in [Servers -> EntrySet] /\ timers' \in [Servers -> SUBSET TimerSet]
          /\ \A m \in Servers \ {n} : state'[m] = state[m] /\ timers'[m] = timers[m]
          /\ state'[n].stored = state[n].stored /\ state'[n].store = state[n].store /\ state'[n].frame = state[n].frame
          /\ \/ timers[n] \subseteq timers'[n] /\ (k = "store" => op[n][k].orphan)
             \/ \E t \in timers'[n] : t.at = state[n].store /\ t.due = now + IdleMs
        BY <1>2, <2>1, FinishEnds DEF AutoInv
    <2>3. AutoTypeOK'
        BY <1>0, <2>1, <2>2 DEF AutoInv, AutoTypeOK, OpMoves
    <2>4. InCharge(n) => InCharge(n)'
        <3>1. CASE \E t \in timers'[n] : t.at = state[n].store /\ t.due = now + IdleMs
            BY <1>0, <2>1, <2>2, <3>1 DEF InCharge, AutoInv
        <3>2. CASE timers[n] \subseteq timers'[n] /\ (k = "store" => op[n][k].orphan)
            <4>1. k = "idle" => ~(locks["idle"] <= now)
                BY <1>2 DEF KeyOf
            <4>2. /\ op'[n]["unload"] = op[n]["unload"]
                  /\ k # "store" => op'[n]["store"] = op[n]["store"]
                  /\ k # "idle" => op'[n]["idle"] = op[n]["idle"]
                BY <1>2, <2>2 DEF OpMoves, Handlers
            <4> QED BY <1>0, <2>1, <2>2, <3>2, <4>1, <4>2 DEF InCharge
        <3> QED BY <2>2, <3>1, <3>2
    <2>5. NoOp.pc = "none"
        BY DEF NoOp
    <2> QED BY <1>0, <2>1, <2>2, <2>3, <2>4, <2>5, QuietStep
<1>3. CASE ~(locks[key] <= now) /\ k = "unload"
    <2>1. Finish(n, "unload", 0) /\ UNCHANGED locks
        BY <1>3 DEF Acquire
    <2>2. Drops(n) /\ UNCHANGED timers /\ givenUp' \in Nat /\ givenUp' >= givenUp
          /\ (0 < state[n].stored => givenUp' >= state[n].stored)
        BY <2>1, FinishDrops DEF AutoInv
    <2>3. AutoTypeOK'
        BY <1>0, <2>1, <2>2 DEF AutoInv, AutoTypeOK, Drops
    <2>4. Safe => Safe'
        BY <1>0, <2>2, SafeStays
    <2>5. state[n].stored = content => Safe'
        BY <1>0, <2>2 DEF Safe
    <2>6. InFlight => InFlight'
        BY <1>0, <1>3, <2>2, DropFlight
    <2>7. FramesGrow'
        BY <1>0, <2>2, DropFrames
    <2> QED BY <1>0, <2>1, <2>2, <2>3, <2>4, <2>5, <2>6, <2>7, DropStep
<1> QED BY <1>1, <1>2, <1>3

\* A handler that fails in other than its lock gives everything up.
LEMMA CaughtStep ==
    ASSUME AutoInv, NEW n \in Servers, NEW k \in Handlers, op[n][k].pc # "none", Caught(n, k)
    PROVE  AutoInv'
<1>0. /\ op[n][k] \in OpSet /\ state[n] \in EntrySet /\ state[n].stored \in Nat /\ op[n][k].stored \in Nat
      /\ content \in Nat /\ lastId \in Nat /\ givenUp \in Nat /\ NoOp \in OpSet /\ NoOp.pc = "none"
    BY ServerIs DEF AutoInv, AutoTypeOK, EntrySet, OpSet, NoOp
<1>1. UNCHANGED <<now, content, timers, locks, rows, lastId, told>>
    BY DEF Caught
<1>2. /\ givenUp' \in Nat /\ givenUp' >= givenUp
      /\ op[n][k].pc # "lock" => givenUp' >= content
      /\ op[n][k].pc = "lock" => givenUp' >= IF k = "unload" THEN state[n].stored ELSE op[n][k].stored
    <2>1. CASE op[n][k].pc # "lock"
        BY <1>0, <2>1, GivenUpGrows DEF Caught, AutoInv
    <2>2. CASE op[n][k].pc = "lock" /\ k = "unload"
        BY <1>0, <2>2, GivenUpGrows DEF Caught, AutoInv
    <2>3. CASE op[n][k].pc = "lock" /\ k # "unload"
        BY <1>0, <2>3, GivenUpGrows DEF Caught, AutoInv
    <2> QED BY <2>1, <2>2, <2>3
<1>3. Safe => Safe'
    BY <1>1, <1>2, SafeStays
<1>4. op[n][k].pc # "lock" => Safe'
    BY <1>1, <1>2 DEF Safe
<1>5. CASE k = "unload"
    <2>1. Drops(n)
        BY <1>5, DroppedDrops DEF Caught, AutoInv
    <2>2. AutoTypeOK'
        BY <1>1, <1>2, <2>1 DEF AutoInv, AutoTypeOK, Drops
    <2>3. state[n].stored = content => Safe'
        BY <1>1, <1>2, <1>4, <1>5 DEF Safe
    <2>4. InFlight => Safe' \/ InFlight'
        BY <1>1, <1>4, <1>5, <2>1, DropFlight
    <2>5. FramesGrow'
        BY <1>1, <2>1, DropFrames
    <2> QED BY <1>1, <1>3, <2>1, <2>2, <2>3, <2>4, <2>5, DropStep
<1>6. CASE k # "unload"
    <2>1. Ends(n, k) /\ UNCHANGED state
        BY <1>6 DEF Caught
    <2>2. OpMoves(n, k, NoOp)
        BY <1>0, <2>1, SetMoves DEF Ends, AutoInv
    <2>3. AutoTypeOK'
        BY <1>1, <1>2, <2>1, <2>2 DEF AutoInv, AutoTypeOK, OpMoves
    <2>4. CASE op[n][k].pc = "lock"
        <3>1. InCharge(n) => Safe' \/ InCharge(n)'
            <4>1. op[n][k].stored = content => Safe'
                BY <1>1, <1>2, <1>6, <2>4 DEF Safe
            <4>2. \A j \in Handlers \ {k} : op'[n][j] = op[n][j]
                BY <2>2 DEF OpMoves
            <4> QED BY <1>1, <1>6, <2>1, <4>1, <4>2 DEF InCharge, Handlers
        <3> QED BY <1>0, <1>1, <1>2, <2>1, <2>2, <2>3, <2>4, <3>1, QuietStep
    <2>5. CASE op[n][k].pc # "lock"
        <3>1. FramesGrow'
            <4>1. \A f \in Frames' : f \in Frames
                BY <1>0, <1>1, <2>2 DEF Frames, AutoRows, Writing, OpMoves
            <4> QED BY <1>0, <1>1, <4>1, FramesStay
        <3>2. locks'["idle"] <= now' + IdleMs
            BY <1>1 DEF AutoInv
        <3> QED BY <1>1, <1>4, <2>1, <2>2, <2>3, <2>5, <3>1, <3>2, ServerStep DEF OpMoves
    <2> QED BY <2>4, <2>5
<1> QED BY <1>5, <1>6

LEMMA EncodeStep ==
    ASSUME AutoInv, NEW n \in Servers, NEW k \in Handlers, Encode(n, k)
    PROVE  AutoInv'
<1>0. /\ op[n][k] \in OpSet /\ lastId \in Nat /\ lastId' = lastId + 1 /\ content \in Nat
      /\ UNCHANGED <<now, content, state, timers, locks, rows, told, givenUp, faults>>
    BY ServerIs DEF Encode, AutoInv, AutoTypeOK
<1>1. PICK i \in Nat : i = lastId'
    BY <1>0
<1> DEFINE o == [op[n][k] EXCEPT !.pc = "prune", !.content = content, !.id = i]
<1>2. o \in OpSet /\ o.pc = "prune" /\ o.content = content /\ o.id = i
    <2>1. o = [[[op[n][k] EXCEPT !.pc = "prune"] EXCEPT !.content = content] EXCEPT !.id = i]
        BY <1>0 DEF OpSet
    <2> HIDE DEF o
    <2> QED BY <1>0, <2>1 DEF OpSet
<1>3. OpMoves(n, k, o)
    <2>1. Set(n, k, o)
        BY <1>1 DEF Encode
    <2> HIDE DEF o
    <2> QED BY <1>2, <2>1, SetMoves DEF AutoInv
<1> HIDE DEF o
<1>4. AutoTypeOK'
    BY <1>0, <1>3 DEF AutoInv, AutoTypeOK, OpMoves
<1>5. FramesGrow'
    <2>1. \A f \in Frames' : f \in Frames \/ f = o
        BY <1>0, <1>3 DEF Frames, AutoRows, Writing, OpMoves
    <2>2. \A f \in Frames : f.id \in Nat /\ f.content \in Nat /\ f.id <= lastId /\ f.content <= content
        <3>1. \A f \in Frames : f.id <= lastId /\ f.content <= content
            BY DEF AutoInv, FramesGrow
        <3> QED BY <3>1, ServerIs DEF AutoInv, AutoTypeOK, Frames, AutoRows, Writing, VersionSet, OpSet
    <2>3. ASSUME NEW f \in Frames' PROVE f.id <= lastId' /\ f.content <= content'
        BY <1>0, <1>1, <1>2, <2>1, <2>2, <2>3
    <2>4. ASSUME NEW f \in Frames', NEW g \in Frames', f.id < g.id PROVE f.content <= g.content
        <3>1. CASE f \in Frames /\ g \in Frames
            BY <2>4, <3>1 DEF AutoInv, FramesGrow
        <3>2. CASE g = o
            BY <1>0, <1>2, <2>1, <2>2, <3>2
        <3>3. CASE f = o /\ g \in Frames
            BY <1>0, <1>1, <1>2, <2>2, <2>4, <3>3
        <3> QED BY <2>1, <3>1, <3>2, <3>3
    <2> QED BY <2>3, <2>4 DEF FramesGrow
<1>6. InFlight'
    BY <1>0, <1>2, <1>3 DEF InFlight, OpMoves
<1>7. locks'["idle"] <= now' + IdleMs
    BY <1>0 DEF AutoInv
<1>8. Safe => Safe'
    BY <1>0 DEF Safe, AutoRows
<1> QED BY <1>0, <1>3, <1>4, <1>5, <1>6, <1>7, <1>8, ServerStep DEF OpMoves

\* Some number of a bounded set is the greatest.
LEMMA GreatestId ==
    ASSUME NEW S \in SUBSET Nat, S # {}, NEW b \in Nat, \A x \in S : x <= b
    PROVE  \E x \in S : \A y \in S : y <= x
<1> DEFINE below == {b - x : x \in S}
<1>1. below \in SUBSET Nat /\ below # {}
    <2>1. \A x \in S : b - x \in Nat
        OBVIOUS
    <2> QED BY <2>1
<1>2. PICK m \in below : \A d \in below : ~(<<d, m>> \in OpToRel(<, Nat))
    BY <1>1, NatLessThanWellFounded, WFMin
<1>3. PICK x \in S : m = b - x
    BY <1>2
<1>4. ASSUME NEW y \in S PROVE y <= x
    <2>1. b - y \in below /\ b - y \in Nat /\ m \in Nat
        BY <1>1
    <2>2. ~(b - y < m)
        <3>1. ~(<<b - y, m>> \in OpToRel(<, Nat))
            BY <1>2, <2>1
        <3> HIDE DEF below
        <3> QED BY <2>1, <3>1 DEF OpToRel
    <2> QED BY <1>3, <2>1, <2>2
<1> QED BY <1>4

\* Pruning keeps a frame of the latest content, whatever it deletes: frames are numbered in
\* the order of their contents.
LEMMA KeptLatest ==
    ASSUME NEW all \in SUBSET VersionSet, NEW last \in Nat, NEW c \in Nat,
           \A r \in all : r.kind = "auto" => r.id <= last /\ r.content <= c,
           \A r, s \in all : r.kind = "auto" /\ s.kind = "auto" /\ r.id < s.id => r.content <= s.content,
           \E r \in all : r.kind = "auto" /\ r.content = c
    PROVE  \E r \in Kept(all) : r.kind = "auto" /\ r.content = c
<1> DEFINE latest == {r \in all : r.kind = "auto" /\ r.content = c}
           ids == {r.id : r \in latest}
<1>1. ids \in SUBSET Nat /\ ids # {} /\ \A i \in ids : i <= last
    BY DEF VersionSet
<1>2. PICK i \in ids : \A j \in ids : j <= i
    <2> HIDE DEF ids
    <2> QED BY <1>1, GreatestId
<1>3. PICK r \in latest : r.id = i
    BY <1>2
<1>4. {x \in all : x.kind = "auto" /\ x.id > r.id} = {}
    <2>1. SUFFICES ASSUME NEW x \in all, x.kind = "auto", x.id > r.id PROVE FALSE
        OBVIOUS
    <2>2. x.id \in Nat /\ x.content \in Nat /\ r.id \in Nat /\ r \in all /\ r.kind = "auto" /\ r.content = c
        BY <1>3 DEF VersionSet
    <2>3. x.content = c
        BY <2>1, <2>2
    <2>4. x.id \in ids
        BY <2>1, <2>3
    <2> QED BY <1>2, <1>3, <2>1, <2>2, <2>4
<1>5. Max({1, RetainCount}) >= 1 /\ Max({1, RetainCount}) \in Nat
    <2>1. RetainCount \in Nat /\ RetainCount \in Int /\ 1 \in Int
        BY AutoAssumption
    <2>2. Max({1, RetainCount}) \in {1, RetainCount} /\ Max({1, RetainCount}) >= 1
        BY <2>1, MaxOfTwo
    <2> QED BY <2>1, <2>2
<1>6. Cardinality({x \in all : x.kind = "auto" /\ x.id > r.id}) < Max({1, RetainCount})
    BY <1>4, <1>5, FS_EmptySet
<1> QED BY <1>3, <1>6 DEF Kept

LEMMA CommitFrameStep ==
    ASSUME AutoInv, NEW n \in Servers, NEW k \in Handlers, Commit(n, k)
    PROVE  AutoInv'
<1> DEFINE o == op[n][k]
           new == [id |-> o.id, kind |-> "auto", content |-> o.content]
           all == rows \cup {new}
<1>0. /\ o \in OpSet /\ o.pc = "prune" /\ o.content \in Nat /\ o.id \in Nat
      /\ content \in Nat /\ lastId \in Nat /\ givenUp \in Nat /\ rows \subseteq VersionSet
      /\ UNCHANGED <<now, content, locks, lastId, told, faults>>
      /\ rows' = Kept(all) /\ Finish(n, k, o.content)
    BY ServerIs DEF Commit, AutoInv, AutoTypeOK, OpSet
<1>1. o \in Frames /\ o.content <= content /\ o.id <= lastId
    BY <1>0 DEF Frames, Writing, AutoInv, FramesGrow
<1>2. new \in VersionSet /\ new.id = o.id /\ new.kind = "auto" /\ new.content = o.content
    BY <1>0 DEF VersionSet
<1>3. rows' \subseteq VersionSet /\ rows' \subseteq all
    BY <1>0, <1>2 DEF Kept
<1> HIDE DEF o, new, all
<1>4. \A r \in all : r.kind = "auto" => \E f \in Frames : f.id = r.id /\ f.content = r.content
    BY <1>1, <1>2 DEF all, Frames, AutoRows
<1>5. (\E r \in all : r.kind = "auto" /\ r.content = content) => \E r \in AutoRows' : r.content = content
    <2> SUFFICES ASSUME \E r \in all : r.kind = "auto" /\ r.content = content
                 PROVE  \E r \in AutoRows' : r.content = content
        OBVIOUS
    <2>1. all \in SUBSET VersionSet
        BY <1>0, <1>2 DEF all
    <2>2. \A r \in all : r.kind = "auto" => r.id <= lastId /\ r.content <= content
        BY <1>4 DEF AutoInv, FramesGrow
    <2>3. \A r, s \in all : r.kind = "auto" /\ s.kind = "auto" /\ r.id < s.id => r.content <= s.content
        BY <1>4 DEF AutoInv, FramesGrow
    <2> QED BY <1>0, <2>1, <2>2, <2>3, KeptLatest DEF AutoRows
<1>6. ASSUME givenUp' \in Nat, givenUp' >= givenUp PROVE Safe => Safe'
    <2>1. (\E r \in AutoRows : r.content = content) => \E r \in all : r.kind = "auto" /\ r.content = content
        BY DEF all, AutoRows
    <2> QED BY <1>0, <1>5, <1>6, <2>1 DEF Safe
<1>7. o.content = content => Safe'
    <2>1. o.content = content => \E r \in all : r.kind = "auto" /\ r.content = content
        BY <1>2 DEF all
    <2> QED BY <1>0, <1>5, <2>1 DEF Safe
<1>8. CASE k = "unload"
    <2>1. Drops(n) /\ UNCHANGED timers /\ givenUp' \in Nat /\ givenUp' >= givenUp
          /\ (o.content < state[n].stored => givenUp' >= state[n].stored)
        BY <1>0, <1>8, FinishDrops DEF AutoInv
    <2>2. AutoTypeOK'
        BY <1>0, <1>3, <2>1 DEF AutoInv, AutoTypeOK, Drops
    <2>3. state[n].stored = content => Safe'
        <3>1. CASE o.content = content
            BY <1>7, <3>1
        <3>2. CASE o.content # content
            BY <1>0, <1>1, <2>1, <3>2 DEF Safe
        <3> QED BY <3>1, <3>2
    <2>4. \A m \in Servers, j \in Handlers : op'[m][j].pc \in {"encode", "prune"} =>
             op[m][j].pc = op'[m][j].pc /\ op[m][j].id = op'[m][j].id /\ op[m][j].content = op'[m][j].content
        BY <2>1 DEF Drops, NoOp
    <2>5. ASSUME NEW f \in Frames' PROVE \E g \in Frames : g.id = f.id /\ g.content = f.content
        <3>1. CASE f \in AutoRows'
            BY <1>3, <1>4, <3>1 DEF AutoRows
        <3>2. CASE f \notin AutoRows'
            <4>1. PICK m \in Servers, j \in Handlers : f = op'[m][j] /\ f.pc = "prune"
                BY <3>2 DEF Frames, Writing
            <4> QED BY <2>4, <4>1 DEF Frames, Writing
        <3> QED BY <3>1, <3>2
    <2>6. FramesGrow'
        BY <1>0, <2>5, FramesStay
    <2>7. InFlight => Safe' \/ InFlight'
        <3>1. SUFFICES ASSUME NEW m \in Servers, NEW j \in Handlers,
                              op[m][j].pc = "encode" \/ (op[m][j].pc = "prune" /\ op[m][j].content = content)
                       PROVE  Safe' \/ InFlight'
            BY DEF InFlight
        <3>2. CASE m = n /\ j = k
            BY <1>0, <1>7, <3>1, <3>2 DEF o
        <3>3. CASE ~(m = n /\ j = k)
            <4>1. op'[m][j].pc = op[m][j].pc /\ op'[m][j].content = op[m][j].content
                BY <1>8, <2>1, <3>1, <3>3 DEF Drops, NoOp
            <4> QED BY <1>0, <3>1, <4>1 DEF InFlight
        <3> QED BY <3>2, <3>3
    <2> QED BY <1>0, <1>6, <2>1, <2>2, <2>3, <2>6, <2>7, DropStep
<1>9. CASE k # "unload"
    <2>1. /\ OpMoves(n, k, NoOp) /\ givenUp' = givenUp
          /\ state' \in [Servers -> EntrySet] /\ timers' \in [Servers -> SUBSET TimerSet]
          /\ \A m \in Servers \ {n} : state'[m] = state[m] /\ timers'[m] = timers[m]
          /\ state'[n].stored = state[n].stored /\ state'[n].store = state[n].store
          /\ state'[n].frame \in {state[n].frame, o.content}
          /\ \/ timers[n] \subseteq timers'[n]
             \/ \E t \in timers'[n] : t.at = state[n].store /\ t.due = now + IdleMs
        BY <1>0, <1>9, FinishEnds DEF AutoInv
    <2>2. AutoTypeOK'
        BY <1>0, <1>3, <2>1 DEF AutoInv, AutoTypeOK, OpMoves
    <2>3. Safe => Safe'
        BY <1>0, <1>6, <2>1
    <2>4. NoOp.pc = "none" /\ \A m \in Servers, j \in Handlers : op'[m][j] = op[m][j] \/ (m = n /\ j = k)
        BY <2>1 DEF OpMoves, NoOp
    <2>5. ASSUME NEW f \in Frames' PROVE \E g \in Frames : g.id = f.id /\ g.content = f.content
        <3>1. CASE f \in AutoRows'
            BY <1>3, <1>4, <3>1 DEF AutoRows
        <3>2. CASE f \notin AutoRows'
            BY <2>1, <2>4, <3>2 DEF Frames, Writing, OpMoves
        <3> QED BY <3>1, <3>2
    <2>6. FramesGrow'
        BY <1>0, <2>5, FramesStay
    <2>7. InFlight => Safe' \/ InFlight'
        BY <1>0, <1>7, <2>4 DEF InFlight, o
    <2>8. InCharge(n) => InCharge(n)'
        <3>1. CASE \E t \in timers'[n] : t.at = state[n].store /\ t.due = now + IdleMs
            BY <1>0, <2>1, <3>1 DEF InCharge, AutoInv
        <3>2. CASE timers[n] \subseteq timers'[n]
            <4>1. \A j \in Handlers : op[n][j].pc = "lock" => op'[n][j] = op[n][j]
                BY <1>0, <2>4 DEF o
            <4> QED BY <1>0, <2>1, <3>2, <4>1 DEF InCharge, Handlers
        <3> QED BY <2>1, <3>1, <3>2
    <2>9. locks'["idle"] <= now' + IdleMs
        BY <1>0 DEF AutoInv
    <2>10. state'[n].frame = state[n].frame \/ (state'[n].frame <= content /\ (state'[n].frame = content => Safe'))
        BY <1>1, <1>7, <2>1
    <2> QED BY <1>0, <2>1, <2>2, <2>3, <2>6, <2>7, <2>8, <2>9, <2>10, ServerStep DEF OpMoves
<1> QED BY <1>8, <1>9

LEMMA VersionStep ==
    ASSUME AutoInv, CreateVersion \/ DeleteVersion
    PROVE  AutoInv'
<1>0. /\ content \in Nat /\ lastId \in Nat /\ givenUp \in Nat /\ rows \subseteq VersionSet
      /\ UNCHANGED <<now, content, state, timers, op, locks>>
    BY DEF AutoInv, AutoTypeOK, CreateVersion, DeleteVersion
<1>1. lastId' \in Nat /\ lastId' >= lastId /\ rows' \subseteq VersionSet /\ AutoRows' \subseteq AutoRows
    <2>1. CASE CreateVersion
        <3>1. PICK i \in Nat : i = lastId'
            BY <1>0, <2>1 DEF CreateVersion
        <3> DEFINE new == [id |-> i, kind |-> "named", content |-> content]
        <3>2. new \in VersionSet /\ new.kind # "auto" /\ rows' = rows \cup {new} /\ lastId' = lastId + 1
            BY <1>0, <2>1, <3>1 DEF CreateVersion, VersionSet
        <3> HIDE DEF new
        <3> QED BY <1>0, <3>2 DEF AutoRows
    <2>2. CASE DeleteVersion
        BY <1>0, <2>2 DEF DeleteVersion, AutoRows
    <2> QED BY <2>1, <2>2
<1>2. givenUp' \in Nat /\ (Safe => Safe')
    <2>1. CASE CreateVersion
        <3>1. rows \subseteq rows' /\ givenUp' = givenUp
            BY <2>1 DEF CreateVersion
        <3> QED BY <1>0, <3>1, SafeStays
    <2>2. CASE DeleteVersion
        <3>1. PICK r \in rows : rows' = rows \ {r} /\ GiveUp(r.content)
            BY <2>2 DEF DeleteVersion
        <3>2. r.content \in Nat
            BY <1>0 DEF VersionSet
        <3>3. givenUp' \in Nat /\ givenUp' >= givenUp /\ givenUp' >= r.content
            BY <3>1, <3>2, GivenUpGrows DEF AutoInv
        <3>4. \A x \in AutoRows : x \in AutoRows' \/ x = r
            BY <3>1 DEF AutoRows
        <3> QED BY <1>0, <3>3, <3>4 DEF Safe
    <2> QED BY <2>1, <2>2
<1>3. AutoTypeOK'
    BY <1>0, <1>1, <1>2 DEF AutoInv, AutoTypeOK
<1>4. FramesGrow'
    <2>1. \A f \in Frames' : f \in Frames
        BY <1>0, <1>1 DEF Frames, Writing
    <2> QED BY <1>0, <1>1, <2>1, FramesStay
<1>5. ASSUME NEW n \in Servers PROVE EntryOK(n)'
    BY <1>0, <1>2 DEF AutoInv, EntryOK, Tracked
<1>6. (InFlight => InFlight') /\ \A n \in Servers : InCharge(n) => InCharge(n)'
    BY <1>0 DEF InFlight, InCharge
<1> QED BY <1>0, <1>2, <1>3, <1>4, <1>5, <1>6 DEF AutoInv

LEMMA TickStep ==
    ASSUME AutoInv, Tick
    PROVE  AutoInv'
<1>0. /\ now \in Nat /\ now' = now + 1 /\ now' \in Nat /\ locks["idle"] \in Nat /\ IdleMs \in Nat
      /\ UNCHANGED <<content, state, timers, op, locks, rows, lastId, told, givenUp, faults>>
    BY AutoAssumption DEF Tick, AutoInv, AutoTypeOK
<1>1. AutoTypeOK' /\ locks'["idle"] <= now' + IdleMs
    BY <1>0 DEF AutoInv, AutoTypeOK
<1>2. FramesGrow'
    BY <1>0 DEF AutoInv, FramesGrow, Frames, AutoRows, Writing
<1>3. Safe' = Safe /\ InFlight' = InFlight
    BY <1>0 DEF Safe, AutoRows, InFlight
<1>4. ASSUME NEW n \in Servers PROVE EntryOK(n)'
    BY <1>0, <1>3 DEF AutoInv, EntryOK, Tracked
<1>5. \A n \in Servers : InCharge(n) => InCharge(n)'
    BY <1>0 DEF InCharge
<1> QED BY <1>1, <1>2, <1>3, <1>4, <1>5 DEF AutoInv

LEMMA AutoInvStep == AutoInv /\ [AutoNext]_autoVars => AutoInv'
<1>1. ASSUME AutoInv, NEW n \in Servers, NEW k \in Handlers, Deadlocks(n, k) \/ Fails(n, k) PROVE AutoInv'
    <2>1. op[n][k].pc # "none" /\ Caught(n, k)
        BY <1>1 DEF Deadlocks, Fails
    <2> QED BY <1>1, <2>1, CaughtStep
<1>2. ASSUME AutoInv, UNCHANGED autoVars PROVE AutoInv'
    BY <1>2 DEF autoVars, AutoInv, AutoTypeOK, FramesGrow, Frames, AutoRows, Writing, EntryOK, Tracked, Safe,
                InFlight, InCharge
<1> QED BY <1>1, <1>2, TickStep, VersionStep, AfterStoreStep, FireIdleStep, BeforeUnloadStep, AcquireStep,
           EncodeStep, CommitFrameStep DEF AutoNext

LEMMA AutoInvInit == AutoInit => AutoInv
<1> SUFFICES ASSUME AutoInit PROVE AutoInv
    OBVIOUS
<1>1. Never \in Int /\ Never < 0 /\ NoEntry \in EntrySet /\ NoOp \in OpSet /\ IdleMs \in Nat
    <2>1. IdleMs \in Nat /\ MinIntervalMs \in Nat /\ MinIntervalMs > 0
        BY AutoAssumption
    <2>2. Never \in Int /\ Never < 0
        BY <2>1 DEF Never
    <2> QED BY <2>1, <2>2 DEF NoEntry, NoOp, EntrySet, OpSet
<1>2. AutoTypeOK
    BY <1>1 DEF AutoInit, AutoTypeOK
<1>3. Frames = {}
    BY DEF AutoInit, Frames, AutoRows, Writing, NoOp
<1>4. Safe
    BY DEF AutoInit, Safe
<1>5. ASSUME NEW n \in Servers PROVE EntryOK(n)
    BY <1>4 DEF AutoInit, EntryOK, NoEntry
<1>6. locks["idle"] <= now + IdleMs
    BY <1>1 DEF AutoInit
<1> QED BY <1>2, <1>3, <1>4, <1>5, <1>6 DEF AutoInv, FramesGrow

\* Whoever stored the latest content, whoever held a lock meanwhile and whichever timer was
\* superseded: it is in a frame that is kept, or was given up, or somebody is at it
\* (autoSnapshot.ts handleAfterStore, fireIdle and handleBeforeUnload).
THEOREM LatestFrameIsKept == AutoSpec => []LatestIsKept
<1>1. ASSUME AutoInv PROVE LatestIsKept
    <2>1. Safe => LatestIsKept
        BY DEF Safe, LatestIsKept, AutoRows
    <2>2. InFlight => Ahead
        BY DEF InFlight, Ahead, Running
    <2>3. ASSUME NEW n \in Servers, InCharge(n), content # 0 PROVE Ahead
        BY <1>1, <2>3 DEF InCharge, Ahead, Running, Handlers, AutoInv, EntryOK
    <2> QED BY <1>1, <2>1, <2>2, <2>3 DEF AutoInv, LatestIsKept
<1> QED BY AutoInvInit, AutoInvStep, <1>1, PTL DEF AutoSpec

\* What a user saved and nobody deleted is a row of its own kind, which pruning passes over.
SavedInv == \A i \in told : \E r \in rows : r.id = i /\ r.kind = "named"

\* Pruning never takes a version that a user saved (docVersionRepo.ts createAutoWithPrune).
THEOREM SavedVersionsStay == AutoSpec => []SavedIsKept
<1>1. AutoInit => SavedInv
    BY DEF AutoInit, SavedInv
<1>2. ASSUME SavedInv, [AutoNext]_autoVars PROVE SavedInv'
    <2>1. ASSUME UNCHANGED <<rows, told>> PROVE SavedInv'
        BY <1>2, <2>1 DEF SavedInv
    <2>2. CASE CreateVersion
        <3> DEFINE new == [id |-> lastId', kind |-> "named", content |-> content]
        <3>1. rows' = rows \cup {new} /\ told' = told \cup {lastId'} /\ new.id = lastId' /\ new.kind = "named"
            BY <2>2 DEF CreateVersion
        <3> HIDE DEF new
        <3> QED BY <1>2, <3>1 DEF SavedInv
    <2>3. CASE DeleteVersion
        BY <1>2, <2>3 DEF DeleteVersion, SavedInv
    <2>4. ASSUME NEW n \in Servers, NEW k \in Handlers, Commit(n, k) PROVE SavedInv'
        <3>1. told' = told /\ \E x : rows' = Kept(rows \cup {x})
            BY <2>4 DEF Commit
        <3>2. \A r \in rows : r.kind = "named" => r \in rows'
            BY <3>1 DEF Kept
        <3> QED BY <1>2, <3>1, <3>2 DEF SavedInv
    <2>5. ASSUME NEW n \in Servers, AfterStore(n) \/ FireIdle(n) \/ BeforeUnload(n) PROVE SavedInv'
        BY <2>1, <2>5 DEF AfterStore, FireIdle, BeforeUnload
    <2>6. ASSUME NEW n \in Servers, NEW k \in Handlers,
                 Acquire(n, k) \/ Encode(n, k) \/ Deadlocks(n, k) \/ Fails(n, k)
          PROVE  SavedInv'
        BY <2>1, <2>6 DEF Acquire, Encode, Deadlocks, Fails, Caught
    <2> QED BY <1>2, <2>1, <2>2, <2>3, <2>4, <2>5, <2>6 DEF AutoNext, Tick, autoVars
<1>3. SavedInv => SavedIsKept
    BY DEF SavedInv, SavedIsKept
<1> QED BY <1>1, <1>2, <1>3, PTL DEF AutoSpec

-----------------------------------------------------------------------------
(* Boards. At rest every element is absent, or can be shown, has an index  *)
(* and refers to nothing, to an element that may be referred to, or to one *)
(* a scoped pass dropped. A pass looks at everything this can fail for.    *)

BoardTypeOK ==
    /\ els \in [Ids -> Elements \cup {Absent}] /\ files \subseteq Files
    /\ saved \in Boards
    /\ dropped \subseteq Ids /\ named \subseteq Ids

Sound(b, lost, id) ==
    \/ b.els[id] = Absent
    \/ /\ Renderable(b.els[id])
       /\ b.els[id].index # Nothing
       /\ b.els[id].ref \in {Nothing} \cup Referenceable(b, NoEvidence) \cup lost

BoardInv ==
    /\ BoardTypeOK
    /\ \A id \in Ids : Sound(Live, dropped, id)

\* A finite set of naturals has a greatest element.
LEMMA GreatestOf ==
    ASSUME NEW S \in SUBSET Nat, IsFiniteSet(S), S # {}
    PROVE  Max(S) \in S
<1> DEFINE above(x) == {y \in S : y > x}
           sizes == {Cardinality(above(x)) : x \in S}
<1>1. \A x \in S : IsFiniteSet(above(x)) /\ Cardinality(above(x)) \in Nat
    BY FS_Subset, FS_CardinalityType
<1>2. sizes \in SUBSET Nat /\ sizes # {}
    BY <1>1
<1>3. PICK m \in sizes : \A d \in sizes : ~(<<d, m>> \in OpToRel(<, Nat))
    BY <1>2, NatLessThanWellFounded, WFMin
<1>4. PICK x \in S : m = Cardinality(above(x))
    BY <1>3
<1>5. ASSUME NEW y \in S PROVE x >= y
    <2> SUFFICES ASSUME y > x PROVE FALSE
        OBVIOUS
    <2>1. above(y) \subseteq above(x) /\ y \in above(x) /\ y \notin above(y)
        <3>1. x \in Int /\ y \in Int /\ \A z \in S : z \in Int
            OBVIOUS
        <3>2. \A z \in S : z > y => z > x
            BY <3>1
        <3>3. above(y) \subseteq above(x)
            BY <3>2
        <3>4. y \in above(x)
            OBVIOUS
        <3>5. y \notin above(y)
            BY <3>1
        <3> QED BY <3>3, <3>4, <3>5
    <2>2. Cardinality(above(y)) <= Cardinality(above(x)) /\ Cardinality(above(y)) # Cardinality(above(x))
        <3> HIDE DEF above
        <3>1. above(y) \in SUBSET above(x) /\ above(y) # above(x)
            BY <2>1
        <3>2. IsFiniteSet(above(x))
            BY <1>1
        <3> QED BY <3>1, <3>2, FS_Subset
    <2>3. Cardinality(above(y)) \in sizes /\ Cardinality(above(y)) \in Nat /\ Cardinality(above(x)) \in Nat
        BY <1>1
    <2>4. <<Cardinality(above(y)), m>> \in OpToRel(<, Nat)
        <3> HIDE DEF above, sizes
        <3>1. Cardinality(above(y)) < m
            BY <1>4, <2>2, <2>3
        <3> QED BY <1>4, <2>3, <3>1 DEF OpToRel
    <2> HIDE DEF above, sizes
    <2> QED BY <1>3, <2>3, <2>4
<1> HIDE DEF above, sizes
<1>6. \E z \in S : \A y \in S : z >= y
    BY <1>5
<1> QED BY <1>6 DEF Max

\* Every survivor gets a valid index, the one it has or a new one (generateNKeysBetween).
LEMMA FilledIsValid ==
    ASSUME NEW b \in Boards, NEW evidence, NEW id \in Ids, b.els[id] \in Elements
    PROVE  Filled(b, evidence, id) \in Nat
<1> DEFINE all == Survivors(b, evidence)
           used == {b.els[x].index : x \in all} \ {Nothing}
           free == {x \in all : b.els[x].index = Nothing /\ x < id}
           top == IF used = {} THEN -1 ELSE Max(used)
<1>1. all \subseteq Ids /\ IsFiniteSet(all) /\ IsFiniteSet(free)
    <2>1. all \subseteq Ids /\ free \subseteq Ids
        BY DEF Survivors
    <2> QED BY <2>1, BoardAssumption, FS_Subset
<1>2. \A x \in all : b.els[x].index \in Nat \cup {Nothing}
    BY <1>1 DEF Boards, Elements, Absent
<1>3. used \in SUBSET Nat /\ IsFiniteSet(used)
    <2>1. used \in SUBSET Nat
        BY <1>2
    <2>2. IsFiniteSet({b.els[x].index : x \in all})
        <3> DEFINE index == [x \in all |-> b.els[x].index]
                   range == {b.els[x].index : x \in all}
        <3>1. index \in Surjection(all, range)
            BY DEF Surjection
        <3> HIDE DEF all, index, range
        <3>2. IsFiniteSet(range)
            BY <1>1, <3>1, FS_Surjection
        <3> QED BY <3>2 DEF range
    <2>3. used \in SUBSET {b.els[x].index : x \in all}
        OBVIOUS
    <2> HIDE DEF used, all
    <2> QED BY <2>1, <2>2, <2>3, FS_Subset
<1>4. top \in Int /\ top >= -1
    <2>1. CASE used = {}
        BY <2>1
    <2>2. CASE used # {}
        <3> HIDE DEF used
        <3>1. Max(used) \in Nat
            BY <1>3, <2>2, GreatestOf
        <3> QED BY <2>2, <3>1
    <2> QED BY <2>1, <2>2
<1>5. Cardinality(free) \in Nat
    BY <1>1, FS_CardinalityType
<1>6. b.els[id].index \in Nat \cup {Nothing}
    BY DEF Elements
<1>7. Filled(b, evidence, id) = IF b.els[id].index # Nothing THEN b.els[id].index ELSE top + 1 + Cardinality(free)
    BY DEF Filled
<1> HIDE DEF top, free
<1> QED BY <1>4, <1>5, <1>6, <1>7

\* What the repair makes of a survivor: its type, tombstone and file stay.
LEMMA CanonicalIs ==
    ASSUME NEW b \in Boards, NEW evidence, NEW id \in Ids, b.els[id] \in Elements
    PROVE  LET c == Canonical(b, evidence, id) IN
           /\ c \in Elements
           /\ c.type = b.els[id].type /\ c.deleted = b.els[id].deleted /\ c.file = b.els[id].file
           /\ c.index \in Nat /\ c.index # Nothing
           /\ b.els[id].index # Nothing => c.index = b.els[id].index
           /\ c.ref = IF b.els[id].ref \in Referenceable(b, evidence) THEN b.els[id].ref ELSE Nothing
<1> DEFINE e == b.els[id]
           i == Filled(b, evidence, id)
           r == IF e.ref \in Referenceable(b, evidence) THEN e.ref ELSE Nothing
<1>1. i \in Nat /\ i # Nothing
    BY FilledIsValid, BoardAssumption
<1>2. e.index # Nothing => i = e.index
    BY DEF Filled
<1>3. Canonical(b, evidence, id) = [e EXCEPT !.index = i, !.ref = r]
    BY DEF Canonical
<1>4. r \in Ids \cup {Nothing}
    BY DEF Referenceable, Survivors
<1> HIDE DEF i, r
<1>5. [e EXCEPT !.index = i, !.ref = r] =
        [type |-> e.type, deleted |-> e.deleted, ref |-> r, file |-> e.file, index |-> i]
    <2>1. e \in [type : {"shape", "image", "unknown"}, deleted : BOOLEAN, ref : Ids \cup {Nothing},
                 file : Files \cup {Nothing}, index : Nat \cup {Nothing}]
        BY DEF Elements
    <2>2. [e EXCEPT !.index = i, !.ref = r] = [[e EXCEPT !.index = i] EXCEPT !.ref = r]
        BY <2>1
    <2>3. e = [type |-> e.type, deleted |-> e.deleted, ref |-> e.ref, file |-> e.file, index |-> e.index]
        <3> HIDE DEF e
        <3> QED BY <2>1
    <2>4. [e EXCEPT !.index = i] =
            [type |-> e.type, deleted |-> e.deleted, ref |-> e.ref, file |-> e.file, index |-> i]
        <3> HIDE DEF e
        <3> QED BY <2>3
    <2>5. [[type |-> e.type, deleted |-> e.deleted, ref |-> e.ref, file |-> e.file, index |-> i] EXCEPT !.ref = r] =
            [type |-> e.type, deleted |-> e.deleted, ref |-> r, file |-> e.file, index |-> i]
        <3> HIDE DEF e
        <3> QED OBVIOUS
    <2> HIDE DEF e
    <2> QED BY <2>2, <2>4, <2>5
<1>6. /\ e.type \in {"shape", "image", "unknown"} /\ e.deleted \in BOOLEAN /\ e.file \in Files \cup {Nothing}
    BY DEF Elements
<1> HIDE DEF e
<1>7. Canonical(b, evidence, id) = [type |-> e.type, deleted |-> e.deleted, ref |-> r, file |-> e.file, index |-> i]
    BY <1>3, <1>5
<1>8. Canonical(b, evidence, id) \in Elements
    BY <1>1, <1>4, <1>6, <1>7 DEF Elements
<1> QED BY <1>1, <1>2, <1>7, <1>8 DEF e, r

\* A pass leaves what is outside its scope, drops what did not survive, keeps the files.
LEMMA RepairedIs ==
    ASSUME NEW b \in Boards, NEW scope, NEW evidence
    PROVE  LET c == Repaired(b, scope, evidence) IN
           /\ c \in Boards
           /\ c.files = b.files
           /\ \A id \in Ids : c.els[id] = IF id \notin scope THEN b.els[id]
                                          ELSE IF id \in Survivors(b, evidence) THEN Canonical(b, evidence, id)
                                          ELSE Absent
<1> DEFINE f == [id \in Ids |-> IF id \notin scope THEN b.els[id]
                                ELSE IF id \in Survivors(b, evidence) THEN Canonical(b, evidence, id)
                                ELSE Absent]
<1>1. Repaired(b, scope, evidence) = [b EXCEPT !.els = f]
    BY DEF Repaired
<1>2. \A id \in Ids : f[id] \in Elements \cup {Absent}
    <2> SUFFICES ASSUME NEW id \in Ids PROVE f[id] \in Elements \cup {Absent}
        OBVIOUS
    <2>1. b.els[id] \in Elements \cup {Absent}
        BY DEF Boards
    <2>2. ASSUME id \in Survivors(b, evidence) PROVE Canonical(b, evidence, id) \in Elements
        <3>1. b.els[id] \in Elements
            BY <2>1, <2>2 DEF Survivors, Renderable, Absent
        <3> QED BY <3>1, CanonicalIs
    <2> QED BY <2>1, <2>2
<1>3. f \in [Ids -> Elements \cup {Absent}]
    BY <1>2
<1>4. [b EXCEPT !.els = f] = [els |-> f, files |-> b.files] /\ b.files \in SUBSET Files
    <2> HIDE DEF f
    <2> QED BY DEF Boards
<1>5. \A id \in Ids : f[id] = IF id \notin scope THEN b.els[id]
                              ELSE IF id \in Survivors(b, evidence) THEN Canonical(b, evidence, id)
                              ELSE Absent
    OBVIOUS
<1> HIDE DEF f
<1>6. Repaired(b, scope, evidence) = [els |-> f, files |-> b.files]
    BY <1>1, <1>4
<1> QED BY <1>3, <1>4, <1>5, <1>6 DEF Boards

\* Who may be referred to before a pass may be after it.
LEMMA TargetsStay ==
    ASSUME NEW b \in Boards, NEW scope, NEW evidence, NEW id \in Referenceable(b, evidence)
    PROVE  id \in Referenceable(Repaired(b, scope, evidence), NoEvidence)
<1> DEFINE c == Repaired(b, scope, evidence)
<1>1. id \in Ids /\ id \in Survivors(b, evidence) /\ Renderable(b.els[id]) /\ ~b.els[id].deleted
    BY DEF Referenceable, Survivors
<1>2. c.els[id] = b.els[id] \/ c.els[id] = Canonical(b, evidence, id)
    BY <1>1, RepairedIs
<1>3. b.els[id] \in Elements
    BY <1>1 DEF Boards, Renderable, Absent
<1>4. Renderable(c.els[id]) /\ ~c.els[id].deleted
    BY <1>1, <1>2, <1>3, CanonicalIs DEF Renderable
<1>5. ~DropsImage(c, c.els[id], NoEvidence)
    BY DEF DropsImage, NoEvidence
<1> HIDE DEF c
<1>6. id \in Survivors(c, NoEvidence)
    BY <1>1, <1>4, <1>5 DEF Survivors
<1> QED BY <1>4, <1>6 DEF Referenceable, c

\* What a pass looked at is sound after it.
LEMMA ScopeIsSound ==
    ASSUME NEW b \in Boards, NEW scope, NEW evidence, NEW id \in Ids, id \in scope
    PROVE  Sound(Repaired(b, scope, evidence), {}, id)
<1> DEFINE c == Repaired(b, scope, evidence)
           e == Canonical(b, evidence, id)
<1>1. CASE id \notin Survivors(b, evidence)
    <2>1. c.els[id] = Absent
        BY <1>1, RepairedIs
    <2> QED BY <2>1 DEF Sound
<1>2. CASE id \in Survivors(b, evidence)
    <2>1. c.els[id] = e
        BY <1>2, RepairedIs
    <2>2. Renderable(b.els[id]) /\ b.els[id] \in Elements
        BY <1>2 DEF Survivors, Boards, Renderable, Absent
    <2>3. Renderable(e) /\ e.index # Nothing
        BY <2>2, CanonicalIs DEF Renderable
    <2>4. e.ref = Nothing \/ e.ref \in Referenceable(b, evidence)
        BY <2>2, CanonicalIs
    <2>5. e.ref \in {Nothing} \cup Referenceable(c, NoEvidence)
        BY <2>4, TargetsStay
    <2> HIDE DEF e, c
    <2> QED BY <2>1, <2>3, <2>5 DEF Sound, c
<1> QED BY <1>1, <1>2

\* Nobody drops an image without evidence, and nothing else is held against an element that
\* can be shown.
LEMMA NoEvidenceKeeps ==
    ASSUME NEW b, NEW id \in Ids
    PROVE  /\ id \in Survivors(b, NoEvidence) <=> Renderable(b.els[id])
           /\ id \in Referenceable(b, NoEvidence) <=> Renderable(b.els[id]) /\ ~b.els[id].deleted
BY DEF Survivors, Referenceable, DropsImage, NoEvidence

\* The scoped pass: an element it did not look at refers to what is still there, or to what
\* the pass dropped.
LEMMA ScopedPassSound ==
    ASSUME BoardInv, NEW c \in Boards, NEW id \in Ids
    PROVE  LET changed == {x \in Ids : c.els[x] # els[x]}
               after == OnElements(c, changed)
               lost == (dropped \ changed) \cup {x \in changed : c.els[x] # Absent /\ after.els[x] = Absent}
           IN  Sound(after, lost, id)
<1> DEFINE changed == {x \in Ids : c.els[x] # els[x]}
           scope == Scope(c, changed)
           after == OnElements(c, changed)
           lost == (dropped \ changed) \cup {x \in changed : c.els[x] # Absent /\ after.els[x] = Absent}
<1> SUFFICES Sound(after, lost, id)
    OBVIOUS
<1>0. Sound(Live, dropped, id) /\ Live.els = els /\ dropped \subseteq Ids
    BY DEF BoardInv, BoardTypeOK, Live
<1>1. CASE changed = {}
    <2>1. after = c /\ c.els = els /\ lost = dropped
        <3>1. \A x \in Ids : c.els[x] = els[x]
            BY <1>1
        <3>2. c.els \in [Ids -> Elements \cup {Absent}] /\ els \in [Ids -> Elements \cup {Absent}]
            BY DEF Boards, BoardInv, BoardTypeOK
        <3>3. c.els = els
            BY <3>1, <3>2
        <3> QED BY <1>1, <3>3 DEF OnElements
    <2>2. Referenceable(after, NoEvidence) = Referenceable(Live, NoEvidence)
        <3>1. \A x \in Ids : x \in Referenceable(after, NoEvidence) <=> x \in Referenceable(Live, NoEvidence)
            BY <1>0, <2>1, NoEvidenceKeeps
        <3> QED BY <3>1 DEF Referenceable, Survivors
    <2> HIDE DEF after, lost
    <2> QED BY <1>0, <2>1, <2>2 DEF Sound
<1>2. CASE changed # {}
    <2>1. after = Repaired(c, scope, NoEvidence)
        BY <1>2 DEF OnElements
    <2>2. CASE id \in scope
        <3>1. Sound(after, {}, id)
            BY <2>1, <2>2, ScopeIsSound
        <3> HIDE DEF after, lost
        <3> QED BY <3>1 DEF Sound
    <2>3. CASE id \notin scope
        <3>1. id \notin changed /\ id \notin Referrers(c, Removed(c, changed))
            BY <2>3 DEF Scope
        <3>2. c.els[id] = els[id] /\ after.els[id] = els[id]
            <4>1. after.els[id] = c.els[id]
                BY <2>1, <2>3, RepairedIs
            <4>2. c.els[id] = els[id]
                BY <3>1
            <4> QED BY <4>1, <4>2
        <3>3. CASE els[id] = Absent
            BY <3>2, <3>3 DEF Sound
        <3>4. CASE els[id] # Absent
            <4> DEFINE r == els[id].ref
            <4>1. /\ Renderable(els[id]) /\ els[id].index # Nothing
                  /\ r = Nothing \/ r \in Referenceable(Live, NoEvidence) \/ r \in dropped
                BY <1>0, <3>4 DEF Sound
            <4>2. ASSUME r # Nothing PROVE r \in Ids
                BY <4>1, <4>2, <1>0 DEF Referenceable, Survivors
            <4>3. ASSUME r # Nothing PROVE r \notin Removed(c, changed)
                BY <3>1, <3>2 DEF Referrers
            <4>4. ASSUME r # Nothing, r \notin changed
                  PROVE  r \in Referenceable(after, NoEvidence) \/ r \in lost
                <5>1. CASE r \in dropped
                    BY <5>1, <4>4
                <5>2. CASE r \in Referenceable(Live, NoEvidence)
                    <6>1. Renderable(els[r]) /\ ~els[r].deleted /\ c.els[r] = els[r]
                        BY <1>0, <4>2, <4>4, <5>2, NoEvidenceKeeps
                    <6>2. r \in Referenceable(c, NoEvidence)
                        BY <4>2, <4>4, <6>1, NoEvidenceKeeps
                    <6> QED BY <2>1, <6>2, TargetsStay
                <5> QED BY <4>1, <4>4, <5>1, <5>2
            <4>5. ASSUME r # Nothing, r \in changed
                  PROVE  r \in Referenceable(after, NoEvidence) \/ r \in lost
                <5>1. c.els[r] # Absent /\ ~c.els[r].deleted
                    BY <4>3, <4>5 DEF Removed
                <5>2. CASE Renderable(c.els[r])
                    <6>1. r \in Referenceable(c, NoEvidence)
                        BY <4>2, <4>5, <5>1, <5>2, NoEvidenceKeeps
                    <6> QED BY <2>1, <6>1, TargetsStay
                <5>3. CASE ~Renderable(c.els[r])
                    <6>1. r \in scope /\ r \notin Survivors(c, NoEvidence)
                        BY <4>2, <4>5, <5>3, NoEvidenceKeeps DEF Scope
                    <6>2. after.els[r] = Absent
                        BY <2>1, <4>2, <4>5, <6>1, RepairedIs
                    <6> HIDE DEF after
                    <6> QED BY <4>5, <5>1, <6>2
                <5> QED BY <5>2, <5>3
            <4>6. r \in {Nothing} \cup Referenceable(after, NoEvidence) \cup lost
                <5> HIDE DEF after, lost, changed
                <5> QED BY <4>4, <4>5
            <4> HIDE DEF after, lost, changed
            <4> QED BY <3>2, <4>1, <4>6 DEF Sound
        <3> QED BY <3>3, <3>4
    <2> QED BY <2>2, <2>3
<1> QED BY <1>1, <1>2

\* A transaction and its repair: what they leave is typed and sound.
LEMMA TransactionStep ==
    ASSUME BoardInv, NEW c \in Boards, Transaction(c), saved' \in Boards
    PROVE  BoardInv'
<1> DEFINE changed == {x \in Ids : c.els[x] # els[x]}
           after == OnElements(c, changed)
           end == OnFiles(after, files \ c.files)
           lost == (dropped \ changed) \cup {x \in changed : c.els[x] # Absent /\ after.els[x] = Absent}
<1>1. after \in Boards
    BY RepairedIs DEF OnElements
<1>2. end \in Boards
    BY <1>1, RepairedIs DEF OnFiles
<1>3. els' = end.els /\ files' = end.files /\ dropped' = lost /\ named' = changed
    BY DEF Transaction
<1>4. Live' = end
    <2>1. Live' = [els |-> els', files |-> files']
        BY DEF Live
    <2>2. end = [els |-> end.els, files |-> end.files]
        <3> HIDE DEF end
        <3> QED BY <1>2 DEF Boards
    <2> HIDE DEF end
    <2> QED BY <1>3, <2>1, <2>2
<1>5. BoardTypeOK'
    <2>1. lost \subseteq Ids /\ changed \subseteq Ids
        BY DEF BoardInv, BoardTypeOK
    <2>2. end.els \in [Ids -> Elements \cup {Absent}] /\ end.files \subseteq Files
        <3> HIDE DEF end
        <3> QED BY <1>2 DEF Boards
    <2> HIDE DEF end, lost, changed
    <2> QED BY <1>3, <2>1, <2>2 DEF BoardTypeOK
<1>6. ASSUME NEW id \in Ids PROVE Sound(end, lost, id)
    <2>1. CASE files \ c.files = {}
        <3>1. end = after
            BY <2>1 DEF OnFiles
        <3>2. Sound(after, lost, id)
            BY ScopedPassSound
        <3> HIDE DEF end, after, lost
        <3> QED BY <3>1, <3>2
    <2>2. CASE files \ c.files # {}
        <3>1. end = Repaired(after, Ids, files \ c.files)
            BY <2>2 DEF OnFiles
        <3>2. Sound(end, {}, id)
            <4> HIDE DEF after, end
            <4> QED BY <1>1, <3>1, ScopeIsSound
        <3> HIDE DEF end, after, lost
        <3> QED BY <3>2 DEF Sound
    <2> QED BY <2>1, <2>2
<1>7. \A id \in Ids : Sound(Live, dropped, id)'
    <2> HIDE DEF end, lost
    <2> QED BY <1>3, <1>4, <1>6 DEF Sound
<1> QED BY <1>5, <1>7 DEF BoardInv

\* A pass over the whole board, and what a node finds after it.
LEMMA ColdPassSound ==
    ASSUME NEW b \in Boards, NEW id \in Ids
    PROVE  ColdRepaired(b) \in Boards /\ Sound(ColdRepaired(b), {}, id)
BY RepairedIs, ScopeIsSound DEF ColdRepaired

LEMMA PutIsBoard ==
    ASSUME BoardTypeOK, NEW id \in Ids, NEW e \in Elements \cup {Absent}
    PROVE  /\ Put(id, e) \in Boards
           /\ Put(id, e).files = files
<1>1. Put(id, e) = [els |-> [els EXCEPT ![id] = e], files |-> files]
    BY DEF Put, Live
<1>2. [els EXCEPT ![id] = e] \in [Ids -> Elements \cup {Absent}]
    BY DEF BoardTypeOK
<1> QED BY <1>1, <1>2 DEF BoardTypeOK, Boards

\* Tombstones go up and down.
LEMMA TombstoneIsElement ==
    ASSUME NEW e \in Elements \cup {Absent}, e # Absent, NEW flag \in BOOLEAN
    PROVE  [e EXCEPT !.deleted = flag] \in Elements
BY DEF Elements

LEMMA BoardInvInit == BoardInit => BoardInv
<1> SUFFICES ASSUME BoardInit PROVE BoardInv
    OBVIOUS
<1> DEFINE b == ColdRepaired(saved)
<1>1. saved \in Boards
    BY BoardAssumption DEF BoardInit
<1>2. els = b.els /\ files = b.files /\ dropped = {} /\ named = {}
    BY DEF BoardInit
<1>3. b \in Boards
    BY <1>1, RepairedIs DEF ColdRepaired
<1>4. Live = b
    <2> HIDE DEF b
    <2> QED BY <1>2, <1>3 DEF Live, Boards
<1>5. \A id \in Ids : Sound(Live, dropped, id)
    BY <1>1, <1>2, <1>4, ColdPassSound
<1>6. BoardTypeOK
    <2> HIDE DEF b
    <2> QED BY <1>1, <1>2, <1>3 DEF BoardTypeOK, Boards
<1> QED BY <1>5, <1>6 DEF BoardInv

\* Every step is a transaction of a board, or leaves the live document, or loads it anew.
LEMMA StepIsTransaction ==
    ASSUME BoardTypeOK, [BoardNext]_boardVars
    PROVE  /\ saved' \in Boards
           /\ \/ \E c \in Boards : Transaction(c)
              \/ els' = els /\ files' = files /\ dropped' = dropped /\ named' \in {named, {}}
              \/ Load
<1>0. Live \in Boards /\ saved \in Boards
    BY DEF BoardTypeOK, Live, Boards
<1>1. CASE ClientElement
    <2>1. saved' \in Boards
        BY <1>0, <1>1 DEF ClientElement
    <2>2. PICK id \in Ids :
            \/ \E e \in Inserted : Transaction(Put(id, e))
            \/ els[id] # Absent /\ Transaction(Put(id, [els[id] EXCEPT !.deleted = ~@]))
            \/ els[id] # Absent /\ Transaction(Put(id, Absent))
        BY <1>1 DEF ClientElement
    <2>3. CASE \E e \in Inserted : Transaction(Put(id, e))
        BY <1>0, <2>1, <2>3, PutIsBoard, BoardAssumption
    <2>4. CASE els[id] # Absent /\ Transaction(Put(id, [els[id] EXCEPT !.deleted = ~@]))
        <3>1. els[id] \in Elements \cup {Absent}
            BY DEF BoardTypeOK
        <3>2. [els[id] EXCEPT !.deleted = ~els[id].deleted] \in Elements
            BY <2>4, <3>1, TombstoneIsElement
        <3> QED BY <2>1, <2>4, <3>2, PutIsBoard
    <2>5. CASE els[id] # Absent /\ Transaction(Put(id, Absent))
        BY <2>1, <2>5, PutIsBoard
    <2> QED BY <2>2, <2>3, <2>4, <2>5
<1>2. CASE ClientFile
    <2>1. saved' \in Boards
        BY <1>0, <1>2 DEF ClientFile
    <2>2. PICK f \in Files : \/ Transaction([Live EXCEPT !.files = files \cup {f}])
                             \/ Transaction([Live EXCEPT !.files = files \ {f}])
        BY <1>2 DEF ClientFile, Live
    <2>3. ASSUME NEW fs \in SUBSET Files PROVE [Live EXCEPT !.files = fs] \in Boards
        BY <1>0 DEF Boards
    <2>4. files \cup {f} \in SUBSET Files /\ files \ {f} \in SUBSET Files
        BY DEF BoardTypeOK
    <2> QED BY <2>1, <2>2, <2>3, <2>4
<1>3. CASE BotEdits
    <2>1. saved' \in Boards
        BY <1>0, <1>3 DEF BotEdits
    <2>2. PICK id \in Ids, f \in Files :
            LET tombstone == IF els[id] = Absent THEN Absent ELSE [els[id] EXCEPT !.deleted = TRUE]
            IN  \E e \in {x \in Inserted : Renderable(x)} \cup {tombstone},
                   fs \in {files, files \cup {f}, files \ {f}} :
                Transaction([Put(id, e) EXCEPT !.files = fs])
        BY <1>3 DEF BotEdits
    <2> DEFINE tombstone == IF els[id] = Absent THEN Absent ELSE [els[id] EXCEPT !.deleted = TRUE]
    <2>3. PICK e \in {x \in Inserted : Renderable(x)} \cup {tombstone}, fs \in {files, files \cup {f}, files \ {f}} :
            Transaction([Put(id, e) EXCEPT !.files = fs])
        BY <2>2
    <2>4. e \in Elements \cup {Absent}
        <3>1. els[id] \in Elements \cup {Absent}
            BY DEF BoardTypeOK
        <3>2. tombstone \in Elements \cup {Absent}
            BY <3>1, TombstoneIsElement
        <3> HIDE DEF tombstone
        <3> QED BY <3>2, BoardAssumption
    <2>5. fs \in SUBSET Files
        BY DEF BoardTypeOK
    <2>6. [Put(id, e) EXCEPT !.files = fs] \in Boards
        <3>1. Put(id, e) \in Boards
            BY <2>4, PutIsBoard
        <3> QED BY <2>5, <3>1 DEF Boards
    <2> QED BY <2>1, <2>3, <2>6
<1>4. CASE Restore
    BY <1>0, <1>4 DEF Restore
<1>5. CASE StoreBoard
    BY <1>0, <1>5 DEF StoreBoard
<1>6. CASE Load
    BY <1>0, <1>6 DEF Load
<1>7. CASE Migrate
    BY <1>0, <1>7, RepairedIs DEF Migrate, ColdRepaired
<1>8. CASE UNCHANGED boardVars
    BY <1>0, <1>8 DEF boardVars
<1> QED BY <1>1, <1>2, <1>3, <1>4, <1>5, <1>6, <1>7, <1>8 DEF BoardNext

LEMMA BoardInvStep == BoardInv /\ [BoardNext]_boardVars => BoardInv'
<1> SUFFICES ASSUME BoardInv, [BoardNext]_boardVars PROVE BoardInv'
    OBVIOUS
<1>0. BoardTypeOK /\ saved \in Boards
    BY DEF BoardInv, BoardTypeOK
<1>1. saved' \in Boards
    BY <1>0, StepIsTransaction
<1>2. CASE \E c \in Boards : Transaction(c)
    BY <1>1, <1>2, TransactionStep
<1>3. CASE els' = els /\ files' = files /\ dropped' = dropped /\ named' \in {named, {}}
    <2>1. BoardTypeOK'
        BY <1>0, <1>1, <1>3 DEF BoardTypeOK
    <2>2. Live' = Live
        BY <1>3 DEF Live
    <2> QED BY <1>3, <2>1, <2>2 DEF BoardInv, Sound
<1>4. CASE Load
    <2> DEFINE b == ColdRepaired(saved)
    <2>1. els' = b.els /\ files' = b.files /\ dropped' = {} /\ named' = Ids
        BY <1>4 DEF Load
    <2>2. b \in Boards
        BY <1>0, RepairedIs DEF ColdRepaired
    <2>3. Live' = b
        <3> HIDE DEF b
        <3> QED BY <2>1, <2>2 DEF Live, Boards
    <2>4. \A id \in Ids : Sound(b, {}, id)
        BY <1>0, ColdPassSound
    <2>5. BoardTypeOK'
        <3> HIDE DEF b
        <3> QED BY <1>1, <2>1, <2>2 DEF BoardTypeOK, Boards
    <2> HIDE DEF b
    <2> QED BY <2>1, <2>3, <2>4, <2>5 DEF BoardInv, Sound
<1> QED BY <1>0, <1>2, <1>3, <1>4, StepIsTransaction

\* What RepairedAtRest says, from what is sound.
LEMMA SoundIsRepaired == BoardInv => RepairedAtRest
<1> SUFFICES ASSUME BoardInv, NEW id \in Ids
             PROVE  LET e == ColdRepaired(Live).els[id]
                    IN  \/ els[id] = e
                        \/ els[id].ref \in dropped /\ [els[id] EXCEPT !.ref = Nothing] = e
    BY DEF RepairedAtRest
<1> DEFINE e == ColdRepaired(Live).els[id]
           c == Canonical(Live, NoEvidence, id)
<1>0. Live \in Boards /\ Live.els = els /\ Sound(Live, dropped, id) /\ els[id] \in Elements \cup {Absent}
    BY DEF BoardInv, BoardTypeOK, Live, Boards
<1>1. e = IF id \in Survivors(Live, NoEvidence) THEN c ELSE Absent
    BY <1>0, RepairedIs DEF ColdRepaired
<1>2. CASE els[id] = Absent
    <2>1. id \notin Survivors(Live, NoEvidence)
        BY <1>0, <1>2 DEF Survivors, Renderable, Absent
    <2> QED BY <1>1, <1>2, <2>1
<1>3. CASE els[id] # Absent
    <2>1. /\ els[id] \in Elements /\ els[id].index # Nothing
          /\ els[id].ref \in {Nothing} \cup Referenceable(Live, NoEvidence) \cup dropped
          /\ id \in Survivors(Live, NoEvidence)
        BY <1>0, <1>3, NoEvidenceKeeps DEF Sound
    <2>2. e = c
        BY <1>1, <2>1
    <2>3. /\ c \in Elements
          /\ c.type = els[id].type /\ c.deleted = els[id].deleted /\ c.file = els[id].file
          /\ c.index = els[id].index
          /\ c.ref = IF els[id].ref \in Referenceable(Live, NoEvidence) THEN els[id].ref ELSE Nothing
        BY <1>0, <2>1, CanonicalIs
    <2> HIDE DEF e, c
    <2>4. CASE els[id].ref \in Referenceable(Live, NoEvidence) \cup {Nothing}
        <3>1. c.ref = els[id].ref
            BY <2>3, <2>4
        <3>2. c = els[id]
            BY <2>1, <2>3, <3>1 DEF Elements
        <3> QED BY <2>2, <3>2 DEF e
    <2>5. CASE els[id].ref \notin Referenceable(Live, NoEvidence) \cup {Nothing}
        <3>1. c.ref = Nothing /\ els[id].ref \in dropped
            BY <2>1, <2>3, <2>5
        <3>2. [els[id] EXCEPT !.ref = Nothing] = c
            BY <2>1, <2>3, <3>1 DEF Elements
        <3> QED BY <2>2, <3>1, <3>2 DEF e
    <2> QED BY <2>4, <2>5
<1> QED BY <1>2, <1>3

\* Looking at the changed elements alone leaves the board as a pass over all of it would,
\* but for what referred to an element that a scoped pass itself dropped: for any elements,
\* files and boards stored before.
THEOREM ScopedRepairIsEnough == BoardSpec => []RepairedAtRest
<1>1. BoardSpec => []BoardInv
    BY BoardInvInit, BoardInvStep, PTL DEF BoardSpec
<1> QED BY <1>1, SoundIsRepaired, PTL

-----------------------------------------------------------------------------
(* Images: a pass without evidence loses none, whatever else it does.      *)

LEMMA PassKeepsImages ==
    ASSUME NEW b \in Boards, NEW scope, NEW id \in Ids, Image(b.els[id])
    PROVE  LET c == Repaired(b, scope, NoEvidence)
           IN  Image(c.els[id]) /\ c.els[id].file = b.els[id].file
<1>1. b.els[id] \in Elements
    BY DEF Boards, Image, Absent
<1>2. id \in Survivors(b, NoEvidence)
    BY NoEvidenceKeeps DEF Image, Renderable
<1> QED BY <1>1, <1>2, RepairedIs, CanonicalIs DEF Image

\* An image that a transaction does not name goes only with its file.
LEMMA TransactionKeepsImages ==
    ASSUME BoardTypeOK, NEW c \in Boards, Transaction(c), NEW id \in Ids, Image(els[id])
    PROVE  Image(els'[id]) \/ id \in named' \/ els[id].file \in files \ files'
<1> DEFINE changed == {x \in Ids : c.els[x] # els[x]}
           after == OnElements(c, changed)
           gone == files \ c.files
           end == OnFiles(after, gone)
<1>1. els' = end.els /\ files' = end.files /\ named' = changed
    BY DEF Transaction
<1>2. after \in Boards /\ after.files = c.files
    BY RepairedIs DEF OnElements
<1>3. end.files = c.files
    BY <1>2, RepairedIs DEF OnFiles
<1> SUFFICES ASSUME id \notin changed PROVE Image(end.els[id]) \/ els[id].file \in gone
    BY <1>1, <1>3
<1>4. c.els[id] = els[id]
    OBVIOUS
<1>5. Image(after.els[id]) /\ after.els[id].file = els[id].file
    BY <1>4, PassKeepsImages DEF OnElements
<1>6. CASE gone = {}
    BY <1>5, <1>6 DEF OnFiles
<1>7. CASE gone # {}
    <2>1. end = Repaired(after, Ids, gone)
        BY <1>7 DEF OnFiles
    <2>2. CASE id \in Survivors(after, gone)
        <3>1. after.els[id] \in Elements
            BY <1>2, <1>5 DEF Boards, Image, Absent
        <3>2. end.els[id] = Canonical(after, gone, id)
            BY <1>2, <2>1, <2>2, RepairedIs
        <3>3. Canonical(after, gone, id).type = after.els[id].type
            BY <1>2, <3>1, CanonicalIs
        <3> QED BY <1>5, <3>2, <3>3 DEF Image
    <2>3. CASE id \notin Survivors(after, gone)
        <3>1. DropsImage(after, after.els[id], gone)
            BY <1>5, <2>3 DEF Survivors, Renderable, Image
        <3> QED BY <1>5, <3>1 DEF DropsImage
    <2> QED BY <2>2, <2>3
<1> QED BY <1>6, <1>7

LEMMA ImagesKeptStep ==
    ASSUME BoardInv, [BoardNext]_boardVars, NEW id \in Ids
    PROVE  /\ Image(saved.els[id]) => Image(ColdRepaired(saved).els[id])
           /\ Image(els[id]) => \/ Image(els'[id])
                                \/ id \in named'
                                \/ els[id].file \in files \ files'
<1>0. BoardTypeOK /\ saved \in Boards /\ Live \in Boards
    BY DEF BoardInv, BoardTypeOK, Live, Boards
<1>1. Image(saved.els[id]) => Image(ColdRepaired(saved).els[id])
    BY <1>0, PassKeepsImages DEF ColdRepaired
<1>2. ASSUME NEW c \in Boards, Transaction(c), Image(els[id])
      PROVE  Image(els'[id]) \/ id \in named' \/ els[id].file \in files \ files'
    BY <1>0, <1>2, TransactionKeepsImages
<1>3. CASE els' = els
    BY <1>1, <1>3
<1>4. CASE Load
    BY <1>1, <1>4 DEF Load
<1>5. CASE \E c \in Boards : Transaction(c)
    BY <1>1, <1>2, <1>5
<1>6. els' = els \/ Load \/ \E c \in Boards : Transaction(c)
    BY <1>0, StepIsTransaction
<1> QED BY <1>3, <1>4, <1>5, <1>6

\* An image leaves a board only in a transaction that names it or removes its file, and no
\* load or migration loses one: for any elements, files and boards stored before.
THEOREM ImagesStay == BoardSpec => ImagesKept
<1>1. BoardSpec => []BoardInv
    BY BoardInvInit, BoardInvStep, PTL DEF BoardSpec
<1>2. ASSUME BoardInv, [BoardNext]_boardVars
      PROVE  [\A id \in Ids :
                /\ Image(saved.els[id]) => Image(ColdRepaired(saved).els[id])
                /\ Image(els[id]) => \/ Image(els'[id])
                                     \/ id \in named'
                                     \/ els[id].file \in files \ files']_boardVars
    BY <1>2, ImagesKeptStep
<1> QED BY <1>1, <1>2, PTL DEF BoardSpec, ImagesKept

-----------------------------------------------------------------------------
(* Sheets. Between pre-flight and commit browsers may write: what they set *)
(* moves the state vector, and the batch is refused; what they delete does *)
(* not, but only leaves less of what the pre-flight measured.              *)

PatchShape ==
    patch = [pc |-> patch.pc, batch |-> patch.batch, by |-> patch.by, admin |-> patch.admin,
             base |-> patch.base, before |-> patch.before, rules |-> patch.rules, status |-> patch.status]

\* a is what is left of b.
LeftOf(a, b) == DOMAIN a \subseteq DOMAIN b /\ \A k \in DOMAIN a : a[k] = b[k]

Readable(maps) == Decodable(maps) /\ PayloadBytes(maps) <= ReadCap

PatchOK ==
    /\ patch.batch \in Batches /\ BatchOk(patch.batch) /\ patch.base <= vector /\ patch.status = 0
    /\ IsFiniteSet(DOMAIN patch.before)
    /\ Readable(Patched(patch.before, patch.batch))
    /\ patch.base = vector => LeftOf(sheet, patch.before)

PatchInv ==
    /\ PatchShape /\ patch.base \in Int /\ vector \in Nat /\ rules \in RuleSets
    /\ IsFiniteSet(DOMAIN sheet) /\ IsFiniteSet(DOMAIN savedSheet)
    /\ patch.pc = "commit" => PatchOK
    /\ WrittenIsReadable /\ WritesExact

\* What a batch makes of less is less.
LEMMA PatchedLess ==
    ASSUME NEW a, NEW b, NEW batch, LeftOf(a, b)
    PROVE  LeftOf(Patched(a, batch), Patched(b, batch))
BY DEF LeftOf, Patched

LEMMA PatchedFinite ==
    ASSUME NEW a, NEW batch, IsFiniteSet(DOMAIN a), IsFiniteSet(DOMAIN batch)
    PROVE  IsFiniteSet(DOMAIN Patched(a, batch))
<1> DEFINE set == {k \in DOMAIN batch : batch[k] # "gone"}
<1>1. DOMAIN Patched(a, batch) = (DOMAIN a \ DOMAIN batch) \cup set
    BY DEF Patched
<1>2. IsFiniteSet(DOMAIN a \ DOMAIN batch) /\ IsFiniteSet(set)
    BY FS_Subset
<1> HIDE DEF set
<1> QED BY <1>1, <1>2, FS_Union

LEMMA PayloadIsNat ==
    ASSUME NEW maps, IsFiniteSet(DOMAIN maps)
    PROVE  PayloadBytes(maps) \in Nat
<1> DEFINE counted == DOMAIN maps \ Surface(maps, "drawings")
<1>1. IsFiniteSet(counted)
    BY FS_Subset
<1> HIDE DEF counted
<1>2. Cardinality(counted) \in Nat
    BY <1>1, FS_CardinalityType
<1> QED BY <1>2 DEF PayloadBytes, counted

\* And less of what can be read can be read.
LEMMA ReadableLess ==
    ASSUME NEW a, NEW b, LeftOf(a, b), IsFiniteSet(DOMAIN b), Readable(b)
    PROVE  Readable(a)
<1>1. Decodable(a)
    BY DEF LeftOf, Readable, Decodable
<1>2. PayloadBytes(a) <= ReadCap
    <2>1. DOMAIN a \ Surface(a, "drawings") \subseteq DOMAIN b \ Surface(b, "drawings")
        BY DEF LeftOf, Surface
    <2>2. IsFiniteSet(DOMAIN b \ Surface(b, "drawings")) /\ IsFiniteSet(DOMAIN a)
        BY FS_Subset DEF LeftOf
    <2>3. PayloadBytes(a) <= PayloadBytes(b)
        BY <2>1, <2>2, FS_Subset DEF PayloadBytes
    <2>4. PayloadBytes(a) \in Nat /\ PayloadBytes(b) \in Nat
        BY <2>2, PayloadIsNat
    <2>5. PayloadBytes(b) <= ReadCap /\ ReadCap \in Nat
        BY SheetAssumption DEF Readable
    <2> QED BY <2>3, <2>4, <2>5
<1> QED BY <1>1, <1>2 DEF Readable

\* The pre-flight that lets a batch through.
LEMMA PreflightPasses ==
    ASSUME NEW batch, NEW base, PatchPreflight(batch, base) = 0,
           IsFiniteSet(DOMAIN sheet), IsFiniteSet(DOMAIN batch)
    PROVE  base = vector /\ BatchOk(batch) /\ Readable(Patched(sheet, batch))
<1> DEFINE after == Patched(sheet, batch)
           rest == IF base # vector THEN 412
                   ELSE IF ~BatchOk(batch) THEN 422
                   ELSE IF ~Decodable(after) THEN 500
                   ELSE IF PayloadBytes(after) > ReadCap THEN 413
                   ELSE IF vector + Insertions(batch) > DocCap THEN 413
                   ELSE 0
<1>1. rest = 0
    <2>1. PatchPreflight(batch, base) = CASE ~ShapeOk(batch) -> 400
              [] ShapeOk(batch) /\ ~BoundsOk(batch) -> 413
              [] ShapeOk(batch) /\ BoundsOk(batch) -> rest
        BY DEF PatchPreflight
    <2> HIDE DEF rest
    <2>2. CASE ~ShapeOk(batch) BY <2>1, <2>2
    <2>3. CASE ShapeOk(batch) /\ ~BoundsOk(batch) BY <2>1, <2>3
    <2>4. CASE ShapeOk(batch) /\ BoundsOk(batch) BY <2>1, <2>4
    <2> QED BY <2>2, <2>3, <2>4
<1> HIDE DEF after
<1>2. base = vector /\ BatchOk(batch) /\ Decodable(after) /\ ~(PayloadBytes(after) > ReadCap)
    BY <1>1
<1>3. PayloadBytes(after) \in Nat /\ ReadCap \in Nat
    BY PatchedFinite, PayloadIsNat, SheetAssumption DEF after
<1>4. PayloadBytes(after) <= ReadCap
    BY <1>2, <1>3
<1> QED BY <1>2, <1>4 DEF Readable, after

LEMMA PreflightAnswers ==
    ASSUME NEW batch, NEW base
    PROVE  PatchPreflight(batch, base) \in {0, 400, 412, 413, 422, 500}
BY DEF PatchPreflight

LEMMA StartPatchIs ==
    ASSUME StartPatch
    PROVE  \E batch \in Batches, caller \in Senders, base \in {vector, vector - 1} :
             LET status == PatchPreflight(batch, base)
             IN  patch' = [pc |-> IF status = 0 THEN "commit" ELSE "done", batch |-> batch,
                           by |-> caller.uid, admin |-> caller.admin, base |-> base,
                           before |-> sheet, rules |-> rules, status |-> status]
<1>1. PICK batch \in Batches, caller \in Senders, base \in {vector, vector - 1} :
          LET status == PatchPreflight(batch, base)
          IN  patch' = [IdlePatch EXCEPT !.pc = IF status = 0 THEN "commit" ELSE "done",
                                         !.batch = batch, !.by = caller.uid, !.admin = caller.admin,
                                         !.base = base, !.before = sheet, !.rules = rules,
                                         !.status = status]
    BY DEF StartPatch
<1> DEFINE status == PatchPreflight(batch, base)
<1>2. patch' = [pc |-> IF status = 0 THEN "commit" ELSE "done", batch |-> batch,
                by |-> caller.uid, admin |-> caller.admin, base |-> base,
                before |-> sheet, rules |-> rules, status |-> status]
    BY <1>1 DEF IdlePatch
<1> QED BY <1>2

LEMMA CommitPatchIs ==
    ASSUME PatchShape, CommitPatch
    PROVE  LET status == IF patch.base # vector THEN 412
                         ELSE IF ~WriteAllowed(rules, Grants, patch.by, patch.admin, DOMAIN patch.batch) THEN 403
                         ELSE IF ~BatchOk(patch.batch) THEN 422
                         ELSE 200
           IN  patch' = [pc |-> "done", batch |-> patch.batch, by |-> patch.by, admin |-> patch.admin,
                         base |-> patch.base, before |-> sheet, rules |-> rules, status |-> status]
<1> DEFINE status == IF patch.base # vector THEN 412
                     ELSE IF ~WriteAllowed(rules, Grants, patch.by, patch.admin, DOMAIN patch.batch) THEN 403
                     ELSE IF ~BatchOk(patch.batch) THEN 422
                     ELSE 200
<1>1. patch' = [patch EXCEPT !.pc = "done", !.status = status, !.before = sheet, !.rules = rules]
    BY DEF CommitPatch
<1> HIDE DEF status
<1>2. patch' = [pc |-> "done", batch |-> patch.batch, by |-> patch.by, admin |-> patch.admin,
                base |-> patch.base, before |-> sheet, rules |-> rules, status |-> status]
    BY <1>1 DEF PatchShape
<1> QED BY <1>2 DEF status

-----------------------------------------------------------------------------
(* Protection. A rectangle in the order it should have been stored in.     *)

LEMMA NormalOrder ==
    ASSUME NEW r \in Rectangles
    PROVE  LET n == Normal(r)
           IN  /\ n[1] \in Int /\ n[2] \in Int /\ n[3] \in Int /\ n[4] \in Int
               /\ n[1] <= n[3] /\ n[2] <= n[4]
               /\ n[1] <= MaxPlace /\ n[2] <= MaxPlace
               /\ \A x \in Int : Between(x, r[1], r[3]) <=> n[1] <= x /\ x <= n[3]
               /\ \A x \in Int : Between(x, r[2], r[4]) <=> n[2] <= x /\ x <= n[4]
<1>1. r[1] \in Int /\ r[2] \in Int /\ r[3] \in Int /\ r[4] \in Int
    BY DEF Rectangles
<1>2. r[1] <= MaxPlace /\ r[2] <= MaxPlace /\ r[3] <= MaxPlace /\ r[4] <= MaxPlace
    BY DEF Rectangles
<1>3. MaxPlace \in Int
    BY SheetAssumption
<1> QED BY <1>1, <1>2, <1>3 DEF Normal, Smaller, Larger, Between

\* What a write touches inside a rectangle, crosses it.
LEMMA TouchCrosses ==
    ASSUME NEW key, AddressOk(key), key.on \notin {"links", "drawings"},
           NEW r \in Rectangles, NEW c \in Touched(key), In(c, r)
    PROVE  Crosses(key, Normal(r))
<1> DEFINE n == Normal(r)
<1>1. /\ n[1] \in Int /\ n[2] \in Int /\ n[3] \in Int /\ n[4] \in Int
      /\ \A x \in Int : Between(x, r[1], r[3]) <=> n[1] <= x /\ x <= n[3]
      /\ \A x \in Int : Between(x, r[2], r[4]) <=> n[2] <= x /\ x <= n[4]
    BY NormalOrder
<1>2. Between(c[1], r[1], r[3]) /\ Between(c[2], r[2], r[4])
    BY DEF In
<1>3. MaxPlace \in Nat
    BY SheetAssumption
<1> HIDE DEF n
<1>4. c[1] \in Int /\ c[2] \in Int => n[1] <= c[1] /\ c[1] <= n[3] /\ n[2] <= c[2] /\ c[2] <= n[4]
    BY <1>1, <1>2
<1>5. CASE key.on = "cells"
    <2>1. c = <<key.at[1], key.at[2]>> /\ key.at \in Coordinates \X Coordinates \X Nat
        BY <1>5 DEF Touched, AddressOk
    <2>2. c[1] = key.at[1] /\ c[2] = key.at[2] /\ key.at[1] \in Int /\ key.at[2] \in Int
        BY <2>1, <1>3 DEF Coordinates
    <2>3. Overlaps(<<key.at[1], key.at[2], key.at[1], key.at[2]>>, n)
        BY <2>2, <1>4, <1>1 DEF Overlaps
    <2> QED BY <2>3, <1>5 DEF Crosses, n
<1>6. CASE key.on = "dims"
    <2>1. /\ key.at \in {"r", "c"} \X Coordinates
          /\ c \in Grid /\ c[IF key.at[1] = "c" THEN 2 ELSE 1] = key.at[2]
        BY <1>6 DEF Touched, AddressOk
    <2>2. c[1] \in Int /\ c[2] \in Int
        BY <2>1, <1>3 DEF Grid, Coordinates
    <2>3. IF key.at[1] = "c" THEN key.at[2] \in n[2]..n[4] ELSE key.at[2] \in n[1]..n[3]
        BY <2>1, <2>2, <1>4, <1>1
    <2> QED BY <2>3, <1>6 DEF Crosses, n
<1>7. CASE key.on = "merges"
    <2>1. /\ key.at \in Coordinates \X Coordinates \X Coordinates \X Coordinates
          /\ c \in Grid /\ c[1] \in key.at[1]..key.at[3] /\ c[2] \in key.at[2]..key.at[4]
        BY <1>7 DEF Touched, AddressOk
    <2>2. /\ key.at[1] \in Int /\ key.at[2] \in Int /\ key.at[3] \in Int /\ key.at[4] \in Int
          /\ c[1] \in Int /\ c[2] \in Int
        BY <2>1, <1>3 DEF Grid, Coordinates
    <2>3. Overlaps(key.at, n)
        BY <2>1, <2>2, <1>4, <1>1 DEF Overlaps
    <2> QED BY <2>3, <1>7 DEF Crosses, n
<1>8. CASE key.on = "tabs"
    BY <1>8 DEF Crosses
<1> QED BY <1>5, <1>6, <1>7, <1>8 DEF AddressOk

\* A rectangle that holds cells and is crossed is touched in one of them.
LEMMA CrossTouches ==
    ASSUME NEW key, AddressOk(key), Upright(key), key.on \notin {"links", "drawings"},
           NEW r \in Rectangles, Legible(r), Crosses(key, Normal(r))
    PROVE  \E c \in Touched(key) : In(c, r)
<1> DEFINE n == Normal(r)
<1>1. /\ n[1] \in Int /\ n[2] \in Int /\ n[3] \in Int /\ n[4] \in Int
      /\ n[1] <= n[3] /\ n[2] <= n[4]
      /\ n[1] <= MaxPlace /\ n[2] <= MaxPlace
      /\ \A x \in Int : Between(x, r[1], r[3]) <=> n[1] <= x /\ x <= n[3]
      /\ \A x \in Int : Between(x, r[2], r[4]) <=> n[2] <= x /\ x <= n[4]
    BY NormalOrder
<1>2. n[3] >= 0 /\ n[4] >= 0
    BY DEF Legible
<1>3. MaxPlace \in Nat
    BY SheetAssumption
<1>x. Crosses(key, n)
    OBVIOUS
<1> HIDE DEF n
<1>4. SUFFICES \E x, y \in Coordinates : /\ <<x, y>> \in Touched(key)
                                  /\ n[1] <= x /\ x <= n[3] /\ n[2] <= y /\ y <= n[4]
    BY <1>1, <1>3 DEF In, Coordinates
<1>5. CASE key.on = "cells"
    <2>1. /\ key.at \in Coordinates \X Coordinates \X Nat
          /\ Overlaps(<<key.at[1], key.at[2], key.at[1], key.at[2]>>, n)
          /\ <<key.at[1], key.at[2]>> \in Touched(key)
        BY <1>5, <1>x DEF Touched, AddressOk, Crosses
    <2>2. key.at[1] \in Coordinates /\ key.at[2] \in Coordinates
        BY <2>1
    <2> QED BY <2>1, <2>2 DEF Overlaps
<1>6. CASE key.on = "dims"
    <2>1. /\ key.at \in {"r", "c"} \X Coordinates
          /\ Touched(key) = {c \in Grid : c[IF key.at[1] = "c" THEN 2 ELSE 1] = key.at[2]}
          /\ IF key.at[1] = "c" THEN key.at[2] \in n[2]..n[4] ELSE key.at[2] \in n[1]..n[3]
        BY <1>6, <1>x DEF Touched, AddressOk, Crosses
    <2>2. key.at[2] \in Coordinates /\ key.at[2] \in Int
        BY <2>1, <1>3 DEF Coordinates
    <2>3. CASE key.at[1] = "c"
        <3>1. /\ Larger(0, n[1]) \in Coordinates
              /\ n[1] <= Larger(0, n[1]) /\ Larger(0, n[1]) <= n[3]
            BY <1>1, <1>2, <1>3 DEF Larger, Coordinates
        <3>2. <<Larger(0, n[1]), key.at[2]>> \in Touched(key)
            BY <3>1, <2>1, <2>2, <2>3 DEF Grid
        <3>3. n[2] <= key.at[2] /\ key.at[2] <= n[4]
            BY <2>1, <2>3, <1>1
        <3> QED BY <3>1, <3>2, <3>3, <2>2
    <2>4. CASE key.at[1] # "c"
        <3>1. /\ Larger(0, n[2]) \in Coordinates
              /\ n[2] <= Larger(0, n[2]) /\ Larger(0, n[2]) <= n[4]
            BY <1>1, <1>2, <1>3 DEF Larger, Coordinates
        <3>2. <<key.at[2], Larger(0, n[2])>> \in Touched(key)
            BY <3>1, <2>1, <2>2, <2>4 DEF Grid
        <3>3. n[1] <= key.at[2] /\ key.at[2] <= n[3]
            BY <2>1, <2>4, <1>1
        <3> QED BY <3>1, <3>2, <3>3, <2>2
    <2> QED BY <2>3, <2>4
<1>7. CASE key.on = "merges"
    <2>1. /\ key.at \in Coordinates \X Coordinates \X Coordinates \X Coordinates
          /\ Overlaps(key.at, n)
          /\ Touched(key) = {c \in Grid : c[1] \in key.at[1]..key.at[3] /\ c[2] \in key.at[2]..key.at[4]}
        BY <1>7, <1>x DEF Touched, AddressOk, Crosses
    <2>2. /\ key.at[1] \in Coordinates /\ key.at[2] \in Coordinates /\ key.at[3] \in Coordinates /\ key.at[4] \in Coordinates
          /\ key.at[1] <= key.at[3] /\ key.at[2] <= key.at[4]
        BY <2>1, <1>7 DEF Upright
    <2> DEFINE x == Larger(key.at[1], n[1])
               y == Larger(key.at[2], n[2])
    <2>3. /\ x \in Coordinates /\ x \in key.at[1]..key.at[3] /\ n[1] <= x /\ x <= n[3]
          /\ y \in Coordinates /\ y \in key.at[2]..key.at[4] /\ n[2] <= y /\ y <= n[4]
        BY <2>1, <2>2, <1>1, <1>3 DEF Overlaps, Larger, Coordinates
    <2> HIDE DEF x, y
    <2>4. <<x, y>> \in Touched(key)
        BY <2>1, <2>3 DEF Grid
    <2> QED BY <2>3, <2>4
<1>8. CASE key.on = "tabs"
    <2>1. /\ Larger(0, n[1]) \in Coordinates /\ n[1] <= Larger(0, n[1]) /\ Larger(0, n[1]) <= n[3]
          /\ Larger(0, n[2]) \in Coordinates /\ n[2] <= Larger(0, n[2]) /\ Larger(0, n[2]) <= n[4]
        BY <1>1, <1>2, <1>3 DEF Larger, Coordinates
    <2>2. <<Larger(0, n[1]), Larger(0, n[2])>> \in Touched(key)
        BY <2>1, <1>8 DEF Touched, Grid
    <2> QED BY <2>1, <2>2
<1> QED BY <1>5, <1>6, <1>7, <1>8 DEF AddressOk

\* One who is granted a rule is permitted under its permission: NoOne is a record of no grant.
LEMMA GrantIsPermission ==
    ASSUME NEW rule, rule.object \in BOOLEAN, NEW uid
    PROVE  GrantedBy(rule, uid) <=> Permitted(Grants, Permission(rule), uid)
<1>1. CASE rule.object = TRUE
    BY <1>1 DEF GrantedBy, Permitted, Permission
<1>2. CASE rule.object = FALSE
    BY <1>2, SheetAssumption DEF GrantedBy, Permitted, Permission
<1> QED BY <1>1, <1>2

LEMMA IllegibleIs ==
    ASSUME NEW r \in Rectangles \cup {Junk}
    PROVE  ~Legible(r) <=> r = Junk \/ (r[1] < 0 /\ r[3] < 0) \/ (r[2] < 0 /\ r[4] < 0)
<1>1. CASE r = Junk
    BY <1>1 DEF Legible
<1>2. CASE r \in Rectangles
    <2>1. r # Junk
        BY <1>2, SheetAssumption
    <2>2. r[1] \in Int /\ r[2] \in Int /\ r[3] \in Int /\ r[4] \in Int
        BY <1>2 DEF Rectangles
    <2> QED BY <2>1, <2>2 DEF Legible, Normal, Larger, Smaller
<1> QED BY <1>1, <1>2

\* A rule without limits locks its sheet, or the document.
LEMMA BoundlessLocks ==
    ASSUME NEW rule, rule.object \in BOOLEAN, rule.ranges \subseteq Rectangles \cup {Junk}
    PROVE  Boundless(rule) <=> rule.sheet = NoSheet \/ LocksSheet(rule)
<1>1. Malformed(rule) <=> \/ Junk \in rule.ranges
                          \/ \E r \in rule.ranges \ {Junk} : (r[1] < 0 /\ r[3] < 0) \/ (r[2] < 0 /\ r[4] < 0)
    BY IllegibleIs DEF Malformed
<1>2. Permission(rule) = NoOne <=> ~rule.object \/ rule.permission = NoOne
    BY DEF Permission
<1>3. rule.ranges = {} => Rects(rule) = {}
    BY DEF Rects
<1>4. Rects(rule) = {} /\ ~Malformed(rule) => rule.ranges = {}
    BY DEF Rects, Malformed
<1> QED BY <1>1, <1>2, <1>3, <1>4 DEF Boundless, LocksSheet

\* A rule that may cover what a key writes blocks whom it does not grant.
LEMMA CoverBlocks ==
    ASSUME NEW set \in RuleSets, NEW key, AddressOk(key), NEW uid,
           NEW rule \in set, MayCover(rule, key), ~GrantedBy(rule, uid)
    PROVE  Blocked(set, Grants, uid, key)
<1>1. rule.object \in BOOLEAN /\ rule.ranges \subseteq Rectangles \cup {Junk}
    BY SheetAssumption
<1>2. ~Permitted(Grants, Permission(rule), uid)
    BY <1>1, GrantIsPermission
<1>3. key.on \in {"cells", "dims", "merges", "tabs"} /\ key.on \notin {"links", "drawings"}
    BY DEF MayCover, AddressOk
<1>4. CASE rule.sheet = NoSheet
    <2>1. Permission(rule) \in DocWide(set)
        BY <1>4 DEF DocWide
    <2> QED BY <2>1, <1>2, <1>3 DEF Blocked
<1>5. CASE rule.sheet # NoSheet /\ LocksSheet(rule)
    <2>1. rule.sheet = SheetOf(key)
        BY <1>5 DEF MayCover
    <2>2. Permission(rule) \in Whole(set, SheetOf(key))
        BY <2>1, <1>5 DEF Whole
    <2> QED BY <2>2, <1>2, <1>3 DEF Blocked
<1>6. CASE rule.sheet # NoSheet /\ ~LocksSheet(rule)
    <2>1. rule.sheet = SheetOf(key) /\ ~Boundless(rule)
        BY <1>6, <1>1, BoundlessLocks DEF MayCover
    <2>2. PICK c \in Touched(key), r \in rule.ranges : In(c, r)
        BY <2>1 DEF MayCover
    <2>3. Legible(r)
        BY <1>6 DEF LocksSheet, Malformed
    <2>4. r \in Rectangles
        BY <2>3, <1>1 DEF Legible
    <2>5. Crosses(key, Normal(r))
        BY <2>2, <2>4, <1>3, TouchCrosses
    <2>6. Normal(r) \in Rects(rule)
        BY <2>3 DEF Rects
    <2> DEFINE g == [rect |-> Normal(r), permission |-> rule.permission]
    <2>7. g \in Guarded(set, SheetOf(key))
        BY <2>6, <2>1, <1>6 DEF Guarded
    <2>8. Permission(rule) = rule.permission
        BY <1>6, <1>1 DEF LocksSheet, Permission
    <2>9. g.rect = Normal(r) /\ g.permission = rule.permission
        OBVIOUS
    <2> HIDE DEF g
    <2> QED BY <2>5, <2>7, <2>8, <2>9, <1>2, <1>3 DEF Blocked
<1> QED BY <1>4, <1>5, <1>6

\* And nothing else does.
LEMMA BlockCovers ==
    ASSUME NEW set \in RuleSets, NEW key, AddressOk(key), Upright(key), NEW uid,
           Blocked(set, Grants, uid, key)
    PROVE  \E rule \in set : MayCover(rule, key) /\ ~GrantedBy(rule, uid)
<1>1. \A rule \in set : rule.object \in BOOLEAN /\ rule.ranges \subseteq Rectangles \cup {Junk}
    BY SheetAssumption
<1>2. key.on \notin {"links", "drawings"}
    BY DEF Blocked
<1>3. CASE \E p \in DocWide(set) : ~Permitted(Grants, p, uid)
    <2>1. PICK rule \in set : rule.sheet = NoSheet /\ ~Permitted(Grants, Permission(rule), uid)
        BY <1>3 DEF DocWide
    <2>2. Boundless(rule) /\ ~GrantedBy(rule, uid)
        BY <2>1, <1>1, BoundlessLocks, GrantIsPermission
    <2> QED BY <2>1, <2>2, <1>2 DEF MayCover
<1>4. CASE \E p \in Whole(set, SheetOf(key)) : ~Permitted(Grants, p, uid)
    <2>1. PICK rule \in set : /\ rule.sheet = SheetOf(key) /\ LocksSheet(rule)
                              /\ ~Permitted(Grants, Permission(rule), uid)
        BY <1>4 DEF Whole
    <2>2. Boundless(rule) /\ ~GrantedBy(rule, uid)
        BY <2>1, <1>1, BoundlessLocks, GrantIsPermission
    <2> QED BY <2>1, <2>2, <1>2 DEF MayCover
<1>5. CASE \E g \in Guarded(set, SheetOf(key)) :
             Crosses(key, g.rect) /\ ~Permitted(Grants, g.permission, uid)
    <2>1. PICK rule \in set : \E rect \in Rects(rule) :
             /\ rule.sheet = SheetOf(key) /\ ~LocksSheet(rule)
             /\ Crosses(key, rect) /\ ~Permitted(Grants, rule.permission, uid)
        BY <1>5 DEF Guarded
    <2>2. PICK r \in rule.ranges : Legible(r) /\ Crosses(key, Normal(r))
        BY <2>1 DEF Rects
    <2>3. r \in Rectangles
        BY <2>2, <1>1 DEF Legible
    <2>4. \E c \in Touched(key) : In(c, r)
        BY <2>1, <2>2, <2>3, <1>2, CrossTouches
    <2>5. MayCover(rule, key)
        BY <2>1, <2>4, <1>2 DEF MayCover
    <2>6. Permission(rule) = rule.permission
        BY <2>1, <1>1 DEF LocksSheet, Permission
    <2>7. ~GrantedBy(rule, uid)
        BY <2>1, <2>6, <1>1, GrantIsPermission
    <2> QED BY <2>5, <2>7
<1> QED BY <1>3, <1>4, <1>5 DEF Blocked

-----------------------------------------------------------------------------
(* The steps.                                                              *)

LEMMA SheetStarts == SheetInit => PatchInv
<1> SUFFICES ASSUME SheetInit PROVE PatchInv
    OBVIOUS
<1>1. patch = IdlePatch /\ savedSheet = NoBatch /\ sheet \in Sheets /\ rules \in RuleSets
    BY DEF SheetInit
<1>2. IsFiniteSet(DOMAIN sheet)
    BY <1>1, SheetAssumption
<1>3. IsFiniteSet(DOMAIN savedSheet)
    BY <1>1, FS_EmptySet DEF NoBatch
<1>4. vector \in Nat
    BY <1>2, FS_CardinalityType DEF SheetInit
<1>5. /\ PatchShape /\ patch.base = 0 /\ patch.pc = "idle" /\ patch.status = 0
    BY <1>1 DEF PatchShape, IdlePatch
<1>6. WrittenIsReadable /\ WritesExact
    BY <1>5 DEF WrittenIsReadable, WritesExact
<1> QED BY <1>1, <1>2, <1>3, <1>4, <1>5, <1>6 DEF PatchInv

\* A step that leaves the batch as it is.
LEMMA PatchRests ==
    ASSUME PatchInv, UNCHANGED patch, vector' \in Nat, vector <= vector', rules' \in RuleSets,
           IsFiniteSet(DOMAIN sheet'), IsFiniteSet(DOMAIN savedSheet'),
           vector' = vector => LeftOf(sheet', sheet)
    PROVE  PatchInv'
<1>1. PatchShape' /\ WrittenIsReadable' /\ WritesExact' /\ patch'.base \in Int
    BY DEF PatchInv, PatchShape, WrittenIsReadable, WritesExact
<1>2. ASSUME patch.pc = "commit" PROVE PatchOK'
    <2>1. PatchOK
        BY <1>2 DEF PatchInv
    <2>2. patch'.base <= vector'
        BY <2>1 DEF PatchOK, PatchInv
    <2>3. ASSUME patch.base = vector' PROVE LeftOf(sheet', patch.before)
        <3>1. vector' = vector
            BY <2>1, <2>3 DEF PatchOK, PatchInv
        <3>2. LeftOf(sheet', sheet) /\ LeftOf(sheet, patch.before)
            BY <3>1, <2>1, <2>3 DEF PatchOK
        <3> QED BY <3>2 DEF LeftOf
    <2> QED BY <2>1, <2>2, <2>3 DEF PatchOK, BatchOk, Readable, Decodable
<1> QED BY <1>1, <1>2 DEF PatchInv

LEMMA StartPatchStep == PatchInv /\ StartPatch => PatchInv'
<1> SUFFICES ASSUME PatchInv, StartPatch PROVE PatchInv'
    OBVIOUS
<1>1. PICK batch \in Batches, caller \in Senders, base \in {vector, vector - 1} :
          LET status == PatchPreflight(batch, base)
          IN  patch' = [pc |-> IF status = 0 THEN "commit" ELSE "done", batch |-> batch,
                        by |-> caller.uid, admin |-> caller.admin, base |-> base,
                        before |-> sheet, rules |-> rules, status |-> status]
    BY StartPatchIs
<1> DEFINE status == PatchPreflight(batch, base)
<1>2. status \in {0, 400, 412, 413, 422, 500}
    BY PreflightAnswers
<1>3. status = 0 => base = vector /\ BatchOk(batch) /\ Readable(Patched(sheet, batch))
    BY PreflightPasses, SheetAssumption DEF PatchInv
<1> HIDE DEF status
<1>4. /\ patch'.pc = IF status = 0 THEN "commit" ELSE "done"
      /\ patch'.batch = batch /\ patch'.base = base /\ patch'.before = sheet /\ patch'.status = status
      /\ PatchShape'
    BY <1>1 DEF PatchShape, status
<1>5. UNCHANGED <<sheet, rules, vector, savedSheet>>
    BY DEF StartPatch
<1>6. WrittenIsReadable' /\ WritesExact'
    BY <1>2, <1>4 DEF WrittenIsReadable, WritesExact
<1>7. patch'.pc = "commit" => PatchOK'
    <2> SUFFICES ASSUME status = 0 PROVE PatchOK'
        BY <1>4
    <2> QED BY <1>3, <1>4, <1>5 DEF PatchOK, PatchInv, LeftOf, Readable, BatchOk, Decodable
<1> QED BY <1>4, <1>5, <1>6, <1>7 DEF PatchInv

LEMMA CommitPatchStep == PatchInv /\ CommitPatch => PatchInv'
<1> SUFFICES ASSUME PatchInv, CommitPatch PROVE PatchInv'
    OBVIOUS
<1> DEFINE allowed == WriteAllowed(rules, Grants, patch.by, patch.admin, DOMAIN patch.batch)
           status == IF patch.base # vector THEN 412
                     ELSE IF ~allowed THEN 403
                     ELSE IF ~BatchOk(patch.batch) THEN 422
                     ELSE 200
<1>1. patch' = [pc |-> "done", batch |-> patch.batch, by |-> patch.by, admin |-> patch.admin,
                base |-> patch.base, before |-> sheet, rules |-> rules, status |-> status]
    BY CommitPatchIs DEF PatchInv
<1>2. /\ IF status = 200
         THEN sheet' = Patched(sheet, patch.batch) /\ vector' = vector + Insertions(patch.batch) + 1
         ELSE UNCHANGED <<sheet, vector>>
      /\ UNCHANGED <<rules, savedSheet>>
    BY DEF CommitPatch
<1>3. PatchOK /\ patch.pc = "commit"
    BY DEF PatchInv, CommitPatch
<1>4. status = 200 => patch.base = vector /\ allowed
    OBVIOUS
<1>5. status = 403 => ~allowed
    OBVIOUS
<1> HIDE DEF status
<1>6. /\ PatchShape' /\ patch'.pc = "done" /\ patch'.batch = patch.batch /\ patch'.by = patch.by
      /\ patch'.admin = patch.admin /\ patch'.base = patch.base /\ patch'.before = sheet
      /\ patch'.rules = rules /\ patch'.status = status
    BY <1>1 DEF PatchShape
<1>7. IsFiniteSet(DOMAIN patch.batch)
    BY <1>3, SheetAssumption DEF PatchOK
<1>8. vector' \in Nat /\ IsFiniteSet(DOMAIN sheet') /\ IsFiniteSet(DOMAIN savedSheet') /\ rules' \in RuleSets
    <2>1. Insertions(patch.batch) \in Nat
        <3>1. IsFiniteSet({k \in DOMAIN patch.batch : patch.batch[k] # "gone"})
            BY <1>7, FS_Subset
        <3> QED BY <3>1, FS_CardinalityType DEF Insertions
    <2>2. IsFiniteSet(DOMAIN Patched(sheet, patch.batch))
        BY <1>7, PatchedFinite DEF PatchInv
    <2> QED BY <1>2, <2>1, <2>2 DEF PatchInv
<1>9. WrittenIsReadable'
    <2> SUFFICES ASSUME status = 200
                 PROVE  LET after == Patched(sheet, patch.batch)
                        IN  /\ Decodable(after)
                            /\ Cardinality({k \in DOMAIN after : k.on # "drawings"}) <= ReadCap
        BY <1>6 DEF WrittenIsReadable, Decodable
    <2> DEFINE after == Patched(sheet, patch.batch)
               before == Patched(patch.before, patch.batch)
    <2>1. LeftOf(after, before)
        BY <1>3, <1>4, PatchedLess DEF PatchOK
    <2>2. IsFiniteSet(DOMAIN before) /\ Readable(before)
        BY <1>3, <1>7, PatchedFinite DEF PatchOK
    <2> HIDE DEF after, before
    <2>3. Readable(after)
        BY <2>1, <2>2, ReadableLess
    <2>4. {k \in DOMAIN after : k.on # "drawings"} = DOMAIN after \ Surface(after, "drawings")
        BY DEF Surface
    <2>5. Decodable(after) /\ Cardinality({k \in DOMAIN after : k.on # "drawings"}) <= ReadCap
        BY <2>3, <2>4 DEF Readable, PayloadBytes
    <2> QED BY <2>5 DEF after
<1>10. WritesExact'
    <2> DEFINE keys == DOMAIN patch.batch
               granted == \A key \in keys, rule \in rules :
                             MayCover(rule, key) => GrantedBy(rule, patch.by)
    <2> SUFFICES ASSUME ~patch.admin
                 PROVE  /\ status = 200 => granted
                        /\ status = 403 /\ (\A key \in keys : Upright(key)) => ~granted
        BY <1>6 DEF WritesExact, MayCover, GrantedBy, Upright
    <2>1. allowed <=> \A key \in keys : ~Blocked(rules, Grants, patch.by, key)
        BY DEF WriteAllowed
    <2>2. rules \in RuleSets /\ \A key \in keys : AddressOk(key)
        BY <1>3, SheetAssumption DEF PatchInv, PatchOK
    <2> HIDE DEF keys
    <2>3. allowed => granted
        BY <2>1, <2>2, CoverBlocks
    <2>4. ~allowed /\ (\A key \in keys : Upright(key)) => ~granted
        BY <2>1, <2>2, BlockCovers
    <2> QED BY <1>4, <1>5, <2>3, <2>4
<1> QED BY <1>6, <1>8, <1>9, <1>10 DEF PatchInv

LEMMA DeletionsLeaveLess ==
    ASSUME NEW maps, NEW batch, \A k \in DOMAIN batch : batch[k] = "gone"
    PROVE  LeftOf(Patched(maps, batch), maps)
<1> DEFINE set == {k \in DOMAIN batch : batch[k] # "gone"}
           keys == DOMAIN maps \ DOMAIN batch
<1>1. set = {}
    OBVIOUS
<1>2. Patched(maps, batch) = [k \in keys \cup set |-> IF k \in set THEN batch[k] ELSE maps[k]]
    BY DEF Patched
<1>3. keys \subseteq DOMAIN maps
    OBVIOUS
<1> HIDE DEF set, keys
<1>4. Patched(maps, batch) = [k \in keys |-> maps[k]]
    BY <1>1, <1>2
<1> QED BY <1>3, <1>4 DEF LeftOf

LEMMA BrowserSetsStep == PatchInv /\ BrowserSets => PatchInv'
<1> SUFFICES ASSUME PatchInv, BrowserSets PROVE PatchInv'
    OBVIOUS
<1>1. UNCHANGED patch /\ UNCHANGED savedSheet /\ vector' = vector + 1
    BY DEF BrowserSets
<1>2. rules' \in RuleSets
    BY DEF BrowserSets, PatchInv
<1>3. IsFiniteSet(DOMAIN sheet')
    <2>1. sheet' = sheet \/ \E k \in BrowserKeys, v \in {"good", "bad"} : sheet' = Patched(sheet, [x \in {k} |-> v])
        BY DEF BrowserSets
    <2>2. \A k, v : IsFiniteSet(DOMAIN [x \in {k} |-> v])
        BY FS_Singleton
    <2> QED BY <2>1, <2>2, PatchedFinite DEF PatchInv
<1>4. vector' \in Nat /\ vector < vector'
    BY <1>1 DEF PatchInv
<1>5. vector \in Nat /\ IsFiniteSet(DOMAIN savedSheet')
    BY <1>1 DEF PatchInv
<1>6. vector <= vector' /\ vector' # vector
    BY <1>4, <1>5
<1> QED BY <1>1, <1>2, <1>3, <1>4, <1>5, <1>6, PatchRests

LEMMA BrowserDeletesStep == PatchInv /\ BrowserDeletes => PatchInv'
<1> SUFFICES ASSUME PatchInv, BrowserDeletes PROVE PatchInv'
    OBVIOUS
<1>1. UNCHANGED <<patch, savedSheet, vector>>
    BY DEF BrowserDeletes
<1>2. rules' \in RuleSets
    BY DEF BrowserDeletes, PatchInv
<1>3. LeftOf(sheet', sheet)
    <2>1. sheet' = sheet \/ \E k \in BrowserKeys : sheet' = Patched(sheet, [x \in {k} |-> "gone"])
        BY DEF BrowserDeletes
    <2>2. CASE sheet' = sheet
        BY <2>2 DEF LeftOf
    <2>3. ASSUME NEW k, sheet' = Patched(sheet, [x \in {k} |-> "gone"]) PROVE LeftOf(sheet', sheet)
        <3> DEFINE batch == [x \in {k} |-> "gone"]
        <3>1. \A x \in DOMAIN batch : batch[x] = "gone"
            OBVIOUS
        <3>2. sheet' = Patched(sheet, batch)
            BY <2>3
        <3> HIDE DEF batch
        <3> QED BY <3>1, <3>2, DeletionsLeaveLess
    <2> QED BY <2>1, <2>2, <2>3
<1>4. IsFiniteSet(DOMAIN sheet')
    BY <1>3, FS_Subset DEF PatchInv, LeftOf
<1>5. vector' \in Nat /\ vector <= vector' /\ IsFiniteSet(DOMAIN savedSheet')
    BY <1>1 DEF PatchInv
<1> QED BY <1>1, <1>2, <1>3, <1>4, <1>5, PatchRests

LEMMA SaveVersionStep == PatchInv /\ SaveVersion => PatchInv'
<1> SUFFICES ASSUME PatchInv, SaveVersion PROVE PatchInv'
    OBVIOUS
<1>1. UNCHANGED <<patch, sheet, vector, rules>> /\ savedSheet' = sheet
    BY DEF SaveVersion
<1>2. LeftOf(sheet', sheet)
    BY <1>1 DEF LeftOf
<1>3. vector' \in Nat /\ vector <= vector' /\ rules' \in RuleSets
      /\ IsFiniteSet(DOMAIN sheet') /\ IsFiniteSet(DOMAIN savedSheet')
    BY <1>1 DEF PatchInv
<1> QED BY <1>1, <1>2, <1>3, PatchRests

LEMMA RestoreSheetStep == PatchInv /\ RestoreSheet => PatchInv'
<1> SUFFICES ASSUME PatchInv, RestoreSheet PROVE PatchInv'
    OBVIOUS
<1>1. UNCHANGED <<patch, rules, savedSheet>>
    BY DEF RestoreSheet
<1>2. \/ UNCHANGED <<sheet, vector>>
      \/ sheet' = savedSheet /\ vector' = vector + Cardinality(DOMAIN savedSheet)
    BY DEF RestoreSheet
<1>3. vector \in Nat /\ IsFiniteSet(DOMAIN sheet) /\ IsFiniteSet(DOMAIN savedSheet) /\ rules \in RuleSets
    BY DEF PatchInv
<1>4. Cardinality(DOMAIN savedSheet) \in Nat
    BY <1>3, FS_CardinalityType
<1>5. vector' \in Nat /\ vector <= vector'
    BY <1>2, <1>3, <1>4
<1>6. ASSUME vector' = vector PROVE LeftOf(sheet', sheet)
    <2>1. CASE UNCHANGED sheet
        BY <2>1 DEF LeftOf
    <2>2. CASE sheet' = savedSheet /\ vector' = vector + Cardinality(DOMAIN savedSheet)
        <3>1. Cardinality(DOMAIN savedSheet) = 0
            BY <2>2, <1>6, <1>3, <1>4
        <3>2. DOMAIN savedSheet = {}
            BY <3>1, <1>3, FS_EmptySet
        <3> QED BY <3>2, <2>2 DEF LeftOf
    <2> QED BY <1>2, <2>1, <2>2
<1>7. IsFiniteSet(DOMAIN sheet') /\ IsFiniteSet(DOMAIN savedSheet') /\ rules' \in RuleSets
    BY <1>1, <1>2, <1>3
<1> QED BY <1>1, <1>5, <1>6, <1>7, PatchRests

LEMMA ReadPageOfStep == PatchInv /\ (ReadPageOf \/ UNCHANGED sheetVars) => PatchInv'
<1> SUFFICES ASSUME PatchInv, ReadPageOf \/ UNCHANGED sheetVars PROVE PatchInv'
    OBVIOUS
<1>1. UNCHANGED <<sheet, rules, vector, savedSheet, patch>>
    BY DEF ReadPageOf, sheetVars
<1>2. LeftOf(sheet', sheet)
    BY <1>1 DEF LeftOf
<1>3. vector' \in Nat /\ vector <= vector' /\ rules' \in RuleSets
      /\ IsFiniteSet(DOMAIN sheet') /\ IsFiniteSet(DOMAIN savedSheet')
    BY <1>1 DEF PatchInv
<1> QED BY <1>1, <1>2, <1>3, PatchRests

LEMMA PatchSteps == PatchInv /\ [SheetWrites \/ SheetReads]_sheetVars => PatchInv'
BY StartPatchStep, CommitPatchStep, BrowserSetsStep, BrowserDeletesStep, SaveVersionStep,
   RestoreSheetStep, ReadPageOfStep DEF SheetWrites, SheetReads

(* A batch of a bot touches what every rule that may cover it grants the   *)
(* caller, whatever became of the rules since the pre-flight, and what it  *)
(* leaves can be read again, whatever browsers deleted in between.         *)
THEOREM SheetWritesAreRight == SheetSpec => [](WritesExact /\ WrittenIsReadable)
<1>1. PatchInv => WritesExact /\ WrittenIsReadable
    BY DEF PatchInv
<1> QED BY <1>1, SheetStarts, PatchSteps, PTL DEF SheetSpec

-----------------------------------------------------------------------------
(* Pages. The order of the cells is strict, so the last cell of a page     *)
(* tells what is still to come: no cell is before it that was not shown,   *)
(* and none of what was shown is after it.                                 *)

CellKeys(keys) == \A k \in keys : k.on = "cells" /\ AddressOk(k)

\* What of keys comes before k.
Before(keys, k) == {x \in keys : Precedes(Place(x), Place(k))}

Places == Nat \X Nat \X Nat \X Nat

LEMMA PlaceIs ==
    ASSUME NEW k, k.on = "cells", AddressOk(k)
    PROVE  Place(k) \in Places
<1>1. k.at \in Coordinates \X Coordinates \X Nat /\ SheetOrder[k.sheet] \in Nat
    BY SheetAssumption DEF AddressOk
<1>2. Coordinates \subseteq Nat
    BY SheetAssumption DEF Coordinates
<1> QED BY <1>1, <1>2 DEF Place, Places

LEMMA PlaceNamesCell ==
    ASSUME NEW k, k.on = "cells", AddressOk(k), NEW l, l.on = "cells", AddressOk(l), Place(k) = Place(l)
    PROVE  k = l
<1>1. k.at \in Coordinates \X Coordinates \X Nat /\ l.at \in Coordinates \X Coordinates \X Nat
    BY DEF AddressOk
<1>2. SheetOrder[k.sheet] = SheetOrder[l.sheet] /\ k.at[1] = l.at[1] /\ k.at[2] = l.at[2] /\ k.at[3] = l.at[3]
    BY DEF Place
<1>3. k.at = l.at
    BY <1>1, <1>2
<1>4. k.sheet = l.sheet
    BY <1>2, SheetAssumption DEF AddressOk
<1>5. k = [on |-> k.on, sheet |-> k.sheet, at |-> k.at] /\ l = [on |-> l.on, sheet |-> l.sheet, at |-> l.at]
    BY DEF AddressOk
<1> QED BY <1>3, <1>4, <1>5

LEMMA PrecedesIs ==
    ASSUME NEW p \in Places, NEW q \in Places
    PROVE  Precedes(p, q) <=>
             \/ p[1] < q[1]
             \/ p[1] = q[1] /\ p[2] < q[2]
             \/ p[1] = q[1] /\ p[2] = q[2] /\ p[3] < q[3]
             \/ p[1] = q[1] /\ p[2] = q[2] /\ p[3] = q[3] /\ p[4] < q[4]
<1> DEFINE less == {i \in 1..4 : p[i] < q[i]}
           upto == {i \in 1..4 : \A j \in 1..(i - 1) : p[j] = q[j]}
<1>1. Precedes(p, q) <=> \E i \in 1..4 : i \in less /\ i \in upto
    BY DEF Precedes
<1>2. 1 \in upto
    OBVIOUS
<1>3. 2 \in upto <=> p[1] = q[1]
    <2>1. \A j : j \in 1..(2 - 1) <=> j = 1
        OBVIOUS
    <2> QED BY <2>1
<1>4. 3 \in upto <=> p[1] = q[1] /\ p[2] = q[2]
    <2>1. \A j : j \in 1..(3 - 1) <=> j = 1 \/ j = 2
        OBVIOUS
    <2> QED BY <2>1
<1>5. 4 \in upto <=> p[1] = q[1] /\ p[2] = q[2] /\ p[3] = q[3]
    <2>1. \A j : j \in 1..(4 - 1) <=> j = 1 \/ j = 2 \/ j = 3
        OBVIOUS
    <2> QED BY <2>1
<1>6. /\ 1 \in less <=> p[1] < q[1]
      /\ 2 \in less <=> p[2] < q[2]
      /\ 3 \in less <=> p[3] < q[3]
      /\ 4 \in less <=> p[4] < q[4]
    OBVIOUS
<1> HIDE DEF upto, less
<1>7. Precedes(p, q) <=>
          (1 \in less /\ 1 \in upto) \/ (2 \in less /\ 2 \in upto)
          \/ (3 \in less /\ 3 \in upto) \/ (4 \in less /\ 4 \in upto)
    BY <1>1
<1> QED BY <1>2, <1>3, <1>4, <1>5, <1>6, <1>7

LEMMA StrictOrder ==
    ASSUME NEW p \in Places, NEW q \in Places, NEW r \in Places
    PROVE  /\ ~Precedes(p, p)
           /\ Precedes(p, q) /\ Precedes(q, r) => Precedes(p, r)
           /\ p = q \/ Precedes(p, q) \/ Precedes(q, p)
<1>1. /\ p[1] \in Nat /\ p[2] \in Nat /\ p[3] \in Nat /\ p[4] \in Nat
      /\ q[1] \in Nat /\ q[2] \in Nat /\ q[3] \in Nat /\ q[4] \in Nat
      /\ r[1] \in Nat /\ r[2] \in Nat /\ r[3] \in Nat /\ r[4] \in Nat
    BY DEF Places
<1>2. ~Precedes(p, p)
    BY <1>1, PrecedesIs
<1>3. Precedes(p, q) /\ Precedes(q, r) => Precedes(p, r)
    BY <1>1, PrecedesIs
<1>4. p = q \/ Precedes(p, q) \/ Precedes(q, p)
    <2>1. p[1] = q[1] /\ p[2] = q[2] /\ p[3] = q[3] /\ p[4] = q[4] => p = q
        BY DEF Places
    <2> QED BY <2>1, <1>1, PrecedesIs
<1> QED BY <1>2, <1>3, <1>4

LEMMA CellsInOrder ==
    ASSUME NEW keys, CellKeys(keys), NEW k \in keys, NEW l \in keys, NEW m \in keys
    PROVE  /\ ~Precedes(Place(k), Place(k))
           /\ Precedes(Place(k), Place(l)) /\ Precedes(Place(l), Place(m)) => Precedes(Place(k), Place(m))
           /\ k = l \/ Precedes(Place(k), Place(l)) \/ Precedes(Place(l), Place(k))
<1>1. Place(k) \in Places /\ Place(l) \in Places /\ Place(m) \in Places
    BY PlaceIs DEF CellKeys
<1>2. Place(k) = Place(l) => k = l
    BY PlaceNamesCell DEF CellKeys
<1> QED BY <1>1, <1>2, StrictOrder

\* The earlier of two cells has fewer before it.
LEMMA FewerBefore ==
    ASSUME NEW keys, CellKeys(keys), IsFiniteSet(keys), NEW k \in keys, NEW l \in keys,
           Precedes(Place(k), Place(l))
    PROVE  /\ Cardinality(Before(keys, k)) \in Nat /\ Cardinality(Before(keys, l)) \in Nat
           /\ Cardinality(Before(keys, k)) < Cardinality(Before(keys, l))
<1>1. IsFiniteSet(Before(keys, k)) /\ IsFiniteSet(Before(keys, l))
    BY FS_Subset DEF Before
<1>2. Before(keys, k) \subseteq Before(keys, l)
    BY CellsInOrder DEF Before
<1>3. k \in Before(keys, l) /\ k \notin Before(keys, k)
    BY CellsInOrder DEF Before
<1>4. Cardinality(Before(keys, k)) \in Nat /\ Cardinality(Before(keys, l)) \in Nat
    BY <1>1, FS_CardinalityType
<1>5. Cardinality(Before(keys, k)) <= Cardinality(Before(keys, l))
    BY <1>1, <1>2, FS_Subset
<1>6. Cardinality(Before(keys, k)) # Cardinality(Before(keys, l))
    BY <1>1, <1>2, <1>3, FS_Subset
<1> QED BY <1>4, <1>5, <1>6

LEMMA LastCell ==
    ASSUME NEW keys, CellKeys(keys), IsFiniteSet(keys), keys # {}
    PROVE  \E k \in keys : \A x \in keys : x = k \/ Precedes(Place(x), Place(k))
<1> DEFINE ranks == {Cardinality(Before(keys, k)) : k \in keys}
<1>1. \A k \in keys : /\ Cardinality(Before(keys, k)) \in Nat
                      /\ Cardinality(Before(keys, k)) <= Cardinality(keys)
    <2>1. \A k \in keys : Before(keys, k) \in SUBSET keys
        BY DEF Before
    <2> QED BY <2>1, FS_Subset, FS_CardinalityType
<1>2. Cardinality(keys) \in Nat
    BY FS_CardinalityType
<1>3. ranks \in SUBSET Nat /\ ranks # {} /\ \A n \in ranks : n <= Cardinality(keys)
    BY <1>1
<1>4. PICK n \in ranks : \A m \in ranks : m <= n
    <2> HIDE DEF ranks
    <2> QED BY <1>2, <1>3, GreatestId
<1>5. PICK k \in keys : n = Cardinality(Before(keys, k))
    BY <1>4
<1>6. ASSUME NEW x \in keys, x # k PROVE Precedes(Place(x), Place(k))
    <2> SUFFICES ASSUME Precedes(Place(k), Place(x)) PROVE FALSE
        BY <1>6, CellsInOrder
    <2>1. n < Cardinality(Before(keys, x)) /\ n \in Nat
        BY <1>5, FewerBefore
    <2>2. Cardinality(Before(keys, x)) \in ranks
        OBVIOUS
    <2>3. Cardinality(Before(keys, x)) <= n /\ Cardinality(Before(keys, x)) \in Nat
        BY <2>2, <1>4, <1>1
    <2> QED BY <2>1, <2>3
<1> QED BY <1>6

LEMMA FirstCell ==
    ASSUME NEW keys, CellKeys(keys), IsFiniteSet(keys), keys # {}
    PROVE  \E k \in keys : Cardinality(Before(keys, k)) = 0
<1> DEFINE ranks == {Cardinality(keys) - Cardinality(Before(keys, k)) : k \in keys}
<1>1. \A k \in keys : /\ Cardinality(Before(keys, k)) \in Nat
                      /\ Cardinality(Before(keys, k)) <= Cardinality(keys)
    <2>1. \A k \in keys : Before(keys, k) \in SUBSET keys
        BY DEF Before
    <2> QED BY <2>1, FS_Subset, FS_CardinalityType
<1>2. Cardinality(keys) \in Nat
    BY FS_CardinalityType
<1>3. ranks \in SUBSET Nat /\ ranks # {} /\ \A n \in ranks : n <= Cardinality(keys)
    <2>1. \A k \in keys : Cardinality(keys) - Cardinality(Before(keys, k)) \in Nat
                          /\ Cardinality(keys) - Cardinality(Before(keys, k)) <= Cardinality(keys)
        BY <1>1, <1>2
    <2> QED BY <2>1
<1>4. PICK n \in ranks : \A m \in ranks : m <= n
    <2> HIDE DEF ranks
    <2> QED BY <1>2, <1>3, GreatestId
<1>5. PICK k \in keys : n = Cardinality(keys) - Cardinality(Before(keys, k))
    BY <1>4
<1>6. Before(keys, k) = {}
    <2> SUFFICES ASSUME NEW x \in Before(keys, k) PROVE FALSE
        OBVIOUS
    <2>1. x \in keys /\ Precedes(Place(x), Place(k))
        BY DEF Before
    <2>2. Cardinality(Before(keys, x)) < Cardinality(Before(keys, k))
        BY <2>1, FewerBefore
    <2>3. Cardinality(keys) - Cardinality(Before(keys, x)) \in ranks
        BY <2>1
    <2>4. Cardinality(keys) - Cardinality(Before(keys, x)) <= n
        BY <2>3, <1>4
    <2>5. Cardinality(Before(keys, x)) \in Nat /\ Cardinality(Before(keys, k)) \in Nat
        BY <2>1, <1>1
    <2> QED BY <2>2, <2>4, <2>5, <1>5, <1>2
<1> QED BY <1>6, FS_EmptySet

\* A page: the first of what is ahead, some if there is any, and within the budget unless
\* it is one cell only.
LEMMA PageIs ==
    ASSUME NEW ahead, CellKeys(ahead), IsFiniteSet(ahead), NEW budget \in Nat
    PROVE  LET page == PageOf(ahead, budget)
           IN  /\ page \subseteq ahead
               /\ ahead # {} => page # {}
               /\ \A l \in page : \A k \in ahead : Precedes(Place(k), Place(l)) => k \in page
               /\ Cardinality(page) \in Nat
               /\ Cardinality(page) = 1 \/ Cardinality(page) <= budget
<1> DEFINE rank(k) == Cardinality(Before(ahead, k))
           page == PageOf(ahead, budget)
<1>1. page = {k \in ahead : rank(k) < PageLimit /\ (rank(k) = 0 \/ rank(k) + 1 <= budget)}
    BY DEF PageOf, Before
<1>2. \A k \in ahead : rank(k) \in Nat
    <2>1. \A k \in ahead : Before(ahead, k) \in SUBSET ahead
        BY DEF Before
    <2> QED BY <2>1, FS_Subset, FS_CardinalityType
<1>3. \A k, l \in ahead : Precedes(Place(k), Place(l)) => rank(k) < rank(l)
    BY FewerBefore
<1>4. ahead # {} => \E k \in ahead : rank(k) = 0
    BY FirstCell
<1>5. PageLimit \in Nat \ {0}
    BY SheetAssumption
<1> HIDE DEF rank, page
<1>6. page \subseteq ahead
    BY <1>1
<1>7. ahead # {} => page # {}
    BY <1>1, <1>4, <1>5
<1>8. ASSUME NEW l \in page, NEW k \in ahead, Precedes(Place(k), Place(l)) PROVE k \in page
    <2>1. rank(k) < rank(l) /\ rank(k) \in Nat /\ rank(l) \in Nat
        BY <1>8, <1>6, <1>2, <1>3
    <2>2. rank(l) < PageLimit /\ (rank(l) = 0 \/ rank(l) + 1 <= budget)
        BY <1>1
    <2>3. rank(k) < PageLimit /\ rank(k) + 1 <= budget
        BY <2>1, <2>2, <1>5
    <2> QED BY <2>3, <1>1
<1>9. IsFiniteSet(page) /\ CellKeys(page)
    BY <1>6, FS_Subset DEF CellKeys
<1>10. Cardinality(page) \in Nat
    BY <1>9, FS_CardinalityType
<1>11. Cardinality(page) = 1 \/ Cardinality(page) <= budget
    <2>1. CASE page = {}
        BY <2>1, FS_EmptySet
    <2>2. CASE page # {}
        <3>1. PICK a \in page : \A x \in page : x = a \/ Precedes(Place(x), Place(a))
            BY <2>2, <1>9, LastCell
        <3>2. a \in ahead /\ rank(a) \in Nat /\ (rank(a) = 0 \/ rank(a) + 1 <= budget)
            BY <1>1, <1>2
        <3>3. page = Before(ahead, a) \cup {a} /\ a \notin Before(ahead, a)
            <4>1. \A x \in page : x = a \/ x \in Before(ahead, a)
                BY <3>1, <1>6 DEF Before
            <4>2. \A x \in Before(ahead, a) : x \in page
                BY <1>8 DEF Before
            <4>3. a \notin Before(ahead, a)
                BY <3>2, CellsInOrder DEF Before
            <4> QED BY <4>1, <4>2, <4>3
        <3>4. IsFiniteSet(Before(ahead, a))
            BY FS_Subset DEF Before
        <3>5. Cardinality(page) = rank(a) + 1
            BY <3>3, <3>4, FS_AddElement DEF rank
        <3> QED BY <3>2, <3>5
    <2> QED BY <2>1, <2>2
<1> QED BY <1>6, <1>7, <1>8, <1>10, <1>11 DEF page

-----------------------------------------------------------------------------
(* A walk whose base is still the state vector has before it exactly what  *)
(* it has not shown, all of it after what it has; deletions only take some *)
(* of that away.                                                           *)

Cells == Surface(sheet, "cells")

WalkShape ==
    walk = [pc |-> walk.pc, base |-> walk.base, seen |-> walk.seen, again |-> walk.again,
            begun |-> walk.begun, left |-> walk.left, status |-> walk.status, largest |-> walk.largest]

WalkOK ==
    /\ walk.seen # {} /\ IsFiniteSet(walk.seen) /\ CellKeys(walk.seen)
    /\ walk.seen \subseteq walk.begun /\ walk.base <= vector /\ walk.status = 0
    /\ walk.base = vector =>
         /\ Cells \subseteq walk.begun
         /\ \A x \in walk.seen, k \in Cells \ walk.seen : Precedes(Place(x), Place(k))

KeysOk == \A k \in DOMAIN sheet \cup DOMAIN savedSheet : AddressOk(k)

WalkInv ==
    /\ WalkShape /\ KeysOk /\ walk.base \in Int
    /\ walk.pc = "idle" => walk = NoWalk
    /\ walk.pc = "walking" => WalkOK
    /\ walk.largest \in Int /\ WalkExact

LEMMA WalkStarts == SheetInit => WalkInv
<1> SUFFICES ASSUME SheetInit PROVE WalkInv
    OBVIOUS
<1>1. walk = NoWalk /\ sheet \in Sheets /\ DOMAIN savedSheet = {}
    BY DEF SheetInit, NoBatch
<1>2. KeysOk
    BY <1>1, SheetAssumption DEF KeysOk
<1>3. /\ WalkShape /\ walk.base = 0 /\ walk.pc = "idle" /\ walk.largest = 0 /\ walk.status = 0
      /\ ~walk.again
    BY <1>1 DEF NoWalk, WalkShape
<1>4. WalkExact
    BY <1>3, SheetAssumption DEF WalkExact
<1> QED BY <1>1, <1>2, <1>3, <1>4 DEF WalkInv

\* A sheet changes with its state vector, or loses keys only; a key is one the maps let through.
LEMMA SheetMoves ==
    ASSUME PatchInv, KeysOk, [SheetWrites \/ SheetReads]_sheetVars
    PROVE  /\ KeysOk'
           /\ vector \in Nat /\ vector' \in Nat /\ vector <= vector'
           /\ vector' = vector => LeftOf(sheet', sheet)
<1>1. \A batch : \A k \in DOMAIN Patched(sheet, batch) : k \in DOMAIN sheet \cup DOMAIN batch
    BY DEF Patched
<1>2. vector \in Nat /\ LeftOf(sheet, sheet)
    BY DEF PatchInv, LeftOf
<1>3. CASE UNCHANGED <<sheet, savedSheet, vector>>
    BY <1>2, <1>3 DEF KeysOk, LeftOf
<1>4. CASE CommitPatch
    <2>1. UNCHANGED savedSheet
        BY <1>4 DEF CommitPatch
    <2>2. CASE UNCHANGED <<sheet, vector>>
        BY <2>1, <2>2, <1>3
    <2>3. CASE sheet' = Patched(sheet, patch.batch) /\ vector' = vector + Insertions(patch.batch) + 1
        <3>1. patch.batch \in Batches
            BY <1>4 DEF PatchInv, PatchOK, CommitPatch
        <3>2. KeysOk'
            BY <1>1, <2>1, <2>3, <3>1, SheetAssumption DEF KeysOk
        <3>3. Insertions(patch.batch) \in Nat
            <4>1. IsFiniteSet(DOMAIN patch.batch)
                BY <3>1, SheetAssumption
            <4>2. IsFiniteSet({k \in DOMAIN patch.batch : patch.batch[k] # "gone"})
                BY <4>1, FS_Subset
            <4> QED BY <4>2, FS_CardinalityType DEF Insertions
        <3>4. vector' \in Nat /\ vector < vector'
            BY <2>3, <3>3, <1>2
        <3> QED BY <3>2, <3>4, <1>2
    <2> QED BY <2>2, <2>3, <1>4 DEF CommitPatch
<1>5. CASE BrowserSets
    <2>1. UNCHANGED savedSheet /\ vector' = vector + 1
        BY <1>5 DEF BrowserSets
    <2>2. KeysOk'
        <3>1. CASE sheet' = sheet
            BY <3>1, <2>1 DEF KeysOk
        <3>2. ASSUME NEW k \in BrowserKeys, NEW v, sheet' = Patched(sheet, [x \in {k} |-> v]) PROVE KeysOk'
            <4> DEFINE batch == [x \in {k} |-> v]
            <4>1. DOMAIN batch = {k} /\ AddressOk(k)
                BY SheetAssumption
            <4>2. sheet' = Patched(sheet, batch)
                BY <3>2
            <4> HIDE DEF batch
            <4> QED BY <4>1, <4>2, <1>1, <2>1 DEF KeysOk
        <3> QED BY <3>1, <3>2, <1>5 DEF BrowserSets
    <2>3. vector' \in Nat /\ vector < vector'
        BY <2>1, <1>2
    <2> QED BY <2>2, <2>3, <1>2
<1>6. CASE BrowserDeletes
    <2>1. UNCHANGED <<savedSheet, vector>>
        BY <1>6 DEF BrowserDeletes
    <2>2. LeftOf(sheet', sheet)
        <3>1. CASE sheet' = sheet
            BY <3>1 DEF LeftOf
        <3>2. ASSUME NEW k, sheet' = Patched(sheet, [x \in {k} |-> "gone"]) PROVE LeftOf(sheet', sheet)
            <4> DEFINE batch == [x \in {k} |-> "gone"]
            <4>1. \A x \in DOMAIN batch : batch[x] = "gone"
                OBVIOUS
            <4>2. sheet' = Patched(sheet, batch)
                BY <3>2
            <4> HIDE DEF batch
            <4> QED BY <4>1, <4>2, DeletionsLeaveLess
        <3> QED BY <3>1, <3>2, <1>6 DEF BrowserDeletes
    <2>3. KeysOk'
        BY <2>1, <2>2 DEF KeysOk, LeftOf
    <2> QED BY <2>1, <2>2, <2>3, <1>2
<1>7. CASE SaveVersion
    BY <1>2, <1>7 DEF SaveVersion, KeysOk
<1>8. CASE RestoreSheet
    <2>1. UNCHANGED savedSheet
        BY <1>8 DEF RestoreSheet
    <2>2. CASE UNCHANGED <<sheet, vector>>
        BY <2>1, <2>2, <1>3
    <2>3. CASE sheet' = savedSheet /\ vector' = vector + Cardinality(DOMAIN savedSheet)
        <3>1. IsFiniteSet(DOMAIN savedSheet)
            BY DEF PatchInv
        <3>2. Cardinality(DOMAIN savedSheet) \in Nat
            BY <3>1, FS_CardinalityType
        <3>3. vector' \in Nat /\ vector <= vector'
            BY <2>3, <3>2, <1>2
        <3>4. ASSUME vector' = vector PROVE LeftOf(sheet', sheet)
            <4>1. Cardinality(DOMAIN savedSheet) = 0
                BY <2>3, <3>4, <3>2, <1>2
            <4>2. DOMAIN savedSheet = {}
                BY <4>1, <3>1, FS_EmptySet
            <4> QED BY <4>2, <2>3 DEF LeftOf
        <3>5. KeysOk'
            BY <2>1, <2>3 DEF KeysOk
        <3> QED BY <3>3, <3>4, <3>5, <1>2
    <2> QED BY <2>2, <2>3, <1>8 DEF RestoreSheet
<1>9. StartPatch \/ ReadPageOf \/ UNCHANGED sheetVars => UNCHANGED <<sheet, savedSheet, vector>>
    BY DEF StartPatch, ReadPageOf, sheetVars
<1> QED BY <1>3, <1>4, <1>5, <1>6, <1>7, <1>8, <1>9 DEF SheetWrites, SheetReads

\* A step that leaves the walk as it is.
LEMMA WalkRests ==
    ASSUME PatchInv, WalkInv, [SheetWrites \/ SheetReads]_sheetVars, UNCHANGED walk
    PROVE  WalkInv'
<1>1. /\ KeysOk' /\ vector \in Nat /\ vector' \in Nat /\ vector <= vector'
      /\ vector' = vector => LeftOf(sheet', sheet)
    BY SheetMoves DEF WalkInv
<1>2. walk.pc = "walking" => WalkOK'
    <2> SUFFICES ASSUME walk.pc = "walking" PROVE WalkOK'
        OBVIOUS
    <2>1. WalkOK /\ walk.base \in Int
        BY DEF WalkInv
    <2>2. walk.base <= vector'
        BY <1>1, <2>1 DEF WalkOK
    <2>3. ASSUME walk.base = vector'
          PROVE  /\ Cells' \subseteq walk.begun
                 /\ \A x \in walk.seen, k \in Cells' \ walk.seen : Precedes(Place(x), Place(k))
        <3>1. vector' = vector
            BY <2>1, <2>3, <1>1 DEF WalkOK
        <3>2. Cells' \subseteq Cells
            BY <3>1, <1>1 DEF LeftOf, Cells, Surface
        <3> QED BY <3>1, <3>2, <2>1, <2>3 DEF WalkOK
    <2> QED BY <2>1, <2>2, <2>3 DEF WalkOK, CellKeys
<1>3. WalkExact' /\ WalkShape'
    BY DEF WalkInv, WalkExact, WalkShape
<1> QED BY <1>1, <1>2, <1>3 DEF WalkInv, NoWalk

\* A page that is given.
LEMMA PageStep ==
    ASSUME WalkShape, walk.largest \in Int, walk.largest <= ReadCap, ~walk.again, vector \in Nat,
           walk.seen \subseteq walk.begun \/ walk.seen = {},
           IsFiniteSet(walk.seen), CellKeys(walk.seen), CellKeys(Cells), IsFiniteSet(Cells),
           UNCHANGED <<sheet, vector>>, KeysOk',
           NEW begun, NEW budget \in Nat, NEW reserve \in Nat, budget + reserve <= ReadCap \/ budget = 0,
           reserve <= ReadCap, walk.seen \subseteq begun, Cells \subseteq begun,
           \A x \in walk.seen, k \in Cells \ walk.seen : Precedes(Place(x), Place(k)),
           LET ahead == Cells \ walk.seen
               page == PageOf(ahead, budget)
           IN  walk' = [pc |-> IF page = ahead THEN "done" ELSE "walking",
                        base |-> vector, seen |-> walk.seen \cup page,
                        again |-> walk.again \/ page \cap walk.seen # {},
                        begun |-> begun, left |-> Cells,
                        status |-> IF page = ahead THEN 200 ELSE 0,
                        largest |-> IF Cardinality(page) = 1 THEN walk.largest
                                    ELSE Larger(walk.largest, Cardinality(page) + reserve)]
    PROVE  WalkInv'
<1> DEFINE ahead == Cells \ walk.seen
           page == PageOf(ahead, budget)
<1>1. IsFiniteSet(ahead) /\ CellKeys(ahead)
    BY FS_Subset DEF CellKeys
<1>2. /\ page \subseteq ahead
      /\ ahead # {} => page # {}
      /\ \A l \in page : \A k \in ahead : Precedes(Place(k), Place(l)) => k \in page
      /\ Cardinality(page) \in Nat
      /\ Cardinality(page) = 1 \/ Cardinality(page) <= budget
    <2> HIDE DEF ahead
    <2> QED BY <1>1, PageIs
<1>3. walk' = [pc |-> IF page = ahead THEN "done" ELSE "walking",
               base |-> vector, seen |-> walk.seen \cup page,
               again |-> walk.again \/ page \cap walk.seen # {},
               begun |-> begun, left |-> Cells,
               status |-> IF page = ahead THEN 200 ELSE 0,
               largest |-> IF Cardinality(page) = 1 THEN walk.largest
                           ELSE Larger(walk.largest, Cardinality(page) + reserve)]
    OBVIOUS
<1> HIDE DEF page
<1>4. page \cap walk.seen = {}
    BY <1>2
<1> HIDE DEF ahead
<1> DEFINE pc == IF page = ahead THEN "done" ELSE "walking"
           status == IF page = ahead THEN 200 ELSE 0
           again == walk.again \/ page \cap walk.seen # {}
           largest == IF Cardinality(page) = 1 THEN walk.largest
                      ELSE Larger(walk.largest, Cardinality(page) + reserve)
<1>a. ~again
    BY <1>4
<1>b. pc = "walking" => page # ahead
    OBVIOUS
<1>c. status = 200 => page = ahead
    OBVIOUS
<1>d. page # ahead => status = 0
    OBVIOUS
<1>e. pc # "idle"
    OBVIOUS
<1>f. largest \in Int /\ largest <= ReadCap
    <2>1. CASE Cardinality(page) = 1
        BY <2>1
    <2>2. CASE Cardinality(page) # 1
        <3>1. Cardinality(page) + reserve <= ReadCap /\ Cardinality(page) + reserve \in Int
            BY <1>2, <2>2, SheetAssumption
        <3> QED BY <2>2, <3>1 DEF Larger
    <2> QED BY <2>1, <2>2
<1> HIDE DEF pc, status, again, largest
<1>5. /\ walk'.pc = pc /\ walk'.base = vector /\ walk'.seen = walk.seen \cup page
      /\ walk'.begun = begun /\ walk'.left = Cells /\ walk'.status = status
      /\ walk'.largest = largest
    BY <1>3 DEF pc, status, again, largest
<1>g. walk'.again = again
    BY <1>3 DEF pc, status, again, largest
<1>h. WalkShape'
    <2>1. walk' = [pc |-> pc, base |-> vector, seen |-> walk.seen \cup page, again |-> again,
                   begun |-> begun, left |-> Cells, status |-> status, largest |-> largest]
        BY <1>3 DEF pc, status, again, largest
    <2> QED BY <2>1 DEF WalkShape
<1>6. walk'.largest \in Int /\ walk'.largest <= ReadCap
    BY <1>5, <1>f
<1>7. walk'.seen \subseteq begun /\ Cells' = Cells
    BY <1>2, <1>5 DEF ahead, Cells
<1>8. WalkExact'
    <2>1. ~walk'.again
        BY <1>a, <1>g
    <2>2. walk'.status = 200 => page = ahead
        BY <1>5, <1>c
    <2>3. page = ahead => Cells \subseteq walk'.seen
        BY <1>5 DEF ahead
    <2> QED BY <1>5, <1>6, <1>7, <2>1, <2>2, <2>3 DEF WalkExact
<1>9. ASSUME page # ahead PROVE WalkOK'
    <2>1. page # {}
        BY <1>2, <1>9
    <2>2. IsFiniteSet(walk'.seen) /\ CellKeys(walk'.seen) /\ walk'.seen # {}
        <3>1. IsFiniteSet(page)
            BY <1>1, <1>2, FS_Subset
        <3>2. IsFiniteSet(walk.seen \cup page)
            BY <3>1, FS_Union
        <3> QED BY <3>2, <2>1, <1>1, <1>2, <1>5 DEF CellKeys
    <2>3. \A x \in walk'.seen, k \in Cells \ walk'.seen : Precedes(Place(x), Place(k))
        <3> SUFFICES ASSUME NEW x \in walk.seen \cup page, NEW k \in Cells \ (walk.seen \cup page)
                     PROVE  Precedes(Place(x), Place(k))
            BY <1>5
        <3>1. CASE x \in walk.seen
            BY <3>1
        <3>2. CASE x \in page
            <4>1. x \in ahead /\ k \in ahead /\ k \notin page
                BY <3>2, <1>2 DEF ahead
            <4>2. ~Precedes(Place(k), Place(x)) /\ k # x
                BY <4>1, <3>2, <1>2
            <4> QED BY <4>1, <4>2, <1>1, CellsInOrder
        <3> QED BY <3>1, <3>2
    <2>4. vector' = vector
        OBVIOUS
    <2>5. walk'.base <= vector' /\ walk'.status = 0
        <3>1. walk'.base = vector /\ walk'.status = status
            BY <1>5
        <3>2. status = 0
            BY <1>9, <1>d
        <3>3. vector <= vector
            OBVIOUS
        <3> QED BY <2>4, <3>1, <3>2, <3>3
    <2>6. walk'.seen \subseteq walk'.begun /\ Cells' \subseteq walk'.begun
        BY <1>5, <1>7
    <2>7. \A x \in walk'.seen, k \in Cells' \ walk'.seen : Precedes(Place(x), Place(k))
        BY <2>3, <1>7
    <2> QED BY <2>2, <2>5, <2>6, <2>7 DEF WalkOK, CellKeys
<1>10. walk'.pc = "walking" => WalkOK'
    BY <1>5, <1>9, <1>b
<1>11. walk'.pc # "idle" /\ walk'.base \in Int
    BY <1>5, <1>e
<1>12. WalkShape' /\ KeysOk'
    BY <1>h
<1>13. walk'.pc = "idle" => walk' = NoWalk'
    BY <1>11
<1> QED BY <1>6, <1>8, <1>10, <1>11, <1>12, <1>13 DEF WalkInv

LEMMA ReadPageStep == PatchInv /\ WalkInv /\ ReadPageOf => WalkInv'
<1> SUFFICES ASSUME PatchInv, WalkInv, ReadPageOf PROVE WalkInv'
    OBVIOUS
<1> DEFINE first == walk.pc = "idle"
           after == CHOOSE k \in walk.seen : \A x \in walk.seen : x = k \/ Precedes(Place(x), Place(k))
           ahead == IF first THEN Cells
                    ELSE {k \in Cells : Precedes(Place(after), Place(k)) /\ ~Skipped(k, after)}
           budget == IF first THEN FirstBudget(sheet) ELSE ReadCap
           page == PageOf(ahead, budget)
           reserve == IF first THEN ReadCap - FirstBudget(sheet) ELSE 0
           begun == IF first THEN Cells ELSE walk.begun
<1>1. UNCHANGED <<sheet, rules, vector, savedSheet>> /\ KeysOk'
    BY DEF ReadPageOf, WalkInv, KeysOk
<1>2. walk.pc \in {"idle", "walking"}
    BY DEF ReadPageOf
<1>3. \/ walk' = [walk EXCEPT !.pc = "done", !.status = 409]
      \/ /\ ~first => walk.base = vector
         /\ walk' = [pc |-> IF page = ahead THEN "done" ELSE "walking",
                     base |-> vector, seen |-> walk.seen \cup page,
                     again |-> walk.again \/ page \cap walk.seen # {},
                     begun |-> begun, left |-> Cells,
                     status |-> IF page = ahead THEN 200 ELSE 0,
                     largest |-> IF Cardinality(page) = 1 THEN walk.largest
                                 ELSE Larger(walk.largest, Cardinality(page) + reserve)]
    BY DEF ReadPageOf, Answer, Cells
<1>4. /\ WalkShape /\ ~walk.again /\ walk.largest \in Int /\ walk.largest <= ReadCap /\ walk.base \in Int
      /\ vector \in Nat /\ IsFiniteSet(DOMAIN sheet) /\ KeysOk
    BY DEF WalkInv, WalkExact, PatchInv
<1>5. IsFiniteSet(Cells) /\ CellKeys(Cells)
    <2>1. Cells \subseteq DOMAIN sheet /\ \A k \in Cells : k.on = "cells"
        BY DEF Cells, Surface
    <2> QED BY <2>1, <1>4, FS_Subset DEF CellKeys, KeysOk
<1>6. FirstBudget(sheet) \in Nat /\ FirstBudget(sheet) <= ReadCap /\ ReadCap \in Nat
    <2> DEFINE others == DOMAIN sheet \ (Surface(sheet, "cells") \cup Surface(sheet, "drawings"))
    <2>1. IsFiniteSet(others)
        BY <1>4, FS_Subset
    <2> HIDE DEF others
    <2>2. Cardinality(others) \in Nat
        BY <2>1, FS_CardinalityType
    <2>3. FirstBudget(sheet) = Larger(0, ReadCap - Cardinality(others))
        BY DEF FirstBudget, others
    <2> QED BY <2>2, <2>3, SheetAssumption DEF Larger
<1>7. CASE walk' = [walk EXCEPT !.pc = "done", !.status = 409]
    <2>1. walk' = [pc |-> "done", base |-> walk.base, seen |-> walk.seen, again |-> walk.again,
                   begun |-> walk.begun, left |-> walk.left, status |-> 409, largest |-> walk.largest]
        BY <1>7, <1>4 DEF WalkShape
    <2>2. /\ WalkShape' /\ walk'.pc = "done" /\ walk'.base = walk.base /\ walk'.status = 409
          /\ walk'.again = walk.again /\ walk'.largest = walk.largest
        BY <2>1 DEF WalkShape
    <2>3. WalkExact'
        BY <2>2, <1>4 DEF WalkExact
    <2> QED BY <1>1, <1>4, <2>2, <2>3 DEF WalkInv
<1>8. CASE /\ ~first => walk.base = vector
           /\ walk' = [pc |-> IF page = ahead THEN "done" ELSE "walking",
                       base |-> vector, seen |-> walk.seen \cup page,
                       again |-> walk.again \/ page \cap walk.seen # {},
                       begun |-> begun, left |-> Cells,
                       status |-> IF page = ahead THEN 200 ELSE 0,
                       largest |-> IF Cardinality(page) = 1 THEN walk.largest
                                   ELSE Larger(walk.largest, Cardinality(page) + reserve)]
    <2>1. CASE first
        <3>1. walk.seen = {} /\ IsFiniteSet(walk.seen) /\ CellKeys(walk.seen)
            BY <2>1, FS_EmptySet DEF WalkInv, NoWalk, CellKeys
        <3>2. ahead = Cells \ walk.seen /\ begun = Cells /\ budget = FirstBudget(sheet)
              /\ reserve = ReadCap - FirstBudget(sheet)
            BY <2>1, <3>1
        <3>3. budget \in Nat /\ reserve \in Nat /\ budget + reserve <= ReadCap /\ reserve <= ReadCap
            BY <3>2, <1>6
        <3> HIDE DEF ahead, begun, budget, reserve
        <3> QED BY <1>1, <1>4, <1>5, <1>8, <3>1, <3>2, <3>3, PageStep
    <2>2. CASE ~first
        <3>1. WalkOK /\ walk.base = vector
            BY <1>2, <1>8, <2>2 DEF WalkInv
        <3>2. /\ walk.seen # {} /\ IsFiniteSet(walk.seen) /\ CellKeys(walk.seen)
              /\ walk.seen \subseteq walk.begun /\ Cells \subseteq walk.begun
              /\ \A x \in walk.seen, k \in Cells \ walk.seen : Precedes(Place(x), Place(k))
            BY <3>1 DEF WalkOK
        <3>3. after \in walk.seen /\ \A x \in walk.seen : x = after \/ Precedes(Place(x), Place(after))
            BY <3>2, LastCell
        <3>4. ahead = Cells \ walk.seen
            <4> HIDE DEF after
            <4>1. ASSUME NEW k \in Cells \ walk.seen PROVE k \in ahead
                BY <2>2, <3>2, <3>3 DEF Skipped
            <4>2. ASSUME NEW k \in ahead PROVE k \in Cells \ walk.seen
                <5>1. k \in Cells /\ Precedes(Place(after), Place(k)) /\ k # after
                    BY <2>2 DEF Skipped
                <5>2. k \notin walk.seen
                    <6> SUFFICES ASSUME k \in walk.seen PROVE FALSE
                        OBVIOUS
                    <6>1. Precedes(Place(k), Place(after))
                        BY <5>1, <3>3
                    <6> QED BY <5>1, <6>1, <3>2, <3>3, CellsInOrder
                <5> QED BY <5>1, <5>2
            <4> HIDE DEF ahead
            <4> QED BY <4>1, <4>2
        <3>5. begun = walk.begun /\ budget = ReadCap /\ reserve = 0
            BY <2>2
        <3>6. budget \in Nat /\ reserve \in Nat /\ budget + reserve <= ReadCap /\ reserve <= ReadCap
            BY <3>5, <1>6
        <3> HIDE DEF ahead, begun, budget, reserve
        <3> QED BY <1>1, <1>4, <1>5, <1>8, <3>2, <3>4, <3>5, <3>6, PageStep
    <2> QED BY <2>1, <2>2
<1> QED BY <1>3, <1>7, <1>8

LEMMA WalkSteps == PatchInv /\ WalkInv /\ [SheetWrites \/ SheetReads]_sheetVars => WalkInv'
<1> SUFFICES ASSUME PatchInv, WalkInv, [SheetWrites \/ SheetReads]_sheetVars PROVE WalkInv'
    OBVIOUS
<1>1. CASE ReadPageOf
    BY <1>1, ReadPageStep
<1>2. CASE ~ReadPageOf
    <2>1. UNCHANGED walk
        BY <1>2 DEF SheetWrites, SheetReads, StartPatch, CommitPatch, BrowserSets, BrowserDeletes,
                    SaveVersion, RestoreSheet, sheetVars
    <2> QED BY <2>1, WalkRests
<1> QED BY <1>1, <1>2

(* A walk through the pages of a sheet that is answered to its end has     *)
(* given every cell that is still there, none that came in between, each   *)
(* once and in pages within the cap, whatever browsers deleted meanwhile.  *)
THEOREM SheetPagesAreComplete == SheetSpec => []WalkExact
<1>1. WalkInv => WalkExact
    BY DEF WalkInv
<1> QED BY <1>1, SheetStarts, PatchSteps, WalkStarts, WalkSteps, PTL DEF SheetSpec
=============================================================================
