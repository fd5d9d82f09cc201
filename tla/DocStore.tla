------------------------------ MODULE DocStore ------------------------------
(***************************************************************************)
(* One document between the Y.Docs that collab nodes hold in memory and    *)
(* its single yjs_document row: src/collab/persistence.ts, the Database    *)
(* and Redis extensions as src/collab/server.ts configures them, and the   *)
(* read-only direct connections of src/collab/liveDocRead.ts.              *)
(*                                                                         *)
(* Hocuspocus is external. Nothing is assumed of its timing: a change may  *)
(* wait any time for its store, several stores of one node may be under    *)
(* way and commit in any order, an update may reach another node late or   *)
(* never. A missing row is the empty state: computeFinalState treats both  *)
(* alike.                                                                  *)
(***************************************************************************)
EXTENDS Naturals, FiniteSets

CONSTANTS
    Nodes,      \* collab processes
    Users,      \* who may change the document
    System,     \* SYSTEM_STORE_UID
    None,       \* no document, no context, nobody
    Texts,      \* what an inserted struct may say
    Mark,       \* what the edit-version counter's structs say
    MaxTx,      \* bound: transactions on the document
    MaxStores,  \* bound: stores of one node under way at one time
    MaxSize,    \* config.maxDocBytes, in texts inserted
    StoresFail, \* TRUE: a store may fail
    NodesFail   \* TRUE: a process may die and restart

ASSUME NamesAssumption == System \notin Users /\ None \notin Users \cup {System}
ASSUME BoundAssumption == MaxTx \in Nat

----------------------------------------------------------------------------
(* A Y.Doc as persistence.ts tells two of them apart: the structs          *)
(* integrated into it and the ones among them deleted again. Merging is    *)
(* union of both. The state vector counts insertions only, and an update   *)
(* always carries the whole delete set (as yjs does).                      *)

Empty == [ins |-> {}, del |-> {}]

Visible(a) == a.ins \ a.del
Vector(a) == a.ins                                      \* Y.encodeStateVector
Below(a, b) == a.ins \subseteq b.ins /\ a.del \subseteq b.del
Merge(a, b) == [ins |-> a.ins \cup b.ins, del |-> a.del \cup b.del]

\* Y.diffUpdate(existing, vector): what a peer with that state vector lacks.
DiffUpdate(existing, vector) == [ins |-> existing.ins \ vector, del |-> existing.del]

\* Mutant of FinalState: the direction of the diff is reversed, so a stale incoming passes.
FinalStateReversed(existing, incoming) ==
    IF DiffUpdate(incoming, Vector(existing)) = Empty THEN incoming ELSE Merge(existing, incoming)

\* computeFinalState: incoming as it is when it lacks nothing, else the union.
FinalState(existing, incoming) ==
    IF DiffUpdate(existing, Vector(incoming)) = Empty THEN incoming ELSE Merge(existing, incoming)

----------------------------------------------------------------------------

VARIABLES
    clock,      \* transactions so far: names the structs of the next one
    row,        \* yjs_document.state
    updatedBy,  \* doc_meta.updated_by
    live,       \* live[n]: the Y.Doc in memory of node n, or None
    loading,    \* loading[n]: what node n has fetched and not yet hydrated, or None
    pending,    \* pending[n]: lastContext of the debounced store of n, or None
    stores      \* stores under way: captured, not yet committed

docVars == <<clock, row, updatedBy, live, loading, pending, stores>>

Struct(k, t) == [tx |-> k, text |-> t]
Structs == [tx : 0..MaxTx, text : Texts \cup {Mark}]
State == [ins : SUBSET Structs, del : SUBSET Structs]
Store == [node : Nodes, doc : State, by : Users \cup {System}, for : Users \cup {None}]
Loaded(n) == live[n] # None

\* No document is told from every document.
ASSUME NoneAssumption == None \notin State

\* What is deleted still takes room; the counter's few bytes are not counted.
Size(doc) == Cardinality({s \in doc.ins : s.text # Mark})

DocTypeOK ==
    /\ clock \in 0..MaxTx
    /\ row \in State
    /\ updatedBy \in Users \cup {None}
    /\ live \in [Nodes -> State \cup {None}]
    /\ loading \in [Nodes -> State \cup {None}]
    /\ pending \in [Nodes -> Users \cup {None}]
    /\ stores \subseteq Store

\* The document exists, with one struct of each text.
DocInit ==
    /\ clock = 0
    /\ row = [ins |-> {Struct(0, t) : t \in Texts}, del |-> {}]
    /\ updatedBy = None
    /\ live = [n \in Nodes |-> None]
    /\ loading = [n \in Nodes |-> None]
    /\ pending = [n \in Nodes |-> None]
    /\ stores = {}

----------------------------------------------------------------------------
(* Loading: persistence.fetch, then the hydrated document.                 *)

Fetch(n) ==
    /\ ~Loaded(n)
    /\ loading[n] = None
    /\ loading' = [loading EXCEPT ![n] = row]
    /\ UNCHANGED <<clock, row, updatedBy, live, pending, stores>>

Hydrate(n) ==
    /\ loading[n] # None
    /\ live' = [live EXCEPT ![n] = loading[n]]
    /\ loading' = [loading EXCEPT ![n] = None]
    /\ UNCHANGED <<clock, row, updatedBy, pending, stores>>

(* Changing: one transaction on a node's Y.Doc, and the store it leaves due.*)

Changed(doc, texts, gone) ==
    [ins |-> doc.ins \cup {Struct(clock + 1, t) : t \in texts}, del |-> doc.del \cup gone]

Transact(n, texts, gone) ==
    /\ Loaded(n)
    /\ clock < MaxTx
    /\ gone \subseteq Visible(live[n])
    /\ clock' = clock + 1
    /\ live' = [live EXCEPT ![n] = Changed(@, texts, gone)]

\* A client's update arrives over its websocket; the debounced store carries its context.
ClientWrite(n, u, texts, gone) ==
    /\ Transact(n, texts, gone)
    /\ pending' = [pending EXCEPT ![n] = u]
    /\ UNCHANGED <<row, updatedBy, loading, stores>>

\* The Redis extension hands node m what node n has.
Sync(n, m) ==
    /\ Loaded(n) /\ Loaded(m)
    /\ live' = [live EXCEPT ![m] = Merge(@, live[n])]
    /\ UNCHANGED <<clock, row, updatedBy, loading, pending, stores>>

(* Storing.                                                                *)

\* onStoreDocument encodes the document now; its transaction comes later. A flush by
\* a disconnecting direct connection takes the place of the debounced store.
Capture(n, doc, by, for) ==
    /\ Cardinality({s \in stores : s.node = n}) < MaxStores
    /\ stores' = stores \cup {[node |-> n, doc |-> doc, by |-> by, for |-> for]}
    /\ pending' = [pending EXCEPT ![n] = None]

DebouncedStore(n) ==
    /\ Loaded(n)
    /\ pending[n] # None
    /\ Capture(n, live[n], pending[n], None)
    /\ UNCHANGED <<clock, row, updatedBy, live, loading>>

\* A read-only direct connection disconnects: readLiveDocState and its siblings. Where
\* nothing is due and the row has it all, its store would change nothing: left out.
ReaderFlush(n) ==
    /\ Loaded(n)
    /\ pending[n] # None \/ ~Below(live[n], row)
    /\ Capture(n, live[n], System, None)
    /\ UNCHANGED <<clock, row, updatedBy, live, loading>>

\* A direct connection of user u disconnects and waits for its store. It may also have
\* written: transact and disconnect follow each other without a client in between.
WriterFlush(n, u) ==
    /\ Loaded(n)
    /\ Capture(n, live[n], u, u)
    /\ UNCHANGED <<clock, row, updatedBy, live, loading>>

DirectWrite(n, u, texts, gone) ==
    /\ Transact(n, texts, gone)
    /\ Capture(n, Changed(live[n], texts, gone), u, u)
    /\ UNCHANGED <<row, updatedBy, loading>>

\* The sentinel of a server-side read keeps the last editor.
Stamp(by) == updatedBy' = IF by = System THEN updatedBy ELSE by

\* Mutant of CommitStore: a read-only connection's store is skipped altogether.
CommitUnlessRead(s) ==
    /\ s \in stores
    /\ Size(s.doc) <= MaxSize
    /\ row' = IF s.by = System THEN row ELSE FinalState(row, s.doc)
    /\ Stamp(s.by)
    /\ stores' = stores \ {s}
    /\ UNCHANGED <<clock, live, loading, pending>>

\* persistence.store: the row lock makes the read, the merge and the write one step.
CommitStore(s) ==
    /\ s \in stores
    /\ Size(s.doc) <= MaxSize
    /\ row' = FinalState(row, s.doc)
    /\ Stamp(s.by)
    /\ stores' = stores \ {s}
    /\ UNCHANGED <<clock, live, loading, pending>>

FailStore(s) ==
    /\ s \in stores
    /\ StoresFail \/ Size(s.doc) > MaxSize
    /\ stores' = stores \ {s}
    /\ UNCHANGED <<clock, row, updatedBy, live, loading, pending>>

\* restoreVersion stamps doc_meta inside its own transaction.
Touch(u) ==
    /\ updatedBy' = u
    /\ UNCHANGED <<clock, row, live, loading, pending, stores>>

(* Leaving memory.                                                         *)

\* The last connection is gone and the last store went through.
Unload(n) ==
    /\ Loaded(n)
    /\ pending[n] = None
    /\ \A s \in stores : s.node # n
    /\ Below(live[n], row)
    /\ live' = [live EXCEPT ![n] = None]
    /\ UNCHANGED <<clock, row, updatedBy, loading, pending, stores>>

Restart(n) ==
    /\ NodesFail
    /\ Loaded(n) \/ loading[n] # None
    /\ live' = [live EXCEPT ![n] = None]
    /\ loading' = [loading EXCEPT ![n] = None]
    /\ pending' = [pending EXCEPT ![n] = None]
    /\ stores' = {s \in stores : s.node # n}
    /\ UNCHANGED <<clock, row, updatedBy>>

DocNext ==
    \/ \E n \in Nodes :
        \/ Fetch(n) \/ Hydrate(n) \/ DebouncedStore(n) \/ ReaderFlush(n)
        \/ Unload(n) \/ Restart(n)
        \/ \E m \in Nodes \ {n} : Sync(n, m)
        \/ \E u \in Users : WriterFlush(n, u)
        \/ /\ Loaded(n)
           /\ \E u \in Users, texts \in SUBSET (Texts \cup {Mark}), gone \in SUBSET Visible(live[n]) :
                 ClientWrite(n, u, texts, gone) \/ DirectWrite(n, u, texts, gone)
    \/ \E s \in stores : CommitStore(s) \/ FailStore(s)
    \/ \E u \in Users : Touch(u)

DocSpec == DocInit /\ [][DocNext]_docVars

\* Hocuspocus runs a debounced store within maxDebounce, and a database transaction ends.
StoreOf(n) == \E s \in stores : s.node = n /\ (CommitStore(s) \/ FailStore(s))
DocFairSpec == DocSpec /\ \A n \in Nodes : WF_docVars(DebouncedStore(n)) /\ WF_docVars(StoreOf(n))

----------------------------------------------------------------------------
(* Properties.                                                             *)

\* Merge-on-write (persistence.ts): whatever was stored once stays stored. No store,
\* however stale the document it captured and whatever order stores commit in, takes
\* an insertion or a deletion out of the row.
RowGrows == [][Below(row, row')]_row

\* A change that waits for its store reaches the row, unless the node that holds it dies
\* first or the document has outgrown the cap: neither a reader that takes the store over
\* nor a store by another node loses it.
Holds(n, k) == Loaded(n) /\ \E s \in live[n].ins : s.tx = k
PendingIsStored ==
    \A n \in Nodes, k \in 1..MaxTx :
        Holds(n, k) /\ pending[n] # None
            ~> (\E s \in row.ins : s.tx = k) \/ ~Holds(n, k) \/ Size(live[n]) > MaxSize
=============================================================================
