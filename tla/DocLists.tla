------------------------------ MODULE DocLists ------------------------------
(***************************************************************************)
(* The lists of documents one user sees: the document list, the recently   *)
(* viewed, and the set that a full-text search may return                  *)
(* (src/api/routes/docs.ts, docMetaRepo.ts, docViewHistoryRepo.ts). Each   *)
(* is one SQL query that repeats, in its own words, the rule the guard of  *)
(* every read applies (guard.ts, resolveEffectiveRole.ts, shareScope.ts).  *)
(* Roles are their stored numbers: 1 reader, 2 writer, 3 admin, and 4 for  *)
(* commenter, which ranks between reader and writer.                       *)
(***************************************************************************)
EXTENDS Integers, FiniteSets

CONSTANTS
    Documents,  \* numbers, the order of their ids
    Homes,      \* Homes[d]: the space of document d
    Owned,      \* documents the user owns
    BotOwned,   \* documents that bots of the user own
    Keep,       \* docView.retainCount
    MaxTerms,   \* config.search.maxVisibleTerms
    Days,       \* docView.retainDays, in ticks of the clock
    MaxClock, MaxChanges    \* bounds on the clock and on what others do

ASSUME ListsAssumption ==
    /\ Documents \subseteq Nat /\ IsFiniteSet(Documents)
    /\ Owned \subseteq Documents /\ BotOwned \subseteq Documents \ Owned
    /\ {Keep, Days, MaxTerms, MaxClock, MaxChanges} \subseteq Nat

SpaceSet == {Homes[d] : d \in Documents}

VARIABLES
    meta,       \* meta[d]: status, share scope and share role
    direct,     \* direct[d]: the user's doc_member role, or 0
    inSpaces,   \* the spaces the user is a member of
    views,      \* rows of doc_view_history: [doc, space, at]
    clock,
    viewing,    \* the view that passed its guard and is not recorded yet, or NotViewing
    latest,     \* latest[d]: when the user's last recorded view of d was, or -1
    changes     \* how much others have done

listVars == <<meta, direct, inSpaces, views, clock, viewing, latest, changes>>

Statuses == {"active", "deleted", "archived"}
Shares == {"restricted", "read", "edit"}
NotViewing == -1

ListsInit ==
    /\ meta = [d \in Documents |-> [status |-> "active", share |-> "restricted"]]
    /\ direct = [d \in Documents |-> 0]
    /\ inSpaces \in SUBSET SpaceSet
    /\ views = {}
    /\ clock = 0
    /\ viewing = NotViewing
    /\ latest = [d \in Documents |-> -1]
    /\ changes = 0

-----------------------------------------------------------------------------
(* requireDocRole: the role of a reader, 0 for none.                       *)

\* roleRank of a stored role.
Rank(role) == CASE role = 0 -> 0 [] role = 1 -> 10 [] role = 4 -> 20 [] role = 2 -> 30 [] role = 3 -> 40

\* resolveRole.
DirectRole(d) == IF d \in Owned THEN 3 ELSE direct[d]

ShareDerived(d) ==
    IF meta[d].share = "restricted" \/ Homes[d] \notin inSpaces THEN 0
    ELSE IF meta[d].share = "edit" THEN 2 ELSE 1

\* resolveEffectiveRole and effectiveRole.
EffectiveRole(d) ==
    IF Rank(DirectRole(d)) >= Rank(ShareDerived(d)) THEN DirectRole(d) ELSE ShareDerived(d)

Readable(d, s) == Homes[d] = s /\ meta[d].status = "active" /\ EffectiveRole(d) # 0

-----------------------------------------------------------------------------
(* The queries. `member` is what resolveViewerSpaceMembership found.       *)

\* A LEFT JOIN of doc_member, with dm.role among the stored roles.
MemberRow(d) == direct[d] # 0

\* Mutant of MergedRole: GREATEST of the stored numbers.
MergedRoleGreatest(d) ==
    LET share == IF meta[d].share = "edit" THEN 2 ELSE 1
    IN  IF direct[d] > share THEN direct[d] ELSE share

\* The CASE of a shared document: share role edit lifts a reader or commenter to writer.
MergedRole(d) ==
    IF meta[d].share = "edit" THEN IF direct[d] \in {2, 3} THEN direct[d] ELSE 2
    ELSE IF direct[d] # 0 THEN direct[d] ELSE 1

Projected(d, owners, shared) ==
    IF d \in owners THEN 3
    ELSE IF shared /\ meta[d].share # "restricted" THEN MergedRole(d)
    ELSE direct[d]

Entry(d, role) == [doc |-> d, role |-> role]

\* listForUser with the space's documents; owner=me widens owners to the caller's bots and
\* leaves out everything shared.
ListForUser(s, mine, member) ==
    LET owners == IF mine THEN Owned \cup BotOwned ELSE Owned
        shared == ~mine /\ member
    IN  {Entry(d, Projected(d, owners, shared)) :
            d \in {x \in Documents :
                    /\ meta[x].status # "deleted" /\ Homes[x] = s
                    /\ \/ x \in owners
                       \/ ~mine /\ MemberRow(x)
                       \/ shared /\ meta[x].share # "restricted"}}

\* listRecent: the view rows of the space, with the documents that are still visible.
ListRecent(s, member) ==
    {Entry(v.doc, Projected(v.doc, Owned, member /\ Homes[v.doc] = v.space)) :
        v \in {x \in views :
                /\ x.space = s /\ meta[x.doc].status = "active"
                /\ \/ x.doc \in Owned \/ MemberRow(x.doc)
                   \/ member /\ meta[x.doc].share # "restricted" /\ Homes[x.doc] = x.space}}

\* listVisibleDocIdSet, pushed down to the search; never widened to the user's bots.
VisibleDocIdSet(s, member) ==
    {d \in Documents :
        /\ meta[d].status = "active" /\ Homes[d] = s
        /\ \/ d \in Owned \/ MemberRow(d)
           \/ member /\ meta[d].share # "restricted"}

\* The handlers: GET /docs, GET /docs/recent and POST /docs/search, of which the index
\* found `matches`. A row whose role is none of the stored ones is dropped.
Shown(rows) == {e \in rows : e.role # 0}
ListDocs(s, mine, member) == Shown(ListForUser(s, mine, ~mine /\ member))
Recents(s, member) == Shown(ListRecent(s, member))
SearchDocs(s, member, matches) ==
    LET visible == VisibleDocIdSet(s, member)
    IN  IF Cardinality(visible) > MaxTerms THEN {} ELSE matches \cap visible

-----------------------------------------------------------------------------
(* What others do: PUT /share, member changes, deletion, archiving; and    *)
(* the user joins and leaves spaces.                                       *)

Others ==
    /\ changes < MaxChanges /\ changes' = changes + 1
    /\ \/ \E d \in Documents, st \in Statuses : meta' = [meta EXCEPT ![d].status = st]
          /\ UNCHANGED <<direct, inSpaces>>
       \/ \E d \in Documents, sh \in Shares : meta' = [meta EXCEPT ![d].share = sh]
          /\ UNCHANGED <<direct, inSpaces>>
       \/ \E d \in Documents, r \in 0..4 : direct' = [direct EXCEPT ![d] = r]
          /\ UNCHANGED <<meta, inSpaces>>
       \/ \E s \in SpaceSet : inSpaces' = (inSpaces \ {s}) \cup ({s} \ inSpaces)
          /\ UNCHANGED <<meta, direct>>
    /\ UNCHANGED <<views, clock, viewing, latest>>

Tick ==
    /\ clock < MaxClock /\ clock' = clock + 1
    /\ UNCHANGED <<meta, direct, inSpaces, views, viewing, latest, changes>>

-----------------------------------------------------------------------------
(* POST /docs/:docId/view.                                                 *)

\* requireDocRole(reader).
OpenDoc ==
    /\ viewing = NotViewing
    /\ \E d \in Documents, s \in SpaceSet : Readable(d, s) /\ viewing' = d
    /\ UNCHANGED <<meta, direct, inSpaces, views, clock, latest, changes>>

\* Newest first, the higher id first among views of one time.
Before(v, w) == v.at > w.at \/ (v.at = w.at /\ v.doc > w.doc)
NewestOf(rows) == {v \in rows : Cardinality({w \in rows : Before(w, v)}) < Keep}

\* Mutant of Pruned: the count is taken over all spaces.
PrunedEverywhere(rows, space) == IF Keep = 0 THEN rows ELSE NewestOf(rows)

\* Per space, except that 0 keeps all.
Pruned(rows, space) ==
    LET here == {v \in rows : v.space = space}
    IN  IF Keep = 0 THEN rows ELSE (rows \ here) \cup NewestOf(here)

Aged(rows) == IF Days = 0 THEN rows ELSE {v \in rows : v.at >= clock - Days}

\* upsertViewWithPrune, one transaction.
RecordView ==
    /\ viewing # NotViewing
    /\ LET s == Homes[viewing]
           others == {v \in views : ~(v.doc = viewing /\ v.space = s)}
       IN  views' = Aged(Pruned(others \cup {[doc |-> viewing, space |-> s, at |-> clock]}, s))
    /\ latest' = [latest EXCEPT ![viewing] = clock]
    /\ viewing' = NotViewing
    /\ UNCHANGED <<meta, direct, inSpaces, clock, changes>>

ListsNext == Others \/ Tick \/ OpenDoc \/ RecordView

ListsSpec == ListsInit /\ [][ListsNext]_listVars

-----------------------------------------------------------------------------
(* The three lists say what the guard would (docMetaRepo.ts:412,           *)
(* 445-452, docViewHistoryRepo.ts:75-117): a document is searched or       *)
(* listed as recent exactly when opening it would be allowed, with the     *)
(* role one would have; also while shares, members and memberships change. *)
(* A failed membership lookup only ever shows less. A view is remembered   *)
(* while it is among the newest of its space and young enough, however     *)
(* much is opened elsewhere.                                               *)
Permitted(s) == {Entry(d, EffectiveRole(d)) : d \in {x \in Documents : Readable(x, s)}}

Remembered(d) ==
    /\ latest[d] >= 0 /\ (Days = 0 \/ latest[d] >= clock - Days)
    /\ LET later == {e \in Documents : Homes[e] = Homes[d] /\
                        (latest[e] > latest[d] \/ (latest[e] = latest[d] /\ e > d))}
       IN  Keep = 0 \/ Cardinality(later) < Keep

ListsMirrorGuard ==
    \A s \in SpaceSet :
        LET member == s \in inSpaces
            active(list) == {e \in list : meta[e.doc].status = "active"}
        IN  /\ VisibleDocIdSet(s, member) = {e.doc : e \in Permitted(s)}
            /\ \A m \in {FALSE, member} :
                SearchDocs(s, m, Documents) \subseteq VisibleDocIdSet(s, member)
            /\ active(ListDocs(s, FALSE, member)) = Permitted(s)
            /\ Recents(s, member) \subseteq Permitted(s)
            /\ \A e \in Permitted(s) : Remembered(e.doc) => e \in Recents(s, member)
=============================================================================
