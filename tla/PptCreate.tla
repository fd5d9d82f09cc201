------------------------------ MODULE PptCreate ------------------------------
(***************************************************************************)
(* POST /api/v1/ppt/docs (src/api/ppt/docs.ts) with its idempotency record *)
(* (src/db/repos/pptIdempotencyRepo.ts) and the rows it creates.           *)
(*                                                                         *)
(* A create is one InnoDB transaction whose first statement inserts the    *)
(* key's placeholder. While that row is uncommitted, an insert of the same *)
(* key waits; a commit turns the waiting inserts into duplicates, and a    *)
(* rollback gives all of them a shared lock at once, so that the next      *)
(* insert closes a cycle and InnoDB aborts one of them. A caller that got  *)
(* an error, or no answer, sends the request again.                        *)
(***************************************************************************)
EXTENDS Integers, FiniteSets

CONSTANTS
    Users,
    IdemKeys,   \* values of the Idempotency-Key header
    Payloads,   \* canonical payloads: title, folder and template
    Calls,      \* callers with a request under way
    MaxFaults,  \* database errors, timeouts, deaths and lost replies
    NoOne       \* no user, key or payload

ASSUME PptAssumption ==
    /\ MaxFaults \in Nat
    /\ IsFiniteSet(Calls)
    /\ NoOne \notin Users \cup IdemKeys \cup Payloads

VARIABLES
    rec,        \* rec[k]: the committed ppt_idempotency row of primary key k
    decks,      \* committed decks: doc_meta, the owner's doc_member and ppt_doc_state
    call,       \* call[c]: a request under way
    told,       \* the answers callers received
    faults

vars == <<rec, decks, call, told, faults>>

Requests == Users \X IdemKeys
Conflict == 0
NoRow == [payload |-> NoOne, doc |-> Conflict]
NewCall == [pc |-> "new", user |-> NoOne, key |-> NoOne, payload |-> NoOne, got |-> Conflict]

\* Mutant of RowKey: the header alone, whoever sends it.
RowKeyUnscoped(q) == <<CHOOSE u \in Users : TRUE, q.key>>

\* The primary key (space_id, scope, uid, idempotency_key), space and scope being the same.
RowKey(q) == <<q.user, q.key>>
RequestOf(q) == <<q.user, q.key>>

Init ==
    /\ rec = [k \in Requests |-> NoRow]
    /\ decks = {}
    /\ call = [c \in Calls |-> NewCall]
    /\ told = {}
    /\ faults = 0

Goto(c, pc) == call' = [call EXCEPT ![c].pc = pc]
Got(c, doc) == call' = [call EXCEPT ![c].pc = "answer", ![c].got = doc]
AtKey(k, pcs) == {c \in Calls : call[c].pc \in pcs /\ RowKey(call[c]) = k}
\* Transactions that hold a lock on the key: its inserter, or those a rollback let through.
Holders(k) == AtKey(k, {"write", "shared"})

Fault ==
    /\ faults < MaxFaults
    /\ faults' = faults + 1

-----------------------------------------------------------------------------
\* The client. A request that passed validation; after an error the same request again.
Send(c) ==
    /\ call[c].pc = "new"
    /\ \E u \in Users, k \in IdemKeys, p \in Payloads :
           call' = [call EXCEPT ![c] = [pc |-> "get", user |-> u, key |-> k, payload |-> p,
                                        got |-> Conflict]]
    /\ UNCHANGED <<rec, decks, told, faults>>

Resend(c) ==
    /\ call[c].pc \in {"failed", "progress"}
    /\ Goto(c, "get")
    /\ UNCHANGED <<rec, decks, told, faults>>

-----------------------------------------------------------------------------
\* pptIdempotencyRepo.get outside the transaction: replay, conflict, or go on to create.
FromRow(c, row, absent) ==
    IF row = NoRow THEN Goto(c, absent)
    ELSE Got(c, IF row.payload = call[c].payload THEN row.doc ELSE Conflict)

Lookup(c) ==
    /\ call[c].pc = "get"
    /\ FromRow(c, rec[RowKey(call[c])], "reserve")
    /\ UNCHANGED <<rec, decks, told, faults>>

\* Mutant of Reserve: an uncommitted row of somebody else counts as a duplicate.
ReserveNoWait(c) ==
    /\ call[c].pc = "reserve"
    /\ LET k == RowKey(call[c])
       IN  Goto(c, IF rec[k] # NoRow \/ Holders(k) # {} THEN "reread" ELSE "write")
    /\ UNCHANGED <<rec, decks, told, faults>>

\* reserveTx: the INSERT wins the key, meets a committed row, or waits for an uncommitted one.
Reserve(c) ==
    /\ call[c].pc = "reserve"
    /\ LET k == RowKey(call[c])
       IN  Goto(c, IF rec[k] # NoRow THEN "reread"
                   ELSE IF Holders(k) = {} THEN "write" ELSE "wait")
    /\ UNCHANGED <<rec, decks, told, faults>>

\* The transactions it waited for are gone without a row.
Wake(c) ==
    /\ call[c].pc = "wait"
    /\ Holders(RowKey(call[c])) = {}
    /\ Goto(c, "reserve")
    /\ UNCHANGED <<rec, decks, told, faults>>

SharedInsert(c) ==
    /\ call[c].pc = "shared"
    /\ Holders(RowKey(call[c])) = {c}
    /\ Goto(c, "write")
    /\ UNCHANGED <<rec, decks, told, faults>>

\* Mutant of Victim: the error is caught and the statement tried again under the same lock.
VictimInsists(c) ==
    /\ call[c].pc = "shared"
    /\ Holders(RowKey(call[c])) # {c}
    /\ UNCHANGED vars

\* Error 1213: two shared holders both want to insert.
Victim(c) ==
    /\ call[c].pc = "shared"
    /\ Holders(RowKey(call[c])) # {c}
    /\ Goto(c, "failed")
    /\ UNCHANGED <<rec, decks, told, faults>>

\* The rows of the deck and completeTx, committed together. The waiting inserts are duplicates now.
CommitAs(c, pc) ==
    LET q == call[c]
        k == RowKey(q)
        d == Cardinality(decks) + 1     \* newDocId
    IN  /\ rec' = [rec EXCEPT ![k] = [payload |-> q.payload, doc |-> d]]
        /\ decks' = decks \cup {[doc |-> d, owner |-> q.user, request |-> RequestOf(q),
                                 payload |-> q.payload]}
        /\ call' = [x \in Calls |->
               IF x = c THEN [q EXCEPT !.pc = pc, !.got = d]
               ELSE IF x \in AtKey(k, {"wait"}) THEN [call[x] EXCEPT !.pc = "reread"]
               ELSE call[x]]
        /\ UNCHANGED told

Commit(c) ==
    /\ call[c].pc = "write"
    /\ CommitAs(c, "answer")
    /\ UNCHANGED faults

\* The commit went through and its acknowledgement did not.
CommitLost(c) ==
    /\ call[c].pc = "write"
    /\ CommitAs(c, "failed")
    /\ Fault

Rollback(c) ==
    /\ call[c].pc = "write"
    /\ LET k == RowKey(call[c])
       IN  call' = [x \in Calls |->
               IF x = c THEN [call[x] EXCEPT !.pc = "failed"]
               ELSE IF x \in AtKey(k, {"wait"}) THEN [call[x] EXCEPT !.pc = "shared"]
               ELSE call[x]]
    /\ Fault
    /\ UNCHANGED <<rec, decks, told>>

\* KeyReservedElsewhereError: what the winner committed, or "an identical create is in progress".
Reread(c) ==
    /\ call[c].pc = "reread"
    /\ FromRow(c, rec[RowKey(call[c])], "progress")
    /\ UNCHANGED <<rec, decks, told, faults>>

\* Any other await fails: a lookup, a wait for a lock (1205), the reply.
Fails(c) ==
    /\ call[c].pc \in {"get", "reserve", "wait", "shared", "reread", "answer"}
    /\ Goto(c, "failed")
    /\ Fault
    /\ UNCHANGED <<rec, decks, told>>

Reply(c) ==
    /\ call[c].pc = "answer"
    /\ told' = told \cup {[request |-> RequestOf(call[c]), payload |-> call[c].payload,
                           answer |-> call[c].got]}
    /\ Goto(c, "done")
    /\ UNCHANGED <<rec, decks, faults>>

Next ==
    \E c \in Calls :
        \/ Send(c) \/ Resend(c) \/ Lookup(c) \/ Reserve(c) \/ Wake(c) \/ SharedInsert(c)
        \/ Victim(c) \/ Commit(c) \/ CommitLost(c) \/ Rollback(c) \/ Reread(c) \/ Fails(c)
        \/ Reply(c)

\* An await ends, and a caller without an answer asks again.
Fairness ==
    \A c \in Calls :
        /\ WF_vars(Lookup(c) \/ Reserve(c) \/ Wake(c) \/ SharedInsert(c) \/ Reread(c) \/ Reply(c))
        /\ WF_vars(Victim(c))
        /\ WF_vars(Commit(c))
        /\ WF_vars(Resend(c))

Spec == Init /\ [][Next]_vars /\ Fairness

-----------------------------------------------------------------------------
CallStates == [pc : {"new", "get", "reserve", "wait", "shared", "write", "reread", "progress",
                     "failed", "answer", "done"},
               user : Users \cup {NoOne}, key : IdemKeys \cup {NoOne},
               payload : Payloads \cup {NoOne}, got : Nat]

\* The type of the variables.
PptTypeOK ==
    /\ rec \in [Requests -> [payload : Payloads \cup {NoOne}, doc : Nat]]
    /\ \A d \in decks : d \in [doc : Nat, owner : Users, request : Requests, payload : Payloads]
    /\ call \in [Calls -> CallStates]
    /\ \A t \in told : t \in [request : Requests, payload : Payloads, answer : Nat]
    /\ faults \in 0..MaxFaults

(* However retries, deadlocks, rollbacks and lost replies fall, a key has  *)
(* one effect and every answer is about it: docs.ts with the repo          *)
(* implements PptOnce.                                                     *)
EffectOf(r) == {[doc |-> d.doc, payload |-> d.payload] : d \in {x \in decks : x.request = r}}

Once == INSTANCE PptOnce
    WITH Requests <- Requests, Payloads <- Payloads, Conflict <- Conflict,
         Docs <- 1..Cardinality(Calls),
         effect <- [r \in Requests |-> EffectOf(r)], told <- told

ImplementsOnce == Once!OnceSpec

(* "The winner's transaction has not committed yet (rare, transient)"      *)
(* (docs.ts:254): it has, as a duplicate is only reported of a committed   *)
(* row, so the caller is never sent away to retry.                         *)
NeverInProgress == \A c \in Calls : call[c].pc # "progress"

(* "The key is never permanently stranded" (docs.ts:177-180): however a    *)
(* create dies, a caller who keeps asking is answered.                     *)
EveryCallSettles == \A c \in Calls : call[c].pc = "get" ~> call[c].pc = "done"
=============================================================================
