---------------------------- MODULE AccessRequest ----------------------------
(***************************************************************************)
(* Requests for access and the two ways to decide one:                     *)
(* src/api/routes/accessRequests.ts, src/api/routes/cardActionDecide.ts,   *)
(* src/api/services/grantRequestWithBots.ts and grantForward.ts, over      *)
(* docAccessRequestRepo and docCardActionReceiptRepo, for one document.    *)
(*                                                                         *)
(* Every statement on the database is a step of its own: no handler here   *)
(* runs a transaction. octo-server delivers a card click at least once,    *)
(* possibly twice at a time, until it gets a 200.                          *)
(***************************************************************************)
EXTENDS Integers, FiniteSets

CONSTANTS
    Users,          \* the requesters
    Bots,           \* Space bots a requester may ask for along with itself
    Handlers,       \* HTTP requests that may be in progress at one time
    Events,         \* card clicks, by event_id
    MaxId,          \* bound on the number of submissions
    MaxFaults,      \* bound on the number of database errors and crashes
    NoVal

\* Ranks of src/permission/role.ts; commenter, between the two, is left out.
None == 0
Reader == 1
Writer == 2
Roles == {Reader, Writer}
Ids == 1..MaxId
Members == Users \cup Bots
Results == {"approved", "denied", "conflict", "forbidden", "not_found"}

ASSUME AccessAssumption ==
    /\ MaxId \in Nat /\ MaxFaults \in Nat
    /\ Users \cap Bots = {}
    /\ NoVal \notin Users \cup Nat
    /\ NoVal \notin Results

VARIABLES
    row,        \* row[u]: the doc_access_request row of u
    lastId,     \* newRequestId: the last request_id given out
    member,     \* member[m]: rank of the doc_member row of m, None when there is none
    opAdmin,    \* the operator is an admin of the document now
    doc,        \* the document is live, archived or deleted
    handler,    \* handler[h]: an HTTP request
    event,      \* event[e]: what the click e says, and the first 200 it got
    receipt,    \* receipt[e]: the card_action_receipt row of e
    faults,
    approvals,  \* history: <<request_id, rank>> of each approval that won the CAS
    grants      \* history: <<request_id, rank>> of each grant to a requester

vars == <<row, lastId, member, opAdmin, doc, handler, event, receipt, faults, approvals, grants>>
history == <<approvals, grants>>

NoRow == [id |-> 0, status |-> "none", role |-> Reader, bots |-> {}]
NoEvent == [id |-> 0, decision |-> "deny", answer |-> NoVal]
Idle == [pc |-> "idle", op |-> "rest", ev |-> NoVal, decision |-> "deny", id |-> 0,
         user |-> NoVal, role |-> Reader, bots |-> {}, result |-> "not_found"]

Row == [id : 0..MaxId, status : {"none", "pending", "approved", "denied"}, role : Roles,
        bots : SUBSET Bots]
Handler == [pc : {"idle", "claim", "lookup", "admin", "decide", "grant", "bots", "report", "finalize"},
            op : {"rest", "card"}, ev : Events \cup {NoVal}, decision : {"approve", "deny"},
            id : 0..MaxId, user : Users \cup {NoVal}, role : Roles, bots : SUBSET Bots,
            result : Results]
Event == [id : 0..MaxId, decision : {"approve", "deny"}, answer : Results \cup {NoVal}]

TypeOK ==
    /\ row \in [Users -> Row]
    /\ lastId \in 0..MaxId
    /\ member \in [Members -> {None} \cup Roles]
    /\ opAdmin \in BOOLEAN
    /\ doc \in {"live", "archived", "deleted"}
    /\ handler \in [Handlers -> Handler]
    /\ event \in [Events -> Event]
    /\ receipt \in [Events -> {"none", "claimed"} \cup Results]
    /\ faults \in 0..MaxFaults
    /\ approvals \subseteq Ids \X Roles
    /\ grants \subseteq Ids \X Roles

Init ==
    /\ row = [u \in Users |-> NoRow]
    /\ lastId = 0
    /\ member = [m \in Members |-> None]
    /\ opAdmin = TRUE
    /\ doc = "live"
    /\ handler = [h \in Handlers |-> Idle]
    /\ event = [e \in Events |-> NoEvent]
    /\ receipt = [e \in Events |-> "none"]
    /\ faults = 0
    /\ approvals = {}
    /\ grants = {}

----------------------------------------------------------------------------
(* The requester.                                                          *)

\* POST access-requests: one row per user; a new submission replaces the old one,
\* pending again, under a new request_id. Nothing to do when no bot is asked for
\* and the requester already has the role.
Submit(u, r, bs) ==
    /\ doc = "live"
    /\ bs # {} \/ member[u] < r
    /\ lastId < MaxId
    /\ lastId' = lastId + 1
    /\ row' = [row EXCEPT ![u] = [id |-> lastId + 1, status |-> "pending", role |-> r, bots |-> bs]]
    /\ UNCHANGED <<member, opAdmin, doc, handler, event, receipt, faults, history>>

----------------------------------------------------------------------------
(* What the two decision paths share.                                      *)

Owners(id) == {u \in Users : row[u].id = id}

Goto(h, pc) == handler' = [handler EXCEPT ![h].pc = pc]
End(h) == handler' = [handler EXCEPT ![h] = Idle]

\* Mutant of Pending: UPDATE ... WHERE request_id = ?, whatever the status.
Exists(id) == Owners(id) # {}

\* docAccessRequestRepo.decide: UPDATE ... WHERE request_id = ? AND status = pending.
Pending(id) == \E u \in Owners(id) : row[u].status = "pending"
CAS(id, st) == row' = [u \in Users |-> IF u \in Owners(id) THEN [row[u] EXCEPT !.status = st]
                                       ELSE row[u]]

\* grantForwardAccess: only ever upwards.
Grant(m, r) == member' = [member EXCEPT ![m] = IF r > @ THEN r ELSE @]

Decided(d) == IF d = "approve" THEN "approved" ELSE "denied"

----------------------------------------------------------------------------
(* POST approve and deny.                                                  *)

\* requireDocRole admits an admin of a live document, and the request is looked up.
\* The admin may approve at a role of its own choice.
RestStart(h, u, d, r) ==
    /\ handler[h].pc = "idle"
    /\ opAdmin /\ doc = "live"
    /\ row[u].id # 0
    /\ handler' = [handler EXCEPT ![h] =
                      [Idle EXCEPT !.pc = "decide", !.decision = d, !.id = row[u].id, !.user = u,
                                   !.role = r, !.bots = row[u].bots]]
    /\ UNCHANGED <<row, lastId, member, opAdmin, doc, event, receipt, faults, history>>

----------------------------------------------------------------------------
(* The card callback.                                                      *)

\* An admin clicks a card: octo-server gets an event to deliver. The card may be
\* one of an earlier submission.
Click(e, id, d) ==
    /\ event[e].id = 0
    /\ id <= lastId
    /\ event' = [event EXCEPT ![e] = [id |-> id, decision |-> d, answer |-> NoVal]]
    /\ UNCHANGED <<row, lastId, member, opAdmin, doc, handler, receipt, faults, history>>

\* octo-server answers the click with r, and stops delivering it.
Answer(e, r) == event' = [event EXCEPT ![e].answer = IF @ = NoVal THEN r ELSE @]

Deliver(h, e) ==
    /\ handler[h].pc = "idle"
    /\ event[e].id # 0 /\ event[e].answer = NoVal
    /\ handler' = [handler EXCEPT ![h] =
                      [Idle EXCEPT !.pc = "claim", !.op = "card", !.ev = e, !.id = event[e].id,
                                   !.decision = event[e].decision]]
    /\ UNCHANGED <<row, lastId, member, opAdmin, doc, event, receipt, faults, history>>

\* Mutant of Claim: an event that has been claimed is left to whoever claimed it.
ClaimOnce(h) ==
    LET e == handler[h].ev IN
    /\ handler[h].pc = "claim"
    /\ IF receipt[e] # "none"
       THEN /\ IF receipt[e] \in Results THEN Answer(e, receipt[e]) ELSE UNCHANGED event
            /\ End(h)
            /\ UNCHANGED receipt
       ELSE receipt' = [receipt EXCEPT ![e] = "claimed"] /\ Goto(h, "lookup") /\ UNCHANGED event
    /\ UNCHANGED <<row, lastId, member, opAdmin, doc, faults, history>>

\* decideIdempotently: claim the event or replay its response; an event claimed and
\* not finalized is executed again.
Claim(h) ==
    LET e == handler[h].ev IN
    /\ handler[h].pc = "claim"
    /\ IF receipt[e] \in Results
       THEN Answer(e, receipt[e]) /\ End(h) /\ UNCHANGED receipt
       ELSE receipt' = [receipt EXCEPT ![e] = "claimed"] /\ Goto(h, "lookup") /\ UNCHANGED event
    /\ UNCHANGED <<row, lastId, member, opAdmin, doc, faults, history>>

ResultIs(h, r) == handler' = [handler EXCEPT ![h].pc = "finalize", ![h].result = r]

\* computeDecision: the document, then the request ...
Lookup(h) ==
    LET owners == Owners(handler[h].id) IN
    /\ handler[h].pc = "lookup"
    /\ \/ doc = "deleted" /\ ResultIs(h, "not_found")
       \/ doc = "archived" /\ ResultIs(h, "conflict")
       \/ doc = "live" /\ owners = {} /\ ResultIs(h, "not_found")
       \/ /\ doc = "live"
          /\ \E u \in owners :
                handler' = [handler EXCEPT ![h].pc = "admin", ![h].user = u,
                                           ![h].role = row[u].role, ![h].bots = row[u].bots]
    /\ UNCHANGED <<row, lastId, member, opAdmin, doc, event, receipt, faults, history>>

\* ... then whether the operator is still an admin.
CheckAdmin(h) ==
    /\ handler[h].pc = "admin"
    /\ IF opAdmin THEN Goto(h, "decide") ELSE ResultIs(h, "forbidden")
    /\ UNCHANGED <<row, lastId, member, opAdmin, doc, event, receipt, faults, history>>

\* Both paths: the CAS. Who wins an approval goes on to grant; who loses grants
\* nothing (REST answers 409, the callback reports what it finds).
Decide(h) ==
    LET c == handler[h]
        won == Pending(c.id)
    IN
    /\ c.pc = "decide"
    /\ IF won THEN CAS(c.id, Decided(c.decision)) ELSE UNCHANGED row
    /\ approvals' = IF won /\ c.decision = "approve" THEN approvals \cup {<<c.id, c.role>>}
                    ELSE approvals
    /\ IF won /\ c.decision = "approve" THEN Goto(h, "grant")
       ELSE IF c.op = "rest" THEN End(h)
       ELSE IF won THEN ResultIs(h, "denied") ELSE Goto(h, "report")
    /\ UNCHANGED <<lastId, member, opAdmin, doc, event, receipt, faults, grants>>

\* grantRequestWithBots: the requester first ...
GrantRequester(h) ==
    LET c == handler[h] IN
    /\ c.pc = "grant"
    /\ Grant(c.user, c.role)
    /\ grants' = grants \cup {<<c.id, c.role>>}
    /\ Goto(h, "bots")
    /\ UNCHANGED <<row, lastId, opAdmin, doc, event, receipt, faults, approvals>>

\* ... then each bot; the failure of one is swallowed.
GrantBot(h, b) ==
    LET c == handler[h] IN
    /\ c.pc = "bots" /\ b \in c.bots
    /\ \/ Grant(b, c.role) /\ UNCHANGED faults
       \/ faults < MaxFaults /\ faults' = faults + 1 /\ UNCHANGED member
    /\ handler' = [handler EXCEPT ![h].bots = @ \ {b}]
    /\ UNCHANGED <<row, lastId, opAdmin, doc, event, receipt, history>>

GrantsDone(h) ==
    LET c == handler[h] IN
    /\ c.pc = "bots" /\ c.bots = {}
    /\ IF c.op = "rest" THEN End(h) ELSE ResultIs(h, "approved")
    /\ UNCHANGED <<row, lastId, member, opAdmin, doc, event, receipt, faults, history>>

\* Mutant of Report: the click is taken for applied.
ReportApplied(h) ==
    /\ handler[h].pc = "report"
    /\ ResultIs(h, Decided(handler[h].decision))
    /\ UNCHANGED <<row, lastId, member, opAdmin, doc, event, receipt, faults, history>>

\* The CAS was lost: applied when the request is already where we wanted it. A
\* request that is no longer there counts as pending.
Report(h) ==
    LET c == handler[h]
        st == IF Owners(c.id) = {} THEN "pending"
              ELSE row[CHOOSE u \in Owners(c.id) : TRUE].status
    IN
    /\ c.pc = "report"
    /\ ResultIs(h, IF st = Decided(c.decision) THEN st ELSE "conflict")
    /\ UNCHANGED <<row, lastId, member, opAdmin, doc, event, receipt, faults, history>>

\* Mutant of Finalize: UPDATE without "response IS NULL".
FinalizeOverwrites(h) ==
    LET c == handler[h] IN
    /\ c.pc = "finalize"
    /\ receipt' = [receipt EXCEPT ![c.ev] = c.result]
    /\ Answer(c.ev, c.result)
    /\ End(h)
    /\ UNCHANGED <<row, lastId, member, opAdmin, doc, faults, history>>

\* The first response stored is the one everybody gives.
Finalize(h) ==
    LET c == handler[h]
        final == IF receipt[c.ev] = "claimed" THEN c.result ELSE receipt[c.ev]
    IN
    /\ c.pc = "finalize"
    /\ receipt' = [receipt EXCEPT ![c.ev] = final]
    /\ Answer(c.ev, final)
    /\ End(h)
    /\ UNCHANGED <<row, lastId, member, opAdmin, doc, faults, history>>

----------------------------------------------------------------------------
(* Faults and the rest of the world.                                       *)

\* A statement throws (REST answers 500, the callback 503 and is delivered again)
\* or the process dies.
Fault(h) ==
    /\ handler[h].pc # "idle"
    /\ faults < MaxFaults
    /\ faults' = faults + 1
    /\ End(h)
    /\ UNCHANGED <<row, lastId, member, opAdmin, doc, event, receipt, history>>

\* Another admin changes the operator's role; the owner archives or deletes.
OperatorChanges ==
    /\ opAdmin' = ~opAdmin
    /\ UNCHANGED <<row, lastId, member, doc, handler, event, receipt, faults, history>>

DocChanges(st) ==
    /\ doc' = st
    /\ UNCHANGED <<row, lastId, member, opAdmin, handler, event, receipt, faults, history>>

----------------------------------------------------------------------------
Advance(h) ==
    \/ Claim(h) \/ Lookup(h) \/ CheckAdmin(h) \/ Decide(h)
    \/ GrantRequester(h) \/ (\E b \in Bots : GrantBot(h, b)) \/ GrantsDone(h)
    \/ Report(h) \/ Finalize(h)

Next ==
    \/ \E u \in Users, r \in Roles, bs \in SUBSET Bots : Submit(u, r, bs)
    \/ \E h \in Handlers :
           \/ Advance(h) \/ Fault(h)
           \/ \E u \in Users, r \in Roles : RestStart(h, u, "approve", r)
           \/ \E u \in Users : RestStart(h, u, "deny", Reader)
           \/ \E e \in Events : Deliver(h, e)
    \/ \E e \in Events, id \in Ids, d \in {"approve", "deny"} : Click(e, id, d)
    \/ OperatorChanges
    \/ \E st \in {"live", "archived", "deleted"} : DocChanges(st)

Spec == Init /\ [][Next]_vars

\* Handlers run on, and octo-server keeps delivering a click until it is answered.
FairSpec ==
    /\ Spec
    /\ \A h \in Handlers : WF_vars(Advance(h))
    /\ \A e \in Events : SF_vars(\E h \in Handlers : Deliver(h, e))

----------------------------------------------------------------------------
(* Correctness.                                                            *)

\* Nobody has more than an approval gave: the requester's role is the highest one
\* that was approved for it and granted, at most one approval per request, and no
\* loser of the CAS, replay or stale card grants anything (no escalation past the
\* role an admin chose).
GrantedAsApproved ==
    /\ grants \subseteq approvals
    /\ \A a, b \in approvals : a[1] = b[1] => a = b
    /\ \A m \in Members : member[m] # None => \E a \in approvals : a[2] >= member[m]

\* Every delivery of an event that is answered 200 is answered alike: the response
\* stored first is final, and it is the one octo-server got.
OneAnswer ==
    /\ [][\A e \in Events : receipt[e] \in Results => receipt'[e] = receipt[e]]_receipt
    /\ [](\A e \in Events : event[e].answer # NoVal => event[e].answer = receipt[e])

\* An approval or denial reported to octo-server is the truth: the row it names had
\* been decided that way when the response was stored, and it has not been decided
\* otherwise since.
AnswerIsTrue ==
    \A e \in Events, u \in Users :
        receipt[e] \in {"approved", "denied"} /\ row[u].id = event[e].id => row[u].status = receipt[e]

\* octo-server gets an answer to every click it delivers, however often its
\* deliveries fail on the way.
ClickAnswered == \A e \in Events : event[e].id # 0 ~> event[e].answer # NoVal

----------------------------------------------------------------------------
(* What the documentation says, and the code does not do.                  *)

Working(id) == \E h \in Handlers : handler[h].pc # "idle" /\ handler[h].id = id

\* cardActionDecide.ts, when the CAS is lost: "The grant (if any) was or will be
\* applied by the actual decider". So once nobody works on a request any more, an
\* approval that was reported as applied has been granted.
AppliedMeansGranted ==
    \A e \in Events :
        receipt[e] = "approved" /\ ~Working(event[e].id) => \E g \in grants : g[1] = event[e].id

=============================================================================
