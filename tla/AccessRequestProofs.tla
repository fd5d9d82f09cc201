------------------------- MODULE AccessRequestProofs -------------------------
(***************************************************************************)
(* What the two ways to decide an access request guarantee for any         *)
(* requesters, bots, handlers, clicks and faults: nobody gets more than    *)
(* one approval gave, and every answer to a click is final and true.       *)
(*                                                                         *)
(* None of it is inductive by itself. IInv adds that request ids are given *)
(* out once, that a request once decided stays as it was decided, what a   *)
(* handler knows at each of its statements, and that a click is received   *)
(* only after it was made.                                                 *)
(***************************************************************************)
EXTENDS AccessRequest, TLAPS

\* The row of request id, if it is still there, was decided as st.
DecidedAs(id, st) == \A u \in Users : row[u].id = id => row[u].status = st

IdsOK ==
    \A u, v \in Users : row[u].id <= lastId /\ (row[u].id # 0 /\ row[u].id = row[v].id => u = v)

ApprovalsOK ==
    /\ \A a \in approvals : a[1] <= lastId /\ DecidedAs(a[1], "approved")
    /\ \A a, b \in approvals : a[1] = b[1] => a = b

Final == {"approved", "denied"}

EventOK(e) ==
    /\ event[e].id <= lastId
    /\ event[e].id = 0 => receipt[e] = "none"
    /\ event[e].answer # NoVal => receipt[e] = event[e].answer
    /\ receipt[e] \in Final => DecidedAs(event[e].id, receipt[e])

\* What a handler that is under way has made sure of.
HandlerOK(h) ==
    handler[h].pc # "idle" =>
        /\ handler[h].id # 0 /\ handler[h].id <= lastId
        /\ handler[h].op = "rest" => handler[h].pc \in {"decide", "grant", "bots"}
        /\ handler[h].op = "card" =>
             /\ handler[h].ev \in Events
             /\ event[handler[h].ev].id = handler[h].id
             /\ handler[h].pc # "claim" => receipt[handler[h].ev] # "none"
        /\ handler[h].pc \in {"grant", "bots"} => <<handler[h].id, handler[h].role>> \in approvals
        /\ handler[h].pc = "finalize" /\ handler[h].result \in Final =>
             DecidedAs(handler[h].id, handler[h].result)

GrantsOK ==
    /\ grants \subseteq approvals
    /\ \A m \in Members : member[m] # None => \E a \in approvals : a[2] >= member[m]

EventsOK == \A e \in Events : EventOK(e)
HandlersOK == \A h \in Handlers : HandlerOK(h)

IInv == TypeOK /\ IdsOK /\ ApprovalsOK /\ EventsOK /\ HandlersOK /\ GrantsOK

Pcs == {"idle", "claim", "lookup", "admin", "decide", "grant", "bots", "report", "finalize"}

----------------------------------------------------------------------------
(* Types.                                                                  *)

LEMMA Ranks == Roles \subseteq Nat /\ None \notin Roles /\ Reader \in Roles
BY DEF Roles, Reader, Writer, None

LEMMA IdleType == Idle \in Handler
BY Ranks, AccessAssumption DEF Idle, Handler, Results

LEMMA HandlerTypes ==
    ASSUME NEW c \in Handler
    PROVE  /\ \A x \in Pcs : [c EXCEPT !.pc = x] \in Handler
           /\ \A x \in {"rest", "card"} : [c EXCEPT !.op = x] \in Handler
           /\ \A x \in Events \cup {NoVal} : [c EXCEPT !.ev = x] \in Handler
           /\ \A x \in {"approve", "deny"} : [c EXCEPT !.decision = x] \in Handler
           /\ \A x \in 0..MaxId : [c EXCEPT !.id = x] \in Handler
           /\ \A x \in Users \cup {NoVal} : [c EXCEPT !.user = x] \in Handler
           /\ \A x \in Roles : [c EXCEPT !.role = x] \in Handler
           /\ \A x \in SUBSET Bots : [c EXCEPT !.bots = x] \in Handler
           /\ \A x \in Results : [c EXCEPT !.result = x] \in Handler
<1>1. \A x \in Pcs : [c EXCEPT !.pc = x] \in Handler
    BY DEF Handler, Pcs
<1>2. \A x \in {"rest", "card"} : [c EXCEPT !.op = x] \in Handler
    BY DEF Handler
<1>3. \A x \in Events \cup {NoVal} : [c EXCEPT !.ev = x] \in Handler
    BY DEF Handler
<1>4. \A x \in {"approve", "deny"} : [c EXCEPT !.decision = x] \in Handler
    BY DEF Handler
<1>5. \A x \in 0..MaxId : [c EXCEPT !.id = x] \in Handler
    BY DEF Handler
<1>6. \A x \in Users \cup {NoVal} : [c EXCEPT !.user = x] \in Handler
    BY DEF Handler
<1>7. \A x \in Roles : [c EXCEPT !.role = x] \in Handler
    BY DEF Handler
<1>8. \A x \in SUBSET Bots : [c EXCEPT !.bots = x] \in Handler
    BY DEF Handler
<1>9. \A x \in Results : [c EXCEPT !.result = x] \in Handler
    BY DEF Handler
<1> QED BY <1>1, <1>2, <1>3, <1>4, <1>5, <1>6, <1>7, <1>8, <1>9

\* What a handler looks like after a step.
LEMMA Moved ==
    ASSUME TypeOK, NEW h \in Handlers, NEW pc \in Pcs, Goto(h, pc)
    PROVE  /\ handler' \in [Handlers -> Handler]
           /\ handler'[h] = [handler[h] EXCEPT !.pc = pc]
           /\ \A g \in Handlers \ {h} : handler'[g] = handler[g]
BY HandlerTypes DEF TypeOK, Goto

LEMMA MovedFields ==
    ASSUME NEW c \in Handler, NEW pc, NEW x, x = [c EXCEPT !.pc = pc]
    PROVE  /\ x.pc = pc /\ x.op = c.op /\ x.ev = c.ev /\ x.decision = c.decision /\ x.id = c.id
           /\ x.user = c.user /\ x.role = c.role /\ x.bots = c.bots /\ x.result = c.result
BY DEF Handler

LEMMA Ended ==
    ASSUME TypeOK, NEW h \in Handlers, End(h)
    PROVE  /\ handler' \in [Handlers -> Handler] /\ handler'[h].pc = "idle"
           /\ \A g \in Handlers \ {h} : handler'[g] = handler[g]
<1>1. Idle \in Handler /\ Idle.pc = "idle"
    BY IdleType DEF Idle
<1> QED BY <1>1 DEF TypeOK, End

LEMMA Resulted ==
    ASSUME TypeOK, NEW h \in Handlers, NEW r \in Results, ResultIs(h, r)
    PROVE  /\ handler' \in [Handlers -> Handler]
           /\ handler'[h].pc = "finalize" /\ handler'[h].result = r
           /\ handler'[h].op = handler[h].op /\ handler'[h].ev = handler[h].ev
           /\ handler'[h].id = handler[h].id
           /\ \A g \in Handlers \ {h} : handler'[g] = handler[g]
<1>1. PICK a : a = [handler[h] EXCEPT !.pc = "finalize"]
    OBVIOUS
<1>2. PICK b : b = [a EXCEPT !.result = r]
    OBVIOUS
<1>3. a \in Handler
    BY <1>1, HandlerTypes DEF TypeOK, Pcs
<1>4. b \in Handler
    BY <1>2, <1>3, HandlerTypes
<1>5. /\ b.pc = "finalize" /\ b.result = r /\ b.op = handler[h].op
      /\ b.ev = handler[h].ev /\ b.id = handler[h].id
    BY <1>1, <1>2 DEF TypeOK, Handler
<1>6. handler' = [handler EXCEPT ![h] = b]
    BY <1>1, <1>2 DEF ResultIs, TypeOK
<1> QED BY <1>4, <1>5, <1>6 DEF TypeOK

\* What every step of one handler is, and every other step of nobody's.
Acts(h) ==
    \/ Advance(h) \/ Fault(h)
    \/ \E u \in Users, r \in Roles : RestStart(h, u, "approve", r)
    \/ \E u \in Users : RestStart(h, u, "deny", Reader)
    \/ \E e \in Events : Deliver(h, e)

Around ==
    \/ \E u \in Users, r \in Roles, bs \in SUBSET Bots : Submit(u, r, bs)
    \/ \E e \in Events, id \in Ids, d \in {"approve", "deny"} : Click(e, id, d)
    \/ OperatorChanges
    \/ \E st \in {"live", "archived", "deleted"} : DocChanges(st)
    \/ UNCHANGED vars

LEMMA Steps ==
    ASSUME [Next]_vars
    PROVE  Around \/ \E h \in Handlers : Acts(h)
BY DEF Next, Around, Acts

\* The handlers, by handler: after each of its steps the handler is of its type and the
\* others are as they were.
LEMMA HandlerStep ==
    ASSUME TypeOK, NEW h \in Handlers, Acts(h)
    PROVE  handler' \in [Handlers -> Handler] /\ \A g \in Handlers \ {h} : handler'[g] = handler[g]
<1> DEFINE Goal == handler' \in [Handlers -> Handler] /\ \A g \in Handlers \ {h} : handler'[g] = handler[g]
<1>0. handler[h] \in Handler /\ handler \in [Handlers -> Handler]
    BY DEF TypeOK
<1>1. ASSUME NEW u \in Users, NEW d \in {"approve", "deny"}, NEW r \in Roles, RestStart(h, u, d, r)
      PROVE  Goal
    <2>1. row[u].id \in 0..MaxId /\ row[u].bots \in SUBSET Bots
        BY DEF TypeOK, Row
    <2>2. PICK a : a = [Idle EXCEPT !.pc = "decide"]
        OBVIOUS
    <2>3. PICK b : b = [a EXCEPT !.decision = d]
        OBVIOUS
    <2>4. PICK i : i = [b EXCEPT !.id = row[u].id]
        OBVIOUS
    <2>5. PICK j : j = [i EXCEPT !.user = u]
        OBVIOUS
    <2>6. PICK k : k = [j EXCEPT !.role = r]
        OBVIOUS
    <2>7. PICK l : l = [k EXCEPT !.bots = row[u].bots]
        OBVIOUS
    <2>8. a \in Handler
        BY <2>2, IdleType, HandlerTypes DEF Pcs
    <2>9. b \in Handler
        BY <2>3, <2>8, HandlerTypes
    <2>10. i \in Handler
        BY <2>1, <2>4, <2>9, HandlerTypes
    <2>11. j \in Handler
        BY <2>5, <2>10, HandlerTypes
    <2>12. k \in Handler
        BY <2>6, <2>11, HandlerTypes
    <2>13. l \in Handler
        BY <2>1, <2>7, <2>12, HandlerTypes
    <2>14. handler' = [handler EXCEPT ![h] = l]
        BY <1>1, <2>2, <2>3, <2>4, <2>5, <2>6, <2>7 DEF RestStart
    <2> QED BY <1>0, <2>13, <2>14
<1>2. ASSUME NEW e \in Events, Deliver(h, e) PROVE Goal
    <2>1. event[e].id \in 0..MaxId /\ event[e].decision \in {"approve", "deny"}
        BY DEF TypeOK, Event
    <2>2. PICK a : a = [Idle EXCEPT !.pc = "claim"]
        OBVIOUS
    <2>3. PICK b : b = [a EXCEPT !.op = "card"]
        OBVIOUS
    <2>4. PICK i : i = [b EXCEPT !.ev = e]
        OBVIOUS
    <2>5. PICK j : j = [i EXCEPT !.id = event[e].id]
        OBVIOUS
    <2>6. PICK k : k = [j EXCEPT !.decision = event[e].decision]
        OBVIOUS
    <2>7. a \in Handler
        BY <2>2, IdleType, HandlerTypes DEF Pcs
    <2>8. b \in Handler
        BY <2>3, <2>7, HandlerTypes
    <2>9. i \in Handler
        BY <2>4, <2>8, HandlerTypes
    <2>10. j \in Handler
        BY <2>1, <2>5, <2>9, HandlerTypes
    <2>11. k \in Handler
        BY <2>1, <2>6, <2>10, HandlerTypes
    <2>12. handler' = [handler EXCEPT ![h] = k]
        BY <1>2, <2>2, <2>3, <2>4, <2>5, <2>6 DEF Deliver
    <2> QED BY <1>0, <2>11, <2>12
<1>3. CASE Lookup(h)
    <2>1. ASSUME NEW u \in Owners(handler[h].id),
                 handler' = [handler EXCEPT ![h].pc = "admin", ![h].user = u,
                                            ![h].role = row[u].role, ![h].bots = row[u].bots]
          PROVE  Goal
        <3>1. u \in Users /\ row[u].role \in Roles /\ row[u].bots \in SUBSET Bots
            BY DEF TypeOK, Row, Owners
        <3>2. PICK a : a = [handler[h] EXCEPT !.pc = "admin"]
            OBVIOUS
        <3>3. PICK b : b = [a EXCEPT !.user = u]
            OBVIOUS
        <3>4. PICK i : i = [b EXCEPT !.role = row[u].role]
            OBVIOUS
        <3>5. PICK j : j = [i EXCEPT !.bots = row[u].bots]
            OBVIOUS
        <3>6. a \in Handler
            BY <1>0, <3>2, HandlerTypes DEF Pcs
        <3>7. b \in Handler
            BY <3>1, <3>3, <3>6, HandlerTypes
        <3>8. i \in Handler
            BY <3>1, <3>4, <3>7, HandlerTypes
        <3>9. j \in Handler
            BY <3>1, <3>5, <3>8, HandlerTypes
        <3>10. handler' = [handler EXCEPT ![h] = j]
            BY <1>0, <2>1, <3>2, <3>3, <3>4, <3>5
        <3> QED BY <1>0, <3>9, <3>10
    <2>2. ASSUME NEW r \in {"not_found", "conflict"}, ResultIs(h, r) PROVE Goal
        BY <2>2, Resulted DEF Results
    <2> QED BY <1>3, <2>1, <2>2 DEF Lookup
<1>4. ASSUME NEW b \in Bots, GrantBot(h, b) PROVE Goal
    <2>1. PICK a : a = [handler[h] EXCEPT !.bots = handler[h].bots \ {b}]
        OBVIOUS
    <2>2. handler[h].bots \ {b} \in SUBSET Bots
        BY <1>0 DEF Handler
    <2>3. a \in Handler
        BY <1>0, <2>1, <2>2, HandlerTypes
    <2>4. handler' = [handler EXCEPT ![h] = a]
        BY <1>0, <1>4, <2>1 DEF GrantBot
    <2> QED BY <1>0, <2>3, <2>4
<1>5. ASSUME End(h) PROVE Goal
    BY <1>5, Ended
<1>6. ASSUME NEW pc \in Pcs, Goto(h, pc) PROVE Goal
    BY <1>6, Moved
<1>7. ASSUME NEW r \in Results, ResultIs(h, r) PROVE Goal
    BY <1>7, Resulted
<1> HIDE DEF Goal
<1>8. ASSUME Claim(h) \/ GrantRequester(h) \/ Finalize(h) \/ Fault(h) PROVE Goal
    BY <1>5, <1>6, <1>8 DEF Claim, GrantRequester, Finalize, Fault, Pcs
<1>9. ASSUME CheckAdmin(h) \/ GrantsDone(h) PROVE Goal
    BY <1>5, <1>6, <1>7, <1>9 DEF CheckAdmin, GrantsDone, Pcs, Results
<1>10. ASSUME Decide(h) PROVE Goal
    BY <1>5, <1>6, <1>7, <1>10 DEF Decide, Pcs, Results
<1>11. ASSUME Report(h) PROVE Goal
    <2>1. \A st, d : (IF st = Decided(d) THEN st ELSE "conflict") \in Results
        BY DEF Decided, Results
    <2>2. \E r \in Results : ResultIs(h, r)
        BY <1>11, <2>1 DEF Report
    <2> QED BY <1>7, <2>2
<1>12. Reader \in Roles
    BY Ranks
<1>13. Goal
    BY <1>1, <1>2, <1>3, <1>4, <1>8, <1>9, <1>10, <1>11, <1>12 DEF Acts, Advance, Goal
<1> QED BY <1>13 DEF Goal

----------------------------------------------------------------------------
(* The table, step by step.                                                *)

LEMMA RowFields ==
    ASSUME NEW x \in Row
    PROVE  /\ x.id \in 0..MaxId /\ x.status \in {"none", "pending", "approved", "denied"}
           /\ x.role \in Roles /\ x.bots \in SUBSET Bots
BY DEF Row

LEMMA RowDecided ==
    ASSUME NEW x \in Row, NEW st \in Final, NEW y, y = [x EXCEPT !.status = st]
    PROVE  y \in Row /\ y.status = st /\ y.id = x.id
BY DEF Row, Final

LEMMA DecidedFinal == \A d : Decided(d) \in Final
BY DEF Decided, Final

\* What the CAS does to each row.
LEMMA CasRows ==
    ASSUME TypeOK, NEW id, NEW st \in Final, CAS(id, st)
    PROVE  /\ row' \in [Users -> Row]
           /\ \A u \in Users : /\ row'[u].id = row[u].id
                               /\ row[u].id = id => row'[u].status = st
                               /\ row[u].id # id => row'[u] = row[u]
<1>1. row \in [Users -> Row]
    BY DEF TypeOK
<1>2. \A u \in Users : row'[u] = IF row[u].id = id THEN [row[u] EXCEPT !.status = st] ELSE row[u]
    BY DEF CAS, Owners
<1>3. \A u \in Users : row'[u] \in Row
    BY <1>1, <1>2, RowDecided
<1>4. row' = [u \in Users |-> row'[u]]
    BY DEF CAS
<1>5. row' \in [Users -> Row]
    BY <1>3, <1>4
<1>6. ASSUME NEW u \in Users
      PROVE  /\ row'[u].id = row[u].id
             /\ row[u].id = id => row'[u].status = st
             /\ row[u].id # id => row'[u] = row[u]
    <2>1. CASE row[u].id = id
        <3>1. row'[u] = [row[u] EXCEPT !.status = st] /\ row[u] \in Row
            BY <1>1, <1>2, <2>1
        <3> QED BY <2>1, <3>1, RowDecided
    <2>2. CASE row[u].id # id
        BY <1>2, <2>2
    <2> QED BY <2>1, <2>2
<1> QED BY <1>5, <1>6

\* A row changes when its requester submits again, under a request id nobody has, and
\* when it is decided, which only a pending one is.
LEMMA RowStep ==
    ASSUME TypeOK, IdsOK, HandlersOK, [Next]_vars
    PROVE  /\ row' \in [Users -> Row] /\ lastId' \in 0..MaxId /\ lastId <= lastId'
           /\ IdsOK'
           /\ \A u \in Users :
                 \/ row'[u] = row[u]
                 \/ row'[u].id = lastId + 1
                 \/ row[u].status = "pending" /\ row'[u].id = row[u].id
<1>0. /\ row \in [Users -> Row] /\ lastId \in 0..MaxId /\ MaxId \in Nat
      /\ \A u \in Users : row[u].id \in 0..MaxId
    BY AccessAssumption, RowFields DEF TypeOK
<1> DEFINE Goal == /\ row' \in [Users -> Row] /\ lastId' \in 0..MaxId /\ lastId <= lastId'
                   /\ IdsOK'
                   /\ \A u \in Users :
                         \/ row'[u] = row[u]
                         \/ row'[u].id = lastId + 1
                         \/ row[u].status = "pending" /\ row'[u].id = row[u].id
<1>1. ASSUME UNCHANGED <<row, lastId>> PROVE Goal
    BY <1>0, <1>1 DEF IdsOK
<1>2. ASSUME NEW u \in Users, NEW r \in Roles, NEW bs \in SUBSET Bots, Submit(u, r, bs) PROVE Goal
    <2>1. PICK x : x = [id |-> lastId + 1, status |-> "pending", role |-> r, bots |-> bs]
        OBVIOUS
    <2>2. lastId + 1 \in 0..MaxId /\ lastId' = lastId + 1
        BY <1>0, <1>2 DEF Submit
    <2>3. x \in Row /\ x.id = lastId + 1
        BY <2>1, <2>2 DEF Row
    <2>4. row' = [row EXCEPT ![u] = x]
        BY <1>2, <2>1 DEF Submit
    <2>5. row' \in [Users -> Row] /\ row'[u] = x /\ \A v \in Users \ {u} : row'[v] = row[v]
        BY <1>0, <2>3, <2>4
    <2>6. \A v, w \in Users : row[v].id <= lastId /\ (row[v].id # 0 /\ row[v].id = row[w].id => v = w)
        BY DEF IdsOK
    <2>7. \A v \in Users : row'[v].id = IF v = u THEN lastId + 1 ELSE row[v].id
        BY <2>3, <2>5
    <2>8. IdsOK'
        BY <1>0, <2>2, <2>6, <2>7 DEF IdsOK
    <2> QED BY <1>0, <2>2, <2>3, <2>5, <2>8
<1>3. ASSUME NEW h \in Handlers, Decide(h) PROVE Goal
    <2>1. CASE ~Pending(handler[h].id)
        BY <1>1, <1>3, <2>1 DEF Decide
    <2>2. CASE Pending(handler[h].id)
        <3>1. PICK v \in Users : row[v].id = handler[h].id /\ row[v].status = "pending"
            BY <2>2 DEF Pending, Owners
        <3>2. CAS(handler[h].id, Decided(handler[h].decision)) /\ lastId' = lastId
            BY <1>3, <2>2 DEF Decide
        <3>3. /\ row' \in [Users -> Row]
              /\ \A u \in Users : row'[u].id = row[u].id
              /\ \A u \in Users : row[u].id # handler[h].id => row'[u] = row[u]
            BY <3>2, CasRows, DecidedFinal
        <3>4. IdsOK'
            BY <3>2, <3>3 DEF IdsOK
        <3> HIDE DEF Goal
        <3>5. handler[h].id # 0
            BY <1>3 DEF HandlersOK, HandlerOK, Decide
        <3>6. \A u \in Users : row[u].id = handler[h].id => u = v
            BY <3>1, <3>5 DEF IdsOK
        <3> QED BY <1>0, <3>1, <3>2, <3>3, <3>4, <3>6 DEF Goal
    <2> QED BY <2>1, <2>2
<1>4. Goal
    <2>1. CASE Around
        BY <1>1, <1>2, <2>1 DEF Around, Click, OperatorChanges, DocChanges, vars
    <2>2. ASSUME NEW h \in Handlers, Acts(h) PROVE Goal
        BY <1>1, <1>3, <2>2 DEF Acts, Advance, RestStart, Deliver, Claim, Lookup, CheckAdmin,
              GrantRequester, GrantBot, GrantsDone, Report, Finalize, Fault
    <2> QED BY <2>1, <2>2, Steps
<1> QED BY <1>4

\* Once a request is decided, its row stays as it was decided, until it is replaced.
LEMMA DecidedStays ==
    ASSUME TypeOK, IdsOK, HandlersOK, [Next]_vars
    PROVE  \A id \in 0..MaxId, st \in Final :
              id <= lastId /\ (\A u \in Users : row[u].id = id => row[u].status = st)
              => \A u \in Users : row'[u].id = id => row'[u].status = st
<1>1. lastId \in 0..MaxId /\ MaxId \in Nat
    BY AccessAssumption DEF TypeOK
<1>2. "pending" \notin Final
    BY DEF Final
<1>3. SUFFICES ASSUME NEW id \in 0..MaxId, NEW st \in Final, id <= lastId,
                      \A u \in Users : row[u].id = id => row[u].status = st,
                      NEW u \in Users, row'[u].id = id
               PROVE  row'[u].status = st
    OBVIOUS
<1>4. id # lastId + 1
    BY <1>1, <1>3
<1>5. CASE row'[u] = row[u]
    BY <1>3, <1>5
<1>6. row'[u].id # lastId + 1
    BY <1>3, <1>4
<1>7. ~(row[u].status = "pending" /\ row'[u].id = row[u].id)
    BY <1>2, <1>3
<1> QED BY <1>5, <1>6, <1>7, RowStep

----------------------------------------------------------------------------
(* Clicks, receipts and what has been granted, step by step.               *)

LEMMA EventFields ==
    ASSUME NEW x \in Event
    PROVE  /\ x.id \in 0..MaxId /\ x.decision \in {"approve", "deny"}
           /\ x.answer \in Results \cup {NoVal}
BY DEF Event

LEMMA EventAnswered ==
    ASSUME NEW x \in Event, NEW r \in Results, NEW y, y = [x EXCEPT !.answer = r]
    PROVE  y \in Event /\ y.answer = r /\ y.id = x.id
BY DEF Event

\* A click answered with r has its first answer.
LEMMA AnswerStep ==
    ASSUME TypeOK, NEW e \in Events, NEW r \in Results, Answer(e, r)
    PROVE  /\ event' \in [Events -> Event]
           /\ \A f \in Events : /\ event'[f].id = event[f].id
                                /\ \/ event'[f].answer = event[f].answer
                                   \/ f = e /\ event'[f].answer = r
<1>1. event \in [Events -> Event] /\ event[e] \in Event
    BY DEF TypeOK
<1>2. CASE event[e].answer = NoVal
    <2>1. PICK y : y = [event[e] EXCEPT !.answer = r]
        OBVIOUS
    <2>2. y \in Event /\ y.answer = r /\ y.id = event[e].id
        BY <1>1, <2>1, EventAnswered
    <2>3. event' = [event EXCEPT ![e] = y]
        BY <1>1, <1>2, <2>1 DEF Answer
    <2> QED BY <1>1, <2>2, <2>3
<1>3. CASE event[e].answer # NoVal
    <2>1. [event[e] EXCEPT !.answer = event[e].answer] = event[e]
        BY <1>1 DEF Event
    <2>2. event' = [event EXCEPT ![e] = [event[e] EXCEPT !.answer = event[e].answer]]
        BY <1>1, <1>3 DEF Answer
    <2>3. event' = event
        BY <1>1, <2>1, <2>2
    <2> QED BY <1>1, <2>3
<1> QED BY <1>2, <1>3

Receipts == {"none", "claimed"} \cup Results

\* What a step may do to the clicks and their receipts: a click happens once, and a
\* receipt that holds a response keeps it.
ClicksKept ==
    /\ event' \in [Events -> Event] /\ receipt' \in [Events -> Receipts]
    /\ \A e \in Events :
          /\ event[e].id # 0 => event'[e].id = event[e].id
          /\ receipt[e] # "none" => receipt'[e] # "none"
          /\ receipt[e] \in Results => receipt'[e] = receipt[e]

LEMMA Responses == "none" \notin Results /\ "claimed" \notin Results /\ Final \subseteq Results
BY DEF Results, Final

LEMMA ClickStep ==
    ASSUME TypeOK, HandlersOK, [Next]_vars
    PROVE  ClicksKept
<1>0. /\ event \in [Events -> Event] /\ receipt \in [Events -> Receipts]
      /\ handler \in [Handlers -> Handler]
      /\ \A h \in Handlers : handler[h].result \in Results
    BY DEF TypeOK, Receipts, Handler
<1>1. ASSUME UNCHANGED <<event, receipt>> PROVE ClicksKept
    BY <1>0, <1>1 DEF ClicksKept
<1>2. ASSUME NEW e \in Events, NEW id \in Ids, NEW d \in {"approve", "deny"}, Click(e, id, d)
      PROVE  ClicksKept
    <2>1. PICK x : x = [id |-> id, decision |-> d, answer |-> NoVal]
        OBVIOUS
    <2>2. id \in 0..MaxId
        BY AccessAssumption DEF Ids
    <2>3. x \in Event
        BY <2>1, <2>2 DEF Event
    <2>4. event' = [event EXCEPT ![e] = x] /\ event[e].id = 0 /\ receipt' = receipt
        BY <1>2, <2>1 DEF Click
    <2> QED BY <1>0, <2>3, <2>4 DEF ClicksKept
<1>3. ASSUME NEW h \in Handlers, Claim(h) PROVE ClicksKept
    <2>1. handler[h].ev \in Events
        BY <1>0, <1>3 DEF HandlersOK, HandlerOK, Claim, Handler
    <2>2. CASE receipt[handler[h].ev] \in Results
        BY <1>0, <1>3, <2>1, <2>2, AnswerStep DEF Claim, ClicksKept
    <2>3. CASE receipt[handler[h].ev] \notin Results
        <3>1. receipt' = [receipt EXCEPT ![handler[h].ev] = "claimed"] /\ event' = event
            BY <1>3, <2>3 DEF Claim
        <3>2. "claimed" \in Receipts
            BY DEF Receipts
        <3> QED BY <1>0, <2>1, <2>3, <3>1, <3>2 DEF ClicksKept
    <2> QED BY <2>2, <2>3
<1>4. ASSUME NEW h \in Handlers, Finalize(h) PROVE ClicksKept
    <2>1. handler[h].ev \in Events /\ receipt[handler[h].ev] # "none"
        BY <1>0, <1>4 DEF HandlersOK, HandlerOK, Finalize, Handler
    <2>2. PICK final : final = IF receipt[handler[h].ev] = "claimed" THEN handler[h].result
                               ELSE receipt[handler[h].ev]
        OBVIOUS
    <2>3. final \in Results /\ final \in Receipts
        BY <1>0, <2>1, <2>2 DEF Receipts
    <2>4. receipt' = [receipt EXCEPT ![handler[h].ev] = final] /\ Answer(handler[h].ev, final)
        BY <1>4, <2>2 DEF Finalize
    <2>5. receipt[handler[h].ev] \in Results => final = receipt[handler[h].ev]
        BY <2>2, Responses
    <2>6. final # "none"
        BY <2>3, Responses
    <2>7. event' \in [Events -> Event] /\ \A f \in Events : event'[f].id = event[f].id
        BY <2>1, <2>3, <2>4, AnswerStep
    <2> QED BY <1>0, <2>1, <2>3, <2>4, <2>5, <2>6, <2>7 DEF ClicksKept
<1>5. CASE Around
    BY <1>1, <1>2, <1>5 DEF Around, Submit, OperatorChanges, DocChanges, vars
<1>6. ASSUME NEW h \in Handlers, Acts(h) PROVE ClicksKept
    BY <1>1, <1>3, <1>4, <1>6 DEF Acts, Advance, RestStart, Deliver, Lookup, CheckAdmin, Decide,
          GrantRequester, GrantBot, GrantsDone, Report, Fault
<1> QED BY <1>5, <1>6, Steps

\* A grant goes upwards, and to nothing but the role granted.
LEMMA GrantStep ==
    ASSUME TypeOK, NEW m, NEW r \in Roles, Grant(m, r)
    PROVE  /\ member' \in [Members -> {None} \cup Roles]
           /\ \A n \in Members : member'[n] = member[n] \/ member'[n] = r
<1>1. member \in [Members -> {None} \cup Roles]
    BY DEF TypeOK
<1> QED BY <1>1 DEF Grant

\* An approval or a grant recorded, and what the members get by it.
MembersKept ==
    /\ member' \in [Members -> {None} \cup Roles]
    /\ approvals \subseteq approvals' /\ approvals' \subseteq Ids \X Roles
    /\ grants' \subseteq approvals'
    /\ \A m \in Members : member'[m] = member[m] \/ \E a \in approvals : a[2] = member'[m]

HandlerFields(c) ==
    /\ c.pc \in Pcs /\ c.op \in {"rest", "card"} /\ c.decision \in {"approve", "deny"}
    /\ c.id \in 0..MaxId /\ c.role \in Roles /\ c.bots \in SUBSET Bots /\ c.result \in Results

LEMMA FieldTypes == \A c \in Handler : HandlerFields(c)
BY DEF HandlerFields, Handler, Pcs

LEMMA GrantsStep ==
    ASSUME IInv, [Next]_vars
    PROVE  MembersKept
<1>0. /\ member \in [Members -> {None} \cup Roles]
      /\ approvals \subseteq Ids \X Roles /\ grants \subseteq approvals
      /\ \A h \in Handlers : HandlerFields(handler[h]) /\ HandlerOK(h)
    BY FieldTypes DEF IInv, TypeOK, GrantsOK, HandlersOK
<1>1. ASSUME UNCHANGED <<member, approvals, grants>> PROVE MembersKept
    BY <1>0, <1>1 DEF MembersKept
<1>2. ASSUME NEW h \in Handlers, Decide(h) PROVE MembersKept
    <2>1. handler[h].id # 0 /\ handler[h].id \in 0..MaxId /\ handler[h].role \in Roles
        BY <1>0, <1>2 DEF Decide, HandlerOK, HandlerFields
    <2>2. handler[h].id \in Ids
        BY <2>1, AccessAssumption DEF Ids
    <2>3. <<handler[h].id, handler[h].role>> \in Ids \X Roles
        BY <2>1, <2>2
    <2>4. /\ member' = member /\ grants' = grants
          /\ approvals' = approvals \/ approvals' = approvals \cup {<<handler[h].id, handler[h].role>>}
        BY <1>2 DEF Decide
    <2> QED BY <1>0, <2>3, <2>4 DEF MembersKept
<1>3. ASSUME NEW h \in Handlers, GrantRequester(h) PROVE MembersKept
    <2>1. <<handler[h].id, handler[h].role>> \in approvals /\ handler[h].role \in Roles
        BY <1>0, <1>3 DEF GrantRequester, HandlerOK, HandlerFields
    <2>2. /\ Grant(handler[h].user, handler[h].role) /\ approvals' = approvals
          /\ grants' = grants \cup {<<handler[h].id, handler[h].role>>}
        BY <1>3 DEF GrantRequester
    <2>3. <<handler[h].id, handler[h].role>>[2] = handler[h].role
        OBVIOUS
    <2>4. /\ member' \in [Members -> {None} \cup Roles]
          /\ \A n \in Members : member'[n] = member[n] \/ member'[n] = handler[h].role
        BY <2>1, <2>2, GrantStep DEF IInv
    <2> QED BY <1>0, <2>1, <2>2, <2>3, <2>4 DEF MembersKept
<1>4. ASSUME NEW h \in Handlers, NEW b \in Bots, GrantBot(h, b) PROVE MembersKept
    <2>1. <<handler[h].id, handler[h].role>> \in approvals /\ handler[h].role \in Roles
        BY <1>0, <1>4 DEF GrantBot, HandlerOK, HandlerFields
    <2>2. /\ Grant(b, handler[h].role) \/ UNCHANGED member
          /\ approvals' = approvals /\ grants' = grants
        BY <1>4 DEF GrantBot, history
    <2>3. <<handler[h].id, handler[h].role>>[2] = handler[h].role
        OBVIOUS
    <2>4. /\ member' \in [Members -> {None} \cup Roles]
          /\ \A n \in Members : member'[n] = member[n] \/ member'[n] = handler[h].role
        BY <1>0, <2>1, <2>2, GrantStep DEF IInv
    <2> QED BY <1>0, <2>1, <2>2, <2>3, <2>4 DEF MembersKept
<1>5. CASE Around
    BY <1>1, <1>5 DEF Around, Submit, Click, OperatorChanges, DocChanges, vars, history
<1>6. ASSUME NEW h \in Handlers, Acts(h) PROVE MembersKept
    BY <1>1, <1>2, <1>3, <1>4, <1>6 DEF Acts, Advance, RestStart, Deliver, Claim, Lookup, CheckAdmin,
          GrantsDone, Report, Finalize, Fault, history
<1> QED BY <1>5, <1>6, Steps

LEMMA RestStep ==
    ASSUME TypeOK, [Next]_vars
    PROVE  /\ opAdmin' \in BOOLEAN /\ doc' \in {"live", "archived", "deleted"}
           /\ faults' \in 0..MaxFaults /\ handler' \in [Handlers -> Handler]
<1>0. /\ opAdmin \in BOOLEAN /\ doc \in {"live", "archived", "deleted"} /\ faults \in 0..MaxFaults
      /\ MaxFaults \in Nat /\ handler \in [Handlers -> Handler]
    BY AccessAssumption DEF TypeOK
<1>1. CASE Around
    <2>1. handler' = handler /\ faults' = faults
        BY <1>1 DEF Around, Submit, Click, OperatorChanges, DocChanges, vars
    <2>2. UNCHANGED <<opAdmin, doc>> \/ OperatorChanges \/ \E st \in {"live", "archived", "deleted"} : DocChanges(st)
        BY <1>1 DEF Around, Submit, Click, vars
    <2> QED BY <1>0, <2>1, <2>2 DEF OperatorChanges, DocChanges
<1>2. ASSUME NEW h \in Handlers, Acts(h)
      PROVE  /\ opAdmin' \in BOOLEAN /\ doc' \in {"live", "archived", "deleted"}
             /\ faults' \in 0..MaxFaults /\ handler' \in [Handlers -> Handler]
    <2>1. opAdmin' = opAdmin /\ doc' = doc
        BY <1>2 DEF Acts, Advance, RestStart, Deliver, Claim, Lookup, CheckAdmin, Decide, GrantRequester,
              GrantBot, GrantsDone, Report, Finalize, Fault
    <2>2. faults' = faults \/ (faults < MaxFaults /\ faults' = faults + 1)
        BY <1>2 DEF Acts, Advance, RestStart, Deliver, Claim, Lookup, CheckAdmin, Decide, GrantRequester,
              GrantBot, GrantsDone, Report, Finalize, Fault
    <2> QED BY <1>0, <1>2, <2>1, <2>2, HandlerStep
<1> QED BY <1>1, <1>2, Steps

LEMMA TypeStep ==
    ASSUME IInv, [Next]_vars
    PROVE  TypeOK'
<1>1. TypeOK /\ IdsOK /\ HandlersOK
    BY DEF IInv
<1>2. MembersKept /\ ClicksKept
    BY <1>1, GrantsStep, ClickStep
<1>3. approvals' \subseteq Ids \X Roles /\ grants' \subseteq Ids \X Roles
    BY <1>2 DEF MembersKept
<1> QED BY <1>1, <1>2, <1>3, RowStep, RestStep DEF TypeOK, MembersKept, ClicksKept, Receipts

----------------------------------------------------------------------------
(* The invariant, part by part.                                            *)

LEMMA GrantsKept ==
    ASSUME IInv, [Next]_vars
    PROVE  GrantsOK'
<1>1. MembersKept
    BY GrantsStep
<1>2. \A x \in {None} \cup Roles : x \in Nat
    BY Ranks DEF None
<1>3. ASSUME NEW m \in Members, member'[m] # None
      PROVE  \E a \in approvals' : a[2] >= member'[m]
    <2>1. member'[m] \in Nat
        BY <1>1, <1>2 DEF MembersKept
    <2>2. CASE member'[m] = member[m]
        <3>1. PICK a \in approvals : a[2] >= member[m]
            BY <1>3, <2>2 DEF IInv, GrantsOK
        <3> QED BY <1>1, <2>2, <3>1 DEF MembersKept
    <2>3. ASSUME NEW a \in approvals, a[2] = member'[m] PROVE \E b \in approvals' : b[2] >= member'[m]
        <3>1. a \in approvals' /\ a[2] >= member'[m]
            BY <1>1, <2>1, <2>3 DEF MembersKept
        <3> QED BY <3>1
    <2>4. member'[m] = member[m] \/ \E a \in approvals' : a[2] = member'[m]
        BY <1>1 DEF MembersKept
    <2> QED BY <1>1, <2>1, <2>2, <2>4
<1> QED BY <1>1, <1>3 DEF GrantsOK, MembersKept

\* The CAS decides the request, and nobody decided it before.
LEMMA Won ==
    ASSUME IInv, NEW h \in Handlers, Decide(h), Pending(handler[h].id)
    PROVE  /\ \A u \in Users : row'[u].id = handler[h].id => row'[u].status = Decided(handler[h].decision)
           /\ \A st \in Final : ~DecidedAs(handler[h].id, st)
<1>1. PICK v \in Users : row[v].id = handler[h].id /\ row[v].status = "pending"
    BY DEF Pending, Owners
<1>2. CAS(handler[h].id, Decided(handler[h].decision))
    BY DEF Decide
<1>3. \A u \in Users : row'[u].id = handler[h].id => row'[u].status = Decided(handler[h].decision)
    BY <1>2, CasRows, DecidedFinal DEF IInv
<1> QED BY <1>1, <1>3 DEF DecidedAs, Final

LEMMA ApprovalsKept ==
    ASSUME IInv, [Next]_vars
    PROVE  ApprovalsOK'
<1>1. TypeOK /\ IdsOK /\ HandlersOK /\ ApprovalsOK
    BY DEF IInv
<1>2. lastId \in Nat /\ lastId' \in Nat /\ lastId <= lastId' /\ MaxId \in Nat
    BY <1>1, RowStep, AccessAssumption DEF TypeOK
<1>3. "approved" \in Final
    BY DEF Final
<1>4. \A a \in approvals : a[1] \in Nat /\ a[1] \in 0..MaxId /\ a[1] # 0 /\ a[1] <= lastId
    BY <1>1, <1>2 DEF TypeOK, ApprovalsOK, Ids
<1>5. \A a \in approvals : a[1] <= lastId' /\ \A u \in Users : row'[u].id = a[1] => row'[u].status = "approved"
    <2> TAKE a \in approvals
    <2>1. \A u \in Users : row[u].id = a[1] => row[u].status = "approved"
        BY <1>1 DEF ApprovalsOK, DecidedAs
    <2>2. \A u \in Users : row'[u].id = a[1] => row'[u].status = "approved"
        BY <1>1, <1>3, <1>4, <2>1, DecidedStays
    <2> QED BY <1>2, <1>4, <2>2
<1>6. CASE approvals' = approvals
    BY <1>1, <1>5, <1>6 DEF ApprovalsOK, DecidedAs
<1>7. ASSUME NEW h \in Handlers, Decide(h), Pending(handler[h].id), handler[h].decision = "approve"
      PROVE  ApprovalsOK'
    <2>1. PICK n : n = <<handler[h].id, handler[h].role>>
        OBVIOUS
    <2>2. approvals' = approvals \cup {n} /\ n[1] = handler[h].id /\ lastId' = lastId
        BY <1>7, <2>1 DEF Decide
    <2>3. \A u \in Users : row'[u].id = n[1] => row'[u].status = "approved"
        BY <1>7, <2>2, Won DEF Decided
    <2>4. ~DecidedAs(n[1], "approved")
        BY <1>3, <1>7, <2>2, Won
    <2>5. \A a \in approvals : a[1] # n[1]
        BY <1>1, <2>4 DEF ApprovalsOK
    <2>6. n[1] <= lastId'
        BY <1>1, <1>7, <2>2 DEF HandlersOK, HandlerOK, Decide
    <2>7. \A a, b \in approvals' : a[1] = b[1] => a = b
        BY <1>1, <2>2, <2>5 DEF ApprovalsOK
    <2> QED BY <1>5, <2>2, <2>3, <2>6, <2>7 DEF ApprovalsOK, DecidedAs
<1>8. ASSUME NEW h \in Handlers, Decide(h) PROVE ApprovalsOK'
    <2>1. approvals' = approvals \/ (Pending(handler[h].id) /\ handler[h].decision = "approve")
        BY <1>8 DEF Decide
    <2> QED BY <1>6, <1>7, <1>8, <2>1
<1>9. CASE Around
    BY <1>6, <1>9 DEF Around, Submit, Click, OperatorChanges, DocChanges, vars, history
<1>10. ASSUME NEW h \in Handlers, Acts(h) PROVE ApprovalsOK'
    BY <1>6, <1>8, <1>10 DEF Acts, Advance, RestStart, Deliver, Claim, Lookup, CheckAdmin,
          GrantRequester, GrantBot, GrantsDone, Report, Finalize, Fault, history
<1> QED BY <1>9, <1>10, Steps

LEMMA EventKept ==
    ASSUME IInv, [Next]_vars, NEW e \in Events,
           event'[e].id = event[e].id, receipt'[e] = receipt[e],
           event'[e].answer \in {event[e].answer, receipt[e]}
    PROVE  EventOK(e)'
<1>1. TypeOK /\ IdsOK /\ HandlersOK /\ EventOK(e)
    BY DEF IInv, EventsOK
<1>2. lastId \in Nat /\ lastId' \in Nat /\ lastId <= lastId' /\ event[e].id \in 0..MaxId /\ MaxId \in Nat
    BY <1>1, RowStep, EventFields, AccessAssumption DEF TypeOK
<1>3. event'[e].id <= lastId'
    BY <1>1, <1>2 DEF EventOK
<1>4. receipt[e] \in Final => \A u \in Users : row'[u].id = event[e].id => row'[u].status = receipt[e]
    BY <1>1, <1>2, DecidedStays DEF EventOK, DecidedAs
<1>5. event'[e].answer # NoVal => receipt'[e] = event'[e].answer
    BY <1>1 DEF EventOK
<1> QED BY <1>1, <1>3, <1>4, <1>5 DEF EventOK, DecidedAs

LEMMA EventsKept ==
    ASSUME IInv, [Next]_vars
    PROVE  EventsOK'
<1>0. /\ TypeOK /\ HandlersOK /\ EventsOK
      /\ event \in [Events -> Event] /\ receipt \in [Events -> Receipts]
      /\ \A h \in Handlers : handler[h] \in Handler
      /\ \A h \in Handlers : HandlerFields(handler[h]) /\ HandlerOK(h)
    BY FieldTypes DEF IInv, TypeOK, HandlersOK, Receipts
<1>1. ASSUME UNCHANGED <<event, receipt>> PROVE EventsOK'
    BY <1>1, EventKept DEF EventsOK
<1>2. ASSUME NEW e \in Events, NEW id \in Ids, NEW d \in {"approve", "deny"}, Click(e, id, d)
      PROVE  EventsOK'
    <2>1. PICK x : x = [id |-> id, decision |-> d, answer |-> NoVal]
        OBVIOUS
    <2>2. /\ event' = [event EXCEPT ![e] = x] /\ event[e].id = 0 /\ receipt' = receipt
          /\ id <= lastId /\ lastId' = lastId
        BY <1>2, <2>1 DEF Click
    <2>3. /\ event'[e].id = id /\ event'[e].answer = NoVal
          /\ \A f \in Events \ {e} : event'[f] = event[f]
        BY <1>0, <2>1, <2>2
    <2>4. receipt'[e] = "none"
        BY <1>0, <2>2 DEF EventsOK, EventOK
    <2>5. EventOK(e)'
        BY <2>2, <2>3, <2>4 DEF EventOK, Final
    <2>6. \A f \in Events \ {e} : EventOK(f)'
        BY <2>2, <2>3, EventKept
    <2> QED BY <2>5, <2>6 DEF EventsOK
<1>3. ASSUME NEW h \in Handlers, Claim(h) PROVE EventsOK'
    <2>1. PICK e \in Events : e = handler[h].ev
        BY <1>0, <1>3 DEF HandlerOK, HandlerFields, Claim
    <2>2. event[e].id # 0 /\ EventOK(e)
        BY <1>0, <1>3, <2>1 DEF HandlerOK, HandlerFields, Claim, EventsOK
    <2>3. CASE receipt[e] \in Results
        <3>1. Answer(e, receipt[e]) /\ receipt' = receipt
            BY <1>3, <2>1, <2>3 DEF Claim
        <3>2. \A f \in Events : /\ event'[f].id = event[f].id
                                /\ event'[f].answer \in {event[f].answer, receipt[f]}
            BY <1>0, <2>3, <3>1, AnswerStep
        <3> QED BY <3>1, <3>2, EventKept DEF EventsOK
    <2>4. CASE receipt[e] \notin Results
        <3>1. receipt' = [receipt EXCEPT ![e] = "claimed"] /\ event' = event /\ lastId' = lastId
            BY <1>3, <2>1, <2>4 DEF Claim
        <3>2. receipt'[e] = "claimed" /\ \A f \in Events \ {e} : receipt'[f] = receipt[f]
            BY <1>0, <3>1
        <3>3. event[e].answer = NoVal
            BY <1>0, <2>2, <2>4, EventFields DEF EventOK
        <3>4. EventOK(e)'
            BY <2>2, <3>1, <3>2, <3>3 DEF EventOK, Final
        <3>5. \A f \in Events \ {e} : EventOK(f)'
            BY <3>1, <3>2, EventKept
        <3> QED BY <3>4, <3>5 DEF EventsOK
    <2> QED BY <2>3, <2>4
<1>4. ASSUME NEW h \in Handlers, Finalize(h) PROVE EventsOK'
    <2>1. PICK e \in Events : e = handler[h].ev
        BY <1>0, <1>4 DEF HandlerOK, HandlerFields, Finalize
    <2>2. /\ event[e].id # 0 /\ event[e].id = handler[h].id /\ receipt[e] # "none" /\ EventOK(e)
          /\ handler[h].result \in Final => DecidedAs(event[e].id, handler[h].result)
        BY <1>0, <1>4, <2>1 DEF HandlerOK, HandlerFields, Finalize, EventsOK
    <2>3. PICK final : final = IF receipt[e] = "claimed" THEN handler[h].result ELSE receipt[e]
        OBVIOUS
    <2>4. /\ receipt' = [receipt EXCEPT ![e] = final] /\ Answer(e, final)
          /\ row' = row /\ lastId' = lastId
        BY <1>4, <2>1, <2>3 DEF Finalize
    <2>5. final \in Results
        BY <1>0, <2>2, <2>3 DEF Receipts, HandlerFields
    <2>6. receipt'[e] = final /\ \A f \in Events \ {e} : receipt'[f] = receipt[f]
        BY <1>0, <2>4
    <2>7. \A f \in Events : /\ event'[f].id = event[f].id
                            /\ \/ event'[f].answer = event[f].answer
                               \/ f = e /\ event'[f].answer = final
        BY <1>0, <2>4, <2>5, AnswerStep
    <2>8. event[e].answer # NoVal => event[e].answer = final
        BY <1>0, <2>2, <2>3, EventFields, Responses DEF EventOK
    <2>9. final \in Final => DecidedAs(event[e].id, final)
        BY <2>2, <2>3 DEF EventOK
    <2>10. EventOK(e)'
        <3>1. event'[e].id = event[e].id /\ event'[e].id <= lastId' /\ event'[e].id # 0
            BY <2>2, <2>4, <2>7 DEF EventOK
        <3>2. event'[e].answer # NoVal => receipt'[e] = event'[e].answer
            BY <2>6, <2>7, <2>8
        <3>3. receipt'[e] \in Final => \A u \in Users : row'[u].id = event'[e].id => row'[u].status = receipt'[e]
            BY <2>4, <2>6, <2>9, <3>1 DEF DecidedAs
        <3> QED BY <3>1, <3>2, <3>3 DEF EventOK, DecidedAs
    <2>11. \A f \in Events \ {e} : EventOK(f)'
        BY <2>6, <2>7, EventKept
    <2> QED BY <2>10, <2>11 DEF EventsOK
<1>5. CASE Around
    BY <1>1, <1>2, <1>5 DEF Around, Submit, OperatorChanges, DocChanges, vars
<1>6. ASSUME NEW h \in Handlers, Acts(h) PROVE EventsOK'
    BY <1>1, <1>3, <1>4, <1>6 DEF Acts, Advance, RestStart, Deliver, Lookup, CheckAdmin, Decide,
          GrantRequester, GrantBot, GrantsDone, Report, Fault
<1> QED BY <1>5, <1>6, Steps

\* A handler that goes on with the same request keeps what it has made sure of; what is
\* left to show is what its next statement relies on.
LEMMA HandlerGoesOn ==
    ASSUME IInv, [Next]_vars, NEW h \in Handlers, handler[h].pc # "idle",
           handler'[h].id = handler[h].id, handler'[h].op = handler[h].op,
           handler'[h].ev = handler[h].ev,
           handler[h].op = "rest" => handler'[h].pc \in {"decide", "grant", "bots"},
           handler[h].op = "card" => handler[h].pc # "claim" \/ receipt'[handler[h].ev] # "none"
                                     \/ handler'[h].pc = "claim",
           handler'[h].pc \in {"grant", "bots"} => <<handler[h].id, handler'[h].role>> \in approvals',
           handler'[h].pc = "finalize" /\ handler'[h].result \in Final =>
               \A u \in Users : row'[u].id = handler[h].id => row'[u].status = handler'[h].result
    PROVE  HandlerOK(h)'
<1>1. TypeOK /\ IdsOK /\ HandlersOK /\ HandlerOK(h) /\ HandlerFields(handler[h])
    BY FieldTypes DEF IInv, HandlersOK, TypeOK
<1>2. ClicksKept
    BY <1>1, ClickStep
<1>3. lastId \in Nat /\ lastId' \in Nat /\ lastId <= lastId' /\ handler[h].id \in Nat /\ MaxId \in Nat
    BY <1>1, RowStep, AccessAssumption DEF TypeOK, HandlerFields
<1>4. handler[h].id # 0 /\ handler[h].id <= lastId'
    BY <1>1, <1>3 DEF HandlerOK
<1>5. ASSUME handler[h].op = "card"
      PROVE  /\ handler[h].ev \in Events /\ event'[handler[h].ev].id = handler[h].id
             /\ handler'[h].pc # "claim" => receipt'[handler[h].ev] # "none"
    BY <1>1, <1>2, <1>5 DEF HandlerOK, ClicksKept
<1> QED BY <1>4, <1>5 DEF HandlerOK, DecidedAs

LEMMA HandlerKept ==
    ASSUME IInv, [Next]_vars, NEW h \in Handlers, handler'[h] = handler[h]
    PROVE  HandlerOK(h)'
<1>1. /\ TypeOK /\ IdsOK /\ HandlersOK /\ HandlerOK(h) /\ HandlerFields(handler[h])
      /\ MembersKept
    BY FieldTypes, GrantsStep DEF IInv, HandlersOK, TypeOK
<1>2. CASE handler[h].pc = "idle"
    BY <1>2 DEF HandlerOK
<1>3. CASE handler[h].pc # "idle"
    <2>1. handler[h].pc \in {"grant", "bots"} => <<handler[h].id, handler[h].role>> \in approvals'
        BY <1>1, <1>3 DEF HandlerOK, MembersKept
    <2>2. handler[h].pc = "finalize" /\ handler[h].result \in Final =>
             \A u \in Users : row'[u].id = handler[h].id => row'[u].status = handler[h].result
        BY <1>1, <1>3, DecidedStays DEF HandlerOK, HandlerFields, DecidedAs
    <2>3. handler[h].op = "rest" => handler[h].pc \in {"decide", "grant", "bots"}
        BY <1>1, <1>3 DEF HandlerOK
    <2> QED BY <1>3, <2>1, <2>2, <2>3, HandlerGoesOn
<1> QED BY <1>2, <1>3

LEMMA Started ==
    ASSUME IInv, [Next]_vars, NEW h \in Handlers
    PROVE  /\ \A u \in Users, d \in {"approve", "deny"}, r \in Roles : RestStart(h, u, d, r) => HandlerOK(h)'
           /\ \A e \in Events : Deliver(h, e) => HandlerOK(h)'
<1>0. Idle \in Handler /\ h \in DOMAIN handler
    BY IdleType DEF IInv, TypeOK
<1>1. ASSUME NEW u \in Users, NEW d \in {"approve", "deny"}, NEW r \in Roles, RestStart(h, u, d, r)
      PROVE  HandlerOK(h)'
    <2>1. /\ handler'[h].pc = "decide" /\ handler'[h].op = "rest" /\ handler'[h].id = row[u].id
          /\ row[u].id # 0 /\ lastId' = lastId
        BY <1>0, <1>1 DEF RestStart, Idle
    <2>2. row[u].id <= lastId
        BY DEF IInv, IdsOK
    <2> QED BY <2>1, <2>2 DEF HandlerOK
<1>2. ASSUME NEW e \in Events, Deliver(h, e) PROVE HandlerOK(h)'
    <2>1. /\ handler'[h].pc = "claim" /\ handler'[h].op = "card" /\ handler'[h].ev = e
          /\ handler'[h].id = event[e].id /\ event[e].id # 0 /\ lastId' = lastId /\ event' = event
        BY <1>0, <1>2 DEF Deliver, Idle
    <2>2. event[e].id <= lastId
        BY DEF IInv, EventsOK, EventOK
    <2> QED BY <2>1, <2>2 DEF HandlerOK
<1> QED BY <1>1, <1>2

LEMMA LookedUp ==
    ASSUME IInv, [Next]_vars, NEW h \in Handlers, Lookup(h)
    PROVE  HandlerOK(h)'
<1>0. /\ handler[h] \in Handler /\ handler \in [Handlers -> Handler]
      /\ HandlerOK(h) /\ HandlerFields(handler[h]) /\ TypeOK
    BY FieldTypes DEF IInv, TypeOK, HandlersOK
<1>1. handler[h].pc = "lookup" /\ handler[h].op = "card"
    BY <1>0 DEF Lookup, HandlerOK, HandlerFields
<1>2. ASSUME NEW r \in {"not_found", "conflict"}, ResultIs(h, r) PROVE HandlerOK(h)'
    <2>1. r \in Results /\ r \notin Final
        BY DEF Results, Final
    <2>2. /\ handler'[h].pc = "finalize" /\ handler'[h].result = r /\ handler'[h].id = handler[h].id
          /\ handler'[h].op = handler[h].op /\ handler'[h].ev = handler[h].ev
        BY <1>0, <1>2, <2>1, Resulted
    <2> QED BY <1>1, <2>1, <2>2, HandlerGoesOn
<1>3. ASSUME NEW u \in Owners(handler[h].id),
             handler' = [handler EXCEPT ![h].pc = "admin", ![h].user = u,
                                        ![h].role = row[u].role, ![h].bots = row[u].bots]
      PROVE  HandlerOK(h)'
    <2>1. /\ handler'[h].pc = "admin" /\ handler'[h].id = handler[h].id
          /\ handler'[h].op = handler[h].op /\ handler'[h].ev = handler[h].ev
        BY <1>0, <1>3 DEF Handler
    <2> QED BY <1>1, <2>1, HandlerGoesOn
<1> QED BY <1>2, <1>3 DEF Lookup

\* Where a handler that lost the CAS or denied goes, and one that won an approval.
LEMMA DecidedNext ==
    ASSUME IInv, [Next]_vars, NEW h \in Handlers, Decide(h)
    PROVE  HandlerOK(h)'
<1>0. /\ handler[h] \in Handler /\ handler \in [Handlers -> Handler]
      /\ HandlerOK(h) /\ HandlerFields(handler[h]) /\ TypeOK /\ handler[h].pc = "decide"
    BY FieldTypes DEF IInv, TypeOK, HandlersOK, Decide
<1>1. ASSUME Pending(handler[h].id), handler[h].decision = "approve" PROVE HandlerOK(h)'
    <2>1. Goto(h, "grant") /\ approvals' = approvals \cup {<<handler[h].id, handler[h].role>>}
        BY <1>1 DEF Decide
    <2>2. handler'[h] = [handler[h] EXCEPT !.pc = "grant"]
        BY <1>0, <2>1, Moved DEF Pcs
    <2>3. /\ handler'[h].pc = "grant" /\ handler'[h].id = handler[h].id
          /\ handler'[h].op = handler[h].op /\ handler'[h].ev = handler[h].ev
          /\ handler'[h].role = handler[h].role
        BY <1>0, <2>2, MovedFields
    <2> QED BY <1>0, <2>1, <2>3, HandlerGoesOn
<1>2. ASSUME End(h) PROVE HandlerOK(h)'
    BY <1>0, <1>2, Ended DEF HandlerOK
<1>3. ASSUME Pending(handler[h].id), handler[h].decision # "approve", handler[h].op # "rest"
      PROVE  HandlerOK(h)'
    <2>1. ResultIs(h, "denied") /\ "denied" \in Results /\ Decided(handler[h].decision) = "denied"
        BY <1>3 DEF Decide, Results, Decided
    <2>2. /\ handler'[h].pc = "finalize" /\ handler'[h].result = "denied" /\ handler'[h].id = handler[h].id
          /\ handler'[h].op = handler[h].op /\ handler'[h].ev = handler[h].ev
        BY <1>0, <2>1, Resulted
    <2>3. \A u \in Users : row'[u].id = handler[h].id => row'[u].status = "denied"
        BY <1>3, <2>1, Won
    <2> QED BY <1>0, <1>3, <2>2, <2>3, HandlerGoesOn
<1>4. ASSUME Goto(h, "report"), handler[h].op # "rest" PROVE HandlerOK(h)'
    <2>1. handler'[h] = [handler[h] EXCEPT !.pc = "report"]
        BY <1>0, <1>4, Moved DEF Pcs
    <2>2. /\ handler'[h].pc = "report" /\ handler'[h].id = handler[h].id
          /\ handler'[h].op = handler[h].op /\ handler'[h].ev = handler[h].ev
        BY <1>0, <2>1, MovedFields
    <2> QED BY <1>0, <1>4, <2>2, HandlerGoesOn
<1> QED BY <1>1, <1>2, <1>3, <1>4 DEF Decide

\* The request a lost CAS reports on is decided as the report says.
LEMMA Reported ==
    ASSUME IInv, [Next]_vars, NEW h \in Handlers, Report(h)
    PROVE  HandlerOK(h)'
<1>0. /\ handler[h] \in Handler /\ handler \in [Handlers -> Handler]
      /\ HandlerOK(h) /\ HandlerFields(handler[h]) /\ TypeOK /\ handler[h].pc = "report"
    BY FieldTypes DEF IInv, TypeOK, HandlersOK, Report
<1>1. handler[h].op = "card" /\ handler[h].id # 0
    BY <1>0 DEF HandlerOK, HandlerFields
<1>2. PICK r : r = IF (IF Owners(handler[h].id) = {} THEN "pending"
                       ELSE row[CHOOSE u \in Owners(handler[h].id) : TRUE].status)
                      = Decided(handler[h].decision)
                   THEN Decided(handler[h].decision) ELSE "conflict"
    OBVIOUS
<1>3. r \in Results /\ ResultIs(h, r) /\ row' = row
    BY <1>2 DEF Report, Decided, Results
<1>4. /\ handler'[h].pc = "finalize" /\ handler'[h].result = r /\ handler'[h].id = handler[h].id
      /\ handler'[h].op = handler[h].op /\ handler'[h].ev = handler[h].ev
    BY <1>0, <1>3, Resulted
<1>5. ASSUME r \in Final, NEW u \in Users, row[u].id = handler[h].id PROVE row[u].status = r
    <2>1. u \in Owners(handler[h].id)
        BY <1>5 DEF Owners
    <2>2. PICK v : v = CHOOSE w \in Owners(handler[h].id) : TRUE
        OBVIOUS
    <2>3. v \in Owners(handler[h].id)
        BY <2>1, <2>2
    <2>4. v = u
        BY <1>1, <1>5, <2>3 DEF Owners, IInv, IdsOK
    <2>5. row[v].status = Decided(handler[h].decision) /\ r = Decided(handler[h].decision)
        BY <1>2, <1>5, <2>1, <2>2 DEF Final
    <2> QED BY <2>4, <2>5
<1> QED BY <1>0, <1>1, <1>3, <1>4, <1>5, HandlerGoesOn

LEMMA GrantsDoneNext ==
    ASSUME IInv, [Next]_vars, NEW h \in Handlers, GrantsDone(h)
    PROVE  HandlerOK(h)'
<1>0. /\ handler[h] \in Handler /\ handler \in [Handlers -> Handler]
      /\ HandlerOK(h) /\ HandlerFields(handler[h]) /\ TypeOK /\ handler[h].pc = "bots"
    BY FieldTypes DEF IInv, TypeOK, HandlersOK, GrantsDone
<1>1. CASE handler[h].op = "rest"
    BY <1>0, <1>1, Ended DEF GrantsDone, HandlerOK
<1>2. CASE handler[h].op # "rest"
    <2>1. ResultIs(h, "approved") /\ "approved" \in Results /\ row' = row
        BY <1>2 DEF GrantsDone, Results
    <2>2. /\ handler'[h].pc = "finalize" /\ handler'[h].result = "approved"
          /\ handler'[h].id = handler[h].id
          /\ handler'[h].op = handler[h].op /\ handler'[h].ev = handler[h].ev
        BY <1>0, <2>1, Resulted
    <2>3. PICK a \in approvals : a[1] = handler[h].id
        BY <1>0 DEF HandlerOK
    <2>4. \A u \in Users : row'[u].id = handler[h].id => row'[u].status = "approved"
        BY <2>1, <2>3 DEF IInv, ApprovalsOK, DecidedAs
    <2> QED BY <1>0, <1>2, <2>2, <2>4, HandlerGoesOn
<1> QED BY <1>1, <1>2

LEMMA GrantNext ==
    ASSUME IInv, [Next]_vars, NEW h \in Handlers, GrantRequester(h) \/ \E b \in Bots : GrantBot(h, b)
    PROVE  HandlerOK(h)'
<1>0. /\ handler[h] \in Handler /\ handler \in [Handlers -> Handler]
      /\ HandlerOK(h) /\ HandlerFields(handler[h]) /\ TypeOK /\ handler[h].pc \in {"grant", "bots"}
    BY FieldTypes DEF IInv, TypeOK, HandlersOK, GrantRequester, GrantBot
<1>1. ASSUME GrantRequester(h)
      PROVE  /\ handler'[h].pc = "bots" /\ handler'[h].id = handler[h].id
             /\ handler'[h].op = handler[h].op /\ handler'[h].ev = handler[h].ev
             /\ handler'[h].role = handler[h].role
    <2>1. handler'[h] = [handler[h] EXCEPT !.pc = "bots"]
        BY <1>0, <1>1, Moved DEF Pcs, GrantRequester
    <2> QED BY <1>0, <2>1, MovedFields
<1>2. ASSUME NEW b \in Bots, GrantBot(h, b)
      PROVE  /\ handler'[h].pc = "bots" /\ handler'[h].id = handler[h].id
             /\ handler'[h].op = handler[h].op /\ handler'[h].ev = handler[h].ev
             /\ handler'[h].role = handler[h].role
    <2>1. handler'[h] = [handler[h] EXCEPT !.bots = handler[h].bots \ {b}] /\ handler[h].pc = "bots"
        BY <1>0, <1>2 DEF GrantBot
    <2> QED BY <1>0, <2>1 DEF Handler
<1>3. /\ handler'[h].pc = "bots" /\ handler'[h].id = handler[h].id
      /\ handler'[h].op = handler[h].op /\ handler'[h].ev = handler[h].ev
      /\ handler'[h].role = handler[h].role
    BY <1>1, <1>2
<1>4. <<handler[h].id, handler[h].role>> \in approvals'
    BY <1>0, GrantsStep DEF HandlerOK, MembersKept
<1> QED BY <1>0, <1>3, <1>4, HandlerGoesOn

LEMMA HandlersKept ==
    ASSUME IInv, [Next]_vars
    PROVE  HandlersOK'
<1>0. TypeOK /\ IdsOK /\ HandlersOK /\ handler \in [Handlers -> Handler]
    BY DEF IInv, TypeOK
<1>1. CASE Around
    <2>1. handler' = handler
        BY <1>1 DEF Around, Submit, Click, OperatorChanges, DocChanges, vars
    <2> QED BY <2>1, HandlerKept DEF HandlersOK
<1>2. ASSUME NEW h \in Handlers, Acts(h) PROVE HandlersOK'
    <2>1. ASSUME NEW g \in Handlers \ {h} PROVE HandlerOK(g)'
        BY <1>0, <1>2, <2>1, HandlerStep, HandlerKept
    <2>2. ASSUME End(h) PROVE HandlerOK(h)'
        BY <1>0, <2>2, Ended DEF HandlerOK
    <2>3. ASSUME Claim(h) PROVE HandlerOK(h)'
        <3>1. CASE receipt[handler[h].ev] \in Results
            BY <2>2, <2>3, <3>1 DEF Claim
        <3>2. CASE receipt[handler[h].ev] \notin Results
            <4>1. /\ Goto(h, "lookup") /\ receipt' = [receipt EXCEPT ![handler[h].ev] = "claimed"]
                  /\ handler[h].pc = "claim"
                BY <2>3, <3>2 DEF Claim
            <4>2. handler[h].op = "card" /\ handler[h].ev \in Events
                BY <1>0, <4>1, FieldTypes DEF HandlersOK, HandlerOK, HandlerFields
            <4>3. receipt'[handler[h].ev] # "none"
                BY <4>1, <4>2 DEF IInv, TypeOK
            <4>4. handler'[h] = [handler[h] EXCEPT !.pc = "lookup"]
                BY <1>0, <4>1, Moved DEF Pcs
            <4>5. /\ handler'[h].pc = "lookup" /\ handler'[h].id = handler[h].id
                  /\ handler'[h].op = handler[h].op /\ handler'[h].ev = handler[h].ev
                BY <1>0, <4>4, MovedFields
            <4> QED BY <4>1, <4>2, <4>3, <4>5, HandlerGoesOn
        <3> QED BY <3>1, <3>2
    <2>4. ASSUME CheckAdmin(h) PROVE HandlerOK(h)'
        <3>1. handler[h].pc = "admin" /\ handler[h].op = "card"
            BY <1>0, <2>4, FieldTypes DEF CheckAdmin, HandlersOK, HandlerOK, HandlerFields
        <3>2. CASE opAdmin
            <4>1. handler'[h] = [handler[h] EXCEPT !.pc = "decide"]
                BY <1>0, <2>4, <3>2, Moved DEF Pcs, CheckAdmin
            <4>2. /\ handler'[h].pc = "decide" /\ handler'[h].id = handler[h].id
                  /\ handler'[h].op = handler[h].op /\ handler'[h].ev = handler[h].ev
                BY <1>0, <4>1, MovedFields
            <4> QED BY <3>1, <4>2, HandlerGoesOn
        <3>3. CASE ~opAdmin
            <4>1. ResultIs(h, "forbidden") /\ "forbidden" \in Results /\ "forbidden" \notin Final
                BY <2>4, <3>3 DEF CheckAdmin, Results, Final
            <4>2. /\ handler'[h].pc = "finalize" /\ handler'[h].result = "forbidden"
                  /\ handler'[h].id = handler[h].id
                  /\ handler'[h].op = handler[h].op /\ handler'[h].ev = handler[h].ev
                BY <1>0, <4>1, Resulted
            <4> QED BY <3>1, <4>1, <4>2, HandlerGoesOn
        <3> QED BY <3>2, <3>3
    <2>5. ASSUME Finalize(h) \/ Fault(h) PROVE HandlerOK(h)'
        BY <2>2, <2>5 DEF Finalize, Fault
    <2>6. HandlerOK(h)'
        BY <1>2, <2>3, <2>4, <2>5, Ranks, Started, LookedUp, DecidedNext, Reported, GrantsDoneNext,
           GrantNext DEF Acts, Advance
    <2> QED BY <2>1, <2>6 DEF HandlersOK
<1> QED BY <1>1, <1>2, Steps

----------------------------------------------------------------------------
(* The theorems.                                                           *)

LEMMA InvInit == Init => IInv
<1> SUFFICES ASSUME Init PROVE IInv
    OBVIOUS
<1>1. MaxId \in Nat /\ MaxFaults \in Nat /\ 0 \in 0..MaxId
    BY AccessAssumption
<1>2. NoRow \in Row /\ NoRow.id = 0 /\ NoEvent \in Event /\ NoEvent.id = 0 /\ NoEvent.answer = NoVal
    BY <1>1, Ranks DEF NoRow, Row, NoEvent, Event
<1>3. Idle \in Handler /\ Idle.pc = "idle"
    BY IdleType DEF Idle
<1>4. TypeOK
    BY <1>1, <1>2, <1>3 DEF Init, TypeOK
<1>5. IdsOK /\ ApprovalsOK
    BY <1>2 DEF Init, IdsOK, ApprovalsOK
<1>6. EventsOK
    BY <1>2 DEF Init, EventsOK, EventOK, Final
<1>7. HandlersOK /\ GrantsOK
    BY <1>3 DEF Init, HandlersOK, HandlerOK, GrantsOK
<1> QED BY <1>4, <1>5, <1>6, <1>7 DEF IInv

LEMMA InvStep == IInv /\ [Next]_vars => IInv'
BY TypeStep, RowStep, ApprovalsKept, EventsKept, HandlersKept, GrantsKept DEF IInv

LEMMA Invariant == Spec => []IInv
BY InvInit, InvStep, PTL DEF Spec

\* Every variable of accessRequests.ts and cardActionDecide.ts stays of its type.
THEOREM TypeCorrect == Spec => []TypeOK
<1>1. IInv => TypeOK
    BY DEF IInv
<1> QED BY <1>1, Invariant, PTL

\* Nobody holds more than an approval gave, and there is one approval per request, whatever
\* the interleaving of both ways to decide, redeliveries and replaced requests.
THEOREM GrantsAreApproved == Spec => []GrantedAsApproved
<1>1. IInv => GrantedAsApproved
    BY DEF IInv, GrantsOK, ApprovalsOK, GrantedAsApproved
<1> QED BY <1>1, Invariant, PTL

\* An approval or denial told to octo-server is what the row of the request says, then
\* and for as long as the row is that request's.
THEOREM AnswersAreTrue == Spec => []AnswerIsTrue
<1>1. IInv => AnswerIsTrue
    BY DEF IInv, EventsOK, EventOK, DecidedAs, Final, AnswerIsTrue
<1> QED BY <1>1, Invariant, PTL

\* The response stored first for a click is the one every delivery of it gives, and the
\* one octo-server got.
THEOREM AnswersAreFinal == Spec => OneAnswer
<1>1. IInv /\ [Next]_vars => [\A e \in Events : receipt[e] \in Results => receipt'[e] = receipt[e]]_receipt
    BY ClickStep DEF IInv, ClicksKept
<1>2. IInv => \A e \in Events : event[e].answer # NoVal => event[e].answer = receipt[e]
    BY DEF IInv, EventsOK, EventOK
<1>3. Spec => [][\A e \in Events : receipt[e] \in Results => receipt'[e] = receipt[e]]_receipt
    BY <1>1, Invariant, PTL DEF Spec
<1>4. Spec => [](\A e \in Events : event[e].answer # NoVal => event[e].answer = receipt[e])
    BY <1>2, Invariant, PTL
<1> QED BY <1>3, <1>4, PTL DEF OneAnswer

=============================================================================
