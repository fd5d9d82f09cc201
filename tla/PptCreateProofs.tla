--------------------------- MODULE PptCreateProofs ---------------------------
(***************************************************************************)
(* Proofs about PptCreate, for any users, keys, payloads and callers: a    *)
(* create under one Idempotency-Key takes effect once, whatever fails.     *)
(***************************************************************************)
EXTENDS PptCreate, FiniteSetTheorems, TLAPS

(***************************************************************************)
(* The inductive invariant: what a request knows of the row of its key at  *)
(* each of its statements, that only one transaction is past its insert    *)
(* for a key, and that the rows and the decks tell the same story.         *)
(***************************************************************************)

\* What the row says to a request: its document, or a conflict.
AnswerOf(row, p) == IF row.payload = p THEN row.doc ELSE Conflict

RequestOK(q) ==
    /\ q \in CallStates
    /\ q.pc # "new" => q.user \in Users /\ q.key \in IdemKeys /\ q.payload \in Payloads
    /\ q.pc \in {"write", "shared"} => rec[RowKey(q)] = NoRow
    /\ q.pc = "reread" => rec[RowKey(q)] # NoRow
    /\ q.pc # "progress"
    /\ q.pc = "answer" => /\ rec[RowKey(q)] # NoRow
                          /\ q.got = AnswerOf(rec[RowKey(q)], q.payload)
RequestsOK == \A c \in Calls : RequestOK(call[c])

\* Whoever holds the key's lock to write is alone in holding one.
OneWriter ==
    \A c, x \in Calls : call[c].pc = "write" /\ call[x].pc \in {"write", "shared"}
                            /\ RowKey(call[x]) = RowKey(call[c]) => x = c

\* Every row has its deck, every deck its row and a caller who asked for it; document
\* ids are handed out in order.
DecksOK ==
    /\ IsFiniteSet(decks)
    /\ \A d \in decks : /\ d \in [doc : Nat, owner : Users, request : Requests, payload : Payloads]
                        /\ rec[d.request] = [payload |-> d.payload, doc |-> d.doc]
                        /\ d.owner = d.request[1]
                        /\ d.doc \in 1..Cardinality(decks)
                        /\ \E c \in Calls : call[c].pc # "new" /\ RequestOf(call[c]) = d.request
    /\ \A r \in Requests : rec[r] # NoRow => \E d \in decks : d.request = r

IInv == PptTypeOK /\ RequestsOK /\ OneWriter /\ DecksOK

USE PptAssumption DEF Conflict

LEMMA InitIInv == Init => IInv
<1> SUFFICES ASSUME Init PROVE IInv
    OBVIOUS
<1> USE DEF Init
<1>1. NewCall \in CallStates /\ NewCall.pc = "new"
    BY DEF NewCall, CallStates
<1>2. NoRow \in [payload : Payloads \cup {NoOne}, doc : Nat]
    BY DEF NoRow
<1>3. PptTypeOK
    BY <1>1, <1>2 DEF PptTypeOK
<1>4. RequestsOK /\ OneWriter
    BY <1>1 DEF RequestsOK, RequestOK, OneWriter
<1>5. DecksOK
    BY FS_EmptySet DEF DecksOK
<1> QED BY <1>3, <1>4, <1>5 DEF IInv

----------------------------------------------------------------------------
(* Steps that commit nothing.                                              *)

\* One request moves on and what it knows is true; if it may write now, nobody else
\* holds its key.
LEMMA RequestMoves ==
    ASSUME IInv, UNCHANGED <<rec, decks>>, NEW c \in Calls, NEW q,
           call' = [call EXCEPT ![c] = q], RequestOK(q), q.pc # "new",
           call[c].pc # "new" => RequestOf(q) = RequestOf(call[c]),
           q.pc \in {"write", "shared"} =>
               \/ call[c].pc \in {"write", "shared"} /\ RowKey(q) = RowKey(call[c]) /\ q.pc = "shared"
               \/ \A x \in Calls \ {c} : ~(call[x].pc \in {"write", "shared"} /\ RowKey(call[x]) = RowKey(q)),
           \A t \in told' : t \in [request : Requests, payload : Payloads, answer : Nat],
           faults' \in 0..MaxFaults
    PROVE  IInv'
<1>t. call \in [Calls -> CallStates] /\ q \in CallStates
    BY DEF IInv, PptTypeOK, RequestOK
<1>1. PptTypeOK'
    BY <1>t DEF IInv, PptTypeOK
<1>2. \A x \in Calls : call'[x] = IF x = c THEN q ELSE call[x]
    BY <1>t
<1>3. RequestsOK'
    BY <1>2 DEF IInv, RequestsOK, RequestOK
<1>4. OneWriter'
    BY <1>2 DEF IInv, OneWriter, RowKey
<1>5. DecksOK'
    <2>1. ASSUME NEW d \in decks
          PROVE  \E x \in Calls : call'[x].pc # "new" /\ RequestOf(call'[x]) = d.request
        <3>1. PICK x \in Calls : call[x].pc # "new" /\ RequestOf(call[x]) = d.request
            BY DEF IInv, DecksOK
        <3> QED BY <1>2, <3>1
    <2> QED BY <2>1 DEF IInv, DecksOK, RequestOf
<1> QED BY <1>1, <1>3, <1>4, <1>5 DEF IInv

\* What the other requests of a caller's key are doing.
LEMMA HoldersAre ==
    ASSUME NEW k, NEW x
    PROVE  x \in Holders(k) <=> /\ x \in Calls /\ call[x].pc \in {"write", "shared"}
                                /\ RowKey(call[x]) = k
BY DEF Holders, AtKey

LEMMA GotoFields ==
    ASSUME IInv, NEW c \in Calls, NEW pc, Goto(c, pc),
           pc \in {"get", "reserve", "wait", "shared", "write", "reread", "failed", "done"},
           call[c].pc # "new"
    PROVE  \E q \in CallStates :
               /\ call' = [call EXCEPT ![c] = q] /\ q.pc = pc
               /\ q.user = call[c].user /\ q.key = call[c].key /\ q.payload = call[c].payload
<1> DEFINE q == [call[c] EXCEPT !.pc = pc]
<1>1. call \in [Calls -> CallStates]
    BY DEF IInv, PptTypeOK
<1>2. q \in CallStates /\ q.pc = pc
    BY <1>1 DEF CallStates
<1>3. q.user = call[c].user /\ q.key = call[c].key /\ q.payload = call[c].payload
    BY <1>1 DEF CallStates
<1>4. call' = [call EXCEPT ![c] = q]
    BY <1>1 DEF Goto
<1> HIDE DEF q
<1> QED BY <1>2, <1>3, <1>4

\* A request goes on to its next statement.
LEMMA GotoOK ==
    ASSUME IInv, UNCHANGED <<rec, decks>>, NEW c \in Calls, call[c].pc # "new",
           NEW pc \in {"get", "reserve", "wait", "write", "reread", "failed", "done"}, Goto(c, pc),
           pc = "write" => /\ rec[RowKey(call[c])] = NoRow
                           /\ \A x \in Calls \ {c} : x \notin Holders(RowKey(call[c])),
           pc = "reread" => rec[RowKey(call[c])] # NoRow,
           \A t \in told' : t \in [request : Requests, payload : Payloads, answer : Nat],
           faults' \in 0..MaxFaults
    PROVE  IInv'
<1>1. PICK q \in CallStates :
          /\ call' = [call EXCEPT ![c] = q] /\ q.pc = pc
          /\ q.user = call[c].user /\ q.key = call[c].key /\ q.payload = call[c].payload
    BY GotoFields
<1>2. RowKey(q) = RowKey(call[c]) /\ RequestOf(q) = RequestOf(call[c])
    BY <1>1 DEF RowKey, RequestOf
<1>3. RequestOK(q)
    BY <1>1, <1>2 DEF IInv, RequestsOK, RequestOK
<1>4. q.pc \in {"write", "shared"} =>
          \A x \in Calls \ {c} : ~(call[x].pc \in {"write", "shared"} /\ RowKey(call[x]) = RowKey(q))
    BY <1>1, <1>2, HoldersAre
<1> QED BY <1>1, <1>2, <1>3, <1>4, RequestMoves

\* A request has its answer.
LEMMA GotOK ==
    ASSUME IInv, UNCHANGED <<rec, decks, told, faults>>, NEW c \in Calls, call[c].pc # "new",
           rec[RowKey(call[c])] # NoRow, Got(c, AnswerOf(rec[RowKey(call[c])], call[c].payload))
    PROVE  IInv'
<1> DEFINE a == AnswerOf(rec[RowKey(call[c])], call[c].payload)
           q == [call[c] EXCEPT !.pc = "answer", !.got = a]
<1>t. call[c] \in CallStates /\ RequestOK(call[c]) /\ RowKey(call[c]) \in Requests
    BY DEF IInv, PptTypeOK, RequestsOK, RequestOK, RowKey, Requests
<1>1. a \in Nat
    <2>1. rec[RowKey(call[c])] \in [payload : Payloads \cup {NoOne}, doc : Nat]
        BY <1>t DEF IInv, PptTypeOK
    <2> QED BY <2>1 DEF AnswerOf
<1> HIDE DEF a
<1>2. q \in CallStates
    BY <1>t, <1>1 DEF CallStates
<1>3. /\ q.pc = "answer" /\ q.got = a
      /\ q.user = call[c].user /\ q.key = call[c].key /\ q.payload = call[c].payload
    BY <1>t DEF CallStates
<1>4. call' = [call EXCEPT ![c] = q]
    BY DEF Got, a
<1> HIDE DEF q
<1>5. RowKey(q) = RowKey(call[c]) /\ RequestOf(q) = RequestOf(call[c])
    BY <1>3 DEF RowKey, RequestOf
<1>6. RequestOK(q)
    BY <1>t, <1>2, <1>3, <1>5 DEF RequestOK, a
<1>7. /\ \A t \in told' : t \in [request : Requests, payload : Payloads, answer : Nat]
      /\ faults' \in 0..MaxFaults
    BY DEF IInv, PptTypeOK
<1> QED BY <1>3, <1>4, <1>5, <1>6, <1>7, RequestMoves

\* A row that was read decides: an answer if there is one.
LEMMA FromRowOK ==
    ASSUME IInv, UNCHANGED <<rec, decks, told, faults>>, NEW c \in Calls, call[c].pc # "new",
           NEW absent, FromRow(c, rec[RowKey(call[c])], absent),
           rec[RowKey(call[c])] = NoRow => absent = "reserve"
    PROVE  IInv'
<1>1. CASE rec[RowKey(call[c])] = NoRow
    BY <1>1, GotoOK DEF FromRow, IInv, PptTypeOK
<1>2. CASE rec[RowKey(call[c])] # NoRow
    BY <1>2, GotOK DEF FromRow, AnswerOf
<1> QED BY <1>1, <1>2

LEMMA SendStep ==
    ASSUME IInv, NEW c \in Calls, Send(c)
    PROVE  IInv'
<1>1. PICK u \in Users, k \in IdemKeys, p \in Payloads :
          call' = [call EXCEPT ![c] = [pc |-> "get", user |-> u, key |-> k, payload |-> p, got |-> Conflict]]
    BY DEF Send
<1> DEFINE q == [pc |-> "get", user |-> u, key |-> k, payload |-> p, got |-> Conflict]
<1>2. RequestOK(q)
    BY DEF RequestOK, CallStates
<1>3. q.pc = "get" /\ call[c].pc = "new" /\ UNCHANGED <<rec, decks, told, faults>>
    BY DEF Send
<1>4. call' = [call EXCEPT ![c] = q]
    BY <1>1
<1> HIDE DEF q
<1> QED BY <1>2, <1>3, <1>4, RequestMoves DEF IInv, PptTypeOK

----------------------------------------------------------------------------
(* Steps that commit, and the rollback.                                    *)

\* When the writer of a key commits, its deck is the key's first, and the ids of the
\* decks are used up one by one: as many decks as callers who asked, at most.
LEMMA NewDeck ==
    ASSUME IInv, NEW c \in Calls, call[c].pc = "write", NEW pc \in {"answer", "failed"}, CommitAs(c, pc)
    PROVE  /\ Cardinality(decks') = Cardinality(decks) + 1
           /\ Cardinality(decks) + 1 \in 1..Cardinality(Calls)
           /\ DecksOK'
<1> DEFINE q == call[c]
           k == RowKey(q)
           n == Cardinality(decks) + 1
           d == [doc |-> n, owner |-> q.user, request |-> RequestOf(q), payload |-> q.payload]
<1>t. /\ q.user \in Users /\ q.key \in IdemKeys /\ q.payload \in Payloads
      /\ k \in Requests /\ k = RequestOf(q) /\ k[1] = q.user /\ rec[k] = NoRow
      /\ IsFiniteSet(decks) /\ Cardinality(decks) \in Nat
      /\ rec \in [Requests -> [payload : Payloads \cup {NoOne}, doc : Nat]]
      /\ call \in [Calls -> CallStates]
    BY FS_CardinalityType DEF IInv, PptTypeOK, RequestsOK, RequestOK, DecksOK, RowKey, RequestOf, Requests
<1>1. /\ rec' = [rec EXCEPT ![k] = [payload |-> q.payload, doc |-> n]]
      /\ decks' = decks \cup {d}
      /\ \A x \in Calls : /\ call'[x].pc # "new" <=> call[x].pc # "new"
                          /\ RequestOf(call'[x]) = RequestOf(call[x])
    <2>1. /\ rec' = [rec EXCEPT ![k] = [payload |-> q.payload, doc |-> n]]
          /\ decks' = decks \cup {d}
        BY DEF CommitAs
    <2>2. ASSUME NEW x \in Calls
          PROVE  /\ call'[x].pc # "new" <=> call[x].pc # "new"
                 /\ RequestOf(call'[x]) = RequestOf(call[x])
        <3> HIDE DEF k, n
        <3>1. call'[x] = IF x = c THEN [q EXCEPT !.pc = pc, !.got = n]
                         ELSE IF x \in AtKey(k, {"wait"}) THEN [call[x] EXCEPT !.pc = "reread"]
                         ELSE call[x]
            BY DEF CommitAs, k, n
        <3>2. x \in AtKey(k, {"wait"}) => call[x].pc = "wait"
            BY DEF AtKey
        <3> QED BY <1>t, <3>1, <3>2 DEF RequestOf, CallStates
    <2> QED BY <2>1, <2>2
<1>2. ASSUME NEW e \in decks PROVE e.request # k
    <2>1. /\ e \in [doc : Nat, owner : Users, request : Requests, payload : Payloads]
          /\ rec[e.request] = [payload |-> e.payload, doc |-> e.doc]
        BY DEF IInv, DecksOK
    <2>2. rec[e.request].payload = e.payload /\ e.payload # NoOne /\ NoRow.payload = NoOne
        BY <2>1 DEF NoRow
    <2> HIDE DEF k
    <2> QED BY <1>t, <2>2
<1>3. d \notin decks /\ d.request = k
    <2>1. d.request = k
        BY <1>t
    <2> HIDE DEF d, k
    <2> QED BY <1>2, <2>1
<1>4. IsFiniteSet(decks') /\ Cardinality(decks') = n
    BY <1>t, <1>1, <1>3, FS_AddElement
<1>5. DecksOK'
    <2> HIDE DEF n, q, k
    <2>1. ASSUME NEW e \in decks
          PROVE  /\ e \in [doc : Nat, owner : Users, request : Requests, payload : Payloads]
                 /\ rec'[e.request] = [payload |-> e.payload, doc |-> e.doc]
                 /\ e.owner = e.request[1]
                 /\ e.doc \in 1..Cardinality(decks')
                 /\ \E x \in Calls : call'[x].pc # "new" /\ RequestOf(call'[x]) = e.request
        <3>1. /\ e \in [doc : Nat, owner : Users, request : Requests, payload : Payloads]
              /\ rec[e.request] = [payload |-> e.payload, doc |-> e.doc] /\ e.owner = e.request[1]
              /\ e.doc \in 1..Cardinality(decks)
              /\ \E x \in Calls : call[x].pc # "new" /\ RequestOf(call[x]) = e.request
            BY DEF IInv, DecksOK
        <3>2. e.request \in Requests /\ rec'[e.request] = rec[e.request]
            BY <1>t, <1>1, <1>2, <3>1
        <3>3. e.doc \in 1..Cardinality(decks')
            BY <1>t, <1>4, <3>1 DEF n
        <3> QED BY <1>1, <3>1, <3>2, <3>3
    <2>2. /\ d \in [doc : Nat, owner : Users, request : Requests, payload : Payloads]
          /\ rec'[d.request] = [payload |-> d.payload, doc |-> d.doc]
          /\ d.owner = d.request[1]
          /\ d.doc \in 1..Cardinality(decks')
          /\ \E x \in Calls : call'[x].pc # "new" /\ RequestOf(call'[x]) = d.request
        <3>1. n \in Nat /\ n \in 1..n
            BY <1>t DEF n
        <3>2. call'[c].pc # "new" /\ RequestOf(call'[c]) = d.request
            BY <1>t, <1>1 DEF q
        <3> QED BY <1>t, <1>1, <1>4, <3>1, <3>2
    <2>3. ASSUME NEW r \in Requests, rec'[r] # NoRow PROVE \E e \in decks' : e.request = r
        <3>1. CASE r = k
            BY <1>1, <1>3, <3>1
        <3>2. CASE r # k
            BY <1>1, <1>t, <2>3, <3>2 DEF IInv, DecksOK
        <3> QED BY <3>1, <3>2
    <2> HIDE DEF d
    <2>4. \A e \in decks' : /\ e \in [doc : Nat, owner : Users, request : Requests, payload : Payloads]
                            /\ rec'[e.request] = [payload |-> e.payload, doc |-> e.doc]
                            /\ e.owner = e.request[1]
                            /\ e.doc \in 1..Cardinality(decks')
                            /\ \E x \in Calls : call'[x].pc # "new" /\ RequestOf(call'[x]) = e.request
        BY <1>1, <2>1, <2>2
    <2> QED BY <1>4, <2>3, <2>4 DEF DecksOK
<1>6. n \in 1..Cardinality(Calls)
    <2> DEFINE asker == [e \in decks' |-> CHOOSE x \in Calls : RequestOf(call'[x]) = e.request]
    <2>1. \A e \in decks' : asker[e] \in Calls /\ RequestOf(call'[asker[e]]) = e.request
        BY <1>5 DEF DecksOK
    <2>2. ASSUME NEW e \in decks', NEW f \in decks', asker[e] = asker[f] PROVE e = f
        <3>1. e.request = f.request
            BY <2>1, <2>2
        <3>2. /\ e \in [doc : Nat, owner : Users, request : Requests, payload : Payloads]
              /\ f \in [doc : Nat, owner : Users, request : Requests, payload : Payloads]
              /\ e.owner = f.owner
              /\ [payload |-> e.payload, doc |-> e.doc] = [payload |-> f.payload, doc |-> f.doc]
            BY <1>5, <3>1 DEF DecksOK
        <3>3. e.payload = f.payload /\ e.doc = f.doc
            BY <3>2
        <3> QED BY <3>1, <3>2, <3>3
    <2>3. asker \in Injection(decks', Calls)
        BY <2>1, <2>2 DEF Injection, IsInjective
    <2>4. Cardinality(decks') <= Cardinality(Calls)
        BY <2>3, FS_Injection
    <2>5. Cardinality(Calls) \in Nat
        BY FS_CardinalityType
    <2> QED BY <1>t, <1>4, <2>4, <2>5
<1> QED BY <1>4, <1>5, <1>6

LEMMA CommitOK ==
    ASSUME IInv, NEW c \in Calls, call[c].pc = "write", NEW pc \in {"answer", "failed"}, CommitAs(c, pc),
           faults' \in 0..MaxFaults
    PROVE  IInv'
<1> DEFINE k == RowKey(call[c])
           n == Cardinality(decks) + 1
           row == [payload |-> call[c].payload, doc |-> n]
<1>t. /\ RequestOK(call[c]) /\ call \in [Calls -> CallStates] /\ k \in Requests /\ rec[k] = NoRow
      /\ call[c].payload \in Payloads /\ n \in Nat
      /\ rec \in [Requests -> [payload : Payloads \cup {NoOne}, doc : Nat]]
    BY FS_CardinalityType DEF IInv, PptTypeOK, RequestsOK, RequestOK, DecksOK, RowKey, Requests
<1>1. /\ rec' = [rec EXCEPT ![k] = row] /\ UNCHANGED told
      /\ call' = [x \in Calls |->
             IF x = c THEN [call[c] EXCEPT !.pc = pc, !.got = n]
             ELSE IF x \in AtKey(k, {"wait"}) THEN [call[x] EXCEPT !.pc = "reread"]
             ELSE call[x]]
    BY DEF CommitAs
<1>2. row # NoRow /\ row \in [payload : Payloads \cup {NoOne}, doc : Nat] /\ AnswerOf(row, call[c].payload) = n
    BY <1>t DEF NoRow, AnswerOf
<1>3. DecksOK'
    BY NewDeck
<1> HIDE DEF n, row
<1>4. RequestOK(call[c])' /\ call'[c].pc = pc
    <2> DEFINE q == [call[c] EXCEPT !.pc = pc, !.got = n]
    <2>1. q \in CallStates
        BY <1>t DEF CallStates
    <2>2. /\ q.pc = pc /\ q.got = n
          /\ q.user = call[c].user /\ q.key = call[c].key /\ q.payload = call[c].payload
        BY <1>t DEF CallStates
    <2>3. call'[c] = q
        BY <1>1
    <2> HIDE DEF q
    <2>4. RowKey(q) = k /\ rec'[k] = row
        BY <1>1, <1>t, <2>2 DEF RowKey
    <2> HIDE DEF k
    <2> QED BY <1>t, <1>2, <2>1, <2>2, <2>3, <2>4 DEF RequestOK
<1>5. ASSUME NEW x \in Calls \ {c}
      PROVE  /\ RequestOK(call[x])'
             /\ call'[x].pc \in {"write", "shared"} => call'[x] = call[x]
    <2>0. RequestOK(call[x])
        BY DEF IInv, RequestsOK
    <2>1. CASE x \in AtKey(k, {"wait"})
        <3> DEFINE q == [call[x] EXCEPT !.pc = "reread"]
        <3>1. q \in CallStates
            BY <1>t DEF CallStates
        <3>2. /\ q.pc = "reread"
              /\ q.user = call[x].user /\ q.key = call[x].key /\ q.payload = call[x].payload
            BY <1>t DEF CallStates
        <3>3. call'[x] = q
            BY <1>1, <2>1
        <3>4. call[x].pc = "wait" /\ RowKey(call[x]) = k
            BY <2>1 DEF AtKey
        <3> HIDE DEF q
        <3>5. RowKey(q) = k /\ rec'[k] = row
            BY <1>1, <1>t, <3>2, <3>4 DEF RowKey
        <3> HIDE DEF k
        <3> QED BY <1>2, <2>0, <3>1, <3>2, <3>3, <3>4, <3>5 DEF RequestOK
    <2>2. CASE x \notin AtKey(k, {"wait"})
        <3>1. call'[x] = call[x]
            BY <1>1, <2>2
        <3>2. call[x].pc \in {"write", "shared"} => RowKey(call[x]) # k
            BY DEF IInv, OneWriter
        <3>3. call[x].pc # "new" => rec'[RowKey(call[x])] = IF RowKey(call[x]) = k THEN row ELSE rec[RowKey(call[x])]
            BY <1>1, <1>t, <2>0 DEF RequestOK, RowKey, Requests
        <3> HIDE DEF k
        <3> QED BY <1>t, <1>2, <2>0, <3>1, <3>2, <3>3 DEF RequestOK
    <2> QED BY <2>1, <2>2
<1>6. RequestsOK'
    BY <1>4, <1>5 DEF RequestsOK
<1>7. OneWriter'
    <2>1. ASSUME NEW x \in Calls, NEW y \in Calls, call'[x].pc = "write", call'[y].pc \in {"write", "shared"},
                 RowKey(call'[y]) = RowKey(call'[x])
          PROVE  y = x
        <3>1. x # c /\ y # c
            BY <1>4, <2>1
        <3>2. call'[x] = call[x] /\ call'[y] = call[y]
            BY <1>5, <2>1, <3>1
        <3> QED BY <2>1, <3>2 DEF IInv, OneWriter
    <2> QED BY <2>1 DEF OneWriter, RowKey
<1>8. PptTypeOK'
    <2>1. \A x \in Calls : call'[x] \in CallStates
        BY <1>4, <1>5 DEF RequestOK
    <2>2. call' \in [Calls -> CallStates]
        BY <1>1, <2>1
    <2>3. rec' \in [Requests -> [payload : Payloads \cup {NoOne}, doc : Nat]]
        BY <1>1, <1>2, <1>t
    <2> QED BY <1>1, <1>3, <2>2, <2>3 DEF IInv, PptTypeOK, DecksOK
<1> QED BY <1>3, <1>6, <1>7, <1>8 DEF IInv

\* A rollback lets all who wait share the lock; the row is still not there.
LEMMA RollbackOK ==
    ASSUME IInv, NEW c \in Calls, Rollback(c)
    PROVE  IInv'
<1> DEFINE k == RowKey(call[c])
<1>1. /\ call[c].pc = "write" /\ UNCHANGED <<rec, decks, told>> /\ faults' \in 0..MaxFaults
      /\ call' = [x \in Calls |->
             IF x = c THEN [call[x] EXCEPT !.pc = "failed"]
             ELSE IF x \in AtKey(k, {"wait"}) THEN [call[x] EXCEPT !.pc = "shared"]
             ELSE call[x]]
    BY DEF Rollback, Fault, IInv, PptTypeOK
<1>t. /\ rec[k] = NoRow /\ call \in [Calls -> CallStates]
    BY <1>1 DEF IInv, PptTypeOK, RequestsOK, RequestOK
<1>2. ASSUME NEW x \in Calls
      PROVE  /\ RequestOK(call'[x])
             /\ call[x].pc # "new" <=> call'[x].pc # "new"
             /\ RequestOf(call'[x]) = RequestOf(call[x])
             /\ call'[x].pc = "write" => call'[x] = call[x] /\ x # c
             /\ call'[x].pc = "shared" => call'[x] = call[x] \/ RowKey(call[x]) = k
    <2>0. RequestOK(call[x])
        BY DEF IInv, RequestsOK
    <2>1. CASE x = c
        <3> DEFINE q == [call[x] EXCEPT !.pc = "failed"]
        <3>1. q \in CallStates
            BY <1>t DEF CallStates
        <3>2. /\ q.pc = "failed"
              /\ q.user = call[x].user /\ q.key = call[x].key /\ q.payload = call[x].payload
            BY <1>t DEF CallStates
        <3>3. call'[x] = q
            BY <1>1, <2>1
        <3> HIDE DEF q, k
        <3> QED BY <1>1, <2>0, <2>1, <3>1, <3>2, <3>3 DEF RequestOK, RequestOf
    <2>2. CASE x # c /\ x \in AtKey(k, {"wait"})
        <3> DEFINE q == [call[x] EXCEPT !.pc = "shared"]
        <3>1. q \in CallStates
            BY <1>t DEF CallStates
        <3>2. /\ q.pc = "shared"
              /\ q.user = call[x].user /\ q.key = call[x].key /\ q.payload = call[x].payload
            BY <1>t DEF CallStates
        <3>3. call'[x] = q
            BY <1>1, <2>2
        <3>4. call[x].pc = "wait" /\ RowKey(call[x]) = k
            BY <2>2 DEF AtKey
        <3> HIDE DEF q
        <3>5. RowKey(q) = k /\ RequestOf(q) = RequestOf(call[x])
            BY <3>2, <3>4 DEF RowKey, RequestOf
        <3> HIDE DEF k
        <3> QED BY <1>t, <2>0, <3>1, <3>2, <3>3, <3>4, <3>5 DEF RequestOK
    <2>3. CASE x # c /\ x \notin AtKey(k, {"wait"})
        <3>1. call'[x] = call[x]
            BY <1>1, <2>3
        <3> QED BY <2>0, <2>3, <3>1
    <2> QED BY <2>1, <2>2, <2>3
<1> HIDE DEF k
<1>3. RequestsOK'
    BY <1>1, <1>2 DEF RequestsOK, RequestOK
<1>4. OneWriter'
    <2>1. ASSUME NEW x \in Calls, NEW y \in Calls, call'[x].pc = "write", call'[y].pc \in {"write", "shared"},
                 RowKey(call'[y]) = RowKey(call'[x])
          PROVE  y = x
        <3>1. call'[x] = call[x] /\ x # c
            BY <1>2, <2>1
        <3>2. call'[y] = call[y] \/ RowKey(call[y]) = k
            BY <1>2, <2>1
        <3>3. RowKey(call'[y]) = RowKey(call[y])
            BY <1>2 DEF RowKey, RequestOf
        <3>4. RowKey(call[x]) # k
            BY <1>1, <2>1, <3>1 DEF IInv, OneWriter, k
        <3> QED BY <2>1, <3>1, <3>2, <3>3, <3>4 DEF IInv, OneWriter
    <2> QED BY <2>1 DEF OneWriter, RowKey
<1>5. DecksOK'
    <2>1. ASSUME NEW d \in decks
          PROVE  \E x \in Calls : call'[x].pc # "new" /\ RequestOf(call'[x]) = d.request
        <3>1. PICK x \in Calls : call[x].pc # "new" /\ RequestOf(call[x]) = d.request
            BY DEF IInv, DecksOK
        <3> QED BY <1>2, <3>1
    <2> QED BY <1>1, <2>1 DEF IInv, DecksOK, RequestOf
<1>6. PptTypeOK'
    <2>1. call' \in [Calls -> CallStates]
        BY <1>1, <1>2 DEF RequestOK
    <2> QED BY <1>1, <2>1 DEF IInv, PptTypeOK
<1> QED BY <1>3, <1>4, <1>5, <1>6 DEF IInv

----------------------------------------------------------------------------
LEMMA NextIInv == IInv /\ [Next]_vars => IInv'
<1> SUFFICES ASSUME IInv, [Next]_vars PROVE IInv'
    OBVIOUS
<1>t. /\ \A x \in told : x \in [request : Requests, payload : Payloads, answer : Nat]
      /\ faults \in 0..MaxFaults
    BY DEF IInv, PptTypeOK
<1>1. CASE UNCHANGED vars
    <2>1. PptTypeOK'
        BY <1>1 DEF vars, IInv, PptTypeOK
    <2>2. RequestsOK' /\ OneWriter'
        BY <1>1 DEF vars, IInv, RequestsOK, RequestOK, OneWriter, RowKey
    <2>3. DecksOK'
        BY <1>1 DEF vars, IInv, DecksOK, RequestOf
    <2> QED BY <2>1, <2>2, <2>3 DEF IInv
<1>2. ASSUME NEW c \in Calls, Resend(c) PROVE IInv'
    BY <1>2, <1>t, GotoOK DEF Resend
<1>3. ASSUME NEW c \in Calls, Lookup(c) PROVE IInv'
    BY <1>3, FromRowOK DEF Lookup
<1>4. ASSUME NEW c \in Calls, Reserve(c) PROVE IInv'
    <2> DEFINE pc == IF rec[RowKey(call[c])] # NoRow THEN "reread"
                     ELSE IF Holders(RowKey(call[c])) = {} THEN "write" ELSE "wait"
    <2>1. Goto(c, pc) /\ call[c].pc = "reserve" /\ UNCHANGED <<rec, decks, told, faults>>
        BY <1>4 DEF Reserve
    <2>2. pc \in {"reread", "write", "wait"}
        OBVIOUS
    <2>3. /\ pc = "write" => /\ rec[RowKey(call[c])] = NoRow
                             /\ \A x \in Calls \ {c} : x \notin Holders(RowKey(call[c]))
          /\ pc = "reread" => rec[RowKey(call[c])] # NoRow
        OBVIOUS
    <2> HIDE DEF pc
    <2> QED BY <1>t, <2>1, <2>2, <2>3, GotoOK
<1>5. ASSUME NEW c \in Calls, Wake(c) PROVE IInv'
    BY <1>5, <1>t, GotoOK DEF Wake
<1>6. ASSUME NEW c \in Calls, SharedInsert(c) PROVE IInv'
    <2>1. rec[RowKey(call[c])] = NoRow
        BY <1>6 DEF SharedInsert, IInv, RequestsOK, RequestOK
    <2> QED BY <1>6, <1>t, <2>1, GotoOK DEF SharedInsert
<1>7. ASSUME NEW c \in Calls, Victim(c) PROVE IInv'
    BY <1>7, <1>t, GotoOK DEF Victim
<1>8. ASSUME NEW c \in Calls, Commit(c) PROVE IInv'
    BY <1>8, <1>t, CommitOK DEF Commit
<1>9. ASSUME NEW c \in Calls, CommitLost(c) PROVE IInv'
    BY <1>9, <1>t, CommitOK DEF CommitLost, Fault
<1>10. ASSUME NEW c \in Calls, Reread(c) PROVE IInv'
    <2>1. rec[RowKey(call[c])] # NoRow
        BY <1>10 DEF Reread, IInv, RequestsOK, RequestOK
    <2> QED BY <1>10, <2>1, FromRowOK DEF Reread
<1>11. ASSUME NEW c \in Calls, Fails(c) PROVE IInv'
    BY <1>11, <1>t, GotoOK DEF Fails, Fault
<1>12. ASSUME NEW c \in Calls, Reply(c) PROVE IInv'
    <2>1. RequestOK(call[c])
        BY DEF IInv, RequestsOK
    <2>2. [request |-> RequestOf(call[c]), payload |-> call[c].payload, answer |-> call[c].got]
              \in [request : Requests, payload : Payloads, answer : Nat]
        BY <1>12, <2>1 DEF Reply, RequestOK, CallStates, RequestOf, Requests
    <2> QED BY <1>12, <1>t, <2>2, GotoOK DEF Reply
<1> QED BY <1>1, <1>2, <1>3, <1>4, <1>5, <1>6, <1>7, <1>8, <1>9, <1>10, <1>11, <1>12, SendStep,
           RollbackOK DEF Next

LEMMA Invariance == Spec => []IInv
BY InitIInv, NextIInv, PTL DEF Spec

----------------------------------------------------------------------------
(* The refinement: the row of a key is the effect of its requests.         *)

\* What PptOnce sees of a key is what its row says.
LEMMA EffectIsRow ==
    ASSUME IInv, NEW r \in Requests
    PROVE  EffectOf(r) = IF rec[r] = NoRow THEN {} ELSE {[doc |-> rec[r].doc, payload |-> rec[r].payload]}
<1>1. CASE rec[r] = NoRow
    <2>1. ASSUME NEW d \in decks PROVE d.request # r
        <3>1. /\ d \in [doc : Nat, owner : Users, request : Requests, payload : Payloads]
              /\ rec[d.request] = [payload |-> d.payload, doc |-> d.doc]
            BY DEF IInv, DecksOK
        <3>2. rec[d.request].payload = d.payload /\ d.payload # NoOne /\ NoRow.payload = NoOne
            BY <3>1 DEF NoRow
        <3> QED BY <1>1, <3>2
    <2> QED BY <1>1, <2>1 DEF EffectOf
<1>2. CASE rec[r] # NoRow
    <2>1. PICK d \in decks : d.request = r
        BY <1>2 DEF IInv, DecksOK
    <2>2. ASSUME NEW e \in decks, e.request = r PROVE e.doc = rec[r].doc /\ e.payload = rec[r].payload
        <3>1. rec[e.request] = [payload |-> e.payload, doc |-> e.doc]
            BY DEF IInv, DecksOK
        <3> QED BY <2>2, <3>1
    <2>3. \A e \in {x \in decks : x.request = r} :
              [doc |-> e.doc, payload |-> e.payload] = [doc |-> rec[r].doc, payload |-> rec[r].payload]
        BY <2>2
    <2> QED BY <1>2, <2>1, <2>3 DEF EffectOf
<1> QED BY <1>1, <1>2

EffectsAreRows ==
    \A r \in Requests :
        EffectOf(r) = IF rec[r] = NoRow THEN {} ELSE {[doc |-> rec[r].doc, payload |-> rec[r].payload]}

LEMMA EffectsAreRowsNow == IInv => EffectsAreRows
BY EffectIsRow DEF EffectsAreRows

LEMMA EffectsAreRowsNext == IInv' => EffectsAreRows'
BY EffectsAreRowsNow, PTL

\* A step that leaves the rows and the decks alone and tells nobody is no step of PptOnce.
LEMMA OtherSteps ==
    ASSUME UNCHANGED <<decks, told>>
    PROVE  UNCHANGED Once!onceVars
BY DEF Once!onceVars, EffectOf

LEMMA InitOnce == Init => Once!OnceInit
BY DEF Init, Once!OnceInit, EffectOf

\* Reply gives the answer of its key's effect.
LEMMA ReplyAnswers ==
    ASSUME IInv, NEW c \in Calls, Reply(c)
    PROVE  Once!OnceNext
<1> DEFINE r == RequestOf(call[c])
           p == call[c].payload
           e == [doc |-> rec[r].doc, payload |-> rec[r].payload]
<1>1. /\ r \in Requests /\ p \in Payloads /\ rec[r] # NoRow /\ call[c].got = AnswerOf(rec[r], p)
    <2>1. RequestOK(call[c]) /\ call[c].pc = "answer"
        BY DEF IInv, RequestsOK, Reply
    <2> QED BY <2>1 DEF RequestOK, RequestOf, RowKey, Requests
<1>2. EffectOf(r) = {e}
    BY <1>1, EffectIsRow
<1>3. /\ told' = told \cup {[request |-> r, payload |-> p, answer |-> call[c].got]}
      /\ UNCHANGED decks
    BY DEF Reply
<1>4. call[c].got = IF e.payload = p THEN e.doc ELSE Conflict
    BY <1>1 DEF AnswerOf
<1> HIDE DEF r, p, e
<1>5. UNCHANGED [x \in Requests |-> EffectOf(x)]
    BY <1>3 DEF EffectOf
<1>6. [x \in Requests |-> EffectOf(x)][r] = {e}
    BY <1>1, <1>2
<1>7. Once!Answer(r, p)
    BY <1>3, <1>4, <1>5, <1>6 DEF Once!Answer
<1> QED BY <1>1, <1>7 DEF Once!OnceNext

\* A commit creates the one effect of its key, with a document nobody else has.
LEMMA CommitCreates ==
    ASSUME IInv, IInv', NEW c \in Calls, call[c].pc = "write",
           NEW pc \in {"answer", "failed"}, CommitAs(c, pc)
    PROVE  Once!OnceNext
<1> DEFINE r == RequestOf(call[c])
           p == call[c].payload
           n == Cardinality(decks) + 1
<1>1. r \in Requests /\ p \in Payloads /\ rec[r] = NoRow /\ rec \in [Requests -> [payload : Payloads \cup {NoOne}, doc : Nat]]
    <2>1. RequestOK(call[c])
        BY DEF IInv, RequestsOK
    <2> QED BY <2>1 DEF IInv, PptTypeOK, RequestOK, RequestOf, RowKey, Requests
<1>2. rec' = [rec EXCEPT ![r] = [payload |-> p, doc |-> n]] /\ UNCHANGED told
    BY DEF CommitAs, RowKey, RequestOf
<1>3. n \in 1..Cardinality(Calls) /\ Cardinality(decks) \in Nat
    BY NewDeck, FS_CardinalityType DEF IInv, DecksOK
<1> HIDE DEF r, p, n
<1>4. EffectOf(r) = {}
    BY <1>1, EffectIsRow
<1>5. ASSUME NEW x \in Requests
      PROVE  EffectOf(x)' = IF x = r THEN {[doc |-> n, payload |-> p]} ELSE EffectOf(x)
    <2>1. EffectOf(x)' = IF rec'[x] = NoRow THEN {} ELSE {[doc |-> rec'[x].doc, payload |-> rec'[x].payload]}
        BY EffectsAreRowsNext DEF EffectsAreRows
    <2>2. CASE x = r
        <3>1. rec'[x] = [payload |-> p, doc |-> n]
            BY <1>1, <1>2, <2>2
        <3>2. rec'[x] # NoRow
            BY <1>1, <3>1 DEF NoRow
        <3> QED BY <2>1, <2>2, <3>1, <3>2
    <2>3. CASE x # r
        <3>1. rec'[x] = rec[x]
            BY <1>1, <1>2, <2>3
        <3> QED BY <2>1, <2>3, <3>1, EffectIsRow
    <2> QED BY <2>2, <2>3
<1>6. ASSUME NEW x \in Requests, NEW e \in EffectOf(x) PROVE e.doc # n
    <2>1. PICK d \in decks : e = [doc |-> d.doc, payload |-> d.payload]
        BY <1>6 DEF EffectOf
    <2>2. d.doc \in 1..Cardinality(decks)
        BY DEF IInv, DecksOK
    <2> QED BY <1>3, <2>1, <2>2 DEF n
<1>7. Once!Create(r, p, n)
    <2> DEFINE E == [x \in Requests |-> EffectOf(x)]
    <2>1. E[r] = {} /\ \A x \in Requests : \A e \in E[x] : e.doc # n
        BY <1>1, <1>4, <1>6
    <2>2. E' = [E EXCEPT ![r] = {[doc |-> n, payload |-> p]}]
        BY <1>1, <1>5
    <2> HIDE DEF E
    <2> QED BY <1>2, <2>1, <2>2 DEF Once!Create, Once!Unused, E
<1> QED BY <1>1, <1>3, <1>7 DEF Once!OnceNext

\* Every step is a step of PptOnce or none.
LEMMA StepOnce ==
    ASSUME IInv, IInv', [Next]_vars
    PROVE  [Once!OnceNext]_Once!onceVars
<1>1. ASSUME NEW c \in Calls,
             \/ Send(c) \/ Resend(c) \/ Lookup(c) \/ Reserve(c) \/ Wake(c) \/ SharedInsert(c)
             \/ Victim(c) \/ Rollback(c) \/ Reread(c) \/ Fails(c)
      PROVE  UNCHANGED <<decks, told>>
    BY <1>1 DEF Send, Resend, Lookup, Reserve, Wake, SharedInsert, Victim, Rollback, Reread, Fails
<1>2. UNCHANGED vars => UNCHANGED <<decks, told>>
    BY DEF vars
<1>3. ASSUME NEW c \in Calls, Commit(c) \/ CommitLost(c) PROVE Once!OnceNext
    BY <1>3, CommitCreates DEF Commit, CommitLost
<1> QED BY <1>1, <1>2, <1>3, ReplyAnswers, OtherSteps DEF Next

----------------------------------------------------------------------------
(* The theorems.                                                           *)

\* The variables keep their types.
THEOREM TypeCorrect == Spec => []PptTypeOK
BY Invariance, PTL DEF IInv

\* A duplicate is reported of committed rows only, so the lookup that follows finds the
\* row and no caller is ever told that an identical create is in progress.
THEOREM AlwaysFinished == Spec => []NeverInProgress
<1>1. IInv => NeverInProgress
    BY DEF IInv, RequestsOK, RequestOK, NeverInProgress
<1> QED BY <1>1, Invariance, PTL

\* However retries, deadlocks, rollbacks and lost replies fall, a key takes effect once
\* and every answer is about that effect: docs.ts implements PptOnce.
THEOREM TakesEffectOnce == Spec => ImplementsOnce
<1>1. Init => Once!OnceInit
    BY InitOnce
<1>2. IInv /\ IInv' /\ [Next]_vars => [Once!OnceNext]_Once!onceVars
    BY StepOnce
<1> QED BY <1>1, <1>2, Invariance, PTL DEF Spec, ImplementsOnce, Once!OnceSpec
=============================================================================
