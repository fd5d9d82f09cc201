------------------------- MODULE CollabAccessProofs -------------------------
(***************************************************************************)
(* Proofs about CollabAccess, for any users, connections, nodes, requests  *)
(* and any number of bumps: the epoch versions the roles, and a writer     *)
(* nobody touches is left alone.                                           *)
(***************************************************************************)
EXTENDS CollabAccess, TLAPS

(***************************************************************************)
(* The inductive invariant. TokenExact and RecheckExact speak of the end   *)
(* of two reads made one after the other; what makes them true is what the *)
(* reader knows between the two: as long as the epoch it read with         *)
(* doc_meta is still the current one, that row has not changed.            *)
(***************************************************************************)

\* A writer whose membership no request changes, of a document that is there.
Sheltered(u) == live /\ u \notin Targets /\ InitRole[u] = "writer"

TokenStates == {"token", "auth", "open", "check"}

\* What is known of connection s in state c.
ClientOK(s, c) ==
    /\ c \in Clients
    /\ c.epoch <= epoch
    /\ c.member => user[s] \in SpaceMembers
    /\ c.st = "issuing" /\ c.epoch = epoch => live /\ c.scope = scope
    /\ c.st \in TokenStates => c.role # "none"
    /\ c.st \in TokenStates /\ c.epoch = epoch /\ ~Unsignalled(user[s])
           => c.role = CurrentRole(user[s], user[s] \in SpaceMembers)
    /\ c.st \in {"open", "check"} /\ c.role # "writer" => c.readOnly
    /\ Sheltered(user[s]) => /\ ~c.denied /\ c.st # "forbidden" /\ ~c.readOnly
                             /\ c.st \in TokenStates => c.role = "writer"

\* What is known of a recheck in flight for key k ...
ReadingOK(k, f) ==
    /\ f \in Readings
    /\ f.at <= epoch
    /\ f.pc = "role" /\ f.at = epoch => f.live = live /\ f.scope = scope
    /\ f.pc = "done" /\ f.at = epoch /\ ~Unsignalled(k[1]) => f.val = CurrentRole(k[1], k[2])
    /\ Sheltered(k[1]) => /\ f.pc = "role" => f.live
                          /\ f.pc = "done" => f.val = "writer"

\* ... and of its answer in the cache.
AnswerOK(k, v) ==
    /\ v \in {NoVal} \cup Answers
    /\ v # NoVal => /\ v.at <= epoch
                    /\ v.at = epoch /\ ~Unsignalled(k[1]) => v.val = CurrentRole(k[1], k[2])
                    /\ Sheltered(k[1]) => v.val = "writer"

\* Nobody writes the row of a user who is no target.
RowsOK == \A u \in Users : u \notin Targets => role[u] = InitRole[u]

ClientsInv == \A s \in Socks : ClientOK(s, sock[s])
ReadingsInv == \A n \in Nodes, k \in Keys : ReadingOK(k, reading[n][k])
AnswersInv == \A n \in Nodes, k \in Keys : AnswerOK(k, known[n][k])

IInv == TypeOK /\ RowsOK /\ ClientsInv /\ ReadingsInv /\ AnswersInv

USE MaxEpochAssumption, CollabAssumption

----------------------------------------------------------------------------
(* Roles.                                                                  *)

\* A writer is not made less by a share setting.
LEMMA EffectiveRole ==
    ASSUME NEW d \in Roles, NEW sc \in Scopes, NEW m \in BOOLEAN
    PROVE  /\ Effective(d, sc, m) \in Roles
           /\ d = "writer" => Effective(d, sc, m) = "writer"
BY DEF Effective, Higher, ShareRole, AtLeast, Rank, Roles

LEMMA HigherRole ==
    ASSUME NEW r \in Roles, NEW q \in Roles
    PROVE  Higher(r, q) \in Roles
BY DEF Higher

----------------------------------------------------------------------------
(* The initial state.                                                      *)

LEMMA InitIInv == Init => IInv
<1> SUFFICES ASSUME Init PROVE IInv
    OBVIOUS
<1> USE DEF Init, ViewInit
<1>1. TypeOK
    BY DEF TypeOK, ViewTypeOK, Roles, NoReading, Readings, Answers, Client, Clients
<1>2. RowsOK
    BY DEF RowsOK
<1>3. ClientsInv
    BY DEF ClientsInv, ClientOK, Client, Clients, TokenStates, Roles
<1>4. ReadingsInv
    <2>1. NoReading \in Readings /\ NoReading.pc = "none" /\ NoReading.at = 0
        BY DEF NoReading, Readings, Roles
    <2>2. \A n \in Nodes, k \in Keys : reading[n][k] = NoReading
        OBVIOUS
    <2>3. epoch = 0
        OBVIOUS
    <2> HIDE DEF Init
    <2>4. ASSUME NEW k PROVE ReadingOK(k, NoReading)
        BY <2>1, <2>3 DEF ReadingOK
    <2> QED BY <2>2, <2>4 DEF ReadingsInv
<1>5. AnswersInv
    BY DEF AnswersInv, AnswerOK, Keys
<1> QED BY <1>1, <1>2, <1>3, <1>4, <1>5 DEF IInv

----------------------------------------------------------------------------
(* Steps of the database. Either the epoch moves on, and nothing that is   *)
(* known is of the present epoch any more; or doc_meta stays as it is and  *)
(* only rows change whose change is still to be bumped.                    *)

Signalled ==
    \/ epoch' > epoch
    \/ /\ epoch' = epoch /\ live' = live /\ scope' = scope
       /\ \A u \in Users : ~Unsignalled(u)' => ~Unsignalled(u) /\ role'[u] = role[u]

LEMMA DatabaseStep ==
    ASSUME IInv, epoch' \in 0..MaxEpoch, Signalled, live' => live, UNCHANGED <<known, reading, sock, user>>
    PROVE  ClientsInv' /\ ReadingsInv' /\ AnswersInv'
<1>1. ASSUME NEW s \in Socks PROVE ClientOK(s, sock[s])'
    BY <1>1 DEF IInv, TypeOK, ViewTypeOK, ClientsInv, ClientOK, Clients, Signalled, Sheltered, CurrentRole
<1>2. ASSUME NEW n \in Nodes, NEW k \in Keys PROVE ReadingOK(k, reading[n][k])'
    BY <1>2 DEF IInv, TypeOK, ViewTypeOK, ReadingsInv, ReadingOK, Readings, Signalled, Sheltered, CurrentRole, Keys
<1>3. ASSUME NEW n \in Nodes, NEW k \in Keys PROVE AnswerOK(k, known[n][k])'
    BY <1>3 DEF IInv, TypeOK, ViewTypeOK, AnswersInv, AnswerOK, Answers, Signalled, Sheltered, CurrentRole, Keys
<1> QED BY <1>1, <1>2, <1>3 DEF ClientsInv, ReadingsInv, AnswersInv

LEMMA SameRows ==
    ASSUME IInv, UNCHANGED role
    PROVE  role' \in [Users -> Roles] /\ RowsOK'
BY DEF IInv, TypeOK, RowsOK

\* What is left of the invariant when the database and the roles are taken care of.
LEMMA DatabaseRest ==
    ASSUME IInv, epoch' \in 0..MaxEpoch, Signalled, live' \in BOOLEAN, live' => live,
           scope' \in Scopes, req' \in [Reqs -> Users \cup {NoVal}], unbumped' \subseteq Users,
           role' \in [Users -> Roles], RowsOK', UNCHANGED <<mark, known, reading, sock, user>>
    PROVE  IInv'
<1>1. ClientsInv' /\ ReadingsInv' /\ AnswersInv'
    BY DatabaseStep
<1> QED BY <1>1 DEF IInv, TypeOK, ViewTypeOK

\* A row written on its own is signalled by the request that is still to bump.
LEMMA WriteRowStep ==
    ASSUME IInv, NEW r \in Reqs, NEW u \in Users, NEW x \in Roles, WriteRow(r, u, x)
    PROVE  IInv'
<1> USE DEF WriteRow, nodeVars
<1>1. Signalled
    BY DEF Signalled, Unsignalled, IInv, TypeOK, ViewTypeOK
<1>2. RowsOK' /\ role' \in [Users -> Roles]
    BY DEF IInv, TypeOK, RowsOK
<1>3. /\ epoch' \in 0..MaxEpoch /\ live' \in BOOLEAN /\ scope' \in Scopes /\ (live' => live)
      /\ req' \in [Reqs -> Users \cup {NoVal}] /\ unbumped' \subseteq Users
    BY DEF IInv, TypeOK, ViewTypeOK
<1> QED BY <1>1, <1>2, <1>3, DatabaseRest

\* Every operation that changes a role.
LEMMA ChangeRoleStep == IInv /\ ChangeRole => IInv'
<1> SUFFICES ASSUME IInv, ChangeRole PROVE IInv'
    OBVIOUS
<1>t. /\ epoch \in 0..MaxEpoch /\ live \in BOOLEAN /\ scope \in Scopes
      /\ req \in [Reqs -> Users \cup {NoVal}] /\ unbumped \subseteq Users
      /\ role \in [Users -> Roles] /\ RowsOK
    BY DEF IInv, TypeOK, ViewTypeOK
<1>b. Bump => Signalled /\ epoch' \in 0..MaxEpoch
    BY <1>t DEF Bump, Signalled
<1>1. ASSUME NEW r \in Reqs, NEW u \in Users, NEW x \in Roles, PutMember(r, u, x) PROVE IInv'
    BY <1>1, WriteRowStep DEF PutMember
<1>2. ASSUME NEW r \in Reqs, NEW u \in Users, RemoveMember(r, u) PROVE IInv'
    <2>1. "none" \in Roles
        BY DEF Roles
    <2> QED BY <1>2, <2>1, WriteRowStep DEF RemoveMember
<1>3. ASSUME NEW r \in Reqs, NEW u \in Users, NEW x \in Roles, GrantMax(r, u, x) PROVE IInv'
    <2>1. Higher(role[u], x) \in Roles
        BY <1>t, HigherRole
    <2> QED BY <1>3, <2>1, WriteRowStep DEF GrantMax
<1>4. ASSUME NEW r \in Reqs, BumpAfter(r) PROVE IInv'
    <2>1. req' \in [Reqs -> Users \cup {NoVal}]
        BY <1>4, <1>t DEF BumpAfter
    <2> QED BY <1>4, <1>t, <1>b, <2>1, SameRows, DatabaseRest DEF BumpAfter, nodeVars
<1>5. ASSUME NEW r \in Reqs, CrashBeforeBump(r) PROVE IInv'
    <2>1. Signalled
        BY <1>5, <1>t DEF CrashBeforeBump, Signalled, Unsignalled
    <2>2. req' \in [Reqs -> Users \cup {NoVal}] /\ unbumped' \subseteq Users
        BY <1>5, <1>t DEF CrashBeforeBump
    <2> QED BY <1>5, <1>t, <2>1, <2>2, SameRows, DatabaseRest DEF CrashBeforeBump, nodeVars
<1>6. ASSUME NEW u \in Users, NEW x \in Roles, AcceptInvite(u, x) PROVE IInv'
    <2>1. RowsOK' /\ role' \in [Users -> Roles]
        BY <1>6, <1>t DEF AcceptInvite, RowsOK
    <2> QED BY <1>6, <1>t, <1>b, <2>1, DatabaseRest DEF AcceptInvite, nodeVars
<1>7. ASSUME NEW sc \in Scopes, SetShareSettings(sc) PROVE IInv'
    BY <1>7, <1>t, <1>b, SameRows, DatabaseRest DEF SetShareSettings, nodeVars
<1>8. ASSUME SoftDelete PROVE IInv'
    BY <1>8, <1>t, <1>b, SameRows, DatabaseRest DEF SoftDelete, nodeVars
<1> QED BY <1>1, <1>2, <1>3, <1>4, <1>5, <1>6, <1>7, <1>8 DEF ChangeRole

----------------------------------------------------------------------------
(* Steps of the clients and of the nodes, which leave the database alone.  *)

DatabaseSame == UNCHANGED <<epoch, role, scope, live, req, unbumped, user>>

LEMMA ClientsRest ==
    ASSUME IInv, DatabaseSame, \A s \in Socks : ClientOK(s, sock'[s]), DOMAIN sock' = Socks,
           sock' = [s \in Socks |-> sock'[s]]
    PROVE  sock' \in [Socks -> Clients] /\ ClientsInv'
<1>1. ASSUME NEW s \in Socks PROVE ClientOK(s, sock[s])'
    BY <1>1 DEF DatabaseSame, ClientOK, Sheltered, Unsignalled, CurrentRole
<1> QED BY <1>1 DEF ClientsInv, ClientOK

LEMMA ReadingsRest ==
    ASSUME IInv, DatabaseSame, reading' \in [Nodes -> [Keys -> Readings]],
           \A n \in Nodes, k \in Keys : ReadingOK(k, reading'[n][k])
    PROVE  ReadingsInv'
<1>1. ASSUME NEW n \in Nodes, NEW k \in Keys PROVE ReadingOK(k, reading[n][k])'
    BY <1>1 DEF DatabaseSame, ReadingOK, Sheltered, Unsignalled, CurrentRole
<1> QED BY <1>1 DEF ReadingsInv

LEMMA AnswersRest ==
    ASSUME IInv, DatabaseSame, known' \in [Nodes -> [Keys -> {NoVal} \cup Answers]],
           \A n \in Nodes, k \in Keys : AnswerOK(k, known'[n][k])
    PROVE  AnswersInv'
<1>1. ASSUME NEW n \in Nodes, NEW k \in Keys PROVE AnswerOK(k, known[n][k])'
    BY <1>1 DEF DatabaseSame, AnswerOK, Sheltered, Unsignalled, CurrentRole
<1> QED BY <1>1 DEF AnswersInv

\* The invariant, record by record, after a step that leaves the database alone.
LEMMA NodeRest ==
    ASSUME IInv, DatabaseSame, mark' \in [Nodes -> 0..MaxEpoch],
           sock' = [s \in Socks |-> sock'[s]], \A s \in Socks : ClientOK(s, sock'[s]),
           reading' \in [Nodes -> [Keys -> Readings]],
           \A n \in Nodes, k \in Keys : ReadingOK(k, reading'[n][k]),
           known' \in [Nodes -> [Keys -> {NoVal} \cup Answers]],
           \A n \in Nodes, k \in Keys : AnswerOK(k, known'[n][k])
    PROVE  IInv'
<1>1. sock' \in [Socks -> Clients] /\ ClientsInv'
    BY ClientsRest
<1>2. ReadingsInv' /\ AnswersInv'
    BY ReadingsRest, AnswersRest
<1>3. RowsOK'
    BY DEF IInv, RowsOK, DatabaseSame
<1> QED BY <1>1, <1>2, <1>3 DEF IInv, TypeOK, ViewTypeOK, DatabaseSame

\* What a step that touches only one client has to show.
LEMMA OneClient ==
    ASSUME IInv, DatabaseSame, mark' \in [Nodes -> 0..MaxEpoch], UNCHANGED nodeVars,
           NEW s \in Socks, NEW c, ClientOK(s, c), sock' = [sock EXCEPT ![s] = c]
    PROVE  IInv'
<1>1. \A x \in Socks : ClientOK(x, sock'[x])
    BY DEF IInv, TypeOK, ClientsInv
<1>2. sock' = [x \in Socks |-> sock'[x]]
    BY DEF IInv, TypeOK
<1>3. /\ reading' \in [Nodes -> [Keys -> Readings]]
      /\ known' \in [Nodes -> [Keys -> {NoVal} \cup Answers]]
      /\ \A n \in Nodes, k \in Keys : ReadingOK(k, reading'[n][k]) /\ AnswerOK(k, known'[n][k])
    BY DEF nodeVars, IInv, TypeOK, ReadingsInv, AnswersInv
<1> QED BY <1>1, <1>2, <1>3, NodeRest

----------------------------------------------------------------------------
(* Clients.                                                                *)

\* The records of clients, one field at a time.
LEMMA FreshFields ==
    ASSUME NEW st \in {"idle", "issuing", "token", "forbidden"}
    PROVE  Client(st) \in Clients
BY DEF Client, Clients, Roles

LEMMA SetState ==
    ASSUME NEW c \in Clients,
           NEW st \in {"idle", "issuing", "token", "auth", "open", "check", "forbidden"}
    PROVE  [c EXCEPT !.st = st] \in Clients
BY DEF Clients

LEMMA SetEpoch ==
    ASSUME NEW c \in Clients, NEW e \in 0..MaxEpoch
    PROVE  /\ [c EXCEPT !.epoch = e] \in Clients
           /\ [c EXCEPT !.ctx = e] \in Clients /\ [c EXCEPT !.wm = e] \in Clients
BY DEF Clients

LEMMA SetFlag ==
    ASSUME NEW c \in Clients, NEW b \in BOOLEAN
    PROVE  /\ [c EXCEPT !.member = b] \in Clients
           /\ [c EXCEPT !.denied = b] \in Clients /\ [c EXCEPT !.readOnly = b] \in Clients
BY DEF Clients

LEMMA SetRole ==
    ASSUME NEW c \in Clients, NEW r \in Roles, NEW sc \in Scopes
    PROVE  [c EXCEPT !.role = r] \in Clients /\ [c EXCEPT !.scope = sc] \in Clients
BY DEF Clients

LEMMA ClientFields ==
    ASSUME NEW c \in Clients
    PROVE  /\ DOMAIN c = {"st", "role", "epoch", "member", "scope", "ctx", "readOnly", "denied", "wm"}
           /\ c.role \in Roles /\ c.scope \in Scopes /\ c.member \in BOOLEAN
           /\ c.epoch \in 0..MaxEpoch /\ c.wm \in 0..MaxEpoch /\ 0 \in 0..MaxEpoch
BY DEF Clients

\* A client with neither token nor connection is always in order, but a sheltered
\* writer's is never sent away for good.
LEMMA FreshClient ==
    ASSUME IInv, NEW s \in Socks, NEW st \in {"idle", "forbidden"},
           st = "forbidden" => ~Sheltered(user[s])
    PROVE  ClientOK(s, Client(st))
<1>1. Client(st) \in Clients
    BY FreshFields
<1>2. /\ Client(st).st = st /\ Client(st).epoch = 0 /\ ~Client(st).member
      /\ ~Client(st).denied /\ ~Client(st).readOnly
    BY DEF Client
<1>3. 0 <= epoch
    BY DEF IInv, TypeOK, ViewTypeOK
<1> QED BY <1>1, <1>2, <1>3 DEF ClientOK, TokenStates

\* A client keeps what its token says through every state of its connection ...
LEMMA SameToken ==
    ASSUME IInv, NEW s \in Socks, NEW c, NEW d \in Clients, ClientOK(s, c),
           c.st \in TokenStates, d.st \in TokenStates,
           d.role = c.role, d.epoch = c.epoch, d.member = c.member,
           d.st \in {"open", "check"} /\ d.role # "writer" => d.readOnly,
           Sheltered(user[s]) => ~d.denied /\ ~d.readOnly
    PROVE  ClientOK(s, d)
<1>1. d.st # "issuing" /\ d.st # "forbidden"
    BY DEF TokenStates
<1>2. d.epoch <= epoch /\ (d.member => user[s] \in SpaceMembers) /\ d.role # "none"
    BY DEF ClientOK
<1>3. d.epoch = epoch /\ ~Unsignalled(user[s]) => d.role = CurrentRole(user[s], user[s] \in SpaceMembers)
    BY DEF ClientOK
<1>4. Sheltered(user[s]) => d.role = "writer"
    BY DEF ClientOK
<1> QED BY <1>1, <1>2, <1>3, <1>4 DEF ClientOK

\* ... and the token outlives it.
LEMMA TokenRemains ==
    ASSUME IInv, NEW s \in Socks, NEW c, ClientOK(s, c), c.st \in TokenStates
    PROVE  ClientOK(s, TokenOnly(c))
<1> DEFINE d == TokenOnly(c)
<1>1. c \in Clients
    BY DEF ClientOK
<1>2. d \in Clients
    BY <1>1, ClientFields, FreshFields, SetRole, SetEpoch, SetFlag DEF TokenOnly
<1>3. DOMAIN Client("token") = {"st", "role", "epoch", "member", "scope", "ctx", "readOnly", "denied", "wm"}
    BY DEF Client
<1>4. d.st = "token" /\ ~d.denied /\ ~d.readOnly
    BY <1>3 DEF TokenOnly, Client
<1>5. d.role = c.role /\ d.epoch = c.epoch /\ d.member = c.member
    BY <1>3 DEF TokenOnly
<1> HIDE DEF d
<1>6. ClientOK(s, d)
    BY <1>2, <1>4, <1>5, SameToken DEF TokenStates
<1> QED BY <1>6 DEF d

\* What authenticate and beforeHandleMessage make of an answer, which is that of a
\* writer when its user is sheltered.
LEMMA AfterOK ==
    ASSUME IInv, NEW s \in Socks, NEW c, ClientOK(s, c), c.st \in {"auth", "check"},
           NEW r \in Roles, Sheltered(user[s]) => r = "writer"
    PROVE  ClientOK(s, After(c, r))
<1>f. c \in Clients
    BY DEF ClientOK
<1>1. CASE c.st = "auth"
    <2>1. r = "none" => ~Sheltered(user[s])
        OBVIOUS
    <2> QED BY <1>1, <2>1, FreshClient DEF After, AfterAuth
<1>2. CASE c.st = "check" /\ AtLeast(r, "writer")
    <2> DEFINE d == [c EXCEPT !.st = "open", !.ctx = c.wm, !.wm = 0, !.denied = FALSE]
    <2>1. After(c, r) = d
        BY <1>2 DEF After, AfterCheck
    <2>2. d \in Clients
        BY <1>f, ClientFields, SetState, SetEpoch, SetFlag
    <2>3. d.st = "open" /\ ~d.denied /\ d.readOnly = c.readOnly
        BY <1>f, ClientFields
    <2>4. d.role = c.role /\ d.epoch = c.epoch /\ d.member = c.member
        BY <1>f, ClientFields
    <2> HIDE DEF d
    <2>5. /\ c.role # "writer" => c.readOnly
          /\ Sheltered(user[s]) => ~c.readOnly
        BY <1>2 DEF ClientOK
    <2>6. ClientOK(s, d)
        BY <1>2, <2>2, <2>3, <2>4, <2>5, SameToken DEF TokenStates
    <2> QED BY <2>1, <2>6
<1>3. CASE c.st = "check" /\ ~AtLeast(r, "writer")
    <2> DEFINE d == [c EXCEPT !.st = "open", !.readOnly = TRUE, !.wm = 0, !.denied = TRUE]
    <2>1. After(c, r) = d
        BY <1>3 DEF After, AfterCheck
    <2>2. d \in Clients
        BY <1>f, ClientFields, SetState, SetEpoch, SetFlag
    <2>3. d.st = "open" /\ d.readOnly
        BY <1>f, ClientFields
    <2>4. d.role = c.role /\ d.epoch = c.epoch /\ d.member = c.member
        BY <1>f, ClientFields
    <2> HIDE DEF d
    <2>5. ~Sheltered(user[s])
        BY <1>3 DEF AtLeast, Rank
    <2>6. ClientOK(s, d)
        BY <1>3, <2>2, <2>3, <2>4, <2>5, SameToken DEF TokenStates
    <2> QED BY <2>1, <2>6
<1> QED BY <1>1, <1>2, <1>3

\* The key a client's role is asked under is one of the cache's.
LEMMA KeyOfClient ==
    ASSUME IInv, NEW s \in Socks
    PROVE  KeyOf(s) \in Keys /\ KeyOf(s)[1] = user[s] /\ NodeOf[s] \in Nodes
<1>1. user[s] \in Users /\ NodeOf[s] \in Nodes
    BY DEF IInv, TypeOK
<1>2. sock[s] \in Clients /\ (sock[s].member => user[s] \in SpaceMembers)
    BY DEF IInv, ClientsInv, ClientOK
<1>3. sock[s].member \in BOOLEAN
    BY <1>2, ClientFields
<1> QED BY <1>1, <1>2, <1>3 DEF KeyOf, Keys

\* Replacing one reading by another that is in order keeps all of them in order.
LEMMA ReadingUpdate ==
    ASSUME IInv, NEW n \in Nodes, NEW k \in Keys, NEW f, ReadingOK(k, f),
           reading' = [reading EXCEPT ![n][k] = f]
    PROVE  /\ reading' \in [Nodes -> [Keys -> Readings]]
           /\ \A m \in Nodes, j \in Keys : ReadingOK(j, reading'[m][j])
<1>1. f \in Readings
    BY DEF ReadingOK
<1>2. reading' \in [Nodes -> [Keys -> Readings]]
    BY <1>1 DEF IInv, TypeOK
<1>3. ASSUME NEW m \in Nodes, NEW j \in Keys PROVE ReadingOK(j, reading'[m][j])
    <2>1. reading'[m][j] = IF m = n /\ j = k THEN f ELSE reading[m][j]
        BY DEF IInv, TypeOK
    <2>2. ReadingOK(j, reading[m][j])
        BY DEF IInv, ReadingsInv
    <2> QED BY <2>1, <2>2
<1> QED BY <1>2, <1>3

\* Asking for the role, whether the cache answers or the flight has to be awaited.
LEMMA RecheckOK ==
    ASSUME IInv, DatabaseSame, UNCHANGED <<mark, known>>, NEW s \in Socks, NEW c,
           ClientOK(s, c), c.st \in {"auth", "check"}, Recheck(s, c)
    PROVE  IInv'
<1> DEFINE n == NodeOf[s]
           k == KeyOf(s)
<1>1. n \in Nodes /\ k \in Keys /\ k[1] = user[s]
    BY KeyOfClient
<1>2. mark' \in [Nodes -> 0..MaxEpoch]
    BY DEF IInv, TypeOK, ViewTypeOK
<1>3. CASE known[n][k] # NoVal
    <2>1. sock' = [sock EXCEPT ![s] = After(c, known[n][k].val)] /\ UNCHANGED nodeVars
        BY <1>3 DEF Recheck, nodeVars
    <2>2. AnswerOK(k, known[n][k])
        BY <1>1 DEF IInv, AnswersInv
    <2>3. known[n][k].val \in Roles /\ (Sheltered(user[s]) => known[n][k].val = "writer")
        BY <1>1, <1>3, <2>2 DEF AnswerOK, Answers
    <2>4. ClientOK(s, After(c, known[n][k].val))
        BY <2>3, AfterOK
    <2> HIDE DEF n, k
    <2> QED BY <1>2, <2>1, <2>4, OneClient
<1>4. CASE known[n][k] = NoVal
    <2>1. /\ sock' = [sock EXCEPT ![s] = c]
          /\ reading' = [reading EXCEPT ![n][k].pc = IF @ = "none" THEN "meta" ELSE @]
        BY <1>4 DEF Recheck
    <2>2. \A x \in Socks : ClientOK(x, sock'[x])
        BY <2>1 DEF IInv, TypeOK, ClientsInv
    <2>3. sock' = [x \in Socks |-> sock'[x]]
        BY <2>1 DEF IInv, TypeOK
    <2>4. ReadingOK(k, reading[n][k]) /\ reading \in [Nodes -> [Keys -> Readings]]
        BY <1>1 DEF IInv, TypeOK, ReadingsInv
    <2>5. ReadingOK(k, [reading[n][k] EXCEPT !.pc = IF @ = "none" THEN "meta" ELSE @])
        BY <2>4 DEF ReadingOK, Readings
    <2> HIDE DEF n, k
    <2>6. reading' = [reading EXCEPT ![n][k] =
                          [reading[n][k] EXCEPT !.pc = IF @ = "none" THEN "meta" ELSE @]]
        BY <2>1, <2>4, <1>1
    <2>7. /\ reading' \in [Nodes -> [Keys -> Readings]]
          /\ \A m \in Nodes, j \in Keys : ReadingOK(j, reading'[m][j])
        BY <1>1, <2>4, <2>5, <2>6, ReadingUpdate
    <2>8. /\ known' \in [Nodes -> [Keys -> {NoVal} \cup Answers]]
          /\ \A m \in Nodes, j \in Keys : AnswerOK(j, known'[m][j])
        BY DEF IInv, TypeOK, AnswersInv
    <2> QED BY <1>2, <2>2, <2>3, <2>7, <2>8, NodeRest
<1> QED BY <1>3, <1>4

\* The issuing of a token, its use and its end.
LEMMA ClientStep ==
    ASSUME IInv, NEW s \in Socks,
           \/ IssueReadMeta(s) \/ IssueReadRole(s) \/ DropToken(s)
           \/ Authenticate(s) \/ StaleMessage(s) \/ Disconnect(s)
    PROVE  IInv'
<1> USE DEF dbVars
<1>t. /\ ClientOK(s, sock[s]) /\ sock[s] \in Clients
      /\ user[s] \in Users /\ role \in [Users -> Roles]
      /\ epoch \in 0..MaxEpoch /\ live \in BOOLEAN /\ scope \in Scopes
      /\ mark \in [Nodes -> 0..MaxEpoch] /\ RowsOK
    BY DEF IInv, TypeOK, ViewTypeOK, ClientsInv, ClientOK
<1>1. CASE IssueReadMeta(s)
    <2> DEFINE c == [Client("issuing") EXCEPT !.epoch = epoch, !.scope = scope]
    <2>1. c \in Clients
        BY <1>t, FreshFields, SetEpoch, SetRole
    <2>2. DOMAIN Client("issuing") = {"st", "role", "epoch", "member", "scope", "ctx", "readOnly", "denied", "wm"}
        BY DEF Client
    <2>3. /\ c.st = "issuing" /\ c.epoch = epoch /\ c.scope = scope
          /\ ~c.member /\ ~c.denied /\ ~c.readOnly
        BY <2>2 DEF Client
    <2> HIDE DEF c
    <2>4. live
        BY <1>1 DEF IssueReadMeta
    <2>5. ClientOK(s, c)
        BY <1>t, <2>1, <2>3, <2>4 DEF ClientOK, TokenStates
    <2>6. sock' = [sock EXCEPT ![s] = c] /\ DatabaseSame /\ UNCHANGED <<mark, nodeVars>>
        BY <1>1 DEF IssueReadMeta, DatabaseSame, c
    <2> QED BY <1>t, <2>5, <2>6, OneClient
<1>2. CASE IssueReadRole(s)
    <2> DEFINE member == sock[s].scope # "restricted" /\ user[s] \in SpaceMembers
               r == Effective(role[user[s]], sock[s].scope, member)
               c == [Client("token") EXCEPT !.role = r, !.epoch = sock[s].epoch, !.member = member]
    <2>f. sock[s].scope \in Scopes /\ sock[s].epoch \in 0..MaxEpoch /\ role[user[s]] \in Roles
        BY <1>t, ClientFields
    <2>1. r \in Roles /\ (role[user[s]] = "writer" => r = "writer")
        BY <2>f, EffectiveRole
    <2>2. member \in BOOLEAN /\ (member => user[s] \in SpaceMembers)
        OBVIOUS
    <2>3. r = Effective(role[user[s]], sock[s].scope, user[s] \in SpaceMembers)
        BY DEF Effective, ShareRole
    <2> HIDE DEF r, member
    <2>4. c \in Clients
        BY <2>f, <2>1, <2>2, FreshFields, SetEpoch, SetRole, SetFlag
    <2>5. DOMAIN Client("token") = {"st", "role", "epoch", "member", "scope", "ctx", "readOnly", "denied", "wm"}
        BY DEF Client
    <2>6. /\ c.st = "token" /\ c.epoch = sock[s].epoch /\ c.role = r /\ c.member = member
          /\ ~c.denied /\ ~c.readOnly
        BY <2>5 DEF Client
    <2> HIDE DEF c
    <2>7. sock[s].st = "issuing" /\ DatabaseSame /\ UNCHANGED <<mark, nodeVars>>
        BY <1>2 DEF IssueReadRole, DatabaseSame
    <2>8. c.epoch <= epoch /\ (c.epoch = epoch => live /\ sock[s].scope = scope)
        BY <1>t, <2>6, <2>7 DEF ClientOK
    <2>9. Sheltered(user[s]) => r = "writer"
        BY <1>t, <2>1 DEF Sheltered, RowsOK
    <2>10. ASSUME r # "none" PROVE ClientOK(s, c)
        BY <2>10, <2>2, <2>3, <2>4, <2>6, <2>8, <2>9 DEF ClientOK, TokenStates, CurrentRole
    <2>11. sock' = [sock EXCEPT ![s] = IF r = "none" THEN Client("idle") ELSE c]
        BY <1>2 DEF IssueReadRole, r, member, c
    <2>12. ClientOK(s, IF r = "none" THEN Client("idle") ELSE c)
        BY <2>10, FreshClient
    <2> QED BY <1>t, <2>7, <2>11, <2>12, OneClient
<1>3. CASE DropToken(s)
    <2>1. ClientOK(s, Client("idle"))
        BY FreshClient
    <2> QED BY <1>3, <1>t, <2>1, OneClient DEF DropToken, DatabaseSame
<1>4. ASSUME NEW e \in 0..epoch, Connect(s, e) PROVE IInv'
    <2> DEFINE c == sock[s]
    <2>1. c.st = "token"
        BY <1>4 DEF Connect
    <2>2. CASE c.epoch < e
        <3> DEFINE d == [c EXCEPT !.st = "auth"]
        <3>1. d \in Clients
            BY <1>t, SetState
        <3>2. d.st = "auth" /\ d.denied = c.denied /\ d.readOnly = c.readOnly
            BY <1>t, ClientFields
        <3>3. d.role = c.role /\ d.epoch = c.epoch /\ d.member = c.member
            BY <1>t, ClientFields
        <3> HIDE DEF d
        <3>4. Sheltered(user[s]) => ~c.denied /\ ~c.readOnly
            BY <1>t DEF ClientOK
        <3>5. ClientOK(s, d)
            BY <1>t, <2>1, <3>1, <3>2, <3>3, <3>4, SameToken DEF TokenStates
        <3>6. Recheck(s, d) /\ DatabaseSame /\ UNCHANGED <<mark, known>>
            BY <1>4, <2>2 DEF Connect, DatabaseSame, d
        <3> QED BY <3>2, <3>5, <3>6, RecheckOK
    <2>3. CASE ~(c.epoch < e)
        <3> DEFINE d == [c EXCEPT !.st = "open", !.ctx = c.epoch, !.readOnly = (c.role = "reader")]
        <3>1. d \in Clients
            BY <1>t, ClientFields, SetState, SetEpoch, SetFlag
        <3>2. d.st = "open" /\ d.denied = c.denied /\ d.readOnly = (c.role = "reader")
            BY <1>t, ClientFields
        <3>3. d.role = c.role /\ d.epoch = c.epoch /\ d.member = c.member
            BY <1>t, ClientFields
        <3> HIDE DEF d
        <3>4. /\ c.role \in Roles \ {"none"}
              /\ Sheltered(user[s]) => ~c.denied /\ c.role = "writer"
            BY <1>t, <2>1, ClientFields DEF ClientOK, TokenStates
        <3>5. ClientOK(s, d)
            BY <1>t, <2>1, <3>1, <3>2, <3>3, <3>4, SameToken DEF TokenStates, Roles
        <3>6. /\ sock' = [sock EXCEPT ![s] = d] /\ DatabaseSame /\ UNCHANGED nodeVars
              /\ Raise(NodeOf[s], c.epoch)
            BY <1>4, <2>3 DEF Connect, DatabaseSame, nodeVars, d
        <3>7. mark' \in [Nodes -> 0..MaxEpoch]
            BY <1>t, <3>6, ClientFields DEF Raise
        <3> QED BY <3>5, <3>6, <3>7, OneClient
    <2> QED BY <2>2, <2>3
<1>5. CASE StaleMessage(s)
    <2> DEFINE c == sock[s]
               w == mark[NodeOf[s]]
               d == [c EXCEPT !.st = "check", !.wm = w]
    <2>1. c.st = "open" /\ Recheck(s, d) /\ DatabaseSame /\ UNCHANGED <<mark, known>>
        BY <1>5 DEF StaleMessage, DatabaseSame
    <2>2. w \in 0..MaxEpoch
        BY <1>t, KeyOfClient
    <2> HIDE DEF w
    <2>3. d \in Clients
        BY <1>t, <2>2, SetState, SetEpoch
    <2>4. d.st = "check" /\ d.denied = c.denied /\ d.readOnly = c.readOnly
        BY <1>t, ClientFields
    <2>5. d.role = c.role /\ d.epoch = c.epoch /\ d.member = c.member
        BY <1>t, ClientFields
    <2> HIDE DEF d
    <2>6. /\ c.role # "writer" => c.readOnly
          /\ Sheltered(user[s]) => ~c.denied /\ ~c.readOnly
        BY <1>t, <2>1 DEF ClientOK
    <2>7. ClientOK(s, d)
        BY <1>t, <2>1, <2>3, <2>4, <2>5, <2>6, SameToken DEF TokenStates
    <2> QED BY <2>1, <2>4, <2>7, RecheckOK
<1>6. CASE Disconnect(s)
    <2>1. sock' = [sock EXCEPT ![s] = TokenOnly(sock[s])] /\ sock[s].st = "open"
        BY <1>6, <1>t DEF Disconnect
    <2>2. ClientOK(s, TokenOnly(sock[s]))
        BY <1>t, <2>1, TokenRemains DEF TokenStates
    <2> QED BY <1>6, <1>t, <2>1, <2>2, OneClient DEF Disconnect, DatabaseSame
<1> QED BY <1>1, <1>2, <1>3, <1>4, <1>5, <1>6 DEF Authenticate

----------------------------------------------------------------------------
(* Nodes.                                                                  *)

\* The readings and the answers a step leaves alone are in order.
LEMMA KnownSame ==
    ASSUME IInv, UNCHANGED known
    PROVE  /\ known' \in [Nodes -> [Keys -> {NoVal} \cup Answers]]
           /\ \A n \in Nodes, k \in Keys : AnswerOK(k, known'[n][k])
BY DEF IInv, TypeOK, AnswersInv

LEMMA SockSame ==
    ASSUME IInv, UNCHANGED sock
    PROVE  sock' = [s \in Socks |-> sock'[s]] /\ \A s \in Socks : ClientOK(s, sock'[s])
BY DEF IInv, TypeOK, ClientsInv

LEMMA ReadingSame ==
    ASSUME IInv, UNCHANGED reading
    PROVE  /\ reading' \in [Nodes -> [Keys -> Readings]]
           /\ \A n \in Nodes, k \in Keys : ReadingOK(k, reading'[n][k])
BY DEF IInv, TypeOK, ReadingsInv

\* Replacing one answer by another that is in order.
LEMMA AnswerUpdate ==
    ASSUME IInv, NEW n \in Nodes, NEW k \in Keys, NEW v, AnswerOK(k, v),
           known' = [known EXCEPT ![n][k] = v]
    PROVE  /\ known' \in [Nodes -> [Keys -> {NoVal} \cup Answers]]
           /\ \A m \in Nodes, j \in Keys : AnswerOK(j, known'[m][j])
<1>1. v \in {NoVal} \cup Answers
    BY DEF AnswerOK
<1>2. known' \in [Nodes -> [Keys -> {NoVal} \cup Answers]]
    BY <1>1 DEF IInv, TypeOK
<1>3. ASSUME NEW m \in Nodes, NEW j \in Keys PROVE AnswerOK(j, known'[m][j])
    <2>1. known'[m][j] = IF m = n /\ j = k THEN v ELSE known[m][j]
        BY DEF IInv, TypeOK
    <2>2. AnswerOK(j, known[m][j])
        BY DEF IInv, AnswersInv
    <2> QED BY <2>1, <2>2
<1> QED BY <1>2, <1>3

\* No reading in progress is in order for every key.
LEMMA NoReadingOK ==
    ASSUME IInv, NEW k \in Keys
    PROVE  ReadingOK(k, NoReading)
<1>1. NoReading \in Readings /\ NoReading.pc = "none" /\ NoReading.at = 0
    BY DEF NoReading, Readings, Roles
<1>2. 0 <= epoch
    BY DEF IInv, TypeOK, ViewTypeOK
<1> QED BY <1>1, <1>2 DEF ReadingOK

\* A recheck reads doc_meta, then doc_member, then answers; it may fail on the way.
LEMMA FlightStepOK ==
    ASSUME IInv, NEW n \in Nodes, NEW k \in Keys,
           FlightStep(n, k) \/ FlightFails(n, k) \/ KnownExpires(n, k)
    PROVE  IInv'
<1> DEFINE f == reading[n][k]
<1> USE DEF dbVars
<1>t. /\ ReadingOK(k, f) /\ f \in Readings
      /\ epoch \in 0..MaxEpoch /\ live \in BOOLEAN /\ scope \in Scopes
      /\ role \in [Users -> Roles] /\ k[1] \in Users /\ k[2] \in BOOLEAN /\ RowsOK
      /\ mark \in [Nodes -> 0..MaxEpoch]
    BY DEF IInv, TypeOK, ViewTypeOK, ReadingsInv, ReadingOK, Keys
<1>s. \A s \in Socks : ClientOK(s, sock[s]) /\ user[s] \in Users
    BY DEF IInv, TypeOK, ClientsInv
<1>1. CASE FlightMeta(n, k)
    <2> DEFINE g == [pc |-> "role", live |-> live, scope |-> scope, val |-> "none", at |-> epoch]
    <2>1. ReadingOK(k, g)
        BY <1>t DEF ReadingOK, Readings, Roles, Sheltered
    <2>2. reading' = [reading EXCEPT ![n][k] = g] /\ DatabaseSame /\ UNCHANGED <<mark, known, sock>>
        BY <1>1 DEF FlightMeta, DatabaseSame
    <2> HIDE DEF g
    <2> QED BY <1>t, <2>1, <2>2, ReadingUpdate, KnownSame, SockSame, NodeRest
<1>2. CASE FlightRole(n, k)
    <2> DEFINE v == IF f.live THEN Effective(role[k[1]], f.scope, k[2]) ELSE "none"
               g == [NoReading EXCEPT !.pc = "done", !.at = f.at, !.val = v]
    <2>1. f.pc = "role" /\ reading' = [reading EXCEPT ![n][k] = g]
          /\ DatabaseSame /\ UNCHANGED <<mark, known, sock>>
        BY <1>2 DEF FlightRole, DatabaseSame
    <2>2. f.scope \in Scopes /\ f.live \in BOOLEAN /\ f.at \in 0..MaxEpoch
        BY <1>t DEF Readings
    <2>3. v \in Roles
        BY <1>t, <2>2, EffectiveRole DEF Roles
    <2>4. f.at = epoch => v = CurrentRole(k[1], k[2])
        BY <1>t, <2>1 DEF ReadingOK, CurrentRole
    <2>5. Sheltered(k[1]) => v = "writer"
        BY <1>t, <2>1, <2>2, EffectiveRole DEF ReadingOK, Sheltered, RowsOK
    <2> HIDE DEF v
    <2>6. g \in Readings /\ g.pc = "done" /\ g.at = f.at /\ g.val = v
        BY <2>2, <2>3 DEF Readings, NoReading
    <2>7. f.at <= epoch
        BY <1>t DEF ReadingOK
    <2> HIDE DEF g
    <2>8. ReadingOK(k, g)
        BY <2>4, <2>5, <2>6, <2>7 DEF ReadingOK
    <2> QED BY <1>t, <2>1, <2>8, ReadingUpdate, KnownSame, SockSame, NodeRest
<1>3. CASE FlightDone(n, k)
    <2> DEFINE v == [val |-> f.val, at |-> f.at]
    <2>1. /\ f.pc = "done"
          /\ known' = [known EXCEPT ![n][k] = v] /\ reading' = [reading EXCEPT ![n][k] = NoReading]
          /\ sock' = [s \in Socks |-> IF s \in Waiting(n, k) THEN After(sock[s], f.val) ELSE sock[s]]
          /\ DatabaseSame /\ UNCHANGED mark
        BY <1>3 DEF FlightDone, DatabaseSame
    <2>2. f.val \in Roles /\ f.at \in 0..MaxEpoch /\ (Sheltered(k[1]) => f.val = "writer")
        BY <1>t, <2>1 DEF ReadingOK, Readings
    <2>3. AnswerOK(k, v)
        BY <1>t, <2>1, <2>2 DEF ReadingOK, AnswerOK, Answers
    <2>4. ASSUME NEW s \in Socks PROVE ClientOK(s, sock'[s])
        <3>1. CASE s \in Waiting(n, k)
            <4>1. sock[s].st \in {"auth", "check"} /\ user[s] = k[1]
                BY <3>1, KeyOfClient DEF Waiting
            <4>2. ClientOK(s, After(sock[s], f.val))
                BY <1>s, <2>2, <4>1, AfterOK
            <4> QED BY <2>1, <3>1, <4>2
        <3>2. CASE s \notin Waiting(n, k)
            BY <1>s, <2>1, <3>2
        <3> QED BY <3>1, <3>2
    <2>5. sock' = [s \in Socks |-> sock'[s]]
        BY <2>1
    <2> HIDE DEF v
    <2>6. /\ known' \in [Nodes -> [Keys -> {NoVal} \cup Answers]]
          /\ \A m \in Nodes, j \in Keys : AnswerOK(j, known'[m][j])
        BY <2>1, <2>3, AnswerUpdate
    <2>7. /\ reading' \in [Nodes -> [Keys -> Readings]]
          /\ \A m \in Nodes, j \in Keys : ReadingOK(j, reading'[m][j])
        BY <2>1, NoReadingOK, ReadingUpdate
    <2> QED BY <1>t, <2>1, <2>4, <2>5, <2>6, <2>7, NodeRest
<1>4. CASE FlightFails(n, k)
    <2> DEFINE back(s) == IF s \notin Waiting(n, k) THEN sock[s]
                          ELSE IF sock[s].st = "auth" THEN Client("idle")
                          ELSE [sock[s] EXCEPT !.st = "open", !.wm = 0]
    <2>1. /\ reading' = [reading EXCEPT ![n][k] = NoReading]
          /\ sock' = [s \in Socks |-> back(s)]
          /\ DatabaseSame /\ UNCHANGED <<mark, known>>
        BY <1>4 DEF FlightFails, DatabaseSame
    <2>2. ASSUME NEW s \in Socks PROVE ClientOK(s, back(s))
        <3>1. CASE s \in Waiting(n, k) /\ sock[s].st # "auth"
            <4> DEFINE c == sock[s]
                       d == [c EXCEPT !.st = "open", !.wm = 0]
            <4>1. c.st = "check" /\ c \in Clients
                BY <1>s, <3>1 DEF Waiting, ClientOK
            <4>2. d \in Clients
                BY <4>1, ClientFields, SetState, SetEpoch
            <4>3. d.st = "open" /\ d.denied = c.denied /\ d.readOnly = c.readOnly
                BY <4>1, ClientFields
            <4>4. d.role = c.role /\ d.epoch = c.epoch /\ d.member = c.member
                BY <4>1, ClientFields
            <4>5. back(s) = d
                BY <3>1
            <4> HIDE DEF d, back
            <4>6. /\ c.role # "writer" => c.readOnly
                  /\ Sheltered(user[s]) => ~c.denied /\ ~c.readOnly
                BY <1>s, <4>1 DEF ClientOK
            <4>7. ClientOK(s, d)
                BY <1>s, <4>1, <4>2, <4>3, <4>4, <4>6, SameToken DEF TokenStates
            <4> QED BY <4>5, <4>7
        <3>2. CASE s \in Waiting(n, k) /\ sock[s].st = "auth"
            BY <3>2, FreshClient
        <3>3. CASE s \notin Waiting(n, k)
            BY <1>s, <3>3
        <3> QED BY <3>1, <3>2, <3>3
    <2> HIDE DEF back
    <2>3. sock' = [s \in Socks |-> sock'[s]] /\ \A s \in Socks : ClientOK(s, sock'[s])
        BY <2>1, <2>2
    <2>4. /\ reading' \in [Nodes -> [Keys -> Readings]]
          /\ \A m \in Nodes, j \in Keys : ReadingOK(j, reading'[m][j])
        BY <2>1, NoReadingOK, ReadingUpdate
    <2> QED BY <1>t, <2>1, <2>3, <2>4, KnownSame, NodeRest
<1>5. CASE KnownExpires(n, k)
    <2>1. AnswerOK(k, NoVal)
        BY DEF AnswerOK
    <2>2. known' = [known EXCEPT ![n][k] = NoVal] /\ DatabaseSame /\ UNCHANGED <<mark, reading, sock>>
        BY <1>5 DEF KnownExpires, DatabaseSame
    <2>3. /\ known' \in [Nodes -> [Keys -> {NoVal} \cup Answers]]
          /\ \A m \in Nodes, j \in Keys : AnswerOK(j, known'[m][j])
        BY <2>1, <2>2, AnswerUpdate
    <2> QED BY <1>t, <2>2, <2>3, SockSame, ReadingSame, NodeRest
<1> QED BY <1>1, <1>2, <1>3, <1>4, <1>5 DEF FlightStep

\* A node hears of an epoch, or dies and comes back knowing nothing.
LEMMA NodeStep ==
    ASSUME IInv, NEW n \in Nodes, HearEpoch(n) \/ Restart(n)
    PROVE  IInv'
<1> USE DEF dbVars
<1>t. mark \in [Nodes -> 0..MaxEpoch] /\ epoch \in 0..MaxEpoch
    BY DEF IInv, TypeOK, ViewTypeOK
<1>1. CASE HearEpoch(n)
    <2>1. mark' \in [Nodes -> 0..MaxEpoch] /\ DatabaseSame /\ UNCHANGED <<known, reading, sock>>
        BY <1>1, <1>t DEF HearEpoch, RaiseView, Raise, DatabaseSame, nodeVars
    <2> QED BY <2>1, KnownSame, SockSame, ReadingSame, NodeRest
<1>2. CASE Restart(n)
    <2> DEFINE Lost(s) == NodeOf[s] = n /\ sock[s].st \in {"auth", "open", "check"}
    <2>1. mark' \in [Nodes -> 0..MaxEpoch] /\ DatabaseSame
        BY <1>2, <1>t DEF Restart, RestartView, DatabaseSame
    <2>2. sock' = [s \in Socks |-> IF Lost(s) THEN TokenOnly(sock[s]) ELSE sock[s]]
        BY <1>2 DEF Restart
    <2>3. ASSUME NEW s \in Socks PROVE ClientOK(s, sock'[s])
        <3>1. ClientOK(s, sock[s])
            BY DEF IInv, ClientsInv
        <3>2. Lost(s) => sock[s].st \in TokenStates
            BY DEF TokenStates
        <3> HIDE DEF Lost
        <3> QED BY <2>2, <3>1, <3>2, TokenRemains
    <2>4. sock' = [s \in Socks |-> sock'[s]]
        BY <2>2
    <2>5. /\ reading' \in [Nodes -> [Keys -> Readings]]
          /\ \A m \in Nodes, j \in Keys : ReadingOK(j, reading'[m][j])
        <3>1. \A j \in Keys : ReadingOK(j, NoReading) /\ NoReading \in Readings
            BY NoReadingOK DEF ReadingOK
        <3>2. \A m \in Nodes, j \in Keys : ReadingOK(j, reading[m][j])
            BY DEF IInv, ReadingsInv
        <3>3. reading' = [reading EXCEPT ![n] = [j \in Keys |-> NoReading]]
            BY <1>2 DEF Restart
        <3>4. reading \in [Nodes -> [Keys -> Readings]]
            BY DEF IInv, TypeOK
        <3> QED BY <3>1, <3>2, <3>3, <3>4
    <2>6. /\ known' \in [Nodes -> [Keys -> {NoVal} \cup Answers]]
          /\ \A m \in Nodes, j \in Keys : AnswerOK(j, known'[m][j])
        <3>1. \A j \in Keys : AnswerOK(j, NoVal)
            BY DEF AnswerOK
        <3>2. \A m \in Nodes, j \in Keys : AnswerOK(j, known[m][j])
            BY DEF IInv, AnswersInv
        <3>3. known' = [known EXCEPT ![n] = [j \in Keys |-> NoVal]]
            BY <1>2 DEF Restart
        <3>4. known \in [Nodes -> [Keys -> {NoVal} \cup Answers]]
            BY DEF IInv, TypeOK
        <3> QED BY <3>1, <3>2, <3>3, <3>4
    <2> QED BY <2>1, <2>3, <2>4, <2>5, <2>6, NodeRest
<1> QED BY <1>1, <1>2

LEMMA NextIInv == IInv /\ [Next]_vars => IInv'
<1> SUFFICES ASSUME IInv, [Next]_vars PROVE IInv'
    OBVIOUS
<1>1. CASE UNCHANGED vars
    <2>1. mark' \in [Nodes -> 0..MaxEpoch] /\ DatabaseSame /\ UNCHANGED <<known, reading, sock>>
        BY <1>1 DEF vars, DatabaseSame, IInv, TypeOK, ViewTypeOK
    <2> QED BY <2>1, KnownSame, SockSame, ReadingSame, NodeRest
<1> QED BY <1>1, ChangeRoleStep, ClientStep, NodeStep, FlightStepOK DEF Next

LEMMA Invariance == Spec => []IInv
BY InitIInv, NextIInv, PTL DEF Spec

----------------------------------------------------------------------------
(* A connection made read-only stays so.                                   *)

\* The step from c to d opens no connection up again.
Kept(c, d) ==
    c.st \in {"open", "check"} /\ d.st \in {"open", "check"} /\ c.readOnly => d.readOnly

LEMMA AfterKept ==
    ASSUME NEW c \in Clients, c.st \in {"auth", "check"}, NEW r
    PROVE  Kept(c, After(c, r))
<1>1. CASE c.st = "auth"
    BY <1>1 DEF Kept
<1>2. CASE c.st = "check"
    <2>1. After(c, r).readOnly \in {TRUE, c.readOnly}
        BY <1>2, ClientFields DEF After, AfterCheck
    <2> QED BY <2>1 DEF Kept
<1> QED BY <1>1, <1>2

LEMMA RecheckKept ==
    ASSUME IInv, NEW s \in Socks, NEW c \in Clients, c.st \in {"auth", "check"}, Recheck(s, c),
           Kept(sock[s], c), sock[s].st = "open" => c.st = "check" /\ c.readOnly = sock[s].readOnly,
           sock[s].st # "check"
    PROVE  \A x \in Socks : Kept(sock[x], sock'[x])
<1>1. \A x \in Socks \ {s} : sock'[x] = sock[x]
    BY DEF Recheck, IInv, TypeOK
<1>2. sock'[s] = c \/ \E r : sock'[s] = After(c, r)
    BY DEF Recheck, IInv, TypeOK
<1>3. Kept(sock[s], sock'[s])
    BY <1>2, AfterKept DEF Kept
<1> QED BY <1>1, <1>3 DEF Kept

LEMMA StepKept ==
    ASSUME IInv, [Next]_vars
    PROVE  \A s \in Socks : Kept(sock[s], sock'[s])
<1>t. sock \in [Socks -> Clients]
    BY DEF IInv, TypeOK
<1>u. UNCHANGED sock => \A s \in Socks : Kept(sock[s], sock'[s])
    BY DEF Kept
<1>1. CASE UNCHANGED vars
    BY <1>1, <1>u DEF vars
<1>2. CASE ChangeRole
    BY <1>2, <1>u DEF ChangeRole, PutMember, GrantMax, RemoveMember, WriteRow, BumpAfter,
       CrashBeforeBump, AcceptInvite, SetShareSettings, SoftDelete
<1>3. ASSUME NEW s \in Socks, IssueReadMeta(s) \/ IssueReadRole(s) \/ DropToken(s)
      PROVE  \A x \in Socks : Kept(sock[x], sock'[x])
    BY <1>3, <1>t DEF IssueReadMeta, IssueReadRole, DropToken, Kept
<1>4. ASSUME NEW s \in Socks, Disconnect(s) PROVE \A x \in Socks : Kept(sock[x], sock'[x])
    <2>1. \A x \in Socks : sock'[x] = IF x = s THEN TokenOnly(sock[s]) ELSE sock[x]
        BY <1>4, <1>t DEF Disconnect
    <2>2. TokenOnly(sock[s]).st = "token"
        BY DEF TokenOnly, Client
    <2> QED BY <2>1, <2>2 DEF Kept
<1>5. ASSUME NEW s \in Socks, NEW e \in 0..epoch, Connect(s, e)
      PROVE  \A x \in Socks : Kept(sock[x], sock'[x])
    <2> DEFINE c == [sock[s] EXCEPT !.st = "auth"]
    <2>1. sock[s].st = "token"
        BY <1>5 DEF Connect
    <2>2. CASE sock[s].epoch < e
        <3>1. c \in Clients
            BY <1>t, SetState
        <3>2. Recheck(s, c)
            BY <1>5, <2>2 DEF Connect
        <3>3. c.st = "auth"
            BY <1>t, ClientFields
        <3> HIDE DEF c
        <3> QED BY <2>1, <3>1, <3>2, <3>3, RecheckKept DEF Kept
    <2>3. CASE ~(sock[s].epoch < e)
        BY <1>5, <1>t, <2>1, <2>3 DEF Connect, Kept
    <2> QED BY <2>2, <2>3
<1>6. ASSUME NEW s \in Socks, StaleMessage(s) PROVE \A x \in Socks : Kept(sock[x], sock'[x])
    <2> DEFINE c == [sock[s] EXCEPT !.st = "check", !.wm = mark[NodeOf[s]]]
    <2>1. sock[s].st = "open" /\ Recheck(s, c)
        BY <1>6 DEF StaleMessage
    <2>2. mark[NodeOf[s]] \in 0..MaxEpoch
        BY KeyOfClient DEF IInv, TypeOK, ViewTypeOK
    <2>3. c \in Clients
        BY <1>t, <2>2, SetState, SetEpoch
    <2>4. c.st = "check" /\ c.readOnly = sock[s].readOnly
        BY <1>t, ClientFields
    <2> HIDE DEF c
    <2> QED BY <2>1, <2>3, <2>4, RecheckKept DEF Kept
<1>7. ASSUME NEW n \in Nodes, HearEpoch(n) PROVE \A x \in Socks : Kept(sock[x], sock'[x])
    BY <1>7, <1>u DEF HearEpoch, nodeVars
<1>8. ASSUME NEW n \in Nodes, Restart(n) PROVE \A x \in Socks : Kept(sock[x], sock'[x])
    <2>1. \A x \in Socks : sock'[x] = sock[x] \/ sock'[x] = TokenOnly(sock[x])
        BY <1>8 DEF Restart
    <2>2. \A x \in Socks : TokenOnly(sock[x]).st = "token"
        BY DEF TokenOnly, Client
    <2> QED BY <2>1, <2>2 DEF Kept
<1>9. ASSUME NEW n \in Nodes, NEW k \in Keys,
             FlightStep(n, k) \/ FlightFails(n, k) \/ KnownExpires(n, k)
      PROVE  \A x \in Socks : Kept(sock[x], sock'[x])
    <2>1. CASE FlightMeta(n, k) \/ FlightRole(n, k) \/ KnownExpires(n, k)
        BY <2>1, <1>u DEF FlightMeta, FlightRole, KnownExpires
    <2>2. ASSUME FlightDone(n, k), NEW x \in Socks PROVE Kept(sock[x], sock'[x])
        <3> DEFINE r == reading[n][k].val
        <3>1. sock'[x] = IF x \in Waiting(n, k) THEN After(sock[x], r) ELSE sock[x]
            BY <2>2 DEF FlightDone
        <3> HIDE DEF r
        <3>2. x \in Waiting(n, k) => Kept(sock[x], After(sock[x], r))
            BY <1>t, AfterKept DEF Waiting
        <3>3. Kept(sock[x], sock[x])
            BY DEF Kept
        <3> QED BY <3>1, <3>2, <3>3
    <2>3. ASSUME FlightFails(n, k), NEW x \in Socks PROVE Kept(sock[x], sock'[x])
        <3> DEFINE d == [sock[x] EXCEPT !.st = "open", !.wm = 0]
        <3>1. sock'[x] = sock[x] \/ sock'[x] = Client("idle") \/ sock'[x] = d
            BY <2>3 DEF FlightFails
        <3>2. d.readOnly = sock[x].readOnly
            BY <1>t, ClientFields
        <3>3. Client("idle").st = "idle"
            BY DEF Client
        <3> HIDE DEF d
        <3> QED BY <3>1, <3>2, <3>3 DEF Kept
    <2> QED BY <1>9, <2>1, <2>2, <2>3 DEF FlightStep
<1> QED BY <1>1, <1>2, <1>3, <1>4, <1>5, <1>6, <1>7, <1>8, <1>9 DEF Next, Authenticate

----------------------------------------------------------------------------
(* The theorems.                                                           *)

\* The variables keep their types.
THEOREM TypeCorrect == Spec => []TypeOK
BY Invariance, PTL DEF IInv

\* Whatever issuing, member writes, share changes and deletions do in between, a token
\* stamped with the current epoch carries the role its user has now, unless a change
\* of that role is still to be bumped (issueCollabToken reads doc_meta first).
THEOREM TokensAreExact == Spec => []TokenExact
<1>1. IInv => TokenExact
    BY DEF IInv, ClientsInv, ClientOK, TokenExact, HasToken, TokenStates
<1> QED BY <1>1, Invariance, PTL

\* The same for the answers in the recheck caches: one that was read under the current
\* epoch is the role its user has now.
THEOREM RechecksAreExact == Spec => []RecheckExact
<1>1. IInv => RecheckExact
    BY DEF IInv, AnswersInv, AnswerOK, RecheckExact
<1> QED BY <1>1, Invariance, PTL

\* Changes made to others never refuse a message of a writer nobody touches, never make
\* its connection read-only and never send it away with 4403.
THEOREM BystandersWrite == Spec => []WritersUndisturbed
<1>1. IInv => WritersUndisturbed
    BY DEF IInv, ClientsInv, ClientOK, WritersUndisturbed, Sheltered, Bystander, Undisturbed, Connected
<1> QED BY <1>1, Invariance, PTL

\* Nobody writes on a token that does not say writer, and a connection made read-only
\* by a recheck stays so until it ends.
THEOREM ReadOnlyIsFinal == Spec => ReadOnlySticks
<1>1. IInv => \A s \in Socks : Connected(s) /\ sock[s].role # "writer" => sock[s].readOnly
    BY DEF IInv, ClientsInv, ClientOK, Connected
<1>2. IInv /\ [Next]_vars =>
          [\A s \in Socks : Connected(s) /\ Connected(s)' /\ sock[s].readOnly => sock'[s].readOnly]_vars
    BY StepKept DEF Kept, Connected
<1> QED BY <1>1, <1>2, Invariance, PTL DEF Spec, ReadOnlySticks
=============================================================================
