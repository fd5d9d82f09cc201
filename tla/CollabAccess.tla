---------------------------- MODULE CollabAccess ----------------------------
(***************************************************************************)
(* Who may write a document over a collaboration socket, and how soon a    *)
(* change of membership, of the share setting or a deletion reaches the    *)
(* sockets that are open: src/auth/issueCollabToken.ts,                    *)
(* src/collab/authenticate.ts, the hooks of src/collab/server.ts,          *)
(* src/permission/recheck.ts and resolveRole.ts, and the member, share,    *)
(* invite and delete operations that change a role.                        *)
(*                                                                         *)
(* One document. What currentEpoch answers and what a watermark holds are  *)
(* those of EpochView: any epoch that has been committed, possibly old.    *)
(* The collaboration server tells three roles apart: none; reader, which   *)
(* stands for commenter too; writer, which stands for admin too.           *)
(***************************************************************************)
EXTENDS EpochView, FiniteSets

CONSTANTS
    Users,
    SpaceMembers,   \* the users isSpaceMember confirms for the document's space
    Targets,        \* the users whose membership the requests change
    InitRole,       \* InitRole[u]: the role u starts with
    Socks,          \* the client connections
    SockUsers,      \* the users whose clients these may be
    NodeOf,         \* NodeOf[s]: the node connection s reaches
    Reqs,           \* member requests that may be in progress at one time
    Scopes,         \* the share settings the owner chooses from
    NoVal,
    ReqsCrash,      \* TRUE: a request may die between two of its statements
    NodesFail       \* TRUE: a collaboration node may die and restart

Roles == {"none", "reader", "writer"}
Rank(r) == CASE r = "none" -> 0 [] r = "reader" -> 1 [] r = "writer" -> 2
AtLeast(r, q) == Rank(r) >= Rank(q)
Higher(r, q) == IF AtLeast(r, q) THEN r ELSE q

ASSUME CollabAssumption ==
    /\ SpaceMembers \subseteq Users /\ Targets \subseteq Users
    /\ InitRole \in [Users -> Roles]
    /\ SockUsers \subseteq Users /\ NodeOf \in [Socks -> Nodes]
    /\ "restricted" \in Scopes /\ Scopes \subseteq {"restricted", "read", "edit"}
    /\ NoVal \notin Roles \cup Users

VARIABLES
    role,       \* role[u]: the doc_member row of u, "none" when there is none
    scope,      \* doc_meta.share_scope and share_role
    live,       \* doc_meta.status # 0
    req,        \* req[r]: a request between its member write and its bump
    unbumped,   \* users whose row was written by a request that died before its bump
    known,      \* known[n][k]: the recheck cache of node n
    reading,    \* reading[n][k]: its recheck in flight
    user,       \* user[s]: whose client s is, for good
    sock        \* sock[s]: a client, its token and its connection

dbVars == <<role, scope, live, req, unbumped>>
nodeVars == <<known, reading>>
vars == <<epoch, mark, role, scope, live, req, unbumped, known, reading, user, sock>>

\* effectiveRole: the higher of the direct role and the one the share setting gives
\* a member of the space.
ShareRole(sc, member) ==
    IF ~member \/ sc = "restricted" THEN "none"
    ELSE IF sc = "edit" THEN "writer" ELSE "reader"
Effective(direct, sc, member) == Higher(direct, ShareRole(sc, member))

\* The role user u has now, with the space_member claim it carries.
CurrentRole(u, member) == IF live THEN Effective(role[u], scope, member) ELSE "none"

\* The recheck cache is keyed by document, user and space_member claim.
Keys == {k \in Users \X BOOLEAN : k[2] => k[1] \in SpaceMembers}

NoReading == [pc |-> "none", live |-> TRUE, scope |-> "restricted", val |-> "none", at |-> 0]
Client(st) == [st |-> st, role |-> "none", epoch |-> 0, member |-> FALSE, scope |-> "restricted",
               ctx |-> 0, readOnly |-> FALSE, denied |-> FALSE, wm |-> 0]

Answers == [val : Roles, at : 0..MaxEpoch]
Readings == [pc : {"none", "meta", "role", "done"}, live : BOOLEAN, scope : Scopes, val : Roles,
             at : 0..MaxEpoch]
Clients == [st : {"idle", "issuing", "token", "auth", "open", "check", "forbidden"},
            role : Roles, epoch : 0..MaxEpoch, member : BOOLEAN, scope : Scopes,
            ctx : 0..MaxEpoch, readOnly : BOOLEAN, denied : BOOLEAN, wm : 0..MaxEpoch]

TypeOK ==
    /\ ViewTypeOK
    /\ role \in [Users -> Roles]
    /\ scope \in Scopes
    /\ live \in BOOLEAN
    /\ req \in [Reqs -> Users \cup {NoVal}]
    /\ unbumped \subseteq Users
    /\ known \in [Nodes -> [Keys -> {NoVal} \cup Answers]]
    /\ reading \in [Nodes -> [Keys -> Readings]]
    /\ user \in [Socks -> SockUsers]
    /\ sock \in [Socks -> Clients]

Init ==
    /\ ViewInit
    /\ role = InitRole
    /\ scope = "restricted"
    /\ live = TRUE
    /\ req = [r \in Reqs |-> NoVal]
    /\ unbumped = {}
    /\ known = [n \in Nodes |-> [k \in Keys |-> NoVal]]
    /\ reading = [n \in Nodes |-> [k \in Keys |-> NoReading]]
    /\ user \in [Socks -> SockUsers]
    /\ sock = [s \in Socks |-> Client("idle")]

----------------------------------------------------------------------------
(* The operations that change a role.                                      *)

\* PUT and DELETE members and the forward grant write the row in a statement of
\* its own ...
WriteRow(r, u, x) ==
    /\ req[r] = NoVal
    /\ u \in Targets
    /\ role' = [role EXCEPT ![u] = x]
    /\ req' = [req EXCEPT ![r] = u]
    /\ UNCHANGED <<epoch, mark, scope, live, unbumped, nodeVars, user, sock>>

PutMember(r, u, x) == x # "none" /\ WriteRow(r, u, x)
RemoveMember(r, u) == WriteRow(r, u, "none")
\* upsertGrantMax never lowers a role. MySQL may count the row it matched and did not
\* change (CLIENT_FOUND_ROWS, which mysql2 sets), so the request may go on to bump.
GrantMax(r, u, x) == x # "none" /\ WriteRow(r, u, Higher(role[u], x))

\* ... and bump the epoch in the next.
BumpAfter(r) ==
    /\ req[r] # NoVal
    /\ Bump
    /\ req' = [req EXCEPT ![r] = NoVal]
    /\ unbumped' = {}
    /\ UNCHANGED <<mark, role, scope, live, nodeVars, user, sock>>

CrashBeforeBump(r) ==
    /\ ReqsCrash
    /\ req[r] # NoVal
    /\ req' = [req EXCEPT ![r] = NoVal]
    /\ unbumped' = unbumped \cup {req[r]}
    /\ UNCHANGED <<epoch, mark, role, scope, live, nodeVars, user, sock>>

\* An accepted invite, a change of the share setting and a deletion bump in the
\* transaction that makes the change.
AcceptInvite(u, x) ==
    /\ live /\ u \in Targets
    /\ ~AtLeast(role[u], x)
    /\ Bump
    /\ role' = [role EXCEPT ![u] = x]
    /\ unbumped' = {}
    /\ UNCHANGED <<mark, scope, live, req, nodeVars, user, sock>>

\* Mutant of SetShareSettings: it forgets the bump.
SetShareSilently(sc) ==
    /\ live
    /\ scope' = sc
    /\ UNCHANGED <<epoch, mark, role, live, req, unbumped, nodeVars, user, sock>>

SetShareSettings(sc) ==
    /\ live
    /\ Bump
    /\ scope' = sc
    /\ unbumped' = {}
    /\ UNCHANGED <<mark, role, live, req, nodeVars, user, sock>>

SoftDelete ==
    /\ live
    /\ Bump
    /\ live' = FALSE
    /\ unbumped' = {}
    /\ UNCHANGED <<mark, role, scope, req, nodeVars, user, sock>>

----------------------------------------------------------------------------
(* issueCollabToken: the doc_meta row is read first, the member row second. *)

\* Mutant of IssueReadMeta: the token says epoch 0, whatever the row says.
IssueEpochZero(s) ==
    /\ sock[s].st = "idle"
    /\ live
    /\ sock' = [sock EXCEPT ![s] = [Client("issuing") EXCEPT !.scope = scope]]
    /\ UNCHANGED <<epoch, mark, dbVars, user, nodeVars>>

IssueReadMeta(s) ==
    /\ sock[s].st = "idle"
    /\ live
    /\ sock' = [sock EXCEPT ![s] = [Client("issuing") EXCEPT !.epoch = epoch, !.scope = scope]]
    /\ UNCHANGED <<epoch, mark, dbVars, user, nodeVars>>

\* Mutant of IssueReadRole: the token is stamped with the epoch of signing time.
IssueStampsLate(s) ==
    LET member == sock[s].scope # "restricted" /\ user[s] \in SpaceMembers
        r == Effective(role[user[s]], sock[s].scope, member)
    IN
    /\ sock[s].st = "issuing"
    /\ sock' = [sock EXCEPT ![s] =
                   IF r = "none" THEN Client("idle")
                   ELSE [Client("token") EXCEPT !.role = r, !.epoch = epoch, !.member = member]]
    /\ UNCHANGED <<epoch, mark, dbVars, user, nodeVars>>

IssueReadRole(s) ==
    LET member == sock[s].scope # "restricted" /\ user[s] \in SpaceMembers
        r == Effective(role[user[s]], sock[s].scope, member)
    IN
    /\ sock[s].st = "issuing"
    /\ sock' = [sock EXCEPT ![s] =
                   IF r = "none" THEN Client("idle")
                   ELSE [Client("token") EXCEPT !.role = r, !.epoch = sock[s].epoch, !.member = member]]
    /\ UNCHANGED <<epoch, mark, dbVars, user, nodeVars>>

\* The client lets the token expire, or fetches another.
DropToken(s) ==
    /\ sock[s].st \in {"token", "forbidden"}
    /\ sock' = [sock EXCEPT ![s] = Client("idle")]
    /\ UNCHANGED <<epoch, mark, dbVars, user, nodeVars>>

\* A connection ends; the client still has its token.
TokenOnly(c) == [Client("token") EXCEPT !.role = c.role, !.epoch = c.epoch, !.member = c.member]

Disconnect(s) ==
    /\ sock[s].st = "open"
    /\ sock' = [sock EXCEPT ![s] = TokenOnly(@)]
    /\ UNCHANGED <<epoch, mark, dbVars, user, nodeVars>>

----------------------------------------------------------------------------
(* recheckCurrentRoleCached, and what its two callers do with the answer.  *)

KeyOf(s) == <<user[s], sock[s].member>>

\* authenticate with a stale token: 4403 tells the client to stop, 4401 to fetch a
\* new token.
AfterAuth(c, r) == IF r = "none" THEN Client("forbidden") ELSE Client("idle")

\* Mutants of AfterCheck: every stale message is refused; a writer's read-only
\* connection is opened up again.
AfterCheckRefuses(c, r) == [c EXCEPT !.st = "open", !.readOnly = TRUE, !.wm = 0, !.denied = TRUE]

AfterCheckRestores(c, r) ==
    IF AtLeast(r, "writer")
    THEN [c EXCEPT !.st = "open", !.ctx = c.wm, !.wm = 0, !.denied = FALSE, !.readOnly = FALSE]
    ELSE [c EXCEPT !.st = "open", !.readOnly = TRUE, !.wm = 0, !.denied = TRUE]

\* beforeHandleMessage on a stale connection: refuse the message and make the
\* connection read-only, or adopt the watermark read before the recheck.
AfterCheck(c, r) ==
    IF AtLeast(r, "writer")
    THEN [c EXCEPT !.st = "open", !.ctx = c.wm, !.wm = 0, !.denied = FALSE]
    ELSE [c EXCEPT !.st = "open", !.readOnly = TRUE, !.wm = 0, !.denied = TRUE]

After(c, r) == IF c.st = "auth" THEN AfterAuth(c, r) ELSE AfterCheck(c, r)

\* Client s, now in state c, asks for its role: the cache answers at once, or c
\* waits for the flight of its key.
Recheck(s, c) ==
    LET n == NodeOf[s]
        k == KeyOf(s)
    IN IF known[n][k] # NoVal
       THEN /\ sock' = [sock EXCEPT ![s] = After(c, known[n][k].val)]
            /\ UNCHANGED reading
       ELSE /\ sock' = [sock EXCEPT ![s] = c]
            /\ reading' = [reading EXCEPT ![n][k].pc = IF @ = "none" THEN "meta" ELSE @]

Waiting(n, k) == {s \in Socks : /\ sock[s].st \in {"auth", "check"}
                                /\ NodeOf[s] = n /\ KeyOf(s) = k}

\* recheckCurrentRole reads doc_meta ...
FlightMeta(n, k) ==
    /\ reading[n][k].pc = "meta"
    /\ reading' = [reading EXCEPT ![n][k] =
                      [pc |-> "role", live |-> live, scope |-> scope, val |-> "none", at |-> epoch]]
    /\ UNCHANGED <<epoch, mark, dbVars, user, known, sock>>

\* ... then doc_member ...
FlightRole(n, k) ==
    LET f == reading[n][k] IN
    /\ f.pc = "role"
    /\ reading' = [reading EXCEPT ![n][k] =
                      [NoReading EXCEPT !.pc = "done", !.at = f.at,
                           !.val = IF f.live THEN Effective(role[k[1]], f.scope, k[2]) ELSE "none"]]
    /\ UNCHANGED <<epoch, mark, dbVars, user, known, sock>>

\* ... and the answer is cached and given to everyone who waits for it.
FlightDone(n, k) ==
    LET f == reading[n][k] IN
    /\ f.pc = "done"
    /\ known' = [known EXCEPT ![n][k] = [val |-> f.val, at |-> f.at]]
    /\ reading' = [reading EXCEPT ![n][k] = NoReading]
    /\ sock' = [s \in Socks |-> IF s \in Waiting(n, k) THEN After(sock[s], f.val) ELSE sock[s]]
    /\ UNCHANGED <<epoch, mark, dbVars, user>>

\* A database read fails: authenticate answers 4401, the message is refused.
FlightFails(n, k) ==
    /\ reading[n][k].pc \in {"meta", "role"}
    /\ reading' = [reading EXCEPT ![n][k] = NoReading]
    /\ sock' = [s \in Socks |->
                   IF s \notin Waiting(n, k) THEN sock[s]
                   ELSE IF sock[s].st = "auth" THEN Client("idle")
                   ELSE [sock[s] EXCEPT !.st = "open", !.wm = 0]]
    /\ UNCHANGED <<epoch, mark, dbVars, user, known>>

KnownExpires(n, k) ==
    /\ known[n][k] # NoVal
    /\ known' = [known EXCEPT ![n][k] = NoVal]
    /\ UNCHANGED <<epoch, mark, dbVars, user, reading, sock>>

----------------------------------------------------------------------------
(* The collaboration server's hooks.                                       *)

\* authenticate, and the connected hook when it lets the client in; e is what
\* currentEpoch answers.
Connect(s, e) ==
    LET c == sock[s] IN
    /\ c.st = "token"
    /\ IF c.epoch < e
       THEN Recheck(s, [c EXCEPT !.st = "auth"]) /\ UNCHANGED mark
       ELSE /\ sock' = [sock EXCEPT ![s] = [c EXCEPT !.st = "open", !.ctx = c.epoch,
                                                     !.readOnly = (c.role = "reader")]]
            /\ Raise(NodeOf[s], c.epoch)
            /\ UNCHANGED reading
    /\ UNCHANGED <<epoch, dbVars, user, known>>

\* beforeHandleMessage on a connection behind its node's watermark. (A message on
\* one that is not behind passes without a change of state.)
StaleMessage(s) ==
    LET c == sock[s]
        w == mark[NodeOf[s]]
    IN
    /\ c.st = "open"
    /\ c.ctx < w
    /\ Recheck(s, [c EXCEPT !.st = "check", !.wm = w])
    /\ UNCHANGED <<epoch, mark, dbVars, user, known>>

\* The invalidation subscriber raises the watermark; it touches no connection.
HearEpoch(n) == RaiseView(n) /\ UNCHANGED <<dbVars, user, nodeVars, sock>>

Restart(n) ==
    /\ NodesFail
    /\ RestartView(n)
    /\ known' = [known EXCEPT ![n] = [k \in Keys |-> NoVal]]
    /\ reading' = [reading EXCEPT ![n] = [k \in Keys |-> NoReading]]
    /\ sock' = [s \in Socks |-> IF NodeOf[s] = n /\ sock[s].st \in {"auth", "open", "check"}
                                THEN TokenOnly(sock[s]) ELSE sock[s]]
    /\ UNCHANGED <<dbVars, user>>

----------------------------------------------------------------------------
ChangeRole ==
    \/ \E r \in Reqs, u \in Users :
           \/ \E x \in Roles : PutMember(r, u, x) \/ GrantMax(r, u, x)
           \/ RemoveMember(r, u)
    \/ \E r \in Reqs : BumpAfter(r) \/ CrashBeforeBump(r)
    \/ \E u \in Users, x \in Roles : AcceptInvite(u, x)
    \/ \E sc \in Scopes : SetShareSettings(sc)
    \/ SoftDelete

FlightStep(n, k) == FlightMeta(n, k) \/ FlightRole(n, k) \/ FlightDone(n, k)

Authenticate(s) == \E e \in 0..epoch : Connect(s, e)

Next ==
    \/ ChangeRole
    \/ \E s \in Socks :
           \/ IssueReadMeta(s) \/ IssueReadRole(s) \/ DropToken(s)
           \/ Authenticate(s) \/ StaleMessage(s) \/ Disconnect(s)
    \/ \E n \in Nodes : HearEpoch(n) \/ Restart(n)
    \/ \E n \in Nodes, k \in Keys : FlightStep(n, k) \/ FlightFails(n, k) \/ KnownExpires(n, k)

Spec == Init /\ [][Next]_vars

\* Requests and database reads complete, and a client that wants in keeps trying.
FairSpec ==
    /\ Spec
    /\ \A s \in Socks : /\ WF_vars(IssueReadMeta(s)) /\ WF_vars(IssueReadRole(s))
                        /\ SF_vars(Authenticate(s))
    /\ \A n \in Nodes, k \in Keys : SF_vars(FlightDone(n, k)) /\ WF_vars(FlightStep(n, k))

----------------------------------------------------------------------------
(* Correctness.                                                            *)

\* A change of u's role that the epoch does not show yet.
Unsignalled(u) == u \in unbumped \/ \E r \in Reqs : req[r] = u

Connected(s) == sock[s].st \in {"open", "check"}
HasToken(s) == sock[s].st \in {"token", "auth", "open", "check"}

\* The epoch versions the roles: a token stamped with the current epoch carries
\* exactly the role its user has now, however its issuing interleaved with member
\* writes, share changes and deletions, once the change has been bumped. (Reading
\* the member row before doc_meta would break it.)
TokenExact ==
    \A s \in Socks :
        HasToken(s) /\ sock[s].epoch = epoch /\ ~Unsignalled(user[s])
            => sock[s].role = CurrentRole(user[s], user[s] \in SpaceMembers)

\* The same for what a recheck put in its cache: wrong only if it began to read
\* before the last bump, or a change is still to be bumped.
RecheckExact ==
    \A n \in Nodes, k \in Keys :
        known[n][k] # NoVal /\ known[n][k].at = epoch /\ ~Unsignalled(k[1])
            => known[n][k].val = CurrentRole(k[1], k[2])

\* A writer nobody touches is not disturbed by the changes made to others: no
\* message refused for want of a role, no connection made read-only, no 4403 (P1-B).
Bystander(s) == user[s] \notin Targets /\ live
Undisturbed(s) == ~sock[s].denied /\ sock[s].st # "forbidden"
WritersUndisturbed ==
    \A s \in Socks : Bystander(s) /\ InitRole[user[s]] = "writer"
                        => Undisturbed(s) /\ ~(Connected(s) /\ sock[s].readOnly)

\* Nobody writes on a token that does not say writer, and a connection made
\* read-only stays so until it ends, even if its user is a writer again.
ReadOnlySticks ==
    /\ [](\A s \in Socks : Connected(s) /\ sock[s].role # "writer" => sock[s].readOnly)
    /\ [][\A s \in Socks : Connected(s) /\ Connected(s)' /\ sock[s].readOnly => sock'[s].readOnly]_vars

\* Unless nodes die for ever, a bystander who keeps trying gets in again and again, in
\* spite of the refusals (4401) that changes made to others cause on the way.
BystanderGetsIn ==
    (\A n \in Nodes : <>[][~Restart(n)]_vars) =>
        \A s \in Socks : user[s] \notin Targets => []<>(sock[s].st = "open" \/ ~live)

----------------------------------------------------------------------------
(* What the documentation says, and the code does not do.                  *)

\* backend-design 4.5 step 4: a stale connection whose user's role dropped is
\* refused, one that is not stale needs no check. So a connection that is up to
\* date and writable belongs to a writer.
CurrentConnectionMayWrite ==
    \A s \in Socks :
        sock[s].st = "open" /\ ~sock[s].readOnly /\ sock[s].ctx = epoch /\ ~Unsignalled(user[s])
            => CurrentRole(user[s], user[s] \in SpaceMembers) = "writer"

=============================================================================
