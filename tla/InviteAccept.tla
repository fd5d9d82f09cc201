---------------------------- MODULE InviteAccept ----------------------------
(***************************************************************************)
(* Invitation links: src/api/services/acceptInvite.ts and                  *)
(* acceptDecision.ts, src/db/repos/docInviteRepo.ts and                    *)
(* docInviteRedemptionRepo, with the invite and member routes that race    *)
(* with them, for one document.                                            *)
(*                                                                         *)
(* An accept is one InnoDB transaction. It locks the invite row; its other *)
(* reads are plain, so they see a snapshot that is not locked; its writes  *)
(* wait for the row locks they need and show when it commits. A route that *)
(* runs a single statement waits for the row lock too and commits at once. *)
(* The epoch an accept bumps, in the same transaction, is in CollabAccess. *)
(***************************************************************************)
EXTENDS Integers, FiniteSets

CONSTANTS
    Users,
    Owner,          \* doc_meta.owner_id, who has no doc_member row
    Invites,        \* the invite tokens an admin has created
    InviteRole,     \* InviteRole[i]: the rank the invite gives
    MaxUses,        \* MaxUses[i]: doc_invite.max_uses, 0 for no limit
    Calls,          \* accept requests that may be in progress at one time
    AdminRoles,     \* the ranks admins give with PUT members ({}: they do not)
    NoOne           \* no lock holder; no user and no invite of a call

\* Ranks of src/permission/role.ts, which orders them; commenter is left out.
None == 0
Reader == 1
Writer == 2
Admin == 3
Roles == None..Admin

ASSUME InviteAssumption ==
    /\ Owner \in Users
    /\ InviteRole \in [Invites -> Roles \ {None}]
    /\ MaxUses \in [Invites -> Nat]
    /\ AdminRoles \subseteq Roles \ {None}
    /\ NoOne \notin Users \cup Invites \cup Calls

VARIABLES
    status,     \* status[i]: doc_invite.status
    used,       \* used[i]: doc_invite.used_count
    late,       \* late[i]: the clock has passed expires_at
    redeemed,   \* the rows of doc_invite_redemption, <<invite, user>>
    member,     \* member[u]: the doc_member row of u, None when there is none
    docLive,    \* the document exists and is not soft-deleted
    inviteLock, \* inviteLock[i]: the transaction holding the row lock
    memberLock, \* memberLock[u]: the transaction holding the row lock
    call        \* call[c]: an accept request

rows == <<status, used, redeemed, member>>
locks == <<inviteLock, memberLock>>
vars == <<status, used, late, redeemed, member, docLive, inviteLock, memberLock, call>>

Statuses == {"active", "revoked", "expired", "exhausted"}
Kinds == {"gone", "noop", "reaccept", "first"}
NoCall == [pc |-> "idle", user |-> NoOne, invite |-> NoOne, late |-> FALSE, kind |-> "gone"]
CallStates == [pc : {"idle", "begin", "read", "act", "write"}, late : BOOLEAN, kind : Kinds,
               user : Users \cup {NoOne}, invite : Invites \cup {NoOne}]

TypeOK ==
    /\ status \in [Invites -> Statuses]
    /\ used \in [Invites -> Nat]
    /\ late \in [Invites -> BOOLEAN]
    /\ redeemed \subseteq Invites \X Users
    /\ member \in [Users -> Roles]
    /\ docLive \in BOOLEAN
    /\ inviteLock \in [Invites -> Calls \cup {NoOne}]
    /\ memberLock \in [Users -> Calls \cup {NoOne}]
    /\ call \in [Calls -> CallStates]

Init ==
    /\ status = [i \in Invites |-> "active"]
    /\ used = [i \in Invites |-> 0]
    /\ late = [i \in Invites |-> FALSE]
    /\ redeemed = {}
    /\ member = [u \in Users |-> None]
    /\ docLive = TRUE
    /\ inviteLock = [i \in Invites |-> NoOne]
    /\ memberLock = [u \in Users |-> NoOne]
    /\ call = [c \in Calls |-> NoCall]

----------------------------------------------------------------------------
(* decideAcceptBranch, on what the transaction has read.                   *)

\* resolveRoleTx: the owner is admin whatever doc_member says.
CurrentRole(u) == IF u = Owner THEN Admin ELSE member[u]

Full(i) == MaxUses[i] > 0 /\ used[i] >= MaxUses[i]

Gone(i, past, again) ==
    \/ status[i] \in {"revoked", "expired"}
    \/ past
    \/ (status[i] = "exhausted" \/ Full(i)) /\ ~again
    \/ ~docLive

Decide(u, i, past) ==
    LET again == <<i, u>> \in redeemed IN
    IF Gone(i, past, again) THEN "gone"
    ELSE IF CurrentRole(u) # None THEN "noop"
    ELSE IF again THEN "reaccept" ELSE "first"

----------------------------------------------------------------------------
(* acceptInviteForUid.                                                     *)

\* The clock is read when the request comes in, before the transaction.
Accept(c, u, i) ==
    /\ call[c].pc = "idle"
    /\ call' = [call EXCEPT ![c] = [NoCall EXCEPT !.pc = "begin", !.user = u, !.invite = i,
                                                  !.late = late[i]]]
    /\ UNCHANGED <<rows, late, docLive, locks>>

\* Mutant of LockInvite: a plain SELECT.
ReadInvite(c) ==
    /\ call[c].pc = "begin"
    /\ call' = [call EXCEPT ![c].pc = "read"]
    /\ UNCHANGED <<rows, late, docLive, locks>>

\* SELECT ... FOR UPDATE on the invite.
LockInvite(c) ==
    LET i == call[c].invite IN
    /\ call[c].pc = "begin"
    /\ inviteLock[i] = NoOne
    /\ inviteLock' = [inviteLock EXCEPT ![i] = c]
    /\ call' = [call EXCEPT ![c].pc = "read"]
    /\ UNCHANGED <<rows, late, docLive, memberLock>>

\* The plain reads share one snapshot, and the branch is decided on it.
ReadState(c) ==
    /\ call[c].pc = "read"
    /\ call' = [call EXCEPT ![c].pc = "act",
                            ![c].kind = Decide(call[c].user, call[c].invite, call[c].late)]
    /\ UNCHANGED <<rows, late, docLive, locks>>

\* A refused accept records why on the invite when that is new.
GoneStatus(i, past, again) ==
    IF status[i] # "active" THEN status[i]
    ELSE IF past THEN "expired"
    ELSE IF Full(i) /\ ~again THEN "exhausted"
    ELSE status[i]

\* Branches gone, a and b end the transaction without touching a member.
Finish(c) ==
    LET i == call[c].invite IN
    /\ call[c].pc = "act" /\ call[c].kind \in {"gone", "noop"}
    /\ status' = IF call[c].kind = "noop" THEN status
                 ELSE [status EXCEPT ![i] =
                          GoneStatus(i, call[c].late, <<i, call[c].user>> \in redeemed)]
    /\ inviteLock' = [inviteLock EXCEPT ![i] = NoOne]
    /\ call' = [call EXCEPT ![c] = NoCall]
    /\ UNCHANGED <<used, redeemed, member, late, docLive, memberLock>>

\* Branches c and d upsert the member row, which takes its lock ...
LockMember(c) ==
    LET u == call[c].user IN
    /\ call[c].pc = "act" /\ call[c].kind \in {"reaccept", "first"}
    /\ memberLock[u] = NoOne
    /\ memberLock' = [memberLock EXCEPT ![u] = c]
    /\ call' = [call EXCEPT ![c].pc = "write"]
    /\ UNCHANGED <<rows, late, docLive, inviteLock>>

\* incrementUsedCountTx. MySQL assigns from left to right: the CASE sees the count
\* that the first assignment has already incremented.
StatusAfterUse(i) ==
    IF MaxUses[i] > 0 /\ (used[i] + 1) + 1 >= MaxUses[i] THEN "exhausted" ELSE status[i]

\* Mutant of Release: the lock on the invite outlives the transaction.
ReleaseMember(c) ==
    /\ memberLock' = [u \in Users |-> IF memberLock[u] = c THEN NoOne ELSE memberLock[u]]
    /\ call' = [call EXCEPT ![c] = NoCall]
    /\ UNCHANGED inviteLock

Release(c) ==
    /\ inviteLock' = [inviteLock EXCEPT ![call[c].invite] = NoOne]
    /\ memberLock' = [u \in Users |-> IF memberLock[u] = c THEN NoOne ELSE memberLock[u]]
    /\ call' = [call EXCEPT ![c] = NoCall]

\* ... and everything shows at commit.
Commit(c) ==
    LET i == call[c].invite
        u == call[c].user
    IN
    /\ call[c].pc = "write"
    /\ member' = [member EXCEPT ![u] = InviteRole[i]]
    /\ IF call[c].kind = "first"
       THEN /\ redeemed' = redeemed \cup {<<i, u>>}
            /\ used' = [used EXCEPT ![i] = @ + 1]
            /\ status' = [status EXCEPT ![i] = StatusAfterUse(i)]
       ELSE UNCHANGED <<redeemed, used, status>>
    /\ Release(c)
    /\ UNCHANGED <<late, docLive>>

\* A statement fails or the process dies: the transaction rolls back.
Abort(c) ==
    /\ call[c].pc \in {"read", "act", "write"}
    /\ Release(c)
    /\ UNCHANGED <<rows, late, docLive>>

----------------------------------------------------------------------------
(* The routes and the clock that race with it.                             *)

Revoke(i) ==
    /\ inviteLock[i] = NoOne
    /\ status' = [status EXCEPT ![i] = "revoked"]
    /\ UNCHANGED <<used, redeemed, member, late, docLive, locks, call>>

Remove(u) ==
    /\ u # Owner
    /\ memberLock[u] = NoOne
    /\ member' = [member EXCEPT ![u] = None]
    /\ UNCHANGED <<status, used, redeemed, late, docLive, locks, call>>

\* Nothing keeps an admin from giving the owner a row this way.
PutMember(u, x) ==
    /\ memberLock[u] = NoOne
    /\ member' = [member EXCEPT ![u] = x]
    /\ UNCHANGED <<status, used, redeemed, late, docLive, locks, call>>

SoftDelete ==
    /\ docLive' = FALSE
    /\ UNCHANGED <<rows, late, locks, call>>

ClockPasses(i) ==
    /\ late' = [late EXCEPT ![i] = TRUE]
    /\ UNCHANGED <<rows, docLive, locks, call>>

----------------------------------------------------------------------------
Advance(c) == LockInvite(c) \/ ReadState(c) \/ Finish(c) \/ LockMember(c) \/ Commit(c)

Next ==
    \/ \E c \in Calls : Advance(c) \/ Abort(c) \/ \E u \in Users, i \in Invites : Accept(c, u, i)
    \/ \E i \in Invites : Revoke(i) \/ ClockPasses(i)
    \/ \E u \in Users : Remove(u) \/ \E x \in AdminRoles : PutMember(u, x)
    \/ SoftDelete

Spec == Init /\ [][Next]_vars

----------------------------------------------------------------------------
(* Correctness.                                                            *)

\* An invite is never used more often than its limit, and the count is that of the
\* users who redeemed it: no interleaving of accepts loses or doubles a seat, and a
\* removed member who accepts again takes no second one.
SeatsCounted ==
    \A i \in Invites :
        /\ used[i] = Cardinality({u \in Users : <<i, u>> \in redeemed})
        /\ MaxUses[i] > 0 => used[i] <= MaxUses[i]

\* Revocation holds against an accept in progress: once an invite is revoked it
\* stays so and seats nobody, first time or again.
RevokedIsFinal ==
    [][\A i \in Invites :
          status[i] = "revoked" =>
              /\ status'[i] = "revoked" /\ used'[i] = used[i]
              /\ \A c \in Calls : call[c].invite = i => ~Commit(c)]_vars

\* The lock that call c, in its present step, waits for is held by another.
Blocked(c) ==
    \/ call[c].pc = "begin" /\ inviteLock[call[c].invite] # NoOne
    \/ /\ call[c].pc = "act" /\ call[c].kind \in {"reaccept", "first"}
       /\ memberLock[call[c].user] # NoOne

\* Every transaction locks its invite before its member, so while any accept waits
\* for a lock some other accept can proceed: accepts of two links by one user, or of
\* one link by two, never wait for each other.
SomebodyProceeds ==
    (\E c \in Calls : Blocked(c)) => \E c \in Calls : call[c].pc # "idle" /\ ~Blocked(c)

----------------------------------------------------------------------------
(* What the documentation says, and the code does not do.                  *)

\* incrementUsedCountTx, "only when max_uses > 0 and used_count >= max_uses": an
\* invite is exhausted only when its seats are taken.
ExhaustedIsFull == \A i \in Invites : status[i] = "exhausted" => Full(i)

=============================================================================
