------------------------- MODULE InviteAcceptProofs -------------------------
(***************************************************************************)
(* Proofs about InviteAccept, for any users, invites, limits and number of *)
(* accepts in progress.                                                    *)
(***************************************************************************)
EXTENDS InviteAccept, FiniteSetTheorems, TLAPS

(***************************************************************************)
(* The inductive invariant. SeatsCounted alone is not inductive: that the  *)
(* seat an accept takes is free, and its user new, was found out one       *)
(* statement earlier, and is still so because the accept has held the row  *)
(* lock of the invite ever since.                                          *)
(***************************************************************************)

Locking == {"read", "act", "write"}

\* An accept that has begun is about an invite and a user, and from its first read to
\* its end the row lock of the invite is its own; nobody else holds one.
InviteLocksOK ==
    /\ \A c \in Calls : call[c].pc # "idle" => call[c].invite \in Invites /\ call[c].user \in Users
    /\ \A c \in Calls : call[c].pc \in Locking => inviteLock[call[c].invite] = c
    /\ \A i \in Invites, c \in Calls :
           inviteLock[i] = c => call[c].pc \in Locking /\ call[c].invite = i

\* The lock on a member row is held exactly while an accept is to write it.
MemberLocksOK ==
    /\ \A c \in Calls : call[c].pc = "write" => /\ memberLock[call[c].user] = c
                                                /\ call[c].kind \in {"reaccept", "first"}
    /\ \A u \in Users, c \in Calls :
           memberLock[u] = c => call[c].pc = "write" /\ call[c].user = u

\* What an accept that seats its user decided on still stands.
DecisionsStand ==
    \A c \in Calls :
        call[c].pc \in {"act", "write"} =>
            /\ call[c].kind \in {"reaccept", "first"} =>
                   status[call[c].invite] \notin {"revoked", "expired"}
            /\ call[c].kind = "first" =>
                   /\ <<call[c].invite, call[c].user>> \notin redeemed
                   /\ ~Full(call[c].invite)

Seats(i) == {u \in Users : <<i, u>> \in redeemed}

SeatsOK ==
    \A i \in Invites : /\ IsFiniteSet(Seats(i))
                       /\ used[i] = Cardinality(Seats(i))
                       /\ MaxUses[i] > 0 => used[i] <= MaxUses[i]

IInv == TypeOK /\ InviteLocksOK /\ MemberLocksOK /\ DecisionsStand /\ SeatsOK

USE InviteAssumption

LEMMA InitIInv == Init => IInv
<1> SUFFICES ASSUME Init PROVE IInv
    OBVIOUS
<1> USE DEF Init
<1>1. TypeOK
    BY DEF TypeOK, Statuses, Kinds, NoCall, CallStates, Roles, None, Admin
<1>2. InviteLocksOK /\ MemberLocksOK /\ DecisionsStand
    BY DEF InviteLocksOK, MemberLocksOK, DecisionsStand, NoCall, Locking
<1>3. \A i \in Invites : Seats(i) = {}
    BY DEF Seats
<1>4. IsFiniteSet({}) /\ Cardinality({}) = 0
    BY FS_EmptySet
<1>5. SeatsOK
    <2>1. ASSUME NEW i \in Invites
          PROVE  IsFiniteSet(Seats(i)) /\ used[i] = Cardinality(Seats(i)) /\ (MaxUses[i] > 0 => used[i] <= MaxUses[i])
        <3>1. used[i] = 0
            OBVIOUS
        <3>2. MaxUses[i] > 0 => 0 <= MaxUses[i]
            OBVIOUS
        <3> QED BY <1>3, <1>4, <3>1, <3>2
    <2> QED BY <2>1 DEF SeatsOK
<1> QED BY <1>1, <1>2, <1>5 DEF IInv

----------------------------------------------------------------------------
(* The steps.                                                              *)

LEMMA SeatsSame ==
    ASSUME IInv, UNCHANGED <<used, redeemed>>
    PROVE  SeatsOK'
BY DEF IInv, SeatsOK, Seats

LEMMA NoCallTyped == NoCall \in CallStates /\ NoCall.pc = "idle"
BY DEF NoCall, CallStates, Kinds

\* An accept that goes on to its next statement.
LEMMA CallMoves ==
    ASSUME call \in [Calls -> CallStates], NEW c \in Calls, NEW k \in Kinds,
           NEW pc \in {"idle", "begin", "read", "act", "write"},
           \/ call' = [call EXCEPT ![c].pc = pc, ![c].kind = k]
           \/ call' = [call EXCEPT ![c].pc = pc] /\ k = call[c].kind
    PROVE  /\ call' \in [Calls -> CallStates]
           /\ \A d \in Calls \ {c} : call'[d] = call[d]
           /\ call'[c].pc = pc /\ call'[c].kind = k
           /\ call'[c].invite = call[c].invite /\ call'[c].user = call[c].user
<1>1. CASE call' = [call EXCEPT ![c].pc = pc, ![c].kind = k]
    <2> DEFINE r == [call[c] EXCEPT !.pc = pc, !.kind = k]
    <2>1. call[c] \in CallStates /\ call' = [call EXCEPT ![c] = r]
        BY <1>1
    <2>2. r \in CallStates
        BY <2>1 DEF CallStates
    <2>3. r.pc = pc /\ r.kind = k /\ r.invite = call[c].invite /\ r.user = call[c].user
        BY <2>1 DEF CallStates
    <2> HIDE DEF r
    <2> QED BY <2>1, <2>2, <2>3
<1>2. CASE call' = [call EXCEPT ![c].pc = pc] /\ k = call[c].kind
    BY <1>2 DEF CallStates
<1> QED BY <1>1, <1>2

\* Steps of the other routes and of the clock, which hold no lock for longer than a
\* statement.
LEMMA RoutesStep ==
    ASSUME IInv, UNCHANGED <<used, redeemed, locks, call>>,
           status' \in [Invites -> Statuses], member' \in [Users -> Roles],
           late' \in [Invites -> BOOLEAN], docLive' \in BOOLEAN,
           \A i \in Invites : status'[i] = status[i] \/ inviteLock[i] = NoOne
    PROVE  IInv'
<1>1. TypeOK' /\ InviteLocksOK' /\ MemberLocksOK'
    BY DEF IInv, TypeOK, InviteLocksOK, MemberLocksOK, locks
<1>2. DecisionsStand'
    <2> SUFFICES ASSUME NEW c \in Calls, call[c].pc \in {"act", "write"}
                 PROVE  /\ call[c].kind \in {"reaccept", "first"} =>
                               status'[call[c].invite] \notin {"revoked", "expired"}
                        /\ call[c].kind = "first" =>
                               /\ <<call[c].invite, call[c].user>> \notin redeemed
                               /\ ~Full(call[c].invite)
        BY DEF DecisionsStand, Full
    <2>1. call[c].invite \in Invites /\ inviteLock[call[c].invite] # NoOne
        BY DEF IInv, InviteLocksOK, Locking
    <2> QED BY <2>1 DEF IInv, DecisionsStand
<1> QED BY <1>1, <1>2, SeatsSame DEF IInv

\* Every transaction step keeps it.
LEMMA AcceptStep ==
    ASSUME IInv, NEW c \in Calls, NEW u \in Users, NEW i \in Invites, Accept(c, u, i)
    PROVE  IInv'
<1> USE DEF Accept, rows, locks
<1>t. TypeOK /\ InviteLocksOK /\ MemberLocksOK /\ DecisionsStand
    BY DEF IInv
<1>1. TypeOK'
    BY <1>t DEF TypeOK, NoCall, Kinds, CallStates
<1>2. \A d \in Calls \ {c} : call'[d] = call[d]
    BY <1>t DEF TypeOK
<1>3. call'[c].pc = "begin" /\ call'[c].invite = i /\ call'[c].user = u
    BY <1>t DEF TypeOK, NoCall
<1>4. InviteLocksOK' /\ MemberLocksOK'
    BY <1>t, <1>2, <1>3 DEF InviteLocksOK, MemberLocksOK, Locking
<1>5. DecisionsStand'
    BY <1>t, <1>2, <1>3 DEF DecisionsStand, Full
<1> QED BY <1>1, <1>4, <1>5, SeatsSame DEF IInv

LEMMA LockInviteStep ==
    ASSUME IInv, NEW c \in Calls, LockInvite(c)
    PROVE  IInv'
<1> USE DEF LockInvite, rows
<1>t. TypeOK /\ InviteLocksOK /\ MemberLocksOK /\ DecisionsStand
    BY DEF IInv
<1>0. call[c].invite \in Invites
    BY <1>t DEF InviteLocksOK
<1>k. call[c].kind \in Kinds
    BY <1>t DEF TypeOK, CallStates
<1>2. call' \in [Calls -> CallStates] /\ \A d \in Calls \ {c} : call'[d] = call[d]
    BY <1>t, <1>k, CallMoves DEF TypeOK
<1>3. call'[c].pc = "read" /\ call'[c].invite = call[c].invite /\ call'[c].user = call[c].user
    BY <1>t, <1>k, CallMoves DEF TypeOK
<1>1. TypeOK'
    BY <1>t, <1>2 DEF TypeOK
<1>4. InviteLocksOK'
    BY <1>t, <1>0, <1>2, <1>3 DEF TypeOK, InviteLocksOK, Locking
<1>5. MemberLocksOK'
    BY <1>t, <1>2, <1>3 DEF MemberLocksOK
<1>6. DecisionsStand'
    BY <1>t, <1>2, <1>3 DEF DecisionsStand, Full
<1> QED BY <1>1, <1>4, <1>5, <1>6, SeatsSame DEF IInv

\* The branch is decided under the lock of the invite: what it says of the invite's
\* status, of its seats and of the user's redemption holds until the lock is released.
LEMMA ReadStateStep ==
    ASSUME IInv, NEW c \in Calls, ReadState(c)
    PROVE  IInv'
<1> DEFINE kind == Decide(call[c].user, call[c].invite, call[c].late)
<1>t. TypeOK /\ InviteLocksOK /\ MemberLocksOK /\ DecisionsStand
    BY DEF IInv
<1>0. kind \in Kinds
    BY DEF Decide, Kinds
<1>k. /\ kind \in {"reaccept", "first"} => status[call[c].invite] \notin {"revoked", "expired"}
      /\ kind = "first" => <<call[c].invite, call[c].user>> \notin redeemed /\ ~Full(call[c].invite)
    BY DEF Decide, Gone
<1>a. call' = [call EXCEPT ![c].pc = "act", ![c].kind = kind]
    BY DEF ReadState
<1>r. call[c].pc = "read"
    BY DEF ReadState
<1>b. UNCHANGED <<status, used, redeemed, member, late, docLive, inviteLock, memberLock>>
    BY DEF ReadState, rows, locks
<1> HIDE DEF kind
<1>1. call' \in [Calls -> CallStates]
    BY <1>t, <1>0, <1>a, CallMoves DEF TypeOK
<1>2. \A d \in Calls \ {c} : call'[d] = call[d]
    BY <1>t, <1>0, <1>a, CallMoves DEF TypeOK
<1>3. /\ call'[c].pc = "act" /\ call'[c].kind = kind
      /\ call'[c].invite = call[c].invite /\ call'[c].user = call[c].user
    BY <1>t, <1>0, <1>a, CallMoves DEF TypeOK
<1>4. TypeOK'
    BY <1>t, <1>b, <1>1 DEF TypeOK
<1>5. InviteLocksOK'
    BY <1>t, <1>r, <1>b, <1>2, <1>3 DEF InviteLocksOK, Locking
<1>6. MemberLocksOK'
    BY <1>t, <1>r, <1>b, <1>2, <1>3 DEF MemberLocksOK
<1>7. DecisionsStand'
    BY <1>t, <1>k, <1>b, <1>2, <1>3 DEF DecisionsStand, Full
<1> QED BY <1>b, <1>4, <1>5, <1>6, <1>7, SeatsSame DEF IInv

LEMMA LockMemberStep ==
    ASSUME IInv, NEW c \in Calls, LockMember(c)
    PROVE  IInv'
<1> USE DEF LockMember, rows
<1>t. TypeOK /\ InviteLocksOK /\ MemberLocksOK /\ DecisionsStand
    BY DEF IInv
<1>0. call[c].user \in Users
    BY <1>t DEF InviteLocksOK
<1>k. call[c].kind \in Kinds
    BY <1>t DEF TypeOK, CallStates
<1>2. call' \in [Calls -> CallStates] /\ \A d \in Calls \ {c} : call'[d] = call[d]
    BY <1>t, <1>k, CallMoves DEF TypeOK
<1>3. /\ call[c].pc = "act" /\ call'[c].pc = "write" /\ call'[c].invite = call[c].invite
      /\ call'[c].user = call[c].user /\ call'[c].kind = call[c].kind
    BY <1>t, <1>k, CallMoves DEF TypeOK
<1>1. TypeOK'
    BY <1>t, <1>2 DEF TypeOK
<1>4. InviteLocksOK'
    BY <1>t, <1>2, <1>3 DEF InviteLocksOK, Locking
<1>5. MemberLocksOK'
    BY <1>t, <1>0, <1>2, <1>3 DEF TypeOK, MemberLocksOK
<1>6. DecisionsStand'
    BY <1>t, <1>2, <1>3 DEF DecisionsStand, Full
<1> QED BY <1>1, <1>4, <1>5, <1>6, SeatsSame DEF IInv

\* When a transaction ends its locks are free, and nobody else's are.
LEMMA ReleaseLocks ==
    ASSUME IInv, NEW c \in Calls, call[c].pc \in Locking, Release(c)
    PROVE  /\ inviteLock' \in [Invites -> Calls \cup {NoOne}]
           /\ memberLock' \in [Users -> Calls \cup {NoOne}]
           /\ call'[c] = NoCall /\ \A d \in Calls \ {c} : call'[d] = call[d]
           /\ call' = [call EXCEPT ![c] = NoCall]
           /\ InviteLocksOK' /\ MemberLocksOK'
<1> USE DEF Release
<1>t. TypeOK /\ InviteLocksOK /\ MemberLocksOK
    BY DEF IInv
<1>0. call[c].invite \in Invites /\ inviteLock[call[c].invite] = c
    BY <1>t DEF InviteLocksOK, Locking
<1>1. /\ inviteLock' \in [Invites -> Calls \cup {NoOne}]
      /\ memberLock' \in [Users -> Calls \cup {NoOne}]
    BY <1>t DEF TypeOK
<1>2. /\ call'[c] = NoCall /\ \A d \in Calls \ {c} : call'[d] = call[d]
      /\ call' = [call EXCEPT ![c] = NoCall]
    BY <1>t DEF TypeOK
<1>3. NoCall.pc = "idle"
    BY DEF NoCall
<1>4. InviteLocksOK'
    BY <1>t, <1>0, <1>2, <1>3 DEF TypeOK, InviteLocksOK, Locking
<1>5. MemberLocksOK'
    <2>1. \A u \in Users : memberLock'[u] = IF memberLock[u] = c THEN NoOne ELSE memberLock[u]
        OBVIOUS
    <2>2. \A d \in Calls : call[d].pc = "write" => call[d].user \in Users /\ d # NoOne
        BY <1>t DEF InviteLocksOK
    <2> QED BY <1>t, <1>2, <1>3, <2>1, <2>2 DEF MemberLocksOK
<1> QED BY <1>1, <1>2, <1>4, <1>5

\* An accept that ends leaves the others' decisions as they stand: whatever it changed is
\* of its own invite i, and they are about others.
LEMMA DecisionsLeft ==
    ASSUME DecisionsStand, NEW c \in Calls, call'[c].pc = "idle",
           \A d \in Calls \ {c} : call'[d] = call[d],
           \A d \in Calls \ {c} : call[d].pc \in {"act", "write"} => call[d].invite \in Invites \ {call[c].invite},
           \A j \in Invites \ {call[c].invite} : /\ status'[j] = status[j] /\ used'[j] = used[j]
                                    /\ \A v : <<j, v>> \in redeemed' => <<j, v>> \in redeemed
    PROVE  DecisionsStand'
<1>1. ASSUME NEW d \in Calls, call'[d].pc \in {"act", "write"}
      PROVE  /\ call'[d].kind \in {"reaccept", "first"} =>
                    status'[call'[d].invite] \notin {"revoked", "expired"}
             /\ call'[d].kind = "first" =>
                    /\ <<call'[d].invite, call'[d].user>> \notin redeemed'
                    /\ ~(MaxUses[call'[d].invite] > 0 /\ used'[call'[d].invite] >= MaxUses[call'[d].invite])
    <2>1. d \in Calls \ {c} /\ call'[d] = call[d]
        BY <1>1
    <2>2. call[d].invite \in Invites \ {call[c].invite}
        BY <1>1, <2>1
    <2>3. /\ status'[call[d].invite] = status[call[d].invite] /\ used'[call[d].invite] = used[call[d].invite]
          /\ <<call[d].invite, call[d].user>> \in redeemed' => <<call[d].invite, call[d].user>> \in redeemed
        BY <2>2
    <2> QED BY <1>1, <2>1, <2>3 DEF DecisionsStand, Full
<1> QED BY <1>1 DEF DecisionsStand, Full

LEMMA FinishStep ==
    ASSUME IInv, NEW c \in Calls, Finish(c)
    PROVE  IInv'
<1> DEFINE i == call[c].invite
<1>t. TypeOK /\ InviteLocksOK /\ MemberLocksOK /\ DecisionsStand
    BY DEF IInv
<1>0. /\ call[c].pc = "act" /\ call[c].kind \notin {"reaccept", "first"}
      /\ inviteLock' = [inviteLock EXCEPT ![i] = NoOne] /\ call' = [call EXCEPT ![c] = NoCall]
      /\ UNCHANGED <<used, redeemed, member, late, docLive, memberLock>>
      /\ \/ status' = status
         \/ status' = [status EXCEPT ![i] = GoneStatus(i, call[c].late, <<i, call[c].user>> \in redeemed)]
    BY DEF Finish
<1>1. i \in Invites /\ inviteLock[i] = c
    BY <1>t, <1>0 DEF InviteLocksOK, Locking
<1>2. status' \in [Invites -> Statuses] /\ \A j \in Invites \ {i} : status'[j] = status[j]
    <2>1. GoneStatus(i, call[c].late, <<i, call[c].user>> \in redeemed) \in Statuses
        BY <1>t, <1>1 DEF GoneStatus, TypeOK, Statuses
    <2> HIDE DEF i
    <2> QED BY <1>t, <1>0, <1>1, <2>1 DEF TypeOK
<1>3. TypeOK'
    BY <1>t, <1>0, <1>2, NoCallTyped DEF TypeOK
<1>4. /\ call'[c] = NoCall /\ NoCall.pc = "idle" /\ \A d \in Calls \ {c} : call'[d] = call[d]
    BY <1>t, <1>0 DEF TypeOK, NoCall
<1>5. InviteLocksOK'
    BY <1>t, <1>0, <1>1, <1>4 DEF TypeOK, InviteLocksOK, Locking
<1>6. MemberLocksOK'
    BY <1>t, <1>0, <1>4 DEF MemberLocksOK
<1>7. DecisionsStand'
    <2>1. \A d \in Calls \ {c} : call[d].pc \in {"act", "write"} =>
              call[d].invite \in Invites \ {i}
        BY <1>t, <1>1 DEF InviteLocksOK, Locking
    <2>2. \A j \in Invites \ {i} : status'[j] = status[j] /\ used'[j] = used[j] /\ \A v : <<j, v>> \in redeemed' => <<j, v>> \in redeemed
        BY <1>0, <1>2
    <2> QED BY <1>t, <1>4, <2>1, <2>2, DecisionsLeft
<1> QED BY <1>0, <1>3, <1>5, <1>6, <1>7, SeatsSame DEF IInv

LEMMA AbortStep ==
    ASSUME IInv, NEW c \in Calls, Abort(c)
    PROVE  IInv'
<1>t. TypeOK /\ DecisionsStand
    BY DEF IInv
<1>0. call[c].pc \in Locking /\ Release(c) /\ UNCHANGED <<rows, late, docLive>>
    BY DEF Abort, Locking
<1>1. /\ inviteLock' \in [Invites -> Calls \cup {NoOne}]
      /\ memberLock' \in [Users -> Calls \cup {NoOne}]
      /\ call'[c] = NoCall /\ \A d \in Calls \ {c} : call'[d] = call[d]
      /\ call' = [call EXCEPT ![c] = NoCall]
      /\ InviteLocksOK' /\ MemberLocksOK'
    BY <1>0, ReleaseLocks
<1>2. TypeOK'
    BY <1>t, <1>0, <1>1, NoCallTyped DEF TypeOK, rows
<1>3. DecisionsStand'
    <2>1. \A d \in Calls \ {c} : call[d].pc \in {"act", "write"} => call[d].invite \in Invites \ {call[c].invite}
        BY <1>t, <1>0 DEF IInv, InviteLocksOK, Locking
    <2>2. NoCall.pc = "idle"
        BY DEF NoCall
    <2> QED BY <1>t, <1>0, <1>1, <2>1, <2>2, DecisionsLeft DEF rows
<1> QED BY <1>0, <1>1, <1>2, <1>3, SeatsSame DEF IInv, rows

\* A first accept takes one seat, which the limit leaves and its user has not had.
LEMMA CommitStep ==
    ASSUME IInv, NEW c \in Calls, Commit(c)
    PROVE  IInv'
<1> DEFINE i == call[c].invite
           u == call[c].user
<1>t. TypeOK /\ InviteLocksOK /\ MemberLocksOK /\ DecisionsStand /\ SeatsOK
    BY DEF IInv
<1>0. /\ call[c].pc = "write" /\ call[c].pc \in Locking /\ Release(c)
      /\ member' = [member EXCEPT ![u] = InviteRole[i]] /\ UNCHANGED <<late, docLive>>
    BY DEF Commit, Locking
<1>1. /\ inviteLock' \in [Invites -> Calls \cup {NoOne}]
      /\ memberLock' \in [Users -> Calls \cup {NoOne}]
      /\ call'[c] = NoCall /\ \A d \in Calls \ {c} : call'[d] = call[d]
      /\ call' = [call EXCEPT ![c] = NoCall]
      /\ InviteLocksOK' /\ MemberLocksOK'
    BY <1>0, ReleaseLocks
<1>2. i \in Invites /\ u \in Users /\ inviteLock[i] = c
    BY <1>t, <1>0 DEF InviteLocksOK
<1>3. CASE call[c].kind = "first"
    <2>1. /\ redeemed' = redeemed \cup {<<i, u>>}
          /\ used' = [used EXCEPT ![i] = @ + 1]
          /\ status' = [status EXCEPT ![i] = StatusAfterUse(i)]
        BY <1>3 DEF Commit
    <2>2. /\ status' \in [Invites -> Statuses] /\ \A j \in Invites \ {i} : status'[j] = status[j]
          /\ used' \in [Invites -> Nat] /\ used'[i] = used[i] + 1
          /\ \A j \in Invites \ {i} : used'[j] = used[j]
        <3>1. StatusAfterUse(i) \in Statuses
            BY <1>t, <1>2 DEF StatusAfterUse, TypeOK, Statuses
        <3> HIDE DEF i
        <3> QED BY <1>t, <1>2, <2>1, <3>1 DEF TypeOK
    <2>3. TypeOK'
        <3>1. redeemed' \subseteq Invites \X Users /\ member' \in [Users -> Roles]
            BY <1>t, <1>0, <1>2, <2>1 DEF TypeOK
        <3>2. call' \in [Calls -> CallStates]
            BY <1>t, <1>1, NoCallTyped DEF TypeOK
        <3> QED BY <1>t, <1>0, <1>1, <2>2, <3>1, <3>2 DEF TypeOK
    <2>4. /\ <<i, u>> \notin redeemed /\ ~Full(i)
        BY <1>t, <1>0, <1>3 DEF DecisionsStand
    <2>5. DecisionsStand'
        <3>1. \A d \in Calls \ {c} : call[d].pc \in {"act", "write"} =>
                  call[d].invite \in Invites \ {i}
            BY <1>t, <1>2 DEF InviteLocksOK, Locking
        <3>2. NoCall.pc = "idle"
            BY DEF NoCall
        <3>3. \A j \in Invites \ {i} : \A v : <<j, v>> \in redeemed' => <<j, v>> \in redeemed
            BY <2>1
        <3>4. \A j \in Invites \ {i} : status'[j] = status[j] /\ used'[j] = used[j] /\ \A v : <<j, v>> \in redeemed' => <<j, v>> \in redeemed
            BY <2>2, <3>3
        <3> QED BY <1>t, <1>1, <3>1, <3>2, <3>4, DecisionsLeft
    <2>6. ASSUME NEW j \in Invites
          PROVE  /\ IsFiniteSet(Seats(j)') /\ used'[j] = Cardinality(Seats(j)')
                 /\ MaxUses[j] > 0 => used'[j] <= MaxUses[j]
        <3> HIDE DEF i, u
        <3>1. CASE j = i
            <4>1. Seats(j)' = Seats(i) \cup {u} /\ u \notin Seats(i)
                BY <1>2, <2>1, <2>4, <3>1 DEF Seats
            <4>2. IsFiniteSet(Seats(i)) /\ used[i] = Cardinality(Seats(i))
                BY <1>t, <1>2 DEF SeatsOK
            <4>3. IsFiniteSet(Seats(i) \cup {u}) /\ Cardinality(Seats(i) \cup {u}) = Cardinality(Seats(i)) + 1
                BY <4>1, <4>2, FS_AddElement
            <4>4. used[i] \in Nat /\ MaxUses[i] \in Nat
                BY <1>t, <1>2 DEF TypeOK
            <4>5. MaxUses[i] > 0 => used[i] + 1 <= MaxUses[i]
                BY <2>4, <4>4 DEF Full
            <4> QED BY <2>2, <3>1, <4>1, <4>2, <4>3, <4>5
        <3>2. CASE j # i
            <4>1. Seats(j)' = Seats(j)
                BY <2>1, <3>2 DEF Seats
            <4> QED BY <1>t, <2>2, <3>2, <4>1 DEF SeatsOK
        <3> QED BY <3>1, <3>2
    <2>7. SeatsOK'
        BY <2>6 DEF SeatsOK
    <2> QED BY <1>1, <2>3, <2>5, <2>7 DEF IInv
<1>4. CASE call[c].kind # "first"
    <2>1. UNCHANGED <<redeemed, used, status>>
        BY <1>4 DEF Commit
    <2>2. TypeOK'
        BY <1>t, <1>0, <1>1, <1>2, <2>1, NoCallTyped DEF TypeOK
    <2>3. DecisionsStand'
        <3>1. \A d \in Calls \ {c} : call[d].pc \in {"act", "write"} => call[d].invite \in Invites \ {i}
            BY <1>t, <1>0 DEF InviteLocksOK, Locking
        <3>2. NoCall.pc = "idle"
            BY DEF NoCall
        <3> QED BY <1>t, <1>1, <2>1, <3>1, <3>2, DecisionsLeft
    <2> QED BY <1>1, <2>1, <2>2, <2>3, SeatsSame DEF IInv
<1> QED BY <1>3, <1>4

LEMMA NextIInv == IInv /\ [Next]_vars => IInv'
<1> SUFFICES ASSUME IInv, [Next]_vars PROVE IInv'
    OBVIOUS
<1>t. /\ status \in [Invites -> Statuses] /\ member \in [Users -> Roles]
      /\ late \in [Invites -> BOOLEAN] /\ docLive \in BOOLEAN
    BY DEF IInv, TypeOK
<1>1. ASSUME NEW i \in Invites, Revoke(i) PROVE IInv'
    BY <1>1, <1>t, RoutesStep DEF Revoke, Statuses
<1>2. ASSUME NEW i \in Invites, ClockPasses(i) PROVE IInv'
    BY <1>2, <1>t, RoutesStep DEF ClockPasses, rows
<1>3. ASSUME NEW u \in Users, Remove(u) PROVE IInv'
    <2>1. member' \in [Users -> Roles]
        BY <1>3, <1>t DEF Remove, Roles, None, Admin
    <2> QED BY <1>3, <1>t, <2>1, RoutesStep DEF Remove
<1>4. ASSUME NEW u \in Users, NEW x \in AdminRoles, PutMember(u, x) PROVE IInv'
    <2>1. member' \in [Users -> Roles]
        BY <1>4, <1>t DEF PutMember
    <2> QED BY <1>4, <1>t, <2>1, RoutesStep DEF PutMember
<1>5. ASSUME SoftDelete PROVE IInv'
    BY <1>5, <1>t, RoutesStep DEF SoftDelete, rows
<1>6. ASSUME UNCHANGED vars PROVE IInv'
    BY <1>6, <1>t, RoutesStep DEF vars, rows, locks
<1> QED BY <1>1, <1>2, <1>3, <1>4, <1>5, <1>6, AcceptStep, LockInviteStep, ReadStateStep, FinishStep,
           LockMemberStep, CommitStep, AbortStep DEF Next, Advance

LEMMA Invariance == Spec => []IInv
BY InitIInv, NextIInv, PTL DEF Spec

----------------------------------------------------------------------------
(* The theorems.                                                           *)

\* The variables keep their types.
THEOREM TypeCorrect == Spec => []TypeOK
BY Invariance, PTL DEF IInv

\* However the accepts of an invite interleave, abort and come again, its count is the
\* number of users who redeemed it and never passes its limit.
THEOREM SeatsAreCounted == Spec => []SeatsCounted
<1>1. IInv => SeatsCounted
    BY DEF IInv, SeatsOK, Seats, SeatsCounted
<1> QED BY <1>1, Invariance, PTL

\* A chain of accepts waiting for each other is at most two long: the one in front holds
\* a member lock, so it has all the locks it will ever take.
THEOREM NoDeadlock == Spec => []SomebodyProceeds
<1>1. ASSUME IInv, NEW c \in Calls, call[c].pc = "act", Blocked(c)
      PROVE  \E d \in Calls : call[d].pc # "idle" /\ ~Blocked(d)
    <2>1. call[c].user \in Users /\ memberLock[call[c].user] # NoOne
        BY <1>1 DEF IInv, InviteLocksOK, Blocked
    <2>2. PICK d \in Calls : memberLock[call[c].user] = d
        BY <1>1, <2>1 DEF IInv, TypeOK
    <2>3. call[d].pc = "write"
        BY <1>1, <2>1, <2>2 DEF IInv, MemberLocksOK
    <2> QED BY <2>3 DEF Blocked
<1>2. ASSUME IInv, NEW c \in Calls, call[c].pc = "begin", Blocked(c)
      PROVE  \E d \in Calls : call[d].pc # "idle" /\ ~Blocked(d)
    <2>1. call[c].invite \in Invites /\ inviteLock[call[c].invite] # NoOne
        BY <1>2 DEF IInv, InviteLocksOK, Blocked
    <2>2. PICK d \in Calls : inviteLock[call[c].invite] = d
        BY <1>2, <2>1 DEF IInv, TypeOK
    <2>3. call[d].pc \in Locking
        BY <1>2, <2>1, <2>2 DEF IInv, InviteLocksOK
    <2> QED BY <1>1, <1>2, <2>3 DEF Locking, Blocked
<1>3. IInv => SomebodyProceeds
    BY <1>1, <1>2 DEF SomebodyProceeds, Blocked
<1> QED BY <1>3, Invariance, PTL

\* An accept that seats its user has held the invite's row lock since it read that the
\* invite was not revoked, so a revocation comes before its reads or after its commit.
THEOREM RevocationHolds == Spec => RevokedIsFinal
<1> DEFINE Held(i) == status[i] = "revoked" =>
                          /\ status'[i] = "revoked" /\ used'[i] = used[i]
                          /\ \A c \in Calls : call[c].invite = i => ~Commit(c)
<1>1. ASSUME IInv, [Next]_vars, NEW i \in Invites, status[i] = "revoked" PROVE Held(i)
    <2>t. TypeOK
        BY <1>1 DEF IInv
    <2>1. \A c \in Calls : call[c].invite = i => ~Commit(c)
        <3> SUFFICES ASSUME NEW c \in Calls, call[c].invite = i, call[c].pc = "write" PROVE FALSE
            BY DEF Commit
        <3> QED BY <1>1 DEF IInv, DecisionsStand, MemberLocksOK
    <2>2. ASSUME NEW c \in Calls, Commit(c) PROVE status'[i] = status[i] /\ used'[i] = used[i]
        BY <2>1, <2>2, <2>t DEF Commit, TypeOK
    <2>3. ASSUME NEW c \in Calls, Finish(c) PROVE status'[i] = "revoked" /\ used'[i] = used[i]
        BY <1>1, <2>3, <2>t DEF Finish, GoneStatus, TypeOK
    <2>4. ASSUME NEW j \in Invites, Revoke(j) PROVE status'[i] = "revoked" /\ used'[i] = used[i]
        BY <1>1, <2>4, <2>t DEF Revoke, TypeOK
    <2>5. ASSUME NEW c \in Calls,
                 \/ \E u \in Users, j \in Invites : Accept(c, u, j)
                 \/ LockInvite(c) \/ ReadState(c) \/ LockMember(c) \/ Abort(c)
          PROVE  UNCHANGED <<status, used>>
        BY <2>5 DEF Accept, LockInvite, ReadState, LockMember, Abort, rows
    <2>6. ASSUME \/ \E j \in Invites : ClockPasses(j)
                 \/ \E u \in Users : Remove(u) \/ \E x \in AdminRoles : PutMember(u, x)
                 \/ SoftDelete \/ UNCHANGED vars
          PROVE  UNCHANGED <<status, used>>
        BY <2>6 DEF ClockPasses, Remove, PutMember, SoftDelete, rows, vars
    <2> QED BY <1>1, <2>1, <2>2, <2>3, <2>4, <2>5, <2>6 DEF Next, Advance
<1>2. IInv /\ [Next]_vars => [\A i \in Invites : Held(i)]_vars
    BY <1>1
<1> QED BY <1>2, Invariance, PTL DEF Spec, RevokedIsFinal
=============================================================================
