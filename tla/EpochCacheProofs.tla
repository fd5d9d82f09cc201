-------------------------- MODULE EpochCacheProofs --------------------------
(***************************************************************************)
(* Proofs about EpochCache, for any set of nodes, requests and calls and   *)
(* any number of bumps.                                                    *)
(***************************************************************************)
EXTENDS EpochCache, TLAPS

\* NothingAhead is not inductive: it looks only at the values in use, and a step
\* may put another field of a record to use. Bounding the value of every record,
\* whatever its pc, is.
CopiesInv ==
    /\ redis # NoVal => redis <= epoch
    /\ \A n \in Nodes : local[n] # NoVal => local[n] <= epoch
    /\ \A n \in Nodes : flight[n].val <= epoch
    /\ MarkNeverAhead

\* A request in bumpEpoch knows an epoch that has been committed, and a request
\* that has begun runs on some node.
BumpInv ==
    \A b \in Bumpers : /\ bump[b].val <= epoch
                       /\ bump[b].pc # "idle" => bump[b].node \in Nodes

\* The same for a call of currentEpoch and the token it is made for.
CallOK(r) ==
    /\ r \in CallStates
    /\ r.val <= epoch
    /\ r.token <= epoch
    /\ r.pc # "idle" => r.node \in Nodes
CallInv == \A c \in Calls : CallOK(call[c])

IInv == TypeOK /\ CopiesInv /\ BumpInv /\ CallInv

USE MaxEpochAssumption, NoValAssumption

\* The initial state satisfies the inductive invariant.
LEMMA InitIInv == Init => IInv
BY DEF Init, IInv, TypeOK, ViewTypeOK, ViewInit, CopiesInv, BumpInv, CallInv, CallOK,
       MarkNeverAhead, NoFlight, NoBump, NoCall, FlightStates, BumpStates, CallStates, Epochs, Maybe

\* What a caller passes on is bounded by the epoch when its token and the value it
\* got are.
LEMMA HeardBounds ==
    ASSUME TypeOK, NEW c \in Calls, NEW v \in 0..epoch, call[c].token <= epoch
    PROVE  Heard(c, v) \in 0..epoch
BY DEF Heard, TypeOK, ViewTypeOK, CallStates, Epochs

\* Replacing one call by another that is in order keeps all of them in order.
LEMMA CallUpdate ==
    ASSUME IInv, NEW c \in Calls, NEW r, CallOK(r),
           call' = [call EXCEPT ![c] = r], epoch' = epoch
    PROVE  call' \in [Calls -> CallStates] /\ CallInv'
BY DEF IInv, TypeOK, CallInv, CallOK

\* So does leaving them alone ...
LEMMA CallsSame ==
    ASSUME IInv, call' = call, epoch' = epoch
    PROVE  call' \in [Calls -> CallStates] /\ CallInv'
BY DEF IInv, TypeOK, CallInv, CallOK

\* ... and ending some of them.
LEMMA CallsEnd ==
    ASSUME IInv, NEW S \in SUBSET Calls, epoch' = epoch,
           call' = [c \in Calls |-> IF c \in S THEN NoCall ELSE call[c]]
    PROVE  call' \in [Calls -> CallStates] /\ CallInv'
BY DEF IInv, TypeOK, ViewTypeOK, CallInv, CallOK, CallStates, NoCall, Epochs

\* Raising a watermark to an epoch that has been committed keeps it behind.
LEMMA RaiseBehind ==
    ASSUME IInv, NEW n \in Nodes, NEW e \in 0..epoch, Raise(n, e)
    PROVE  mark' \in [Nodes -> 0..MaxEpoch] /\ \A m \in Nodes : mark'[m] <= epoch
BY DEF IInv, TypeOK, ViewTypeOK, CopiesInv, MarkNeverAhead, Raise

\* What is left of the invariant when the calls are taken care of.
LEMMA Rest ==
    ASSUME IInv, epoch' = epoch, bump' = bump, flight' \in [Nodes -> FlightStates],
           redis' \in Maybe, redis' # NoVal => redis' <= epoch,
           local' \in [Nodes -> Maybe], \A n \in Nodes : local'[n] # NoVal => local'[n] <= epoch,
           \A n \in Nodes : flight'[n].val <= epoch,
           mark' \in [Nodes -> 0..MaxEpoch], \A m \in Nodes : mark'[m] <= epoch,
           inbox' \in [Nodes -> Nat],
           call' \in [Calls -> CallStates], CallInv'
    PROVE  IInv'
BY DEF IInv, TypeOK, ViewTypeOK, CopiesInv, MarkNeverAhead, BumpInv

\* Every step keeps every copy, watermark and token at or behind the database.
LEMMA NextIInv == IInv /\ [Next]_vars => IInv'
<1> SUFFICES ASSUME IInv, [Next]_vars PROVE IInv'
  OBVIOUS
<1>0. /\ epoch \in 0..MaxEpoch
      /\ \A c \in Calls : CallOK(call[c])
      /\ \A n \in Nodes : inbox[n] \in Nat
  BY DEF IInv, TypeOK, ViewTypeOK, CallInv
<1>a. /\ mark \in [Nodes -> 0..MaxEpoch] /\ \A n \in Nodes : mark[n] <= epoch
      /\ redis \in Maybe /\ (redis # NoVal => redis <= epoch)
      /\ local \in [Nodes -> Maybe] /\ \A n \in Nodes : local[n] # NoVal => local[n] <= epoch
      /\ flight \in [Nodes -> FlightStates] /\ \A n \in Nodes : flight[n].val <= epoch
      /\ inbox \in [Nodes -> Nat]
      /\ call \in [Calls -> CallStates]
      /\ NoVal \in Maybe
  BY DEF IInv, TypeOK, ViewTypeOK, CopiesInv, MarkNeverAhead, Maybe
<1>1. ASSUME NEW b \in Bumpers, NEW n \in Nodes, BumpTx(b, n) PROVE IInv'
  BY <1>1 DEF BumpTx, Bump, IInv, TypeOK, ViewTypeOK, CopiesInv, MarkNeverAhead, BumpInv, CallInv,
     CallOK, FlightStates, BumpStates, CallStates, Epochs, Maybe
<1>2. ASSUME NEW b \in Bumpers, RefreshRedis(b) PROVE IInv'
  BY <1>2 DEF RefreshRedis, RedisWrite, IInv, TypeOK, ViewTypeOK, CopiesInv, MarkNeverAhead, BumpInv,
     CallInv, CallOK, BumpStates, Epochs, Maybe
<1>3. ASSUME NEW b \in Bumpers, RefreshLocal(b) PROVE IInv'
  BY <1>3 DEF RefreshLocal, IInv, TypeOK, ViewTypeOK, CopiesInv, MarkNeverAhead, BumpInv,
     CallInv, CallOK, BumpStates, Epochs, Maybe
<1>4. ASSUME NEW b \in Bumpers, Publish(b) PROVE IInv'
  BY <1>4 DEF Publish, NoBump, IInv, TypeOK, ViewTypeOK, CopiesInv, MarkNeverAhead, BumpInv,
     CallInv, CallOK, BumpStates, Epochs, Maybe
<1>5. ASSUME NEW c \in Calls, NEW n \in Nodes, Deliver(c, n) PROVE IInv'
  <2>1. CallOK(NewCall(n, "invalidate", "del", 0))
    BY <1>0 DEF CallOK, CallStates, NewCall, Epochs
  <2>2. /\ local' \in [Nodes -> Maybe] /\ \A m \in Nodes : local'[m] # NoVal => local'[m] <= epoch
        /\ inbox' \in [Nodes -> Nat]
    BY <1>5, <1>0, <1>a DEF Deliver
  <2> QED
    BY <1>5, <1>a, <2>1, <2>2, CallUpdate, Rest DEF Deliver
<1>6. ASSUME NEW c \in Calls, InvalidateRedis(c) PROVE IInv'
  <2>1. CallOK([call[c] EXCEPT !.pc = "ask"])
    BY <1>6, <1>0 DEF InvalidateRedis, CallOK, CallStates
  <2>2. /\ call' = [call EXCEPT ![c] = [call[c] EXCEPT !.pc = "ask"]]
        /\ redis' \in Maybe /\ (redis' # NoVal => redis' <= epoch)
    BY <1>6, <1>a DEF InvalidateRedis, RedisWrite
  <2> QED
    BY <1>6, <1>a, <2>1, <2>2, CallUpdate, Rest DEF InvalidateRedis
<1>7. ASSUME NEW c \in Calls, NEW n \in Nodes, NEW t \in 0..epoch, StartAuth(c, n, t) PROVE IInv'
  <2>1. CallOK(NewCall(n, "auth", "ask", t))
    BY <1>0 DEF CallOK, CallStates, NewCall, Epochs
  <2> QED
    BY <1>7, <1>a, <2>1, CallUpdate, Rest DEF StartAuth
<1>8. ASSUME NEW c \in Calls, AskLocal(c) PROVE IInv'
  <2>n. call[c].node \in Nodes
    BY <1>8, <1>0 DEF AskLocal, CallOK
  <2>1. CASE local[call[c].node] = NoVal
    <3>1. CallOK([call[c] EXCEPT !.pc = "get"])
      BY <1>8, <1>0 DEF AskLocal, CallOK, CallStates
    <3>2. call' = [call EXCEPT ![c] = [call[c] EXCEPT !.pc = "get"]]
      BY <1>8, <2>1 DEF AskLocal
    <3> QED
      BY <1>8, <2>1, <1>a, <3>1, <3>2, CallUpdate, Rest DEF AskLocal
  <2>2. CASE local[call[c].node] # NoVal
    <3>1. local[call[c].node] \in 0..epoch
      BY <2>n, <2>2, <1>0, <1>a DEF Maybe, Epochs
    <3>2. Heard(c, local[call[c].node]) \in 0..epoch
      BY <3>1, <1>0, HeardBounds DEF IInv, CallOK
    <3>3. Raise(call[c].node, Heard(c, local[call[c].node])) /\ call' = [call EXCEPT ![c] = NoCall]
      BY <1>8, <2>2 DEF AskLocal
    <3>4. CallOK(NoCall)
      BY <1>0 DEF CallOK, CallStates, NoCall, Epochs
    <3> QED
      BY <1>8, <2>n, <1>a, <3>2, <3>3, <3>4, CallUpdate, RaiseBehind, Rest DEF AskLocal
  <2> QED
    BY <2>1, <2>2
<1>9. ASSUME NEW c \in Calls, AskRedis(c) PROVE IInv'
  <2> DEFINE r == IF redis = NoVal THEN [call[c] EXCEPT !.pc = "miss"]
                  ELSE [call[c] EXCEPT !.pc = "reply", !.val = redis]
  <2>1. CallOK(r)
    BY <1>9, <1>0, <1>a DEF AskRedis, CallOK, CallStates, Maybe, Epochs
  <2>2. call' = [call EXCEPT ![c] = r]
    BY <1>9 DEF AskRedis
  <2> HIDE DEF r
  <2> QED
    BY <1>9, <1>a, <2>1, <2>2, CallUpdate, Rest DEF AskRedis
<1>10. ASSUME NEW c \in Calls, RedisHit(c) PROVE IInv'
  <2>1. call[c].node \in Nodes /\ call[c].val \in 0..epoch /\ call[c].token <= epoch
    BY <1>10, <1>0 DEF RedisHit, CallOK, CallStates, Epochs
  <2>2. Heard(c, call[c].val) \in 0..epoch
    BY <2>1, HeardBounds DEF IInv
  <2>3. local' \in [Nodes -> Maybe] /\ \A m \in Nodes : local'[m] # NoVal => local'[m] <= epoch
    BY <1>10, <1>0, <1>a, <2>1 DEF RedisHit, Maybe, Epochs
  <2>4. CallOK(NoCall)
    BY <1>0 DEF CallOK, CallStates, NoCall, Epochs
  <2> QED
    BY <1>10, <1>a, <2>1, <2>2, <2>3, <2>4, CallUpdate, RaiseBehind, Rest DEF RedisHit
<1>11. ASSUME NEW c \in Calls, RedisMiss(c) PROVE IInv'
  <2>1. CallOK([call[c] EXCEPT !.pc = "join"])
    BY <1>11, <1>0 DEF RedisMiss, CallOK, CallStates
  <2>2. /\ call' = [call EXCEPT ![c] = [call[c] EXCEPT !.pc = "join"]]
        /\ flight' \in [Nodes -> FlightStates] /\ \A n \in Nodes : flight'[n].val <= epoch
    BY <1>11, <1>a DEF RedisMiss, FlightStates
  <2> QED
    BY <1>11, <1>a, <2>1, <2>2, CallUpdate, Rest DEF RedisMiss
<1>12. ASSUME NEW c \in Calls, AskFails(c) PROVE IInv'
  <2>1. CallOK(NoCall)
    BY <1>0 DEF CallOK, CallStates, NoCall, Epochs
  <2> QED
    BY <1>12, <1>a, <2>1, CallUpdate, Rest DEF AskFails
<1>13. ASSUME NEW n \in Nodes, FlightRead(n) PROVE IInv'
  <2>1. flight' \in [Nodes -> FlightStates] /\ \A m \in Nodes : flight'[m].val <= epoch
    BY <1>13, <1>0, <1>a DEF FlightRead, FlightStates, Epochs
  <2> QED
    BY <1>13, <1>a, <2>1, CallsSame, Rest DEF FlightRead
<1>14. ASSUME NEW n \in Nodes, FlightWarm(n) PROVE IInv'
  <2>1. flight' \in [Nodes -> FlightStates] /\ \A m \in Nodes : flight'[m].val <= epoch
    BY <1>14, <1>a DEF FlightWarm, FlightStates
  <2>2. redis' \in Maybe /\ (redis' # NoVal => redis' <= epoch)
    BY <1>14, <1>a DEF FlightWarm, RedisWrite, FlightStates, Maybe
  <2> QED
    BY <1>14, <1>a, <2>1, <2>2, CallsSame, Rest DEF FlightWarm
<1>15. ASSUME NEW n \in Nodes, FlightFill(n) PROVE IInv'
  <2>1. flight[n].val \in 0..epoch
    BY <1>0, <1>a DEF FlightStates, Epochs
  <2>2. PICK e \in {0} \cup {Heard(c, flight[n].val) : c \in Joined(n)} : Raise(n, e)
    BY <1>15 DEF FlightFill
  <2>3. e \in 0..epoch
    <3>1. \A c \in Joined(n) : Heard(c, flight[n].val) \in 0..epoch
      BY <2>1, <1>0, HeardBounds DEF Joined, IInv, CallOK
    <3> QED
      BY <2>2, <3>1, <1>0
  <2>4. local' \in [Nodes -> Maybe] /\ \A m \in Nodes : local'[m] # NoVal => local'[m] <= epoch
    BY <1>15, <1>a, <1>0, <2>1 DEF FlightFill, Maybe, Epochs
  <2>5. flight' \in [Nodes -> FlightStates] /\ \A m \in Nodes : flight'[m].val <= epoch
    BY <1>15, <1>a, <1>0 DEF FlightFill, NoFlight, FlightStates, Epochs
  <2>6. call' \in [Calls -> CallStates] /\ CallInv'
    BY <1>15, CallsEnd, Joined(n) \subseteq Calls DEF FlightFill, Joined
  <2> QED
    BY <1>15, <1>a, <2>2, <2>3, <2>4, <2>5, <2>6, RaiseBehind, Rest DEF FlightFill
<1>16. ASSUME NEW n \in Nodes, FlightFails(n) PROVE IInv'
  <2>1. flight' \in [Nodes -> FlightStates] /\ \A m \in Nodes : flight'[m].val <= epoch
    BY <1>16, <1>a, <1>0 DEF FlightFails, NoFlight, FlightStates, Epochs
  <2>2. call' \in [Calls -> CallStates] /\ CallInv'
    BY <1>16, CallsEnd, Joined(n) \subseteq Calls DEF FlightFails, Joined
  <2> QED
    BY <1>16, <1>a, <2>1, <2>2, Rest DEF FlightFails
<1>17. ASSUME NEW n \in Nodes, LocalExpire(n) PROVE IInv'
  <2>1. local' \in [Nodes -> Maybe] /\ \A m \in Nodes : local'[m] # NoVal => local'[m] <= epoch
    BY <1>17, <1>a DEF LocalExpire
  <2> QED
    BY <1>17, <1>a, <2>1, CallsSame, Rest DEF LocalExpire
<1>18. CASE RedisExpire
  BY <1>18, <1>a, CallsSame, Rest DEF RedisExpire
<1>19. ASSUME NEW n \in Nodes, Restart(n) PROVE IInv'
  <2>1. call' \in [Calls -> CallStates] /\ CallInv'
    <3> DEFINE S == {c \in Calls : call[c].node = n}
    <3>1. call' = [c \in Calls |-> IF c \in S THEN NoCall ELSE call[c]] /\ epoch' = epoch
      BY <1>19 DEF Restart
    <3>2. S \in SUBSET Calls
      OBVIOUS
    <3> HIDE DEF S
    <3> QED
      BY <3>1, <3>2, CallsEnd
  <2>2. bump' \in [Bumpers -> BumpStates] /\ BumpInv'
    BY <1>19, <1>0 DEF Restart, IInv, TypeOK, BumpInv, BumpStates, NoBump, Epochs
  <2>3. flight' \in [Nodes -> FlightStates] /\ \A m \in Nodes : flight'[m].val <= epoch
    BY <1>19, <1>a, <1>0 DEF Restart, NoFlight, FlightStates, Epochs
  <2>4. /\ local' \in [Nodes -> Maybe] /\ \A m \in Nodes : local'[m] # NoVal => local'[m] <= epoch
        /\ mark' \in [Nodes -> 0..MaxEpoch] /\ \A m \in Nodes : mark'[m] <= epoch
        /\ inbox' \in [Nodes -> Nat]
    BY <1>19, <1>a, <1>0 DEF Restart
  <2> QED
    BY <1>19, <1>0, <1>a, <2>1, <2>2, <2>3, <2>4
       DEF Restart, IInv, TypeOK, ViewTypeOK, CopiesInv, MarkNeverAhead
<1>20. CASE UNCHANGED vars
  BY <1>20, <1>a, CallsSame, Rest DEF vars
<1> QED
  BY <1>1, <1>2, <1>3, <1>4, <1>5, <1>6, <1>7, <1>8, <1>9, <1>10, <1>11, <1>12, <1>13, <1>14,
     <1>15, <1>16, <1>17, <1>18, <1>19, <1>20
     DEF Next, BumpStep, CallStep, FlightStep

\* IInv holds in every reachable state: the types, what the copies in flight and in
\* the caches may hold, and what the requests and calls in progress know.
THEOREM Invariance == Spec => []IInv
<1>1. Init => IInv
  BY InitIInv
<1>2. IInv /\ [Next]_vars => IInv'
  BY NextIInv
<1> QED
  BY <1>1, <1>2, PTL DEF Spec

\* Every variable keeps its type, for any number of nodes, requests and calls.
THEOREM TypeCorrect == Spec => []TypeOK
BY Invariance, PTL DEF IInv

\* A copy of the epoch in use, a watermark and a token never run ahead of the
\* database: no permission change takes effect before it commits.
THEOREM Safety == Spec => []NothingAhead
<1>1. IInv => NothingAhead
  <2> SUFFICES ASSUME IInv PROVE NothingAhead
    OBVIOUS
  <2>1. ASSUME NEW v \in Copies, v # NoVal PROVE v <= epoch
    BY <2>1 DEF Copies, IInv, CopiesInv, BumpInv, CallInv, CallOK
  <2> QED
    BY <2>1 DEF NothingAhead, IInv, CopiesInv, CallInv, CallOK
<1> QED
  BY <1>1, Invariance, PTL


----------------------------------------------------------------------------
(* EpochCache implements EpochView.                                        *)

\* Seen through the epoch and the watermarks alone, a step of the caches is a bump,
\* a watermark raised to a committed epoch, a restart, or nothing.
LEMMA StepView == IInv /\ [Next]_vars => [View!ViewNext]_(View!viewVars)
<1> SUFFICES ASSUME IInv, [Next]_vars PROVE View!ViewNext \/ UNCHANGED <<epoch, mark>>
  BY DEF View!viewVars
<1> USE DEF View!ViewNext
<1>0. epoch \in 0..MaxEpoch /\ \A c \in Calls : CallOK(call[c])
  BY DEF IInv, TypeOK, ViewTypeOK, CallInv
<1>r. ASSUME NEW n \in Nodes, NEW e \in 0..epoch, Raise(n, e), epoch' = epoch
      PROVE  View!ViewNext
  BY <1>r DEF View!RaiseView, View!Raise, Raise
<1>1. ASSUME NEW b \in Bumpers, NEW n \in Nodes, BumpTx(b, n) PROVE View!ViewNext
  BY <1>1 DEF BumpTx, Bump, View!BumpView, View!Bump
<1>2. ASSUME NEW b \in Bumpers, BumpStep(b) PROVE UNCHANGED <<epoch, mark>>
  BY <1>2 DEF BumpStep, RefreshRedis, RefreshLocal, Publish
<1>3. ASSUME NEW c \in Calls, NEW n \in Nodes, Deliver(c, n) PROVE UNCHANGED <<epoch, mark>>
  BY <1>3 DEF Deliver
<1>4. ASSUME NEW c \in Calls, NEW n \in Nodes, NEW t \in 0..epoch, StartAuth(c, n, t)
      PROVE UNCHANGED <<epoch, mark>>
  BY <1>4 DEF StartAuth
<1>5. ASSUME NEW c \in Calls, AskLocal(c) PROVE View!ViewNext \/ UNCHANGED <<epoch, mark>>
  <2>1. CASE local[call[c].node] = NoVal
    BY <1>5, <2>1 DEF AskLocal
  <2>2. CASE local[call[c].node] # NoVal
    <3>1. call[c].node \in Nodes /\ call[c].token <= epoch
      BY <1>5, <1>0 DEF AskLocal, CallOK
    <3>2. local[call[c].node] \in 0..epoch
      BY <3>1, <2>2 DEF IInv, TypeOK, ViewTypeOK, CopiesInv, Maybe, Epochs
    <3>3. Heard(c, local[call[c].node]) \in 0..epoch
      BY <3>1, <3>2, HeardBounds DEF IInv
    <3> QED
      BY <1>5, <2>2, <3>1, <3>3, <1>r DEF AskLocal
  <2> QED
    BY <2>1, <2>2
<1>6. ASSUME NEW c \in Calls, RedisHit(c) PROVE View!ViewNext
  <2>1. call[c].node \in Nodes /\ call[c].val \in 0..epoch /\ call[c].token <= epoch
    BY <1>6, <1>0 DEF RedisHit, CallOK, CallStates, Epochs
  <2>2. Heard(c, call[c].val) \in 0..epoch
    BY <2>1, HeardBounds DEF IInv
  <2> QED
    BY <1>6, <2>1, <2>2, <1>r DEF RedisHit
<1>7. ASSUME NEW c \in Calls, InvalidateRedis(c) \/ AskRedis(c) \/ RedisMiss(c) \/ AskFails(c)
      PROVE UNCHANGED <<epoch, mark>>
  BY <1>7 DEF InvalidateRedis, AskRedis, RedisMiss, AskFails
<1>8. ASSUME NEW n \in Nodes, FlightFill(n) PROVE View!ViewNext
  <2>1. flight[n].val \in 0..epoch
    BY DEF IInv, TypeOK, ViewTypeOK, CopiesInv, FlightStates, Epochs
  <2>2. \A c \in Joined(n) : Heard(c, flight[n].val) \in 0..epoch
    BY <2>1, <1>0, HeardBounds DEF Joined, IInv, CallOK
  <2>3. PICK e \in {0} \cup {Heard(c, flight[n].val) : c \in Joined(n)} : Raise(n, e)
    BY <1>8 DEF FlightFill
  <2>4. e \in 0..epoch
    BY <2>2, <2>3, <1>0
  <2> QED
    BY <1>8, <2>3, <2>4, <1>r DEF FlightFill
<1>9. ASSUME NEW n \in Nodes, FlightRead(n) \/ FlightWarm(n) \/ FlightFails(n) \/ LocalExpire(n)
      PROVE UNCHANGED <<epoch, mark>>
  BY <1>9 DEF FlightRead, FlightWarm, FlightFails, LocalExpire
<1>10. ASSUME NEW n \in Nodes, Restart(n) PROVE View!ViewNext
  BY <1>10 DEF Restart, View!RestartView
<1>11. RedisExpire \/ UNCHANGED vars => UNCHANGED <<epoch, mark>>
  BY DEF RedisExpire, vars
<1> QED
  BY <1>1, <1>2, <1>3, <1>4, <1>5, <1>6, <1>7, <1>8, <1>9, <1>10, <1>11
     DEF Next, CallStep, FlightStep

\* The caches implement the promise: whatever is cached, read, lost or restarted, a
\* watermark only ever lags behind the committed epoch and only a restart lowers it.
THEOREM Refinement == Spec => ImplementsView
<1>1. Init => View!ViewInit
  BY DEF Init, ViewInit, View!ViewInit
<1> QED
  BY <1>1, StepView, Invariance, PTL DEF Spec, ImplementsView, View!ViewSpec

----------------------------------------------------------------------------
(* Only a bump makes a copy stale.                                         *)

\* AllFresh, place by place: the form the steps are checked in.
Fresh(v) == v = epoch \/ v = NoVal
FreshInv ==
    /\ Fresh(redis)
    /\ \A n \in Nodes : Fresh(local[n])
    /\ \A n \in Nodes : flight[n].pc \in {"warm", "fill"} => Fresh(flight[n].val)
    /\ \A b \in Bumpers : bump[b].pc # "idle" => Fresh(bump[b].val)
    /\ \A c \in Calls : call[c].pc = "reply" => Fresh(call[c].val)

\* The two forms say the same.
LEMMA FreshForms == AllFresh <=> FreshInv
BY DEF AllFresh, Copies, FreshInv, Fresh

\* The same in the next state.
LEMMA FreshFormsNext == AllFresh' <=> FreshInv'
BY DEF AllFresh, Copies, FreshInv, Fresh

\* A step that is no bump stores only what it found in a cache, in the database, in a
\* flight or in a request, all of which are fresh.
LEMMA StepFresh == IInv /\ FreshInv /\ epoch' = epoch /\ [Next]_vars => FreshInv'
<1> SUFFICES ASSUME IInv, FreshInv, epoch' = epoch, [Next]_vars PROVE FreshInv'
  OBVIOUS
<1>0. /\ epoch \in Nat
      /\ local \in [Nodes -> Maybe]
      /\ flight \in [Nodes -> FlightStates]
      /\ bump \in [Bumpers -> BumpStates]
      /\ call \in [Calls -> CallStates]
  BY DEF IInv, TypeOK, ViewTypeOK
<1> USE DEF FreshInv, Fresh
<1>1. ASSUME NEW b \in Bumpers, NEW n \in Nodes, BumpTx(b, n) PROVE FALSE
  BY <1>1, <1>0 DEF BumpTx, Bump
<1>2. ASSUME NEW b \in Bumpers, BumpStep(b) PROVE FreshInv'
  BY <1>2, <1>0 DEF BumpStep, RefreshRedis, RedisWrite, RefreshLocal, Publish, NoBump, BumpStates
<1>3. ASSUME NEW c \in Calls, NEW n \in Nodes, Deliver(c, n) PROVE FreshInv'
  BY <1>3, <1>0 DEF Deliver, NewCall
<1>4. ASSUME NEW c \in Calls, NEW n \in Nodes, NEW t \in 0..epoch, StartAuth(c, n, t) PROVE FreshInv'
  BY <1>4, <1>0 DEF StartAuth, NewCall
<1>5. ASSUME NEW c \in Calls, InvalidateRedis(c) \/ AskLocal(c) PROVE FreshInv'
  BY <1>5, <1>0 DEF InvalidateRedis, RedisWrite, AskLocal, NoCall, CallStates
<1>6. ASSUME NEW c \in Calls, AskRedis(c) PROVE FreshInv'
  BY <1>6, <1>0 DEF AskRedis, CallStates
<1>7. ASSUME NEW c \in Calls, RedisHit(c) PROVE FreshInv'
  BY <1>7, <1>0 DEF RedisHit, NoCall, CallStates
<1>8. ASSUME NEW c \in Calls, RedisMiss(c) \/ AskFails(c) PROVE FreshInv'
  BY <1>8, <1>0 DEF RedisMiss, AskFails, NoCall, CallStates, FlightStates
<1>9. ASSUME NEW n \in Nodes, FlightStep(n) PROVE FreshInv'
  BY <1>9, <1>0 DEF FlightStep, FlightRead, FlightWarm, FlightFill, RedisWrite, NoFlight, NoCall, FlightStates
<1>10. ASSUME NEW n \in Nodes, FlightFails(n) \/ LocalExpire(n) PROVE FreshInv'
  BY <1>10, <1>0 DEF FlightFails, LocalExpire, NoFlight, NoCall
<1>11. ASSUME NEW n \in Nodes, Restart(n) PROVE FreshInv'
  BY <1>11, <1>0 DEF Restart, NoFlight, NoBump, NoCall
<1>12. RedisExpire \/ UNCHANGED vars => FreshInv'
  BY DEF RedisExpire, vars
<1> QED
  BY <1>1, <1>2, <1>3, <1>4, <1>5, <1>6, <1>7, <1>8, <1>9, <1>10, <1>11, <1>12 DEF Next, CallStep

\* Only a bump makes a cached, read or published epoch stale: with any number of
\* nodes, bumps and calls at once, no expiry, miss, late reply, coalesced read, failure
\* or restart brings an old epoch back once every copy is current.
THEOREM Freshness == Spec => FreshnessIsStable
<1>1. IInv /\ [Next]_vars => (AllFresh /\ epoch' = epoch => AllFresh')
  BY StepFresh, FreshForms, FreshFormsNext
<1> QED
  BY <1>1, Invariance, PTL DEF Spec, FreshnessIsStable

=============================================================================
