----------------------------- MODULE EpochCache -----------------------------
(***************************************************************************)
(* src/permission/epoch.ts, its Redis and process-local caches, the        *)
(* invalidation subscriber of src/index.ts and the per-node watermark of   *)
(* src/collab/server.ts, for one document.                                 *)
(*                                                                         *)
(* The database holds the epoch. Redis holds a copy with a TTL, written    *)
(* blindly by whoever last read or bumped the epoch. Every node holds a    *)
(* second copy with a shorter TTL, and coalesces its database reads. An    *)
(* await is a step boundary: what a command does at the Redis or database  *)
(* server and what its caller does with the reply are separate steps.      *)
(*                                                                         *)
(* TTLs have no clock here: a live entry may expire at any moment, and     *)
(* fairness says only that it does not live for ever.                      *)
(***************************************************************************)
EXTENDS EpochView

CONSTANTS
    Bumpers,    \* request handlers that may be inside bumpEpoch at one time
    Calls,      \* calls of currentEpoch that may be in progress at one time
    NoVal,      \* "no entry"
    IOFails,    \* TRUE: a Redis command or a database read may fail
    NodesFail   \* TRUE: a process may die and restart

ASSUME NoValAssumption == NoVal \notin Nat

VARIABLES
    redis,      \* the Redis key epoch:<documentName>
    local,      \* local[n]: localCache of node n
    flight,     \* flight[n]: the singleflight database read of node n
    bump,       \* bump[b]: a request inside bumpEpoch / refreshAndPublish
    call,       \* call[c]: a call of currentEpoch and what it is for
    inbox       \* inbox[n]: invalidation events published, not yet delivered

cacheVars == <<redis, local, flight, bump, call, inbox>>
vars == <<epoch, mark, redis, local, flight, bump, call, inbox>>

Epochs == 0..MaxEpoch
Maybe  == Epochs \cup {NoVal}

NoFlight == [pc |-> "none", val |-> 0]
NoBump == [pc |-> "idle", node |-> NoVal, val |-> 0]
NoCall == [pc |-> "idle", node |-> NoVal, op |-> "auth", val |-> 0, token |-> 0]
NewCall(n, o, p, t) == [pc |-> p, node |-> n, op |-> o, val |-> 0, token |-> t]

FlightStates == [pc : {"none", "read", "warm", "fill"}, val : Epochs]
BumpStates == [pc : {"idle", "bumped", "warmed", "cached"}, node : Nodes \cup {NoVal}, val : Epochs]
CallStates == [pc : {"idle", "del", "ask", "get", "reply", "miss", "join"},
               node : Nodes \cup {NoVal}, op : {"auth", "invalidate"}, val : Epochs, token : Epochs]

TypeOK ==
    /\ ViewTypeOK
    /\ redis \in Maybe
    /\ local \in [Nodes -> Maybe]
    /\ flight \in [Nodes -> FlightStates]
    /\ bump \in [Bumpers -> BumpStates]
    /\ call \in [Calls -> CallStates]
    /\ inbox \in [Nodes -> Nat]

Init ==
    /\ ViewInit
    /\ redis = NoVal
    /\ local = [n \in Nodes |-> NoVal]
    /\ flight = [n \in Nodes |-> NoFlight]
    /\ bump = [b \in Bumpers |-> NoBump]
    /\ call = [c \in Calls |-> NoCall]
    /\ inbox = [n \in Nodes |-> 0]

----------------------------------------------------------------------------
(* bumpEpoch: the database transaction, then refreshAndPublish.            *)

\* A best-effort write of value v to the key: it lands, or it fails and is swallowed.
RedisWrite(v) == redis' = v \/ (IOFails /\ redis' = redis)

\* Mutant of BumpTx: a failed commit is not noticed, and the epoch is announced anyway.
BumpTxUnchecked(b, n) ==
    /\ bump[b].pc = "idle"
    /\ epoch < MaxEpoch
    /\ epoch' \in {epoch, epoch + 1}
    /\ bump' = [bump EXCEPT ![b] = [pc |-> "bumped", node |-> n, val |-> epoch + 1]]
    /\ UNCHANGED <<mark, redis, local, flight, call, inbox>>

BumpTx(b, n) ==
    /\ bump[b].pc = "idle"
    /\ Bump
    /\ bump' = [bump EXCEPT ![b] = [pc |-> "bumped", node |-> n, val |-> epoch + 1]]
    /\ UNCHANGED <<mark, redis, local, flight, call, inbox>>

RefreshRedis(b) ==
    /\ bump[b].pc = "bumped"
    /\ RedisWrite(bump[b].val)
    /\ bump' = [bump EXCEPT ![b].pc = "warmed"]
    /\ UNCHANGED <<epoch, mark, local, flight, call, inbox>>

RefreshLocal(b) ==
    /\ bump[b].pc = "warmed"
    /\ local' = [local EXCEPT ![bump[b].node] = bump[b].val]
    /\ bump' = [bump EXCEPT ![b].pc = "cached"]
    /\ UNCHANGED <<epoch, mark, redis, flight, call, inbox>>

\* PUBLISH reaches every subscribed node, or fails and is swallowed.
Publish(b) ==
    /\ bump[b].pc = "cached"
    /\ \/ inbox' = [n \in Nodes |-> inbox[n] + 1]
       \/ IOFails /\ inbox' = inbox
    /\ bump' = [bump EXCEPT ![b] = NoBump]
    /\ UNCHANGED <<epoch, mark, redis, local, flight, call>>

----------------------------------------------------------------------------
(* currentEpoch, called by handleInvalidate and by authenticate.           *)

\* handleInvalidate: the local entry goes at once, the Redis DEL is awaited.
Deliver(c, n) ==
    /\ call[c].pc = "idle"
    /\ inbox[n] > 0
    /\ inbox' = [inbox EXCEPT ![n] = @ - 1]
    /\ local' = [local EXCEPT ![n] = NoVal]
    /\ call' = [call EXCEPT ![c] = NewCall(n, "invalidate", "del", 0)]
    /\ UNCHANGED <<epoch, mark, redis, flight, bump>>

InvalidateRedis(c) ==
    /\ call[c].pc = "del"
    /\ RedisWrite(NoVal)
    /\ call' = [call EXCEPT ![c].pc = "ask"]
    /\ UNCHANGED <<epoch, mark, local, flight, bump, inbox>>

\* authenticate: a client presents a token stamped at some epoch of the past.
StartAuth(c, n, t) ==
    /\ call[c].pc = "idle"
    /\ t <= epoch
    /\ call' = [call EXCEPT ![c] = NewCall(n, "auth", "ask", t)]
    /\ UNCHANGED <<epoch, mark, redis, local, flight, bump, inbox>>

\* The epoch a caller tells the node about once currentEpoch gives it v: the
\* subscriber passes v on; authenticate refuses a token older than v, and
\* otherwise the connected hook passes on the token's own epoch.
Heard(c, v) ==
    IF call[c].op = "invalidate" THEN v
    ELSE IF call[c].token < v THEN 0 ELSE call[c].token

\* Mutant of AskLocal: the watermark is assigned, not raised.
AskLocalAssigns(c) ==
    LET n == call[c].node IN
    /\ call[c].pc = "ask"
    /\ IF local[n] = NoVal
       THEN /\ call' = [call EXCEPT ![c].pc = "get"]
            /\ UNCHANGED mark
       ELSE /\ mark' = [mark EXCEPT ![n] = Heard(c, local[n])]
            /\ call' = [call EXCEPT ![c] = NoCall]
    /\ UNCHANGED <<epoch, redis, local, flight, bump, inbox>>

AskLocal(c) ==
    LET n == call[c].node IN
    /\ call[c].pc = "ask"
    /\ IF local[n] = NoVal
       THEN /\ call' = [call EXCEPT ![c].pc = "get"]
            /\ UNCHANGED mark
       ELSE /\ Raise(n, Heard(c, local[n]))
            /\ call' = [call EXCEPT ![c] = NoCall]
    /\ UNCHANGED <<epoch, redis, local, flight, bump, inbox>>

\* Mutant of AskRedis: a missing key is read as Number(null), 0.
AskRedisZero(c) ==
    /\ call[c].pc = "get"
    /\ call' = [call EXCEPT ![c].pc = "reply", ![c].val = IF redis = NoVal THEN 0 ELSE redis]
    /\ UNCHANGED <<epoch, mark, redis, local, flight, bump, inbox>>

\* Redis answers the GET ...
AskRedis(c) ==
    /\ call[c].pc = "get"
    /\ call' = [call EXCEPT ![c] =
                    IF redis = NoVal THEN [@ EXCEPT !.pc = "miss"]
                    ELSE [@ EXCEPT !.pc = "reply", !.val = redis]]
    /\ UNCHANGED <<epoch, mark, redis, local, flight, bump, inbox>>

\* ... and the caller gets the answer: a hit is cached, whatever happened since.
RedisHit(c) ==
    LET n == call[c].node IN
    /\ call[c].pc = "reply"
    /\ local' = [local EXCEPT ![n] = call[c].val]
    /\ Raise(n, Heard(c, call[c].val))
    /\ call' = [call EXCEPT ![c] = NoCall]
    /\ UNCHANGED <<epoch, redis, flight, bump, inbox>>

\* A miss joins the node's read in flight, or starts one.
RedisMiss(c) ==
    LET n == call[c].node IN
    /\ call[c].pc = "miss"
    /\ call' = [call EXCEPT ![c].pc = "join"]
    /\ flight' = [flight EXCEPT ![n] = IF @.pc = "none" THEN [@ EXCEPT !.pc = "read"] ELSE @]
    /\ UNCHANGED <<epoch, mark, redis, local, bump, inbox>>

\* GET fails: currentEpoch throws and its caller gives up (the subscriber swallows
\* it, authenticate answers 4401).
AskFails(c) ==
    /\ IOFails
    /\ call[c].pc = "get"
    /\ call' = [call EXCEPT ![c] = NoCall]
    /\ UNCHANGED <<epoch, mark, redis, local, flight, bump, inbox>>

FlightRead(n) ==
    /\ flight[n].pc = "read"
    /\ flight' = [flight EXCEPT ![n] = [pc |-> "warm", val |-> epoch]]
    /\ UNCHANGED <<epoch, mark, redis, local, bump, call, inbox>>

FlightWarm(n) ==
    /\ flight[n].pc = "warm"
    /\ RedisWrite(flight[n].val)
    /\ flight' = [flight EXCEPT ![n].pc = "fill"]
    /\ UNCHANGED <<epoch, mark, local, bump, call, inbox>>

Joined(n) == {c \in Calls : call[c].pc = "join" /\ call[c].node = n}

\* The read completes: the local entry is set and every caller that joined the
\* flight resumes, before the process takes up any other event.
FlightFill(n) ==
    LET heard == {0} \cup {Heard(c, flight[n].val) : c \in Joined(n)} IN
    /\ flight[n].pc = "fill"
    /\ local' = [local EXCEPT ![n] = flight[n].val]
    /\ \E e \in heard : (\A f \in heard : f <= e) /\ Raise(n, e)
    /\ flight' = [flight EXCEPT ![n] = NoFlight]
    /\ call' = [c \in Calls |-> IF c \in Joined(n) THEN NoCall ELSE call[c]]
    /\ UNCHANGED <<epoch, redis, bump, inbox>>

\* The read fails, for everyone who joined it.
FlightFails(n) ==
    /\ IOFails
    /\ flight[n].pc = "read"
    /\ flight' = [flight EXCEPT ![n] = NoFlight]
    /\ call' = [c \in Calls |-> IF c \in Joined(n) THEN NoCall ELSE call[c]]
    /\ UNCHANGED <<epoch, mark, redis, local, bump, inbox>>

----------------------------------------------------------------------------
(* Time and failure.                                                       *)

\* Mutant of RedisExpire: the key is set without a TTL.
RedisKeepsForEver == FALSE

RedisExpire ==
    /\ redis # NoVal
    /\ redis' = NoVal
    /\ UNCHANGED <<epoch, mark, local, flight, bump, call, inbox>>

LocalExpire(n) ==
    /\ local[n] # NoVal
    /\ local' = [local EXCEPT ![n] = NoVal]
    /\ UNCHANGED <<epoch, mark, redis, flight, bump, call, inbox>>

\* The process dies with everything it holds in memory, the requests it was
\* serving and the events not yet delivered to it.
Restart(n) ==
    /\ NodesFail
    /\ mark' = [mark EXCEPT ![n] = 0]
    /\ local' = [local EXCEPT ![n] = NoVal]
    /\ flight' = [flight EXCEPT ![n] = NoFlight]
    /\ inbox' = [inbox EXCEPT ![n] = 0]
    /\ bump' = [b \in Bumpers |-> IF bump[b].node = n THEN NoBump ELSE bump[b]]
    /\ call' = [c \in Calls |-> IF call[c].node = n THEN NoCall ELSE call[c]]
    /\ UNCHANGED <<epoch, redis>>

----------------------------------------------------------------------------
BumpStep(b) == RefreshRedis(b) \/ RefreshLocal(b) \/ Publish(b)

CallStep(c) ==
    \/ InvalidateRedis(c)
    \/ AskLocal(c)
    \/ AskRedis(c)
    \/ RedisHit(c)
    \/ RedisMiss(c)

FlightStep(n) == FlightRead(n) \/ FlightWarm(n) \/ FlightFill(n)

Next ==
    \/ \E b \in Bumpers : BumpStep(b) \/ \E n \in Nodes : BumpTx(b, n)
    \/ \E c \in Calls : CallStep(c) \/ AskFails(c)
    \/ \E c \in Calls, n \in Nodes : Deliver(c, n) \/ \E t \in 0..epoch : StartAuth(c, n, t)
    \/ \E n \in Nodes : FlightStep(n) \/ FlightFails(n) \/ LocalExpire(n) \/ Restart(n)
    \/ RedisExpire

Spec == Init /\ [][Next]_vars

\* Every promise settles, every event is delivered and every entry expires.
\* Nothing makes a client connect, a member change or a process die.
Fairness ==
    /\ \A b \in Bumpers : WF_vars(BumpStep(b))
    /\ \A c \in Calls : WF_vars(CallStep(c))
    /\ \A n \in Nodes : WF_vars(FlightStep(n)) /\ SF_vars(LocalExpire(n))
    /\ \A n \in Nodes : SF_vars(\E c \in Calls : Deliver(c, n))
    /\ SF_vars(RedisExpire)

FairSpec == Spec /\ Fairness

----------------------------------------------------------------------------
(* Correctness.                                                            *)

\* Every copy of the epoch anywhere in the system: cached, read and not yet
\* stored, or known to a request still publishing it.
Copies ==
    {redis} \cup {local[n] : n \in Nodes}
        \cup {flight[n].val : n \in {m \in Nodes : flight[m].pc \in {"warm", "fill"}}}
        \cup {bump[b].val : b \in {a \in Bumpers : bump[a].pc # "idle"}}
        \cup {call[c].val : c \in {d \in Calls : call[d].pc = "reply"}}

\* No copy of the epoch, no watermark and no token is ahead of the database: a
\* permission change takes effect nowhere before it commits. A copy from the
\* future would refuse, as stale, every token issued now (authenticate step 3).
NothingAhead ==
    /\ \A v \in Copies : v = NoVal \/ v <= epoch
    /\ MarkNeverAhead
    /\ \A c \in Calls : call[c].token <= epoch

AllFresh == Copies \subseteq {epoch, NoVal}

\* Only a bump makes a copy stale: once every cached, read and published value is
\* the current epoch, nothing brings an old epoch back into a cache (a process
\* restart, an expiry, a miss, a flight or an invalidation included), so no
\* revoked token passes authenticate until the next change.
FreshnessIsStable == [][AllFresh /\ epoch' = epoch => AllFresh']_vars

\* The stale copies that races do leave behind go away: when bumps stop, every
\* cache is in the end, and for good, empty or current, so authenticate step 3
\* ends up refusing every token older than the last change.
CachesConverge == <>[]AllFresh

\* The watermark of each node is a lagging view of the database epoch that never
\* overtakes it and only goes back when the process restarts (setEpochWatermark).
View == INSTANCE EpochView
ImplementsView == View!ViewSpec

=============================================================================
