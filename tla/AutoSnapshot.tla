---------------------------- MODULE AutoSnapshot ----------------------------
(***************************************************************************)
(* Automatic versions of one document: src/collab/autoSnapshot.ts on every *)
(* node, its two Redis locks, and the doc_version rows of                  *)
(* src/db/repos/docVersionRepo.ts, beside the versions that users save and *)
(* delete (src/api/routes/versions.ts).                                    *)
(*                                                                         *)
(* The content of the document is the number of stores so far: what a      *)
(* debounced store persists has reached the live document of every node.   *)
(* Hocuspocus runs one store of a document at a time on a node, and starts *)
(* no unload during one; timers and an unload that has begun are not so    *)
(* ordered. A timer may fire late, never early.                            *)
(***************************************************************************)
EXTENDS Integers, FiniteSets, FiniteSetsExt

CONSTANTS
    Servers,        \* the nodes
    IdleMs,         \* config.autoSnapshot.idleMs
    MinIntervalMs,  \* config.autoSnapshot.minIntervalMs
    RetainCount,    \* config.autoSnapshot.retainCount
    MaxTime,        \* bound of the clock
    MaxContent,      \* bound on stores
    MaxNamed,       \* bound on versions saved by users, the first of all
    MaxFaults       \* bound on Redis and database errors

ASSUME AutoAssumption ==
    /\ IdleMs \in Nat \ {0} /\ MinIntervalMs \in Nat \ {0} /\ RetainCount \in Nat
    /\ {MaxTime, MaxContent, MaxNamed, MaxFaults} \subseteq Nat

VARIABLES
    now,        \* Date.now(), on every node and in Redis
    content,    \* stores so far
    state,      \* state[n]: the docState entry, or NoEntry
    timers,     \* timers[n]: idle timers set and neither fired nor cleared
    op,         \* op[n][k]: the handler k under way on n
    locks,      \* locks[key]: when the Redis key expires
    rows,       \* committed doc_version rows
    lastId,     \* AUTO_INCREMENT of doc_version
    told,       \* versions whose creation was answered 201, and that no admin deleted
    givenUp,    \* the latest content a frame was given up for
    faults

autoVars == <<now, content, state, timers, op, locks, rows, lastId, told, givenUp, faults>>

Handlers == {"store", "idle", "unload"}
Never == -MinIntervalMs     \* a lastAutoAt of 0
\* stored: the content of the store at lastStoreAt. timer: the timer of s.idleTimer, if any.
NoEntry == [store |-> Never, auto |-> Never, stored |-> 0, frame |-> 0, timer |-> {}]
NoOp == [pc |-> "none", at |-> 0, stored |-> 0, content |-> 0, id |-> 0, orphan |-> FALSE]

\* Mutant of KeyOf: one lock for all frames.
KeyOfShared(k) == "mininterval"

KeyOf(k) == IF k = "store" THEN "mininterval" ELSE "idle"
Ttl(key) == IF key = "mininterval" THEN MinIntervalMs ELSE IdleMs

AutoInit ==
    /\ now = 0
    /\ content = 0
    /\ state = [n \in Servers |-> NoEntry]
    /\ timers = [n \in Servers |-> {}]
    /\ op = [n \in Servers |-> [k \in Handlers |-> NoOp]]
    /\ locks = [key \in {"mininterval", "idle"} |-> 0]
    /\ rows = {}
    /\ lastId = 0
    /\ told = {}
    /\ givenUp = 0
    /\ faults = 0

Tracked(n) == state[n].store # Never
Running(n, k) == op[n][k].pc # "none"
Set(n, k, r) == op' = [op EXCEPT ![n][k] = r]
Ends(n, k) == Set(n, k, NoOp)
GiveUp(c) == givenUp' = Max({givenUp, c})

\* clearTimeout and setTimeout on the entry of n.
Rearmed(n, s, at) ==
    LET t == [at |-> at, due |-> now + IdleMs]
    IN  /\ timers' = [timers EXCEPT ![n] = (@ \ s.timer) \cup {t}]
        /\ state' = [state EXCEPT ![n] = [s EXCEPT !.timer = {t}]]

Tick ==
    /\ now < MaxTime
    /\ now' = now + 1
    /\ UNCHANGED <<content, state, timers, op, locks, rows, lastId, told, givenUp, faults>>

-----------------------------------------------------------------------------
(* The three entry points, up to their first await.                        *)

\* handleAfterStore.
AfterStore(n) ==
    /\ content < MaxContent
    /\ ~Running(n, "store")
    /\ content' = content + 1
    /\ LET s == [state[n] EXCEPT !.store = now, !.stored = content']
       IN  IF now - s.auto >= MinIntervalMs
           THEN /\ state' = [state EXCEPT ![n] = s]
                /\ Set(n, "store", [NoOp EXCEPT !.pc = "lock", !.at = now, !.stored = content'])
                /\ UNCHANGED timers
           ELSE Rearmed(n, s, now) /\ UNCHANGED op
    /\ UNCHANGED <<now, locks, rows, lastId, told, givenUp, faults>>

\* fireIdle. A timer that a newer store superseded does nothing.
FireIdle(n) ==
    /\ ~Running(n, "idle")
    /\ \E t \in timers[n] :
        /\ t.due <= now
        /\ timers' = [timers EXCEPT ![n] = @ \ {t}]
        /\ IF Tracked(n) THEN state' = [state EXCEPT ![n].timer = {}] ELSE UNCHANGED state
        /\ IF Tracked(n) /\ state[n].store = t.at
           THEN Set(n, "idle", [NoOp EXCEPT !.pc = "lock", !.stored = state[n].stored])
           ELSE UNCHANGED op
    /\ UNCHANGED <<now, content, locks, rows, lastId, told, givenUp, faults>>

\* docState.delete: whoever still holds the entry works on an orphan.
Dropped(n) ==
    /\ state' = [state EXCEPT ![n] = NoEntry]
    /\ op' = [op EXCEPT ![n] = [k \in Handlers |->
                  IF k = "unload" \/ @[k].pc = "none" THEN NoOp ELSE [@[k] EXCEPT !.orphan = TRUE]]]

\* handleBeforeUnload. lastStoreAt is compared with when the last frame was finished, so that
\* a store made while that frame was written counts as in it.
BeforeUnload(n) ==
    /\ Tracked(n)
    /\ ~Running(n, "store") /\ ~Running(n, "unload")
    /\ timers' = [timers EXCEPT ![n] = @ \ state[n].timer]
    /\ IF state[n].store > state[n].auto
       THEN /\ state' = [state EXCEPT ![n].timer = {}]
            /\ Set(n, "unload", [NoOp EXCEPT !.pc = "lock"])
            /\ UNCHANGED givenUp
       ELSE /\ Dropped(n)
            /\ IF state[n].frame < state[n].stored THEN GiveUp(state[n].stored)
               ELSE UNCHANGED givenUp
    /\ UNCHANGED <<now, content, locks, rows, lastId, told, faults>>

-----------------------------------------------------------------------------
(* The lock, the frame, and what follows.                                  *)

\* wrote: the content of the frame, or 0 when there is none.
Finish(n, k, wrote) ==
    LET o == op[n][k]
        s == IF wrote # 0 THEN [state[n] EXCEPT !.auto = now, !.frame = wrote] ELSE state[n]
    IN  CASE k = "store" /\ ~o.orphan -> Rearmed(n, s, s.store) /\ Ends(n, k) /\ UNCHANGED givenUp
          [] k = "store" /\ o.orphan ->
                /\ timers' = [timers EXCEPT ![n] = @ \cup {[at |-> o.at, due |-> now + IdleMs]}]
                /\ Ends(n, k)
                /\ UNCHANGED <<state, givenUp>>
          [] k = "idle" ->
                /\ state' = IF o.orphan THEN state ELSE [state EXCEPT ![n] = s]
                /\ Ends(n, k)
                /\ UNCHANGED <<timers, givenUp>>
          [] OTHER ->
                /\ Dropped(n)
                /\ IF wrote < state[n].stored THEN GiveUp(state[n].stored) ELSE UNCHANGED givenUp
                /\ UNCHANGED timers

\* acquireLock: SET NX PX. Held, there is no frame of this handler.
Acquire(n, k) ==
    /\ op[n][k].pc = "lock"
    /\ LET key == KeyOf(k)
       IN  IF locks[key] <= now
           THEN /\ locks' = [locks EXCEPT ![key] = now + Ttl(key)]
                /\ Set(n, k, [op[n][k] EXCEPT !.pc = "encode"])
                /\ UNCHANGED <<state, timers, givenUp>>
           ELSE Finish(n, k, 0) /\ UNCHANGED locks
    /\ UNCHANGED <<now, content, rows, lastId, told, faults>>

\* Y.encodeStateAsUpdate of the live document, and the INSERT of the transaction.
Encode(n, k) ==
    /\ op[n][k].pc = "encode"
    /\ lastId' = lastId + 1
    /\ Set(n, k, [op[n][k] EXCEPT !.pc = "prune", !.content = content, !.id = lastId'])
    /\ UNCHANGED <<now, content, state, timers, locks, rows, told, givenUp, faults>>

\* Whether another transaction has inserted a frame and not committed: its row is locked.
Others(n, k) ==
    \E m \in Servers, j \in Handlers : <<m, j>> # <<n, k>> /\ op[m][j].pc = "prune"

\* Mutant of Kept: the newest rows of whatever kind.
KeptAnyKind(all) ==
    {r \in all : Cardinality({x \in all : x.id > r.id}) < Max({1, RetainCount})}

\* The count-based DELETE: named versions stay, and the newest frames.
Kept(all) ==
    {r \in all : \/ r.kind # "auto"
                 \/ Cardinality({x \in all : x.kind = "auto" /\ x.id > r.id}) < Max({1, RetainCount})}

Commit(n, k) ==
    /\ op[n][k].pc = "prune"
    /\ ~Others(n, k)
    /\ LET o == op[n][k]
       IN  /\ rows' = Kept(rows \cup {[id |-> o.id, kind |-> "auto", content |-> o.content]})
           /\ Finish(n, k, o.content)
    /\ UNCHANGED <<now, content, locks, lastId, told, faults>>

\* The catch: a store arms no timer, and the lock it took stays until it expires. An unload
\* takes the entry with it, and with that what was stored since it began.
Caught(n, k) ==
    /\ GiveUp(IF op[n][k].pc # "lock" THEN content
              ELSE IF k = "unload" THEN state[n].stored
              ELSE op[n][k].stored)
    /\ IF k = "unload" THEN Dropped(n) ELSE Ends(n, k) /\ UNCHANGED state
    /\ UNCHANGED <<now, content, timers, locks, rows, lastId, told>>

\* Two DELETEs each meet the row the other has inserted: InnoDB rolls one back.
Deadlocks(n, k) ==
    /\ op[n][k].pc = "prune"
    /\ Others(n, k)
    /\ Caught(n, k)
    /\ UNCHANGED faults

Fails(n, k) ==
    /\ op[n][k].pc \in {"lock", "encode", "prune"}
    /\ faults < MaxFaults
    /\ faults' = faults + 1
    /\ Caught(n, k)

-----------------------------------------------------------------------------
(* Versions of users. An admin may delete any version, a frame too.        *)

CreateVersion ==
    /\ lastId < MaxNamed
    /\ lastId' = lastId + 1
    /\ rows' = rows \cup {[id |-> lastId', kind |-> "named", content |-> content]}
    /\ told' = told \cup {lastId'}
    /\ UNCHANGED <<now, content, state, timers, op, locks, givenUp, faults>>

DeleteVersion ==
    \E r \in rows :
        /\ rows' = rows \ {r}
        /\ told' = told \ {r.id}
        /\ GiveUp(r.content)
        /\ UNCHANGED <<now, content, state, timers, op, locks, lastId, faults>>

AutoNext ==
    \/ Tick \/ CreateVersion \/ DeleteVersion
    \/ \E n \in Servers :
        \/ AfterStore(n) \/ FireIdle(n) \/ BeforeUnload(n)
        \/ \E k \in Handlers :
            Acquire(n, k) \/ Encode(n, k) \/ Commit(n, k) \/ Deadlocks(n, k)
                \/ Fails(n, k)

AutoSpec == AutoInit /\ [][AutoNext]_autoVars

-----------------------------------------------------------------------------
(* "Don't lose the last burst" (autoSnapshot.ts:19-21): once everything is *)
(* at rest, the latest content is in a frame that is still kept, whoever   *)
(* stored it, whoever held a lock meanwhile and whichever timer was        *)
(* superseded; or the module has given it up. It does that where           *)
(*   - an error or a deadlock took the frame, which leaves no timer armed; *)
(*   - an unload finds the idle lock held;                                 *)
(*   - an unload follows a frame that was encoded before the last store    *)
(*     and finished after it, as lastAutoAt is the time it finished;       *)
(*   - a store arrives while an unload is under way;                       *)
(*   - an admin deletes the frame.                                         *)
(* RetainCount is above the number of frames under way, and rows are not   *)
(* pruned by age: a frame is not older than the days it is kept for.       *)
Ahead ==
    \E n \in Servers :
        \/ \E k \in Handlers : Running(n, k)
        \/ Tracked(n) /\ \E t \in timers[n] : t.at = state[n].store

LatestIsKept ==
    \/ givenUp >= content
    \/ \E r \in rows : r.kind = "auto" /\ r.content = content
    \/ content = 0
    \/ Ahead

(* A version that a user saved stays until an admin deletes it: pruning    *)
(* only ever takes frames (docVersionRepo.ts:148-150).                     *)
SavedIsKept == told \subseteq {r.id : r \in rows}
=============================================================================
