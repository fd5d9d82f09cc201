--------------------------- MODULE OctoMembership ---------------------------
(***************************************************************************)
(* isSpaceMember and its siblings of src/auth/octoIdentity.ts for one user *)
(* and one space: a cache with a lifetime, one fetch for all who ask at a  *)
(* time, and octo-server (external), which may be away, answer late, or    *)
(* answer for somebody else. Time is counted in ticks.                     *)
(***************************************************************************)
EXTENDS Integers, FiniteSets

CONSTANTS
    Askers,         \* calls of isSpaceMember
    Lifetime,       \* config.octoIdentity.membershipCacheTtlSeconds, in ticks
    FetchTime,      \* how long octo-server may take
    MaxTime         \* bound on the clock

ASSUME MembershipAssumption ==
    Lifetime \in Nat \ {0} /\ FetchTime \in Nat /\ MaxTime \in Nat

VARIABLES
    now,
    isMember,   \* what octo-server holds
    lastHeld,   \* lastHeld[v]: the last time isMember was v (-1: never)
    cached,     \* [value, until], or a record with until 0
    fetch,      \* the one fetch: [pc, since, token, waiting, value]
    asker       \* asker[c]: [pc, answer, sure]; sure when octo-server confirmed it

membershipVars == <<now, isMember, lastHeld, cached, fetch, asker>>

\* Whose the token of a call is: the user's, another's, or nobody's.
Tokens == {"own", "other", "none"}
NoFetch == [pc |-> "none", since |-> 0, token |-> "none", waiting |-> {}, value |-> FALSE]

MembershipInit ==
    /\ now = 0
    /\ isMember \in BOOLEAN
    /\ lastHeld = [v \in BOOLEAN |-> IF v = isMember THEN 0 ELSE -1]
    /\ cached = [value |-> FALSE, until |-> 0]
    /\ fetch = NoFetch
    /\ asker = [c \in Askers |-> [pc |-> "idle", answer |-> FALSE, sure |-> FALSE]]

\* Mutant of Fresh: an answer is kept for good.
FreshAlways == cached.until > 0

Fresh == now < cached.until

Answered(c, value, sure) == asker' = [asker EXCEPT ![c] = [pc |-> "done", answer |-> value, sure |-> sure]]

\* isSpaceMember up to its fetch: no token, a cached answer, a fetch to join, or a new one.
Ask(c, token) ==
    /\ asker[c].pc = "idle"
    /\ \/ token = "none" /\ Answered(c, FALSE, FALSE) /\ UNCHANGED fetch
       \/ token # "none" /\ Fresh /\ Answered(c, cached.value, TRUE) /\ UNCHANGED fetch
       \/ /\ token # "none" /\ ~Fresh
          /\ asker' = [asker EXCEPT ![c].pc = "waiting"]
          /\ fetch' = IF fetch.pc # "none" THEN [fetch EXCEPT !.waiting = @ \cup {c}]
                      ELSE [pc |-> "asked", since |-> now, token |-> token, waiting |-> {c}, value |-> FALSE]
    /\ UNCHANGED <<now, isMember, lastHeld, cached>>

\* octo-server reads the membership of the token's holder (external); another's spaces
\* hold this one.
OctoReads ==
    /\ fetch.pc = "asked"
    /\ fetch' = [fetch EXCEPT !.pc = "read", !.value = IF fetch.token = "own" THEN isMember ELSE TRUE]
    /\ UNCHANGED <<now, isMember, lastHeld, cached, asker>>

\* Mutant of Confirms: another's answer passes.
ConfirmsAnybody(answer) == answer \in {"own", "other"}

\* fetchIsSpaceMember: only an answer about this very user, with its context, confirms.
Confirms(answer) == answer = "own"

\* The answer, or an error, a garbled body or one without context, reaches all who wait.
FetchEnds(heard) ==
    /\ fetch.pc = "read" \/ (fetch.pc = "asked" /\ ~heard)
    /\ LET sure == heard /\ Confirms(fetch.token)
           value == sure /\ fetch.value
       IN  /\ cached' = IF sure THEN [value |-> value, until |-> now + Lifetime] ELSE cached
           /\ asker' = [c \in Askers |-> IF c \in fetch.waiting THEN [pc |-> "done", answer |-> value, sure |-> sure]
                                         ELSE asker[c]]
    /\ fetch' = NoFetch
    /\ UNCHANGED <<now, isMember, lastHeld>>

AskAgain(c) ==
    /\ asker[c].pc = "done"
    /\ asker' = [asker EXCEPT ![c] = [pc |-> "idle", answer |-> FALSE, sure |-> FALSE]]
    /\ UNCHANGED <<now, isMember, lastHeld, cached, fetch>>

MemberChanges ==
    /\ isMember' = ~isMember
    /\ lastHeld' = [lastHeld EXCEPT ![~isMember] = now]
    /\ UNCHANGED <<now, cached, fetch, asker>>

\* Answers are looked at as they are given; no fetch lasts longer than FetchTime.
TimePasses ==
    /\ now < MaxTime
    /\ fetch.pc = "none" \/ now < fetch.since + FetchTime
    /\ \A c \in Askers : asker[c].pc # "done"
    /\ now' = now + 1
    /\ lastHeld' = [lastHeld EXCEPT ![isMember] = now + 1]
    /\ UNCHANGED <<isMember, cached, fetch, asker>>

MembershipNext ==
    \/ \E c \in Askers : (\E token \in Tokens : Ask(c, token)) \/ AskAgain(c)
    \/ OctoReads \/ (\E heard \in BOOLEAN : FetchEnds(heard)) \/ MemberChanges \/ TimePasses

MembershipSpec == MembershipInit /\ [][MembershipNext]_membershipVars

-----------------------------------------------------------------------------
(* Whoever is answered "member" was one a lifetime and a fetch ago or      *)
(* later, whatever is lost on the way; a "no member" that is kept was true *)
(* as lately: an outage is never remembered as an answer                   *)
(* (octoIdentity.ts:304-367).                                              *)
MembershipFresh ==
    /\ \A c \in Askers : asker[c].pc = "done" /\ (asker[c].answer \/ asker[c].sure) =>
            /\ lastHeld[asker[c].answer] >= 0
            /\ lastHeld[asker[c].answer] >= now - Lifetime - FetchTime
    /\ Fresh => lastHeld[cached.value] >= cached.until - Lifetime - FetchTime
=============================================================================
