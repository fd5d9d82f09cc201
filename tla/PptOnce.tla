------------------------------- MODULE PptOnce -------------------------------
(***************************************************************************)
(* What the Idempotency-Key header of POST /api/v1/ppt/docs promises a     *)
(* caller (src/ppt/idempotency.ts, src/db/repos/pptIdempotencyRepo.ts):    *)
(* however often and however concurrently a request is sent under one key, *)
(* it takes effect once. Every answer is about that one effect: its        *)
(* document for the payload that created it, a conflict for any other.     *)
(***************************************************************************)
CONSTANTS
    Requests,   \* who asks under which key
    Payloads,   \* what is asked for
    Docs,       \* document ids
    Conflict    \* the answer to a reuse of the key

VARIABLES
    effect,     \* effect[r]: the documents created for r
    told        \* the answers given

onceVars == <<effect, told>>

OnceInit ==
    /\ effect = [r \in Requests |-> {}]
    /\ told = {}

Unused(d) == \A r \in Requests : \A e \in effect[r] : e.doc # d

Create(r, p, d) ==
    /\ effect[r] = {}
    /\ Unused(d)
    /\ effect' = [effect EXCEPT ![r] = {[doc |-> d, payload |-> p]}]
    /\ UNCHANGED told

Answer(r, p) ==
    \E e \in effect[r] :
        /\ told' = told \cup
               {[request |-> r, payload |-> p,
                 answer |-> IF e.payload = p THEN e.doc ELSE Conflict]}
        /\ UNCHANGED effect

OnceNext ==
    \E r \in Requests, p \in Payloads :
        \/ Answer(r, p)
        \/ \E d \in Docs : Create(r, p, d)

OnceSpec == OnceInit /\ [][OnceNext]_onceVars
=============================================================================
