----------------------------- MODULE JobsProofs -----------------------------
(***************************************************************************)
(* What Jobs promises, for any number of requests of any kinds, any images *)
(* and any limits of the queues. The invariant follows an attachment from  *)
(* its request to the document: until the edit is live only its request    *)
(* knows of it, and once anybody can know of it nobody deletes it but who  *)
(* has given it up.                                                        *)
(***************************************************************************)
EXTENDS Jobs, FiniteSetTheorems, WellFoundedInduction, TLAPS

Pcs == {"new", "waiting", "start", "compile", "probe", "partial", "verbatim", "fetch", "put", "register",
        "unput", "check", "read", "preflight", "tx", "apply", "flush", "sweep", "answer", "done"}
OnPart == {"fetch", "put", "register", "unput", "check"}
InHand == {"register", "unput", "check"}
Compiling == {"compile", "probe", "partial", "verbatim"}
Late == {"sweep", "answer", "done"}
Statuses == {0, 200, 400, 500}
Codes == {200, 400, 500}
Failures == {400, 500}
Fatal == {500}

JobStates ==
    [kind : Kinds \cup {"none"}, pc : Pcs, todo : SUBSET Parts, current : SUBSET Attachment, base : Nat,
     content : SUBSET Attachment, made : SUBSET Attachment, sweep : SUBSET Attachment,
     lost : SUBSET Attachment, hit : BOOLEAN, status : Statuses]

QueueStates == [active : Nat, waiting : Seq(Jobs), run : Nat, wait : Nat]

TypeOK ==
    /\ rows \in SUBSET Attachment /\ objects \in SUBSET Attachment /\ faults \in 0..MaxFaults
    /\ board \in BOOLEAN
    /\ doc \in [refs : SUBSET Attachment, version : Nat, edits : 0..MaxEdits]
    /\ undo \in SUBSET [by : Jobs, refs : SUBSET Attachment]
    /\ slots \in [Queues -> QueueStates]
    /\ job \in [Jobs -> JobStates]

\* One request's own books: what it made is its own, what is to come is not made yet; the
\* document is hit by an edit only, and what is swept is its own, or what it replaced.
BooksOK(j, r) ==
    /\ r.content \subseteq r.made /\ r.made \subseteq MadeBy(j)
    /\ ({j} \X r.todo) \cap r.made = {}
    /\ r.pc \in OnPart => r.todo # {}
    /\ r.kind = "none" <=> r.pc = "new"
    /\ r.pc \in {"new", "waiting", "start"} => r.made = {}
    /\ r.pc \notin Late => r.status = 0
    /\ r.pc \in {"check", "read", "preflight", "tx", "apply", "flush", "sweep"} => r.kind \in Applying
    /\ r.pc \in Compiling => r.kind \notin Applying
    /\ r.hit => r.pc \in Late \cup {"flush"} /\ r.kind \in Applying
    /\ r.pc = "flush" => r.hit
    /\ r.pc = "sweep" =>
         \/ r.status = 200 /\ r.kind = "replace" /\ r.sweep \subseteq r.current
         \/ r.status \in {400, 500} /\ r.sweep \subseteq MadeBy(j) /\ (r.hit => r.status = 500)

\* What an import has stored and not written off is on the list of what a failure deletes.
Left(j) == (MadeBy(j) \cap (rows \cup objects)) \ job[j].lost
CleanOK(j) ==
    job[j].kind \in Applying =>
        /\ job[j].pc \in InHand => Left(j) \subseteq job[j].made \cup {Current(j)}
        /\ job[j].pc = "unput" /\ job[j].kind \notin Copying => Left(j) \cap rows \subseteq job[j].made
        /\ job[j].pc = "sweep" /\ job[j].status # 200 => Left(j) \subseteq job[j].sweep
        /\ job[j].pc \in {"answer", "done"} /\ job[j].status # 200 => Left(j) = {}
        /\ job[j].pc \notin InHand \cup Late => Left(j) \subseteq job[j].made

\* What an import is about to write is stored.
ContentOK(j) ==
    job[j].kind \in Applying /\ ~job[j].hit /\ job[j].pc \notin Late =>
        /\ job[j].content \subseteq Stored
        /\ job[j].pc \in {"register", "check"} => Current(j) \in objects
        /\ job[j].pc = "check" => Current(j) \in rows

JobsOK == \A j \in Jobs : BooksOK(j, job[j]) /\ CleanOK(j) /\ ContentOK(j)

\* Attachment ids are made up by the request.
FreshOK == \A j \in Jobs : job[j].pc = "new" => MadeBy(j) \cap (rows \cup objects) = {}

\* What the live document, a snapshot, or a request that read the document refers to.
Known == doc.refs \cup (UNION {v.refs : v \in undo}) \cup (UNION {job[j].current : j \in Jobs})

\* Nobody else knows of an attachment before its request is answered or its edit is live.
Private(j) == ~job[j].hit /\ (job[j].pc # "done" \/ job[j].kind \in Applying)
PrivateOK == \A j \in Jobs : Private(j) => MadeBy(j) \cap Known = {}

KnownOK ==
    /\ Known \subseteq Stored \cup GivenUp
    /\ {Elsewhere} \X Parts \subseteq Stored

\* A queue's counter, its limits, and its waiters: each once, and each waiting.
SlotOK(q) ==
    /\ slots[q].run = Limits[q][1] /\ slots[q].wait = Limits[q][2]
    /\ slots[q].active = Cardinality(Under(q))
    /\ slots[q].active <= slots[q].run
    /\ slots[q].waiting # <<>> => slots[q].active = slots[q].run
    /\ Len(slots[q].waiting) <= slots[q].wait
    /\ \A i \in 1..Len(slots[q].waiting) :
         /\ job[slots[q].waiting[i]].pc = "waiting"
         /\ q \in QueueOf(job[slots[q].waiting[i]].kind)
         /\ \A k \in 1..Len(slots[q].waiting) : slots[q].waiting[i] = slots[q].waiting[k] => i = k

SlotsOK == \A q \in Queues : SlotOK(q)

IInv == TypeOK /\ JobsOK /\ FreshOK /\ PrivateOK /\ KnownOK /\ SlotsOK

----------------------------------------------------------------------------
(* The helpers.                                                            *)

LEMMA Least == ASSUME NEW S \in SUBSET Nat, S # {} PROVE \E x \in S : \A y \in S : x <= y
<1>1. ASSUME NEW x \in Nat, NEW y \in Nat, y < x PROVE <<y, x>> \in OpToRel(<, Nat)
    BY <1>1 DEF OpToRel
<1>2. PICK x \in S : \A y \in S : <<y, x>> \notin OpToRel(<, Nat)
    BY NatLessThanWellFounded, WFMin
<1>3. ASSUME NEW y \in S PROVE ~(y < x)
    BY <1>1, <1>2
<1> QED BY <1>3

\* A request at work on its images works on one that is still to come.
LEMMA CurrentIs ==
    ASSUME NEW j \in Jobs, job[j].todo \in SUBSET Parts, job[j].todo # {}
    PROVE  /\ Current(j) \in {j} \X job[j].todo
           /\ Current(j)[2] \in job[j].todo /\ Current(j)[1] = j
           /\ Current(j) \in MadeBy(j) /\ Current(j) \in Attachment
<1>1. \E p \in job[j].todo : \A q \in job[j].todo : p <= q
    BY Least, AttachmentsAssumption
<1> QED BY <1>1 DEF Current, MadeBy, Attachment

\* What hardly any step of a request changes.
Kept(r, p) ==
    /\ p.kind = r.kind /\ p.current = r.current /\ p.hit = r.hit
    /\ p.content = r.content /\ p.made = r.made /\ p.lost = r.lost

Fields ==
    {"kind", "pc", "todo", "current", "base", "content", "made", "sweep", "lost", "hit", "status"}

LEMMA JobFields ==
    ASSUME NEW r \in JobStates
    PROVE  /\ DOMAIN r = Fields
           /\ r.kind \in Kinds \cup {"none"} /\ r.pc \in Pcs /\ r.todo \in SUBSET Parts /\ r.base \in Nat
           /\ r.current \in SUBSET Attachment /\ r.content \in SUBSET Attachment
           /\ r.made \in SUBSET Attachment /\ r.sweep \in SUBSET Attachment /\ r.lost \in SUBSET Attachment
           /\ r.hit \in BOOLEAN /\ r.status \in Statuses
BY DEF JobStates, Fields

LEMMA SetPc == ASSUME NEW r \in JobStates, NEW pc \in Pcs PROVE [r EXCEPT !.pc = pc] \in JobStates
BY DEF JobStates
LEMMA SetKind == ASSUME NEW r \in JobStates, NEW kind \in Kinds PROVE [r EXCEPT !.kind = kind] \in JobStates
BY DEF JobStates
LEMMA SetStatus ==
    ASSUME NEW r \in JobStates, NEW code \in Statuses PROVE [r EXCEPT !.status = code] \in JobStates
BY DEF JobStates
LEMMA SetHit == ASSUME NEW r \in JobStates PROVE [r EXCEPT !.hit = TRUE] \in JobStates
BY DEF JobStates
LEMMA SetBase == ASSUME NEW r \in JobStates, NEW base \in Nat PROVE [r EXCEPT !.base = base] \in JobStates
BY DEF JobStates
LEMMA SetTodo ==
    ASSUME NEW r \in JobStates, NEW todo \in SUBSET Parts PROVE [r EXCEPT !.todo = todo] \in JobStates
BY DEF JobStates
LEMMA SetCurrent ==
    ASSUME NEW r \in JobStates, NEW some \in SUBSET Attachment PROVE [r EXCEPT !.current = some] \in JobStates
BY DEF JobStates
LEMMA SetContent ==
    ASSUME NEW r \in JobStates, NEW some \in SUBSET Attachment PROVE [r EXCEPT !.content = some] \in JobStates
BY DEF JobStates
LEMMA SetMade ==
    ASSUME NEW r \in JobStates, NEW some \in SUBSET Attachment PROVE [r EXCEPT !.made = some] \in JobStates
BY DEF JobStates
LEMMA SetSweep ==
    ASSUME NEW r \in JobStates, NEW some \in SUBSET Attachment PROVE [r EXCEPT !.sweep = some] \in JobStates
BY DEF JobStates
LEMMA SetLost ==
    ASSUME NEW r \in JobStates, NEW some \in SUBSET Attachment PROVE [r EXCEPT !.lost = some] \in JobStates
BY DEF JobStates

LEMMA PlaceIs ==
    ASSUME NEW r \in JobStates, NEW pc \in Pcs
    PROVE  LET p == [r EXCEPT !.pc = pc]
           IN  /\ p \in JobStates /\ Kept(r, p)
               /\ p.pc = pc /\ p.todo = r.todo /\ p.status = r.status /\ p.sweep = r.sweep
<1>1. DOMAIN r = Fields
    BY JobFields
<1> QED BY <1>1, SetPc DEF Kept, Fields

LEMMA AnsweredIs ==
    ASSUME NEW r \in JobStates, NEW code \in Statuses
    PROVE  /\ Answered(r, code) \in JobStates
           /\ Kept(r, Answered(r, code))
           /\ Answered(r, code).pc = "answer" /\ Answered(r, code).status = code
           /\ Answered(r, code).todo = r.todo
<1>1. DOMAIN r = Fields
    BY JobFields
<1>2. [r EXCEPT !.pc = "answer"] \in JobStates
    BY SetPc DEF Pcs
<1>3. \A x \in JobStates : [x EXCEPT !.status = code] \in JobStates
    BY SetStatus
<1>4. Answered(r, code) \in JobStates
    BY <1>2, <1>3 DEF Answered
<1> QED BY <1>1, <1>4 DEF Answered, Kept, Fields

LEMMA FailingIs ==
    ASSUME NEW r \in JobStates, NEW code \in Statuses
    PROVE  /\ Failing(r, code) \in JobStates
           /\ Kept(r, Failing(r, code))
           /\ Failing(r, code).pc = "sweep" /\ Failing(r, code).status = code
           /\ Failing(r, code).todo = r.todo /\ Failing(r, code).sweep = r.made
<1>1. DOMAIN r = Fields /\ r.made \in SUBSET Attachment
    BY JobFields
<1>2. [r EXCEPT !.pc = "sweep"] \in JobStates
    BY SetPc DEF Pcs
<1>3. \A x \in JobStates : [x EXCEPT !.status = code] \in JobStates /\ [x EXCEPT !.sweep = r.made] \in JobStates
    BY <1>1, SetStatus, SetSweep
<1>4. Failing(r, code) \in JobStates
    BY <1>2, <1>3 DEF Failing
<1> QED BY <1>1, <1>4 DEF Failing, Kept, Fields

LEMMA LosingIs ==
    ASSUME NEW r \in JobStates, NEW a \in Attachment
    PROVE  /\ Losing(r, a) \in JobStates
           /\ Losing(r, a).lost = r.lost \cup {a}
           /\ Losing(r, a).kind = r.kind /\ Losing(r, a).current = r.current /\ Losing(r, a).hit = r.hit
           /\ Losing(r, a).content = r.content /\ Losing(r, a).made = r.made /\ Losing(r, a).pc = r.pc
           /\ Losing(r, a).status = r.status /\ Losing(r, a).todo = r.todo /\ Losing(r, a).sweep = r.sweep
<1>1. DOMAIN r = Fields /\ r.lost \cup {a} \in SUBSET Attachment
    BY JobFields
<1> QED BY <1>1, SetLost DEF Losing, Fields

LEMMA PartingIs ==
    ASSUME NEW r \in JobStates, r.kind \in Kinds, NEW todo \in SUBSET Parts
    PROVE  LET p == Parting(r, todo)
           IN  /\ p \in JobStates /\ Kept(r, p) /\ p.todo = todo
               /\ todo # {} => p.pc = First(r.kind) /\ p.status = r.status
               /\ todo = {} /\ r.kind \in {"docxApply", "markdown"} => p.pc = "read" /\ p.status = r.status
               /\ todo = {} /\ r.kind \in Excalidraw => p.pc = "preflight" /\ p.status = r.status
               /\ todo = {} /\ r.kind \notin Applying => p.pc = "answer" /\ p.status = 200
<1> DEFINE q == [r EXCEPT !.todo = todo]
<1>1. DOMAIN r = Fields
    BY JobFields
<1>2. q \in JobStates /\ Kept(r, q) /\ q.todo = todo /\ q.pc = r.pc /\ q.status = r.status
    BY <1>1, SetTodo DEF Kept, Fields
<1>3. First(r.kind) \in Pcs
    BY DEF First, Pcs
<1>4. CASE todo # {}
    <2>1. Parting(r, todo) = [q EXCEPT !.pc = First(r.kind)]
        BY <1>1, <1>4 DEF Parting
    <2> HIDE DEF q
    <2> QED BY <1>2, <1>3, <1>4, <2>1, PlaceIs DEF Kept
<1>5. CASE todo = {}
    <2>1. Parting(r, todo) = Through(q)
        BY <1>5 DEF Parting
    <2> HIDE DEF q
    <2>2. q.kind = r.kind
        BY <1>2 DEF Kept
    <2>p. \A pc \in {"read", "preflight"} :
              LET p == [q EXCEPT !.pc = pc]
              IN  p \in JobStates /\ Kept(r, p) /\ p.todo = todo /\ p.pc = pc /\ p.status = r.status
        <3>1. "read" \in Pcs /\ "preflight" \in Pcs
            BY DEF Pcs
        <3> QED BY <1>2, <3>1, PlaceIs DEF Kept
    <2>3. CASE r.kind \in {"docxApply", "markdown"}
        <3>1. Through(q) = [q EXCEPT !.pc = "read"]
            BY <2>2, <2>3 DEF Through, Excalidraw
        <3>2. r.kind \in Applying /\ r.kind \notin Excalidraw
            BY <2>3 DEF Applying, Excalidraw
        <3> QED BY <1>5, <2>1, <2>p, <3>1, <3>2
    <2>4. CASE r.kind \in Excalidraw
        <3>1. Through(q) = [q EXCEPT !.pc = "preflight"]
            BY <2>2, <2>4 DEF Through, Excalidraw
        <3>2. r.kind \in Applying /\ r.kind \notin {"docxApply", "markdown"}
            BY <2>4 DEF Applying, Excalidraw
        <3> QED BY <1>5, <2>1, <2>4, <2>p, <3>1, <3>2
    <2>5. CASE r.kind \notin Applying
        <3>1. Through(q) = Answered(q, 200) /\ 200 \in Statuses
            BY <2>2, <2>5 DEF Through, Applying, Excalidraw, Statuses
        <3>2. r.kind \notin Excalidraw /\ r.kind \notin {"docxApply", "markdown"}
            BY <2>5 DEF Applying
        <3>3. LET p == Answered(q, 200)
              IN  p \in JobStates /\ Kept(r, p) /\ p.todo = todo /\ p.pc = "answer" /\ p.status = 200
            BY <1>2, <3>1, AnsweredIs DEF Kept
        <3> QED BY <1>5, <2>1, <2>5, <3>1, <3>2, <3>3
    <2> QED BY <2>3, <2>4, <2>5 DEF Applying
<1> QED BY <1>4, <1>5

----------------------------------------------------------------------------
(* One step of one request.                                                *)

LEMMA QueueFields ==
    ASSUME NEW s \in QueueStates
    PROVE  s.active \in Nat /\ s.waiting \in Seq(Jobs) /\ s.run \in Nat /\ s.wait \in Nat
BY DEF QueueStates

LEMMA KnownIs ==
    ASSUME NEW a
    PROVE  a \in Known <=> \/ a \in doc.refs
                           \/ \E v \in undo : a \in v.refs
                           \/ \E x \in Jobs : a \in job[x].current
<1>1. a \in UNION {v.refs : v \in undo} <=> \E v \in undo : a \in v.refs
    BY Zenon
<1>2. a \in UNION {job[x].current : x \in Jobs} <=> \E x \in Jobs : a \in job[x].current
    BY Zenon
<1> QED BY <1>1, <1>2 DEF Known

LEMMA KnownNext ==
    ASSUME NEW a
    PROVE  a \in Known' <=> \/ a \in doc'.refs
                            \/ \E v \in undo' : a \in v.refs
                            \/ \E x \in Jobs : a \in job'[x].current
<1>1. a \in UNION {v.refs : v \in undo'} <=> \E v \in undo' : a \in v.refs
    BY Zenon
<1>2. a \in UNION {job'[x].current : x \in Jobs} <=> \E x \in Jobs : a \in job'[x].current
    BY Zenon
<1> QED BY <1>1, <1>2 DEF Known

\* What request x has given up.
Gave(x, a) ==
    \/ job[x].hit /\ job[x].status = 500 /\ a \in MadeBy(x)
    \/ job[x].kind = "replace" /\ job[x].status = 200 /\ a \in job[x].current

LEMMA GivenUpIs == \A a : a \in GivenUp <=> \E x \in Jobs : Gave(x, a)
<1> SUFFICES ASSUME NEW a PROVE a \in GivenUp <=> \E x \in Jobs : Gave(x, a)
    OBVIOUS
<1> DEFINE hits == {x \in Jobs : job[x].hit /\ job[x].status = 500}
           olds == {x \in Jobs : job[x].kind = "replace" /\ job[x].status = 200}
<1>1. GivenUp = (UNION {MadeBy(x) : x \in hits}) \cup (UNION {job[x].current : x \in olds})
    BY DEF GivenUp
<1> HIDE DEF hits, olds
<1>2. a \in UNION {MadeBy(x) : x \in hits} <=> \E x \in hits : a \in MadeBy(x)
    BY Zenon
<1>3. a \in UNION {job[x].current : x \in olds} <=> \E x \in olds : a \in job[x].current
    BY Zenon
<1>4. (\E x \in hits : a \in MadeBy(x)) <=> \E x \in Jobs : job[x].hit /\ job[x].status = 500 /\ a \in MadeBy(x)
    BY DEF hits
<1>5. (\E x \in olds : a \in job[x].current)
        <=> \E x \in Jobs : job[x].kind = "replace" /\ job[x].status = 200 /\ a \in job[x].current
    BY DEF olds
<1> QED BY <1>1, <1>2, <1>3, <1>4, <1>5 DEF Gave

LEMMA GivenUpNext == (\A a : a \in GivenUp <=> \E x \in Jobs : Gave(x, a))'
BY GivenUpIs, PTL

\* A step of a request that has been admitted and is not answered. It stores what is its
\* own, and deletes what nobody else knows of or what it gives up.
Moves(j, r) ==
    /\ job[j].pc \notin {"new", "waiting", "done"} /\ r.pc \notin {"new", "waiting", "done"}
    /\ job' = [job EXCEPT ![j] = r]
    /\ r \in JobStates /\ r.kind = job[j].kind
    /\ job[j].hit => r.hit
    /\ r.current \subseteq job[j].current \cup doc.refs
    /\ \A a : Gave(j, a) => Gave(j, a)'
    /\ UNCHANGED <<board, slots>>

Stores(j) ==
    /\ rows' \subseteq rows \cup MadeBy(j) /\ objects' \subseteq objects \cup MadeBy(j)
    /\ \A a : (a \in rows /\ a \notin rows') \/ (a \in objects /\ a \notin objects')
                => a[1] # Elsewhere /\ (Gave(j, a) \/ (a \in MadeBy(j) /\ Private(j)))
    /\ faults' \in 0..MaxFaults

LEMMA MadeApart == ASSUME NEW j, NEW x, j # x PROVE MadeBy(j) \cap MadeBy(x) = {}
BY DEF MadeBy

\* What a request may delete, no other import is about to write.
LEMMA OthersKept ==
    ASSUME IInv, NEW j \in Jobs, NEW r, Moves(j, r), Stores(j), NEW x \in Jobs, x # j
    PROVE  BooksOK(x, job'[x]) /\ CleanOK(x)' /\ ContentOK(x)'
<1>1. job'[x] = job[x] /\ Current(x)' = Current(x)
    BY DEF Moves, IInv, TypeOK, Current
<1>2. BooksOK(x, job[x]) /\ CleanOK(x) /\ ContentOK(x)
    BY DEF IInv, JobsOK
<1>3. Left(x)' \subseteq Left(x) /\ rows' \cap MadeBy(x) \subseteq rows
    BY <1>1, MadeApart DEF Stores, Left
<1>4. CleanOK(x)'
    <2>1. Left(x)' \cap rows' \subseteq Left(x) \cap rows
        BY <1>3 DEF Left
    <2> QED BY <1>1, <1>2, <1>3, <2>1 DEF CleanOK
<1>5. ASSUME job[x].kind \in Applying, ~job[x].hit, job[x].pc \notin Late, NEW a \in MadeBy(x)
      PROVE  (a \in rows => a \in rows') /\ (a \in objects => a \in objects')
    <2>1. a \notin Known
        BY <1>5 DEF IInv, PrivateOK, Private
    <2>2. ~Gave(j, a) /\ a \notin MadeBy(j)
        BY <2>1, KnownIs, MadeApart DEF Gave
    <2> QED BY <2>2 DEF Stores
<1>6. ContentOK(x)'
    <2>1. ASSUME job[x].kind \in Applying, ~job[x].hit, job[x].pc \notin Late
          PROVE  /\ job[x].content \subseteq Stored'
                 /\ job[x].pc \in {"register", "check"} => Current(x) \in objects'
                 /\ job[x].pc = "check" => Current(x) \in rows'
        <3>1. job[x].content \subseteq MadeBy(x)
            BY <1>2 DEF BooksOK
        <3>2. job[x].pc \in {"register", "check"} => Current(x) \in MadeBy(x)
            <4>1. job[x].todo \in SUBSET Parts
                BY JobFields DEF IInv, TypeOK
            <4> QED BY <1>2, <4>1, CurrentIs DEF BooksOK, OnPart
        <3> QED BY <1>2, <1>5, <2>1, <3>1, <3>2 DEF ContentOK, Stored
    <2> QED BY <1>1, <2>1 DEF ContentOK
<1> QED BY <1>1, <1>2, <1>4, <1>6

\* What a step makes known to others: nothing new, unless its edit goes live.
Tells(j, r) ==
    /\ doc' \in [refs : SUBSET Attachment, version : Nat, edits : 0..MaxEdits]
    /\ undo' \in SUBSET [by : Jobs, refs : SUBSET Attachment]
    /\ \A v \in undo' : v.refs \subseteq Known
    /\ \/ doc'.refs \subseteq Known
       \/ /\ job[j].pc = "apply" /\ r.hit
          /\ doc'.refs \subseteq Known \cup job[j].content
          /\ UNCHANGED storeVars

LEMMA SlotsRest ==
    ASSUME IInv, NEW j \in Jobs, NEW r, Moves(j, r)
    PROVE  SlotsOK'
<1>1. \A x \in Jobs : /\ job'[x].kind = job[x].kind
                      /\ job'[x].pc = job[x].pc \/ {job[x].pc, job'[x].pc} \cap {"waiting", "done"} = {}
    BY DEF Moves, IInv, TypeOK
<1>2. \A q \in Queues : Under(q)' = Under(q)
    BY <1>1 DEF Under
<1>3. ASSUME NEW q \in Queues, NEW i \in 1..Len(slots[q].waiting)
      PROVE  slots[q].waiting[i] \in Jobs
    BY QueueFields DEF IInv, TypeOK
<1>4. ASSUME NEW q \in Queues PROVE SlotOK(q)'
    <2>1. SlotOK(q) /\ slots' = slots
        BY DEF IInv, SlotsOK, Moves
    <2> QED BY <1>1, <1>2, <1>3, <2>1 DEF SlotOK
<1> QED BY <1>4 DEF SlotsOK

LEMMA KnownRest ==
    ASSUME IInv, NEW j \in Jobs, NEW r, Moves(j, r), Stores(j), Tells(j, r), BooksOK(j, r)
    PROVE  PrivateOK' /\ KnownOK'
<1>1. ASSUME NEW x \in Jobs PROVE x # j => job'[x] = job[x]
    BY DEF Moves, IInv, TypeOK
<1>2. job'[j] = r /\ j # Elsewhere
    BY AttachmentsAssumption DEF Moves, IInv, TypeOK
<1>3. job[j].content \subseteq MadeBy(j)
    BY DEF IInv, JobsOK, BooksOK
<1>4. ASSUME NEW a, a \in Known'
      PROVE  a \in Known \/ (a \in job[j].content /\ job[j].pc = "apply" /\ r.hit /\ UNCHANGED storeVars)
    <2>1. CASE a \in doc'.refs
        BY <2>1 DEF Tells
    <2>2. CASE \E v \in undo' : a \in v.refs
        BY <2>2 DEF Tells
    <2>3. ASSUME NEW x \in Jobs, a \in job'[x].current PROVE a \in Known
        <3>1. a \in job[x].current \/ a \in doc.refs
            BY <1>1, <1>2, <2>3 DEF Moves
        <3> QED BY <3>1, KnownIs
    <2>4. a \in doc'.refs \/ (\E v \in undo' : a \in v.refs) \/ \E x \in Jobs : a \in job'[x].current
        BY <1>4, KnownNext
    <2> QED BY <2>1, <2>2, <2>3, <2>4
<1>5. PrivateOK'
    <2>1. ASSUME NEW x \in Jobs, Private(x)', NEW a \in MadeBy(x), a \in Known' PROVE FALSE
        <3>1. Private(x) /\ (x = j => ~r.hit)
            BY <1>1, <1>2, <2>1 DEF Private, Moves
        <3>2. a \notin Known
            BY <3>1 DEF IInv, PrivateOK
        <3>3. a \in MadeBy(j) /\ r.hit
            BY <1>3, <1>4, <2>1, <3>2
        <3> QED BY <3>1, <3>3, MadeApart
    <2> QED BY <2>1 DEF PrivateOK, MadeBy
<1>6. ASSUME NEW a, a \in GivenUp PROVE a \in GivenUp'
    <2>1. PICK x \in Jobs : Gave(x, a)
        BY <1>6, GivenUpIs
    <2>2. Gave(x, a)'
        <3>1. CASE x = j
            BY <2>1, <3>1 DEF Moves
        <3>2. CASE x # j
            BY <1>1, <2>1, <3>2 DEF Gave, MadeBy
        <3> QED BY <3>1, <3>2
    <2> QED BY <2>2, GivenUpNext
<1>7. ASSUME NEW a \in Stored, a \in Known \/ a[1] = Elsewhere PROVE a \in Stored' \/ (a \in GivenUp' /\ a[1] # Elsewhere)
    <2>1. CASE a \in Stored'
        BY <2>1
    <2>2. CASE a \notin Stored'
        <3>1. a[1] # Elsewhere /\ (Gave(j, a) \/ (a \in MadeBy(j) /\ Private(j)))
            BY <2>2 DEF Stores, Stored
        <3>2. Gave(j, a)
            BY <1>7, <3>1 DEF IInv, PrivateOK
        <3>3. a \in GivenUp
            BY <3>2, GivenUpIs
        <3> QED BY <1>6, <3>1, <3>3
    <2> QED BY <2>1, <2>2
<1>8. KnownOK'
    <2>1. ASSUME NEW a, a \in Known' PROVE a \in Stored' \cup GivenUp'
        <3>1. CASE a \in Known
            BY <1>6, <1>7, <3>1 DEF IInv, KnownOK
        <3>2. CASE a \in job[j].content /\ job[j].pc = "apply" /\ r.hit /\ UNCHANGED storeVars
            <4>1. ContentOK(j) /\ BooksOK(j, job[j])
                BY DEF IInv, JobsOK
            <4>2. a \in Stored
                BY <3>2, <4>1 DEF ContentOK, BooksOK, Late
            <4> QED BY <3>2, <4>2 DEF Stored, storeVars
        <3> QED BY <1>4, <2>1, <3>1, <3>2
    <2>2. ASSUME NEW a \in {Elsewhere} \X Parts PROVE a \in Stored'
        <3>1. a \in Stored /\ a[1] = Elsewhere
            BY DEF IInv, KnownOK
        <3> QED BY <1>7, <3>1
    <2> QED BY <2>1, <2>2 DEF KnownOK
<1> QED BY <1>5, <1>8

LEMMA StepIInv ==
    ASSUME IInv, NEW j \in Jobs, NEW r, Moves(j, r), Stores(j), Tells(j, r),
           BooksOK(j, r), CleanOK(j)', ContentOK(j)'
    PROVE  IInv'
<1>1. MadeBy(j) \subseteq Attachment
    BY DEF MadeBy, Attachment
<1>2. job' \in [Jobs -> JobStates] /\ job'[j] = r
    BY DEF Moves, IInv, TypeOK
<1>3. TypeOK'
    BY <1>1, <1>2 DEF IInv, TypeOK, Moves, Stores, Tells
<1>4. JobsOK'
    <2>1. ASSUME NEW x \in Jobs PROVE BooksOK(x, job'[x]) /\ CleanOK(x)' /\ ContentOK(x)'
        <3>1. CASE x = j
            BY <1>2, <3>1
        <3>2. CASE x # j
            BY <3>2, OthersKept
        <3> QED BY <3>1, <3>2
    <2> QED BY <2>1 DEF JobsOK
<1>5. FreshOK'
    <2>1. ASSUME NEW x \in Jobs, job'[x].pc = "new" PROVE MadeBy(x) \cap (rows' \cup objects') = {}
        <3>1. x # j /\ job[x].pc = "new"
            BY <1>2, <2>1 DEF Moves, IInv, TypeOK
        <3> QED BY <3>1, MadeApart DEF IInv, FreshOK, Stores
    <2> QED BY <2>1 DEF FreshOK, MadeBy
<1> QED BY <1>3, <1>4, <1>5, SlotsRest, KnownRest DEF IInv

----------------------------------------------------------------------------
(* The ways a request goes on.                                             *)

LEMMA InitIInv == Init => IInv
<1> SUFFICES ASSUME Init PROVE IInv
    OBVIOUS
<1> USE AttachmentsAssumption, JobsAssumption
<1>1. NewJob \in JobStates
    BY DEF NewJob, JobStates, Pcs, Statuses
<1>2. TypeOK
    BY <1>1 DEF Init, StoreInit, TypeOK, Attachment, NewQueue, Queues, QueueStates
<1>3. JobsOK
    <2>1. ASSUME NEW j \in Jobs PROVE Left(j) = {}
        BY DEF Init, StoreInit, Left, MadeBy
    <2> QED BY <2>1 DEF Init, NewJob, JobsOK, BooksOK, CleanOK, ContentOK, Late, OnPart, InHand, Compiling
<1>f. FreshOK
    BY DEF Init, StoreInit, FreshOK, MadeBy
<1>4. \A a : a \in Known <=> a = <<Here, 1>>
    BY KnownIs DEF Init, NewJob
<1>5. PrivateOK
    BY <1>4 DEF PrivateOK, MadeBy
<1>6. KnownOK
    BY <1>4 DEF KnownOK, Init, StoreInit, Stored
<1>7. SlotsOK
    <2>1. ASSUME NEW q \in Queues PROVE Under(q) = {}
        BY DEF Under, Init, NewJob, QueueOf
    <2>2. ASSUME NEW q \in Queues
          PROVE  /\ slots[q].active = 0 /\ slots[q].waiting = <<>>
                 /\ slots[q].run = Limits[q][1] /\ slots[q].wait = Limits[q][2]
        BY DEF Init, NewQueue
    <2>3. ASSUME NEW q \in Queues PROVE SlotOK(q)
        <3>1. Limits[q][1] \in Nat /\ Limits[q][2] \in Nat /\ Cardinality(Under(q)) = 0
            BY <2>1, FS_EmptySet
        <3> QED BY <2>2, <3>1 DEF SlotOK
    <2> QED BY <2>3 DEF SlotsOK
<1> QED BY <1>2, <1>3, <1>f, <1>5, <1>6, <1>7 DEF IInv

LEMMA Quiet ==
    ASSUME IInv, NEW j \in Jobs, NEW r
    PROVE  /\ UNCHANGED <<doc, undo>> => Tells(j, r)
           /\ UNCHANGED storeVars => Stores(j)
<1>1. doc.refs \subseteq Known /\ \A v \in undo : v.refs \subseteq Known
    BY KnownIs
<1> QED BY <1>1 DEF Tells, Stores, storeVars, IInv, TypeOK

\* A request not yet failed or answered, as it goes on with q.
GoesOn(j, q) ==
    /\ job[j].pc \notin Late \cup {"new", "waiting"}
    /\ q \in JobStates /\ q.kind = job[j].kind /\ q.hit = job[j].hit /\ q.status = 0
    /\ q.current \subseteq job[j].current \cup doc.refs
    /\ q.content \subseteq q.made /\ q.made \subseteq MadeBy(j) /\ ({j} \X q.todo) \cap q.made = {}

\* What an import has made and what it has lost is all there can be of it, but for some.
Tidy(j, q, some) == q.kind \in Applying => MadeBy(j) \cap (rows' \cup objects') \subseteq q.lost \cup q.made \cup some

LEMMA GoesOnMoves ==
    ASSUME IInv, NEW j \in Jobs, NEW q, GoesOn(j, q), NEW r \in JobStates, Kept(q, r),
           r.pc \notin {"new", "waiting", "done"}, job' = [job EXCEPT ![j] = r], UNCHANGED <<board, slots>>
    PROVE  Moves(j, r)
<1>1. job[j].status = 0
    BY DEF IInv, JobsOK, BooksOK, GoesOn
<1> QED BY <1>1 DEF Moves, GoesOn, Kept, Gave, Late

LEMMA PartingStep ==
    ASSUME IInv, NEW j \in Jobs, NEW q, GoesOn(j, q), Tidy(j, q, {}), ~q.hit,
           NEW todo \in SUBSET Parts, ({j} \X todo) \cap q.made = {},
           job' = [job EXCEPT ![j] = Parting(q, todo)], Stores(j), UNCHANGED <<board, slots, doc, undo>>,
           q.kind \in Applying => q.content \subseteq Stored'
    PROVE  IInv'
<1> DEFINE r == Parting(q, todo)
<1>1. q.kind \in Kinds
    BY JobFields DEF IInv, JobsOK, BooksOK, GoesOn, TypeOK
<1>2. /\ r \in JobStates /\ Kept(q, r) /\ r.todo = todo
      /\ todo # {} => r.pc = First(q.kind) /\ r.status = 0
      /\ todo = {} /\ q.kind \in {"docxApply", "markdown"} => r.pc = "read" /\ r.status = 0
      /\ todo = {} /\ q.kind \in Excalidraw => r.pc = "preflight" /\ r.status = 0
      /\ todo = {} /\ q.kind \notin Applying => r.pc = "answer" /\ r.status = 200
    BY <1>1, PartingIs DEF GoesOn
<1> HIDE DEF r
<1>3. First(q.kind) \in {"fetch", "put", "register"}
      /\ (q.kind \in Applying => First(q.kind) \in {"fetch", "put"})
    BY DEF First, Applying, Excalidraw, Copying
<1>4. /\ r.pc \in {"fetch", "put", "register", "read", "preflight", "answer"}
      /\ r.pc \in OnPart => todo # {}
      /\ r.kind \in Applying => r.pc \in {"fetch", "put", "read", "preflight"}
      /\ r.pc \in {"read", "preflight"} => r.kind \in Applying
      /\ r.pc # "answer" => r.status = 0
    BY <1>2, <1>3 DEF Kept, OnPart, Applying, Excalidraw
<1>5. Moves(j, r)
    BY <1>2, <1>4, GoesOnMoves DEF r, OnPart
<1>n. q.kind # "none"
    BY <1>1 DEF Kinds, Applying, Excalidraw, Uploads
<1>6. BooksOK(j, r)
    BY <1>n, <1>2, <1>4 DEF BooksOK, Kept, GoesOn, OnPart, Late, Compiling
<1>7. job'[j] = r
    BY DEF r, IInv, TypeOK
<1>8. r.kind \in Applying => Left(j)' \subseteq r.made
    BY <1>2, <1>7 DEF Left, Tidy, Kept, MadeBy
<1>9. CleanOK(j)' /\ ContentOK(j)'
    BY <1>2, <1>4, <1>7, <1>8 DEF CleanOK, ContentOK, InHand, Late, Kept
<1> QED BY <1>5, <1>6, <1>9, Quiet, StepIInv

LEMMA AnswerStep ==
    ASSUME IInv, NEW j \in Jobs, NEW q, GoesOn(j, q), Tidy(j, q, {}), NEW code \in Codes,
           job' = [job EXCEPT ![j] = Answered(q, code)], Stores(j), UNCHANGED <<board, slots, doc, undo>>,
           q.kind \in Applying /\ code # 200 => q.made = {}
    PROVE  IInv'
<1> DEFINE r == Answered(q, code)
<1>1. q.kind # "none" /\ (q.hit => q.kind \in Applying)
    BY DEF IInv, JobsOK, BooksOK, GoesOn
<1>2. r \in JobStates /\ Kept(q, r) /\ r.pc = "answer" /\ r.status = code /\ r.todo = q.todo
    <2>1. code \in Statuses
        BY DEF Codes, Statuses
    <2> QED BY <2>1, AnsweredIs DEF GoesOn
<1> HIDE DEF r
<1>3. Moves(j, r)
    BY <1>2, GoesOnMoves DEF r
<1>4. BooksOK(j, r)
    BY <1>1, <1>2 DEF BooksOK, Kept, GoesOn, OnPart, Late, Compiling
<1>5. job'[j] = r
    BY DEF r, IInv, TypeOK
<1>6. CleanOK(j)' /\ ContentOK(j)'
    BY <1>2, <1>5 DEF CleanOK, ContentOK, InHand, Late, Kept, Left, Tidy, MadeBy
<1> QED BY <1>3, <1>4, <1>6, Quiet, StepIInv

LEMMA FailStep ==
    ASSUME IInv, NEW j \in Jobs, NEW q, GoesOn(j, q), Tidy(j, q, {}), NEW code \in Failures,
           q.kind \in Applying, q.hit => code \in Fatal,
           job' = [job EXCEPT ![j] = Failing(q, code)], Stores(j), Tells(j, Failing(q, code)),
           UNCHANGED <<board, slots>>
    PROVE  IInv'
<1> DEFINE r == Failing(q, code)
<1>s. code \in Statuses
    BY DEF Statuses, Failures
<1>2. r \in JobStates /\ Kept(q, r) /\ r.pc = "sweep" /\ r.status = code /\ r.todo = q.todo /\ r.sweep = q.made
    BY <1>s, FailingIs DEF GoesOn
<1>1. Tells(j, r)
    OBVIOUS
<1> HIDE DEF r
<1>3. Moves(j, r)
    BY <1>2, GoesOnMoves DEF r
<1>4. BooksOK(j, r)
    BY <1>2 DEF BooksOK, Kept, GoesOn, OnPart, Late, Applying, Excalidraw, Compiling, Failures, Fatal
<1>5. job'[j] = r
    BY DEF r, IInv, TypeOK
<1>6. CleanOK(j)' /\ ContentOK(j)'
    BY <1>2, <1>5 DEF CleanOK, ContentOK, InHand, Late, Kept, Left, Tidy, MadeBy
<1> QED BY <1>1, <1>3, <1>4, <1>6, StepIInv

LEMMA IsFailure == 400 \in Failures /\ 500 \in Failures \cap Fatal
BY DEF Failures, Fatal

\* On to another place.
LEMMA PlaceStep ==
    ASSUME IInv, NEW j \in Jobs, NEW q, GoesOn(j, q), NEW pc \in Pcs,
           pc \notin Late \cup {"new", "waiting", "start"}, q.hit <=> pc = "flush",
           job' = [job EXCEPT ![j] = [q EXCEPT !.pc = pc]], Stores(j), Tells(j, [q EXCEPT !.pc = pc]),
           UNCHANGED <<board, slots>>,
           pc \in OnPart => q.todo # {} /\ q.todo = job[j].todo,
           pc \in {"check", "read", "preflight", "tx", "apply", "flush"} => q.kind \in Applying,
           pc \in Compiling => q.kind \notin Applying,
           Tidy(j, q, IF pc \in InHand THEN {Current(j)} ELSE {}),
           pc = "unput" /\ q.kind \in Applying \ Copying => MadeBy(j) \cap rows' \subseteq q.lost \cup q.made,
           q.kind \in Applying /\ ~q.hit =>
              /\ q.content \subseteq Stored'
              /\ pc \in {"register", "check"} => Current(j) \in objects'
              /\ pc = "check" => Current(j) \in rows'
    PROVE  IInv'
<1> DEFINE r == [q EXCEPT !.pc = pc]
<1>1. q.kind # "none" /\ (q.hit => q.kind \in Applying)
    BY DEF IInv, JobsOK, BooksOK, GoesOn
<1>2. r \in JobStates /\ Kept(q, r) /\ r.pc = pc /\ r.todo = q.todo /\ r.status = 0
    BY PlaceIs DEF GoesOn
<1>t. Tells(j, r)
    OBVIOUS
<1> HIDE DEF r
<1>3. Moves(j, r)
    BY <1>2, GoesOnMoves DEF r, Late
<1>4. BooksOK(j, r)
    BY <1>1, <1>2 DEF BooksOK, Kept, GoesOn, Late, Compiling
<1>5. job'[j] = r
    BY DEF r, IInv, TypeOK
<1>6. pc \in OnPart => Current(j)' = Current(j)
    BY <1>2, <1>5 DEF Current
<1>7. CleanOK(j)'
    <2>1. r.kind \in Applying => Left(j)' \subseteq r.made \cup IF pc \in InHand THEN {Current(j)} ELSE {}
        BY <1>2, <1>5 DEF Left, Tidy, Kept, MadeBy
    <2>2. pc = "unput" /\ r.kind \in Applying \ Copying => Left(j)' \cap rows' \subseteq r.made
        BY <1>2, <1>5 DEF Left, Kept, MadeBy
    <2> QED BY <1>2, <1>5, <1>6, <2>1, <2>2 DEF CleanOK, InHand, OnPart, Late
<1>8. ContentOK(j)'
    BY <1>2, <1>5, <1>6 DEF ContentOK, Kept, OnPart, Late
<1> QED BY <1>t, <1>3, <1>4, <1>7, <1>8, StepIInv

----------------------------------------------------------------------------
(* Starting.                                                               *)

LEMMA Beginning ==
    ASSUME IInv, NEW j \in Jobs, job[j].pc = "start"
    PROVE  /\ GoesOn(j, job[j]) /\ ~job[j].hit
           /\ job[j].made = {} /\ job[j].content = {}
           /\ UNCHANGED storeVars => Tidy(j, job[j], {}) /\ Stores(j)
<1>1. BooksOK(j, job[j]) /\ CleanOK(j) /\ job[j] \in JobStates
    BY DEF IInv, JobsOK, TypeOK
<1>2. UNCHANGED storeVars => Tidy(j, job[j], {})
    BY <1>1 DEF Tidy, storeVars, CleanOK, Left, InHand, Late
<1> QED BY <1>1, <1>2, Quiet DEF BooksOK, GoesOn, Late

LEMMA StartParts ==
    ASSUME IInv, NEW j \in Jobs, job[j].pc = "start", UNCHANGED <<storeVars, board, doc, undo, slots>>,
           NEW q \in JobStates, Kept([job[j] EXCEPT !.current = q.current], q), q.status = 0, q.todo = job[j].todo,
           q.current \in {job[j].current, doc.refs}
    PROVE  /\ \A some \in SUBSET Parts : Set(j, Parting(q, some)) => IInv'
           /\ \A code \in Codes : Set(j, Answered(q, code)) => IInv'
<1>1. /\ GoesOn(j, job[j]) /\ ~job[j].hit /\ job[j].made = {} /\ job[j].content = {}
      /\ Tidy(j, job[j], {}) /\ Stores(j)
    BY Beginning
<1>2. DOMAIN job[j] = Fields
    BY JobFields DEF IInv, TypeOK
<1>3. /\ q.kind = job[j].kind /\ q.hit = job[j].hit /\ q.content = {} /\ q.made = {} /\ q.lost = job[j].lost
    BY <1>1, <1>2 DEF Kept, Fields
<1>4. GoesOn(j, q) /\ Tidy(j, q, {})
    BY <1>1, <1>3 DEF GoesOn, Tidy
<1>5. ASSUME NEW some \in SUBSET Parts, Set(j, Parting(q, some)) PROVE IInv'
    BY <1>1, <1>3, <1>4, <1>5, PartingStep DEF Set
<1>6. ASSUME NEW code \in Codes, Set(j, Answered(q, code)) PROVE IInv'
    BY <1>1, <1>3, <1>4, <1>6, AnswerStep DEF Set
<1> QED BY <1>5, <1>6

LEMMA StartPlain ==
    ASSUME IInv, NEW j \in Jobs, job[j].pc = "start", UNCHANGED <<storeVars, board, doc, undo, slots>>
    PROVE  /\ \A some \in SUBSET Parts : Set(j, Parting(job[j], some)) => IInv'
           /\ \A code \in Codes : Set(j, Answered(job[j], code)) => IInv'
           /\ job[j].kind \notin Applying /\ Set(j, [job[j] EXCEPT !.pc = "compile"]) => IInv'
<1>1. /\ GoesOn(j, job[j]) /\ ~job[j].hit /\ job[j].made = {} /\ job[j].content = {}
      /\ Tidy(j, job[j], {}) /\ Stores(j)
    BY Beginning
<1>2. ASSUME NEW some \in SUBSET Parts, Set(j, Parting(job[j], some)) PROVE IInv'
    BY <1>1, <1>2, PartingStep DEF Set
<1>3. ASSUME NEW code \in Codes, Set(j, Answered(job[j], code)) PROVE IInv'
    BY <1>1, <1>3, AnswerStep DEF Set
<1>4. ASSUME job[j].kind \notin Applying, Set(j, [job[j] EXCEPT !.pc = "compile"]) PROVE IInv'
    <2>1. Tells(j, [job[j] EXCEPT !.pc = "compile"])
        BY Quiet
    <2>2. "compile" \in Pcs \ (Late \cup InHand \cup OnPart)
        BY DEF Pcs, Late, InHand, OnPart
    <2> QED BY <1>1, <1>4, <2>1, <2>2, PlaceStep DEF Set
<1> QED BY <1>2, <1>3, <1>4

LEMMA UptoOK == ASSUME NEW j \in Jobs, NEW some \in Upto(j) \cup {{}} PROVE some \in SUBSET Parts
BY JobsAssumption DEF Upto

LEMMA StartStep == ASSUME IInv, NEW j \in Jobs, Start(j) PROVE IInv'
<1> USE DEF Starting
<1>0. 200 \in Codes /\ 400 \in Codes /\ 500 \in Codes /\ 1..1 \in SUBSET Parts
    BY AttachmentsAssumption DEF Codes
<1>1. CASE StartDocx(j)
    <2>1. job[j].pc = "start" /\ UNCHANGED <<storeVars, board, doc, undo, slots>>
        BY <1>1 DEF StartDocx
    <2>2. ASSUME NEW some \in Upto(j) \cup {{}}, Set(j, Parting(job[j], some)) PROVE IInv'
        BY <2>1, <2>2, StartPlain, UptoOK
    <2>3. ASSUME Set(j, Answered(job[j], 400)) PROVE IInv'
        BY <1>0, <2>1, <2>3, StartPlain
    <2> QED BY <1>1, <2>2, <2>3 DEF StartDocx
<1>2. CASE StartMarkdown(j)
    <2>1. job[j].pc = "start" /\ UNCHANGED <<storeVars, board, doc, undo, slots>>
        BY <1>2 DEF StartMarkdown
    <2>2. ASSUME NEW some \in Upto(j) \cup {{}}, Set(j, Parting(job[j], some)) PROVE IInv'
        BY <2>1, <2>2, StartPlain, UptoOK
    <2>3. ASSUME Set(j, Answered(job[j], 400)) PROVE IInv'
        BY <1>0, <2>1, <2>3, StartPlain
    <2> QED BY <1>2, <2>2, <2>3 DEF StartMarkdown
<1>3. CASE StartCopy(j)
    BY <1>3, StartPlain, UptoOK DEF StartCopy
<1>4. CASE StartIngest(j)
    BY <1>4, StartPlain, UptoOK DEF StartIngest
<1>5. CASE StartSvg(j)
    BY <1>0, <1>5, StartPlain DEF StartSvg
<1>6. CASE StartPresign(j)
    BY <1>0, <1>6, StartPlain DEF StartPresign
<1>7. CASE StartPdf(j)
    <2>1. job[j].pc = "start" /\ UNCHANGED <<storeVars, board, doc, undo, slots>> /\ job[j].kind \notin Applying
        BY <1>7 DEF StartPdf, Applying, Excalidraw
    <2>2. ASSUME Set(j, [job[j] EXCEPT !.pc = "compile"]) PROVE IInv'
        BY <2>1, <2>2, StartPlain
    <2>3. ASSUME Set(j, Answered(job[j], 500)) PROVE IInv'
        BY <1>0, <2>1, <2>3, StartPlain
    <2> QED BY <1>7, <2>2, <2>3 DEF StartPdf
<1>8. CASE Rasterize(j)
    <2>1. job[j].pc = "start" /\ UNCHANGED <<storeVars, board, doc, undo, slots>>
        BY <1>8 DEF Rasterize
    <2>2. ASSUME Set(j, Answered(job[j], 200)) PROVE IInv'
        BY <1>0, <2>1, <2>2, StartPlain
    <2>3. ASSUME Set(j, Answered(job[j], 500)) PROVE IInv'
        BY <1>0, <2>1, <2>3, StartPlain
    <2> QED BY <1>8, <2>2, <2>3 DEF Rasterize
<1>9. CASE StartExcalidraw(j)
    <2> DEFINE q == [job[j] EXCEPT !.base = doc.version, !.current = doc.refs]
    <2>1. job[j] \in JobStates /\ DOMAIN job[j] = Fields /\ doc.version \in Nat /\ doc.refs \in SUBSET Attachment
        BY JobFields DEF IInv, TypeOK
    <2>2. [job[j] EXCEPT !.base = doc.version] \in JobStates
        BY <2>1, SetBase
    <2>3. q \in JobStates
        BY <2>1, <2>2, SetCurrent
    <2>4. job[j].status = 0
        BY <1>9 DEF StartExcalidraw, IInv, JobsOK, BooksOK, Late
    <2>5. /\ q.current = doc.refs /\ q.status = 0 /\ q.todo = job[j].todo
          /\ Kept([job[j] EXCEPT !.current = q.current], q)
        BY <2>1, <2>4 DEF Kept, Fields
    <2>6. /\ job[j].pc = "start" /\ UNCHANGED <<storeVars, board, doc, undo, slots>>
          /\ (\E used \in Upto(j) \cup {{}} : Set(j, Parting(q, used))) \/ Set(j, Answered(q, 400))
        BY <1>9 DEF StartExcalidraw
    <2> HIDE DEF q
    <2> QED BY <1>0, <2>3, <2>5, <2>6, StartParts, UptoOK
<1> QED BY <1>1, <1>2, <1>3, <1>4, <1>5, <1>6, <1>7, <1>8, <1>9 DEF Start

\* What is known of a request at work on a part, or beyond the parts.
LEMMA AtPlace ==
    ASSUME IInv, NEW j \in Jobs, job[j].pc \notin Late \cup {"new", "waiting"}
    PROVE  /\ GoesOn(j, job[j]) /\ BooksOK(j, job[j]) /\ CleanOK(j) /\ ContentOK(j)
           /\ job[j] \in JobStates /\ DOMAIN job[j] = Fields /\ job[j].kind \in Kinds
           /\ job[j].todo \in SUBSET Parts /\ job[j].made \in SUBSET Attachment
           /\ job[j].content \in SUBSET Attachment
<1>1. BooksOK(j, job[j]) /\ CleanOK(j) /\ ContentOK(j) /\ job[j] \in JobStates
    BY DEF IInv, JobsOK, TypeOK
<1> QED BY <1>1, JobFields DEF BooksOK, GoesOn, Late

LEMMA AtPart ==
    ASSUME IInv, NEW j \in Jobs, job[j].pc \in OnPart
    PROVE  /\ GoesOn(j, job[j]) /\ BooksOK(j, job[j]) /\ CleanOK(j) /\ ContentOK(j)
           /\ job[j] \in JobStates /\ DOMAIN job[j] = Fields /\ job[j].kind \in Kinds
           /\ job[j].todo \in SUBSET Parts /\ job[j].made \in SUBSET Attachment
           /\ job[j].content \in SUBSET Attachment
           /\ job[j].todo # {} /\ Current(j) \in {j} \X job[j].todo
           /\ Current(j)[2] \in job[j].todo /\ Current(j) \in MadeBy(j) /\ Current(j) \in Attachment
           /\ Current(j)[1] = j /\ Current(j) \notin job[j].made /\ Current(j) \notin job[j].content
           /\ ~job[j].hit /\ Private(j)
<1>1. job[j].pc \notin Late \cup {"new", "waiting", "flush"}
    BY DEF OnPart, Late
<1>2. GoesOn(j, job[j]) /\ BooksOK(j, job[j]) /\ job[j].todo \in SUBSET Parts
    BY <1>1, AtPlace
<1>3. job[j].todo # {} /\ ~job[j].hit
    BY <1>1, <1>2 DEF BooksOK
<1> QED BY <1>1, <1>2, <1>3, AtPlace, CurrentIs DEF BooksOK, Private, Late

LEMMA CompileStep == ASSUME IInv, NEW j \in Jobs, Compile(j) PROVE IInv'
<1> DEFINE r == job[j]
<1>1. r.pc \in Compiling /\ UNCHANGED <<storeVars, board, doc, undo, slots>>
    BY DEF Compile, Compiling
<1>2. GoesOn(j, r) /\ r.kind \notin Applying /\ ~r.hit
    BY <1>1, AtPlace DEF BooksOK, Compiling, Late
<1>3. Tidy(j, r, {}) /\ Stores(j)
    BY <1>1, <1>2, Quiet DEF Tidy
<1>4. ASSUME NEW pc \in {"probe", "partial", "verbatim"}, Set(j, [r EXCEPT !.pc = pc]) PROVE IInv'
    <2>1. pc \in Pcs /\ pc \notin Late \cup {"new", "waiting", "start"} \cup OnPart \cup InHand
        BY DEF Pcs, Late, OnPart, InHand
    <2>2. Tells(j, [r EXCEPT !.pc = pc])
        BY <1>1, Quiet
    <2> QED BY <1>1, <1>2, <1>3, <1>4, <2>1, <2>2, PlaceStep DEF Set
<1>5. ASSUME NEW code \in Codes, Set(j, Answered(r, code)) PROVE IInv'
    BY <1>1, <1>2, <1>3, <1>5, AnswerStep DEF Set
<1>6. \/ \E pc \in {"probe", "partial", "verbatim"} : Set(j, [r EXCEPT !.pc = pc])
      \/ Set(j, Answered(r, 200)) \/ Set(j, Answered(r, 500))
    BY DEF Compile
<1>7. 200 \in Codes /\ 500 \in Codes
    BY DEF Codes
<1> QED BY <1>4, <1>5, <1>6, <1>7

----------------------------------------------------------------------------
(* The images.                                                             *)

\* What is left of an import on the way, and what its edit may rely on.
LEMMA PartLeft ==
    ASSUME IInv, NEW j \in Jobs, job[j].pc \in OnPart, job[j].kind \in Applying
    PROVE  /\ MadeBy(j) \cap (rows \cup objects) \subseteq job[j].lost \cup job[j].made \cup {Current(j)}
           /\ job[j].pc \notin InHand => MadeBy(j) \cap (rows \cup objects) \subseteq job[j].lost \cup job[j].made
           /\ job[j].pc = "unput" /\ job[j].kind \notin Copying
                => MadeBy(j) \cap rows \subseteq job[j].lost \cup job[j].made
           /\ job[j].content \subseteq Stored
           /\ job[j].pc \in {"register", "check"} => Current(j) \in objects
           /\ job[j].pc = "check" => Current(j) \in rows
<1>1. CleanOK(j) /\ ContentOK(j) /\ ~job[j].hit
    BY AtPart
<1>2. job[j].pc \notin Late
    BY DEF OnPart, Late
<1>3. /\ job[j].pc \in InHand => Left(j) \subseteq job[j].made \cup {Current(j)}
      /\ job[j].pc = "unput" /\ job[j].kind \notin Copying => Left(j) \cap rows \subseteq job[j].made
      /\ job[j].pc \notin InHand => Left(j) \subseteq job[j].made
    BY <1>1, <1>2 DEF CleanOK
<1> QED BY <1>1, <1>2, <1>3 DEF ContentOK, Left

\* What a call of the store or the database for the part in hand may do.
LEMMA PartStores ==
    ASSUME IInv, NEW j \in Jobs, job[j].pc \in OnPart, Fault \/ UNCHANGED faults,
           rows' \in {rows, rows \cup {Current(j)}, rows \ {Current(j)}},
           objects' \in {objects, objects \cup {Current(j)}, objects \ {Current(j)}}
    PROVE  Stores(j)
<1>1. Current(j) \in MadeBy(j) /\ Current(j)[1] = j /\ Private(j)
    BY AtPart
<1>2. j # Elsewhere
    BY AttachmentsAssumption
<1>3. faults' \in 0..MaxFaults
    BY AttachmentsAssumption DEF IInv, TypeOK, Fault
<1> QED BY <1>1, <1>2, <1>3 DEF Stores

LEMMA LosingOn ==
    ASSUME IInv, NEW j \in Jobs, job[j].pc \in OnPart
    PROVE  LET q == Losing(job[j], Current(j))
           IN  /\ GoesOn(j, q) /\ q.todo = job[j].todo /\ q.made = job[j].made /\ ~q.hit
               /\ q.content = job[j].content /\ q.kind = job[j].kind
               /\ q.lost = job[j].lost \cup {Current(j)}
<1>1. GoesOn(j, job[j]) /\ job[j] \in JobStates /\ Current(j) \in Attachment /\ ~job[j].hit
    BY AtPart
<1> QED BY <1>1, LosingIs DEF GoesOn

LEMMA NextStep ==
    ASSUME IInv, NEW j \in Jobs, job[j].pc \in OnPart, NEW q, GoesOn(j, q), Tidy(j, q, {}),
           q.todo = job[j].todo, Set(j, NextPart(j, q)), Stores(j), UNCHANGED <<board, slots, doc, undo>>,
           q.kind \in Applying => q.content \subseteq Stored'
    PROVE  IInv'
<1>1. ~job[j].hit /\ job[j].todo \in SUBSET Parts
    BY AtPart
<1> DEFINE todo == q.todo \ {Current(j)[2]}
<1>2. ~q.hit /\ todo \in SUBSET Parts /\ ({j} \X todo) \cap q.made = {}
    BY <1>1 DEF GoesOn
<1>3. job' = [job EXCEPT ![j] = Parting(q, todo)]
    BY DEF Set, NextPart
<1> HIDE DEF todo
<1> QED BY <1>2, <1>3, PartingStep

\* The part is through: it is made, and what the edit will refer to.
LEMMA WithStep ==
    ASSUME IInv, NEW j \in Jobs, job[j].pc \in OnPart, Set(j, WithPart(j, job[j])), Stores(j),
           UNCHANGED <<board, slots, doc, undo>>,
           job[j].kind \in Applying =>
              /\ MadeBy(j) \cap (rows' \cup objects') \subseteq job[j].lost \cup job[j].made \cup {Current(j)}
              /\ job[j].content \cup {Current(j)} \subseteq Stored'
    PROVE  IInv'
<1> DEFINE r == job[j]
           a == Current(j)
           p == [r EXCEPT !.made = r.made \cup {a}, !.content = r.content \cup {a}]
           todo == r.todo \ {a[2]}
           q == [p EXCEPT !.todo = todo]
<1>1. /\ GoesOn(j, r) /\ r \in JobStates /\ DOMAIN r = Fields /\ r.todo \in SUBSET Parts /\ ~r.hit
      /\ r.made \in SUBSET Attachment /\ r.content \in SUBSET Attachment
      /\ a \in Attachment /\ a \in {j} \X r.todo /\ a[1] = j /\ a \in MadeBy(j)
    BY AtPart
<1>2. [r EXCEPT !.made = r.made \cup {a}] \in JobStates
    BY <1>1, SetMade
<1>3. p \in JobStates
    BY <1>1, <1>2, SetContent
<1>4. q \in JobStates
    BY <1>1, <1>3, SetTodo
<1>5. /\ q.made = r.made \cup {a} /\ q.content = r.content \cup {a} /\ q.todo = todo /\ q.lost = r.lost
      /\ q.kind = r.kind /\ q.hit = r.hit /\ q.status = r.status /\ q.current = r.current
    BY <1>1 DEF Fields
<1>6. WithPart(j, r) = Parting(p, todo) /\ p.kind = r.kind /\ DOMAIN p = Fields
    BY <1>1 DEF WithPart, NextPart, Fields
<1>7. [p EXCEPT !.todo = {}] = [q EXCEPT !.todo = {}]
      /\ [p EXCEPT !.todo = todo, !.pc = First(r.kind)] = [q EXCEPT !.todo = todo, !.pc = First(r.kind)]
    OBVIOUS
<1>8. Parting(p, todo) = Parting(q, todo)
    BY <1>5, <1>6, <1>7 DEF Parting
<1> HIDE DEF p, q
<1>9. ({j} \X todo) \cap q.made = {}
    BY <1>1, <1>5 DEF GoesOn
<1>10. GoesOn(j, q)
    BY <1>1, <1>4, <1>5, <1>9 DEF GoesOn
<1>11. Tidy(j, q, {}) /\ (q.kind \in Applying => q.content \subseteq Stored')
    BY <1>5 DEF Tidy
<1>12. todo \in SUBSET Parts /\ ~q.hit
    BY <1>1, <1>5
<1>13. job' = [job EXCEPT ![j] = Parting(q, todo)]
    BY <1>6, <1>8 DEF Set
<1> HIDE DEF todo
<1> QED BY <1>9, <1>10, <1>11, <1>12, <1>13, PartingStep

\* On to another place with the part still in hand.
LEMMA PartPlace ==
    ASSUME IInv, NEW j \in Jobs, job[j].pc \in OnPart, NEW q, GoesOn(j, q), q.todo = job[j].todo,
           NEW pc \in OnPart, Set(j, [q EXCEPT !.pc = pc]), Stores(j), UNCHANGED <<board, slots, doc, undo>>,
           pc = "check" => q.kind \in Applying,
           Tidy(j, q, IF pc \in InHand THEN {Current(j)} ELSE {}),
           pc = "unput" /\ q.kind \in Applying \ Copying => MadeBy(j) \cap rows' \subseteq q.lost \cup q.made,
           q.kind \in Applying =>
              /\ q.content \subseteq Stored'
              /\ pc \in {"register", "check"} => Current(j) \in objects'
              /\ pc = "check" => Current(j) \in rows'
    PROVE  IInv'
<1>1. ~job[j].hit /\ job[j].todo # {}
    BY AtPart
<1>2. pc \in Pcs /\ pc \notin Late \cup {"new", "waiting", "start", "flush"} \cup Compiling
      /\ pc \notin {"read", "preflight", "tx", "apply"}
    BY DEF OnPart, Pcs, Late, Compiling
<1>3. Tells(j, [q EXCEPT !.pc = pc])
    BY Quiet
<1>4. ~q.hit
    BY <1>1 DEF GoesOn
<1>5. job' = [job EXCEPT ![j] = [q EXCEPT !.pc = pc]]
    BY DEF Set
<1> QED BY <1>1, <1>2, <1>3, <1>4, <1>5, PlaceStep

LEMMA PartAnswer ==
    ASSUME IInv, NEW j \in Jobs, job[j].pc \in OnPart, NEW q, GoesOn(j, q), q.kind \notin Applying,
           NEW code \in Codes, Set(j, Answered(q, code)), Stores(j), UNCHANGED <<board, slots, doc, undo>>
    PROVE  IInv'
<1>1. Tidy(j, q, {})
    BY DEF Tidy
<1> QED BY <1>1, AnswerStep DEF Set

LEMMA PartFails ==
    ASSUME IInv, NEW j \in Jobs, job[j].pc \in OnPart, NEW q, GoesOn(j, q), q.kind \in Applying,
           Tidy(j, q, {}), Set(j, Failing(q, 500)), Stores(j), UNCHANGED <<board, slots, doc, undo>>
    PROVE  IInv'
<1>1. Tells(j, Failing(q, 500))
    BY Quiet
<1> QED BY <1>1, FailStep, IsFailure DEF Set

LEMMA FetchStep == ASSUME IInv, NEW j \in Jobs, FetchPart(j) PROVE IInv'
<1> DEFINE r == job[j]
<1>1. r.pc = "fetch" /\ r.pc \in OnPart /\ r.pc \notin InHand /\ UNCHANGED <<rows, objects, board, doc, undo, slots>>
    BY DEF FetchPart, OnPart, InHand
<1>2. Fault \/ UNCHANGED faults
    BY DEF FetchPart
<1>3. GoesOn(j, r) /\ Stores(j) /\ Tidy(j, r, {}) /\ (r.kind \in Applying => r.content \subseteq Stored')
    BY <1>1, <1>2, AtPart, PartLeft, PartStores DEF Tidy, Stored
<1>4. CASE Set(j, [r EXCEPT !.pc = "put"])
    <2>1. "put" \in OnPart \ (InHand \cup {"check", "unput", "register"})
        BY DEF OnPart, InHand
    <2> QED BY <1>1, <1>3, <1>4, <2>1, PartPlace
<1>5. CASE Set(j, NextPart(j, r))
    BY <1>1, <1>3, <1>5, NextStep
<1>6. CASE Set(j, IF r.kind \in Applying THEN Failing(r, 500) ELSE Answered(r, 500))
    <2>1. CASE r.kind \in Applying
        BY <1>1, <1>3, <1>6, <2>1, PartFails
    <2>2. CASE r.kind \notin Applying
        <3>1. 500 \in Codes
            BY DEF Codes
        <3> QED BY <1>1, <1>3, <1>6, <2>2, <3>1, PartAnswer
    <2> QED BY <2>1, <2>2
<1> QED BY <1>4, <1>5, <1>6 DEF FetchPart

LEMMA PutStep == ASSUME IInv, NEW j \in Jobs, PutPart(j) PROVE IInv'
<1> DEFINE r == job[j]
           a == Current(j)
           q == Losing(r, a)
<1>1. /\ r.pc = "put" /\ r.pc \in OnPart /\ r.pc \notin InHand /\ UNCHANGED <<board, doc, undo, slots>>
      /\ {"register", "unput"} \subseteq OnPart \cap InHand
    BY DEF PutPart, OnPart, InHand
<1>2. GoesOn(j, r) /\ r.kind \in Kinds /\ ~r.hit
    BY <1>1, AtPart
<1>3. rows' = rows /\ objects' \in {objects, objects \cup {a}} /\ (Fault \/ UNCHANGED faults)
    BY DEF PutPart, Uploaded, UploadFails
<1>4. Stores(j)
    BY <1>1, <1>3, PartStores
<1>5. r.kind \in Applying =>
        /\ MadeBy(j) \cap (rows' \cup objects') \subseteq r.lost \cup r.made \cup {a}
        /\ r.content \subseteq Stored'
    BY <1>1, <1>3, PartLeft DEF Stored
<1>6. ASSUME Uploaded(a), r.kind = "ingest", Set(j, WithPart(j, r)) PROVE IInv'
    <2>1. r.kind \notin Applying
        BY <1>6 DEF Applying, Excalidraw
    <2> QED BY <1>1, <1>4, <1>6, <2>1, WithStep
<1>7. ASSUME Uploaded(a), Set(j, [r EXCEPT !.pc = "register"]) PROVE IInv'
    <2>1. a \in objects'
        BY <1>7 DEF Uploaded
    <2> QED BY <1>1, <1>2, <1>4, <1>5, <1>7, <2>1, PartPlace DEF Tidy
<1>8. ASSUME r.kind \in Copying, Set(j, [r EXCEPT !.pc = "unput"]) PROVE IInv'
    BY <1>1, <1>2, <1>4, <1>5, <1>8, PartPlace DEF Tidy
<1>9. /\ GoesOn(j, q) /\ q.todo = r.todo /\ q.kind = r.kind
      /\ q.content = r.content /\ q.made = r.made /\ q.lost = r.lost \cup {a}
    BY <1>1, LosingOn
<1> HIDE DEF q
<1>10. Tidy(j, q, {}) /\ (q.kind \in Applying => q.content \subseteq Stored')
    BY <1>5, <1>9 DEF Tidy
<1>11. ASSUME r.kind = "svg", Set(j, Answered(q, 500)) PROVE IInv'
    <2>1. q.kind \notin Applying /\ 500 \in Codes
        BY <1>9, <1>11 DEF Applying, Excalidraw, Codes
    <2> QED BY <1>1, <1>4, <1>9, <1>11, <2>1, PartAnswer
<1>12. ASSUME r.kind \in Excalidraw, Set(j, Failing(q, 500)) PROVE IInv'
    <2>1. q.kind \in Applying
        BY <1>9, <1>12 DEF Applying
    <2> QED BY <1>1, <1>4, <1>9, <1>10, <1>12, <2>1, PartFails
<1>13. ASSUME Set(j, NextPart(j, q)) PROVE IInv'
    BY <1>1, <1>4, <1>9, <1>10, <1>13, NextStep
<1>14. CASE Uploaded(a) /\ Set(j, IF r.kind = "ingest" THEN WithPart(j, r) ELSE [r EXCEPT !.pc = "register"])
    BY <1>6, <1>7, <1>14
<1>15. CASE Set(j, CASE r.kind \in Copying -> [r EXCEPT !.pc = "unput"]
                     [] r.kind = "svg" -> Answered(q, 500)
                     [] r.kind \in Excalidraw -> Failing(q, 500)
                     [] OTHER -> NextPart(j, q))
    <2>1. r.kind \in Copying => ~(r.kind = "svg") /\ ~(r.kind \in Excalidraw)
        BY DEF Copying, Excalidraw
    <2>2. r.kind = "svg" => ~(r.kind \in Excalidraw)
        BY DEF Excalidraw
    <2>3. \/ r.kind \in Copying /\ Set(j, [r EXCEPT !.pc = "unput"])
          \/ r.kind = "svg" /\ Set(j, Answered(q, 500))
          \/ r.kind \in Excalidraw /\ Set(j, Failing(q, 500))
          \/ Set(j, NextPart(j, q))
        BY <1>15, <2>1, <2>2
    <2> QED BY <1>8, <1>11, <1>12, <1>13, <2>3
<1> QED BY <1>14, <1>15 DEF PutPart, q

LEMMA RegisterStep == ASSUME IInv, NEW j \in Jobs, RegisterPart(j) PROVE IInv'
<1> DEFINE r == job[j]
           a == Current(j)
           q == Losing(r, a)
<1>1. /\ r.pc = "register" /\ r.pc \in OnPart /\ UNCHANGED <<board, doc, undo, slots>>
      /\ {"unput", "check"} \subseteq OnPart \cap InHand /\ "put" \in OnPart \ InHand
    BY DEF RegisterPart, OnPart, InHand
<1>2. GoesOn(j, r) /\ r.kind \in Kinds /\ ~r.hit
    BY <1>1, AtPart
<1>3. objects' = objects /\ rows' \in {rows, rows \cup {a}} /\ (Fault \/ UNCHANGED faults)
    BY DEF RegisterPart, Registered, RegisterFails
<1>4. Stores(j)
    BY <1>1, <1>3, PartStores
<1>5. r.kind \in Applying =>
        /\ MadeBy(j) \cap (rows' \cup objects') \subseteq r.lost \cup r.made \cup {a}
        /\ r.content \subseteq Stored' /\ a \in objects'
    BY <1>1, <1>3, PartLeft DEF Stored
<1>6. ASSUME r.kind = "ingest", Set(j, [r EXCEPT !.pc = "put"]) PROVE IInv'
    <2>1. r.kind \notin Applying
        BY <1>6 DEF Applying, Excalidraw
    <2> QED BY <1>1, <1>2, <1>4, <1>6, <2>1, PartPlace DEF Tidy
<1>7. ASSUME Registered(a), r.kind \in Excalidraw, Set(j, [r EXCEPT !.pc = "check"]) PROVE IInv'
    <2>1. a \in rows' /\ r.kind \in Applying
        BY <1>7 DEF Registered, Applying
    <2> QED BY <1>1, <1>2, <1>4, <1>5, <1>7, <2>1, PartPlace DEF Tidy
<1>8. ASSUME Registered(a), Set(j, WithPart(j, r)) PROVE IInv'
    <2>1. a \in rows'
        BY <1>8 DEF Registered
    <2> QED BY <1>1, <1>4, <1>5, <1>8, <2>1, WithStep DEF Stored
<1>9. ASSUME r.kind \in Copying \/ a \notin rows', Set(j, [r EXCEPT !.pc = "unput"]) PROVE IInv'
    <2>1. r.kind \in Applying \ Copying => MadeBy(j) \cap rows' \subseteq r.lost \cup r.made
        BY <1>5, <1>9
    <2> QED BY <1>1, <1>2, <1>4, <1>5, <1>9, <2>1, PartPlace DEF Tidy
<1>10. /\ GoesOn(j, q) /\ q.todo = r.todo /\ q.kind = r.kind
       /\ q.content = r.content /\ q.made = r.made /\ q.lost = r.lost \cup {a}
    BY <1>1, LosingOn
<1> HIDE DEF q
<1>11. Tidy(j, q, {}) /\ (q.kind \in Applying => q.content \subseteq Stored')
    BY <1>5, <1>10 DEF Tidy
<1>12. ASSUME r.kind \in {"svg", "presign"}, Set(j, Answered(q, 500)) PROVE IInv'
    <2>1. q.kind \notin Applying /\ 500 \in Codes
        BY <1>10, <1>12 DEF Applying, Excalidraw, Codes
    <2> QED BY <1>1, <1>4, <1>10, <1>12, <2>1, PartAnswer
<1>13. ASSUME Set(j, NextPart(j, q)) PROVE IInv'
    BY <1>1, <1>4, <1>10, <1>11, <1>13, NextStep
<1>14. ASSUME Set(j, [q EXCEPT !.pc = "unput"]) PROVE IInv'
    <2>1. q.kind \in Applying => MadeBy(j) \cap rows' \subseteq q.lost \cup q.made
        BY <1>5, <1>10
    <2>2. Tidy(j, q, {a})
        BY <1>5, <1>10 DEF Tidy
    <2> QED BY <1>1, <1>4, <1>10, <1>11, <1>14, <2>1, <2>2, PartPlace
<1>15. CASE Registered(a) /\ Set(j, CASE r.kind = "ingest" -> [r EXCEPT !.pc = "put"]
                                      [] r.kind \in Excalidraw -> [r EXCEPT !.pc = "check"]
                                      [] OTHER -> WithPart(j, r))
    <2>1. ~(r.kind = "ingest" /\ r.kind \in Excalidraw)
        BY DEF Excalidraw
    <2>2. \/ r.kind = "ingest" /\ Set(j, [r EXCEPT !.pc = "put"])
          \/ r.kind \in Excalidraw /\ Set(j, [r EXCEPT !.pc = "check"])
          \/ Set(j, WithPart(j, r))
        BY <1>15, <2>1
    <2> QED BY <1>6, <1>7, <1>8, <1>15, <2>2
<1>16. CASE Set(j, CASE r.kind \in Copying -> [r EXCEPT !.pc = "unput"]
                     [] r.kind = "svg" -> Answered(q, 500)
                     [] r.kind = "presign" -> Answered(q, 500)
                     [] r.kind = "ingest" -> NextPart(j, q)
                     [] a \in rows' -> [q EXCEPT !.pc = "unput"]
                     [] OTHER -> [r EXCEPT !.pc = "unput"])
    <2> DEFINE copying == r.kind \in Copying
               svg == r.kind = "svg"
               presign == r.kind = "presign"
               ingest == r.kind = "ingest"
    <2>1. CASE copying
        <3>1. ~svg /\ ~presign /\ ~ingest
            BY <2>1 DEF Copying
        <3>2. Set(j, [r EXCEPT !.pc = "unput"]) \/ (a \in rows' /\ Set(j, [q EXCEPT !.pc = "unput"]))
            BY <1>16, <2>1, <3>1
        <3> QED BY <1>9, <1>14, <2>1, <3>2
    <2>2. CASE svg \/ presign
        <3>1. ~copying /\ ~ingest
            BY <2>2 DEF Copying
        <3>2. Set(j, Answered(q, 500)) \/ (a \in rows' /\ Set(j, [q EXCEPT !.pc = "unput"]))
            BY <1>16, <2>2, <3>1
        <3> QED BY <1>12, <1>14, <2>2, <3>2
    <2>3. CASE ingest
        <3>1. ~copying /\ ~svg /\ ~presign
            BY <2>3 DEF Copying
        <3>2. Set(j, NextPart(j, q)) \/ (a \in rows' /\ Set(j, [q EXCEPT !.pc = "unput"]))
            BY <1>16, <2>3, <3>1
        <3> QED BY <1>13, <1>14, <3>2
    <2>4. CASE ~copying /\ ~svg /\ ~presign /\ ~ingest
        <3>1. \/ Set(j, [q EXCEPT !.pc = "unput"])
              \/ a \notin rows' /\ Set(j, [r EXCEPT !.pc = "unput"])
            BY <1>16, <2>4
        <3> QED BY <1>9, <1>14, <3>1
    <2> QED BY <2>1, <2>2, <2>3, <2>4
<1>17. CASE r.kind = "copy" /\ Set(j, NextPart(j, q))
    BY <1>13, <1>17
<1> QED BY <1>15, <1>16, <1>17 DEF RegisterPart, q

LEMMA UnputStep == ASSUME IInv, NEW j \in Jobs, UnputPart(j) PROVE IInv'
<1> DEFINE r == job[j]
           a == Current(j)
           q == Losing(r, a)
           Onward(p) == Set(j, IF p.kind \in Excalidraw THEN Failing(p, 500) ELSE NextPart(j, p))
<1>1. r.pc = "unput" /\ r.pc \in OnPart /\ UNCHANGED <<board, doc, undo, slots>>
    BY DEF UnputPart, OnPart
<1>2. GoesOn(j, r) /\ r.kind \in Kinds /\ a \notin r.content
    BY <1>1, AtPart
<1>3. /\ rows' \in {rows, rows \ {a}} /\ objects' \in {objects, objects \ {a}}
      /\ Fault \/ UNCHANGED faults
    BY DEF UnputPart, Deleted, DeleteBothFails
<1>4. Stores(j)
    BY <1>1, <1>3, PartStores
<1>5. r.kind \in Applying =>
        /\ MadeBy(j) \cap (rows' \cup objects') \subseteq r.lost \cup r.made \cup {a}
        /\ r.content \subseteq Stored'
    BY <1>1, <1>2, <1>3, PartLeft DEF Stored
<1>6. ASSUME NEW p, GoesOn(j, p), p.todo = r.todo, p.content = r.content, p.kind = r.kind,
             Tidy(j, p, {}), Onward(p)
      PROVE  IInv'
    <2>1. p.kind \in Applying => p.content \subseteq Stored'
        BY <1>5, <1>6
    <2>2. CASE p.kind \in Excalidraw
        <3>1. Set(j, Failing(p, 500)) /\ p.kind \in Applying
            BY <1>6, <2>2 DEF Applying
        <3> QED BY <1>1, <1>4, <1>6, <3>1, PartFails
    <2>3. CASE p.kind \notin Excalidraw
        <3>1. Set(j, NextPart(j, p))
            BY <1>6, <2>3
        <3> QED BY <1>1, <1>4, <1>6, <2>1, <3>1, NextStep
    <2> QED BY <2>2, <2>3
<1>7. /\ GoesOn(j, q) /\ q.todo = r.todo /\ q.kind = r.kind
      /\ q.content = r.content /\ q.made = r.made /\ q.lost = r.lost \cup {a}
    BY <1>1, LosingOn
<1> HIDE DEF q, Onward
<1>8. ASSUME Onward(q) PROVE IInv'
    <2>1. Tidy(j, q, {})
        BY <1>5, <1>7 DEF Tidy
    <2> QED BY <1>6, <1>7, <1>8, <2>1
<1>9. ASSUME Onward(r), r.kind \in Copying => a \notin rows', a \notin objects' PROVE IInv'
    <2>1. r.kind \in Applying \ Copying => MadeBy(j) \cap rows' \subseteq r.lost \cup r.made
        BY <1>1, <1>3, PartLeft
    <2>2. Tidy(j, r, {})
        BY <1>5, <1>9, <2>1 DEF Tidy
    <2> QED BY <1>2, <1>6, <1>9, <2>2
<1>10. \/ r.kind \in Copying /\ Deleted(a) /\ Onward(r)
       \/ Onward(q)
       \/ r.kind \notin Copying /\ objects' = objects \ {a} /\ Onward(r)
    BY DEF UnputPart, q, Onward
<1> QED BY <1>8, <1>9, <1>10 DEF Deleted

LEMMA CheckStep == ASSUME IInv, NEW j \in Jobs, CheckPart(j) PROVE IInv'
<1> DEFINE r == job[j]
           a == Current(j)
           q == Losing(r, a)
<1>1. r.pc = "check" /\ r.pc \in OnPart /\ UNCHANGED <<rows, objects, board, doc, undo, slots>>
    BY DEF CheckPart, OnPart
<1>2. GoesOn(j, r) /\ r.kind \in Applying
    BY <1>1, AtPart DEF BooksOK
<1>3. Stores(j)
    BY <1>1, PartStores DEF CheckPart
<1>4. /\ MadeBy(j) \cap (rows' \cup objects') \subseteq r.lost \cup r.made \cup {a}
      /\ r.content \cup {a} \subseteq Stored'
    BY <1>1, <1>2, PartLeft DEF Stored
<1>5. CASE Set(j, WithPart(j, r))
    BY <1>1, <1>3, <1>4, <1>5, WithStep
<1>6. /\ GoesOn(j, q) /\ q.kind = r.kind /\ q.made = r.made /\ q.lost = r.lost \cup {a}
    BY <1>1, LosingOn
<1>7. CASE Set(j, Failing(q, 500))
    <2> HIDE DEF q
    <2>1. Tidy(j, q, {})
        BY <1>4, <1>6 DEF Tidy
    <2> QED BY <1>1, <1>2, <1>3, <1>6, <1>7, <2>1, PartFails
<1> QED BY <1>5, <1>7 DEF CheckPart

----------------------------------------------------------------------------
(* The edit.                                                               *)

\* An import beyond its images: what is left of it, and what its edit refers to.
LEMMA EditLeft ==
    ASSUME IInv, NEW j \in Jobs, job[j].pc \in {"read", "preflight", "tx", "apply", "flush"}
    PROVE  /\ GoesOn(j, job[j]) /\ job[j].kind \in Applying /\ (job[j].hit <=> job[j].pc = "flush")
           /\ job[j] \in JobStates /\ DOMAIN job[j] = Fields
           /\ UNCHANGED <<rows, objects>> => Tidy(j, job[j], {})
           /\ ~job[j].hit => job[j].content \subseteq Stored
<1>1. job[j].pc \notin Late \cup InHand \cup {"new", "waiting"}
    BY DEF Late, InHand
<1>2. /\ GoesOn(j, job[j]) /\ BooksOK(j, job[j]) /\ CleanOK(j) /\ ContentOK(j)
      /\ job[j] \in JobStates /\ DOMAIN job[j] = Fields
    BY <1>1, AtPlace
<1>3. job[j].kind \in Applying /\ (job[j].hit <=> job[j].pc = "flush")
    BY <1>2 DEF BooksOK, Late
<1> QED BY <1>1, <1>2, <1>3 DEF CleanOK, ContentOK, Left, Tidy

LEMMA EditStores ==
    ASSUME IInv, NEW j \in Jobs, UNCHANGED <<rows, objects>>, Fault \/ UNCHANGED faults
    PROVE  Stores(j)
BY AttachmentsAssumption DEF IInv, TypeOK, Fault, Stores

\* A refusal, or a failure.
LEMMA EditFails ==
    ASSUME IInv, NEW j \in Jobs, job[j].pc \in {"read", "preflight", "tx", "apply", "flush"},
           (Set(j, Failing(job[j], 400)) /\ job[j].pc # "flush") \/ Set(j, Failing(job[j], 500)),
           UNCHANGED <<rows, objects, board, slots, doc>>, Fault \/ UNCHANGED faults,
           undo' \in SUBSET undo
    PROVE  IInv'
<1>1. /\ GoesOn(j, job[j]) /\ job[j].kind \in Applying /\ Tidy(j, job[j], {})
      /\ job[j].hit <=> job[j].pc = "flush"
    BY EditLeft
<1>2. Stores(j)
    BY EditStores
<1>3. \A r : Tells(j, r)
    BY KnownIs DEF Tells, IInv, TypeOK
<1>4. CASE Set(j, Failing(job[j], 400)) /\ job[j].pc # "flush"
    BY ZenonT(60), <1>1, <1>2, <1>3, <1>4, FailStep, IsFailure DEF Set
<1>5. CASE Set(j, Failing(job[j], 500))
    <2>1. job' = [job EXCEPT ![j] = Failing(job[j], 500)]
        BY <1>5 DEF Set
    <2>2. 500 \in Failures /\ 500 \in Fatal
        BY IsFailure
    <2> QED BY ZenonT(60), <1>1, <1>2, <1>3, <2>1, <2>2, FailStep
<1> QED BY <1>4, <1>5

LEMMA EditPlace ==
    ASSUME IInv, NEW j \in Jobs, job[j].pc \in {"read", "preflight", "tx", "apply"},
           NEW q, GoesOn(j, q), q.kind \in Applying, q.made = job[j].made, q.lost = job[j].lost,
           q.content = job[j].content,
           NEW pc \in {"preflight", "tx", "apply"},
           Set(j, [q EXCEPT !.pc = pc]), UNCHANGED <<storeVars, board, slots>>,
           Tells(j, [q EXCEPT !.pc = pc])
    PROVE  IInv'
<1>1. Tidy(j, job[j], {}) /\ job[j].content \subseteq Stored /\ q.kind = job[j].kind /\ ~q.hit
    BY EditLeft DEF storeVars, GoesOn
<1>2. Tidy(j, q, {})
    BY <1>1 DEF Tidy
<1>3. Stores(j)
    BY EditStores DEF storeVars
<1>4. q.content \subseteq Stored'
    BY <1>1 DEF Stored, storeVars
<1>5. /\ pc \in Pcs /\ pc \notin Late \cup {"new", "waiting", "start", "flush"}
      /\ pc \notin OnPart /\ pc \notin InHand /\ pc \notin Compiling
      /\ pc \notin {"register", "check", "unput"}
    BY DEF Pcs, Late, OnPart, InHand, Compiling
<1>6. job' = [job EXCEPT ![j] = [q EXCEPT !.pc = pc]]
    BY DEF Set
<1> QED BY <1>1, <1>2, <1>3, <1>4, <1>5, <1>6, PlaceStep

LEMMA ReadStep == ASSUME IInv, NEW j \in Jobs, ReadLive(j) PROVE IInv'
<1> DEFINE r == job[j]
           b == [r EXCEPT !.base = doc.version]
           q == [b EXCEPT !.current = doc.refs]
<1>1. r.pc = "read" /\ UNCHANGED <<rows, objects, board, doc, undo, slots>>
    BY DEF ReadLive
<1>2. GoesOn(j, r) /\ r.kind \in Applying /\ r \in JobStates /\ DOMAIN r = Fields
    BY <1>1, EditLeft
<1>3. doc.version \in Nat /\ doc.refs \in SUBSET Attachment
    BY DEF IInv, TypeOK
<1>4. b \in JobStates
    BY <1>2, <1>3, SetBase
<1>5. q \in JobStates
    BY <1>3, <1>4, SetCurrent
<1>6. GoesOn(j, q) /\ q.kind = r.kind /\ q.made = r.made /\ q.lost = r.lost /\ q.content = r.content
    BY <1>2, <1>5 DEF GoesOn, Fields
<1>7. [r EXCEPT !.pc = "preflight", !.base = doc.version, !.current = doc.refs] = [q EXCEPT !.pc = "preflight"]
    BY <1>2 DEF Fields
<1>8. CASE Set(j, [q EXCEPT !.pc = "preflight"]) /\ UNCHANGED faults
    <2> HIDE DEF q
    <2>1. Tells(j, [q EXCEPT !.pc = "preflight"])
        BY <1>1, Quiet
    <2> QED BY <1>1, <1>2, <1>6, <1>8, <2>1, EditPlace DEF storeVars
<1>9. CASE Fault /\ Set(j, Failing(r, 500))
    BY <1>1, <1>9, EditFails
<1> QED BY <1>7, <1>8, <1>9 DEF ReadLive

LEMMA PreflightStep == ASSUME IInv, NEW j \in Jobs, Preflight(j) PROVE IInv'
<1> DEFINE r == job[j]
<1>1. r.pc = "preflight" /\ UNCHANGED <<storeVars, board, doc, undo, slots>>
    BY DEF Preflight
<1>2. GoesOn(j, r) /\ r.kind \in Applying
    BY <1>1, EditLeft
<1>3. CASE Set(j, Failing(r, 400))
    BY <1>1, <1>3, EditFails DEF storeVars
<1>4. CASE Set(j, [r EXCEPT !.pc = "tx"])
    <2>1. Tells(j, [r EXCEPT !.pc = "tx"])
        BY <1>1, Quiet
    <2> QED BY <1>1, <1>2, <1>4, <2>1, EditPlace
<1> QED BY <1>3, <1>4 DEF Preflight

LEMMA TransactionStep == ASSUME IInv, NEW j \in Jobs, Transaction(j) PROVE IInv'
<1> DEFINE r == job[j]
<1>1. r.pc = "tx" /\ UNCHANGED <<rows, objects, board, doc, slots>>
    BY DEF Transaction
<1>2. GoesOn(j, r) /\ r.kind \in Applying
    BY <1>1, EditLeft
<1>3. CASE undo' = undo \cup {[by |-> j, refs |-> r.current]} /\ Set(j, [r EXCEPT !.pc = "apply"]) /\ UNCHANGED faults
    <2>1. r.current \subseteq Known /\ r.current \in SUBSET Attachment
        BY KnownIs, JobFields DEF IInv, TypeOK
    <2>2. doc.refs \subseteq Known /\ \A v \in undo : v.refs \subseteq Known
        BY KnownIs
    <2>3. Tells(j, [r EXCEPT !.pc = "apply"])
        BY <1>1, <1>3, <2>1, <2>2 DEF Tells, IInv, TypeOK
    <2> QED BY <1>1, <1>2, <1>3, <2>3, EditPlace DEF storeVars
<1>4. CASE Set(j, Failing(r, 400)) /\ UNCHANGED <<undo, faults>>
    BY <1>1, <1>4, EditFails
<1>5. CASE Fault /\ Set(j, Failing(r, 500)) /\ UNCHANGED undo
    BY <1>1, <1>5, EditFails
<1> QED BY <1>3, <1>4, <1>5 DEF Transaction

LEMMA AppliedRefs ==
    ASSUME IInv, NEW r, r.content \in SUBSET Attachment
    PROVE  /\ Applied(r) \in [refs : SUBSET Attachment, version : Nat, edits : 0..MaxEdits]
           /\ Applied(r).refs \subseteq doc.refs \cup r.content
<1>1. doc \in [refs : SUBSET Attachment, version : Nat, edits : 0..MaxEdits]
    BY DEF IInv, TypeOK
<1> DEFINE refs == CASE r.kind = "merge" -> doc.refs \cup r.content
                     [] r.kind = "replace" -> (doc.refs \ r.current) \cup r.content
                     [] OTHER -> r.content
<1>2. refs \subseteq doc.refs \cup r.content
    OBVIOUS
<1>3. Applied(r) = [doc EXCEPT !.version = doc.version + 1, !.refs = refs]
    BY DEF Applied
<1> HIDE DEF refs
<1>4. refs \in SUBSET Attachment /\ doc.version + 1 \in Nat
    BY <1>1, <1>2
<1> QED BY <1>1, <1>2, <1>3, <1>4

LEMMA ApplyStep == ASSUME IInv, NEW j \in Jobs, Apply(j) PROVE IInv'
<1> DEFINE r == job[j]
           f == [r EXCEPT !.pc = "flush"]
           h == [f EXCEPT !.hit = TRUE]
<1>1. r.pc = "apply" /\ UNCHANGED <<storeVars, board, slots>>
    BY DEF Apply
<1>2. /\ GoesOn(j, r) /\ r.kind \in Applying /\ ~r.hit /\ r \in JobStates /\ DOMAIN r = Fields
      /\ Tidy(j, r, {})
    BY <1>1, EditLeft DEF storeVars
<1>3. CASE doc' = Applied(r) /\ Set(j, h) /\ UNCHANGED undo
    <2>1. f \in JobStates
        BY <1>2, SetPc DEF Pcs
    <2>2. h \in JobStates
        BY <2>1, SetHit
    <2>3. /\ h.pc = "flush" /\ h.hit /\ h.kind = r.kind /\ h.current = r.current /\ h.made = r.made /\ h.todo = r.todo
          /\ h.content = r.content /\ h.lost = r.lost /\ h.status = 0
        BY <1>2 DEF Fields, GoesOn
    <2>4. job' = [job EXCEPT ![j] = h]
        BY <1>3 DEF Set
    <2> HIDE DEF h
    <2>5. job'[j] = h
        BY <2>4 DEF IInv, TypeOK
    <2>6. Moves(j, h)
        BY <1>1, <1>2, <2>2, <2>3, <2>4 DEF Moves, GoesOn, Gave
    <2>7. doc.refs \subseteq Known /\ \A v \in undo : v.refs \subseteq Known
        BY KnownIs
    <2>8. r.content \in SUBSET Attachment
        BY <1>2, JobFields
    <2>9. Tells(j, h)
        BY <1>1, <1>3, <2>3, <2>7, <2>8, AppliedRefs DEF Tells, IInv, TypeOK
    <2>10. BooksOK(j, h)
        BY <1>2, <2>3 DEF BooksOK, GoesOn, OnPart, Late, Applying, Excalidraw, Compiling
    <2>11. CleanOK(j)' /\ ContentOK(j)'
        BY <1>2, <2>3, <2>5 DEF CleanOK, ContentOK, InHand, Late, Left, Tidy, MadeBy
    <2>12. Stores(j)
        BY <1>1, EditStores DEF storeVars
    <2> QED BY <2>6, <2>9, <2>10, <2>11, <2>12, StepIInv
<1>4. CASE undo' = {v \in undo : v.by # j} /\ Set(j, Failing(r, 400)) /\ UNCHANGED doc
    BY <1>1, <1>4, EditFails DEF storeVars
<1> QED BY <1>3, <1>4 DEF Apply

LEMMA FlushStep == ASSUME IInv, NEW j \in Jobs, Flush(j) PROVE IInv'
<1> DEFINE r == job[j]
           s == [r EXCEPT !.pc = "sweep"]
           w == [s EXCEPT !.sweep = r.current]
           h == [w EXCEPT !.status = 200]
<1>1. r.pc = "flush" /\ UNCHANGED <<rows, objects, board, doc, slots>>
    BY DEF Flush
<1>2. /\ GoesOn(j, r) /\ r.kind \in Applying /\ r.hit /\ r \in JobStates /\ DOMAIN r = Fields
      /\ Tidy(j, r, {})
    BY <1>1, EditLeft
<1>3. CASE Set(j, IF r.kind = "replace" THEN h ELSE Answered(r, 200)) /\ UNCHANGED <<undo, faults>>
    <2>0. Stores(j)
        BY <1>1, <1>3, EditStores
    <2>1. CASE r.kind = "replace"
        <3>1. s \in JobStates /\ r.current \in SUBSET Attachment /\ 200 \in Statuses
            BY ZenonT(60), <1>2, SetPc, JobFields DEF Pcs, Statuses
        <3>2. w \in JobStates
            BY <3>1, SetSweep
        <3>3. h \in JobStates
            BY <3>1, <3>2, SetStatus
        <3>4. /\ h.pc = "sweep" /\ h.sweep = r.current /\ h.status = 200 /\ h.hit = r.hit /\ h.kind = r.kind
              /\ h.current = r.current /\ h.made = r.made /\ h.todo = r.todo /\ h.content = r.content
            BY <1>2 DEF Fields
        <3>5. job' = [job EXCEPT ![j] = h]
            BY <1>3, <2>1 DEF Set
        <3> HIDE DEF h
        <3>6. job'[j] = h
            BY <3>5 DEF IInv, TypeOK
        <3>7. Moves(j, h)
            BY <1>1, <1>2, <3>3, <3>4, <3>5 DEF Moves, GoesOn, Gave
        <3>8. BooksOK(j, h)
            BY <1>2, <2>1, <3>4 DEF BooksOK, GoesOn, OnPart, Late, Compiling
        <3>9. CleanOK(j)' /\ ContentOK(j)'
            BY <3>4, <3>6 DEF CleanOK, ContentOK, InHand, Late
        <3>10. Tells(j, h)
            BY <1>1, <1>3, Quiet
        <3> QED BY <2>0, <3>7, <3>8, <3>9, <3>10, StepIInv
    <2>2. CASE r.kind # "replace"
        <3>1. Set(j, Answered(r, 200)) /\ 200 \in Codes
            BY <1>3, <2>2 DEF Codes
        <3> QED BY <1>1, <1>2, <1>3, <2>0, <3>1, AnswerStep DEF Set
    <2> QED BY <2>1, <2>2
<1>4. CASE Fault /\ Set(j, Failing(r, 500)) /\ undo' \in SUBSET undo
    BY <1>1, <1>4, EditFails
<1>5. h = [r EXCEPT !.pc = "sweep", !.sweep = r.current, !.status = 200]
    OBVIOUS
<1> QED BY <1>3, <1>4, <1>5 DEF Flush

----------------------------------------------------------------------------
(* Compensation.                                                           *)

LEMMA SweepIs ==
    ASSUME NEW r \in JobStates, NEW sweep \in SUBSET Attachment
    PROVE  LET p == [r EXCEPT !.sweep = sweep]
           IN  /\ p \in JobStates /\ Kept(r, p)
               /\ p.pc = r.pc /\ p.todo = r.todo /\ p.status = r.status /\ p.sweep = sweep
<1>1. DOMAIN r = Fields
    BY JobFields
<1> QED BY <1>1, SetSweep DEF Kept, Fields

\* One attachment less to delete: it is gone, or written off, or not to be deleted.
LEMMA SweepOne ==
    ASSUME IInv, NEW j \in Jobs, job[j].pc = "sweep", NEW a \in job[j].sweep,
           NEW r \in JobStates, r.kind = job[j].kind, r.current = job[j].current, r.hit = job[j].hit,
           r.content = job[j].content, r.made = job[j].made, r.pc = "sweep", r.todo = job[j].todo,
           r.status = job[j].status, r.sweep \subseteq job[j].sweep,
           job[j].lost \subseteq r.lost,
           job[j].status # 200 =>
              /\ job[j].sweep \subseteq r.sweep \cup {a}
              /\ a \notin rows' \cup objects' \/ a \in r.lost,
           Set(j, r), UNCHANGED <<board, doc, undo, slots>>,
           \/ UNCHANGED storeVars
           \/ /\ Sweepable(j, a) /\ (Fault \/ UNCHANGED faults)
              /\ rows' \in {rows, rows \ {a}} /\ objects' \in {objects, objects \ {a}}
    PROVE  IInv'
<1>1. BooksOK(j, job[j]) /\ CleanOK(j)
    BY DEF IInv, JobsOK
<1>2. Stores(j)
    <2>1. CASE UNCHANGED storeVars
        BY <2>1, Quiet
    <2>2. CASE /\ Sweepable(j, a) /\ (Fault \/ UNCHANGED faults)
               /\ rows' \in {rows, rows \ {a}} /\ objects' \in {objects, objects \ {a}}
        <3>1. a[1] # Elsewhere /\ (Gave(j, a) \/ (a \in MadeBy(j) /\ Private(j)))
            <4>1. CASE job[j].status = 200
                <5>1. a[1] # Elsewhere
                    BY <2>2, <4>1, AttachmentsAssumption DEF Sweepable, DocOf
                <5> QED BY <1>1, <4>1, <5>1 DEF BooksOK, Gave
            <4>2. CASE job[j].status # 200
                <5>1. a \in MadeBy(j) /\ (job[j].hit => job[j].status = 500)
                    BY <1>1, <4>2 DEF BooksOK
                <5>2. a[1] # Elsewhere
                    BY <5>1, AttachmentsAssumption DEF MadeBy
                <5> QED BY <5>1, <5>2 DEF Gave, Private
            <4> QED BY <4>1, <4>2
        <3>2. faults' \in 0..MaxFaults
            BY <2>2, AttachmentsAssumption DEF IInv, TypeOK, Fault
        <3> QED BY <2>2, <3>1, <3>2 DEF Stores
    <2> QED BY <2>1, <2>2
<1>3. job' = [job EXCEPT ![j] = r] /\ job'[j] = r
    BY DEF Set, IInv, TypeOK
<1>4. Moves(j, r)
    BY <1>3 DEF Moves, Gave, MadeBy
<1>5. BooksOK(j, r)
    BY <1>1 DEF BooksOK, OnPart, Late, Compiling
<1>6. CleanOK(j)'
    <2>1. rows' \subseteq rows /\ objects' \subseteq objects
        BY DEF storeVars
    <2>2. ASSUME r.kind \in Applying, r.status # 200 PROVE Left(j)' \subseteq r.sweep
        <3>1. Left(j) \subseteq job[j].sweep
            BY <1>1, <2>2 DEF CleanOK
        <3>2. Left(j)' \subseteq Left(j) \ {a}
            BY <1>3, <2>1, <2>2 DEF Left, MadeBy
        <3> QED BY <2>2, <3>1, <3>2
    <2> QED BY <1>3, <2>2 DEF CleanOK, InHand, Late
<1>7. ContentOK(j)'
    BY <1>3 DEF ContentOK, Late
<1>8. Tells(j, r)
    BY Quiet
<1> QED BY <1>2, <1>4, <1>5, <1>6, <1>7, <1>8, StepIInv

LEMMA SweepStep == ASSUME IInv, NEW j \in Jobs, Sweep(j) PROVE IInv'
<1> DEFINE r == job[j]
           a == CHOOSE x \in r.sweep : TRUE
           rest == [r EXCEPT !.sweep = @ \ {a}]
<1>1. r.pc = "sweep" /\ UNCHANGED <<board, doc, undo, slots>>
    BY DEF Sweep
<1>2. /\ BooksOK(j, r) /\ CleanOK(j) /\ r \in JobStates /\ r.sweep \in SUBSET Attachment
      /\ r.status \in Statuses
    BY JobFields DEF IInv, JobsOK, TypeOK
<1>3. CASE r.sweep = {}
    <2> DEFINE p == Answered(r, r.status)
    <2>1. Set(j, p) /\ UNCHANGED storeVars
        BY <1>3 DEF Sweep
    <2>2. p \in JobStates /\ Kept(r, p) /\ p.pc = "answer" /\ p.status = r.status /\ p.todo = r.todo
        BY <1>2, AnsweredIs
    <2>3. job' = [job EXCEPT ![j] = p] /\ job'[j] = p
        BY <2>1 DEF Set, IInv, TypeOK
    <2> HIDE DEF p
    <2>4. Moves(j, p)
        BY <1>1, <2>2, <2>3 DEF Moves, Kept, Gave, MadeBy
    <2>5. BooksOK(j, p)
        BY <1>1, <1>2, <2>2 DEF BooksOK, Kept, OnPart, Late, Compiling
    <2>6. CleanOK(j)' /\ ContentOK(j)'
        <3>1. r.kind \in Applying /\ r.status # 200 => Left(j) = {}
            BY <1>1, <1>2, <1>3 DEF CleanOK
        <3>2. Left(j)' = Left(j)
            BY <2>1, <2>2, <2>3 DEF Left, MadeBy, Kept, storeVars
        <3> QED BY <2>2, <2>3, <3>1, <3>2 DEF CleanOK, ContentOK, InHand, Late, Kept
    <2>7. Tells(j, p) /\ Stores(j)
        BY <1>1, <2>1, Quiet
    <2> QED BY <2>4, <2>5, <2>6, <2>7, StepIInv
<1>4. CASE r.sweep # {}
    <2>1. a \in r.sweep /\ a \in Attachment
        BY <1>2, <1>4
    <2> DEFINE more == r.sweep \ {a}
    <2>2. /\ rest \in JobStates /\ Kept(r, rest) /\ rest.pc = "sweep"
          /\ rest.todo = r.todo /\ rest.status = r.status /\ rest.sweep = more
        BY <1>1, <1>2, SweepIs
    <2>3. \/ ~Sweepable(j, a) /\ Set(j, rest) /\ UNCHANGED storeVars
          \/ /\ Sweepable(j, a)
             /\ \/ Deleted(a) /\ Set(j, rest)
                \/ DeleteInOrderFails(a) /\ Set(j, Losing(rest, a))
                \/ DeleteBothFails(a) /\ Set(j, Losing(rest, a))
        BY <1>4 DEF Sweep
    <2> HIDE DEF a, rest, more
    <2>4. LET p == Losing(rest, a)
          IN  /\ p \in JobStates /\ p.kind = r.kind /\ p.current = r.current /\ p.hit = r.hit
              /\ p.content = r.content /\ p.made = r.made /\ p.pc = "sweep" /\ p.todo = r.todo
              /\ p.status = r.status /\ p.sweep = more /\ p.lost = r.lost \cup {a}
        BY <2>1, <2>2, LosingIs DEF Kept
    <2>m. more \subseteq r.sweep /\ r.sweep \subseteq more \cup {a}
        BY <2>1 DEF more
    <2>5. ASSUME Set(j, rest), ~Sweepable(j, a), UNCHANGED storeVars PROVE IInv'
        <3>1. r.status = 200
            BY <2>5 DEF Sweepable
        <3> QED BY <1>1, <2>1, <2>2, <2>m, <2>5, <3>1, SweepOne DEF Kept
    <2>6. ASSUME Set(j, rest), Sweepable(j, a), Deleted(a) PROVE IInv'
        <3>1. rows' = rows \ {a} /\ objects' = objects \ {a} /\ UNCHANGED faults
            BY <2>6 DEF Deleted
        <3> QED BY <1>1, <2>1, <2>2, <2>m, <2>6, <3>1, SweepOne DEF Kept
    <2>7. ASSUME Set(j, Losing(rest, a)), Sweepable(j, a), DeleteInOrderFails(a) \/ DeleteBothFails(a) PROVE IInv'
        <3>1. Fault /\ rows' \in {rows, rows \ {a}} /\ objects' \in {objects, objects \ {a}}
            BY <2>7 DEF DeleteInOrderFails, DeleteBothFails
        <3> QED BY <1>1, <2>1, <2>4, <2>m, <2>7, <3>1, SweepOne
    <2> QED BY <2>3, <2>5, <2>6, <2>7
<1> QED BY <1>3, <1>4

----------------------------------------------------------------------------
(* Admission and the answer.                                               *)

\* A step that leaves the store and the document alone.
LEMMA JobsRest ==
    ASSUME IInv, UNCHANGED <<storeVars, board, doc, undo>>, job' \in [Jobs -> JobStates],
           \A x \in Jobs : BooksOK(x, job'[x]) /\ CleanOK(x)' /\ ContentOK(x)',
           \A x \in Jobs : job'[x].current \subseteq job[x].current,
           \A x \in Jobs : Private(x)' => Private(x),
           \A x \in Jobs : \A a : Gave(x, a) => Gave(x, a)',
           \A x \in Jobs : job'[x].pc = "new" => job[x].pc = "new",
           slots' \in [Queues -> QueueStates],
           SlotsOK'
    PROVE  IInv'
<1>1. TypeOK'
    BY DEF IInv, TypeOK, storeVars
<1>2. JobsOK' /\ FreshOK'
    BY DEF JobsOK, IInv, FreshOK, storeVars, MadeBy
<1>3. \A a : a \in Known' => a \in Known
    BY KnownIs, KnownNext
<1>4. PrivateOK'
    <2>1. ASSUME NEW x \in Jobs, Private(x)', NEW a \in MadeBy(x), a \in Known' PROVE FALSE
        BY <1>3, <2>1 DEF IInv, PrivateOK
    <2> QED BY <2>1 DEF PrivateOK, MadeBy
<1>5. \A a : a \in GivenUp => a \in GivenUp'
    BY GivenUpIs, GivenUpNext
<1>6. Stored' = Stored
    BY DEF Stored, storeVars
<1>7. KnownOK'
    BY <1>3, <1>5, <1>6 DEF IInv, KnownOK
<1> QED BY <1>1, <1>2, <1>4, <1>7 DEF IInv

LEMMA SetActive ==
    ASSUME NEW s \in QueueStates, NEW n \in Nat
    PROVE  LET t == [s EXCEPT !.active = n]
           IN  t \in QueueStates /\ t.active = n /\ t.waiting = s.waiting /\ t.run = s.run /\ t.wait = s.wait
BY DEF QueueStates

LEMMA SetWaiting ==
    ASSUME NEW s \in QueueStates, NEW w \in Seq(Jobs)
    PROVE  LET t == [s EXCEPT !.waiting = w]
           IN  t \in QueueStates /\ t.active = s.active /\ t.waiting = w /\ t.run = s.run /\ t.wait = s.wait
BY DEF QueueStates

LEMMA OneQueue ==
    /\ \A kind, p, q : p \in QueueOf(kind) /\ q \in QueueOf(kind) => p = q
    /\ \A kind : QueueOf(kind) \subseteq Queues
    /\ QueueOf("none") = {}
BY DEF QueueOf, Queues

LEMMA UnderFinite == \A q : IsFiniteSet(Under(q))
<1>1. \A q : Under(q) \subseteq Jobs
    BY DEF Under
<1> QED BY <1>1, FS_Subset, JobsAssumption

\* The requests a step does not touch keep their books.
LEMMA BooksKept ==
    ASSUME IInv, NEW x \in Jobs, job'[x] = job[x], UNCHANGED storeVars
    PROVE  /\ BooksOK(x, job'[x]) /\ CleanOK(x)' /\ ContentOK(x)'
           /\ job'[x].current \subseteq job[x].current /\ (Private(x)' => Private(x))
           /\ \A a : Gave(x, a) => Gave(x, a)'
<1>1. BooksOK(x, job[x]) /\ CleanOK(x) /\ ContentOK(x)
    BY DEF IInv, JobsOK
<1>2. Left(x)' = Left(x) /\ Current(x)' = Current(x) /\ Stored' = Stored
    BY DEF Left, Current, Stored, storeVars, MadeBy
<1> QED BY <1>1, <1>2 DEF CleanOK, ContentOK, Private, Gave, storeVars, MadeBy

\* A request that came in.
LEMMA Newcomer ==
    ASSUME IInv, NEW j \in Jobs, job[j].pc = "new", NEW r \in JobStates, r.kind \in Kinds,
           r.current = {}, r.content = {}, r.made = {}, r.lost = {}, r.todo = {}, ~r.hit,
           \/ r.pc \in {"start", "waiting"} /\ r.status = 0
           \/ r.pc = "done" /\ r.status = 400,
           job' = [job EXCEPT ![j] = r], UNCHANGED <<storeVars, board, doc, undo>>,
           slots' \in [Queues -> QueueStates],
           SlotsOK'
    PROVE  IInv'
<1>1. job'[j] = r /\ job' \in [Jobs -> JobStates] /\ \A x \in Jobs : x # j => job'[x] = job[x]
    BY DEF IInv, TypeOK
<1>2. BooksOK(j, job[j]) /\ MadeBy(j) \cap (rows \cup objects) = {}
    BY DEF IInv, JobsOK, FreshOK
<1>3. r.kind # "none"
    BY DEF Kinds, Applying, Excalidraw, Uploads
<1>4. BooksOK(j, r)
    BY <1>3 DEF BooksOK, OnPart, Late, Compiling
<1>5. Left(j)' = {}
    BY <1>2 DEF Left, storeVars, MadeBy
<1>6. CleanOK(j)' /\ ContentOK(j)'
    BY <1>1, <1>5 DEF CleanOK, ContentOK, InHand, Late
<1>7. ~job[j].hit /\ Private(j)
    BY <1>2 DEF BooksOK, Private, Late
<1>8. \A a : ~Gave(j, a)
    BY <1>2, <1>7 DEF BooksOK, Gave
<1>9. ASSUME NEW x \in Jobs
      PROVE  /\ BooksOK(x, job'[x]) /\ CleanOK(x)' /\ ContentOK(x)'
             /\ job'[x].current \subseteq job[x].current /\ (Private(x)' => Private(x))
             /\ \A a : Gave(x, a) => Gave(x, a)'
             /\ job'[x].pc = "new" => job[x].pc = "new"
    <2>1. CASE x = j
        BY <1>1, <1>4, <1>6, <1>7, <1>8, <2>1
    <2>2. CASE x # j
        BY <1>1, <2>2, BooksKept
    <2> QED BY <2>1, <2>2
<1> QED BY <1>1, <1>9, JobsRest

Incoming(kind, pc) == [[NewJob EXCEPT !.kind = kind] EXCEPT !.pc = pc]
TurnedAway(kind) == [NewJob EXCEPT !.pc = "done", !.kind = kind, !.status = 400]

LEMMA NewcomerIs ==
    ASSUME NEW kind \in Kinds, NEW pc \in {"start", "waiting"}
    PROVE  /\ LET r == Incoming(kind, pc)
              IN  /\ r \in JobStates /\ r.kind = kind /\ r.pc = pc /\ r.status = 0 /\ ~r.hit
                  /\ r.current = {} /\ r.content = {} /\ r.made = {} /\ r.lost = {} /\ r.todo = {}
           /\ LET r == TurnedAway(kind)
              IN  /\ r \in JobStates /\ r.kind = kind /\ r.pc = "done" /\ r.status = 400 /\ ~r.hit
                  /\ r.current = {} /\ r.content = {} /\ r.made = {} /\ r.lost = {} /\ r.todo = {}
BY ZenonT(60) DEF NewJob, JobStates, Pcs, Statuses, Incoming, TurnedAway

\* The queue of a newcomer, with a free slot or a place among the waiters.
LEMMA AdmitSlots ==
    ASSUME IInv, NEW j \in Jobs, job[j].pc = "new", NEW q \in Queues, NEW r \in JobStates, q \in QueueOf(r.kind),
           r.pc = IF HasSlot(slots[q]) THEN "start" ELSE "waiting", ~IsFull(slots[q]),
           job' = [job EXCEPT ![j] = r], slots' = [slots EXCEPT ![q] = Admitted(@, j)]
    PROVE  /\ slots' \in [Queues -> QueueStates]
           /\ SlotsOK'
<1> DEFINE s == slots[q]
<1>1. /\ s \in QueueStates /\ slots \in [Queues -> QueueStates] /\ SlotOK(q)
      /\ s.active \in Nat /\ s.waiting \in Seq(Jobs) /\ s.run \in Nat /\ s.wait \in Nat
    BY QueueFields DEF IInv, TypeOK, SlotsOK
<1>2. job'[j] = r /\ \A x \in Jobs : x # j => job'[x] = job[x]
    BY DEF IInv, TypeOK
<1>3. job[j].kind = "none"
    BY DEF IInv, JobsOK, BooksOK
<1>4. \A p : j \notin Under(p)
    BY <1>3, OneQueue DEF Under
<1>5. \A p \in Queues : p # q => Under(p)' = Under(p)
    BY <1>2, <1>4, OneQueue DEF Under
<1>6. ASSUME NEW p \in Queues, NEW i \in 1..Len(slots[p].waiting)
      PROVE  slots[p].waiting[i] \in Jobs /\ slots[p].waiting[i] # j
    <2>1. slots[p].waiting \in Seq(Jobs) /\ job[slots[p].waiting[i]].pc = "waiting"
        BY QueueFields DEF IInv, TypeOK, SlotsOK, SlotOK
    <2> QED BY <2>1
<1>7. ASSUME NEW p \in Queues, p # q PROVE SlotOK(p)' /\ slots'[p] \in QueueStates
    <2>1. SlotOK(p) /\ slots'[p] = slots[p] /\ slots[p] \in QueueStates
        BY <1>1, <1>7 DEF IInv, SlotsOK
    <2> QED BY <1>2, <1>5, <1>6, <1>7, <2>1 DEF SlotOK
<1>8. CASE HasSlot(s)
    <2>1. slots'[q] = [s EXCEPT !.active = s.active + 1]
        BY <1>1, <1>8 DEF Admitted
    <2>2. Under(q)' = Under(q) \cup {j}
        BY <1>2, <1>8 DEF Under
    <2>3. Cardinality(Under(q)') = Cardinality(Under(q)) + 1
        BY <1>4, <2>2, UnderFinite, FS_AddElement
    <2>4. s.waiting = <<>>
        BY <1>1, <1>8 DEF SlotOK, HasSlot
    <2>5. /\ slots'[q] \in QueueStates /\ slots'[q].active = s.active + 1 /\ slots'[q].waiting = <<>>
          /\ slots'[q].run = s.run /\ slots'[q].wait = s.wait
        <3> DEFINE n == s.active + 1
                   t == [s EXCEPT !.active = n]
        <3>1. n \in Nat
            BY <1>1
        <3> HIDE DEF n
        <3>2. t \in QueueStates /\ t.active = n /\ t.waiting = s.waiting /\ t.run = s.run /\ t.wait = s.wait
            BY <1>1, <3>1, SetActive
        <3>3. slots'[q] = t
            BY <2>1 DEF n
        <3> HIDE DEF t
        <3> QED BY <2>4, <3>2, <3>3 DEF n
    <2>6. s.active + 1 <= s.run
        BY <1>1, <1>8 DEF HasSlot
    <2>7. SlotOK(q)'
        BY <1>1, <2>3, <2>5, <2>6 DEF SlotOK
    <2> QED BY <1>1, <1>7, <2>5, <2>7 DEF SlotsOK
<1>9. CASE ~HasSlot(s)
    <2>1. slots'[q] = [s EXCEPT !.waiting = Append(s.waiting, j)]
        BY <1>1, <1>9 DEF Admitted
    <2>2. Under(q)' = Under(q)
        BY <1>2, <1>4, <1>9 DEF Under
    <2> DEFINE w == Append(s.waiting, j)
    <2>3. /\ slots'[q] \in QueueStates /\ slots'[q].active = s.active /\ slots'[q].waiting = w
          /\ slots'[q].run = s.run /\ slots'[q].wait = s.wait
        <3>1. s.waiting \in Seq(Jobs)
            BY <1>1
        <3>2. w \in Seq(Jobs)
            BY <3>1
        <3> HIDE DEF w
        <3>3. slots'[q] = [s EXCEPT !.waiting = w]
            BY <2>1 DEF w
        <3> DEFINE t == [s EXCEPT !.waiting = w]
        <3>4. t \in QueueStates /\ t.active = s.active /\ t.waiting = w /\ t.run = s.run /\ t.wait = s.wait
            BY <1>1, <3>2, SetWaiting
        <3>5. slots'[q] = t
            BY <3>3
        <3> HIDE DEF t
        <3> QED BY <3>4, <3>5
    <2>4. /\ Len(w) = Len(s.waiting) + 1 /\ w[Len(s.waiting) + 1] = j
          /\ \A i \in 1..Len(s.waiting) : w[i] = s.waiting[i]
          /\ Len(s.waiting) \in Nat
        <3>1. s.waiting \in Seq(Jobs)
            BY <1>1
        <3> QED BY <3>1
    <2> HIDE DEF w
    <2>5. s.active = s.run /\ Len(s.waiting) + 1 <= s.wait
        BY <1>1, <1>9, <2>4 DEF SlotOK, HasSlot, IsFull
    <2>6. ASSUME NEW i \in 1..Len(w)
          PROVE  /\ job'[w[i]].pc = "waiting" /\ q \in QueueOf(job'[w[i]].kind)
                 /\ \A k \in 1..Len(w) : w[i] = w[k] => i = k
        <3>1. Len(s.waiting) \in Nat
            BY <2>4
        <3>2. CASE i = Len(s.waiting) + 1
            <4>1. \A k \in 1..Len(w) : w[i] = w[k] => i = k
                BY <1>6, <2>4, <3>1, <3>2
            <4> QED BY <1>2, <1>9, <2>4, <3>2, <4>1
        <3>3. CASE i \in 1..Len(s.waiting)
            <4>1. w[i] = s.waiting[i] /\ w[i] \in Jobs /\ w[i] # j
                BY <1>6, <2>4, <3>3
            <4>2. ASSUME NEW k \in 1..Len(w), w[i] = w[k] PROVE i = k
                <5>1. CASE k = Len(s.waiting) + 1
                    BY <2>4, <4>1, <4>2, <5>1
                <5>2. CASE k \in 1..Len(s.waiting)
                    BY <1>1, <2>4, <3>3, <4>2, <5>2 DEF SlotOK
                <5> QED BY <2>4, <5>1, <5>2
            <4>3. job[s.waiting[i]].pc = "waiting" /\ q \in QueueOf(job[s.waiting[i]].kind)
                BY <1>1, <3>3 DEF SlotOK
            <4> QED BY <1>2, <4>1, <4>2, <4>3
        <3> QED BY <2>4, <3>1, <3>2, <3>3
    <2>7. SlotOK(q)'
        BY <1>1, <2>2, <2>3, <2>4, <2>5, <2>6 DEF SlotOK
    <2> QED BY <1>1, <1>7, <2>3, <2>7 DEF SlotsOK
<1> QED BY <1>8, <1>9

\* Outside the queues, nothing changes in them.
LEMMA SlotsStay ==
    ASSUME IInv, NEW j \in Jobs, NEW r \in JobStates, job[j].pc # "waiting", job' = [job EXCEPT ![j] = r],
           \A q : j \notin Under(q), QueueOf(r.kind) = {} \/ r.pc = "done", UNCHANGED slots
    PROVE  SlotsOK'
<1>1. job'[j] = r /\ \A x \in Jobs : x # j => job'[x] = job[x]
    BY DEF IInv, TypeOK
<1>2. \A q : Under(q)' = Under(q)
    BY <1>1 DEF Under
<1>3. ASSUME NEW p \in Queues, NEW i \in 1..Len(slots[p].waiting)
      PROVE  slots[p].waiting[i] \in Jobs /\ slots[p].waiting[i] # j
    <2>1. slots[p].waiting \in Seq(Jobs) /\ job[slots[p].waiting[i]].pc = "waiting"
        BY QueueFields DEF IInv, TypeOK, SlotsOK, SlotOK
    <2> QED BY <2>1
<1>4. ASSUME NEW p \in Queues PROVE SlotOK(p)'
    BY <1>1, <1>2, <1>3 DEF IInv, SlotsOK, SlotOK
<1> QED BY <1>4 DEF SlotsOK

LEMMA ArriveStep == ASSUME IInv, NEW j \in Jobs, Arrive(j) PROVE IInv'
<1>1. job[j].pc = "new" /\ UNCHANGED <<storeVars, board, doc, undo>>
    BY DEF Arrive
<1>2. PICK kind \in KindsOf[j] :
        LET r == [NewJob EXCEPT !.kind = kind]
        IN  IF QueueOf(kind) = {} THEN Set(j, [r EXCEPT !.pc = "start"]) /\ UNCHANGED slots
            ELSE \E q \in QueueOf(kind) :
                 IF IsFull(slots[q]) THEN Set(j, [NewJob EXCEPT !.pc = "done", !.kind = kind, !.status = 400])
                                          /\ UNCHANGED slots
                 ELSE /\ Set(j, [r EXCEPT !.pc = IF HasSlot(slots[q]) THEN "start" ELSE "waiting"])
                      /\ slots' = [slots EXCEPT ![q] = Admitted(@, j)]
    BY DEF Arrive
<1>3. kind \in Kinds
    BY JobsAssumption
<1> DEFINE In(pc) == Incoming(kind, pc)
           out == TurnedAway(kind)
<1>4. /\ \A pc \in {"start", "waiting"} :
            LET r == In(pc)
            IN  /\ r \in JobStates /\ r.kind = kind /\ r.pc = pc /\ r.status = 0 /\ ~r.hit
                /\ r.current = {} /\ r.content = {} /\ r.made = {} /\ r.lost = {} /\ r.todo = {}
      /\ out \in JobStates /\ out.kind = kind /\ out.pc = "done" /\ out.status = 400 /\ ~out.hit
      /\ out.current = {} /\ out.content = {} /\ out.made = {} /\ out.lost = {} /\ out.todo = {}
    BY <1>3, NewcomerIs
<1>5. \/ QueueOf(kind) = {} /\ Set(j, In("start")) /\ UNCHANGED slots
      \/ Set(j, out) /\ UNCHANGED slots
      \/ \E q \in QueueOf(kind) :
           /\ ~IsFull(slots[q])
           /\ Set(j, In(IF HasSlot(slots[q]) THEN "start" ELSE "waiting"))
           /\ slots' = [slots EXCEPT ![q] = Admitted(@, j)]
    BY <1>2 DEF Incoming, TurnedAway
<1> HIDE DEF In, out
<1>6. \A q : j \notin Under(q)
    <2>1. job[j].kind = "none"
        BY <1>1 DEF IInv, JobsOK, BooksOK
    <2> QED BY <2>1, OneQueue DEF Under
<1>7. slots \in [Queues -> QueueStates]
    BY DEF IInv, TypeOK
<1>8. CASE QueueOf(kind) = {} /\ Set(j, In("start")) /\ UNCHANGED slots
    <2>1. SlotsOK'
        BY ZenonT(60), <1>1, <1>4, <1>6, <1>8, SlotsStay DEF Set
    <2> QED BY <1>1, <1>3, <1>4, <1>7, <1>8, <2>1, Newcomer DEF Set
<1>9. CASE Set(j, out) /\ UNCHANGED slots
    <2>1. SlotsOK'
        BY <1>1, <1>4, <1>6, <1>9, SlotsStay DEF Set
    <2> QED BY <1>1, <1>3, <1>4, <1>7, <1>9, <2>1, Newcomer DEF Set
<1>10. ASSUME NEW q \in QueueOf(kind), ~IsFull(slots[q]),
              Set(j, In(IF HasSlot(slots[q]) THEN "start" ELSE "waiting")),
              slots' = [slots EXCEPT ![q] = Admitted(@, j)]
       PROVE  IInv'
    <2> DEFINE pc == IF HasSlot(slots[q]) THEN "start" ELSE "waiting"
    <2>1. pc \in {"start", "waiting"} /\ q \in Queues /\ job' = [job EXCEPT ![j] = In(pc)]
        BY <1>10, OneQueue DEF Set
    <2>2. /\ slots' \in [Queues -> QueueStates]
          /\ SlotsOK'
        BY <1>1, <1>4, <1>10, <2>1, AdmitSlots
    <2> QED BY <1>1, <1>3, <1>4, <2>1, <2>2, Newcomer
<1> QED BY <1>5, <1>8, <1>9, <1>10

LEMMA EndedIs ==
    ASSUME NEW r \in JobStates
    PROVE  LET p == Ended(r)
           IN  /\ p \in JobStates /\ p.kind = r.kind /\ p.pc = "done" /\ p.status = r.status
               /\ p.hit = r.hit /\ p.lost = r.lost /\ p.todo = r.todo
               /\ p.content = {} /\ p.made \subseteq r.made /\ p.current \subseteq r.current
               /\ r.kind = "replace" /\ r.status = 200 => p.current = r.current
<1> DEFINE current == IF r.kind = "replace" /\ r.status = 200 THEN r.current ELSE {}
           made == IF r.kind \in Applying \/ r.status # 200 THEN {} ELSE r.made
           d == [r EXCEPT !.pc = "done"]
           b == [d EXCEPT !.base = 0]
           c == [b EXCEPT !.content = {}]
           u == [c EXCEPT !.current = current]
           m == [u EXCEPT !.made = made]
<1>1. DOMAIN r = Fields /\ r.current \in SUBSET Attachment /\ r.made \in SUBSET Attachment
    BY JobFields
<1>2. /\ current \subseteq r.current /\ made \subseteq r.made
      /\ r.kind = "replace" /\ r.status = 200 => current = r.current
    OBVIOUS
<1>3. Ended(r) = m
    BY <1>1 DEF Ended
<1> HIDE DEF current, made
<1>4. d \in JobStates
    BY SetPc DEF Pcs
<1>5. b \in JobStates
    BY <1>4, SetBase
<1>6. c \in JobStates
    BY <1>5, SetContent
<1>7. u \in JobStates
    BY <1>1, <1>2, <1>6, SetCurrent
<1>8. m \in JobStates
    BY <1>1, <1>2, <1>7, SetMade
<1>9. /\ m.kind = r.kind /\ m.pc = "done" /\ m.status = r.status /\ m.hit = r.hit /\ m.lost = r.lost
      /\ m.todo = r.todo /\ m.content = {} /\ m.made = made /\ m.current = current
    BY <1>1 DEF Fields
<1> QED BY <1>2, <1>3, <1>8, <1>9

\* The two of an answer: the request itself, and the one that gets its slot.
LEMMA AnswerBooks ==
    ASSUME IInv, NEW j \in Jobs, job[j].pc = "answer", NEW woken \in SUBSET Jobs,
           \A x \in woken : job[x].pc = "waiting", UNCHANGED <<storeVars, board, doc, undo>>,
           job' = [x \in Jobs |-> IF x = j THEN Ended(job[x])
                                  ELSE IF x \in woken THEN [job[x] EXCEPT !.pc = "start"]
                                  ELSE job[x]],
           slots' \in [Queues -> QueueStates],
           SlotsOK'
    PROVE  IInv'
<1>1. ASSUME NEW x \in Jobs PROVE job[x] \in JobStates /\ BooksOK(x, job[x]) /\ CleanOK(x) /\ ContentOK(x)
    BY DEF IInv, TypeOK, JobsOK
<1>2. \A x \in Jobs : MadeBy(x)' = MadeBy(x) /\ (MadeBy(x) \cap (rows \cup objects))' = MadeBy(x) \cap (rows \cup objects)
    BY DEF MadeBy, storeVars
<1>3. ASSUME NEW x \in Jobs
      PROVE  /\ job'[x] \in JobStates
             /\ BooksOK(x, job'[x]) /\ CleanOK(x)' /\ ContentOK(x)'
             /\ job'[x].current \subseteq job[x].current /\ (Private(x)' => Private(x))
             /\ \A a : Gave(x, a) => Gave(x, a)'
             /\ job'[x].pc = "new" => job[x].pc = "new"
    <2>1. CASE x = j
        <3> DEFINE r == job[x]
                   p == Ended(r)
        <3>1. job'[x] = p
            BY <2>1
        <3>2. /\ p \in JobStates /\ p.kind = r.kind /\ p.pc = "done" /\ p.status = r.status
              /\ p.hit = r.hit /\ p.lost = r.lost /\ p.todo = r.todo
              /\ p.content = {} /\ p.made \subseteq r.made /\ p.current \subseteq r.current
              /\ r.kind = "replace" /\ r.status = 200 => p.current = r.current
            BY <1>1, EndedIs
        <3> HIDE DEF p
        <3>3. BooksOK(x, p)
            BY <1>1, <2>1, <3>2 DEF BooksOK, OnPart, Late, Compiling
        <3>4. CleanOK(x)' /\ ContentOK(x)'
            BY <1>1, <1>2, <2>1, <3>1, <3>2 DEF CleanOK, ContentOK, Left, InHand, Late
        <3>5. (Private(x)' => Private(x)) /\ \A a : Gave(x, a) => Gave(x, a)'
            BY <1>2, <2>1, <3>1, <3>2 DEF Private, Gave
        <3> QED BY <3>1, <3>2, <3>3, <3>4, <3>5
    <2>2. CASE x # j /\ x \in woken
        <3> DEFINE r == job[x]
                   p == [r EXCEPT !.pc = "start"]
        <3>1. job'[x] = p /\ r.pc = "waiting"
            BY <2>2
        <3>2. p \in JobStates /\ Kept(r, p) /\ p.pc = "start" /\ p.todo = r.todo /\ p.status = r.status
            <4>1. "start" \in Pcs
                BY DEF Pcs
            <4> QED BY <1>1, <4>1, PlaceIs
        <3> HIDE DEF p
        <3>3. BooksOK(x, p)
            BY <1>1, <3>1, <3>2 DEF BooksOK, Kept, OnPart, Late, Compiling
        <3>4. CleanOK(x)' /\ ContentOK(x)'
            BY <1>1, <1>2, <3>1, <3>2 DEF CleanOK, ContentOK, Left, Kept, InHand, Late, Stored, storeVars
        <3>5. (Private(x)' => Private(x)) /\ \A a : Gave(x, a) => Gave(x, a)'
            BY <1>2, <3>1, <3>2 DEF Private, Gave, Kept
        <3> QED BY <3>1, <3>2, <3>3, <3>4, <3>5 DEF Kept
    <2>3. CASE x # j /\ x \notin woken
        BY <1>1, <2>3, BooksKept
    <2> QED BY <2>1, <2>2, <2>3
<1>4. job' \in [Jobs -> JobStates]
    BY <1>3
<1> QED BY <1>3, <1>4, JobsRest

\* The slot that is handed on.
LEMMA AnswerSlots ==
    ASSUME IInv, NEW j \in Jobs, job[j].pc = "answer", NEW q \in Queues, q \in QueueOf(job[j].kind),
           \A x \in Jobs : job'[x].kind = job[x].kind,
           \A x \in Jobs : job'[x].pc = IF x = j THEN "done"
                                        ELSE IF x \in Woken(slots[q]) THEN "start" ELSE job[x].pc,
           slots' = [slots EXCEPT ![q] = Released(@)]
    PROVE  /\ slots' \in [Queues -> QueueStates]
           /\ SlotsOK'
<1> DEFINE s == slots[q]
<1>1. /\ s \in QueueStates /\ slots \in [Queues -> QueueStates] /\ SlotOK(q)
      /\ s.active \in Nat /\ s.waiting \in Seq(Jobs) /\ s.run \in Nat /\ s.wait \in Nat
    BY QueueFields DEF IInv, TypeOK, SlotsOK
<1>2. j \in Under(q) /\ \A p \in Queues : p # q => j \notin Under(p)
    BY OneQueue DEF Under
<1>3. ASSUME NEW p \in Queues, NEW i \in 1..Len(slots[p].waiting)
      PROVE  LET x == slots[p].waiting[i]
             IN  x \in Jobs /\ x # j /\ job[x].pc = "waiting" /\ p \in QueueOf(job[x].kind)
    <2>1. slots[p].waiting \in Seq(Jobs) /\ SlotOK(p)
        BY QueueFields DEF IInv, TypeOK, SlotsOK
    <2> QED BY <2>1 DEF SlotOK
<1>4. ASSUME NEW x \in Woken(s)
      PROVE  /\ x \in Jobs /\ x # j /\ job[x].pc = "waiting" /\ q \in QueueOf(job[x].kind)
             /\ s.waiting # <<>> /\ x = s.waiting[1]
    <2>1. s.waiting # <<>> /\ x = s.waiting[1] /\ 1 \in 1..Len(s.waiting)
        BY <1>1 DEF Woken
    <2> QED BY <1>3, <2>1
<1>5. ASSUME NEW p \in Queues, p # q PROVE SlotOK(p)' /\ slots'[p] \in QueueStates
    <2>1. SlotOK(p) /\ slots'[p] = slots[p] /\ slots[p] \in QueueStates
        BY <1>1, <1>5 DEF IInv, SlotsOK
    <2>2. \A x \in Woken(s) : p \notin QueueOf(job[x].kind)
        BY <1>4, <1>5, OneQueue
    <2>3. Under(p)' = Under(p)
        BY <1>2, <1>5, <2>2 DEF Under
    <2>4. ASSUME NEW i \in 1..Len(slots[p].waiting)
          PROVE  job'[slots[p].waiting[i]].pc = "waiting" /\ p \in QueueOf(job'[slots[p].waiting[i]].kind)
        BY <1>3, <2>2
    <2> QED BY <2>1, <2>3, <2>4 DEF SlotOK
<1>6. s.active = Cardinality(Under(q)) /\ s.active \in Nat \ {0}
    <2>1. Cardinality(Under(q)) # 0
        BY <1>2, UnderFinite, FS_EmptySet
    <2> QED BY <1>1, <2>1 DEF SlotOK
<1>7. Under(q)' = (Under(q) \ {j}) \cup Woken(s)
    BY <1>2, <1>4 DEF Under
<1>8. Cardinality(Under(q) \ {j}) = s.active - 1 /\ IsFiniteSet(Under(q) \ {j})
    BY <1>2, <1>6, UnderFinite, FS_RemoveElement
<1>9. CASE s.waiting = <<>>
    <2>1. slots'[q] = [s EXCEPT !.active = s.active - 1]
        BY <1>1, <1>6, <1>9 DEF Released
    <2>2. Under(q)' = Under(q) \ {j}
        BY <1>7, <1>9 DEF Woken
    <2>3. /\ slots'[q] \in QueueStates /\ slots'[q].active = s.active - 1 /\ slots'[q].waiting = <<>>
          /\ slots'[q].run = s.run /\ slots'[q].wait = s.wait
        <3> DEFINE n == s.active - 1
                   t == [s EXCEPT !.active = n]
        <3>1. n \in Nat
            BY <1>6
        <3> HIDE DEF n
        <3>2. t \in QueueStates /\ t.active = n /\ t.waiting = s.waiting /\ t.run = s.run /\ t.wait = s.wait
            BY <1>1, <3>1, SetActive
        <3>3. slots'[q] = t
            BY <2>1 DEF n
        <3> HIDE DEF t
        <3> QED BY <1>9, <3>2, <3>3 DEF n
    <2>4. s.active - 1 <= s.run
        BY <1>1, <1>6 DEF SlotOK
    <2>5. SlotOK(q)'
        BY <1>1, <1>8, <2>2, <2>3, <2>4 DEF SlotOK
    <2> QED BY <1>1, <1>5, <2>3, <2>5 DEF SlotsOK
<1>10. CASE s.waiting # <<>>
    <2> DEFINE w == Tail(s.waiting)
               h == s.waiting[1]
    <2> DEFINE n == (IF s.active > 0 THEN s.active - 1 ELSE 0) + 1
               t == [s EXCEPT !.active = n]
    <2>1. slots'[q] = [t EXCEPT !.waiting = w]
        <3>1. slots'[q] = Released(s)
            BY <1>1
        <3>2. Released(s) = [s EXCEPT !.active = n, !.waiting = w]
            BY <1>10 DEF Released
        <3>3. [s EXCEPT !.active = n, !.waiting = w] = [t EXCEPT !.waiting = w]
            OBVIOUS
        <3> QED BY <3>1, <3>2, <3>3
    <2>n. n \in Nat /\ n = s.active
        BY <1>1, <1>6
    <2> HIDE DEF n
    <2>t. t \in QueueStates /\ t.active = s.active /\ t.run = s.run /\ t.wait = s.wait
        BY <1>1, <2>n, SetActive
    <2> HIDE DEF t
    <2>q. s.waiting \in Seq(Jobs)
        BY <1>1
    <2>2. /\ w \in Seq(Jobs) /\ Len(w) = Len(s.waiting) - 1 /\ Len(s.waiting) \in Nat \ {0}
          /\ \A i \in 1..Len(w) : w[i] = s.waiting[i + 1] /\ i + 1 \in 1..Len(s.waiting)
        BY <1>10, <2>q
    <2> HIDE DEF w
    <2>3. Woken(s) = {h} /\ h \notin Under(q)
        BY <1>1, <1>4, <1>10 DEF Woken, Under
    <2>4. Cardinality(Under(q)') = s.active
        <3>1. Under(q)' = (Under(q) \ {j}) \cup {h} /\ h \notin Under(q) \ {j}
            BY <1>7, <2>3
        <3>2. Cardinality(Under(q)') = Cardinality(Under(q) \ {j}) + 1
            BY <1>8, <3>1, FS_AddElement
        <3> QED BY <1>6, <1>8, <3>2
    <2>5. /\ slots'[q] \in QueueStates /\ slots'[q].active = s.active /\ slots'[q].waiting = w
          /\ slots'[q].run = s.run /\ slots'[q].wait = s.wait
        <3> DEFINE u == [t EXCEPT !.waiting = w]
        <3>1. u \in QueueStates /\ u.active = t.active /\ u.waiting = w /\ u.run = t.run /\ u.wait = t.wait
            BY <2>2, <2>t, SetWaiting
        <3>2. slots'[q] = u
            BY <2>1
        <3> HIDE DEF u
        <3> QED BY <2>t, <3>1, <3>2
    <2>6. s.active = s.run /\ Len(w) <= s.wait
        BY <1>1, <1>10, <2>2 DEF SlotOK
    <2>7. ASSUME NEW i \in 1..Len(w)
          PROVE  /\ job'[w[i]].pc = "waiting" /\ q \in QueueOf(job'[w[i]].kind)
                 /\ \A k \in 1..Len(w) : w[i] = w[k] => i = k
        <3>1. w[i] = s.waiting[i + 1] /\ i + 1 \in 1..Len(s.waiting) /\ 1 \in 1..Len(s.waiting) /\ i + 1 # 1
            BY <2>2
        <3>2. w[i] # h
            BY <1>1, <3>1 DEF SlotOK
        <3>3. w[i] \in Jobs /\ w[i] # j /\ job[w[i]].pc = "waiting" /\ q \in QueueOf(job[w[i]].kind)
            BY <1>3, <3>1
        <3>4. \A k \in 1..Len(w) : w[i] = w[k] => i = k
            BY <1>1, <2>2, <3>1 DEF SlotOK
        <3> QED BY <2>3, <3>2, <3>3, <3>4
    <2>8. SlotOK(q)'
        BY <1>1, <2>4, <2>5, <2>6, <2>7 DEF SlotOK
    <2> QED BY <1>1, <1>5, <2>5, <2>8 DEF SlotsOK
<1> QED BY <1>9, <1>10

LEMMA AnswerStepped == ASSUME IInv, NEW j \in Jobs, Answer(j) PROVE IInv'
<1> DEFINE freed == QueueOf(job[j].kind)
           woken == UNION {Woken(slots[q]) : q \in freed}
<1>1. /\ job[j].pc = "answer" /\ UNCHANGED <<storeVars, board, doc, undo>>
      /\ slots' = [q \in Queues |-> IF q \in freed THEN Released(slots[q]) ELSE slots[q]]
      /\ job' = [x \in Jobs |-> IF x = j THEN Ended(job[x])
                                ELSE IF x \in woken THEN [job[x] EXCEPT !.pc = "start"]
                                ELSE job[x]]
    BY DEF Answer
<1>2. /\ slots \in [Queues -> QueueStates] /\ SlotsOK
      /\ \A x \in Jobs : job[x] \in JobStates
    BY DEF IInv, TypeOK
<1>3. ASSUME freed = {} PROVE woken = {} /\ slots' = slots
    BY <1>1, <1>2, <1>3, Zenon
<1>4. ASSUME NEW q \in freed
      PROVE  /\ woken = Woken(slots[q]) /\ q \in Queues
             /\ slots' = [slots EXCEPT ![q] = Released(@)]
    <2>1. freed = {q} /\ q \in Queues
        BY OneQueue
    <2>2. woken = Woken(slots[q])
        BY <2>1
    <2> QED BY <1>1, <1>2, <2>1, <2>2
<1> HIDE DEF woken
<1>5. woken \in SUBSET Jobs /\ \A x \in woken : job[x].pc = "waiting"
    <2>1. CASE freed = {}
        BY <1>3, <2>1
    <2>2. ASSUME NEW q \in freed PROVE woken \in SUBSET Jobs /\ \A x \in woken : job[x].pc = "waiting"
        <3>1. woken = Woken(slots[q]) /\ SlotOK(q) /\ slots[q].waiting \in Seq(Jobs)
            BY <1>2, <1>4, QueueFields DEF SlotsOK
        <3>2. slots[q].waiting # <<>> => 1 \in 1..Len(slots[q].waiting) /\ Head(slots[q].waiting) = slots[q].waiting[1]
            BY <3>1
        <3> QED BY <3>1, <3>2 DEF Woken, SlotOK
    <2> QED BY <2>1, <2>2
<1>6. ASSUME NEW x \in Jobs
      PROVE  /\ job'[x].kind = job[x].kind
             /\ job'[x].pc = IF x = j THEN "done" ELSE IF x \in woken THEN "start" ELSE job[x].pc
    <2>1. job[x] \in JobStates /\ "start" \in Pcs
        BY <1>2 DEF Pcs
    <2> QED BY <1>1, <2>1, EndedIs, PlaceIs DEF Kept
<1>7. /\ slots' \in [Queues -> QueueStates]
      /\ SlotsOK'
    <2>1. CASE freed = {}
        <3>1. \A q \in Queues : Under(q)' = Under(q)
            BY <1>3, <1>6, <2>1 DEF Under
        <3>2. ASSUME NEW q \in Queues PROVE SlotOK(q)'
            <4>1. SlotOK(q) /\ slots[q].waiting \in Seq(Jobs) /\ slots' = slots /\ woken = {}
                BY <1>2, <1>3, <2>1, QueueFields DEF SlotsOK
            <4> QED BY <1>1, <1>6, <3>1, <4>1 DEF SlotOK
        <3> QED BY <1>2, <1>3, <2>1, <3>2 DEF SlotsOK
    <2>2. ASSUME NEW q \in freed
          PROVE  /\ slots' \in [Queues -> QueueStates]
                 /\ SlotsOK'
        BY ZenonT(60), <1>1, <1>4, <1>6, AnswerSlots
    <2> QED BY <2>1, <2>2
<1> QED BY <1>1, <1>5, <1>7, AnswerBooks

----------------------------------------------------------------------------
(* The clients.                                                            *)

\* The document may only come to refer to what its request was answered, and what is stored.
LEMMA ClientStep ==
    ASSUME IInv, UNCHANGED <<rows, faults, board, undo, slots, job>>,
           \/ objects' = objects
           \/ \E j \in Jobs : job[j].kind = "presign" /\ job[j].pc = "done" /\ objects' = objects \cup job[j].made,
           doc' \in [refs : SUBSET Attachment, version : Nat, edits : 0..MaxEdits],
           \A a \in doc'.refs : a \in Known \/ (a \in Stored /\ \A x \in Jobs : Private(x) => a \notin MadeBy(x))
    PROVE  IInv'
<1>1. ASSUME NEW j \in Jobs PROVE job[j] \in JobStates /\ BooksOK(j, job[j]) /\ CleanOK(j) /\ ContentOK(j)
    BY DEF IInv, TypeOK, JobsOK
<1>2. objects \subseteq objects' /\ objects' \in SUBSET Attachment
    BY JobFields DEF IInv, TypeOK
<1>3. TypeOK'
    BY <1>2 DEF IInv, TypeOK
<1>4. ASSUME NEW x \in Jobs, job[x].kind \in Applying \/ job[x].pc = "new" PROVE MadeBy(x) \cap objects' \subseteq objects
    <2>1. ASSUME NEW j \in Jobs, job[j].kind = "presign", job[j].pc = "done", objects' = objects \cup job[j].made
          PROVE  MadeBy(x) \cap objects' \subseteq objects
        <3>1. x # j
            BY <1>4, <2>1 DEF Applying, Excalidraw
        <3>2. job[j].made \subseteq MadeBy(j)
            BY <1>1 DEF BooksOK
        <3> QED BY <2>1, <3>1, <3>2, MadeApart
    <2> QED BY <2>1
<1>5. JobsOK'
    <2>1. ASSUME NEW x \in Jobs PROVE BooksOK(x, job'[x]) /\ CleanOK(x)' /\ ContentOK(x)'
        <3>1. job[x].kind \in Applying => Left(x)' \subseteq Left(x)
            BY <1>4 DEF Left
        <3>2. Current(x)' = Current(x)
            BY DEF Current
        <3>3. CleanOK(x)'
            BY <1>1, <3>1, <3>2 DEF CleanOK
        <3>4. ContentOK(x)'
            BY <1>1, <1>2, <3>2 DEF ContentOK, Stored
        <3> QED BY <1>1, <3>3, <3>4
    <2> QED BY <2>1 DEF JobsOK
<1>6. FreshOK'
    BY <1>4 DEF IInv, FreshOK
<1>7. ASSUME NEW a, a \in Known'
      PROVE  a \in Known \/ (a \in Stored /\ \A x \in Jobs : Private(x) => a \notin MadeBy(x))
    BY <1>7, KnownIs, KnownNext
<1>8. PrivateOK'
    <2>1. ASSUME NEW x \in Jobs, Private(x), NEW a \in MadeBy(x), a \in Known' PROVE FALSE
        BY <1>7, <2>1 DEF IInv, PrivateOK
    <2> QED BY <2>1 DEF PrivateOK, Private
<1>9. Stored \subseteq Stored' /\ GivenUp' = GivenUp
    BY <1>2 DEF Stored, GivenUp
<1>10. KnownOK'
    BY <1>7, <1>9 DEF IInv, KnownOK
<1>11. SlotsOK'
    BY DEF IInv, SlotsOK, SlotOK, Under
<1> QED BY <1>3, <1>5, <1>6, <1>8, <1>10, <1>11 DEF IInv

LEMMA PutByClient == ASSUME IInv, NEW j \in Jobs, ClientPut(j) PROVE IInv'
<1>1. \A a \in doc.refs : a \in Known
    BY KnownIs
<1> QED BY <1>1, ClientStep DEF ClientPut, jobVars, IInv, TypeOK

LEMMA OfferedIs ==
    ASSUME IInv, NEW a \in Offered
    PROVE  \A x \in Jobs : Private(x) => a \notin MadeBy(x)
<1> DEFINE mine == {x \in Jobs : /\ job[x].pc = "done" /\ job[x].status = 200
                                 /\ job[x].kind \in Uploads \cup {"docx"}}
<1>1. a \in UNION {job[j].made : j \in mine} \/ a \in {Elsewhere} \X Parts
    BY DEF Offered
<1> HIDE DEF mine
<1>2. a \in UNION {job[j].made : j \in mine} => \E j \in mine : a \in job[j].made
    BY Zenon
<1>3. ASSUME NEW j \in mine, a \in job[j].made, NEW x \in Jobs, Private(x) PROVE a \notin MadeBy(x)
    <2>1. j \in Jobs /\ job[j].pc = "done" /\ job[j].kind \in Uploads \cup {"docx"}
        BY DEF mine
    <2>2. job[j].kind \notin Applying
        BY <2>1 DEF Uploads, Applying, Excalidraw
    <2>3. a \in MadeBy(j) /\ j # x
        BY <1>3, <2>1, <2>2 DEF IInv, JobsOK, BooksOK, Private
    <2> QED BY <2>3, MadeApart
<1>4. a \in {Elsewhere} \X Parts => \A x \in Jobs : a \notin MadeBy(x)
    BY AttachmentsAssumption DEF MadeBy
<1> QED BY <1>1, <1>2, <1>3, <1>4

LEMMA EditByClient == ASSUME IInv, ClientEdits PROVE IInv'
<1>1. UNCHANGED <<storeVars, board, undo, slots, job>>
    BY DEF ClientEdits
<1>2. doc \in [refs : SUBSET Attachment, version : Nat, edits : 0..MaxEdits] /\ Stored \subseteq Attachment
    BY DEF IInv, TypeOK, Stored
<1>3. ASSUME NEW refs \in SUBSET Attachment, Edited(refs)
      PROVE  doc' \in [refs : SUBSET Attachment, version : Nat, edits : 0..MaxEdits] /\ doc'.refs = refs
    BY <1>2, <1>3, JobsAssumption DEF Edited
<1>4. doc.refs \subseteq Known /\ \A v \in undo : v.refs \subseteq Known /\ v.refs \in SUBSET Attachment
    BY KnownIs DEF IInv, TypeOK
<1>5. ASSUME NEW a \in Offered \cap Stored, Edited(doc.refs \cup {a}) PROVE IInv'
    <2>1. doc.refs \cup {a} \in SUBSET Attachment
        BY <1>2
    <2>2. doc' \in [refs : SUBSET Attachment, version : Nat, edits : 0..MaxEdits] /\ doc'.refs = doc.refs \cup {a}
        BY <1>3, <1>5, <2>1
    <2>3. \A x \in Jobs : Private(x) => a \notin MadeBy(x)
        BY OfferedIs
    <2> QED BY <1>1, <1>4, <2>2, <2>3, ClientStep DEF storeVars
<1>6. ASSUME NEW a \in doc.refs, Edited(doc.refs \ {a}) PROVE IInv'
    <2>1. doc.refs \ {a} \in SUBSET Attachment
        BY <1>2
    <2>2. doc' \in [refs : SUBSET Attachment, version : Nat, edits : 0..MaxEdits] /\ doc'.refs = doc.refs \ {a}
        BY <1>3, <1>6, <2>1
    <2> QED BY <1>1, <1>4, <2>2, ClientStep DEF storeVars
<1>7. ASSUME NEW v \in undo, Edited(v.refs) PROVE IInv'
    <2>1. doc' \in [refs : SUBSET Attachment, version : Nat, edits : 0..MaxEdits] /\ doc'.refs = v.refs
        BY <1>3, <1>4, <1>7
    <2> QED BY <1>1, <1>4, <2>1, ClientStep DEF storeVars
<1> QED BY <1>5, <1>6, <1>7 DEF ClientEdits

LEMMA Stutter == ASSUME IInv, UNCHANGED vars PROVE IInv'
<1>1. \A a \in doc.refs : a \in Known
    BY KnownIs
<1> QED BY <1>1, ClientStep DEF vars, IInv, TypeOK

----------------------------------------------------------------------------
(* The theorems.                                                           *)

LEMMA Inductive == IInv /\ [Next]_vars => IInv'
<1> SUFFICES ASSUME IInv, [Next]_vars PROVE IInv'
    OBVIOUS
<1>1. ASSUME NEW j \in Jobs, JobStep(j) PROVE IInv'
    BY <1>1, StartStep, CompileStep, FetchStep, PutStep, RegisterStep, UnputStep, CheckStep, ReadStep,
       PreflightStep, TransactionStep, ApplyStep, FlushStep, SweepStep, AnswerStepped DEF JobStep
<1>2. ASSUME NEW j \in Jobs, Arrive(j) \/ ClientPut(j) PROVE IInv'
    BY <1>2, ArriveStep, PutByClient
<1> QED BY <1>1, <1>2, EditByClient, Stutter DEF Next

LEMMA Invariance == Spec => []IInv
BY InitIInv, Inductive, PTL DEF Spec

(* Every variable keeps its type.                                          *)
THEOREM TypeCorrect == Spec => []TypeOK
<1>1. IInv => TypeOK
    BY DEF IInv
<1> QED BY <1>1, Invariance, PTL

(* A queue's counter is the number of requests between its acquire and its *)
(* release, on every path, never above the limit; nobody waits beside a    *)
(* free slot, and no more than the queue holds wait.                       *)
THEOREM SlotsCounted == Spec => []SlotsExact
<1>1. IInv => SlotsExact
    BY DEF IInv, SlotsOK, SlotOK, SlotsExact
<1> QED BY <1>1, Invariance, PTL

(* An import that was meant to apply and was refused, or failed, leaves    *)
(* nothing in the store, unless a storage call of its own failed.          *)
THEOREM FailuresCleanUp == Spec => []FailedLeavesNothing
<1>1. IInv => FailedLeavesNothing
    BY DEF IInv, JobsOK, CleanOK, Left, FailedLeavesNothing
<1> QED BY <1>1, Invariance, PTL

(* What the document refers to has its row and its object, but for what    *)
(* the code gives up, and the attachments of other documents stay.         *)
THEOREM ReferencesHold == Spec => []ReferencedIsStored
<1>1. IInv => ReferencedIsStored
    BY DEF IInv, KnownOK, Known, ReferencedIsStored
<1> QED BY <1>1, Invariance, PTL
=============================================================================
