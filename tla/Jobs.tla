-------------------------------- MODULE Jobs --------------------------------
(***************************************************************************)
(* The requests that move bytes in and out of one document: imports        *)
(* (src/api/routes/import.ts, src/import/excalidraw.ts), attachment        *)
(* uploads and copies (src/api/routes/attachments.ts) and the exports that *)
(* queue (export.ts, boardExport.ts). An import uploads the images of the  *)
(* file, edits the live document under a base version (LiveEdit), and      *)
(* cleans up after itself when that fails. Connected clients edit and      *)
(* restore the document meanwhile.                                         *)
(*                                                                         *)
(* doc_attachment rows (src/db/repos/docAttachmentRepo.ts) and the objects *)
(* they name in the store (src/storage/objectStore.ts) are not one         *)
(* transaction: a handler uploads and registers in two awaits, either may  *)
(* fail, and an upload or an insert whose answer is lost may still have    *)
(* happened.                                                               *)
(***************************************************************************)
EXTENDS WorkQueue, FiniteSets

CONSTANTS
    Jobs,       \* requests
    Parts,      \* the images of one request, in order
    Here,       \* what the document had before
    Elsewhere,  \* attachments of another document
    MaxFaults,  \* storage and database errors
    KindsOf,    \* KindsOf[j]: what request j may be
    Images,     \* Images[j]: how many images it may have
    Limits,     \* Limits[q]: how many run and how many wait in queue q
    MaxEdits    \* bound: writes of clients to the live document

Queues == {"docx", "typst", "png"}

Excalidraw == {"merge", "replace"}
Applying == {"docxApply", "markdown"} \cup Excalidraw
Copying == {"markdown", "copy"}
Uploads == {"svg", "presign", "ingest", "copy"}
Kinds == Applying \cup Uploads \cup {"docx", "pdf", "png"}

ASSUME AttachmentsAssumption ==
    /\ Parts \subseteq Nat /\ 1 \in Parts
    /\ Here # Elsewhere /\ {Here, Elsewhere} \cap Jobs = {}
    /\ MaxFaults \in Nat

ASSUME JobsAssumption ==
    /\ IsFiniteSet(Jobs)
    /\ KindsOf \in [Jobs -> SUBSET Kinds]
    /\ Images \in [Jobs -> Nat] /\ \A j \in Jobs : 1..Images[j] \subseteq Parts
    /\ MaxEdits \in Nat
    /\ Limits \in [Queues -> (Nat \ {0}) \X Nat]

VARIABLES
    rows,       \* attachments with a doc_attachment row
    objects,    \* attachments whose bytes are in the store
    faults,
    board,      \* doc_type: a whiteboard or a text document, fixed
    doc,        \* the live document: the attachments it refers to and its version
    undo,       \* safety snapshots, by the request that took them
    slots,      \* the work queues
    job         \* job[j]

storeVars == <<rows, objects, faults>>
jobVars == <<board, doc, undo, slots, job>>
vars == <<rows, objects, faults, board, doc, undo, slots, job>>

-----------------------------------------------------------------------------
(* The store.                                                              *)

\* newAttachId: nobody else's.
Attachment == (Jobs \cup {Here, Elsewhere}) \X Parts
MadeBy(j) == {j} \X Parts
DocOf(a) == IF a[1] = Elsewhere THEN Elsewhere ELSE Here
Stored == rows \cap objects

StoreInit ==
    /\ rows = {<<Here, 1>>} \cup ({Elsewhere} \X Parts)
    /\ objects = rows
    /\ faults = 0

Fault ==
    /\ faults < MaxFaults
    /\ faults' = faults + 1

Uploaded(a) == objects' = objects \cup {a} /\ UNCHANGED <<rows, faults>>
UploadFails(a) == Fault /\ objects' \in {objects, objects \cup {a}} /\ UNCHANGED rows
Registered(a) == rows' = rows \cup {a} /\ UNCHANGED <<objects, faults>>
RegisterFails(a) == Fault /\ rows' \in {rows, rows \cup {a}} /\ UNCHANGED objects

\* Both deletions, of what is there.
Deleted(a) == rows' = rows \ {a} /\ objects' = objects \ {a} /\ UNCHANGED faults

\* The object first, then the row: a failure keeps the row as the cursor of a retry.
DeleteInOrderFails(a) ==
    /\ Fault
    /\ UNCHANGED rows
    /\ objects' \in {objects, objects \ {a}}

\* Promise.allSettled of both: either may fail alone.
DeleteBothFails(a) ==
    /\ Fault
    /\ \/ UNCHANGED rows /\ objects' \in {objects, objects \ {a}}
       \/ UNCHANGED objects /\ rows' = rows \ {a}

-----------------------------------------------------------------------------
(* Requests.                                                               *)

QueueOf(kind) == CASE kind \in {"docx", "docxApply"} -> {"docx"} [] kind = "pdf" -> {"typst"}
                   [] kind = "png" -> {"png"} [] OTHER -> {}
Fits(kind) == kind \in Uploads \/ (board <=> kind \in Excalidraw \cup {"png"})

\* todo: parts to come. current, base: the live document the request read. content: what the
\* edit refers to. made: what a failure cleans up. hit: the edit reached the live document.
\* lost: attachments of a storage call that failed and was given up.
NewJob == [kind |-> "none", pc |-> "new", todo |-> {}, current |-> {}, base |-> 0,
           content |-> {}, made |-> {}, sweep |-> {}, lost |-> {}, hit |-> FALSE, status |-> 0]
\* Answers are 200, 400 for every refusal (4xx, 503) and 500 for a failure (500, 502, 504).

Init ==
    /\ StoreInit
    /\ board \in BOOLEAN
    /\ doc = [refs |-> {<<Here, 1>>}, version |-> 0, edits |-> 0]
    /\ undo = {}
    /\ slots = [q \in Queues |-> NewQueue(Limits[q])]
    /\ job = [j \in Jobs |-> NewJob]

First(kind) == CASE kind \in Copying -> "fetch" [] kind \in {"presign", "ingest"} -> "register"
                 [] OTHER -> "put"
Current(j) == <<j, CHOOSE p \in job[j].todo : \A q \in job[j].todo : p <= q>>
Set(j, r) == job' = [job EXCEPT ![j] = r]
Answered(r, code) == [r EXCEPT !.pc = "answer", !.status = code]
\* The parts are through: answer an upload, or go on to the edit.
Through(r) ==
    CASE r.kind \in {"docxApply", "markdown"} -> [r EXCEPT !.pc = "read"]
      [] r.kind \in Excalidraw -> [r EXCEPT !.pc = "preflight"]
      [] OTHER -> Answered(r, 200)
Parting(r, todo) ==
    IF todo = {} THEN Through([r EXCEPT !.todo = {}])
    ELSE [r EXCEPT !.todo = todo, !.pc = First(r.kind)]
NextPart(j, r) == Parting(r, r.todo \ {Current(j)[2]})
WithPart(j, r) == NextPart(j, [r EXCEPT !.made = @ \cup {Current(j)},
                                        !.content = @ \cup {Current(j)}])

\* Mutant of Failing: the images of the file itself are left to the exception path.
FailingOnlyMigrated(r, code) ==
    [r EXCEPT !.pc = "sweep", !.status = code,
              !.sweep = IF r.kind = "docxApply" /\ code # 500 THEN {} ELSE r.made]

\* Compensate, then answer.
Failing(r, code) == [r EXCEPT !.pc = "sweep", !.sweep = r.made, !.status = code]
Losing(r, a) == [r EXCEPT !.lost = @ \cup {a}]

-----------------------------------------------------------------------------
(* Admission.                                                              *)

Arrive(j) ==
    /\ job[j].pc = "new"
    /\ \E kind \in KindsOf[j] :
        /\ Fits(kind)
        /\ LET r == [NewJob EXCEPT !.kind = kind]
           IN  IF QueueOf(kind) = {} THEN Set(j, [r EXCEPT !.pc = "start"]) /\ UNCHANGED slots
               ELSE \E q \in QueueOf(kind) :
                    IF IsFull(slots[q]) THEN Set(j, [NewJob EXCEPT !.pc = "done", !.kind = kind, !.status = 400])
                                             /\ UNCHANGED slots
                    ELSE /\ Set(j, [r EXCEPT !.pc = IF HasSlot(slots[q]) THEN "start" ELSE "waiting"])
                         /\ slots' = [slots EXCEPT ![q] = Admitted(@, j)]
    /\ UNCHANGED <<storeVars, board, doc, undo>>

\* Of a finished request only what the properties and the clients look at is kept.
Ended(r) == [r EXCEPT !.pc = "done", !.base = 0, !.content = {},
                      !.current = IF r.kind = "replace" /\ r.status = 200 THEN @ ELSE {},
                      !.made = IF r.kind \in Applying \/ r.status # 200 THEN {} ELSE @]

\* Mutant of Answer: no finally; an error answer keeps the slot.
AnswerNoFinally(j) ==
    /\ job[j].pc = "answer"
    /\ LET freed == IF job[j].status = 200 THEN QueueOf(job[j].kind) ELSE {}
           woken == UNION {Woken(slots[q]) : q \in freed}
       IN  /\ slots' = [q \in Queues |-> IF q \in freed THEN Released(slots[q]) ELSE slots[q]]
           /\ job' = [x \in Jobs |-> IF x = j THEN Ended(job[x])
                                     ELSE IF x \in woken THEN [job[x] EXCEPT !.pc = "start"]
                                     ELSE job[x]]
    /\ UNCHANGED <<storeVars, board, doc, undo>>

\* Mutant of Answer: the slot is given back and nobody is told.
AnswerWakesNobody(j) ==
    /\ job[j].pc = "answer"
    /\ slots' = [q \in Queues |-> IF q \in QueueOf(job[j].kind)
                                  THEN [slots[q] EXCEPT !.active = @ - 1] ELSE slots[q]]
    /\ Set(j, Ended(job[j]))
    /\ UNCHANGED <<storeVars, board, doc, undo>>

\* The response, and the finally that hands the slot on.
Answer(j) ==
    /\ job[j].pc = "answer"
    /\ LET freed == QueueOf(job[j].kind)
           woken == UNION {Woken(slots[q]) : q \in freed}
       IN  /\ slots' = [q \in Queues |-> IF q \in freed THEN Released(slots[q]) ELSE slots[q]]
           /\ job' = [x \in Jobs |-> IF x = j THEN Ended(job[x])
                                     ELSE IF x \in woken THEN [job[x] EXCEPT !.pc = "start"]
                                     ELSE job[x]]
    /\ UNCHANGED <<storeVars, board, doc, undo>>

-----------------------------------------------------------------------------
(* Start: parse the upload, read the board, or prepare an export.          *)

\* Its images, in order.
Upto(j) == {1..n : n \in 1..Images[j]}

Starting(j, kinds) ==
    /\ job[j].pc = "start" /\ job[j].kind \in kinds
    /\ UNCHANGED <<storeVars, board, doc, undo, slots>>

\* importDocxWithMedia: an unsafe or unreadable file is refused before any image is uploaded.
StartDocx(j) ==
    /\ Starting(j, {"docx", "docxApply"})
    /\ (\E some \in Upto(j) \cup {{}} : Set(j, Parting(job[j], some))) \/ Set(j, Answered(job[j], 400))

\* parseMarkdownToPmDoc, then the walk over what an export of another document left in it.
StartMarkdown(j) ==
    /\ Starting(j, {"markdown"})
    /\ (\E some \in Upto(j) \cup {{}} : Set(j, Parting(job[j], some))) \/ Set(j, Answered(job[j], 400))

\* The base version is read before the scene is validated; nothing is uploaded of a bad one,
\* nor of a file no element refers to.
StartExcalidraw(j) ==
    /\ Starting(j, Excalidraw)
    /\ LET r == [job[j] EXCEPT !.base = doc.version, !.current = doc.refs]
       IN  (\E used \in Upto(j) \cup {{}} : Set(j, Parting(r, used))) \/ Set(j, Answered(r, 400))

\* Up to maxResolveBatch sources, each once.
StartCopy(j) ==
    /\ Starting(j, {"copy"})
    /\ \E some \in Upto(j) : Set(j, Parting(job[j], some))

\* fetchExternalImage may refuse or fail for each address.
StartIngest(j) ==
    /\ Starting(j, {"ingest"})
    /\ \E fetched \in Upto(j) \cup {{}} : Set(j, Parting(job[j], fetched))

StartSvg(j) ==
    /\ Starting(j, {"svg"})
    /\ Set(j, Parting(job[j], 1..1)) \/ Set(j, Answered(job[j], 400))

StartPresign(j) ==
    /\ Starting(j, {"presign"})
    /\ Set(j, Parting(job[j], 1..1)) \/ Set(j, Answered(job[j], 400))

\* The live state and the images it refers to; an image that cannot be had is left out.
StartPdf(j) ==
    /\ Starting(j, {"pdf"})
    /\ Set(j, [job[j] EXCEPT !.pc = "compile"]) \/ Set(j, Answered(job[j], 500))

Rasterize(j) ==
    /\ Starting(j, {"png"})
    /\ \E code \in {200, 500} : Set(j, Answered(job[j], code))

Start(j) ==
    \/ StartDocx(j) \/ StartMarkdown(j) \/ StartExcalidraw(j) \/ StartCopy(j) \/ StartIngest(j)
    \/ StartSvg(j) \/ StartPresign(j) \/ StartPdf(j) \/ Rasterize(j)

\* compileTypst, the probes for a bad formula, and the retries with formulas left as source.
Compile(j) ==
    /\ job[j].pc \in {"compile", "probe", "partial", "verbatim"}
    /\ LET r == job[j]
           Go(pc) == Set(j, [r EXCEPT !.pc = pc])
       IN  \/ r.pc = "probe" /\ (Go("partial") \/ Go("verbatim"))
           \/ r.pc # "probe" /\ \E code \in {200, 500} : Set(j, Answered(r, code))
           \/ r.pc = "compile" /\ Go("probe")
           \/ r.pc = "partial" /\ Go("verbatim")
           \/ r.pc = "verbatim" /\ Set(j, Answered(r, 500))
    /\ UNCHANGED <<storeVars, board, doc, undo, slots>>

-----------------------------------------------------------------------------
(* The images, one after the other: copyStoredObject, svgUploadHandler,    *)
(* presignHandler, ingestHandler, the DOCX upload context and              *)
(* uploadExcalidrawAttachment. A failed image of a DOCX, a copy or an      *)
(* ingest is skipped; one of a board fails the import.                     *)

\* Mutant of FetchPart: a lookup that throws passes by the catch that deletes the copies.
FetchPartUnswept(j) ==
    /\ job[j].pc = "fetch"
    /\ LET r == job[j]
       IN  \/ <<Elsewhere, Current(j)[2]>> \in Stored /\ Set(j, [r EXCEPT !.pc = "put"]) /\ UNCHANGED faults
           \/ Set(j, NextPart(j, r)) /\ UNCHANGED faults
           \/ Fault /\ Set(j, Answered(r, 500))
    /\ UNCHANGED <<rows, objects, board, doc, undo, slots>>

\* The source's document, the caller's role in it, the row, then store.download: a source
\* that is not to be had, or cannot be downloaded, is skipped. A lookup that fails ends the
\* request: migrateImportedAttachments deletes the copies it has made, copyHandler leaves them.
FetchPart(j) ==
    /\ job[j].pc = "fetch"
    /\ LET r == job[j]
       IN  \/ <<Elsewhere, Current(j)[2]>> \in Stored /\ Set(j, [r EXCEPT !.pc = "put"]) /\ UNCHANGED faults
           \/ Set(j, NextPart(j, r)) /\ UNCHANGED faults
           \/ Fault /\ Set(j, IF r.kind \in Applying THEN Failing(r, 500) ELSE Answered(r, 500))
    /\ UNCHANGED <<rows, objects, board, doc, undo, slots>>

PutPart(j) ==
    /\ job[j].pc = "put"
    /\ LET r == job[j]
           a == Current(j)
       IN  \/ Uploaded(a) /\ Set(j, IF r.kind = "ingest" THEN WithPart(j, r)
                                    ELSE [r EXCEPT !.pc = "register"])
           \/ UploadFails(a) /\ Set(j,
                CASE r.kind \in Copying -> [r EXCEPT !.pc = "unput"]
                  [] r.kind = "svg" -> Answered(Losing(r, a), 500)
                  [] r.kind \in Excalidraw -> Failing(Losing(r, a), 500)
                  [] OTHER -> NextPart(j, Losing(r, a)))
    /\ UNCHANGED <<board, doc, undo, slots>>

\* copyHandler reads the new row back: a copy for which that fails stays, unannounced.
RegisterPart(j) ==
    /\ job[j].pc = "register"
    /\ LET r == job[j]
           a == Current(j)
       IN  \/ Registered(a) /\ Set(j,
                CASE r.kind = "ingest" -> [r EXCEPT !.pc = "put"]
                  [] r.kind \in Excalidraw -> [r EXCEPT !.pc = "check"]
                  [] OTHER -> WithPart(j, r))
           \/ RegisterFails(a) /\ Set(j,
                CASE r.kind \in Copying -> [r EXCEPT !.pc = "unput"]
                  [] r.kind = "svg" -> Answered(Losing(r, a), 500)
                  [] r.kind = "presign" -> Answered(Losing(r, a), 500)
                  [] r.kind = "ingest" -> NextPart(j, Losing(r, a))
                  [] a \in rows' -> [Losing(r, a) EXCEPT !.pc = "unput"]
                  [] OTHER -> [r EXCEPT !.pc = "unput"])
           \/ /\ r.kind = "copy" /\ Fault
              /\ rows' = rows \cup {a}
              /\ UNCHANGED objects
              /\ Set(j, NextPart(j, Losing(r, a)))
    /\ UNCHANGED <<board, doc, undo, slots>>

\* The catch of a failed image: copyStoredObject deletes both, the others the object.
UnputPart(j) ==
    /\ job[j].pc = "unput"
    /\ LET r == job[j]
           a == Current(j)
           Onward(q) == Set(j, IF q.kind \in Excalidraw THEN Failing(q, 500) ELSE NextPart(j, q))
       IN  \/ r.kind \in Copying /\ Deleted(a) /\ Onward(r)
           \/ r.kind \in Copying /\ DeleteBothFails(a) /\ Onward(Losing(r, a))
           \/ /\ r.kind \notin Copying
              /\ objects' = objects \ {a}
              /\ UNCHANGED <<rows, faults>>
              /\ Onward(r)
           \/ r.kind \notin Copying /\ Fault /\ UNCHANGED <<rows, objects>> /\ Onward(Losing(r, a))
    /\ UNCHANGED <<board, doc, undo, slots>>

\* prepareExcalidrawImport reads the row back before it remembers the upload.
CheckPart(j) ==
    /\ job[j].pc = "check"
    /\ \/ Set(j, WithPart(j, job[j])) /\ UNCHANGED faults
       \/ Fault /\ Set(j, Failing(Losing(job[j], Current(j)), 500))
    /\ UNCHANGED <<rows, objects, board, doc, undo, slots>>

-----------------------------------------------------------------------------
(* The edit: editDocBody and editBoardScene, whose phases LiveEdit models  *)
(* in full.                                                                *)

ReadLive(j) ==
    /\ job[j].pc = "read"
    /\ \/ /\ Set(j, [job[j] EXCEPT !.pc = "preflight", !.base = doc.version, !.current = doc.refs])
          /\ UNCHANGED faults
       \/ Fault /\ Set(j, Failing(job[j], 500))
    /\ UNCHANGED <<rows, objects, board, doc, undo, slots>>

Preflight(j) ==
    /\ job[j].pc = "preflight"
    /\ LET r == job[j]
       IN  IF doc.version # r.base THEN Set(j, Failing(r, 400))
           ELSE \/ (board \/ r.content \subseteq rows) /\ Set(j, [r EXCEPT !.pc = "tx"])
                \/ Set(j, Failing(r, 400))
    /\ UNCHANGED <<storeVars, board, doc, undo, slots>>

\* The locked re-check of role and epoch, and the safety snapshot.
Transaction(j) ==
    /\ job[j].pc = "tx"
    /\ \/ /\ undo' = undo \cup {[by |-> j, refs |-> job[j].current]}
          /\ Set(j, [job[j] EXCEPT !.pc = "apply"])
          /\ UNCHANGED faults
       \/ Set(j, Failing(job[j], 400)) /\ UNCHANGED <<undo, faults>>
       \/ Fault /\ Set(j, Failing(job[j], 500)) /\ UNCHANGED undo
    /\ UNCHANGED <<rows, objects, board, doc, slots>>

\* A text import replaces every block; a board import merges, or deletes what it read.
Applied(r) ==
    [doc EXCEPT !.version = @ + 1,
                !.refs = CASE r.kind = "merge" -> @ \cup r.content
                           [] r.kind = "replace" -> (@ \ r.current) \cup r.content
                           [] OTHER -> r.content]

Apply(j) ==
    /\ job[j].pc = "apply"
    /\ LET r == job[j]
       IN  IF doc.version = r.base
           THEN /\ doc' = Applied(r)
                /\ Set(j, [r EXCEPT !.pc = "flush", !.hit = TRUE])
                /\ UNCHANGED undo
           ELSE /\ undo' = {v \in undo : v.by # j}
                /\ Set(j, Failing(r, 400))
                /\ UNCHANGED doc
    /\ UNCHANGED <<storeVars, board, slots>>

\* Mutant of Flush: the old files go whatever the mode.
FlushSweepsMerged(j) ==
    /\ job[j].pc = "flush"
    /\ LET r == job[j]
       IN  IF r.kind \in Excalidraw
           THEN Set(j, [r EXCEPT !.pc = "sweep", !.sweep = r.current, !.status = 200])
           ELSE Set(j, Answered(r, 200))
    /\ UNCHANGED <<storeVars, board, doc, undo, slots>>

\* disconnect() stores what was already broadcast. editDocBody drops the snapshot when that
\* fails, editBoardScene keeps it; both importers clean up either way.
Flush(j) ==
    /\ job[j].pc = "flush"
    /\ LET r == job[j]
       IN  \/ /\ Set(j, IF r.kind = "replace"
                        THEN [r EXCEPT !.pc = "sweep", !.sweep = r.current, !.status = 200]
                        ELSE Answered(r, 200))
              /\ UNCHANGED <<undo, faults>>
           \/ /\ Fault
              /\ Set(j, Failing(r, 500))
              /\ undo' = IF board THEN undo ELSE {v \in undo : v.by # j}
    /\ UNCHANGED <<rows, objects, board, doc, slots>>

-----------------------------------------------------------------------------
(* Compensation: cleanupCopiedAttachment, cleanupExcalidrawAttachments and *)
(* cleanupReplacedExcalidrawAttachments.                                   *)

\* Mutant of Sweepable: an id found on the board is taken for the board's own.
SweepableAny(j, a) == job[j].status # 200 \/ a \in rows

\* Replaced files: only rows the board owns.
Sweepable(j, a) == job[j].status # 200 \/ (a \in rows /\ DocOf(a) = Here)

Sweep(j) ==
    /\ job[j].pc = "sweep"
    /\ LET r == job[j]
       IN  IF r.sweep = {} THEN Set(j, Answered(r, r.status)) /\ UNCHANGED storeVars
           ELSE LET a == CHOOSE x \in r.sweep : TRUE
                    rest == [r EXCEPT !.sweep = @ \ {a}]
                IN  IF ~Sweepable(j, a) THEN Set(j, rest) /\ UNCHANGED storeVars
                    ELSE \/ Deleted(a) /\ Set(j, rest)
                         \/ DeleteInOrderFails(a) /\ Set(j, Losing(rest, a))
                         \/ /\ r.kind \in Excalidraw /\ r.status # 200
                            /\ DeleteBothFails(a)
                            /\ Set(j, Losing(rest, a))
    /\ UNCHANGED <<board, doc, undo, slots>>

-----------------------------------------------------------------------------
(* The clients.                                                            *)

Edited(refs) ==
    /\ doc.edits < MaxEdits
    /\ doc' = [refs |-> refs, version |-> doc.version + 1, edits |-> doc.edits + 1]

\* The browser PUTs to the presigned URL.
ClientPut(j) ==
    /\ job[j].kind = "presign" /\ job[j].pc = "done" /\ job[j].status = 200
    /\ job[j].made \cap objects = {}
    /\ objects' = objects \cup job[j].made
    /\ UNCHANGED <<rows, faults, jobVars>>

\* What a caller may put in: what its request was answered, or on a board a file record
\* pasted from another one.
Offered ==
    LET mine == {x \in Jobs : /\ job[x].pc = "done" /\ job[x].status = 200
                              /\ job[x].kind \in Uploads \cup {"docx"}}
    IN  (UNION {job[j].made : j \in mine}) \cup (IF board THEN {Elsewhere} \X Parts ELSE {})

ClientEdits ==
    /\ \/ \E a \in Offered \cap Stored : Edited(doc.refs \cup {a})
       \/ \E a \in doc.refs : Edited(doc.refs \ {a})
       \/ \E v \in undo : Edited(v.refs)
    /\ UNCHANGED <<storeVars, board, undo, slots, job>>

JobStep(j) ==
    \/ Start(j) \/ Compile(j) \/ FetchPart(j) \/ PutPart(j) \/ RegisterPart(j) \/ UnputPart(j)
    \/ CheckPart(j) \/ ReadLive(j) \/ Preflight(j) \/ Transaction(j) \/ Apply(j) \/ Flush(j)
    \/ Sweep(j) \/ Answer(j)

Next == (\E j \in Jobs : Arrive(j) \/ ClientPut(j) \/ JobStep(j)) \/ ClientEdits

\* Awaits end: compiles and uploads are timed, the store and the database answer or fail.
Spec == Init /\ [][Next]_vars /\ \A j \in Jobs : WF_vars(JobStep(j))

-----------------------------------------------------------------------------
(* What the document refers to has its row and its object: no request      *)
(* cleans up what somebody still uses (import.ts:161,183,258,263). Except   *)
(* where the code gives it up: the edit was live when its store failed and *)
(* the request cleaned up all the same, or a replaced board's old files    *)
(* come back by undo, restore or paste. And "only delete rows              *)
(* authoritatively owned by the board" (excalidraw.ts:145-147): whatever   *)
(* ids clients put on a board, replacing it leaves the attachments of      *)
(* other documents alone.                                                  *)
GivenUp ==
    LET hits == {x \in Jobs : job[x].hit /\ job[x].status = 500}
        olds == {x \in Jobs : job[x].kind = "replace" /\ job[x].status = 200}
    IN  (UNION {MadeBy(j) : j \in hits}) \cup (UNION {job[j].current : j \in olds})

ReferencedIsStored ==
    /\ doc.refs \subseteq Stored \cup GivenUp
    /\ {Elsewhere} \X Parts \subseteq Stored

(* An import that was meant to apply and was refused, or failed, leaves no *)
(* row and no object behind, whichever step it got to, a lookup of a later *)
(* image included, unless a storage call of its own failed on the way      *)
(* (import.ts:161,183,258,263,351,556).                                    *)
FailedLeavesNothing ==
    \A j \in Jobs :
        job[j].kind \in Applying /\ job[j].pc = "done" /\ job[j].status # 200
            => MadeBy(j) \cap (rows \cup objects) \subseteq job[j].lost

(* A queue's counter is the number of requests between its acquire and its *)
(* release, on every path, never above the limit; nobody waits beside a    *)
(* free slot, and no more than the queue holds wait (importQueue.ts:25-49, *)
(* typstService.ts:59-83, boardExportQueue.ts:23-48).                      *)
Under(q) == {j \in Jobs : q \in QueueOf(job[j].kind) /\ job[j].pc \notin {"waiting", "done"}}

SlotsExact ==
    \A q \in Queues :
        /\ slots[q].active = Cardinality(Under(q))
        /\ slots[q].active <= Limits[q][1]
        /\ slots[q].waiting # <<>> => slots[q].active = Limits[q][1]
        /\ Len(slots[q].waiting) <= Limits[q][2]

(* Every request that came in is answered, also one that had to wait for a *)
(* slot held by work that failed or timed out.                             *)
EveryJobAnswered == \A j \in Jobs : job[j].pc # "new" ~> job[j].pc = "done"
=============================================================================
