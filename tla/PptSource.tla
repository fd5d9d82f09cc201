------------------------------ MODULE PptSource ------------------------------
(***************************************************************************)
(* GET /api/v1/ppt/docs/:docId/source (src/api/ppt/source.ts,              *)
(* pptDocGuard.ts, src/ppt/source.ts): how a request about a deck is       *)
(* answered: a function of the request, the deck's row and the caller's    *)
(* role, in the order in which the handler checks them.                    *)
(***************************************************************************)
EXTENDS Naturals

Modes == {"published", "live", "draft"}
Formats == {"bootstrap", "bento", "html"}
Statuses == {"active", "archived", "deleted"}
Roles == {"none", "reader", "commenter", "writer", "admin"}

\* A query parameter that is none of the listed values is "bad". Where every origin is let in
\* (CORS_ALLOWED_ORIGINS=*), each is "allowed".
SourceRequests ==
    [mode : Modes \cup {"bad"}, format : Formats \cup {"bad"},
     version : {"absent", "latest", "number", "bad"},
     origin : {"absent", "allowed", "other"}]

\* The row of a document id, or that there is none.
NoDeck == [status |-> "missing"]
DeckRows == [status : Statuses, space : {"own", "other"}, ppt : BOOLEAN]

Refused(code, about) == [status |-> code, about |-> about]

\* parseMode, parseFormat, parseVersion: any explicit version is for published only.
BadRequest(req) ==
    \/ req.mode = "bad"
    \/ req.format = "bad"
    \/ req.version # "absent" /\ (req.mode # "published" \/ req.version = "bad")

BadField(req) ==
    CASE req.mode = "bad" -> "mode"
      [] req.mode # "bad" /\ req.format = "bad" -> "format"
      [] OTHER -> "version"

WriterRoles == {"writer", "admin"}

\* MODE_MIN_ROLE through roleAtLeast.
MeetsFloor(mode, role) ==
    IF mode = "published" THEN role # "none" ELSE role \in WriterRoles

CacheOfMode(req) == IF req.mode = "published" THEN "no-cache" ELSE "no-store"

\* applyCacheHeaders: only a published source that is not a bootstrap may be kept.
CacheOf(req) ==
    IF req.mode = "published" /\ req.format # "bootstrap" THEN "no-cache" ELSE "no-store"

\* Only a bootstrap speaks of its reader.
Served(req, role) ==
    [status |-> 200, cache |-> CacheOf(req),
     role |-> IF req.format = "bootstrap" THEN role ELSE "none",
     editable |-> req.format = "bootstrap" /\ req.mode # "published" /\ role \in WriterRoles]

\* loadPptDocForRead, with what it throws.
GuardRefusal(row) ==
    CASE row.status \in {"missing", "deleted"} -> Refused(404, "document")
      [] row.status \notin {"missing", "deleted"} /\ row.space # "own" -> Refused(404, "document")
      [] row.status = "archived" /\ row.space = "own" -> Refused(409, "archived")
      [] OTHER -> Refused(422, "type")

GuardPasses(row) == row.status = "active" /\ row.space = "own" /\ row.ppt

\* SourceAnswer with the source looked up before the role is checked.
SourceAnswerContentFirst(req, row, role, content) ==
    IF BadRequest(req) THEN Refused(400, BadField(req))
    ELSE IF ~GuardPasses(row) THEN GuardRefusal(row)
    ELSE IF req.mode \notin content.modes THEN Refused(404, "source")
    ELSE IF ~MeetsFloor(req.mode, role) THEN Refused(403, "role")
    ELSE IF req.origin = "other" THEN Refused(403, "origin")
    ELSE IF req.format = "html" /\ ~content.html THEN Refused(404, "html")
    ELSE Served(req, role)

(* content: the sources the provider has for the deck, and whether a       *)
(* rendered page comes with them.                                          *)
SourceAnswer(req, row, role, content) ==
    IF BadRequest(req) THEN Refused(400, BadField(req))
    ELSE IF ~GuardPasses(row) THEN GuardRefusal(row)
    ELSE IF ~MeetsFloor(req.mode, role) THEN Refused(403, "role")
    ELSE IF req.origin = "other" THEN Refused(403, "origin")
    ELSE IF req.mode \notin content.modes THEN Refused(404, "source")
    ELSE IF req.format = "html" /\ ~content.html THEN Refused(404, "html")
    ELSE Served(req, role)

\* defaultPptSourceProvider: draft and live are the stored deck, nothing is published yet.
StoredContent == [modes |-> {"draft", "live"}, html |-> FALSE]
Contents == [modes : SUBSET Modes, html : BOOLEAN]

-----------------------------------------------------------------------------
(* Who may not read a source learns nothing of it: the refusal is the same *)
(* whatever the deck has; in another space, or deleted, a deck is answered *)
(* for like one that never was (pptDocGuard.ts:13-16). And what a browser  *)
(* may keep is the same for every reader of it (source.ts:178-196).        *)
SourceExact(req, row, role, content) ==
    LET answer == SourceAnswer(req, row, role, content)
        allowed == role \in WriterRoles \/ (role # "none" /\ req.mode = "published")
    IN  /\ ~allowed =>
             answer.status # 200 /\ \A c \in Contents : SourceAnswer(req, row, role, c) = answer
        /\ row.status # "missing" /\ (row.status = "deleted" \/ row.space = "other") =>
             answer = SourceAnswer(req, NoDeck, role, content)
        /\ answer.status = 200 /\ answer.cache # "no-store" =>
             \A r \in Roles \ {"none"} : SourceAnswer(req, row, r, content) = answer
=============================================================================
