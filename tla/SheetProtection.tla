--------------------------- MODULE SheetProtection ---------------------------
(***************************************************************************)
(* Who may write where on a spreadsheet that has protection rules          *)
(* (src/agent/sheetConversion.ts, assertSheetWriteAllowed). Rules and      *)
(* grants are written by browsers; the server reads whatever is there. A   *)
(* rule is a record: the sheet its key names (NoSheet when the key cannot  *)
(* be attributed), whether its value is an object, its permission (NoOne   *)
(* when it carries none), its kind, and its ranges: a set of rectangles    *)
(* <<row, column, row, column>>, in the order stored, or of Junk.          *)
(***************************************************************************)
EXTENDS Integers, FiniteSets

CONSTANTS NoSheet, DefaultSheet, NoOne, Junk

\* A key names its surface, its sheet and a place in it: cells <<row, column, spelling>>,
\* dims <<axis, index>>, merges <<row, column, row, column>>, links and drawings <<id>>,
\* and tabs nothing.
SheetOf(key) == IF key.on = "dims" /\ key.sheet = NoSheet THEN DefaultSheet ELSE key.sheet

Smaller(a, b) == IF a < b THEN a ELSE b
Larger(a, b) == IF a < b THEN b ELSE a

\* Mutant of Normal: an inverted rectangle is kept as stored, and holds no cell.
NormalAsStored(r) == r

Normal(r) == <<Smaller(r[1], r[3]), Smaller(r[2], r[4]), Larger(r[1], r[3]), Larger(r[2], r[4])>>

Overlaps(a, b) == a[1] <= b[3] /\ b[1] <= a[3] /\ a[2] <= b[4] /\ b[2] <= a[4]

-----------------------------------------------------------------------------
(* readRects: what of a rule's ranges can be read, and whether all can.    *)

Legible(r) == r # Junk /\ Normal(r)[3] >= 0 /\ Normal(r)[4] >= 0
Rects(rule) == {Normal(r) : r \in {x \in rule.ranges : Legible(x)}}

\* Mutant of Malformed: one good rectangle is enough.
MalformedAll(rule) == \A r \in rule.ranges : ~Legible(r)

Malformed(rule) == \E r \in rule.ranges : ~Legible(r)

-----------------------------------------------------------------------------
(* assertSheetWriteAllowed: the permissions that lock the document, a      *)
(* sheet, and a rectangle of a sheet. Nobody is ever granted NoOne.        *)

Permission(rule) == IF rule.object THEN rule.permission ELSE NoOne

\* Mutant of DocWide: a key that names no sheet is taken for a sheet of its own.
DocWideNone(rules) == {}

DocWide(rules) == {Permission(rule) : rule \in {x \in rules : x.sheet = NoSheet}}

LocksSheet(rule) ==
    \/ Permission(rule) = NoOne
    \/ rule.kind = "worksheet"
    \/ Malformed(rule)
    \/ Rects(rule) = {}

Whole(rules, sheet) ==
    {Permission(rule) : rule \in {x \in rules : x.sheet = sheet /\ sheet # NoSheet /\ LocksSheet(x)}}

Guarded(rules, sheet) ==
    UNION {{[rect |-> r, permission |-> rule.permission] : r \in Rects(rule)} :
           rule \in {x \in rules : x.sheet = sheet /\ sheet # NoSheet /\ ~LocksSheet(x)}}

\* grants[p]: the allow list of permission p. Without a record nobody is granted.
Permitted(grants, p, uid) == p \in DOMAIN grants /\ uid \in grants[p]

\* Mutant of Crosses: a merge is refused only when the rectangle holds all of it.
CrossesInside(key, rect) ==
    CASE key.on = "cells" -> Overlaps(<<key.at[1], key.at[2], key.at[1], key.at[2]>>, rect)
      [] key.on = "dims" -> IF key.at[1] = "c" THEN key.at[2] \in rect[2]..rect[4]
                            ELSE key.at[2] \in rect[1]..rect[3]
      [] key.on = "merges" -> rect[1] <= key.at[1] /\ key.at[3] <= rect[3]
                              /\ rect[2] <= key.at[2] /\ key.at[4] <= rect[4]
      [] key.on = "tabs" -> TRUE

Crosses(key, rect) ==
    CASE key.on = "cells" -> Overlaps(<<key.at[1], key.at[2], key.at[1], key.at[2]>>, rect)
      [] key.on = "dims" -> IF key.at[1] = "c" THEN key.at[2] \in rect[2]..rect[4]
                            ELSE key.at[2] \in rect[1]..rect[3]
      [] key.on = "merges" -> Overlaps(key.at, rect)
      [] key.on = "tabs" -> TRUE

\* Links and drawings are not gated.
Blocked(rules, grants, uid, key) ==
    /\ key.on \in {"cells", "dims", "merges", "tabs"}
    /\ \/ \E p \in DocWide(rules) : ~Permitted(grants, p, uid)
       \/ \E p \in Whole(rules, SheetOf(key)) : ~Permitted(grants, p, uid)
       \/ \E g \in Guarded(rules, SheetOf(key)) :
            Crosses(key, g.rect) /\ ~Permitted(grants, g.permission, uid)

WriteAllowed(rules, grants, uid, isAdmin, keys) ==
    isAdmin \/ \A key \in keys : ~Blocked(rules, grants, uid, key)
=============================================================================
