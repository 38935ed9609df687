---------------------------- MODULE MkvValidate ----------------------------
(***************************************************************************)
(* The two document walkers of the crate: schema::validate                 *)
(* (src/src/schema.rs) and webm::scan (src/src/webm.rs).  Both read a flat *)
(* sequence of elements and rebuild its structure: a sized master ends     *)
(* where its size says, a Segment or Cluster of unknown size where an      *)
(* element that cannot be inside it begins.                                *)
(*                                                                         *)
(* A report keeps the set of <<kind, element>> findings instead of their   *)
(* offsets and counts, and whether the walk had to stop (scan_stopped_at). *)
(***************************************************************************)
EXTENDS MkvSchema, MkvElement, FiniteSets

CONSTANT MaxDepth     \* MAX_SCHEMA_DEPTH and webm::MAX_DEPTH

NoVersion   == -1         \* no DocTypeVersion met
EmptyReport == [findings |-> {}, stopped |-> FALSE, ver |-> NoVersion, doctype |-> "",
                scanned |-> 0]

Fault(cond, kind) == IF cond THEN {kind} ELSE {}
Finding(rep, kinds, id) == [rep EXCEPT !.findings = @ \cup (kinds \X {id})]
\* Bug: a damaged header ends the walk without a trace.
StopQuietly(rep) == rep
Stop(rep) == [rep EXCEPT !.stopped = TRUE]

Informational == {"UnknownId", "KnownLegacy", "Deprecated", "VersionMismatch"}
Violations(rep) == {f \in rep.findings : f[1] \notin Informational}
IsValid(rep)    == Violations(rep) = {} /\ ~rep.stopped

\* Bug: an open Cluster only ends where another Cluster begins.
EndsUnknownSizeAtItsLike(parent, id) == parent = id
EndsUnknownSize(parent, id) ==
  \/ parent = "Segment" /\ id = "Segment"
  \/ parent = "Cluster" /\ \/ id = "Segment"
                           \/ id \in DOMAIN Def /\ Def[id].parent = "Segment"

Placed(d, parent) ==
  \/ d.parent = Global
  \/ d.parent = parent
  \/ d.name \in Recursive /\ parent = d.name

Times(seen, id) == Cardinality({k \in DOMAIN seen : seen[k] = id})

\* A master being walked: its ID, whether its size is unknown, its level and
\* the IDs met in it so far.
In(id, open, depth) == [id |-> id, open |-> open, depth |-> depth, seen |-> <<>>]

\* Identity and placement of one element.
IdentityFaults(e, m, ver) ==
  IF e.id \notin DOMAIN Def
  THEN {IF e.id \in LegacySignature THEN "KnownLegacy" ELSE "UnknownId"}
  ELSE LET d == Def[e.id]
       IN Fault(~Placed(d, m.id), "WrongParent")
          \cup Fault(e.id = "CRC-32" /\ m.seen # <<>>, "MisplacedCrc32")
          \cup Fault(IsDeprecated(d), "Deprecated")
          \cup Fault(ver # NoVersion /\ d.minver > ver /\ d.minver # 0, "VersionMismatch")
          \cup Fault(Times(m.seen, e.id) + 1 > d.max, "TooManyOccurrences")
Identify(e, m, rep) ==
  Finding([rep EXCEPT !.scanned = @ + 1], IdentityFaults(e, m, rep.ver), e.id)

\* Type shape, length and range of a leaf, and the two values kept of it.
BadShape(d, e) ==
  \/ d.fits.on = "octets" /\ e.octets \notin d.fits.lo .. d.fits.hi
  \/ d.type \in {"uint", "int"} /\ e.octets > 8
  \/ d.type = "float" /\ e.octets \notin {0, 4, 8}
  \/ d.type = "date" /\ e.octets \notin {0, 8}
OutOfRange(d, e) ==
  /\ d.type \in {"uint", "int", "float"} /\ d.fits.on = "value"
  /\ e.val \notin d.fits.lo .. d.fits.hi
Kept(e, rep) ==
  CASE e.id = "DocTypeVersion" -> [rep EXCEPT !.ver = e.val]
    [] e.id = "DocType" /\ rep.doctype = "" -> [rep EXCEPT !.doctype = e.text]
    [] OTHER -> rep
CheckLeaf(d, e, rep) ==
  IF BadShape(d, e) THEN Finding(rep, {"BadLength"}, e.id)
  ELSE Finding(Kept(e, rep), Fault(OutOfRange(d, e), "OutOfRange"), e.id)

\* The values of an atom's own ChapterSkipType (the first one counts), and
\* the check that no atom repeats the nearest value above it.
Own(kids, id) == {k \in DOMAIN kids : /\ kids[k].id = id
                                      /\ \A j \in 1 .. k - 1 : kids[j].id # id}
RECURSIVE SkipRepeated(_, _, _)
SkipRepeated(kids, inherited, depth) ==
  /\ depth < MaxDepth
  /\ \A k \in DOMAIN kids : kids[k].octets \notin {Unknown, Overrun}
  /\ LET own == {kids[k].val : k \in Own(kids, "ChapterSkipType")}
         eff == IF own = {} THEN inherited ELSE own
     IN \/ own # {} /\ own = inherited
        \/ \E k \in DOMAIN kids : /\ kids[k].id = "ChapterAtom"
                                  /\ SkipRepeated(kids[k].kids, eff, depth + 1)

\* A cleanly walked master reports its missing mandatory children.
Close(m, rep) ==
  IF m.id = Root THEN rep
  ELSE [rep EXCEPT !.findings = @ \cup
          ({"MissingMandatory"} \X (Required[m.id] \ {m.seen[k] : k \in DOMAIN m.seen}))]

\* A walk is at an index of the element sequence with the report so far.
At(i, rep) == [next |-> i, rep |-> rep]

Unreadable(e) == \/ e.octets = Overrun
                 \/ e.octets = Unknown /\ e.id \notin UnknownSizeAllowed

\* walk_master: where it ends and the report it leaves.
RECURSIVE Walk(_, _, _)
RECURSIVE Visit(_, _, _, _)
RECURSIVE Past(_, _, _, _, _)
RECURSIVE Inside(_, _, _)
Walk(doc, at, m) ==
  IF at.next > Len(doc) THEN At(at.next, Close(m, at.rep))
  ELSE Visit(doc, at, m, doc[at.next])
\* One turn of its loop; `e' is the element it stands before.
Visit(doc, at, m, e) ==
  CASE e.id = Torn.id -> At(Len(doc) + 1, Stop(at.rep))
    [] e.id # Torn.id /\ m.open /\ EndsUnknownSize(m.id, e.id) ->
         At(at.next, Close(m, at.rep))
    [] OTHER ->
         IF Unreadable(e)
         THEN At(Len(doc) + 1,
                 Stop(Finding(Identify(e, m, at.rep),
                              Fault(e.octets = Unknown, "UnknownSizeNotAllowed"), e.id)))
         ELSE Walk(doc, Past(doc, at.next, m, e, Identify(e, m, at.rep)),
                   [m EXCEPT !.seen = Append(@, e.id)])
\* What is behind an element of unknown size is walked as its body.
Past(doc, i, m, e, here) ==
  IF e.octets = Unknown THEN Walk(doc, At(i + 1, here), In(e.id, TRUE, m.depth + 1))
  ELSE At(i + 1, Inside(e, m, here))
\* The value of a leaf or the descent into a sized master.
Inside(e, m, rep) ==
  CASE e.id \in Masters /\ m.depth < MaxDepth ->
         Finding(Walk(e.kids, At(1, rep), In(e.id, FALSE, m.depth + 1)).rep,
                 Fault(/\ e.id = "ChapterAtom" /\ m.id # "ChapterAtom"
                       /\ SkipRepeated(e.kids, {}, 0), "ChapterSkipTypeNesting"),
                 "ChapterSkipType")
    [] e.id \in DOMAIN Def \ Masters -> CheckLeaf(Def[e.id], e, rep)
    [] e.id \in LegacySignatureMasters /\ m.depth < MaxDepth ->
         Walk(e.kids, At(1, rep), In(Root, FALSE, m.depth + 1)).rep
    [] OTHER -> rep

WithDefaultVersion(rep) ==
  [rep EXCEPT !.ver = IF @ = NoVersion /\ rep.doctype # "" THEN 1 ELSE @]
Validate(doc) ==
  WithDefaultVersion(Walk(doc, At(1, EmptyReport), In(Root, FALSE, 0)).rep)

-----------------------------------------------------------------------------
(* The WebM scanner. *)

TopLevel == {"SeekHead", "Info", "Tracks", "Cluster", "Cues", "Attachments",
             "Chapters", "Tags", "Segment"}
EndsOpen(id) == IF id = "Segment" THEN {"Segment"} ELSE TopLevel

\* Bug: Deprecated elements pass as Supported.
RecordUnsupported(rep, id) ==
  Finding([rep EXCEPT !.scanned = @ + 1], {WebmSupport(id)} \cap {"Unsupported"}, id)
Record(rep, id) ==
  Finding([rep EXCEPT !.scanned = @ + 1], {WebmSupport(id)} \ {"Supported"}, id)

\* walk_children; `until' is the set of IDs that ends an open master.
RECURSIVE ScanFrom(_, _, _, _)
RECURSIVE ScanPast(_, _, _, _, _)
RECURSIVE ScanInside(_, _, _)
ScanFrom(doc, at, until, depth) ==
  IF at.next > Len(doc) THEN at
  ELSE LET e == doc[at.next]
       IN CASE e.id = Torn.id -> At(at.next, Stop(at.rep))
            [] e.id # Torn.id /\ e.id \in until -> at
            [] OTHER ->
                 IF \/ e.octets = Overrun
                    \/ e.octets = Unknown /\ e.id \notin {"Segment", "Cluster"}
                 THEN At(at.next, Stop(Record(at.rep, e.id)))
                 ELSE ScanFrom(doc, ScanPast(doc, at.next, e, depth, Record(at.rep, e.id)),
                               until, depth)
ScanPast(doc, i, e, depth, here) ==
  IF e.octets = Unknown THEN ScanFrom(doc, At(i + 1, here), EndsOpen(e.id), depth + 1)
  ELSE At(i + 1, ScanInside(e, depth, here))
ScanInside(e, depth, rep) ==
  CASE e.id \in WebmMasters /\ depth < MaxDepth ->
         ScanFrom(e.kids, At(1, rep), {}, depth + 1).rep
    [] e.id = "DocType" /\ depth > 0 /\ rep.doctype = "" ->
         [rep EXCEPT !.doctype = e.text]
    [] OTHER -> rep

Scan(doc) == ScanFrom(doc, At(1, EmptyReport), {}, 0).rep

IsConformant(rep) ==
  /\ rep.doctype = "webm" /\ ~rep.stopped
  /\ \A f \in rep.findings : f[1] \notin {"Unsupported", "Deprecated"}

=============================================================================
