-------------------------- MODULE MkvValidateProps --------------------------
(***************************************************************************)
(* What the document walkers report, against the tree the document was     *)
(* made from.  A tree shows the children of every master, those of         *)
(* unknown size included; Flatten takes that structure away as the bytes   *)
(* do, and the walkers have to find it again.                              *)
(***************************************************************************)
EXTENDS MkvValidate, SequencesExt

CONSTANTS Documents,     \* the trees to check
          NotRun

VARIABLES doc, report, scan
vars == <<doc, report, scan>>

RECURSIVE Flatten(_)
Flatten(nodes) ==
  FlattenSeq([k \in DOMAIN nodes |->
    IF nodes[k].octets = Unknown
    THEN <<OpenMaster(nodes[k].id)>> \o Flatten(nodes[k].kids)
    ELSE <<[nodes[k] EXCEPT !.kids = Flatten(@)]>>])

Init == doc \in Documents /\ report = NotRun /\ scan = NotRun

RunValidate ==
  /\ report = NotRun
  /\ report' = Validate(Flatten(doc))
  /\ UNCHANGED <<doc, scan>>

RunScan ==
  /\ scan = NotRun
  /\ scan' = Scan(Flatten(doc))
  /\ UNCHANGED <<doc, report>>

Next == RunValidate \/ RunScan
Spec == Init /\ [][Next]_vars

-----------------------------------------------------------------------------
(* Every occurrence of an element in the tree: where, under which master,  *)
(* after which siblings, and the chapter atoms around it, outermost first. *)
RECURSIVE Occurrences(_, _, _, _)
Occurrences(nodes, parent, path, atoms) ==
  UNION {LET n == nodes[k]
             around == IF n.id = "ChapterAtom" THEN Append(atoms, n) ELSE atoms
         IN {[node |-> n, parent |-> parent, path |-> Append(path, k),
              elders |-> {nodes[j].id : j \in 1 .. k - 1},
              same |-> Cardinality({j \in 1 .. k : nodes[j].id = n.id}),
              atoms |-> atoms]}
            \cup Occurrences(n.kids, n.id, Append(path, k), around) :
         k \in DOMAIN nodes}
Tree == Occurrences(doc, Root, <<>>, <<>>)

Damaged == \E o \in Tree : \/ o.node.octets = Overrun
                           \/ o.node.octets = Unknown /\ o.node.id \notin UnknownSizeAllowed

Known == {o \in Tree : o.node.id \in DOMAIN Def}
Row(o) == Def[o.node.id]
Faulty(kind, occurrences) == {<<kind, o.node.id>> : o \in occurrences}

SkipTypes(n) == {n.kids[k].val : k \in Own(n.kids, "ChapterSkipType")}
Setters(atoms) == {a \in DOMAIN atoms : SkipTypes(atoms[a]) # {}}
\* The nearest atom around the one that owns this element has its value too.
RepeatsSkipType(o) ==
  /\ o.node.id = "ChapterSkipType" /\ o.parent = "ChapterAtom"
  /\ LET above == Setters(Front(o.atoms))
     IN above # {} /\ o.node.val \in SkipTypes(o.atoms[Max(above)])

Faults ==
  Faulty("WrongParent", {o \in Known : ~Placed(Row(o), o.parent)})
    \cup Faulty("MisplacedCrc32", {o \in Known : o.node.id = "CRC-32" /\ o.elders # {}})
    \cup Faulty("TooManyOccurrences", {o \in Known : o.same > Row(o).max})
    \cup Faulty("BadLength", {o \in Known : /\ o.node.id \notin Masters
                                            /\ BadShape(Row(o), o.node)})
    \cup Faulty("OutOfRange", {o \in Known : /\ ~BadShape(Row(o), o.node)
                                             /\ OutOfRange(Row(o), o.node)})
    \cup Faulty("ChapterSkipTypeNesting", {o \in Known : RepeatsSkipType(o)})
    \cup {<<"MissingMandatory", m>> : m \in
            UNION {Required[o.node.id] \ Range([k \in DOMAIN o.node.kids |-> o.node.kids[k].id])
                   : o \in {p \in Known : p.node.id \in Masters}}}

-----------------------------------------------------------------------------
\* schema::validate finds in the flat document exactly the faults of the
\* tree: a master of unknown size ends where it should, so no element is
\* charged to the wrong parent, counted with the wrong siblings, or missed.
FindsTheFaultsOfTheTree ==
  report # NotRun /\ ~Damaged => Violations(report) = Faults

\* Any damage stops both walks, and neither calls the document good.
DamageIsNeverGood ==
  Damaged => /\ report # NotRun => report.stopped /\ ~IsValid(report)
             /\ scan # NotRun => scan.stopped /\ ~IsConformant(scan)

\* The two walkers have structure rules of their own; on a document without
\* damage they visit the same elements and end up with the same DocType.
WalkersAgree ==
  report # NotRun /\ scan # NotRun /\ ~Damaged =>
    /\ ~report.stopped /\ ~scan.stopped
    /\ report.scanned = scan.scanned
    /\ report.scanned = Cardinality(Tree)
    /\ report.doctype = scan.doctype

\* The scan's verdict is the guidelines' verdict on the elements of the tree.
ConformantIffClean ==
  scan # NotRun /\ ~Damaged =>
    (IsConformant(scan) <=>
       /\ scan.doctype = "webm"
       /\ \A o \in Tree : WebmSupport(o.node.id) \in {"Supported", "Unlisted"})

=============================================================================
