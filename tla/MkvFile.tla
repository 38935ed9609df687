------------------------------ MODULE MkvFile ------------------------------
(***************************************************************************)
(* A Matroska file as the demuxer reads it (src/src/demux.rs), and the     *)
(* pure searches it makes in one: the Top-Level resynchronisation scan,    *)
(* the Cluster probes of the Cues-less seek and its linear walk.           *)
(*                                                                         *)
(* f.cells[p + 1] is what read_element_header finds at offset p: an        *)
(* element, or "Bad" where no header parses (inside a payload, or where    *)
(* the file is damaged).  An id+size header is one cell and `size' counts  *)
(* the cells of the body, so a leaf's value sits in its header cell.       *)
(* f.dataEnd is the end the Segment declares, f.first the first Cluster's  *)
(* offset and f.cues the Cues entries.                                     *)
(***************************************************************************)
EXTENDS Integers, Sequences, FiniteSetsExt

CONSTANTS ProbeGap,    \* 2 * PROBE_CHUNK: the gap below which a seek steps instead of halving
          MaxProbes,   \* BISECT_MAX_PROBES
          VetChildren, \* PROBE_VET_CHILDREN
          Far          \* an offset no input reaches: what u64 saturation yields

ASSUME ProbeAssumption ==
  ProbeGap \in Nat /\ MaxProbes \in Nat /\ VetChildren \in Nat \ {0} /\ Far \in Nat

None == -1
Unknown == -1          \* VINT_UNKNOWN_SIZE

NoElement == [id |-> "Bad", size |-> 0]
Bytes == <<NoElement>>
Leaf(id, v) == <<[id |-> id, size |-> 0, v |-> v]>>
Sized(id, body) == <<[id |-> id, size |-> Len(body)]>> \o body

MasterIds == {"SeekHead", "Info", "Tracks", "Tags", "Chapters", "Attachments", "Cues"}
TopLevelIds == MasterIds \cup {"Cluster", "SignatureSlot"}
FirstChildIds ==
  {"Timecode", "Crc", "Position", "PrevSize", "SilentTracks", "SimpleBlock", "BlockGroup",
   "EncryptedBlock"}
ChildIds == FirstChildIds \cup {"Void", "Block", "BlockDuration", "ReferenceBlock"}
BlockIds == {"SimpleBlock", "BlockGroup", "EncryptedBlock", "Block"}

InputLen(f) == Len(f.cells)
Header(f, p) == IF p < InputLen(f) THEN f.cells[p + 1] ELSE NoElement
Parses(h) == h.id # "Bad"

\* Mutant: the size cast to i64, Unknown a step back.
PastSigned(p, n) == p + n
\* The offset after a body of n cells at p, saturating.
Past(p, n) == IF n = Unknown THEN Far ELSE Min({p + n, Far})
\* The offset after the element whose header is at p.
NextAt(f, p) == Past(p + 1, Header(f, p).size)
\* The element whose header is at p has its whole body in the input.
Readable(f, p) == Header(f, p).size # Unknown /\ Past(p + 1, Header(f, p).size) <= InputLen(f)

\* Where a loop that starts at x and goes from d to step[d] meets `stop'.
Until(stop, step, x) ==
  LET W[d \in DOMAIN step] == IF d \in stop THEN d ELSE W[step[d]] IN W[x]

\* What parse_tracks, parse_tags, ... lift from the children in p .. end - 1
\* of a master, by their ids, up to the first child that does not parse, and
\* where they stop.  An "Item" is what such a parser keeps (a TrackEntry, a Tag,
\* a CuePoint ...), "Duration" the Info's; it skips other children by their
\* size.  `rest' is what they lift behind p.
ValueIds == {"Item", "Duration"}
Nothing == [id \in ValueIds |-> <<>>]
LiftTurn(f, p, end, rest) ==
  LET c == Header(f, p) IN
  IF p >= end THEN [values |-> Nothing, err |-> FALSE, to |-> p]
  ELSE IF ~Parses(c) \/ (c.id \in ValueIds /\ ~Readable(f, p))
       THEN [values |-> Nothing, err |-> TRUE, to |-> p]
  ELSE IF c.id \in ValueIds THEN [rest EXCEPT !.values[c.id] = <<c.v>> \o @]
  ELSE rest
Lifted(f, body, end) ==
  LET L[p \in Nat] == LiftTurn(f, p, end, L[NextAt(f, p)]) IN L[body]

\* Mutant: a Cluster of unknown size is not resumed at.
VetTopLevelSized(f, p, end) ==
  LET h == Header(f, p) IN h.size # Unknown /\ Past(p + 1, h.size) <= end
VetTopLevel(f, p, end) ==
  LET h == Header(f, p) IN
  IF h.id = "Cluster" THEN Header(f, p + 1).id \in FirstChildIds
  ELSE h.size # Unknown /\ Past(p + 1, h.size) <= end

\* The first plausible Top-Level element in from .. end - 1, or None.
ScanTopLevel(f, from, end) ==
  LET hits == {p \in from .. end - 1 : Header(f, p).id \in TopLevelIds /\ VetTopLevel(f, p, end)}
  IN  IF hits = {} THEN None ELSE Min(hits)

ClusterEnd(f, p, end) ==
  IF Header(f, p).size = Unknown THEN end ELSE Past(p + 1, Header(f, p).size)

\* The Timestamp among the leading children of a Cluster body, or None.
LeadingTimestamp(f, body, limit) ==
  LET skipped == {"Crc", "Position", "PrevSize", "SilentTracks"}
      Read(p) == IF p < limit /\ Header(f, p).id = "Timecode" /\ Readable(f, p) THEN Header(f, p).v
                 ELSE None
  IN  Read(Until({q \in Nat : q >= limit \/ Header(f, q).id \notin skipped},
                 [q \in Nat |-> NextAt(f, q)], body))

-----------------------------------------------------------------------------
(* A ClusterProbe: where a vetted Cluster starts, its Timestamp, its end.  *)
(* VetCluster judges the Cluster header at p by its children.              *)

NoProbe == [off |-> None, ts |-> None, next |-> None]

VetCluster(f, p, end, tolerate) ==
  LET h == Header(f, p)
      declared == Past(p + 1, h.size)
      limit == IF h.size = Unknown THEN end ELSE Min({declared, end})
      Walk == [at : Nat, seen : Nat]
      Plausible(w) ==
        LET c == Header(f, w.at) IN
        /\ w.at < limit /\ w.seen < VetChildren
        /\ c.size # Unknown /\ NextAt(f, w.at) <= limit /\ c.id \in ChildIds \ BlockIds
      Read(w) == IF Plausible(w) THEN Header(f, w.at).v ELSE None
      Judged(ts) ==
        IF ts = None \/ (h.size # Unknown /\ declared > end /\ ~tolerate) THEN NoProbe
        ELSE [off |-> p, ts |-> ts, next |-> IF h.size = Unknown THEN None ELSE limit]
  IN  Judged(Read(Until({x \in Walk : ~Plausible(x) \/ Header(f, x.at).id = "Timecode"},
                        [x \in Walk |-> [at |-> NextAt(f, x.at), seen |-> x.seen + 1]],
                        [at |-> p + 1, seen |-> 0])))

\* A real Cluster is followed by a Top-Level element, a Void or the end.
ConfirmBoundary(f, c, end) ==
  \/ c.next = None \/ c.next >= end
  \/ Header(f, c.next).id \in TopLevelIds \cup {"Void"}

\* Mutant: the first vetted Cluster, whatever follows it.
ProbeFromUnconfirmed(f, from, scanEnd, end, tolerate, trusted) ==
  LET hits == {p \in from .. Min({scanEnd, end}) - 1 :
                 Header(f, p).id = "Cluster" /\ VetCluster(f, p, end, tolerate) # NoProbe}
  IN  IF hits = {} THEN NoProbe ELSE VetCluster(f, Min(hits), end, tolerate)
\* The first Cluster from there on that is vetted and confirmed, or trusted.
ProbeFrom(f, from, scanEnd, end, tolerate, trusted) ==
  LET Confirmed(p, c) == c # NoProbe /\ (p = trusted \/ ConfirmBoundary(f, c, end))
      First(hits) == IF hits = {} THEN NoProbe ELSE VetCluster(f, Min(hits), end, tolerate)
  IN  First({p \in from .. Min({scanEnd, end}) - 1 :
               Header(f, p).id = "Cluster" /\ Confirmed(p, VetCluster(f, p, end, tolerate))})

-----------------------------------------------------------------------------
(* Cues-less landings: [off, ts, how]; off = None when nothing was found.  *)

NoLanding == [off |-> None, ts |-> None, how |-> "None"]

\* Mutant: the last Cluster.
LinearScanLast(f, end, target) ==
  LET off == Max({p \in 0 .. end - 1 : Header(f, p).id = "Cluster"})
  IN  [off |-> off, ts |-> LeadingTimestamp(f, off + 1, Far), how |-> "LinearScan"]

\* seek_by_cluster_scan: walk the Top-Level elements, keep the last Cluster
\* at or before the target, stop at the first one past it.
LinearScan(f, end, target) ==
  LET Walk == [at : Nat \cup {None}, best : [off : Nat \cup {None}, ts : Int]]
      Bounded(p) == Min({NextAt(f, p), end})
      Ts(p) == LET h == Header(f, p) IN
               IF h.id # "Cluster" THEN None
               ELSE LeadingTimestamp(f, p + 1, IF h.size = Unknown THEN end ELSE Bounded(p))
      Better(ts, best) == ts # None /\ (ts <= target \/ best.off = None)
      Behind(p, ts) == LET h == Header(f, p) IN
                       IF ts # None /\ ts >= target THEN None
                       ELSE IF Parses(h) /\ h.size # Unknown THEN Bounded(p)
                       ELSE ScanTopLevel(f, p + 1, end)
      Walked(x, ts) == [at |-> Behind(x.at, ts),
                        best |-> IF Better(ts, x.best) THEN [off |-> x.at, ts |-> ts] ELSE x.best]
      Landing(best) == IF best.off = None THEN NoLanding
                       ELSE [off |-> best.off, ts |-> best.ts, how |-> "LinearScan"]
  IN  Landing(Until({x \in Walk : x.at = None \/ x.at >= end},
                    [x \in Walk |-> Walked(x, Ts(x.at))],
                    [at |-> f.first, best |-> [off |-> None, ts |-> None]]).best)

\* seek_cueless: lo is the last confirmed Cluster at or before the target,
\* every Cluster at or past hi is after it (hiTs: the first of those seen).
Bisect(f, end, target, tolerate) ==
  LET Bracket == [lo : [off : Nat, ts : Int, next : Nat \cup {None}], hi : Nat, hiTs : Int, probes : Nat]
      LoNext(s) == IF s.lo.next = None THEN s.lo.off + 1 ELSE s.lo.next
      Narrow(s) == s.hi - LoNext(s) <= ProbeGap
      From(s) == IF Narrow(s) THEN LoNext(s) ELSE LoNext(s) + (s.hi - LoNext(s)) \div 2
      Probed(s) == ProbeFrom(f, From(s), s.hi, end, tolerate, IF Narrow(s) THEN s.lo.next ELSE None)
      Settled(s) == target <= s.lo.ts \/ LoNext(s) >= s.hi \/ s.probes >= MaxProbes
      Contradicts(s, c) == c # NoProbe /\ (c.ts < s.lo.ts \/ (s.hiTs # None /\ c.ts > s.hiTs))
      Ends(s, c) == \/ Settled(s) \/ Contradicts(s, c)
                    \/ c = NoProbe /\ From(s) = LoNext(s)
      Halved(s, c) ==
        IF c = NoProbe THEN [lo |-> s.lo, hi |-> From(s), hiTs |-> s.hiTs, probes |-> s.probes + 1]
        ELSE IF c.ts <= target THEN [lo |-> c, hi |-> s.hi, hiTs |-> s.hiTs, probes |-> s.probes + 1]
        ELSE [lo |-> s.lo, hi |-> c.off, hiTs |-> c.ts, probes |-> s.probes + 1]
      Landing(s) ==
        IF ~Settled(s) /\ Contradicts(s, Probed(s)) THEN LinearScan(f, end, target)
        ELSE [off |-> s.lo.off, ts |-> s.lo.ts, how |-> "Bisection"]
      Searched(first) ==
        IF first = NoProbe THEN LinearScan(f, end, target)
        ELSE Landing(Until({x \in Bracket : Ends(x, Probed(x))},
                           [x \in Bracket |-> Halved(x, Probed(x))],
                           [lo |-> first, hi |-> end, hiTs |-> None, probes |-> 0]))
  IN  IF f.first = None THEN NoLanding
      ELSE Searched(ProbeFrom(f, f.first, end, end, tolerate, f.first))

=============================================================================
