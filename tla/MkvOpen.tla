------------------------------ MODULE MkvOpen ------------------------------
(***************************************************************************)
(* Opening a Segment (open_impl of src/src/demux.rs): the walk over the    *)
(* Top-Level masters in front of the first Cluster, its recovery from      *)
(* damage, the SeekHead targets behind the Clusters, the check that there  *)
(* are tracks; then scan_for_cues and the two audits.  The demuxer that    *)
(* comes out is MkvDemux.                                                  *)
(*                                                                         *)
(* Offset 0 is the Segment's data start.  Beyond MkvFile, f.declared is    *)
(* the size the Segment's header declares.  In a master's body an "Item"   *)
(* carries in v what its parser lifts: [id, at] from a Seek, a Cues entry  *)
(* from a CuePoint; one Item of Tracks stands for all the TrackEntries.    *)
(* A first child "Crc" carries in v the cells it was computed over.        *)
(***************************************************************************)
EXTENDS MkvDemux

VARIABLES
  phase,          \* "start", "walk", "chase", "open" or "failed"; "write": no file yet
  found,          \* what the masters yielded, by their ids (and "Duration")
  crcs,           \* crc_status of the masters
  chase           \* the SeekHead targets still to follow

opening == <<phase, found, crcs, chase>>
demuxer == <<state, queue, records, floor, strategy, call, history>>

Blank ==
  /\ found = [id \in MasterIds \cup {"Duration"} |-> <<>>]
  /\ crcs = <<>> /\ chase = <<>>

\* The Segment header: where its data ends, and whether the input ends first.
OpenSegment ==
  /\ phase = "start"
  /\ phase' = "walk" /\ pos' = 0
  /\ file' = [file EXCEPT !.dataEnd = IF file.declared = Unknown THEN InputLen(file)
                                      ELSE file.declared]
  /\ damage' = IF Resilient /\ file.declared > InputLen(file)
               THEN <<[kind |-> "SegmentTruncated", offset |-> InputLen(file), resumedAt |-> None]>>
               ELSE <<>>
  /\ UNCHANGED <<found, crcs, chase, tags, metadata, demuxer>>

-----------------------------------------------------------------------------
(* The walk over the Top-Level elements up to the first Cluster.           *)

\* validate_top_level_crc of the master at p: no status without a checksum.
Checksum(f, p) ==
  LET body == SubSeq(f.cells, p + 2, p + 1 + Header(f, p).size)
  IN  IF body # <<>> /\ body[1].id = "Crc"
      THEN <<[id |-> Header(f, p).id, valid |-> body[1].v = Tail(body)]>>
      ELSE <<>>

\* What the master at p yields.  The checksum of a master of known size is
\* looked for in its whole body, which must be there.
MasterAt(f, p, end) ==
  IF Header(f, p).size = Unknown THEN Lifted(f, p + 1, end)
  ELSE IF Readable(f, p) THEN Lifted(f, p + 1, Past(p + 1, Header(f, p).size))
  ELSE [values |-> Nothing, err |-> TRUE, to |-> p + 1]

\* found with what a master yielded, up to the error if there is one.
LiftedInto(id, r) ==
  [found EXCEPT ![id] = @ \o r.values["Item"], !["Duration"] = @ \o r.values["Duration"]]

Walking == phase = "walk" /\ pos < SegmentEnd

\* Mutant: any damage ends the walk.
RecoverAtGivingUp(kind, to) ==
  IF ~Resilient
  THEN phase' = "failed" /\ UNCHANGED <<pos, damage>>
  ELSE damage' = Reported(kind, pos, None) /\ phase' = "chase" /\ UNCHANGED pos
\* Recovery while opening: strict gives up; resilient goes on at `to', or
\* stops the walk where there is no such place.
RecoverAt(kind, to) ==
  IF ~Resilient
  THEN phase' = "failed" /\ UNCHANGED <<pos, damage>>
  ELSE /\ damage' = Reported(kind, pos, to)
       /\ IF to = None THEN phase' = "chase" /\ UNCHANGED pos
          ELSE pos' = to /\ UNCHANGED phase

\* Where the walk goes on after the damaged element here.
PastDamage ==
  IF Here.size # Unknown /\ AfterHere <= SegmentEnd THEN AfterHere
  ELSE ScanTopLevel(file, pos + 2, SegmentEnd)

ReadMaster ==
  /\ Walking /\ Here.id \in MasterIds
  /\ \E r \in {MasterAt(file, pos, SegmentEnd)} :
       /\ found' = LiftedInto(Here.id, r)
       /\ IF r.err THEN RecoverAt("DamagedMaster", PastDamage)
          ELSE pos' = r.to /\ UNCHANGED <<phase, damage>>
  /\ crcs' = IF Readable(file, pos) THEN crcs \o Checksum(file, pos) ELSE crcs
  /\ UNCHANGED <<file, chase, tags, metadata, demuxer>>

\* Any other element is stepped over, if its size is known.
StepOver ==
  /\ Walking /\ Parses(Here) /\ Here.id \notin MasterIds \cup {"Cluster"}
  /\ IF Here.size = Unknown THEN RecoverAt("DamagedMaster", PastDamage)
     ELSE pos' = AfterHere /\ UNCHANGED <<phase, damage>>
  /\ UNCHANGED <<file, found, crcs, chase, tags, metadata, demuxer>>

StepOverGarbage ==
  /\ Walking /\ ~Parses(Here)
  /\ RecoverAt("GarbageData", ScanTopLevel(file, pos + 1, SegmentEnd))
  /\ UNCHANGED <<file, found, crcs, chase, tags, metadata, demuxer>>

-----------------------------------------------------------------------------
(* The masters behind the Clusters.                                        *)

ChaseIds == {"Cues", "Tags", "Chapters", "Attachments"}

\* Mutant: also what the walk has already read.
ToFollowAll ==
  SelectSeq(found.SeekHead, LAMBDA s : s.id \in ChaseIds /\ s.at < SegmentEnd)
\* The first Seek entry of each kind the walk has not met that points at or
\* behind the first Cluster.
ToFollow ==
  LET Wanted(s) == s.id \in ChaseIds /\ found[s.id] = <<>> /\ s.at >= pos /\ s.at < SegmentEnd
      Joined(list, s) ==
        IF Wanted(s) /\ \A t \in Range(list) : t.id # s.id THEN Append(list, s) ELSE list
      F[n \in 0 .. Len(found.SeekHead)] ==
        IF n = 0 THEN <<>> ELSE Joined(F[n - 1], found.SeekHead[n])
  IN  F[Len(found.SeekHead)]

\* The walk ends at the first Cluster or at the Segment's end.
StopWalk ==
  /\ phase = "walk"
  /\ pos >= SegmentEnd \/ Here.id = "Cluster"
  /\ phase' = "chase"
  /\ IF pos >= SegmentEnd THEN UNCHANGED <<file, chase>>
     ELSE file' = [file EXCEPT !.first = pos] /\ chase' = ToFollow
  /\ UNCHANGED <<pos, damage, found, crcs, tags, metadata, demuxer>>

\* A well-formed master of the promised kind, in the Segment, is at s.at.
Holds(s) ==
  /\ Header(file, s.at).id = s.id /\ Readable(file, s.at)
  /\ Past(s.at + 1, Header(file, s.at).size) <= SegmentEnd
  /\ ~MasterAt(file, s.at, SegmentEnd).err

\* Mutant: a target that is not there is tried again.
FollowTargetAgain ==
  /\ phase = "chase" /\ chase # <<>> /\ Holds(Head(chase))
  /\ LET t == Head(chase) IN
     /\ found' = LiftedInto(t.id, MasterAt(file, t.at, SegmentEnd))
     /\ crcs' = crcs \o Checksum(file, t.at)
  /\ chase' = Tail(chase)
  /\ UNCHANGED <<input, phase, damage, tags, metadata, demuxer>>

\* follow_seek_target: all of the master, or nothing.
FollowTarget ==
  /\ phase = "chase" /\ chase # <<>>
  /\ LET t == Head(chase) IN
     IF Holds(t)
     THEN /\ found' = LiftedInto(t.id, MasterAt(file, t.at, SegmentEnd))
          /\ crcs' = crcs \o Checksum(file, t.at)
     ELSE UNCHANGED <<found, crcs>>
  /\ chase' = Tail(chase)
  /\ UNCHANGED <<input, phase, damage, tags, metadata, demuxer>>

\* The demuxer starts at the first Cluster.  Without a track there is none.
\* (The Cues are not sorted here: BestCue takes them in order.)
FinishOpen ==
  /\ phase = "chase" /\ chase = <<>>
  /\ IF found.Tracks = <<>>
     THEN phase' = "failed" /\ UNCHANGED <<input, tags, metadata>>
     ELSE LET info == found.Info \o found.Chapters \o found.Attachments IN
          /\ phase' = "open"
          /\ file' = [file EXCEPT !.cues = found.Cues, !.info = info, !.tags = found.Tags,
                                  !.live = file.declared = Unknown /\ found.SeekHead = <<>>]
          /\ pos' = IF file.first = None THEN SegmentEnd ELSE file.first
          /\ tags' = found.Tags /\ metadata' = info \o found.Tags
  /\ UNCHANGED <<found, crcs, chase, damage, demuxer>>

OpenStep ==
  ReadMaster \/ StepOver \/ StepOverGarbage \/ StopWalk \/ FollowTarget \/ FinishOpen

-----------------------------------------------------------------------------
(* scan_for_cues.                                                          *)

\* walk_unknown_cluster: the end of the unknown-size Cluster body at p, as
\* far as its children are of the kinds it knows.
PlainChildIds ==
  {"Timecode", "SimpleBlock", "BlockGroup", "Block", "BlockDuration", "ReferenceBlock", "Void", "Crc"}
UnknownClusterEnd(f, body, end) ==
  LET W[p \in Nat] ==
        LET c == Header(f, p) IN
        IF p >= end \/ ~Parses(c) THEN None
        ELSE IF c.id \notin PlainChildIds THEN p
        ELSE IF c.size = Unknown \/ Past(p + 1, c.size) > end THEN None
        ELSE W[Past(p + 1, c.size)]
  IN  W[body]

\* scan_cues_from: the offset of the first Cues at or behind p the walk over
\* whole elements reaches; None: there is none, Far: a header does not parse.
CuesBehind(f, from, end) ==
  LET W[p \in Nat \cup {None}] ==
        LET h == Header(f, p) IN
        IF p = None \/ p >= end THEN None
        ELSE IF ~Parses(h) THEN Far
        ELSE IF h.id = "Cues" THEN IF h.size = Unknown \/ Past(p + 1, h.size) <= end THEN p ELSE None
        ELSE IF h.size # Unknown
             THEN IF Past(p + 1, h.size) <= end THEN W[Past(p + 1, h.size)] ELSE None
        ELSE IF h.id = "Cluster" THEN W[UnknownClusterEnd(f, p + 1, end)]
        ELSE None
  IN  W[from]

\* A caller looks for Cues the SeekHead does not name; the position stays.
ScanForCues ==
  /\ phase = "open" /\ MaySeek
  /\ file.cues = <<>> /\ file.first # None
  /\ \E p \in {CuesBehind(file, file.first, SegmentEnd)} :
       LET r == MasterAt(file, p, SegmentEnd) IN
       IF p \in {None, Far} THEN UNCHANGED <<file, crcs>>
       ELSE /\ file' = IF r.err THEN file ELSE [file EXCEPT !.cues = r.values["Item"]]
            /\ crcs' = IF Readable(file, p) THEN crcs \o Checksum(file, p) ELSE crcs
  /\ seeks' = seeks + 1
  /\ UNCHANGED <<pos, stream, strategy, call, last, given, landing, phase, found, chase>>

-----------------------------------------------------------------------------
(* audit_cues and audit_seek_head: they restore the position, so what they *)
(* find is an operator.                                                    *)

\* count_cluster_blocks
BlocksIn(f, body, end) ==
  LET C[p \in Nat] ==
        LET c == Header(f, p)
            one == IF c.id \in {"SimpleBlock", "BlockGroup"} THEN 1 ELSE 0 IN
        IF p >= end \/ ~Parses(c) THEN 0
        ELSE IF Past(p + 1, c.size) > end THEN one
        ELSE one + C[Past(p + 1, c.size)]
  IN  C[body]

\* The audit finds nothing wrong with this cue.
CueIsTrue(cue) ==
  LET end == ClusterEnd(file, cue.off, SegmentEnd)
      at == Past(cue.off + 1, cue.rel)
  IN  /\ cue.track \in DOMAIN TrackIndex
      /\ ~Lies(cue)
      /\ end <= SegmentEnd
      /\ cue.rel # None => at < end /\ Header(file, at).id \in {"SimpleBlock", "BlockGroup"}
      /\ cue.num # None => cue.num > 0 /\ BlocksIn(file, cue.off + 1, end) >= cue.num

\* Nor with this Seek entry.
SeekIsTrue(s) == s.at # None /\ s.at < SegmentEnd /\ Header(file, s.at).id = s.id
=============================================================================
