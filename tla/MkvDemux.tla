------------------------------ MODULE MkvDemux ------------------------------
(***************************************************************************)
(* Packet reading and seeking of MkvDemuxer (src/src/demux.rs): the        *)
(* advance loop under next_packet, BlockGroups, resynchronisation after    *)
(* damage, mid-stream Tags, Cluster records and the four ways a seek_to    *)
(* lands.  One call of next_packet is several steps, one per turn of its   *)
(* loop, so that "the call returns" is a property and not a premise.       *)
(*                                                                         *)
(* The last group of variables only records history for the properties.    *)
(***************************************************************************)
EXTENDS MkvFile, SequencesExt

CONSTANTS
  Files,          \* [names -> files]: those that may be opened
  TrackIndex,     \* [track numbers -> stream indices]: the declared tracks
  Targets,        \* pts values a caller may seek to
  Slack,          \* how far a Cluster's Timestamp may exceed a CueTime it serves
  MaxSeeks        \* bound on the seeks of a behaviour

\* A file as the model tells offsets apart: none reaches Far, the frames of a
\* Block are counted, times and positions are numbers, and what is listed as
\* a Cluster is one (once the file is open, one of the Segment).  Nothing is said of the order or the nesting
\* of the cells.
LegalFile(f) ==
  /\ InputLen(f) \in 0 .. Far /\ DOMAIN f.cells = 1 .. InputLen(f)
  /\ \A i \in DOMAIN f.cells :
       /\ f.cells[i].size \in Nat \cup {Unknown}
       /\ f.cells[i].id \in {"SimpleBlock", "Block"} => f.cells[i].frames \in Nat
       /\ f.cells[i].id = "Timecode" => f.cells[i].v \in Int
  /\ f.dataEnd \in 0 .. Far /\ f.first \in (0 .. Far) \cup {None}
  /\ f.resilient \in BOOLEAN
  /\ f.cues \in Seq(Range(f.cues))
  /\ \A cue \in Range(f.cues) :
       cue.time \in Int /\ cue.off \in 0 .. Far /\ cue.rel \in Nat \cup {None} /\ cue.num \in Nat \cup {None}
  /\ \A c \in f.clusters : /\ c \in Nat /\ Header(f, c).id = "Cluster"
                           /\ f.first # None => c < f.dataEnd

ASSUME FilesAssumption == \A n \in DOMAIN Files : LegalFile(Files[n])
ASSUME TargetsAssumption == Targets \subseteq Int

VARIABLES
  file,           \* the file that is open (see MkvFile)
  pos,            \* input.stream_position()
  state,          \* cluster_state: Idle, or the Cluster being walked
  queue,          \* out_queue
  records,        \* [body offsets -> ClusterRecord]
  floor,          \* resync_floor
  damage,         \* damage_events of the Cluster stream and of seeks
  tags,           \* the entries of the Tags in force (tag_metadata_entries)
  metadata,       \* the flat metadata
  strategy,       \* last_seek_strategy
  call,           \* "idle", or "next" inside next_packet
  (* history *)
  last,           \* how the last call ended: "open", "packet", "eof", "err"
  given,          \* packets returned since the last seek
  landing,        \* that seek: [off, landed (time returned), wanted (time asked for), track]
  seeks           \* seeks made

input == <<file, pos>>
stream == <<state, queue, records, floor, damage, tags, metadata>>
history == <<last, given, landing, seeks>>
vars == <<input, stream, strategy, call, history>>

Idle == [in |-> "Idle"]
InCluster(start, end, tc) == [in |-> "Cluster", start |-> start, end |-> end, tc |-> tc]

\* Opened with open_resilient.
Resilient == file.resilient

SegmentEnd == IF Resilient THEN Min({file.dataEnd, InputLen(file)}) ELSE file.dataEnd

NoRecord == [position |-> None, prevSize |-> None, silent |-> <<>>, encrypted |-> 0]

\* A demuxer on f that has read nothing yet.
Fresh(f) ==
  /\ file = f
  /\ pos = IF file.first = None THEN SegmentEnd ELSE file.first
  /\ state = Idle /\ queue = <<>> /\ floor = 0 /\ damage = <<>>
  /\ records = [p \in {} |-> NoRecord]
  /\ tags = file.tags /\ metadata = file.info \o file.tags
  /\ strategy = "None" /\ call = "idle"
  /\ last = "open" /\ given = <<>> /\ seeks = 0
  /\ landing = [off |-> 0, landed |-> 0, wanted |-> 0, track |-> None]

Init == \E n \in DOMAIN Files : Fresh(Files[n])

-----------------------------------------------------------------------------
(* Blocks into packets.                                                    *)

\* The Block's header fits its body and, for a declared track, its lacing
\* parses.  The track is looked up before the lacing is read.
BlockParses(b) == /\ b.defect # "Header"
                  /\ b.track \in DOMAIN TrackIndex => b.defect # "Lacing"

\* pkt.flags.keyframe = keyframe_flag || default_keyframe.
KeyFlag(b, default) == b.key \/ default

\* queue_block_packets_with: the frames of Block b, whose header is at p.
Packets(b, p, tc, default, duration) ==
  IF b.track \notin DOMAIN TrackIndex THEN <<>>
  ELSE LET perFrame == IF duration = None THEN None ELSE duration \div Max({b.frames, 1})
       IN  [i \in 1 .. b.frames |->
              [stream |-> TrackIndex[b.track], at |-> p, frame |-> i,
               pts |-> tc + b.off + (IF perFrame = None THEN 0 ELSE perFrame * (i - 1)),
               duration |-> perFrame, key |-> KeyFlag(b, default)]]

\* parse_block_group's walk of the children in p .. end - 1: the last Block
\* and BlockDuration win, a ReferenceBlock clears the keyframe.  `rest' is
\* what the children behind p yield.
GroupTurn(f, p, end, rest) ==
  LET c == Header(f, p) IN
  IF p >= end THEN [err |-> FALSE, block |-> None, duration |-> None, key |-> TRUE, to |-> p]
  ELSE IF ~Parses(c) \/ (c.id # "Void" /\ ~Readable(f, p))
       THEN [err |-> TRUE, block |-> None, duration |-> None, key |-> TRUE, to |-> p]
  ELSE CASE c.id = "Block" /\ rest.block = None -> [rest EXCEPT !.block = p]
         [] c.id = "BlockDuration" /\ rest.duration = None -> [rest EXCEPT !.duration = c.v]
         [] c.id = "ReferenceBlock" -> [rest EXCEPT !.key = FALSE]
         [] OTHER -> rest
Group(f, body, end) ==
  LET G[p \in Nat] == GroupTurn(f, p, end, G[NextAt(f, p)]) IN G[body]

-----------------------------------------------------------------------------
(* One turn of next_packet's loop.                                         *)

Here == Header(file, pos)
AfterHere == Past(pos + 1, Here.size)

Turn == call = "next" /\ queue = <<>>
AtTop == Turn /\ state = Idle /\ pos < SegmentEnd
Inside == Turn /\ state.in = "Cluster" /\ pos < state.end

\* advance returned Ok(()) with the reader at p.
Advanced(p) == pos' = p /\ UNCHANGED <<file, floor, damage, strategy, call, history>>

NextPacket ==
  /\ call = "idle" /\ (~Resilient => last # "err")
  /\ call' = "next"
  /\ UNCHANGED <<input, stream, strategy, history>>

ReturnPacket ==
  /\ call = "next" /\ queue # <<>>
  /\ queue' = Tail(queue)
  /\ call' = "idle" /\ last' = "packet" /\ given' = Append(given, Head(queue))
  /\ UNCHANGED <<input, state, records, floor, damage, tags, metadata, strategy, landing, seeks>>

EndOfSegment ==
  /\ Turn /\ state = Idle /\ pos >= SegmentEnd
  /\ call' = "idle" /\ last' = "eof"
  /\ UNCHANGED <<input, stream, strategy, given, landing, seeks>>

\* Mutant: a Cluster met again starts over.
RegisteredAnew(body) ==
  [p \in DOMAIN records \cup {body} |-> IF p = body THEN NoRecord ELSE records[p]]

\* register_cluster_record: once per body offset.
Registered(body) ==
  IF body \in DOMAIN records THEN records
  ELSE [p \in DOMAIN records \cup {body} |-> IF p = body THEN NoRecord ELSE records[p]]

WalkEnd(p) ==
  LET end == ClusterEnd(file, p, SegmentEnd)
  IN  IF Resilient THEN Min({end, SegmentEnd}) ELSE end

OpenCluster ==
  /\ AtTop /\ Here.id = "Cluster"
  /\ records' = Registered(pos + 1)
  /\ state' = InCluster(pos + 1, WalkEnd(pos), 0)
  /\ Advanced(pos + 1)
  /\ UNCHANGED <<queue, tags, metadata>>

\* Mutant: Info entries equal to a Tags entry go as well.
WithoutAll(list, old) == SelectSeq(list, LAMBDA e : e \notin Range(old))

\* The entries of `old' taken out of `list', one occurrence each.
Without(list, old) == FoldLeft(RemoveFirst, list, old)

\* apply_mid_stream_tags: the new element's tags replace the old ones; an
\* unknown-size or malformed one is skipped and resets nothing.
ApplyTags ==
  /\ AtTop /\ Here.id = "Tags"
  /\ LET read == Lifted(file, pos + 1, AfterHere)
         entries == read.values["Item"] IN
     IF Here.size = Unknown \/ read.err
     THEN /\ UNCHANGED <<tags, metadata>>
          /\ Advanced(AfterHere)
     ELSE /\ metadata' = Without(metadata, tags) \o entries
          /\ tags' = entries
          /\ Advanced(read.to)
  /\ UNCHANGED <<state, queue, records>>

SkipTopLevel ==
  /\ AtTop /\ Parses(Here) /\ Here.id \notin {"Cluster", "Tags"}
  /\ Advanced(AfterHere)
  /\ UNCHANGED <<state, queue, records, tags, metadata>>

LeaveCluster ==
  /\ Turn /\ state.in = "Cluster" /\ pos >= state.end
  /\ state' = Idle
  /\ Advanced(pos)
  /\ UNCHANGED <<queue, records, tags, metadata>>

\* A Segment child ends an unknown-size Cluster: leave the reader on it.
LeaveAtTopLevel ==
  /\ Inside /\ Here.id \in TopLevelIds \ {"SignatureSlot"}
  /\ state' = Idle
  /\ Advanced(pos)
  /\ UNCHANGED <<queue, records, tags, metadata>>

ReadTimecode ==
  /\ Inside /\ Here.id = "Timecode" /\ Readable(file, pos)
  /\ state' = [state EXCEPT !.tc = Here.v]
  /\ Advanced(AfterHere)
  /\ UNCHANGED <<queue, records, tags, metadata>>

RecordIds == {"Position", "PrevSize", "SilentTracks", "EncryptedBlock"}

\* set_cluster_position and set_cluster_prev_size replace;
\* set_cluster_silent_tracks and push_cluster_encrypted_block append.
Recorded(r, h) ==
  CASE h.id = "Position" -> [r EXCEPT !.position = h.v]
    [] h.id = "PrevSize" -> [r EXCEPT !.prevSize = h.v]
    [] h.id = "SilentTracks" -> [r EXCEPT !.silent = @ \o h.v]
    [] h.id = "EncryptedBlock" -> [r EXCEPT !.encrypted = @ + 1]

ReadRecord ==
  /\ Inside /\ Here.id \in RecordIds
  /\ Readable(file, pos)
  /\ records' = [records EXCEPT ![state.start] = Recorded(@, Here)]
  /\ Advanced(AfterHere)
  /\ UNCHANGED <<state, queue, tags, metadata>>

ReadSimpleBlock ==
  /\ Inside /\ Here.id = "SimpleBlock" /\ Readable(file, pos) /\ BlockParses(Here)
  /\ queue' = Packets(Here, pos, state.tc, TRUE, None)
  /\ Advanced(AfterHere)
  /\ UNCHANGED <<state, records, tags, metadata>>

HereGroup == Group(file, pos + 1, AfterHere)

ReadBlockGroup ==
  /\ Inside /\ Here.id = "BlockGroup"
  /\ ~HereGroup.err
  /\ LET g == HereGroup
         b == Header(file, g.block) IN
     /\ g.block # None => BlockParses(b)
     /\ queue' = IF g.block = None THEN <<>>
                 ELSE Packets(b, g.block, state.tc, g.key, g.duration)
     /\ Advanced(g.to)
  /\ UNCHANGED <<state, records, tags, metadata>>

LeafIds == RecordIds \cup {"Timecode", "SimpleBlock"}

SkipChild ==
  /\ Inside /\ Parses(Here)
  /\ Here.id \notin LeafIds \cup {"BlockGroup"} \cup (TopLevelIds \ {"SignatureSlot"})
  /\ Advanced(AfterHere)
  /\ UNCHANGED <<state, queue, records, tags, metadata>>

\* advance returns an error: no header parses here, a value is cut short, or
\* a Block's own header or lacing is malformed.
AdvanceFails ==
  \/ (AtTop \/ Inside) /\ ~Parses(Here)
  \/ Inside /\ Here.id \in LeafIds /\ ~Readable(file, pos)
  \/ Inside /\ Here.id = "SimpleBlock" /\ Readable(file, pos) /\ ~BlockParses(Here)
  \/ /\ Inside /\ Here.id = "BlockGroup"
     /\ \/ HereGroup.err
        \/ HereGroup.block # None /\ ~BlockParses(Header(file, HereGroup.block))

ResyncFrom == Max({pos + 1, floor})

\* Mutant: the tail is dropped without a word.
ReportedUnlessTail(kind, at, to) ==
  IF to = None THEN damage ELSE Append(damage, [kind |-> kind, offset |-> at, resumedAt |-> to])
\* The DamageEvents once damage at `at' was left for `to' (None: the end).
Reported(kind, at, to) ==
  Append(damage, [kind |-> IF to = None THEN "UnrecoverableTail" ELSE kind,
                  offset |-> at, resumedAt |-> to])

\* Mutant: a Cluster with a damaged Timestamp is read on, at time 0.
ResyncPastTimestamp ==
  /\ Resilient /\ AdvanceFails
  /\ LET stay == state.in = "Cluster" /\ pos = state.start
         to == IF stay THEN pos + 1 ELSE ScanTopLevel(file, ResyncFrom, SegmentEnd) IN
     /\ state' = IF stay THEN state ELSE Idle
     /\ damage' = Reported("ClusterStream", pos, to)
     /\ pos' = IF to = None THEN SegmentEnd ELSE to
  /\ UNCHANGED <<file, queue, records, floor, tags, metadata, strategy, call, history>>

\* resync_cluster_stream: resume at the next Top-Level element, or give the
\* rest of the Segment up.
Resync ==
  /\ Resilient /\ AdvanceFails
  /\ state' = Idle
  /\ LET to == ScanTopLevel(file, ResyncFrom, SegmentEnd) IN
     /\ damage' = Reported("ClusterStream", pos, to)
     /\ pos' = IF to = None THEN SegmentEnd ELSE to
     /\ floor' = IF to = None THEN floor ELSE to + 1
  /\ UNCHANGED <<file, queue, records, tags, metadata, strategy, call, history>>

\* A strict demuxer returns the error; its callers stop reading there.
FailPacket ==
  /\ ~Resilient /\ AdvanceFails
  /\ call' = "idle" /\ last' = "err"
  /\ UNCHANGED <<input, stream, strategy, given, landing, seeks>>

LoopTurn ==
  \/ ReturnPacket \/ EndOfSegment \/ OpenCluster \/ ApplyTags \/ SkipTopLevel
  \/ LeaveCluster \/ LeaveAtTopLevel \/ ReadTimecode \/ ReadRecord \/ ReadSimpleBlock
  \/ ReadBlockGroup \/ SkipChild \/ Resync \/ FailPacket

-----------------------------------------------------------------------------
(* seek_to.                                                                *)

\* stream_pts_to_ticks for the Segment's own time base.
Ticks(pts) == Max({pts, 0})

\* Mutant: the first cue at or after the target.
BestCueAfter(track, ticks) ==
  LET late == {i \in DOMAIN file.cues : file.cues[i].track = track /\ file.cues[i].time >= ticks}
      all == {i \in DOMAIN file.cues : file.cues[i].track = track}
  IN  file.cues[IF late # {} THEN CHOOSE i \in late : \A j \in late : file.cues[i].time <= file.cues[j].time
                ELSE CHOOSE i \in all : TRUE]

\* The cue seek_to picks: among a track's cues in (time, storage) order the
\* last at or before the target, else the first.
BestCue(track, ticks) ==
  LET before(i, j) == file.cues[i].time < file.cues[j].time
                      \/ (file.cues[i].time = file.cues[j].time /\ i < j)
      all == {i \in DOMAIN file.cues : file.cues[i].track = track}
      early == {i \in all : file.cues[i].time <= ticks}
  IN  file.cues[IF early # {}
                THEN CHOOSE i \in early : \A j \in early \ {i} : before(j, i)
                ELSE CHOOSE i \in all : \A j \in all \ {i} : before(i, j)]

\* cue_landing_lie: no Cluster there, or one too late for the CueTime.
Lies(cue) ==
  \/ cue.off >= SegmentEnd
  \/ Header(file, cue.off).id # "Cluster"
  \/ LeadingTimestamp(file, cue.off + 1, Min({ClusterEnd(file, cue.off, SegmentEnd), SegmentEnd}))
       > cue.time + Slack

\* Where a cue inside the Cluster at `off' puts the reader: [at, tc], at = off
\* when it degrades to a walk from the Cluster's header.
Degraded(off) == [at |-> off, tc |-> 0]

\* Mutant: the position counted from the Cluster's header.
RelativeLandingFromHeader(off, rel) == [at |-> off + rel, tc |-> LeadingTimestamp(file, off + 1, Far)]

\* The Timestamp in force behind the child at w.at, w.tc before it.
TcPast(w) == IF Header(file, w.at).id = "Timecode" THEN Header(file, w.at).v ELSE w.tc

\* apply_cue_relative_position
RelativeLanding(off, rel) ==
  LET end == ClusterEnd(file, off, SegmentEnd)
      target == Past(off + 1, rel)
      Walk == [at : Nat, tc : Int]
      Reached(w) == IF target > end \/ w.at < target THEN Degraded(off) ELSE [w EXCEPT !.at = target]
  IN  Reached(Until({x \in Walk : \/ x.at >= target
                                \/ ~Parses(Header(file, x.at)) \/ NextAt(file, x.at) > end},
                  [x \in Walk |-> [at |-> NextAt(file, x.at), tc |-> TcPast(x)]],
                  [at |-> off + 1, tc |-> 0]))

\* apply_cue_block_number
NumberedLanding(off, n) ==
  LET end == ClusterEnd(file, off, SegmentEnd)
      Walk == [at : Nat, tc : Int, left : Int]
      IsBlock(p) == Header(file, p).id \in {"SimpleBlock", "BlockGroup"}
      Reached(w) == IF n # 0 /\ w.at < end /\ IsBlock(w.at) /\ w.left = 1
                    THEN [at |-> w.at, tc |-> w.tc] ELSE Degraded(off)
  IN  Reached(Until({x \in Walk : \/ x.at >= end \/ ~Parses(Header(file, x.at))
                                  \/ IsBlock(x.at) /\ x.left = 1
                                  \/ NextAt(file, x.at) > end},
                    [x \in Walk |-> [at |-> NextAt(file, x.at), tc |-> TcPast(x),
                                    left |-> IF IsBlock(x.at) THEN x.left - 1 ELSE x.left]],
                    [at |-> off + 1, tc |-> 0, left |-> n]))

CueLanding(cue) ==
  IF Header(file, cue.off).id # "Cluster" THEN Degraded(cue.off)
  ELSE IF cue.rel # None THEN RelativeLanding(cue.off, cue.rel)
  ELSE IF cue.num # None THEN NumberedLanding(cue.off, cue.num)
  ELSE Degraded(cue.off)

\* Mutant: frames queued before the seek survive it.
LandedKeepingQueue(p, ticks, how, track, pts) ==
  /\ pos' = p /\ strategy' = how
  /\ given' = <<>> /\ last' = "open" /\ seeks' = seeks + 1
  /\ landing' = [off |-> p, landed |-> ticks, wanted |-> Ticks(pts), track |-> track]
  /\ UNCHANGED <<file, queue, floor, tags, metadata, call>>

\* The seek succeeded: reset_after_seek, the reader at p.
Landed(p, ticks, how, track, pts) ==
  /\ pos' = p /\ queue' = <<>> /\ strategy' = how
  /\ given' = <<>> /\ last' = "open" /\ seeks' = seeks + 1
  /\ landing' = [off |-> p, landed |-> ticks, wanted |-> Ticks(pts), track |-> track]
  /\ UNCHANGED <<file, floor, tags, metadata, call>>

MaySeek == call = "idle" /\ seeks < MaxSeeks

HasCues(track) == \E i \in DOMAIN file.cues : file.cues[i].track = track

\* The index is trusted: open the Cluster at the Block the cue names, or
\* leave the reader at the Cluster's header.
SeekByCue(track, pts) ==
  /\ MaySeek /\ HasCues(track)
  /\ \E cue \in {BestCue(track, Ticks(pts))} : \E l \in {CueLanding(cue)} :
     /\ Resilient => ~Lies(cue)
     /\ cue.rel # None \/ cue.num \notin {None, 0} => Parses(Header(file, cue.off))
     /\ IF l.at = cue.off
        THEN state' = Idle /\ UNCHANGED records
        ELSE /\ state' = InCluster(cue.off + 1, ClusterEnd(file, cue.off, SegmentEnd), l.tc)
             /\ records' = Registered(cue.off + 1)
     /\ Landed(l.at, cue.time, "Cues", track, pts)
  /\ UNCHANGED damage

\* A strict demuxer reads the Cluster's header after the jump and the reset:
\* the error leaves it there.
SeekFails(track, pts) ==
  /\ MaySeek /\ HasCues(track) /\ ~Resilient
  /\ \E cue \in {BestCue(track, Ticks(pts))} :
     /\ cue.rel # None \/ cue.num \notin {None, 0}
     /\ ~Parses(Header(file, cue.off))
     /\ pos' = cue.off
  /\ state' = Idle /\ queue' = <<>> /\ strategy' = "Cues"
  /\ last' = "err" /\ given' = <<>> /\ seeks' = seeks + 1
  /\ UNCHANGED <<file, records, floor, damage, tags, metadata, call, landing>>

\* seek_cueless: with no Cues at all, or (resilient) past a cue that lies.
SeekCueless(track, pts) ==
  /\ MaySeek
  /\ \/ file.cues = <<>> /\ (Resilient \/ ~file.live)
     \/ Resilient /\ HasCues(track) /\ Lies(BestCue(track, Ticks(pts)))
  /\ \E l \in {Bisect(file, SegmentEnd, Ticks(pts), Resilient)} :
     /\ l.off # None
     /\ damage' = IF file.cues = <<>> THEN damage
                  ELSE Append(damage, [kind |-> "CueLie", offset |-> BestCue(track, Ticks(pts)).off,
                                       resumedAt |-> l.off])
     /\ Landed(l.off, l.ts, l.how, track, pts)
  /\ state' = Idle
  /\ UNCHANGED records

SeekTo == \E track \in DOMAIN TrackIndex, pts \in Targets :
            SeekByCue(track, pts) \/ SeekFails(track, pts) \/ SeekCueless(track, pts)

Next == NextPacket \/ LoopTurn \/ SeekTo

Spec == Init /\ [][Next]_vars

\* next_packet is a loop on the caller's thread: it keeps turning.
FairSpec == Spec /\ WF_vars(LoopTurn)
=============================================================================
