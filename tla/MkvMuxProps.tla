---------------------------- MODULE MkvMuxProps ----------------------------
(***************************************************************************)
(* What the write path promises, stated on the output as a reader parses   *)
(* it: a Block belongs to the Segment child that precedes it, its time is  *)
(* that Cluster's Timestamp plus its own offset, and a cue is followed by  *)
(* byte position.                                                          *)
(***************************************************************************)
EXTENDS MkvMux, SequencesExt

\* The element i of the output is a Cluster and the element j one of its
\* Blocks: nothing but Blocks stands between them.
Holds(out, i, j) ==
  /\ i \in DOMAIN out /\ out[i].kind = "Cluster"
  /\ j \in DOMAIN out /\ i < j
  /\ \A k \in i + 1 .. j : out[k].kind = "Block"

TimeOf(out, i, j) == out[i].ts + out[j].off

\* The cue c, followed by a reader, lands on the Block j of the Cluster i: by
\* byte position, by 1-based Block number and by time.
Points(out, c, i, j) ==
  /\ Holds(out, i, j)
  /\ c.cluster_offset = out[i].at - SegmentStart
  /\ c.relative_position = out[j].at - out[i].body
  /\ c.block_number = j - i
  /\ c.track = out[j].track
  /\ c.time_ms = NonNeg(TimeOf(out, i, j))

Blocks == {j \in DOMAIN mux.out : mux.out[j].kind = "Block"}
Clusters == {i \in DOMAIN mux.out : mux.out[i].kind = "Cluster"}
BlocksOf(i) == {j \in Blocks : Holds(mux.out, i, j)}
Pending == {s \in Streams : mux.lace_pending[s].frames # <<>>}

-----------------------------------------------------------------------------
CueRecord == [track : Streams, time_ms : Nat, cluster_offset : Int,
              relative_position : Nat, block_number : Nat \ {0},
              duration_ms : Nat \cup {None}]
Frame == [id : Nat, stream : Streams, ms : Int, end_ms : Int, key : BOOLEAN, size : Nat \ {0}]
Lace == [first_timecode_offset : Int, keyframe : BOOLEAN, bytes : Nat, frames : Seq(Frame)]

CuePoint == [time : Nat, entries : SUBSET CueRecord]

Element ==
  [kind : {"Cluster"}, at : Nat, size : Nat \ {0}, body : Nat, ts : Nat,
   prev_size : Int \cup {None}, position : Int \cup {None}, silent : SUBSET Streams]
  \cup [kind : {"Block"}, at : Nat, size : Nat \ {0}, track : Streams, off : Int,
        key : BOOLEAN, frames : Seq(Frame), ref : Int \cup {None}]
  \cup [kind : {"Tags"}, at : Nat, size : Nat \ {0}]
  \cup [kind : {"Cues"}, at : Nat, size : Nat \ {0}, index : SUBSET CuePoint]

MuxState ==
  [header_written : BOOLEAN, trailer_written : BOOLEAN,
   out : Seq(Element), pos : Nat,
   cluster_open : BOOLEAN, cluster_timecode_ms : Nat, cluster_offset_rel : Int,
   cluster_body_start : Nat, cluster_bytes : Nat, cluster_block_count : Nat,
   prev_cluster_start : Nat \cup {None},
   cue_seen_in_cluster : [Streams -> BOOLEAN],
   cues : Seq(CueRecord),
   lace_pending : [Streams -> Lace],
   stream_pts : [Streams -> Int],
   last_block_pts_ms : [Streams -> Int \cup {None}],
   max_end_ms : Int \cup {None},
   pending_silent_tracks : SUBSET Streams,
   seek_cues : Int \cup {None, Void}, front_slot : Nat \cup {None},
   front_cues : SUBSET CuePoint,
   duration : Nat \cup {None, Void}]

\* Every field of the muxer, every element of the output and every accepted
\* frame has its declared type.
TypeOK == mux \in MuxState /\ accepted \in Seq(Frame) /\ calls \in 0 .. MaxCalls

-----------------------------------------------------------------------------
\* Every Block is inside a Cluster, and its first frame's time is what the
\* reader computes: the Cluster's Timestamp plus the Block's 16-bit offset
\* (write_packet_inner, start_cluster, flush_lace).
DecodesIn(out, j, i) ==
  /\ Holds(out, i, j)
  /\ out[j].frames[1].ms = TimeOf(out, i, j)
  /\ out[j].off \in I16Min .. I16Max

BlocksDecodeToTheirTime == \A j \in Blocks : \E i \in Clusters : DecodesIn(mux.out, j, i)

\* The rules of LacingMode: frames of one Block are of one track and one KEY
\* value, no more than the cap, of one size under fixed-size lacing, and all
\* within the duration budget of the Block's own Cluster.
LacesAreLegal ==
  \A j \in Blocks :
     LET b == mux.out[j] IN
     /\ Len(b.frames) \in 1 .. MaxFramesPerLace
     /\ \A f \in Range(b.frames) :
          /\ f.stream = b.track /\ f.key = b.key
          /\ Lacing = "FixedSize" => f.size = b.frames[1].size
          /\ \E i \in Clusters : Holds(mux.out, i, j) /\ NonNeg(f.ms) - mux.out[i].ts \in 0 .. ClusterMaxMs

\* The loops that flush laces meet at most one pending lace: a packet of
\* another stream flushes it first.  A pending lace belongs to the open Cluster.
OneLacePending ==
  /\ \A s, t \in Pending : s = t
  /\ Pending # {} => mux.cluster_open /\ Lacing # "None"

-----------------------------------------------------------------------------
\* Every recorded cue lands on a Block a decoder can start at, however laces,
\* rotations, BlockGroups and live Tags interleave.
CuesLandOnBlocks ==
  \A n \in DOMAIN mux.cues : \E i \in Clusters, j \in Blocks :
     Points(mux.out, mux.cues[n], i, j) /\ Indexable(mux.out[j].track, mux.out[j].key)

EntryBlocks(i, s) == {j \in BlocksOf(i) : mux.out[j].track = s /\ Indexable(s, mux.out[j].key)}
CuesOf(i, s) == {n \in DOMAIN mux.cues : /\ mux.cues[n].track = s
                                        /\ mux.cues[n].cluster_offset = mux.out[i].at - SegmentStart}

\* Audio and video are indexed once per Cluster, at its first Block a decoder
\* can start at, whichever path wrote that Block.
OneCuePerCluster ==
  \A i \in Clusters, s \in Streams : Media[s] # "Subtitle" =>
     LET entries == EntryBlocks(i, s) IN
     /\ Cardinality(CuesOf(i, s)) = (IF entries = {} THEN 0 ELSE 1)
     /\ \A n \in CuesOf(i, s) : Points(mux.out, mux.cues[n], i, Min(entries))

\* The index a reader finds by following the SeekHead's Cues entry.
FoundIndex ==
  IF mux.seek_cues + SegmentStart = mux.front_slot THEN mux.front_cues
  ELSE UNION {mux.out[j].index : j \in {k \in DOMAIN mux.out :
                mux.out[k].kind = "Cues" /\ mux.out[k].at = mux.seek_cues + SegmentStart}}

\* Once the trailer is written, a reader that follows the SeekHead to the Cues
\* reaches every Cluster that has an entry point; there is no lace left
\* behind; and a file without an index says so (Void entry, or no SeekHead).
SeekableAfterTrailer ==
  mux.trailer_written =>
    /\ Pending = {}
    /\ IF Live \/ mux.cues = <<>>
       THEN /\ mux.seek_cues = IF Live THEN None ELSE Void
            /\ \A j \in DOMAIN mux.out : mux.out[j].kind # "Cues"
       ELSE \A i \in Clusters, s \in Streams :
              EntryBlocks(i, s) # {} =>
                \E p \in FoundIndex : \E c \in p.entries :
                  c.time_ms = p.time /\ Points(mux.out, c, i, Min(EntryBlocks(i, s)))

-----------------------------------------------------------------------------

\* PrevSize is the size of the previous Cluster, so that subtracting it from
\* a Cluster's start lands on the previous Cluster's id.
ExtentEnd(i) == mux.out[Min({k \in DOMAIN mux.out : k > i /\ mux.out[k].kind # "Block"})].at

PrevSizeIsPreviousClusterSize ==
  \A k \in Clusters :
     LET before == {i \in Clusters : i < k} IN
     mux.out[k].prev_size =
       IF ~Hints \/ before = {} THEN None
       ELSE ExtentEnd(Max(before)) - mux.out[Max(before)].at

\* A derived ReferenceBlock names the time of a Block of the same track that
\* is in the file before it (0: unknown), "the most recently written Block".
ReferencesAreWritten ==
  \A i \in Clusters : \A j \in BlocksOf(i) :
     LET b == mux.out[j] IN
     b.ref \in Int /\ (\E k \in Blocks : k < j /\ mux.out[k].track = b.track) =>
       \E h \in Clusters : \E k \in BlocksOf(h) :
         /\ k < j /\ mux.out[k].track = b.track
         /\ TimeOf(mux.out, h, k) = TimeOf(mux.out, i, j) + b.ref
         /\ \A m \in Blocks : k < m /\ m < j => mux.out[m].track # b.track

\* A finalized Duration ends no earlier than any packet in the file.
DurationCoversEveryPacket ==
  mux.trailer_written /\ Finalize =>
    \A i \in DOMAIN accepted : mux.duration # Void /\ mux.duration >= accepted[i].end_ms

\* A SilentTracks list is written in exactly the Cluster opened next: "it is
\* drained when that Cluster's header is written".
SilentListDrained ==
  [][Cardinality(Clusters') > Cardinality(Clusters) =>
       /\ mux'.pending_silent_tracks = {}
       /\ mux'.out[Max(Clusters')].silent = mux.pending_silent_tracks]_vars

-----------------------------------------------------------------------------
\* The muxer implements PacketLog: at most one lace is not yet on disk.
FramesIn(out) == FlattenSeq([j \in DOMAIN out |->
                   IF out[j].kind = "Block" THEN out[j].frames ELSE <<>>])

Log == INSTANCE PacketLog WITH
         Slack <- IF Lacing = "None" THEN 0 ELSE MaxFramesPerLace,
         log <- accepted, disk <- FramesIn(mux.out), closed <- mux.trailer_written

\* Frames reach the file in the order they were accepted, none is lost,
\* duplicated or reordered across tracks, and the trailer leaves none behind.
ImplementsPacketLog == Log!LogSpec
=============================================================================
