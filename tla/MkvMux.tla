------------------------------- MODULE MkvMux -------------------------------
(***************************************************************************)
(* The write path of MkvMuxer (src/src/mux.rs): write_header, the three    *)
(* write_packet entry points with their lacing and Cluster rotation, live  *)
(* Tags, SilentTracks and write_trailer.                                   *)
(*                                                                         *)
(* The output is the sequence of the elements written after the header     *)
(* masters, each with its absolute position, so that every offset the      *)
(* muxer records (CueClusterPosition, CueRelativePosition, PrevSize, the   *)
(* SeekHead's Cues entry) can be compared with where things really are.    *)
(* Sizes are abstract: an id+size header is one unit, a frame has its own  *)
(* size.  Clusters have unknown size, so a Block belongs to whatever       *)
(* Segment child precedes it (see Parent in MkvMuxProps).                  *)
(*                                                                         *)
(* A handler is an operator on the muxer's state: helpers take the state   *)
(* `w' and return the new one, in the order the code calls them.           *)
(***************************************************************************)
EXTENDS Integers, Sequences, FiniteSets

CONSTANTS
  Streams,            \* stream indices; a stream's TrackNumber is its index
  Media,              \* [Streams -> {"Video", "Audio", "Subtitle"}]
  Scale,              \* [Streams -> [mul, div]]: ms per tick of the time base
  Lacing,             \* "None", "Xiph", "Ebml" or "FixedSize"
  MaxFramesPerLace,   \* MAX_FRAMES_PER_LACE
  ClusterMaxMs,       \* cluster_max_ms
  ClusterMaxBytes,    \* cluster_max_bytes
  I16Min, I16Max,     \* range of a Block's signed 16-bit timestamp
  Live,               \* live_streaming
  Strict,             \* webm_strict
  Hints,              \* cluster_position_hints
  Finalize,           \* duration_finalization
  FrontReserved,      \* front_cues_reserved, 0 for None
  SegmentStart,       \* segment_data_start
  HeadSize,           \* bytes of SeekHead, Info, Tracks, ... before the slot
  Packets,            \* the packets a caller may write
  SilentLists,        \* the lists a caller may queue as SilentTracks
  Disciplined,        \* the caller writes header, packets, trailer in order
  MaxCalls,           \* bound on the calls of one behaviour
  None, Void          \* Option::None; a reserved slot still holding its Void

ASSUME StreamsAssumption ==
  /\ IsFiniteSet(Streams) /\ Streams \subseteq Nat
  /\ Media \in [Streams -> {"Video", "Audio", "Subtitle"}]
  /\ Scale \in [Streams -> [mul : Nat, div : Nat \ {0}]]

ASSUME ConfigAssumption ==
  /\ Lacing \in {"None", "Xiph", "Ebml", "FixedSize"}
  /\ MaxFramesPerLace \in Nat \ {0}
  /\ I16Min \in Int /\ I16Max \in Nat /\ I16Min < 0
  /\ ClusterMaxMs \in 1 .. I16Max          \* with_cluster_limits' range check
  /\ ClusterMaxBytes \in Nat \ {0}
  /\ {Live, Strict, Hints, Finalize, Disciplined} \subseteq BOOLEAN
  /\ FrontReserved \in Nat /\ SegmentStart \in Nat /\ HeadSize \in Nat
  /\ Live => FrontReserved = 0 /\ ~Finalize  \* with_live_streaming's conflicts
  /\ MaxCalls \in Nat
  /\ None \notin Int /\ Void \notin Int /\ None # Void

\* What the write path reads of a packet; `group' tells write_packet from the
\* two BlockGroup entry points, `dur' is the derived duration in ticks.
Packet == [stream : Streams, pts : Int \cup {None}, dur : Int \cup {None},
           key : BOOLEAN, size : Nat \ {0}, group : BOOLEAN]

ASSUME InputAssumption == Packets \subseteq Packet /\ SilentLists \subseteq SUBSET Streams

VARIABLES
  mux,        \* the muxer: its fields and its output
  accepted,   \* history: the frames of the packets that returned Ok, in order
  calls       \* number of calls so far, for the bound

vars == <<mux, accepted, calls>>

-----------------------------------------------------------------------------
NonNeg(n) == IF n < 0 THEN 0 ELSE n

\* Integer division truncating toward zero, as Rust's.
TruncDiv(n, d) == IF n >= 0 THEN n \div d ELSE -((-n) \div d)

PtsToMs(ticks, s) == TruncDiv(ticks * Scale[s].mul, Scale[s].div)

EmptyLace == [first_timecode_offset |-> 0, keyframe |-> FALSE, bytes |-> 0, frames |-> <<>>]

NewMux ==
  [header_written |-> FALSE, trailer_written |-> FALSE,
   out |-> <<>>, pos |-> 0,
   cluster_open |-> FALSE, cluster_timecode_ms |-> 0, cluster_offset_rel |-> 0,
   cluster_body_start |-> 0, cluster_bytes |-> 0, cluster_block_count |-> 0,
   prev_cluster_start |-> None,
   cue_seen_in_cluster |-> [s \in Streams |-> FALSE],
   cues |-> <<>>,
   lace_pending |-> [s \in Streams |-> EmptyLace],
   stream_pts |-> [s \in Streams |-> 0],
   last_block_pts_ms |-> [s \in Streams |-> None],
   max_end_ms |-> None,
   pending_silent_tracks |-> {},
   \* what write_trailer patches: the SeekHead's Cues entry (None when there
   \* is no SeekHead, Void, or the SeekPosition), the front Cues slot and
   \* Info's Duration (Void in the reserved slot)
   seek_cues |-> None, front_slot |-> None, front_cues |-> {},
   duration |-> None]

Init == mux = NewMux /\ accepted = <<>> /\ calls = 0

-----------------------------------------------------------------------------
\* output.write_all of one element at the current position.
Emit(w, e) == [w EXCEPT !.out = Append(@, e), !.pos = @ + e.size]

Indexable(s, key) == Media[s] = "Video" => key

\* The CueRecord of the Block about to be written at the current position.
PushCue(w, s, ms, dur) ==
  [w EXCEPT
     !.cues = Append(@,
        [track |-> s, time_ms |-> NonNeg(ms),
         cluster_offset |-> w.cluster_offset_rel,
         relative_position |-> NonNeg(w.pos - w.cluster_body_start),
         block_number |-> w.cluster_block_count + 1,
         duration_ms |-> dur]),
     !.cue_seen_in_cluster[s] = TRUE]

\* Mutant: the Block is not counted.
WriteBlockUncounted(w, s, off, key, frames, bytes, ref) ==
  LET size == 1 + bytes
  IN  [Emit(w, [kind |-> "Block", at |-> w.pos, size |-> size, track |-> s,
                off |-> off, key |-> key, frames |-> frames, ref |-> ref])
       EXCEPT !.cluster_bytes = @ + size]

WriteBlock(w, s, off, key, frames, bytes, ref) ==
  LET size == 1 + bytes
  IN  [Emit(w, [kind |-> "Block", at |-> w.pos, size |-> size, track |-> s,
                off |-> off, key |-> key, frames |-> frames, ref |-> ref])
       EXCEPT !.cluster_bytes = @ + size, !.cluster_block_count = @ + 1]

\* flush_lace: the buffered frames become one SimpleBlock.
FlushLace(w, s) ==
  LET lace == w.lace_pending[s]
      cued == IF ~w.cue_seen_in_cluster[s] /\ Indexable(s, lace.keyframe)
              THEN PushCue(w, s, w.cluster_timecode_ms + lace.first_timecode_offset, None)
              ELSE w
      written == WriteBlock(cued, s, lace.first_timecode_offset, lace.keyframe,
                            lace.frames, lace.bytes, None)
  IN  IF lace.frames = <<>> THEN w
      ELSE [written EXCEPT !.lace_pending[s] = [@ EXCEPT !.frames = <<>>, !.bytes = 0]]

\* The flush loops of write_packet_inner, write_live_tags and write_trailer.
\* At most one lace is ever pending (OneLacePending), so the loop flushes that one.
FlushLaces(w, S) ==
  LET pending == {s \in S : w.lace_pending[s].frames # <<>>}
  IN  IF pending = {} THEN w ELSE FlushLace(w, CHOOSE s \in pending : TRUE)

\* start_cluster.  In strict WebM a queued SilentTracks list makes it fail
\* after the Cluster's header, Timestamp and hints are out.
StartFails(w) == Strict /\ w.pending_silent_tracks # {}

\* Mutant: the size without the header.
PrevSizeOfBody(w) ==
  IF Hints /\ w.prev_cluster_start # None THEN w.pos - w.cluster_body_start ELSE None

PrevSize(w) ==
  IF Hints /\ w.prev_cluster_start # None THEN w.pos - w.prev_cluster_start ELSE None

Position(w) ==
  IF Hints /\ ~Strict THEN IF Live THEN 0 ELSE w.pos - SegmentStart ELSE None

ClusterElement(w, ms) ==
  LET silent == IF StartFails(w) THEN {} ELSE w.pending_silent_tracks
  IN  [kind |-> "Cluster", at |-> w.pos, body |-> w.pos + 1, ts |-> NonNeg(ms),
       prev_size |-> PrevSize(w), position |-> Position(w), silent |-> silent,
       size |-> 2 + (IF PrevSize(w) = None THEN 0 ELSE 1)
                  + (IF Position(w) = None THEN 0 ELSE 1) + (IF silent = {} THEN 0 ELSE 1)]

\* Mutants: the base keeps its sign; a flag or a counter survives; the list stays.
OpenClusterSigned(w, ms) ==
  [w EXCEPT !.pending_silent_tracks = {}, !.cluster_timecode_ms = ms, !.cluster_open = TRUE,
            !.cue_seen_in_cluster = [s \in Streams |-> FALSE],
            !.cluster_block_count = 0, !.cluster_bytes = 0]
OpenClusterStillSeen(w, ms) ==
  [w EXCEPT !.pending_silent_tracks = {}, !.cluster_timecode_ms = NonNeg(ms),
            !.cluster_open = TRUE, !.cluster_block_count = 0, !.cluster_bytes = 0]
OpenClusterStillSilent(w, ms) ==
  [w EXCEPT !.cluster_timecode_ms = NonNeg(ms), !.cluster_open = TRUE,
            !.cue_seen_in_cluster = [s \in Streams |-> FALSE],
            !.cluster_block_count = 0, !.cluster_bytes = 0]

OpenCluster(w, ms) ==
  [w EXCEPT !.pending_silent_tracks = {}, !.cluster_timecode_ms = NonNeg(ms),
            !.cluster_open = TRUE, !.cue_seen_in_cluster = [s \in Streams |-> FALSE],
            !.cluster_block_count = 0, !.cluster_bytes = 0]

StartCluster(w, ms) ==
  LET headed == [Emit(w, ClusterElement(w, ms))
                 EXCEPT !.cluster_offset_rel = w.pos - SegmentStart,
                        !.cluster_body_start = w.pos + 1,
                        !.prev_cluster_start = w.pos]
  IN  IF StartFails(w) THEN headed ELSE OpenCluster(headed, ms)

\* append_to_lace: flush first when the frame cannot join the buffered run.
\* Mutant: a size change joins the run.
CannotJoinIgnoringSize(lace, p) ==
  lace.frames # <<>> /\ (lace.keyframe # p.key \/ Len(lace.frames) >= MaxFramesPerLace)

CannotJoin(lace, p) ==
  /\ lace.frames # <<>>
  /\ \/ lace.keyframe # p.key
     \/ Len(lace.frames) >= MaxFramesPerLace
     \/ Lacing = "FixedSize" /\ lace.frames[1].size # p.size

AppendToLace(w, s, off, p, frame) ==
  LET v    == IF CannotJoin(w.lace_pending[s], p) THEN FlushLace(w, s) ELSE w
      lace == v.lace_pending[s]
      seed == lace.frames = <<>>
  IN  [v EXCEPT !.lace_pending[s] =
         [first_timecode_offset |-> IF seed THEN off ELSE lace.first_timecode_offset,
          keyframe |-> IF seed THEN p.key ELSE lace.keyframe,
          bytes |-> lace.bytes + p.size,
          frames |-> Append(lace.frames, frame)]]

-----------------------------------------------------------------------------
\* write_header.  The SeekHead's Cues entry starts at the placeholder 0.
WriteHeader ==
  /\ calls < MaxCalls /\ ~mux.header_written
  /\ Disciplined => ~mux.trailer_written
  /\ mux' = [mux EXCEPT
               !.header_written = TRUE,
               !.pos = SegmentStart + HeadSize + FrontReserved,
               !.seek_cues = IF Live THEN None ELSE 0,
               !.front_slot = IF FrontReserved = 0 THEN None ELSE SegmentStart + HeadSize,
               !.duration = IF Finalize THEN Void ELSE None]
  /\ calls' = calls + 1
  /\ UNCHANGED accepted

EffectivePts(w, p) == IF p.pts = None THEN w.stream_pts[p.stream] ELSE p.pts

EndMs(w, p) ==
  PtsToMs(EffectivePts(w, p), p.stream)
    + (IF p.dur = None THEN 0 ELSE NonNeg(PtsToMs(p.dur, p.stream)))

\* Mutant: the last end time, not the largest.
AdvanceToLast(w, p) ==
  LET pts == EffectivePts(w, p)
  IN  [w EXCEPT !.stream_pts[p.stream] = IF p.dur = None THEN pts ELSE pts + p.dur,
                !.max_end_ms = EndMs(w, p)]

\* The counters write_packet_inner advances before it can fail.
Advance(w, p) ==
  LET s   == p.stream
      pts == EffectivePts(w, p)
      end == EndMs(w, p)
  IN  [w EXCEPT !.stream_pts[s] = IF p.dur = None THEN pts ELSE pts + p.dur,
                !.max_end_ms = IF @ # None /\ end <= @ THEN @ ELSE end]

NeedsNewCluster(w, ms) ==
  \/ ~w.cluster_open
  \/ ms - w.cluster_timecode_ms > ClusterMaxMs
  \/ ms - w.cluster_timecode_ms > I16Max
  \/ ms - w.cluster_timecode_ms < 0
  \/ w.cluster_bytes >= ClusterMaxBytes

\* The Cluster the packet goes to: flush what must not cross into it, rotate.
OtherLaces(p) == IF p.group THEN Streams ELSE Streams \ {p.stream}

\* Mutant: the packet's own lace crosses the rotation.
PlacedKeepingLace(w, p, ms) ==
  LET v == FlushLaces(Advance(w, p), OtherLaces(p))
  IN  IF NeedsNewCluster(v, ms) THEN StartCluster(v, ms) ELSE v

Placed(w, p, ms) ==
  LET v == FlushLaces(Advance(w, p), OtherLaces(p))
  IN  IF NeedsNewCluster(v, ms)
      THEN StartCluster(FlushLaces(v, {p.stream}), ms)
      ELSE v

Refused(w, p, ms) ==
  LET v == FlushLaces(Advance(w, p), OtherLaces(p))
      off == ms - Placed(w, p, ms).cluster_timecode_ms
  IN  \/ NeedsNewCluster(v, ms) /\ StartFails(v)
      \/ off < I16Min \/ off > I16Max

\* ReferenceBlock of a BlockGroup whose caller lists none.
DerivedReferenceForward(w, p, ms) ==  \* mutant
  IF p.key THEN None
  ELSE IF w.last_block_pts_ms[p.stream] = None THEN 0
  ELSE ms - w.last_block_pts_ms[p.stream]

DerivedReference(w, p, ms) ==
  IF p.key THEN None
  ELSE IF w.last_block_pts_ms[p.stream] = None THEN 0
  ELSE w.last_block_pts_ms[p.stream] - ms

\* A Block written at once is indexed on its Cluster's first entry point; a
\* subtitle Block always.
Cued(w, p) ==
  /\ Media[p.stream] = "Subtitle" \/ ~w.cue_seen_in_cluster[p.stream]
  /\ Indexable(p.stream, p.key)

\* The rest of write_packet_inner once the packet is known to fit: cue, then
\* the Block, or the lace buffer.
Stored(w, p, ms, frame) ==
  LET s    == p.stream
      off  == ms - w.cluster_timecode_ms
      now  == Lacing = "None" \/ p.group
      cueDur == IF p.dur = None \/ PtsToMs(p.dur, s) < 0 THEN None ELSE PtsToMs(p.dur, s)
      cued == IF now /\ Cued(w, p) THEN PushCue(w, s, ms, cueDur) ELSE w
      ref  == IF p.group THEN DerivedReference(w, p, ms) ELSE None
      v    == IF now THEN WriteBlock(cued, s, off, p.key, <<frame>>, p.size, ref)
              ELSE AppendToLace(cued, s, off, p, frame)
  IN  [v EXCEPT !.last_block_pts_ms[s] = ms]

WritePacket(p) ==
  LET ms    == PtsToMs(EffectivePts(mux, p), p.stream)
      frame == [id |-> Len(accepted) + 1, stream |-> p.stream, ms |-> ms,
                end_ms |-> EndMs(mux, p), key |-> p.key, size |-> p.size]
      w     == Placed(mux, p, ms)
  IN  /\ calls < MaxCalls /\ mux.header_written
      /\ Disciplined => ~mux.trailer_written
      /\ IF Refused(mux, p, ms)
         THEN mux' = w /\ UNCHANGED accepted
         ELSE mux' = Stored(w, p, ms, frame) /\ accepted' = Append(accepted, frame)
      /\ calls' = calls + 1

SetNextClusterSilentTracks(S) ==
  /\ calls < MaxCalls
  /\ Disciplined => ~mux.trailer_written
  /\ mux' = [mux EXCEPT !.pending_silent_tracks = S]
  /\ calls' = calls + 1
  /\ UNCHANGED accepted

\* write_live_tags: the Tags element ends the open Cluster.
WriteLiveTags ==
  /\ calls < MaxCalls /\ mux.header_written /\ Live
  /\ Disciplined => ~mux.trailer_written
  /\ LET w == FlushLaces(mux, Streams)
     IN  mux' = Emit([w EXCEPT !.cluster_open = FALSE],
                     [kind |-> "Tags", at |-> w.pos, size |-> 1])
  /\ calls' = calls + 1
  /\ UNCHANGED accepted

-----------------------------------------------------------------------------
\* build_cues_bytes: one CuePoint per time, holding that time's entries.
CuePoints(cues) ==
  LET records == {cues[i] : i \in DOMAIN cues}
  IN  {[time |-> t, entries |-> {c \in records : c.time_ms = t}] : t \in {c.time_ms : c \in records}}

CuesSize(cues) == 1 + Cardinality(CuePoints(cues)) + Len(cues)

\* write_front_cues writes in place when the index fits its reservation; a
\* 1-byte remainder is absorbed by a wider size VINT, so it fits as well.
FitsFront(w) == w.front_slot # None /\ CuesSize(w.cues) <= FrontReserved

\* write_cues / write_front_cues.
PlaceCues(w) ==
  IF Live \/ w.cues = <<>> THEN w
  ELSE IF FitsFront(w) THEN [w EXCEPT !.front_cues = CuePoints(w.cues)]
  ELSE Emit(w, [kind |-> "Cues", at |-> w.pos, size |-> CuesSize(w.cues),
                index |-> CuePoints(w.cues)])

\* patch_cues_seek_entry, only when write_header wrote a SeekHead.
CuesEntryAbsolute(w) ==  \* mutant
  IF w.seek_cues = None THEN None
  ELSE IF w.cues = <<>> THEN Void
  ELSE IF FitsFront(w) THEN w.front_slot ELSE w.pos

CuesEntry(w) ==
  IF w.seek_cues = None THEN None
  ELSE IF w.cues = <<>> THEN Void
  ELSE (IF FitsFront(w) THEN w.front_slot ELSE w.pos) - SegmentStart

WriteTrailerUnflushed ==  \* mutant: pending laces are dropped
  /\ calls < MaxCalls /\ ~mux.trailer_written
  /\ Disciplined => mux.header_written
  /\ mux' = [PlaceCues(mux) EXCEPT !.seek_cues = CuesEntry(mux), !.trailer_written = TRUE]
  /\ calls' = calls + 1
  /\ UNCHANGED accepted

WriteTrailer ==
  /\ calls < MaxCalls /\ ~mux.trailer_written
  /\ Disciplined => mux.header_written
  /\ LET w == FlushLaces(mux, Streams)
     IN  mux' = [PlaceCues(w) EXCEPT
                   !.seek_cues = CuesEntry(w),
                   !.duration = IF @ # None /\ w.max_end_ms # None
                                THEN NonNeg(w.max_end_ms) ELSE @,
                   !.trailer_written = TRUE]
  /\ calls' = calls + 1
  /\ UNCHANGED accepted

Next ==
  \/ WriteHeader
  \/ \E p \in Packets : WritePacket(p)
  \/ \E S \in SilentLists : SetNextClusterSilentTracks(S)
  \/ WriteLiveTags
  \/ WriteTrailer

Spec == Init /\ [][Next]_vars
=============================================================================
