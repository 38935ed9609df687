----------------------------- MODULE MkvMuxInv -----------------------------
(***************************************************************************)
(* The inductive invariant behind the safety properties of MkvMuxProps:    *)
(* what the muxer's fields say about the output while it may still write.  *)
(* It holds for a caller that stops at the trailer and, under strict WebM, *)
(* queues no SilentTracks list (start_cluster fails half-way otherwise).   *)
(***************************************************************************)
EXTENDS MkvMuxProps

\* The open Cluster is the last one of the output, cluster_block_count Blocks
\* from its end, and the muxer's cluster_* fields describe it.
OpenClusterKnown(w) ==
  LET i == Len(w.out) - w.cluster_block_count IN
  w.cluster_open =>
    /\ i \in DOMAIN w.out /\ w.out[i].kind = "Cluster"
    /\ \A k \in i + 1 .. Len(w.out) : w.out[k].kind = "Block"
    /\ w.out[i].at = w.cluster_offset_rel + SegmentStart
    /\ w.out[i].body = w.cluster_body_start
    /\ w.out[i].ts = w.cluster_timecode_ms
    /\ w.cluster_body_start <= w.pos

\* A pending lace is the only one and its offset counts from the open Cluster.
LacePending(w, s) == w.lace_pending[s].frames # <<>>

LaceKnown(w) ==
  \A s \in Streams : LacePending(w, s) =>
    /\ w.cluster_open /\ Lacing # "None"
    /\ w.lace_pending[s].frames[1].ms = w.cluster_timecode_ms + w.lace_pending[s].first_timecode_offset
    /\ w.lace_pending[s].first_timecode_offset \in I16Min .. I16Max
    /\ \A t \in Streams : LacePending(w, t) => t = s

BlocksKnown(out) ==
  \A j \in DOMAIN out : out[j].kind = "Block" => \E i \in DOMAIN out : DecodesIn(out, j, i)

CueLands(out, c) ==
  \E i, j \in DOMAIN out : Points(out, c, i, j) /\ Indexable(out[j].track, out[j].key)

CuesKnown(out, cues) == \A n \in DOMAIN cues : CueLands(out, cues[n])

StrictIsSilent(w) == Strict => w.pending_silent_tracks = {}

\* The state between two handler steps of a muxer that may still write.
Writing(w) ==
  /\ w \in MuxState
  /\ OpenClusterKnown(w) /\ LaceKnown(w) /\ StrictIsSilent(w)
  /\ BlocksKnown(w.out) /\ CuesKnown(w.out, w.cues)

IInv ==
  /\ TypeOK
  /\ BlocksKnown(mux.out) /\ CuesKnown(mux.out, mux.cues)
  /\ mux.cluster_open => mux.header_written
  /\ ~mux.trailer_written => Writing(mux)
  /\ mux.trailer_written => Pending = {}

-----------------------------------------------------------------------------
(* The rest of the invariant: what the index, PrevSize, the references,    *)
(* the laces and the counters say about the output and the accepted        *)
(* frames.                                                                 *)

AtsAscend(out) == \A i, j \in DOMAIN out : i < j => out[i].at < out[j].at

\* The Cluster h is the last element before k that is not a Block.
Before(out, h, k) ==
  /\ h \in DOMAIN out /\ h < k /\ out[h].kind = "Cluster"
  /\ \A m \in h + 1 .. k - 1 : out[m].kind = "Block"

NoClusterBefore(out, k) == \A i \in DOMAIN out : i < k => out[i].kind # "Cluster"

PrevSizesKnown(out) ==
  \A k \in DOMAIN out : out[k].kind = "Cluster" =>
    \/ NoClusterBefore(out, k) /\ out[k].prev_size = None
    \/ \E h \in DOMAIN out :
         /\ Before(out, h, k)
         /\ out[k].prev_size = IF Hints THEN out[k].at - out[h].at ELSE None

\* The frames of one lace of the stream s in a Cluster of Timestamp ts.
LegalLace(frames, s, key, ts) ==
  /\ Len(frames) <= MaxFramesPerLace
  /\ \A k \in DOMAIN frames :
       /\ frames[k].stream = s /\ frames[k].key = key
       /\ Lacing = "FixedSize" => frames[k].size = frames[1].size
       /\ NonNeg(frames[k].ms) - ts \in 0 .. ClusterMaxMs

BlocksLegal(out) ==
  \A j \in DOMAIN out : out[j].kind = "Block" =>
    /\ out[j].frames # <<>>
    /\ \E i \in DOMAIN out :
         Holds(out, i, j) /\ LegalLace(out[j].frames, out[j].track, out[j].key, out[i].ts)

\* A Block of the Cluster i where a decoder of s can start, the first of them.
IsEntry(out, i, j, s) ==
  Holds(out, i, j) /\ out[j].track = s /\ Indexable(s, out[j].key)

FirstEntry(out, i, j, s) ==
  IsEntry(out, i, j, s) /\ \A k \in DOMAIN out : IsEntry(out, i, k, s) => j <= k

EntriesIndexed(out, cues) ==
  \A i, j \in DOMAIN out, s \in Streams : FirstEntry(out, i, j, s) =>
    \E n \in DOMAIN cues : Points(out, cues[n], i, j)

CuesUnique(cues) ==
  \A n, m \in DOMAIN cues :
    /\ cues[n].track = cues[m].track /\ Media[cues[n].track] # "Subtitle"
    /\ cues[n].cluster_offset = cues[m].cluster_offset
    => n = m

IsBlockOf(out, k, s) == k \in DOMAIN out /\ out[k].kind = "Block" /\ out[k].track = s

\* The Block k is the last of the stream s before the place j.
LastBlockBefore(out, k, j, s) ==
  IsBlockOf(out, k, s) /\ k < j /\ \A m \in k + 1 .. j - 1 : ~IsBlockOf(out, m, s)

ReferencesKnown(out) ==
  \A j \in DOMAIN out : out[j].kind = "Block" /\ out[j].ref \in Int =>
    LET s == out[j].track IN
    \/ \A k \in DOMAIN out : k < j => ~IsBlockOf(out, k, s)
    \/ \E k \in DOMAIN out : /\ LastBlockBefore(out, k, j, s)
                            /\ out[k].frames[1].ms = out[j].frames[1].ms + out[j].ref

OutputKnown(out, cues) ==
  /\ AtsAscend(out) /\ BlocksLegal(out)
  /\ EntriesIndexed(out, cues) /\ CuesUnique(cues)
  /\ ~Live => PrevSizesKnown(out)
  /\ Lacing = "None" => ReferencesKnown(out)

\* The fields of a muxer that may still write.
PlaceKnown(w) ==
  /\ \A j \in DOMAIN w.out : w.out[j].at < w.pos /\ w.out[j].kind # "Cues"
  /\ IF w.header_written
     THEN /\ w.pos >= SegmentStart + HeadSize + FrontReserved
          /\ w.front_slot = (IF FrontReserved = 0 THEN None ELSE SegmentStart + HeadSize)
          /\ w.seek_cues = (IF Live THEN None ELSE 0)
          /\ w.duration = (IF Finalize THEN Void ELSE None)
     ELSE w.out = <<>>

PrevStartKnown(w) ==
  \/ w.prev_cluster_start = None /\ NoClusterBefore(w.out, Len(w.out) + 1)
  \/ \E h \in DOMAIN w.out :
       Before(w.out, h, Len(w.out) + 1) /\ w.prev_cluster_start = w.out[h].at

PendingLegal(w) ==
  \A s \in Streams : LacePending(w, s) =>
    LegalLace(w.lace_pending[s].frames, s, w.lace_pending[s].keyframe, w.cluster_timecode_ms)

SeenKnown(w) ==
  w.cluster_open => \A s \in Streams :
    w.cue_seen_in_cluster[s] <=>
      \E j \in DOMAIN w.out : IsEntry(w.out, Len(w.out) - w.cluster_block_count, j, s)

LastPtsKnown(w) ==
  \A s \in Streams :
    IF w.last_block_pts_ms[s] = None
    THEN \A k \in DOMAIN w.out : ~IsBlockOf(w.out, k, s)
    ELSE \E k \in DOMAIN w.out : /\ LastBlockBefore(w.out, k, Len(w.out) + 1, s)
                                /\ w.out[k].frames[1].ms = w.last_block_pts_ms[s]

EndKnown(w, log) ==
  \A i \in DOMAIN log : w.max_end_ms # None /\ log[i].end_ms <= w.max_end_ms

\* The Blocks hold the accepted frames but those of the pending lace.
LogKnown(w, log) ==
  /\ (\A s \in Streams : ~LacePending(w, s)) => log = FramesIn(w.out)
  /\ \A s \in Streams : LacePending(w, s) => log = FramesIn(w.out) \o w.lace_pending[s].frames

FieldsKnown(w, log) ==
  /\ PlaceKnown(w) /\ PendingLegal(w) /\ SeenKnown(w)
  /\ EndKnown(w, log) /\ LogKnown(w, log)
  /\ ~Live => PrevStartKnown(w)
  /\ Lacing = "None" => LastPtsKnown(w)

\* While the muxer may write, its fields describe the open Cluster, the pending
\* lace, the index and the place of every accepted frame; after write_trailer
\* the output holds them all, seekable and with a Duration that covers them.
MuxInv ==
  /\ IInv
  /\ OutputKnown(mux.out, mux.cues)
  /\ ~mux.trailer_written => FieldsKnown(mux, accepted)
  /\ mux.trailer_written =>
       /\ mux.header_written /\ accepted = FramesIn(mux.out)
       /\ SeekableAfterTrailer /\ DurationCoversEveryPacket

\* What the invariant asks of the caller: calls in order, and no SilentTracks
\* under strict WebM.
Orderly == Disciplined /\ (Strict => SilentLists \subseteq {{}})
=============================================================================
