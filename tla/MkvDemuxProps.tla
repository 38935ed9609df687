--------------------------- MODULE MkvDemuxProps ---------------------------
(***************************************************************************)
(* Correctness of reading and seeking (MkvDemux).  The truth is carried by *)
(* the file: file.stored lists the packets that were stored before any     *)
(* damage, in storage order, clusters holds the offsets of the real        *)
(* Clusters (payloads may imitate one), intact says that nothing was       *)
(* damaged and garbled that what was still parses as an element.           *)
(***************************************************************************)
EXTENDS MkvDemux

BlockAt(o) == file.cells[o + 1]

\* The packets stored from there on.
Stored(from) ==
  LET behind == {i \in DOMAIN file.stored : file.stored[i].at >= from}
  IN  SubSeq(file.stored, Min(behind \cup {Len(file.stored) + 1}), Len(file.stored))

Reader == INSTANCE PacketReader WITH all <- Stored(landing.off), out <- given,
                                     ended <- last = "eof"

Given(p) == \E i \in DOMAIN given : given[i] = p

-----------------------------------------------------------------------------

\* Reading an intact file delivers exactly the stored packets, in storage
\* order, with the timestamps, durations and group keyframes they were stored
\* with, from wherever open or the last seek left the reader, and reports the
\* end only after the last of them.
ReadsWhatIsStored == Reader!ReaderSpec

\* next_packet returns: whatever the file holds, its loop reaches a packet,
\* the end or an error.
NextPacketReturns == (call = "next") ~> (call = "idle")

\* A Cluster stream without damage needs no recovery: "empty for a resilient
\* demuxer over an undamaged file" (demux.rs:9767).
NoDamageOnIntactFile ==
  file.intact => \A e \in Range(damage) : e.kind = "CueLie"

\* Between two seeks packets come in storage order and none comes twice.
InStorageOrder ==
  \A i, j \in DOMAIN given :
    i < j => \/ given[i].at < given[j].at
             \/ given[i].at = given[j].at /\ given[i].frame < given[j].frame

\* A packet of a damaged file is a packet of the undamaged one: the right
\* track, time, duration and keyframe flag, never one made of other bytes.
\* (Where damage leaves no header to parse; nothing tells an element that
\* parses from one that was written.)  In any file they come in order.
PacketsAreTrue ==
  /\ InStorageOrder
  /\ ~file.garbled => Range(queue) \cup Range(given) \subseteq Range(file.stored)

\* A stored packet the reader passed without returning it lies in a range
\* that a damage event reports as skipped: losses are never silent.  (For
\* damage that leaves no header to parse: what parses as an unknown element of
\* overlong size is skipped as one, and the file's tail with it.)
LossIsReported ==
  last = "eof" /\ ~file.garbled =>
    \A p \in Range(Stored(landing.off)) :
      \/ Given(p) \/ p.at >= SegmentEnd
      \/ \E e \in Range(damage) :
           /\ e.kind # "CueLie" /\ e.offset <= p.at
           /\ e.resumedAt = None \/ p.at < e.resumedAt

\* Recovery gives up no more than it must, reading or opening: it resumes
\* before every Cluster behind the damage that still begins like one, and
\* gives the tail up only where there is none.
ResumesAtNextElement ==
  \A e \in Range(damage) :
    e.kind # "CueLie" =>
      \A c \in file.clusters :
        e.offset < c /\ (c < e.resumedAt \/ e.resumedAt = None) =>
          Header(file, c + 1).id \notin FirstChildIds

-----------------------------------------------------------------------------
(* Seeking.                                                                *)

TimestampOf(c) == LeadingTimestamp(file, c + 1, ClusterEnd(file, c, InputLen(file)))

\* The index, or the Clusters where it was not used, reach back to the time
\* the last seek asked for.
StartsEarlyEnough ==
  IF strategy = "Cues"
  THEN \E i \in DOMAIN file.cues : /\ TrackIndex[file.cues[i].track] = TrackIndex[landing.track]
                                   /\ file.cues[i].time <= landing.wanted
  ELSE \E c \in file.clusters : TimestampOf(c) <= landing.wanted

\* The Clusters are stored in the order of their Timestamps.
Sorted == \A c, d \in file.clusters : c < d => TimestampOf(c) <= TimestampOf(d)

\* Playing on from a seek shows everything of the sought track from the
\* wanted time on: no landing is too late.  Only where nothing starts that
\* early does it begin at the later time seek_to says it landed at.
NothingWantedIsSkipped ==
  last = "eof" /\ file.intact /\ Sorted /\ landing.track # None =>
    LET start == IF StartsEarlyEnough THEN landing.wanted ELSE landing.landed
    IN  \A p \in Range(file.stored) :
          p.stream = TrackIndex[landing.track] /\ p.pts >= start => Given(p)

IsLastAtOrBefore(c, ticks) ==
  LET early == {d \in file.clusters : TimestampOf(d) <= ticks}
  IN  c = IF early = {} THEN Min(file.clusters) ELSE Max(early)

\* The last seek did without the Cues, in an intact file.
Cueless == file.intact /\ strategy \in {"Bisection", "LinearScan"}

\* A seek that does without the Cues lands on the last Cluster whose
\* Timestamp is at or before the target, on the first one for an earlier
\* target: not too late, and with no Cluster to decode in vain.
CuelessLandsOnLast ==
  Cueless /\ Sorted => IsLastAtOrBefore(landing.off, landing.wanted)

\* In whatever order the Clusters are stored, the time a Cues-less seek
\* reports is that of the Cluster it leaves the reader at, and it is past the
\* target only at the first Cluster.
LandsAtOrBefore ==
  Cueless => /\ landing.off \in file.clusters
             /\ landing.landed = TimestampOf(landing.off)
             /\ landing.landed > landing.wanted => landing.off = Min(file.clusters)

-----------------------------------------------------------------------------
(* What reading leaves behind.                                             *)

\* The values of the id children the Cluster with body offset b carries.
Carried(b, id) ==
  LET end == ClusterEnd(file, b - 1, InputLen(file))
      next == Min({c \in file.clusters : c >= b} \cup {end})
      body == SubSeq(file.cells, b + 1, next)
      found == SelectSeq(body, LAMBDA c : c.id = id)
  IN  [i \in DOMAIN found |-> found[i].v]

\* A record holds only what its own Cluster carries.
RecordsBelongToCluster ==
  \A b \in DOMAIN records :
    /\ b - 1 \in file.clusters
    /\ records[b].position \in {None} \cup Range(Carried(b, "Position"))
    /\ records[b].prevSize \in {None} \cup Range(Carried(b, "PrevSize"))
    /\ seeks = 0 => /\ IsPrefix(records[b].silent, FlattenSeq(Carried(b, "SilentTracks")))
                    /\ records[b].encrypted <= Len(Carried(b, "EncryptedBlock"))

\* A record keeps what was read for its Cluster, however often and from
\* wherever the Cluster is walked again, and nothing read elsewhere.
RecordsKeepWhatWasRead ==
  /\ []RecordsBelongToCluster
  /\ [][\A b \in DOMAIN records :
         /\ b \in DOMAIN records'
         /\ records[b].position # None => records'[b].position = records[b].position
         /\ records[b].prevSize # None => records'[b].prevSize = records[b].prevSize
         /\ IsPrefix(records[b].silent, records'[b].silent)]_vars

\* The flat metadata is the Info's plus the entries of the Tags in force, and
\* those are the last well-formed Tags the reader crossed (RFC 9559 23.2).
TagsInForce ==
  LET Read(o) == Lifted(file, o + 1, Past(o + 1, BlockAt(o).size))
      crossed == {o \in 0 .. Min({pos, InputLen(file)}) - 1 :
                    BlockAt(o).id = "Tags" /\ BlockAt(o).size # Unknown /\ ~Read(o).err}
  IN  /\ ToBag(metadata) = ToBag(file.info) (+) ToBag(tags)
      /\ seeks = 0 /\ file.intact =>
           tags = IF crossed = {} THEN file.tags ELSE Read(Max(crossed)).values["Item"]
=============================================================================
