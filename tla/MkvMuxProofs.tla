---------------------------- MODULE MkvMuxProofs -----------------------------
(***************************************************************************)
(* MuxInv of MkvMuxInv is an invariant of the muxer, and what follows from *)
(* it: its types, its laces, its calls as chains of steps, and what a      *)
(* reader of its output may rely on, for every value of the constants.     *)
(***************************************************************************)
EXTENDS MkvMuxInv, FiniteSetTheorems, SequenceFacts

LEMMA TruncDivType ==
  ASSUME NEW n \in Int, NEW d \in Nat \ {0}
  PROVE  TruncDiv(n, d) \in Int
BY DEF TruncDiv

LEMMA PtsToMsType ==
  ASSUME NEW n \in Int, NEW s \in Streams
  PROVE  PtsToMs(n, s) \in Int
<1>1. Scale[s].mul \in Nat /\ Scale[s].div \in Nat \ {0}
  BY StreamsAssumption
<1>2. n * Scale[s].mul \in Int
  BY <1>1
<1> QED BY <1>1, <1>2, TruncDivType DEF PtsToMs

LEMMA EmitType ==
  ASSUME NEW w \in MuxState, NEW e \in Element
  PROVE  Emit(w, e) \in MuxState
<1>1. e.size \in Nat /\ w.pos \in Nat /\ w.out \in Seq(Element)
  BY DEF Element, MuxState
<1> DEFINE o == Append(w.out, e)
           p == w.pos + e.size
<1>2. o \in Seq(Element) /\ p \in Nat
  BY <1>1
<1>3. Emit(w, e) = [w EXCEPT !.out = o, !.pos = p]
  BY DEF Emit, MuxState
<1> HIDE DEF o, p
<1> QED BY <1>2, <1>3, ZenonT(60) DEF MuxState

LEMMA PushCueType ==
  ASSUME NEW w \in MuxState, NEW s \in Streams, NEW ms \in Int, NEW dur \in Nat \cup {None}
  PROVE  PushCue(w, s, ms, dur) \in MuxState
<1> DEFINE c == [track |-> s, time_ms |-> NonNeg(ms),
         cluster_offset |-> w.cluster_offset_rel,
         relative_position |-> NonNeg(w.pos - w.cluster_body_start),
         block_number |-> w.cluster_block_count + 1,
         duration_ms |-> dur]
<1>1. c \in CueRecord
  <2>1. w.pos \in Nat /\ w.cluster_body_start \in Nat /\ w.cluster_offset_rel \in Int
        /\ w.cluster_block_count \in Nat
    BY DEF MuxState
  <2>2. NonNeg(ms) \in Nat /\ NonNeg(w.pos - w.cluster_body_start) \in Nat
    BY <2>1 DEF NonNeg
  <2> QED BY <2>1, <2>2 DEF CueRecord
<1>2. Append(w.cues, c) \in Seq(CueRecord)
  BY <1>1 DEF MuxState
<1>3. [w.cue_seen_in_cluster EXCEPT ![s] = TRUE] \in [Streams -> BOOLEAN]
  BY DEF MuxState
<1>4. PushCue(w, s, ms, dur) = [w EXCEPT !.cues = Append(w.cues, c),
           !.cue_seen_in_cluster = [w.cue_seen_in_cluster EXCEPT ![s] = TRUE]]
  BY DEF PushCue, MuxState
<1> HIDE DEF c
<1> QED BY <1>2, <1>3, <1>4, ZenonT(60) DEF MuxState

LEMMA WriteBlockType ==
  ASSUME NEW w \in MuxState, NEW s \in Streams, NEW off \in Int, NEW key \in BOOLEAN,
         NEW frames \in Seq(Frame), NEW bytes \in Nat, NEW ref \in Int \cup {None}
  PROVE  WriteBlock(w, s, off, key, frames, bytes, ref) \in MuxState
<1> DEFINE e == [kind |-> "Block", at |-> w.pos, size |-> 1 + bytes, track |-> s,
                 off |-> off, key |-> key, frames |-> frames, ref |-> ref]
           x == Emit(w, e)
<1>1. e \in Element
  BY DEF Element, MuxState
<1>2. x \in MuxState
  BY <1>1, EmitType
<1>3. WriteBlock(w, s, off, key, frames, bytes, ref)
        = [x EXCEPT !.cluster_bytes = x.cluster_bytes + (1 + bytes),
                    !.cluster_block_count = x.cluster_block_count + 1]
  BY DEF WriteBlock
<1> HIDE DEF e, x
<1>4. x.cluster_bytes \in Nat /\ x.cluster_block_count \in Nat
  BY <1>2 DEF MuxState
<1>5. x.cluster_bytes + (1 + bytes) \in Nat /\ x.cluster_block_count + 1 \in Nat
  BY <1>4
<1> QED BY <1>2, <1>3, <1>5, ZenonT(60) DEF MuxState

LEMMA FlushLaceType ==
  ASSUME NEW w \in MuxState, NEW s \in Streams
  PROVE  FlushLace(w, s) \in MuxState
<1> DEFINE lace == w.lace_pending[s]
           cued == IF ~w.cue_seen_in_cluster[s] /\ Indexable(s, lace.keyframe)
                   THEN PushCue(w, s, w.cluster_timecode_ms + lace.first_timecode_offset, None)
                   ELSE w
           x == WriteBlock(cued, s, lace.first_timecode_offset, lace.keyframe,
                           lace.frames, lace.bytes, None)
           y == [x EXCEPT !.lace_pending[s] = [@ EXCEPT !.frames = <<>>, !.bytes = 0]]
<1>1. lace \in Lace
  BY DEF MuxState
<1>2. /\ lace.first_timecode_offset \in Int /\ lace.keyframe \in BOOLEAN
      /\ lace.bytes \in Nat /\ lace.frames \in Seq(Frame)
  BY <1>1 DEF Lace
<1>3. w.cluster_timecode_ms + lace.first_timecode_offset \in Int
  BY <1>2 DEF MuxState
<1>4. cued \in MuxState
  BY <1>3, PushCueType
<1> HIDE DEF cued
<1>5. x \in MuxState
  BY <1>2, <1>4, WriteBlockType
<1> HIDE DEF x
<1>6. y \in MuxState
  <2>1. x.lace_pending[s] \in Lace /\ x.lace_pending \in [Streams -> Lace]
    BY <1>5 DEF MuxState
  <2> DEFINE a == x.lace_pending[s]
             l == [a EXCEPT !.frames = <<>>, !.bytes = 0]
             m == [x.lace_pending EXCEPT ![s] = l]
  <2>2. l \in Lace
    <3>1. <<>> \in Seq(Frame) /\ 0 \in Nat /\ a \in Lace
      BY <2>1
    <3> HIDE DEF a
    <3> QED BY <3>1 DEF Lace
  <2> HIDE DEF l
  <2>3. m \in [Streams -> Lace]
    BY <2>1, <2>2
  <2>4. y = [x EXCEPT !.lace_pending = m]
    BY <1>5 DEF m, l, a, MuxState
  <2> HIDE DEF m, y
  <2> QED BY <1>5, <2>3, <2>4 DEF MuxState
<1>7. FlushLace(w, s) = IF lace.frames = <<>> THEN w ELSE y
  BY DEF FlushLace, x, cued
<1> QED BY <1>6, <1>7

LEMMA FlushLacesType ==
  ASSUME NEW w \in MuxState, NEW S \in SUBSET Streams
  PROVE  FlushLaces(w, S) \in MuxState
BY FlushLaceType DEF FlushLaces

LEMMA ClusterElementType ==
  ASSUME NEW w \in MuxState, NEW ms \in Int
  PROVE  ClusterElement(w, ms) \in Element
<1>1. w.pos \in Nat /\ w.prev_cluster_start \in Nat \cup {None} /\ SegmentStart \in Nat
      /\ w.pending_silent_tracks \in SUBSET Streams
  BY ConfigAssumption DEF MuxState
<1>2. PrevSize(w) \in Int \cup {None}
  BY <1>1 DEF PrevSize
<1>3. Position(w) \in Int \cup {None}
  BY <1>1 DEF Position
<1>4. NonNeg(ms) \in Nat
  BY DEF NonNeg
<1> QED BY <1>1, <1>2, <1>3, <1>4 DEF ClusterElement, Element

LEMMA StartClusterType ==
  ASSUME NEW w \in MuxState, NEW ms \in Int
  PROVE  StartCluster(w, ms) \in MuxState
<1> DEFINE e == Emit(w, ClusterElement(w, ms))
           rel == w.pos - SegmentStart
           body == w.pos + 1
           headed == [e EXCEPT !.cluster_offset_rel = rel, !.cluster_body_start = body,
                               !.prev_cluster_start = w.pos]
           t == NonNeg(ms)
           unseen == [s \in Streams |-> FALSE]
<1>1. e \in MuxState
  BY ClusterElementType, EmitType
<1>2. w.pos \in Nat /\ rel \in Int /\ body \in Nat /\ t \in Nat /\ unseen \in [Streams -> BOOLEAN]
  <2>1. w.pos \in Nat
    BY DEF MuxState
  <2>2. rel \in Int /\ body \in Nat
    BY <2>1, ConfigAssumption
  <2>3. t \in Nat
    BY DEF NonNeg
  <2> QED BY <2>1, <2>2, <2>3
<1>3. StartCluster(w, ms) = IF StartFails(w) THEN headed ELSE OpenCluster(headed, ms)
  BY DEF StartCluster
<1> DEFINE timed == [headed EXCEPT !.pending_silent_tracks = {}, !.cluster_timecode_ms = t,
                                   !.cluster_open = TRUE]
<1>4. OpenCluster(headed, ms)
        = [timed EXCEPT !.cue_seen_in_cluster = unseen,
                        !.cluster_block_count = 0, !.cluster_bytes = 0]
  BY DEF OpenCluster
<1> HIDE DEF e, rel, body, t, unseen
<1>5. headed \in MuxState
  BY <1>1, <1>2, ZenonT(60) DEF MuxState
<1> HIDE DEF headed
<1>6. OpenCluster(headed, ms) \in MuxState
  <2>1. timed \in MuxState
    BY <1>2, <1>5, ZenonT(60) DEF MuxState
  <2> HIDE DEF timed
  <2> DEFINE y == [timed EXCEPT !.cue_seen_in_cluster = unseen,
                                !.cluster_block_count = 0, !.cluster_bytes = 0]
  <2>2. y \in MuxState
    BY <1>2, <2>1, ZenonT(60) DEF MuxState
  <2> HIDE DEF y
  <2>3. OpenCluster(headed, ms) = y
    BY <1>4 DEF y
  <2> QED BY <2>2, <2>3
<1> QED BY <1>3, <1>5, <1>6

LEMMA PacketTimes ==
  ASSUME NEW w \in MuxState, NEW p \in Packet
  PROVE  /\ EffectivePts(w, p) \in Int
         /\ PtsToMs(EffectivePts(w, p), p.stream) \in Int
         /\ EndMs(w, p) \in Int
<1>1. p.stream \in Streams /\ p.pts \in Int \cup {None} /\ p.dur \in Int \cup {None}
  BY DEF Packet
<1>2. EffectivePts(w, p) \in Int
  BY <1>1 DEF EffectivePts, MuxState
<1>3. PtsToMs(EffectivePts(w, p), p.stream) \in Int
  BY <1>1, <1>2, PtsToMsType
<1>4. CASE p.dur = None
  BY <1>3, <1>2, <1>4 DEF EndMs
<1>5. CASE p.dur # None
  <2>1. PtsToMs(p.dur, p.stream) \in Int
    BY <1>1, <1>5, PtsToMsType
  <2>2. NonNeg(PtsToMs(p.dur, p.stream)) \in Int
    BY <2>1 DEF NonNeg
  <2> QED BY <1>2, <1>3, <1>5, <2>2 DEF EndMs
<1> QED BY <1>2, <1>3, <1>4, <1>5

LEMMA AdvanceType ==
  ASSUME NEW w \in MuxState, NEW p \in Packet
  PROVE  Advance(w, p) \in MuxState
<1> DEFINE s == p.stream
           pts == EffectivePts(w, p)
           next == IF p.dur = None THEN pts ELSE pts + p.dur
           f == [w.stream_pts EXCEPT ![s] = next]
           m == IF w.max_end_ms # None /\ EndMs(w, p) <= w.max_end_ms THEN w.max_end_ms ELSE EndMs(w, p)
<1>1. s \in Streams /\ pts \in Int /\ next \in Int
  BY PacketTimes DEF Packet
<1>2. f \in [Streams -> Int]
  BY <1>1 DEF MuxState
<1>3. m \in Int \cup {None}
  BY PacketTimes DEF MuxState
<1>4. Advance(w, p) = [w EXCEPT !.stream_pts = f, !.max_end_ms = m]
  BY DEF Advance, MuxState
<1> HIDE DEF f, m
<1> QED BY <1>2, <1>3, <1>4, ZenonT(60) DEF MuxState

LEMMA AppendToLaceType ==
  ASSUME NEW w \in MuxState, NEW s \in Streams, NEW off \in Int, NEW p \in Packet,
         NEW frame \in Frame
  PROVE  AppendToLace(w, s, off, p, frame) \in MuxState
<1> DEFINE v == IF CannotJoin(w.lace_pending[s], p) THEN FlushLace(w, s) ELSE w
           lace == v.lace_pending[s]
           seed == lace.frames = <<>>
           l == [first_timecode_offset |-> IF seed THEN off ELSE lace.first_timecode_offset,
                 keyframe |-> IF seed THEN p.key ELSE lace.keyframe,
                 bytes |-> lace.bytes + p.size,
                 frames |-> Append(lace.frames, frame)]
           f == [v.lace_pending EXCEPT ![s] = l]
<1>1. v \in MuxState
  BY FlushLaceType
<1>2. AppendToLace(w, s, off, p, frame) = [v EXCEPT !.lace_pending[s] = l]
  BY DEF AppendToLace
<1> HIDE DEF v
<1>3. lace \in Lace /\ v.lace_pending \in [Streams -> Lace]
  BY <1>1 DEF MuxState
<1> HIDE DEF lace
<1>4. l \in Lace
  BY <1>3 DEF Lace, Packet
<1> HIDE DEF l
<1>5. f \in [Streams -> Lace]
  BY <1>3, <1>4
<1>6. AppendToLace(w, s, off, p, frame) = [v EXCEPT !.lace_pending = f]
  BY <1>1, <1>2 DEF MuxState
<1> HIDE DEF f
<1> QED BY <1>1, <1>5, <1>6, ZenonT(60) DEF MuxState

LEMMA PlacedType ==
  ASSUME NEW w \in MuxState, NEW p \in Packet, NEW ms \in Int
  PROVE  Placed(w, p, ms) \in MuxState
<1>1. p.stream \in Streams /\ OtherLaces(p) \in SUBSET Streams
  BY DEF Packet, OtherLaces
<1>2. FlushLaces(Advance(w, p), OtherLaces(p)) \in MuxState
  BY <1>1, AdvanceType, FlushLacesType
<1>3. FlushLaces(FlushLaces(Advance(w, p), OtherLaces(p)), {p.stream}) \in MuxState
  BY <1>1, <1>2, FlushLacesType
<1> QED BY <1>2, <1>3, StartClusterType DEF Placed

CueDuration(p) ==
  IF p.dur = None \/ PtsToMs(p.dur, p.stream) < 0 THEN None ELSE PtsToMs(p.dur, p.stream)

Reference(w, p, ms) == IF p.group THEN DerivedReference(w, p, ms) ELSE None

LEMMA PacketFacts ==
  ASSUME NEW w \in MuxState, NEW p \in Packet, NEW ms \in Int
  PROVE  /\ p.stream \in Streams /\ p.key \in BOOLEAN /\ p.size \in Nat
         /\ CueDuration(p) \in Nat \cup {None}
         /\ Reference(w, p, ms) \in Int \cup {None}
<1>1. p.stream \in Streams /\ p.dur \in Int \cup {None} /\ p.key \in BOOLEAN /\ p.size \in Nat
  BY DEF Packet
<1>2. CueDuration(p) \in Nat \cup {None}
  <2>1. CASE p.dur = None
    BY <2>1 DEF CueDuration
  <2>2. CASE p.dur # None
    <3>1. PtsToMs(p.dur, p.stream) \in Int
      BY <1>1, <2>2, PtsToMsType
    <3> QED BY <2>2, <3>1 DEF CueDuration
  <2> QED BY <2>1, <2>2
<1>3. w.last_block_pts_ms[p.stream] \in Int \cup {None}
  BY <1>1 DEF MuxState
<1>4. Reference(w, p, ms) \in Int \cup {None}
  BY <1>3 DEF Reference, DerivedReference
<1> QED BY <1>1, <1>2, <1>4

LEMMA StoredType ==
  ASSUME NEW w \in MuxState, NEW p \in Packet, NEW ms \in Int, NEW frame \in Frame
  PROVE  Stored(w, p, ms, frame) \in MuxState
<1> DEFINE s == p.stream
           off == ms - w.cluster_timecode_ms
           now == Lacing = "None" \/ p.group
           cued == IF now /\ Cued(w, p) THEN PushCue(w, s, ms, CueDuration(p)) ELSE w
           v == IF now THEN WriteBlock(cued, s, off, p.key, <<frame>>, p.size, Reference(w, p, ms))
                ELSE AppendToLace(cued, s, off, p, frame)
           f == [v.last_block_pts_ms EXCEPT ![s] = ms]
<1>1. /\ s \in Streams /\ p.key \in BOOLEAN /\ p.size \in Nat /\ <<frame>> \in Seq(Frame)
      /\ CueDuration(p) \in Nat \cup {None} /\ Reference(w, p, ms) \in Int \cup {None}
  BY PacketFacts
<1>2. off \in Int
  BY DEF MuxState
<1>3. cued \in MuxState
  BY <1>1, PushCueType
<1>4. Stored(w, p, ms, frame) = [v EXCEPT !.last_block_pts_ms[s] = ms]
  BY DEF Stored, CueDuration, Reference
<1> HIDE DEF cued, off
<1>5. v \in MuxState
  BY <1>1, <1>2, <1>3, WriteBlockType, AppendToLaceType
<1> HIDE DEF v
<1>6. f \in [Streams -> Int \cup {None}]
  BY <1>1, <1>5 DEF MuxState
<1>7. Stored(w, p, ms, frame) = [v EXCEPT !.last_block_pts_ms = f]
  BY <1>4, <1>5 DEF MuxState
<1> HIDE DEF f
<1> QED BY <1>5, <1>6, <1>7, ZenonT(60) DEF MuxState

LEMMA CuePointsType ==
  ASSUME NEW cues \in Seq(CueRecord)
  PROVE  CuePoints(cues) \in SUBSET CuePoint /\ CuesSize(cues) \in Nat \ {0}
<1> DEFINE records == {cues[i] : i \in DOMAIN cues}
           Point(t) == [time |-> t, entries |-> {c \in records : c.time_ms = t}]
           f == [i \in DOMAIN cues |-> Point(cues[i].time_ms)]
<1>1. \A i \in DOMAIN cues : cues[i] \in CueRecord
  OBVIOUS
<1>2. CuePoints(cues) = {Point(t) : t \in {c.time_ms : c \in records}}
  BY DEF CuePoints
<1>3. CuePoints(cues) \in SUBSET CuePoint
  <2> SUFFICES ASSUME NEW i \in DOMAIN cues PROVE Point(cues[i].time_ms) \in CuePoint
    BY <1>2
  <2>1. cues[i].time_ms \in Nat
    BY <1>1 DEF CueRecord
  <2>2. {c \in records : c.time_ms = cues[i].time_ms} \in SUBSET CueRecord
    BY <1>1
  <2> QED BY <2>1, <2>2 DEF CuePoint
<1>4. f \in Surjection(DOMAIN cues, CuePoints(cues))
  <2>1. f \in [DOMAIN cues -> CuePoints(cues)]
    <3> SUFFICES ASSUME NEW i \in DOMAIN cues PROVE Point(cues[i].time_ms) \in CuePoints(cues)
      OBVIOUS
    <3>1. cues[i].time_ms \in {c.time_ms : c \in records}
      OBVIOUS
    <3> HIDE DEF records
    <3> QED BY <1>2, <3>1
  <2>2. \A x \in CuePoints(cues) : \E i \in DOMAIN cues : f[i] = x
    <3> SUFFICES ASSUME NEW x \in CuePoints(cues) PROVE \E i \in DOMAIN cues : f[i] = x
      OBVIOUS
    <3>1. PICK c \in records : x = Point(c.time_ms)
      BY <1>2
    <3>2. PICK i \in DOMAIN cues : c = cues[i]
      BY <3>1
    <3> QED BY <3>1, <3>2
  <2> QED BY <2>1, <2>2 DEF Surjection
<1>5. IsFiniteSet(DOMAIN cues)
  <2>1. DOMAIN cues = 1 .. Len(cues) /\ Len(cues) \in Nat
    OBVIOUS
  <2> QED BY <2>1, FS_Interval
<1>6. IsFiniteSet(CuePoints(cues))
  BY <1>4, <1>5, FS_Surjection
<1>7. Cardinality(CuePoints(cues)) \in Nat
  BY <1>6, FS_CardinalityType
<1>8. Len(cues) \in Nat
  OBVIOUS
<1> QED BY <1>3, <1>7, <1>8 DEF CuesSize

LEMMA PlaceCuesType ==
  ASSUME NEW w \in MuxState
  PROVE  PlaceCues(w) \in MuxState /\ CuesEntry(w) \in Int \cup {None, Void}
<1> DEFINE e == [kind |-> "Cues", at |-> w.pos, size |-> CuesSize(w.cues),
                 index |-> CuePoints(w.cues)]
           points == CuePoints(w.cues)
           front == [w EXCEPT !.front_cues = points]
<1>1. w.cues \in Seq(CueRecord) /\ w.pos \in Nat /\ w.front_slot \in Nat \cup {None}
  BY DEF MuxState
<1>2. points \in SUBSET CuePoint /\ CuesSize(w.cues) \in Nat \ {0}
  BY <1>1, CuePointsType
<1>3. e \in Element
  BY <1>1, <1>2 DEF Element
<1>4. Emit(w, e) \in MuxState
  BY <1>3, EmitType
<1>5. front \in MuxState
  <2> HIDE DEF points
  <2> QED BY <1>2 DEF MuxState
<1>6. CuesEntry(w) \in Int \cup {None, Void}
  BY <1>1, ConfigAssumption DEF CuesEntry, FitsFront
<1>7. PlaceCues(w) \in {w, front, Emit(w, e)}
  BY DEF PlaceCues
<1> HIDE DEF e, front
<1> QED BY <1>4, <1>5, <1>6, <1>7

LEMMA ClosedType ==
  ASSUME NEW w \in MuxState
  PROVE  [w EXCEPT !.cluster_open = FALSE] \in MuxState
BY DEF MuxState

LEMMA TypeInit == Init => TypeOK
<1> SUFFICES ASSUME Init PROVE TypeOK
  OBVIOUS
<1> DEFINE unseen == [s \in Streams |-> FALSE]
           laces == [s \in Streams |-> EmptyLace]
           zero == [s \in Streams |-> 0]
           none == [s \in Streams |-> None]
<1>1. EmptyLace \in Lace
  BY DEF EmptyLace, Lace
<1>2. /\ unseen \in [Streams -> BOOLEAN] /\ laces \in [Streams -> Lace]
      /\ zero \in [Streams -> Int] /\ none \in [Streams -> Int \cup {None}]
  BY <1>1
<1> HIDE DEF unseen, laces, zero, none
<1>3. NewMux \in MuxState
  BY <1>2 DEF NewMux, MuxState, unseen, laces, zero, none
<1> QED BY <1>3, ConfigAssumption DEF Init, TypeOK

(* Every call keeps the type: for every configuration, every packet and    *)
(* every order of the calls, a refused packet and a failed Cluster header  *)
(* included.                                                               *)
THEOREM TypeInvariant == Spec => []TypeOK
<1>1. TypeOK /\ [Next]_vars => TypeOK'
  <2> SUFFICES ASSUME TypeOK, [Next]_vars PROVE TypeOK'
    OBVIOUS
  <2> USE DEF TypeOK
  <2>1. mux \in MuxState /\ accepted \in Seq(Frame) /\ calls \in 0 .. MaxCalls /\ MaxCalls \in Nat
    BY ConfigAssumption
  <2>2. CASE WriteHeader
    <3> DEFINE at == SegmentStart + HeadSize + FrontReserved
               sc == IF Live THEN None ELSE 0
               fs == IF FrontReserved = 0 THEN None ELSE SegmentStart + HeadSize
               du == IF Finalize THEN Void ELSE None
    <3>1. at \in Nat /\ sc \in Int \cup {None, Void} /\ fs \in Nat \cup {None}
          /\ du \in Nat \cup {None, Void}
      BY ConfigAssumption
    <3>2. mux' = [mux EXCEPT !.header_written = TRUE, !.pos = at, !.seek_cues = sc,
                             !.front_slot = fs, !.duration = du]
      BY <2>2 DEF WriteHeader
    <3> HIDE DEF at, sc, fs, du
    <3>3. mux' \in MuxState
      BY <2>1, <3>1, <3>2 DEF MuxState
    <3> QED BY <2>1, <2>2, <3>3 DEF WriteHeader
  <2>3. ASSUME NEW p \in Packets, WritePacket(p) PROVE TypeOK'
    <3> DEFINE ms == PtsToMs(EffectivePts(mux, p), p.stream)
               frame == [id |-> Len(accepted) + 1, stream |-> p.stream, ms |-> ms,
                         end_ms |-> EndMs(mux, p), key |-> p.key, size |-> p.size]
    <3>1. p \in Packet
      BY InputAssumption
    <3>2. ms \in Int /\ EndMs(mux, p) \in Int
      BY <2>1, <3>1, PacketTimes
    <3>3. frame \in Frame
      BY <2>1, <3>1, <3>2 DEF Frame, Packet
    <3>4. /\ \/ mux' = Placed(mux, p, ms) /\ accepted' = accepted
             \/ mux' = Stored(Placed(mux, p, ms), p, ms, frame) /\ accepted' = Append(accepted, frame)
          /\ calls' = calls + 1 /\ calls < MaxCalls
      BY <2>3 DEF WritePacket
    <3> HIDE DEF ms, frame
    <3>5. Placed(mux, p, ms) \in MuxState
      BY <2>1, <3>1, <3>2, PlacedType
    <3>6. Stored(Placed(mux, p, ms), p, ms, frame) \in MuxState
      BY <3>1, <3>2, <3>3, <3>5, StoredType
    <3> QED BY <2>1, <3>3, <3>4, <3>5, <3>6
  <2>4. ASSUME NEW S \in SilentLists, SetNextClusterSilentTracks(S) PROVE TypeOK'
    <3>1. S \in SUBSET Streams
      BY InputAssumption
    <3>2. mux' \in MuxState
      BY <2>1, <2>4, <3>1 DEF SetNextClusterSilentTracks, MuxState
    <3> QED BY <2>1, <2>4, <3>2 DEF SetNextClusterSilentTracks
  <2>5. CASE WriteLiveTags
    <3> DEFINE w == FlushLaces(mux, Streams)
               c == [w EXCEPT !.cluster_open = FALSE]
               e == [kind |-> "Tags", at |-> w.pos, size |-> 1]
    <3>1. w \in MuxState
      BY <2>1, FlushLacesType
    <3>2. mux' = Emit(c, e) /\ calls < MaxCalls /\ calls' = calls + 1 /\ accepted' = accepted
      BY <2>5 DEF WriteLiveTags
    <3> HIDE DEF w
    <3>3. c \in MuxState
      BY <3>1, ClosedType
    <3>4. e \in Element
      BY <3>1 DEF MuxState, Element
    <3> QED BY <2>1, <3>2, <3>3, <3>4, EmitType
  <2>6. CASE WriteTrailer
    <3> DEFINE w == FlushLaces(mux, Streams)
               x == PlaceCues(w)
               sc == CuesEntry(w)
               du == IF x.duration # None /\ w.max_end_ms # None
                     THEN NonNeg(w.max_end_ms) ELSE x.duration
    <3>1. w \in MuxState
      BY <2>1, FlushLacesType
    <3>2. x \in MuxState /\ sc \in Int \cup {None, Void}
      BY <3>1, PlaceCuesType
    <3>3. du \in Nat \cup {None, Void}
      <4>1. w.max_end_ms \in Int \cup {None}
        BY <3>1 DEF MuxState
      <4>2. x.duration \in Nat \cup {None, Void}
        BY <3>2 DEF MuxState
      <4> HIDE DEF w, x
      <4> QED BY <4>1, <4>2 DEF NonNeg
    <3>4. /\ mux' = [x EXCEPT !.seek_cues = sc, !.duration = du, !.trailer_written = TRUE]
          /\ calls < MaxCalls /\ calls' = calls + 1 /\ accepted' = accepted
      BY <2>6 DEF WriteTrailer
    <3> HIDE DEF w, x, sc, du
    <3>5. mux' \in MuxState
      BY <3>2, <3>3, <3>4 DEF MuxState
    <3> QED BY <2>1, <3>4, <3>5
  <2>7. CASE UNCHANGED vars
    BY <2>7 DEF vars
  <2> QED BY <2>2, <2>3, <2>4, <2>5, <2>6, <2>7 DEF Next
<1> QED BY TypeInit, <1>1, PTL DEF Spec

-----------------------------------------------------------------------------
(* At most one lace is pending, whatever the order of the calls: what a    *)
(* flush touches, and what it leaves alone.                                *)
SameFlags(x, w) ==
  x.trailer_written = w.trailer_written /\ x.header_written = w.header_written

SameCluster(x, w) ==
  /\ x.cluster_open = w.cluster_open
  /\ x.cluster_timecode_ms = w.cluster_timecode_ms
  /\ x.pending_silent_tracks = w.pending_silent_tracks
  /\ SameFlags(x, w)

SameBut(x, w) == SameCluster(x, w) /\ x.lace_pending = w.lace_pending

OneLace(w) ==
  \A s \in Streams : LacePending(w, s) =>
    /\ w.cluster_open /\ Lacing # "None"
    /\ \A t \in Streams : LacePending(w, t) => t = s

LEMMA WriteBlockSame ==
  ASSUME NEW w \in MuxState, NEW s \in Streams, NEW off, NEW key, NEW frames, NEW bytes, NEW ref
  PROVE  SameBut(WriteBlock(w, s, off, key, frames, bytes, ref), w)
BY DEF WriteBlock, Emit, SameBut, SameCluster, SameFlags, MuxState

LEMMA PushCueSame ==
  ASSUME NEW w \in MuxState, NEW s \in Streams, NEW ms, NEW dur
  PROVE  SameBut(PushCue(w, s, ms, dur), w)
BY DEF PushCue, SameBut, SameCluster, SameFlags, MuxState

LEMMA FlushLaceSame ==
  ASSUME NEW w \in MuxState, NEW s \in Streams
  PROVE  /\ SameCluster(FlushLace(w, s), w)
         /\ ~LacePending(FlushLace(w, s), s)
         /\ \A t \in Streams \ {s} : FlushLace(w, s).lace_pending[t] = w.lace_pending[t]
<1> DEFINE lace == w.lace_pending[s]
           cued == IF ~w.cue_seen_in_cluster[s] /\ Indexable(s, lace.keyframe)
                   THEN PushCue(w, s, w.cluster_timecode_ms + lace.first_timecode_offset, None)
                   ELSE w
           x == WriteBlock(cued, s, lace.first_timecode_offset, lace.keyframe,
                           lace.frames, lace.bytes, None)
           y == [x EXCEPT !.lace_pending[s] = [@ EXCEPT !.frames = <<>>, !.bytes = 0]]
<1>1. /\ lace \in Lace /\ w.cluster_timecode_ms \in Nat
      /\ lace.first_timecode_offset \in Int /\ lace.keyframe \in BOOLEAN
      /\ lace.bytes \in Nat /\ lace.frames \in Seq(Frame)
  BY DEF MuxState, Lace
<1>2. cued \in MuxState /\ SameBut(cued, w)
  <2> DEFINE ms == w.cluster_timecode_ms + lace.first_timecode_offset
  <2>1. ms \in Int
    BY <1>1
  <2>2. cued = w \/ cued = PushCue(w, s, ms, None)
    OBVIOUS
  <2> HIDE DEF cued, ms
  <2>3. SameBut(w, w)
    BY DEF SameBut, SameCluster, SameFlags
  <2> QED BY <2>1, <2>2, <2>3, PushCueType, PushCueSame
<1> HIDE DEF cued
<1>3. x \in MuxState /\ SameBut(x, cued)
  BY <1>1, <1>2, WriteBlockType, WriteBlockSame
<1> HIDE DEF x
<1>4. FlushLace(w, s) = IF lace.frames = <<>> THEN w ELSE y
  BY DEF FlushLace, x, cued
<1>5. SameBut(x, w)
  BY <1>2, <1>3 DEF SameBut, SameCluster, SameFlags
<1>6. CASE lace.frames = <<>>
  BY <1>4, <1>6 DEF SameCluster, SameFlags, LacePending
<1>7. CASE lace.frames # <<>>
  <2>1. SameCluster(y, x)
    BY <1>3 DEF SameCluster, SameFlags, MuxState
  <2>2. x.lace_pending \in [Streams -> Lace]
    BY <1>3 DEF MuxState
  <2>3. y.lace_pending = [x.lace_pending EXCEPT ![s] = [@ EXCEPT !.frames = <<>>, !.bytes = 0]]
    BY <1>3 DEF MuxState
  <2> HIDE DEF y
  <2>4. y.lace_pending[s].frames = <<>> /\ \A t \in Streams \ {s} : y.lace_pending[t] = x.lace_pending[t]
    BY <2>2, <2>3 DEF Lace
  <2> QED BY <1>4, <1>5, <1>7, <2>1, <2>4 DEF SameBut, SameCluster, SameFlags, LacePending
<1> QED BY <1>6, <1>7

LEMMA FlushLacesSame ==
  ASSUME NEW w \in MuxState, NEW S \in SUBSET Streams, OneLace(w)
  PROVE  LET x == FlushLaces(w, S)
         IN  /\ SameCluster(x, w) /\ OneLace(x)
             /\ \A s \in Streams : LacePending(x, s) =>
                  s \notin S /\ x.lace_pending[s] = w.lace_pending[s]
<1> DEFINE pending == {s \in S : w.lace_pending[s].frames # <<>>}
           x == FlushLaces(w, S)
<1>1. CASE pending = {}
  <2>1. x = w
    BY <1>1 DEF FlushLaces
  <2> QED BY <1>1, <2>1 DEF SameCluster, SameFlags, LacePending
<1>2. CASE pending # {}
  <2>1. PICK s \in pending : x = FlushLace(w, s)
    BY <1>2 DEF FlushLaces
  <2>2. s \in Streams /\ LacePending(w, s)
    BY <2>1 DEF LacePending
  <2>3. \A t \in Streams : ~LacePending(x, t)
    BY <2>1, <2>2, FlushLaceSame DEF OneLace, LacePending
  <2>4. SameCluster(x, w)
    BY <2>1, <2>2, FlushLaceSame
  <2> QED BY <2>3, <2>4 DEF OneLace
<1> QED BY <1>1, <1>2

LEMMA StartClusterSame ==
  ASSUME NEW w \in MuxState, NEW ms \in Int
  PROVE  LET x == StartCluster(w, ms)
         IN  /\ x.lace_pending = w.lace_pending /\ SameFlags(x, w)
             /\ StartFails(w) => SameCluster(x, w)
             /\ ~StartFails(w) => x.cluster_open /\ x.cluster_timecode_ms = NonNeg(ms)
<1> DEFINE e == Emit(w, ClusterElement(w, ms))
           h == [e EXCEPT !.cluster_offset_rel = w.pos - SegmentStart,
                          !.cluster_body_start = w.pos + 1, !.prev_cluster_start = w.pos]
<1>1. e \in MuxState /\ SameBut(e, w)
  <2>1. e \in MuxState
    BY ClusterElementType, EmitType
  <2>2. SameBut(e, w)
    BY DEF Emit, SameBut, SameCluster, SameFlags, MuxState
  <2> QED BY <2>1, <2>2
<1>2. StartCluster(w, ms) = IF StartFails(w) THEN h ELSE OpenCluster(h, ms)
  BY DEF StartCluster
<1> HIDE DEF e
<1>3. SameBut(h, e) /\ DOMAIN h = DOMAIN e
  BY <1>1 DEF SameBut, SameCluster, SameFlags, MuxState
<1>4. /\ OpenCluster(h, ms).cluster_open
      /\ OpenCluster(h, ms).cluster_timecode_ms = NonNeg(ms)
      /\ OpenCluster(h, ms).lace_pending = h.lace_pending
      /\ OpenCluster(h, ms).trailer_written = h.trailer_written
      /\ OpenCluster(h, ms).header_written = h.header_written
  BY <1>1 DEF OpenCluster, MuxState
<1> HIDE DEF h
<1> QED BY <1>1, <1>2, <1>3, <1>4 DEF SameBut, SameCluster, SameFlags

LEMMA AdvanceSame ==
  ASSUME NEW w \in MuxState, NEW p \in Packet
  PROVE  /\ SameBut(Advance(w, p), w)
         /\ Advance(w, p).out = w.out /\ Advance(w, p).cues = w.cues /\ Advance(w, p).pos = w.pos
         /\ Advance(w, p).cluster_block_count = w.cluster_block_count
         /\ Advance(w, p).cluster_offset_rel = w.cluster_offset_rel
         /\ Advance(w, p).cluster_body_start = w.cluster_body_start
BY DEF Advance, SameBut, SameCluster, SameFlags, MuxState

LEMMA PlacedOneLace ==
  ASSUME NEW w \in MuxState, NEW p \in Packet, NEW ms \in Int, OneLace(w)
  PROVE  LET x == Placed(w, p, ms)
         IN  /\ OneLace(x)
             /\ \A s \in Streams : LacePending(x, s) => s = p.stream /\ ~p.group
             /\ ~Refused(w, p, ms) => x.cluster_open
             /\ SameFlags(x, w)
<1> DEFINE a == Advance(w, p)
           v == FlushLaces(a, OtherLaces(p))
           u == FlushLaces(v, {p.stream})
           x == Placed(w, p, ms)
<1>1. p.stream \in Streams /\ OtherLaces(p) \in SUBSET Streams
  BY DEF Packet, OtherLaces
<1>2. a \in MuxState /\ OneLace(a) /\ SameFlags(a, w)
  BY AdvanceType, AdvanceSame DEF SameBut, SameCluster, SameFlags, OneLace, LacePending
<1>3. /\ v \in MuxState /\ OneLace(v) /\ SameFlags(v, w)
      /\ \A s \in Streams : LacePending(v, s) => s \notin OtherLaces(p)
  <2>1. /\ v \in MuxState /\ OneLace(v) /\ SameCluster(v, a)
        /\ \A s \in Streams : LacePending(v, s) => s \notin OtherLaces(p)
    BY <1>1, <1>2, FlushLacesType, FlushLacesSame
  <2> QED BY <1>2, <2>1 DEF SameCluster, SameFlags
<1>4. \A s \in Streams : LacePending(v, s) => s = p.stream /\ ~p.group
  BY <1>3 DEF OtherLaces
<1>5. x = IF NeedsNewCluster(v, ms) THEN StartCluster(u, ms) ELSE v
  BY DEF Placed
<1>6. Refused(w, p, ms) \/ ~(NeedsNewCluster(v, ms) /\ StartFails(v))
  BY DEF Refused
<1> HIDE DEF x, v
<1>7. CASE ~NeedsNewCluster(v, ms)
  <2>1. v.cluster_open
    BY <1>3, <1>7 DEF NeedsNewCluster, MuxState
  <2> QED BY <1>3, <1>4, <1>5, <1>7, <2>1 DEF x
<1>8. CASE NeedsNewCluster(v, ms)
  <2>1. /\ u \in MuxState /\ OneLace(u) /\ SameCluster(u, v)
        /\ \A s \in Streams : LacePending(u, s) => s # p.stream /\ u.lace_pending[s] = v.lace_pending[s]
    BY <1>1, <1>3, FlushLacesType, FlushLacesSame
  <2>2. \A s \in Streams : ~LacePending(u, s)
    BY <1>4, <2>1 DEF LacePending
  <2>3. StartFails(u) <=> StartFails(v)
    BY <2>1 DEF StartFails, SameCluster, SameFlags
  <2> HIDE DEF u
  <2>4. /\ x.lace_pending = u.lace_pending /\ (~StartFails(u) => x.cluster_open)
        /\ SameFlags(x, u)
    BY <1>5, <1>8, <2>1, StartClusterSame
  <2>6. SameFlags(x, w)
    BY <1>3, <2>1, <2>4 DEF SameCluster, SameFlags
  <2>5. \A s \in Streams : ~LacePending(x, s)
    BY <2>2, <2>4 DEF LacePending
  <2> QED BY <1>6, <1>8, <2>3, <2>4, <2>5, <2>6 DEF OneLace, x
<1> QED BY <1>7, <1>8 DEF x

LEMMA AppendToLaceSame ==
  ASSUME NEW w \in MuxState, NEW s \in Streams, NEW off \in Int, NEW p \in Packet,
         NEW frame \in Frame
  PROVE  LET x == AppendToLace(w, s, off, p, frame)
         IN  /\ SameCluster(x, w)
             /\ \A t \in Streams \ {s} : x.lace_pending[t] = w.lace_pending[t]
<1> DEFINE v == IF CannotJoin(w.lace_pending[s], p) THEN FlushLace(w, s) ELSE w
           lace == v.lace_pending[s]
           seed == lace.frames = <<>>
           l == [first_timecode_offset |-> IF seed THEN off ELSE lace.first_timecode_offset,
                 keyframe |-> IF seed THEN p.key ELSE lace.keyframe,
                 bytes |-> lace.bytes + p.size,
                 frames |-> Append(lace.frames, frame)]
<1>1. /\ v \in MuxState /\ SameCluster(v, w)
      /\ \A t \in Streams \ {s} : v.lace_pending[t] = w.lace_pending[t]
  BY FlushLaceType, FlushLaceSame DEF SameCluster, SameFlags
<1>2. AppendToLace(w, s, off, p, frame) = [v EXCEPT !.lace_pending[s] = l]
  BY DEF AppendToLace
<1> HIDE DEF v, l
<1> QED BY <1>1, <1>2 DEF MuxState, SameCluster, SameFlags

LEMMA StoredOneLace ==
  ASSUME NEW w \in MuxState, NEW p \in Packet, NEW ms \in Int, NEW frame \in Frame,
         w.cluster_open, OneLace(w),
         \A s \in Streams : LacePending(w, s) => s = p.stream
  PROVE  OneLace(Stored(w, p, ms, frame)) /\ SameFlags(Stored(w, p, ms, frame), w)
<1> DEFINE s == p.stream
           off == ms - w.cluster_timecode_ms
           now == Lacing = "None" \/ p.group
           cued == IF now /\ Cued(w, p) THEN PushCue(w, s, ms, CueDuration(p)) ELSE w
           v == IF now THEN WriteBlock(cued, s, off, p.key, <<frame>>, p.size, Reference(w, p, ms))
                ELSE AppendToLace(cued, s, off, p, frame)
           x == Stored(w, p, ms, frame)
<1>1. s \in Streams /\ CueDuration(p) \in Nat \cup {None} /\ off \in Int
  <2>1. off \in Int
    BY DEF MuxState
  <2> QED BY <2>1, PacketFacts
<1>2. x = [v EXCEPT !.last_block_pts_ms[s] = ms]
  BY DEF Stored, CueDuration, Reference
<1>3. cued \in MuxState /\ SameBut(cued, w)
  <2>1. cued = w \/ cued = PushCue(w, s, ms, CueDuration(p))
    OBVIOUS
  <2>2. SameBut(w, w)
    BY DEF SameBut, SameCluster, SameFlags
  <2> HIDE DEF cued
  <2> QED BY <1>1, <2>1, <2>2, PushCueType, PushCueSame
<1> HIDE DEF cued, off
<1>4. /\ v \in MuxState /\ v.cluster_open = w.cluster_open /\ SameFlags(v, w)
      /\ now => v.lace_pending = w.lace_pending
      /\ \A t \in Streams \ {s} : v.lace_pending[t] = w.lace_pending[t]
  <2>1. CASE now
    <3>1. v \in MuxState
      <4>1. p.key \in BOOLEAN /\ p.size \in Nat /\ Reference(w, p, ms) \in Int \cup {None}
            /\ <<frame>> \in Seq(Frame)
        BY PacketFacts
      <4> QED BY <1>1, <1>3, <2>1, <4>1, WriteBlockType
    <3>2. SameBut(v, cued)
      BY <1>1, <1>3, <2>1, WriteBlockSame
    <3> QED BY <1>3, <2>1, <3>1, <3>2 DEF SameBut, SameCluster, SameFlags
  <2>2. CASE ~now
    <3>1. v \in MuxState /\ SameCluster(v, cued)
          /\ \A t \in Streams \ {s} : v.lace_pending[t] = cued.lace_pending[t]
      BY <1>1, <1>3, <2>2, AppendToLaceType, AppendToLaceSame
    <3> QED BY <1>3, <2>2, <3>1 DEF SameBut, SameCluster, SameFlags
  <2> QED BY <2>1, <2>2
<1> HIDE DEF v
<1>5. x.lace_pending = v.lace_pending /\ x.cluster_open = v.cluster_open /\ SameFlags(x, w)
  BY <1>2, <1>4 DEF MuxState, SameFlags
<1>6. CASE now
  BY <1>4, <1>5, <1>6 DEF OneLace, LacePending
<1>7. CASE ~now
  <2>1. \A t \in Streams : LacePending(x, t) => t = s
    BY <1>4, <1>5 DEF LacePending
  <2> QED BY <1>4, <1>5, <1>7, <2>1 DEF OneLace
<1> QED BY <1>6, <1>7

LEMMA PlaceCuesSame ==
  ASSUME NEW w \in MuxState
  PROVE  PlaceCues(w).lace_pending = w.lace_pending
<1> DEFINE e == [kind |-> "Cues", at |-> w.pos, size |-> CuesSize(w.cues),
                 index |-> CuePoints(w.cues)]
           points == CuePoints(w.cues)
<1>1. PlaceCues(w) \in {w, [w EXCEPT !.front_cues = points], Emit(w, e)}
  BY DEF PlaceCues
<1> HIDE DEF e, points
<1>2. Emit(w, e).lace_pending = w.lace_pending
  BY DEF Emit, MuxState
<1>3. [w EXCEPT !.front_cues = points].lace_pending = w.lace_pending
  BY DEF MuxState
<1> QED BY <1>1, <1>2, <1>3

(* At most one lace is pending at any time, in an open Cluster: the loops  *)
(* that flush laces have one Block to write, so their order over the       *)
(* streams does not matter.                                                *)
THEOREM OneLaceInvariant == Spec => []OneLacePending
<1>1. Init => OneLace(mux)
  BY DEF Init, NewMux, EmptyLace, OneLace, LacePending
<1>2. TypeOK /\ OneLace(mux) /\ [Next]_vars => OneLace(mux')
  <2> SUFFICES ASSUME TypeOK, OneLace(mux), [Next]_vars PROVE OneLace(mux')
    OBVIOUS
  <2>1. mux \in MuxState /\ accepted \in Seq(Frame)
    BY DEF TypeOK
  <2>2. CASE WriteHeader
    <3>1. mux'.lace_pending = mux.lace_pending /\ mux'.cluster_open = mux.cluster_open
      BY <2>1, <2>2 DEF WriteHeader, MuxState
    <3> QED BY <3>1 DEF OneLace, LacePending
  <2>3. ASSUME NEW p \in Packets, WritePacket(p) PROVE OneLace(mux')
    <3> DEFINE ms == PtsToMs(EffectivePts(mux, p), p.stream)
               frame == [id |-> Len(accepted) + 1, stream |-> p.stream, ms |-> ms,
                         end_ms |-> EndMs(mux, p), key |-> p.key, size |-> p.size]
               w == Placed(mux, p, ms)
    <3>1. p \in Packet
      BY InputAssumption
    <3>2. ms \in Int /\ EndMs(mux, p) \in Int
      BY <2>1, <3>1, PacketTimes
    <3>3. frame \in Frame
      BY <2>1, <3>1, <3>2 DEF Frame, Packet
    <3>4. \/ Refused(mux, p, ms) /\ mux' = w
          \/ ~Refused(mux, p, ms) /\ mux' = Stored(w, p, ms, frame)
      BY <2>3 DEF WritePacket
    <3> HIDE DEF ms, frame
    <3>5. w \in MuxState
      BY <2>1, <3>1, <3>2, PlacedType
    <3>6. /\ OneLace(w)
          /\ \A s \in Streams : LacePending(w, s) => s = p.stream
          /\ ~Refused(mux, p, ms) => w.cluster_open
      BY <2>1, <3>1, <3>2, PlacedOneLace
    <3> HIDE DEF w
    <3> QED BY <3>1, <3>2, <3>3, <3>4, <3>5, <3>6, StoredOneLace
  <2>4. ASSUME NEW S \in SilentLists, SetNextClusterSilentTracks(S) PROVE OneLace(mux')
    <3>1. mux'.lace_pending = mux.lace_pending /\ mux'.cluster_open = mux.cluster_open
      BY <2>1, <2>4 DEF SetNextClusterSilentTracks, MuxState
    <3> QED BY <3>1 DEF OneLace, LacePending
  <2>5. ASSUME WriteLiveTags \/ WriteTrailer PROVE OneLace(mux')
    <3> DEFINE w == FlushLaces(mux, Streams)
    <3>1. w \in MuxState /\ \A s \in Streams : ~LacePending(w, s)
      BY <2>1, FlushLacesType, FlushLacesSame
    <3> HIDE DEF w
    <3>2. mux'.lace_pending = w.lace_pending
      <4>1. CASE WriteLiveTags
        BY <3>1, <4>1 DEF WriteLiveTags, Emit, MuxState, w
      <4>2. CASE WriteTrailer
        <5>1. PlaceCues(w) \in MuxState /\ PlaceCues(w).lace_pending = w.lace_pending
          BY <3>1, PlaceCuesType, PlaceCuesSame
        <5> QED BY <4>2, <5>1 DEF WriteTrailer, MuxState, w
      <4> QED BY <2>5, <4>1, <4>2
    <3> QED BY <3>1, <3>2 DEF OneLace, LacePending
  <2>6. CASE UNCHANGED vars
    BY <2>6 DEF vars, OneLace, LacePending
  <2> QED BY <2>2, <2>3, <2>4, <2>5, <2>6 DEF Next
<1>3. TypeOK /\ OneLace(mux) /\ [Next]_vars => OneLace(mux)'
  BY <1>2 DEF OneLace, LacePending
<1>4. OneLace(mux) => OneLacePending
  BY DEF OneLace, OneLacePending, Pending, LacePending
<1> QED BY <1>1, <1>3, <1>4, TypeInvariant, PTL DEF Spec

-----------------------------------------------------------------------------
(* What is known of the elements already written stays known when one more *)
(* is appended.                                                            *)
LEMMA AppendKeepsBlocks ==
  ASSUME NEW out \in Seq(Element), NEW e \in Element, NEW i, NEW j, Holds(out, i, j)
  PROVE  /\ Holds(Append(out, e), i, j)
         /\ Append(out, e)[i] = out[i] /\ Append(out, e)[j] = out[j]
BY DEF Holds

LEMMA AppendKeeps ==
  ASSUME NEW out \in Seq(Element), NEW e \in Element, NEW cues,
         BlocksKnown(out), CuesKnown(out, cues)
  PROVE  /\ CuesKnown(Append(out, e), cues)
         /\ \A j \in DOMAIN out : out[j].kind = "Block" =>
              \E i \in DOMAIN Append(out, e) : DecodesIn(Append(out, e), j, i)
         /\ e.kind # "Block" => BlocksKnown(Append(out, e))
<1> DEFINE o == Append(out, e)
<1>1. \A i \in DOMAIN out : i \in DOMAIN o /\ o[i] = out[i]
  OBVIOUS
<1>2. CuesKnown(o, cues)
  <2> SUFFICES ASSUME NEW n \in DOMAIN cues PROVE CueLands(o, cues[n])
    BY DEF CuesKnown
  <2>1. PICK i \in DOMAIN out, j \in DOMAIN out :
          Points(out, cues[n], i, j) /\ Indexable(out[j].track, out[j].key)
    BY DEF CuesKnown, CueLands
  <2>2. Holds(o, i, j)
    BY <2>1, AppendKeepsBlocks DEF Points
  <2>3. Points(o, cues[n], i, j) /\ Indexable(o[j].track, o[j].key)
    BY <1>1, <2>1, <2>2 DEF Points, TimeOf
  <2> QED BY <1>1, <2>3 DEF CueLands
<1>3. ASSUME NEW j \in DOMAIN out, out[j].kind = "Block"
      PROVE  \E i \in DOMAIN o : DecodesIn(o, j, i)
  <2>1. PICK i \in DOMAIN out : DecodesIn(out, j, i)
    BY <1>3 DEF BlocksKnown
  <2>2. Holds(o, i, j)
    BY <2>1, AppendKeepsBlocks DEF DecodesIn
  <2> QED BY <1>1, <2>1, <2>2 DEF DecodesIn, TimeOf
<1>4. ASSUME e.kind # "Block" PROVE BlocksKnown(o)
  <2>1. \A j \in DOMAIN o : o[j].kind = "Block" => j \in DOMAIN out
    BY <1>4
  <2> QED BY <1>1, <1>3, <2>1 DEF BlocksKnown
<1> QED BY <1>2, <1>3, <1>4

-----------------------------------------------------------------------------
(* The heart of the argument: a Block written at the end of the open       *)
(* Cluster, with the cue that announces it or without one, leaves every    *)
(* cue on its Block and every Block in its Cluster.                        *)
Stores(w, v, s, off, key, frames) ==
  /\ w \in MuxState /\ w.cluster_open
  /\ OpenClusterKnown(w) /\ BlocksKnown(w.out) /\ CuesKnown(w.out, w.cues)
  /\ frames \in Seq(Frame) /\ frames # <<>>
  /\ frames[1].ms = w.cluster_timecode_ms + off
  /\ \/ v = w
     \/ /\ Indexable(s, key)
        /\ \E dur \in Nat \cup {None} : v = PushCue(w, s, w.cluster_timecode_ms + off, dur)

LEMMA BlockStored ==
  ASSUME NEW w, NEW v, NEW s \in Streams, NEW off \in I16Min .. I16Max, NEW key \in BOOLEAN,
         NEW frames, NEW bytes \in Nat, NEW ref \in Int \cup {None},
         Stores(w, v, s, off, key, frames)
  PROVE  LET x == WriteBlock(v, s, off, key, frames, bytes, ref)
         IN  /\ x \in MuxState /\ SameBut(x, w)
             /\ OpenClusterKnown(x) /\ BlocksKnown(x.out) /\ CuesKnown(x.out, x.cues)
<1> DEFINE x == WriteBlock(v, s, off, key, frames, bytes, ref)
           e == [kind |-> "Block", at |-> w.pos, size |-> 1 + bytes, track |-> s,
                 off |-> off, key |-> key, frames |-> frames, ref |-> ref]
           c == Len(w.out) - w.cluster_block_count
           n == Len(w.out) + 1
<1>0. w \in MuxState /\ w.cluster_open /\ frames \in Seq(Frame) /\ off \in Int
  BY ConfigAssumption DEF Stores
<1>1. w.cluster_timecode_ms + off \in Int
  BY <1>0 DEF MuxState
<1>2. v \in MuxState
  BY <1>0, <1>1, PushCueType DEF Stores
<1>3. x \in MuxState
  BY <1>0, <1>2, WriteBlockType
<1>4. /\ v.out = w.out /\ v.pos = w.pos /\ v.cluster_block_count = w.cluster_block_count
      /\ v.cluster_offset_rel = w.cluster_offset_rel
      /\ v.cluster_body_start = w.cluster_body_start
      /\ SameBut(v, w)
  <2>1. CASE v = w
    BY <2>1 DEF SameBut, SameCluster, SameFlags
  <2>2. CASE v # w
    <3>1. PICK dur \in Nat \cup {None} : v = PushCue(w, s, w.cluster_timecode_ms + off, dur)
      BY <2>2 DEF Stores
    <3>2. SameBut(v, w)
      BY <1>0, <3>1, PushCueSame
    <3> QED BY <1>0, <3>1, <3>2 DEF PushCue, MuxState
  <2> QED BY <2>1, <2>2
<1>5. /\ x.out = Append(w.out, e) /\ x.pos = w.pos + (1 + bytes)
      /\ x.cluster_block_count = w.cluster_block_count + 1
      /\ x.cluster_offset_rel = w.cluster_offset_rel
      /\ x.cluster_body_start = w.cluster_body_start
      /\ x.cues = v.cues /\ SameBut(x, w)
  <2>1. SameBut(x, w)
    BY <1>2, <1>4, WriteBlockSame DEF SameBut, SameCluster, SameFlags
  <2> QED BY <1>2, <1>4, <2>1 DEF WriteBlock, Emit, MuxState
<1>6. /\ w.out \in Seq(Element) /\ e \in Element /\ w.cluster_block_count \in Nat
      /\ w.pos \in Nat /\ w.cluster_body_start \in Nat /\ w.cluster_timecode_ms \in Nat
      /\ w.cluster_offset_rel \in Int
  BY <1>0 DEF MuxState, Element
<1>7. /\ c \in DOMAIN w.out /\ w.out[c].kind = "Cluster"
      /\ \A k \in c + 1 .. Len(w.out) : w.out[k].kind = "Block"
      /\ w.out[c].at = w.cluster_offset_rel + SegmentStart
      /\ w.out[c].body = w.cluster_body_start
      /\ w.out[c].ts = w.cluster_timecode_ms
      /\ w.cluster_body_start <= w.pos
  BY <1>0 DEF Stores, OpenClusterKnown
<1> DEFINE o == Append(w.out, e)
<1> HIDE DEF x, e
<1>8. /\ o \in Seq(Element) /\ Len(o) = n /\ o[n] = e /\ o[c] = w.out[c]
      /\ c \in DOMAIN o /\ n \in DOMAIN o /\ x.out = o
      /\ \A k \in DOMAIN w.out : o[k] = w.out[k]
  <2>1. x.out = o
    BY <1>5
  <2>2. o \in Seq(Element) /\ Len(o) = n /\ o[n] = e
    BY <1>6
  <2>3. \A k \in DOMAIN w.out : k \in DOMAIN o /\ o[k] = w.out[k]
    BY <1>6
  <2>4. n \in DOMAIN o
    BY <1>6, <2>2
  <2> QED BY <1>7, <2>1, <2>2, <2>3, <2>4
<1> HIDE DEF o
<1>9. e.kind = "Block" /\ e.at = w.pos /\ e.track = s /\ e.off = off /\ e.key = key /\ e.frames = frames
  BY DEF e
<1>10. \A k \in c + 1 .. n : o[k].kind = "Block"
  <2> SUFFICES ASSUME NEW k \in c + 1 .. n PROVE o[k].kind = "Block"
    OBVIOUS
  <2>1. CASE k = n
    BY <1>8, <1>9, <2>1
  <2>2. CASE k # n
    <3>1. Len(w.out) \in Nat /\ DOMAIN w.out = 1 .. Len(w.out)
      BY <1>6
    <3>2. k \in c + 1 .. Len(w.out) /\ k \in DOMAIN w.out
      BY <1>7, <2>2, <3>1
    <3> QED BY <1>7, <1>8, <3>2
  <2> QED BY <2>1, <2>2
<1>11. Holds(o, c, n)
  BY <1>6, <1>7, <1>8, <1>10 DEF Holds
<1>12. OpenClusterKnown(x)
  <2>1. Len(x.out) - x.cluster_block_count = c
    <3>1. Len(w.out) \in Nat /\ w.cluster_block_count \in Nat
      BY <1>6
    <3>2. Len(x.out) = Len(w.out) + 1 /\ x.cluster_block_count = w.cluster_block_count + 1
      BY <1>5, <1>8
    <3> QED BY <3>1, <3>2
  <2> HIDE DEF c
  <2>2. x.cluster_body_start <= x.pos
    BY <1>5, <1>6, <1>7
  <2> QED BY <1>5, <1>7, <1>8, <1>10, <2>1, <2>2 DEF OpenClusterKnown, SameBut, SameCluster, SameFlags
<1>13. BlocksKnown(w.out) /\ CuesKnown(w.out, w.cues) /\ frames[1].ms = w.cluster_timecode_ms + off
  BY DEF Stores
<1>14. BlocksKnown(o)
  <2>1. DecodesIn(o, n, c)
    BY <1>7, <1>8, <1>9, <1>11, <1>13 DEF DecodesIn, TimeOf
  <2>2. \A j \in DOMAIN o : j = n \/ (j \in DOMAIN w.out /\ o[j] = w.out[j])
    BY <1>6, <1>8
  <2>3. \A j \in DOMAIN w.out : w.out[j].kind = "Block" => \E i \in DOMAIN o : DecodesIn(o, j, i)
    BY <1>6, <1>13, AppendKeeps DEF o
  <2> QED BY <1>8, <2>1, <2>2, <2>3 DEF BlocksKnown
<1>15. CuesKnown(o, v.cues)
  <2>1. CuesKnown(o, w.cues)
    BY <1>6, <1>13, AppendKeeps DEF o
  <2>2. CASE v = w
    BY <2>1, <2>2
  <2>3. CASE v # w
    <3>1. PICK dur \in Nat \cup {None} : v = PushCue(w, s, w.cluster_timecode_ms + off, dur)
      BY <2>3 DEF Stores
    <3> DEFINE cue == [track |-> s, time_ms |-> NonNeg(w.cluster_timecode_ms + off),
                       cluster_offset |-> w.cluster_offset_rel,
                       relative_position |-> NonNeg(w.pos - w.cluster_body_start),
                       block_number |-> w.cluster_block_count + 1,
                       duration_ms |-> dur]
    <3>2. v.cues = Append(w.cues, cue)
      BY <1>0, <3>1 DEF PushCue, MuxState
    <3>3. /\ cue.track = s /\ cue.time_ms = NonNeg(w.cluster_timecode_ms + off)
          /\ cue.cluster_offset = w.cluster_offset_rel
          /\ cue.relative_position = w.pos - w.cluster_body_start
          /\ cue.block_number = w.cluster_block_count + 1
      BY <1>6, <1>7 DEF NonNeg
    <3> HIDE DEF cue
    <3>4. n - c = w.cluster_block_count + 1
      BY <1>6
    <3>5. o[c].at - SegmentStart = w.cluster_offset_rel
      BY <1>6, <1>7, <1>8, ConfigAssumption
    <3>6. Points(o, cue, c, n)
      BY <1>7, <1>8, <1>9, <1>11, <3>3, <3>4, <3>5 DEF Points, TimeOf
    <3>7. Indexable(s, key)
      BY <2>3 DEF Stores
    <3>8. CueLands(o, cue)
      BY <1>8, <1>9, <3>6, <3>7 DEF CueLands
    <3>9. \A m \in DOMAIN v.cues : v.cues[m] = cue \/ (m \in DOMAIN w.cues /\ v.cues[m] = w.cues[m])
      <4>1. w.cues \in Seq(CueRecord)
        BY <1>0 DEF MuxState
      <4> QED BY <3>2, <4>1
    <3> QED BY <2>1, <3>8, <3>9 DEF CuesKnown
  <2> QED BY <2>2, <2>3
<1>16. /\ x \in MuxState /\ SameBut(x, w)
       /\ OpenClusterKnown(x) /\ BlocksKnown(x.out) /\ CuesKnown(x.out, x.cues)
  BY <1>3, <1>5, <1>8, <1>12, <1>14, <1>15
<1> QED BY <1>16 DEF x

-----------------------------------------------------------------------------
(* Each helper keeps Writing.                                              *)
LEMMA WritingSame ==
  ASSUME NEW w, Writing(w), NEW x \in MuxState, SameBut(x, w),
         x.out = w.out, x.cues = w.cues, x.pos = w.pos,
         x.cluster_block_count = w.cluster_block_count,
         x.cluster_offset_rel = w.cluster_offset_rel,
         x.cluster_body_start = w.cluster_body_start
  PROVE  Writing(x)
BY DEF Writing, SameBut, SameCluster, SameFlags, OpenClusterKnown, LaceKnown, LacePending, StrictIsSilent

LEMMA WritingOneLace ==
  ASSUME NEW w, Writing(w)
  PROVE  w \in MuxState /\ OneLace(w)
BY DEF Writing, LaceKnown, OneLace

LEMMA FlushLaceKeeps ==
  ASSUME NEW w, Writing(w), NEW s \in Streams
  PROVE  Writing(FlushLace(w, s))
<1> DEFINE lace == w.lace_pending[s]
           off == lace.first_timecode_offset
           cued == IF ~w.cue_seen_in_cluster[s] /\ Indexable(s, lace.keyframe)
                   THEN PushCue(w, s, w.cluster_timecode_ms + off, None)
                   ELSE w
           x == WriteBlock(cued, s, off, lace.keyframe, lace.frames, lace.bytes, None)
           y == [x EXCEPT !.lace_pending[s] = [@ EXCEPT !.frames = <<>>, !.bytes = 0]]
<1>1. w \in MuxState /\ OneLace(w)
  BY WritingOneLace
<1>2. CASE lace.frames = <<>>
  BY <1>2 DEF FlushLace
<1>3. CASE lace.frames # <<>>
  <2>1. /\ lace.keyframe \in BOOLEAN /\ lace.bytes \in Nat /\ lace.frames \in Seq(Frame)
    BY <1>1 DEF MuxState, Lace
  <2>2. /\ w.cluster_open /\ off \in I16Min .. I16Max
        /\ lace.frames[1].ms = w.cluster_timecode_ms + off
    BY <1>3 DEF Writing, LaceKnown, LacePending
  <2>3. \/ cued = w
        \/ Indexable(s, lace.keyframe) /\ cued = PushCue(w, s, w.cluster_timecode_ms + off, None)
    OBVIOUS
  <2>4. OpenClusterKnown(w) /\ BlocksKnown(w.out) /\ CuesKnown(w.out, w.cues)
        /\ StrictIsSilent(w)
    BY DEF Writing
  <2> HIDE DEF cued
  <2>5. Stores(w, cued, s, off, lace.keyframe, lace.frames)
    BY <1>1, <1>3, <2>1, <2>2, <2>3, <2>4 DEF Stores
  <2> HIDE DEF off, lace
  <2>6. /\ x \in MuxState /\ SameBut(x, w)
        /\ OpenClusterKnown(x) /\ BlocksKnown(x.out) /\ CuesKnown(x.out, x.cues)
    BY <2>1, <2>2, <2>5, BlockStored
  <2>7. FlushLace(w, s) = y
    BY <1>3 DEF FlushLace, cued, lace, off
  <2> HIDE DEF x, y
  <2>8. /\ y \in MuxState /\ SameCluster(y, w)
        /\ ~LacePending(y, s)
        /\ \A t \in Streams \ {s} : y.lace_pending[t] = w.lace_pending[t]
    BY <1>1, <2>7, FlushLaceType, FlushLaceSame
  <2>9. /\ y.out = x.out /\ y.cues = x.cues /\ y.pos = x.pos
        /\ y.cluster_block_count = x.cluster_block_count
        /\ y.cluster_offset_rel = x.cluster_offset_rel
        /\ y.cluster_body_start = x.cluster_body_start
    BY <2>6 DEF MuxState, y
  <2>10. OpenClusterKnown(y)
    BY <2>6, <2>8, <2>9 DEF OpenClusterKnown, SameBut, SameCluster, SameFlags
  <2>11. \A t \in Streams : ~LacePending(y, t)
    BY <1>1, <1>3, <2>8 DEF OneLace, LacePending, lace
  <2>12. StrictIsSilent(y)
    BY <2>4, <2>8 DEF StrictIsSilent, SameCluster, SameFlags
  <2> QED BY <2>6, <2>7, <2>8, <2>9, <2>10, <2>11, <2>12 DEF Writing, LaceKnown
<1> QED BY <1>2, <1>3

LEMMA FlushLacesKeeps ==
  ASSUME NEW w, Writing(w), NEW S \in SUBSET Streams
  PROVE  Writing(FlushLaces(w, S))
BY FlushLaceKeeps DEF FlushLaces

LEMMA StartClusterKeeps ==
  ASSUME NEW w, Writing(w), NEW ms \in Int, \A s \in Streams : ~LacePending(w, s)
  PROVE  Writing(StartCluster(w, ms))
<1> DEFINE e == ClusterElement(w, ms)
           x == StartCluster(w, ms)
           o == Append(w.out, e)
<1>1. /\ w \in MuxState /\ ~StartFails(w) /\ StrictIsSilent(w)
      /\ BlocksKnown(w.out) /\ CuesKnown(w.out, w.cues)
  BY DEF Writing, StartFails, StrictIsSilent
<1>2. w.out \in Seq(Element) /\ w.pos \in Nat /\ SegmentStart \in Nat
  BY <1>1, ConfigAssumption DEF MuxState
<1>3. x \in MuxState
  BY <1>1, StartClusterType
<1>4. /\ x.out = o /\ x.pos = w.pos + e.size
      /\ x.cues = w.cues /\ x.lace_pending = w.lace_pending
      /\ x.cluster_open /\ x.cluster_timecode_ms = NonNeg(ms)
      /\ x.cluster_block_count = 0 /\ x.cluster_offset_rel = w.pos - SegmentStart
      /\ x.cluster_body_start = w.pos + 1
      /\ x.pending_silent_tracks = {}
  BY <1>1 DEF StartCluster, OpenCluster, Emit, MuxState
<1>5. /\ e \in Element /\ e.kind = "Cluster" /\ e.at = w.pos /\ e.body = w.pos + 1
      /\ e.ts = NonNeg(ms) /\ e.size \in Nat \ {0}
  <2>1. e \in Element
    BY <1>1, ClusterElementType
  <2>2. e.kind = "Cluster" /\ e.at = w.pos /\ e.body = w.pos + 1 /\ e.ts = NonNeg(ms)
    BY DEF ClusterElement
  <2> HIDE DEF e
  <2> QED BY <2>1, <2>2 DEF Element
<1> HIDE DEF e, x
<1>6. BlocksKnown(o) /\ CuesKnown(o, w.cues)
  BY <1>1, <1>2, <1>5, AppendKeeps
<1>7. OpenClusterKnown(x)
  <2>1. Len(o) \in DOMAIN o /\ o[Len(o)] = e /\ Len(o) \in Nat
    BY <1>2, <1>5
  <2>2. x.cluster_body_start <= x.pos
    BY <1>2, <1>4, <1>5
  <2>3. e.at = x.cluster_offset_rel + SegmentStart
    BY <1>2, <1>4, <1>5
  <2> HIDE DEF o
  <2>4. Len(x.out) - x.cluster_block_count = Len(o)
    BY <1>4, <2>1
  <2> QED BY <1>4, <1>5, <2>1, <2>2, <2>3, <2>4 DEF OpenClusterKnown
<1>8. LaceKnown(x)
  BY <1>4 DEF LaceKnown, LacePending
<1> QED BY <1>3, <1>4, <1>6, <1>7, <1>8 DEF Writing, StrictIsSilent, x

LEMMA AdvanceKeeps ==
  ASSUME NEW w, Writing(w), NEW p \in Packet
  PROVE  Writing(Advance(w, p))
BY WritingOneLace, AdvanceType, AdvanceSame, WritingSame

LEMMA PlacedKeeps ==
  ASSUME NEW w, Writing(w), NEW p \in Packet, NEW ms \in Int
  PROVE  Writing(Placed(w, p, ms))
<1> DEFINE v == FlushLaces(Advance(w, p), OtherLaces(p))
           u == FlushLaces(v, {p.stream})
<1>1. p.stream \in Streams /\ OtherLaces(p) \in SUBSET Streams
  BY DEF Packet, OtherLaces
<1>2. Writing(Advance(w, p))
  BY AdvanceKeeps
<1>3. Writing(v)
  BY <1>1, <1>2, FlushLacesKeeps
<1>4. \A s \in Streams : LacePending(v, s) => s = p.stream
  BY <1>1, <1>2, WritingOneLace, FlushLacesSame DEF OtherLaces
<1>5. Placed(w, p, ms) = IF NeedsNewCluster(v, ms) THEN StartCluster(u, ms) ELSE v
  BY DEF Placed
<1> HIDE DEF v
<1>6. Writing(u)
  BY <1>1, <1>3, FlushLacesKeeps
<1>7. \A s \in Streams : LacePending(u, s) => s # p.stream /\ u.lace_pending[s] = v.lace_pending[s]
  BY <1>1, <1>3, WritingOneLace, FlushLacesSame
<1>8. \A s \in Streams : ~LacePending(u, s)
  BY <1>4, <1>7 DEF LacePending
<1> HIDE DEF u
<1> QED BY <1>3, <1>5, <1>6, <1>8, StartClusterKeeps

LEMMA AppendToLaceKeeps ==
  ASSUME NEW w, Writing(w), NEW s \in Streams, NEW off \in I16Min .. I16Max,
         NEW p \in Packet, NEW frame \in Frame,
         w.cluster_open, Lacing # "None",
         \A t \in Streams : LacePending(w, t) => t = s,
         frame.ms = w.cluster_timecode_ms + off
  PROVE  Writing(AppendToLace(w, s, off, p, frame))
<1> DEFINE v == IF CannotJoin(w.lace_pending[s], p) THEN FlushLace(w, s) ELSE w
           lace == v.lace_pending[s]
           seed == lace.frames = <<>>
           l == [first_timecode_offset |-> IF seed THEN off ELSE lace.first_timecode_offset,
                 keyframe |-> IF seed THEN p.key ELSE lace.keyframe,
                 bytes |-> lace.bytes + p.size,
                 frames |-> Append(lace.frames, frame)]
           x == AppendToLace(w, s, off, p, frame)
<1>1. /\ w \in MuxState /\ off \in Int
  BY WritingOneLace, ConfigAssumption
<1>2. Writing(v) /\ SameCluster(v, w)
      /\ \A t \in Streams \ {s} : v.lace_pending[t] = w.lace_pending[t]
  BY <1>1, FlushLaceKeeps, FlushLaceSame DEF SameCluster, SameFlags
<1>3. x = [v EXCEPT !.lace_pending[s] = l]
  BY DEF AppendToLace
<1>4. x \in MuxState
  BY <1>1, AppendToLaceType
<1> HIDE DEF v, x
<1>5. v \in MuxState /\ LaceKnown(v)
  BY <1>2 DEF Writing
<1>6. lace.frames \in Seq(Frame)
  BY <1>5 DEF MuxState, Lace
<1>7. /\ l.frames[1].ms = w.cluster_timecode_ms + l.first_timecode_offset
      /\ l.first_timecode_offset \in I16Min .. I16Max
  <2>1. CASE seed
    BY <1>6, <2>1
  <2>2. CASE ~seed
    <3>1. /\ lace.frames[1].ms = v.cluster_timecode_ms + lace.first_timecode_offset
          /\ lace.first_timecode_offset \in I16Min .. I16Max
      BY <1>5, <2>2 DEF LaceKnown, LacePending
    <3>2. Append(lace.frames, frame)[1] = lace.frames[1]
      BY <1>6, <2>2
    <3> QED BY <1>2, <2>2, <3>1, <3>2 DEF SameCluster, SameFlags
  <2> QED BY <2>1, <2>2
<1> HIDE DEF l, lace
<1>8. /\ x.out = v.out /\ x.cues = v.cues /\ x.pos = v.pos
      /\ x.cluster_block_count = v.cluster_block_count
      /\ x.cluster_offset_rel = v.cluster_offset_rel
      /\ x.cluster_body_start = v.cluster_body_start
      /\ SameCluster(x, v)
      /\ x.lace_pending = [v.lace_pending EXCEPT ![s] = l]
  BY <1>3, <1>5 DEF MuxState, SameCluster, SameFlags
<1>9. x.lace_pending[s] = l /\ \A t \in Streams \ {s} : x.lace_pending[t] = v.lace_pending[t]
  BY <1>5, <1>8 DEF MuxState
<1>10. LaceKnown(x)
  <2>1. \A t \in Streams : LacePending(x, t) => t = s
    BY <1>2, <1>9 DEF LacePending
  <2> QED BY <1>2, <1>7, <1>8, <1>9, <2>1 DEF LaceKnown, SameCluster, SameFlags
<1>11. OpenClusterKnown(x) /\ StrictIsSilent(x) /\ BlocksKnown(x.out) /\ CuesKnown(x.out, x.cues)
  BY <1>2, <1>8 DEF Writing, OpenClusterKnown, StrictIsSilent, SameCluster, SameFlags
<1> QED BY <1>4, <1>10, <1>11 DEF Writing, x

LEMMA StoredKeeps ==
  ASSUME NEW w, Writing(w), NEW p \in Packet, NEW ms \in Int, NEW frame \in Frame,
         w.cluster_open, frame.ms = ms,
         ms - w.cluster_timecode_ms \in I16Min .. I16Max,
         \A s \in Streams : LacePending(w, s) => s = p.stream
  PROVE  Writing(Stored(w, p, ms, frame))
<1> DEFINE s == p.stream
           off == ms - w.cluster_timecode_ms
           now == Lacing = "None" \/ p.group
           cued == IF now /\ Cued(w, p) THEN PushCue(w, s, ms, CueDuration(p)) ELSE w
           v == IF now THEN WriteBlock(cued, s, off, p.key, <<frame>>, p.size, Reference(w, p, ms))
                ELSE AppendToLace(cued, s, off, p, frame)
           x == Stored(w, p, ms, frame)
<1>1. w \in MuxState /\ w.cluster_timecode_ms \in Nat
  <2>1. w \in MuxState
    BY WritingOneLace
  <2> QED BY <2>1 DEF MuxState
<1>2. /\ s \in Streams /\ p.key \in BOOLEAN /\ p.size \in Nat
      /\ CueDuration(p) \in Nat \cup {None} /\ Reference(w, p, ms) \in Int \cup {None}
  BY <1>1, PacketFacts
<1>3. x = [v EXCEPT !.last_block_pts_ms[s] = ms]
  BY DEF Stored, CueDuration, Reference
<1>4. w.cluster_timecode_ms + off = ms
  BY <1>1
<1>5. x \in MuxState
  BY <1>1, StoredType
<1>6. Writing(v)
  <2>1. CASE now
    <3>1. cued = w \/ (Indexable(s, p.key) /\ cued = PushCue(w, s, w.cluster_timecode_ms + off, CueDuration(p)))
      BY <1>4 DEF Cued
    <3>2. /\ <<frame>> \in Seq(Frame) /\ <<frame>> # <<>>
          /\ <<frame>>[1].ms = w.cluster_timecode_ms + off
      BY <1>4
    <3>3. OpenClusterKnown(w) /\ BlocksKnown(w.out) /\ CuesKnown(w.out, w.cues)
          /\ LaceKnown(w) /\ StrictIsSilent(w)
      BY DEF Writing
    <3>4. off \in I16Min .. I16Max
      OBVIOUS
    <3> HIDE DEF cued, off
    <3>5. Stores(w, cued, s, off, p.key, <<frame>>)
      BY <1>1, <1>2, <3>1, <3>2, <3>3 DEF Stores
    <3> DEFINE b == WriteBlock(cued, s, off, p.key, <<frame>>, p.size, Reference(w, p, ms))
    <3>6. /\ b \in MuxState /\ SameBut(b, w)
          /\ OpenClusterKnown(b) /\ BlocksKnown(b.out) /\ CuesKnown(b.out, b.cues)
      <4>1. p.key \in BOOLEAN /\ p.size \in Nat /\ s \in Streams
            /\ Reference(w, p, ms) \in Int \cup {None}
        BY <1>2
      <4> HIDE DEF s
      <4> QED BY <3>4, <3>5, <4>1, BlockStored
    <3> HIDE DEF b
    <3>7. LaceKnown(b) /\ StrictIsSilent(b)
      BY <3>3, <3>6 DEF SameBut, SameCluster, SameFlags, LaceKnown, LacePending, StrictIsSilent
    <3>8. Writing(b)
      BY <3>6, <3>7 DEF Writing
    <3> QED BY <2>1, <3>8 DEF b
  <2>2. CASE ~now
    <3>1. frame.ms = w.cluster_timecode_ms + off /\ off \in I16Min .. I16Max
      BY <1>4
    <3>2. cued = w
      BY <2>2
    <3> HIDE DEF cued, off
    <3> QED BY <1>2, <2>2, <3>1, <3>2, AppendToLaceKeeps
  <2> QED BY <2>1, <2>2
<1> HIDE DEF v
<1>7. v \in MuxState
  BY <1>6, WritingOneLace
<1>8. /\ SameBut(x, v) /\ x.out = v.out /\ x.cues = v.cues /\ x.pos = v.pos
      /\ x.cluster_block_count = v.cluster_block_count
      /\ x.cluster_offset_rel = v.cluster_offset_rel
      /\ x.cluster_body_start = v.cluster_body_start
  BY <1>3, <1>7 DEF MuxState, SameBut, SameCluster, SameFlags
<1> HIDE DEF x
<1>9. Writing(x)
  BY <1>5, <1>6, <1>8, WritingSame
<1> QED BY <1>9 DEF x

LEMMA WrittenKeeps ==
  ASSUME NEW w, Writing(w), NEW e \in Element, e.kind # "Block"
  PROVE  BlocksKnown(Append(w.out, e)) /\ CuesKnown(Append(w.out, e), w.cues)
<1>1. w.out \in Seq(Element) /\ BlocksKnown(w.out) /\ CuesKnown(w.out, w.cues)
  BY DEF Writing, MuxState
<1> QED BY <1>1, AppendKeeps

LEMMA PlaceCuesKeeps ==
  ASSUME NEW w, Writing(w)
  PROVE  LET x == PlaceCues(w)
         IN  /\ BlocksKnown(x.out) /\ CuesKnown(x.out, x.cues)
             /\ x.header_written = w.header_written /\ x.cluster_open = w.cluster_open
<1> DEFINE e == [kind |-> "Cues", at |-> w.pos, size |-> CuesSize(w.cues),
                 index |-> CuePoints(w.cues)]
           points == CuePoints(w.cues)
           f == [w EXCEPT !.front_cues = points]
<1>1. w \in MuxState /\ BlocksKnown(w.out) /\ CuesKnown(w.out, w.cues)
  BY DEF Writing
<1>2. e \in Element /\ e.kind = "Cues"
  <2>1. w.pos \in Nat /\ w.cues \in Seq(CueRecord)
    BY <1>1 DEF MuxState
  <2>2. points \in SUBSET CuePoint /\ CuesSize(w.cues) \in Nat \ {0}
    BY <2>1, CuePointsType
  <2> QED BY <2>1, <2>2 DEF Element
<1>3. PlaceCues(w) \in {w, f, Emit(w, e)}
  BY DEF PlaceCues
<1> HIDE DEF e, points
<1>4. /\ Emit(w, e).out = Append(w.out, e) /\ Emit(w, e).cues = w.cues
      /\ Emit(w, e).header_written = w.header_written /\ Emit(w, e).cluster_open = w.cluster_open
  BY <1>1 DEF Emit, MuxState
<1>5. /\ f.out = w.out /\ f.cues = w.cues
      /\ f.header_written = w.header_written /\ f.cluster_open = w.cluster_open
  BY <1>1 DEF MuxState
<1>6. BlocksKnown(Append(w.out, e)) /\ CuesKnown(Append(w.out, e), w.cues)
  BY <1>2, WrittenKeeps
<1> HIDE DEF f
<1> QED BY <1>1, <1>3, <1>4, <1>5, <1>6

-----------------------------------------------------------------------------
(* The inductive step, one call at a time.                                 *)
LEMMA WritePacketKeeps ==
  ASSUME Disciplined, IInv, NEW p \in Packets, WritePacket(p)
  PROVE  /\ BlocksKnown(mux'.out) /\ CuesKnown(mux'.out, mux'.cues)
         /\ mux'.header_written /\ Writing(mux') /\ ~mux'.trailer_written
<1> DEFINE ms == PtsToMs(EffectivePts(mux, p), p.stream)
           frame == [id |-> Len(accepted) + 1, stream |-> p.stream, ms |-> ms,
                     end_ms |-> EndMs(mux, p), key |-> p.key, size |-> p.size]
           w == Placed(mux, p, ms)
<1>1. /\ mux.header_written /\ ~mux.trailer_written /\ Writing(mux)
      /\ mux \in MuxState /\ accepted \in Seq(Frame) /\ p \in Packet
  BY InputAssumption DEF WritePacket, IInv, TypeOK
<1>2. ms \in Int /\ EndMs(mux, p) \in Int
  BY <1>1, PacketTimes
<1>3. frame \in Frame /\ frame.ms = ms
  BY <1>1, <1>2 DEF Frame, Packet
<1>4. \/ Refused(mux, p, ms) /\ mux' = w
      \/ ~Refused(mux, p, ms) /\ mux' = Stored(w, p, ms, frame)
  BY DEF WritePacket
<1>5. ~Refused(mux, p, ms) => ms - w.cluster_timecode_ms >= I16Min /\ ms - w.cluster_timecode_ms <= I16Max
  <2>1. w \in MuxState
    BY <1>1, <1>2, PlacedType
  <2>2. w.cluster_timecode_ms \in Nat
    BY <2>1 DEF MuxState
  <2> QED BY <1>2, <2>2, ConfigAssumption DEF Refused
<1> HIDE DEF ms, frame
<1>6. Writing(w) /\ w \in MuxState
  BY <1>1, <1>2, PlacedKeeps, PlacedType
<1>7. /\ \A s \in Streams : LacePending(w, s) => s = p.stream
      /\ ~Refused(mux, p, ms) => w.cluster_open
  BY <1>1, <1>2, PlacedOneLace, WritingOneLace
<1>8. /\ mux'.header_written = mux.header_written
      /\ mux'.trailer_written = mux.trailer_written
  <2>1. SameFlags(w, mux)
    BY <1>1, <1>2, PlacedOneLace, WritingOneLace
  <2>2. ~Refused(mux, p, ms) => SameFlags(Stored(w, p, ms, frame), w)
    BY <1>1, <1>2, <1>3, <1>6, <1>7, StoredOneLace, WritingOneLace
  <2> QED BY <1>4, <2>1, <2>2 DEF SameFlags
<1>9. Writing(mux')
  <2>1. CASE Refused(mux, p, ms)
    BY <1>4, <1>6, <2>1
  <2>2. CASE ~Refused(mux, p, ms)
    <3>1. ms - w.cluster_timecode_ms \in I16Min .. I16Max
      <4>1. w.cluster_timecode_ms \in Nat
        BY <1>6 DEF MuxState
      <4> QED BY <1>2, <1>5, <2>2, <4>1, ConfigAssumption
    <3> HIDE DEF w
    <3> QED BY <1>1, <1>2, <1>3, <1>4, <1>6, <1>7, <2>2, <3>1, StoredKeeps
  <2> QED BY <2>1, <2>2
<1> QED BY <1>1, <1>8, <1>9 DEF Writing

LEMMA WriteTrailerKeeps ==
  ASSUME Disciplined, IInv, WriteTrailer
  PROVE  /\ BlocksKnown(mux'.out) /\ CuesKnown(mux'.out, mux'.cues)
         /\ mux'.header_written /\ mux'.trailer_written /\ Pending' = {}
<1> DEFINE w == FlushLaces(mux, Streams)
           x == PlaceCues(w)
           sc == CuesEntry(w)
           du == IF x.duration # None /\ w.max_end_ms # None
                 THEN NonNeg(w.max_end_ms) ELSE x.duration
<1>1. mux.header_written /\ Writing(mux) /\ mux \in MuxState
  BY DEF WriteTrailer, IInv, TypeOK
<1>2. /\ Writing(w) /\ w \in MuxState /\ w.header_written
      /\ \A s \in Streams : ~LacePending(w, s)
  <2>1. Writing(w) /\ w \in MuxState
    BY <1>1, FlushLacesKeeps, WritingOneLace
  <2>2. SameCluster(w, mux) /\ \A s \in Streams : ~LacePending(w, s)
    BY <1>1, FlushLacesSame, WritingOneLace
  <2> QED BY <1>1, <2>1, <2>2 DEF SameCluster, SameFlags
<1>3. mux' = [x EXCEPT !.seek_cues = sc, !.duration = du, !.trailer_written = TRUE]
  BY DEF WriteTrailer
<1> HIDE DEF w
<1>4. /\ BlocksKnown(x.out) /\ CuesKnown(x.out, x.cues) /\ x.header_written /\ x \in MuxState
  BY <1>2, PlaceCuesKeeps, PlaceCuesType
<1>5. x.lace_pending = w.lace_pending
  BY <1>2, PlaceCuesSame
<1> HIDE DEF x, sc, du
<1>6. /\ mux'.out = x.out /\ mux'.cues = x.cues /\ mux'.header_written = x.header_written
      /\ mux'.trailer_written /\ mux'.lace_pending = x.lace_pending
  BY <1>3, <1>4 DEF MuxState
<1>7. Pending' = {}
  BY <1>2, <1>5, <1>6 DEF Pending, LacePending
<1> QED BY <1>4, <1>6, <1>7

LEMMA WriteHeaderKeeps ==
  ASSUME Orderly, IInv, WriteHeader, TypeOK'
  PROVE  IInv'
<1>1. mux \in MuxState /\ mux' \in MuxState /\ Writing(mux) /\ ~mux.cluster_open
  BY DEF IInv, TypeOK, WriteHeader, Orderly
<1>2. /\ mux'.out = mux.out /\ mux'.cues = mux.cues /\ mux'.lace_pending = mux.lace_pending
      /\ ~mux'.cluster_open /\ mux'.pending_silent_tracks = mux.pending_silent_tracks
      /\ mux'.header_written /\ mux'.trailer_written = mux.trailer_written
  BY <1>1 DEF WriteHeader, MuxState
<1>3. ~mux.trailer_written
  BY DEF Orderly, WriteHeader
<1>4. BlocksKnown(mux'.out) /\ CuesKnown(mux'.out, mux'.cues) /\ StrictIsSilent(mux')
  BY <1>1, <1>2 DEF Writing, StrictIsSilent
<1>5. OpenClusterKnown(mux') /\ LaceKnown(mux')
  BY <1>1, <1>2 DEF Writing, OpenClusterKnown, LaceKnown, LacePending
<1> QED BY <1>1, <1>2, <1>3, <1>4, <1>5 DEF IInv, Writing

LEMMA SilentKeeps ==
  ASSUME Orderly, IInv, NEW S \in SilentLists, SetNextClusterSilentTracks(S), TypeOK'
  PROVE  IInv'
<1>1. mux \in MuxState /\ mux' \in MuxState /\ Writing(mux) /\ ~mux.trailer_written
  BY DEF IInv, TypeOK, SetNextClusterSilentTracks, Orderly
<1>2. /\ mux'.out = mux.out /\ mux'.cues = mux.cues /\ mux'.lace_pending = mux.lace_pending
      /\ mux'.pos = mux.pos /\ mux'.cluster_open = mux.cluster_open
      /\ mux'.cluster_timecode_ms = mux.cluster_timecode_ms
      /\ mux'.cluster_block_count = mux.cluster_block_count
      /\ mux'.cluster_offset_rel = mux.cluster_offset_rel
      /\ mux'.cluster_body_start = mux.cluster_body_start
      /\ SameFlags(mux', mux) /\ mux'.pending_silent_tracks = S
  BY <1>1 DEF SetNextClusterSilentTracks, MuxState, SameFlags
<1>3. BlocksKnown(mux'.out) /\ CuesKnown(mux'.out, mux'.cues)
  BY <1>1, <1>2 DEF Writing
<1>4. OpenClusterKnown(mux') /\ LaceKnown(mux')
  BY <1>1, <1>2 DEF Writing, OpenClusterKnown, LaceKnown, LacePending
<1>5. StrictIsSilent(mux')
  BY <1>2 DEF StrictIsSilent, Orderly
<1>6. mux'.cluster_open => mux'.header_written
  BY <1>2 DEF IInv, SameFlags
<1> QED BY <1>1, <1>2, <1>3, <1>4, <1>5, <1>6 DEF IInv, Writing, SameFlags

LEMMA LiveTagsKeeps ==
  ASSUME Orderly, IInv, WriteLiveTags, TypeOK'
  PROVE  IInv'
<1> DEFINE w == FlushLaces(mux, Streams)
           c == [w EXCEPT !.cluster_open = FALSE]
           e == [kind |-> "Tags", at |-> w.pos, size |-> 1]
<1>1. mux \in MuxState /\ mux' \in MuxState /\ Writing(mux) /\ ~mux.trailer_written
  BY DEF IInv, TypeOK, WriteLiveTags, Orderly
<1>2. /\ Writing(w) /\ w \in MuxState /\ SameCluster(w, mux)
      /\ \A s \in Streams : ~LacePending(w, s)
  BY <1>1, FlushLacesKeeps, FlushLacesSame, WritingOneLace
<1>3. mux' = Emit(c, e)
  BY DEF WriteLiveTags
<1> HIDE DEF w
<1>4. e \in Element /\ e.kind = "Tags"
  BY <1>2 DEF MuxState, Element
<1> HIDE DEF e
<1>5. /\ mux'.out = Append(w.out, e) /\ mux'.cues = w.cues /\ ~mux'.cluster_open
      /\ mux'.lace_pending = w.lace_pending
      /\ mux'.pending_silent_tracks = w.pending_silent_tracks
      /\ SameFlags(mux', w)
  BY <1>2, <1>3 DEF Emit, MuxState, SameFlags
<1>6. BlocksKnown(mux'.out) /\ CuesKnown(mux'.out, mux'.cues)
  BY <1>2, <1>4, <1>5, WrittenKeeps
<1>7. OpenClusterKnown(mux') /\ LaceKnown(mux') /\ StrictIsSilent(mux')
  BY <1>2, <1>5 DEF OpenClusterKnown, LaceKnown, LacePending, StrictIsSilent, Writing
<1>8. ~mux'.trailer_written
  BY <1>1, <1>2, <1>5 DEF SameFlags, SameCluster
<1> QED BY <1>1, <1>5, <1>6, <1>7, <1>8 DEF IInv, Writing

(* The inductive invariant, for every configuration and every orderly      *)
(* caller: what the muxer's fields say about its output is true.           *)
THEOREM InductiveInvariant ==
  ASSUME Orderly
  PROVE  Spec => []IInv
<1>1. Init => IInv
  <2> SUFFICES ASSUME Init PROVE IInv
    OBVIOUS
  <2>1. TypeOK
    BY TypeInit
  <2>2. /\ mux.out = <<>> /\ mux.cues = <<>> /\ ~mux.cluster_open /\ ~mux.trailer_written
        /\ mux.pending_silent_tracks = {} /\ mux.lace_pending = [s \in Streams |-> EmptyLace]
    BY DEF Init, NewMux
  <2>3. BlocksKnown(mux.out) /\ CuesKnown(mux.out, mux.cues)
    BY <2>2 DEF BlocksKnown, CuesKnown
  <2>4. Writing(mux)
    BY <2>1, <2>2, <2>3 DEF Writing, TypeOK, OpenClusterKnown, LaceKnown, LacePending,
                            EmptyLace, StrictIsSilent
  <2> QED BY <2>1, <2>2, <2>3, <2>4 DEF IInv
<1>2. IInv /\ TypeOK' /\ [Next]_vars => IInv'
  <2> SUFFICES ASSUME IInv, TypeOK', [Next]_vars PROVE IInv'
    OBVIOUS
  <2>1. CASE WriteHeader
    BY <2>1, WriteHeaderKeeps
  <2>2. ASSUME NEW p \in Packets, WritePacket(p) PROVE IInv'
    <3>1. /\ BlocksKnown(mux'.out) /\ CuesKnown(mux'.out, mux'.cues)
          /\ mux'.header_written /\ Writing(mux') /\ ~mux'.trailer_written
      BY <2>2, WritePacketKeeps DEF Orderly
    <3> QED BY <3>1 DEF IInv
  <2>3. ASSUME NEW S \in SilentLists, SetNextClusterSilentTracks(S) PROVE IInv'
    BY <2>3, SilentKeeps
  <2>4. CASE WriteLiveTags
    BY <2>4, LiveTagsKeeps
  <2>5. CASE WriteTrailer
    <3>1. /\ BlocksKnown(mux'.out) /\ CuesKnown(mux'.out, mux'.cues)
          /\ mux'.header_written /\ mux'.trailer_written /\ Pending' = {}
      BY <2>5, WriteTrailerKeeps DEF Orderly
    <3> QED BY <3>1 DEF IInv
  <2>6. CASE UNCHANGED vars
    BY <2>6 DEF vars, IInv, TypeOK, Pending
  <2> QED BY <2>1, <2>2, <2>3, <2>4, <2>5, <2>6 DEF Next
<1> QED BY <1>1, <1>2, TypeInvariant, PTL DEF Spec

(* Every Block is written into the Cluster its timestamp counts from, so a *)
(* reader computes the time the packet was given.                          *)
THEOREM BlocksDecode ==
  ASSUME Orderly
  PROVE  Spec => []BlocksDecodeToTheirTime
<1>1. IInv => BlocksDecodeToTheirTime
  BY DEF IInv, BlocksKnown, BlocksDecodeToTheirTime, Blocks, Clusters, DecodesIn, Holds
<1> QED BY <1>1, InductiveInvariant, PTL

(* Every cue lands, by byte position, by Block number and by time, on a    *)
(* Block a decoder can start at.                                           *)
THEOREM CuesLand ==
  ASSUME Orderly
  PROVE  Spec => []CuesLandOnBlocks
<1>1. IInv => CuesLandOnBlocks
  <2> SUFFICES ASSUME IInv, NEW n \in DOMAIN mux.cues
               PROVE  \E i \in Clusters, j \in Blocks :
                        /\ Points(mux.out, mux.cues[n], i, j)
                        /\ Indexable(mux.out[j].track, mux.out[j].key)
    BY DEF CuesLandOnBlocks
  <2>1. PICK i \in DOMAIN mux.out, j \in DOMAIN mux.out :
          Points(mux.out, mux.cues[n], i, j) /\ Indexable(mux.out[j].track, mux.out[j].key)
    BY DEF IInv, CuesKnown, CueLands
  <2>2. i \in Clusters /\ j \in Blocks
    <3>1. Holds(mux.out, i, j)
      BY <2>1 DEF Points
    <3>2. mux.out \in Seq(Element)
      BY DEF IInv, TypeOK, MuxState
    <3>3. i \in Nat /\ j \in Nat /\ i < j
      BY <3>1, <3>2 DEF Holds
    <3>6. j \in i + 1 .. j
      BY <3>3
    <3>4. mux.out[j].kind = "Block"
      BY <3>1, <3>6 DEF Holds
    <3>5. mux.out[i].kind = "Cluster"
      BY <3>1 DEF Holds
    <3> QED BY <3>4, <3>5 DEF Clusters, Blocks
  <2> QED BY <2>1, <2>2
<1> QED BY <1>1, InductiveInvariant, PTL

-----------------------------------------------------------------------------
(***************************************************************************)
(* The calls of the muxer as chains of a few steps. A call advances the    *)
(* counters, may flush a lace, may rotate the Cluster, and then writes a   *)
(* Block or lets a frame join the pending lace; each step is described     *)
(* here by what it does to the fields, so that an invariant is proved step *)
(* by step and not once more through every helper of MkvMux.               *)
(***************************************************************************)

\* What every step of write_packet leaves alone.
SameHead(x, w) ==
  /\ SameFlags(x, w) /\ x.front_slot = w.front_slot
  /\ x.seek_cues = w.seek_cues /\ x.duration = w.duration

\* The output and the open Cluster are the same.
SameOut(x, w) ==
  /\ SameHead(x, w)
  /\ x.out = w.out /\ x.pos = w.pos /\ x.cues = w.cues
  /\ x.cue_seen_in_cluster = w.cue_seen_in_cluster
  /\ x.prev_cluster_start = w.prev_cluster_start
  /\ x.cluster_open = w.cluster_open /\ x.cluster_timecode_ms = w.cluster_timecode_ms
  /\ x.cluster_offset_rel = w.cluster_offset_rel
  /\ x.cluster_block_count = w.cluster_block_count
  /\ x.pending_silent_tracks = w.pending_silent_tracks

SameLaces(x, w) ==
  x.lace_pending = w.lace_pending /\ x.last_block_pts_ms = w.last_block_pts_ms

NonePending(w) == \A s \in Streams : ~LacePending(w, s)

\* Advance: max_end_ms covers one more packet.
Advanced(w, x, end) ==
  /\ SameOut(x, w) /\ x.lace_pending = w.lace_pending
  /\ x.last_block_pts_ms = w.last_block_pts_ms
  /\ x.max_end_ms # None /\ end <= x.max_end_ms
  /\ w.max_end_ms # None => w.max_end_ms <= x.max_end_ms

\* The Block b ends the open Cluster, its cue is pushed when it is due.
BlockAdded(w, x, b) ==
  /\ SameHead(x, w) /\ w.cluster_open /\ x.cluster_open
  /\ b \in Element /\ b.kind = "Block" /\ b.at = w.pos
  /\ x.out = Append(w.out, b) /\ x.pos = w.pos + b.size
  /\ x.prev_cluster_start = w.prev_cluster_start
  /\ x.cluster_timecode_ms = w.cluster_timecode_ms
  /\ x.cluster_offset_rel = w.cluster_offset_rel
  /\ x.cluster_block_count = w.cluster_block_count + 1
  /\ x.pending_silent_tracks = w.pending_silent_tracks
  /\ x.max_end_ms = w.max_end_ms

Uncued(w, x, b) ==
  /\ x.cues = w.cues /\ x.cue_seen_in_cluster = w.cue_seen_in_cluster
  /\ Indexable(b.track, b.key) => w.cue_seen_in_cluster[b.track]

CuedBy(w, x, b) ==
  /\ Indexable(b.track, b.key)
  /\ w.cue_seen_in_cluster[b.track] => Media[b.track] = "Subtitle"
  /\ x.cue_seen_in_cluster = [w.cue_seen_in_cluster EXCEPT ![b.track] = TRUE]
  /\ \E c \in CueRecord :
       /\ x.cues = Append(w.cues, c)
       /\ c.track = b.track /\ c.cluster_offset = w.cluster_offset_rel
       /\ c.block_number = w.cluster_block_count + 1

BlockWritten(w, x, b) == BlockAdded(w, x, b) /\ (Uncued(w, x, b) \/ CuedBy(w, x, b))

\* The pending lace becomes a Block.
Flushed(w, x) ==
  /\ Lacing # "None" /\ NonePending(x)
  /\ \E s \in Streams, b \in Element :
       /\ LacePending(w, s) /\ BlockWritten(w, x, b)
       /\ b.track = s /\ b.key = w.lace_pending[s].keyframe
       /\ b.frames = w.lace_pending[s].frames

MaybeFlushed(w, x) == x = w \/ Flushed(w, x)

\* A Cluster is opened.
Rotated(w, x) ==
  /\ SameHead(x, w) /\ NonePending(w) /\ x.lace_pending = w.lace_pending
  /\ \E e \in Element :
       /\ e.kind = "Cluster" /\ e.at = w.pos /\ e.ts = x.cluster_timecode_ms
       /\ e.prev_size = PrevSize(w) /\ e.silent = w.pending_silent_tracks
       /\ x.out = Append(w.out, e) /\ x.pos = w.pos + e.size
  /\ x.cues = w.cues /\ x.cue_seen_in_cluster = [s \in Streams |-> FALSE]
  /\ x.prev_cluster_start = w.pos /\ x.cluster_offset_rel = w.pos - SegmentStart
  /\ x.cluster_open /\ x.cluster_block_count = 0
  /\ x.pending_silent_tracks = {}
  /\ x.last_block_pts_ms = w.last_block_pts_ms /\ x.max_end_ms = w.max_end_ms

InBudget(w, ms) == NonNeg(ms) - w.cluster_timecode_ms \in 0 .. ClusterMaxMs

\* The frame becomes a Block of its own.
Direct(w, x, frame) ==
  /\ NonePending(w) /\ x.lace_pending = w.lace_pending
  /\ InBudget(w, frame.ms)
  /\ x.last_block_pts_ms = [w.last_block_pts_ms EXCEPT ![frame.stream] = frame.ms]
  /\ \E b \in Element :
       /\ BlockWritten(w, x, b)
       /\ b.track = frame.stream /\ b.key = frame.key /\ b.frames = <<frame>>
       /\ b.ref \in Int => \/ w.last_block_pts_ms[frame.stream] = None
                           \/ w.last_block_pts_ms[frame.stream] = frame.ms + b.ref

\* The frame joins the pending lace of its stream, or starts it.
Joined(w, x, frame) ==
  LET s == frame.stream
      lace == w.lace_pending[s]
  IN  /\ SameOut(x, w) /\ Lacing # "None" /\ w.cluster_open
      /\ x.max_end_ms = w.max_end_ms
      /\ InBudget(w, frame.ms)
      /\ \A t \in Streams : LacePending(w, t) => t = s
      /\ lace.frames # <<>> =>
           /\ lace.keyframe = frame.key /\ Len(lace.frames) < MaxFramesPerLace
           /\ Lacing = "FixedSize" => lace.frames[1].size = frame.size
      /\ x.lace_pending[s].frames = Append(lace.frames, frame)
      /\ x.lace_pending[s].keyframe = frame.key
      /\ \A t \in Streams \ {s} : x.lace_pending[t] = w.lace_pending[t]

Wrote(w, x, frame) == Direct(w, x, frame) \/ Joined(w, x, frame)

\* write_live_tags ends the Cluster.
Tagged(w, x) ==
  /\ Live /\ SameHead(x, w) /\ NonePending(w) /\ x.lace_pending = w.lace_pending
  /\ \E e \in Element : /\ e.kind = "Tags" /\ e.at = w.pos
                        /\ x.out = Append(w.out, e) /\ x.pos = w.pos + e.size
  /\ x.cues = w.cues /\ ~x.cluster_open
  /\ x.pending_silent_tracks = w.pending_silent_tracks
  /\ x.last_block_pts_ms = w.last_block_pts_ms /\ x.max_end_ms = w.max_end_ms

-----------------------------------------------------------------------------
LEMMA AdvanceStep ==
  ASSUME NEW w \in MuxState, NEW p \in Packet
  PROVE  Advanced(w, Advance(w, p), EndMs(w, p))
<1> DEFINE x == Advance(w, p)
           end == EndMs(w, p)
<1>1. end \in Int /\ w.max_end_ms \in Int \cup {None}
  BY PacketTimes DEF MuxState
<1>2. x.max_end_ms = IF w.max_end_ms # None /\ end <= w.max_end_ms THEN w.max_end_ms ELSE end
  BY DEF Advance, MuxState
<1>3. SameOut(x, w) /\ x.lace_pending = w.lace_pending
      /\ x.last_block_pts_ms = w.last_block_pts_ms
  BY DEF Advance, MuxState, SameOut, SameHead, SameFlags
<1> HIDE DEF x, end
<1>4. x.max_end_ms # None /\ end <= x.max_end_ms
      /\ (w.max_end_ms # None => w.max_end_ms <= x.max_end_ms)
  BY <1>1, <1>2, ConfigAssumption
<1> QED BY <1>3, <1>4 DEF Advanced, x, end

(* A Block written through write_block, with or without a cue before it.   *)
CueFirst(w, v, s, key) ==
  /\ w \in MuxState /\ w.cluster_open
  /\ \/ v = w /\ (Indexable(s, key) => w.cue_seen_in_cluster[s])
     \/ /\ Indexable(s, key) /\ (w.cue_seen_in_cluster[s] => Media[s] = "Subtitle")
        /\ \E ms \in Int, dur \in Nat \cup {None} : v = PushCue(w, s, ms, dur)

NewBlock(w, s, off, key, frames, bytes, ref) ==
  [kind |-> "Block", at |-> w.pos, size |-> 1 + bytes, track |-> s,
   off |-> off, key |-> key, frames |-> frames, ref |-> ref]

LEMMA BlockEffect ==
  ASSUME NEW w, NEW v, NEW s \in Streams, NEW off \in Int, NEW key \in BOOLEAN,
         NEW frames \in Seq(Frame), NEW bytes \in Nat, NEW ref \in Int \cup {None},
         CueFirst(w, v, s, key)
  PROVE  /\ WriteBlock(v, s, off, key, frames, bytes, ref) \in MuxState
         /\ BlockWritten(w, WriteBlock(v, s, off, key, frames, bytes, ref),
                         NewBlock(w, s, off, key, frames, bytes, ref))
         /\ SameLaces(WriteBlock(v, s, off, key, frames, bytes, ref), w)
<1> DEFINE x == WriteBlock(v, s, off, key, frames, bytes, ref)
           b == NewBlock(w, s, off, key, frames, bytes, ref)
<1>b. b = [kind |-> "Block", at |-> w.pos, size |-> 1 + bytes, track |-> s,
           off |-> off, key |-> key, frames |-> frames, ref |-> ref]
  BY DEF NewBlock
<1> HIDE DEF b
<1>0. /\ w \in MuxState /\ w.cluster_open
      /\ \/ v = w /\ (Indexable(s, key) => w.cue_seen_in_cluster[s])
         \/ /\ Indexable(s, key) /\ (w.cue_seen_in_cluster[s] => Media[s] = "Subtitle")
            /\ \E ms \in Int, dur \in Nat \cup {None} : v = PushCue(w, s, ms, dur)
  BY DEF CueFirst
<1>1. v \in MuxState
  BY <1>0, PushCueType
<1>2. x \in MuxState
  BY <1>1, WriteBlockType
<1>3. b \in Element
  BY <1>0, <1>b DEF Element, MuxState
<1>4. /\ v.out = w.out /\ v.pos = w.pos /\ SameHead(v, w)
      /\ v.lace_pending = w.lace_pending /\ v.last_block_pts_ms = w.last_block_pts_ms
      /\ v.max_end_ms = w.max_end_ms /\ v.cluster_block_count = w.cluster_block_count
      /\ v.cluster_open = w.cluster_open
      /\ v.prev_cluster_start = w.prev_cluster_start
      /\ v.cluster_timecode_ms = w.cluster_timecode_ms
      /\ v.cluster_offset_rel = w.cluster_offset_rel
      /\ v.pending_silent_tracks = w.pending_silent_tracks
  <2>1. CASE v = w
    BY <2>1 DEF SameHead, SameFlags
  <2>2. CASE \E ms \in Int, dur \in Nat \cup {None} : v = PushCue(w, s, ms, dur)
    BY <1>0, <2>2 DEF PushCue, MuxState, SameHead, SameFlags
  <2> QED BY <1>0, <2>1, <2>2
<1>6. /\ x.out = Append(w.out, b) /\ x.pos = w.pos + b.size
      /\ x.cluster_block_count = v.cluster_block_count + 1
      /\ x.cues = v.cues /\ x.cue_seen_in_cluster = v.cue_seen_in_cluster
      /\ SameHead(x, v) /\ x.cluster_open = v.cluster_open
      /\ x.prev_cluster_start = v.prev_cluster_start
      /\ x.cluster_timecode_ms = v.cluster_timecode_ms
      /\ x.cluster_offset_rel = v.cluster_offset_rel
      /\ x.pending_silent_tracks = v.pending_silent_tracks
      /\ x.max_end_ms = v.max_end_ms /\ x.lace_pending = v.lace_pending
      /\ x.last_block_pts_ms = v.last_block_pts_ms
  BY <1>1, <1>4, <1>b DEF WriteBlock, Emit, MuxState, SameHead, SameFlags
<1>7. Uncued(w, v, b) \/ CuedBy(w, v, b)
  <2>1. CASE v = w
    <3>1. CASE Indexable(s, key) => w.cue_seen_in_cluster[s]
      BY <1>b, <2>1, <3>1 DEF Uncued
    <3>2. CASE \E ms \in Int, dur \in Nat \cup {None} : v = PushCue(w, s, ms, dur)
      <4>1. PICK ms \in Int, dur \in Nat \cup {None} : v = PushCue(w, s, ms, dur)
        BY <3>2
      <4>2. v.cue_seen_in_cluster[s]
        BY <1>0, <4>1 DEF PushCue, MuxState
      <4> QED BY <1>b, <2>1, <4>2 DEF Uncued
    <3> QED BY <1>0, <3>1, <3>2
  <2>2. CASE v # w
    <3>1. PICK ms \in Int, dur \in Nat \cup {None} : v = PushCue(w, s, ms, dur)
      BY <1>0, <2>2
    <3> DEFINE c == [track |-> s, time_ms |-> NonNeg(ms),
         cluster_offset |-> w.cluster_offset_rel,
         relative_position |-> NonNeg(w.pos - w.cluster_body_start),
         block_number |-> w.cluster_block_count + 1,
         duration_ms |-> dur]
    <3>2. /\ v.cues = Append(w.cues, c)
          /\ v.cue_seen_in_cluster = [w.cue_seen_in_cluster EXCEPT ![s] = TRUE]
      BY <1>0, <3>1 DEF PushCue, MuxState
    <3>3. c \in CueRecord
      <4>1. w.pos \in Nat /\ w.cluster_body_start \in Nat /\ w.cluster_offset_rel \in Int
            /\ w.cluster_block_count \in Nat
        BY <1>0 DEF MuxState
      <4>2. NonNeg(ms) \in Nat /\ NonNeg(w.pos - w.cluster_body_start) \in Nat
        BY <4>1 DEF NonNeg
      <4> QED BY <4>1, <4>2 DEF CueRecord
    <3>5. b.track = s /\ b.key = key
      BY <1>b
    <3>4. c.track = b.track /\ c.cluster_offset = w.cluster_offset_rel
          /\ c.block_number = w.cluster_block_count + 1
      BY <3>5
    <3> HIDE DEF c
    <3> QED BY <1>0, <2>2, <3>2, <3>3, <3>4, <3>5 DEF CuedBy
  <2> QED BY <2>1, <2>2
<1>8. b.kind = "Block" /\ b.at = w.pos
  BY <1>b
<1> HIDE DEF x
<1>10. BlockAdded(w, x, b)
  BY <1>0, <1>3, <1>4, <1>6, <1>8 DEF BlockAdded, SameHead, SameFlags
<1>11. Uncued(w, x, b) \/ CuedBy(w, x, b)
  BY <1>6, <1>7 DEF Uncued, CuedBy
<1> QED BY <1>2, <1>4, <1>6, <1>10, <1>11 DEF BlockWritten, SameLaces, x, b

LEMMA FlushLaceStep ==
  ASSUME NEW w, Writing(w), NEW s \in Streams, LacePending(w, s)
  PROVE  Flushed(w, FlushLace(w, s)) /\ Writing(FlushLace(w, s))
<1> DEFINE lace == w.lace_pending[s]
           off == lace.first_timecode_offset
           ms == w.cluster_timecode_ms + off
           key == lace.keyframe
           frames == lace.frames
           bytes == lace.bytes
           cued == IF ~w.cue_seen_in_cluster[s] /\ Indexable(s, key)
                   THEN PushCue(w, s, ms, None) ELSE w
           x == WriteBlock(cued, s, off, key, frames, bytes, None)
           b == NewBlock(w, s, off, key, frames, bytes, None)
           y == FlushLace(w, s)
<1>1. w \in MuxState /\ OneLace(w) /\ w.cluster_open /\ Lacing # "None"
  BY WritingOneLace DEF OneLace
<1>2. /\ off \in Int /\ key \in BOOLEAN
      /\ bytes \in Nat /\ frames \in Seq(Frame) /\ ms \in Int
  BY <1>1 DEF MuxState, Lace
<1>3. CueFirst(w, cued, s, key)
  BY <1>1, <1>2 DEF CueFirst
<1>4. y = [x EXCEPT !.lace_pending[s] = [@ EXCEPT !.frames = <<>>, !.bytes = 0]]
  BY DEF FlushLace, LacePending
<1>5. x \in MuxState /\ BlockWritten(w, x, b)
  <2>1. None \in Int \cup {None}
    OBVIOUS
  <2> HIDE DEF cued, ms, off, key, frames, bytes
  <2> QED BY <1>2, <1>3, <2>1, BlockEffect
<1>6. b.track = s /\ b.key = lace.keyframe /\ b.frames = lace.frames
  BY DEF NewBlock
<1>7. b \in Element
  BY <1>5 DEF BlockWritten, BlockAdded
<1>8. NonePending(y)
  <2>1. ~LacePending(y, s) /\ \A t \in Streams \ {s} : y.lace_pending[t] = w.lace_pending[t]
    BY <1>1, FlushLaceSame
  <2> QED BY <1>1, <2>1 DEF NonePending, LacePending, OneLace
<1> HIDE DEF x, b, y
<1>9. BlockWritten(w, y, b)
  <2>1. /\ SameHead(y, x) /\ y.out = x.out /\ y.pos = x.pos /\ y.cues = x.cues
        /\ y.cue_seen_in_cluster = x.cue_seen_in_cluster
        /\ y.prev_cluster_start = x.prev_cluster_start /\ y.cluster_open = x.cluster_open
        /\ y.cluster_timecode_ms = x.cluster_timecode_ms
        /\ y.cluster_offset_rel = x.cluster_offset_rel
        /\ y.cluster_block_count = x.cluster_block_count
        /\ y.pending_silent_tracks = x.pending_silent_tracks /\ y.max_end_ms = x.max_end_ms
    BY <1>4, <1>5 DEF MuxState, SameHead, SameFlags
  <2>2. BlockAdded(w, y, b)
    BY <1>5, <2>1 DEF BlockWritten, BlockAdded, SameHead, SameFlags
  <2>3. Uncued(w, y, b) \/ CuedBy(w, y, b)
    BY <1>5, <2>1 DEF BlockWritten, Uncued, CuedBy
  <2> QED BY <2>2, <2>3 DEF BlockWritten
<1>10. Flushed(w, y)
  BY <1>1, <1>6, <1>7, <1>8, <1>9 DEF Flushed
<1> QED BY <1>10, FlushLaceKeeps DEF y

LEMMA FlushLacesStep ==
  ASSUME NEW w, Writing(w), NEW S \in SUBSET Streams
  PROVE  MaybeFlushed(w, FlushLaces(w, S)) /\ Writing(FlushLaces(w, S))
<1> DEFINE pending == {s \in S : w.lace_pending[s].frames # <<>>}
<1>1. CASE pending = {}
  BY <1>1 DEF FlushLaces, MaybeFlushed
<1>2. CASE pending # {}
  <2>1. PICK s \in pending : FlushLaces(w, S) = FlushLace(w, s)
    BY <1>2 DEF FlushLaces
  <2>2. s \in Streams /\ LacePending(w, s)
    BY <2>1 DEF LacePending
  <2> QED BY <2>1, <2>2, FlushLaceStep DEF MaybeFlushed
<1> QED BY <1>1, <1>2

LEMMA StartClusterStep ==
  ASSUME NEW w, Writing(w), NonePending(w), NEW ms \in Int
  PROVE  /\ Rotated(w, StartCluster(w, ms)) /\ Writing(StartCluster(w, ms))
         /\ InBudget(StartCluster(w, ms), ms)
<1> DEFINE e == ClusterElement(w, ms)
           x == StartCluster(w, ms)
<1>1. w \in MuxState /\ ~StartFails(w)
  BY DEF Writing, StartFails, StrictIsSilent
<1>2. /\ x.out = Append(w.out, e) /\ x.pos = w.pos + e.size
      /\ x.cues = w.cues /\ x.lace_pending = w.lace_pending
      /\ x.cluster_open /\ x.cluster_timecode_ms = NonNeg(ms)
      /\ x.cluster_block_count = 0 /\ x.cluster_offset_rel = w.pos - SegmentStart
      /\ x.prev_cluster_start = w.pos /\ x.pending_silent_tracks = {}
      /\ x.cue_seen_in_cluster = [s \in Streams |-> FALSE]
      /\ x.last_block_pts_ms = w.last_block_pts_ms /\ x.max_end_ms = w.max_end_ms
      /\ SameHead(x, w)
  BY <1>1 DEF StartCluster, OpenCluster, Emit, MuxState, SameHead, SameFlags
<1>3. /\ e \in Element /\ e.kind = "Cluster" /\ e.at = w.pos /\ e.ts = NonNeg(ms)
      /\ e.prev_size = PrevSize(w) /\ e.silent = w.pending_silent_tracks
  <2>1. e \in Element
    BY <1>1, ClusterElementType
  <2> QED BY <1>1, <2>1 DEF ClusterElement
<1>4. Writing(x)
  BY StartClusterKeeps DEF NonePending
<1> HIDE DEF x, e
<1>5. Rotated(w, x)
  BY <1>2, <1>3 DEF Rotated
<1>6. InBudget(x, ms)
  <2>1. NonNeg(ms) \in Nat /\ ClusterMaxMs \in Nat
    BY ConfigAssumption DEF NonNeg
  <2> QED BY <1>2, <2>1 DEF InBudget
<1> QED BY <1>4, <1>5, <1>6 DEF x

LEMMA PlacedSteps ==
  ASSUME NEW w, Writing(w), NEW p \in Packet, NEW ms \in Int
  PROVE  LET x == Placed(w, p, ms)
         IN  /\ \E a, v, u : /\ Writing(a) /\ Writing(v) /\ Writing(u)
                             /\ Advanced(w, a, EndMs(w, p))
                             /\ MaybeFlushed(a, v) /\ MaybeFlushed(v, u)
                             /\ x = u \/ Rotated(u, x)
             /\ InBudget(x, ms)
             /\ \A s \in Streams : LacePending(x, s) => s = p.stream /\ ~p.group
<1> DEFINE a == Advance(w, p)
           v == FlushLaces(a, OtherLaces(p))
           u == FlushLaces(v, {p.stream})
           x == Placed(w, p, ms)
<1>1. p.stream \in Streams /\ OtherLaces(p) \in SUBSET Streams /\ w \in MuxState /\ OneLace(w)
  BY WritingOneLace DEF Packet, OtherLaces
<1>2. Writing(a) /\ Advanced(w, a, EndMs(w, p))
  BY <1>1, AdvanceKeeps, AdvanceStep
<1> HIDE DEF a
<1>3. Writing(v) /\ MaybeFlushed(a, v)
  BY <1>1, <1>2, FlushLacesStep
<1>4. Writing(u) /\ MaybeFlushed(v, u)
  <2> HIDE DEF v
  <2> QED BY <1>1, <1>3, FlushLacesStep
<1>5. x = IF NeedsNewCluster(v, ms) THEN StartCluster(u, ms) ELSE v
  BY DEF Placed, a
<1>6. \A s \in Streams : LacePending(x, s) => s = p.stream /\ ~p.group
  BY <1>1, PlacedOneLace
<1>7. NonePending(u)
  <2>1. \A s \in Streams : LacePending(v, s) => s = p.stream
    BY <1>1, <1>2, WritingOneLace, FlushLacesSame DEF OtherLaces
  <2> HIDE DEF v
  <2>2. \A s \in Streams : LacePending(u, s) => s # p.stream /\ u.lace_pending[s] = v.lace_pending[s]
    BY <1>1, <1>3, WritingOneLace, FlushLacesSame
  <2> QED BY <2>1, <2>2 DEF NonePending, LacePending
<1> HIDE DEF v, u, x
<1>8. CASE NeedsNewCluster(v, ms)
  BY <1>2, <1>3, <1>4, <1>5, <1>6, <1>7, <1>8, StartClusterStep DEF x
<1>9. CASE ~NeedsNewCluster(v, ms)
  <2>1. InBudget(v, ms)
    <3>1. v.cluster_timecode_ms \in Nat /\ ClusterMaxMs \in Nat
      BY <1>3, WritingOneLace, ConfigAssumption DEF MuxState
    <3>2. ms - v.cluster_timecode_ms <= ClusterMaxMs /\ ms - v.cluster_timecode_ms >= 0
      BY <1>9, <3>1 DEF NeedsNewCluster
    <3> QED BY <3>1, <3>2 DEF InBudget, NonNeg
  <2>2. MaybeFlushed(v, v)
    BY DEF MaybeFlushed
  <2> QED BY <1>2, <1>3, <1>5, <1>6, <1>9, <2>1, <2>2 DEF x
<1> QED BY <1>8, <1>9

(* A frame goes into a Block of its own, or into a lace after the lace it  *)
(* cannot join is flushed.                                                 *)
Fits(w, p, ms, frame) ==
  /\ Writing(w) /\ w.cluster_open /\ InBudget(w, ms)
  /\ frame.ms = ms /\ frame.stream = p.stream /\ frame.key = p.key /\ frame.size = p.size
  /\ ms - w.cluster_timecode_ms \in I16Min .. I16Max
  /\ \A s \in Streams : LacePending(w, s) => s = p.stream /\ ~p.group

LEMMA AppendToLaceStep ==
  ASSUME NEW w, NEW p \in Packet, NEW ms \in Int, NEW frame \in Frame,
         Fits(w, p, ms, frame), Lacing # "None"
  PROVE  LET x == AppendToLace(w, p.stream, ms - w.cluster_timecode_ms, p, frame)
         IN  Writing(x) /\ \E y : Writing(y) /\ MaybeFlushed(w, y) /\ Joined(y, x, frame)
<1> DEFINE s == p.stream
           off == ms - w.cluster_timecode_ms
           v == IF CannotJoin(w.lace_pending[s], p) THEN FlushLace(w, s) ELSE w
           lace == v.lace_pending[s]
           l == [first_timecode_offset |-> IF lace.frames = <<>> THEN off ELSE lace.first_timecode_offset,
                 keyframe |-> IF lace.frames = <<>> THEN p.key ELSE lace.keyframe,
                 bytes |-> lace.bytes + p.size,
                 frames |-> Append(lace.frames, frame)]
           x == AppendToLace(w, s, off, p, frame)
<1>1. /\ Writing(w) /\ w.cluster_open /\ InBudget(w, ms) /\ w \in MuxState /\ s \in Streams
      /\ frame.ms = ms /\ frame.stream = s /\ frame.key = p.key /\ frame.size = p.size
      /\ off \in I16Min .. I16Max
      /\ \A t \in Streams : LacePending(w, t) => t = s
  BY WritingOneLace DEF Fits, Packet
<1>2. Writing(x)
  <2>1. frame.ms = w.cluster_timecode_ms + off
    <3>1. w.cluster_timecode_ms \in Nat
      BY <1>1 DEF MuxState
    <3> QED BY <1>1, <3>1
  <2> HIDE DEF off, s
  <2> QED BY <1>1, <2>1, AppendToLaceKeeps
<1>3. /\ Writing(v) /\ MaybeFlushed(w, v) /\ v.cluster_open /\ InBudget(v, ms)
      /\ \A t \in Streams : LacePending(v, t) => t = s
      /\ ~CannotJoin(v.lace_pending[s], p)
  <2>1. CASE CannotJoin(w.lace_pending[s], p)
    <3>1. LacePending(w, s)
      BY <2>1 DEF CannotJoin, LacePending
    <3>2. Flushed(w, v) /\ Writing(v)
      BY <1>1, <2>1, <3>1, FlushLaceStep
    <3> HIDE DEF v
    <3>3. v.cluster_open /\ v.cluster_timecode_ms = w.cluster_timecode_ms /\ NonePending(v)
      BY <3>2 DEF Flushed, BlockWritten, BlockAdded
    <3> QED BY <1>1, <3>2, <3>3 DEF MaybeFlushed, InBudget, NonePending, LacePending, CannotJoin
  <2>2. CASE ~CannotJoin(w.lace_pending[s], p)
    BY <1>1, <2>2 DEF MaybeFlushed
  <2> QED BY <2>1, <2>2
<1>4. x = [v EXCEPT !.lace_pending[s] = l]
  BY DEF AppendToLace
<1> HIDE DEF v, x, off
<1>5. v \in MuxState /\ lace.frames \in Seq(Frame)
  <2>1. v \in MuxState
    BY <1>3, WritingOneLace
  <2> QED BY <1>1, <2>1 DEF MuxState, Lace
<1> HIDE DEF s
<1>6. /\ SameOut(x, v) /\ x.max_end_ms = v.max_end_ms
      /\ x.lace_pending = [v.lace_pending EXCEPT ![s] = l]
  BY <1>4, <1>5 DEF MuxState, SameOut, SameHead, SameFlags
<1>7. /\ x.lace_pending[s] = l /\ \A t \in Streams \ {s} : x.lace_pending[t] = v.lace_pending[t]
  <2>1. v.lace_pending \in [Streams -> Lace]
    BY <1>5 DEF MuxState
  <2> HIDE DEF l
  <2> QED BY <1>1, <1>6, <2>1
<1>8. lace.frames # <<>> =>
        /\ lace.keyframe = frame.key /\ Len(lace.frames) < MaxFramesPerLace
        /\ Lacing = "FixedSize" => lace.frames[1].size = frame.size
  BY <1>1, <1>3, <1>5, ConfigAssumption DEF CannotJoin
<1>9. l.keyframe = frame.key /\ l.frames = Append(lace.frames, frame)
  BY <1>1, <1>8
<1> HIDE DEF l
<1>10. Joined(v, x, frame)
  BY <1>1, <1>3, <1>6, <1>7, <1>8, <1>9 DEF Joined
<1>11. Writing(v) /\ MaybeFlushed(w, v)
  BY <1>3
<1> QED BY <1>2, <1>10, <1>11 DEF x, s, off

LEMMA StoredSteps ==
  ASSUME NEW w, NEW p \in Packet, NEW ms \in Int, NEW frame \in Frame,
         Fits(w, p, ms, frame)
  PROVE  LET x == Stored(w, p, ms, frame)
         IN  Writing(x) /\ \E y : Writing(y) /\ MaybeFlushed(w, y) /\ Wrote(y, x, frame)
<1> DEFINE s == p.stream
           off == ms - w.cluster_timecode_ms
           now == Lacing = "None" \/ p.group
           cued == IF now /\ Cued(w, p) THEN PushCue(w, s, ms, CueDuration(p)) ELSE w
           ref == Reference(w, p, ms)
           key == p.key
           bytes == p.size
           one == <<frame>>
           d == WriteBlock(cued, s, off, key, one, bytes, ref)
           b == NewBlock(w, s, off, key, one, bytes, ref)
           j == AppendToLace(w, s, off, p, frame)
           x == Stored(w, p, ms, frame)
<1>1. /\ Writing(w) /\ w.cluster_open /\ InBudget(w, ms) /\ w \in MuxState
      /\ w.cluster_timecode_ms \in Nat
      /\ frame.ms = ms /\ frame.stream = s /\ frame.key = p.key
      /\ off \in I16Min .. I16Max
      /\ \A t \in Streams : LacePending(w, t) => t = s /\ ~p.group
  <2>1. w \in MuxState
    BY WritingOneLace DEF Fits
  <2> QED BY <2>1 DEF Fits, MuxState
<1>2. /\ s \in Streams /\ p.key \in BOOLEAN /\ p.size \in Nat
      /\ CueDuration(p) \in Nat \cup {None} /\ ref \in Int \cup {None}
  BY <1>1, PacketFacts
<1>3. x = [(IF now THEN d ELSE j) EXCEPT !.last_block_pts_ms[s] = ms]
  BY DEF Stored, CueDuration, Reference
<1>4. Writing(x)
  BY <1>1, StoredKeeps
<1>5. CASE now
  <2>1. NonePending(w)
    BY <1>1, <1>5 DEF NonePending, LaceKnown, Writing
  <2>2. CueFirst(w, cued, s, key)
    BY <1>1, <1>2, <1>5 DEF CueFirst, Cued, Indexable
  <2>3. /\ d \in MuxState /\ BlockWritten(w, d, b)
        /\ d.lace_pending = w.lace_pending /\ d.last_block_pts_ms = w.last_block_pts_ms
    <3>1. one \in Seq(Frame)
      OBVIOUS
    <3>2. off \in Int
      BY <1>1
    <3>3. s \in Streams /\ bytes \in Nat /\ key \in BOOLEAN /\ ref \in Int \cup {None}
      BY <1>2
    <3> HIDE DEF cued, off, ref, s, key, bytes, one, now, j, x
    <3>4. d \in MuxState /\ BlockWritten(w, d, b)
      BY <2>2, <3>1, <3>2, <3>3, BlockEffect
    <3>5. SameLaces(d, w)
      BY <2>2, <3>1, <3>2, <3>3, BlockEffect
    <3> HIDE DEF d
    <3> QED BY <3>4, <3>5 DEF SameLaces
  <2>4. /\ b.track = frame.stream /\ b.key = frame.key /\ b.frames = <<frame>> /\ b.ref = ref
    BY <1>1 DEF NewBlock
  <2>5. b.ref \in Int => \/ w.last_block_pts_ms[frame.stream] = None
                         \/ w.last_block_pts_ms[frame.stream] = frame.ms + b.ref
    <3>1. w.last_block_pts_ms[s] \in Int \cup {None}
      BY <1>1, <1>2 DEF MuxState
    <3>2. ref \in Int => \/ w.last_block_pts_ms[s] = None
                         \/ ref = w.last_block_pts_ms[s] - ms
      BY ConfigAssumption DEF Reference, DerivedReference
    <3> HIDE DEF s, ref
    <3> QED BY <1>1, <2>4, <3>1, <3>2
  <2>6. x = [d EXCEPT !.last_block_pts_ms[s] = ms]
    BY <1>3, <1>5
  <2> HIDE DEF d, b, x
  <2>7. /\ SameHead(x, d) /\ x.out = d.out /\ x.pos = d.pos /\ x.cues = d.cues
        /\ x.cue_seen_in_cluster = d.cue_seen_in_cluster
        /\ x.prev_cluster_start = d.prev_cluster_start /\ x.cluster_open = d.cluster_open
        /\ x.cluster_timecode_ms = d.cluster_timecode_ms
        /\ x.cluster_offset_rel = d.cluster_offset_rel
        /\ x.cluster_block_count = d.cluster_block_count
        /\ x.pending_silent_tracks = d.pending_silent_tracks /\ x.max_end_ms = d.max_end_ms
        /\ x.lace_pending = d.lace_pending
        /\ x.last_block_pts_ms = [d.last_block_pts_ms EXCEPT ![s] = ms]
    BY <2>3, <2>6 DEF MuxState, SameHead, SameFlags
  <2>8. BlockWritten(w, x, b)
    <3>1. BlockAdded(w, x, b)
      BY <2>3, <2>7 DEF BlockWritten, BlockAdded, SameHead, SameFlags
    <3>2. Uncued(w, x, b) \/ CuedBy(w, x, b)
      BY <2>3, <2>7 DEF BlockWritten, Uncued, CuedBy
    <3> QED BY <3>1, <3>2 DEF BlockWritten
  <2>9. b \in Element
    BY <2>8 DEF BlockWritten, BlockAdded
  <2>10. Direct(w, x, frame)
    BY <1>1, <2>1, <2>3, <2>4, <2>5, <2>7, <2>8, <2>9 DEF Direct
  <2> QED BY <1>1, <1>4, <2>10 DEF Wrote, MaybeFlushed, x
<1>6. CASE ~now
  <2>1. Writing(j) /\ \E y : Writing(y) /\ MaybeFlushed(w, y) /\ Joined(y, j, frame)
    BY <1>6, AppendToLaceStep
  <2>2. PICK y : Writing(y) /\ MaybeFlushed(w, y) /\ Joined(y, j, frame)
    BY <2>1
  <2>3. x = [j EXCEPT !.last_block_pts_ms[s] = ms]
    BY <1>3, <1>6
  <2> HIDE DEF j, x
  <2>4. j \in MuxState
    BY <2>1, WritingOneLace
  <2>5. /\ SameOut(x, j) /\ x.max_end_ms = j.max_end_ms /\ x.lace_pending = j.lace_pending
    BY <2>3, <2>4 DEF MuxState, SameOut, SameHead, SameFlags
  <2>6. Joined(y, x, frame)
    BY <2>2, <2>5 DEF Joined, SameOut, SameHead, SameFlags
  <2> QED BY <1>4, <2>2, <2>6 DEF Wrote, x
<1> QED BY <1>5, <1>6

(* What write_packet does, refused or not: the chain of its steps.         *)
PacketChain(w, x, log, new) ==
  \E a, v, u, c, end :
    /\ Writing(a) /\ Writing(v) /\ Writing(u) /\ Writing(c)
    /\ Advanced(w, a, end) /\ MaybeFlushed(a, v) /\ MaybeFlushed(v, u)
    /\ c = u \/ Rotated(u, c)
    /\ \/ x = c /\ new = log
       \/ \E y, frame : /\ Writing(y) /\ MaybeFlushed(c, y) /\ Wrote(y, x, frame)
                        /\ frame \in Frame /\ frame.end_ms = end /\ new = Append(log, frame)

LEMMA WritePacketSteps ==
  ASSUME Disciplined, IInv, NEW p \in Packets, WritePacket(p)
  PROVE  /\ Writing(mux) /\ Writing(mux') /\ ~mux.trailer_written /\ mux.header_written
         /\ PacketChain(mux, mux', accepted, accepted')
<1> DEFINE ms == PtsToMs(EffectivePts(mux, p), p.stream)
           frame == [id |-> Len(accepted) + 1, stream |-> p.stream, ms |-> ms,
                     end_ms |-> EndMs(mux, p), key |-> p.key, size |-> p.size]
           w == Placed(mux, p, ms)
           end == EndMs(mux, p)
<1>1. /\ mux.header_written /\ ~mux.trailer_written /\ Writing(mux)
      /\ mux \in MuxState /\ accepted \in Seq(Frame) /\ p \in Packet
  BY InputAssumption DEF WritePacket, IInv, TypeOK
<1>2. ms \in Int /\ end \in Int
  BY <1>1, PacketTimes
<1>3. /\ frame \in Frame /\ frame.ms = ms /\ frame.end_ms = end /\ frame.stream = p.stream
      /\ frame.key = p.key /\ frame.size = p.size
  BY <1>1, <1>2 DEF Frame, Packet
<1>4. \/ Refused(mux, p, ms) /\ mux' = w /\ accepted' = accepted
      \/ /\ ~Refused(mux, p, ms) /\ mux' = Stored(w, p, ms, frame)
         /\ accepted' = Append(accepted, frame)
  BY DEF WritePacket
<1>5. ~Refused(mux, p, ms) => ms - w.cluster_timecode_ms >= I16Min /\ ms - w.cluster_timecode_ms <= I16Max
  <2>1. w \in MuxState
    BY <1>1, <1>2, PlacedType
  <2>2. w.cluster_timecode_ms \in Nat
    BY <2>1 DEF MuxState
  <2> QED BY <1>2, <2>2, ConfigAssumption DEF Refused
<1> HIDE DEF ms, frame
<1>6. Writing(w) /\ w \in MuxState
  BY <1>1, <1>2, PlacedKeeps, PlacedType
<1>7. ~Refused(mux, p, ms) => w.cluster_open
  BY <1>1, <1>2, PlacedOneLace, WritingOneLace
<1>8. /\ \E a, v, u : /\ Writing(a) /\ Writing(v) /\ Writing(u)
                      /\ Advanced(mux, a, end)
                      /\ MaybeFlushed(a, v) /\ MaybeFlushed(v, u)
                      /\ w = u \/ Rotated(u, w)
      /\ InBudget(w, ms)
      /\ \A s \in Streams : LacePending(w, s) => s = p.stream /\ ~p.group
  BY <1>1, <1>2, PlacedSteps
<1> HIDE DEF w, end
<1>9. PICK a, v, u : /\ Writing(a) /\ Writing(v) /\ Writing(u)
                     /\ Advanced(mux, a, end)
                     /\ MaybeFlushed(a, v) /\ MaybeFlushed(v, u)
                     /\ w = u \/ Rotated(u, w)
  BY <1>8
<1>10. CASE Refused(mux, p, ms)
  BY <1>1, <1>4, <1>6, <1>9, <1>10 DEF PacketChain
<1>11. CASE ~Refused(mux, p, ms)
  <2>1. Fits(w, p, ms, frame)
    <3>1. w.cluster_timecode_ms \in Nat
      BY <1>6 DEF MuxState
    <3>2. ms - w.cluster_timecode_ms \in I16Min .. I16Max
      BY <1>2, <1>5, <1>11, <3>1, ConfigAssumption
    <3> QED BY <1>3, <1>6, <1>7, <1>8, <1>11, <3>2 DEF Fits
  <2>2. Writing(mux') /\ \E y : Writing(y) /\ MaybeFlushed(w, y) /\ Wrote(y, mux', frame)
    BY <1>1, <1>2, <1>3, <1>4, <1>11, <2>1, StoredSteps
  <2>3. accepted' = Append(accepted, frame)
    BY <1>4, <1>11
  <2>4. PacketChain(mux, mux', accepted, accepted')
    BY <1>3, <1>6, <1>9, <2>2, <2>3 DEF PacketChain
  <2> QED BY <1>1, <2>2, <2>4
<1> QED BY <1>10, <1>11

-----------------------------------------------------------------------------
(***************************************************************************)
(* MuxInv of MkvMuxInv is an invariant of the muxer. What the output and   *)
(* the fields say (Known) is kept by every step of a call, hence by the    *)
(* chains that make up the calls, and write_trailer turns it into what a   *)
(* reader of the closed file may rely on.                                  *)
(***************************************************************************)

Chapter(w) == Len(w.out) - w.cluster_block_count   \* the open Cluster's place

(* What appending an element does to the questions asked of the output.    *)
LEMMA HoldsAppend ==
  ASSUME NEW out \in Seq(Element), NEW e \in Element, NEW i, NEW j, j # Len(out) + 1
  PROVE  Holds(Append(out, e), i, j) <=> Holds(out, i, j)
<1> DEFINE x == Append(out, e)
<1>1. /\ Len(x) = Len(out) + 1 /\ Len(out) \in Nat /\ DOMAIN out = 1 .. Len(out)
      /\ DOMAIN x = 1 .. Len(out) + 1
      /\ \A k \in DOMAIN out : x[k] = out[k]
  OBVIOUS
<1> HIDE DEF x
<1>2. ASSUME Holds(x, i, j) PROVE Holds(out, i, j)
  <2>1. j \in DOMAIN out /\ i \in DOMAIN out /\ i < j /\ \A k \in i + 1 .. j : k \in DOMAIN out
    BY <1>1, <1>2 DEF Holds
  <2> QED BY <1>1, <1>2, <2>1 DEF Holds
<1>3. ASSUME Holds(out, i, j) PROVE Holds(x, i, j)
  <2>1. j \in DOMAIN out /\ i \in DOMAIN out /\ i < j /\ \A k \in i + 1 .. j : k \in DOMAIN out
    BY <1>1, <1>3 DEF Holds
  <2> QED BY <1>1, <1>3, <2>1 DEF Holds
<1> QED BY <1>2, <1>3 DEF x

LEMMA PointsAppend ==
  ASSUME NEW out \in Seq(Element), NEW e \in Element, NEW c, NEW i, NEW j, j # Len(out) + 1
  PROVE  Points(Append(out, e), c, i, j) <=> Points(out, c, i, j)
<1> DEFINE x == Append(out, e)
<1>1. Holds(x, i, j) <=> Holds(out, i, j)
  BY HoldsAppend
<1>2. Holds(out, i, j) => x[i] = out[i] /\ x[j] = out[j]
  BY DEF Holds
<1> HIDE DEF x
<1> QED BY <1>1, <1>2 DEF Points, TimeOf, x

LEMMA EntryAppend ==
  ASSUME NEW out \in Seq(Element), NEW e \in Element, NEW i, NEW j, NEW s, j # Len(out) + 1
  PROVE  IsEntry(Append(out, e), i, j, s) <=> IsEntry(out, i, j, s)
<1> DEFINE x == Append(out, e)
<1>1. Holds(x, i, j) <=> Holds(out, i, j)
  BY HoldsAppend
<1>2. Holds(out, i, j) => x[j] = out[j]
  BY DEF Holds
<1> HIDE DEF x
<1> QED BY <1>1, <1>2 DEF IsEntry, x

LEMMA BeforeAppend ==
  ASSUME NEW out \in Seq(Element), NEW e \in Element, NEW k \in 1 .. Len(out) + 1, NEW h
  PROVE  Before(Append(out, e), h, k) <=> Before(out, h, k)
<1> DEFINE x == Append(out, e)
<1>1. /\ Len(out) \in Nat /\ DOMAIN out = 1 .. Len(out) /\ DOMAIN x = 1 .. Len(out) + 1
      /\ \A m \in DOMAIN out : x[m] = out[m]
  OBVIOUS
<1> HIDE DEF x
<1>2. h \in DOMAIN x /\ h < k => h \in DOMAIN out
  BY <1>1
<1>3. h \in DOMAIN out => h \in DOMAIN x
  BY <1>1
<1>4. h \in DOMAIN out => \A m \in h + 1 .. k - 1 : m \in DOMAIN out
  BY <1>1
<1> QED BY <1>1, <1>2, <1>3, <1>4 DEF Before, x

LEMMA NoClusterAppend ==
  ASSUME NEW out \in Seq(Element), NEW e \in Element, NEW k \in 1 .. Len(out) + 1
  PROVE  NoClusterBefore(Append(out, e), k) <=> NoClusterBefore(out, k)
<1> DEFINE x == Append(out, e)
<1>1. /\ Len(out) \in Nat /\ DOMAIN out = 1 .. Len(out) /\ DOMAIN x = 1 .. Len(out) + 1
      /\ \A m \in DOMAIN out : x[m] = out[m]
  OBVIOUS
<1> HIDE DEF x
<1>2. \A i : i \in DOMAIN x /\ i < k <=> i \in DOMAIN out /\ i < k
  BY <1>1
<1> QED BY <1>1, <1>2 DEF NoClusterBefore, x

LEMMA LastBlockAppend ==
  ASSUME NEW out \in Seq(Element), NEW e \in Element, NEW j \in 1 .. Len(out) + 1, NEW k, NEW s
  PROVE  LastBlockBefore(Append(out, e), k, j, s) <=> LastBlockBefore(out, k, j, s)
<1> DEFINE x == Append(out, e)
<1>1. /\ Len(out) \in Nat /\ DOMAIN out = 1 .. Len(out) /\ DOMAIN x = 1 .. Len(out) + 1
      /\ \A m \in DOMAIN out : x[m] = out[m]
  OBVIOUS
<1> HIDE DEF x
<1>2. \A m : m < j => (IsBlockOf(x, m, s) <=> IsBlockOf(out, m, s))
  <2> TAKE m
  <2> HAVE m < j
  <2>1. m \in DOMAIN x <=> m \in DOMAIN out
    BY <1>1
  <2> QED BY <1>1, <2>1 DEF IsBlockOf
<1>3. k < j => \A m \in k + 1 .. j - 1 : m < j
  BY <1>1
<1> QED BY <1>2, <1>3 DEF LastBlockBefore, x
-----------------------------------------------------------------------------
(* A Block written at the end of the open Cluster.                         *)
LEMMA BlockFacts ==
  ASSUME NEW w, NEW x, NEW b, Writing(w), BlockWritten(w, x, b)
  PROVE  /\ w.out \in Seq(Element) /\ Len(w.out) \in Nat /\ w.cluster_open
         /\ b \in Element /\ b.kind = "Block" /\ b.track \in Streams /\ b.key \in BOOLEAN
         /\ b.frames \in Seq(Frame) /\ b.ref \in Int \cup {None}
         /\ x.out = Append(w.out, b)
         /\ Chapter(w) \in DOMAIN w.out /\ w.out[Chapter(w)].kind = "Cluster"
         /\ \A k \in Chapter(w) + 1 .. Len(w.out) : w.out[k].kind = "Block"
         /\ w.out[Chapter(w)].at = w.cluster_offset_rel + SegmentStart
         /\ w.out[Chapter(w)].ts = w.cluster_timecode_ms
         /\ w.cluster_offset_rel \in Int /\ w.cluster_block_count \in Nat
         /\ Chapter(x) = Chapter(w)
<1>1. /\ w.out \in Seq(Element) /\ w.cluster_offset_rel \in Int /\ w.cluster_block_count \in Nat
  BY DEF Writing, MuxState
<1>2. /\ w.cluster_open /\ b \in Element /\ b.kind = "Block" /\ x.out = Append(w.out, b)
      /\ x.cluster_block_count = w.cluster_block_count + 1
  BY DEF BlockWritten, BlockAdded
<1>3. /\ b.track \in Streams /\ b.key \in BOOLEAN
      /\ b.frames \in Seq(Frame) /\ b.ref \in Int \cup {None}
  BY <1>2 DEF Element
<1>4. OpenClusterKnown(w)
  BY DEF Writing
<1>5. Chapter(x) = Chapter(w)
  <2>1. Len(x.out) = Len(w.out) + 1 /\ Len(w.out) \in Nat
    BY <1>1, <1>2
  <2> QED BY <1>1, <1>2, <2>1 DEF Chapter
<1>6. Len(w.out) \in Nat
  BY <1>1
<1> QED BY <1>1, <1>2, <1>3, <1>4, <1>5, <1>6 DEF OpenClusterKnown, Chapter

\* The new Block is in the open Cluster, and in no other.
LEMMA NewBlockHolds ==
  ASSUME NEW w, NEW x, NEW b, Writing(w), BlockWritten(w, x, b), NEW i
  PROVE  Holds(x.out, i, Len(w.out) + 1) <=> i = Chapter(w)
<1> DEFINE n == Len(w.out) + 1
           h == Chapter(w)
<1>1. /\ Len(w.out) \in Nat /\ n \in Nat /\ h \in 1 .. Len(w.out) /\ w.out[h].kind = "Cluster"
      /\ \A k \in h + 1 .. Len(w.out) : w.out[k].kind = "Block"
      /\ DOMAIN x.out = 1 .. n /\ x.out[n].kind = "Block"
      /\ \A k \in 1 .. Len(w.out) : x.out[k] = w.out[k]
  <2>1. /\ w.out \in Seq(Element) /\ b.kind = "Block" /\ x.out = Append(w.out, b)
        /\ h \in DOMAIN w.out /\ w.out[h].kind = "Cluster"
        /\ \A k \in h + 1 .. Len(w.out) : w.out[k].kind = "Block"
    BY BlockFacts
  <2> HIDE DEF h
  <2> QED BY <2>1
<1> HIDE DEF n, h
<1>2. n = Len(w.out) + 1
  BY DEF n
<1>3. ASSUME i = h PROVE Holds(x.out, i, n)
  <2>1. \A k \in h + 1 .. n : x.out[k].kind = "Block"
    <3> TAKE k \in h + 1 .. n
    <3>1. CASE k = n
      BY <1>1, <3>1
    <3>2. CASE k # n
      BY <1>1, <1>2, <3>2
    <3> QED BY <3>1, <3>2
  <2>2. h \in DOMAIN x.out /\ n \in DOMAIN x.out /\ h < n /\ x.out[h].kind = "Cluster"
    BY <1>1, <1>2
  <2> QED BY <1>3, <2>1, <2>2 DEF Holds
<1>4. ASSUME Holds(x.out, i, n) PROVE i = h
  <2>1. /\ i \in 1 .. n /\ x.out[i].kind = "Cluster" /\ i < n
        /\ \A k \in i + 1 .. n : x.out[k].kind = "Block"
    BY <1>1, <1>4 DEF Holds
  <2>2. i \in 1 .. Len(w.out) /\ w.out[i].kind = "Cluster"
    BY <1>1, <1>2, <2>1
  <2>3. ~(i < h)
    <3> SUFFICES ASSUME i < h PROVE FALSE
      OBVIOUS
    <3>1. h \in i + 1 .. n
      BY <1>1, <1>2, <2>1
    <3> QED BY <1>1, <2>1, <3>1
  <2>4. ~(h < i)
    <3> SUFFICES ASSUME h < i PROVE FALSE
      OBVIOUS
    <3>1. i \in h + 1 .. Len(w.out)
      BY <1>1, <2>2
    <3> QED BY <1>1, <2>2, <3>1
  <2> QED BY <1>1, <2>1, <2>3, <2>4
<1> QED BY <1>3, <1>4 DEF n, h

\* Positions still ascend, and the muxer still stands behind them.
LEMMA AppendPlace ==
  ASSUME NEW w \in MuxState, NEW x \in MuxState, NEW e \in Element, SameHead(x, w),
         w.header_written, AtsAscend(w.out), PlaceKnown(w),
         x.out = Append(w.out, e), x.pos = w.pos + e.size, e.at = w.pos, e.kind # "Cues"
  PROVE  AtsAscend(x.out) /\ PlaceKnown(x)
<1>1. /\ w.out \in Seq(Element) /\ w.pos \in Nat /\ x.pos \in Nat /\ e.size \in Nat /\ e.size > 0
      /\ FrontReserved \in Nat /\ SegmentStart \in Nat /\ HeadSize \in Nat
  <2>1. w.out \in Seq(Element) /\ w.pos \in Nat /\ x.pos \in Nat
    BY DEF MuxState
  <2>2. e.size \in Nat /\ e.size > 0
    BY DEF Element
  <2> QED BY <2>1, <2>2, ConfigAssumption
<1>2. /\ Len(w.out) \in Nat /\ DOMAIN w.out = 1 .. Len(w.out) /\ DOMAIN x.out = 1 .. Len(w.out) + 1
      /\ \A k \in DOMAIN w.out : x.out[k] = w.out[k]
      /\ x.out[Len(w.out) + 1] = e
  BY <1>1
<1>3. \A k \in DOMAIN w.out : w.out[k].at < w.pos /\ w.out[k].kind # "Cues" /\ w.out[k].at \in Nat
  <2>1. \A k \in DOMAIN w.out : w.out[k] \in Element
    BY <1>1
  <2> QED BY <2>1 DEF PlaceKnown, Element
<1>4. AtsAscend(x.out)
  <2> SUFFICES ASSUME NEW i \in DOMAIN x.out, NEW j \in DOMAIN x.out, i < j
               PROVE  x.out[i].at < x.out[j].at
    BY DEF AtsAscend
  <2>1. CASE j = Len(w.out) + 1
    BY <1>2, <1>3, <2>1
  <2>2. CASE j # Len(w.out) + 1
    BY <1>2, <2>2 DEF AtsAscend
  <2> QED BY <2>1, <2>2
<1>5. \A k \in DOMAIN x.out : x.out[k].at < x.pos /\ x.out[k].kind # "Cues"
  <2> TAKE k \in DOMAIN x.out
  <2>1. CASE k = Len(w.out) + 1
    BY <1>1, <1>2, <2>1
  <2>2. CASE k # Len(w.out) + 1
    BY <1>1, <1>2, <1>3, <2>2
  <2> QED BY <2>1, <2>2
<1>6. /\ w.pos >= SegmentStart + HeadSize + FrontReserved
      /\ w.front_slot = (IF FrontReserved = 0 THEN None ELSE SegmentStart + HeadSize)
      /\ w.seek_cues = (IF Live THEN None ELSE 0)
      /\ w.duration = (IF Finalize THEN Void ELSE None)
  BY DEF PlaceKnown
<1>7. /\ x.header_written /\ x.front_slot = w.front_slot
      /\ x.seek_cues = w.seek_cues /\ x.duration = w.duration
  BY DEF SameHead, SameFlags
<1>8. x.pos >= SegmentStart + HeadSize + FrontReserved
  BY <1>1, <1>6
<1> QED BY <1>4, <1>5, <1>6, <1>7, <1>8 DEF PlaceKnown
LEMMA BlockLegal ==
  ASSUME NEW w, NEW x, NEW b, Writing(w), BlockWritten(w, x, b), BlocksLegal(w.out),
         b.frames # <<>>, LegalLace(b.frames, b.track, b.key, w.cluster_timecode_ms)
  PROVE  BlocksLegal(x.out)
<1> DEFINE n == Len(w.out) + 1
           h == Chapter(w)
<1>1. /\ w.out \in Seq(Element) /\ b \in Element /\ x.out = Append(w.out, b)
      /\ Len(w.out) \in Nat /\ h \in DOMAIN w.out /\ w.out[h].ts = w.cluster_timecode_ms
  BY BlockFacts
<1>2. /\ DOMAIN w.out = 1 .. Len(w.out) /\ DOMAIN x.out = 1 .. n
      /\ \A k \in DOMAIN w.out : x.out[k] = w.out[k]
      /\ x.out[n] = b
  BY <1>1
<1>3. Holds(x.out, h, n)
  BY NewBlockHolds
<1>4. \A i, j : j # n => (Holds(x.out, i, j) <=> Holds(w.out, i, j))
  BY <1>1, HoldsAppend
<1> HIDE DEF h, n
<1> SUFFICES ASSUME NEW j \in DOMAIN x.out, x.out[j].kind = "Block"
             PROVE  /\ x.out[j].frames # <<>>
                    /\ \E i \in DOMAIN x.out : /\ Holds(x.out, i, j)
                         /\ LegalLace(x.out[j].frames, x.out[j].track, x.out[j].key, x.out[i].ts)
  BY DEF BlocksLegal
<1>5. CASE j = n
  <2>1. h \in DOMAIN x.out /\ x.out[h].ts = w.cluster_timecode_ms
    BY <1>1, <1>2, <1>3 DEF Holds
  <2> QED BY <1>2, <1>3, <1>5, <2>1
<1>6. CASE j # n
  <2>1. j \in DOMAIN w.out /\ x.out[j] = w.out[j]
    BY <1>1, <1>2, <1>6 DEF n
  <2>2. PICK i \in DOMAIN w.out :
          /\ Holds(w.out, i, j)
          /\ LegalLace(w.out[j].frames, w.out[j].track, w.out[j].key, w.out[i].ts)
    BY <2>1 DEF BlocksLegal
  <2>3. Holds(x.out, i, j)
    BY <1>4, <1>6, <2>2
  <2>4. i \in DOMAIN x.out /\ x.out[i].ts = w.out[i].ts
    BY <1>2, <2>2, <2>3 DEF Holds
  <2> QED BY <2>1, <2>2, <2>3, <2>4 DEF BlocksLegal
<1> QED BY <1>5, <1>6

\* A cue of the open Cluster lands in it: Clusters start at different places.
LEMMA CueOfChapter ==
  ASSUME NEW w, NEW x, NEW b, Writing(w), BlockWritten(w, x, b), NEW y \in {w, x},
         AtsAscend(y.out), NEW c, c.cluster_offset = w.cluster_offset_rel, CueLands(y.out, c)
  PROVE  \E j \in DOMAIN y.out :
           /\ Points(y.out, c, Chapter(w), j) /\ Indexable(y.out[j].track, y.out[j].key)
<1> DEFINE h == Chapter(w)
<1>1. /\ w.out \in Seq(Element) /\ b \in Element /\ x.out = Append(w.out, b)
      /\ Len(w.out) \in Nat /\ h \in DOMAIN w.out
      /\ w.out[h].at = w.cluster_offset_rel + SegmentStart
      /\ w.cluster_offset_rel \in Int
  BY BlockFacts
<1>2. /\ h \in DOMAIN y.out /\ y.out[h] = w.out[h] /\ DOMAIN y.out \subseteq Nat
      /\ \A k \in DOMAIN y.out : y.out[k].at \in Nat
  <2>1. y.out \in Seq(Element)
    <3>1. Append(w.out, b) \in Seq(Element)
      BY <1>1
    <3> QED BY <1>1, <3>1
  <2>2. \A k \in DOMAIN y.out : y.out[k] \in Element
    BY <2>1
  <2>3. \A k \in DOMAIN y.out : y.out[k].at \in Nat
    BY <2>2 DEF Element
  <2>4. h \in DOMAIN y.out /\ y.out[h] = w.out[h]
    BY <1>1
  <2> QED BY <2>1, <2>3, <2>4
<1>3. PICK i \in DOMAIN y.out, j \in DOMAIN y.out :
        Points(y.out, c, i, j) /\ Indexable(y.out[j].track, y.out[j].key)
  BY DEF CueLands
<1>4. y.out[i].at = y.out[h].at
  <2>1. w.cluster_offset_rel = y.out[i].at - SegmentStart
    BY <1>3 DEF Points
  <2> QED BY <1>1, <1>2, <2>1, ConfigAssumption
<1> HIDE DEF h
<1>5. i = h
  <2>1. ~(i < h) /\ ~(h < i)
    BY <1>2, <1>4 DEF AtsAscend
  <2>2. i \in Nat /\ h \in Nat
    BY <1>2
  <2> QED BY <2>1, <2>2
<1> QED BY <1>3, <1>5 DEF h
LEMMA BlockSeen ==
  ASSUME NEW w, NEW x, NEW b, Writing(w), BlockWritten(w, x, b), SeenKnown(w)
  PROVE  SeenKnown(x)
<1> DEFINE n == Len(w.out) + 1
           h == Chapter(w)
           Entered(y, s) == \E j \in DOMAIN y.out : IsEntry(y.out, h, j, s)
           new(s) == s = b.track /\ Indexable(s, b.key)
<1>1. /\ w.out \in Seq(Element) /\ b \in Element /\ x.out = Append(w.out, b)
      /\ Len(w.out) \in Nat /\ w.cluster_open /\ Chapter(x) = h
      /\ b.track \in Streams
  BY BlockFacts
<1>2. \A s \in Streams : w.cue_seen_in_cluster[s] <=> Entered(w, s)
  BY <1>1 DEF SeenKnown, Chapter
<1>3. /\ DOMAIN w.out = 1 .. Len(w.out) /\ DOMAIN x.out = 1 .. n /\ x.out[n] = b
  BY <1>1
<1>4. Holds(x.out, h, n)
  BY NewBlockHolds
<1>5. \A j, s : j # n => (IsEntry(x.out, h, j, s) <=> IsEntry(w.out, h, j, s))
  BY <1>1, EntryAppend
<1> HIDE DEF h
<1>6. \A s \in Streams : Entered(x, s) <=> Entered(w, s) \/ new(s)
  <2> TAKE s \in Streams
  <2>1. IsEntry(x.out, h, n, s) <=> new(s)
    BY <1>3, <1>4 DEF IsEntry
  <2>2. n \in DOMAIN x.out /\ \A j \in DOMAIN w.out : j \in DOMAIN x.out /\ j # n
    BY <1>1, <1>3
  <2>3. \A j \in DOMAIN x.out : j = n \/ j \in DOMAIN w.out
    BY <1>1, <1>3
  <2> QED BY <1>5, <2>1, <2>2, <2>3
<1>7. w.cue_seen_in_cluster \in [Streams -> BOOLEAN]
  BY DEF Writing, MuxState
<1>8. \A s \in Streams : x.cue_seen_in_cluster[s] <=> w.cue_seen_in_cluster[s] \/ new(s)
  <2> TAKE s \in Streams
  <2>1. CASE Uncued(w, x, b)
    BY <2>1 DEF Uncued
  <2>2. CASE CuedBy(w, x, b)
    <3>1. /\ x.cue_seen_in_cluster = [w.cue_seen_in_cluster EXCEPT ![b.track] = TRUE]
          /\ Indexable(b.track, b.key)
      BY <2>2 DEF CuedBy
    <3>2. CASE s = b.track
      BY <1>1, <1>7, <3>1, <3>2
    <3>3. CASE s # b.track
      BY <1>7, <3>1, <3>3
    <3> QED BY <3>2, <3>3
  <2> QED BY <2>1, <2>2 DEF BlockWritten
<1> HIDE DEF Entered, new
<1>9. \A s \in Streams : x.cue_seen_in_cluster[s] <=> Entered(x, s)
  BY <1>2, <1>6, <1>8
<1> QED BY <1>1, <1>9 DEF SeenKnown, Chapter, Entered

LEMMA BlockIndexed ==
  ASSUME NEW w, NEW x, NEW b, Writing(w), Writing(x), BlockWritten(w, x, b), SeenKnown(w),
         AtsAscend(x.out), EntriesIndexed(w.out, w.cues)
  PROVE  EntriesIndexed(x.out, x.cues)
<1> DEFINE n == Len(w.out) + 1
           h == Chapter(w)
<1>1. /\ w.out \in Seq(Element) /\ b \in Element /\ x.out = Append(w.out, b)
      /\ Len(w.out) \in Nat /\ w.cluster_open
      /\ w.cluster_block_count \in Nat /\ h \in DOMAIN w.out
  BY BlockFacts
<1>2. /\ DOMAIN w.out = 1 .. Len(w.out) /\ DOMAIN x.out = 1 .. n /\ x.out[n] = b
      /\ w.cues \in Seq(CueRecord) /\ x.cues \in Seq(CueRecord)
  <2>1. w.cues \in Seq(CueRecord) /\ x.cues \in Seq(CueRecord)
    BY DEF Writing, MuxState
  <2> QED BY <1>1, <2>1
<1>3. \A m \in DOMAIN w.cues : m \in DOMAIN x.cues /\ x.cues[m] = w.cues[m]
  <2>1. x.cues = w.cues \/ \E c \in CueRecord : x.cues = Append(w.cues, c)
    BY DEF BlockWritten, Uncued, CuedBy
  <2> QED BY <1>2, <2>1
<1>4. \A i, j, s : j # n => (IsEntry(x.out, i, j, s) <=> IsEntry(w.out, i, j, s))
  BY <1>1, EntryAppend
<1>5. \A c, i, j : j # n => (Points(x.out, c, i, j) <=> Points(w.out, c, i, j))
  BY <1>1, PointsAppend
<1>6. \A i : Holds(x.out, i, n) <=> i = h
  BY NewBlockHolds
<1> SUFFICES ASSUME NEW i \in DOMAIN x.out, NEW j \in DOMAIN x.out, NEW s \in Streams,
                    FirstEntry(x.out, i, j, s)
             PROVE  \E m \in DOMAIN x.cues : Points(x.out, x.cues[m], i, j)
  BY DEF EntriesIndexed
<1>7. CASE j # n
  <2>1. j \in DOMAIN w.out
    BY <1>1, <1>2, <1>7
  <2>2. \A k \in DOMAIN w.out : k # n /\ k \in DOMAIN x.out
    BY <1>1, <1>2
  <2>3. FirstEntry(w.out, i, j, s)
    BY <1>4, <1>7, <2>2 DEF FirstEntry
  <2>4. i \in DOMAIN w.out
    BY <2>3 DEF FirstEntry, IsEntry, Holds
  <2>5. PICK m \in DOMAIN w.cues : Points(w.out, w.cues[m], i, j)
    BY <2>1, <2>3, <2>4 DEF EntriesIndexed
  <2>6. m \in DOMAIN x.cues /\ x.cues[m] = w.cues[m] /\ Points(x.out, w.cues[m], i, j)
    BY <1>3, <1>5, <1>7, <2>5
  <2> QED BY <2>6
<1>8. CASE j = n
  <2>1. IsEntry(x.out, i, n, s) /\ \A k \in DOMAIN x.out : IsEntry(x.out, i, k, s) => n <= k
    BY <1>8 DEF FirstEntry
  <2>2. i = h /\ s = b.track /\ Indexable(b.track, b.key)
    BY <1>2, <1>6, <2>1 DEF IsEntry
  <2>3. ~w.cue_seen_in_cluster[b.track]
    <3> SUFFICES ASSUME w.cue_seen_in_cluster[b.track] PROVE FALSE
      OBVIOUS
    <3>1. PICK k \in DOMAIN w.out : IsEntry(w.out, h, k, b.track)
      BY <1>1, <2>2 DEF SeenKnown, Chapter
    <3>2. k \in DOMAIN x.out /\ k # n /\ ~(n <= k)
      BY <1>1, <1>2, <3>1
    <3> QED BY <1>4, <2>1, <2>2, <3>1, <3>2
  <2>4. PICK c \in CueRecord :
          /\ x.cues = Append(w.cues, c) /\ c.cluster_offset = w.cluster_offset_rel
          /\ c.block_number = w.cluster_block_count + 1
    BY <2>2, <2>3 DEF BlockWritten, Uncued, CuedBy
  <2>5. Len(x.cues) \in DOMAIN x.cues /\ x.cues[Len(x.cues)] = c
    BY <1>2, <2>4
  <2>6. CueLands(x.out, c)
    BY <2>5 DEF Writing, CuesKnown
  <2>7. PICK k \in DOMAIN x.out : Points(x.out, c, h, k)
    BY <2>4, <2>6, CueOfChapter
  <2>8. k = n
    <3>1. w.cluster_block_count + 1 = k - h
      BY <2>4, <2>7 DEF Points
    <3>2. h = Len(w.out) - w.cluster_block_count /\ k \in Nat
      BY <1>2, <2>7 DEF Chapter
    <3> HIDE DEF h
    <3> QED BY <1>1, <3>1, <3>2
  <2> QED BY <1>8, <2>2, <2>5, <2>7, <2>8
<1> QED BY <1>7, <1>8

LEMMA BlockCuesUnique ==
  ASSUME NEW w, NEW x, NEW b, Writing(w), BlockWritten(w, x, b), SeenKnown(w),
         AtsAscend(w.out), CuesUnique(w.cues)
  PROVE  CuesUnique(x.cues)
<1> DEFINE h == Chapter(w)
<1>1. CASE Uncued(w, x, b)
  BY <1>1 DEF Uncued
<1>2. CASE CuedBy(w, x, b)
  <2>1. PICK c \in CueRecord :
          /\ x.cues = Append(w.cues, c) /\ c.track = b.track
          /\ c.cluster_offset = w.cluster_offset_rel
    BY <1>2 DEF CuedBy
  <2>2. w.cues \in Seq(CueRecord)
    BY DEF Writing, MuxState
  <2>3. /\ Len(w.cues) \in Nat /\ DOMAIN w.cues = 1 .. Len(w.cues)
        /\ DOMAIN x.cues = 1 .. Len(w.cues) + 1
        /\ \A m \in DOMAIN w.cues : x.cues[m] = w.cues[m]
        /\ x.cues[Len(w.cues) + 1] = c
    BY <2>1, <2>2
  <2>4. \A m \in DOMAIN w.cues :
          w.cues[m].track = b.track /\ w.cues[m].cluster_offset = w.cluster_offset_rel
          => Media[b.track] = "Subtitle"
    <3> SUFFICES ASSUME NEW m \in DOMAIN w.cues, w.cues[m].track = b.track,
                        w.cues[m].cluster_offset = w.cluster_offset_rel
                 PROVE  Media[b.track] = "Subtitle"
      OBVIOUS
    <3>1. CueLands(w.out, w.cues[m])
      BY DEF Writing, CuesKnown
    <3>2. PICK j \in DOMAIN w.out :
            /\ Points(w.out, w.cues[m], h, j) /\ Indexable(w.out[j].track, w.out[j].key)
      BY <3>1, CueOfChapter
    <3>3. IsEntry(w.out, h, j, b.track)
      BY <3>2 DEF Points, IsEntry
    <3>4. w.cluster_open /\ b.track \in Streams
      BY BlockFacts
    <3>5. w.cue_seen_in_cluster[b.track]
      BY <3>3, <3>4 DEF SeenKnown, Chapter
    <3> QED BY <1>2, <3>5 DEF CuedBy
  <2> SUFFICES ASSUME NEW k \in DOMAIN x.cues, NEW m \in DOMAIN x.cues,
                      x.cues[k].track = x.cues[m].track, Media[x.cues[k].track] # "Subtitle",
                      x.cues[k].cluster_offset = x.cues[m].cluster_offset
               PROVE  k = m
    BY DEF CuesUnique
  <2>5. CASE k \in DOMAIN w.cues /\ m \in DOMAIN w.cues
    BY <2>3, <2>5 DEF CuesUnique
  <2>6. CASE k = Len(w.cues) + 1 \/ m = Len(w.cues) + 1
    BY <2>1, <2>3, <2>4, <2>6
  <2> QED BY <2>3, <2>5, <2>6
<1> QED BY <1>1, <1>2 DEF BlockWritten
-----------------------------------------------------------------------------
(* What any new element must know for the other parts to be kept.          *)
SizedBy(out, e) ==
  \/ NoClusterBefore(out, Len(out) + 1) /\ e.prev_size = None
  \/ \E h \in DOMAIN out : /\ Before(out, h, Len(out) + 1)
                          /\ e.prev_size = IF Hints THEN e.at - out[h].at ELSE None

RefersTo(out, e) ==
  LET n == Len(out) + 1 IN
  \/ \A k \in DOMAIN out : k < n => ~IsBlockOf(out, k, e.track)
  \/ \E k \in DOMAIN out : /\ LastBlockBefore(out, k, n, e.track)
                          /\ out[k].frames[1].ms = e.frames[1].ms + e.ref

LEMMA AppendPrevSizes ==
  ASSUME NEW out \in Seq(Element), NEW e \in Element, PrevSizesKnown(out),
         e.kind = "Cluster" => SizedBy(out, e)
  PROVE  PrevSizesKnown(Append(out, e))
<1> DEFINE x == Append(out, e)
           n == Len(out) + 1
<1>1. /\ Len(out) \in Nat /\ DOMAIN out = 1 .. Len(out) /\ DOMAIN x = 1 .. n
      /\ \A k \in DOMAIN out : x[k] = out[k]
      /\ x[n] = e
  OBVIOUS
<1>2. \A k \in 1 .. n : /\ NoClusterBefore(x, k) <=> NoClusterBefore(out, k)
                        /\ \A h : Before(x, h, k) <=> Before(out, h, k)
  BY NoClusterAppend, BeforeAppend
<1> HIDE DEF x, n
<1> SUFFICES ASSUME NEW k \in DOMAIN x, x[k].kind = "Cluster"
             PROVE  \/ NoClusterBefore(x, k) /\ x[k].prev_size = None
                    \/ \E h \in DOMAIN x :
                         /\ Before(x, h, k)
                         /\ x[k].prev_size = IF Hints THEN x[k].at - x[h].at ELSE None
  BY DEF PrevSizesKnown, x
<1>3. \/ NoClusterBefore(out, k) /\ x[k].prev_size = None
      \/ \E h \in DOMAIN out :
           /\ Before(out, h, k)
           /\ x[k].prev_size = IF Hints THEN x[k].at - out[h].at ELSE None
  <2>1. CASE k = n
    BY <1>1, <2>1 DEF SizedBy, n
  <2>2. CASE k # n
    <3>1. k \in DOMAIN out /\ x[k] = out[k]
      BY <1>1, <2>2 DEF n
    <3> QED BY <3>1 DEF PrevSizesKnown
  <2> QED BY <2>1, <2>2
<1>4. \A h \in DOMAIN out : h \in DOMAIN x /\ x[h] = out[h]
  BY <1>1 DEF n
<1> QED BY <1>1, <1>2, <1>3, <1>4

LEMMA AppendReferences ==
  ASSUME NEW out \in Seq(Element), NEW e \in Element, ReferencesKnown(out),
         e.kind = "Block" /\ e.ref \in Int => RefersTo(out, e)
  PROVE  ReferencesKnown(Append(out, e))
<1> DEFINE x == Append(out, e)
           n == Len(out) + 1
<1>1. /\ Len(out) \in Nat /\ DOMAIN out = 1 .. Len(out) /\ DOMAIN x = 1 .. n
      /\ \A k \in DOMAIN out : x[k] = out[k]
      /\ x[n] = e
  OBVIOUS
<1>2. \A j \in 1 .. n : \A k, s : LastBlockBefore(x, k, j, s) <=> LastBlockBefore(out, k, j, s)
  BY LastBlockAppend
<1> HIDE DEF x, n
<1> SUFFICES ASSUME NEW j \in DOMAIN x, x[j].kind = "Block", x[j].ref \in Int
             PROVE  LET s == x[j].track IN
                    \/ \A k \in DOMAIN x : k < j => ~IsBlockOf(x, k, s)
                    \/ \E k \in DOMAIN x : /\ LastBlockBefore(x, k, j, s)
                                          /\ x[k].frames[1].ms = x[j].frames[1].ms + x[j].ref
  BY DEF ReferencesKnown, x
<1> DEFINE s == x[j].track
<1>3. \/ \A k \in DOMAIN out : k < j => ~IsBlockOf(out, k, s)
      \/ \E k \in DOMAIN out : /\ LastBlockBefore(out, k, j, s)
                              /\ out[k].frames[1].ms = x[j].frames[1].ms + x[j].ref
  <2>1. CASE j = n
    <3>1. RefersTo(out, e)
      BY <1>1, <2>1
    <3> QED BY <1>1, <2>1, <3>1 DEF RefersTo, n
  <2>2. CASE j # n
    <3>1. j \in DOMAIN out /\ x[j] = out[j]
      BY <1>1, <2>2 DEF n
    <3> QED BY <3>1 DEF ReferencesKnown
  <2> QED BY <2>1, <2>2
<1>4. \A k \in DOMAIN out : k \in DOMAIN x /\ x[k] = out[k]
  BY <1>1 DEF n
<1>5. \A k \in DOMAIN x : k < j => k \in DOMAIN out /\ x[k] = out[k]
  BY <1>1 DEF n
<1> HIDE DEF s
<1>6. CASE \A k \in DOMAIN out : k < j => ~IsBlockOf(out, k, s)
  BY <1>5, <1>6 DEF IsBlockOf, s
<1>7. CASE \E k \in DOMAIN out : /\ LastBlockBefore(out, k, j, s)
                                /\ out[k].frames[1].ms = x[j].frames[1].ms + x[j].ref
  BY <1>1, <1>2, <1>4, <1>7 DEF s
<1> QED BY <1>3, <1>6, <1>7

LEMMA AppendLegal ==
  ASSUME NEW out \in Seq(Element), NEW e \in Element, BlocksLegal(out), e.kind # "Block"
  PROVE  BlocksLegal(Append(out, e))
<1> DEFINE x == Append(out, e)
<1>1. /\ Len(out) \in Nat /\ DOMAIN out = 1 .. Len(out) /\ DOMAIN x = 1 .. Len(out) + 1
      /\ \A k \in DOMAIN out : x[k] = out[k]
      /\ x[Len(out) + 1] = e
  OBVIOUS
<1>2. \A i, j : j # Len(out) + 1 => (Holds(x, i, j) <=> Holds(out, i, j))
  BY HoldsAppend
<1> HIDE DEF x
<1> SUFFICES ASSUME NEW j \in DOMAIN x, x[j].kind = "Block"
             PROVE  /\ x[j].frames # <<>>
                    /\ \E i \in DOMAIN x :
                         Holds(x, i, j) /\ LegalLace(x[j].frames, x[j].track, x[j].key, x[i].ts)
  BY DEF BlocksLegal, x
<1>3. j \in DOMAIN out /\ x[j] = out[j] /\ j # Len(out) + 1
  BY <1>1
<1>4. PICK i \in DOMAIN out : /\ Holds(out, i, j)
                             /\ LegalLace(out[j].frames, out[j].track, out[j].key, out[i].ts)
  BY <1>3 DEF BlocksLegal
<1>5. i \in DOMAIN x /\ x[i] = out[i] /\ Holds(x, i, j)
  BY <1>1, <1>2, <1>3, <1>4
<1> QED BY <1>3, <1>4, <1>5 DEF BlocksLegal

LEMMA AppendIndexed ==
  ASSUME NEW out \in Seq(Element), NEW e \in Element, NEW cues, EntriesIndexed(out, cues),
         e.kind # "Block"
  PROVE  EntriesIndexed(Append(out, e), cues)
<1> DEFINE x == Append(out, e)
           n == Len(out) + 1
<1>1. /\ Len(out) \in Nat /\ DOMAIN out = 1 .. Len(out) /\ DOMAIN x = 1 .. n
      /\ x[n] = e
  OBVIOUS
<1>2. \A i, j, s : j # n => (IsEntry(x, i, j, s) <=> IsEntry(out, i, j, s))
  BY EntryAppend
<1>3. \A c, i, j : j # n => (Points(x, c, i, j) <=> Points(out, c, i, j))
  BY PointsAppend
<1> HIDE DEF x, n
<1>4. \A i, s : ~IsEntry(x, i, n, s)
  <2> SUFFICES ASSUME NEW i, Holds(x, i, n) PROVE FALSE
    BY DEF IsEntry
  <2>1. i \in DOMAIN x /\ i < n /\ n \in Nat /\ \A k \in i + 1 .. n : x[k].kind = "Block"
    BY <1>1 DEF Holds, n
  <2>2. n \in i + 1 .. n
    BY <1>1, <2>1
  <2> QED BY <1>1, <2>1, <2>2
<1> SUFFICES ASSUME NEW i \in DOMAIN x, NEW j \in DOMAIN x, NEW s \in Streams,
                    FirstEntry(x, i, j, s)
             PROVE  \E m \in DOMAIN cues : Points(x, cues[m], i, j)
  BY DEF EntriesIndexed, x
<1>5. j # n /\ j \in DOMAIN out
  BY <1>1, <1>4 DEF FirstEntry, n
<1>6. FirstEntry(out, i, j, s) /\ i \in DOMAIN out
  <2>1. \A k \in DOMAIN out : k # n /\ k \in DOMAIN x
    BY <1>1 DEF n
  <2>2. FirstEntry(out, i, j, s)
    BY <1>2, <1>5, <2>1 DEF FirstEntry
  <2> QED BY <2>2 DEF FirstEntry, IsEntry, Holds
<1>7. PICK m \in DOMAIN cues : Points(out, cues[m], i, j)
  BY <1>5, <1>6 DEF EntriesIndexed
<1> QED BY <1>3, <1>5, <1>7
\* The frames a reader finds, one element longer.
FramesOf(e) == IF e.kind = "Block" THEN e.frames ELSE <<>>

LEMMA FramesAppend ==
  ASSUME NEW out \in Seq(Element), NEW e \in Element
  PROVE  /\ FramesIn(out) \in Seq(Frame)
         /\ FramesIn(Append(out, e)) = FramesIn(out) \o FramesOf(e)
<1> DEFINE x == Append(out, e)
           ss == [j \in DOMAIN out |-> FramesOf(out[j])]
           st == [j \in DOMAIN x |-> FramesOf(x[j])]
<1>1. /\ Len(out) \in Nat /\ DOMAIN out = 1 .. Len(out) /\ DOMAIN x = 1 .. Len(out) + 1
      /\ \A k \in DOMAIN out : x[k] = out[k] /\ out[k] \in Element
      /\ x[Len(out) + 1] = e
  OBVIOUS
<1>2. \A d \in Element : FramesOf(d) \in Seq(Frame)
  BY DEF FramesOf, Element
<1>3. ss \in Seq(Seq(Frame)) /\ Len(ss) = Len(out)
  <2>1. \A k \in 1 .. Len(out) : FramesOf(out[k]) \in Seq(Frame)
    BY <1>1, <1>2
  <2>2. ss = [j \in 1 .. Len(out) |-> FramesOf(out[j])]
    BY <1>1
  <2> HIDE DEF ss
  <2>3. ss \in [1 .. Len(out) -> Seq(Frame)]
    BY <2>1, <2>2
  <2>4. ss \in Seq(Seq(Frame))
    BY <1>1, <2>3, SeqDef
  <2> QED BY <1>1, <2>2, <2>4
<1>4. FramesOf(e) \in Seq(Frame)
  BY <1>2
<1>5. st = Append(ss, FramesOf(e))
  <2>1. \A k \in 1 .. Len(out) : st[k] = ss[k]
    BY <1>1
  <2>2. st[Len(out) + 1] = FramesOf(e)
    BY <1>1
  <2>3. DOMAIN st = 1 .. Len(out) + 1 /\ st = [k \in 1 .. Len(out) + 1 |-> st[k]]
    BY <1>1
  <2> HIDE DEF ss, st
  <2> DEFINE f == FramesOf(e)
             a == Append(ss, f)
  <2>4. DOMAIN a = 1 .. Len(out) + 1 /\ a = [k \in 1 .. Len(out) + 1 |-> a[k]]
        /\ (\A k \in 1 .. Len(out) : a[k] = ss[k]) /\ a[Len(out) + 1] = f
    <3>1. f \in Seq(Frame)
      BY <1>4
    <3> HIDE DEF f
    <3> DEFINE T == Seq(Frame)
    <3>2. ss \in Seq(T) /\ f \in T
      BY <1>3, <3>1
    <3> HIDE DEF T
    <3>3. a \in Seq(T) /\ Len(a) = Len(ss) + 1 /\ a[Len(ss) + 1] = f
      BY <3>2
    <3>4. \A k \in 1 .. Len(ss) : a[k] = ss[k]
      BY <3>2
    <3> HIDE DEF a
    <3>5. DOMAIN a = 1 .. Len(a) /\ a = [k \in 1 .. Len(a) |-> a[k]]
      BY <3>3
    <3> QED BY <1>3, <3>3, <3>4, <3>5
  <2> HIDE DEF f, a
  <2>5. \A k \in 1 .. Len(out) + 1 : st[k] = a[k]
    <3> TAKE k \in 1 .. Len(out) + 1
    <3>1. k \in 1 .. Len(out) \/ k = Len(out) + 1
      BY <1>1
    <3> QED BY <2>1, <2>2, <2>4, <3>1 DEF f
  <2> QED BY <2>3, <2>4, <2>5 DEF a, f
<1>6. FramesIn(out) = FlattenSeq(ss) /\ FramesIn(x) = FlattenSeq(st)
  BY DEF FramesIn, FramesOf
<1> HIDE DEF ss, st, x
<1>7. FlattenSeq(ss) \in Seq(Frame) /\ FlattenSeq(Append(ss, FramesOf(e))) = FlattenSeq(ss) \o FramesOf(e)
  BY <1>3, <1>4, FlattenAppend, FlattenType
<1> QED BY <1>5, <1>6, <1>7 DEF x
-----------------------------------------------------------------------------
(* The invariant of a muxer that may still write, and each step keeps it.  *)
Known(w, log) ==
  /\ Writing(w) /\ w.header_written /\ log \in Seq(Frame)
  /\ OutputKnown(w.out, w.cues) /\ FieldsKnown(w, log)

\* max_end_ms covers an end time about to be logged.
Covers(w, end) == w.max_end_ms # None /\ end <= w.max_end_ms

LEMMA KnownAdvanced ==
  ASSUME NEW w, NEW x, NEW log, NEW end, Known(w, log), Writing(x), Advanced(w, x, end)
  PROVE  Known(x, log) /\ Covers(x, end)
<1>1. SameOut(x, w) /\ x.lace_pending = w.lace_pending
      /\ x.last_block_pts_ms = w.last_block_pts_ms
  BY DEF Advanced
<1>2. x.header_written /\ OutputKnown(x.out, x.cues)
  BY <1>1 DEF Known, SameOut, SameHead, SameFlags
<1>3. PlaceKnown(x)
  BY <1>1 DEF Known, FieldsKnown, PlaceKnown, SameOut, SameHead, SameFlags
<1>4. PendingLegal(x) /\ SeenKnown(x)
  BY <1>1 DEF Known, FieldsKnown, PendingLegal, SeenKnown, LacePending, SameOut
<1>5. ~Live => PrevStartKnown(x)
  BY <1>1 DEF Known, FieldsKnown, PrevStartKnown, SameOut
<1>6. Lacing = "None" => LastPtsKnown(x)
  BY <1>1 DEF Known, FieldsKnown, LastPtsKnown, SameOut
<1>7. LogKnown(x, log)
  BY <1>1 DEF Known, FieldsKnown, LogKnown, LacePending, SameOut
<1>8. EndKnown(x, log)
  <2> SUFFICES ASSUME NEW i \in DOMAIN log
               PROVE  x.max_end_ms # None /\ log[i].end_ms <= x.max_end_ms
    BY DEF EndKnown
  <2>1. w.max_end_ms # None /\ log[i].end_ms <= w.max_end_ms
    BY DEF Known, FieldsKnown, EndKnown
  <2>2. x.max_end_ms # None /\ w.max_end_ms <= x.max_end_ms
    BY <2>1 DEF Advanced
  <2>3. w.max_end_ms \in Int /\ x.max_end_ms \in Int
    <3>1. w \in MuxState /\ x \in MuxState
      BY DEF Known, Writing
    <3> QED BY <2>1, <2>2, <3>1 DEF MuxState
  <2>4. log[i].end_ms \in Int
    <3>1. log \in Seq(Frame)
      BY DEF Known
    <3>2. log[i] \in Frame
      BY <3>1
    <3> QED BY <3>2 DEF Frame
  <2> QED BY <2>1, <2>2, <2>3, <2>4
<1>9. Covers(x, end)
  BY DEF Advanced, Covers
<1> QED BY <1>2, <1>3, <1>4, <1>5, <1>6, <1>7, <1>8, <1>9 DEF Known, FieldsKnown

\* PrevSize's start is still the last Cluster's.
LEMMA BlockPrevStart ==
  ASSUME NEW w, NEW x, NEW b, Writing(w), BlockWritten(w, x, b), PrevStartKnown(w)
  PROVE  PrevStartKnown(x)
<1>1. /\ w.out \in Seq(Element) /\ b \in Element /\ x.out = Append(w.out, b)
      /\ Len(w.out) \in Nat /\ b.kind = "Block"
  BY BlockFacts
<1> DEFINE n == Len(w.out) + 1
<1>2. /\ DOMAIN w.out = 1 .. Len(w.out) /\ DOMAIN x.out = 1 .. n /\ Len(x.out) = n
      /\ \A k \in DOMAIN w.out : x.out[k] = w.out[k]
      /\ x.out[n].kind = "Block"
  BY <1>1
<1>3. x.prev_cluster_start = w.prev_cluster_start
  BY DEF BlockWritten, BlockAdded
<1> HIDE DEF n
<1>4. CASE w.prev_cluster_start = None /\ NoClusterBefore(w.out, n)
  <2>1. NoClusterBefore(x.out, n + 1)
    <3> SUFFICES ASSUME NEW i \in DOMAIN x.out PROVE x.out[i].kind # "Cluster"
      BY DEF NoClusterBefore
    <3>1. CASE i = n
      BY <1>2, <3>1
    <3>2. CASE i # n
      BY <1>1, <1>2, <1>4, <3>2 DEF NoClusterBefore, n
    <3> QED BY <3>1, <3>2
  <2> QED BY <1>2, <1>3, <1>4, <2>1 DEF PrevStartKnown
<1>5. CASE \E h \in DOMAIN w.out :
             Before(w.out, h, n) /\ w.prev_cluster_start = w.out[h].at
  <2>1. PICK h \in DOMAIN w.out : Before(w.out, h, n) /\ w.prev_cluster_start = w.out[h].at
    BY <1>5
  <2>2. \A m \in h + 1 .. n : x.out[m].kind = "Block"
    <3> TAKE m \in h + 1 .. n
    <3>1. CASE m = n
      BY <1>2, <3>1
    <3>2. CASE m # n
      BY <1>1, <1>2, <2>1, <3>2 DEF Before, n
    <3> QED BY <3>1, <3>2
  <2>3. h \in DOMAIN x.out /\ h < n + 1 /\ (n + 1) - 1 = n /\ x.out[h] = w.out[h]
    BY <1>1, <1>2 DEF n
  <2>4. Before(x.out, h, n + 1)
    BY <2>1, <2>2, <2>3 DEF Before
  <2> QED BY <1>2, <1>3, <2>1, <2>3, <2>4 DEF PrevStartKnown
<1> QED BY <1>4, <1>5 DEF PrevStartKnown, n

LEMMA KnownBlock ==
  ASSUME NEW w, NEW x, NEW b, NEW log, Known(w, log), Writing(x), BlockWritten(w, x, b),
         b.frames # <<>>, LegalLace(b.frames, b.track, b.key, w.cluster_timecode_ms),
         Lacing = "None" => (b.ref \in Int => RefersTo(w.out, b))
  PROVE  /\ OutputKnown(x.out, x.cues) /\ PlaceKnown(x) /\ SeenKnown(x)
         /\ ~Live => PrevStartKnown(x)
         /\ x.header_written
         /\ FramesIn(x.out) = FramesIn(w.out) \o b.frames
<1>1. /\ w.out \in Seq(Element) /\ b \in Element /\ x.out = Append(w.out, b)
      /\ b.kind = "Block"
  BY BlockFacts DEF Known
<1>2. /\ Writing(w) /\ w.header_written /\ w \in MuxState /\ x \in MuxState
      /\ AtsAscend(w.out) /\ BlocksLegal(w.out) /\ EntriesIndexed(w.out, w.cues)
      /\ CuesUnique(w.cues) /\ PlaceKnown(w) /\ SeenKnown(w)
      /\ ~Live => PrevSizesKnown(w.out) /\ PrevStartKnown(w)
      /\ Lacing = "None" => ReferencesKnown(w.out)
  BY DEF Known, OutputKnown, FieldsKnown, Writing
<1>3. AtsAscend(x.out) /\ PlaceKnown(x)
  <2>1. /\ SameHead(x, w) /\ x.pos = w.pos + b.size /\ b.at = w.pos /\ b.kind # "Cues"
    BY DEF BlockWritten, BlockAdded
  <2> QED BY <1>1, <1>2, <2>1, AppendPlace
<1>4. BlocksLegal(x.out) /\ SeenKnown(x) /\ CuesUnique(x.cues)
  BY <1>2, BlockLegal, BlockSeen, BlockCuesUnique
<1>5. EntriesIndexed(x.out, x.cues)
  BY <1>2, <1>3, BlockIndexed
<1>6. ~Live => PrevSizesKnown(x.out) /\ PrevStartKnown(x)
  BY <1>1, <1>2, AppendPrevSizes, BlockPrevStart
<1>7. Lacing = "None" => ReferencesKnown(x.out)
  BY <1>1, <1>2, AppendReferences
<1>8. x.header_written
  BY <1>2 DEF BlockWritten, BlockAdded, SameHead, SameFlags
<1>9. FramesIn(x.out) = FramesIn(w.out) \o b.frames
  BY <1>1, FramesAppend DEF FramesOf
<1> QED BY <1>3, <1>4, <1>5, <1>6, <1>7, <1>8, <1>9 DEF OutputKnown

LEMMA KnownFlushed ==
  ASSUME NEW w, NEW x, NEW log, NEW end, Known(w, log), Writing(x),
         MaybeFlushed(w, x)
  PROVE  Known(x, log) /\ (Covers(w, end) => Covers(x, end))
<1>1. CASE x = w
  BY <1>1
<1>2. CASE Flushed(w, x)
  <2>1. PICK s \in Streams, b \in Element :
          /\ LacePending(w, s) /\ BlockWritten(w, x, b)
          /\ b.track = s /\ b.key = w.lace_pending[s].keyframe
          /\ b.frames = w.lace_pending[s].frames
    BY <1>2 DEF Flushed
  <2>2. Lacing # "None" /\ NonePending(x)
    BY <1>2 DEF Flushed
  <2>3. b.frames # <<>> /\ LegalLace(b.frames, b.track, b.key, w.cluster_timecode_ms)
    BY <2>1 DEF LacePending, Known, FieldsKnown, PendingLegal
  <2>4. /\ OutputKnown(x.out, x.cues) /\ PlaceKnown(x) /\ SeenKnown(x)
        /\ ~Live => PrevStartKnown(x)
        /\ x.header_written
        /\ FramesIn(x.out) = FramesIn(w.out) \o b.frames
    BY <2>1, <2>2, <2>3, KnownBlock
  <2>5. log = FramesIn(x.out) /\ log \in Seq(Frame)
    BY <2>1, <2>4 DEF Known, FieldsKnown, LogKnown
  <2>6. PendingLegal(x) /\ LogKnown(x, log)
    BY <2>2, <2>5 DEF NonePending, PendingLegal, LogKnown
  <2>7. x.max_end_ms = w.max_end_ms
    BY <2>1 DEF BlockWritten, BlockAdded
  <2>8. EndKnown(x, log) /\ (Covers(w, end) => Covers(x, end))
    BY <2>7 DEF Known, FieldsKnown, EndKnown, Covers
  <2> QED BY <2>2, <2>4, <2>5, <2>6, <2>8 DEF Known, FieldsKnown
<1> QED BY <1>1, <1>2 DEF MaybeFlushed
\* An element that is no Block, written while no lace is pending.
Extended(w, x, e) ==
  /\ SameHead(x, w) /\ NonePending(w) /\ x.lace_pending = w.lace_pending
  /\ e \in Element /\ e.kind \in {"Cluster", "Tags"} /\ e.at = w.pos
  /\ x.out = Append(w.out, e) /\ x.pos = w.pos + e.size /\ x.cues = w.cues
  /\ x.last_block_pts_ms = w.last_block_pts_ms /\ x.max_end_ms = w.max_end_ms

LEMMA KnownExtended ==
  ASSUME NEW w, NEW x, NEW e, NEW log, NEW end, Known(w, log), Writing(x),
         Extended(w, x, e), e.kind = "Cluster" /\ ~Live => SizedBy(w.out, e),
         SeenKnown(x), ~Live => PrevStartKnown(x)
  PROVE  Known(x, log) /\ (Covers(w, end) => Covers(x, end))
<1>1. /\ e \in Element /\ e.kind \in {"Cluster", "Tags"} /\ e.at = w.pos
      /\ x.out = Append(w.out, e) /\ x.pos = w.pos + e.size /\ x.cues = w.cues
      /\ SameHead(x, w) /\ NonePending(w) /\ NonePending(x)
      /\ x.last_block_pts_ms = w.last_block_pts_ms /\ x.max_end_ms = w.max_end_ms
  BY DEF Extended, NonePending, LacePending
<1>2. /\ w.header_written /\ w \in MuxState /\ x \in MuxState /\ log \in Seq(Frame)
      /\ w.out \in Seq(Element)
      /\ AtsAscend(w.out) /\ BlocksLegal(w.out) /\ EntriesIndexed(w.out, w.cues)
      /\ CuesUnique(w.cues) /\ PlaceKnown(w)
      /\ ~Live => PrevSizesKnown(w.out)
      /\ Lacing = "None" => ReferencesKnown(w.out) /\ LastPtsKnown(w)
      /\ LogKnown(w, log) /\ EndKnown(w, log)
  BY DEF Known, OutputKnown, FieldsKnown, Writing, MuxState
<1>3. e.kind # "Block" /\ e.kind # "Cues"
  BY <1>1
<1>4. AtsAscend(x.out) /\ PlaceKnown(x)
  BY <1>1, <1>2, <1>3, AppendPlace
<1>5. BlocksLegal(x.out) /\ EntriesIndexed(x.out, x.cues) /\ CuesUnique(x.cues)
  BY <1>1, <1>2, <1>3, AppendLegal, AppendIndexed
<1>6. ~Live => PrevSizesKnown(x.out)
  BY <1>1, <1>2, AppendPrevSizes
<1>7. Lacing = "None" => ReferencesKnown(x.out)
  BY <1>1, <1>2, <1>3, AppendReferences
<1>8. PendingLegal(x)
  BY <1>1 DEF NonePending, PendingLegal
<1>9. LogKnown(x, log)
  <2>1. FramesIn(w.out) \in Seq(Frame) /\ FramesIn(x.out) = FramesIn(w.out) \o <<>>
    BY <1>1, <1>2, <1>3, FramesAppend DEF FramesOf
  <2>2. FramesIn(w.out) \o <<>> = FramesIn(w.out)
    BY <2>1, ConcatEmptySeq
  <2>3. log = FramesIn(w.out)
    BY <1>1, <1>2 DEF LogKnown, NonePending
  <2> QED BY <1>1, <2>1, <2>2, <2>3 DEF LogKnown, NonePending
<1>10. EndKnown(x, log) /\ (Covers(w, end) => Covers(x, end))
  BY <1>1, <1>2 DEF EndKnown, Covers
<1>11. Lacing = "None" => LastPtsKnown(x)
  <2> SUFFICES ASSUME Lacing = "None", NEW s \in Streams
               PROVE  IF x.last_block_pts_ms[s] = None
                      THEN \A k \in DOMAIN x.out : ~IsBlockOf(x.out, k, s)
                      ELSE \E k \in DOMAIN x.out :
                             /\ LastBlockBefore(x.out, k, Len(x.out) + 1, s)
                             /\ x.out[k].frames[1].ms = x.last_block_pts_ms[s]
    BY DEF LastPtsKnown
  <2> DEFINE n == Len(w.out) + 1
  <2>1. /\ Len(w.out) \in Nat /\ DOMAIN w.out = 1 .. Len(w.out) /\ DOMAIN x.out = 1 .. n
        /\ Len(x.out) = n /\ x.out[n].kind # "Block"
        /\ \A k \in DOMAIN w.out : x.out[k] = w.out[k]
    BY <1>1, <1>2, <1>3
  <2> HIDE DEF n
  <2>2. \A k : IsBlockOf(x.out, k, s) <=> IsBlockOf(w.out, k, s)
    <3> TAKE k
    <3>1. k \in DOMAIN x.out <=> k = n \/ k \in DOMAIN w.out
      BY <2>1 DEF n
    <3>2. n \notin DOMAIN w.out
      BY <2>1 DEF n
    <3> QED BY <2>1, <3>1, <3>2 DEF IsBlockOf
  <2>3. CASE w.last_block_pts_ms[s] = None
    <3>1. \A k \in DOMAIN w.out : ~IsBlockOf(w.out, k, s)
      BY <1>2, <2>3 DEF LastPtsKnown
    <3> QED BY <1>1, <2>2, <2>3, <3>1 DEF IsBlockOf
  <2>4. CASE w.last_block_pts_ms[s] # None
    <3>1. PICK k \in DOMAIN w.out : /\ LastBlockBefore(w.out, k, n, s)
                                   /\ w.out[k].frames[1].ms = w.last_block_pts_ms[s]
      BY <1>2, <2>4 DEF LastPtsKnown, n
    <3>2. \A m \in k + 1 .. (n + 1) - 1 : ~IsBlockOf(x.out, m, s)
      <4> TAKE m \in k + 1 .. (n + 1) - 1
      <4>1. CASE m = n
        BY <2>1, <4>1 DEF IsBlockOf
      <4>2. CASE m # n
        BY <2>1, <2>2, <3>1, <4>2 DEF LastBlockBefore, n
      <4> QED BY <4>1, <4>2
    <3>3. k \in DOMAIN x.out /\ k < n + 1 /\ x.out[k] = w.out[k]
      BY <2>1 DEF n
    <3>4. LastBlockBefore(x.out, k, n + 1, s)
      BY <2>2, <3>1, <3>2, <3>3 DEF LastBlockBefore
    <3> QED BY <1>1, <2>1, <2>4, <3>1, <3>3, <3>4
  <2> QED BY <2>3, <2>4
<1>12. x.header_written
  BY <1>1, <1>2 DEF SameHead, SameFlags
<1> QED BY <1>2, <1>4, <1>5, <1>6, <1>7, <1>8, <1>9, <1>10, <1>11, <1>12
        DEF Known, OutputKnown, FieldsKnown

LEMMA KnownRotated ==
  ASSUME NEW w, NEW x, NEW log, NEW end, Known(w, log), Writing(x),
         Rotated(w, x)
  PROVE  Known(x, log) /\ (Covers(w, end) => Covers(x, end))
<1>1. PICK e \in Element :
        /\ e.kind = "Cluster" /\ e.at = w.pos /\ e.prev_size = PrevSize(w)
        /\ x.out = Append(w.out, e) /\ x.pos = w.pos + e.size
  BY DEF Rotated
<1>2. Extended(w, x, e)
  BY <1>1 DEF Rotated, Extended
<1> DEFINE n == Len(w.out) + 1
<1>3. w \in MuxState /\ w.out \in Seq(Element) /\ w.pos \in Nat
      /\ (~Live => PrevStartKnown(w))
  BY DEF Known, FieldsKnown, Writing, MuxState
<1>4. /\ Len(w.out) \in Nat /\ DOMAIN x.out = 1 .. n /\ Len(x.out) = n
      /\ x.out[n] = e
  BY <1>1, <1>3
<1> HIDE DEF n
<1>5. ~Live => SizedBy(w.out, e)
  <2> SUFFICES ASSUME PrevStartKnown(w) PROVE SizedBy(w.out, e)
    BY <1>3
  <2>1. CASE w.prev_cluster_start = None /\ NoClusterBefore(w.out, Len(w.out) + 1)
    BY <1>1, <2>1 DEF SizedBy, PrevSize
  <2>2. CASE \E h \in DOMAIN w.out :
               Before(w.out, h, Len(w.out) + 1) /\ w.prev_cluster_start = w.out[h].at
    <3>1. PICK h \in DOMAIN w.out :
                 Before(w.out, h, Len(w.out) + 1) /\ w.prev_cluster_start = w.out[h].at
      BY <2>2
    <3>2. w.out[h].at \in Nat
      <4>1. w.out[h] \in Element
        BY <1>3
      <4> QED BY <4>1 DEF Element
    <3>3. w.prev_cluster_start # None
      BY <3>1, <3>2, ConfigAssumption
    <3>4. e.prev_size = IF Hints THEN e.at - w.out[h].at ELSE None
      BY <1>1, <3>1, <3>3 DEF PrevSize
    <3> QED BY <3>1, <3>4 DEF SizedBy
  <2> QED BY <2>1, <2>2 DEF PrevStartKnown
<1>6. SeenKnown(x)
  <2>1. x.cluster_block_count = 0 /\ x.cue_seen_in_cluster = [s \in Streams |-> FALSE]
    BY DEF Rotated
  <2>2. Len(x.out) - x.cluster_block_count = n
    BY <1>4, <2>1 DEF n
  <2>3. \A j \in DOMAIN x.out : \A s : ~IsEntry(x.out, n, j, s)
    BY <1>4 DEF IsEntry, Holds, n
  <2> QED BY <2>1, <2>2, <2>3 DEF SeenKnown
<1>7. PrevStartKnown(x)
  <2>1. x.prev_cluster_start = x.out[n].at /\ x.out[n].kind = "Cluster"
    BY <1>1, <1>4 DEF Rotated
  <2>2. n \in DOMAIN x.out /\ n < n + 1 /\ n + 1 .. (n + 1) - 1 = {}
    BY <1>4 DEF n
  <2>3. Before(x.out, n, n + 1)
    BY <2>1, <2>2 DEF Before
  <2> QED BY <1>4, <2>1, <2>2, <2>3 DEF PrevStartKnown
<1> QED BY <1>1, <1>2, <1>5, <1>6, <1>7, KnownExtended

LEMMA KnownTagged ==
  ASSUME NEW w, NEW x, NEW log, NEW end, Known(w, log), Writing(x),
         Tagged(w, x)
  PROVE  Known(x, log) /\ (Covers(w, end) => Covers(x, end))
<1>1. PICK e \in Element : /\ e.kind = "Tags" /\ e.at = w.pos
                           /\ x.out = Append(w.out, e) /\ x.pos = w.pos + e.size
  BY DEF Tagged
<1>2. Extended(w, x, e)
  BY <1>1 DEF Tagged, Extended
<1>3. SeenKnown(x) /\ Live
  BY DEF Tagged, SeenKnown
<1> QED BY <1>1, <1>2, <1>3, KnownExtended
LEMMA LogEnd ==
  ASSUME NEW w, NEW x, NEW log, NEW frame \in Frame, Known(w, log),
         x.max_end_ms = w.max_end_ms, Covers(w, frame.end_ms)
  PROVE  EndKnown(x, Append(log, frame)) /\ Append(log, frame) \in Seq(Frame)
<1> DEFINE new == Append(log, frame)
<1>1. log \in Seq(Frame) /\ EndKnown(w, log)
  BY DEF Known, FieldsKnown
<1>2. /\ DOMAIN new = 1 .. Len(log) + 1 /\ DOMAIN log = 1 .. Len(log) /\ Len(log) \in Nat
      /\ \A i \in DOMAIN log : new[i] = log[i]
      /\ new[Len(log) + 1] = frame /\ new \in Seq(Frame)
  BY <1>1
<1> HIDE DEF new
<1>3. \A i \in DOMAIN new : x.max_end_ms # None /\ new[i].end_ms <= x.max_end_ms
  <2> TAKE i \in DOMAIN new
  <2>1. CASE i = Len(log) + 1
    BY <1>2, <2>1 DEF Covers
  <2>2. CASE i # Len(log) + 1
    BY <1>1, <1>2, <2>2 DEF EndKnown
  <2> QED BY <2>1, <2>2
<1> QED BY <1>2, <1>3 DEF EndKnown, new

LEMMA LegalJoins ==
  ASSUME NEW lace \in Seq(Frame), NEW frame \in Frame, NEW s, NEW ts \in Nat,
         frame.stream = s, NonNeg(frame.ms) - ts \in 0 .. ClusterMaxMs,
         Len(lace) < MaxFramesPerLace,
         lace # <<>> => /\ LegalLace(lace, s, frame.key, ts)
                        /\ Lacing = "FixedSize" => lace[1].size = frame.size
  PROVE  LegalLace(Append(lace, frame), s, frame.key, ts)
<1> DEFINE new == Append(lace, frame)
<1>1. /\ DOMAIN new = 1 .. Len(lace) + 1 /\ DOMAIN lace = 1 .. Len(lace) /\ Len(lace) \in Nat
      /\ \A i \in DOMAIN lace : new[i] = lace[i]
      /\ new[Len(lace) + 1] = frame /\ Len(new) = Len(lace) + 1
      /\ lace = <<>> <=> Len(lace) = 0
  OBVIOUS
<1> HIDE DEF new
<1>2. Len(new) <= MaxFramesPerLace
  BY <1>1, ConfigAssumption
<1>3. new[1] = IF lace = <<>> THEN frame ELSE lace[1]
  BY <1>1
<1>4. \A k \in DOMAIN new :
        /\ new[k].stream = s /\ new[k].key = frame.key
        /\ Lacing = "FixedSize" => new[k].size = new[1].size
        /\ NonNeg(new[k].ms) - ts \in 0 .. ClusterMaxMs
  <2> TAKE k \in DOMAIN new
  <2>1. CASE k = Len(lace) + 1
    BY <1>1, <1>3, <2>1
  <2>2. CASE k # Len(lace) + 1
    <3>1. k \in DOMAIN lace /\ lace # <<>> /\ new[k] = lace[k]
      BY <1>1, <2>2
    <3> QED BY <1>3, <3>1 DEF LegalLace
  <2> QED BY <2>1, <2>2
<1> QED BY <1>2, <1>4 DEF LegalLace, new

LEMMA KnownJoined ==
  ASSUME NEW w, NEW x, NEW log, NEW frame \in Frame, Known(w, log),
         Covers(w, frame.end_ms), Writing(x), Joined(w, x, frame), frame.stream \in Streams
  PROVE  Known(x, Append(log, frame))
<1> DEFINE s == frame.stream
           lace == w.lace_pending[s]
           new == Append(log, frame)
<1>1. /\ SameOut(x, w) /\ Lacing # "None" /\ w.cluster_open
      /\ x.max_end_ms = w.max_end_ms /\ InBudget(w, frame.ms)
      /\ \A t \in Streams : LacePending(w, t) => t = s
      /\ lace.frames # <<>> =>
           /\ lace.keyframe = frame.key /\ Len(lace.frames) < MaxFramesPerLace
           /\ Lacing = "FixedSize" => lace.frames[1].size = frame.size
      /\ x.lace_pending[s].frames = Append(lace.frames, frame)
      /\ x.lace_pending[s].keyframe = frame.key
      /\ \A t \in Streams \ {s} : x.lace_pending[t] = w.lace_pending[t]
  BY DEF Joined
<1>2. /\ w \in MuxState /\ lace \in Lace /\ lace.frames \in Seq(Frame)
      /\ w.cluster_timecode_ms \in Nat /\ w.out \in Seq(Element) /\ log \in Seq(Frame)
  <2>1. w \in MuxState /\ log \in Seq(Frame)
    BY DEF Known, Writing
  <2>2. lace \in Lace /\ w.cluster_timecode_ms \in Nat /\ w.out \in Seq(Element)
    BY <2>1 DEF MuxState
  <2> QED BY <2>1, <2>2 DEF Lace
<1>3. /\ EndKnown(x, new) /\ new \in Seq(Frame)
  BY <1>1, LogEnd
<1> HIDE DEF s, lace
<1>4. x.header_written /\ OutputKnown(x.out, x.cues)
  BY <1>1 DEF Known, SameOut, SameHead, SameFlags
<1>5. PlaceKnown(x)
  BY <1>1 DEF Known, FieldsKnown, PlaceKnown, SameOut, SameHead, SameFlags
<1>6. SeenKnown(x) /\ (~Live => PrevStartKnown(x))
  BY <1>1 DEF Known, FieldsKnown, SeenKnown, PrevStartKnown, SameOut
<1>7. \A t \in Streams : LacePending(x, t) <=> t = s
  <2>1. Append(lace.frames, frame) # <<>>
    BY <1>2
  <2> QED BY <1>1, <2>1 DEF LacePending, s
<1>8. lace.frames = <<>> => NonePending(w)
  BY <1>1 DEF NonePending, LacePending, lace
<1>9. PendingLegal(x)
  <2>1. lace.frames # <<>> => LegalLace(lace.frames, s, frame.key, w.cluster_timecode_ms)
    BY <1>1 DEF Known, FieldsKnown, PendingLegal, LacePending, lace, s
  <2>2. Len(lace.frames) < MaxFramesPerLace
    BY <1>1, <1>2, ConfigAssumption
  <2>3. LegalLace(Append(lace.frames, frame), s, frame.key, w.cluster_timecode_ms)
    <3>1. s = frame.stream
      BY DEF s
    <3> QED BY <1>1, <1>2, <2>1, <2>2, <3>1, LegalJoins DEF InBudget
  <2>4. x.cluster_timecode_ms = w.cluster_timecode_ms
    BY <1>1 DEF SameOut
  <2> QED BY <1>1, <1>7, <2>3, <2>4 DEF PendingLegal
<1>10. LogKnown(x, new)
  <2>1. FramesIn(w.out) \in Seq(Frame) /\ x.out = w.out
    <3>1. \A e \in Element : FramesIn(w.out) \in Seq(Frame)
      BY <1>2, FramesAppend
    <3>2. [kind |-> "Tags", at |-> 0, size |-> 1] \in Element
      BY DEF Element
    <3> QED BY <1>1, <3>1, <3>2 DEF SameOut
  <2>2. new = FramesIn(w.out) \o Append(lace.frames, frame)
    <3>1. CASE lace.frames = <<>>
      <4>1. log = FramesIn(w.out)
        BY <1>8, <3>1 DEF Known, FieldsKnown, LogKnown, NonePending
      <4> QED BY <2>1, <3>1, <4>1
    <3>2. CASE lace.frames # <<>>
      <4>1. log = FramesIn(w.out) \o lace.frames
        BY <3>2 DEF Known, FieldsKnown, LogKnown, LacePending, lace, s
      <4> DEFINE f == FramesIn(w.out)
                 g == lace.frames
      <4>2. f \in Seq(Frame) /\ g \in Seq(Frame)
        BY <1>2, <2>1
      <4> HIDE DEF f, g
      <4>3. Append(f \o g, frame) = f \o Append(g, frame)
        BY <4>2
      <4> QED BY <4>1, <4>3 DEF f, g
    <3> QED BY <3>1, <3>2
  <2> QED BY <1>1, <1>7, <2>1, <2>2 DEF LogKnown, s
<1> QED BY <1>1, <1>3, <1>4, <1>5, <1>6, <1>9, <1>10 DEF Known, FieldsKnown
LEMMA BlockLastPts ==
  ASSUME NEW w, NEW x, NEW b, NEW ms, Writing(w), BlockWritten(w, x, b), LastPtsKnown(w),
         b.frames[1].ms = ms, ms \in Int,
         x.last_block_pts_ms = [w.last_block_pts_ms EXCEPT ![b.track] = ms]
  PROVE  LastPtsKnown(x)
<1> DEFINE n == Len(w.out) + 1
<1>1. /\ w.out \in Seq(Element) /\ b \in Element /\ x.out = Append(w.out, b)
      /\ Len(w.out) \in Nat /\ b.kind = "Block" /\ b.track \in Streams
  BY BlockFacts
<1>2. /\ DOMAIN w.out = 1 .. Len(w.out) /\ DOMAIN x.out = 1 .. n /\ Len(x.out) = n
      /\ \A k \in DOMAIN w.out : x.out[k] = w.out[k]
      /\ x.out[n] = b
  BY <1>1
<1>3. w.last_block_pts_ms \in [Streams -> Int \cup {None}]
  BY DEF Writing, MuxState
<1>4. n \in Nat /\ \A k \in DOMAIN x.out : k = n \/ k \in DOMAIN w.out
  BY <1>1, <1>2
<1>5. \A k \in DOMAIN w.out : k \in DOMAIN x.out /\ k # n /\ k < n /\ k \in Nat
  BY <1>1, <1>2
<1> HIDE DEF n
<1> SUFFICES ASSUME NEW s \in Streams
             PROVE  IF x.last_block_pts_ms[s] = None
                    THEN \A k \in DOMAIN x.out : ~IsBlockOf(x.out, k, s)
                    ELSE \E k \in DOMAIN x.out :
                           /\ LastBlockBefore(x.out, k, Len(x.out) + 1, s)
                           /\ x.out[k].frames[1].ms = x.last_block_pts_ms[s]
  BY DEF LastPtsKnown
<1>6. CASE s = b.track
  <2>1. x.last_block_pts_ms[s] = ms /\ ms # None
    BY <1>1, <1>3, <1>6, ConfigAssumption
  <2>2. n \in DOMAIN x.out /\ n < n + 1 /\ n + 1 .. (n + 1) - 1 = {}
    BY <1>2, <1>4, <1>1 DEF n
  <2>3. LastBlockBefore(x.out, n, n + 1, s)
    BY <1>1, <1>2, <1>6, <2>2 DEF LastBlockBefore, IsBlockOf
  <2> QED BY <1>2, <2>1, <2>2, <2>3
<1>7. CASE s # b.track
  <2>1. x.last_block_pts_ms[s] = w.last_block_pts_ms[s]
    BY <1>3, <1>7
  <2>2. \A k : IsBlockOf(x.out, k, s) <=> IsBlockOf(w.out, k, s)
    <3> TAKE k
    <3>1. CASE k = n
      <4>1. k \notin DOMAIN w.out
        BY <1>5, <3>1
      <4> QED BY <1>2, <1>7, <3>1, <4>1 DEF IsBlockOf
    <3>2. CASE k # n
      BY <1>2, <1>4, <1>5, <3>2 DEF IsBlockOf
    <3> QED BY <3>1, <3>2
  <2>3. CASE w.last_block_pts_ms[s] = None
    <3>1. \A k \in DOMAIN w.out : ~IsBlockOf(w.out, k, s)
      BY <2>3 DEF LastPtsKnown
    <3>2. \A k : ~IsBlockOf(w.out, k, s)
      BY <3>1 DEF IsBlockOf
    <3> QED BY <2>1, <2>2, <2>3, <3>2
  <2>4. CASE w.last_block_pts_ms[s] # None
    <3>1. PICK k \in DOMAIN w.out : /\ LastBlockBefore(w.out, k, n, s)
                                   /\ w.out[k].frames[1].ms = w.last_block_pts_ms[s]
      BY <2>4 DEF LastPtsKnown, n
    <3>2. \A m \in k + 1 .. (n + 1) - 1 : ~IsBlockOf(x.out, m, s)
      <4> TAKE m \in k + 1 .. (n + 1) - 1
      <4>1. CASE m = n
        BY <1>2, <1>7, <4>1 DEF IsBlockOf
      <4>2. CASE m # n
        <5>1. m \in k + 1 .. n - 1
          BY <1>4, <1>5, <4>2
        <5> QED BY <2>2, <3>1, <5>1 DEF LastBlockBefore
      <4> QED BY <4>1, <4>2
    <3>3. k \in DOMAIN x.out /\ k < n + 1 /\ x.out[k] = w.out[k]
      BY <1>2, <1>4, <1>5
    <3>4. LastBlockBefore(x.out, k, n + 1, s)
      BY <2>2, <3>1, <3>2, <3>3 DEF LastBlockBefore
    <3> QED BY <1>2, <2>1, <2>4, <3>1, <3>3, <3>4
  <2> QED BY <2>3, <2>4
<1> QED BY <1>6, <1>7

LEMMA KnownDirect ==
  ASSUME NEW w, NEW x, NEW log, NEW frame \in Frame, Known(w, log),
         Covers(w, frame.end_ms), Writing(x), Direct(w, x, frame)
  PROVE  Known(x, Append(log, frame))
<1> DEFINE s == frame.stream
           new == Append(log, frame)
<1>1. PICK b \in Element :
        /\ BlockWritten(w, x, b)
        /\ b.track = s /\ b.key = frame.key /\ b.frames = <<frame>>
        /\ b.ref \in Int => \/ w.last_block_pts_ms[s] = None
                            \/ w.last_block_pts_ms[s] = frame.ms + b.ref
  BY DEF Direct
<1>2. /\ NonePending(w) /\ NonePending(x) /\ InBudget(w, frame.ms)
      /\ x.last_block_pts_ms = [w.last_block_pts_ms EXCEPT ![s] = frame.ms]
  BY DEF Direct, NonePending, LacePending
<1>3. /\ w \in MuxState /\ w.cluster_timecode_ms \in Nat /\ log \in Seq(Frame)
      /\ frame.ms \in Int
  <2>1. w \in MuxState /\ log \in Seq(Frame)
    BY DEF Known, Writing
  <2> QED BY <2>1 DEF MuxState, Frame
<1>4. b.frames # <<>> /\ LegalLace(b.frames, b.track, b.key, w.cluster_timecode_ms)
  <2>1. LegalLace(Append(<<>>, frame), s, frame.key, w.cluster_timecode_ms)
    <3>1. <<>> \in Seq(Frame) /\ Len(<<>>) < MaxFramesPerLace
      BY ConfigAssumption
    <3> QED BY <1>2, <1>3, <3>1, LegalJoins DEF InBudget
  <2>2. Append(<<>>, frame) = <<frame>>
    OBVIOUS
  <2> QED BY <1>1, <2>1, <2>2
<1>5. ASSUME Lacing = "None", b.ref \in Int PROVE RefersTo(w.out, b)
  <2>1. LastPtsKnown(w) /\ s \in Streams
    BY <1>5 DEF Known, FieldsKnown, Frame
  <2>2. CASE w.last_block_pts_ms[s] = None
    BY <1>1, <2>1, <2>2 DEF LastPtsKnown, RefersTo
  <2>3. CASE w.last_block_pts_ms[s] # None
    <3>1. PICK k \in DOMAIN w.out : /\ LastBlockBefore(w.out, k, Len(w.out) + 1, s)
                                   /\ w.out[k].frames[1].ms = w.last_block_pts_ms[s]
      BY <2>1, <2>3 DEF LastPtsKnown
    <3>2. w.out[k].frames[1].ms = frame.ms + b.ref /\ b.frames[1] = frame
      BY <1>1, <1>5, <2>3, <3>1
    <3> QED BY <1>1, <3>1, <3>2 DEF RefersTo
  <2> QED BY <2>2, <2>3
<1>6. /\ OutputKnown(x.out, x.cues) /\ PlaceKnown(x) /\ SeenKnown(x)
      /\ ~Live => PrevStartKnown(x)
      /\ x.header_written
      /\ FramesIn(x.out) = FramesIn(w.out) \o b.frames
  BY <1>1, <1>4, <1>5, KnownBlock
<1>7. x.max_end_ms = w.max_end_ms
  BY <1>1 DEF BlockWritten, BlockAdded
<1>8. EndKnown(x, new) /\ new \in Seq(Frame)
  BY <1>7, LogEnd
<1>9. LogKnown(x, new)
  <2>1. log = FramesIn(w.out)
    BY <1>2 DEF Known, FieldsKnown, LogKnown, NonePending
  <2>2. new = log \o <<frame>>
    BY <1>3
  <2> QED BY <1>1, <1>2, <1>6, <2>1, <2>2 DEF LogKnown, NonePending
<1>10. PendingLegal(x)
  BY <1>2 DEF PendingLegal, NonePending
<1>11. Lacing = "None" => LastPtsKnown(x)
  <2> SUFFICES ASSUME Lacing = "None" PROVE LastPtsKnown(x)
    OBVIOUS
  <2>1. Writing(w) /\ LastPtsKnown(w)
    BY DEF Known, FieldsKnown
  <2>2. b.frames[1].ms = frame.ms
    BY <1>1
  <2>3. x.last_block_pts_ms = [w.last_block_pts_ms EXCEPT ![b.track] = frame.ms]
    BY <1>1, <1>2
  <2> QED BY <1>1, <1>3, <2>1, <2>2, <2>3, BlockLastPts
<1> QED BY <1>6, <1>8, <1>9, <1>10, <1>11 DEF Known, FieldsKnown
-----------------------------------------------------------------------------
(* The calls.                                                              *)
LEMMA KnownPacket ==
  ASSUME NEW w, NEW x, NEW log, NEW new, Known(w, log), Writing(x), PacketChain(w, x, log, new)
  PROVE  Known(x, new)
<1>1. PICK a, v, u, c, end :
        /\ Writing(a) /\ Writing(v) /\ Writing(u) /\ Writing(c)
        /\ Advanced(w, a, end) /\ MaybeFlushed(a, v) /\ MaybeFlushed(v, u)
        /\ c = u \/ Rotated(u, c)
        /\ \/ x = c /\ new = log
           \/ \E y, frame : /\ Writing(y) /\ MaybeFlushed(c, y) /\ Wrote(y, x, frame)
                            /\ frame \in Frame /\ frame.end_ms = end /\ new = Append(log, frame)
  BY DEF PacketChain
<1>2. Known(a, log) /\ Covers(a, end)
  BY <1>1, KnownAdvanced
<1>3. Known(v, log) /\ Covers(v, end)
  BY <1>1, <1>2, KnownFlushed
<1>4. Known(u, log) /\ Covers(u, end)
  BY <1>1, <1>3, KnownFlushed
<1>5. Known(c, log) /\ Covers(c, end)
  BY <1>1, <1>4, KnownRotated
<1>6. CASE x = c /\ new = log
  BY <1>5, <1>6
<1>7. ASSUME NEW y, NEW frame \in Frame, Writing(y), MaybeFlushed(c, y), Wrote(y, x, frame),
             frame.end_ms = end, new = Append(log, frame)
      PROVE  Known(x, new)
  <2>1. Known(y, log) /\ Covers(y, frame.end_ms)
    BY <1>5, <1>7, KnownFlushed
  <2>2. frame.stream \in Streams
    BY DEF Frame
  <2>3. CASE Direct(y, x, frame)
    BY <1>7, <2>1, <2>3, KnownDirect
  <2>4. CASE Joined(y, x, frame)
    BY <1>7, <2>1, <2>2, <2>4, KnownJoined
  <2> QED BY <1>7, <2>3, <2>4 DEF Wrote
<1> QED BY <1>1, <1>6, <1>7
LEMMA WriteHeaderMux ==
  ASSUME Orderly, MuxInv, WriteHeader, IInv'
  PROVE  MuxInv'
<1>1. /\ mux \in MuxState /\ mux' \in MuxState /\ ~mux.trailer_written
      /\ ~mux.header_written /\ accepted' = accepted /\ ~mux.cluster_open
  BY DEF MuxInv, IInv, TypeOK, WriteHeader, Orderly
<1>2. /\ mux'.header_written /\ ~mux'.trailer_written /\ ~mux'.cluster_open
      /\ mux'.pos = SegmentStart + HeadSize + FrontReserved
      /\ mux'.seek_cues = (IF Live THEN None ELSE 0)
      /\ mux'.front_slot = (IF FrontReserved = 0 THEN None ELSE SegmentStart + HeadSize)
      /\ mux'.duration = (IF Finalize THEN Void ELSE None)
      /\ mux'.out = mux.out /\ mux'.cues = mux.cues /\ mux'.lace_pending = mux.lace_pending
      /\ mux'.prev_cluster_start = mux.prev_cluster_start
      /\ mux'.cluster_timecode_ms = mux.cluster_timecode_ms
      /\ mux'.last_block_pts_ms = mux.last_block_pts_ms /\ mux'.max_end_ms = mux.max_end_ms
  BY <1>1 DEF WriteHeader, MuxState
<1>3. OutputKnown(mux.out, mux.cues) /\ FieldsKnown(mux, accepted)
  BY <1>1 DEF MuxInv
<1>4. mux'.out = <<>>
  BY <1>1, <1>2, <1>3 DEF FieldsKnown, PlaceKnown
<1>5. PlaceKnown(mux')
  <2>1. SegmentStart + HeadSize + FrontReserved \in Nat
    BY ConfigAssumption
  <2> QED BY <1>2, <1>4, <2>1 DEF PlaceKnown
<1>6. PendingLegal(mux') /\ SeenKnown(mux')
  BY <1>2, <1>3 DEF FieldsKnown, PendingLegal, SeenKnown, LacePending
<1>7. EndKnown(mux', accepted') /\ LogKnown(mux', accepted')
  BY <1>1, <1>2, <1>3 DEF FieldsKnown, EndKnown, LogKnown, LacePending
<1>8. /\ ~Live => PrevStartKnown(mux')
      /\ Lacing = "None" => LastPtsKnown(mux')
  BY <1>2, <1>3 DEF FieldsKnown, PrevStartKnown, LastPtsKnown
<1> QED BY <1>2, <1>3, <1>5, <1>6, <1>7, <1>8 DEF MuxInv, FieldsKnown

LEMMA SilentMux ==
  ASSUME Orderly, MuxInv, NEW S \in SilentLists, SetNextClusterSilentTracks(S), IInv'
  PROVE  MuxInv'
<1>1. /\ mux \in MuxState /\ ~mux.trailer_written /\ accepted' = accepted
      /\ mux' = [mux EXCEPT !.pending_silent_tracks = S]
  BY DEF MuxInv, IInv, TypeOK, SetNextClusterSilentTracks, Orderly
<1>2. /\ SameHead(mux', mux) /\ mux'.out = mux.out /\ mux'.pos = mux.pos
      /\ mux'.cues = mux.cues /\ mux'.lace_pending = mux.lace_pending
      /\ mux'.cue_seen_in_cluster = mux.cue_seen_in_cluster
      /\ mux'.prev_cluster_start = mux.prev_cluster_start
      /\ mux'.cluster_open = mux.cluster_open
      /\ mux'.cluster_block_count = mux.cluster_block_count
      /\ mux'.cluster_timecode_ms = mux.cluster_timecode_ms
      /\ mux'.last_block_pts_ms = mux.last_block_pts_ms /\ mux'.max_end_ms = mux.max_end_ms
  BY <1>1 DEF MuxState, SameHead, SameFlags
<1>3. OutputKnown(mux.out, mux.cues) /\ FieldsKnown(mux, accepted)
  BY <1>1 DEF MuxInv
<1>4. PlaceKnown(mux')
  BY <1>2, <1>3 DEF FieldsKnown, PlaceKnown, SameHead, SameFlags
<1>5. PendingLegal(mux') /\ SeenKnown(mux')
  BY <1>2, <1>3 DEF FieldsKnown, PendingLegal, SeenKnown, LacePending
<1>6. EndKnown(mux', accepted') /\ LogKnown(mux', accepted')
  BY <1>1, <1>2, <1>3 DEF FieldsKnown, EndKnown, LogKnown, LacePending
<1>7. /\ ~Live => PrevStartKnown(mux')
      /\ Lacing = "None" => LastPtsKnown(mux')
  BY <1>2, <1>3 DEF FieldsKnown, PrevStartKnown, LastPtsKnown
<1> QED BY <1>1, <1>2, <1>3, <1>4, <1>5, <1>6, <1>7 DEF MuxInv, FieldsKnown, SameHead, SameFlags

LEMMA KnownMux ==
  ASSUME MuxInv, ~mux.trailer_written, mux.header_written
  PROVE  Known(mux, accepted)
BY DEF MuxInv, IInv, TypeOK, Known

LEMMA WritePacketMux ==
  ASSUME Orderly, MuxInv, NEW p \in Packets, WritePacket(p), IInv'
  PROVE  MuxInv'
<1>1. /\ Writing(mux') /\ ~mux.trailer_written /\ mux.header_written
      /\ PacketChain(mux, mux', accepted, accepted')
  BY WritePacketSteps DEF Orderly, MuxInv
<1>2. Known(mux', accepted')
  BY <1>1, KnownMux, KnownPacket
<1>3. ~mux'.trailer_written
  BY WritePacketKeeps DEF Orderly, MuxInv
<1> QED BY <1>2, <1>3 DEF Known, MuxInv

LEMMA LiveTagsSteps ==
  ASSUME Orderly, IInv, WriteLiveTags, IInv'
  PROVE  /\ ~mux.trailer_written /\ mux.header_written /\ accepted' = accepted
         /\ Writing(mux) /\ Writing(mux')
         /\ \E w : Writing(w) /\ MaybeFlushed(mux, w) /\ Tagged(w, mux')
<1> DEFINE w == FlushLaces(mux, Streams)
           c == [w EXCEPT !.cluster_open = FALSE]
           e == [kind |-> "Tags", at |-> w.pos, size |-> 1]
<1>1. /\ mux \in MuxState /\ Writing(mux) /\ ~mux.trailer_written /\ mux.header_written
      /\ Live /\ accepted' = accepted
  BY DEF IInv, TypeOK, WriteLiveTags, Orderly
<1>2. /\ Writing(w) /\ w \in MuxState /\ SameCluster(w, mux)
      /\ \A s \in Streams : ~LacePending(w, s)
      /\ MaybeFlushed(mux, w)
  BY <1>1, FlushLacesKeeps, FlushLacesSame, WritingOneLace, FlushLacesStep
<1>3. mux' = Emit(c, e)
  BY DEF WriteLiveTags
<1> HIDE DEF w
<1>4. e \in Element /\ e.kind = "Tags" /\ e.at = w.pos
  BY <1>2 DEF MuxState, Element
<1> HIDE DEF e
<1>5. /\ mux'.out = Append(w.out, e) /\ mux'.pos = w.pos + e.size
      /\ mux'.cues = w.cues /\ ~mux'.cluster_open
      /\ mux'.lace_pending = w.lace_pending
      /\ mux'.pending_silent_tracks = w.pending_silent_tracks
      /\ mux'.last_block_pts_ms = w.last_block_pts_ms /\ mux'.max_end_ms = w.max_end_ms
      /\ SameHead(mux', w)
  BY <1>2, <1>3 DEF Emit, MuxState, SameHead, SameFlags
<1>6. Tagged(w, mux')
  BY <1>1, <1>2, <1>4, <1>5 DEF Tagged, NonePending
<1>7. Writing(mux')
  <2>1. ~mux'.trailer_written
    BY <1>1, <1>2, <1>5 DEF SameHead, SameFlags, SameCluster
  <2> QED BY <2>1 DEF IInv
<1> QED BY <1>1, <1>2, <1>6, <1>7

LEMMA LiveTagsMux ==
  ASSUME Orderly, MuxInv, WriteLiveTags, IInv'
  PROVE  MuxInv'
<1>1. PICK w : Writing(w) /\ MaybeFlushed(mux, w) /\ Tagged(w, mux')
  BY LiveTagsSteps DEF MuxInv
<1>2. /\ ~mux.trailer_written /\ mux.header_written /\ accepted' = accepted /\ Writing(mux')
  BY LiveTagsSteps DEF MuxInv
<1>3. Known(w, accepted)
  BY <1>1, <1>2, KnownMux, KnownFlushed
<1>4. Known(mux', accepted')
  BY <1>1, <1>2, <1>3, KnownTagged
<1>5. ~mux'.trailer_written
  BY <1>1, <1>2 DEF MaybeFlushed, Flushed, BlockWritten, BlockAdded, Tagged, SameHead, SameFlags
<1> QED BY <1>4, <1>5 DEF Known, MuxInv
-----------------------------------------------------------------------------
(* write_trailer.                                                          *)
LEMMA AppendAscends ==
  ASSUME NEW out \in Seq(Element), NEW e \in Element, AtsAscend(out),
         \A j \in DOMAIN out : out[j].at < e.at
  PROVE  AtsAscend(Append(out, e))
<1> DEFINE x == Append(out, e)
<1>1. /\ Len(out) \in Nat /\ DOMAIN out = 1 .. Len(out) /\ DOMAIN x = 1 .. Len(out) + 1
      /\ \A k \in DOMAIN out : x[k] = out[k]
      /\ x[Len(out) + 1] = e
  OBVIOUS
<1> HIDE DEF x
<1>2. ASSUME NEW i \in DOMAIN x, NEW j \in DOMAIN x, i < j
      PROVE  x[i].at < x[j].at
  <2>1. CASE j = Len(out) + 1
    BY <1>1, <1>2, <2>1
  <2>2. CASE j # Len(out) + 1
    BY <1>1, <1>2, <2>2 DEF AtsAscend
  <2> QED BY <2>1, <2>2
<1> QED BY <1>2 DEF AtsAscend, x

\* The Cluster entries of the properties are those of the invariant.
LEMMA EntriesAre ==
  ASSUME mux.out \in Seq(Element), NEW i \in Clusters, NEW s \in Streams
  PROVE  /\ \A j : j \in EntryBlocks(i, s) <=> IsEntry(mux.out, i, j, s)
         /\ EntryBlocks(i, s) # {} =>
              /\ FirstEntry(mux.out, i, Min(EntryBlocks(i, s)), s)
              /\ Min(EntryBlocks(i, s)) \in DOMAIN mux.out
<1> DEFINE S == EntryBlocks(i, s)
<1>1. \A j : j \in S <=> IsEntry(mux.out, i, j, s)
  <2> TAKE j
  <2>1. ASSUME Holds(mux.out, i, j) PROVE j \in Blocks
    <3>1. /\ i \in DOMAIN mux.out /\ j \in DOMAIN mux.out /\ i < j
          /\ \A k \in i + 1 .. j : mux.out[k].kind = "Block"
      BY <2>1 DEF Holds
    <3>2. j \in i + 1 .. j
      BY <3>1
    <3> QED BY <3>1, <3>2 DEF Blocks
  <2> QED BY <2>1 DEF EntryBlocks, BlocksOf, IsEntry
<1>2. S \subseteq Nat /\ S \subseteq DOMAIN mux.out
  BY <1>1 DEF IsEntry, Holds
<1> HIDE DEF S
<1>3. ASSUME S # {} PROVE FirstEntry(mux.out, i, Min(S), s) /\ Min(S) \in DOMAIN mux.out
  <2>1. PICK m \in S : \A k \in S : m <= k
    BY <1>2, <1>3, LeastNat
  <2>2. Min(S) = m
    <3>1. S \in SUBSET Int
      BY <1>2
    <3> QED BY <2>1, <3>1, MinIs
  <2> QED BY <1>1, <1>2, <2>1, <2>2 DEF FirstEntry
<1> QED BY <1>1, <1>3 DEF S

LEMMA TrailerSteps ==
  ASSUME Orderly, IInv, WriteTrailer
  PROVE  /\ ~mux.trailer_written /\ mux.header_written /\ accepted' = accepted
         /\ \E w : /\ Writing(w) /\ MaybeFlushed(mux, w) /\ NonePending(w) /\ Writing(mux)
                   /\ mux' = [PlaceCues(w) EXCEPT
                                !.seek_cues = CuesEntry(w),
                                !.duration = IF @ # None /\ w.max_end_ms # None
                                             THEN NonNeg(w.max_end_ms) ELSE @,
                                !.trailer_written = TRUE]
<1> DEFINE w == FlushLaces(mux, Streams)
<1>1. /\ ~mux.trailer_written /\ mux.header_written /\ accepted' = accepted
      /\ Writing(mux) /\ mux \in MuxState
  BY DEF WriteTrailer, IInv, TypeOK, Orderly
<1>2. /\ Writing(w) /\ MaybeFlushed(mux, w) /\ \A s \in Streams : ~LacePending(w, s)
  BY <1>1, FlushLacesStep, FlushLacesSame, WritingOneLace
<1>3. mux' = [PlaceCues(w) EXCEPT
                !.seek_cues = CuesEntry(w),
                !.duration = IF @ # None /\ w.max_end_ms # None
                             THEN NonNeg(w.max_end_ms) ELSE @,
                !.trailer_written = TRUE]
  BY DEF WriteTrailer
<1> HIDE DEF w
<1> QED BY <1>1, <1>2, <1>3 DEF NonePending

\* The Cues element is the last of the output, or the reserved slot holds the
\* index; either way the SeekHead's entry names it.
CuesElement(w) ==
  [kind |-> "Cues", at |-> w.pos, size |-> CuesSize(w.cues), index |-> CuePoints(w.cues)]

Closed(w, x) ==
  /\ x.cues = w.cues
  /\ IF Live \/ w.cues = <<>>
     THEN x.out = w.out /\ x.seek_cues = IF Live THEN None ELSE Void
     ELSE \/ /\ x.out = w.out /\ x.front_cues = CuePoints(w.cues)
             /\ x.seek_cues + SegmentStart = x.front_slot
          \/ /\ x.out = Append(w.out, CuesElement(w)) /\ CuesElement(w) \in Element
             /\ x.seek_cues + SegmentStart = w.pos /\ w.pos # x.front_slot

LEMMA TrailerCloses ==
  ASSUME NEW w, Writing(w), w.header_written, PlaceKnown(w), NEW x,
         x = [PlaceCues(w) EXCEPT
                !.seek_cues = CuesEntry(w),
                !.duration = IF @ # None /\ w.max_end_ms # None
                             THEN NonNeg(w.max_end_ms) ELSE @,
                !.trailer_written = TRUE]
  PROVE  /\ Closed(w, x)
         /\ x.duration = IF Finalize /\ w.max_end_ms # None THEN NonNeg(w.max_end_ms) ELSE w.duration
<1> DEFINE y == PlaceCues(w)
           e == CuesElement(w)
<1>1. /\ w \in MuxState /\ w.pos \in Nat /\ w.cues \in Seq(CueRecord)
      /\ y \in MuxState /\ CuesEntry(w) \in Int \cup {None, Void}
  <2>1. w \in MuxState
    BY DEF Writing
  <2> QED BY <2>1, PlaceCuesType DEF MuxState
<1>2. e \in Element
  <2>1. CuePoints(w.cues) \in SUBSET CuePoint /\ CuesSize(w.cues) \in Nat \ {0}
    BY <1>1, CuePointsType
  <2> QED BY <1>1, <2>1 DEF Element, CuesElement
<1>3. /\ w.pos >= SegmentStart + HeadSize + FrontReserved
      /\ w.front_slot = (IF FrontReserved = 0 THEN None ELSE SegmentStart + HeadSize)
      /\ w.seek_cues = (IF Live THEN None ELSE 0)
      /\ w.duration = (IF Finalize THEN Void ELSE None)
  BY DEF PlaceKnown
<1>4. y = IF Live \/ w.cues = <<>> THEN w
          ELSE IF FitsFront(w) THEN [w EXCEPT !.front_cues = CuePoints(w.cues)]
          ELSE Emit(w, e)
  BY DEF PlaceCues, CuesElement
<1> HIDE DEF e, y
<1>5. /\ y.cues = w.cues /\ y.front_slot = w.front_slot /\ y.duration = w.duration
      /\ Live \/ w.cues = <<>> => y.out = w.out
      /\ ~(Live \/ w.cues = <<>>) /\ FitsFront(w) =>
           y.out = w.out /\ y.front_cues = CuePoints(w.cues)
      /\ ~(Live \/ w.cues = <<>>) /\ ~FitsFront(w) => y.out = Append(w.out, e)
  BY <1>1, <1>4 DEF Emit, MuxState
<1>6. /\ x.cues = y.cues /\ x.out = y.out /\ x.front_cues = y.front_cues
      /\ x.front_slot = y.front_slot /\ x.seek_cues = CuesEntry(w)
      /\ x.duration = IF y.duration # None /\ w.max_end_ms # None
                      THEN NonNeg(w.max_end_ms) ELSE y.duration
  BY <1>1 DEF MuxState, y
<1>7. Void # None /\ 0 # None
  BY ConfigAssumption
<1>8. CASE Live \/ w.cues = <<>>
  <2>1. CuesEntry(w) = IF Live THEN None ELSE Void
    BY <1>3, <1>7, <1>8 DEF CuesEntry
  <2> QED BY <1>3, <1>5, <1>6, <1>7, <1>8, <2>1 DEF Closed
<1>9. CASE ~(Live \/ w.cues = <<>>) /\ FitsFront(w)
  <2>1. CuesEntry(w) = w.front_slot - SegmentStart
    BY <1>3, <1>7, <1>9 DEF CuesEntry
  <2>2. CuesEntry(w) + SegmentStart = w.front_slot
    <3>1. w.front_slot = SegmentStart + HeadSize
      BY <1>3, <1>9 DEF FitsFront
    <3> QED BY <2>1, <3>1, ConfigAssumption
  <2> QED BY <1>3, <1>5, <1>6, <1>7, <1>9, <2>2 DEF Closed
<1>10. CASE ~(Live \/ w.cues = <<>>) /\ ~FitsFront(w)
  <2>1. CuesEntry(w) = w.pos - SegmentStart
    BY <1>3, <1>7, <1>10 DEF CuesEntry
  <2>2. CuesEntry(w) + SegmentStart = w.pos
    BY <1>1, <2>1, ConfigAssumption
  <2>3. w.pos # w.front_slot
    <3>1. CASE FrontReserved = 0
      BY <1>1, <1>3, <3>1, ConfigAssumption
    <3>2. CASE FrontReserved # 0
      BY <1>1, <1>3, <3>2, ConfigAssumption
    <3> QED BY <3>1, <3>2
  <2> QED BY <1>2, <1>3, <1>5, <1>6, <1>7, <1>10, <2>2, <2>3 DEF Closed, e
<1> QED BY <1>8, <1>9, <1>10
LEMMA ClosedOutput ==
  ASSUME NEW w, NEW x, NEW log, Known(w, log), NonePending(w), Closed(w, x)
  PROVE  /\ OutputKnown(x.out, x.cues) /\ log = FramesIn(x.out)
         /\ \A j \in DOMAIN x.out : x.out[j].kind = "Cues" => x.out = Append(w.out, CuesElement(w))
<1>1. /\ w.out \in Seq(Element) /\ OutputKnown(w.out, w.cues) /\ log = FramesIn(w.out)
      /\ \A j \in DOMAIN w.out : w.out[j].at < w.pos /\ w.out[j].kind # "Cues"
      /\ x.cues = w.cues
  BY DEF Known, FieldsKnown, Writing, MuxState, LogKnown, NonePending, PlaceKnown, Closed
<1>2. CASE x.out = w.out
  BY <1>1, <1>2
<1>3. CASE x.out = Append(w.out, CuesElement(w)) /\ CuesElement(w) \in Element
  <2> DEFINE e == CuesElement(w)
  <2>1. e \in Element /\ e.kind = "Cues" /\ e.at = w.pos
    BY <1>3 DEF CuesElement
  <2> HIDE DEF e
  <2>2. AtsAscend(x.out)
    BY <1>1, <1>3, <2>1, AppendAscends DEF OutputKnown, e
  <2>3. BlocksLegal(x.out) /\ EntriesIndexed(x.out, x.cues) /\ CuesUnique(x.cues)
    BY <1>1, <1>3, <2>1, AppendLegal, AppendIndexed DEF OutputKnown, e
  <2>4. ~Live => PrevSizesKnown(x.out)
    BY <1>1, <1>3, <2>1, AppendPrevSizes DEF OutputKnown, e
  <2>5. Lacing = "None" => ReferencesKnown(x.out)
    BY <1>1, <1>3, <2>1, AppendReferences DEF OutputKnown, e
  <2>6. FramesIn(x.out) = FramesIn(w.out)
    <3>1. FramesIn(w.out) \in Seq(Frame) /\ FramesIn(x.out) = FramesIn(w.out) \o <<>>
      BY <1>1, <1>3, <2>1, FramesAppend DEF FramesOf, e
    <3>2. FramesIn(w.out) \o <<>> = FramesIn(w.out)
      BY <3>1, ConcatEmptySeq
    <3> QED BY <3>1, <3>2
  <2> QED BY <1>1, <1>3, <2>2, <2>3, <2>4, <2>5, <2>6 DEF OutputKnown
<1> QED BY <1>2, <1>3 DEF Closed

SeekableIfClosed ==
  \A w, log :
    /\ mux.out \in Seq(Element) /\ mux.cues \in Seq(CueRecord) /\ Pending = {}
    /\ Known(w, log) /\ NonePending(w) /\ Closed(w, mux)
    => SeekableAfterTrailer

LEMMA ClosedIsSeekable == SeekableIfClosed
<1> SUFFICES ASSUME mux.out \in Seq(Element), mux.cues \in Seq(CueRecord), Pending = {},
                    NEW w, NEW log, Known(w, log), NonePending(w), Closed(w, mux)
             PROVE  SeekableAfterTrailer
  BY DEF SeekableIfClosed
<1>1. /\ OutputKnown(mux.out, mux.cues)
      /\ \A j \in DOMAIN mux.out : mux.out[j].kind = "Cues" => mux.out = Append(w.out, CuesElement(w))
  BY ClosedOutput
<1>2. /\ mux.cues = w.cues /\ w.out \in Seq(Element)
      /\ \A j \in DOMAIN w.out : w.out[j].kind # "Cues"
  BY DEF Closed, Known, Writing, MuxState, FieldsKnown, PlaceKnown
<1>3. CASE Live \/ mux.cues = <<>>
  <2>1. mux.out = w.out /\ mux.seek_cues = IF Live THEN None ELSE Void
    BY <1>2, <1>3 DEF Closed
  <2> QED BY <1>2, <1>3, <2>1 DEF SeekableAfterTrailer
<1>4. CASE ~(Live \/ mux.cues = <<>>)
  <2>1. CuePoints(mux.cues) \subseteq FoundIndex
    <3>1. CASE /\ mux.front_cues = CuePoints(w.cues)
               /\ mux.seek_cues + SegmentStart = mux.front_slot
      BY <1>2, <3>1 DEF FoundIndex
    <3>2. CASE /\ mux.out = Append(w.out, CuesElement(w))
               /\ mux.seek_cues + SegmentStart = w.pos /\ w.pos # mux.front_slot
      <4> DEFINE n == Len(w.out) + 1
                 K == {k \in DOMAIN mux.out :
                         mux.out[k].kind = "Cues" /\ mux.out[k].at = mux.seek_cues + SegmentStart}
      <4>1. n \in DOMAIN mux.out /\ mux.out[n] = CuesElement(w)
        BY <1>2, <3>2
      <4>2. n \in K /\ mux.out[n].index = CuePoints(w.cues)
        BY <3>2, <4>1 DEF CuesElement
      <4>3. FoundIndex = UNION {mux.out[j].index : j \in K}
        BY <3>2 DEF FoundIndex
      <4> HIDE DEF n, K
      <4> QED BY <1>2, <4>2, <4>3
    <3> QED BY <1>2, <1>4, <3>1, <3>2 DEF Closed
  <2>2. ASSUME NEW i \in Clusters, NEW s \in Streams, EntryBlocks(i, s) # {}
        PROVE  \E p \in FoundIndex : \E c \in p.entries :
                 c.time_ms = p.time /\ Points(mux.out, c, i, Min(EntryBlocks(i, s)))
    <3> DEFINE m == Min(EntryBlocks(i, s))
    <3>1. FirstEntry(mux.out, i, m, s) /\ m \in DOMAIN mux.out /\ i \in DOMAIN mux.out
      BY <2>2, EntriesAre DEF Clusters
    <3> HIDE DEF m
    <3>2. PICK k \in DOMAIN mux.cues : Points(mux.out, mux.cues[k], i, m)
      BY <1>1, <3>1 DEF OutputKnown, EntriesIndexed
    <3> DEFINE c == mux.cues[k]
               records == {mux.cues[q] : q \in DOMAIN mux.cues}
               p == [time |-> c.time_ms, entries |-> {d \in records : d.time_ms = c.time_ms}]
    <3>3. c \in records /\ p \in CuePoints(mux.cues) /\ c \in p.entries /\ c.time_ms = p.time
      BY DEF CuePoints
    <3> QED BY <2>1, <3>2, <3>3 DEF m
  <2> QED BY <1>4, <2>2 DEF SeekableAfterTrailer
<1> QED BY <1>3, <1>4

LEMMA ClosedIsSeekableNext == SeekableIfClosed'
BY ClosedIsSeekable, PTL

LEMMA WriteTrailerMux ==
  ASSUME Orderly, MuxInv, WriteTrailer, IInv'
  PROVE  MuxInv'
<1>1. /\ ~mux.trailer_written /\ mux.header_written /\ accepted' = accepted
  BY TrailerSteps DEF MuxInv
<1>2. PICK w : /\ Writing(w) /\ MaybeFlushed(mux, w) /\ NonePending(w) /\ Writing(mux)
               /\ mux' = [PlaceCues(w) EXCEPT
                            !.seek_cues = CuesEntry(w),
                            !.duration = IF @ # None /\ w.max_end_ms # None
                                         THEN NonNeg(w.max_end_ms) ELSE @,
                            !.trailer_written = TRUE]
  BY TrailerSteps DEF MuxInv
<1>3. Known(w, accepted)
  BY <1>1, <1>2, KnownMux, KnownFlushed
<1>4. /\ Closed(w, mux')
      /\ mux'.duration = IF Finalize /\ w.max_end_ms # None THEN NonNeg(w.max_end_ms) ELSE w.duration
  BY <1>2, <1>3, TrailerCloses DEF Known, FieldsKnown
<1>5. /\ mux'.header_written /\ mux'.trailer_written /\ Pending' = {} /\ mux' \in MuxState
  BY WriteTrailerKeeps DEF Orderly, MuxInv, IInv, TypeOK
<1>6. OutputKnown(mux'.out, mux'.cues) /\ accepted' = FramesIn(mux'.out)
  BY <1>1, <1>2, <1>3, <1>4, ClosedOutput
<1>7. SeekableAfterTrailer'
  <2>1. mux'.out \in Seq(Element) /\ mux'.cues \in Seq(CueRecord)
    BY <1>5 DEF MuxState
  <2> QED BY <1>2, <1>3, <1>4, <1>5, <2>1, ClosedIsSeekableNext DEF SeekableIfClosed
<1>8. DurationCoversEveryPacket'
  <2> SUFFICES ASSUME Finalize, NEW i \in DOMAIN accepted'
               PROVE  mux'.duration # Void /\ mux'.duration >= accepted'[i].end_ms
    BY DEF DurationCoversEveryPacket
  <2>1. w.max_end_ms # None /\ accepted[i].end_ms <= w.max_end_ms
    BY <1>1, <1>3 DEF Known, FieldsKnown, EndKnown
  <2>2. w.max_end_ms \in Int
    BY <1>2, <2>1 DEF Writing, MuxState
  <2>3. accepted[i].end_ms \in Int
    <3>1. accepted[i] \in Frame
      BY <1>1, <1>3 DEF Known
    <3> QED BY <3>1 DEF Frame
  <2>4. mux'.duration = NonNeg(w.max_end_ms) /\ NonNeg(w.max_end_ms) \in Nat
        /\ NonNeg(w.max_end_ms) >= w.max_end_ms
    BY <1>4, <2>1, <2>2 DEF NonNeg
  <2> QED BY <1>1, <2>1, <2>2, <2>3, <2>4, ConfigAssumption
<1> QED BY <1>5, <1>6, <1>7, <1>8 DEF MuxInv
-----------------------------------------------------------------------------
(* What the muxer's fields and its output say about each other, for every  *)
(* configuration and every orderly caller: the cues index exactly the      *)
(* first entry Blocks, PrevSize, references and laces are right, and the   *)
(* Blocks hold the accepted frames but those of the pending lace.          *)
THEOREM MuxInvariant ==
  ASSUME Orderly
  PROVE  Spec => []MuxInv
<1>1. Init => MuxInv
  <2> SUFFICES ASSUME Init PROVE MuxInv
    OBVIOUS
  <2>1. /\ mux.out = <<>> /\ mux.cues = <<>> /\ ~mux.cluster_open /\ ~mux.trailer_written
        /\ ~mux.header_written /\ mux.pending_silent_tracks = {}
        /\ mux.lace_pending = [s \in Streams |-> EmptyLace] /\ mux.prev_cluster_start = None
        /\ mux.last_block_pts_ms = [s \in Streams |-> None] /\ accepted = <<>>
    BY DEF Init, NewMux
  <2>2. TypeOK
    BY TypeInit
  <2>3. IInv
    BY <2>1, <2>2 DEF IInv, BlocksKnown, CuesKnown, Writing, TypeOK, OpenClusterKnown, LaceKnown,
                      LacePending, EmptyLace, StrictIsSilent
  <2>4. OutputKnown(mux.out, mux.cues)
    BY <2>1 DEF OutputKnown, AtsAscend, BlocksLegal, EntriesIndexed, CuesUnique, PrevSizesKnown,
                ReferencesKnown
  <2>5. \A s \in Streams : ~LacePending(mux, s)
    BY <2>1 DEF LacePending, EmptyLace
  <2>6. accepted = FramesIn(mux.out)
    BY <2>1 DEF FramesIn, FlattenSeq
  <2>7. FieldsKnown(mux, accepted)
    BY <2>1, <2>5, <2>6 DEF FieldsKnown, PlaceKnown, PendingLegal, SeenKnown, EndKnown, LogKnown,
                       PrevStartKnown, NoClusterBefore, LastPtsKnown
  <2> QED BY <2>1, <2>3, <2>4, <2>7 DEF MuxInv
<1>2. MuxInv /\ IInv' /\ [Next]_vars => MuxInv'
  <2> SUFFICES ASSUME MuxInv, IInv', [Next]_vars PROVE MuxInv'
    OBVIOUS
  <2>1. CASE WriteHeader
    BY <2>1, WriteHeaderMux
  <2>2. ASSUME NEW p \in Packets, WritePacket(p) PROVE MuxInv'
    BY <2>2, WritePacketMux
  <2>3. ASSUME NEW S \in SilentLists, SetNextClusterSilentTracks(S) PROVE MuxInv'
    BY <2>3, SilentMux
  <2>4. CASE WriteLiveTags
    BY <2>4, LiveTagsMux
  <2>5. CASE WriteTrailer
    BY <2>5, WriteTrailerMux
  <2>6. CASE UNCHANGED vars
    <3>1. mux' = mux /\ accepted' = accepted
      BY <2>6 DEF vars
    <3>2. (SeekableAfterTrailer <=> SeekableAfterTrailer')
          /\ (DurationCoversEveryPacket <=> DurationCoversEveryPacket')
      BY <3>1 DEF SeekableAfterTrailer, DurationCoversEveryPacket, Pending, Clusters,
                  EntryBlocks, BlocksOf, Blocks, FoundIndex
    <3> QED BY <3>1, <3>2 DEF MuxInv
  <2> QED BY <2>1, <2>2, <2>3, <2>4, <2>5, <2>6 DEF Next
<1> QED BY <1>1, <1>2, InductiveInvariant, PTL DEF Spec

-----------------------------------------------------------------------------
(***************************************************************************)
(* What follows from the muxer's invariant for a reader of its output, for *)
(* every value of the constants, and what no call may do: the safety and   *)
(* action properties of MkvMuxProps and the refinement of PacketLog.       *)
(***************************************************************************)

LEMMA OutIsSeq == IInv => mux.out \in Seq(Element) /\ DOMAIN mux.out \subseteq Nat
BY DEF IInv, TypeOK, MuxState

\* A Block has one Cluster.
LEMMA HoldsOne ==
  ASSUME NEW out, DOMAIN out \subseteq Nat, NEW i, NEW h, NEW j, Holds(out, i, j), Holds(out, h, j)
  PROVE  i = h
<1>1. i \in Nat /\ h \in Nat /\ j \in Nat /\ i < j /\ h < j
  BY DEF Holds
<1>2. ~(i < h)
  <2> SUFFICES ASSUME i < h PROVE FALSE
    OBVIOUS
  <2>1. h \in i + 1 .. j
    BY <1>1
  <2> QED BY <2>1 DEF Holds
<1>3. ~(h < i)
  <2> SUFFICES ASSUME h < i PROVE FALSE
    OBVIOUS
  <2>1. i \in h + 1 .. j
    BY <1>1
  <2> QED BY <2>1 DEF Holds
<1> QED BY <1>1, <1>2, <1>3

LEMMA HeldAre ==
  ASSUME NEW out, DOMAIN out \subseteq Nat, NEW i, NEW j, Holds(out, i, j)
  PROVE  /\ i \in DOMAIN out /\ out[i].kind = "Cluster"
         /\ j \in DOMAIN out /\ out[j].kind = "Block"
<1>1. i \in Nat /\ j \in Nat /\ i < j
  BY DEF Holds
<1>2. j \in i + 1 .. j
  BY <1>1
<1> QED BY <1>2 DEF Holds

-----------------------------------------------------------------------------
(* write_trailer's promises.                                               *)

\* Once the trailer is written, the SeekHead leads to an index that reaches
\* the first entry Block of every track in every Cluster, no lace is left
\* behind, and a file without an index says so.
THEOREM TrailerMakesSeekable ==
  ASSUME Orderly
  PROVE  Spec => []SeekableAfterTrailer
<1>1. MuxInv => SeekableAfterTrailer
  BY DEF MuxInv, SeekableAfterTrailer
<1> QED BY <1>1, MuxInvariant, PTL

\* The Duration patched into Info ends no earlier than any accepted packet.
THEOREM DurationCovers ==
  ASSUME Orderly
  PROVE  Spec => []DurationCoversEveryPacket
<1>1. MuxInv => DurationCoversEveryPacket
  BY DEF MuxInv, DurationCoversEveryPacket
<1> QED BY <1>1, MuxInvariant, PTL

-----------------------------------------------------------------------------
(* Blocks, cues and Clusters.                                              *)

\* A lace keeps to one track, one KEY value, the frame cap, one size under
\* fixed-size lacing, and the duration budget of its own Cluster.
THEOREM LacesStayLegal ==
  ASSUME Orderly
  PROVE  Spec => []LacesAreLegal
<1>1. MuxInv => LacesAreLegal
  <2> SUFFICES ASSUME MuxInv, NEW j \in Blocks
               PROVE  LET b == mux.out[j] IN
                 /\ Len(b.frames) \in 1 .. MaxFramesPerLace
                 /\ \A f \in Range(b.frames) :
                      /\ f.stream = b.track /\ f.key = b.key
                      /\ Lacing = "FixedSize" => f.size = b.frames[1].size
                      /\ \E i \in Clusters : /\ Holds(mux.out, i, j)
                                             /\ NonNeg(f.ms) - mux.out[i].ts \in 0 .. ClusterMaxMs
    BY DEF LacesAreLegal
  <2> DEFINE b == mux.out[j]
             frames == b.frames
  <2>1. mux.out \in Seq(Element) /\ j \in DOMAIN mux.out /\ b.kind = "Block" /\ b \in Element
    BY OutIsSeq DEF MuxInv, Blocks
  <2>2. frames \in Seq(Frame)
    BY <2>1 DEF Element
  <2>3. PICK i \in DOMAIN mux.out :
          /\ frames # <<>> /\ Holds(mux.out, i, j)
          /\ LegalLace(frames, b.track, b.key, mux.out[i].ts)
    BY <2>1 DEF MuxInv, OutputKnown, BlocksLegal
  <2>4. i \in Clusters
    BY <2>3 DEF Clusters, Holds
  <2> HIDE DEF frames
  <2>5. Len(frames) \in 1 .. MaxFramesPerLace
    <3>1. Len(frames) \in Nat /\ Len(frames) # 0
      BY <2>2, <2>3
    <3> QED BY <2>3, <3>1, ConfigAssumption DEF LegalLace
  <2>6. \A f \in Range(frames) : \E k \in DOMAIN frames : f = frames[k]
    BY DEF Range
  <2>7. \A f \in Range(frames) :
          /\ f.stream = b.track /\ f.key = b.key
          /\ Lacing = "FixedSize" => f.size = frames[1].size
          /\ NonNeg(f.ms) - mux.out[i].ts \in 0 .. ClusterMaxMs
    BY <2>3, <2>6 DEF LegalLace
  <2> QED BY <2>3, <2>4, <2>5, <2>7 DEF frames
<1> QED BY <1>1, MuxInvariant, PTL

\* Audio and video have exactly one cue per Cluster with an entry Block, and
\* it is on the first of them.
THEOREM OneCueEach ==
  ASSUME Orderly
  PROVE  Spec => []OneCuePerCluster
<1>1. MuxInv => OneCuePerCluster
  <2> SUFFICES ASSUME MuxInv, NEW i \in Clusters, NEW s \in Streams, Media[s] # "Subtitle"
               PROVE  LET entries == EntryBlocks(i, s) IN
                      /\ Cardinality(CuesOf(i, s)) = (IF entries = {} THEN 0 ELSE 1)
                      /\ \A n \in CuesOf(i, s) : Points(mux.out, mux.cues[n], i, Min(entries))
    BY DEF OneCuePerCluster
  <2> DEFINE C == CuesOf(i, s)
             E == EntryBlocks(i, s)
  <2>1. /\ mux.out \in Seq(Element) /\ DOMAIN mux.out \subseteq Nat
        /\ i \in DOMAIN mux.out /\ AtsAscend(mux.out) /\ CuesKnown(mux.out, mux.cues)
        /\ EntriesIndexed(mux.out, mux.cues) /\ CuesUnique(mux.cues)
        /\ \A k \in DOMAIN mux.out : mux.out[k].at \in Nat
    <3>1. mux.out \in Seq(Element) /\ DOMAIN mux.out \subseteq Nat
      BY OutIsSeq DEF MuxInv
    <3>2. \A k \in DOMAIN mux.out : mux.out[k] \in Element
      BY <3>1
    <3>3. \A k \in DOMAIN mux.out : mux.out[k].at \in Nat
      BY <3>2 DEF Element
    <3> QED BY <3>1, <3>3 DEF MuxInv, IInv, OutputKnown, Clusters
  <2>2. \A j : j \in E <=> IsEntry(mux.out, i, j, s)
    BY <2>1, EntriesAre
  <2>3. ASSUME NEW n \in C PROVE E # {} /\ mux.cues[n].track = s /\ n \in DOMAIN mux.cues
    <3>1. /\ n \in DOMAIN mux.cues /\ mux.cues[n].track = s
          /\ mux.cues[n].cluster_offset = mux.out[i].at - SegmentStart
      BY <2>3 DEF CuesOf
    <3>2. PICK h \in DOMAIN mux.out, j \in DOMAIN mux.out :
            /\ Points(mux.out, mux.cues[n], h, j)
            /\ Indexable(mux.out[j].track, mux.out[j].key)
      BY <2>1, <3>1 DEF CuesKnown, CueLands
    <3>3. mux.out[h].at = mux.out[i].at
      <4>1. mux.out[h].at - SegmentStart = mux.out[i].at - SegmentStart
        BY <3>1, <3>2 DEF Points
      <4> QED BY <2>1, <4>1, ConfigAssumption
    <3>4. h = i
      <4>1. ~(h < i) /\ ~(i < h)
        BY <2>1, <3>3 DEF AtsAscend
      <4>2. h \in Nat /\ i \in Nat
        BY <2>1
      <4> QED BY <4>1, <4>2
    <3>5. IsEntry(mux.out, i, j, s)
      BY <3>1, <3>2, <3>4 DEF Points, IsEntry
    <3> QED BY <2>2, <3>1, <3>5
  <2>4. CASE E = {}
    <3>1. C = {}
      BY <2>3, <2>4
    <3> QED BY <2>4, <3>1, FS_EmptySet
  <2>5. CASE E # {}
    <3> DEFINE m == Min(E)
    <3>1. FirstEntry(mux.out, i, m, s) /\ m \in DOMAIN mux.out
      BY <2>1, <2>5, EntriesAre
    <3> HIDE DEF m
    <3>2. PICK n \in DOMAIN mux.cues : Points(mux.out, mux.cues[n], i, m)
      BY <2>1, <3>1 DEF EntriesIndexed
    <3>3. mux.cues[n].track = s /\ mux.cues[n].cluster_offset = mux.out[i].at - SegmentStart
      BY <3>1, <3>2 DEF Points, FirstEntry, IsEntry
    <3>4. n \in C
      BY <3>3 DEF CuesOf
    <3>5. \A k \in C : k = n
      BY <2>1, <3>3 DEF CuesOf, CuesUnique
    <3>6. C = {n}
      BY <3>4, <3>5
    <3>7. Cardinality(C) = 1
      BY <3>6, FS_Singleton
    <3> QED BY <2>5, <3>2, <3>5, <3>7 DEF m
  <2> QED BY <2>4, <2>5
<1> QED BY <1>1, MuxInvariant, PTL
\* PrevSize, where the muxer writes it, reaches from a Cluster back to the
\* previous one.  In a live stream Tags may stand between the two.
THEOREM PrevSizeIsRight ==
  ASSUME Orderly, ~Live
  PROVE  Spec => []PrevSizeIsPreviousClusterSize
<1>1. MuxInv => PrevSizeIsPreviousClusterSize
  <2> SUFFICES ASSUME MuxInv, NEW k \in Clusters
               PROVE  LET before == {i \in Clusters : i < k} IN
                      mux.out[k].prev_size =
                        IF ~Hints \/ before = {} THEN None
                        ELSE ExtentEnd(Max(before)) - mux.out[Max(before)].at
    BY DEF PrevSizeIsPreviousClusterSize
  <2> DEFINE before == {i \in Clusters : i < k}
  <2>1. /\ DOMAIN mux.out \subseteq Nat /\ PrevSizesKnown(mux.out)
        /\ k \in DOMAIN mux.out /\ mux.out[k].kind = "Cluster" /\ k \in Nat
    <3>1. DOMAIN mux.out \subseteq Nat
      BY OutIsSeq DEF MuxInv
    <3> QED BY <3>1 DEF MuxInv, OutputKnown, Clusters
  <2>2. CASE NoClusterBefore(mux.out, k) /\ mux.out[k].prev_size = None
    <3>1. before = {}
      BY <2>2 DEF NoClusterBefore, Clusters
    <3> QED BY <2>2, <3>1
  <2>3. CASE \E h \in DOMAIN mux.out :
               /\ Before(mux.out, h, k)
               /\ mux.out[k].prev_size = IF Hints THEN mux.out[k].at - mux.out[h].at ELSE None
    <3>1. PICK h \in DOMAIN mux.out :
               /\ Before(mux.out, h, k)
               /\ mux.out[k].prev_size = IF Hints THEN mux.out[k].at - mux.out[h].at ELSE None
      BY <2>3
    <3>2. /\ h \in before /\ h < k /\ h \in Nat
          /\ \A m \in h + 1 .. k - 1 : mux.out[m].kind = "Block"
      BY <2>1, <3>1 DEF Before, Clusters
    <3>3. \A i \in before : i <= h
      <4> SUFFICES ASSUME NEW i \in before, ~(i <= h) PROVE FALSE
        OBVIOUS
      <4>1. i \in Nat /\ i < k /\ mux.out[i].kind = "Cluster"
        BY <2>1 DEF Clusters
      <4>2. i \in h + 1 .. k - 1
        BY <2>1, <3>2, <4>1
      <4> QED BY <3>2, <4>1, <4>2
    <3>4. Max(before) = h
      <4>1. before \in SUBSET Int
        BY <2>1 DEF Clusters
      <4> HIDE DEF before
      <4> QED BY <3>2, <3>3, <4>1, MaxIs
    <3> DEFINE after == {m \in DOMAIN mux.out : m > h /\ mux.out[m].kind # "Block"}
    <3>5. \A m \in after : k <= m
      <4> SUFFICES ASSUME NEW m \in after, ~(k <= m) PROVE FALSE
        OBVIOUS
      <4>1. m \in Nat /\ m > h
        BY <2>1
      <4>2. m \in h + 1 .. k - 1
        BY <2>1, <3>2, <4>1
      <4> QED BY <3>2, <4>2
    <3>6. Min(after) = k
      <4>1. after \in SUBSET Int /\ k \in after
        BY <2>1, <3>2
      <4> HIDE DEF after
      <4> QED BY <3>5, <4>1, MinIs
    <3>7. ExtentEnd(h) = mux.out[k].at
      BY <3>6 DEF ExtentEnd
    <3> QED BY <3>1, <3>2, <3>4, <3>7
  <2> QED BY <2>1, <2>2, <2>3 DEF PrevSizesKnown
<1> QED BY <1>1, MuxInvariant, PTL

\* Without lacing, a derived ReferenceBlock names the time of the Block of
\* its track written last before it.
THEOREM ReferencesAreTrue ==
  ASSUME Orderly, Lacing = "None"
  PROVE  Spec => []ReferencesAreWritten
<1>1. MuxInv => ReferencesAreWritten
  <2> SUFFICES ASSUME MuxInv, NEW i \in Clusters, NEW j \in BlocksOf(i),
                      mux.out[j].ref \in Int,
                      \E k \in Blocks : k < j /\ mux.out[k].track = mux.out[j].track
               PROVE  LET b == mux.out[j] IN
                      \E h \in Clusters : \E k \in BlocksOf(h) :
                        /\ k < j /\ mux.out[k].track = b.track
                        /\ TimeOf(mux.out, h, k) = TimeOf(mux.out, i, j) + b.ref
                        /\ \A m \in Blocks : k < m /\ m < j => mux.out[m].track # b.track
    BY DEF ReferencesAreWritten
  <2> DEFINE b == mux.out[j]
  <2>1. /\ DOMAIN mux.out \subseteq Nat /\ ReferencesKnown(mux.out) /\ BlocksKnown(mux.out)
        /\ Holds(mux.out, i, j) /\ j \in DOMAIN mux.out /\ b.kind = "Block"
    <3>1. DOMAIN mux.out \subseteq Nat
      BY OutIsSeq DEF MuxInv
    <3> QED BY <3>1 DEF MuxInv, IInv, OutputKnown, BlocksOf, Blocks
  <2>2. ~ \A k \in DOMAIN mux.out : k < j => ~IsBlockOf(mux.out, k, b.track)
    BY DEF Blocks, IsBlockOf
  <2>3. PICK k \in DOMAIN mux.out :
          /\ LastBlockBefore(mux.out, k, j, b.track)
          /\ mux.out[k].frames[1].ms = b.frames[1].ms + b.ref
    BY <2>1, <2>2 DEF ReferencesKnown
  <2>4. /\ k < j /\ mux.out[k].kind = "Block" /\ mux.out[k].track = b.track
        /\ \A m \in k + 1 .. j - 1 : ~IsBlockOf(mux.out, m, b.track)
    BY <2>3 DEF LastBlockBefore, IsBlockOf
  <2>5. PICK h \in DOMAIN mux.out : DecodesIn(mux.out, k, h)
    BY <2>1, <2>4 DEF BlocksKnown
  <2>6. /\ h \in Clusters /\ k \in BlocksOf(h)
        /\ mux.out[k].frames[1].ms = TimeOf(mux.out, h, k)
    BY <2>1, <2>4, <2>5, HeldAre DEF DecodesIn, Clusters, BlocksOf, Blocks
  <2>7. b.frames[1].ms = TimeOf(mux.out, i, j)
    <3>1. PICK g \in DOMAIN mux.out : DecodesIn(mux.out, j, g)
      BY <2>1 DEF BlocksKnown
    <3>2. g = i
      BY <2>1, <3>1, HoldsOne DEF DecodesIn
    <3> QED BY <3>1, <3>2 DEF DecodesIn
  <2>8. \A m \in Blocks : k < m /\ m < j => mux.out[m].track # b.track
    <3> TAKE m \in Blocks
    <3> HAVE k < m /\ m < j
    <3>1. m \in k + 1 .. j - 1 /\ m \in DOMAIN mux.out /\ mux.out[m].kind = "Block"
      BY <2>1 DEF Blocks
    <3> QED BY <2>4, <3>1 DEF IsBlockOf
  <2> QED BY <2>3, <2>4, <2>6, <2>7, <2>8
<1> QED BY <1>1, MuxInvariant, PTL
-----------------------------------------------------------------------------
(* A queued SilentTracks list and the Cluster it is written in.            *)
ClustersIn(out) == {i \in DOMAIN out : out[i].kind = "Cluster"}

\* A step opens no Cluster, or one that takes the queued list.
SameClusters(w, x) ==
  /\ ClustersIn(x.out) = ClustersIn(w.out)
  /\ x.pending_silent_tracks = w.pending_silent_tracks
  /\ \A i \in ClustersIn(w.out) : x.out[i] = w.out[i]

Drained(w, x) ==
  \E n \in Nat :
    /\ ClustersIn(x.out) = ClustersIn(w.out) \cup {n}
    /\ \A i \in ClustersIn(w.out) : i < n
    /\ x.pending_silent_tracks = {} /\ x.out[n].silent = w.pending_silent_tracks

LEMMA ClustersAppend ==
  ASSUME NEW out \in Seq(Element), NEW e \in Element
  PROVE  LET x == Append(out, e)
             n == Len(out) + 1
         IN  /\ ClustersIn(x) = IF e.kind = "Cluster" THEN ClustersIn(out) \cup {n}
                                ELSE ClustersIn(out)
             /\ \A i \in ClustersIn(out) : x[i] = out[i] /\ i < n
             /\ n \in Nat /\ x[n] = e
<1> DEFINE x == Append(out, e)
           n == Len(out) + 1
<1>1. /\ Len(out) \in Nat /\ DOMAIN out = 1 .. Len(out) /\ DOMAIN x = 1 .. n
      /\ n \in Nat /\ x[n] = e
      /\ \A k \in DOMAIN out : x[k] = out[k]
  OBVIOUS
<1> HIDE DEF x
<1>2. /\ \A k \in DOMAIN out : k \in DOMAIN x /\ k < n
      /\ n \in DOMAIN x /\ n \notin DOMAIN out
      /\ \A k \in DOMAIN x : k = n \/ k \in DOMAIN out
  BY <1>1
<1> HIDE DEF n
<1>3. ClustersIn(x) = IF e.kind = "Cluster" THEN ClustersIn(out) \cup {n} ELSE ClustersIn(out)
  BY <1>1, <1>2 DEF ClustersIn
<1> QED BY <1>1, <1>2, <1>3 DEF ClustersIn, x, n

LEMMA BlockSameClusters ==
  ASSUME NEW w, NEW x, NEW b, Writing(w), BlockWritten(w, x, b)
  PROVE  SameClusters(w, x)
<1>1. /\ w.out \in Seq(Element) /\ b \in Element /\ b.kind = "Block" /\ x.out = Append(w.out, b)
      /\ x.pending_silent_tracks = w.pending_silent_tracks
  BY BlockFacts DEF BlockWritten, BlockAdded
<1>2. b.kind # "Cluster"
  BY <1>1
<1>3. /\ ClustersIn(Append(w.out, b)) = ClustersIn(w.out)
      /\ \A i \in ClustersIn(w.out) : Append(w.out, b)[i] = w.out[i]
  BY <1>1, <1>2, ClustersAppend
<1> QED BY <1>1, <1>3 DEF SameClusters

LEMMA FlushSameClusters ==
  ASSUME NEW w, NEW x, Writing(w), MaybeFlushed(w, x)
  PROVE  SameClusters(w, x)
BY BlockSameClusters DEF MaybeFlushed, Flushed, SameClusters

LEMMA WroteSameClusters ==
  ASSUME NEW w, NEW x, NEW frame, Writing(w), Wrote(w, x, frame)
  PROVE  SameClusters(w, x)
<1>1. CASE Direct(w, x, frame)
  BY <1>1, BlockSameClusters DEF Direct
<1>2. CASE Joined(w, x, frame)
  BY <1>2 DEF Joined, SameOut, SameClusters
<1> QED BY <1>1, <1>2 DEF Wrote

LEMMA RotatedDrains ==
  ASSUME NEW w, NEW x, Writing(w), Rotated(w, x)
  PROVE  Drained(w, x)
<1>1. PICK e \in Element : /\ e.kind = "Cluster" /\ e.silent = w.pending_silent_tracks
                           /\ x.out = Append(w.out, e)
  BY DEF Rotated
<1>2. w.out \in Seq(Element) /\ x.pending_silent_tracks = {}
  BY DEF Writing, MuxState, Rotated
<1> QED BY <1>1, <1>2, ClustersAppend DEF Drained

LEMMA SameThen ==
  ASSUME NEW w, NEW x, NEW y, SameClusters(w, x)
  PROVE  /\ SameClusters(x, y) => SameClusters(w, y)
         /\ Drained(x, y) => Drained(w, y)
BY DEF SameClusters, Drained

LEMMA DrainedThen ==
  ASSUME NEW w, NEW x, NEW y, Drained(w, x), SameClusters(x, y)
  PROVE  Drained(w, y)
<1>1. PICK n \in Nat :
        /\ ClustersIn(x.out) = ClustersIn(w.out) \cup {n}
        /\ \A i \in ClustersIn(w.out) : i < n
        /\ x.pending_silent_tracks = {} /\ x.out[n].silent = w.pending_silent_tracks
  BY DEF Drained
<1>2. y.out[n] = x.out[n]
  BY <1>1 DEF SameClusters
<1> QED BY <1>1, <1>2 DEF SameClusters, Drained

LEMMA PacketDrains ==
  ASSUME NEW w, NEW x, NEW log, NEW new, Writing(w), PacketChain(w, x, log, new)
  PROVE  SameClusters(w, x) \/ Drained(w, x)
<1>1. PICK a, v, u, c, end :
        /\ Writing(a) /\ Writing(v) /\ Writing(u) /\ Writing(c)
        /\ Advanced(w, a, end) /\ MaybeFlushed(a, v) /\ MaybeFlushed(v, u)
        /\ c = u \/ Rotated(u, c)
        /\ \/ x = c /\ new = log
           \/ \E y, frame : /\ Writing(y) /\ MaybeFlushed(c, y) /\ Wrote(y, x, frame)
                            /\ frame \in Frame /\ frame.end_ms = end /\ new = Append(log, frame)
  BY DEF PacketChain
<1>2. SameClusters(w, a)
  BY <1>1 DEF Advanced, SameOut, SameClusters
<1>3. SameClusters(w, u)
  BY <1>1, <1>2, FlushSameClusters, SameThen
<1>4. SameClusters(w, c) \/ Drained(w, c)
  BY <1>1, <1>3, RotatedDrains, SameThen
<1>5. SameClusters(c, x)
  <2>1. CASE x = c
    BY <2>1 DEF SameClusters
  <2>2. ASSUME NEW y, NEW frame, Writing(y), MaybeFlushed(c, y), Wrote(y, x, frame)
        PROVE  SameClusters(c, x)
    <3>1. SameClusters(c, y) /\ SameClusters(y, x)
      BY <1>1, <2>2, FlushSameClusters, WroteSameClusters
    <3> QED BY <3>1, SameThen
  <2> QED BY <1>1, <2>1, <2>2
<1> QED BY <1>4, <1>5, SameThen, DrainedThen
LEMMA ClustersAre ==
  MuxInv => Clusters = ClustersIn(mux.out) /\ Cardinality(Clusters) \in Nat
<1> SUFFICES ASSUME MuxInv
             PROVE  Clusters = ClustersIn(mux.out) /\ Cardinality(Clusters) \in Nat
  OBVIOUS
<1>1. Clusters = ClustersIn(mux.out)
  BY DEF Clusters, ClustersIn
<1>2. Len(mux.out) \in Nat /\ Clusters \subseteq 1 .. Len(mux.out)
  BY OutIsSeq DEF MuxInv, Clusters
<1>3. IsFiniteSet(1 .. Len(mux.out))
  BY <1>2, FS_Interval
<1>4. IsFiniteSet(Clusters)
  BY <1>2, <1>3, FS_Subset
<1> QED BY <1>1, <1>4, FS_CardinalityType

\* No call but write_packet opens a Cluster.
LEMMA OthersSameClusters ==
  ASSUME Orderly, MuxInv, MuxInv', [Next]_vars, \A p \in Packets : ~WritePacket(p)
  PROVE  ClustersIn(mux'.out) = ClustersIn(mux.out)
<1>0. mux \in MuxState
  BY DEF MuxInv, IInv, TypeOK
<1>1. CASE WriteHeader
  <2>1. mux'.out = mux.out
    BY <1>0, <1>1 DEF WriteHeader, MuxState
  <2> QED BY <2>1
<1>2. ASSUME NEW S \in SilentLists, SetNextClusterSilentTracks(S)
      PROVE  ClustersIn(mux'.out) = ClustersIn(mux.out)
  <2>1. mux'.out = mux.out
    BY <1>0, <1>2 DEF SetNextClusterSilentTracks, MuxState
  <2> QED BY <2>1
<1>3. CASE WriteLiveTags
  <2>1. PICK w : Writing(w) /\ MaybeFlushed(mux, w) /\ Tagged(w, mux')
    BY <1>3, LiveTagsSteps DEF MuxInv
  <2>2. SameClusters(mux, w)
    BY <1>3, <2>1, FlushSameClusters, LiveTagsSteps DEF MuxInv
  <2>3. PICK e \in Element : e.kind = "Tags" /\ mux'.out = Append(w.out, e)
    BY <2>1 DEF Tagged
  <2>4. w.out \in Seq(Element) /\ e.kind # "Cluster"
    BY <2>1, <2>3 DEF Writing, MuxState
  <2>5. ClustersIn(Append(w.out, e)) = ClustersIn(w.out)
    BY <2>4, ClustersAppend
  <2> QED BY <2>2, <2>3, <2>5 DEF SameClusters
<1>4. CASE WriteTrailer
  <2>1. PICK w : /\ Writing(w) /\ MaybeFlushed(mux, w) /\ NonePending(w) /\ Writing(mux)
                 /\ mux' = [PlaceCues(w) EXCEPT
                              !.seek_cues = CuesEntry(w),
                              !.duration = IF @ # None /\ w.max_end_ms # None
                                           THEN NonNeg(w.max_end_ms) ELSE @,
                              !.trailer_written = TRUE]
    BY <1>4, TrailerSteps DEF MuxInv
  <2>2. Known(w, accepted)
    BY <1>4, <2>1, TrailerSteps, KnownMux, KnownFlushed DEF MuxInv
  <2>3. Closed(w, mux')
    BY <2>1, <2>2, TrailerCloses DEF Known, FieldsKnown
  <2>4. SameClusters(mux, w)
    BY <2>1, FlushSameClusters
  <2>5. CASE mux'.out = w.out
    BY <2>4, <2>5 DEF SameClusters
  <2>6. CASE mux'.out = Append(w.out, CuesElement(w)) /\ CuesElement(w) \in Element
    <3>1. CuesElement(w).kind # "Cluster" /\ w.out \in Seq(Element)
      BY <2>1 DEF CuesElement, Writing, MuxState
    <3>2. ClustersIn(Append(w.out, CuesElement(w))) = ClustersIn(w.out)
      BY <2>6, <3>1, ClustersAppend
    <3> QED BY <2>4, <2>6, <3>2 DEF SameClusters
  <2> QED BY <2>3, <2>5, <2>6 DEF Closed
<1>5. CASE UNCHANGED vars
  BY <1>5 DEF vars
<1> QED BY <1>1, <1>2, <1>3, <1>4, <1>5 DEF Next

\* A queued SilentTracks list is written in the Cluster opened next, and the
\* queue is empty after it.
THEOREM SilentListIsDrained ==
  ASSUME Orderly
  PROVE  Spec => SilentListDrained
<1> DEFINE A == Cardinality(Clusters') > Cardinality(Clusters) =>
                  /\ mux'.pending_silent_tracks = {}
                  /\ mux'.out[Max(Clusters')].silent = mux.pending_silent_tracks
<1>1. MuxInv /\ MuxInv' /\ [Next]_vars => A
  <2> SUFFICES ASSUME MuxInv, MuxInv', [Next]_vars, Cardinality(Clusters') > Cardinality(Clusters)
               PROVE  /\ mux'.pending_silent_tracks = {}
                      /\ mux'.out[Max(Clusters')].silent = mux.pending_silent_tracks
    OBVIOUS
  <2>1. /\ Clusters = ClustersIn(mux.out) /\ Clusters' = ClustersIn(mux'.out)
        /\ Cardinality(Clusters) \in Nat /\ Clusters \subseteq Nat
    <3>1. Clusters = ClustersIn(mux.out) /\ Clusters' = ClustersIn(mux'.out)
      BY DEF Clusters, ClustersIn
    <3>2. Clusters \subseteq Nat
      BY OutIsSeq DEF MuxInv, Clusters
    <3> QED BY <3>1, <3>2, ClustersAre
  <2>2. ~(ClustersIn(mux'.out) = ClustersIn(mux.out))
    BY <2>1
  <2>3. PICK p \in Packets : WritePacket(p)
    BY <2>2, OthersSameClusters
  <2>4. Writing(mux) /\ PacketChain(mux, mux', accepted, accepted')
    BY <2>3, WritePacketSteps DEF Orderly, MuxInv
  <2>5. Drained(mux, mux')
    BY <2>2, <2>4, PacketDrains DEF SameClusters
  <2>6. PICK n \in Nat :
          /\ ClustersIn(mux'.out) = ClustersIn(mux.out) \cup {n}
          /\ \A i \in ClustersIn(mux.out) : i < n
          /\ mux'.pending_silent_tracks = {} /\ mux'.out[n].silent = mux.pending_silent_tracks
    BY <2>5 DEF Drained
  <2>7. Max(Clusters') = n
    <3> DEFINE S == Clusters \cup {n}
    <3>1. S \in SUBSET Int /\ n \in S /\ \A i \in S : i <= n
      BY <2>1, <2>6
    <3>2. Clusters' = S
      BY <2>1, <2>6
    <3> HIDE DEF S
    <3>3. Max(S) = n
      BY <3>1, MaxIs
    <3> QED BY <3>2, <3>3
  <2> QED BY <2>6, <2>7
<1>2. MuxInv /\ MuxInv' /\ [Next]_vars => [A]_vars
  BY <1>1
<1>3. SilentListDrained <=> [][A]_vars
  BY DEF SilentListDrained
<1> HIDE DEF A
<1> QED BY <1>2, <1>3, MuxInvariant, PTL DEF Spec
-----------------------------------------------------------------------------
(* The muxer implements PacketLog.                                         *)
Grows(w, x) ==
  /\ x.trailer_written = w.trailer_written
  /\ \E t \in Seq(Frame) : FramesIn(x.out) = FramesIn(w.out) \o t

LEMMA FramesType ==
  ASSUME NEW out \in Seq(Element)
  PROVE  FramesIn(out) \in Seq(Frame)
<1>1. [kind |-> "Tags", at |-> 0, size |-> 1] \in Element
  BY DEF Element
<1> QED BY <1>1, FramesAppend

LEMMA GrowsSame ==
  ASSUME NEW w, NEW x, Writing(w), x.out = w.out, SameHead(x, w)
  PROVE  Grows(w, x)
<1>1. FramesIn(w.out) \in Seq(Frame)
  BY FramesType DEF Writing, MuxState
<1>2. FramesIn(w.out) \o <<>> = FramesIn(w.out) /\ <<>> \in Seq(Frame)
  BY <1>1, ConcatEmptySeq
<1> QED BY <1>2 DEF Grows, SameHead, SameFlags

LEMMA GrowsAppend ==
  ASSUME NEW w, NEW x, NEW e \in Element, Writing(w), x.out = Append(w.out, e),
         SameHead(x, w)
  PROVE  Grows(w, x)
<1>1. w.out \in Seq(Element)
  BY DEF Writing, MuxState
<1>2. FramesIn(x.out) = FramesIn(w.out) \o FramesOf(e)
  BY <1>1, FramesAppend
<1>3. FramesOf(e) \in Seq(Frame)
  BY DEF FramesOf, Element
<1> QED BY <1>2, <1>3 DEF Grows, SameHead, SameFlags

LEMMA GrowsThen ==
  ASSUME NEW w, NEW x, NEW y, Writing(w), Grows(w, x), Grows(x, y)
  PROVE  Grows(w, y)
<1>1. PICK t \in Seq(Frame) : FramesIn(x.out) = FramesIn(w.out) \o t
  BY DEF Grows
<1>2. PICK u \in Seq(Frame) : FramesIn(y.out) = FramesIn(x.out) \o u
  BY DEF Grows
<1>3. FramesIn(w.out) \in Seq(Frame)
  BY FramesType DEF Writing, MuxState
<1> DEFINE f == FramesIn(w.out)
<1> HIDE DEF f
<1>4. (f \o t) \o u = f \o (t \o u) /\ t \o u \in Seq(Frame)
  BY <1>3, ConcatAssociative, ConcatProperties DEF f
<1> QED BY <1>1, <1>2, <1>4 DEF Grows, f

LEMMA FlushGrows ==
  ASSUME NEW w, NEW x, Writing(w), MaybeFlushed(w, x)
  PROVE  Grows(w, x)
<1>1. CASE x = w
  BY <1>1, GrowsSame DEF SameHead, SameFlags
<1>2. CASE Flushed(w, x)
  <2>1. PICK b \in Element : x.out = Append(w.out, b) /\ SameHead(x, w)
    BY <1>2 DEF Flushed, BlockWritten, BlockAdded
  <2> QED BY <2>1, GrowsAppend
<1> QED BY <1>1, <1>2 DEF MaybeFlushed

LEMMA WroteGrows ==
  ASSUME NEW w, NEW x, NEW frame, Writing(w), Wrote(w, x, frame)
  PROVE  Grows(w, x)
<1>1. CASE Direct(w, x, frame)
  <2>1. PICK b \in Element : x.out = Append(w.out, b) /\ SameHead(x, w)
    BY <1>1 DEF Direct, BlockWritten, BlockAdded
  <2> QED BY <2>1, GrowsAppend
<1>2. CASE Joined(w, x, frame)
  BY <1>2, GrowsSame DEF Joined, SameOut
<1> QED BY <1>1, <1>2 DEF Wrote

LEMMA PacketGrows ==
  ASSUME NEW w, NEW x, NEW log, NEW new, Writing(w), PacketChain(w, x, log, new)
  PROVE  Grows(w, x) /\ (new = log \/ \E frame \in Frame : new = Append(log, frame))
<1>1. PICK a, v, u, c, end :
        /\ Writing(a) /\ Writing(v) /\ Writing(u) /\ Writing(c)
        /\ Advanced(w, a, end) /\ MaybeFlushed(a, v) /\ MaybeFlushed(v, u)
        /\ c = u \/ Rotated(u, c)
        /\ \/ x = c /\ new = log
           \/ \E y, frame : /\ Writing(y) /\ MaybeFlushed(c, y) /\ Wrote(y, x, frame)
                            /\ frame \in Frame /\ frame.end_ms = end /\ new = Append(log, frame)
  BY DEF PacketChain
<1>2. Grows(w, a)
  BY <1>1, GrowsSame DEF Advanced, SameOut
<1>3. Grows(w, u)
  BY <1>1, <1>2, FlushGrows, GrowsThen
<1>4. Grows(w, c)
  <2>1. CASE c = u
    BY <1>3, <2>1
  <2>2. CASE Rotated(u, c)
    <3>1. PICK e \in Element : c.out = Append(u.out, e) /\ SameHead(c, u)
      BY <2>2 DEF Rotated
    <3>2. Grows(u, c)
      BY <1>1, <3>1, GrowsAppend
    <3> QED BY <1>3, <3>2, GrowsThen
  <2> QED BY <1>1, <2>1, <2>2
<1>5. CASE x = c /\ new = log
  BY <1>4, <1>5
<1>6. CASE \E y, frame : /\ Writing(y) /\ MaybeFlushed(c, y) /\ Wrote(y, x, frame)
                         /\ frame \in Frame /\ frame.end_ms = end /\ new = Append(log, frame)
  <2>1. PICK y, frame : /\ Writing(y) /\ MaybeFlushed(c, y) /\ Wrote(y, x, frame)
                        /\ frame \in Frame /\ new = Append(log, frame)
    BY <1>6
  <2>2. Grows(c, y) /\ Grows(y, x)
    BY <1>1, <2>1, FlushGrows, WroteGrows
  <2>3. Grows(w, y)
    BY <1>4, <2>2, GrowsThen
  <2>4. Grows(w, x)
    BY <2>2, <2>3, GrowsThen
  <2> QED BY <2>1, <2>4
<1> QED BY <1>1, <1>5, <1>6
LEMMA ConcatPrefix ==
  ASSUME NEW f \in Seq(Frame), NEW t \in Seq(Frame)
  PROVE  /\ Log!PrefixOf(f, f \o t)
         /\ f \o t \in Seq(Frame) /\ Len(f \o t) = Len(f) + Len(t)
<1>1. /\ f \o t \in Seq(Frame) /\ Len(f \o t) = Len(f) + Len(t)
      /\ Len(f) \in Nat /\ Len(t) \in Nat
  BY ConcatProperties
<1>2. SubSeq(f \o t, 1, Len(f)) = f
  <2>1. CASE f = <<>>
    BY <1>1, <2>1
  <2>2. CASE f # <<>>
    <3>1. Len(f) \in 1 .. Len(f) /\ 1 \in 1 .. Len(f)
      BY <1>1, <2>2
    <3>2. SubSeq(f \o t, 1, Len(f)) = SubSeq(f, 1, Len(f))
      BY <3>1, SubSeqOfConcat1
    <3> QED BY <3>2, SubSeqFull
  <2> QED BY <2>1, <2>2
<1> QED BY <1>1, <1>2 DEF Log!PrefixOf

\* All but at most one lace of the accepted frames are in the output.
Slack == IF Lacing = "None" THEN 0 ELSE MaxFramesPerLace

Behind ==
  /\ FramesIn(mux.out) \in Seq(Frame) /\ accepted \in Seq(Frame)
  /\ Log!PrefixOf(FramesIn(mux.out), accepted)
  /\ Len(accepted) - Len(FramesIn(mux.out)) <= Slack

LEMMA DiskIsBehind == MuxInv => Behind
<1> SUFFICES ASSUME MuxInv PROVE Behind
  OBVIOUS
<1> DEFINE f == FramesIn(mux.out)
           slack == Slack
<1>1. /\ f \in Seq(Frame) /\ accepted \in Seq(Frame) /\ mux \in MuxState
      /\ MaxFramesPerLace \in Nat /\ <<>> \in Seq(Frame)
  BY FramesType, OutIsSeq, ConfigAssumption DEF MuxInv, IInv, TypeOK
<1>2. \E t \in Seq(Frame) : accepted = f \o t /\ Len(t) <= slack
  <2>1. CASE accepted = f
    <3>1. f \o <<>> = f
      BY <1>1, ConcatEmptySeq
    <3>2. Len(<<>>) <= slack
      BY <1>1 DEF Slack
    <3> QED BY <1>1, <2>1, <3>1, <3>2
  <2>2. CASE accepted # f
    <3>1. ~mux.trailer_written
      BY <2>2 DEF MuxInv
    <3>2. LogKnown(mux, accepted) /\ PendingLegal(mux) /\ LaceKnown(mux)
      BY <3>1 DEF MuxInv, FieldsKnown, IInv, Writing
    <3>3. PICK s \in Streams : LacePending(mux, s)
      BY <2>2, <3>2 DEF LogKnown
    <3> DEFINE t == mux.lace_pending[s].frames
    <3>4. accepted = f \o t /\ Len(t) <= MaxFramesPerLace /\ Lacing # "None"
      BY <3>2, <3>3 DEF LogKnown, PendingLegal, LegalLace, LaceKnown
    <3>5. t \in Seq(Frame)
      BY <1>1 DEF MuxState, Lace
    <3> QED BY <3>4, <3>5 DEF Slack
  <2> QED BY <2>1, <2>2
<1>3. PICK t \in Seq(Frame) : accepted = f \o t /\ Len(t) <= slack
  BY <1>2
<1> HIDE DEF f, slack
<1>4. Log!PrefixOf(f, accepted) /\ Len(accepted) = Len(f) + Len(t) /\ Len(f) \in Nat /\ Len(t) \in Nat
  BY <1>1, <1>3, ConcatPrefix
<1>5. slack \in Nat
  BY <1>1 DEF slack, Slack
<1>6. Len(accepted) - Len(f) <= slack
  BY <1>3, <1>4, <1>5
<1> QED BY <1>1, <1>4, <1>6 DEF f, slack, Behind
LEMMA DiskIsBehindNext == MuxInv' => Behind'
BY DiskIsBehind, PTL

\* A step that makes the output grow and adds at most one accepted frame.
LEMMA GrowsPersists ==
  ASSUME MuxInv, MuxInv', Grows(mux, mux')
  PROVE  Log!Persist /\ mux'.trailer_written = mux.trailer_written
<1>1. PICK t \in Seq(Frame) : FramesIn(mux'.out) = FramesIn(mux.out) \o t
  BY DEF Grows
<1>2. FramesIn(mux.out) \in Seq(Frame)
  BY DiskIsBehind DEF Behind
<1>3. Log!PrefixOf(FramesIn(mux.out), FramesIn(mux'.out))
  BY <1>1, <1>2, ConcatPrefix
<1>4. Behind'
  BY DiskIsBehindNext
<1> QED BY <1>3, <1>4 DEF Behind, Log!Persist, Slack, Grows

LEMMA LiveTagsGrows ==
  ASSUME Orderly, MuxInv, MuxInv', WriteLiveTags
  PROVE  Grows(mux, mux') /\ ~mux.trailer_written /\ accepted' = accepted
<1>1. PICK w : Writing(w) /\ MaybeFlushed(mux, w) /\ Tagged(w, mux')
  BY LiveTagsSteps DEF MuxInv
<1>2. Writing(mux) /\ ~mux.trailer_written /\ accepted' = accepted
  BY LiveTagsSteps DEF MuxInv
<1>3. PICK e \in Element : mux'.out = Append(w.out, e) /\ SameHead(mux', w)
  BY <1>1 DEF Tagged
<1>4. Grows(mux, w) /\ Grows(w, mux')
  BY <1>1, <1>2, <1>3, FlushGrows, GrowsAppend
<1> QED BY <1>2, <1>4, GrowsThen

LEMMA LogStep ==
  ASSUME Orderly, MuxInv, MuxInv', [Next]_vars
  PROVE  [Log!LogNext]_Log!logVars
<1>0. mux \in MuxState
  BY DEF MuxInv, IInv, TypeOK
<1>1. CASE WriteHeader
  <2>1. mux'.out = mux.out /\ mux'.trailer_written = mux.trailer_written /\ accepted' = accepted
    BY <1>0, <1>1 DEF WriteHeader, MuxState
  <2> QED BY <2>1 DEF Log!logVars
<1>2. ASSUME NEW S \in SilentLists, SetNextClusterSilentTracks(S)
      PROVE  [Log!LogNext]_Log!logVars
  <2>1. mux'.out = mux.out /\ mux'.trailer_written = mux.trailer_written /\ accepted' = accepted
    BY <1>0, <1>2 DEF SetNextClusterSilentTracks, MuxState
  <2> QED BY <2>1 DEF Log!logVars
<1>3. ASSUME NEW p \in Packets, WritePacket(p)
      PROVE  [Log!LogNext]_Log!logVars
  <2>1. Writing(mux) /\ PacketChain(mux, mux', accepted, accepted') /\ ~mux.trailer_written
    BY <1>3, WritePacketSteps DEF Orderly, MuxInv
  <2>2. Log!Persist /\ mux'.trailer_written = mux.trailer_written
    BY <2>1, PacketGrows, GrowsPersists
  <2>3. CASE accepted' = accepted
    BY <2>1, <2>2, <2>3 DEF Log!LogNext, Log!Flush
  <2>4. CASE \E frame \in Frame : accepted' = Append(accepted, frame)
    <3>1. PICK frame \in Frame : accepted' = Append(accepted, frame)
      BY <2>4
    <3>2. accepted \in Seq(Frame) /\ <<frame>> \in Seq(Frame) /\ Len(<<frame>>) = 1
      BY DiskIsBehind DEF Behind
    <3>3. accepted' = accepted \o <<frame>>
      BY <3>1, <3>2, AppendIsConcat
    <3>4. Log!PrefixOf(accepted, accepted') /\ Len(accepted') = Len(accepted) + 1
      BY <3>2, <3>3, ConcatPrefix
    <3> QED BY <2>1, <2>2, <3>4 DEF Log!LogNext, Log!AcceptFrame
  <2> QED BY <2>1, <2>3, <2>4, PacketGrows
<1>4. CASE WriteLiveTags
  <2>1. Grows(mux, mux') /\ ~mux.trailer_written /\ accepted' = accepted
    BY <1>4, LiveTagsGrows
  <2>2. Log!Persist /\ mux'.trailer_written = mux.trailer_written
    BY <2>1, GrowsPersists
  <2> QED BY <2>1, <2>2 DEF Log!LogNext, Log!Flush
<1>5. CASE WriteTrailer
  <2>1. ~mux.trailer_written /\ accepted' = accepted /\ mux'.trailer_written = TRUE
    <3>1. ~mux.trailer_written /\ accepted' = accepted
      BY <1>5, TrailerSteps DEF MuxInv
    <3>2. mux'.trailer_written = TRUE
      BY <1>0, <1>5, WriteTrailerKeeps DEF Orderly, MuxInv, IInv, TypeOK, MuxState
    <3> QED BY <3>1, <3>2
  <2>2. FramesIn(mux'.out) = accepted'
    BY <2>1 DEF MuxInv
  <2>3. mux.trailer_written = FALSE
    BY <1>0, <2>1 DEF MuxState
  <2> QED BY <2>1, <2>2, <2>3 DEF Log!LogNext, Log!Close
<1>6. CASE UNCHANGED vars
  BY <1>6 DEF vars, Log!logVars
<1> QED BY <1>1, <1>2, <1>3, <1>4, <1>5, <1>6 DEF Next

\* The write path implements PacketLog for every configuration and orderly
\* caller: frames reach the output in the order they were accepted, at most
\* one lace is missing at any time, and none after write_trailer.
THEOREM ImplementsLog ==
  ASSUME Orderly
  PROVE  Spec => ImplementsPacketLog
<1>1. Init => Log!LogInit
  <2> SUFFICES ASSUME Init PROVE Log!LogInit
    OBVIOUS
  <2>1. mux.out = <<>> /\ mux.trailer_written = FALSE /\ accepted = <<>>
    BY DEF Init, NewMux
  <2>2. FramesIn(mux.out) = <<>>
    BY <2>1 DEF FramesIn, FlattenSeq
  <2> QED BY <2>1, <2>2 DEF Log!LogInit
<1>2. MuxInv /\ MuxInv' /\ [Next]_vars => [Log!LogNext]_Log!logVars
  BY LogStep
<1> QED BY <1>1, <1>2, MuxInvariant, PTL DEF Spec, ImplementsPacketLog, Log!LogSpec
=============================================================================
