-------------------------- MODULE MkvRecoveryProofs --------------------------
(***************************************************************************)
(* What MkvMuxer wrote and a crash left, read back: the Blocks of the      *)
(* output are the packets stored, the demuxer opened on what is left of    *)
(* them stands between two of them, and it gives out every one behind its  *)
(* landing before it ends.                                                 *)
(***************************************************************************)
EXTENDS MkvOpeningProofs, MkvDemuxProofs

-----------------------------------------------------------------------------
(* Places, and the packets that lie at them.                               *)

\* Places are two cells apart.
LEMMA PlacesAre ==
  ASSUME HeaderEnd \in Nat
  PROVE  /\ HeaderEnd \in Places
         /\ \A o \in Places : o \in Nat /\ HeaderEnd <= o /\ o + 2 \in Places /\ o + 1 \notin Places
         /\ \A o, c \in Places : o < c => o + 2 <= c
         /\ \A o \in Nat : HeaderEnd < o /\ o \notin Places => o - 1 \in Places
<1> PICK h \in Nat : h = HeaderEnd
  OBVIOUS
<1>1. \A o : o \in Places <=> \E k \in Nat : o = h + 2 * k
  BY DEF Places
<1> HIDE DEF HeaderEnd, Places
<1>2. HeaderEnd \in Places
  <2>1. h = h + 2 * 0
    OBVIOUS
  <2> QED BY <1>1, <2>1
<1>3. ASSUME NEW o \in Places
      PROVE  o \in Nat /\ HeaderEnd <= o /\ o + 2 \in Places /\ o + 1 \notin Places
  <2>1. PICK k \in Nat : o = h + 2 * k
    BY <1>1
  <2>2. o + 2 = h + 2 * (k + 1) /\ k + 1 \in Nat
    BY <2>1
  <2>3. \A l \in Nat : o + 1 # h + 2 * l
    BY <2>1
  <2>4. o + 2 \in Places
    BY <1>1, <2>2
  <2>5. o + 1 \notin Places
    BY <1>1, <2>3
  <2> QED BY <2>1, <2>4, <2>5
<1>4. ASSUME NEW o \in Places, NEW c \in Places, o < c
      PROVE  o + 2 <= c
  <2>1. PICK k \in Nat : o = h + 2 * k
    BY <1>1
  <2>2. PICK l \in Nat : c = h + 2 * l
    BY <1>1
  <2> QED BY <1>4, <2>1, <2>2
<1>5. ASSUME NEW o \in Nat, HeaderEnd < o, o \notin Places
      PROVE  o - 1 \in Places
  <2>1. \E k \in Nat : o = h + 2 * k \/ o - 1 = h + 2 * k
    <3> DEFINE d == o - h
    <3>1. d \in Nat /\ o = h + d
      BY <1>5
    <3> HIDE DEF d
    <3>2. d \div 2 \in Nat /\ (d = 2 * (d \div 2) \/ d = 2 * (d \div 2) + 1)
      BY <3>1
    <3> QED BY <3>1, <3>2
  <2> QED BY <1>1, <1>5, <2>1
<1> QED BY <1>2, <1>3, <1>4, <1>5

\* An offset an even number of cells in front of a place is one.
LEMMA PlaceBefore ==
  ASSUME HeaderEnd \in Nat, NEW o \in Nat, NEW n \in Nat, HeaderEnd <= o, o + 2 * n \in Places
  PROVE  o \in Places
<1> PICK h \in Nat : h = HeaderEnd
  OBVIOUS
<1>1. \A x : x \in Places <=> \E k \in Nat : x = h + 2 * k
  BY DEF Places
<1> HIDE DEF HeaderEnd, Places
<1>2. PICK k \in Nat : o + 2 * n = h + 2 * k
  BY <1>1
<1>3. o = h + 2 * (k - n) /\ k - n \in Nat
  BY <1>2
<1> QED BY <1>1, <1>3

\* What belonged to a Cluster, and what was stored, does so when nothing in
\* front of BodyEnd changes.
LEMMA PairsStay ==
  ASSUME WriterInv, PacketsInv, step # "header", layout' = layout,
         BodyEnd' \in Nat, BodyEnd <= BodyEnd',
         \A i \in HeaderEnd + 1 .. BodyEnd : output'[i] = output[i]
  PROVE  /\ Places' = Places
         /\ \A o \in Places : o < BodyEnd => ClusterPair(o)' \/ BlockPair(o)'
         /\ \A p : IsStored(p) => IsStored(p)'
<1>1. HeaderEnd \in Nat /\ BodyEnd \in Nat /\ HeaderEnd' = HeaderEnd
  BY Sizes, Offs, SameLayout
<1>2. Places' = Places
  BY <1>1 DEF Places
<1>3. /\ BodyEnd \in Places
      /\ \A o \in Places : o < BodyEnd => ClusterPair(o) \/ BlockPair(o)
      /\ \A o \in Places : o \in Nat /\ HeaderEnd <= o
      /\ \A o, c \in Places : o < c => o + 2 <= c
  BY <1>1, PlacesAre DEF PacketsInv, BodyPairs
<1> HIDE DEF Places, BodyEnd, HeaderEnd
<1>4. ASSUME NEW o \in Places, o < BodyEnd
      PROVE  output'[o + 1] = output[o + 1] /\ output'[o + 2] = output[o + 2]
  <2>1. o + 2 <= BodyEnd /\ o \in Nat /\ HeaderEnd <= o
    BY <1>3, <1>4
  <2> QED BY <1>1, <2>1
<1>5. ASSUME NEW o \in Places, o < BodyEnd
      PROVE  ClusterPair(o)' \/ BlockPair(o)'
  <2>1. CASE ClusterPair(o)
    BY <1>4, <1>5, <2>1 DEF ClusterPair
  <2>2. CASE BlockPair(o)
    BY <1>4, <1>5, <2>2 DEF BlockPair
  <2> QED BY <1>3, <1>5, <2>1, <2>2
<1>6. ASSUME NEW p, IsStored(p)
      PROVE  IsStored(p)'
  <2>1. p.at \in Places /\ p.at < BodyEnd /\ output[p.at + 1].id = "SimpleBlock"
    BY <1>6 DEF IsStored
  <2>2. PICK c \in Places : Governs(c, p.at) /\ p = PacketAt(p.at, c)
    BY <1>6 DEF IsStored
  <2>3. PICK o \in Places : o = p.at
    BY <2>1
  <2>4. c < o /\ c < BodyEnd /\ o < BodyEnd
    BY <1>1, <1>3, <2>1, <2>2, <2>3 DEF Governs
  <2>5. Governs(c, o)'
    <3>1. ASSUME NEW x \in Places, c < x, x < o PROVE output'[x + 1].id = "SimpleBlock"
      <4>1. output[x + 1].id = "SimpleBlock"
        BY <2>2, <2>3, <3>1 DEF Governs
      <4>2. x < BodyEnd
        BY <1>1, <1>3, <2>4, <3>1
      <4> QED BY <1>4, <4>1, <4>2
    <3> QED BY <1>2, <1>4, <2>2, <2>4, <3>1 DEF Governs
  <2>6. PacketAt(o, c)' = PacketAt(o, c)
    BY <1>4, <2>4 DEF PacketAt
  <2>7. p = PacketAt(o, c)'
    BY <2>2, <2>3, <2>6
  <2>8. o \in Places' /\ o < BodyEnd' /\ output'[o + 1].id = "SimpleBlock"
    BY <1>1, <1>2, <1>3, <1>4, <2>1, <2>3, <2>4
  <2> QED BY <1>2, <2>3, <2>5, <2>7, <2>8 DEF IsStored, PacketAt
<1> QED BY <1>2, <1>5, <1>6

\* Nothing of it changes with what is written elsewhere.
LEMMA PacketsStay ==
  ASSUME WriterInv, PacketsInv, step # "header", layout' = layout, stored' = stored, BodyEnd' = BodyEnd,
         \A i \in HeaderEnd + 1 .. BodyEnd : output'[i] = output[i]
  PROVE  PacketsInv'
<1>1. /\ Places' = Places /\ BodyEnd \in Nat
      /\ \A o \in Places : o < BodyEnd => ClusterPair(o)' \/ BlockPair(o)'
      /\ \A p : IsStored(p) => IsStored(p)'
  BY Sizes, PairsStay
<1>2. HeaderEnd \in Nat /\ HeaderEnd' = HeaderEnd
  BY Sizes, Offs, SameLayout
<1>3. \A o \in Places : o \in Nat /\ HeaderEnd <= o
  BY <1>2, PlacesAre
<1> HIDE DEF Places, BodyEnd, HeaderEnd
<1>4. BodyPairs'
  BY <1>1 DEF PacketsInv, BodyPairs
<1>5. \A o \in Places : o < BodyEnd => output'[o + 1] = output[o + 1]
  BY <1>1, <1>2, <1>3
<1>6. ASSUME NEW i \in DOMAIN stored'
      PROVE  IsStored(stored[i])'
  <2>1. PICK p : p = stored[i]
    OBVIOUS
  <2>2. IsStored(p)
    BY <1>6, <2>1 DEF PacketsInv, StoredHold
  <2>3. IsStored(p)' /\ p = stored'[i]
    BY <1>1, <2>1, <2>2
  <2> QED BY <2>3 DEF IsStored
<1>7. StoredHold'
  BY <1>1, <1>5, <1>6 DEF PacketsInv, StoredHold
<1> QED BY <1>4, <1>7 DEF PacketsInv

-----------------------------------------------------------------------------
(* The writer's steps.                                                     *)

\* What is written in front of the Clusters leaves the packets.
LEMMA FrontWritten ==
  ASSUME WriterInv, PacketsInv, step # "header", UNCHANGED <<layout, index, entry, stored>>,
         NEW at \in Nat, NEW cells, IsSeq(cells), at + Len(cells) <= HeaderEnd,
         output' = Overwritten(at, cells)
  PROVE  PacketsInv'
<1> DEFINE o == Overwritten(at, cells)
<1>1. /\ IsSeq(output) /\ Len(output) \in Nat /\ HeaderEnd \in Nat /\ BodyEnd \in Nat
      /\ HeaderEnd <= BodyEnd /\ BodyEnd <= Len(output) /\ Len(cells) \in Nat
  BY Sizes, Offs DEF IsSeq
<1>2. /\ Len(o) = IF Len(output) >= at + Len(cells) THEN Len(output) ELSE at + Len(cells)
      /\ \A i \in 1 .. Len(o) : o[i] = IF i > at /\ i <= at + Len(cells) THEN cells[i - at] ELSE output[i]
  BY <1>1, OverwrittenIs
<1>3. output' = o
  OBVIOUS
<1> HIDE DEF o
<1>4. Len(o) = Len(output)
  BY <1>1, <1>2
<1>5. \A i \in HeaderEnd + 1 .. BodyEnd : output'[i] = output[i]
  BY <1>1, <1>2, <1>3, <1>4
<1>6. BodyEnd' = BodyEnd
  BY <1>3, <1>4, SameIndex DEF BodyEnd
<1> QED BY <1>5, <1>6, PacketsStay

\* The patches of the trailer are made there.
LEMMA TrailerKeepsPackets ==
  ASSUME WriterInv, PacketsInv,
         StartTrailer \/ VoidRest \/ PatchSeekEntry \/ PatchDuration \/ PatchCrc
  PROVE  PacketsInv'
<1>1. /\ step # "header" /\ UNCHANGED <<layout, index, entry, stored>>
      /\ layout \in Layouts
  BY Sizes DEF StartTrailer, VoidRest, PatchSeekEntry, PatchDuration, PatchCrc, Kept
<1>2. /\ HeaderEnd \in Nat /\ SlotAt \in Nat /\ CrcAt \in Nat /\ DurationAt \in Nat
      /\ HeaderEnd = SlotAt + layout.front /\ layout.front \in Nat
      /\ layout.finalize => DurationAt < SlotAt
      /\ ~layout.strict => CrcAt < SlotAt
      /\ Offsets.Cues = 4 /\ (~layout.live => SlotAt > 5)
  <2>1. /\ HeaderEnd \in Nat /\ SlotAt \in Nat /\ CrcAt \in Nat /\ DurationAt \in Nat /\ InfoAt \in Nat
        /\ TracksAt \in Nat /\ HeaderEnd = SlotAt + layout.front /\ layout.front \in Nat
        /\ TracksAt < SlotAt /\ Offsets.Cues = 4
        /\ layout.finalize => DurationAt < TracksAt
        /\ ~layout.strict => CrcAt < TracksAt
    BY <1>1, Offs
  <2>2. ~layout.live => SlotAt > 5
    BY <1>1, <2>1, Offs
  <2> QED BY <2>1, <2>2
<1>3. CASE output' = output
  <2>1. BodyEnd' = BodyEnd
    BY <1>1, <1>3, SameIndex DEF BodyEnd
  <2> QED BY <1>1, <1>3, <2>1, PacketsStay
<1>4. ASSUME NEW at \in Nat, NEW a, output' = Overwritten(at, <<a>>), at < SlotAt
      PROVE  PacketsInv'
  <2>1. IsSeq(<<a>>) /\ Len(<<a>>) = 1
    BY SingleIs
  <2>2. at + Len(<<a>>) <= HeaderEnd
    BY <1>2, <1>4, <2>1
  <2> QED BY <1>1, <1>4, <2>1, <2>2, FrontWritten
<1>5. CASE StartTrailer
  BY <1>3, <1>5 DEF StartTrailer
<1>6. CASE VoidRest
  <2> DEFINE r == RestOfSlot
             n == Len(CuesElement)
             v == VoidOf(r)
  <2>1. /\ output' = Overwritten(SlotAt + n, v) /\ r \in Nat \ {0} /\ n \in Nat /\ r = layout.front - n
    <3>1. RestOfSlot > 0 /\ Len(CuesElement) \in Nat
      BY <1>6, Sizes DEF VoidRest, WriterInv, CuesHold
    <3> QED BY <1>2, <1>6, <3>1 DEF VoidRest, RestOfSlot
  <2> HIDE DEF r, n
  <2>2. IsSeq(v) /\ Len(v) = r
    BY <2>1, VoidIs
  <2> HIDE DEF v
  <2>3. SlotAt + n \in Nat /\ (SlotAt + n) + Len(v) <= HeaderEnd
    BY <1>2, <2>1, <2>2
  <2> QED BY <1>1, <2>1, <2>2, <2>3, FrontWritten
<1>7. CASE PatchSeekEntry
  <2>1. \E a : output' = Overwritten(4, <<a>>)
    BY <1>2, <1>7 DEF PatchSeekEntry, Leaf
  <2>2. ~layout.live
    BY <1>7 DEF PatchSeekEntry, WriterInv, CuesHold
  <2> QED BY <1>2, <1>4, <2>1, <2>2
<1>8. CASE PatchDuration
  <2>1. CASE layout.finalize /\ maxEnd # None
    <3>1. \E a : output' = Overwritten(DurationAt, <<a>>)
      BY <1>8, <2>1 DEF PatchDuration, Leaf
    <3> QED BY <1>2, <1>4, <2>1, <3>1
  <2>2. CASE ~(layout.finalize /\ maxEnd # None)
    BY <1>3, <1>8, <2>2 DEF PatchDuration
  <2> QED BY <2>1, <2>2
<1>9. CASE PatchCrc
  <2>1. \E a : output' = Overwritten(CrcAt, <<a>>)
    BY <1>9 DEF PatchCrc, Leaf
  <2>2. ~layout.strict
    BY <1>9 DEF PatchCrc, WriterInv, CuesHold
  <2> QED BY <1>2, <1>4, <2>1, <2>2
<1> QED BY <1>5, <1>6, <1>7, <1>8, <1>9

\* The Cues go there too, or behind the packets.
LEMMA WriteCuesKeepsPackets ==
  ASSUME WriterInv, PacketsInv, WriteCues
  PROVE  PacketsInv'
<1> DEFINE c == CuesElement
           n == Len(c)
           o == Overwritten(CuesAt, c)
<1>1. /\ step = "cues" /\ output' = o /\ entry' = CuesAt
      /\ UNCHANGED <<layout, index, stored>>
  BY DEF WriteCues, Kept
<1>2. entry = None /\ BodyEnd = Len(output)
  <2>1. entry = None
    BY <1>1 DEF WriterInv, CuesHold
  <2> QED BY <2>1 DEF BodyEnd
<1>3. /\ layout \in Layouts /\ IsSeq(output) /\ Len(output) \in Nat /\ n \in Nat \ {0} /\ IsSeq(c)
      /\ HeaderEnd <= Len(output) /\ HeaderEnd \in Nat
      /\ SlotAt \in Nat /\ layout.front \in Nat /\ HeaderEnd = SlotAt + layout.front
      /\ CuesAt \in Nat /\ (FitsFront => CuesAt = SlotAt /\ n <= layout.front)
      /\ (~FitsFront => CuesAt = Len(output))
  <2>1. /\ layout \in Layouts /\ IsSeq(output) /\ Len(output) \in Nat /\ n \in Nat \ {0} /\ IsSeq(c)
        /\ HeaderEnd <= Len(output)
    BY <1>1, <1>2, Sizes
  <2>2. SlotAt \in Nat /\ layout.front \in Nat /\ HeaderEnd = SlotAt + layout.front /\ HeaderEnd \in Nat
    BY <2>1, Offs
  <2>3. /\ FitsFront => CuesAt = SlotAt /\ n <= layout.front
        /\ ~FitsFront => CuesAt = Len(output)
    BY DEF CuesAt, FitsFront
  <2> QED BY <2>1, <2>2, <2>3
<1> HIDE DEF c
<1>4. /\ Len(o) = IF Len(output) >= CuesAt + n THEN Len(output) ELSE CuesAt + n
      /\ \A i \in 1 .. Len(o) : o[i] = IF i > CuesAt /\ i <= CuesAt + n THEN c[i - CuesAt] ELSE output[i]
  BY <1>3, OverwrittenIs
<1> HIDE DEF o, n
<1>5. FitsFront' = FitsFront
  BY <1>1, SameIndex
<1>6. BodyEnd' = BodyEnd
  <2>1. entry' # None
    BY <1>1, <1>3 DEF None
  <2>2. FitsFront => Len(output') = Len(output)
    BY <1>1, <1>3, <1>4
  <2> QED BY <1>1, <1>2, <1>3, <1>5, <2>1, <2>2 DEF BodyEnd
<1>7. \A i \in HeaderEnd + 1 .. BodyEnd : output'[i] = output[i]
  <2>1. ASSUME NEW i \in HeaderEnd + 1 .. Len(output)
        PROVE  o[i] = output[i]
    <3>1. i \in 1 .. Len(o) /\ ~(i > CuesAt /\ i <= CuesAt + n)
      BY <1>3, <1>4
    <3> QED BY <1>4, <3>1
  <2> QED BY <1>1, <1>2, <2>1
<1> QED BY <1>1, <1>6, <1>7, PacketsStay

\* A pair of cells was written behind the others.
LEMMA PairAdded ==
  ASSUME WriterInv, PacketsInv, step = "packets", step' = "packets", UNCHANGED <<layout, entry>>,
         NEW x, NEW y, output' = output \o (<<x>> \o <<y>>),
         NEW b, b = BodyEnd, ClusterPair(b)' \/ BlockPair(b)'
  PROVE  /\ BodyPairs' /\ Places' = Places /\ BodyEnd \in Places /\ BodyEnd' = BodyEnd + 2
         /\ \A p : IsStored(p) => IsStored(p)'
         /\ \A o \in Places : o < BodyEnd' => o < BodyEnd \/ o = BodyEnd
         /\ \A o \in Places : o < BodyEnd => output'[o + 1] = output[o + 1] /\ output'[o + 2] = output[o + 2]
<1>1. /\ Len(output') = Len(output) + 2 /\ BodyEnd = Len(output) /\ BodyEnd' = Len(output')
      /\ \A i \in 1 .. Len(output) : output'[i] = output[i]
  BY TwoMore
<1>2. /\ BodyEnd \in Nat /\ HeaderEnd \in Nat /\ HeaderEnd' = HeaderEnd /\ HeaderEnd <= BodyEnd
      /\ BodyEnd' = BodyEnd + 2
  BY <1>1, Sizes, Offs, SameLayout
<1>3. /\ Places' = Places
      /\ \A o \in Places : o < BodyEnd => ClusterPair(o)' \/ BlockPair(o)'
      /\ \A p : IsStored(p) => IsStored(p)'
  <2>1. \A i \in HeaderEnd + 1 .. BodyEnd : output'[i] = output[i]
    BY <1>1, <1>2
  <2>2. BodyEnd' \in Nat /\ BodyEnd <= BodyEnd'
    BY <1>2
  <2> QED BY <2>1, <2>2, PairsStay
<1>4. /\ BodyEnd \in Places /\ BodyEnd + 2 \in Places
      /\ \A o \in Places : o \in Nat /\ o + 1 # BodyEnd
      /\ \A o, c \in Places : o < c => o + 2 <= c
  BY <1>2, PlacesAre DEF PacketsInv, BodyPairs
<1>5. \A o \in Places : o < BodyEnd' => o < BodyEnd \/ o = BodyEnd
  <2> HIDE DEF BodyEnd, Places
  <2> QED BY <1>2, <1>4
<1>6. \A o \in Places : o < BodyEnd => output'[o + 1] = output[o + 1] /\ output'[o + 2] = output[o + 2]
  <2> HIDE DEF BodyEnd, Places
  <2> QED BY <1>1, <1>2, <1>4
<1>7. BodyPairs'
  <2>1. BodyEnd' \in Places'
    BY <1>2, <1>3, <1>4
  <2>2. ASSUME NEW o \in Places', o < BodyEnd'
        PROVE  ClusterPair(o)' \/ BlockPair(o)'
    <3>1. CASE o < BodyEnd
      BY <1>3, <2>2, <3>1
    <3>2. CASE o = BodyEnd
      <4>1. o = b
        BY <3>2
      <4> QED BY <4>1
    <3> QED BY <1>3, <1>5, <2>2, <3>1, <3>2
  <2> QED BY <2>1, <2>2 DEF BodyPairs
<1> QED BY <1>2, <1>3, <1>4, <1>5, <1>6, <1>7

\* A new Cluster: its Timestamp is that of its first packet.
LEMMA StartClusterKeepsPackets ==
  ASSUME WriterInv, PacketsInv, StartCluster
  PROVE  PacketsInv'
<1> DEFINE p == Head(left)
           x == [id |-> "Cluster", size |-> Unknown]
           y == [id |-> "Timecode", size |-> 0, v |-> p.pts]
<1>1. /\ step = "packets" /\ step' = "packets" /\ left # <<>>
      /\ output' = output \o (<<x>> \o <<y>>)
      /\ UNCHANGED <<layout, entry, stored>>
  BY DEF StartCluster, ClusterCells, Leaf
<1>2. p.pts \in Nat
  BY <1>1, NextPacketIs
<1> HIDE DEF p
<1>3. output'[BodyEnd + 1] = x /\ output'[BodyEnd + 2] = y
  <2> HIDE DEF x, y
  <2> QED BY <1>1, TwoMore
<1> PICK b : b = BodyEnd
  OBVIOUS
<1>4. ClusterPair(b)'
  BY <1>2, <1>3 DEF ClusterPair
<1> HIDE DEF x, y
<1>5. /\ BodyPairs' /\ Places' = Places /\ BodyEnd \in Places /\ BodyEnd' = BodyEnd + 2
      /\ \A q : IsStored(q) => IsStored(q)'
      /\ \A o \in Places : o < BodyEnd' => o < BodyEnd \/ o = BodyEnd
      /\ \A o \in Places : o < BodyEnd => output'[o + 1] = output[o + 1] /\ output'[o + 2] = output[o + 2]
  BY <1>1, <1>4, PairAdded
<1>6. \A i \in DOMAIN stored' : IsStored(stored[i])'
  <2> SUFFICES ASSUME NEW i \in DOMAIN stored PROVE IsStored(stored[i])'
    BY <1>1
  <2> PICK q : q = stored[i]
    OBVIOUS
  <2>1. IsStored(q)' /\ q = stored'[i]
    BY <1>1, <1>5 DEF PacketsInv, StoredHold
  <2> QED BY <2>1 DEF IsStored
<1>7. ASSUME NEW o \in Places', o < BodyEnd', output'[o + 1].id = "SimpleBlock"
      PROVE  \E i \in DOMAIN stored' : stored'[i].at = o
  <2>1. o # BodyEnd
    BY <1>3, <1>7 DEF x
  <2>2. o \in Places /\ o < BodyEnd
    BY <1>5, <1>7, <2>1
  <2>3. output[o + 1].id = "SimpleBlock"
    BY <1>5, <1>7, <2>2
  <2> QED BY <1>1, <2>2, <2>3 DEF PacketsInv, StoredHold
<1>8. StoredHold'
  <2>1. \A i, j \in DOMAIN stored' : i < j => stored'[i].at < stored'[j].at
    BY <1>1 DEF PacketsInv, StoredHold
  <2> HIDE DEF BodyEnd, Places
  <2> QED BY <1>6, <1>7, <2>1 DEF StoredHold
<1> QED BY <1>5, <1>8 DEF PacketsInv

\* A sequence with one more element.
LEMMA OneMoreIs ==
  ASSUME NEW S, NEW s \in Seq(S), NEW q
  PROVE  LET t == Append(s, q) IN
         /\ t \in Seq(Range(t)) /\ Len(t) = Len(s) + 1 /\ DOMAIN t = 1 .. Len(s) + 1
         /\ \A i \in 1 .. Len(s) : t[i] = s[i]
         /\ t[Len(s) + 1] = q
<1> DEFINE T == S \cup {q}
           t == Append(s, q)
<1>1. s \in Seq(T) /\ q \in T /\ Len(s) \in Nat
  OBVIOUS
<1> HIDE DEF T
<1>2. /\ t \in Seq(T) /\ Len(t) = Len(s) + 1 /\ DOMAIN t = 1 .. Len(s) + 1
      /\ \A i \in 1 .. Len(s) : t[i] = s[i]
      /\ t[Len(s) + 1] = q
  BY <1>1
<1> HIDE DEF t
<1>3. t \in Seq(Range(t))
  BY <1>2 DEF Range
<1> QED BY <1>2, <1>3 DEF t

\* A Block: the packet it carries comes back from it.
LEMMA WriteBlockKeepsPackets ==
  ASSUME WriterInv, PacketsInv, WriteBlock
  PROVE  PacketsInv'
<1> DEFINE p == Head(left)
           x == [id |-> "SimpleBlock", size |-> 1, track |-> p.track, off |-> p.pts - cluster.tc,
                 key |-> p.indexable, frames |-> 1, defect |-> "None"]
           y == NoElement
           new == [stream |-> p.stream, at |-> Len(output), frame |-> 1, pts |-> p.pts, duration |-> None, key |-> TRUE]
<1>1. /\ step = "packets" /\ step' = "packets" /\ left # <<>> /\ cluster.off # None /\ p.pts >= cluster.tc
      /\ output' = output \o (<<x>> \o <<y>>)
      /\ stored' = Append(stored, new)
      /\ UNCHANGED <<layout, entry>>
  BY DEF WriteBlock, BlockCells, Bytes
<1>2. /\ p.pts \in Nat /\ p \in Range(Recording) /\ p.stream = TrackIndex[p.track]
      /\ Len(stored) \in Nat /\ stored \in Seq(Range(stored))
      /\ \E off \in Nat, tc \in Nat, n \in Nat :
           off = cluster.off /\ tc = cluster.tc /\ HoldsBlocks(off, tc, n) /\ off + 2 + 2 * n = BodyEnd
  <2>1. p.pts \in Nat /\ p \in Range(Recording)
    BY <1>1, NextPacketIs
  <2>2. p.stream = TrackIndex[p.track]
    BY <2>1, RecoveryAssumption
  <2>3. /\ cluster.off \in Nat /\ cluster.tc \in Nat /\ cluster.blocks \in Nat
        /\ HoldsBlocks(cluster.off, cluster.tc, cluster.blocks) /\ cluster.off + 2 + 2 * cluster.blocks = BodyEnd
    BY <1>1 DEF WriterInv, WriterShape, ClusterHolds
  <2> QED BY <2>1, <2>2, <2>3, Sizes DEF WriterInv, WriterShape
<1> PICK off \in Nat, tc \in Nat, n \in Nat :
      off = cluster.off /\ tc = cluster.tc /\ HoldsBlocks(off, tc, n) /\ off + 2 + 2 * n = BodyEnd
  BY <1>2
<1>x. /\ x.id = "SimpleBlock" /\ x.size = 1 /\ x.frames = 1 /\ x.defect = "None"
      /\ x.off \in Nat /\ x.track = p.track /\ tc + x.off = p.pts
  <2>1. x.id = "SimpleBlock" /\ x.size = 1 /\ x.frames = 1 /\ x.defect = "None" /\ x.track = p.track
    OBVIOUS
  <2>2. x.off = p.pts - tc
    OBVIOUS
  <2>3. p.pts \in Nat /\ p.pts >= tc
    BY <1>1, <1>2
  <2> HIDE DEF x, p
  <2> QED BY <2>1, <2>2, <2>3
<1> HIDE DEF p, x, y
<1>3. output'[BodyEnd + 1] = x /\ output'[BodyEnd + 2] = y /\ BodyEnd = Len(output)
  BY <1>1, TwoMore
<1> PICK b : b = BodyEnd
  OBVIOUS
<1>b. b \in Nat /\ HeaderEnd \in Nat /\ off + 2 + 2 * n = b /\ HeaderEnd <= off
  BY Sizes, Offs DEF HoldsBlocks
<1>h. /\ output[off + 1].id = "Cluster" /\ output[off + 2].v = tc
      /\ \A j \in 1 .. n : output[off + 2 * j + 1].id = "SimpleBlock"
  BY DEF HoldsBlocks
<1>4. BlockPair(b)'
  BY <1>2, <1>3, <1>x DEF BlockPair, y
<1>5. /\ BodyPairs' /\ Places' = Places /\ b \in Places /\ BodyEnd' = b + 2
      /\ \A q : IsStored(q) => IsStored(q)'
      /\ \A o \in Places : o < BodyEnd' => o < b \/ o = b
      /\ \A o \in Places : o < b => output'[o + 1] = output[o + 1] /\ output'[o + 2] = output[o + 2]
  BY <1>1, <1>4, PairAdded
<1>6. /\ HeaderEnd \in Nat /\ off \in Places /\ off < b /\ b \in Nat
      /\ \A o, c \in Places : o < c => o + 2 <= c
      /\ \A o \in Places : o \in Nat
  <2>1. off + 2 * (n + 1) = b
    BY <1>b
  <2>2. n + 1 \in Nat /\ off + 2 * (n + 1) \in Places
    BY <1>5, <2>1
  <2>3. off \in Places
    BY <1>b, <2>2, PlaceBefore
  <2>4. off < b
    BY <1>b
  <2> QED BY <1>b, <2>3, <2>4, PlacesAre
\* The open Cluster governs what is written behind it.
<1>7. Governs(off, b)'
  <2>1. output'[off + 1].id = "Cluster"
    BY <1>h, <1>5, <1>6
  <2>2. ASSUME NEW o \in Places, off < o, o < b
        PROVE  output'[o + 1].id = "SimpleBlock"
    <3>1. PICK j \in 1 .. n : o = off + 2 * j
      <4>1. \E m \in Nat : b = o + 2 * m
        <5>1. PICK h \in Nat : h = HeaderEnd
          BY <1>6
        <5>2. \A z : z \in Places <=> \E l \in Nat : z = h + 2 * l
          BY <5>1 DEF Places
        <5> HIDE DEF Places
        <5>3. PICK l \in Nat : o = h + 2 * l
          BY <5>2
        <5>4. PICK m \in Nat : b = h + 2 * m
          BY <1>5, <5>2
        <5>5. b = o + 2 * (m - l) /\ m - l \in Nat
          BY <2>2, <5>3, <5>4
        <5> QED BY <5>5
      <4>2. PICK m \in Nat : b = o + 2 * m
        BY <4>1
      <4>3. n + 1 - m \in 1 .. n /\ o = off + 2 * (n + 1 - m)
        BY <1>b, <1>6, <2>2, <4>2
      <4> QED BY <4>3
    <3>2. output[off + 2 * j + 1].id = "SimpleBlock"
      BY <1>h
    <3>3. output[o + 1].id = "SimpleBlock"
      BY <3>1, <3>2
    <3> QED BY <1>5, <2>2, <3>3
  <2> QED BY <1>5, <1>6, <2>1, <2>2 DEF Governs
<1>8. new = PacketAt(b, off)'
  <2>1. output'[off + 2].v = tc
    BY <1>h, <1>5, <1>6
  <2>2. output'[b + 1] = x
    BY <1>3
  <2> QED BY <1>2, <1>3, <1>x, <2>1, <2>2 DEF PacketAt
<1> PICK q : q = new
  OBVIOUS
<1>9. IsStored(q)' /\ q.at = b
  <2>1. output'[b + 1].id = "SimpleBlock"
    BY <1>3, <1>x
  <2>2. q.at = b /\ b < BodyEnd'
    BY <1>3, <1>5, <1>b
  <2>3. q = PacketAt(b, off)'
    BY <1>8
  <2> QED BY <1>5, <1>6, <1>7, <2>1, <2>2, <2>3 DEF IsStored, PacketAt
<1> HIDE DEF new
<1>10. /\ stored' \in Seq(Range(stored')) /\ Len(stored') = Len(stored) + 1
       /\ \A i \in 1 .. Len(stored) : stored'[i] = stored[i]
       /\ stored'[Len(stored) + 1] = q
       /\ DOMAIN stored = 1 .. Len(stored) /\ DOMAIN stored' = 1 .. Len(stored) + 1
  <2>1. stored' = Append(stored, q) /\ DOMAIN stored = 1 .. Len(stored)
    BY <1>1, <1>2
  <2> DEFINE t == Append(stored, q)
  <2>2. stored \in Seq(Range(stored))
    BY <1>2
  <2>3. /\ t \in Seq(Range(t)) /\ Len(t) = Len(stored) + 1 /\ DOMAIN t = 1 .. Len(stored) + 1
        /\ \A i \in 1 .. Len(stored) : t[i] = stored[i]
        /\ t[Len(stored) + 1] = q
    BY <2>2, OneMoreIs
  <2>4. stored' = t
    BY <2>1
  <2> HIDE DEF t
  <2> QED BY <2>1, <2>3, <2>4
<1>11. ASSUME NEW i \in 1 .. Len(stored)
       PROVE  \E r : r = stored[i] /\ r = stored'[i] /\ IsStored(r)' /\ r.at < b
  <2> PICK r : r = stored[i]
    OBVIOUS
  <2>1. IsStored(r) /\ stored'[i] = r
    BY <1>10 DEF PacketsInv, StoredHold
  <2>2. IsStored(r)' /\ r.at < b
    BY <1>5, <2>1 DEF IsStored
  <2> QED BY <2>1, <2>2
<1>12. StoredHold'
  <2>1. ASSUME NEW i \in DOMAIN stored'
        PROVE  IsStored(stored[i])'
    <3>1. CASE i = Len(stored) + 1
      BY <1>9, <1>10, <3>1 DEF IsStored
    <3>2. CASE i # Len(stored) + 1
      <4>1. i \in 1 .. Len(stored)
        BY <1>2, <1>10, <2>1, <3>2
      <4>2. PICK r : r = stored'[i] /\ IsStored(r)'
        BY <1>11, <4>1
      <4> QED BY <4>2 DEF IsStored
    <3> QED BY <3>1, <3>2
  <2>2. ASSUME NEW i \in DOMAIN stored', NEW j \in DOMAIN stored', i < j
        PROVE  stored'[i].at < stored'[j].at
    <3>1. i \in 1 .. Len(stored)
      BY <1>2, <1>10, <2>2
    <3>2. CASE j = Len(stored) + 1
      BY <1>9, <1>10, <1>11, <3>1, <3>2
    <3>3. CASE j # Len(stored) + 1
      <4>1. j \in 1 .. Len(stored)
        BY <1>2, <1>10, <2>2, <3>3
      <4>2. stored[i].at < stored[j].at
        BY <1>10, <2>2, <3>1, <4>1 DEF PacketsInv, StoredHold
      <4> QED BY <1>11, <3>1, <4>1, <4>2
    <3> QED BY <3>2, <3>3
  <2>3. ASSUME NEW o \in Places', o < BodyEnd', output'[o + 1].id = "SimpleBlock"
        PROVE  \E i \in DOMAIN stored' : stored'[i].at = o
    <3>1. CASE o = b
      <4>1. Len(stored) + 1 \in DOMAIN stored'
        BY <1>2, <1>10
      <4> QED BY <1>9, <1>10, <3>1, <4>1
    <3>2. CASE o # b
      <4>1. o \in Places /\ o < b
        BY <1>5, <2>3, <3>2
      <4>2. output[o + 1].id = "SimpleBlock"
        BY <1>5, <2>3, <4>1
      <4>3. PICK i \in DOMAIN stored : stored[i].at = o
        BY <1>1, <4>1, <4>2 DEF PacketsInv, StoredHold
      <4>4. i \in DOMAIN stored' /\ stored'[i] = stored[i]
        BY <1>2, <1>10
      <4> QED BY <4>3, <4>4
    <3> QED BY <3>1, <3>2
  <2> HIDE DEF BodyEnd, Places
  <2> QED BY <2>1, <2>2, <2>3 DEF StoredHold
<1> QED BY <1>5, <1>12 DEF PacketsInv

\* The header: there are no packets yet.
LEMMA WriteHeaderKeepsPackets ==
  ASSUME WriterInv, PacketsInv, WriteHeader
  PROVE  PacketsInv'
<1>1. /\ step = "header" /\ step' = "packets" /\ output' = HeaderCells
      /\ UNCHANGED <<layout, index, entry, stored>>
  BY DEF WriteHeader
<1>2. entry = None /\ stored = <<>> /\ layout \in Layouts
  BY <1>1, Sizes DEF WriterInv, WriterShape, CuesHold
<1>3. HeaderEnd \in Nat /\ HeaderEnd' = HeaderEnd
  BY <1>1, <1>2, Offs, SameLayout
<1>4. BodyEnd' = HeaderEnd' /\ HeaderEnd' \in Places'
  <2>1. BodyEnd' = HeaderEnd'
    BY <1>1, <1>2, SameLayout DEF BodyEnd, HeaderEnd
  <2>2. HeaderEnd' \in Nat
    BY <1>3
  <2>3. ASSUME NEW h \in Nat PROVE h = h + 2 * 0
    OBVIOUS
  <2>4. HeaderEnd' = HeaderEnd' + 2 * 0
    <3> HIDE DEF HeaderEnd
    <3> QED BY <2>2, <2>3
  <2> HIDE DEF HeaderEnd
  <2> QED BY <2>1, <2>4 DEF Places
<1>5. \A o \in Places' : ~(o < BodyEnd')
  <2>1. Places' = Places
    BY <1>3 DEF Places
  <2> HIDE DEF HeaderEnd, Places, BodyEnd
  <2> QED BY <1>3, <1>4, <2>1, PlacesAre
<1> HIDE DEF Places, BodyEnd, HeaderEnd
<1>6. BodyPairs'
  BY <1>4, <1>5 DEF BodyPairs
<1>7. StoredHold'
  BY <1>1, <1>2, <1>5 DEF StoredHold
<1> QED BY <1>6, <1>7 DEF PacketsInv

\* Every step of the writer keeps what is said of the packets.
LEMMA WriteKeepsPackets ==
  ASSUME WriterInv, PacketsInv, Write
  PROVE  PacketsInv'
BY WriteHeaderKeepsPackets, StartClusterKeepsPackets, WriteBlockKeepsPackets, WriteCuesKeepsPackets,
   TrailerKeepsPackets DEF Write

\* The reader does not touch them.
LEMMA PacketsRest ==
  ASSUME WriterInv, PacketsInv, UNCHANGED writer
  PROVE  PacketsInv'
<1>1. UNCHANGED <<output, layout, step, left, cluster, index, entry, maxEnd, stored>>
  BY DEF writer
<1>2. BodyEnd' = BodyEnd /\ HeaderEnd' = HeaderEnd
  BY <1>1, SameLayout, SameIndex DEF BodyEnd
<1>3. CASE step # "header"
  BY <1>1, <1>2, <1>3, PacketsStay
<1>4. CASE step = "header"
  <2>1. stored = <<>>
    BY <1>4 DEF WriterInv, WriterShape
  <2> QED BY <1>1, <1>4, <2>1 DEF PacketsInv, BodyPairs, StoredHold
<1> QED BY <1>3, <1>4

\* An empty output holds none.
LEMMA PacketsStart ==
  ASSUME step = "header", stored = <<>>
  PROVE  PacketsInv
BY DEF PacketsInv, BodyPairs, StoredHold

-----------------------------------------------------------------------------
(* What a crash leaves of them.                                            *)

\* In front of the Clusters nothing looks like one or like a Block, and every
\* element ends there.
FrontCell(h, o) ==
  /\ h.id \notin {"Cluster", "SimpleBlock", "BlockGroup"}
  /\ h.size \in Nat /\ o + 1 + h.size <= HeaderEnd

\* It is enough to know that of an empty element.
LEMMA LeafFront ==
  ASSUME HeaderEnd \in Nat, NEW o \in Nat, o < HeaderEnd, NEW h, h.size = 0,
         h.id \in {"Item", "Void", "Crc", "Bad", "Duration"}
  PROVE  FrontCell(h, o)
<1> HIDE DEF HeaderEnd
<1>1. o + 1 + h.size <= HeaderEnd
  OBVIOUS
<1> QED BY <1>1 DEF FrontCell

\* The header in front of the slot.
LEMMA HeaderFront ==
  ASSUME layout \in Layouts, NEW o \in 0 .. SlotAt - 1
  PROVE  FrontCell(HeaderCells[o + 1], o) /\ FrontCell(HeaderNow(o), o)
<1> DEFINE h == HeaderCells[o + 1]
<1>0. HeaderEnd \in Nat /\ SlotAt \in Nat /\ HeaderEnd = SlotAt + layout.front /\ layout.front \in Nat
  BY Offs
<1>1. /\ Checks \in {0, 1} /\ InfoItems \in {1, 2} /\ (~layout.strict => Checks = 1)
      /\ (layout.finalize => InfoItems = 2) /\ (layout.strict => Checks = 0)
      /\ (~layout.finalize => InfoItems = 1)
      /\ layout.live \in BOOLEAN /\ layout.strict \in BOOLEAN /\ layout.finalize \in BOOLEAN
  BY LayoutIs DEF Checks, InfoItems
<1>2. InfoAt \in Nat /\ TracksAt = InfoAt + 1 + Checks + InfoItems /\ SlotAt = TracksAt + 2 + Checks
      /\ (~layout.live => InfoAt = 5) /\ (layout.live => InfoAt = 0)
  BY HeaderCellsAre DEF InfoAt, Offsets
<1>3. o \in Nat /\ o < HeaderEnd
  <2> HIDE DEF HeaderEnd, SlotAt
  <2> QED BY <1>0
<1>4. FrontCell(h, o)
  <2>1. CASE o < InfoAt
    <3>1. ~layout.live /\ o \in 0 .. 4
      BY <1>1, <1>2, <2>1
    <3>2. h = SeekHeadOf(TracksAt)[o + 1]
      <4>1. \A i \in 1 .. 5 : HeaderCells[i] = SeekHeadOf(TracksAt)[i]
        BY <3>1, HeaderCellsAre
      <4> QED BY <3>1, <4>1
    <3>3. \/ o = 0 /\ h = [id |-> "SeekHead", size |-> 4]
          \/ h = Patchable
          \/ \E v : h = Item(v)
      <4> DEFINE t == SeekHeadOf(TracksAt)
      <4>1. o = 0 \/ o = 1 \/ o = 2 \/ o = 3 \/ o = 4
        BY <3>1
      <4>2. /\ t[1] = [id |-> "SeekHead", size |-> 4] /\ t[4] = Patchable
            /\ t[2] = Item([id |-> "Info", at |-> 5]) /\ t[3] = Item([id |-> "Tracks", at |-> TracksAt])
            /\ t[5] = Item([id |-> "Cues", at |-> 0])
        BY SeekHeadIs
      <4> HIDE DEF t, h
      <4>3. h = t[o + 1]
        BY <3>2 DEF t
      <4>4. o = 0 \/ h = t[2] \/ h = t[3] \/ h = t[4] \/ h = t[5]
        BY <4>1, <4>3
      <4> QED BY <4>2, <4>3, <4>4
    <3> HIDE DEF h
    <3>4. CASE o = 0 /\ h = [id |-> "SeekHead", size |-> 4]
      <4>1. 5 <= HeaderEnd
        <5> HIDE DEF HeaderEnd, SlotAt, TracksAt
        <5> QED BY <1>0, <1>1, <1>2, <3>1
      <4> HIDE DEF HeaderEnd
      <4> QED BY <1>0, <3>4, <4>1 DEF FrontCell
    <3>5. CASE h = Patchable \/ \E v : h = Item(v)
      <4>1. h.id \in {"Item", "Void"} /\ h.size = 0
        BY <3>5 DEF Patchable, Item
      <4> QED BY <1>0, <1>3, <4>1, LeafFront
    <3> QED BY <3>3, <3>4, <3>5
  <2>2. CASE o = InfoAt
    <3>1. h = [id |-> "Info", size |-> InfoItems + Checks]
      BY <2>2, HeaderCellsAre
    <3>2. o + 1 + (InfoItems + Checks) <= HeaderEnd /\ InfoItems + Checks \in Nat
      <4> HIDE DEF HeaderEnd, SlotAt, TracksAt, InfoAt
      <4> QED BY <1>0, <1>1, <1>2, <2>2
    <3> HIDE DEF h, HeaderEnd
    <3> QED BY <3>1, <3>2 DEF FrontCell
  <2>3. CASE o > InfoAt /\ o < TracksAt
    <3>1. \/ ~layout.strict /\ o + 1 = InfoAt + 2
          \/ layout.finalize /\ o + 1 = InfoAt + 2 + Checks
          \/ o + 1 = TracksAt
      BY <1>1, <1>2, <2>3
    <3>2. h = Crc(InfoBody) \/ h = Patchable \/ h = Item("encoder")
      BY <3>1, HeaderCellsAre
    <3> HIDE DEF h
    <3>3. h.id \in {"Item", "Void", "Crc"} /\ h.size = 0
      BY <3>2 DEF Crc, Patchable, Item
    <3> QED BY <1>0, <1>3, <3>3, LeafFront
  <2>4. CASE o = TracksAt
    <3>1. h = [id |-> "Tracks", size |-> 1 + Checks]
      BY <2>4, HeaderCellsAre
    <3>2. o + 1 + (1 + Checks) <= HeaderEnd /\ 1 + Checks \in Nat
      <4> HIDE DEF HeaderEnd, SlotAt, TracksAt
      <4> QED BY <1>0, <1>1, <1>2, <2>4
    <3> HIDE DEF h, HeaderEnd
    <3> QED BY <3>1, <3>2 DEF FrontCell
  <2>5. CASE o > TracksAt
    <3>1. \/ ~layout.strict /\ o + 1 = TracksAt + 2
          \/ o + 1 = SlotAt
      BY <1>1, <1>2, <2>5
    <3>2. h = Crc(Leaf("Item", "tracks")) \/ h = Item("tracks")
      BY <3>1, HeaderCellsAre
    <3> HIDE DEF h
    <3>3. h.id \in {"Item", "Void", "Crc"} /\ h.size = 0
      BY <3>2 DEF Crc, Item
    <3> QED BY <1>0, <1>3, <3>3, LeafFront
  <2> QED BY <1>1, <1>2, <2>1, <2>2, <2>3, <2>4, <2>5
<1> HIDE DEF h
<1>5. CASE HeaderNow(o) = h
  BY <1>4, <1>5 DEF h
<1>6. CASE HeaderNow(o) # h
  <2> DEFINE c == HeaderNow(o)
  <2>1. \/ c = Patchable \/ c = [id |-> "Item", size |-> 0, v |-> [id |-> "Cues", at |-> entry]]
        \/ c = [id |-> "Duration", size |-> 0, v |-> maxEnd]
        \/ c = [id |-> "Crc", size |-> 0, v |-> PatchedInfoBody]
    <3>1. CASE (SeekPatched /\ o = Offsets.Cues) \/ (DurationPatched /\ o = DurationAt) \/ (CrcPatched /\ o = CrcAt)
      BY <3>1 DEF HeaderNow
    <3>2. CASE ~((SeekPatched /\ o = Offsets.Cues) \/ (DurationPatched /\ o = DurationAt) \/ (CrcPatched /\ o = CrcAt))
      <4>1. HeaderNow(o) = HeaderCells[o + 1]
        BY <3>2 DEF HeaderNow
      <4> QED BY <1>6, <4>1 DEF h
    <3> QED BY <3>1, <3>2
  <2> HIDE DEF c
  <2>2. c.id \in {"Item", "Void", "Crc", "Duration"} /\ c.size = 0
    BY <2>1 DEF Patchable
  <2>3. FrontCell(c, o)
    BY <1>0, <1>3, <2>2, LeafFront
  <2> QED BY <1>4, <2>3 DEF c, h
<1> QED BY <1>5, <1>6

\* A Void at `at' that ends in front of the Clusters, and the Cues there.
LEMMA VoidFront ==
  ASSUME layout \in Layouts, NEW n \in Nat, NEW at \in Nat, at + n <= HeaderEnd, NEW i \in 1 .. n
  PROVE  FrontCell(VoidOf(n)[i], at + i - 1)
<1> DEFINE h == VoidOf(n)[i]
           o == at + i - 1
<1>0. HeaderEnd \in Nat
  BY Offs
<1>1. o \in Nat /\ o < HeaderEnd
  <2> HIDE DEF HeaderEnd
  <2> QED BY <1>0
<1>2. CASE i = 1
  <2>1. h = [id |-> "Void", size |-> n - 1]
    BY <1>2, VoidIs
  <2>2. o + 1 + (n - 1) <= HeaderEnd /\ n - 1 \in Nat
    <3> HIDE DEF HeaderEnd
    <3> QED BY <1>0, <1>2
  <2> HIDE DEF h, o, HeaderEnd
  <2>3. FrontCell(h, o)
    BY <2>1, <2>2 DEF FrontCell
  <2> QED BY <2>3 DEF h, o
<1>3. CASE i # 1
  <2>1. h.size = 0 /\ h.id = "Bad"
    BY <1>3, VoidCellIs DEF NoElement
  <2> HIDE DEF h, o
  <2>2. FrontCell(h, o)
    BY <1>0, <1>1, <2>1, LeafFront
  <2> QED BY <2>2 DEF h, o
<1> QED BY <1>2, <1>3

\* Cues that fit in front of the Clusters.
LEMMA CuesFront ==
  ASSUME layout \in Layouts, index \in Seq(Range(index)), NEW at \in Nat, at + Len(CuesElement) <= HeaderEnd,
         NEW i \in 1 .. Len(CuesElement)
  PROVE  FrontCell(CuesElement[i], at + i - 1)
<1> DEFINE h == CuesElement[i]
           o == at + i - 1
<1>0. HeaderEnd \in Nat
  BY Offs
<1>1. /\ Len(CuesElement) = Len(index) + 1 + Checks /\ Len(CuesElement) \in Nat /\ Len(index) \in Nat
      /\ CuesElement[1] = [id |-> "Cues", size |-> Len(index) + Checks]
      /\ ~layout.strict => CuesElement[2] = Crc(CueItems)
      /\ \A j \in Checks + 2 .. Len(index) + 1 + Checks : CuesElement[j] = Item(index[j - 1 - Checks])
  BY CuesElementIs
<1>2. Checks \in {0, 1} /\ (layout.strict => Checks = 0) /\ (~layout.strict => Checks = 1)
  BY DEF Checks
<1>3. o \in Nat /\ o < HeaderEnd
  <2> HIDE DEF HeaderEnd
  <2> QED BY <1>0, <1>1
<1>4. CASE i = 1
  <2>1. h = [id |-> "Cues", size |-> Len(index) + Checks]
    BY <1>1, <1>4
  <2>2. o + 1 + (Len(index) + Checks) <= HeaderEnd /\ Len(index) + Checks \in Nat
    <3> HIDE DEF HeaderEnd
    <3> QED BY <1>0, <1>1, <1>2, <1>4
  <2> HIDE DEF h, o, HeaderEnd
  <2>3. FrontCell(h, o)
    BY <2>1, <2>2 DEF FrontCell
  <2> QED BY <2>3 DEF h, o
<1>5. CASE i # 1
  <2>1. (i = 2 /\ ~layout.strict) \/ i \in Checks + 2 .. Len(index) + 1 + Checks
    BY <1>1, <1>2, <1>5
  <2>2. h = Crc(CueItems) \/ \E v : h = Item(v)
    BY <1>1, <2>1
  <2> HIDE DEF h, o
  <2>3. h.size = 0 /\ h.id \in {"Item", "Crc"}
    BY <2>2 DEF Crc, Item
  <2>4. FrontCell(h, o)
    BY <1>0, <1>3, <2>3, LeafFront
  <2> QED BY <2>4 DEF h, o
<1> QED BY <1>4, <1>5

\* What is left in front of the Clusters.
LEMMA OutputFront ==
  ASSUME WriterInv, step # "header", NEW o \in 0 .. HeaderEnd - 1
  PROVE  FrontCell(output[o + 1], o)
<1>1. /\ layout \in Layouts /\ index \in Seq(Range(index)) /\ Len(CuesElement) \in Nat
  BY Sizes DEF WriterInv, WriterShape
<1>2. SlotAt \in Nat /\ layout.front \in Nat /\ HeaderEnd = SlotAt + layout.front /\ HeaderEnd \in Nat
  BY <1>1, Offs
<1>3. CASE o < SlotAt
  <2>1. o \in 0 .. SlotAt - 1
    BY <1>2, <1>3
  <2>2. output[o + 1] = HeaderNow(o)
    BY <2>1 DEF WriterInv, HeaderHolds
  <2> QED BY <1>1, <2>1, <2>2, HeaderFront
<1>4. CASE o >= SlotAt
  <2> DEFINE i == o - SlotAt + 1
             e == Len(CuesElement)
  <2>1. i \in 1 .. layout.front /\ SlotAt + i = o + 1 /\ SlotAt + i - 1 = o /\ o \in Nat /\ o < HeaderEnd
    <3> HIDE DEF HeaderEnd, SlotAt
    <3> QED BY <1>2, <1>4
  <2> HIDE DEF i
  <2>2. output[SlotAt + i] = SlotNow(i)
    BY <2>1 DEF WriterInv, SlotHolds
  <2>3. CASE ~InSlot
    <3>1. SlotNow(i) = VoidOf(layout.front)[i]
      BY <2>3 DEF SlotNow
    <3>2. FrontCell(VoidOf(layout.front)[i], SlotAt + i - 1)
      <4> SlotAt + layout.front <= HeaderEnd
        BY <1>2
      <4> HIDE DEF HeaderEnd, SlotAt
      <4> QED BY <1>1, <1>2, <2>1, VoidFront
    <3> QED BY <2>1, <2>2, <3>1, <3>2
  <2>4. CASE InSlot /\ i <= e
    <3>1. SlotNow(i) = CuesElement[i] /\ i \in 1 .. e
      BY <2>1, <2>4 DEF SlotNow
    <3>2. SlotAt + e <= HeaderEnd
      <4>1. e <= layout.front
        BY <2>4 DEF InSlot, FitsFront
      <4> HIDE DEF HeaderEnd, SlotAt, e
      <4> QED BY <1>1, <1>2, <4>1 DEF e
    <3>3. FrontCell(CuesElement[i], SlotAt + i - 1)
      <4> HIDE DEF HeaderEnd, SlotAt
      <4> QED BY <1>1, <1>2, <3>1, <3>2, CuesFront
    <3> QED BY <2>1, <2>2, <3>1, <3>3
  <2>5. CASE InSlot /\ i > e
    <3> DEFINE r == RestOfSlot
               j == i - e
               at == SlotAt + e
    <3>1. SlotNow(i) = IF step = "rest" THEN NoElement ELSE VoidOf(r)[j]
      BY <1>1, <2>1, <2>5 DEF SlotNow
    <3>2. r \in Nat /\ at \in Nat /\ at + r <= HeaderEnd /\ j \in 1 .. r /\ at + j - 1 = o
      <4>1. r = layout.front - e /\ e <= layout.front /\ e \in Nat
        BY <1>1, <2>5 DEF InSlot, FitsFront, RestOfSlot
      <4> HIDE DEF HeaderEnd, SlotAt, e, r
      <4> QED BY <1>2, <2>1, <2>5, <4>1
    <3> HIDE DEF r, j, at
    <3>3. CASE step = "rest"
      <4>1. FrontCell(NoElement, o)
        BY <1>2, <2>1, LeafFront DEF NoElement
      <4> QED BY <2>1, <2>2, <3>1, <3>3, <4>1
    <3>4. CASE step # "rest"
      <4>1. FrontCell(VoidOf(r)[j], at + j - 1)
        BY <1>1, <3>2, VoidFront
      <4> QED BY <2>1, <2>2, <3>1, <3>2, <3>4, <4>1
    <3> QED BY <3>3, <3>4
  <2>6. i \in Nat /\ e \in Nat
    BY <1>1, <2>1
  <2> HIDE DEF e
  <2> QED BY <2>3, <2>4, <2>5, <2>6
<1> HIDE DEF SlotAt
<1> QED BY <1>2, <1>3, <1>4

\* What is being written in front of the Clusters.
LEMMA WrittenFront ==
  ASSUME WriterInv, NEW w \in InProgress, NEW i \in 1 .. Len(w.cells), w.at + i - 1 < HeaderEnd
  PROVE  FrontCell(w.cells[i], w.at + i - 1)
<1>1. /\ layout \in Layouts /\ index \in Seq(Range(index)) /\ Len(CuesElement) \in Nat /\ step \in Steps
      /\ Len(output) \in Nat /\ (step # "header" => HeaderEnd <= Len(output))
  <2>1. BodyEnd \in Nat /\ Len(output) \in Nat /\ Len(CuesElement) \in Nat
        /\ (step # "header" => HeaderEnd <= BodyEnd /\ BodyEnd <= Len(output))
    BY Sizes
  <2>2. layout \in Layouts /\ index \in Seq(Range(index)) /\ step \in Steps
    BY DEF WriterInv, WriterShape
  <2>3. HeaderEnd \in Nat
    BY <2>2, Offs
  <2> HIDE DEF BodyEnd, HeaderEnd
  <2> QED BY <2>1, <2>2, <2>3
<1>2. SlotAt \in Nat /\ layout.front \in Nat /\ HeaderEnd = SlotAt + layout.front /\ HeaderEnd = Len(HeaderCells)
      /\ HeaderEnd \in Nat
  BY <1>1, Offs DEF HeaderEnd
<1>w. w.at \in Nat /\ Len(w.cells) \in Nat
  BY WriteIs
<1> DEFINE o == w.at + i - 1
<1>3. CASE step = "header"
  <2>1. w.at = 0 /\ w.cells = HeaderCells
    BY <1>3, WriteIs
  <2>2. o \in Nat /\ o + 1 = i /\ i <= HeaderEnd /\ i \in Nat /\ i >= 1
    <3> HIDE DEF HeaderEnd
    <3> QED BY <1>2, <2>1
  <2> HIDE DEF o
  <2>3. CASE o < SlotAt
    <3>1. o \in 0 .. SlotAt - 1
      BY <1>2, <2>2, <2>3
    <3> QED BY <1>1, <2>1, <2>2, <3>1, HeaderFront DEF o
  <2>4. CASE o >= SlotAt
    <3> DEFINE j == i - SlotAt
    <3>1. j \in 1 .. layout.front /\ SlotAt + j = i /\ SlotAt + j - 1 = o
      <4> HIDE DEF HeaderEnd, SlotAt
      <4> QED BY <1>2, <2>2, <2>4
    <3>2. HeaderCells[i] = VoidOf(layout.front)[j]
      <4>1. \A l \in 1 .. layout.front : HeaderCells[SlotAt + l] = VoidOf(layout.front)[l]
        BY <1>1, HeaderCellsAre
      <4> QED BY <2>2, <3>1, <4>1
    <3> HIDE DEF j
    <3>3. FrontCell(VoidOf(layout.front)[j], SlotAt + j - 1)
      <4> SlotAt + layout.front <= HeaderEnd
        BY <1>2
      <4> HIDE DEF HeaderEnd, SlotAt
      <4> QED BY <1>1, <1>2, <3>1, VoidFront
    <3> QED BY <2>1, <3>1, <3>2, <3>3 DEF o
  <2> HIDE DEF SlotAt
  <2> QED BY <1>2, <2>2, <2>3, <2>4
<1>4. CASE step = "packets"
  <2>1. w.at = Len(output)
    BY <1>4, WriteIs
  <2> HIDE DEF HeaderEnd
  <2> QED BY <1>1, <1>2, <1>4, <2>1
<1>5. CASE step = "cues"
  <2>1. w.at = CuesAt /\ w.cells = CuesElement
    BY <1>5, WriteIs
  <2>2. CASE FitsFront
    <3>1. w.at = SlotAt /\ Len(CuesElement) <= layout.front
      BY <2>1, <2>2 DEF CuesAt, FitsFront
    <3>2. SlotAt + Len(CuesElement) <= HeaderEnd
      <4> HIDE DEF HeaderEnd, SlotAt
      <4> QED BY <1>1, <1>2, <3>1
    <3>3. i \in 1 .. Len(CuesElement)
      BY <2>1
    <3>4. FrontCell(CuesElement[i], SlotAt + i - 1)
      <4> HIDE DEF HeaderEnd, SlotAt
      <4> QED BY <1>1, <1>2, <3>2, <3>3, CuesFront
    <3> QED BY <2>1, <3>1, <3>4
  <2>3. CASE ~FitsFront
    <3>1. w.at = Len(output)
      BY <2>1, <2>3 DEF CuesAt
    <3> HIDE DEF HeaderEnd
    <3> QED BY <1>1, <1>2, <1>5, <3>1
  <2> QED BY <2>2, <2>3
<1>6. CASE step = "rest"
  <2> DEFINE r == RestOfSlot
             e == Len(CuesElement)
             at == SlotAt + e
  <2>1. w.at = at /\ w.cells = VoidOf(r)
    BY <1>6, WriteIs
  <2>2. r > 0 /\ r = layout.front - e
    BY <1>6 DEF WriterInv, CuesHold, RestOfSlot
  <2>3. r \in Nat \ {0} /\ at \in Nat /\ at + r <= HeaderEnd
    <3> HIDE DEF HeaderEnd, SlotAt, r
    <3> QED BY <1>1, <1>2, <2>2
  <2>4. i \in 1 .. r
    <3>1. Len(VoidOf(r)) = r
      BY <2>3, VoidIs
    <3> QED BY <2>1, <3>1
  <2> HIDE DEF r, at
  <2>5. FrontCell(VoidOf(r)[i], at + i - 1)
    <3> HIDE DEF HeaderEnd
    <3> QED BY <1>1, <2>3, <2>4, VoidFront
  <2> QED BY <2>1, <2>5
<1>7. CASE Sealed
  <2>1. w.cells = <<>>
    BY <1>7, WriteIs
  <2> QED BY <2>1
<1> QED BY <1>1, <1>3, <1>4, <1>5, <1>6, <1>7 DEF Steps, Sealed

\* What a crash leaves in front of the Clusters.
LEMMA RemainFront ==
  ASSUME WriterInv, NEW c, NEW w \in InProgress, NEW k, NEW m, Torn(c, w, k, m), NEW o \in 0 .. Len(c) - 1,
         o < HeaderEnd
  PROVE  FrontCell(c[o + 1], o)
<1> DEFINE i == o + 1
<1>0. Len(c) \in Nat /\ layout \in Layouts /\ Len(output) \in Nat
  BY Sizes DEF Torn, IsSeq
<1>1. i \in 1 .. Len(c) /\ o = i - 1 /\ i \in Nat /\ o \in Nat
  BY <1>0
<1>2. w.at \in Nat /\ k \in Nat /\ m \in Nat
  BY WriteIs DEF Torn
<1>3. step = "header" => output = <<>>
  BY DEF WriterInv, WriterShape
<1>h. HeaderEnd \in Nat
  BY <1>0, Offs
<1>4. CASE c[i] = output[i] /\ i <= Len(output)
  <2>1. step # "header"
    BY <1>1, <1>3, <1>4
  <2>2. o \in 0 .. HeaderEnd - 1
    <3> HIDE DEF HeaderEnd
    <3> QED BY <1>1, <1>h
  <2>3. FrontCell(output[o + 1], o)
    BY <2>1, <2>2, OutputFront
  <2> QED BY <1>4, <2>3
<1>5. CASE i > w.at /\ i <= w.at + k
  <2>1. i - w.at \in 1 .. Len(w.cells) /\ c[i] = w.cells[i - w.at]
    BY <1>1, <1>5, TornCellIs
  <2> DEFINE j == i - w.at
  <2>2. j \in 1 .. Len(w.cells) /\ c[i] = w.cells[j] /\ w.at + j - 1 = o
    BY <1>1, <1>2, <2>1
  <2> HIDE DEF j
  <2>3. FrontCell(w.cells[j], w.at + j - 1)
    BY <2>2, WrittenFront
  <2> QED BY <2>2, <2>3
<1>6. CASE c[i] = NoElement
  <2>1. FrontCell(NoElement, o)
    BY <1>1, <1>h, LeafFront DEF NoElement
  <2> QED BY <1>6, <2>1
<1>7. \/ i <= w.at \/ i > w.at + m \/ (i > w.at /\ i <= w.at + k) \/ (i > w.at + k /\ i <= w.at + m)
  BY <1>1, <1>2
<1> HIDE DEF i
<1> QED BY <1>1, <1>4, <1>5, <1>6, <1>7, TornCellIs DEF i

\* Behind the last packet stored at most the beginning of another Block is
\* left, and it ends the file.
LEMMA RemainBehind ==
  ASSUME WriterInv, NEW c, NEW w \in InProgress, NEW k, NEW m, Torn(c, w, k, m), NEW o \in 0 .. Len(c) - 1,
         o >= BodyEnd
  PROVE  /\ c[o + 1].id # "BlockGroup"
         /\ c[o + 1].id = "SimpleBlock" => c[o + 1].size = 1 /\ o + 1 = Len(c)
<1> DEFINE i == o + 1
<1>0. /\ Len(c) \in Nat /\ layout \in Layouts /\ Len(output) \in Nat /\ BodyEnd \in Nat
      /\ step # "header" => HeaderEnd <= BodyEnd /\ BodyEnd <= Len(output)
  BY Sizes DEF Torn, IsSeq
<1>1. i \in 1 .. Len(c) /\ o = i - 1 /\ i \in Nat /\ o \in Nat
  BY <1>0
<1>2. /\ w.at \in Nat /\ k \in Nat /\ m \in Nat /\ Len(w.cells) \in Nat
      /\ m <= Len(w.cells) /\ (m = k \/ m = k + 1) /\ (k = 0 \/ k < Len(w.cells))
      /\ m = k + 1 => Parses(w.cells[k + 1])
      /\ Len(c) = IF Len(output) >= w.at + m THEN Len(output) ELSE w.at + m
  BY WriteIs DEF Torn
<1>h. HeaderEnd \in Nat
  BY <1>0, Offs
<1>n. NoElement.id = "Bad"
  BY DEF NoElement
<1>3. CASE step = "header"
  <2>1. output = <<>> /\ w.at = 0 /\ w.cells = HeaderCells
    BY <1>3, WriteIs DEF WriterInv, WriterShape
  <2>2. o < HeaderEnd
    <3>1. Len(output) = 0 /\ Len(w.cells) = HeaderEnd
      BY <2>1 DEF HeaderEnd
    <3> HIDE DEF HeaderEnd
    <3> QED BY <1>1, <1>2, <1>h, <2>1, <3>1
  <2>3. FrontCell(c[o + 1], o)
    BY <2>2, RemainFront
  <2> QED BY <2>3 DEF FrontCell
<1>4. CASE step = "packets"
  <2>1. BodyEnd = Len(output) /\ w.at = Len(output)
    BY <1>4, WriteIs DEF BodyEnd, WriterInv, CuesHold
  <2>2. i > w.at
    <3> HIDE DEF BodyEnd
    <3> QED BY <1>0, <1>1, <2>1
  <2>3. CASE i <= w.at + k
    <3>1. w.cells # <<>>
      BY <1>2, <2>2, <2>3
    <3>2. /\ Len(w.cells) = 2 /\ BodyCell(w.cells[1])
          /\ w.cells[1].id = "SimpleBlock" => w.cells[2] = NoElement
      BY <1>4, <3>1, WriteIs
    <3>3. k = 1 /\ i = w.at + 1
      BY <1>1, <1>2, <2>2, <2>3, <3>2
    <3>4. c[i] = w.cells[1]
      <4>1. c[i] = w.cells[i - w.at]
        BY <1>1, <2>2, <2>3, TornCellIs
      <4>2. i - w.at = 1
        BY <1>2, <3>3
      <4> QED BY <4>1, <4>2
    <3> DEFINE h == w.cells[1]
    <3>5. BodyCell(h) /\ c[i] = h
      BY <3>2, <3>4
    <3>6. h.id # "BlockGroup" /\ (h.id = "SimpleBlock" => h.size = 1)
      <4> HIDE DEF h
      <4> QED BY <3>5 DEF BodyCell, NoElement
    <3>7. h.id = "SimpleBlock" => m = 1
      BY <1>2, <1>n, <3>2, <3>3 DEF Parses
    <3>8. m = 1 => o + 1 = Len(c)
      <4> HIDE DEF BodyEnd
      <4> QED BY <1>0, <1>1, <1>2, <2>1, <3>3
    <3> QED BY <3>4, <3>6, <3>7, <3>8
  <2>4. CASE i > w.at + k
    <3>1. i <= w.at + m
      <4> HIDE DEF BodyEnd
      <4> QED BY <1>0, <1>1, <1>2, <2>1, <2>4
    <3>2. c[i] = NoElement
      BY <1>1, <2>4, <3>1, TornCellIs
    <3> QED BY <1>n, <3>2
  <2> QED BY <1>1, <1>2, <2>3, <2>4
<1>5. CASE step \notin {"header", "packets"}
  <2>s. step \in Steps
    BY DEF WriterInv, WriterShape
  <2>i. index \in Seq(Range(index)) /\ Len(CuesElement) \in Nat
    BY Sizes DEF WriterInv, WriterShape
  <2>1. CASE c[i] = output[i] /\ i <= Len(output)
    <3>1. entry # None /\ ~FitsFront /\ BodyEnd = entry
      BY <1>0, <1>1, <2>1 DEF BodyEnd
    <3>2. /\ Len(output) = entry + Len(CuesElement)
          /\ \A j \in 1 .. Len(CuesElement) : output[entry + j] = CuesElement[j]
      BY <3>1, CuesAreIn DEF InSlot
    <3> DEFINE j == o - entry + 1
    <3>3. j \in 1 .. Len(CuesElement) /\ entry + j = o + 1
      <4> HIDE DEF BodyEnd
      <4> QED BY <1>0, <1>1, <2>1, <2>i, <3>1, <3>2
    <3>4. c[i] = CuesElement[j]
      BY <2>1, <3>2, <3>3
    <3> HIDE DEF j
    <3>5. CuesElement[j].id \in {"Cues", "Item", "Crc"}
      BY <1>0, <2>i, <3>3, CuesCellIs
    <3> QED BY <3>4, <3>5
  <2>2. CASE i > w.at /\ i <= w.at + k
    <3>1. i - w.at \in 1 .. Len(w.cells) /\ c[i] = w.cells[i - w.at]
      BY <1>1, <2>2, TornCellIs
    <3> DEFINE j == i - w.at
    <3>2. j \in 1 .. Len(w.cells) /\ c[i] = w.cells[j]
      BY <3>1
    <3>3. w.at + Len(w.cells) > BodyEnd
      <4> HIDE DEF BodyEnd, j
      <4> QED BY <1>0, <1>1, <1>2, <2>2
    <3> HIDE DEF j
    <3>4. step = "cues"
      <4>1. ~Sealed
        BY <3>2, WriteIs
      <4>2. step # "rest"
        <5>1. CASE step = "rest"
          <6>1. w.at + Len(w.cells) <= HeaderEnd \/ w.at >= BodyEnd
            BY <5>1, WritePlace
          <6>2. w.at = SlotAt + Len(CuesElement) /\ RestOfSlot > 0
            BY <5>1, WriteIs DEF WriterInv, CuesHold
          <6>3. w.at < HeaderEnd
            <7>1. HeaderEnd = SlotAt + layout.front /\ SlotAt \in Nat /\ layout.front \in Nat
              BY <1>0, Offs
            <7> HIDE DEF HeaderEnd, SlotAt
            <7> QED BY <2>i, <6>2, <7>1 DEF RestOfSlot
          <6> HIDE DEF BodyEnd, HeaderEnd
          <6> QED BY <1>0, <1>2, <1>h, <1>5, <3>3, <6>1, <6>3
        <5> QED BY <5>1
      <4> QED BY <1>5, <2>s, <4>1, <4>2 DEF Steps, Sealed
    <3>5. w.cells = CuesElement
      BY <3>4, WriteIs
    <3>6. CuesElement[j].id \in {"Cues", "Item", "Crc"}
      BY <1>0, <2>i, <3>2, <3>5, CuesCellIs
    <3> QED BY <3>2, <3>5, <3>6
  <2>3. CASE c[i] = NoElement
    BY <1>n, <2>3
  <2>4. \/ i <= w.at \/ i > w.at + m \/ (i > w.at /\ i <= w.at + k) \/ (i > w.at + k /\ i <= w.at + m)
    BY <1>1, <1>2
  <2> HIDE DEF i
  <2> QED BY <1>1, <2>1, <2>2, <2>3, <2>4, TornCellIs
<1> QED BY <1>3, <1>4, <1>5

\* PacketsRemain follows.
LEMMA PacketsRemainIs ==
  ASSUME WriterInv
  PROVE  PacketsRemain
<1> SUFFICES ASSUME NEW c \in Remains PROVE PacketsLeft(c)
  BY DEF PacketsRemain
<1>1. /\ layout \in Layouts /\ IsSeq(output) /\ Len(output) \in Nat /\ BodyEnd \in Nat
      /\ step # "header" => HeaderEnd <= BodyEnd /\ BodyEnd <= Len(output)
  BY Sizes
<1>2. HeaderEnd \in Nat
  BY <1>1, Offs
<1>3. PICK w \in InProgress, k \in Nat, m \in Nat : Torn(c, w, k, m)
  BY <1>1, WriteIs, TornIs
<1>4. /\ w.at \in Nat /\ Len(w.cells) \in Nat /\ m <= Len(w.cells)
      /\ Len(c) = IF Len(output) >= w.at + m THEN Len(output) ELSE w.at + m
  BY <1>3, WriteIs DEF Torn
<1> HIDE DEF BodyEnd, HeaderEnd
<1>5. Len(c) \in Nat /\ (step # "header" => BodyEnd <= Len(c))
  BY <1>1, <1>4
<1>6. ASSUME step # "header", NEW o \in HeaderEnd .. BodyEnd - 1
      PROVE  c[o + 1] = output[o + 1]
  <2>1. o + 1 \in 1 .. Len(c)
    BY <1>1, <1>2, <1>5, <1>6
  <2>2. w.at >= BodyEnd \/ w.at + Len(w.cells) <= HeaderEnd
    <3>1. w.at = Len(output) \/ w.at >= BodyEnd \/ w.at + Len(w.cells) <= HeaderEnd
      BY <1>6, WritePlace
    <3> QED BY <1>1, <1>6, <3>1
  <2>3. o + 1 <= w.at \/ o + 1 > w.at + m
    BY <1>1, <1>2, <1>3, <1>4, <2>2
  <2> QED BY <1>3, <2>1, <2>3, TornCellIs
<1>7. ASSUME step # "header", NEW o \in 0 .. HeaderEnd - 1
      PROVE  c[o + 1].size \in Nat /\ o + 1 + c[o + 1].size <= HeaderEnd
  <2>1. o \in 0 .. Len(c) - 1 /\ o < HeaderEnd
    BY <1>1, <1>2, <1>5, <1>7
  <2>2. FrontCell(c[o + 1], o)
    BY <1>3, <2>1, RemainFront
  <2> QED BY <2>2 DEF FrontCell
<1>8. ASSUME NEW o \in 0 .. Len(c) - 1
      PROVE  /\ o < HeaderEnd => c[o + 1].id \notin {"Cluster", "SimpleBlock", "BlockGroup"}
             /\ o >= BodyEnd =>
                  /\ c[o + 1].id # "BlockGroup"
                  /\ c[o + 1].id = "SimpleBlock" => c[o + 1].size = 1 /\ o + 1 = Len(c)
  <2>1. o < HeaderEnd => FrontCell(c[o + 1], o)
    BY <1>3, RemainFront
  <2>2. o >= BodyEnd =>
          /\ c[o + 1].id # "BlockGroup"
          /\ c[o + 1].id = "SimpleBlock" => c[o + 1].size = 1 /\ o + 1 = Len(c)
    BY <1>3, RemainBehind
  <2> QED BY <2>1, <2>2 DEF FrontCell
<1> QED BY <1>5, <1>6, <1>7, <1>8 DEF PacketsLeft

-----------------------------------------------------------------------------
(* The Clusters of the file that is open.                                  *)

\* What a writer left is being opened or read.
LeftIs == WriterInv /\ PacketsInv /\ Opening /\ phase # "start" /\ file.stored = stored /\ PacketsLeft(file.cells)

\* The extents of the file that is open.
LEMMA BodyRead ==
  ASSUME LeftIs
  PROVE  /\ HeaderEnd \in Nat /\ BodyEnd \in Nat /\ Far \in Nat
         /\ InputLen(file) \in 0 .. Far /\ InputLen(file) < Far /\ InputLen(file) = Len(file.cells)
         /\ SegmentEnd = InputLen(file) /\ LegalFile(file) /\ step \in Steps
         /\ step # "header" => HeaderEnd <= BodyEnd /\ BodyEnd <= InputLen(file)
         /\ step = "header" => BodyEnd = 0 /\ stored = <<>>
<1>1. /\ layout \in Layouts /\ BodyEnd \in Nat
      /\ step # "header" => HeaderEnd <= BodyEnd /\ BodyEnd <= Len(output)
  BY Sizes DEF LeftIs
<1>2. /\ LegalFile(file) /\ Far \in Nat /\ InputLen(file) = Len(file.cells) /\ InputLen(file) \in 0 .. Far
      /\ SegmentEnd = InputLen(file) /\ step \in Steps
      /\ LeftTruly(file.cells)
  BY OpenedIs DEF LeftIs
<1>3. HeaderEnd \in Nat /\ InputLen(file) < Far
  BY <1>1, <1>2, Offs DEF LeftTruly
<1>4. step # "header" => BodyEnd <= InputLen(file)
  BY <1>2 DEF LeftIs, PacketsLeft
<1>5. step = "header" => BodyEnd = 0 /\ stored = <<>>
  <2> SUFFICES ASSUME step = "header" PROVE BodyEnd = 0 /\ stored = <<>>
    OBVIOUS
  <2>1. output = <<>> /\ stored = <<>> /\ entry = None
    BY DEF LeftIs, WriterInv, WriterShape, CuesHold
  <2> QED BY <2>1, EmptyIs DEF BodyEnd
<1> QED BY <1>1, <1>2, <1>3, <1>4, <1>5

\* At o the file reads as a Cluster's head and its Timestamp.
ClusterRead(o) ==
  LET t == Header(file, o + 1) IN
  /\ Header(file, o) = [id |-> "Cluster", size |-> Unknown]
  /\ t.id = "Timecode" /\ t.v \in Nat /\ Readable(file, o + 1) /\ NextAt(file, o + 1) = o + 2
\* At o the file reads as a Block of one frame.
BlockRead(o) ==
  LET b == Header(file, o) IN
  /\ b.id = "SimpleBlock" /\ b.frames = 1 /\ b.defect = "None" /\ b.off \in Nat
  /\ b.track \in DOMAIN TrackIndex /\ Readable(file, o) /\ NextAt(file, o) = o + 2
  /\ Header(file, o + 1) = NoElement

\* What is read at a place: the head of a Cluster or a Block.
LEMMA PlaceRead ==
  ASSUME LeftIs, NEW o \in Places, o < BodyEnd
  PROVE  /\ step # "header" /\ o \in Nat /\ HeaderEnd <= o /\ o + 2 <= BodyEnd
         /\ o + 1 \notin Places /\ o + 2 \in Places
         /\ Header(file, o) = output[o + 1] /\ Header(file, o + 1) = output[o + 2]
         /\ ClusterRead(o) \/ BlockRead(o)
<1>1. /\ HeaderEnd \in Nat /\ BodyEnd \in Nat /\ InputLen(file) \in 0 .. Far /\ Far \in Nat
      /\ step # "header" => HeaderEnd <= BodyEnd /\ BodyEnd <= InputLen(file)
      /\ step = "header" => BodyEnd = 0
  BY BodyRead
<1>2. /\ o \in Nat /\ HeaderEnd <= o /\ o + 1 \notin Places /\ o + 2 \in Places
      /\ \A c \in Places : o < c => o + 2 <= c
  BY <1>1, PlacesAre
<1> HIDE DEF Places
<1>3. step # "header"
  BY <1>1, <1>2
<1>4. o + 2 <= BodyEnd /\ (ClusterPair(o) \/ BlockPair(o))
  BY <1>2, <1>3 DEF LeftIs, PacketsInv, BodyPairs
<1>5. \A x \in HeaderEnd .. BodyEnd - 1 : file.cells[x + 1] = output[x + 1]
  BY <1>3 DEF LeftIs, PacketsLeft
<1> HIDE DEF BodyEnd, HeaderEnd
<1>6. Header(file, o) = output[o + 1] /\ Header(file, o + 1) = output[o + 2]
  <2>1. o < InputLen(file) /\ o + 1 < InputLen(file)
    BY <1>1, <1>2, <1>3, <1>4
  <2>2. file.cells[o + 1] = output[o + 1] /\ file.cells[(o + 1) + 1] = output[(o + 1) + 1]
    <3>1. o \in HeaderEnd .. BodyEnd - 1 /\ o + 1 \in HeaderEnd .. BodyEnd - 1
      BY <1>1, <1>2, <1>4
    <3> QED BY <1>5, <3>1
  <2>3. (o + 1) + 1 = o + 2
    BY <1>2
  <2> QED BY <2>1, <2>2, <2>3 DEF Header
<1>7. ASSUME NEW x \in Nat, NEW n \in {0, 1}, Header(file, x).size = n, x + 1 + n <= BodyEnd
      PROVE  Readable(file, x) /\ NextAt(file, x) = x + 1 + n
  <2>1. x + 1 + n <= InputLen(file) /\ x + 1 + n <= Far
    BY <1>1, <1>3, <1>7
  <2>2. Min({x + 1 + n, Far}) = x + 1 + n
    BY <1>1, <2>1, MinOfTwo
  <2>3. Past(x + 1, n) = x + 1 + n
    BY <2>2 DEF Past, Unknown
  <2> QED BY <1>7, <2>1, <2>3 DEF Readable, NextAt, Unknown
<1>8. CASE ClusterPair(o)
  <2>1. Header(file, o + 1).id = "Timecode" /\ Header(file, o + 1).size = 0 /\ Header(file, o + 1).v \in Nat
    BY <1>6, <1>8 DEF ClusterPair
  <2>2. Readable(file, o + 1) /\ NextAt(file, o + 1) = o + 2
    <3>1. o + 1 \in Nat /\ (o + 1) + 1 + 0 = o + 2 /\ (o + 1) + 1 + 0 <= BodyEnd
      BY <1>2, <1>4
    <3> QED BY <1>7, <2>1, <3>1
  <2>3. ClusterRead(o)
    BY <1>6, <1>8, <2>1, <2>2 DEF ClusterRead, ClusterPair
  <2> QED BY <1>2, <1>3, <1>4, <1>6, <2>3
<1>9. CASE BlockPair(o)
  <2>1. /\ Header(file, o).id = "SimpleBlock" /\ Header(file, o).size = 1 /\ Header(file, o).frames = 1
        /\ Header(file, o).defect = "None" /\ Header(file, o).off \in Nat
        /\ \E p \in Range(Recording) : Header(file, o).track = p.track
        /\ Header(file, o + 1) = NoElement
    BY <1>6, <1>9 DEF BlockPair
  <2>2. Readable(file, o) /\ NextAt(file, o) = o + 2
    <3>1. o + 1 + 1 = o + 2 /\ o + 1 + 1 <= BodyEnd
      BY <1>2, <1>4
    <3> QED BY <1>2, <1>7, <2>1, <3>1
  <2>3. Header(file, o).track \in DOMAIN TrackIndex
    BY <2>1, RecoveryAssumption
  <2>4. BlockRead(o)
    BY <2>1, <2>2, <2>3 DEF BlockRead
  <2> QED BY <1>2, <1>3, <1>4, <1>6, <2>4
<1> QED BY <1>4, <1>8, <1>9

\* There are Clusters nowhere else, and whole Blocks.
LEMMA ElsewhereRead ==
  ASSUME LeftIs, NEW o \in Nat
  PROVE  /\ Header(file, o).id # "BlockGroup"
         /\ Header(file, o).id = "Cluster" => o >= BodyEnd \/ o \in Places
         /\ Header(file, o).id = "SimpleBlock" /\ Readable(file, o) =>
              o \in Places /\ o < BodyEnd /\ \E i \in DOMAIN stored : stored[i].at = o
<1>1. /\ HeaderEnd \in Nat /\ BodyEnd \in Nat /\ InputLen(file) \in 0 .. Far /\ Far \in Nat /\ InputLen(file) < Far
      /\ step # "header" => HeaderEnd <= BodyEnd /\ BodyEnd <= InputLen(file)
      /\ step = "header" => BodyEnd = 0
  BY BodyRead
<1>2. /\ \A x \in Nat : HeaderEnd < x /\ x \notin Places => x - 1 \in Places
      /\ HeaderEnd \in Places
  BY <1>1, PlacesAre
<1>3. /\ o < InputLen(file) => Header(file, o) = file.cells[o + 1]
      /\ o >= InputLen(file) => Header(file, o) = NoElement
      /\ InputLen(file) = Len(file.cells)
  BY <1>1 DEF Header, InputLen
<1> HIDE DEF BodyEnd, HeaderEnd, Places
<1>4. CASE o >= InputLen(file)
  BY <1>3, <1>4 DEF NoElement
<1>5. CASE o < InputLen(file) /\ o < HeaderEnd
  <2>1. o \in 0 .. Len(file.cells) - 1
    BY <1>1, <1>3, <1>5
  <2>2. file.cells[o + 1].id \notin {"Cluster", "SimpleBlock", "BlockGroup"}
    BY <1>5, <2>1 DEF LeftIs, PacketsLeft
  <2> QED BY <1>3, <1>5, <2>2
<1>6. CASE o < InputLen(file) /\ o >= BodyEnd
  <2>1. o \in 0 .. Len(file.cells) - 1
    BY <1>1, <1>3, <1>6
  <2>2. /\ file.cells[o + 1].id # "BlockGroup"
        /\ file.cells[o + 1].id = "SimpleBlock" => file.cells[o + 1].size = 1 /\ o + 1 = Len(file.cells)
    BY <1>6, <2>1 DEF LeftIs, PacketsLeft
  <2>3. Header(file, o).id = "SimpleBlock" => ~Readable(file, o)
    <3> SUFFICES ASSUME Header(file, o).id = "SimpleBlock" PROVE ~Readable(file, o)
      OBVIOUS
    <3>1. Header(file, o).size = 1 /\ o + 1 = InputLen(file) /\ o + 1 + 1 > InputLen(file)
      BY <1>1, <1>3, <1>6, <2>2
    <3>2. Past(o + 1, 1) = IF o + 1 + 1 <= Far THEN o + 1 + 1 ELSE Far
      BY <1>1, MinOfTwo DEF Past, Unknown
    <3>3. o + 1 + 1 <= Far
      BY <1>1, <3>1
    <3> QED BY <3>1, <3>2, <3>3 DEF Readable
  <2> QED BY <1>3, <1>6, <2>2, <2>3
<1>7. CASE HeaderEnd <= o /\ o < BodyEnd
  <2>1. CASE o \in Places
    <3>1. /\ Header(file, o) = output[o + 1] /\ step # "header" /\ (ClusterRead(o) \/ BlockRead(o))
      BY <1>7, <2>1, PlaceRead
    <3>2. Header(file, o).id # "BlockGroup"
      BY <3>1 DEF ClusterRead, BlockRead
    <3>3. Header(file, o).id = "SimpleBlock" => \E i \in DOMAIN stored : stored[i].at = o
      BY <1>7, <2>1, <3>1 DEF LeftIs, PacketsInv, StoredHold
    <3> QED BY <1>7, <2>1, <3>2, <3>3
  <2>2. CASE o \notin Places
    <3>1. PICK x \in Nat : x = o - 1 /\ x \in Places /\ x < BodyEnd
      <4>1. HeaderEnd < o
        BY <1>1, <1>2, <1>7, <2>2
      <4>2. o - 1 \in Places /\ o - 1 \in Nat /\ o - 1 < BodyEnd
        BY <1>1, <1>2, <1>7, <2>2, <4>1
      <4> QED BY <4>2
    <3>2. x + 1 = o
      BY <3>1
    <3>3. ClusterRead(x) \/ BlockRead(x)
      BY <3>1, PlaceRead
    <3>4. Header(file, o).id \in {"Timecode", "Bad"}
      BY <3>2, <3>3 DEF ClusterRead, BlockRead, NoElement
    <3> QED BY <3>4
  <2> QED BY <2>1, <2>2
<1> QED BY <1>1, <1>4, <1>5, <1>6, <1>7

-----------------------------------------------------------------------------
(* The walk does not pass the first Cluster.                               *)

\* The first place is that of a Cluster, and every element in front of it ends there.
LEMMA WalkPlace ==
  ASSUME LeftIs, stored # <<>>
  PROVE  /\ step # "header" /\ HeaderEnd \in Places /\ HeaderEnd < BodyEnd
         /\ ClusterRead(HeaderEnd)
         /\ \A o \in 0 .. HeaderEnd - 1 :
              /\ Header(file, o).id # "Cluster" /\ Header(file, o).size \in Nat
              /\ Readable(file, o) /\ NextAt(file, o) > o /\ NextAt(file, o) <= HeaderEnd
<1>1. /\ HeaderEnd \in Nat /\ BodyEnd \in Nat /\ Far \in Nat
      /\ InputLen(file) \in 0 .. Far /\ InputLen(file) = Len(file.cells)
      /\ step # "header" => HeaderEnd <= BodyEnd /\ BodyEnd <= InputLen(file)
      /\ step = "header" => BodyEnd = 0
  BY BodyRead
<1>2. HeaderEnd \in Places /\ \A o \in Places : o \in Nat /\ HeaderEnd <= o
  BY <1>1, PlacesAre
<1>3. PICK o \in Places : o < BodyEnd
  <2>1. 1 \in DOMAIN stored
    <3>1. stored \in Seq(Range(stored))
      BY DEF LeftIs, WriterInv, WriterShape
    <3> QED BY <3>1
  <2> QED BY <2>1 DEF LeftIs, PacketsInv, StoredHold, IsStored
<1>4. step # "header" /\ HeaderEnd < BodyEnd
  <2> HIDE DEF BodyEnd, HeaderEnd, Places
  <2> QED BY <1>1, <1>2, <1>3
<1>5. output[HeaderEnd + 1].id = "Cluster"
  BY <1>4 DEF LeftIs, WriterInv, BodyHolds
<1>6. ClusterRead(HeaderEnd)
  <2>1. PICK h \in Places : h = HeaderEnd
    BY <1>2
  <2>2. /\ Header(file, h) = output[h + 1] /\ (ClusterRead(h) \/ BlockRead(h)) /\ output[h + 1].id = "Cluster"
    BY <1>4, <1>5, <2>1, PlaceRead
  <2>3. ClusterRead(h)
    BY <2>2 DEF BlockRead
  <2> QED BY <2>1, <2>3
<1>7. ASSUME NEW x \in 0 .. HeaderEnd - 1
      PROVE  /\ Header(file, x).id # "Cluster" /\ Header(file, x).size \in Nat
             /\ Readable(file, x) /\ NextAt(file, x) > x /\ NextAt(file, x) <= HeaderEnd
  <2>1. file.cells[x + 1].size \in Nat /\ x + 1 + file.cells[x + 1].size <= HeaderEnd
    BY <1>4 DEF LeftIs, PacketsLeft
  <2> HIDE DEF BodyEnd, HeaderEnd, Places
  <2>2. x \in 0 .. Len(file.cells) - 1 /\ x < HeaderEnd /\ x \in Nat
    BY <1>1, <1>4
  <2>3. file.cells[x + 1].id # "Cluster"
    BY <2>2 DEF LeftIs, PacketsLeft
  <2>4. Header(file, x) = file.cells[x + 1]
    BY <1>1, <2>2 DEF Header
  <2> DEFINE n == file.cells[x + 1].size
  <2>5. n \in Nat /\ x + 1 + n <= HeaderEnd /\ Header(file, x).size = n
    BY <2>1, <2>4
  <2> HIDE DEF n
  <2>6. x + 1 + n <= Far /\ x + 1 + n <= InputLen(file)
    BY <1>1, <1>4, <2>2, <2>5
  <2>7. Past(x + 1, n) = x + 1 + n
    BY <1>1, <2>2, <2>5, <2>6, MinOfTwo DEF Past, Unknown
  <2>8. Readable(file, x) /\ NextAt(file, x) = x + 1 + n
    BY <2>5, <2>6, <2>7 DEF Readable, NextAt, Unknown
  <2> QED BY <2>2, <2>3, <2>4, <2>5, <2>8
<1> QED BY <1>2, <1>4, <1>6, <1>7

\* Elements that end in front of h are stepped over no farther than to h.
LEMMA LiftedEnds ==
  ASSUME NEW f, LegalFile(f), NEW end \in 0 .. Far, NEW h \in Nat, end <= h,
         \A q \in 0 .. h - 1 : NextAt(f, q) <= h, NEW p \in Nat, p <= h
  PROVE  Lifted(f, p, end).to <= h
<1> DEFINE Good == {q \in Nat : q <= h => Lifted(f, q, end).to <= h}
<1>0. Far \in Nat /\ end \in Nat
  BY ProbeAssumption
<1>1. ASSUME NEW q \in Nat, q >= end PROVE q \in Good
  <2>1. Lifted(f, q, end).to = q
    BY <1>1, LiftedBehind
  <2> QED BY <2>1
<1>2. ASSUME NEW q \in Nat, q < end, NextAt(f, q) \in Good PROVE q \in Good
  <2> DEFINE c == Header(f, q)
             l == Lifted(f, q, end)
             rest == Lifted(f, NextAt(f, q), end)
  <2>1. /\ l \in LiftResults(f) /\ rest \in LiftResults(f)
        /\ (~Parses(c) \/ (c.id \in ValueIds /\ ~Readable(f, q))) =>
              l = [values |-> Nothing, err |-> TRUE, to |-> q]
        /\ Parses(c) /\ c.id \notin ValueIds => l = rest
        /\ Parses(c) /\ c.id \in ValueIds /\ Readable(f, q) =>
              l = [rest EXCEPT !.values[c.id] = <<c.v>> \o @]
    BY <1>2, LiftTurnIs
  <2> HIDE DEF l, rest, c
  <2>2. l.to = q \/ l.to = rest.to
    BY <2>1 DEF LiftResults
  <2>3. q < h /\ NextAt(f, q) <= h
    BY <1>0, <1>2
  <2>4. rest.to <= h
    BY <1>2, <2>3 DEF rest
  <2>5. l.to <= h
    BY <2>2, <2>3, <2>4
  <2> QED BY <2>5 DEF l
<1> HIDE DEF Good
<1>3. Nat \subseteq Good
  BY <1>1, <1>2, FileInduction
<1>4. p \in Good
  BY <1>3
<1> QED BY <1>4 DEF Good

\* A step of the walk that goes on stays in front of the first Cluster.
LEMMA WalkStays ==
  ASSUME LeftIs, stored # <<>>, phase = "walk", pos <= HeaderEnd, pos \in Nat,
         ReadMaster \/ StepOver \/ StepOverGarbage, phase' # "failed"
  PROVE  phase' = "walk" /\ pos' <= HeaderEnd
<1>1. /\ step # "header" /\ HeaderEnd \in Places /\ HeaderEnd < BodyEnd /\ ClusterRead(HeaderEnd)
      /\ \A o \in 0 .. HeaderEnd - 1 :
           /\ Header(file, o).id # "Cluster" /\ Header(file, o).size \in Nat
           /\ Readable(file, o) /\ NextAt(file, o) > o /\ NextAt(file, o) <= HeaderEnd
  BY WalkPlace
<1>2. /\ HeaderEnd \in Nat /\ BodyEnd \in Nat /\ Far \in Nat /\ InputLen(file) \in 0 .. Far
      /\ SegmentEnd = InputLen(file) /\ LegalFile(file)
      /\ BodyEnd <= InputLen(file)
  BY <1>1, BodyRead
<1> HIDE DEF HeaderEnd, BodyEnd, Places
<1>3. Here.id # "Cluster" /\ pos < HeaderEnd
  <2>1. Here.id # "Cluster"
    BY DEF ReadMaster, StepOver, StepOverGarbage, MasterIds, Parses
  <2>2. pos # HeaderEnd
    BY <1>1, <2>1 DEF ClusterRead, Here
  <2> QED BY <1>2, <2>1, <2>2
<1>4. /\ Here.size \in Nat /\ AfterHere <= HeaderEnd /\ AfterHere = NextAt(file, pos)
      /\ Readable(file, pos) /\ AfterHere \in 0 .. Far
  <2>1. pos \in 0 .. HeaderEnd - 1
    BY <1>2, <1>3
  <2>2. AfterHere \in 0 .. Far
    BY <1>2, NextIs DEF AfterHere, Here
  <2> QED BY <1>1, <2>1, <2>2 DEF Here, AfterHere, NextAt
<1>5. PastDamage = AfterHere
  BY <1>1, <1>2, <1>4 DEF PastDamage, Unknown
<1>6. AfterHere # None
  BY <1>4 DEF None
<1>7. CASE StepOver
  <2>1. Here.size # Unknown
    BY <1>4 DEF Unknown
  <2> QED BY <1>4, <1>7, <2>1 DEF StepOver
<1>8. CASE StepOverGarbage
  <2> DEFINE to == ScanTopLevel(file, pos + 1, SegmentEnd)
  <2>1. RecoverAt("GarbageData", to)
    BY <1>8 DEF StepOverGarbage
  <2>2. to # None /\ to <= HeaderEnd
    <3>1. /\ HeaderEnd \in pos + 1 .. SegmentEnd - 1
          /\ pos + 1 \in Nat /\ SegmentEnd \in Nat
      BY <1>1, <1>2, <1>3
    <3>2. Header(file, HeaderEnd).id \in TopLevelIds /\ VetTopLevel(file, HeaderEnd, SegmentEnd)
      BY <1>1 DEF ClusterRead, VetTopLevel, TopLevelIds, FirstChildIds
    <3>3. \A p \in pos + 1 .. SegmentEnd - 1 :
            Header(file, p).id \in TopLevelIds /\ VetTopLevel(file, p, SegmentEnd) => to # None /\ to <= p
      BY <3>1, ScanIs
    <3> QED BY <3>1, <3>2, <3>3
  <2> HIDE DEF to
  <2> QED BY <2>1, <2>2 DEF RecoverAt
<1>9. CASE ReadMaster
  <2> DEFINE r == MasterAt(file, pos, SegmentEnd)
  <2>1. /\ IF r.err THEN RecoverAt("DamagedMaster", PastDamage) ELSE pos' = r.to /\ UNCHANGED phase
    BY <1>9 DEF ReadMaster
  <2>2. r = Lifted(file, pos + 1, AfterHere)
    BY <1>4 DEF MasterAt, AfterHere, Here, Unknown
  <2>3. r.to <= HeaderEnd
    <3> DEFINE b == pos + 1
    <3>1. b \in Nat /\ b <= HeaderEnd
      BY <1>2, <1>3
    <3>2. \A q \in 0 .. HeaderEnd - 1 : NextAt(file, q) <= HeaderEnd
      BY <1>1
    <3> HIDE DEF b
    <3>3. Lifted(file, b, AfterHere).to <= HeaderEnd
      BY <1>2, <1>4, <3>1, <3>2, LiftedEnds
    <3> QED BY <2>2, <3>3 DEF b
  <2> HIDE DEF r
  <2>4. CASE r.err
    BY <1>4, <1>5, <1>6, <2>1, <2>4 DEF RecoverAt
  <2>5. CASE ~r.err
    BY <2>1, <2>3, <2>5
  <2> QED BY <2>4, <2>5
<1> QED BY <1>7, <1>8, <1>9

-----------------------------------------------------------------------------
(* Reading the Clusters.                                                   *)

\* The packets of the file lie at places, in order.
LEMMA StoredPlaces ==
  ASSUME LeftIs
  PROVE  /\ StoredInOrder(file) /\ DOMAIN file.stored = 1 .. Len(file.stored) /\ Len(file.stored) \in Nat
         /\ \A i \in DOMAIN file.stored :
              /\ file.stored[i].at \in Places /\ file.stored[i].at \in Nat /\ file.stored[i].at < BodyEnd
              /\ output[file.stored[i].at + 1].id = "SimpleBlock"
         /\ \A i, j \in DOMAIN file.stored : i < j => file.stored[i].at < file.stored[j].at
<1>1. file.stored = stored /\ stored \in Seq(Range(stored)) /\ HeaderEnd \in Nat
  BY BodyRead DEF LeftIs, WriterInv, WriterShape
<1>2. \A o \in Places : o \in Nat
  BY <1>1, PlacesAre
<1> HIDE DEF Places, BodyEnd
<1>3. \A i \in DOMAIN stored :
        /\ stored[i].at \in Places /\ stored[i].at < BodyEnd /\ output[stored[i].at + 1].id = "SimpleBlock"
  BY DEF LeftIs, PacketsInv, StoredHold, IsStored
<1>4. \A i, j \in DOMAIN stored : i < j => stored[i].at < stored[j].at
  BY DEF LeftIs, PacketsInv, StoredHold
<1>5. DOMAIN stored = 1 .. Len(stored) /\ Len(stored) \in Nat
  BY <1>1
<1>6. StoredInOrder(file)
  <2>1. \A i, j \in DOMAIN stored : i < j => stored[i].at <= stored[j].at
    <3> SUFFICES ASSUME NEW i \in DOMAIN stored, NEW j \in DOMAIN stored, i < j
                 PROVE  stored[i].at <= stored[j].at
      OBVIOUS
    <3>1. stored[i].at \in Nat /\ stored[j].at \in Nat /\ stored[i].at < stored[j].at
      BY <1>2, <1>3, <1>4
    <3> QED BY <3>1
  <2> QED BY <1>1, <1>2, <1>3, <2>1 DEF StoredInOrder
<1> QED BY <1>1, <1>2, <1>3, <1>4, <1>5, <1>6

\* Where a step leaves the reader: at a place, in this state.
PlaceOf(p, s) ==
  /\ p < BodyEnd
  /\ \/ s = Idle /\ p \in Places /\ output[p + 1].id = "Cluster"
     \/ /\ s # Idle /\ s.in = "Cluster" /\ s.end = InputLen(file)
        /\ \/ p - 1 \in Places /\ output[p].id = "Cluster"
           \/ p \in Places /\ \A c \in Places : Governs(c, p) => s.tc = output[c + 2].v

\* A step that leaves the reader at a place leaves it where ReadLeft has it.
LEMMA PlaceMoves ==
  ASSUME UNCHANGED writer, InputLen(file') = InputLen(file),
         PlaceOf(pos', state') \/ stored = <<>> \/ pos' >= BodyEnd
  PROVE  AllPassed' \/ AtPlace'
<1>1. UNCHANGED <<output, layout, step, left, cluster, index, entry, maxEnd, stored>>
  BY DEF writer
<1>2. BodyEnd' = BodyEnd /\ HeaderEnd' = HeaderEnd
  BY <1>1, SameLayout, SameIndex DEF BodyEnd
<1>3. Places' = Places
  BY <1>2 DEF Places
<1>4. \A c, o : Governs(c, o)' <=> Governs(c, o)
  BY <1>1, <1>3 DEF Governs
<1>5. InputLen(file)' = InputLen(file) /\ Idle' = Idle
  BY DEF Idle
<1> HIDE DEF Places, BodyEnd, Governs, Idle
<1> QED BY <1>1, <1>2, <1>3, <1>4, <1>5 DEF AllPassed, AtPlace, PlaceOf

\* A step that queues nothing and passes no stored packet.
LEMMA StillDelivers ==
  ASSUME Delivered, queue = <<>>, queue' = <<>>, given' = given, landing' = landing, file' = file,
         \A i \in DOMAIN file.stored : file.stored[i].at < pos' <=> file.stored[i].at < pos
  PROVE  Delivered'
<1>1. PICK m \in 0 .. Len(file.stored), n \in 0 .. Len(file.stored) :
        /\ m + Len(given) + Len(queue) = n
        /\ \A i \in DOMAIN file.stored : /\ file.stored[i].at < landing.off <=> i <= m
                                         /\ file.stored[i].at < pos <=> i <= n
        /\ \A i \in DOMAIN given : given[i] = file.stored[m + i]
        /\ \A i \in DOMAIN queue : queue[i] = file.stored[m + Len(given) + i]
  BY DEF Delivered
<1>2. /\ m + Len(given') + Len(queue') = n
      /\ \A i \in DOMAIN file'.stored : /\ file'.stored[i].at < landing'.off <=> i <= m
                                        /\ file'.stored[i].at < pos' <=> i <= n
      /\ \A i \in DOMAIN given' : given'[i] = file'.stored[m + i]
      /\ \A i \in DOMAIN queue' : queue'[i] = file'.stored[m + Len(given') + i]
  BY <1>1
<1>3. m \in 0 .. Len(file'.stored) /\ n \in 0 .. Len(file'.stored)
  BY <1>1
<1> QED BY <1>2, <1>3, Zenon DEF Delivered

\* One that queues the stored packet it passes.
LEMMA OneDelivers ==
  ASSUME LeftIs, Delivered, queue = <<>>, given \in Seq(Range(given)), pos \in Nat,
         NEW k \in DOMAIN file.stored, file.stored[k].at = pos,
         queue' = <<file.stored[k]>>, given' = given, landing' = landing, file' = file,
         \A i \in DOMAIN file.stored : file.stored[i].at < pos' <=> (file.stored[i].at < pos \/ i = k)
  PROVE  Delivered'
<1> DEFINE N == Len(file.stored)
           at(i) == file.stored[i].at
           g == Len(given)
<1>1. /\ N \in Nat /\ DOMAIN file.stored = 1 .. N
      /\ \A i \in 1 .. N : at(i) \in Nat
      /\ \A i, j \in 1 .. N : i < j => at(i) < at(j)
  BY StoredPlaces
<1>2. g \in Nat
  OBVIOUS
<1>3. PICK m \in 0 .. N, n \in 0 .. N :
        /\ m + g + Len(queue) = n
        /\ \A i \in 1 .. N : /\ at(i) < landing.off <=> i <= m
                             /\ at(i) < pos <=> i <= n
        /\ \A i \in DOMAIN given : given[i] = file.stored[m + i]
  BY <1>1 DEF Delivered
<1>4. Len(queue) = 0
  OBVIOUS
<1>5. k \in 1 .. N /\ at(k) = pos /\ \A i \in 1 .. N : at(i) < pos' <=> (at(i) < pos \/ i = k)
  BY <1>1
<1>6. m \in Nat /\ n \in Nat /\ n <= N /\ n = m + g
  BY <1>1, <1>2, <1>3, <1>4
<1> HIDE DEF N, g, at
<1>7. k = n + 1
  <2>1. ~(k <= n)
    BY <1>3, <1>5
  <2>2. ASSUME n + 1 < k PROVE FALSE
    <3>1. n + 1 \in 1 .. N
      BY <1>1, <1>5, <1>6, <2>2
    <3>2. at(n + 1) < pos
      BY <1>1, <1>5, <2>2, <3>1
    <3>3. n + 1 <= n
      BY <1>3, <3>1, <3>2
    <3> QED BY <1>6, <3>3
  <2> QED BY <1>5, <1>6, <2>1, <2>2
<1>8. ASSUME NEW i \in 1 .. N PROVE at(i) < pos' <=> i <= n + 1
  <2>1. at(i) < pos' <=> (i <= n \/ i = n + 1)
    BY <1>3, <1>5, <1>7
  <2> QED BY <1>6, <1>8, <2>1
<1>9. /\ Len(queue') = 1 /\ DOMAIN queue' = {1} /\ queue'[1] = file.stored[k]
  OBVIOUS
<1>10. m + g + 1 = n + 1 /\ m + g + 1 = k /\ n + 1 \in 0 .. N
  BY <1>1, <1>2, <1>5, <1>6, <1>7
<1>11. /\ m + Len(given') + Len(queue') = n + 1
       /\ \A i \in DOMAIN file'.stored : /\ file'.stored[i].at < landing'.off <=> i <= m
                                         /\ file'.stored[i].at < pos' <=> i <= n + 1
       /\ \A i \in DOMAIN given' : given'[i] = file'.stored[m + i]
       /\ \A i \in DOMAIN queue' : queue'[i] = file'.stored[m + Len(given') + i]
  BY <1>1, <1>3, <1>8, <1>9, <1>10 DEF g, at
<1>12. m \in 0 .. Len(file'.stored) /\ n + 1 \in 0 .. Len(file'.stored)
  BY <1>3, <1>10 DEF N
<1> QED BY <1>11, <1>12, Zenon DEF Delivered

-----------------------------------------------------------------------------
(* Turns of next_packet's loop.                                            *)

\* A turn that reads on.
Reads == LoopTurn /\ ~ReturnPacket /\ ~EndOfSegment /\ ~FailPacket

\* Such a turn fires no action that ends a call.
LEMMA ReadsAre ==
  ASSUME ReaderShape, Reads
  PROVE  /\ call = "next" /\ call' = call /\ last' = last /\ given' = given /\ landing' = landing /\ file' = file
         /\ queue = <<>> /\ ~Done /\ pos \in Nat /\ pos' \in Nat
         /\ pos' >= pos \/ pos' = SegmentEnd
         /\ AtTop \/ Inside \/ LeaveCluster
<1>1. /\ call = "next" /\ queue = <<>> /\ (AtTop \/ Inside \/ LeaveCluster)
      /\ UNCHANGED <<call, last, given, landing, file>>
  <2>1. CASE OpenCluster \/ ApplyTags \/ SkipTopLevel
    BY <2>1 DEF OpenCluster, ApplyTags, SkipTopLevel, AtTop, Turn, Advanced, history
  <2>2. CASE LeaveCluster
    BY <2>2 DEF LeaveCluster, Turn, Advanced, history
  <2>3. CASE LeaveAtTopLevel \/ ReadTimecode \/ ReadRecord \/ ReadSimpleBlock \/ ReadBlockGroup \/ SkipChild
    BY <2>3 DEF LeaveAtTopLevel, ReadTimecode, ReadRecord, ReadSimpleBlock, ReadBlockGroup, SkipChild, Inside,
                Turn, Advanced, history
  <2>4. CASE Resync
    BY <2>4 DEF Resync, AdvanceFails, AtTop, Inside, Turn, history
  <2> QED BY <2>1, <2>2, <2>3, <2>4 DEF Reads, LoopTurn
<1>2. Far \in Nat /\ pos \in Nat /\ SegmentEnd \in 0 .. Far
  BY ProbeAssumption, SegmentEndIs DEF ReaderShape
<1>3. CASE MovesOn
  BY <1>1, <1>2, <1>3 DEF MovesOn
<1>4. CASE Leaves
  BY <1>1, <1>2, <1>4 DEF Leaves, Done
<1>5. CASE Resync
  <2>1. /\ ~Done /\ pos' \in 0 .. Far
        /\ \E to \in Nat \cup {None} :
              /\ to # None => pos' = to /\ floor' = to + 1 /\ to > pos
              /\ to = None => pos' = SegmentEnd /\ floor' = floor /\ Done'
    BY <1>5, ResyncIs
  <2> QED BY <1>1, <1>2, <2>1
<1> QED BY <1>3, <1>4, <1>5, TurnsAre DEF Reads

\* Behind the last packet nothing is queued any more.
LEMMA PassedReads ==
  ASSUME LeftIs, ReaderShape, Delivered, Reads, AllPassed
  PROVE  Delivered' /\ (stored = <<>> \/ pos' >= BodyEnd)
<1>1. /\ landing' = landing /\ given' = given /\ file' = file
      /\ queue = <<>> /\ pos \in Nat /\ pos' \in Nat
      /\ pos' >= pos \/ pos' = SegmentEnd
  BY ReadsAre
<1>2. /\ BodyEnd \in Nat /\ SegmentEnd = InputLen(file) /\ InputLen(file) \in 0 .. Far /\ step \in Steps
      /\ step # "header" => BodyEnd <= InputLen(file)
      /\ step = "header" => BodyEnd = 0
  BY BodyRead
<1>3. /\ Header(file, pos).id # "BlockGroup"
      /\ ~(Header(file, pos).id = "SimpleBlock" /\ Readable(file, pos))
  <2>1. /\ Header(file, pos).id # "BlockGroup"
        /\ Header(file, pos).id = "SimpleBlock" /\ Readable(file, pos) =>
             pos < BodyEnd /\ \E i \in DOMAIN stored : stored[i].at = pos
    BY <1>1, ElsewhereRead
  <2>2. ASSUME stored = <<>>, NEW i \in DOMAIN stored PROVE FALSE
    BY <2>2
  <2>3. ASSUME pos >= BodyEnd, pos < BodyEnd PROVE FALSE
    <3> HIDE DEF BodyEnd
    <3> QED BY <1>1, <1>2, <2>3
  <2> QED BY <2>1, <2>2, <2>3 DEF AllPassed
<1>4. queue' = <<>>
  <2>1. CASE OpenCluster \/ ApplyTags \/ SkipTopLevel \/ LeaveCluster \/ LeaveAtTopLevel
    BY <1>1, <2>1 DEF OpenCluster, ApplyTags, SkipTopLevel, LeaveCluster, LeaveAtTopLevel
  <2>2. CASE ReadTimecode \/ ReadRecord \/ SkipChild \/ Resync
    BY <1>1, <2>2 DEF ReadTimecode, ReadRecord, SkipChild, Resync
  <2>3. CASE ReadSimpleBlock \/ ReadBlockGroup
    BY <1>3, <2>3 DEF ReadSimpleBlock, ReadBlockGroup, Here
  <2> QED BY <2>1, <2>2, <2>3 DEF Reads, LoopTurn
<1>5. stored = <<>> \/ (pos >= BodyEnd /\ pos' >= BodyEnd)
  <2> SUFFICES ASSUME stored # <<>> PROVE pos >= BodyEnd /\ pos' >= BodyEnd
    OBVIOUS
  <2>1. pos >= BodyEnd
    BY DEF AllPassed
  <2> HIDE DEF BodyEnd
  <2>2. InputLen(file) >= BodyEnd
    BY <1>2
  <2> QED BY <1>1, <1>2, <2>1, <2>2
<1>6. \A i \in DOMAIN file.stored : file.stored[i].at < pos' <=> file.stored[i].at < pos
  <2> SUFFICES ASSUME NEW i \in DOMAIN file.stored
               PROVE  file.stored[i].at < pos' <=> file.stored[i].at < pos
    OBVIOUS
  <2>1. file.stored[i].at \in Nat /\ file.stored[i].at < BodyEnd
    BY StoredPlaces
  <2>2. stored # <<>>
    BY DEF LeftIs
  <2> HIDE DEF BodyEnd
  <2> QED BY <1>1, <1>2, <1>5, <2>1, <2>2
<1> QED BY <1>1, <1>4, <1>5, <1>6, StillDelivers

\* At a Cluster it is opened.
LEMMA ClusterTurn ==
  ASSUME LeftIs, state = Idle, pos \in Places, output[pos + 1].id = "Cluster", pos < BodyEnd,
         LoopTurn, queue = <<>>
  PROVE  /\ Reads /\ queue' = <<>> /\ pos' = pos + 1 /\ PlaceOf(pos', state')
<1>1. /\ pos \in Nat /\ pos + 2 <= BodyEnd /\ Header(file, pos) = output[pos + 1]
      /\ ClusterRead(pos) \/ BlockRead(pos)
  BY PlaceRead
<1>2. Header(file, pos) = [id |-> "Cluster", size |-> Unknown]
  BY <1>1 DEF ClusterRead, BlockRead
<1>3. /\ BodyEnd \in Nat /\ SegmentEnd = InputLen(file) /\ InputLen(file) \in 0 .. Far /\ Far \in Nat
      /\ BodyEnd <= InputLen(file) /\ step \in Steps
  BY BodyRead, PlaceRead
<1> HIDE DEF Places, BodyEnd
<1>4. Here.id = "Cluster" /\ Parses(Here) /\ Idle.in # "Cluster" /\ pos < SegmentEnd
  BY <1>1, <1>2, <1>3 DEF Here, Parses, Idle
<1>5. OpenCluster
  <2>1. ~(ReturnPacket \/ EndOfSegment \/ ApplyTags \/ SkipTopLevel)
    BY <1>1, <1>3, <1>4 DEF ReturnPacket, EndOfSegment, ApplyTags, SkipTopLevel
  <2>2. ~(LeaveCluster \/ Inside)
    BY <1>4 DEF LeaveCluster, Inside
  <2>3. ~AdvanceFails
    BY <1>4, <2>2 DEF AdvanceFails
  <2> QED BY <2>1, <2>2, <2>3 DEF LoopTurn, LeaveAtTopLevel, ReadTimecode, ReadRecord, ReadSimpleBlock,
                                   ReadBlockGroup, SkipChild, Resync, FailPacket
<1>6. Reads
  BY <1>1, <1>3, <1>4, <1>5 DEF Reads, ReturnPacket, EndOfSegment, FailPacket, AdvanceFails, Inside
<1>7. WalkEnd(pos) = InputLen(file)
  <2>1. ClusterEnd(file, pos, SegmentEnd) = SegmentEnd
    BY <1>2 DEF ClusterEnd
  <2>2. Min({SegmentEnd, SegmentEnd}) = SegmentEnd
    BY <1>3, MinOfTwo
  <2> QED BY <1>3, <2>1, <2>2 DEF WalkEnd
<1>8. state' = InCluster(pos + 1, InputLen(file), 0) /\ pos' = pos + 1 /\ queue' = <<>>
  BY <1>5, <1>7 DEF OpenCluster, Advanced
<1>9. pos + 1 < BodyEnd /\ (pos + 1) - 1 = pos
  BY <1>1, <1>3
<1>10. PlaceOf(pos', state')
  <2>1. state' # Idle /\ state'.in = "Cluster" /\ state'.end = InputLen(file)
    BY <1>8 DEF InCluster, Idle
  <2>2. pos' - 1 \in Places /\ output[pos'].id = "Cluster" /\ pos' < BodyEnd
    BY <1>8, <1>9
  <2> QED BY <2>1, <2>2 DEF PlaceOf
<1> QED BY <1>6, <1>8, <1>10

\* Behind its header its Timestamp is read.
LEMMA TimestampTurn ==
  ASSUME LeftIs, state # Idle, state.in = "Cluster", state.end = InputLen(file),
         NEW o \in Places, o = pos - 1, pos \in Nat, output[pos].id = "Cluster", pos < BodyEnd,
         DOMAIN state = {"in", "start", "end", "tc"}, LoopTurn, queue = <<>>
  PROVE  /\ Reads /\ queue' = <<>> /\ pos' = pos + 1 /\ (PlaceOf(pos', state') \/ pos' >= BodyEnd)
<1>1. o \in Nat /\ HeaderEnd \in Nat /\ o + 1 = pos /\ o < BodyEnd
  <2>1. HeaderEnd \in Nat /\ BodyEnd \in Nat
    BY BodyRead
  <2>2. o \in Nat
    BY <2>1, PlacesAre
  <2> HIDE DEF BodyEnd, HeaderEnd, Places
  <2> QED BY <2>1, <2>2
<1>2. /\ o + 2 <= BodyEnd /\ o + 2 \in Places
      /\ Header(file, o) = output[o + 1] /\ Header(file, o + 1) = output[o + 2]
      /\ ClusterRead(o) \/ BlockRead(o)
  BY <1>1, PlaceRead
<1>3. ClusterRead(o)
  BY <1>1, <1>2 DEF BlockRead
<1>4. /\ Here = output[o + 2] /\ Here.id = "Timecode" /\ Readable(file, pos) /\ AfterHere = o + 2
      /\ Parses(Here)
  BY <1>1, <1>2, <1>3 DEF ClusterRead, Here, AfterHere, NextAt, Parses
<1>5. /\ BodyEnd \in Nat /\ SegmentEnd = InputLen(file) /\ InputLen(file) \in 0 .. Far /\ Far \in Nat
      /\ BodyEnd <= InputLen(file) /\ step \in Steps
  BY <1>1, BodyRead, PlaceRead
<1>6. \A c \in Places : Governs(c, o + 2) => c = o
  <2> SUFFICES ASSUME NEW c \in Places, Governs(c, o + 2) PROVE c = o
    OBVIOUS
  <2>1. \A x, y \in Places : x \in Nat /\ (x < y => x + 2 <= y)
    BY <1>1, PlacesAre
  <2>2. output[o + 1].id # "SimpleBlock"
    BY <1>1
  <2>3. c < o + 2 /\ (c < o /\ o < o + 2 => output[o + 1].id = "SimpleBlock")
    BY DEF Governs
  <2> HIDE DEF Places
  <2>4. c \in Nat /\ (o < c => o + 2 <= c)
    BY <2>1
  <2> QED BY <1>1, <2>2, <2>3, <2>4
<1> HIDE DEF Places, BodyEnd, HeaderEnd
<1>7. pos < state.end /\ Idle.in # "Cluster"
  BY <1>1, <1>5 DEF Idle
<1>8. ReadTimecode
  <2>1. ~(ReturnPacket \/ EndOfSegment \/ AtTop)
    BY DEF ReturnPacket, EndOfSegment, AtTop
  <2>2. ~LeaveCluster
    BY <1>1, <1>5, <1>7 DEF LeaveCluster
  <2>3. ~(LeaveAtTopLevel \/ ReadRecord \/ ReadSimpleBlock \/ ReadBlockGroup \/ SkipChild)
    <3> DEFINE id == Here.id
    <3>0. id = "Timecode"
      BY <1>4
    <3> HIDE DEF id
    <3>a. id \in LeafIds /\ id \notin RecordIds /\ id \notin TopLevelIds
      BY <3>0 DEF LeafIds, RecordIds, TopLevelIds, MasterIds
    <3>1. Here.id \in LeafIds /\ Here.id \notin RecordIds /\ Here.id \notin TopLevelIds
      BY <3>a DEF id
    <3>2. Here.id # "SimpleBlock" /\ Here.id # "BlockGroup"
      BY <1>4
    <3> QED BY <3>1, <3>2 DEF LeaveAtTopLevel, ReadRecord, ReadSimpleBlock, ReadBlockGroup, SkipChild
  <2>4. ~AdvanceFails
    BY <1>4, <2>1 DEF AdvanceFails
  <2> QED BY <2>1, <2>2, <2>3, <2>4 DEF LoopTurn, OpenCluster, ApplyTags, SkipTopLevel, Resync, FailPacket
<1>9. Reads
  <2>1. ~AdvanceFails
    BY <1>4 DEF AdvanceFails, AtTop
  <2> QED BY <2>1 DEF Reads, ReturnPacket, EndOfSegment, FailPacket
<1>10. state' = [state EXCEPT !.tc = Here.v] /\ pos' = o + 2 /\ queue' = <<>>
  BY <1>4, <1>8 DEF ReadTimecode, Advanced
<1>11. state' # Idle /\ state'.in = "Cluster" /\ state'.end = InputLen(file) /\ state'.tc = output[o + 2].v
  <2>1. state'.in = "Cluster" /\ state'.end = InputLen(file) /\ state'.tc = output[o + 2].v
    BY <1>4, <1>10
  <2> QED BY <1>7, <2>1
<1>12. pos' < BodyEnd => PlaceOf(pos', state')
  BY <1>2, <1>6, <1>10, <1>11 DEF PlaceOf
<1>13. pos' = pos + 1 /\ pos' \in Nat
  BY <1>1, <1>10
<1> QED BY <1>5, <1>9, <1>10, <1>12, <1>13

\* A sequence of one element.
LEMMA OneCell ==
  ASSUME NEW q
  PROVE  [i \in 1 .. 1 |-> q] = <<q>>
OBVIOUS

\* Behind the Timestamp come the Blocks, up to the next Cluster.
LEMMA ChildTurn ==
  ASSUME LeftIs, state # Idle, state.in = "Cluster", state.end = InputLen(file),
         pos \in Places, pos < BodyEnd, \A c \in Places : Governs(c, pos) => state.tc = output[c + 2].v,
         LoopTurn, queue = <<>>
  PROVE  /\ Reads /\ (PlaceOf(pos', state') \/ pos' >= BodyEnd)
         /\ \/ queue' = <<>> /\ pos' = pos
            \/ /\ pos' = pos + 2
               /\ \E k \in DOMAIN file.stored : file.stored[k].at = pos /\ queue' = <<file.stored[k]>>
<1>1. /\ pos \in Nat /\ HeaderEnd <= pos /\ pos + 2 <= BodyEnd /\ pos + 2 \in Places
      /\ Header(file, pos) = output[pos + 1] /\ Header(file, pos + 1) = output[pos + 2]
      /\ ClusterRead(pos) \/ BlockRead(pos)
  BY PlaceRead
<1>2. /\ BodyEnd \in Nat /\ SegmentEnd = InputLen(file) /\ InputLen(file) \in 0 .. Far /\ Far \in Nat
      /\ BodyEnd <= InputLen(file) /\ step \in Steps /\ HeaderEnd \in Nat
  BY BodyRead, PlaceRead
<1>3. \A x, y \in Places : x \in Nat /\ (x < y => x + 2 <= y)
  BY <1>2, PlacesAre
<1>4. pos < state.end /\ ~(pos >= state.end) /\ Idle.in # "Cluster"
  <2> HIDE DEF BodyEnd, HeaderEnd
  <2> QED BY <1>1, <1>2 DEF Idle
<1>5. ~(ReturnPacket \/ EndOfSegment \/ AtTop \/ LeaveCluster)
  BY <1>4 DEF ReturnPacket, EndOfSegment, AtTop, LeaveCluster
<1>6. CASE ClusterRead(pos)
  <2>1. Here.id = "Cluster" /\ Parses(Here)
    BY <1>6 DEF ClusterRead, Here, Parses
  <2>2. ~AdvanceFails
    BY <1>5, <2>1 DEF AdvanceFails, LeafIds, RecordIds
  <2>3. LeaveAtTopLevel
    <3>1. ~(ReadTimecode \/ ReadRecord \/ ReadSimpleBlock \/ ReadBlockGroup \/ SkipChild)
      BY <2>1 DEF ReadTimecode, ReadRecord, ReadSimpleBlock, ReadBlockGroup, SkipChild, TopLevelIds, RecordIds
    <3> QED BY <1>5, <2>2, <3>1 DEF LoopTurn, OpenCluster, ApplyTags, SkipTopLevel, Resync, FailPacket
  <2>4. Reads
    BY <1>5, <2>2 DEF Reads, FailPacket
  <2>5. state' = Idle /\ pos' = pos /\ queue' = <<>>
    BY <2>3 DEF LeaveAtTopLevel, Advanced
  <2>6. PlaceOf(pos', state')
    BY <1>1, <2>1, <2>5 DEF PlaceOf, Here
  <2> QED BY <2>4, <2>5, <2>6
<1>7. CASE BlockRead(pos)
  <2>1. /\ Here.id = "SimpleBlock" /\ Readable(file, pos) /\ AfterHere = pos + 2 /\ Here = output[pos + 1]
        /\ Here.frames = 1 /\ Here.off \in Nat /\ Here.track \in DOMAIN TrackIndex /\ Parses(Here)
        /\ BlockParses(Here)
    BY <1>1, <1>7 DEF BlockRead, Here, AfterHere, NextAt, Parses, BlockParses
  <2>2. ~AdvanceFails
    BY <1>5, <2>1 DEF AdvanceFails
  <2>3. ReadSimpleBlock
    <3> DEFINE id == Here.id
    <3>b. id = "SimpleBlock"
      BY <2>1
    <3> HIDE DEF id
    <3>c. id \in LeafIds /\ id \notin RecordIds /\ id \notin TopLevelIds
      BY <3>b DEF LeafIds, RecordIds, TopLevelIds, MasterIds
    <3>0. Here.id \in LeafIds /\ Here.id \notin RecordIds /\ Here.id \notin TopLevelIds
      BY <3>c DEF id
    <3>a. Here.id # "Timecode" /\ Here.id # "BlockGroup"
      BY <2>1
    <3>1. ~(ReadTimecode \/ ReadRecord \/ LeaveAtTopLevel \/ ReadBlockGroup \/ SkipChild)
      BY <3>0, <3>a DEF ReadTimecode, ReadRecord, LeaveAtTopLevel, ReadBlockGroup, SkipChild
    <3> QED BY <1>5, <2>2, <3>1 DEF LoopTurn, OpenCluster, ApplyTags, SkipTopLevel, Resync, FailPacket
  <2>4. Reads
    BY <1>5, <2>2 DEF Reads, FailPacket
  <2>5. state' = state /\ pos' = pos + 2 /\ queue' = Packets(Here, pos, state.tc, TRUE, None)
    BY <2>1, <2>3 DEF ReadSimpleBlock, Advanced
  <2>6. PICK k \in DOMAIN stored : stored[k].at = pos
    BY <1>1, <2>1, PlaceRead DEF LeftIs, PacketsInv, StoredHold
  <2>7. PICK c \in Places : Governs(c, pos) /\ stored[k] = PacketAt(pos, c)
    BY <2>6 DEF LeftIs, PacketsInv, StoredHold, IsStored
  <2>8. queue' = <<stored[k]>>
    <3>1. state.tc = output[c + 2].v
      BY <2>7
    <3>2. Packets(Here, pos, state.tc, TRUE, None) = <<PacketAt(pos, c)>>
      <4> DEFINE P == Packets(Here, pos, state.tc, TRUE, None)
                 q == [stream |-> TrackIndex[Here.track], at |-> pos, frame |-> 1,
                       pts |-> state.tc + Here.off + 0, duration |-> None, key |-> TRUE]
                 flag == Here.key \/ TRUE
      <4>0. flag = TRUE
        OBVIOUS
      <4> HIDE DEF flag
      <4>1. P = [i \in 1 .. 1 |->
              [stream |-> TrackIndex[Here.track], at |-> pos, frame |-> i,
               pts |-> state.tc + Here.off + 0, duration |-> None, key |-> flag]]
        BY <2>1 DEF Packets, KeyFlag, flag
      <4> DEFINE cell(i) == [stream |-> TrackIndex[Here.track], at |-> pos, frame |-> i,
                             pts |-> state.tc + Here.off + 0, duration |-> None, key |-> flag]
      <4>a. \A i \in 1 .. 1 : i = 1
        OBVIOUS
      <4>b. cell(1) = q
        BY <4>0
      <4>c. P = [i \in 1 .. 1 |-> cell(i)]
        BY <4>1
      <4> HIDE DEF q, P, cell
      <4>2. P = [i \in 1 .. 1 |-> q]
        BY <4>a, <4>b, <4>c
      <4>3. P = <<q>>
        BY <4>2, OneCell
      <4> USE DEF P
      <4>4. q = PacketAt(pos, c)
        <5>0. output[c + 2].v \in Nat
          <6>1. c < pos /\ output[c + 1].id = "Cluster" /\ c \in Nat
            BY <1>3, <2>7 DEF Governs
          <6>2. c < BodyEnd
            <7> HIDE DEF BodyEnd, Places
            <7> QED BY <1>1, <1>2, <6>1
          <6>3. Header(file, c) = output[c + 1] /\ Header(file, c + 1) = output[c + 2] /\ (ClusterRead(c) \/ BlockRead(c))
            BY <6>2, PlaceRead
          <6> QED BY <6>1, <6>3 DEF ClusterRead, BlockRead
        <5>1. state.tc + Here.off + 0 = output[c + 2].v + output[pos + 1].off
          <6>1. Here.off \in Nat /\ output[pos + 1].off = Here.off /\ state.tc = output[c + 2].v
            BY <2>1, <3>1
          <6> QED BY <5>0, <6>1
        <5> QED BY <2>1, <5>1 DEF q, PacketAt
      <4> QED BY <4>3, <4>4
    <3> QED BY <2>5, <2>7, <3>2
  <2>9. \A d \in Places : Governs(d, pos + 2) => state.tc = output[d + 2].v
    <3> SUFFICES ASSUME NEW d \in Places, Governs(d, pos + 2) PROVE Governs(d, pos)
      OBVIOUS
    <3>1. d # pos
      BY <2>1 DEF Governs
    <3>2. d < pos + 2 /\ d \in Nat /\ (pos < d => pos + 2 <= d)
      BY <1>3 DEF Governs
    <3> HIDE DEF Places, BodyEnd, HeaderEnd
    <3>3. d < pos
      BY <1>1, <3>1, <3>2
    <3>4. \A x \in Places : x < pos => x < pos + 2
      BY <1>1, <1>3
    <3> QED BY <3>3, <3>4 DEF Governs
  <2> HIDE DEF Places
  <2>10. pos' < BodyEnd => PlaceOf(pos', state')
    BY <1>1, <2>5, <2>9 DEF PlaceOf
  <2>11. pos' \in Nat
    BY <1>1, <2>5
  <2>12. pos' >= BodyEnd \/ PlaceOf(pos', state')
    <3> HIDE DEF BodyEnd
    <3> QED BY <1>2, <2>10, <2>11
  <2>13. file.stored = stored
    BY DEF LeftIs
  <2> QED BY <2>4, <2>5, <2>6, <2>8, <2>12, <2>13
<1> QED BY <1>1, <1>6, <1>7

\* At a place a turn reads on, to the next one or past the last packet.
LEMMA PlacedReads ==
  ASSUME LeftIs, ReaderInv, Delivered, AtPlace, LoopTurn, queue = <<>>
  PROVE  Reads /\ Delivered' /\ (PlaceOf(pos', state') \/ pos' >= BodyEnd)
<1>1. /\ ReaderShape /\ pos \in Nat /\ given \in Seq(Range(given)) /\ HeaderEnd \in Nat
      /\ state # Idle => DOMAIN state = {"in", "start", "end", "tc"}
  BY BodyRead, ProbeAssumption DEF ReaderInv, ReaderShape, QueueInOrder
<1>2. /\ \A i \in DOMAIN file.stored :
           /\ file.stored[i].at \in Places /\ file.stored[i].at \in Nat
           /\ output[file.stored[i].at + 1].id = "SimpleBlock"
      /\ \A i, j \in DOMAIN file.stored : i < j => file.stored[i].at < file.stored[j].at
      /\ DOMAIN file.stored = 1 .. Len(file.stored) /\ Len(file.stored) \in Nat
  BY StoredPlaces
<1>3. \A x, y \in Places : x \in Nat /\ x + 1 \notin Places /\ (x < y => x + 2 <= y)
  BY <1>1, PlacesAre
<1>4. pos < BodyEnd
  BY DEF AtPlace
\* Nothing stored lies where the reader passes.
<1>5. ASSUME Reads, queue' = <<>>, pos' = pos + 1, \A i \in DOMAIN file.stored : file.stored[i].at # pos
      PROVE  Delivered'
  <2>1. \A i \in DOMAIN file.stored : file.stored[i].at < pos' <=> file.stored[i].at < pos
    <3> SUFFICES ASSUME NEW i \in DOMAIN file.stored
                 PROVE  file.stored[i].at < pos' <=> file.stored[i].at < pos
      OBVIOUS
    <3>1. file.stored[i].at \in Nat /\ file.stored[i].at # pos
      BY <1>2, <1>5
    <3> QED BY <1>1, <1>5, <3>1
  <2>2. given' = given /\ landing' = landing /\ file' = file
    BY <1>1, <1>5, ReadsAre
  <2> QED BY <1>5, <2>1, <2>2, StillDelivers
<1>6. CASE state = Idle /\ pos \in Places /\ output[pos + 1].id = "Cluster"
  <2>1. Reads /\ queue' = <<>> /\ pos' = pos + 1 /\ PlaceOf(pos', state')
    BY <1>4, <1>6, ClusterTurn
  <2>2. \A i \in DOMAIN file.stored : file.stored[i].at # pos
    BY <1>2, <1>6
  <2> QED BY <1>5, <2>1, <2>2
<1>7. CASE /\ state # Idle /\ state.in = "Cluster" /\ state.end = InputLen(file)
           /\ pos - 1 \in Places /\ output[pos].id = "Cluster"
  <2>1. Reads /\ queue' = <<>> /\ pos' = pos + 1 /\ (PlaceOf(pos', state') \/ pos' >= BodyEnd)
    <3>1. PICK o \in Places : o = pos - 1
      BY <1>7
    <3> QED BY <1>1, <1>4, <1>7, <3>1, TimestampTurn
  <2>2. \A i \in DOMAIN file.stored : file.stored[i].at # pos
    <3> HIDE DEF Places
    <3>1. (pos - 1) + 1 = pos
      BY <1>1
    <3>2. pos \notin Places
      BY <1>3, <1>7, <3>1
    <3> QED BY <1>2, <3>2
  <2> QED BY <1>5, <2>1, <2>2
<1>8. CASE /\ state # Idle /\ state.in = "Cluster" /\ state.end = InputLen(file)
           /\ pos \in Places /\ \A c \in Places : Governs(c, pos) => state.tc = output[c + 2].v
  <2>1. /\ Reads /\ (PlaceOf(pos', state') \/ pos' >= BodyEnd)
        /\ \/ queue' = <<>> /\ pos' = pos
           \/ /\ pos' = pos + 2
              /\ \E k \in DOMAIN file.stored : file.stored[k].at = pos /\ queue' = <<file.stored[k]>>
    BY <1>4, <1>8, ChildTurn
  <2>2. given' = given /\ landing' = landing /\ file' = file
    BY <1>1, <2>1, ReadsAre
  <2>3. CASE queue' = <<>> /\ pos' = pos
    <3>1. \A i \in DOMAIN file.stored : file.stored[i].at < pos' <=> file.stored[i].at < pos
      BY <2>3
    <3> QED BY <2>1, <2>2, <2>3, <3>1, StillDelivers
  <2>4. CASE /\ pos' = pos + 2
             /\ \E k \in DOMAIN file.stored : file.stored[k].at = pos /\ queue' = <<file.stored[k]>>
    <3>1. PICK k \in DOMAIN file.stored : file.stored[k].at = pos /\ queue' = <<file.stored[k]>>
      BY <2>4
    <3>2. \A i \in DOMAIN file.stored : file.stored[i].at < pos' <=> (file.stored[i].at < pos \/ i = k)
      <4> SUFFICES ASSUME NEW i \in DOMAIN file.stored
                   PROVE  file.stored[i].at < pos' <=> (file.stored[i].at < pos \/ i = k)
        OBVIOUS
      <4> DEFINE a == file.stored[i].at
      <4>1. /\ a \in Places /\ a \in Nat /\ (i < k => a < pos) /\ (k < i => pos < a) /\ (i = k => a = pos)
            /\ i \in Int /\ k \in Int
        BY <1>2, <3>1
      <4> HIDE DEF a, Places
      <4>2. pos < a => pos + 2 <= a
        BY <1>3, <1>8, <4>1
      <4>3. a < pos + 2 <=> (a < pos \/ i = k)
        BY <1>1, <4>1, <4>2
      <4> QED BY <2>4, <4>3 DEF a
    <3>3. Delivered'
      BY <1>1, <2>2, <3>1, <3>2, OneDelivers
    <3> QED BY <2>1, <3>3
  <2> QED BY <2>1, <2>3, <2>4
<1> QED BY <1>6, <1>7, <1>8 DEF AtPlace

\* Every turn of next_packet's loop keeps what ReadLeft says.
LEMMA TurnKeepsLeft ==
  ASSUME LeftIs, phase = "open", ReadLeft, LoopTurn, UNCHANGED opening, UNCHANGED writer
  PROVE  ReadLeft'
<1>1. /\ ReaderInv /\ ReaderShape /\ Delivered /\ landing.off \in Nat /\ (AllPassed \/ AtPlace)
      /\ last = "eof" => Done /\ queue = <<>>
      /\ last = "err" => ~Resilient /\ call = "idle" /\ queue = <<>> /\ AllPassed
      /\ queue \in Seq(Range(queue)) /\ given \in Seq(Range(given))
  BY DEF ReadLeft, ReaderInv, QueueInOrder
<1>2. ReaderInv'
  BY <1>1, TurnKeepsReader
<1>3. AllPassed => stored = <<>> \/ pos >= BodyEnd
  BY DEF AllPassed
<1>4. AtPlace => PlaceOf(pos, state)
  BY DEF AtPlace, PlaceOf
<1>5. CASE Reads
  <2>1. /\ call = "next" /\ last' = last /\ landing' = landing /\ file' = file /\ queue = <<>> /\ ~Done
    BY <1>1, <1>5, ReadsAre
  <2>2. Delivered' /\ (PlaceOf(pos', state') \/ stored = <<>> \/ pos' >= BodyEnd)
    <3>1. CASE AllPassed
      BY <1>1, <1>5, <3>1, PassedReads
    <3>2. CASE AtPlace
      BY <1>1, <2>1, <3>2, PlacedReads
    <3> QED BY <1>1, <3>1, <3>2
  <2>3. AllPassed' \/ AtPlace'
    BY <2>1, <2>2, PlaceMoves
  <2>4. last' # "eof" /\ last' # "err"
    BY <1>1, <2>1
  <2> QED BY <1>1, <1>2, <2>1, <2>2, <2>3, <2>4 DEF ReadLeft
<1>6. CASE ReturnPacket
  <2>1. /\ last' = "packet" /\ landing' = landing /\ file' = file /\ pos' = pos /\ state' = state
    BY <1>6 DEF ReturnPacket, input
  <2>2. Delivered'
    BY <1>1, <1>6, ReturnDelivers
  <2>3. AllPassed' \/ AtPlace'
    BY <1>1, <1>3, <1>4, <2>1, PlaceMoves
  <2> QED BY <1>1, <1>2, <2>1, <2>2, <2>3 DEF ReadLeft
<1>7. CASE EndOfSegment \/ FailPacket
  <2>1. /\ landing' = landing /\ file' = file /\ pos' = pos /\ state' = state /\ given' = given /\ queue' = queue
        /\ queue = <<>>
    BY <1>7 DEF EndOfSegment, FailPacket, input, stream, Turn, AdvanceFails, AtTop, Inside
  <2>2. Delivered'
    <3>1. queue' = <<>> /\ \A i \in DOMAIN file.stored : file.stored[i].at < pos' <=> file.stored[i].at < pos
      BY <2>1
    <3> QED BY <1>1, <2>1, <3>1, StillDelivers
  <2>3. AllPassed' \/ AtPlace'
    BY <1>1, <1>3, <1>4, <2>1, PlaceMoves
  <2>4. last' = "eof" => Done'
    <3> SUFFICES ASSUME last' = "eof" PROVE Done'
      OBVIOUS
    <3>1. EndOfSegment
      BY <1>7 DEF FailPacket
    <3>2. Done
      BY <3>1 DEF EndOfSegment, Done
    <3> QED BY <2>1, <3>2 DEF Done, SegmentEnd, Resilient, Idle
  <2>5. last' = "err" => ~Resilient' /\ call' = "idle" /\ AllPassed'
    <3> SUFFICES ASSUME last' = "err" PROVE ~Resilient' /\ call' = "idle" /\ AllPassed'
      OBVIOUS
    <3>1. FailPacket /\ ~Resilient /\ call' = "idle"
      BY <1>7 DEF FailPacket, EndOfSegment
    <3>2. AllPassed
      <4>1. AtPlace => Reads
        BY <1>1, <2>1, PlacedReads
      <4> QED BY <1>1, <3>1, <4>1 DEF Reads
    <3>3. ~Resilient'
      BY <2>1, <3>1 DEF Resilient
    <3>4. AllPassed'
      <4>1. BodyEnd' = BodyEnd /\ stored' = stored
        BY SameLayout, SameIndex DEF BodyEnd, writer
      <4> HIDE DEF BodyEnd
      <4> QED BY <2>1, <3>2, <4>1 DEF AllPassed
    <3> QED BY <3>1, <3>3, <3>4
  <2> QED BY <1>1, <1>2, <2>1, <2>2, <2>3, <2>4, <2>5 DEF ReadLeft
<1> QED BY <1>5, <1>6, <1>7 DEF Reads

-----------------------------------------------------------------------------
(* Seeks in what is left.                                                  *)

\* A cue of the writer's leads to its Cluster, among the packets.
LEMMA CuePlace ==
  ASSUME LeftIs, NEW q \in Range(index)
  PROVE  /\ q.off \in Places /\ q.off \in Nat /\ q.off < BodyEnd /\ output[q.off + 1].id = "Cluster"
         /\ q.num \in Nat /\ q.num >= 1 /\ q.off + 2 + 2 * q.num <= BodyEnd
         /\ \A j \in 1 .. q.num : output[q.off + 2 * j + 1].id = "SimpleBlock"
<1>1. PICK i \in DOMAIN index : q = index[i]
  BY DEF Range
<1>2. /\ q.off \in Nat /\ q.num \in Nat \ {0} /\ \E tc \in 0 .. q.time : HoldsBlocks(q.off, tc, q.num)
  BY <1>1 DEF LeftIs, WriterInv, IndexHolds
<1>3. /\ HeaderEnd <= q.off /\ q.off + 2 + 2 * q.num <= BodyEnd
      /\ output[q.off + 1].id = "Cluster" /\ output[q.off + 1].size = Unknown
      /\ \A j \in 1 .. q.num : output[q.off + 2 * j + 1].id = "SimpleBlock"
  <2>1. PICK tc \in 0 .. q.time : HoldsBlocks(q.off, tc, q.num)
    BY <1>2
  <2> HIDE DEF BodyEnd, HeaderEnd
  <2>2. /\ HeaderEnd <= q.off /\ q.off + 2 + 2 * q.num <= BodyEnd
        /\ output[q.off + 1] = [id |-> "Cluster", size |-> Unknown]
    BY <2>1 DEF HoldsBlocks
  <2>3. \A j \in 1 .. q.num : output[q.off + 2 * j + 1].id = "SimpleBlock"
    BY <2>1, Zenon DEF HoldsBlocks
  <2> QED BY <2>2, <2>3
<1>4. BodyEnd \in Nat /\ InputLen(file) \in Nat /\ (step # "header" => BodyEnd <= InputLen(file))
      /\ (step = "header" => BodyEnd = 0) /\ HeaderEnd \in Nat
  BY BodyRead
<1> DEFINE o == q.off
<1> HIDE DEF BodyEnd, HeaderEnd, Places
<1>5. o < BodyEnd /\ step # "header"
  BY <1>2, <1>3, <1>4
<1>6. Header(file, o) = output[o + 1]
  <2>1. \A x \in HeaderEnd .. BodyEnd - 1 : file.cells[x + 1] = output[x + 1]
    BY <1>5 DEF LeftIs, PacketsLeft
  <2>2. o \in HeaderEnd .. BodyEnd - 1 /\ o < InputLen(file)
    BY <1>2, <1>3, <1>4, <1>5
  <2> HIDE DEF o
  <2> QED BY <2>1, <2>2 DEF Header
<1>7. o \in Places
  <2>1. Header(file, o).id = "Cluster" /\ o \in Nat
    BY <1>2, <1>3, <1>6
  <2> HIDE DEF o
  <2>2. o >= BodyEnd \/ o \in Places
    BY <2>1, ElsewhereRead
  <2> QED BY <1>4, <1>5, <2>1, <2>2
<1> QED BY <1>2, <1>3, <1>5, <1>7

\* The Block a cue counts belongs to the Cluster it names.
LEMMA CuedBlock ==
  ASSUME LeftIs, NEW q \in Range(index), NEW at, at = q.off + 2 * q.num
  PROVE  /\ at \in Places /\ at \in Nat /\ at < BodyEnd /\ at # q.off
         /\ \A c \in Places : Governs(c, at) => c = q.off
<1>1. /\ q.off \in Places /\ q.off \in Nat /\ q.off < BodyEnd /\ output[q.off + 1].id = "Cluster"
      /\ q.num \in Nat /\ q.num >= 1 /\ q.off + 2 + 2 * q.num <= BodyEnd
      /\ \A j \in 1 .. q.num : output[q.off + 2 * j + 1].id = "SimpleBlock"
  BY CuePlace
<1>2. HeaderEnd \in Nat /\ BodyEnd \in Nat
  BY BodyRead
<1>3. PICK k \in Nat : q.off = HeaderEnd + 2 * k
  BY <1>1 DEF Places
<1> HIDE DEF BodyEnd, HeaderEnd
<1>4. at \in Nat /\ at < BodyEnd /\ q.off < at
  BY <1>1, <1>2
<1>5. at \in Places
  <2>1. k + q.num \in Nat /\ at = HeaderEnd + 2 * (k + q.num)
    BY <1>1, <1>2, <1>3
  <2> QED BY <2>1 DEF Places
<1>6. ASSUME NEW c \in Places, Governs(c, at) PROVE c = q.off
  <2>1. PICK n \in Nat : c = HeaderEnd + 2 * n
    BY DEF Places
  <2>2. /\ c < at /\ output[c + 1].id = "Cluster"
        /\ \A x \in Places : c < x /\ x < at => output[x + 1].id = "SimpleBlock"
    BY <1>6 DEF Governs
  <2> HIDE DEF Places
  <2>3. ~(c < q.off)
    BY <1>1, <1>4, <2>2
  <2>4. ~(q.off < c)
    <3> SUFFICES ASSUME q.off < c PROVE FALSE
      OBVIOUS
    <3> DEFINE j == n - k
    <3>1. j \in 1 .. q.num /\ c = q.off + 2 * j
      BY <1>1, <1>2, <1>3, <2>1, <2>2
    <3> HIDE DEF j
    <3>2. output[c + 1].id = "SimpleBlock"
      BY <1>1, <3>1
    <3> QED BY <2>2, <3>2
  <2> QED BY <1>1, <1>2, <2>1, <2>3, <2>4
<1> QED BY <1>4, <1>5, <1>6

\* A cue puts the reader at its Cluster or at its Block there, with the
\* Cluster's Timestamp.
LEMMA CueLandsIs ==
  ASSUME LeftIs, phase = "open", step \notin {"header", "packets"}, NEW q \in Range(index)
  PROVE  /\ ClusterEnd(file, q.off, SegmentEnd) = InputLen(file)
         /\ Parses(Header(file, q.off)) /\ ~Lies(q)
         /\ \/ CueLanding(q).at = q.off
            \/ /\ CueLanding(q).at = q.off + 2 * q.num
               /\ CueLanding(q).tc = Header(file, q.off + 1).v
<1> DEFINE end == InputLen(file)
<1>1. /\ LegalFile(file) /\ SegmentEnd = end /\ end \in 0 .. Far /\ end \in Nat /\ Far \in Nat
  BY OpenedIs DEF LeftIs
<1>2. /\ q.off \in Nat /\ q.num \in Nat \ {0} /\ q.rel = 2 * q.num - 1
      /\ q.off + 2 + 2 * q.num <= end
      /\ Header(file, q.off) = [id |-> "Cluster", size |-> Unknown]
      /\ \A j \in 1 .. q.num :
           Header(file, q.off + 2 * j).id = "SimpleBlock" /\ Header(file, q.off + 2 * j).size = 1
  BY CuedCluster DEF LeftIs
<1>3. PICK tc \in Nat : Header(file, q.off + 1) = [id |-> "Timecode", size |-> 0, v |-> tc]
  <2>1. \E tc \in 0 .. q.time : Header(file, q.off + 1) = [id |-> "Timecode", size |-> 0, v |-> tc]
    BY CuedCluster DEF LeftIs
  <2> QED BY <2>1
<1>4. ~Lies(q)
  <2>1. CueIsTrue(q)
    BY CuesAreTrue DEF LeftIs
  <2> QED BY <2>1 DEF CueIsTrue
<1> HIDE DEF end
<1>5. ClusterEnd(file, q.off, SegmentEnd) = end /\ Parses(Header(file, q.off))
  BY <1>1, <1>2 DEF ClusterEnd, Parses
<1> DEFINE off == q.off
           num == q.num
           rel == q.rel
           target == Past(off + 1, rel)
           D == [at : Nat, tc : Int]
           stop == {x \in D : \/ x.at >= target
                              \/ ~Parses(Header(file, x.at)) \/ NextAt(file, x.at) > end}
           step1 == [x \in D |-> [at |-> NextAt(file, x.at), tc |-> TcPast(x)]]
           start == [at |-> off + 1, tc |-> 0]
           w == Until(stop, step1, start)
           m == [x \in D |-> ElementsLeft(target, x.at)]
           G == {start} \cup {[at |-> off + 2 * j, tc |-> tc] : j \in 1 .. num}
<1>6. target = off + 2 * num /\ target \in 0 .. Far /\ target \in Nat /\ target < end
  <2> DEFINE b == off + 1
             at == off + 2 * num
  <2>1. /\ b \in Nat /\ rel \in Nat /\ b + rel = at /\ at \in Nat /\ at <= Far /\ at < end
    BY <1>1, <1>2
  <2>2. target = Past(b, rel)
    OBVIOUS
  <2> HIDE DEF at, b, rel, target
  <2>3. Min({at, Far}) = at
    BY <1>1, <2>1, MinOfTwo
  <2>4. rel # Unknown
    BY <2>1 DEF Unknown
  <2>5. Past(b, rel) = at
    BY <2>1, <2>3, <2>4 DEF Past
  <2>6. target = at /\ at \in 0 .. Far /\ at \in Nat
    BY <1>1, <2>1, <2>2, <2>5
  <2> QED BY <2>1, <2>6 DEF at
<1>7. CueLanding(q) = IF target > end \/ w.at < target THEN Degraded(off) ELSE [w EXCEPT !.at = target]
  <2>1. CueLanding(q) = RelativeLanding(off, rel)
    BY <1>2 DEF CueLanding, None
  <2> QED BY <1>5, <2>1 DEF RelativeLanding
<1> HIDE DEF target
<1>8. ASSUME NEW x \in D PROVE step1[x] \in D
  <2>1. NextAt(file, x.at) \in Nat
    BY ElementsRunOut, <1>1
  <2>2. TcPast(x) \in Int
    BY <1>1, HeaderIs DEF TcPast
  <2> QED BY <2>1, <2>2
<1>9. Descends(D, step1, stop, m, Far)
  <2>1. m \in [D -> 0 .. Far]
    BY <1>1, <1>6, ElementsRunOut
  <2>2. ASSUME NEW x \in D \ stop PROVE m[step1[x]] < m[x]
    <3>1. x.at \in Nat /\ x.at < target
      BY <1>6
    <3>2. ElementsLeft(target, NextAt(file, x.at)) < ElementsLeft(target, x.at)
      BY <1>1, <1>6, <3>1, ElementsRunOut
    <3>3. step1[x] \in D /\ step1[x].at = NextAt(file, x.at)
      BY <1>8
    <3> QED BY <3>2, <3>3
  <2>3. DOMAIN step1 = D
    OBVIOUS
  <2> HIDE DEF m, step1, stop
  <2> QED BY <1>1, <1>8, <2>1, <2>2, <2>3 DEF Descends
<1>10. NextAt(file, off + 1) = off + 2
  <2> DEFINE p == off + 1
  <2>1. /\ p \in Nat /\ p + 1 \in Nat /\ p + 1 = off + 2 /\ p + 1 <= Far /\ (p + 1) + 0 = p + 1
        /\ Header(file, p).size = 0
    BY <1>1, <1>2, <1>3
  <2> HIDE DEF p, off
  <2>2. Min({p + 1, Far}) = p + 1
    BY <1>1, <2>1, MinOfTwo
  <2>3. NextAt(file, p) = p + 1
    BY <2>1, <2>2 DEF NextAt, Past, Unknown
  <2> QED BY <2>1, <2>3 DEF p
<1>11. ASSUME NEW j \in 1 .. num PROVE NextAt(file, off + 2 * j) = off + 2 * (j + 1)
  <2> DEFINE p == off + 2 * j
  <2>1. p \in Nat /\ p + 1 \in Nat /\ p + 2 \in Nat /\ p + 2 <= Far /\ p + 2 = off + 2 * (j + 1) /\ (p + 1) + 1 = p + 2
    BY <1>1, <1>2
  <2>2. Header(file, p).size = 1
    BY <1>2
  <2> HIDE DEF p
  <2>3. Min({p + 2, Far}) = p + 2
    BY <1>1, <2>1, MinOfTwo
  <2>4. NextAt(file, p) = p + 2
    BY <2>1, <2>2, <2>3 DEF NextAt, Past, Unknown
  <2> QED BY <2>1, <2>4 DEF p
<1>12. off \in Nat /\ num \in Nat /\ num >= 1 /\ tc \in Int
  BY <1>2
<1>13. \A j \in 1 .. num : Header(file, off + 2 * j).id = "SimpleBlock"
  BY <1>2
<1>14. Header(file, off + 1).id = "Timecode" /\ Header(file, off + 1).v = tc
  BY <1>3
<1>15. G \subseteq D
  <2>1. \A j \in 1 .. num : [at |-> off + 2 * j, tc |-> tc] \in D
    BY <1>12
  <2>2. start \in D
    BY <1>12
  <2> HIDE DEF D, start
  <2> QED BY <2>1, <2>2
<1>16. ASSUME NEW x \in G \ stop PROVE step1[x] \in G
  <2>0. x \in D /\ x.at < target
    BY <1>6, <1>15
  <2>1. step1[x] = [at |-> NextAt(file, x.at), tc |-> TcPast(x)]
    BY <2>0
  <2>2. CASE x = start
    <3>1. x.at = off + 1 /\ TcPast(x) = tc
      BY <1>14, <2>2 DEF TcPast
    <3>2. step1[x] = [at |-> off + 2 * 1, tc |-> tc] /\ 1 \in 1 .. num
      BY <1>10, <1>12, <2>1, <3>1
    <3> HIDE DEF step1
    <3> QED BY <3>2
  <2>3. ASSUME NEW j \in 1 .. num, x = [at |-> off + 2 * j, tc |-> tc] PROVE step1[x] \in G
    <3>1. x.at = off + 2 * j /\ x.tc = tc /\ j \in Nat
      BY <2>3
    <3>2. j + 1 \in 1 .. num
      BY <1>6, <1>12, <2>0, <3>1
    <3>3. TcPast(x) = tc
      BY <1>13, <3>1 DEF TcPast
    <3>4. step1[x] = [at |-> off + 2 * (j + 1), tc |-> tc]
      BY <1>11, <2>1, <3>1, <3>3
    <3> HIDE DEF step1
    <3> QED BY <3>2, <3>4
  <2> QED BY <2>2, <2>3
<1>17. w \in G
  <2> HIDE DEF m, step1, stop, D, G
  <2>1. Keeps(step1, stop, G)
    BY <1>16 DEF Keeps
  <2>2. start \in G
    BY DEF G
  <2> QED BY <1>9, <1>15, <2>1, <2>2, UntilIs
<1> HIDE DEF w, stop, step1, m
<1>18. CASE target > end \/ w.at < target
  <2>1. CueLanding(q).at = off
    BY <1>7, <1>18 DEF Degraded
  <2> QED BY <1>4, <1>5, <2>1 DEF end
<1>19. CASE ~(target > end \/ w.at < target)
  <2>1. CueLanding(q) = [w EXCEPT !.at = target]
    BY <1>7, <1>19
  <2>2. w # start
    BY <1>6, <1>12, <1>19
  <2>3. PICK j \in 1 .. num : w = [at |-> off + 2 * j, tc |-> tc]
    BY <1>17, <2>2
  <2>4. CueLanding(q).at = target /\ CueLanding(q).tc = tc
    BY <2>1, <2>3
  <2> QED BY <1>4, <1>5, <1>6, <1>14, <2>4 DEF end
<1> QED BY <1>18, <1>19

\* Whatever the file holds, the searches without Cues end at a Cluster.
AtCluster(f, off) == off = None \/ Header(f, off).id = "Cluster"

\* The linear search ends at a Cluster or finds none.
LEMMA LinearScanCluster ==
  ASSUME NEW f, LegalFile(f), NEW end \in 0 .. Far, NEW target \in Int
  PROVE  AtCluster(f, LinearScan(f, end, target).off)
<1> DEFINE G == {x \in LinearStates : AtCluster(f, x.best.off)}
           w == LinearEnd(f, end, target)
<1>1. Far \in Nat /\ None \in Int /\ end \in Nat
  BY ProbeAssumption DEF None
<1>2. LinearStart(f) \in G
  <2>1. f.first \in Nat \cup {None}
    <3>1. f.first \in (0 .. Far) \cup {None}
      BY DEF LegalFile
    <3> QED BY <1>1, <3>1
  <2> QED BY <1>1, <2>1 DEF LinearStart, LinearStates, AtCluster
<1>3. ASSUME NEW x \in G, x.at \in Nat, x.at < end
      PROVE  [at |-> LinearBehind(f, end, target, x.at),
              best |-> LinearBest(f, end, target, x.at, x.best)] \in G
  <2> DEFINE to == LinearBehind(f, end, target, x.at)
             b == LinearBest(f, end, target, x.at, x.best)
             ts == LinearTs(f, end, x.at)
  <2>1. ts \in Int /\ to \in Nat \cup {None}
    BY <1>3, LinearTurnIs
  <2>2. x.best \in [off : Nat \cup {None}, ts : Int] /\ AtCluster(f, x.best.off)
    BY DEF LinearStates
  <2>3. ts # None => Header(f, x.at).id = "Cluster"
    BY DEF LinearTs
  <2>4. b = IF ts # None /\ (ts <= target \/ x.best.off = None) THEN [off |-> x.at, ts |-> ts] ELSE x.best
    BY DEF LinearBest
  <2> HIDE DEF to, b, ts
  <2>5. b \in [off : Nat \cup {None}, ts : Int] /\ AtCluster(f, b.off)
    BY <1>3, <2>1, <2>2, <2>3, <2>4 DEF AtCluster
  <2>6. [at |-> to, best |-> b] \in G
    BY <2>1, <2>5 DEF LinearStates
  <2> QED BY <2>6 DEF to, b
<1>4. w \in G
  <2>1. G \subseteq LinearStates
    OBVIOUS
  <2> HIDE DEF G
  <2> QED BY <1>2, <1>3, <2>1, LinearScanStays
<1>5. LinearScan(f, end, target) = IF w.best.off = None THEN NoLanding
                                   ELSE [off |-> w.best.off, ts |-> w.best.ts, how |-> "LinearScan"]
  BY LinearScanWalks
<1> HIDE DEF w
<1> QED BY <1>4, <1>5 DEF NoLanding, AtCluster

\* So does the bisection.
LEMMA BisectCluster ==
  ASSUME NEW f, LegalFile(f), NEW end \in 0 .. Far, NEW target \in Int, NEW tolerate
  PROVE  AtCluster(f, Bisect(f, end, target, tolerate).off)
<1> DEFINE G == {x \in Brackets : Header(f, x.lo.off).id = "Cluster"}
           s == BisectEnd(f, end, target, tolerate)
           l == Bisect(f, end, target, tolerate)
<1>1. Far \in Nat /\ end \in Nat
  BY ProbeAssumption
<1>2. ASSUME NEW x \in G, LoNextOf(x) < x.hi
      PROVE  HalvedBy(target, x, ProbedOf(f, end, tolerate, x)) \in G
  <2> DEFINE c == ProbedOf(f, end, tolerate, x)
  <2>1. FromOf(x) \in Nat /\ (c = NoProbe \/ (c \in Probes /\ Header(f, c.off).id = "Cluster"))
    BY <1>2, ProbedIs
  <2> HIDE DEF c
  <2>2. c \in Probes => c.off \in Nat /\ c.ts \in Int
    BY DEF Probes
  <2>3. /\ x.lo \in Probes /\ x.hi \in Nat /\ x.hiTs \in Int /\ x.probes + 1 \in Nat
        /\ Header(f, x.lo.off).id = "Cluster"
    BY DEF Brackets
  <2> DEFINE y == HalvedBy(target, x, c)
  <2>4. y \in Brackets /\ Header(f, y.lo.off).id = "Cluster"
    BY <2>1, <2>2, <2>3 DEF HalvedBy, Brackets
  <2> QED BY <2>4 DEF c
<1>3. ASSUME f.first # None, FirstProbe(f, end, tolerate) # NoProbe PROVE s \in G
  <2> DEFINE c == FirstProbe(f, end, tolerate)
  <2>1. f.first \in Nat
    <3>1. f.first \in (0 .. Far) \cup {None}
      BY DEF LegalFile
    <3> QED BY <1>1, <1>3, <3>1
  <2>2. Header(f, c.off).id = "Cluster"
    BY <1>1, <1>3, <2>1, ProbeFromIs DEF FirstProbe
  <2>3. BisectStart(f, end, tolerate) \in Brackets /\ BisectStart(f, end, tolerate).lo = c
    BY <1>3, FirstProbeIs DEF BisectStart
  <2>4. BisectStart(f, end, tolerate) \in G /\ G \subseteq Brackets
    BY <2>2, <2>3
  <2> HIDE DEF G
  <2> QED BY <1>2, <2>4, BisectStays
<1>4. AtCluster(f, LinearScan(f, end, target).off)
  BY LinearScanCluster
<1>5. \/ f.first = None /\ l = NoLanding
      \/ f.first # None /\ l = LinearScan(f, end, target)
      \/ /\ f.first # None /\ FirstProbe(f, end, tolerate) # NoProbe
         /\ l = [off |-> s.lo.off, ts |-> s.lo.ts, how |-> "Bisection"]
  BY BisectWalks
<1> HIDE DEF s, l
<1> QED BY <1>3, <1>4, <1>5 DEF NoLanding, AtCluster, l

\* Where a seek leaves the reader.
LEMMA SeekPlace ==
  ASSUME LeftIs, phase = "open", ReaderShape, SeekTo
  PROVE  /\ ~(last' = "err") /\ last' = "open" /\ file' = file /\ queue' = <<>> /\ given' = <<>>
         /\ pos' \in Nat /\ landing'.off = pos'
         /\ PlaceOf(pos', state') \/ stored = <<>> \/ pos' >= BodyEnd
<1>1. PICK track \in DOMAIN TrackIndex, pts \in Targets :
        SeekByCue(track, pts) \/ SeekFails(track, pts) \/ SeekCueless(track, pts)
  BY DEF SeekTo
<1>2. LegalFile(file) /\ SegmentEnd \in 0 .. Far /\ Far \in Nat
  BY ProbeAssumption, SegmentEndIs DEF ReaderShape
<1>3. Ticks(pts) \in Int
  BY TargetsAssumption, MaxOfTwo DEF Ticks
<1> DEFINE cue == BestCue(track, Ticks(pts))
<1>4. HasCues(track) => /\ cue \in Range(index) /\ step \notin {"header", "packets"}
  <2>1. HasCues(track) => cue \in Range(file.cues) /\ file.cues # <<>>
    BY <1>2, <1>3, BestCueIs DEF HasCues
  <2>2. Range(file.cues) \subseteq Range(index) /\ (file.cues # <<>> => step \notin {"header", "packets"})
    BY DEF LeftIs, Opening, FileLeft
  <2> QED BY <2>1, <2>2
<1> HIDE DEF cue
<1>5. ASSUME HasCues(track)
      PROVE  /\ ClusterEnd(file, cue.off, SegmentEnd) = InputLen(file)
             /\ Parses(Header(file, cue.off)) /\ ~Lies(cue)
             /\ \/ CueLanding(cue).at = cue.off
                \/ /\ CueLanding(cue).at = cue.off + 2 * cue.num
                   /\ CueLanding(cue).tc = Header(file, cue.off + 1).v
             /\ cue.off \in Places /\ cue.off \in Nat /\ cue.off < BodyEnd /\ output[cue.off + 1].id = "Cluster"
  BY <1>4, <1>5, CueLandsIs, CuePlace
<1>6. CASE SeekByCue(track, pts)
  <2> DEFINE l == CueLanding(cue)
             landed == InCluster(cue.off + 1, ClusterEnd(file, cue.off, SegmentEnd), l.tc)
  <2>1. /\ HasCues(track) /\ Landed(l.at, cue.time, "Cues", track, pts)
        /\ IF l.at = cue.off THEN state' = Idle ELSE state' = landed
    BY <1>6 DEF SeekByCue, cue
  <2>2. /\ last' = "open" /\ file' = file /\ queue' = <<>> /\ given' = <<>> /\ pos' = l.at
        /\ landing'.off = pos'
    BY <2>1 DEF Landed
  <2>3. CASE l.at = cue.off
    <3>1. PlaceOf(pos', state') /\ pos' \in Nat
      BY <1>5, <2>1, <2>2, <2>3 DEF PlaceOf
    <3> QED BY <2>2, <3>1
  <2>4. CASE l.at # cue.off
    <3> DEFINE at == cue.off + 2 * cue.num
    <3>1. pos' = at /\ l.tc = Header(file, cue.off + 1).v /\ state' = landed
      BY <1>5, <2>1, <2>2, <2>4
    <3>2. /\ at \in Places /\ at \in Nat /\ at < BodyEnd
          /\ \A c \in Places : Governs(c, at) => c = cue.off
      <4> HIDE DEF Places, BodyEnd, Governs
      <4> QED BY <1>4, <2>1, CuedBlock
    <3>3. Header(file, cue.off + 1) = output[cue.off + 2]
      <4> DEFINE o == cue.off
      <4>1. o \in Places /\ o < BodyEnd
        BY <1>5, <2>1
      <4> HIDE DEF o
      <4>2. Header(file, o + 1) = output[o + 2]
        BY <4>1, PlaceRead
      <4> QED BY <4>2 DEF o
    <3>4. landed # Idle /\ landed.in = "Cluster" /\ landed.end = InputLen(file) /\ landed.tc = l.tc
      <4>1. landed.start = cue.off + 1 /\ landed.in = "Cluster" /\ landed.tc = l.tc
            /\ landed.end = ClusterEnd(file, cue.off, SegmentEnd)
        BY DEF InCluster
      <4>2. landed # Idle
        BY <4>1 DEF Idle
      <4> HIDE DEF landed
      <4> QED BY <1>5, <2>1, <4>1, <4>2
    <3> HIDE DEF landed, l
    <3>5. \A c \in Places : Governs(c, at) => landed.tc = output[c + 2].v
      BY <3>1, <3>2, <3>3, <3>4
    <3> HIDE DEF at
    <3>6. PlaceOf(at, landed)
      BY <3>2, <3>4, <3>5 DEF PlaceOf
    <3> QED BY <2>2, <3>1, <3>2, <3>6
  <2> QED BY <2>3, <2>4
<1>7. CASE SeekFails(track, pts)
  <2>1. HasCues(track) /\ ~Parses(Header(file, cue.off))
    BY <1>7 DEF SeekFails, cue
  <2> QED BY <1>5, <2>1
<1>8. CASE SeekCueless(track, pts)
  <2> DEFINE l == Bisect(file, SegmentEnd, Ticks(pts), Resilient)
  <2>1. l.off \in (0 .. Far) \cup {None} /\ AtCluster(file, l.off)
    BY <1>2, <1>3, BisectIs, BisectCluster
  <2> HIDE DEF l
  <2>2. l.off # None /\ state' = Idle /\ Landed(l.off, l.ts, l.how, track, pts)
    BY <1>8 DEF SeekCueless, l
  <2>3. /\ last' = "open" /\ file' = file /\ queue' = <<>> /\ given' = <<>> /\ pos' = l.off
        /\ landing'.off = pos'
    BY <2>2 DEF Landed
  <2>4. l.off \in Nat /\ Header(file, l.off).id = "Cluster"
    BY <1>2, <2>1, <2>2 DEF AtCluster
  <2> DEFINE o == l.off
  <2> HIDE DEF o, Places, BodyEnd
  <2>5. o \in Nat /\ Header(file, o).id = "Cluster"
    BY <2>4 DEF o
  <2>6. o >= BodyEnd \/ (o \in Places /\ o < BodyEnd)
    <3>1. o >= BodyEnd \/ o \in Places
      BY <2>5, ElsewhereRead
    <3>2. BodyEnd \in Nat
      BY BodyRead
    <3> QED BY <2>5, <3>1, <3>2
  <2>7. o \in Places /\ o < BodyEnd => Header(file, o) = output[o + 1]
    BY PlaceRead
  <2>8. PlaceOf(o, Idle) \/ o >= BodyEnd
    BY <2>5, <2>6, <2>7 DEF PlaceOf
  <2> QED BY <2>2, <2>3, <2>4, <2>8 DEF o
<1> QED BY <1>1, <1>6, <1>7, <1>8

\* A seek starts the packets from where it lands.
LEMMA SeekKeepsLeft ==
  ASSUME LeftIs, phase = "open", ReadLeft, SeekTo, UNCHANGED opening, UNCHANGED writer
  PROVE  ReadLeft'
<1>1. ReaderInv /\ ReaderShape /\ phase' = "open"
  BY DEF ReadLeft, ReaderInv, opening
<1>2. ReaderInv'
  BY <1>1, SeekKeepsReader
<1>3. /\ last' = "open" /\ file' = file /\ queue' = <<>> /\ given' = <<>>
      /\ pos' \in Nat /\ landing'.off = pos'
      /\ PlaceOf(pos', state') \/ stored = <<>> \/ pos' >= BodyEnd
  BY <1>1, SeekPlace
<1>4. AllPassed' \/ AtPlace'
  BY <1>3, PlaceMoves
<1>5. Delivered'
  <2>1. StoredInOrder(file)
    BY StoredPlaces
  <2> QED BY <1>3, <2>1, LandingDelivers
<1> QED BY <1>2, <1>3, <1>4, <1>5 DEF ReadLeft

-----------------------------------------------------------------------------
(* Every step of the system.                                               *)

\* The reader changes nothing of what was left.
LEMMA PacketsLeftStays ==
  ASSUME UNCHANGED writer, NEW c, PacketsLeft(c)
  PROVE  PacketsLeft(c)'
<1>1. UNCHANGED <<output, layout, step, left, cluster, index, entry, maxEnd, stored>>
  BY DEF writer
<1>2. BodyEnd' = BodyEnd /\ HeaderEnd' = HeaderEnd
  BY <1>1, SameLayout, SameIndex DEF BodyEnd
<1> HIDE DEF BodyEnd, HeaderEnd
<1> QED BY <1>1, <1>2 DEF PacketsLeft

\* The cells and the truth about a file stay while it is opened and read.
LEMMA FileKept ==
  ASSUME ReaderStep, FileFields \subseteq DOMAIN file, {"stored", "clusters"} \subseteq DOMAIN file
  PROVE  /\ file'.cells = file.cells /\ file'.stored = file.stored /\ DOMAIN file' = DOMAIN file
         /\ InputLen(file') = InputLen(file) /\ Resilient' = Resilient
         /\ phase \in {"chase", "open"} => file'.first = file.first /\ file'.dataEnd = file.dataEnd
<1>1. "cells" \in DOMAIN file /\ "first" \in DOMAIN file /\ "dataEnd" \in DOMAIN file /\ "resilient" \in DOMAIN file
  BY DEF FileFields
<1>2. CASE OpenSegment
  BY <1>1, <1>2 DEF OpenSegment, InputLen, Resilient
<1>3. CASE ReadMaster \/ StepOver \/ StepOverGarbage
  <2>1. file' = file
    BY <1>3 DEF ReadMaster, StepOver, StepOverGarbage
  <2> QED BY <2>1 DEF InputLen, Resilient
<1>4. CASE StopWalk
  <2>1. phase = "walk" /\ (file' = file \/ file' = [file EXCEPT !.first = pos])
    BY <1>4 DEF StopWalk
  <2> QED BY <1>1, <2>1 DEF InputLen, Resilient
<1>5. CASE FollowTarget
  BY <1>5 DEF FollowTarget, input, InputLen, Resilient
<1>6. CASE FinishOpen
  <2> DEFINE info == found.Info \o found.Chapters \o found.Attachments
             live == file.declared = Unknown /\ found.SeekHead = <<>>
  <2>1. \/ file' = file
        \/ file' = [file EXCEPT !.cues = found.Cues, !.info = info, !.tags = found.Tags, !.live = live]
    BY <1>6 DEF FinishOpen, input
  <2> HIDE DEF info, live
  <2> QED BY <1>1, <2>1 DEF InputLen, Resilient
<1>7. CASE Call \/ (phase = "open" /\ LoopTurn /\ UNCHANGED opening)
  <2>1. file' = file
    BY <1>7, FileStays DEF Call, Next
  <2> QED BY <2>1 DEF InputLen, Resilient
<1>8. CASE ScanForCues
  <2>1. file' = file \/ \E c : file' = [file EXCEPT !.cues = c]
    BY <1>8 DEF ScanForCues
  <2> QED BY <1>1, <2>1 DEF InputLen, Resilient
<1> QED BY <1>2, <1>3, <1>4, <1>5, <1>6, <1>7, <1>8 DEF ReaderStep, Working, OpenStep

\* Nothing is read before the file is open.
LEMMA PristineStays ==
  ASSUME Pristine, UNCHANGED demuxer
  PROVE  Pristine'
BY DEF Pristine, demuxer, history, Idle

\* The walk ends at the first Cluster.
LEMMA WalkKept ==
  ASSUME LeftIs, WalkLeft, OpenStep, ~FinishOpen, phase # "open", UNCHANGED writer, InputLen(file') = InputLen(file)
  PROVE  WalkLeft'
<1>1. UNCHANGED <<output, layout, step, left, cluster, index, entry, maxEnd, stored>>
  BY DEF writer
<1>2. HeaderEnd' = HeaderEnd
  BY <1>1, SameLayout
<1>3. SUFFICES ASSUME stored # <<>>
               PROVE  /\ phase' = "walk" => pos' <= HeaderEnd
                      /\ phase' \in {"chase", "open"} => file'.first = HeaderEnd
  BY <1>1, <1>2 DEF WalkLeft
<1> HIDE DEF HeaderEnd
<1>4. CASE ReadMaster \/ StepOver \/ StepOverGarbage
  <2>1. phase = "walk"
    BY <1>4 DEF ReadMaster, StepOver, StepOverGarbage, Walking
  <2>2. pos <= HeaderEnd /\ pos \in Nat
    BY <1>3, <2>1 DEF WalkLeft, LeftIs, Opening, ReaderPlace
  <2>3. phase' # "failed" => phase' = "walk" /\ pos' <= HeaderEnd
    BY <1>3, <1>4, <2>1, <2>2, WalkStays
  <2> QED BY <2>3
<1>5. CASE StopWalk
  <2>1. phase = "walk" /\ phase' = "chase"
    BY <1>5 DEF StopWalk
  <2>2. pos <= HeaderEnd /\ pos \in Nat
    BY <1>3, <2>1 DEF WalkLeft, LeftIs, Opening, ReaderPlace
  <2>3. /\ step # "header" /\ HeaderEnd < BodyEnd
        /\ \A o \in 0 .. HeaderEnd - 1 : Header(file, o).id # "Cluster"
    BY <1>3, WalkPlace
  <2>4. /\ SegmentEnd = InputLen(file) /\ BodyEnd <= InputLen(file) /\ InputLen(file) \in Nat /\ BodyEnd \in Nat
        /\ HeaderEnd \in Nat
    BY <2>3, BodyRead
  <2> HIDE DEF BodyEnd
  <2>5. ~(pos >= SegmentEnd)
    BY <2>2, <2>3, <2>4
  <2>6. Here.id = "Cluster" /\ file' = [file EXCEPT !.first = pos]
    BY <1>5, <2>5 DEF StopWalk
  <2>7. pos = HeaderEnd
    BY <2>2, <2>3, <2>4, <2>6 DEF Here
  <2>8. "first" \in DOMAIN file
    BY DEF LeftIs, Opening, FileLeft, FileFields
  <2> QED BY <2>1, <2>6, <2>7, <2>8
<1>6. CASE FollowTarget
  <2>1. phase = "chase" /\ phase' = phase /\ file' = file
    BY <1>6 DEF FollowTarget, input
  <2> QED BY <1>3, <2>1 DEF WalkLeft
<1> QED BY <1>4, <1>5, <1>6 DEF OpenStep

\* The demuxer starts at the first Cluster, with nothing read.
LEMMA OpenedLeft ==
  ASSUME LeftIs, Pristine, WalkLeft, FinishOpen, UNCHANGED writer, LegalFile(file)',
         file'.stored = file.stored, file'.first = file.first, InputLen(file') = InputLen(file)
  PROVE  WalkLeft' /\ ReadLeft'
<1>1. UNCHANGED <<output, layout, step, left, cluster, index, entry, maxEnd, stored>>
  BY DEF writer
<1>2. HeaderEnd' = HeaderEnd /\ HeaderEnd \in Nat
  BY <1>1, SameLayout, BodyRead
<1>3. phase = "chase" /\ phase' \in {"open", "failed"}
  BY DEF FinishOpen
<1>4. WalkLeft'
  BY <1>1, <1>2, <1>3 DEF WalkLeft
<1>5. SUFFICES ASSUME phase' = "open" PROVE ReadLeft'
  BY <1>3, <1>4 DEF ReadLeft
<1>6. pos' = IF file.first = None THEN SegmentEnd ELSE file.first
  BY <1>5 DEF FinishOpen
<1>7. SegmentEnd \in 0 .. Far /\ file.first \in (0 .. Far) \cup {None} /\ Far \in Nat
  <2>1. LegalFile(file) /\ SegmentEnd = InputLen(file) /\ InputLen(file) \in 0 .. Far /\ Far \in Nat
    BY BodyRead
  <2> QED BY <2>1 DEF LegalFile
<1>8. pos' \in 0 .. Far /\ pos' \in Nat
  BY <1>6, <1>7
<1>9. /\ state' = Idle /\ queue' = <<>> /\ floor' = 0 /\ call' = "idle"
      /\ last' = "open" /\ given' = <<>> /\ landing'.off = 0
  BY DEF FinishOpen, demuxer, history, Pristine
<1>10. ReaderInv'
  <2>1. ReaderShape'
    BY <1>8, <1>9 DEF ReaderShape, Idle
  <2>2. <<>> \in Seq(Range(<<>>)) /\ DOMAIN <<>> = {} /\ Range(<<>>) = {}
    BY DEF Range
  <2>3. QueueInOrder'
    BY <1>9, <2>2, Zenon DEF QueueInOrder
  <2> QED BY <2>1, <2>3 DEF ReaderInv
<1>11. ASSUME stored # <<>> PROVE pos' = HeaderEnd
  <2>1. file.first = HeaderEnd
    BY <1>3, <1>11 DEF WalkLeft
  <2> HIDE DEF HeaderEnd
  <2> QED BY <1>2, <1>6, <2>1 DEF None
<1>12. Delivered'
  <2>1. /\ StoredInOrder(file)
        /\ \A i \in DOMAIN file.stored : file.stored[i].at \in Places /\ file.stored[i].at \in Nat
    BY StoredPlaces
  <2>2. \A o \in Places : HeaderEnd <= o
    BY <1>2, PlacesAre
  <2>3. \A i \in DOMAIN file.stored : file.stored[i].at < pos' <=> file.stored[i].at < 0
    <3> SUFFICES ASSUME NEW i \in DOMAIN file.stored PROVE file.stored[i].at < pos' <=> file.stored[i].at < 0
      OBVIOUS
    <3>1. file.stored = stored /\ stored \in Seq(Range(stored))
      BY DEF LeftIs, WriterInv, WriterShape
    <3>2. stored # <<>>
      BY <3>1
    <3> HIDE DEF HeaderEnd, Places
    <3> QED BY <1>2, <1>11, <2>1, <2>2, <3>2
  <2> QED BY <1>9, <2>1, <2>3, LandingDelivers
<1>13. AllPassed' \/ AtPlace'
  <2>1. stored # <<>> => PlaceOf(HeaderEnd, Idle)
    <3> SUFFICES ASSUME stored # <<>> PROVE PlaceOf(HeaderEnd, Idle)
      OBVIOUS
    <3>1. HeaderEnd \in Places /\ HeaderEnd < BodyEnd /\ ClusterRead(HeaderEnd)
      BY WalkPlace
    <3>2. Header(file, HeaderEnd) = output[HeaderEnd + 1]
      <4> DEFINE h == HeaderEnd
      <4>1. h \in Places /\ h < BodyEnd
        BY <3>1
      <4> HIDE DEF h
      <4>2. Header(file, h) = output[h + 1]
        BY <4>1, PlaceRead
      <4> QED BY <4>2 DEF h
    <3>3. output[HeaderEnd + 1].id = "Cluster"
      BY <3>1, <3>2 DEF ClusterRead
    <3> HIDE DEF HeaderEnd, BodyEnd, Places
    <3> QED BY <3>1, <3>3 DEF PlaceOf
  <2>2. PlaceOf(pos', state') \/ stored = <<>>
    BY <1>9, <1>11, <2>1
  <2> QED BY <2>2, PlaceMoves
<1> QED BY <1>8, <1>9, <1>10, <1>12, <1>13 DEF ReadLeft

\* A step of the reader's that leaves it where it is, with nothing given.
LEMMA RestLeft ==
  ASSUME LeftIs, ReadLeft, phase = "open", phase' = "open", UNCHANGED writer, LegalFile(file)',
         file'.stored = file.stored, InputLen(file') = InputLen(file), file'.dataEnd = file.dataEnd,
         Resilient' = Resilient, UNCHANGED <<pos, state, queue, floor, last, given, landing>>,
         call' = call \/ (call' = "next" /\ (~Resilient => last # "err"))
  PROVE  ReadLeft'
<1>1. /\ ReaderInv /\ ReaderShape /\ Delivered /\ landing.off \in Nat /\ (AllPassed \/ AtPlace)
      /\ last = "eof" => Done /\ queue = <<>>
      /\ last = "err" => ~Resilient /\ call = "idle" /\ queue = <<>> /\ AllPassed
  BY DEF ReadLeft, ReaderInv
<1>2. SegmentEnd' = SegmentEnd
  BY DEF SegmentEnd
<1>3. Done' <=> Done
  BY <1>2 DEF Done, Idle
<1>4. ReaderInv'
  <2>1. ReaderShape'
    BY <1>1 DEF ReaderShape, Idle
  <2>2. QueueInOrder'
    BY <1>1, <1>3, Zenon DEF ReaderInv, QueueInOrder
  <2> QED BY <2>1, <2>2 DEF ReaderInv
<1>5. Delivered'
  <2>1. PICK m, n \in 0 .. Len(file.stored) :
          /\ m + Len(given) + Len(queue) = n
          /\ \A i \in DOMAIN file.stored : /\ file.stored[i].at < landing.off <=> i <= m
                                           /\ file.stored[i].at < pos <=> i <= n
          /\ \A i \in DOMAIN given : given[i] = file.stored[m + i]
          /\ \A i \in DOMAIN queue : queue[i] = file.stored[m + Len(given) + i]
    BY <1>1, Zenon DEF Delivered
  <2>2. /\ m + Len(given') + Len(queue') = n
        /\ \A i \in DOMAIN file'.stored : /\ file'.stored[i].at < landing'.off <=> i <= m
                                          /\ file'.stored[i].at < pos' <=> i <= n
        /\ \A i \in DOMAIN given' : given'[i] = file'.stored[m + i]
        /\ \A i \in DOMAIN queue' : queue'[i] = file'.stored[m + Len(given') + i]
    BY <2>1
  <2>3. m \in 0 .. Len(file'.stored) /\ n \in 0 .. Len(file'.stored)
    BY <2>1
  <2> QED BY <2>2, <2>3, Zenon DEF Delivered
<1>6. AllPassed => stored = <<>> \/ pos >= BodyEnd
  BY DEF AllPassed
<1>7. AtPlace => PlaceOf(pos, state)
  BY DEF AtPlace, PlaceOf
<1>8. AllPassed' \/ AtPlace'
  BY <1>1, <1>6, <1>7, PlaceMoves
<1>9. AllPassed => AllPassed'
  <2>1. BodyEnd' = BodyEnd /\ stored' = stored
    BY SameLayout, SameIndex DEF BodyEnd, writer
  <2> HIDE DEF BodyEnd
  <2> QED BY <2>1 DEF AllPassed
<1> QED BY <1>1, <1>3, <1>4, <1>5, <1>8, <1>9 DEF ReadLeft

\* The reader's steps.
LEMMA ReaderKeepsReading ==
  ASSUME WriterInv, OpeningInv, OpeningInv', PacketsInv, ReadingInv, ReaderStep, phase # "write"
  PROVE  ReadingInv'
<1>1. /\ file'.written = file.written /\ "written" \in DOMAIN file'
      /\ phase' \notin {"write", "start"} /\ UNCHANGED writer
  BY WrittenStays DEF OpeningInv
<1>2. phase' # "open" => Pristine'
  <2> SUFFICES ASSUME phase' # "open" PROVE Pristine'
    OBVIOUS
  <2>1. OpenSegment \/ OpenStep
    BY DEF ReaderStep, Working, Call, ScanForCues, opening
  <2>2. UNCHANGED demuxer /\ phase # "open"
    BY <2>1 DEF OpenSegment, OpenStep, ReadMaster, StepOver, StepOverGarbage, Walking, StopWalk, FollowTarget,
      FinishOpen
  <2> QED BY <2>2, PristineStays DEF ReadingInv
<1>3. SUFFICES ASSUME Handed
               PROVE  /\ {"stored", "clusters"} \subseteq DOMAIN file' /\ file'.stored = stored'
                      /\ PacketsLeft(file.cells)' /\ WalkLeft' /\ ReadLeft'
  BY <1>1, <1>2 DEF ReadingInv, Handed
<1>4. /\ Opening /\ {"stored", "clusters"} \subseteq DOMAIN file /\ file.stored = stored
      /\ PacketsLeft(file.cells) /\ WalkLeft /\ ReadLeft
      /\ FileFields \subseteq DOMAIN file
  BY <1>3 DEF OpeningInv, ReadingInv, Opening, FileLeft
<1>5. /\ file'.cells = file.cells /\ file'.stored = file.stored /\ DOMAIN file' = DOMAIN file
      /\ InputLen(file') = InputLen(file) /\ Resilient' = Resilient
      /\ phase \in {"chase", "open"} => file'.first = file.first /\ file'.dataEnd = file.dataEnd
  BY <1>4, FileKept
<1>6. stored' = stored
  BY <1>1 DEF writer
<1>7. PacketsLeft(file.cells)'
  <2>1. PICK d : d = file.cells
    OBVIOUS
  <2>2. PacketsLeft(d)'
    BY <1>1, <1>4, <2>1, PacketsLeftStays
  <2> QED BY <1>5, <2>1, <2>2
<1>8. Opening' /\ LegalFile(file)'
  <2>1. Opening'
    BY <1>1, <1>3 DEF OpeningInv, Handed
  <2> QED BY <2>1 DEF Opening, FileLeft
<1>9. phase # "start" => LeftIs
  BY <1>4 DEF LeftIs
<1>10. WalkLeft' /\ ReadLeft'
  <2>1. CASE OpenSegment
    <3>1. phase' = "walk" /\ pos' = 0
      BY <2>1 DEF OpenSegment
    <3>2. HeaderEnd' \in Nat
      <4>1. layout \in Layouts /\ layout' = layout
        BY <1>1 DEF writer, WriterInv, WriterShape
      <4>2. HeaderEnd \in Nat /\ HeaderEnd' = HeaderEnd
        BY <4>1, Offs, SameLayout
      <4> HIDE DEF HeaderEnd
      <4> QED BY <4>2
    <3> HIDE DEF HeaderEnd
    <3> QED BY <3>1, <3>2 DEF WalkLeft, ReadLeft
  <2>2. CASE OpenStep /\ ~FinishOpen
    <3>1. phase \in {"walk", "chase"} /\ phase' # "open"
      BY <2>2 DEF OpenStep, ReadMaster, StepOver, StepOverGarbage, RecoverAt, Walking, StopWalk, FollowTarget, input
    <3> QED BY <1>1, <1>4, <1>5, <1>9, <2>2, <3>1, WalkKept DEF ReadLeft
  <2>3. CASE FinishOpen
    <3>1. phase = "chase"
      BY <2>3 DEF FinishOpen
    <3>2. Pristine
      BY <3>1 DEF ReadingInv
    <3> QED BY <1>1, <1>4, <1>5, <1>8, <1>9, <2>3, <3>1, <3>2, OpenedLeft
  <2>4. CASE phase = "open" /\ phase' = "open" /\ ReadLeft'
    <3>1. file'.first = file.first
      BY <1>5, <2>4
    <3>2. HeaderEnd' = HeaderEnd
      BY <1>1, SameLayout DEF writer
    <3> HIDE DEF HeaderEnd
    <3> QED BY <1>4, <1>6, <2>4, <3>1, <3>2 DEF WalkLeft
  <2>5. CASE phase = "open" /\ LoopTurn /\ UNCHANGED opening
    <3>1. ReadLeft' /\ phase' = "open"
      BY <1>1, <1>4, <1>9, <2>5, TurnKeepsLeft DEF opening
    <3> QED BY <2>4, <2>5, <3>1
  <2>6. CASE phase = "open" /\ SeekTo /\ UNCHANGED opening
    <3>1. ReadLeft' /\ phase' = "open"
      BY <1>1, <1>4, <1>9, <2>6, SeekKeepsLeft DEF opening
    <3> QED BY <2>4, <2>6, <3>1
  <2>7. CASE phase = "open" /\ NextPacket /\ UNCHANGED opening
    <3>1. /\ phase' = "open" /\ UNCHANGED <<pos, state, queue, floor, last, given, landing>>
          /\ call' = "next" /\ (~Resilient => last # "err")
      BY <2>7 DEF NextPacket, opening, stream, history, input
    <3>2. ReadLeft'
      BY <1>1, <1>4, <1>5, <1>8, <1>9, <2>7, <3>1, RestLeft
    <3> QED BY <2>4, <2>7, <3>1, <3>2
  <2>8. CASE ScanForCues
    <3>1. /\ phase = "open" /\ phase' = "open" /\ UNCHANGED <<pos, state, queue, floor, last, given, landing>>
          /\ call' = call
      BY <2>8 DEF ScanForCues, stream
    <3>2. ReadLeft'
      BY <1>1, <1>4, <1>5, <1>8, <1>9, <3>1, RestLeft
    <3> QED BY <2>4, <3>1, <3>2
  <2> QED BY <2>1, <2>2, <2>3, <2>5, <2>6, <2>7, <2>8 DEF ReaderStep, Working, Call
<1> QED BY <1>4, <1>5, <1>6, <1>7, <1>10

\* What a crash leaves is opened with nothing read.
LEMMA HandOverKeepsReading ==
  ASSUME WriterInv, ReadingInv, HandOver
  PROVE  ReadingInv'
<1>1. phase = "write" /\ phase' = "start" /\ UNCHANGED <<stream, strategy, call, history, writer>>
  BY DEF HandOver
<1>2. PICK c \in Remains, resilient \in BOOLEAN : file' = LeftBehind(c, resilient)
  BY DEF HandOver
<1>3. Pristine'
  BY <1>1 DEF ReadingInv, Pristine, stream, history, Idle
<1>4. {"stored", "clusters"} \subseteq DOMAIN file' /\ file'.stored = stored /\ file'.cells = c
  BY <1>2 DEF LeftBehind
<1>5. PacketsLeft(file.cells)'
  <2>1. PICK d : d = c
    OBVIOUS
  <2>2. PacketsLeft(d)
    BY <2>1, PacketsRemainIs DEF PacketsRemain
  <2>3. PacketsLeft(d)'
    BY <1>1, <2>2, PacketsLeftStays
  <2> QED BY <1>4, <2>1, <2>3
<1>6. stored' = stored
  BY <1>1 DEF writer
<1>7. WalkLeft' /\ ReadLeft'
  BY <1>1 DEF WalkLeft, ReadLeft
<1> QED BY <1>1, <1>3, <1>4, <1>5, <1>6, <1>7 DEF ReadingInv

\* Nothing moves.
LEMMA ReadingRests ==
  ASSUME WriterInv, OpeningInv, OpeningInv', PacketsInv, ReadingInv, UNCHANGED all
  PROVE  ReadingInv'
<1>1. /\ UNCHANGED <<file, pos, state, queue, floor, call, last, given, landing, phase, stored>>
      /\ UNCHANGED writer
  BY DEF all, vars, input, stream, history, opening, writer
<1>2. phase' # "open" => Pristine'
  BY <1>1 DEF ReadingInv, Pristine, Idle
<1>3. SUFFICES ASSUME Handed
               PROVE  /\ {"stored", "clusters"} \subseteq DOMAIN file' /\ file'.stored = stored'
                      /\ PacketsLeft(file.cells)' /\ WalkLeft' /\ ReadLeft'
  BY <1>1, <1>2 DEF ReadingInv, Handed
<1>4. /\ Opening /\ {"stored", "clusters"} \subseteq DOMAIN file /\ file.stored = stored
      /\ PacketsLeft(file.cells) /\ WalkLeft /\ ReadLeft
  BY <1>3 DEF OpeningInv, ReadingInv
<1>5. PacketsLeft(file.cells)'
  <2>1. PICK d : d = file.cells
    OBVIOUS
  <2>2. PacketsLeft(d)'
    BY <1>1, <1>4, <2>1, PacketsLeftStays
  <2> QED BY <1>1, <2>1, <2>2
<1>6. WalkLeft'
  <2>1. HeaderEnd' = HeaderEnd
    BY <1>1, SameLayout DEF writer
  <2> HIDE DEF HeaderEnd
  <2> QED BY <1>1, <1>4, <2>1 DEF WalkLeft
<1>7. ReadLeft'
  <2>1. SUFFICES ASSUME phase = "open" PROVE ReadLeft'
    BY <1>1 DEF ReadLeft
  <2>2. LeftIs
    BY <1>4, <2>1 DEF LeftIs
  <2>3. LegalFile(file)'
    BY <1>1, <1>4 DEF Opening, FileLeft
  <2>4. InputLen(file') = InputLen(file) /\ Resilient' = Resilient
    BY <1>1 DEF Resilient
  <2> QED BY <1>1, <1>4, <2>1, <2>2, <2>3, <2>4, RestLeft
<1> QED BY <1>1, <1>4, <1>5, <1>6, <1>7

\* Every step of the system keeps PacketsInv and ReadingInv.
LEMMA ReadingKeeps ==
  ASSUME WriterInv, OpeningInv, OpeningInv', PacketsInv, ReadingInv, [SystemNext]_all
  PROVE  PacketsInv' /\ ReadingInv'
<1>1. CASE UNCHANGED all
  BY <1>1, ReadingRests, PacketsRest DEF all
<1>2. CASE WriterStep
  <2>1. phase = "write" /\ phase' = "write" /\ Write /\ UNCHANGED vars
    BY <1>2 DEF WriterStep, opening
  <2>2. PacketsInv'
    BY <2>1, WriteKeepsPackets
  <2>3. Pristine'
    BY <2>1 DEF ReadingInv, Pristine, vars, stream, history, Idle
  <2> QED BY <2>1, <2>2, <2>3 DEF ReadingInv, Handed
<1>3. CASE HandOver
  <2>1. UNCHANGED writer
    BY <1>3 DEF HandOver
  <2> QED BY <1>3, <2>1, HandOverKeepsReading, PacketsRest
<1>4. CASE ReaderStep
  <2>1. phase # "write" /\ UNCHANGED writer
    BY <1>4 DEF ReaderStep, OpenSegment, Working, OpenStep, ReadMaster, StepOver, StepOverGarbage, Walking, StopWalk,
      FollowTarget, FinishOpen, Call, ScanForCues
  <2> QED BY <1>4, <2>1, ReaderKeepsReading, PacketsRest
<1> QED BY <1>1, <1>2, <1>3, <1>4 DEF SystemNext

\* They hold at the start.
LEMMA ReadingStarts ==
  ASSUME SystemInit
  PROVE  PacketsInv /\ ReadingInv
<1>1. step = "header" /\ stored = <<>>
  BY DEF SystemInit, Start
<1>2. PacketsInv
  BY <1>1, PacketsStart
<1>3. Pristine
  <2>1. ASSUME NEW f, Fresh(f) PROVE Pristine
    BY <2>1 DEF Fresh, Pristine
  <2> QED BY <2>1 DEF SystemInit
<1>4. phase \in {"write", "start"} /\ ~Handed
  <2>1. CASE phase = "write"
    BY <2>1 DEF Handed
  <2>2. ASSUME phase = "start", NEW n \in DOMAIN Files, Fresh(Files[n]) PROVE phase = "start" /\ ~file.written
    <3>1. file = Files[n]
      BY <2>2 DEF Fresh
    <3> QED BY <2>2, <3>1, RecoveryAssumption
  <2> QED BY <2>1, <2>2 DEF SystemInit, Handed
<1> QED BY <1>2, <1>3, <1>4 DEF ReadingInv

\* The Blocks of the output are the packets stored, and whatever a crash
\* leaves of it, the demuxer opened on that stands between two of them, has
\* given those it passed and cannot fail while there are any left.
THEOREM ReadingIsSound == System => [](PacketsInv /\ ReadingInv)
<1>1. SystemInit => PacketsInv /\ ReadingInv
  BY ReadingStarts
<1>2. WriterInv /\ OpeningInv /\ OpeningInv' /\ PacketsInv /\ ReadingInv /\ [SystemNext]_all =>
        PacketsInv' /\ ReadingInv'
  BY ReadingKeeps
<1> QED BY <1>1, <1>2, OutputIsSound, OpeningIsSound, PTL DEF System

\* When a reading ends, every packet behind where it began was given out.
LEMMA CutTold == WriterInv /\ OpeningInv /\ PacketsInv /\ ReadingInv => CutFileKeepsItsPackets
<1> SUFFICES ASSUME WriterInv, OpeningInv, PacketsInv, ReadingInv, phase = "open", file.written,
                    last \in {"eof", "err"}
             PROVE  given = Stored(landing.off)
  BY DEF CutFileKeepsItsPackets
<1>1. LeftIs /\ ReadLeft
  BY DEF ReadingInv, OpeningInv, Handed, LeftIs
<1>2. /\ ReaderInv /\ Delivered /\ landing.off \in Nat /\ (AllPassed \/ AtPlace) /\ queue = <<>>
      /\ last = "eof" => Done
      /\ last = "err" => AllPassed
  BY <1>1 DEF ReadLeft
<1>3. /\ SegmentEnd = InputLen(file) /\ BodyEnd \in Nat /\ InputLen(file) \in Nat /\ pos \in Nat
      /\ step # "header" => BodyEnd <= InputLen(file)
      /\ step = "header" => BodyEnd = 0
  <2>1. pos \in 0 .. Far /\ Far \in Nat
    BY <1>2, ProbeAssumption DEF ReaderInv, ReaderShape
  <2> HIDE DEF BodyEnd
  <2>2. InputLen(file) \in Nat
    BY <1>1, BodyRead
  <2> QED BY <1>1, <2>1, <2>2, BodyRead
<1>4. stored = <<>> \/ pos >= BodyEnd
  <2> HIDE DEF BodyEnd
  <2>1. Done => ~AtPlace
    BY <1>3 DEF Done, AtPlace
  <2>2. AllPassed
    BY <1>2, <2>1
  <2> QED BY <2>2 DEF AllPassed
<1>5. \A i \in DOMAIN file.stored : file.stored[i].at < pos
  <2> SUFFICES ASSUME NEW i \in DOMAIN file.stored PROVE file.stored[i].at < pos
    OBVIOUS
  <2>1. file.stored[i].at \in Nat /\ file.stored[i].at < BodyEnd
    BY <1>1, StoredPlaces
  <2>2. stored # <<>>
    <3>1. file.stored = stored
      BY <1>1 DEF LeftIs
    <3> QED BY <3>1
  <2> HIDE DEF BodyEnd
  <2> QED BY <1>3, <1>4, <2>1, <2>2
<1>6. StoredInOrder(file)
  BY <1>1, StoredPlaces
<1> QED BY <1>2, <1>5, <1>6, DeliveredIs

\* Wherever the writer crashed, whatever the last write left of its bytes,
\* and however the file is opened and sought in: reading it to its end gives
\* every packet stored behind the landing, once, in order and unchanged.
THEOREM CutFilesKeepTheirPackets == System => []CutFileKeepsItsPackets
<1>1. WriterInv /\ OpeningInv /\ PacketsInv /\ ReadingInv => CutFileKeepsItsPackets
  BY CutTold
<1> QED BY <1>1, OutputIsSound, OpeningIsSound, ReadingIsSound, PTL
=============================================================================
