--------------------------- MODULE MkvRecoveryInv ---------------------------
(***************************************************************************)
(* What MkvMuxer's output looks like cell by cell at every step of the     *)
(* writer, what a crash leaves of it, what opening that finds and what     *)
(* reading it gives out. MkvWriterProofs, MkvOpeningProofs and             *)
(* MkvRecoveryProofs prove it, for any Recording and any Layouts.          *)
(***************************************************************************)
EXTENDS MkvRecovery, MkvDemuxInv

-----------------------------------------------------------------------------
(* The writer.                                                             *)

\* A sequence, of cells of whatever kinds.
IsSeq(s) == Len(s) \in Nat /\ s = [i \in 1 .. Len(s) |-> s[i]]

Steps == {"header", "packets", "cues", "rest", "seek", "duration", "crc", "done"}
HeaderEnd == Len(HeaderCells)
TracksAt == SlotAt - (IF layout.strict THEN 2 ELSE 3)

\* The Cues are written, in the slot or behind the Clusters, which end here.
InSlot == entry # None /\ FitsFront
BodyEnd == IF entry # None /\ ~FitsFront THEN entry ELSE Len(output)

\* The patches of the trailer that are made.
SeekPatched == ~layout.live /\ step \in {"duration", "crc", "done"}
Timed == layout.finalize /\ maxEnd # None
DurationPatched == Timed /\ step \in {"crc", "done"}
CrcPatched == Timed /\ ~layout.strict /\ step = "done"

WriterShape ==
  /\ layout \in Layouts /\ step \in Steps
  /\ IsSeq(output) /\ index \in Seq(Range(index))
  /\ left \in Seq(Range(Recording))
  /\ stored \in Seq(Range(stored)) /\ Len(left) + Len(stored) = Len(Recording)
  /\ maxEnd \in Nat \cup {None} /\ entry \in Nat \cup {None}
  /\ maxEnd = None <=> stored = <<>>
  /\ cluster.off \in Nat \cup {None} /\ cluster.tc \in Nat /\ cluster.blocks \in Nat
  /\ Len(index) <= Len(stored)
  /\ step = "header" => output = <<>> /\ stored = <<>> /\ index = <<>> /\ cluster.off = None

\* The cells in front of the slot: those of the header, patched.
HeaderNow(o) ==
  CASE SeekPatched /\ o = Offsets.Cues ->
         IF entry = None THEN Patchable ELSE [id |-> "Item", size |-> 0, v |-> [id |-> "Cues", at |-> entry]]
    [] DurationPatched /\ o = DurationAt -> [id |-> "Duration", size |-> 0, v |-> maxEnd]
    [] CrcPatched /\ o = CrcAt -> [id |-> "Crc", size |-> 0, v |-> PatchedInfoBody]
    [] OTHER -> HeaderCells[o + 1]
HeaderHolds ==
  step # "header" =>
    /\ Len(output) >= HeaderEnd
    /\ \A o \in 0 .. SlotAt - 1 : output[o + 1] = HeaderNow(o)

\* The slot: a Void, or the Cues and what is left of it as a Void.
SlotNow(i) ==
  IF ~InSlot THEN VoidOf(layout.front)[i]
  ELSE IF i <= Len(CuesElement) THEN CuesElement[i]
  ELSE IF step = "rest" THEN NoElement ELSE VoidOf(RestOfSlot)[i - Len(CuesElement)]
SlotHolds ==
  step # "header" => \A i \in 1 .. layout.front : output[SlotAt + i] = SlotNow(i)

\* Nothing but Clusters, their Timestamps and Blocks between header and Cues.
BodyCell(c) ==
  \/ c = NoElement
  \/ c.id = "Cluster" /\ c.size = Unknown
  \/ c.id = "Timecode" /\ c.size = 0 /\ c.v \in Nat
  \/ c.id = "SimpleBlock" /\ c.size = 1 /\ c.frames = 1
BodyHolds ==
  step # "header" =>
    /\ \A o \in HeaderEnd .. BodyEnd - 1 : BodyCell(output[o + 1])
    /\ HeaderEnd < BodyEnd => output[HeaderEnd + 1].id = "Cluster"

\* A Cluster of time tc at off, and its first n Blocks.
HoldsBlocks(off, tc, n) ==
  /\ HeaderEnd <= off /\ off + 2 + 2 * n <= BodyEnd
  /\ output[off + 1] = [id |-> "Cluster", size |-> Unknown]
  /\ output[off + 2] = [id |-> "Timecode", size |-> 0, v |-> tc]
  /\ \A j \in 1 .. n : LET c == output[off + 2 * j + 1] IN c.id = "SimpleBlock" /\ c.size = 1
ClusterHolds ==
  cluster.off # None =>
    /\ HoldsBlocks(cluster.off, cluster.tc, cluster.blocks)
    /\ cluster.off + 2 + 2 * cluster.blocks = BodyEnd
    /\ cluster.blocks = 0 => step = "packets" /\ left # <<>>

\* Each cue leads to its Cluster and to its Block there.
IndexHolds ==
  \A i \in DOMAIN index :
    LET q == index[i] IN
    /\ \E p \in Range(Recording) : q.track = p.track
    /\ q.time \in Nat /\ q.off \in Nat /\ q.num \in Nat \ {0} /\ q.rel = 2 * q.num - 1
    /\ \E tc \in 0 .. q.time : HoldsBlocks(q.off, tc, q.num)

CuesHold ==
  /\ entry # None =>
       /\ ~layout.live /\ index # <<>> /\ step \notin {"header", "packets", "cues"}
       /\ IF FitsFront THEN entry = SlotAt
          ELSE /\ entry >= HeaderEnd /\ Len(output) = entry + Len(CuesElement)
               /\ \A i \in 1 .. Len(CuesElement) : output[entry + i] = CuesElement[i]
  /\ step = "cues" => ~layout.live /\ index # <<>>
  /\ step = "rest" => InSlot /\ RestOfSlot > 0
  /\ step \in {"seek", "duration", "crc", "done"} /\ ~layout.live /\ index # <<>> => entry # None
  /\ step = "seek" => ~layout.live
  /\ step = "crc" => Timed /\ ~layout.strict

\* No Cluster is opened but for a packet that comes.
OutputIsShort ==
  step # "header" =>
    BodyEnd <= HeaderEnd + 4 * Len(stored)
               + (IF cluster.off # None /\ cluster.blocks = 0 THEN 2 ELSE 0)

WriterInv ==
  /\ WriterShape /\ HeaderHolds /\ SlotHolds /\ BodyHolds /\ ClusterHolds /\ IndexHolds
  /\ CuesHold /\ OutputIsShort

-----------------------------------------------------------------------------
(* Opening what is left.                                                   *)

\* The writer is past everything that a crash may leave torn.
Sealed == step \in {"seek", "duration", "crc", "done"}

\* Where the Cues are, or are being written.
CuesPlace == IF FitsFront THEN SlotAt ELSE BodyEnd

\* Each cell is legal (see LegalFile); none is a Duration before the Info is
\* patched.
CellsLegal(c) ==
  \A i \in 1 .. Len(c) :
    /\ c[i].size \in Nat \cup {Unknown}
    /\ c[i].id # "Block" /\ (c[i].id = "SimpleBlock" => c[i].frames \in Nat)
    /\ c[i].id = "Timecode" => c[i].v \in Int
    /\ c[i].id = "Duration" => DurationPatched

\* A master in what is left is the one the writer put there.
MastersInPlace(c) ==
  \A o \in 0 .. Len(c) - 1 :
    c[o + 1].id \in MasterIds =>
      \/ c[o + 1].id = "SeekHead" /\ o = 0 /\ ~layout.live
      \/ c[o + 1].id = "Info" /\ o = InfoAt
      \/ c[o + 1].id = "Tracks" /\ o = TracksAt
      \/ c[o + 1].id = "Cues" /\ o = CuesPlace /\ step \notin {"header", "packets"}

\* The Tracks is there, and so is all in front of it.
TracksHeld(c) == SlotAt <= Len(c) /\ Parses(c[SlotAt])

HeaderLeft(c) ==
  \A o \in 0 .. SlotAt - 1 :
    o < Len(c) => /\ c[o + 1] \in {NoElement, HeaderNow(o)}
                  /\ TracksHeld(c) => c[o + 1] = HeaderNow(o)

\* The Cues, as far as they came; whole unless the crash was in writing them.
CuesLeft(c) ==
  CuesPlace < Len(c) /\ c[CuesPlace + 1].id = "Cues" /\ step \notin {"header", "packets"} =>
    /\ \A i \in 1 .. Len(CuesElement) :
         CuesPlace + i <= Len(c) => c[CuesPlace + i] \in {NoElement, CuesElement[i]}
    /\ c[CuesPlace + 1] = CuesElement[1]
    /\ step # "cues" => /\ CuesPlace + Len(CuesElement) <= Len(c)
                        /\ \A i \in 1 .. Len(CuesElement) : c[CuesPlace + i] = CuesElement[i]

\* Once the trailer has begun the Clusters are all there.
BodyLeft(c) ==
  step \notin {"header", "packets"} =>
    /\ BodyEnd <= Len(c)
    /\ \A o \in HeaderEnd .. BodyEnd - 1 : c[o + 1] = output[o + 1]

LeftTruly(c) ==
  /\ IsSeq(c) /\ Len(c) < Far
  /\ CellsLegal(c) /\ MastersInPlace(c) /\ HeaderLeft(c) /\ CuesLeft(c) /\ BodyLeft(c)
  /\ Sealed => c = output

RemainsAreTrue == \A c \in Remains : LeftTruly(c)

-----------------------------------------------------------------------------
(* The demuxer on what is left.                                            *)

\* The file is what a writer left.
Handed == file.written /\ phase # "write"

ReaderPlace == phase = "walk" => pos \in 0 .. Far

FileFields ==
  {"cells", "declared", "dataEnd", "first", "clusters", "written", "intact", "resilient", "cues"}

FileLeft ==
  /\ FileFields \subseteq DOMAIN file
  /\ LegalFile(file) /\ LeftTruly(file.cells)
  /\ file.declared = Unknown /\ file.intact = (step = "done")
  /\ phase # "start" => file.dataEnd = InputLen(file)
  /\ Range(file.cues) \subseteq Range(index)
  /\ file.cues # <<>> => phase = "open" /\ step \notin {"header", "packets"}

\* What the SeekHead says.
SeekEntries ==
  LET info == [id |-> "Info", at |-> Offsets.Info]
      tracks == [id |-> "Tracks", at |-> TracksAt] IN
  IF layout.live THEN <<>>
  ELSE IF SeekPatched /\ entry = None THEN <<info, tracks>>
  ELSE <<info, tracks, [id |-> "Cues", at |-> IF SeekPatched THEN entry ELSE 0]>>

\* A checksum that is right, or one that a crash caught in writing.
ChecksumIsTrue(c) == c.valid \/ (step = "crc" /\ c.id = "Info") \/ (step = "cues" /\ c.id = "Cues")

\* What opening has found is what the writer wrote there.
FoundTruly ==
  /\ DOMAIN found = MasterIds \cup {"Duration"} /\ \A id \in DOMAIN found : IsSeq(found[id])
  /\ IsSeq(crcs) /\ IsSeq(chase)
  /\ Range(found.SeekHead) \subseteq Range(SeekEntries)
  /\ Range(found.Cues) \subseteq Range(index)
  /\ found.Cues # <<>> => step \notin {"header", "packets"}
  /\ found.Tracks # <<>> => TracksHeld(file.cells)
  /\ phase = "open" => found.Tracks # <<>>
  /\ ~Sealed => found.Duration = <<>>
  /\ phase = "walk" => chase = <<>>
  /\ \A s \in Range(chase) : s.id \in ChaseIds /\ s.at \in Nat
  /\ TracksHeld(file.cells) => \A c \in Range(crcs) : ChecksumIsTrue(c)

\* In a file that is not torn the walk goes from master to master up to the
\* first Cluster, and lifts each one once.
WalkPoints ==
  {0, InfoAt, TracksAt, SlotAt, HeaderEnd}
  \cup (IF InSlot THEN {SlotAt + Len(CuesElement)} ELSE {})
TrueDuration == IF DurationPatched THEN <<maxEnd>> ELSE <<>>
SealedWalk ==
  Sealed /\ phase = "walk" =>
    /\ pos \in WalkPoints
    /\ found.SeekHead = IF pos >= InfoAt THEN SeekEntries ELSE <<>>
    /\ found.Duration = IF pos >= TracksAt THEN TrueDuration ELSE <<>>
    /\ found.Cues = IF pos > SlotAt /\ InSlot THEN index ELSE <<>>

\* Finished, it has the whole index, in the slot or where the SeekHead says.
SealedEnd ==
  Sealed /\ phase \in {"chase", "open"} =>
    /\ found.Duration = TrueDuration
    /\ step = "done" /\ ~layout.live =>
         IF phase = "open" THEN file.cues = index
         ELSE \/ found.Cues = index /\ chase = <<>>
              \/ /\ entry # None /\ ~FitsFront /\ found.Cues = <<>>
                 /\ chase = <<[id |-> "Cues", at |-> entry]>>

Opening == ReaderPlace /\ FileLeft /\ FoundTruly /\ SealedWalk /\ SealedEnd
OpeningInv ==
  /\ "written" \in DOMAIN file
  /\ phase \in {"write", "start"} => Blank
  /\ Handed => Opening

-----------------------------------------------------------------------------
(* The packets.                                                            *)

\* A Cluster and its Timestamp, or a Block and its frame, take two cells.
Places == {HeaderEnd + 2 * k : k \in Nat}
ClusterPair(o) ==
  /\ output[o + 1] = [id |-> "Cluster", size |-> Unknown]
  /\ output[o + 2].id = "Timecode" /\ output[o + 2].size = 0 /\ output[o + 2].v \in Nat
BlockPair(o) ==
  /\ LET b == output[o + 1] IN
     /\ b.id = "SimpleBlock" /\ b.size = 1 /\ b.frames = 1 /\ b.defect = "None"
     /\ b.off \in Nat /\ \E p \in Range(Recording) : b.track = p.track
  /\ output[o + 2] = NoElement
BodyPairs ==
  step # "header" =>
    /\ BodyEnd \in Places
    /\ \A o \in Places : o < BodyEnd => ClusterPair(o) \/ BlockPair(o)

\* What is at o belongs to the Cluster at c.
Governs(c, o) ==
  /\ c \in Places /\ c < o /\ output[c + 1].id = "Cluster"
  /\ \A x \in Places : c < x /\ x < o => output[x + 1].id = "SimpleBlock"

\* The packet in the Block at o of the Cluster at c.
PacketAt(o, c) ==
  [stream |-> TrackIndex[output[o + 1].track], at |-> o, frame |-> 1,
   pts |-> output[c + 2].v + output[o + 1].off, duration |-> None, key |-> TRUE]
IsStored(p) ==
  /\ p.at \in Places /\ p.at < BodyEnd /\ output[p.at + 1].id = "SimpleBlock"
  /\ \E c \in Places : Governs(c, p.at) /\ p = PacketAt(p.at, c)
StoredHold ==
  /\ \A i \in DOMAIN stored : IsStored(stored[i])
  /\ \A i, j \in DOMAIN stored : i < j => stored[i].at < stored[j].at
  /\ step # "header" =>
       \A o \in Places : o < BodyEnd /\ output[o + 1].id = "SimpleBlock" =>
         \E i \in DOMAIN stored : stored[i].at = o
PacketsInv == BodyPairs /\ StoredHold

\* The Clusters are there up to the last packet stored, and no other Block is
\* whole.  In front of them every element ends there.
PacketsLeft(c) ==
  /\ step # "header" =>
       /\ BodyEnd <= Len(c) /\ \A o \in HeaderEnd .. BodyEnd - 1 : c[o + 1] = output[o + 1]
       /\ \A o \in 0 .. HeaderEnd - 1 : c[o + 1].size \in Nat /\ o + 1 + c[o + 1].size <= HeaderEnd
  /\ \A o \in 0 .. Len(c) - 1 :
       /\ o < HeaderEnd => c[o + 1].id \notin {"Cluster", "SimpleBlock", "BlockGroup"}
       /\ o >= BodyEnd =>
            /\ c[o + 1].id # "BlockGroup"
            /\ c[o + 1].id = "SimpleBlock" => c[o + 1].size = 1 /\ o + 1 = Len(c)
PacketsRemain == \A c \in Remains : PacketsLeft(c)

-----------------------------------------------------------------------------
(* Reading them.                                                           *)

Pristine ==
  /\ state = Idle /\ queue = <<>> /\ floor = 0 /\ call = "idle"
  /\ last = "open" /\ given = <<>> /\ landing.off = 0

\* The walk does not pass the first Cluster.
WalkLeft ==
  stored # <<>> =>
    /\ phase = "walk" => pos <= HeaderEnd
    /\ phase \in {"chase", "open"} => file.first = HeaderEnd

\* The reader is at a Cluster, at its Timestamp, or at a child whose Timestamp
\* it knows.
AtPlace ==
  /\ pos < BodyEnd
  /\ \/ state = Idle /\ pos \in Places /\ output[pos + 1].id = "Cluster"
     \/ /\ state # Idle /\ state.in = "Cluster" /\ state.end = InputLen(file)
        /\ \/ pos - 1 \in Places /\ output[pos].id = "Cluster"
           \/ pos \in Places /\ \A c \in Places : Governs(c, pos) => state.tc = output[c + 2].v
AllPassed == stored = <<>> \/ pos >= BodyEnd

ReadLeft ==
  phase = "open" =>
    /\ ReaderInv /\ Delivered /\ landing.off \in Nat
    /\ AllPassed \/ AtPlace
    /\ last = "eof" => Done /\ queue = <<>>
    /\ last = "err" => ~Resilient /\ call = "idle" /\ queue = <<>> /\ AllPassed

ReadingInv ==
  /\ phase # "open" => Pristine
  /\ Handed => /\ {"stored", "clusters"} \subseteq DOMAIN file /\ file.stored = stored /\ PacketsLeft(file.cells)
               /\ WalkLeft /\ ReadLeft
=============================================================================
