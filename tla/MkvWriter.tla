----------------------------- MODULE MkvWriter -----------------------------
(***************************************************************************)
(* What MkvMuxer leaves in its output write by write (src/src/mux.rs): the *)
(* header, Clusters of SimpleBlocks, and the trailer's Cues and in-place   *)
(* patches of the SeekHead, the Duration and the Info checksum.  A write   *)
(* can be the last one, and cut short anywhere.  Which packet opens a new  *)
(* Cluster, and everything else about packets, is MkvMux's subject: here   *)
(* any packet may.                                                         *)
(*                                                                         *)
(* The output is a sequence of cells (see MkvFile and MkvOpen) from the    *)
(* Segment's data start on.                                                *)
(***************************************************************************)
EXTENDS MkvFile, SequencesExt

CONSTANTS
  Layouts,        \* [live, strict, finalize : BOOLEAN, front : cells reserved for Cues]
  Recording       \* [track, stream, pts, duration, indexable], in order of arrival

ASSUME WriterAssumption ==
  /\ Layouts # {}
  /\ Layouts \subseteq [live : BOOLEAN, strict : BOOLEAN, finalize : BOOLEAN, front : Nat]
  /\ Recording \in Seq(Range(Recording))
  /\ \A p \in Range(Recording) :
       p.pts \in Nat /\ p.duration \in Nat /\ p.indexable \in BOOLEAN

VARIABLES
  output,         \* the output
  layout,         \* the configuration
  step,           \* the write to come: "header", "packets", "cues", "rest", "seek", "duration", "crc", "done"
  left,           \* packets still to come
  cluster,        \* the open Cluster: [off, tc, blocks, seen], off = None without one
  index,          \* cues
  entry,          \* what the SeekHead's Cues entry is to say: an offset, or None to void it
  maxEnd,         \* max_end_ms
  stored          \* history: the packets whose Blocks are written

writer == <<output, layout, step, left, cluster, index, entry, maxEnd, stored>>

VoidOf(n) == Sized("Void", [i \in 1 .. n - 1 |-> NoElement])
Patchable == [id |-> "Void", size |-> 0]

\* write_master_element_with_crc; strict WebM has no checksums.
ChecksummedMaster(id, body) == Sized(id, IF layout.strict THEN body ELSE Leaf("Crc", body) \o body)

Offsets == [Cues |-> 4, Info |-> 5]
SeekHeadOf(tracks) ==
  Sized("SeekHead", Leaf("Item", [id |-> "Info", at |-> Offsets.Info])
                    \o Leaf("Item", [id |-> "Tracks", at |-> tracks])
                    \o <<Patchable>> \o Leaf("Item", [id |-> "Cues", at |-> 0]))
InfoBody == (IF layout.finalize THEN <<Patchable>> ELSE <<>>) \o Leaf("Item", "encoder")

\* write_header: everything in front of the Clusters, in one write.
HeaderCells ==
  LET info == ChecksummedMaster("Info", InfoBody)
      seek == IF layout.live THEN <<>> ELSE SeekHeadOf(Offsets.Info + Len(info))
      front == IF layout.front = 0 THEN <<>> ELSE VoidOf(layout.front)
  IN  seek \o info \o ChecksummedMaster("Tracks", Leaf("Item", "tracks")) \o front

SlotAt == Len(HeaderCells) - layout.front
InfoAt == IF layout.live THEN 0 ELSE Offsets.Info
CrcAt == InfoAt + 1
DurationAt == IF layout.strict THEN InfoAt + 1 ELSE InfoAt + 2

CueItems == FlattenSeq([i \in DOMAIN index |-> Leaf("Item", index[i])])
CuesElement == ChecksummedMaster("Cues", CueItems)
FitsFront == layout.front > 0 /\ Len(CuesElement) <= layout.front
RestOfSlot == layout.front - Len(CuesElement)
CuesAt == IF FitsFront THEN SlotAt ELSE Len(output)

-----------------------------------------------------------------------------

\* The output once `cells' were written at offset `at'.
Overwritten(at, cells) ==
  [i \in 1 .. Max({Len(output), at + Len(cells)}) |->
     IF i > at /\ i <= at + Len(cells) THEN cells[i - at] ELSE output[i]]

ClusterCells(p) == <<[id |-> "Cluster", size |-> Unknown]>> \o Leaf("Timecode", p.pts)
\* Mutant: the packet's time where the Cluster's is to be subtracted.
BlockCellsAbsolute(p) ==
  <<[id |-> "SimpleBlock", size |-> 1, track |-> p.track, off |-> p.pts,
     key |-> p.indexable, frames |-> 1, defect |-> "None"]>> \o Bytes
BlockCells(p) ==
  <<[id |-> "SimpleBlock", size |-> 1, track |-> p.track, off |-> p.pts - cluster.tc,
     key |-> p.indexable, frames |-> 1, defect |-> "None"]>> \o Bytes

CueFor(p) ==
  [track |-> p.track, time |-> p.pts, off |-> cluster.off,
   rel |-> Len(output) - (cluster.off + 1), num |-> cluster.blocks + 1]

Start(configurations) ==
  /\ layout \in configurations
  /\ output = <<>> /\ step = "header" /\ left = Recording
  /\ cluster = [off |-> None, tc |-> 0, blocks |-> 0, seen |-> {}]
  /\ index = <<>> /\ entry = None /\ maxEnd = None /\ stored = <<>>

WriteHeader ==
  /\ step = "header" /\ step' = "packets"
  /\ output' = HeaderCells
  /\ UNCHANGED <<layout, left, cluster, index, entry, maxEnd, stored>>

\* start_cluster, for the packet that comes next.
StartCluster ==
  /\ step = "packets" /\ left # <<>>
  /\ cluster.off # None => cluster.blocks > 0
  /\ output' = output \o ClusterCells(Head(left))
  /\ cluster' = [off |-> Len(output), tc |-> Head(left).pts, blocks |-> 0, seen |-> {}]
  /\ UNCHANGED <<layout, step, left, index, entry, maxEnd, stored>>

\* The rest of write_packet, for a packet that is not earlier than the Cluster:
\* the first indexable Block of a track in a Cluster gets a cue.
WriteBlock ==
  /\ step = "packets" /\ left # <<>> /\ cluster.off # None
  /\ Head(left).pts >= cluster.tc
  /\ LET p == Head(left)
         cued == p.indexable /\ p.track \notin cluster.seen IN
     /\ output' = output \o BlockCells(p)
     /\ index' = IF cued THEN Append(index, CueFor(p)) ELSE index
     /\ cluster' = [cluster EXCEPT !.blocks = @ + 1,
                                   !.seen = IF cued THEN @ \cup {p.track} ELSE @]
     /\ maxEnd' = Max({maxEnd, p.pts + p.duration})
     /\ stored' = Append(stored, [stream |-> p.stream, at |-> Len(output), frame |-> 1, pts |-> p.pts,
                                  duration |-> None, key |-> TRUE])
  /\ left' = Tail(left)
  /\ UNCHANGED <<layout, step, entry>>

-----------------------------------------------------------------------------
(* write_trailer, which the caller may call after any packet.              *)

Kept == UNCHANGED <<layout, left, cluster, index, maxEnd, stored>>

StartTrailer ==
  /\ step = "packets"
  /\ cluster.off # None => cluster.blocks > 0
  /\ step' = IF layout.live THEN "duration" ELSE IF index = <<>> THEN "seek" ELSE "cues"
  /\ UNCHANGED <<output, entry>> /\ Kept

\* Behind the Clusters, or into the slot reserved in front of them.
WriteCues ==
  /\ step = "cues" /\ step' = IF FitsFront /\ RestOfSlot > 0 THEN "rest" ELSE "seek"
  /\ output' = Overwritten(CuesAt, CuesElement) /\ entry' = CuesAt
  /\ Kept

VoidRest ==
  /\ step = "rest" /\ step' = "seek"
  /\ output' = Overwritten(SlotAt + Len(CuesElement), VoidOf(RestOfSlot))
  /\ UNCHANGED entry /\ Kept

\* Mutant: the entry is patched before the Cues are written, where they
\* would go without a slot in front.
PatchSeekEntryToEnd ==
  /\ step = "seek" /\ step' = "duration"
  /\ output' = Overwritten(Offsets.Cues,
                        IF entry = None THEN <<Patchable>>
                        ELSE Leaf("Item", [id |-> "Cues", at |-> Len(output)]))
  /\ UNCHANGED entry /\ Kept

\* patch_cues_seek_entry: the Cues' offset, or a Void if none were written.
PatchSeekEntry ==
  /\ step = "seek" /\ step' = "duration"
  /\ output' = Overwritten(Offsets.Cues,
                        IF entry = None THEN <<Patchable>>
                        ELSE Leaf("Item", [id |-> "Cues", at |-> entry]))
  /\ UNCHANGED entry /\ Kept

\* patch_info_duration: the element, then the checksum over the new body.
PatchDuration ==
  /\ step = "duration"
  /\ step' = IF layout.finalize /\ maxEnd # None /\ ~layout.strict THEN "crc" ELSE "done"
  /\ output' = IF layout.finalize /\ maxEnd # None
               THEN Overwritten(DurationAt, Leaf("Duration", maxEnd)) ELSE output
  /\ UNCHANGED entry /\ Kept

\* Mutant: the body as the header had it.
PatchedInfoBodyStale == InfoBody
PatchedInfoBody == Leaf("Duration", maxEnd) \o Tail(InfoBody)

PatchCrc ==
  /\ step = "crc" /\ step' = "done"
  /\ output' = Overwritten(CrcAt, Leaf("Crc", PatchedInfoBody))
  /\ UNCHANGED entry /\ Kept

Write ==
  \/ WriteHeader \/ StartCluster \/ WriteBlock
  \/ StartTrailer \/ WriteCues \/ VoidRest \/ PatchSeekEntry \/ PatchDuration \/ PatchCrc

-----------------------------------------------------------------------------
(* The writes in progress, [at, cells]: a crash leaves a prefix of one.    *)
(* The three patches in place are short enough to be all or nothing.       *)

InProgress ==
  CASE step = "header" -> {[at |-> 0, cells |-> HeaderCells]}
    [] step = "packets" /\ left # <<>> ->
         {[at |-> Len(output), cells |-> ClusterCells(Head(left))]}
         \cup (IF cluster.off = None \/ Head(left).pts < cluster.tc THEN {}
               ELSE {[at |-> Len(output), cells |-> BlockCells(Head(left))]})
    [] step = "cues" -> {[at |-> CuesAt, cells |-> CuesElement]}
    [] step = "rest" -> {[at |-> SlotAt + Len(CuesElement), cells |-> VoidOf(RestOfSlot)]}
    [] OTHER -> {[at |-> Len(output), cells |-> <<>>]}

\* What a crash may leave: the first k cells of a write in progress, and
\* perhaps the beginning of a header, which is no element.  (Of a payload
\* any part that is missing is missed.)
Remains ==
  LET Torn(w, k) == IF k < Len(w.cells) /\ Parses(w.cells[k + 1]) THEN {<<>>, Bytes} ELSE {<<>>}
      After(w) == UNION {{Overwritten(w.at, SubSeq(w.cells, 1, k) \o torn) : torn \in Torn(w, k)}
                         : k \in 0 .. Max({0, Len(w.cells) - 1})}
  IN  UNION {After(w) : w \in InProgress}
=============================================================================
