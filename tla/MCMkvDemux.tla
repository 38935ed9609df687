----------------------------- MODULE MCMkvDemux -----------------------------
(***************************************************************************)
(* Small files for the demuxer: three Clusters of two tracks, with every   *)
(* kind of child and Top-Level element the walk tells apart, payloads that *)
(* imitate Clusters, Cues that keep their word and Cues that do not.        *)
(***************************************************************************)
EXTENDS MkvDemuxProps

MCTrackIndex == [t \in {1, 2} |-> t - 1]
MCTargets == {-1, 2, 4, 6, 8, 20}

\* `time', `duration' and `whole' (all frames are key frames) go into stored.
Block(id, track, off, tc, key, frames, duration) ==
  <<[id |-> id, size |-> 1, track |-> track, off |-> off, key |-> key /\ id = "SimpleBlock",
     frames |-> frames, defect |-> "None",
     time |-> tc + off, duration |-> duration, whole |-> key \/ id = "SimpleBlock"]>>

Simple(track, off, tc) == Block("SimpleBlock", track, off, tc, TRUE, 1, None) \o Bytes

\* A group of two laced delta frames and one of a single key frame.
LacedGroup(track, off, tc) ==
  Sized("BlockGroup", Block("Block", track, off, tc, FALSE, 2, 2) \o Bytes
                      \o Leaf("BlockDuration", 4) \o Leaf("ReferenceBlock", -1))
KeyGroup(track, off, tc) ==
  Sized("BlockGroup", Leaf("Void", 0) \o Block("Block", track, off, tc, TRUE, 1, None) \o Bytes)

\* A frame whose bytes imitate a Cluster: one whose first child is nonsense,
\* one that only its successor gives away.
Imitation(track, off, tc) ==
  <<[Block("SimpleBlock", track, off, tc, TRUE, 1, None)[1] EXCEPT !.size = 2],
    [id |-> "Cluster", size |-> 1], NoElement>>
FullImitation(track, off, tc) ==
  <<[Block("SimpleBlock", track, off, tc, TRUE, 1, None)[1] EXCEPT !.size = 4],
    [id |-> "Cluster", size |-> 1], [id |-> "Timecode", size |-> 0, v |-> 9], NoElement, NoElement>>

Items(values) == [i \in DOMAIN values |-> Leaf("Item", values[i])[1]]
Tagging(entries, malformed) ==
  Sized("Tags", Items(entries) \o (IF malformed THEN Bytes ELSE <<>>))

Starts(parts) == [i \in DOMAIN parts |-> Len(FlattenSeq(SubSeq(parts, 1, i - 1)))]

\* The packets a sequence of cells stores.  A SimpleBlock's come out as key
\* frames whatever its flag (README, departures).
StoredIn(cells) ==
  FlattenSeq([o \in DOMAIN cells |->
    LET b == cells[o] IN
    IF b.id \notin {"SimpleBlock", "Block"} \/ b.track \notin DOMAIN MCTrackIndex THEN <<>>
    ELSE [i \in 1 .. b.frames |->
            [stream |-> MCTrackIndex[b.track], at |-> o - 1, frame |-> i,
             pts |-> b.time + (IF b.duration = None THEN 0 ELSE b.duration * (i - 1)),
             duration |-> b.duration, key |-> b.whole]]])

\* The children of the Cluster that is written from the cell at p on.
Children(part, p) ==
  LET C[i \in Nat] == IF i > Len(part) THEN {} ELSE {p + i - 1} \cup C[i + 1 + part[i].size] IN C[2]

\* The file that stores the parts one after the other.
FileOf(parts, cues) ==
  LET clusters == {i \in DOMAIN parts : parts[i][1].id = "Cluster"}
      at == {Starts(parts)[i] : i \in clusters}
      cells == FlattenSeq(parts)
  IN  [cells |-> cells, dataEnd |-> Len(cells), first |-> IF at = {} THEN None ELSE Min(at),
       clusters |-> at, tops |-> Range(Starts(parts)),
       kids |-> UNION {Children(parts[i], Starts(parts)[i]) : i \in clusters}, cues |-> cues, live |-> FALSE, intact |-> TRUE, garbled |-> FALSE,
       resilient |-> TRUE, stored |-> StoredIn(cells), written |-> FALSE, masters |-> {},
       info |-> <<"title">>, tags |-> <<"title", "artist">>]

Cue(track, time, off, rel, num) ==
  [track |-> track, time |-> time, off |-> off, rel |-> rel, num |-> num]

-----------------------------------------------------------------------------

Cluster1 == Sized("Cluster", Leaf("Timecode", 0) \o Leaf("SilentTracks", <<2>>)
                             \o Simple(1, 0, 0) \o LacedGroup(2, 1, 0) \o Simple(1, 3, 0))
Cluster2 == Sized("Cluster", Leaf("Timecode", 4) \o Leaf("PrevSize", 12)
                             \o Simple(2, 0, 4) \o Simple(7, 0, 4) \o Simple(1, 1, 4))
Cluster3 == Sized("Cluster", Leaf("Timecode", 8) \o Leaf("Position", 25) \o Leaf("EncryptedBlock", 0)
                             \o KeyGroup(1, 0, 8) \o Simple(2, 2, 8))

Open(c) == [c EXCEPT ![1].size = Unknown]

Parts == <<Cluster1, Tagging(<<"title", "live">>, FALSE), Cluster2, Cluster3>>
Plain == FileOf(Parts, <<>>)

Imitating ==
  <<Sized("Cluster", Leaf("Timecode", 0) \o Imitation(1, 0, 0) \o Simple(2, 0, 0)),
    Sized("Cluster", Leaf("Timecode", 4) \o Simple(1, 0, 4)),
    Sized("Cluster", Leaf("Timecode", 8) \o Simple(2, 0, 8) \o FullImitation(1, 0, 8)
                     \o Simple(2, 1, 8))>>

\* Unknown-size Clusters, ended by Tags (one malformed), Cues and Clusters.
Unsized ==
  FileOf(<<Open(Cluster1), Tagging(<<"live">>, FALSE), Open(Cluster2),
           Tagging(<<"bad">>, TRUE), Open(Cluster3), Sized("Cues", Bytes)>>, <<>>)

At == Starts(Parts)
Honest ==
  <<<<Cue(1, 0, At[1], None, None), Cue(1, 5, At[3], None, None), Cue(1, 8, At[4], None, None)>>,
    <<Cue(1, 0, At[1], 2, None), Cue(1, 5, At[3], 6, None), Cue(2, 4, At[3], None, 1),
      Cue(1, 8, At[4], None, 1), Cue(2, 10, At[4], None, 2)>>,
    <<Cue(1, 5, At[3], None, 3), Cue(1, 5, At[3], 6, None), Cue(1, 0, At[1], 0, None)>>>>

\* Cues that miss the Cluster, promise it too early, or lie in details that
\* degrade to a walk from the Cluster's header.
Lying ==
  <<<<Cue(1, 5, 1, None, None)>>, <<Cue(1, 5, InputLen(Plain), 0, None)>>,
    <<Cue(1, 5, 4, None, None)>>,
    <<Cue(1, 0, At[4], None, None)>>,
    <<Cue(1, 0, At[1], 99, None), Cue(1, 5, At[3], None, 9), Cue(2, 4, At[3], None, 0)>>>>

NoCluster == FileOf(<<Sized("Void", Bytes)>>, <<>>)

WithCues(cues) == [Plain EXCEPT !.cues = cues]

CleanFiles == <<Plain, FileOf(Imitating, <<>>), Unsized, NoCluster, [Unsized EXCEPT !.live = TRUE],
                WithCues(Honest[1]), WithCues(Honest[2]), WithCues(Honest[3])>>
LyingFiles == [i \in DOMAIN Lying |-> WithCues(Lying[i])]

Short(tc) == Sized("Cluster", Leaf("Timecode", tc) \o Simple(1, 0, tc))
\* Seven Clusters: a late one, and three of the middle in every order.
Orders == {o \in [1 .. 4 -> {2, 4, 6, 8}] : IsInjective(o) /\ o[1] = 8}
UnsortedFiles ==
  [o \in Orders |-> FileOf(<<Short(1), Short(o[1]), Short(o[2]), Short(o[3]), Short(o[4]),
                            Short(9), Short(10)>>, <<>>)]
=============================================================================
