--------------------------- MODULE MCMkvRecovery ---------------------------
(***************************************************************************)
(* Files to be opened: masters in front of the Clusters and behind them,   *)
(* SeekHeads that tell the truth and others, known and unknown sizes; each *)
(* with every cell damaged in turn and cut after every cell, strictly and  *)
(* resiliently.  And four layouts of the writer, with three packets.       *)
(***************************************************************************)
EXTENDS MkvRecovery, MCMkvDamage

Seek(id, at) == [id |-> id, at |-> at]
Summed(id, items) == Sized(id, Leaf("Crc", Items(items)) \o Items(items))

InfoA == Summed("Info", <<"title">>)
TracksA == Summed("Tracks", <<"tracks">>)
ClusterA == Sized("Cluster", Leaf("Timecode", 0) \o Simple(1, 0, 0))
ClusterB == Sized("Cluster", Leaf("Timecode", 4) \o Simple(2, 1, 4))

\* A Segment of these parts; `named' are the parts its SeekHead names, as
\* [id, part].
SegmentOf(parts, named) ==
  LET head == Sized("SeekHead", [i \in DOMAIN named |-> Leaf("Item", Seek(named[i].id, 0))[1]])
      at == Starts(<<head>> \o parts)
      items == Items([i \in DOMAIN named |-> Seek(named[i].id, at[named[i].part + 1])])
      all0 == IF named = <<>> THEN parts ELSE <<Sized("SeekHead", items)>> \o parts
      f == FileOf(all0, <<>>)
  IN  [cells |-> f.cells, dataEnd |-> 0, declared |-> Len(f.cells), first |-> None, clusters |-> f.clusters,
       cues |-> <<>>, live |-> FALSE, intact |-> TRUE, garbled |-> FALSE, resilient |-> TRUE,
       stored |-> f.stored, written |-> FALSE, masters |-> MastersIn(f.cells),
       info |-> <<>>, tags |-> <<>>]

Named(id, part) == [id |-> id, part |-> part]
LateCues == Summed("Cues", <<Cue(1, 0, 0, None, None)>>)

\* Everything late, and named; an entry that lies in front of a true one;
\* Cues nobody names behind Clusters of known and of unknown size.
Late ==
  SegmentOf(<<InfoA, TracksA, ClusterA, ClusterB, Tagging(<<"artist">>, FALSE),
              Summed("Chapters", <<"chapter">>), Sized("Attachments", Items(<<"cover">>)), LateCues>>,
            <<Named("Info", 1), Named("Cues", 8), Named("Tags", 5), Named("Chapters", 6),
              Named("Tags", 5), Named("Attachments", 7)>>)
Shadowed ==
  SegmentOf(<<TracksA, Tagging(<<"early">>, FALSE), ClusterA, Tagging(<<"late">>, FALSE), LateCues>>,
            <<Named("Tags", 4), Named("Cues", 4), Named("Cues", 5)>>)
Unnamed == SegmentOf(<<InfoA, TracksA, Sized("Void", Bytes), Open(ClusterA), Open(ClusterB), LateCues>>, <<>>)
Early ==
  SegmentOf(<<InfoA, Sized("SignatureSlot", Bytes), Tagging(<<"artist">>, FALSE), TracksA,
              LateCues, ClusterA, ClusterB>>, <<Named("Cues", 5), Named("Tags", 3)>>)
Endless == [Early EXCEPT !.declared = Unknown]

\* A Segment, the same with every cell damaged in turn, cut after every cell,
\* and, opened resiliently, with every size overwritten.
Hurt(f) == [p \in {"hurt"} \X (0 .. InputLen(f) - 1) |-> Damaged(f, {p[2]})]
Cut(f) ==
  [p \in {"cut"} \X (1 .. InputLen(f) - 1) |->
     [f EXCEPT !.cells = SubSeq(@, 1, p[2]), !.intact = FALSE, !.clusters = {c \in @ : c < p[2]}]]
Spoilt(f) ==
  [p \in {"spoilt"} \X (1 .. InputLen(f)) \X {Unknown, 2, 99} |->
     [f EXCEPT !.cells[p[2]].size = p[3], !.intact = FALSE, !.garbled = TRUE]]

InBothWays(files) == {[f EXCEPT !.resilient = how] : f \in files, how \in BOOLEAN}
Variants(f) == InBothWays({f} \cup Range(Hurt(f) @@ Cut(f))) \cup Range(Spoilt(f))

AllVariants == UNION {Variants(f) : f \in {Late, Shadowed, Unnamed, Early, Endless}}
UnopenedFiles == [f \in AllVariants |-> f]

Layout(live, strict, finalize, front) ==
  [live |-> live, strict |-> strict, finalize |-> finalize, front |-> front]
MCLayouts ==
  {Layout(TRUE, FALSE, FALSE, 0), Layout(FALSE, FALSE, TRUE, 0), Layout(FALSE, FALSE, FALSE, 5),
   Layout(FALSE, TRUE, FALSE, 3)}

MCFewTargets == {2, 6}

Packet(track, pts, indexable) ==
  [track |-> track, stream |-> track - 1, pts |-> pts, duration |-> 2, indexable |-> indexable]
MCRecording == <<Packet(1, 0, TRUE), Packet(2, 5, FALSE), Packet(1, 3, TRUE)>>
=============================================================================
