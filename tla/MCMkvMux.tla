------------------------------ MODULE MCMkvMux ------------------------------
(***************************************************************************)
(* Instances of the write path for TLC.  Two streams: stream 1 on a 1 ms   *)
(* time base, stream 2 on a half-millisecond one.  The 16-bit range, the   *)
(* Cluster budgets and the lace cap are scaled down so that a handful of   *)
(* packets crosses each of them.                                           *)
(***************************************************************************)
EXTENDS MkvMuxInv

MCStreams == {1, 2}
MCScale == (1 :> [mul |-> 1, div |-> 1]) @@ (2 :> [mul |-> 1, div |-> 2])

VideoSubtitle == (1 :> "Video") @@ (2 :> "Subtitle")
VideoAudio == (1 :> "Video") @@ (2 :> "Audio")

Pkt(s, pts, dur, key, size, group) ==
  [stream |-> s, pts |-> pts, dur |-> dur, key |-> key, size |-> size, group |-> group]

\* Backward, budget-crossing, derived and out-of-range timestamps; deltas
\* between keyframes; both Block shapes.
PlainPackets ==
  { Pkt(1, 0, 2, TRUE, 1, FALSE), Pkt(1, 2, 2, FALSE, 2, FALSE),
    Pkt(1, 3, None, TRUE, 1, TRUE), Pkt(1, None, 2, FALSE, 1, TRUE),
    Pkt(1, 7, None, TRUE, 1, FALSE), Pkt(1, -9, 3, TRUE, 1, FALSE),
    Pkt(2, 3, 4, TRUE, 1, FALSE), Pkt(2, -3, None, TRUE, 1, FALSE) }

\* Runs of one track, interruptions by the other, by a KEY change, by a size
\* change, by a BlockGroup and by rotations.
LacedPackets ==
  { Pkt(1, 0, 1, TRUE, 1, FALSE), Pkt(1, None, 1, TRUE, 1, FALSE),
    Pkt(1, None, 1, FALSE, 2, FALSE), Pkt(1, 6, 1, TRUE, 1, FALSE),
    Pkt(1, None, 1, FALSE, 1, TRUE), Pkt(2, 1, 2, TRUE, 1, FALSE),
    Pkt(2, None, 2, TRUE, 2, FALSE) }

LivePackets ==
  { Pkt(1, 0, 2, TRUE, 1, FALSE), Pkt(1, None, 2, FALSE, 1, FALSE),
    Pkt(2, 5, 4, TRUE, 1, FALSE), Pkt(1, 9, 2, TRUE, 2, TRUE) }

MCI16Min == -8
NoLists == {}
MCSilentLists == {{}, {2}}
=============================================================================
