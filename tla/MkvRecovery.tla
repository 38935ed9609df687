---------------------------- MODULE MkvRecovery ----------------------------
(***************************************************************************)
(* The writer, a crash, and the demuxer opened on what is left: MkvWriter, *)
(* MkvOpen and MkvDemux composed.  A behaviour opens and reads one file:   *)
(* one of Files, or what a writer leaves.                                  *)
(*                                                                         *)
(* The truth about a file is carried by it: besides what MkvDemuxProps     *)
(* uses, file.masters holds the masters that were stored before any        *)
(* damage, [id, at, items, to], and written says a writer left it.         *)
(***************************************************************************)
EXTENDS MkvOpen, MkvDemuxProps, MkvWriter

\* The packets are those of declared tracks, and no output reaches Far.
ASSUME RecoveryAssumption ==
  /\ Slack \in Nat
  /\ \A n \in DOMAIN Files : "written" \in DOMAIN Files[n] /\ ~Files[n].written
  /\ \A p \in Range(Recording) : p.track \in DOMAIN TrackIndex /\ p.stream = TrackIndex[p.track]
  /\ \A l \in Layouts : l.front + 5 * Len(Recording) + 14 < Far

all == <<vars, opening, writer>>

MastersIn(cells) ==
  {[id |-> cells[i].id, at |-> i - 1, to |-> i + cells[i].size,
    items |-> Lifted([cells |-> cells], i, i + cells[i].size).values["Item"]]
   : i \in {i \in DOMAIN cells : cells[i].id \in MasterIds}}

\* What a writer leaves behind, to be opened in one of the two ways.
LeftBehind(cells, resilient) ==
  [cells |-> cells, declared |-> Unknown, dataEnd |-> 0, first |-> None,
   clusters |-> {p \in 0 .. Len(cells) - 1 : cells[p + 1].id = "Cluster"},
   masters |-> MastersIn(cells), stored |-> stored, written |-> TRUE, intact |-> step = "done",
   garbled |-> FALSE, resilient |-> resilient, cues |-> <<>>, live |-> FALSE,
   info |-> <<>>, tags |-> <<>>]

Unused == CHOOSE l \in Layouts : TRUE

SystemInit ==
  /\ Blank
  /\ \/ phase = "start" /\ Start({Unused}) /\ \E n \in DOMAIN Files : Fresh(Files[n])
     \/ phase = "write" /\ Start(Layouts) /\ Fresh(LeftBehind(<<>>, FALSE))

WriterStep == phase = "write" /\ Write /\ UNCHANGED <<vars, opening>>

\* The writer ends, finished or by a crash, and its file is opened.
HandOver ==
  /\ phase = "write" /\ phase' = "start"
  /\ \E cells \in Remains, resilient \in BOOLEAN : file' = LeftBehind(cells, resilient)
  /\ UNCHANGED <<pos, stream, strategy, call, history, found, crcs, chase, writer>>

\* Seeks are made in the files the writer left (MkvDemux has them in others).
Call == phase = "open" /\ (NextPacket \/ (file.written /\ SeekTo)) /\ UNCHANGED opening
Working == OpenStep \/ (phase = "open" /\ LoopTurn /\ UNCHANGED opening)
ReaderStep == (OpenSegment \/ Working \/ Call \/ ScanForCues) /\ UNCHANGED writer

SystemNext == WriterStep \/ HandOver \/ ReaderStep

\* Opening and next_packet are loops on the caller's thread: they keep
\* turning.  Nobody is obliged to open a file or to write on.
System == SystemInit /\ [][SystemNext]_all /\ WF_all(Working /\ UNCHANGED writer)

-----------------------------------------------------------------------------

\* Opening and next_packet return, whatever the file holds.
CallsReturn ==
  /\ (call = "next") ~> (call = "idle")
  /\ (phase \in {"walk", "chase"}) ~> (phase \in {"open", "failed"})

\* A file cut at an arbitrary byte "still demuxes its packet prefix"
\* (README.md:1229): when reading ends, at the end or with the strict
\* demuxer's error, every packet whose write_packet had returned was
\* delivered, in order and unchanged, and no other; after a seek those from
\* where it landed.  So it is after a crash in the trailer, and for a
\* finished file.
CutFileKeepsItsPackets ==
  phase = "open" /\ file.written /\ last \in {"eof", "err"} => given = Stored(landing.off)

\* Every byte of this master is there, and each of its elements parses.
Whole(m) ==
  /\ Header(file, m.at).id = m.id /\ m.to <= InputLen(file)
  /\ \A p \in m.at .. m.to - 1 : Parses(Header(file, p))

\* Damage elsewhere never costs the tracks: where the walk comes past a
\* whole Tracks a resilient open succeeds; a strict one where nothing is
\* damaged.
OpenFailsOnlyForCause ==
  phase = "failed" /\ ~file.garbled =>
    ~\E m \in file.masters :
       /\ m.id = "Tracks" /\ m.items # <<>> /\ Whole(m)
       /\ Resilient \/ file.intact
       /\ \A c \in file.clusters : m.at < c

Lost(m) == ~(Range(m.items) \subseteq Range(found[m.id]))

\* Where the demuxer starts, or would.
PlaysFrom == IF file.first = None THEN SegmentEnd ELSE file.first

JustOpened == phase = "open" /\ call = "idle" /\ last = "open" /\ seeks = 0

\* What opening lifts was stored in a master of that kind, and comes once,
\* however the SeekHead names it; of a master behind the Clusters it is all
\* or nothing.
FoundOnce(id) ==
  LET those == {m \in file.masters : m.id = id}
      got == Range(found[id])
  IN  /\ IsInjective(found[id])
      /\ got \subseteq UNION {Range(m.items) : m \in those}
      /\ \A m \in those : m.at > PlaysFrom => Range(m.items) \cap got \in {{}, Range(m.items)}

\* The SeekHead's first entry for its kind points at this master behind the
\* first Cluster, and the walk met none of its kind.
Promised(m) ==
  LET those == SelectSeq(found.SeekHead, LAMBDA s : s.id = m.id /\ s.at >= file.first /\ s.at < SegmentEnd)
  IN  /\ m.id \in ChaseIds /\ those # <<>> /\ those[1].at = m.at
      /\ \A o \in file.masters : o.id = m.id /\ o.at < file.first => o.items = <<>>

\* Every master comes once and unmixed, and those behind the Clusters that
\* the SeekHead promises and that are whole do come.
MastersAreFound ==
  JustOpened /\ ~file.garbled =>
    /\ \A id \in MasterIds \ {"SeekHead"} : FoundOnce(id)
    /\ file.first # None =>
         \A m \in file.masters : Whole(m) /\ m.to <= SegmentEnd /\ Promised(m) => ~Lost(m)

\* "!damage_events().is_empty() is exactly `this file needed recovery'"
\* (demux.rs:9769): opening reports nothing of an undamaged file, and what it
\* lost of a master in front of the first Cluster lies in a reported range.
DamageAtOpenIsReported ==
  JustOpened /\ Resilient =>
    /\ file.intact => \A e \in Range(damage) : e.kind = "CueLie"
    /\ ~file.garbled =>
         \A m \in file.masters :
           Lost(m) /\ m.at < PlaysFrom =>
             \E e \in Range(damage) :
               e.kind # "CueLie" /\ e.offset < m.to /\ (e.resumedAt = None \/ m.at < e.resumedAt)

-----------------------------------------------------------------------------
(* What the writer leaves, seen through the demuxer.                       *)

Written == phase = "open" /\ file.written

\* The audits find nothing wrong with a cue of the writer's, wherever it
\* crashed, nor with its SeekHead, but for the Cues entry, which names
\* offset 0 until the trailer has patched it.  Finished, the file opens with
\* the whole index.
IndexIsTruthful ==
  Written =>
    /\ \A i \in DOMAIN file.cues : CueIsTrue(file.cues[i])
    /\ \A s \in Range(found.SeekHead) :
         SeekIsTrue(s) \/ (~file.intact /\ s.id = "Cues" /\ s.at = 0)
    /\ file.intact /\ ~layout.live => file.cues = index

\* "A crashed producer (no trailer) or a zero-packet mux leaves a harmless
\* Void, never a bogus duration" (README.md:1213), and a finished file has
\* the latest end of its packets.  Every checksum is right but one that a
\* crash caught in writing: that of the Cues, or of the Info between its two
\* patches.
DurationIsTruthful ==
  Written =>
    /\ found.Duration \in {<<>>, <<maxEnd>>}
    /\ file.intact /\ layout.finalize /\ stored # <<>> => found.Duration = <<maxEnd>>
    /\ \A c \in Range(crcs) :
         c.valid \/ (step = "crc" /\ c.id = "Info") \/ (step = "cues" /\ c.id = "Cues")
=============================================================================
