---------------------------- MODULE MkvDemuxInv ----------------------------
(***************************************************************************)
(* What the reader's position, the Cluster it is in, its queue and its     *)
(* resync floor say about each other at every turn of next_packet's loop,  *)
(* whatever the file holds.  MkvDemuxProofs proves it.                     *)
(***************************************************************************)
EXTENDS MkvDemuxProps

\* The reader stays inside the offsets of the file that is open.
ReaderShape ==
  /\ LegalFile(file)
  /\ pos \in 0 .. Far /\ floor \in Nat
  /\ \/ state = Idle
     \/ /\ DOMAIN state = {"in", "start", "end", "tc"}
        /\ state.in = "Cluster" /\ state.end \in 0 .. Far

\* Nothing is left to read: next_packet reports the end, until a seek.
Done == state = Idle /\ pos >= SegmentEnd

\* Packet p is stored before packet q.
Before(p, q) == p.at < q.at \/ (p.at = q.at /\ p.frame < q.frame)

\* Returned and queued packets lie behind the reader, in storage order.  (A
\* Cluster a cue led into may end behind the Segment; damage there brings the
\* reader back to the Segment's end, where it is done.)
QueueInOrder ==
  /\ queue \in Seq(Range(queue)) /\ given \in Seq(Range(given))
  /\ \A p \in Range(queue) \cup Range(given) : p.at \in Nat /\ (p.at < pos \/ Done)
  /\ \A i, j \in DOMAIN queue : i < j => Before(queue[i], queue[j])
  /\ \A i, j \in DOMAIN given : i < j => Before(given[i], given[j])
  /\ \A p \in Range(given), q \in Range(queue) : Before(p, q)

\* Until a seek takes the reader back, the floor is no further than the next
\* cell: no plausible element behind the damage is passed over for it.
FloorIsBehind == floor <= pos + 1 \/ Done

\* Where opening found no Cluster there is nothing to read.
NothingToRead == file.first = None => Done

ReaderInv == ReaderShape /\ QueueInOrder
RecoveryInv ==
  /\ FloorIsBehind /\ NothingToRead
  /\ damage \in Seq(Range(damage)) /\ ResumesAtNextElement

\* All of it: recovery is the best there is until the first seek.
DemuxInv == ReaderInv /\ seeks \in Nat /\ (seeks = 0 => RecoveryInv)

\* Every turn of next_packet's loop ends the call, or moves the reader on, or
\* leaves a Cluster where it is: what is left to read bounds the turns of one
\* call (the loop under next_packet, demux.rs:9454).
Left == IF Done THEN 0 ELSE 2 * (Far - pos) + (IF state = Idle THEN 1 ELSE 2)
EveryTurnCounts ==
  [][LoopTurn => /\ Left \in Nat
                 /\ call' = "idle" \/ (Left' \in Nat /\ Left' < Left)]_vars
-----------------------------------------------------------------------------
(* Intact files.  f.tops are the offsets of the Segment's children and     *)
(* f.kids those of the children of its Clusters, as they were written.     *)

Elements(f) == f.tops \cup f.kids

\* Where the element behind the one at o begins: inside a Cluster, else past it.
Onward(f, o) == IF o \in f.clusters THEN o + 1 ELSE NextAt(f, o)

\* The elements follow each other up to the Segment's end, and none begins
\* inside another one.
Tiled(f) ==
  /\ f.dataEnd <= InputLen(f) /\ f.clusters \subseteq f.tops /\ f.tops \cap f.kids = {}
  /\ IF f.first = None THEN f.stored = <<>> ELSE f.first \in f.tops
  /\ \A o \in Elements(f) :
       /\ o \in 0 .. f.dataEnd - 1 /\ Parses(Header(f, o))
       /\ Onward(f, o) \in Elements(f) \cup {f.dataEnd}
       /\ \A x \in Elements(f) : ~(o < x /\ x < Onward(f, o))

\* Only Clusters have an unknown size or children the reader walks into, and
\* what the Tags parser can read ends with its element.
TopsLegal(f) ==
  \A o \in f.tops :
    LET h == Header(f, o) IN
    /\ o \in f.clusters <=> h.id = "Cluster"
    /\ h.id \notin LeafIds \cup {"BlockGroup"}
    /\ h.size = Unknown => o \in f.clusters
    /\ h.size # Unknown => /\ NextAt(f, o) \in f.tops \cup {f.dataEnd}
                           /\ \A t \in f.tops : ~(o < t /\ t < NextAt(f, o))
    /\ h.id = "Tags" => LET read == Lifted(f, o + 1, NextAt(f, o))
                        IN  read.err \/ read.to = NextAt(f, o)

\* The Timestamp at t is the one in force at k: the last before it, in the
\* same Cluster.
InForce(f, t, k) ==
  /\ Header(f, t).id = "Timecode" /\ t < k
  /\ \A x \in Elements(f) : t < x /\ x < k => x \in f.kids /\ Header(f, x).id # "Timecode"

\* The Block the child at k is or holds, or None.
BlockOf(f, k) ==
  CASE Header(f, k).id = "SimpleBlock" -> k
    [] Header(f, k).id = "BlockGroup" -> Group(f, k + 1, NextAt(f, k)).block
    [] OTHER -> None

\* Each Block decodes, and what was stored in it (its time, its duration per
\* frame, whether its frames are key frames) follows from the Timestamp in
\* force and the group around it.
KidsLegal(f) ==
  \A k \in f.kids :
    LET h == Header(f, k)
        g == Group(f, k + 1, NextAt(f, k))
        b == Header(f, BlockOf(f, k))
    IN  /\ Readable(f, k) /\ h.id \notin TopLevelIds \ {"SignatureSlot"}
        /\ h.id = "SimpleBlock" => h.duration = None /\ h.whole = TRUE
        /\ h.id = "BlockGroup" => ~g.err /\ g.to = NextAt(f, k)
        /\ h.id = "BlockGroup" /\ g.block # None =>
             /\ b.duration = IF g.duration = None THEN None ELSE g.duration \div Max({b.frames, 1})
             /\ b.whole = KeyFlag(b, g.key)
        /\ BlockOf(f, k) # None =>
             /\ BlockParses(b)
             /\ \E t \in f.kids : InForce(f, t, k) /\ b.time = Header(f, t).v + b.off

\* The packets stored in the Block b at p.
PacketsOf(b, p) ==
  IF b.track \notin DOMAIN TrackIndex THEN <<>>
  ELSE [i \in 1 .. b.frames |->
          [stream |-> TrackIndex[b.track], at |-> p, frame |-> i,
           pts |-> b.time + (IF b.duration = None THEN 0 ELSE b.duration * (i - 1)),
           duration |-> b.duration, key |-> b.whole]]

Yield(f, o) ==
  IF o \notin f.kids \/ BlockOf(f, o) = None THEN <<>>
  ELSE PacketsOf(Header(f, BlockOf(f, o)), BlockOf(f, o))

\* f.stored lists packets by their place.
StoredInOrder(f) ==
  /\ f.stored \in Seq(Range(f.stored))
  /\ \A i, j \in DOMAIN f.stored : i < j => f.stored[i].at <= f.stored[j].at
  /\ \A i \in DOMAIN f.stored : f.stored[i].at \in Nat

\* f.stored lists the packets of the elements, element by element.
StoredTruly(f) ==
  /\ f.stored \in Seq(Range(f.stored))
  /\ \A i, j \in DOMAIN f.stored : i < j => f.stored[i].at <= f.stored[j].at
  /\ \A i \in DOMAIN f.stored :
       f.stored[i].at \in Nat /\ f.first <= f.stored[i].at /\ f.stored[i].at < f.dataEnd
  /\ \A o \in Elements(f) : \E a \in 0 .. Len(f.stored) :
       LET y == Yield(f, o) IN
       /\ a + Len(y) <= Len(f.stored)
       /\ \A i \in DOMAIN f.stored :
            f.stored[i].at >= o /\ f.stored[i].at < Onward(f, o) <=> a < i /\ i <= a + Len(y)
       /\ \A j \in DOMAIN y : f.stored[a + j] = y[j]

\* What makes a file intact, told element by element.
WellFormed(f) == Tiled(f) /\ TopsLegal(f) /\ KidsLegal(f) /\ StoredTruly(f)

\* A search finds its way: each Cluster leads with its Timestamp, opening
\* found the first of them, and no payload imitates a Cluster so well that a
\* probe confirms it; the scan past a Cluster of unknown size meets none of
\* the Segment's elements that is not one.
Searchable(f) ==
  /\ f.first # None => f.first \in f.clusters /\ \A c \in f.clusters : f.first <= c
  /\ \A c \in f.clusters :
       c + 1 \in f.kids /\ Header(f, c + 1).id = "Timecode" /\ Header(f, c + 1).v # None
  /\ \A p \in 0 .. f.dataEnd - 1, tolerate \in BOOLEAN :
       LET c == VetCluster(f, p, f.dataEnd, tolerate)
       IN  Header(f, p).id = "Cluster" /\ c # NoProbe /\ ConfirmBoundary(f, c, f.dataEnd)
           => p \in f.clusters
  /\ \A p \in 0 .. f.dataEnd - 1 :
       /\ \E c \in f.clusters : Header(f, c).size = Unknown
       /\ Header(f, p).id \in TopLevelIds /\ VetTopLevel(f, p, f.dataEnd)
       => p \in f.tops

\* Where the Clusters are stored in the order of their Timestamps, every Block
\* is earlier than the Timestamps of the Clusters behind it.
Timely(f) ==
  (\A c, d \in f.clusters : c < d => Header(f, c + 1).v <= Header(f, d + 1).v) =>
    \A i \in DOMAIN f.stored :
      /\ f.stored[i].pts \in Int
      /\ \A c \in f.clusters : f.stored[i].at < c => f.stored[i].pts < Header(f, c + 1).v

\* The reader is at a child of the Cluster it is in or where that ends, and
\* knows the Timestamp in force.
AtChild ==
  /\ state.in = "Cluster" /\ pos \in Elements(file) \cup {file.dataEnd}
  /\ \E c \in file.clusters :
       /\ c < pos /\ pos <= state.end
       /\ state.end = IF Header(file, c).size = Unknown THEN file.dataEnd ELSE NextAt(file, c)
  /\ \A t \in file.kids : InForce(file, t, pos) => state.tc = Header(file, t).v

\* The reader is at an element of the Segment or of the Cluster it is in, or
\* a cue has left it at a Cluster it is about to enter.
AtElement ==
  \/ state = Idle /\ pos \in file.tops \cup {file.dataEnd}
  \/ state.in = "Cluster" /\ pos \in file.clusters
  \/ AtChild

\* The packets returned and queued since the last seek are the stored ones
\* from there to the reader.
Delivered ==
  \E m, n \in 0 .. Len(file.stored) :
    /\ m + Len(given) + Len(queue) = n
    /\ \A i \in DOMAIN file.stored : /\ file.stored[i].at < landing.off <=> i <= m
                                     /\ file.stored[i].at < pos <=> i <= n
    /\ \A i \in DOMAIN given : given[i] = file.stored[m + i]
    /\ \A i \in DOMAIN queue : queue[i] = file.stored[m + Len(given) + i]

\* The reader started where opening or a seek found a Cluster of an intact file.
Grounded ==
  WellFormed(file) /\ (seeks = 0 \/ (last # "err" /\ landing.off \in file.clusters))

\* Reading an intact file meets no damage, gives every packet stored behind
\* the landing once and in order, and ends behind the last of them.
IntactInv ==
  /\ landing.off \in Nat /\ \E n \in DOMAIN Files : file = Files[n]
  /\ last = "err" => call = "idle" /\ ~Resilient
  /\ Grounded =>
       /\ last # "err" /\ AtElement /\ Delivered
       /\ seeks = 0 => damage = <<>>
       /\ last = "eof" => Done /\ queue = <<>>

\* In a file a search finds its way in, the reader stays grounded unless the
\* index is trusted, and a seek without it lands where it says.
CuelessInv ==
  /\ strategy \in {"None", "Cues", "Bisection", "LinearScan"}
  /\ strategy = "None" => landing.track = None
  /\ landing.wanted \in Int
  /\ WellFormed(file) /\ Searchable(file) =>
       /\ strategy # "Cues" => Grounded
       /\ strategy \in {"Bisection", "LinearScan"} =>
            /\ landing.off \in file.clusters
            /\ landing.landed = TimestampOf(landing.off)
            /\ landing.landed > landing.wanted => landing.off = Min(file.clusters)

\* What follows of it for the caller.
ReadsIntactFile ==
  Grounded =>
    /\ last # "err" /\ IsPrefix(given, Stored(landing.off))
    /\ last = "eof" => given = Stored(landing.off)
=============================================================================
