--------------------------- MODULE MkvDemuxProofs ---------------------------
(***************************************************************************)
(* The invariants of MkvDemuxInv hold whatever the file holds: legal or    *)
(* damaged, in any order of its elements, wherever seeks take the reader.  *)
(* What a turn does to the reader, then one step per invariant and action. *)
(* The second half is about intact files, whose elements are in place.     *)
(***************************************************************************)
EXTENDS MkvDemuxInv, MkvFileProofs

\* The reader has moved on, past what it has queued.
MovesOn ==
  /\ call' = call /\ file' = file /\ given' = given /\ floor' = floor /\ damage' = damage
  /\ queue = <<>> /\ ~Done /\ seeks' = seeks
  /\ pos' \in 0 .. Far /\ pos < pos'
  /\ \/ state' = Idle
     \/ /\ DOMAIN state' = {"in", "start", "end", "tc"}
        /\ state'.in = "Cluster" /\ state'.end \in 0 .. Far
  /\ queue' \in Seq(Range(queue')) /\ DOMAIN queue' \subseteq Nat
  /\ \E at \in pos .. pos' - 1 : \A i \in DOMAIN queue' : queue'[i].at = at /\ queue'[i].frame = i

\* It has left the Cluster where it was.
Leaves ==
  /\ call' = call /\ file' = file /\ given' = given /\ floor' = floor /\ damage' = damage
  /\ queue = <<>> /\ queue' = <<>> /\ pos' = pos /\ state # Idle /\ state' = Idle /\ seeks' = seeks

LEMMA TurnsAre ==
  ASSUME ReaderShape, LoopTurn
  PROVE  MovesOn \/ Leaves \/ Resync \/ ReturnPacket \/ EndOfSegment \/ FailPacket
<1>0. Far \in Nat /\ pos \in Nat /\ pos <= Far /\ LegalFile(file)
  BY ProbeAssumption DEF ReaderShape
<1>1. AtTop => pos < Far /\ state = Idle /\ ~Done
  <2>1. SegmentEnd \in 0 .. Far
    BY <1>0, SegmentEndIs
  <2> QED BY <1>0, <2>1 DEF AtTop, Done
<1>2. Inside => /\ pos < Far /\ state # Idle /\ ~Done
                /\ DOMAIN state = {"in", "start", "end", "tc"}
                /\ state.in = "Cluster" /\ state.end \in 0 .. Far
  <2>1. Idle.in # "Cluster"
    BY DEF Idle
  <2> QED BY <1>0, <2>1 DEF Inside, ReaderShape, Done
<1>3. AfterHere \in 0 .. Far /\ (pos < Far => AfterHere > pos)
  BY <1>0, NextIs DEF AfterHere, Here
<1>4. <<>> \in Seq(Range(<<>>)) /\ DOMAIN <<>> \subseteq Nat
  OBVIOUS
\* A step that only moves the reader on, in the state it is in.
<1>5. ASSUME NEW p, Advanced(p), queue = <<>>, queue' = <<>>, p \in 0 .. Far, p > pos, ~Done,
             \/ state' = Idle
             \/ /\ DOMAIN state' = {"in", "start", "end", "tc"}
                /\ state'.in = "Cluster" /\ state'.end \in 0 .. Far
      PROVE  MovesOn
  <2>1. pos \in pos .. pos' - 1
    BY <1>0, <1>5 DEF Advanced
  <2> QED BY <1>0, <1>5, <1>4, <2>1 DEF MovesOn, Advanced, history
<1>6. CASE OpenCluster
  <2>1. WalkEnd(pos) \in 0 .. Far
    BY <1>0, ClusterEndIs
  <2>2. /\ DOMAIN state' = {"in", "start", "end", "tc"}
        /\ state'.in = "Cluster" /\ state'.end \in 0 .. Far
    BY <1>6, <2>1 DEF OpenCluster, InCluster
  <2>3. queue = <<>> /\ queue' = <<>> /\ Advanced(pos + 1) /\ AtTop
    BY <1>6 DEF OpenCluster, AtTop, Turn
  <2>4. pos + 1 \in 0 .. Far /\ pos + 1 > pos
    BY <1>0, <1>1, <2>3
  <2>5. MovesOn
    BY <1>1, <1>5, <2>2, <2>3, <2>4
  <2> QED BY <2>5
<1>7. CASE ApplyTags
  <2>1. AtTop /\ queue = <<>> /\ queue' = <<>> /\ state' = Idle
    BY <1>1, <1>7 DEF ApplyTags, AtTop, Turn
  <2>2. pos < Far
    BY <1>1, <2>1
  <2>3. Lifted(file, pos + 1, AfterHere).to \in pos + 1 .. Far
    <3>1. pos + 1 \in 0 .. Far
      BY <1>0, <2>2
    <3> QED BY <1>0, <1>3, <3>1, LiftedWithin
  <2>4. \E p \in {AfterHere, Lifted(file, pos + 1, AfterHere).to} : Advanced(p)
    BY <1>7 DEF ApplyTags
  <2>5. PICK p \in {AfterHere, Lifted(file, pos + 1, AfterHere).to} : Advanced(p)
    BY <2>4
  <2>6. p \in 0 .. Far /\ p > pos
    BY <1>0, <1>3, <2>2, <2>3
  <2>7. MovesOn
    BY <1>1, <1>5, <2>1, <2>5, <2>6
  <2> QED BY <2>7
<1>8. CASE SkipTopLevel
  <2>1. AtTop /\ queue = <<>> /\ queue' = <<>> /\ state' = Idle /\ Advanced(AfterHere)
    BY <1>1, <1>8 DEF SkipTopLevel, AtTop, Turn
  <2>2. MovesOn
    BY <1>1, <1>3, <1>5, <2>1
  <2> QED BY <2>2
<1>9. CASE LeaveCluster \/ LeaveAtTopLevel
  <2>1. Idle.in # "Cluster"
    BY DEF Idle
  <2>2. Leaves
    BY <1>9, <2>1 DEF LeaveCluster, LeaveAtTopLevel, Inside, Turn, Advanced, Leaves, history
  <2> QED BY <2>2
<1>10. CASE ReadTimecode
  <2>1. Inside /\ queue = <<>> /\ queue' = <<>> /\ state' = [state EXCEPT !.tc = Here.v] /\ Advanced(AfterHere)
    BY <1>10 DEF ReadTimecode, Inside, Turn
  <2>2. /\ DOMAIN state' = {"in", "start", "end", "tc"}
        /\ state'.in = "Cluster" /\ state'.end \in 0 .. Far
    BY <1>2, <2>1
  <2>3. MovesOn
    BY <1>2, <1>3, <1>5, <2>1, <2>2
  <2> QED BY <2>3
<1>11. CASE ReadRecord \/ SkipChild
  <2>1. Inside /\ queue = <<>> /\ queue' = <<>> /\ state' = state /\ Advanced(AfterHere)
    BY <1>11 DEF ReadRecord, SkipChild, Inside, Turn
  <2>2. MovesOn
    BY <1>2, <1>3, <1>5, <2>1
  <2> QED BY <2>2
<1>12. CASE ReadSimpleBlock
  <2> DEFINE P == Packets(Here, pos, state.tc, TRUE, None)
  <2>1. Inside /\ queue = <<>> /\ queue' = P /\ state' = state /\ Advanced(AfterHere) /\ Here.id = "SimpleBlock"
    BY <1>12 DEF ReadSimpleBlock, Inside, Turn
  <2>2. Here.frames \in Nat
    BY <1>0, <2>1, HeaderIs DEF Here
  <2> HIDE DEF P
  <2>3. /\ P \in Seq(Range(P)) /\ DOMAIN P \subseteq Nat
        /\ \A i \in DOMAIN P : P[i].at = pos /\ P[i].frame = i
    <3>1. PICK whole \in BOOLEAN : whole = TRUE
      OBVIOUS
    <3>2. P = Packets(Here, pos, state.tc, whole, None)
      BY <3>1 DEF P
    <3> QED BY <2>2, <3>2, PacketsAre
  <2>4. pos' = AfterHere /\ pos \in pos .. pos' - 1 /\ pos' \in 0 .. Far /\ pos < pos'
    BY <1>0, <1>2, <1>3, <2>1 DEF Advanced
  <2>5. \E at \in pos .. pos' - 1 : \A i \in DOMAIN P : P[i].at = at /\ P[i].frame = i
    BY <2>3, <2>4
  <2>6. MovesOn
    BY <1>2, <2>1, <2>3, <2>4, <2>5 DEF MovesOn, Advanced, history
  <2> QED BY <2>6
<1>13. CASE ReadBlockGroup
  <2> DEFINE g == HereGroup
             P == Packets(Header(file, g.block), g.block, state.tc, g.key, g.duration)
  <2>1. Inside /\ queue = <<>> /\ state' = state /\ Advanced(g.to)
    BY <1>13 DEF ReadBlockGroup, Inside, Turn
  <2>2. pos + 1 \in 0 .. Far
    BY <1>0, <1>2, <2>1
  <2>3. /\ g.to \in pos + 1 .. Far
        /\ g.block # None => g.block \in pos + 1 .. g.to - 1 /\ Header(file, g.block).id = "Block"
    BY <1>0, <1>3, <2>2, GroupWithin DEF HereGroup
  <2>4. queue' = IF g.block = None THEN <<>> ELSE P
    BY <1>13 DEF ReadBlockGroup
  <2> HIDE DEF g, P
  <2>5. CASE g.block = None
    <3>1. g.to \in 0 .. Far /\ g.to > pos /\ queue' = <<>>
      BY <1>0, <2>3, <2>4, <2>5
    <3>2. MovesOn
      BY <1>2, <1>5, <2>1, <3>1
    <3> QED BY <3>2
  <2>6. CASE g.block # None
    <3>1. g.block \in Nat /\ Header(file, g.block).frames \in Nat
      BY <1>0, <2>3, <2>6, HeaderIs
    <3>2. /\ P \in Seq(Range(P)) /\ DOMAIN P \subseteq Nat
          /\ \A i \in DOMAIN P : P[i].at = g.block /\ P[i].frame = i
      BY <3>1, PacketsAre DEF P
    <3>3. pos' = g.to /\ g.block \in pos .. pos' - 1 /\ pos' \in 0 .. Far /\ pos < pos' /\ queue' = P
      BY <1>0, <2>1, <2>3, <2>4, <2>6 DEF Advanced
    <3>4. \E at \in pos .. pos' - 1 : \A i \in DOMAIN P : P[i].at = at /\ P[i].frame = i
      BY <3>2, <3>3
    <3>5. MovesOn
      BY <1>2, <2>1, <3>2, <3>3, <3>4 DEF MovesOn, Advanced, history
    <3> QED BY <3>5
  <2> QED BY <2>5, <2>6
<1> QED BY <1>6, <1>7, <1>8, <1>9, <1>10, <1>11, <1>12, <1>13 DEF LoopTurn
\* Recovery takes the reader on, or to the Segment's end.
LEMMA ResyncIs ==
  ASSUME ReaderShape, Resync
  PROVE  /\ call' = call /\ file' = file /\ given' = given /\ seeks' = seeks
         /\ queue = <<>> /\ queue' = <<>> /\ ~Done
         /\ pos < Far /\ pos' \in 0 .. Far /\ state' = Idle /\ floor' \in Nat
         /\ \E to \in Nat \cup {None} :
              /\ to = ScanTopLevel(file, ResyncFrom, SegmentEnd)
              /\ damage' = Append(damage, [kind |-> IF to = None THEN "UnrecoverableTail" ELSE "ClusterStream",
                                           offset |-> pos, resumedAt |-> to])
              /\ to # None => pos' = to /\ floor' = to + 1 /\ to > pos
              /\ to = None => pos' = SegmentEnd /\ floor' = floor /\ Done'
<1> DEFINE to == ScanTopLevel(file, ResyncFrom, SegmentEnd)
<1>1. Far \in Nat /\ pos \in Nat /\ pos <= Far /\ floor \in Nat /\ LegalFile(file)
  BY ProbeAssumption DEF ReaderShape
<1>2. SegmentEnd \in 0 .. Far /\ SegmentEnd \in Nat
  BY <1>1, SegmentEndIs
<1>3. AtTop \/ Inside
  BY DEF Resync, AdvanceFails
<1>4. queue = <<>> /\ ~Done /\ pos < Far
  <2>1. CASE AtTop
    BY <1>1, <1>2, <2>1 DEF AtTop, Turn, Done
  <2>2. CASE Inside
    <3>1. state # Idle /\ state.end \in 0 .. Far
      BY <2>2 DEF Inside, Idle, ReaderShape
    <3> QED BY <1>1, <2>2, <3>1 DEF Inside, Turn, Done
  <2> QED BY <1>3, <2>1, <2>2
<1>5. ResyncFrom \in Nat /\ ResyncFrom > pos
  <2>1. pos + 1 \in Int /\ floor \in Int
    BY <1>1
  <2>2. ResyncFrom = IF pos + 1 >= floor THEN pos + 1 ELSE floor
    BY <2>1, MaxOfTwo DEF ResyncFrom
  <2> QED BY <1>1, <2>2
<1>6. to = None \/ to \in ResyncFrom .. SegmentEnd - 1
  BY <1>2, <1>5, ScanIs
<1>7. /\ call' = call /\ file' = file /\ given' = given /\ seeks' = seeks /\ queue' = queue
      /\ state' = Idle
      /\ damage' = Reported("ClusterStream", pos, to)
      /\ pos' = IF to = None THEN SegmentEnd ELSE to
      /\ floor' = IF to = None THEN floor ELSE to + 1
  BY DEF Resync, history
<1> HIDE DEF to
<1>8. to \in Nat \cup {None} /\ (to # None => to \in Nat /\ to > pos /\ to <= Far)
  BY <1>1, <1>2, <1>5, <1>6
<1>9. SegmentEnd' = SegmentEnd
  BY <1>7 DEF SegmentEnd, Resilient
<1>10. to = None => Done'
  <2>1. Idle' = Idle
    BY DEF Idle
  <2> QED BY <1>2, <1>7, <1>9, <2>1 DEF Done
<1>11. damage' = Append(damage, [kind |-> IF to = None THEN "UnrecoverableTail" ELSE "ClusterStream",
                                 offset |-> pos, resumedAt |-> to])
  BY <1>7 DEF Reported
<1>12. pos' \in 0 .. Far /\ floor' \in Nat
  BY <1>1, <1>2, <1>7, <1>8
<1>13. /\ to # None => pos' = to /\ floor' = to + 1 /\ to > pos
       /\ to = None => pos' = SegmentEnd /\ floor' = floor /\ Done'
  BY <1>7, <1>8, <1>10
<1>14. to = ScanTopLevel(file, ResyncFrom, SegmentEnd)
  BY DEF to
<1> QED BY <1>4, <1>7, <1>8, <1>11, <1>12, <1>13, <1>14

-----------------------------------------------------------------------------
(* Packets are queued and returned in storage order.                       *)

\* A step that leaves the queue and what was returned as they are keeps
\* their order, if it leaves them behind the reader.
LEMMA QueueStays ==
  ASSUME QueueInOrder, queue' = queue, given' = given,
         \A p \in Range(queue) \cup Range(given) : p.at < pos' \/ Done'
  PROVE  QueueInOrder'
BY DEF QueueInOrder, Before

LEMMA ReturnKeepsOrder ==
  ASSUME QueueInOrder, ReturnPacket
  PROVE  QueueInOrder'
<1> DEFINE n == Len(queue)
           m == Len(given)
<1>1. /\ queue # <<>> /\ queue' = Tail(queue) /\ given' = Append(given, Head(queue))
      /\ pos' = pos /\ state' = state /\ file' = file
  BY DEF ReturnPacket, input
<1>2. /\ n \in Nat /\ n >= 1 /\ DOMAIN queue = 1 .. n
      /\ DOMAIN queue' = 1 .. n - 1
      /\ \A i \in 1 .. n - 1 : queue'[i] = queue[i + 1]
      /\ Head(queue) = queue[1]
  BY <1>1 DEF QueueInOrder
<1>3. /\ m \in Nat /\ DOMAIN given = 1 .. m
      /\ DOMAIN given' = 1 .. m + 1
      /\ \A i \in 1 .. m : given'[i] = given[i]
      /\ given'[m + 1] = queue[1]
  BY <1>1, <1>2 DEF QueueInOrder
<1>o. /\ \A i, j \in DOMAIN queue : i < j => Before(queue[i], queue[j])
      /\ \A i, j \in DOMAIN given : i < j => Before(given[i], given[j])
      /\ \A p \in Range(given), q \in Range(queue) : Before(p, q)
  BY DEF QueueInOrder
<1>4. queue' \in Seq(Range(queue'))
  <2>1. queue' \in Seq(Range(queue))
    BY <1>1 DEF QueueInOrder
  <2> QED BY <2>1, SeqOfRange
<1>5. given' \in Seq(Range(given'))
  <2>1. queue[1] \in Range(queue)
    BY <1>2 DEF Range
  <2>2. given \in Seq(Range(given) \cup Range(queue))
    BY DEF QueueInOrder
  <2>3. given' \in Seq(Range(given) \cup Range(queue))
    BY <1>1, <1>2, <2>1, <2>2
  <2> QED BY <2>3, SeqOfRange
<1>6. Range(queue') \subseteq Range(queue)
  BY <1>2 DEF Range
<1>7. Range(given') \subseteq Range(given) \cup {queue[1]}
  BY <1>3 DEF Range
<1>8. \A p \in Range(queue') \cup Range(given') : p.at \in Nat /\ (p.at < pos' \/ Done')
  <2>1. Done' = Done
    BY <1>1 DEF Done, Idle, SegmentEnd, Resilient
  <2>2. queue[1] \in Range(queue)
    BY <1>2 DEF Range
  <2> QED BY <1>1, <1>6, <1>7, <2>1, <2>2 DEF QueueInOrder
<1> HIDE DEF n, m
<1>9. \A i, j \in DOMAIN queue' : i < j => Before(queue'[i], queue'[j])
  <2> SUFFICES ASSUME NEW i \in 1 .. n - 1, NEW j \in 1 .. n - 1, i < j
               PROVE  Before(queue'[i], queue'[j])
    BY <1>2
  <2>1. i + 1 \in DOMAIN queue /\ j + 1 \in DOMAIN queue /\ i + 1 < j + 1
    BY <1>2
  <2>2. Before(queue[i + 1], queue[j + 1])
    BY <1>o, <2>1
  <2> QED BY <1>2, <2>2
<1>10. \A p \in Range(given) : Before(p, queue[1])
  BY <1>2 DEF QueueInOrder, Range
<1>11. \A i, j \in DOMAIN given' : i < j => Before(given'[i], given'[j])
  <2> SUFFICES ASSUME NEW i \in 1 .. m + 1, NEW j \in 1 .. m + 1, i < j
               PROVE  Before(given'[i], given'[j])
    BY <1>3
  <2>1. i \in 1 .. m /\ given'[i] = given[i] /\ given[i] \in Range(given)
    BY <1>3 DEF Range
  <2>2. CASE j = m + 1
    BY <1>3, <1>10, <2>1, <2>2
  <2>3. CASE j # m + 1
    BY <1>3, <1>o, <2>1, <2>3
  <2> QED BY <2>2, <2>3
<1>12. \A p \in Range(given'), q \in Range(queue') : Before(p, q)
  <2> SUFFICES ASSUME NEW p \in Range(given'), NEW q \in Range(queue') PROVE Before(p, q)
    OBVIOUS
  <2>1. PICK k \in 2 .. n : q = queue[k]
    BY <1>2 DEF Range
  <2>2. q \in Range(queue)
    BY <1>6
  <2>3. CASE p \in Range(given)
    BY <1>o, <2>2, <2>3
  <2>4. CASE p = queue[1]
    BY <1>2, <1>o, <2>1, <2>4
  <2> QED BY <1>7, <2>3, <2>4
<1> QED BY <1>4, <1>5, <1>8, <1>9, <1>11, <1>12 DEF QueueInOrder, Before
\* Packets queued where the reader was come behind all that was returned.
LEMMA MoveKeepsOrder ==
  ASSUME ReaderShape, QueueInOrder, MovesOn
  PROVE  QueueInOrder'
<1>1. /\ queue = <<>> /\ given' = given /\ ~Done
      /\ queue' \in Seq(Range(queue')) /\ DOMAIN queue' \subseteq Nat
      /\ pos \in Nat /\ pos' \in Nat /\ pos < pos'
  BY ProbeAssumption DEF MovesOn, ReaderShape
<1>0. \E off \in Nat : /\ pos <= off /\ off < pos'
                       /\ \A i \in DOMAIN queue' : queue'[i].at = off /\ queue'[i].frame = i
  <2>1. \A at \in pos .. pos' - 1 : at \in Nat /\ pos <= at /\ at < pos'
    <3>1. \A a, b \in Nat : \A at \in a .. b - 1 : at \in Nat /\ a <= at /\ at < b
      OBVIOUS
    <3> QED BY <1>1, <3>1, Zenon
  <2>2. PICK at \in pos .. pos' - 1 : \A i \in DOMAIN queue' : queue'[i].at = at /\ queue'[i].frame = i
    BY Zenon DEF MovesOn
  <2> QED BY <2>1, <2>2, Zenon
<1>2. PICK off \in Nat : /\ pos <= off /\ off < pos'
                        /\ \A i \in DOMAIN queue' : queue'[i].at = off /\ queue'[i].frame = i
  BY <1>0
<1>3. \A p \in Range(queue') : p.at = off
  BY <1>2 DEF Range
<1>4. \A p \in Range(given) : p.at \in Nat /\ p.at < pos
  BY <1>1 DEF QueueInOrder
<1>5. given \in Seq(Range(given)) /\ \A i, j \in DOMAIN given : i < j => Before(given[i], given[j])
  BY DEF QueueInOrder
<1>6. \A p \in Range(queue') \cup Range(given') : p.at \in Nat /\ p.at < pos'
  <2> SUFFICES ASSUME NEW p \in Range(queue') \cup Range(given') PROVE p.at \in Nat /\ p.at < pos'
    OBVIOUS
  <2>1. CASE p \in Range(queue')
    BY <1>2, <1>3, <2>1
  <2>2. CASE p \in Range(given)
    <3>1. p.at \in Nat /\ p.at < pos
      BY <1>4, <2>2
    <3> QED BY <1>1, <3>1
  <2> QED BY <1>1, <2>1, <2>2
<1>7. \A i, j \in DOMAIN queue' : i < j => Before(queue'[i], queue'[j])
  BY <1>1, <1>2 DEF Before
<1>8. \A p \in Range(given), q \in Range(queue') : Before(p, q)
  <2> SUFFICES ASSUME NEW p \in Range(given), NEW q \in Range(queue') PROVE Before(p, q)
    OBVIOUS
  <2>1. p.at \in Nat /\ p.at < pos /\ q.at = off
    BY <1>3, <1>4
  <2>2. p.at < q.at
    BY <1>1, <1>2, <2>1
  <2> QED BY <2>2 DEF Before
<1> QED BY <1>1, <1>5, <1>6, <1>7, <1>8 DEF QueueInOrder, Before
\* Every turn keeps the reader's invariant.
LEMMA TurnKeepsReader ==
  ASSUME ReaderInv, LoopTurn
  PROVE  ReaderInv'
<1>1. ReaderShape /\ QueueInOrder /\ Far \in Nat
  BY ProbeAssumption DEF ReaderInv
<1>2. pos \in Nat
  BY <1>1 DEF ReaderShape
\* A call that ends, or a turn that only changes `call' and `last'.
<1>3. ASSUME UNCHANGED <<input, state, queue, floor, given>> PROVE ReaderInv'
  <2>1. ReaderShape'
    BY <1>1, <1>3 DEF ReaderShape, input, Idle
  <2>2. Done' = Done
    BY <1>3 DEF Done, input, Idle, SegmentEnd, Resilient
  <2>3. \A p \in Range(queue) \cup Range(given) : p.at < pos' \/ Done'
    BY <1>1, <1>3, <2>2 DEF QueueInOrder, input
  <2>4. QueueInOrder'
    BY <1>1, <1>3, <2>3, QueueStays
  <2> QED BY <2>1, <2>4 DEF ReaderInv
<1>4. CASE MovesOn
  <2>1. ReaderShape'
    BY <1>1, <1>4 DEF MovesOn, ReaderShape, Idle
  <2>2. QueueInOrder'
    BY <1>1, <1>4, MoveKeepsOrder
  <2> QED BY <2>1, <2>2 DEF ReaderInv
<1>5. CASE Leaves
  <2>1. ReaderShape'
    BY <1>1, <1>5 DEF Leaves, ReaderShape, Idle
  <2>2. queue' = queue /\ given' = given /\ pos' = pos /\ ~Done
    BY <1>5 DEF Leaves, Done
  <2>3. \A p \in Range(queue) \cup Range(given) : p.at < pos' \/ Done'
    BY <1>1, <2>2 DEF QueueInOrder
  <2>4. QueueInOrder'
    BY <1>1, <2>2, <2>3, QueueStays
  <2> QED BY <2>1, <2>4 DEF ReaderInv
<1>6. CASE Resync
  <2>1. /\ file' = file /\ given' = given /\ queue' = queue /\ ~Done
        /\ pos' \in 0 .. Far /\ state' = Idle /\ floor' \in Nat
        /\ pos < pos' \/ Done'
    BY <1>1, <1>6, ResyncIs
  <2>2. ReaderShape'
    BY <1>1, <2>1 DEF ReaderShape, Idle
  <2>3. pos' \in Nat
    BY <1>1, <2>1
  <2>4. \A p \in Range(queue) \cup Range(given) : p.at \in Nat /\ p.at < pos
    BY <1>1, <2>1 DEF QueueInOrder
  <2>5. \A p \in Range(queue) \cup Range(given) : p.at < pos' \/ Done'
    BY <1>2, <2>1, <2>3, <2>4
  <2>6. QueueInOrder'
    BY <1>1, <2>1, <2>5, QueueStays
  <2> QED BY <2>2, <2>6 DEF ReaderInv
<1>7. CASE ReturnPacket
  <2>1. UNCHANGED <<input, state, floor>>
    BY <1>7 DEF ReturnPacket
  <2>2. ReaderShape'
    BY <1>1, <2>1 DEF ReaderShape, input, Idle
  <2>3. QueueInOrder'
    BY <1>1, <1>7, ReturnKeepsOrder
  <2> QED BY <2>2, <2>3 DEF ReaderInv
<1>8. CASE EndOfSegment \/ FailPacket
  <2>1. UNCHANGED <<input, state, queue, floor, given>>
    BY <1>8 DEF EndOfSegment, FailPacket, stream
  <2> QED BY <1>3, <2>1
<1> QED BY <1>1, <1>4, <1>5, <1>6, <1>7, <1>8, TurnsAre
-----------------------------------------------------------------------------
(* What is left to read goes down at every turn.                           *)

LEMMA TurnCounts ==
  ASSUME ReaderInv, LoopTurn
  PROVE  /\ Left \in Nat
         /\ call' = "idle" \/ (Left' \in Nat /\ Left' < Left)
<1>1. ReaderShape /\ ReaderShape'
  BY TurnKeepsReader DEF ReaderInv
<1>2. Far \in Nat /\ pos \in Nat /\ pos <= Far /\ pos' \in Nat /\ pos' <= Far
  BY <1>1, ProbeAssumption DEF ReaderShape
<1>3. /\ Left \in Nat /\ (~Done => Left >= 2 * (Far - pos) + 1)
      /\ state # Idle => Left = 2 * (Far - pos) + 2
  BY <1>2 DEF Left, Done
<1>4. Far' = Far /\ Idle' = Idle
  BY ProbeAssumption DEF Idle
<1>5. /\ Left' = 0 \/ Left' = 2 * (Far - pos') + (IF state' = Idle THEN 1 ELSE 2)
      /\ Done' => Left' = 0
  BY <1>4 DEF Left
<1>6. CASE MovesOn
  <2>1. ~Done /\ pos < pos'
    BY <1>6 DEF MovesOn
  <2> QED BY <1>2, <1>3, <1>5, <2>1
<1>7. CASE Leaves
  <2>1. pos' = pos /\ state # Idle /\ state' = Idle
    BY <1>7 DEF Leaves
  <2> QED BY <1>2, <1>3, <1>5, <2>1
<1>8. CASE Resync
  <2>1. ~Done /\ (pos < pos' \/ Done') /\ state' = Idle
    BY <1>1, <1>8, ResyncIs
  <2> QED BY <1>2, <1>3, <1>5, <2>1
<1>9. CASE ReturnPacket \/ EndOfSegment \/ FailPacket
  BY <1>3, <1>9 DEF ReturnPacket, EndOfSegment, FailPacket
<1> QED BY <1>1, <1>6, <1>7, <1>8, <1>9, TurnsAre

-----------------------------------------------------------------------------
(* Recovery, until a seek takes the reader back.                           *)

\* An event of this call resumes at the first plausible element behind it.
LEMMA ResyncResumes ==
  ASSUME ReaderInv, RecoveryInv, Resync
  PROVE  ResumesAtNextElement'
<1>1. ReaderShape /\ Far \in Nat /\ pos \in Nat /\ floor \in Nat /\ LegalFile(file)
  BY ProbeAssumption DEF ReaderInv, ReaderShape
<1>2. ~Done /\ file' = file
  BY <1>1, ResyncIs
<1>3. PICK to \in Nat \cup {None} :
        /\ to = ScanTopLevel(file, ResyncFrom, SegmentEnd)
        /\ damage' = Append(damage, [kind |-> IF to = None THEN "UnrecoverableTail" ELSE "ClusterStream",
                                     offset |-> pos, resumedAt |-> to])
  BY <1>1, ResyncIs
<1>4. ResyncFrom = pos + 1
  <2>1. floor <= pos + 1
    BY <1>2 DEF RecoveryInv, FloorIsBehind
  <2>2. pos + 1 \in Int /\ floor \in Int
    BY <1>1
  <2> QED BY <2>1, <2>2, MaxOfTwo DEF ResyncFrom
<1>5. file.first # None
  BY <1>2 DEF RecoveryInv, NothingToRead
<1>6. SegmentEnd \in Nat /\ pos + 1 \in Nat
  BY <1>1, SegmentEndIs
<1>7. ASSUME NEW c \in file.clusters, pos < c, c < to \/ to = None, Header(file, c + 1).id \in FirstChildIds
      PROVE  FALSE
  <2>1. c \in Nat /\ Header(file, c).id = "Cluster" /\ c < file.dataEnd
    <3>1. LegalFile(file)
      BY <1>1
    <3> QED BY <1>5, <3>1, ClusterIs
  <2>2. c < InputLen(file)
    BY <1>1, <2>1, HeaderIs DEF Parses
  <2>3. c \in pos + 1 .. SegmentEnd - 1
    BY <1>1, <1>6, <1>7, <2>1, <2>2, SegmentEndIs
  <2>4. Header(file, c).id \in TopLevelIds /\ VetTopLevel(file, c, SegmentEnd)
    BY <1>7, <2>1 DEF TopLevelIds, VetTopLevel
  <2>5. to # None /\ to <= c
    BY <1>3, <1>4, <1>6, <2>3, <2>4, ScanIs
  <2> QED BY <1>7, <2>1, <2>5 DEF None
<1> DEFINE e == [kind |-> IF to = None THEN "UnrecoverableTail" ELSE "ClusterStream",
                 offset |-> pos, resumedAt |-> to]
<1>8. Range(damage') = Range(damage) \cup {e}
  <2>1. damage \in Seq(Range(damage))
    BY DEF RecoveryInv
  <2> HIDE DEF e
  <2>2. damage' = Append(damage, e)
    BY <1>3 DEF e
  <2> QED BY <2>1, <2>2 DEF Range
<1>9. e.offset = pos /\ e.resumedAt = to
  OBVIOUS
<1>10. \A d \in Range(damage) : d.kind # "CueLie" =>
         \A c \in file.clusters :
           d.offset < c /\ (c < d.resumedAt \/ d.resumedAt = None) =>
             Header(file, c + 1).id \notin FirstChildIds
  BY DEF RecoveryInv, ResumesAtNextElement
<1>11. \A c \in file.clusters :
         e.offset < c /\ (c < e.resumedAt \/ e.resumedAt = None) =>
           Header(file, c + 1).id \notin FirstChildIds
  BY <1>7, <1>9
<1> HIDE DEF e
<1> QED BY <1>2, <1>8, <1>10, <1>11 DEF ResumesAtNextElement

LEMMA TurnKeepsRecovery ==
  ASSUME ReaderInv, RecoveryInv, LoopTurn
  PROVE  RecoveryInv'
<1>1. ReaderShape /\ pos \in Nat /\ floor \in Nat
  BY ProbeAssumption DEF ReaderInv, ReaderShape
<1>2. FloorIsBehind /\ NothingToRead /\ damage \in Seq(Range(damage)) /\ ResumesAtNextElement
  BY DEF RecoveryInv
<1>3. ASSUME UNCHANGED <<file, damage>> PROVE (damage \in Seq(Range(damage)))' /\ ResumesAtNextElement'
  BY <1>2, <1>3 DEF ResumesAtNextElement
<1>4. ASSUME UNCHANGED <<input, state, floor, damage>> PROVE RecoveryInv'
  <2>1. Done' = Done
    BY <1>4 DEF Done, input, Idle, SegmentEnd, Resilient
  <2>2. FloorIsBehind' /\ NothingToRead'
    BY <1>2, <1>4, <2>1 DEF FloorIsBehind, NothingToRead, input
  <2> QED BY <1>3, <1>4, <2>2 DEF RecoveryInv, input
<1>5. CASE MovesOn \/ Leaves
  <2>1. /\ file' = file /\ damage' = damage /\ floor' = floor
        /\ ~Done /\ pos' \in Nat /\ pos <= pos'
    <3>1. CASE MovesOn
      <4>1. pos' \in 0 .. Far /\ pos < pos' /\ Far \in Nat
        BY <3>1, ProbeAssumption DEF MovesOn
      <4>2. file' = file /\ damage' = damage /\ floor' = floor /\ ~Done
        BY <3>1 DEF MovesOn
      <4> QED BY <1>1, <4>1, <4>2
    <3>2. CASE Leaves
      <4>1. pos' = pos /\ file' = file /\ damage' = damage /\ floor' = floor /\ ~Done
        BY <3>2 DEF Leaves, Done
      <4> QED BY <1>1, <4>1
    <3> QED BY <1>5, <3>1, <3>2
  <2>2. floor <= pos + 1 /\ file.first # None
    BY <1>2, <2>1 DEF FloorIsBehind, NothingToRead
  <2>3. FloorIsBehind'
    <3>1. floor \in Nat /\ pos \in Nat /\ pos' \in Nat
      BY <1>1, <2>1
    <3>2. floor <= pos + 1 /\ pos <= pos'
      BY <2>1, <2>2
    <3>3. \A a, b, c \in Nat : a <= b + 1 /\ b <= c => a <= c + 1
      OBVIOUS
    <3>4. floor <= pos' + 1
      BY <3>1, <3>2, <3>3, Zenon
    <3> QED BY <2>1, <3>4 DEF FloorIsBehind
  <2>4. NothingToRead'
    BY <2>1, <2>2 DEF NothingToRead, None
  <2> QED BY <1>3, <2>1, <2>3, <2>4 DEF RecoveryInv
<1>6. CASE Resync
  <2>1. /\ file' = file /\ ~Done
        /\ \E to \in Nat \cup {None} :
             /\ damage' = Append(damage, [kind |-> IF to = None THEN "UnrecoverableTail" ELSE "ClusterStream",
                                          offset |-> pos, resumedAt |-> to])
             /\ to # None => pos' = to /\ floor' = to + 1 /\ to > pos
             /\ to = None => pos' = SegmentEnd /\ floor' = floor /\ Done'
    BY <1>1, <1>6, ResyncIs
  <2>2. FloorIsBehind'
    BY <2>1 DEF FloorIsBehind
  <2>3. NothingToRead'
    BY <1>2, <2>1 DEF NothingToRead, None
  <2>4. (damage \in Seq(Range(damage)))'
    <3>1. \E e : damage' = Append(damage, e)
      BY <2>1
    <3>2. PICK e : damage' = Append(damage, e)
      BY <3>1
    <3>3. damage' \in Seq(Range(damage) \cup {e})
      BY <1>2, <3>2
    <3> QED BY <3>3, SeqOfRange
  <2>5. ResumesAtNextElement'
    BY <1>6, ResyncResumes
  <2> QED BY <2>2, <2>3, <2>4, <2>5 DEF RecoveryInv
<1>7. CASE ReturnPacket \/ EndOfSegment \/ FailPacket
  <2>1. UNCHANGED <<input, state, floor, damage>>
    BY <1>7 DEF ReturnPacket, EndOfSegment, FailPacket, stream
  <2> QED BY <1>4, <2>1
<1> QED BY <1>1, <1>5, <1>6, <1>7, TurnsAre
-----------------------------------------------------------------------------
(* Seeks: wherever the index or the Clusters lead, the reader stays in the *)
(* file, with nothing queued and nothing given.                            *)

\* A seek has left the reader at p, in this state.
LEMMA RepositionKeepsReader ==
  ASSUME ReaderInv, file' = file, floor' = floor, pos' \in 0 .. Far, queue' = <<>>, given' = <<>>,
         \/ state' = Idle
         \/ /\ DOMAIN state' = {"in", "start", "end", "tc"}
            /\ state'.in = "Cluster" /\ state'.end \in 0 .. Far
  PROVE  ReaderInv'
<1>1. ReaderShape'
  BY ProbeAssumption DEF ReaderInv, ReaderShape, Idle
<1>2. <<>> \in Seq(Range(<<>>)) /\ DOMAIN <<>> = {} /\ Range(<<>>) = {}
  BY DEF Range
<1>3. QueueInOrder'
  BY <1>2, Zenon DEF QueueInOrder
<1> QED BY <1>1, <1>3 DEF ReaderInv

LEMMA CueLandingIs ==
  ASSUME LegalFile(file), NEW cue \in Range(file.cues)
  PROVE  CueLanding(cue).at \in 0 .. Far
<1>1. cue.off \in 0 .. Far /\ cue.rel \in Nat \cup {None} /\ cue.num \in Nat \cup {None}
  BY DEF LegalFile
<1>2. Degraded(cue.off).at \in 0 .. Far
  BY <1>1 DEF Degraded
<1>3. RelativeLanding(cue.off, cue.rel).at \in 0 .. Far
  BY <1>1, RelativeLandingIs
<1>4. cue.num # None => NumberedLanding(cue.off, cue.num).at \in 0 .. Far
  BY <1>1, NumberedLandingIs
<1> QED BY <1>2, <1>3, <1>4 DEF CueLanding

LEMMA SeekKeepsReader ==
  ASSUME ReaderInv, SeekTo
  PROVE  ReaderInv' /\ seeks' = seeks + 1
<1>1. PICK track \in DOMAIN TrackIndex, pts \in Targets :
        SeekByCue(track, pts) \/ SeekFails(track, pts) \/ SeekCueless(track, pts)
  BY DEF SeekTo
<1>2. LegalFile(file)
  BY DEF ReaderInv, ReaderShape
<1>3. Ticks(pts) \in Int
  BY TargetsAssumption, MaxOfTwo DEF Ticks
<1> DEFINE cue == BestCue(track, Ticks(pts))
<1>4. HasCues(track) => cue \in Range(file.cues) /\ cue.off \in 0 .. Far
  BY <1>2, <1>3, BestCueIs DEF LegalFile
<1> HIDE DEF cue
<1>5. CASE SeekByCue(track, pts)
  <2> DEFINE l == CueLanding(cue)
  <2>1. cue \in Range(file.cues) /\ cue.off \in 0 .. Far
    BY <1>4, <1>5 DEF SeekByCue
  <2>2. l.at \in 0 .. Far
    BY <1>2, <2>1, CueLandingIs
  <2>3. ClusterEnd(file, cue.off, SegmentEnd) \in 0 .. Far
    BY <1>2, <2>1, ClusterEndIs
  <2> HIDE DEF l
  <2>4. /\ Landed(l.at, cue.time, "Cues", track, pts)
        /\ state' = Idle \/ state' = InCluster(cue.off + 1, ClusterEnd(file, cue.off, SegmentEnd), l.tc)
    BY <1>5 DEF SeekByCue, cue, l
  <2>5. /\ file' = file /\ floor' = floor /\ pos' = l.at /\ queue' = <<>> /\ given' = <<>>
        /\ seeks' = seeks + 1
    BY <2>4 DEF Landed
  <2>6. \/ state' = Idle
        \/ /\ DOMAIN state' = {"in", "start", "end", "tc"}
           /\ state'.in = "Cluster" /\ state'.end \in 0 .. Far
    BY <2>3, <2>4 DEF InCluster
  <2> QED BY <2>2, <2>5, <2>6, RepositionKeepsReader
<1>6. CASE SeekFails(track, pts)
  <2>1. cue.off \in 0 .. Far
    BY <1>4, <1>6 DEF SeekFails
  <2>2. /\ file' = file /\ floor' = floor /\ pos' = cue.off /\ queue' = <<>> /\ given' = <<>>
        /\ state' = Idle /\ seeks' = seeks + 1
    BY <1>6 DEF SeekFails, cue
  <2> QED BY <2>1, <2>2, RepositionKeepsReader
<1>7. CASE SeekCueless(track, pts)
  <2> DEFINE l == Bisect(file, SegmentEnd, Ticks(pts), Resilient)
  <2>1. SegmentEnd \in 0 .. Far
    BY <1>2, SegmentEndIs
  <2>2. l.off \in (0 .. Far) \cup {None}
    BY <1>2, <1>3, <2>1, BisectIs
  <2> HIDE DEF l
  <2>3. l.off # None /\ state' = Idle /\ Landed(l.off, l.ts, l.how, track, pts)
    BY <1>7 DEF SeekCueless, l
  <2>4. /\ file' = file /\ floor' = floor /\ pos' = l.off /\ queue' = <<>> /\ given' = <<>>
        /\ seeks' = seeks + 1
    BY <2>3 DEF Landed
  <2> QED BY <2>2, <2>3, <2>4, RepositionKeepsReader
<1> QED BY <1>1, <1>5, <1>6, <1>7
-----------------------------------------------------------------------------
(* The theorems.                                                           *)

LEMMA FreshReader ==
  ASSUME Init
  PROVE  DemuxInv
<1>1. PICK n \in DOMAIN Files : Fresh(Files[n])
  BY DEF Init
<1>2. LegalFile(file)
  BY <1>1, FilesAssumption DEF Fresh
<1>3. /\ pos = IF file.first = None THEN SegmentEnd ELSE file.first
      /\ state = Idle /\ queue = <<>> /\ given = <<>> /\ floor = 0 /\ damage = <<>> /\ seeks = 0
  BY <1>1 DEF Fresh
<1>4. SegmentEnd \in 0 .. Far /\ file.first \in (0 .. Far) \cup {None}
  BY <1>2, SegmentEndIs DEF LegalFile
<1>5. ReaderShape
  BY <1>2, <1>3, <1>4 DEF ReaderShape
<1>6. <<>> \in Seq(Range(<<>>)) /\ DOMAIN <<>> = {} /\ Range(<<>>) = {}
  BY DEF Range
<1>7. QueueInOrder
  BY <1>3, <1>6, Zenon DEF QueueInOrder
<1>8. RecoveryInv
  <2>1. FloorIsBehind
    <3>1. pos \in Nat
      BY <1>5 DEF ReaderShape
    <3>2. \A a \in Nat : 0 <= a + 1
      OBVIOUS
    <3> QED BY <1>3, <3>1, <3>2, Zenon DEF FloorIsBehind
  <2>2. NothingToRead
    BY <1>3, <1>4, ProbeAssumption DEF NothingToRead, Done
  <2>3. ResumesAtNextElement
    BY <1>3, <1>6 DEF ResumesAtNextElement
  <2> QED BY <1>3, <1>6, <2>1, <2>2, <2>3 DEF RecoveryInv
<1> QED BY <1>3, <1>5, <1>7, <1>8 DEF DemuxInv, ReaderInv

LEMMA StepKeepsDemux ==
  ASSUME DemuxInv, [Next]_vars
  PROVE  DemuxInv'
<1>1. ReaderInv /\ seeks \in Nat /\ (seeks = 0 => RecoveryInv)
  BY DEF DemuxInv
<1>2. CASE LoopTurn
  <2>1. ReaderInv'
    BY <1>1, <1>2, TurnKeepsReader
  <2>2. seeks' = seeks
    BY <1>1, <1>2, TurnsAre DEF ReaderInv, MovesOn, Leaves, Resync, ReturnPacket, EndOfSegment,
      FailPacket, history
  <2>3. seeks = 0 => RecoveryInv'
    BY <1>1, <1>2, TurnKeepsRecovery
  <2> QED BY <1>1, <2>1, <2>2, <2>3 DEF DemuxInv
<1>3. CASE SeekTo
  <2>1. ReaderInv' /\ seeks' = seeks + 1
    BY <1>1, <1>3, SeekKeepsReader
  <2> QED BY <1>1, <2>1 DEF DemuxInv
\* A call that begins, or nothing at all.
<1>4. CASE NextPacket \/ UNCHANGED vars
  <2>1. UNCHANGED <<input, stream, strategy, history>>
    BY <1>4 DEF NextPacket, vars
  <2>2. UNCHANGED <<file, pos, state, queue, floor, damage, given, seeks>>
    BY <2>1 DEF input, stream, history
  <2>3. Done' = Done
    BY <2>2 DEF Done, Idle, SegmentEnd, Resilient
  <2>4. ReaderShape'
    BY <1>1, <2>2 DEF ReaderInv, ReaderShape, Idle
  <2>5. QueueInOrder'
    <3>1. \A p \in Range(queue) \cup Range(given) : p.at < pos' \/ Done'
      BY <1>1, <2>2, <2>3 DEF ReaderInv, QueueInOrder
    <3> QED BY <1>1, <2>2, <3>1, QueueStays DEF ReaderInv
  <2>6. seeks = 0 => RecoveryInv'
    <3>1. seeks = 0 => FloorIsBehind' /\ NothingToRead'
      BY <1>1, <2>2, <2>3 DEF RecoveryInv, FloorIsBehind, NothingToRead
    <3>2. seeks = 0 => ResumesAtNextElement' /\ (damage \in Seq(Range(damage)))'
      BY <1>1, <2>2 DEF RecoveryInv, ResumesAtNextElement
    <3> QED BY <3>1, <3>2 DEF RecoveryInv
  <2> QED BY <1>1, <2>2, <2>4, <2>5, <2>6 DEF DemuxInv, ReaderInv
<1> QED BY <1>2, <1>3, <1>4 DEF Next

\* The reader's invariant holds of every behaviour, on every legal file.
THEOREM DemuxInvariant == Spec => []DemuxInv
<1>1. Init => DemuxInv
  BY FreshReader
<1>2. DemuxInv /\ [Next]_vars => DemuxInv'
  BY StepKeepsDemux
<1> QED BY <1>1, <1>2, PTL DEF Spec

\* next_packet hands packets out in storage order and none twice, whatever
\* the file holds and wherever damage or a seek has taken the reader (advance,
\* resync_cluster_stream, seek_to).
THEOREM PacketsComeInOrder == Spec => []InStorageOrder
<1>1. DemuxInv => InStorageOrder
  BY DEF DemuxInv, ReaderInv, QueueInOrder, Before, InStorageOrder
<1> QED BY <1>1, DemuxInvariant, PTL

\* Every turn of the loop under next_packet uses up some of what is left to
\* read or ends the call: the loop cannot spin, on any input.
THEOREM TurnsRunOut == Spec => EveryTurnCounts
<1>1. DemuxInv /\ [Next]_vars =>
        [LoopTurn => /\ Left \in Nat
                     /\ call' = "idle" \/ (Left' \in Nat /\ Left' < Left)]_vars
  BY TurnCounts DEF DemuxInv
<1> QED BY <1>1, DemuxInvariant, PTL DEF Spec, EveryTurnCounts

\* Until a seek, recovery resumes before every Cluster behind the damage that
\* still begins like one (resync_cluster_stream and its floor).
THEOREM RecoveryGivesUpNothing == Spec => [](seeks = 0 => ResumesAtNextElement)
<1>1. DemuxInv => (seeks = 0 => ResumesAtNextElement)
  BY DEF DemuxInv, RecoveryInv
<1> QED BY <1>1, DemuxInvariant, PTL
-----------------------------------------------------------------------------
(* Intact files: where their elements are.                                 *)

\* An element begins where another one ends, and none inside another.
LEMMA ElementIs ==
  ASSUME NEW f, LegalFile(f), WellFormed(f), NEW o \in Elements(f)
  PROVE  /\ o \in Nat /\ o < f.dataEnd /\ Parses(Header(f, o)) /\ f.dataEnd \in Nat
         /\ Onward(f, o) \in Elements(f) \cup {f.dataEnd}
         /\ Onward(f, o) \in Nat /\ o < Onward(f, o) /\ Onward(f, o) <= f.dataEnd
         /\ \A x \in Elements(f) : ~(o < x /\ x < Onward(f, o))
<1>1. Tiled(f) /\ f.dataEnd \in 0 .. Far /\ Far \in Nat
  BY ProbeAssumption DEF WellFormed, LegalFile
<1>2. f.dataEnd \in Nat /\ f.dataEnd <= Far /\ Far \in Nat
  BY <1>1
<1>3. \A e \in Elements(f) : e \in 0 .. f.dataEnd - 1
  BY <1>1 DEF Tiled
<1>4. o \in 0 .. f.dataEnd - 1 /\ Parses(Header(f, o)) /\ Onward(f, o) \in Elements(f) \cup {f.dataEnd}
      /\ \A x \in Elements(f) : ~(o < x /\ x < Onward(f, o))
  BY <1>1 DEF Tiled
<1>5. o \in Nat /\ o < f.dataEnd
  BY <1>2, <1>4
<1>6. Onward(f, o) \in Nat /\ Onward(f, o) <= f.dataEnd
  <2>1. CASE Onward(f, o) = f.dataEnd
    BY <1>2, <2>1
  <2>2. CASE Onward(f, o) \in Elements(f)
    <3>1. Onward(f, o) \in 0 .. f.dataEnd - 1
      BY <1>3, <2>2
    <3> QED BY <1>2, <3>1
  <2> QED BY <1>4, <2>1, <2>2
<1>7. o < Onward(f, o)
  <2>1. o < Far
    BY <1>2, <1>5
  <2>2. NextAt(f, o) > o
    BY <1>5, <2>1, NextIs DEF NextAt
  <2> QED BY <1>5, <2>2 DEF Onward
<1> QED BY <1>2, <1>4, <1>5, <1>6, <1>7

LEMMA IntactEnd ==
  ASSUME LegalFile(file), WellFormed(file)
  PROVE  SegmentEnd = file.dataEnd /\ file.dataEnd \in Nat
<1>1. /\ file.dataEnd \in 0 .. Far /\ InputLen(file) \in 0 .. Far /\ Far \in Nat
      /\ file.dataEnd <= InputLen(file)
  BY ProbeAssumption DEF LegalFile, WellFormed, Tiled
<1>2. file.dataEnd \in Nat /\ file.dataEnd \in Int /\ InputLen(file) \in Int
  BY <1>1
<1>3. Min({file.dataEnd, InputLen(file)}) = file.dataEnd
  BY <1>1, <1>2, MinOfTwo
<1> QED BY <1>2, <1>3 DEF SegmentEnd

\* Where a Cluster of known size ends there is no element across.
LEMMA TopIs ==
  ASSUME NEW f, LegalFile(f), WellFormed(f), NEW o \in f.tops
  PROVE  /\ o \in Elements(f) /\ (o \in f.clusters <=> Header(f, o).id = "Cluster")
         /\ Header(f, o).id \notin LeafIds \cup {"BlockGroup"}
         /\ Header(f, o).size = Unknown => o \in f.clusters
         /\ Header(f, o).size # Unknown => /\ NextAt(f, o) \in f.tops \cup {f.dataEnd}
                                          /\ \A t \in f.tops : ~(o < t /\ t < NextAt(f, o))
         /\ Header(f, o).id = "Tags" =>
              \/ Lifted(f, o + 1, NextAt(f, o)).err
              \/ Lifted(f, o + 1, NextAt(f, o)).to = NextAt(f, o)
<1>1. TopsLegal(f)
  BY DEF WellFormed
<1> QED BY <1>1 DEF TopsLegal, Elements

LEMMA KidIs ==
  ASSUME NEW f, WellFormed(f), NEW k \in f.kids
  PROVE  LET h == Header(f, k)
             g == Group(f, k + 1, NextAt(f, k))
             b == Header(f, BlockOf(f, k))
         IN  /\ k \in Elements(f) /\ k \notin f.tops /\ k \notin f.clusters
             /\ Readable(f, k) /\ h.id \notin TopLevelIds \ {"SignatureSlot"}
             /\ h.id = "SimpleBlock" => h.duration = None /\ h.whole = TRUE
             /\ h.id = "BlockGroup" => ~g.err /\ g.to = NextAt(f, k)
             /\ h.id = "BlockGroup" /\ g.block # None =>
                  /\ b.duration = IF g.duration = None THEN None ELSE g.duration \div Max({b.frames, 1})
                  /\ b.whole = KeyFlag(b, g.key)
             /\ BlockOf(f, k) # None =>
                  /\ BlockParses(b)
                  /\ \E t \in f.kids : InForce(f, t, k) /\ b.time = Header(f, t).v + b.off
<1>1. KidsLegal(f) /\ Tiled(f)
  BY DEF WellFormed
<1>2. k \in Elements(f) /\ k \notin f.tops /\ k \notin f.clusters
  BY <1>1 DEF Tiled, Elements
<1> QED BY <1>1, <1>2 DEF KidsLegal

\* The Timestamp in force past an element.
LEMMA InForcePast ==
  ASSUME NEW f, LegalFile(f), WellFormed(f), NEW o \in Elements(f), NEW t \in f.kids,
         InForce(f, t, Onward(f, o))
  PROVE  t = o \/ (InForce(f, t, o) /\ o \in f.kids /\ Header(f, o).id # "Timecode")
<1>1. /\ o \in Nat /\ Onward(f, o) \in Nat /\ o < Onward(f, o)
      /\ \A x \in Elements(f) : ~(o < x /\ x < Onward(f, o))
  BY ElementIs
<1>2. t \in Elements(f) /\ t \in Nat
  <2>1. t \in Elements(f)
    BY DEF Elements
  <2> QED BY <2>1, ElementIs
<1>3. /\ Header(f, t).id = "Timecode" /\ t < Onward(f, o)
      /\ \A x \in Elements(f) : t < x /\ x < Onward(f, o) => x \in f.kids /\ Header(f, x).id # "Timecode"
  BY DEF InForce
<1>4. t <= o
  BY <1>1, <1>2, <1>3
<1>5. CASE t < o
  <2>1. o \in f.kids /\ Header(f, o).id # "Timecode"
    BY <1>1, <1>3, <1>5
  <2>2. \A x \in Elements(f) : x < o => x < Onward(f, o)
    <3> SUFFICES ASSUME NEW x \in Elements(f), x < o PROVE x < Onward(f, o)
      OBVIOUS
    <3>1. x \in Nat
      BY ElementIs
    <3> QED BY <1>1, <3>1
  <2>3. InForce(f, t, o)
    BY <1>3, <1>5, <2>2 DEF InForce
  <2> QED BY <2>1, <2>3
<1> QED BY <1>1, <1>2, <1>4, <1>5
LEMMA ChildEnd ==
  ASSUME LegalFile(file), WellFormed(file), AtChild
  PROVE  /\ state.end \in Nat /\ state.end <= file.dataEnd
         /\ state.end \in file.tops \cup {file.dataEnd}
<1>1. PICK c \in file.clusters :
        state.end = IF Header(file, c).size = Unknown THEN file.dataEnd ELSE NextAt(file, c)
  BY DEF AtChild
<1>2. c \in file.tops
  BY DEF WellFormed, Tiled
<1>3. state.end \in file.tops \cup {file.dataEnd}
  BY <1>1, <1>2, TopIs
<1>4. file.dataEnd \in Nat
  BY IntactEnd
<1>5. CASE state.end \in file.tops
  <2>1. state.end \in Elements(file)
    BY <1>5 DEF Elements
  <2>2. state.end \in Nat /\ state.end < file.dataEnd
    BY <2>1, ElementIs
  <2> QED BY <1>3, <1>4, <2>2
<1> QED BY <1>3, <1>4, <1>5

\* Inside a Cluster, before its end, the reader is at an element; in front of
\* the Segment's end, at one of the Segment.
LEMMA InsideIs ==
  ASSUME LegalFile(file), WellFormed(file), AtElement, Inside
  PROVE  /\ pos \in Elements(file) /\ Parses(Here)
         /\ pos \notin file.clusters => AtChild /\ Here.id # "Cluster"
<1>1. Idle.in # "Cluster"
  BY DEF Idle
<1>2. pos \in file.clusters \/ AtChild
  BY <1>1 DEF AtElement, Inside
<1>3. \A c \in file.clusters : c \in Elements(file)
  BY DEF WellFormed, Tiled, Elements
<1>4. ASSUME AtChild PROVE pos \in Elements(file)
  <2>1. pos \in Elements(file) \/ pos = file.dataEnd
    BY <1>4 DEF AtChild
  <2>2. state.end \in Nat /\ state.end <= file.dataEnd /\ pos < state.end /\ file.dataEnd \in Nat
    BY <1>4, ChildEnd, IntactEnd DEF Inside
  <2>3. pos \in Elements(file)
    BY <2>1, <2>2
  <2> QED BY <2>3
<1>5. pos \in Elements(file)
  BY <1>2, <1>3, <1>4
<1>6. Here.id = "Cluster" => pos \in file.clusters
  <2>1. CASE pos \in file.tops
    BY <2>1, TopIs DEF Here
  <2>2. CASE pos \in file.kids
    BY <2>2, KidIs DEF Here, TopLevelIds
  <2> QED BY <1>5, <2>1, <2>2 DEF Elements
<1>7. Parses(Here)
  BY <1>5, ElementIs DEF Here
<1> QED BY <1>2, <1>5, <1>6, <1>7

LEMMA AtTopIs ==
  ASSUME LegalFile(file), WellFormed(file), AtElement, AtTop
  PROVE  pos \in file.tops /\ Parses(Here)
<1>1. state.in # "Cluster" /\ pos < file.dataEnd /\ file.dataEnd \in Nat
  BY IntactEnd DEF AtTop, Idle
<1>2. pos \in file.tops
  BY <1>1 DEF AtElement, AtChild
<1>3. pos \in Elements(file)
  BY <1>2 DEF Elements
<1>4. Parses(Here)
  BY <1>3, ElementIs DEF Here
<1> QED BY <1>2, <1>4

\* Nothing is damaged there.
LEMMA NoFailure ==
  ASSUME LegalFile(file), WellFormed(file), AtElement
  PROVE  ~AdvanceFails
<1>1. AtTop \/ Inside => Parses(Here)
  BY AtTopIs, InsideIs
<1>2. ASSUME Inside PROVE pos \in file.tops \/ pos \in file.kids
  BY <1>2, InsideIs DEF Elements
<1>3. ASSUME Inside, pos \in file.tops PROVE Here.id \notin LeafIds \cup {"BlockGroup"}
  BY <1>3, TopIs DEF Here
<1>4. ASSUME Inside, pos \in file.kids
      PROVE  /\ Readable(file, pos)
             /\ Here.id = "SimpleBlock" => BlockParses(Here)
             /\ Here.id = "BlockGroup" =>
                  ~HereGroup.err /\ (HereGroup.block # None => BlockParses(Header(file, HereGroup.block)))
  <2>1. Readable(file, pos) /\ (BlockOf(file, pos) # None => BlockParses(Header(file, BlockOf(file, pos))))
    BY <1>4, KidIs
  <2>2. Here.id = "SimpleBlock" => BlockOf(file, pos) = pos /\ BlockOf(file, pos) # None
    <3>1. pos \in Elements(file)
      BY <1>4 DEF Elements
    <3>2. pos \in Nat
      BY <3>1, ElementIs
    <3> QED BY <3>2 DEF BlockOf, Here, None
  <2>3. HereGroup = Group(file, pos + 1, NextAt(file, pos))
    BY DEF HereGroup, AfterHere, Here, NextAt
  <2>4. Here.id = "BlockGroup" => BlockOf(file, pos) = HereGroup.block /\ ~HereGroup.err
    <3>1. Header(file, pos).id = "BlockGroup" => ~Group(file, pos + 1, NextAt(file, pos)).err
      BY <1>4, KidIs
    <3> QED BY <2>3, <3>1 DEF BlockOf, Here
  <2> QED BY <2>1, <2>2, <2>4 DEF Here
<1>5. "SimpleBlock" \in LeafIds
  BY DEF LeafIds
<1> QED BY <1>1, <1>2, <1>3, <1>4, <1>5 DEF AdvanceFails

\* Past an element in a Cluster the reader is at the next one.
LEMMA StayInCluster ==
  ASSUME LegalFile(file), WellFormed(file), AtChild, pos < state.end,
         pos \in Elements(file), pos \notin file.clusters,
         file' = file, pos' = NextAt(file, pos), state'.in = "Cluster", state'.end = state.end,
         state'.tc = IF Header(file, pos).id = "Timecode" THEN Header(file, pos).v ELSE state.tc
  PROVE  AtElement'
<1>1. pos' = Onward(file, pos)
  BY DEF Onward
<1>2. /\ pos \in Nat /\ pos' \in Nat /\ pos < pos' /\ pos' <= file.dataEnd
      /\ pos' \in Elements(file) \cup {file.dataEnd}
      /\ \A x \in Elements(file) : ~(pos < x /\ x < pos')
  BY <1>1, ElementIs
<1>3. state.end \in Nat /\ pos' <= state.end
  <2>1. state.end \in Nat /\ state.end \in file.tops \cup {file.dataEnd}
    BY ChildEnd
  <2>2. CASE state.end \in file.tops
    <3>1. state.end \in Elements(file)
      BY <2>2 DEF Elements
    <3> QED BY <1>2, <2>1, <3>1
  <2>3. CASE state.end = file.dataEnd
    BY <1>2, <2>1, <2>3
  <2> QED BY <2>1, <2>2, <2>3
<1>4. PICK c \in file.clusters :
        /\ c < pos /\ pos <= state.end
        /\ state.end = IF Header(file, c).size = Unknown THEN file.dataEnd ELSE NextAt(file, c)
  BY DEF AtChild
<1>5. c \in Nat
  BY ClusterIs
<1>6. c < pos'
  BY <1>2, <1>4, <1>5
<1>7. ASSUME NEW t \in file.kids, InForce(file, t, pos') PROVE state'.tc = Header(file, t).v
  <2>1. t = pos \/ (InForce(file, t, pos) /\ pos \in file.kids /\ Header(file, pos).id # "Timecode")
    BY <1>1, <1>7, InForcePast
  <2>2. Header(file, t).id = "Timecode"
    BY <1>7 DEF InForce
  <2>3. InForce(file, t, pos) => state.tc = Header(file, t).v
    BY DEF AtChild
  <2> QED BY <2>1, <2>2, <2>3
<1>8. AtChild'
  <2>1. /\ pos' \in Elements(file) \cup {file.dataEnd} /\ c < pos' /\ pos' <= state'.end
        /\ state'.end = IF Header(file, c).size = Unknown THEN file.dataEnd ELSE NextAt(file, c)
    BY <1>2, <1>3, <1>4, <1>6
  <2> QED BY <1>7, <2>1, Zenon DEF AtChild
<1> QED BY <1>8 DEF AtElement
-----------------------------------------------------------------------------
(* What an element yields is what was stored of it.                        *)

LEMMA SameFrames ==
  ASSUME NEW b, NEW p, NEW tc, NEW default, NEW duration,
         b.time = tc + b.off, b.whole = KeyFlag(b, default),
         b.duration = IF duration = None THEN None ELSE duration \div Max({b.frames, 1})
  PROVE  Packets(b, p, tc, default, duration) = PacketsOf(b, p)
BY DEF Packets, PacketsOf

LEMMA BlockOfIs ==
  ASSUME NEW f, LegalFile(f), WellFormed(f), NEW k \in f.kids, BlockOf(f, k) # None
  PROVE  /\ Header(f, BlockOf(f, k)).frames \in Nat
         /\ Header(f, k).id \in {"SimpleBlock", "BlockGroup"}
<1>1. k \in Elements(f)
  BY DEF Elements
<1>2. k \in Nat /\ k < f.dataEnd /\ f.dataEnd \in 0 .. Far /\ Far \in Nat
  <2>1. k \in Nat /\ k < f.dataEnd
    BY <1>1, ElementIs
  <2>2. f.dataEnd \in 0 .. Far /\ Far \in Nat
    BY ProbeAssumption DEF LegalFile
  <2> QED BY <2>1, <2>2
<1>3. CASE Header(f, k).id = "SimpleBlock"
  BY <1>2, <1>3, HeaderIs DEF BlockOf
<1>4. CASE Header(f, k).id = "BlockGroup"
  <2>1. NextAt(f, k) \in 0 .. Far
    BY <1>2, NextIs DEF NextAt
  <2>2. k + 1 \in 0 .. Far
    BY <1>2
  <2> DEFINE g == Group(f, k + 1, NextAt(f, k))
  <2>3. BlockOf(f, k) = g.block
    BY <1>4 DEF BlockOf
  <2>4. g.block \in k + 1 .. g.to - 1 /\ Header(f, g.block).id = "Block" /\ g.to \in k + 1 .. Far
    BY <2>1, <2>2, <2>3, GroupWithin
  <2> HIDE DEF g
  <2>5. g.block \in Nat
    BY <1>2, <2>4
  <2>6. Header(f, g.block).frames \in Nat
    BY <2>4, <2>5, HeaderIs
  <2> QED BY <1>4, <2>3, <2>6
<1>5. CASE Header(f, k).id \notin {"SimpleBlock", "BlockGroup"}
  BY <1>5 DEF BlockOf
<1> QED BY <1>3, <1>4, <1>5

LEMMA YieldIs ==
  ASSUME NEW f, LegalFile(f), WellFormed(f), NEW o \in Elements(f)
  PROVE  /\ Yield(f, o) \in Seq(Range(Yield(f, o)))
         /\ Len(Yield(f, o)) \in Nat /\ DOMAIN Yield(f, o) = 1 .. Len(Yield(f, o))
<1>1. CASE Yield(f, o) = <<>>
  BY <1>1
<1>2. CASE Yield(f, o) # <<>>
  <2> DEFINE p == BlockOf(f, o)
             b == Header(f, p)
  <2>1. o \in f.kids /\ p # None /\ Yield(f, o) = PacketsOf(b, p)
    BY <1>2 DEF Yield
  <2>2. b.frames \in Nat
    BY <2>1, BlockOfIs
  <2> HIDE DEF p, b
  <2> DEFINE P == PacketsOf(b, p)
  <2>3. P # <<>>
    BY <1>2, <2>1
  <2>4. DOMAIN P = 1 .. b.frames
    BY <2>3 DEF PacketsOf
  <2>5. P = [i \in 1 .. b.frames |-> P[i]] /\ \A i \in 1 .. b.frames : P[i] \in Range(P)
    <3>1. P = [i \in DOMAIN P |-> P[i]]
      BY <2>3 DEF PacketsOf
    <3> QED BY <2>4, <3>1 DEF Range
  <2> HIDE DEF P
  <2>6. P \in Seq(Range(P))
    BY <2>2, <2>5
  <2>7. Len(P) \in Nat /\ DOMAIN P = 1 .. Len(P)
    BY <2>6
  <2> QED BY <2>1, <2>6, <2>7 DEF P
<1> QED BY <1>1, <1>2

\* An element that is no Block and no group yields nothing.
LEMMA NothingYielded ==
  ASSUME NEW f, NEW o, o \notin f.kids \/ Header(f, o).id \notin {"SimpleBlock", "BlockGroup"}
  PROVE  Yield(f, o) = <<>>
BY DEF Yield, BlockOf

\* Past an element, with its packets queued, all is delivered up to there.
LEMMA MoveDelivers ==
  ASSUME LegalFile(file), WellFormed(file), Delivered, queue = <<>>, pos \in Elements(file),
         given \in Seq(Range(given)),
         file' = file, landing' = landing, given' = given,
         pos' = Onward(file, pos), queue' = Yield(file, pos)
  PROVE  Delivered'
<1> DEFINE y == Yield(file, pos)
           N == Len(file.stored)
           at(i) == file.stored[i].at
           g == Len(given)
<1>1. StoredTruly(file)
  BY DEF WellFormed
<1>2. /\ pos \in Nat /\ pos' \in Nat /\ pos < pos'
      /\ Len(y) \in Nat /\ DOMAIN y = 1 .. Len(y)
  BY ElementIs, YieldIs
<1>3. N \in Nat /\ DOMAIN file.stored = 1 .. N /\ g \in Nat /\ DOMAIN given = 1 .. g
  BY <1>1 DEF StoredTruly
<1>4. /\ \A i, j \in 1 .. N : i < j => at(i) <= at(j)
      /\ \A i \in 1 .. N : at(i) \in Nat
  BY <1>1, <1>3 DEF StoredTruly
<1>5. PICK a \in 0 .. N :
        /\ a + Len(y) <= N
        /\ \A i \in 1 .. N : at(i) >= pos /\ at(i) < pos' <=> a < i /\ i <= a + Len(y)
        /\ \A j \in DOMAIN y : file.stored[a + j] = y[j]
  BY <1>1, <1>3 DEF StoredTruly
<1>6. PICK m \in 0 .. N, n \in 0 .. N :
        /\ m + g + Len(queue) = n
        /\ \A i \in 1 .. N : /\ at(i) < landing.off <=> i <= m
                             /\ at(i) < pos <=> i <= n
        /\ \A i \in DOMAIN given : given[i] = file.stored[m + i]
  BY <1>3 DEF Delivered
<1>7. Len(queue) = 0 /\ n = m + g
  <2>1. Len(queue) = 0
    OBVIOUS
  <2> QED BY <1>3, <1>6, <2>1
<1> HIDE DEF y, N, g
<1>8. Len(y) # 0 => a = n
  <2> SUFFICES ASSUME Len(y) # 0 PROVE a = n
    OBVIOUS
  <2>1. a + 1 \in 1 .. N /\ a < a + 1 /\ a + 1 <= a + Len(y)
    BY <1>2, <1>3, <1>5
  <2>2. at(a + 1) >= pos /\ at(a + 1) < pos'
    BY <1>5, <2>1
  <2>3. at(a + 1) \in Nat
    BY <1>4, <2>1
  <2>4. ~(a + 1 <= n)
    BY <1>2, <1>6, <2>1, <2>2, <2>3
  <2>5. ASSUME n < a PROVE FALSE
    <3>1. n + 1 \in 1 .. N /\ n + 1 < a + 1 /\ ~(n + 1 <= n)
      BY <1>3, <2>5
    <3>2. at(n + 1) \in Nat /\ at(n + 1) >= pos /\ at(n + 1) <= at(a + 1)
      BY <1>2, <1>4, <1>6, <2>1, <3>1
    <3>3. at(n + 1) < pos'
      BY <1>2, <2>2, <2>3, <3>2
    <3>4. a < n + 1
      BY <1>5, <3>1, <3>2, <3>3
    <3> QED BY <2>5, <3>4
  <2> QED BY <1>3, <2>4, <2>5
<1> DEFINE n2 == n + Len(y)
<1>9. n2 \in 0 .. N
  BY <1>2, <1>3, <1>5, <1>8
<1>10. ASSUME NEW i \in 1 .. N PROVE at(i) < pos' <=> i <= n2
  <2>1. at(i) \in Nat /\ (at(i) < pos <=> i <= n)
        /\ (at(i) >= pos /\ at(i) < pos' <=> a < i /\ i <= a + Len(y))
    BY <1>4, <1>5, <1>6
  <2>2. CASE Len(y) = 0
    BY <1>2, <1>3, <2>1, <2>2
  <2>3. CASE Len(y) # 0
    BY <1>2, <1>3, <1>8, <2>1, <2>3
  <2> QED BY <2>2, <2>3
<1>11. \A i \in DOMAIN y : y[i] = file.stored[m + g + i]
  <2> SUFFICES ASSUME NEW i \in DOMAIN y PROVE y[i] = file.stored[m + g + i]
    OBVIOUS
  <2>1. Len(y) # 0
    BY <1>2
  <2>2. a = m + g
    BY <1>7, <1>8, <2>1
  <2> QED BY <1>5, <2>2
<1>12. m + g + Len(y) = n2
  BY <1>7
<1>13. /\ queue' = y /\ given' = given /\ file' = file /\ landing' = landing
  BY DEF y
<1> HIDE DEF n2
<1>14. /\ m + Len(given') + Len(queue') = n2
       /\ \A i \in DOMAIN file'.stored : /\ file'.stored[i].at < landing'.off <=> i <= m
                                         /\ file'.stored[i].at < pos' <=> i <= n2
       /\ \A i \in DOMAIN given' : given'[i] = file'.stored[m + i]
       /\ \A i \in DOMAIN queue' : queue'[i] = file'.stored[m + Len(given') + i]
  BY <1>3, <1>6, <1>10, <1>11, <1>12, <1>13 DEF g
<1>15. m \in 0 .. Len(file'.stored) /\ n2 \in 0 .. Len(file'.stored)
  BY <1>9, <1>13 DEF N
<1> QED BY <1>14, <1>15, Zenon DEF Delivered

LEMMA ReturnDelivers ==
  ASSUME Delivered, ReturnPacket, queue \in Seq(Range(queue)), given \in Seq(Range(given))
  PROVE  Delivered'
<1> DEFINE k == Len(queue)
           g == Len(given)
<1>1. /\ queue # <<>> /\ queue' = Tail(queue) /\ given' = Append(given, Head(queue))
      /\ pos' = pos /\ file' = file /\ landing' = landing
  BY DEF ReturnPacket, input
<1>2. /\ k \in Nat /\ k >= 1 /\ DOMAIN queue = 1 .. k /\ Len(queue') = k - 1
      /\ DOMAIN queue' = 1 .. k - 1
      /\ \A i \in 1 .. k - 1 : queue'[i] = queue[i + 1]
      /\ Head(queue) = queue[1]
  BY <1>1
<1>3. /\ g \in Nat /\ DOMAIN given = 1 .. g /\ Len(given') = g + 1 /\ DOMAIN given' = 1 .. g + 1
      /\ \A i \in 1 .. g : given'[i] = given[i]
      /\ given'[g + 1] = queue[1]
  <2>1. Head(queue) \in Range(queue)
    BY <1>2 DEF Range
  <2>2. given \in Seq(Range(given) \cup Range(queue)) /\ Head(queue) \in Range(given) \cup Range(queue)
    BY <2>1
  <2> QED BY <1>1, <1>2, <2>2
<1>4. PICK m \in 0 .. Len(file.stored), n \in 0 .. Len(file.stored) :
        /\ m + g + k = n
        /\ \A i \in DOMAIN file.stored : /\ file.stored[i].at < landing.off <=> i <= m
                                         /\ file.stored[i].at < pos <=> i <= n
        /\ \A i \in DOMAIN given : given[i] = file.stored[m + i]
        /\ \A i \in DOMAIN queue : queue[i] = file.stored[m + g + i]
  BY DEF Delivered
<1> HIDE DEF k, g
<1>5. m \in Nat /\ n \in Nat
  BY <1>4
<1>6. m + (g + 1) + (k - 1) = n
  BY <1>2, <1>3, <1>4, <1>5
<1>7. ASSUME NEW i \in DOMAIN given' PROVE given'[i] = file.stored[m + i]
  <2>1. CASE i \in 1 .. g
    BY <1>3, <1>4, <2>1
  <2>2. CASE i = g + 1
    <3>1. queue[1] = file.stored[m + g + 1] /\ m + g + 1 = m + i
      BY <1>2, <1>3, <1>4, <1>5, <2>2
    <3> QED BY <1>3, <2>2, <3>1
  <2> QED BY <1>3, <2>1, <2>2
<1>8. ASSUME NEW i \in DOMAIN queue' PROVE queue'[i] = file.stored[m + (g + 1) + i]
  <2>1. i \in 1 .. k - 1 /\ i \in Nat
    BY <1>2
  <2>2. i + 1 \in DOMAIN queue /\ queue'[i] = queue[i + 1]
    BY <1>2, <2>1
  <2>3. m + g + (i + 1) = m + (g + 1) + i
    BY <1>3, <1>5, <2>1
  <2> QED BY <1>4, <2>2, <2>3
<1>9. /\ m + Len(given') + Len(queue') = n
      /\ \A i \in DOMAIN file'.stored : /\ file'.stored[i].at < landing'.off <=> i <= m
                                        /\ file'.stored[i].at < pos' <=> i <= n
      /\ \A i \in DOMAIN given' : given'[i] = file'.stored[m + i]
      /\ \A i \in DOMAIN queue' : queue'[i] = file'.stored[m + Len(given') + i]
  BY <1>1, <1>2, <1>3, <1>4, <1>6, <1>7, <1>8
<1>10. m \in 0 .. Len(file'.stored) /\ n \in 0 .. Len(file'.stored)
  BY <1>1, <1>4
<1> QED BY <1>9, <1>10, Zenon DEF Delivered

LEMMA InPlaceOrder ==
  ASSUME NEW f, WellFormed(f)
  PROVE  StoredInOrder(f)
BY DEF WellFormed, StoredTruly, StoredInOrder

\* Where a seek or opening leaves the reader nothing is outstanding.
LEMMA LandingDelivers ==
  ASSUME StoredInOrder(file), file'.stored = file.stored, queue' = <<>>, given' = <<>>, landing.off' \in Nat,
         \A i \in DOMAIN file.stored : file.stored[i].at < pos' <=> file.stored[i].at < landing.off'
  PROVE  Delivered'
<1> DEFINE N == Len(file.stored)
           at(i) == file.stored[i].at
           T == {i \in Nat : i >= 1 /\ (i <= N => ~(at(i) < landing.off'))}
<1>2. /\ N \in Nat /\ DOMAIN file.stored = 1 .. N
      /\ \A i, j \in 1 .. N : i < j => at(i) <= at(j)
      /\ \A i \in 1 .. N : at(i) \in Nat
  BY DEF StoredInOrder
<1> HIDE DEF N
<1>3. N + 1 \in T
  BY <1>2
<1>4. PICK k \in T : \A i \in T : k <= i
  <2>1. T \in SUBSET Nat /\ T # {}
    BY <1>3
  <2> HIDE DEF T
  <2> QED BY <2>1, LeastNat
<1>5. k \in Nat /\ k >= 1 /\ k <= N + 1 /\ k - 1 \in 0 .. N
  BY <1>2, <1>3, <1>4
<1>6. ASSUME NEW i \in 1 .. N PROVE at(i) < landing.off' <=> i <= k - 1
  <2>1. CASE i < k
    <3>1. i \notin T
      BY <1>4, <1>5, <2>1
    <3> QED BY <1>5, <2>1, <3>1
  <2>2. CASE i = k
    BY <1>4, <1>5, <2>2
  <2>3. CASE k < i
    <3>1. k \in 1 .. N /\ ~(at(k) < landing.off') /\ at(k) <= at(i)
      BY <1>2, <1>4, <1>5, <2>3
    <3>2. at(i) \in Nat /\ at(k) \in Nat
      BY <1>2, <3>1
    <3> QED BY <1>5, <2>3, <3>1, <3>2
  <2> QED BY <1>5, <2>1, <2>2, <2>3
<1>7. /\ k - 1 + Len(given') + Len(queue') = k - 1
      /\ \A i \in DOMAIN file'.stored : /\ file'.stored[i].at < landing'.off <=> i <= k - 1
                                        /\ file'.stored[i].at < pos' <=> i <= k - 1
      /\ \A i \in DOMAIN given' : given'[i] = file'.stored[k - 1 + i]
      /\ \A i \in DOMAIN queue' : queue'[i] = file'.stored[k - 1 + Len(given') + i]
  <2>1. Len(<<>>) = 0 /\ DOMAIN <<>> = {}
    OBVIOUS
  <2> QED BY <1>2, <1>5, <1>6, <2>1
<1>8. k - 1 \in 0 .. Len(file'.stored)
  BY <1>5 DEF N
<1> QED BY <1>7, <1>8, Zenon DEF Delivered
-----------------------------------------------------------------------------
(* A turn in an intact file.                                               *)

\* The reader passes an element and queues what it yields.
Passes ==
  /\ queue = <<>> /\ pos \in Elements(file) /\ pos' = Onward(file, pos) /\ queue' = Yield(file, pos)
  /\ AtElement' /\ UNCHANGED <<call, file, given, damage, last, landing, seeks>>

\* It leaves a Cluster where an element of the Segment begins.
Rests ==
  /\ queue = <<>> /\ queue' = <<>> /\ pos' = pos /\ state # Idle /\ state' = Idle
  /\ pos \in file.tops \cup {file.dataEnd}
  /\ UNCHANGED <<call, file, given, damage, last, landing, seeks>>

LEMMA PassTop ==
  ASSUME LegalFile(file), WellFormed(file), AtElement, OpenCluster \/ ApplyTags \/ SkipTopLevel
  PROVE  Passes
<1>1. AtTop /\ queue = <<>> /\ state = Idle
  BY DEF OpenCluster, ApplyTags, SkipTopLevel, AtTop, Turn
<1>2. pos \in file.tops /\ pos \in Elements(file) /\ pos < file.dataEnd
  <2>1. pos \in file.tops
    BY <1>1, AtTopIs
  <2>2. pos \in Elements(file)
    BY <2>1 DEF Elements
  <2> QED BY <2>1, <2>2, ElementIs
<1>3. pos \notin file.kids /\ Yield(file, pos) = <<>>
  <2>1. pos \notin file.kids
    BY <1>2 DEF WellFormed, Tiled
  <2> QED BY <2>1, NothingYielded
<1>4. AfterHere = NextAt(file, pos)
  BY DEF AfterHere, Here, NextAt
<1>5. CASE OpenCluster
  <2>1. Here.id = "Cluster" /\ pos' = pos + 1 /\ queue' = <<>>
        /\ UNCHANGED <<call, file, given, damage, last, landing, seeks>>
        /\ state' = InCluster(pos + 1, WalkEnd(pos), 0)
    BY <1>1, <1>5 DEF OpenCluster, Advanced, history
  <2>2. pos \in file.clusters
    BY <1>2, <2>1, TopIs DEF Here
  <2>3. pos' = Onward(file, pos)
    BY <2>1, <2>2 DEF Onward
  <2>4. /\ pos \in Nat /\ pos' \in Nat /\ pos < pos' /\ pos' <= file.dataEnd
        /\ pos' \in Elements(file) \cup {file.dataEnd}
        /\ \A x \in Elements(file) : ~(pos < x /\ x < pos')
    BY <1>2, <2>3, ElementIs
  <2>5. SegmentEnd = file.dataEnd /\ file.dataEnd \in Nat
    BY IntactEnd
  <2> DEFINE e == IF Header(file, pos).size = Unknown THEN file.dataEnd ELSE NextAt(file, pos)
  <2>6. e \in Nat /\ pos' <= e /\ e <= file.dataEnd
    <3>1. CASE Header(file, pos).size = Unknown
      BY <2>4, <2>5, <3>1
    <3>2. CASE Header(file, pos).size # Unknown
      <4>1. NextAt(file, pos) \in file.tops \cup {file.dataEnd}
        BY <1>2, <3>2, TopIs
      <4>2. NextAt(file, pos) \in file.tops => NextAt(file, pos) \in Elements(file)
        BY DEF Elements
      <4>3. NextAt(file, pos) \in Nat /\ NextAt(file, pos) <= file.dataEnd
        BY <2>5, <4>1, <4>2, ElementIs
      <4>4. pos < NextAt(file, pos)
        <5>1. file.dataEnd \in 0 .. Far /\ Far \in Nat
          BY ProbeAssumption DEF LegalFile
        <5>2. pos < Far
          BY <1>2, <2>4, <2>5, <5>1
        <5>3. Past(pos + 1, Header(file, pos).size) > pos
          BY <2>4, <5>2, NextIs
        <5> QED BY <2>4, <4>3, <5>3 DEF NextAt
      <4> QED BY <2>1, <2>4, <2>5, <3>2, <4>3, <4>4
    <3> QED BY <3>1, <3>2
  <2>7. WalkEnd(pos) = e
    <3>1. ClusterEnd(file, pos, SegmentEnd) = e
      BY <2>5 DEF ClusterEnd, NextAt
    <3>2. Min({e, SegmentEnd}) = e
      BY <2>5, <2>6, MinOfTwo
    <3> QED BY <3>1, <3>2 DEF WalkEnd
  <2>8. state'.in = "Cluster" /\ state'.end = e
    BY <2>1, <2>7 DEF InCluster
  <2>9. ASSUME NEW t \in file.kids, InForce(file, t, pos') PROVE FALSE
    <3>1. t = pos \/ (InForce(file, t, pos) /\ pos \in file.kids)
      BY <1>2, <2>3, <2>9, InForcePast
    <3> QED BY <1>3, <3>1
  <2> HIDE DEF e
  <2>10. AtChild'
    <3>1. pos' \in Elements(file) \cup {file.dataEnd} /\ pos < pos' /\ pos' <= state'.end
          /\ state'.end = IF Header(file, pos).size = Unknown THEN file.dataEnd ELSE NextAt(file, pos)
      BY <2>4, <2>6, <2>8 DEF e
    <3>2. file' = file
      BY <2>1
    <3> QED BY <2>2, <2>8, <2>9, <3>1, <3>2, Zenon DEF AtChild
  <2> QED BY <1>1, <1>2, <1>3, <2>1, <2>3, <2>10 DEF Passes, AtElement
<1>6. CASE ApplyTags \/ SkipTopLevel
  <2>1. Here.id # "Cluster" /\ queue' = <<>> /\ state' = Idle
    BY <1>1, <1>6 DEF ApplyTags, SkipTopLevel
  <2>2. pos \notin file.clusters /\ Here.size # Unknown /\ NextAt(file, pos) \in file.tops \cup {file.dataEnd}
    BY <1>2, <2>1, TopIs DEF Here
  <2>3. Advanced(NextAt(file, pos))
    <3>1. CASE ApplyTags
      <4>1. \/ Advanced(AfterHere)
            \/ /\ ~Lifted(file, pos + 1, AfterHere).err
               /\ Advanced(Lifted(file, pos + 1, AfterHere).to)
        BY <3>1 DEF ApplyTags
      <4>2. Here.id = "Tags"
        BY <3>1 DEF ApplyTags
      <4>3. \/ Lifted(file, pos + 1, NextAt(file, pos)).err
            \/ Lifted(file, pos + 1, NextAt(file, pos)).to = NextAt(file, pos)
        BY <1>2, <4>2, TopIs DEF Here
      <4> QED BY <1>4, <4>1, <4>3
    <3>2. CASE SkipTopLevel
      BY <1>4, <3>2 DEF SkipTopLevel
    <3> QED BY <1>6, <3>1, <3>2
  <2>4. pos' = Onward(file, pos) /\ pos' \in file.tops \cup {file.dataEnd}
        /\ UNCHANGED <<call, file, given, damage, last, landing, seeks>>
    BY <2>2, <2>3 DEF Onward, Advanced, history
  <2>5. AtElement'
    BY <2>1, <2>4 DEF AtElement, Idle
  <2> QED BY <1>1, <1>2, <1>3, <2>1, <2>4, <2>5 DEF Passes
<1> QED BY <1>5, <1>6

LEMMA PassChild ==
  ASSUME ReaderShape, WellFormed(file), AtElement,
         ReadTimecode \/ ReadRecord \/ ReadSimpleBlock \/ ReadBlockGroup \/ SkipChild
  PROVE  Passes
<1>0. LegalFile(file)
  BY DEF ReaderShape
<1>1. Inside /\ queue = <<>> /\ Here.id # "Cluster" /\ pos < state.end /\ state.in = "Cluster"
  BY DEF ReadTimecode, ReadRecord, ReadSimpleBlock, ReadBlockGroup, SkipChild, Inside, Turn, RecordIds, TopLevelIds
<1>2. pos \in Elements(file)
  BY <1>0, <1>1, InsideIs
<1>3. pos \notin file.clusters
  BY <1>0, <1>1, ClusterIs DEF Here
<1>4. AtChild
  BY <1>0, <1>1, <1>3, InsideIs
<1>5. AfterHere = NextAt(file, pos)
  BY DEF AfterHere, Here, NextAt
<1>6. pos \in file.tops => Here.id \notin LeafIds \cup {"BlockGroup"}
  BY <1>0, TopIs DEF Here
<1>7. Here.id \in {"Timecode", "SimpleBlock", "BlockGroup"} => pos \in file.kids
  BY <1>2, <1>6 DEF Elements, LeafIds
\* The rest of a step that reads an element and stays in the Cluster.
<1>8. ASSUME Advanced(NextAt(file, pos)), state'.in = "Cluster", state'.end = state.end,
             state'.tc = IF Here.id = "Timecode" THEN Here.v ELSE state.tc,
             queue' = Yield(file, pos)
      PROVE  Passes
  <2>1. pos' = NextAt(file, pos) /\ UNCHANGED <<call, file, given, damage, last, landing, seeks>>
    BY <1>8 DEF Advanced, history
  <2>2. AtElement'
    BY <1>0, <1>1, <1>2, <1>3, <1>4, <1>8, <2>1, StayInCluster DEF Here
  <2>3. pos' = Onward(file, pos)
    BY <1>3, <2>1 DEF Onward
  <2> QED BY <1>1, <1>2, <1>8, <2>1, <2>2, <2>3 DEF Passes
<1>9. CASE ReadTimecode
  <2>1. Here.id = "Timecode" /\ queue' = <<>> /\ state' = [state EXCEPT !.tc = Here.v]
        /\ Advanced(NextAt(file, pos))
    BY <1>1, <1>5, <1>9 DEF ReadTimecode
  <2>2. DOMAIN state = {"in", "start", "end", "tc"}
    BY <1>1 DEF ReaderShape, Idle
  <2>3. state'.in = "Cluster" /\ state'.end = state.end /\ state'.tc = Here.v
    BY <1>1, <2>1, <2>2
  <2>4. Yield(file, pos) = <<>>
    BY <2>1, NothingYielded DEF Here
  <2> QED BY <1>8, <2>1, <2>3, <2>4
<1>10. CASE ReadRecord \/ SkipChild
  <2>1. Here.id \notin {"Timecode", "SimpleBlock", "BlockGroup"} /\ queue' = <<>> /\ state' = state
        /\ Advanced(NextAt(file, pos))
    BY <1>1, <1>5, <1>10 DEF ReadRecord, SkipChild, RecordIds, LeafIds
  <2>2. Yield(file, pos) = <<>>
    BY <2>1, NothingYielded DEF Here
  <2> QED BY <1>1, <1>8, <2>1, <2>2
\* The Timestamp in force gives the Block the time it was stored with.
<1>11. ASSUME NEW b, NEW t \in file.kids, InForce(file, t, pos), b.time = Header(file, t).v + b.off
       PROVE  b.time = state.tc + b.off
  BY <1>4, <1>11 DEF AtChild
<1>12. CASE ReadSimpleBlock
  <2>1. Here.id = "SimpleBlock" /\ queue' = Packets(Here, pos, state.tc, TRUE, None) /\ state' = state
        /\ Advanced(NextAt(file, pos))
    BY <1>1, <1>5, <1>12 DEF ReadSimpleBlock
  <2>2. pos \in file.kids /\ pos # None
    BY <1>0, <1>2, <1>7, <2>1, ElementIs DEF None
  <2>3. BlockOf(file, pos) = pos
    BY <2>1 DEF BlockOf, Here
  <2>4. /\ Here.duration = None /\ Here.whole = TRUE
        /\ \E t \in file.kids : InForce(file, t, pos) /\ Here.time = Header(file, t).v + Here.off
    <3>1. Here.duration = None /\ Here.whole = TRUE
      BY <2>1, <2>2, KidIs DEF Here
    <3>2. BlockOf(file, pos) # None =>
            \E t \in file.kids : /\ InForce(file, t, pos)
                                 /\ Header(file, BlockOf(file, pos)).time
                                      = Header(file, t).v + Header(file, BlockOf(file, pos)).off
      BY <2>2, KidIs, Zenon
    <3>3. \E t \in file.kids : InForce(file, t, pos) /\ Header(file, pos).time = Header(file, t).v + Header(file, pos).off
      BY <2>2, <2>3, <3>2
    <3> QED BY <3>1, <3>3 DEF Here
  <2>5. Here.time = state.tc + Here.off
    BY <1>11, <2>4
  <2>6. KeyFlag(Here, TRUE) = TRUE
    BY Zenon DEF KeyFlag
  <2>7. \E whole \in BOOLEAN : whole = TRUE
    OBVIOUS
  <2>8. PICK whole \in BOOLEAN : whole = TRUE
    BY <2>7
  <2>9. Packets(Here, pos, state.tc, whole, None) = PacketsOf(Here, pos)
    <3>1. Here.whole = KeyFlag(Here, whole)
      BY <2>4, <2>6, <2>8, Zenon
    <3>2. Here.duration = IF None = None THEN None ELSE None \div Max({Here.frames, 1})
      BY <2>4
    <3> QED BY <2>5, <3>1, <3>2, SameFrames
  <2>10. queue' = PacketsOf(Here, pos)
    BY <2>1, <2>8, <2>9, Zenon
  <2>11. Yield(file, pos) = PacketsOf(Here, pos)
    BY <2>2, <2>3 DEF Yield, Here
  <2> QED BY <1>1, <1>8, <2>1, <2>10, <2>11
<1>13. CASE ReadBlockGroup
  <2> DEFINE g == HereGroup
             b == Header(file, g.block)
  <2>1. Here.id = "BlockGroup" /\ state' = state /\ Advanced(g.to)
        /\ queue' = IF g.block = None THEN <<>> ELSE Packets(b, g.block, state.tc, g.key, g.duration)
    BY <1>1, <1>13 DEF ReadBlockGroup
  <2>2. pos \in file.kids
    BY <1>7, <2>1
  <2>3. g = Group(file, pos + 1, NextAt(file, pos)) /\ BlockOf(file, pos) = g.block
    BY <1>5, <2>1 DEF HereGroup, BlockOf, Here
  <2> HIDE DEF g
  <2>4. /\ g.to = NextAt(file, pos)
        /\ g.block # None =>
             /\ b.duration = IF g.duration = None THEN None ELSE g.duration \div Max({b.frames, 1})
             /\ b.whole = KeyFlag(b, g.key)
             /\ \E t \in file.kids : InForce(file, t, pos) /\ b.time = Header(file, t).v + b.off
    <3> DEFINE G == Group(file, pos + 1, NextAt(file, pos))
               B == Header(file, BlockOf(file, pos))
    <3>1. /\ Header(file, pos).id = "BlockGroup" => G.to = NextAt(file, pos)
          /\ Header(file, pos).id = "BlockGroup" /\ G.block # None =>
               /\ B.duration = IF G.duration = None THEN None ELSE G.duration \div Max({B.frames, 1})
               /\ B.whole = KeyFlag(B, G.key)
          /\ BlockOf(file, pos) # None =>
               \E t \in file.kids : InForce(file, t, pos) /\ B.time = Header(file, t).v + B.off
      BY <2>2, KidIs, Zenon
    <3>2. G = g /\ B = b /\ Header(file, pos).id = "BlockGroup"
      BY <2>1, <2>3 DEF Here
    <3> HIDE DEF G, B, b
    <3> QED BY <2>3, <3>1, <3>2
  <2>5. queue' = Yield(file, pos)
    <3>1. CASE g.block = None
      BY <2>1, <2>3, <3>1 DEF Yield
    <3>2. CASE g.block # None
      <4> HIDE DEF b
      <4>1. b.time = state.tc + b.off
        BY <1>11, <2>4, <3>2
      <4>2. Packets(b, g.block, state.tc, g.key, g.duration) = PacketsOf(b, g.block)
        BY <2>4, <3>2, <4>1, SameFrames
      <4>3. Yield(file, pos) = PacketsOf(b, g.block)
        BY <2>2, <2>3, <3>2 DEF Yield, b
      <4> QED BY <2>1, <3>2, <4>2, <4>3
    <3> QED BY <3>1, <3>2
  <2> QED BY <1>1, <1>8, <2>1, <2>4, <2>5
<1> QED BY <1>9, <1>10, <1>12, <1>13

LEMMA IntactTurns ==
  ASSUME ReaderShape, WellFormed(file), AtElement, LoopTurn
  PROVE  Passes \/ Rests \/ ReturnPacket \/ EndOfSegment
<1>1. LegalFile(file)
  BY DEF ReaderShape
<1>2. ~Resync /\ ~FailPacket
  BY <1>1, NoFailure DEF Resync, FailPacket
<1>3. CASE LeaveCluster
  <2>1. state.in = "Cluster" /\ pos >= state.end /\ queue = <<>> /\ state # Idle
    BY <1>3 DEF LeaveCluster, Turn, Idle
  <2>2. pos \in file.tops \cup {file.dataEnd}
    <3>1. CASE AtChild
      <4>1. state.end \in Nat /\ state.end \in file.tops \cup {file.dataEnd}
        BY <1>1, <3>1, ChildEnd
      <4>2. pos <= state.end /\ pos \in Nat
        BY <3>1, ProbeAssumption DEF AtChild, ReaderShape
      <4> QED BY <2>1, <4>1, <4>2
    <3>2. CASE pos \in file.clusters
      BY <3>2 DEF WellFormed, Tiled
    <3> QED BY <2>1, <3>1, <3>2 DEF AtElement, Idle
  <2> QED BY <1>3, <2>1, <2>2 DEF LeaveCluster, Advanced, history, Rests
<1>4. CASE LeaveAtTopLevel
  <2>1. Inside /\ Here.id \in TopLevelIds \ {"SignatureSlot"} /\ queue = <<>> /\ state # Idle
    BY <1>4 DEF LeaveAtTopLevel, Inside, Turn, Idle
  <2>2. pos \in Elements(file)
    BY <1>1, <2>1, InsideIs
  <2>3. pos \in file.tops
    BY <2>1, <2>2, KidIs DEF Elements, Here
  <2> QED BY <1>4, <2>1, <2>3 DEF LeaveAtTopLevel, Advanced, history, Rests
<1>5. OpenCluster \/ ApplyTags \/ SkipTopLevel => Passes
  BY <1>1, PassTop
<1>6. ReadTimecode \/ ReadRecord \/ ReadSimpleBlock \/ ReadBlockGroup \/ SkipChild => Passes
  BY PassChild
<1> QED BY <1>2, <1>3, <1>4, <1>5, <1>6 DEF LoopTurn
-----------------------------------------------------------------------------
(* Reading an intact file, from where it was opened or sought.             *)

\* The part of the invariant that speaks of intact files.
Reading ==
  /\ last # "err" /\ AtElement /\ Delivered
  /\ seeks = 0 => damage = <<>>
  /\ last = "eof" => Done /\ queue = <<>>

LEMMA FreshIntact ==
  ASSUME Init
  PROVE  IntactInv
<1>1. PICK n \in DOMAIN Files : Fresh(Files[n])
  BY DEF Init
<1>2. /\ LegalFile(file) /\ last = "open" /\ damage = <<>> /\ landing.off = 0
      /\ pos = IF file.first = None THEN SegmentEnd ELSE file.first
      /\ state = Idle /\ queue = <<>> /\ given = <<>>
  BY <1>1, FilesAssumption DEF Fresh
<1>3. ASSUME WellFormed(file) PROVE Reading
  <2>1. StoredTruly(file) /\ IF file.first = None THEN file.stored = <<>> ELSE file.first \in file.tops
    BY <1>3 DEF WellFormed, Tiled
  <2>2. SegmentEnd = file.dataEnd
    BY <1>2, <1>3, IntactEnd
  <2>3. AtElement
    BY <1>2, <2>1, <2>2 DEF AtElement
  <2> DEFINE N == Len(file.stored)
  <2>4. N \in Nat /\ DOMAIN file.stored = 1 .. N
    BY <2>1 DEF StoredTruly
  <2>5. ASSUME NEW i \in 1 .. N PROVE ~(file.stored[i].at < 0) /\ ~(file.stored[i].at < pos)
    <3>1. file.first # None
      BY <2>1, <2>4
    <3>2. file.stored[i].at \in Nat /\ file.first <= file.stored[i].at
      BY <2>1, <2>4 DEF StoredTruly
    <3>3. file.first \in Elements(file)
      BY <2>1, <3>1 DEF Elements
    <3>4. file.first \in Nat
      BY <1>2, <1>3, <3>3, ElementIs
    <3> QED BY <1>2, <3>1, <3>2, <3>4
  <2>6. Len(<<>>) = 0 /\ DOMAIN <<>> = {}
    OBVIOUS
  <2> HIDE DEF N
  <2>7. /\ 0 + Len(given) + Len(queue) = 0
        /\ \A i \in DOMAIN file.stored : /\ file.stored[i].at < landing.off <=> i <= 0
                                         /\ file.stored[i].at < pos <=> i <= 0
        /\ \A i \in DOMAIN given : given[i] = file.stored[0 + i]
        /\ \A i \in DOMAIN queue : queue[i] = file.stored[0 + Len(given) + i]
    BY <1>2, <2>4, <2>5, <2>6
  <2>8. 0 \in 0 .. Len(file.stored)
    BY <2>4 DEF N
  <2>9. Delivered
    BY <2>7, <2>8, Zenon DEF Delivered
  <2> QED BY <1>2, <2>3, <2>9 DEF Reading
<1>4. landing.off \in Nat /\ file = Files[n]
  BY <1>1, <1>2 DEF Fresh
<1> QED BY <1>2, <1>3, <1>4 DEF IntactInv, Reading, Grounded

LEMMA TurnKeepsReading ==
  ASSUME ReaderInv, WellFormed(file), Reading, LoopTurn
  PROVE  Reading'
<1>1. ReaderShape /\ QueueInOrder /\ LegalFile(file)
  BY DEF ReaderInv, ReaderShape
<1>2. last # "err" /\ AtElement /\ Delivered /\ (seeks = 0 => damage = <<>>)
      /\ (last = "eof" => Done /\ queue = <<>>)
  BY DEF Reading
<1>3. queue \in Seq(Range(queue)) /\ given \in Seq(Range(given))
  BY <1>1 DEF QueueInOrder
<1>4. SegmentEnd = file.dataEnd /\ file.dataEnd \in Nat /\ pos \in Nat
  BY <1>1, IntactEnd, ProbeAssumption DEF ReaderShape
<1>5. CASE Passes
  <2>1. pos < file.dataEnd
    BY <1>1, <1>5, ElementIs DEF Passes
  <2>2. last # "eof"
    BY <1>2, <1>4, <2>1 DEF Done
  <2>3. Delivered'
    BY <1>1, <1>2, <1>3, <1>5, MoveDelivers DEF Passes
  <2> QED BY <1>2, <1>5, <2>2, <2>3 DEF Passes, Reading
<1>6. CASE Rests
  <2>1. last # "eof"
    BY <1>2, <1>6 DEF Done, Rests
  <2>2. AtElement'
    BY <1>6 DEF AtElement, Rests, Idle
  <2>3. Delivered'
    BY <1>2, <1>6 DEF Delivered, Rests
  <2> QED BY <1>2, <1>6, <2>1, <2>2, <2>3 DEF Rests, Reading
<1>7. CASE ReturnPacket
  <2>1. /\ last' = "packet"
        /\ UNCHANGED <<file, pos, state, damage, seeks>>
    BY <1>7 DEF ReturnPacket, input
  <2>2. AtElement'
    BY <1>2, <2>1 DEF AtElement, AtChild, Idle
  <2>3. Delivered'
    BY <1>2, <1>3, <1>7, ReturnDelivers
  <2> QED BY <1>2, <2>1, <2>2, <2>3 DEF Reading
<1>8. CASE EndOfSegment
  <2>1. /\ last' = "eof" /\ queue = <<>> /\ Done
        /\ UNCHANGED <<file, pos, state, queue, given, landing, damage, seeks>>
    BY <1>8 DEF EndOfSegment, Turn, Done, input, stream
  <2>2. AtElement' /\ Done'
    BY <1>2, <2>1 DEF AtElement, AtChild, Idle, Done, SegmentEnd, Resilient
  <2>3. Delivered'
    BY <1>2, <2>1 DEF Delivered
  <2> QED BY <1>2, <2>1, <2>2, <2>3 DEF Reading
<1> QED BY <1>1, <1>2, <1>5, <1>6, <1>7, <1>8, IntactTurns

\* One file is read; a seek lands where it leaves the reader.
LEMMA LandingIs ==
  ASSUME [Next]_vars
  PROVE  landing' = landing \/ landing'.off = pos'
<1>1. CASE SeekTo
  BY <1>1 DEF SeekTo, SeekByCue, SeekFails, SeekCueless, Landed
<1>2. CASE NextPacket \/ ReturnPacket \/ EndOfSegment \/ FailPacket \/ UNCHANGED vars
  BY <1>2 DEF NextPacket, ReturnPacket, EndOfSegment, FailPacket, history, vars
<1>3. CASE OpenCluster \/ ApplyTags \/ SkipTopLevel \/ LeaveCluster \/ LeaveAtTopLevel
  BY <1>3 DEF OpenCluster, ApplyTags, SkipTopLevel, LeaveCluster, LeaveAtTopLevel, Advanced, history
<1>4. CASE ReadTimecode \/ ReadRecord \/ ReadSimpleBlock \/ ReadBlockGroup \/ SkipChild \/ Resync
  BY <1>4 DEF ReadTimecode, ReadRecord, ReadSimpleBlock, ReadBlockGroup, SkipChild, Resync, Advanced, history
<1> QED BY <1>1, <1>2, <1>3, <1>4 DEF Next, LoopTurn

LEMMA StepKeepsIntact ==
  ASSUME DemuxInv, IntactInv, [Next]_vars
  PROVE  IntactInv'
<1>1. ReaderInv /\ seeks \in Nat /\ LegalFile(file)
  BY DEF DemuxInv, ReaderInv, ReaderShape
<1>2. /\ last = "err" => call = "idle" /\ ~Resilient
      /\ Grounded => Reading
  BY DEF IntactInv, Reading
<1>0. (landing.off \in Nat)' /\ (\E n \in DOMAIN Files : file = Files[n])'
  <2>1. landing.off \in Nat /\ \E n \in DOMAIN Files : file = Files[n]
    BY DEF IntactInv
  <2>2. file' = file
    BY FileStays
  <2>3. landing' = landing \/ landing'.off = pos'
    BY LandingIs
  <2>4. pos' \in Nat
    BY StepKeepsDemux, ProbeAssumption DEF DemuxInv, ReaderInv, ReaderShape
  <2> QED BY <2>1, <2>2, <2>3, <2>4
<1>3. SUFFICES /\ last' = "err" => call' = "idle" /\ ~Resilient'
               /\ Grounded' => Reading'
  BY <1>0 DEF IntactInv, Reading
<1>4. CASE LoopTurn
  <2>1. /\ call = "next" /\ UNCHANGED <<file, landing, seeks>>
        /\ last' # "err" \/ last' = last \/ (call' = "idle" /\ ~Resilient)
    <3>1. CASE ReturnPacket \/ EndOfSegment \/ FailPacket
      BY <3>1 DEF ReturnPacket, EndOfSegment, FailPacket, AtTop, Inside, Turn, input, AdvanceFails
    <3>2. CASE OpenCluster \/ ApplyTags \/ SkipTopLevel \/ LeaveCluster \/ LeaveAtTopLevel
      BY <3>2 DEF OpenCluster, ApplyTags, SkipTopLevel, LeaveCluster, LeaveAtTopLevel, AtTop, Inside, Turn,
        Advanced, history
    <3>3. CASE ReadTimecode \/ ReadRecord \/ ReadSimpleBlock \/ ReadBlockGroup \/ SkipChild \/ Resync
      BY <3>3 DEF ReadTimecode, ReadRecord, ReadSimpleBlock, ReadBlockGroup, SkipChild, Resync, AtTop, Inside,
        Turn, Advanced, history, AdvanceFails
    <3> QED BY <1>4, <3>1, <3>2, <3>3 DEF LoopTurn
  <2>2. last # "err" /\ Resilient' = Resilient
    BY <1>2, <2>1 DEF Resilient
  <2>3. Grounded' => Grounded
    BY <2>1, <2>2 DEF Grounded
  <2>4. Grounded' => Reading'
    BY <1>1, <1>2, <1>4, <2>3, TurnKeepsReading DEF Grounded
  <2> QED BY <2>1, <2>2, <2>4
<1>5. CASE SeekTo
  <2>1. seeks' = seeks + 1 /\ seeks' # 0
    BY <1>1, <1>5, SeekKeepsReader
  <2>2. PICK track \in DOMAIN TrackIndex, pts \in Targets :
          SeekByCue(track, pts) \/ SeekFails(track, pts) \/ SeekCueless(track, pts)
    BY <1>5 DEF SeekTo
  <2>3. CASE SeekFails(track, pts)
    <3>1. last' = "err" /\ call' = "idle" /\ ~Resilient /\ file' = file
      BY <2>3 DEF SeekFails, MaySeek
    <3> QED BY <2>1, <3>1 DEF Grounded, Resilient
  <2>4. CASE SeekByCue(track, pts) \/ SeekCueless(track, pts)
    <3>1. /\ last' = "open" /\ queue' = <<>> /\ given' = <<>> /\ file' = file
          /\ landing.off' = pos'
          /\ state' = Idle \/ state'.in = "Cluster"
      BY <2>4 DEF SeekByCue, SeekCueless, Landed, InCluster
    <3>2. ASSUME Grounded' PROVE Reading'
      <4>1. WellFormed(file) /\ pos' \in file.clusters
        BY <2>1, <3>1, <3>2 DEF Grounded
      <4>2. pos' \in file.tops /\ pos' \in Nat
        BY <1>1, <4>1, ClusterIs DEF WellFormed, Tiled
      <4>3. AtElement'
        BY <3>1, <4>1, <4>2 DEF AtElement, Idle
      <4>4. Delivered'
        BY <3>1, <4>1, <4>2, InPlaceOrder, LandingDelivers
      <4> QED BY <2>1, <3>1, <4>3, <4>4 DEF Reading
    <3> QED BY <3>1, <3>2
  <2> QED BY <2>2, <2>3, <2>4
<1>6. CASE NextPacket \/ UNCHANGED vars
  <2>1. /\ UNCHANGED <<file, pos, state, queue, damage, last, given, landing, seeks>>
        /\ call' = call \/ (~Resilient => last # "err")
    BY <1>6 DEF NextPacket, vars, input, stream, history
  <2>2. Resilient' = Resilient /\ (Grounded' => Grounded)
    BY <2>1 DEF Resilient, Grounded
  <2>3. Reading => Reading'
    <3>1. AtElement => AtElement'
      BY <2>1 DEF AtElement, AtChild, Idle
    <3>2. Delivered => Delivered'
      BY <2>1 DEF Delivered
    <3>3. Done => Done'
      BY <2>1 DEF Done, Idle, SegmentEnd, Resilient
    <3> QED BY <2>1, <3>1, <3>2, <3>3 DEF Reading
  <2> QED BY <1>2, <2>1, <2>2, <2>3
<1> QED BY <1>4, <1>5, <1>6 DEF Next

\* What is stored from x on, where that is behind the first m packets.
LEMMA StoredIs ==
  ASSUME StoredInOrder(file), NEW x \in Nat, NEW m \in 0 .. Len(file.stored),
         \A i \in DOMAIN file.stored : file.stored[i].at < x <=> i <= m
  PROVE  /\ Len(Stored(x)) = Len(file.stored) - m
         /\ Stored(x) \in Seq(Range(file.stored))
         /\ \A i \in 1 .. Len(file.stored) - m : Stored(x)[i] = file.stored[m + i]
<1> DEFINE s == file.stored
           N == Len(s)
           behind == {i \in DOMAIN s : s[i].at >= x}
<1>1. /\ s \in Seq(Range(s)) /\ N \in Nat /\ DOMAIN s = 1 .. N /\ m \in Nat /\ m <= N
      /\ \A i \in 1 .. N : s[i].at \in Nat
  BY DEF StoredInOrder
<1>2. \A i \in 1 .. N : s[i].at >= x <=> i > m
  BY <1>1
<1>3. Stored(x) = SubSeq(s, Min(behind \cup {N + 1}), N)
  BY DEF Stored
<1> HIDE DEF s
<1>4. behind = m + 1 .. N
  BY <1>1, <1>2
<1> HIDE DEF N, behind
<1>5. Min(behind \cup {N + 1}) = m + 1
  <2> DEFINE S == behind \cup {N + 1}
  <2>1. m + 1 \in S /\ S \in SUBSET Int /\ \A y \in S : m + 1 <= y
    BY <1>1, <1>4
  <2> HIDE DEF S
  <2>2. Min(S) = m + 1
    BY <2>1, MinIs
  <2> QED BY <2>2 DEF S
<1>6. Stored(x) = SubSeq(s, m + 1, N)
  BY <1>3, <1>5
<1>7. /\ SubSeq(s, m + 1, N) \in Seq(Range(s)) /\ Len(SubSeq(s, m + 1, N)) = N - m
      /\ \A i \in 1 .. N - m : SubSeq(s, m + 1, N)[i] = s[m + i]
  <2> DEFINE back == SubSeq(s, m + 1, N)
  <2>1. m + 1 \in Int /\ N \in Int /\ \A i \in m + 1 .. N : s[i] \in Range(s)
    BY <1>1 DEF Range
  <2>2. /\ back \in Seq(Range(s)) /\ Len(back) = (IF m + 1 <= N THEN N - (m + 1) + 1 ELSE 0)
        /\ \A i \in 1 .. N - (m + 1) + 1 : back[i] = s[m + 1 + i - 1]
    BY <2>1, SubSeqProperties
  <2> HIDE DEF back
  <2>3. Len(back) = N - m /\ N - (m + 1) + 1 = N - m /\ \A i \in 1 .. N - m : m + 1 + i - 1 = m + i
    BY <1>1, <2>2
  <2> QED BY <2>2, <2>3 DEF back
<1> QED BY <1>6, <1>7 DEF s, N

\* The packets returned and queued are the first of those stored behind the
\* landing, all of them where the last one lies behind the reader.
LEMMA DeliveredIs ==
  ASSUME ReaderInv, StoredInOrder(file), Delivered, landing.off \in Nat
  PROVE  /\ Stored(landing.off) \in Seq(Range(file.stored))
         /\ Len(given) + Len(queue) <= Len(Stored(landing.off))
         /\ \A i \in DOMAIN given : given[i] = Stored(landing.off)[i]
         /\ \A i \in DOMAIN queue : queue[i] = Stored(landing.off)[Len(given) + i]
         /\ queue = <<>> /\ (\A i \in DOMAIN file.stored : file.stored[i].at < pos) =>
              given = Stored(landing.off)
<1> DEFINE s == file.stored
           N == Len(s)
           all == Stored(landing.off)
           g == Len(given)
           q == Len(queue)
<1>1. N \in Nat /\ DOMAIN s = 1 .. N /\ \A i \in 1 .. N : s[i].at \in Nat
  BY DEF StoredInOrder
<1>2. /\ given \in Seq(Range(given)) /\ queue \in Seq(Range(queue)) /\ pos \in Nat
      /\ g \in Nat /\ DOMAIN given = 1 .. g /\ q \in Nat /\ DOMAIN queue = 1 .. q
  BY ProbeAssumption DEF ReaderInv, ReaderShape, QueueInOrder
<1>3. PICK m \in 0 .. N, n \in 0 .. N :
        /\ m + g + q = n
        /\ \A i \in DOMAIN s : (s[i].at < landing.off <=> i <= m) /\ (s[i].at < pos <=> i <= n)
        /\ \A i \in DOMAIN given : given[i] = s[m + i]
        /\ \A i \in DOMAIN queue : queue[i] = s[m + g + i]
  BY DEF Delivered
<1>4. /\ Len(all) = N - m /\ all \in Seq(Range(s))
      /\ \A i \in 1 .. N - m : all[i] = s[m + i]
  BY <1>1, <1>3, StoredIs
<1> HIDE DEF s, N, all, g, q
<1>5. m \in Nat /\ n \in Nat /\ n <= N
  BY <1>1, <1>3
<1>6. g + q <= N - m
  BY <1>1, <1>2, <1>3, <1>5
<1>7. \A i \in 1 .. g : given[i] = all[i]
  <2> SUFFICES ASSUME NEW i \in 1 .. g PROVE given[i] = all[i]
    OBVIOUS
  <2>1. i \in 1 .. N - m
    BY <1>1, <1>2, <1>5, <1>6
  <2> QED BY <1>2, <1>3, <1>4, <2>1
<1>8. \A i \in 1 .. q : queue[i] = all[g + i]
  <2> SUFFICES ASSUME NEW i \in 1 .. q PROVE queue[i] = all[g + i]
    OBVIOUS
  <2>1. g + i \in 1 .. N - m /\ m + (g + i) = m + g + i
    BY <1>1, <1>2, <1>5, <1>6
  <2> QED BY <1>2, <1>3, <1>4, <2>1
<1>9. ASSUME queue = <<>>, \A i \in DOMAIN s : s[i].at < pos PROVE given = all
  <2>1. q = 0
    BY <1>2, <1>9 DEF q
  <2>2. \A i \in 1 .. N : s[i].at < pos
    BY <1>1, <1>9
  <2>3. n = N
    <3>1. N = 0 \/ N \in 1 .. N
      BY <1>1
    <3> QED BY <1>1, <1>3, <1>5, <2>2, <3>1
  <2>4. g = N - m
    BY <1>1, <1>2, <1>3, <1>5, <2>1, <2>3
  <2>5. given = [i \in 1 .. g |-> given[i]] /\ all = [i \in 1 .. g |-> all[i]]
    BY <1>2, <1>4, <2>4
  <2> QED BY <1>7, <2>5
<1> QED BY <1>2, <1>4, <1>6, <1>7, <1>8, <1>9 DEF s, N, all, g, q

\* In an intact file the reader is behind the last one when it is done.
LEMMA DoneDelivers ==
  ASSUME ReaderInv, WellFormed(file), Delivered, landing.off \in Nat, Done, queue = <<>>
  PROVE  given = Stored(landing.off)
<1>1. /\ DOMAIN file.stored = 1 .. Len(file.stored) /\ StoredInOrder(file)
      /\ \A i \in DOMAIN file.stored : file.stored[i].at \in Nat /\ file.stored[i].at < file.dataEnd
  BY InPlaceOrder DEF WellFormed, StoredTruly
<1>2. SegmentEnd = file.dataEnd /\ file.dataEnd \in Nat /\ pos \in Nat
  BY IntactEnd, ProbeAssumption DEF ReaderInv, ReaderShape
<1>3. \A i \in DOMAIN file.stored : file.stored[i].at < pos
  BY <1>1, <1>2 DEF Done
<1> QED BY <1>1, <1>3, DeliveredIs

\* In a file whose elements are in place, from where it was opened or a seek
\* found a Cluster: the reader is always at an element, knows the Timestamp in
\* force, and what it returned and queued is what is stored up to there
\* (advance, parse_block_group, queue_block_packets_with).
THEOREM IntactInvariant == Spec => []IntactInv
<1>1. Init => IntactInv
  BY FreshIntact
<1>2. DemuxInv /\ IntactInv /\ [Next]_vars => IntactInv'
  BY StepKeepsIntact
<1> QED BY <1>1, <1>2, DemuxInvariant, PTL DEF Spec

\* What next_packet has returned of such a file is the beginning of what is
\* stored behind the landing, packet by packet with its time, duration and
\* keyframe flag; it reports the end when that is all, and never an error.
THEOREM ReadingIsComplete == Spec => []ReadsIntactFile
<1>1. ASSUME DemuxInv, IntactInv PROVE ReadsIntactFile
  <2> SUFFICES ASSUME Grounded
               PROVE  /\ last # "err" /\ IsPrefix(given, Stored(landing.off))
                      /\ last = "eof" => given = Stored(landing.off)
    BY DEF ReadsIntactFile
  <2> DEFINE all == Stored(landing.off)
             g == Len(given)
  <2>1. ReaderInv /\ WellFormed(file) /\ Delivered /\ landing.off \in Nat
    BY <1>1 DEF DemuxInv, IntactInv, Grounded
  <2>2. /\ given \in Seq(Range(given)) /\ g \in Nat /\ DOMAIN given = 1 .. g /\ Len(queue) \in Nat
    BY <2>1 DEF ReaderInv, QueueInOrder
  <2>3. /\ all \in Seq(Range(file.stored)) /\ g + Len(queue) <= Len(all)
        /\ \A i \in DOMAIN given : given[i] = all[i]
        /\ Done /\ queue = <<>> => given = all
    BY <2>1, InPlaceOrder, DeliveredIs, DoneDelivers
  <2> HIDE DEF all, g
  <2>4. g <= Len(all)
    <3>1. Len(all) \in Nat
      BY <2>3
    <3> QED BY <2>2, <2>3, <3>1
  <2>5. SubSeq(given, 1, g) = SubSeq(all, 1, g)
    <3>1. SubSeq(given, 1, g) = given
      BY <2>2, SubSeqFull DEF g
    <3>2. \A i \in 1 .. g : all[i] \in Range(given)
      BY <2>2, <2>3 DEF Range
    <3>3. /\ SubSeq(all, 1, g) \in Seq(Range(given))
          /\ Len(SubSeq(all, 1, g)) = IF 1 <= g THEN g - 1 + 1 ELSE 0
          /\ \A i \in 1 .. g - 1 + 1 : SubSeq(all, 1, g)[i] = all[1 + i - 1]
      BY <2>2, <3>2, SubSeqProperties
    <3> DEFINE front == SubSeq(all, 1, g)
    <3> HIDE DEF front
    <3>4. front \in Seq(Range(given)) /\ Len(front) = g /\ \A i \in 1 .. g : front[i] = given[i]
      <4>1. g - 1 + 1 = g /\ \A i \in 1 .. g : 1 + i - 1 = i
        BY <2>2
      <4>2. \A i \in 1 .. g : front[i] = all[i]
        BY <3>3, <4>1 DEF front
      <4> QED BY <2>2, <2>3, <3>3, <4>1, <4>2 DEF front
    <3>5. front = [i \in 1 .. g |-> front[i]] /\ given = [i \in 1 .. g |-> given[i]]
      BY <2>2, <3>4
    <3>6. front = given
      BY <3>4, <3>5
    <3> QED BY <3>1, <3>6 DEF front
  <2>6. last # "err" /\ (last = "eof" => given = all)
    BY <1>1, <2>3 DEF IntactInv
  <2> QED BY <2>4, <2>5, <2>6 DEF IsPrefix, all, g
<1> QED BY <1>1, DemuxInvariant, IntactInvariant, PTL

\* Reading an intact file reports no damage: the damage events are "empty for
\* a resilient demuxer over an undamaged file" (demux.rs:9767).
THEOREM IntactNeedsNoRecovery ==
  ASSUME \A n \in DOMAIN Files : Files[n].intact => WellFormed(Files[n])
  PROVE  Spec => [](seeks = 0 => NoDamageOnIntactFile)
<1>1. IntactInv => (seeks = 0 => NoDamageOnIntactFile)
  <2> SUFFICES ASSUME IntactInv, seeks = 0, file.intact PROVE \A e \in Range(damage) : e.kind = "CueLie"
    BY DEF NoDamageOnIntactFile
  <2>1. WellFormed(file)
    BY DEF IntactInv
  <2>2. damage = <<>>
    BY <2>1 DEF IntactInv, Grounded
  <2> QED BY <2>2 DEF Range
<1> QED BY <1>1, IntactInvariant, PTL

\* One step of the reader is one of PacketReader's, or none.
LEMMA ReadStep ==
  ASSUME DemuxInv, IntactInv, IntactInv', Grounded, Grounded', [Next]_vars
  PROVE  [Reader!Deliver \/ Reader!End \/ Reader!Reposition]_<<Stored(landing.off), given, last = "eof">>
<1> DEFINE all == Stored(landing.off)
<1>1. /\ ReaderInv /\ WellFormed(file) /\ Delivered /\ landing.off \in Nat
      /\ last = "eof" => Done /\ queue = <<>>
  BY DEF DemuxInv, IntactInv, Grounded
<1>2. /\ all \in Seq(Range(file.stored))
      /\ Len(given) + Len(queue) <= Len(all)
      /\ \A i \in DOMAIN queue : queue[i] = all[Len(given) + i]
      /\ Done /\ queue = <<>> => given = all
  BY <1>1, InPlaceOrder, DeliveredIs, DoneDelivers
<1>3. ASSUME landing' = landing, file' = file PROVE all' = all
  BY <1>3 DEF Stored
<1>4. CASE ReturnPacket
  <2>1. /\ queue # <<>> /\ given' = Append(given, Head(queue)) /\ last' = "packet"
        /\ landing' = landing /\ file' = file
    BY <1>4 DEF ReturnPacket, input
  <2>2. /\ queue \in Seq(Range(queue)) /\ given \in Seq(Range(given))
    BY <1>1 DEF ReaderInv, QueueInOrder
  <2>3. Len(queue) >= 1 /\ Len(queue) \in Nat /\ Len(given) \in Nat /\ Len(all) \in Nat
        /\ Head(queue) = queue[1] /\ 1 \in DOMAIN queue
    <3>1. Len(all) \in Nat
      BY <1>2
    <3> QED BY <2>1, <2>2, <3>1
  <2> HIDE DEF all
  <2>4. Len(given) < Len(all) /\ given' = Append(given, all[Len(given) + 1])
    BY <1>2, <2>1, <2>3
  <2>5. all' = all /\ (last = "eof")' = FALSE
    BY <1>3, <2>1
  <2> QED BY <2>4, <2>5 DEF Reader!Deliver, all
<1>5. CASE EndOfSegment
  <2>1. /\ Done /\ queue = <<>> /\ last' = "eof" /\ given' = given
        /\ landing' = landing /\ file' = file
    BY <1>5 DEF EndOfSegment, Turn, Done, input
  <2>2. all' = all /\ given = all /\ (last = "eof")' = TRUE
    BY <1>2, <1>3, <2>1
  <2> QED BY <2>1, <2>2 DEF Reader!End
<1>6. CASE SeekTo
  <2>1. given' = <<>> /\ last' # "eof"
    BY <1>6 DEF SeekTo, SeekByCue, SeekFails, SeekCueless, Landed
  <2> QED BY <2>1 DEF Reader!Reposition
<1>7. CASE ~(ReturnPacket \/ EndOfSegment \/ SeekTo)
  <2>1. /\ given' = given /\ landing' = landing /\ file' = file
        /\ last' = last \/ last' = "err"
    <3>1. CASE NextPacket \/ FailPacket \/ UNCHANGED vars
      BY <3>1 DEF NextPacket, FailPacket, input, history, vars
    <3>2. CASE OpenCluster \/ ApplyTags \/ SkipTopLevel \/ LeaveCluster \/ LeaveAtTopLevel
      BY <3>2 DEF OpenCluster, ApplyTags, SkipTopLevel, LeaveCluster, LeaveAtTopLevel, Advanced, history
    <3>3. CASE ReadTimecode \/ ReadRecord \/ ReadSimpleBlock \/ ReadBlockGroup \/ SkipChild \/ Resync
      BY <3>3 DEF ReadTimecode, ReadRecord, ReadSimpleBlock, ReadBlockGroup, SkipChild, Resync, Advanced, history
    <3> QED BY <1>7, <3>1, <3>2, <3>3 DEF Next, LoopTurn
  <2>2. last' = last
    BY <2>1 DEF IntactInv
  <2> QED BY <1>3, <2>1, <2>2
<1> QED BY <1>4, <1>5, <1>6, <1>7

\* The walk over Clusters, groups, Tags and Blocks implements PacketReader as
\* long as opening and every seek leave the reader at a Cluster of an intact
\* file: each packet once, in storage order, and the end behind the last one.
THEOREM ReadingImplementsReader == Spec /\ []Grounded => ReadsWhatIsStored
<1>1. Init => Reader!ReaderInit
  BY DEF Init, Fresh, Reader!ReaderInit
<1>2. DemuxInv /\ IntactInv /\ IntactInv' /\ Grounded /\ Grounded' /\ [Next]_vars =>
        [Reader!Deliver \/ Reader!End \/ Reader!Reposition]_Reader!readerVars
  BY ReadStep DEF Reader!readerVars
<1> QED BY <1>1, <1>2, DemuxInvariant, IntactInvariant, PTL DEF Spec, ReadsWhatIsStored, Reader!ReaderSpec

\* In particular where intact files are opened and no seek is made.
THEOREM IntactFilesAreReadThrough ==
  ASSUME \A n \in DOMAIN Files : WellFormed(Files[n])
  PROVE  Spec /\ [](seeks = 0) => ReadsWhatIsStored
<1>1. IntactInv /\ seeks = 0 => Grounded
  BY DEF IntactInv, Grounded
<1> QED BY <1>1, IntactInvariant, ReadingImplementsReader, PTL
-----------------------------------------------------------------------------
(* Seeks without the Cues, in intact files.                                *)

\* The landing l is a Cluster with its Timestamp; only the first is past the
\* target.
LandsTruly(f, target, l) ==
  l.off # None =>
    /\ l.off \in f.clusters /\ l.ts = Header(f, l.off + 1).v
    /\ l.ts > target => l.off = f.first

\* A Cluster leads with its Timestamp, wherever one looks for that.
LEMMA LeadIs ==
  ASSUME NEW f, LegalFile(f), WellFormed(f), Searchable(f), NEW c \in f.clusters
  PROVE  /\ c \in f.tops /\ c \in Nat /\ c + 1 < f.dataEnd /\ Header(f, c).id = "Cluster"
         /\ Header(f, c + 1).v \in Int \ {None}
         /\ Header(f, c).size # Unknown => c + 1 < NextAt(f, c)
         /\ LeadsWithTimestamp(f, c, f.dataEnd)
         /\ \A limit \in 0 .. Far :
              c + 1 < limit => LeadingTimestamp(f, c + 1, limit) = Header(f, c + 1).v
<1> DEFINE k == c + 1
           t == Header(f, c + 1)
<1>1. k \in f.kids /\ t.id = "Timecode" /\ t.v # None
  BY DEF Searchable
<1>2. c \in f.tops /\ f.tops \cap f.kids = {} /\ f.clusters \subseteq f.tops
  BY DEF WellFormed, Tiled
<1>3. c \in Nat /\ Header(f, c).id = "Cluster" /\ k \in Nat
  BY ClusterIs
<1>4. k \in Elements(f) /\ k \notin f.clusters
  BY <1>1, <1>2 DEF Elements
<1> HIDE DEF k
<1>5. /\ k < f.dataEnd /\ f.dataEnd \in Nat /\ NextAt(f, k) \in Nat /\ NextAt(f, k) <= f.dataEnd
      /\ \A x \in Elements(f) : ~(k < x /\ x < NextAt(f, k))
  BY <1>4, ElementIs DEF Onward
<1>6. Readable(f, k)
  BY <1>1, KidIs
<1>7. ASSUME Header(f, c).size # Unknown
      PROVE  /\ NextAt(f, c) \in Nat /\ k < NextAt(f, c) /\ NextAt(f, k) <= NextAt(f, c)
             /\ NextAt(f, c) <= f.dataEnd
  <2>1. NextAt(f, c) \in f.tops \cup {f.dataEnd}
    BY <1>2, <1>7, TopIs
  <2>2. NextAt(f, c) \in Nat /\ NextAt(f, c) > c
    <3>1. c < Far
      <4>1. f.dataEnd \in 0 .. Far /\ Far \in Nat
        BY ProbeAssumption DEF LegalFile
      <4> QED BY <1>3, <1>5, <4>1 DEF k
    <3>2. NextAt(f, c) \in 0 .. Far /\ NextAt(f, c) > c
      BY <1>3, <3>1, NextIs DEF NextAt
    <3> QED BY <3>2, ProbeAssumption
  <2>3. CASE NextAt(f, c) \in f.tops
    <3>1. NextAt(f, c) \in Elements(f) /\ NextAt(f, c) # k
      BY <1>1, <1>2, <2>3 DEF Elements
    <3>2. NextAt(f, c) < f.dataEnd
      BY <3>1, ElementIs
    <3>3. ~(k < NextAt(f, c) /\ NextAt(f, c) < NextAt(f, k))
      BY <1>5, <3>1
    <3>4. k < NextAt(f, c)
      BY <1>3, <2>2, <3>1 DEF k
    <3> QED BY <1>5, <2>2, <3>2, <3>3, <3>4
  <2>4. CASE NextAt(f, c) = f.dataEnd
    BY <1>5, <2>2, <2>4
  <2> QED BY <2>1, <2>3, <2>4
<1>8. t.v \in Int
  BY <1>1, <1>3, HeaderIs DEF k
<1>9. LeadsWithTimestamp(f, c, f.dataEnd)
  BY <1>1, <1>5, <1>6, <1>7 DEF LeadsWithTimestamp, Readable, k
<1>10. \A limit \in 0 .. Far : k < limit => LeadingTimestamp(f, k, limit) = t.v
  BY <1>1, <1>3, <1>6, LeadingTimestampIs DEF k
<1> QED BY <1>1, <1>2, <1>3, <1>5, <1>7, <1>8, <1>9, <1>10 DEF k

\* The linear walk goes from element to element of the Segment.
LEMMA LinearScanLands ==
  ASSUME NEW f, LegalFile(f), WellFormed(f), Searchable(f), NEW target \in Int
  PROVE  LandsTruly(f, target, LinearScan(f, f.dataEnd, target))
<1>e. Far \in Nat /\ f.dataEnd \in 0 .. Far /\ None \in Int /\ None \notin Nat
  BY ProbeAssumption DEF LegalFile, None
<1> DEFINE end == f.dataEnd
           G == {x \in LinearStates : /\ x.at \in f.tops \cup {None, f.dataEnd}
                                      /\ x.best.off = None => x.at = f.first
                                      /\ LandsTruly(f, target, x.best)}
           w == LinearEnd(f, end, target)
<1>1. Far \in Nat /\ end \in Nat /\ end \in 0 .. Far /\ None \in Int /\ None \notin Nat
  BY <1>e
<1>2. LinearStart(f) \in G
  <2>1. f.first \in Nat \cup {None}
    <3>1. f.first \in (0 .. Far) \cup {None}
      BY DEF LegalFile
    <3> QED BY <1>1, <3>1
  <2>2. f.first = None \/ f.first \in f.tops
    BY DEF WellFormed, Tiled
  <2> QED BY <1>1, <2>1, <2>2 DEF LinearStart, LinearStates, LandsTruly
<1>3. ASSUME NEW x \in G, x.at \in Nat, x.at < end
      PROVE  [at |-> LinearBehind(f, end, target, x.at),
              best |-> LinearBest(f, end, target, x.at, x.best)] \in G
  <2> DEFINE p == x.at
             to == LinearBehind(f, end, target, p)
             b == LinearBest(f, end, target, p, x.best)
             ts == LinearTs(f, end, p)
  <2>1. p \in f.tops
    BY <1>1, <1>3
  <2>2. /\ Parses(Header(f, p)) /\ p \in Nat
        /\ p \in f.clusters <=> Header(f, p).id = "Cluster"
        /\ Header(f, p).size = Unknown => p \in f.clusters
        /\ Header(f, p).size # Unknown => NextAt(f, p) \in f.tops \cup {end}
    <3>1. p \in Elements(f)
      BY <2>1, TopIs
    <3> QED BY <2>1, <3>1, TopIs, ElementIs
  <2>3. /\ ts \in Int
        /\ to = None \/ (to \in Nat /\ to > p /\ to <= end)
        /\ \/ to \in {None, ScanTopLevel(f, p + 1, end)}
           \/ Parses(Header(f, p)) /\ Header(f, p).size # Unknown /\ to \in {NextAt(f, p), end}
        /\ Parses(Header(f, p)) /\ Header(f, p).size # Unknown => to \in {None, NextAt(f, p), end}
        /\ LinearBound(f, end, p) \in {NextAt(f, p), end}
    BY <1>1, <1>3, LinearTurnIs
  <2>4. /\ x.best \in [off : Nat \cup {None}, ts : Int] /\ LandsTruly(f, target, x.best)
        /\ x.best.off = None => p = f.first
    BY DEF LinearStates
  <2>5. ASSUME p \in f.clusters PROVE ts = Header(f, p + 1).v /\ ts # None
    <3> DEFINE limit == IF Header(f, p).size = Unknown THEN end ELSE LinearBound(f, end, p)
    <3>1. /\ p + 1 < end /\ (Header(f, p).size # Unknown => p + 1 < NextAt(f, p))
          /\ Header(f, p + 1).v \in Int \ {None}
          /\ \A l \in 0 .. Far : p + 1 < l => LeadingTimestamp(f, p + 1, l) = Header(f, p + 1).v
      BY <2>5, LeadIs
    <3>2. NextAt(f, p) \in 0 .. Far
      BY <2>2, NextIs DEF NextAt
    <3>3. limit \in 0 .. Far /\ p + 1 < limit
      BY <1>1, <2>3, <3>1, <3>2
    <3>4. ts = LeadingTimestamp(f, p + 1, limit)
      BY <2>2, <2>5 DEF LinearTs
    <3> HIDE DEF limit, ts
    <3> QED BY <3>1, <3>3, <3>4
  <2>6. p \notin f.clusters => ts = None
    BY <2>2 DEF LinearTs
  <2>7. b = IF ts # None /\ (ts <= target \/ x.best.off = None) THEN [off |-> p, ts |-> ts] ELSE x.best
    BY DEF LinearBest
  <2>8. x.best.off = None => p \in f.clusters
    BY <1>1, <2>2, <2>4 DEF Searchable
  <2> HIDE DEF ts, to, b
  <2>9. b \in [off : Nat \cup {None}, ts : Int] /\ b.off # None /\ LandsTruly(f, target, b)
    <3>1. CASE ts # None /\ (ts <= target \/ x.best.off = None)
      <4>1. p \in f.clusters /\ ts = Header(f, p + 1).v
        BY <2>5, <2>6, <3>1
      <4>2. ts > target => p = f.first
        BY <2>3, <2>4, <3>1
      <4>3. b = [off |-> p, ts |-> ts]
        BY <2>7, <3>1
      <4> QED BY <1>1, <2>2, <2>3, <4>1, <4>2, <4>3 DEF LandsTruly
    <3>2. CASE ~(ts # None /\ (ts <= target \/ x.best.off = None))
      <4>1. b = x.best /\ x.best.off # None
        BY <2>5, <2>7, <2>8, <3>2
      <4> QED BY <2>4, <4>1
    <3> QED BY <3>1, <3>2
  <2>10. to \in f.tops \cup {None, end}
    <3>1. CASE Header(f, p).size # Unknown
      BY <2>2, <2>3, <3>1
    <3>2. CASE Header(f, p).size = Unknown
      <4> DEFINE hit == ScanTopLevel(f, p + 1, end)
      <4>1. \/ hit = None
            \/ hit \in p + 1 .. end - 1 /\ Header(f, hit).id \in TopLevelIds /\ VetTopLevel(f, hit, end)
        <5>1. p + 1 \in Nat
          BY <2>2
        <5> QED BY <1>1, <5>1, ScanIs
      <4> HIDE DEF hit
      <4>2. hit \in p + 1 .. end - 1 => hit \in 0 .. end - 1
        BY <1>1, <2>2
      <4>3. \E c \in f.clusters : Header(f, c).size = Unknown
        BY <2>2, <3>2
      <4>4. hit = None \/ hit \in f.tops
        BY <4>1, <4>2, <4>3 DEF Searchable
      <4> QED BY <2>3, <3>2, <4>4 DEF hit
    <3> QED BY <3>1, <3>2
  <2>11. [at |-> to, best |-> b] \in G
    BY <2>3, <2>9, <2>10 DEF LinearStates
  <2> QED BY <2>11 DEF to, b
<1>4. w \in G
  <2>1. G \subseteq LinearStates
    OBVIOUS
  <2> HIDE DEF G
  <2> QED BY <1>1, <1>2, <1>3, <2>1, LinearScanStays
<1>5. LinearScan(f, end, target) = IF w.best.off = None THEN NoLanding
                                   ELSE [off |-> w.best.off, ts |-> w.best.ts, how |-> "LinearScan"]
  BY LinearScanWalks
<1> HIDE DEF w
<1> QED BY <1>4, <1>5 DEF NoLanding, LandsTruly

\* A Cluster a probe vets and confirms, or meets where a Cluster ends, is one.
LEMMA VettedIs ==
  ASSUME NEW f, LegalFile(f), WellFormed(f), Searchable(f), NEW tolerate \in BOOLEAN, NEW c \in Probes,
         c.off \in 0 .. f.dataEnd - 1, c = VetCluster(f, c.off, f.dataEnd, tolerate),
         Header(f, c.off).id = "Cluster",
         \/ ConfirmBoundary(f, c, f.dataEnd)
         \/ \E d \in f.clusters : c.off = NextAt(f, d)
         \/ c.off = f.first
  PROVE  c.off \in f.clusters /\ c.ts = Header(f, c.off + 1).v
         /\ c.next \in {None, NextAt(f, c.off), f.dataEnd}
<1>1. c # NoProbe /\ c.off \in Nat
  BY DEF Probes, NoProbe, None
<1>2. ASSUME ConfirmBoundary(f, c, f.dataEnd) PROVE c.off \in f.clusters
  <2>1. VetCluster(f, c.off, f.dataEnd, tolerate) # NoProbe
        /\ ConfirmBoundary(f, VetCluster(f, c.off, f.dataEnd, tolerate), f.dataEnd)
    BY <1>1, <1>2
  <2> QED BY <2>1 DEF Searchable
<1>3. ASSUME c.off = f.first PROVE c.off \in f.clusters
  BY <1>1, <1>3 DEF Searchable, None
<1>4. ASSUME NEW d \in f.clusters, c.off = NextAt(f, d) PROVE c.off \in f.clusters
  <2>1. f.dataEnd \in 0 .. Far /\ Far \in Nat
    BY ProbeAssumption DEF LegalFile
  <2>2. c.off < f.dataEnd /\ f.dataEnd <= Far
    BY <2>1
  <2>3. Header(f, d).size # Unknown
    <3>1. Header(f, d).size = Unknown => NextAt(f, d) = Far
      BY DEF NextAt, Past
    <3> QED BY <1>4, <2>1, <2>2, <3>1
  <2>4. d \in f.tops
    BY LeadIs
  <2>5. c.off \in f.tops
    BY <1>4, <2>1, <2>2, <2>3, <2>4, TopIs
  <2> QED BY <2>5, TopIs
<1>5. c.off \in f.clusters
  BY <1>2, <1>3, <1>4
<1>6. Header(f, c.off + 1).id = "Timecode" /\ f.dataEnd \in 0 .. Far
  BY <1>5 DEF Searchable, LegalFile
<1>7. c.ts = Header(f, c.off + 1).v /\ c.next \in {None, NextAt(f, c.off), f.dataEnd}
  BY <1>1, <1>6, VetClusterIs
<1> QED BY <1>5, <1>7

\* The bisection goes from Cluster to Cluster.
LEMMA BisectLands ==
  ASSUME NEW f, LegalFile(f), WellFormed(f), Searchable(f), NEW target \in Int, NEW tolerate \in BOOLEAN
  PROVE  LandsTruly(f, target, Bisect(f, f.dataEnd, target, tolerate))
<1>e. Far \in Nat /\ f.dataEnd \in Nat /\ f.dataEnd \in 0 .. Far /\ None \in Int /\ None \notin Nat
  <2>1. Far \in Nat /\ f.dataEnd \in 0 .. Far /\ None \in Int /\ None \notin Nat
    BY ProbeAssumption DEF LegalFile, None
  <2> QED BY <2>1
<1> DEFINE end == f.dataEnd
           Sound(lo) == /\ lo.off \in f.clusters /\ lo.ts = Header(f, lo.off + 1).v
                        /\ lo.next \in {None, NextAt(f, lo.off), f.dataEnd}
                        /\ lo.ts > target => lo.off = f.first
           G == {x \in Brackets : Sound(x.lo)}
           s == BisectEnd(f, end, target, tolerate)
           l == Bisect(f, end, target, tolerate)
<1>2. ASSUME NEW x \in G, LoNextOf(x) < x.hi
      PROVE  HalvedBy(target, x, ProbedOf(f, end, tolerate, x)) \in G
  <2> DEFINE c == ProbedOf(f, end, tolerate, x)
             y == HalvedBy(target, x, c)
  <2>1. /\ FromOf(x) \in Nat
        /\ \/ c = NoProbe
           \/ /\ c \in Probes /\ c.off \in 0 .. end - 1 /\ c = VetCluster(f, c.off, end, tolerate)
              /\ Header(f, c.off).id = "Cluster"
              /\ c.off \in {x.lo.next, None} \/ ConfirmBoundary(f, c, end)
    BY <1>2, <1>e, ProbedIs
  <2> HIDE DEF c
  <2>2. x \in Brackets /\ Sound(x.lo)
    OBVIOUS
  <2>3. ASSUME c # NoProbe PROVE c \in Probes /\ (c.ts <= target => Sound(c))
    <3>1. c \in Probes /\ c.off \in Nat /\ c.off < end /\ c.ts \in Int
      BY <1>e, <2>1, <2>3 DEF Probes
    <3>2. c.off \in {x.lo.next, None} => c.off = NextAt(f, x.lo.off)
      BY <1>e, <2>2, <3>1
    <3>3. ConfirmBoundary(f, c, end) \/ \E d \in f.clusters : c.off = NextAt(f, d)
      BY <2>1, <2>2, <2>3, <3>2
    <3>4. c.off \in f.clusters /\ c.ts = Header(f, c.off + 1).v
          /\ c.next \in {None, NextAt(f, c.off), end}
      BY <2>1, <2>3, <3>1, <3>3, VettedIs
    <3> QED BY <1>e, <3>1, <3>4
  <2>4. x.lo \in Probes /\ x.hi \in Nat /\ x.hiTs \in Int /\ x.probes + 1 \in Nat
    BY <2>2 DEF Brackets
  <2>5. c # NoProbe => c.off \in Nat /\ c.ts \in Int
    BY <2>3 DEF Probes
  <2> HIDE DEF Sound
  <2>6. y \in Brackets /\ Sound(y.lo)
    BY <2>1, <2>2, <2>3, <2>4, <2>5 DEF HalvedBy, Brackets
  <2> QED BY <2>6 DEF c
<1>3. ASSUME f.first # None, FirstProbe(f, end, tolerate) # NoProbe PROVE s \in G
  <2> DEFINE c == FirstProbe(f, end, tolerate)
  <2>1. f.first \in f.clusters
    BY <1>3 DEF Searchable
  <2>2. /\ f.first \in Nat /\ f.first + 1 < end /\ Header(f, f.first).id = "Cluster"
        /\ LeadsWithTimestamp(f, f.first, end)
    BY <2>1, LeadIs
  <2>3. VetCluster(f, f.first, end, tolerate) # NoProbe
    BY <1>e, <2>2, VetClusterIs
  <2>4. c.off = f.first /\ c = VetCluster(f, c.off, end, tolerate)
    BY <1>e, <1>3, <2>2, <2>3, ProbeFromIs DEF FirstProbe
  <2>5. BisectStart(f, end, tolerate) \in Brackets /\ c \in Probes
    BY <1>e, <1>3, FirstProbeIs
  <2>6. BisectStart(f, end, tolerate).lo = c
    BY DEF BisectStart
  <2> HIDE DEF c
  <2>7. c.off \in 0 .. end - 1
    BY <1>e, <2>2, <2>4
  <2>8. Sound(c)
    BY <2>2, <2>4, <2>5, <2>7, VettedIs
  <2>9. BisectStart(f, end, tolerate) \in G /\ G \subseteq Brackets
    BY <2>5, <2>6, <2>8
  <2> HIDE DEF G
  <2> QED BY <1>2, <1>e, <2>9, BisectStays
<1>4. LandsTruly(f, target, LinearScan(f, end, target))
  BY LinearScanLands
<1>5. \/ f.first = None /\ l = NoLanding
      \/ f.first # None /\ l = LinearScan(f, end, target)
      \/ /\ f.first # None /\ FirstProbe(f, end, tolerate) # NoProbe
         /\ l = [off |-> s.lo.off, ts |-> s.lo.ts, how |-> "Bisection"]
  BY BisectWalks
<1> HIDE DEF s, l
<1>6. LandsTruly(f, target, l)
  BY <1>3, <1>4, <1>5 DEF NoLanding, LandsTruly
<1> QED BY <1>6 DEF l

\* A search says how it found its landing.
LEMMA BisectSaysHow ==
  ASSUME NEW f, NEW end, NEW target, NEW tolerate
  PROVE  LET l == Bisect(f, end, target, tolerate)
         IN  l.off # None => l.how \in {"Bisection", "LinearScan"}
<1> DEFINE s == BisectEnd(f, end, target, tolerate)
           scan == LinearScan(f, end, target)
           best == LinearEnd(f, end, target).best
           l == Bisect(f, end, target, tolerate)
<1>1. l = NoLanding \/ l = scan \/ l = [off |-> s.lo.off, ts |-> s.lo.ts, how |-> "Bisection"]
  BY BisectWalks
<1>2. scan = IF best.off = None THEN NoLanding ELSE [off |-> best.off, ts |-> best.ts, how |-> "LinearScan"]
  BY LinearScanWalks
<1> HIDE DEF s, scan, best, l
<1>3. l.off # None => l.how \in {"Bisection", "LinearScan"}
  BY <1>1, <1>2 DEF NoLanding
<1> QED BY <1>3 DEF l

\* TimestampOf reads a Cluster's first child.
LEMMA TimestampIs ==
  ASSUME LegalFile(file), WellFormed(file), Searchable(file), NEW c \in file.clusters
  PROVE  TimestampOf(c) = Header(file, c + 1).v
<1> DEFINE limit == ClusterEnd(file, c, InputLen(file))
<1>1. /\ c \in Nat /\ c + 1 < file.dataEnd
      /\ Header(file, c).size # Unknown => c + 1 < NextAt(file, c)
      /\ \A x \in 0 .. Far : c + 1 < x => LeadingTimestamp(file, c + 1, x) = Header(file, c + 1).v
  BY LeadIs
<1>2. InputLen(file) \in 0 .. Far /\ InputLen(file) \in Nat /\ c + 1 < InputLen(file)
  <2>1. /\ file.dataEnd \in Nat /\ InputLen(file) \in 0 .. Far /\ Far \in Nat
        /\ file.dataEnd <= InputLen(file)
    BY IntactEnd, ProbeAssumption DEF LegalFile, WellFormed, Tiled
  <2> QED BY <1>1, <2>1
<1>3. NextAt(file, c) \in 0 .. Far
  BY <1>1, NextIs DEF NextAt
<1>4. limit \in 0 .. Far /\ c + 1 < limit
  BY <1>1, <1>2, <1>3 DEF ClusterEnd, NextAt
<1> HIDE DEF limit
<1>5. LeadingTimestamp(file, c + 1, limit) = Header(file, c + 1).v
  BY <1>1, <1>4
<1> QED BY <1>5 DEF TimestampOf, limit

\* Where such a seek takes the reader.
LEMMA CuelessLands ==
  ASSUME LegalFile(file), WellFormed(file), Searchable(file), NEW track, NEW pts \in Targets,
         SeekCueless(track, pts)
  PROVE  /\ landing'.off \in file.clusters /\ landing'.landed = TimestampOf(landing'.off)
         /\ landing'.landed > landing'.wanted => landing'.off = Min(file.clusters)
         /\ strategy' \in {"Bisection", "LinearScan"} /\ last' = "open" /\ file' = file
<1> DEFINE l == Bisect(file, SegmentEnd, Ticks(pts), Resilient)
<1>1. Ticks(pts) \in Int
  BY TargetsAssumption, MaxOfTwo DEF Ticks
<1>2. SegmentEnd = file.dataEnd /\ Resilient \in BOOLEAN
  BY IntactEnd DEF LegalFile, Resilient
<1>3. LandsTruly(file, Ticks(pts), l)
  BY <1>1, <1>2, BisectLands
<1>h. l.off # None => l.how \in {"Bisection", "LinearScan"}
  BY BisectSaysHow
<1> HIDE DEF l
<1>4. /\ l.off # None /\ landing' = [off |-> l.off, landed |-> l.ts, wanted |-> Ticks(pts), track |-> track]
      /\ strategy' = l.how /\ last' = "open" /\ file' = file
  BY DEF SeekCueless, Landed, l
<1>5. /\ l.off \in file.clusters /\ l.ts = Header(file, l.off + 1).v
      /\ l.ts > Ticks(pts) => l.off = file.first
  BY <1>3, <1>4 DEF LandsTruly
<1>6. TimestampOf(l.off) = l.ts
  BY <1>5, TimestampIs
<1>7. l.off = file.first => l.off = Min(file.clusters)
  <2> SUFFICES ASSUME l.off = file.first PROVE l.off = Min(file.clusters)
    OBVIOUS
  <2>1. l.off # None /\ \A c \in file.clusters : l.off <= c
    BY <1>4 DEF Searchable
  <2>2. file.clusters \in SUBSET Int
    <3>1. \A c \in file.clusters : c \in Nat
      BY ClusterIs
    <3> QED BY <3>1
  <2> QED BY <1>5, <2>1, <2>2, MinIs
<1> QED BY <1>h, <1>4, <1>5, <1>6, <1>7

\* Only a seek says where reading starts.
LEMMA SeekSaysWhere ==
  ASSUME [Next]_vars, ~SeekTo
  PROVE  landing' = landing /\ strategy' = strategy /\ seeks' = seeks
<1>1. CASE NextPacket \/ ReturnPacket \/ EndOfSegment \/ FailPacket \/ UNCHANGED vars
  BY <1>1 DEF NextPacket, ReturnPacket, EndOfSegment, FailPacket, input, history, vars
<1>2. CASE OpenCluster \/ ApplyTags \/ SkipTopLevel \/ LeaveCluster \/ LeaveAtTopLevel
  BY <1>2 DEF OpenCluster, ApplyTags, SkipTopLevel, LeaveCluster, LeaveAtTopLevel, Advanced, history
<1>3. CASE ReadTimecode \/ ReadRecord \/ ReadSimpleBlock \/ ReadBlockGroup \/ SkipChild \/ Resync
  BY <1>3 DEF ReadTimecode, ReadRecord, ReadSimpleBlock, ReadBlockGroup, SkipChild, Resync, Advanced, history
<1> QED BY <1>1, <1>2, <1>3 DEF Next, LoopTurn

LEMMA StepKeepsCueless ==
  ASSUME DemuxInv, IntactInv, CuelessInv, [Next]_vars
  PROVE  CuelessInv'
<1>1. ReaderInv /\ LegalFile(file) /\ file' = file
  BY FileStays DEF DemuxInv, ReaderInv, ReaderShape
<1>2. WellFormed(file)' = WellFormed(file) /\ Searchable(file)' = Searchable(file)
  BY <1>1
<1>3. CASE SeekTo
  <2>1. PICK track \in DOMAIN TrackIndex, pts \in Targets :
          SeekByCue(track, pts) \/ SeekFails(track, pts) \/ SeekCueless(track, pts)
    BY <1>3 DEF SeekTo
  <2>t. Ticks(pts) \in Int
    BY TargetsAssumption, MaxOfTwo DEF Ticks
  <2>2. CASE SeekByCue(track, pts) \/ SeekFails(track, pts)
    <3>1. strategy' = "Cues" /\ (landing' = landing \/ landing'.wanted = Ticks(pts))
      BY <2>2 DEF SeekByCue, SeekFails, Landed
    <3>2. (landing.wanted \in Int)'
      BY <2>t, <3>1 DEF CuelessInv
    <3> QED BY <3>1, <3>2 DEF CuelessInv
  <2>3. CASE SeekCueless(track, pts)
    <3>1. strategy' \in {"Bisection", "LinearScan"} /\ (landing.wanted \in Int)'
      <4>1. /\ strategy' = Bisect(file, SegmentEnd, Ticks(pts), Resilient).how
            /\ Bisect(file, SegmentEnd, Ticks(pts), Resilient).off # None
            /\ landing'.wanted = Ticks(pts)
        BY <2>3 DEF SeekCueless, Landed
      <4> QED BY <2>t, <4>1, BisectSaysHow
    <3>2. ASSUME WellFormed(file), Searchable(file)
          PROVE  /\ landing'.off \in file.clusters /\ landing'.landed = TimestampOf(landing'.off)
                 /\ landing'.landed > landing'.wanted => landing'.off = Min(file.clusters)
                 /\ last' = "open"
      BY <1>1, <2>3, <3>2, CuelessLands
    <3>3. WellFormed(file) /\ Searchable(file) => Grounded'
      BY <1>1, <3>2 DEF Grounded
    <3>4. TimestampOf(landing.off)' = TimestampOf(landing'.off)
      BY <1>1 DEF TimestampOf
    <3> QED BY <1>1, <3>1, <3>2, <3>3, <3>4 DEF CuelessInv
  <2> QED BY <2>1, <2>2, <2>3
<1>4. CASE ~SeekTo
  <2>1. landing' = landing /\ strategy' = strategy /\ seeks' = seeks
    BY <1>4, SeekSaysWhere
  <2>2. ASSUME Grounded PROVE Grounded'
    <3>1. Reading
      BY <2>2 DEF IntactInv, Reading
    <3>2. last' # "err"
      <4>1. LoopTurn => Reading'
        BY <1>1, <2>2, <3>1, TurnKeepsReading DEF Grounded
      <4>2. NextPacket \/ UNCHANGED vars => last' = last
        BY DEF NextPacket, vars, history
      <4> QED BY <1>4, <3>1, <4>1, <4>2 DEF Next, Reading
    <3> QED BY <1>1, <2>1, <2>2, <3>2 DEF Grounded
  <2>3. TimestampOf(landing.off)' = TimestampOf(landing.off)
    BY <1>1, <2>1 DEF TimestampOf
  <2> QED BY <1>1, <2>1, <2>2, <2>3 DEF CuelessInv
<1> QED BY <1>3, <1>4

\* In a file whose Clusters lead with their Timestamps and whose payloads
\* deceive no probe, a seek without the index leaves the reader at a Cluster,
\* and what it says of it is so (seek_cueless, seek_by_cluster_scan).
THEOREM CuelessInvariant == Spec => []CuelessInv
<1>1. Init => CuelessInv
  BY DEF Init, Fresh, CuelessInv, Grounded
<1>2. DemuxInv /\ IntactInv /\ CuelessInv /\ [Next]_vars => CuelessInv'
  BY StepKeepsCueless
<1> QED BY <1>1, <1>2, DemuxInvariant, IntactInvariant, PTL DEF Spec

\* The time such a seek reports is that of the Cluster it lands at, and past
\* the target only at the first one, however the Clusters are ordered.
THEOREM CuelessSeeksLandTruly ==
  ASSUME \A n \in DOMAIN Files : Files[n].intact => WellFormed(Files[n]) /\ Searchable(Files[n])
  PROVE  Spec => []LandsAtOrBefore
<1>1. IntactInv /\ CuelessInv => LandsAtOrBefore
  BY DEF IntactInv, CuelessInv, LandsAtOrBefore, Cueless
<1> QED BY <1>1, IntactInvariant, CuelessInvariant, PTL

\* Reading on after such seeks, as after opening, implements PacketReader.
THEOREM CuelessSeeksReadOn ==
  ASSUME \A n \in DOMAIN Files : WellFormed(Files[n]) /\ Searchable(Files[n])
  PROVE  Spec /\ [](strategy # "Cues") => ReadsWhatIsStored
<1>1. IntactInv /\ CuelessInv /\ strategy # "Cues" => Grounded
  BY DEF IntactInv, CuelessInv
<1> QED BY <1>1, IntactInvariant, CuelessInvariant, ReadingImplementsReader, PTL

\* At the end every packet stored behind the landing has been returned.
LEMMA AllGiven ==
  ASSUME ReaderInv, WellFormed(file), Delivered, Done, queue = <<>>,
         NEW i \in DOMAIN file.stored, ~(file.stored[i].at < landing.off)
  PROVE  Given(file.stored[i])
<1> DEFINE s == file.stored
           N == Len(s)
           g == Len(given)
<1>1. N \in Nat /\ DOMAIN s = 1 .. N /\ \A k \in 1 .. N : s[k].at \in Nat /\ s[k].at < file.dataEnd
  BY DEF WellFormed, StoredTruly
<1>2. /\ pos \in Nat /\ pos >= file.dataEnd /\ file.dataEnd \in Nat
      /\ g \in Nat /\ DOMAIN given = 1 .. g /\ Len(queue) = 0
  <2>1. SegmentEnd = file.dataEnd /\ file.dataEnd \in Nat /\ pos \in Nat
    BY IntactEnd, ProbeAssumption DEF ReaderInv, ReaderShape
  <2>2. g \in Nat /\ DOMAIN given = 1 .. g /\ Len(queue) = 0
    BY DEF ReaderInv, QueueInOrder
  <2> QED BY <2>1, <2>2 DEF Done
<1>3. PICK m \in 0 .. N, n \in 0 .. N :
        /\ m + g + Len(queue) = n
        /\ \A k \in DOMAIN s : (s[k].at < landing.off <=> k <= m) /\ (s[k].at < pos <=> k <= n)
        /\ \A k \in DOMAIN given : given[k] = s[m + k]
  BY DEF Delivered
<1> HIDE DEF s, N, g
<1>4. i \in 1 .. N /\ s[i].at < pos /\ ~(s[i].at < landing.off)
  <2>1. i \in 1 .. N /\ ~(s[i].at < landing.off)
    BY <1>1 DEF s
  <2> QED BY <1>1, <1>2, <2>1
<1>5. i <= n /\ ~(i <= m)
  BY <1>1, <1>3, <1>4
<1>6. i - m \in 1 .. g /\ m + (i - m) = i
  BY <1>1, <1>2, <1>3, <1>4, <1>5
<1>7. given[i - m] = s[i]
  BY <1>2, <1>3, <1>6
<1> QED BY <1>2, <1>6, <1>7 DEF Given, s

\* Playing on from such a seek shows everything of the sought track from the
\* wanted time on.
THEOREM CuelessSeeksSkipNothing ==
  ASSUME \A n \in DOMAIN Files :
           Files[n].intact => WellFormed(Files[n]) /\ Searchable(Files[n]) /\ Timely(Files[n])
  PROVE  Spec => [](strategy # "Cues" => NothingWantedIsSkipped)
<1>1. ASSUME DemuxInv, IntactInv, CuelessInv, strategy # "Cues",
             last = "eof", file.intact, Sorted, landing.track # None,
             NEW p \in Range(file.stored),
             p.pts >= IF StartsEarlyEnough THEN landing.wanted ELSE landing.landed
      PROVE  Given(p)
  <2>1. /\ ReaderInv /\ LegalFile(file) /\ WellFormed(file) /\ Searchable(file) /\ Timely(file)
        /\ landing.off \in file.clusters /\ landing.landed = TimestampOf(landing.off)
        /\ landing.landed > landing.wanted => landing.off = Min(file.clusters)
        /\ Grounded /\ Delivered /\ Done /\ queue = <<>>
    <3>1. ReaderInv /\ LegalFile(file) /\ WellFormed(file) /\ Searchable(file) /\ Timely(file)
      BY <1>1 DEF DemuxInv, ReaderInv, ReaderShape, IntactInv
    <3>2. Grounded /\ strategy \in {"Bisection", "LinearScan"}
      BY <1>1, <3>1 DEF CuelessInv
    <3> QED BY <1>1, <3>1, <3>2 DEF CuelessInv, IntactInv
  <2>2. PICK i \in DOMAIN file.stored : p = file.stored[i]
    BY <1>1 DEF Range
  <2>3. \A c \in file.clusters : TimestampOf(c) = Header(file, c + 1).v
    BY <2>1, TimestampIs
  <2>4. \A c, d \in file.clusters : c < d => Header(file, c + 1).v <= Header(file, d + 1).v
    BY <1>1, <2>3 DEF Sorted
  <2>5. /\ p.pts \in Int
        /\ \A c \in file.clusters : p.at < c => p.pts < Header(file, c + 1).v
    BY <2>1, <2>2, <2>4 DEF Timely
  <2>6. ASSUME p.at < landing.off PROVE FALSE
    <3>1. p.pts < landing.landed /\ landing.landed \in Int
      BY <2>1, <2>3, <2>5, <2>6, LeadIs
    <3>2. ~(p.pts >= landing.landed)
      BY <2>5, <3>1
    <3>3. p.pts >= landing.wanted
      BY <1>1, <3>2
    <3>4. landing.wanted \in Int
      BY <1>1 DEF CuelessInv
    <3>5. landing.off = Min(file.clusters)
      BY <2>1, <2>5, <3>1, <3>3, <3>4
    <3>6. file.first # None
      BY <2>2, <2>1 DEF WellFormed, Tiled
    <3>7. Min(file.clusters) = file.first
      <4>1. file.clusters \in SUBSET Int
        BY <2>1, ClusterIs
      <4> QED BY <2>1, <3>6, <4>1, MinIs DEF Searchable
    <3>8. file.first <= p.at /\ p.at \in Nat /\ file.first \in Nat
      <4>1. file.first \in file.clusters
        BY <2>1, <3>6 DEF Searchable
      <4> QED BY <2>1, <2>2, <4>1, ClusterIs DEF WellFormed, StoredTruly
    <3> QED BY <2>6, <3>5, <3>7, <3>8
  <2> QED BY <2>1, <2>2, <2>6, AllGiven
<1>2. DemuxInv /\ IntactInv /\ CuelessInv => (strategy # "Cues" => NothingWantedIsSkipped)
  BY <1>1 DEF NothingWantedIsSkipped
<1> QED BY <1>2, DemuxInvariant, IntactInvariant, CuelessInvariant, PTL
=============================================================================
