-------------------------- MODULE MkvOpeningProofs ---------------------------
(***************************************************************************)
(* What the demuxer finds when it opens what a crash left of MkvMuxer's    *)
(* output: WriterInv and OpeningInv hold in every state of the system, and *)
(* with them what MkvRecovery says of the index, the SeekHead, the         *)
(* Duration and the checksums.                                             *)
(***************************************************************************)
EXTENDS MkvWriterProofs

-----------------------------------------------------------------------------
(* What a master's parser lifts, in any legal file.                        *)

LEMMA LiftTurnIs ==
  ASSUME NEW f, LegalFile(f), NEW end \in 0 .. Far, NEW p \in Nat
  PROVE  LET c == Header(f, p)
             l == Lifted(f, p, end)
             rest == Lifted(f, NextAt(f, p), end) IN
         /\ l \in LiftResults(f) /\ rest \in LiftResults(f) /\ NextAt(f, p) \in 0 .. Far
         /\ p >= end => l = [values |-> Nothing, err |-> FALSE, to |-> p]
         /\ p < end /\ (~Parses(c) \/ (c.id \in ValueIds /\ ~Readable(f, p))) =>
              l = [values |-> Nothing, err |-> TRUE, to |-> p]
         /\ p < end /\ Parses(c) /\ c.id \notin ValueIds => l = rest
         /\ p < end /\ Parses(c) /\ c.id \in ValueIds /\ Readable(f, p) =>
              l = [rest EXCEPT !.values[c.id] = <<c.v>> \o @]
<1> DEFINE c == Header(f, p)
           l == Lifted(f, p, end)
           rest == Lifted(f, NextAt(f, p), end)
<1>1. NextAt(f, p) \in 0 .. Far
  BY NextIs DEF NextAt
<1>2. NextAt(f, p) \in Nat
  BY <1>1, ProbeAssumption
<1>3. l \in LiftResults(f) /\ rest \in LiftResults(f) /\ l = LiftTurn(f, p, end, rest)
  BY <1>2, LiftedIs
<1>4. end \in Int
  BY ProbeAssumption
<1> HIDE DEF l, rest
<1>5. /\ p >= end => l = [values |-> Nothing, err |-> FALSE, to |-> p]
      /\ p < end /\ (~Parses(c) \/ (c.id \in ValueIds /\ ~Readable(f, p))) =>
           l = [values |-> Nothing, err |-> TRUE, to |-> p]
      /\ p < end /\ Parses(c) /\ c.id \notin ValueIds => l = rest
      /\ p < end /\ Parses(c) /\ c.id \in ValueIds /\ Readable(f, p) =>
           l = [rest EXCEPT !.values[c.id] = <<c.v>> \o @]
  BY <1>3, <1>4 DEF LiftTurn
<1> QED BY <1>1, <1>3, <1>5 DEF l, rest

LEMMA LiftedBehind ==
  ASSUME NEW f, LegalFile(f), NEW end \in 0 .. Far, NEW p \in Nat, p >= end
  PROVE  Lifted(f, p, end) = [values |-> Nothing, err |-> FALSE, to |-> p]
<1>1. Lifted(f, p, end) = LiftTurn(f, p, end, Lifted(f, NextAt(f, p), end))
  BY LiftedIs
<1> QED BY <1>1 DEF LiftTurn

\* A leaf's value comes in front of what is lifted behind it.
PutInFront(c, l, rest) ==
  /\ l.err = rest.err /\ l.to = rest.to
  /\ \A id \in ValueIds :
       l.values[id] = IF c.id = id THEN <<c.v>> \o rest.values[id] ELSE rest.values[id]

LEMMA LiftedLeaf ==
  ASSUME NEW f, LegalFile(f), NEW end \in 0 .. Far, end <= InputLen(f), NEW p \in Nat, p < end,
         Header(f, p).size = 0, Parses(Header(f, p))
  PROVE  /\ NextAt(f, p) = p + 1
         /\ PutInFront(Header(f, p), Lifted(f, p, end), Lifted(f, p + 1, end))
<1>1. Far \in Nat /\ InputLen(f) \in 0 .. Far
  BY ProbeAssumption DEF LegalFile
<1>2. Past(p + 1, 0) = p + 1
  <2>1. p + 1 + 0 \in Nat /\ p + 1 + 0 = p + 1 /\ p + 1 <= Far
    BY <1>1
  <2> QED BY <1>1, <2>1, MinOfTwo DEF Past, Unknown
<1>3. NextAt(f, p) = p + 1 /\ Readable(f, p)
  BY <1>1, <1>2 DEF NextAt, Readable, Unknown
<1> DEFINE c == Header(f, p)
           l == Lifted(f, p, end)
           rest == Lifted(f, p + 1, end)
<1>4. /\ l \in LiftResults(f) /\ rest \in LiftResults(f)
      /\ c.id \notin ValueIds => l = rest
      /\ c.id \in ValueIds => l = [rest EXCEPT !.values[c.id] = <<c.v>> \o @]
  BY <1>3, LiftTurnIs
<1> HIDE DEF l, rest
<1>5. l.err = rest.err /\ l.to = rest.to
  BY <1>4 DEF LiftResults
<1>6. ASSUME NEW id \in ValueIds
      PROVE  l.values[id] = IF c.id = id THEN <<c.v>> \o rest.values[id] ELSE rest.values[id]
  <2>0. DOMAIN rest.values = ValueIds
    BY <1>4 DEF LiftResults
  <2> HIDE DEF c
  <2>1. CASE c.id \in ValueIds
    <3>1. l.values = [rest.values EXCEPT ![c.id] = <<c.v>> \o @]
      BY <1>4, <2>1 DEF LiftResults
    <3> QED BY <2>0, <2>1, <3>1
  <2>2. CASE c.id \notin ValueIds
    BY <1>4, <2>2
  <2> QED BY <2>1, <2>2
<1> QED BY <1>3, <1>5, <1>6 DEF l, rest, PutInFront

\* Whatever is lifted is the value of a cell of that kind in the body.
LEMMA LiftedFrom ==
  ASSUME NEW f, LegalFile(f), NEW end \in 0 .. Far, NEW body \in Nat, NEW id \in ValueIds
  PROVE  LET s == Lifted(f, body, end).values[id] IN
         /\ IsSeq(s)
         /\ \A x \in Range(s) : \E q \in body .. end - 1 : Header(f, q).id = id /\ x = Header(f, q).v
         /\ s # <<>> => \E q \in body .. end - 1 : Header(f, q).id = id
<1> DEFINE From(p) == {Header(f, q).v : q \in {q \in p .. end - 1 : Header(f, q).id = id}}
           Good == {p \in Nat : Lifted(f, p, end).values[id] \in Seq(From(p))}
<1>0. Far \in Nat /\ end \in Int
  BY ProbeAssumption
<1>n. Nothing[id] = <<>>
  BY DEF Nothing
<1>1. ASSUME NEW p \in Nat, p >= end PROVE p \in Good
  <2>1. Lifted(f, p, end) = [values |-> Nothing, err |-> FALSE, to |-> p]
    BY <1>1, LiftedBehind
  <2>2. Lifted(f, p, end).values[id] = <<>>
    BY <2>1, <1>n
  <2>3. <<>> \in Seq(From(p))
    <3> HIDE DEF From
    <3> QED OBVIOUS
  <2> HIDE DEF From
  <2> QED BY <2>2, <2>3
<1>2. ASSUME NEW p \in Nat, p < end, NextAt(f, p) \in Good PROVE p \in Good
  <2> DEFINE l == Lifted(f, p, end)
             rest == Lifted(f, NextAt(f, p), end)
             c == Header(f, p)
  <2>1. /\ l \in LiftResults(f) /\ rest \in LiftResults(f) /\ NextAt(f, p) \in Nat /\ NextAt(f, p) > p
        /\ \/ l.values = Nothing \/ l = rest
           \/ c.id \in ValueIds /\ l = [rest EXCEPT !.values[c.id] = <<c.v>> \o @]
    <3>1. p < Far
      BY <1>0, <1>2
    <3>2. NextAt(f, p) > p /\ NextAt(f, p) \in Nat
      BY <1>0, <3>1, NextIs DEF NextAt
    <3> QED BY <1>2, <3>2, LiftTurnIs
  <2>2. From(NextAt(f, p)) \subseteq From(p)
    BY <1>0, <2>1
  <2>3. rest.values[id] \in Seq(From(NextAt(f, p)))
    BY <1>2
  <2>4. c.id = id => c.v \in From(p)
    BY <1>0, <1>2
  <2> HIDE DEF From, l, rest
  <2>5. rest.values[id] \in Seq(From(p))
    BY <2>2, <2>3
  <2>6. c.id = id => <<c.v>> \o rest.values[id] \in Seq(From(p))
    <3> HIDE DEF c
    <3> QED BY <2>4, <2>5
  <2>7. DOMAIN rest.values = ValueIds
    BY <2>1 DEF LiftResults
  <2>8. l.values[id] \in Seq(From(p))
    <3>1. CASE l.values = Nothing
      BY <3>1, <1>n
    <3>2. CASE l = rest
      BY <3>2, <2>5
    <3>3. CASE c.id \in ValueIds /\ l = [rest EXCEPT !.values[c.id] = <<c.v>> \o @]
      <4> HIDE DEF c
      <4>1. l.values = [rest.values EXCEPT ![c.id] = <<c.v>> \o @]
        BY <2>1, <3>3 DEF LiftResults
      <4>2. l.values[id] = IF c.id = id THEN <<c.v>> \o rest.values[id] ELSE rest.values[id]
        BY <2>7, <4>1
      <4> QED BY <2>5, <2>6, <4>2
    <3> QED BY <2>1, <3>1, <3>2, <3>3
  <2> QED BY <2>8 DEF l
<1>3. Nat \subseteq Good
  <2> HIDE DEF Good
  <2> QED BY <1>1, <1>2, FileInduction
<1> DEFINE s == Lifted(f, body, end).values[id]
<1>4. s \in Seq(From(body))
  BY <1>3
<1> HIDE DEF s
<1>5. IsSeq(s)
  <2> HIDE DEF From
  <2> QED BY <1>4 DEF IsSeq
<1>6. Range(s) \subseteq From(body) /\ (s # <<>> => From(body) # {})
  <2> HIDE DEF From
  <2> QED BY <1>4 DEF Range
<1> QED BY <1>5, <1>6 DEF s

\* The values are those of cells of these kinds in the body of the master at p.
TakenFrom(f, p, values) ==
  \A id \in ValueIds :
    /\ IsSeq(values[id])
    /\ \A x \in Range(values[id]) :
         \E q \in p + 1 .. p + Header(f, p).size : Header(f, q).id = id /\ x = Header(f, q).v
    /\ values[id] # <<>> => \E q \in p + 1 .. p + Header(f, p).size : Header(f, q).id = id

\* What a master of known size yields.
LEMMA MasterFrom ==
  ASSUME NEW f, LegalFile(f), NEW end \in 0 .. Far, NEW p \in Nat, p < InputLen(f), Header(f, p).size \in Nat
  PROVE  LET r == MasterAt(f, p, end) IN
         /\ r.to \in 0 .. Far /\ r.err \in BOOLEAN /\ (Readable(f, p) => r.to > p)
         /\ TakenFrom(f, p, r.values)
<1> DEFINE r == MasterAt(f, p, end)
           n == Header(f, p).size
           to == Past(p + 1, n)
<1>1. Far \in Nat /\ InputLen(f) \in 0 .. Far /\ n # Unknown /\ p + 1 \in 0 .. Far
  BY ProbeAssumption DEF LegalFile, Unknown
<1>2. CASE ~Readable(f, p)
  <2>1. r = [values |-> Nothing, err |-> TRUE, to |-> p + 1]
    BY <1>1, <1>2 DEF MasterAt
  <2>2. \A id \in ValueIds : r.values[id] = <<>>
    BY <2>1 DEF Nothing
  <2>3. Range(<<>>) = {}
    BY DEF Range
  <2> QED BY <1>1, <1>2, <2>1, <2>2, <2>3, EmptyIs DEF TakenFrom
<1>3. CASE Readable(f, p)
  <2>1. to \in 0 .. Far /\ to <= p + 1 + n
    <3>1. to = IF p + 1 + n <= Far THEN p + 1 + n ELSE Far
      BY <1>1, MinOfTwo DEF Past
    <3> QED BY <1>1, <3>1
  <2>2. r = Lifted(f, p + 1, to)
    BY <1>1, <1>3 DEF MasterAt
  <2> HIDE DEF r
  <2>3. r \in LiftResults(f) /\ r.to \in p + 1 .. Far
    BY <1>1, <2>1, <2>2, LiftedIs
  <2>4. ASSUME NEW id \in ValueIds
        PROVE  /\ IsSeq(r.values[id])
               /\ \A x \in Range(r.values[id]) :
                    \E q \in p + 1 .. p + n : Header(f, q).id = id /\ x = Header(f, q).v
               /\ r.values[id] # <<>> => \E q \in p + 1 .. p + n : Header(f, q).id = id
    <3>1. /\ IsSeq(r.values[id])
          /\ \A x \in Range(r.values[id]) :
               \E q \in p + 1 .. to - 1 : Header(f, q).id = id /\ x = Header(f, q).v
          /\ r.values[id] # <<>> => \E q \in p + 1 .. to - 1 : Header(f, q).id = id
      <4> DEFINE b == p + 1
      <4>1. b \in Nat
        OBVIOUS
      <4> HIDE DEF to, b
      <4>2. LET s == Lifted(f, b, to).values[id] IN
            /\ IsSeq(s)
            /\ \A x \in Range(s) : \E q \in b .. to - 1 : Header(f, q).id = id /\ x = Header(f, q).v
            /\ s # <<>> => \E q \in b .. to - 1 : Header(f, q).id = id
        BY <2>1, <4>1, LiftedFrom
      <4> QED BY <2>2, <4>2 DEF b
    <3>2. p + 1 .. to - 1 \subseteq p + 1 .. p + n
      BY <1>1, <2>1
    <3> QED BY <3>1, <3>2
  <2>5. r.to \in 0 .. Far /\ r.err \in BOOLEAN /\ r.to > p
    BY <1>1, <2>3 DEF LiftResults
  <2> QED BY <2>4, <2>5 DEF r, TakenFrom
<1> QED BY <1>2, <1>3

-----------------------------------------------------------------------------
(* The header in what is left.                                             *)

LEMMA HeaderNowIs ==
  ASSUME layout \in Layouts
  PROVE  /\ ~layout.live =>
              /\ HeaderNow(0) = [id |-> "SeekHead", size |-> 4]
              /\ HeaderNow(1) = Item([id |-> "Info", at |-> 5])
              /\ HeaderNow(2) = Item([id |-> "Tracks", at |-> TracksAt])
              /\ HeaderNow(3) = Patchable
              /\ HeaderNow(4) = IF SeekPatched /\ entry = None THEN Patchable
                                ELSE Item([id |-> "Cues", at |-> IF SeekPatched THEN entry ELSE 0])
         /\ HeaderNow(InfoAt) = [id |-> "Info", size |-> InfoItems + Checks]
         /\ ~layout.strict => HeaderNow(InfoAt + 1) = Crc(IF CrcPatched THEN PatchedInfoBody ELSE InfoBody)
         /\ layout.finalize =>
              HeaderNow(InfoAt + 1 + Checks) =
                IF DurationPatched THEN [id |-> "Duration", size |-> 0, v |-> maxEnd] ELSE Patchable
         /\ HeaderNow(TracksAt - 1) = Item("encoder")
         /\ HeaderNow(TracksAt) = [id |-> "Tracks", size |-> 1 + Checks]
         /\ ~layout.strict => HeaderNow(TracksAt + 1) = Crc(Leaf("Item", "tracks"))
         /\ HeaderNow(SlotAt - 1) = Item("tracks")
<1>1. /\ layout.live \in BOOLEAN /\ layout.strict \in BOOLEAN /\ layout.finalize \in BOOLEAN
      /\ Checks = (IF layout.strict THEN 0 ELSE 1) /\ InfoItems = (IF layout.finalize THEN 2 ELSE 1)
  BY LayoutIs DEF Checks, InfoItems
<1>2. /\ InfoAt \in Nat /\ TracksAt = InfoAt + 1 + Checks + InfoItems /\ SlotAt = TracksAt + 2 + Checks
      /\ (~layout.live => InfoAt = 5)
  BY HeaderCellsAre DEF InfoAt, Offsets
<1>3. /\ CrcAt = InfoAt + 1 /\ DurationAt = InfoAt + 1 + Checks /\ Offsets.Cues = 4
  BY <1>1, <1>2 DEF CrcAt, DurationAt, Offsets
<1>4. /\ DurationPatched => layout.finalize
      /\ CrcPatched => ~layout.strict /\ layout.finalize /\ DurationPatched
      /\ SeekPatched => ~layout.live
  BY DEF DurationPatched, CrcPatched, SeekPatched, Timed
<1>5. ASSUME NEW o \in Nat, ~(SeekPatched /\ o = 4), ~(DurationPatched /\ o = DurationAt), ~(CrcPatched /\ o = CrcAt)
      PROVE  HeaderNow(o) = HeaderCells[o + 1]
  BY <1>3, <1>5 DEF HeaderNow
<1>6. ASSUME ~layout.live
      PROVE  /\ HeaderNow(0) = [id |-> "SeekHead", size |-> 4]
             /\ HeaderNow(1) = Item([id |-> "Info", at |-> 5])
             /\ HeaderNow(2) = Item([id |-> "Tracks", at |-> TracksAt])
             /\ HeaderNow(3) = Patchable
             /\ HeaderNow(4) = IF SeekPatched /\ entry = None THEN Patchable
                               ELSE Item([id |-> "Cues", at |-> IF SeekPatched THEN entry ELSE 0])
  <2>1. \A i \in 1 .. 5 : HeaderCells[i] = SeekHeadOf(TracksAt)[i]
    BY <1>6, HeaderCellsAre
  <2>2. InfoAt = 5 /\ CrcAt = 6 /\ DurationAt >= 6
    BY <1>1, <1>2, <1>3, <1>6
  <2>3. HeaderNow(0) = HeaderCells[1] /\ HeaderNow(1) = HeaderCells[2] /\ HeaderNow(2) = HeaderCells[3]
        /\ HeaderNow(3) = HeaderCells[4]
    BY <1>5, <2>2
  <2> DEFINE m == SeekHeadOf(TracksAt)
  <2>4. /\ m[1] = [id |-> "SeekHead", size |-> 4]
        /\ m[2] = Item([id |-> "Info", at |-> 5])
        /\ m[3] = Item([id |-> "Tracks", at |-> TracksAt])
        /\ m[4] = Patchable
        /\ m[5] = Item([id |-> "Cues", at |-> 0])
    BY SeekHeadIs
  <2> HIDE DEF m
  <2>5. HeaderNow(4) = IF SeekPatched /\ entry = None THEN Patchable
                       ELSE Item([id |-> "Cues", at |-> IF SeekPatched THEN entry ELSE 0])
    <3>1. CASE SeekPatched
      <4>1. DurationAt # 4 /\ CrcAt # 4
        BY <2>2
      <4>2. HeaderNow(4) = IF entry = None THEN Patchable
                           ELSE [id |-> "Item", size |-> 0, v |-> [id |-> "Cues", at |-> entry]]
        BY <1>3, <3>1, <4>1 DEF HeaderNow
      <4> QED BY <3>1, <4>2 DEF Item
    <3>2. CASE ~SeekPatched
      <4>1. HeaderNow(4) = HeaderCells[5]
        BY <1>5, <2>2, <3>2
      <4>2. HeaderCells[5] = m[5]
        BY <2>1 DEF m
      <4> QED BY <2>4, <3>2, <4>1, <4>2
    <3> QED BY <3>1, <3>2
  <2>6. HeaderCells[1] = m[1] /\ HeaderCells[2] = m[2] /\ HeaderCells[3] = m[3] /\ HeaderCells[4] = m[4]
    BY <2>1 DEF m
  <2> QED BY <2>3, <2>4, <2>5, <2>6
<1>7. HeaderNow(InfoAt) = [id |-> "Info", size |-> InfoItems + Checks]
  <2>1. HeaderNow(InfoAt) = HeaderCells[InfoAt + 1]
    BY <1>1, <1>2, <1>3, <1>4, <1>5
  <2> QED BY <2>1, HeaderCellsAre
<1>8. ~layout.strict => HeaderNow(InfoAt + 1) = Crc(IF CrcPatched THEN PatchedInfoBody ELSE InfoBody)
  <2> SUFFICES ASSUME ~layout.strict
               PROVE  HeaderNow(InfoAt + 1) = Crc(IF CrcPatched THEN PatchedInfoBody ELSE InfoBody)
    OBVIOUS
  <2>1. InfoAt + 1 = CrcAt /\ DurationAt # CrcAt /\ (SeekPatched => CrcAt # 4) /\ CrcAt \in Nat
    BY <1>1, <1>2, <1>3, <1>4
  <2>2. CASE CrcPatched
    <3>1. HeaderNow(CrcAt) = [id |-> "Crc", size |-> 0, v |-> PatchedInfoBody]
      BY <1>3, <2>1, <2>2 DEF HeaderNow
    <3> QED BY <2>1, <2>2, <3>1 DEF Crc
  <2>3. CASE ~CrcPatched
    <3>1. HeaderNow(CrcAt) = HeaderCells[CrcAt + 1]
      BY <1>5, <2>1, <2>3
    <3>2. HeaderCells[InfoAt + 2] = Crc(InfoBody) /\ InfoAt + 2 = CrcAt + 1
      BY <1>2, <1>3, HeaderCellsAre
    <3> QED BY <2>1, <2>3, <3>1, <3>2
  <2> QED BY <2>2, <2>3
<1>9. layout.finalize => HeaderNow(InfoAt + 1 + Checks) =
                IF DurationPatched THEN [id |-> "Duration", size |-> 0, v |-> maxEnd] ELSE Patchable
  <2> SUFFICES ASSUME layout.finalize
               PROVE  HeaderNow(DurationAt) =
                        IF DurationPatched THEN [id |-> "Duration", size |-> 0, v |-> maxEnd] ELSE Patchable
    BY <1>3
  <2>1. (CrcPatched => DurationAt # CrcAt) /\ (SeekPatched => DurationAt # 4) /\ DurationAt \in Nat
    BY <1>1, <1>2, <1>3, <1>4
  <2>2. CASE DurationPatched
    BY <1>3, <2>1, <2>2 DEF HeaderNow
  <2>3. CASE ~DurationPatched
    <3>1. HeaderNow(DurationAt) = HeaderCells[DurationAt + 1]
      BY <1>5, <2>1, <2>3
    <3>2. HeaderCells[InfoAt + 2 + Checks] = Patchable /\ InfoAt + 2 + Checks = DurationAt + 1
      BY <1>1, <1>2, <1>3, HeaderCellsAre
    <3> QED BY <2>3, <3>1, <3>2
  <2> QED BY <2>2, <2>3
<1>10. ASSUME NEW o \in Nat, o >= TracksAt - 1
       PROVE  HeaderNow(o) = HeaderCells[o + 1]
  <2>1. (DurationPatched => DurationAt < o) /\ (CrcPatched => CrcAt < o) /\ (SeekPatched => o > 4)
    BY <1>1, <1>2, <1>3, <1>4, <1>10
  <2>2. DurationAt \in Nat /\ CrcAt \in Nat
    BY <1>1, <1>2, <1>3
  <2> QED BY <1>5, <2>1, <2>2
<1>11. /\ HeaderNow(TracksAt - 1) = Item("encoder")
       /\ HeaderNow(TracksAt) = [id |-> "Tracks", size |-> 1 + Checks]
       /\ ~layout.strict => HeaderNow(TracksAt + 1) = Crc(Leaf("Item", "tracks"))
       /\ HeaderNow(SlotAt - 1) = Item("tracks")
  <2>1. TracksAt \in Nat \ {0} /\ SlotAt \in Nat /\ SlotAt - 1 > TracksAt - 1
    BY <1>1, <1>2
  <2>2. HeaderNow(TracksAt - 1) = HeaderCells[TracksAt] /\ HeaderNow(TracksAt) = HeaderCells[TracksAt + 1]
    <3>1. HeaderNow(TracksAt - 1) = HeaderCells[TracksAt - 1 + 1]
      BY <1>10, <2>1
    <3> QED BY <1>10, <2>1, <3>1
  <2>3. HeaderNow(TracksAt + 1) = HeaderCells[TracksAt + 2] /\ HeaderNow(SlotAt - 1) = HeaderCells[SlotAt]
    <3>1. HeaderNow(SlotAt - 1) = HeaderCells[SlotAt - 1 + 1] /\ HeaderNow(TracksAt + 1) = HeaderCells[TracksAt + 1 + 1]
      BY <1>10, <2>1
    <3> QED BY <2>1, <3>1
  <2> QED BY <2>2, <2>3, HeaderCellsAre
<1> QED BY <1>6, <1>7, <1>8, <1>9, <1>11

\* The file that is open is one that a writer left.
LEMMA OpenedIs ==
  ASSUME WriterInv, Opening
  PROVE  /\ layout \in Layouts /\ step \in Steps /\ LegalFile(file) /\ LeftTruly(file.cells) /\ Far \in Nat
         /\ InputLen(file) = Len(file.cells) /\ InputLen(file) \in 0 .. Far /\ InputLen(file) \in Nat
         /\ phase # "start" => SegmentEnd = InputLen(file)
         /\ \A o \in Nat : o < InputLen(file) => Header(file, o) = file.cells[o + 1]
         /\ \A o \in Nat : o >= InputLen(file) => Header(file, o) = NoElement
<1>1. layout \in Layouts /\ step \in Steps /\ Far \in Nat
  BY ProbeAssumption DEF WriterInv, WriterShape
<1>2. LegalFile(file) /\ LeftTruly(file.cells) /\ (phase # "start" => file.dataEnd = InputLen(file))
  BY DEF Opening, FileLeft
<1>3. InputLen(file) \in 0 .. Far /\ InputLen(file) = Len(file.cells)
  BY <1>2 DEF LegalFile, InputLen
<1>4. Min({InputLen(file), InputLen(file)}) = InputLen(file)
  BY <1>1, <1>3, MinOfTwo
<1>5. phase # "start" => SegmentEnd = InputLen(file)
  BY <1>2, <1>4 DEF SegmentEnd
<1>6. ASSUME NEW o \in Nat
      PROVE  Header(file, o) = IF o < InputLen(file) THEN file.cells[o + 1] ELSE NoElement
  BY DEF Header
<1> QED BY <1>1, <1>2, <1>3, <1>5, <1>6

LEMMA HeaderLeftIs ==
  ASSUME WriterInv, Opening, NEW o \in 0 .. SlotAt - 1
  PROVE  /\ Header(file, o) \in {NoElement, HeaderNow(o)}
         /\ TracksHeld(file.cells) => Header(file, o) = HeaderNow(o) /\ o < InputLen(file)
<1>1. /\ layout \in Layouts /\ LeftTruly(file.cells) /\ InputLen(file) = Len(file.cells) /\ InputLen(file) \in Nat
      /\ \A l \in Nat : l < InputLen(file) => Header(file, l) = file.cells[l + 1]
      /\ \A l \in Nat : l >= InputLen(file) => Header(file, l) = NoElement
  BY OpenedIs
<1>2. SlotAt \in Nat /\ o \in Nat /\ o < SlotAt
  BY <1>1, Offs
<1>3. o < InputLen(file) => /\ file.cells[o + 1] \in {NoElement, HeaderNow(o)}
                            /\ TracksHeld(file.cells) => file.cells[o + 1] = HeaderNow(o)
  BY <1>1 DEF LeftTruly, HeaderLeft
<1>4. TracksHeld(file.cells) => o < InputLen(file)
  BY <1>1, <1>2 DEF TracksHeld
<1>5. CASE o < InputLen(file)
  <2>1. Header(file, o) = file.cells[o + 1]
    BY <1>1, <1>2, <1>5
  <2> QED BY <1>3, <1>5, <2>1
<1>6. CASE ~(o < InputLen(file))
  <2>1. Header(file, o) = NoElement
    BY <1>6 DEF Header
  <2> QED BY <1>4, <1>6, <2>1
<1> QED BY <1>5, <1>6

LEMMA SealedFile ==
  ASSUME WriterInv, Opening, Sealed
  PROVE  file.cells = output /\ TracksHeld(file.cells) /\ HeaderEnd <= Len(output) /\ BodyEnd <= Len(output)
<1>1. layout \in Layouts /\ LeftTruly(file.cells)
  BY OpenedIs
<1>2. file.cells = output /\ step # "header"
  BY <1>1 DEF LeftTruly, Sealed
<1>3. HeaderEnd <= BodyEnd /\ BodyEnd <= Len(output) /\ BodyEnd \in Nat /\ Len(output) \in Nat
  BY <1>2, Sizes
<1>4. SlotAt \in Nat \ {0} /\ HeaderEnd \in Nat /\ SlotAt <= HeaderEnd
  BY <1>1, Offs
<1> HIDE DEF BodyEnd
<1> DEFINE o == SlotAt - 1
<1>5. o \in 0 .. SlotAt - 1 /\ o + 1 = SlotAt
  BY <1>4
<1> HIDE DEF o
<1>6. output[o + 1] = HeaderNow(o)
  BY <1>2, <1>5 DEF WriterInv, HeaderHolds
<1>7. Parses(HeaderNow(o))
  BY <1>1, <1>5, HeaderCellIs
<1>8. Parses(output[SlotAt]) /\ SlotAt <= Len(output) /\ HeaderEnd <= Len(output)
  BY <1>3, <1>4, <1>5, <1>6, <1>7
<1> QED BY <1>2, <1>3, <1>8 DEF TracksHeld

\* The masters of the file, where they are.
LEMMA MasterPlace ==
  ASSUME WriterInv, Opening, NEW p \in Nat, p < InputLen(file), Header(file, p).id \in MasterIds
  PROVE  \/ Header(file, p).id = "SeekHead" /\ p = 0 /\ ~layout.live
         \/ Header(file, p).id = "Info" /\ p = InfoAt
         \/ Header(file, p).id = "Tracks" /\ p = TracksAt
         \/ Header(file, p).id = "Cues" /\ p = CuesPlace /\ step \notin {"header", "packets"}
<1>1. MastersInPlace(file.cells) /\ InputLen(file) = Len(file.cells) /\ InputLen(file) \in Nat
      /\ Header(file, p) = file.cells[p + 1]
  BY OpenedIs DEF LeftTruly
<1>2. p \in 0 .. Len(file.cells) - 1
  BY <1>1
<1> QED BY <1>1, <1>2 DEF MastersInPlace

LEMMA CuesLeftIs ==
  ASSUME WriterInv, Opening, NEW p \in Nat, p < InputLen(file), Header(file, p).id = "Cues"
  PROVE  /\ p = CuesPlace /\ step \notin {"header", "packets"} /\ Header(file, p) = CuesElement[1]
         /\ \A i \in 1 .. Len(CuesElement) : Header(file, p + i - 1) \in {NoElement, CuesElement[i]}
         /\ step # "cues" => /\ p + Len(CuesElement) <= InputLen(file)
                             /\ \A i \in 1 .. Len(CuesElement) : Header(file, p + i - 1) = CuesElement[i]
<1>1. /\ LeftTruly(file.cells) /\ InputLen(file) = Len(file.cells) /\ InputLen(file) \in Nat
      /\ \A l \in Nat : l < InputLen(file) => Header(file, l) = file.cells[l + 1]
      /\ \A l \in Nat : l >= InputLen(file) => Header(file, l) = NoElement
  BY OpenedIs
<1>2. p = CuesPlace /\ step \notin {"header", "packets"}
  BY MasterPlace DEF MasterIds
<1>3. file.cells[p + 1].id = "Cues" /\ p < Len(file.cells)
  BY <1>1
<1> DEFINE n == Len(CuesElement)
           c == file.cells
<1>4. /\ \A i \in 1 .. n : p + i <= Len(c) => c[p + i] \in {NoElement, CuesElement[i]}
      /\ c[p + 1] = CuesElement[1]
      /\ step # "cues" => p + n <= Len(c) /\ \A i \in 1 .. n : c[p + i] = CuesElement[i]
  BY <1>1, <1>2, <1>3 DEF LeftTruly, CuesLeft
<1>5. n \in Nat
  BY Sizes
<1> HIDE DEF n, c
<1>6. ASSUME NEW i \in 1 .. n
      PROVE  /\ Header(file, p + i - 1) \in {NoElement, CuesElement[i]}
             /\ step # "cues" => Header(file, p + i - 1) = CuesElement[i]
  <2> DEFINE l == p + i - 1
  <2>1. l \in Nat /\ l + 1 = p + i /\ (l < InputLen(file) <=> p + i <= Len(c))
    BY <1>1, <1>5 DEF c
  <2>2. step # "cues" => p + i <= Len(c)
    BY <1>1, <1>4, <1>5 DEF c
  <2> HIDE DEF l
  <2>3. Header(file, l) = IF p + i <= Len(c) THEN c[p + i] ELSE NoElement
    BY <1>1, <2>1 DEF c
  <2> QED BY <1>4, <2>2, <2>3 DEF l
<1> QED BY <1>1, <1>2, <1>3, <1>4, <1>6 DEF n, c

-----------------------------------------------------------------------------
(* The masters in what is left, and what they yield.                       *)

LEMMA SeekHeadCells ==
  ASSUME WriterInv, Opening, NEW p \in Nat, p < InputLen(file), Header(file, p).id = "SeekHead"
  PROVE  /\ p = 0 /\ ~layout.live /\ InfoAt = 5 /\ Header(file, p) = [id |-> "SeekHead", size |-> 4]
         /\ \A q \in 1 .. 4 : \/ Header(file, q) \in {NoElement, Patchable}
                              \/ \E s \in Range(SeekEntries) : Header(file, q) = Item(s)
<1>1. p = 0 /\ ~layout.live
  BY MasterPlace DEF MasterIds
<1>2. layout \in Layouts
  BY OpenedIs
<1>3. InfoAt = 5 /\ SlotAt \in Nat /\ SlotAt > 6
  BY <1>1, <1>2, Offs
<1>4. Header(file, p) = HeaderNow(0)
  <2>1. 0 \in 0 .. SlotAt - 1
    BY <1>3
  <2>2. Header(file, 0) # NoElement
    BY <1>1 DEF NoElement
  <2> QED BY <1>1, <2>1, <2>2, HeaderLeftIs
<1>5. /\ HeaderNow(0) = [id |-> "SeekHead", size |-> 4]
      /\ HeaderNow(1) = Item([id |-> "Info", at |-> 5])
      /\ HeaderNow(2) = Item([id |-> "Tracks", at |-> TracksAt])
      /\ HeaderNow(3) = Patchable
      /\ HeaderNow(4) = IF SeekPatched /\ entry = None THEN Patchable
                        ELSE Item([id |-> "Cues", at |-> IF SeekPatched THEN entry ELSE 0])
  BY <1>1, <1>2, HeaderNowIs
<1> DEFINE info == [id |-> "Info", at |-> 5]
           tracks == [id |-> "Tracks", at |-> TracksAt]
           cues == [id |-> "Cues", at |-> IF SeekPatched THEN entry ELSE 0]
<1>6. SeekEntries = IF SeekPatched /\ entry = None THEN <<info, tracks>> ELSE <<info, tracks, cues>>
  BY <1>1 DEF SeekEntries, Offsets
<1> HIDE DEF info, tracks, cues
<1>7. info \in Range(SeekEntries) /\ tracks \in Range(SeekEntries)
      /\ (~(SeekPatched /\ entry = None) => cues \in Range(SeekEntries))
  <2>1. Range(<<info, tracks>>) = {info, tracks} /\ Range(<<info, tracks, cues>>) = {info, tracks, cues}
    BY DEF Range
  <2> QED BY <1>6, <2>1
<1>8. ASSUME NEW q \in 1 .. 4
      PROVE  \/ Header(file, q) \in {NoElement, Patchable}
             \/ \E s \in Range(SeekEntries) : Header(file, q) = Item(s)
  <2>1. Header(file, q) \in {NoElement, HeaderNow(q)}
    <3>1. q \in 0 .. SlotAt - 1
      BY <1>3
    <3> QED BY <3>1, HeaderLeftIs
  <2>2. q = 1 \/ q = 2 \/ q = 3 \/ q = 4
    OBVIOUS
  <2>3. HeaderNow(q) = Patchable \/ \E s \in Range(SeekEntries) : HeaderNow(q) = Item(s)
    BY <1>5, <1>7, <2>2 DEF info, tracks, cues
  <2> QED BY <2>1, <2>3
<1> QED BY <1>1, <1>3, <1>4, <1>5, <1>8

LEMMA InfoCells ==
  ASSUME WriterInv, Opening, NEW p \in Nat, p < InputLen(file), Header(file, p).id = "Info"
  PROVE  /\ p = InfoAt /\ Header(file, p) = [id |-> "Info", size |-> InfoItems + Checks]
         /\ TracksAt = p + 1 + InfoItems + Checks
<1>1. p = InfoAt /\ layout \in Layouts
  BY MasterPlace, OpenedIs DEF MasterIds
<1>2. InfoAt \in 0 .. SlotAt - 1
  BY <1>1, Offs
<1>3. Header(file, p) # NoElement
  BY DEF NoElement
<1>4. Header(file, p) = HeaderNow(InfoAt)
  BY <1>1, <1>2, <1>3, HeaderLeftIs
<1>5. TracksAt = InfoAt + 1 + Checks + InfoItems /\ InfoAt \in Nat /\ Checks \in Nat /\ InfoItems \in Nat
  BY <1>1, HeaderCellsAre DEF Checks, InfoItems
<1> QED BY <1>1, <1>4, <1>5, HeaderNowIs

LEMMA TracksCells ==
  ASSUME WriterInv, Opening, NEW p \in Nat, p < InputLen(file), Header(file, p).id = "Tracks"
  PROVE  /\ p = TracksAt /\ Header(file, p) = [id |-> "Tracks", size |-> 1 + Checks]
         /\ SlotAt = p + 2 + Checks
         /\ \A q \in p + 1 .. p + 1 + Checks : Header(file, q).id = "Item" => TracksHeld(file.cells)
<1>1. p = TracksAt /\ layout \in Layouts
  BY MasterPlace, OpenedIs DEF MasterIds
<1>2. TracksAt \in 0 .. SlotAt - 1
  BY <1>1, Offs
<1>3. Header(file, p) # NoElement
  BY DEF NoElement
<1>4. Header(file, p) = HeaderNow(TracksAt)
  BY <1>1, <1>2, <1>3, HeaderLeftIs
<1>5. SlotAt = TracksAt + 2 + Checks /\ Checks = IF layout.strict THEN 0 ELSE 1
  BY <1>1, HeaderCellsAre DEF Checks
<1>6. ASSUME NEW q \in p + 1 .. p + 1 + Checks, Header(file, q).id = "Item"
      PROVE  TracksHeld(file.cells)
  <2>1. q \in 0 .. SlotAt - 1
    BY <1>1, <1>2, <1>5
  <2>2. Header(file, q) = HeaderNow(q)
    BY <1>6, <2>1, HeaderLeftIs DEF NoElement
  <2>3. q = SlotAt - 1
    <3> SUFFICES ASSUME q # SlotAt - 1 PROVE FALSE
      OBVIOUS
    <3>1. ~layout.strict /\ q = TracksAt + 1
      BY <1>1, <1>2, <1>5, <2>1
    <3>2. HeaderNow(q) = Crc(Leaf("Item", "tracks"))
      BY <1>1, <3>1, HeaderNowIs
    <3> QED BY <1>6, <2>2, <3>2 DEF Crc
  <2>4. InputLen(file) = Len(file.cells) /\ InputLen(file) \in Nat /\ Header(file, q).id # "Bad" /\ q \in Nat
        /\ (q < InputLen(file) => Header(file, q) = file.cells[q + 1])
        /\ (q >= InputLen(file) => Header(file, q) = NoElement)
    BY <1>6, <2>1, OpenedIs
  <2>5. q < InputLen(file)
    BY <2>4 DEF NoElement
  <2>6. SlotAt = q + 1 /\ file.cells[q + 1].id # "Bad" /\ q + 1 <= Len(file.cells)
    BY <1>1, <1>2, <2>3, <2>4, <2>5, Offs
  <2> QED BY <2>6 DEF TracksHeld, Parses
<1> QED BY <1>1, <1>4, <1>5, <1>6, HeaderNowIs

LEMMA CuesCells ==
  ASSUME WriterInv, Opening, NEW p \in Nat, p < InputLen(file), Header(file, p).id = "Cues"
  PROVE  /\ p = CuesPlace /\ step \notin {"header", "packets"}
         /\ Header(file, p) = [id |-> "Cues", size |-> Len(index) + Checks]
         /\ \A q \in p + 1 .. p + Len(index) + Checks :
              Header(file, q).id = "Item" => Header(file, q).v \in Range(index)
<1>1. layout \in Layouts /\ index \in Seq(Range(index)) /\ Checks \in {0, 1} /\ Len(index) \in Nat
  BY OpenedIs, Sizes DEF WriterInv, WriterShape, Checks
<1>2. /\ p = CuesPlace /\ step \notin {"header", "packets"} /\ Header(file, p) = CuesElement[1]
      /\ \A i \in 1 .. Len(CuesElement) : Header(file, p + i - 1) \in {NoElement, CuesElement[i]}
  BY CuesLeftIs
<1>3. /\ Len(CuesElement) = Len(index) + 1 + Checks
      /\ CuesElement[1] = [id |-> "Cues", size |-> Len(index) + Checks]
      /\ ~layout.strict => CuesElement[2] = Crc(CueItems)
      /\ \A i \in Checks + 2 .. Len(index) + 1 + Checks : CuesElement[i] = Item(index[i - 1 - Checks])
  BY <1>1, CuesElementIs
<1>4. ASSUME NEW q \in p + 1 .. p + Len(index) + Checks, Header(file, q).id = "Item"
      PROVE  Header(file, q).v \in Range(index)
  <2> DEFINE i == q - p + 1
  <2>1. i \in 2 .. Len(index) + 1 + Checks /\ i \in 1 .. Len(CuesElement) /\ p + i - 1 = q
    BY <1>1, <1>3
  <2> HIDE DEF i
  <2>2. Header(file, q) = CuesElement[i]
    <3>1. Header(file, q) \in {NoElement, CuesElement[i]}
      BY <1>2, <2>1
    <3> QED BY <1>4, <3>1 DEF NoElement
  <2>3. i >= Checks + 2
    <3> SUFFICES ASSUME ~(i >= Checks + 2) PROVE FALSE
      OBVIOUS
    <3>1. i = 2 /\ ~layout.strict
      BY <1>1, <2>1 DEF Checks
    <3>2. CuesElement[i] = Crc(CueItems)
      BY <1>3, <3>1
    <3> QED BY <1>4, <2>2, <3>2 DEF Crc
  <2>4. CuesElement[i] = Item(index[i - 1 - Checks])
    BY <1>1, <1>3, <2>1, <2>3
  <2>5. i - 1 - Checks \in 1 .. Len(index) /\ DOMAIN index = 1 .. Len(index)
    BY <1>1, <2>1, <2>3
  <2>6. index[i - 1 - Checks] \in Range(index)
    BY <2>5 DEF Range
  <2> QED BY <2>2, <2>4, <2>6 DEF Item
<1> QED BY <1>2, <1>3, <1>4

\* What a master yields is what the writer put there.
LEMMA MasterLeft ==
  ASSUME WriterInv, Opening, phase # "start",
         NEW p \in Nat, p < InputLen(file), Header(file, p).id \in MasterIds
  PROVE  LET r == MasterAt(file, p, SegmentEnd)
             id == Header(file, p).id IN
         /\ Header(file, p).size \in Nat /\ r.to \in 0 .. Far /\ r.err \in BOOLEAN
         /\ IsSeq(r.values["Item"]) /\ IsSeq(r.values["Duration"])
         /\ id = "SeekHead" => Range(r.values["Item"]) \subseteq Range(SeekEntries)
         /\ id = "Cues" => /\ Range(r.values["Item"]) \subseteq Range(index)
                           /\ step \notin {"header", "packets"}
         /\ id = "Tracks" /\ r.values["Item"] # <<>> => TracksHeld(file.cells)
         /\ ~Sealed => r.values["Duration"] = <<>>
<1> DEFINE r == MasterAt(file, p, SegmentEnd)
           h == Header(file, p)
<1>1. /\ layout \in Layouts /\ LegalFile(file) /\ LeftTruly(file.cells) /\ SegmentEnd \in 0 .. Far
      /\ Checks \in Nat /\ InfoItems \in Nat /\ Len(index) \in Nat
  BY OpenedIs, Sizes DEF Checks, InfoItems
<1>2. h.id = "SeekHead" \/ h.id = "Info" \/ h.id = "Tracks" \/ h.id = "Cues"
  BY MasterPlace
<1>3. h.size \in Nat
  <2>1. h.id = "SeekHead" => h = [id |-> "SeekHead", size |-> 4]
    BY SeekHeadCells
  <2>2. h.id = "Info" => h = [id |-> "Info", size |-> InfoItems + Checks]
    BY InfoCells
  <2>3. h.id = "Tracks" => h = [id |-> "Tracks", size |-> 1 + Checks]
    BY TracksCells
  <2>4. h.id = "Cues" => h = [id |-> "Cues", size |-> Len(index) + Checks]
    BY CuesCells
  <2> HIDE DEF h
  <2> QED BY <1>1, <1>2, <2>1, <2>2, <2>3, <2>4
<1>4. /\ r.to \in 0 .. Far /\ r.err \in BOOLEAN
      /\ \A id \in ValueIds :
           /\ IsSeq(r.values[id])
           /\ \A x \in Range(r.values[id]) :
                \E q \in p + 1 .. p + h.size : Header(file, q).id = id /\ x = Header(file, q).v
           /\ r.values[id] # <<>> => \E q \in p + 1 .. p + h.size : Header(file, q).id = id
  <2>1. r.to \in 0 .. Far /\ r.err \in BOOLEAN /\ TakenFrom(file, p, r.values)
    BY <1>1, <1>3, MasterFrom
  <2> HIDE DEF r
  <2> QED BY <2>1 DEF TakenFrom
<1> HIDE DEF r
<1>5. "Item" \in ValueIds /\ "Duration" \in ValueIds
  BY DEF ValueIds
<1>6. h.id = "SeekHead" => Range(r.values["Item"]) \subseteq Range(SeekEntries)
  <2> SUFFICES ASSUME h.id = "SeekHead", NEW x \in Range(r.values["Item"])
               PROVE  x \in Range(SeekEntries)
    OBVIOUS
  <2>1. PICK q \in p + 1 .. p + h.size : Header(file, q).id = "Item" /\ x = Header(file, q).v
    BY <1>4, <1>5
  <2>2. p = 0 /\ h.size = 4
    BY SeekHeadCells
  <2>3. \/ Header(file, q) \in {NoElement, Patchable}
        \/ \E s \in Range(SeekEntries) : Header(file, q) = Item(s)
    BY <2>2, SeekHeadCells
  <2> QED BY <2>1, <2>3 DEF NoElement, Patchable, Item
<1>7. h.id = "Cues" => Range(r.values["Item"]) \subseteq Range(index) /\ step \notin {"header", "packets"}
  <2> SUFFICES ASSUME h.id = "Cues"
               PROVE  Range(r.values["Item"]) \subseteq Range(index) /\ step \notin {"header", "packets"}
    OBVIOUS
  <2>1. h.size = Len(index) + Checks /\ step \notin {"header", "packets"}
        /\ \A q \in p + 1 .. p + Len(index) + Checks :
              Header(file, q).id = "Item" => Header(file, q).v \in Range(index)
    BY CuesCells
  <2>2. p + h.size = p + Len(index) + Checks
    BY <1>1, <2>1
  <2>3. ASSUME NEW x \in Range(r.values["Item"])
        PROVE  x \in Range(index)
    <3>1. PICK q \in p + 1 .. p + h.size : Header(file, q).id = "Item" /\ x = Header(file, q).v
      BY <1>4, <1>5
    <3> QED BY <2>1, <2>2, <3>1
  <2> QED BY <2>1, <2>3
<1>8. h.id = "Tracks" /\ r.values["Item"] # <<>> => TracksHeld(file.cells)
  <2> SUFFICES ASSUME h.id = "Tracks", r.values["Item"] # <<>>
               PROVE  TracksHeld(file.cells)
    OBVIOUS
  <2>1. PICK q \in p + 1 .. p + h.size : Header(file, q).id = "Item"
    BY <1>4, <1>5
  <2>2. h.size = 1 + Checks
        /\ \A l \in p + 1 .. p + 1 + Checks : Header(file, l).id = "Item" => TracksHeld(file.cells)
    BY TracksCells
  <2>3. p + h.size = p + 1 + Checks
    BY <1>1, <2>2
  <2> QED BY <2>1, <2>2, <2>3
<1>9. ~Sealed => r.values["Duration"] = <<>>
  <2> SUFFICES ASSUME ~Sealed, r.values["Duration"] # <<>>
               PROVE  FALSE
    OBVIOUS
  <2>1. PICK q \in p + 1 .. p + h.size : Header(file, q).id = "Duration"
    BY <1>4, <1>5
  <2>2. q \in Nat /\ (q < InputLen(file) => Header(file, q) = file.cells[q + 1])
        /\ (q >= InputLen(file) => Header(file, q) = NoElement)
        /\ InputLen(file) \in Nat /\ InputLen(file) = Len(file.cells)
    BY <1>3, OpenedIs
  <2>3. q < InputLen(file)
    BY <2>1, <2>2 DEF NoElement
  <2>4. q + 1 \in 1 .. Len(file.cells) /\ file.cells[q + 1].id = "Duration"
    BY <2>1, <2>2, <2>3
  <2>5. DurationPatched
    BY <1>1, <2>4 DEF LeftTruly, CellsLegal
  <2> QED BY <2>5 DEF DurationPatched, Sealed
<1> QED BY <1>3, <1>4, <1>5, <1>6, <1>7, <1>8, <1>9 DEF r

-----------------------------------------------------------------------------
(* The checksums of what is left.                                          *)

LEMMA SliceIs ==
  ASSUME NEW s, IsSeq(s), NEW k \in Nat \ {0}, NEW n \in Nat, k + n <= Len(s) + 1
  PROVE  LET t == SubSeq(s, k, k + n - 1) IN
         IsSeq(t) /\ Len(t) = n /\ \A i \in 1 .. n : t[i] = s[k + i - 1]
<1> DEFINE S == {s[i] : i \in 1 .. Len(s)}
           t == SubSeq(s, k, k + n - 1)
<1>1. s \in Seq(S) /\ Len(s) \in Nat
  BY DEF IsSeq
<1> HIDE DEF S
<1>2. t \in Seq(S) /\ Len(t) = n /\ \A i \in 1 .. n : t[i] = s[k + i - 1]
  BY <1>1
<1> HIDE DEF t
<1>3. IsSeq(t)
  BY <1>2 DEF IsSeq
<1> QED BY <1>2, <1>3 DEF t

LEMMA TailIs ==
  ASSUME NEW s, IsSeq(s), Len(s) > 0
  PROVE  IsSeq(Tail(s)) /\ Len(Tail(s)) = Len(s) - 1 /\ \A i \in 1 .. Len(s) - 1 : Tail(s)[i] = s[i + 1]
<1> DEFINE S == {s[i] : i \in 1 .. Len(s)}
           t == Tail(s)
<1>1. s \in Seq(S) /\ Len(s) \in Nat
  BY DEF IsSeq
<1> HIDE DEF S
<1>2. t \in Seq(S) /\ Len(t) = Len(s) - 1 /\ \A i \in 1 .. Len(s) - 1 : t[i] = s[i + 1]
  BY <1>1
<1> HIDE DEF t
<1>3. IsSeq(t)
  BY <1>2 DEF IsSeq
<1> QED BY <1>2, <1>3 DEF t

\* t is what follows the checksum in the master at p.
ChecksumOver(f, p, t) ==
  LET n == Header(f, p).size IN
  /\ IsSeq(t) /\ Len(t) = n - 1 /\ \A i \in 1 .. n - 1 : t[i] = f.cells[p + 2 + i]
  /\ Checksum(f, p) = <<[id |-> Header(f, p).id, valid |-> f.cells[p + 2].v = t]>>

LEMMA ChecksumIs ==
  ASSUME NEW f, IsSeq(f.cells), NEW p \in Nat, Header(f, p).size \in Nat,
         p + 1 + Header(f, p).size <= Len(f.cells)
  PROVE  LET n == Header(f, p).size IN
         /\ n = 0 \/ f.cells[p + 2].id # "Crc" => Checksum(f, p) = <<>>
         /\ n # 0 /\ f.cells[p + 2].id = "Crc" => \E t : ChecksumOver(f, p, t)
<1> DEFINE n == Header(f, p).size
           body == SubSeq(f.cells, p + 2, p + 1 + n)
<1>1. IsSeq(body) /\ Len(body) = n /\ \A i \in 1 .. n : body[i] = f.cells[p + 1 + i]
  <2> DEFINE k == p + 2
             s == f.cells
             m == n
             t == SubSeq(s, k, k + m - 1)
  <2>0. Len(s) \in Nat /\ m \in Nat /\ p + 1 + m <= Len(s) /\ n = m
    BY DEF IsSeq
  <2> HIDE DEF s, m, n
  <2>1. k \in Nat \ {0} /\ m \in Nat /\ k + m <= Len(s) + 1 /\ IsSeq(s) /\ k + m - 1 = p + 1 + n
    BY <2>0 DEF s
  <2> HIDE DEF k, s, m
  <2>2. IsSeq(t) /\ Len(t) = m /\ \A i \in 1 .. m : t[i] = s[k + i - 1]
    BY <2>1, SliceIs
  <2>3. t = body
    BY <2>1 DEF k, s, m
  <2>4. \A i \in 1 .. m : k + i - 1 = p + 1 + i
    BY <2>1 DEF k
  <2> QED BY <2>2, <2>3, <2>4 DEF s, m
<1>2. Checksum(f, p) = IF body # <<>> /\ body[1].id = "Crc"
                       THEN <<[id |-> Header(f, p).id, valid |-> body[1].v = Tail(body)]>> ELSE <<>>
  BY DEF Checksum
<1> HIDE DEF body, n
<1>3. n \in Nat
  BY DEF n
<1>4. n = 0 => body = <<>>
  BY <1>1, SameSeqs, EmptyIs
<1>5. n # 0 => body # <<>> /\ body[1] = f.cells[p + 2] /\ 1 \in 1 .. n
  <2> SUFFICES ASSUME n # 0 PROVE body # <<>> /\ body[1] = f.cells[p + 2] /\ 1 \in 1 .. n
    OBVIOUS
  <2>1. 1 \in 1 .. n /\ p + 1 + 1 = p + 2
    BY <1>3
  <2>2. Len(body) # 0
    BY <1>1
  <2> QED BY <1>1, <2>1, <2>2, EmptyIs
<1>6. n = 0 \/ f.cells[p + 2].id # "Crc" => Checksum(f, p) = <<>>
  BY <1>2, <1>4, <1>5
<1>7. ASSUME n # 0, f.cells[p + 2].id = "Crc"
      PROVE  \E t : ChecksumOver(f, p, t)
  <2> DEFINE t == Tail(body)
  <2>1. IsSeq(t) /\ Len(t) = n - 1 /\ \A i \in 1 .. n - 1 : t[i] = body[i + 1]
    BY <1>1, <1>3, <1>7, TailIs
  <2>2. \A i \in 1 .. n - 1 : i + 1 \in 1 .. n /\ p + 1 + (i + 1) = p + 2 + i
    BY <1>3
  <2>3. \A i \in 1 .. n - 1 : t[i] = f.cells[p + 2 + i]
    BY <1>1, <2>1, <2>2
  <2>4. Checksum(f, p) = <<[id |-> Header(f, p).id, valid |-> f.cells[p + 2].v = t]>>
    BY <1>2, <1>5, <1>7
  <2> HIDE DEF t
  <2>5. ChecksumOver(f, p, t)
    BY <2>1, <2>3, <2>4 DEF ChecksumOver, n
  <2> QED BY <2>5
<1> QED BY <1>6, <1>7 DEF n

LEMMA NoChecksum ==
  ASSUME NEW f, IsSeq(f.cells), NEW p \in Nat, Header(f, p).size \in Nat,
         p + 1 + Header(f, p).size <= Len(f.cells), Header(f, p).size # 0 => Header(f, p + 1).id # "Crc"
  PROVE  Checksum(f, p) = <<>>
<1>1. CASE Header(f, p).size = 0
  BY <1>1, ChecksumIs
<1>2. CASE Header(f, p).size # 0
  <2>1. Len(f.cells) \in Nat
    BY DEF IsSeq
  <2> DEFINE n == Header(f, p).size
  <2>2. n \in Nat /\ n # 0 /\ p + 1 + n <= Len(f.cells)
    BY <1>2
  <2> HIDE DEF n
  <2>3. p + 1 < Len(f.cells) /\ p + 1 + 1 = p + 2
    BY <2>1, <2>2
  <2>4. Header(f, p + 1) = f.cells[p + 2]
    BY <2>3 DEF Header, InputLen
  <2> QED BY <1>2, <2>4, ChecksumIs
<1> QED BY <1>1, <1>2

\* A checksum over the very cells that follow it is right.
LEMMA RightChecksum ==
  ASSUME NEW f, IsSeq(f.cells), NEW p \in Nat, NEW body, IsSeq(body), Header(f, p).size = Len(body) + 1,
         p + 2 + Len(body) <= Len(f.cells), Header(f, p + 1) = Crc(body),
         \A i \in 1 .. Len(body) : Header(f, p + 1 + i) = body[i]
  PROVE  Checksum(f, p) = <<[id |-> Header(f, p).id, valid |-> TRUE]>>
<1> DEFINE n == Header(f, p).size
           l == Len(body)
<1>1. l \in Nat /\ n = l + 1 /\ n \in Nat /\ n # 0 /\ Len(f.cells) \in Nat /\ p + 1 + n <= Len(f.cells)
  BY DEF IsSeq
<1>2. f.cells[p + 2] = Crc(body)
  <2>1. p + 1 < Len(f.cells) /\ p + 1 + 1 = p + 2
    BY <1>1
  <2> QED BY <2>1 DEF Header, InputLen
<1>0. f.cells[p + 2].id = "Crc" /\ f.cells[p + 2].v = body
  BY <1>2 DEF Crc
<1>c. PICK t : ChecksumOver(f, p, t)
  BY <1>0, <1>1, ChecksumIs
<1>3. /\ IsSeq(t) /\ Len(t) = n - 1 /\ \A i \in 1 .. n - 1 : t[i] = f.cells[p + 2 + i]
      /\ Checksum(f, p) = <<[id |-> Header(f, p).id, valid |-> f.cells[p + 2].v = t]>>
  BY <1>c DEF ChecksumOver
<1> HIDE DEF n
<1>4. ASSUME NEW i \in 1 .. l PROVE t[i] = body[i]
  <2>1. t[i] = f.cells[p + 2 + i]
    BY <1>1, <1>3
  <2>2. p + 1 + i < Len(f.cells) /\ p + 1 + i + 1 = p + 2 + i
    BY <1>1
  <2>3. Header(f, p + 1 + i) = f.cells[p + 2 + i]
    BY <2>2 DEF Header, InputLen
  <2> QED BY <2>1, <2>3
<1>5. t = body
  <2>1. Len(t) = Len(body)
    BY <1>1, <1>3
  <2> QED BY <1>3, <1>4, <2>1, SameSeqs
<1> DEFINE b == f.cells[p + 2].v = t
<1>6. b = TRUE
  BY <1>0, <1>5
<1>7. Checksum(f, p) = <<[id |-> Header(f, p).id, valid |-> b]>>
  BY <1>3
<1> HIDE DEF b
<1> QED BY <1>6, <1>7

LEMMA SomeChecksum ==
  ASSUME NEW f, NEW p
  PROVE  Checksum(f, p) = <<>> \/ \E v : Checksum(f, p) = <<[id |-> Header(f, p).id, valid |-> v]>>
BY DEF Checksum

\* The patched Info, with the duration of which it says the checksum.
LEMMA PatchedInfoBodyIs ==
  ASSUME layout.finalize \in BOOLEAN, layout.finalize
  PROVE  /\ IsSeq(PatchedInfoBody) /\ Len(PatchedInfoBody) = 2
         /\ PatchedInfoBody[1] = [id |-> "Duration", size |-> 0, v |-> maxEnd]
         /\ PatchedInfoBody[2] = Item("encoder")
<1> DEFINE t == Tail(InfoBody)
           d == [id |-> "Duration", size |-> 0, v |-> maxEnd]
<1>1. IsSeq(InfoBody) /\ Len(InfoBody) = 2 /\ InfoBody[2] = Item("encoder")
  BY InfoBodyIs DEF InfoItems
<1>2. IsSeq(t) /\ Len(t) = 1 /\ t[1] = Item("encoder")
  <2>1. Len(InfoBody) > 0 /\ 1 \in 1 .. Len(InfoBody) - 1 /\ Len(InfoBody) - 1 = 1
    BY <1>1
  <2> QED BY <1>1, <2>1, TailIs
<1>4. PatchedInfoBody = <<d>> \o t
  BY DEF PatchedInfoBody, Leaf
<1> HIDE DEF t
<1>5. IsSeq(<<d>> \o t) /\ Len(<<d>> \o t) = 2 /\ (<<d>> \o t)[1] = d
  <2> HIDE DEF d
  <2>1. IsSeq(<<d>> \o t) /\ (<<d>> \o t)[1] = d
    BY <1>2, ConsIs
  <2>2. Len(<<d>> \o t) = Len(t) + 1
    <3>1. IsSeq(t)
      BY <1>2
    <3> QED BY <3>1, ConsIs
  <2> QED BY <1>2, <2>1, <2>2
<1>7. (<<d>> \o t)[2] = t[1]
  <2> HIDE DEF d
  <2>1. 2 \in 2 .. Len(t) + 1 /\ 2 - 1 = 1
    BY <1>2
  <2> QED BY <1>2, <2>1, ConsIs
<1> QED BY <1>2, <1>4, <1>5, <1>7

\* A checksum is found right, unless the crash was in writing it.
LEMMA ChecksumLeft ==
  ASSUME WriterInv, Opening, NEW p \in Nat, p < InputLen(file), Header(file, p).id \in MasterIds,
         TracksHeld(file.cells), NEW c \in Range(Checksum(file, p))
  PROVE  ChecksumIsTrue(c)
<1> DEFINE h == Header(file, p)
           Truly == Checksum(file, p) = <<>> \/ Checksum(file, p) = <<[id |-> h.id, valid |-> TRUE]>>
<1>1. /\ layout \in Layouts /\ IsSeq(file.cells) /\ Far \in Nat /\ Checks = (IF layout.strict THEN 0 ELSE 1)
      /\ InputLen(file) = Len(file.cells) /\ InputLen(file) \in Nat /\ SlotAt <= InputLen(file) /\ SlotAt \in Nat
      /\ InfoAt \in Nat /\ TracksAt \in Nat /\ InfoAt < TracksAt /\ TracksAt < SlotAt
      /\ InfoItems = (IF layout.finalize THEN 2 ELSE 1)
  BY OpenedIs, Offs DEF LeftTruly, TracksHeld, Checks, InfoItems
<1>2. \A o \in 0 .. SlotAt - 1 : Header(file, o) = HeaderNow(o)
  BY HeaderLeftIs
<1>3. Truly => ChecksumIsTrue(c)
  <2> SUFFICES ASSUME Truly PROVE ChecksumIsTrue(c)
    OBVIOUS
  <2> DEFINE e == [id |-> h.id, valid |-> TRUE]
  <2>0. Checksum(file, p) = <<>> \/ Checksum(file, p) = <<e>>
    OBVIOUS
  <2> HIDE DEF e
  <2>1. Range(<<>>) = {} /\ Range(<<e>>) = {e}
    BY DEF Range
  <2>2. c = e
    BY <2>0, <2>1
  <2> QED BY <2>2 DEF ChecksumIsTrue, e
<1>4. c.id = h.id
  <2>1. PICK v : Checksum(file, p) = <<[id |-> h.id, valid |-> v]>>
    <3>1. Range(<<>>) = {}
      BY DEF Range
    <3> QED BY <3>1, SomeChecksum
  <2> DEFINE e == [id |-> h.id, valid |-> v]
  <2> HIDE DEF e
  <2>2. Range(<<e>>) = {e}
    BY DEF Range
  <2>3. c = e
    BY <2>1, <2>2 DEF e
  <2> QED BY <2>3 DEF e
<1>5. CASE h.id = "SeekHead"
  <2>1. p = 0 /\ ~layout.live /\ h.size = 4 /\ SlotAt > 6
    BY <1>1, <1>5, SeekHeadCells, Offs
  <2>2. Header(file, 1) = HeaderNow(1) /\ HeaderNow(1) = Item([id |-> "Info", at |-> 5])
    <3>1. 1 \in 0 .. SlotAt - 1
      BY <1>1, <2>1
    <3> QED BY <1>1, <1>2, <2>1, <3>1, HeaderNowIs
  <2>3. Header(file, p + 1).id # "Crc" /\ h.size \in Nat /\ p + 1 + h.size <= Len(file.cells)
    BY <1>1, <2>1, <2>2 DEF Item
  <2>4. Checksum(file, p) = <<>>
    BY <1>1, <2>3, NoChecksum
  <2> QED BY <1>3, <2>4
<1>6. CASE h.id = "Info"
  <2>1. p = InfoAt /\ h.size = InfoItems + Checks /\ TracksAt = p + 1 + InfoItems + Checks
    BY <1>6, InfoCells
  <2>2. p \in Nat /\ h.size \in Nat /\ p + 1 + h.size <= Len(file.cells) /\ p + 1 + h.size = TracksAt
    BY <1>1, <2>1
  <2>3. /\ Header(file, p + 1) = HeaderNow(InfoAt + 1)
        /\ Header(file, p + 1 + Checks) = HeaderNow(InfoAt + 1 + Checks)
        /\ Header(file, TracksAt - 1) = HeaderNow(TracksAt - 1)
    <3>1. InfoAt + 1 \in 0 .. SlotAt - 1 /\ InfoAt + 1 + Checks \in 0 .. SlotAt - 1 /\ TracksAt - 1 \in 0 .. SlotAt - 1
      BY <1>1, <2>1, <2>2
    <3> QED BY <1>2, <2>1, <3>1
  <2>4. CASE layout.strict
    <3>1. layout.finalize \in BOOLEAN /\ Checks = 0 /\ InfoAt + 1 + 0 = InfoAt + 1
      BY <1>1, <2>4, LayoutIs
    <3>2. layout.finalize => Header(file, p + 1).id # "Crc"
      BY <1>1, <2>3, <2>4, <3>1, HeaderNowIs DEF Patchable
    <3>3. ~layout.finalize => Header(file, p + 1).id # "Crc"
      <4>1. ~layout.finalize => TracksAt - 1 = p + 1
        BY <1>1, <2>1, <3>1
      <4> QED BY <1>1, <2>3, <4>1, HeaderNowIs DEF Item
    <3>4. Checksum(file, p) = <<>>
      BY <1>1, <2>2, <3>1, <3>2, <3>3, NoChecksum
    <3> QED BY <1>3, <3>4
  <2>5. CASE ~layout.strict /\ step = "crc"
    BY <1>4, <1>6, <2>5 DEF ChecksumIsTrue
  <2>6. CASE ~layout.strict /\ step # "crc"
    <3> DEFINE body == IF CrcPatched THEN PatchedInfoBody ELSE InfoBody
    <3>1. Checks = 1 /\ layout.finalize \in BOOLEAN /\ (CrcPatched <=> DurationPatched)
      BY <1>1, <2>6, LayoutIs DEF CrcPatched, DurationPatched
    <3>2. (CrcPatched => layout.finalize) /\ (~layout.finalize => ~CrcPatched)
      BY <3>1 DEF CrcPatched, Timed
    <3>3. /\ IsSeq(body) /\ Len(body) = InfoItems
          /\ layout.finalize =>
               body[1] = IF CrcPatched THEN [id |-> "Duration", size |-> 0, v |-> maxEnd] ELSE Patchable
          /\ body[InfoItems] = Item("encoder")
      BY <1>1, <3>1, <3>2, InfoBodyIs, PatchedInfoBodyIs
    <3>4. Header(file, p + 1) = Crc(body)
      BY <1>1, <2>3, <2>6, HeaderNowIs
    <3> HIDE DEF body
    <3>5. \A i \in 1 .. Len(body) : Header(file, p + 1 + i) = body[i]
      <4>1. Header(file, p + 1 + InfoItems) = Item("encoder")
        <5>1. p + 1 + InfoItems = TracksAt - 1
          BY <1>1, <2>1, <3>1
        <5> QED BY <1>1, <2>3, <5>1, HeaderNowIs
      <4>2. layout.finalize => Header(file, p + 1 + 1) = body[1]
        BY <1>1, <2>3, <3>1, <3>3, HeaderNowIs
      <4>3. \A i \in 1 .. Len(body) : i = InfoItems \/ (layout.finalize /\ i = 1)
        BY <1>1, <3>1, <3>3
      <4> QED BY <3>3, <4>1, <4>2, <4>3
    <3>6. h.size = Len(body) + 1 /\ p + 2 + Len(body) <= Len(file.cells)
      BY <1>1, <2>1, <2>2, <3>1, <3>3
    <3>7. Checksum(file, p) = <<[id |-> h.id, valid |-> TRUE]>>
      BY <1>1, <3>3, <3>4, <3>5, <3>6, RightChecksum
    <3> QED BY <1>3, <3>7
  <2> QED BY <2>4, <2>5, <2>6
<1>7. CASE h.id = "Tracks"
  <2>1. p = TracksAt /\ h.size = 1 + Checks /\ SlotAt = p + 2 + Checks
    BY <1>7, TracksCells
  <2>2. h.size \in Nat /\ p + 1 + h.size <= Len(file.cells)
    BY <1>1, <2>1
  <2>3. /\ Header(file, p + 1) = HeaderNow(TracksAt + 1) /\ Header(file, SlotAt - 1) = HeaderNow(SlotAt - 1)
        /\ HeaderNow(SlotAt - 1) = Item("tracks")
    <3>1. p + 1 \in 0 .. SlotAt - 1 /\ SlotAt - 1 \in 0 .. SlotAt - 1
      BY <1>1, <2>1
    <3> QED BY <1>1, <1>2, <2>1, <3>1, HeaderNowIs
  <2>4. CASE layout.strict
    <3>1. SlotAt - 1 = p + 1
      BY <1>1, <2>1, <2>4
    <3>2. Header(file, p + 1).id # "Crc"
      BY <2>3, <3>1 DEF Item
    <3>3. Checksum(file, p) = <<>>
      BY <1>1, <2>2, <3>2, NoChecksum
    <3> QED BY <1>3, <3>3
  <2>5. CASE ~layout.strict
    <3> DEFINE body == Leaf("Item", "tracks")
    <3>1. IsSeq(body) /\ Len(body) = 1 /\ body[1] = Item("tracks")
      BY LeafIs DEF Item
    <3>2. Header(file, p + 1) = Crc(body)
      BY <1>1, <2>3, <2>5, HeaderNowIs
    <3> HIDE DEF body
    <3>3. SlotAt - 1 = p + 1 + 1 /\ h.size = Len(body) + 1 /\ p + 2 + Len(body) <= Len(file.cells)
      BY <1>1, <2>1, <2>2, <2>5, <3>1
    <3>4. \A i \in 1 .. Len(body) : Header(file, p + 1 + i) = body[i]
      <4>1. Header(file, p + 1 + 1) = body[1]
        BY <2>3, <3>1, <3>3
      <4> QED BY <3>1, <4>1
    <3>5. Checksum(file, p) = <<[id |-> h.id, valid |-> TRUE]>>
      BY <1>1, <3>1, <3>2, <3>3, <3>4, RightChecksum
    <3> QED BY <1>3, <3>5
  <2> QED BY <2>4, <2>5
<1>8. CASE h.id = "Cues"
  <2>1. CASE step = "cues"
    BY <1>4, <1>8, <2>1 DEF ChecksumIsTrue
  <2>2. CASE step # "cues"
    <3>1. index \in Seq(Range(index)) /\ Len(index) \in Nat
      BY Sizes DEF WriterInv, WriterShape
    <3>2. /\ Len(CuesElement) = Len(index) + 1 + Checks
          /\ CuesElement[1] = [id |-> "Cues", size |-> Len(index) + Checks]
          /\ ~layout.strict => CuesElement[2] = Crc(CueItems)
          /\ \A i \in Checks + 2 .. Len(index) + 1 + Checks : CuesElement[i] = Item(index[i - 1 - Checks])
      BY <1>1, <3>1, CuesElementIs
    <3>3. /\ h = CuesElement[1] /\ p + Len(CuesElement) <= InputLen(file)
          /\ \A i \in 1 .. Len(CuesElement) : Header(file, p + i - 1) = CuesElement[i]
      BY <1>8, <2>2, CuesLeftIs
    <3>c. h.size = Len(index) + Checks /\ Checks \in {0, 1}
      BY <1>1, <3>2, <3>3
    <3>4. h.size = Len(index) + Checks /\ h.size \in Nat /\ p + 1 + h.size <= Len(file.cells)
      <4> DEFINE m == Len(CuesElement)
                 s == h.size
                 n == Len(index)
                 to == InputLen(file)
      <4>1. m = n + 1 + Checks /\ p + m <= to /\ s = n + Checks /\ Checks \in {0, 1} /\ n \in Nat
            /\ to = Len(file.cells) /\ to \in Nat
        BY <1>1, <3>1, <3>2, <3>3, <3>c
      <4> HIDE DEF m, s, n, to
      <4>2. s = n + Checks /\ s \in Nat /\ p + 1 + s <= to
        BY <4>1
      <4>3. p + 1 + s <= Len(file.cells)
        BY <4>1, <4>2
      <4> QED BY <4>2, <4>3 DEF s, n
    <3>5. CASE layout.strict
      <4>1. h.size # 0 => Header(file, p + 1).id # "Crc"
        <5> SUFFICES ASSUME h.size # 0 PROVE Header(file, p + 1).id # "Crc"
          OBVIOUS
        <5>1. 2 \in 1 .. Len(CuesElement) /\ p + 2 - 1 = p + 1 /\ 2 \in Checks + 2 .. Len(index) + 1 + Checks
          BY <1>1, <3>1, <3>2, <3>4, <3>5
        <5>2. Header(file, p + 1) = CuesElement[2] /\ CuesElement[2] = Item(index[2 - 1 - Checks])
          BY <3>2, <3>3, <5>1
        <5> QED BY <5>2 DEF Item
      <4>2. Checksum(file, p) = <<>>
        BY <1>1, <3>4, <4>1, NoChecksum
      <4> QED BY <1>3, <4>2
    <3>6. CASE ~layout.strict
      <4> DEFINE body == CueItems
      <4>1. IsSeq(body) /\ Len(body) = Len(index) /\ \A i \in 1 .. Len(index) : body[i] = Item(index[i])
        BY <3>1, CueItemsAre
      <4>2. Header(file, p + 1) = Crc(body)
        <5>1. 2 \in 1 .. Len(CuesElement) /\ p + 2 - 1 = p + 1
          BY <1>1, <3>1, <3>2, <3>6
        <5> QED BY <3>2, <3>3, <3>6, <5>1
      <4> HIDE DEF body
      <4>3. ASSUME NEW i \in 1 .. Len(body) PROVE Header(file, p + 1 + i) = body[i]
        <5> DEFINE j == i + 2
        <5>1. /\ j \in 1 .. Len(CuesElement) /\ p + j - 1 = p + 1 + i /\ i \in 1 .. Len(index)
              /\ j \in Checks + 2 .. Len(index) + 1 + Checks /\ j - 1 - Checks = i
          BY <1>1, <3>1, <3>2, <3>6, <4>1
        <5> HIDE DEF j
        <5>2. Header(file, p + 1 + i) = CuesElement[j] /\ CuesElement[j] = Item(index[i])
          BY <3>2, <3>3, <5>1
        <5> QED BY <4>1, <5>1, <5>2
      <4>4. h.size = Len(body) + 1 /\ p + 2 + Len(body) <= Len(file.cells)
        BY <1>1, <3>1, <3>4, <3>6, <4>1
      <4>5. Checksum(file, p) = <<[id |-> h.id, valid |-> TRUE]>>
        BY <1>1, <4>1, <4>2, <4>3, <4>4, RightChecksum
      <4> QED BY <1>3, <4>5
    <3> QED BY <3>5, <3>6
  <2> QED BY <2>1, <2>2
<1>9. h.id = "SeekHead" \/ h.id = "Info" \/ h.id = "Tracks" \/ h.id = "Cues"
  BY MasterPlace
<1> QED BY <1>5, <1>6, <1>7, <1>8, <1>9

-----------------------------------------------------------------------------
(* What the masters of a finished file yield, to the last Item.            *)

\* A body of leaves is read to its end.
LEMMA LeavesLifted ==
  ASSUME NEW f, LegalFile(f), NEW end \in 0 .. Far, end <= InputLen(f), NEW p \in 0 .. end,
         \A q \in p .. end - 1 : Header(f, q).size = 0 /\ Parses(Header(f, q))
  PROVE  ~Lifted(f, p, end).err /\ Lifted(f, p, end).to = end
<1> DEFINE Good == {q \in Nat : q \in p .. end => ~Lifted(f, q, end).err /\ Lifted(f, q, end).to = end}
<1>0. Far \in Nat /\ end \in Nat /\ p \in Nat
  BY ProbeAssumption
<1>1. ASSUME NEW q \in Nat, q >= end PROVE q \in Good
  <2>1. Lifted(f, q, end) = [values |-> Nothing, err |-> FALSE, to |-> q]
    BY <1>1, LiftedBehind
  <2>2. q \in p .. end => q = end
    BY <1>0, <1>1
  <2> QED BY <2>1, <2>2
<1>2. ASSUME NEW q \in Nat, q < end, NextAt(f, q) \in Good PROVE q \in Good
  <2> SUFFICES ASSUME q \in p .. end PROVE ~Lifted(f, q, end).err /\ Lifted(f, q, end).to = end
    OBVIOUS
  <2>1. q \in p .. end - 1 /\ q + 1 \in p .. end
    BY <1>0, <1>2
  <2>2. Header(f, q).size = 0 /\ Parses(Header(f, q))
    BY <2>1
  <2>3. PutInFront(Header(f, q), Lifted(f, q, end), Lifted(f, q + 1, end)) /\ NextAt(f, q) = q + 1
    BY <1>2, <2>2, LiftedLeaf
  <2>4. ~Lifted(f, q + 1, end).err /\ Lifted(f, q + 1, end).to = end
    BY <1>2, <2>1, <2>3
  <2> QED BY <2>3, <2>4 DEF PutInFront
<1>3. p \in Good
  <2> HIDE DEF Good
  <2>1. Nat \subseteq Good
    BY <1>1, <1>2, FileInduction
  <2> QED BY <1>0, <2>1
<1> QED BY <1>3

\* A body of Items yields them all.
LEMMA ItemsLifted ==
  ASSUME NEW f, LegalFile(f), NEW end \in 0 .. Far, end <= InputLen(f), NEW p \in 0 .. end,
         NEW s, IsSeq(s), Len(s) = end - p, \A i \in 1 .. Len(s) : Header(f, p + i - 1) = Item(s[i])
  PROVE  Lifted(f, p, end).values["Item"] = s
<1> DEFINE v(q) == Lifted(f, q, end).values["Item"]
           Good == {q \in Nat : q \in p .. end =>
                      IsSeq(v(q)) /\ Len(v(q)) = end - q /\ \A j \in 1 .. end - q : v(q)[j] = s[q - p + j]}
<1>0. Far \in Nat /\ end \in Nat /\ p \in Nat /\ Nothing["Item"] = <<>> /\ "Item" \in ValueIds
  BY ProbeAssumption DEF Nothing, ValueIds
<1>1. ASSUME NEW q \in Nat, q >= end PROVE q \in Good
  <2>1. Lifted(f, q, end) = [values |-> Nothing, err |-> FALSE, to |-> q]
    BY <1>1, LiftedBehind
  <2>2. v(q) = <<>>
    BY <1>0, <2>1
  <2>3. q \in p .. end => end - q = 0
    BY <1>0, <1>1
  <2> HIDE DEF v
  <2>4. q \in p .. end => IsSeq(v(q)) /\ Len(v(q)) = end - q /\ \A j \in 1 .. end - q : v(q)[j] = s[q - p + j]
    BY <2>2, <2>3, EmptyIs
  <2> QED BY <2>4
<1>2. ASSUME NEW q \in Nat, q < end, NextAt(f, q) \in Good PROVE q \in Good
  <2> SUFFICES ASSUME q \in p .. end
               PROVE  IsSeq(v(q)) /\ Len(v(q)) = end - q /\ \A j \in 1 .. end - q : v(q)[j] = s[q - p + j]
    OBVIOUS
  <2>1. q + 1 \in p .. end /\ q - p + 1 \in 1 .. Len(s) /\ p + (q - p + 1) - 1 = q
    BY <1>0, <1>2
  <2>2. Header(f, q) = Item(s[q - p + 1])
    BY <2>1
  <2>3. Header(f, q).size = 0 /\ Parses(Header(f, q)) /\ Header(f, q).id = "Item" /\ Header(f, q).v = s[q - p + 1]
    BY <2>2 DEF Item, Parses
  <2>4. NextAt(f, q) = q + 1 /\ v(q) = <<s[q - p + 1]>> \o v(q + 1)
    <3>1. PutInFront(Header(f, q), Lifted(f, q, end), Lifted(f, q + 1, end)) /\ NextAt(f, q) = q + 1
      BY <1>2, <2>3, LiftedLeaf
    <3> QED BY <1>0, <2>3, <3>1 DEF PutInFront
  <2>5. IsSeq(v(q + 1)) /\ Len(v(q + 1)) = end - (q + 1)
        /\ \A j \in 1 .. end - (q + 1) : v(q + 1)[j] = s[q + 1 - p + j]
    <3> HIDE DEF v, Good
    <3>1. q + 1 \in Good /\ q + 1 \in p .. end
      BY <1>2, <2>1, <2>4
    <3> USE DEF Good
    <3> QED BY <3>1
  <2> DEFINE a == s[q - p + 1]
             t == v(q + 1)
             u == v(q)
  <2> HIDE DEF v
  <2>6. u = <<a>> \o t /\ IsSeq(t)
    BY <2>4, <2>5
  <2>7. Len(t) = end - (q + 1) /\ \A j \in 1 .. end - (q + 1) : t[j] = s[q + 1 - p + j]
    BY <2>5
  <2> HIDE DEF a, t, u
  <2>8. IsSeq(u) /\ u[1] = a /\ \A i \in 2 .. Len(t) + 1 : u[i] = t[i - 1]
    BY <2>6, ConsIs
  <2>9. Len(u) = Len(t) + 1
    BY <2>6, ConsIs
  <2>10. Len(u) = end - q
    BY <1>0, <2>7, <2>9
  <2>11. ASSUME NEW j \in 1 .. end - q PROVE u[j] = s[q - p + j]
    <3>1. CASE j = 1
      BY <2>8, <3>1 DEF a
    <3>2. CASE j # 1
      <4>1. j \in 2 .. Len(t) + 1 /\ j - 1 \in 1 .. end - (q + 1) /\ q + 1 - p + (j - 1) = q - p + j
        BY <1>0, <2>7, <3>2
      <4>2. u[j] = t[j - 1] /\ t[j - 1] = s[q + 1 - p + (j - 1)]
        BY <2>7, <2>8, <4>1
      <4> QED BY <4>1, <4>2
    <3> QED BY <3>1, <3>2
  <2> QED BY <2>8, <2>10, <2>11 DEF u
<1>3. p \in Good
  <2> HIDE DEF Good
  <2>1. Nat \subseteq Good
    BY <1>1, <1>2, FileInduction
  <2> QED BY <1>0, <2>1
<1>4. IsSeq(v(p)) /\ Len(v(p)) = end - p /\ \A j \in 1 .. end - p : v(p)[j] = s[p - p + j]
  BY <1>0, <1>3
<1> DEFINE u == v(p)
<1> HIDE DEF v
<1>5. IsSeq(u) /\ Len(u) = Len(s)
  BY <1>4
<1>6. \A j \in 1 .. Len(u) : u[j] = s[j]
  <2>1. \A j \in 1 .. end - p : p - p + j = j
    BY <1>0
  <2> QED BY <1>4, <2>1
<1> HIDE DEF u
<1>7. u = s
  BY <1>5, <1>6, SameSeqs
<1> QED BY <1>7 DEF u, v

LEMMA WholeMaster ==
  ASSUME NEW f, LegalFile(f), NEW end, NEW p \in Nat, Header(f, p).size \in Nat,
         p + 1 + Header(f, p).size <= InputLen(f)
  PROVE  /\ Readable(f, p) /\ MasterAt(f, p, end) = Lifted(f, p + 1, p + 1 + Header(f, p).size)
         /\ NextAt(f, p) = p + 1 + Header(f, p).size /\ p + 1 + Header(f, p).size \in 0 .. Far
<1> DEFINE n == Header(f, p).size
<1>1. n \in Nat /\ Far \in Nat /\ InputLen(f) \in 0 .. Far /\ p + 1 + n <= InputLen(f) /\ n # Unknown
  BY ProbeAssumption DEF LegalFile, Unknown
<1> HIDE DEF n
<1>2. Past(p + 1, n) = p + 1 + n /\ p + 1 + n \in 0 .. Far
  <2>1. p + 1 + n \in Nat /\ p + 1 + n <= Far
    BY <1>1
  <2>2. Min({p + 1 + n, Far}) = p + 1 + n
    BY <1>1, <2>1, MinOfTwo
  <2> QED BY <1>1, <2>1, <2>2 DEF Past
<1> QED BY <1>1, <1>2 DEF n, Readable, MasterAt, NextAt

\* No Duration among the cells of a body, none lifted.
LEMMA NoDurationLifted ==
  ASSUME NEW f, LegalFile(f), NEW end \in 0 .. Far, NEW p \in Nat,
         \A q \in p .. end - 1 : Header(f, q).id # "Duration"
  PROVE  Lifted(f, p, end).values["Duration"] = <<>>
<1>1. "Duration" \in ValueIds
  BY DEF ValueIds
<1>2. LET s == Lifted(f, p, end).values["Duration"] IN
      s # <<>> => \E q \in p .. end - 1 : Header(f, q).id = "Duration"
  BY <1>1, LiftedFrom
<1> QED BY <1>2

\* What the master at p yields, up to `to'.
Yields(p, items, duration, to) ==
  LET r == MasterAt(file, p, SegmentEnd) IN
  ~r.err /\ r.values["Item"] = items /\ r.values["Duration"] = duration /\ r.to = to

LEMMA TuplesAre ==
  ASSUME NEW a, NEW b, NEW c
  PROVE  <<a>> \o <<>> = <<a>> /\ <<a>> \o <<b>> = <<a, b>> /\ <<a>> \o <<b, c>> = <<a, b, c>>
<1>1. <<a>> \o <<>> = <<a>>
  OBVIOUS
<1>2. IsSeq(<<b>>) /\ Len(<<b>>) = 1 /\ IsSeq(<<b, c>>) /\ Len(<<b, c>>) = 2
  BY DEF IsSeq
<1>3. IsSeq(<<a, b>>) /\ Len(<<a, b>>) = 2 /\ IsSeq(<<a, b, c>>) /\ Len(<<a, b, c>>) = 3
  BY DEF IsSeq
<1>4. <<a>> \o <<b>> = <<a, b>>
  <2> DEFINE t == <<b>>
             u == <<a>> \o t
             w == <<a, b>>
  <2>0. IsSeq(t)
    BY <1>2
  <2>1. Len(t) = 1 /\ t[1] = b
    BY <1>2
  <2>2. IsSeq(w) /\ Len(w) = 2 /\ w[1] = a /\ w[2] = b
    BY <1>3
  <2> HIDE DEF t, w
  <2>3. IsSeq(u) /\ u[1] = a /\ \A i \in 2 .. Len(t) + 1 : u[i] = t[i - 1]
    BY <2>0, ConsIs
  <2>4. Len(u) = Len(t) + 1
    BY <2>0, ConsIs
  <2> HIDE DEF u
  <2>5. Len(u) = Len(w) /\ \A i \in 1 .. Len(u) : u[i] = w[i]
    BY <2>1, <2>2, <2>3, <2>4
  <2>6. u = w
    BY <2>2, <2>3, <2>5, SameSeqs
  <2> QED BY <2>6 DEF u, w, t
<1>5. <<a>> \o <<b, c>> = <<a, b, c>>
  <2> DEFINE t == <<b, c>>
             u == <<a>> \o t
             w == <<a, b, c>>
  <2>0. IsSeq(t)
    BY <1>2
  <2>1. Len(t) = 2 /\ t[1] = b /\ t[2] = c
    BY <1>2
  <2>2. IsSeq(w) /\ Len(w) = 3 /\ w[1] = a /\ w[2] = b /\ w[3] = c
    BY <1>3
  <2> HIDE DEF t, w
  <2>3. IsSeq(u) /\ u[1] = a /\ \A i \in 2 .. Len(t) + 1 : u[i] = t[i - 1]
    BY <2>0, ConsIs
  <2>4. Len(u) = Len(t) + 1
    BY <2>0, ConsIs
  <2> HIDE DEF u
  <2>5. Len(u) = Len(w) /\ \A i \in 1 .. Len(u) : u[i] = w[i]
    BY <2>1, <2>2, <2>3, <2>4
  <2>6. u = w
    BY <2>2, <2>3, <2>5, SameSeqs
  <2> QED BY <2>6 DEF u, w, t
<1> QED BY <1>1, <1>4, <1>5

LEMMA SeekHeadYields ==
  ASSUME WriterInv, Opening, phase # "start", Sealed, ~layout.live
  PROVE  Yields(0, SeekEntries, <<>>, InfoAt)
<1>1. /\ layout \in Layouts /\ LegalFile(file) /\ Far \in Nat /\ InputLen(file) \in 0 .. Far
      /\ SlotAt \in Nat /\ SlotAt > 6 /\ InfoAt = 5 /\ SlotAt <= InputLen(file) /\ TracksHeld(file.cells)
  BY OpenedIs, SealedFile, Offs DEF TracksHeld
<1> DEFINE info == [id |-> "Info", at |-> 5]
           tracks == [id |-> "Tracks", at |-> TracksAt]
           cues == [id |-> "Cues", at |-> IF SeekPatched THEN entry ELSE 0]
<1>2. /\ Header(file, 0) = [id |-> "SeekHead", size |-> 4] /\ Header(file, 1) = Item(info)
      /\ Header(file, 2) = Item(tracks) /\ Header(file, 3) = Patchable
      /\ Header(file, 4) = IF SeekPatched /\ entry = None THEN Patchable ELSE Item(cues)
  <2>1. \A o \in 0 .. 4 : Header(file, o) = HeaderNow(o)
    <3>1. 0 .. 4 \subseteq 0 .. SlotAt - 1
      BY <1>1
    <3> QED BY <1>1, <3>1, HeaderLeftIs
  <2>2. Header(file, 0) = HeaderNow(0) /\ Header(file, 1) = HeaderNow(1) /\ Header(file, 2) = HeaderNow(2)
        /\ Header(file, 3) = HeaderNow(3) /\ Header(file, 4) = HeaderNow(4)
    BY <2>1
  <2> QED BY <1>1, <2>2, HeaderNowIs
<1>3. SeekEntries = IF SeekPatched /\ entry = None THEN <<info, tracks>> ELSE <<info, tracks, cues>>
  BY DEF SeekEntries, Offsets
<1> HIDE DEF info, tracks, cues
<1> DEFINE l(p) == Lifted(file, p, 5)
<1>4. MasterAt(file, 0, SegmentEnd) = l(1)
  <2>1. Header(file, 0).size = 4 /\ 0 + 1 = 1 /\ 1 + 4 = 5
    BY <1>2
  <2>2. MasterAt(file, 0, SegmentEnd) = Lifted(file, 0 + 1, 0 + 1 + Header(file, 0).size)
    BY <1>1, <2>1, WholeMaster
  <2> QED BY <2>1, <2>2
<1>5. 5 \in 0 .. Far /\ 5 <= InputLen(file) /\ "Item" \in ValueIds /\ "Duration" \in ValueIds
  BY <1>1 DEF ValueIds
<1>6. \A q \in 1 .. 4 : Header(file, q).size = 0 /\ Parses(Header(file, q)) /\ Header(file, q).id # "Duration"
  BY <1>2 DEF Item, Patchable, Parses
<1>7. ~l(1).err /\ l(1).to = 5
  <2>1. 1 \in 0 .. 5 /\ 5 - 1 = 4
    OBVIOUS
  <2> QED BY <1>1, <1>5, <1>6, <2>1, LeavesLifted
<1>8. l(1).values["Duration"] = <<>>
  <2>1. 5 - 1 = 4
    OBVIOUS
  <2> QED BY <1>1, <1>5, <1>6, <2>1, NoDurationLifted
<1>9. ASSUME NEW q \in 1 .. 4
      PROVE  PutInFront(Header(file, q), l(q), l(q + 1))
  <2>1. q \in Nat /\ q < 5
    OBVIOUS
  <2> QED BY <1>1, <1>5, <1>6, <1>9, <2>1, LiftedLeaf
<1> DEFINE v(p) == l(p).values["Item"]
<1>10. v(5) = <<>>
  <2>1. l(5) = [values |-> Nothing, err |-> FALSE, to |-> 5]
    BY <1>1, <1>5, LiftedBehind
  <2> QED BY <1>5, <2>1 DEF Nothing
<1>11. ASSUME NEW q \in 1 .. 4
       PROVE  v(q) = IF Header(file, q).id = "Item" THEN <<Header(file, q).v>> \o v(q + 1) ELSE v(q + 1)
  BY <1>5, <1>9 DEF PutInFront
<1> HIDE DEF v, l
<1>12. v(4) = IF SeekPatched /\ entry = None THEN <<>> ELSE <<cues>>
  <2>1. 4 \in 1 .. 4 /\ 4 + 1 = 5
    OBVIOUS
  <2>2. v(4) = IF Header(file, 4).id = "Item" THEN <<Header(file, 4).v>> \o <<>> ELSE <<>>
    BY <1>10, <1>11, <2>1
  <2>3. <<cues>> \o <<>> = <<cues>>
    OBVIOUS
  <2> QED BY <1>2, <2>2, <2>3 DEF Item, Patchable
<1>13. v(3) = v(4)
  <2>1. 3 \in 1 .. 4 /\ 3 + 1 = 4
    OBVIOUS
  <2> QED BY <1>2, <1>11, <2>1 DEF Patchable
<1>14. v(2) = <<tracks>> \o v(3)
  <2>1. 2 \in 1 .. 4 /\ 2 + 1 = 3
    OBVIOUS
  <2> QED BY <1>2, <1>11, <2>1 DEF Item
<1>15. v(1) = <<info>> \o v(2)
  <2>1. 1 \in 1 .. 4 /\ 1 + 1 = 2
    OBVIOUS
  <2> QED BY <1>2, <1>11, <2>1 DEF Item
<1>16. <<tracks>> \o <<>> = <<tracks>> /\ <<tracks>> \o <<cues>> = <<tracks, cues>>
       /\ <<info>> \o <<tracks>> = <<info, tracks>> /\ <<info>> \o <<tracks, cues>> = <<info, tracks, cues>>
  BY TuplesAre
<1>17. v(1) = SeekEntries
  BY <1>3, <1>12, <1>13, <1>14, <1>15, <1>16
<1> QED BY <1>1, <1>4, <1>7, <1>8, <1>17 DEF v, Yields

LEMMA InfoYields ==
  ASSUME WriterInv, Opening, phase # "start", Sealed
  PROVE  LET r == MasterAt(file, InfoAt, SegmentEnd) IN
         ~r.err /\ r.values["Duration"] = TrueDuration /\ r.to = TracksAt
<1>1. /\ layout \in Layouts /\ LegalFile(file) /\ Far \in Nat /\ InputLen(file) \in 0 .. Far
      /\ SlotAt \in Nat /\ InfoAt \in Nat /\ SlotAt <= InputLen(file) /\ TracksHeld(file.cells)
      /\ TracksAt < SlotAt /\ InfoAt < TracksAt
  BY OpenedIs, SealedFile, Offs DEF TracksHeld
<1>2. TracksAt = InfoAt + 1 + Checks + InfoItems /\ Checks \in {0, 1} /\ InfoItems \in {1, 2} /\ TracksAt \in Nat
      /\ (~layout.finalize => InfoItems = 1) /\ (layout.finalize => InfoItems = 2) /\ (layout.strict => Checks = 0)
  BY <1>1, HeaderCellsAre DEF Checks, InfoItems
<1> DEFINE b == InfoAt + 1
           d == InfoAt + 1 + Checks
           l(p) == Lifted(file, p, TracksAt)
<1>3. /\ Header(file, InfoAt) = [id |-> "Info", size |-> InfoItems + Checks]
      /\ ~layout.strict => \E v : Header(file, b) = Crc(v)
      /\ layout.finalize => Header(file, d) =
           IF DurationPatched THEN [id |-> "Duration", size |-> 0, v |-> maxEnd] ELSE Patchable
      /\ Header(file, TracksAt - 1) = Item("encoder")
  <2>1. InfoAt \in 0 .. SlotAt - 1 /\ b \in 0 .. SlotAt - 1 /\ d \in 0 .. SlotAt - 1 /\ TracksAt - 1 \in 0 .. SlotAt - 1
    BY <1>1, <1>2
  <2>2. /\ Header(file, InfoAt) = HeaderNow(InfoAt) /\ Header(file, b) = HeaderNow(b)
        /\ Header(file, d) = HeaderNow(d) /\ Header(file, TracksAt - 1) = HeaderNow(TracksAt - 1)
    BY <1>1, <2>1, HeaderLeftIs
  <2> QED BY <1>1, <2>2, HeaderNowIs
<1>4. MasterAt(file, InfoAt, SegmentEnd) = l(b)
  <2>1. Header(file, InfoAt).size = InfoItems + Checks
    BY <1>3
  <2> DEFINE n == Header(file, InfoAt).size
  <2>2. n \in Nat /\ InfoAt + 1 + n = TracksAt /\ InfoAt + 1 + n <= InputLen(file)
    BY <1>1, <1>2, <2>1
  <2> QED BY <1>1, <2>2, WholeMaster
<1>5. TracksAt \in 0 .. Far /\ TracksAt <= InputLen(file) /\ b \in 0 .. TracksAt /\ b \in Nat /\ d \in Nat
      /\ "Duration" \in ValueIds
  BY <1>1, <1>2 DEF ValueIds
<1>6. ASSUME NEW q \in b .. TracksAt - 1
      PROVE  /\ Header(file, q).size = 0 /\ Parses(Header(file, q))
             /\ Header(file, q).id = "Duration" => layout.finalize /\ q = d /\ DurationPatched
  <2>1. \/ ~layout.strict /\ q = b
        \/ layout.finalize /\ q = d
        \/ q = TracksAt - 1
    BY <1>1, <1>2 DEF Checks
  <2>2. CASE ~layout.strict /\ q = b
    <3>1. PICK v : Header(file, b) = Crc(v)
      BY <1>3, <2>2
    <3> QED BY <2>2, <3>1 DEF Crc, Parses
  <2>3. CASE layout.finalize /\ q = d
    BY <1>3, <2>3 DEF Patchable, Parses
  <2>4. CASE q = TracksAt - 1
    BY <1>3, <2>4 DEF Item, Parses
  <2> QED BY <2>1, <2>2, <2>3, <2>4
<1>7. ~l(b).err /\ l(b).to = TracksAt
  BY <1>1, <1>5, <1>6, LeavesLifted
<1>8. CASE ~DurationPatched
  <2>1. l(b).values["Duration"] = <<>>
    BY <1>1, <1>5, <1>6, <1>8, NoDurationLifted
  <2> QED BY <1>4, <1>7, <1>8, <2>1 DEF TrueDuration
<1>9. CASE DurationPatched
  <2>1. layout.finalize /\ d + 1 = TracksAt - 1 /\ d + 1 \in Nat /\ d < TracksAt
    BY <1>1, <1>2, <1>9 DEF DurationPatched, Timed
  <2>2. Header(file, d) = [id |-> "Duration", size |-> 0, v |-> maxEnd] /\ d \in b .. TracksAt - 1
    BY <1>1, <1>2, <1>3, <1>9, <2>1
  <2>3. PutInFront(Header(file, d), l(d), l(d + 1))
    BY <1>1, <1>5, <1>6, <2>1, <2>2, LiftedLeaf
  <2>4. l(d + 1).values["Duration"] = <<>>
    <3>1. \A q \in d + 1 .. TracksAt - 1 : Header(file, q).id # "Duration"
      BY <1>3, <2>1 DEF Item
    <3> QED BY <1>1, <1>5, <2>1, <3>1, NoDurationLifted
  <2>5. l(d).values["Duration"] = <<maxEnd>> \o <<>>
    <3>1. l(d).values["Duration"] = <<Header(file, d).v>> \o l(d + 1).values["Duration"]
      <4>1. Header(file, d).id = "Duration"
        BY <2>2
      <4> HIDE DEF l, d
      <4> QED BY <1>5, <2>3, <4>1 DEF PutInFront
    <3> DEFINE x == Header(file, d).v
               y == l(d + 1).values["Duration"]
               z == l(d).values["Duration"]
    <3>2. x = maxEnd /\ y = <<>>
      BY <2>2, <2>4
    <3>3. z = <<x>> \o y
      BY <3>1
    <3> HIDE DEF x, y, z
    <3>4. z = <<maxEnd>> \o <<>>
      BY <3>2, <3>3
    <3> QED BY <3>4 DEF z
  <2>6. l(b).values["Duration"] = l(d).values["Duration"]
    <3>1. CASE layout.strict
      <4>1. b = d
        BY <1>1, <1>2, <3>1
      <4> QED BY <4>1
    <3>2. CASE ~layout.strict
      <4>1. b + 1 = d /\ b < TracksAt /\ b \in b .. TracksAt - 1
        BY <1>1, <1>2, <3>2 DEF Checks
      <4>2. PutInFront(Header(file, b), l(b), l(b + 1))
        BY <1>1, <1>5, <1>6, <4>1, LiftedLeaf
      <4>3. Header(file, b).id # "Duration"
        <5>1. PICK v : Header(file, b) = Crc(v)
          BY <1>3, <3>2
        <5> QED BY <5>1 DEF Crc
      <4> QED BY <1>5, <4>1, <4>2, <4>3 DEF PutInFront
    <3> QED BY <3>1, <3>2
  <2>7. <<maxEnd>> \o <<>> = <<maxEnd>>
    BY TuplesAre
  <2> QED BY <1>4, <1>7, <1>9, <2>5, <2>6, <2>7 DEF TrueDuration
<1> QED BY <1>8, <1>9

LEMMA TracksYields ==
  ASSUME WriterInv, Opening, phase # "start", Sealed
  PROVE  LET r == MasterAt(file, TracksAt, SegmentEnd) IN
         ~r.err /\ r.values["Duration"] = <<>> /\ r.to = SlotAt
<1>1. /\ layout \in Layouts /\ LegalFile(file) /\ Far \in Nat /\ InputLen(file) \in 0 .. Far
      /\ SlotAt \in Nat /\ TracksAt \in Nat /\ SlotAt <= InputLen(file) /\ TracksHeld(file.cells)
      /\ TracksAt < SlotAt
  BY OpenedIs, SealedFile, Offs DEF TracksHeld
<1>2. SlotAt = TracksAt + 2 + Checks /\ Checks \in {0, 1} /\ (layout.strict => Checks = 0)
  BY <1>1, HeaderCellsAre DEF Checks
<1> DEFINE b == TracksAt + 1
           l(p) == Lifted(file, p, SlotAt)
<1>3. /\ Header(file, TracksAt) = [id |-> "Tracks", size |-> 1 + Checks]
      /\ ~layout.strict => \E v : Header(file, b) = Crc(v)
      /\ Header(file, SlotAt - 1) = Item("tracks")
  <2>1. TracksAt \in 0 .. SlotAt - 1 /\ b \in 0 .. SlotAt - 1 /\ SlotAt - 1 \in 0 .. SlotAt - 1
    BY <1>1, <1>2
  <2>2. /\ Header(file, TracksAt) = HeaderNow(TracksAt) /\ Header(file, b) = HeaderNow(b)
        /\ Header(file, SlotAt - 1) = HeaderNow(SlotAt - 1)
    BY <1>1, <2>1, HeaderLeftIs
  <2> QED BY <1>1, <2>2, HeaderNowIs
<1>4. MasterAt(file, TracksAt, SegmentEnd) = l(b)
  <2>1. Header(file, TracksAt).size = 1 + Checks
    BY <1>3
  <2> DEFINE n == Header(file, TracksAt).size
  <2>2. n \in Nat /\ TracksAt + 1 + n = SlotAt /\ TracksAt + 1 + n <= InputLen(file)
    BY <1>1, <1>2, <2>1
  <2> QED BY <1>1, <2>2, WholeMaster
<1>5. SlotAt \in 0 .. Far /\ SlotAt <= InputLen(file) /\ b \in 0 .. SlotAt /\ b \in Nat
  BY <1>1, <1>2
<1>6. ASSUME NEW q \in b .. SlotAt - 1
      PROVE  Header(file, q).size = 0 /\ Parses(Header(file, q)) /\ Header(file, q).id # "Duration"
  <2>1. \/ ~layout.strict /\ q = b
        \/ q = SlotAt - 1
    BY <1>1, <1>2 DEF Checks
  <2>2. CASE ~layout.strict /\ q = b
    <3>1. PICK v : Header(file, b) = Crc(v)
      BY <1>3, <2>2
    <3> QED BY <2>2, <3>1 DEF Crc, Parses
  <2>3. CASE q = SlotAt - 1
    BY <1>3, <2>3 DEF Item, Parses
  <2> QED BY <2>1, <2>2, <2>3
<1>7. ~l(b).err /\ l(b).to = SlotAt
  BY <1>1, <1>5, <1>6, LeavesLifted
<1>8. l(b).values["Duration"] = <<>>
  BY <1>1, <1>5, <1>6, NoDurationLifted
<1> QED BY <1>4, <1>7, <1>8

LEMMA CuesYields ==
  ASSUME WriterInv, Opening, phase # "start", Sealed,
         NEW p \in Nat, p < InputLen(file), Header(file, p).id = "Cues"
  PROVE  Yields(p, index, <<>>, p + Len(CuesElement)) /\ p + Len(CuesElement) <= InputLen(file)
<1>1. /\ layout \in Layouts /\ LegalFile(file) /\ Far \in Nat /\ InputLen(file) \in 0 .. Far
      /\ Checks \in {0, 1} /\ (layout.strict <=> Checks = 0) /\ step # "cues"
  BY OpenedIs DEF Checks, Sealed
<1>2. index \in Seq(Range(index)) /\ Len(index) \in Nat /\ IsSeq(index)
  BY Sizes DEF WriterInv, WriterShape, IsSeq
<1> DEFINE m == Len(CuesElement)
           n == Len(index)
           b == p + 1
           end == p + m
           l(q) == Lifted(file, q, end)
<1>3. /\ m = n + 1 + Checks
      /\ CuesElement[1] = [id |-> "Cues", size |-> n + Checks]
      /\ ~layout.strict => CuesElement[2] = Crc(CueItems)
      /\ \A i \in Checks + 2 .. n + 1 + Checks : CuesElement[i] = Item(index[i - 1 - Checks])
  BY <1>1, <1>2, CuesElementIs
<1>4. /\ Header(file, p) = CuesElement[1] /\ p + m <= InputLen(file)
      /\ \A i \in 1 .. m : Header(file, p + i - 1) = CuesElement[i]
  BY <1>1, CuesLeftIs
<1> HIDE DEF m, n
<1>5. m \in Nat /\ n \in Nat /\ b \in Nat /\ end \in Nat /\ end \in 0 .. Far /\ end <= InputLen(file) /\ b \in 0 .. end
  BY <1>1, <1>2, <1>3, <1>4 DEF n
<1>6. MasterAt(file, p, SegmentEnd) = l(b)
  <2> DEFINE k == Header(file, p).size
  <2>1. k = n + Checks
    BY <1>3, <1>4
  <2>2. k \in Nat /\ p + 1 + k = end /\ p + 1 + k <= InputLen(file)
    BY <1>1, <1>3, <1>5, <2>1
  <2> HIDE DEF l
  <2>3. MasterAt(file, p, SegmentEnd) = Lifted(file, p + 1, p + 1 + k)
    BY <1>1, <2>2, WholeMaster
  <2> QED BY <2>2, <2>3 DEF l
<1>7. \A i \in 1 .. n : Header(file, b + Checks + i - 1) = Item(index[i])
  <2> TAKE i \in 1 .. n
  <2> DEFINE j == i + 1 + Checks
  <2>1. j \in 1 .. m /\ j \in Checks + 2 .. n + 1 + Checks /\ j - 1 - Checks = i /\ p + j - 1 = b + Checks + i - 1
    BY <1>1, <1>3, <1>5
  <2> HIDE DEF j
  <2>2. Header(file, p + j - 1) = CuesElement[j] /\ CuesElement[j] = Item(index[j - 1 - Checks])
    BY <1>3, <1>4, <2>1
  <2> QED BY <2>1, <2>2
<1>8. Checks = 1 => Header(file, b) = Crc(CueItems)
  <2>1. Checks = 1 => 2 \in 1 .. m /\ p + 2 - 1 = b
    BY <1>3, <1>5
  <2> QED BY <1>1, <1>3, <1>4, <2>1
<1>9. ASSUME NEW q \in b .. end - 1
      PROVE  Header(file, q).size = 0 /\ Parses(Header(file, q)) /\ Header(file, q).id # "Duration"
  <2>1. CASE Checks = 1 /\ q = b
    BY <1>8, <2>1 DEF Crc, Parses
  <2>2. CASE ~(Checks = 1 /\ q = b)
    <3> DEFINE i == q - b - Checks + 1
    <3>1. i \in 1 .. n /\ b + Checks + i - 1 = q
      BY <1>1, <1>3, <1>5, <2>2
    <3> HIDE DEF i
    <3>2. Header(file, q) = Item(index[i])
      BY <1>7, <3>1
    <3> QED BY <3>2 DEF Item, Parses
  <2> QED BY <2>1, <2>2
<1>10. ~l(b).err /\ l(b).to = end
  <2> HIDE DEF end, b
  <2> QED BY <1>1, <1>5, <1>9, LeavesLifted
<1>11. l(b).values["Duration"] = <<>>
  <2> HIDE DEF end, b
  <2> QED BY <1>1, <1>5, <1>9, NoDurationLifted
<1>12. l(b + Checks).values["Item"] = index
  <2> DEFINE c == b + Checks
  <2>1. c \in 0 .. end /\ Len(index) = end - c
    BY <1>1, <1>3, <1>5 DEF n
  <2>2. \A i \in 1 .. Len(index) : Header(file, c + i - 1) = Item(index[i])
    BY <1>7 DEF n
  <2> HIDE DEF c, end, b
  <2>3. Lifted(file, c, end).values["Item"] = index
    BY <1>1, <1>2, <1>5, <2>1, <2>2, ItemsLifted
  <2> QED BY <2>3 DEF c
<1>13. l(b).values["Item"] = index
  <2>1. CASE Checks = 0
    <3>1. b + Checks = b
      BY <1>5, <2>1
    <3> QED BY <1>12, <3>1
  <2>2. CASE Checks = 1
    <3>1. b < end /\ b + 1 = b + Checks
      BY <1>3, <1>5, <2>2
    <3>2. Header(file, b) = Crc(CueItems)
      BY <1>8, <2>2
    <3>3. Header(file, b).size = 0 /\ Parses(Header(file, b)) /\ Header(file, b).id # "Item"
      BY <3>2 DEF Crc, Parses
    <3> HIDE DEF end, b
    <3>4. PutInFront(Header(file, b), Lifted(file, b, end), Lifted(file, b + 1, end))
      BY <1>1, <1>5, <3>1, <3>3, LiftedLeaf
    <3>5. "Item" \in ValueIds
      BY DEF ValueIds
    <3> QED BY <1>12, <3>1, <3>3, <3>4, <3>5 DEF PutInFront
  <2> QED BY <1>1, <2>1, <2>2
<1> QED BY <1>5, <1>6, <1>10, <1>11, <1>13 DEF Yields, m

-----------------------------------------------------------------------------
(* Where the walk over a finished file comes by.                           *)

\* An element of n cells in the file.
LEMMA AfterIs ==
  ASSUME NEW f, LegalFile(f), NEW p \in Nat, NEW n \in Nat \ {0}, Header(f, p).size = n - 1, p + n <= InputLen(f)
  PROVE  Past(p + 1, Header(f, p).size) = p + n
<1>1. Far \in Nat /\ InputLen(f) \in 0 .. Far
  BY ProbeAssumption DEF LegalFile
<1>2. p + 1 + (n - 1) = p + n /\ p + n \in Nat /\ p + n <= Far /\ n - 1 # Unknown
  BY <1>1 DEF Unknown
<1>3. Min({p + n, Far}) = p + n
  BY <1>1, <1>2, MinOfTwo
<1> QED BY <1>2, <1>3 DEF Past

LEMMA SealedPlaces ==
  ASSUME WriterInv, Opening, phase # "start", Sealed, NEW p \in WalkPoints
  PROVE  LET h == Header(file, p) IN
         /\ p \in Nat /\ SegmentEnd = Len(output) /\ HeaderEnd <= Len(output)
         /\ \/ p = 0 /\ ~layout.live /\ h.id = "SeekHead" /\ p < SegmentEnd
            \/ p = InfoAt /\ h.id = "Info" /\ p < SegmentEnd
            \/ p = TracksAt /\ h.id = "Tracks" /\ p < SegmentEnd
            \/ p = SlotAt /\ InSlot /\ h.id = "Cues" /\ p < SegmentEnd /\ p < HeaderEnd
            \/ /\ (p = SlotAt /\ ~InSlot) \/ (p = SlotAt + Len(CuesElement) /\ InSlot)
               /\ h.id = "Void" /\ h.size \in Nat /\ p < SegmentEnd /\ p < HeaderEnd
               /\ Past(p + 1, h.size) = HeaderEnd
            \/ p = HeaderEnd /\ p < SegmentEnd /\ h.id = "Cluster"
            \/ p = HeaderEnd /\ p >= SegmentEnd /\ (entry = None \/ InSlot)
<1> DEFINE h == Header(file, p)
<1>1. /\ layout \in Layouts /\ LegalFile(file) /\ Far \in Nat /\ InputLen(file) \in 0 .. Far
      /\ InputLen(file) = Len(output) /\ Len(output) \in Nat /\ SegmentEnd = InputLen(file)
      /\ \A o \in Nat : o < InputLen(file) => Header(file, o) = output[o + 1]
  BY OpenedIs, SealedFile
<1>2. /\ HeaderEnd \in Nat /\ SlotAt \in Nat /\ TracksAt \in Nat /\ InfoAt \in Nat /\ layout.front \in Nat
      /\ HeaderEnd = SlotAt + layout.front /\ InfoAt < TracksAt /\ TracksAt < SlotAt
      /\ layout.live \in BOOLEAN /\ (layout.live => InfoAt = 0) /\ (~layout.live => InfoAt = 5)
  BY <1>1, Offs, LayoutIs DEF InfoAt
<1>3. HeaderEnd <= BodyEnd /\ BodyEnd <= Len(output) /\ BodyEnd \in Nat /\ Len(CuesElement) \in Nat \ {0}
  BY Sizes DEF Sealed
<1> DEFINE m == Len(CuesElement)
<1>4. /\ InSlot => layout.front > 0 /\ m <= layout.front
      /\ RestOfSlot = layout.front - m
  BY DEF InSlot, FitsFront, RestOfSlot
<1> HIDE DEF m
<1>5. m \in Nat \ {0}
  BY <1>3 DEF m
<1>6. p \in Nat
  BY <1>2, <1>5 DEF WalkPoints, m
<1>7. \A o \in 0 .. SlotAt - 1 : Header(file, o) = HeaderNow(o)
  BY SealedFile, HeaderLeftIs
<1>8. \A i \in 1 .. layout.front : Header(file, SlotAt + i - 1) =
        IF ~InSlot THEN VoidOf(layout.front)[i]
        ELSE IF i <= m THEN CuesElement[i] ELSE VoidOf(RestOfSlot)[i - m]
  <2>1. \A i \in 1 .. layout.front : output[SlotAt + i] = SlotNow(i)
    BY DEF WriterInv, SlotHolds, Sealed
  <2> TAKE i \in 1 .. layout.front
  <2> DEFINE o == SlotAt + i - 1
  <2>2. o \in Nat /\ o < InputLen(file) /\ o + 1 = SlotAt + i
    BY <1>1, <1>2, <1>3
  <2> HIDE DEF o
  <2>3. Header(file, o) = output[SlotAt + i]
    BY <1>1, <2>2
  <2>4. output[SlotAt + i] = SlotNow(i)
    BY <2>1
  <2> QED BY <2>3, <2>4 DEF SlotNow, Sealed, m, o
<1>9. CASE p = 0 /\ ~layout.live
  <2>1. h = HeaderNow(0)
    BY <1>2, <1>7, <1>9
  <2>2. h.id = "SeekHead"
    BY <1>1, <1>9, <2>1, HeaderNowIs
  <2> QED BY <1>1, <1>2, <1>3, <1>6, <1>9, <2>2
<1>10. CASE p = InfoAt
  <2>1. h = HeaderNow(InfoAt)
    BY <1>2, <1>7, <1>10
  <2>2. h.id = "Info"
    BY <1>1, <2>1, HeaderNowIs
  <2> QED BY <1>1, <1>2, <1>3, <1>6, <1>10, <2>2
<1>11. CASE p = TracksAt
  <2>1. h = HeaderNow(TracksAt)
    BY <1>2, <1>7, <1>11
  <2>2. h.id = "Tracks"
    BY <1>1, <2>1, HeaderNowIs
  <2> QED BY <1>1, <1>2, <1>3, <1>6, <1>11, <2>2
<1>12. CASE p = SlotAt /\ p # HeaderEnd /\ InSlot
  <2>1. 1 \in 1 .. layout.front /\ SlotAt + 1 - 1 = p
    BY <1>2, <1>4, <1>12
  <2>2. h = CuesElement[1]
    BY <1>5, <1>8, <1>12, <2>1
  <2>3. h.id = "Cues"
    <3>1. index \in Seq(Range(index))
      BY DEF WriterInv, WriterShape
    <3> QED BY <1>1, <2>2, <3>1, CuesElementIs
  <2> QED BY <1>1, <1>2, <1>3, <1>6, <1>12, <2>3
<1>13. CASE p = SlotAt /\ p # HeaderEnd /\ ~InSlot
  <2>1. 1 \in 1 .. layout.front /\ SlotAt + 1 - 1 = p /\ layout.front \in Nat \ {0}
    BY <1>2, <1>13
  <2>2. h = VoidOf(layout.front)[1]
    BY <1>8, <1>13, <2>1
  <2>3. h.id = "Void" /\ h.size = layout.front - 1
    <3> DEFINE n == layout.front
    <3> HIDE DEF n, h
    <3>1. VoidOf(n)[1] = [id |-> "Void", size |-> n - 1]
      BY <2>1, VoidIs DEF n
    <3>2. h = VoidOf(n)[1]
      BY <2>2 DEF n
    <3> QED BY <3>1, <3>2 DEF n
  <2>4. h.size \in Nat /\ p + layout.front = HeaderEnd /\ p + layout.front <= InputLen(file)
    BY <1>1, <1>2, <1>3, <1>13, <2>1, <2>3
  <2>5. Past(p + 1, h.size) = p + layout.front
    BY <1>1, <1>6, <2>1, <2>3, <2>4, AfterIs
  <2> QED BY <1>1, <1>2, <1>3, <1>6, <1>13, <2>3, <2>4, <2>5
<1>14. CASE p = SlotAt + m /\ InSlot /\ p # HeaderEnd
  <2>1. m + 1 \in 1 .. layout.front /\ SlotAt + (m + 1) - 1 = p /\ RestOfSlot \in Nat \ {0} /\ m + 1 - m = 1
        /\ ~(m + 1 <= m)
    BY <1>2, <1>4, <1>5, <1>14
  <2>2. h = VoidOf(RestOfSlot)[1]
    <3> DEFINE i == m + 1
    <3> HIDE DEF i
    <3>1. i \in 1 .. layout.front /\ SlotAt + i - 1 = p /\ i - m = 1 /\ ~(i <= m)
      BY <1>2, <1>5, <2>1 DEF i
    <3>2. Header(file, SlotAt + i - 1) = VoidOf(RestOfSlot)[i - m]
      BY <1>8, <1>14, <3>1
    <3> QED BY <3>1, <3>2
  <2>3. h.id = "Void" /\ h.size = RestOfSlot - 1
    <3> DEFINE n == RestOfSlot
    <3> HIDE DEF n, h
    <3>1. VoidOf(n)[1] = [id |-> "Void", size |-> n - 1]
      BY <2>1, VoidIs DEF n
    <3>2. h = VoidOf(n)[1]
      BY <2>2 DEF n
    <3> QED BY <3>1, <3>2 DEF n
  <2>4. h.size \in Nat /\ p + RestOfSlot = HeaderEnd /\ p + RestOfSlot <= InputLen(file)
    <3>1. h.size \in Nat
      <4> HIDE DEF h
      <4> QED BY <2>1, <2>3
    <3>2. p + RestOfSlot = HeaderEnd /\ p + RestOfSlot <= InputLen(file)
      <4>1. p = SlotAt + m /\ RestOfSlot = layout.front - m /\ HeaderEnd = SlotAt + layout.front
        BY <1>2, <1>4, <1>14
      <4>2. HeaderEnd <= InputLen(file)
        BY <1>1, <1>2, <1>3
      <4>3. p + RestOfSlot = HeaderEnd
        BY <1>2, <1>5, <4>1
      <4> QED BY <4>2, <4>3
    <3> QED BY <3>1, <3>2
  <2>5. Past(p + 1, h.size) = p + RestOfSlot
    BY <1>1, <1>6, <2>1, <2>3, <2>4, AfterIs
  <2>6. p < HeaderEnd /\ p < SegmentEnd /\ HeaderEnd <= Len(output)
    BY <1>1, <1>2, <1>3, <1>4, <1>5, <1>14, <2>1
  <2> QED BY <1>1, <1>6, <1>14, <2>3, <2>4, <2>5, <2>6 DEF m
<1>15. CASE p = HeaderEnd
  <2>1. CASE HeaderEnd < BodyEnd
    <3>1. output[HeaderEnd + 1].id = "Cluster"
      BY <2>1 DEF WriterInv, BodyHolds, Sealed
    <3> QED BY <1>1, <1>2, <1>3, <1>6, <1>15, <2>1, <3>1
  <2>2. CASE ~(HeaderEnd < BodyEnd)
    <3>1. HeaderEnd = BodyEnd
      BY <1>2, <1>3, <2>2
    <3>2. entry # None => InSlot
      <4> SUFFICES ASSUME entry # None, ~InSlot PROVE FALSE
        OBVIOUS
      <4>1. index # <<>>
        BY CuesAreIn
      <4>2. PICK i \in DOMAIN index : TRUE
        <5> DEFINE S == Range(index)
        <5>1. index \in Seq(S)
          BY DEF WriterInv, WriterShape
        <5> HIDE DEF S
        <5>2. Len(index) # 0 /\ Len(index) \in Nat /\ DOMAIN index = 1 .. Len(index)
          BY <4>1, <5>1
        <5>3. 1 \in DOMAIN index
          BY <5>2
        <5> QED BY <5>3
      <4>3. LET q == index[i] IN
            q.off \in Nat /\ q.num \in Nat \ {0} /\ \E tc \in 0 .. q.time : HoldsBlocks(q.off, tc, q.num)
        BY <4>2 DEF WriterInv, IndexHolds
      <4>4. index[i].off + 2 + 2 * index[i].num <= BodyEnd /\ HeaderEnd <= index[i].off
        BY <4>3 DEF HoldsBlocks
      <4> QED BY <1>2, <1>3, <3>1, <4>3, <4>4
    <3>3. entry = None \/ InSlot => BodyEnd = Len(output)
      BY DEF BodyEnd, InSlot
    <3> QED BY <1>1, <1>2, <1>3, <1>6, <1>15, <3>1, <3>2, <3>3
  <2> QED BY <2>1, <2>2
<1>16. p = 0 \/ p = InfoAt \/ p = TracksAt \/ p = SlotAt \/ p = HeaderEnd \/ (InSlot /\ p = SlotAt + m)
  BY DEF WalkPoints, m
<1> QED BY <1>2, <1>9, <1>10, <1>11, <1>12, <1>13, <1>14, <1>15, <1>16

-----------------------------------------------------------------------------
(* The targets behind the Clusters.                                        *)

WantedTarget(s) == s.id \in ChaseIds /\ found[s.id] = <<>> /\ s.at >= pos /\ s.at < SegmentEnd
JoinedTo(list, s) ==
  IF WantedTarget(s) /\ \A t \in Range(list) : t.id # s.id THEN Append(list, s) ELSE list

\* ToFollow, entry by entry.
LEMMA ToFollowUnfolds ==
  ASSUME IsSeq(found.SeekHead)
  PROVE  LET n == Len(found.SeekHead)
             S == Range(found.SeekHead) IN
         \E F \in [0 .. n -> Seq(S)] :
           /\ ToFollow = F[n] /\ F[0] = <<>>
           /\ \A d \in 1 .. n : F[d] = JoinedTo(F[d - 1], found.SeekHead[d])
<1> DEFINE n == Len(found.SeekHead)
           S == Range(found.SeekHead)
           D == 0 .. n
           V == Seq(S)
           m == [d \in D |-> d]
           b == [d \in D |-> <<>>]
           before == [d \in D |-> IF d = 0 THEN 0 ELSE d - 1]
           g == [d \in D |-> [list \in V |-> IF d = 0 THEN list ELSE JoinedTo(list, found.SeekHead[d])]]
           Joins(F) == F = [d \in D |-> IF d = 0 THEN <<>> ELSE JoinedTo(F[d - 1], found.SeekHead[d])]
<1>1. n \in Nat /\ \A d \in 1 .. n : found.SeekHead[d] \in S
  BY DEF IsSeq, Range
<1>2. m \in [D -> 0 .. n] /\ before \in [D -> D] /\ \A d \in D \ {0} : m[before[d]] < m[d]
  BY <1>1
<1>3. b \in [D -> V]
  <2> HIDE DEF S
  <2> QED OBVIOUS
<1>4. g \in [D -> [V -> V]]
  <2> SUFFICES ASSUME NEW d \in D, d # 0, NEW list \in V PROVE JoinedTo(list, found.SeekHead[d]) \in V
    OBVIOUS
  <2> DEFINE s == found.SeekHead[d]
  <2>1. s \in S
    BY <1>1
  <2> HIDE DEF s, S
  <2>2. Append(list, s) \in V
    BY <2>1
  <2> QED BY <2>2 DEF JoinedTo, s
<1> HIDE DEF m, b, before, g, V
<1>5. PICK F \in [D -> V] : Walks(F, D, {0}, b, before, g)
  <2> HIDE DEF D, n
  <2> QED BY <1>1, <1>2, <1>3, <1>4, WalkExists
<1>6. Joins(F)
  <2>1. ASSUME NEW d \in D
        PROVE  (IF d \in {0} THEN b[d] ELSE g[d][F[before[d]]])
                 = IF d = 0 THEN <<>> ELSE JoinedTo(F[d - 1], found.SeekHead[d])
    <3>1. CASE d = 0
      BY <3>1 DEF b
    <3>2. CASE d # 0
      <4>1. before[d] = d - 1 /\ d - 1 \in D
        BY <1>1, <3>2 DEF before
      <4>2. F[d - 1] \in V
        BY <1>5, <4>1
      <4>3. g[d][F[d - 1]] = JoinedTo(F[d - 1], found.SeekHead[d])
        BY <3>2, <4>2 DEF g
      <4> QED BY <3>2, <4>1, <4>3
    <3> QED BY <3>1, <3>2
  <2> QED BY <1>5, <2>1 DEF Walks
<1> DEFINE K == CHOOSE H : Joins(H)
<1>7. Joins(K)
  <2> HIDE DEF Joins
  <2> QED BY <1>6
<1>8. ToFollow = K[n]
  BY DEF ToFollow, JoinedTo, WantedTarget
<1>9. D \subseteq {d \in D : K[d] = F[d]}
  <2> DEFINE Good == {d \in D : K[d] = F[d]}
  <2>0. \A d \in D : K[d] = IF d = 0 THEN <<>> ELSE JoinedTo(K[d - 1], found.SeekHead[d])
    BY <1>7
  <2>f. \A d \in D : F[d] = IF d = 0 THEN <<>> ELSE JoinedTo(F[d - 1], found.SeekHead[d])
    BY <1>6
  <2> HIDE DEF Joins, K
  <2>1. ASSUME NEW d \in D, \A e \in D : m[e] < m[d] => e \in Good
        PROVE  d \in Good
    <3>1. CASE d = 0
      BY <2>0, <2>f, <3>1
    <3>2. CASE d # 0
      <4>1. d - 1 \in D /\ m[d - 1] < m[d]
        BY <1>1, <3>2 DEF m
      <4>2. K[d - 1] = F[d - 1]
        BY <2>1, <4>1
      <4> QED BY <2>0, <2>f, <3>2, <4>2
    <3> QED BY <3>1, <3>2
  <2>2. m \in [D -> Nat]
    BY DEF m
  <2> HIDE DEF Good, D
  <2>3. D \subseteq Good
    BY <2>1, <2>2, MeasureInduction
  <2> QED BY <2>3 DEF Good
<1>10. F[0] = <<>> /\ \A d \in 1 .. n : F[d] = JoinedTo(F[d - 1], found.SeekHead[d])
  <2>1. \A d \in D : F[d] = IF d = 0 THEN <<>> ELSE JoinedTo(F[d - 1], found.SeekHead[d])
    BY <1>6
  <2>2. 0 \in D /\ 1 .. n \subseteq D /\ 0 \notin 1 .. n
    BY <1>1
  <2> QED BY <2>1, <2>2
<1> HIDE DEF Joins, K
<1>11. ToFollow = F[n]
  <2>1. n \in D
    BY <1>1
  <2> QED BY <1>8, <1>9, <2>1
<1>12. F \in [D -> V]
  BY <1>5
<1> QED BY <1>10, <1>11, <1>12 DEF V

LEMMA ToFollowIs ==
  ASSUME IsSeq(found.SeekHead)
  PROVE  /\ IsSeq(ToFollow)
         /\ \A s \in Range(ToFollow) : s \in Range(found.SeekHead) /\ s.id \in ChaseIds /\ s.at >= pos
<1> DEFINE n == Len(found.SeekHead)
           S == Range(found.SeekHead)
           W == {s \in S : WantedTarget(s)}
<1>1. n \in Nat /\ \A d \in 1 .. n : found.SeekHead[d] \in S
  BY DEF IsSeq, Range
<1>2. PICK F \in [0 .. n -> Seq(S)] :
        /\ ToFollow = F[n] /\ F[0] = <<>>
        /\ \A d \in 1 .. n : F[d] = JoinedTo(F[d - 1], found.SeekHead[d])
  BY ToFollowUnfolds
<1> DEFINE Good == {d \in 0 .. n : F[d] \in Seq(W)}
           m == [d \in 0 .. n |-> d]
<1>3. ASSUME NEW d \in 0 .. n, \A e \in 0 .. n : m[e] < m[d] => e \in Good
      PROVE  d \in Good
  <2>1. CASE d = 0
    <3>1. <<>> \in Seq(W)
      <4> HIDE DEF W
      <4> QED OBVIOUS
    <3> QED BY <1>2, <2>1, <3>1
  <2>2. CASE d # 0
    <3> DEFINE s == found.SeekHead[d]
               list == F[d - 1]
    <3>1. d \in 1 .. n /\ d - 1 \in 0 .. n /\ m[d - 1] < m[d]
      BY <1>1, <2>2
    <3>2. list \in Seq(W) /\ s \in S /\ F[d] = JoinedTo(list, s)
      BY <1>1, <1>2, <1>3, <3>1
    <3>3. WantedTarget(s) => s \in W
      BY <3>2
    <3> HIDE DEF W, s, list
    <3>4. JoinedTo(list, s) \in Seq(W)
      BY <3>2, <3>3 DEF JoinedTo
    <3> QED BY <3>2, <3>4
  <2> QED BY <2>1, <2>2
<1>4. m \in [0 .. n -> Nat]
  BY <1>1
<1>5. 0 .. n \subseteq Good
  <2> DEFINE D == 0 .. n
  <2>1. m \in [D -> Nat] /\ \A d \in D : (\A e \in D : m[e] < m[d] => e \in Good) => d \in Good
    <3> HIDE DEF m, Good
    <3> QED BY <1>3, <1>4
  <2> HIDE DEF m, Good, D
  <2>2. D \subseteq Good
    BY <2>1, MeasureInduction
  <2> QED BY <2>2 DEF D
<1>6. ToFollow \in Seq(W)
  <2>1. n \in 0 .. n
    BY <1>1
  <2> QED BY <1>2, <1>5, <2>1
<1>7. IsSeq(ToFollow) /\ Range(ToFollow) \subseteq W
  <2> HIDE DEF W
  <2> QED BY <1>6 DEF IsSeq, Range
<1> QED BY <1>7 DEF WantedTarget

\* No entry is wanted, or only the third.
LEMMA ToFollowOne ==
  ASSUME IsSeq(found.SeekHead), \A i \in 1 .. 2 : i <= Len(found.SeekHead) => ~WantedTarget(found.SeekHead[i])
  PROVE  /\ Len(found.SeekHead) \in {0, 2} => ToFollow = <<>>
         /\ Len(found.SeekHead) = 3 =>
              ToFollow = IF WantedTarget(found.SeekHead[3]) THEN <<found.SeekHead[3]>> ELSE <<>>
<1> DEFINE n == Len(found.SeekHead)
           S == Range(found.SeekHead)
<1>1. PICK F \in [0 .. n -> Seq(S)] :
        /\ ToFollow = F[n] /\ F[0] = <<>>
        /\ \A d \in 1 .. n : F[d] = JoinedTo(F[d - 1], found.SeekHead[d])
  BY ToFollowUnfolds
<1>2. n \in {2, 3} => F[1] = <<>>
  <2> SUFFICES ASSUME n \in {2, 3} PROVE F[1] = <<>>
    OBVIOUS
  <2>1. 1 \in 1 .. n /\ 1 - 1 = 0 /\ 1 \in 1 .. 2 /\ 1 <= n
    OBVIOUS
  <2>2. F[1] = JoinedTo(F[0], found.SeekHead[1]) /\ ~WantedTarget(found.SeekHead[1])
    BY <1>1, <2>1
  <2> QED BY <1>1, <2>2 DEF JoinedTo
<1>3. n \in {2, 3} => F[2] = <<>>
  <2> SUFFICES ASSUME n \in {2, 3} PROVE F[2] = <<>>
    OBVIOUS
  <2>1. 2 \in 1 .. n /\ 2 - 1 = 1 /\ 2 \in 1 .. 2 /\ 2 <= n
    OBVIOUS
  <2>2. F[2] = JoinedTo(F[1], found.SeekHead[2]) /\ ~WantedTarget(found.SeekHead[2])
    BY <1>1, <2>1
  <2> QED BY <1>2, <2>2 DEF JoinedTo
<1>4. n = 3 => F[3] = IF WantedTarget(found.SeekHead[3]) THEN <<found.SeekHead[3]>> ELSE <<>>
  <2> SUFFICES ASSUME n = 3
               PROVE  F[3] = IF WantedTarget(found.SeekHead[3]) THEN <<found.SeekHead[3]>> ELSE <<>>
    OBVIOUS
  <2>1. 3 \in 1 .. n /\ 3 - 1 = 2
    OBVIOUS
  <2>2. F[3] = JoinedTo(<<>>, found.SeekHead[3])
    BY <1>1, <1>3, <2>1
  <2> DEFINE s == found.SeekHead[3]
  <2> HIDE DEF s
  <2>3. Append(<<>>, s) = <<s>> /\ Range(<<>>) = {}
    BY DEF Range
  <2>4. JoinedTo(<<>>, s) = IF WantedTarget(s) THEN <<s>> ELSE <<>>
    BY <2>3 DEF JoinedTo
  <2> QED BY <2>2, <2>4 DEF s
<1> QED BY <1>1, <1>3, <1>4

-----------------------------------------------------------------------------
(* The scan for Cues.                                                      *)

\* The end of a Cluster of unknown size, where the scan goes on, is none or
\* lies behind its start.
LEMMA UnknownClusterEndIs ==
  ASSUME NEW f, LegalFile(f), NEW end \in 0 .. Far, NEW body \in Nat
  PROVE  LET to == UnknownClusterEnd(f, body, end) IN to = None \/ (to \in Nat /\ to >= body /\ to < end)
<1> DEFINE V == Nat \cup {None}
           Turned(p, rest) ==
             LET c == Header(f, p) IN
             IF p >= end \/ ~Parses(c) THEN None
             ELSE IF c.id \notin PlainChildIds THEN p
             ELSE IF c.size = Unknown \/ Past(p + 1, c.size) > end THEN None
             ELSE rest
           v0 == None
           g == [p \in Nat |-> [rest \in V |-> Turned(p, rest)]]
           Turns(H) == H = [p \in Nat |-> Turned(p, H[NextAt(f, p)])]
<1>a. v0 \in V
  OBVIOUS
<1>0. v0 \in V /\ Far \in Nat /\ end \in Nat
  BY ProbeAssumption
<1>1. g \in [Nat -> [V -> V]]
  <2> SUFFICES ASSUME NEW p \in Nat, NEW rest \in V PROVE Turned(p, rest) \in V
    OBVIOUS
  <2> QED BY <1>0
<1>2. \A p \in Nat : p >= end => \A r \in V : g[p][r] = g[p][v0]
  <2> TAKE p \in Nat
  <2> HAVE p >= end
  <2> TAKE r \in V
  <2>1. Turned(p, r) = None /\ Turned(p, v0) = None
    OBVIOUS
  <2> HIDE DEF Turned, V
  <2> QED BY <1>0, <2>1
<1>3. ASSUME NEW G \in [Nat -> V], NEW p \in Nat
      PROVE  g[p][G[NextAt(f, p)]] = Turned(p, G[NextAt(f, p)])
  <2>1. NextAt(f, p) \in Nat
    BY NextIs DEF NextAt
  <2> HIDE DEF Turned, V
  <2> QED BY <2>1
<1> HIDE DEF g, V, v0
<1>4. PICK G \in [Nat -> V] : G = [p \in Nat |-> g[p][G[NextAt(f, p)]]]
  <2> HIDE DEF Turned, Turns
  <2> QED BY <1>a, <1>1, <1>2, FileWalkExists
<1>5. Turns(G)
  BY <1>3, <1>4
<1> DEFINE K == CHOOSE H : Turns(H)
<1>6. Turns(K)
  <2> HIDE DEF Turns
  <2> QED BY <1>5
<1>7. UnknownClusterEnd(f, body, end) = K[body]
  BY DEF UnknownClusterEnd, NextAt
<1>8. \A p \in Nat : K[p] = Turned(p, K[NextAt(f, p)])
  <2> HIDE DEF Turned, K
  <2> QED BY <1>6
<1> HIDE DEF Turns, K, Turned
<1> DEFINE Good == {p \in Nat : K[p] = None \/ (K[p] \in Nat /\ K[p] >= p /\ K[p] < end)}
<1>9. ASSUME NEW p \in Nat, p >= end PROVE p \in Good
  BY <1>8, <1>9 DEF Turned
<1>10. ASSUME NEW p \in Nat, p < end, NextAt(f, p) \in Good PROVE p \in Good
  <2>1. NextAt(f, p) \in Nat /\ NextAt(f, p) > p
    <3>1. p < Far
      BY <1>0, <1>10
    <3> QED BY <3>1, <1>0, NextIs DEF NextAt
  <2>2. K[p] = Turned(p, K[NextAt(f, p)])
    BY <1>8
  <2>3. K[p] = None \/ K[p] = p \/ K[p] = K[NextAt(f, p)]
    BY <2>2 DEF Turned
  <2> QED BY <1>0, <1>10, <2>1, <2>3
<1>11. Nat \subseteq Good
  <2> HIDE DEF Good
  <2> QED BY <1>9, <1>10, FileInduction
<1> QED BY <1>7, <1>11

\* The scan ends at a Cues, or finds none.
LEMMA CuesBehindIs ==
  ASSUME NEW f, LegalFile(f), NEW end \in 0 .. Far, NEW from \in Nat
  PROVE  LET p == CuesBehind(f, from, end) IN
         p \in {None, Far} \/ (p \in Nat /\ p < InputLen(f) /\ Header(f, p).id = "Cues")
<1> DEFINE D == Nat \cup {None}
           Ends == {p \in Nat : p < InputLen(f) /\ Header(f, p).id = "Cues"}
           V == {None, Far} \cup Ends
           Stop == {p \in D : \/ p = None \/ p >= end \/ ~Parses(Header(f, p)) \/ Header(f, p).id = "Cues"
                              \/ Header(f, p).size # Unknown /\ Past(p + 1, Header(f, p).size) > end
                              \/ Header(f, p).size = Unknown /\ Header(f, p).id # "Cluster"}
           b == [p \in D |->
                   LET h == Header(f, p) IN
                   IF p = None \/ p >= end THEN None
                   ELSE IF ~Parses(h) THEN Far
                   ELSE IF h.id = "Cues" THEN IF h.size = Unknown \/ Past(p + 1, h.size) <= end THEN p ELSE None
                   ELSE None]
           n == [p \in D |->
                   IF p \in Stop THEN p
                   ELSE IF Header(f, p).size # Unknown THEN Past(p + 1, Header(f, p).size)
                   ELSE UnknownClusterEnd(f, p + 1, end)]
           m == [p \in D |-> IF p # None /\ p < end THEN end - p ELSE 0]
           g == [p \in D |-> [rest \in V |-> rest]]
           Turned(H, p) ==
             LET h == Header(f, p) IN
             IF p = None \/ p >= end THEN None
             ELSE IF ~Parses(h) THEN Far
             ELSE IF h.id = "Cues" THEN IF h.size = Unknown \/ Past(p + 1, h.size) <= end THEN p ELSE None
             ELSE IF h.size # Unknown
                  THEN IF Past(p + 1, h.size) <= end THEN H[Past(p + 1, h.size)] ELSE None
             ELSE IF h.id = "Cluster" THEN H[UnknownClusterEnd(f, p + 1, end)]
             ELSE None
           Turns(H) == H = [p \in D |-> Turned(H, p)]
<1>0. Far \in Nat /\ end \in Nat /\ None \in D /\ None \notin Nat
  BY ProbeAssumption DEF None
<1>1. b \in [D -> V]
  <2> SUFFICES ASSUME NEW p \in D PROVE b[p] \in V
    OBVIOUS
  <2>1. p # None /\ Parses(Header(f, p)) => p \in Nat /\ p < InputLen(f)
    BY HeaderIs
  <2>2. b[p] \in {None, Far} \/ (b[p] = p /\ p # None /\ Parses(Header(f, p)) /\ Header(f, p).id = "Cues")
    OBVIOUS
  <2> HIDE DEF b
  <2> QED BY <2>1, <2>2
<1>2. ASSUME NEW p \in D \ Stop
      PROVE  /\ p \in Nat /\ p < end /\ n[p] \in D /\ m[n[p]] < m[p]
             /\ Header(f, p).size # Unknown => n[p] = Past(p + 1, Header(f, p).size)
             /\ Header(f, p).size = Unknown => n[p] = UnknownClusterEnd(f, p + 1, end)
  <2>1. p \in Nat /\ p < end /\ p < Far
    BY <1>0
  <2>2. Header(f, p).size # Unknown => n[p] = Past(p + 1, Header(f, p).size)
    OBVIOUS
  <2>3. Header(f, p).size = Unknown => n[p] = UnknownClusterEnd(f, p + 1, end)
    OBVIOUS
  <2> HIDE DEF n, Stop
  <2>4. Header(f, p).size # Unknown => n[p] \in Nat /\ n[p] > p
    BY <1>0, <2>1, <2>2, NextIs
  <2>5. Header(f, p).size = Unknown => n[p] = None \/ (n[p] \in Nat /\ n[p] >= p + 1)
    <3> DEFINE q == p + 1
    <3>1. q \in Nat
      BY <2>1
    <3> HIDE DEF q
    <3>2. LET to == UnknownClusterEnd(f, q, end) IN to = None \/ (to \in Nat /\ to >= q /\ to < end)
      BY <3>1, UnknownClusterEndIs
    <3> QED BY <2>3, <3>2 DEF q
  <2>6. m[n[p]] < m[p]
    BY <1>0, <2>1, <2>4, <2>5
  <2> QED BY <2>1, <2>2, <2>3, <2>4, <2>5, <2>6
<1>3. n \in [D -> D]
  <2> SUFFICES ASSUME NEW p \in D PROVE n[p] \in D
    <3> HIDE DEF D, Stop
    <3> QED OBVIOUS
  <2>1. p \in Stop => n[p] = p
    <3> HIDE DEF Stop
    <3> QED OBVIOUS
  <2> HIDE DEF n, Stop, m
  <2> QED BY <1>2, <2>1
<1>4. m \in [D -> 0 .. Far]
  BY <1>0
<1>5. g \in [D -> [V -> V]]
  OBVIOUS
<1>6. \A p \in D \ Stop : m[n[p]] < m[p]
  <2> HIDE DEF n, Stop, m, D
  <2> QED BY <1>2
<1> HIDE DEF n, Stop, m, D, b, V, g
<1>7. PICK F \in [D -> V] : Walks(F, D, Stop, b, n, g)
  BY <1>0, <1>1, <1>3, <1>4, <1>5, <1>6, WalkExists
<1>8. ASSUME NEW p \in D PROVE F[p] = Turned(F, p)
  <2>1. F[p] = IF p \in Stop THEN b[p] ELSE g[p][F[n[p]]]
    BY <1>7 DEF Walks
  <2>2. CASE p \in Stop
    <3>1. F[p] = b[p]
      BY <2>1, <2>2
    <3>2. Turned(F, p) = b[p]
      <4>1. p # None => p \in Nat /\ (Header(f, p).size # Unknown => Past(p + 1, Header(f, p).size) \in Nat)
        <5>1. p # None => p \in Nat
          BY DEF D
        <5> QED BY <1>0, <5>1, NextIs
      <4> DEFINE h == Header(f, p)
                 q == Past(p + 1, Header(f, p).size)
      <4>2. b[p] = IF p = None \/ p >= end THEN None
                   ELSE IF ~Parses(h) THEN Far
                   ELSE IF h.id = "Cues" THEN IF h.size = Unknown \/ q <= end THEN p ELSE None
                   ELSE None
        BY DEF b
      <4>3. \/ p = None \/ p >= end \/ ~Parses(h) \/ h.id = "Cues"
            \/ h.size # Unknown /\ q > end
            \/ h.size = Unknown /\ h.id # "Cluster"
        BY <2>2 DEF Stop
      <4>4. Turned(F, p) = IF p = None \/ p >= end THEN None
             ELSE IF ~Parses(h) THEN Far
             ELSE IF h.id = "Cues" THEN IF h.size = Unknown \/ q <= end THEN p ELSE None
             ELSE IF h.size # Unknown THEN IF q <= end THEN F[q] ELSE None
             ELSE IF h.id = "Cluster" THEN F[UnknownClusterEnd(f, p + 1, end)]
             ELSE None
        OBVIOUS
      <4>5. p # None /\ h.size # Unknown => (q > end <=> ~(q <= end))
        BY <1>0, <4>1
      <4> HIDE DEF h, q, Turned
      <4> QED BY <4>2, <4>3, <4>4, <4>5
    <3> QED BY <3>1, <3>2
  <2>3. CASE p \notin Stop
    <3>1. F[n[p]] \in V
      BY <1>3, <1>7
    <3>2. F[p] = F[n[p]]
      BY <2>1, <2>3, <3>1 DEF g
    <3>3. Turned(F, p) = F[n[p]]
      <4>1. /\ p # None /\ ~(p >= end) /\ Parses(Header(f, p)) /\ Header(f, p).id # "Cues"
            /\ Header(f, p).size # Unknown => ~(Past(p + 1, Header(f, p).size) > end)
            /\ Header(f, p).size = Unknown => Header(f, p).id = "Cluster"
        BY <2>3 DEF Stop
      <4>2. Header(f, p).size # Unknown => Past(p + 1, Header(f, p).size) <= end
        <5>1. p \in Nat
          BY <4>1 DEF D
        <5>2. Past(p + 1, Header(f, p).size) \in 0 .. Far
          BY <5>1, NextIs
        <5> QED BY <1>0, <4>1, <5>2
      <4>3. /\ Header(f, p).size # Unknown => n[p] = Past(p + 1, Header(f, p).size)
            /\ Header(f, p).size = Unknown => n[p] = UnknownClusterEnd(f, p + 1, end)
        BY <1>2, <2>3
      <4> QED BY <4>1, <4>2, <4>3
    <3> QED BY <3>2, <3>3
  <2> QED BY <2>2, <2>3
<1> HIDE DEF Turned
<1>9. Turns(F)
  BY <1>7, <1>8
<1> DEFINE K == CHOOSE H : Turns(H)
<1>10. Turns(K)
  <2> HIDE DEF Turns
  <2> QED BY <1>9
<1>11. CuesBehind(f, from, end) = K[from]
  BY DEF CuesBehind, Turned, D
<1>12. \A p \in D : K[p] = Turned(K, p)
  BY <1>10
<1> HIDE DEF Turns, K
<1> DEFINE Good == {p \in D : K[p] = F[p]}
<1>13. ASSUME NEW p \in D, \A q \in D : m[q] < m[p] => q \in Good
       PROVE  p \in Good
  <2>1. K[p] = Turned(K, p) /\ F[p] = Turned(F, p)
    BY <1>8, <1>12
  <2>2. CASE p \in Stop
    <3>1. Turned(K, p) = Turned(F, p)
      <4>1. p # None => p \in Nat /\ (Header(f, p).size # Unknown => Past(p + 1, Header(f, p).size) \in Nat)
        <5>1. p # None => p \in Nat
          BY DEF D
        <5> QED BY <1>0, <5>1, NextIs
      <4> QED BY <1>0, <2>2, <4>1 DEF Turned, Stop
    <3> QED BY <2>1, <3>1
  <2>3. CASE p \notin Stop
    <3>1. n[p] \in D /\ m[n[p]] < m[p]
      BY <1>2, <2>3
    <3>2. K[n[p]] = F[n[p]]
      BY <1>13, <3>1
    <3>3. /\ Header(f, p).size # Unknown => n[p] = Past(p + 1, Header(f, p).size)
          /\ Header(f, p).size = Unknown => n[p] = UnknownClusterEnd(f, p + 1, end)
      BY <1>2, <2>3
    <3> QED BY <2>1, <3>2, <3>3 DEF Turned
  <2> QED BY <2>2, <2>3
<1>14. m \in [D -> Nat]
  BY <1>0, <1>4
<1> HIDE DEF Good
<1>15. D \subseteq Good
  BY <1>13, <1>14, MeasureInduction
<1>16. CuesBehind(f, from, end) = F[from] /\ F[from] \in V
  <2>1. from \in D
    BY DEF D
  <2>2. K[from] = F[from]
    BY <1>15, <2>1 DEF Good
  <2> QED BY <1>7, <1>11, <2>1, <2>2
<1> QED BY <1>16 DEF V

-----------------------------------------------------------------------------
(* A step of the reader leaves what was written, and so what follows of it. *)

LEMMA WriterSame ==
  ASSUME UNCHANGED writer
  PROVE  /\ UNCHANGED <<output, layout, step, left, cluster, index, entry, maxEnd, stored>>
         /\ InSlot' = InSlot /\ BodyEnd' = BodyEnd /\ Sealed' = Sealed /\ CuesPlace' = CuesPlace
         /\ SeekPatched' = SeekPatched /\ DurationPatched' = DurationPatched /\ CrcPatched' = CrcPatched
         /\ TrueDuration' = TrueDuration /\ WalkPoints' = WalkPoints
<1>1. UNCHANGED <<output, layout, step, left, cluster, index, entry, maxEnd, stored>>
  BY DEF writer
<1>2. /\ HeaderEnd' = HeaderEnd /\ SlotAt' = SlotAt /\ TracksAt' = TracksAt /\ InfoAt' = InfoAt
      /\ CuesElement' = CuesElement /\ FitsFront' = FitsFront
  BY <1>1, SameLayout, SameIndex
<1>3. InSlot' = InSlot /\ Sealed' = Sealed /\ SeekPatched' = SeekPatched /\ Timed' = Timed
  BY <1>1, <1>2 DEF InSlot, Sealed, SeekPatched, Timed
<1>4. BodyEnd' = BodyEnd /\ DurationPatched' = DurationPatched /\ CrcPatched' = CrcPatched
  BY <1>1, <1>2, <1>3 DEF BodyEnd, DurationPatched, CrcPatched
<1>5. CuesPlace' = CuesPlace /\ TrueDuration' = TrueDuration
  BY <1>1, <1>2, <1>4 DEF CuesPlace, TrueDuration
<1>6. WalkPoints' = WalkPoints
  BY <1>2, <1>3 DEF WalkPoints
<1> QED BY <1>1, <1>3, <1>4, <1>5, <1>6

LEMMA SeekEntriesSame ==
  ASSUME UNCHANGED writer
  PROVE  SeekEntries' = SeekEntries
<1>1. TracksAt' = TracksAt /\ SeekPatched' = SeekPatched /\ layout' = layout /\ entry' = entry
  BY WriterSame, SameLayout
<1> QED BY <1>1 DEF SeekEntries

LEMMA LeftStays ==
  ASSUME UNCHANGED writer, NEW c
  PROVE  (TracksHeld(c)' <=> TracksHeld(c)) /\ (LeftTruly(c)' <=> LeftTruly(c))
<1>1. /\ UNCHANGED <<output, layout, step, left, cluster, index, entry, maxEnd, stored>>
      /\ InSlot' = InSlot /\ BodyEnd' = BodyEnd /\ Sealed' = Sealed /\ CuesPlace' = CuesPlace
      /\ SeekPatched' = SeekPatched /\ DurationPatched' = DurationPatched /\ CrcPatched' = CrcPatched
  BY WriterSame
<1>2. /\ HeaderCells' = HeaderCells /\ HeaderEnd' = HeaderEnd /\ SlotAt' = SlotAt
      /\ TracksAt' = TracksAt /\ InfoAt' = InfoAt /\ CrcAt' = CrcAt /\ DurationAt' = DurationAt
      /\ InfoBody' = InfoBody
      /\ CuesElement' = CuesElement
  BY <1>1, SameLayout, SameIndex
<1>3. PatchedInfoBody' = PatchedInfoBody
  BY <1>1, <1>2 DEF PatchedInfoBody
<1>4. \A o : HeaderNow(o)' = HeaderNow(o)
  BY <1>1, <1>2, <1>3 DEF HeaderNow
<1>5. TracksHeld(c)' <=> TracksHeld(c)
  BY <1>2 DEF TracksHeld
<1>6. CellsLegal(c)' <=> CellsLegal(c)
  BY <1>1 DEF CellsLegal
<1>7. MastersInPlace(c)' <=> MastersInPlace(c)
  BY <1>1, <1>2 DEF MastersInPlace
<1>8. HeaderLeft(c)' <=> HeaderLeft(c)
  BY <1>2, <1>4, <1>5 DEF HeaderLeft
<1>9. CuesLeft(c)' <=> CuesLeft(c)
  BY <1>1, <1>2 DEF CuesLeft
<1>10. BodyLeft(c)' <=> BodyLeft(c)
  BY <1>1, <1>2 DEF BodyLeft
<1> QED BY <1>1, <1>5, <1>6, <1>7, <1>8, <1>9, <1>10 DEF LeftTruly

-----------------------------------------------------------------------------
(* Sequences again.                                                        *)

LEMMA InSeq ==
  ASSUME NEW s, IsSeq(s)
  PROVE  s \in Seq(Range(s))
<1>1. Len(s) \in Nat /\ s \in [1 .. Len(s) -> Range(s)]
  BY DEF IsSeq, Range
<1> DEFINE n == Len(s)
<1> HIDE DEF n
<1>2. n \in Nat /\ s \in [1 .. n -> Range(s)]
  BY <1>1 DEF n
<1> QED BY <1>2, SeqDef

LEMMA SeqIn ==
  ASSUME NEW S, NEW s \in Seq(S)
  PROVE  IsSeq(s) /\ Range(s) \subseteq S
BY DEF IsSeq, Range

LEMMA InRange ==
  ASSUME NEW s, IsSeq(s), NEW x
  PROVE  x \in Range(s) <=> \E i \in 1 .. Len(s) : x = s[i]
<1>1. DOMAIN s = 1 .. Len(s)
  BY DEF IsSeq
<1> QED BY <1>1 DEF Range

LEMMA RangeOfConcat ==
  ASSUME NEW s, IsSeq(s), NEW t, IsSeq(t)
  PROVE  IsSeq(s \o t) /\ Range(s \o t) \subseteq Range(s) \cup Range(t)
<1>0. IsSeq(s \o t)
  BY ConcatIs
<1>1. SUFFICES ASSUME NEW x \in Range(s \o t) PROVE x \in Range(s) \/ x \in Range(t)
  BY <1>0
<1>2. Len(s) \in Nat /\ Len(t) \in Nat
  BY DEF IsSeq
<1>3. PICK i \in 1 .. Len(s \o t) : x = (s \o t)[i]
  BY <1>0, <1>1, InRange
<1>4. i \in 1 .. Len(s) + Len(t)
  BY <1>3, ConcatIs
<1>5. CASE i <= Len(s)
  <2>1. i \in 1 .. Len(s) /\ x = s[i]
    BY <1>2, <1>3, <1>4, <1>5, ConcatIs
  <2> QED BY <2>1, InRange
<1>6. CASE i > Len(s)
  <2>1. i \in Len(s) + 1 .. Len(s) + Len(t) /\ i - Len(s) \in 1 .. Len(t)
    BY <1>2, <1>4, <1>6
  <2>2. x = t[i - Len(s)]
    BY <1>3, <2>1, ConcatIs
  <2> QED BY <2>1, <2>2, InRange
<1> QED BY <1>2, <1>4, <1>5, <1>6

LEMMA EmptyConcat ==
  ASSUME NEW s, IsSeq(s)
  PROVE  <<>> \o s = s /\ s \o <<>> = s
<1>0. IsSeq(<<>>) /\ Len(<<>>) = 0 /\ Len(s) \in Nat
  BY EmptyIs DEF IsSeq
<1> DEFINE e == <<>>
<1>e. IsSeq(e) /\ Len(e) = 0
  BY <1>0
<1> HIDE DEF e
<1>1. e \o s = s
  <2>1. /\ IsSeq(e \o s) /\ Len(e \o s) = Len(e) + Len(s)
        /\ \A i \in Len(e) + 1 .. Len(e) + Len(s) : (e \o s)[i] = s[i - Len(e)]
    BY <1>e, ConcatIs
  <2>2. Len(e \o s) = Len(s) /\ \A i \in 1 .. Len(s) : (e \o s)[i] = s[i]
    BY <1>0, <1>e, <2>1
  <2> QED BY <2>1, <2>2, SameSeqs
<1>2. s \o e = s
  <2>1. /\ IsSeq(s \o e) /\ Len(s \o e) = Len(s) + Len(e)
        /\ \A i \in 1 .. Len(s) : (s \o e)[i] = s[i]
    BY <1>e, ConcatIs
  <2>2. Len(s \o e) = Len(s)
    BY <1>0, <1>e, <2>1
  <2> QED BY <2>1, <2>2, SameSeqs
<1> QED BY <1>1, <1>2 DEF e

-----------------------------------------------------------------------------
(* What a step of opening must show.                                       *)

\* The entries of the index are cues a file may have.
LEMMA CueTypes ==
  ASSUME WriterInv, Opening, step \notin {"header", "packets"}, NEW q \in Range(index)
  PROVE  q.time \in Int /\ q.off \in 0 .. Far /\ q.rel \in Nat \cup {None} /\ q.num \in Nat \cup {None}
<1>1. IsSeq(index)
  BY DEF WriterInv, WriterShape, IsSeq, Range
<1>2. PICK i \in DOMAIN index : q = index[i]
  BY DEF Range
<1>3. /\ q.time \in Nat /\ q.off \in Nat /\ q.num \in Nat \ {0} /\ q.rel = 2 * q.num - 1
      /\ \E tc \in 0 .. q.time : HoldsBlocks(q.off, tc, q.num)
  BY <1>2 DEF WriterInv, IndexHolds
<1>4. q.off + 2 + 2 * q.num <= BodyEnd
  BY <1>3 DEF HoldsBlocks
<1>5. BodyEnd <= Len(file.cells) /\ BodyEnd \in Nat /\ Len(file.cells) \in 0 .. Far /\ Far \in Nat
  BY OpenedIs, Sizes DEF LeftTruly, BodyLeft
<1> QED BY <1>3, <1>4, <1>5

LEMMA SeekEntriesAre ==
  ASSUME WriterInv
  PROVE  /\ IsSeq(SeekEntries) /\ Len(SeekEntries) \in {0, 2, 3}
         /\ \A i \in 1 .. 2 : i <= Len(SeekEntries) => SeekEntries[i].id \notin ChaseIds
         /\ Len(SeekEntries) = 3 =>
              /\ ~layout.live /\ ~(SeekPatched /\ entry = None)
              /\ SeekEntries[3] = [id |-> "Cues", at |-> IF SeekPatched THEN entry ELSE 0]
         /\ \A s \in Range(SeekEntries) : s.at \in Nat /\ (s.id \in ChaseIds => s.id = "Cues")
<1>1. layout \in Layouts /\ TracksAt \in Nat /\ entry \in Nat \cup {None}
  BY Offs DEF WriterInv, WriterShape
<1> DEFINE info == [id |-> "Info", at |-> Offsets.Info]
           tracks == [id |-> "Tracks", at |-> TracksAt]
           cues == [id |-> "Cues", at |-> IF SeekPatched THEN entry ELSE 0]
<1>2. /\ info.id \notin ChaseIds /\ tracks.id \notin ChaseIds /\ cues.id = "Cues"
      /\ info.at \in Nat /\ tracks.at \in Nat
      /\ ~(SeekPatched /\ entry = None) => cues.at \in Nat
  BY <1>1 DEF ChaseIds, Offsets
<1>3. CASE layout.live
  <2>1. SeekEntries = <<>>
    BY <1>3 DEF SeekEntries
  <2> QED BY <2>1, EmptyIs DEF Range
<1>4. CASE ~layout.live /\ SeekPatched /\ entry = None
  <2>1. SeekEntries = <<info, tracks>>
    BY <1>4 DEF SeekEntries
  <2> HIDE DEF info, tracks, cues
  <2> QED BY <1>2, <2>1 DEF IsSeq, Range
<1>5. CASE ~layout.live /\ ~(SeekPatched /\ entry = None)
  <2>1. SeekEntries = <<info, tracks, cues>>
    BY <1>5 DEF SeekEntries
  <2>2. cues.at \in Nat /\ cues = [id |-> "Cues", at |-> IF SeekPatched THEN entry ELSE 0]
    BY <1>2, <1>5
  <2> HIDE DEF info, tracks, cues
  <2>3. IsSeq(SeekEntries) /\ Len(SeekEntries) = 3 /\ SeekEntries[3] = cues
    BY <2>1 DEF IsSeq
  <2>4. \A i \in 1 .. 2 : SeekEntries[i].id \notin ChaseIds
    BY <1>2, <2>1
  <2>5. Range(SeekEntries) = {info, tracks, cues}
    BY <2>1 DEF Range
  <2> QED BY <1>2, <1>5, <2>2, <2>3, <2>4, <2>5
<1> QED BY <1>3, <1>4, <1>5

\* What a master yielded goes behind what there was.
LEMMA LiftedIntoIs ==
  ASSUME DOMAIN found = MasterIds \cup {"Duration"}, \A id \in DOMAIN found : IsSeq(found[id]),
         NEW id \in MasterIds, NEW r, IsSeq(r.values["Item"]), IsSeq(r.values["Duration"]),
         found' = LiftedInto(id, r)
  PROVE  /\ DOMAIN found' = MasterIds \cup {"Duration"} /\ \A i \in DOMAIN found' : IsSeq(found'[i])
         /\ found'[id] = found[id] \o r.values["Item"]
         /\ found'["Duration"] = found["Duration"] \o r.values["Duration"]
         /\ \A i \in MasterIds \ {id} : found'[i] = found[i]
<1> DEFINE a == r.values["Item"]
           d == r.values["Duration"]
<1>1. found' = [found EXCEPT ![id] = @ \o a, !["Duration"] = @ \o d]
  BY DEF LiftedInto
<1>2. id # "Duration" /\ "Duration" \notin MasterIds
  BY DEF MasterIds
<1>3. IsSeq(a) /\ IsSeq(d) /\ IsSeq(found[id]) /\ IsSeq(found["Duration"])
  OBVIOUS
<1> HIDE DEF a, d
<1>4. /\ DOMAIN found' = MasterIds \cup {"Duration"}
      /\ found'[id] = found[id] \o a /\ found'["Duration"] = found["Duration"] \o d
      /\ \A i \in MasterIds \ {id} : found'[i] = found[i]
  BY <1>1, <1>2
<1>5. IsSeq(found[id] \o a) /\ IsSeq(found["Duration"] \o d)
  BY <1>3, ConcatIs
<1>6. \A i \in DOMAIN found' : IsSeq(found'[i])
  BY <1>4, <1>5
<1> QED BY <1>4, <1>6 DEF a, d

\* A change of its other fields keeps a file legal.
LEMMA LegalKept ==
  ASSUME LegalFile(file), NEW g, g.cells = file.cells, g.clusters = file.clusters,
         g.resilient = file.resilient, g.dataEnd = InputLen(file), g.first \in (0 .. Far) \cup {None},
         IsSeq(g.cues),
         \A q \in Range(g.cues) :
           q.time \in Int /\ q.off \in 0 .. Far /\ q.rel \in Nat \cup {None} /\ q.num \in Nat \cup {None}
  PROVE  LegalFile(g)
<1>1. InputLen(g) = InputLen(file) /\ \A c : Header(g, c) = Header(file, c)
  BY DEF InputLen, Header
<1>2. \A c \in file.clusters : c \in Nat /\ Header(file, c).id = "Cluster"
  BY DEF LegalFile
<1>3. \A c \in file.clusters : c < InputLen(file)
  <2> TAKE c \in file.clusters
  <2>1. InputLen(file) \in Nat /\ c \in Nat
    BY <1>2, ProbeAssumption DEF LegalFile
  <2>2. c >= InputLen(file) => Header(file, c) = NoElement
    BY <2>1 DEF Header
  <2> QED BY <1>2, <2>1, <2>2 DEF NoElement
<1>4. g.cues \in Seq(Range(g.cues))
  BY InSeq
<1> QED BY <1>1, <1>2, <1>3, <1>4 DEF LegalFile

LEMMA FileIs ==
  ASSUME WriterInv, Opening, UNCHANGED writer, phase # "start" \/ phase' # "start",
         FileFields \subseteq DOMAIN file', file'.cells = file.cells, file'.clusters = file.clusters,
         file'.resilient = file.resilient, file'.declared = file.declared, file'.intact = file.intact,
         file'.dataEnd = InputLen(file), file'.first \in (0 .. Far) \cup {None},
         IsSeq(file'.cues), Range(file'.cues) \subseteq Range(index),
         file'.cues # <<>> => phase' = "open" /\ step \notin {"header", "packets"}
  PROVE  FileLeft'
<1>1. UNCHANGED <<step, index>>
  BY WriterSame
<1>2. LegalFile(file')
  <2>1. ASSUME NEW q \in Range(file'.cues)
        PROVE  q.time \in Int /\ q.off \in 0 .. Far /\ q.rel \in Nat \cup {None} /\ q.num \in Nat \cup {None}
    <3>1. file'.cues # <<>>
      BY <2>1 DEF Range
    <3> QED BY <2>1, <3>1, CueTypes
  <2>2. LegalFile(file)
    BY OpenedIs
  <2> QED BY <2>1, <2>2, LegalKept
<1>3. LeftTruly(file.cells)'
  <2> DEFINE c == file.cells
  <2>1. LeftTruly(c)
    BY OpenedIs
  <2>2. PICK d : d = c
    OBVIOUS
  <2>3. LeftTruly(d)'
    BY <2>1, <2>2, LeftStays
  <2>4. d = file'.cells
    BY <2>2
  <2> QED BY <2>3, <2>4
<1>4. InputLen(file') = InputLen(file)
  BY DEF InputLen
<1>5. file.declared = Unknown /\ file.intact = (step = "done")
  BY DEF Opening, FileLeft
<1> QED BY <1>1, <1>2, <1>3, <1>4, <1>5 DEF FileLeft

\* What of FoundTruly a step must show.
LEMMA FoundIs ==
  ASSUME UNCHANGED writer, file'.cells = file.cells,
         DOMAIN found' = MasterIds \cup {"Duration"}, \A id \in DOMAIN found' : IsSeq(found'[id]),
         IsSeq(crcs'), IsSeq(chase'),
         Range(found'.SeekHead) \subseteq Range(SeekEntries), Range(found'.Cues) \subseteq Range(index),
         found'.Cues # <<>> => step \notin {"header", "packets"},
         found'.Tracks # <<>> => TracksHeld(file.cells), phase' = "open" => found'.Tracks # <<>>,
         ~Sealed => found'.Duration = <<>>, phase' = "walk" => chase' = <<>>,
         \A s \in Range(chase') : s.id \in ChaseIds /\ s.at \in Nat,
         TracksHeld(file.cells) => \A c \in Range(crcs') : ChecksumIsTrue(c)
  PROVE  FoundTruly'
<1>1. UNCHANGED <<step, index>> /\ Sealed' = Sealed /\ SeekEntries' = SeekEntries
  BY WriterSame, SeekEntriesSame
<1>2. TracksHeld(file.cells)' <=> TracksHeld(file.cells)
  <2>1. PICK d : d = file.cells
    OBVIOUS
  <2>2. TracksHeld(d)' <=> TracksHeld(d)
    BY LeftStays
  <2> QED BY <2>1, <2>2
<1>3. \A c : ChecksumIsTrue(c)' <=> ChecksumIsTrue(c)
  BY <1>1 DEF ChecksumIsTrue
<1> QED BY <1>1, <1>2, <1>3 DEF FoundTruly

LEMMA SealedWalkIs ==
  ASSUME UNCHANGED writer,
         Sealed /\ phase' = "walk" =>
           /\ pos' \in WalkPoints
           /\ found'.SeekHead = (IF pos' >= InfoAt THEN SeekEntries ELSE <<>>)
           /\ found'.Duration = (IF pos' >= TracksAt THEN TrueDuration ELSE <<>>)
           /\ found'.Cues = (IF pos' > SlotAt /\ InSlot THEN index ELSE <<>>)
  PROVE  SealedWalk'
<1>1. /\ Sealed' = Sealed /\ WalkPoints' = WalkPoints /\ SeekEntries' = SeekEntries /\ layout' = layout
      /\ TrueDuration' = TrueDuration /\ InSlot' = InSlot /\ index' = index
  BY WriterSame, SeekEntriesSame
<1>2. InfoAt' = InfoAt /\ TracksAt' = TracksAt /\ SlotAt' = SlotAt
  BY <1>1, SameLayout
<1> QED BY <1>1, <1>2 DEF SealedWalk

LEMMA SealedEndIs ==
  ASSUME UNCHANGED writer,
         Sealed /\ phase' \in {"chase", "open"} =>
           /\ found'.Duration = TrueDuration
           /\ step = "done" /\ ~layout.live =>
                IF phase' = "open" THEN file'.cues = index
                ELSE \/ found'.Cues = index /\ chase' = <<>>
                     \/ /\ entry # None /\ ~FitsFront /\ found'.Cues = <<>>
                        /\ chase' = <<[id |-> "Cues", at |-> entry]>>
  PROVE  SealedEnd'
<1>1. Sealed' = Sealed /\ TrueDuration' = TrueDuration /\ UNCHANGED <<layout, step, index, entry>>
  BY WriterSame
<1>2. FitsFront' = FitsFront
  BY <1>1, SameIndex
<1> QED BY <1>1, <1>2 DEF SealedEnd

\* What is known of a file that is being opened.
LEMMA InWalk ==
  ASSUME WriterInv, Opening, phase # "start"
  PROVE  /\ SegmentEnd = InputLen(file) /\ SegmentEnd \in Nat /\ InputLen(file) \in 0 .. Far /\ Far \in Nat
         /\ FileFields \subseteq DOMAIN file /\ file.dataEnd = InputLen(file) /\ IsSeq(file.cues)
         /\ Range(file.cues) \subseteq Range(index) /\ file.first \in (0 .. Far) \cup {None}
         /\ DOMAIN found = MasterIds \cup {"Duration"} /\ \A id \in DOMAIN found : IsSeq(found[id])
         /\ IsSeq(crcs) /\ IsSeq(chase)
         /\ Offsets.Info = 5 /\ InfoAt \in Nat /\ TracksAt \in Nat /\ SlotAt \in Nat /\ HeaderEnd \in Nat
         /\ InfoAt < TracksAt /\ TracksAt < SlotAt /\ HeaderEnd = SlotAt + layout.front
         /\ layout.front \in Nat /\ Len(CuesElement) \in Nat \ {0}
         /\ IsSeq(index) /\ IsSeq(SeekEntries) /\ IsSeq(TrueDuration)
<1>1. /\ SegmentEnd = InputLen(file) /\ InputLen(file) \in Nat /\ InputLen(file) \in 0 .. Far /\ Far \in Nat
      /\ layout \in Layouts /\ LegalFile(file)
  BY OpenedIs
<1>2. /\ FileFields \subseteq DOMAIN file /\ file.dataEnd = InputLen(file)
      /\ Range(file.cues) \subseteq Range(index)
  BY DEF Opening, FileLeft
<1>3. file.first \in (0 .. Far) \cup {None} /\ file.cues \in Seq(Range(file.cues))
  BY <1>1 DEF LegalFile
<1>4. IsSeq(file.cues)
  BY <1>3, SeqIn
<1>5. /\ DOMAIN found = MasterIds \cup {"Duration"} /\ \A id \in DOMAIN found : IsSeq(found[id])
      /\ IsSeq(crcs) /\ IsSeq(chase)
  BY DEF Opening, FoundTruly
<1>6. /\ InfoAt \in Nat /\ TracksAt \in Nat /\ SlotAt \in Nat /\ HeaderEnd \in Nat
      /\ InfoAt < TracksAt /\ TracksAt < SlotAt /\ HeaderEnd = SlotAt + layout.front
      /\ layout.front \in Nat
  BY <1>1, Offs
<1>7. Len(CuesElement) \in Nat \ {0}
  BY Sizes
<1>8. IsSeq(index)
  BY SeqIn DEF WriterInv, WriterShape
<1>9. IsSeq(SeekEntries)
  BY SeekEntriesAre
<1>10. IsSeq(TrueDuration)
  BY EmptyIs, SingleIs DEF TrueDuration
<1> QED BY <1>1, <1>2, <1>3, <1>4, <1>5, <1>6, <1>7, <1>8, <1>9, <1>10 DEF Offsets

\* A step that leaves the file and what was found.
LEMMA NothingFound ==
  ASSUME WriterInv, Opening, phase # "start", UNCHANGED <<file, found, crcs, chase, writer>>,
         phase' = "walk" => phase = "walk", phase' # "start",
         phase' = "open" <=> phase = "open"
  PROVE  FileLeft' /\ FoundTruly'
<1>1. FoundTruly
  BY DEF Opening
<1>2. FileLeft /\ LegalFile(file)
  BY DEF Opening, FileLeft
<1>3. FoundTruly'
  <2>1. \A s \in Range(chase) : s.id \in ChaseIds /\ s.at \in Nat
    BY <1>1 DEF FoundTruly
  <2>2. phase' = "open" => found'.Tracks # <<>>
    BY <1>1 DEF FoundTruly
  <2>3. phase' = "walk" => chase' = <<>>
    BY <1>1 DEF FoundTruly
  <2>4. ~Sealed => found'.Duration = <<>>
    BY <1>1 DEF FoundTruly
  <2>5. TracksHeld(file.cells) => \A c \in Range(crcs') : ChecksumIsTrue(c)
    BY <1>1 DEF FoundTruly
  <2>6. /\ DOMAIN found' = MasterIds \cup {"Duration"} /\ \A id \in DOMAIN found' : IsSeq(found'[id])
        /\ IsSeq(crcs') /\ IsSeq(chase')
        /\ Range(found'.SeekHead) \subseteq Range(SeekEntries)
        /\ Range(found'.Cues) \subseteq Range(index)
        /\ found'.Cues # <<>> => step \notin {"header", "packets"}
        /\ found'.Tracks # <<>> => TracksHeld(file.cells)
    BY <1>1 DEF FoundTruly
  <2>7. file'.cells = file.cells
    OBVIOUS
  <2> QED BY <2>1, <2>2, <2>3, <2>4, <2>5, <2>6, <2>7, FoundIs
<1>4. FileLeft'
  <2>1. /\ FileFields \subseteq DOMAIN file /\ file.dataEnd = InputLen(file) /\ IsSeq(file.cues)
        /\ Range(file.cues) \subseteq Range(index) /\ file.first \in (0 .. Far) \cup {None}
    BY InWalk
  <2>2. file'.cues # <<>> => phase' = "open" /\ step \notin {"header", "packets"}
    BY <1>2 DEF FileLeft
  <2> QED BY <2>1, <2>2, FileIs
<1> QED BY <1>3, <1>4

\* Calls of the open demuxer.
LEMMA CallsKeep ==
  ASSUME WriterInv, Opening, phase = "open", UNCHANGED <<file, opening, writer>>
  PROVE  Opening'
<1>1. UNCHANGED <<phase, found, crcs, chase>>
  BY DEF opening
<1>2. FileLeft' /\ FoundTruly'
  BY <1>1, NothingFound
<1>3. SealedWalk'
  BY <1>1, SealedWalkIs
<1>4. SealedEnd'
  BY <1>1, SealedEndIs DEF Opening, SealedEnd
<1> QED BY <1>1, <1>2, <1>3, <1>4 DEF Opening, ReaderPlace

LEMMA OpenSegmentKeeps ==
  ASSUME WriterInv, Opening, Blank, OpenSegment, UNCHANGED writer
  PROVE  Opening'
<1>1. /\ phase = "start" /\ phase' = "walk" /\ pos' = 0
      /\ file' = [file EXCEPT !.dataEnd = IF file.declared = Unknown THEN InputLen(file) ELSE file.declared]
      /\ UNCHANGED <<found, crcs, chase>>
  BY DEF OpenSegment
<1>2. FileLeft /\ LegalFile(file) /\ file.declared = Unknown /\ FileFields \subseteq DOMAIN file
  BY DEF Opening, FileLeft
<1>3. /\ FileFields \subseteq DOMAIN file' /\ file'.cells = file.cells /\ file'.clusters = file.clusters
      /\ file'.resilient = file.resilient /\ file'.declared = file.declared /\ file'.intact = file.intact
      /\ file'.dataEnd = InputLen(file) /\ file'.first = file.first /\ file'.cues = file.cues
  BY <1>1, <1>2 DEF FileFields
<1>4. FileLeft'
  <2>1. file.first \in (0 .. Far) \cup {None} /\ file.cues \in Seq(Range(file.cues))
    BY <1>2 DEF LegalFile
  <2>2. IsSeq(file.cues)
    BY <2>1, SeqIn
  <2>3. Range(file.cues) \subseteq Range(index) /\ file.cues = <<>>
    BY <1>1, <1>2 DEF FileLeft
  <2> QED BY <1>1, <1>3, <2>1, <2>2, <2>3, FileIs
<1>5. /\ DOMAIN found = MasterIds \cup {"Duration"} /\ \A id \in DOMAIN found : found[id] = <<>>
      /\ crcs = <<>> /\ chase = <<>>
  BY DEF Blank
<1>6. Range(<<>>) = {} /\ IsSeq(<<>>)
  BY EmptyIs DEF Range
<1>7. found'.SeekHead = <<>> /\ found'.Cues = <<>> /\ found'.Tracks = <<>> /\ found'.Duration = <<>>
  BY <1>1, <1>5 DEF MasterIds
<1>8. FoundTruly'
  BY <1>1, <1>3, <1>5, <1>6, <1>7, FoundIs
<1>9. SealedWalk'
  <2>1. layout \in Layouts
    BY DEF WriterInv, WriterShape
  <2>2. 0 \in WalkPoints /\ ~(0 >= TracksAt) /\ ~(0 > SlotAt)
    BY <2>1, Offs DEF WalkPoints
  <2>3. 0 >= InfoAt => SeekEntries = <<>>
    BY <2>1, Offs DEF SeekEntries
  <2> QED BY <1>1, <1>7, <2>2, <2>3, SealedWalkIs
<1>10. SealedEnd'
  BY <1>1, SealedEndIs
<1>11. ReaderPlace'
  BY <1>1, ProbeAssumption DEF ReaderPlace
<1> QED BY <1>4, <1>8, <1>9, <1>10, <1>11 DEF Opening

-----------------------------------------------------------------------------
(* Steps of the walk.                                                      *)

\* Recovery leaves the reader in the file, or ends the walk.
LEMMA RecoverIs ==
  ASSUME Far \in Nat, pos \in 0 .. Far, phase = "walk", NEW kind, NEW to, to = None \/ to \in 0 .. Far,
         RecoverAt(kind, to)
  PROVE  phase' \in {"walk", "chase", "failed"} /\ (phase' = "walk" => pos' \in 0 .. Far)
BY DEF RecoverAt

LEMMA ScanPlace ==
  ASSUME WriterInv, Opening, phase = "walk", pos < SegmentEnd
  PROVE  /\ pos \in 0 .. Far /\ pos \in Nat /\ pos < InputLen(file)
         /\ LET to == ScanTopLevel(file, pos + 1, SegmentEnd) IN to = None \/ to \in 0 .. Far
         /\ PastDamage = None \/ PastDamage \in 0 .. Far
<1>1. /\ SegmentEnd = InputLen(file) /\ InputLen(file) \in 0 .. Far /\ InputLen(file) \in Nat /\ Far \in Nat
      /\ LegalFile(file)
  BY InWalk, OpenedIs
<1>2. pos \in 0 .. Far
  BY DEF Opening, ReaderPlace
<1> DEFINE e == InputLen(file)
           Place(q) == LET to == ScanTopLevel(file, q, e) IN to = None \/ to \in 0 .. Far
<1>3. ASSUME NEW q \in Nat PROVE Place(q)
  <2>0. e \in Nat
    BY <1>1
  <2> HIDE DEF e
  <2>1. ScanTopLevel(file, q, e) = None \/ ScanTopLevel(file, q, e) \in q .. e - 1
    BY <2>0, ScanIs
  <2> QED BY <1>1, <2>1, <2>0 DEF e
<1>4. Place(pos + 1) /\ Place(pos + 2)
  <2>1. pos + 1 \in Nat /\ pos + 2 \in Nat
    BY <1>1, <1>2
  <2> HIDE DEF Place
  <2> QED BY <1>3, <2>1
<1>5. AfterHere \in 0 .. Far
  BY <1>1, <1>2, NextIs DEF AfterHere, Here
<1>6. PastDamage = None \/ PastDamage \in 0 .. Far
  BY <1>1, <1>4, <1>5 DEF PastDamage
<1> QED BY <1>1, <1>2, <1>4, <1>6

LEMMA StepOverKeeps ==
  ASSUME WriterInv, Opening, StepOver, UNCHANGED writer
  PROVE  Opening'
<1>1. /\ phase = "walk" /\ pos < SegmentEnd /\ UNCHANGED <<file, found, crcs, chase>>
      /\ Parses(Here) /\ Here.id \notin MasterIds \cup {"Cluster"}
      /\ IF Here.size = Unknown THEN RecoverAt("DamagedMaster", PastDamage)
         ELSE pos' = AfterHere /\ UNCHANGED phase
  BY DEF StepOver, Walking
<1>2. /\ pos \in 0 .. Far /\ pos \in Nat /\ pos < InputLen(file)
      /\ PastDamage = None \/ PastDamage \in 0 .. Far
  BY <1>1, ScanPlace
<1>0. Far \in Nat /\ LegalFile(file)
  BY OpenedIs
<1>3. AfterHere \in 0 .. Far
  BY <1>0, <1>2, NextIs DEF AfterHere, Here
<1>4. phase' \in {"walk", "chase", "failed"} /\ (phase' = "walk" => pos' \in 0 .. Far)
  <2>1. CASE Here.size = Unknown
    BY <1>0, <1>1, <1>2, <2>1, RecoverIs
  <2>2. CASE Here.size # Unknown
    BY <1>1, <1>3, <2>2
  <2> QED BY <2>1, <2>2
<1>5. FileLeft' /\ FoundTruly'
  BY <1>1, <1>4, NothingFound
<1>6. ASSUME Sealed
      PROVE  /\ phase' = "walk" /\ pos' = HeaderEnd /\ pos < HeaderEnd
             /\ (pos = SlotAt /\ ~InSlot) \/ (pos = SlotAt + Len(CuesElement) /\ InSlot)
  <2>1. pos \in WalkPoints
    BY <1>1, <1>6 DEF Opening, SealedWalk
  <2>2. /\ (pos = SlotAt /\ ~InSlot) \/ (pos = SlotAt + Len(CuesElement) /\ InSlot)
        /\ Here.size \in Nat /\ pos < HeaderEnd /\ Past(pos + 1, Here.size) = HeaderEnd
    BY <1>1, <1>6, <2>1, SealedPlaces DEF Here, MasterIds
  <2>3. Here.size # Unknown
    BY <2>2 DEF Unknown
  <2> QED BY <1>1, <2>2, <2>3 DEF AfterHere
<1>7. SealedWalk'
  <2> SUFFICES ASSUME Sealed, phase' = "walk"
               PROVE  /\ pos' \in WalkPoints
                      /\ found'.SeekHead = (IF pos' >= InfoAt THEN SeekEntries ELSE <<>>)
                      /\ found'.Duration = (IF pos' >= TracksAt THEN TrueDuration ELSE <<>>)
                      /\ found'.Cues = (IF pos' > SlotAt /\ InSlot THEN index ELSE <<>>)
    BY SealedWalkIs
  <2>1. /\ found.SeekHead = (IF pos >= InfoAt THEN SeekEntries ELSE <<>>)
        /\ found.Duration = (IF pos >= TracksAt THEN TrueDuration ELSE <<>>)
        /\ found.Cues = (IF pos > SlotAt /\ InSlot THEN index ELSE <<>>)
    BY <1>1 DEF Opening, SealedWalk
  <2>2. /\ InfoAt \in Nat /\ TracksAt \in Nat /\ SlotAt \in Nat /\ HeaderEnd \in Nat
        /\ InfoAt < TracksAt /\ TracksAt < SlotAt /\ Len(CuesElement) \in Nat \ {0}
    BY <1>1, InWalk
  <2>3. HeaderEnd \in WalkPoints
    BY DEF WalkPoints
  <2> HIDE DEF HeaderEnd, WalkPoints
  <2> QED BY <1>1, <1>6, <2>1, <2>2, <2>3
<1>8. SealedEnd'
  BY <1>4, <1>6, SealedEndIs
<1> QED BY <1>4, <1>5, <1>7, <1>8 DEF Opening, ReaderPlace

LEMMA StepOverGarbageKeeps ==
  ASSUME WriterInv, Opening, StepOverGarbage, UNCHANGED writer
  PROVE  Opening'
<1>1. /\ phase = "walk" /\ pos < SegmentEnd /\ UNCHANGED <<file, found, crcs, chase>>
      /\ ~Parses(Here) /\ RecoverAt("GarbageData", ScanTopLevel(file, pos + 1, SegmentEnd))
  BY DEF StepOverGarbage, Walking
<1>0. Far \in Nat
  BY OpenedIs
<1>4. phase' \in {"walk", "chase", "failed"} /\ (phase' = "walk" => pos' \in 0 .. Far)
  <2> DEFINE to == ScanTopLevel(file, pos + 1, SegmentEnd)
  <2>1. pos \in 0 .. Far /\ (to = None \/ to \in 0 .. Far) /\ RecoverAt("GarbageData", to)
    BY <1>1, ScanPlace
  <2> HIDE DEF to
  <2> QED BY <1>0, <1>1, <2>1, RecoverIs
<1>5. FileLeft' /\ FoundTruly'
  BY <1>1, <1>4, NothingFound
<1>6. ~Sealed
  <2> SUFFICES ASSUME Sealed PROVE FALSE
    OBVIOUS
  <2>1. pos \in WalkPoints
    BY <1>1 DEF Opening, SealedWalk
  <2> QED BY <1>1, <2>1, SealedPlaces DEF Here, Parses
<1>7. SealedWalk'
  BY <1>6, SealedWalkIs
<1>8. SealedEnd'
  BY <1>6, SealedEndIs
<1> QED BY <1>4, <1>5, <1>7, <1>8 DEF Opening, ReaderPlace

\* Where the walk over a finished file stops, and with which targets.
LEMMA SealedStop ==
  ASSUME WriterInv, Opening, phase = "walk", Sealed, pos >= SegmentEnd \/ Here.id = "Cluster"
  PROVE  /\ found.Duration = TrueDuration
         /\ step = "done" /\ ~layout.live =>
              \/ /\ found.Cues = index
                 /\ pos < SegmentEnd => ToFollow = <<>>
              \/ /\ entry # None /\ ~FitsFront /\ found.Cues = <<>> /\ pos < SegmentEnd
                 /\ ToFollow = <<[id |-> "Cues", at |-> entry]>>
<1>1. /\ pos \in WalkPoints
      /\ found.SeekHead = (IF pos >= InfoAt THEN SeekEntries ELSE <<>>)
      /\ found.Duration = (IF pos >= TracksAt THEN TrueDuration ELSE <<>>)
      /\ found.Cues = (IF pos > SlotAt /\ InSlot THEN index ELSE <<>>)
  BY DEF Opening, SealedWalk
<1>2. /\ InfoAt \in Nat /\ TracksAt \in Nat /\ SlotAt \in Nat /\ HeaderEnd \in Nat /\ layout.front \in Nat
      /\ InfoAt < TracksAt /\ TracksAt < SlotAt /\ HeaderEnd = SlotAt + layout.front
      /\ Len(CuesElement) \in Nat \ {0} /\ SegmentEnd \in Nat
  BY InWalk
<1>3. /\ pos = HeaderEnd /\ SegmentEnd = Len(output)
      /\ pos >= SegmentEnd => entry = None \/ InSlot
      /\ pos < SegmentEnd => Here.id = "Cluster"
  <2> DEFINE h == Header(file, pos)
  <2>1. /\ pos \in Nat /\ SegmentEnd = Len(output)
        /\ \/ pos < SegmentEnd /\ h.id \in {"SeekHead", "Info", "Tracks", "Cues", "Void"}
           \/ pos = HeaderEnd /\ pos < SegmentEnd /\ h.id = "Cluster"
           \/ pos = HeaderEnd /\ pos >= SegmentEnd /\ (entry = None \/ InSlot)
    BY <1>1, SealedPlaces
  <2>2. h = Here
    BY DEF Here
  <2> HIDE DEF h
  <2> QED BY <1>2, <2>1, <2>2
<1>4. found.Duration = TrueDuration /\ found.SeekHead = SeekEntries
  BY <1>1, <1>2, <1>3
<1>5. SUFFICES ASSUME step = "done", ~layout.live
               PROVE  \/ /\ found.Cues = index
                         /\ pos < SegmentEnd => ToFollow = <<>>
                      \/ /\ entry # None /\ ~FitsFront /\ found.Cues = <<>> /\ pos < SegmentEnd
                         /\ ToFollow = <<[id |-> "Cues", at |-> entry]>>
  BY <1>4
<1>6. SeekPatched /\ (index # <<>> => entry # None) /\ entry \in Nat \cup {None}
  BY <1>5 DEF SeekPatched, WriterInv, CuesHold, WriterShape
<1>7. /\ IsSeq(SeekEntries) /\ Len(SeekEntries) \in {0, 2, 3}
      /\ \A i \in 1 .. 2 : i <= Len(SeekEntries) => SeekEntries[i].id \notin ChaseIds
      /\ Len(SeekEntries) = 3 =>
           entry # None /\ SeekEntries[3] = [id |-> "Cues", at |-> entry]
  BY <1>6, SeekEntriesAre
<1>8. \A i \in 1 .. 2 : i <= Len(found.SeekHead) => ~WantedTarget(found.SeekHead[i])
  BY <1>4, <1>7 DEF WantedTarget
<1>9. /\ Len(SeekEntries) \in {0, 2} => ToFollow = <<>>
      /\ Len(SeekEntries) = 3 =>
           ToFollow = IF WantedTarget(SeekEntries[3]) THEN <<SeekEntries[3]>> ELSE <<>>
  <2>1. IsSeq(found.SeekHead)
    BY <1>4, <1>7
  <2>2. /\ Len(found.SeekHead) \in {0, 2} => ToFollow = <<>>
        /\ Len(found.SeekHead) = 3 =>
             ToFollow = IF WantedTarget(found.SeekHead[3]) THEN <<found.SeekHead[3]>> ELSE <<>>
    BY <1>8, <2>1, ToFollowOne
  <2> QED BY <1>4, <2>2
<1>10. CASE entry = None
  <2>1. index = <<>> /\ ~InSlot
    BY <1>6, <1>10 DEF InSlot
  <2>2. found.Cues = index
    BY <1>1, <2>1
  <2>3. ToFollow = <<>>
    BY <1>7, <1>9, <1>10
  <2> QED BY <2>2, <2>3
<1>11. CASE InSlot
  <2>1. FitsFront /\ entry # None /\ pos > SlotAt
    BY <1>2, <1>3, <1>11 DEF InSlot, FitsFront
  <2>2. found.Cues = index
    BY <1>1, <1>11, <2>1
  <2>3. entry = SlotAt
    BY <2>1 DEF WriterInv, CuesHold
  <2>4. ToFollow = <<>>
    <3>1. Len(SeekEntries) = 3 => ~WantedTarget(SeekEntries[3])
      <4> SUFFICES ASSUME Len(SeekEntries) = 3 PROVE ~WantedTarget(SeekEntries[3])
        OBVIOUS
      <4>1. SeekEntries[3].at = entry
        BY <1>7
      <4>2. ~(SeekEntries[3].at >= pos)
        BY <1>2, <1>3, <2>1, <2>3, <4>1
      <4> QED BY <4>2 DEF WantedTarget
    <3> QED BY <1>7, <1>9, <3>1
  <2> QED BY <2>2, <2>4
<1>12. CASE entry # None /\ ~InSlot
  <2>1. /\ ~FitsFront /\ entry >= HeaderEnd /\ Len(output) = entry + Len(CuesElement)
        /\ index # <<>> /\ ~layout.live
    BY <1>12 DEF InSlot, WriterInv, CuesHold
  <2>2. found.Cues = <<>>
    BY <1>1, <1>12
  <2>3. entry >= pos /\ entry < SegmentEnd /\ pos < SegmentEnd
    BY <1>2, <1>3, <1>6, <1>12, <2>1
  <2>4. SeekEntries[3] = [id |-> "Cues", at |-> entry] /\ Len(SeekEntries) = 3
    <3>1. Len(SeekEntries) = 3
      BY <1>12, <2>1, EmptyIs DEF SeekEntries
    <3> QED BY <1>7, <3>1
  <2>5. WantedTarget(SeekEntries[3])
    BY <2>2, <2>3, <2>4 DEF WantedTarget, ChaseIds
  <2>6. ToFollow = <<[id |-> "Cues", at |-> entry]>>
    BY <1>9, <2>4, <2>5
  <2> QED BY <1>12, <2>1, <2>2, <2>3, <2>6
<1> QED BY <1>10, <1>11, <1>12

LEMMA StopWalkKeeps ==
  ASSUME WriterInv, Opening, StopWalk, UNCHANGED writer
  PROVE  Opening'
<1>1. /\ phase = "walk" /\ phase' = "chase" /\ UNCHANGED <<pos, found, crcs>>
      /\ pos >= SegmentEnd \/ Here.id = "Cluster"
      /\ pos >= SegmentEnd => UNCHANGED <<file, chase>>
      /\ ~(pos >= SegmentEnd) => file' = [file EXCEPT !.first = pos] /\ chase' = ToFollow
  BY DEF StopWalk
<1>2. /\ SegmentEnd \in Nat /\ Far \in Nat
      /\ FileFields \subseteq DOMAIN file /\ file.dataEnd = InputLen(file) /\ IsSeq(file.cues)
      /\ Range(file.cues) \subseteq Range(index) /\ file.first \in (0 .. Far) \cup {None}
      /\ DOMAIN found = MasterIds \cup {"Duration"} /\ \A id \in DOMAIN found : IsSeq(found[id])
      /\ IsSeq(crcs) /\ IsSeq(chase)
  BY <1>1, InWalk
<1>3. pos \in 0 .. Far
  BY <1>1 DEF Opening, ReaderPlace
<1>4. /\ FileFields \subseteq DOMAIN file' /\ file'.cells = file.cells /\ file'.clusters = file.clusters
      /\ file'.resilient = file.resilient /\ file'.declared = file.declared /\ file'.intact = file.intact
      /\ file'.dataEnd = InputLen(file) /\ file'.cues = file.cues /\ file'.first \in (0 .. Far) \cup {None}
  <2>1. CASE pos >= SegmentEnd
    BY <1>1, <1>2, <2>1
  <2>2. CASE ~(pos >= SegmentEnd)
    BY <1>1, <1>2, <1>3, <2>2 DEF FileFields
  <2> QED BY <2>1, <2>2
<1>5. FileLeft'
  <2>1. file.cues = <<>>
    BY <1>1 DEF Opening, FileLeft
  <2> QED BY <1>1, <1>2, <1>4, <2>1, FileIs
<1>6. IsSeq(chase') /\ \A s \in Range(chase') : s.id \in ChaseIds /\ s.at \in Nat
  <2>1. chase = <<>>
    BY <1>1 DEF Opening, FoundTruly
  <2>2. CASE pos >= SegmentEnd
    <3>1. chase' = <<>> /\ Range(<<>>) = {}
      BY <1>1, <2>1, <2>2 DEF Range
    <3> QED BY <3>1, EmptyIs
  <2>3. CASE ~(pos >= SegmentEnd)
    <3>0. IsSeq(found.SeekHead)
      BY <1>2 DEF MasterIds
    <3>1. IsSeq(ToFollow) /\ \A s \in Range(ToFollow) : s \in Range(found.SeekHead) /\ s.id \in ChaseIds
      BY <3>0, ToFollowIs
    <3>2. \A s \in Range(found.SeekHead) : s.at \in Nat
      BY SeekEntriesAre DEF Opening, FoundTruly
    <3> QED BY <1>1, <2>3, <3>1, <3>2
  <2> QED BY <2>2, <2>3
<1>7. FoundTruly'
  <2>1. FoundTruly
    BY DEF Opening
  <2>2. /\ Range(found'.SeekHead) \subseteq Range(SeekEntries)
        /\ Range(found'.Cues) \subseteq Range(index)
        /\ found'.Cues # <<>> => step \notin {"header", "packets"}
        /\ found'.Tracks # <<>> => TracksHeld(file.cells)
        /\ ~Sealed => found'.Duration = <<>>
        /\ TracksHeld(file.cells) => \A c \in Range(crcs') : ChecksumIsTrue(c)
    BY <1>1, <2>1 DEF FoundTruly
  <2> QED BY <1>1, <1>2, <1>4, <1>6, <2>2, FoundIs
<1>8. SealedWalk'
  BY <1>1, SealedWalkIs
<1>9. SealedEnd'
  <2> SUFFICES ASSUME Sealed
               PROVE  /\ found'.Duration = TrueDuration
                      /\ step = "done" /\ ~layout.live =>
                           \/ found'.Cues = index /\ chase' = <<>>
                           \/ /\ entry # None /\ ~FitsFront /\ found'.Cues = <<>>
                              /\ chase' = <<[id |-> "Cues", at |-> entry]>>
    BY <1>1, SealedEndIs
  <2>1. /\ found.Duration = TrueDuration
        /\ step = "done" /\ ~layout.live =>
             \/ /\ found.Cues = index
                /\ pos < SegmentEnd => ToFollow = <<>>
             \/ /\ entry # None /\ ~FitsFront /\ found.Cues = <<>> /\ pos < SegmentEnd
                /\ ToFollow = <<[id |-> "Cues", at |-> entry]>>
    BY <1>1, SealedStop
  <2>2. chase = <<>>
    BY <1>1 DEF Opening, FoundTruly
  <2>3. pos < SegmentEnd <=> ~(pos >= SegmentEnd)
    BY <1>2, <1>3
  <2> QED BY <1>1, <2>1, <2>2, <2>3
<1>10. ReaderPlace'
  BY <1>1 DEF ReaderPlace
<1> QED BY <1>5, <1>7, <1>8, <1>9, <1>10 DEF Opening

\* A master is added to what was found, and stays true to it.
LEMMA LiftingKeepsFound ==
  ASSUME WriterInv, Opening, phase \notin {"start", "open"}, UNCHANGED writer, file' = file,
         NEW p \in Nat, p < InputLen(file), Header(file, p).id \in MasterIds,
         found' = LiftedInto(Header(file, p).id, MasterAt(file, p, SegmentEnd)),
         crcs' \in {crcs, crcs \o Checksum(file, p)},
         IsSeq(chase'), phase' # "open", phase' = "walk" => chase' = <<>>,
         \A s \in Range(chase') : s.id \in ChaseIds /\ s.at \in Nat
  PROVE  FoundTruly'
<1> DEFINE id == Header(file, p).id
           r == MasterAt(file, p, SegmentEnd)
<1>1. FoundTruly
  BY DEF Opening
<1>2. /\ IsSeq(r.values["Item"]) /\ IsSeq(r.values["Duration"])
      /\ id = "SeekHead" => Range(r.values["Item"]) \subseteq Range(SeekEntries)
      /\ id = "Cues" => Range(r.values["Item"]) \subseteq Range(index) /\ step \notin {"header", "packets"}
      /\ id = "Tracks" /\ r.values["Item"] # <<>> => TracksHeld(file.cells)
      /\ ~Sealed => r.values["Duration"] = <<>>
  BY MasterLeft
<1>3. id \in MasterIds /\ found' = LiftedInto(id, r)
  OBVIOUS
<1>4. /\ DOMAIN found = MasterIds \cup {"Duration"} /\ \A i \in DOMAIN found : IsSeq(found[i])
      /\ IsSeq(crcs)
  BY <1>1 DEF FoundTruly
<1> HIDE DEF id, r
<1>5. /\ DOMAIN found' = MasterIds \cup {"Duration"} /\ \A i \in DOMAIN found' : IsSeq(found'[i])
      /\ found'[id] = found[id] \o r.values["Item"]
      /\ found'["Duration"] = found["Duration"] \o r.values["Duration"]
      /\ \A i \in MasterIds \ {id} : found'[i] = found[i]
  BY <1>2, <1>3, <1>4, LiftedIntoIs
<1>6. {"SeekHead", "Cues", "Tracks"} \subseteq MasterIds /\ "Duration" \in DOMAIN found
  BY <1>4 DEF MasterIds
<1> DEFINE s == r.values["Item"]
<1>7. \A i \in MasterIds : \/ i = id /\ found'[i] = found[i] \o s /\ Range(found'[i]) \subseteq Range(found[i]) \cup Range(s)
                           \/ i # id /\ found'[i] = found[i]
  <2>1. IsSeq(found[id]) /\ IsSeq(s)
    BY <1>2, <1>3, <1>4
  <2>2. Range(found[id] \o s) \subseteq Range(found[id]) \cup Range(s)
    BY <2>1, RangeOfConcat
  <2> QED BY <1>5, <2>2
<1> HIDE DEF s
<1>8. Range(found'.SeekHead) \subseteq Range(SeekEntries)
  <2>1. Range(found.SeekHead) \subseteq Range(SeekEntries)
    BY <1>1 DEF FoundTruly
  <2> QED BY <1>2, <1>6, <1>7, <2>1 DEF s
<1>9. /\ Range(found'.Cues) \subseteq Range(index)
      /\ found'.Cues # <<>> => step \notin {"header", "packets"}
  <2>1. Range(found.Cues) \subseteq Range(index) /\ (found.Cues # <<>> => step \notin {"header", "packets"})
    BY <1>1 DEF FoundTruly
  <2> QED BY <1>2, <1>6, <1>7, <2>1 DEF s
<1>10. found'.Tracks # <<>> => TracksHeld(file.cells)
  <2>1. found.Tracks # <<>> => TracksHeld(file.cells)
    BY <1>1 DEF FoundTruly
  <2>2. id = "Tracks" /\ s = <<>> => found'.Tracks = found.Tracks
    <3>1. IsSeq(found.Tracks)
      BY <1>4, <1>6
    <3>2. found.Tracks \o <<>> = found.Tracks
      BY <3>1, EmptyConcat
    <3> QED BY <1>6, <1>7, <3>2
  <2> QED BY <1>2, <1>6, <1>7, <2>1, <2>2 DEF s
<1>11. ~Sealed => found'.Duration = <<>>
  <2> SUFFICES ASSUME ~Sealed PROVE found'.Duration = <<>>
    OBVIOUS
  <2>1. found.Duration = <<>> /\ r.values["Duration"] = <<>>
    BY <1>1, <1>2 DEF FoundTruly
  <2>2. <<>> \o <<>> = <<>>
    BY EmptyIs, EmptyConcat
  <2> QED BY <1>5, <2>1, <2>2
<1>12. IsSeq(crcs') /\ (TracksHeld(file.cells) => \A c \in Range(crcs') : ChecksumIsTrue(c))
  <2> DEFINE k == Checksum(file, p)
  <2>1. TracksHeld(file.cells) => \A c \in Range(crcs) : ChecksumIsTrue(c)
    BY <1>1 DEF FoundTruly
  <2>2. TracksHeld(file.cells) => \A c \in Range(k) : ChecksumIsTrue(c)
    <3>1. Header(file, p).id \in MasterIds
      OBVIOUS
    <3> QED BY <3>1, ChecksumLeft
  <2>3. IsSeq(k)
    <3> HIDE DEF k
    <3>1. k = <<>> \/ \E v : k = <<[id |-> Header(file, p).id, valid |-> v]>>
      BY SomeChecksum DEF k
    <3> QED BY <3>1, EmptyIs, SingleIs
  <2> HIDE DEF k
  <2>4. IsSeq(crcs \o k) /\ Range(crcs \o k) \subseteq Range(crcs) \cup Range(k)
    BY <1>4, <2>3, RangeOfConcat
  <2>5. crcs' = crcs \/ crcs' = crcs \o k
    BY DEF k
  <2> QED BY <1>4, <2>1, <2>2, <2>4, <2>5
<1>13. file'.cells = file.cells
  OBVIOUS
<1> QED BY <1>5, <1>8, <1>9, <1>10, <1>11, <1>12, <1>13, FoundIs

\* A step that leaves the file.
LEMMA FileRests ==
  ASSUME WriterInv, Opening, phase \notin {"start", "open"}, UNCHANGED writer, file' = file
  PROVE  FileLeft'
<1>1. /\ FileFields \subseteq DOMAIN file /\ file.dataEnd = InputLen(file) /\ IsSeq(file.cues)
      /\ Range(file.cues) \subseteq Range(index) /\ file.first \in (0 .. Far) \cup {None}
  BY InWalk
<1>2. file.cues = <<>>
  BY DEF Opening, FileLeft
<1> QED BY <1>1, <1>2, FileIs

\* In a file that is not torn a master of the walk yields what it holds.
LEMMA SealedMaster ==
  ASSUME WriterInv, Opening, phase = "walk", Sealed, pos < SegmentEnd, Here.id \in MasterIds,
         NEW r, r = MasterAt(file, pos, SegmentEnd)
  PROVE  /\ ~r.err /\ r.to \in WalkPoints
         /\ Here.id = "SeekHead" => /\ pos = 0 /\ r.to = InfoAt /\ InfoAt = 5 /\ r.values["Item"] = SeekEntries
                                    /\ r.values["Duration"] = <<>>
         /\ Here.id = "Info" => pos = InfoAt /\ r.to = TracksAt /\ r.values["Duration"] = TrueDuration
         /\ Here.id = "Tracks" => pos = TracksAt /\ r.to = SlotAt /\ r.values["Duration"] = <<>>
         /\ Here.id = "Cues" => /\ pos = SlotAt /\ InSlot /\ r.to = SlotAt + Len(CuesElement)
                                /\ r.values["Item"] = index /\ r.values["Duration"] = <<>>
         /\ Here.id \in {"SeekHead", "Info", "Tracks", "Cues"}
<1>1. pos \in WalkPoints
  BY DEF Opening, SealedWalk
<1>2. /\ pos \in Nat
      /\ \/ pos = 0 /\ ~layout.live /\ Here.id = "SeekHead"
         \/ pos = InfoAt /\ Here.id = "Info"
         \/ pos = TracksAt /\ Here.id = "Tracks"
         \/ pos = SlotAt /\ InSlot /\ Here.id = "Cues"
  <2>1. "Void" \notin MasterIds /\ "Cluster" \notin MasterIds
    BY DEF MasterIds
  <2> QED BY <1>1, <2>1, SealedPlaces DEF Here
<1>3. {InfoAt, TracksAt, SlotAt} \subseteq WalkPoints /\ (InSlot => SlotAt + Len(CuesElement) \in WalkPoints)
  BY DEF WalkPoints
<1>4. CASE pos = 0 /\ ~layout.live /\ Here.id = "SeekHead"
  <2>1. Yields(0, SeekEntries, <<>>, InfoAt)
    BY <1>4, SeekHeadYields
  <2>2. InfoAt = 5
    BY <1>4 DEF InfoAt, Offsets
  <2> QED BY <1>3, <1>4, <2>1, <2>2 DEF Yields
<1>5. CASE pos = InfoAt /\ Here.id = "Info"
  <2>1. LET x == MasterAt(file, InfoAt, SegmentEnd) IN
        ~x.err /\ x.values["Duration"] = TrueDuration /\ x.to = TracksAt
    BY InfoYields
  <2> QED BY <1>3, <1>5, <2>1
<1>6. CASE pos = TracksAt /\ Here.id = "Tracks"
  <2>1. LET x == MasterAt(file, TracksAt, SegmentEnd) IN
        ~x.err /\ x.values["Duration"] = <<>> /\ x.to = SlotAt
    BY TracksYields
  <2> QED BY <1>3, <1>6, <2>1
<1>7. CASE pos = SlotAt /\ InSlot /\ Here.id = "Cues"
  <2>1. pos < InputLen(file)
    BY InWalk
  <2>2. Yields(pos, index, <<>>, pos + Len(CuesElement))
    BY <1>2, <1>7, <2>1, CuesYields DEF Here
  <2> QED BY <1>3, <1>7, <2>2 DEF Yields
<1> QED BY <1>2, <1>4, <1>5, <1>6, <1>7

LEMMA ReadMasterKeeps ==
  ASSUME WriterInv, Opening, ReadMaster, UNCHANGED writer
  PROVE  Opening'
<1> DEFINE r == MasterAt(file, pos, SegmentEnd)
           id == Here.id
<1>1. /\ phase = "walk" /\ pos < SegmentEnd /\ UNCHANGED <<file, chase>>
      /\ id \in MasterIds /\ found' = LiftedInto(id, r)
      /\ IF r.err THEN RecoverAt("DamagedMaster", PastDamage) ELSE pos' = r.to /\ UNCHANGED phase
      /\ crcs' \in {crcs, crcs \o Checksum(file, pos)}
  BY DEF ReadMaster, Walking
<1>2. /\ pos \in 0 .. Far /\ pos \in Nat /\ pos < InputLen(file)
      /\ PastDamage = None \/ PastDamage \in 0 .. Far
  BY <1>1, ScanPlace
<1>0. Far \in Nat /\ LegalFile(file) /\ chase = <<>>
  BY <1>1, OpenedIs DEF Opening, FoundTruly
<1>3. /\ r.to \in 0 .. Far /\ r.err \in BOOLEAN
      /\ IsSeq(r.values["Item"]) /\ IsSeq(r.values["Duration"])
  <2>1. Header(file, pos).id \in MasterIds /\ phase # "start"
    BY <1>1 DEF Here
  <2> QED BY <1>2, <2>1, MasterLeft
<1>4. phase' \in {"walk", "chase", "failed"} /\ (phase' = "walk" => pos' \in 0 .. Far)
  <2> HIDE DEF r, id
  <2>1. CASE r.err
    BY <1>0, <1>1, <1>2, <2>1, RecoverIs
  <2>2. CASE ~r.err
    BY <1>1, <1>3, <2>2
  <2> QED BY <2>1, <2>2
<1>5. FileLeft'
  BY <1>1, FileRests
<1>6. FoundTruly'
  <2>1. IsSeq(<<>>) /\ Range(<<>>) = {}
    BY EmptyIs DEF Range
  <2>2. /\ Header(file, pos).id \in MasterIds
        /\ found' = LiftedInto(Header(file, pos).id, MasterAt(file, pos, SegmentEnd))
    BY <1>1 DEF Here
  <2>3. /\ IsSeq(chase') /\ phase' # "open" /\ (phase' = "walk" => chase' = <<>>)
        /\ \A s \in Range(chase') : s.id \in ChaseIds /\ s.at \in Nat
    BY <1>0, <1>1, <1>4, <2>1
  <2> QED BY <1>1, <1>2, <2>2, <2>3, LiftingKeepsFound
<1>7. DOMAIN found = MasterIds \cup {"Duration"} /\ \A i \in DOMAIN found : IsSeq(found[i])
  BY <1>1, InWalk
<1>m. Sealed =>
         /\ ~r.err /\ r.to \in WalkPoints
         /\ id = "SeekHead" => /\ pos = 0 /\ r.to = InfoAt /\ InfoAt = 5 /\ r.values["Item"] = SeekEntries
                               /\ r.values["Duration"] = <<>>
         /\ id = "Info" => pos = InfoAt /\ r.to = TracksAt /\ r.values["Duration"] = TrueDuration
         /\ id = "Tracks" => pos = TracksAt /\ r.to = SlotAt /\ r.values["Duration"] = <<>>
         /\ id = "Cues" => /\ pos = SlotAt /\ InSlot /\ r.to = SlotAt + Len(CuesElement)
                           /\ r.values["Item"] = index /\ r.values["Duration"] = <<>>
         /\ id \in {"SeekHead", "Info", "Tracks", "Cues"}
  <2> HIDE DEF r
  <2> QED BY <1>1, SealedMaster DEF r
<1> HIDE DEF r, id
<1>8. /\ found'[id] = found[id] \o r.values["Item"]
      /\ found'["Duration"] = found["Duration"] \o r.values["Duration"]
      /\ \A i \in MasterIds \ {id} : found'[i] = found[i]
  BY <1>1, <1>3, <1>7, LiftedIntoIs
<1>9. SealedWalk'
  <2> SUFFICES ASSUME Sealed
               PROVE  /\ pos' \in WalkPoints
                      /\ found'.SeekHead = (IF pos' >= InfoAt THEN SeekEntries ELSE <<>>)
                      /\ found'.Duration = (IF pos' >= TracksAt THEN TrueDuration ELSE <<>>)
                      /\ found'.Cues = (IF pos' > SlotAt /\ InSlot THEN index ELSE <<>>)
    BY SealedWalkIs
  <2>1. /\ found.SeekHead = (IF pos >= InfoAt THEN SeekEntries ELSE <<>>)
        /\ found.Duration = (IF pos >= TracksAt THEN TrueDuration ELSE <<>>)
        /\ found.Cues = (IF pos > SlotAt /\ InSlot THEN index ELSE <<>>)
    BY <1>1 DEF Opening, SealedWalk
  <2>2. /\ InfoAt \in Nat /\ TracksAt \in Nat /\ SlotAt \in Nat
        /\ InfoAt < TracksAt /\ TracksAt < SlotAt /\ Len(CuesElement) \in Nat \ {0}
        /\ IsSeq(index) /\ IsSeq(SeekEntries) /\ IsSeq(TrueDuration)
    BY <1>1, InWalk
  <2>3. pos' = r.to /\ pos' \in WalkPoints /\ ~r.err
    BY <1>1, <1>m
  <2>4. /\ <<>> \o <<>> = <<>> /\ <<>> \o SeekEntries = SeekEntries /\ <<>> \o index = index
        /\ <<>> \o TrueDuration = TrueDuration /\ TrueDuration \o <<>> = TrueDuration
    BY <2>2, EmptyIs, EmptyConcat
  <2>5. {"SeekHead", "Info", "Tracks", "Cues"} \subseteq MasterIds
    BY DEF MasterIds
  <2>6. CASE id = "SeekHead"
    <3>1. /\ found'.SeekHead = found.SeekHead \o SeekEntries
          /\ found'.Duration = found.Duration \o <<>>
          /\ found'.Cues = found.Cues
      BY <1>8, <1>m, <2>5, <2>6
    <3>2. /\ ~(pos >= InfoAt) /\ pos' >= InfoAt /\ ~(pos >= TracksAt) /\ ~(pos' >= TracksAt)
          /\ ~(pos > SlotAt) /\ ~(pos' > SlotAt)
      BY <1>m, <2>2, <2>3, <2>6
    <3> QED BY <2>1, <2>3, <2>4, <3>1, <3>2
  <2>7. CASE id = "Info"
    <3>1. /\ found'.SeekHead = found.SeekHead
          /\ found'.Duration = found.Duration \o TrueDuration
          /\ found'.Cues = found.Cues
      BY <1>8, <1>m, <2>5, <2>7
    <3>2. /\ pos >= InfoAt /\ pos' >= InfoAt /\ ~(pos >= TracksAt) /\ pos' >= TracksAt
          /\ ~(pos > SlotAt) /\ ~(pos' > SlotAt)
      BY <1>m, <2>2, <2>3, <2>7
    <3> QED BY <2>1, <2>3, <2>4, <3>1, <3>2
  <2>8. CASE id = "Tracks"
    <3>1. /\ found'.SeekHead = found.SeekHead
          /\ found'.Duration = found.Duration \o <<>>
          /\ found'.Cues = found.Cues
      BY <1>8, <1>m, <2>5, <2>8
    <3>2. /\ pos >= InfoAt /\ pos' >= InfoAt /\ pos >= TracksAt /\ pos' >= TracksAt
          /\ ~(pos > SlotAt) /\ ~(pos' > SlotAt)
      BY <1>m, <2>2, <2>3, <2>8
    <3> QED BY <2>1, <2>3, <2>4, <3>1, <3>2
  <2>9. CASE id = "Cues"
    <3>1. /\ found'.SeekHead = found.SeekHead
          /\ found'.Duration = found.Duration \o <<>>
          /\ found'.Cues = found.Cues \o index
      BY <1>8, <1>m, <2>5, <2>9
    <3>2. /\ pos >= InfoAt /\ pos' >= InfoAt /\ pos >= TracksAt /\ pos' >= TracksAt
          /\ ~(pos > SlotAt) /\ pos' > SlotAt /\ InSlot
      BY <1>m, <2>2, <2>3, <2>9
    <3> QED BY <2>1, <2>3, <2>4, <3>1, <3>2
  <2> QED BY <1>m, <2>6, <2>7, <2>8, <2>9
<1>10. SealedEnd'
  <2>1. Sealed => phase' = "walk"
    BY <1>1, <1>m
  <2> QED BY <2>1, SealedEndIs
<1> QED BY <1>4, <1>5, <1>6, <1>9, <1>10 DEF Opening, ReaderPlace

-----------------------------------------------------------------------------
(* Steps behind the walk.                                                  *)

LEMMA FollowTargetKeeps ==
  ASSUME WriterInv, Opening, FollowTarget, UNCHANGED writer
  PROVE  Opening'
<1> DEFINE t == Head(chase)
           r == MasterAt(file, t.at, SegmentEnd)
<1>1. /\ phase = "chase" /\ chase # <<>> /\ phase' = phase /\ file' = file
      /\ chase' = Tail(chase)
      /\ IF Holds(t) THEN found' = LiftedInto(t.id, r) /\ crcs' = crcs \o Checksum(file, t.at)
         ELSE UNCHANGED <<found, crcs>>
  BY DEF FollowTarget, input
<1>2. FoundTruly /\ IsSeq(chase) /\ IsSeq(crcs)
  BY DEF Opening, FoundTruly
<1>3. IsSeq(Tail(chase)) /\ Range(Tail(chase)) \subseteq Range(chase) /\ t \in Range(chase)
  <2>0. Len(chase) > 0 /\ Len(chase) \in Nat /\ chase \in Seq(Range(chase))
    BY <1>1, <1>2, InSeq DEF IsSeq
  <2>1. IsSeq(Tail(chase)) /\ Len(Tail(chase)) = Len(chase) - 1 /\ \A i \in 1 .. Len(chase) - 1 : Tail(chase)[i] = chase[i + 1]
    BY <1>2, <2>0, TailIs
  <2>2. Range(Tail(chase)) \subseteq Range(chase)
    <3> SUFFICES ASSUME NEW x \in Range(Tail(chase)) PROVE x \in Range(chase)
      OBVIOUS
    <3> DEFINE tl == Tail(chase)
    <3>0. IsSeq(tl) /\ x \in Range(tl)
      BY <2>1
    <3> HIDE DEF tl
    <3>a. \E i \in 1 .. Len(tl) : x = tl[i]
      BY <3>0, InRange
    <3> USE DEF tl
    <3>1. PICK i \in 1 .. Len(Tail(chase)) : x = Tail(chase)[i]
      BY ONLY <3>a
    <3>2. i + 1 \in 1 .. Len(chase) /\ x = chase[i + 1]
      BY <2>0, <2>1, <3>1
    <3> QED BY <1>2, <3>2, InRange
  <2>3. t = chase[1] /\ 1 \in 1 .. Len(chase)
    BY <2>0
  <2> QED BY <1>2, <2>1, <2>2, <2>3, InRange
<1>4. \A s \in Range(chase) : s.id \in ChaseIds /\ s.at \in Nat
  BY <1>2 DEF FoundTruly
<1>5. t.id \in ChaseIds /\ t.at \in Nat /\ t.id \in MasterIds
  BY <1>3, <1>4 DEF ChaseIds, MasterIds
<1>6. Holds(t) => Header(file, t.at).id = t.id /\ t.at < InputLen(file)
  <2>1. LegalFile(file)
    BY OpenedIs
  <2>2. Header(file, t.at).id = t.id => Parses(Header(file, t.at))
    BY <1>5 DEF ChaseIds, Parses
  <2> QED BY <1>5, <2>1, <2>2, HeaderIs DEF Holds
<1>7. FileLeft'
  BY <1>1, FileRests
<1>8. \A s \in Range(chase') : s.id \in ChaseIds /\ s.at \in Nat
  BY <1>1, <1>3, <1>4
<1>9. FoundTruly'
  <2> HIDE DEF t, r
  <2>1. CASE Holds(t)
    <3>1. /\ Header(file, t.at).id \in MasterIds /\ crcs' \in {crcs, crcs \o Checksum(file, t.at)}
          /\ found' = LiftedInto(Header(file, t.at).id, MasterAt(file, t.at, SegmentEnd))
      BY <1>1, <1>5, <1>6, <2>1 DEF r
    <3>2. phase \notin {"start", "open"} /\ phase' # "open" /\ phase' # "walk" /\ IsSeq(chase')
      BY <1>1, <1>3
    <3> QED BY <1>1, <1>5, <1>6, <1>8, <2>1, <3>1, <3>2, LiftingKeepsFound
  <2>2. CASE ~Holds(t)
    <3>1. /\ Range(found'.SeekHead) \subseteq Range(SeekEntries)
          /\ Range(found'.Cues) \subseteq Range(index)
          /\ found'.Cues # <<>> => step \notin {"header", "packets"}
          /\ found'.Tracks # <<>> => TracksHeld(file.cells)
          /\ ~Sealed => found'.Duration = <<>>
          /\ TracksHeld(file.cells) => \A c \in Range(crcs') : ChecksumIsTrue(c)
          /\ DOMAIN found' = MasterIds \cup {"Duration"} /\ \A i \in DOMAIN found' : IsSeq(found'[i])
      BY <1>1, <1>2, <2>2 DEF FoundTruly
    <3>2. IsSeq(crcs') /\ IsSeq(chase') /\ phase' # "walk" /\ phase' # "open" /\ file'.cells = file.cells
      BY <1>1, <1>2, <1>3, <2>2
    <3> QED BY <1>8, <3>1, <3>2, FoundIs
  <2> QED BY <2>1, <2>2
<1>10. SealedWalk'
  BY <1>1, SealedWalkIs
<1>11. SealedEnd'
  <2> SUFFICES ASSUME Sealed
               PROVE  /\ found'.Duration = TrueDuration
                      /\ step = "done" /\ ~layout.live =>
                           found'.Cues = index /\ chase' = <<>>
    BY <1>1, SealedEndIs
  <2>1. /\ found.Duration = TrueDuration
        /\ step = "done" /\ ~layout.live =>
             \/ found.Cues = index /\ chase = <<>>
             \/ /\ entry # None /\ ~FitsFront /\ found.Cues = <<>>
                /\ chase = <<[id |-> "Cues", at |-> entry]>>
    BY <1>1 DEF Opening, SealedEnd
  <2>2. DOMAIN found = MasterIds \cup {"Duration"} /\ \A i \in DOMAIN found : IsSeq(found[i])
    BY <1>2 DEF FoundTruly
  <2>3. Holds(t) => /\ t.id = "Cues" /\ r.values["Item"] = index /\ r.values["Duration"] = <<>>
    <3> SUFFICES ASSUME Holds(t) PROVE t.id = "Cues" /\ r.values["Item"] = index /\ r.values["Duration"] = <<>>
      OBVIOUS
    <3>1. Header(file, t.at).id = "Cues"
      BY <1>5, <1>6, MasterPlace DEF ChaseIds
    <3>2. Yields(t.at, index, <<>>, t.at + Len(CuesElement))
      BY <1>1, <1>5, <1>6, <3>1, CuesYields
    <3> QED BY <1>6, <3>1, <3>2 DEF Yields
  <2>4. Holds(t) => found'["Duration"] = found["Duration"] /\ found'["Cues"] = found["Cues"] \o index
    <3> SUFFICES ASSUME Holds(t)
                 PROVE  found'["Duration"] = found["Duration"] /\ found'["Cues"] = found["Cues"] \o index
      OBVIOUS
    <3>1. t.id = "Cues" /\ r.values["Item"] = index /\ r.values["Duration"] = <<>>
      BY <2>3
    <3>2. IsSeq(index) /\ IsSeq(<<>>)
      BY <1>1, InWalk, EmptyIs
    <3>3. found' = LiftedInto(t.id, r)
      BY <1>1
    <3> HIDE DEF t, r
    <3>4. /\ found'["Cues"] = found["Cues"] \o r.values["Item"]
          /\ found'["Duration"] = found["Duration"] \o r.values["Duration"]
      BY <1>5, <2>2, <3>1, <3>2, <3>3, LiftedIntoIs
    <3>5. found["Duration"] \o <<>> = found["Duration"]
      BY <2>2, EmptyConcat
    <3> QED BY <3>1, <3>4, <3>5
  <2>5. found'.Duration = TrueDuration
    BY <1>1, <2>1, <2>4
  <2>6. ASSUME step = "done", ~layout.live PROVE found'.Cues = index /\ chase' = <<>>
    <3>1. /\ entry # None /\ ~FitsFront /\ found.Cues = <<>>
          /\ chase = <<[id |-> "Cues", at |-> entry]>>
      BY <1>1, <2>1, <2>6
    <3>2. t = [id |-> "Cues", at |-> entry] /\ chase' = <<>>
      <4> DEFINE x == [id |-> "Cues", at |-> entry]
      <4>1. chase = <<x>>
        BY <3>1
      <4> HIDE DEF x
      <4>2. Head(chase) = x /\ Tail(chase) = <<>>
        BY <4>1
      <4> QED BY <1>1, <4>2 DEF x
    <3>3. Holds(t)
      <4>1. /\ entry \in Nat /\ IsSeq(CuesElement) /\ Len(CuesElement) \in Nat \ {0}
            /\ CuesElement[1] = output[entry + 1] /\ Len(output) = entry + Len(CuesElement)
        <5>1. entry \in Nat \cup {None} /\ IsSeq(CuesElement) /\ Len(CuesElement) \in Nat \ {0}
          BY Sizes DEF WriterInv, WriterShape
        <5>2. Len(output) = entry + Len(CuesElement) /\ \A i \in 1 .. Len(CuesElement) : output[entry + i] = CuesElement[i]
          BY <3>1 DEF WriterInv, CuesHold
        <5> QED BY <3>1, <5>1, <5>2
      <4>2. /\ file.cells = output /\ SegmentEnd = InputLen(file) /\ InputLen(file) = Len(output)
            /\ LegalFile(file)
        BY <1>1, SealedFile, OpenedIs
      <4>3. CuesElement[1].id = "Cues"
        <5>1. layout \in Layouts /\ index \in Seq(Range(index))
          BY DEF WriterInv, WriterShape
        <5> QED BY <5>1, CuesElementIs
      <4>4. entry < InputLen(file) /\ Header(file, entry) = CuesElement[1]
        <5>1. entry < InputLen(file)
          BY <4>1, <4>2
        <5> QED BY <4>1, <4>2, <5>1 DEF Header
      <4>5. /\ ~MasterAt(file, entry, SegmentEnd).err
            /\ entry + Len(CuesElement) <= InputLen(file)
        BY <1>1, <4>1, <4>3, <4>4, CuesYields DEF Yields
      <4>6. CuesElement[1].size = Len(CuesElement) - 1
        <5>1. layout \in Layouts /\ index \in Seq(Range(index))
          BY DEF WriterInv, WriterShape
        <5>2. CuesElement[1] = [id |-> "Cues", size |-> Len(index) + Checks] /\ Len(CuesElement) = Len(index) + 1 + Checks
          BY <5>1, CuesElementIs
        <5>3. Checks \in Nat /\ Len(index) \in Nat
          BY Sizes DEF Checks
        <5> QED BY <5>2, <5>3
      <4>7. Past(entry + 1, Header(file, entry).size) = entry + Len(CuesElement)
        BY <4>1, <4>2, <4>4, <4>5, <4>6, AfterIs
      <4>8. Header(file, entry).size # Unknown
        BY <4>1, <4>4, <4>6 DEF Unknown
      <4> QED BY <3>2, <4>2, <4>3, <4>4, <4>5, <4>7, <4>8 DEF Holds, Readable
    <3>4. <<>> \o index = index
      BY <1>1, InWalk, EmptyConcat
    <3> QED BY <2>4, <3>1, <3>2, <3>3, <3>4
  <2> QED BY <2>5, <2>6
<1>12. ReaderPlace'
  BY <1>1 DEF ReaderPlace
<1> QED BY <1>7, <1>9, <1>10, <1>11, <1>12 DEF Opening

LEMMA FinishOpenKeeps ==
  ASSUME WriterInv, Opening, FinishOpen, UNCHANGED writer
  PROVE  Opening'
<1>1. /\ phase = "chase" /\ chase = <<>> /\ UNCHANGED <<found, crcs, chase>>
      /\ found.Tracks = <<>> => phase' = "failed" /\ file' = file
      /\ found.Tracks # <<>> =>
           /\ phase' = "open"
           /\ \E info, live : file' = [file EXCEPT !.cues = found.Cues, !.info = info, !.tags = found.Tags, !.live = live]
  BY DEF FinishOpen, input
<1>2. /\ FileFields \subseteq DOMAIN file /\ file.dataEnd = InputLen(file) /\ IsSeq(file.cues)
      /\ Range(file.cues) \subseteq Range(index) /\ file.first \in (0 .. Far) \cup {None}
      /\ DOMAIN found = MasterIds \cup {"Duration"} /\ \A id \in DOMAIN found : IsSeq(found[id])
      /\ IsSeq(crcs) /\ IsSeq(chase)
  BY <1>1, InWalk
<1>3. FoundTruly
  BY DEF Opening
<1>4. found.Tracks # <<>> =>
        /\ FileFields \subseteq DOMAIN file' /\ file'.cells = file.cells /\ file'.clusters = file.clusters
        /\ file'.resilient = file.resilient /\ file'.declared = file.declared /\ file'.intact = file.intact
        /\ file'.dataEnd = InputLen(file) /\ file'.first = file.first /\ file'.cues = found.Cues
  <2> SUFFICES ASSUME found.Tracks # <<>>
               PROVE  /\ FileFields \subseteq DOMAIN file' /\ file'.cells = file.cells /\ file'.clusters = file.clusters
        /\ file'.resilient = file.resilient /\ file'.declared = file.declared /\ file'.intact = file.intact
        /\ file'.dataEnd = InputLen(file) /\ file'.first = file.first /\ file'.cues = found.Cues
    OBVIOUS
  <2>1. PICK info, live : file' = [file EXCEPT !.cues = found.Cues, !.info = info, !.tags = found.Tags, !.live = live]
    BY <1>1
  <2> QED BY <1>2, <2>1 DEF FileFields
<1>5. FileLeft'
  <2>1. CASE found.Tracks = <<>>
    BY <1>1, <2>1, FileRests
  <2>2. CASE found.Tracks # <<>>
    <3>1. IsSeq(found.Cues)
      BY <1>2 DEF MasterIds
    <3>2. Range(found.Cues) \subseteq Range(index) /\ (found.Cues # <<>> => step \notin {"header", "packets"})
      BY <1>3 DEF FoundTruly
    <3> QED BY <1>1, <1>2, <1>4, <2>2, <3>1, <3>2, FileIs
  <2> QED BY <2>1, <2>2
<1>6. FoundTruly'
  <2>1. /\ Range(found'.SeekHead) \subseteq Range(SeekEntries)
        /\ Range(found'.Cues) \subseteq Range(index)
        /\ found'.Cues # <<>> => step \notin {"header", "packets"}
        /\ found'.Tracks # <<>> => TracksHeld(file.cells)
        /\ ~Sealed => found'.Duration = <<>>
        /\ TracksHeld(file.cells) => \A c \in Range(crcs') : ChecksumIsTrue(c)
        /\ \A s \in Range(chase') : s.id \in ChaseIds /\ s.at \in Nat
    BY <1>1, <1>3 DEF FoundTruly
  <2>2. phase' # "walk" /\ file'.cells = file.cells /\ (phase' = "open" => found'.Tracks # <<>>)
    BY <1>1, <1>4
  <2> QED BY <1>1, <1>2, <2>1, <2>2, FoundIs
<1>7. SealedWalk'
  BY <1>1, SealedWalkIs
<1>8. SealedEnd'
  <2> SUFFICES ASSUME Sealed, phase' = "open"
               PROVE  /\ found'.Duration = TrueDuration
                      /\ step = "done" /\ ~layout.live => file'.cues = index
    BY <1>1, SealedEndIs
  <2>1. found.Duration = TrueDuration /\ (step = "done" /\ ~layout.live => found.Cues = index)
    BY <1>1 DEF Opening, SealedEnd
  <2> QED BY <1>1, <1>4, <2>1
<1>9. ReaderPlace'
  BY <1>1 DEF ReaderPlace
<1> QED BY <1>5, <1>6, <1>7, <1>8, <1>9 DEF Opening

LEMMA ScanForCuesKeeps ==
  ASSUME WriterInv, Opening, ScanForCues, UNCHANGED writer
  PROVE  Opening'
<1> DEFINE p == CuesBehind(file, file.first, SegmentEnd)
           r == MasterAt(file, p, SegmentEnd)
<1>1. /\ phase = "open" /\ file.cues = <<>> /\ file.first # None /\ UNCHANGED <<phase, found, chase>>
      /\ p \in {None, Far} => UNCHANGED <<file, crcs>>
      /\ p \notin {None, Far} =>
           /\ file' = IF r.err THEN file ELSE [file EXCEPT !.cues = r.values["Item"]]
           /\ crcs' \in {crcs, crcs \o Checksum(file, p)}
  BY DEF ScanForCues
<1>2. /\ SegmentEnd = InputLen(file) /\ InputLen(file) \in 0 .. Far /\ Far \in Nat
      /\ FileFields \subseteq DOMAIN file /\ file.dataEnd = InputLen(file)
      /\ file.first \in (0 .. Far) \cup {None}
      /\ DOMAIN found = MasterIds \cup {"Duration"} /\ \A id \in DOMAIN found : IsSeq(found[id])
      /\ IsSeq(crcs) /\ IsSeq(chase)
  BY <1>1, InWalk
<1>3. FoundTruly /\ LegalFile(file)
  BY OpenedIs DEF Opening
<1>4. p \notin {None, Far} => /\ p \in Nat /\ p < InputLen(file) /\ Header(file, p).id = "Cues"
  <2> DEFINE from == file.first
             end == SegmentEnd
  <2>1. from \in Nat /\ end \in 0 .. Far
    BY <1>1, <1>2
  <2> DEFINE q == CuesBehind(file, from, end)
  <2>2. p = q
    OBVIOUS
  <2> HIDE DEF from, end
  <2>3. q \in {None, Far} \/ (q \in Nat /\ q < InputLen(file) /\ Header(file, q).id = "Cues")
    BY <1>3, <2>1, CuesBehindIs
  <2> HIDE DEF p, q
  <2> QED BY <2>2, <2>3
<1>5. p \notin {None, Far} =>
        /\ IsSeq(r.values["Item"]) /\ Range(r.values["Item"]) \subseteq Range(index)
        /\ step \notin {"header", "packets"} /\ r.err \in BOOLEAN
  <2> SUFFICES ASSUME p \notin {None, Far}
               PROVE  /\ IsSeq(r.values["Item"]) /\ Range(r.values["Item"]) \subseteq Range(index)
                      /\ step \notin {"header", "packets"} /\ r.err \in BOOLEAN
    OBVIOUS
  <2> HIDE DEF p
  <2>1. p \in Nat /\ p < InputLen(file) /\ Header(file, p).id = "Cues" /\ Header(file, p).id \in MasterIds
    BY <1>4 DEF MasterIds
  <2> QED BY <1>1, <2>1, MasterLeft
<1>6. /\ FileFields \subseteq DOMAIN file' /\ file'.cells = file.cells /\ file'.clusters = file.clusters
      /\ file'.resilient = file.resilient /\ file'.declared = file.declared /\ file'.intact = file.intact
      /\ file'.dataEnd = InputLen(file) /\ file'.first \in (0 .. Far) \cup {None}
      /\ file'.cues = <<>> \/ (p \notin {None, Far} /\ ~r.err /\ file'.cues = r.values["Item"])
  <2> HIDE DEF p, r
  <2>1. CASE p \in {None, Far} \/ r.err
    BY <1>1, <1>2, <2>1
  <2>2. CASE p \notin {None, Far} /\ ~r.err
    BY <1>1, <1>2, <2>2 DEF FileFields
  <2> QED BY <2>1, <2>2
<1>7. FileLeft'
  <2>1. IsSeq(file'.cues) /\ Range(file'.cues) \subseteq Range(index)
    <3> HIDE DEF p, r
    <3>1. IsSeq(<<>>) /\ Range(<<>>) = {}
      BY EmptyIs DEF Range
    <3> QED BY <1>5, <1>6, <3>1
  <2>2. file'.cues # <<>> => phase' = "open" /\ step \notin {"header", "packets"}
    BY <1>1, <1>5, <1>6
  <2> HIDE DEF p, r
  <2>3. phase' # "start"
    BY <1>1
  <2> QED BY <1>6, <2>1, <2>2, <2>3, FileIs
<1>8. IsSeq(crcs') /\ (TracksHeld(file.cells) => \A c \in Range(crcs') : ChecksumIsTrue(c))
  <2> DEFINE k == Checksum(file, p)
  <2>1. TracksHeld(file.cells) => \A c \in Range(crcs) : ChecksumIsTrue(c)
    BY <1>3 DEF FoundTruly
  <2>2. p \notin {None, Far} /\ TracksHeld(file.cells) => \A c \in Range(k) : ChecksumIsTrue(c)
    <3> SUFFICES ASSUME p \notin {None, Far}, TracksHeld(file.cells), NEW c \in Range(k) PROVE ChecksumIsTrue(c)
      OBVIOUS
    <3> HIDE DEF p
    <3>1. p \in Nat /\ p < InputLen(file) /\ Header(file, p).id \in MasterIds
      BY <1>4 DEF MasterIds
    <3> QED BY <3>1, ChecksumLeft
  <2>3. IsSeq(k)
    <3> HIDE DEF k, p
    <3>1. k = <<>> \/ \E v : k = <<[id |-> Header(file, p).id, valid |-> v]>>
      BY SomeChecksum DEF k
    <3> QED BY <3>1, EmptyIs, SingleIs
  <2> HIDE DEF k, p, r
  <2>4. IsSeq(crcs \o k) /\ Range(crcs \o k) \subseteq Range(crcs) \cup Range(k)
    BY <1>2, <2>3, RangeOfConcat
  <2>5. crcs' = crcs \/ (p \notin {None, Far} /\ crcs' = crcs \o k)
    BY <1>1 DEF k
  <2> QED BY <1>2, <2>1, <2>2, <2>4, <2>5
<1>9. FoundTruly'
  <2>1. /\ Range(found'.SeekHead) \subseteq Range(SeekEntries)
        /\ Range(found'.Cues) \subseteq Range(index)
        /\ found'.Cues # <<>> => step \notin {"header", "packets"}
        /\ found'.Tracks # <<>> => TracksHeld(file.cells)
        /\ phase' = "open" => found'.Tracks # <<>>
        /\ ~Sealed => found'.Duration = <<>>
        /\ \A s \in Range(chase') : s.id \in ChaseIds /\ s.at \in Nat
    BY <1>1, <1>3 DEF FoundTruly
  <2>2. phase' # "walk" /\ file'.cells = file.cells
    BY <1>1, <1>6
  <2> QED BY <1>1, <1>2, <1>8, <2>1, <2>2, FoundIs
<1>10. SealedWalk'
  BY <1>1, SealedWalkIs
<1>11. SealedEnd'
  <2> SUFFICES ASSUME Sealed
               PROVE  /\ found'.Duration = TrueDuration
                      /\ step = "done" /\ ~layout.live => file'.cues = index
    BY <1>1, SealedEndIs
  <2>1. found.Duration = TrueDuration /\ (step = "done" /\ ~layout.live => file.cues = index)
    BY <1>1 DEF Opening, SealedEnd
  <2>2. p \notin {None, Far} => r.values["Item"] = index
    <3> SUFFICES ASSUME p \notin {None, Far} PROVE r.values["Item"] = index
      OBVIOUS
    <3> HIDE DEF p
    <3>1. Yields(p, index, <<>>, p + Len(CuesElement))
      BY <1>1, <1>4, CuesYields
    <3> QED BY <3>1 DEF Yields
  <2> QED BY <1>1, <1>6, <2>1, <2>2
<1>12. ReaderPlace'
  BY <1>1 DEF ReaderPlace
<1> QED BY <1>7, <1>9, <1>10, <1>11, <1>12 DEF Opening

-----------------------------------------------------------------------------
(* The whole.                                                              *)

\* What the writer leaves is a file, whatever a crash left of it.
LEMMA LeftBehindIs ==
  ASSUME WriterInv, NEW c \in Remains, NEW resilient \in BOOLEAN
  PROVE  LET f == LeftBehind(c, resilient) IN
         /\ FileFields \subseteq DOMAIN f /\ LegalFile(f) /\ f.cells = c /\ f.declared = Unknown
         /\ f.intact = (step = "done") /\ f.cues = <<>>
<1> DEFINE f == LeftBehind(c, resilient)
<1>1. /\ f.cells = c /\ f.declared = Unknown /\ f.intact = (step = "done") /\ f.cues = <<>>
      /\ f.first = None /\ f.dataEnd = 0 /\ f.resilient = resilient
      /\ f.clusters = {p \in 0 .. Len(c) - 1 : c[p + 1].id = "Cluster"}
      /\ FileFields \subseteq DOMAIN f
  BY DEF LeftBehind, FileFields
<1> HIDE DEF f
<1>2. LeftTruly(c) /\ Far \in Nat
  BY RemainIs, ProbeAssumption
<1>3. IsSeq(c) /\ Len(c) \in 0 .. Far /\ Len(c) \in Nat /\ DOMAIN c = 1 .. Len(c) /\ CellsLegal(c)
  BY <1>2 DEF LeftTruly, IsSeq
<1>4. InputLen(f) = Len(c)
  BY <1>1 DEF InputLen
<1>5. \A i \in DOMAIN c : /\ c[i].size \in Nat \cup {Unknown}
                          /\ c[i].id \in {"SimpleBlock", "Block"} => c[i].frames \in Nat
                          /\ c[i].id = "Timecode" => c[i].v \in Int
  BY <1>3 DEF CellsLegal
<1>6. \A q \in f.clusters : q \in Nat /\ Header(f, q).id = "Cluster"
  <2> SUFFICES ASSUME NEW q \in f.clusters PROVE q \in Nat /\ Header(f, q).id = "Cluster"
    OBVIOUS
  <2>1. q \in 0 .. Len(c) - 1 /\ c[q + 1].id = "Cluster"
    BY <1>1
  <2> QED BY <1>1, <1>3, <1>4, <2>1 DEF Header
<1>7. <<>> \in Seq(Range(<<>>)) /\ Range(<<>>) = {}
  BY DEF Range
<1>8. LegalFile(f)
  BY <1>1, <1>2, <1>3, <1>4, <1>5, <1>6, <1>7 DEF LegalFile
<1> QED BY <1>1, <1>8 DEF f

LEMMA HandOverKeeps ==
  ASSUME WriterInv, OpeningInv, HandOver
  PROVE  OpeningInv'
<1>1. /\ phase = "write" /\ phase' = "start" /\ UNCHANGED <<found, crcs, chase, writer>>
  BY DEF HandOver
<1>2. PICK c \in Remains, resilient \in BOOLEAN : file' = LeftBehind(c, resilient)
  BY DEF HandOver
<1>3. /\ FileFields \subseteq DOMAIN file' /\ LegalFile(file') /\ file'.cells = c /\ file'.declared = Unknown
      /\ file'.intact = (step = "done") /\ file'.cues = <<>>
  BY <1>2, LeftBehindIs
<1>4. Blank
  BY <1>1 DEF OpeningInv
<1>5. Blank'
  BY <1>1, <1>4 DEF Blank
<1>6. FileLeft'
  <2>1. LeftTruly(c)'
    <3>1. PICK d : d = c
      OBVIOUS
    <3>2. LeftTruly(d)
      BY <3>1, RemainIs
    <3>3. LeftTruly(d)'
      BY <1>1, <3>2, LeftStays
    <3> QED BY <3>1, <3>3
  <2>2. LeftTruly(file.cells)'
    BY <1>3, <2>1
  <2>3. step' = step /\ Range(<<>>) = {}
    BY <1>1, WriterSame DEF Range
  <2> QED BY <1>1, <1>3, <2>2, <2>3 DEF FileLeft
<1>7. FoundTruly'
  <2>1. /\ DOMAIN found' = MasterIds \cup {"Duration"} /\ \A i \in DOMAIN found' : found'[i] = <<>>
        /\ crcs' = <<>> /\ chase' = <<>>
    BY <1>5 DEF Blank
  <2>2. Range(<<>>) = {} /\ IsSeq(<<>>)
    BY EmptyIs DEF Range
  <2>3. found'.SeekHead = <<>> /\ found'.Cues = <<>> /\ found'.Tracks = <<>> /\ found'.Duration = <<>>
    BY <2>1 DEF MasterIds
  <2> QED BY <1>1, <2>1, <2>2, <2>3 DEF FoundTruly
<1>8. SealedWalk' /\ SealedEnd' /\ ReaderPlace'
  BY <1>1 DEF SealedWalk, SealedEnd, ReaderPlace
<1>9. "written" \in DOMAIN file'
  BY <1>3 DEF FileFields
<1> QED BY <1>5, <1>6, <1>7, <1>8, <1>9 DEF OpeningInv, Opening

\* What is not the file a writer left.
LEMMA WrittenStays ==
  ASSUME ReaderStep, phase # "write", "written" \in DOMAIN file
  PROVE  /\ file'.written = file.written /\ "written" \in DOMAIN file'
         /\ phase' \notin {"write", "start"} /\ UNCHANGED writer
<1>1. CASE OpenSegment
  BY <1>1 DEF OpenSegment, ReaderStep
<1>2. CASE ReadMaster \/ StepOver \/ StepOverGarbage
  <2>1. /\ file' = file /\ phase = "walk"
        /\ phase' = phase \/ phase' \in {"walk", "chase", "failed"}
    BY <1>2 DEF ReadMaster, StepOver, StepOverGarbage, RecoverAt, Walking
  <2> QED BY <2>1 DEF ReaderStep
<1>3. CASE StopWalk
  BY <1>3 DEF StopWalk, ReaderStep
<1>4. CASE FollowTarget
  BY <1>4 DEF FollowTarget, ReaderStep, input
<1>5. CASE FinishOpen
  BY <1>5 DEF FinishOpen, ReaderStep, input
<1>6. CASE Call
  <2>1. file' = file /\ phase = "open" /\ phase' = phase
    BY <1>6, FileStays DEF Call, Next, opening
  <2> QED BY <2>1 DEF ReaderStep
<1>7. CASE phase = "open" /\ LoopTurn /\ UNCHANGED opening
  <2>1. file' = file /\ phase = "open" /\ phase' = phase
    BY <1>7, FileStays DEF Next, opening
  <2> QED BY <2>1 DEF ReaderStep
<1>8. CASE ScanForCues
  <2>1. /\ phase = "open" /\ phase' = phase
        /\ file' = file \/ \E q : file' = [file EXCEPT !.cues = q]
    BY <1>8 DEF ScanForCues
  <2> QED BY <2>1 DEF ReaderStep
<1> QED BY <1>1, <1>2, <1>3, <1>4, <1>5, <1>6, <1>7, <1>8 DEF ReaderStep, Working, OpenStep

LEMMA ReaderKeeps ==
  ASSUME WriterInv, OpeningInv, ReaderStep, phase # "write"
  PROVE  OpeningInv'
<1>1. /\ file'.written = file.written /\ "written" \in DOMAIN file'
      /\ phase' \notin {"write", "start"} /\ UNCHANGED writer
  BY WrittenStays DEF OpeningInv
<1>2. SUFFICES ASSUME Handed PROVE Opening'
  BY <1>1 DEF OpeningInv, Handed
<1>3. Opening
  BY <1>2 DEF OpeningInv
<1>4. CASE OpenSegment
  <2>1. Blank
    BY <1>4 DEF OpenSegment, OpeningInv
  <2> QED BY <1>1, <1>3, <1>4, <2>1, OpenSegmentKeeps
<1>5. CASE ReadMaster
  BY <1>1, <1>3, <1>5, ReadMasterKeeps
<1>6. CASE StepOver
  BY <1>1, <1>3, <1>6, StepOverKeeps
<1>7. CASE StepOverGarbage
  BY <1>1, <1>3, <1>7, StepOverGarbageKeeps
<1>8. CASE StopWalk
  BY <1>1, <1>3, <1>8, StopWalkKeeps
<1>9. CASE FollowTarget
  BY <1>1, <1>3, <1>9, FollowTargetKeeps
<1>10. CASE FinishOpen
  BY <1>1, <1>3, <1>10, FinishOpenKeeps
<1>11. CASE ScanForCues
  BY <1>1, <1>3, <1>11, ScanForCuesKeeps
<1>12. CASE Call \/ (phase = "open" /\ LoopTurn /\ UNCHANGED opening)
  <2>1. file' = file /\ phase = "open" /\ UNCHANGED opening
    BY <1>12, FileStays DEF Call, Next
  <2> QED BY <1>1, <1>3, <2>1, CallsKeep
<1> QED BY <1>4, <1>5, <1>6, <1>7, <1>8, <1>9, <1>10, <1>11, <1>12 DEF ReaderStep, Working, OpenStep

LEMMA SystemKeeps ==
  ASSUME WriterInv, OpeningInv, [SystemNext]_all
  PROVE  WriterInv' /\ OpeningInv'
<1>1. CASE UNCHANGED all
  <2>1. UNCHANGED <<file, phase, opening, writer, pos>>
    BY <1>1 DEF all, vars, input, opening
  <2>2. WriterInv'
    BY <2>1, WriterRests
  <2>3. /\ UNCHANGED <<found, crcs, chase>> /\ (Blank => Blank')
    BY <2>1 DEF opening, Blank
  <2>4. ASSUME Opening PROVE Opening'
    <3>1. FileLeft'
      <4>1. LeftTruly(file.cells)'
        <5>1. PICK d : d = file.cells
          OBVIOUS
        <5>2. LeftTruly(d)
          BY <2>4, <5>1 DEF Opening, FileLeft
        <5>3. LeftTruly(d)'
          BY <2>1, <5>2, LeftStays
        <5> QED BY <2>1, <5>1, <5>3
      <4>2. step' = step /\ index' = index
        BY <2>1, WriterSame
      <4> QED BY <2>1, <2>4, <4>1, <4>2 DEF Opening, FileLeft
    <3>2. FoundTruly'
      <4>1. FoundTruly
        BY <2>4 DEF Opening
      <4>2. /\ DOMAIN found' = MasterIds \cup {"Duration"} /\ \A i \in DOMAIN found' : IsSeq(found'[i])
            /\ IsSeq(crcs') /\ IsSeq(chase')
            /\ Range(found'.SeekHead) \subseteq Range(SeekEntries)
            /\ Range(found'.Cues) \subseteq Range(index)
            /\ found'.Cues # <<>> => step \notin {"header", "packets"}
            /\ found'.Tracks # <<>> => TracksHeld(file.cells)
            /\ phase' = "open" => found'.Tracks # <<>>
            /\ ~Sealed => found'.Duration = <<>>
            /\ phase' = "walk" => chase' = <<>>
            /\ \A s \in Range(chase') : s.id \in ChaseIds /\ s.at \in Nat
            /\ TracksHeld(file.cells) => \A c \in Range(crcs') : ChecksumIsTrue(c)
        BY <2>1, <2>3, <4>1 DEF FoundTruly
      <4>3. file'.cells = file.cells
        BY <2>1
      <4> QED BY <2>1, <4>2, <4>3, FoundIs
    <3>3. SealedWalk'
      BY <2>1, <2>3, <2>4, SealedWalkIs DEF Opening, SealedWalk
    <3>4. SealedEnd'
      BY <2>1, <2>3, <2>4, SealedEndIs DEF Opening, SealedEnd
    <3> QED BY <2>1, <2>4, <3>1, <3>2, <3>3, <3>4 DEF Opening, ReaderPlace
  <2> QED BY <2>1, <2>2, <2>3, <2>4 DEF OpeningInv, Handed
<1>2. CASE WriterStep
  <2>1. /\ Write /\ UNCHANGED <<file, phase, found, crcs, chase>> /\ phase = "write"
    BY <1>2 DEF WriterStep, vars, input, opening
  <2>2. WriterInv'
    BY <2>1, WriteKeeps
  <2> QED BY <2>1, <2>2 DEF OpeningInv, Blank, Handed
<1>3. CASE HandOver
  <2>1. UNCHANGED writer
    BY <1>3 DEF HandOver
  <2> QED BY <1>3, <2>1, HandOverKeeps, WriterRests
<1>4. CASE ReaderStep
  <2>1. UNCHANGED writer /\ phase # "write"
    BY <1>4 DEF ReaderStep, OpenSegment, Working, OpenStep, ReadMaster, StepOver, StepOverGarbage, StopWalk,
      FollowTarget, FinishOpen, Walking, Call, ScanForCues
  <2> QED BY <1>4, <2>1, ReaderKeeps, WriterRests
<1> QED BY <1>1, <1>2, <1>3, <1>4 DEF SystemNext

-----------------------------------------------------------------------------
(* The audits of the index.                                                *)

\* The audit's count of the Blocks from p on adds one for each it passes.
LEMMA BlocksInIs ==
  ASSUME NEW f, LegalFile(f), NEW end \in 0 .. Far
  PROVE  \E C \in [Nat -> Nat] :
           /\ \A p \in Nat : BlocksIn(f, p, end) = C[p]
           /\ \A p \in Nat :
                p < end /\ Parses(Header(f, p)) /\ NextAt(f, p) <= end =>
                  C[p] = (IF Header(f, p).id \in {"SimpleBlock", "BlockGroup"} THEN 1 ELSE 0) + C[NextAt(f, p)]
<1> DEFINE V == Nat
           v0 == 0
           One(p) == IF Header(f, p).id \in {"SimpleBlock", "BlockGroup"} THEN 1 ELSE 0
           Turned(p, rest) ==
             IF p >= end \/ ~Parses(Header(f, p)) THEN 0
             ELSE IF NextAt(f, p) > end THEN One(p)
             ELSE One(p) + rest
           g == [p \in Nat |-> [rest \in V |-> Turned(p, rest)]]
           Turns(H) == H = [p \in Nat |-> Turned(p, H[NextAt(f, p)])]
<1>a. v0 \in V
  OBVIOUS
<1>1. g \in [Nat -> [V -> V]]
  <2> SUFFICES ASSUME NEW p \in Nat, NEW rest \in V PROVE Turned(p, rest) \in V
    OBVIOUS
  <2>1. One(p) \in {0, 1}
    OBVIOUS
  <2> HIDE DEF One
  <2>2. Turned(p, rest) \in {0, One(p), One(p) + rest}
    OBVIOUS
  <2> HIDE DEF Turned
  <2> QED BY <2>1, <2>2
<1>2. \A p \in Nat : p >= end => \A r \in V : g[p][r] = g[p][v0]
  <2> TAKE p \in Nat
  <2> HAVE p >= end
  <2> TAKE r \in V
  <2>1. Turned(p, r) = 0 /\ Turned(p, v0) = 0
    OBVIOUS
  <2> HIDE DEF Turned, V, v0
  <2> QED BY <1>a, <2>1
<1>3. ASSUME NEW G \in [Nat -> V], NEW p \in Nat
      PROVE  g[p][G[NextAt(f, p)]] = Turned(p, G[NextAt(f, p)])
  <2>1. NextAt(f, p) \in Nat
    BY NextIs DEF NextAt
  <2>2. G[NextAt(f, p)] \in V
    <3> HIDE DEF V
    <3> QED BY <2>1
  <2> HIDE DEF Turned, V, v0
  <2> QED BY <2>2
<1> HIDE DEF g, v0
<1>4. PICK G \in [Nat -> V] : G = [p \in Nat |-> g[p][G[NextAt(f, p)]]]
  <2> HIDE DEF Turned, Turns, V
  <2> QED BY <1>a, <1>1, <1>2, FileWalkExists
<1>5. Turns(G)
  BY <1>3, <1>4
<1> DEFINE K == CHOOSE H : Turns(H)
<1>6. Turns(K)
  <2> HIDE DEF Turns
  <2> QED BY <1>5
<1>7. \A p \in Nat : BlocksIn(f, p, end) = K[p]
  BY DEF BlocksIn, NextAt
<1>8. \A p \in Nat : K[p] = Turned(p, K[NextAt(f, p)])
  <2> HIDE DEF Turned, K
  <2> QED BY <1>6
<1>d. K = [p \in Nat |-> K[p]]
  <2> HIDE DEF Turned, K
  <2> QED BY <1>6
<1> HIDE DEF Turns, K
<1> DEFINE Good == {p \in Nat : K[p] \in Nat}
<1>9. ASSUME NEW p \in Nat, p >= end PROVE p \in Good
  BY <1>8, <1>9
<1>10. ASSUME NEW p \in Nat, p < end, NextAt(f, p) \in Good PROVE p \in Good
  BY <1>8, <1>10
<1>11. Nat \subseteq Good
  <2> HIDE DEF Good
  <2> QED BY <1>9, <1>10, FileInduction
<1>12. K \in [Nat -> Nat]
  BY <1>11, <1>d
<1>13. ASSUME NEW p \in Nat, p < end, Parses(Header(f, p)), NextAt(f, p) <= end
       PROVE  K[p] = One(p) + K[NextAt(f, p)]
  <2>1. NextAt(f, p) \in Nat /\ end \in Nat
    BY NextIs, ProbeAssumption DEF NextAt
  <2>2. ~(p >= end) /\ ~(NextAt(f, p) > end)
    BY <1>13, <2>1
  <2> QED BY <1>8, <1>13, <2>2
<1> QED BY <1>7, <1>12, <1>13

\* A Cluster's first num Blocks are counted.
LEMMA BlocksCounted ==
  ASSUME NEW f, LegalFile(f), NEW end \in 0 .. Far, NEW off \in Nat, NEW num \in Nat,
         off + 2 + 2 * num <= end, Header(f, off + 1).id = "Timecode", NextAt(f, off + 1) = off + 2,
         \A j \in 1 .. num : Header(f, off + 2 * j).id = "SimpleBlock" /\ NextAt(f, off + 2 * j) = off + 2 * (j + 1)
  PROVE  BlocksIn(f, off + 1, end) >= num
<1>1. PICK C \in [Nat -> Nat] :
        /\ \A p \in Nat : BlocksIn(f, p, end) = C[p]
        /\ \A p \in Nat :
             p < end /\ Parses(Header(f, p)) /\ NextAt(f, p) <= end =>
               C[p] = (IF Header(f, p).id \in {"SimpleBlock", "BlockGroup"} THEN 1 ELSE 0) + C[NextAt(f, p)]
  BY BlocksInIs
<1>0. end \in Nat /\ Far \in Nat
  BY ProbeAssumption
<1> DEFINE D == 1 .. num + 1
           m == [j \in D |-> num + 1 - j]
           Good == {j \in D : C[off + 2 * j] >= num + 1 - j}
<1>2. m \in [D -> Nat]
  OBVIOUS
<1>3. ASSUME NEW j \in D, \A e \in D : m[e] < m[j] => e \in Good
      PROVE  j \in Good
  <2>1. CASE j = num + 1
    <3>1. off + 2 * j \in Nat
      OBVIOUS
    <3>2. C[off + 2 * j] \in Nat
      BY <3>1
    <3> QED BY <2>1, <3>2
  <2>2. CASE j # num + 1
    <3>1. j \in 1 .. num /\ j + 1 \in D /\ m[j + 1] < m[j]
      BY <2>2
    <3>2. C[off + 2 * (j + 1)] >= num + 1 - (j + 1) /\ off + 2 * (j + 1) \in Nat
      BY <1>3, <3>1
    <3> DEFINE p == off + 2 * j
               q == off + 2 * (j + 1)
    <3>3. p \in Nat /\ p < end /\ q <= end
      BY <1>0, <3>1
    <3>4. Header(f, p).id = "SimpleBlock" /\ NextAt(f, p) = q
      BY <3>1
    <3>5. Parses(Header(f, p))
      BY <3>4 DEF Parses
    <3> HIDE DEF p, q
    <3>6. C[p] = 1 + C[q]
      BY <1>1, <3>3, <3>4, <3>5
    <3>7. C[q] \in Nat /\ C[q] >= num + 1 - (j + 1)
      BY <3>2 DEF q
    <3>8. C[p] >= num + 1 - j
      BY <3>6, <3>7
    <3> QED BY <3>8 DEF p
  <2> QED BY <2>1, <2>2
<1> HIDE DEF m, Good
<1>4. D \subseteq Good
  <2> HIDE DEF D
  <2> QED BY <1>2, <1>3, MeasureInduction
<1>5. 1 \in Good
  BY <1>4
<1>6. C[off + 2] >= num
  BY <1>5 DEF Good
<1>7. C[off + 1] = 0 + C[off + 2]
  <2> DEFINE p == off + 1
  <2>1. p \in Nat /\ p < end /\ NextAt(f, p) = off + 2 /\ off + 2 <= end /\ Header(f, p).id = "Timecode"
    BY <1>0
  <2>2. Parses(Header(f, p)) /\ Header(f, p).id \notin {"SimpleBlock", "BlockGroup"}
    BY <2>1 DEF Parses
  <2> HIDE DEF p
  <2>3. C[p] = 0 + C[off + 2]
    BY <1>1, <2>1, <2>2
  <2> QED BY <2>3 DEF p
<1>8. C[off + 2] \in Nat /\ off + 1 \in Nat
  OBVIOUS
<1> QED BY <1>1, <1>6, <1>7, <1>8

\* What is left of the Cluster a cue leads to.
LEMMA CuedCluster ==
  ASSUME WriterInv, Opening, step \notin {"header", "packets"}, NEW q \in Range(index)
  PROVE  /\ q.off \in Nat /\ q.num \in Nat \ {0} /\ q.rel = 2 * q.num - 1 /\ q.time \in Nat
         /\ q.off + 2 + 2 * q.num <= InputLen(file)
         /\ \E p \in Range(Recording) : q.track = p.track
         /\ Header(file, q.off) = [id |-> "Cluster", size |-> Unknown]
         /\ \E tc \in 0 .. q.time : Header(file, q.off + 1) = [id |-> "Timecode", size |-> 0, v |-> tc]
         /\ \A j \in 1 .. q.num :
              Header(file, q.off + 2 * j).id = "SimpleBlock" /\ Header(file, q.off + 2 * j).size = 1
<1>1. PICK i \in DOMAIN index : q = index[i]
  BY DEF Range
<1>2. /\ q.time \in Nat /\ q.off \in Nat /\ q.num \in Nat \ {0} /\ q.rel = 2 * q.num - 1
      /\ \E p \in Range(Recording) : q.track = p.track
      /\ \E tc \in 0 .. q.time : HoldsBlocks(q.off, tc, q.num)
  BY <1>1 DEF WriterInv, IndexHolds
<1>3. PICK tc \in 0 .. q.time : HoldsBlocks(q.off, tc, q.num)
  BY <1>2
<1>4. /\ HeaderEnd <= q.off /\ q.off + 2 + 2 * q.num <= BodyEnd
      /\ output[q.off + 1] = [id |-> "Cluster", size |-> Unknown]
      /\ output[q.off + 2] = [id |-> "Timecode", size |-> 0, v |-> tc]
      /\ \A j \in 1 .. q.num : output[q.off + 2 * j + 1].id = "SimpleBlock" /\ output[q.off + 2 * j + 1].size = 1
  BY <1>3 DEF HoldsBlocks
<1>5. /\ BodyEnd <= InputLen(file) /\ InputLen(file) \in Nat
      /\ \A o \in HeaderEnd .. BodyEnd - 1 : file.cells[o + 1] = output[o + 1]
      /\ \A o \in Nat : o < InputLen(file) => Header(file, o) = file.cells[o + 1]
  BY OpenedIs DEF LeftTruly, BodyLeft
<1>6. HeaderEnd \in Nat /\ BodyEnd \in Nat
  BY Sizes, Offs
<1>7. ASSUME NEW o \in Nat, HeaderEnd <= o, o < BodyEnd PROVE Header(file, o) = output[o + 1]
  BY <1>5, <1>6, <1>7
<1>8. Header(file, q.off) = output[q.off + 1]
  <2>1. q.off < BodyEnd
    BY <1>2, <1>4, <1>6
  <2> QED BY <1>2, <1>4, <1>7, <2>1
<1>9. Header(file, q.off + 1) = output[q.off + 2]
  <2> DEFINE o == q.off + 1
  <2>1. o \in Nat /\ HeaderEnd <= o /\ o < BodyEnd /\ o + 1 = q.off + 2
    BY <1>2, <1>4, <1>6
  <2> HIDE DEF o
  <2>2. Header(file, o) = output[o + 1]
    BY <1>7, <2>1
  <2> QED BY <2>1, <2>2 DEF o
<1>10. ASSUME NEW j \in 1 .. q.num PROVE Header(file, q.off + 2 * j) = output[q.off + 2 * j + 1]
  <2> DEFINE o == q.off + 2 * j
  <2>1. o \in Nat /\ HeaderEnd <= o /\ o < BodyEnd
    BY <1>2, <1>4, <1>6
  <2> HIDE DEF o
  <2>2. Header(file, o) = output[o + 1]
    BY <1>7, <2>1
  <2> QED BY <2>2 DEF o
<1>11. q.off + 2 + 2 * q.num <= InputLen(file)
  BY <1>2, <1>4, <1>5, <1>6
<1> QED BY <1>2, <1>3, <1>4, <1>8, <1>9, <1>10, <1>11

LEMMA CuesAreTrue ==
  ASSUME WriterInv, Opening, phase = "open", step \notin {"header", "packets"}, NEW q \in Range(index)
  PROVE  CueIsTrue(q)
<1> DEFINE end == InputLen(file)
<1>1. /\ LegalFile(file) /\ SegmentEnd = end /\ end \in 0 .. Far /\ end \in Nat /\ Far \in Nat
  BY OpenedIs, InWalk
<1>2. /\ q.off \in Nat /\ q.num \in Nat \ {0} /\ q.rel = 2 * q.num - 1 /\ q.time \in Nat
      /\ q.off + 2 + 2 * q.num <= end
      /\ \E p \in Range(Recording) : q.track = p.track
      /\ Header(file, q.off) = [id |-> "Cluster", size |-> Unknown]
      /\ \A j \in 1 .. q.num :
           Header(file, q.off + 2 * j).id = "SimpleBlock" /\ Header(file, q.off + 2 * j).size = 1
  BY CuedCluster
<1>3. PICK tc \in 0 .. q.time : Header(file, q.off + 1) = [id |-> "Timecode", size |-> 0, v |-> tc]
  BY CuedCluster
<1> HIDE DEF end
<1>4. ClusterEnd(file, q.off, SegmentEnd) = end
  BY <1>1, <1>2 DEF ClusterEnd
<1>5. q.track \in DOMAIN TrackIndex /\ Slack \in Nat
  BY <1>2, RecoveryAssumption
<1> DEFINE b == q.off + 1
<1>6. b \in Nat /\ b < end /\ b + 1 <= end
  BY <1>1, <1>2
<1>7. Past(b + 1, Header(file, b).size) = b + 1 /\ NextAt(file, b) = q.off + 2
  <2>1. Header(file, b).size = 0 /\ b + 1 \in Nat /\ b + 1 <= Far
    BY <1>1, <1>3, <1>6
  <2>2. Past(b + 1, 0) = b + 1
    <3> DEFINE n == b + 1
    <3>1. n \in Nat /\ n <= Far /\ n + 0 = n
      BY <2>1
    <3> HIDE DEF n, b
    <3>2. Min({n, Far}) = n
      BY <1>1, <3>1, MinOfTwo
    <3>3. Past(n, 0) = n
      BY <3>1, <3>2 DEF Past, Unknown
    <3> QED BY <3>3 DEF n
  <2>3. b + 1 = q.off + 2
    BY <1>2
  <2> DEFINE n == b + 1
  <2> HIDE DEF b, n
  <2>4. Header(file, b).size = 0 /\ Past(n, 0) = n /\ n = q.off + 2
    BY <2>1, <2>2, <2>3 DEF n
  <2>5. NextAt(file, b) = Past(n, Header(file, b).size)
    BY DEF NextAt, n
  <2> QED BY <2>4, <2>5 DEF n
<1>8. ~Lies(q)
  <2>1. Readable(file, b)
    BY <1>3, <1>6, <1>7 DEF Readable, Unknown, end
  <2>2. Header(file, b).id = "Timecode" /\ Header(file, b).v = tc
    BY <1>3
  <2>3. LeadingTimestamp(file, b, end) = tc
    <3> HIDE DEF b
    <3> QED BY <1>1, <1>6, <2>1, <2>2, LeadingTimestampIs
  <2>4. Min({end, end}) = end
    BY <1>1, MinOfTwo
  <2>5. ~(q.off >= end)
    BY <1>1, <1>2
  <2>6. ~(tc > q.time + Slack)
    BY <1>2, <1>3, <1>5
  <2> QED BY <1>1, <1>2, <1>4, <2>3, <2>4, <2>5, <2>6 DEF Lies
<1>9. ASSUME NEW j \in 1 .. q.num
      PROVE  NextAt(file, q.off + 2 * j) = q.off + 2 * (j + 1)
  <2> DEFINE p == q.off + 2 * j
  <2>1. p \in Nat /\ p + 1 \in Nat /\ p + 2 \in Nat /\ p + 2 <= Far /\ p + 2 = q.off + 2 * (j + 1) /\ (p + 1) + 1 = p + 2
    BY <1>1, <1>2
  <2>2. Header(file, p).size = 1
    BY <1>2
  <2> HIDE DEF p
  <2>3. Min({p + 2, Far}) = p + 2
    BY <1>1, <2>1, MinOfTwo
  <2>4. NextAt(file, p) = p + 2
    BY <2>1, <2>2, <2>3 DEF NextAt, Past, Unknown
  <2> QED BY <2>1, <2>4 DEF p
<1>10. BlocksIn(file, b, end) >= q.num
  <2> DEFINE off == q.off
             num == q.num
  <2>1. /\ off \in Nat /\ num \in Nat /\ off + 2 + 2 * num <= end
        /\ Header(file, off + 1).id = "Timecode" /\ NextAt(file, off + 1) = off + 2
        /\ \A j \in 1 .. num : Header(file, off + 2 * j).id = "SimpleBlock"
                               /\ NextAt(file, off + 2 * j) = off + 2 * (j + 1)
    BY <1>2, <1>3, <1>7, <1>9
  <2> HIDE DEF off, num, b
  <2>2. BlocksIn(file, off + 1, end) >= num
    BY <1>1, <2>1, BlocksCounted
  <2> QED BY <2>2 DEF off, num, b
<1>11. LET at == Past(q.off + 1, q.rel) IN at < end /\ Header(file, at).id \in {"SimpleBlock", "BlockGroup"}
  <2> DEFINE at == q.off + 2 * q.num
             rel == q.rel
  <2>1. /\ b \in Nat /\ rel \in Nat /\ b + rel = at /\ at \in Nat /\ at <= Far /\ at < end
    BY <1>1, <1>2
  <2>2. Header(file, at).id = "SimpleBlock"
    BY <1>2
  <2> HIDE DEF at, b, rel
  <2>3. Min({at, Far}) = at
    BY <1>1, <2>1, MinOfTwo
  <2>4. rel # Unknown
    BY <2>1 DEF Unknown
  <2>5. Past(b, rel) = at
    BY <2>1, <2>3, <2>4 DEF Past
  <2> QED BY <2>1, <2>2, <2>5 DEF b, rel
<1>12. q.num > 0 /\ end <= SegmentEnd
  BY <1>1, <1>2
<1> QED BY <1>1, <1>4, <1>5, <1>8, <1>10, <1>11, <1>12 DEF CueIsTrue

LEMMA SeekEntriesAreTrue ==
  ASSUME WriterInv, Opening, phase = "open", NEW s \in Range(found.SeekHead)
  PROVE  SeekIsTrue(s) \/ (~file.intact /\ s.id = "Cues" /\ s.at = 0)
<1>1. s \in Range(SeekEntries) /\ TracksHeld(file.cells)
  BY DEF Opening, FoundTruly
<1>2. /\ LegalFile(file) /\ SegmentEnd = InputLen(file) /\ InputLen(file) \in Nat
      /\ layout \in Layouts
  BY OpenedIs, InWalk
<1>3. /\ ~layout.live
      /\ \/ s = [id |-> "Info", at |-> 5]
         \/ s = [id |-> "Tracks", at |-> TracksAt]
         \/ /\ ~(SeekPatched /\ entry = None)
            /\ s = [id |-> "Cues", at |-> IF SeekPatched THEN entry ELSE 0]
  <2> DEFINE info == [id |-> "Info", at |-> Offsets.Info]
             tracks == [id |-> "Tracks", at |-> TracksAt]
             cues == [id |-> "Cues", at |-> IF SeekPatched THEN entry ELSE 0]
  <2>1. SeekEntries = IF layout.live THEN <<>>
                      ELSE IF SeekPatched /\ entry = None THEN <<info, tracks>>
                      ELSE <<info, tracks, cues>>
    BY DEF SeekEntries
  <2> HIDE DEF info, tracks, cues
  <2>2. Range(<<>>) = {} /\ Range(<<info, tracks>>) = {info, tracks}
        /\ Range(<<info, tracks, cues>>) = {info, tracks, cues}
    BY DEF Range
  <2>3. ~layout.live /\ (s = info \/ s = tracks \/ (~(SeekPatched /\ entry = None) /\ s = cues))
    BY <1>1, <2>1, <2>2
  <2> QED BY <2>3 DEF info, tracks, cues, Offsets
<1>4. /\ InfoAt = 5 /\ InfoAt \in Nat /\ TracksAt \in Nat /\ SlotAt \in Nat /\ InfoAt < TracksAt
      /\ TracksAt < SlotAt
  BY <1>2, <1>3, Offs
<1>5. CASE s = [id |-> "Info", at |-> 5]
  <2>1. InfoAt \in 0 .. SlotAt - 1
    BY <1>4
  <2>2. Header(file, InfoAt) = HeaderNow(InfoAt) /\ InfoAt < InputLen(file)
    BY <1>1, <2>1, HeaderLeftIs
  <2>3. HeaderNow(InfoAt).id = "Info"
    BY <1>2, HeaderNowIs
  <2> QED BY <1>2, <1>4, <1>5, <2>2, <2>3 DEF SeekIsTrue, None
<1>6. CASE s = [id |-> "Tracks", at |-> TracksAt]
  <2>1. TracksAt \in 0 .. SlotAt - 1
    BY <1>4
  <2>2. Header(file, TracksAt) = HeaderNow(TracksAt) /\ TracksAt < InputLen(file)
    BY <1>1, <2>1, HeaderLeftIs
  <2>3. HeaderNow(TracksAt).id = "Tracks"
    BY <1>2, HeaderNowIs
  <2>4. TracksAt # None
    BY <1>4 DEF None
  <2> QED BY <1>2, <1>6, <2>2, <2>3, <2>4 DEF SeekIsTrue
<1>7. CASE ~(SeekPatched /\ entry = None) /\ s = [id |-> "Cues", at |-> IF SeekPatched THEN entry ELSE 0]
  <2>1. CASE ~SeekPatched
    <3>1. step # "done"
      BY <1>3, <2>1 DEF SeekPatched
    <3>2. ~file.intact
      BY <3>1 DEF Opening, FileLeft
    <3> QED BY <1>7, <2>1, <3>2
  <2>2. CASE SeekPatched
    <3>1. s.id = "Cues" /\ s.at = entry /\ entry # None /\ entry \in Nat \cup {None}
      BY <1>7, <2>2 DEF WriterInv, WriterShape
    <3>2. Sealed
      BY <2>2 DEF SeekPatched, Sealed
    <3>3. file.cells = output /\ InputLen(file) = Len(output) /\ HeaderEnd <= Len(output)
      BY <3>2, SealedFile DEF InputLen
    <3>4. IsSeq(CuesElement) /\ Len(CuesElement) \in Nat \ {0} /\ CuesElement[1].id = "Cues"
      <4>1. layout \in Layouts /\ index \in Seq(Range(index))
        BY DEF WriterInv, WriterShape
      <4> QED BY <4>1, Sizes, CuesElementIs
    <3>5. output[entry + 1] = CuesElement[1] /\ entry < Len(output)
      <4>1. CASE InSlot
        <5>1. FitsFront /\ entry = SlotAt /\ layout.front > 0 /\ layout.front \in Nat
          BY <1>2, <4>1, Offs DEF InSlot, FitsFront, WriterInv, CuesHold
        <5>2. step # "header" /\ 1 \in 1 .. layout.front /\ 1 <= Len(CuesElement)
          BY <3>2, <3>4, <5>1 DEF Sealed
        <5>3. output[SlotAt + 1] = SlotNow(1)
          BY <5>2 DEF WriterInv, SlotHolds
        <5>4. SlotNow(1) = CuesElement[1]
          BY <4>1, <5>2 DEF SlotNow
        <5>5. HeaderEnd = SlotAt + layout.front
          BY <1>2, Offs
        <5> QED BY <1>2, <1>4, <3>3, <5>1, <5>3, <5>4, <5>5
      <4>2. CASE ~InSlot
        <5>1. /\ Len(output) = entry + Len(CuesElement)
              /\ \A i \in 1 .. Len(CuesElement) : output[entry + i] = CuesElement[i]
          BY <3>1, <4>2 DEF InSlot, WriterInv, CuesHold
        <5> QED BY <3>1, <3>4, <5>1
      <4> QED BY <4>1, <4>2
    <3>6. Header(file, entry).id = "Cues"
      BY <1>2, <3>1, <3>3, <3>4, <3>5 DEF Header
    <3> QED BY <1>2, <3>1, <3>3, <3>5, <3>6 DEF SeekIsTrue
  <2> QED BY <2>1, <2>2
<1> QED BY <1>3, <1>5, <1>6, <1>7

LEMMA SystemStarts == SystemInit => WriterInv /\ OpeningInv
<1> SUFFICES ASSUME SystemInit PROVE WriterInv /\ OpeningInv
  OBVIOUS
<1>1. WriterInv
  <2>1. CASE Start({Unused})
    <3>1. {Unused} \subseteq Layouts
      <4>1. PICK l : l \in Layouts
        BY WriterAssumption
      <4>2. Unused \in Layouts
        BY <4>1 DEF Unused
      <4> QED BY <4>2
    <3> DEFINE configurations == {Unused}
    <3>2. configurations \subseteq Layouts /\ Start(configurations)
      BY <2>1, <3>1
    <3> HIDE DEF configurations
    <3> QED BY <3>2, WriterStarts
  <2>2. CASE Start(Layouts)
    BY <2>2, WriterStarts
  <2> QED BY <2>1, <2>2 DEF SystemInit
<1>2. "written" \in DOMAIN file /\ (phase = "write" \/ ~file.written)
  <2>1. CASE phase = "write" /\ Fresh(LeftBehind(<<>>, FALSE))
    <3>1. file = LeftBehind(<<>>, FALSE)
      BY <2>1 DEF Fresh
    <3> QED BY <2>1, <3>1 DEF LeftBehind
  <2>2. ASSUME NEW n \in DOMAIN Files, Fresh(Files[n])
        PROVE  "written" \in DOMAIN file /\ ~file.written
    <3>1. file = Files[n]
      BY <2>2 DEF Fresh
    <3> QED BY <3>1, RecoveryAssumption
  <2> QED BY <2>1, <2>2 DEF SystemInit
<1>3. Blank
  BY DEF SystemInit
<1> QED BY <1>1, <1>2, <1>3 DEF OpeningInv, Handed

\* However a behaviour of the system goes, the writer's output is what its
\* index, its header and its trailer say of it.
THEOREM OutputIsSound == System => []WriterInv
<1>1. SystemInit => WriterInv /\ OpeningInv
  BY SystemStarts
<1>2. WriterInv /\ OpeningInv /\ [SystemNext]_all => (WriterInv /\ OpeningInv)'
  BY SystemKeeps
<1> QED BY <1>1, <1>2, PTL DEF System

\* Whatever a crash leaves of the output, opening it finds of each master what
\* the writer put there.
THEOREM OpeningIsSound == System => []OpeningInv
<1>1. SystemInit => WriterInv /\ OpeningInv
  BY SystemStarts
<1>2. WriterInv /\ OpeningInv /\ [SystemNext]_all => (WriterInv /\ OpeningInv)'
  BY SystemKeeps
<1> QED BY <1>1, <1>2, PTL DEF System

\* At every step of the writer each torn file that a crash can leave holds
\* legal cells, masters where the writer puts them, and the whole output once
\* the trailer's patches have begun.
THEOREM EveryRemainIsTrue == System => []RemainsAreTrue
<1>1. WriterInv => RemainsAreTrue
  BY RemainIs DEF RemainsAreTrue
<1> QED BY <1>1, OutputIsSound, PTL

LEMMA IndexTold == WriterInv /\ OpeningInv => IndexIsTruthful
<1> SUFFICES ASSUME WriterInv, OpeningInv, Written PROVE
      /\ \A i \in DOMAIN file.cues : CueIsTrue(file.cues[i])
      /\ \A s \in Range(found.SeekHead) :
           SeekIsTrue(s) \/ (~file.intact /\ s.id = "Cues" /\ s.at = 0)
      /\ file.intact /\ ~layout.live => file.cues = index
  BY DEF IndexIsTruthful
<1>1. Opening /\ phase = "open"
  BY DEF Written, OpeningInv, Handed
<1>2. ASSUME NEW i \in DOMAIN file.cues PROVE CueIsTrue(file.cues[i])
  <2>1. file.cues # <<>> /\ file.cues[i] \in Range(file.cues)
    BY DEF Range
  <2>2. file.cues[i] \in Range(index) /\ step \notin {"header", "packets"}
    BY <1>1, <2>1 DEF Opening, FileLeft
  <2> DEFINE q == file.cues[i]
  <2> HIDE DEF q
  <2>3. q \in Range(index)
    BY <2>2 DEF q
  <2>4. CueIsTrue(q)
    BY <1>1, <2>2, <2>3, CuesAreTrue
  <2> QED BY <2>4 DEF q
<1>3. \A s \in Range(found.SeekHead) :
        SeekIsTrue(s) \/ (~file.intact /\ s.id = "Cues" /\ s.at = 0)
  BY <1>1, SeekEntriesAreTrue
<1>4. ASSUME file.intact, ~layout.live PROVE file.cues = index
  <2>1. step = "done" /\ Sealed
    BY <1>1, <1>4 DEF Opening, FileLeft, Sealed
  <2> QED BY <1>1, <1>4, <2>1 DEF Opening, SealedEnd
<1> QED BY <1>2, <1>3, <1>4

\* Of a file the writer left, finished or torn anywhere, every cue the demuxer
\* comes to hold passes its own audit, and so does every SeekHead entry but
\* that for Cues not yet patched in; of a finished file the index is whole.
THEOREM CuesAndSeekHeadAreTruthful == System => []IndexIsTruthful
<1>1. WriterInv /\ OpeningInv => IndexIsTruthful
  BY IndexTold
<1> QED BY <1>1, OutputIsSound, OpeningIsSound, PTL

LEMMA DurationTold == WriterInv /\ OpeningInv => DurationIsTruthful
<1> SUFFICES ASSUME WriterInv, OpeningInv, Written PROVE
      /\ found.Duration \in {<<>>, <<maxEnd>>}
      /\ file.intact /\ layout.finalize /\ stored # <<>> => found.Duration = <<maxEnd>>
      /\ \A c \in Range(crcs) : ChecksumIsTrue(c)
  BY DEF DurationIsTruthful, ChecksumIsTrue
<1>1. Opening /\ phase = "open"
  BY DEF Written, OpeningInv, Handed
<1>2. Sealed => found.Duration = TrueDuration
  BY <1>1 DEF Opening, SealedEnd
<1>3. found.Duration \in {<<>>, <<maxEnd>>}
  <2>1. ~Sealed => found.Duration = <<>>
    BY <1>1 DEF Opening, FoundTruly
  <2> QED BY <1>2, <2>1 DEF TrueDuration
<1>4. ASSUME file.intact, layout.finalize, stored # <<>> PROVE found.Duration = <<maxEnd>>
  <2>1. step = "done" /\ Sealed
    BY <1>1, <1>4 DEF Opening, FileLeft, Sealed
  <2>2. maxEnd # None
    BY <1>4 DEF WriterInv, WriterShape
  <2>3. DurationPatched
    BY <1>4, <2>1, <2>2 DEF DurationPatched, Timed
  <2> QED BY <1>2, <2>1, <2>3 DEF TrueDuration
<1>5. \A c \in Range(crcs) : ChecksumIsTrue(c)
  BY <1>1 DEF Opening, FoundTruly
<1> QED BY <1>3, <1>4, <1>5

\* A file the writer left opens with no Duration or with the latest end of its
\* packets, a finished and timed one with the latter, and with no checksum
\* that fails but the one a crash caught in writing.
THEOREM DurationAndChecksumsAreTruthful == System => []DurationIsTruthful
<1>1. WriterInv /\ OpeningInv => DurationIsTruthful
  BY DurationTold
<1> QED BY <1>1, OutputIsSound, OpeningIsSound, PTL
=============================================================================
