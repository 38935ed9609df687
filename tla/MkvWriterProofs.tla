--------------------------- MODULE MkvWriterProofs ---------------------------
(***************************************************************************)
(* MkvMuxer's output, cell by cell: WriterInv holds at every step of the   *)
(* writer, and what a crash leaves of the output is as RemainsAreTrue      *)
(* says.                                                                   *)
(***************************************************************************)
EXTENDS MkvRecoveryInv, MkvFileProofs

-----------------------------------------------------------------------------
(* Sequences of cells.                                                     *)

LEMMA ConcatIs ==
  ASSUME NEW s, NEW t, IsSeq(s), IsSeq(t)
  PROVE  /\ IsSeq(s \o t) /\ Len(s \o t) = Len(s) + Len(t)
         /\ \A i \in 1 .. Len(s) : (s \o t)[i] = s[i]
         /\ \A i \in Len(s) + 1 .. Len(s) + Len(t) : (s \o t)[i] = t[i - Len(s)]
<1> DEFINE S == {s[i] : i \in 1 .. Len(s)} \cup {t[i] : i \in 1 .. Len(t)}
           u == s \o t
<1>1. s \in Seq(S) /\ t \in Seq(S)
  BY DEF IsSeq
<1> HIDE DEF S
<1>2. u \in Seq(S) /\ Len(u) = Len(s) + Len(t)
  BY <1>1
<1>3. \A i \in 1 .. Len(s) : u[i] = s[i]
  BY <1>1
<1>4. \A i \in Len(s) + 1 .. Len(s) + Len(t) : u[i] = t[i - Len(s)]
  BY <1>1
<1> HIDE DEF u
<1>5. Len(u) \in Nat /\ u \in [1 .. Len(u) -> S]
  BY <1>2
<1>6. IsSeq(u)
  BY <1>5 DEF IsSeq
<1> QED BY <1>2, <1>3, <1>4, <1>6 DEF u

LEMMA SingleIs ==
  ASSUME NEW a
  PROVE  IsSeq(<<a>>) /\ Len(<<a>>) = 1 /\ <<a>>[1] = a
BY DEF IsSeq

LEMMA EmptyIs == IsSeq(<<>>) /\ Len(<<>>) = 0
BY DEF IsSeq

LEMMA SeqIs ==
  ASSUME NEW n \in Nat, NEW f, f = [i \in 1 .. n |-> f[i]]
  PROVE  IsSeq(f) /\ Len(f) = n
BY DEF IsSeq

LEMMA SameSeqs ==
  ASSUME NEW s, NEW t, IsSeq(s), IsSeq(t), Len(s) = Len(t), \A i \in 1 .. Len(s) : s[i] = t[i]
  PROVE  s = t
BY DEF IsSeq

LEMMA ConsIs ==
  ASSUME NEW a, NEW t, IsSeq(t)
  PROVE  /\ IsSeq(<<a>> \o t) /\ Len(<<a>> \o t) = Len(t) + 1
         /\ (<<a>> \o t)[1] = a
         /\ \A i \in 2 .. Len(t) + 1 : (<<a>> \o t)[i] = t[i - 1]
<1> DEFINE h == <<a>>
           u == h \o t
<1>1. IsSeq(h) /\ Len(h) = 1 /\ h[1] = a /\ Len(t) \in Nat
  BY SingleIs DEF IsSeq
<1> HIDE DEF h
<1>2. IsSeq(u)
  BY <1>1, ConcatIs
<1>3. Len(u) = Len(h) + Len(t)
  BY <1>1, ConcatIs
<1>4. \A i \in 1 .. Len(h) : u[i] = h[i]
  BY <1>1, ConcatIs
<1>5. \A i \in Len(h) + 1 .. Len(h) + Len(t) : u[i] = t[i - Len(h)]
  BY <1>1, ConcatIs
<1> HIDE DEF u
<1>6. IsSeq(u) /\ Len(u) = Len(t) + 1 /\ u[1] = a /\ \A i \in 2 .. Len(t) + 1 : u[i] = t[i - 1]
  BY <1>1, <1>2, <1>3, <1>4, <1>5
<1> QED BY <1>6 DEF u, h

LEMMA AppendedIs ==
  ASSUME NEW t, IsSeq(t), NEW a
  PROVE  /\ IsSeq(t \o <<a>>) /\ Len(t \o <<a>>) = Len(t) + 1
         /\ \A i \in 1 .. Len(t) : (t \o <<a>>)[i] = t[i]
         /\ (t \o <<a>>)[Len(t) + 1] = a
<1> DEFINE h == <<a>>
           u == t \o h
<1>1. IsSeq(h) /\ Len(h) = 1 /\ h[1] = a /\ Len(t) \in Nat
  BY SingleIs DEF IsSeq
<1> HIDE DEF h
<1>2. IsSeq(u)
  BY <1>1, ConcatIs
<1>3. Len(u) = Len(t) + Len(h)
  BY <1>1, ConcatIs
<1>4. \A i \in 1 .. Len(t) : u[i] = t[i]
  BY <1>1, ConcatIs
<1>5. \A i \in Len(t) + 1 .. Len(t) + Len(h) : u[i] = h[i - Len(t)]
  BY <1>1, ConcatIs
<1> HIDE DEF u
<1>6. IsSeq(u) /\ Len(u) = Len(t) + 1 /\ u[Len(t) + 1] = a
  BY <1>1, <1>2, <1>3, <1>5
<1> QED BY <1>4, <1>6 DEF u, h

\* A leaf, a master, and one with a checksum.
LEMMA LeafIs ==
  ASSUME NEW id, NEW v
  PROVE  IsSeq(Leaf(id, v)) /\ Len(Leaf(id, v)) = 1 /\ Leaf(id, v)[1] = [id |-> id, size |-> 0, v |-> v]
BY SingleIs DEF Leaf

LEMMA SizedIs ==
  ASSUME NEW id, NEW body, IsSeq(body)
  PROVE  /\ IsSeq(Sized(id, body)) /\ Len(Sized(id, body)) = Len(body) + 1
         /\ Sized(id, body)[1] = [id |-> id, size |-> Len(body)]
         /\ \A i \in 2 .. Len(body) + 1 : Sized(id, body)[i] = body[i - 1]
BY ConsIs DEF Sized

LEMMA ChecksummedIs ==
  ASSUME NEW id, NEW body, IsSeq(body), layout.strict \in BOOLEAN
  PROVE  LET m == ChecksummedMaster(id, body)
             k == IF layout.strict THEN 0 ELSE 1 IN
         /\ IsSeq(m) /\ Len(m) = Len(body) + 1 + k
         /\ m[1] = [id |-> id, size |-> Len(body) + k]
         /\ ~layout.strict => m[2] = [id |-> "Crc", size |-> 0, v |-> body]
         /\ \A i \in k + 2 .. Len(body) + 1 + k : m[i] = body[i - 1 - k]
<1>0. Len(body) \in Nat
  BY DEF IsSeq
<1>1. CASE layout.strict
  <2>1. ChecksummedMaster(id, body) = Sized(id, body)
    BY <1>1 DEF ChecksummedMaster
  <2> QED BY <1>0, <1>1, <2>1, SizedIs
<1>2. CASE ~layout.strict
  <2> DEFINE c == [id |-> "Crc", size |-> 0, v |-> body]
             b == <<c>> \o body
  <2>2. /\ IsSeq(b) /\ Len(b) = Len(body) + 1 /\ b[1] = c
        /\ \A i \in 2 .. Len(body) + 1 : b[i] = body[i - 1]
    BY ConsIs
  <2>3. ChecksummedMaster(id, body) = Sized(id, b)
    BY <1>2 DEF ChecksummedMaster, Leaf
  <2> HIDE DEF b
  <2> DEFINE m == Sized(id, b)
  <2>4. /\ IsSeq(m) /\ Len(m) = Len(b) + 1 /\ m[1] = [id |-> id, size |-> Len(b)]
        /\ \A i \in 2 .. Len(b) + 1 : m[i] = b[i - 1]
    BY <2>2, SizedIs
  <2> HIDE DEF m
  <2>5. m[2] = c /\ \A i \in 3 .. Len(body) + 2 : m[i] = body[i - 2]
    BY <1>0, <2>2, <2>4
  <2> QED BY <1>0, <1>2, <2>2, <2>3, <2>4, <2>5 DEF m
<1> QED BY <1>1, <1>2

\* A Void of n cells.
LEMMA VoidIs ==
  ASSUME NEW n \in Nat \ {0}
  PROVE  /\ IsSeq(VoidOf(n)) /\ Len(VoidOf(n)) = n
         /\ VoidOf(n)[1] = [id |-> "Void", size |-> n - 1]
         /\ \A i \in 2 .. n : VoidOf(n)[i] = NoElement
<1> DEFINE b == [i \in 1 .. n - 1 |-> NoElement]
<1>1. IsSeq(b) /\ Len(b) = n - 1 /\ \A i \in 1 .. n - 1 : b[i] = NoElement
  BY SeqIs
<1>2. VoidOf(n) = Sized("Void", b)
  BY DEF VoidOf
<1> HIDE DEF b
<1>3. /\ IsSeq(VoidOf(n)) /\ Len(VoidOf(n)) = n
      /\ VoidOf(n)[1] = [id |-> "Void", size |-> n - 1]
      /\ \A i \in 2 .. n : VoidOf(n)[i] = b[i - 1]
  BY <1>1, <1>2, SizedIs
<1> QED BY <1>1, <1>3

-----------------------------------------------------------------------------
(* What write_header writes.                                               *)

Item(v) == [id |-> "Item", size |-> 0, v |-> v]
Crc(v) == [id |-> "Crc", size |-> 0, v |-> v]
Checks == IF layout.strict THEN 0 ELSE 1
InfoItems == IF layout.finalize THEN 2 ELSE 1

LEMMA LayoutIs ==
  ASSUME layout \in Layouts
  PROVE  /\ layout.live \in BOOLEAN /\ layout.strict \in BOOLEAN
         /\ layout.finalize \in BOOLEAN /\ layout.front \in Nat
BY WriterAssumption

LEMMA InfoBodyIs ==
  ASSUME layout.finalize \in BOOLEAN
  PROVE  /\ IsSeq(InfoBody) /\ Len(InfoBody) = InfoItems
         /\ layout.finalize => InfoBody[1] = Patchable
         /\ InfoBody[InfoItems] = Item("encoder")
<1> DEFINE l == <<Item("encoder")>>
<1>1. IsSeq(l) /\ Len(l) = 1 /\ l[1] = Item("encoder") /\ l = Leaf("Item", "encoder")
  BY SingleIs DEF Leaf, Item
<1> HIDE DEF l
<1>2. CASE layout.finalize
  <2>1. InfoBody = <<Patchable>> \o l
    BY <1>1, <1>2 DEF InfoBody
  <2>2. /\ IsSeq(<<Patchable>> \o l) /\ Len(<<Patchable>> \o l) = 2
        /\ (<<Patchable>> \o l)[1] = Patchable /\ (<<Patchable>> \o l)[2] = l[1]
    BY <1>1, ConsIs
  <2> QED BY <1>1, <1>2, <2>1, <2>2 DEF InfoItems
<1>3. CASE ~layout.finalize
  <2>1. InfoBody = <<>> \o l
    BY <1>1, <1>3 DEF InfoBody
  <2>2. IsSeq(<<>> \o l)
    BY <1>1, ConcatIs, EmptyIs
  <2>3. Len(<<>> \o l) = 1
    BY <1>1, ConcatIs, EmptyIs
  <2>4. (<<>> \o l)[1] = l[1]
    BY <1>1, ConcatIs, EmptyIs
  <2> QED BY <1>1, <1>3, <2>1, <2>2, <2>3, <2>4 DEF InfoItems
<1> QED BY <1>2, <1>3

LEMMA SeekHeadIs ==
  ASSUME NEW tracks
  PROVE  LET m == SeekHeadOf(tracks) IN
         /\ IsSeq(m) /\ Len(m) = 5
         /\ m[1] = [id |-> "SeekHead", size |-> 4]
         /\ m[2] = Item([id |-> "Info", at |-> 5])
         /\ m[3] = Item([id |-> "Tracks", at |-> tracks])
         /\ m[4] = Patchable
         /\ m[5] = Item([id |-> "Cues", at |-> 0])
<1> DEFINE a == Item([id |-> "Info", at |-> 5])
           b == Item([id |-> "Tracks", at |-> tracks])
           c == Item([id |-> "Cues", at |-> 0])
<1>1. SeekHeadOf(tracks) = Sized("SeekHead", <<a>> \o <<b>> \o <<Patchable>> \o <<c>>)
  BY DEF SeekHeadOf, Offsets, Leaf, Item
<1> HIDE DEF a, b, c
<1> DEFINE ab == <<a>> \o <<b>>
           abp == ab \o <<Patchable>>
           body == abp \o <<c>>
<1>2. IsSeq(ab) /\ Len(ab) = 2 /\ ab[1] = a /\ ab[2] = b
  BY SingleIs, AppendedIs
<1> HIDE DEF ab
<1>7. IsSeq(abp) /\ Len(abp) = 3 /\ abp[1] = a /\ abp[2] = b /\ abp[3] = Patchable
  <2>1. /\ IsSeq(abp) /\ Len(abp) = Len(ab) + 1
        /\ \A i \in 1 .. Len(ab) : abp[i] = ab[i]
        /\ abp[Len(ab) + 1] = Patchable
    BY <1>2, AppendedIs
  <2> HIDE DEF abp
  <2> QED BY <1>2, <2>1
<1> HIDE DEF abp
<1>3. /\ IsSeq(body) /\ Len(body) = 4
      /\ body[1] = a /\ body[2] = b /\ body[3] = Patchable /\ body[4] = c
  <2>1. /\ IsSeq(body) /\ Len(body) = Len(abp) + 1
        /\ \A i \in 1 .. Len(abp) : body[i] = abp[i]
        /\ body[Len(abp) + 1] = c
    BY <1>7, AppendedIs
  <2> HIDE DEF body
  <2> QED BY <1>7, <2>1
<1> HIDE DEF body
<1> DEFINE m == Sized("SeekHead", body)
<1>4. /\ IsSeq(m) /\ Len(m) = 5
      /\ m[1] = [id |-> "SeekHead", size |-> 4]
      /\ \A i \in 2 .. 5 : m[i] = body[i - 1]
  <2>1. /\ IsSeq(m) /\ Len(m) = Len(body) + 1
        /\ m[1] = [id |-> "SeekHead", size |-> Len(body)]
        /\ \A i \in 2 .. Len(body) + 1 : m[i] = body[i - 1]
    BY <1>3, SizedIs
  <2> QED BY <1>3, <2>1
<1> HIDE DEF m
<1>5. m[2] = a /\ m[3] = b /\ m[4] = Patchable /\ m[5] = c
  BY <1>3, <1>4
<1>6. SeekHeadOf(tracks) = m
  BY <1>1 DEF m, body, abp, ab
<1> QED BY <1>4, <1>5, <1>6 DEF a, b, c

LEMMA HeaderCellsAre ==
  ASSUME layout \in Layouts
  PROVE  LET c == HeaderCells IN
         /\ IsSeq(c) /\ InfoAt \in Nat
         /\ TracksAt = InfoAt + 1 + Checks + InfoItems
         /\ SlotAt = TracksAt + 2 + Checks
         /\ HeaderEnd = SlotAt + layout.front
         /\ ~layout.live => \A i \in 1 .. 5 : c[i] = SeekHeadOf(TracksAt)[i]
         /\ c[InfoAt + 1] = [id |-> "Info", size |-> InfoItems + Checks]
         /\ ~layout.strict => c[InfoAt + 2] = Crc(InfoBody)
         /\ layout.finalize => c[InfoAt + 2 + Checks] = Patchable
         /\ c[TracksAt] = Item("encoder")
         /\ c[TracksAt + 1] = [id |-> "Tracks", size |-> 1 + Checks]
         /\ ~layout.strict => c[TracksAt + 2] = Crc(Leaf("Item", "tracks"))
         /\ c[SlotAt] = Item("tracks")
         /\ \A i \in 1 .. layout.front : c[SlotAt + i] = VoidOf(layout.front)[i]
<1> layout.live \in BOOLEAN /\ layout.strict \in BOOLEAN /\ layout.finalize \in BOOLEAN /\ layout.front \in Nat
  BY LayoutIs
<1> DEFINE info == ChecksummedMaster("Info", InfoBody)
           head == IF layout.live THEN <<>> ELSE SeekHeadOf(Offsets.Info + Len(info))
           l == Leaf("Item", "tracks")
           tracks == ChecksummedMaster("Tracks", l)
           front == IF layout.front = 0 THEN <<>> ELSE VoidOf(layout.front)
           hi == head \o info
           hit == hi \o tracks
           all4 == hit \o front
           at == IF layout.live THEN 0 ELSE 5
<1>0. HeaderCells = all4
  BY DEF HeaderCells
<1>1. /\ IsSeq(info) /\ Len(info) = InfoItems + 1 + Checks
      /\ info[1] = [id |-> "Info", size |-> InfoItems + Checks]
      /\ ~layout.strict => info[2] = Crc(InfoBody)
      /\ layout.finalize => info[2 + Checks] = Patchable
      /\ info[InfoItems + 1 + Checks] = Item("encoder")
  <2>1. /\ IsSeq(InfoBody) /\ Len(InfoBody) = InfoItems
        /\ layout.finalize => InfoBody[1] = Patchable
        /\ InfoBody[InfoItems] = Item("encoder")
    BY InfoBodyIs
  <2>2. /\ IsSeq(info) /\ Len(info) = Len(InfoBody) + 1 + Checks
        /\ info[1] = [id |-> "Info", size |-> Len(InfoBody) + Checks]
        /\ ~layout.strict => info[2] = Crc(InfoBody)
        /\ \A i \in Checks + 2 .. Len(InfoBody) + 1 + Checks : info[i] = InfoBody[i - 1 - Checks]
    BY <2>1, ChecksummedIs DEF Checks, Crc
  <2> HIDE DEF info
  <2> QED BY <2>1, <2>2 DEF Checks, InfoItems
<1>2. /\ IsSeq(tracks) /\ Len(tracks) = 2 + Checks
      /\ tracks[1] = [id |-> "Tracks", size |-> 1 + Checks]
      /\ ~layout.strict => tracks[2] = Crc(Leaf("Item", "tracks"))
      /\ tracks[2 + Checks] = Item("tracks")
  <2>1. IsSeq(l) /\ Len(l) = 1 /\ l[1] = Item("tracks")
    BY LeafIs DEF Item
  <2>2. /\ IsSeq(tracks) /\ Len(tracks) = Len(l) + 1 + Checks
        /\ tracks[1] = [id |-> "Tracks", size |-> Len(l) + Checks]
        /\ ~layout.strict => tracks[2] = Crc(l)
        /\ \A i \in Checks + 2 .. Len(l) + 1 + Checks : tracks[i] = l[i - 1 - Checks]
    BY <2>1, ChecksummedIs DEF Checks, Crc
  <2> HIDE DEF tracks
  <2> QED BY <2>1, <2>2 DEF Checks
<1>3. /\ IsSeq(head) /\ Len(head) = at
      /\ ~layout.live => head = SeekHeadOf(Offsets.Info + Len(info))
  <2>1. CASE layout.live
    BY <2>1, EmptyIs
  <2>2. CASE ~layout.live
    <3> DEFINE h == SeekHeadOf(Offsets.Info + Len(info))
    <3>1. IsSeq(h) /\ Len(h) = 5
      BY SeekHeadIs
    <3>2. head = h
      BY <2>2
    <3> HIDE DEF h, head
    <3> QED BY <2>2, <3>1, <3>2 DEF h
  <2> QED BY <2>1, <2>2
<1>4. /\ IsSeq(front) /\ Len(front) = layout.front
      /\ \A i \in 1 .. layout.front : front[i] = VoidOf(layout.front)[i]
  <2>1. CASE layout.front = 0
    BY <2>1, EmptyIs
  <2>2. CASE layout.front # 0
    <3>1. front = VoidOf(layout.front)
      BY <2>2
    <3>2. IsSeq(VoidOf(layout.front)) /\ Len(VoidOf(layout.front)) = layout.front
      BY <2>2, VoidIs
    <3> QED BY <3>1, <3>2
  <2> QED BY <2>1, <2>2
<1> HIDE DEF info, head, l, tracks, front
<1>5. /\ IsSeq(hi) /\ Len(hi) = Len(head) + Len(info)
      /\ \A i \in 1 .. Len(head) : hi[i] = head[i]
      /\ \A i \in Len(head) + 1 .. Len(head) + Len(info) : hi[i] = info[i - Len(head)]
  BY <1>1, <1>3, ConcatIs
<1> HIDE DEF hi
<1>6. /\ IsSeq(hit) /\ Len(hit) = Len(hi) + Len(tracks)
      /\ \A i \in 1 .. Len(hi) : hit[i] = hi[i]
      /\ \A i \in Len(hi) + 1 .. Len(hi) + Len(tracks) : hit[i] = tracks[i - Len(hi)]
  BY <1>2, <1>5, ConcatIs
<1> HIDE DEF hit
<1>7. /\ IsSeq(all4) /\ Len(all4) = Len(hit) + Len(front)
      /\ \A i \in 1 .. Len(hit) : all4[i] = hit[i]
      /\ \A i \in Len(hit) + 1 .. Len(hit) + Len(front) : all4[i] = front[i - Len(hit)]
  BY <1>4, <1>6, ConcatIs
<1> HIDE DEF all4
<1>k. Checks \in {0, 1} /\ InfoItems \in {1, 2} /\ layout.front \in Nat /\ at \in {0, 5}
      /\ (~layout.strict => Checks = 1) /\ (layout.finalize => InfoItems = 2) /\ (~layout.live => at = 5)
  BY DEF Checks, InfoItems
<1> DEFINE t == at + InfoItems + 1 + Checks
           w == t + 2 + Checks
<1>8. /\ InfoAt = at /\ SlotAt = w /\ TracksAt = t /\ HeaderEnd = w + layout.front
  <2>1. InfoAt = at
    BY DEF InfoAt, Offsets
  <2>2. Len(all4) = w + layout.front
    BY <1>1, <1>2, <1>3, <1>4, <1>5, <1>6, <1>7, <1>k
  <2>3. SlotAt = w /\ HeaderEnd = w + layout.front
    BY <1>0, <1>k, <2>2 DEF SlotAt, HeaderEnd
  <2>4. TracksAt = t
    BY <2>3, <1>k DEF TracksAt, Checks
  <2> QED BY <2>1, <2>3, <2>4
<1>9. \A i \in 1 .. w : all4[i] = hit[i]
  BY <1>1, <1>2, <1>3, <1>5, <1>6, <1>7, <1>k
<1>10. /\ \A i \in 1 .. t : all4[i] = hi[i]
       /\ \A i \in t + 1 .. w : all4[i] = tracks[i - t]
  <2>1. Len(hi) = t /\ Len(hi) + Len(tracks) = w /\ t \in Nat /\ w \in Nat /\ t <= w
    BY <1>1, <1>2, <1>3, <1>5, <1>k
  <2> HIDE DEF t, w
  <2>2. /\ \A i \in 1 .. t : hit[i] = hi[i]
        /\ \A i \in t + 1 .. w : hit[i] = tracks[i - t]
    BY <1>6, <2>1
  <2>3. \A i \in 1 .. t : all4[i] = hi[i]
    BY <1>9, <2>1, <2>2
  <2>4. \A i \in t + 1 .. w : all4[i] = tracks[i - t]
    BY <1>9, <2>1, <2>2
  <2> QED BY <2>3, <2>4
<1>11. /\ \A i \in 1 .. at : all4[i] = head[i]
       /\ \A i \in at + 1 .. t : all4[i] = info[i - at]
  BY <1>1, <1>3, <1>5, <1>10, <1>k
<1>12. \A i \in 1 .. layout.front : all4[w + i] = front[i]
  BY <1>1, <1>2, <1>3, <1>4, <1>5, <1>6, <1>7, <1>k
<1>13. ~layout.live => \A i \in 1 .. 5 : all4[i] = SeekHeadOf(t)[i]
  BY <1>1, <1>3, <1>11, <1>k DEF Offsets
<1>14. /\ all4[at + 1] = info[1]
       /\ ~layout.strict => all4[at + 2] = info[2]
       /\ layout.finalize => all4[at + 2 + Checks] = info[2 + Checks]
       /\ all4[t] = info[InfoItems + 1 + Checks]
  BY <1>11, <1>k
<1>15. /\ all4[t + 1] = tracks[1]
       /\ ~layout.strict => all4[t + 2] = tracks[2]
       /\ all4[w] = tracks[2 + Checks]
  BY <1>10, <1>k
<1>16. InfoAt \in Nat /\ TracksAt = InfoAt + 1 + Checks + InfoItems /\ SlotAt = TracksAt + 2 + Checks
       /\ HeaderEnd = SlotAt + layout.front
  BY <1>8, <1>k
<1> HIDE DEF t, w, at
<1> QED BY <1>0, <1>1, <1>2, <1>4, <1>7, <1>8, <1>12, <1>13, <1>14, <1>15, <1>16

-----------------------------------------------------------------------------
(* What write_cues writes.                                                 *)

LEMMA CueItemsAre ==
  ASSUME index \in Seq(Range(index))
  PROVE  /\ IsSeq(CueItems) /\ Len(CueItems) = Len(index)
         /\ \A i \in 1 .. Len(index) : CueItems[i] = Item(index[i])
<1> DEFINE n == Len(index)
           ss == [i \in DOMAIN index |-> Leaf("Item", index[i])]
           S == {Item(index[i]) : i \in DOMAIN index}
<1>0. DOMAIN index = 1 .. n /\ n \in Nat
  OBVIOUS
<1>1. \A i \in 1 .. n : ss[i] = <<Item(index[i])>> /\ Item(index[i]) \in S
  BY <1>0 DEF Leaf, Item
<1>2. ss \in Seq(Seq(S)) /\ Len(ss) = n
  <2>1. ss = [i \in 1 .. n |-> ss[i]]
    BY <1>0
  <2>2. \A i \in 1 .. n : ss[i] \in Seq(S)
    <3> TAKE i \in 1 .. n
    <3> DEFINE a == Item(index[i])
    <3>1. ss[i] = <<a>> /\ a \in S
      BY <1>1
    <3> HIDE DEF ss, S, a
    <3> QED BY <3>1
  <2> HIDE DEF ss, S
  <2>3. ss \in [1 .. n -> Seq(S)]
    BY <2>1, <2>2
  <2> QED BY <1>0, <2>3
<1>3. CueItems = FlattenSeq(ss)
  BY DEF CueItems
<1> HIDE DEF ss, S
<1>4. CASE n = 0
  <2>1. ss = <<>>
    BY <1>2, <1>4
  <2>2. FlattenSeq(ss) = <<>>
    BY <2>1 DEF FlattenSeq
  <2> QED BY <1>3, <1>4, <2>2, EmptyIs
<1>5. CASE n # 0
  <2>1. ss # <<>>
    BY <1>0, <1>2, <1>5
  <2>2. PICK f : Flattens(f, ss, n) /\ FlattenSeq(ss) = f[n]
    BY <1>2, <2>1, FlattenIs
  <2> DEFINE Good(k) == /\ IsSeq(f[k]) /\ Len(f[k]) = k
                        /\ \A i \in 1 .. k : f[k][i] = Item(index[i])
             T == {k \in Nat : k \in 1 .. n /\ ~Good(k)}
  <2>3. \A k \in 1 .. n : f[k] = IF k = 1 THEN <<Item(index[k])>> ELSE f[k - 1] \o <<Item(index[k])>>
    BY <1>1, <2>2 DEF Flattens
  <2>4. T = {}
    <3> SUFFICES ASSUME T # {} PROVE FALSE
      OBVIOUS
    <3>1. PICK k \in T : \A j \in T : k <= j
      <4>1. T \in SUBSET Nat
        OBVIOUS
      <4> HIDE DEF T
      <4> QED BY <4>1, LeastNat
    <3> DEFINE a == Item(index[k])
    <3>2. k \in 1 .. n /\ ~Good(k)
      OBVIOUS
    <3>3. CASE k = 1
      <4>1. f[k] = <<a>>
        BY <2>3, <3>2, <3>3
      <4>2. IsSeq(<<a>>) /\ Len(<<a>>) = 1 /\ <<a>>[1] = a
        BY SingleIs
      <4> QED BY <3>2, <3>3, <4>1, <4>2
    <3>4. CASE k # 1
      <4> DEFINE t == f[k - 1]
                 u == t \o <<a>>
      <4>0. f[k] = u
        BY <2>3, <3>2, <3>4
      <4>1. k - 1 \in 1 .. n /\ k - 1 \in Nat /\ f[k] = u
        BY <1>0, <3>2, <3>4, <4>0
      <4>2. Good(k - 1)
        <5>1. k - 1 \notin T
          BY <3>1, <4>1
        <5> QED BY <4>1, <5>1
      <4>3. IsSeq(t) /\ Len(t) = k - 1 /\ \A i \in 1 .. k - 1 : t[i] = Item(index[i])
        BY <4>2
      <4> HIDE DEF t, a
      <4>4. /\ IsSeq(u) /\ Len(u) = Len(t) + 1
            /\ \A i \in 1 .. Len(t) : u[i] = t[i]
            /\ u[Len(t) + 1] = a
        BY <4>3, AppendedIs
      <4> HIDE DEF u
      <4>5. IsSeq(u) /\ Len(u) = k /\ (\A i \in 1 .. k - 1 : u[i] = Item(index[i])) /\ u[k] = Item(index[k])
        BY <4>1, <4>3, <4>4 DEF a
      <4>6. \A i \in 1 .. k : u[i] = Item(index[i])
        BY <4>1, <4>5
      <4>7. Good(k)
        BY <4>1, <4>5, <4>6
      <4> QED BY <3>2, <4>7
    <3> QED BY <3>3, <3>4
  <2>5. n \notin T /\ n \in 1 .. n
    BY <1>0, <1>5, <2>4
  <2>6. Good(n)
    BY <1>0, <2>5
  <2> QED BY <1>3, <2>2, <2>6
<1> QED BY <1>4, <1>5

LEMMA CuesElementIs ==
  ASSUME layout \in Layouts, index \in Seq(Range(index))
  PROVE  LET m == CuesElement IN
         /\ IsSeq(m) /\ Len(m) = Len(index) + 1 + Checks /\ Len(m) \in Nat
         /\ m[1] = [id |-> "Cues", size |-> Len(index) + Checks]
         /\ ~layout.strict => m[2] = Crc(CueItems)
         /\ \A i \in Checks + 2 .. Len(index) + 1 + Checks : m[i] = Item(index[i - 1 - Checks])
<1> DEFINE m == ChecksummedMaster("Cues", CueItems)
<1>0. layout.strict \in BOOLEAN /\ Len(index) \in Nat /\ Checks \in {0, 1}
  BY LayoutIs DEF Checks
<1>1. /\ IsSeq(CueItems) /\ Len(CueItems) = Len(index)
      /\ \A i \in 1 .. Len(index) : CueItems[i] = Item(index[i])
  BY CueItemsAre
<1>2. /\ IsSeq(m) /\ Len(m) = Len(CueItems) + 1 + Checks
      /\ m[1] = [id |-> "Cues", size |-> Len(CueItems) + Checks]
      /\ ~layout.strict => m[2] = Crc(CueItems)
      /\ \A i \in Checks + 2 .. Len(CueItems) + 1 + Checks : m[i] = CueItems[i - 1 - Checks]
  BY <1>0, <1>1, ChecksummedIs DEF Checks, Crc
<1>3. CuesElement = m
  BY DEF CuesElement
<1> HIDE DEF m
<1> QED BY <1>0, <1>1, <1>2, <1>3

\* The output is changed where it is written to, and grows if need be.
LEMMA OverwrittenIs ==
  ASSUME IsSeq(output), NEW at \in Nat, NEW cells, IsSeq(cells)
  PROVE  LET o == Overwritten(at, cells) IN
         /\ IsSeq(o)
         /\ Len(o) = IF Len(output) >= at + Len(cells) THEN Len(output) ELSE at + Len(cells)
         /\ \A i \in 1 .. Len(o) :
              o[i] = IF i > at /\ i <= at + Len(cells) THEN cells[i - at] ELSE output[i]
<1> DEFINE n == Max({Len(output), at + Len(cells)})
           o == [i \in 1 .. n |-> IF i > at /\ i <= at + Len(cells) THEN cells[i - at] ELSE output[i]]
<1>0. Len(output) \in Nat /\ at + Len(cells) \in Nat
  BY DEF IsSeq
<1>1. n = IF Len(output) >= at + Len(cells) THEN Len(output) ELSE at + Len(cells)
  BY <1>0, MaxOfTwo
<1>2. n \in Nat
  BY <1>0, <1>1
<1>3. Overwritten(at, cells) = o
  BY DEF Overwritten
<1> HIDE DEF n
<1>4. IsSeq(o) /\ Len(o) = n
  BY <1>2, SeqIs
<1> QED BY <1>1, <1>3, <1>4

-----------------------------------------------------------------------------
(* Every write keeps WriterInv.                                            *)

LEMMA SameLayout ==
  ASSUME layout' = layout
  PROVE  /\ HeaderCells' = HeaderCells /\ HeaderEnd' = HeaderEnd /\ SlotAt' = SlotAt
         /\ TracksAt' = TracksAt /\ InfoAt' = InfoAt /\ CrcAt' = CrcAt /\ DurationAt' = DurationAt
         /\ InfoBody' = InfoBody /\ Checks' = Checks /\ InfoItems' = InfoItems
<1>1. InfoBody' = InfoBody
  BY DEF InfoBody
<1>2. HeaderCells' = HeaderCells
  BY <1>1 DEF HeaderCells, ChecksummedMaster, SeekHeadOf
<1>3. SlotAt' = SlotAt
  BY <1>2 DEF SlotAt
<1> QED BY <1>1, <1>2, <1>3 DEF HeaderEnd, TracksAt, InfoAt, CrcAt, DurationAt, Checks, InfoItems

LEMMA SameIndex ==
  ASSUME layout' = layout, index' = index
  PROVE  /\ CueItems' = CueItems /\ CuesElement' = CuesElement /\ FitsFront' = FitsFront
         /\ RestOfSlot' = RestOfSlot
<1>1. CueItems' = CueItems
  BY DEF CueItems
<1>2. CuesElement' = CuesElement
  BY <1>1 DEF CuesElement, ChecksummedMaster
<1> QED BY <1>1, <1>2 DEF FitsFront, RestOfSlot

\* Where the parts of the header are.
LEMMA Offs ==
  ASSUME layout \in Layouts
  PROVE  /\ layout.front \in Nat /\ HeaderEnd \in Nat /\ SlotAt \in Nat /\ TracksAt \in Nat
         /\ InfoAt \in Nat /\ CrcAt \in Nat /\ DurationAt \in Nat
         /\ HeaderEnd = SlotAt + layout.front
         /\ InfoAt < DurationAt /\ CrcAt = InfoAt + 1 /\ InfoAt < TracksAt /\ TracksAt < SlotAt
         /\ ~layout.strict => CrcAt < TracksAt /\ CrcAt < DurationAt
         /\ layout.finalize => DurationAt < TracksAt
         /\ ~layout.live => InfoAt = 5
         /\ Offsets.Cues = 4 /\ SlotAt > 1 + InfoAt
         /\ SlotAt <= 12
<1>1. /\ layout.front \in Nat /\ layout.live \in BOOLEAN /\ layout.strict \in BOOLEAN
      /\ layout.finalize \in BOOLEAN
  BY LayoutIs
<1>2. /\ Checks \in {0, 1} /\ InfoItems \in {1, 2} /\ (~layout.strict => Checks = 1)
      /\ (layout.finalize => InfoItems = 2) /\ (layout.strict => Checks = 0)
  BY DEF Checks, InfoItems
<1>3. /\ InfoAt = IF layout.live THEN 0 ELSE 5
      /\ CrcAt = InfoAt + 1
      /\ DurationAt = InfoAt + 1 + Checks
      /\ Offsets.Cues = 4
  BY <1>1 DEF InfoAt, Offsets, CrcAt, DurationAt, Checks
<1>4. /\ TracksAt = InfoAt + 1 + Checks + InfoItems /\ SlotAt = TracksAt + 2 + Checks
      /\ HeaderEnd = SlotAt + layout.front
  BY HeaderCellsAre
<1> QED BY <1>1, <1>2, <1>3, <1>4

\* A Cluster and its Blocks stay where they are.
LEMMA BlocksStay ==
  ASSUME layout \in Layouts, layout' = layout, BodyEnd \in Nat, BodyEnd' \in Nat, BodyEnd <= BodyEnd',
         \A i \in HeaderEnd + 1 .. BodyEnd : output'[i] = output[i],
         NEW off \in Nat, NEW tc, NEW n \in Nat, HoldsBlocks(off, tc, n)
  PROVE  HoldsBlocks(off, tc, n)'
<1>1. HeaderEnd \in Nat /\ HeaderEnd' = HeaderEnd
  BY Offs, SameLayout
<1>2. /\ HeaderEnd <= off /\ off + 2 + 2 * n <= BodyEnd
      /\ output[off + 1] = [id |-> "Cluster", size |-> Unknown]
      /\ output[off + 2] = [id |-> "Timecode", size |-> 0, v |-> tc]
      /\ \A j \in 1 .. n : output[off + 2 * j + 1].id = "SimpleBlock" /\ output[off + 2 * j + 1].size = 1
  BY DEF HoldsBlocks
<1>3. output'[off + 1] = output[off + 1] /\ output'[off + 2] = output[off + 2]
  BY <1>1, <1>2
<1>4. ASSUME NEW j \in 1 .. n
      PROVE  output'[off + 2 * j + 1] = output[off + 2 * j + 1]
  <2>1. 2 * j + 1 \in Nat /\ 2 * j + 1 <= 2 * n + 1
    OBVIOUS
  <2>2. off + 2 * j + 1 \in HeaderEnd + 1 .. BodyEnd
    BY <1>1, <1>2, <2>1
  <2> QED BY <2>2
<1>5. off + 2 + 2 * n <= BodyEnd'
  BY <1>2
<1> HIDE DEF BodyEnd
<1> QED BY <1>1, <1>2, <1>3, <1>4, <1>5 DEF HoldsBlocks

LEMMA Sizes ==
  ASSUME WriterInv
  PROVE  /\ layout \in Layouts /\ IsSeq(output) /\ Len(output) \in Nat
         /\ IsSeq(CuesElement) /\ Len(CuesElement) \in Nat \ {0} /\ BodyEnd \in Nat
         /\ Len(stored) \in Nat /\ Len(index) \in Nat
         /\ step # "header" => HeaderEnd <= BodyEnd /\ BodyEnd <= Len(output)
<1>1. /\ layout \in Layouts /\ IsSeq(output) /\ Len(output) \in Nat /\ entry \in Nat \cup {None}
      /\ Len(stored) \in Nat /\ Len(index) \in Nat /\ index \in Seq(Range(index))
  BY DEF WriterInv, WriterShape, IsSeq
<1>2. IsSeq(CuesElement) /\ Len(CuesElement) \in Nat \ {0}
  <2>1. Checks \in {0, 1}
    BY DEF Checks
  <2>2. IsSeq(CuesElement) /\ Len(CuesElement) = Len(index) + 1 + Checks
    BY <1>1, CuesElementIs
  <2> QED BY <1>1, <2>1, <2>2
<1>3. step # "header" =>
        /\ HeaderEnd <= Len(output)
        /\ entry # None /\ ~FitsFront => entry >= HeaderEnd /\ Len(output) = entry + Len(CuesElement)
  BY DEF WriterInv, HeaderHolds, CuesHold
<1>4. HeaderEnd \in Nat
  BY <1>1, Offs
<1> QED BY <1>1, <1>2, <1>3, <1>4 DEF BodyEnd

\* A write of the trailer leaves the Clusters alone.
LEMMA BodyStays ==
  ASSUME WriterInv, step # "header", step' # "header", layout' = layout, BodyEnd' = BodyEnd,
         UNCHANGED <<cluster, index, stored>>,
         \A i \in HeaderEnd + 1 .. BodyEnd : output'[i] = output[i],
         cluster.off # None => cluster.blocks > 0
  PROVE  BodyHolds' /\ ClusterHolds' /\ IndexHolds' /\ OutputIsShort'
<1>1. /\ layout \in Layouts /\ BodyEnd \in Nat /\ BodyEnd' \in Nat /\ BodyEnd <= BodyEnd'
      /\ HeaderEnd \in Nat /\ HeaderEnd' = HeaderEnd
  BY Sizes, Offs, SameLayout
<1>2. BodyHolds'
  <2>1. \A o \in HeaderEnd .. BodyEnd - 1 : BodyCell(output[o + 1])
    BY DEF WriterInv, BodyHolds
  <2>2. \A o \in HeaderEnd .. BodyEnd - 1 : output'[o + 1] = output[o + 1]
    BY <1>1
  <2>3. HeaderEnd < BodyEnd => output[HeaderEnd + 1].id = "Cluster" /\ HeaderEnd + 1 \in HeaderEnd + 1 .. BodyEnd
    BY <1>1 DEF WriterInv, BodyHolds
  <2> HIDE DEF BodyEnd
  <2> QED BY <1>1, <2>1, <2>2, <2>3 DEF BodyHolds, BodyCell
<1>3. ClusterHolds'
  <2> SUFFICES ASSUME cluster.off # None PROVE
        /\ HoldsBlocks(cluster.off, cluster.tc, cluster.blocks)'
        /\ cluster.off + 2 + 2 * cluster.blocks = BodyEnd' /\ cluster.blocks # 0
    BY DEF ClusterHolds
  <2>1. /\ HoldsBlocks(cluster.off, cluster.tc, cluster.blocks)
        /\ cluster.off + 2 + 2 * cluster.blocks = BodyEnd
        /\ cluster.off \in Nat /\ cluster.blocks \in Nat /\ cluster.blocks > 0
    BY DEF WriterInv, ClusterHolds, WriterShape
  <2> DEFINE off == cluster.off
             tc == cluster.tc
             n == cluster.blocks
  <2>2. off \in Nat /\ n \in Nat /\ HoldsBlocks(off, tc, n) /\ off' = off /\ tc' = tc /\ n' = n
    BY <2>1
  <2> HIDE DEF off, tc, n, BodyEnd
  <2>3. HoldsBlocks(off, tc, n)'
    <3> PICK o \in Nat, t \in {tc}, m \in Nat : o = off /\ t = tc /\ m = n
      BY <2>2
    <3>1. HoldsBlocks(o, t, m)'
      BY <1>1, <2>2, BlocksStay
    <3> QED BY <2>2, <3>1 DEF HoldsBlocks
  <2> QED BY <2>1, <2>3 DEF off, tc, n
<1>4. IndexHolds'
  <2> SUFFICES ASSUME NEW i \in DOMAIN index PROVE
        LET q == index[i] IN
        /\ \E p \in Range(Recording) : q.track = p.track
        /\ q.time \in Nat /\ q.off \in Nat /\ q.num \in Nat \ {0} /\ q.rel = 2 * q.num - 1
        /\ \E tc \in 0 .. q.time : HoldsBlocks(q.off, tc, q.num)'
    BY DEF IndexHolds, HoldsBlocks
  <2> DEFINE q == index[i]
  <2>1. /\ \E p \in Range(Recording) : q.track = p.track
        /\ q.time \in Nat /\ q.off \in Nat /\ q.num \in Nat \ {0} /\ q.rel = 2 * q.num - 1
        /\ \E tc \in 0 .. q.time : HoldsBlocks(q.off, tc, q.num)
    BY DEF WriterInv, IndexHolds
  <2>2. PICK tc \in 0 .. q.time : HoldsBlocks(q.off, tc, q.num)
    BY <2>1
  <2>3. q' = q
    OBVIOUS
  <2> PICK o \in Nat, m \in Nat : o = q.off /\ m = q.num
    BY <2>1
  <2> HIDE DEF q, BodyEnd
  <2>4. HoldsBlocks(o, tc, m)'
    BY <1>1, <2>2, BlocksStay
  <2>5. HoldsBlocks(q.off, tc, q.num)'
    BY <2>3, <2>4 DEF HoldsBlocks
  <2> QED BY <2>1, <2>5 DEF q
<1>5. OutputIsShort'
  <2> HIDE DEF BodyEnd
  <2> QED BY <1>1 DEF WriterInv, OutputIsShort
<1> QED BY <1>2, <1>3, <1>4, <1>5

\* A patch of one cell in front of the slot.
LEMMA PatchedIs ==
  ASSUME WriterInv, step # "header", NEW at \in 0 .. SlotAt - 1, NEW a, output' = Overwritten(at, <<a>>)
  PROVE  /\ IsSeq(output') /\ Len(output') = Len(output)
         /\ output'[at + 1] = a
         /\ \A i \in 1 .. Len(output) : i # at + 1 => output'[i] = output[i]
<1>1. /\ IsSeq(output) /\ Len(output) \in Nat /\ HeaderEnd <= Len(output)
      /\ SlotAt <= HeaderEnd /\ SlotAt \in Nat /\ HeaderEnd \in Nat
  <2>1. /\ layout \in Layouts /\ IsSeq(output) /\ Len(output) \in Nat /\ BodyEnd \in Nat
        /\ HeaderEnd <= BodyEnd /\ BodyEnd <= Len(output)
    BY Sizes
  <2>2. layout.front \in Nat /\ HeaderEnd \in Nat /\ SlotAt \in Nat /\ HeaderEnd = SlotAt + layout.front
    BY <2>1, Offs
  <2> HIDE DEF SlotAt, HeaderEnd, BodyEnd
  <2>3. SlotAt <= HeaderEnd /\ HeaderEnd <= Len(output)
    BY <2>1, <2>2
  <2> QED BY <2>1, <2>2, <2>3
<1> at \in Nat /\ at < SlotAt
  BY <1>1
<1> DEFINE c == <<a>>
           o == Overwritten(at, c)
<1>2. IsSeq(c) /\ Len(c) = 1 /\ c[1] = a
  BY SingleIs
<1> HIDE DEF c
<1>3. /\ IsSeq(o)
      /\ Len(o) = IF Len(output) >= at + Len(c) THEN Len(output) ELSE at + Len(c)
      /\ \A i \in 1 .. Len(o) :
           o[i] = IF i > at /\ i <= at + Len(c) THEN c[i - at] ELSE output[i]
  BY <1>1, <1>2, OverwrittenIs
<1>4. output' = o
  BY DEF c
<1> HIDE DEF o
<1>5. Len(o) = Len(output)
  BY <1>1, <1>2, <1>3
<1>6. o[at + 1] = a
  BY <1>1, <1>2, <1>3, <1>5
<1>7. \A i \in 1 .. Len(output) : i # at + 1 => o[i] = output[i]
  BY <1>1, <1>2, <1>3, <1>5
<1> QED BY <1>3, <1>4, <1>5, <1>6, <1>7

\* Where nothing behind the header is written but by what the step is about.
LEMMA SlotStays ==
  ASSUME WriterInv, step \notin {"header", "rest"}, step' \notin {"header", "rest"},
         layout' = layout, index' = index, entry' = entry,
         Len(output') = Len(output), \A i \in SlotAt + 1 .. Len(output) : output'[i] = output[i]
  PROVE  /\ SlotHolds' /\ BodyEnd' = BodyEnd
         /\ \A i \in HeaderEnd + 1 .. BodyEnd : output'[i] = output[i]
         /\ entry # None =>
              /\ ~layout.live /\ index # <<>> /\ step \notin {"header", "packets", "cues"}
              /\ IF FitsFront' THEN entry = SlotAt'
                 ELSE /\ entry >= HeaderEnd' /\ Len(output') = entry + Len(CuesElement)'
                      /\ \A i \in 1 .. Len(CuesElement)' : output'[entry + i] = (CuesElement')[i]
<1>1. /\ Len(output) \in Nat /\ BodyEnd \in Nat /\ Len(CuesElement) \in Nat \ {0}
      /\ HeaderEnd <= BodyEnd /\ BodyEnd <= Len(output) /\ layout.front \in Nat
      /\ SlotAt \in Nat /\ HeaderEnd = SlotAt + layout.front /\ HeaderEnd \in Nat
  BY Sizes, Offs
<1>2. /\ HeaderEnd' = HeaderEnd /\ SlotAt' = SlotAt
      /\ CuesElement' = CuesElement /\ FitsFront' = FitsFront /\ RestOfSlot' = RestOfSlot
  BY SameLayout, SameIndex
<1>3. BodyEnd' = BodyEnd
  BY <1>2 DEF BodyEnd
<1>4. \A i \in HeaderEnd + 1 .. BodyEnd : output'[i] = output[i]
  BY <1>1
<1>5. SlotHolds'
  <2> SUFFICES ASSUME NEW i \in 1 .. layout.front PROVE output'[SlotAt + i] = SlotNow(i)'
    BY <1>2 DEF SlotHolds
  <2>1. output[SlotAt + i] = SlotNow(i)
    BY DEF WriterInv, SlotHolds
  <2>2. output'[SlotAt + i] = output[SlotAt + i]
    BY <1>1
  <2>3. SlotNow(i)' = SlotNow(i)
    BY <1>2 DEF SlotNow, InSlot
  <2> QED BY <2>1, <2>2, <2>3
<1>6. ASSUME entry # None
      PROVE  /\ ~layout.live /\ index # <<>> /\ step \notin {"header", "packets", "cues"}
             /\ IF FitsFront THEN entry = SlotAt
                ELSE /\ entry >= HeaderEnd /\ Len(output) = entry + Len(CuesElement)
                     /\ \A i \in 1 .. Len(CuesElement) : output[entry + i] = CuesElement[i]
             /\ entry \in Nat
  BY <1>6 DEF WriterInv, CuesHold, WriterShape
<1>7. ASSUME entry # None, ~FitsFront, NEW i \in 1 .. Len(CuesElement)
      PROVE  output'[entry + i] = CuesElement[i]
  <2>1. /\ entry \in Nat /\ entry >= HeaderEnd /\ Len(output) = entry + Len(CuesElement)
        /\ output[entry + i] = CuesElement[i]
    BY <1>6, <1>7
  <2>2. entry + i \in SlotAt + 1 .. Len(output)
    BY <1>1, <2>1
  <2> QED BY <2>1, <2>2
<1> QED BY <1>2, <1>3, <1>4, <1>5, <1>6, <1>7

LEMMA PatchSeekKeeps ==
  ASSUME WriterInv, PatchSeekEntry
  PROVE  WriterInv'
<1> DEFINE a == IF entry = None THEN Patchable ELSE Item([id |-> "Cues", at |-> entry])
<1>1. /\ step = "seek" /\ step' = "duration" /\ output' = Overwritten(4, <<a>>)
      /\ UNCHANGED <<layout, left, cluster, index, maxEnd, stored, entry>>
  BY DEF PatchSeekEntry, Kept, Offsets, Leaf, Item
<1>2. /\ layout \in Layouts /\ Len(output) \in Nat /\ IsSeq(output) /\ HeaderEnd <= BodyEnd /\ BodyEnd <= Len(output)
      /\ BodyEnd \in Nat /\ SlotAt \in Nat /\ InfoAt = 5 /\ InfoAt < DurationAt /\ SlotAt > 1 + InfoAt /\ ~layout.live
      /\ Offsets.Cues = 4 /\ HeaderEnd = SlotAt + layout.front /\ layout.front \in Nat
      /\ DurationAt \in Nat /\ CrcAt \in Nat /\ CrcAt > InfoAt
  BY <1>1, Sizes, Offs DEF WriterInv, CuesHold
<1>3. cluster.off # None => cluster.blocks > 0
  BY <1>1 DEF WriterInv, ClusterHolds, WriterShape
<1> HIDE DEF a
<1>4. /\ IsSeq(output') /\ Len(output') = Len(output) /\ output'[5] = a
      /\ \A i \in 1 .. Len(output) : i # 5 => output'[i] = output[i]
  <2>1. 4 \in 0 .. SlotAt - 1
    BY <1>2
  <2> QED BY <1>1, <2>1, PatchedIs
<1>5. /\ HeaderEnd' = HeaderEnd /\ SlotAt' = SlotAt /\ HeaderCells' = HeaderCells
      /\ CuesElement' = CuesElement /\ FitsFront' = FitsFront /\ RestOfSlot' = RestOfSlot
      /\ DurationAt' = DurationAt /\ CrcAt' = CrcAt
  BY <1>1, SameLayout, SameIndex
<1>6. \A i \in SlotAt + 1 .. Len(output) : output'[i] = output[i]
  BY <1>2, <1>4
<1>7. /\ SlotHolds' /\ BodyEnd' = BodyEnd
      /\ \A i \in HeaderEnd + 1 .. BodyEnd : output'[i] = output[i]
      /\ entry # None =>
           /\ ~layout.live /\ index # <<>>
           /\ IF FitsFront' THEN entry = SlotAt'
              ELSE /\ entry >= HeaderEnd' /\ Len(output') = entry + Len(CuesElement)'
                   /\ \A i \in 1 .. Len(CuesElement)' : output'[entry + i] = (CuesElement')[i]
  BY <1>1, <1>4, <1>6, SlotStays
<1>8. BodyHolds' /\ ClusterHolds' /\ IndexHolds' /\ OutputIsShort'
  BY <1>1, <1>3, <1>7, BodyStays
<1>9. HeaderHolds'
  <2>1. Len(output') >= HeaderEnd'
    BY <1>2, <1>4, <1>5
  <2>2. ASSUME NEW o \in 0 .. SlotAt - 1 PROVE output'[o + 1] = HeaderNow(o)'
    <3>1. output[o + 1] = HeaderNow(o) /\ o + 1 \in 1 .. Len(output)
      BY <1>1, <1>2 DEF WriterInv, HeaderHolds
    <3>2. CASE o = 4
      <4>0. SeekPatched' /\ ~DurationPatched' /\ ~CrcPatched'
        BY <1>1, <1>2 DEF SeekPatched, DurationPatched, CrcPatched
      <4>1. HeaderNow(o)' = a
        BY <1>1, <1>2, <3>2, <4>0 DEF HeaderNow, a, Item
      <4> QED BY <1>4, <3>2, <4>1
    <3>3. CASE o # 4
      <4>1. HeaderNow(o) = HeaderCells[o + 1]
        BY <1>1, <1>2, <3>3 DEF HeaderNow, SeekPatched, DurationPatched, CrcPatched
      <4>2. HeaderNow(o)' = HeaderCells[o + 1]
        BY <1>1, <1>2, <1>5, <3>3 DEF HeaderNow, SeekPatched, DurationPatched, CrcPatched
      <4> QED BY <1>4, <3>1, <3>3, <4>1, <4>2
    <3> QED BY <3>2, <3>3
  <2> QED BY <1>5, <2>1, <2>2 DEF HeaderHolds
<1>10. CuesHold'
  BY <1>1, <1>2, <1>7 DEF CuesHold, WriterInv
<1>11. WriterShape'
  BY <1>1, <1>4 DEF WriterInv, WriterShape, Steps
<1> QED BY <1>7, <1>8, <1>9, <1>10, <1>11 DEF WriterInv

LEMMA StartTrailerKeeps ==
  ASSUME WriterInv, StartTrailer
  PROVE  WriterInv'
<1>1. /\ step = "packets" /\ step' \in {"duration", "seek", "cues"} /\ output' = output
      /\ UNCHANGED <<layout, left, cluster, index, maxEnd, stored, entry>>
      /\ step' = "cues" => ~layout.live /\ index # <<>>
      /\ step' = "seek" => ~layout.live /\ index = <<>>
      /\ step' = "duration" => layout.live
  BY DEF StartTrailer, Kept
<1>2. /\ Len(output) \in Nat /\ IsSeq(output) /\ HeaderEnd <= BodyEnd /\ BodyEnd <= Len(output)
      /\ entry = None
  BY <1>1, Sizes DEF WriterInv, CuesHold
<1>3. cluster.off # None => cluster.blocks > 0
  BY DEF StartTrailer
<1>5. /\ HeaderEnd' = HeaderEnd /\ SlotAt' = SlotAt /\ HeaderCells' = HeaderCells
  BY <1>1, SameLayout
<1>7. /\ SlotHolds' /\ BodyEnd' = BodyEnd
      /\ \A i \in HeaderEnd + 1 .. BodyEnd : output'[i] = output[i]
  BY <1>1, SlotStays
<1>8. BodyHolds' /\ ClusterHolds' /\ IndexHolds' /\ OutputIsShort'
  BY <1>1, <1>3, <1>7, BodyStays
<1>9. HeaderHolds'
  <2>1. Len(output') >= HeaderEnd'
    BY <1>1, <1>5 DEF WriterInv, HeaderHolds
  <2>2. ASSUME NEW o \in 0 .. SlotAt - 1 PROVE output'[o + 1] = HeaderNow(o)'
    <3>1. output[o + 1] = HeaderNow(o)
      BY <1>1 DEF WriterInv, HeaderHolds
    <3>2. ~SeekPatched /\ ~DurationPatched /\ ~CrcPatched
      BY <1>1 DEF SeekPatched, DurationPatched, CrcPatched
    <3>3. ~SeekPatched' /\ ~DurationPatched' /\ ~CrcPatched'
      BY <1>1 DEF SeekPatched, DurationPatched, CrcPatched
    <3>4. HeaderNow(o) = HeaderCells[o + 1]
      BY <3>2 DEF HeaderNow
    <3>5. HeaderNow(o)' = HeaderCells[o + 1]
      BY <1>5, <3>3 DEF HeaderNow
    <3> QED BY <1>1, <3>1, <3>4, <3>5
  <2> QED BY <1>5, <2>1, <2>2 DEF HeaderHolds
<1>10. CuesHold'
  BY <1>1, <1>2 DEF CuesHold
<1>11. WriterShape'
  BY <1>1 DEF WriterInv, WriterShape, Steps
<1> QED BY <1>7, <1>8, <1>9, <1>10, <1>11 DEF WriterInv

LEMMA PatchDurationKeeps ==
  ASSUME WriterInv, PatchDuration
  PROVE  WriterInv'
<1> DEFINE a == [id |-> "Duration", size |-> 0, v |-> maxEnd]
<1>1. /\ step = "duration" /\ step' \in {"crc", "done"}
      /\ step' = "crc" <=> Timed /\ ~layout.strict
      /\ output' = IF Timed THEN Overwritten(DurationAt, <<a>>) ELSE output
      /\ UNCHANGED <<layout, left, cluster, index, maxEnd, stored, entry>>
  BY DEF PatchDuration, Kept, Leaf, Timed
<1>2. /\ layout \in Layouts /\ Len(output) \in Nat /\ IsSeq(output) /\ HeaderEnd <= BodyEnd /\ BodyEnd <= Len(output)
      /\ BodyEnd \in Nat /\ SlotAt \in Nat /\ DurationAt \in Nat /\ DurationAt # 4
      /\ Offsets.Cues = 4 /\ HeaderEnd = SlotAt + layout.front /\ layout.front \in Nat
      /\ (Timed => DurationAt < SlotAt) /\ DurationAt > InfoAt /\ InfoAt \in Nat
  <2>1. /\ layout \in Layouts /\ Len(output) \in Nat /\ IsSeq(output) /\ HeaderEnd <= BodyEnd /\ BodyEnd <= Len(output)
        /\ BodyEnd \in Nat
    BY <1>1, Sizes
  <2>2. /\ SlotAt \in Nat /\ DurationAt \in Nat /\ Offsets.Cues = 4
        /\ HeaderEnd = SlotAt + layout.front /\ layout.front \in Nat
        /\ layout.finalize => DurationAt < TracksAt
        /\ TracksAt < SlotAt /\ TracksAt \in Nat /\ InfoAt < DurationAt /\ InfoAt \in Nat
    BY <2>1, Offs
  <2>3. DurationAt # 4
    BY <2>1, LayoutIs DEF DurationAt, InfoAt, Offsets
  <2> QED BY <2>1, <2>2, <2>3 DEF Timed
<1>3. cluster.off # None => cluster.blocks > 0
  BY <1>1 DEF WriterInv, ClusterHolds, WriterShape
<1> HIDE DEF a
<1>4. /\ IsSeq(output') /\ Len(output') = Len(output) /\ (Timed => output'[DurationAt + 1] = a)
      /\ \A i \in 1 .. Len(output) : ~Timed \/ i # DurationAt + 1 => output'[i] = output[i]
  <2>1. CASE Timed
    <3>1. DurationAt \in 0 .. SlotAt - 1 /\ output' = Overwritten(DurationAt, <<a>>)
      BY <1>1, <1>2, <2>1
    <3> QED BY <1>1, <2>1, <3>1, PatchedIs
  <2>2. CASE ~Timed
    BY <1>1, <1>2, <2>2
  <2> QED BY <2>1, <2>2
<1>5. /\ HeaderEnd' = HeaderEnd /\ SlotAt' = SlotAt /\ HeaderCells' = HeaderCells
      /\ CuesElement' = CuesElement /\ FitsFront' = FitsFront /\ RestOfSlot' = RestOfSlot
      /\ DurationAt' = DurationAt /\ CrcAt' = CrcAt /\ Timed' = Timed
  BY <1>1, SameLayout, SameIndex DEF Timed
<1>6. \A i \in SlotAt + 1 .. Len(output) : output'[i] = output[i]
  BY <1>2, <1>4
<1>7. /\ SlotHolds' /\ BodyEnd' = BodyEnd
      /\ \A i \in HeaderEnd + 1 .. BodyEnd : output'[i] = output[i]
      /\ entry # None =>
           /\ ~layout.live /\ index # <<>>
           /\ IF FitsFront' THEN entry = SlotAt'
              ELSE /\ entry >= HeaderEnd' /\ Len(output') = entry + Len(CuesElement)'
                   /\ \A i \in 1 .. Len(CuesElement)' : output'[entry + i] = (CuesElement')[i]
  BY <1>1, <1>4, <1>6, SlotStays
<1>8. BodyHolds' /\ ClusterHolds' /\ IndexHolds' /\ OutputIsShort'
  BY <1>1, <1>3, <1>7, BodyStays
<1>9. HeaderHolds'
  <2>1. Len(output') >= HeaderEnd'
    BY <1>2, <1>4, <1>5
  <2>2. ASSUME NEW o \in 0 .. SlotAt - 1 PROVE output'[o + 1] = HeaderNow(o)'
    <3>1. output[o + 1] = HeaderNow(o) /\ o + 1 \in 1 .. Len(output) /\ o \in Nat
      BY <1>1, <1>2 DEF WriterInv, HeaderHolds
    <3>2. /\ SeekPatched' = SeekPatched /\ ~DurationPatched /\ ~CrcPatched
          /\ DurationPatched' = Timed /\ ~CrcPatched'
      <4>1. SeekPatched' = SeekPatched
        BY <1>1 DEF SeekPatched
      <4>2. ~DurationPatched /\ ~CrcPatched
        BY <1>1 DEF DurationPatched, CrcPatched
      <4>3. DurationPatched' = Timed
        BY <1>1, <1>5 DEF DurationPatched, Timed
      <4>4. ~CrcPatched'
        BY <1>1, <1>5 DEF CrcPatched
      <4> QED BY <4>1, <4>2, <4>3, <4>4
    <3>3. CASE Timed /\ o = DurationAt
      <4>1. HeaderNow(o)' = a
        BY <1>1, <1>2, <1>5, <3>2, <3>3 DEF HeaderNow, a
      <4> QED BY <1>4, <3>3, <4>1
    <3>4. CASE ~(Timed /\ o = DurationAt)
      <4>1. HeaderNow(o)' = HeaderNow(o)
        BY <1>1, <1>2, <1>5, <3>2, <3>4 DEF HeaderNow
      <4> QED BY <1>2, <1>4, <3>1, <3>4, <4>1
    <3> QED BY <3>3, <3>4
  <2> QED BY <1>5, <2>1, <2>2 DEF HeaderHolds
<1>10. CuesHold'
  <2>1. step' = "crc" => Timed' /\ ~layout'.strict
    BY <1>1, <1>5
  <2>2. ~layout.live /\ index # <<>> => entry # None
    BY <1>1 DEF WriterInv, CuesHold
  <2> QED BY <1>1, <1>2, <1>7, <2>1, <2>2 DEF CuesHold
<1>11. WriterShape'
  BY <1>1, <1>4 DEF WriterInv, WriterShape, Steps
<1> QED BY <1>7, <1>8, <1>9, <1>10, <1>11 DEF WriterInv

LEMMA PatchCrcKeeps ==
  ASSUME WriterInv, PatchCrc
  PROVE  WriterInv'
<1> DEFINE a == [id |-> "Crc", size |-> 0, v |-> PatchedInfoBody]
<1>1. /\ step = "crc" /\ step' = "done" /\ output' = Overwritten(CrcAt, <<a>>)
      /\ UNCHANGED <<layout, left, cluster, index, maxEnd, stored, entry>>
      /\ Timed /\ ~layout.strict
  BY DEF PatchCrc, Kept, Leaf, WriterInv, CuesHold
<1>2. /\ layout \in Layouts /\ Len(output) \in Nat /\ IsSeq(output) /\ HeaderEnd <= BodyEnd /\ BodyEnd <= Len(output)
      /\ BodyEnd \in Nat /\ SlotAt \in Nat /\ CrcAt \in Nat /\ CrcAt # 4 /\ CrcAt < SlotAt
      /\ DurationAt \in Nat /\ CrcAt < DurationAt
      /\ Offsets.Cues = 4 /\ HeaderEnd = SlotAt + layout.front /\ layout.front \in Nat
  <2>1. /\ layout \in Layouts /\ Len(output) \in Nat /\ IsSeq(output) /\ HeaderEnd <= BodyEnd /\ BodyEnd <= Len(output)
        /\ BodyEnd \in Nat
    BY <1>1, Sizes
  <2>2. /\ SlotAt \in Nat /\ CrcAt \in Nat /\ Offsets.Cues = 4
        /\ HeaderEnd = SlotAt + layout.front /\ layout.front \in Nat
        /\ CrcAt < TracksAt /\ TracksAt < SlotAt /\ TracksAt \in Nat
        /\ DurationAt \in Nat /\ CrcAt < DurationAt
    BY <1>1, <2>1, Offs
  <2>3. CrcAt # 4
    BY <2>1, LayoutIs DEF CrcAt, InfoAt, Offsets
  <2> QED BY <2>1, <2>2, <2>3
<1>3. cluster.off # None => cluster.blocks > 0
  BY <1>1 DEF WriterInv, ClusterHolds, WriterShape
<1> HIDE DEF a
<1>4. /\ IsSeq(output') /\ Len(output') = Len(output) /\ output'[CrcAt + 1] = a
      /\ \A i \in 1 .. Len(output) : i # CrcAt + 1 => output'[i] = output[i]
  <2>1. CrcAt \in 0 .. SlotAt - 1
    BY <1>2
  <2> QED BY <1>1, <2>1, PatchedIs
<1>5. /\ HeaderEnd' = HeaderEnd /\ SlotAt' = SlotAt /\ HeaderCells' = HeaderCells
      /\ CuesElement' = CuesElement /\ FitsFront' = FitsFront /\ RestOfSlot' = RestOfSlot
      /\ DurationAt' = DurationAt /\ CrcAt' = CrcAt /\ Timed' = Timed
      /\ PatchedInfoBody' = PatchedInfoBody
  BY <1>1, SameLayout, SameIndex DEF Timed, PatchedInfoBody
<1>6. \A i \in SlotAt + 1 .. Len(output) : output'[i] = output[i]
  BY <1>2, <1>4
<1>7. /\ SlotHolds' /\ BodyEnd' = BodyEnd
      /\ \A i \in HeaderEnd + 1 .. BodyEnd : output'[i] = output[i]
      /\ entry # None =>
           /\ ~layout.live /\ index # <<>>
           /\ IF FitsFront' THEN entry = SlotAt'
              ELSE /\ entry >= HeaderEnd' /\ Len(output') = entry + Len(CuesElement)'
                   /\ \A i \in 1 .. Len(CuesElement)' : output'[entry + i] = (CuesElement')[i]
  BY <1>1, <1>4, <1>6, SlotStays
<1>8. BodyHolds' /\ ClusterHolds' /\ IndexHolds' /\ OutputIsShort'
  BY <1>1, <1>3, <1>7, BodyStays
<1>9. HeaderHolds'
  <2>1. Len(output') >= HeaderEnd'
    BY <1>2, <1>4, <1>5
  <2>2. ASSUME NEW o \in 0 .. SlotAt - 1 PROVE output'[o + 1] = HeaderNow(o)'
    <3>1. output[o + 1] = HeaderNow(o) /\ o + 1 \in 1 .. Len(output) /\ o \in Nat
      BY <1>1, <1>2 DEF WriterInv, HeaderHolds
    <3>2. /\ SeekPatched' = SeekPatched /\ DurationPatched /\ ~CrcPatched
          /\ DurationPatched' /\ CrcPatched'
      <4>1. SeekPatched' = SeekPatched
        BY <1>1 DEF SeekPatched
      <4>2. DurationPatched /\ ~CrcPatched
        BY <1>1 DEF DurationPatched, CrcPatched
      <4>3. DurationPatched' /\ CrcPatched'
        BY <1>1, <1>5 DEF DurationPatched, CrcPatched
      <4> QED BY <4>1, <4>2, <4>3
    <3>3. CASE o = CrcAt
      <4>1. HeaderNow(o)' = a
        BY <1>1, <1>2, <1>5, <3>2, <3>3 DEF HeaderNow, a
      <4> QED BY <1>4, <3>3, <4>1
    <3>4. CASE o # CrcAt
      <4>1. HeaderNow(o)' = HeaderNow(o)
        BY <1>1, <1>2, <1>5, <3>2, <3>4 DEF HeaderNow
      <4> QED BY <1>2, <1>4, <3>1, <3>4, <4>1
    <3> QED BY <3>3, <3>4
  <2> QED BY <1>5, <2>1, <2>2 DEF HeaderHolds
<1>10. CuesHold'
  <2>2. ~layout.live /\ index # <<>> => entry # None
    BY <1>1 DEF WriterInv, CuesHold
  <2> QED BY <1>1, <1>2, <1>7, <2>2 DEF CuesHold
<1>11. WriterShape'
  BY <1>1, <1>4 DEF WriterInv, WriterShape, Steps
<1> QED BY <1>7, <1>8, <1>9, <1>10, <1>11 DEF WriterInv

\* A write behind the header leaves the header alone.
LEMMA HeaderStays ==
  ASSUME WriterInv, step # "header", step' # "header",
         layout' = layout,
         step \in {"packets", "cues", "rest"}, step' \in {"packets", "cues", "rest", "seek"},
         Len(output') >= Len(output), \A i \in 1 .. SlotAt : output'[i] = output[i]
  PROVE  HeaderHolds'
<1>1. /\ HeaderEnd' = HeaderEnd /\ SlotAt' = SlotAt /\ HeaderCells' = HeaderCells
      /\ HeaderEnd \in Nat /\ Len(output) \in Nat /\ HeaderEnd <= Len(output) /\ SlotAt \in Nat
  BY Sizes, Offs, SameLayout
<1>2. Len(output') >= HeaderEnd'
  BY <1>1 DEF WriterInv, HeaderHolds
<1>3. ASSUME NEW o \in 0 .. SlotAt - 1 PROVE output'[o + 1] = HeaderNow(o)'
  <2>1. output[o + 1] = HeaderNow(o) /\ o + 1 \in 1 .. SlotAt
    BY <1>1 DEF WriterInv, HeaderHolds
  <2>2. ~SeekPatched /\ ~DurationPatched /\ ~CrcPatched /\ ~SeekPatched' /\ ~DurationPatched' /\ ~CrcPatched'
    BY DEF SeekPatched, DurationPatched, CrcPatched
  <2>3. HeaderNow(o) = HeaderCells[o + 1]
    BY <2>2 DEF HeaderNow
  <2>4. HeaderNow(o)' = HeaderCells[o + 1]
    BY <1>1, <2>2 DEF HeaderNow
  <2> QED BY <2>1, <2>3, <2>4
<1> QED BY <1>1, <1>2, <1>3 DEF HeaderHolds

LEMMA VoidRestKeeps ==
  ASSUME WriterInv, VoidRest
  PROVE  WriterInv'
<1> DEFINE n == Len(CuesElement)
           r == layout.front - n
           v == VoidOf(r)
           at == SlotAt + n
           o == Overwritten(at, v)
<1>1. /\ step = "rest" /\ step' = "seek" /\ output' = o
      /\ UNCHANGED <<layout, left, cluster, index, maxEnd, stored, entry>>
  BY DEF VoidRest, Kept, RestOfSlot
<1>2. /\ entry # None /\ FitsFront /\ r > 0 /\ ~layout.live /\ index # <<>> /\ RestOfSlot = r /\ entry = SlotAt
  BY <1>1 DEF WriterInv, CuesHold, InSlot, RestOfSlot
<1>3. /\ layout \in Layouts /\ IsSeq(output) /\ Len(output) \in Nat /\ n \in Nat \ {0}
      /\ HeaderEnd <= BodyEnd /\ BodyEnd <= Len(output) /\ BodyEnd \in Nat
      /\ SlotAt \in Nat /\ layout.front \in Nat /\ HeaderEnd = SlotAt + layout.front /\ r \in Nat \ {0}
  <2>1. /\ layout \in Layouts /\ IsSeq(output) /\ Len(output) \in Nat /\ n \in Nat \ {0}
        /\ HeaderEnd <= BodyEnd /\ BodyEnd <= Len(output) /\ BodyEnd \in Nat
    BY <1>1, Sizes
  <2>2. SlotAt \in Nat /\ layout.front \in Nat /\ HeaderEnd = SlotAt + layout.front
    BY <2>1, Offs
  <2> HIDE DEF n
  <2> QED BY <1>2, <2>1, <2>2
<1>4. IsSeq(v) /\ Len(v) = r
  <2> HIDE DEF r
  <2> QED BY <1>3, VoidIs
<1> HIDE DEF n, v
<1>5. /\ IsSeq(o)
      /\ Len(o) = IF Len(output) >= at + Len(v) THEN Len(output) ELSE at + Len(v)
      /\ \A i \in 1 .. Len(o) : o[i] = IF i > at /\ i <= at + Len(v) THEN v[i - at] ELSE output[i]
  <2>1. at \in Nat
    BY <1>3
  <2> HIDE DEF at, r
  <2> QED BY <1>3, <1>4, <2>1, OverwrittenIs
<1> HIDE DEF o
<1>6. /\ IsSeq(output') /\ Len(output') = Len(output)
      /\ \A i \in 1 .. at : output'[i] = output[i]
      /\ \A i \in at + 1 .. at + r : output'[i] = v[i - at]
      /\ \A i \in HeaderEnd + 1 .. Len(output) : output'[i] = output[i]
  <2>1. Len(o) = Len(output) /\ at + r = HeaderEnd /\ at + r <= Len(output) /\ at \in Nat
    BY <1>3, <1>4, <1>5
  <2> HIDE DEF at, r
  <2> QED BY <1>1, <1>3, <1>4, <1>5, <2>1
<1>7. /\ HeaderEnd' = HeaderEnd /\ SlotAt' = SlotAt
      /\ CuesElement' = CuesElement /\ FitsFront' = FitsFront /\ RestOfSlot' = RestOfSlot
  BY <1>1, SameLayout, SameIndex
<1>8. BodyEnd' = BodyEnd
  BY <1>1, <1>6, <1>7 DEF BodyEnd
<1>9. cluster.off # None => cluster.blocks > 0
  BY <1>1 DEF WriterInv, ClusterHolds, WriterShape
<1>10. BodyHolds' /\ ClusterHolds' /\ IndexHolds' /\ OutputIsShort'
  <2>1. \A i \in HeaderEnd + 1 .. BodyEnd : output'[i] = output[i]
    BY <1>3, <1>6
  <2> QED BY <1>1, <1>8, <1>9, <2>1, BodyStays
<1>11. HeaderHolds'
  <2>1. \A i \in 1 .. SlotAt : output'[i] = output[i]
    BY <1>3, <1>6
  <2> QED BY <1>1, <1>6, <1>3, <2>1, HeaderStays
<1>12. SlotHolds'
  <2> SUFFICES ASSUME NEW i \in 1 .. layout.front PROVE output'[SlotAt + i] = SlotNow(i)'
    BY <1>1, <1>7 DEF SlotHolds
  <2>1. InSlot' /\ InSlot
    BY <1>1, <1>2, <1>7 DEF InSlot
  <2>2. CASE i <= n
    <3>1. SlotNow(i)' = CuesElement[i] /\ SlotNow(i) = CuesElement[i]
      BY <1>1, <1>7, <2>1, <2>2 DEF SlotNow, n
    <3>2. output[SlotAt + i] = SlotNow(i)
      BY <1>1 DEF WriterInv, SlotHolds
    <3>3. output'[SlotAt + i] = output[SlotAt + i]
      BY <1>3, <1>6, <2>2
    <3> QED BY <3>1, <3>2, <3>3
  <2>3. CASE ~(i <= n)
    <3>1. SlotNow(i)' = v[i - n]
      BY <1>1, <1>2, <1>7, <2>1, <2>3 DEF SlotNow, n, v
    <3>2. SlotAt + i \in at + 1 .. at + r /\ (SlotAt + i) - at = i - n
      BY <1>3, <2>3
    <3> HIDE DEF at, r
    <3> QED BY <1>6, <3>1, <3>2
  <2> QED BY <2>2, <2>3
<1>13. CuesHold'
  BY <1>1, <1>2, <1>7 DEF CuesHold
<1>14. WriterShape'
  BY <1>1, <1>6 DEF WriterInv, WriterShape, Steps
<1> QED BY <1>10, <1>11, <1>12, <1>13, <1>14 DEF WriterInv

LEMMA WriteCuesKeeps ==
  ASSUME WriterInv, WriteCues
  PROVE  WriterInv'
<1> DEFINE c == CuesElement
           n == Len(c)
           o == Overwritten(CuesAt, c)
<1>1. /\ step = "cues" /\ step' = (IF FitsFront /\ RestOfSlot > 0 THEN "rest" ELSE "seek")
      /\ output' = o /\ entry' = CuesAt
      /\ UNCHANGED <<layout, left, cluster, index, maxEnd, stored>>
  BY DEF WriteCues, Kept
<1>2. /\ entry = None /\ ~layout.live /\ index # <<>> /\ BodyEnd = Len(output) /\ ~InSlot
  <2>1. entry = None /\ ~layout.live /\ index # <<>>
    BY <1>1 DEF WriterInv, CuesHold
  <2> QED BY <2>1 DEF BodyEnd, InSlot
<1>3. /\ layout \in Layouts /\ IsSeq(output) /\ Len(output) \in Nat /\ n \in Nat \ {0} /\ IsSeq(c)
      /\ HeaderEnd <= Len(output) /\ HeaderEnd \in Nat
      /\ SlotAt \in Nat /\ layout.front \in Nat /\ HeaderEnd = SlotAt + layout.front
      /\ CuesAt \in Nat /\ (FitsFront => CuesAt = SlotAt /\ n <= layout.front)
      /\ (~FitsFront => CuesAt = Len(output))
  <2>1. /\ layout \in Layouts /\ IsSeq(output) /\ Len(output) \in Nat /\ n \in Nat \ {0} /\ IsSeq(c)
        /\ HeaderEnd <= Len(output)
    BY <1>1, <1>2, Sizes
  <2>2. SlotAt \in Nat /\ layout.front \in Nat /\ HeaderEnd = SlotAt + layout.front /\ HeaderEnd \in Nat
    BY <2>1, Offs
  <2>3. /\ FitsFront => CuesAt = SlotAt /\ n <= layout.front
        /\ ~FitsFront => CuesAt = Len(output)
    BY DEF CuesAt, FitsFront
  <2> QED BY <2>1, <2>2, <2>3
<1> HIDE DEF c
<1>4. /\ IsSeq(o)
      /\ Len(o) = IF Len(output) >= CuesAt + n THEN Len(output) ELSE CuesAt + n
      /\ \A i \in 1 .. Len(o) : o[i] = IF i > CuesAt /\ i <= CuesAt + n THEN c[i - CuesAt] ELSE output[i]
  BY <1>3, OverwrittenIs
<1> HIDE DEF o, n
<1>5. /\ IsSeq(output')
      /\ Len(output') = IF FitsFront THEN Len(output) ELSE Len(output) + n
      /\ \A i \in CuesAt + 1 .. CuesAt + n : output'[i] = c[i - CuesAt]
      /\ \A i \in 1 .. Len(output) : i <= CuesAt \/ i > CuesAt + n => output'[i] = output[i]
  <2>1. Len(o) = IF FitsFront THEN Len(output) ELSE Len(output) + n
    BY <1>3, <1>4
  <2>2. CuesAt + n <= Len(o) /\ Len(output) <= Len(o) /\ Len(o) \in Nat
    BY <1>3, <2>1
  <2>3. \A i \in CuesAt + 1 .. CuesAt + n : o[i] = c[i - CuesAt]
    BY <1>3, <1>4, <2>2
  <2>4. \A i \in 1 .. Len(output) : i <= CuesAt \/ i > CuesAt + n => o[i] = output[i]
    BY <1>3, <1>4, <2>2
  <2> QED BY <1>1, <1>4, <2>1, <2>3, <2>4
<1>6. /\ HeaderEnd' = HeaderEnd /\ SlotAt' = SlotAt
      /\ CuesElement' = c /\ FitsFront' = FitsFront /\ RestOfSlot' = RestOfSlot
  BY <1>1, SameLayout, SameIndex DEF c
<1>7. entry' # None /\ BodyEnd' = BodyEnd
  <2>1. entry' # None
    BY <1>1, <1>3 DEF None
  <2> QED BY <1>1, <1>2, <1>3, <1>5, <1>6, <2>1 DEF BodyEnd
<1>8. cluster.off # None => cluster.blocks > 0
  BY <1>1 DEF WriterInv, ClusterHolds, WriterShape
<1>9. BodyHolds' /\ ClusterHolds' /\ IndexHolds' /\ OutputIsShort'
  <2>1. \A i \in HeaderEnd + 1 .. Len(output) : output'[i] = output[i]
    BY <1>3, <1>5
  <2> QED BY <1>1, <1>2, <1>7, <1>8, <2>1, BodyStays
<1>10. HeaderHolds'
  <2>1. \A i \in 1 .. SlotAt : output'[i] = output[i]
    BY <1>3, <1>5
  <2>2. Len(output') >= Len(output)
    BY <1>3, <1>5
  <2> QED BY <1>1, <2>1, <2>2, HeaderStays
<1>11. SlotHolds'
  <2> SUFFICES ASSUME NEW i \in 1 .. layout.front PROVE output'[SlotAt + i] = SlotNow(i)'
    BY <1>1, <1>6 DEF SlotHolds
  <2>1. output[SlotAt + i] = VoidOf(layout.front)[i]
    BY <1>1, <1>2 DEF WriterInv, SlotHolds, SlotNow
  <2>2. CASE ~FitsFront
    <3>1. SlotNow(i)' = VoidOf(layout.front)[i]
      BY <1>1, <1>6, <2>2 DEF SlotNow, InSlot, VoidOf
    <3>2. output'[SlotAt + i] = output[SlotAt + i]
      <4>1. SlotAt + i \in 1 .. Len(output) /\ SlotAt + i <= CuesAt
        BY <1>3, <2>2
      <4> QED BY <1>5, <4>1
    <3> QED BY <2>1, <3>1, <3>2
  <2>3. CASE FitsFront
    <3>1. InSlot'
      BY <1>6, <1>7, <2>3 DEF InSlot
    <3>2. CASE i <= n
      <4>1. SlotNow(i)' = c[i]
        BY <1>6, <3>1, <3>2 DEF SlotNow, n
      <4>2. SlotAt + i \in CuesAt + 1 .. CuesAt + n /\ (SlotAt + i) - CuesAt = i
        BY <1>3, <2>3, <3>2
      <4> QED BY <1>5, <4>1, <4>2
    <3>3. CASE ~(i <= n)
      <4>1. RestOfSlot > 0
        <5>1. RestOfSlot = layout.front - n
          BY DEF RestOfSlot, n, c
        <5> QED BY <1>3, <3>3, <5>1
      <4>2. step' = "rest"
        BY <1>1, <2>3, <4>1
      <4>3. SlotNow(i)' = NoElement
        BY <1>6, <3>1, <3>3, <4>2 DEF SlotNow, n
      <4>4. output'[SlotAt + i] = output[SlotAt + i]
        BY <1>3, <1>5, <2>3, <3>3
      <4>5. VoidOf(layout.front)[i] = NoElement
        <5>1. i \in 2 .. layout.front /\ layout.front \in Nat \ {0}
          BY <1>3, <3>3
        <5> QED BY <5>1, VoidIs
      <4> QED BY <2>1, <4>3, <4>4, <4>5
    <3> QED BY <3>2, <3>3
  <2> QED BY <2>2, <2>3
<1>12. CuesHold'
  <2>1. IF FitsFront' THEN entry' = SlotAt'
        ELSE /\ entry' >= HeaderEnd' /\ Len(output') = entry' + Len(CuesElement)'
             /\ \A i \in 1 .. Len(CuesElement)' : output'[entry' + i] = (CuesElement')[i]
    <3>1. CASE FitsFront
      BY <1>1, <1>3, <1>6, <3>1
    <3>2. CASE ~FitsFront
      <4>1. entry' = Len(output) /\ Len(output') = entry' + n /\ Len(CuesElement)' = n
        BY <1>1, <1>3, <1>5, <1>6, <3>2 DEF n
      <4>2. ASSUME NEW i \in 1 .. n PROVE output'[entry' + i] = c[i]
        <5>1. entry' + i \in CuesAt + 1 .. CuesAt + n /\ (entry' + i) - CuesAt = i
          BY <1>1, <1>3
        <5> QED BY <1>5, <5>1
      <4> QED BY <1>3, <1>6, <3>2, <4>1, <4>2
    <3> QED BY <3>1, <3>2
  <2>2. step' = "rest" => InSlot' /\ RestOfSlot' > 0
    BY <1>1, <1>6, <1>7 DEF InSlot
  <2> QED BY <1>1, <1>2, <1>7, <2>1, <2>2 DEF CuesHold
<1>13. WriterShape'
  <2>1. step' \in {"rest", "seek"} /\ entry' \in Nat
    BY <1>1, <1>3
  <2> QED BY <1>1, <1>5, <2>1 DEF WriterInv, WriterShape, Steps
<1> QED BY <1>9, <1>10, <1>11, <1>12, <1>13 DEF WriterInv

\* Two cells more while packets come.
LEMMA TwoMore ==
  ASSUME WriterInv, step = "packets", step' = "packets", UNCHANGED <<layout, entry>>,
         NEW x, NEW y, output' = output \o (<<x>> \o <<y>>)
  PROVE  /\ IsSeq(output') /\ Len(output') = Len(output) + 2 /\ entry = None
         /\ BodyEnd = Len(output) /\ BodyEnd' = Len(output')
         /\ output'[Len(output) + 1] = x /\ output'[Len(output) + 2] = y
         /\ \A i \in 1 .. Len(output) : output'[i] = output[i]
         /\ HeaderHolds' /\ SlotHolds'
<1> DEFINE t == <<y>>
           c == <<x>> \o t
           n == Len(output)
           o == output \o c
<1>1. IsSeq(t) /\ Len(t) = 1 /\ t[1] = y
  BY SingleIs
<1> HIDE DEF t
<1>2. IsSeq(c) /\ Len(c) = 2 /\ c[1] = x /\ c[2] = y
  <2>1. /\ IsSeq(c) /\ Len(c) = Len(t) + 1 /\ c[1] = x
        /\ \A i \in 2 .. Len(t) + 1 : c[i] = t[i - 1]
    <3> IsSeq(t)
      BY <1>1
    <3> HIDE DEF c
    <3> QED BY ConsIs DEF c
  <2> HIDE DEF c
  <2> QED BY <1>1, <2>1
<1> HIDE DEF c
<1>3. /\ IsSeq(output) /\ n \in Nat /\ layout \in Layouts /\ HeaderEnd <= n
      /\ HeaderEnd \in Nat /\ SlotAt \in Nat /\ layout.front \in Nat /\ HeaderEnd = SlotAt + layout.front
  <2>1. layout \in Layouts /\ IsSeq(output) /\ n \in Nat /\ HeaderEnd <= BodyEnd /\ BodyEnd <= n /\ BodyEnd \in Nat
    BY Sizes
  <2>2. SlotAt \in Nat /\ layout.front \in Nat /\ HeaderEnd = SlotAt + layout.front /\ HeaderEnd \in Nat
    BY <2>1, Offs
  <2> HIDE DEF n
  <2> QED BY <2>1, <2>2
<1>4. /\ IsSeq(o) /\ Len(o) = n + Len(c)
      /\ \A i \in 1 .. n : o[i] = output[i]
      /\ \A i \in n + 1 .. n + Len(c) : o[i] = c[i - n]
  BY <1>2, <1>3, ConcatIs
<1>5. output' = o
  BY DEF c, t
<1> HIDE DEF o, n
<1>6. /\ IsSeq(output') /\ Len(output') = n + 2
      /\ output'[n + 1] = x /\ output'[n + 2] = y
      /\ \A i \in 1 .. n : output'[i] = output[i]
  <2>1. Len(o) = n + 2 /\ \A i \in n + 1 .. n + 2 : o[i] = c[i - n]
    BY <1>2, <1>4
  <2>2. o[n + 1] = x /\ o[n + 2] = y
    BY <1>2, <1>3, <2>1
  <2> QED BY <1>4, <1>5, <2>1, <2>2
<1>7. entry = None
  BY DEF WriterInv, CuesHold
<1>8. BodyEnd = n /\ BodyEnd' = Len(output')
  BY <1>7 DEF BodyEnd, n
<1>9. HeaderHolds'
  <2>1. \A i \in 1 .. SlotAt : output'[i] = output[i]
    BY <1>3, <1>6
  <2>2. Len(output') >= Len(output)
    BY <1>3, <1>6 DEF n
  <2> QED BY <2>1, <2>2, HeaderStays
<1>10. SlotHolds'
  <2> SUFFICES ASSUME NEW i \in 1 .. layout.front PROVE output'[SlotAt + i] = SlotNow(i)'
    BY SameLayout DEF SlotHolds
  <2>1. output[SlotAt + i] = SlotNow(i)
    BY DEF WriterInv, SlotHolds
  <2>2. SlotNow(i) = VoidOf(layout.front)[i]
    BY <1>7 DEF SlotNow, InSlot
  <2>3. SlotNow(i)' = VoidOf(layout.front)[i]
    BY <1>7 DEF SlotNow, InSlot, VoidOf
  <2>4. output'[SlotAt + i] = output[SlotAt + i]
    BY <1>3, <1>6
  <2> QED BY <2>1, <2>2, <2>3, <2>4
<1> QED BY <1>6, <1>7, <1>8, <1>9, <1>10 DEF n

\* The cues lead where they led.
LEMMA CueStays ==
  ASSUME WriterInv, step = "packets", UNCHANGED <<layout>>, BodyEnd' \in Nat, BodyEnd <= BodyEnd',
         \A i \in HeaderEnd + 1 .. BodyEnd : output'[i] = output[i], NEW i \in DOMAIN index
  PROVE  LET q == index[i] IN
         /\ \E p \in Range(Recording) : q.track = p.track
         /\ q.time \in Nat /\ q.off \in Nat /\ q.num \in Nat \ {0} /\ q.rel = 2 * q.num - 1
         /\ \E tc \in 0 .. q.time, o \in {q.off}, m \in {q.num} : HoldsBlocks(o, tc, m)'
<1> DEFINE q == index[i]
<1>0. layout \in Layouts /\ BodyEnd \in Nat
  BY Sizes
<1>1. /\ \E p \in Range(Recording) : q.track = p.track
      /\ q.time \in Nat /\ q.off \in Nat /\ q.num \in Nat \ {0} /\ q.rel = 2 * q.num - 1
      /\ \E tc \in 0 .. q.time : HoldsBlocks(q.off, tc, q.num)
  BY DEF WriterInv, IndexHolds
<1>2. PICK tc \in 0 .. q.time : HoldsBlocks(q.off, tc, q.num)
  BY <1>1
<1> HIDE DEF q, BodyEnd
<1>3. PICK o \in Nat, m \in Nat : o = q.off /\ m = q.num
  BY <1>1
<1>4. HoldsBlocks(o, tc, m)'
  BY <1>0, <1>2, <1>3, BlocksStay
<1> QED BY <1>1, <1>3, <1>4 DEF q

LEMMA NextPacketIs ==
  ASSUME WriterInv, left # <<>>
  PROVE  /\ Head(left) \in Range(Recording) /\ Tail(left) \in Seq(Range(Recording))
         /\ Len(Tail(left)) + 1 = Len(left) /\ Len(left) \in Nat
         /\ Head(left).pts \in Nat /\ Head(left).duration \in Nat
<1>1. left \in Seq(Range(Recording))
  BY DEF WriterInv, WriterShape
<1>2. /\ Head(left) \in Range(Recording) /\ Tail(left) \in Seq(Range(Recording))
      /\ Len(Tail(left)) + 1 = Len(left) /\ Len(left) \in Nat
  BY <1>1
<1> QED BY <1>2, WriterAssumption

LEMMA TwoMoreBody ==
  ASSUME WriterInv, step = "packets", step' = "packets", UNCHANGED <<layout, entry>>,
         NEW x, NEW y, output' = output \o (<<x>> \o <<y>>), BodyCell(x), BodyCell(y),
         x.id = "Cluster" \/ HeaderEnd < BodyEnd
  PROVE  BodyHolds'
<1>1. /\ IsSeq(output') /\ Len(output') = Len(output) + 2
      /\ BodyEnd = Len(output) /\ BodyEnd' = Len(output')
      /\ output'[Len(output) + 1] = x /\ output'[Len(output) + 2] = y
      /\ \A i \in 1 .. Len(output) : output'[i] = output[i]
  BY TwoMore
<1>2. /\ HeaderEnd \in Nat /\ HeaderEnd' = HeaderEnd /\ Len(output) \in Nat
  BY Sizes, Offs, SameLayout
<1>3. ASSUME NEW o \in HeaderEnd .. Len(output) + 1
      PROVE  BodyCell(output'[o + 1])
  <2>1. CASE o = Len(output)
    BY <1>1, <2>1
  <2>2. CASE o = Len(output) + 1
    <3>1. o + 1 = Len(output) + 2
      BY <1>2, <2>2
    <3> QED BY <1>1, <3>1
  <2>3. CASE o < Len(output)
    <3>1. o \in HeaderEnd .. BodyEnd - 1 /\ o + 1 \in 1 .. Len(output)
      BY <1>1, <1>2, <2>3
    <3>2. BodyCell(output[o + 1])
      BY <3>1 DEF WriterInv, BodyHolds
    <3> QED BY <1>1, <3>1, <3>2
  <2> QED BY <1>2, <2>1, <2>2, <2>3
<1>4. ASSUME NEW o \in HeaderEnd' .. BodyEnd' - 1
      PROVE  BodyCell(output'[o + 1])
  <2>1. o \in HeaderEnd .. Len(output) + 1
    BY <1>1, <1>2
  <2> QED BY <1>3, <2>1
<1>5. HeaderEnd < BodyEnd => output'[HeaderEnd + 1].id = "Cluster"
  <2>1. HeaderEnd < BodyEnd => output[HeaderEnd + 1].id = "Cluster" /\ HeaderEnd + 1 \in 1 .. Len(output)
    BY <1>1, <1>2 DEF WriterInv, BodyHolds
  <2> QED BY <1>1, <2>1
<1>6. HeaderEnd = BodyEnd => output'[HeaderEnd + 1].id = "Cluster"
  BY <1>1
<1>7. HeaderEnd <= BodyEnd
  BY Sizes
<1>8. output'[HeaderEnd' + 1].id = "Cluster"
  <2> HIDE DEF BodyEnd
  <2> QED BY <1>1, <1>2, <1>5, <1>6, <1>7
<1> HIDE DEF BodyEnd
<1> QED BY <1>4, <1>8 DEF BodyHolds

LEMMA StartClusterKeeps ==
  ASSUME WriterInv, StartCluster
  PROVE  WriterInv'
<1> DEFINE p == Head(left)
           x == [id |-> "Cluster", size |-> Unknown]
           y == [id |-> "Timecode", size |-> 0, v |-> p.pts]
           n == Len(output)
<1>1. /\ step = "packets" /\ step' = "packets" /\ left # <<>>
      /\ cluster.off # None => cluster.blocks > 0
      /\ output' = output \o (<<x>> \o <<y>>)
      /\ cluster' = [off |-> n, tc |-> p.pts, blocks |-> 0, seen |-> {}]
      /\ UNCHANGED <<layout, left, index, entry, maxEnd, stored>>
  BY DEF StartCluster, ClusterCells, Leaf
<1>2. p.pts \in Nat
  BY <1>1, NextPacketIs
<1>3. BodyCell(x) /\ BodyCell(y)
  BY <1>2 DEF BodyCell
<1> HIDE DEF p, x, y
<1>4. /\ IsSeq(output') /\ Len(output') = n + 2 /\ entry = None
      /\ BodyEnd = n /\ BodyEnd' = Len(output')
      /\ output'[n + 1] = x /\ output'[n + 2] = y
      /\ \A i \in 1 .. n : output'[i] = output[i]
      /\ HeaderHolds' /\ SlotHolds'
  BY <1>1, TwoMore
<1>5. n \in Nat /\ HeaderEnd \in Nat /\ HeaderEnd' = HeaderEnd /\ HeaderEnd <= n /\ Len(stored) \in Nat
  BY <1>1, <1>4, Sizes, Offs, SameLayout
<1>6. BodyHolds'
  <2>1. x.id = "Cluster"
    BY DEF x
  <2> QED BY <1>1, <1>3, <2>1, TwoMoreBody
<1>7. ClusterHolds'
  <2>1. cluster'.off = n /\ cluster'.tc = p.pts /\ cluster'.blocks = 0
    BY <1>1
  <2>2. /\ HeaderEnd' <= n /\ n + 2 + 2 * 0 <= BodyEnd'
        /\ output'[n + 1] = [id |-> "Cluster", size |-> Unknown]
        /\ output'[n + 2] = [id |-> "Timecode", size |-> 0, v |-> p.pts]
        /\ \A j \in 1 .. 0 : output'[n + 2 * j + 1].id = "SimpleBlock" /\ output'[n + 2 * j + 1].size = 1
    BY <1>4, <1>5 DEF x, y
  <2>3. n + 2 + 2 * 0 = BodyEnd'
    BY <1>4, <1>5
  <2> QED BY <1>1, <2>1, <2>2, <2>3 DEF ClusterHolds, HoldsBlocks
<1>8. IndexHolds'
  <2>1. BodyEnd' \in Nat /\ BodyEnd <= BodyEnd' /\ \A i \in HeaderEnd + 1 .. BodyEnd : output'[i] = output[i]
    BY <1>4, <1>5
  <2> SUFFICES ASSUME NEW i \in DOMAIN index PROVE
        LET q == index[i] IN
        /\ \E r \in Range(Recording) : q.track = r.track
        /\ q.time \in Nat /\ q.off \in Nat /\ q.num \in Nat \ {0} /\ q.rel = 2 * q.num - 1
        /\ \E tc \in 0 .. q.time : HoldsBlocks(q.off, tc, q.num)'
    BY <1>1 DEF IndexHolds, HoldsBlocks
  <2> DEFINE q == index[i]
  <2>2. /\ \E r \in Range(Recording) : q.track = r.track
        /\ q.time \in Nat /\ q.off \in Nat /\ q.num \in Nat \ {0} /\ q.rel = 2 * q.num - 1
        /\ \E tc \in 0 .. q.time, o \in {q.off}, m \in {q.num} : HoldsBlocks(o, tc, m)'
    BY <1>1, <2>1, CueStays
  <2>3. q' = q
    BY <1>1
  <2> HIDE DEF q
  <2>4. \E tc \in 0 .. q.time : HoldsBlocks(q.off, tc, q.num)'
    BY <2>2, <2>3 DEF HoldsBlocks
  <2> QED BY <2>2, <2>4 DEF q
<1>9. OutputIsShort'
  <2>1. BodyEnd <= HeaderEnd + 4 * Len(stored)
    <3>1. ~(cluster.off # None /\ cluster.blocks = 0)
      BY <1>1
    <3> QED BY <1>1, <1>4, <1>5, <3>1 DEF WriterInv, OutputIsShort
  <2>2. cluster'.off # None /\ cluster'.blocks = 0
    BY <1>1, <1>5 DEF None
  <2> QED BY <1>1, <1>4, <1>5, <2>1, <2>2 DEF OutputIsShort
<1>10. CuesHold'
  BY <1>1, <1>4 DEF CuesHold, WriterInv
<1>11. WriterShape'
  BY <1>1, <1>2, <1>4, <1>5 DEF WriterInv, WriterShape, Steps
<1> QED BY <1>4, <1>6, <1>7, <1>8, <1>9, <1>10, <1>11 DEF WriterInv

LEMMA WriteBlockKeeps ==
  ASSUME WriterInv, WriteBlock
  PROVE  WriterInv'
<1> DEFINE p == Head(left)
           x == [id |-> "SimpleBlock", size |-> 1, track |-> p.track, off |-> p.pts - cluster.tc,
                 key |-> p.indexable, frames |-> 1, defect |-> "None"]
           y == NoElement
           n == Len(output)
           cued == p.indexable /\ p.track \notin cluster.seen
           off == cluster.off
           tc == cluster.tc
           b == cluster.blocks
           new == [stream |-> p.stream, at |-> n, frame |-> 1, pts |-> p.pts, duration |-> None, key |-> TRUE]
           cue == [track |-> p.track, time |-> p.pts, off |-> off, rel |-> n - (off + 1), num |-> b + 1]
<1>1. /\ step = "packets" /\ step' = "packets" /\ left # <<>> /\ off # None /\ p.pts >= tc
      /\ output' = output \o (<<x>> \o <<y>>)
      /\ index' = IF cued THEN Append(index, cue) ELSE index
      /\ cluster' = [cluster EXCEPT !.blocks = @ + 1, !.seen = IF cued THEN @ \cup {p.track} ELSE @]
      /\ maxEnd' = Max({maxEnd, p.pts + p.duration})
      /\ stored' = Append(stored, new) /\ left' = Tail(left)
      /\ UNCHANGED <<layout, entry>>
  BY DEF WriteBlock, BlockCells, Bytes, CueFor
<1>2. /\ p.pts \in Nat /\ p.duration \in Nat /\ p \in Range(Recording)
      /\ Tail(left) \in Seq(Range(Recording)) /\ Len(Tail(left)) + 1 = Len(left) /\ Len(left) \in Nat
  BY <1>1, NextPacketIs
<1>3. BodyCell(x) /\ BodyCell(y)
  BY DEF BodyCell
<1>x. x.id = "SimpleBlock" /\ x.size = 1
  OBVIOUS
<1>c. /\ off \in Nat /\ tc \in Nat /\ b \in Nat
      /\ HoldsBlocks(off, tc, b) /\ off + 2 + 2 * b = BodyEnd
  BY <1>1 DEF WriterInv, WriterShape, ClusterHolds
<1>d. cluster'.off = off /\ cluster'.tc = tc /\ cluster'.blocks = b + 1
  BY <1>1 DEF WriterInv, WriterShape, StartCluster
<1>e. /\ step = "packets" /\ p.pts >= tc /\ maxEnd' = Max({maxEnd, p.pts + p.duration})
      /\ stored' = Append(stored, new)
  BY <1>1
<1> HIDE DEF p, x, y
<1>4. /\ IsSeq(output') /\ Len(output') = n + 2 /\ entry = None
      /\ BodyEnd = n /\ BodyEnd' = Len(output')
      /\ output'[n + 1] = x /\ output'[n + 2] = y
      /\ \A i \in 1 .. n : output'[i] = output[i]
      /\ HeaderHolds' /\ SlotHolds'
  BY <1>1, TwoMore
<1>5. /\ n \in Nat /\ HeaderEnd \in Nat /\ HeaderEnd' = HeaderEnd /\ HeaderEnd <= n /\ Len(stored) \in Nat
      /\ BodyEnd' \in Nat /\ BodyEnd <= BodyEnd' /\ \A i \in HeaderEnd + 1 .. BodyEnd : output'[i] = output[i]
      /\ layout \in Layouts
  <2>1. n \in Nat /\ HeaderEnd \in Nat /\ HeaderEnd' = HeaderEnd /\ HeaderEnd <= n /\ Len(stored) \in Nat
        /\ layout \in Layouts
    BY <1>1, <1>4, Sizes, Offs, SameLayout
  <2> QED BY <1>4, <2>1
<1>6. BodyHolds'
  <2>1. HeaderEnd < BodyEnd
    BY <1>c, <1>4, <1>5 DEF HoldsBlocks
  <2> QED BY <1>1, <1>3, <2>1, TwoMoreBody
<1> HIDE DEF off, tc, b, n, cued
<1>7. \E o \in {off}, t \in {tc}, m \in {b + 1} : HoldsBlocks(o, t, m)'
  <2> PICK o \in Nat, t \in Nat, m \in Nat : o = off /\ t = tc /\ m = b
    BY <1>c
  <2>0. HoldsBlocks(o, t, m) /\ layout' = layout
    BY <1>1, <1>c
  <2>1. HoldsBlocks(o, t, m)'
    <3>1. BodyEnd \in Nat
      BY <1>4, <1>5
    <3> HIDE DEF BodyEnd
    <3> QED BY <1>5, <2>0, <3>1, BlocksStay
  <2>2. /\ output'[o + 1] = [id |-> "Cluster", size |-> Unknown]
        /\ output'[o + 2] = [id |-> "Timecode", size |-> 0, v |-> t]
        /\ \A j \in 1 .. m : output'[o + 2 * j + 1].id = "SimpleBlock" /\ output'[o + 2 * j + 1].size = 1
        /\ HeaderEnd' <= o
    BY <2>1 DEF HoldsBlocks
  <2>3. o + 2 * (m + 1) + 1 = n + 1
    BY <1>c, <1>4
  <2>4. \A j \in 1 .. m + 1 : output'[o + 2 * j + 1].id = "SimpleBlock" /\ output'[o + 2 * j + 1].size = 1
    <3> TAKE j \in 1 .. m + 1
    <3>1. CASE j = m + 1
      <4>1. o + 2 * j + 1 = n + 1
        BY <2>3, <3>1
      <4> QED BY <1>4, <1>x, <4>1 DEF x
    <3>2. CASE j # m + 1
      <4>1. j \in 1 .. m
        BY <3>2
      <4> QED BY <2>2, <4>1
    <3> QED BY <3>1, <3>2
  <2>5. o + 2 + 2 * (m + 1) <= BodyEnd'
    BY <1>c, <1>4, <1>5
  <2>6. HoldsBlocks(o, t, m + 1)'
    BY <2>2, <2>4, <2>5 DEF HoldsBlocks
  <2> QED BY <2>6
<1>8. ClusterHolds'
  <2>1. HoldsBlocks(cluster.off, cluster.tc, cluster.blocks)'
    BY <1>7, <1>d DEF HoldsBlocks
  <2>2. off + 2 + 2 * (b + 1) = BodyEnd' /\ b + 1 # 0
    BY <1>c, <1>4, <1>5
  <2> QED BY <1>d, <2>1, <2>2 DEF ClusterHolds
<1>9. IndexHolds'
  <2>0. index \in Seq(Range(index)) /\ Len(index) \in Nat
    BY DEF WriterInv, WriterShape
  <2> DEFINE Leads(q) ==
        /\ \E r \in Range(Recording) : q.track = r.track
        /\ q.time \in Nat /\ q.off \in Nat /\ q.num \in Nat \ {0} /\ q.rel = 2 * q.num - 1
        /\ \E t \in 0 .. q.time, o \in {q.off}, m \in {q.num} : HoldsBlocks(o, t, m)'
  <2>1. \A i \in DOMAIN index : Leads(index[i])
    BY <1>1, <1>5, CueStays
  <2>2. Leads(cue)
    <3>1. cue.time = p.pts /\ cue.off = off /\ cue.num = b + 1 /\ cue.rel = n - (off + 1) /\ cue.track = p.track
      OBVIOUS
    <3>2. n - (off + 1) = 2 * (b + 1) - 1
      BY <1>c, <1>4, <1>5
    <3>3. tc \in 0 .. p.pts /\ b + 1 \in Nat \ {0}
      BY <1>e, <1>2, <1>c
    <3> HIDE DEF cue
    <3>4. \E t \in 0 .. p.pts, o \in {off}, m \in {b + 1} : HoldsBlocks(o, t, m)'
      BY <1>7, <3>3
    <3> QED BY <1>2, <1>c, <3>1, <3>2, <3>3, <3>4
  <2> HIDE DEF cue, Leads
  <2>3. \A i \in DOMAIN index' : Leads(index'[i])
    <3>1. CASE cued
      BY <1>1, <2>0, <2>1, <2>2, <3>1
    <3>2. CASE ~cued
      BY <1>1, <2>1, <3>2
    <3> QED BY <3>1, <3>2
  <2>4. ASSUME NEW i \in DOMAIN index' PROVE
        LET q == index'[i] IN
        /\ \E r \in Range(Recording) : q.track = r.track
        /\ q.time \in Nat /\ q.off \in Nat /\ q.num \in Nat \ {0} /\ q.rel = 2 * q.num - 1
        /\ \E t \in 0 .. q.time : (HoldsBlocks(index[i].off, t, index[i].num))'
    <3> DEFINE q == index'[i]
    <3>1. Leads(q)
      BY <2>3
    <3>2. /\ \E r \in Range(Recording) : q.track = r.track
          /\ q.time \in Nat /\ q.off \in Nat /\ q.num \in Nat \ {0} /\ q.rel = 2 * q.num - 1
          /\ \E t \in 0 .. q.time, o \in {q.off}, m \in {q.num} : HoldsBlocks(o, t, m)'
      BY <3>1 DEF Leads
    <3>3. PICK t \in 0 .. q.time, o \in {q.off}, m \in {q.num} : HoldsBlocks(o, t, m)'
      BY <3>2
    <3>4. (HoldsBlocks(index[i].off, t, index[i].num))'
      BY <3>3 DEF HoldsBlocks
    <3> QED BY <3>2, <3>4
  <2> QED BY <2>4 DEF IndexHolds
<1>10. /\ stored \in Seq(Range(stored)) /\ index \in Seq(Range(index)) /\ Len(index) <= Len(stored)
       /\ maxEnd \in Nat \cup {None} /\ Len(left) + Len(stored) = Len(Recording)
       /\ Len(stored) \in Nat /\ Len(index) \in Nat
  BY DEF WriterInv, WriterShape
<1>11. /\ stored' \in Seq(Range(stored')) /\ Len(stored') = Len(stored) + 1 /\ stored' # <<>>
  <2> HIDE DEF new
  <2>1. stored' \in Seq(Range(stored) \cup {new}) /\ Len(stored') = Len(stored) + 1
    BY <1>e, <1>10
  <2>2. stored' \in Seq(Range(stored'))
    BY <2>1 DEF Range
  <2>3. stored' # <<>>
    BY <1>10, <2>1
  <2> QED BY <2>1, <2>2, <2>3
<1>12. index' \in Seq(Range(index')) /\ Len(index') <= Len(stored) + 1
  <2>1. CASE cued
    <3> HIDE DEF cue
    <3> DEFINE a == Append(index, cue)
    <3>1. a \in Seq(Range(index) \cup {cue}) /\ Len(a) = Len(index) + 1
      BY <1>10
    <3> HIDE DEF a
    <3>2. a \in Seq(Range(a))
      BY <3>1 DEF Range
    <3>3. index' = a
      BY <1>1, <2>1 DEF a
    <3> QED BY <1>10, <3>1, <3>2, <3>3
  <2>2. CASE ~cued
    BY <1>1, <1>10, <2>2
  <2> QED BY <2>1, <2>2
<1>13. OutputIsShort'
  <2>1. BodyEnd <= HeaderEnd + 4 * Len(stored) + 2
    BY <1>4, <1>5, <1>e DEF WriterInv, OutputIsShort
  <2>2. ~(cluster'.off # None /\ cluster'.blocks = 0)
    BY <1>c, <1>d
  <2> QED BY <1>4, <1>5, <1>11, <2>1, <2>2 DEF OutputIsShort
<1>14. CuesHold'
  BY <1>1, <1>4 DEF CuesHold, WriterInv
<1>15. maxEnd' \in Nat
  <2>1. p.pts + p.duration \in Nat /\ maxEnd \in Int
    BY <1>2, <1>10 DEF None
  <2> DEFINE d == p.pts + p.duration
  <2>2. maxEnd' = Max({maxEnd, d})
    BY <1>e
  <2> HIDE DEF d
  <2>3. maxEnd' = IF maxEnd >= d THEN maxEnd ELSE d
    BY <2>1, <2>2, MaxOfTwo DEF d
  <2>4. d \in Nat
    BY <2>1 DEF d
  <2> QED BY <1>10, <2>1, <2>3, <2>4 DEF None
<1>16. WriterShape'
  <2>1. maxEnd' # None
    BY <1>15 DEF None
  <2>2. Len(left') + Len(stored') = Len(Recording)
    BY <1>1, <1>2, <1>10, <1>11
  <2>3. cluster'.off \in Nat \cup {None} /\ cluster'.tc \in Nat /\ cluster'.blocks \in Nat
    BY <1>c, <1>d
  <2> QED BY <1>1, <1>2, <1>4, <1>5, <1>11, <1>12, <1>15, <2>1, <2>2, <2>3 DEF WriterShape, Steps
<1> QED BY <1>4, <1>6, <1>8, <1>9, <1>13, <1>14, <1>16 DEF WriterInv

LEMMA WriteHeaderKeeps ==
  ASSUME WriterInv, WriteHeader
  PROVE  WriterInv'
<1>1. /\ step = "header" /\ step' = "packets" /\ output' = HeaderCells
      /\ UNCHANGED <<layout, left, cluster, index, entry, maxEnd, stored>>
  BY DEF WriteHeader
<1>2. /\ layout \in Layouts /\ stored = <<>> /\ index = <<>> /\ cluster.off = None /\ entry = None
      /\ Len(stored) = 0
  BY <1>1 DEF WriterInv, WriterShape, CuesHold
<1>3. /\ HeaderEnd' = HeaderEnd /\ SlotAt' = SlotAt /\ HeaderCells' = HeaderCells
  BY <1>1, SameLayout
<1>4. /\ IsSeq(HeaderCells) /\ HeaderEnd = SlotAt + layout.front /\ HeaderEnd \in Nat /\ SlotAt \in Nat
      /\ \A i \in 1 .. layout.front : HeaderCells[SlotAt + i] = VoidOf(layout.front)[i]
      /\ HeaderEnd = Len(HeaderCells) /\ layout.front \in Nat
  BY <1>2, HeaderCellsAre, Offs DEF HeaderEnd
<1>5. BodyEnd' = HeaderEnd
  BY <1>1, <1>2, <1>4 DEF BodyEnd
<1>6. HeaderHolds'
  <2>1. ASSUME NEW o \in 0 .. SlotAt - 1 PROVE output'[o + 1] = HeaderNow(o)'
    <3>1. ~SeekPatched' /\ ~DurationPatched' /\ ~CrcPatched'
      BY <1>1 DEF SeekPatched, DurationPatched, CrcPatched
    <3>2. HeaderNow(o)' = HeaderCells[o + 1]
      BY <1>3, <3>1 DEF HeaderNow
    <3> QED BY <1>1, <3>2
  <2> QED BY <1>1, <1>3, <1>4, <2>1 DEF HeaderHolds
<1>7. SlotHolds'
  <2>1. ASSUME NEW i \in 1 .. layout.front PROVE output'[SlotAt + i] = SlotNow(i)'
    BY <1>1, <1>2, <1>4 DEF SlotNow, InSlot, VoidOf
  <2> QED BY <1>1, <1>3, <2>1 DEF SlotHolds
<1>8. BodyHolds'
  <2> HIDE DEF BodyEnd
  <2> QED BY <1>3, <1>4, <1>5 DEF BodyHolds
<1>9. ClusterHolds' /\ IndexHolds'
  BY <1>1, <1>2 DEF ClusterHolds, IndexHolds
<1>10. CuesHold' 
  BY <1>1, <1>2 DEF CuesHold
<1>11. OutputIsShort'
  BY <1>1, <1>2, <1>3, <1>4, <1>5 DEF OutputIsShort
<1>12. WriterShape'
  BY <1>1, <1>2, <1>4 DEF WriterInv, WriterShape, Steps
<1> QED BY <1>6, <1>7, <1>8, <1>9, <1>10, <1>11, <1>12 DEF WriterInv

LEMMA WriteKeeps ==
  ASSUME WriterInv, Write
  PROVE  WriterInv'
<1>1. CASE WriteHeader
  BY <1>1, WriteHeaderKeeps
<1>2. CASE StartCluster
  BY <1>2, StartClusterKeeps
<1>3. CASE WriteBlock
  BY <1>3, WriteBlockKeeps
<1>4. CASE StartTrailer
  BY <1>4, StartTrailerKeeps
<1>5. CASE WriteCues
  BY <1>5, WriteCuesKeeps
<1>6. CASE VoidRest
  BY <1>6, VoidRestKeeps
<1>7. CASE PatchSeekEntry
  BY <1>7, PatchSeekKeeps
<1>8. CASE PatchDuration
  BY <1>8, PatchDurationKeeps
<1>9. CASE PatchCrc
  BY <1>9, PatchCrcKeeps
<1> QED BY <1>1, <1>2, <1>3, <1>4, <1>5, <1>6, <1>7, <1>8, <1>9 DEF Write

LEMMA WriterRests ==
  ASSUME WriterInv, UNCHANGED writer
  PROVE  WriterInv'
<1>1. UNCHANGED <<output, layout, step, left, cluster, index, entry, maxEnd, stored>>
  BY DEF writer
<1>2. /\ HeaderEnd' = HeaderEnd /\ SlotAt' = SlotAt /\ HeaderCells' = HeaderCells
      /\ CuesElement' = CuesElement /\ FitsFront' = FitsFront /\ RestOfSlot' = RestOfSlot
      /\ DurationAt' = DurationAt /\ CrcAt' = CrcAt /\ Timed' = Timed
      /\ PatchedInfoBody' = PatchedInfoBody
  BY <1>1, SameLayout, SameIndex DEF Timed, PatchedInfoBody
<1>3. BodyEnd' = BodyEnd /\ InSlot' = InSlot
  BY <1>1, <1>2 DEF BodyEnd, InSlot
<1>4. HeaderHolds'
  <2>1. \A o : HeaderNow(o)' = HeaderNow(o)
    BY <1>1, <1>2 DEF HeaderNow, SeekPatched, DurationPatched, CrcPatched
  <2> QED BY <1>1, <1>2, <2>1 DEF WriterInv, HeaderHolds
<1>5. SlotHolds'
  <2>1. \A i : SlotNow(i)' = SlotNow(i)
    BY <1>1, <1>2, <1>3 DEF SlotNow, VoidOf
  <2> QED BY <1>1, <1>2, <2>1 DEF WriterInv, SlotHolds
<1>6. BodyHolds'
  BY <1>1, <1>2, <1>3 DEF WriterInv, BodyHolds, BodyCell
<1>7. ClusterHolds'
  BY <1>1, <1>2, <1>3 DEF WriterInv, ClusterHolds, HoldsBlocks
<1>8. IndexHolds'
  BY <1>1, <1>2, <1>3 DEF WriterInv, IndexHolds, HoldsBlocks
<1>9. CuesHold'
  BY <1>1, <1>2, <1>3 DEF WriterInv, CuesHold
<1>10. OutputIsShort' /\ WriterShape'
  BY <1>1, <1>2, <1>3 DEF WriterInv, OutputIsShort, WriterShape
<1> QED BY <1>4, <1>5, <1>6, <1>7, <1>8, <1>9, <1>10 DEF WriterInv

LEMMA WriterStarts ==
  ASSUME NEW configurations, configurations \subseteq Layouts, Start(configurations)
  PROVE  WriterInv
<1>1. /\ layout \in Layouts /\ output = <<>> /\ step = "header" /\ left = Recording
      /\ cluster = [off |-> None, tc |-> 0, blocks |-> 0, seen |-> {}]
      /\ index = <<>> /\ entry = None /\ maxEnd = None /\ stored = <<>>
  BY DEF Start
<1>2. WriterShape
  <2>1. IsSeq(output)
    BY <1>1, EmptyIs
  <2>2. Len(stored) = 0 /\ Len(index) = 0 /\ Len(left) \in Nat /\ left \in Seq(Range(Recording))
        /\ stored \in Seq(Range(stored)) /\ index \in Seq(Range(index))
    BY <1>1, WriterAssumption
  <2> QED BY <1>1, <2>1, <2>2 DEF WriterShape, Steps
<1>3. IndexHolds
  BY <1>1 DEF IndexHolds
<1> QED BY <1>1, <1>2, <1>3 DEF WriterInv, HeaderHolds, SlotHolds, BodyHolds, ClusterHolds, CuesHold, OutputIsShort

-----------------------------------------------------------------------------
(* What is left of a write.                                                *)

\* k cells of the write w, never all but of an empty one, and with m = k + 1
\* the beginning of another header.
Torn(c, w, k, m) ==
  /\ k \in Nat /\ m \in Nat /\ (m = k \/ m = k + 1) /\ m <= Len(w.cells)
  /\ k = 0 \/ k < Len(w.cells)
  /\ m = k + 1 => Parses(w.cells[k + 1])
  /\ IsSeq(c) /\ Len(c) = IF Len(output) >= w.at + m THEN Len(output) ELSE w.at + m
  /\ \A i \in 1 .. Len(c) :
       c[i] = IF i > w.at /\ i <= w.at + m
              THEN IF i <= w.at + k THEN w.cells[i - w.at] ELSE NoElement
              ELSE output[i]

LEMMA PrefixIs ==
  ASSUME NEW s, IsSeq(s), NEW k \in 0 .. Len(s)
  PROVE  IsSeq(SubSeq(s, 1, k)) /\ Len(SubSeq(s, 1, k)) = k /\ \A i \in 1 .. k : SubSeq(s, 1, k)[i] = s[i]
<1> DEFINE S == {s[i] : i \in 1 .. Len(s)}
           p == SubSeq(s, 1, k)
<1>1. s \in Seq(S) /\ Len(s) \in Nat
  BY DEF IsSeq
<1> HIDE DEF S
<1>2. p \in Seq(S) /\ Len(p) = k /\ \A i \in 1 .. k : p[i] = s[i]
  BY <1>1
<1> HIDE DEF p
<1>3. IsSeq(p)
  BY <1>2 DEF IsSeq
<1> QED BY <1>2, <1>3 DEF p

LEMMA TornIs ==
  ASSUME IsSeq(output), NEW c \in Remains,
         \A w \in InProgress : w.at \in Nat /\ IsSeq(w.cells)
  PROVE  \E w \in InProgress : \E k, m \in Nat : Torn(c, w, k, m)
<1> DEFINE Ends(w, k) == IF k < Len(w.cells) /\ Parses(w.cells[k + 1]) THEN {<<>>, Bytes} ELSE {<<>>}
<1> DEFINE After(w) == UNION {{Overwritten(w.at, SubSeq(w.cells, 1, k) \o torn) : torn \in Ends(w, k)}
                              : k \in 0 .. Max({0, Len(w.cells) - 1})}
<1>1. Remains = UNION {After(w) : w \in InProgress}
  BY DEF Remains
<1>2. PICK w \in InProgress : \E k \in 0 .. Max({0, Len(w.cells) - 1}) : \E torn \in Ends(w, k) :
        c = Overwritten(w.at, SubSeq(w.cells, 1, k) \o torn)
  <2>1. PICK w \in InProgress : c \in After(w)
    <3> HIDE DEF After
    <3> QED BY <1>1
  <2>2. \E k \in 0 .. Max({0, Len(w.cells) - 1}) :
          c \in {Overwritten(w.at, SubSeq(w.cells, 1, k) \o torn) : torn \in Ends(w, k)}
    BY <2>1
  <2> QED BY <2>2
<1>3. PICK k \in 0 .. Max({0, Len(w.cells) - 1}) : \E torn \in Ends(w, k) :
        c = Overwritten(w.at, SubSeq(w.cells, 1, k) \o torn)
  BY <1>2
<1>4. PICK torn \in Ends(w, k) : c = Overwritten(w.at, SubSeq(w.cells, 1, k) \o torn)
  BY <1>3
<1> DEFINE n == Len(w.cells)
<1>5. w.at \in Nat /\ IsSeq(w.cells) /\ n \in Nat
  BY DEF IsSeq
<1>6. k \in Nat /\ k <= n /\ (k = 0 \/ k < n)
  <2> HIDE DEF n
  <2>1. Max({0, n - 1}) = IF 0 >= n - 1 THEN 0 ELSE n - 1
    BY <1>5, MaxOfTwo
  <2> QED BY <1>5, <2>1 DEF n
<1>7. torn = <<>> \/ (torn = <<NoElement>> /\ k < n /\ Parses(w.cells[k + 1]))
  BY DEF Bytes
<1> DEFINE p == SubSeq(w.cells, 1, k)
           new == p \o torn
<1>8. IsSeq(p) /\ Len(p) = k /\ \A i \in 1 .. k : p[i] = w.cells[i]
  BY <1>5, <1>6, PrefixIs
<1>9. c = Overwritten(w.at, new)
  BY <1>4
<1> HIDE DEF p, Ends
<1>10. PICK m \in Nat : /\ m = k \/ m = k + 1
                        /\ m = k + 1 => Parses(w.cells[k + 1])
                        /\ m <= n /\ IsSeq(new) /\ Len(new) = m
                        /\ \A i \in 1 .. k : new[i] = w.cells[i]
                        /\ \A i \in k + 1 .. m : new[i] = NoElement
  <2>1. CASE torn = <<>>
    <3>0. IsSeq(torn) /\ Len(torn) = 0
      BY <2>1, EmptyIs
    <3>1. /\ IsSeq(new) /\ Len(new) = Len(p) + Len(torn)
          /\ \A i \in 1 .. Len(p) : new[i] = p[i]
      <4> HIDE <1>7
      <4> QED BY <1>8, <3>0, ConcatIs
    <3> HIDE DEF new
    <3> QED BY <1>6, <1>8, <3>0, <3>1
  <2>2. CASE torn = <<NoElement>> /\ k < n /\ Parses(w.cells[k + 1])
    <3> DEFINE a == NoElement
    <3>1. /\ IsSeq(p \o <<a>>) /\ Len(p \o <<a>>) = Len(p) + 1
          /\ \A i \in 1 .. Len(p) : (p \o <<a>>)[i] = p[i]
          /\ (p \o <<a>>)[Len(p) + 1] = a
      <4> IsSeq(p)
        BY <1>8
      <4> HIDE DEF a
      <4> QED BY AppendedIs
    <3>2. new = p \o <<a>>
      BY <2>2
    <3> HIDE DEF new, a
    <3>3. /\ IsSeq(new) /\ Len(new) = k + 1
          /\ \A i \in 1 .. k : new[i] = p[i]
          /\ new[k + 1] = a
      BY <1>8, <3>1, <3>2
    <3> QED BY <1>5, <1>6, <1>8, <2>2, <3>3 DEF a
  <2> QED BY <1>7, <2>1, <2>2
<1> HIDE DEF new
<1> DEFINE o == Overwritten(w.at, new)
<1>11. /\ IsSeq(o) /\ Len(o) = IF Len(output) >= w.at + m THEN Len(output) ELSE w.at + m
       /\ \A i \in 1 .. Len(o) : o[i] = IF i > w.at /\ i <= w.at + m THEN new[i - w.at] ELSE output[i]
  BY <1>5, <1>10, OverwrittenIs
<1>12. c = o
  BY <1>9
<1> HIDE DEF o
<1>13. ASSUME NEW i \in 1 .. Len(c)
       PROVE  c[i] = IF i > w.at /\ i <= w.at + m
                     THEN IF i <= w.at + k THEN w.cells[i - w.at] ELSE NoElement
                     ELSE output[i]
  <2>1. CASE i > w.at /\ i <= w.at + m
    <3>1. c[i] = new[i - w.at] /\ i - w.at \in 1 .. m
      BY <1>5, <1>11, <1>12, <2>1
    <3> QED BY <1>5, <1>10, <2>1, <3>1
  <2>2. CASE ~(i > w.at /\ i <= w.at + m)
    BY <1>11, <1>12, <2>2
  <2> QED BY <2>1, <2>2
<1>14. Torn(c, w, k, m)
  BY <1>6, <1>10, <1>11, <1>12, <1>13 DEF Torn
<1> QED BY <1>6, <1>14

\* The write in progress.
LEMMA WriteIs ==
  ASSUME WriterInv, NEW w \in InProgress
  PROVE  /\ w.at \in Nat /\ IsSeq(w.cells) /\ Len(w.cells) \in Nat /\ w.at <= Len(output)
         /\ step = "header" => w.at = 0 /\ w.cells = HeaderCells
         /\ step = "packets" =>
              /\ w.at = Len(output)
              /\ w.cells # <<>> =>
                   /\ left # <<>> /\ Len(w.cells) = 2 /\ BodyCell(w.cells[1]) /\ BodyCell(w.cells[2])
                   /\ w.cells[1].id = "SimpleBlock" => w.cells[2] = NoElement
         /\ step = "cues" => w.at = CuesAt /\ w.cells = CuesElement
         /\ step = "rest" => w.at = SlotAt + Len(CuesElement) /\ w.cells = VoidOf(RestOfSlot)
         /\ Sealed => w.at = Len(output) /\ w.cells = <<>>
<1>0. /\ layout \in Layouts /\ Len(output) \in Nat /\ Len(CuesElement) \in Nat /\ IsSeq(CuesElement)
      /\ step # "header" => HeaderEnd <= Len(output)
      /\ step \in Steps
  <2>1. WriterShape
    BY DEF WriterInv
  <2>2. layout \in Layouts /\ Len(output) \in Nat /\ Len(CuesElement) \in Nat /\ IsSeq(CuesElement)
        /\ (step # "header" => HeaderEnd <= BodyEnd /\ BodyEnd <= Len(output)) /\ BodyEnd \in Nat
    BY Sizes
  <2>3. HeaderEnd \in Nat
    BY <2>2, Offs
  <2> HIDE DEF WriterInv, BodyEnd
  <2> QED BY <2>1, <2>2, <2>3 DEF WriterShape
<1>1. SlotAt \in Nat /\ layout.front \in Nat /\ HeaderEnd = SlotAt + layout.front /\ HeaderEnd \in Nat
  BY <1>0, Offs
<1>2. CASE step = "header"
  <2>1. w = [at |-> 0, cells |-> HeaderCells]
    BY <1>2 DEF InProgress
  <2>2. IsSeq(HeaderCells)
    BY <1>0, HeaderCellsAre
  <2> QED BY <1>0, <1>2, <2>1, <2>2 DEF IsSeq, Sealed
<1>3. CASE step = "packets" /\ left # <<>>
  <2> DEFINE p == Head(left)
             x == [id |-> "Cluster", size |-> Unknown]
             y == [id |-> "Timecode", size |-> 0, v |-> p.pts]
             b == [id |-> "SimpleBlock", size |-> 1, track |-> p.track, off |-> p.pts - cluster.tc,
                   key |-> p.indexable, frames |-> 1, defect |-> "None"]
  <2>0. p.pts \in Nat
    BY <1>3, NextPacketIs
  <2>1. w \in {[at |-> Len(output), cells |-> <<x>> \o <<y>>], [at |-> Len(output), cells |-> <<b>> \o <<NoElement>>]}
    BY <1>3 DEF InProgress, ClusterCells, BlockCells, Leaf, Bytes
  <2>2. BodyCell(x) /\ BodyCell(y) /\ BodyCell(b) /\ BodyCell(NoElement)
    BY <2>0 DEF BodyCell
  <2>3. \E r, s : /\ w.at = Len(output) /\ w.cells = <<r>> \o <<s>> /\ BodyCell(r) /\ BodyCell(s)
                  /\ r.id = "SimpleBlock" => s = NoElement
    <3>1. CASE w = [at |-> Len(output), cells |-> <<x>> \o <<y>>]
      <4>1. w.at = Len(output) /\ w.cells = <<x>> \o <<y>> /\ x.id # "SimpleBlock"
        BY <3>1
      <4> HIDE DEF x, y
      <4> QED BY <2>2, <4>1
    <3>2. CASE w = [at |-> Len(output), cells |-> <<b>> \o <<NoElement>>]
      <4>1. w.at = Len(output) /\ w.cells = <<b>> \o <<NoElement>>
        BY <3>2
      <4> HIDE DEF b
      <4> QED BY <2>2, <4>1
    <3> HIDE DEF x, y, b
    <3> QED BY <2>1, <3>1, <3>2
  <2>4. PICK r, s : /\ w.at = Len(output) /\ w.cells = <<r>> \o <<s>> /\ BodyCell(r) /\ BodyCell(s)
                    /\ r.id = "SimpleBlock" => s = NoElement
    BY <2>3
  <2> HIDE DEF x, y, b
  <2> DEFINE t == <<s>>
             u == <<r>> \o t
  <2>5. IsSeq(t) /\ Len(t) = 1 /\ t[1] = s
    BY SingleIs
  <2>6. IsSeq(u) /\ Len(u) = 2 /\ u[1] = r /\ u[2] = s
    <3>1. IsSeq(t)
      BY <2>5
    <3> HIDE DEF t
    <3>2. IsSeq(u) /\ Len(u) = Len(t) + 1 /\ u[1] = r /\ \A i \in 2 .. Len(t) + 1 : u[i] = t[i - 1]
      BY <3>1, ConsIs
    <3> HIDE DEF u
    <3> QED BY <2>5, <3>2
  <2>7. w.cells = u
    BY <2>4
  <2>8. /\ IsSeq(w.cells) /\ Len(w.cells) = 2 /\ BodyCell(w.cells[1]) /\ BodyCell(w.cells[2])
        /\ w.cells[1].id = "SimpleBlock" => w.cells[2] = NoElement
        /\ w.at = Len(output)
    <3> HIDE DEF u
    <3> QED BY <2>4, <2>6, <2>7
  <2>9. step \notin {"header", "cues", "rest"} /\ ~Sealed /\ left # <<>>
    BY <1>3 DEF Sealed
  <2> HIDE DEF u
  <2> QED BY <1>0, <2>8, <2>9
<1>4. CASE step = "cues"
  <2>1. w = [at |-> CuesAt, cells |-> CuesElement]
    BY <1>4 DEF InProgress
  <2>2. CuesAt \in Nat /\ CuesAt <= Len(output)
    BY <1>0, <1>1, <1>4 DEF CuesAt
  <2> QED BY <1>0, <1>4, <2>1, <2>2 DEF Sealed
<1>5. CASE step = "rest"
  <2>1. w = [at |-> SlotAt + Len(CuesElement), cells |-> VoidOf(RestOfSlot)]
    BY <1>5 DEF InProgress
  <2>2. InSlot /\ RestOfSlot > 0
    BY <1>5 DEF WriterInv, CuesHold
  <2>3. RestOfSlot \in Nat \ {0} /\ Len(CuesElement) <= layout.front
    BY <1>0, <1>1, <2>2 DEF InSlot, FitsFront, RestOfSlot
  <2>4. IsSeq(VoidOf(RestOfSlot)) /\ Len(VoidOf(RestOfSlot)) \in Nat
    BY <2>3, VoidIs
  <2> QED BY <1>0, <1>1, <1>5, <2>1, <2>3, <2>4 DEF Sealed
<1>6. CASE Sealed \/ (step = "packets" /\ left = <<>>)
  <2>1. w = [at |-> Len(output), cells |-> <<>>]
    BY <1>6 DEF InProgress, Sealed
  <2>2. w.at = Len(output) /\ w.cells = <<>>
    BY <2>1
  <2> QED BY <1>0, <1>6, <2>2, EmptyIs DEF Sealed
<1> QED BY <1>0, <1>2, <1>3, <1>4, <1>5, <1>6 DEF Steps, Sealed

-----------------------------------------------------------------------------
(* The cells of the output.                                                *)

\* A legal cell, a master only where it may be.
CellIs(h, o) ==
  /\ h.size \in Nat \cup {Unknown}
  /\ h.id # "Block" /\ (h.id = "SimpleBlock" => h.frames \in Nat)
  /\ h.id = "Timecode" => h.v \in Int
  /\ h.id = "Duration" => DurationPatched
  /\ h.id \in MasterIds =>
       \/ h.id = "SeekHead" /\ o = 0 /\ ~layout.live
       \/ h.id = "Info" /\ o = InfoAt
       \/ h.id = "Tracks" /\ o = TracksAt
       \/ h.id = "Cues" /\ o = CuesPlace /\ step \notin {"header", "packets"}

LEMMA PlainCellIs ==
  ASSUME NEW o, NEW h, h.size \in Nat, h.id \in {"Item", "Void", "Crc", "Bad"}
  PROVE  CellIs(h, o)
BY DEF CellIs, MasterIds

LEMMA BodyCellIs ==
  ASSUME NEW o, NEW h, BodyCell(h)
  PROVE  CellIs(h, o)
BY DEF CellIs, MasterIds, BodyCell, NoElement

LEMMA HeaderCellIs ==
  ASSUME layout \in Layouts, NEW o \in 0 .. SlotAt - 1
  PROVE  CellIs(HeaderCells[o + 1], o) /\ CellIs(HeaderNow(o), o) /\ Parses(HeaderNow(o)) /\ HeaderNow(o).id # "Cues"
<1> DEFINE h == HeaderCells[o + 1]
<1>1. /\ Checks \in {0, 1} /\ InfoItems \in {1, 2} /\ (~layout.strict => Checks = 1)
      /\ (layout.finalize => InfoItems = 2) /\ (layout.strict => Checks = 0)
      /\ (~layout.finalize => InfoItems = 1)
      /\ layout.live \in BOOLEAN /\ layout.strict \in BOOLEAN /\ layout.finalize \in BOOLEAN
  BY LayoutIs DEF Checks, InfoItems
<1>2. InfoAt \in Nat /\ TracksAt = InfoAt + 1 + Checks + InfoItems /\ SlotAt = TracksAt + 2 + Checks
      /\ (~layout.live => InfoAt = 5) /\ (layout.live => InfoAt = 0)
  BY HeaderCellsAre DEF InfoAt, Offsets
<1>3. CellIs(h, o) /\ Parses(h) /\ h.id # "Cues"
  <2>1. CASE o < InfoAt
    <3>1. ~layout.live /\ o \in 0 .. 4
      BY <1>1, <1>2, <2>1
    <3>2. h = SeekHeadOf(TracksAt)[o + 1]
      <4>1. \A i \in 1 .. 5 : HeaderCells[i] = SeekHeadOf(TracksAt)[i]
        BY <3>1, HeaderCellsAre
      <4> QED BY <3>1, <4>1
    <3>3. \/ o = 0 /\ h = [id |-> "SeekHead", size |-> 4]
          \/ h = Patchable
          \/ \E v : h = Item(v)
      <4> DEFINE t == SeekHeadOf(TracksAt)
      <4>1. o = 0 \/ o = 1 \/ o = 2 \/ o = 3 \/ o = 4
        BY <3>1
      <4>2. /\ t[1] = [id |-> "SeekHead", size |-> 4] /\ t[4] = Patchable
            /\ t[2] = Item([id |-> "Info", at |-> 5]) /\ t[3] = Item([id |-> "Tracks", at |-> TracksAt])
            /\ t[5] = Item([id |-> "Cues", at |-> 0])
        BY SeekHeadIs
      <4> HIDE DEF t, h
      <4>3. h = t[o + 1]
        BY <3>2 DEF t
      <4>4. o = 0 \/ h = t[2] \/ h = t[3] \/ h = t[4] \/ h = t[5]
        BY <4>1, <4>3
      <4> QED BY <4>2, <4>3, <4>4
    <3> HIDE DEF h
    <3>4. CASE o = 0 /\ h = [id |-> "SeekHead", size |-> 4]
      BY <3>1, <3>4 DEF CellIs, MasterIds, Parses
    <3>5. CASE h = Patchable \/ \E v : h = Item(v)
      <4>1. h.id \in {"Item", "Void"} /\ h.size \in Nat
        BY <3>5 DEF Patchable, Item
      <4> QED BY <4>1, PlainCellIs DEF Parses
    <3> QED BY <3>3, <3>4, <3>5
  <2>2. CASE o = InfoAt
    <3>1. h = [id |-> "Info", size |-> InfoItems + Checks]
      BY <2>2, HeaderCellsAre
    <3> HIDE DEF h
    <3> QED BY <1>1, <2>2, <3>1 DEF CellIs, MasterIds, Parses
  <2>3. CASE o > InfoAt /\ o < TracksAt
    <3>1. \/ ~layout.strict /\ o + 1 = InfoAt + 2
          \/ layout.finalize /\ o + 1 = InfoAt + 2 + Checks
          \/ o + 1 = TracksAt
      BY <1>1, <1>2, <2>3
    <3>2. h = Crc(InfoBody) \/ h = Patchable \/ h = Item("encoder")
      BY <3>1, HeaderCellsAre
    <3> HIDE DEF h
    <3>3. h.id \in {"Item", "Void", "Crc"} /\ h.size \in Nat
      BY <3>2 DEF Crc, Patchable, Item
    <3> QED BY <3>3, PlainCellIs DEF Parses
  <2>4. CASE o = TracksAt
    <3>1. h = [id |-> "Tracks", size |-> 1 + Checks]
      BY <2>4, HeaderCellsAre
    <3> HIDE DEF h
    <3> QED BY <1>1, <2>4, <3>1 DEF CellIs, MasterIds, Parses
  <2>5. CASE o > TracksAt
    <3>1. \/ ~layout.strict /\ o + 1 = TracksAt + 2
          \/ o + 1 = SlotAt
      BY <1>1, <1>2, <2>5
    <3>2. h = Crc(Leaf("Item", "tracks")) \/ h = Item("tracks")
      BY <3>1, HeaderCellsAre
    <3> HIDE DEF h
    <3>3. h.id \in {"Item", "Void", "Crc"} /\ h.size \in Nat
      BY <3>2 DEF Crc, Item
    <3> QED BY <3>3, PlainCellIs DEF Parses
  <2> QED BY <1>1, <1>2, <2>1, <2>2, <2>3, <2>4, <2>5
<1> HIDE DEF h
<1>4. CASE HeaderNow(o) = h
  BY <1>3, <1>4 DEF h
<1>5. CASE HeaderNow(o) # h
  <2> DEFINE c == HeaderNow(o)
  <2>1. \/ c = Patchable \/ c = [id |-> "Item", size |-> 0, v |-> [id |-> "Cues", at |-> entry]]
        \/ DurationPatched /\ c = [id |-> "Duration", size |-> 0, v |-> maxEnd]
        \/ c = [id |-> "Crc", size |-> 0, v |-> PatchedInfoBody]
    <3> HIDE DEF h
    <3>1. CASE (SeekPatched /\ o = Offsets.Cues) \/ (DurationPatched /\ o = DurationAt) \/ (CrcPatched /\ o = CrcAt)
      BY <3>1 DEF HeaderNow
    <3>2. CASE ~((SeekPatched /\ o = Offsets.Cues) \/ (DurationPatched /\ o = DurationAt) \/ (CrcPatched /\ o = CrcAt))
      <4>1. HeaderNow(o) = HeaderCells[o + 1]
        BY <3>2 DEF HeaderNow
      <4> QED BY <1>5, <4>1 DEF h
    <3> QED BY <3>1, <3>2
  <2> HIDE DEF c
  <2>2. ASSUME DurationPatched, c = [id |-> "Duration", size |-> 0, v |-> maxEnd]
        PROVE  CellIs(c, o) /\ Parses(c) /\ c.id # "Cues"
    BY <2>2 DEF CellIs, MasterIds, Parses
  <2>3. ASSUME ~(DurationPatched /\ c = [id |-> "Duration", size |-> 0, v |-> maxEnd])
        PROVE  CellIs(c, o) /\ Parses(c) /\ c.id # "Cues"
    <3>1. c.id \in {"Item", "Void", "Crc"} /\ c.size \in Nat
      BY <2>1, <2>3 DEF Patchable
    <3> QED BY <3>1, PlainCellIs DEF Parses
  <2>4. CellIs(c, o) /\ Parses(c) /\ c.id # "Cues"
    BY <2>2, <2>3
  <2> QED BY <1>3, <2>4 DEF c, h
<1> QED BY <1>4, <1>5

\* The cells of the Cues.
LEMMA CuesCellIs ==
  ASSUME layout \in Layouts, index \in Seq(Range(index)), NEW i \in 1 .. Len(CuesElement)
  PROVE  LET h == CuesElement[i] IN
         /\ h.size \in Nat /\ Parses(h)
         /\ i = 1 => h.id = "Cues"
         /\ i # 1 => h.id \in {"Item", "Crc"}
<1>1. Checks \in {0, 1} /\ (layout.strict => Checks = 0) /\ (~layout.strict => Checks = 1)
  BY DEF Checks
<1>2. /\ Len(CuesElement) = Len(index) + 1 + Checks /\ Len(index) \in Nat
      /\ CuesElement[1] = [id |-> "Cues", size |-> Len(index) + Checks]
      /\ ~layout.strict => CuesElement[2] = Crc(CueItems)
      /\ \A j \in Checks + 2 .. Len(index) + 1 + Checks : CuesElement[j] = Item(index[j - 1 - Checks])
  BY CuesElementIs
<1> DEFINE h == CuesElement[i]
<1>3. CASE i = 1
  <2>1. h = [id |-> "Cues", size |-> Len(index) + Checks]
    BY <1>2, <1>3
  <2> HIDE DEF h
  <2>2. h.size \in Nat /\ Parses(h) /\ h.id = "Cues"
    BY <1>1, <1>2, <2>1 DEF Parses
  <2> QED BY <1>3, <2>2 DEF h
<1>4. CASE i # 1
  <2>1. (i = 2 /\ ~layout.strict) \/ i \in Checks + 2 .. Len(index) + 1 + Checks
    BY <1>1, <1>2, <1>4
  <2>2. h = Crc(CueItems) \/ \E v : h = Item(v)
    BY <1>2, <2>1
  <2> HIDE DEF h
  <2>3. h.size \in Nat /\ Parses(h) /\ h.id \in {"Item", "Crc"}
    BY <2>2 DEF Crc, Item, Parses
  <2> QED BY <1>4, <2>3 DEF h
<1> QED BY <1>3, <1>4

LEMMA VoidCellIs ==
  ASSUME NEW n \in Nat, NEW i \in 1 .. n
  PROVE  LET h == VoidOf(n)[i] IN
         h.size \in Nat /\ h.id = (IF i = 1 THEN "Void" ELSE "Bad") /\ (i # 1 => h = NoElement)
<1> DEFINE h == VoidOf(n)[i]
<1>1. /\ VoidOf(n)[1] = [id |-> "Void", size |-> n - 1]
      /\ \A j \in 2 .. n : VoidOf(n)[j] = NoElement
  BY VoidIs
<1>2. CASE i = 1
  BY <1>1, <1>2
<1>3. CASE i # 1
  BY <1>1, <1>3 DEF NoElement
<1> QED BY <1>2, <1>3

LEMMA CuesAreIn ==
  ASSUME WriterInv, entry # None
  PROVE  /\ step \notin {"header", "packets", "cues"} /\ index # <<>> /\ ~layout.live
         /\ InSlot => CuesPlace = SlotAt /\ FitsFront
         /\ ~InSlot => /\ ~FitsFront /\ CuesPlace = BodyEnd /\ BodyEnd = entry
                       /\ Len(output) = entry + Len(CuesElement)
                       /\ \A i \in 1 .. Len(CuesElement) : output[entry + i] = CuesElement[i]
<1> HIDE DEF WriterInv
<1>1. CuesHold
  BY DEF WriterInv
<1> QED BY <1>1 DEF CuesHold, InSlot, CuesPlace, BodyEnd

LEMMA OutputCellIs ==
  ASSUME WriterInv, step # "header", NEW o \in 0 .. Len(output) - 1
  PROVE  CellIs(output[o + 1], o)
<1>1. /\ layout \in Layouts /\ index \in Seq(Range(index)) /\ entry \in Nat \cup {None}
      /\ Len(output) \in Nat /\ BodyEnd \in Nat /\ HeaderEnd <= BodyEnd /\ BodyEnd <= Len(output)
      /\ Len(CuesElement) \in Nat
  <2>1. layout \in Layouts /\ index \in Seq(Range(index)) /\ entry \in Nat \cup {None}
    BY DEF WriterInv, WriterShape
  <2>2. /\ Len(output) \in Nat /\ BodyEnd \in Nat /\ HeaderEnd <= BodyEnd /\ BodyEnd <= Len(output)
        /\ Len(CuesElement) \in Nat
    BY Sizes
  <2> QED BY <2>1, <2>2
<1>2. SlotAt \in Nat /\ layout.front \in Nat /\ HeaderEnd = SlotAt + layout.front
  BY <1>1, Offs
<1>3. CASE o < SlotAt
  <2>1. o \in 0 .. SlotAt - 1
    BY <1>1, <1>2, <1>3
  <2>2. output[o + 1] = HeaderNow(o)
    BY <2>1 DEF WriterInv, HeaderHolds
  <2> QED BY <1>1, <2>1, <2>2, HeaderCellIs
<1>4. CASE o >= SlotAt /\ o < HeaderEnd
  <2> DEFINE i == o - SlotAt + 1
  <2>1. i \in 1 .. layout.front /\ SlotAt + i = o + 1
    BY <1>2, <1>4
  <2>2. output[SlotAt + i] = SlotNow(i)
    BY <2>1 DEF WriterInv, SlotHolds
  <2>3. output[o + 1] = SlotNow(i)
    BY <2>1, <2>2
  <2> HIDE DEF i
  <2> DEFINE h == SlotNow(i)
  <2>4. CASE ~InSlot
    <3>1. h = VoidOf(layout.front)[i]
      BY <2>4 DEF SlotNow
    <3>2. h.size \in Nat /\ h.id \in {"Void", "Bad"}
      BY <1>2, <2>1, <3>1, VoidCellIs
    <3> HIDE DEF h
    <3>3. CellIs(h, o)
      BY <3>2, PlainCellIs
    <3> QED BY <2>3, <3>3 DEF h
  <2>5. CASE InSlot /\ i <= Len(CuesElement)
    <3>1. h = CuesElement[i] /\ i \in 1 .. Len(CuesElement)
      BY <2>1, <2>5 DEF SlotNow
    <3>2. h.size \in Nat /\ (i = 1 => h.id = "Cues") /\ (i # 1 => h.id \in {"Item", "Crc"})
      BY <1>1, <3>1, CuesCellIs
    <3>3. CuesPlace = SlotAt /\ step \notin {"header", "packets"}
      BY <2>5, CuesAreIn DEF InSlot
    <3>4. i = 1 => o = CuesPlace
      BY <1>2, <3>3 DEF i
    <3> HIDE DEF h
    <3>7. CellIs(h, o)
      <4>1. i = 1 => CellIs(h, o)
        BY <3>2, <3>3, <3>4 DEF CellIs, MasterIds
      <4>2. i # 1 => CellIs(h, o)
        BY <3>2, PlainCellIs
      <4> QED BY <4>1, <4>2
    <3> QED BY <2>3, <3>7 DEF h
  <2>6. CASE InSlot /\ i > Len(CuesElement)
    <3>1. h = IF step = "rest" THEN NoElement ELSE VoidOf(RestOfSlot)[i - Len(CuesElement)]
      BY <1>1, <2>1, <2>6 DEF SlotNow
    <3>2. RestOfSlot \in Nat /\ i - Len(CuesElement) \in 1 .. RestOfSlot
      BY <1>1, <1>2, <2>1, <2>6 DEF InSlot, FitsFront, RestOfSlot
    <3>3. h.size \in Nat /\ h.id \in {"Void", "Bad"}
      <4>1. CASE step = "rest"
        BY <3>1, <4>1 DEF NoElement
      <4>2. CASE step # "rest"
        BY <3>1, <3>2, <4>2, VoidCellIs
      <4> QED BY <4>1, <4>2
    <3> HIDE DEF h
    <3>4. CellIs(h, o)
      BY <3>3, PlainCellIs
    <3> QED BY <2>3, <3>4 DEF h
  <2> QED BY <1>1, <2>1, <2>4, <2>5, <2>6
<1>5. CASE o >= HeaderEnd /\ o < BodyEnd
  <2>1. BodyCell(output[o + 1])
    <3>1. BodyHolds
      BY DEF WriterInv
    <3>2. o \in HeaderEnd .. BodyEnd - 1
      BY <1>1, <1>2, <1>5
    <3> QED BY <3>1, <3>2 DEF BodyHolds
  <2> QED BY <2>1, BodyCellIs
<1>6. CASE o >= BodyEnd
  <2>1. entry # None /\ ~FitsFront /\ BodyEnd = entry
    BY <1>1, <1>6 DEF BodyEnd
  <2>2. /\ Len(output) = entry + Len(CuesElement) /\ CuesPlace = entry /\ step \notin {"header", "packets"}
        /\ \A i \in 1 .. Len(CuesElement) : output[entry + i] = CuesElement[i]
    BY <2>1, CuesAreIn DEF InSlot
  <2> DEFINE i == o - entry + 1
  <2>3. i \in 1 .. Len(CuesElement) /\ entry + i = o + 1 /\ (i = 1 => o = CuesPlace)
    BY <1>1, <1>6, <2>1, <2>2
  <2>4. output[o + 1] = CuesElement[i]
    BY <2>2, <2>3
  <2> HIDE DEF i
  <2> DEFINE h == CuesElement[i]
  <2>5. h.size \in Nat /\ (i = 1 => h.id = "Cues") /\ (i # 1 => h.id \in {"Item", "Crc"})
    BY <1>1, <2>3, CuesCellIs
  <2> HIDE DEF h
  <2>6. i = 1 => CellIs(h, o)
    BY <2>2, <2>3, <2>5 DEF CellIs, MasterIds
  <2>7. i # 1 => CellIs(h, o)
    BY <2>5, PlainCellIs
  <2> QED BY <2>4, <2>6, <2>7 DEF h
<1> QED BY <1>1, <1>2, <1>3, <1>4, <1>5, <1>6

LEMMA WrittenCellIs ==
  ASSUME WriterInv, NEW w \in InProgress, NEW i \in 1 .. Len(w.cells)
  PROVE  CellIs(w.cells[i], w.at + i - 1)
<1>1. layout \in Layouts /\ index \in Seq(Range(index)) /\ step \in Steps
  BY DEF WriterInv, WriterShape
<1>2. SlotAt \in Nat /\ layout.front \in Nat /\ HeaderEnd = SlotAt + layout.front /\ HeaderEnd = Len(HeaderCells)
  BY <1>1, Offs DEF HeaderEnd
<1>w. w.at \in Nat /\ Len(w.cells) \in Nat
  BY WriteIs
<1> DEFINE h == w.cells[i]
           o == w.at + i - 1
<1>3. CASE step = "header"
  <2>1. w.at = 0 /\ w.cells = HeaderCells
    BY <1>3, WriteIs
  <2>2. o \in Nat /\ o + 1 = i /\ h = HeaderCells[i] /\ i <= HeaderEnd
    BY <1>2, <2>1
  <2> HIDE DEF h, o
  <2>3. CASE o < SlotAt
    <3>1. o \in 0 .. SlotAt - 1
      BY <1>2, <2>2, <2>3
    <3> QED BY <1>1, <2>2, <3>1, HeaderCellIs DEF h, o
  <2>4. CASE o >= SlotAt
    <3> DEFINE j == i - SlotAt
    <3>1. j \in 1 .. layout.front /\ SlotAt + j = i
      BY <1>2, <2>2, <2>4
    <3>2. h = VoidOf(layout.front)[j]
      <4>1. \A l \in 1 .. layout.front : HeaderCells[SlotAt + l] = VoidOf(layout.front)[l]
        BY <1>1, HeaderCellsAre
      <4> QED BY <2>2, <3>1, <4>1
    <3> HIDE DEF j
    <3>3. h.size \in Nat /\ h.id \in {"Void", "Bad"}
      BY <1>2, <3>1, <3>2, VoidCellIs
    <3>4. CellIs(h, o)
      BY <3>3, PlainCellIs
    <3> QED BY <3>4 DEF h, o
  <2> QED BY <1>2, <2>2, <2>3, <2>4
<1>4. CASE step = "packets"
  <2>1. Len(w.cells) = 2 /\ BodyCell(w.cells[1]) /\ BodyCell(w.cells[2])
    <3>1. w.cells # <<>>
      BY <1>w
    <3> QED BY <1>4, <3>1, WriteIs
  <2>2. BodyCell(h)
    BY <2>1
  <2> HIDE DEF h, o
  <2>3. CellIs(h, o)
    BY <2>2, BodyCellIs
  <2> QED BY <2>3 DEF h, o
<1>5. CASE step = "cues"
  <2>1. w.at = CuesAt /\ w.cells = CuesElement
    BY <1>5, WriteIs
  <2>2. CuesAt = CuesPlace
    <3>1. entry = None
      BY <1>5 DEF WriterInv, CuesHold
    <3> QED BY <3>1 DEF CuesAt, CuesPlace, BodyEnd
  <2>3. h = CuesElement[i] /\ i \in 1 .. Len(CuesElement) /\ (i = 1 => o = CuesPlace)
    BY <1>w, <2>1, <2>2
  <2>4. h.size \in Nat /\ (i = 1 => h.id = "Cues") /\ (i # 1 => h.id \in {"Item", "Crc"})
    BY <1>1, <2>3, CuesCellIs
  <2> HIDE DEF h, o
  <2>5. i = 1 => CellIs(h, o)
    BY <1>5, <2>3, <2>4 DEF CellIs, MasterIds
  <2>6. i # 1 => CellIs(h, o)
    BY <2>4, PlainCellIs
  <2> QED BY <2>5, <2>6 DEF h, o
<1>6. CASE step = "rest"
  <2>1. w.cells = VoidOf(RestOfSlot)
    BY <1>6, WriteIs
  <2>2. RestOfSlot \in Nat /\ i \in 1 .. RestOfSlot
    <3>1. InSlot /\ RestOfSlot > 0
      BY <1>6 DEF WriterInv, CuesHold
    <3>2. RestOfSlot \in Int
      <4>1. Len(CuesElement) \in Nat
        BY Sizes
      <4> QED BY <1>2, <4>1 DEF RestOfSlot
    <3>3. Len(w.cells) = RestOfSlot
      <4>1. RestOfSlot \in Nat \ {0}
        BY <3>1, <3>2
      <4> QED BY <2>1, <4>1, VoidIs
    <3> QED BY <3>1, <3>2, <3>3
  <2>3. h.size \in Nat /\ h.id \in {"Void", "Bad"}
    <3>1. h = VoidOf(RestOfSlot)[i]
      BY <2>1
    <3> QED BY <2>2, <3>1, VoidCellIs
  <2> HIDE DEF h, o
  <2>4. CellIs(h, o)
    BY <2>3, PlainCellIs
  <2> QED BY <2>4 DEF h, o
<1>7. CASE Sealed
  <2>1. w.cells = <<>>
    BY <1>7, WriteIs
  <2> QED BY <2>1
<1> QED BY <1>1, <1>3, <1>4, <1>5, <1>6, <1>7 DEF Steps, Sealed

-----------------------------------------------------------------------------
(* What a crash leaves.                                                    *)

\* A cell that is left was there, or was being written, or is none.
LEMMA TornCellIs ==
  ASSUME WriterInv, NEW c, NEW w \in InProgress, NEW k, NEW m, Torn(c, w, k, m), NEW i \in 1 .. Len(c)
  PROVE  /\ i <= w.at => c[i] = output[i] /\ i <= Len(output)
         /\ i > w.at /\ i <= w.at + k => i - w.at \in 1 .. Len(w.cells) /\ c[i] = w.cells[i - w.at]
         /\ i > w.at + k /\ i <= w.at + m => c[i] = NoElement /\ i = w.at + k + 1
         /\ i > w.at + m => c[i] = output[i] /\ i <= Len(output)
<1>1. w.at \in Nat /\ Len(w.cells) \in Nat /\ w.at <= Len(output) /\ Len(output) \in Nat
  <2>1. Len(output) \in Nat
    BY Sizes
  <2> QED BY <2>1, WriteIs
<1>2. /\ k \in Nat /\ m \in Nat /\ (m = k \/ m = k + 1) /\ m <= Len(w.cells)
      /\ Len(c) = IF Len(output) >= w.at + m THEN Len(output) ELSE w.at + m
      /\ c[i] = IF i > w.at /\ i <= w.at + m
                THEN IF i <= w.at + k THEN w.cells[i - w.at] ELSE NoElement
                ELSE output[i]
  BY DEF Torn
<1> DEFINE h == c[i]
           at == w.at
           lo == Len(output)
           lw == Len(w.cells)
<1>3. i \in Nat /\ i <= (IF lo >= at + m THEN lo ELSE at + m)
  BY <1>1, <1>2
<1>4. /\ i <= at => h = output[i] /\ i <= lo
      /\ i > at + m => h = output[i] /\ i <= lo
  <2>1. i <= at \/ i > at + m => h = output[i]
    BY <1>1, <1>2, <1>3
  <2> HIDE DEF h, at, lo, lw
  <2> QED BY <1>1, <1>2, <1>3, <2>1 DEF at, lo, lw
<1>5. i > at /\ i <= at + k => i - at \in 1 .. lw /\ h = w.cells[i - at]
  <2>1. i > at /\ i <= at + k => h = w.cells[i - at]
    BY <1>1, <1>2, <1>3
  <2>2. i > at /\ i <= at + k => i - at \in 1 .. lw
    <3> HIDE DEF h, at, lo, lw
    <3> QED BY <1>1, <1>2, <1>3 DEF at, lo, lw
  <2> QED BY <2>1, <2>2
<1>6. i > at + k /\ i <= at + m => h = NoElement /\ i = at + k + 1
  <2>1. i > at + k /\ i <= at + m => h = NoElement
    BY <1>1, <1>2, <1>3
  <2>2. i > at + k /\ i <= at + m => i = at + k + 1
    <3> HIDE DEF h, lo, lw
    <3> QED BY <1>1, <1>2, <1>3
  <2> QED BY <2>1, <2>2
<1> QED BY <1>4, <1>5, <1>6

LEMMA RemainCellIs ==
  ASSUME WriterInv, NEW c, NEW w \in InProgress, NEW k, NEW m, Torn(c, w, k, m), NEW o \in 0 .. Len(c) - 1
  PROVE  CellIs(c[o + 1], o)
<1> DEFINE i == o + 1
<1>0. Len(c) \in Nat
  BY DEF Torn, IsSeq
<1>1. i \in 1 .. Len(c) /\ o = i - 1 /\ i \in Nat
  BY <1>0
<1>2. w.at \in Nat /\ k \in Nat /\ m \in Nat
  BY WriteIs DEF Torn
<1>3. step = "header" => output = <<>>
  BY DEF WriterInv, WriterShape
<1>4. CASE c[i] = output[i] /\ i <= Len(output)
  <2>1. step # "header"
    BY <1>1, <1>3, <1>4
  <2>2. o \in 0 .. Len(output) - 1
    <3>1. Len(output) \in Nat
      BY Sizes
    <3> QED BY <1>1, <1>4, <3>1
  <2>3. CellIs(output[o + 1], o)
    BY <2>1, <2>2, OutputCellIs
  <2> QED BY <1>4, <2>3
<1>5. CASE i > w.at /\ i <= w.at + k
  <2>1. i - w.at \in 1 .. Len(w.cells) /\ c[i] = w.cells[i - w.at]
    BY <1>1, <1>5, TornCellIs
  <2> DEFINE j == i - w.at
  <2>2. j \in 1 .. Len(w.cells) /\ c[i] = w.cells[j] /\ w.at + j - 1 = o
    BY <1>1, <1>2, <2>1
  <2> HIDE DEF j
  <2>3. CellIs(w.cells[j], w.at + j - 1)
    BY <2>2, WrittenCellIs
  <2> QED BY <2>2, <2>3
<1>6. CASE c[i] = NoElement
  BY <1>6, PlainCellIs DEF NoElement
<1>7. \/ i <= w.at \/ i > w.at + m \/ (i > w.at /\ i <= w.at + k) \/ (i > w.at + k /\ i <= w.at + m)
  BY <1>1, <1>2
<1> HIDE DEF i
<1> QED BY <1>1, <1>4, <1>5, <1>6, <1>7, TornCellIs DEF i

\* Where the write in progress may change the output.
LEMMA WritePlace ==
  ASSUME WriterInv, step # "header", NEW w \in InProgress
  PROVE  /\ w.at >= SlotAt
         /\ step \notin {"cues", "rest"} => w.at = Len(output)
         /\ step \in {"cues", "rest"} => w.at >= BodyEnd \/ w.at + Len(w.cells) <= HeaderEnd
<1>1. /\ layout \in Layouts /\ Len(output) \in Nat /\ BodyEnd \in Nat /\ HeaderEnd <= BodyEnd
      /\ BodyEnd <= Len(output) /\ Len(CuesElement) \in Nat
  BY Sizes
<1>2. SlotAt \in Nat /\ layout.front \in Nat /\ HeaderEnd = SlotAt + layout.front
  BY <1>1, Offs
<1>s. step \in Steps
  BY DEF WriterInv, WriterShape
<1>3. CASE step = "cues"
  <2>1. w.at = CuesAt /\ w.cells = CuesElement
    BY <1>3, WriteIs
  <2> HIDE DEF BodyEnd
  <2> QED BY <1>1, <1>2, <1>3, <2>1 DEF CuesAt, FitsFront
<1>4. CASE step = "rest"
  <2>1. w.at = SlotAt + Len(CuesElement) /\ w.cells = VoidOf(RestOfSlot)
    BY <1>4, WriteIs
  <2>2. RestOfSlot > 0 /\ RestOfSlot \in Int
    BY <1>1, <1>2, <1>4 DEF WriterInv, CuesHold, RestOfSlot
  <2>3. Len(w.cells) = RestOfSlot
    <3>1. RestOfSlot \in Nat \ {0}
      BY <2>2
    <3> QED BY <2>1, <3>1, VoidIs
  <2>4. RestOfSlot = layout.front - Len(CuesElement)
    BY DEF RestOfSlot
  <2> HIDE DEF BodyEnd
  <2>5. w.at + Len(w.cells) = HeaderEnd /\ w.at >= SlotAt
    BY <1>1, <1>2, <2>1, <2>3, <2>4
  <2> QED BY <1>1, <1>2, <1>4, <2>1, <2>5
<1>5. CASE step \notin {"cues", "rest"}
  <2>1. w.at = Len(output)
    BY <1>s, <1>5, WriteIs DEF Steps, Sealed
  <2> HIDE DEF BodyEnd
  <2> QED BY <1>1, <1>2, <1>5, <2>1
<1> QED BY <1>3, <1>4, <1>5

\* No output reaches Far.
LEMMA RemainIsShort ==
  ASSUME WriterInv, NEW c, NEW w \in InProgress, NEW k, NEW m, Torn(c, w, k, m)
  PROVE  Len(c) < Far
<1> DEFINE n == Len(Recording)
<1>1. /\ layout \in Layouts /\ Len(output) \in Nat /\ BodyEnd \in Nat
      /\ step # "header" => HeaderEnd <= BodyEnd /\ BodyEnd <= Len(output)
      /\ Len(CuesElement) \in Nat /\ Len(stored) \in Nat /\ Len(index) \in Nat
  BY Sizes
<1>2. SlotAt \in Nat /\ layout.front \in Nat /\ HeaderEnd = SlotAt + layout.front /\ SlotAt <= 12
  BY <1>1, Offs
<1>3. layout.front + 5 * n + 14 < Far /\ n \in Nat /\ Far \in Nat
  BY <1>1, RecoveryAssumption, WriterAssumption, ProbeAssumption
<1>4. /\ Len(left) \in Nat /\ Len(left) + Len(stored) = n /\ Len(index) <= Len(stored)
      /\ left # <<>> => Len(left) > 0
      /\ step = "header" => output = <<>> /\ stored = <<>>
  <2>1. left \in Seq(Range(Recording)) /\ Len(left) + Len(stored) = n /\ Len(index) <= Len(stored)
        /\ (step = "header" => output = <<>> /\ stored = <<>>)
    BY DEF WriterInv, WriterShape
  <2> HIDE DEF n
  <2> QED BY <2>1
<1>5. Len(CuesElement) <= Len(index) + 2
  <2>1. Len(CuesElement) = Len(index) + 1 + Checks
    BY <1>1, CuesElementIs DEF WriterInv, WriterShape
  <2> QED BY <1>1, <2>1 DEF Checks
<1>6. step # "header" =>
        BodyEnd <= HeaderEnd + 4 * Len(stored) + (IF cluster.off # None /\ cluster.blocks = 0 THEN 2 ELSE 0)
  BY DEF WriterInv, OutputIsShort
<1>7. cluster.off # None /\ cluster.blocks = 0 => step = "packets" /\ left # <<>>
  BY DEF WriterInv, ClusterHolds
<1>8. Len(output) = BodyEnd \/ Len(output) = BodyEnd + Len(CuesElement)
  BY <1>1 DEF BodyEnd, WriterInv, CuesHold
<1>9. /\ w.at \in Nat /\ m \in Nat /\ m <= Len(w.cells) /\ Len(w.cells) \in Nat
      /\ Len(c) = IF Len(output) >= w.at + m THEN Len(output) ELSE w.at + m
  BY WriteIs DEF Torn
<1> DEFINE st == Len(stored)
           lf == Len(left)
           ou == Len(output)
           cu == Len(CuesElement)
           lw == Len(w.cells)
           lc == Len(c)
           at == w.at
           e == BodyEnd
           h == HeaderEnd
           f == layout.front
<1>t. /\ st \in Nat /\ lf \in Nat /\ ou \in Nat /\ cu \in Nat /\ lw \in Nat /\ at \in Nat /\ e \in Nat /\ h \in Nat
      /\ f \in Nat /\ n \in Nat /\ Far \in Nat /\ m \in Nat /\ m <= lw
      /\ h <= f + 12 /\ f + 5 * n + 14 < Far /\ cu <= st + 2 /\ lf + st = n
      /\ ou = e \/ ou = e + cu
      /\ lc = IF ou >= at + m THEN ou ELSE at + m
  <2>1. /\ st \in Nat /\ lf \in Nat /\ ou \in Nat /\ cu \in Nat /\ lw \in Nat /\ at \in Nat /\ e \in Nat /\ h \in Nat
        /\ f \in Nat /\ n \in Nat /\ Far \in Nat /\ m \in Nat /\ m <= lw
    <3>1. st \in Nat /\ ou \in Nat /\ cu \in Nat /\ e \in Nat
      BY <1>1
    <3>2. f \in Nat /\ n \in Nat /\ Far \in Nat /\ lf \in Nat
      BY <1>2, <1>3, <1>4
    <3>3. h \in Nat
      BY <1>2
    <3>4. lw \in Nat /\ at \in Nat /\ m \in Nat /\ m <= lw
      BY <1>9
    <3> HIDE DEF st, lf, ou, cu, lw, at, e, h, f, n
    <3> QED BY <3>1, <3>2, <3>3, <3>4
  <2>2. h <= f + 12
    <3>1. h = SlotAt + f
      BY <1>2
    <3> HIDE DEF h
    <3> QED BY <1>2, <2>1, <3>1
  <2>3. cu <= st + 2
    BY <1>1, <1>4, <1>5
  <2>4. lf + st = n /\ (ou = e \/ ou = e + cu) /\ lc = (IF ou >= at + m THEN ou ELSE at + m)
    BY <1>4, <1>8, <1>9
  <2> HIDE DEF st, lf, ou, cu, lw, lc, at, e, h
  <2> QED BY <1>3, <2>1, <2>2, <2>3, <2>4
<1>10. step # "header" /\ step # "packets" => e + cu < Far
  <2>1. step # "header" /\ step # "packets" => e <= h + 4 * st
    <3> HIDE DEF st, e, h
    <3> QED BY <1>t, <1>6, <1>7 DEF st, e, h
  <2> HIDE DEF st, lf, ou, cu, lw, lc, at, e, h, f, n
  <2> QED BY <1>t, <2>1
<1>11. step = "packets" => ou = e /\ e < Far /\ (left # <<>> => e + 2 < Far)
  <2>1. step = "packets" => ou = e
    BY DEF BodyEnd, WriterInv, CuesHold
  <2>2. step = "packets" /\ left # <<>> => e <= h + 4 * st + 2 /\ lf > 0
    <3> HIDE DEF e, n, h, st
    <3>1. step = "packets" => e <= h + 4 * st + 2
      BY <1>t, <1>6 DEF e, h, st
    <3> QED BY <3>1, <1>4
  <2>3. step = "packets" /\ left = <<>> => e <= h + 4 * st
    <3> HIDE DEF e, n, h, st
    <3> QED BY <1>t, <1>6, <1>7 DEF e, h, st
  <2> HIDE DEF st, lf, ou, cu, lw, lc, at, e, h, f, n
  <2> QED BY <1>t, <2>1, <2>2, <2>3
<1>12. step \in Steps
  BY DEF WriterInv, WriterShape
<1>13. CASE step = "header"
  <2>1. at = 0 /\ lw = h /\ ou = 0
    BY <1>4, <1>13, WriteIs DEF HeaderEnd
  <2> HIDE DEF st, lf, ou, cu, lw, lc, at, e, h, f, n
  <2>2. lc < Far
    BY <1>t, <2>1
  <2> QED BY <2>2 DEF lc
<1>14. CASE step = "packets"
  <2>1. at = ou /\ (m = 0 \/ (left # <<>> /\ lw = 2))
    <3>1. w.at = Len(output) /\ (w.cells # <<>> => left # <<>> /\ Len(w.cells) = 2)
      BY <1>14, WriteIs
    <3>2. w.cells = <<>> => m = 0
      BY <1>9
    <3> QED BY <3>1, <3>2
  <2> HIDE DEF st, lf, ou, cu, lw, lc, at, e, h, f, n
  <2>2. lc < Far
    BY <1>t, <1>11, <1>14, <2>1
  <2> QED BY <2>2 DEF lc
<1>15. CASE step = "cues"
  <2>1. w.at = CuesAt /\ w.cells = CuesElement
    BY <1>15, WriteIs
  <2>2. entry = None
    BY <1>15 DEF WriterInv, CuesHold
  <2>3. ou = e
    BY <2>2 DEF BodyEnd
  <2>4. at <= e /\ lw = cu
    BY <1>1, <1>2, <1>15, <2>1, <2>3 DEF CuesAt
  <2> HIDE DEF st, lf, ou, cu, lw, lc, at, e, h, f, n
  <2>5. lc < Far
    BY <1>t, <1>10, <1>15, <2>3, <2>4
  <2> QED BY <2>5 DEF lc
<1>16. CASE step = "rest"
  <2>1. at >= e \/ at + lw <= h
    BY <1>16, WritePlace
  <2>2. w.at = SlotAt + Len(CuesElement) /\ RestOfSlot > 0
    BY <1>16, WriteIs DEF WriterInv, CuesHold
  <2>3. at < h
    BY <1>1, <1>2, <2>2 DEF RestOfSlot
  <2>4. h <= e
    BY <1>1, <1>16
  <2> HIDE DEF st, lf, ou, cu, lw, lc, at, e, h, f, n
  <2>5. lc < Far
    BY <1>t, <1>10, <1>16, <2>1, <2>3, <2>4
  <2> QED BY <2>5 DEF lc
<1>17. CASE Sealed
  <2>1. w.at = Len(output) /\ w.cells = <<>> /\ step \notin {"header", "packets"}
    BY <1>17, WriteIs DEF Sealed
  <2>2. m = 0 /\ at = ou
    BY <1>9, <2>1
  <2> HIDE DEF st, lf, ou, cu, lw, lc, at, e, h, f, n
  <2>3. lc < Far
    BY <1>t, <1>10, <2>1, <2>2
  <2> QED BY <2>3 DEF lc
<1> QED BY <1>12, <1>13, <1>14, <1>15, <1>16, <1>17 DEF Steps, Sealed

\* What is left of the header.
LEMMA RemainHeader ==
  ASSUME WriterInv, NEW c, NEW w \in InProgress, NEW k, NEW m, Torn(c, w, k, m)
  PROVE  HeaderLeft(c)
<1>1. layout \in Layouts /\ Len(output) \in Nat /\ (step = "header" => output = <<>>)
  BY Sizes DEF WriterInv, WriterShape
<1>2. SlotAt \in Nat \ {0}
  BY <1>1, Offs
<1>3. w.at \in Nat /\ k \in Nat /\ m \in Nat /\ (m = k \/ m = k + 1) /\ Len(c) \in Nat
  BY WriteIs DEF Torn, IsSeq
<1>4. ASSUME NEW o \in 0 .. SlotAt - 1, o < Len(c), step # "header"
      PROVE  c[o + 1] = HeaderNow(o)
  <2>1. w.at >= SlotAt
    BY <1>4, WritePlace
  <2>2. o + 1 \in 1 .. Len(c) /\ o + 1 <= w.at
    BY <1>2, <1>3, <1>4, <2>1
  <2>3. c[o + 1] = output[o + 1]
    BY <2>2, TornCellIs
  <2>4. output[o + 1] = HeaderNow(o)
    BY <1>4 DEF WriterInv, HeaderHolds
  <2> QED BY <2>3, <2>4
<1>5. ASSUME NEW o \in 0 .. SlotAt - 1, o < Len(c), step = "header"
      PROVE  IF o + 1 <= k THEN c[o + 1] = HeaderNow(o) ELSE c[o + 1] = NoElement
  <2>1. w.at = 0 /\ w.cells = HeaderCells /\ Len(output) = 0
    BY <1>1, <1>5, WriteIs
  <2>2. Len(c) = m
    BY <1>3, <2>1 DEF Torn
  <2>3. o + 1 \in 1 .. Len(c) /\ o + 1 > w.at /\ o + 1 <= w.at + m /\ o \in Nat
    BY <1>2, <1>3, <1>5, <2>1, <2>2
  <2>4. HeaderNow(o) = HeaderCells[o + 1]
    BY <1>5 DEF HeaderNow, SeekPatched, DurationPatched, CrcPatched
  <2>5. CASE o + 1 <= k
    <3>1. o + 1 <= w.at + k
      BY <1>3, <2>1, <2>5
    <3> DEFINE i == o + 1
    <3>2. i \in 1 .. Len(c) /\ i > w.at /\ i <= w.at + k /\ i - w.at = i
      BY <2>1, <2>3, <3>1
    <3> HIDE DEF i
    <3>3. c[i] = w.cells[i - w.at]
      BY <3>2, TornCellIs
    <3>4. c[i] = HeaderCells[i]
      BY <2>1, <3>2, <3>3
    <3> QED BY <2>4, <2>5, <3>4 DEF i
  <2>6. CASE ~(o + 1 <= k)
    <3>1. o + 1 > w.at + k
      BY <1>3, <2>1, <2>3, <2>6
    <3> QED BY <2>3, <2>6, <3>1, TornCellIs
  <2> QED BY <2>5, <2>6
<1>6. ASSUME NEW o \in 0 .. SlotAt - 1, o < Len(c), step = "header", TracksHeld(c)
      PROVE  c[o + 1] = HeaderNow(o)
  <2>1. SlotAt <= Len(c) /\ Parses(c[SlotAt])
    BY <1>6 DEF TracksHeld
  <2> DEFINE l == SlotAt - 1
  <2>2. l \in 0 .. SlotAt - 1 /\ l < Len(c) /\ l + 1 = SlotAt
    BY <1>2, <1>3, <2>1
  <2>3. c[l + 1] # NoElement
    BY <2>1, <2>2 DEF Parses, NoElement
  <2>4. l + 1 <= k
    <3> HIDE DEF l
    <3> QED BY <1>5, <1>6, <2>2, <2>3
  <2>5. o + 1 <= k
    BY <1>2, <1>3, <2>2, <2>4
  <2> QED BY <1>5, <1>6, <2>5
<1> QED BY <1>4, <1>5, <1>6 DEF HeaderLeft

\* What is left of the Clusters.
LEMMA RemainBody ==
  ASSUME WriterInv, NEW c, NEW w \in InProgress, NEW k, NEW m, Torn(c, w, k, m)
  PROVE  BodyLeft(c)
<1> SUFFICES ASSUME step \notin {"header", "packets"}
             PROVE  BodyEnd <= Len(c) /\ \A o \in HeaderEnd .. BodyEnd - 1 : c[o + 1] = output[o + 1]
  BY DEF BodyLeft
<1>1. /\ layout \in Layouts /\ Len(output) \in Nat /\ BodyEnd \in Nat
      /\ HeaderEnd <= BodyEnd /\ BodyEnd <= Len(output)
  BY Sizes
<1>2. HeaderEnd \in Nat
  BY <1>1, Offs
<1>3. /\ w.at \in Nat /\ Len(w.cells) \in Nat /\ k \in Nat /\ m \in Nat /\ m <= Len(w.cells)
      /\ Len(c) = IF Len(output) >= w.at + m THEN Len(output) ELSE w.at + m
  BY WriteIs DEF Torn
<1>4. w.at >= BodyEnd \/ w.at + Len(w.cells) <= HeaderEnd
  BY <1>1, WritePlace
<1> HIDE DEF BodyEnd
<1>5. BodyEnd <= Len(c) /\ Len(c) \in Nat
  BY <1>1, <1>3
<1>6. ASSUME NEW o \in HeaderEnd .. BodyEnd - 1
      PROVE  c[o + 1] = output[o + 1]
  <2>1. o + 1 \in 1 .. Len(c)
    BY <1>1, <1>2, <1>5
  <2>2. o + 1 <= w.at \/ o + 1 > w.at + m
    BY <1>1, <1>2, <1>3, <1>4
  <2> QED BY <2>1, <2>2, TornCellIs
<1> QED BY <1>5, <1>6

\* Nothing is torn once the Cues are written.
LEMMA SealedRemain ==
  ASSUME WriterInv, NEW c, NEW w \in InProgress, NEW k, NEW m, Torn(c, w, k, m), Sealed
  PROVE  c = output
<1>1. IsSeq(output) /\ Len(output) \in Nat
  BY Sizes
<1>2. w.cells = <<>> /\ w.at = Len(output)
  BY WriteIs
<1>3. m = 0 /\ IsSeq(c) /\ Len(c) = Len(output)
  BY <1>1, <1>2 DEF Torn
<1>4. ASSUME NEW i \in 1 .. Len(c)
      PROVE  c[i] = output[i]
  <2>1. i <= w.at
    BY <1>1, <1>2, <1>3
  <2> QED BY <2>1, TornCellIs
<1> QED BY <1>1, <1>3, <1>4, SameSeqs

\* What is left of the Cues.
LEMMA RemainCues ==
  ASSUME WriterInv, NEW c, NEW w \in InProgress, NEW k, NEW m, Torn(c, w, k, m)
  PROVE  CuesLeft(c)
<1> SUFFICES ASSUME CuesPlace < Len(c), c[CuesPlace + 1].id = "Cues", step \notin {"header", "packets"}
             PROVE  /\ \A i \in 1 .. Len(CuesElement) :
                         CuesPlace + i <= Len(c) => c[CuesPlace + i] \in {NoElement, CuesElement[i]}
                    /\ c[CuesPlace + 1] = CuesElement[1]
                    /\ step # "cues" => /\ CuesPlace + Len(CuesElement) <= Len(c)
                                        /\ \A i \in 1 .. Len(CuesElement) : c[CuesPlace + i] = CuesElement[i]
  BY DEF CuesLeft
<1>1. /\ layout \in Layouts /\ Len(output) \in Nat /\ BodyEnd \in Nat
      /\ HeaderEnd <= BodyEnd /\ BodyEnd <= Len(output) /\ Len(CuesElement) \in Nat \ {0}
      /\ step \in Steps
  BY Sizes DEF WriterInv, WriterShape
<1>2. SlotAt \in Nat /\ layout.front \in Nat /\ HeaderEnd = SlotAt + layout.front /\ HeaderEnd \in Nat
  BY <1>1, Offs
<1>3. /\ w.at \in Nat /\ Len(w.cells) \in Nat /\ k \in Nat /\ m \in Nat /\ m <= Len(w.cells)
      /\ (m = k \/ m = k + 1) /\ w.at <= Len(output)
      /\ Len(c) = IF Len(output) >= w.at + m THEN Len(output) ELSE w.at + m
  BY WriteIs DEF Torn
<1>4. Len(c) \in Nat /\ Len(output) <= Len(c) /\ Len(c) >= w.at + m
  BY <1>1, <1>3
<1> DEFINE P == CuesPlace
           n == Len(CuesElement)
<1>5. P \in Nat
  BY <1>1, <1>2 DEF CuesPlace
<1>6. ASSUME FitsFront, entry = None
      PROVE  \A i \in 1 .. layout.front : output[SlotAt + i] = IF i = 1 THEN [id |-> "Void", size |-> layout.front - 1] ELSE NoElement
  <2>1. layout.front \in Nat \ {0}
    BY <1>2, <1>6 DEF FitsFront
  <2>2. \A i \in 1 .. layout.front : output[SlotAt + i] = VoidOf(layout.front)[i]
    BY <1>6 DEF WriterInv, SlotHolds, SlotNow, InSlot
  <2>3. VoidOf(layout.front)[1] = [id |-> "Void", size |-> layout.front - 1] /\ \A i \in 2 .. layout.front : VoidOf(layout.front)[i] = NoElement
    BY <2>1, VoidIs
  <2> QED BY <2>1, <2>2, <2>3
<1>7. CASE step = "cues"
  <2>1. w.at = CuesAt /\ w.cells = CuesElement /\ entry = None
    BY <1>7, WriteIs DEF WriterInv, CuesHold
  <2>2. w.at = P
    BY <2>1 DEF CuesAt, CuesPlace, BodyEnd
  <2>3. ASSUME NEW i \in 1 .. n, P + i <= Len(c)
        PROVE  c[P + i] \in {NoElement, CuesElement[i]} /\ (i = 1 => c[P + i] = CuesElement[i])
    <3> DEFINE j == P + i
    <3>1. j \in 1 .. Len(c) /\ j > w.at /\ j - w.at = i /\ i \in Nat
      BY <1>1, <1>4, <1>5, <2>2, <2>3
    <3>2. i = 1 => c[j] # NoElement
      BY DEF NoElement
    <3>3. CASE i <= k
      <4>1. j <= w.at + k
        BY <1>3, <2>2, <3>3, <3>1
      <4>2. c[j] = w.cells[j - w.at]
        <5> HIDE DEF j
        <5> QED BY <3>1, <4>1, TornCellIs
      <4>3. c[j] = CuesElement[i]
        BY <2>1, <3>1, <4>2
      <4> QED BY <4>3
    <3>4. CASE i > k /\ i <= m
      <4>1. j > w.at + k /\ j <= w.at + m
        BY <1>3, <2>2, <3>4, <3>1
      <4>2. c[j] = NoElement
        <5> HIDE DEF j
        <5> QED BY <3>1, <4>1, TornCellIs
      <4> QED BY <3>2, <4>2
    <3>5. CASE i > m
      <4>1. j > w.at + m
        BY <1>3, <2>2, <3>5, <3>1
      <4>2. c[j] = output[j] /\ j <= Len(output)
        <5> HIDE DEF j
        <5> QED BY <3>1, <4>1, TornCellIs
      <4>3. FitsFront /\ P = SlotAt /\ n <= layout.front
        <5>1. P # BodyEnd
          <6>1. BodyEnd = Len(output)
            BY <2>1 DEF BodyEnd
          <6> QED BY <1>1, <1>5, <3>1, <4>2, <6>1
        <5> QED BY <5>1 DEF CuesPlace, FitsFront
      <4>4. i \in 1 .. layout.front
        BY <1>1, <1>2, <3>1, <4>3
      <4>5. c[j] = IF i = 1 THEN [id |-> "Void", size |-> layout.front - 1] ELSE NoElement
        BY <1>6, <2>1, <4>2, <4>3, <4>4
      <4> HIDE DEF j
      <4>6. i # 1
        BY <4>5 DEF j
      <4> QED BY <4>5, <4>6 DEF j
    <3> QED BY <1>3, <3>1, <3>3, <3>4, <3>5
  <2>4. 1 \in 1 .. n /\ P + 1 <= Len(c)
    BY <1>1, <1>4, <1>5
  <2> HIDE DEF P, n
  <2> QED BY <1>7, <2>3, <2>4 DEF P, n
<1>8. ASSUME InSlot, step # "cues"
      PROVE  P + n <= Len(c) /\ \A i \in 1 .. n : c[P + i] = CuesElement[i]
  <2>1. P = SlotAt /\ n <= layout.front
    BY <1>8 DEF InSlot, CuesPlace, FitsFront
  <2>2. P + n <= HeaderEnd
    BY <1>1, <1>2, <2>1
  <2>3. P + n <= Len(output)
    BY <1>1, <1>2, <1>5, <2>2
  <2>4. P + n <= w.at
    <3>1. CASE step = "rest"
      BY <1>1, <1>5, <2>1, <3>1, WriteIs
    <3>2. CASE step # "rest"
      <4>1. w.at = Len(output)
        BY <1>8, <3>2, WritePlace
      <4> QED BY <2>3, <4>1
    <3> QED BY <3>1, <3>2
  <2>5. P + n <= Len(c)
    BY <1>1, <1>4, <1>5, <2>3
  <2>6. ASSUME NEW i \in 1 .. n
        PROVE  c[P + i] = CuesElement[i]
    <3>1. P + i \in 1 .. Len(c) /\ P + i <= w.at
      BY <1>1, <1>3, <1>4, <1>5, <2>4, <2>5
    <3>2. c[P + i] = output[P + i]
      BY <3>1, TornCellIs
    <3>3. i \in 1 .. layout.front /\ i <= Len(CuesElement)
      BY <1>1, <1>2, <2>1
    <3>4. output[SlotAt + i] = SlotNow(i)
      BY <3>3 DEF WriterInv, SlotHolds
    <3>5. SlotNow(i) = CuesElement[i]
      BY <1>8, <3>3 DEF SlotNow
    <3> QED BY <2>1, <3>2, <3>4, <3>5
  <2> QED BY <2>5, <2>6
<1>9. ASSUME ~InSlot, step # "cues"
      PROVE  P + n <= Len(c) /\ \A i \in 1 .. n : c[P + i] = CuesElement[i]
  <2>1. Sealed
    BY <1>1, <1>9 DEF Sealed, Steps, WriterInv, CuesHold
  <2>2. c = output
    BY <2>1, SealedRemain
  <2>3. entry # None
    <3> SUFFICES ASSUME entry = None PROVE FALSE
      OBVIOUS
    <3>1. P # BodyEnd
      <4>1. BodyEnd = Len(output)
        BY DEF BodyEnd
      <4> QED BY <1>1, <1>5, <2>2, <4>1
    <3>2. FitsFront /\ P = SlotAt /\ 1 \in 1 .. layout.front
      BY <1>2, <3>1 DEF CuesPlace, FitsFront
    <3>3. output[SlotAt + 1] = [id |-> "Void", size |-> layout.front - 1]
      BY <1>6, <3>2
    <3> QED BY <2>2, <3>2, <3>3
  <2>4. ~FitsFront
    BY <1>9, <2>3 DEF InSlot
  <2>5. Len(output) = entry + n /\ (\A i \in 1 .. n : output[entry + i] = CuesElement[i]) /\ P = entry
    BY <2>3, <2>4 DEF WriterInv, CuesHold, CuesPlace, BodyEnd
  <2> QED BY <1>1, <1>5, <2>2, <2>5
<1> HIDE DEF P
<1>10. CASE step # "cues"
  <2>1. P + n <= Len(c) /\ \A i \in 1 .. n : c[P + i] = CuesElement[i]
    BY <1>8, <1>9, <1>10
  <2>2. 1 \in 1 .. n
    BY <1>1
  <2> QED BY <1>10, <2>1, <2>2 DEF P
<1> QED BY <1>7, <1>10

\* RemainsAreTrue follows from WriterInv.
LEMMA RemainIs ==
  ASSUME WriterInv, NEW c \in Remains
  PROVE  LeftTruly(c)
<1>1. IsSeq(output)
  BY Sizes
<1>2. PICK w \in InProgress, k \in Nat, m \in Nat : Torn(c, w, k, m)
  BY <1>1, WriteIs, TornIs
<1>3. IsSeq(c) /\ Len(c) \in Nat
  BY <1>2 DEF Torn, IsSeq
<1>4. \A o \in 0 .. Len(c) - 1 : CellIs(c[o + 1], o)
  BY <1>2, RemainCellIs
<1>5. MastersInPlace(c)
  BY <1>4 DEF CellIs, MastersInPlace
<1>6. CellsLegal(c)
  <2> SUFFICES ASSUME NEW i \in 1 .. Len(c)
               PROVE  /\ c[i].size \in Nat \cup {Unknown}
                      /\ c[i].id # "Block" /\ (c[i].id = "SimpleBlock" => c[i].frames \in Nat)
                      /\ c[i].id = "Timecode" => c[i].v \in Int
                      /\ c[i].id = "Duration" => DurationPatched
    BY DEF CellsLegal
  <2> DEFINE o == i - 1
  <2>1. o \in 0 .. Len(c) - 1 /\ o + 1 = i
    BY <1>3
  <2> HIDE DEF o
  <2>2. CellIs(c[i], o)
    BY <1>4, <2>1
  <2> QED BY <2>2 DEF CellIs
<1>7. Len(c) < Far
  BY <1>2, RemainIsShort
<1>8. HeaderLeft(c) /\ CuesLeft(c) /\ BodyLeft(c) /\ (Sealed => c = output)
  BY <1>2, RemainHeader, RemainCues, RemainBody, SealedRemain
<1> QED BY <1>3, <1>5, <1>6, <1>7, <1>8 DEF LeftTruly
=============================================================================
