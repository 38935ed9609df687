--------------------------- MODULE MkvFileProofs ---------------------------
(***************************************************************************)
(* What the searches and walks of MkvFile and MkvDemux return, in any      *)
(* legal file: they stay inside it, they move on, they find the first of   *)
(* what they look for.  The proofs about the demuxer cite these lemmas.    *)
(***************************************************************************)
EXTENDS MkvDemux, SequenceFacts

LEMMA MinOfTwo ==
  ASSUME NEW a \in Int, NEW b \in Int
  PROVE  Min({a, b}) = IF a <= b THEN a ELSE b
<1>1. CASE a <= b
  BY <1>1, MinIs
<1>2. CASE ~(a <= b)
  BY <1>2, MinIs
<1> QED BY <1>1, <1>2

LEMMA MaxOfTwo ==
  ASSUME NEW a \in Int, NEW b \in Int
  PROVE  Max({a, b}) = IF a >= b THEN a ELSE b
<1>1. CASE a >= b
  BY <1>1, MaxIs
<1>2. CASE ~(a >= b)
  BY <1>2, MaxIs
<1> QED BY <1>1, <1>2

LEMMA PastIs ==
  ASSUME NEW p \in Nat, NEW n \in Nat \cup {Unknown}
  PROVE  /\ Past(p, n) \in 0 .. Far
         /\ p <= Far => Past(p, n) >= p
<1>1. CASE n = Unknown
  BY <1>1, ProbeAssumption DEF Past
<1>2. CASE n # Unknown
  <2>1. p + n \in Nat /\ Far \in Nat
    BY <1>2, ProbeAssumption DEF Unknown
  <2>2. Past(p, n) = IF p + n <= Far THEN p + n ELSE Far
    BY <1>2, <2>1, MinOfTwo DEF Past
  <2> QED BY <2>1, <2>2, <1>2
<1> QED BY <1>1, <1>2

LEMMA HeaderIs ==
  ASSUME NEW f, LegalFile(f), NEW p \in Nat
  PROVE  /\ Header(f, p).size \in Nat \cup {Unknown}
         /\ Header(f, p).id \in {"SimpleBlock", "Block"} => Header(f, p).frames \in Nat
         /\ Header(f, p).id = "Timecode" => Header(f, p).v \in Int
         /\ Parses(Header(f, p)) => p < InputLen(f)
<1>1. CASE p < InputLen(f)
  <2>1. p + 1 \in DOMAIN f.cells /\ Header(f, p) = f.cells[p + 1]
    BY <1>1 DEF LegalFile, Header
  <2> QED BY <1>1, <2>1 DEF LegalFile
<1>2. CASE ~(p < InputLen(f))
  BY <1>2 DEF Header, NoElement, Unknown, Parses
<1> QED BY <1>1, <1>2

LEMMA ClusterIs ==
  ASSUME NEW f, LegalFile(f), NEW c \in f.clusters
  PROVE  /\ c \in Nat /\ Header(f, c).id = "Cluster"
         /\ f.first # None => c < f.dataEnd
BY DEF LegalFile

\* The next element starts behind this one.
LEMMA NextIs ==
  ASSUME NEW f, LegalFile(f), NEW p \in Nat
  PROVE  /\ Past(p + 1, Header(f, p).size) \in 0 .. Far
         /\ p < Far => Past(p + 1, Header(f, p).size) > p
<1>1. Header(f, p).size \in Nat \cup {Unknown}
  BY HeaderIs
<1>2. p + 1 \in Nat /\ Far \in Nat
  BY ProbeAssumption
<1>3. /\ Past(p + 1, Header(f, p).size) \in 0 .. Far
      /\ p + 1 <= Far => Past(p + 1, Header(f, p).size) >= p + 1
  BY <1>1, <1>2, PastIs
<1> QED BY <1>2, <1>3

LEMMA SegmentEndIs ==
  ASSUME LegalFile(file)
  PROVE  /\ SegmentEnd \in 0 .. Far /\ SegmentEnd <= file.dataEnd
         /\ \A c \in Nat : c < InputLen(file) /\ c < file.dataEnd => c < SegmentEnd
<1>1. file.dataEnd \in 0 .. Far /\ InputLen(file) \in 0 .. Far /\ Far \in Nat
  BY ProbeAssumption DEF LegalFile
<1>2. Min({file.dataEnd, InputLen(file)}) = IF file.dataEnd <= InputLen(file) THEN file.dataEnd ELSE InputLen(file)
  BY <1>1, MinOfTwo
<1> QED BY <1>1, <1>2 DEF SegmentEnd

-----------------------------------------------------------------------------
(* The resynchronisation scan finds the first plausible element.           *)
LEMMA ScanIs ==
  ASSUME NEW f, NEW from \in Nat, NEW end \in Nat
  PROVE  LET to == ScanTopLevel(f, from, end) IN
         /\ \/ to = None
            \/ to \in from .. end - 1 /\ Header(f, to).id \in TopLevelIds /\ VetTopLevel(f, to, end)
         /\ \A p \in from .. end - 1 :
              Header(f, p).id \in TopLevelIds /\ VetTopLevel(f, p, end) => to # None /\ to <= p
<1> DEFINE hits == {p \in from .. end - 1 : Header(f, p).id \in TopLevelIds /\ VetTopLevel(f, p, end)}
<1>1. ScanTopLevel(f, from, end) = IF hits = {} THEN None ELSE Min(hits)
  BY DEF ScanTopLevel
<1>2. hits \in SUBSET Nat /\ hits \in SUBSET Int /\ hits \subseteq from .. end - 1
  OBVIOUS
<1>3. \A p \in from .. end - 1 :
        Header(f, p).id \in TopLevelIds /\ VetTopLevel(f, p, end) => p \in hits
  OBVIOUS
<1>h. \A p \in hits : Header(f, p).id \in TopLevelIds /\ VetTopLevel(f, p, end)
  OBVIOUS
<1> HIDE DEF hits
<1>4. CASE hits # {}
  <2>1. PICK x \in hits : \A y \in hits : x <= y
    BY <1>2, <1>4, LeastNat
  <2>2. Min(hits) = x
    BY <1>2, <2>1, MinIs
  <2>3. x # None /\ x \in from .. end - 1
    BY <1>2 DEF None
  <2> QED BY <1>1, <1>3, <1>h, <1>4, <2>1, <2>2, <2>3
<1>5. CASE hits = {}
  BY <1>1, <1>3, <1>5
<1> QED BY <1>4, <1>5
-----------------------------------------------------------------------------
(* Walks over the elements of a file up to `end': g[p] is one turn of the   *)
(* walk at p, a function of what the walk behind it yields.                *)
LEMMA FileWalkExists ==
  ASSUME NEW f, LegalFile(f), NEW end \in 0 .. Far, NEW V, NEW v0 \in V,
         NEW g \in [Nat -> [V -> V]],
         \A p \in Nat : p >= end => \A r \in V : g[p][r] = g[p][v0]
  PROVE  \E G \in [Nat -> V] : G = [p \in Nat |-> g[p][G[NextAt(f, p)]]]
<1> DEFINE Stop == {p \in Nat : p >= end}
           b == [p \in Nat |-> g[p][v0]]
           n == [p \in Nat |-> NextAt(f, p)]
           m == [p \in Nat |-> IF p < end THEN end - p ELSE 0]
<1>1. b \in [Nat -> V]
  OBVIOUS
<1>2. n \in [Nat -> Nat]
  BY NextIs DEF NextAt
<1>4. m \in [Nat -> 0 .. Far] /\ Far \in Nat
  BY ProbeAssumption
<1>5. \A p \in Nat \ Stop : m[n[p]] < m[p]
  <2> TAKE p \in Nat \ Stop
  <2>1. p < end /\ end <= Far
    OBVIOUS
  <2>2. n[p] \in Nat /\ n[p] > p
    <3>1. p \in Nat /\ p < Far /\ Far \in Nat
      BY <2>1, ProbeAssumption
    <3>2. Past(p + 1, Header(f, p).size) \in 0 .. Far /\ Past(p + 1, Header(f, p).size) > p
      BY <3>1, NextIs
    <3> QED BY <3>1, <3>2 DEF NextAt
  <2> QED BY <2>1, <2>2
<1> HIDE DEF Stop, b, n, m
<1>6. PICK G \in [Nat -> V] : Walks(G, Nat, Stop, b, n, g)
  BY <1>1, <1>2, <1>4, <1>5, WalkExists
<1>7. ASSUME NEW p \in Nat
      PROVE  (IF p \in Stop THEN b[p] ELSE g[p][G[n[p]]]) = g[p][G[NextAt(f, p)]]
  <2>1. n[p] = NextAt(f, p) /\ n[p] \in Nat /\ G[n[p]] \in V
    BY <1>2, <1>6 DEF n
  <2> QED BY <2>1 DEF Stop, b
<1>8. G = [p \in Nat |-> g[p][G[NextAt(f, p)]]]
  BY <1>6, <1>7 DEF Walks
<1> QED BY <1>6, <1>8

\* What holds behind `end', and of an element whenever it holds of the next
\* one, holds everywhere.
LEMMA FileInduction ==
  ASSUME NEW f, LegalFile(f), NEW end \in 0 .. Far, NEW Good,
         \A p \in Nat : p >= end => p \in Good,
         \A p \in Nat : p < end /\ NextAt(f, p) \in Good => p \in Good
  PROVE  Nat \subseteq Good
<1> DEFINE m == [p \in Nat |-> IF p < end THEN end - p ELSE 0]
<1>1. m \in [Nat -> Nat]
  OBVIOUS
<1>2. ASSUME NEW p \in Nat, \A e \in Nat : m[e] < m[p] => e \in Good PROVE p \in Good
  <2>1. CASE p >= end
    BY <2>1
  <2>2. CASE p < end
    <3>1. p < Far /\ Far \in Nat
      BY <2>2, ProbeAssumption
    <3>2. NextAt(f, p) \in Nat /\ NextAt(f, p) > p
      BY <3>1, NextIs DEF NextAt
    <3> QED BY <1>2, <2>2, <3>2
  <2> QED BY <2>1, <2>2
<1> HIDE DEF m
<1> QED BY <1>1, <1>2, MeasureInduction

-----------------------------------------------------------------------------
(* The walk of parse_block_group.                                          *)

\* What it may yield.
GroupResults(f) ==
  [err : BOOLEAN, block : Nat \cup {None},
   duration : {None} \cup {Header(f, p).v : p \in Nat}, key : BOOLEAN, to : Nat]

LEMMA GroupIs ==
  ASSUME NEW f, LegalFile(f), NEW end \in 0 .. Far, NEW body \in Nat
  PROVE  \E G \in [Nat -> GroupResults(f)] :
           /\ Group(f, body, end) = G[body]
           /\ \A p \in Nat : G[p] = GroupTurn(f, p, end, G[NextAt(f, p)])
<1> DEFINE V == GroupResults(f)
           v0 == [err |-> TRUE, block |-> None, duration |-> None, key |-> TRUE, to |-> 0]
           g == [p \in Nat |-> [rest \in V |-> GroupTurn(f, p, end, rest)]]
<1>1. v0 \in V
  BY DEF GroupResults
<1>2. g \in [Nat -> [V -> V]]
  <2> SUFFICES ASSUME NEW p \in Nat, NEW rest \in V PROVE GroupTurn(f, p, end, rest) \in V
    OBVIOUS
  <2> DEFINE c == Header(f, p)
  <2>1. c.v \in {Header(f, q).v : q \in Nat}
    OBVIOUS
  <2> HIDE DEF c
  <2>2. /\ [rest EXCEPT !.block = p] \in V /\ [rest EXCEPT !.duration = c.v] \in V
        /\ [rest EXCEPT !.key = FALSE] \in V
    BY <2>1 DEF GroupResults
  <2>3. /\ [err |-> FALSE, block |-> None, duration |-> None, key |-> TRUE, to |-> p] \in V
        /\ [err |-> TRUE, block |-> None, duration |-> None, key |-> TRUE, to |-> p] \in V
    BY DEF GroupResults
  <2> HIDE DEF V
  <2> QED BY <2>2, <2>3 DEF GroupTurn, c
<1>3. \A p \in Nat : p >= end => \A r \in V : g[p][r] = g[p][v0]
  <2> HIDE DEF V, v0
  <2> QED BY <1>1 DEF GroupTurn
<1> HIDE DEF V, v0
<1>4. ASSUME NEW G \in [Nat -> V], NEW p \in Nat
      PROVE  g[p][G[NextAt(f, p)]] = GroupTurn(f, p, end, G[NextAt(f, p)])
  <2>1. NextAt(f, p) \in Nat
    BY NextIs DEF NextAt
  <2> QED BY <2>1
<1> HIDE DEF g
<1>5. PICK G \in [Nat -> V] : G = [p \in Nat |-> g[p][G[NextAt(f, p)]]]
  BY <1>1, <1>2, <1>3, FileWalkExists
<1> DEFINE Turns(H) == H = [p \in Nat |-> GroupTurn(f, p, end, H[NextAt(f, p)])]
<1>6. Turns(G)
  BY <1>4, <1>5
<1> DEFINE K == CHOOSE H : Turns(H)
<1>7. Turns(K)
  <2> HIDE DEF Turns
  <2> QED BY <1>6
<1>8. Group(f, body, end) = K[body]
  BY DEF Group
<1>9. Nat \subseteq {p \in Nat : K[p] = G[p]}
  <2> DEFINE Good == {p \in Nat : K[p] = G[p]}
  <2>1. \A p \in Nat : K[p] = GroupTurn(f, p, end, K[NextAt(f, p)])
    BY <1>7
  <2>2. \A p \in Nat : G[p] = GroupTurn(f, p, end, G[NextAt(f, p)])
    BY <1>6
  <2> HIDE DEF Turns, K
  <2>3. \A p \in Nat : p >= end => p \in Good
    BY <2>1, <2>2 DEF GroupTurn
  <2>4. \A p \in Nat : p < end /\ NextAt(f, p) \in Good => p \in Good
    BY <2>1, <2>2
  <2> HIDE DEF Good
  <2>5. Nat \subseteq Good
    BY <2>3, <2>4, FileInduction
  <2> QED BY <2>5 DEF Good
<1>10. \A p \in Nat : G[p] = GroupTurn(f, p, end, G[NextAt(f, p)])
  BY <1>6
<1> HIDE DEF Turns, K
<1>11. Group(f, body, end) = G[body]
  BY <1>8, <1>9
<1> QED BY <1>5, <1>10, <1>11 DEF V
\* The walk stays behind where it starts, and its Block between there and
\* where it stops.
LEMMA GroupWithin ==
  ASSUME NEW f, LegalFile(f), NEW end \in 0 .. Far, NEW body \in 0 .. Far
  PROVE  LET r == Group(f, body, end) IN
         /\ r.to \in body .. Far
         /\ r.block # None => r.block \in body .. r.to - 1 /\ Header(f, r.block).id = "Block"
<1>0. Far \in Nat /\ None \notin Nat
  BY ProbeAssumption DEF None
<1> body \in Nat
  BY <1>0
<1>1. PICK G \in [Nat -> GroupResults(f)] :
        /\ Group(f, body, end) = G[body]
        /\ \A p \in Nat : G[p] = GroupTurn(f, p, end, G[NextAt(f, p)])
  BY GroupIs
<1> DEFINE Within(p, r) ==
             p <= Far => /\ r.to \in p .. Far
                         /\ r.block # None => r.block \in p .. r.to - 1 /\ Header(f, r.block).id = "Block"
           Good == {p \in Nat : Within(p, G[p])}
<1>2. ASSUME NEW p \in Nat, p >= end PROVE p \in Good
  <2>1. G[p] = [err |-> FALSE, block |-> None, duration |-> None, key |-> TRUE, to |-> p]
    BY <1>1, <1>2 DEF GroupTurn
  <2> QED BY <2>1
<1>3. ASSUME NEW p \in Nat, p < end, NextAt(f, p) \in Good PROVE p \in Good
  <2> DEFINE c == Header(f, p)
             next == NextAt(f, p)
             rest == G[next]
  <2>1. p < Far /\ next \in Nat /\ next <= Far /\ next > p
    <3>1. p < Far
      BY <1>0, <1>3
    <3> QED BY <3>1, <1>0, NextIs DEF NextAt
  <2>2. /\ rest \in GroupResults(f) /\ Within(next, rest)
        /\ G[p] = GroupTurn(f, p, end, rest)
    BY <1>1, <1>3, <2>1
  <2> HIDE DEF c, next, rest, Within
  <2>3. CASE ~Parses(c) \/ (c.id # "Void" /\ ~Readable(f, p))
    <3>1. G[p] = [err |-> TRUE, block |-> None, duration |-> None, key |-> TRUE, to |-> p]
      BY <1>3, <2>2, <2>3 DEF GroupTurn, c
    <3> QED BY <2>1, <3>1 DEF Within
  <2>4. CASE ~(~Parses(c) \/ (c.id # "Void" /\ ~Readable(f, p)))
    <3>1. G[p] = CASE c.id = "Block" /\ rest.block = None -> [rest EXCEPT !.block = p]
                   [] c.id = "BlockDuration" /\ rest.duration = None -> [rest EXCEPT !.duration = c.v]
                   [] c.id = "ReferenceBlock" -> [rest EXCEPT !.key = FALSE]
                   [] OTHER -> rest
      BY <1>3, <2>2, <2>4 DEF GroupTurn, c
    <3>2. rest.to \in next .. Far /\ rest.to > p
      BY <2>1, <2>2 DEF Within
    <3>3. CASE c.id = "Block" /\ rest.block = None
      <4>1. G[p] = [rest EXCEPT !.block = p]
        BY <3>1, <3>3
      <4>2. G[p].to = rest.to /\ G[p].block = p
        BY <2>2, <4>1 DEF GroupResults
      <4> QED BY <2>1, <3>2, <3>3, <4>2 DEF Within, c
    <3>4. CASE ~(c.id = "Block" /\ rest.block = None)
      <4>1. G[p].to = rest.to /\ G[p].block = rest.block
        BY <2>2, <3>1, <3>4 DEF GroupResults
      <4>2. Within(p, rest)
        BY <1>0, <2>1, <2>2, <3>2 DEF Within
      <4> QED BY <4>1, <4>2 DEF Within
    <3> QED BY <3>3, <3>4
  <2> QED BY <2>3, <2>4
<1> HIDE DEF Good
<1>4. body \in Good
  <2>1. Nat \subseteq Good
    BY <1>2, <1>3, FileInduction
  <2> QED BY <1>0, <2>1
<1> QED BY <1>0, <1>1, <1>4 DEF Good

-----------------------------------------------------------------------------
(* The walk of parse_tags and the other masters' parsers.                  *)

\* What it may yield.
LiftResults(f) ==
  [values : [ValueIds -> Seq({Header(f, p).v : p \in Nat})], err : BOOLEAN, to : Nat]

LEMMA LiftTurnType ==
  ASSUME NEW f, NEW p \in Nat, NEW end, NEW rest \in LiftResults(f)
  PROVE  LiftTurn(f, p, end, rest) \in LiftResults(f)
<1> DEFINE c == Header(f, p)
           C == {Header(f, q).v : q \in Nat}
           W == [ValueIds -> Seq(C)]
<1>1. c.v \in C
  OBVIOUS
<1>2. LiftResults(f) = [values : W, err : BOOLEAN, to : Nat]
  BY DEF LiftResults
<1>3. Nothing \in W
  BY DEF Nothing
<1>4. c.id \in ValueIds => [rest.values EXCEPT ![c.id] = <<c.v>> \o @] \in W
  <2> SUFFICES ASSUME c.id \in ValueIds PROVE [rest.values EXCEPT ![c.id] = <<c.v>> \o @] \in W
    OBVIOUS
  <2> HIDE DEF c, C
  <2>1. rest.values \in W /\ rest.values[c.id] \in Seq(C)
    BY <1>2
  <2>2. <<c.v>> \o rest.values[c.id] \in Seq(C)
    BY <1>1, <2>1
  <2> QED BY <2>1, <2>2
<1>5. \/ LiftTurn(f, p, end, rest) \in {[values |-> Nothing, err |-> FALSE, to |-> p],
                                       [values |-> Nothing, err |-> TRUE, to |-> p], rest}
      \/ c.id \in ValueIds /\ LiftTurn(f, p, end, rest) = [rest EXCEPT !.values[c.id] = <<c.v>> \o @]
  BY DEF LiftTurn
<1> HIDE DEF c, C, W
<1>6. [values |-> Nothing, err |-> FALSE, to |-> p] \in LiftResults(f)
      /\ [values |-> Nothing, err |-> TRUE, to |-> p] \in LiftResults(f)
  BY <1>2, <1>3
<1>7. c.id \in ValueIds => [rest EXCEPT !.values[c.id] = <<c.v>> \o @] \in LiftResults(f)
  BY <1>2, <1>4
<1> QED BY <1>5, <1>6, <1>7

\* It takes one turn at each child; it stays behind where it starts.
LEMMA LiftedIs ==
  ASSUME NEW f, LegalFile(f), NEW end \in 0 .. Far, NEW body \in Nat
  PROVE  /\ Lifted(f, body, end) \in LiftResults(f)
         /\ Lifted(f, body, end) = LiftTurn(f, body, end, Lifted(f, NextAt(f, body), end))
         /\ body <= Far => Lifted(f, body, end).to \in body .. Far
<1> DEFINE V == LiftResults(f)
           v0 == [values |-> Nothing, err |-> TRUE, to |-> 0]
           g == [p \in Nat |-> [rest \in V |-> LiftTurn(f, p, end, rest)]]
<1>0. Far \in Nat
  BY ProbeAssumption
<1>1. v0 \in V
  BY DEF LiftResults, Nothing
<1>2. g \in [Nat -> [V -> V]]
  BY LiftTurnType
<1>3. \A p \in Nat : p >= end => \A r \in V : g[p][r] = g[p][v0]
  <2> HIDE DEF V, v0
  <2> QED BY <1>1 DEF LiftTurn
<1> HIDE DEF V, v0
<1>4. ASSUME NEW G \in [Nat -> V], NEW p \in Nat
      PROVE  g[p][G[NextAt(f, p)]] = LiftTurn(f, p, end, G[NextAt(f, p)])
  <2>1. NextAt(f, p) \in Nat
    BY NextIs DEF NextAt
  <2> QED BY <2>1
<1> HIDE DEF g
<1>5. PICK G \in [Nat -> V] : G = [p \in Nat |-> g[p][G[NextAt(f, p)]]]
  BY <1>1, <1>2, <1>3, FileWalkExists
<1> DEFINE Turns(H) == H = [p \in Nat |-> LiftTurn(f, p, end, H[NextAt(f, p)])]
<1>6. Turns(G)
  BY <1>4, <1>5
<1> DEFINE K == CHOOSE H : Turns(H)
<1>7. Turns(K)
  <2> HIDE DEF Turns
  <2> QED BY <1>6
<1>8. \A p \in Nat : Lifted(f, p, end) = K[p]
  BY DEF Lifted
<1>9. \A p \in Nat : K[p] = LiftTurn(f, p, end, K[NextAt(f, p)])
  BY <1>7
<1>10. \A p \in Nat : G[p] = LiftTurn(f, p, end, G[NextAt(f, p)])
  BY <1>6
<1> HIDE DEF Turns, K
<1> DEFINE Good == {p \in Nat : K[p] = G[p] /\ (p <= Far => G[p].to \in p .. Far)}
<1>11. ASSUME NEW p \in Nat, p >= end PROVE p \in Good
  <2>1. \A rest : LiftTurn(f, p, end, rest) = [values |-> Nothing, err |-> FALSE, to |-> p]
    BY <1>11 DEF LiftTurn
  <2>2. K[p] = LiftTurn(f, p, end, K[NextAt(f, p)])
    BY <1>9
  <2>3. G[p] = LiftTurn(f, p, end, G[NextAt(f, p)])
    BY <1>10
  <2>4. LiftTurn(f, p, end, K[NextAt(f, p)]) = [values |-> Nothing, err |-> FALSE, to |-> p]
    BY <2>1
  <2>5. LiftTurn(f, p, end, G[NextAt(f, p)]) = [values |-> Nothing, err |-> FALSE, to |-> p]
    BY <2>1
  <2>6. K[p] = [values |-> Nothing, err |-> FALSE, to |-> p] /\ G[p] = K[p]
    BY <2>2, <2>3, <2>4, <2>5
  <2>7. K[p] = G[p] /\ G[p].to = p
    BY <2>6
  <2> QED BY <1>0, <2>7
<1>12. ASSUME NEW p \in Nat, p < end, NextAt(f, p) \in Good PROVE p \in Good
  <2> DEFINE next == NextAt(f, p)
             rest == G[next]
  <2>1. p < Far /\ next \in Nat /\ next <= Far /\ next > p
    <3>1. p < Far
      BY <1>0, <1>12
    <3> QED BY <3>1, <1>0, NextIs DEF NextAt
  <2>2. /\ rest \in V /\ rest.to \in next .. Far
        /\ K[p] = LiftTurn(f, p, end, rest) /\ G[p] = LiftTurn(f, p, end, rest)
    BY <1>9, <1>10, <1>12, <2>1
  <2> HIDE DEF next, rest
  <2>3. LiftTurn(f, p, end, rest).to = p \/ LiftTurn(f, p, end, rest).to = rest.to
    BY <2>2 DEF LiftTurn, V, LiftResults
  <2> QED BY <1>0, <2>1, <2>2, <2>3
<1> HIDE DEF Good
<1>13. Nat \subseteq Good
  BY <1>11, <1>12, FileInduction
<1>14. \A p \in Nat : K[p] \in V /\ (p <= Far => K[p].to \in p .. Far)
  BY <1>5, <1>13 DEF Good
<1>15. NextAt(f, body) \in Nat
  BY NextIs DEF NextAt
<1> QED BY <1>8, <1>9, <1>14, <1>15 DEF V

LEMMA LiftedWithin ==
  ASSUME NEW f, LegalFile(f), NEW end \in 0 .. Far, NEW body \in 0 .. Far
  PROVE  Lifted(f, body, end).to \in body .. Far
<1>1. body \in Nat /\ body <= Far
  BY ProbeAssumption
<1> QED BY <1>1, LiftedIs
-----------------------------------------------------------------------------
(* What a turn of the loop takes out of the file.                          *)

LEMMA ClusterEndIs ==
  ASSUME LegalFile(file), NEW p \in 0 .. Far
  PROVE  ClusterEnd(file, p, SegmentEnd) \in 0 .. Far /\ WalkEnd(p) \in 0 .. Far
<1> DEFINE e == ClusterEnd(file, p, SegmentEnd)
<1>1. SegmentEnd \in 0 .. Far
  BY SegmentEndIs
<1>2. p \in Nat /\ Far \in Nat
  BY ProbeAssumption
<1>3. e \in 0 .. Far
  BY <1>1, <1>2, NextIs DEF ClusterEnd
<1>4. WalkEnd(p) = IF Resilient THEN Min({e, SegmentEnd}) ELSE e
  BY DEF WalkEnd
<1> HIDE DEF e
<1>5. Min({e, SegmentEnd}) = IF e <= SegmentEnd THEN e ELSE SegmentEnd
  BY <1>1, <1>3, MinOfTwo
<1> QED BY <1>1, <1>3, <1>4, <1>5 DEF e

\* The packets of a Block: where it is, its frames in order.
LEMMA PacketsAre ==
  ASSUME NEW b, b.frames \in Nat, NEW p, NEW tc, NEW default, NEW duration
  PROVE  LET P == Packets(b, p, tc, default, duration) IN
         /\ P \in Seq(Range(P)) /\ DOMAIN P \subseteq Nat
         /\ \A i \in DOMAIN P : P[i].at = p /\ P[i].frame = i
<1> DEFINE P == Packets(b, p, tc, default, duration)
<1>1. CASE b.track \notin DOMAIN TrackIndex
  <2>1. P = <<>>
    BY <1>1 DEF Packets
  <2> QED BY <2>1
<1>2. CASE b.track \in DOMAIN TrackIndex
  <2> DEFINE perFrame == IF duration = None THEN None ELSE duration \div Max({b.frames, 1})
             pts(i) == tc + b.off + (IF perFrame = None THEN 0 ELSE perFrame * (i - 1))
             Q == [i \in 1 .. b.frames |->
                     [stream |-> TrackIndex[b.track], at |-> p, frame |-> i, pts |-> pts(i),
                      duration |-> perFrame, key |-> KeyFlag(b, default)]]
  <2>1. P = Q
    BY <1>2 DEF Packets
  <2> HIDE DEF perFrame, pts
  <2>2. DOMAIN Q = 1 .. b.frames /\ \A i \in 1 .. b.frames : Q[i].at = p /\ Q[i].frame = i
    OBVIOUS
  <2>3. Q = [i \in 1 .. b.frames |-> Q[i]]
    OBVIOUS
  <2> HIDE DEF Q
  <2>4. Q \in [1 .. b.frames -> Range(Q)]
    BY <2>2, <2>3 DEF Range
  <2>5. Q \in Seq(Range(Q))
    BY <2>4
  <2> QED BY <2>1, <2>2, <2>5
<1> QED BY <1>1, <1>2
-----------------------------------------------------------------------------
(* A loop that makes a bounded measure smaller ends where it may stop, and *)
(* in any set of states that contains its start and that its steps keep.   *)
Descends(D, step, stop, m, K) ==
  /\ K \in Nat /\ DOMAIN step = D /\ m \in [D -> 0 .. K]
  /\ \A d \in D \ stop : step[d] \in D /\ m[step[d]] < m[d]
Keeps(step, stop, G) == \A d \in G \ stop : step[d] \in G

LEMMA UntilIs ==
  ASSUME NEW D, NEW step, NEW stop, NEW m, NEW K, Descends(D, step, stop, m, K),
         NEW G, G \subseteq D, Keeps(step, stop, G), NEW x, x \in G
  PROVE  Until(stop, step, x) \in G /\ Until(stop, step, x) \in stop
<1>0. /\ K \in Nat /\ DOMAIN step = D /\ m \in [D -> 0 .. K]
      /\ \A d \in D \ stop : step[d] \in D /\ m[step[d]] < m[d]
      /\ \A d \in G \ stop : step[d] \in G
  BY DEF Descends, Keeps
<1> DEFINE n == [d \in D |-> IF d \in stop THEN d ELSE step[d]]
           b == [d \in D |-> d]
           g == [d \in D |-> [v \in D |-> v]]
           Loops(W) == W = [d \in DOMAIN step |-> IF d \in stop THEN d ELSE W[step[d]]]
           L == CHOOSE W : Loops(W)
<1>1. n \in [D -> D] /\ b \in [D -> D] /\ g \in [D -> [D -> D]]
  BY <1>0
<1>2. \A d \in D \ stop : m[n[d]] < m[d]
  BY <1>0
<1>3. \A d \in D : /\ b[d] = d
                   /\ d \notin stop => n[d] = step[d]
                   /\ \A v \in D : g[d][v] = v
  OBVIOUS
<1>4. Until(stop, step, x) = L[x]
  BY DEF Until
<1> HIDE DEF n, b, g
<1>5. PICK F \in [D -> D] : Walks(F, D, stop, b, n, g)
  BY <1>0, <1>1, <1>2, WalkExists
<1>6. \A d \in D : (IF d \in stop THEN b[d] ELSE g[d][F[n[d]]]) = IF d \in stop THEN d ELSE F[step[d]]
  BY <1>0, <1>1, <1>3
<1>7. Loops(F)
  BY <1>0, <1>5, <1>6 DEF Walks
<1>8. Loops(L)
  <2> HIDE DEF Loops
  <2> QED BY <1>7
<1>9. \A d \in D : L[d] = IF d \in stop THEN d ELSE L[step[d]]
  BY <1>0, <1>8
<1> HIDE DEF Loops, L
<1> DEFINE Good == {d \in D : d \in G => L[d] \in G \cap stop}
<1>10. ASSUME NEW d \in D, \A e \in D : m[e] < m[d] => e \in Good
       PROVE  d \in Good
  <2>1. CASE d \in stop
    BY <1>9, <2>1
  <2>2. CASE d \notin stop
    BY <1>0, <1>9, <1>10, <2>2
  <2> QED BY <2>1, <2>2
<1>11. m \in [D -> Nat]
  BY <1>0
<1> HIDE DEF Good
<1>12. D \subseteq Good
  BY <1>10, <1>11, MeasureInduction
<1>13. x \in Good
  BY <1>12
<1> QED BY <1>4, <1>13 DEF Good

\* Where the loop may stop at once it does.
LEMMA UntilStays ==
  ASSUME NEW D, NEW step, NEW stop, NEW m, NEW K, Descends(D, step, stop, m, K), NEW x \in D, x \in stop
  PROVE  Until(stop, step, x) = x
<1>1. Keeps(step, stop, {x}) /\ {x} \subseteq D
  BY DEF Keeps
<1>2. Until(stop, step, x) \in {x}
  BY <1>1, UntilIs
<1> QED BY <1>2

\* A loop over the elements from p on, up to a bound.
ElementsLeft(bound, p) == IF p < bound THEN bound - p ELSE 0
LEMMA ElementsRunOut ==
  ASSUME NEW f, LegalFile(f), NEW bound \in 0 .. Far, NEW p \in Nat
  PROVE  /\ NextAt(f, p) \in 0 .. Far /\ NextAt(f, p) \in Nat
         /\ ElementsLeft(bound, p) \in 0 .. Far
         /\ p < bound => ElementsLeft(bound, NextAt(f, p)) < ElementsLeft(bound, p) /\ NextAt(f, p) > p
<1>1. Far \in Nat /\ bound \in Nat /\ bound <= Far
  BY ProbeAssumption
<1>2. NextAt(f, p) \in 0 .. Far /\ (p < Far => NextAt(f, p) > p)
  BY NextIs DEF NextAt
<1> QED BY <1>1, <1>2 DEF ElementsLeft

\* A Cluster's Timestamp is a number, or None; it is the first child if that
\* is one.
LEMMA LeadingTimestampIs ==
  ASSUME NEW f, LegalFile(f), NEW body \in Nat, NEW limit \in 0 .. Far
  PROVE  /\ LeadingTimestamp(f, body, limit) \in Int
         /\ body < limit /\ Header(f, body).id = "Timecode" /\ Readable(f, body) =>
              LeadingTimestamp(f, body, limit) = Header(f, body).v
<1> DEFINE stop == {q \in Nat : q >= limit \/ Header(f, q).id \notin {"Crc", "Position", "PrevSize", "SilentTracks"}}
           step == [q \in Nat |-> NextAt(f, q)]
           m == [q \in Nat |-> ElementsLeft(limit, q)]
           p == Until(stop, step, body)
<1>1. DOMAIN step = Nat /\ Far \in Nat
  BY ProbeAssumption
<1>2. m \in [Nat -> 0 .. Far]
  BY ElementsRunOut
<1>3. \A q \in Nat \ stop : step[q] \in Nat /\ m[step[q]] < m[q]
  <2> TAKE q \in Nat \ stop
  <2>1. q < limit
    BY ProbeAssumption
  <2>2. NextAt(f, q) \in Nat /\ ElementsLeft(limit, NextAt(f, q)) < ElementsLeft(limit, q)
    BY <2>1, ElementsRunOut
  <2> QED BY <2>2
<1> DEFINE r == LeadingTimestamp(f, body, limit)
<1>4. r = IF p < limit /\ Header(f, p).id = "Timecode" /\ Readable(f, p) THEN Header(f, p).v ELSE None
  BY DEF LeadingTimestamp
<1>s. Header(f, body).id = "Timecode" => body \in stop
  OBVIOUS
<1> HIDE DEF stop, step, m
<1>d. Descends(Nat, step, stop, m, Far) /\ Keeps(step, stop, Nat)
  BY <1>1, <1>2, <1>3 DEF Descends, Keeps
<1>5. p \in Nat
  BY <1>d, UntilIs
<1>6. Header(f, body).id = "Timecode" => p = body
  BY <1>d, <1>s, UntilStays
<1> HIDE DEF p
<1>7. Header(f, p).id = "Timecode" => Header(f, p).v \in Int
  BY <1>5, HeaderIs
<1> HIDE DEF r
<1>8. r \in Int
  BY <1>4, <1>7 DEF None
<1> QED BY <1>4, <1>6, <1>8 DEF r
-----------------------------------------------------------------------------
(* Where a cue inside a Cluster puts the reader.                           *)

LEMMA RelativeLandingIs ==
  ASSUME LegalFile(file), NEW off \in 0 .. Far, NEW rel \in Nat \cup {None}
  PROVE  RelativeLanding(off, rel).at \in 0 .. Far
<1> DEFINE end == ClusterEnd(file, off, SegmentEnd)
           target == Past(off + 1, rel)
           D == [at : Nat, tc : Int]
           stop == {x \in D : \/ x.at >= target
                              \/ ~Parses(Header(file, x.at)) \/ NextAt(file, x.at) > end}
           step == [x \in D |-> [at |-> NextAt(file, x.at), tc |-> TcPast(x)]]
           w == Until(stop, step, [at |-> off + 1, tc |-> 0])
           m == [x \in D |-> ElementsLeft(target, x.at)]
<1>1. Far \in Nat /\ off + 1 \in Nat /\ target \in 0 .. Far
  <2>1. off + 1 \in Nat /\ Far \in Nat
    BY ProbeAssumption
  <2>2. rel \in Nat \cup {Unknown}
    BY DEF None, Unknown
  <2>3. target \in 0 .. Far
    BY <2>1, <2>2, PastIs
  <2> QED BY <2>1, <2>3
<1>2. RelativeLanding(off, rel) = IF target > end \/ w.at < target THEN Degraded(off) ELSE [w EXCEPT !.at = target]
  BY DEF RelativeLanding
<1> HIDE DEF target
<1>3. ASSUME NEW x \in D PROVE step[x] \in D
  <2>1. NextAt(file, x.at) \in Nat
    BY ElementsRunOut, <1>1
  <2>2. TcPast(x) \in Int
    BY HeaderIs DEF TcPast
  <2> QED BY <2>1, <2>2
<1>4. Descends(D, step, stop, m, Far)
  <2>1. m \in [D -> 0 .. Far]
    BY <1>1, ElementsRunOut
  <2>2. ASSUME NEW x \in D \ stop PROVE m[step[x]] < m[x]
    <3>1. x.at \in Nat /\ x.at < target
      BY <1>1
    <3>2. ElementsLeft(target, NextAt(file, x.at)) < ElementsLeft(target, x.at)
      BY <1>1, <3>1, ElementsRunOut
    <3>3. step[x] \in D /\ step[x].at = NextAt(file, x.at)
      BY <1>3
    <3> QED BY <3>2, <3>3
  <2>3. DOMAIN step = D
    OBVIOUS
  <2> HIDE DEF m, step, stop
  <2> QED BY <1>1, <1>3, <2>1, <2>2, <2>3 DEF Descends
<1>5. Keeps(step, stop, D)
  <2> HIDE DEF step, stop, D
  <2> QED BY <1>3 DEF Keeps
<1>6. [at |-> off + 1, tc |-> 0] \in D
  BY <1>1
<1>7. w \in D
  <2> HIDE DEF m, step, stop, D
  <2> QED BY <1>4, <1>5, <1>6, UntilIs
<1> HIDE DEF w, stop, step, end
<1>8. [w EXCEPT !.at = target].at = target /\ Degraded(off).at = off
  BY <1>7 DEF Degraded
<1> QED BY <1>1, <1>2, <1>8

LEMMA NumberedLandingIs ==
  ASSUME LegalFile(file), NEW off \in 0 .. Far, NEW num \in Nat
  PROVE  NumberedLanding(off, num).at \in 0 .. Far
<1> DEFINE end == ClusterEnd(file, off, SegmentEnd)
           D == [at : Nat, tc : Int, left : Int]
           IsBlock(p) == Header(file, p).id \in {"SimpleBlock", "BlockGroup"}
           stop == {x \in D : \/ x.at >= end \/ ~Parses(Header(file, x.at))
                              \/ IsBlock(x.at) /\ x.left = 1
                              \/ NextAt(file, x.at) > end}
           step == [x \in D |-> [at |-> NextAt(file, x.at), tc |-> TcPast(x),
                                 left |-> IF IsBlock(x.at) THEN x.left - 1 ELSE x.left]]
           w == Until(stop, step, [at |-> off + 1, tc |-> 0, left |-> num])
           m == [x \in D |-> ElementsLeft(end, x.at)]
<1>1. Far \in Nat /\ off + 1 \in Nat /\ end \in 0 .. Far
  <2>1. off + 1 \in Nat /\ Far \in Nat
    BY ProbeAssumption
  <2>2. end \in 0 .. Far
    BY ClusterEndIs
  <2> QED BY <2>1, <2>2
<1>2. NumberedLanding(off, num) =
        IF num # 0 /\ w.at < end /\ IsBlock(w.at) /\ w.left = 1 THEN [at |-> w.at, tc |-> w.tc]
        ELSE Degraded(off)
  BY DEF NumberedLanding
<1> HIDE DEF end
<1>3. ASSUME NEW x \in D PROVE step[x] \in D
  <2>1. NextAt(file, x.at) \in Nat
    BY ElementsRunOut, <1>1
  <2>2. TcPast(x) \in Int
    BY HeaderIs DEF TcPast
  <2> HIDE DEF IsBlock
  <2> QED BY <2>1, <2>2
<1>4. Descends(D, step, stop, m, Far)
  <2>1. m \in [D -> 0 .. Far]
    BY <1>1, ElementsRunOut
  <2>2. ASSUME NEW x \in D \ stop PROVE m[step[x]] < m[x]
    <3>1. x.at \in Nat /\ x.at < end
      BY <1>1
    <3>2. ElementsLeft(end, NextAt(file, x.at)) < ElementsLeft(end, x.at)
      BY <1>1, <3>1, ElementsRunOut
    <3>3. step[x] \in D /\ step[x].at = NextAt(file, x.at)
      BY <1>3
    <3> QED BY <3>2, <3>3
  <2>3. DOMAIN step = D
    OBVIOUS
  <2> HIDE DEF m, step, stop
  <2> QED BY <1>1, <1>3, <2>1, <2>2, <2>3 DEF Descends
<1>5. Keeps(step, stop, D)
  <2> HIDE DEF step, stop, D
  <2> QED BY <1>3 DEF Keeps
<1>6. [at |-> off + 1, tc |-> 0, left |-> num] \in D
  BY <1>1
<1>7. w \in D
  <2> HIDE DEF m, step, stop, D
  <2> QED BY <1>4, <1>5, <1>6, UntilIs
<1> HIDE DEF w, stop, step, IsBlock
<1>8. Degraded(off).at = off /\ [at |-> w.at, tc |-> w.tc].at = w.at
  BY DEF Degraded
<1>9. w.at < end => w.at \in 0 .. Far
  BY <1>1, <1>7
<1> QED BY <1>2, <1>8, <1>9
-----------------------------------------------------------------------------
(* Landings without the Cues.                                              *)

\* What ProbeFrom yields.
Probes == [off : Nat, ts : Int, next : Nat \cup {None}]

\* The first child of the Cluster at p is a Timestamp, whole, in a Cluster
\* that ends in front of `end'.
LeadsWithTimestamp(f, p, end) ==
  LET first == Header(f, p + 1) IN
  /\ first.id = "Timecode" /\ first.v # None /\ first.size # Unknown
  /\ p + 1 < end /\ NextAt(f, p + 1) <= end
  /\ Header(f, p).size # Unknown =>
       p + 1 < NextAt(f, p) /\ NextAt(f, p + 1) <= NextAt(f, p) /\ NextAt(f, p) <= end

LEMMA VetClusterIs ==
  ASSUME NEW f, LegalFile(f), NEW p \in Nat, NEW end \in 0 .. Far, NEW tolerate
  PROVE  LET c == VetCluster(f, p, end, tolerate)
             first == Header(f, p + 1) IN
         /\ \/ c = NoProbe
            \/ /\ c \in Probes /\ c.off = p
               /\ c.next \in (0 .. Far) \cup {None} /\ c.next \in {None, NextAt(f, p), end}
               /\ first.id = "Timecode" => c.ts = first.v
         /\ LeadsWithTimestamp(f, p, end) => c # NoProbe
<1> DEFINE h == Header(f, p)
           declared == Past(p + 1, h.size)
           limit == IF h.size = Unknown THEN end ELSE Min({declared, end})
           D == [at : Nat, seen : Nat]
           Plausible(x) ==
             LET c == Header(f, x.at) IN
             /\ x.at < limit /\ x.seen < VetChildren
             /\ c.size # Unknown /\ NextAt(f, x.at) <= limit /\ c.id \in ChildIds \ BlockIds
           stop == {x \in D : ~Plausible(x) \/ Header(f, x.at).id = "Timecode"}
           step == [x \in D |-> [at |-> NextAt(f, x.at), seen |-> x.seen + 1]]
           w == Until(stop, step, [at |-> p + 1, seen |-> 0])
           ts == IF Plausible(w) THEN Header(f, w.at).v ELSE None
           m == [x \in D |-> ElementsLeft(limit, x.at)]
<1>1. Far \in Nat /\ p + 1 \in Nat
  BY ProbeAssumption
<1>2. limit \in 0 .. Far
  <2>1. declared \in 0 .. Far
    BY NextIs
  <2>2. Min({declared, end}) \in {declared, end}
    <3> HIDE DEF declared
    <3>1. declared \in Int /\ end \in Int
      BY <1>1, <2>1
    <3> QED BY <3>1, MinOfTwo
  <2> QED BY <2>1, <2>2
<1>3. VetCluster(f, p, end, tolerate) =
        IF ts = None \/ (h.size # Unknown /\ declared > end /\ ~tolerate)
        THEN NoProbe
        ELSE [off |-> p, ts |-> ts, next |-> IF h.size = Unknown THEN None ELSE limit]
  BY DEF VetCluster
<1> HIDE DEF limit
<1>4. ASSUME NEW x \in D PROVE step[x] \in D
  <2>1. NextAt(f, x.at) \in Nat
    BY ElementsRunOut, <1>1
  <2> QED BY <2>1
<1>5. Descends(D, step, stop, m, Far)
  <2>1. m \in [D -> 0 .. Far]
    BY <1>2, ElementsRunOut
  <2>2. ASSUME NEW x \in D \ stop PROVE m[step[x]] < m[x]
    <3>1. x.at \in Nat /\ x.at < limit
      BY <1>2
    <3>2. ElementsLeft(limit, NextAt(f, x.at)) < ElementsLeft(limit, x.at)
      BY <1>2, <3>1, ElementsRunOut
    <3>3. step[x] \in D /\ step[x].at = NextAt(f, x.at)
      BY <1>4
    <3> QED BY <3>2, <3>3
  <2>3. DOMAIN step = D
    OBVIOUS
  <2> HIDE DEF m, step, stop
  <2> QED BY <1>1, <1>4, <2>1, <2>2, <2>3 DEF Descends
<1>6. Keeps(step, stop, D)
  <2> HIDE DEF step, stop, D
  <2> QED BY <1>4 DEF Keeps
<1>7. [at |-> p + 1, seen |-> 0] \in D
  BY <1>1
<1>8. w \in D /\ w \in stop
  <2> HIDE DEF m, step, stop, D
  <2> QED BY <1>5, <1>6, <1>7, UntilIs
<1> DEFINE x0 == [at |-> p + 1, seen |-> 0]
<1>9. Header(f, p + 1).id = "Timecode" => w = x0
  <2>1. x0 \in D /\ (Header(f, p + 1).id = "Timecode" => x0 \in stop)
    BY <1>7
  <2> HIDE DEF m, step, stop, D
  <2> QED BY <1>5, <2>1, UntilStays
<1> HIDE DEF w
<1>10. ts \in Int
  <2>1. CASE Plausible(w)
    <3>1. Header(f, w.at).id = "Timecode"
      BY <1>8, <2>1
    <3>2. Header(f, w.at).v \in Int
      BY <1>8, <3>1, HeaderIs
    <3> QED BY <2>1, <3>2
  <2>2. CASE ~Plausible(w)
    BY <2>2 DEF None
  <2> QED BY <2>1, <2>2
<1>11. Header(f, p + 1).id = "Timecode" => ts = None \/ ts = Header(f, p + 1).v
  BY <1>9
<1>12. declared = NextAt(f, p) /\ declared \in Nat /\ declared \in Int /\ end \in Nat /\ end \in Int
  BY <1>1, NextIs DEF NextAt
<1>13. LeadsWithTimestamp(f, p, end) => ts # None /\ ~(h.size # Unknown /\ declared > end)
  <2> SUFFICES ASSUME LeadsWithTimestamp(f, p, end)
               PROVE  ts # None /\ ~(h.size # Unknown /\ declared > end)
    OBVIOUS
  <2> DEFINE t == Header(f, p + 1)
  <2>1. /\ t.id = "Timecode" /\ t.v # None /\ t.size # Unknown /\ p + 1 < end /\ NextAt(f, p + 1) <= end
        /\ h.size # Unknown => p + 1 < declared /\ NextAt(f, p + 1) <= declared /\ declared <= end
    BY <1>12 DEF LeadsWithTimestamp
  <2>2. p + 1 < limit /\ NextAt(f, p + 1) <= limit
    <3>1. h.size # Unknown => limit = IF declared <= end THEN declared ELSE end
      <4> HIDE DEF declared
      <4> QED BY <1>12, MinOfTwo DEF limit
    <3>2. h.size = Unknown => limit = end
      BY DEF limit
    <3> HIDE DEF declared, h
    <3> QED BY <2>1, <3>1, <3>2
  <2>3. "Timecode" \in ChildIds \ BlockIds
    BY DEF ChildIds, FirstChildIds, BlockIds
  <2>4. Plausible(x0)
    BY <2>1, <2>2, <2>3, ProbeAssumption
  <2>5. ts = t.v
    BY <1>9, <2>1, <2>4
  <2>6. ~(h.size # Unknown /\ declared > end)
    <3> HIDE DEF declared, h
    <3> QED BY <1>12, <2>1
  <2> QED BY <2>1, <2>5, <2>6
<1>14. h.size # Unknown => limit \in {NextAt(f, p), end}
  <2> HIDE DEF declared
  <2> QED BY <1>12, MinOfTwo DEF limit
<1> DEFINE c == [off |-> p, ts |-> ts, next |-> IF h.size = Unknown THEN None ELSE limit]
           fine == ~(ts = None \/ (h.size # Unknown /\ declared > end /\ ~tolerate))
<1>15. LeadsWithTimestamp(f, p, end) => fine
  BY <1>13
<1> HIDE DEF ts, declared
<1>16. /\ c \in Probes
       /\ c.off = p /\ c.next \in (0 .. Far) \cup {None} /\ c.next \in {None, NextAt(f, p), end}
       /\ c.ts = ts /\ c # NoProbe
  BY <1>1, <1>2, <1>10, <1>14 DEF Probes, NoProbe, None
<1>17. VetCluster(f, p, end, tolerate) = IF fine THEN c ELSE NoProbe
  BY <1>3
<1>18. fine => ts # None
  OBVIOUS
<1> HIDE DEF c, fine
<1> QED BY <1>11, <1>15, <1>16, <1>17, <1>18

LEMMA ProbeFromIs ==
  ASSUME NEW f, LegalFile(f), NEW from \in Nat, NEW scanEnd \in Nat, NEW end \in 0 .. Far,
         NEW tolerate, NEW trusted
  PROVE  LET c == ProbeFrom(f, from, scanEnd, end, tolerate, trusted) IN
         /\ \/ c = NoProbe
            \/ /\ c \in Probes /\ c.off \in from .. end - 1 /\ c.next \in (0 .. Far) \cup {None}
               /\ c = VetCluster(f, c.off, end, tolerate) /\ Header(f, c.off).id = "Cluster"
               /\ c.off = trusted \/ ConfirmBoundary(f, c, end)
         /\ /\ trusted = from /\ from < scanEnd /\ from < end /\ Header(f, from).id = "Cluster"
            /\ VetCluster(f, from, end, tolerate) # NoProbe
            => c # NoProbe /\ c.off = from
<1> DEFINE hits == {p \in from .. Min({scanEnd, end}) - 1 :
                      /\ Header(f, p).id = "Cluster"
                      /\ LET c == VetCluster(f, p, end, tolerate)
                         IN  c # NoProbe /\ (p = trusted \/ ConfirmBoundary(f, c, end))}
           c == ProbeFrom(f, from, scanEnd, end, tolerate, trusted)
<1>1. c = IF hits = {} THEN NoProbe ELSE VetCluster(f, Min(hits), end, tolerate)
  BY DEF ProbeFrom
<1>2. end \in Nat /\ Far \in Nat
  BY ProbeAssumption
<1>3. Min({scanEnd, end}) \in Int /\ Min({scanEnd, end}) <= end
  BY <1>2, MinOfTwo
<1>4. hits \subseteq from .. end - 1
  <2> DEFINE least == Min({scanEnd, end})
  <2>1. hits \subseteq from .. least - 1 /\ least \in Int /\ least <= end
    BY <1>3
  <2> HIDE DEF least, hits
  <2> QED BY <1>2, <2>1
<1>t. ASSUME trusted = from, from < scanEnd, from < end, Header(f, from).id = "Cluster",
             VetCluster(f, from, end, tolerate) # NoProbe
      PROVE  from \in hits
  <2>1. from < Min({scanEnd, end})
    BY <1>2, <1>t, MinOfTwo
  <2> DEFINE least == Min({scanEnd, end})
  <2>2. from \in from .. least - 1
    <3>1. least \in Int /\ from < least
      BY <1>3, <2>1
    <3> HIDE DEF least
    <3> QED BY <3>1
  <2> QED BY <1>t, <2>2
<1> HIDE DEF hits, c
<1>5. CASE hits # {}
  <2>1. hits \in SUBSET Nat /\ hits \in SUBSET Int
    BY <1>2, <1>4
  <2>2. PICK x \in hits : \A y \in hits : x <= y
    BY <1>5, <2>1, LeastNat
  <2>3. Min(hits) = x
    BY <2>1, <2>2, MinIs
  <2>4. x \in from .. end - 1 /\ x \in Nat
    BY <1>4, <2>1
  <2> DEFINE v == VetCluster(f, x, end, tolerate)
  <2>5. v = NoProbe \/ /\ v \in Probes /\ v.off = x /\ v.next \in (0 .. Far) \cup {None}
    BY <2>4, VetClusterIs DEF Probes
  <2>6. c = v
    BY <1>1, <1>5, <2>3
  <2>7. v # NoProbe /\ Header(f, x).id = "Cluster" /\ (x = trusted \/ ConfirmBoundary(f, v, end))
    BY <2>2 DEF hits
  <2> HIDE DEF v
  <2>8. /\ c \in Probes /\ c.off \in from .. end - 1 /\ c.next \in (0 .. Far) \cup {None} /\ c.off = x
        /\ Header(f, c.off).id = "Cluster" /\ (c.off = trusted \/ ConfirmBoundary(f, c, end))
    BY <2>4, <2>5, <2>6, <2>7
  <2>9. c = VetCluster(f, c.off, end, tolerate)
    BY <2>6, <2>8 DEF v
  <2>10. from \in hits => c.off = from
    <3>1. from \in hits => x = from
      BY <1>2, <1>4, <2>2, <2>4
    <3> QED BY <2>8, <3>1
  <2>11. c # NoProbe
    BY <2>4, <2>8, <1>2 DEF NoProbe, None
  <2> QED BY <1>t, <2>8, <2>9, <2>10, <2>11 DEF c
<1>6. CASE hits = {}
  <2>1. c = NoProbe
    BY <1>1, <1>6
  <2> QED BY <1>6, <1>t, <2>1 DEF c
<1> QED BY <1>5, <1>6

\* The walk of LinearScan: its states, what it makes of the element at p.
LinearStates == [at : Nat \cup {None}, best : [off : Nat \cup {None}, ts : Int]]
LinearBound(f, end, p) == Min({NextAt(f, p), end})
LinearTs(f, end, p) ==
  IF Header(f, p).id # "Cluster" THEN None
  ELSE LeadingTimestamp(f, p + 1, IF Header(f, p).size = Unknown THEN end ELSE LinearBound(f, end, p))
LinearBehind(f, end, target, p) ==
  IF LinearTs(f, end, p) # None /\ LinearTs(f, end, p) >= target THEN None
  ELSE IF Parses(Header(f, p)) /\ Header(f, p).size # Unknown THEN LinearBound(f, end, p)
  ELSE ScanTopLevel(f, p + 1, end)
LinearBest(f, end, target, p, best) ==
  IF LinearTs(f, end, p) # None /\ (LinearTs(f, end, p) <= target \/ best.off = None)
  THEN [off |-> p, ts |-> LinearTs(f, end, p)] ELSE best
LinearStop(end) == {x \in LinearStates : x.at = None \/ x.at >= end}
LinearStep(f, end, target) ==
  [x \in LinearStates |-> [at |-> LinearBehind(f, end, target, x.at),
                           best |-> LinearBest(f, end, target, x.at, x.best)]]
LinearStart(f) == [at |-> f.first, best |-> [off |-> None, ts |-> None]]
LinearEnd(f, end, target) == Until(LinearStop(end), LinearStep(f, end, target), LinearStart(f))

LEMMA LinearScanWalks ==
  ASSUME NEW f, NEW end, NEW target
  PROVE  LinearScan(f, end, target) =
           LET best == LinearEnd(f, end, target).best
           IN  IF best.off = None THEN NoLanding
               ELSE [off |-> best.off, ts |-> best.ts, how |-> "LinearScan"]
BY DEF LinearScan, LinearEnd, LinearStop, LinearStep, LinearStart, LinearStates, LinearBound, LinearTs,
  LinearBehind, LinearBest

\* One turn of the walk.
LEMMA LinearTurnIs ==
  ASSUME NEW f, LegalFile(f), NEW end \in 0 .. Far, NEW target \in Int, NEW p \in Nat, p < end
  PROVE  /\ LinearTs(f, end, p) \in Int
         /\ LinearBound(f, end, p) \in {NextAt(f, p), end}
         /\ LET to == LinearBehind(f, end, target, p)
            IN  /\ to = None \/ (to \in Nat /\ to > p /\ to <= end)
                /\ \/ to \in {None, ScanTopLevel(f, p + 1, end)}
                   \/ Parses(Header(f, p)) /\ Header(f, p).size # Unknown /\ to \in {NextAt(f, p), end}
                /\ Parses(Header(f, p)) /\ Header(f, p).size # Unknown => to \in {None, NextAt(f, p), end}
<1> DEFINE bound == LinearBound(f, end, p)
           ts == LinearTs(f, end, p)
           to == LinearBehind(f, end, target, p)
           limit == IF Header(f, p).size = Unknown THEN end ELSE bound
<1>1. Far \in Nat /\ end \in Nat /\ end <= Far /\ None \in Int /\ None \notin Nat
  BY ProbeAssumption DEF None
<1>2. /\ NextAt(f, p) \in 0 .. Far /\ NextAt(f, p) \in Nat
      /\ p < end => NextAt(f, p) > p
  BY ElementsRunOut
<1>3. bound \in Nat /\ bound \in 0 .. Far /\ bound > p /\ bound <= end /\ bound \in {NextAt(f, p), end}
  <2>1. NextAt(f, p) \in Int /\ end \in Int
    BY <1>1, <1>2
  <2>2. bound = IF NextAt(f, p) <= end THEN NextAt(f, p) ELSE end
    BY <2>1, MinOfTwo DEF LinearBound
  <2> HIDE DEF bound
  <2> QED BY <1>1, <1>2, <2>2
<1>4. ts = IF Header(f, p).id # "Cluster" THEN None ELSE LeadingTimestamp(f, p + 1, limit)
  BY DEF LinearTs
<1> HIDE DEF bound
<1>5. limit \in 0 .. Far /\ p + 1 \in Nat
  BY <1>3
<1> HIDE DEF limit
<1>6. LeadingTimestamp(f, p + 1, limit) \in Int
  BY <1>5, LeadingTimestampIs
<1>7. ts \in Int
  BY <1>1, <1>4, <1>6
<1>8. ScanTopLevel(f, p + 1, end) = None \/ ScanTopLevel(f, p + 1, end) \in p + 1 .. end - 1
  BY <1>1, <1>5, ScanIs
<1>9. /\ to = None \/ to = bound \/ to = ScanTopLevel(f, p + 1, end)
      /\ \/ to \in {None, ScanTopLevel(f, p + 1, end)}
         \/ Parses(Header(f, p)) /\ Header(f, p).size # Unknown /\ to = bound
      /\ Parses(Header(f, p)) /\ Header(f, p).size # Unknown => to \in {None, bound}
  BY DEF LinearBehind, bound
<1> HIDE DEF ts, to
<1>10. to = None \/ (to \in Nat /\ to > p /\ to <= end)
  BY <1>1, <1>3, <1>8, <1>9
<1> QED BY <1>3, <1>7, <1>9, <1>10 DEF ts, to, bound

\* The walk stays in any set of states its turns keep.
LEMMA LinearScanStays ==
  ASSUME NEW f, LegalFile(f), NEW end \in 0 .. Far, NEW target \in Int,
         NEW G, G \subseteq LinearStates, LinearStart(f) \in G,
         \A x \in G : x.at \in Nat /\ x.at < end =>
           [at |-> LinearBehind(f, end, target, x.at),
            best |-> LinearBest(f, end, target, x.at, x.best)] \in G
  PROVE  LinearEnd(f, end, target) \in G
<1> DEFINE D == LinearStates
           stop == LinearStop(end)
           step == LinearStep(f, end, target)
           m == [x \in D |-> IF x.at = None THEN 0 ELSE ElementsLeft(end, x.at)]
<1>1. Far \in Nat /\ end \in Nat /\ end <= Far /\ None \in Int /\ None \notin Nat
  BY ProbeAssumption DEF None
<1>2. ASSUME NEW x \in D \ stop
      PROVE  x.at \in Nat /\ x.at < end /\ step[x] \in D /\ m[step[x]] < m[x]
  <2>1. x.at \in Nat /\ x.at < end /\ x.best \in [off : Nat \cup {None}, ts : Int] /\ x \in D
    BY <1>1 DEF LinearStates, LinearStop
  <2> DEFINE to == LinearBehind(f, end, target, x.at)
             b == LinearBest(f, end, target, x.at, x.best)
             y == [at |-> to, best |-> b]
  <2>2. /\ LinearTs(f, end, x.at) \in Int
        /\ to = None \/ (to \in Nat /\ to > x.at /\ to <= end)
    BY <2>1, LinearTurnIs
  <2>3. b \in [off : Nat \cup {None}, ts : Int]
    BY <2>1, <2>2 DEF LinearBest
  <2>4. step[x] = y
    BY <2>1 DEF LinearStep
  <2> HIDE DEF b, to
  <2>5. y \in D
    BY <2>2, <2>3 DEF LinearStates
  <2>6. m[x] = end - x.at
    BY <1>1, <2>1 DEF ElementsLeft
  <2>7. m[y] = IF to = None THEN 0 ELSE ElementsLeft(end, to)
    BY <2>5
  <2>8. m[y] < end - x.at
    BY <1>1, <2>1, <2>2, <2>7 DEF ElementsLeft
  <2> QED BY <2>1, <2>4, <2>5, <2>6, <2>8
<1>3. m \in [D -> 0 .. Far]
  <2> SUFFICES ASSUME NEW x \in D PROVE (IF x.at = None THEN 0 ELSE ElementsLeft(end, x.at)) \in 0 .. Far
    OBVIOUS
  <2>1. CASE x.at = None
    BY <1>1, <2>1
  <2>2. CASE x.at # None
    <3>1. x.at \in Nat
      BY <2>2 DEF LinearStates
    <3>2. ElementsLeft(end, x.at) \in 0 .. Far
      BY <3>1, ElementsRunOut
    <3> QED BY <2>2, <3>2
  <2> QED BY <2>1, <2>2
<1>4. DOMAIN step = D
  BY DEF LinearStep
<1>5. \A x \in G \ stop : step[x] \in G
  <2> SUFFICES ASSUME NEW x \in G \ stop PROVE step[x] \in G
    OBVIOUS
  <2>1. x \in D /\ x.at \in Nat /\ x.at < end
    BY <1>2
  <2>2. step[x] = [at |-> LinearBehind(f, end, target, x.at),
                   best |-> LinearBest(f, end, target, x.at, x.best)]
    BY <2>1 DEF LinearStep
  <2> QED BY <2>1, <2>2
<1> HIDE DEF m, step, stop, D
<1>6. Descends(D, step, stop, m, Far) /\ Keeps(step, stop, G) /\ G \subseteq D
  BY <1>1, <1>2, <1>3, <1>4, <1>5 DEF Descends, Keeps, D
<1>7. Until(stop, step, LinearStart(f)) \in G
  BY <1>6, UntilIs
<1> QED BY <1>7 DEF LinearEnd, stop, step

LEMMA LinearScanIs ==
  ASSUME NEW f, LegalFile(f), NEW end \in 0 .. Far, NEW target \in Int
  PROVE  LinearScan(f, end, target).off \in (0 .. Far) \cup {None}
<1> DEFINE G == {x \in LinearStates : x.best.off \in (0 .. Far) \cup {None}}
           w == LinearEnd(f, end, target)
<1>1. Far \in Nat /\ end \in Nat /\ end <= Far /\ None \in Int
  BY ProbeAssumption DEF None
<1>2. LinearStart(f) \in G
  <2>1. f.first \in Nat \cup {None}
    <3>1. f.first \in (0 .. Far) \cup {None}
      BY DEF LegalFile
    <3> QED BY <1>1, <3>1
  <2> QED BY <1>1, <2>1 DEF LinearStart, LinearStates
<1>3. ASSUME NEW x \in G, x.at \in Nat, x.at < end
      PROVE  [at |-> LinearBehind(f, end, target, x.at),
              best |-> LinearBest(f, end, target, x.at, x.best)] \in G
  <2> DEFINE to == LinearBehind(f, end, target, x.at)
             b == LinearBest(f, end, target, x.at, x.best)
  <2>1. LinearTs(f, end, x.at) \in Int /\ to \in Nat \cup {None}
    BY <1>3, LinearTurnIs
  <2>2. x.best \in [off : Nat \cup {None}, ts : Int] /\ x.best.off \in (0 .. Far) \cup {None}
    BY DEF LinearStates
  <2>3. x.at \in 0 .. Far
    BY <1>1, <1>3
  <2>4. b \in [off : Nat \cup {None}, ts : Int] /\ b.off \in (0 .. Far) \cup {None}
    BY <2>1, <2>2, <2>3, <1>3 DEF LinearBest
  <2> HIDE DEF to, b
  <2>5. [at |-> to, best |-> b] \in G
    BY <2>1, <2>4 DEF LinearStates
  <2> QED BY <2>5 DEF to, b
<1>4. w \in G
  <2>1. G \subseteq LinearStates
    OBVIOUS
  <2> HIDE DEF G
  <2> QED BY <1>2, <1>3, <2>1, LinearScanStays
<1>5. LinearScan(f, end, target) = IF w.best.off = None THEN NoLanding
                                   ELSE [off |-> w.best.off, ts |-> w.best.ts, how |-> "LinearScan"]
  BY LinearScanWalks
<1> HIDE DEF w
<1> QED BY <1>4, <1>5 DEF NoLanding

\* The bisection of Bisect: its states and what a probe makes of them.
Brackets == [lo : Probes, hi : Nat, hiTs : Int, probes : Nat]
LoNextOf(s) == IF s.lo.next = None THEN s.lo.off + 1 ELSE s.lo.next
IsNarrow(s) == s.hi - LoNextOf(s) <= ProbeGap
FromOf(s) == IF IsNarrow(s) THEN LoNextOf(s) ELSE LoNextOf(s) + (s.hi - LoNextOf(s)) \div 2
ProbedOf(f, end, tolerate, s) ==
  ProbeFrom(f, FromOf(s), s.hi, end, tolerate, IF IsNarrow(s) THEN s.lo.next ELSE None)
IsSettled(target, s) == target <= s.lo.ts \/ LoNextOf(s) >= s.hi \/ s.probes >= MaxProbes
Contradiction(s, c) == c # NoProbe /\ (c.ts < s.lo.ts \/ (s.hiTs # None /\ c.ts > s.hiTs))
HalvedBy(target, s, c) ==
  IF c = NoProbe THEN [lo |-> s.lo, hi |-> FromOf(s), hiTs |-> s.hiTs, probes |-> s.probes + 1]
  ELSE IF c.ts <= target THEN [lo |-> c, hi |-> s.hi, hiTs |-> s.hiTs, probes |-> s.probes + 1]
  ELSE [lo |-> s.lo, hi |-> c.off, hiTs |-> c.ts, probes |-> s.probes + 1]
BisectStop(f, end, target, tolerate) ==
  {x \in Brackets : \/ IsSettled(target, x) \/ Contradiction(x, ProbedOf(f, end, tolerate, x))
                    \/ ProbedOf(f, end, tolerate, x) = NoProbe /\ FromOf(x) = LoNextOf(x)}
BisectStep(f, end, target, tolerate) ==
  [x \in Brackets |-> HalvedBy(target, x, ProbedOf(f, end, tolerate, x))]
FirstProbe(f, end, tolerate) == ProbeFrom(f, f.first, end, end, tolerate, f.first)
BisectStart(f, end, tolerate) ==
  [lo |-> FirstProbe(f, end, tolerate), hi |-> end, hiTs |-> None, probes |-> 0]
BisectEnd(f, end, target, tolerate) ==
  Until(BisectStop(f, end, target, tolerate), BisectStep(f, end, target, tolerate), BisectStart(f, end, tolerate))

LEMMA BisectWalks ==
  ASSUME NEW f, NEW end, NEW target, NEW tolerate
  PROVE  LET s == BisectEnd(f, end, target, tolerate)
             l == Bisect(f, end, target, tolerate)
         IN  \/ f.first = None /\ l = NoLanding
             \/ f.first # None /\ l = LinearScan(f, end, target)
             \/ /\ f.first # None /\ FirstProbe(f, end, tolerate) # NoProbe
                /\ l = [off |-> s.lo.off, ts |-> s.lo.ts, how |-> "Bisection"]
<1> DEFINE s == BisectEnd(f, end, target, tolerate)
<1>1. Bisect(f, end, target, tolerate) =
        IF f.first = None THEN NoLanding
        ELSE IF FirstProbe(f, end, tolerate) = NoProbe THEN LinearScan(f, end, target)
        ELSE IF ~IsSettled(target, s) /\ Contradiction(s, ProbedOf(f, end, tolerate, s)) THEN LinearScan(f, end, target)
        ELSE [off |-> s.lo.off, ts |-> s.lo.ts, how |-> "Bisection"]
  BY DEF Bisect, BisectEnd, BisectStop, BisectStep, BisectStart, FirstProbe, Brackets, Probes, LoNextOf, IsNarrow,
    FromOf, ProbedOf, IsSettled, Contradiction, HalvedBy
<1> HIDE DEF s
<1> QED BY <1>1 DEF s

\* One probe.
LEMMA ProbedIs ==
  ASSUME NEW f, LegalFile(f), NEW end \in 0 .. Far, NEW tolerate, NEW x \in Brackets, LoNextOf(x) < x.hi
  PROVE  LET c == ProbedOf(f, end, tolerate, x) IN
         /\ FromOf(x) \in Nat
         /\ \/ c = NoProbe
            \/ /\ c \in Probes /\ c.off \in 0 .. end - 1 /\ c = VetCluster(f, c.off, end, tolerate)
               /\ Header(f, c.off).id = "Cluster"
               /\ c.off \in {x.lo.next, None} \/ ConfirmBoundary(f, c, end)
<1>1. LoNextOf(x) \in Nat /\ x.hi \in Nat /\ x.lo.next \in Nat \cup {None} /\ x.lo.off \in Nat
  BY DEF LoNextOf, Brackets, Probes, None
<1>2. FromOf(x) \in Nat
  <2>1. x.hi - LoNextOf(x) \in Nat
    BY <1>1
  <2> DEFINE gap == x.hi - LoNextOf(x)
  <2> HIDE DEF gap
  <2>2. gap \div 2 \in Nat
    BY <2>1 DEF gap
  <2>3. FromOf(x) = LoNextOf(x) \/ FromOf(x) = LoNextOf(x) + gap \div 2
    BY DEF gap, FromOf
  <2> QED BY <1>1, <2>2, <2>3
<1> DEFINE trusted == IF IsNarrow(x) THEN x.lo.next ELSE None
           c == ProbeFrom(f, FromOf(x), x.hi, end, tolerate, trusted)
<1>3. ProbedOf(f, end, tolerate, x) = c /\ trusted \in {x.lo.next, None}
  BY DEF ProbedOf
<1> HIDE DEF trusted
<1>4. \/ c = NoProbe
      \/ /\ c \in Probes /\ c.off \in FromOf(x) .. end - 1 /\ c = VetCluster(f, c.off, end, tolerate)
         /\ Header(f, c.off).id = "Cluster" /\ (c.off = trusted \/ ConfirmBoundary(f, c, end))
  BY <1>1, <1>2, ProbeFromIs
<1> HIDE DEF c
<1>5. end \in Nat
  BY ProbeAssumption
<1>6. c.off \in FromOf(x) .. end - 1 => c.off \in 0 .. end - 1
  BY <1>2, <1>5
<1> QED BY <1>2, <1>3, <1>4, <1>6

\* The bisection stays in any set of brackets its probes keep.
LEMMA BisectStays ==
  ASSUME NEW f, LegalFile(f), NEW end \in 0 .. Far, NEW target \in Int, NEW tolerate,
         NEW G, G \subseteq Brackets, BisectStart(f, end, tolerate) \in G,
         \A x \in G : LoNextOf(x) < x.hi =>
           HalvedBy(target, x, ProbedOf(f, end, tolerate, x)) \in G
  PROVE  BisectEnd(f, end, target, tolerate) \in G
<1> DEFINE D == Brackets
           stop == BisectStop(f, end, target, tolerate)
           step == BisectStep(f, end, target, tolerate)
           m == [x \in D |-> IF x.probes < MaxProbes THEN MaxProbes - x.probes ELSE 0]
<1>1. MaxProbes \in Nat
  BY ProbeAssumption
<1>2. ASSUME NEW x \in D \ stop
      PROVE  /\ LoNextOf(x) < x.hi /\ step[x] \in D /\ m[step[x]] < m[x]
             /\ step[x] = HalvedBy(target, x, ProbedOf(f, end, tolerate, x))
  <2> DEFINE c == ProbedOf(f, end, tolerate, x)
             y == HalvedBy(target, x, c)
  <2>1. x \in D /\ LoNextOf(x) < x.hi /\ x.probes < MaxProbes /\ x.probes \in Nat
    <3>1. x \in D /\ ~IsSettled(target, x)
      BY DEF BisectStop
    <3>2. x.probes \in Nat /\ x.hi \in Nat /\ LoNextOf(x) \in Nat
      BY <3>1 DEF Brackets, Probes, LoNextOf, None
    <3> QED BY <1>1, <3>1, <3>2 DEF IsSettled
  <2>2. FromOf(x) \in Nat /\ (c = NoProbe \/ c \in Probes)
    BY <2>1, ProbedIs
  <2>3. step[x] = y
    BY <2>1 DEF BisectStep
  <2>4. y \in D /\ y.probes = x.probes + 1
    <3> HIDE DEF c
    <3>1. x.probes + 1 \in Nat
      BY <2>1
    <3>2. x.lo \in Probes /\ x.hi \in Nat /\ x.hiTs \in Int
      BY <2>1 DEF Brackets
    <3>3. c \in Probes => c.off \in Nat /\ c.ts \in Int
      BY DEF Probes
    <3> QED BY <2>2, <3>1, <3>2, <3>3 DEF HalvedBy, Brackets
  <2> HIDE DEF y
  <2>5. m[y] < m[x]
    <3>1. m[x] = MaxProbes - x.probes
      BY <2>1
    <3>2. m[y] = IF x.probes + 1 < MaxProbes THEN MaxProbes - (x.probes + 1) ELSE 0
      BY <2>4
    <3> HIDE DEF m
    <3> QED BY <1>1, <2>1, <3>1, <3>2
  <2> QED BY <2>1, <2>3, <2>4, <2>5 DEF y
<1>3. m \in [D -> 0 .. MaxProbes]
  <2> SUFFICES ASSUME NEW x \in D
               PROVE  (IF x.probes < MaxProbes THEN MaxProbes - x.probes ELSE 0) \in 0 .. MaxProbes
    OBVIOUS
  <2>1. x.probes \in Nat
    BY DEF Brackets
  <2> QED BY <1>1, <2>1
<1>4. DOMAIN step = D
  BY DEF BisectStep
<1>5. \A x \in G \ stop : step[x] \in G
  BY <1>2
<1> HIDE DEF m, step, stop, D
<1>6. Descends(D, step, stop, m, MaxProbes) /\ Keeps(step, stop, G) /\ G \subseteq D
  BY <1>1, <1>2, <1>3, <1>4, <1>5 DEF Descends, Keeps, D
<1>7. Until(stop, step, BisectStart(f, end, tolerate)) \in G
  BY <1>6, UntilIs
<1> QED BY <1>7 DEF BisectEnd, stop, step

\* The first probe, from the first Cluster on.
LEMMA FirstProbeIs ==
  ASSUME NEW f, LegalFile(f), NEW end \in 0 .. Far, NEW tolerate, f.first # None,
         FirstProbe(f, end, tolerate) # NoProbe
  PROVE  /\ BisectStart(f, end, tolerate) \in Brackets
         /\ LET c == FirstProbe(f, end, tolerate)
            IN  c \in Probes /\ c.off \in 0 .. Far /\ c = VetCluster(f, c.off, end, tolerate)
<1>1. end \in Nat /\ end <= Far /\ Far \in Nat /\ f.first \in Nat /\ None \in Int
  <2>1. end \in Nat /\ end <= Far /\ Far \in Nat /\ None \in Int
    BY ProbeAssumption DEF None
  <2>2. f.first \in (0 .. Far) \cup {None}
    BY DEF LegalFile
  <2> QED BY <2>1, <2>2
<1> DEFINE c == FirstProbe(f, end, tolerate)
<1>2. c \in Probes /\ c.off \in f.first .. end - 1 /\ c = VetCluster(f, c.off, end, tolerate)
  BY <1>1, ProbeFromIs DEF FirstProbe
<1> HIDE DEF c
<1>3. c.off \in 0 .. Far
  BY <1>1, <1>2
<1>4. [lo |-> c, hi |-> end, hiTs |-> None, probes |-> 0] \in Brackets
  BY <1>1, <1>2 DEF Brackets
<1> QED BY <1>2, <1>3, <1>4 DEF c, BisectStart

LEMMA BisectIs ==
  ASSUME NEW f, LegalFile(f), NEW end \in 0 .. Far, NEW target \in Int, NEW tolerate
  PROVE  Bisect(f, end, target, tolerate).off \in (0 .. Far) \cup {None}
<1> DEFINE G == {x \in Brackets : x.lo.off \in 0 .. Far}
           s == BisectEnd(f, end, target, tolerate)
<1>1. Far \in Nat /\ end \in Nat /\ end <= Far
  BY ProbeAssumption
<1>2. ASSUME NEW x \in G, LoNextOf(x) < x.hi
      PROVE  HalvedBy(target, x, ProbedOf(f, end, tolerate, x)) \in G
  <2> DEFINE c == ProbedOf(f, end, tolerate, x)
  <2>1. FromOf(x) \in Nat /\ (c = NoProbe \/ (c \in Probes /\ c.off \in 0 .. end - 1))
    BY <1>2, ProbedIs
  <2> HIDE DEF c
  <2>2. c \in Probes /\ c.off \in 0 .. end - 1 => c.off \in 0 .. Far /\ c.off \in Nat /\ c.ts \in Int
    BY <1>1 DEF Probes
  <2>3. x.lo \in Probes /\ x.hi \in Nat /\ x.hiTs \in Int /\ x.probes + 1 \in Nat /\ x.lo.off \in 0 .. Far
    BY DEF Brackets
  <2> DEFINE y == HalvedBy(target, x, c)
  <2>4. y \in Brackets /\ y.lo.off \in 0 .. Far
    BY <2>1, <2>2, <2>3 DEF HalvedBy, Brackets
  <2> QED BY <2>4 DEF c
<1>3. ASSUME f.first # None, FirstProbe(f, end, tolerate) # NoProbe PROVE s \in G
  <2>1. BisectStart(f, end, tolerate) \in G /\ G \subseteq Brackets
    BY <1>3, FirstProbeIs DEF BisectStart
  <2> HIDE DEF G
  <2> QED BY <1>2, <2>1, BisectStays
<1>4. LinearScan(f, end, target).off \in (0 .. Far) \cup {None}
  BY LinearScanIs
<1> DEFINE l == Bisect(f, end, target, tolerate)
<1>5. \/ f.first = None /\ l = NoLanding
      \/ f.first # None /\ l = LinearScan(f, end, target)
      \/ /\ f.first # None /\ FirstProbe(f, end, tolerate) # NoProbe
         /\ l = [off |-> s.lo.off, ts |-> s.lo.ts, how |-> "Bisection"]
  BY BisectWalks
<1> HIDE DEF s, l
<1> QED BY <1>3, <1>4, <1>5 DEF NoLanding, l
-----------------------------------------------------------------------------
(* The cue a seek picks.                                                   *)

LEMMA UptoIs == ASSUME NEW m \in Nat, m # 0 PROVE 1 .. m = (1 .. m - 1) \cup {m}
<1>1. ASSUME NEW j PROVE j \in 1 .. m <=> j \in 1 .. m - 1 \/ j = m
  <2>1. m >= 1
    OBVIOUS
  <2>2. CASE j \in Int
    BY <2>1, <2>2
  <2>3. CASE j \notin Int
    BY <2>3
  <2> QED BY <2>2, <2>3
<1> QED BY <1>1, Zenon

\* Among numbered times there is a last one, the later number if they agree,
\* and a first one.
LEMMA LastOf ==
  ASSUME NEW n \in Nat, NEW t \in [1 .. n -> Int], NEW E \in SUBSET (1 .. n), E # {}
  PROVE  \E i \in E : \A j \in E \ {i} : t[j] < t[i] \/ (t[j] = t[i] /\ j < i)
<1> DEFINE Later(j, i) == t[j] < t[i] \/ (t[j] = t[i] /\ j < i)
           IsLast(i, S) == i \in S /\ \A j \in S \ {i} : Later(j, i)
           Bad == {k \in Nat : E \cap 1 .. k # {} /\ ~ \E i \in E : IsLast(i, E \cap 1 .. k)}
<1>0. \A i \in E : t[i] \in Int /\ i \in Nat
  OBVIOUS
<1>1. \A i, j, k \in E : Later(i, j) /\ Later(j, k) => Later(i, k)
  BY <1>0
<1>2. \A i, j \in E : i < j => Later(i, j) \/ Later(j, i)
  BY <1>0
<1>3. Bad = {}
  <2> SUFFICES ASSUME Bad # {} PROVE FALSE
    OBVIOUS
  <2>1. PICK k \in Bad : \A j \in Bad : k <= j
    BY LeastNat
  <2> DEFINE S == E \cap 1 .. k
             R == E \cap 1 .. k - 1
  <2>2. k \in Nat /\ S # {} /\ ~ \E i \in E : IsLast(i, S)
    BY <2>1
  <2>3. k # 0
    BY <2>2
  <2>4. k - 1 \in Nat /\ ~(k <= k - 1)
    BY <2>2, <2>3
  <2>5. R # {} => \E i \in E : IsLast(i, R)
    <3>1. k - 1 \notin Bad
      <4> HIDE DEF Bad
      <4> QED BY <2>1, <2>4
    <3> QED BY <2>4, <3>1
  <2>6. R \subseteq E /\ \A j \in R : j < k
    BY <2>2
  <2>7. S = IF k \in E THEN R \cup {k} ELSE R
    <3>2. k \in Nat
      BY <2>2
    <3>3. 1 .. k = (1 .. k - 1) \cup {k}
      BY <2>3, <3>2, UptoIs
    <3>4. CASE k \in E
      BY <3>3, <3>4, Zenon
    <3>5. CASE k \notin E
      BY <3>3, <3>5, Zenon
    <3> QED BY <3>4, <3>5
  <2>8. R = {} => k \in E /\ IsLast(k, S)
    <3> HIDE DEF R
    <3> QED BY <2>2, <2>7
  <2>9. PICK i \in E : IsLast(i, R)
    BY <2>2, <2>5, <2>8
  <2> HIDE DEF S, R, Later
  <2>10. k \in E => Later(i, k) \/ Later(k, i)
    BY <1>2, <2>6, <2>9
  <2>11. CASE k \in E /\ Later(i, k)
    <3>1. IsLast(k, S)
      BY <1>1, <2>6, <2>7, <2>9, <2>11
    <3> QED BY <2>2, <2>11, <3>1
  <2>12. CASE k \notin E \/ Later(k, i)
    <3>1. IsLast(i, S)
      BY <2>7, <2>9, <2>12
    <3> QED BY <2>2, <3>1
  <2> QED BY <2>10, <2>11, <2>12
<1>4. E \cap 1 .. n = E /\ n \notin Bad
  BY <1>3
<1>5. \E i \in E : IsLast(i, E)
  <2> HIDE DEF IsLast
  <2> QED BY <1>4
<1> QED BY <1>5

LEMMA FirstOf ==
  ASSUME NEW n \in Nat, NEW t \in [1 .. n -> Int], NEW E \in SUBSET (1 .. n), E # {}
  PROVE  \E i \in E : \A j \in E \ {i} : t[i] < t[j] \/ (t[i] = t[j] /\ i < j)
<1> DEFINE u == [k \in 1 .. n |-> -t[n + 1 - k]]
           F == {k \in 1 .. n : n + 1 - k \in E}
<1>1. u \in [1 .. n -> Int] /\ F \in SUBSET (1 .. n)
  OBVIOUS
<1>2. \A i \in E : n + 1 - i \in F /\ i \in 1 .. n /\ u[n + 1 - i] = -t[i]
  OBVIOUS
<1>3. F # {}
  BY <1>2
<1>4. PICK k \in F : \A j \in F \ {k} : u[j] < u[k] \/ (u[j] = u[k] /\ j < k)
  BY <1>1, <1>3, LastOf
<1> DEFINE i == n + 1 - k
<1>5. i \in E /\ u[k] = -t[i] /\ k \in 1 .. n
  BY <1>4
<1>6. ASSUME NEW j \in E \ {i} PROVE t[i] < t[j] \/ (t[i] = t[j] /\ i < j)
  <2>1. n + 1 - j \in F \ {k} /\ u[n + 1 - j] = -t[j] /\ j \in 1 .. n
    BY <1>2, <1>5
  <2>2. u[n + 1 - j] < u[k] \/ (u[n + 1 - j] = u[k] /\ n + 1 - j < k)
    BY <1>4, <2>1
  <2> QED BY <1>5, <2>1, <2>2
<1> QED BY <1>5, <1>6

\* seek_to's cue: the track's last one at or before the target, else its first.
LEMMA BestCueIs ==
  ASSUME LegalFile(file), NEW track, HasCues(track), NEW ticks \in Int
  PROVE  LET cue == BestCue(track, ticks)
             cues == {c \in Range(file.cues) : c.track = track}
         IN  /\ cue \in cues
             /\ \A c \in cues : \/ c.time <= cue.time
                                \/ c.time > ticks
             /\ cue.time > ticks => \A c \in cues : cue.time <= c.time
<1> DEFINE n == Len(file.cues)
           t == [i \in 1 .. n |-> file.cues[i].time]
           all == {i \in DOMAIN file.cues : file.cues[i].track = track}
           early == {i \in all : file.cues[i].time <= ticks}
           before(i, j) == file.cues[i].time < file.cues[j].time
                           \/ (file.cues[i].time = file.cues[j].time /\ i < j)
           latest == CHOOSE i \in early : \A j \in early \ {i} : before(j, i)
           earliest == CHOOSE i \in all : \A j \in all \ {i} : before(i, j)
           best == IF early # {} THEN latest ELSE earliest
<1>1. file.cues \in Seq(Range(file.cues)) /\ \A c \in Range(file.cues) : c.time \in Int
  BY DEF LegalFile
<1>2. n \in Nat /\ DOMAIN file.cues = 1 .. n /\ \A i \in 1 .. n : file.cues[i] \in Range(file.cues)
  BY <1>1
<1>3. /\ t \in [1 .. n -> Int] /\ all \in SUBSET (1 .. n) /\ early \in SUBSET (1 .. n) /\ all # {}
      /\ \A i \in 1 .. n : t[i] = file.cues[i].time
  BY <1>1, <1>2 DEF HasCues
<1>4. BestCue(track, ticks) = file.cues[best]
  BY DEF BestCue
<1>5. early # {} => latest \in early /\ \A j \in early \ {latest} : t[j] < t[latest] \/ t[j] = t[latest]
  <2>1. early # {} => \E i \in early : \A j \in early \ {i} : t[j] < t[i] \/ (t[j] = t[i] /\ j < i)
    <3>1. n \in Nat /\ t \in [1 .. n -> Int] /\ early \in SUBSET (1 .. n)
      BY <1>2, <1>3
    <3> HIDE DEF early, t, n
    <3> QED BY <3>1, LastOf
  <2>2. early # {} => \E i \in early : \A j \in early \ {i} : before(j, i)
    <3> HIDE DEF t
    <3> QED BY <1>3, <2>1
  <2>3. early # {} => latest \in early /\ \A j \in early \ {latest} : before(j, latest)
    <3> HIDE DEF early, before
    <3> QED BY <2>2
  <2> HIDE DEF latest
  <2> QED BY <1>3, <2>3
<1>6. earliest \in all /\ \A j \in all \ {earliest} : t[earliest] < t[j] \/ t[earliest] = t[j]
  <2>1. \E i \in all : \A j \in all \ {i} : t[i] < t[j] \/ (t[i] = t[j] /\ i < j)
    <3> HIDE DEF all, t, n
    <3> QED BY <1>2, <1>3, FirstOf
  <2>2. \E i \in all : \A j \in all \ {i} : before(i, j)
    <3> HIDE DEF t
    <3> QED BY <1>3, <2>1
  <2>3. earliest \in all /\ \A j \in all \ {earliest} : before(earliest, j)
    <3> HIDE DEF all, before
    <3> QED BY <2>2
  <2> HIDE DEF earliest
  <2> QED BY <1>3, <2>3
<1> DEFINE cue == file.cues[best]
           cues == {c \in Range(file.cues) : c.track = track}
<1> HIDE DEF latest, earliest
<1>7. best \in all /\ cue \in cues /\ cue.time = t[best]
  BY <1>2, <1>3, <1>5, <1>6
<1>8. \A c \in cues : \E i \in all : c = file.cues[i] /\ c.time = t[i]
  BY <1>3 DEF Range
<1>9. early = {i \in all : t[i] <= ticks} /\ \A i \in all : t[i] \in Int
  BY <1>3
<1> HIDE DEF t, all, early, cue, cues, best
<1>10. \A i \in all : t[i] <= t[best] \/ t[i] > ticks
  BY <1>5, <1>7, <1>9 DEF best
<1>11. t[best] > ticks => \A i \in all : t[best] <= t[i]
  BY <1>5, <1>6, <1>7, <1>9 DEF best
<1>12. /\ cue \in cues
       /\ \A c \in cues : c.time <= cue.time \/ c.time > ticks
       /\ cue.time > ticks => \A c \in cues : cue.time <= c.time
  BY <1>7, <1>8, <1>10, <1>11
<1> QED BY <1>4, <1>12 DEF cue, cues

-----------------------------------------------------------------------------
(* Reading and seeking leave the file itself.                              *)
LEMMA FileStays ==
  ASSUME [Next]_vars
  PROVE  file' = file
<1>1. CASE SeekTo
  BY <1>1 DEF SeekTo, SeekByCue, SeekFails, SeekCueless, Landed
<1>2. CASE NextPacket \/ ReturnPacket \/ EndOfSegment \/ FailPacket \/ UNCHANGED vars
  BY <1>2 DEF NextPacket, ReturnPacket, EndOfSegment, FailPacket, input, vars
<1>3. CASE OpenCluster \/ ApplyTags \/ SkipTopLevel \/ LeaveCluster \/ LeaveAtTopLevel
  BY <1>3 DEF OpenCluster, ApplyTags, SkipTopLevel, LeaveCluster, LeaveAtTopLevel, Advanced
<1>4. CASE ReadTimecode \/ ReadRecord \/ ReadSimpleBlock \/ ReadBlockGroup \/ SkipChild \/ Resync
  BY <1>4 DEF ReadTimecode, ReadRecord, ReadSimpleBlock, ReadBlockGroup, SkipChild, Resync, Advanced
<1> QED BY <1>1, <1>2, <1>3, <1>4 DEF Next, LoopTurn
=============================================================================
