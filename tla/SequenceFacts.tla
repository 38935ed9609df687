--------------------------- MODULE SequenceFacts ---------------------------
(***************************************************************************)
(* Facts about numbers, sets, FlattenSeq and recursive walks that the      *)
(* proofs of the write path and of the demuxer rest on.  Induction over    *)
(* data is done here by a least counterexample (LeastNat), which needs no  *)
(* operator parameter.                                                     *)
(***************************************************************************)
EXTENDS Integers, SequencesExt, SequenceTheorems, WellFoundedInduction, TLAPS

(* A nonempty set of naturals has a least element.                         *)
LEMMA LeastNat ==
  ASSUME NEW T \in SUBSET Nat, T # {}
  PROVE  \E n \in T : \A m \in T : n <= m
<1>1. PICK n \in T : \A m \in T : <<m, n>> \notin OpToRel(<, Nat)
  BY WFMin, NatLessThanWellFounded
<1>2. \A m \in T : n <= m
  <2> TAKE m \in T
  <2>1. <<m, n>> \notin OpToRel(<, Nat)
    BY <1>1
  <2>2. ~(m < n)
    BY <2>1 DEF OpToRel
  <2> QED BY <2>2
<1> QED BY <1>2

(* Min and Max of a set that has a least, a greatest element.              *)
LEMMA MinIs ==
  ASSUME NEW S \in SUBSET Int, NEW x \in S, \A y \in S : x <= y
  PROVE  Min(S) = x
<1>1. \A z \in S : (\A y \in S : z <= y) => z = x
  OBVIOUS
<1> QED BY <1>1 DEF Min

LEMMA MaxIs ==
  ASSUME NEW S \in SUBSET Int, NEW x \in S, \A y \in S : y <= x
  PROVE  Max(S) = x
<1>1. \A z \in S : (\A y \in S : z >= y) => z = x
  OBVIOUS
<1> QED BY <1>1 DEF Max

-----------------------------------------------------------------------------
(* f is the function that flattens the first n sequences of ss.            *)
Flattens(f, ss, n) == f = [i \in 1 .. n |-> IF i = 1 THEN ss[i] ELSE f[i-1] \o ss[i]]

(* The recursive function inside FlattenSeq exists: the least length for   *)
(* which it did not would have a predecessor for which it does.            *)
LEMMA FlattenExists ==
  ASSUME NEW ss, NEW n \in Nat
  PROVE  \E f : Flattens(f, ss, n)
<1> DEFINE T == {m \in Nat : ~ \E f : Flattens(f, ss, m)}
<1> SUFFICES T = {}
  OBVIOUS
<1> SUFFICES ASSUME T # {} PROVE FALSE
  OBVIOUS
<1>1. PICK m \in T : \A k \in T : m <= k
  BY LeastNat
<1>2. CASE m = 0
  <2>1. Flattens([i \in 1 .. 0 |-> 0], ss, 0)
    BY DEF Flattens
  <2> QED BY <1>1, <1>2, <2>1
<1>3. CASE m # 0
  <2>1. m - 1 \in Nat /\ m - 1 \notin T
    BY <1>1, <1>3
  <2>2. PICK f : Flattens(f, ss, m - 1)
    BY <2>1
  <2> DEFINE g == [i \in 1 .. m |-> IF i = m THEN (IF m = 1 THEN ss[1] ELSE f[m-1] \o ss[m]) ELSE f[i]]
  <2>3. Flattens(g, ss, m)
    <3>1. \A i \in 1 .. m : g[i] = IF i = 1 THEN ss[i] ELSE g[i-1] \o ss[i]
      <4> TAKE i \in 1 .. m
      <4>1. CASE i = m
        BY <4>1, <1>3
      <4>2. CASE i # m
        <5>1. i \in 1 .. m - 1 
          BY <4>2, <1>3
        <5>2. g[i] = f[i] /\ (i # 1 => i - 1 \in 1 .. m /\ g[i-1] = f[i-1])
          BY <5>1, <1>3
        <5>3. f[i] = IF i = 1 THEN ss[i] ELSE f[i-1] \o ss[i]
          BY <2>2, <5>1 DEF Flattens
        <5> QED BY <5>2, <5>3
      <4> QED BY <4>1, <4>2
    <3> QED BY <3>1 DEF Flattens
  <2> QED BY <1>1, <2>3
<1> QED BY <1>2, <1>3

(* FlattenSeq is what that function computes.                              *)
LEMMA FlattenIs ==
  ASSUME NEW S, NEW ss \in Seq(Seq(S)), ss # <<>>
  PROVE  \E f : Flattens(f, ss, Len(ss)) /\ FlattenSeq(ss) = f[Len(ss)]
<1> DEFINE f == CHOOSE f : f = [i \in 1 .. Len(ss) |-> IF i = 1 THEN ss[i] ELSE f[i-1] \o ss[i]]
<1>0. \E g : g = [i \in 1 .. Len(ss) |-> IF i = 1 THEN ss[i] ELSE g[i-1] \o ss[i]]
  <2>1. Len(ss) \in Nat
    OBVIOUS
  <2>2. PICK g : Flattens(g, ss, Len(ss))
    BY <2>1, FlattenExists
  <2>3. g = [i \in 1 .. Len(ss) |-> IF i = 1 THEN ss[i] ELSE g[i-1] \o ss[i]]
    BY <2>2 DEF Flattens
  <2> QED BY <2>3
<1>3. f = [i \in 1 .. Len(ss) |-> IF i = 1 THEN ss[i] ELSE f[i-1] \o ss[i]]
  BY <1>0, Zenon
<1>1. Flattens(f, ss, Len(ss))
  BY <1>3 DEF Flattens
<1>2. FlattenSeq(ss) = f[Len(ss)]
  BY DEF FlattenSeq
<1> QED BY <1>1, <1>2

(* One more sequence is appended to the flattened ones.                    *)
LEMMA FlattenAppend ==
  ASSUME NEW S, NEW ss \in Seq(Seq(S)), NEW t \in Seq(S)
  PROVE  FlattenSeq(Append(ss, t)) = FlattenSeq(ss) \o t
<1> DEFINE st == Append(ss, t)
           n == Len(ss)
<1>1. n \in Nat /\ st \in Seq(Seq(S)) /\ st # <<>> /\ Len(st) = n + 1 /\ st[n + 1] = t
      /\ \A i \in 1 .. n : st[i] = ss[i]
  <2>1. n \in Nat /\ st \in Seq(Seq(S)) /\ Len(st) = n + 1 /\ st[n + 1] = t
        /\ \A i \in 1 .. n : st[i] = ss[i]
    OBVIOUS
  <2> HIDE DEF st, n
  <2>2. st # <<>>
    BY <2>1
  <2> QED BY <2>1, <2>2
<1>2. PICK f : Flattens(f, st, n + 1) /\ FlattenSeq(st) = f[n + 1]
  BY <1>1, FlattenIs
<1>3. CASE ss = <<>>
  <2>1. f[n + 1] = t
    BY <1>1, <1>2, <1>3 DEF Flattens
  <2>2. FlattenSeq(ss) = <<>>
    BY <1>3 DEF FlattenSeq
  <2> QED BY <1>2, <2>1, <2>2, ConcatEmptySeq
<1>4. CASE ss # <<>>
  <2>1. PICK g : Flattens(g, ss, n) /\ FlattenSeq(ss) = g[n]
    BY <1>4, FlattenIs
  <2>2. n >= 1
    BY <1>4
  <2> HIDE DEF st, n
  <2> DEFINE D == {i \in Nat : i \in 1 .. n /\ f[i] # g[i]}
  <2>3. D = {}
    <3> SUFFICES ASSUME D # {} PROVE FALSE
      OBVIOUS
    <3>1. PICK i \in D : \A k \in D : i <= k
      BY LeastNat
    <3>2. i \in 1 .. n /\ f[i] # g[i] /\ i \in 1 .. n + 1
      BY <1>1
    <3>3. f[i] = IF i = 1 THEN st[i] ELSE f[i-1] \o st[i]
      BY <1>2, <3>2 DEF Flattens
    <3>4. g[i] = IF i = 1 THEN ss[i] ELSE g[i-1] \o ss[i]
      BY <2>1, <3>2 DEF Flattens
    <3>5. i # 1 => f[i-1] = g[i-1]
      BY <1>1, <3>1, <3>2
    <3> QED BY <1>1, <3>2, <3>3, <3>4, <3>5
  <2>4. f[n] = g[n]
    BY <1>1, <2>2, <2>3
  <2>5. f[n + 1] = f[n] \o t
    <3>1. n + 1 \in 1 .. n + 1 /\ n + 1 # 1 /\ (n + 1) - 1 = n /\ st[n + 1] = t
      BY <1>1, <2>2
    <3>2. f[n + 1] = f[(n + 1) - 1] \o st[n + 1]
      BY <1>2, <3>1 DEF Flattens
    <3> QED BY <3>1, <3>2
  <2> QED BY <1>2, <1>4, <2>1, <2>4, <2>5 DEF st, n
<1> QED BY <1>3, <1>4

(* Flattening sequences over S gives a sequence over S.                    *)
LEMMA FlattenType ==
  ASSUME NEW S, NEW ss \in Seq(Seq(S))
  PROVE  FlattenSeq(ss) \in Seq(S)
<1>1. CASE ss = <<>>
  BY <1>1 DEF FlattenSeq
<1>2. CASE ss # <<>>
  <2>1. PICK f : Flattens(f, ss, Len(ss)) /\ FlattenSeq(ss) = f[Len(ss)]
    BY <1>2, FlattenIs
  <2> DEFINE D == {i \in Nat : i \in 1 .. Len(ss) /\ f[i] \notin Seq(S)}
  <2>2. D = {}
    <3> SUFFICES ASSUME D # {} PROVE FALSE
      OBVIOUS
    <3>1. PICK i \in D : \A k \in D : i <= k
      BY LeastNat
    <3>2. i \in 1 .. Len(ss) /\ f[i] \notin Seq(S) /\ Len(ss) \in Nat /\ ss[i] \in Seq(S)
      OBVIOUS
    <3>3. f[i] = IF i = 1 THEN ss[i] ELSE f[i-1] \o ss[i]
      BY <2>1, <3>2 DEF Flattens
    <3>4. i # 1 => f[i-1] \in Seq(S)
      BY <3>1, <3>2
    <3> QED BY <3>2, <3>3, <3>4
  <2> QED BY <1>2, <2>1, <2>2
<1> QED BY <1>1, <1>2
-----------------------------------------------------------------------------
(* Walks: functions on D that are known on Stop and elsewhere computed     *)
(* from the value at a next point, which a bounded measure m makes smaller. *)
Walks(F, D, Stop, b, n, g) ==
  F = [d \in D |-> IF d \in Stop THEN b[d] ELSE g[d][F[n[d]]]]

(* Such a function exists: each round of the equation makes it right for   *)
(* the points of one more measure.                                         *)
LEMMA WalkExists ==
  ASSUME NEW D, NEW V, NEW K \in Nat, NEW m \in [D -> 0 .. K], NEW Stop,
         NEW b \in [D -> V], NEW n \in [D -> D], NEW g \in [D -> [V -> V]],
         \A d \in D \ Stop : m[n[d]] < m[d]
  PROVE  \E F \in [D -> V] : Walks(F, D, Stop, b, n, g)
<1> DEFINE At(F, d) == IF d \in Stop THEN b[d] ELSE g[d][F[n[d]]]
           Right(F, k) == \A d \in D : m[d] < k => F[d] = At(F, d)
           T == {k \in Nat : ~ \E F \in [D -> V] : Right(F, k)}
<1>1. T = {}
  <2> SUFFICES ASSUME T # {} PROVE FALSE
    OBVIOUS
  <2>1. PICK k \in T : \A j \in T : k <= j
    BY LeastNat
  <2>2. k # 0
    <3>1. Right(b, 0)
      OBVIOUS
    <3> QED BY <2>1, <3>1
  <2>3. k - 1 \in Nat /\ k - 1 \notin T
    BY <2>1, <2>2
  <2>4. PICK F \in [D -> V] : Right(F, k - 1)
    BY <2>3
  <2> DEFINE H == [d \in D |-> At(F, d)]
  <2>5. H \in [D -> V]
    OBVIOUS
  <2>6. Right(H, k)
    <3> SUFFICES ASSUME NEW d \in D, m[d] < k PROVE H[d] = At(H, d)
      OBVIOUS
    <3>1. CASE d \in Stop
      BY <3>1
    <3>2. CASE d \notin Stop
      <4>1. n[d] \in D /\ m[n[d]] < k - 1
        BY <2>1, <3>2
      <4>2. F[n[d]] = H[n[d]]
        BY <2>4, <4>1
      <4> QED BY <3>2, <4>2
    <3> QED BY <3>1, <3>2
  <2> QED BY <2>1, <2>5, <2>6
<1> HIDE DEF T
<1>2. K + 1 \notin T /\ K + 1 \in Nat
  BY <1>1
<1>3. PICK F \in [D -> V] : Right(F, K + 1)
  BY <1>2 DEF T
<1>4. \A d \in D : F[d] = At(F, d)
  BY <1>3
<1>5. F = [d \in D |-> At(F, d)]
  BY <1>4
<1> QED BY <1>3, <1>5 DEF Walks

(* What holds at d whenever it holds at all points of smaller measure holds *)
(* everywhere.                                                              *)
LEMMA MeasureInduction ==
  ASSUME NEW D, NEW m \in [D -> Nat], NEW G,
         \A d \in D : (\A e \in D : m[e] < m[d] => e \in G) => d \in G
  PROVE  D \subseteq G
<1> DEFINE T == {k \in Nat : \E d \in D : m[d] = k /\ d \notin G}
<1> SUFFICES ASSUME T # {} PROVE FALSE
  OBVIOUS
<1>1. PICK k \in T : \A j \in T : k <= j
  BY LeastNat
<1>2. PICK d \in D : m[d] = k /\ d \notin G
  BY <1>1
<1>3. \A e \in D : m[e] < m[d] => e \in G
  BY <1>1, <1>2
<1> QED BY <1>2, <1>3
=============================================================================
