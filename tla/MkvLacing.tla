----------------------------- MODULE MkvLacing -----------------------------
(***************************************************************************)
(* Lacing: the frames the muxer puts into one Block, the octets that tell  *)
(* where they end, and the demuxer's reading of them, also of Blocks       *)
(* another writer laced.  A frame is its size.  A Block's body is some     *)
(* octets and the number of payload octets behind them, which are zero.    *)
(***************************************************************************)
EXTENDS Integers, Sequences, FiniteSetsExt, SequencesExt

CONSTANTS Modes,      \* the lacings in use, of "Xiph", "FixedSize", "Ebml"
          Sizes,      \* the sizes of the frames the muxer is given
          MaxFrames,  \* the largest lace of this instance
          Foreign     \* the bodies of Blocks from elsewhere

VARIABLES mode,   \* the track's lacing
          lace,   \* the sizes of the frames the muxer laced
          body,   \* the Block's body behind its flags, or None
          read    \* what the demuxer made of it, or None

vars == <<mode, lace, body, read>>

None == [none |-> TRUE]

\* The widest VINT of this instance, in octets; the code goes to 8.
MaxWidth == 4

-----------------------------------------------------------------------------
(* Encoding.                                                               *)

\* value in the payload of a VINT of width octets, behind the marker bit.
WriteVintFixed(value, width) ==
  LET marker == 2 ^ (8 - width)
  IN  [i \in 1 .. width |-> (IF i = 1 THEN marker ELSE 0)
                            + ((value \div 256 ^ (width - i)) % 256)]

\* Mutant: the all-ones payload is taken for a value.
WriteVintToAllOnes(value) ==
  WriteVintFixed(value, Min({w \in 1 .. MaxWidth : value <= 2 ^ (7 * w) - 1}))
\* The shortest VINT of a size whose payload is not all ones, the unknown size.
WriteVint(value) ==
  WriteVintFixed(value, Min({w \in 1 .. MaxWidth : value < 2 ^ (7 * w) - 1}))

Bias(width) == 2 ^ (7 * width - 1) - 1

WriteSignedVint(value) ==
  LET width == Min({w \in 1 .. MaxWidth : value \in -Bias(w) .. Bias(w) + 1})
  IN  WriteVintFixed(value + Bias(width), width)

\* A size as a sum of octets, the last one less than 255.
XiphSize(size) == [i \in 1 .. size \div 255 |-> 255] \o <<size % 255>>

\* The octets in front of the frames.  The last size is implied.
LaceHeader(m, sizes) ==
  LET n == Len(sizes)
      told == CASE m = "Xiph" -> [i \in 1 .. n - 1 |-> XiphSize(sizes[i])]
                [] m = "FixedSize" -> <<>>
                [] m = "Ebml" -> [i \in 1 .. n - 1 |->
                                    IF i = 1 THEN WriteVint(sizes[1])
                                    ELSE WriteSignedVint(sizes[i] - sizes[i - 1])]
  IN  <<n - 1>> \o FlattenSeq(told)

Laced(m, sizes) == [octets |-> LaceHeader(m, sizes), data |-> SumFunction(sizes)]

-----------------------------------------------------------------------------
(* Decoding.  A scan is where it is and the sizes it has read, or failed.  *)

BodyLen(b) == Len(b.octets) + b.data
Octet(b, i) == IF i <= Len(b.octets) THEN b.octets[i] ELSE 0

Start == [ok |-> TRUE, at |-> 2, sizes |-> <<>>]
Fail == [ok |-> FALSE, at |-> 0, sizes |-> <<>>]

\* Step taken n times, or until it fails.
Repeat(Step(_), n, start) ==
  LET after[k \in 0 .. n] == IF k = 0 THEN start
                             ELSE LET scan == after[k - 1]
                                  IN  IF scan.ok THEN Step(scan) ELSE scan
  IN  after[n]

\* Payload octets are zero, so that the first of them ends a size.
ReadXiphSize(b, scan) ==
  LET ends == {i \in scan.at .. Min({BodyLen(b), Max({scan.at, Len(b.octets) + 1})}) :
                 Octet(b, i) < 255}
      end == Min(ends)
  IN  IF ends = {} THEN Fail
      ELSE [ok |-> TRUE, at |-> end + 1,
            sizes |-> Append(scan.sizes, 255 * (end - scan.at) + Octet(b, end))]

\* The VINT at octet i.  VINT_UNKNOWN_SIZE, for all-ones, is -1 as an i64.
ReadVint(b, i) ==
  LET first == Octet(b, i)
      width == CHOOSE w \in 1 .. 8 : first \in 2 ^ (8 - w) .. 2 ^ (9 - w) - 1
      rest == [k \in 1 .. width - 1 |-> Octet(b, i + k)]
      marker == 2 ^ (8 - width)
      allOnes == first = 2 * marker - 1 /\ \A k \in DOMAIN rest : rest[k] = 255
  IN  IF i > BodyLen(b) \/ first = 0 \/ i + width - 1 > BodyLen(b)
      THEN [ok |-> FALSE]
      ELSE [ok |-> TRUE, width |-> width,
            value |-> IF allOnes THEN -1
                      ELSE FoldLeft(LAMBDA v, o : 256 * v + o, first - marker, rest)]

ReadFirstSize(b) ==
  LET v == ReadVint(b, Start.at)
  IN  IF v.ok THEN [ok |-> TRUE, at |-> Start.at + v.width, sizes |-> <<v.value>>] ELSE Fail

ReadDelta(b, scan) ==
  LET v == ReadVint(b, scan.at)
  IN  IF v.ok THEN [ok |-> TRUE, at |-> scan.at + v.width,
                    sizes |-> Append(scan.sizes, Last(scan.sizes) + v.value - Bias(v.width))]
      ELSE Fail

\* Mutant: sizes that over-run the body leave an empty last frame.
CutSaturating(b, scan) ==
  LET left == BodyLen(b) - (scan.at - 1) - SumFunction(scan.sizes)
  IN  [ok |-> scan.ok, sizes |-> Append(scan.sizes, Max({0, left}))]

\* The last frame takes what is left.  Sizes that are negative or reach past
\* the body are refused; none is when all are natural numbers.
Cut(b, scan) ==
  LET sizes == Append(scan.sizes, BodyLen(b) - (scan.at - 1) - SumFunction(scan.sizes))
  IN  IF scan.ok /\ \A i \in DOMAIN sizes : sizes[i] >= 0
      THEN [ok |-> TRUE, sizes |-> sizes] ELSE [ok |-> FALSE, sizes |-> <<>>]

ParseXiph(b) == Cut(b, Repeat(LAMBDA s : ReadXiphSize(b, s), Octet(b, 1), Start))

\* delta_count saturates at 0: a first size is read even for one frame.
ParseEbml(b) ==
  LET first == ReadFirstSize(b)
  IN  Cut(b, Repeat(LAMBDA s : ReadDelta(b, s), Max({Octet(b, 1) - 1, 0}), first))

ParseFixed(b) ==
  LET n == Octet(b, 1) + 1
      payload == BodyLen(b) - 1
  IN  IF payload % n = 0 THEN [ok |-> TRUE, sizes |-> [i \in 1 .. n |-> payload \div n]]
      ELSE [ok |-> FALSE, sizes |-> <<>>]

Parsed(m, b) ==
  CASE BodyLen(b) = 0 -> [ok |-> TRUE, sizes |-> <<>>]
    [] BodyLen(b) > 0 /\ m = "Xiph" -> ParseXiph(b)
    [] BodyLen(b) > 0 /\ m = "FixedSize" -> ParseFixed(b)
    [] BodyLen(b) > 0 /\ m = "Ebml" -> ParseEbml(b)

-----------------------------------------------------------------------------

Init == mode \in Modes /\ lace = <<>> /\ body = None /\ read = None

\* A frame joins the pending lace; fixed-size laces take equal sizes only.
AppendToLace(size) ==
  /\ body = None /\ Len(lace) < MaxFrames
  /\ mode = "FixedSize" => \A i \in DOMAIN lace : lace[i] = size
  /\ lace' = Append(lace, size)
  /\ UNCHANGED <<mode, body, read>>

\* A lace of one frame is written without lacing and needs no reading.
FlushLace ==
  /\ body = None /\ Len(lace) >= 2
  /\ body' = Laced(mode, lace)
  /\ UNCHANGED <<mode, lace, read>>

\* A Block another writer laced, well or not.
Arrive ==
  /\ body = None /\ lace = <<>>
  /\ body' \in Foreign
  /\ UNCHANGED <<mode, lace, read>>

ReadLace ==
  /\ body # None /\ read = None
  /\ read' = Parsed(mode, body)
  /\ UNCHANGED <<mode, lace, body>>

Next == \/ \E size \in Sizes : AppendToLace(size)
        \/ FlushLace
        \/ Arrive
        \/ ReadLace

Spec == Init /\ [][Next]_vars

-----------------------------------------------------------------------------
(* Properties.                                                             *)

\* The demuxer finds in every laced Block the frames the muxer put there:
\* "the new write path completes the round-trip in-tree" (README.md:1576).
LacesAlwaysComeBack ==
  read # None /\ lace # <<>> => read = [ok |-> TRUE, sizes |-> lace]

\* The difference of two neighbouring sizes is the largest of its width,
\* whose VINT is the all-ones one.
LargestDelta ==
  mode = "Ebml" /\ \E i \in 2 .. Len(lace) - 1, w \in 1 .. MaxWidth :
                     lace[i] - lace[i - 1] = Bias(w) + 1

\* The round trip, where no difference meets the unknown size.
LacesComeBack == ~LargestDelta => LacesAlwaysComeBack

\* Whatever the octets of a Block are, it is refused or cut into as many frames
\* as its first octet says, and these fill it behind the octets that tell their
\* sizes: none reaches past the Block, no octet is lost or belongs to two.
\* (An EBML lace of one frame is read as two and exempt from the count; its
\* sizes have many spellings, of at least one octet each.)
FramesFillTheBlock ==
  read # None /\ read.ok /\ BodyLen(body) > 0 =>
    LET told == BodyLen(body) - SumFunction(read.sizes)
        header == LaceHeader(mode, read.sizes)
    IN  /\ \A i \in DOMAIN read.sizes : read.sizes[i] >= 0
        /\ \/ Len(read.sizes) = Octet(body, 1) + 1
           \/ mode = "Ebml" /\ Octet(body, 1) = 0
        /\ IF mode = "Ebml" THEN told >= Len(read.sizes)
           ELSE header = [i \in 1 .. told |-> Octet(body, i)]
=============================================================================
