---------------------------- MODULE MCMkvLacing ----------------------------
(***************************************************************************)
(* Frames on both sides of every boundary of the encodings (multiples of   *)
(* 255, the ranges of one and two octet VINTs, plain and signed), and      *)
(* Blocks of up to four octets and some payload that nobody encoded.       *)
(***************************************************************************)
EXTENDS MkvLacing

MCModes == {"Xiph", "FixedSize", "Ebml"}

MCSizes == {0, 1, 63, 64, 65, 126, 127, 254, 255, 510, 8191, 8192, 16383}

\* Frame counts 1 to 4; VINTs of one to four octets (the longest whose values
\* TLC has integers for), all-ones payloads, Xiph continuations.
Octets == {0, 16, 32, 63, 64, 127, 128, 129, 191, 255}

Bodies == {<<>>} \cup {<<n>> \o s : n \in 0 .. 3, s \in BoundedSeq(Octets, 3)}

MCForeign == [octets : Bodies, data : {0, 1, 65, 300}]
=============================================================================
