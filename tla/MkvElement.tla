----------------------------- MODULE MkvElement -----------------------------
(***************************************************************************)
(* EBML elements as the schema validator, the WebM scanner, the muxer's    *)
(* header builders and the demuxer's parsers see them: an ID (the schema's *)
(* name), a size, and a body of children or of one value.                  *)
(*                                                                         *)
(* An element of unknown size has no body of its own: as in the bytes, its *)
(* children are the elements that follow it.  A string or binary value is  *)
(* a token that stands for octets whose number OctetsOf tells; every other *)
(* value is an integer.                                                    *)
(***************************************************************************)
EXTENDS Integers, Sequences

Unknown == -1     \* VINT_UNKNOWN_SIZE
Overrun == -2     \* a size that ends behind the enclosing master

Element(id, octets, kids, val, text) ==
  [id |-> id, octets |-> octets, kids |-> kids, val |-> val, text |-> text]

Master(id, kids) == Element(id, Len(kids), kids, 0, "")
OpenMaster(id)   == Element(id, Unknown, <<>>, 0, "")
Torn             == Element("torn", Overrun, <<>>, 0, "")  \* no element header

\* Tokens whose length matters.
Uuids   == {"uuid A", "uuid B", "uuid C"}      \* 16 octets
Fours   == {"I420", "crc"}                     \* 4 octets
OctetsOf(text) ==
  IF text = "" THEN 0
  ELSE IF text \in Uuids THEN 16 ELSE IF text \in Fours THEN 4 ELSE 3

\* write_uint_element uses as few octets as the value needs; floats, dates
\* and (write_int_element) signed integers that need it have eight.
UintElement(id, n)   == Element(id, IF n < 256 THEN 1 ELSE IF n < 65536 THEN 2 ELSE 4,
                                <<>>, n, "")
IntElement(id, n)    == Element(id, IF n \in -128 .. 127 THEN 1 ELSE 4, <<>>, n, "")
FloatElement(id, n)  == Element(id, 8, <<>>, n, "")
DateElement(id, n)   == Element(id, 8, <<>>, n, "")
BytesElement(id, t)  == Element(id, OctetsOf(t), <<>>, 0, t)
StringElement(id, t) == Element(id, OctetsOf(t), <<>>, 0, t)
VoidElement(octets)  == Element("Void", octets, <<>>, 0, "")

\* A master whose first child is the CRC-32 of the others.
CrcElement == BytesElement("CRC-32", "crc")
MasterWithCrc(id, kids) == Master(id, <<CrcElement>> \o kids)

=============================================================================
