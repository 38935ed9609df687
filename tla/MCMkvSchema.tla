---------------------------- MODULE MCMkvSchema ----------------------------
(***************************************************************************)
(* Documents for the two walkers: three EBML headers, a Segment of known   *)
(* or unknown size with up to two top-level elements of a pool behind its  *)
(* Info, and the three ways a document can end.  The pool has, per kind of *)
(* finding, an element that has it and one that barely does not.           *)
(***************************************************************************)
EXTENDS MkvValidateProps

U(id, n) == UintElement(id, n)
S(id)    == StringElement(id, "abc")
Open(id, kids) == Element(id, Unknown, kids, 0, "")

Header(doctype, versions) ==
  Master("EBML", <<U("EBMLVersion", 1), StringElement("DocType", doctype)>> \o versions)
Headers == { Header("webm", <<U("DocTypeVersion", 4), U("DocTypeReadVersion", 2)>>),
             Header("webm", <<>>),
             Header("matroska", <<U("DocTypeVersion", 5)>>) }

Atom(kids) == Master("ChapterAtom", <<U("ChapterUID", 7), U("ChapterTimeStart", 0)>> \o kids)
Skip(n)    == U("ChapterSkipType", n)
Chapters(atom) == Master("Chapters", <<Master("EditionEntry", <<atom>>)>>)
NameTag(kids)  == Master("SimpleTag", <<S("TagName")>> \o kids)
Tags(kids)     == Master("Tags", <<Master("Tag", kids)>>)
Frame    == BytesElement("SimpleBlock", "abc")
Time     == U("Timestamp", 3)
Info     == Master("Info", <<S("MuxingApp"), S("WritingApp")>>)

Pool == {
  Open("Cluster", <<Time, Frame>>),
  Open("Cluster", <<Time, U("CueTime", 1), Frame>>),
  Open("Cluster", <<Frame>>),
  Master("Cluster", <<Time, U("Position", 4), Frame>>),
  MasterWithCrc("Cluster", <<Time>>),
  Master("Cluster", <<Time, CrcElement, Time>>),
  Master("Info", <<S("MuxingApp")>>),
  MasterWithCrc("Info", <<U("TimestampScale", 0), BytesElement("SegmentUUID", "short"),
                          S("MuxingApp"), S("WritingApp")>>),
  Chapters(Atom(<<Skip(1), Atom(<<Skip(2), Atom(<<Skip(1)>>)>>)>>)),
  Chapters(Atom(<<Atom(<<Atom(<<Skip(1)>>)>>), Skip(1)>>)),
  Tags(<<Master("Targets", <<>>), NameTag(<<NameTag(<<>>)>>)>>),
  Tags(<<NameTag(<<Master("SimpleTag", <<>>)>>)>>),
  Master("SignatureSlot", <<S("SignatureAlgo"), Master("SignatureElements", <<>>)>>),
  S("unlisted"), VoidElement(9),
  Master("Tracks", <<Master("TrackEntry", <<U("TrackNumber", 1), U("TrackUID", 1),
    U("TrackType", 1), S("CodecID"), Master("Video", <<U("PixelWidth", 2),
      U("PixelHeight", 2), FloatElement("FrameRate", 25)>>)>>)>>),
  \* Damage: an element of unknown size that may not have one, a Block that
  \* runs over the end of its Cluster, bytes that are no element.
  Open("Cues", <<>>),
  Open("Cluster", <<Time, Element("SimpleBlock", Overrun, <<>>, 0, "")>>),
  Open("Cluster", <<Time, Torn>>) }

Segments == {<<Info>> \o more : more \in UNION {[1 .. n -> Pool] : n \in 0 .. 2}}
MCDocuments ==
  {<<h, Master("Segment", kids)>> : h \in Headers, kids \in Segments}
    \cup {<<h, Open("Segment", kids)>> : h \in Headers, kids \in Segments}
    \cup {<<h, Open("Segment", kids), Master("Segment", <<Info>>)>> :
            h \in Headers, kids \in Segments}
=============================================================================
