---------------------------- MODULE MkvHeaderInv ----------------------------
(***************************************************************************)
(* What the setters of MkvConfig keep out of a configuration, in whatever  *)
(* order they are called, and what the header makes of it.  The invariant  *)
(* HeaderInv is inductive; MkvHeaderProofs proves it.                      *)
(***************************************************************************)
EXTENDS MkvHeader

Shape ==
  /\ DOMAIN profile = {"doctype", "strict"} /\ profile.strict \in BOOLEAN
  /\ profile.strict => profile.doctype = "webm"
  /\ DOMAIN options = {"lacing", "position", "ms", "bytes", "front", "expansion",
                       "live", "finalize"}
  /\ DOMAIN queues = {"chapters", "editionDisplays", "attachments", "tags", "extensions"}
  /\ queues.chapters \in Seq(Args.chapters) /\ queues.tags \in Seq(Args.tags)
  /\ DOMAIN hints = Streams
  /\ written \in BOOLEAN

\* The combinations of layouts the setters exclude never come about, in
\* whatever order they are called (with_live_streaming, with_front_cues,
\* with_seek_head_expansion_void, with_duration_finalization, set_duration).
LayoutsExclude ==
  /\ options.live => options.front = 0 /\ options.expansion = 0 /\ ~options.finalize
  /\ options.finalize => ~Has(info, "Duration")

\* What a strict WebM file must not have, per hint, chapter and tag.
OutsideWebm == {"maxAddition", "operation", "translates", "legacy"}
HintInWebm(h) ==
  /\ DOMAIN h \cap OutsideWebm = {}
  /\ Has(h, "timing") =>
       DOMAIN h["timing"] \cap {"DefaultDecodedFieldDuration", "TrackTimestampScale"} = {}
  /\ Has(h, "identity") => ~Has(h["identity"], "AttachmentLink")
  /\ Has(h, "encodings") =>
       \A e \in Items(h["encodings"]) : DOMAIN e \cap ({"ContentCompAlgo"} \cup Signing) = {}
TagInWebm(tag) ==
  \A n \in {"TagEditionUID", "TagChapterUID", "TagAttachmentUID"} : List(tag.targets, n) = <<>>

\* A muxer that still is strict holds nothing the WebM guidelines do not
\* support (UncompressedFourCC apart), however often it was told to be lenient
\* and whichever hints were replaced on the way (webm_profile_guard).
ProfileKept ==
  profile.strict =>
    /\ ~Has(info, "linking") /\ queues.attachments = <<>>
    /\ \A t \in Streams : HintInWebm(hints[t])
    /\ \A c \in Items(queues.chapters) : DOMAIN c \cap ChapterOutsideWebm = {}
    /\ \A tag \in Items(queues.tags) : TagInWebm(tag)

\* No WebM file, strict or lenient, has an element of version 5 or says so
\* (v5_guard); any other header says so exactly if it has one.
VersionKept ==
  /\ profile.doctype = "webm" => ~UsesV5Elements /\ emittedVersion = 4
  /\ written => (emittedVersion = 5 <=> UsesV5Elements)

HeaderInv == Shape /\ LayoutsExclude /\ ProfileKept /\ VersionKept

-----------------------------------------------------------------------------
\* Where the parts of the header are.
SegmentAt == 2
Child(p) == file[SegmentAt + 1 + p]     \* the Segment's child at position p
Children == {p \in 0 .. Len(file) : SegmentAt + 1 + p <= Len(file)}
Leaves(m, id) == {k \in DOMAIN m.kids : m.kids[k].id = id}
Entries == IF options.live THEN {}
           ELSE {Child(0).kids[k] : k \in Leaves(Child(0), "Seek")}

\* Every Seek entry of the header names the position of an element with its
\* ID, each of the header's elements that has an entry is found, and only the
\* entry for the Cues is still open.
SeekHeadResolves ==
  written =>
    /\ \A e \in Entries : LET target == e.kids[1].text
                              p      == e.kids[2].val
                          IN IF target = "Cues" THEN p = 0
                             ELSE p \in Children /\ Child(p).id = target
    /\ ~options.live =>
         \A p \in Children : Child(p).id \in {"Info", "Tracks", "Chapters", "Attachments", "Tags"}
           => \E e \in Entries : e.kids[1].text = Child(p).id /\ e.kids[2].val = p
=============================================================================
