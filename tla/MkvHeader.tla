----------------------------- MODULE MkvHeader -----------------------------
(***************************************************************************)
(* write_header of src/src/mux.rs: the elements it builds from the         *)
(* configuration, in the order it builds them, and the Tags a live stream  *)
(* writes behind them.  The file is the flat sequence of its elements; the *)
(* Segment has unknown size.  A position is the number of elements from    *)
(* the Segment's first one (SeekPosition counts their octets instead).     *)
(***************************************************************************)
EXTENDS MkvConfig, SequencesExt

CONSTANT Params     \* Streams -> the StreamInfo: codec id and what is known of it

VARIABLES
  file,             \* the elements written so far
  emittedVersion    \* emitted_doc_type_version

vars == <<config, file, emittedVersion>>

\* The elements of `names' that v has a value for, in that order.
Given(Make(_, _), v, names) ==
  FlattenSeq([k \in DOMAIN names |->
    IF Has(v, names[k]) THEN <<Make(names[k], v[names[k]])>> ELSE <<>>])
Uints(v, names)   == Given(UintElement, v, names)
Floats(v, names)  == Given(FloatElement, v, names)
Strings(v, names) == Given(StringElement, v, names)
Binaries(v, names) == Given(BytesElement, v, names)
\* One element per item of a list.
Each(Make(_), s)  == [k \in DOMAIN s |-> Make(s[k])]
EachUint(id, s)   == [k \in DOMAIN s |-> UintElement(id, s[k])]
EachNonZero(id, s) == EachUint(id, SelectSeq(s, LAMBDA n : n # 0))
EachString(id, s) == [k \in DOMAIN s |-> StringElement(id, s[k])]
EachBinary(id, s) == [k \in DOMAIN s |-> BytesElement(id, s[k])]
When(cond, s)     == IF cond THEN s ELSE <<>>
\* An optional string or blob that is left out when it is empty.
Filled(v, name)   == When(Of(v, name, "") # "", Strings(v, <<name>>))
\* Strict WebM leaves the CRC-32 out.
Checked(id, kids) == IF profile.strict THEN Master(id, kids) ELSE MasterWithCrc(id, kids)

-----------------------------------------------------------------------------
(* EBML header, SeekHead, Info. *)

DocTypeExtension(ext) ==
  Master("DocTypeExtension", <<StringElement("DocTypeExtensionName", ext.name),
                               UintElement("DocTypeExtensionVersion", ext.version)>>)

EBMLHeader(version) ==
  Master("EBML",
    <<UintElement("EBMLVersion", 1), UintElement("EBMLReadVersion", 1),
      UintElement("EBMLMaxIDLength", 4), UintElement("EBMLMaxSizeLength", 8),
      StringElement("DocType", profile.doctype), UintElement("DocTypeVersion", version),
      UintElement("DocTypeReadVersion", 2)>>
    \o Each(DocTypeExtension, queues.extensions))

SeekTargets == <<"Info", "Tracks", "Chapters", "Attachments", "Tags", "Cues">>
SeekEntry(target, position) ==
  Master("Seek", <<Element("SeekID", 4, <<>>, 0, target),
                   Element("SeekPosition", 8, <<>>, position, "")>>)

\* Of `body', the elements behind the SeekHead, each at its position; an
\* entry without a target is a Void of its size, the Cues entry stays 0.
\* Bug: the expansion Void is not counted.
SeekHeadOffByOne(body) ==
  Master("SeekHead", [k \in DOMAIN SeekTargets |->
    LET at == {p \in DOMAIN body : body[p].id = SeekTargets[k]}
    IN IF at # {} THEN SeekEntry(SeekTargets[k], (CHOOSE p \in at : TRUE) - 1)
       ELSE IF SeekTargets[k] = "Cues" THEN SeekEntry("Cues", 0) ELSE VoidElement(19)])
SeekHead(body) ==
  Master("SeekHead", [k \in DOMAIN SeekTargets |->
    LET at == {p \in DOMAIN body : body[p].id = SeekTargets[k]}
    IN IF at # {} THEN SeekEntry(SeekTargets[k], CHOOSE p \in at : TRUE)
       ELSE IF SeekTargets[k] = "Cues" THEN SeekEntry("Cues", 0) ELSE VoidElement(19)])

ChapterTranslate(ct) ==
  Master("ChapterTranslate",
    Binaries(ct, <<"ChapterTranslateID">>) \o Uints(ct, <<"ChapterTranslateCodec">>)
    \o EachUint("ChapterTranslateEditionUID", List(ct, "ChapterTranslateEditionUID")))

SegmentLinking(l) ==
  FlattenSeq([k \in 1 .. 3 |->
    Binaries(l, <<(<<"SegmentUUID", "PrevUUID", "NextUUID">>)[k]>>)
    \o Strings(l, <<(<<"SegmentFilename", "PrevFilename", "NextFilename">>)[k]>>)])
  \o EachBinary("SegmentFamily", List(l, "SegmentFamily"))
  \o Each(ChapterTranslate, List(l, "ChapterTranslate"))

DurationSlot == VoidElement(9)
Info ==
  Checked("Info",
    SegmentLinking(Of(info, "linking", Nothing))
    \o <<UintElement("TimestampScale", 1000000)>>
    \o When(options.finalize, <<DurationSlot>>)
    \o Floats(info, <<"Duration">>) \o Given(DateElement, info, <<"DateUTC">>)
    \o Strings(info, <<"Title">>)
    \o <<StringElement("MuxingApp", "oxideav"), StringElement("WritingApp", "oxideav")>>)

-----------------------------------------------------------------------------
(* One TrackEntry. *)

Hinted(t, group) == Of(hints[t], group, Nothing)
\* The caller's hint counts, then what the stream says.
Known(t, group, names) ==
  [n \in DOMAIN Hinted(t, group) \cup (DOMAIN Params[t] \cap names) |->
     IF Has(Hinted(t, group), n) THEN Hinted(t, group)[n] ELSE Params[t][n]]

TrackType == [Video |-> 1, Audio |-> 2, Subtitle |-> 17]

BlockAdditionMapping(m) ==
  Master("BlockAdditionMapping",
    Uints(m, <<"BlockAddIDValue">>) \o Strings(m, <<"BlockAddIDName">>)
    \o Uints(m, <<"BlockAddIDType">>) \o Binaries(m, <<"BlockAddIDExtraData">>))

FlagLacing(t) ==
  Of(Hinted(t, "identity"), "FlagLacing", IF options.lacing = "None" THEN 0 ELSE 1)

Language(t) ==
  LET known == Known(t, "identity", {"Language"})
  IN IF Has(known, "LanguageBCP47") THEN Strings(known, <<"LanguageBCP47">>)
     ELSE Strings(known, <<"Language">>)

CommonElements(t) ==
  <<UintElement("TrackNumber", t), UintElement("TrackUID", t),
    UintElement("TrackType", TrackType[Media[t]]), UintElement("FlagLacing", FlagLacing(t))>>
  \o Uints(Hinted(t, "identity"), <<"FlagEnabled", "FlagDefault">>)
  \o Uints(Hinted(t, "audience"), <<"FlagForced", "FlagHearingImpaired",
       "FlagVisualImpaired", "FlagTextDescriptions", "FlagOriginal", "FlagCommentary">>)
  \o Uints(Hinted(t, "maxAddition"), <<"MaxBlockAdditionID">>)
  \o Each(BlockAdditionMapping, List(hints[t], "mappings"))
  \o Uints(Hinted(t, "timing"), <<"DefaultDuration", "DefaultDecodedFieldDuration">>)
  \o Floats(Hinted(t, "timing"), <<"TrackTimestampScale">>)
  \o Strings(Hinted(t, "identity"), <<"Name", "CodecName">>)
  \o Language(t)
  \o <<StringElement("CodecID", Params[t].CodecID)>>
  \o Filled(Params[t], "CodecPrivate")
  \o Uints(Hinted(t, "identity"), <<"AttachmentLink">>)
  \o Uints(Known(t, "codecTiming", {"CodecDelay", "SeekPreRoll"}),
           <<"CodecDelay", "SeekPreRoll">>)

Legacy(t) == Hinted(t, "legacy")

AudioMaster(t) ==
  LET known == Known(t, "audio", {"SamplingFrequency", "OutputSamplingFrequency",
                                  "Channels", "BitDepth"})
  IN Master("Audio",
       Floats(known, <<"SamplingFrequency", "OutputSamplingFrequency">>)
       \o Uints(known, <<"Channels", "BitDepth", "Emphasis">>)
       \o Binaries(Legacy(t), <<"ChannelPositions">>))

Geometry(g) ==
  Uints(g, <<"PixelCropTop", "PixelCropBottom", "PixelCropLeft", "PixelCropRight",
             "DisplayWidth", "DisplayHeight", "DisplayUnit">>)

MasteringMetadata(mm) ==
  Master("MasteringMetadata", Floats(mm, <<
    "PrimaryRChromaticityX", "PrimaryRChromaticityY", "PrimaryGChromaticityX",
    "PrimaryGChromaticityY", "PrimaryBChromaticityX", "PrimaryBChromaticityY",
    "WhitePointChromaticityX", "WhitePointChromaticityY", "LuminanceMax", "LuminanceMin">>))

Colour(c) ==
  Master("Colour",
    Uints(c, <<"MatrixCoefficients", "BitsPerChannel", "ChromaSubsamplingHorz",
               "ChromaSubsamplingVert", "CbSubsamplingHorz", "CbSubsamplingVert",
               "ChromaSitingHorz", "ChromaSitingVert", "Range",
               "TransferCharacteristics", "Primaries", "MaxCLL", "MaxFALL">>)
    \o When(Has(c, "mastering"), <<MasteringMetadata(Of(c, "mastering", Nothing))>>))

Projection(p) ==
  Master("Projection",
    Uints(p, <<"ProjectionType">>) \o Binaries(p, <<"ProjectionPrivate">>)
    \o Floats(p, <<"ProjectionPoseYaw", "ProjectionPosePitch", "ProjectionPoseRoll">>))

VideoMaster(t) ==
  Master("Video",
    Uints(Hinted(t, "interlacing"), <<"FlagInterlaced", "FieldOrder">>)
    \o Uints(Hinted(t, "stereo"), <<"StereoMode">>)
    \o Uints(Hinted(t, "oldStereo"), <<"OldStereoMode">>)
    \o Uints(Hinted(t, "alpha"), <<"AlphaMode">>)
    \o Uints(Params[t], <<"PixelWidth", "PixelHeight">>)
    \o Geometry(Hinted(t, "geometry"))
    \o Uints(Hinted(t, "aspect"), <<"AspectRatioType">>)
    \o Binaries(Hinted(t, "fourcc"), <<"UncompressedFourCC">>)
    \o When(Has(hints[t], "colour"), <<Colour(Hinted(t, "colour"))>>)
    \o When(Has(hints[t], "projection"), <<Projection(Hinted(t, "projection"))>>)
    \o Floats(Legacy(t), <<"GammaValue", "FrameRate">>))

TrackPlane(p) ==
  Master("TrackPlane",
    <<UintElement("TrackPlaneUID", p.track), UintElement("TrackPlaneType", p.type)>>)
TrackOperation(op) ==
  Master("TrackOperation",
    When(op.planes # <<>>, <<Master("TrackCombinePlanes", Each(TrackPlane, op.planes))>>)
    \o When(op.joins # <<>>,
            <<Master("TrackJoinBlocks", EachUint("TrackJoinUID", op.joins))>>))

ContentCompression(e) ==
  Master("ContentCompression", Uints(e, <<"ContentCompAlgo">>)
                               \o Filled(e, "ContentCompSettings"))
ContentEncryption(e) ==
  Master("ContentEncryption",
    Uints(e, <<"ContentEncAlgo">>) \o Filled(e, "ContentEncKeyID")
    \o When(Has(e, "AESSettingsCipherMode"),
            <<Master("ContentEncAESSettings", Uints(e, <<"AESSettingsCipherMode">>))>>)
    \o Binaries(e, <<"ContentSignature", "ContentSigKeyID">>)
    \o Uints(e, <<"ContentSigAlgo", "ContentSigHashAlgo">>))
ContentEncoding(e) ==
  Master("ContentEncoding",
    Uints(e, <<"ContentEncodingOrder", "ContentEncodingScope">>)
    \o IF Has(e, "ContentCompAlgo")
       THEN <<UintElement("ContentEncodingType", 0), ContentCompression(e)>>
       ELSE <<UintElement("ContentEncodingType", 1), ContentEncryption(e)>>)
\* The chain goes out by ascending order.
ContentEncodings(es) ==
  Master("ContentEncodings",
    Each(ContentEncoding,
         SortSeq(es, LAMBDA a, b : a.ContentEncodingOrder < b.ContentEncodingOrder)))

TrackTranslate(tt) ==
  Master("TrackTranslate",
    Binaries(tt, <<"TrackTranslateTrackID">>) \o Uints(tt, <<"TrackTranslateCodec">>)
    \o EachUint("TrackTranslateEditionUID", tt.TrackTranslateEditionUID))

LegacyElements(v) ==
  Strings(v, <<"CodecSettings">>)
  \o EachString("CodecInfoURL", List(v, "CodecInfoURL"))
  \o EachString("CodecDownloadURL", List(v, "CodecDownloadURL"))
  \o Uints(v, <<"CodecDecodeAll", "MinCache", "MaxCache">>)
  \o Given(IntElement, v, <<"TrackOffset">>)
  \o EachUint("TrackOverlay", List(v, "TrackOverlay"))
  \o Uints(v, <<"TrickTrackUID">>) \o Binaries(v, <<"TrickTrackSegmentUID">>)
  \o Uints(v, <<"TrickTrackFlag", "TrickMasterTrackUID">>)
  \o Binaries(v, <<"TrickMasterTrackSegmentUID">>)

TrackEntry(t) ==
  Master("TrackEntry",
    CommonElements(t)
    \o When(Media[t] = "Audio", <<AudioMaster(t)>>)
    \o When(Media[t] = "Video", <<VideoMaster(t)>>)
    \o When(Has(hints[t], "operation"), <<TrackOperation(Hinted(t, "operation"))>>)
    \o When(Has(hints[t], "encodings"), <<ContentEncodings(List(hints[t], "encodings"))>>)
    \o Each(TrackTranslate, List(hints[t], "translates"))
    \o LegacyElements(Legacy(t)))

Tracks == Checked("Tracks", [t \in Streams |-> TrackEntry(t)])

-----------------------------------------------------------------------------
(* Chapters, Attachments, Tags. *)

EditionDisplay(d) ==
  Master("EditionDisplay",
    Strings(d, <<"EditionString">>)
    \o EachString("EditionLanguageIETF", d.EditionLanguageIETF))

ChapterDisplay(d) ==
  Master("ChapterDisplay",
    Strings(d, <<"ChapString">>)
    \o (IF Has(d, "ChapLanguageBCP47") THEN Strings(d, <<"ChapLanguageBCP47">>)
        ELSE Strings(d, <<"ChapLanguage">>))
    \o Strings(d, <<"ChapCountry">>))

ChapProcessCommand(c) ==
  Master("ChapProcessCommand",
    Uints(c, <<"ChapProcessTime">>) \o Binaries(c, <<"ChapProcessData">>))
ChapProcess(p) ==
  Master("ChapProcess",
    Uints(p, <<"ChapProcessCodecID">>) \o Binaries(p, <<"ChapProcessPrivate">>)
    \o Each(ChapProcessCommand, p.commands))

ChapterUID(c, index) == Of(c, "ChapterUID", index)
ChapterAtom(c, index) ==
  Master("ChapterAtom",
    <<UintElement("ChapterUID", ChapterUID(c, index))>>
    \o Filled(c, "ChapterStringUID")
    \o Uints(c, <<"ChapterTimeStart", "ChapterTimeEnd", "ChapterFlagHidden",
                  "ChapterFlagEnabled">>)
    \o Binaries(c, <<"ChapterSegmentUUID">>)
    \o Uints(c, <<"ChapterSegmentEditionUID", "ChapterPhysicalEquiv", "ChapterSkipType">>)
    \o Each(ChapterDisplay, List(c, "ChapterDisplay"))
    \o Each(ChapProcess, List(c, "ChapProcess")))

Chapters ==
  Checked("Chapters", <<Master("EditionEntry",
    When(~profile.strict, <<UintElement("EditionUID", 1)>>)
    \o Each(EditionDisplay, queues.editionDisplays)
    \o [k \in DOMAIN queues.chapters |-> ChapterAtom(queues.chapters[k], k)])>>)

AttachedFile(a, index) ==
  Master("AttachedFile",
    Filled(a, "FileDescription")
    \o Strings(a, <<"FileName", "FileMediaType">>) \o Binaries(a, <<"FileData">>)
    \o <<UintElement("FileUID", Of(a, "FileUID", index))>>
    \o Binaries(a, <<"FileReferral">>)
    \o Uints(a, <<"FileUsedStartTime", "FileUsedEndTime">>))
Attachments ==
  MasterWithCrc("Attachments",
    [k \in DOMAIN queues.attachments |-> AttachedFile(queues.attachments[k], k)])

Targets(tg) ==
  Master("Targets",
    Uints(tg, <<"TargetTypeValue">>) \o Filled(tg, "TargetType")
    \o EachNonZero("TagTrackUID", List(tg, "TagTrackUID"))
    \o EachNonZero("TagEditionUID", List(tg, "TagEditionUID"))
    \o EachNonZero("TagChapterUID", List(tg, "TagChapterUID"))
    \o EachNonZero("TagAttachmentUID", List(tg, "TagAttachmentUID"))
    \o EachNonZero("TagBlockAddIDValue", List(tg, "TagBlockAddIDValue")))

SimpleTagBody(st) ==
  Strings(st, <<"TagName">>)
  \o (IF Of(st, "TagLanguageBCP47", "") # "" THEN Strings(st, <<"TagLanguageBCP47">>)
      ELSE When(Of(st, "TagLanguage", "und") \notin {"", "und"}, Strings(st, <<"TagLanguage">>)))
  \o Uints(st, <<"TagDefault">>) \o Strings(st, <<"TagString">>)
  \o Binaries(st, <<"TagBinary">>)
SimpleTag(st) ==
  Master("SimpleTag",
    SimpleTagBody(st)
    \o [k \in DOMAIN List(st, "SimpleTag") |->
          Master("SimpleTag", SimpleTagBody(st.SimpleTag[k]))])

\* Bug: a Tag about the whole Segment has no Targets.
TagWithoutEmptyTargets(tag) ==
  Master("Tag", When(tag.targets # Nothing, <<Targets(tag.targets)>>)
                \o Each(SimpleTag, tag.simple))
Tag(tag) == Master("Tag", <<Targets(tag.targets)>> \o Each(SimpleTag, tag.simple))
TagsOf(tags) == Checked("Tags", Each(Tag, tags))

-----------------------------------------------------------------------------
(* The actions. *)

Body ==
  When(~options.live /\ options.expansion # 0, <<VoidElement(options.expansion)>>)
  \o <<Info, Tracks>>
  \o When(queues.chapters # <<>>, <<Chapters>>)
  \o When(queues.attachments # <<>>, <<Attachments>>)
  \o When(queues.tags # <<>>, <<TagsOf(queues.tags)>>)
  \o When(options.front # 0, <<VoidElement(options.front)>>)

Init ==
  /\ \E doctype \in {"matroska", "webm"} : NewConfig(doctype)
  /\ file = <<>> /\ emittedVersion = 4

WriteHeader ==
  /\ ~written
  /\ queues.editionDisplays # <<>> => queues.chapters # <<>>
  /\ emittedVersion' = IF UsesV5Elements THEN 5 ELSE 4
  /\ file' = <<EBMLHeader(emittedVersion'), OpenMaster("Segment")>>
             \o When(~options.live, <<SeekHead(Body)>>) \o Body
  /\ written' = TRUE
  /\ UNCHANGED <<profile, options, info, hints, queues, calls>>

\* Laces and Clusters belong to MkvMux.
WriteLiveTags ==
  /\ written /\ options.live
  /\ \E tag \in Args.tags :
       /\ TagAccepted(tag)
       /\ UsesBlockAddIds(tag) => emittedVersion >= 5
       /\ file' = Append(file, TagsOf(<<tag>>))
  /\ calls < MaxCalls /\ calls' = calls + 1
  /\ UNCHANGED <<profile, options, info, hints, queues, written, emittedVersion>>

Next ==
  \/ Configure /\ UNCHANGED <<file, emittedVersion>>
  \/ WriteHeader \/ WriteLiveTags
Spec == Init /\ [][Next]_vars

=============================================================================
