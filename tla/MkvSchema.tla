----------------------------- MODULE MkvSchema -----------------------------
(***************************************************************************)
(* The element tables of src/src/schema.rs (SCHEMA and EBML_SUPPLEMENT)    *)
(* and the WebM guidelines table of src/src/webm.rs, one row per element.  *)
(* An element is named by the schema's name instead of its ID; a table is  *)
(* cut where the source's ID order cuts it, and named by the IDs it spans. *)
(*                                                                         *)
(* Left out of a row: `recurring' and `webm', which nothing reads, and the *)
(* default's value (only its presence is read).  Values are integers: a    *)
(* float stands for its integral part, which is enough to be inside, at or *)
(* outside each bound of the table.                                        *)
(***************************************************************************)
EXTENDS Integers

Now    == 255                    \* NO_MAX_VER: the element is current
Many   == 1000000                \* max_occurs: None
Root   == "(document)"           \* parent_id: None
Global == "(anywhere)"           \* parent_id: None, and exempt from placement

\* What a row says of an element's value or of its octets.
Between(lo, hi) == [on |-> "value", lo |-> lo, hi |-> hi]
AtLeast(n)      == Between(n, 2147483647)
Unbounded             == Between(-2147483647, 2147483647)
NotZero         == AtLeast(1)    \* only unsigned elements are ranged so
Positive        == AtLeast(1)    \* a float above zero
Exactly(n)      == Between(n, n)
Octets(n)       == [on |-> "octets", lo |-> n, hi |-> n]
NonEmpty        == [on |-> "octets", lo |-> 1, hi |-> 2147483647]

E(name, parent, type, min, max, fits, default, minver, maxver) ==
  [name |-> name, parent |-> parent, type |-> type, min |-> min, max |-> max,
   fits |-> fits, default |-> default, minver |-> minver, maxver |-> maxver]

-----------------------------------------------------------------------------
Supplement_BF_4286 == {
  E("CRC-32", Global, "binary", 0, 1, Octets(4), FALSE, 1, Now),
  E("Void", Global, "binary", 0, Many, Unbounded, FALSE, 1, Now),
  E("DocTypeExtension", "EBML", "master", 0, Many, Unbounded, FALSE, 1, Now),
  E("DocType", "EBML", "ascii", 1, 1, NonEmpty, FALSE, 1, Now),
  E("DocTypeExtensionName", "DocTypeExtension", "ascii", 1, 1, NonEmpty, FALSE, 1, Now),
  E("DocTypeExtensionVersion", "DocTypeExtension", "uint", 1, 1, NotZero, FALSE, 1, Now),
  E("DocTypeReadVersion", "EBML", "uint", 1, 1, NotZero, TRUE, 1, Now),
  E("EBMLVersion", "EBML", "uint", 1, 1, NotZero, TRUE, 1, Now)}

Ids_4287_1A45DFA3 == {
  E("DocTypeVersion", "EBML", "uint", 1, 1, NotZero, TRUE, 1, Now),
  E("EBMLReadVersion", "EBML", "uint", 1, 1, Exactly(1), TRUE, 1, Now),
  E("EBML", Root, "master", 1, Many, Unbounded, FALSE, 1, Now)}

Ids_80_8F == {
  E("ChapterDisplay", "ChapterAtom", "master", 0, Many, Unbounded, FALSE, 1, Now),
  E("TrackType", "TrackEntry", "uint", 1, 1, NotZero, FALSE, 1, Now),
  E("ChapString", "ChapterDisplay", "utf8", 1, 1, Unbounded, FALSE, 1, Now),
  E("CodecID", "TrackEntry", "ascii", 1, 1, Unbounded, FALSE, 1, Now),
  E("FlagDefault", "TrackEntry", "uint", 1, 1, Between(0, 1), TRUE, 1, Now),
  E("ChapterTrackUID", "ChapterTrack", "uint", 1, Many, NotZero, FALSE, 1, Now),
  E("Slices", "BlockGroup", "master", 0, 1, Unbounded, FALSE, 0, 0),
  E("ChapterTrack", "ChapterAtom", "master", 0, 1, Unbounded, FALSE, 1, Now)}

Ids_91_9C == {
  E("ChapterTimeStart", "ChapterAtom", "uint", 1, 1, Unbounded, FALSE, 1, Now),
  E("ChapterTimeEnd", "ChapterAtom", "uint", 0, 1, Unbounded, FALSE, 1, Now),
  E("CueRefTime", "CueReference", "uint", 1, 1, Unbounded, FALSE, 2, Now),
  E("CueRefCluster", "CueReference", "uint", 1, 1, Unbounded, FALSE, 0, 0),
  E("ChapterFlagHidden", "ChapterAtom", "uint", 1, 1, Between(0, 1), TRUE, 1, Now),
  E("FlagInterlaced", "Video", "uint", 1, 1, Unbounded, TRUE, 2, Now),
  E("BlockDuration", "BlockGroup", "uint", 0, 1, Unbounded, FALSE, 1, Now),
  E("FlagLacing", "TrackEntry", "uint", 1, 1, Between(0, 1), TRUE, 1, Now)}

Ids_9D_A5 == {
  E("FieldOrder", "Video", "uint", 1, 1, Unbounded, TRUE, 4, Now),
  E("Channels", "Audio", "uint", 1, 1, NotZero, TRUE, 1, Now),
  E("BlockGroup", "Cluster", "master", 0, Many, Unbounded, FALSE, 1, Now),
  E("Block", "BlockGroup", "binary", 1, 1, Unbounded, FALSE, 1, Now),
  E("BlockVirtual", "BlockGroup", "binary", 0, 1, Unbounded, FALSE, 0, 0),
  E("SimpleBlock", "Cluster", "binary", 0, Many, Unbounded, FALSE, 2, Now),
  E("CodecState", "BlockGroup", "binary", 0, 1, Unbounded, FALSE, 2, Now),
  E("BlockAdditional", "BlockMore", "binary", 1, 1, Unbounded, FALSE, 1, Now)}

Ids_A6_B2 == {
  E("BlockMore", "BlockAdditions", "master", 1, Many, Unbounded, FALSE, 1, Now),
  E("Position", "Cluster", "uint", 0, 1, Unbounded, FALSE, 1, 4),
  E("CodecDecodeAll", "TrackEntry", "uint", 1, 1, Between(0, 1), TRUE, 1, 0),
  E("PrevSize", "Cluster", "uint", 0, 1, Unbounded, FALSE, 1, Now),
  E("TrackEntry", "Tracks", "master", 1, Many, Unbounded, FALSE, 1, Now),
  E("EncryptedBlock", "Cluster", "binary", 0, Many, Unbounded, FALSE, 0, 0),
  E("PixelWidth", "Video", "uint", 1, 1, NotZero, FALSE, 1, Now),
  E("CueDuration", "CueTrackPositions", "uint", 0, 1, Unbounded, FALSE, 4, Now)}

Ids_B3_C0 == {
  E("CueTime", "CuePoint", "uint", 1, 1, Unbounded, FALSE, 1, Now),
  E("SamplingFrequency", "Audio", "float", 1, 1, Positive, TRUE, 1, Now),
  E("ChapterAtom", "EditionEntry", "master", 1, Many, Unbounded, FALSE, 1, Now),
  E("CueTrackPositions", "CuePoint", "master", 1, Many, Unbounded, FALSE, 1, Now),
  E("FlagEnabled", "TrackEntry", "uint", 1, 1, Between(0, 1), TRUE, 2, Now),
  E("PixelHeight", "Video", "uint", 1, 1, NotZero, FALSE, 1, Now),
  E("CuePoint", "Cues", "master", 1, Many, Unbounded, FALSE, 1, Now),
  E("TrickTrackUID", "TrackEntry", "uint", 0, 1, Unbounded, FALSE, 0, 0)}

Ids_C1_CB == {
  E("TrickTrackSegmentUID", "TrackEntry", "binary", 0, 1, Octets(16), FALSE, 0, 0),
  E("TrickMasterTrackSegmentUID", "TrackEntry", "binary", 0, 1, Octets(16), FALSE, 0, 0),
  E("TrickTrackFlag", "TrackEntry", "uint", 0, 1, Unbounded, TRUE, 0, 0),
  E("TrickMasterTrackUID", "TrackEntry", "uint", 0, 1, Unbounded, FALSE, 0, 0),
  E("ReferenceFrame", "BlockGroup", "master", 0, 1, Unbounded, FALSE, 0, 0),
  E("ReferenceOffset", "ReferenceFrame", "uint", 1, 1, Unbounded, FALSE, 0, 0),
  E("ReferenceTimestamp", "ReferenceFrame", "uint", 1, 1, Unbounded, FALSE, 0, 0),
  E("BlockAdditionID", "TimeSlice", "uint", 0, 1, Unbounded, TRUE, 0, 0)}

Ids_CC_E1 == {
  E("LaceNumber", "TimeSlice", "uint", 0, 1, Unbounded, FALSE, 0, 0),
  E("FrameNumber", "TimeSlice", "uint", 0, 1, Unbounded, TRUE, 0, 0),
  E("Delay", "TimeSlice", "uint", 0, 1, Unbounded, TRUE, 0, 0),
  E("SliceDuration", "TimeSlice", "uint", 0, 1, Unbounded, TRUE, 0, 0),
  E("TrackNumber", "TrackEntry", "uint", 1, 1, NotZero, FALSE, 1, Now),
  E("CueReference", "CueTrackPositions", "master", 0, Many, Unbounded, FALSE, 2, Now),
  E("Video", "TrackEntry", "master", 0, 1, Unbounded, FALSE, 1, Now),
  E("Audio", "TrackEntry", "master", 0, 1, Unbounded, FALSE, 1, Now)}

Ids_E2_E9 == {
  E("TrackOperation", "TrackEntry", "master", 0, 1, Unbounded, FALSE, 3, Now),
  E("TrackCombinePlanes", "TrackOperation", "master", 0, 1, Unbounded, FALSE, 3, Now),
  E("TrackPlane", "TrackCombinePlanes", "master", 1, Many, Unbounded, FALSE, 3, Now),
  E("TrackPlaneUID", "TrackPlane", "uint", 1, 1, NotZero, FALSE, 3, Now),
  E("TrackPlaneType", "TrackPlane", "uint", 1, 1, Unbounded, FALSE, 3, Now),
  E("Timestamp", "Cluster", "uint", 1, 1, Unbounded, FALSE, 1, Now),
  E("TimeSlice", "Slices", "master", 0, Many, Unbounded, FALSE, 0, 0),
  E("TrackJoinBlocks", "TrackOperation", "master", 0, 1, Unbounded, FALSE, 3, Now)}

Ids_EA_FA == {
  E("CueCodecState", "CueTrackPositions", "uint", 1, 1, Unbounded, TRUE, 2, Now),
  E("CueRefCodecState", "CueReference", "uint", 0, 1, Unbounded, TRUE, 0, 0),
  E("TrackJoinUID", "TrackJoinBlocks", "uint", 1, Many, NotZero, FALSE, 3, Now),
  E("BlockAddID", "BlockMore", "uint", 1, 1, NotZero, TRUE, 1, Now),
  E("CueRelativePosition", "CueTrackPositions", "uint", 0, 1, Unbounded, FALSE, 4, Now),
  E("CueClusterPosition", "CueTrackPositions", "uint", 1, 1, Unbounded, FALSE, 1, Now),
  E("CueTrack", "CueTrackPositions", "uint", 1, 1, NotZero, FALSE, 1, Now),
  E("ReferencePriority", "BlockGroup", "uint", 1, 1, Unbounded, TRUE, 1, Now)}

Ids_FB_4254 == {
  E("ReferenceBlock", "BlockGroup", "int", 0, Many, Unbounded, FALSE, 1, Now),
  E("ReferenceVirtual", "BlockGroup", "int", 0, 1, Unbounded, FALSE, 0, 0),
  E("BlockAddIDName", "BlockAdditionMapping", "ascii", 0, 1, Unbounded, FALSE, 4, Now),
  E("BlockAdditionMapping", "TrackEntry", "master", 0, Many, Unbounded, FALSE, 4, Now),
  E("BlockAddIDType", "BlockAdditionMapping", "uint", 1, 1, Unbounded, TRUE, 4, Now),
  E("BlockAddIDExtraData", "BlockAdditionMapping", "binary", 0, 1, Unbounded, FALSE, 4, Now),
  E("BlockAddIDValue", "BlockAdditionMapping", "uint", 0, 1, AtLeast(2), FALSE, 4, Now),
  E("ContentCompAlgo", "ContentCompression", "uint", 1, 1, Unbounded, TRUE, 1, Now)}

Ids_4255_4461 == {
  E("ContentCompSettings", "ContentCompression", "binary", 0, 1, Unbounded, FALSE, 1, Now),
  E("EBMLMaxIDLength", "EBML", "uint", 1, 1, Exactly(4), TRUE, 1, Now),
  E("EBMLMaxSizeLength", "EBML", "uint", 1, 1, Between(1, 8), TRUE, 1, Now),
  E("ChapLanguage", "ChapterDisplay", "ascii", 1, Many, Unbounded, TRUE, 1, Now),
  E("ChapLanguageBCP47", "ChapterDisplay", "ascii", 0, Many, Unbounded, FALSE, 4, Now),
  E("ChapCountry", "ChapterDisplay", "ascii", 0, Many, Unbounded, FALSE, 1, Now),
  E("SegmentFamily", "Info", "binary", 0, Many, Octets(16), FALSE, 1, Now),
  E("DateUTC", "Info", "date", 0, 1, Unbounded, FALSE, 1, Now)}

Ids_447A_450D == {
  E("TagLanguage", "SimpleTag", "ascii", 1, 1, Unbounded, TRUE, 1, Now),
  E("TagLanguageBCP47", "SimpleTag", "ascii", 0, 1, Unbounded, FALSE, 4, Now),
  E("TagDefault", "SimpleTag", "uint", 1, 1, Between(0, 1), TRUE, 1, Now),
  E("TagBinary", "SimpleTag", "binary", 0, 1, Unbounded, FALSE, 1, Now),
  E("TagString", "SimpleTag", "utf8", 0, 1, Unbounded, FALSE, 1, Now),
  E("Duration", "Info", "float", 0, 1, Positive, FALSE, 1, Now),
  E("TagDefaultBogus", "SimpleTag", "uint", 1, 1, Between(0, 1), TRUE, 0, 0),
  E("ChapProcessPrivate", "ChapProcess", "binary", 0, 1, Unbounded, FALSE, 1, Now)}

Ids_4520_45BD == {
  E("EditionDisplay", "EditionEntry", "master", 0, Many, Unbounded, FALSE, 5, Now),
  E("EditionString", "EditionDisplay", "utf8", 1, 1, Unbounded, FALSE, 5, Now),
  E("ChapterSkipType", "ChapterAtom", "uint", 0, 1, Unbounded, FALSE, 5, Now),
  E("ChapterFlagEnabled", "ChapterAtom", "uint", 1, 1, Between(0, 1), TRUE, 1, Now),
  E("TagName", "SimpleTag", "utf8", 1, 1, Unbounded, FALSE, 1, Now),
  E("EditionEntry", "Chapters", "master", 1, Many, Unbounded, FALSE, 1, Now),
  E("EditionUID", "EditionEntry", "uint", 0, 1, NotZero, FALSE, 1, Now),
  E("EditionFlagHidden", "EditionEntry", "uint", 1, 1, Between(0, 1), TRUE, 1, Now)}

Ids_45DB_466E == {
  E("EditionFlagDefault", "EditionEntry", "uint", 1, 1, Between(0, 1), TRUE, 1, Now),
  E("EditionFlagOrdered", "EditionEntry", "uint", 1, 1, Between(0, 1), TRUE, 1, Now),
  E("EditionLanguageIETF", "EditionDisplay", "ascii", 0, Many, Unbounded, FALSE, 5, Now),
  E("FileData", "AttachedFile", "binary", 1, 1, Unbounded, FALSE, 1, Now),
  E("FileMediaType", "AttachedFile", "ascii", 1, 1, Unbounded, FALSE, 1, Now),
  E("FileUsedStartTime", "AttachedFile", "uint", 0, 1, Unbounded, FALSE, 0, 0),
  E("FileUsedEndTime", "AttachedFile", "uint", 0, 1, Unbounded, FALSE, 0, 0),
  E("FileName", "AttachedFile", "utf8", 1, 1, Unbounded, FALSE, 1, Now)}

Ids_4675_47E5 == {
  E("FileReferral", "AttachedFile", "binary", 0, 1, Unbounded, FALSE, 0, 0),
  E("FileDescription", "AttachedFile", "utf8", 0, 1, Unbounded, FALSE, 1, Now),
  E("FileUID", "AttachedFile", "uint", 1, 1, NotZero, FALSE, 1, Now),
  E("ContentEncAlgo", "ContentEncryption", "uint", 1, 1, Unbounded, TRUE, 1, Now),
  E("ContentEncKeyID", "ContentEncryption", "binary", 0, 1, Unbounded, FALSE, 1, Now),
  E("ContentSignature", "ContentEncryption", "binary", 0, 1, Unbounded, FALSE, 1, 0),
  E("ContentSigKeyID", "ContentEncryption", "binary", 0, 1, Unbounded, FALSE, 1, 0),
  E("ContentSigAlgo", "ContentEncryption", "uint", 0, 1, Unbounded, TRUE, 1, 0)}

Ids_47E6_5033 == {
  E("ContentSigHashAlgo", "ContentEncryption", "uint", 0, 1, Unbounded, TRUE, 1, 0),
  E("ContentEncAESSettings", "ContentEncryption", "master", 0, 1, Unbounded, FALSE, 4, Now),
  E("AESSettingsCipherMode", "ContentEncAESSettings", "uint", 1, 1, NotZero, FALSE, 4, Now),
  E("MuxingApp", "Info", "utf8", 1, 1, Unbounded, FALSE, 1, Now),
  E("Seek", "SeekHead", "master", 1, Many, Unbounded, FALSE, 1, Now),
  E("ContentEncodingOrder", "ContentEncoding", "uint", 1, 1, Unbounded, TRUE, 1, Now),
  E("ContentEncodingScope", "ContentEncoding", "uint", 1, 1, NotZero, TRUE, 1, Now),
  E("ContentEncodingType", "ContentEncoding", "uint", 1, 1, Unbounded, TRUE, 1, Now)}

Ids_5034_53AB == {
  E("ContentCompression", "ContentEncoding", "master", 0, 1, Unbounded, FALSE, 1, Now),
  E("ContentEncryption", "ContentEncoding", "master", 0, 1, Unbounded, FALSE, 1, Now),
  E("Emphasis", "Audio", "uint", 1, 1, Unbounded, TRUE, 5, Now),
  E("CueRefNumber", "CueReference", "uint", 0, 1, NotZero, TRUE, 0, 0),
  E("Name", "TrackEntry", "utf8", 0, 1, Unbounded, FALSE, 1, Now),
  E("CueBlockNumber", "CueTrackPositions", "uint", 0, 1, NotZero, FALSE, 1, Now),
  E("TrackOffset", "TrackEntry", "int", 0, 1, Unbounded, TRUE, 0, 0),
  E("SeekID", "Seek", "binary", 1, 1, Octets(4), FALSE, 1, Now)}

Ids_53AC_54B3 == {
  E("SeekPosition", "Seek", "uint", 1, 1, Unbounded, FALSE, 1, Now),
  E("StereoMode", "Video", "uint", 1, 1, Unbounded, TRUE, 3, Now),
  E("OldStereoMode", "Video", "uint", 0, 1, Unbounded, FALSE, 1, 2),
  E("AlphaMode", "Video", "uint", 1, 1, Unbounded, TRUE, 3, Now),
  E("PixelCropBottom", "Video", "uint", 1, 1, Unbounded, TRUE, 1, Now),
  E("DisplayWidth", "Video", "uint", 0, 1, NotZero, FALSE, 1, Now),
  E("DisplayUnit", "Video", "uint", 1, 1, Unbounded, TRUE, 1, Now),
  E("AspectRatioType", "Video", "uint", 0, 1, Unbounded, TRUE, 0, 0)}

Ids_54BA_55AD == {
  E("DisplayHeight", "Video", "uint", 0, 1, NotZero, FALSE, 1, Now),
  E("PixelCropTop", "Video", "uint", 1, 1, Unbounded, TRUE, 1, Now),
  E("PixelCropLeft", "Video", "uint", 1, 1, Unbounded, TRUE, 1, Now),
  E("PixelCropRight", "Video", "uint", 1, 1, Unbounded, TRUE, 1, Now),
  E("FlagForced", "TrackEntry", "uint", 1, 1, Between(0, 1), TRUE, 1, Now),
  E("FlagHearingImpaired", "TrackEntry", "uint", 0, 1, Between(0, 1), FALSE, 4, Now),
  E("FlagVisualImpaired", "TrackEntry", "uint", 0, 1, Between(0, 1), FALSE, 4, Now),
  E("FlagTextDescriptions", "TrackEntry", "uint", 0, 1, Between(0, 1), FALSE, 4, Now)}

Ids_55AE_55B5 == {
  E("FlagOriginal", "TrackEntry", "uint", 0, 1, Between(0, 1), FALSE, 4, Now),
  E("FlagCommentary", "TrackEntry", "uint", 0, 1, Between(0, 1), FALSE, 4, Now),
  E("Colour", "Video", "master", 0, 1, Unbounded, FALSE, 4, Now),
  E("MatrixCoefficients", "Colour", "uint", 1, 1, Unbounded, TRUE, 4, Now),
  E("BitsPerChannel", "Colour", "uint", 1, 1, Unbounded, TRUE, 4, Now),
  E("ChromaSubsamplingHorz", "Colour", "uint", 0, 1, Unbounded, FALSE, 4, Now),
  E("ChromaSubsamplingVert", "Colour", "uint", 0, 1, Unbounded, FALSE, 4, Now),
  E("CbSubsamplingHorz", "Colour", "uint", 0, 1, Unbounded, FALSE, 4, Now)}

Ids_55B6_55BD == {
  E("CbSubsamplingVert", "Colour", "uint", 0, 1, Unbounded, FALSE, 4, Now),
  E("ChromaSitingHorz", "Colour", "uint", 1, 1, Unbounded, TRUE, 4, Now),
  E("ChromaSitingVert", "Colour", "uint", 1, 1, Unbounded, TRUE, 4, Now),
  E("Range", "Colour", "uint", 1, 1, Unbounded, TRUE, 4, Now),
  E("TransferCharacteristics", "Colour", "uint", 1, 1, Unbounded, TRUE, 4, Now),
  E("Primaries", "Colour", "uint", 1, 1, Unbounded, TRUE, 4, Now),
  E("MaxCLL", "Colour", "uint", 0, 1, Unbounded, FALSE, 4, Now),
  E("MaxFALL", "Colour", "uint", 0, 1, Unbounded, FALSE, 4, Now)}

Ids_55D0_55D7 == {
  E("MasteringMetadata", "Colour", "master", 0, 1, Unbounded, FALSE, 4, Now),
  E("PrimaryRChromaticityX", "MasteringMetadata", "float", 0, 1, Between(0, 1), FALSE, 4, Now),
  E("PrimaryRChromaticityY", "MasteringMetadata", "float", 0, 1, Between(0, 1), FALSE, 4, Now),
  E("PrimaryGChromaticityX", "MasteringMetadata", "float", 0, 1, Between(0, 1), FALSE, 4, Now),
  E("PrimaryGChromaticityY", "MasteringMetadata", "float", 0, 1, Between(0, 1), FALSE, 4, Now),
  E("PrimaryBChromaticityX", "MasteringMetadata", "float", 0, 1, Between(0, 1), FALSE, 4, Now),
  E("PrimaryBChromaticityY", "MasteringMetadata", "float", 0, 1, Between(0, 1), FALSE, 4, Now),
  E("WhitePointChromaticityX", "MasteringMetadata", "float", 0, 1, Between(0, 1), FALSE, 4, Now)}

Ids_55D8_5741 == {
  E("WhitePointChromaticityY", "MasteringMetadata", "float", 0, 1, Between(0, 1), FALSE, 4, Now),
  E("LuminanceMax", "MasteringMetadata", "float", 0, 1, AtLeast(0), FALSE, 4, Now),
  E("LuminanceMin", "MasteringMetadata", "float", 0, 1, AtLeast(0), FALSE, 4, Now),
  E("MaxBlockAdditionID", "TrackEntry", "uint", 1, 1, Unbounded, TRUE, 1, Now),
  E("ChapterStringUID", "ChapterAtom", "utf8", 0, 1, Unbounded, FALSE, 3, Now),
  E("CodecDelay", "TrackEntry", "uint", 1, 1, Unbounded, TRUE, 4, Now),
  E("SeekPreRoll", "TrackEntry", "uint", 1, 1, Unbounded, TRUE, 4, Now),
  E("WritingApp", "Info", "utf8", 1, 1, Unbounded, FALSE, 1, Now)}

Ids_5854_63C3 == {
  E("SilentTracks", "Cluster", "master", 0, 1, Unbounded, FALSE, 0, 0),
  E("SilentTrackNumber", "SilentTracks", "uint", 0, Many, Unbounded, FALSE, 0, 0),
  E("AttachedFile", "Attachments", "master", 1, Many, Unbounded, FALSE, 1, Now),
  E("ContentEncoding", "ContentEncodings", "master", 1, Many, Unbounded, FALSE, 1, Now),
  E("BitDepth", "Audio", "uint", 0, 1, NotZero, FALSE, 1, Now),
  E("CodecPrivate", "TrackEntry", "binary", 0, 1, Unbounded, FALSE, 1, Now),
  E("Targets", "Tag", "master", 1, 1, Unbounded, FALSE, 1, Now),
  E("ChapterPhysicalEquiv", "ChapterAtom", "uint", 0, 1, Unbounded, FALSE, 1, Now)}

Ids_63C4_66A5 == {
  E("TagChapterUID", "Targets", "uint", 0, Many, Unbounded, TRUE, 1, Now),
  E("TagTrackUID", "Targets", "uint", 0, Many, Unbounded, TRUE, 1, Now),
  E("TagAttachmentUID", "Targets", "uint", 0, Many, Unbounded, TRUE, 1, Now),
  E("TagBlockAddIDValue", "Targets", "uint", 0, Many, Unbounded, TRUE, 5, Now),
  E("TagEditionUID", "Targets", "uint", 0, Many, Unbounded, TRUE, 1, Now),
  E("TargetType", "Targets", "ascii", 0, 1, Unbounded, FALSE, 1, Now),
  E("TrackTranslate", "TrackEntry", "master", 0, Many, Unbounded, FALSE, 1, Now),
  E("TrackTranslateTrackID", "TrackTranslate", "binary", 1, 1, Unbounded, FALSE, 1, Now)}

Ids_66BF_6933 == {
  E("TrackTranslateCodec", "TrackTranslate", "uint", 1, 1, Unbounded, FALSE, 1, Now),
  E("TrackTranslateEditionUID", "TrackTranslate", "uint", 0, Many, Unbounded, FALSE, 1, Now),
  E("SimpleTag", "Tag", "master", 1, Many, Unbounded, FALSE, 1, Now),
  E("TargetTypeValue", "Targets", "uint", 1, 1, NotZero, TRUE, 1, Now),
  E("ChapProcessCommand", "ChapProcess", "master", 0, Many, Unbounded, FALSE, 1, Now),
  E("ChapProcessTime", "ChapProcessCommand", "uint", 1, 1, Unbounded, FALSE, 1, Now),
  E("ChapterTranslate", "Info", "master", 0, Many, Unbounded, FALSE, 1, Now),
  E("ChapProcessData", "ChapProcessCommand", "binary", 1, 1, Unbounded, FALSE, 1, Now)}

Ids_6944_6DF8 == {
  E("ChapProcess", "ChapterAtom", "master", 0, Many, Unbounded, FALSE, 1, Now),
  E("ChapProcessCodecID", "ChapProcess", "uint", 1, 1, Unbounded, TRUE, 1, Now),
  E("ChapterTranslateID", "ChapterTranslate", "binary", 1, 1, Unbounded, FALSE, 1, Now),
  E("ChapterTranslateCodec", "ChapterTranslate", "uint", 1, 1, Unbounded, FALSE, 1, Now),
  E("ChapterTranslateEditionUID", "ChapterTranslate", "uint", 0, Many, Unbounded, FALSE, 1, Now),
  E("ContentEncodings", "TrackEntry", "master", 0, 1, Unbounded, FALSE, 1, Now),
  E("MinCache", "TrackEntry", "uint", 1, 1, Unbounded, TRUE, 0, 0),
  E("MaxCache", "TrackEntry", "uint", 0, 1, Unbounded, FALSE, 0, 0)}

Ids_6E67_73C5 == {
  E("ChapterSegmentUUID", "ChapterAtom", "binary", 0, 1, Octets(16), FALSE, 1, Now),
  E("ChapterSegmentEditionUID", "ChapterAtom", "uint", 0, 1, NotZero, FALSE, 1, Now),
  E("TrackOverlay", "TrackEntry", "uint", 0, Many, Unbounded, FALSE, 1, 0),
  E("Tag", "Tags", "master", 1, Many, Unbounded, FALSE, 1, Now),
  E("SegmentFilename", "Info", "utf8", 0, 1, Unbounded, FALSE, 1, Now),
  E("SegmentUUID", "Info", "binary", 0, 1, Octets(16), FALSE, 1, Now),
  E("ChapterUID", "ChapterAtom", "uint", 1, 1, NotZero, FALSE, 1, Now),
  E("TrackUID", "TrackEntry", "uint", 1, 1, NotZero, FALSE, 1, Now)}

Ids_7446_7674 == {
  E("AttachmentLink", "TrackEntry", "uint", 0, 1, NotZero, FALSE, 1, 3),
  E("BlockAdditions", "BlockGroup", "master", 0, 1, Unbounded, FALSE, 1, Now),
  E("DiscardPadding", "BlockGroup", "int", 0, 1, Unbounded, FALSE, 4, Now),
  E("Projection", "Video", "master", 0, 1, Unbounded, FALSE, 4, Now),
  E("ProjectionType", "Projection", "uint", 1, 1, Unbounded, TRUE, 4, Now),
  E("ProjectionPrivate", "Projection", "binary", 0, 1, Unbounded, FALSE, 4, Now),
  E("ProjectionPoseYaw", "Projection", "float", 1, 1, Between(-180, 180), TRUE, 4, Now),
  E("ProjectionPosePitch", "Projection", "float", 1, 1, Between(-90, 90), TRUE, 4, Now)}

Ids_7675_234E7A == {
  E("ProjectionPoseRoll", "Projection", "float", 1, 1, Between(-180, 180), TRUE, 4, Now),
  E("OutputSamplingFrequency", "Audio", "float", 0, 1, Positive, FALSE, 1, Now),
  E("Title", "Info", "utf8", 0, 1, Unbounded, FALSE, 1, Now),
  E("ChannelPositions", "Audio", "binary", 0, 1, Unbounded, FALSE, 0, 0),
  E("Language", "TrackEntry", "ascii", 1, 1, Unbounded, TRUE, 1, Now),
  E("LanguageBCP47", "TrackEntry", "ascii", 0, 1, Unbounded, FALSE, 4, Now),
  E("TrackTimestampScale", "TrackEntry", "float", 1, 1, Positive, TRUE, 1, 3),
  E("DefaultDecodedFieldDuration", "TrackEntry", "uint", 0, 1, NotZero, FALSE, 4, Now)}

Ids_2383E3_3A9697 == {
  E("FrameRate", "Video", "float", 0, 1, Positive, FALSE, 0, 0),
  E("DefaultDuration", "TrackEntry", "uint", 0, 1, NotZero, FALSE, 1, Now),
  E("CodecName", "TrackEntry", "utf8", 0, 1, Unbounded, FALSE, 1, Now),
  E("CodecDownloadURL", "TrackEntry", "ascii", 0, Many, Unbounded, FALSE, 0, 0),
  E("TimestampScale", "Info", "uint", 1, 1, NotZero, TRUE, 1, Now),
  E("UncompressedFourCC", "Video", "binary", 0, 1, Octets(4), FALSE, 1, Now),
  E("GammaValue", "Video", "float", 0, 1, Positive, FALSE, 0, 0),
  E("CodecSettings", "TrackEntry", "utf8", 0, 1, Unbounded, FALSE, 0, 0)}

Ids_3B4040_1254C367 == {
  E("CodecInfoURL", "TrackEntry", "ascii", 0, Many, Unbounded, FALSE, 0, 0),
  E("PrevFilename", "Info", "utf8", 0, 1, Unbounded, FALSE, 1, Now),
  E("PrevUUID", "Info", "binary", 0, 1, Octets(16), FALSE, 1, Now),
  E("NextFilename", "Info", "utf8", 0, 1, Unbounded, FALSE, 1, Now),
  E("NextUUID", "Info", "binary", 0, 1, Octets(16), FALSE, 1, Now),
  E("Chapters", "Segment", "master", 0, 1, Unbounded, FALSE, 1, Now),
  E("SeekHead", "Segment", "master", 0, 2, Unbounded, FALSE, 1, Now),
  E("Tags", "Segment", "master", 0, Many, Unbounded, FALSE, 1, Now)}

Ids_1549A966_1F43B675 == {
  E("Info", "Segment", "master", 1, 1, Unbounded, FALSE, 1, Now),
  E("Tracks", "Segment", "master", 0, 1, Unbounded, FALSE, 1, Now),
  E("Segment", Root, "master", 1, 1, Unbounded, FALSE, 1, Now),
  E("Attachments", "Segment", "master", 0, 1, Unbounded, FALSE, 1, Now),
  E("Cues", "Segment", "master", 0, 1, Unbounded, FALSE, 1, Now),
  E("Cluster", "Segment", "master", 0, Many, Unbounded, FALSE, 1, Now)}

-----------------------------------------------------------------------------
Recursive          == {"ChapterAtom", "SimpleTag"}     \* rows with recursive
UnknownSizeAllowed == {"Segment", "Cluster"}  \* rows with unknown_size_allowed

Schema == UNION {
  Supplement_BF_4286, Ids_4287_1A45DFA3, Ids_80_8F, Ids_91_9C, Ids_9D_A5,
  Ids_A6_B2, Ids_B3_C0, Ids_C1_CB, Ids_CC_E1, Ids_E2_E9, Ids_EA_FA,
  Ids_FB_4254, Ids_4255_4461, Ids_447A_450D, Ids_4520_45BD, Ids_45DB_466E,
  Ids_4675_47E5, Ids_47E6_5033, Ids_5034_53AB, Ids_53AC_54B3, Ids_54BA_55AD,
  Ids_55AE_55B5, Ids_55B6_55BD, Ids_55D0_55D7, Ids_55D8_5741, Ids_5854_63C3,
  Ids_63C4_66A5, Ids_66BF_6933, Ids_6944_6DF8, Ids_6E67_73C5, Ids_7446_7674,
  Ids_7675_234E7A, Ids_2383E3_3A9697, Ids_3B4040_1254C367,
  Ids_1549A966_1F43B675}

Def == [n \in {r.name : r \in Schema} |-> CHOOSE r \in Schema : r.name = n]

Masters == {n \in DOMAIN Def : Def[n].type = "master"}

\* A writer of this schema version must not emit these.
IsDeprecated(d) == d.maxver # Now /\ d.maxver < 4

\* Children whose absence the validator reports: mandatory, and no default
\* to stand in for them.
Required == [p \in Masters \cup {Root} |->
               {r.name : r \in {s \in Schema : s.parent = p /\ s.min >= 1 /\ ~s.default}}]

LegacySignature ==
  {"SignatureSlot", "SignatureAlgo", "SignatureHash", "SignaturePublicKey",
   "Signature", "SignatureElements", "SignatureElementList", "SignedElement"}
LegacySignatureMasters ==
  {"SignatureSlot", "SignatureElements", "SignatureElementList"}

-----------------------------------------------------------------------------
(* The WebM guidelines table, by ID width. *)

WebmIds1 == [
  supported |->
    {"ChapterDisplay", "TrackType", "ChapString", "CodecID", "FlagDefault",
     "ChapterTimeStart", "ChapterTimeEnd", "FlagInterlaced", "BlockDuration",
     "FlagLacing", "Channels", "BlockGroup", "Block", "SimpleBlock",
     "BlockAdditional", "BlockMore", "PrevSize", "TrackEntry", "PixelWidth",
     "CueDuration", "CueTime", "SamplingFrequency", "ChapterAtom",
     "CueTrackPositions", "FlagEnabled", "PixelHeight", "CuePoint",
     "TrackNumber", "Video", "Audio", "Timestamp", "Void", "BlockAddID",
     "CueRelativePosition", "CueClusterPosition", "CueTrack",
     "ReferenceBlock"},
  unsupported |->
    {"ChapterTrackUID", "Slices", "ChapterTrack", "CueRefTime", "CueRefCluster",
     "ChapterFlagHidden", "CodecState", "Position", "CodecDecodeAll",
     "EncryptedBlock", "CRC-32", "TrickTrackUID", "TrickTrackSegmentUID",
     "TrickMasterTrackSegmentUID", "TrickTrackFlag", "TrickMasterTrackUID",
     "ReferenceFrame", "ReferenceOffset", "ReferenceTimestamp",
     "BlockAdditionID", "FrameNumber", "Delay", "SliceDuration",
     "CueReference", "TrackOperation", "TrackCombinePlanes", "TrackPlane",
     "TrackPlaneUID", "TrackPlaneType", "TrackJoinBlocks", "CueCodecState",
     "CueRefCodecState", "TrackJoinUID", "ReferencePriority",
     "ReferenceVirtual"},
  deprecated |->
    {"BlockVirtual", "LaceNumber", "TimeSlice"}]

WebmIds2a == [
  supported |->
    {"DocType", "DocTypeReadVersion", "EBMLVersion", "DocTypeVersion",
     "EBMLMaxIDLength", "EBMLMaxSizeLength", "EBMLReadVersion",
     "ChapLanguage", "ChapCountry", "DateUTC", "TagLanguage", "TagDefault",
     "TagBinary", "TagString", "Duration", "TagName", "EditionEntry",
     "ContentEncAlgo", "ContentEncKeyID", "ContentEncAESSettings",
     "AESSettingsCipherMode", "MuxingApp", "Seek", "ContentEncodingOrder",
     "ContentEncodingScope", "ContentEncodingType", "ContentEncryption",
     "Name", "CueBlockNumber", "SeekID", "SeekPosition", "StereoMode",
     "AlphaMode", "PixelCropBottom", "DisplayWidth", "DisplayUnit",
     "AspectRatioType", "DisplayHeight", "PixelCropTop", "PixelCropLeft",
     "PixelCropRight", "FlagForced", "Colour", "MatrixCoefficients",
     "BitsPerChannel", "ChromaSubsamplingHorz", "ChromaSubsamplingVert",
     "CbSubsamplingHorz", "CbSubsamplingVert", "ChromaSitingHorz"},
  unsupported |->
    {"ContentCompAlgo", "ContentCompSettings", "SegmentFamily",
     "ChapProcessPrivate", "ChapterFlagEnabled", "EditionUID",
     "EditionFlagHidden", "EditionFlagDefault", "EditionFlagOrdered",
     "FileData", "FileMediaType", "FileUsedStartTime", "FileUsedEndTime",
     "FileName", "FileReferral", "FileDescription", "FileUID",
     "ContentSignature", "ContentSigKeyID", "ContentSigAlgo",
     "ContentSigHashAlgo", "ContentCompression", "CueRefNumber",
     "TrackOffset"},
  deprecated |->
    {}]

WebmIds2b == [
  supported |->
    {"ChromaSitingVert", "Range", "TransferCharacteristics", "Primaries",
     "MaxCLL", "MaxFALL", "MasteringMetadata", "PrimaryRChromaticityX",
     "PrimaryRChromaticityY", "PrimaryGChromaticityX",
     "PrimaryGChromaticityY", "PrimaryBChromaticityX",
     "PrimaryBChromaticityY", "WhitePointChromaticityX",
     "WhitePointChromaticityY", "LuminanceMax", "LuminanceMin",
     "ChapterStringUID", "CodecDelay", "SeekPreRoll", "WritingApp",
     "ContentEncoding", "BitDepth", "CodecPrivate", "Targets", "TagTrackUID",
     "TargetType", "SimpleTag", "TargetTypeValue", "ContentEncodings", "Tag",
     "ChapterUID", "TrackUID", "BlockAdditions", "DiscardPadding",
     "OutputSamplingFrequency", "Title"},
  unsupported |->
    {"MaxBlockAdditionID", "SilentTracks", "SilentTrackNumber", "AttachedFile",
     "ChapterPhysicalEquiv", "TagChapterUID", "TagAttachmentUID",
     "TagEditionUID", "SignedElement", "TrackTranslate",
     "TrackTranslateTrackID", "TrackTranslateCodec",
     "TrackTranslateEditionUID", "ChapProcessCommand", "ChapProcessTime",
     "ChapterTranslate", "ChapProcessData", "ChapProcess",
     "ChapProcessCodecID", "ChapterTranslateID", "ChapterTranslateCodec",
     "ChapterTranslateEditionUID", "MinCache", "MaxCache",
     "ChapterSegmentUUID", "ChapterSegmentEditionUID", "TrackOverlay",
     "SegmentFilename", "SegmentUUID", "AttachmentLink", "ChannelPositions",
     "SignatureElements", "SignatureElementList", "SignatureAlgo",
     "SignatureHash", "SignaturePublicKey", "Signature"},
  deprecated |->
    {}]

WebmIds34 == [
  supported |->
    {"Language", "DefaultDuration", "CodecName", "TimestampScale", "Chapters",
     "SeekHead", "Tags", "Info", "Tracks", "Segment", "EBML", "Cues",
     "Cluster"},
  unsupported |->
    {"TrackTimestampScale", "DefaultDecodedFieldDuration", "CodecDownloadURL",
     "UncompressedFourCC", "GammaValue", "CodecSettings", "CodecInfoURL",
     "PrevFilename", "PrevUUID", "NextFilename", "NextUUID", "Attachments",
     "SignatureSlot"},
  deprecated |->
    {"FrameRate"}]

WebmTables == {WebmIds1, WebmIds2a, WebmIds2b, WebmIds34}

WebmRated(rating) == UNION {t[rating] : t \in WebmTables}
WebmSupported   == WebmRated("supported")
WebmUnsupported == WebmRated("unsupported")
WebmDeprecated  == WebmRated("deprecated")

WebmSupport(n) == CASE n \in WebmSupported   -> "Supported"
                    [] n \in WebmUnsupported -> "Unsupported"
                    [] n \in WebmDeprecated  -> "Deprecated"
                    [] OTHER -> "Unlisted"

\* Bug: the legacy signature masters count as leaves.
WebmMastersOfSchema == Masters \ {"EditionDisplay"}
\* The masters the WebM scanner descends into: the schema's masters of
\* RFC 9559 and the legacy ones, not the later EditionDisplay.
WebmMasters == (Masters \ {"EditionDisplay"}) \cup LegacySignatureMasters

=============================================================================
