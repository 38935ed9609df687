---------------------------- MODULE MCMkvHeader ----------------------------
(***************************************************************************)
(* A muxer with a video and an audio stream, and arguments for every       *)
(* setter: one with every field set, and one per rule that refuses some.   *)
(***************************************************************************)
EXTENDS MkvHeaderProps

MCStreams == 1 .. 2
MCMedia   == <<"Video", "Audio">>
VideoParams == [CodecID |-> "V_VP9", PixelWidth |-> 640, PixelHeight |-> 480]
AudioParams == [CodecID |-> "A_OPUS", CodecPrivate |-> "abc", CodecDelay |-> 6,
                SeekPreRoll |-> 80, SamplingFrequency |-> 48000, Channels |-> 2,
                Language |-> "eng"]
MCParams  == <<VideoParams, AudioParams>>

Chapter(start) == [ChapterTimeStart |-> start]
Name(n) == [TagName |-> n]
TagOn(targets) == [targets |-> targets, simple |-> <<Name("abc")>>]

MCArgs == [
  lacing   |-> {"Xiph"},
  limits   |-> {[ms |-> 1000, bytes |-> 2048], [ms |-> 40000, bytes |-> 2048]},
  reserved |-> {1, 64},
  duration |-> {0, 3}, title |-> {"abc"}, date |-> {-5},
  linking  |->
    {[SegmentUUID |-> "uuid A", SegmentFilename |-> "abc", PrevUUID |-> "uuid B",
      PrevFilename |-> "abc", NextUUID |-> "uuid C", NextFilename |-> "abc",
      SegmentFamily |-> <<"uuid A">>,
      ChapterTranslate |-> <<[ChapterTranslateID |-> "abc", ChapterTranslateCodec |-> 1,
                              ChapterTranslateEditionUID |-> <<7>>]>>],
     [SegmentUUID |-> "short"]},
  extensions |-> {<<[name |-> "abc", version |-> 1]>>,
                  <<[name |-> "abc", version |-> 1], [name |-> "abc", version |-> 2]>>},
  interlacing |-> {[FlagInterlaced |-> 1, FieldOrder |-> 6], [FlagInterlaced |-> 2, FieldOrder |-> 1]},
  stereo   |-> {[StereoMode |-> 3]}, oldStereo |-> {[OldStereoMode |-> 2]},
  alpha    |-> {[AlphaMode |-> 1]},
  geometry |-> {[PixelCropTop |-> 2, PixelCropBottom |-> 2, PixelCropLeft |-> 1,
                 PixelCropRight |-> 1, DisplayWidth |-> 16, DisplayHeight |-> 9,
                 DisplayUnit |-> 3], [DisplayWidth |-> 0]},
  fourcc   |-> {[UncompressedFourCC |-> "I420"]},
  aspect   |-> {[AspectRatioType |-> 1]},
  colour   |->
    {[MatrixCoefficients |-> 9, BitsPerChannel |-> 10, ChromaSubsamplingHorz |-> 1,
      ChromaSubsamplingVert |-> 1, CbSubsamplingHorz |-> 1, CbSubsamplingVert |-> 1,
      ChromaSitingHorz |-> 1, ChromaSitingVert |-> 2, Range |-> 1,
      TransferCharacteristics |-> 16, Primaries |-> 9, MaxCLL |-> 1000, MaxFALL |-> 400,
      mastering |-> [PrimaryRChromaticityX |-> 0, PrimaryRChromaticityY |-> 0,
        PrimaryGChromaticityX |-> 0, PrimaryGChromaticityY |-> 0,
        PrimaryBChromaticityX |-> 0, PrimaryBChromaticityY |-> 0,
        WhitePointChromaticityX |-> 0, WhitePointChromaticityY |-> 0,
        LuminanceMax |-> 1000, LuminanceMin |-> 0]],
     [mastering |-> [LuminanceMax |-> -1]], Nothing},
  projection |->
    {[ProjectionType |-> 1, ProjectionPrivate |-> "abc", ProjectionPoseYaw |-> 90,
      ProjectionPosePitch |-> -45, ProjectionPoseRoll |-> 10], [ProjectionPoseYaw |-> 400]},
  audio    |-> {[SamplingFrequency |-> 44100, OutputSamplingFrequency |-> 88200,
                 Channels |-> 6, BitDepth |-> 16], [Emphasis |-> 1], [Emphasis |-> 2],
                [Channels |-> 0]},
  audience |-> {[FlagForced |-> 1, FlagHearingImpaired |-> 0, FlagVisualImpaired |-> 1,
                 FlagTextDescriptions |-> 0, FlagOriginal |-> 1, FlagCommentary |-> 0]},
  maxAddition |-> {[MaxBlockAdditionID |-> 1]},
  mappings |-> {<<[BlockAddIDValue |-> 4, BlockAddIDName |-> "abc", BlockAddIDType |-> 1,
                   BlockAddIDExtraData |-> "abc"]>>, <<[BlockAddIDValue |-> 1]>>},
  timing   |-> {[DefaultDuration |-> 40], [DefaultDecodedFieldDuration |-> 20],
                [TrackTimestampScale |-> 1], [DefaultDuration |-> 0]},
  codecTiming |-> {[CodecDelay |-> 0, SeekPreRoll |-> 0]},
  identity |-> {[Name |-> "abc", CodecName |-> "abc", Language |-> "ger", FlagEnabled |-> 0,
                 FlagDefault |-> 0, FlagLacing |-> 1, LanguageBCP47 |-> "de"],
                [AttachmentLink |-> 1], [Name |-> ""]},
  operation |-> {[planes |-> <<[track |-> 1, type |-> 0], [track |-> 2, type |-> 1]>>,
                  joins |-> <<2, 1>>], [planes |-> <<>>, joins |-> <<3>>]},
  encodings |->
    {<<[ContentEncodingOrder |-> 1, ContentEncodingScope |-> 1, ContentCompAlgo |-> 3,
        ContentCompSettings |-> "abc"],
       [ContentEncodingOrder |-> 0, ContentEncodingScope |-> 1, ContentEncAlgo |-> 5,
        ContentEncKeyID |-> "abc", AESSettingsCipherMode |-> 1]>>,
     <<[ContentEncodingOrder |-> 0, ContentEncodingScope |-> 1, ContentEncAlgo |-> 5,
        AESSettingsCipherMode |-> 1]>>,
     <<[ContentEncodingOrder |-> 0, ContentEncodingScope |-> 1, ContentEncAlgo |-> 1,
        ContentSignature |-> "abc", ContentSigKeyID |-> "abc", ContentSigAlgo |-> 1,
        ContentSigHashAlgo |-> 1]>>},
  translates |-> {<<[TrackTranslateTrackID |-> "abc", TrackTranslateCodec |-> 1,
                     TrackTranslateEditionUID |-> <<7>>]>>},
  legacy   |->
    {[CodecSettings |-> "abc", CodecInfoURL |-> <<"abc">>, CodecDownloadURL |-> <<"abc">>,
      CodecDecodeAll |-> 1, MinCache |-> 1, MaxCache |-> 2, TrackOffset |-> -300,
      GammaValue |-> 2, FrameRate |-> 25, ChannelPositions |-> "abc", TrackOverlay |-> <<2>>,
      TrickTrackUID |-> 2, TrickTrackSegmentUID |-> "uuid A", TrickTrackFlag |-> 1,
      TrickMasterTrackUID |-> 1, TrickMasterTrackSegmentUID |-> "uuid B"],
     [GammaValue |-> 0, TrickTrackFlag |-> 2], [TrickTrackSegmentUID |-> "short"]},
  chapters |->
    {[ChapterTimeStart |-> 1, ChapterTimeEnd |-> 2, ChapterUID |-> 2, ChapterStringUID |-> "abc",
      ChapterDisplay |-> <<[ChapString |-> "abc", ChapLanguage |-> "eng", ChapCountry |-> "us"],
                           [ChapString |-> "abc", ChapLanguageBCP47 |-> "de"]>>],
     [ChapterTimeStart |-> 1, ChapterFlagHidden |-> 1, ChapterFlagEnabled |-> 0,
      ChapterSegmentUUID |-> "uuid A", ChapterSegmentEditionUID |-> 7,
      ChapterPhysicalEquiv |-> 60, ChapProcess |-> <<[ChapProcessCodecID |-> 1,
        ChapProcessPrivate |-> "abc", commands |-> <<[ChapProcessTime |-> 1,
        ChapProcessData |-> "abc"]>>]>>],
     [ChapterTimeStart |-> 1, ChapterSkipType |-> 7], Chapter(0)},
  editionDisplays |-> {<<[EditionString |-> "abc", EditionLanguageIETF |-> <<"en", "de">>]>>},
  attachments |->
    {[FileName |-> "abc", FileMediaType |-> "abc", FileData |-> "abc", FileUID |-> 2,
      FileDescription |-> "abc", FileReferral |-> "abc", FileUsedStartTime |-> 1,
      FileUsedEndTime |-> 2], [FileName |-> "abc", FileMediaType |-> "", FileData |-> ""]},
  tags     |->
    {TagOn([TargetTypeValue |-> 50, TargetType |-> "abc", TagTrackUID |-> <<0, 1>>]),
     TagOn([TagEditionUID |-> <<1>>, TagChapterUID |-> <<2>>, TagAttachmentUID |-> <<2>>]),
     TagOn([TagBlockAddIDValue |-> <<0, 4>>]), TagOn([TagBlockAddIDValue |-> <<0>>]),
     [targets |-> Nothing, simple |->
        <<[TagName |-> "abc", TagString |-> "abc", TagLanguage |-> "ger", TagDefault |-> 0,
           SimpleTag |-> <<[TagName |-> "abc", TagBinary |-> "abc", TagLanguageBCP47 |-> "de"]>>]>>],
     [targets |-> Nothing, simple |-> <<[TagName |-> "abc", SimpleTag |-> <<Name("")>>]>>]}]
=============================================================================
