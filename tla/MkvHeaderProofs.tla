--------------------------- MODULE MkvHeaderProofs ---------------------------
(***************************************************************************)
(* HeaderInv of MkvHeaderInv holds of every muxer, for any streams,        *)
(* arguments and order of calls.  Each setter changes one of options,      *)
(* info, hints, queues and profile; there is one lemma for each of those.  *)
(***************************************************************************)
EXTENDS MkvHeaderInv, SequenceTheorems, TLAPS

\* What a step of Configure that leaves `options' alone keeps of it.
LEMMA OptionsStep ==
  ASSUME HeaderInv, profile' = profile, info' = info, hints' = hints,
         queues' = queues, written' = written, emittedVersion' = emittedVersion,
         DOMAIN options' = DOMAIN options, LayoutsExclude'
  PROVE  HeaderInv'
BY DEF HeaderInv, Shape, LayoutsExclude, ProfileKept, VersionKept, UsesV5Elements

\* with_block_lacing and the other switches set one option.
LEMMA SwitchStep ==
  ASSUME HeaderInv, emittedVersion' = emittedVersion, NEW name \in DOMAIN options, NEW v,
         Switch(name, v), LayoutsExclude'
  PROVE  HeaderInv'
<1>1. DOMAIN options' = DOMAIN options
  BY DEF Switch
<1> QED
  BY <1>1, OptionsStep DEF Switch

\* set_title and the other calls that tell Info something.
LEMMA TellStep ==
  ASSUME HeaderInv, emittedVersion' = emittedVersion, NEW name, NEW v, Tell(name, v),
         name = "Duration" => ~options.finalize, name = "linking" => ~profile.strict
  PROVE  HeaderInv'
<1>1. \A n : Has(info', n) <=> Has(info, n) \/ n = name
  BY DEF Tell, With, Has
<1>2. LayoutsExclude'
  BY <1>1 DEF HeaderInv, LayoutsExclude, Tell
<1>3. ProfileKept'
  BY <1>1 DEF HeaderInv, ProfileKept, Tell
<1> QED
  BY <1>2, <1>3 DEF HeaderInv, Shape, VersionKept, UsesV5Elements, Tell

-----------------------------------------------------------------------------
\* A group of fields inside WebM added to hints inside WebM.
LEMMA WithHint ==
  ASSUME NEW h, HintInWebm(h), NEW g, NEW v, g \notin OutsideWebm,
         g = "timing" => DOMAIN v \cap {"DefaultDecodedFieldDuration",
                                        "TrackTimestampScale"} = {},
         g = "identity" => ~Has(v, "AttachmentLink"),
         g = "encodings" =>
           \A e \in Items(v) : DOMAIN e \cap ({"ContentCompAlgo"} \cup Signing) = {}
  PROVE  HintInWebm(With(h, g, v))
<1> DEFINE w == With(h, g, v)
<1>1. DOMAIN w = DOMAIN h \cup {g} /\ (\A n \in DOMAIN w : w[n] = IF n = g THEN v ELSE h[n])
  BY DEF With
<1> HIDE DEF w
<1>2. DOMAIN w \cap OutsideWebm = {}
  BY <1>1 DEF HintInWebm
<1>3. Has(w, "timing") =>
        DOMAIN w["timing"] \cap {"DefaultDecodedFieldDuration", "TrackTimestampScale"} = {}
  BY <1>1 DEF HintInWebm, Has
<1>4. Has(w, "identity") => ~Has(w["identity"], "AttachmentLink")
  BY <1>1 DEF HintInWebm, Has
<1>5. Has(w, "encodings") =>
        \A e \in Items(w["encodings"]) : DOMAIN e \cap ({"ContentCompAlgo"} \cup Signing) = {}
  BY <1>1 DEF HintInWebm, Has
<1> QED
  BY <1>2, <1>3, <1>4, <1>5 DEF HintInWebm, w

\* set_video_* and set_track_* set one group of one track.
LEMMA HintStep ==
  ASSUME HeaderInv, emittedVersion' = emittedVersion, ~written,
         NEW t \in Streams, NEW g, NEW v, Hint(t, g, v),
         profile.strict =>
           /\ g \notin OutsideWebm
           /\ g = "timing" => DOMAIN v \cap {"DefaultDecodedFieldDuration",
                                             "TrackTimestampScale"} = {}
           /\ g = "identity" => ~Has(v, "AttachmentLink")
           /\ g = "encodings" =>
                \A e \in Items(v) : DOMAIN e \cap ({"ContentCompAlgo"} \cup Signing) = {},
         g = "audio" /\ profile.doctype = "webm" => ~Has(v, "Emphasis")
  PROVE  HeaderInv'
<1>1. /\ DOMAIN hints' = Streams /\ hints'[t] = With(hints[t], g, v)
      /\ \A s \in Streams \ {t} : hints'[s] = hints[s]
  BY DEF HeaderInv, Shape, Hint
<1>2. Shape' /\ LayoutsExclude'
  BY <1>1 DEF HeaderInv, Shape, LayoutsExclude, Hint
<1>3. ProfileKept'
  <2>1. SUFFICES ASSUME profile.strict, NEW s \in Streams PROVE HintInWebm(hints'[s])
    BY DEF HeaderInv, ProfileKept, Hint
  <2>2. HintInWebm(hints[s])
    BY <2>1 DEF HeaderInv, ProfileKept
  <2>3. CASE s = t
    BY <2>1, <2>2, <2>3, <1>1, WithHint
  <2>4. CASE s # t
    BY <2>2, <2>4, <1>1
  <2> QED
    BY <2>3, <2>4
<1>4. VersionKept'
  <2>1. SUFFICES ASSUME profile.doctype = "webm" PROVE ~UsesV5Elements'
    BY DEF HeaderInv, VersionKept, Hint
  <2>2. ~UsesV5Elements
    BY <2>1 DEF HeaderInv, VersionKept
  <2>3. \A s \in Streams : ~Has(Of(hints[s], "audio", Nothing), "Emphasis")
    BY <2>2 DEF UsesV5Elements
  <2>4. ASSUME NEW s \in Streams PROVE ~Has(Of(hints'[s], "audio", Nothing), "Emphasis")
    <3>1. CASE s # t
      BY <3>1, <2>3, <1>1
    <3>2. CASE s = t /\ g = "audio"
      <4>1. Of(hints'[s], "audio", Nothing) = v
        BY <3>2, <1>1 DEF Of, Has, With
      <4> QED
        BY <4>1, <3>2, <2>1
    <3>3. CASE s = t /\ g # "audio"
      <4>1. Of(hints'[s], "audio", Nothing) = Of(hints[s], "audio", Nothing)
        BY <3>3, <1>1 DEF Of, Has, With
      <4> QED
        BY <4>1, <2>3
    <3> QED
      BY <3>1, <3>2, <3>3
  <2> QED
    BY <2>2, <2>4 DEF UsesV5Elements, Hint
<1> QED
  BY <1>2, <1>3, <1>4 DEF HeaderInv

-----------------------------------------------------------------------------
\* add_chapter_full, add_attachment and add_tag append to a queue,
\* set_edition_displays and set_doc_type_extensions replace one.
LEMMA QueuesStep ==
  ASSUME HeaderInv, ~written, profile' = profile, options' = options, info' = info,
         hints' = hints, written' = written, emittedVersion' = emittedVersion,
         DOMAIN queues' = DOMAIN queues,
         queues'.chapters \in Seq(Args.chapters), queues'.tags \in Seq(Args.tags),
         profile.strict =>
           /\ queues'.attachments = <<>>
           /\ \A c \in Items(queues'.chapters) : DOMAIN c \cap ChapterOutsideWebm = {}
           /\ \A tag \in Items(queues'.tags) : TagInWebm(tag),
         profile.doctype = "webm" =>
           /\ queues'.editionDisplays = <<>>
           /\ \A c \in Items(queues'.chapters) : ~Has(c, "ChapterSkipType")
           /\ \A tag \in Items(queues'.tags) : ~UsesBlockAddIds(tag)
  PROVE  HeaderInv'
<1>1. Shape' /\ LayoutsExclude'
  BY DEF HeaderInv, Shape, LayoutsExclude
<1>2. ProfileKept'
  BY DEF HeaderInv, ProfileKept
<1>3. VersionKept'
  BY DEF HeaderInv, VersionKept, UsesV5Elements
<1> QED
  BY <1>1, <1>2, <1>3 DEF HeaderInv

\* The items of a sequence that grew by one.
LEMMA ItemsAppend ==
  ASSUME NEW S, NEW s \in Seq(S), NEW x \in S
  PROVE  Append(s, x) \in Seq(S) /\ Items(Append(s, x)) = Items(s) \cup {x}
<1>1. Append(s, x) \in Seq(S) /\ DOMAIN Append(s, x) = 1 .. Len(s) + 1
  OBVIOUS
<1>2. DOMAIN s = 1 .. Len(s) /\ Len(s) \in Nat
  OBVIOUS
<1>3. \A k \in 1 .. Len(s) : Append(s, x)[k] = s[k]
  OBVIOUS
<1>4. Append(s, x)[Len(s) + 1] = x
  OBVIOUS
<1> QED
  BY <1>1, <1>2, <1>3, <1>4 DEF Items

\* What is known of the queues of an unfinished header.
LEMMA QueuesKnown ==
  ASSUME HeaderInv
  PROVE  /\ profile.strict =>
              /\ queues.attachments = <<>>
              /\ \A c \in Items(queues.chapters) : DOMAIN c \cap ChapterOutsideWebm = {}
              /\ \A tag \in Items(queues.tags) : TagInWebm(tag)
         /\ profile.doctype = "webm" =>
              /\ queues.editionDisplays = <<>>
              /\ \A c \in Items(queues.chapters) : ~Has(c, "ChapterSkipType")
              /\ \A tag \in Items(queues.tags) : ~UsesBlockAddIds(tag)
         /\ queues.chapters \in Seq(Args.chapters) /\ queues.tags \in Seq(Args.tags)
         /\ DOMAIN queues = {"chapters", "editionDisplays", "attachments", "tags", "extensions"}
BY DEF HeaderInv, Shape, ProfileKept, VersionKept, UsesV5Elements

-----------------------------------------------------------------------------
\* The setters, one lemma per part of the configuration they change.
LEMMA OptionSetters ==
  ASSUME HeaderInv, emittedVersion' = emittedVersion,
         \/ WithBlockLacing \/ WithClusterPositionHints \/ WithClusterLimits
         \/ WithFrontCues \/ WithSeekHeadExpansionVoid
         \/ WithLiveStreaming \/ WithDurationFinalization
  PROVE  HeaderInv'
<1> USE DEF Switch, Call
<1>0. /\ DOMAIN options = {"lacing", "position", "ms", "bytes", "front", "expansion",
                           "live", "finalize"}
      /\ LayoutsExclude /\ profile.strict \in BOOLEAN
  BY DEF HeaderInv, Shape
<1>1. CASE WithBlockLacing
  BY <1>0, <1>1, SwitchStep DEF WithBlockLacing, LayoutsExclude
<1>2. CASE WithClusterPositionHints
  BY <1>0, <1>2, SwitchStep DEF WithClusterPositionHints, LayoutsExclude
<1>3. CASE WithClusterLimits
  <2>1. PICK limits \in Args.limits :
          /\ options' = [options EXCEPT !.ms = limits.ms, !.bytes = limits.bytes]
          /\ UNCHANGED <<profile, info, hints, queues, written>>
    BY <1>3, Zenon DEF WithClusterLimits
  <2>2. DOMAIN options' = DOMAIN options /\ LayoutsExclude'
    BY <2>1, <1>0 DEF LayoutsExclude
  <2> QED
    BY <2>1, <2>2, OptionsStep
<1>4. CASE WithFrontCues
  BY <1>0, <1>4, SwitchStep DEF WithFrontCues, LayoutsExclude
<1>5. CASE WithSeekHeadExpansionVoid
  BY <1>0, <1>5, SwitchStep DEF WithSeekHeadExpansionVoid, LayoutsExclude
<1>6. CASE WithLiveStreaming
  BY <1>0, <1>6, SwitchStep DEF WithLiveStreaming, LayoutsExclude
<1>7. CASE WithDurationFinalization
  BY <1>0, <1>7, SwitchStep DEF WithDurationFinalization, LayoutsExclude, Has
<1> QED
  BY <1>1, <1>2, <1>3, <1>4, <1>5, <1>6, <1>7

LEMMA InfoSetters ==
  ASSUME HeaderInv, emittedVersion' = emittedVersion,
         SetDuration \/ SetTitle \/ SetDateUtc \/ SetSegmentLinking
  PROVE  HeaderInv'
<1>1. CASE SetDuration
  BY <1>1, TellStep DEF SetDuration
<1>2. CASE SetTitle
  BY <1>2, TellStep DEF SetTitle
<1>3. CASE SetDateUtc
  BY <1>3, TellStep DEF SetDateUtc
<1>4. CASE SetSegmentLinking
  <2>1. ~profile.strict /\ \E l : Tell("linking", l)
    BY <1>4, Zenon DEF SetSegmentLinking
  <2> QED
    BY <2>1, TellStep
<1> QED
  BY <1>1, <1>2, <1>3, <1>4

LEMMA LenientSetter ==
  ASSUME HeaderInv, emittedVersion' = emittedVersion, WithWebmLenient
  PROVE  HeaderInv'
BY DEF WithWebmLenient, HeaderInv, Shape, LayoutsExclude, ProfileKept, VersionKept,
       UsesV5Elements

\* The hints any muxer takes.
LEMMA PlainHints ==
  ASSUME HeaderInv, emittedVersion' = emittedVersion, NEW t \in Streams,
         \/ SetVideoInterlacing(t) \/ SetVideoStereoMode(t) \/ SetVideoOldStereoMode(t)
         \/ SetVideoAlphaMode(t) \/ SetVideoGeometry(t) \/ SetVideoUncompressedFourcc(t)
         \/ SetVideoAspectRatioType(t) \/ SetVideoColour(t) \/ SetVideoProjection(t)
         \/ SetTrackAudienceFlags(t) \/ SetBlockAdditionMappings(t) \/ SetTrackCodecTiming(t)
  PROVE  HeaderInv'
<1>1. PICK g \in {"interlacing", "stereo", "oldStereo", "alpha", "geometry", "fourcc",
                  "aspect", "colour", "projection", "audience", "mappings", "codecTiming"} :
        \E v : Hint(t, g, v) /\ ~written
  <2> USE DEF Call
  <2>1. CASE SetVideoInterlacing(t)
    BY <2>1 DEF SetVideoInterlacing
  <2>2. CASE SetVideoStereoMode(t)
    BY <2>2 DEF SetVideoStereoMode
  <2>3. CASE SetVideoOldStereoMode(t)
    BY <2>3 DEF SetVideoOldStereoMode
  <2>4. CASE SetVideoAlphaMode(t)
    BY <2>4 DEF SetVideoAlphaMode
  <2>5. CASE SetVideoGeometry(t)
    BY <2>5 DEF SetVideoGeometry
  <2>6. CASE SetVideoUncompressedFourcc(t)
    BY <2>6 DEF SetVideoUncompressedFourcc
  <2>7. CASE SetVideoAspectRatioType(t)
    BY <2>7 DEF SetVideoAspectRatioType
  <2>8. CASE SetVideoColour(t)
    BY <2>8 DEF SetVideoColour
  <2>9. CASE SetVideoProjection(t)
    BY <2>9 DEF SetVideoProjection
  <2>10. CASE SetTrackAudienceFlags(t)
    BY <2>10 DEF SetTrackAudienceFlags
  <2>11. CASE SetBlockAdditionMappings(t)
    BY <2>11 DEF SetBlockAdditionMappings
  <2>12. CASE SetTrackCodecTiming(t)
    BY <2>12 DEF SetTrackCodecTiming
  <2> QED
    BY <2>1, <2>2, <2>3, <2>4, <2>5, <2>6, <2>7, <2>8, <2>9, <2>10, <2>11, <2>12
<1>2. PICK v : Hint(t, g, v) /\ ~written
  BY <1>1
<1>3. g \notin OutsideWebm /\ g # "timing" /\ g # "identity" /\ g # "encodings" /\ g # "audio"
  BY <1>1 DEF OutsideWebm
<1> QED
  BY <1>2, <1>3, HintStep

\* The hints of which some or all are refused to a WebM muxer.
LEMMA GuardedHints ==
  ASSUME HeaderInv, emittedVersion' = emittedVersion, NEW t \in Streams,
         \/ SetTrackAudio(t) \/ SetMaxBlockAdditionId(t) \/ SetTrackTiming(t)
         \/ SetTrackIdentity(t) \/ SetTrackOperation(t) \/ SetTrackTranslates(t)
         \/ SetTrackLegacy(t) \/ SetTrackContentEncodings(t)
  PROVE  HeaderInv'
<1> USE DEF Call
<1>1. CASE SetTrackAudio(t)
  BY <1>1, HintStep DEF SetTrackAudio, V5, OutsideWebm
<1>2. CASE SetMaxBlockAdditionId(t)
  BY <1>2, HintStep DEF SetMaxBlockAdditionId
<1>3. CASE SetTrackTiming(t)
  BY <1>3, HintStep DEF SetTrackTiming, Profile, OutsideWebm
<1>4. CASE SetTrackIdentity(t)
  <2>1. PICK v : Hint(t, "identity", v) /\ Profile(v, {"AttachmentLink"}) /\ ~written
    BY <1>4, Zenon DEF SetTrackIdentity
  <2> QED
    BY <2>1, HintStep DEF Profile, Has, OutsideWebm
<1>5. CASE SetTrackOperation(t)
  BY <1>5, HintStep DEF SetTrackOperation
<1>6. CASE SetTrackTranslates(t)
  <2>1. PICK v : Hint(t, "translates", v) /\ ~profile.strict /\ ~written
    BY <1>6, Zenon DEF SetTrackTranslates
  <2> QED
    BY <2>1, HintStep
<1>7. CASE SetTrackLegacy(t)
  BY <1>7, HintStep DEF SetTrackLegacy
<1>8. CASE SetTrackContentEncodings(t)
  BY <1>8, HintStep DEF SetTrackContentEncodings, Profile, OutsideWebm
<1> QED
  BY <1>1, <1>2, <1>3, <1>4, <1>5, <1>6, <1>7, <1>8

LEMMA QueueSetters ==
  ASSUME HeaderInv, emittedVersion' = emittedVersion,
         \/ SetDocTypeExtensions \/ AddChapterFull \/ SetEditionDisplays
         \/ AddAttachment \/ AddTag
  PROVE  HeaderInv'
<1> USE DEF Call
<1>1. CASE SetDocTypeExtensions
  <2>1. PICK exts : Replace("extensions", exts) /\ ~written
    BY <1>1, Zenon DEF SetDocTypeExtensions
  <2> QED
    BY <2>1, QueuesKnown, QueuesStep DEF Replace
<1>2. CASE SetEditionDisplays
  BY <1>2, QueuesKnown, QueuesStep DEF SetEditionDisplays, Replace, V5
<1>3. CASE AddAttachment
  <2>1. PICK a : Queue("attachments", a) /\ ~profile.strict /\ ~written
    BY <1>3, Zenon DEF AddAttachment
  <2> QED
    BY <2>1, QueuesKnown, QueuesStep DEF Queue
<1>4. CASE AddChapterFull
  <2>1. PICK c \in Args.chapters :
          /\ Profile(c, ChapterOutsideWebm) /\ V5(Has(c, "ChapterSkipType"))
          /\ Queue("chapters", c)
    BY <1>4 DEF AddChapterFull
  <2>2. queues'.chapters = Append(queues.chapters, c)
    BY <2>1, QueuesKnown DEF Queue
  <2>3. /\ queues'.chapters \in Seq(Args.chapters)
        /\ Items(queues'.chapters) = Items(queues.chapters) \cup {c}
    BY <2>2, QueuesKnown, ItemsAppend
  <2> QED
    BY <1>4, <2>1, <2>3, QueuesKnown, QueuesStep DEF AddChapterFull, Queue, Profile, V5
<1>5. CASE AddTag
  <2>1. PICK tag \in Args.tags : TagAccepted(tag) /\ Queue("tags", tag)
    BY <1>5 DEF AddTag
  <2>2. queues'.tags = Append(queues.tags, tag)
    BY <2>1, QueuesKnown DEF Queue
  <2>3. queues'.tags \in Seq(Args.tags) /\ Items(queues'.tags) = Items(queues.tags) \cup {tag}
    BY <2>2, QueuesKnown, ItemsAppend
  <2>4. /\ profile.strict => TagInWebm(tag)
        /\ profile.doctype = "webm" => ~UsesBlockAddIds(tag)
    BY <2>1 DEF TagAccepted, TagInWebm, V5
  <2> QED
    BY <1>5, <2>1, <2>3, <2>4, QueuesKnown, QueuesStep DEF AddTag, Queue
<1> QED
  BY <1>1, <1>2, <1>3, <1>4, <1>5

-----------------------------------------------------------------------------
LEMMA InitHolds == Init => HeaderInv
<1> SUFFICES ASSUME Init PROVE HeaderInv
  OBVIOUS
<1>1. PICK doctype \in {"matroska", "webm"} : NewConfig(doctype)
  BY DEF Init
<1>2. Shape /\ LayoutsExclude
  <2>1. options.live = FALSE /\ options.finalize = FALSE
    BY <1>1 DEF NewConfig
  <2>2. DOMAIN options = {"lacing", "position", "ms", "bytes", "front", "expansion",
                          "live", "finalize"}
    BY <1>1 DEF NewConfig
  <2>3. DOMAIN profile = {"doctype", "strict"} /\ profile.strict = (profile.doctype = "webm")
    BY <1>1 DEF NewConfig
  <2>4. /\ DOMAIN queues = {"chapters", "editionDisplays", "attachments", "tags", "extensions"}
        /\ queues.chapters \in Seq(Args.chapters) /\ queues.tags \in Seq(Args.tags)
    BY <1>1 DEF NewConfig
  <2>5. DOMAIN hints = Streams /\ written = FALSE
    BY <1>1 DEF NewConfig
  <2> QED
    BY <2>1, <2>2, <2>3, <2>4, <2>5 DEF Shape, LayoutsExclude
<1>3. ProfileKept
  BY <1>1 DEF NewConfig, ProfileKept, HintInWebm, Has, Nothing, Items
<1>4. VersionKept
  BY <1>1 DEF NewConfig, Init, VersionKept, UsesV5Elements, Has, Of, Nothing, Items
<1> QED
  BY <1>2, <1>3, <1>4 DEF HeaderInv

\* write_header announces what uses_v5_elements says of the configuration.
LEMMA WriteHeaderStep ==
  ASSUME HeaderInv, WriteHeader
  PROVE  HeaderInv'
<1>1. UsesV5Elements' <=> UsesV5Elements
  BY DEF WriteHeader, UsesV5Elements
<1>2. emittedVersion' = IF UsesV5Elements THEN 5 ELSE 4
  BY DEF WriteHeader
<1> QED
  BY <1>1, <1>2 DEF WriteHeader, HeaderInv, Shape, LayoutsExclude, ProfileKept, VersionKept

\* A step that leaves the configuration alone.
LEMMA StutterStep ==
  ASSUME HeaderInv,
         profile' = profile, options' = options, info' = info, hints' = hints,
         queues' = queues, written' = written, emittedVersion' = emittedVersion
  PROVE  HeaderInv'
BY DEF HeaderInv, Shape, LayoutsExclude, ProfileKept, VersionKept, UsesV5Elements

LEMMA NextHolds == HeaderInv /\ [Next]_vars => HeaderInv'
<1> SUFFICES ASSUME HeaderInv, [Next]_vars PROVE HeaderInv'
  OBVIOUS
<1>1. CASE Configure /\ UNCHANGED <<file, emittedVersion>>
  <2>1. CASE \E t \in Streams : SetHint(t)
    BY <1>1, <2>1, PlainHints, GuardedHints DEF SetHint
  <2>2. CASE ~\E t \in Streams : SetHint(t)
    BY <1>1, <2>2, OptionSetters, InfoSetters, LenientSetter, QueueSetters DEF Configure
  <2> QED
    BY <2>1, <2>2
<1>2. CASE WriteHeader
  BY <1>2, WriteHeaderStep
<1>3. CASE WriteLiveTags
  BY <1>3, StutterStep DEF WriteLiveTags
<1>4. CASE UNCHANGED vars
  BY <1>4, StutterStep DEF vars, config
<1> QED
  BY <1>1, <1>2, <1>3, <1>4 DEF Next

\* The invariant of every configuration and header.
THEOREM HeaderInvariant == Spec => []HeaderInv
BY InitHolds, NextHolds, PTL DEF Spec

\* with_live_streaming, with_front_cues, with_seek_head_expansion_void,
\* with_duration_finalization and set_duration exclude each other in every
\* order of calls.
THEOREM LayoutsAlwaysExclude == Spec => []LayoutsExclude
<1>1. HeaderInv => LayoutsExclude
  BY DEF HeaderInv
<1> QED
  BY <1>1, HeaderInvariant, PTL

\* What the WebM guidelines do not support never gets into a strict muxer.
THEOREM ProfileAlwaysKept == Spec => []ProfileKept
<1>1. HeaderInv => ProfileKept
  BY DEF HeaderInv
<1> QED
  BY <1>1, HeaderInvariant, PTL

\* No WebM header announces version 5, and any other exactly when its
\* elements need it.
THEOREM VersionAlwaysKept == Spec => []VersionKept
<1>1. HeaderInv => VersionKept
  BY DEF HeaderInv
<1> QED
  BY <1>1, HeaderInvariant, PTL

-----------------------------------------------------------------------------
(* The SeekHead.  The elements behind it have different IDs but for Voids, *)
(* which no entry names.                                                   *)
Ids(s) == {s[p].id : p \in DOMAIN s}
Distinct(s) == \A p, q \in DOMAIN s : s[p].id = s[q].id /\ s[p].id # "Void" => p = q

\* What write_header puts behind the SeekHead.
Bodies == {VoidElement(options.expansion), Info, Tracks, Chapters, Attachments,
           TagsOf(queues.tags), VoidElement(options.front)}

LEMMA DistinctConcat ==
  ASSUME NEW S, NEW s \in Seq(S), NEW t \in Seq(S), Distinct(s), Distinct(t),
         Ids(s) \cap Ids(t) \subseteq {"Void"}
  PROVE  /\ s \o t \in Seq(S) /\ Distinct(s \o t) /\ Ids(s \o t) \subseteq Ids(s) \cup Ids(t)
<1> DEFINE u == s \o t
<1>1. /\ u \in Seq(S) /\ Len(u) = Len(s) + Len(t) /\ Len(s) \in Nat /\ Len(t) \in Nat
      /\ \A i \in 1 .. Len(s) + Len(t) : u[i] = IF i <= Len(s) THEN s[i] ELSE t[i - Len(s)]
  BY ConcatProperties
<1>2. /\ DOMAIN u = 1 .. Len(s) + Len(t) /\ DOMAIN s = 1 .. Len(s) /\ DOMAIN t = 1 .. Len(t)
  BY <1>1, LenProperties
<1> HIDE DEF u
<1>3. \A i \in DOMAIN u :
        \/ i \in DOMAIN s /\ u[i] = s[i] /\ i <= Len(s)
        \/ i - Len(s) \in DOMAIN t /\ u[i] = t[i - Len(s)] /\ i > Len(s)
  BY <1>1, <1>2
<1>4. \A i \in DOMAIN u : u[i].id \in Ids(s) \cup Ids(t)
  BY <1>3 DEF Ids
<1>5. Distinct(u)
  <2> SUFFICES ASSUME NEW p \in DOMAIN u, NEW q \in DOMAIN u, u[p].id = u[q].id, u[p].id # "Void"
               PROVE  p = q
    BY DEF Distinct
  <2>1. CASE p \in DOMAIN s /\ u[p] = s[p] /\ q \in DOMAIN s /\ u[q] = s[q]
    BY <2>1 DEF Distinct
  <2>2. CASE /\ p - Len(s) \in DOMAIN t /\ u[p] = t[p - Len(s)]
             /\ q - Len(s) \in DOMAIN t /\ u[q] = t[q - Len(s)]
    <3>1. p - Len(s) = q - Len(s)
      BY <2>2 DEF Distinct
    <3> QED BY <1>1, <1>2, <3>1
  <2>3. CASE p \in DOMAIN s /\ u[p] = s[p] /\ q - Len(s) \in DOMAIN t /\ u[q] = t[q - Len(s)]
    BY <2>3 DEF Ids
  <2>4. CASE q \in DOMAIN s /\ u[q] = s[q] /\ p - Len(s) \in DOMAIN t /\ u[p] = t[p - Len(s)]
    BY <2>4 DEF Ids
  <2> QED BY <1>3, <2>1, <2>2, <2>3, <2>4
<1> QED BY <1>1, <1>4, <1>5 DEF Ids, u

\* One element, or none.
LEMMA DistinctWhen ==
  ASSUME NEW S, NEW cond \in BOOLEAN, NEW e \in S
  PROVE  When(cond, <<e>>) \in Seq(S) /\ Distinct(When(cond, <<e>>)) /\ Ids(When(cond, <<e>>)) \subseteq {e.id}
BY DEF When, Distinct, Ids

LEMMA BodyDistinct == Body \in Seq(Bodies) /\ Distinct(Body)
<1> DEFINE e0 == VoidElement(options.expansion)
           e6 == VoidElement(options.front)
           e5 == TagsOf(queues.tags)
           s0 == When(~options.live /\ options.expansion # 0, <<e0>>)
           s1 == <<Info, Tracks>>
           s3 == When(queues.chapters # <<>>, <<Chapters>>)
           s4 == When(queues.attachments # <<>>, <<Attachments>>)
           s5 == When(queues.tags # <<>>, <<e5>>)
           s6 == When(options.front # 0, <<e6>>)
<1>1. /\ e0.id = "Void" /\ e6.id = "Void" /\ e5.id = "Tags" /\ Info.id = "Info"
      /\ Tracks.id = "Tracks" /\ Chapters.id = "Chapters" /\ Attachments.id = "Attachments"
  BY DEF VoidElement, TagsOf, Info, Tracks, Chapters, Attachments, Checked, MasterWithCrc,
         Master, Element
<1>2. /\ e0 \in Bodies /\ Info \in Bodies /\ Tracks \in Bodies /\ Chapters \in Bodies
      /\ Attachments \in Bodies /\ e5 \in Bodies /\ e6 \in Bodies
  BY DEF Bodies
<1> HIDE DEF e0, e5, e6
<1>3. s0 \in Seq(Bodies) /\ Distinct(s0) /\ Ids(s0) \subseteq {"Void"}
  BY <1>1, <1>2, DistinctWhen
<1>4. s1 \in Seq(Bodies) /\ Distinct(s1) /\ Ids(s1) \subseteq {"Info", "Tracks"}
  BY <1>1, <1>2 DEF Distinct, Ids
<1>5. s3 \in Seq(Bodies) /\ Distinct(s3) /\ Ids(s3) \subseteq {"Chapters"}
  BY <1>1, <1>2, DistinctWhen
<1>6. s4 \in Seq(Bodies) /\ Distinct(s4) /\ Ids(s4) \subseteq {"Attachments"}
  BY <1>1, <1>2, DistinctWhen
<1>7. s5 \in Seq(Bodies) /\ Distinct(s5) /\ Ids(s5) \subseteq {"Tags"}
  BY <1>1, <1>2, DistinctWhen
<1>8. s6 \in Seq(Bodies) /\ Distinct(s6) /\ Ids(s6) \subseteq {"Void"}
  BY <1>1, <1>2, DistinctWhen
<1>9. Body = s0 \o s1 \o s3 \o s4 \o s5 \o s6
  BY DEF Body, e0, e5, e6
<1> HIDE DEF s0, s1, s3, s4, s5, s6
<1> DEFINE u1 == s0 \o s1
           u3 == u1 \o s3
           u4 == u3 \o s4
           u5 == u4 \o s5
<1>10. u1 \in Seq(Bodies) /\ Distinct(u1) /\ Ids(u1) \subseteq {"Void", "Info", "Tracks"}
  BY <1>3, <1>4, DistinctConcat
<1> HIDE DEF u1
<1>11. u3 \in Seq(Bodies) /\ Distinct(u3) /\ Ids(u3) \subseteq {"Void", "Info", "Tracks", "Chapters"}
  BY <1>5, <1>10, DistinctConcat
<1> HIDE DEF u3
<1>12. /\ u4 \in Seq(Bodies) /\ Distinct(u4)
       /\ Ids(u4) \subseteq {"Void", "Info", "Tracks", "Chapters", "Attachments"}
  BY <1>6, <1>11, DistinctConcat
<1> HIDE DEF u4
<1>13. /\ u5 \in Seq(Bodies) /\ Distinct(u5)
       /\ Ids(u5) \subseteq {"Void", "Info", "Tracks", "Chapters", "Attachments", "Tags"}
  BY <1>7, <1>12, DistinctConcat
<1> HIDE DEF u5
<1>14. u5 \o s6 \in Seq(Bodies) /\ Distinct(u5 \o s6)
  BY <1>8, <1>13, DistinctConcat
<1> QED BY <1>9, <1>14 DEF u1, u3, u4, u5

LEMMA MasterIs == \A id, kids : Master(id, kids).id = id /\ Master(id, kids).kids = kids
BY DEF Master, Element

LEMMA SeekEntryIs ==
  \A t, n : /\ SeekEntry(t, n).id = "Seek" /\ SeekEntry(t, n).kids[1].text = t
            /\ SeekEntry(t, n).kids[2].val = n
<1> TAKE t, n
<1> DEFINE a == Element("SeekID", 4, <<>>, 0, t)
           b == Element("SeekPosition", 8, <<>>, n, "")
<1>1. a.text = t /\ b.val = n
  BY DEF Element
<1> HIDE DEF a, b
<1>2. SeekEntry(t, n) = Master("Seek", <<a, b>>)
  BY DEF SeekEntry, a, b
<1>3. SeekEntry(t, n).id = "Seek" /\ SeekEntry(t, n).kids = <<a, b>>
  BY <1>2, MasterIs
<1> QED BY <1>1, <1>3

\* What the reader of the SeekHead relies on: where its entries lead.
LEMMA SeekHeadKids ==
  ASSUME NEW body, Distinct(body), DOMAIN body \subseteq Nat, "Cues" \notin Ids(body),
         NEW e, NEW k \in DOMAIN SeekHead(body).kids, e = SeekHead(body).kids[k], e.id = "Seek"
  PROVE  /\ k \in DOMAIN SeekTargets /\ e.kids[1].text = SeekTargets[k]
         /\ SeekTargets[k] = "Cues" => e.kids[2].val = 0
         /\ SeekTargets[k] # "Cues" =>
              e.kids[2].val \in DOMAIN body /\ body[e.kids[2].val].id = SeekTargets[k]
<1> DEFINE at == {p \in DOMAIN body : body[p].id = SeekTargets[k]}
<1>1. k \in DOMAIN SeekTargets
  BY DEF SeekHead, Master, Element
<1>2. e = IF at # {} THEN SeekEntry(SeekTargets[k], CHOOSE p \in at : TRUE)
          ELSE IF SeekTargets[k] = "Cues" THEN SeekEntry("Cues", 0) ELSE VoidElement(19)
  BY <1>1 DEF SeekHead, Master, Element
<1>3. at # {} => (CHOOSE p \in at : TRUE) \in at
  OBVIOUS
<1>4. \A t, n : /\ SeekEntry(t, n).id = "Seek" /\ SeekEntry(t, n).kids[1].text = t
                /\ SeekEntry(t, n).kids[2].val = n
  BY SeekEntryIs
<1>5. VoidElement(19).id = "Void"
  BY DEF VoidElement, Element
<1>6. SeekTargets[k] = "Cues" => at = {}
  BY DEF Ids
<1> HIDE DEF at
<1>7. CASE at # {}
  BY <1>1, <1>2, <1>3, <1>4, <1>6, <1>7 DEF at
<1>8. CASE at = {}
  BY <1>1, <1>2, <1>4, <1>5, <1>8
<1> QED BY <1>7, <1>8

\* ... and that every element it may name has an entry.
LEMMA SeekHeadComplete ==
  ASSUME NEW body, Distinct(body), NEW q \in DOMAIN body,
         body[q].id \in {"Info", "Tracks", "Chapters", "Attachments", "Tags"}
  PROVE  \E k \in DOMAIN SeekHead(body).kids :
           LET e == SeekHead(body).kids[k] IN
           e.id = "Seek" /\ e.kids[1].text = body[q].id /\ e.kids[2].val = q
<1>1. PICK k \in DOMAIN SeekTargets : SeekTargets[k] = body[q].id
  <2>1. /\ DOMAIN SeekTargets = 1 .. 6
        /\ SeekTargets[1] = "Info" /\ SeekTargets[2] = "Tracks" /\ SeekTargets[3] = "Chapters"
        /\ SeekTargets[4] = "Attachments" /\ SeekTargets[5] = "Tags"
    BY DEF SeekTargets
  <2> QED BY <2>1
<1> DEFINE at == {p \in DOMAIN body : body[p].id = SeekTargets[k]}
<1>2. at = {q}
  BY <1>1 DEF Distinct
<1>3. (CHOOSE p \in at : TRUE) = q
  BY <1>2
<1>4. k \in DOMAIN SeekHead(body).kids /\ SeekHead(body).kids[k] = SeekEntry(SeekTargets[k], q)
  BY <1>1, <1>2, <1>3 DEF SeekHead, Master, Element
<1>5. LET e == SeekEntry(SeekTargets[k], q) IN
      e.id = "Seek" /\ e.kids[1].text = SeekTargets[k] /\ e.kids[2].val = q
  BY SeekEntryIs
<1> QED BY <1>1, <1>4, <1>5

LEMMA WriteHeaderResolves ==
  ASSUME WriteHeader, ~options.live
  PROVE  SeekHeadResolves'
<1> DEFINE head == <<EBMLHeader(emittedVersion'), OpenMaster("Segment")>>
           seek == SeekHead(Body)
           D == {head[1], head[2], seek} \cup Bodies
<1>1. file' = (head \o <<seek>>) \o Body /\ options' = options /\ ~options'.live
  BY DEF WriteHeader, When
<1>2. Body \in Seq(Bodies) /\ Distinct(Body)
  BY BodyDistinct
<1>3. "Cues" \notin Ids(Body)
  <2>1. \A e \in Bodies : e.id # "Cues"
    <3>1. /\ \A n : VoidElement(n).id = "Void"
          /\ \A tags : TagsOf(tags).id = "Tags"
          /\ Info.id = "Info" /\ Tracks.id = "Tracks" /\ Chapters.id = "Chapters"
          /\ Attachments.id = "Attachments"
      BY SMT DEF VoidElement, TagsOf, Info, Tracks, Chapters, Attachments, Checked,
                 MasterWithCrc, Master, Element
    <3> QED BY <3>1 DEF Bodies
  <2>2. \A p \in DOMAIN Body : Body[p] \in Bodies
    BY <1>2
  <2> QED BY <2>1, <2>2 DEF Ids
<1>4. seek.id = "SeekHead"
  BY DEF SeekHead, Master, Element
<1> DEFINE B == Body
<1> HIDE DEF seek, B
<1>5. /\ Len(file') = Len(B) + 3 /\ Len(B) \in Nat /\ DOMAIN B = 1 .. Len(B)
      /\ file'[3] = seek /\ \A p \in DOMAIN B : file'[3 + p] = B[p]
  <2>1. head \in Seq(D) /\ <<seek>> \in Seq(D) /\ B \in Seq(D) /\ Len(head) = 2
    <3>1. Bodies \subseteq D
      OBVIOUS
    <3>2. B \in Seq(D)
      BY <1>2, <3>1, SeqMonotonic DEF B
    <3> QED BY <3>2
  <2> HIDE DEF D, head
  <2>2. head \o <<seek>> \in Seq(D) /\ Len(head \o <<seek>>) = 3 /\ (head \o <<seek>>)[3] = seek
    <3>1. Len(<<seek>>) = 1 /\ <<seek>>[1] = seek
      OBVIOUS
    <3>2. /\ head \o <<seek>> \in Seq(D) /\ Len(head \o <<seek>>) = Len(head) + Len(<<seek>>)
          /\ \A i \in 1 .. Len(head) + Len(<<seek>>) :
               (head \o <<seek>>)[i] = IF i <= Len(head) THEN head[i] ELSE <<seek>>[i - Len(head)]
      BY <2>1, ConcatProperties, Zenon
    <3>3. 3 \in 1 .. 2 + 1 /\ ~(3 <= 2) /\ 2 + 1 = 3 /\ 3 - 2 = 1
      OBVIOUS
    <3> QED BY <2>1, <3>1, <3>2, <3>3
  <2> DEFINE h == head \o <<seek>>
  <2>3. file' = h \o B
    BY <1>1 DEF B
  <2> HIDE DEF h
  <2>4. /\ Len(h \o B) = 3 + Len(B) /\ Len(B) \in Nat
        /\ \A i \in 1 .. 3 + Len(B) : (h \o B)[i] = IF i <= 3 THEN h[i] ELSE B[i - 3]
    BY <2>1, <2>2, ConcatProperties DEF h
  <2>5. DOMAIN B = 1 .. Len(B)
    BY <2>1, LenProperties
  <2> QED BY <2>2, <2>3, <2>4, <2>5 DEF h
<1> DEFINE F == file'
           kid(p) == F[2 + 1 + p]
           kids == {p \in 0 .. Len(F) : 2 + 1 + p <= Len(F)}
           entries == {seek.kids[k] : k \in {j \in DOMAIN seek.kids : seek.kids[j].id = "Seek"}}
<1>6. kid(0) = seek /\ \A p \in DOMAIN B : p \in kids /\ kid(p) = B[p]
  BY <1>5
<1>7. \A p \in kids : p = 0 \/ p \in DOMAIN B
  BY <1>5
<1>8. Distinct(B) /\ DOMAIN B \subseteq Nat /\ "Cues" \notin Ids(B) /\ seek = SeekHead(B)
  BY <1>2, <1>3, <1>5 DEF B, seek
<1> HIDE DEF F, kid, kids
<1>9. \A e \in entries : IF e.kids[1].text = "Cues" THEN e.kids[2].val = 0
                         ELSE e.kids[2].val \in kids /\ kid(e.kids[2].val).id = e.kids[1].text
  <2> SUFFICES ASSUME NEW k \in DOMAIN seek.kids, seek.kids[k].id = "Seek"
               PROVE  LET e == seek.kids[k] IN
                      IF e.kids[1].text = "Cues" THEN e.kids[2].val = 0
                      ELSE e.kids[2].val \in kids /\ kid(e.kids[2].val).id = e.kids[1].text
    OBVIOUS
  <2> DEFINE e == seek.kids[k]
             n == e.kids[2].val
  <2>1. /\ k \in DOMAIN SeekTargets /\ e.kids[1].text = SeekTargets[k]
        /\ SeekTargets[k] = "Cues" => n = 0
        /\ SeekTargets[k] # "Cues" => n \in DOMAIN B /\ B[n].id = SeekTargets[k]
    BY <1>8, SeekHeadKids
  <2> HIDE DEF n
  <2>2. CASE SeekTargets[k] = "Cues"
    BY <2>1, <2>2 DEF n
  <2>3. CASE SeekTargets[k] # "Cues"
    <3>1. n \in kids /\ kid(n) = B[n]
      BY <1>6, <2>1, <2>3
    <3> QED BY <2>1, <2>3, <3>1 DEF n
  <2> QED BY <2>2, <2>3
<1>10. \A p \in kids : kid(p).id \in {"Info", "Tracks", "Chapters", "Attachments", "Tags"}
         => \E e \in entries : e.kids[1].text = kid(p).id /\ e.kids[2].val = p
  <2> SUFFICES ASSUME NEW p \in kids,
                      kid(p).id \in {"Info", "Tracks", "Chapters", "Attachments", "Tags"}
               PROVE  \E e \in entries : e.kids[1].text = kid(p).id /\ e.kids[2].val = p
    OBVIOUS
  <2>1. p \in DOMAIN B
    BY <1>4, <1>6, <1>7
  <2>2. kid(p) = B[p]
    BY <1>6, <2>1
  <2>3. PICK k \in DOMAIN seek.kids :
          LET e == seek.kids[k] IN
          e.id = "Seek" /\ e.kids[1].text = B[p].id /\ e.kids[2].val = p
    BY <1>8, <2>1, <2>2, SeekHeadComplete
  <2> QED BY <2>2, <2>3
<1> HIDE DEF entries
<1>11. Entries' = entries
  <2>1. file'[2 + 1 + 0] = seek
    BY <1>5
  <2> QED BY <1>1, <2>1 DEF Entries, Leaves, Child, SegmentAt, entries
<1> QED BY <1>9, <1>10, <1>11 DEF SeekHeadResolves, Child, Children, SegmentAt, F, kid, kids

\* Every call of a setter is refused once the header is written.
LEMMA ConfigureBefore ==
  ASSUME Configure
  PROVE  ~written /\ written' = written
<1> USE DEF Call, Switch, Tell, Hint, Queue, Replace
<1>1. CASE WithBlockLacing
  BY <1>1, Zenon DEF WithBlockLacing
<1>2. CASE WithClusterPositionHints
  BY <1>2, Zenon DEF WithClusterPositionHints
<1>3. CASE WithClusterLimits
  BY <1>3, Zenon DEF WithClusterLimits
<1>4. CASE WithFrontCues
  BY <1>4, Zenon DEF WithFrontCues
<1>5. CASE WithSeekHeadExpansionVoid
  BY <1>5, Zenon DEF WithSeekHeadExpansionVoid
<1>6. CASE WithWebmLenient
  BY <1>6, Zenon DEF WithWebmLenient
<1>7. CASE WithLiveStreaming
  BY <1>7, Zenon DEF WithLiveStreaming
<1>8. CASE WithDurationFinalization
  BY <1>8, Zenon DEF WithDurationFinalization
<1>9. CASE SetDuration
  BY <1>9, Zenon DEF SetDuration
<1>10. CASE SetTitle
  BY <1>10, Zenon DEF SetTitle
<1>11. CASE SetDateUtc
  BY <1>11, Zenon DEF SetDateUtc
<1>12. CASE SetSegmentLinking
  BY <1>12, Zenon DEF SetSegmentLinking
<1>13. CASE SetDocTypeExtensions
  BY <1>13, Zenon DEF SetDocTypeExtensions
<1>14. CASE AddChapterFull
  BY <1>14, Zenon DEF AddChapterFull
<1>15. CASE SetEditionDisplays
  BY <1>15, Zenon DEF SetEditionDisplays
<1>16. CASE AddAttachment
  BY <1>16, Zenon DEF AddAttachment
<1>17. CASE AddTag
  BY <1>17, Zenon DEF AddTag
<1>18. CASE \E t \in Streams : SetHint(t)
  <2>0. PICK t \in Streams : SetHint(t)
    BY <1>18
  <2>1. CASE SetVideoInterlacing(t)
    BY <2>1, Zenon DEF SetVideoInterlacing
  <2>2. CASE SetVideoStereoMode(t)
    BY <2>2, Zenon DEF SetVideoStereoMode
  <2>3. CASE SetVideoOldStereoMode(t)
    BY <2>3, Zenon DEF SetVideoOldStereoMode
  <2>4. CASE SetVideoAlphaMode(t)
    BY <2>4, Zenon DEF SetVideoAlphaMode
  <2>5. CASE SetVideoGeometry(t)
    BY <2>5, Zenon DEF SetVideoGeometry
  <2>6. CASE SetVideoUncompressedFourcc(t)
    BY <2>6, Zenon DEF SetVideoUncompressedFourcc
  <2>7. CASE SetVideoAspectRatioType(t)
    BY <2>7, Zenon DEF SetVideoAspectRatioType
  <2>8. CASE SetVideoColour(t)
    BY <2>8, Zenon DEF SetVideoColour
  <2>9. CASE SetVideoProjection(t)
    BY <2>9, Zenon DEF SetVideoProjection
  <2>10. CASE SetTrackAudio(t)
    BY <2>10, Zenon DEF SetTrackAudio
  <2>11. CASE SetTrackAudienceFlags(t)
    BY <2>11, Zenon DEF SetTrackAudienceFlags
  <2>12. CASE SetMaxBlockAdditionId(t)
    BY <2>12, Zenon DEF SetMaxBlockAdditionId
  <2>13. CASE SetBlockAdditionMappings(t)
    BY <2>13, Zenon DEF SetBlockAdditionMappings
  <2>14. CASE SetTrackTiming(t)
    BY <2>14, Zenon DEF SetTrackTiming
  <2>15. CASE SetTrackCodecTiming(t)
    BY <2>15, Zenon DEF SetTrackCodecTiming
  <2>16. CASE SetTrackIdentity(t)
    BY <2>16, Zenon DEF SetTrackIdentity
  <2>17. CASE SetTrackOperation(t)
    BY <2>17, Zenon DEF SetTrackOperation
  <2>18. CASE SetTrackTranslates(t)
    BY <2>18, Zenon DEF SetTrackTranslates
  <2>19. CASE SetTrackLegacy(t)
    BY <2>19, Zenon DEF SetTrackLegacy
  <2>20. CASE SetTrackContentEncodings(t)
    BY <2>20, Zenon DEF SetTrackContentEncodings
  <2> QED BY <2>0, <2>1, <2>2, <2>3, <2>4, <2>5, <2>6, <2>7, <2>8, <2>9, <2>10, <2>11,
    <2>12, <2>13, <2>14, <2>15, <2>16, <2>17, <2>18, <2>19, <2>20
    DEF SetHint
<1> QED BY <1>1, <1>2, <1>3, <1>4, <1>5, <1>6, <1>7, <1>8, <1>9, <1>10, <1>11, <1>12,
  <1>13, <1>14, <1>15, <1>16, <1>17, <1>18
  DEF Configure

\* Every Seek entry leads to the element it names, and every element that can
\* have one has it, for any configuration: with or without the Void an
\* application reserves behind the SeekHead.
THEOREM SeekHeadAlwaysResolves == Spec => []SeekHeadResolves
<1>1. Init => SeekHeadResolves
  BY DEF Init, NewConfig, SeekHeadResolves
<1>2. SeekHeadResolves /\ [Next]_vars => SeekHeadResolves'
  <2> SUFFICES ASSUME SeekHeadResolves, [Next]_vars PROVE SeekHeadResolves'
    OBVIOUS
  <2>1. CASE Configure /\ UNCHANGED <<file, emittedVersion>>
    BY <2>1, ConfigureBefore DEF SeekHeadResolves
  <2>2. CASE WriteHeader /\ ~options.live
    BY <2>2, WriteHeaderResolves
  <2>3. CASE WriteHeader /\ options.live
    BY <2>3 DEF WriteHeader, SeekHeadResolves, Entries
  <2>4. CASE WriteLiveTags
    BY <2>4 DEF WriteLiveTags, SeekHeadResolves, Entries
  <2>5. CASE UNCHANGED vars
    BY <2>5 DEF vars, config, SeekHeadResolves, Entries, Children, Child, Leaves
  <2> QED BY <2>1, <2>2, <2>3, <2>4, <2>5 DEF Next
<1> QED BY <1>1, <1>2, PTL DEF Spec
=============================================================================
