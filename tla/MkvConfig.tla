----------------------------- MODULE MkvConfig -----------------------------
(***************************************************************************)
(* What a caller may tell a MkvMuxer before write_header, and what each    *)
(* setter refuses (src/src/mux.rs).  A call that is refused changes        *)
(* nothing: its action is not enabled for those arguments.                 *)
(*                                                                         *)
(* A group of optional fields (an MkvVideoGeometry, an MkvChapter, ...) is *)
(* a function from element names to values: a field that is None or at the *)
(* default that no element is written for is not in its domain.  An enum   *)
(* is its raw value.  Lists are sequences under names of their own.        *)
(***************************************************************************)
EXTENDS MkvElement

CONSTANTS
  Streams,       \* 1 .. n, a stream's track number
  Media,         \* Streams -> {"Video", "Audio", "Subtitle"}
  Args,          \* per setter, the arguments it is called with
  MaxCalls,      \* setter calls the model explores
  I16Max         \* the largest Block offset in milliseconds

VARIABLES
  profile,       \* doc_type and webm_strict
  options,       \* the muxer-wide switches
  info,          \* what Info is told: title, date, duration, linking
  hints,         \* Streams -> (group -> the values of a set_video_*/set_track_*)
  queues,        \* chapters, edition_displays, attachments, tags, extensions
  written,       \* header_written
  calls          \* setter calls made so far (model only)

config == <<profile, options, info, hints, queues, written, calls>>

Items(s) == {s[k] : k \in DOMAIN s}
Has(f, name)  == name \in DOMAIN f
Of(f, name, none) == IF Has(f, name) THEN f[name] ELSE none
List(f, name) == Of(f, name, <<>>)
With(f, name, v) == [n \in DOMAIN f \cup {name} |-> IF n = name THEN v ELSE f[n]]
Nothing == [n \in {} |-> 0]

-----------------------------------------------------------------------------
NewConfig(doctype) ==
  /\ profile = [doctype |-> doctype, strict |-> doctype = "webm"]
  /\ options = [lacing |-> "None", position |-> FALSE, ms |-> 5000, bytes |-> 5000000,
                front |-> 0, expansion |-> 0, live |-> FALSE, finalize |-> FALSE]
  /\ info = Nothing
  /\ hints = [t \in Streams |-> Nothing]
  /\ queues = [chapters |-> <<>>, editionDisplays |-> <<>>, attachments |-> <<>>,
               tags |-> <<>>, extensions |-> <<>>]
  /\ written = FALSE /\ calls = 0

\* webm_profile_guard: none of these elements in a strict WebM file.
Profile(v, elements) == profile.strict => DOMAIN v \cap elements = {}
\* v5_guard: WebM, lenient or not, has no version 5.
V5(used) == used => profile.doctype # "webm"

Call == ~written /\ calls < MaxCalls /\ calls' = calls + 1

Switch(name, v) ==
  /\ options' = [options EXCEPT ![name] = v]
  /\ UNCHANGED <<profile, info, hints, queues, written>>
Tell(name, v) ==
  /\ info' = With(info, name, v)
  /\ UNCHANGED <<profile, options, hints, queues, written>>
Hint(t, group, v) ==
  /\ hints' = [hints EXCEPT ![t] = With(@, group, v)]
  /\ UNCHANGED <<profile, options, info, queues, written>>
Queue(name, v) ==
  /\ queues' = [queues EXCEPT ![name] = Append(@, v)]
  /\ UNCHANGED <<profile, options, info, hints, written>>
Replace(name, vs) ==
  /\ queues' = [queues EXCEPT ![name] = vs]
  /\ UNCHANGED <<profile, options, info, hints, written>>

-----------------------------------------------------------------------------
(* Muxer-wide switches. *)

WithBlockLacing == Call /\ \E mode \in Args.lacing : Switch("lacing", mode)

WithClusterPositionHints == Call /\ Switch("position", TRUE)

WithClusterLimits ==
  \E limits \in Args.limits :
    /\ Call /\ limits.ms \in 1 .. I16Max /\ limits.bytes >= 1024
    /\ options' = [options EXCEPT !.ms = limits.ms, !.bytes = limits.bytes]
    /\ UNCHANGED <<profile, info, hints, queues, written>>

WithFrontCues ==
  Call /\ ~options.live /\ \E n \in Args.reserved : n >= 32 /\ Switch("front", n)

WithSeekHeadExpansionVoid ==
  Call /\ ~options.live /\ \E n \in Args.reserved : n >= 2 /\ Switch("expansion", n)

\* Bug: a second call takes the first one back.
WithWebmLenientToggled ==
  /\ ~written /\ profile.doctype = "webm"
  /\ profile' = [profile EXCEPT !.strict = ~@]
  /\ UNCHANGED <<options, info, hints, queues, written, calls>>
\* It costs no call of the bound, so that a lenient muxer is explored as far
\* as a strict one.
WithWebmLenient ==
  /\ ~written /\ profile.doctype = "webm"
  /\ profile' = [profile EXCEPT !.strict = FALSE]
  /\ UNCHANGED <<options, info, hints, queues, written, calls>>

WithLiveStreaming ==
  /\ Call /\ ~options.finalize /\ options.front = 0 /\ options.expansion = 0
  /\ Switch("live", TRUE)

WithDurationFinalization ==
  Call /\ ~Has(info, "Duration") /\ ~options.live /\ Switch("finalize", TRUE)

SetDuration ==
  /\ Call /\ ~options.finalize
  /\ \E ticks \in Args.duration : ticks > 0 /\ Tell("Duration", ticks)

SetTitle == Call /\ \E title \in Args.title : Tell("Title", title)

\* set_date_utc_ns, and set_date_utc_unix_secs, which converts and calls it.
SetDateUtc == Call /\ \E ns \in Args.date : Tell("DateUTC", ns)

SetSegmentLinking ==
  /\ Call /\ ~profile.strict
  /\ \E l \in Args.linking :
       /\ \A n \in DOMAIN l \cap {"SegmentUUID", "PrevUUID", "NextUUID"} :
            OctetsOf(l[n]) = 16
       /\ \A f \in Items(List(l, "SegmentFamily")) : OctetsOf(f) = 16
       /\ Has(l, "SegmentUUID") =>
            \A n \in DOMAIN l \cap {"PrevUUID", "NextUUID"} : l[n] # l.SegmentUUID
       /\ List(l, "ChapterTranslate") # <<>> => List(l, "SegmentFamily") # <<>>
       /\ \A ct \in Items(List(l, "ChapterTranslate")) : ct.ChapterTranslateID # ""
       /\ Tell("linking", l)

SetDocTypeExtensions ==
  /\ Call
  /\ \E exts \in Args.extensions :
       /\ \A k \in DOMAIN exts :
            /\ exts[k].name # "" /\ exts[k].version # 0
            /\ \A j \in 1 .. k - 1 : exts[j].name # exts[k].name
       /\ Replace("extensions", exts)

-----------------------------------------------------------------------------
(* Hints for one track. *)

IsVideo(t) == Media[t] = "Video"

SetVideoInterlacing(t) ==
  /\ Call /\ IsVideo(t)
  /\ \E v \in Args.interlacing :
       /\ Has(v, "FieldOrder") => v.FlagInterlaced = 1
       /\ Hint(t, "interlacing", v)

SetVideoStereoMode(t) ==
  Call /\ IsVideo(t) /\ \E v \in Args.stereo : Hint(t, "stereo", v)

SetVideoOldStereoMode(t) ==
  Call /\ IsVideo(t) /\ \E v \in Args.oldStereo : Hint(t, "oldStereo", v)

SetVideoAlphaMode(t) ==
  Call /\ IsVideo(t) /\ \E v \in Args.alpha : Hint(t, "alpha", v)

SetVideoGeometry(t) ==
  /\ Call /\ IsVideo(t)
  /\ \E v \in Args.geometry :
       /\ \A n \in DOMAIN v \cap {"DisplayWidth", "DisplayHeight"} : v[n] # 0
       /\ Hint(t, "geometry", v)

SetVideoUncompressedFourcc(t) ==
  Call /\ IsVideo(t) /\ \E v \in Args.fourcc : Hint(t, "fourcc", v)

SetVideoAspectRatioType(t) ==
  Call /\ IsVideo(t) /\ \E v \in Args.aspect : Hint(t, "aspect", v)

SetVideoColour(t) ==
  Call /\ IsVideo(t) /\ \E v \in Args.colour : Hint(t, "colour", v)

SetVideoProjection(t) ==
  Call /\ IsVideo(t) /\ \E v \in Args.projection : Hint(t, "projection", v)

SetTrackAudio(t) ==
  /\ Call /\ Media[t] = "Audio"
  /\ \E v \in Args.audio :
       /\ \A n \in DOMAIN v \ {"Emphasis"} : v[n] > 0
       /\ Has(v, "Emphasis") => v.Emphasis \in {1} \cup 3 .. 5 \cup 10 .. 16
       /\ V5(Has(v, "Emphasis"))
       /\ Hint(t, "audio", v)

SetTrackAudienceFlags(t) ==
  Call /\ \E v \in Args.audience : Hint(t, "audience", v)

SetMaxBlockAdditionId(t) ==
  Call /\ ~profile.strict /\ \E v \in Args.maxAddition : Hint(t, "maxAddition", v)

SetBlockAdditionMappings(t) ==
  Call /\ \E vs \in Args.mappings : Hint(t, "mappings", vs)

\* Bug: only one of the two reclaimed or unsupported fields is guarded.
SetTrackTimingHalfGuarded(t) ==
  /\ Call
  /\ \E v \in Args.timing :
       /\ Profile(v, {"DefaultDecodedFieldDuration"})
       /\ \A n \in DOMAIN v : v[n] > 0
       /\ Hint(t, "timing", v)
SetTrackTiming(t) ==
  /\ Call
  /\ \E v \in Args.timing :
       /\ Profile(v, {"DefaultDecodedFieldDuration", "TrackTimestampScale"})
       /\ \A n \in DOMAIN v : v[n] > 0
       /\ Hint(t, "timing", v)

SetTrackCodecTiming(t) ==
  Call /\ \E v \in Args.codecTiming : Hint(t, "codecTiming", v)

SetTrackIdentity(t) ==
  /\ Call
  /\ \E v \in Args.identity :
       /\ Profile(v, {"AttachmentLink"})
       /\ \A n \in DOMAIN v \cap {"Name", "CodecName", "Language", "LanguageBCP47"} :
            v[n] # ""
       /\ Has(v, "AttachmentLink") => v.AttachmentLink # 0
       /\ Hint(t, "identity", v)

SetTrackOperation(t) ==
  /\ Call /\ ~profile.strict
  /\ \E op \in Args.operation :
       /\ op.planes # <<>> \/ op.joins # <<>>
       /\ \A p \in Items(op.planes) : p.track \in Streams
       /\ Items(op.joins) \subseteq Streams
       /\ Hint(t, "operation", op)

SetTrackTranslates(t) ==
  /\ Call /\ ~profile.strict
  /\ \E tts \in Args.translates :
       /\ \A tt \in Items(tts) :
            tt.TrackTranslateTrackID # "" /\ 0 \notin Items(tt.TrackTranslateEditionUID)
       /\ Hint(t, "translates", tts)

\* An empty MkvTrackLegacy takes the hint back; it still needs the profile.
SetTrackLegacy(t) ==
  /\ Call /\ ~profile.strict
  /\ \E v \in Args.legacy :
       /\ \A n \in DOMAIN v \cap {"TrickTrackSegmentUID", "TrickMasterTrackSegmentUID"} :
            OctetsOf(v[n]) = 16
       /\ Hint(t, "legacy", v)

\* Encryption is known by ContentEncAlgo, compression by ContentCompAlgo.
Signing == {"ContentSignature", "ContentSigKeyID", "ContentSigAlgo", "ContentSigHashAlgo"}
AES == 5
SetTrackContentEncodings(t) ==
  /\ Call
  /\ \E es \in Args.encodings :
       /\ es # <<>>
       /\ \A e \in Items(es) :
            /\ Profile(e, {"ContentCompAlgo"} \cup Signing)
            /\ e.ContentEncodingScope # 0
            /\ Has(e, "AESSettingsCipherMode") =>
                 e.ContentEncAlgo = AES /\ e.AESSettingsCipherMode # 0
       /\ \A j, k \in DOMAIN es :
            es[j].ContentEncodingOrder = es[k].ContentEncodingOrder => j = k
       /\ Hint(t, "encodings", es)

-----------------------------------------------------------------------------
(* Chapters, attachments and tags. *)

ChapterOutsideWebm ==
  {"ChapterFlagHidden", "ChapterFlagEnabled", "ChapterSegmentUUID",
   "ChapterSegmentEditionUID", "ChapterPhysicalEquiv", "ChapProcess"}

\* add_chapter_full, and add_chapter, which calls it with a title and times.
AddChapterFull ==
  /\ Call
  /\ \E c \in Args.chapters :
       /\ Has(c, "ChapterTimeEnd") => c.ChapterTimeEnd >= c.ChapterTimeStart
       /\ \A n \in DOMAIN c \cap {"ChapterUID", "ChapterSegmentEditionUID"} : c[n] # 0
       /\ Has(c, "ChapterSegmentUUID") => OctetsOf(c.ChapterSegmentUUID) = 16
       /\ Profile(c, ChapterOutsideWebm)
       /\ V5(Has(c, "ChapterSkipType"))
       /\ Has(c, "ChapterSkipType") => c.ChapterSkipType \in 0 .. 7
       /\ Queue("chapters", c)

SetEditionDisplays ==
  /\ Call
  /\ \E ds \in Args.editionDisplays : V5(ds # <<>>) /\ Replace("editionDisplays", ds)

AddAttachment ==
  /\ Call /\ ~profile.strict
  /\ \E a \in Args.attachments :
       /\ a.FileName # "" /\ a.FileMediaType # ""
       /\ Has(a, "FileUID") => a.FileUID # 0
       /\ Queue("attachments", a)

\* validate_simple_tags; the tags of the model nest one level.
AllNamed(tags) ==
  \A st \in Items(tags) :
    st.TagName # "" /\ \A c \in Items(List(st, "SimpleTag")) : c.TagName # ""

UsesBlockAddIds(tag) == \E v \in Items(List(tag.targets, "TagBlockAddIDValue")) : v # 0
TagAccepted(tag) ==
  /\ tag.simple # <<>>
  /\ Has(tag.targets, "TargetTypeValue") => tag.targets.TargetTypeValue # 0
  /\ profile.strict => \A n \in {"TagEditionUID", "TagChapterUID", "TagAttachmentUID"} :
                         List(tag.targets, n) = <<>>
  /\ V5(UsesBlockAddIds(tag))
  /\ AllNamed(tag.simple)

AddTag == Call /\ \E tag \in Args.tags : TagAccepted(tag) /\ Queue("tags", tag)

\* Whether the EBML header has to announce version 5.
\* Bug: the tags' own version 5 element is forgotten.
UsesV5ElementsButTags ==
  \/ queues.editionDisplays # <<>>
  \/ \E c \in Items(queues.chapters) : Has(c, "ChapterSkipType")
  \/ \E t \in Streams : Has(Of(hints[t], "audio", Nothing), "Emphasis")
UsesV5Elements ==
  \/ queues.editionDisplays # <<>>
  \/ \E c \in Items(queues.chapters) : Has(c, "ChapterSkipType")
  \/ \E t \in Streams : Has(Of(hints[t], "audio", Nothing), "Emphasis")
  \/ \E tag \in Items(queues.tags) : UsesBlockAddIds(tag)

-----------------------------------------------------------------------------
SetHint(t) ==
  \/ SetVideoInterlacing(t) \/ SetVideoStereoMode(t) \/ SetVideoOldStereoMode(t)
  \/ SetVideoAlphaMode(t) \/ SetVideoGeometry(t) \/ SetVideoUncompressedFourcc(t)
  \/ SetVideoAspectRatioType(t) \/ SetVideoColour(t) \/ SetVideoProjection(t)
  \/ SetTrackAudio(t) \/ SetTrackAudienceFlags(t) \/ SetMaxBlockAdditionId(t)
  \/ SetBlockAdditionMappings(t) \/ SetTrackTiming(t) \/ SetTrackCodecTiming(t)
  \/ SetTrackIdentity(t) \/ SetTrackOperation(t) \/ SetTrackTranslates(t)
  \/ SetTrackLegacy(t) \/ SetTrackContentEncodings(t)

Configure ==
  \/ WithBlockLacing \/ WithClusterPositionHints \/ WithClusterLimits
  \/ WithFrontCues \/ WithSeekHeadExpansionVoid \/ WithWebmLenient
  \/ WithLiveStreaming \/ WithDurationFinalization \/ SetDuration \/ SetTitle
  \/ SetDateUtc \/ SetSegmentLinking \/ SetDocTypeExtensions
  \/ AddChapterFull \/ SetEditionDisplays \/ AddAttachment \/ AddTag
  \/ \E t \in Streams : SetHint(t)

=============================================================================
