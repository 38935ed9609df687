# TLA+ models of oxideav-mkv

oxideav-mkv reads and writes Matroska/WebM files. It is a sequential library:
there are no threads and no callbacks. The hard part is *state carried from one
call to the next*: a muxer is configured by some forty setters in any order and
then writes a file front to back, with offsets that must be right when somebody
follows them later; a demuxer walks such a file, or one that is damaged, cut or
lying, with seeks in between. This directory holds TLA+ models of that state,
the TLC runs that check them on small instances, and TLAPS proofs for every
instance. Line numbers below refer to `src/` of this repository (`mux.rs` is
`src/mux.rs` there).

## 1. Inventory

| Component | State it keeps | Operations | What is hard | What makes it correct |
|---|---|---|---|---|
| Muxer configuration (`mux.rs` `with_*`, `set_*`, `add_*`) | doc type and strictness, option flags, hints per track, queues of chapters, tags, attachments | setters valid before the header only, each with its refusals | conflicts in both orders of calls, a profile that can be given up in between | no accepted order reaches an excluded combination; a strict muxer holds nothing outside the profile |
| Header masters (`write_header`) | the SeekHead's offsets, the announced version | EBML header, SeekHead, Info, Tracks, Chapters, Attachments, Tags | elements configured by different calls, offsets patched afterwards | the crate's own validators find nothing wrong |
| Write path (`MkvMuxer`) | header/trailer flags, the open Cluster (Timestamp, start, bytes, Block count), one lace buffer and running time per stream, recorded cues, queued SilentTracks, largest end time | `write_packet` and its two BlockGroup variants, `set_next_cluster_silent_tracks`, `write_live_tags`, `write_trailer` | laces that outlive the call that started them; two paths that push cues; rotations by time, bytes, 16-bit range and backward time; failures half-way | each Block decodes to its packet's time; cues and SeekHead lead to the right Block; no packet lost or reordered |
| Trailer and crashes (`write_cues`, `write_front_cues`, `patch_cues_seek_entry`, `patch_info_duration`) | reserved slots, placeholder offsets | several seeks and writes in `write_trailer` | a crash between or inside two writes | the file is readable after each write, and what it says of itself is true |
| Open (`demux.rs` `open_typed_impl`, SeekHead targets, `scan_for_cues`, audits) | what the Segment's masters yielded, their checksums | walk until the first Cluster, follow offsets | offsets that lie, duplicates, damage in front of the Clusters | each master found once; a failure only for cause; losses reported |
| Demuxer walk (`next_packet`, `advance`) | read position, Cluster state, packet queue, Cluster records, damage events | read one element, queue its packets, resynchronize | damage, unknown sizes, side records repeated after seeks | progress to the end of file; packets as in the file |
| Seek (`seek_to`, relative position, Block number, bisection, linear scan) | read position, Cluster state, queue | seek by cue, by scan, by bisection | lying cues, ties, unsorted Clusters | lands at or before the target; a stale index is not believed |
| Schema validator (`schema.rs`), WebM scanner (`webm.rs`) | a stack of open masters, a report | two walks over a document's elements, each with structure rules of its own | where a master of unknown size ends; damage | exactly the faults of the document's tree; damage is never called good |
| Codecs (`ebml.rs`, lacing in both directions) | the octets of one Block | VINT, EBML header, three lacings | width limits, reserved values, overflow | decode after encode is the identity; malformed input is refused |
| Track operations | virtual streams of combined and joined tracks | copy a Block's packets to the virtual streams, union of Cues | seeks on a virtual stream | packets as on the real streams |
| Codec ids, configuration records, video configuration, registration | none | table lookups, bit fields | – | – |

The muxer and the demuxer meet only in the file. In `MkvMux` the file is the
sequence of elements written, and "a reader" in a property is the demuxer's
rule: a Block belongs to the last Segment child before it, its time is that
Cluster's Timestamp plus its offset, and a cue is followed by byte position. In
`MkvRecovery` the demuxer itself reads what the writer left.

`PROJECT.json` lists the hazards of this code at their lines, each with the
properties that cover it or the reason why none does.

## 2. What is modelled

### Configuration and header

| Code (`mux.rs`) | Model |
|---|---|
| `new`, every `with_*`, `set_*`, `add_*` before the header | `MkvConfig`: one action per method; a refusal is a conjunct, a refused call changes nothing and is no step |
| `webm_profile_guard`, the version 5 guard | `Profile`, `V5` |
| `write_header` 5016-6079 and the `build_*` helpers | `MkvHeader`: one operator per master, its elements in the order of the code; `WriteHeader` is the action |
| `write_live_tags` 4611 | `WriteLiveTags` |

Two thin data modules carry this: `MkvElement` (an element is an ID, a size, and
children or a value; texts and blobs are tokens that know their length) and
`MkvSchema` (below). A group of optional fields is a function whose domain is
the fields that are set. Positions count elements instead of octets. Left out:
UTF-8, the octets of floats, and the layouts a muxer may derive from the first
frames of a stream.

`Args` gives each setter its arguments: one with every field set, and one per
rule that refuses some. `MaxCalls` bounds the setter calls; `WithWebmLenient`
costs none, so that lenient muxers are explored as far as strict ones.

### Schema validator and WebM scanner

`MkvSchema` is `SCHEMA` and `EBML_SUPPLEMENT` of `schema.rs` and the guidelines
table of `webm.rs`, one row per element. `MkvValidate` is `schema::validate` and
`webm::scan`: two recursive walks with the code's rules for placement, number of
occurrences, lengths, ranges, mandatory children, the nesting of ChapterSkipType
and the end of masters of unknown size. Offsets and counts of findings are left
out of the report. `MkvValidateProps` has a document as a tree; `Flatten` takes
the structure of open masters away as the bytes do, and the walkers have to find
it again. The same operators judge the muxer's header in `MkvHeaderProps`, so the
crate's claim that its output passes its own validators is checked with them.

### The write path

`MkvMux` models the muxer from `write_header` on. Its fields are the record
`mux`; its output is `mux.out`, the elements after the header masters with their
absolute positions, so that every recorded offset can be compared with where
things are. Helpers are operators from a muxer state to the next one, in the
order the code calls them, and each public method is one action.

| Code (`mux.rs`) | Model |
|---|---|
| `write_header` 5016 (its effect on positions and slots) | `WriteHeader` |
| `write_packet` 6081, `write_packet_with_additions` 6438, `write_packet_with_block_group` 6479, all through `write_packet_inner` 6143 | `WritePacket(p)`, `p.group` for the BlockGroup entry points; `Placed` (flush, rotate), `Refused` (errors), `Stored` (cue, Block or lace) |
| `start_cluster` 6566 | `StartCluster`; fails half-way (`StartFails`) when strict WebM meets a queued SilentTracks list |
| `append_to_lace` 6788, `flush_lace` 6829 | `AppendToLace`, `FlushLace`, `FlushLaces` for the loops |
| `set_next_cluster_silent_tracks` 3906, `write_live_tags` 4611 | actions of the same names |
| `write_trailer` 6085, `write_cues` 6643, `write_front_cues` 6657, `patch_cues_seek_entry` 6888, `patch_info_duration` 6917 | `WriteTrailer` with `PlaceCues`, `CuesEntry` |
| builder options the path reads | CONSTANTS; `ConfigAssumption` is what the builders enforce |

Two history variables: `accepted` (the frames of packets that returned `Ok`),
`calls` (the bound). Abstractions: an element header is 1 unit and a payload has
its own size; the header masters are `HeadSize` units; the caller's own
`ReferenceBlock` list, additions and codec state are payload; `write_trailer` is
one step. A call that is refused before it changes anything (before the header,
an unknown stream, live Tags on a file that is not live) is not an action.
`Disciplined` says whether the caller makes its calls in order (header, packets,
trailer); the code does not require it.

`PacketLog` is the abstract promise: accepted frames reach the file in the
order they were accepted, at most `Slack` of them are still in memory (0 without
lacing, one lace otherwise), none once the trailer is written.
`ImplementsPacketLog` is the refinement, with the frames of all Blocks as the
disk.

### Lacing

`MkvLacing` has both ends of a laced Block in one module: `AppendToLace` and
`FlushLace` write one, `Arrive` brings one from elsewhere, `ReadLace` takes it
apart.

| Code | Model |
|---|---|
| `emit_xiph_lacing`, `emit_fixed_lacing`, `emit_ebml_lacing` (`mux.rs` 7140-7195) | `XiphSize`, `LaceHeader` |
| `write_vint` (`ebml.rs` 65), `write_signed_vint`, `write_vint_fixed` (`mux.rs` 7219, 7242) | `WriteVint`, `WriteSignedVint`, `WriteVintFixed` |
| `read_vint` (`ebml.rs` 23) | `ReadVint`; all ones give -1, which `VINT_UNKNOWN_SIZE as i64` is |
| `parse_xiph_lacing`, `parse_fixed_lacing`, `parse_ebml_lacing` (`demux.rs` 12299-12428) | `ParseXiph`, `ParseFixed`, `ParseEbml`; `Cut` is their common end |

A frame is its size. A body is its octets up to the payload and the number of
payload octets behind, which are zero. The octets are real ones: what the
encodings do at their edges is the subject. VINTs go to `MaxWidth` 4 octets, the
longest TLC can compute with; the checks against overflow of 64-bit sums are
therefore out of reach, as is the cap of 8 frames (`MkvMux` has it). `MkvMux` and
`MkvDemux` take a lace as its frames.

### Reading and seeking

`MkvDemux` models what happens after `open`: `next_packet` and `seek_to`. A
file is a sequence of cells (`MkvFile`): one cell per element header, and
"Bad" cells where no header parses, that is inside payloads and where the file
is damaged. A size counts cells, so offsets, ends of Clusters and overlong sizes
behave as bytes do, and a payload may hold cells that imitate a Cluster.

| Code (`demux.rs`) | Model |
|---|---|
| `next_packet` 9454 | `NextPacket` starts a call, `ReturnPacket`, `EndOfSegment` or `FailPacket` ends it |
| `advance` 11920, Idle | `OpenCluster`, `ApplyTags`, `SkipTopLevel`, `EndOfSegment` |
| `advance`, InCluster | `LeaveCluster`, `LeaveAtTopLevel`, `ReadTimecode`, `ReadRecord`, `ReadSimpleBlock`, `ReadBlockGroup`, `SkipChild` |
| `parse_block_group` 12076, `queue_block_packets_with` 12183 | `Group`, `Packets` |
| `resync_cluster_stream` 11387, `scan_top_level_element` 1682 | `Resync`, `ScanTopLevel` |
| `apply_mid_stream_tags` 11872 | `ApplyTags` |
| `register_cluster_record` 10213, `set_cluster_*` 10234 | `Registered`, `Recorded` |
| `seek_to` 9502 with `cue_landing_lie` 10057, `apply_cue_relative_position` 11151, `apply_cue_block_number` 11247 | `SeekByCue`, `SeekFails`, `Lies`, `RelativeLanding`, `NumberedLanding` |
| `seek_cueless` 11601, `probe_cluster_from` 2024, `seek_by_cluster_scan` 11479 | `SeekCueless`, `Bisect`, `ProbeFrom`, `LinearScan` |

One turn of the loop is one step, so that "a call returns" can fail. History:
`given` (packets since the last seek), `landing` (that seek), `last`, `seeks`
(bounded by `MaxSeeks`). Frames are numbers within a Block, times are Segment
Ticks (the conversion between time bases is left out but for its clamp at 0), a
probe is what it finds and not its read windows, and skipping past the end of
the input succeeds (a `Cursor`, or a `File` up to the offset the system allows).

`PacketReader` is the abstract promise: from the last landing on, every stored
packet once and in storage order, and the end only after the last.
`ReadsWhatIsStored` is the refinement. `MkvDemuxProps` states the properties
against what the file records of itself: its stored packets, its real Clusters,
whether it is intact. `MkvDemuxInv` has the reader's invariant, the measure
of its loop, and what "intact" means element by element (section 4).

`MkvFile` writes each search loop of the code as `Until(stop, step, x)`, the first
state of a walk that satisfies its end condition; what the loop makes of that
state are the LET operators around it. `LegalFile` in `MkvDemux` says what every
file of the model satisfies, damaged or not.

### Opening, writing in steps, recovery

`MkvOpen` extends `MkvDemux` with how the demuxer comes about, element by
element:

| Code (`demux.rs`) | Model |
|---|---|
| `open_typed_impl` 160-510 | `OpenSegment`, then `ReadMaster`, `StepOver`, `StepOverGarbage` until `StopWalk`, `FollowTarget` per target, `FinishOpen` |
| recovery in that walk 253-288, 396-444 | `RecoverAt`, `PastDamage` |
| `validate_top_level_crc` 2583 | `Checksum`, and that it reads the whole body first, `MasterAt` |
| `follow_seek_target` 8034 | `Holds`, `FollowTarget`: all of a master or nothing |
| `scan_for_cues` 11825, `scan_cues_from` 8117, `walk_unknown_cluster` 8186 | `ScanForCues`, `CuesBehind`, `UnknownClusterEnd` |
| `audit_cues` 9816, `audit_seek_head` 9944 | `CueIsTrue`, `SeekIsTrue` |

`MkvWriter` models what the muxer puts into its output *write by write*: the
header, a Cluster's start, a Block, and in `write_trailer` the Cues (behind the
Clusters, or in the slot in front of them with a Void behind), the SeekHead
entry, the Duration and the Info's checksum. Which packet opens a Cluster is
`MkvMux`'s subject; here any may. `InProgress` is the write that comes next and
`Remains` what a crash leaves of it: any prefix, perhaps with the beginning of a
header that parses as nothing.

`MkvRecovery` composes the three. A behaviour opens and reads one file: one of
`Files`, or whatever the writer leaves after any of its steps, strictly or
resiliently (`HandOver`). The file carries the truth about itself (which masters
were stored where), so that what the demuxer found can be compared with it.

Assumptions: the three patches in place are short enough to be written whole;
a master's fields beyond the Items it yields, Tag targets, masters shorter than
six octets and the checksums of Clusters are left out.

## 3. Runs

`CHECK_DEADLOCK FALSE` in every run: a caller may stop calling, a muxer whose
trailer is written has stopped, and so has a behaviour at its bound.

### Configuration, header, documents

| Run | Instance | What it shows |
|---|---|---|
| `header` | a video and an audio stream, WebM and Matroska, every setter with the arguments of `MCMkvHeader`, every pair of calls, then the header and live Tags | `HeaderInv`; the header is legal by the schema, a strict one conformant by the scanner, announces its version, and its SeekHead resolves |
| `schema` | three EBML headers, a Segment of known or unknown size, also followed by another one, with up to two of 19 elements behind its Info | the validator finds the faults of the tree and no other, the two walkers agree, damage is never good |

Two calls are enough to meet each pair of setters in both orders; conflicts of
three are none, since each refusal reads one other field. The theorems of section
4 hold for any number of calls. The pool of `schema` has, per kind of finding, an
element that has it and one that barely does not, and two of them in a row close
an open Cluster in every way. `HeaderIsLegal` tolerates seven fields whose range
no setter checks (`UncheckedRanges`) and has a video stream with dimensions:
without them the code writes a Video master the schema rejects.

### The write path

Two streams: a video stream on a 1 ms time base and an audio or subtitle stream
on a half-millisecond one, so that conversion truncates. 16-bit range, Cluster
budgets and lace cap are scaled down (offsets -8..7, 4 ms, 5 or 50 units, 2
frames), and a behaviour has at most `MaxCalls` calls (6 or 7): enough for a
rotation of each kind, a lace cut for each reason, an interruption by the other
track, and a trailer after them. Negative and backward timestamps, one outside
the 16-bit range, and derived ones are among the packets.

| Run | Configuration | What it shows |
|---|---|---|
| `plain` | no lacing, hints, front Cues slot, Duration | Blocks decode to their time, the index is found, PrevSize, references and Duration are right |
| `lacing` | fixed-size lacing, strict WebM | laces stay in their Cluster, are legal, indexed once and on the right Block, none is lost: `ImplementsPacketLog`; and the inductive invariant `MuxInv` of section 4 |
| `live` | live stream, EBML lacing, SilentTracks | `SilentListDrained`: a queued list reaches exactly one Cluster, also around live Tags |
| `strict_silent` | strict WebM, SilentTracks | departure: a rejected SilentTracks list leaves a half-started Cluster, later Blocks decode to a wrong time (mux.rs:6618; 436, 3894) |

These runs make the calls in order (`Disciplined`). Calls in any other order are
covered by the theorems `TypeInvariant` and `OneLaceInvariant` only.
`ReferencesAreWritten` is checked without lacing: with it, `last_block_pts_ms`
is the time of a frame inside a lace. No liveness is stated: the caller decides
when to call, so nothing must eventually happen.

### Reading and seeking

The base file has three Clusters of two declared tracks and one undeclared: Simple
Blocks, a laced group with a duration, a group of one key frame, records, Tags
between the Clusters. `ProbeGap` is 6 cells (the files have up to 35), so that a
bisection both halves and steps; `Slack` 3; seek targets before, at, between and
after the Clusters.

| Run | Files | What it shows |
|---|---|---|
| `demux_intact` | intact: sized, unsized, imitations in payloads, no Cluster, no Cues, three honest and five lying Cues, Clusters out of order (a late one first, three more in every order); the same read strictly, also with a damaged element or Block; two seeks | reading gives what is stored (strictly: up to the error), Tags and records are right, seeks come in time and land where they should |
| `demux_damage` | every pair of damaged elements, every cut, damaged Blocks, each element overwritten by one of unknown or overlong size; no seeks | true packets, in order, losses reported, recovery at the next Cluster; `next_packet` returns |
| `stale_floor` | four short Clusters, each cell damaged, one seek | departure: after a seek back, recovery skips the Cluster it resumed at before (demux.rs:11389; 49, 11379) |

Whether a file is opened strictly is a field of the file, so that one run holds
both readings. Damage that still parses as an element (`garbled`) cannot be told
from an element that was written: `PacketsAreTrue` and `LossIsReported` exempt
it.

`NextPacketReturns` assumes weak fairness of the loop's turns only: `next_packet`
runs on the caller's thread and nothing can interrupt it, so once called it keeps
turning. Nothing is assumed of the caller.

### Lacing

| Run | Instance | What it shows |
|---|---|---|
| `lace_codec` | the three lacings; laces of two to four frames of 13 sizes on both sides of the edges (0, 63-65, 126-127, 254-255, 510, 8191-8192, 16383); all bodies of up to four octets from an alphabet of ten with four payloads | the laces come back, but for the departure below; any other body is refused or cut into frames that fill it |
| `lace_delta` | the same | departure: a delta that is the largest of its width is written as all ones and read as the unknown size (demux.rs:12388; mux.rs:7235, README.md:1574) |

Differences of the sizes meet both ends of the one and two octet deltas.
`FramesFillTheBlock` is stricter for Xiph and fixed-size laces, whose octets are
determined by the sizes, than for EBML laces, whose sizes have several spellings.

### Opening, crashes, recovery

| Run | Files | What it shows |
|---|---|---|
| `recovery` | five Segments (masters behind the Clusters and named; named by a lying entry and a true one; unnamed Cues behind Clusters of unknown size; everything in front; Segment of unknown size), each with every cell damaged, every size overwritten, cut after every cell, strictly and resiliently; and everything a writer of three packets in four layouts (live; Duration patched; Cues slot wide enough; slot too narrow, strict WebM) leaves at a crash | opening fails only for cause, finds each master once, reports its losses; a cut file keeps its packets; index, Duration and checksums are true; both loops return |

Three packets of two tracks make one to three Clusters and an index with and
without a second entry; the two slots are one the index fits and one it does
not. A slot with one octet left is `MkvMux`'s case. `MaxSeeks` is 1, spent on a
seek in what the writer left or on `scan_for_cues`. Files whose damage still
parses are exempt from `MastersAreFound`, `DamageAtOpenIsReported` and
`OpenFailsOnlyForCause`, but not from `CallsReturn`.

Fairness (`System`): weak fairness of `Working`, the steps of opening and of
`next_packet`, for the reason given above. Nobody is obliged to open a file, to
write on, or to call.

### Departures without a run

Met while modelling; the properties above are stated so that they hold of the
code, or are checked where they do.

*Lacing.* `parse_ebml_lacing` reads a first size even when the lace has one
frame, whose size is implied, and returns two frames (12380; 12383, 12400).

*Muxer.* `set_video_uncompressed_fourcc` has no profile guard, so that a strict
muxer writes an element its own scanner lists as unsupported (mux.rs:3514;
README.md:1245): `StrictIsConformant` exempts it. `PrevSize` counts live Tags
between two Clusters (mux.rs:6607; 504, 2670). A refused packet sets the finalized
Duration (6209; 4858, 469). Laced subtitle Blocks are indexed once per Cluster and
not each (6848; 6268). A Cluster may exceed its byte budget by a flushed lace and
a packet (6242; 51, 2355). Derived ChapterUIDs and FileUIDs may equal a later
explicit one (7738, 7859; 1016). Editions without chapters are queued and not
written; gamma and frame rate on a track that is not video are dropped. Output
without PixelWidth, or with one of the seven unchecked fields out of range, fails
the crate's own validator (tests/schema_validate.rs:4).

*Validators.* `webm::scan` counts an overrunning child of an open Cluster at
every level it unwinds through. `schema::validate` reports no VersionMismatch in
a document that leaves DocTypeVersion at its default.

*Demuxer.* Damage that parses as an unknown element with an overlong size is
skipped as one: the reader passes the end of the Segment and reports neither
damage nor the lost tail (12069; 57, 9768). A relative position inside a Block
starts the reader inside it (demux.rs:11222; 11213, 10049). Every SimpleBlock
becomes a key frame (12248; 12175). A Cluster that is walked again lists its
silent tracks twice (10255; 2174, 10130): `RecordsKeepWhatWasRead` allows repeats.
The linear walk stops at the first Cluster past the target (11546; 11589,
tests/cueless_seek.rs:614). The bisection's bound on its probes also counts the
steps through the last gap: more than `BISECT_MAX_PROBES` (96) small Clusters in
less than `2 * PROBE_CHUNK`, and a Cues-less seek stops at an earlier one than the
last at or before the target (1778; 1776, 11590). The runs give it probes enough.
A Tracks that is cut or overlong yields nothing and fails even a resilient open,
since `validate_top_level_crc` reads its whole body first (2583; 47,
README.md:553). Opening a Segment without a Cluster succeeds, against the comment
at 62. A lying first Seek entry of a kind shadows a true one behind it; Tracks
behind the first Cluster are never found; a recovery may resume inside an
attachment that holds a Matroska file; and a front slot torn between Cues and Void
fails a strict open.

## 4. Proofs

`tlapm` checks eight modules of theorems and lemmas, for every value of the
constants that satisfies the named assumptions: any set of streams, packets,
arguments, files and targets, any configuration, any bound. The assumptions name
what the builders enforce (`ConfigAssumption`), what a time base and a packet are
(`StreamsAssumption`, `InputAssumption`), that the limits of the search are
numbers and a probe looks at one child at least (`ProbeAssumption`), that seek
targets are integers (`TargetsAssumption`), that a file is one the opener can
hand over (`FilesAssumption`: by `LegalFile` sizes are numbers or unknown, values
are of their kind, and what is listed as a Cluster is one, inside the Segment;
nothing about order, nesting, damage or the truth of the Cues), what a packet and
a layout of the writer are (`WriterAssumption`: their fields have their types, and
times are not negative), and that packets belong to declared tracks, whose stream
is the one the reader numbers them by, and no output reaches `Far`
(`RecoveryAssumption`). TLC evaluates each of them in a run.

| Module | What it holds |
|---|---|
| `SequenceFacts` | sets of numbers, `FlattenSeq`, recursive walks |
| `MkvMuxProofs` | the write path: types and decoding; a call as a chain of steps; the invariant `MuxInv`; what follows from it |
| `MkvHeaderProofs` | configuration and SeekHead |
| `MkvFileProofs`, `MkvDemuxProofs` | the searches of the reader; its invariant and action properties; reading intact files and seeking in them |
| `MkvWriterProofs` | the writer's output write by write, and what a crash leaves of it |
| `MkvOpeningProofs` | opening what is left: walk, SeekHead chase, Cluster scan, audits |
| `MkvRecoveryProofs` | reading what is left, from the start and after seeks |

### The write path

- `TypeInvariant`, `OneLaceInvariant`: for any order of calls. That one lace at
  most is pending is what makes the flush loops (`FlushLaces`) free of an order.
- `InductiveInvariant`, `BlocksDecode`, `CuesLand`: under `Orderly`, that is,
  calls in order and no SilentTracks list under strict WebM. The second condition
  is needed: `strict_silent` is the counterexample without it.
- `MuxInvariant`, also under `Orderly`, and from it `TrailerMakesSeekable`,
  `OneCueEach`, `LacesStayLegal`, `DurationCovers`; `PrevSizeIsRight` without live
  streaming (live Tags come between two Clusters, section 3); `ReferencesAreTrue`
  without lacing (the time of a frame inside a lace is no Block's time); and the
  two action properties `SilentListIsDrained` and `ImplementsLog`, the refinement
  of `PacketLog`.

No property of `MkvMuxProps` is inductive: they say nothing of the muxer's fields,
from which the next Block, cue and size are built. `IInv` adds that, while the
muxer may still write, the open Cluster is the last one of the output, exactly
`cluster_block_count` Blocks from its end, with `cluster_timecode_ms`,
`cluster_offset_rel` and `cluster_body_start` its Timestamp and positions
(`OpenClusterKnown`), and that the pending lace counts its offset from that
Cluster (`LaceKnown`). `MuxInv` adds the rest: that a recorded cue exists for
exactly the first entry Block of each track and Cluster and that
`cue_seen_in_cluster` is the set of those in the open one; that PrevSize, the
references and the laces on disk are right and the pending one obeys the same
rules; that the Blocks' frames with those of the pending lace are the accepted
ones in order; and that the largest end time covers them.

A call touches all of that several times over. `MkvMuxProofs` therefore describes
each call by a chain of few kinds of step (advance the counters, flush a lace,
open a Cluster, write a Block, let a frame join the lace), each by what
it does to the fields; it shows once per kind that the parts of `Known` are kept, and `write_trailer` turns them into what a reader of the closed
file may rely on. The central lemmas say that appending an element leaves what
is known of the earlier ones. The refinement then needs no invariant of its
own: by `FlattenAppend` a flushed lace appends its frames to the disk, and a
chain flushes at most one.

### Configuration

`HeaderInv` is inductive, and so, in whatever order the setters are called:

- `LayoutsAlwaysExclude`: live streaming, front Cues, the expansion Void and
  Duration finalization never meet where they exclude each other;
- `ProfileAlwaysKept`: a muxer that still is strict holds nothing the WebM
  profile guards keep out;
- `VersionAlwaysKept`: a WebM header never needs version 5, and any other
  announces it exactly when a queued element needs it.

`Shape` adds what the last two need of the configuration's type. A setter
touches one part of the configuration, so there is one lemma per part (what a
change of it can disturb: `SwitchStep`, `TellStep`, `HintStep`, `QueuesStep`),
then one per group of setters that cites it (`OptionSetters`, `PlainHints`,
`GuardedHints`, ...). `SeekHeadAlwaysResolves` is about one call: whatever the
configuration makes `write_header` write, the SeekHead's entries, patched in
after the masters, lead to the masters they name.

### Reading and seeking

The input is hostile here, so the first theorems assume nothing of a file but
`LegalFile`, and nothing of what its Cues say:

- `DemuxInvariant`: the reader stays inside the file; what it has queued and
  returned lies behind it, in storage order (`ReaderInv`); and until the first
  seek the resync floor is not ahead of it (`RecoveryInv`).
- `PacketsComeInOrder`: hence packets come in storage order, none twice, through
  any damage and any seek: the first half of `PacketsAreTrue`.
- `TurnsRunOut`: every turn of `next_packet`'s loop ends the call or lowers
  `Left`, a natural number. This is the safety half of `NextPacketReturns`, for
  every file; that the turns are taken is the fairness TLC's run assumes.
- `RecoveryGivesUpNothing`: recovery resumes before every plausible Cluster behind
  the damage, as long as nobody has sought. The hypothesis `seeks = 0` is no
  convenience: with one seek it is false, and `stale_floor` is the counterexample.

`ReaderInv` had to allow one place where the reader goes back without a seek: a
cue may lead into a Cluster that ends behind its Segment, and damage there takes
the reader to the Segment's end, where it is `Done`. `TurnsRunOut` needs the
same case in `Left`. TLC checked `DemuxInv` and `EveryTurnCounts` on the files of
`demux_damage` and of `demux_intact` with two seeks before they were proved.

What reading *delivers* is stated against what the file says it stores, and so of
intact files only. `WellFormed` tells element by element what such a file is:
`Tiled` (each element begins where the one before it ends, none inside another),
`TopsLegal` and `KidsLegal` (sizes, and that each Block and group decodes),
`StoredTruly` (`file.stored` lists each element's packets, with the Timestamp in
force at it). `MCMkvIntact` evaluates that for the files of `demux_intact`, in
assumptions of its own. The reader is `Grounded` in such a file as long as the
last seek, if any, left it at a Cluster.

- `IntactInvariant`: a grounded reader is always at an element (`AtElement`),
  knows the Timestamp in force (`InForce`), and what it has returned and queued
  are the stored packets from its landing to where it is (`Delivered`).
- `ReadingIsComplete`: so what `next_packet` has returned is the beginning of what
  is stored behind the landing, all of it at the end, with no error.
- `ReadingImplementsReader`: the refinement of `PacketReader` (`ReadsWhatIsStored`)
  while the reader is grounded; in `IntactFilesAreReadThrough` that is without
  seeks, in `CuelessSeeksReadOn` with any seeks that do without the Cues.
- `IntactNeedsNoRecovery`: such a file yields no damage event until the first seek
  (`NoDamageOnIntactFile`).

Each turn on an element yields exactly that element's packets (`PassTop`,
`PassChild`, `YieldIs`) and reaches the next element; that is all `Delivered`
needs. TLC checked `IntactInv` and `ReadsIntactFile` with two seeks first.

Seeks without the Cues depend on guesses at what is a Cluster. `Searchable` says
when they are right: every Cluster leads with its Timestamp, as the muxer writes
them; no payload imitates a Cluster well enough to be confirmed by a probe; and
the scan past a Cluster of unknown size meets only elements of the Segment.
`MCMkvIntact` evaluates that too, and TLC checked `CuelessInv` with one seek.

- `CuelessInvariant`: then the reader is grounded after any such seek.
- `CuelessSeeksLandTruly`: the landing is a Cluster, the time reported is its own,
  and only the first Cluster may be past the target (`LandsAtOrBefore`), in
  whatever order the Clusters are stored. The linear walk keeps to the Segment's
  elements and the bisection's bracket to Clusters (`LinearScanLands`,
  `BisectLands`).
- `CuelessSeeksSkipNothing`: playing on shows everything of the sought track from
  the wanted time on (`NothingWantedIsSkipped`), if, in a file with sorted
  Clusters, no Block is as late as the Timestamp of a Cluster behind it
  (`Timely`). Matroska allows such Blocks, and a seek between the two times misses
  them.

The code's own loops (skipping Voids, stepping over children, vetting a candidate
Cluster, the linear scan, the bisection) are `Until(stop, step, x)` in `MkvFile`:
the first state of the walk from `x` in the set `stop`. `UntilIs` shows that such
a walk arrives wherever a measure falls with each step, and each search has a
lemma for what it returns (`ProbeFromIs`, `LinearScanIs`, `BisectIs`,
`RelativeLandingIs`, `NumberedLandingIs`, `BestCueIs`). Induction is by a least
counterexample (`LeastNat`, `MeasureInduction`, `WalkExists` in `SequenceFacts`),
since the library's induction theorems take an operator the provers cannot
instantiate.

### Writing in steps, crashes, opening, reading

Here the file is one the muxer wrote, and may be cut anywhere. The theorems hold
for any packets, any layouts and either way to open.

- `OutputIsSound`: `WriterInv` holds after every write. It says what each cell of
  the output is: the header, with each patch that is made (`HeaderHolds`); the slot,
  a Void or the Cues and a Void (`SlotHolds`); between them and the Cues nothing
  but Clusters, Timestamps and Blocks (`BodyHolds`); the open Cluster and each cue
  where the fields say (`ClusterHolds`, `IndexHolds`); the Cues whole, where the
  SeekHead will name them (`CuesHold`).
- `EveryRemainIsTrue`: what a crash leaves has its masters where the writer puts
  them and nowhere else, a header that is whole as soon as the Tracks is, and, once
  the trailer is past its appends, everything (`RemainsAreTrue`).
- `OpeningIsSound`: `OpeningInv` holds while such a file is opened and ever after.
  What has been found of each master is what the writer put there (`FoundTruly`);
  in a file that is not torn the walk goes from master to master (`SealedWalk`), and
  ends with the whole index, in front of the Clusters or one chase away behind them
  (`SealedEnd`).
- `CuesAndSeekHeadAreTruthful` and `DurationAndChecksumsAreTruthful` are the two
  properties of the run `recovery` about what the file says of itself,
  `IndexIsTruthful` and `DurationIsTruthful`.
- `ReadingIsSound`: `PacketsInv` holds after every write and `ReadingInv` ever
  after. The Clusters are a row of *places*, two cells each, a Cluster with its
  Timestamp or a Block, and `stored` lists the Blocks in order, each with the
  packet it decodes to in the Cluster that governs it. The reader stands at a
  place (`AtPlace`), with that Cluster's Timestamp if it is inside one, or is past
  them all (`AllPassed`), and an error can only find it there.
- `CutFilesKeepTheirPackets` follows: `CutFileKeepsItsPackets`, for any number of
  packets, any crash, either way to open, and after seeks with or without Cues.

The first two properties are not inductive, nor do they follow from the output
alone: a cue is found by lifting a master whose end a crash may have moved into a
header that parses as nothing, through a recovery that could have resumed
elsewhere. So the chain is: `Write` keeps `WriterInv`; each member of `Remains` is a prefix of the
output before or after the next write but for torn cells (`TornIs`), hence
`LeftTruly`; a step of the opener on a file that is `LeftTruly` finds only what is
there. What a walk over Items yields is computed by the recursive functions
`Lifted` and `CuesBehind`; that such a function exists and unfolds for every file is
proved by least counterexample (`FileWalkExists`, `FileInduction`). TLC checked
`WriterInv`, `RemainsAreTrue`, `OpeningInv`, `PacketsInv` and `ReadingInv` on the
layouts of `recovery` first. The proof showed what the model had left to its
packets, that none earlier than the open Cluster's Timestamp gets into it
(mux.rs:6236-6241): that is a guard of `WriteBlock` now, and the run's third packet
goes back in time.

For the packets `OpeningInv` is not enough, which speaks of masters. What is torn
must also hold no Block that looks whole and is not stored, and in front of the
Clusters nothing that the reader could take for one (`PacketsLeft`). Then each
turn of `next_packet`'s loop passes one cell of a place (`PlacedReads`), a cue or a
search without cues leads to a Cluster (`CueLandsIs`, `LinearScanCluster`,
`BisectCluster`), and `Delivered`, the lemma of the intact files, carries what was
given out from place to place.


### Only model-checked

- That the second half of `PacketsAreTrue` holds in damaged files (each packet is
  one the file stores), and `LossIsReported`; `TagsInForce` and
  `RecordsKeepWhatWasRead`.
- Where a seek lands that trusts the Cues, and with it `NothingWantedIsSkipped`
  and `ReadsWhatIsStored` after one: an index may lead between two Blocks, and an
  honest one would have to be told from a lying one. `NoDamageOnIntactFile` after
  a seek, for the same reason.
- `CuelessLandsOnLast`: the landing is the last Cluster in time only while the
  bisection has probes enough (section 3).
- Of opening what no writer wrote but an arbitrary file holds:
  `OpenFailsOnlyForCause`, `MastersAreFound`, `DamageAtOpenIsReported`.
  They compare what is found with masters the file is said to have held before it
  was damaged, which `LegalFile` does not constrain.
- The lacings, whose octets are computed and not reasoned about.
- The two walkers, which are recursive, and with them `HeaderIsLegal` and
  `StrictIsConformant`; `VersionIsAnnounced`, which reads the written elements
  (what the muxer's fields say of the version is `VersionAlwaysKept`).
- Liveness under fairness (`NextPacketReturns`, `CallsReturn`), which the provers
  cannot reach, as is ENABLED.

## 5. Not modelled, and the plan

Not modelled:

- *Output errors the caller sees and goes on after.* Nothing says a failed call
  may be retried. Input errors of the demuxer's reader likewise, with
  `attachment_data`, and Cues-less seeks that find no Cluster.
- *Track operations*: virtual streams copy the packets of the Blocks they name.
- Codec id tables, configuration records, video configuration strings and the
  registration: lookups and bit fields without state.

Next, in this order:

1. Proofs about reading: `TagsInForce` until the first seek, from `IntactInv`;
   seeks that trust an honest index; the truth of packets in damaged files, from a
   description of what damage leaves of `WellFormed`.
2. The bisection of a Cues-less seek as a state machine, one probe per step.
3. Track operations: virtual streams and their seeks, as part of `MkvDemux`.
