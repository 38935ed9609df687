SPECIFICATION Spec
CONSTANTS
  Streams <- MCStreams
  Scale <- MCScale
  Media <- VideoSubtitle
  Lacing = "None"
  Packets <- PlainPackets
  Live = FALSE
  Strict = FALSE
  Hints = TRUE
  Finalize = TRUE
  FrontReserved = 7
  SilentLists <- NoLists
  MaxCalls = 6
  MaxFramesPerLace = 1
  ClusterMaxBytes = 5
  ClusterMaxMs = 4
  I16Min <- MCI16Min
  I16Max = 7
  SegmentStart = 3
  HeadSize = 2
  Disciplined = TRUE
  None = None
  Void = Void
CHECK_DEADLOCK FALSE
INVARIANT BlocksDecodeToTheirTime
INVARIANT SeekableAfterTrailer
INVARIANT PrevSizeIsPreviousClusterSize
INVARIANT ReferencesAreWritten
INVARIANT DurationCoversEveryPacket
