SPECIFICATION Spec
CONSTANTS
  Streams <- MCStreams
  Scale <- MCScale
  Media <- VideoAudio
  Lacing = "FixedSize"
  Packets <- LacedPackets
  Live = FALSE
  Strict = TRUE
  Hints = FALSE
  Finalize = FALSE
  FrontReserved = 0
  SilentLists <- NoLists
  MaxCalls = 6
  MaxFramesPerLace = 2
  ClusterMaxBytes = 5
  ClusterMaxMs = 4
  I16Min <- MCI16Min
  I16Max = 7
  SegmentStart = 3
  HeadSize = 2
  Disciplined = TRUE
  None = None
  Void = Void
CHECK_DEADLOCK FALSE
INVARIANT MuxInv
INVARIANT LacesAreLegal
INVARIANT CuesLandOnBlocks
INVARIANT OneCuePerCluster
PROPERTY ImplementsPacketLog
