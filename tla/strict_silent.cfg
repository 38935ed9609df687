SPECIFICATION Spec
CONSTANTS
  Streams <- MCStreams
  Scale <- MCScale
  Media <- VideoAudio
  Lacing = "None"
  Packets <- LivePackets
  Live = FALSE
  Strict = TRUE
  Hints = FALSE
  Finalize = FALSE
  FrontReserved = 0
  SilentLists <- MCSilentLists
  MaxCalls = 6
  MaxFramesPerLace = 1
  ClusterMaxBytes = 50
  ClusterMaxMs = 4
  I16Min <- MCI16Min
  I16Max = 7
  SegmentStart = 3
  HeadSize = 2
  Disciplined = TRUE
  None = None
  Void = Void
CHECK_DEADLOCK FALSE
INVARIANT BlocksDecodeToTheirTime
