SPECIFICATION Spec
CONSTANTS
  Streams <- MCStreams
  Scale <- MCScale
  Media <- VideoAudio
  Lacing = "Ebml"
  Packets <- LivePackets
  Live = TRUE
  Strict = FALSE
  Hints = TRUE
  Finalize = FALSE
  FrontReserved = 0
  SilentLists <- MCSilentLists
  MaxCalls = 7
  MaxFramesPerLace = 2
  ClusterMaxBytes = 50
  ClusterMaxMs = 4
  I16Min <- MCI16Min
  I16Max = 7
  SegmentStart = 3
  HeadSize = 2
  Disciplined = TRUE
  None = None
  Void = Void
CHECK_DEADLOCK FALSE
PROPERTY SilentListDrained
