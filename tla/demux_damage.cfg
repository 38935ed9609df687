SPECIFICATION FairSpec
CONSTANTS
  Files <- DamagedFiles
  TrackIndex <- MCTrackIndex
  Targets <- MCTargets
  Slack = 3
  MaxSeeks = 0
  ProbeGap = 6
  MaxProbes = 96
  VetChildren = 8
  Far = 1000
CHECK_DEADLOCK FALSE
INVARIANT PacketsAreTrue
INVARIANT LossIsReported
INVARIANT ResumesAtNextElement
PROPERTY NextPacketReturns
