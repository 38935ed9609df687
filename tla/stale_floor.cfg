SPECIFICATION Spec
CONSTANTS
  Files <- TwiceReadFiles
  TrackIndex <- MCTrackIndex
  Targets <- MCTargets
  Slack = 3
  MaxSeeks = 1
  ProbeGap = 6
  MaxProbes = 96
  VetChildren = 8
  Far = 1000
INVARIANTS ResumesAtNextElement
CHECK_DEADLOCK FALSE
