SPECIFICATION System
CONSTANTS
  Files <- UnopenedFiles
  Layouts <- MCLayouts
  Recording <- MCRecording
  TrackIndex <- MCTrackIndex
  Targets <- MCFewTargets
  Slack = 3
  MaxSeeks = 1
  ProbeGap = 6
  MaxProbes = 96
  VetChildren = 8
  Far = 1000
INVARIANTS CutFileKeepsItsPackets OpenFailsOnlyForCause MastersAreFound
INVARIANTS DamageAtOpenIsReported IndexIsTruthful DurationIsTruthful
PROPERTIES CallsReturn
CHECK_DEADLOCK FALSE
