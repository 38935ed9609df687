SPECIFICATION Spec
CONSTANTS
  Files <- IntactFiles
  TrackIndex <- MCTrackIndex
  Targets <- MCTargets
  Slack = 3
  MaxSeeks = 2
  ProbeGap = 6
  MaxProbes = 96
  VetChildren = 8
  Far = 1000
CHECK_DEADLOCK FALSE
INVARIANT NoDamageOnIntactFile
INVARIANT NothingWantedIsSkipped
INVARIANT CuelessLandsOnLast
INVARIANT LandsAtOrBefore
INVARIANT TagsInForce
PROPERTY ReadsWhatIsStored
PROPERTY RecordsKeepWhatWasRead
