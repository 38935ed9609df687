SPECIFICATION Spec
CONSTANTS
  Modes <- MCModes
  Sizes <- MCSizes
  MaxFrames = 4
  Foreign <- MCForeign
CHECK_DEADLOCK FALSE
INVARIANT LacesAlwaysComeBack
