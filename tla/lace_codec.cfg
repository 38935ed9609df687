SPECIFICATION Spec
CONSTANTS
  Modes <- MCModes
  Sizes <- MCSizes
  MaxFrames = 4
  Foreign <- MCForeign
CHECK_DEADLOCK FALSE
INVARIANTS LacesComeBack FramesFillTheBlock
