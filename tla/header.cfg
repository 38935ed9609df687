SPECIFICATION Spec
CONSTANTS
  Streams <- MCStreams
  Media <- MCMedia
  Params <- MCParams
  Args <- MCArgs
  MaxCalls = 2
  I16Max = 32767
  MaxDepth = 64
CHECK_DEADLOCK FALSE
INVARIANT HeaderInv
INVARIANT HeaderIsLegal
INVARIANT StrictIsConformant
INVARIANT VersionIsAnnounced
INVARIANT SeekHeadResolves
