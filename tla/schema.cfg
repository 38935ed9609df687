SPECIFICATION Spec
CONSTANTS
  MaxDepth = 64
  Documents <- MCDocuments
  NotRun = NotRun
CHECK_DEADLOCK FALSE
INVARIANT FindsTheFaultsOfTheTree
INVARIANT DamageIsNeverGood
INVARIANT WalkersAgree
INVARIANT ConformantIffClean
