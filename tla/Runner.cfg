SPECIFICATION FairSpec
CONSTANTS
  MaxPolls = 4
INVARIANTS
  OneReadAtATime
  HealthAgrees
PROPERTIES
  OnlyTheNewest
  NoSlander
  RunReturns
CHECK_DEADLOCK FALSE
