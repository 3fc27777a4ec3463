SPECIFICATION FairSpec
CONSTANTS
  Producers = {p1, p2}
  Capacity = 2
  BackoffMin = 1
  BackoffMax = 3
  MaxEvents = 4
  Bindings <- MCBindings
  StreamOf <- MCStreamOf
  Oversized = {2}
  Rejected = {}
INVARIANTS
  Accounted
  InOrder
  DuplicateOnlyAfterWindow
  SettledAtReturn
PROPERTIES
  DrainReturns
  OutageEnds
  KeepsPromise
