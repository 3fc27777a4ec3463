SPECIFICATION Spec
CONSTANTS
  Producers = {p1}
  Capacity = 2
  BackoffMin = 1
  BackoffMax = 3
  MaxEvents = 3
  Bindings <- MCBindings
  StreamOf <- MCStreamOf
  Oversized = {}
  Rejected = {2}
PROPERTIES
  RejectedMessageIsDropped
