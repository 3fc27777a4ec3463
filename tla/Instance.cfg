SPECIFICATION InstanceSpec
CONSTANTS
  Interval = 2
  Offsets <- MCOffsets
  Window = 2
  Limit = 1
  Backlog = 1
  NoWindow = NoWindow
  Devices = 2
  MaxTime = 3
  MaxLogs = 3
  MaxEvents = 2
INVARIANTS
  BeatsOnTime
  LogsAccounted
  Announced
  ClosedOnce
PROPERTIES
  SuppressedForCause
  ProcessEnds
CHECK_DEADLOCK FALSE
