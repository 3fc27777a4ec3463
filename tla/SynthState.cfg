SPECIFICATION FairSpec
CONSTANTS
  Devices = {"controller", "sign"}
  Keys = {"faults", "message", "counts"}
  DeviceOf <- MCDeviceOf
  Values = {"a", "b"}
  Quiet = "a"
  FromEmpty = {"faults"}
  Volatile = {"counts"}
  NoValue = NoValue
  Junk = Junk
  MaxChanges = 2
  MaxBoots = 2
  MaxWipes = 1
INVARIANTS
  WrittenThrough
  EventsAgree
PROPERTIES
  WritesTrackChanges
  FlushReturns
  WrittenAtLast
