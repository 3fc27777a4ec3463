SPECIFICATION Spec
CONSTANTS
  Devices = {"controller", "sign"}
  Keys = {"faults", "message"}
  DeviceOf <- MCDeviceOf
  Values = {"a", "b"}
  Quiet = "a"
  FromEmpty = {"faults"}
  Volatile = {}
  NoValue = NoValue
  Junk = Junk
  MaxChanges = 2
  MaxBoots = 1
  MaxWipes = 0
INVARIANTS
  FlushWritesAll
