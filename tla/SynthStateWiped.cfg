SPECIFICATION FairSpec
CONSTANTS
  Devices = {"controller", "sign"}
  Keys = {"faults", "message"}
  DeviceOf <- MCDeviceOf
  Values = {"a", "b"}
  Quiet = "a"
  FromEmpty = {"faults"}
  Volatile = {}
  NoValue = NoValue
  Junk = Junk
  MaxChanges = 1
  MaxBoots = 1
  MaxWipes = 1
PROPERTIES
  EveryChangeWritten
