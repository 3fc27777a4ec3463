SPECIFICATION EngineSpec
CONSTANTS
  Modes = {"normal", "flash", "unknown"}
  Plans = {0, 1, 2}
  ControlModes = {"central", "local", "unknown"}
  DisplayStates = {"normal", "blank"}
  Faces <- AllFaces
  Triggers = {"command", "unknown"}
  StatusUnknown = StatusUnknown
  StatusError = StatusError
  StatusValid = StatusValid
  Tours = {t1, t2}
  TourStates = {running, stopped}
  None = None
  Untold = Untold
  Unanswered = Unanswered
  Operations = {1, 2, 4}
  Patterns = {1, 2}
  Preempts = {0, 1}
  Controls = {2, 4}
  SourceModes = {8}
  ActivateErrors = {2, 3}
  MemoryTypes = {3, 7}
  Messages = {1}
  Malformed = Malformed
  Texts = {a}
  NoText = NoText
  Ids = {i1, i2}
  FaultTexts = {x1, x2}
  Identities = {z1, z2}
  Assessments = {minor, major}
  NoSet = NoSet
  Channels = {c1, c2}
  Modulus = 3
  NoSample = NoSample
  MaxPolls = 3
  MaxVehicles = 3
  NoInterval = NoInterval
  MaxInterval = 3
PROPERTIES
  NothingFabricatedBySignal
