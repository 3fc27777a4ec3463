SPECIFICATION Spec
CONSTANTS
  WordsOf <- MCWordsOf
  Unnamed = Unnamed
  BadText = BadText
  Configs <- Configurations
  Identity <- MCIdentity
  KnownKinds = {"asc", "dms", "cctv", "perception", "traffic_sensor", "acme"}
  Readings <- MCReadings
  Absent = Absent
  MaxPolls <- MCMaxPolls
  MaxReports = 1
  MaxLives = 2
INVARIANTS
  EveryEventCounted
  OneStreamEach
  GapMeansLoss
  NothingSwallowed
  PriorsChain
  
CHECK_DEADLOCK FALSE
