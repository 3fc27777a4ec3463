SPECIFICATION StandingSpec
CONSTANTS
  Ids = {i1, i2}
  FaultTexts = {x1, x2}
  Identities = {z1, z2}
  Assessments = {minor, major}
  NoSet = NoSet
PROPERTIES
  NeverRelabelled
