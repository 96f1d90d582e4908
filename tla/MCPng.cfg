SPECIFICATION Spec
CONSTANTS
  Pictures <- MCPictures
  Settings <- MCSettings
  Damages <- MCDamages
  SmallCodes <- MCSmallCodes
  WindowSize = 16
  NiceMatch = 12
  MinBlock = 32
  MaxBlock = 64
  MaxStored = 40
INVARIANTS
  PictureSurvives
  MatchesAreTrue
  CodesAreOptimal
PROPERTIES
  CallsReturn
