CONSTANTS
  Images <- LldImages
  Bases <- MCBases
  Others <- MCOthers
  Top = 12
SPECIFICATION Spec
INVARIANTS
  TypeOK
  HideReturns
PROPERTIES
  OnlyBssWritten
  HadErrorReset
