CONSTANTS
  Images <- OldImages
  Bases <- MCBases
  Others <- MCOthers
  Top = 12
SPECIFICATION Spec
INVARIANTS
  StateSafe
