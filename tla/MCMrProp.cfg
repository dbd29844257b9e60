CONSTANTS
  Workers = {w1, w2}
  Props <- MCProps
  ReadOnly = {"ro.a", "ro.b"}
  Long = {"ro.b"}
  Strings <- MCStrings
  PropValueMax = 3
  MaxSets = 2
  Scripts <- MCScripts
SPECIFICATION BootSpec
SYMMETRY WorkerSymmetry
INVARIANTS
  BootTypeOK
  ValuesKept
  CopyContract
  TracesGone
  Sanitised
PROPERTIES
  OthersUntouched
