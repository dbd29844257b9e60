CONSTANTS
  Tokens <- MCTokens
  Unmounters = {child, app}
  Tables <- MCTables
  Arrivals <- MCArrivals
  MaxEvents = 1
SPECIFICATION Spec
INVARIANTS
  TypeOK
  BystandersStay
  ModuleMountsGone
  ModuleMountsRecognised
  OverlaysRecognised
