CONSTANTS
  Tokens <- MCTokens
  Unmounters = {child}
  Tables <- LeftTables
  Arrivals <- NoArrivals
  MaxEvents = 0
SPECIFICATION Spec
INVARIANTS
  AllUnmounted
