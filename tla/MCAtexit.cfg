CONSTANTS
  InitialCapacity = 1
  MaxCount = 6
  MaxDepth = 3
SPECIFICATION FairSpec
INVARIANTS
  TypeOK
  CalledOnce
  AllCalled
  WithinBlock
PROPERTIES
  RunsInOrder
  UnloadEnds
