CONSTANTS
  Workers = {w1, w2}
  FsTypes = {"ext4", "f2fs"}
  MaxEvents = 1
SPECIFICATION Spec
SYMMETRY WorkerSymmetry
INVARIANTS
  TypeOK
  OptionsKept
  ErrorsMatchSuperblock
PROPERTIES
  WritableOnlyWithNeed
