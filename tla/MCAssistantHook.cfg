CONSTANTS
  Procs = {p1}
  Pids = {1}
  Uids <- OneUid
  MaxUnshare = 1
  Faults = {"hook"}
  ZygoteNs = ZygoteNs
  NoPid = NoPid
SPECIFICATION Spec
INVARIANTS
  UnshareAlwaysCalled
