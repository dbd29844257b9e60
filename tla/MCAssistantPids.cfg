CONSTANTS
  Procs = {p1, p2}
  Pids = {1, 2}
  Uids <- OneUid
  MaxUnshare = 1
  Faults <- PidFaults
  ZygoteNs = ZygoteNs
  NoPid = NoPid
SPECIFICATION Spec
SYMMETRY ProcSymmetry
INVARIANTS
  ChildServesRequester
  ChildWorksOnlyWhileAppWaits
  UserAppsOnly
