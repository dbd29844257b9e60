CONSTANTS
  Procs = {p1}
  Pids = {1}
  Uids <- OneUid
  MaxUnshare = 1
  Faults = {"setns"}
  ZygoteNs = ZygoteNs
  NoPid = NoPid
SPECIFICATION Spec
INVARIANTS
  SuccessMeansUnmounted
