CONSTANTS
  Procs = {p1}
  Pids = {1}
  Uids <- MCUids
  MaxUnshare = 2
  Faults <- AllFaults
  ZygoteNs = ZygoteNs
  NoPid = NoPid
SPECIFICATION FairSpec
INVARIANTS
  TypeOK
  ZygoteNamespaceIntact
  HiddenUnlessLogged
  UserAppsOnly
  UnshareHonoured
  DescriptorsFollow
  CallbackPrivileged
  NoDanglingHook
  CompanionFdReleased
PROPERTIES
  HidesInOrder
  SpecializationEnds
  HandlerReturns
