------------------------------ MODULE Platform ------------------------------
(***************************************************************************)
(* What the module in src/module/jni takes from outside: the kernel's       *)
(* mount namespaces, descriptors and the Unix socket that                   *)
(* Api::connectCompanion returns.  None of this code is in the repository;  *)
(* it is modelled from how main.cpp, utils.cpp and fd_reopener.cpp use it.  *)
(***************************************************************************)
EXTENDS Integers, FiniteSets

CONSTANTS
  Procs,       \* processes that Zygote forks
  Pids,        \* process ids
  Uids,        \* uids Zygote may specialise a process for
  MaxUnshare,  \* bound on Zygote's calls of unshare in one process
  Faults,      \* the calls that may fail, by the names in FaultNames
  ZygoteNs,    \* Zygote's own mount namespace
  NoPid        \* no pid

FaultNames ==
  {"register", "hook", "connect", "exempt", "unshare", "slave", "write", "read",
   "reopen", "unhook", "hread", "fork", "setns", "child", "waitpid", "daemon", "kill",
   "pidreuse"}

ASSUME PlatformAssumption ==
  /\ Faults \subseteq FaultNames
  /\ MaxUnshare \in Nat
  /\ Uids \subseteq Int
  /\ ZygoteNs \notin Procs
  /\ NoPid \notin Pids

VARIABLES
  ns,      \* ns[p]: the mount namespace p lives in; p names p's own one
  slave,   \* namespaces whose root is MS_SLAVE: nothing propagates out of them
  clean,   \* namespaces doUnmount has been through
  sock     \* sock[p]: p's connection to the companion: the pid in flight,
           \* the answer in flight, the ends that are open in the app and in
           \* the daemon, and the daemon's children that have its end too

mountVars == <<ns, slave, clean>>

Namespaces == Procs \cup {ZygoteNs}
MaybePid   == Pids \cup {NoPid}
SockEnds   == {"app", "comp"}
Sockets    == [req : MaybePid, rep : SUBSET BOOLEAN,
               open : SUBSET SockEnds, held : SUBSET Procs]

PlatformTypeOK ==
  /\ ns    \in [Procs -> Namespaces]
  /\ slave \in SUBSET Namespaces
  /\ clean \in SUBSET Namespaces
  /\ sock  \in [Procs -> Sockets]

PlatformInit ==
  /\ ns    = [p \in Procs |-> ZygoteNs]
  /\ slave = {}
  /\ clean = {}
  /\ sock  = [p \in Procs |-> [req |-> NoPid, rep |-> {}, open |-> {}, held |-> {}]]

(* What a call may return: success, and failure too if it is in Faults. *)
Returns(call) == {TRUE} \cup (IF call \in Faults THEN {FALSE} ELSE {})

(* Nobody has the companion's end of p's connection any more. *)
HungUp(p) == "comp" \notin sock[p].open /\ sock[p].held = {}

(* The namespaces a detach in namespace n reaches.  A namespace made by      *)
(* unshare is a peer of Zygote's until its root becomes MS_SLAVE.            *)
Propagated(n) == {n} \cup (IF n \in slave THEN {} ELSE {ZygoteNs})

-----------------------------------------------------------------------------
(* A process's descriptors, by kind.                                        *)
FdKinds  == {"file", "sock", "memfd"}
FdStates == {"current", "stale", "detached"}

(* A descriptor of a file keeps the mount it was opened through, so a new    *)
(* mount namespace leaves it behind; sockets and memfds have no mount.       *)
AfterUnshare(fds) == [fds EXCEPT !["file"] = "stale"]

(* FileDescriptorInfo::ReopenOrDetach of the fd_utils submodule: a file is   *)
(* opened again by its path, a socket is replaced by /dev/null, and a memfd  *)
(* has no path to open.                                                      *)
ReopenOrDetach(kind, state) ==
  CASE kind = "file" -> "current"
    [] kind = "sock" -> "detached"
    [] OTHER         -> state
=============================================================================
