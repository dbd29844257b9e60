------------------------------ MODULE Companion ------------------------------
(***************************************************************************)
(* zygisk_companion_handler of src/module/jni/main.cpp with                 *)
(* Utils::forkAndInvoke and Utils::switchMountNS of utils.cpp: the root     *)
(* companion daemon runs one handler thread per connection, and every       *)
(* handler forks a child that enters the requester's mount namespace.       *)
(***************************************************************************)
EXTENDS Platform

VARIABLE comp   \* comp[p]: what serves p's connection, a member of Comps

ChildWorks   == {"setns", "unmount", "remount", "mrprop"}
ChildEnded   == {"exit0", "exit1", "killed"}
ChildStates  == {"none"} \cup ChildWorks \cup ChildEnded
HandlerSteps == {"idle", "read", "fork", "wait", "reply", "done"}
Statuses     == {-1, 0, 9, 256}

Comps ==
  [stage   : HandlerSteps,
   pid     : MaybePid,      \* the pid read from the socket
   child   : ChildStates,
   childNs : Namespaces,    \* where the child is
   status  : Statuses]      \* what forkAndInvoke returned

CompanionTypeOK == comp \in [Procs -> Comps]

CompanionInit ==
  comp = [p \in Procs |-> [stage |-> "idle", pid |-> NoPid, child |-> "none",
                           childNs |-> ZygoteNs, status |-> -1]]

(* The status word waitpid stores for a child that has ended. *)
WaitStatus(child) ==
  CASE child = "exit0"  -> 0
    [] child = "exit1"  -> 256
    [] child = "killed" -> 9

(* <sys/wait.h>: the low seven bits of the status word are zero. *)
WIFEXITED(status) == status % 128 = 0

-----------------------------------------------------------------------------
(* The handler thread.  When it returns the daemon closes its end of the    *)
(* socket.                                                                  *)

HangUp(p) == sock' = [sock EXCEPT ![p].open = @ \ {"comp"}]

(* The daemon starts a thread for a connection. *)
Accept(p) ==
  /\ comp[p].stage = "idle"
  /\ "comp" \in sock[p].open
  /\ comp' = [comp EXCEPT ![p].stage = "read"]
  /\ UNCHANGED <<mountVars, sock>>

(* A mutant: pid is static, one variable for all the handler threads. *)
HandlerReadStatic(p) ==
  /\ comp[p].stage = "read"
  /\ sock[p].req # NoPid
  /\ comp' = [q \in Procs |->
                [comp[q] EXCEPT !.stage = IF q = p THEN "fork" ELSE @,
                                !.pid = sock[p].req]]
  /\ sock' = [sock EXCEPT ![p].req = NoPid]
  /\ UNCHANGED mountVars

(* read(fd, &pid, sizeof(pid)): blocks; on a failure, or when the app hung   *)
(* up without writing, the handler returns and answers nothing.              *)
HandlerRead(p) ==
  /\ comp[p].stage = "read"
  /\ \/ /\ sock[p].req # NoPid
        /\ comp' = [comp EXCEPT ![p].stage = "fork", ![p].pid = sock[p].req]
        /\ sock' = [sock EXCEPT ![p].req = NoPid]
     \/ /\ \/ sock[p].req = NoPid /\ "app" \notin sock[p].open
           \/ "hread" \in Faults
        /\ comp' = [comp EXCEPT ![p].stage = "done"]
        /\ HangUp(p)
  /\ UNCHANGED mountVars

(* The connections that the daemon serves. *)
Served == {r \in Procs : "comp" \in sock[r].open /\ comp[r].stage # "idle"}

(* A mutant: the child closes the sockets it has inherited. *)
InheritNothing(p) == UNCHANGED sock

(* A forked child has the daemon's end of every connection, its own one's    *)
(* and those of the other handlers, for as long as it lives.                 *)
Inherit(p) ==
  sock' = [r \in Procs |->
             [sock[r] EXCEPT !.held = IF r \in Served THEN @ \cup {p} ELSE @]]

(* fork(): on failure forkAndInvoke returns -1. *)
HandlerFork(p) ==
  /\ comp[p].stage = "fork"
  /\ \/ /\ comp' = [comp EXCEPT ![p].stage = "wait", ![p].child = "setns"]
        /\ Inherit(p)
     \/ /\ "fork" \in Faults
        /\ comp' = [comp EXCEPT ![p].stage = "reply", ![p].child = "none"]
        /\ UNCHANGED sock
  /\ UNCHANGED mountVars

(* A mutant: waits again until the child has exited. *)
HandlerWaitExited(p) ==
  /\ comp[p].stage = "wait"
  /\ comp[p].child \in {"exit0", "exit1"}
  /\ comp' = [comp EXCEPT ![p].stage = "reply",
                          ![p].status = WaitStatus(comp[p].child)]
  /\ UNCHANGED <<mountVars, sock>>

(* A mutant: WEXITSTATUS(status) is returned instead of the status word. *)
HandlerWaitExitCode(p) ==
  /\ comp[p].stage = "wait"
  /\ comp[p].child \in ChildEnded
  /\ comp' = [comp EXCEPT ![p].stage = "reply",
                          ![p].status = WaitStatus(comp[p].child) \div 256]
  /\ UNCHANGED <<mountVars, sock>>

(* waitpid(pid, &status, 0), whose own result is ignored: when it fails      *)
(* status keeps its initial -1 and the child may still be at work.           *)
HandlerWait(p) ==
  /\ comp[p].stage = "wait"
  /\ \/ /\ comp[p].child \in ChildEnded
        /\ comp' = [comp EXCEPT ![p].stage = "reply",
                                ![p].status = WaitStatus(comp[p].child)]
     \/ /\ "waitpid" \in Faults
        /\ comp' = [comp EXCEPT ![p].stage = "reply"]
  /\ UNCHANGED <<mountVars, sock>>

(* write(fd, &result, sizeof(result)); a failure is only logged. *)
HandlerReply(p) ==
  /\ comp[p].stage = "reply"
  /\ sock' = [sock EXCEPT
                ![p].rep  = IF "app" \in sock[p].open
                              THEN {WIFEXITED(comp[p].status)} ELSE @,
                ![p].open = @ \ {"comp"}]
  /\ comp' = [comp EXCEPT ![p].stage = "done"]
  /\ UNCHANGED mountVars

(* The daemon dies: its ends of all connections are closed and the handlers  *)
(* are gone, but a child that runs goes on, with the ends it has inherited.  *)
(* Zygisk starts a new daemon for later requests.                            *)
DaemonDies ==
  LET cut == {p \in Procs : "comp" \in sock[p].open}
  IN  /\ "daemon" \in Faults
      /\ cut # {}
      /\ comp' = [p \in Procs |-> IF p \in cut
                                    THEN [comp[p] EXCEPT !.stage = "done"]
                                    ELSE comp[p]]
      /\ sock' = [p \in Procs |-> [sock[p] EXCEPT !.open = @ \ {"comp"}]]
      /\ UNCHANGED mountVars

-----------------------------------------------------------------------------
(* The forked child.                                                        *)

(* The child ends, and what it has inherited is closed. *)
EndChild(p, how) ==
  /\ comp' = [comp EXCEPT ![p].child = how]
  /\ sock' = [r \in Procs |-> [sock[r] EXCEPT !.held = @ \ {p}]]

(* switchMountNS(pid): holders are the namespaces of the processes that have *)
(* that pid now.  Without one, or when setns fails, the child exits with 1.  *)
ChildSwitchMountNS(p, holders) ==
  /\ comp[p].child = "setns"
  /\ \/ \E n \in holders :
          /\ comp' = [comp EXCEPT ![p].child = "unmount", ![p].childNs = n]
          /\ UNCHANGED sock
     \/ /\ holders = {} \/ "setns" \in Faults
        /\ EndChild(p, "exit1")
  /\ UNCHANGED mountVars

(* doUnmount ends; child = "unmount" is the time it takes. *)
ChildUnmount(p) ==
  /\ comp[p].child = "unmount"
  /\ clean' = clean \cup Propagated(comp[p].childNs)
  /\ comp' = [comp EXCEPT ![p].child = "remount"]
  /\ UNCHANGED <<ns, slave, sock>>

(* doRemount, then doMrProp and exit(0). *)
ChildFinish(p) ==
  /\ \/ /\ comp[p].child = "remount"
        /\ comp' = [comp EXCEPT ![p].child = "mrprop"]
        /\ UNCHANGED sock
     \/ /\ comp[p].child = "mrprop"
        /\ EndChild(p, "exit0")
  /\ UNCHANGED mountVars

(* A signal ends the child. *)
ChildKilled(p) ==
  /\ "child" \in Faults
  /\ comp[p].child \in ChildWorks
  /\ EndChild(p, "killed")
  /\ UNCHANGED mountVars

HandlerStep(p) ==
  \/ Accept(p)
  \/ HandlerRead(p)
  \/ HandlerFork(p)
  \/ HandlerWait(p)
  \/ HandlerReply(p)

ChildStep(p, holders) ==
  \/ ChildSwitchMountNS(p, holders)
  \/ ChildUnmount(p)
  \/ ChildFinish(p)
=============================================================================
