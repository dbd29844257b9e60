------------------------------ MODULE Assistant ------------------------------
(***************************************************************************)
(* The composition: processes that Zygote specialises, each with the        *)
(* library loaded (ZygiskModule), and the root companion daemon that serves *)
(* their connections (Companion), over one kernel (Platform).               *)
(***************************************************************************)
EXTENDS ZygiskModule, Companion

vars == <<ns, slave, clean, sock, app, comp>>

Init == PlatformInit /\ ModuleInit /\ CompanionInit

(* The namespaces of the living processes whose pid is i. *)
HoldersOf(i) ==
  {ns[q] : q \in {r \in Procs : /\ app[r].pid = i
                                /\ app[r].stage \notin {"unborn", "dead"}}}

Handler(p) == HandlerStep(p) /\ UNCHANGED app
Child(p)   == ChildStep(p, HoldersOf(comp[p].pid)) /\ UNCHANGED app

(* Nothing is left to do: every process is gone and every handler returned. *)
Terminated ==
  /\ \A p \in Procs : /\ app[p].stage = "dead"
                      /\ comp[p].stage \in {"idle", "done"}
                      /\ comp[p].child \notin ChildWorks
  /\ UNCHANGED vars

Next ==
  \/ \E p \in Procs : AppStep(p) /\ UNCHANGED comp
  \/ \E p \in Procs : Die(p) /\ UNCHANGED comp
  \/ \E p \in Procs : Handler(p)
  \/ \E p \in Procs : Child(p)
  \/ \E p \in Procs : ChildKilled(p) /\ UNCHANGED app
  \/ DaemonDies /\ UNCHANGED app
  \/ Terminated

(* What a blocking read or waitpid waits for is there.  The call may fail    *)
(* before, but nothing obliges it to.                                        *)
AppUnblocked(p) ==
  app[p].stage = "read"
    => app[p].cfd # "open" \/ sock[p].rep # {} \/ HungUp(p)
HandlerUnblocked(p) ==
  /\ comp[p].stage = "read" => sock[p].req # NoPid \/ "app" \notin sock[p].open
  /\ comp[p].stage = "wait" => comp[p].child \in ChildEnded

(* Zygote goes on with a specialisation it has begun, the daemon's threads   *)
(* and their children are scheduled.  Nothing obliges a process to be        *)
(* forked or to die.                                                         *)
Fairness ==
  \A p \in Procs :
    /\ WF_vars(app[p].stage # "unborn" /\ AppUnblocked(p) /\ AppStep(p) /\ UNCHANGED comp)
    /\ WF_vars(HandlerUnblocked(p) /\ Handler(p))
    /\ WF_vars(Child(p))

Spec     == Init /\ [][Next]_vars
FairSpec == Spec /\ Fairness

TypeOK == PlatformTypeOK /\ ModuleTypeOK /\ CompanionTypeOK

-----------------------------------------------------------------------------
(* Safety.                                                                  *)

Alive(p) == app[p].stage \notin {"unborn", "dead"}

(* A hook or new_mount_ns failed, the child that could not switch namespace  *)
(* was taken for success, or the callback had another file's descriptor.     *)
GivenUp(p) ==
  \/ app[p].errs \cap {"hook", "unshare", "slave"} # {}
  \/ comp[p].child = "exit1"
  \/ app[p].stray

(* No unmount reaches Zygote's namespace, from which every app inherits its  *)
(* mounts: doUnmount runs only where new_mount_ns has succeeded, in the      *)
(* process itself and in the child that its pid led to.  It needs a pid that *)
(* is not given to a second process before switchMountNS has used it.        *)
ZygoteNamespaceIntact == ZygoteNs \notin clean

(* While the process that asked is alive, the companion's child works in     *)
(* that process's own namespace, and that namespace propagates nowhere.      *)
ChildServesRequester ==
  \A p \in Procs :
    comp[p].child \in ChildWorks \ {"setns"} /\ Alive(p)
      => comp[p].childNs = p /\ ns[p] = p /\ p \in slave

(* The child works on the namespace only while the callback waits for the    *)
(* answer, so the fallback's doUnmount does not run beside it: unless the    *)
(* read failed of itself, or the handler answered because its waitpid had    *)
(* failed.  When the daemon dies the child still has the socket's other end, *)
(* and the read goes on until the child has ended.                           *)
ChildWorksOnlyWhileAppWaits ==
  \A p \in Procs :
    comp[p].child \in ChildWorks /\ Alive(p)
      => \/ app[p].stage = "read"
         \/ "read" \in app[p].errs \cap Faults
         \/ /\ comp[p].stage = "done" /\ comp[p].status = -1
            /\ "read" \notin app[p].errs

(* The uids of apps and of isolated services: every user has 100000 of its   *)
(* own, in which these lie at the same places.                               *)
OfUserApp(uid) ==
  /\ uid >= 0
  /\ \/ uid - 100000 * (uid \div 100000) \in 10000..19999
     \/ uid - 100000 * (uid \div 100000) \in 90000..99999

(* The processes that are to be hidden, by what Zygisk was asked for: apps   *)
(* and isolated services of any user, on the denylist, without root.         *)
ToBeHidden(p) ==
  \E r \in app[p].asked :
    /\ "PROCESS_ON_DENYLIST" \in r.flags /\ "PROCESS_GRANTED_ROOT" \notin r.flags
    /\ OfUserApp(r.uid)

(* A process that was to be hidden reaches app code in a namespace of its    *)
(* own that has been through doUnmount, whatever the companion does: only a  *)
(* failed hook, a failed new_mount_ns, a child that could not switch         *)
(* namespace or a descriptor that is not the companion's prevents it.        *)
HiddenUnlessLogged ==
  \A p \in Procs :
    ToBeHidden(p) /\ ~app[p].priv /\ Alive(p)
      => (ns[p] = p /\ p \in slave /\ p \in clean) \/ GivenUp(p)

(* Any other process, at the ends of the uid ranges and below zero too, is   *)
(* left as if the library were not there: no slot is replaced, no callback   *)
(* armed, no companion asked, no namespace made a slave or unmounted in,     *)
(* whatever the companion does for the others; a child with a stale pid, and *)
(* nothing else, may get into its namespace, from a process that had that    *)
(* pid before.                                                               *)
UserAppsOnly ==
  \A p \in Procs : ~ToBeHidden(p) =>
    /\ \A s \in Syms : app[p].got[s] = "orig"
    /\ app[p].cb = "noop" /\ app[p].stage \notin InCallback
    /\ sock[p].open = {} /\ comp[p].stage = "idle"
    /\ p \notin slave
    /\ p \in clean => \E q \in Procs \ {p} : app[q].pid = app[p].pid /\ ToBeHidden(q)

(* When Zygote is told that unshare(CLONE_NEWNS) succeeded the process is    *)
(* out of Zygote's namespace, unless a hook or the unshare itself failed.    *)
UnshareHonoured ==
  \A p \in Procs :
    app[p].told /\ ns[p] = ZygoteNs => app[p].errs \cap {"hook", "unshare"} # {}

(* Outside the callback no descriptor of a file is left behind in a          *)
(* namespace the hooked process has quit (unless reopening failed), and no   *)
(* socket has been detached.                                                 *)
DescriptorsFollow ==
  \A p \in Procs :
    /\ \/ app[p].fds["file"] = "current"
       \/ ~app[p].target
       \/ app[p].stage \in InCallback \/ ~Alive(p)
       \/ app[p].errs \cap {"hook", "reopen"} # {}
    /\ app[p].fds["sock"] = "current"

(* The callback runs with Zygote's capabilities and never stays armed in a   *)
(* process that has lost them.                                               *)
CallbackPrivileged ==
  \A p \in Procs :
    (app[p].stage \in InCallback \/ app[p].cb = "armed") /\ Alive(p)
      => app[p].priv

(* After the dlclose no slot points into the unmapped library, unless        *)
(* pointing it back failed.                                                  *)
NoDanglingHook ==
  \A p \in Procs :
    app[p].lib = "unmapped" /\ (\E s \in Syms : app[p].got[s] = "new")
      => "unhook" \in app[p].errs

(* App code never inherits the socket to the root companion, unless          *)
(* new_mount_ns failed, whose early return skips the close.                  *)
CompanionFdReleased ==
  \A p \in Procs :
    app[p].stage = "running" /\ app[p].cfd \in {"open", "reused"}
      => app[p].errs \cap {"unshare", "slave"} # {}

-----------------------------------------------------------------------------
(* Refinement.                                                              *)

Phase(p) ==
  IF ~app[p].priv THEN "app"
  ELSE IF p \notin slave THEN "zygote"
  ELSE IF p \in clean THEN "emptied" ELSE "isolated"

Promise == INSTANCE Hiding WITH
  Processes <- Procs,
  phase   <- [p \in Procs |-> Phase(p)],
  wanted  <- {p \in Procs : app[p].target},
  excused <- {p \in Procs : GivenUp(p)}

(* The hooks, the callback and the companion together do what Hiding says,   *)
(* in its order and whatever fails: no process becomes an app between two of *)
(* its stages, none is emptied before its namespace is its own, and nothing  *)
(* is undone later.                                                          *)
HidesInOrder == Promise!Spec

-----------------------------------------------------------------------------
(* Liveness.                                                                *)

(* A forked process becomes an app, or is killed: neither the hooks nor the  *)
(* companion keep it waiting for ever.                                       *)
SpecializationEnds ==
  \A p \in Procs : app[p].stage = "loaded" ~> app[p].stage \in {"running", "dead"}

(* A handler thread that was started for a connection returns, whatever the  *)
(* process at the other end does: only a failed new_mount_ns, whose early    *)
(* return leaves the socket open and unused, keeps it in its read for as     *)
(* long as the process lives.                                                *)
HandlerReturns ==
  \A p \in Procs :
    comp[p].stage = "read" ~>
      \/ comp[p].stage = "done"
      \/ app[p].errs \cap {"unshare", "slave"} # {}

-----------------------------------------------------------------------------
(* What the comments say and the code does not do; see the findings.        *)

(* "Invoking the companion was successful." (main.cpp:135): the namespace    *)
(* has been through doUnmount.                                               *)
SuccessMeansUnmounted ==
  \A p \in Procs : app[p].res => p \in clean

(* "Android's use of unshare changes with each major version, so we always   *)
(* call unshare" (main.cpp:27): a process whose Zygote asked for a mount     *)
(* namespace has one.                                                        *)
UnshareAlwaysCalled ==
  \A p \in Procs : app[p].told => ns[p] = p
=============================================================================
