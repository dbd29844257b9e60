---------------------------- MODULE ZygiskModule ----------------------------
(***************************************************************************)
(* class ZygiskModule, the two PLT hooks and the callback of                *)
(* src/module/jni/main.cpp: what runs inside a process Zygote has forked,   *)
(* between preAppSpecialize and the dlclose of the library, interleaved     *)
(* with what Zygote itself does in that process.                            *)
(***************************************************************************)
EXTENDS Platform

VARIABLE app   \* app[p]: process p, a member of Apps

Syms       == {"unshare", "setresuid"}
CloneFlags == {"CLONE_NEWNS", "CLONE_OTHER"}
InCallback == {"ns", "write", "read", "close", "unmount", "hide"}
Stages     == {"unborn", "loaded", "zygote", "ret", "dropped", "post",
               "running", "dead"} \cup InCallback
LibStates  == {"loaded", "dlclose", "unmapped"}  \* dlclose: marked for it
SlotTables == [Syms -> {"orig", "new"}]
Callbacks  == {"armed", "noop"}
FdUses     == {"none", "open", "closed", "reused"}
HookNames  == Syms \cup {"none"}
FdTables   == [FdKinds -> FdStates]
Logged     == SUBSET FaultNames

(* What getFlags returns is a set of these. *)
StateFlag == {"PROCESS_GRANTED_ROOT", "PROCESS_ON_DENYLIST"}
Requests  == [flags : SUBSET StateFlag, uid : Uids]

Apps ==
  [stage  : Stages,
   pid    : MaybePid,
   asked  : SUBSET Requests,    \* what preAppSpecialize was called for
   target : BOOLEAN,            \* preAppSpecialize processed it
   lib    : LibStates,
   got    : SlotTables,         \* libandroid_runtime.so's PLT slots
   cb     : Callbacks,          \* callbackFunction
   cfd    : FdUses,             \* what companionFd stands for
   hook   : HookNames,          \* the hooked call it is in,
   flags  : SUBSET CloneFlags,  \*   with unshare's flags
   calls  : 0..MaxUnshare,      \* unshare calls by Zygote
   told   : BOOLEAN,            \* unshare(CLONE_NEWNS) reported success
   fds    : FdTables,
   srr    : SUBSET FdKinds,     \* what ScopedRegularReopener captured
   res    : BOOLEAN,            \* the callback's result
   priv   : BOOLEAN,            \* it still has Zygote's capabilities
   stray  : BOOLEAN,            \* the callback used a descriptor not its own
   errs   : Logged]             \* failures ASSERT_LOG and ASSERT_DO logged

ModuleTypeOK == app \in [Procs -> Apps]

ModuleInit ==
  app = [p \in Procs |->
          [stage |-> "unborn", pid |-> NoPid, asked |-> {}, target |-> FALSE,
           lib |-> "loaded", got |-> [s \in Syms |-> "orig"], cb |-> "noop",
           cfd |-> "none", hook |-> "none", flags |-> {}, calls |-> 0,
           told |-> FALSE, fds |-> [k \in FdKinds |-> "current"],
           srr |-> {}, res |-> FALSE, priv |-> TRUE, stray |-> FALSE,
           errs |-> {}]]

Failed(tag, ok) == IF ok THEN {} ELSE {tag}

-----------------------------------------------------------------------------
(* Which processes are processed.                                           *)

(* C's remainder, which takes the sign of the dividend. *)
CRem(a, b) == IF a >= 0 THEN a % b ELSE -((-a) % b)

AID_USER_OFFSET == 100000
AppIds          == 10000..19999
IsolatedIds     == 90000..99999

isUserAppUID(uid) == CRem(uid, AID_USER_OFFSET) \in AppIds \cup IsolatedIds

(* A mutant: the uid is not looked at. *)
ShouldProcessAnyUid(flags, uid) ==
  "PROCESS_GRANTED_ROOT" \notin flags /\ "PROCESS_ON_DENYLIST" \in flags

(* A mutant: an app that was granted root is processed too. *)
ShouldProcessRoot(flags, uid) ==
  "PROCESS_ON_DENYLIST" \in flags /\ isUserAppUID(uid)

ShouldProcess(flags, uid) ==
  /\ "PROCESS_GRANTED_ROOT" \notin flags
  /\ "PROCESS_ON_DENYLIST" \in flags
  /\ isUserAppUID(uid)

-----------------------------------------------------------------------------
(* Before specialisation.                                                   *)

(* Zygote forks p and Zygisk loads the library into it (entry_impl registers *)
(* the module and onLoad stores the API handle).  The kernel gives p a pid   *)
(* that no living process has, and a pid used before only when the pid       *)
(* counter has wrapped.                                                      *)
Fork(p) ==
  /\ app[p].stage = "unborn"
  /\ \E i \in Pids :
       /\ \A q \in Procs :
            app[q].pid = i => app[q].stage = "dead" /\ "pidreuse" \in Faults
       /\ app' = [app EXCEPT ![p].stage = "loaded", ![p].pid = i]
  /\ UNCHANGED <<mountVars, sock>>

(* entry_impl where registerModule refuses: onLoad is not called, and none   *)
(* of the handlers ever is.                                                  *)
RegisterFails(p) ==
  /\ "register" \in Faults
  /\ app[p].stage = "loaded"
  /\ app' = [app EXCEPT ![p].stage = "zygote"]
  /\ UNCHANGED <<mountVars, sock>>

PreServerSpecialize(p) ==
  /\ app[p].stage = "loaded"
  /\ app' = [app EXCEPT ![p].stage = "zygote", ![p].lib = "dlclose"]
  /\ UNCHANGED <<mountVars, sock>>

(* Utils::hookPLTByName and pltHookCommit: a commit that reports an error    *)
(* may or may not have replaced the slot.  old_<sym> is set exactly when the *)
(* slot was replaced.                                                        *)
HookOutcomes ==
  {[ok |-> TRUE, slot |-> "new"]} \cup
  (IF "hook" \in Faults THEN [ok : {FALSE}, slot : {"orig", "new"}] ELSE {})

(* A mutant: setresuid is never hooked. *)
SetresuidUnhooked(u, s) == "orig"

(* The second hook is installed only after the first has succeeded. *)
SetresuidSlot(u, s) == IF u.ok THEN s.slot ELSE "orig"

(* A mutant: a failed connection returns instead of being logged. *)
ArmedIfConnected(hooked, connected) == IF connected THEN "armed" ELSE "noop"

(* The callback is set once both hooks are in, with or without a companion. *)
ArmedCallback(hooked, connected) == IF hooked THEN "armed" ELSE "noop"

(* u and s are the outcomes of the two hooks, conn that of connectCompanion, *)
(* ex that of exemptFd.  A failed hook returns at once, a failed connection  *)
(* or exemption is only logged.  r is what p is being specialised for.       *)
InstallHooks(p, r, u, s, conn, ex) ==
  LET hooked    == u.ok /\ s.ok
      connected == hooked /\ conn
  IN  /\ app' = [app EXCEPT ![p] =
           [app[p] EXCEPT !.stage = "zygote", !.lib = "dlclose",
                          !.asked = {r}, !.target = TRUE,
                          !.got  = [unshare |-> u.slot, setresuid |-> SetresuidSlot(u, s)],
                          !.cb   = ArmedCallback(hooked, connected),
                          !.cfd  = IF connected THEN "open" ELSE "none",
                          !.errs = app[p].errs \cup Failed("hook", hooked)
                                     \cup Failed("connect", hooked => conn)
                                     \cup Failed("exempt", hooked => conn /\ ex)]]
      /\ sock' = [sock EXCEPT ![p].open = IF connected THEN SockEnds ELSE {}]

PreAppSpecialize(p) ==
  /\ app[p].stage = "loaded"
  /\ \E r \in Requests :
       \/ /\ ~ShouldProcess(r.flags, r.uid)
          /\ app' = [app EXCEPT ![p].stage = "zygote", ![p].lib = "dlclose",
                                ![p].asked = {r}]
          /\ UNCHANGED sock
       \/ /\ ShouldProcess(r.flags, r.uid)
          /\ \E u, s \in HookOutcomes,
                conn \in Returns("connect"), ex \in Returns("exempt") :
               InstallHooks(p, r, u, s, conn, ex)
  /\ UNCHANGED mountVars

-----------------------------------------------------------------------------
(* What Zygote does in p, and the two hooks.                                *)

(* Zygote closes a descriptor that was not exempted; its number may be given *)
(* to a file p opens afterwards.                                             *)
ZygoteClosesFd(p) ==
  /\ app[p].stage = "zygote"
  /\ app[p].cfd = "open"
  /\ "exempt" \in app[p].errs
  /\ \E c \in {"closed", "reused"} : app' = [app EXCEPT ![p].cfd = c]
  /\ sock' = [sock EXCEPT ![p].open = @ \ {"app"}]
  /\ UNCHANGED mountVars

(* A mutant: the is_sock test is left out. *)
ReopenableSock == {k \in FdKinds : k # "memfd"}

(* Only regular files that are not memfds are captured. *)
Reopenable == {k \in FdKinds : k # "sock" /\ k # "memfd"}

(* callbackFunction() at the top of both hooks: the armed lambda first puts  *)
(* the empty one in its own place and then captures the open descriptors.    *)
EnterHook(p, sym, f, n) ==
  \E ok \in Returns("reopen") :
    app' = [app EXCEPT
              ![p].hook = sym, ![p].flags = f, ![p].calls = n,
              ![p].cb = "noop",
              ![p].srr   = IF app[p].cb = "armed" /\ ok THEN Reopenable ELSE @,
              ![p].errs  = IF app[p].cb = "armed" THEN @ \cup Failed("reopen", ok)
                                                  ELSE @,
              ![p].stage = IF app[p].cb = "armed" THEN "ns" ELSE "ret"]

(* Zygote calls unshare: the kernel's, or new_unshare where it is hooked. *)
CallUnshare(p, f) ==
  /\ app[p].stage = "zygote"
  /\ app[p].calls < MaxUnshare
  /\ \/ /\ app[p].got["unshare"] = "orig"
        /\ IF "CLONE_NEWNS" \in f
             THEN /\ ns' = [ns EXCEPT ![p] = p]
                  /\ app' = [app EXCEPT ![p].calls = @ + 1, ![p].told = TRUE,
                                        ![p].fds = AfterUnshare(@)]
             ELSE /\ app' = [app EXCEPT ![p].calls = @ + 1]
                  /\ UNCHANGED ns
     \/ /\ app[p].got["unshare"] = "new"
        /\ EnterHook(p, "unshare", f, app[p].calls + 1)
        /\ UNCHANGED ns
  /\ UNCHANGED <<slave, clean, sock>>

(* A mutant: new_setresuid calls old_setresuid first. *)
CallSetresuidFirst(p) ==
  /\ app[p].stage = "zygote"
  /\ app' = [app EXCEPT ![p].priv = FALSE,
                        ![p].stage = IF app[p].cb = "armed" THEN "ns" ELSE "dropped",
                        ![p].hook = IF app[p].cb = "armed" THEN "setresuid" ELSE @,
                        ![p].cb = "noop"]
  /\ UNCHANGED <<mountVars, sock>>

(* Zygote calls setresuid, which it does in every process. *)
CallSetresuid(p) ==
  /\ app[p].stage = "zygote"
  /\ \/ /\ app[p].got["setresuid"] = "orig"
        /\ app' = [app EXCEPT ![p].stage = "dropped", ![p].priv = FALSE]
     \/ /\ app[p].got["setresuid"] = "new"
        /\ EnterHook(p, "setresuid", {}, app[p].calls)
  /\ UNCHANGED <<mountVars, sock>>

(* flags &= ~(CLONE_NEWNS) *)
Stripped(f) == f \ {"CLONE_NEWNS"}

(* The rest of new_unshare: old_unshare gets the stripped flags, or is       *)
(* skipped and 0 returned when no flag is left.                              *)
ReturnFromUnshare(p) ==
  LET f == app[p].flags
      again == "CLONE_NEWNS" \in Stripped(f)
  IN  /\ app[p].stage = "ret"
      /\ app[p].hook = "unshare"
      /\ app' = [app EXCEPT ![p].stage = "zygote",
                            ![p].hook = "none", ![p].flags = {},
                            ![p].told = @ \/ "CLONE_NEWNS" \in f,
                            ![p].fds = IF again THEN AfterUnshare(@) ELSE @]
      /\ ns' = [ns EXCEPT ![p] = IF again THEN p ELSE @]
      /\ UNCHANGED <<slave, clean, sock>>

(* The rest of new_setresuid: old_setresuid drops the capabilities. *)
ReturnFromSetresuid(p) ==
  /\ app[p].stage = "ret"
  /\ app[p].hook = "setresuid"
  /\ app' = [app EXCEPT ![p].stage = "dropped", ![p].hook = "none",
                        ![p].priv = FALSE]
  /\ UNCHANGED <<mountVars, sock>>

-----------------------------------------------------------------------------
(* The callback.                                                            *)

(* ~ScopedRegularReopener, at every return of the callback: fds are the      *)
(* descriptors at that moment, tags what has been logged in this step.       *)
LeaveScope(p, fds, tags) ==
  \E ok \in Returns("reopen") :
    app' = [app EXCEPT
              ![p].stage = "ret",
              ![p].errs  = @ \cup tags \cup Failed("reopen", ok),
              ![p].fds   = [k \in FdKinds |-> IF ok /\ k \in app[p].srr
                                                THEN ReopenOrDetach(k, fds[k])
                                                ELSE fds[k]]]

(* A mutant: the root stays a peer of Zygote's. *)
MakeSlaveForgotten(p) == UNCHANGED slave

(* mount("rootfs", "/", NULL, MS_SLAVE | MS_REC, NULL) *)
MakeSlave(p) == slave' = slave \cup {p}

(* new_mount_ns: unshare and then MS_SLAVE | MS_REC on the root.  Either may *)
(* fail, and then the callback returns.  Where it succeeds and there is no   *)
(* companion the callback falls back to doUnmount.                           *)
NewMountNs(p) ==
  /\ app[p].stage = "ns"
  /\ \/ /\ "unshare" \in Faults
        /\ LeaveScope(p, app[p].fds, {"unshare"})
        /\ UNCHANGED <<ns, slave>>
     \/ /\ "slave" \in Faults
        /\ ns' = [ns EXCEPT ![p] = p]
        /\ LeaveScope(p, AfterUnshare(app[p].fds), {"slave"})
        /\ UNCHANGED slave
     \/ /\ ns'    = [ns EXCEPT ![p] = p]
        /\ MakeSlave(p)
        /\ app'   = [app EXCEPT
                       ![p].fds = AfterUnshare(@),
                       ![p].stage = IF app[p].cfd = "none" THEN "unmount"
                                                           ELSE "write"]
  /\ UNCHANGED <<clean, sock>>

(* write(fd, &pid, sizeof(pid)).  It fails on a closed descriptor and when   *)
(* the companion has hung up; on a descriptor whose number was reused it     *)
(* goes to another file.                                                     *)
WritePid(p) ==
  LET fd == app[p].cfd
  IN  /\ app[p].stage = "write"
      /\ \/ /\ fd = "reused" \/ (fd = "open" /\ ~HungUp(p))
            /\ app' = [app EXCEPT ![p].stage = "read",
                                  ![p].stray = fd = "reused"]
            /\ sock' = [sock EXCEPT ![p].req =
                                      IF fd = "open" THEN app[p].pid ELSE @]
         \/ /\ fd # "open" \/ HungUp(p) \/ "write" \in Faults
            /\ app' = [app EXCEPT ![p].stage = "close",
                                  ![p].stray = fd = "reused",
                                  ![p].errs = @ \cup {"write"}]
            /\ UNCHANGED sock
      /\ UNCHANGED mountVars

(* A mutant: the read is tried again until there is an answer. *)
ReadResultRetried(p) ==
  /\ app[p].stage = "read"
  /\ \E r \in (IF app[p].cfd = "open" THEN sock[p].rep ELSE BOOLEAN) :
       /\ app' = [app EXCEPT ![p].stage = "close", ![p].res = r]
       /\ sock' = [sock EXCEPT ![p].rep = {}]
  /\ UNCHANGED mountVars

(* read(fd, &result, sizeof(result)): blocks until the companion answers or  *)
(* hangs up.                                                                 *)
ReadResult(p) ==
  LET fd == app[p].cfd
  IN  /\ app[p].stage = "read"
      /\ \/ \E r \in (IF fd = "open" THEN sock[p].rep ELSE BOOLEAN) :
              /\ app' = [app EXCEPT ![p].stage = "close", ![p].res = r]
              /\ sock' = [sock EXCEPT ![p].rep = {}]
         \/ /\ \/ fd # "open"
               \/ sock[p].rep = {} /\ HungUp(p)
               \/ "read" \in Faults
            /\ app' = [app EXCEPT ![p].stage = "close",
                                  ![p].errs = @ \cup {"read"}]
            /\ UNCHANGED sock
      /\ UNCHANGED mountVars

(* A mutant: a failed companion is only logged. *)
NoFallback(result) == "hide"

(* The rest of the callback: success, or the fallback. *)
AfterCompanion(result) == IF result THEN "hide" ELSE "unmount"

(* A mutant: a break out of the loop skips the close. *)
CloseFdOnSuccess(p) ==
  /\ app[p].stage = "close"
  /\ app' = [app EXCEPT ![p].cfd = IF app[p].res THEN "closed" ELSE @,
                        ![p].stage = AfterCompanion(app[p].res)]
  /\ UNCHANGED <<mountVars, sock>>

(* close(fd) *)
CloseFd(p) ==
  /\ app[p].stage = "close"
  /\ app' = [app EXCEPT ![p].cfd = "closed",
                        ![p].stage = AfterCompanion(app[p].res)]
  /\ sock' = [sock EXCEPT ![p].open = @ \ {"app"}]
  /\ UNCHANGED mountVars

(* The fallback's doUnmount ends; "unmount" is the time it takes. *)
DoUnmount(p) ==
  /\ app[p].stage = "unmount"
  /\ clean' = clean \cup Propagated(ns[p])
  /\ app' = [app EXCEPT ![p].stage = "hide"]
  /\ UNCHANGED <<ns, slave, sock>>

(* doHideZygisk changes only libnativebridge.so's .bss; the callback returns. *)
DoHideZygisk(p) ==
  /\ app[p].stage = "hide"
  /\ LeaveScope(p, app[p].fds, {})
  /\ UNCHANGED <<mountVars, sock>>

-----------------------------------------------------------------------------
(* After specialisation.                                                    *)

(* A mutant: setresuid is not pointed back. *)
HookedUnshare(p) == {s \in {"unshare"} : app[p].got[s] = "new"}

(* The symbols whose old_ pointer is set: those whose slot was replaced. *)
Hooked(p) == {s \in Syms : app[p].got[s] = "new"}

(* Each slot that was replaced is pointed back; a failure is only logged. *)
PostAppSpecialize(p) ==
  /\ app[p].stage = "dropped"
  /\ \E stuck \in SUBSET Hooked(p) :
       /\ stuck # {} => "unhook" \in Faults
       /\ app' = [app EXCEPT
                    ![p].stage = "post",
                    ![p].got   = [s \in Syms |->
                                    IF s \in Hooked(p) \ stuck THEN "orig" ELSE @[s]],
                    ![p].errs  = @ \cup Failed("unhook", stuck = {})]
  /\ UNCHANGED <<mountVars, sock>>

(* Zygisk unmaps the library where DLCLOSE_MODULE_LIBRARY was set. *)
DlClose(p) ==
  /\ app[p].stage = "post"
  /\ app' = [app EXCEPT ![p].stage = "running",
                        ![p].lib = IF @ = "dlclose" THEN "unmapped" ELSE @]
  /\ UNCHANGED <<mountVars, sock>>

(* The app exits, or is killed while it is being specialised. *)
Die(p) ==
  /\ \/ app[p].stage = "running"
     \/ "kill" \in Faults /\ app[p].stage \notin {"unborn", "dead"}
  /\ app' = [app EXCEPT ![p].stage = "dead"]
  /\ sock' = [sock EXCEPT ![p].open = @ \ {"app"}]
  /\ UNCHANGED mountVars

(* Everything that happens in p, short of its death. *)
AppStep(p) ==
  \/ Fork(p)
  \/ RegisterFails(p)
  \/ PreServerSpecialize(p)
  \/ PreAppSpecialize(p)
  \/ ZygoteClosesFd(p)
  \/ \E f \in SUBSET CloneFlags \ {{}} : CallUnshare(p, f)
  \/ CallSetresuid(p)
  \/ ReturnFromUnshare(p)
  \/ ReturnFromSetresuid(p)
  \/ NewMountNs(p)
  \/ WritePid(p)
  \/ ReadResult(p)
  \/ CloseFd(p)
  \/ DoUnmount(p)
  \/ DoHideZygisk(p)
  \/ PostAppSpecialize(p)
  \/ DlClose(p)
=============================================================================
