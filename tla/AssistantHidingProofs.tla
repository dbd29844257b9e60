----------------------- MODULE AssistantHidingProofs -----------------------
(***************************************************************************)
(* Where a process is when it becomes an app, what the companion has done   *)
(* for it by then, that no other process is touched, and that the hooks,    *)
(* the callback and the companion together implement Hiding.                *)
(***************************************************************************)
EXTENDS AssistantCourseProofs

-----------------------------------------------------------------------------
(* What each step of a process does to its record, as far as the invariants *)
(* below look at it.                                                        *)

Others(p) == \A q \in Procs \ {p} : app'[q] = app[q]

(* The failures logged in this step are in tags. *)
Logs(p, tags) == /\ app[p].errs \subseteq app'[p].errs
                 /\ app'[p].errs \subseteq app[p].errs \cup tags

(* Only the stage of p moves, from one to the other. *)
Advances(p, from, to) ==
  /\ app[p].stage = from /\ app'[p].stage = to
  /\ UNCHANGED <<app[p].target, app[p].cb, app[p].cfd, app[p].told, app[p].res,
                 app[p].priv, app[p].stray>>

LEMMA BeforeEffect ==
  ASSUME TypeOK, NEW p \in Procs
  PROVE  /\ Fork(p) => Others(p) /\ Advances(p, "unborn", "loaded") /\ Logs(p, {})
         /\ RegisterFails(p) \/ PreServerSpecialize(p)
              => Others(p) /\ Advances(p, "loaded", "zygote") /\ Logs(p, {})
<1>0. app \in [Procs -> Apps] /\ app[p] \in Apps
  BY DEF TypeOK, ModuleTypeOK
<1> USE DEF Others, Advances, Logs
<1>1. ASSUME Fork(p)
      PROVE  Others(p) /\ Advances(p, "unborn", "loaded") /\ Logs(p, {})
  <2>1. PICK i \in Pids : app' = [app EXCEPT ![p].stage = "loaded", ![p].pid = i]
    BY <1>1 DEF Fork
  <2>2. app'[p] = [app[p] EXCEPT !.stage = "loaded", !.pid = i] /\ Others(p)
    BY <1>0, <2>1
  <2> QED BY <1>0, <1>1, <2>2 DEF Apps, Fork
<1>2. ASSUME RegisterFails(p)
      PROVE  Others(p) /\ Advances(p, "loaded", "zygote") /\ Logs(p, {})
  BY <1>0, <1>2 DEF RegisterFails, Apps
<1>3. ASSUME PreServerSpecialize(p)
      PROVE  Others(p) /\ Advances(p, "loaded", "zygote") /\ Logs(p, {})
  BY <1>0, <1>3 DEF PreServerSpecialize, Apps
<1> QED BY <1>1, <1>2, <1>3

(* preAppSpecialize either leaves the process alone, or takes it as a target *)
(* with the callback armed exactly where both hooks are in.                  *)
LEMMA PreAppEffect ==
  ASSUME TypeOK, CourseInv, NEW p \in Procs, PreAppSpecialize(p)
  PROVE  /\ Others(p)
         /\ \/ Advances(p, "loaded", "zygote") /\ Logs(p, {}) /\ UNCHANGED sock
            \/ /\ app[p].stage = "loaded" /\ app'[p].stage = "zygote"
               /\ app'[p].target
               /\ app'[p].cb = IF "hook" \in app'[p].errs THEN "noop" ELSE "armed"
               /\ app'[p].cfd \in {"none", "open"}
               /\ UNCHANGED <<app[p].told, app[p].res, app[p].priv, app[p].stray>>
               /\ Logs(p, {"hook", "connect", "exempt"})
               /\ \A q \in Procs : /\ sock'[q].req = sock[q].req
                                   /\ sock'[q].rep = sock[q].rep
<1>0. /\ app \in [Procs -> Apps] /\ app[p] \in Apps /\ app[p].stage = "loaded"
      /\ sock \in [Procs -> Sockets]
  BY DEF TypeOK, ModuleTypeOK, PlatformTypeOK, PreAppSpecialize
<1> USE DEF Others, Advances, Logs
<1>1. ASSUME NEW r \in Requests, UNCHANGED sock,
             app' = [app EXCEPT ![p].stage = "zygote", ![p].lib = "dlclose",
                                ![p].asked = {r}]
      PROVE  Others(p) /\ Advances(p, "loaded", "zygote") /\ Logs(p, {})
  BY <1>0, <1>1 DEF Apps
<1>2. ASSUME NEW r \in Requests, NEW u \in HookOutcomes, NEW s \in HookOutcomes,
             NEW conn \in BOOLEAN, NEW ex \in BOOLEAN,
             InstallHooks(p, r, u, s, conn, ex)
      PROVE  /\ app'[p].stage = "zygote" /\ app'[p].target
             /\ app'[p].cb = IF "hook" \in app'[p].errs THEN "noop" ELSE "armed"
             /\ app'[p].cfd \in {"none", "open"}
             /\ UNCHANGED <<app[p].told, app[p].res, app[p].priv, app[p].stray>>
             /\ Logs(p, {"hook", "connect", "exempt"})
             /\ Others(p)
             /\ \A q \in Procs : /\ sock'[q].req = sock[q].req
                                 /\ sock'[q].rep = sock[q].rep
  <2> DEFINE hooked    == u.ok /\ s.ok
             connected == hooked /\ conn
             got  == [unshare |-> u.slot, setresuid |-> SetresuidSlot(u, s)]
             errs == app[p].errs \cup Failed("hook", hooked)
                       \cup Failed("connect", hooked => conn)
                       \cup Failed("exempt", hooked => conn /\ ex)
             cb   == ArmedCallback(hooked, connected)
             cfd  == IF connected THEN "open" ELSE "none"
  <2>1. app'[p] = [app[p] EXCEPT !.stage = "zygote", !.lib = "dlclose", !.asked = {r},
                                 !.target = TRUE, !.got = got, !.cb = cb, !.cfd = cfd,
                                 !.errs = errs]
        /\ Others(p)
    BY <1>0, <1>2 DEF InstallHooks
  <2>2. app[p].errs = {} /\ u.ok \in BOOLEAN /\ s.ok \in BOOLEAN
    BY <1>0, HookSlots DEF CourseInv, Course, Untouched
  <2>3. /\ cb = IF "hook" \in errs THEN "noop" ELSE "armed"
        /\ cfd \in {"none", "open"}
        /\ app[p].errs \subseteq errs
        /\ errs \subseteq app[p].errs \cup {"hook", "connect", "exempt"}
    BY <2>2 DEF ArmedCallback, Failed
  <2>4. \A q \in Procs : sock'[q].req = sock[q].req /\ sock'[q].rep = sock[q].rep
    <3>1. PICK e : sock' = [sock EXCEPT ![p].open = e]
      BY <1>2 DEF InstallHooks
    <3> QED BY <1>0, <3>1 DEF Sockets
  <2> HIDE DEF got, errs, cb, cfd
  <2>5. app'[p].stage = "zygote" /\ app'[p].target
    BY <1>0, <2>1 DEF Apps
  <2>6. app'[p].cb = cb /\ app'[p].cfd = cfd /\ app'[p].errs = errs
    BY <1>0, <2>1 DEF Apps
  <2>7. UNCHANGED <<app[p].told, app[p].res, app[p].priv, app[p].stray>>
    BY <1>0, <2>1 DEF Apps
  <2>8. Logs(p, {"hook", "connect", "exempt"})
    BY <2>3, <2>6
  <2>9. Others(p)
    BY <2>1
  <2> QED BY <2>3, <2>4, <2>5, <2>6, <2>7, <2>8, <2>9
<1> HIDE DEF Others, Advances, Logs
<1>3. \/ \E r \in Requests :
           /\ UNCHANGED sock
           /\ app' = [app EXCEPT ![p].stage = "zygote", ![p].lib = "dlclose",
                                 ![p].asked = {r}]
      \/ \E r \in Requests, u, s \in HookOutcomes, conn, ex \in BOOLEAN :
           InstallHooks(p, r, u, s, conn, ex)
  BY DEF PreAppSpecialize, Returns
<1>4. CASE \E r \in Requests :
             /\ UNCHANGED sock
             /\ app' = [app EXCEPT ![p].stage = "zygote", ![p].lib = "dlclose",
                                   ![p].asked = {r}]
  BY <1>1, <1>4
<1>5. CASE \E r \in Requests, u, s \in HookOutcomes, conn, ex \in BOOLEAN :
             InstallHooks(p, r, u, s, conn, ex)
  BY <1>0, <1>2, <1>5
<1> QED BY <1>3, <1>4, <1>5

(* Either hook, entered: the armed callback starts, and is not armed again. *)
LEMMA EnterHookEffect ==
  ASSUME TypeOK, NEW p \in Procs, NEW sym, NEW f, NEW n, EnterHook(p, sym, f, n)
  PROVE  /\ Others(p)
         /\ app'[p].stage = IF app[p].cb = "armed" THEN "ns" ELSE "ret"
         /\ app'[p].cb = "noop" /\ app'[p].hook = sym
         /\ UNCHANGED <<app[p].target, app[p].cfd, app[p].told, app[p].res,
                        app[p].priv, app[p].stray>>
         /\ Logs(p, {"reopen"})
<1>0. app \in [Procs -> Apps] /\ app[p] \in Apps
  BY DEF TypeOK, ModuleTypeOK
<1>1. PICK ok \in Returns("reopen") :
          app' = [app EXCEPT
              ![p].hook = sym, ![p].flags = f, ![p].calls = n,
              ![p].cb = "noop",
              ![p].srr   = IF app[p].cb = "armed" /\ ok THEN Reopenable ELSE @,
              ![p].errs  = IF app[p].cb = "armed" THEN @ \cup Failed("reopen", ok)
                                                  ELSE @,
              ![p].stage = IF app[p].cb = "armed" THEN "ns" ELSE "ret"]
  BY DEF EnterHook
<1> DEFINE srr   == IF app[p].cb = "armed" /\ ok THEN Reopenable ELSE app[p].srr
           errs  == IF app[p].cb = "armed" THEN app[p].errs \cup Failed("reopen", ok)
                                           ELSE app[p].errs
           stage == IF app[p].cb = "armed" THEN "ns" ELSE "ret"
<1>2. app'[p] = [app[p] EXCEPT !.hook = sym, !.flags = f, !.calls = n, !.cb = "noop",
                               !.srr = srr, !.errs = errs, !.stage = stage]
      /\ Others(p)
  BY <1>0, <1>1 DEF Apps, Others
<1>3. app[p].errs \subseteq errs /\ errs \subseteq app[p].errs \cup {"reopen"}
  BY DEF Failed
<1> HIDE DEF srr, errs
<1> QED BY <1>0, <1>2, <1>3 DEF Apps, Logs

(* Every way out of the callback. *)
LEMMA LeaveScopeEffect ==
  ASSUME TypeOK, NEW p \in Procs, NEW f, NEW tags, LeaveScope(p, f, tags)
  PROVE  /\ Others(p)
         /\ app'[p].stage = "ret"
         /\ UNCHANGED <<app[p].target, app[p].cb, app[p].cfd, app[p].told, app[p].res,
                        app[p].priv, app[p].stray, app[p].pid>>
         /\ Logs(p, tags \cup {"reopen"}) /\ tags \subseteq app'[p].errs
<1>0. app \in [Procs -> Apps] /\ app[p] \in Apps
  BY DEF TypeOK, ModuleTypeOK
<1>1. PICK ok \in Returns("reopen") :
          app' = [app EXCEPT
              ![p].stage = "ret",
              ![p].errs  = @ \cup tags \cup Failed("reopen", ok),
              ![p].fds   = [k \in FdKinds |-> IF ok /\ k \in app[p].srr
                                                THEN ReopenOrDetach(k, f[k])
                                                ELSE f[k]]]
  BY DEF LeaveScope
<1> DEFINE errs == app[p].errs \cup tags \cup Failed("reopen", ok)
           fds  == [k \in FdKinds |-> IF ok /\ k \in app[p].srr
                                        THEN ReopenOrDetach(k, f[k]) ELSE f[k]]
<1>2. app'[p] = [app[p] EXCEPT !.stage = "ret", !.errs = errs, !.fds = fds] /\ Others(p)
  BY <1>0, <1>1 DEF Apps, Others
<1>3. /\ app[p].errs \subseteq errs /\ tags \subseteq errs
      /\ errs \subseteq app[p].errs \cup (tags \cup {"reopen"})
  BY DEF Failed
<1> HIDE DEF errs, fds
<1> QED BY <1>0, <1>2, <1>3 DEF Apps, Logs

(* Zygote's calls that reach the kernel, and its own closing of a descriptor. *)
LEMMA ZygoteEffect ==
  ASSUME TypeOK, NEW p \in Procs
  PROVE  /\ ZygoteClosesFd(p) =>
              /\ Others(p) /\ app[p].stage = "zygote" /\ Logs(p, {})
              /\ app'[p].cfd \in {"closed", "reused"}
              /\ UNCHANGED <<app[p].stage, app[p].target, app[p].cb, app[p].told,
                             app[p].res, app[p].priv, app[p].stray>>
              /\ \A q \in Procs : sock'[q].req = sock[q].req /\ sock'[q].rep = sock[q].rep
         /\ \A f \in SUBSET CloneFlags : CallUnshare(p, f) =>
              \/ /\ Others(p) /\ Advances(p, "zygote", "zygote") /\ Logs(p, {})
                 /\ app[p].got["unshare"] = "orig" /\ UNCHANGED ns
              \/ /\ Others(p) /\ app[p].stage = "zygote" /\ app'[p].told /\ Logs(p, {})
                 /\ UNCHANGED <<app[p].stage, app[p].target, app[p].cb, app[p].cfd,
                                app[p].res, app[p].priv, app[p].stray>>
                 /\ app[p].got["unshare"] = "orig" /\ ns' = [ns EXCEPT ![p] = p]
              \/ /\ EnterHook(p, "unshare", f, app[p].calls + 1)
                 /\ app[p].got["unshare"] = "new" /\ UNCHANGED ns
         /\ CallSetresuid(p) =>
              \/ /\ Others(p) /\ Logs(p, {})
                 /\ app'[p].stage = "dropped" /\ ~app'[p].priv
                 /\ UNCHANGED <<app[p].target, app[p].cb, app[p].cfd, app[p].told,
                                app[p].res, app[p].stray>>
                 /\ app[p].got["setresuid"] = "orig"
              \/ /\ EnterHook(p, "setresuid", {}, app[p].calls)
                 /\ app[p].got["setresuid"] = "new"
<1>0. app \in [Procs -> Apps] /\ app[p] \in Apps /\ sock \in [Procs -> Sockets]
  BY DEF TypeOK, ModuleTypeOK, PlatformTypeOK
<1> USE DEF Others, Advances, Logs
<1>1. ASSUME ZygoteClosesFd(p)
      PROVE  /\ Others(p) /\ app[p].stage = "zygote" /\ Logs(p, {})
             /\ app'[p].cfd \in {"closed", "reused"}
             /\ UNCHANGED <<app[p].stage, app[p].target, app[p].cb, app[p].told,
                            app[p].res, app[p].priv, app[p].stray>>
             /\ \A q \in Procs : sock'[q].req = sock[q].req /\ sock'[q].rep = sock[q].rep
  <2>1. PICK c \in {"closed", "reused"} : app' = [app EXCEPT ![p].cfd = c]
    BY <1>1 DEF ZygoteClosesFd
  <2>2. \A q \in Procs : sock'[q].req = sock[q].req /\ sock'[q].rep = sock[q].rep
    BY <1>0, <1>1 DEF ZygoteClosesFd, Sockets
  <2> QED BY <1>0, <1>1, <2>1, <2>2 DEF ZygoteClosesFd, Apps
<1>2. ASSUME NEW f \in SUBSET CloneFlags, CallUnshare(p, f)
      PROVE  \/ /\ Others(p) /\ Advances(p, "zygote", "zygote") /\ Logs(p, {})
                /\ app[p].got["unshare"] = "orig" /\ UNCHANGED ns
             \/ /\ Others(p) /\ app[p].stage = "zygote" /\ app'[p].told /\ Logs(p, {})
                /\ UNCHANGED <<app[p].stage, app[p].target, app[p].cb, app[p].cfd,
                               app[p].res, app[p].priv, app[p].stray>>
                /\ app[p].got["unshare"] = "orig" /\ ns' = [ns EXCEPT ![p] = p]
             \/ /\ EnterHook(p, "unshare", f, app[p].calls + 1)
                /\ app[p].got["unshare"] = "new" /\ UNCHANGED ns
  <2>1. CASE EnterHook(p, "unshare", f, app[p].calls + 1) /\ app[p].got["unshare"] = "new"
    BY <1>2, <2>1 DEF CallUnshare
  <2>2. CASE /\ app[p].got["unshare"] = "orig" /\ ns' = [ns EXCEPT ![p] = p]
             /\ app' = [app EXCEPT ![p].calls = @ + 1, ![p].told = TRUE,
                                   ![p].fds = AfterUnshare(@)]
    BY <1>0, <1>2, <2>2 DEF CallUnshare, Apps
  <2>3. CASE /\ app[p].got["unshare"] = "orig" /\ UNCHANGED ns
             /\ app' = [app EXCEPT ![p].calls = @ + 1]
    BY <1>0, <1>2, <2>3 DEF CallUnshare, Apps
  <2> QED BY <1>2, <2>1, <2>2, <2>3 DEF CallUnshare
<1>3. ASSUME CallSetresuid(p)
      PROVE  \/ /\ Others(p) /\ Logs(p, {})
                /\ app'[p].stage = "dropped" /\ ~app'[p].priv
                /\ UNCHANGED <<app[p].target, app[p].cb, app[p].cfd, app[p].told,
                               app[p].res, app[p].stray>>
                /\ app[p].got["setresuid"] = "orig"
             \/ /\ EnterHook(p, "setresuid", {}, app[p].calls)
                /\ app[p].got["setresuid"] = "new"
  BY <1>0, <1>3 DEF CallSetresuid, Apps
<1> QED BY <1>1, <1>2, <1>3

(* The rest of the two hooks. *)
LEMMA ReturnEffect ==
  ASSUME TypeOK, NEW p \in Procs
  PROVE  /\ ReturnFromUnshare(p) =>
              /\ Others(p) /\ app'[p].stage = "zygote" /\ Logs(p, {}) /\ UNCHANGED ns
              /\ UNCHANGED <<app[p].target, app[p].cb, app[p].cfd, app[p].res,
                             app[p].priv, app[p].stray>>
         /\ ReturnFromSetresuid(p) =>
              /\ Others(p) /\ app'[p].stage = "dropped" /\ Logs(p, {}) /\ ~app'[p].priv
              /\ UNCHANGED <<app[p].target, app[p].cb, app[p].cfd, app[p].told,
                             app[p].res, app[p].stray>>
<1>0. app \in [Procs -> Apps] /\ app[p] \in Apps /\ ns \in [Procs -> Namespaces]
  BY DEF TypeOK, ModuleTypeOK, PlatformTypeOK
<1> USE DEF Others, Logs
<1>1. "CLONE_NEWNS" \notin Stripped(app[p].flags)
  BY DEF Stripped
<1>2. ASSUME ReturnFromUnshare(p)
      PROVE  /\ Others(p) /\ app'[p].stage = "zygote" /\ Logs(p, {}) /\ UNCHANGED ns
             /\ UNCHANGED <<app[p].target, app[p].cb, app[p].cfd, app[p].res,
                            app[p].priv, app[p].stray>>
  <2>1. UNCHANGED ns
    BY <1>0, <1>1, <1>2 DEF ReturnFromUnshare
  <2> QED BY <1>0, <1>1, <1>2, <2>1 DEF ReturnFromUnshare, Apps
<1>3. ASSUME ReturnFromSetresuid(p)
      PROVE  /\ Others(p) /\ app'[p].stage = "dropped" /\ Logs(p, {}) /\ ~app'[p].priv
             /\ UNCHANGED <<app[p].target, app[p].cb, app[p].cfd, app[p].told,
                            app[p].res, app[p].stray>>
  BY <1>0, <1>3 DEF ReturnFromSetresuid, Apps
<1> QED BY <1>2, <1>3

(* new_mount_ns: given up where it fails, and otherwise a namespace of the   *)
(* process's own.                                                            *)
LEMMA NewMountNsEffect ==
  ASSUME TypeOK, NEW p \in Procs, NewMountNs(p)
  PROVE  /\ Others(p) /\ app[p].stage = "ns" /\ UNCHANGED <<clean, sock>>
         /\ UNCHANGED <<app[p].target, app[p].cb, app[p].cfd, app[p].told, app[p].res,
                        app[p].priv, app[p].stray, app[p].pid>>
         /\ \/ /\ app'[p].stage = "ret" /\ UNCHANGED <<ns, slave>>
               /\ Logs(p, {"unshare", "reopen"}) /\ "unshare" \in app'[p].errs
            \/ /\ app'[p].stage = "ret" /\ ns' = [ns EXCEPT ![p] = p] /\ UNCHANGED slave
               /\ Logs(p, {"slave", "reopen"}) /\ "slave" \in app'[p].errs
            \/ /\ app'[p].stage = IF app[p].cfd = "none" THEN "unmount" ELSE "write"
               /\ ns' = [ns EXCEPT ![p] = p] /\ slave' = slave \cup {p} /\ Logs(p, {})
<1>0. /\ app \in [Procs -> Apps] /\ app[p] \in Apps /\ app[p].stage = "ns"
      /\ UNCHANGED <<clean, sock>>
  BY DEF TypeOK, ModuleTypeOK, NewMountNs
<1>1. CASE LeaveScope(p, app[p].fds, {"unshare"}) /\ UNCHANGED <<ns, slave>>
  BY <1>0, <1>1, LeaveScopeEffect DEF Logs
<1>2. CASE /\ ns' = [ns EXCEPT ![p] = p] /\ UNCHANGED slave
           /\ LeaveScope(p, AfterUnshare(app[p].fds), {"slave"})
  BY <1>0, <1>2, LeaveScopeEffect DEF Logs
<1>3. CASE /\ ns' = [ns EXCEPT ![p] = p] /\ slave' = slave \cup {p}
           /\ app' = [app EXCEPT
                       ![p].fds = AfterUnshare(@),
                       ![p].stage = IF app[p].cfd = "none" THEN "unmount"
                                                           ELSE "write"]
  BY <1>0, <1>3 DEF Others, Logs, Apps
<1> QED BY <1>1, <1>2, <1>3 DEF NewMountNs, MakeSlave

(* The callback's exchange with the companion. *)
LEMMA ExchangeEffect ==
  ASSUME TypeOK, NEW p \in Procs
  PROVE  /\ WritePid(p) =>
              /\ Others(p) /\ app[p].stage = "write"
              /\ UNCHANGED <<app[p].target, app[p].cb, app[p].cfd, app[p].told, app[p].res,
                             app[p].priv, app[p].pid>>
              /\ app'[p].stray = (app[p].cfd = "reused")
              /\ \/ /\ app'[p].stage = "read" /\ Logs(p, {})
                    /\ app[p].cfd \in {"open", "reused"}
                 \/ app'[p].stage = "close" /\ Logs(p, {"write"}) /\ UNCHANGED sock
              /\ \A q \in Procs :
                   /\ sock'[q].rep = sock[q].rep
                   /\ \/ sock'[q].req = sock[q].req
                      \/ /\ q = p /\ app[p].cfd = "open" /\ app'[p].stage = "read"
                         /\ sock'[q].req = app[p].pid
         /\ ReadResult(p) =>
              /\ Others(p) /\ app[p].stage = "read" /\ app'[p].stage = "close"
              /\ UNCHANGED <<app[p].target, app[p].cb, app[p].cfd, app[p].told,
                             app[p].priv, app[p].stray>>
              /\ \/ /\ Logs(p, {}) /\ app'[p].res \in BOOLEAN
                    /\ app[p].cfd = "open" => app'[p].res \in sock[p].rep
                    /\ \A q \in Procs \ {p} : sock'[q] = sock[q]
                    /\ sock'[p].req = sock[p].req /\ sock'[p].rep = {}
                 \/ /\ Logs(p, {"read"}) /\ "read" \in app'[p].errs
                    /\ UNCHANGED <<app[p].res, sock>>
                    /\ app[p].cfd # "open" \/ HungUp(p) \/ "read" \in Faults
         /\ CloseFd(p) =>
              /\ Others(p) /\ app[p].stage = "close" /\ Logs(p, {})
              /\ app'[p].stage = (IF app[p].res THEN "hide" ELSE "unmount")
              /\ UNCHANGED <<app[p].target, app[p].cb, app[p].told, app[p].res,
                             app[p].priv, app[p].stray>>
              /\ \A q \in Procs : sock'[q].req = sock[q].req /\ sock'[q].rep = sock[q].rep
<1>0. app \in [Procs -> Apps] /\ app[p] \in Apps /\ sock \in [Procs -> Sockets]
  BY DEF TypeOK, ModuleTypeOK, PlatformTypeOK
<1> USE DEF Others, Logs
<1>1. ASSUME WritePid(p)
      PROVE  /\ Others(p) /\ app[p].stage = "write"
             /\ UNCHANGED <<app[p].target, app[p].cb, app[p].cfd, app[p].told, app[p].res,
                            app[p].priv, app[p].pid>>
             /\ app'[p].stray = (app[p].cfd = "reused")
             /\ \/ /\ app'[p].stage = "read" /\ Logs(p, {})
                   /\ app[p].cfd \in {"open", "reused"}
                \/ app'[p].stage = "close" /\ Logs(p, {"write"}) /\ UNCHANGED sock
             /\ \A q \in Procs :
                  /\ sock'[q].rep = sock[q].rep
                  /\ \/ sock'[q].req = sock[q].req
                     \/ /\ q = p /\ app[p].cfd = "open" /\ app'[p].stage = "read"
                        /\ sock'[q].req = app[p].pid
  <2>1. CASE /\ app[p].cfd \in {"open", "reused"}
             /\ app' = [app EXCEPT ![p].stage = "read", ![p].stray = app[p].cfd = "reused"]
             /\ sock' = [sock EXCEPT ![p].req =
                                       IF app[p].cfd = "open" THEN app[p].pid ELSE @]
    <3>1. /\ Others(p) /\ app'[p].stage = "read" /\ Logs(p, {})
          /\ UNCHANGED <<app[p].target, app[p].cb, app[p].cfd, app[p].told, app[p].res,
                         app[p].priv, app[p].pid>>
          /\ app'[p].stray = (app[p].cfd = "reused")
      BY <1>0, <2>1 DEF Apps
    <3>2. \A q \in Procs :
            /\ sock'[q].rep = sock[q].rep
            /\ \/ sock'[q].req = sock[q].req
               \/ q = p /\ app[p].cfd = "open" /\ sock'[q].req = app[p].pid
      BY <1>0, <2>1 DEF Sockets
    <3> QED BY <1>1, <2>1, <3>1, <3>2 DEF WritePid
  <2>2. CASE /\ app' = [app EXCEPT ![p].stage = "close",
                                   ![p].stray = app[p].cfd = "reused",
                                   ![p].errs = @ \cup {"write"}]
             /\ UNCHANGED sock
    <3>1. /\ Others(p) /\ app'[p].stage = "close" /\ Logs(p, {"write"})
          /\ UNCHANGED <<app[p].target, app[p].cb, app[p].cfd, app[p].told, app[p].res,
                         app[p].priv, app[p].pid>>
          /\ app'[p].stray = (app[p].cfd = "reused")
      BY <1>0, <2>2 DEF Apps
    <3> QED BY <1>1, <2>2, <3>1 DEF WritePid
  <2> QED BY <1>1, <2>1, <2>2 DEF WritePid
<1>2. ASSUME ReadResult(p)
      PROVE  /\ Others(p) /\ app[p].stage = "read" /\ app'[p].stage = "close"
             /\ UNCHANGED <<app[p].target, app[p].cb, app[p].cfd, app[p].told,
                            app[p].priv, app[p].stray>>
             /\ \/ /\ Logs(p, {}) /\ app'[p].res \in BOOLEAN
                   /\ app[p].cfd = "open" => app'[p].res \in sock[p].rep
                   /\ \A q \in Procs \ {p} : sock'[q] = sock[q]
                   /\ sock'[p].req = sock[p].req /\ sock'[p].rep = {}
                \/ /\ Logs(p, {"read"}) /\ "read" \in app'[p].errs
                   /\ UNCHANGED <<app[p].res, sock>>
                   /\ app[p].cfd # "open" \/ HungUp(p) \/ "read" \in Faults
  <2>1. ASSUME NEW r \in IF app[p].cfd = "open" THEN sock[p].rep ELSE BOOLEAN,
               app' = [app EXCEPT ![p].stage = "close", ![p].res = r],
               sock' = [sock EXCEPT ![p].rep = {}]
        PROVE  /\ Others(p) /\ app'[p].stage = "close"
               /\ UNCHANGED <<app[p].target, app[p].cb, app[p].cfd, app[p].told,
                              app[p].priv, app[p].stray>>
               /\ Logs(p, {}) /\ app'[p].res \in BOOLEAN
               /\ app[p].cfd = "open" => app'[p].res \in sock[p].rep
               /\ \A q \in Procs \ {p} : sock'[q] = sock[q]
               /\ sock'[p].req = sock[p].req /\ sock'[p].rep = {}
    <3>1. r \in BOOLEAN /\ (app[p].cfd = "open" => r \in sock[p].rep)
      BY <1>0, <2>1 DEF Sockets
    <3>2. app'[p] = [app[p] EXCEPT !.stage = "close", !.res = r] /\ Others(p)
      BY <1>0, <2>1
    <3>3. /\ \A q \in Procs \ {p} : sock'[q] = sock[q]
          /\ sock'[p].req = sock[p].req /\ sock'[p].rep = {}
      BY <1>0, <2>1 DEF Sockets
    <3>4. app'[p].res = r
      BY <1>0, <3>2 DEF Apps
    <3>5. /\ app'[p].stage = "close" /\ Logs(p, {})
          /\ UNCHANGED <<app[p].target, app[p].cb, app[p].cfd, app[p].told,
                         app[p].priv, app[p].stray>>
      BY <1>0, <3>2 DEF Apps
    <3> QED BY <3>1, <3>2, <3>3, <3>4, <3>5
  <2>2. CASE /\ app' = [app EXCEPT ![p].stage = "close", ![p].errs = @ \cup {"read"}]
             /\ UNCHANGED sock
             /\ app[p].cfd # "open" \/ HungUp(p) \/ "read" \in Faults
    BY <1>0, <1>2, <2>2 DEF ReadResult, Apps
  <2> QED BY <1>2, <2>1, <2>2 DEF ReadResult
<1>3. ASSUME CloseFd(p)
      PROVE  /\ Others(p) /\ app[p].stage = "close" /\ Logs(p, {})
             /\ app'[p].stage = (IF app[p].res THEN "hide" ELSE "unmount")
             /\ UNCHANGED <<app[p].target, app[p].cb, app[p].told, app[p].res,
                            app[p].priv, app[p].stray>>
             /\ \A q \in Procs : sock'[q].req = sock[q].req /\ sock'[q].rep = sock[q].rep
  <2>1. \A q \in Procs : sock'[q].req = sock[q].req /\ sock'[q].rep = sock[q].rep
    BY <1>0, <1>3 DEF CloseFd, Sockets
  <2> QED BY <1>0, <1>3, <2>1 DEF CloseFd, AfterCompanion, Apps
<1> QED BY <1>1, <1>2, <1>3

(* The rest of the callback, and what follows it. *)
LEMMA AfterEffect ==
  ASSUME TypeOK, NEW p \in Procs
  PROVE  /\ DoUnmount(p) => Others(p) /\ Advances(p, "unmount", "hide") /\ Logs(p, {})
         /\ DoHideZygisk(p) => Others(p) /\ Advances(p, "hide", "ret") /\ Logs(p, {"reopen"})
         /\ PostAppSpecialize(p) =>
              Others(p) /\ Advances(p, "dropped", "post") /\ Logs(p, {"unhook"})
         /\ DlClose(p) => Others(p) /\ Advances(p, "post", "running") /\ Logs(p, {})
         /\ Die(p) => /\ Others(p) /\ Advances(p, app[p].stage, "dead") /\ Logs(p, {})
                      /\ Alive(p)
                      /\ \A q \in Procs : /\ sock'[q].req = sock[q].req
                                          /\ sock'[q].rep = sock[q].rep
<1>0. app \in [Procs -> Apps] /\ app[p] \in Apps /\ sock \in [Procs -> Sockets]
  BY DEF TypeOK, ModuleTypeOK, PlatformTypeOK
<1> USE DEF Others, Advances, Logs
<1>1. ASSUME DoUnmount(p)
      PROVE  Others(p) /\ Advances(p, "unmount", "hide") /\ Logs(p, {})
  BY <1>0, <1>1 DEF DoUnmount, Apps
<1>2. ASSUME DoHideZygisk(p)
      PROVE  Others(p) /\ Advances(p, "hide", "ret") /\ Logs(p, {"reopen"})
  BY <1>0, <1>2, LeaveScopeEffect DEF DoHideZygisk
<1>3. ASSUME PostAppSpecialize(p)
      PROVE  Others(p) /\ Advances(p, "dropped", "post") /\ Logs(p, {"unhook"})
  <2>1. PICK stuck \in SUBSET Hooked(p) :
          app' = [app EXCEPT
                    ![p].stage = "post",
                    ![p].got   = [s \in Syms |->
                                    IF s \in Hooked(p) \ stuck THEN "orig" ELSE @[s]],
                    ![p].errs  = @ \cup Failed("unhook", stuck = {})]
    BY <1>3 DEF PostAppSpecialize
  <2> DEFINE got  == [s \in Syms |-> IF s \in Hooked(p) \ stuck THEN "orig" ELSE app[p].got[s]]
             errs == app[p].errs \cup Failed("unhook", stuck = {})
  <2>2. app'[p] = [app[p] EXCEPT !.stage = "post", !.got = got, !.errs = errs] /\ Others(p)
    BY <1>0, <2>1 DEF Apps
  <2>3. app[p].errs \subseteq errs /\ errs \subseteq app[p].errs \cup {"unhook"}
    BY DEF Failed
  <2> HIDE DEF got, errs
  <2>4. app[p].stage = "dropped"
    BY <1>3 DEF PostAppSpecialize
  <2> QED BY <1>0, <2>2, <2>3, <2>4 DEF Apps
<1>4. ASSUME DlClose(p)
      PROVE  Others(p) /\ Advances(p, "post", "running") /\ Logs(p, {})
  BY <1>0, <1>4 DEF DlClose, Apps
<1>5. ASSUME Die(p)
      PROVE  /\ Others(p) /\ Advances(p, app[p].stage, "dead") /\ Logs(p, {}) /\ Alive(p)
             /\ \A q \in Procs : sock'[q].req = sock[q].req /\ sock'[q].rep = sock[q].rep
  <2>1. \A q \in Procs : sock'[q].req = sock[q].req /\ sock'[q].rep = sock[q].rep
    BY <1>0, <1>5 DEF Die, Sockets
  <2> QED BY <1>0, <1>5, <2>1 DEF Die, Apps, Alive
<1> QED BY <1>1, <1>2, <1>3, <1>4, <1>5

-----------------------------------------------------------------------------
(* The companion's side.                                                    *)

(* One request and one answer per connection: the handler reads a pid once,  *)
(* forks once, and what it answers is what became of that child.             *)
HandlerInv(p) ==
  /\ comp[p].stage \in {"idle", "read", "fork"} => comp[p].child = "none"
  /\ comp[p].stage \in {"idle", "read"} => comp[p].pid = NoPid
  /\ comp[p].stage \in {"fork", "wait", "reply"}
       => comp[p].pid # NoPid /\ sock[p].req = NoPid
  /\ sock[p].rep # {}
       => comp[p].stage = "done" /\ comp[p].pid # NoPid /\ sock[p].req = NoPid
  /\ comp[p].status # -1
       => comp[p].child \in ChildEnded /\ comp[p].status = WaitStatus(comp[p].child)

(* The process waits in its read until its handler is done with the child,   *)
(* or has failed to, and the callback does not run a second time.            *)
WaitInv(p) ==
  /\ Alive(p) /\ (sock[p].req # NoPid \/ comp[p].stage \in {"fork", "wait", "reply"})
       => app[p].stage = "read" \/ "read" \in app[p].errs
  /\ sock[p].req # NoPid \/ comp[p].pid # NoPid =>
       /\ app[p].cb = "noop"
       /\ app[p].stage \notin {"unborn", "loaded", "ns", "write"}
       /\ app[p].stage = "read" => app[p].cfd = "open"

(* An answer of success, on its way or to come, is about a child that has    *)
(* been through doUnmount in the requester's namespace, or that never got    *)
(* there and exited with 1.                                                  *)
AnswerInv(p) ==
  /\ Alive(p) /\ comp[p].child \in {"remount", "mrprop", "exit0"} => p \in clean
  /\ Alive(p) /\ TRUE \in sock[p].rep => p \in clean \/ comp[p].child = "exit1"

Serve(p) == HandlerInv(p) /\ WaitInv(p) /\ AnswerInv(p)

ServeInv == \A p \in Procs : Serve(p)

(* What concerns another process stays as it is. *)
LEMMA ServeOther ==
  ASSUME NEW q \in Procs, Serve(q), app'[q] = app[q], comp'[q] = comp[q],
         sock'[q].req = sock[q].req, sock'[q].rep = sock[q].rep, clean \subseteq clean'
  PROVE  Serve(q)'
  BY DEF Serve, HandlerInv, WaitInv, AnswerInv, Alive

(* The steps of a process that neither send nor receive. *)
LEMMA ServeKept ==
  ASSUME RequestInv, ServeInv, NEW p \in Procs, Others(p), UNCHANGED comp, clean \subseteq clean',
         \A q \in Procs : sock'[q].req = sock[q].req /\ sock'[q].rep = sock[q].rep,
         app[p].errs \subseteq app'[p].errs,
         Alive(p)' => Alive(p) \/ app[p].stage = "unborn",
         app'[p].stage # "read",
         app[p].stage = "read" => ~Alive(p)' \/ "read" \in app'[p].errs,
         app'[p].cb = "noop" \/ app'[p].cb = app[p].cb \/ app[p].stage = "loaded",
         app'[p].stage \in {"unborn", "loaded", "ns", "write"}
           => app[p].stage \in {"unborn", "loaded", "ns", "write"} \/ app[p].cb = "armed"
  PROVE  ServeInv'
<1>1. ASSUME NEW q \in Procs, q # p PROVE Serve(q)'
  BY <1>1, ServeOther DEF ServeInv, Others
<1>2. HandlerInv(p)'
  BY DEF ServeInv, Serve, HandlerInv
<1>3. WaitInv(p)'
  BY DEF ServeInv, Serve, HandlerInv, WaitInv, Alive
<1>4. AnswerInv(p)'
  <2>1. comp[p].child # "none" \/ sock[p].rep # {} => app[p].stage # "unborn"
    BY DEF RequestInv, ServeInv, Serve, HandlerInv, WaitInv
  <2> QED BY <2>1 DEF ServeInv, Serve, AnswerInv, Alive
<1> QED BY <1>1, <1>2, <1>3, <1>4 DEF ServeInv, Serve

LEMMA AppServe ==
  ASSUME IInv, CourseInv, ServeInv, NEW p \in Procs, AppStep(p) \/ Die(p), UNCHANGED comp
  PROVE  ServeInv'
<1> USE DEF mountVars
<1>0. TypeOK /\ app[p] \in Apps /\ sock[p] \in Sockets
  BY DEF IInv, TypeOK, ModuleTypeOK, PlatformTypeOK
<1>k. ASSUME Others(p), clean \subseteq clean',
             \A q \in Procs : sock'[q].req = sock[q].req /\ sock'[q].rep = sock[q].rep,
             app[p].errs \subseteq app'[p].errs,
             Alive(p)' => Alive(p) \/ app[p].stage = "unborn",
             app'[p].stage # "read",
             app[p].stage = "read" => ~Alive(p)' \/ "read" \in app'[p].errs,
             app'[p].cb = "noop" \/ app'[p].cb = app[p].cb \/ app[p].stage = "loaded",
             app'[p].stage \in {"unborn", "loaded", "ns", "write"}
               => app[p].stage \in {"unborn", "loaded", "ns", "write"} \/ app[p].cb = "armed"
      PROVE  ServeInv'
  BY <1>k, ServeKept DEF IInv
<1>h. ASSUME NEW sym, NEW f, NEW n, EnterHook(p, sym, f, n), app[p].stage = "zygote",
             UNCHANGED <<clean, sock>>
      PROVE  ServeInv'
  BY <1>0, <1>k, <1>h, EnterHookEffect DEF Logs, Alive
<1>1. CASE Fork(p)
  BY <1>0, <1>1, <1>k, BeforeEffect DEF Fork, Advances, Logs, Alive
<1>2. CASE RegisterFails(p) \/ PreServerSpecialize(p)
  BY <1>0, <1>2, <1>k, BeforeEffect
     DEF RegisterFails, PreServerSpecialize, Advances, Logs, Alive
<1>3. CASE PreAppSpecialize(p)
  BY <1>0, <1>3, <1>k, PreAppEffect DEF PreAppSpecialize, Advances, Logs, Alive
<1>4. CASE ZygoteClosesFd(p)
  BY <1>0, <1>4, <1>k, ZygoteEffect DEF ZygoteClosesFd, Logs, Alive
<1>5. ASSUME NEW f \in SUBSET CloneFlags, CallUnshare(p, f)
      PROVE  ServeInv'
  <2>0. app[p].stage = "zygote" /\ UNCHANGED <<clean, sock>>
    BY <1>5 DEF CallUnshare
  <2> QED BY <1>0, <1>5, <1>k, <1>h, <2>0, ZygoteEffect DEF Advances, Logs, Alive
<1>6. CASE CallSetresuid(p)
  <2>0. app[p].stage = "zygote" /\ UNCHANGED <<clean, sock>>
    BY <1>6 DEF CallSetresuid
  <2> QED BY <1>0, <1>6, <1>k, <1>h, <2>0, ZygoteEffect DEF Logs, Alive
<1>7. CASE ReturnFromUnshare(p) \/ ReturnFromSetresuid(p)
  <2>0. app[p].stage = "ret" /\ UNCHANGED <<clean, sock>>
    BY <1>7 DEF ReturnFromUnshare, ReturnFromSetresuid
  <2> QED BY <1>0, <1>7, <1>k, <2>0, ReturnEffect DEF Logs, Alive
<1>8. CASE NewMountNs(p)
  BY <1>0, <1>8, <1>k, NewMountNsEffect DEF Logs, Alive
<1>9. CASE WritePid(p)
  <2>0. UNCHANGED clean
    BY <1>9 DEF WritePid
  <2>1. CASE UNCHANGED sock
    <3>1. Others(p) /\ app[p].stage = "write"
          /\ app'[p].stage \in {"read", "close"} /\ app[p].errs \subseteq app'[p].errs
          /\ UNCHANGED <<app[p].cb, app[p].cfd>>
      BY <1>0, <1>9, ExchangeEffect DEF Logs
    <3>2. CASE app'[p].stage = "close"
      BY <1>k, <2>0, <2>1, <3>1, <3>2 DEF Alive
    <3>3. CASE app'[p].stage = "read"
      <4>1. sock[p].req = NoPid /\ comp[p].pid = NoPid
        BY <3>1 DEF ServeInv, Serve, WaitInv
      <4>2. Serve(p)'
        BY <2>0, <2>1, <3>1, <3>3, <4>1 DEF ServeInv, Serve, HandlerInv, WaitInv, AnswerInv, Alive
      <4> QED BY <2>0, <2>1, <3>1, <4>2, ServeOther DEF ServeInv, Others
    <3> QED BY <3>1, <3>2, <3>3
  <2>2. CASE sock' # sock
    <3>1. /\ Others(p) /\ app[p].stage = "write" /\ app'[p].stage = "read"
          /\ app[p].errs \subseteq app'[p].errs
          /\ UNCHANGED <<app[p].cb, app[p].cfd>>
          /\ \A q \in Procs :
               /\ sock'[q].rep = sock[q].rep
               /\ \/ sock'[q].req = sock[q].req
                  \/ q = p /\ app[p].cfd = "open"
      BY <1>0, <1>9, <2>2, ExchangeEffect DEF Logs
    <3>2. /\ sock[p].req = NoPid /\ comp[p].pid = NoPid /\ comp[p].stage \in {"idle", "read", "done"}
          /\ sock[p].rep = {} /\ app[p].cb = "noop"
      <4>1. sock[p].req = NoPid /\ comp[p].pid = NoPid
        BY <3>1 DEF ServeInv, Serve, WaitInv
      <4>2. comp[p].stage \in HandlerSteps
        BY DEF IInv, TypeOK, CompanionTypeOK, Comps
      <4> QED BY <3>1, <4>1, <4>2 DEF ServeInv, Serve, HandlerInv, HandlerSteps,
                 CourseInv, Course, ArmedOnce, InCallback
    <3>3. sock'[p].req = NoPid \/ app[p].cfd = "open"
      BY <3>1, <3>2
    <3>4. HandlerInv(p)'
      BY <3>1, <3>2 DEF ServeInv, Serve, HandlerInv
    <3>5. WaitInv(p)'
      BY <3>1, <3>2, <3>3 DEF ServeInv, Serve, WaitInv, Alive
    <3>6. AnswerInv(p)'
      BY <2>0, <3>1, <3>2 DEF ServeInv, Serve, AnswerInv, Alive
    <3> QED BY <2>0, <3>1, <3>4, <3>5, <3>6, ServeOther DEF ServeInv, Serve, Others
  <2> QED BY <2>1, <2>2
<1>10. CASE ReadResult(p)
  <2>0. UNCHANGED clean
    BY <1>10 DEF ReadResult
  <2>1. CASE UNCHANGED sock /\ Logs(p, {"read"}) /\ "read" \in app'[p].errs
    BY <1>0, <1>10, <1>k, <2>0, <2>1, ExchangeEffect DEF Logs, Alive
  <2>2. CASE /\ Logs(p, {}) /\ app'[p].res \in BOOLEAN
             /\ app[p].cfd = "open" => app'[p].res \in sock[p].rep
             /\ \A q \in Procs \ {p} : sock'[q] = sock[q]
             /\ sock'[p].req = sock[p].req /\ sock'[p].rep = {}
    <3>1. /\ Others(p) /\ app[p].stage = "read" /\ app'[p].stage = "close"
          /\ UNCHANGED <<app[p].cb, app[p].cfd>>
      BY <1>0, <1>10, ExchangeEffect
    <3>2. /\ sock[p].req # NoPid \/ comp[p].pid # NoPid => sock[p].rep # {}
      BY <2>2, <3>1 DEF ServeInv, Serve, WaitInv
    <3>3. sock[p].req = NoPid /\ comp[p].stage \notin {"fork", "wait", "reply"}
      BY <3>2 DEF ServeInv, Serve, HandlerInv
    <3>4. HandlerInv(p)'
      BY <2>2, <3>3 DEF ServeInv, Serve, HandlerInv
    <3>5. WaitInv(p)'
      BY <2>2, <3>1, <3>3 DEF ServeInv, Serve, WaitInv
    <3>6. AnswerInv(p)'
      BY <2>0, <2>2, <3>1 DEF ServeInv, Serve, AnswerInv, Alive
    <3> QED BY <2>0, <2>2, <3>1, <3>4, <3>5, <3>6, ServeOther DEF ServeInv, Serve, Others
  <2> QED BY <1>0, <1>10, <2>1, <2>2, ExchangeEffect
<1>11. CASE CloseFd(p)
  <2>1. /\ Others(p) /\ app[p].stage = "close" /\ app'[p].stage \in {"hide", "unmount"}
        /\ app[p].errs \subseteq app'[p].errs /\ UNCHANGED app[p].cb
        /\ \A q \in Procs : sock'[q].req = sock[q].req /\ sock'[q].rep = sock[q].rep
    BY <1>0, <1>11, ExchangeEffect DEF Logs
  <2> QED BY <1>11, <1>k, <2>1 DEF CloseFd, Alive
<1>12. CASE DoUnmount(p)
  BY <1>0, <1>12, <1>k, AfterEffect DEF DoUnmount, Advances, Logs, Alive
<1>13. CASE DoHideZygisk(p)
  BY <1>0, <1>13, <1>k, AfterEffect DEF DoHideZygisk, Advances, Logs, Alive
<1>14. CASE PostAppSpecialize(p) \/ DlClose(p)
  BY <1>0, <1>14, <1>k, AfterEffect DEF PostAppSpecialize, DlClose, Advances, Logs, Alive
<1>15. CASE Die(p)
  BY <1>0, <1>15, <1>k, AfterEffect DEF Die, Advances, Logs, Alive
<1> QED BY <1>1, <1>2, <1>3, <1>4, <1>5, <1>6, <1>7, <1>8, <1>9, <1>10, <1>11,
           <1>12, <1>13, <1>14, <1>15 DEF AppStep

(* -1, which forkAndInvoke returns without a child or without its status, is *)
(* not an exit, and neither is a death by signal.                            *)
LEMMA ExitedStatus ==
  /\ ~WIFEXITED(-1)
  /\ \A child \in ChildEnded :
       /\ WaitStatus(child) \in Statuses
       /\ WIFEXITED(WaitStatus(child)) => child \in {"exit0", "exit1"}
<1>1. ~WIFEXITED(-1) /\ ~WIFEXITED(9)
  BY DEF WIFEXITED
<1>2. WaitStatus("exit0") = 0 /\ WaitStatus("exit1") = 256 /\ WaitStatus("killed") = 9
  BY DEF WaitStatus
<1> QED BY <1>1, <1>2 DEF ChildEnded, Statuses

LEMMA HandlerServe ==
  ASSUME IInv, ServeInv, NEW p \in Procs, HandlerStep(p), UNCHANGED app
  PROVE  ServeInv'
<1> USE DEF mountVars
<1>0. /\ comp \in [Procs -> Comps] /\ comp[p] \in Comps
      /\ sock \in [Procs -> Sockets] /\ UNCHANGED clean
      /\ Serve(p)
  BY DEF IInv, TypeOK, CompanionTypeOK, PlatformTypeOK, HandlerStep, Accept, HandlerRead,
         HandlerFork, HandlerWait, HandlerReply, ServeInv
<1>1. ASSUME \A q \in Procs \ {p} : /\ comp'[q] = comp[q]
                                    /\ sock'[q].req = sock[q].req
                                    /\ sock'[q].rep = sock[q].rep,
             Serve(p)'
      PROVE  ServeInv'
  BY <1>0, <1>1, ServeOther DEF ServeInv
<1>2. CASE Accept(p)
  <2>1. comp' = [comp EXCEPT ![p].stage = "read"] /\ UNCHANGED sock /\ comp[p].stage = "idle"
    BY <1>2 DEF Accept
  <2>2. /\ \A q \in Procs \ {p} : comp'[q] = comp[q]
        /\ comp'[p].stage = "read"
        /\ UNCHANGED <<comp[p].pid, comp[p].child, comp[p].status>>
    BY <1>0, <2>1 DEF Comps
  <2>3. Serve(p)'
    BY <1>0, <2>1, <2>2 DEF Serve, HandlerInv, WaitInv, AnswerInv, Alive
  <2> QED BY <1>1, <2>1, <2>2, <2>3
<1>3. CASE HandlerRead(p)
  <2>0. comp[p].stage = "read"
    BY <1>3 DEF HandlerRead
  <2>1. CASE /\ sock[p].req # NoPid
             /\ comp' = [comp EXCEPT ![p].stage = "fork", ![p].pid = sock[p].req]
             /\ sock' = [sock EXCEPT ![p].req = NoPid]
    <3>1. /\ \A q \in Procs \ {p} : comp'[q] = comp[q] /\ sock'[q] = sock[q]
          /\ comp'[p].stage = "fork" /\ comp'[p].pid # NoPid
          /\ sock'[p].req = NoPid /\ sock'[p].rep = sock[p].rep
          /\ UNCHANGED <<comp[p].child, comp[p].status>>
      BY <1>0, <2>1 DEF Comps, Sockets
    <3>2. Serve(p)'
      BY <1>0, <2>0, <2>1, <3>1 DEF Serve, HandlerInv, WaitInv, AnswerInv, Alive
    <3> QED BY <1>1, <3>1, <3>2
  <2>2. CASE comp' = [comp EXCEPT ![p].stage = "done"] /\ HangUp(p)
    <3>1. /\ \A q \in Procs \ {p} : comp'[q] = comp[q] /\ sock'[q] = sock[q]
          /\ comp'[p].stage = "done"
          /\ sock'[p].req = sock[p].req /\ sock'[p].rep = sock[p].rep
          /\ UNCHANGED <<comp[p].pid, comp[p].child, comp[p].status>>
      BY <1>0, <2>2 DEF HangUp, Comps, Sockets
    <3>2. Serve(p)'
      BY <1>0, <2>0, <3>1 DEF Serve, HandlerInv, WaitInv, AnswerInv, Alive
    <3> QED BY <1>1, <3>1, <3>2
  <2> QED BY <1>3, <2>1, <2>2 DEF HandlerRead
<1>4. CASE HandlerFork(p)
  <2>1. PICK ok \in BOOLEAN :
          comp' = [comp EXCEPT ![p].stage = IF ok THEN "wait" ELSE "reply",
                               ![p].child = IF ok THEN "setns" ELSE "none"]
    BY <1>4 DEF HandlerFork, Returns
  <2>2. /\ \A q \in Procs \ {p} : comp'[q] = comp[q]
        /\ comp[p].stage = "fork"
        /\ comp'[p].stage \in {"wait", "reply"} /\ comp'[p].child \in {"setns", "none"}
        /\ UNCHANGED <<comp[p].pid, comp[p].status>>
    BY <1>0, <1>4, <2>1 DEF HandlerFork, Comps
  <2>5. \A q \in Procs : sock'[q].req = sock[q].req /\ sock'[q].rep = sock[q].rep
    BY <1>0, <1>4 DEF HandlerFork, Inherit, Sockets
  <2>3. comp[p].status = -1 /\ comp[p].child = "none" /\ sock[p].rep = {}
    BY <1>0, <2>2 DEF Serve, HandlerInv, ChildEnded
  <2>4. Serve(p)'
    BY <1>0, <2>2, <2>3, <2>5 DEF Serve, HandlerInv, WaitInv, AnswerInv, Alive
  <2> QED BY <1>1, <2>2, <2>4, <2>5
<1>5. CASE HandlerWait(p)
  <2>0. comp[p].stage = "wait" /\ UNCHANGED sock
    BY <1>5 DEF HandlerWait
  <2>1. CASE /\ comp[p].child \in ChildEnded
             /\ comp' = [comp EXCEPT ![p].stage = "reply",
                                     ![p].status = WaitStatus(comp[p].child)]
    <3>1. /\ \A q \in Procs \ {p} : comp'[q] = comp[q]
          /\ comp'[p].stage = "reply" /\ comp'[p].status = WaitStatus(comp[p].child)
          /\ UNCHANGED <<comp[p].pid, comp[p].child>>
      BY <1>0, <2>1 DEF Comps
    <3>2. Serve(p)'
      BY <1>0, <2>0, <2>1, <3>1 DEF Serve, HandlerInv, WaitInv, AnswerInv, Alive
    <3> QED BY <1>1, <2>0, <3>1, <3>2
  <2>2. CASE comp' = [comp EXCEPT ![p].stage = "reply"]
    <3>1. /\ \A q \in Procs \ {p} : comp'[q] = comp[q]
          /\ comp'[p].stage = "reply"
          /\ UNCHANGED <<comp[p].pid, comp[p].child, comp[p].status>>
      BY <1>0, <2>2 DEF Comps
    <3>2. Serve(p)'
      BY <1>0, <2>0, <3>1 DEF Serve, HandlerInv, WaitInv, AnswerInv, Alive
    <3> QED BY <1>1, <2>0, <3>1, <3>2
  <2> QED BY <1>5, <2>1, <2>2 DEF HandlerWait
<1>6. CASE HandlerReply(p)
  <2>0. comp[p].stage = "reply"
    BY <1>6 DEF HandlerReply
  <2>1. /\ \A q \in Procs \ {p} : comp'[q] = comp[q] /\ sock'[q] = sock[q]
        /\ comp'[p].stage = "done"
        /\ UNCHANGED <<comp[p].pid, comp[p].child, comp[p].status>>
    BY <1>0, <1>6 DEF HandlerReply, Comps
  <2>2. /\ sock'[p].req = sock[p].req
        /\ sock'[p].rep = {WIFEXITED(comp[p].status)} \/ sock'[p].rep = sock[p].rep
    BY <1>0, <1>6 DEF HandlerReply, Sockets
  <2>3. WIFEXITED(comp[p].status) => comp[p].child \in {"exit0", "exit1"}
    BY <1>0, ExitedStatus DEF Serve, HandlerInv
  <2>4. HandlerInv(p)' /\ WaitInv(p)'
    BY <1>0, <2>0, <2>1, <2>2 DEF Serve, HandlerInv, WaitInv, Alive
  <2>5. AnswerInv(p)'
    <3>1. TRUE \in sock'[p].rep => WIFEXITED(comp[p].status) \/ TRUE \in sock[p].rep
      BY <2>2
    <3> QED BY <1>0, <2>1, <2>3, <3>1 DEF Serve, AnswerInv, Alive
  <2> QED BY <1>1, <2>1, <2>4, <2>5 DEF Serve
<1> QED BY <1>2, <1>3, <1>4, <1>5, <1>6 DEF HandlerStep

(* The child, alive or killed.  It never goes back, and while its requester  *)
(* lives it comes out of doUnmount with the requester's namespace clean.     *)
LEMMA ChildServe ==
  ASSUME IInv, ServeInv, NEW p \in Procs, UNCHANGED app,
         ChildStep(p, HoldersOf(comp[p].pid)) \/ ChildKilled(p)
  PROVE  ServeInv'
<1> USE DEF mountVars
<1>0. /\ comp \in [Procs -> Comps] /\ comp[p] \in Comps /\ Serve(p)
      /\ sock \in [Procs -> Sockets]
  BY DEF IInv, TypeOK, CompanionTypeOK, PlatformTypeOK, ServeInv
<1>s. \A q \in Procs : sock'[q].req = sock[q].req /\ sock'[q].rep = sock[q].rep
  BY <1>0 DEF ChildStep, ChildSwitchMountNS, ChildUnmount, ChildFinish, ChildKilled,
              EndChild, Sockets
<1>1. /\ \A q \in Procs \ {p} : comp'[q] = comp[q]
      /\ UNCHANGED <<comp[p].stage, comp[p].pid, comp[p].status>>
      /\ clean \subseteq clean'
      /\ comp[p].child \in ChildWorks
      /\ \/ comp'[p].child \in {"exit1", "killed", "unmount"}
         \/ comp[p].child = "unmount" /\ comp'[p].child = "remount"
              /\ clean' = clean \cup Propagated(comp[p].childNs)
         \/ comp[p].child = "remount" /\ comp'[p].child = "mrprop"
         \/ comp[p].child = "mrprop" /\ comp'[p].child = "exit0"
  <2>1. CASE ChildSwitchMountNS(p, HoldersOf(comp[p].pid))
    <3>1. CASE comp' = [comp EXCEPT ![p].child = "exit1"]
      BY <1>0, <2>1, <3>1 DEF ChildSwitchMountNS, Comps, ChildWorks
    <3>2. CASE \E n \in HoldersOf(comp[p].pid) :
                 comp' = [comp EXCEPT ![p].child = "unmount", ![p].childNs = n]
      <4>1. PICK n \in HoldersOf(comp[p].pid) :
              comp' = [comp EXCEPT ![p].child = "unmount", ![p].childNs = n]
        BY <3>2
      <4>2. comp'[p] = [comp[p] EXCEPT !.child = "unmount", !.childNs = n]
            /\ \A q \in Procs \ {p} : comp'[q] = comp[q]
        BY <1>0, <4>1
      <4> QED BY <1>0, <2>1, <4>2 DEF ChildSwitchMountNS, Comps, ChildWorks
    <3> QED BY <2>1, <3>1, <3>2 DEF ChildSwitchMountNS, EndChild
  <2>2. CASE ChildUnmount(p)
    BY <1>0, <2>2 DEF ChildUnmount, Comps, ChildWorks
  <2>3. CASE ChildFinish(p)
    BY <1>0, <2>3 DEF ChildFinish, EndChild, Comps, ChildWorks
  <2>4. CASE ChildKilled(p)
    BY <1>0, <2>4 DEF ChildKilled, EndChild, Comps
  <2> QED BY <2>1, <2>2, <2>3, <2>4 DEF ChildStep
<1>2. HandlerInv(p)' /\ WaitInv(p)'
  BY <1>0, <1>s, <1>1 DEF Serve, HandlerInv, WaitInv, Alive, ChildWorks, ChildEnded
<1>3. AnswerInv(p)'
  <2>1. comp[p].child # "exit1"
    BY <1>1 DEF ChildWorks
  <2>2. comp[p].child = "unmount" /\ Alive(p) => p \in Propagated(comp[p].childNs)
    BY DEF IInv, ChildInv, ChildWorks, Propagated
  <2> QED BY <1>0, <1>s, <1>1, <2>1, <2>2 DEF Serve, AnswerInv, Alive
<1> QED BY <1>s, <1>1, <1>2, <1>3, ServeOther DEF ServeInv, Serve

LEMMA DaemonServe ==
  ASSUME IInv, ServeInv, DaemonDies, UNCHANGED app
  PROVE  ServeInv'
<1>1. comp \in [Procs -> Comps] /\ sock \in [Procs -> Sockets] /\ UNCHANGED clean
  BY DEF IInv, TypeOK, CompanionTypeOK, PlatformTypeOK, DaemonDies, mountVars
<1>2. ASSUME NEW q \in Procs PROVE Serve(q)'
  <2>1. /\ comp'[q].stage = comp[q].stage \/ comp'[q].stage = "done"
        /\ UNCHANGED <<comp[q].pid, comp[q].child, comp[q].status>>
    <3>1. comp'[q] = comp[q] \/ comp'[q] = [comp[q] EXCEPT !.stage = "done"]
      BY <1>1 DEF DaemonDies
    <3>2. comp[q] \in Comps
      BY <1>1
    <3> QED BY <3>1, <3>2 DEF Comps
  <2>2. UNCHANGED <<sock[q].req, sock[q].rep>>
    BY <1>1 DEF DaemonDies, Sockets
  <2> QED BY <1>1, <2>1, <2>2 DEF ServeInv, Serve, HandlerInv, WaitInv, AnswerInv, Alive
<1> QED BY <1>2 DEF ServeInv

LEMMA NextServe ==
  ASSUME IInv, CourseInv, ServeInv, [Next]_vars
  PROVE  ServeInv'
<1>1. CASE UNCHANGED vars
  BY <1>1 DEF vars, ServeInv, Serve, HandlerInv, WaitInv, AnswerInv, Alive
<1> QED BY <1>1, AppServe, HandlerServe, ChildServe, DaemonServe
        DEF Next, Handler, Child, Terminated

LEMMA InitServe == Init => ServeInv
<1>1. ASSUME Init, NEW p \in Procs
      PROVE  /\ app[p].stage = "unborn"
             /\ sock[p].req = NoPid /\ sock[p].rep = {}
             /\ comp[p].stage = "idle" /\ comp[p].pid = NoPid /\ comp[p].child = "none"
             /\ comp[p].status = -1
  BY <1>1 DEF Init, PlatformInit, ModuleInit, CompanionInit
<1> QED BY <1>1 DEF ServeInv, Serve, HandlerInv, WaitInv, AnswerInv, Alive

-----------------------------------------------------------------------------
(* Where the process is.                                                    *)

(* Only a process that was to be hidden, whose callback has run, is in an    *)
(* MS_SLAVE namespace.                                                       *)
SlaveInv(p) ==
  p \in slave => /\ app[p].stage \notin {"unborn", "loaded", "ns"}
                 /\ app[p].target /\ app[p].cb = "noop"

(* What Zygote was told about unshare is true, or a failure was logged. *)
ToldInv(p) ==
  app[p].told /\ ns[p] = ZygoteNs => app[p].errs \cap {"hook", "unshare"} # {}

(* Once the callback is past new_mount_ns, and past doUnmount. *)
HiddenInv(p) ==
  /\ app[p].target /\ app[p].cb = "noop" /\ app[p].stage \notin {"ns", "dead"} =>
       /\ ns[p] = p \/ app[p].errs \cap {"hook", "unshare"} # {}
       /\ p \in slave \/ app[p].errs \cap {"hook", "unshare", "slave"} # {}
       /\ p \in clean \/ GivenUp(p) \/ app[p].stage \in InCallback \ {"hide"}
  /\ app[p].stage = "close" /\ app[p].res => p \in clean \/ GivenUp(p)

Place(p) == SlaveInv(p) /\ ToldInv(p) /\ HiddenInv(p)

PlaceInv == \A p \in Procs : Place(p)

(* Where no pid is given twice a namespace is emptied only after MS_SLAVE. *)
CleanInv == \A p \in Procs : p \in clean => p \in slave

LEMMA PlaceOther ==
  ASSUME NEW q \in Procs, Place(q), app'[q] = app[q], ns'[q] = ns[q],
         q \in slave' => q \in slave, q \in slave => q \in slave',
         clean \subseteq clean', comp[q].child = "exit1" => comp'[q].child = "exit1"
  PROVE  Place(q)'
  BY DEF Place, SlaveInv, ToldInv, HiddenInv, GivenUp

LEMMA AppPlace ==
  ASSUME IInv, CourseInv, ServeInv, PlaceInv, NEW p \in Procs,
         AppStep(p) \/ Die(p), UNCHANGED comp
  PROVE  PlaceInv'
<1> USE DEF mountVars
<1>0. /\ TypeOK /\ app[p] \in Apps /\ ns \in [Procs -> Namespaces]
      /\ Place(p) /\ Course(app[p])
  BY DEF IInv, TypeOK, ModuleTypeOK, PlatformTypeOK, PlaceInv, CourseInv
<1>1. ASSUME Others(p), Place(p)', clean \subseteq clean',
             ns' = ns \/ ns' = [ns EXCEPT ![p] = p],
             slave' = slave \/ slave' = slave \cup {p}
      PROVE  PlaceInv'
  <2>1. ASSUME NEW q \in Procs, q # p PROVE Place(q)'
    BY <1>0, <1>1, <2>1, PlaceOther DEF PlaceInv, Others
  <2> QED BY <1>1, <2>1 DEF PlaceInv
<1> USE DEF Place, SlaveInv, ToldInv, HiddenInv, GivenUp, InCallback, Logs, Advances
<1>h. ASSUME NEW sym, NEW f, NEW n, EnterHook(p, sym, f, n), app[p].stage = "zygote",
             UNCHANGED <<ns, slave, clean>>,
             app[p].got["unshare"] = "new" \/ app[p].got["setresuid"] = "new"
      PROVE  PlaceInv'
  <2>1. /\ Others(p)
        /\ app'[p].stage = IF app[p].cb = "armed" THEN "ns" ELSE "ret"
        /\ app'[p].cb = "noop"
        /\ UNCHANGED <<app[p].target, app[p].told, app[p].res, app[p].stray>>
        /\ app[p].errs \subseteq app'[p].errs
    BY <1>0, <1>h, EnterHookEffect
  <2>2. app[p].cb \in {"armed", "noop"} /\ app[p].target
    BY <1>0, <1>h DEF Apps, Callbacks, Course, HooksHeld, Syms
  <2>3. Place(p)'
    BY <1>0, <1>h, <2>1, <2>2
  <2> QED BY <1>1, <1>h, <2>1, <2>3
<1>2. CASE Fork(p)
  <2>1. Others(p) /\ Advances(p, "unborn", "loaded") /\ Logs(p, {}) /\ UNCHANGED <<ns, slave, clean>>
    BY <1>0, <1>2, BeforeEffect DEF Fork
  <2>2. ~app[p].target
    BY <1>0, <2>1 DEF Course, Untouched
  <2>3. Place(p)'
    BY <1>0, <2>1, <2>2
  <2> QED BY <1>1, <2>1, <2>3
<1>3. CASE RegisterFails(p) \/ PreServerSpecialize(p)
  <2>1. Others(p) /\ Advances(p, "loaded", "zygote") /\ Logs(p, {}) /\ UNCHANGED <<ns, slave, clean>>
    BY <1>0, <1>3, BeforeEffect DEF RegisterFails, PreServerSpecialize
  <2>2. ~app[p].target
    BY <1>0, <2>1 DEF Course, Untouched
  <2>3. Place(p)'
    BY <1>0, <2>1, <2>2
  <2> QED BY <1>1, <2>1, <2>3
<1>4. CASE PreAppSpecialize(p)
  <2>0. /\ UNCHANGED <<ns, slave, clean>> /\ app[p].stage = "loaded"
        /\ ~app[p].target /\ ~app[p].told
    BY <1>0, <1>4 DEF PreAppSpecialize, Course, Untouched
  <2>1. CASE Others(p) /\ Advances(p, "loaded", "zygote") /\ Logs(p, {})
    <3>1. Place(p)'
      BY <1>0, <2>0, <2>1
    <3> QED BY <1>1, <2>0, <2>1, <3>1
  <2>2. CASE /\ Others(p) /\ app'[p].stage = "zygote" /\ app'[p].target
             /\ app'[p].cb = IF "hook" \in app'[p].errs THEN "noop" ELSE "armed"
             /\ UNCHANGED app[p].told
    <3>1. Place(p)'
      BY <1>0, <2>0, <2>2
    <3> QED BY <1>1, <2>0, <2>2, <3>1
  <2> QED BY <1>0, <1>4, <2>1, <2>2, PreAppEffect
<1>5. CASE ZygoteClosesFd(p)
  <2>1. /\ Others(p) /\ Logs(p, {}) /\ UNCHANGED <<ns, slave, clean>>
        /\ UNCHANGED <<app[p].stage, app[p].target, app[p].cb, app[p].told, app[p].res,
                       app[p].stray>>
    BY <1>0, <1>5, ZygoteEffect DEF ZygoteClosesFd
  <2>2. Place(p)'
    BY <1>0, <2>1
  <2> QED BY <1>1, <2>1, <2>2
<1>6. ASSUME NEW f \in SUBSET CloneFlags, CallUnshare(p, f)
      PROVE  PlaceInv'
  <2>0. UNCHANGED <<slave, clean>> /\ app[p].stage = "zygote"
    BY <1>6 DEF CallUnshare
  <2>1. CASE Others(p) /\ Advances(p, "zygote", "zygote") /\ Logs(p, {}) /\ UNCHANGED ns
    <3>1. Place(p)'
      BY <1>0, <2>0, <2>1
    <3> QED BY <1>1, <2>0, <2>1, <3>1
  <2>2. CASE /\ Others(p) /\ Logs(p, {}) /\ ns' = [ns EXCEPT ![p] = p]
             /\ UNCHANGED <<app[p].stage, app[p].target, app[p].cb, app[p].res, app[p].stray>>
    <3>1. ns'[p] = p /\ p # ZygoteNs
      BY <1>0, <2>2, PlatformAssumption
    <3>2. Place(p)'
      BY <1>0, <2>0, <2>2, <3>1
    <3> QED BY <1>1, <2>0, <2>2, <3>2
  <2>3. CASE /\ EnterHook(p, "unshare", f, app[p].calls + 1)
             /\ app[p].got["unshare"] = "new" /\ UNCHANGED ns
    BY <1>h, <2>0, <2>3
  <2> QED BY <1>0, <1>6, <2>1, <2>2, <2>3, ZygoteEffect
<1>7. CASE CallSetresuid(p)
  <2>0. UNCHANGED <<ns, slave, clean>> /\ app[p].stage = "zygote"
    BY <1>7 DEF CallSetresuid
  <2>1. CASE /\ Others(p) /\ Logs(p, {}) /\ app'[p].stage = "dropped"
             /\ UNCHANGED <<app[p].target, app[p].cb, app[p].told, app[p].res, app[p].stray>>
    <3>1. Place(p)'
      BY <1>0, <2>0, <2>1
    <3> QED BY <1>1, <2>0, <2>1, <3>1
  <2>2. CASE /\ EnterHook(p, "setresuid", {}, app[p].calls)
             /\ app[p].got["setresuid"] = "new"
    BY <1>h, <2>0, <2>2
  <2> QED BY <1>0, <1>7, <2>1, <2>2, ZygoteEffect
<1>8. CASE ReturnFromUnshare(p)
  <2>1. /\ Others(p) /\ app[p].stage = "ret" /\ app'[p].stage = "zygote" /\ Logs(p, {})
        /\ UNCHANGED <<ns, slave, clean>>
        /\ UNCHANGED <<app[p].target, app[p].cb, app[p].res, app[p].stray>>
    BY <1>0, <1>8, ReturnEffect DEF ReturnFromUnshare
  <2>2. app[p].target /\ app[p].cb = "noop" /\ p # ZygoteNs
    BY <1>0, <2>1, PlatformAssumption DEF Course, ArmedOnce
  <2>3. Place(p)'
    BY <1>0, <2>1, <2>2
  <2> QED BY <1>1, <2>1, <2>3
<1>9. CASE ReturnFromSetresuid(p)
  <2>1. /\ Others(p) /\ app[p].stage = "ret" /\ app'[p].stage = "dropped" /\ Logs(p, {})
        /\ UNCHANGED <<ns, slave, clean>>
        /\ UNCHANGED <<app[p].target, app[p].cb, app[p].told, app[p].res, app[p].stray>>
    BY <1>0, <1>9, ReturnEffect DEF ReturnFromSetresuid
  <2>2. Place(p)'
    BY <1>0, <2>1
  <2> QED BY <1>1, <2>1, <2>2
<1>10. CASE NewMountNs(p)
  <2>0. /\ Others(p) /\ app[p].stage = "ns" /\ UNCHANGED clean
        /\ UNCHANGED <<app[p].target, app[p].cb, app[p].told, app[p].res, app[p].stray>>
    BY <1>0, <1>10, NewMountNsEffect
  <2>1. /\ app[p].target /\ app[p].cb = "noop" /\ p \notin slave /\ p # ZygoteNs
    BY <1>0, <2>0, PlatformAssumption DEF Course, ArmedOnce
  <2>2. CASE /\ app'[p].stage = "ret" /\ UNCHANGED <<ns, slave>>
             /\ Logs(p, {"unshare", "reopen"}) /\ "unshare" \in app'[p].errs
    <3>1. Place(p)'
      BY <1>0, <2>0, <2>1, <2>2
    <3> QED BY <1>1, <2>0, <2>2, <3>1
  <2>3. CASE /\ app'[p].stage = "ret" /\ ns' = [ns EXCEPT ![p] = p] /\ UNCHANGED slave
             /\ Logs(p, {"slave", "reopen"}) /\ "slave" \in app'[p].errs
    <3>1. ns'[p] = p
      BY <1>0, <2>3
    <3>2. Place(p)'
      BY <1>0, <2>0, <2>1, <2>3, <3>1
    <3> QED BY <1>1, <2>0, <2>3, <3>2
  <2>4. CASE /\ app'[p].stage = IF app[p].cfd = "none" THEN "unmount" ELSE "write"
             /\ ns' = [ns EXCEPT ![p] = p] /\ slave' = slave \cup {p} /\ Logs(p, {})
    <3>1. ns'[p] = p /\ p \in slave' /\ app'[p].stage \in {"unmount", "write"}
      BY <1>0, <2>4
    <3>2. Place(p)'
      BY <1>0, <2>0, <2>1, <2>4, <3>1
    <3> QED BY <1>1, <2>0, <2>4, <3>2
  <2> QED BY <1>0, <1>10, <2>2, <2>3, <2>4, NewMountNsEffect
<1>11. CASE WritePid(p)
  <2>1. /\ Others(p) /\ app[p].stage = "write" /\ app'[p].stage \in {"read", "close"}
        /\ app[p].errs \subseteq app'[p].errs
        /\ UNCHANGED <<ns, slave, clean>>
        /\ UNCHANGED <<app[p].target, app[p].cb, app[p].told, app[p].res>>
    BY <1>0, <1>11, ExchangeEffect DEF WritePid
  <2>2. ~app[p].res /\ ~app[p].stray
    BY <1>0, <2>1 DEF Course, ArmedOnce
  <2>3. Place(p)'
    BY <1>0, <2>1, <2>2
  <2> QED BY <1>1, <2>1, <2>3
<1>12. CASE ReadResult(p)
  <2>1. /\ Others(p) /\ app[p].stage = "read" /\ app'[p].stage = "close"
        /\ app[p].errs \subseteq app'[p].errs
        /\ UNCHANGED <<ns, slave, clean>>
        /\ UNCHANGED <<app[p].target, app[p].cb, app[p].told, app[p].stray>>
    BY <1>0, <1>12, ExchangeEffect DEF ReadResult
  <2>2. app'[p].res => p \in clean \/ comp[p].child = "exit1" \/ app[p].stray
    <3>1. /\ ~app[p].res
          /\ app[p].cfd \in {"open", "reused"} /\ (app[p].cfd = "reused" => app[p].stray)
      BY <1>0, <2>1 DEF Course, ArmedOnce, FdUse
    <3>2. \/ /\ app'[p].res \in BOOLEAN
             /\ app[p].cfd = "open" => app'[p].res \in sock[p].rep
          \/ app'[p].res = app[p].res
      BY <1>0, <1>12, ExchangeEffect
    <3>3. TRUE \in sock[p].rep => p \in clean \/ comp[p].child = "exit1"
      BY <2>1 DEF ServeInv, Serve, AnswerInv, Alive
    <3> QED BY <3>1, <3>2, <3>3
  <2>3. Place(p)'
    BY <1>0, <2>1, <2>2
  <2> QED BY <1>1, <2>1, <2>3
<1>13. CASE CloseFd(p)
  <2>1. /\ Others(p) /\ app[p].stage = "close" /\ Logs(p, {})
        /\ app'[p].stage = (IF app[p].res THEN "hide" ELSE "unmount")
        /\ UNCHANGED <<app[p].target, app[p].cb, app[p].told, app[p].res, app[p].stray>>
        /\ UNCHANGED <<ns, slave, clean>>
    BY <1>0, <1>13, ExchangeEffect DEF CloseFd
  <2>2. Place(p)'
    BY <1>0, <2>1
  <2> QED BY <1>1, <2>1, <2>2
<1>14. CASE DoUnmount(p)
  <2>1. /\ Others(p) /\ Advances(p, "unmount", "hide") /\ Logs(p, {})
        /\ UNCHANGED <<ns, slave>> /\ clean' = clean \cup Propagated(ns[p])
    BY <1>0, <1>14, AfterEffect DEF DoUnmount
  <2>2. ns[p] \in clean' /\ ns[p] = p
    BY <2>1 DEF Propagated, IInv, NsInv, Isolated
  <2>3. Place(p)'
    BY <1>0, <2>1, <2>2
  <2> QED BY <1>1, <2>1, <2>3
<1>15. CASE DoHideZygisk(p) \/ PostAppSpecialize(p) \/ DlClose(p) \/ Die(p)
  <2>1. /\ Others(p) /\ app[p].errs \subseteq app'[p].errs
        /\ UNCHANGED <<app[p].target, app[p].cb, app[p].told, app[p].res, app[p].stray>>
        /\ UNCHANGED <<ns, slave, clean>>
        /\ \/ app[p].stage = "hide" /\ app'[p].stage = "ret"
           \/ app[p].stage = "dropped" /\ app'[p].stage = "post"
           \/ app[p].stage = "post" /\ app'[p].stage = "running"
           \/ app'[p].stage = "dead"
    BY <1>0, <1>15, AfterEffect DEF DoHideZygisk, PostAppSpecialize, DlClose, Die
  <2>2. Place(p)'
    BY <1>0, <2>1
  <2> QED BY <1>1, <2>1, <2>2
<1> QED BY <1>2, <1>3, <1>4, <1>5, <1>6, <1>7, <1>8, <1>9, <1>10, <1>11, <1>12,
           <1>13, <1>14, <1>15 DEF AppStep

(* What the companion does to where processes are: only a child in its       *)
(* doUnmount empties a namespace, and a child that exited with 1 stays so.   *)
LEMMA CompEffect ==
  ASSUME IInv, ServeInv, NEW p \in Procs,
         HandlerStep(p) \/ ChildStep(p, HoldersOf(comp[p].pid)) \/ ChildKilled(p)
  PROVE  /\ UNCHANGED <<ns, slave>>
         /\ \A q \in Procs \ {p} : comp'[q].child = comp[q].child
         /\ comp[p].child = "exit1" => comp'[p].child = "exit1"
         /\ \/ UNCHANGED clean
            \/ /\ comp[p].child = "unmount" /\ comp'[p].child = "remount"
               /\ clean' = clean \cup Propagated(comp[p].childNs)
<1> USE DEF mountVars
<1>0. comp \in [Procs -> Comps] /\ comp[p] \in Comps
  BY DEF IInv, TypeOK, CompanionTypeOK
<1>1. CASE HandlerFork(p)
  <2>1. comp[p].child = "none"
    BY <1>1 DEF HandlerFork, ServeInv, Serve, HandlerInv
  <2>2. \A q \in Procs \ {p} : comp'[q] = comp[q]
    BY <1>0, <1>1 DEF HandlerFork
  <2> QED BY <1>1, <2>1, <2>2 DEF HandlerFork
<1>2. CASE Accept(p) \/ HandlerRead(p) \/ HandlerWait(p) \/ HandlerReply(p)
  <2>1. \A q \in Procs : comp'[q].child = comp[q].child
    BY <1>0, <1>2 DEF Accept, HandlerRead, HandlerWait, HandlerReply, Comps
  <2> QED BY <1>2, <2>1 DEF Accept, HandlerRead, HandlerWait, HandlerReply
<1>3. CASE ChildSwitchMountNS(p, HoldersOf(comp[p].pid))
  <2>1. \A q \in Procs \ {p} : comp'[q] = comp[q]
    BY <1>0, <1>3 DEF ChildSwitchMountNS, EndChild
  <2> QED BY <1>3, <2>1 DEF ChildSwitchMountNS
<1>4. CASE ChildUnmount(p)
  BY <1>0, <1>4 DEF ChildUnmount, Comps
<1>5. CASE ChildFinish(p) \/ ChildKilled(p)
  <2>1. comp[p].child # "exit1" /\ \A q \in Procs \ {p} : comp'[q] = comp[q]
    BY <1>0, <1>5 DEF ChildFinish, ChildKilled, EndChild, ChildWorks
  <2> QED BY <1>5, <2>1 DEF ChildFinish, ChildKilled
<1> QED BY <1>1, <1>2, <1>3, <1>4, <1>5 DEF HandlerStep, ChildStep

LEMMA DaemonEffect ==
  ASSUME IInv, DaemonDies
  PROVE  UNCHANGED <<ns, slave, clean>> /\ \A q \in Procs : comp'[q].child = comp[q].child
<1>1. comp \in [Procs -> Comps]
  BY DEF IInv, TypeOK, CompanionTypeOK
<1>2. \A q \in Procs : comp'[q] = comp[q] \/ comp'[q] = [comp[q] EXCEPT !.stage = "done"]
  BY <1>1 DEF DaemonDies
<1>3. ASSUME NEW q \in Procs PROVE comp'[q].child = comp[q].child
  <2>1. comp[q] \in Comps
    BY <1>1
  <2> QED BY <1>2, <2>1 DEF Comps
<1> QED BY <1>3 DEF DaemonDies, mountVars

LEMMA NextPlace ==
  ASSUME IInv, CourseInv, ServeInv, PlaceInv, [Next]_vars
  PROVE  PlaceInv'
<1>1. CASE UNCHANGED vars
  BY <1>1 DEF vars, PlaceInv, Place, SlaveInv, ToldInv, HiddenInv, GivenUp
<1>2. ASSUME UNCHANGED <<app, ns, slave>>, clean \subseteq clean',
             \A q \in Procs : comp[q].child = "exit1" => comp'[q].child = "exit1"
      PROVE  PlaceInv'
  BY <1>2, PlaceOther DEF PlaceInv
<1>3. ASSUME NEW p \in Procs, UNCHANGED app,
             HandlerStep(p) \/ ChildStep(p, HoldersOf(comp[p].pid)) \/ ChildKilled(p)
      PROVE  PlaceInv'
  BY <1>2, <1>3, CompEffect
<1>4. CASE DaemonDies /\ UNCHANGED app
  BY <1>2, <1>4, DaemonEffect
<1> QED BY <1>1, <1>3, <1>4, AppPlace DEF Next, Handler, Child, Terminated

LEMMA InitPlace == Init => PlaceInv
<1>1. ASSUME Init, NEW p \in Procs
      PROVE  /\ app[p].stage = "unborn" /\ ~app[p].target /\ ~app[p].told
             /\ p \notin slave
  BY <1>1 DEF Init, PlatformInit, ModuleInit
<1> QED BY <1>1 DEF PlaceInv, Place, SlaveInv, ToldInv, HiddenInv

-----------------------------------------------------------------------------
(* What becomes of a connection.                                            *)

Serving == {"read", "fork", "wait", "reply"}

(* A process that is left alone has no connection, a handler at work has its *)
(* end of one and so has its child, and a callback that was misled about the *)
(* descriptor has sent nothing.  A read that failed although no read fails   *)
(* of itself has met a hang-up, or another file.                             *)
Conn(p) ==
  /\ ~app[p].target => sock[p].open = {} /\ comp[p].stage = "idle"
  /\ comp[p].stage \in Serving => "comp" \in sock[p].open
  /\ comp[p].child \in ChildWorks => p \in sock[p].held
  /\ app[p].stray => sock[p].req = NoPid /\ comp[p].pid = NoPid
  /\ "read" \in app[p].errs /\ "read" \notin Faults =>
       /\ comp[p].child \notin ChildWorks
       /\ "comp" \notin sock[p].open \/ app[p].stray

ConnInv == \A p \in Procs : Conn(p)

(* What another process or its handler does. *)
LEMMA ConnOther ==
  ASSUME NEW q \in Procs, Conn(q), app'[q] = app[q], comp'[q] = comp[q],
         sock'[q].req = sock[q].req, sock'[q].open = sock[q].open,
         q \in sock[q].held => q \in sock'[q].held
  PROVE  Conn(q)'
  BY DEF Conn

(* Every step of a process but preAppSpecialize leaves its being a target,   *)
(* and the companion's side of the connection, as they are.                  *)
LEMMA AppTarget ==
  ASSUME TypeOK, CourseInv, NEW p \in Procs, AppStep(p) \/ Die(p)
  PROVE  Others(p) /\ (PreAppSpecialize(p) \/ app'[p].target = app[p].target)
<1>h. ASSUME NEW sym, NEW f, NEW n, EnterHook(p, sym, f, n)
      PROVE  Others(p) /\ app'[p].target = app[p].target
  BY <1>h, EnterHookEffect
<1>1. CASE Fork(p) \/ RegisterFails(p) \/ PreServerSpecialize(p)
  BY <1>1, BeforeEffect DEF Advances
<1>2. CASE PreAppSpecialize(p)
  BY <1>2, PreAppEffect
<1>3. CASE ZygoteClosesFd(p)
  BY <1>3, ZygoteEffect
<1>4. ASSUME NEW f \in SUBSET CloneFlags, CallUnshare(p, f)
      PROVE  Others(p) /\ app'[p].target = app[p].target
  BY <1>4, <1>h, ZygoteEffect DEF Advances
<1>5. CASE CallSetresuid(p)
  BY <1>5, <1>h, ZygoteEffect
<1>6. CASE ReturnFromUnshare(p) \/ ReturnFromSetresuid(p)
  BY <1>6, ReturnEffect
<1>7. CASE NewMountNs(p)
  BY <1>7, NewMountNsEffect
<1>8. CASE WritePid(p) \/ ReadResult(p) \/ CloseFd(p)
  BY <1>8, ExchangeEffect
<1>9. CASE DoUnmount(p) \/ DoHideZygisk(p) \/ PostAppSpecialize(p) \/ DlClose(p) \/ Die(p)
  BY <1>9, AfterEffect DEF Advances
<1> QED BY <1>1, <1>2, <1>3, <1>4, <1>5, <1>6, <1>7, <1>8, <1>9 DEF AppStep

LEMMA AppSock ==
  ASSUME TypeOK, NEW p \in Procs, AppStep(p) \/ Die(p)
  PROVE  /\ \A q \in Procs \ {p} : sock'[q] = sock[q]
         /\ sock'[p].held = sock[p].held
         /\ PreAppSpecialize(p) \/ sock'[p].open \in {sock[p].open, sock[p].open \ {"app"}}
<1> USE DEF mountVars
<1>0. sock \in [Procs -> Sockets]
  BY DEF TypeOK, PlatformTypeOK
<1>1. CASE PreAppSpecialize(p)
  <2>1. ASSUME NEW r, NEW u, NEW s, NEW conn, NEW ex, InstallHooks(p, r, u, s, conn, ex)
        PROVE  \E e : sock' = [sock EXCEPT ![p].open = e]
    BY <2>1 DEF InstallHooks
  <2>2. UNCHANGED sock \/ \E e : sock' = [sock EXCEPT ![p].open = e]
    BY <1>1, <2>1 DEF PreAppSpecialize
  <2> QED BY <1>0, <1>1, <2>2 DEF Sockets
<1>2. CASE ZygoteClosesFd(p) \/ CloseFd(p) \/ Die(p)
  <2>1. sock' = [sock EXCEPT ![p].open = @ \ {"app"}]
    BY <1>2 DEF ZygoteClosesFd, CloseFd, Die
  <2> QED BY <1>0, <2>1 DEF Sockets
<1>3. CASE WritePid(p)
  <2>1. UNCHANGED sock \/ \E r : sock' = [sock EXCEPT ![p].req = r]
    BY <1>3 DEF WritePid
  <2> QED BY <1>0, <2>1 DEF Sockets
<1>4. CASE ReadResult(p)
  <2>1. UNCHANGED sock \/ sock' = [sock EXCEPT ![p].rep = {}]
    BY <1>4 DEF ReadResult
  <2> QED BY <1>0, <2>1 DEF Sockets
<1>5. CASE UNCHANGED sock
  BY <1>5
<1>6. \/ PreAppSpecialize(p) \/ ZygoteClosesFd(p) \/ CloseFd(p) \/ Die(p)
      \/ WritePid(p) \/ ReadResult(p) \/ UNCHANGED sock
  BY DEF AppStep, Fork, RegisterFails, PreServerSpecialize, CallUnshare, CallSetresuid,
     ReturnFromUnshare, ReturnFromSetresuid, NewMountNs, DoUnmount, DoHideZygisk,
     PostAppSpecialize, DlClose
<1> QED BY <1>1, <1>2, <1>3, <1>4, <1>5, <1>6

LEMMA AppConn ==
  ASSUME IInv, CourseInv, ServeInv, ConnInv, NEW p \in Procs,
         AppStep(p) \/ Die(p), UNCHANGED comp
  PROVE  ConnInv'
<1> USE DEF mountVars
<1>0. /\ TypeOK /\ app[p] \in Apps /\ Conn(p) /\ Serve(p) /\ Course(app[p])
      /\ Others(p)
  BY AppTarget DEF IInv, TypeOK, ModuleTypeOK, ConnInv, ServeInv, CourseInv
<1>1. ASSUME Conn(p)' PROVE ConnInv'
  <2>1. ASSUME NEW q \in Procs, q # p PROVE Conn(q)'
    BY <1>0, <2>1, AppSock, ConnOther DEF Others, ConnInv
  <2> QED BY <1>1, <2>1 DEF ConnInv
<1>2. CASE PreAppSpecialize(p)
  <2>1. /\ app[p].stage = "loaded" /\ ~app[p].target /\ ~app[p].stray /\ app[p].errs = {}
        /\ sock'[p].held = sock[p].held
    BY <1>0, <1>2, AppSock DEF PreAppSpecialize, Course, Untouched
  <2>2. comp[p].stage = "idle" /\ comp[p].child = "none" /\ comp[p].pid = NoPid
        /\ sock[p].open = {}
    BY <1>0, <2>1 DEF Conn, Serve, HandlerInv
  <2>3. \/ UNCHANGED <<app[p].target, sock>>
        \/ app'[p].target /\ sock'[p].req = sock[p].req
    BY <1>0, <1>2, PreAppEffect DEF Advances
  <2>4. UNCHANGED app[p].stray /\ "read" \notin app'[p].errs
    BY <1>0, <1>2, <2>1, PreAppEffect DEF Advances, Logs
  <2>5. Conn(p)'
    BY <1>0, <2>1, <2>2, <2>3, <2>4 DEF Conn, Serving, ChildWorks
  <2> QED BY <1>1, <2>5
<1>3. CASE ~PreAppSpecialize(p)
  <2>0. /\ app'[p].target = app[p].target
        /\ sock'[p].open \in {sock[p].open, sock[p].open \ {"app"}}
        /\ sock'[p].held = sock[p].held
    BY <1>0, <1>3, AppTarget, AppSock
  <2>k. ASSUME app'[p].stray = app[p].stray, "read" \in app'[p].errs => "read" \in app[p].errs,
               sock'[p].req = sock[p].req
        PROVE  ConnInv'
    <3>1. Conn(p)'
      BY <1>0, <2>0, <2>k DEF Conn
    <3> QED BY <1>1, <3>1
  <2>h. ASSUME NEW sym, NEW f, NEW n, EnterHook(p, sym, f, n), UNCHANGED sock
        PROVE  ConnInv'
    BY <1>0, <2>k, <2>h, EnterHookEffect DEF Logs
  <2>1. CASE Fork(p) \/ RegisterFails(p) \/ PreServerSpecialize(p)
    BY <1>0, <2>1, <2>k, BeforeEffect
       DEF Fork, RegisterFails, PreServerSpecialize, Advances, Logs
  <2>2. CASE ZygoteClosesFd(p)
    BY <1>0, <2>2, <2>k, ZygoteEffect DEF Logs
  <2>3. ASSUME NEW f \in SUBSET CloneFlags, CallUnshare(p, f)
        PROVE  ConnInv'
    <3>1. UNCHANGED sock
      BY <2>3 DEF CallUnshare
    <3> QED BY <1>0, <2>3, <2>k, <2>h, <3>1, ZygoteEffect DEF Advances, Logs
  <2>4. CASE CallSetresuid(p)
    <3>1. UNCHANGED sock
      BY <2>4 DEF CallSetresuid
    <3> QED BY <1>0, <2>4, <2>k, <2>h, <3>1, ZygoteEffect DEF Logs
  <2>5. CASE ReturnFromUnshare(p) \/ ReturnFromSetresuid(p)
    <3>1. UNCHANGED sock
      BY <2>5 DEF ReturnFromUnshare, ReturnFromSetresuid
    <3> QED BY <1>0, <2>5, <2>k, <3>1, ReturnEffect DEF Logs
  <2>6. CASE NewMountNs(p)
    BY <1>0, <2>6, <2>k, NewMountNsEffect DEF Logs
  <2>7. CASE WritePid(p)
    <3>1. /\ app[p].stage = "write" /\ app'[p].stray = (app[p].cfd = "reused")
          /\ Logs(p, {"write"})
          /\ sock'[p].req = sock[p].req \/ app[p].cfd = "open"
      BY <1>0, <2>7, ExchangeEffect DEF Logs
    <3>2. sock[p].req = NoPid /\ comp[p].pid = NoPid /\ ~app[p].stray
      BY <1>0, <3>1 DEF Serve, WaitInv, Course, ArmedOnce
    <3>3. Conn(p)'
      BY <1>0, <2>0, <3>1, <3>2 DEF Conn, Logs
    <3> QED BY <1>1, <3>3
  <2>8. CASE ReadResult(p)
    <3>1. CASE Logs(p, {}) /\ sock'[p].req = sock[p].req
      BY <1>0, <2>8, <2>k, <3>1, ExchangeEffect DEF Logs
    <3>2. CASE /\ UNCHANGED sock
               /\ app[p].cfd # "open" \/ HungUp(p) \/ "read" \in Faults
      <4>1. app[p].stage = "read" /\ app'[p].stray = app[p].stray
        BY <1>0, <2>8, ExchangeEffect
      <4>2. app[p].cfd # "open" => app[p].stray
        BY <1>0, <4>1 DEF Course, FdUse
      <4>3. app[p].stray => comp[p].child \notin ChildWorks
        BY <1>0 DEF Conn, IInv, RequestInv, ChildWorks
      <4>4. HungUp(p) => comp[p].child \notin ChildWorks /\ "comp" \notin sock[p].open
        BY <1>0 DEF Conn, HungUp
      <4>5. Conn(p)'
        BY <1>0, <2>0, <3>2, <4>1, <4>2, <4>3, <4>4 DEF Conn
      <4> QED BY <1>1, <4>5
    <3> QED BY <1>0, <2>8, <3>1, <3>2, ExchangeEffect
  <2>9. CASE CloseFd(p)
    BY <1>0, <2>9, <2>k, ExchangeEffect DEF Logs
  <2>10. CASE DoUnmount(p) \/ DoHideZygisk(p) \/ PostAppSpecialize(p) \/ DlClose(p)
    <3>1. UNCHANGED sock
      BY <2>10 DEF DoUnmount, DoHideZygisk, PostAppSpecialize, DlClose
    <3> QED BY <1>0, <2>10, <2>k, <3>1, AfterEffect DEF Advances, Logs
  <2>11. CASE Die(p)
    BY <1>0, <2>11, <2>k, AfterEffect DEF Advances, Logs
  <2> QED BY <1>3, <2>1, <2>2, <2>3, <2>4, <2>5, <2>6, <2>7, <2>8, <2>9, <2>10, <2>11
          DEF AppStep
<1> QED BY <1>2, <1>3

LEMMA HandlerConn ==
  ASSUME IInv, ServeInv, ConnInv, NEW p \in Procs, HandlerStep(p), UNCHANGED app
  PROVE  ConnInv'
<1>0. /\ comp \in [Procs -> Comps] /\ comp[p] \in Comps
      /\ sock \in [Procs -> Sockets] /\ sock[p] \in Sockets
      /\ Conn(p) /\ Serve(p)
  BY DEF IInv, TypeOK, CompanionTypeOK, PlatformTypeOK, ConnInv, ServeInv
<1>1. ASSUME \A q \in Procs \ {p} : /\ comp'[q] = comp[q]
                                    /\ sock'[q].req = sock[q].req
                                    /\ sock'[q].open = sock[q].open
                                    /\ sock[q].held \subseteq sock'[q].held,
             Conn(p)'
      PROVE  ConnInv'
  BY <1>1, ConnOther DEF ConnInv
<1>2. CASE Accept(p)
  <2>1. /\ \A q \in Procs \ {p} : comp'[q] = comp[q]
        /\ comp[p].stage = "idle" /\ "comp" \in sock[p].open
        /\ comp'[p].stage = "read"
        /\ UNCHANGED <<comp[p].pid, comp[p].child, sock>>
    BY <1>0, <1>2 DEF Accept, Comps
  <2>2. Conn(p)'
    BY <1>0, <2>1 DEF Conn
  <2> QED BY <1>1, <2>1, <2>2
<1>3. CASE HandlerRead(p)
  <2>0. comp[p].stage = "read" /\ comp[p].child = "none"
    BY <1>0, <1>3 DEF HandlerRead, Serve, HandlerInv
  <2>1. CASE /\ sock[p].req # NoPid
             /\ comp' = [comp EXCEPT ![p].stage = "fork", ![p].pid = sock[p].req]
             /\ sock' = [sock EXCEPT ![p].req = NoPid]
    <3>1. /\ \A q \in Procs \ {p} : comp'[q] = comp[q] /\ sock'[q] = sock[q]
          /\ comp'[p].stage = "fork" /\ comp'[p].child = comp[p].child
          /\ sock'[p].req = NoPid
          /\ UNCHANGED <<sock[p].open, sock[p].held>>
      BY <1>0, <2>1 DEF Comps, Sockets
    <3>2. Conn(p)'
      BY <1>0, <2>0, <2>1, <3>1 DEF Conn, Serving, ChildWorks
    <3> QED BY <1>1, <3>1, <3>2
  <2>2. CASE comp' = [comp EXCEPT ![p].stage = "done"] /\ HangUp(p)
    <3>1. /\ \A q \in Procs \ {p} : comp'[q] = comp[q] /\ sock'[q] = sock[q]
          /\ comp'[p].stage = "done" /\ sock'[p].open = sock[p].open \ {"comp"}
          /\ UNCHANGED <<comp[p].pid, comp[p].child, sock[p].req, sock[p].held>>
      BY <1>0, <2>2 DEF HangUp, Comps, Sockets
    <3>2. Conn(p)'
      BY <1>0, <2>0, <3>1 DEF Conn, Serving
    <3> QED BY <1>1, <3>1, <3>2
  <2> QED BY <1>3, <2>1, <2>2 DEF HandlerRead
<1>4. CASE HandlerFork(p)
  <2>0. /\ comp[p].stage = "fork" /\ comp[p].pid # NoPid
        /\ "comp" \in sock[p].open /\ ~app[p].stray
    BY <1>0, <1>4 DEF HandlerFork, Serve, HandlerInv, Conn, Serving
  <2>1. CASE /\ comp' = [comp EXCEPT ![p].stage = "wait", ![p].child = "setns"]
             /\ Inherit(p)
    <3>1. /\ \A q \in Procs \ {p} : comp'[q] = comp[q]
          /\ comp'[p].stage = "wait" /\ comp'[p].pid = comp[p].pid
      BY <1>0, <2>1 DEF Comps
    <3>2. \A q \in Procs : /\ sock'[q].req = sock[q].req /\ sock'[q].open = sock[q].open
                           /\ sock[q].held \subseteq sock'[q].held
      BY <1>0, <2>1 DEF Inherit, Sockets
    <3>3. p \in sock'[p].held
      BY <1>0, <2>0, <2>1 DEF Inherit, Served, Sockets
    <3>4. Conn(p)'
      BY <1>0, <2>0, <3>1, <3>2, <3>3 DEF Conn, Serving
    <3> QED BY <1>1, <3>1, <3>2, <3>4
  <2>2. CASE /\ comp' = [comp EXCEPT ![p].stage = "reply", ![p].child = "none"]
             /\ UNCHANGED sock
    <3>1. /\ \A q \in Procs \ {p} : comp'[q] = comp[q]
          /\ comp'[p].stage = "reply" /\ comp'[p].child = "none"
          /\ comp'[p].pid = comp[p].pid
      BY <1>0, <2>2 DEF Comps
    <3>2. Conn(p)'
      BY <1>0, <2>0, <2>2, <3>1 DEF Conn, Serving, ChildWorks
    <3> QED BY <1>1, <2>2, <3>1, <3>2
  <2> QED BY <1>4, <2>1, <2>2 DEF HandlerFork
<1>5. CASE HandlerWait(p)
  <2>1. /\ \A q \in Procs \ {p} : comp'[q] = comp[q]
        /\ comp[p].stage = "wait" /\ comp'[p].stage = "reply"
        /\ UNCHANGED <<comp[p].pid, comp[p].child, sock>>
    BY <1>0, <1>5 DEF HandlerWait, Comps
  <2>2. Conn(p)'
    BY <1>0, <2>1 DEF Conn, Serving
  <2> QED BY <1>1, <2>1, <2>2
<1>6. CASE HandlerReply(p)
  <2>1. /\ \A q \in Procs \ {p} : comp'[q] = comp[q] /\ sock'[q] = sock[q]
        /\ comp[p].stage = "reply" /\ comp'[p].stage = "done"
        /\ sock'[p].open = sock[p].open \ {"comp"}
        /\ UNCHANGED <<comp[p].pid, comp[p].child, sock[p].req, sock[p].held>>
    BY <1>0, <1>6 DEF HandlerReply, Comps, Sockets
  <2>2. Conn(p)'
    BY <1>0, <2>1 DEF Conn, Serving
  <2> QED BY <1>1, <2>1, <2>2
<1> QED BY <1>2, <1>3, <1>4, <1>5, <1>6 DEF HandlerStep

LEMMA ChildConn ==
  ASSUME IInv, ConnInv, NEW p \in Procs, UNCHANGED app,
         ChildStep(p, HoldersOf(comp[p].pid)) \/ ChildKilled(p)
  PROVE  ConnInv'
<1>0. comp \in [Procs -> Comps] /\ sock \in [Procs -> Sockets] /\ comp[p] \in Comps
  BY DEF IInv, TypeOK, CompanionTypeOK, PlatformTypeOK
<1>1. /\ comp[p].child \in ChildWorks
      /\ \/ UNCHANGED sock /\ \E c, n : comp' = [comp EXCEPT ![p].child = c, ![p].childNs = n]
         \/ \E how \in ChildEnded : EndChild(p, how)
  <2>1. ASSUME NEW c, comp' = [comp EXCEPT ![p].child = c]
        PROVE  comp' = [comp EXCEPT ![p].child = c, ![p].childNs = comp[p].childNs]
    BY <1>0, <2>1 DEF Comps
  <2> QED BY <2>1 DEF ChildStep, ChildSwitchMountNS, ChildUnmount, ChildFinish,
             ChildKilled, ChildWorks, ChildEnded
<1>2. /\ \A q \in Procs \ {p} : comp'[q] = comp[q]
      /\ UNCHANGED <<comp[p].stage, comp[p].pid>>
      /\ comp'[p].child \in ChildWorks => UNCHANGED sock
      /\ \A q \in Procs : /\ UNCHANGED <<sock[q].req, sock[q].open>>
                          /\ q # p /\ q \in sock[q].held => q \in sock'[q].held
  <2>1. CASE UNCHANGED sock /\ \E c, n : comp' = [comp EXCEPT ![p].child = c, ![p].childNs = n]
    BY <1>0, <2>1 DEF Comps
  <2>2. CASE \E how \in ChildEnded : EndChild(p, how)
    <3>1. PICK how \in ChildEnded : EndChild(p, how)
      BY <2>2
    <3>2. /\ \A q \in Procs \ {p} : comp'[q] = comp[q]
          /\ UNCHANGED <<comp[p].stage, comp[p].pid>>
          /\ comp'[p].child = how
      BY <1>0, <3>1 DEF EndChild, Comps
    <3>3. \A q \in Procs : /\ UNCHANGED <<sock[q].req, sock[q].open>>
                           /\ q # p /\ q \in sock[q].held => q \in sock'[q].held
      BY <1>0, <3>1 DEF EndChild, Sockets
    <3> QED BY <3>2, <3>3 DEF ChildWorks, ChildEnded
  <2> QED BY <1>1, <2>1, <2>2
<1>3. Conn(p)'
  BY <1>1, <1>2 DEF ConnInv, Conn
<1> QED BY <1>2, <1>3, ConnOther DEF ConnInv

LEMMA DaemonConn ==
  ASSUME IInv, ConnInv, DaemonDies, UNCHANGED app
  PROVE  ConnInv'
<1>0. comp \in [Procs -> Comps] /\ sock \in [Procs -> Sockets]
  BY DEF IInv, TypeOK, CompanionTypeOK, PlatformTypeOK
<1> SUFFICES ASSUME NEW q \in Procs PROVE Conn(q)'
  BY DEF ConnInv
<1>1. comp[q] \in Comps /\ sock[q] \in Sockets /\ Conn(q)
  BY <1>0 DEF ConnInv
<1>2. /\ sock'[q].open = sock[q].open \ {"comp"}
      /\ UNCHANGED <<sock[q].req, sock[q].held>>
  BY <1>0 DEF DaemonDies, Sockets
<1>3. \/ "comp" \notin sock[q].open /\ comp'[q] = comp[q]
      \/ "comp" \in sock[q].open /\ comp'[q] = [comp[q] EXCEPT !.stage = "done"]
  BY <1>0 DEF DaemonDies
<1>4. /\ UNCHANGED <<comp[q].pid, comp[q].child>>
      /\ \/ "comp" \notin sock[q].open /\ comp'[q].stage = comp[q].stage
         \/ "comp" \in sock[q].open /\ comp'[q].stage = "done"
  BY <1>1, <1>3 DEF Comps
<1> QED BY <1>1, <1>2, <1>4 DEF Conn, Serving

LEMMA NextConn ==
  ASSUME IInv, CourseInv, ServeInv, ConnInv, [Next]_vars
  PROVE  ConnInv'
<1>1. CASE UNCHANGED vars
  BY <1>1 DEF vars, ConnInv, Conn
<1> QED BY <1>1, AppConn, HandlerConn, ChildConn, DaemonConn
        DEF Next, Handler, Child, Terminated

LEMMA InitConn == Init => ConnInv
<1>1. ASSUME Init, NEW p \in Procs
      PROVE  /\ sock[p].open = {} /\ comp[p].stage = "idle" /\ comp[p].child = "none"
             /\ ~app[p].stray /\ app[p].errs = {}
  BY <1>1 DEF Init, PlatformInit, ModuleInit, CompanionInit
<1> QED BY <1>1 DEF ConnInv, Conn, Serving, ChildWorks

-----------------------------------------------------------------------------
(* Who may have emptied a namespace.                                        *)

(* A process is in its own namespace or in Zygote's; a child at work is in   *)
(* one that a process with its requester's pid was in; and a namespace that  *)
(* is emptied belongs to a target, or to a process that has a target's pid.  *)
Stale(p) ==
  /\ ns[p] \in {p, ZygoteNs}
  /\ Alive(p) \/ app[p].target => app[p].pid # NoPid
  /\ comp[p].child = "unmount" =>
       \/ comp[p].childNs = ZygoteNs
       \/ comp[p].childNs \in Procs /\ app[comp[p].childNs].pid = app[p].pid
  /\ p \in clean =>
       \/ app[p].target
       \/ \E q \in Procs \ {p} : app[q].pid = app[p].pid /\ app[q].target

StaleInv == \A p \in Procs : Stale(p)

(* The steps that fork no process and do not empty or enter a namespace. *)
LEMMA StaleKept ==
  ASSUME StaleInv, clean' = clean,
         \A q \in Procs :
           /\ ns'[q] = ns[q] \/ ns'[q] = q
           /\ app'[q].pid = app[q].pid
           /\ app[q].target => app'[q].target
           /\ Alive(q)' \/ app'[q].target => Alive(q) \/ app[q].target
           /\ comp'[q].child = "unmount"
                => comp[q].child = "unmount" /\ comp'[q].childNs = comp[q].childNs
  PROVE  StaleInv'
<1> SUFFICES ASSUME NEW p \in Procs PROVE Stale(p)'
  BY DEF StaleInv
<1>1. (ns[p] \in {p, ZygoteNs})' /\ (Alive(p) \/ app[p].target => app[p].pid # NoPid)'
  BY DEF StaleInv, Stale
<1>2. (comp[p].child = "unmount" =>
         \/ comp[p].childNs = ZygoteNs
         \/ comp[p].childNs \in Procs /\ app[comp[p].childNs].pid = app[p].pid)'
  BY DEF StaleInv, Stale
<1>3. (p \in clean =>
         \/ app[p].target
         \/ \E q \in Procs \ {p} : app[q].pid = app[p].pid /\ app[q].target)'
  BY DEF StaleInv, Stale
<1> QED BY <1>1, <1>2, <1>3 DEF Stale

(* A new process has no namespace yet, and its pid is new to it. *)
LEMMA ForkStale ==
  ASSUME IInv, CourseInv, StaleInv, NEW p \in Procs, Fork(p), UNCHANGED comp
  PROVE  StaleInv'
<1>0. app \in [Procs -> Apps] /\ app[p] \in Apps /\ Course(app[p])
  BY DEF IInv, TypeOK, ModuleTypeOK, CourseInv
<1>1. PICK i \in Pids : app' = [app EXCEPT ![p].stage = "loaded", ![p].pid = i]
  BY DEF Fork
<1>2. /\ app[p].stage = "unborn" /\ app[p].pid = NoPid /\ ~app[p].target
      /\ UNCHANGED <<ns, clean>>
  BY <1>0 DEF Fork, mountVars, IInv, PidInv, Course, Untouched
<1>3. /\ app'[p].pid # NoPid /\ app'[p].target = app[p].target
      /\ \A q \in Procs \ {p} : app'[q] = app[q]
  BY <1>0, <1>1, PlatformAssumption DEF Apps
<1> SUFFICES ASSUME NEW q \in Procs PROVE Stale(q)'
  BY DEF StaleInv
<1>4. Stale(q)
  BY DEF StaleInv
<1>5. (ns[q] \in {q, ZygoteNs})' /\ (Alive(q) \/ app[q].target => app[q].pid # NoPid)'
  BY <1>2, <1>3, <1>4 DEF Stale, Alive
<1>6. (comp[q].child = "unmount" =>
         \/ comp[q].childNs = ZygoteNs
         \/ comp[q].childNs \in Procs /\ app[comp[q].childNs].pid = app[q].pid)'
  <2>1. comp[q].child # "none" => app[q].pid # NoPid
    BY DEF IInv, RequestInv
  <2> QED BY <1>2, <1>3, <1>4, <2>1 DEF Stale
<1>7. (q \in clean =>
         \/ app[q].target
         \/ \E r \in Procs \ {q} : app[r].pid = app[q].pid /\ app[r].target)'
  <2> SUFFICES ASSUME q \in clean, ~app[q].target
               PROVE  \E r \in Procs \ {q} : app'[r].pid = app'[q].pid /\ app'[r].target
    BY <1>2, <1>3
  <2>1. PICK r \in Procs \ {q} : app[r].pid = app[q].pid /\ app[r].target
    BY <1>4 DEF Stale
  <2>2. app[r].pid # NoPid
    BY <2>1 DEF StaleInv, Stale
  <2> QED BY <1>2, <1>3, <2>1, <2>2
<1> QED BY <1>5, <1>6, <1>7 DEF Stale

LEMMA AppStale ==
  ASSUME IInv, CourseInv, StaleInv, NEW p \in Procs, AppStep(p) \/ Die(p), UNCHANGED comp
  PROVE  StaleInv'
<1>0. /\ TypeOK /\ app \in [Procs -> Apps] /\ app[p] \in Apps /\ Course(app[p])
      /\ ns \in [Procs -> Namespaces]
      /\ Others(p) /\ (PreAppSpecialize(p) \/ app'[p].target = app[p].target)
  BY AppTarget DEF IInv, TypeOK, ModuleTypeOK, PlatformTypeOK, CourseInv
<1>1. ASSUME app'[p].pid = app[p].pid, app[p].target => app'[p].target,
             Alive(p)' \/ app'[p].target => Alive(p) \/ app[p].target,
             clean' = clean, \A q \in Procs : ns'[q] = ns[q] \/ ns'[q] = q
      PROVE  StaleInv'
  <2>1. \A q \in Procs : /\ app'[q].pid = app[q].pid
                         /\ app[q].target => app'[q].target
                         /\ Alive(q)' \/ app'[q].target => Alive(q) \/ app[q].target
    BY <1>0, <1>1 DEF Others, Alive
  <2> QED BY <1>1, <2>1, StaleKept
<1>2. CASE QuietApp(p)
  <2>1. Quiet
    BY <1>0, <1>2, QuietAppStep
  <2>2. /\ app'[p].pid = app[p].pid /\ (Alive(p)' => Alive(p)) /\ clean' = clean
        /\ \A q \in Procs : ns'[q] = ns[q] \/ ns'[q] = q
    BY <2>1 DEF Quiet, Alive
  <2>3. PreAppSpecialize(p) => Alive(p) /\ ~app[p].target
    BY <1>0 DEF PreAppSpecialize, Alive, Course, Untouched
  <2> QED BY <1>0, <1>1, <2>2, <2>3
<1>3. CASE Fork(p)
  BY <1>3, ForkStale
<1>4. CASE NewMountNs(p)
  <2>1. /\ UNCHANGED <<clean, app[p].target, app[p].pid>> /\ Alive(p)
        /\ ns' = ns \/ ns' = [ns EXCEPT ![p] = p]
    BY <1>0, <1>4, NewMountNsEffect DEF Alive
  <2> QED BY <1>0, <1>1, <2>1
<1>5. CASE WritePid(p)
  <2>1. UNCHANGED <<ns, clean, app[p].target, app[p].pid>> /\ Alive(p)
    BY <1>0, <1>5, ExchangeEffect DEF WritePid, mountVars, Alive
  <2> QED BY <1>1, <2>1
<1>6. CASE DoUnmount(p)
  <2>1. /\ app[p].target /\ p \in slave /\ ns[p] = p
    BY <1>0, <1>6 DEF DoUnmount, Course, ArmedOnce, InCallback, IInv, NsInv, Isolated
  <2>2. clean' = clean \cup {p} /\ UNCHANGED ns
    BY <1>6, <2>1 DEF DoUnmount, Propagated
  <2>3. app'[p].pid = app[p].pid /\ app'[p].target /\ Alive(p)
    BY <1>0, <1>6, <2>1 DEF DoUnmount, Apps, Alive
  <2>4. \A q \in Procs : app'[q].pid = app[q].pid /\ app'[q].target = app[q].target
    BY <1>0, <2>1, <2>3, <1>6 DEF Others, DoUnmount, Apps
  <2>5. ASSUME NEW q \in Procs PROVE Stale(q)'
    <3>1. CASE q = p
      BY <2>1, <2>2, <2>3, <2>4, <3>1 DEF StaleInv, Stale
    <3>2. CASE q # p
      BY <1>0, <2>2, <2>4, <3>2 DEF StaleInv, Stale, Others, Alive
    <3> QED BY <3>1, <3>2
  <2> QED BY <2>5 DEF StaleInv
<1> QED BY <1>2, <1>3, <1>4, <1>5, <1>6 DEF AppStep, QuietApp

LEMMA CompStale ==
  ASSUME IInv, PlaceInv, StaleInv, NEW p \in Procs, UNCHANGED app,
         HandlerStep(p) \/ ChildStep(p, HoldersOf(comp[p].pid)) \/ ChildKilled(p)
  PROVE  StaleInv'
<1>0. TypeOK /\ comp \in [Procs -> Comps] /\ comp[p] \in Comps
  BY DEF IInv, TypeOK, CompanionTypeOK
<1>a. \A q \in Procs : /\ app'[q] = app[q]
                       /\ Alive(q)' <=> Alive(q)
  BY DEF Alive
<1>1. CASE QuietComp(p)
  <2>1. Quiet
    BY <1>0, <1>1, QuietCompStep
  <2> QED BY <1>a, <2>1, StaleKept DEF Quiet
<1>2. CASE HandlerRead(p)
  <2>1. UNCHANGED <<ns, clean>>
        /\ \A q \in Procs : UNCHANGED <<comp[q].child, comp[q].childNs>>
    BY <1>0, <1>2 DEF HandlerRead, mountVars, Comps
  <2> QED BY <1>a, <2>1, StaleKept
<1>3. CASE ChildSwitchMountNS(p, HoldersOf(comp[p].pid))
  <2>1. UNCHANGED <<ns, clean>> /\ \A q \in Procs \ {p} : comp'[q] = comp[q]
    BY <1>0, <1>3 DEF ChildSwitchMountNS, EndChild, mountVars
  <2>2. CASE EndChild(p, "exit1")
    <3>1. comp'[p].child = "exit1"
      BY <1>0, <2>2 DEF EndChild, Comps
    <3> QED BY <1>a, <2>1, <3>1, StaleKept
  <2>3. CASE \E n \in HoldersOf(comp[p].pid) :
               comp' = [comp EXCEPT ![p].child = "unmount", ![p].childNs = n]
    <3>1. PICK n \in HoldersOf(comp[p].pid) :
            comp' = [comp EXCEPT ![p].child = "unmount", ![p].childNs = n]
      BY <2>3
    <3>2. comp'[p].childNs = n
      BY <1>0, <3>1 DEF Comps
    <3>3. comp[p].pid = app[p].pid
      BY <1>3 DEF ChildSwitchMountNS, IInv, RequestInv
    <3>4. n = ZygoteNs \/ (n \in Procs /\ app[n].pid = app[p].pid)
      BY <3>3 DEF HoldersOf, StaleInv, Stale
    <3>5. ASSUME NEW q \in Procs PROVE Stale(q)'
      BY <1>a, <2>1, <3>2, <3>4 DEF StaleInv, Stale
    <3> QED BY <3>5 DEF StaleInv
  <2> QED BY <1>3, <2>2, <2>3 DEF ChildSwitchMountNS
<1>4. CASE ChildUnmount(p)
  <2>1. /\ comp[p].child = "unmount" /\ UNCHANGED ns
        /\ clean' = clean \cup Propagated(comp[p].childNs)
        /\ \A q \in Procs : comp'[q].child = "unmount"
                              => comp[q].child = "unmount" /\ comp'[q].childNs = comp[q].childNs
    BY <1>0, <1>4 DEF ChildUnmount, Comps
  <2>2. app[p].target
    BY <2>1 DEF IInv, RequestInv, PlaceInv, Place, SlaveInv
  <2>3. ASSUME NEW q \in Procs, q \in clean', q \notin clean
        PROVE  app[q].pid = app[p].pid
    <3>1. q = comp[p].childNs
      BY <2>1, <2>3, PlatformAssumption DEF Propagated
    <3> QED BY <2>1, <3>1, PlatformAssumption DEF StaleInv, Stale
  <2>4. ASSUME NEW q \in Procs PROVE Stale(q)'
    <3>1. (q \in clean =>
             \/ app[q].target
             \/ \E r \in Procs \ {q} : app[r].pid = app[q].pid /\ app[r].target)'
      BY <1>a, <2>2, <2>3 DEF StaleInv, Stale
    <3> QED BY <1>a, <2>1, <3>1 DEF StaleInv, Stale
  <2> QED BY <2>4 DEF StaleInv
<1> QED BY <1>1, <1>2, <1>3, <1>4 DEF HandlerStep, ChildStep, QuietComp

LEMMA NextStale ==
  ASSUME IInv, CourseInv, PlaceInv, StaleInv, [Next]_vars
  PROVE  StaleInv'
<1>1. CASE UNCHANGED vars
  BY <1>1 DEF vars, StaleInv, Stale, Alive
<1>2. CASE DaemonDies /\ UNCHANGED app
  <2>1. Quiet
    BY <1>2, QuietDaemonDies DEF IInv
  <2> QED BY <1>2, <2>1, StaleKept DEF Quiet, Alive
<1> QED BY <1>1, <1>2, AppStale, CompStale DEF Next, Handler, Child, Terminated

LEMMA InitStale == Init => StaleInv
<1>1. ASSUME Init, NEW p \in Procs
      PROVE  /\ ns[p] = ZygoteNs /\ clean = {} /\ comp[p].child = "none"
             /\ app[p].stage = "unborn" /\ ~app[p].target
  BY <1>1 DEF Init, PlatformInit, ModuleInit, CompanionInit
<1> QED BY <1>1 DEF StaleInv, Stale, Alive

-----------------------------------------------------------------------------
(* The theorems.                                                            *)

(* Where every process is, what the companion has done for it by then, and   *)
(* what the two know of each other.                                          *)
THEOREM HidingInductive ==
  Spec => [](IInv /\ CourseInv /\ ServeInv /\ PlaceInv /\ ConnInv /\ StaleInv)
<1>1. Init => ServeInv /\ PlaceInv /\ ConnInv /\ StaleInv
  BY InitServe, InitPlace, InitConn, InitStale
<1>2. IInv /\ CourseInv /\ ServeInv /\ PlaceInv /\ ConnInv /\ StaleInv /\ [Next]_vars
        => ServeInv' /\ PlaceInv' /\ ConnInv' /\ StaleInv'
  BY NextServe, NextPlace, NextConn, NextStale
<1> QED BY <1>1, <1>2, Inductive, CourseInductive, PTL DEF Spec

(* Whatever fails, and even if pids are given again: a process that was to   *)
(* be hidden becomes an app in a namespace of its own that has been through  *)
(* doUnmount, or the library gave up on it or was misled.                    *)
THEOREM Hidden == Spec => []HiddenUnlessLogged
<1>1. IInv /\ CourseInv /\ PlaceInv => HiddenUnlessLogged
  <2> SUFFICES ASSUME IInv, CourseInv, PlaceInv, NEW p \in Procs,
                      ToBeHidden(p), ~app[p].priv, Alive(p)
               PROVE  (ns[p] = p /\ p \in slave /\ p \in clean) \/ GivenUp(p)
    BY DEF HiddenUnlessLogged
  <2>0. app[p].target
    BY TargetsWanted DEF IInv
  <2>1. app[p].stage \in {"dropped", "post", "running"}
    BY DEF CourseInv, Course, PrivHeld, Alive
  <2>2. app[p].cb = "noop"
    <3>1. app[p].cb \in Callbacks
      BY DEF IInv, TypeOK, ModuleTypeOK, Apps
    <3> QED BY <2>1, <3>1 DEF CourseInv, Course, ArmedOnce, Callbacks
  <2> QED BY <2>0, <2>1, <2>2 DEF PlaceInv, Place, HiddenInv, GivenUp, InCallback
<1> QED BY <1>1, HidingInductive, PTL

(* What Zygote is told about unshare(CLONE_NEWNS) is true of the process,    *)
(* unless a hook or the unshare itself failed.                               *)
THEOREM UnshareIsHonoured == Spec => []UnshareHonoured
<1>1. PlaceInv => UnshareHonoured
  BY DEF PlaceInv, Place, ToldInv, UnshareHonoured
<1> QED BY <1>1, HidingInductive, PTL

(* The child works on the namespace only while the callback waits in its     *)
(* read, unless a read failed of itself, or waitpid did and the handler      *)
(* answered -1: the daemon's death does not end the wait, for the child has  *)
(* inherited the socket.                                                     *)
THEOREM ChildWorksAlone == Spec => []ChildWorksOnlyWhileAppWaits
<1>1. IInv /\ ServeInv /\ ConnInv => ChildWorksOnlyWhileAppWaits
  <2> SUFFICES ASSUME IInv, ServeInv, ConnInv, NEW p \in Procs,
                      comp[p].child \in ChildWorks, Alive(p)
               PROVE  \/ app[p].stage = "read"
                      \/ "read" \in app[p].errs \cap Faults
                      \/ /\ comp[p].stage = "done" /\ comp[p].status = -1
                         /\ "read" \notin app[p].errs
    BY DEF ChildWorksOnlyWhileAppWaits
  <2>1. comp[p].stage \in {"wait", "reply", "done"}
    <3>1. comp[p].stage \in HandlerSteps
      BY DEF IInv, TypeOK, CompanionTypeOK, Comps
    <3> QED BY <3>1 DEF ServeInv, Serve, HandlerInv, ChildWorks, HandlerSteps
  <2>2. comp[p].status = -1
    BY DEF ServeInv, Serve, HandlerInv, ChildWorks, ChildEnded
  <2>3. "read" \in app[p].errs => "read" \in Faults
    BY DEF ConnInv, Conn
  <2> QED BY <2>1, <2>2, <2>3 DEF ServeInv, Serve, WaitInv
<1> QED BY <1>1, HidingInductive, PTL

(* A process that is not to be hidden keeps Zygote's slots, callback and     *)
(* namespace, whatever the companion does for the others: the tests of       *)
(* preAppSpecialize stand before everything that the library changes, and a  *)
(* child enters another namespace only by a pid that was given again.        *)
THEOREM OnlyUserApps == Spec => []UserAppsOnly
<1>1. IInv /\ CourseInv /\ PlaceInv /\ ConnInv /\ StaleInv => UserAppsOnly
  <2> SUFFICES ASSUME IInv, CourseInv, PlaceInv, ConnInv, StaleInv,
                      NEW p \in Procs, ~ToBeHidden(p)
               PROVE  /\ \A s \in Syms : app[p].got[s] = "orig"
                      /\ app[p].cb = "noop" /\ app[p].stage \notin InCallback
                      /\ sock[p].open = {} /\ comp[p].stage = "idle"
                      /\ p \notin slave
                      /\ p \in clean => \E q \in Procs \ {p} :
                                          app[q].pid = app[p].pid /\ ToBeHidden(q)
    BY DEF UserAppsOnly
  <2>1. /\ TypeOK /\ app[p] \in Apps /\ Course(app[p])
        /\ \A q \in Procs : app[q].target <=> ToBeHidden(q)
    BY TargetsWanted DEF IInv, TypeOK, ModuleTypeOK, CourseInv
  <2>2. \A s \in Syms : app[p].got[s] = "orig"
    <3>1. app[p].got \in SlotTables /\ \A s \in Syms : app[p].got[s] # "new"
      BY <2>1 DEF Apps, Course, HooksHeld
    <3> QED BY <3>1 DEF SlotTables
  <2>3. app[p].cb = "noop" /\ app[p].stage \notin InCallback
    BY <2>1 DEF Apps, Callbacks, Course, ArmedOnce
  <2>4. sock[p].open = {} /\ comp[p].stage = "idle" /\ p \notin slave
    BY <2>1 DEF ConnInv, Conn, PlaceInv, Place, SlaveInv
  <2>5. p \in clean => \E q \in Procs \ {p} : app[q].pid = app[p].pid /\ ToBeHidden(q)
    BY <2>1 DEF StaleInv, Stale
  <2> QED BY <2>2, <2>3, <2>4, <2>5
<1> QED BY <1>1, HidingInductive, PTL

-----------------------------------------------------------------------------
(* Refinement: where no pid is given twice, every step is a step of Hiding,  *)
(* or changes nothing Hiding sees.                                           *)

(* Nothing Hiding sees of q changes. *)
Unseen(q) == /\ Phase(q)' = Phase(q)
             /\ app'[q].target = app[q].target
             /\ GivenUp(q)' <=> GivenUp(q)

Chosen(p) ==
  /\ Phase(p) = "zygote" /\ Phase(p)' = "zygote"
  /\ app'[p].target
  /\ GivenUp(p) => GivenUp(p)'

Moved(p, from, to) ==
  /\ Phase(p) = from /\ Phase(p)' = to
  /\ app'[p].target = app[p].target
  /\ GivenUp(p)' <=> GivenUp(p)

Excused(p) ==
  /\ Phase(p)' = Phase(p)
  /\ app'[p].target = app[p].target
  /\ GivenUp(p)'

MayLaunch(p) ==
  \/ Phase(p) = "emptied"
  \/ Phase(p) # "app" /\ (~app[p].target \/ GivenUp(p))

(* What one step may show of the process p, in the words of Hiding. *)
Shown(p) ==
  \/ Unseen(p)
  \/ Chosen(p)
  \/ Moved(p, "zygote", "isolated") /\ app[p].target
  \/ Moved(p, "isolated", "emptied")
  \/ Excused(p)
  \/ MayLaunch(p) /\ Moved(p, Phase(p), "app")

LEMMA StepShown ==
  ASSUME NEW p \in Procs, \A q \in Procs \ {p} : Unseen(q), Shown(p)
  PROVE  [Promise!Next]_Promise!vars
<1> DEFINE phase   == [q \in Procs |-> Phase(q)]
           wanted  == {q \in Procs : app[q].target}
           excused == {q \in Procs : GivenUp(q)}
<1>w. app'[p].target = app[p].target => wanted' = wanted
  BY DEF Unseen
<1>e. (GivenUp(p)' <=> GivenUp(p)) => excused' = excused
  BY DEF Unseen
<1>g. GivenUp(p)' => excused' = excused \cup {p}
  BY DEF Unseen
<1>p. Phase(p)' = Phase(p) => phase' = phase
  BY DEF Unseen
<1>m. ASSUME NEW from, NEW to, Moved(p, from, to)
      PROVE  Promise!Moves(p, from, to) /\ wanted' = wanted /\ excused' = excused
  <2>1. phase' = [phase EXCEPT ![p] = to]
    BY <1>m DEF Unseen, Moved
  <2> QED BY <1>m, <1>w, <1>e, <2>1 DEF Moved, Promise!Moves
<1>1. CASE Unseen(p)
  <2>1. UNCHANGED <<phase, wanted, excused>>
    BY <1>1, <1>w, <1>e, <1>p DEF Unseen
  <2> QED BY <2>1 DEF Promise!vars
<1>2. CASE Chosen(p)
  <2>1. wanted' = wanted \cup {p}
    BY <1>2 DEF Chosen, Unseen
  <2>2. excused' = excused \/ excused' = excused \cup {p}
    BY <1>2, <1>e, <1>g DEF Chosen
  <2>3. Promise!Choose(p)
    BY <1>2, <1>p, <2>1, <2>2 DEF Chosen, Promise!Choose
  <2> QED BY <2>3 DEF Promise!Next
<1>3. CASE Moved(p, "zygote", "isolated") /\ app[p].target
  <2>1. Promise!Isolate(p)
    BY <1>3, <1>m DEF Promise!Isolate
  <2> QED BY <2>1 DEF Promise!Next
<1>4. CASE Moved(p, "isolated", "emptied")
  <2>1. Promise!Empty(p)
    BY <1>4, <1>m DEF Promise!Empty
  <2> QED BY <2>1 DEF Promise!Next
<1>5. CASE Excused(p)
  <2>1. Promise!Excuse(p)
    BY <1>5, <1>p, <1>w, <1>g DEF Excused, Promise!Excuse
  <2> QED BY <2>1 DEF Promise!Next
<1>6. CASE MayLaunch(p) /\ Moved(p, Phase(p), "app")
  <2>1. Promise!Launch(p)
    BY <1>6, <1>m DEF MayLaunch, Promise!Launch, Promise!Moves
  <2> QED BY <2>1 DEF Promise!Next
<1> QED BY <1>1, <1>2, <1>3, <1>4, <1>5, <1>6 DEF Shown

(* What a step of p leaves alone is not seen. *)
LEMMA UnseenOther ==
  ASSUME NEW p \in Procs, NEW q \in Procs \ {p}, app'[q] = app[q],
         comp'[q].child = comp[q].child,
         slave' = slave \/ slave' = slave \cup {p},
         clean' = clean \/ clean' = clean \cup {p}
  PROVE  Unseen(q)
  BY DEF Unseen, Phase, GivenUp

LEMMA AppShown ==
  ASSUME IInv, CourseInv, PlaceInv, CleanInv, NEW p \in Procs,
         AppStep(p) \/ Die(p), UNCHANGED comp
  PROVE  [Promise!Next]_Promise!vars /\ CleanInv'
<1> USE DEF mountVars
<1>0. /\ TypeOK /\ app[p] \in Apps
      /\ Place(p) /\ Course(app[p])
  BY DEF IInv, TypeOK, ModuleTypeOK, PlaceInv, CourseInv
<1>1. ASSUME Others(p), Shown(p),
             slave' = slave \/ slave' = slave \cup {p},
             clean' = clean \/ (clean' = clean \cup {p} /\ p \in slave')
      PROVE  [Promise!Next]_Promise!vars /\ CleanInv'
  <2>1. CleanInv'
    BY <1>1 DEF CleanInv
  <2> QED BY <1>1, <2>1, UnseenOther, StepShown DEF Others
<1>u. ASSUME Others(p), Shown(p), UNCHANGED <<slave, clean>>
      PROVE  [Promise!Next]_Promise!vars /\ CleanInv'
  <2>1. slave' = slave /\ clean' = clean
    BY <1>u
  <2> QED BY <1>1, <1>u, <2>1
(* Only the stage and failures Hiding does not know of. *)
<1>2. ASSUME Others(p), UNCHANGED <<slave, clean>>,
             UNCHANGED <<app[p].target, app[p].priv, app[p].stray>>,
             Logs(p, {"connect", "exempt", "write", "read", "reopen", "unhook"})
      PROVE  [Promise!Next]_Promise!vars /\ CleanInv'
  <2>1. Unseen(p)
    BY <1>2 DEF Unseen, Phase, GivenUp, Logs
  <2>2. Shown(p)
    BY <2>1 DEF Shown
  <2> QED BY <1>u, <1>2, <2>2
<1>h. ASSUME NEW sym, NEW f, NEW n, EnterHook(p, sym, f, n), UNCHANGED <<slave, clean>>
      PROVE  [Promise!Next]_Promise!vars /\ CleanInv'
  BY <1>0, <1>h, <1>2, EnterHookEffect DEF Logs
(* setresuid, at last. *)
<1>d. ASSUME Others(p), UNCHANGED <<slave, clean>>, Logs(p, {}), app[p].priv, ~app'[p].priv,
             UNCHANGED <<app[p].target, app[p].stray>>,
             Phase(p) = "emptied" \/ ~app[p].target \/ GivenUp(p)
      PROVE  [Promise!Next]_Promise!vars /\ CleanInv'
  <2>1. Moved(p, Phase(p), "app") /\ Phase(p) # "app"
    BY <1>d DEF Moved, Phase, GivenUp, Logs
  <2>2. Shown(p)
    BY <1>d, <2>1 DEF Shown, MayLaunch
  <2> QED BY <1>u, <1>d, <2>2
<1>3. CASE Fork(p) \/ RegisterFails(p) \/ PreServerSpecialize(p)
  BY <1>0, <1>2, <1>3, BeforeEffect
     DEF Fork, RegisterFails, PreServerSpecialize, Advances, Logs
<1>4. CASE PreAppSpecialize(p)
  <2>0. UNCHANGED <<slave, clean>> /\ app[p].stage = "loaded"
    BY <1>4 DEF PreAppSpecialize
  <2>1. CASE Others(p) /\ Advances(p, "loaded", "zygote") /\ Logs(p, {})
    BY <1>2, <2>0, <2>1 DEF Advances, Logs
  <2>2. CASE /\ Others(p) /\ app'[p].target /\ UNCHANGED <<app[p].priv, app[p].stray>>
             /\ Logs(p, {"hook", "connect", "exempt"})
    <3>1. app[p].priv /\ p \notin slave
      BY <1>0, <2>0 DEF Course, PrivHeld, Place, SlaveInv
    <3>2. Chosen(p)
      BY <2>0, <2>2, <3>1 DEF Chosen, Phase, GivenUp, Logs
    <3>3. Shown(p)
      BY <3>2 DEF Shown
    <3> QED BY <1>u, <2>0, <2>2, <3>3
  <2> QED BY <1>0, <1>4, <2>1, <2>2, PreAppEffect
<1>5. CASE ZygoteClosesFd(p)
  BY <1>0, <1>2, <1>5, ZygoteEffect DEF ZygoteClosesFd, Logs
<1>6. ASSUME NEW f \in SUBSET CloneFlags, CallUnshare(p, f)
      PROVE  [Promise!Next]_Promise!vars /\ CleanInv'
  <2>0. UNCHANGED <<slave, clean>>
    BY <1>6 DEF CallUnshare
  <2> QED BY <1>0, <1>2, <1>6, <1>h, <2>0, ZygoteEffect DEF Advances, Logs
<1>7. CASE CallSetresuid(p)
  <2>0. UNCHANGED <<slave, clean>> /\ app[p].stage = "zygote"
    BY <1>7 DEF CallSetresuid
  <2>1. CASE /\ Others(p) /\ Logs(p, {}) /\ ~app'[p].priv
             /\ UNCHANGED <<app[p].target, app[p].stray>>
             /\ app[p].got["setresuid"] = "orig"
    <3>1. app[p].priv
      BY <1>0, <2>0 DEF Course, PrivHeld
    <3>2. ~app[p].target \/ GivenUp(p)
      BY <1>0, <2>0, <2>1 DEF Course, HooksHeld, Syms, GivenUp
    <3> QED BY <1>d, <2>0, <2>1, <3>1, <3>2
  <2>2. CASE EnterHook(p, "setresuid", {}, app[p].calls)
    BY <1>h, <2>0, <2>2
  <2> QED BY <1>0, <1>7, <2>1, <2>2, ZygoteEffect
<1>8. CASE ReturnFromUnshare(p)
  <2>0. UNCHANGED <<slave, clean>>
    BY <1>8 DEF ReturnFromUnshare
  <2> QED BY <1>0, <1>2, <1>8, <2>0, ReturnEffect DEF Logs
<1>9. CASE ReturnFromSetresuid(p)
  <2>0. UNCHANGED <<slave, clean>> /\ app[p].stage = "ret"
    BY <1>9 DEF ReturnFromSetresuid
  <2>1. app[p].priv /\ app[p].target /\ app[p].cb = "noop"
    BY <1>0, <2>0 DEF Course, PrivHeld, ArmedOnce
  <2>2. Phase(p) = "emptied" \/ GivenUp(p)
    BY <1>0, <2>0, <2>1 DEF Place, HiddenInv, Phase, GivenUp, InCallback
  <2> QED BY <1>0, <1>d, <1>9, <2>0, <2>1, <2>2, ReturnEffect
<1>10. CASE NewMountNs(p)
  <2>0. /\ Others(p) /\ app[p].stage = "ns" /\ UNCHANGED clean
        /\ UNCHANGED <<app[p].target, app[p].priv, app[p].stray>>
    BY <1>0, <1>10, NewMountNsEffect
  <2>1. app[p].target /\ app[p].priv /\ p \notin slave /\ p \notin clean
    BY <1>0, <2>0 DEF Course, ArmedOnce, PrivHeld, Place, SlaveInv, CleanInv, InCallback
  <2>2. CASE /\ UNCHANGED slave
             /\ "unshare" \in app'[p].errs \/ "slave" \in app'[p].errs
    <3>1. Excused(p)
      BY <2>0, <2>2 DEF Excused, Phase, GivenUp
    <3>2. Shown(p)
      BY <3>1 DEF Shown
    <3> QED BY <1>u, <2>0, <2>2, <3>2
  <2>3. CASE slave' = slave \cup {p} /\ Logs(p, {})
    <3>1. Moved(p, "zygote", "isolated")
      BY <2>0, <2>1, <2>3 DEF Moved, Phase, GivenUp, Logs
    <3>2. Shown(p)
      BY <2>1, <3>1 DEF Shown
    <3> QED BY <1>1, <2>0, <2>1, <2>3, <3>2
  <2> QED BY <1>0, <1>10, <2>2, <2>3, NewMountNsEffect
<1>11. CASE WritePid(p)
  <2>1. /\ Others(p) /\ app[p].stage = "write" /\ UNCHANGED <<slave, clean>>
        /\ UNCHANGED <<app[p].target, app[p].priv>>
        /\ Logs(p, {"write"}) /\ app'[p].stray \in BOOLEAN
    BY <1>0, <1>11, ExchangeEffect DEF WritePid, Logs
  <2>2. CASE app'[p].stray
    <3>1. Excused(p)
      BY <2>1, <2>2 DEF Excused, Phase, GivenUp
    <3>2. Shown(p)
      BY <3>1 DEF Shown
    <3> QED BY <1>u, <2>1, <3>2
  <2>3. CASE ~app'[p].stray
    <3>1. ~app[p].stray
      BY <1>0, <2>1 DEF Course, ArmedOnce
    <3>2. Unseen(p)
      BY <2>1, <2>3, <3>1 DEF Unseen, Phase, GivenUp, Logs
    <3>3. Shown(p)
      BY <3>2 DEF Shown
    <3> QED BY <1>u, <2>1, <3>3
  <2> QED BY <2>2, <2>3
<1>12. CASE ReadResult(p)
  <2>1. /\ Others(p) /\ UNCHANGED <<slave, clean>>
        /\ UNCHANGED <<app[p].target, app[p].priv, app[p].stray>>
        /\ Logs(p, {"read"})
    BY <1>0, <1>12, ExchangeEffect DEF ReadResult, Logs
  <2> QED BY <1>2, <2>1 DEF Logs
<1>13. CASE CloseFd(p)
  <2>1. /\ Others(p) /\ UNCHANGED <<slave, clean>>
        /\ UNCHANGED <<app[p].target, app[p].priv, app[p].stray>>
        /\ Logs(p, {})
    BY <1>0, <1>13, ExchangeEffect DEF CloseFd
  <2> QED BY <1>2, <2>1 DEF Logs
<1>14. CASE DoUnmount(p)
  <2>1. /\ Others(p) /\ Advances(p, "unmount", "hide") /\ Logs(p, {})
        /\ UNCHANGED slave /\ clean' = clean \cup Propagated(ns[p])
    BY <1>0, <1>14, AfterEffect DEF DoUnmount
  <2>2. ns[p] = p /\ p \in slave /\ app[p].priv
    BY <1>0, <2>1 DEF Advances, IInv, NsInv, Isolated, Course, PrivHeld
  <2>3. clean' = clean \cup {p}
    BY <2>1, <2>2 DEF Propagated
  <2>4. CASE p \in clean
    <3>1. Unseen(p)
      BY <2>1, <2>3, <2>4 DEF Unseen, Phase, GivenUp, Advances, Logs
    <3>2. Shown(p)
      BY <3>1 DEF Shown
    <3> QED BY <1>1, <2>1, <2>2, <2>3, <3>2
  <2>5. CASE p \notin clean
    <3>1. Moved(p, "isolated", "emptied")
      BY <2>1, <2>2, <2>3, <2>5 DEF Moved, Phase, GivenUp, Advances, Logs
    <3>2. Shown(p)
      BY <3>1 DEF Shown
    <3> QED BY <1>1, <2>1, <2>2, <2>3, <3>2
  <2> QED BY <2>4, <2>5
<1>15. CASE DoHideZygisk(p) \/ PostAppSpecialize(p) \/ DlClose(p) \/ Die(p)
  <2>1. /\ Others(p) /\ UNCHANGED <<slave, clean>>
        /\ UNCHANGED <<app[p].target, app[p].priv, app[p].stray>>
        /\ Logs(p, {"reopen", "unhook"})
    BY <1>0, <1>15, AfterEffect
       DEF DoHideZygisk, PostAppSpecialize, DlClose, Die, Advances, Logs
  <2> QED BY <1>2, <2>1 DEF Logs
<1> QED BY <1>3, <1>4, <1>5, <1>6, <1>7, <1>8, <1>9, <1>10, <1>11, <1>12, <1>13,
           <1>14, <1>15 DEF AppStep

LEMMA CompShown ==
  ASSUME IInv, ZygoteInv, ServeInv, CleanInv, UNCHANGED app, NEW p \in Procs,
         HandlerStep(p) \/ ChildStep(p, HoldersOf(comp[p].pid)) \/ ChildKilled(p)
  PROVE  [Promise!Next]_Promise!vars /\ CleanInv'
<1>0. /\ UNCHANGED slave
      /\ \A q \in Procs \ {p} : comp'[q].child = comp[q].child
      /\ comp[p].child = "exit1" => comp'[p].child = "exit1"
  BY CompEffect
<1>1. ASSUME Shown(p), clean' = clean \/ (clean' = clean \cup {p} /\ p \in slave)
      PROVE  [Promise!Next]_Promise!vars /\ CleanInv'
  <2>1. CleanInv'
    BY <1>0, <1>1 DEF CleanInv
  <2> QED BY <1>0, <1>1, <2>1, UnseenOther, StepShown
<1>2. CASE UNCHANGED clean
  <2>1. Phase(p)' = Phase(p)
    BY <1>0, <1>2 DEF Phase
  <2>2. GivenUp(p) => GivenUp(p)'
    BY <1>0 DEF GivenUp
  <2>3. Shown(p)
    <3>1. CASE GivenUp(p)' <=> GivenUp(p)
      BY <2>1, <3>1 DEF Shown, Unseen
    <3>2. CASE GivenUp(p)'
      BY <2>1, <3>2 DEF Shown, Excused
    <3> QED BY <2>2, <3>1, <3>2
  <2> QED BY <1>1, <1>2, <2>3
<1>3. CASE /\ comp[p].child = "unmount" /\ comp'[p].child = "remount"
           /\ clean' = clean \cup Propagated(comp[p].childNs)
  <2>1. comp[p].childNs = p /\ p \in slave
    BY <1>3 DEF IInv, RequestInv, ZygoteInv
  <2>2. clean' = clean \cup {p} /\ (GivenUp(p)' <=> GivenUp(p))
    BY <1>3, <2>1 DEF Propagated, GivenUp
  <2>3. CASE p \in clean \/ ~app[p].priv
    <3>1. Unseen(p)
      BY <1>0, <2>2, <2>3 DEF Unseen, Phase
    <3>2. Shown(p)
      BY <3>1 DEF Shown
    <3> QED BY <1>1, <2>1, <2>2, <3>2
  <2>4. CASE p \notin clean /\ app[p].priv
    <3>1. Moved(p, "isolated", "emptied")
      BY <1>0, <2>1, <2>2, <2>4 DEF Moved, Phase
    <3>2. Shown(p)
      BY <3>1 DEF Shown
    <3> QED BY <1>1, <2>1, <2>2, <3>2
  <2> QED BY <2>3, <2>4
<1> QED BY <1>2, <1>3, CompEffect

LEMMA NextShown ==
  ASSUME IInv, ZygoteInv, CourseInv, ServeInv, PlaceInv, CleanInv, [Next]_vars
  PROVE  [Promise!Next]_Promise!vars /\ CleanInv'
<1>1. ASSUME UNCHANGED <<app, slave, clean>>,
             \A q \in Procs : comp'[q].child = comp[q].child
      PROVE  [Promise!Next]_Promise!vars /\ CleanInv'
  <2>1. \A q \in Procs : Unseen(q)
    BY <1>1 DEF Unseen, Phase, GivenUp
  <2>2. UNCHANGED <<[q \in Procs |-> Phase(q)], {q \in Procs : app[q].target},
                    {q \in Procs : GivenUp(q)}>>
    BY <2>1 DEF Unseen
  <2>3. CleanInv'
    BY <1>1 DEF CleanInv
  <2> QED BY <2>2, <2>3 DEF Promise!vars
<1>2. CASE UNCHANGED vars
  BY <1>1, <1>2 DEF vars
<1>3. CASE DaemonDies /\ UNCHANGED app
  BY <1>1, <1>3, DaemonEffect
<1>4. ASSUME NEW p \in Procs, AppStep(p) \/ Die(p), UNCHANGED comp
      PROVE  [Promise!Next]_Promise!vars /\ CleanInv'
  BY <1>4, AppShown
<1>5. ASSUME NEW p \in Procs, UNCHANGED app,
             HandlerStep(p) \/ ChildStep(p, HoldersOf(comp[p].pid)) \/ ChildKilled(p)
      PROVE  [Promise!Next]_Promise!vars /\ CleanInv'
  BY <1>5, CompShown
<1> QED BY <1>2, <1>3, <1>4, <1>5 DEF Next, Handler, Child, Terminated

LEMMA InitShown == Init => Promise!Init /\ CleanInv
<1>1. ASSUME Init, NEW p \in Procs
      PROVE  Phase(p) = "zygote" /\ ~app[p].target /\ ~GivenUp(p) /\ p \notin clean
  BY <1>1 DEF Init, PlatformInit, ModuleInit, CompanionInit, Phase, GivenUp
<1> QED BY <1>1 DEF Promise!Init, CleanInv

(* The hooks, the callback and the companion implement Hiding: every step is *)
(* one of its steps or a stutter, where no pid is given to a second process. *)
THEOREM ImplementsHiding ==
  ASSUME "pidreuse" \notin Faults
  PROVE  Spec => HidesInOrder
<1>1. Init => Promise!Init /\ CleanInv /\ ZygoteInv
  BY InitShown, InitSafe
<1>2. IInv /\ ZygoteInv /\ [Next]_vars => ZygoteInv'
  BY NextSafe DEF IInv, Safe
<1>3. IInv /\ ZygoteInv /\ CourseInv /\ ServeInv /\ PlaceInv /\ CleanInv /\ [Next]_vars
        => [Promise!Next]_Promise!vars /\ CleanInv'
  BY NextShown
<1> QED BY <1>1, <1>2, <1>3, HidingInductive, PTL DEF Spec, HidesInOrder, Promise!Spec
=============================================================================
