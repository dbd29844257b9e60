-------------------------- MODULE AssistantProofs --------------------------
(***************************************************************************)
(* Type correctness of Assistant, and what keeps doUnmount out of Zygote's  *)
(* namespace and the companion's child in its requester's, proved for any   *)
(* set of processes, pids and uids and any set of calls that may fail.      *)
(***************************************************************************)
EXTENDS Assistant, TLAPS

-----------------------------------------------------------------------------
(* Types.                                                                  *)

(* The names the actions assign are in the sets TypeOK asks for. *)
LEMMA StageNames ==
  /\ "unborn" \in Stages /\ "loaded" \in Stages /\ "zygote" \in Stages
  /\ "ret" \in Stages /\ "dropped" \in Stages /\ "post" \in Stages
  /\ "running" \in Stages /\ "dead" \in Stages
  /\ "ns" \in Stages /\ "write" \in Stages /\ "read" \in Stages
  /\ "close" \in Stages /\ "unmount" \in Stages /\ "hide" \in Stages
  BY DEF Stages, InCallback

LEMMA FieldNames ==
  /\ "loaded" \in LibStates /\ "dlclose" \in LibStates /\ "unmapped" \in LibStates
  /\ "armed" \in Callbacks /\ "noop" \in Callbacks
  /\ "none" \in FdUses /\ "open" \in FdUses
  /\ "closed" \in FdUses /\ "reused" \in FdUses
  /\ "none" \in HookNames /\ "unshare" \in HookNames /\ "setresuid" \in HookNames
  BY DEF LibStates, Callbacks, FdUses, HookNames, Syms

(* What is logged is a set of fault names. *)
LEMMA LogType ==
  ASSUME NEW e \in Logged, NEW tag \in FaultNames, NEW ok
  PROVE  e \cup Failed(tag, ok) \in Logged /\ e \cup {tag} \in Logged
  BY DEF Logged, Failed

LEMMA TagNames ==
  /\ "hook" \in FaultNames /\ "connect" \in FaultNames /\ "exempt" \in FaultNames
  /\ "unshare" \in FaultNames /\ "slave" \in FaultNames /\ "write" \in FaultNames
  /\ "read" \in FaultNames /\ "reopen" \in FaultNames /\ "unhook" \in FaultNames
  BY DEF FaultNames

(* The descriptors stay typed through unshare and reopening. *)
LEMMA FdType ==
  ASSUME NEW f \in FdTables
  PROVE  /\ AfterUnshare(f) \in FdTables
         /\ \A srr \in SUBSET FdKinds : \A ok \in BOOLEAN :
              [k \in FdKinds |-> IF ok /\ k \in srr THEN ReopenOrDetach(k, f[k])
                                                    ELSE f[k]] \in FdTables
  BY DEF FdTables, AfterUnshare, ReopenOrDetach, FdStates

(* Replacing one process's record keeps app typed. *)
LEMMA AppUpdate ==
  ASSUME ModuleTypeOK, NEW p \in Procs, NEW r \in Apps, app' = [app EXCEPT ![p] = r]
  PROVE  ModuleTypeOK'
  BY DEF ModuleTypeOK

LEMMA InitType == Init => TypeOK
<1> SUFFICES ASSUME Init PROVE TypeOK
  OBVIOUS
<1>1. PlatformTypeOK
  BY DEF Init, PlatformInit, PlatformTypeOK, Sockets, Namespaces, MaybePid
<1>2. ModuleTypeOK
  <2>1. /\ NoPid \in MaybePid
        /\ [s \in Syms |-> "orig"] \in SlotTables
        /\ [k \in FdKinds |-> "current"] \in FdTables
        /\ {} \in Logged
    BY DEF MaybePid, SlotTables, FdTables, FdStates, Logged
  <2>2. 0 \in 0..MaxUnshare
    BY PlatformAssumption
  <2> QED BY <2>1, <2>2, StageNames, FieldNames
          DEF Init, ModuleInit, ModuleTypeOK, Apps
<1>3. CompanionTypeOK
  BY DEF Init, CompanionInit, CompanionTypeOK, Comps, HandlerSteps, MaybePid,
         ChildStates, Namespaces, Statuses
<1> QED BY <1>1, <1>2, <1>3 DEF TypeOK

-----------------------------------------------------------------------------
(* What the hooks and the destructor of the reopener assign.                *)

LEMMA SlotType ==
  ASSUME NEW h \in HookOutcomes
  PROVE  h.slot \in {"orig", "new"}
<1>1. h = [ok |-> TRUE, slot |-> "new"] \/ h \in [ok : {FALSE}, slot : {"orig", "new"}]
  BY DEF HookOutcomes
<1>2. CASE h = [ok |-> TRUE, slot |-> "new"]
  BY <1>2
<1>3. CASE h \in [ok : {FALSE}, slot : {"orig", "new"}]
  BY <1>3
<1> QED BY <1>1, <1>2, <1>3

LEMMA HooksType ==
  ASSUME TypeOK, NEW p \in Procs, NEW req \in Requests,
         NEW u \in HookOutcomes, NEW s \in HookOutcomes,
         NEW conn \in BOOLEAN, NEW ex \in BOOLEAN,
         InstallHooks(p, req, u, s, conn, ex)
  PROVE  ModuleTypeOK'
<1> DEFINE hooked    == u.ok /\ s.ok
           connected == hooked /\ conn
           got       == [unshare |-> u.slot, setresuid |-> SetresuidSlot(u, s)]
           errs      == app[p].errs \cup Failed("hook", hooked)
                          \cup Failed("connect", hooked => conn)
                          \cup Failed("exempt", hooked => conn /\ ex)
           cb        == ArmedCallback(hooked, connected)
           cfd       == IF connected THEN "open" ELSE "none"
           r         == [app[p] EXCEPT !.stage = "zygote", !.lib = "dlclose",
                           !.asked = {req}, !.target = TRUE, !.got = got, !.cb = cb,
                           !.cfd = cfd, !.errs = errs]
<1>0. app \in [Procs -> Apps] /\ app[p] \in Apps
  BY DEF TypeOK, ModuleTypeOK
<1>1. app' = [app EXCEPT ![p] = r]
  BY <1>0 DEF InstallHooks, Apps
<1>2. got \in SlotTables
  <2>1. u.slot \in {"orig", "new"} /\ s.slot \in {"orig", "new"}
    BY SlotType
  <2>2. SetresuidSlot(u, s) \in {"orig", "new"}
    BY <2>1 DEF SetresuidSlot
  <2> QED BY <2>1, <2>2 DEF SlotTables, Syms
<1>3. errs \in Logged
  BY <1>0, LogType, TagNames DEF Apps
<1>4. cb \in Callbacks /\ cfd \in FdUses
  BY FieldNames DEF ArmedCallback
<1>5. r \in Apps
  <2> HIDE DEF got, errs, cb, cfd
  <2> QED BY <1>0, <1>2, <1>3, <1>4, StageNames, FieldNames DEF Apps
<1> QED BY <1>1, <1>5, AppUpdate DEF TypeOK

LEMMA EnterHookType ==
  ASSUME TypeOK, NEW p \in Procs, NEW sym \in HookNames,
         NEW f \in SUBSET CloneFlags, NEW n \in 0..MaxUnshare,
         EnterHook(p, sym, f, n)
  PROVE  ModuleTypeOK'
<1>0. app \in [Procs -> Apps] /\ app[p] \in Apps
  BY DEF TypeOK, ModuleTypeOK
<1>1. PICK ok \in Returns("reopen") :
        app' = [app EXCEPT
              ![p].hook = sym, ![p].flags = f, ![p].calls = n,
              ![p].cb = "noop",
              ![p].srr   = IF app[p].cb = "armed" /\ ok THEN Reopenable ELSE @,
              ![p].errs  = IF app[p].cb = "armed" THEN @ \cup Failed("reopen", ok)
                                                  ELSE @,
              ![p].stage = IF app[p].cb = "armed" THEN "ns" ELSE "ret"]
  BY DEF EnterHook
<1> DEFINE srr   == IF app[p].cb = "armed" /\ ok THEN Reopenable ELSE app[p].srr
           errs  == IF app[p].cb = "armed" THEN app[p].errs \cup Failed("reopen", ok)
                                           ELSE app[p].errs
           stage == IF app[p].cb = "armed" THEN "ns" ELSE "ret"
           r     == [app[p] EXCEPT !.hook = sym, !.flags = f, !.calls = n, !.cb = "noop",
                                   !.srr = srr, !.errs = errs, !.stage = stage]
<1>2. app' = [app EXCEPT ![p] = r]
  BY <1>0, <1>1 DEF Apps
<1>3. srr \in SUBSET FdKinds
  BY <1>0 DEF Apps, Reopenable
<1>4. errs \in Logged
  BY <1>0, LogType, TagNames DEF Apps
<1>5. stage \in Stages
  BY StageNames
<1>6. r \in Apps
  <2> HIDE DEF srr, errs, stage
  <2> QED BY <1>0, <1>3, <1>4, <1>5, FieldNames DEF Apps
<1> QED BY <1>2, <1>6, AppUpdate DEF TypeOK

LEMMA LeaveScopeType ==
  ASSUME TypeOK, NEW p \in Procs, NEW f \in FdTables, NEW tags \in Logged,
         LeaveScope(p, f, tags)
  PROVE  ModuleTypeOK'
<1>0. app \in [Procs -> Apps] /\ app[p] \in Apps
  BY DEF TypeOK, ModuleTypeOK
<1>1. PICK ok \in Returns("reopen") :
        app' = [app EXCEPT
              ![p].stage = "ret",
              ![p].errs  = @ \cup tags \cup Failed("reopen", ok),
              ![p].fds   = [k \in FdKinds |-> IF ok /\ k \in app[p].srr
                                                THEN ReopenOrDetach(k, f[k])
                                                ELSE f[k]]]
  BY DEF LeaveScope
<1> DEFINE errs == app[p].errs \cup tags \cup Failed("reopen", ok)
           fds  == [k \in FdKinds |-> IF ok /\ k \in app[p].srr
                                        THEN ReopenOrDetach(k, f[k]) ELSE f[k]]
           r    == [app[p] EXCEPT !.stage = "ret", !.errs = errs, !.fds = fds]
<1>2. app' = [app EXCEPT ![p] = r]
  BY <1>0, <1>1 DEF Apps
<1>3. ok \in BOOLEAN
  BY DEF Returns
<1>4. app[p].errs \cup tags \in Logged
  BY <1>0 DEF Apps, Logged
<1>5. errs \in Logged
  BY <1>4, LogType, TagNames
<1>6. fds \in FdTables
  BY <1>0, <1>3, FdType DEF Apps
<1>7. r \in Apps
  <2> HIDE DEF errs, fds
  <2> QED BY <1>0, <1>5, <1>6, StageNames DEF Apps
<1> QED BY <1>2, <1>7, AppUpdate DEF TypeOK

-----------------------------------------------------------------------------
(* Every step keeps the types.                                              *)

LEMMA AppStepType ==
  ASSUME TypeOK, NEW p \in Procs, AppStep(p) \/ Die(p), UNCHANGED comp
  PROVE  TypeOK'
<1> USE DEF mountVars
<1>0. app \in [Procs -> Apps] /\ app[p] \in Apps /\ sock \in [Procs -> Sockets]
  BY DEF TypeOK, ModuleTypeOK, PlatformTypeOK
<1>c. CompanionTypeOK'
  BY DEF TypeOK, CompanionTypeOK
<1>s. ASSUME UNCHANGED <<ns, slave, clean, sock>> PROVE PlatformTypeOK'
  BY <1>s DEF TypeOK, PlatformTypeOK
<1>n. ASSUME ns' = ns \/ ns' = [ns EXCEPT ![p] = p], UNCHANGED <<slave, clean, sock>>
      PROVE  PlatformTypeOK'
  BY <1>n DEF TypeOK, PlatformTypeOK, Namespaces
<1>1. CASE Fork(p)
  <2>1. ModuleTypeOK'
    BY <1>1, StageNames DEF Fork, TypeOK, ModuleTypeOK, Apps, MaybePid
  <2> QED BY <1>1, <1>c, <1>s, <2>1 DEF Fork, TypeOK
<1>r. CASE RegisterFails(p)
  <2>1. ModuleTypeOK'
    BY <1>r, StageNames DEF RegisterFails, TypeOK, ModuleTypeOK, Apps
  <2> QED BY <1>r, <1>c, <1>s, <2>1 DEF RegisterFails, TypeOK
<1>2. CASE PreServerSpecialize(p)
  <2> DEFINE r == [app[p] EXCEPT !.stage = "zygote", !.lib = "dlclose"]
  <2>1. app' = [app EXCEPT ![p] = r]
    BY <1>0, <1>2 DEF PreServerSpecialize
  <2>2. r \in Apps
    BY <1>0, StageNames, FieldNames DEF Apps
  <2> QED BY <1>2, <1>c, <1>s, <2>1, <2>2, AppUpdate DEF PreServerSpecialize, TypeOK
<1>3. CASE PreAppSpecialize(p)
  <2>0. PICK req \in Requests :
          \/ /\ app' = [app EXCEPT ![p].stage = "zygote", ![p].lib = "dlclose",
                                   ![p].asked = {req}]
             /\ UNCHANGED sock
          \/ \E u, s \in HookOutcomes, conn \in BOOLEAN, ex \in BOOLEAN :
               InstallHooks(p, req, u, s, conn, ex)
    BY <1>3 DEF PreAppSpecialize, Returns
  <2>1. CASE /\ app' = [app EXCEPT ![p].stage = "zygote", ![p].lib = "dlclose",
                                   ![p].asked = {req}]
             /\ UNCHANGED sock
    <3> DEFINE r == [app[p] EXCEPT !.stage = "zygote", !.lib = "dlclose", !.asked = {req}]
    <3>1. app' = [app EXCEPT ![p] = r]
      BY <1>0, <2>1
    <3>2. r \in Apps
      BY <1>0, StageNames, FieldNames DEF Apps
    <3> QED BY <1>3, <1>c, <1>s, <2>1, <3>1, <3>2, AppUpdate DEF PreAppSpecialize, TypeOK
  <2>2. CASE \E u, s \in HookOutcomes, conn \in BOOLEAN, ex \in BOOLEAN :
               InstallHooks(p, req, u, s, conn, ex)
    <3>1. PICK u \in HookOutcomes, s \in HookOutcomes, conn \in BOOLEAN, ex \in BOOLEAN :
            InstallHooks(p, req, u, s, conn, ex)
      BY <2>2
    <3>2. ModuleTypeOK'
      BY <3>1, HooksType
    <3>3. PlatformTypeOK'
      <4>1. PICK e \in SUBSET SockEnds : sock' = [sock EXCEPT ![p].open = e]
        BY <3>1 DEF InstallHooks
      <4> QED BY <1>3, <4>1 DEF PreAppSpecialize, TypeOK, PlatformTypeOK, Sockets
    <3> QED BY <1>c, <3>2, <3>3 DEF TypeOK
  <2> QED BY <2>0, <2>1, <2>2
<1>4. CASE ZygoteClosesFd(p)
  <2>1. ModuleTypeOK'
    BY <1>4, FieldNames DEF ZygoteClosesFd, TypeOK, ModuleTypeOK, Apps
  <2>2. PlatformTypeOK'
    BY <1>4 DEF ZygoteClosesFd, TypeOK, PlatformTypeOK, Sockets
  <2> QED BY <1>c, <2>1, <2>2 DEF TypeOK
<1>5. CASE \E f \in SUBSET CloneFlags \ {{}} : CallUnshare(p, f)
  <2>1. PICK f \in SUBSET CloneFlags : CallUnshare(p, f)
    BY <1>5
  <2>2. app[p].calls + 1 \in 0..MaxUnshare
    BY <1>0, <2>1, PlatformAssumption DEF CallUnshare, Apps
  <2>3. CASE EnterHook(p, "unshare", f, app[p].calls + 1) /\ UNCHANGED ns
    <3>1. ModuleTypeOK'
      BY <2>2, <2>3, EnterHookType, FieldNames
    <3> QED BY <1>c, <1>n, <2>1, <2>3, <3>1 DEF CallUnshare, TypeOK
  <2>4. CASE /\ ns' = [ns EXCEPT ![p] = p]
             /\ app' = [app EXCEPT ![p].calls = @ + 1, ![p].told = TRUE,
                                   ![p].fds = AfterUnshare(@)]
    <3> DEFINE r == [app[p] EXCEPT !.calls = app[p].calls + 1, !.told = TRUE,
                                   !.fds = AfterUnshare(app[p].fds)]
    <3>1. app' = [app EXCEPT ![p] = r]
      BY <1>0, <2>4 DEF Apps
    <3>2. AfterUnshare(app[p].fds) \in FdTables
      BY <1>0, FdType DEF Apps
    <3>3. r \in Apps
      BY <1>0, <2>2, <3>2 DEF Apps
    <3> QED BY <1>c, <1>n, <2>1, <2>4, <3>1, <3>3, AppUpdate DEF CallUnshare, TypeOK
  <2>5. CASE app' = [app EXCEPT ![p].calls = @ + 1] /\ UNCHANGED ns
    <3>1. ModuleTypeOK'
      BY <2>2, <2>5 DEF TypeOK, ModuleTypeOK, Apps
    <3> QED BY <1>c, <1>n, <2>1, <2>5, <3>1 DEF CallUnshare, TypeOK
  <2> QED BY <2>1, <2>3, <2>4, <2>5 DEF CallUnshare
<1>6. CASE CallSetresuid(p)
  <2>1. CASE EnterHook(p, "setresuid", {}, app[p].calls)
    <3>1. app[p].calls \in 0..MaxUnshare /\ {} \in SUBSET CloneFlags
      BY <1>0 DEF Apps
    <3>2. ModuleTypeOK'
      BY <2>1, <3>1, EnterHookType, FieldNames
    <3> QED BY <1>6, <1>c, <1>s, <3>2 DEF CallSetresuid, TypeOK
  <2>2. CASE app' = [app EXCEPT ![p].stage = "dropped", ![p].priv = FALSE]
    <3> DEFINE r == [app[p] EXCEPT !.stage = "dropped", !.priv = FALSE]
    <3>1. app' = [app EXCEPT ![p] = r]
      BY <1>0, <2>2
    <3>2. r \in Apps
      BY <1>0, StageNames DEF Apps
    <3> QED BY <1>6, <1>c, <1>s, <3>1, <3>2, AppUpdate DEF CallSetresuid, TypeOK
  <2> QED BY <1>6, <2>1, <2>2 DEF CallSetresuid
<1>7. CASE ReturnFromUnshare(p)
  <2>1. ModuleTypeOK'
    BY <1>7, StageNames, FieldNames, FdType DEF ReturnFromUnshare, TypeOK, ModuleTypeOK, Apps
  <2>2. PlatformTypeOK'
    BY <1>7 DEF ReturnFromUnshare, TypeOK, PlatformTypeOK, Namespaces
  <2> QED BY <1>c, <2>1, <2>2 DEF TypeOK
<1>8. CASE ReturnFromSetresuid(p)
  <2>1. ModuleTypeOK'
    BY <1>8, StageNames, FieldNames DEF ReturnFromSetresuid, TypeOK, ModuleTypeOK, Apps
  <2> QED BY <1>8, <1>c, <1>s, <2>1 DEF ReturnFromSetresuid, TypeOK
<1>9. CASE NewMountNs(p)
  <2>0. /\ {"unshare"} \in Logged /\ {"slave"} \in Logged
        /\ app[p].fds \in FdTables /\ AfterUnshare(app[p].fds) \in FdTables
    BY <1>0, TagNames, FdType DEF Apps, Logged
  <2>1. CASE LeaveScope(p, app[p].fds, {"unshare"}) /\ UNCHANGED <<ns, slave>>
    BY <1>9, <1>c, <1>s, <2>0, <2>1, LeaveScopeType DEF NewMountNs, TypeOK
  <2>2. CASE /\ ns' = [ns EXCEPT ![p] = p] /\ UNCHANGED slave
             /\ LeaveScope(p, AfterUnshare(app[p].fds), {"slave"})
    BY <1>9, <1>c, <1>n, <2>0, <2>2, LeaveScopeType DEF NewMountNs, TypeOK
  <2>3. CASE /\ ns' = [ns EXCEPT ![p] = p] /\ MakeSlave(p)
             /\ app' = [app EXCEPT
                       ![p].fds = AfterUnshare(@),
                       ![p].stage = IF app[p].cfd = "none" THEN "unmount"
                                                           ELSE "write"]
    <3> DEFINE stage == IF app[p].cfd = "none" THEN "unmount" ELSE "write"
               fds   == AfterUnshare(app[p].fds)
               r     == [app[p] EXCEPT !.fds = fds, !.stage = stage]
    <3>3. app' = [app EXCEPT ![p] = r]
      BY <1>0, <2>3 DEF Apps
    <3>4. r \in Apps
      <4>1. stage \in Stages /\ fds \in FdTables
        BY <2>0, StageNames
      <4> HIDE DEF stage, fds
      <4> QED BY <1>0, <4>1 DEF Apps
    <3>1. ModuleTypeOK'
      BY <3>3, <3>4, AppUpdate DEF TypeOK
    <3>2. PlatformTypeOK'
      BY <1>9, <2>3 DEF NewMountNs, MakeSlave, TypeOK, PlatformTypeOK, Namespaces
    <3> QED BY <1>c, <3>1, <3>2 DEF TypeOK
  <2> QED BY <1>9, <2>1, <2>2, <2>3 DEF NewMountNs
<1>10. CASE WritePid(p)
  <2>1. ModuleTypeOK'
    BY <1>10, StageNames, LogType, TagNames DEF WritePid, TypeOK, ModuleTypeOK, Apps
  <2>2. app[p].pid \in MaybePid
    BY <1>0 DEF Apps
  <2>3. PlatformTypeOK'
    BY <1>10, <2>2 DEF WritePid, TypeOK, PlatformTypeOK, Sockets
  <2> QED BY <1>c, <2>1, <2>3 DEF TypeOK
<1>11. CASE ReadResult(p)
  <2>1. ModuleTypeOK'
    <3>1. CASE \E b \in BOOLEAN : app' = [app EXCEPT ![p].stage = "close", ![p].res = b]
      <4>1. PICK b \in BOOLEAN : app' = [app EXCEPT ![p].stage = "close", ![p].res = b]
        BY <3>1
      <4> DEFINE r == [app[p] EXCEPT !.stage = "close", !.res = b]
      <4>2. app' = [app EXCEPT ![p] = r]
        BY <1>0, <4>1
      <4>3. r \in Apps
        BY <1>0, StageNames DEF Apps
      <4> QED BY <4>2, <4>3, AppUpdate DEF TypeOK
    <3>2. CASE app' = [app EXCEPT ![p].stage = "close", ![p].errs = @ \cup {"read"}]
      <4> DEFINE errs == app[p].errs \cup {"read"}
                 r    == [app[p] EXCEPT !.stage = "close", !.errs = errs]
      <4>1. app' = [app EXCEPT ![p] = r]
        BY <1>0, <3>2 DEF Apps
      <4>2. errs \in Logged
        BY <1>0, LogType, TagNames DEF Apps
      <4>3. r \in Apps
        <5> HIDE DEF errs
        <5> QED BY <1>0, <4>2, StageNames DEF Apps
      <4> QED BY <4>1, <4>3, AppUpdate DEF TypeOK
    <3>3. sock[p].rep \subseteq BOOLEAN
      BY <1>0 DEF Sockets
    <3> QED BY <1>11, <3>1, <3>2, <3>3 DEF ReadResult
  <2>2. PlatformTypeOK'
    BY <1>11 DEF ReadResult, TypeOK, PlatformTypeOK, Sockets
  <2> QED BY <1>c, <2>1, <2>2 DEF TypeOK
<1>12. CASE CloseFd(p)
  <2>1. ModuleTypeOK'
    BY <1>12, StageNames, FieldNames DEF CloseFd, AfterCompanion, TypeOK, ModuleTypeOK, Apps
  <2>2. PlatformTypeOK'
    BY <1>12 DEF CloseFd, TypeOK, PlatformTypeOK, Sockets
  <2> QED BY <1>c, <2>1, <2>2 DEF TypeOK
<1>13. CASE DoUnmount(p)
  <2>1. ModuleTypeOK'
    BY <1>13, StageNames DEF DoUnmount, TypeOK, ModuleTypeOK, Apps
  <2>2. PlatformTypeOK'
    BY <1>13 DEF DoUnmount, TypeOK, PlatformTypeOK, Propagated, Namespaces
  <2> QED BY <1>c, <2>1, <2>2 DEF TypeOK
<1>14. CASE DoHideZygisk(p)
  <2>1. app[p].fds \in FdTables /\ {} \in Logged
    BY <1>0 DEF Apps, Logged
  <2> QED BY <1>14, <1>c, <1>s, <2>1, LeaveScopeType DEF DoHideZygisk, TypeOK
<1>15. CASE PostAppSpecialize(p)
  <2>1. PICK stuck \in SUBSET Hooked(p) :
          app' = [app EXCEPT
                    ![p].stage = "post",
                    ![p].got   = [s \in Syms |->
                                    IF s \in Hooked(p) \ stuck THEN "orig" ELSE @[s]],
                    ![p].errs  = @ \cup Failed("unhook", stuck = {})]
    BY <1>15 DEF PostAppSpecialize
  <2> DEFINE got  == [s \in Syms |-> IF s \in Hooked(p) \ stuck THEN "orig" ELSE app[p].got[s]]
             errs == app[p].errs \cup Failed("unhook", stuck = {})
             r    == [app[p] EXCEPT !.stage = "post", !.got = got, !.errs = errs]
  <2>2. app' = [app EXCEPT ![p] = r]
    BY <1>0, <2>1 DEF Apps
  <2>3. got \in SlotTables
    BY <1>0 DEF Apps, SlotTables
  <2>4. errs \in Logged
    BY <1>0, LogType, TagNames DEF Apps
  <2>5. r \in Apps
    <3> HIDE DEF got, errs
    <3> QED BY <1>0, <2>3, <2>4, StageNames DEF Apps
  <2> QED BY <1>15, <1>c, <1>s, <2>2, <2>5, AppUpdate DEF PostAppSpecialize, TypeOK
<1>16. CASE DlClose(p)
  <2> DEFINE lib == IF app[p].lib = "dlclose" THEN "unmapped" ELSE app[p].lib
             r   == [app[p] EXCEPT !.stage = "running", !.lib = lib]
  <2>1. app' = [app EXCEPT ![p] = r]
    BY <1>0, <1>16 DEF DlClose, Apps
  <2>2. r \in Apps
    BY <1>0, StageNames, FieldNames DEF Apps
  <2> QED BY <1>16, <1>c, <1>s, <2>1, <2>2, AppUpdate DEF DlClose, TypeOK
<1>17. CASE Die(p)
  <2>1. ModuleTypeOK'
    BY <1>17, StageNames DEF Die, TypeOK, ModuleTypeOK, Apps
  <2>2. PlatformTypeOK'
    BY <1>17 DEF Die, TypeOK, PlatformTypeOK, Sockets
  <2> QED BY <1>c, <2>1, <2>2 DEF TypeOK
<1> QED BY <1>1, <1>r, <1>2, <1>3, <1>4, <1>5, <1>6, <1>7, <1>8, <1>9, <1>10, <1>11,
           <1>12, <1>13, <1>14, <1>15, <1>16, <1>17 DEF AppStep

LEMMA CompanionStepType ==
  ASSUME TypeOK, NEW p \in Procs,
         Handler(p) \/ Child(p) \/ (ChildKilled(p) /\ UNCHANGED app)
  PROVE  TypeOK'
<1> USE DEF mountVars
<1>0. comp \in [Procs -> Comps] /\ comp[p] \in Comps /\ sock[p] \in Sockets
  BY DEF TypeOK, CompanionTypeOK, PlatformTypeOK
<1>a. ModuleTypeOK'
  BY DEF TypeOK, ModuleTypeOK, Handler, Child
<1>s. ASSUME UNCHANGED <<ns, slave, clean, sock>> PROVE PlatformTypeOK'
  BY <1>s DEF TypeOK, PlatformTypeOK
<1>e. ASSUME NEW how \in ChildStates, EndChild(p, how), UNCHANGED <<ns, slave, clean>>
      PROVE  PlatformTypeOK' /\ CompanionTypeOK'
  <2>1. CompanionTypeOK'
    BY <1>e DEF EndChild, TypeOK, CompanionTypeOK, Comps
  <2>2. ASSUME NEW r \in Procs PROVE [sock[r] EXCEPT !.held = @ \ {p}] \in Sockets
    BY DEF TypeOK, PlatformTypeOK, Sockets
  <2>3. sock' \in [Procs -> Sockets]
    BY <1>e, <2>2 DEF EndChild
  <2> QED BY <1>e, <2>1, <2>3 DEF TypeOK, PlatformTypeOK
<1>1. CASE Accept(p)
  <2>1. CompanionTypeOK'
    BY <1>1 DEF Accept, TypeOK, CompanionTypeOK, Comps, HandlerSteps
  <2> QED BY <1>1, <1>a, <1>s, <2>1 DEF Accept, TypeOK
<1>2. CASE HandlerRead(p)
  <2>1. sock[p].req \in MaybePid /\ NoPid \in MaybePid
    BY <1>0 DEF Sockets, MaybePid
  <2>2. CompanionTypeOK'
    BY <1>2, <2>1 DEF HandlerRead, TypeOK, CompanionTypeOK, Comps, HandlerSteps
  <2>3. PlatformTypeOK'
    BY <1>2, <2>1 DEF HandlerRead, HangUp, TypeOK, PlatformTypeOK, Sockets
  <2> QED BY <1>a, <2>2, <2>3 DEF TypeOK
<1>3. CASE HandlerFork(p)
  <2>1. PICK st \in HandlerSteps, ch \in ChildStates :
          comp' = [comp EXCEPT ![p].stage = st, ![p].child = ch]
    BY <1>3 DEF HandlerFork, HandlerSteps, ChildStates, ChildWorks
  <2>2. CompanionTypeOK'
    BY <2>1 DEF TypeOK, CompanionTypeOK, Comps
  <2>3. CASE Inherit(p) /\ UNCHANGED mountVars
    <3>1. ASSUME NEW r \in Procs
          PROVE  [sock[r] EXCEPT !.held = IF r \in Served THEN @ \cup {p} ELSE @] \in Sockets
      BY DEF TypeOK, PlatformTypeOK, Sockets
    <3>2. sock' \in [Procs -> Sockets]
      BY <2>3, <3>1 DEF Inherit
    <3> QED BY <1>a, <2>2, <2>3, <3>2 DEF TypeOK, PlatformTypeOK
  <2>4. CASE UNCHANGED sock
    BY <1>3, <1>a, <1>s, <2>2, <2>4 DEF HandlerFork, TypeOK
  <2> QED BY <1>3, <2>3, <2>4 DEF HandlerFork
<1>4. CASE HandlerWait(p)
  <2>1. CompanionTypeOK'
    BY <1>4 DEF HandlerWait, WaitStatus, ChildEnded, Statuses, HandlerSteps,
                TypeOK, CompanionTypeOK, Comps
  <2> QED BY <1>4, <1>a, <1>s, <2>1 DEF HandlerWait, TypeOK
<1>5. CASE HandlerReply(p)
  <2>1. CompanionTypeOK'
    BY <1>5 DEF HandlerReply, HandlerSteps, TypeOK, CompanionTypeOK, Comps
  <2>2. PlatformTypeOK'
    <3> DEFINE rep == IF "app" \in sock[p].open THEN {WIFEXITED(comp[p].status)}
                                                ELSE sock[p].rep
               e   == [sock[p] EXCEPT !.rep = rep, !.open = sock[p].open \ {"comp"}]
    <3>1. sock' = [sock EXCEPT ![p] = e]
      BY <1>5 DEF HandlerReply, TypeOK, PlatformTypeOK, Sockets
    <3>2. rep \in SUBSET BOOLEAN
      BY <1>0 DEF Sockets, WIFEXITED
    <3>3. e \in Sockets
      <4> HIDE DEF rep
      <4> QED BY <1>0, <3>2 DEF Sockets
    <3> QED BY <1>5, <3>1, <3>3 DEF HandlerReply, TypeOK, PlatformTypeOK
  <2> QED BY <1>a, <2>1, <2>2 DEF TypeOK
<1>6. CASE ChildSwitchMountNS(p, HoldersOf(comp[p].pid))
  <2>1. HoldersOf(comp[p].pid) \subseteq Namespaces
    BY DEF HoldersOf, TypeOK, PlatformTypeOK
  <2>2. CASE EndChild(p, "exit1")
    BY <1>6, <1>a, <1>e, <2>2 DEF ChildSwitchMountNS, ChildStates, ChildEnded, TypeOK
  <2>3. CASE \E n \in HoldersOf(comp[p].pid) :
               /\ comp' = [comp EXCEPT ![p].child = "unmount", ![p].childNs = n]
               /\ UNCHANGED sock
    <3>1. CompanionTypeOK'
      BY <2>1, <2>3 DEF ChildStates, ChildWorks, TypeOK, CompanionTypeOK, Comps
    <3> QED BY <1>6, <1>a, <1>s, <2>3, <3>1 DEF ChildSwitchMountNS, TypeOK
  <2> QED BY <1>6, <2>2, <2>3 DEF ChildSwitchMountNS
<1>7. CASE ChildUnmount(p)
  <2>1. CompanionTypeOK'
    BY <1>7 DEF ChildUnmount, ChildStates, ChildWorks, TypeOK, CompanionTypeOK, Comps
  <2>2. comp[p].childNs \in Namespaces
    BY <1>0 DEF Comps
  <2>3. PlatformTypeOK'
    BY <1>7, <2>2 DEF ChildUnmount, Propagated, Namespaces, TypeOK, PlatformTypeOK
  <2> QED BY <1>a, <2>1, <2>3 DEF TypeOK
<1>8. CASE ChildFinish(p)
  <2>1. CASE comp' = [comp EXCEPT ![p].child = "mrprop"] /\ UNCHANGED sock
    <3>1. CompanionTypeOK'
      BY <2>1 DEF ChildStates, ChildWorks, TypeOK, CompanionTypeOK, Comps
    <3> QED BY <1>8, <1>a, <1>s, <2>1, <3>1 DEF ChildFinish, TypeOK
  <2>2. CASE EndChild(p, "exit0")
    BY <1>8, <1>a, <1>e, <2>2 DEF ChildFinish, ChildStates, ChildEnded, TypeOK
  <2> QED BY <1>8, <2>1, <2>2 DEF ChildFinish
<1>9. CASE ChildKilled(p)
  BY <1>9, <1>a, <1>e DEF ChildKilled, ChildStates, ChildEnded, TypeOK
<1> QED BY <1>1, <1>2, <1>3, <1>4, <1>5, <1>6, <1>7, <1>8, <1>9
        DEF Handler, HandlerStep, Child, ChildStep

LEMMA DaemonDiesType ==
  ASSUME TypeOK, DaemonDies, UNCHANGED app
  PROVE  TypeOK'
<1>1. PlatformTypeOK'
  <2>1. ASSUME NEW p \in Procs PROVE [sock[p] EXCEPT !.open = @ \ {"comp"}] \in Sockets
    BY DEF TypeOK, PlatformTypeOK, Sockets
  <2>2. sock' \in [Procs -> Sockets]
    BY <2>1 DEF DaemonDies
  <2> QED BY <2>2 DEF DaemonDies, mountVars, TypeOK, PlatformTypeOK
<1>2. CompanionTypeOK'
  BY DEF DaemonDies, TypeOK, CompanionTypeOK, Comps, HandlerSteps
<1>3. ModuleTypeOK'
  BY DEF TypeOK, ModuleTypeOK
<1> QED BY <1>1, <1>2, <1>3 DEF TypeOK

LEMMA StutterType == TypeOK /\ UNCHANGED vars => TypeOK'
  BY DEF vars, TypeOK, PlatformTypeOK, ModuleTypeOK, CompanionTypeOK

LEMMA NextType == TypeOK /\ [Next]_vars => TypeOK'
<1> SUFFICES ASSUME TypeOK, [Next]_vars PROVE TypeOK'
  OBVIOUS
<1>1. CASE \E p \in Procs : (AppStep(p) \/ Die(p)) /\ UNCHANGED comp
  BY <1>1, AppStepType
<1>2. CASE \E p \in Procs : Handler(p) \/ Child(p) \/ (ChildKilled(p) /\ UNCHANGED app)
  BY <1>2, CompanionStepType
<1>3. CASE DaemonDies /\ UNCHANGED app
  BY <1>3, DaemonDiesType
<1>4. CASE UNCHANGED vars
  BY <1>4, StutterType
<1> QED BY <1>1, <1>2, <1>3, <1>4 DEF Next, Terminated

(* Type correctness of the composed system. *)
THEOREM TypeCorrect == Spec => []TypeOK
  BY InitType, NextType, PTL DEF Spec

-----------------------------------------------------------------------------
(* The inductive invariant.                                                 *)

(* The stages of the callback after new_mount_ns has succeeded. *)
Isolated == {"write", "read", "close", "unmount", "hide"}

(* Living processes have pids of their own. *)
PidInv ==
  /\ \A p \in Procs : app[p].stage = "unborn" => app[p].pid = NoPid
  /\ \A p, q \in Procs :
       Alive(p) /\ Alive(q) /\ app[p].pid = app[q].pid => p = q

(* A namespace made MS_SLAVE is the one its process stays in, and the rest   *)
(* of the callback runs in such a namespace.                                 *)
NsInv ==
  \A p \in Procs : /\ p \in slave => ns[p] = p
                   /\ app[p].stage \in Isolated => p \in slave

(* A pid on its way to the companion, or used by it, is that of the process  *)
(* which connected, and was written after new_mount_ns had succeeded.        *)
RequestInv ==
  \A p \in Procs :
    /\ sock[p].req # NoPid => sock[p].req = app[p].pid /\ p \in slave
    /\ comp[p].pid # NoPid => comp[p].pid = app[p].pid /\ p \in slave
    /\ comp[p].stage = "fork" \/ comp[p].child # "none" => comp[p].pid # NoPid

ChildInv ==
  \A p \in Procs :
    comp[p].child \in ChildWorks \ {"setns"} /\ Alive(p) => comp[p].childNs = p

IInv == TypeOK /\ PidInv /\ NsInv /\ RequestInv /\ ChildInv

(* Where no pid is given twice: the child is in its requester's namespace    *)
(* even when that process has died.                                          *)
ZygoteInv ==
  /\ \A p, q \in Procs : app[p].pid # NoPid /\ app[p].pid = app[q].pid => p = q
  /\ \A p \in Procs : comp[p].child = "unmount" => comp[p].childNs = p
  /\ ZygoteNs \notin clean

(* The steps that create no request, enter no namespace and unmount nothing: *)
(* all but Fork, NewMountNs, WritePid, HandlerRead, ChildSwitchMountNS and   *)
(* the two ends of doUnmount.                                                *)
Quiet ==
  /\ UNCHANGED <<slave, clean>>
  /\ \A q \in Procs :
       /\ ns'[q] = ns[q] \/ ns'[q] = q
       /\ app'[q].pid = app[q].pid
       /\ app'[q].stage \notin {"unborn", "dead"} => Alive(q)
       /\ app'[q].stage = "unborn" => app[q].stage = "unborn"
       /\ app'[q].stage \in Isolated => app[q].stage \in Isolated
       /\ sock'[q].req = sock[q].req
       /\ comp'[q].pid = comp[q].pid
       /\ comp'[q].stage = "fork" => comp[q].stage = "fork"
       /\ comp'[q].child # "none" => comp[q].stage = "fork" \/ comp[q].child # "none"
       /\ comp'[q].child \in ChildWorks \ {"setns"}
            => comp[q].child \in ChildWorks \ {"setns"}
       /\ comp'[q].child = "unmount" => comp[q].child = "unmount"
       /\ comp'[q].childNs = comp[q].childNs

Safe == PidInv /\ NsInv /\ RequestInv /\ ChildInv

LEMMA QuietKeeps ==
  ASSUME Safe, Quiet
  PROVE  Safe' /\ (ZygoteInv => ZygoteInv')
<1>1. PidInv'
  BY DEF Safe, Quiet, PidInv, Alive
<1>2. NsInv'
  BY DEF Safe, Quiet, NsInv
<1>3. RequestInv'
  BY DEF Safe, Quiet, RequestInv
<1>4. ChildInv'
  BY DEF Safe, Quiet, ChildInv, Alive
<1>5. ZygoteInv => ZygoteInv'
  BY DEF Quiet, ZygoteInv
<1> QED BY <1>1, <1>2, <1>3, <1>4, <1>5 DEF Safe

(* The quiet steps of a process. *)
QuietApp(p) ==
  \/ RegisterFails(p)
  \/ PreServerSpecialize(p)
  \/ PreAppSpecialize(p)
  \/ ZygoteClosesFd(p)
  \/ \E f \in SUBSET CloneFlags \ {{}} : CallUnshare(p, f)
  \/ CallSetresuid(p)
  \/ ReturnFromUnshare(p)
  \/ ReturnFromSetresuid(p)
  \/ ReadResult(p)
  \/ CloseFd(p)
  \/ DoHideZygisk(p)
  \/ PostAppSpecialize(p)
  \/ DlClose(p)
  \/ Die(p)

LEMMA QuietAppStep ==
  ASSUME TypeOK, NEW p \in Procs, QuietApp(p), UNCHANGED comp
  PROVE  Quiet
<1> USE DEF mountVars
<1>0. /\ app \in [Procs -> Apps] /\ sock \in [Procs -> Sockets]
      /\ ns \in [Procs -> Namespaces]
  BY DEF TypeOK, ModuleTypeOK, PlatformTypeOK
<1> DEFINE Only == \A q \in Procs \ {p} : app'[q] = app[q]
           Stage(from, to) == app[p].stage = from /\ app'[p].stage = to
           Same == app'[p].pid = app[p].pid
<1>1. ASSUME Only, Same, Alive(p), app'[p].stage # "unborn",
             app'[p].stage \in Isolated => app[p].stage \in Isolated,
             UNCHANGED <<slave, clean>>,
             \A q \in Procs : ns'[q] = ns[q] \/ ns'[q] = q,
             \A q \in Procs : sock'[q].req = sock[q].req
      PROVE  Quiet
  BY <1>1 DEF Quiet, Alive
<1>h. ASSUME NEW sym, NEW f, NEW n, EnterHook(p, sym, f, n)
      PROVE  Only /\ Same /\ app'[p].stage \in {"ns", "ret"}
  <2>1. PICK ok \in Returns("reopen") :
          app' = [app EXCEPT
              ![p].hook = sym, ![p].flags = f, ![p].calls = n,
              ![p].cb = "noop",
              ![p].srr   = IF app[p].cb = "armed" /\ ok THEN Reopenable ELSE @,
              ![p].errs  = IF app[p].cb = "armed" THEN @ \cup Failed("reopen", ok)
                                                  ELSE @,
              ![p].stage = IF app[p].cb = "armed" THEN "ns" ELSE "ret"]
    BY <1>h DEF EnterHook
  <2> QED BY <1>0, <2>1 DEF Apps
<1>r. CASE RegisterFails(p)
  <2>1. Only /\ Same /\ Stage("loaded", "zygote")
    BY <1>0, <1>r DEF RegisterFails, Apps
  <2>2. \A q \in Procs : sock'[q].req = sock[q].req
    BY <1>0, <1>r DEF RegisterFails, Sockets
  <2> QED BY <1>1, <1>r, <2>1, <2>2 DEF RegisterFails, Alive, Isolated
<1>2. CASE PreServerSpecialize(p)
  <2>1. Only /\ Same /\ Stage("loaded", "zygote")
    BY <1>0, <1>2 DEF PreServerSpecialize, Apps
  <2>2. \A q \in Procs : sock'[q].req = sock[q].req
    BY <1>0, <1>2 DEF PreServerSpecialize, Sockets
  <2> QED BY <1>1, <1>2, <2>1, <2>2 DEF PreServerSpecialize, Alive, Isolated
<1>3. CASE PreAppSpecialize(p)
  <2>0. PICK r \in Requests :
          \/ /\ app' = [app EXCEPT ![p].stage = "zygote", ![p].lib = "dlclose",
                                   ![p].asked = {r}]
             /\ UNCHANGED sock
          \/ \E u, s \in HookOutcomes,
                conn \in Returns("connect"), ex \in Returns("exempt") :
               InstallHooks(p, r, u, s, conn, ex)
    BY <1>3 DEF PreAppSpecialize
  <2>1. CASE /\ app' = [app EXCEPT ![p].stage = "zygote", ![p].lib = "dlclose",
                                   ![p].asked = {r}]
             /\ UNCHANGED sock
    <3>1. Only /\ Same /\ Stage("loaded", "zygote")
      BY <1>0, <1>3, <2>1 DEF PreAppSpecialize, Apps
    <3> QED BY <1>1, <1>3, <2>1, <3>1 DEF PreAppSpecialize, Alive, Isolated
  <2>2. CASE \E u, s \in HookOutcomes,
                conn \in Returns("connect"), ex \in Returns("exempt") :
               InstallHooks(p, r, u, s, conn, ex)
    <3>1. PICK u \in HookOutcomes, s \in HookOutcomes,
               conn \in Returns("connect"), ex \in Returns("exempt") :
            InstallHooks(p, r, u, s, conn, ex)
      BY <2>2
    <3>2. Only /\ Same /\ Stage("loaded", "zygote")
      <4> DEFINE hooked    == u.ok /\ s.ok
                 connected == hooked /\ conn
                 got       == [unshare |-> u.slot, setresuid |-> SetresuidSlot(u, s)]
                 cb        == ArmedCallback(hooked, connected)
                 cfd       == IF connected THEN "open" ELSE "none"
                 errs      == app[p].errs \cup Failed("hook", hooked)
                                \cup Failed("connect", hooked => conn)
                                \cup Failed("exempt", hooked => conn /\ ex)
      <4>1. app' = [app EXCEPT ![p] =
                      [app[p] EXCEPT !.stage = "zygote", !.lib = "dlclose",
                                     !.asked = {r}, !.target = TRUE, !.got = got,
                                     !.cb = cb, !.cfd = cfd, !.errs = errs]]
        BY <3>1 DEF InstallHooks
      <4>2. app[p].stage = "loaded"
        BY <1>3 DEF PreAppSpecialize
      <4> HIDE DEF got, cb, cfd, errs
      <4> QED BY <1>0, <4>1, <4>2 DEF Apps
    <3>3. \A q \in Procs : sock'[q].req = sock[q].req
      BY <1>0, <3>1 DEF InstallHooks, Sockets
    <3> QED BY <1>1, <1>3, <3>2, <3>3 DEF PreAppSpecialize, Alive, Isolated
  <2> QED BY <2>0, <2>1, <2>2
<1>4. CASE ZygoteClosesFd(p)
  <2>1. Only /\ Same /\ Stage("zygote", "zygote")
    BY <1>0, <1>4 DEF ZygoteClosesFd, Apps
  <2>2. \A q \in Procs : sock'[q].req = sock[q].req
    BY <1>0, <1>4 DEF ZygoteClosesFd, Sockets
  <2> QED BY <1>1, <1>4, <2>1, <2>2 DEF ZygoteClosesFd, Alive, Isolated
<1>5. CASE \E f \in SUBSET CloneFlags \ {{}} : CallUnshare(p, f)
  <2>1. Only /\ Same /\ app[p].stage = "zygote" /\ app'[p].stage \in {"zygote", "ns", "ret"}
    <3>1. CASE \E f, n : EnterHook(p, "unshare", f, n)
      BY <1>5, <1>h, <3>1 DEF CallUnshare
    <3>2. CASE ~\E f, n : EnterHook(p, "unshare", f, n)
      BY <1>0, <1>5, <3>2 DEF CallUnshare, Apps
    <3> QED BY <3>1, <3>2
  <2>2. \A q \in Procs : sock'[q].req = sock[q].req
    BY <1>0, <1>5 DEF CallUnshare, Sockets
  <2>3. UNCHANGED <<slave, clean>> /\ \A q \in Procs : ns'[q] = ns[q] \/ ns'[q] = q
    BY <1>0, <1>5 DEF CallUnshare
  <2>4. app'[p].stage # "unborn" /\ app'[p].stage \notin Isolated
    BY <2>1 DEF Isolated
  <2> QED BY <1>1, <2>1, <2>2, <2>3, <2>4 DEF Alive
<1>6. CASE CallSetresuid(p)
  <2>1. Only /\ Same /\ app[p].stage = "zygote" /\ app'[p].stage \in {"dropped", "ns", "ret"}
    <3>1. CASE EnterHook(p, "setresuid", {}, app[p].calls)
      BY <1>6, <1>h, <3>1 DEF CallSetresuid
    <3>2. CASE app' = [app EXCEPT ![p].stage = "dropped", ![p].priv = FALSE]
      BY <1>0, <1>6, <3>2 DEF CallSetresuid, Apps
    <3> QED BY <1>6, <3>1, <3>2 DEF CallSetresuid
  <2>2. \A q \in Procs : sock'[q].req = sock[q].req
    BY <1>0, <1>6 DEF CallSetresuid, Sockets
  <2> QED BY <1>1, <1>6, <2>1, <2>2 DEF CallSetresuid, Alive, Isolated
<1>7. CASE ReturnFromUnshare(p)
  <2>1. Only /\ Same /\ Stage("ret", "zygote")
    BY <1>0, <1>7 DEF ReturnFromUnshare, Apps
  <2>2. \A q \in Procs : sock'[q].req = sock[q].req
    BY <1>0, <1>7 DEF ReturnFromUnshare, Sockets
  <2>3. UNCHANGED <<slave, clean>> /\ \A q \in Procs : ns'[q] = ns[q] \/ ns'[q] = q
    BY <1>0, <1>7 DEF ReturnFromUnshare
  <2>4. app'[p].stage # "unborn" /\ app'[p].stage \notin Isolated
    BY <2>1 DEF Isolated
  <2> QED BY <1>1, <2>1, <2>2, <2>3, <2>4 DEF Alive
<1>8. CASE ReturnFromSetresuid(p)
  <2>1. Only /\ Same /\ Stage("ret", "dropped")
    BY <1>0, <1>8 DEF ReturnFromSetresuid, Apps
  <2>2. \A q \in Procs : sock'[q].req = sock[q].req
    BY <1>0, <1>8 DEF ReturnFromSetresuid, Sockets
  <2> QED BY <1>1, <1>8, <2>1, <2>2 DEF ReturnFromSetresuid, Alive, Isolated
<1>9. CASE ReadResult(p)
  <2>1. Only /\ Same /\ Stage("read", "close")
    BY <1>0, <1>9 DEF ReadResult, Apps
  <2>2. \A q \in Procs : sock'[q].req = sock[q].req
    BY <1>0, <1>9 DEF ReadResult, Sockets
  <2> QED BY <1>1, <1>9, <2>1, <2>2 DEF ReadResult, Alive, Isolated
<1>10. CASE CloseFd(p)
  <2>1. Only /\ Same /\ app[p].stage = "close" /\ app'[p].stage \in {"hide", "unmount"}
    BY <1>0, <1>10 DEF CloseFd, AfterCompanion, Apps
  <2>2. \A q \in Procs : sock'[q].req = sock[q].req
    BY <1>0, <1>10 DEF CloseFd, Sockets
  <2> QED BY <1>1, <1>10, <2>1, <2>2 DEF CloseFd, Alive, Isolated
<1>11. CASE DoHideZygisk(p)
  <2>1. Only /\ Same /\ Stage("hide", "ret")
    BY <1>0, <1>11 DEF DoHideZygisk, LeaveScope, Apps
  <2>2. \A q \in Procs : sock'[q].req = sock[q].req
    BY <1>0, <1>11 DEF DoHideZygisk, Sockets
  <2> QED BY <1>1, <1>11, <2>1, <2>2 DEF DoHideZygisk, Alive, Isolated
<1>12. CASE PostAppSpecialize(p)
  <2>1. Only /\ Same /\ Stage("dropped", "post")
    <3>1. PICK stuck \in SUBSET Hooked(p) :
            app' = [app EXCEPT
                      ![p].stage = "post",
                      ![p].got   = [s \in Syms |->
                                      IF s \in Hooked(p) \ stuck THEN "orig" ELSE @[s]],
                      ![p].errs  = @ \cup Failed("unhook", stuck = {})]
      BY <1>12 DEF PostAppSpecialize
    <3> DEFINE got  == [s \in Syms |-> IF s \in Hooked(p) \ stuck THEN "orig"
                                                               ELSE app[p].got[s]]
               errs == app[p].errs \cup Failed("unhook", stuck = {})
    <3>2. app' = [app EXCEPT ![p].stage = "post", ![p].got = got, ![p].errs = errs]
      BY <3>1
    <3>3. app[p].stage = "dropped"
      BY <1>12 DEF PostAppSpecialize
    <3> HIDE DEF got, errs
    <3> QED BY <1>0, <3>2, <3>3 DEF Apps
  <2>2. \A q \in Procs : sock'[q].req = sock[q].req
    BY <1>0, <1>12 DEF PostAppSpecialize, Sockets
  <2> QED BY <1>1, <1>12, <2>1, <2>2 DEF PostAppSpecialize, Alive, Isolated
<1>13. CASE DlClose(p)
  <2>1. Only /\ Same /\ Stage("post", "running")
    BY <1>0, <1>13 DEF DlClose, Apps
  <2>2. \A q \in Procs : sock'[q].req = sock[q].req
    BY <1>0, <1>13 DEF DlClose, Sockets
  <2> QED BY <1>1, <1>13, <2>1, <2>2 DEF DlClose, Alive, Isolated
<1>14. CASE Die(p)
  <2>1. Only /\ Same /\ Alive(p) /\ app'[p].stage = "dead"
    BY <1>0, <1>14 DEF Die, Alive, Apps
  <2>2. \A q \in Procs : sock'[q].req = sock[q].req
    BY <1>0, <1>14 DEF Die, Sockets
  <2> QED BY <1>1, <1>14, <2>1, <2>2 DEF Die, Alive, Isolated
<1> QED BY <1>r, <1>2, <1>3, <1>4, <1>5, <1>6, <1>7, <1>8, <1>9, <1>10, <1>11, <1>12, <1>13, <1>14 DEF QuietApp

(* The quiet steps of the companion. *)
QuietComp(p) ==
  \/ Accept(p)
  \/ HandlerFork(p)
  \/ HandlerWait(p)
  \/ HandlerReply(p)
  \/ ChildFinish(p)
  \/ ChildKilled(p)

LEMMA QuietCompStep ==
  ASSUME TypeOK, NEW p \in Procs, QuietComp(p), UNCHANGED app
  PROVE  Quiet
<1> USE DEF mountVars
<1>0. comp \in [Procs -> Comps] /\ sock \in [Procs -> Sockets]
  BY DEF TypeOK, CompanionTypeOK, PlatformTypeOK
<1> DEFINE Works == ChildWorks \ {"setns"}
<1>1. ASSUME \A q \in Procs \ {p} : comp'[q] = comp[q],
             comp'[p].pid = comp[p].pid, comp'[p].childNs = comp[p].childNs,
             comp'[p].stage # "fork",
             comp'[p].child # "none" => comp[p].stage = "fork" \/ comp[p].child # "none",
             comp'[p].child \in Works => comp[p].child \in Works,
             comp'[p].child = "unmount" => comp[p].child = "unmount",
             UNCHANGED <<ns, slave, clean>>,
             \A q \in Procs : sock'[q].req = sock[q].req
      PROVE  Quiet
  BY <1>1 DEF Quiet, Alive
<1>k. ASSUME UNCHANGED <<ns, slave, clean>>, \A q \in Procs : sock'[q].req = sock[q].req,
             \A q \in Procs \ {p} : comp'[q] = comp[q],
             comp'[p].pid = comp[p].pid, comp'[p].childNs = comp[p].childNs,
             comp'[p].stage = comp[p].stage, comp[p].child # "none",
             comp'[p].child \in Works => comp[p].child \in Works,
             comp'[p].child # "unmount"
      PROVE  Quiet
  BY <1>k DEF Quiet, Alive
<1>e. ASSUME NEW how \in ChildEnded, EndChild(p, how), comp[p].child # "none",
             UNCHANGED mountVars
      PROVE  Quiet
  <2>1. comp' = [comp EXCEPT ![p].child = how] /\ UNCHANGED <<ns, slave, clean>>
    BY <1>e DEF EndChild
  <2>2. \A q \in Procs : sock'[q].req = sock[q].req
    BY <1>0, <1>e DEF EndChild, Sockets
  <2> QED BY <1>0, <1>e, <1>k, <2>1, <2>2 DEF Comps, ChildWorks, ChildEnded
<1>2. CASE Accept(p)
  <2>1. comp' = [comp EXCEPT ![p].stage = "read"] /\ UNCHANGED <<ns, slave, clean, sock>>
    BY <1>2 DEF Accept
  <2> QED BY <1>0, <1>1, <2>1 DEF Comps
<1>3. CASE HandlerFork(p)
  <2>1. PICK st \in {"wait", "reply"}, ch \in {"setns", "none"} :
          comp' = [comp EXCEPT ![p].stage = st, ![p].child = ch]
    BY <1>3 DEF HandlerFork
  <2>2. comp[p].stage = "fork" /\ UNCHANGED <<ns, slave, clean>>
    BY <1>3 DEF HandlerFork
  <2>3. \A q \in Procs : sock'[q].req = sock[q].req
    BY <1>0, <1>3 DEF HandlerFork, Inherit, Sockets
  <2> QED BY <1>0, <1>1, <2>1, <2>2, <2>3 DEF Comps, ChildWorks
<1>4. CASE HandlerWait(p)
  <2>1. PICK st : comp' = [comp EXCEPT ![p].stage = "reply", ![p].status = st]
    <3>1. comp' = [comp EXCEPT ![p].stage = "reply"]
            => comp' = [comp EXCEPT ![p].stage = "reply", ![p].status = comp[p].status]
      BY <1>0 DEF Comps
    <3> QED BY <1>4, <3>1 DEF HandlerWait
  <2>2. UNCHANGED <<ns, slave, clean, sock>>
    BY <1>4 DEF HandlerWait
  <2> QED BY <1>0, <1>1, <2>1, <2>2 DEF Comps
<1>5. CASE HandlerReply(p)
  <2>1. comp' = [comp EXCEPT ![p].stage = "done"] /\ UNCHANGED <<ns, slave, clean>>
    BY <1>5 DEF HandlerReply
  <2>2. \A q \in Procs : sock'[q].req = sock[q].req
    BY <1>0, <1>5 DEF HandlerReply, Sockets
  <2> QED BY <1>0, <1>1, <2>1, <2>2 DEF Comps
<1>6. CASE ChildFinish(p)
  <2>1. CASE EndChild(p, "exit0") /\ comp[p].child = "mrprop"
    BY <1>6, <1>e, <2>1 DEF ChildFinish, ChildEnded
  <2>2. CASE comp[p].child = "remount" /\ comp' = [comp EXCEPT ![p].child = "mrprop"]
             /\ UNCHANGED sock
    BY <1>0, <1>6, <1>k, <2>2 DEF ChildFinish, Comps, ChildWorks
  <2> QED BY <1>6, <2>1, <2>2 DEF ChildFinish
<1>7. CASE ChildKilled(p)
  <2>1. comp[p].child # "none"
    BY <1>7 DEF ChildKilled, ChildWorks
  <2> QED BY <1>7, <1>e, <2>1 DEF ChildKilled, ChildEnded
<1> QED BY <1>2, <1>3, <1>4, <1>5, <1>6, <1>7 DEF QuietComp

LEMMA QuietDaemonDies ==
  ASSUME TypeOK, DaemonDies, UNCHANGED app
  PROVE  Quiet
<1>1. comp \in [Procs -> Comps] /\ sock \in [Procs -> Sockets]
  BY DEF TypeOK, CompanionTypeOK, PlatformTypeOK
<1>2. \A q \in Procs : /\ comp'[q] = comp[q] \/ comp'[q] = [comp[q] EXCEPT !.stage = "done"]
                       /\ sock'[q].req = sock[q].req
  BY <1>1 DEF DaemonDies, Sockets
<1>3. \A q \in Procs : /\ comp'[q].pid = comp[q].pid /\ comp'[q].child = comp[q].child
                       /\ comp'[q].childNs = comp[q].childNs
                       /\ comp'[q].stage = "fork" => comp[q].stage = "fork"
  <2> TAKE q \in Procs
  <2>1. CASE comp'[q] = comp[q]
    BY <2>1
  <2>2. CASE comp'[q] = [comp[q] EXCEPT !.stage = "done"]
    <3>1. comp[q] \in Comps
      BY <1>1
    <3> QED BY <2>2, <3>1 DEF Comps
  <2> QED BY <1>2, <2>1, <2>2
<1> QED BY <1>2, <1>3 DEF DaemonDies, mountVars, Quiet, Alive

-----------------------------------------------------------------------------
(* The other steps, each with what it can disturb.                          *)

(* The new process has a pid no living one has, and nobody serves it yet. *)
LEMMA ForkKeeps ==
  ASSUME TypeOK, Safe, NEW p \in Procs, Fork(p), UNCHANGED comp
  PROVE  Safe' /\ ("pidreuse" \notin Faults /\ ZygoteInv => ZygoteInv')
<1> USE DEF mountVars
<1>0. app \in [Procs -> Apps]
  BY DEF TypeOK, ModuleTypeOK
<1>1. PICK i \in Pids :
        /\ \A q \in Procs :
             app[q].pid = i => app[q].stage = "dead" /\ "pidreuse" \in Faults
        /\ app' = [app EXCEPT ![p].stage = "loaded", ![p].pid = i]
  BY DEF Fork
<1>2. /\ app[p].stage = "unborn" /\ app[p].pid = NoPid
      /\ UNCHANGED <<ns, slave, clean, sock, comp>>
  BY DEF Fork, Safe, PidInv
<1>3. /\ app'[p].stage = "loaded" /\ app'[p].pid = i
      /\ \A q \in Procs \ {p} : app'[q] = app[q]
  BY <1>0, <1>1 DEF Apps
<1>4. sock[p].req = NoPid /\ comp[p].pid = NoPid
  BY <1>2 DEF Safe, RequestInv
<1>5. PidInv'
  <2>1. (\A q \in Procs : app[q].stage = "unborn" => app[q].pid = NoPid)'
    BY <1>3 DEF Safe, PidInv
  <2>2. ASSUME NEW q \in Procs, NEW r \in Procs, Alive(q)', Alive(r)',
               app'[q].pid = app'[r].pid
        PROVE  q = r
    <3>1. \A o \in Procs \ {p} : Alive(o)' => Alive(o) /\ app[o].pid # i
      BY <1>1, <1>3 DEF Alive
    <3>2. CASE q = p \/ r = p
      BY <1>3, <2>2, <3>1, <3>2
    <3>3. CASE q # p /\ r # p
      BY <1>3, <2>2, <3>1, <3>3 DEF Safe, PidInv
    <3> QED BY <3>2, <3>3
  <2> QED BY <2>1, <2>2 DEF PidInv
<1>6. NsInv'
  BY <1>2, <1>3 DEF Safe, NsInv, Isolated
<1>7. RequestInv'
  BY <1>2, <1>3, <1>4 DEF Safe, RequestInv
<1>8. ChildInv'
  <2>1. comp[p].child = "none"
    BY <1>4 DEF Safe, RequestInv
  <2> QED BY <1>2, <1>3, <2>1 DEF Safe, ChildInv, Alive, ChildWorks
<1>9. "pidreuse" \notin Faults /\ ZygoteInv => ZygoteInv'
  <2> SUFFICES ASSUME "pidreuse" \notin Faults, ZygoteInv PROVE ZygoteInv'
    OBVIOUS
  <2>1. \A q \in Procs : app[q].pid # i
    BY <1>1
  <2>2. ASSUME NEW q \in Procs, NEW r \in Procs, app'[q].pid # NoPid,
               app'[q].pid = app'[r].pid
        PROVE  q = r
    <3>1. CASE q = p \/ r = p
      BY <1>3, <2>1, <2>2, <3>1
    <3>2. CASE q # p /\ r # p
      BY <1>3, <2>2, <3>2 DEF ZygoteInv
    <3> QED BY <3>1, <3>2
  <2> QED BY <1>2, <2>2 DEF ZygoteInv
<1> QED BY <1>5, <1>6, <1>7, <1>8, <1>9 DEF Safe

(* new_mount_ns: after MS_SLAVE the process is in its own namespace. *)
LEMMA NewMountNsKeeps ==
  ASSUME TypeOK, Safe, NEW p \in Procs, NewMountNs(p), UNCHANGED comp
  PROVE  Safe' /\ (ZygoteInv => ZygoteInv')
<1>0. /\ app \in [Procs -> Apps] /\ ns \in [Procs -> Namespaces]
      /\ app[p].stage = "ns" /\ UNCHANGED <<clean, sock>>
  BY DEF TypeOK, ModuleTypeOK, PlatformTypeOK, NewMountNs
<1>1. /\ \A q \in Procs \ {p} : app'[q] = app[q]
      /\ app'[p].pid = app[p].pid
      /\ app'[p].stage \in {"ret", "write", "unmount"}
      /\ app'[p].stage # "ret" => slave' = slave \cup {p} /\ ns' = [ns EXCEPT ![p] = p]
      /\ app'[p].stage = "ret" => slave' = slave
      /\ \A q \in Procs : ns'[q] = ns[q] \/ ns'[q] = q
  <2>1. ASSUME NEW fds, NEW tags, LeaveScope(p, fds, tags)
        PROVE  /\ \A q \in Procs \ {p} : app'[q] = app[q]
               /\ app'[p].pid = app[p].pid /\ app'[p].stage = "ret"
    BY <1>0, <2>1 DEF LeaveScope, Apps
  <2>2. CASE LeaveScope(p, app[p].fds, {"unshare"}) /\ UNCHANGED <<ns, slave>>
    BY <2>1, <2>2
  <2>3. CASE /\ ns' = [ns EXCEPT ![p] = p] /\ UNCHANGED slave
             /\ LeaveScope(p, AfterUnshare(app[p].fds), {"slave"})
    BY <1>0, <2>1, <2>3
  <2>4. CASE /\ ns' = [ns EXCEPT ![p] = p] /\ slave' = slave \cup {p}
             /\ app' = [app EXCEPT
                       ![p].fds = AfterUnshare(@),
                       ![p].stage = IF app[p].cfd = "none" THEN "unmount"
                                                           ELSE "write"]
    BY <1>0, <2>4 DEF Apps
  <2> QED BY <2>2, <2>3, <2>4 DEF NewMountNs, MakeSlave
<1>2. PidInv'
  BY <1>0, <1>1 DEF Safe, PidInv, Alive
<1>3. NsInv'
  BY <1>0, <1>1 DEF Safe, NsInv, Isolated
<1>4. RequestInv'
  BY <1>0, <1>1 DEF Safe, RequestInv
<1>5. ChildInv'
  BY <1>0, <1>1 DEF Safe, ChildInv, Alive
<1>6. ZygoteInv => ZygoteInv'
  BY <1>0, <1>1 DEF ZygoteInv
<1> QED BY <1>2, <1>3, <1>4, <1>5, <1>6 DEF Safe

(* The pid that is written is the writer's, whose namespace is MS_SLAVE. *)
LEMMA WritePidKeeps ==
  ASSUME TypeOK, Safe, NEW p \in Procs, WritePid(p), UNCHANGED comp
  PROVE  Safe' /\ (ZygoteInv => ZygoteInv')
<1>0. /\ app \in [Procs -> Apps] /\ sock \in [Procs -> Sockets]
      /\ app[p].stage = "write" /\ UNCHANGED <<ns, slave, clean>>
  BY DEF TypeOK, ModuleTypeOK, PlatformTypeOK, WritePid, mountVars
<1>1. /\ \A q \in Procs \ {p} : app'[q] = app[q]
      /\ app'[p].pid = app[p].pid
      /\ app'[p].stage \in {"read", "close"}
  BY <1>0 DEF WritePid, Apps
<1>2. \A q \in Procs : sock'[q].req = sock[q].req \/ (q = p /\ sock'[q].req = app[p].pid)
  BY <1>0 DEF WritePid, Sockets
<1>3. p \in slave
  BY <1>0 DEF Safe, NsInv, Isolated
<1>4. PidInv'
  BY <1>0, <1>1 DEF Safe, PidInv, Alive
<1>5. NsInv'
  BY <1>0, <1>1, <1>3 DEF Safe, NsInv
<1>6. RequestInv'
  BY <1>0, <1>1, <1>2, <1>3 DEF Safe, RequestInv
<1>7. ChildInv'
  BY <1>0, <1>1 DEF Safe, ChildInv, Alive
<1>8. ZygoteInv => ZygoteInv'
  BY <1>0, <1>1 DEF ZygoteInv
<1> QED BY <1>4, <1>5, <1>6, <1>7, <1>8 DEF Safe

(* The fallback's doUnmount reaches only the process's own namespace. *)
LEMMA DoUnmountKeeps ==
  ASSUME TypeOK, Safe, NEW p \in Procs, DoUnmount(p), UNCHANGED comp
  PROVE  Safe' /\ (ZygoteInv => ZygoteInv')
<1>0. /\ app \in [Procs -> Apps] /\ app[p].stage = "unmount"
      /\ UNCHANGED <<ns, slave, sock>>
  BY DEF TypeOK, ModuleTypeOK, DoUnmount
<1>1. /\ \A q \in Procs \ {p} : app'[q] = app[q]
      /\ app'[p].pid = app[p].pid /\ app'[p].stage = "hide"
  BY <1>0 DEF DoUnmount, Apps
<1>2. p \in slave /\ ns[p] = p
  BY <1>0 DEF Safe, NsInv, Isolated
<1>3. clean' = clean \cup {p}
  BY <1>2 DEF DoUnmount, Propagated
<1>4. PidInv'
  BY <1>0, <1>1 DEF Safe, PidInv, Alive
<1>5. NsInv'
  BY <1>0, <1>1, <1>2 DEF Safe, NsInv
<1>6. RequestInv'
  BY <1>0, <1>1 DEF Safe, RequestInv
<1>7. ChildInv'
  BY <1>0, <1>1 DEF Safe, ChildInv, Alive
<1>8. ZygoteInv => ZygoteInv'
  BY <1>0, <1>1, <1>3, PlatformAssumption DEF ZygoteInv
<1> QED BY <1>4, <1>5, <1>6, <1>7, <1>8 DEF Safe

(* The handler takes the pid over from the socket. *)
LEMMA HandlerReadKeeps ==
  ASSUME TypeOK, Safe, NEW p \in Procs, HandlerRead(p), UNCHANGED app
  PROVE  Safe' /\ (ZygoteInv => ZygoteInv')
<1>0. /\ comp \in [Procs -> Comps] /\ sock \in [Procs -> Sockets]
      /\ UNCHANGED <<ns, slave, clean>>
  BY DEF TypeOK, CompanionTypeOK, PlatformTypeOK, HandlerRead, mountVars
<1>1. /\ \A q \in Procs \ {p} : comp'[q] = comp[q] /\ sock'[q] = sock[q]
      /\ comp'[p].child = comp[p].child /\ comp'[p].childNs = comp[p].childNs
      /\ \/ /\ comp'[p].pid = sock[p].req /\ sock[p].req # NoPid
            /\ sock'[p].req = NoPid
         \/ /\ comp'[p].pid = comp[p].pid /\ comp'[p].stage = "done"
            /\ sock'[p].req = sock[p].req
  BY <1>0 DEF HandlerRead, HangUp, Comps, Sockets
<1>2. PidInv' /\ NsInv'
  BY <1>0 DEF Safe, PidInv, NsInv, Alive
<1>3. RequestInv'
  BY <1>0, <1>1 DEF Safe, RequestInv
<1>4. ChildInv'
  BY <1>0, <1>1 DEF Safe, ChildInv, Alive
<1>5. ZygoteInv => ZygoteInv'
  BY <1>0, <1>1 DEF ZygoteInv
<1> QED BY <1>2, <1>3, <1>4, <1>5 DEF Safe

(* The living process that has the pid is the requester, or the requester is *)
(* dead and its pid was given again.                                         *)
LEMMA SwitchKeeps ==
  ASSUME TypeOK, Safe, NEW p \in Procs,
         ChildSwitchMountNS(p, HoldersOf(comp[p].pid)), UNCHANGED app
  PROVE  Safe' /\ (ZygoteInv => ZygoteInv')
<1>0. /\ comp \in [Procs -> Comps] /\ sock \in [Procs -> Sockets]
      /\ comp[p].child = "setns" /\ UNCHANGED <<ns, slave, clean>>
  BY DEF TypeOK, CompanionTypeOK, PlatformTypeOK, ChildSwitchMountNS, mountVars
<1>s. \A q \in Procs : sock'[q].req = sock[q].req
  BY <1>0 DEF ChildSwitchMountNS, EndChild, Sockets
<1>1. comp[p].pid = app[p].pid /\ p \in slave /\ ns[p] = p /\ app[p].pid # NoPid
  BY <1>0 DEF Safe, RequestInv, NsInv
<1>2. /\ \A q \in Procs \ {p} : comp'[q] = comp[q]
      /\ comp'[p].pid = comp[p].pid /\ comp'[p].stage = comp[p].stage
      /\ \/ comp'[p].child = "exit1"
         \/ comp'[p].child = "unmount" /\ comp'[p].childNs \in HoldersOf(comp[p].pid)
  BY <1>0 DEF ChildSwitchMountNS, EndChild, Comps
<1>3. PidInv' /\ NsInv'
  BY <1>0 DEF Safe, PidInv, NsInv, Alive
<1>4. RequestInv'
  BY <1>0, <1>s, <1>1, <1>2 DEF Safe, RequestInv
<1>5. ASSUME comp'[p].child = "unmount"
      PROVE  \E r \in Procs : Alive(r) /\ app[r].pid = app[p].pid /\ comp'[p].childNs = ns[r]
  BY <1>1, <1>2, <1>5 DEF HoldersOf, Alive
<1>6. ChildInv'
  <2>1. comp'[p].child \in ChildWorks \ {"setns"} /\ Alive(p) => comp'[p].childNs = p
    BY <1>1, <1>2, <1>5 DEF Safe, PidInv, ChildWorks
  <2> QED BY <1>0, <1>2, <2>1 DEF Safe, ChildInv, Alive
<1>7. ZygoteInv => ZygoteInv'
  BY <1>0, <1>1, <1>2, <1>5 DEF ZygoteInv
<1> QED BY <1>3, <1>4, <1>6, <1>7 DEF Safe

(* The child's doUnmount reaches only the requester's namespace. *)
LEMMA ChildUnmountKeeps ==
  ASSUME TypeOK, Safe, NEW p \in Procs, ChildUnmount(p), UNCHANGED app
  PROVE  Safe' /\ (ZygoteInv => ZygoteInv')
<1>0. /\ comp \in [Procs -> Comps] /\ comp[p].child = "unmount"
      /\ clean' = clean \cup Propagated(comp[p].childNs)
      /\ UNCHANGED <<ns, slave, sock>>
  BY DEF TypeOK, CompanionTypeOK, ChildUnmount
<1>1. p \in slave
  BY <1>0 DEF Safe, RequestInv
<1>2. /\ \A q \in Procs \ {p} : comp'[q] = comp[q]
      /\ comp'[p].pid = comp[p].pid /\ comp'[p].stage = comp[p].stage
      /\ comp'[p].child = "remount" /\ comp'[p].childNs = comp[p].childNs
  BY <1>0 DEF ChildUnmount, Comps
<1>3. PidInv' /\ NsInv'
  BY <1>0 DEF Safe, PidInv, NsInv, Alive
<1>4. RequestInv'
  BY <1>0, <1>2 DEF Safe, RequestInv
<1>5. ChildInv'
  BY <1>0, <1>2 DEF Safe, ChildInv, Alive, ChildWorks
<1>6. ZygoteInv => ZygoteInv'
  <2> SUFFICES ASSUME ZygoteInv PROVE ZygoteInv'
    OBVIOUS
  <2>1. clean' = clean \cup {p}
    BY <1>0, <1>1 DEF ZygoteInv, Propagated
  <2> QED BY <1>0, <1>2, <2>1, PlatformAssumption DEF ZygoteInv
<1> QED BY <1>3, <1>4, <1>5, <1>6 DEF Safe

-----------------------------------------------------------------------------
LEMMA InitSafe == Init => Safe /\ ZygoteInv
<1> SUFFICES ASSUME Init PROVE Safe /\ ZygoteInv
  OBVIOUS
<1>1. /\ \A p \in Procs : /\ app[p].stage = "unborn" /\ app[p].pid = NoPid
                         /\ sock[p].req = NoPid /\ comp[p].pid = NoPid
                         /\ comp[p].stage = "idle" /\ comp[p].child = "none"
      /\ slave = {} /\ clean = {}
  BY DEF Init, PlatformInit, ModuleInit, CompanionInit
<1> QED BY <1>1 DEF Safe, PidInv, NsInv, RequestInv, ChildInv, ZygoteInv, Alive,
                    Isolated, ChildWorks

LEMMA NextSafe ==
  ASSUME TypeOK, Safe, [Next]_vars
  PROVE  Safe' /\ ("pidreuse" \notin Faults /\ ZygoteInv => ZygoteInv')
<1>1. ASSUME NEW p \in Procs, AppStep(p) \/ Die(p), UNCHANGED comp
      PROVE  Safe' /\ ("pidreuse" \notin Faults /\ ZygoteInv => ZygoteInv')
  <2>1. CASE QuietApp(p)
    BY <1>1, <2>1, QuietAppStep, QuietKeeps
  <2>2. CASE Fork(p)
    BY <1>1, <2>2, ForkKeeps
  <2>3. CASE NewMountNs(p)
    BY <1>1, <2>3, NewMountNsKeeps
  <2>4. CASE WritePid(p)
    BY <1>1, <2>4, WritePidKeeps
  <2>5. CASE DoUnmount(p)
    BY <1>1, <2>5, DoUnmountKeeps
  <2> QED BY <1>1, <2>1, <2>2, <2>3, <2>4, <2>5 DEF AppStep, QuietApp
<1>2. ASSUME NEW p \in Procs, Handler(p) \/ Child(p) \/ (ChildKilled(p) /\ UNCHANGED app)
      PROVE  Safe' /\ ("pidreuse" \notin Faults /\ ZygoteInv => ZygoteInv')
  <2>0. UNCHANGED app
    BY <1>2 DEF Handler, Child
  <2>1. CASE QuietComp(p)
    BY <2>0, <2>1, QuietCompStep, QuietKeeps
  <2>2. CASE HandlerRead(p)
    BY <2>0, <2>2, HandlerReadKeeps
  <2>3. CASE ChildSwitchMountNS(p, HoldersOf(comp[p].pid))
    BY <2>0, <2>3, SwitchKeeps
  <2>4. CASE ChildUnmount(p)
    BY <2>0, <2>4, ChildUnmountKeeps
  <2> QED BY <1>2, <2>1, <2>2, <2>3, <2>4
          DEF Handler, HandlerStep, Child, ChildStep, QuietComp
<1>3. CASE DaemonDies /\ UNCHANGED app
  BY <1>3, QuietDaemonDies, QuietKeeps
<1>4. CASE UNCHANGED vars
  <2>1. Quiet
    BY <1>4 DEF vars, Quiet, Alive
  <2> QED BY <2>1, QuietKeeps
<1> QED BY <1>1, <1>2, <1>3, <1>4 DEF Next, Terminated

(* The inductive invariant holds in every reachable state, whatever fails    *)
(* and even if pids are given again.                                         *)
THEOREM Inductive == Spec => []IInv
<1>1. Init => IInv
  BY InitType, InitSafe DEF IInv, Safe
<1>2. IInv /\ [Next]_vars => IInv'
  BY NextType, NextSafe DEF IInv, Safe
<1> QED BY <1>1, <1>2, PTL DEF Spec

(* While a process is alive the companion's child serves it in its own       *)
(* isolated namespace, whatever fails and even if pids are given again.      *)
THEOREM ServesRequester == Spec => []ChildServesRequester
<1>1. IInv => ChildServesRequester
  BY DEF IInv, ChildInv, RequestInv, NsInv, ChildServesRequester, ChildWorks
<1> QED BY <1>1, Inductive, PTL

(* doUnmount never reaches Zygote's namespace if no pid is given to a second *)
(* process.                                                                  *)
THEOREM ZygoteSafe ==
  ASSUME "pidreuse" \notin Faults
  PROVE  Spec => []ZygoteNamespaceIntact
<1>1. Init => ZygoteInv
  BY InitSafe
<1>2. IInv /\ ZygoteInv /\ [Next]_vars => ZygoteInv'
  BY NextSafe DEF IInv, Safe
<1>3. ZygoteInv => ZygoteNamespaceIntact
  BY DEF ZygoteInv, ZygoteNamespaceIntact
<1> QED BY <1>1, <1>2, <1>3, Inductive, PTL DEF Spec
=============================================================================
