----------------------- MODULE AssistantCourseProofs -----------------------
(***************************************************************************)
(* The course one process takes through the hooks and the callback: what    *)
(* its slots, its callback, its descriptors and its capabilities are at     *)
(* each stage.  Everything here is about one process's record, which only   *)
(* that process changes.                                                    *)
(***************************************************************************)
EXTENDS AssistantProofs

(* Before preAppSpecialize nothing has been touched. *)
Untouched(a) ==
  a.stage \in {"unborn", "loaded"} =>
    /\ ~a.target /\ a.asked = {} /\ ~a.told /\ ~a.res /\ ~a.stray
    /\ a.cb = "noop" /\ a.cfd = "none" /\ a.lib = "loaded"
    /\ a.got["unshare"] = "orig" /\ a.got["setresuid"] = "orig"
    /\ a.fds["file"] = "current"
    /\ a.srr = {} /\ a.errs = {}

(* A process is a target exactly if what Zygisk was asked for passes the     *)
(* three tests.                                                              *)
Judged(a) == a.target <=> \E r \in a.asked : ShouldProcess(r.flags, r.uid)

(* Both hooks are in, or "hook" is logged, until postAppSpecialize.  A slot  *)
(* that still points into the library afterwards has been logged, and so has *)
(* one in a process whose library is unmapped.                               *)
HooksHeld(a) ==
  LET held == \E s \in Syms : a.got[s] = "new"
      both == \A s \in Syms : a.got[s] = "new"
  IN  /\ held => a.target
      /\ a.target /\ a.stage \notin {"post", "running", "dead"}
           => both \/ "hook" \in a.errs
      /\ a.lib = "unmapped" => a.stage \in {"running", "dead"}
      /\ held /\ (a.lib = "unmapped" \/ a.stage \in {"post", "running"})
           => "unhook" \in a.errs

(* The callback is armed only with both hooks in and before either ran, and  *)
(* while it runs, and when it has run, the empty one is in its place.        *)
ArmedOnce(a) ==
  /\ a.cb = "armed" =>
       /\ a.target /\ a.stage \in {"zygote", "dead"} /\ "hook" \notin a.errs
       /\ a.got["unshare"] = "new" /\ a.got["setresuid"] = "new"
       /\ ~a.res /\ ~a.stray
  /\ a.stage \in InCallback \cup {"ret"} => a.cb = "noop" /\ a.target
  /\ a.stage \in InCallback => "hook" \notin a.errs
  /\ a.stage \in {"ns", "write", "read"} => ~a.res
  /\ a.stage \in {"ns", "write"} => ~a.stray

(* Capabilities are lost in setresuid and not before. *)
PrivHeld(a) == a.stage \notin {"dropped", "post", "running", "dead"} => a.priv

(* The companion's descriptor: open in a live process only until the         *)
(* callback's close, or because new_mount_ns failed.                         *)
FdUse(a) ==
  /\ a.cfd \in {"open", "reused"} =>
       \/ a.cb = "armed"
       \/ a.stage \in {"ns", "write", "read", "close", "dead"}
       \/ a.errs \cap {"unshare", "slave"} # {}
  /\ a.stage = "read" => a.cfd \in {"open", "reused"} /\ (a.cfd = "reused" => a.stray)

(* What the reopener captured, and what it brought back. *)
Reopened(a) ==
  /\ a.srr \subseteq Reopenable
  /\ a.stage \in InCallback => a.srr = Reopenable \/ "reopen" \in a.errs
  /\ a.fds["sock"] = "current"
  /\ \/ a.fds["file"] = "current"
     \/ ~a.target
     \/ a.stage \in InCallback \cup {"dead"}
     \/ a.errs \cap {"hook", "reopen"} # {}

Course(a) ==
  /\ Untouched(a) /\ Judged(a) /\ HooksHeld(a) /\ ArmedOnce(a)
  /\ PrivHeld(a) /\ FdUse(a) /\ Reopened(a)

CourseInv == \A p \in Procs : Course(app[p])

-----------------------------------------------------------------------------
(* A hook that reports success has replaced the slot. *)
LEMMA HookSlots ==
  ASSUME NEW h \in HookOutcomes
  PROVE  h.ok \in BOOLEAN /\ (h.ok => h.slot = "new")
<1>1. h = [ok |-> TRUE, slot |-> "new"] \/ h \in [ok : {FALSE}, slot : {"orig", "new"}]
  BY DEF HookOutcomes
<1>2. CASE h = [ok |-> TRUE, slot |-> "new"]
  BY <1>2
<1>3. CASE h \in [ok : {FALSE}, slot : {"orig", "new"}]
  BY <1>3
<1> QED BY <1>1, <1>2, <1>3

(* Only the acting process's record changes. *)
LEMMA CourseUpdate ==
  ASSUME TypeOK, CourseInv, NEW p \in Procs, NEW b,
         \A q \in Procs \ {p} : app'[q] = app[q], app'[p] = b, Course(b)
  PROVE  CourseInv'
  BY DEF CourseInv, Course, Untouched, Judged, HooksHeld, ArmedOnce, PrivHeld, FdUse, Reopened

LEMMA InitCourse == Init => CourseInv
  BY DEF Init, ModuleInit, CourseInv, Course, Untouched, Judged, HooksHeld, ArmedOnce,
         PrivHeld, FdUse, Reopened, Syms, FdKinds, InCallback

(* Zygote's own steps and the handlers before specialisation. *)
LEMMA BeforeCourse ==
  ASSUME TypeOK, CourseInv, NEW p \in Procs,
         Fork(p) \/ RegisterFails(p) \/ PreServerSpecialize(p) \/ PreAppSpecialize(p)
  PROVE  CourseInv'
<1> DEFINE a == app[p]
<1> USE DEF Course, Untouched, Judged, HooksHeld, ArmedOnce, PrivHeld, FdUse, Reopened,
            InCallback, Syms, FdKinds
<1>0. app \in [Procs -> Apps] /\ a \in Apps /\ Course(a)
  BY DEF TypeOK, ModuleTypeOK, CourseInv
<1>1. ASSUME NEW b, app' = [app EXCEPT ![p] = b], Course(b)
      PROVE  CourseInv'
  BY <1>0, <1>1, CourseUpdate
<1>2. CASE Fork(p)
  <2>1. PICK i \in Pids : app' = [app EXCEPT ![p].stage = "loaded", ![p].pid = i]
    BY <1>2 DEF Fork
  <2> DEFINE b == [a EXCEPT !.stage = "loaded", !.pid = i]
  <2>2. app' = [app EXCEPT ![p] = b]
    BY <1>0, <2>1
  <2>3. Course(b)
    BY <1>0, <1>2 DEF Apps, Fork
  <2> QED BY <1>1, <2>2, <2>3
<1>3. CASE RegisterFails(p)
  <2> DEFINE b == [a EXCEPT !.stage = "zygote"]
  <2>1. app' = [app EXCEPT ![p] = b]
    BY <1>0, <1>3 DEF RegisterFails
  <2>2. Course(b)
    BY <1>0, <1>3 DEF Apps, RegisterFails
  <2> QED BY <1>1, <2>1, <2>2
<1>4. CASE PreServerSpecialize(p)
  <2> DEFINE b == [a EXCEPT !.stage = "zygote", !.lib = "dlclose"]
  <2>1. app' = [app EXCEPT ![p] = b]
    BY <1>0, <1>4 DEF PreServerSpecialize
  <2>2. Course(b)
    BY <1>0, <1>4 DEF Apps, PreServerSpecialize
  <2> QED BY <1>1, <2>1, <2>2
<1>5. ASSUME app[p].stage = "loaded", NEW r \in Requests, ~ShouldProcess(r.flags, r.uid),
             app' = [app EXCEPT ![p].stage = "zygote", ![p].lib = "dlclose",
                                ![p].asked = {r}]
      PROVE  CourseInv'
  <2> DEFINE b == [a EXCEPT !.stage = "zygote", !.lib = "dlclose", !.asked = {r}]
  <2>1. app' = [app EXCEPT ![p] = b]
    BY <1>0, <1>5
  <2>2. Course(b)
    BY <1>0, <1>5 DEF Apps
  <2> QED BY <1>1, <2>1, <2>2
<1>6. ASSUME app[p].stage = "loaded", NEW r \in Requests, ShouldProcess(r.flags, r.uid),
             NEW u \in HookOutcomes, NEW s \in HookOutcomes,
             NEW conn \in BOOLEAN, NEW ex \in BOOLEAN,
             InstallHooks(p, r, u, s, conn, ex)
      PROVE  CourseInv'
  <2> DEFINE hooked    == u.ok /\ s.ok
             connected == hooked /\ conn
             got  == [unshare |-> u.slot, setresuid |-> SetresuidSlot(u, s)]
             errs == a.errs \cup Failed("hook", hooked)
                       \cup Failed("connect", hooked => conn)
                       \cup Failed("exempt", hooked => conn /\ ex)
             cb   == ArmedCallback(hooked, connected)
             cfd  == IF connected THEN "open" ELSE "none"
             b    == [a EXCEPT !.stage = "zygote", !.lib = "dlclose", !.asked = {r},
                               !.target = TRUE, !.got = got, !.cb = cb, !.cfd = cfd,
                               !.errs = errs]
  <2>1. app' = [app EXCEPT ![p] = b]
    BY <1>0, <1>6 DEF InstallHooks
  <2>2. /\ u.ok \in BOOLEAN /\ s.ok \in BOOLEAN
        /\ u.ok => u.slot = "new"
        /\ s.ok => s.slot = "new"
    BY HookSlots
  <2>3. /\ hooked => got["unshare"] = "new" /\ got["setresuid"] = "new"
        /\ ~hooked => "hook" \in errs
        /\ hooked => "hook" \notin errs
    BY <1>0, <1>6, <2>2 DEF SetresuidSlot, Failed
  <2>4. /\ cb = IF hooked THEN "armed" ELSE "noop"
        /\ cfd # "none" => hooked
    BY DEF ArmedCallback
  <2>5. Course(b)
    <3> HIDE DEF hooked, got, errs, cb, cfd
    <3> QED BY <1>0, <1>6, <2>3, <2>4 DEF Apps
  <2> QED BY <1>1, <2>1, <2>5
<1>7. CASE PreAppSpecialize(p)
  BY <1>5, <1>6, <1>7 DEF PreAppSpecialize, Returns
<1> QED BY <1>2, <1>3, <1>4, <1>7

(* What Zygote does in the process, and the returns from the two hooks. *)
LEMMA ZygoteCourse ==
  ASSUME TypeOK, CourseInv, NEW p \in Procs,
         \/ ZygoteClosesFd(p)
         \/ \E f \in SUBSET CloneFlags \ {{}} : CallUnshare(p, f)
         \/ CallSetresuid(p)
         \/ ReturnFromUnshare(p)
         \/ ReturnFromSetresuid(p)
  PROVE  CourseInv'
<1> DEFINE a == app[p]
<1> USE DEF Course, Untouched, Judged, HooksHeld, ArmedOnce, PrivHeld, FdUse, Reopened,
            InCallback, Syms
<1>0. app \in [Procs -> Apps] /\ a \in Apps /\ Course(a)
  BY DEF TypeOK, ModuleTypeOK, CourseInv
<1>1. ASSUME NEW b, app' = [app EXCEPT ![p] = b], Course(b)
      PROVE  CourseInv'
  BY <1>0, <1>1, CourseUpdate
<1>f. /\ a.fds \in FdTables
      /\ AfterUnshare(a.fds)["sock"] = a.fds["sock"]
  BY <1>0 DEF Apps, AfterUnshare, FdTables, FdKinds
<1>h. ASSUME NEW sym, NEW f, NEW n, EnterHook(p, sym, f, n), a.stage = "zygote",
             \E s \in Syms : a.got[s] = "new"
      PROVE  CourseInv'
  <2>1. PICK ok \in Returns("reopen") :
          app' = [app EXCEPT
              ![p].hook = sym, ![p].flags = f, ![p].calls = n,
              ![p].cb = "noop",
              ![p].srr   = IF app[p].cb = "armed" /\ ok THEN Reopenable ELSE @,
              ![p].errs  = IF app[p].cb = "armed" THEN @ \cup Failed("reopen", ok)
                                                  ELSE @,
              ![p].stage = IF app[p].cb = "armed" THEN "ns" ELSE "ret"]
    BY <1>h DEF EnterHook
  <2> DEFINE srr   == IF a.cb = "armed" /\ ok THEN Reopenable ELSE a.srr
             errs  == IF a.cb = "armed" THEN a.errs \cup Failed("reopen", ok) ELSE a.errs
             stage == IF a.cb = "armed" THEN "ns" ELSE "ret"
             b     == [a EXCEPT !.hook = sym, !.flags = f, !.calls = n, !.cb = "noop",
                                !.srr = srr, !.errs = errs, !.stage = stage]
  <2>2. app' = [app EXCEPT ![p] = b]
    BY <1>0, <2>1 DEF Apps
  <2>3. /\ srr \subseteq Reopenable
        /\ a.cb = "armed" => srr = Reopenable \/ "reopen" \in errs
        /\ "hook" \in a.errs <=> "hook" \in errs
        /\ a.errs \subseteq errs
    BY <1>0 DEF Failed
  <2>4. Course(b)
    <3>1. CASE a.cb = "armed"
      <4> HIDE DEF srr, errs
      <4> QED BY <1>0, <1>h, <2>3, <3>1 DEF Apps
    <3>2. CASE a.cb # "armed"
      <4>1. srr = a.srr /\ errs = a.errs /\ stage = "ret"
        BY <3>2
      <4> HIDE DEF srr, errs, stage
      <4> QED BY <1>0, <1>h, <3>2, <4>1 DEF Apps
    <3> HIDE DEF b, Course
    <3> QED BY <3>1, <3>2
  <2> HIDE DEF b, Course
  <2> QED BY <1>1, <2>2, <2>4
<1>2. CASE ZygoteClosesFd(p)
  <2>1. PICK c \in {"closed", "reused"} : app' = [app EXCEPT ![p].cfd = c]
    BY <1>2 DEF ZygoteClosesFd
  <2> DEFINE b == [a EXCEPT !.cfd = c]
  <2>2. app' = [app EXCEPT ![p] = b]
    BY <1>0, <2>1
  <2>3. Course(b)
    BY <1>0, <1>2 DEF Apps, ZygoteClosesFd
  <2> QED BY <1>1, <2>2, <2>3
<1>3. ASSUME NEW f, CallUnshare(p, f)
      PROVE  CourseInv'
  <2>1. CASE EnterHook(p, "unshare", f, a.calls + 1) /\ a.got["unshare"] = "new"
    BY <1>3, <1>h, <2>1 DEF CallUnshare
  <2>2. CASE /\ a.got["unshare"] = "orig"
             /\ app' = [app EXCEPT ![p].calls = @ + 1, ![p].told = TRUE,
                                   ![p].fds = AfterUnshare(@)]
    <3> DEFINE b == [a EXCEPT !.calls = a.calls + 1, !.told = TRUE,
                              !.fds = AfterUnshare(a.fds)]
    <3>1. app' = [app EXCEPT ![p] = b]
      BY <1>0, <2>2 DEF Apps
    <3>2. Course(b)
      BY <1>0, <1>3, <1>f, <2>2 DEF Apps, CallUnshare
    <3> QED BY <1>1, <3>1, <3>2
  <2>3. CASE app' = [app EXCEPT ![p].calls = @ + 1]
    <3> DEFINE b == [a EXCEPT !.calls = a.calls + 1]
    <3>1. app' = [app EXCEPT ![p] = b]
      BY <1>0, <2>3 DEF Apps
    <3>2. Course(b)
      BY <1>0, <1>3 DEF Apps, CallUnshare
    <3> QED BY <1>1, <3>1, <3>2
  <2> QED BY <1>3, <2>1, <2>2, <2>3 DEF CallUnshare
<1>4. CASE CallSetresuid(p)
  <2>1. CASE EnterHook(p, "setresuid", {}, a.calls) /\ a.got["setresuid"] = "new"
    BY <1>4, <1>h, <2>1 DEF CallSetresuid
  <2>2. CASE /\ a.got["setresuid"] = "orig"
             /\ app' = [app EXCEPT ![p].stage = "dropped", ![p].priv = FALSE]
    <3> DEFINE b == [a EXCEPT !.stage = "dropped", !.priv = FALSE]
    <3>1. app' = [app EXCEPT ![p] = b]
      BY <1>0, <2>2
    <3>2. Course(b)
      BY <1>0, <1>4, <2>2 DEF Apps, CallSetresuid
    <3> QED BY <1>1, <3>1, <3>2
  <2> QED BY <1>4, <2>1, <2>2 DEF CallSetresuid
<1>5. CASE ReturnFromUnshare(p)
  <2> DEFINE told == a.told \/ "CLONE_NEWNS" \in a.flags
             b    == [a EXCEPT !.stage = "zygote", !.hook = "none", !.flags = {},
                               !.told = told, !.fds = a.fds]
  <2>1. "CLONE_NEWNS" \notin Stripped(a.flags)
    BY DEF Stripped
  <2>2. app' = [app EXCEPT ![p] = b]
    BY <1>0, <1>5, <2>1 DEF ReturnFromUnshare, Apps
  <2>3. Course(b)
    <3> HIDE DEF told
    <3> QED BY <1>0, <1>5 DEF Apps, ReturnFromUnshare
  <2> QED BY <1>1, <2>2, <2>3
<1>6. CASE ReturnFromSetresuid(p)
  <2> DEFINE b == [a EXCEPT !.stage = "dropped", !.hook = "none", !.priv = FALSE]
  <2>1. app' = [app EXCEPT ![p] = b]
    BY <1>0, <1>6 DEF ReturnFromSetresuid
  <2>2. Course(b)
    BY <1>0, <1>6 DEF Apps, ReturnFromSetresuid
  <2> QED BY <1>1, <2>1, <2>2
<1> QED BY <1>2, <1>3, <1>4, <1>5, <1>6

(* The callback. *)
LEMMA CallbackCourse ==
  ASSUME TypeOK, CourseInv, NEW p \in Procs,
         \/ NewMountNs(p) \/ WritePid(p) \/ ReadResult(p)
         \/ CloseFd(p) \/ DoUnmount(p) \/ DoHideZygisk(p)
  PROVE  CourseInv'
<1> DEFINE a == app[p]
<1> USE DEF Course, Untouched, Judged, HooksHeld, ArmedOnce, PrivHeld, FdUse, Reopened,
            InCallback
<1>0. app \in [Procs -> Apps] /\ a \in Apps /\ Course(a)
  BY DEF TypeOK, ModuleTypeOK, CourseInv
<1>1. ASSUME NEW b, app' = [app EXCEPT ![p] = b], Course(b)
      PROVE  CourseInv'
  BY <1>0, <1>1, CourseUpdate
<1>f. /\ a.fds \in FdTables
      /\ AfterUnshare(a.fds) \in FdTables
      /\ AfterUnshare(a.fds)["sock"] = a.fds["sock"]
  BY <1>0, FdType DEF Apps, AfterUnshare, FdTables, FdKinds
<1>l. ASSUME NEW f \in FdTables, NEW tags, LeaveScope(p, f, tags),
             a.stage \in {"ns", "hide"}, f["sock"] = "current",
             \/ tags = {} /\ a.stage = "hide"
             \/ tags \in {{"unshare"}, {"slave"}}
      PROVE  CourseInv'
  <2>1. PICK ok \in Returns("reopen") :
          app' = [app EXCEPT
              ![p].stage = "ret",
              ![p].errs  = @ \cup tags \cup Failed("reopen", ok),
              ![p].fds   = [k \in FdKinds |-> IF ok /\ k \in app[p].srr
                                                THEN ReopenOrDetach(k, f[k])
                                                ELSE f[k]]]
    BY <1>l DEF LeaveScope
  <2> DEFINE errs == a.errs \cup tags \cup Failed("reopen", ok)
             fds  == [k \in FdKinds |-> IF ok /\ k \in a.srr
                                          THEN ReopenOrDetach(k, f[k]) ELSE f[k]]
             b    == [a EXCEPT !.stage = "ret", !.errs = errs, !.fds = fds]
  <2>2. app' = [app EXCEPT ![p] = b]
    BY <1>0, <2>1 DEF Apps
  <2>3. fds["sock"] = "current"
    BY <1>0, <1>l DEF FdKinds, Reopenable
  <2>4. fds["file"] = "current" \/ "reopen" \in errs
    BY <1>0, <1>l DEF FdKinds, Reopenable, ReopenOrDetach, Failed
  <2>5. a.errs \subseteq errs /\ tags \subseteq errs
    OBVIOUS
  <2>6. Course(b)
    <3> HIDE DEF errs, fds
    <3> QED BY <1>0, <1>l, <2>3, <2>4, <2>5 DEF Apps
  <2> HIDE DEF b, Course
  <2> QED BY <1>1, <2>2, <2>6
<1>2. CASE NewMountNs(p)
  <2>1. CASE LeaveScope(p, a.fds, {"unshare"})
    BY <1>0, <1>2, <1>f, <1>l, <2>1 DEF NewMountNs
  <2>2. CASE LeaveScope(p, AfterUnshare(a.fds), {"slave"})
    BY <1>0, <1>2, <1>f, <1>l, <2>2 DEF NewMountNs
  <2>3. CASE app' = [app EXCEPT
                       ![p].fds = AfterUnshare(@),
                       ![p].stage = IF app[p].cfd = "none" THEN "unmount"
                                                           ELSE "write"]
    <3> DEFINE fds   == AfterUnshare(a.fds)
               stage == IF a.cfd = "none" THEN "unmount" ELSE "write"
               b     == [a EXCEPT !.fds = fds, !.stage = stage]
    <3>1. app' = [app EXCEPT ![p] = b]
      BY <1>0, <2>3 DEF Apps
    <3>2. Course(b)
      <4>1. fds["sock"] = "current"
        BY <1>0, <1>f
      <4>2. stage \in {"write", "unmount"} /\ (stage = "unmount" => a.cfd = "none")
        OBVIOUS
      <4>3. CASE stage = "write"
        <5> HIDE DEF fds, stage
        <5> QED BY <1>0, <1>2, <4>1, <4>3 DEF Apps, NewMountNs
      <4>4. CASE stage = "unmount"
        <5> HIDE DEF fds, stage
        <5> QED BY <1>0, <1>2, <4>1, <4>2, <4>4 DEF Apps, NewMountNs
      <4> HIDE DEF b, Course, stage
      <4> QED BY <4>2, <4>3, <4>4
    <3> HIDE DEF b, Course
    <3> QED BY <1>1, <3>1, <3>2
  <2> QED BY <1>2, <2>1, <2>2, <2>3 DEF NewMountNs
<1>3. CASE WritePid(p)
  <2>1. CASE /\ a.cfd \in {"open", "reused"}
             /\ app' = [app EXCEPT ![p].stage = "read", ![p].stray = app[p].cfd = "reused"]
    <3> DEFINE b == [a EXCEPT !.stage = "read", !.stray = a.cfd = "reused"]
    <3>1. app' = [app EXCEPT ![p] = b]
      BY <1>0, <2>1
    <3>2. Course(b)
      <4> DEFINE stray == a.cfd = "reused"
      <4>1. a.cfd = "reused" => stray
        OBVIOUS
      <4> HIDE DEF stray
      <4> QED BY <1>0, <1>3, <2>1, <4>1 DEF Apps, WritePid
    <3> QED BY <1>1, <3>1, <3>2
  <2>2. CASE app' = [app EXCEPT ![p].stage = "close",
                                ![p].stray = app[p].cfd = "reused",
                                ![p].errs = @ \cup {"write"}]
    <3> DEFINE b == [a EXCEPT !.stage = "close", !.stray = a.cfd = "reused",
                              !.errs = a.errs \cup {"write"}]
    <3>1. app' = [app EXCEPT ![p] = b]
      BY <1>0, <2>2 DEF Apps
    <3>2. Course(b)
      BY <1>0, <1>3 DEF Apps, WritePid
    <3> QED BY <1>1, <3>1, <3>2
  <2> QED BY <1>3, <2>1, <2>2 DEF WritePid
<1>4. CASE ReadResult(p)
  <2>1. ASSUME NEW r, app' = [app EXCEPT ![p].stage = "close", ![p].res = r]
        PROVE  CourseInv'
    <3> DEFINE b == [a EXCEPT !.stage = "close", !.res = r]
    <3>1. app' = [app EXCEPT ![p] = b]
      BY <1>0, <2>1
    <3>2. Course(b)
      BY <1>0, <1>4 DEF Apps, ReadResult
    <3> QED BY <1>1, <3>1, <3>2
  <2>2. CASE app' = [app EXCEPT ![p].stage = "close", ![p].errs = @ \cup {"read"}]
    <3> DEFINE b == [a EXCEPT !.stage = "close", !.errs = a.errs \cup {"read"}]
    <3>1. app' = [app EXCEPT ![p] = b]
      BY <1>0, <2>2 DEF Apps
    <3>2. Course(b)
      BY <1>0, <1>4 DEF Apps, ReadResult
    <3> QED BY <1>1, <3>1, <3>2
  <2> QED BY <1>4, <2>1, <2>2 DEF ReadResult
<1>5. CASE CloseFd(p)
  <2> DEFINE stage == AfterCompanion(a.res)
             b     == [a EXCEPT !.cfd = "closed", !.stage = stage]
  <2>1. app' = [app EXCEPT ![p] = b]
    BY <1>0, <1>5 DEF CloseFd
  <2>2. Course(b)
    BY <1>0, <1>5 DEF Apps, CloseFd, AfterCompanion
  <2> QED BY <1>1, <2>1, <2>2
<1>6. CASE DoUnmount(p)
  <2> DEFINE b == [a EXCEPT !.stage = "hide"]
  <2>1. app' = [app EXCEPT ![p] = b]
    BY <1>0, <1>6 DEF DoUnmount
  <2>2. Course(b)
    BY <1>0, <1>6 DEF Apps, DoUnmount
  <2> QED BY <1>1, <2>1, <2>2
<1>7. CASE DoHideZygisk(p)
  BY <1>0, <1>7, <1>f, <1>l DEF DoHideZygisk
<1> QED BY <1>2, <1>3, <1>4, <1>5, <1>6, <1>7

(* After specialisation. *)
LEMMA AfterCourse ==
  ASSUME TypeOK, CourseInv, NEW p \in Procs,
         PostAppSpecialize(p) \/ DlClose(p) \/ Die(p)
  PROVE  CourseInv'
<1> DEFINE a == app[p]
<1> USE DEF Course, Untouched, Judged, HooksHeld, ArmedOnce, PrivHeld, FdUse, Reopened,
            InCallback, Syms
<1>0. app \in [Procs -> Apps] /\ a \in Apps /\ Course(a)
  BY DEF TypeOK, ModuleTypeOK, CourseInv
<1>1. ASSUME NEW b, app' = [app EXCEPT ![p] = b], Course(b)
      PROVE  CourseInv'
  BY <1>0, <1>1, CourseUpdate
<1>2. CASE PostAppSpecialize(p)
  <2>1. PICK stuck \in SUBSET Hooked(p) :
          app' = [app EXCEPT
                    ![p].stage = "post",
                    ![p].got   = [s \in Syms |->
                                    IF s \in Hooked(p) \ stuck THEN "orig" ELSE @[s]],
                    ![p].errs  = @ \cup Failed("unhook", stuck = {})]
    BY <1>2 DEF PostAppSpecialize
  <2> DEFINE got  == [s \in Syms |-> IF s \in Hooked(p) \ stuck THEN "orig" ELSE a.got[s]]
             errs == a.errs \cup Failed("unhook", stuck = {})
             b    == [a EXCEPT !.stage = "post", !.got = got, !.errs = errs]
  <2>2. app' = [app EXCEPT ![p] = b]
    BY <1>0, <2>1 DEF Apps
  <2>3. /\ \A s \in Syms : got[s] = "new" => a.got[s] = "new" /\ s \in stuck
        /\ stuck # {} => "unhook" \in errs
        /\ a.errs \subseteq errs
    BY DEF Hooked, Failed
  <2>4. Course(b)
    <3> HIDE DEF got, errs
    <3> QED BY <1>0, <1>2, <2>3 DEF Apps, PostAppSpecialize
  <2> QED BY <1>1, <2>2, <2>4
<1>3. CASE DlClose(p)
  <2> DEFINE lib == IF a.lib = "dlclose" THEN "unmapped" ELSE a.lib
             b   == [a EXCEPT !.stage = "running", !.lib = lib]
  <2>1. app' = [app EXCEPT ![p] = b]
    BY <1>0, <1>3 DEF DlClose
  <2>2. Course(b)
    BY <1>0, <1>3 DEF Apps, DlClose
  <2> HIDE DEF b
  <2> QED BY <1>1, <2>1, <2>2
<1>4. CASE Die(p)
  <2> DEFINE b == [a EXCEPT !.stage = "dead"]
  <2>1. app' = [app EXCEPT ![p] = b]
    BY <1>0, <1>4 DEF Die
  <2>2. Course(b)
    BY <1>0, <1>4 DEF Apps, Die
  <2> QED BY <1>1, <2>1, <2>2
<1> QED BY <1>2, <1>3, <1>4

LEMMA NextCourse ==
  ASSUME TypeOK, CourseInv, [Next]_vars
  PROVE  CourseInv'
<1>1. ASSUME UNCHANGED app PROVE CourseInv'
  BY <1>1 DEF CourseInv
<1>2. ASSUME NEW p \in Procs, AppStep(p) PROVE CourseInv'
  BY <1>2, BeforeCourse, ZygoteCourse, CallbackCourse, AfterCourse DEF AppStep
<1>3. ASSUME NEW p \in Procs, Die(p) PROVE CourseInv'
  BY <1>3, AfterCourse
<1> QED BY <1>1, <1>2, <1>3 DEF Next, Handler, Child, Terminated, vars

(* The course every process takes, whatever fails. *)
THEOREM CourseInductive == Spec => []CourseInv
<1>1. IInv /\ CourseInv /\ [Next]_vars => CourseInv'
  BY NextCourse DEF IInv
<1> QED BY <1>1, InitCourse, Inductive, PTL DEF Spec

(* The callback runs with Zygote's capabilities: old_setresuid is called     *)
(* only after it, and never with the callback still armed.                   *)
THEOREM CallbackIsPrivileged == Spec => []CallbackPrivileged
<1>1. CourseInv => CallbackPrivileged
  BY DEF CourseInv, Course, ArmedOnce, PrivHeld, CallbackPrivileged, InCallback, Alive
<1> QED BY <1>1, CourseInductive, PTL

(* postAppSpecialize points back, or logs, every slot that was replaced      *)
(* before the library is unmapped: also those of a half-failed installation. *)
THEOREM NothingDangles == Spec => []NoDanglingHook
<1>1. CourseInv => NoDanglingHook
  BY DEF CourseInv, Course, HooksHeld, NoDanglingHook
<1> QED BY <1>1, CourseInductive, PTL

(* The socket to the root companion is closed before app code runs, unless   *)
(* new_mount_ns failed: also when Zygote closed the descriptor first.        *)
THEOREM CompanionFdIsReleased == Spec => []CompanionFdReleased
<1>1. CourseInv => CompanionFdReleased
  BY DEF CourseInv, Course, ArmedOnce, FdUse, CompanionFdReleased
<1> QED BY <1>1, CourseInductive, PTL

(* The reopener brings back exactly the descriptors of files, along every    *)
(* way out of the callback.                                                  *)
THEOREM DescriptorsFollowed == Spec => []DescriptorsFollow
<1>1. CourseInv => DescriptorsFollow
  BY DEF CourseInv, Course, Reopened, DescriptorsFollow, InCallback, Alive
<1> QED BY <1>1, CourseInductive, PTL

(* C's remainder of a negative uid is negative, so that the two ranges are   *)
(* those of every user's apps and isolated services and of no other uid.     *)
LEMMA UserAppUids ==
  ASSUME NEW uid \in Int
  PROVE  isUserAppUID(uid) <=> OfUserApp(uid)
<1> DEFINE r == uid - 100000 * (uid \div 100000)
           c == CRem(uid, AID_USER_OFFSET)
           In(x) == (10000 <= x /\ x <= 19999) \/ (90000 <= x /\ x <= 99999)
<1>1. /\ c \in Int /\ r \in Int
      /\ uid >= 0 => c = r
      /\ ~(uid >= 0) => c <= 0
  BY SMT DEF CRem, AID_USER_OFFSET
<1>2. ASSUME NEW x \in Int
      PROVE  x \in AppIds \cup IsolatedIds <=> In(x)
  <2>1. x \in AppIds <=> 10000 <= x /\ x <= 19999
    <3>1. x \in 10000..19999 <=> 10000 <= x /\ x <= 19999
      BY SMT
    <3>2. AppIds = 10000..19999
      BY SMT DEF AppIds
    <3> QED BY <3>1, <3>2, SMT
  <2>2. x \in IsolatedIds <=> 90000 <= x /\ x <= 99999
    <3>1. x \in 90000..99999 <=> 90000 <= x /\ x <= 99999
      BY SMT
    <3>2. IsolatedIds = 90000..99999
      BY SMT DEF IsolatedIds
    <3> QED BY <3>1, <3>2, SMT
  <2>3. x \in AppIds \cup IsolatedIds <=> x \in AppIds \/ x \in IsolatedIds
    BY SMT
  <2> QED BY <2>1, <2>2, <2>3, SMT
<1>3. isUserAppUID(uid) <=> c \in AppIds \cup IsolatedIds
  BY SMT DEF isUserAppUID
<1>4. OfUserApp(uid) <=> uid >= 0 /\ (r \in 10000..19999 \/ r \in 90000..99999)
  BY SMT DEF OfUserApp
<1> HIDE DEF r, c
<1>5. isUserAppUID(uid) <=> In(c)
  BY <1>1, <1>2, <1>3, SMT
<1>6. r \in 10000..19999 \/ r \in 90000..99999 <=> In(r)
  <2>1. r \in 10000..19999 <=> 10000 <= r /\ r <= 19999
    BY <1>1, SMT
  <2>2. r \in 90000..99999 <=> 90000 <= r /\ r <= 99999
    BY <1>1, SMT
  <2> QED BY <2>1, <2>2
<1>7. c <= 0 => ~In(c)
  BY <1>1, SMT
<1> HIDE DEF In
<1> QED BY <1>1, <1>4, <1>5, <1>6, <1>7, SMT

(* A target is a process that is to be hidden, and no other is. *)
LEMMA TargetsWanted ==
  ASSUME TypeOK, CourseInv, NEW p \in Procs
  PROVE  app[p].target <=> ToBeHidden(p)
<1>1. \A r \in app[p].asked : r.uid \in Int
  <2>1. app[p].asked \subseteq Requests
    BY DEF TypeOK, ModuleTypeOK, Apps
  <2>2. \A r \in Requests : r.uid \in Int
    BY PlatformAssumption DEF Requests
  <2> QED BY <2>1, <2>2
<1>2. \A r \in app[p].asked :
        ShouldProcess(r.flags, r.uid) <=>
          /\ "PROCESS_ON_DENYLIST" \in r.flags /\ "PROCESS_GRANTED_ROOT" \notin r.flags
          /\ OfUserApp(r.uid)
  BY <1>1, UserAppUids DEF ShouldProcess
<1> QED BY <1>2 DEF CourseInv, Course, Judged, ToBeHidden
=============================================================================
