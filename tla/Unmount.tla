------------------------------- MODULE Unmount -------------------------------
(***************************************************************************)
(* doUnmount of src/module/jni/modules.cpp over a mount table that others   *)
(* change too: mounts and unmounts propagate from Zygote's namespace into   *)
(* the app's (main.cpp makes it MS_SLAVE), and the companion's child and    *)
(* the app's own fallback may both be at work.  umount2 takes a path, and   *)
(* the path of a mount read earlier may lead to another one by then.        *)
(***************************************************************************)
EXTENDS MountInfo

CONSTANTS
  Unmounters,  \* processes that call doUnmount in the namespace
  Tables,      \* mount tables the namespace may start with
  Arrivals,    \* mounts that may propagate in, their at still to be filled in
  MaxEvents    \* bound on the mounts and unmounts that propagate in

(* Directory a is b or above it. *)
Above(a, b) ==
  \/ a = Root
  \/ IsPrefix(a, b) /\ (Len(a) = Len(b) \/ b[Len(a) + 1] = "/")

(* A mount table: every mount is in it with those it is mounted on, which    *)
(* come before it, as unshare leaves them, and are at directories above its  *)
(* own.                                                                      *)
Namespace(t) ==
  /\ IsFiniteSet(DOMAIN t) /\ DOMAIN t \subseteq Nat
  /\ \A i \in DOMAIN t : t[i] \in MountOf
  /\ \A i, j \in DOMAIN t : t[i].at = t[j].at => i = j
  /\ \A i \in DOMAIN t : \A l \in 1..Len(t[i].at) :
       \E j \in DOMAIN t : t[j].at = SubSeq(t[i].at, 1, l)
  /\ \A i, j \in DOMAIN t :
       IsPrefix(t[i].at, t[j].at) => i <= j /\ Above(t[i].point, t[j].point)

(* overlayfs has shown each of its directories once. *)
ShownOnce(text) ==
  \A i, j \in Starts(text) \cap DOMAIN text :
    text[i] \in {"lowerdir", "upperdir", "workdir"} /\ text[i] = text[j] => i = j

ASSUME UnmountAssumption ==
  /\ MaxEvents \in Nat
  /\ \A t \in Tables : Namespace(t) /\ \A i \in DOMAIN t : ShownOnce(t[i].super)
  /\ \A a \in Arrivals : a \in MountOf /\ Len(a.at) = 1 /\ ShownOnce(a.super)

VARIABLES
  table,      \* the namespace's mounts in mountinfo's order
  infos,      \* infos[u]: what u has parsed
  taken,      \* taken[u]: the table they were read from (for the properties)
  it,         \* it[u]: the entries the reverse iterator has still to reach
  pc,         \* pc[u]: before, in or after doUnmount, or killed
  disturbed,  \* disturbed[u]: mount points others have changed since then
  hit,        \* hit[u]: the mounts u's umount2 calls have detached
  events

vars == <<table, infos, taken, it, pc, disturbed, hit, events>>

Mounts == Range(table)

TypeOK ==
  /\ Namespace(table)
  /\ \A u \in Unmounters :
       /\ DOMAIN infos[u] \subseteq DOMAIN taken[u] /\ it[u] \subseteq DOMAIN infos[u]
       /\ pc[u] = "done" => it[u] = {}
  /\ pc \in [Unmounters -> {"before", "loop", "done", "killed"}]
  /\ events \in 0..MaxEvents

Init ==
  /\ table \in Tables
  /\ infos = [u \in Unmounters |-> <<>>]
  /\ taken = [u \in Unmounters |-> <<>>]
  /\ it = [u \in Unmounters |-> {}]
  /\ pc = [u \in Unmounters |-> "before"]
  /\ disturbed = [u \in Unmounters |-> {}]
  /\ hit = [u \in Unmounters |-> {}]
  /\ events = 0

-----------------------------------------------------------------------------
(* The kernel's path walk and umount2.                                      *)

(* Among the mounts ms, c is mounted over m or over the way to it: it sits   *)
(* on m, or beside the mount n that leads from there to m, and a walk to m's *)
(* mount point enters c before it comes to n.                                *)
Shadows(ms, c, m) ==
  /\ IsPrefix(Front(c.at), m.at) /\ ~IsPrefix(c.at, m.at)
  /\ Above(c.point, m.point)
  /\ \A n \in ms : IsPrefix(n.at, m.at) /\ Len(n.at) = Len(c.at)
                     => Above(c.point, n.point)

Visible(m) == ~\E c \in Mounts : Shadows(Mounts, c, m)

(* The mount whose root a path leads to. *)
MountAt(path) == {m \in Mounts : m.point = path /\ Visible(m)}

(* MNT_DETACH takes what is mounted on the mount along. *)
Detached(m) == {n \in Mounts : IsPrefix(m.at, n.at)}

With(m) ==
  LET new == Max(DOMAIN table) + 1
  IN  [i \in DOMAIN table \cup {new} |-> IF i = new THEN m ELSE table[i]]

Without(ms) == Restrict(table, {i \in DOMAIN table : table[i] \notin ms})

Points(ms) == {m.point : m \in ms}

-----------------------------------------------------------------------------
(* doUnmount.                                                               *)

(* A mutant: one past rbegin(). *)
FromRBeginPast(entries) == DOMAIN entries \cup {Max(DOMAIN entries \cup {0}) + 1}

(* A mutant: the last entry is left out. *)
FromRBeginShort(entries) == DOMAIN entries \ {Max(DOMAIN entries \cup {0})}

(* What is to be reached from rbegin() on. *)
FromRBegin(entries) == DOMAIN entries

(* The entries are parsed; nothing is, if mountinfo cannot be opened. *)
Parse(u) ==
  /\ pc[u] = "before"
  /\ pc' = [pc EXCEPT ![u] = "loop"]
  /\ \E read \in {table, <<>>} :
       /\ infos' = [infos EXCEPT ![u] = parseSelfMountinfo(read)]
       /\ it' = [it EXCEPT ![u] = FromRBegin(infos'[u])]
  /\ taken' = [taken EXCEPT ![u] = table]
  /\ UNCHANGED <<table, disturbed, hit, events>>

(* What the processes in us have read of the mounts ms is stale from now on. *)
Disturb(us, ms) ==
  disturbed' = [u \in Unmounters |->
                  disturbed[u] \cup (IF u \in us /\ pc[u] = "loop"
                                       THEN Points(ms) ELSE {})]

(* A mutant: begin() to end(). *)
EntryForward(u) == Min(it[u])

(* rbegin() to rend() *)
EntryAt(u) == Max(it[u])

(* One pass of the loop: umount2 of the entry's path if it should go.  When  *)
(* the path leads to no mount umount2 fails, which is only logged.           *)
Step(u) ==
  LET e == infos[u][EntryAt(u)]
      gone == IF shouldUnmount(infos[u], e)
                THEN UNION {Detached(m) : m \in MountAt(e.point)} ELSE {}
  IN  /\ pc[u] = "loop"
      /\ it[u] # {}
      /\ table' = Without(gone)
      /\ hit' = [hit EXCEPT ![u] = @ \cup gone]
      /\ it' = [it EXCEPT ![u] = @ \ {EntryAt(u)}]
      /\ Disturb(Unmounters \ {u}, gone)
      /\ UNCHANGED <<infos, taken, pc, events>>

Return(u) ==
  /\ pc[u] = "loop"
  /\ it[u] = {}
  /\ pc' = [pc EXCEPT ![u] = "done"]
  /\ UNCHANGED <<table, infos, taken, it, disturbed, hit, events>>

(* A signal ends u at any time. *)
Killed(u) ==
  /\ pc[u] \in {"before", "loop"}
  /\ pc' = [pc EXCEPT ![u] = "killed"]
  /\ UNCHANGED <<table, infos, taken, it, disturbed, hit, events>>

-----------------------------------------------------------------------------
(* What propagates in.                                                      *)

(* A mount propagates to a copy of the mount it was made on, whether a path   *)
(* leads there or not.  (One that the kernel would slip under a mount at the *)
(* very same place is left out.)                                             *)
PlacesFor(a) ==
  {under \in Mounts : /\ Above(under.point, a.point)
                      /\ \A m \in Mounts : Front(m.at) = under.at => m.point # a.point}

PropagatedMount ==
  \E a \in Arrivals : \E under \in PlacesFor(a) :
    /\ events < MaxEvents
    /\ \A m \in Mounts : Last(m.at) # Last(a.at)
    /\ table' = With([a EXCEPT !.at = under.at \o a.at])
    /\ events' = events + 1
    /\ Disturb(Unmounters, {a})
    /\ UNCHANGED <<infos, taken, it, pc, hit>>

PropagatedUmount ==
  \E m \in Mounts :
    /\ events < MaxEvents
    /\ Len(m.at) > 1
    /\ table' = Without(Detached(m))
    /\ events' = events + 1
    /\ Disturb(Unmounters, Detached(m))
    /\ UNCHANGED <<infos, taken, it, pc, hit>>

Terminated ==
  /\ \A u \in Unmounters : pc[u] \in {"done", "killed"}
  /\ UNCHANGED vars

Next ==
  \/ \E u \in Unmounters : Parse(u) \/ Step(u) \/ Return(u) \/ Killed(u)
  \/ PropagatedMount
  \/ PropagatedUmount
  \/ Terminated

Spec == Init /\ [][Next]_vars

-----------------------------------------------------------------------------
(* The entries u has set out to unmount, and the mounts these are. *)
FlaggedAt(u) == {i \in DOMAIN infos[u] : shouldUnmount(infos[u], infos[u][i])}
Flagged(u)   == {taken[u][i] : i \in FlaggedAt(u)}

(* At path or above it there was a mount that u set out to unmount and that  *)
(* another hid when u read the table, one that stays or one listed before it *)
(* and so still there when its turn comes: umount2 cannot find it.           *)
Covered(u, path) ==
  \E j \in FlaggedAt(u), i \in DOMAIN taken[u] :
    /\ Shadows(Range(taken[u]), taken[u][i], taken[u][j])
    /\ i \in FlaggedAt(u) => i < j
    /\ Above(taken[u][j].point, path)

(* Something was mounted or unmounted at path or above it since doUnmount    *)
(* read the table, by propagation or by a second doUnmount.                  *)
Disturbed(u, path) == \E p \in disturbed[u] : Above(p, path)

(* Mounts that are not a root solution's stay.  umount2 by path detaches the *)
(* mount that was read and what is mounted on it, and nothing else, unless   *)
(* the path led to another one by then or from the beginning.                *)
BystandersStay ==
  \A u \in Unmounters : \A m \in hit[u] :
    \/ \E f \in Flagged(u) : IsPrefix(f.at, m.at)
    \/ Disturbed(u, m.point)
    \/ Covered(u, m.point)

(* When doUnmount comes to rend(), a mount it set out to unmount is gone:    *)
(* unless umount2 could not find it by the path that was read, because the   *)
(* path has a space in it, because another mount was over it, or because     *)
(* something changed on the way to it since.                                 *)
ModuleMountsGone ==
  \A u \in Unmounters : pc[u] = "loop" /\ it[u] = {} =>
    \A f \in Flagged(u) \cap Mounts :
      \/ Mangle(f.point) # f.point
      \/ Disturbed(u, f.point)
      \/ Covered(u, f.point)

(* The mounts u has an entry of. *)
Entries(u) == {taken[u][i] : i \in DOMAIN infos[u]}

(* A mount from a directory of mountdir_list is recognised wherever it is    *)
(* mounted, if its device is mounted as a whole in one place only.           *)
ModuleMountsRecognised ==
  \A u \in Unmounters : \A f, g \in Entries(u) :
    (\E dir \in mountdir_list : Above(dir, g.point \o f.root))
      /\ {h \in Entries(u) : h.dev = f.dev /\ h.root = Root} = {g}
      => f \in Flagged(u)

(* "Unmount all overlayfs with lowerdir/upperdir/workdir in mountdir_list"   *)
(* (modules.cpp:48): an overlay is recognised by the first directory of each *)
(* of the three options, whatever else the text of its options holds.        *)
OverlaysRecognised ==
  \A u \in Unmounters : \A f \in Entries(u) :
    (/\ f.type = "overlay"
     /\ \E i \in DOMAIN f.super, dir \in mountdir_list :
          /\ f.super[i] \in {"lowerdir", "upperdir", "workdir"}
          /\ i = 1 \/ f.super[i - 1] = Comma
          /\ IsPrefix(<<"=">> \o dir, SubSeq(f.super, i + 1, Len(f.super))))
      => f \in Flagged(u)

-----------------------------------------------------------------------------
(* "Unmount all mounts from and to directories in mountdir_list"             *)
(* (modules.cpp:42): with nobody else at work none is left.                  *)
AllUnmounted ==
  \A u \in Unmounters : pc[u] = "done" /\ infos[u] # <<>> =>
    \A f \in Mounts : \A dir \in mountdir_list :
      /\ ~Above(dir, f.point)
      /\ \A g \in Mounts : g.dev = f.dev /\ g.root = Root
                             => ~Above(dir, g.point \o f.root)
=============================================================================
