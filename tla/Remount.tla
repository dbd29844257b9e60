------------------------------- MODULE Remount -------------------------------
(***************************************************************************)
(* doRemount of src/module/jni/modules.cpp with getExtErrorsBehavior of     *)
(* utils.cpp: the companion's children remount /data where its errors=      *)
(* option differs from what the filesystem's superblock says.  The flags    *)
(* belong to the mount in a child's own namespace, errors= and ro belong to *)
(* the filesystem, which all namespaces share.                              *)
(***************************************************************************)
EXTENDS Naturals, FiniteSets

CONSTANTS
  Workers,   \* children that call doRemount, each in a namespace of its own
  FsTypes,   \* types /data may have
  MaxEvents  \* bound on remounts of /data by others

ASSUME RemountAssumption == MaxEvents \in Nat

VARIABLES
  disk,    \* /data's type and superblock: [type, magic, errors]
  errors,  \* the errors= option in mountinfo, "none" if it is not shown
  ro,      \* the filesystem is read-only
  flags,   \* flags[w]: the mount options of /data in w's namespace
  seen,    \* seen[w]: the entry w has parsed, [errors, options]
  want,    \* want[w]: the behaviour w remounts with
  pc, events,
  was      \* was[w]: flags[w] at the start (for the properties)

vars == <<disk, errors, ro, flags, seen, want, pc, events, was>>

AtimeFlags == {"noatime", "nodiratime", "relatime"}
Options    == AtimeFlags \cup {"nosuid", "nodev", "noexec", "nosymfollow", "ro"}
Behaviours == {"continue", "remount-ro", "panic"}

TypeOK ==
  /\ errors \in Behaviours \cup {"none"}
  /\ ro \in BOOLEAN
  /\ flags \in [Workers -> SUBSET Options]
  /\ want \in [Workers -> Behaviours \cup {"none"}]
  /\ \A w \in Workers : pc[w] = "mount" => want[w] # "none"
  /\ pc \in [Workers -> {"parse", "superblock", "mount", "done", "kept", "failed", "killed"}]
  /\ events \in 0..MaxEvents

(* Mount options as the kernel shows them: noatime excludes relatime. *)
Shown == {o \in SUBSET Options : ~({"noatime", "relatime"} \subseteq o)}

Init ==
  /\ disk \in [type : FsTypes, magic : BOOLEAN, errors : 0..4]
  /\ errors \in Behaviours \cup {"none"}
  /\ \E o \in Shown : flags = [w \in Workers |-> o] /\ ro = ("ro" \in o)
  /\ was = flags
  /\ seen = [w \in Workers |-> [errors |-> "none", options |-> {}]]
  /\ want = [w \in Workers |-> "none"]
  /\ pc = [w \in Workers |-> "parse"]
  /\ events = 0

-----------------------------------------------------------------------------
(* mount(NULL, "/data", NULL, MS_REMOUNT | given, ...) in the kernel: the    *)
(* options become those given; without noatime a mount gets relatime, but    *)
(* where no option about atime is given those in place stay.                 *)
Remounted(given, old) ==
  IF given \cap AtimeFlags = {} THEN given \cup (old \cap AtimeFlags)
  ELSE IF "noatime" \in given THEN given \ {"relatime"}
  ELSE given \cup {"relatime"}

(* A mutant: the flags that were added last are left out. *)
ListedShort == {"nosuid", "nodev", "noexec"}

(* The names in mount_flags_procfs; ro is not one of them. *)
mount_flags_procfs == Options \ {"ro"}

(* A mutant: the values are taken from 0. *)
ErrorsFromZero(d) ==
  CASE d.errors = 0 -> "continue"
    [] d.errors = 1 -> "remount-ro"
    [] d.errors = 2 -> "panic"
    [] OTHER        -> "none"

(* The switch over s_errors; "none" stands for nullptr. *)
ErrorsOf(d) ==
  CASE d.errors = 1 -> "continue"
    [] d.errors = 2 -> "remount-ro"
    [] d.errors = 3 -> "panic"
    [] OTHER        -> "none"

(* readable: the block device could be opened and read. *)
getExtErrorsBehavior(d, readable) ==
  IF d.type \in {"ext2", "ext3", "ext4"} /\ readable /\ d.magic
    THEN ErrorsOf(d) ELSE "none"

(* The entry of /data is looked up.  There is none if mountinfo cannot be    *)
(* read; without errors= there is nothing to do.                             *)
Parse(w) ==
  /\ pc[w] = "parse"
  /\ \/ /\ pc' = [pc EXCEPT ![w] = "failed"]
        /\ UNCHANGED seen
     \/ /\ seen' = [seen EXCEPT ![w] = [errors |-> errors, options |-> flags[w]]]
        /\ pc' = [pc EXCEPT ![w] = IF errors = "none" THEN "kept" ELSE "superblock"]
  /\ UNCHANGED <<disk, errors, ro, flags, want, events, was>>

(* A mutant: nullptr is not tested for. *)
SameOnly(sb_errors, option) == sb_errors = option

(* A mutant: the comparison is left out. *)
NullOnly(sb_errors, option) == sb_errors = "none"

(* !sb_errors || superOptions.at("errors") == sb_errors *)
NothingToDo(sb_errors, option) == sb_errors \in {"none", option}

ReadSuperblock(w) ==
  /\ pc[w] = "superblock"
  /\ \E readable \in BOOLEAN :
       LET sb_errors == getExtErrorsBehavior(disk, readable)
       IN  IF NothingToDo(sb_errors, seen[w].errors)
             THEN /\ pc' = [pc EXCEPT ![w] = IF readable THEN "kept" ELSE "failed"]
                  /\ UNCHANGED want
             ELSE /\ pc' = [pc EXCEPT ![w] = "mount"]
                  /\ want' = [want EXCEPT ![w] = sb_errors]
  /\ UNCHANGED <<disk, errors, ro, flags, seen, events, was>>

(* The remount, which may fail; either is only logged. *)
DoMount(w) ==
  /\ pc[w] = "mount"
  /\ \/ /\ flags' = [flags EXCEPT ![w] =
                       Remounted(seen[w].options \cap mount_flags_procfs, @)]
        /\ errors' = want[w]
        /\ ro' = FALSE
        /\ pc' = [pc EXCEPT ![w] = "done"]
     \/ /\ pc' = [pc EXCEPT ![w] = "failed"]
        /\ UNCHANGED <<flags, errors, ro>>
  /\ UNCHANGED <<disk, seen, want, events, was>>

(* A signal ends the child. *)
Killed(w) ==
  /\ pc[w] \in {"parse", "superblock", "mount"}
  /\ pc' = [pc EXCEPT ![w] = "killed"]
  /\ UNCHANGED <<disk, errors, ro, flags, seen, want, events, was>>

(* Somebody else remounts the filesystem with another errors=. *)
RemountedByOther ==
  /\ events < MaxEvents
  /\ events' = events + 1
  /\ errors' \in Behaviours
  /\ UNCHANGED <<disk, ro, flags, seen, want, pc, was>>

Terminated ==
  /\ \A w \in Workers : pc[w] \in {"done", "kept", "failed", "killed"}
  /\ UNCHANGED vars

Next ==
  \/ \E w \in Workers : Parse(w) \/ ReadSuperblock(w) \/ DoMount(w) \/ Killed(w)
  \/ RemountedByOther
  \/ Terminated

Spec == Init /\ [][Next]_vars

-----------------------------------------------------------------------------
(* A remount takes no restriction off the mount: every option it had is      *)
(* still there, except ro, which doRemount does not pass on; and none is     *)
(* added, except the kernel's relatime where nodiratime stood alone.         *)
OptionsKept ==
  \A w \in Workers :
    /\ was[w] \ {"ro"} \subseteq flags[w]
    /\ flags[w] \subseteq was[w] \cup {"relatime"}
    /\ "relatime" \in flags[w] \ was[w] => was[w] \cap AtimeFlags = {"nodiratime"}

(* The behaviour a superblock of an ext filesystem asks for, numbered as in  *)
(* the kernel's header.                                                      *)
Asked == IF disk.type \in {"ext2", "ext3", "ext4"} /\ disk.magic /\ disk.errors \in 1..3
           THEN <<"continue", "remount-ro", "panic">>[disk.errors] ELSE "none"

(* When a child is through, without a failure and with nobody else           *)
(* remounting, what mountinfo shows does not differ from the superblock of   *)
(* an ext filesystem, whatever the other children do meanwhile.              *)
ErrorsMatchSuperblock ==
  \A w \in Workers :
    pc[w] \in {"done", "kept"} /\ events = 0
      => errors = "none" \/ Asked \in {"none", errors}

(* "Remount /data only if errors behavior is not the same as superblock's"   *)
(* (modules.cpp:99): a filesystem that is read-only becomes writable only in *)
(* a step that also corrects errors=, never by a remount without need.       *)
WritableOnlyWithNeed ==
  [][ro' # ro /\ events = 0 => errors' # errors]_vars
=============================================================================
