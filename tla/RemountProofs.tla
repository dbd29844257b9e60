---------------------------- MODULE RemountProofs ----------------------------
(***************************************************************************)
(* Proofs about Remount: for any number of children and of remounts by      *)
(* others.                                                                  *)
(***************************************************************************)
EXTENDS Remount, TLAPS

(* What the runs need no type for. *)
DiskTypeOK ==
  /\ disk \in [type : FsTypes, magic : BOOLEAN, errors : 0..4]
  /\ ro \in BOOLEAN
  /\ seen \in [Workers -> [errors : Behaviours \cup {"none"}, options : SUBSET Options]]
  /\ was \in [Workers -> Shown]

(* The options w remounts with are those its mount has: nobody else changes  *)
(* them, and w does so once.                                                 *)
OwnOptions(w) ==
  /\ pc[w] \in {"superblock", "mount"} => seen[w].options = was[w]
  /\ flags[w] = IF pc[w] = "done" THEN Remounted(was[w] \cap mount_flags_procfs, was[w])
                ELSE was[w]

(* Between the parse and the remount. *)
Underway(w) == pc[w] \in {"superblock", "mount"}

(* The behaviour w remounts with is what the superblock asks for and not     *)
(* what w has seen.                                                          *)
Wanted(w) ==
  /\ Underway(w) => seen[w].errors # "none"
  /\ pc[w] = "mount" => want[w] = Asked /\ Asked \notin {"none", seen[w].errors}

(* Without remounts by others, errors= is what w has seen or what some child *)
(* has corrected it to, and the latter makes the filesystem writable.        *)
Current(w) ==
  /\ Underway(w) => /\ errors # "none"
                    /\ errors \in {seen[w].errors, Asked}
                    /\ ro => errors = seen[w].errors
  /\ pc[w] = "done" => errors # "none" /\ errors = Asked
  /\ pc[w] = "kept" => errors = "none" \/ Asked \in {"none", errors}

IInv ==
  /\ TypeOK /\ DiskTypeOK
  /\ \A w \in Workers : OwnOptions(w) /\ Wanted(w)
  /\ events = 0 => \A w \in Workers : Current(w)

-----------------------------------------------------------------------------
(* A remount with the options a mount shows, ro left out, loses none of them *)
(* and adds at most relatime, where nodiratime was the only one about atime. *)
LEMMA RemountedKeeps ==
  ASSUME NEW o \in Shown
  PROVE  LET n == Remounted(o \cap mount_flags_procfs, o)
         IN  /\ n \subseteq Options
             /\ o \ {"ro"} \subseteq n
             /\ n \subseteq o \cup {"relatime"}
             /\ "relatime" \in n \ o => o \cap AtimeFlags = {"nodiratime"}
<1> DEFINE given == o \cap mount_flags_procfs
<1>1. /\ given = o \ {"ro"} /\ given \subseteq Options
      /\ given \cap AtimeFlags = o \cap AtimeFlags
      /\ ~({"noatime", "relatime"} \subseteq o)
  BY DEF Shown, mount_flags_procfs, Options, AtimeFlags
<1>2. CASE given \cap AtimeFlags = {}
  BY <1>1, <1>2 DEF Remounted
<1>3. CASE given \cap AtimeFlags # {} /\ "noatime" \in given
  BY <1>1, <1>3 DEF Remounted
<1>4. CASE given \cap AtimeFlags # {} /\ "noatime" \notin given
  <2>1. Remounted(given, o) = given \cup {"relatime"}
    BY <1>4 DEF Remounted
  <2>2. "relatime" \notin o => o \cap AtimeFlags = {"nodiratime"}
    BY <1>1, <1>4 DEF AtimeFlags, mount_flags_procfs, Options
  <2> QED BY <1>1, <2>1, <2>2 DEF Options, AtimeFlags
<1> QED BY <1>2, <1>3, <1>4

(* What is read of the superblock is what it asks for, or nothing.           *)
LEMMA SuperblockRead ==
  ASSUME DiskTypeOK, NEW readable \in BOOLEAN
  PROVE  /\ Asked \in Behaviours \cup {"none"}
         /\ getExtErrorsBehavior(disk, readable) = IF readable THEN Asked ELSE "none"
<1> DEFINE ext == disk.type \in {"ext2", "ext3", "ext4"} /\ disk.magic
<1>1. disk.errors \in 0..4
  BY DEF DiskTypeOK
<1>2. CASE disk.errors \in {0, 4}
  BY <1>2 DEF Asked, getExtErrorsBehavior, ErrorsOf
<1>3. CASE disk.errors = 1
  BY <1>3 DEF Asked, getExtErrorsBehavior, ErrorsOf, Behaviours
<1>4. CASE disk.errors = 2
  BY <1>4 DEF Asked, getExtErrorsBehavior, ErrorsOf, Behaviours
<1>5. CASE disk.errors = 3
  BY <1>5 DEF Asked, getExtErrorsBehavior, ErrorsOf, Behaviours
<1> QED BY <1>1, <1>2, <1>3, <1>4, <1>5

LEMMA InitIInv == Init => IInv
<1> SUFFICES ASSUME Init PROVE IInv
  OBVIOUS
<1> PICK o \in Shown : flags = [w \in Workers |-> o] /\ ro = ("ro" \in o)
  BY DEF Init
<1>1. TypeOK /\ DiskTypeOK
  BY RemountAssumption DEF Init, TypeOK, DiskTypeOK, Shown
<1>2. \A w \in Workers : OwnOptions(w) /\ Wanted(w) /\ Current(w)
  BY DEF Init, OwnOptions, Wanted, Current, Underway
<1> QED BY <1>1, <1>2 DEF IInv

-----------------------------------------------------------------------------
(* One lemma per action. *)

LEMMA ParseIInv ==
  ASSUME IInv, NEW w \in Workers, Parse(w)
  PROVE  IInv'
<1> USE DEF IInv
<1>1. TypeOK' /\ DiskTypeOK' /\ Asked' = Asked
  BY DEF TypeOK, DiskTypeOK, Parse, Shown, Asked
<1>2. ASSUME NEW v \in Workers
      PROVE  /\ OwnOptions(v)' /\ Wanted(v)'
             /\ events = 0 => Current(v)'
  <2>1. CASE v = w
    <3>1. /\ UNCHANGED <<flags[w], was[w], errors, ro, want>>
          /\ flags[w] = was[w]
      BY DEF Parse, OwnOptions
    <3>2. CASE pc'[w] = "failed" \/ (pc'[w] = "kept" /\ errors = "none")
      BY <1>1, <2>1, <3>1, <3>2 DEF OwnOptions, Wanted, Current, Underway
    <3>3. CASE /\ pc'[w] = "superblock" /\ errors # "none"
               /\ seen'[w].errors = errors /\ seen'[w].options = flags[w]
      BY <1>1, <2>1, <3>1, <3>3 DEF OwnOptions, Wanted, Current, Underway
    <3> QED BY <3>2, <3>3 DEF Parse, TypeOK, DiskTypeOK
  <2>2. CASE v # w
    <3>1. UNCHANGED <<pc[v], seen[v], want[v], flags[v], was[v], errors, ro, events>>
      BY <2>2 DEF Parse, TypeOK, DiskTypeOK
    <3> QED BY <1>1, <3>1 DEF OwnOptions, Wanted, Current, Underway
  <2> QED BY <2>1, <2>2
<1> QED BY <1>1, <1>2 DEF Parse

LEMMA ReadSuperblockIInv ==
  ASSUME IInv, NEW w \in Workers, ReadSuperblock(w)
  PROVE  IInv'
<1> USE DEF IInv
<1>1. DiskTypeOK' /\ Asked' = Asked
  BY DEF DiskTypeOK, ReadSuperblock, Shown, Asked
<1>2. \/ /\ pc' = [pc EXCEPT ![w] = "kept"] /\ UNCHANGED want
         /\ Asked \in {"none", seen[w].errors}
      \/ pc' = [pc EXCEPT ![w] = "failed"] /\ UNCHANGED want
      \/ /\ pc' = [pc EXCEPT ![w] = "mount"] /\ want' = [want EXCEPT ![w] = Asked]
         /\ Asked \notin {"none", seen[w].errors}
         /\ Asked \in Behaviours
  BY SuperblockRead DEF ReadSuperblock, NothingToDo
<1>3. TypeOK'
  BY <1>2 DEF TypeOK, ReadSuperblock, Behaviours
<1>4. ASSUME NEW v \in Workers
      PROVE  /\ OwnOptions(v)' /\ Wanted(v)'
             /\ events = 0 => Current(v)'
  <2>1. CASE v = w
    BY <1>1, <1>2, <2>1
       DEF ReadSuperblock, TypeOK, OwnOptions, Wanted, Current, Underway
  <2>2. CASE v # w
    <3>1. UNCHANGED <<pc[v], seen[v], want[v], flags[v], was[v], errors, ro, events>>
      BY <1>2, <2>2 DEF ReadSuperblock, TypeOK
    <3> QED BY <1>1, <3>1 DEF OwnOptions, Wanted, Current, Underway
  <2> QED BY <2>1, <2>2
<1> QED BY <1>1, <1>3, <1>4 DEF ReadSuperblock

LEMMA DoMountIInv ==
  ASSUME IInv, NEW w \in Workers, DoMount(w)
  PROVE  IInv'
<1> USE DEF IInv
<1>0. /\ want[w] = Asked /\ Asked \in Behaviours
      /\ seen[w].options = was[w] /\ flags[w] = was[w] /\ was[w] \in Shown
  BY SuperblockRead DEF DoMount, Wanted, OwnOptions, DiskTypeOK
<1>1. DiskTypeOK' /\ Asked' = Asked
  BY DEF DiskTypeOK, DoMount, Shown, Asked
<1>2. \/ /\ flags' = [flags EXCEPT ![w] = Remounted(was[w] \cap mount_flags_procfs, was[w])]
         /\ errors' = Asked /\ ro' = FALSE
         /\ pc' = [pc EXCEPT ![w] = "done"]
      \/ pc' = [pc EXCEPT ![w] = "failed"] /\ UNCHANGED <<flags, errors, ro>>
  BY <1>0 DEF DoMount, TypeOK
<1>3. TypeOK'
  <2>1. Remounted(was[w] \cap mount_flags_procfs, was[w]) \in SUBSET Options
    BY <1>0, RemountedKeeps
  <2>2. /\ flags' \in [Workers -> SUBSET Options]
        /\ errors' \in Behaviours \cup {"none"} /\ ro' \in BOOLEAN
    BY <1>0, <1>2, <2>1 DEF TypeOK
  <2>3. /\ pc' \in [Workers -> {"parse", "superblock", "mount", "done", "kept", "failed", "killed"}]
        /\ \A v \in Workers : pc'[v] = "mount" => pc[v] = "mount"
    BY <1>2 DEF TypeOK
  <2> QED BY <2>2, <2>3 DEF TypeOK, DoMount
<1>4. ASSUME NEW v \in Workers
      PROVE  /\ OwnOptions(v)' /\ Wanted(v)'
             /\ events = 0 => Current(v)'
  <2>1. CASE v = w
    BY <1>0, <1>1, <1>2, <2>1
       DEF DoMount, TypeOK, OwnOptions, Wanted, Current, Underway, Behaviours
  <2>2. CASE v # w
    <3>1. UNCHANGED <<pc[v], seen[v], want[v], flags[v], was[v], events>>
      BY <1>2, <2>2 DEF DoMount, TypeOK
    <3>2. \/ errors' = Asked /\ ro' = FALSE
          \/ UNCHANGED <<errors, ro>>
      BY <1>2
    <3> QED BY <1>0, <1>1, <3>1, <3>2
            DEF OwnOptions, Wanted, Current, Underway, Behaviours
  <2> QED BY <2>1, <2>2
<1> QED BY <1>1, <1>3, <1>4 DEF DoMount

LEMMA KilledIInv ==
  ASSUME IInv, NEW w \in Workers, Killed(w)
  PROVE  IInv'
<1> USE DEF IInv
<1>1. TypeOK' /\ DiskTypeOK' /\ Asked' = Asked
  BY DEF TypeOK, DiskTypeOK, Killed, Shown, Asked
<1>2. ASSUME NEW v \in Workers
      PROVE  /\ OwnOptions(v)' /\ Wanted(v)'
             /\ events = 0 => Current(v)'
  BY <1>1 DEF Killed, TypeOK, OwnOptions, Wanted, Current, Underway
<1> QED BY <1>1, <1>2 DEF Killed

LEMMA OtherIInv ==
  ASSUME IInv, RemountedByOther \/ UNCHANGED vars
  PROVE  IInv'
<1> USE DEF IInv
<1>1. CASE RemountedByOther
  <2>1. TypeOK' /\ DiskTypeOK' /\ Asked' = Asked /\ events' # 0
    BY <1>1, RemountAssumption DEF TypeOK, DiskTypeOK, RemountedByOther, Shown, Asked
  <2>2. \A v \in Workers : OwnOptions(v)' /\ Wanted(v)'
    BY <1>1, <2>1 DEF RemountedByOther, OwnOptions, Wanted, Underway
  <2> QED BY <2>1, <2>2
<1>2. CASE UNCHANGED vars
  BY <1>2 DEF vars, TypeOK, DiskTypeOK, OwnOptions, Wanted, Current, Underway, Asked
<1> QED BY <1>1, <1>2

LEMMA NextIInv == IInv /\ [Next]_vars => IInv'
<1> SUFFICES ASSUME IInv, [Next]_vars PROVE IInv'
  OBVIOUS
<1>1. CASE \E w \in Workers : Parse(w) \/ ReadSuperblock(w) \/ DoMount(w) \/ Killed(w)
  BY <1>1, ParseIInv, ReadSuperblockIInv, DoMountIInv, KilledIInv
<1>2. CASE RemountedByOther \/ UNCHANGED vars
  BY <1>2, OtherIInv
<1> QED BY <1>1, <1>2 DEF Next, Terminated

(* The inductive invariant, whatever the superblock says, however often      *)
(* others remount /data and wherever children are killed.                    *)
THEOREM Inductive == Spec => []IInv
<1> QED BY InitIInv, NextIInv, PTL DEF Spec

-----------------------------------------------------------------------------
(* doRemount's state is what its declarations say: in particular a child     *)
(* that mounts has a behaviour to mount with, never nullptr.                 *)
THEOREM Typed == Spec => []TypeOK
<1>1. IInv => TypeOK
  BY DEF IInv
<1> QED BY <1>1, Inductive, PTL

(* The flags doRemount collects from mountinfo keep every option of the      *)
(* mount: MS_REMOUNT would clear those it is not given.                      *)
THEOREM NoOptionIsLost == Spec => []OptionsKept
<1>1. IInv => OptionsKept
  <2> SUFFICES ASSUME IInv, NEW w \in Workers
               PROVE  /\ was[w] \ {"ro"} \subseteq flags[w]
                      /\ flags[w] \subseteq was[w] \cup {"relatime"}
                      /\ "relatime" \in flags[w] \ was[w] => was[w] \cap AtimeFlags = {"nodiratime"}
    BY DEF OptionsKept
  <2>1. was[w] \in Shown /\ OwnOptions(w)
    BY DEF IInv, DiskTypeOK
  <2> QED BY <2>1, RemountedKeeps DEF OwnOptions
<1> QED BY <1>1, Inductive, PTL

(* doRemount leaves errors= as the superblock has it, although the children  *)
(* compare and remount without a lock between them.                          *)
THEOREM ErrorsAreTheSuperblocks == Spec => []ErrorsMatchSuperblock
<1>1. IInv => ErrorsMatchSuperblock
  BY DEF IInv, ErrorsMatchSuperblock, Current
<1> QED BY <1>1, Inductive, PTL

(* A remount that makes /data writable also corrects errors=: a child whose  *)
(* comparison is out of date finds the filesystem already writable.          *)
THEOREM WritableWithNeed == Spec => WritableOnlyWithNeed
<1>1. IInv /\ [Next]_vars => [ro' # ro /\ events = 0 => errors' # errors]_vars
  <2> SUFFICES ASSUME IInv, Next, ro' # ro, events = 0
               PROVE  errors' # errors
    BY DEF vars
  <2>1. PICK w \in Workers : DoMount(w) /\ ro' = FALSE /\ errors' = want[w]
    BY DEF Next, Parse, ReadSuperblock, DoMount, Killed, RemountedByOther, Terminated, vars
  <2> QED BY <2>1 DEF IInv, DiskTypeOK, Current, Wanted, Underway, DoMount
<1> QED BY <1>1, Inductive, PTL DEF Spec, WritableOnlyWithNeed
=============================================================================
