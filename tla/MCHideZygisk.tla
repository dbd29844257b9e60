---------------------------- MODULE MCHideZygisk ----------------------------
(* Instances of HideZygisk for TLC. *)
EXTENDS HideZygisk

Seg(at, len, perms)  == [at |-> at, len |-> len, perms |-> perms, anon |-> FALSE]
Anon(at, len)        == [at |-> at, len |-> len, perms |-> "rw-p", anon |-> TRUE]
Build(segs, at, len) ==
  [segs |-> segs, bss |-> [at |-> at, len |-> len], had_error |-> at + len - 1,
   inodeFits |-> TRUE]

(* The ELF header in a read-only segment of its own, as lld links it: header *)
(* and rodata, text, RELRO, data and .bss.  Next, a build of it with more    *)
(* text, one without .bss, and one whose inode does not parse.               *)
Stock    == Build({Seg(0, 1, "r--p"), Seg(1, 1, "r-xp"), Seg(2, 1, "r--p"), Anon(3, 3)}, 3, 3)
Longer   == Build({Seg(0, 1, "r--p"), Seg(1, 2, "r-xp"), Seg(3, 1, "r--p"), Anon(4, 3)}, 4, 3)
NoBss    == [Stock EXCEPT !.bss.len = 0]
BigInode == [Stock EXCEPT !.inodeFits = FALSE]
LldImages == {Stock, Longer, NoBss, BigInode}

(* What the proofs about doHideZygisk assume of every build. *)
ASSUME LldImagesLinked == \A img \in LldImages : LldLinked(img)

(* The header in the text segment, as older linkers do: the first read-only  *)
(* mapping is RELRO.                                                         *)
Old == Build({Seg(0, 2, "r-xp"), Seg(2, 1, "r--p"), Anon(3, 3)}, 3, 3)
OldImages == {[Old EXCEPT !.had_error = 3]}

Other(start, perms) ==
  [start |-> start, end |-> start + 2, perms |-> perms, lib |-> "libother.so",
   inodeFits |-> TRUE]
MCOthers == {Other(1, "r--p"), Other(9, "rw-p"), Other(10, "r--p"), Other(10, "rw-p")}
MCBases  == {3}
=============================================================================
