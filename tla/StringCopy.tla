----------------------------- MODULE StringCopy -----------------------------
(***************************************************************************)
(* Utils::safeStringCopy of src/module/jni/utils.cpp on bytes.  A buffer is *)
(* a sequence of bytes, index 1 first, and a string ends before its first   *)
(* NUL.  The source is the memory from src on, with what lies behind it,    *)
(* for strncat knows no end of the source but the NUL and its bound.        *)
(***************************************************************************)
EXTENDS Naturals, Sequences, FiniteSetsExt

NUL == 0

(* strnlen(s, Len(s)) *)
StrNLen(s) ==
  LET ends == {i \in DOMAIN s : s[i] = NUL}
  IN  IF ends = {} THEN Len(s) ELSE Min(ends) - 1

CString(s) == SubSeq(s, 1, StrNLen(s))

(* How many bytes strncat with the bound n reads: up to the NUL, n at most.  *)
Reads(mem, n) == Min({n, StrNLen(mem) + 1})

(* strncat to the empty string appends what it reads, short of the NUL.  If  *)
(* mem ends before that the bytes are not mem's: the value is not defined.   *)
Appended(mem, n) == CString(SubSeq(mem, 1, Reads(mem, n)))

(* A mutant: the terminator is not counted. *)
CatBoundFull(dest_size) == dest_size

(* The bound given to strncat, which writes one byte more for the NUL. *)
CatBound(dest_size) == dest_size - 1

(* A mutant: strncpy, which does not terminate what it has to cut off. *)
CopyUnterminated(mem, dest_size) == Appended(mem, dest_size)

(* What is written to dest, from its first byte on. *)
safeStringCopy(mem, dest_size) ==
  IF dest_size < 1 THEN <<>> ELSE Append(Appended(mem, CatBound(dest_size)), NUL)

(* How much of src is read. *)
SourceRead(mem, dest_size) ==
  IF dest_size < 1 THEN 0 ELSE Reads(mem, CatBound(dest_size))

(* What it returns: strlen(dest), and 0 where nothing is written. *)
Returned(mem, dest_size) ==
  IF dest_size < 1 THEN 0 ELSE StrNLen(safeStringCopy(mem, dest_size))

-----------------------------------------------------------------------------
(* What utils.hpp:28 to 33 promises: at most dest_size bytes are written and *)
(* at most so many read; if there is room for a byte dest is terminated and  *)
(* its length is returned; and (its name, utils.cpp:25) it is a copy: the    *)
(* longest prefix of the source's string that fits.                          *)
KeepsContract(mem, dest_size) ==
  LET dest == safeStringCopy(mem, dest_size)
      kept == Returned(mem, dest_size)
  IN  /\ Len(dest) <= dest_size
      /\ SourceRead(mem, dest_size) <= dest_size
      /\ dest_size = 0 => kept = 0
      /\ dest_size > 0 =>
           /\ kept + 1 \in DOMAIN dest /\ dest[kept + 1] = NUL
           /\ \A i \in 1..kept : dest[i] # NUL /\ dest[i] = mem[i]
           /\ kept = dest_size - 1 \/ mem[kept + 1] = NUL
=============================================================================
