----------------------------- MODULE HideZygisk -----------------------------
(***************************************************************************)
(* doHideZygisk of src/module/jni/modules.cpp with parseSelfMaps of         *)
(* map_parser.cpp: in one process, the mappings are parsed when the first   *)
(* hook is installed and are cached; much later, after the unmounting, the  *)
(* cached start of libnativebridge.so and the section table of the file at  *)
(* that path give the range in which a byte is looked for and written.      *)
(***************************************************************************)
EXTENDS Naturals, FiniteSetsExt

CONSTANTS
  Images,   \* builds of libnativebridge.so, see ImageType
  Bases,    \* addresses it may be loaded at
  Others,   \* mappings of other libraries that come and go
  Top       \* addresses are 1..Top

Addresses == 1..Top
Bytes     == {0, 1, 2}
Perms     == {"r--p", "r-xp", "rw-p"}

(* A build: its segments, its .bss as the section table has it (no section   *)
(* if len is 0), the place of had_error in it, and whether the inode of the  *)
(* file is one that istream >> ino_t accepts.                                *)
Segments  == [at : Nat, len : Nat, perms : Perms, anon : BOOLEAN]
Sections  == [at : Nat, len : Nat]
ImageType == [segs : SUBSET Segments, bss : Sections, had_error : Nat,
              inodeFits : BOOLEAN]
Mappings  == [start : Addresses, end : Nat, perms : Perms, lib : STRING,
              inodeFits : BOOLEAN]

(* The dynamic linker's mappings of a build. *)
Loaded(img, b) ==
  {[start |-> b + s.at, end |-> b + s.at + s.len, perms |-> s.perms,
    lib |-> IF s.anon THEN "" ELSE "libnativebridge.so",
    inodeFits |-> s.anon \/ img.inodeFits] : s \in img.segs}

(* How lld links: the ELF header in a read-only segment of its own, the      *)
(* first, and .bss, which holds had_error, in writable ones.  Without the    *)
(* first the code takes another address for the library's start.             *)
LldLinked(img) ==
  /\ \E s \in img.segs : s.at = 0 /\ s.len > 0 /\ s.perms = "r--p" /\ ~s.anon
  /\ \A o \in img.bss.at .. img.bss.at + img.bss.len - 1 :
       \E s \in img.segs : s.perms = "rw-p" /\ s.at <= o /\ o < s.at + s.len
  /\ img.had_error \in img.bss.at .. img.bss.at + img.bss.len - 1 \/ img.bss.len = 0

ASSUME HideAssumption ==
  /\ Top \in Nat
  /\ Images \subseteq ImageType /\ Bases \subseteq Addresses
  /\ \A img \in Images, b \in Bases :
       Loaded(img, b) \subseteq Mappings /\ b + img.bss.at + img.bss.len <= Top + 1
  /\ Others \subseteq Mappings
  /\ \A m \in Others :
       /\ m.lib # "libnativebridge.so"
       /\ \A img \in Images, b \in Bases : m \notin Loaded(img, b)

VARIABLES
  image, base,   \* the libnativebridge.so that is loaded, and where
  file,          \* the builds that its path leads to now: one or none
  maps,          \* /proc/self/maps, a set: the file is in address order
  mem,           \* mem[a]: the byte at address a
  parser_cache,  \* what parseSelfMaps keeps
  pc             \* where the process is

vars == <<image, base, file, maps, mem, parser_cache, pc>>

(* A process that runs doHideZygisk has parsed its mappings. *)
TypeOK ==
  /\ image \in Images /\ base \in Bases
  /\ file \subseteq Images /\ Cardinality(file) <= 1
  /\ maps \subseteq Mappings /\ parser_cache \subseteq Mappings
  /\ mem \in [Addresses -> Bytes]
  /\ pc \in {"unshare", "setresuid", "armed", "hide", "returned", "crashed"}
  /\ pc \in {"armed", "hide"} => parser_cache # {}

-----------------------------------------------------------------------------
Free(m, ms) == \A n \in ms : m.end <= n.start \/ n.end <= m.start

Has(perms, a) == \E m \in maps : m.perms \in perms /\ m.start <= a /\ a < m.end

Bss == base + image.bss.at .. base + image.bss.at + image.bss.len - 1

(* .bss holds anything, and had_error has been set. *)
Init ==
  /\ image \in Images /\ base \in Bases
  /\ file = {image}
  /\ maps = Loaded(image, base)
  /\ mem \in {f \in [Addresses -> Bytes] :
                \A a \in Addresses : a \notin Bss \/ a = base + image.had_error => f[a] = 1}
  /\ parser_cache = {}
  /\ pc = "unshare"

-----------------------------------------------------------------------------
(* parseSelfMaps(true): the cache, if it holds anything, or else what can be *)
(* parsed of the file, nothing if it cannot be opened.                       *)
parseSelfMaps ==
  IF parser_cache # {} THEN {parser_cache} ELSE {{m \in maps : m.inodeFits}, {}}

(* A mutant: true is returned where the library was not found. *)
FoundAlways(entries) == TRUE

(* Utils::hookPLTByName finds libandroid_runtime.so, which every such        *)
(* process has mapped.                                                       *)
Found(entries) == entries # {}

(* preAppSpecialize's two calls of hookPLTByName; commit is the result of    *)
(* pltHookCommit.  Without both there is no callback to call doHideZygisk.   *)
HookPLTByName ==
  /\ pc \in {"unshare", "setresuid"}
  /\ parser_cache' \in parseSelfMaps
  /\ \E commit \in BOOLEAN :
       pc' = IF ~(Found(parser_cache') /\ commit) THEN "returned"
             ELSE IF pc = "unshare" THEN "setresuid" ELSE "armed"
  /\ UNCHANGED <<image, base, file, maps, mem>>

(* Other libraries are loaded and unloaded until the callback runs. *)
MapsChange ==
  /\ pc \in {"unshare", "setresuid", "armed"}
  /\ \E m \in Others :
       \/ m \in maps /\ maps' = maps \ {m}
       \/ m \notin maps /\ Free(m, maps) /\ maps' = maps \cup {m}
  /\ UNCHANGED <<image, base, file, mem, parser_cache, pc>>

(* The callback, up to doHideZygisk: the mount that libnativebridge.so's     *)
(* path led to may be gone, and then it leads to another file or to none.    *)
Callback ==
  /\ pc = "armed"
  /\ pc' = "hide"
  /\ file' \in {file, {}} \cup {{f} : f \in Images}
  /\ UNCHANGED <<image, base, maps, mem, parser_cache>>

(* A mutant: no break, the last one stays. *)
StartOfLast(found) == Max({m.start : m \in found} \cup {0})

(* startAddress: that of the first of the mappings found, 0 if there is none. *)
StartAddress(found) == IF found = {} THEN 0 ELSE Min({m.start : m \in found})

(* A mutant: startAddress is not tested. *)
ElfOpened(start) == file # {}

(* startAddress != 0 and reader.load(filePath) *)
ElfLoaded(start) == start # 0 /\ file # {}

(* A mutant: the last byte is left out. *)
BssRangeShort(start, elf) == start + elf.bss.at .. start + elf.bss.at + elf.bss.len - 2

(* bssAddress and the bssSize bytes there; none if there is no section. *)
BssRange(start, elf) == start + elf.bss.at .. start + elf.bss.at + elf.bss.len - 1

(* memchr for 0x01 and the write of 0: both stop at an address that cannot   *)
(* be read or written.                                                       *)
ResetFirstOne(range) ==
  LET stop == {a \in range : ~Has(Perms, a) \/ mem[a] = 1}
  IN  \/ /\ stop = {}
         /\ pc' = "returned"
         /\ UNCHANGED mem
      \/ /\ stop # {} /\ Has({"rw-p"}, Min(stop))
         /\ mem' = [mem EXCEPT ![Min(stop)] = 0]
         /\ pc' = "returned"
      \/ /\ stop # {} /\ ~Has({"rw-p"}, Min(stop))
         /\ pc' = "crashed"
         /\ UNCHANGED mem

doHideZygisk ==
  /\ pc = "hide"
  /\ parser_cache' \in parseSelfMaps
  /\ LET start == StartAddress({m \in parser_cache' : m.lib = "libnativebridge.so"
                                                        /\ m.perms = "r--p"})
     IN  \/ ~ElfLoaded(start) /\ pc' = "returned" /\ UNCHANGED mem
         \/ ElfLoaded(start) /\ \E elf \in file : ResetFirstOne(BssRange(start, elf))
  /\ UNCHANGED <<image, base, file, maps>>

Terminated == pc \in {"returned", "crashed"} /\ UNCHANGED vars

Next ==
  \/ HookPLTByName
  \/ MapsChange
  \/ Callback
  \/ doHideZygisk
  \/ Terminated

Spec == Init /\ [][Next]_vars

-----------------------------------------------------------------------------
(* The path has come to lead to another file than the one that is loaded. *)
Replaced == file # {image} /\ file # {}

(* doHideZygisk writes nowhere but in the .bss of the library that is        *)
(* loaded, though it takes the address from mappings parsed long before and  *)
(* the range from a file: unless unmounting has put another file there.      *)
OnlyBssWritten ==
  [][~Replaced => \A a \in Addresses : mem'[a] # mem[a] => a \in Bss]_vars

(* Nor does it stop at an address that is not mapped, whichever of its       *)
(* inputs is missing.                                                        *)
HideReturns == pc = "crashed" => Replaced

(* When it has run on the file that is loaded, with the mappings it needs,   *)
(* had_error is reset, or a byte before it was taken for it.                 *)
HadErrorReset ==
  [][pc = "hide" /\ file = {image} /\ image.inodeFits /\ image.bss.len > 0
       => \/ mem'[base + image.had_error] = 0
          \/ \E a \in Bss : a < base + image.had_error /\ mem[a] = 1 /\ mem'[a] = 0]_vars

(* "At least it has lots of error checking so if something goes wrong the    *)
(* state should remain relatively safe." (modules.cpp:123): doHideZygisk     *)
(* ends neither in a crash nor with a byte that is not in .bss changed.      *)
StateSafe ==
  /\ pc # "crashed"
  /\ \A a \in Addresses \ Bss : mem[a] = 1
=============================================================================
