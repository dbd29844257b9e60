-------------------------- MODULE HideZygiskProofs --------------------------
(***************************************************************************)
(* Proofs about HideZygisk: for any builds of libnativebridge.so that lld   *)
(* has linked, at any addresses, beside any other libraries.                *)
(***************************************************************************)
EXTENDS HideZygisk, FiniteSetTheorems, TLAPS

Lib == "libnativebridge.so"

(* The library stays mapped, and nothing else has its name. *)
Mapped ==
  /\ Loaded(image, base) \subseteq maps
  /\ \A m \in maps : m.lib = Lib => m \in Loaded(image, base)

(* What is cached of the library is so as long as it is loaded. *)
Cached ==
  /\ \A m \in parser_cache : m.lib = Lib => m \in Loaded(image, base) /\ m.inodeFits
  /\ parser_cache # {} => {m \in Loaded(image, base) : m.inodeFits} \subseteq parser_cache

(* Memory is as it was until doHideZygisk writes to it. *)
Unwritten ==
  pc \notin {"returned", "crashed"} =>
    \A a \in Addresses : a \notin Bss \/ a = base + image.had_error => mem[a] = 1

IInv ==
  /\ TypeOK /\ Mapped /\ Cached /\ Unwritten
  /\ pc \in {"unshare", "setresuid", "armed"} => file = {image}
  /\ pc = "crashed" => Replaced

-----------------------------------------------------------------------------
LEMMA NatMin ==
  ASSUME NEW S \in SUBSET Nat, S # {}
  PROVE  Min(S) \in S /\ \A y \in S : Min(S) <= y
<1> DEFINE R == {ss \in Nat \X Nat : ss[1] < ss[2]}
<1>1. IsWellFoundedOn(R, Nat)
  BY NatLessThanWellFounded DEF OpToRel
<1> HIDE DEF R
<1>2. PICK x \in S : \A y \in S : ~(<<y, x>> \in R)
  BY <1>1, WFMin
<1>3. \A y \in S : x <= y
  <2> SUFFICES ASSUME NEW y \in S, ~(x <= y) PROVE FALSE
    OBVIOUS
  <2>1. <<y, x>> \in Nat \X Nat /\ y < x
    OBVIOUS
  <2>2. <<y, x>> \in R
    BY <2>1 DEF R
  <2> QED BY <1>2, <2>2
<1> QED BY <1>3 DEF Min

(* What an image and a base are. *)
LEMMA ImageIs ==
  ASSUME NEW img \in Images, NEW b \in Bases
  PROVE  /\ b \in 1..Top /\ Top \in Nat /\ img.segs \subseteq Segments
         /\ img.bss.at \in Nat /\ img.bss.len \in Nat /\ img.had_error \in Nat
         /\ img.inodeFits \in BOOLEAN
         /\ Loaded(img, b) \subseteq Mappings
         /\ b + img.bss.at + img.bss.len <= Top + 1
  BY HideAssumption DEF ImageType, Sections, Addresses

LEMMA InitIInv == Init => IInv
<1> SUFFICES ASSUME Init PROVE IInv
  OBVIOUS
<1>1. IsFiniteSet({image}) /\ Cardinality({image}) = 1
  BY FS_Singleton
<1>2. TypeOK
  BY <1>1, ImageIs DEF Init, TypeOK
<1>3. Mapped /\ Cached /\ Unwritten
  BY DEF Init, Mapped, Cached, Unwritten
<1> QED BY <1>2, <1>3 DEF Init, IInv

LEMMA HookIInv == IInv /\ HookPLTByName => IInv'
<1> SUFFICES ASSUME IInv, HookPLTByName PROVE IInv'
  OBVIOUS
<1>0. /\ TypeOK /\ Mapped /\ Cached /\ Unwritten /\ file = {image}
      /\ UNCHANGED <<image, base, file, maps, mem>>
      /\ pc \in {"unshare", "setresuid"}
  BY DEF IInv, HookPLTByName
<1>1. parser_cache' \in {parser_cache, {m \in maps : m.inodeFits}, {}}
  BY DEF HookPLTByName, parseSelfMaps
<1>2. parser_cache' \subseteq Mappings /\ Cached'
  BY <1>0, <1>1 DEF TypeOK, Cached, Mapped
<1>3. /\ pc' \in {"returned", "setresuid", "armed"}
      /\ pc' # "returned" => parser_cache' # {}
  BY <1>0 DEF HookPLTByName, Found
<1> QED BY <1>0, <1>2, <1>3 DEF IInv, TypeOK, Mapped, Unwritten, Bss

LEMMA MapsChangeIInv == IInv /\ MapsChange => IInv'
<1> SUFFICES ASSUME IInv, MapsChange PROVE IInv'
  OBVIOUS
<1>0. /\ TypeOK /\ Mapped /\ Cached /\ Unwritten
      /\ UNCHANGED <<image, base, file, mem, parser_cache, pc>>
      /\ pc # "crashed"
  BY DEF IInv, MapsChange
<1>1. PICK m \in Others : maps' = maps \ {m} \/ maps' = maps \cup {m}
  BY DEF MapsChange
<1>2. m \in Mappings /\ m.lib # Lib /\ m \notin Loaded(image, base)
  BY <1>0, HideAssumption DEF TypeOK, Lib
<1>3. maps' \subseteq Mappings /\ Mapped'
  BY <1>0, <1>1, <1>2 DEF TypeOK, Mapped
<1> QED BY <1>0, <1>3 DEF IInv, TypeOK, Cached, Unwritten, Bss, Replaced

LEMMA CallbackIInv == IInv /\ Callback => IInv'
<1> SUFFICES ASSUME IInv, Callback PROVE IInv'
  OBVIOUS
<1>0. /\ TypeOK /\ Mapped /\ Cached /\ Unwritten /\ pc = "armed" /\ pc' = "hide"
      /\ UNCHANGED <<image, base, maps, mem, parser_cache>>
  BY DEF IInv, Callback
<1>1. file' = file \/ file' = {} \/ \E f \in Images : file' = {f}
  BY DEF Callback
<1>2. file' \subseteq Images /\ Cardinality(file') <= 1
  BY <1>0, <1>1, FS_EmptySet, FS_Singleton DEF TypeOK
<1> QED BY <1>0, <1>2 DEF IInv, TypeOK, Mapped, Cached, Unwritten, Bss

-----------------------------------------------------------------------------
(* What is mapped of an image: a mapping for each segment, from the base up, *)
(* and those with the library's name have the file's inode.                  *)
LEMMA LoadedIs ==
  ASSUME NEW img \in Images, NEW b \in Bases
  PROVE  /\ \A m \in Loaded(img, b) :
              /\ m.start \in Nat /\ b <= m.start
              /\ m.lib = "libnativebridge.so" => m.inodeFits = img.inodeFits
         /\ \A s \in img.segs : \E m \in Loaded(img, b) :
              m.start = b + s.at /\ m.end = b + s.at + s.len /\ m.perms = s.perms
<1>1. b \in Nat /\ img.segs \subseteq Segments /\ img.inodeFits \in BOOLEAN
  BY ImageIs
<1> DEFINE M(s) == [start |-> b + s.at, end |-> b + s.at + s.len, perms |-> s.perms,
                    lib |-> IF s.anon THEN "" ELSE "libnativebridge.so",
                    inodeFits |-> s.anon \/ img.inodeFits]
<1>2. Loaded(img, b) = {M(s) : s \in img.segs}
  BY DEF Loaded
<1>3. ASSUME NEW s \in img.segs
      PROVE  /\ M(s).start \in Nat /\ b <= M(s).start
             /\ M(s).lib = "libnativebridge.so" => M(s).inodeFits = img.inodeFits
  <2>1. s.at \in Nat /\ s.anon \in BOOLEAN
    BY <1>1 DEF Segments
  <2>2. M(s).start = b + s.at
    OBVIOUS
  <2>3. CASE s.anon
    <3>1. M(s).lib = ""
      BY <2>3
    <3> QED BY <1>1, <2>1, <2>2, <3>1
  <2>4. CASE ~s.anon
    <3>1. M(s).inodeFits = img.inodeFits
      BY <1>1, <2>1, <2>4
    <3> QED BY <1>1, <2>1, <2>2, <3>1
  <2> QED BY <2>3, <2>4
<1>4. ASSUME NEW s \in img.segs
      PROVE  M(s).start = b + s.at /\ M(s).end = b + s.at + s.len /\ M(s).perms = s.perms
  OBVIOUS
<1> HIDE DEF M
<1> QED BY <1>2, <1>3, <1>4

(* The first read-only mapping cached of the library is its start; there is  *)
(* none if its inode did not parse.                                          *)
LEMMA StartIs ==
  ASSUME IInv, parser_cache # {}, LldLinked(image)
  PROVE  StartAddress({m \in parser_cache : m.lib = "libnativebridge.so" /\ m.perms = "r--p"})
           = IF image.inodeFits THEN base ELSE 0
<1> DEFINE found == {m \in parser_cache : m.lib = "libnativebridge.so" /\ m.perms = "r--p"}
           starts == {m.start : m \in found}
<1>1. image \in Images /\ base \in Bases /\ Cached
  BY DEF IInv, TypeOK
<1>2. \A m \in found : m \in Loaded(image, base) /\ m.inodeFits
  BY <1>1 DEF Cached, Lib
<1>3. \A m \in found : m.start \in Nat /\ base <= m.start
  BY <1>1, <1>2, LoadedIs
<1>4. CASE image.inodeFits
  <2>1. PICK s \in image.segs : s.at = 0 /\ s.perms = "r--p" /\ ~s.anon
    BY DEF LldLinked
  <2> DEFINE header == [start |-> base + s.at, end |-> base + s.at + s.len,
                        perms |-> s.perms,
                        lib |-> IF s.anon THEN "" ELSE "libnativebridge.so",
                        inodeFits |-> s.anon \/ image.inodeFits]
  <2>2. header \in Loaded(image, base) /\ header.inodeFits
    BY <1>4 DEF Loaded
  <2>3. header \in found /\ header.start = base
    BY <1>1, <2>1, <2>2, ImageIs DEF Cached
  <2>4. base \in starts /\ starts \in SUBSET Nat /\ \A y \in starts : base <= y
    BY <1>3, <2>3
  <2> HIDE DEF starts
  <2>5. Min(starts) \in starts /\ Min(starts) <= base
    BY <2>4, NatMin
  <2>6. Min(starts) = base
    <3>1. Min(starts) \in Nat /\ base <= Min(starts) /\ base \in Nat
      BY <2>4, <2>5
    <3> QED BY <2>5, <3>1
  <2>7. found # {}
    BY <2>3
  <2> QED BY <1>4, <2>6, <2>7 DEF StartAddress, starts
<1>5. CASE ~image.inodeFits
  <2>1. found = {}
    BY <1>1, <1>2, <1>5, LoadedIs
  <2> QED BY <1>5, <2>1 DEF StartAddress
<1> QED BY <1>4, <1>5

(* The .bss of the library that is loaded can be written. *)
LEMMA BssIsWritable ==
  ASSUME IInv, LldLinked(image), NEW a \in Bss
  PROVE  a \in Addresses /\ Has({"rw-p"}, a)
<1>1. image \in Images /\ base \in Bases /\ Loaded(image, base) \subseteq maps
  BY DEF IInv, TypeOK, Mapped
<1>2. /\ base \in 1..Top /\ Top \in Nat /\ image.bss.at \in Nat /\ image.bss.len \in Nat
      /\ base + image.bss.at + image.bss.len <= Top + 1 /\ image.segs \subseteq Segments
  BY <1>1, ImageIs
<1>3. a \in Addresses /\ a - base \in image.bss.at .. image.bss.at + image.bss.len - 1
  BY <1>2 DEF Bss, Addresses
<1>4. PICK s \in image.segs : s.perms = "rw-p" /\ s.at <= a - base /\ a - base < s.at + s.len
  BY <1>3 DEF LldLinked
<1>5. PICK m \in Loaded(image, base) :
        m.start = base + s.at /\ m.end = base + s.at + s.len /\ m.perms = s.perms
  BY <1>1, LoadedIs
<1>6. s.at \in Nat /\ s.len \in Nat
  BY <1>2 DEF Segments
<1>7. m.start <= a /\ a < m.end
  BY <1>2, <1>3, <1>4, <1>5, <1>6 DEF Addresses
<1> QED BY <1>1, <1>3, <1>4, <1>5, <1>7 DEF Has

(* What doHideZygisk does where the path leads to the file that is loaded or *)
(* to none: it returns, and if it writes, it writes 0 over the first 1 of    *)
(* .bss; it does where there is a .bss and the inode parsed.                 *)
LEMMA HideDoes ==
  ASSUME IInv, doHideZygisk, LldLinked(image), ~Replaced
  PROVE  /\ pc' = "returned"
         /\ mem' # mem => \E a \in Bss : mem' = [mem EXCEPT ![a] = 0]
         /\ file = {image} /\ image.inodeFits /\ image.bss.len > 0
              => \E a \in Bss : /\ mem[a] = 1 /\ mem' = [mem EXCEPT ![a] = 0]
                                /\ a <= base + image.had_error
<1> DEFINE found == {m \in parser_cache : m.lib = "libnativebridge.so" /\ m.perms = "r--p"}
           start == StartAddress(found)
<1>1. /\ TypeOK /\ Unwritten /\ pc = "hide" /\ parser_cache # {} /\ parser_cache' = parser_cache
      /\ file = {image} \/ file = {}
  BY DEF IInv, TypeOK, doHideZygisk, parseSelfMaps, Replaced
<1>2. /\ base \in 1..Top /\ Top \in Nat /\ image.bss.at \in Nat /\ image.bss.len \in Nat
      /\ image.had_error \in Nat
  BY <1>1, ImageIs DEF TypeOK
<1>3. start = IF image.inodeFits THEN base ELSE 0
  BY <1>1, StartIs
<1>4. \/ ~ElfLoaded(start) /\ pc' = "returned" /\ UNCHANGED mem
      \/ ElfLoaded(start) /\ \E elf \in file : ResetFirstOne(BssRange(start, elf))
  BY <1>1 DEF doHideZygisk
<1> HIDE DEF start
<1>5. CASE ~ElfLoaded(start)
  BY <1>2, <1>3, <1>4, <1>5 DEF ElfLoaded
<1>6. CASE ElfLoaded(start)
  <2>1. file = {image} /\ start = base
    BY <1>1, <1>3, <1>6 DEF ElfLoaded
  <2>2. ResetFirstOne(Bss)
    BY <1>4, <1>6, <2>1 DEF BssRange, Bss
  <2> DEFINE stop == {a \in Bss : ~Has(Perms, a) \/ mem[a] = 1}
  <2>3. \A a \in Bss : a \in Addresses /\ Has({"rw-p"}, a) /\ Has(Perms, a)
    BY BssIsWritable DEF Has, Perms
  <2>4. stop \in SUBSET Nat
    BY <2>3 DEF Addresses
  <2>5. stop # {} => Min(stop) \in stop /\ \A y \in stop : Min(stop) <= y
    BY <2>4, NatMin
  <2>6. \/ stop = {} /\ pc' = "returned" /\ UNCHANGED mem
        \/ /\ stop # {} /\ mem' = [mem EXCEPT ![Min(stop)] = 0]
           /\ pc' = "returned"
    BY <2>2, <2>3, <2>5 DEF ResetFirstOne
  <2>7. ASSUME image.bss.len > 0 PROVE base + image.had_error \in stop
    <3>1. base + image.had_error \in Bss
      BY <1>2, <2>7 DEF LldLinked, Bss
    <3> QED BY <1>1, <2>3, <3>1 DEF Unwritten
  <2> HIDE DEF stop
  <2>8. stop # {} => Min(stop) \in Bss /\ mem[Min(stop)] = 1
    BY <2>3, <2>5 DEF stop
  <2> QED BY <2>5, <2>6, <2>7, <2>8
<1> QED BY <1>5, <1>6

LEMMA HideIInv == IInv /\ doHideZygisk /\ LldLinked(image) => IInv'
<1> SUFFICES ASSUME IInv, doHideZygisk, LldLinked(image) PROVE IInv'
  OBVIOUS
<1>1. /\ TypeOK /\ Mapped /\ Cached /\ pc = "hide" /\ UNCHANGED <<image, base, file, maps>>
      /\ parser_cache' = parser_cache
  BY DEF IInv, TypeOK, doHideZygisk, parseSelfMaps
<1>2. /\ pc' \in {"returned", "crashed"}
      /\ mem' = mem \/ \E a : mem' = [mem EXCEPT ![a] = 0]
  BY DEF doHideZygisk, ResetFirstOne
<1>3. mem' \in [Addresses -> Bytes]
  BY <1>1, <1>2 DEF TypeOK, Bytes
<1>4. TypeOK' /\ Mapped' /\ Cached' /\ Unwritten'
  BY <1>1, <1>2, <1>3 DEF TypeOK, Mapped, Cached, Unwritten
<1>5. pc' = "crashed" => Replaced'
  BY <1>1, HideDoes DEF Replaced
<1> QED BY <1>2, <1>4, <1>5 DEF IInv

LEMMA NextIInv == IInv /\ LldLinked(image) /\ [Next]_vars => IInv'
<1> SUFFICES ASSUME IInv, LldLinked(image), [Next]_vars PROVE IInv'
  OBVIOUS
<1>1. CASE HookPLTByName
  BY <1>1, HookIInv
<1>2. CASE MapsChange
  BY <1>2, MapsChangeIInv
<1>3. CASE Callback
  BY <1>3, CallbackIInv
<1>4. CASE doHideZygisk
  BY <1>4, HideIInv
<1>5. CASE Terminated \/ UNCHANGED vars
  BY <1>5 DEF Terminated, vars, IInv, TypeOK, Mapped, Cached, Unwritten, Bss, Replaced
<1> QED BY <1>1, <1>2, <1>3, <1>4, <1>5 DEF Next

-----------------------------------------------------------------------------
(* Where every build is one that lld linked, the library stays where the     *)
(* cache has it and memory as it was, until doHideZygisk writes.             *)
THEOREM HideInductive == (\A img \in Images : LldLinked(img)) /\ Spec => []IInv
<1> SUFFICES ASSUME \A img \in Images : LldLinked(img) PROVE Spec => []IInv
  OBVIOUS
<1>1. IInv /\ [Next]_vars => IInv'
  <2>1. IInv => LldLinked(image)
    BY DEF IInv, TypeOK
  <2> QED BY <2>1, NextIInv
<1> QED BY <1>1, InitIInv, PTL DEF Spec

(* The variables stay in their types, and a process runs doHideZygisk with   *)
(* its mappings parsed, however the library was linked.                      *)
THEOREM HideTyped == Spec => []TypeOK
<1>1. Init => TypeOK
  BY InitIInv DEF IInv
<1>2. TypeOK /\ [Next]_vars => TypeOK'
  <2> SUFFICES ASSUME TypeOK, [Next]_vars PROVE TypeOK'
    OBVIOUS
  <2>1. CASE HookPLTByName
    <3>1. parser_cache' \in {parser_cache, {m \in maps : m.inodeFits}, {}}
      BY <2>1 DEF HookPLTByName, parseSelfMaps
    <3>2. parser_cache' \subseteq Mappings
      BY <3>1 DEF TypeOK
    <3>3. /\ pc' \in {"returned", "setresuid", "armed"}
          /\ pc' # "returned" => parser_cache' # {}
      BY <2>1 DEF HookPLTByName, Found
    <3> QED BY <2>1, <3>2, <3>3 DEF HookPLTByName, TypeOK
  <2>2. CASE MapsChange
    <3>1. maps' \subseteq Mappings
      BY <2>2, HideAssumption DEF MapsChange, TypeOK
    <3> QED BY <2>2, <3>1 DEF MapsChange, TypeOK
  <2>3. CASE Callback
    <3>1. file' = file \/ file' = {} \/ \E f \in Images : file' = {f}
      BY <2>3 DEF Callback
    <3>2. file \subseteq Images /\ Cardinality(file) <= 1
      BY DEF TypeOK
    <3>3. file' \subseteq Images /\ Cardinality(file') <= 1
      <4>1. Cardinality({}) = 0 /\ \A f \in Images : Cardinality({f}) = 1
        BY FS_EmptySet, FS_Singleton
      <4> QED BY <3>1, <3>2, <4>1
    <3> QED BY <2>3, <3>3 DEF Callback, TypeOK
  <2>4. CASE doHideZygisk
    <3>1. /\ parser_cache' = parser_cache /\ UNCHANGED <<image, base, file, maps>>
          /\ pc' \in {"returned", "crashed"}
          /\ mem' = mem \/ \E a : mem' = [mem EXCEPT ![a] = 0]
      BY <2>4 DEF TypeOK, doHideZygisk, parseSelfMaps, ResetFirstOne
    <3>2. mem' \in [Addresses -> Bytes]
      BY <3>1 DEF TypeOK, Bytes
    <3> QED BY <3>1, <3>2 DEF TypeOK
  <2>5. CASE Terminated \/ UNCHANGED vars
    BY <2>5 DEF Terminated, vars, TypeOK
  <2> QED BY <2>1, <2>2, <2>3, <2>4, <2>5 DEF Next
<1> QED BY <1>1, <1>2, PTL DEF Spec

(* doHideZygisk stops at no address that is not mapped, whichever of its     *)
(* inputs is missing, unless another file has come to be at the path.        *)
THEOREM HideDoesReturn == (\A img \in Images : LldLinked(img)) /\ Spec => []HideReturns
<1>1. IInv => HideReturns
  BY DEF IInv, HideReturns
<1> QED BY <1>1, HideInductive, PTL

(* doHideZygisk writes nowhere but in the .bss of the library loaded, by the *)
(* address of mappings parsed long before, unless another file is there.     *)
THEOREM BssOnly == (\A img \in Images : LldLinked(img)) /\ Spec => OnlyBssWritten
<1> SUFFICES ASSUME \A img \in Images : LldLinked(img) PROVE Spec => OnlyBssWritten
  OBVIOUS
<1> DEFINE Confined == ~Replaced => \A a \in Addresses : mem'[a] # mem[a] => a \in Bss
<1>1. IInv /\ [Next]_vars => [Confined]_vars
  <2> SUFFICES ASSUME IInv, Next, ~Replaced, NEW a \in Addresses, mem'[a] # mem[a]
               PROVE  a \in Bss
    BY DEF vars
  <2>1. doHideZygisk
    BY DEF Next, HookPLTByName, MapsChange, Callback, Terminated, vars
  <2>2. LldLinked(image) /\ mem \in [Addresses -> Bytes]
    BY DEF IInv, TypeOK
  <2>3. PICK b \in Bss : mem' = [mem EXCEPT ![b] = 0]
    BY <2>1, <2>2, HideDoes
  <2> QED BY <2>2, <2>3
<1> QED BY <1>1, HideInductive, PTL DEF Spec, OnlyBssWritten

(* Run on the file that is loaded, with the mappings it needs, doHideZygisk  *)
(* resets had_error, or a byte of .bss before it that was taken for it.      *)
THEOREM ErrorIsReset == (\A img \in Images : LldLinked(img)) /\ Spec => HadErrorReset
<1> SUFFICES ASSUME \A img \in Images : LldLinked(img) PROVE Spec => HadErrorReset
  OBVIOUS
<1> DEFINE Resets == pc = "hide" /\ file = {image} /\ image.inodeFits /\ image.bss.len > 0
       => \/ mem'[base + image.had_error] = 0
          \/ \E a \in Bss : a < base + image.had_error /\ mem[a] = 1 /\ mem'[a] = 0
<1>1. IInv /\ [Next]_vars => [Resets]_vars
  <2> SUFFICES ASSUME IInv, Next, pc = "hide", file = {image}, image.inodeFits,
                      image.bss.len > 0
               PROVE  \/ mem'[base + image.had_error] = 0
                      \/ \E a \in Bss : a < base + image.had_error /\ mem[a] = 1 /\ mem'[a] = 0
    BY DEF vars
  <2>1. doHideZygisk /\ ~Replaced
    BY DEF Next, HookPLTByName, MapsChange, Callback, Terminated, vars, Replaced
  <2>2. LldLinked(image) /\ mem \in [Addresses -> Bytes] /\ image \in Images /\ base \in Bases
    BY DEF IInv, TypeOK
  <2>3. PICK a \in Bss : /\ mem[a] = 1 /\ mem' = [mem EXCEPT ![a] = 0]
                         /\ a <= base + image.had_error
    BY <2>1, <2>2, HideDoes
  <2>4. a \in Addresses /\ a \in Nat /\ base + image.had_error \in Nat
    BY <2>2, <2>3, ImageIs, BssIsWritable DEF Addresses
  <2>5. mem'[a] = 0
    BY <2>2, <2>3, <2>4
  <2> QED BY <2>3, <2>4, <2>5
<1> QED BY <1>1, HideInductive, PTL DEF Spec, HadErrorReset
=============================================================================
