--------------------------- MODULE UnmountProofs ---------------------------
(***************************************************************************)
(* Proofs about Unmount: that the mount tables stay tables, that what the   *)
(* parser and the resolver make of any table is enough to recognise a root  *)
(* solution's mounts, and what doUnmount's loop detaches and leaves, for    *)
(* any number of processes that unmount.                                    *)
(***************************************************************************)
EXTENDS Unmount, SequenceTheorems, FiniteSetTheorems, WellFoundedInduction, TLAPS

(* What parseSelfMountinfo makes of a mount's line. *)
Shown(m) == [m EXCEPT !.root = Mangle(@), !.point = Mangle(@),
                      !.super = parseMountOptions(Mangle(@))]

(* t is a table that somebody has read and e are the entries it was parsed to. *)
Reading(t, e) ==
  /\ Namespace(t) /\ \A i \in DOMAIN t : ShownOnce(t[i].super)
  /\ DOMAIN e \subseteq DOMAIN t
  /\ \A i \in DOMAIN e : e[i] = Shown(t[i])

IInv ==
  /\ TypeOK
  /\ \A i \in DOMAIN table : ShownOnce(table[i].super)
  /\ DOMAIN infos = Unmounters /\ DOMAIN taken = Unmounters /\ DOMAIN it = Unmounters
  /\ \A u \in Unmounters : Reading(taken[u], infos[u])

-----------------------------------------------------------------------------
(* A finite set of numbers has a greatest element, which is Max's.           *)
LEMMA NatLeast ==
  ASSUME NEW S \in SUBSET Nat, S # {}
  PROVE  \E x \in S : \A y \in S : x <= y
<1> DEFINE R == {ss \in Nat \X Nat : ss[1] < ss[2]}
<1>1. IsWellFoundedOn(R, Nat)
  BY NatLessThanWellFounded DEF OpToRel
<1> HIDE DEF R
<1>2. PICK x \in S : \A y \in S : ~(<<y, x>> \in R)
  BY <1>1, WFMin
<1>3. \A y \in S : x <= y
  <2> SUFFICES ASSUME NEW y \in S, ~(x <= y) PROVE FALSE
    OBVIOUS
  <2>1. <<y, x>> \in Nat \X Nat /\ y < x
    OBVIOUS
  <2>2. <<y, x>> \in R
    BY <2>1 DEF R
  <2> QED BY <1>2, <2>2
<1> QED BY <1>3

LEMMA FiniteIsBounded ==
  ASSUME NEW S \in SUBSET Nat, IsFiniteSet(S)
  PROVE  \E b \in Nat : \A y \in S : y <= b
<1> DEFINE Unbounded(T) == /\ IsFiniteSet(T) /\ T \subseteq Nat
                           /\ ~\E b \in Nat : \A y \in T : y <= b
           bad == {n \in Nat : \E T \in SUBSET Nat : Unbounded(T) /\ Cardinality(T) = n}
<1>1. ASSUME bad # {} PROVE FALSE
  <2>1. bad \in SUBSET Nat
    OBVIOUS
  <2> HIDE DEF bad
  <2>2. PICK n \in bad : \A k \in bad : n <= k
    BY <1>1, <2>1, NatLeast
  <2>3. PICK T \in SUBSET Nat : Unbounded(T) /\ Cardinality(T) = n
    BY <2>2 DEF bad
  <2>4. PICK x : x \in T
    <3>1. T = {} => \A y \in T : y <= 0
      OBVIOUS
    <3> QED BY <2>3, <3>1
  <2>5. /\ IsFiniteSet(T \ {x}) /\ Cardinality(T \ {x}) = n - 1
        /\ n - 1 \in Nat
    <3>1. IsFiniteSet(T \ {x}) /\ Cardinality(T \ {x}) = n - 1
      BY <2>3, <2>4, FS_RemoveElement
    <3> QED BY <3>1, FS_CardinalityType
  <2>6. n - 1 \notin bad
    <3>1. n \in Nat
      BY <2>1
    <3> QED BY <2>2, <2>5, <3>1
  <2>7. PICK b \in Nat : \A y \in T \ {x} : y <= b
    <3>1. ~Unbounded(T \ {x})
      BY <2>5, <2>6 DEF bad
    <3> QED BY <2>5, <3>1
  <2>8. \A y \in T : y <= b + x
    BY <2>3, <2>4, <2>7
  <2>9. b + x \in Nat
    BY <2>3, <2>4
  <2> QED BY <2>3, <2>8, <2>9
<1>2. Cardinality(S) \in Nat
  BY FS_CardinalityType
<1> QED BY <1>1, <1>2

LEMMA MaxIs ==
  ASSUME NEW S \in SUBSET Nat, S # {}, IsFiniteSet(S)
  PROVE  Max(S) \in S /\ \A y \in S : y <= Max(S)
<1> DEFINE bounds == {b \in Nat : \A y \in S : y <= b}
<1>1. bounds # {} /\ bounds \in SUBSET Nat
  BY FiniteIsBounded
<1>2. PICK b \in bounds : \A c \in bounds : b <= c
  BY <1>1, NatLeast
<1>3. b \in S
  <2> SUFFICES ASSUME b \notin S PROVE FALSE
    OBVIOUS
  <2>1. \A y \in S : y < b
    BY <1>2
  <2>2. b - 1 \in bounds
    <3>1. PICK y \in S : TRUE
      OBVIOUS
    <3>2. b \in Nat /\ y < b /\ y \in Nat
      BY <1>2, <2>1
    <3> QED BY <2>1, <3>2
  <2> QED BY <1>2, <2>2
<1>4. \A y \in S : b >= y
  BY <1>2
<1> QED BY <1>3, <1>4 DEF Max

-----------------------------------------------------------------------------
(* Text.                                                                    *)

LEMMA PrefixIs ==
  ASSUME NEW S, NEW s \in Seq(S), NEW t \in Seq(S)
  PROVE  IsPrefix(s, t) <=> Len(s) <= Len(t) /\ \A i \in 1..Len(s) : s[i] = t[i]
<1>1. Len(s) \in Nat /\ Len(t) \in Nat /\ SubSeq(s, 1, Len(s)) = s
  BY SubSeqFull, LenProperties
<1>2. ASSUME Len(s) <= Len(t)
      PROVE  /\ SubSeq(t, 1, Len(s)) \in Seq(S)
             /\ Len(SubSeq(t, 1, Len(s))) = Len(s)
             /\ \A i \in 1..Len(s) : SubSeq(t, 1, Len(s))[i] = t[i]
  <2>1. \A i \in 1..Len(s) : t[i] \in S
    BY <1>1, <1>2, ElementOfSeq
  <2>2. Len(SubSeq(t, 1, Len(s))) = IF 1 <= Len(s) THEN Len(s) - 1 + 1 ELSE 0
    BY <1>1, <2>1, SubSeqProperties
  <2>3. /\ SubSeq(t, 1, Len(s)) \in Seq(S)
        /\ \A i \in 1..Len(s) - 1 + 1 : SubSeq(t, 1, Len(s))[i] = t[1 + i - 1]
    BY <1>1, <2>1, SubSeqProperties
  <2> QED BY <1>1, <2>2, <2>3
<1>3. Len(s) <= Len(t) =>
        (s = SubSeq(t, 1, Len(s)) <=> \A i \in 1..Len(s) : s[i] = t[i])
  BY <1>2, SeqEqual
<1> QED BY <1>1, <1>3 DEF IsPrefix

LEMMA PrefixIsTransitive ==
  ASSUME NEW S, NEW r \in Seq(S), NEW s \in Seq(S), NEW t \in Seq(S),
         IsPrefix(r, s), IsPrefix(s, t)
  PROVE  IsPrefix(r, t)
<1>1. Len(r) \in Nat /\ Len(s) \in Nat /\ Len(t) \in Nat
  BY LenProperties
<1>2. /\ Len(r) <= Len(s) /\ \A i \in 1..Len(r) : r[i] = s[i]
      /\ Len(s) <= Len(t) /\ \A i \in 1..Len(s) : s[i] = t[i]
  BY PrefixIs
<1>3. Len(r) <= Len(t) /\ \A i \in 1..Len(r) : r[i] = t[i]
  BY <1>1, <1>2
<1> QED BY <1>3, PrefixIs

LEMMA FrontIs ==
  ASSUME NEW S, NEW s \in Seq(S), s # <<>>
  PROVE  /\ Len(s) \in Nat \ {0}
         /\ Front(s) \in Seq(S) /\ Len(Front(s)) = Len(s) - 1
         /\ \A i \in 1..Len(s) - 1 : Front(s)[i] = s[i]
<1>1. Len(s) \in Nat /\ Len(s) > 0
  BY LenProperties, EmptySeq
<1>2. \A i \in 1..Len(s) - 1 : s[i] \in S
  BY <1>1, ElementOfSeq
<1> DEFINE n == Len(s) - 1
<1>3. n \in Nat /\ n + 1 = Len(s) /\ Front(s) = SubSeq(s, 1, n)
  BY <1>1 DEF Front
<1>4. \A i \in 1..n : s[i] \in S
  BY <1>2
<1> HIDE DEF n
<1>5. /\ SubSeq(s, 1, n) \in Seq(S)
      /\ Len(SubSeq(s, 1, n)) = IF 1 <= n THEN n - 1 + 1 ELSE 0
      /\ \A i \in 1..n - 1 + 1 : SubSeq(s, 1, n)[i] = s[1 + i - 1]
  BY <1>3, <1>4, SubSeqProperties
<1>6. Front(s) \in Seq(S) /\ Len(Front(s)) = n
  BY <1>3, <1>5
<1>7. \A i \in 1..n : Front(s)[i] = s[i]
  BY <1>3, <1>5
<1> QED BY <1>1, <1>3, <1>6, <1>7

(* What a sequence starts with. *)
LEMMA StartIs ==
  ASSUME NEW S, NEW s \in Seq(S), NEW l \in 1..Len(s)
  PROVE  /\ SubSeq(s, 1, l) \in Seq(S) /\ Len(SubSeq(s, 1, l)) = l
         /\ \A i \in 1..l : SubSeq(s, 1, l)[i] = s[i]
         /\ IsPrefix(SubSeq(s, 1, l), s)
<1> DEFINE r == SubSeq(s, 1, l)
<1>1. Len(s) \in Nat
  BY LenProperties
<1>2. \A i \in 1..l : s[i] \in S
  BY <1>1, ElementOfSeq
<1>3. /\ r \in Seq(S)
      /\ Len(r) = IF 1 <= l THEN l - 1 + 1 ELSE 0
      /\ \A i \in 1..l - 1 + 1 : r[i] = s[1 + i - 1]
  BY <1>1, <1>2, SubSeqProperties
<1> HIDE DEF r
<1>4. Len(r) = l /\ \A i \in 1..l : r[i] = s[i]
  BY <1>1, <1>3
<1>5. IsPrefix(r, s)
  BY <1>1, <1>3, <1>4, PrefixIs
<1> QED BY <1>3, <1>4, <1>5 DEF r

LEMMA PrefixIsStart ==
  ASSUME NEW S, NEW s \in Seq(S), s # <<>>, NEW t \in Seq(S), IsPrefix(s, t)
  PROVE  Len(s) \in 1..Len(t) /\ s = SubSeq(t, 1, Len(s))
<1>1. Len(s) \in Nat \ {0} /\ Len(t) \in Nat
  BY LenProperties, EmptySeq
<1>2. Len(s) <= Len(t) /\ \A i \in 1..Len(s) : s[i] = t[i]
  BY PrefixIs
<1>3. Len(s) \in 1..Len(t)
  BY <1>1, <1>2
<1>4. SubSeq(t, 1, Len(s)) \in Seq(S) /\ Len(SubSeq(t, 1, Len(s))) = Len(s)
      /\ \A i \in 1..Len(s) : SubSeq(t, 1, Len(s))[i] = t[i]
  BY <1>3, StartIs
<1> QED BY <1>2, <1>3, <1>4, SeqEqual

(* Where two sequences part. *)
LEMMA Parting ==
  ASSUME NEW S, NEW s \in Seq(S), NEW t \in Seq(S), ~IsPrefix(s, t), ~IsPrefix(t, s)
  PROVE  \E n \in 1..Len(s) \cap 1..Len(t) :
           s[n] # t[n] /\ \A i \in 1..n - 1 : s[i] = t[i]
<1> DEFINE differ == {n \in 1..Len(s) \cap 1..Len(t) : s[n] # t[n]}
<1>1. Len(s) \in Nat /\ Len(t) \in Nat
  BY LenProperties
<1>2. differ # {}
  <2>1. CASE Len(s) <= Len(t)
    <3>1. PICK n \in 1..Len(s) : s[n] # t[n]
      BY <2>1, PrefixIs
    <3> QED BY <1>1, <2>1, <3>1
  <2>2. CASE Len(t) <= Len(s)
    <3>1. PICK n \in 1..Len(t) : s[n] # t[n]
      BY <2>2, PrefixIs
    <3> QED BY <1>1, <2>2, <3>1
  <2> QED BY <1>1, <2>1, <2>2
<1>3. PICK n \in differ : \A i \in differ : n <= i
  <2>1. differ \in SUBSET Nat
    BY <1>1
  <2> HIDE DEF differ
  <2> QED BY <1>2, <2>1, NatLeast
<1>4. \A i \in 1..n - 1 : s[i] = t[i]
  BY <1>1, <1>3
<1> QED BY <1>3, <1>4

LEMMA TextIs ==
  ASSUME NEW s \in Text, NEW t \in Text
  PROVE  /\ Len(s) \in Nat /\ DOMAIN s = 1..Len(s) /\ \A i \in 1..Len(s) : s[i] \in Tokens
         /\ IsPrefix(s, t) <=> Len(s) <= Len(t) /\ \A i \in 1..Len(s) : s[i] = t[i]
         /\ s \o t \in Text /\ Len(s \o t) = Len(s) + Len(t)
         /\ \A i \in 1..Len(s) + Len(t) :
              (s \o t)[i] = IF i <= Len(s) THEN s[i] ELSE t[i - Len(s)]
<1>1. s \in Seq(Tokens) /\ t \in Seq(Tokens)
  BY DEF Text
<1>2. Len(s) \in Nat /\ DOMAIN s = 1..Len(s) /\ \A i \in 1..Len(s) : s[i] \in Tokens
  BY <1>1, LenProperties, ElementOfSeq
<1>3. IsPrefix(s, t) <=> Len(s) <= Len(t) /\ \A i \in 1..Len(s) : s[i] = t[i]
  BY <1>1, PrefixIs
<1>4. /\ s \o t \in Seq(Tokens) /\ Len(s \o t) = Len(s) + Len(t)
      /\ \A i \in 1..Len(s) + Len(t) :
           (s \o t)[i] = IF i <= Len(s) THEN s[i] ELSE t[i - Len(s)]
  BY <1>1, ConcatProperties
<1> QED BY <1>2, <1>3, <1>4 DEF Text

(* A text as mountinfo has it: only spaces are others. *)
LEMMA MangleIs ==
  ASSUME NEW s \in Text
  PROVE  /\ Mangle(s) \in Text /\ Len(Mangle(s)) = Len(s)
         /\ \A i \in 1..Len(s) : Mangle(s)[i] = IF s[i] = Space THEN EscapedSpace ELSE s[i]
<1>1. Len(s) \in Nat /\ DOMAIN s = 1..Len(s) /\ \A i \in 1..Len(s) : s[i] \in Tokens
  BY LenProperties, ElementOfSeq DEF Text
<1>2. Mangle(s) \in [1..Len(s) -> Tokens]
  BY <1>1, TokensAssumption DEF Mangle
<1>3. Mangle(s) \in Seq(Tokens)
  BY <1>1, <1>2
<1>4. Len(Mangle(s)) = Len(s)
  BY <1>1, <1>2, <1>3, LenProperties
<1> QED BY <1>1, <1>3, <1>4 DEF Mangle, Text

LEMMA CharactersDiffer ==
  /\ \A x \in {"/", "data", "adb", "debug_ramdisk", "=", "lowerdir", "upperdir", "workdir"} :
       x # Space /\ x # Comma /\ x # EscapedSpace
  /\ Space # Comma /\ EscapedSpace # Comma
BY Zenon DEF Space, Comma, EscapedSpace

LEMMA DirIs ==
  ASSUME NEW dir \in mountdir_list
  PROVE  /\ dir \in Text /\ Len(dir) \in {2, 4} /\ dir[1] = "/" /\ dir[2] # "/"
         /\ \A i \in 1..Len(dir) : dir[i] \notin {Space, Comma, "="}
<1>1. CASE dir = <<"/", "data", "/", "adb">>
  <2>1. dir \in Seq(Tokens) /\ Len(dir) = 4
    <3>1. <<"/", "data", "/", "adb">> \in Seq(Tokens)
      <4>1. "/" \in Tokens /\ "data" \in Tokens /\ "adb" \in Tokens
                           /\ "debug_ramdisk" \in Tokens
        BY TokensAssumption
      <4> QED BY <4>1
    <3>2. Len(<<"/", "data", "/", "adb">>) = 4
      OBVIOUS
    <3> QED BY <1>1, <3>1, <3>2
  <2>2. dir[1] = "/" /\ dir[2] = "data" /\ dir[3] = "/" /\ dir[4] = "adb"
    BY <1>1
  <2>3. \A i \in 1..4 : i = 1 \/ i = 2 \/ i = 3 \/ i = 4
    OBVIOUS
  <2> QED BY <2>1, <2>2, <2>3, CharactersDiffer DEF Text
<1>2. CASE dir = <<"/", "debug_ramdisk">>
  <2>1. dir \in Seq(Tokens) /\ Len(dir) = 2
    <3>1. <<"/", "debug_ramdisk">> \in Seq(Tokens)
      <4>1. "/" \in Tokens /\ "data" \in Tokens /\ "adb" \in Tokens
                           /\ "debug_ramdisk" \in Tokens
        BY TokensAssumption
      <4> QED BY <4>1
    <3>2. Len(<<"/", "debug_ramdisk">>) = 2
      OBVIOUS
    <3> QED BY <1>2, <3>1, <3>2
  <2>2. dir[1] = "/" /\ dir[2] = "debug_ramdisk"
    BY <1>2
  <2>3. \A i \in 1..2 : i = 1 \/ i = 2
    OBVIOUS
  <2> QED BY <2>1, <2>2, <2>3, CharactersDiffer DEF Text
<1> QED BY <1>1, <1>2 DEF mountdir_list

(* A directory of mountdir_list that a text starts with is still there when  *)
(* the text has been written to mountinfo.                                   *)
LEMMA DirSurvives ==
  ASSUME NEW dir \in mountdir_list, NEW s \in Text, IsPrefix(dir, s)
  PROVE  IsPrefix(dir, Mangle(s))
<1>1. /\ dir \in Text /\ Mangle(s) \in Text
      /\ \A i \in 1..Len(dir) : dir[i] # Space
  BY DirIs, MangleIs
<1>2. Len(dir) \in Nat /\ Len(s) \in Nat /\ Len(dir) <= Len(s)
      /\ \A i \in 1..Len(dir) : dir[i] = s[i]
  BY <1>1, TextIs
<1>3. Len(dir) <= Len(Mangle(s))
  BY <1>2, MangleIs
<1>4. ASSUME NEW i \in 1..Len(dir) PROVE dir[i] = Mangle(s)[i]
  <2>1. dir[i] = s[i] /\ i \in 1..Len(s)
    BY <1>2
  <2>2. s[i] # Space
    BY <1>1, <2>1
  <2> QED BY <2>1, <2>2, MangleIs
<1> QED BY <1>1, <1>3, <1>4, TextIs

(* Written to mountinfo in two parts or in one. *)
LEMMA MangleOfConcat ==
  ASSUME NEW s \in Text, NEW t \in Text
  PROVE  Mangle(s) \o Mangle(t) = Mangle(s \o t)
<1> DEFINE st == s \o t
           ms == Mangle(s)
           mt == Mangle(t)
           mm == ms \o mt
<1>1. /\ Len(s) \in Nat /\ Len(t) \in Nat
      /\ st \in Text /\ Len(st) = Len(s) + Len(t)
      /\ \A i \in 1..Len(s) + Len(t) : st[i] = IF i <= Len(s) THEN s[i] ELSE t[i - Len(s)]
  BY TextIs
<1>2. /\ ms \in Text /\ Len(ms) = Len(s)
      /\ \A i \in 1..Len(s) : ms[i] = IF s[i] = Space THEN EscapedSpace ELSE s[i]
  BY MangleIs
<1>3. /\ mt \in Text /\ Len(mt) = Len(t)
      /\ \A i \in 1..Len(t) : mt[i] = IF t[i] = Space THEN EscapedSpace ELSE t[i]
  BY MangleIs
<1> HIDE DEF st, ms, mt
<1>4. /\ mm \in Text /\ Len(mm) = Len(s) + Len(t)
      /\ \A i \in 1..Len(s) + Len(t) :
           mm[i] = IF i <= Len(s) THEN ms[i] ELSE mt[i - Len(s)]
  <2>1. /\ ms \o mt \in Text /\ Len(ms \o mt) = Len(ms) + Len(mt)
        /\ \A i \in 1..Len(ms) + Len(mt) :
             (ms \o mt)[i] = IF i <= Len(ms) THEN ms[i] ELSE mt[i - Len(ms)]
    BY <1>2, <1>3, TextIs
  <2> QED BY <1>2, <1>3, <2>1
<1>5. /\ Mangle(st) \in Text /\ Len(Mangle(st)) = Len(s) + Len(t)
      /\ \A i \in 1..Len(s) + Len(t) : Mangle(st)[i] = IF st[i] = Space THEN EscapedSpace ELSE st[i]
  BY <1>1, MangleIs
<1> HIDE DEF mm
<1>6. ASSUME NEW i \in 1..Len(s) + Len(t) PROVE mm[i] = Mangle(st)[i]
  <2>1. CASE i <= Len(s)
    <3>1. i \in 1..Len(s)
      BY <1>1, <2>1
    <3> QED BY <1>1, <1>2, <1>4, <1>5, <2>1, <3>1
  <2>2. CASE ~(i <= Len(s))
    <3>1. i - Len(s) \in 1..Len(t)
      BY <1>1, <2>2
    <3> QED BY <1>1, <1>3, <1>4, <1>5, <2>2, <3>1
  <2> QED BY <2>1, <2>2
<1>7. mm = Mangle(st)
  BY <1>4, <1>5, <1>6, SeqEqual DEF Text
<1> QED BY <1>7 DEF st, ms, mt, mm

-----------------------------------------------------------------------------
(* What parsing a table gives, or not being able to open it. *)
LEMMA ParseIs ==
  ASSUME IInv, NEW read \in {table, <<>>}
  PROVE  Reading(table, parseSelfMountinfo(read))
<1> DEFINE kept == {i \in DOMAIN read : read[i].source # ""}
<1>1. kept \subseteq DOMAIN table /\ \A i \in kept : read[i] = table[i]
  <2>1. CASE read = table
    BY <2>1
  <2>2. CASE read = <<>>
    BY <2>2
  <2> QED BY <2>1, <2>2
<1>2. DOMAIN Parsed(read) = kept
  BY DEF Parsed, Restrict
<1>3. parseSelfMountinfo(read) = [i \in DOMAIN Parsed(read) |-> Shown(read[i])]
  BY DEF parseSelfMountinfo, Shown
<1> HIDE DEF kept
<1>4. /\ DOMAIN parseSelfMountinfo(read) = kept
      /\ \A i \in kept : parseSelfMountinfo(read)[i] = Shown(table[i])
  BY <1>1, <1>2, <1>3
<1>5. Namespace(table) /\ \A i \in DOMAIN table : ShownOnce(table[i].super)
  BY DEF IInv, TypeOK
<1> QED BY <1>1, <1>4, <1>5 DEF Reading

(* An entry's fields. *)
LEMMA ShownIs ==
  ASSUME NEW m \in MountOf
  PROVE  /\ Shown(m).dev = m.dev /\ Shown(m).type = m.type /\ Shown(m).source = m.source
         /\ Shown(m).root = Mangle(m.root) /\ Shown(m).point = Mangle(m.point)
         /\ Shown(m).super = parseMountOptions(Mangle(m.super))
         /\ m.root \in Path /\ m.point \in Path /\ m.super \in Text
  BY DEF Shown, MountOf

LEMMA PathIs ==
  ASSUME NEW s \in Path
  PROVE  /\ s \in Text /\ Len(s) \in Nat \ {0} /\ s[1] = "/"
         /\ Mangle(s) # <<>>
         /\ Mangle(s) = Root <=> s = Root
         /\ s = Root <=> Len(s) = 1
<1>1. s \in Text /\ s # <<>> /\ s[1] = "/"
  BY DEF Path
<1>2. Len(s) \in Nat \ {0} /\ s \in Seq(Tokens)
  BY <1>1, EmptySeq, LenProperties DEF Text
<1>3. Mangle(s) \in Text /\ Len(Mangle(s)) = Len(s)
  BY <1>1, MangleIs
<1>4. Mangle(s) # <<>>
  <2>1. Len(<<>>) = 0
    OBVIOUS
  <2> QED BY <1>2, <1>3, <2>1
<1>5. "/" \in Tokens
  BY TokensAssumption
<1>6. Root \in Seq(Tokens) /\ Len(Root) = 1 /\ Root[1] = "/"
  BY <1>5 DEF Root
<1>7. s = Root <=> Len(s) = 1
  <2>1. ASSUME Len(s) = 1 PROVE s = Root
    <3>1. \A i \in 1..Len(s) : s[i] = Root[i]
      BY <1>1, <1>6, <2>1
    <3> QED BY <1>2, <1>6, <2>1, <3>1, SeqEqual
  <2> QED BY <1>6, <2>1
<1>8. Mangle(s)[1] = "/"
  <2>1. 1 \in 1..Len(s)
    BY <1>2
  <2>2. s[1] # Space
    BY <1>1, CharactersDiffer
  <2> QED BY <1>1, <2>1, <2>2, MangleIs
<1>9. Mangle(s) = Root <=> Len(Mangle(s)) = 1
  <2>1. ASSUME Len(Mangle(s)) = 1 PROVE Mangle(s) = Root
    <3>1. \A i \in 1..Len(Mangle(s)) : Mangle(s)[i] = Root[i]
      BY <1>6, <1>8, <2>1
    <3> QED BY <1>3, <1>6, <2>1, <3>1, SeqEqual DEF Text
  <2> QED BY <1>6, <2>1
<1> QED BY <1>1, <1>2, <1>3, <1>4, <1>7, <1>9

-----------------------------------------------------------------------------
(* Directories above a path.                                                *)

LEMMA AboveItself ==
  ASSUME NEW a \in Path
  PROVE  Above(a, a)
<1>1. a \in Text
  BY PathIs
<1> QED BY <1>1, TextIs DEF Above

LEMMA AboveIsTransitive ==
  ASSUME NEW a \in Path, NEW b \in Path, NEW c \in Path, Above(a, b), Above(b, c)
  PROVE  Above(a, c)
<1>1. /\ a \in Text /\ b \in Text /\ c \in Text
      /\ Len(a) \in Nat \ {0} /\ Len(b) \in Nat \ {0} /\ Len(c) \in Nat \ {0}
  BY PathIs
<1>2. CASE a = Root
  BY <1>2 DEF Above
<1>3. CASE b = Root /\ a # Root
  <2>1. IsPrefix(a, b)
    BY <1>3 DEF Above
  <2>2. Len(a) <= 1
    <3>1. Len(a) <= Len(b)
      BY <1>1, <2>1, TextIs
    <3> QED BY <1>3, <3>1, PathIs
  <2>3. a = Root
    <3> DEFINE n == Len(a)
    <3>1. n = 1
      <4>1. n \in Nat /\ n # 0 /\ n <= 1
        BY <1>1, <2>2
      <4> HIDE DEF n
      <4> QED BY <4>1
    <3> QED BY <3>1, PathIs
  <2> QED BY <1>3, <2>3
<1>4. CASE a # Root /\ b # Root
  <2>1. /\ IsPrefix(a, b) /\ (Len(a) = Len(b) \/ b[Len(a) + 1] = "/")
        /\ IsPrefix(b, c) /\ (Len(b) = Len(c) \/ c[Len(b) + 1] = "/")
    BY <1>4 DEF Above
  <2>2. /\ Len(a) <= Len(b) /\ \A i \in 1..Len(a) : a[i] = b[i]
        /\ Len(b) <= Len(c) /\ \A i \in 1..Len(b) : b[i] = c[i]
    BY <1>1, <2>1, TextIs
  <2>3. Len(a) <= Len(c) /\ \A i \in 1..Len(a) : a[i] = c[i]
    BY <1>1, <2>2
  <2>4. IsPrefix(a, c)
    BY <1>1, <2>3, TextIs
  <2>5. Len(a) = Len(c) \/ c[Len(a) + 1] = "/"
    <3>1. CASE Len(a) = Len(b)
      BY <2>1, <3>1
    <3>2. CASE Len(a) # Len(b)
      <4>1. Len(a) + 1 \in 1..Len(b)
        BY <1>1, <2>2, <3>2
      <4> QED BY <2>1, <2>2, <3>2, <4>1
    <3> QED BY <3>1, <3>2
  <2> QED BY <2>4, <2>5 DEF Above
<1> QED BY <1>2, <1>3, <1>4

(* Of two directories on one way the one is above the other. *)
LEMMA AboveIsComparable ==
  ASSUME NEW a \in Path, NEW b \in Path, NEW c \in Path, Above(a, c), Above(b, c)
  PROVE  Above(a, b) \/ Above(b, a)
<1>1. /\ a \in Text /\ b \in Text /\ c \in Text
      /\ Len(a) \in Nat /\ Len(b) \in Nat /\ Len(c) \in Nat
  BY PathIs
<1>2. CASE a = Root \/ b = Root
  BY <1>2 DEF Above
<1>3. CASE a # Root /\ b # Root
  <2>1. /\ IsPrefix(a, c) /\ (Len(a) = Len(c) \/ c[Len(a) + 1] = "/")
        /\ IsPrefix(b, c) /\ (Len(b) = Len(c) \/ c[Len(b) + 1] = "/")
    BY <1>3 DEF Above
  <2>2. /\ Len(a) <= Len(c) /\ \A i \in 1..Len(a) : a[i] = c[i]
        /\ Len(b) <= Len(c) /\ \A i \in 1..Len(b) : b[i] = c[i]
    BY <1>1, <2>1, TextIs
  <2>3. CASE Len(a) <= Len(b)
    <3>1. \A i \in 1..Len(a) : a[i] = b[i]
      BY <1>1, <2>2, <2>3
    <3>2. IsPrefix(a, b)
      BY <1>1, <2>3, <3>1, TextIs
    <3>3. Len(a) = Len(b) \/ b[Len(a) + 1] = "/"
      <4>1. CASE Len(a) # Len(b)
        <5>1. Len(a) + 1 \in 1..Len(b) /\ Len(a) # Len(c)
          BY <1>1, <2>2, <2>3, <4>1
        <5> QED BY <2>1, <2>2, <5>1
      <4> QED BY <4>1
    <3> QED BY <3>2, <3>3 DEF Above
  <2>4. CASE Len(b) <= Len(a)
    <3>1. \A i \in 1..Len(b) : b[i] = a[i]
      BY <1>1, <2>2, <2>4
    <3>2. IsPrefix(b, a)
      BY <1>1, <2>4, <3>1, TextIs
    <3>3. Len(b) = Len(a) \/ a[Len(b) + 1] = "/"
      <4>1. CASE Len(b) # Len(a)
        <5>1. Len(b) + 1 \in 1..Len(a) /\ Len(b) # Len(c)
          BY <1>1, <2>2, <2>4, <4>1
        <5> QED BY <2>1, <2>2, <5>1
      <4> QED BY <4>1
    <3> QED BY <3>2, <3>3 DEF Above
  <2> QED BY <1>1, <2>3, <2>4
<1> QED BY <1>2, <1>3

(* A path that the kernel escapes leads nowhere once it is written, and one  *)
(* that it leaves alone has no directory above it that it escapes.           *)
LEMMA EscapedPath ==
  ASSUME NEW s \in Path, Mangle(s) # s
  PROVE  Mangle(s) \notin Path
<1>1. s \in Text /\ Mangle(s) \in Text /\ Len(Mangle(s)) = Len(s)
      /\ \A i \in 1..Len(s) : Mangle(s)[i] = IF s[i] = Space THEN EscapedSpace ELSE s[i]
  BY PathIs, MangleIs
<1>2. PICK i \in 1..Len(s) : Mangle(s)[i] # s[i]
  BY <1>1, SeqEqual DEF Text
<1>3. Mangle(s)[i] = EscapedSpace
  BY <1>1, <1>2, Zenon
<1>4. i \in DOMAIN Mangle(s)
  <2>1. DOMAIN Mangle(s) = 1..Len(s)
    BY <1>1, TextIs
  <2> QED BY <2>1
<1> QED BY <1>3, <1>4 DEF Path

LEMMA UnescapedAbove ==
  ASSUME NEW a \in Path, NEW b \in Path, Above(a, b), Mangle(b) = b
  PROVE  Mangle(a) = a
<1>1. a \in Text /\ b \in Text /\ Len(a) \in Nat /\ Len(b) \in Nat
  BY PathIs
<1>2. CASE a = Root
  BY <1>2, PathIs
<1>3. CASE a # Root
  <2>1. Len(a) <= Len(b) /\ \A i \in 1..Len(a) : a[i] = b[i]
    BY <1>1, <1>3, TextIs DEF Above
  <2>2. /\ Mangle(a) \in Text /\ Len(Mangle(a)) = Len(a)
        /\ \A i \in 1..Len(a) : Mangle(a)[i] = IF a[i] = Space THEN EscapedSpace ELSE a[i]
    BY <1>1, MangleIs
  <2>3. \A i \in 1..Len(b) : Mangle(b)[i] = IF b[i] = Space THEN EscapedSpace ELSE b[i]
    BY <1>1, MangleIs
  <2>4. ASSUME NEW i \in 1..Len(a) PROVE Mangle(a)[i] = a[i]
    <3>1. i \in 1..Len(b) /\ a[i] = b[i]
      BY <1>1, <2>1
    <3>2. b[i] # Space
      <4>1. ASSUME b[i] = Space PROVE FALSE
        <5>1. Mangle(b)[i] = EscapedSpace
          BY <2>3, <3>1, <4>1
        <5>2. "/" \in Tokens /\ b[i] # EscapedSpace
          <6>1. i \in DOMAIN b
            BY <1>1, <3>1, TextIs
          <6> QED BY <6>1, TokensAssumption DEF Path
        <5> QED BY <5>1, <5>2
      <4> QED BY <4>1
    <3> QED BY <2>2, <3>1, <3>2, Zenon
  <2> QED BY <1>1, <2>2, <2>4, SeqEqual DEF Text
<1> QED BY <1>2, <1>3

-----------------------------------------------------------------------------
(* Mounts in a table.                                                       *)

(* c lies over m where it leaves the way to it before the mount on the way   *)
(* that it sits beside.                                                      *)
LEMMA BesideTheWay ==
  ASSUME NEW t, Namespace(t), NEW i \in DOMAIN t, NEW j \in DOMAIN t,
         NEW k \in DOMAIN t, NEW l \in DOMAIN t,
         NEW n \in 1..Len(t[i].at) \cap 1..Len(t[j].at),
         t[i].at[n] # t[j].at[n], \A x \in 1..n - 1 : t[i].at[x] = t[j].at[x],
         t[k].at = SubSeq(t[i].at, 1, n), t[l].at = SubSeq(t[j].at, 1, n),
         Above(t[k].point, t[l].point), Above(t[k].point, t[j].point)
  PROVE  Shadows(Range(t), t[k], t[j])
<1> DEFINE a == t[i].at
           b == t[j].at
           c == t[k].at
<1>1. a \in Seq(Nat) /\ b \in Seq(Nat) /\ \A x \in DOMAIN t : t[x].at \in Seq(Nat)
  BY DEF Namespace, MountOf
<1>2. Len(a) \in Nat /\ Len(b) \in Nat
  BY <1>1, LenProperties
<1> HIDE DEF a, b
<1>3. /\ c \in Seq(Nat) /\ Len(c) = n /\ \A x \in 1..n : c[x] = a[x]
      /\ n \in Nat \ {0} /\ n <= Len(b)
      /\ a[n] # b[n] /\ \A x \in 1..n - 1 : a[x] = b[x]
  <2>1. c = SubSeq(a, 1, n) /\ n \in 1..Len(a) /\ n \in 1..Len(b)
    BY DEF a, b
  <2>2. a[n] # b[n] /\ \A x \in 1..n - 1 : a[x] = b[x]
    BY DEF a, b
  <2> HIDE DEF c
  <2>3. c \in Seq(Nat) /\ Len(c) = n /\ \A x \in 1..n : c[x] = a[x]
    BY <1>1, <2>1, StartIs
  <2> QED BY <1>2, <2>1, <2>2, <2>3
<1>4. IsPrefix(Front(c), b)
  <2> HIDE DEF c
  <2>1. c # <<>>
    BY <1>3
  <2>2. /\ Front(c) \in Seq(Nat) /\ Len(Front(c)) = n - 1
        /\ \A x \in 1..n - 1 : Front(c)[x] = c[x]
    BY <1>3, <2>1, FrontIs
  <2>3. Len(Front(c)) <= Len(b)
    BY <1>2, <1>3, <2>2
  <2>4. ASSUME NEW x \in 1..Len(Front(c)) PROVE Front(c)[x] = b[x]
    <3>1. x \in 1..n - 1 /\ x \in 1..n
      BY <1>3, <2>2
    <3> QED BY <1>3, <2>2, <3>1
  <2> QED BY <1>1, <2>2, <2>3, <2>4, PrefixIs
<1>5. ~IsPrefix(c, b)
  <2> HIDE DEF c
  <2>1. n \in 1..Len(c) /\ c[n] # b[n]
    <3>1. n \in 1..n
      BY <1>3
    <3> QED BY <1>3, <3>1
  <2>2. c \in Seq(Nat)
    BY <1>3
  <2>3. IsPrefix(c, b) => \A x \in 1..Len(c) : c[x] = b[x]
    BY <1>1, <2>2, PrefixIs
  <2> QED BY <2>1, <2>3
<1>6. ASSUME NEW m \in Range(t), IsPrefix(m.at, b), Len(m.at) = Len(c)
      PROVE  m = t[l]
  <2>1. PICK x \in DOMAIN t : m = t[x]
    BY DEF Range
  <2>2. m.at \in Seq(Nat) /\ Len(m.at) = n
    BY <1>1, <1>3, <1>6, <2>1
  <2>3. m.at # <<>>
    BY <1>3, <2>2
  <2>4. m.at = SubSeq(b, 1, n)
    BY <1>1, <1>6, <2>2, <2>3, PrefixIsStart
  <2>5. t[x].at = t[l].at
    BY <2>1, <2>4 DEF b
  <2> QED BY <2>1, <2>5 DEF Namespace
<1>7. \A m \in Range(t) : IsPrefix(m.at, b) /\ Len(m.at) = Len(c) => Above(t[k].point, m.point)
  BY <1>6
<1> QED BY <1>4, <1>5, <1>7 DEF Shadows, b, c

(* Of two mounts at one path, neither below the other, one is hidden: if it  *)
(* is the first, by a mount that the second is or sits on.                   *)
LEMMA TwoAtOnePath ==
  ASSUME NEW t, Namespace(t), NEW i \in DOMAIN t, NEW j \in DOMAIN t,
         t[i].point = t[j].point, ~IsPrefix(t[i].at, t[j].at)
  PROVE  \/ \E k \in DOMAIN t : Shadows(Range(t), t[k], t[j])
         \/ \E k \in DOMAIN t : Shadows(Range(t), t[k], t[i]) /\ IsPrefix(t[k].at, t[j].at)
<1> DEFINE a == t[i].at
           b == t[j].at
           p == t[j].point
<1>1. /\ a \in Seq(Nat) /\ b \in Seq(Nat) /\ a # <<>> /\ b # <<>>
      /\ \A x \in DOMAIN t : t[x].at \in Seq(Nat) /\ t[x].point \in Path
  BY DEF Namespace, MountOf
<1>2. /\ \A n \in 1..Len(a) : \E k \in DOMAIN t : t[k].at = SubSeq(a, 1, n)
      /\ \A n \in 1..Len(b) : \E k \in DOMAIN t : t[k].at = SubSeq(b, 1, n)
      /\ \A x, y \in DOMAIN t : IsPrefix(t[x].at, t[y].at) => Above(t[x].point, t[y].point)
  BY DEF Namespace
<1>3. Len(a) \in Nat /\ Len(b) \in Nat
  BY <1>1, LenProperties
<1>4. ~IsPrefix(a, b) /\ t[i].point = p
  OBVIOUS
<1> HIDE DEF a, b
<1>5. CASE IsPrefix(b, a)
  <2> DEFINE n == Len(b) + 1
  <2>1. Len(b) < Len(a)
    <3>1. /\ Len(b) <= Len(a) /\ \A x \in 1..Len(b) : b[x] = a[x]
      BY <1>1, <1>5, PrefixIs
    <3>2. ~(Len(a) <= Len(b) /\ \A x \in 1..Len(a) : a[x] = b[x])
      BY <1>1, <1>4, PrefixIs
    <3> QED BY <1>3, <3>1, <3>2
  <2>2. n \in 1..Len(a)
    BY <1>3, <2>1
  <2>3. PICK k \in DOMAIN t : t[k].at = SubSeq(a, 1, n)
    BY <1>2, <2>2
  <2> DEFINE c == t[k].at
  <2>4. /\ c \in Seq(Nat) /\ Len(c) = n /\ IsPrefix(c, a)
        /\ \A x \in 1..n : c[x] = a[x]
    BY <1>1, <2>2, <2>3, StartIs
  <2>5. Above(t[k].point, p)
    BY <1>2, <1>4, <2>4 DEF a
  <2> HIDE DEF c
  <2>6. IsPrefix(Front(c), b)
    <3>1. c # <<>> /\ Len(b) = n - 1
      BY <1>3, <2>4
    <3>2. /\ Front(c) \in Seq(Nat) /\ Len(Front(c)) = n - 1
          /\ \A x \in 1..n - 1 : Front(c)[x] = c[x]
      BY <2>4, <3>1, FrontIs
    <3>3. \A x \in 1..Len(b) : b[x] = a[x]
      BY <1>1, <1>5, PrefixIs
    <3>4. Len(Front(c)) <= Len(b)
      BY <1>3, <3>1, <3>2
    <3>5. ASSUME NEW x \in 1..Len(Front(c)) PROVE Front(c)[x] = b[x]
      <4>1. x \in 1..n - 1 /\ x \in 1..n /\ x \in 1..Len(b)
        BY <1>3, <3>1, <3>2
      <4> QED BY <2>4, <3>2, <3>3, <4>1
    <3> QED BY <1>1, <3>2, <3>4, <3>5, PrefixIs
  <2>7. \A s \in Seq(Nat) : IsPrefix(s, b) => Len(s) # n
    <3>1. ASSUME NEW s \in Seq(Nat), IsPrefix(s, b) PROVE Len(s) # n
      <4>1. Len(s) <= Len(b)
        BY <1>1, <3>1, PrefixIs
      <4> QED BY <1>3, <4>1
    <3> QED BY <3>1
  <2>8. ~IsPrefix(c, b)
    BY <2>4, <2>7
  <2>9. ASSUME NEW m \in Range(t), IsPrefix(m.at, b) PROVE Len(m.at) # Len(c)
    <3>1. m.at \in Seq(Nat)
      BY <1>1 DEF Range
    <3> QED BY <2>4, <2>7, <2>9, <3>1
  <2>10. Shadows(Range(t), t[k], t[j])
    BY <2>5, <2>6, <2>8, <2>9 DEF Shadows, b, c
  <2> QED BY <2>10
<1>6. CASE ~IsPrefix(b, a)
  <2>1. PICK n \in 1..Len(a) \cap 1..Len(b) : a[n] # b[n] /\ \A x \in 1..n - 1 : a[x] = b[x]
    BY <1>1, <1>4, <1>6, Parting
  <2>2. PICK k \in DOMAIN t : t[k].at = SubSeq(a, 1, n)
    BY <1>2
  <2>3. PICK l \in DOMAIN t : t[l].at = SubSeq(b, 1, n)
    BY <1>2
  <2>4. IsPrefix(t[k].at, a) /\ IsPrefix(t[l].at, b)
    <3>1. IsPrefix(SubSeq(a, 1, n), a) /\ IsPrefix(SubSeq(b, 1, n), b)
      BY <1>1, StartIs
    <3> QED BY <2>2, <2>3, <3>1
  <2>5. Above(t[k].point, p) /\ Above(t[l].point, p)
    BY <1>2, <1>4, <2>4 DEF a, b
  <2>6. Above(t[k].point, t[l].point) \/ Above(t[l].point, t[k].point)
    BY <1>1, <2>5, AboveIsComparable
  <2>7. CASE Above(t[k].point, t[l].point)
    <3>1. Shadows(Range(t), t[k], t[j])
      BY <2>1, <2>2, <2>3, <2>5, <2>7, BesideTheWay DEF a, b
    <3> QED BY <3>1
  <2>8. CASE Above(t[l].point, t[k].point)
    <3>1. Shadows(Range(t), t[l], t[i])
      <4>1. b[n] # a[n] /\ \A x \in 1..n - 1 : b[x] = a[x]
        BY <2>1
      <4> QED BY <1>4, <2>1, <2>2, <2>3, <2>5, <2>8, <4>1, BesideTheWay DEF a, b
    <3> QED BY <2>4, <3>1 DEF b
  <2> QED BY <2>6, <2>7, <2>8
<1> QED BY <1>5, <1>6

-----------------------------------------------------------------------------
(* The resolver: where t[j] is the only mount of the whole of t[i]'s device. *)
LEMMA ModuleRecognised ==
  ASSUME NEW t, NEW e, Reading(t, e), NEW i \in DOMAIN e, NEW j \in DOMAIN e,
         NEW dir \in mountdir_list, Above(dir, t[j].point \o t[i].root),
         {h \in {t[k] : k \in DOMAIN e} : h.dev = t[i].dev /\ h.root = Root} = {t[j]}
  PROVE  shouldUnmount(e, e[i])
<1> DEFINE point == t[j].point
           root  == t[i].root
           full  == {k \in DOMAIN e : e[k].dev = e[i].dev /\ e[k].root = Root}
<1>1. \A k \in DOMAIN e : /\ e[k].dev = t[k].dev
                          /\ e[k].root = Mangle(t[k].root) /\ e[k].point = Mangle(t[k].point)
                          /\ t[k].root \in Path /\ t[k].point \in Path
  <2>1. \A k \in DOMAIN e : t[k] \in MountOf /\ e[k] = Shown(t[k])
    BY DEF Reading, Namespace
  <2> QED BY <2>1, ShownIs
<1>2. point \in Path /\ root \in Path
  BY <1>1
<1>3. \A k \in full : t[k] = t[j]
  <2>1. ASSUME NEW k \in full PROVE t[k] = t[j]
    <3>1. k \in DOMAIN e
      OBVIOUS
    <3>2. t[k].dev = t[i].dev /\ t[k].root = Root
      BY <1>1, <3>1, PathIs
    <3> QED BY <3>1, <3>2
  <2> QED BY <2>1
<1>4. j \in full
  <2>1. t[j].dev = t[i].dev /\ t[j].root = Root
    OBVIOUS
  <2> QED BY <1>1, <2>1, PathIs
<1>5. Max(full) \in full
  <2>1. IsFiniteSet(full) /\ full \in SUBSET Nat
    <3>1. IsFiniteSet(DOMAIN t) /\ DOMAIN t \subseteq Nat /\ full \subseteq DOMAIN t
      BY DEF Reading, Namespace
    <3> QED BY <3>1, FS_Subset
  <2> HIDE DEF full
  <2> QED BY <1>4, <2>1, MaxIs
<1>6. DeviceMount(e, e[i].dev) = Mangle(point)
  <2>1. DeviceMount(e, e[i].dev) = e[Max(full)].point
    BY <1>4 DEF DeviceMount
  <2>2. Max(full) \in DOMAIN e /\ t[Max(full)] = t[j]
    BY <1>3, <1>5
  <2> QED BY <1>1, <2>1, <2>2
<1> HIDE DEF full, point, root
<1>7. /\ dir \in Text /\ Len(dir) \in {2, 4} /\ dir[2] # "/"
      /\ point \in Text /\ root \in Text /\ Len(point) \in Nat \ {0} /\ root[1] = "/"
      /\ Len(root) \in Nat \ {0}
  BY <1>2, DirIs, PathIs
<1>8. point \o root \in Text /\ IsPrefix(dir, point \o root)
  <2>1. Len(Root) = 1
    BY DEF Root
  <2>2. dir # Root
    BY <1>7, <2>1
  <2> QED BY <1>7, <2>2, TextIs DEF Above, point, root
<1>9. Mangle(point) \notin {<<>>, Root}
  <2>1. ASSUME Mangle(point) = Root PROVE FALSE
    <3>1. Len(point) = 1
      BY <1>2, <2>1, PathIs
    <3>2. /\ \A k \in 1..Len(dir) : dir[k] = (point \o root)[k]
          /\ \A k \in 1..Len(point) + Len(root) :
               (point \o root)[k] = IF k <= Len(point) THEN point[k] ELSE root[k - Len(point)]
      BY <1>7, <1>8, TextIs
    <3>3. 2 \in 1..Len(dir) /\ 2 \in 1..Len(point) + Len(root)
          /\ ~(2 <= Len(point)) /\ 2 - Len(point) = 1
      BY <1>7, <3>1
    <3>4. dir[2] = root[1]
      BY <3>2, <3>3
    <3> QED BY <1>7, <3>4
  <2> QED BY <1>2, <2>1, PathIs
<1>10. resolveRootOf(e, e[i]) = Mangle(point \o root)
  <2>1. e[i].root = Mangle(root)
    BY <1>1 DEF root
  <2>2. resolveRootOf(e, e[i]) = Mangle(point) \o Mangle(root)
    BY <1>6, <1>9, <2>1 DEF resolveRootOf
  <2> QED BY <1>7, <2>2, MangleOfConcat
<1>11. IsPrefix(dir, resolveRootOf(e, e[i]))
  BY <1>8, <1>10, DirSurvives
<1> QED BY <1>11 DEF shouldUnmount

-----------------------------------------------------------------------------
(* parseMountOptions.                                                       *)

LEMMA NatMin ==
  ASSUME NEW S \in SUBSET Nat, S # {}
  PROVE  Min(S) \in S /\ \A y \in S : Min(S) <= y
<1>1. PICK x \in S : \A y \in S : x <= y
  BY NatLeast
<1> QED BY <1>1 DEF Min

(* What lies up to the delimiter, where the n tokens from i on are others. *)
LEMMA UpToIs ==
  ASSUME NEW s \in Text, NEW i \in 1..Len(s) + 1, NEW delimiter, NEW n \in Nat,
         i + n <= Len(s) + 1, \A x \in i..i + n - 1 : s[x] # delimiter
  PROVE  /\ UpTo(s, i, delimiter) \in Text
         /\ n <= Len(UpTo(s, i, delimiter)) /\ Len(UpTo(s, i, delimiter)) <= Len(s) - i + 1
         /\ \A k \in 1..Len(UpTo(s, i, delimiter)) : UpTo(s, i, delimiter)[k] = s[i + k - 1]
         /\ i + n <= Len(s) /\ s[i + n] = delimiter => Len(UpTo(s, i, delimiter)) = n
<1> DEFINE ends == {x \in i..Len(s) : s[x] = delimiter} \cup {Len(s) + 1}
           m == Min(ends)
           r == UpTo(s, i, delimiter)
<1>1. Len(s) \in Nat /\ \A x \in 1..Len(s) : s[x] \in Tokens
  BY TextIs
<1>2. ends \in SUBSET Nat /\ ends # {}
  BY <1>1
<1>3. m \in ends /\ \A y \in ends : m <= y
  <2> HIDE DEF ends
  <2> QED BY <1>2, NatMin
<1>4. m \in Nat /\ i + n <= m /\ m <= Len(s) + 1
  <2>1. Len(s) + 1 \in ends
    OBVIOUS
  <2>2. CASE m = Len(s) + 1
    BY <1>1, <2>2
  <2>3. CASE m \in i..Len(s) /\ s[m] = delimiter
    <3>1. m \notin i..i + n - 1
      BY <2>3
    <3> QED BY <1>1, <2>3, <3>1
  <2> QED BY <1>3, <2>2, <2>3
<1>5. r = SubSeq(s, i, m - 1)
  BY DEF UpTo
<1>6. i + n <= Len(s) /\ s[i + n] = delimiter => i + n \in ends
  BY <1>1
<1> HIDE DEF r, m, ends
<1>7. /\ SubSeq(s, i, m - 1) \in Seq(Tokens)
      /\ Len(SubSeq(s, i, m - 1)) = m - i
      /\ \A k \in 1..m - i : SubSeq(s, i, m - 1)[k] = s[i + k - 1]
  <2> DEFINE l == m - 1
  <2>1. l \in Int /\ i \in Int /\ l - i + 1 = m - i
    BY <1>1, <1>4
  <2>2. \A x \in i..l : s[x] \in Tokens
    BY <1>1, <1>4
  <2> HIDE DEF l
  <2>3. /\ SubSeq(s, i, l) \in Seq(Tokens)
        /\ Len(SubSeq(s, i, l)) = IF i <= l THEN l - i + 1 ELSE 0
        /\ \A k \in 1..l - i + 1 : SubSeq(s, i, l)[k] = s[i + k - 1]
    BY <2>1, <2>2, SubSeqProperties
  <2>4. i <= l + 1
    BY <1>1, <1>4 DEF l
  <2>5. Len(SubSeq(s, i, l)) = l - i + 1
    <3>1. CASE i <= l
      BY <2>3, <3>1
    <3>2. CASE ~(i <= l)
      <4>1. l - i + 1 = 0
        BY <2>1, <2>4, <3>2
      <4> QED BY <2>3, <3>2, <4>1
    <3> QED BY <3>1, <3>2
  <2> QED BY <2>1, <2>3, <2>5 DEF l
<1>8. r \in Text /\ Len(r) = m - i /\ \A k \in 1..Len(r) : r[k] = s[i + k - 1]
  BY <1>5, <1>7 DEF Text
<1>9. n <= Len(r) /\ Len(r) <= Len(s) - i + 1
  BY <1>1, <1>4, <1>8
<1>10. i + n <= Len(s) /\ s[i + n] = delimiter => Len(r) = n
  <2> SUFFICES ASSUME i + n <= Len(s) /\ s[i + n] = delimiter PROVE Len(r) = n
    OBVIOUS
  <2>1. m <= i + n
    BY <1>3, <1>6
  <2> QED BY <1>1, <1>4, <1>8, <2>1
<1> QED BY <1>8, <1>9, <1>10 DEF r

LEMMA UpToIsText ==
  ASSUME NEW s \in Text, NEW i \in 1..Len(s) + 1, NEW delimiter
  PROVE  /\ UpTo(s, i, delimiter) \in Text
         /\ Len(UpTo(s, i, delimiter)) <= Len(s) - i + 1
         /\ \A k \in 1..Len(UpTo(s, i, delimiter)) : UpTo(s, i, delimiter)[k] = s[i + k - 1]
<1> DEFINE n == 0
<1>1. Len(s) \in Nat
  BY TextIs
<1>2. n \in Nat /\ i + n <= Len(s) + 1 /\ \A x \in i..i + n - 1 : s[x] # delimiter
  BY <1>1
<1> HIDE DEF n
<1>3. /\ UpTo(s, i, delimiter) \in Text
      /\ n <= Len(UpTo(s, i, delimiter)) /\ Len(UpTo(s, i, delimiter)) <= Len(s) - i + 1
      /\ \A k \in 1..Len(UpTo(s, i, delimiter)) : UpTo(s, i, delimiter)[k] = s[i + k - 1]
      /\ i + n <= Len(s) /\ s[i + n] = delimiter => Len(UpTo(s, i, delimiter)) = n
  BY <1>2, UpToIs, ZenonT(60)
<1> QED BY <1>3

(* A token's key and value. *)
LEMMA TokenIs ==
  ASSUME NEW token \in Text, NEW key, NEW dir \in mountdir_list,
         Len(dir) + 2 <= Len(token), token[1] = key, key # "=", token[2] = "=",
         \A k \in 1..Len(dir) : token[k + 2] = dir[k]
  PROVE  Key(token) = <<key>> /\ IsPrefix(dir, Value(token))
<1>1. dir \in Text /\ Len(dir) \in Nat /\ Len(token) \in Nat
      /\ \A k \in 1..Len(token) : token[k] \in Tokens
  BY DirIs, TextIs
<1>2. /\ Key(token) \in Text /\ Len(Key(token)) = 1
      /\ \A k \in 1..Len(Key(token)) : Key(token)[k] = token[1 + k - 1]
  <2> DEFINE one == 1
  <2>0. /\ one \in 1..Len(token) + 1 /\ one \in Nat /\ one + one <= Len(token) + 1
        /\ one + one <= Len(token) /\ token[one + one] = "="
        /\ \A x \in one..one + one - 1 : token[x] # "="
    BY <1>1
  <2> HIDE DEF one
  <2>1. /\ UpTo(token, one, "=") \in Text
        /\ \A k \in 1..Len(UpTo(token, one, "=")) : UpTo(token, one, "=")[k] = token[one + k - 1]
        /\ one + one <= Len(token) /\ token[one + one] = "="
             => Len(UpTo(token, one, "=")) = one
    BY <2>0, UpToIs
  <2> QED BY <2>0, <2>1 DEF Key, one
<1>3. Key(token) = <<key>>
  <2>1. Key(token)[1] = key
    BY <1>2
  <2>2. key \in Tokens
    BY <1>1
  <2>3. <<key>> \in Seq(Tokens) /\ Len(<<key>>) = 1 /\ <<key>>[1] = key
    BY <2>2
  <2>4. \A k \in 1..Len(Key(token)) : Key(token)[k] = <<key>>[k]
    BY <1>2, <2>1, <2>3
  <2> QED BY <1>2, <2>3, <2>4, SeqEqual DEF Text
<1>4. Value(token) = SubSeq(token, 3, Len(token))
  BY <1>2 DEF Value
<1>5. /\ SubSeq(token, 3, Len(token)) \in Seq(Tokens)
      /\ Len(SubSeq(token, 3, Len(token))) = Len(token) - 2
      /\ \A k \in 1..Len(token) - 2 : SubSeq(token, 3, Len(token))[k] = token[k + 2]
  <2> DEFINE l == Len(token)
  <2>1. l \in Int /\ 3 \in Int /\ \A x \in 3..l : token[x] \in Tokens
    BY <1>1
  <2>2. 2 <= l
    BY <1>1
  <2> HIDE DEF l
  <2>3. /\ SubSeq(token, 3, l) \in Seq(Tokens)
        /\ Len(SubSeq(token, 3, l)) = IF 3 <= l THEN l - 3 + 1 ELSE 0
        /\ \A k \in 1..l - 3 + 1 : SubSeq(token, 3, l)[k] = token[3 + k - 1]
    BY <2>1, SubSeqProperties
  <2>4. Len(SubSeq(token, 3, l)) = l - 2
    BY <2>1, <2>2, <2>3
  <2>5. \A k \in 1..l - 2 : SubSeq(token, 3, l)[k] = token[k + 2]
    <3>1. ASSUME NEW k \in 1..l - 2 PROVE SubSeq(token, 3, l)[k] = token[k + 2]
      <4>1. k \in 1..l - 3 + 1 /\ 3 + k - 1 = k + 2
        BY <2>1
      <4> QED BY <2>3, <4>1
    <3> QED BY <3>1
  <2> QED BY <2>3, <2>4, <2>5 DEF l
<1>6. Value(token) \in Text /\ Len(dir) <= Len(Value(token))
      /\ \A k \in 1..Len(dir) : dir[k] = Value(token)[k]
  <2>1. \A k \in 1..Len(dir) : k \in 1..Len(token) - 2
    BY <1>1
  <2> QED BY <1>1, <1>4, <1>5, <2>1 DEF Text
<1> QED BY <1>1, <1>3, <1>6, TextIs

OverlayKeys == {"lowerdir", "upperdir", "workdir"}

(* A directory shown once is found in the map under its option's key. *)
LEMMA OptionIsParsed ==
  ASSUME NEW text \in Text, NEW p \in 1..Len(text), NEW key \in OverlayKeys,
         NEW dir \in mountdir_list,
         p \in Starts(text), text[p] = key, p + Len(dir) + 1 <= Len(text), text[p + 1] = "=",
         \A k \in 1..Len(dir) : text[p + 1 + k] = dir[k],
         \A x \in Starts(text) \cap 1..Len(text) : text[x] = key => x = p
  PROVE  /\ <<key>> \in DOMAIN parseMountOptions(text)
         /\ IsPrefix(dir, parseMountOptions(text)[<<key>>])
<1> DEFINE token(x) == UpTo(text, x, Comma)
           entries  == {x \in Starts(text) : token(x) # <<>>}
           d        == Len(dir)
<1>1. /\ dir \in Text /\ d \in Nat /\ Len(text) \in Nat
      /\ \A k \in 1..d : dir[k] # Comma /\ dir[k] # "="
      /\ key # Comma /\ key # "=" /\ p \in Nat
  <2>1. dir \in Text /\ \A k \in 1..d : dir[k] # Comma /\ dir[k] # "="
    BY DirIs
  <2>2. d \in Nat /\ Len(text) \in Nat
    BY <2>1, TextIs
  <2>3. key # Comma /\ key # "="
    BY CharactersDiffer DEF OverlayKeys
  <2> QED BY <2>1, <2>2, <2>3
<1>2. /\ token(p) \in Text /\ d + 2 <= Len(token(p))
      /\ \A k \in 1..Len(token(p)) : token(p)[k] = text[p + k - 1]
  <2> DEFINE n == d + 2
  <2>1. n \in Nat /\ p \in 1..Len(text) + 1 /\ p + n <= Len(text) + 1
    BY <1>1
  <2>2. ASSUME NEW x \in p..p + n - 1 PROVE text[x] # Comma
    <3>1. CASE x = p
      BY <1>1, <3>1
    <3>2. CASE x = p + 1
      BY <3>2, CharactersDiffer
    <3>3. CASE x > p + 1
      <4>1. x - p - 1 \in 1..d /\ p + 1 + (x - p - 1) = x
        BY <1>1, <3>3
      <4> QED BY <1>1, <4>1
    <3> QED BY <1>1, <3>1, <3>2, <3>3
  <2> HIDE DEF n
  <2>3. /\ UpTo(text, p, Comma) \in Text /\ n <= Len(UpTo(text, p, Comma))
        /\ \A k \in 1..Len(UpTo(text, p, Comma)) : UpTo(text, p, Comma)[k] = text[p + k - 1]
    BY <2>1, <2>2, UpToIs
  <2> QED BY <2>3 DEF n
<1>3. Key(token(p)) = <<key>> /\ IsPrefix(dir, Value(token(p)))
  <2>1. Len(token(p)) \in Nat
    BY <1>2, TextIs
  <2>2. token(p)[1] = key /\ token(p)[2] = "="
    <3>1. 1 \in 1..Len(token(p)) /\ 2 \in 1..Len(token(p)) /\ p + 1 - 1 = p /\ p + 2 - 1 = p + 1
      BY <1>1, <1>2, <2>1
    <3>2. token(p)[1] = text[p + 1 - 1] /\ token(p)[2] = text[p + 2 - 1]
      BY <1>2, <3>1
    <3> QED BY <3>1, <3>2
  <2>3. ASSUME NEW k \in 1..d PROVE token(p)[k + 2] = dir[k]
    <3>1. k + 2 \in 1..Len(token(p)) /\ p + (k + 2) - 1 = p + 1 + k
      BY <1>1, <1>2, <2>1
    <3>2. token(p)[k + 2] = text[p + (k + 2) - 1]
      BY <1>2, <3>1
    <3> QED BY <3>1, <3>2
  <2> HIDE DEF token
  <2> QED BY <1>1, <1>2, <2>2, <2>3, TokenIs
<1>4. p \in entries
  <2>1. Len(<<>>) = 0
    OBVIOUS
  <2>2. token(p) # <<>>
    BY <1>1, <1>2, <2>1
  <2> QED BY <2>2
<1>5. ASSUME NEW x \in entries, Key(token(x)) = <<key>> PROVE x = p
  <2>1. x \in 1..Len(text) + 1 /\ x \in Starts(text)
    <3>1. DOMAIN text = 1..Len(text)
      BY TextIs
    <3> QED BY <1>1, <3>1 DEF Starts
  <2>3. /\ UpTo(text, x, Comma) \in Text /\ Len(UpTo(text, x, Comma)) <= Len(text) - x + 1
        /\ \A k \in 1..Len(UpTo(text, x, Comma)) : UpTo(text, x, Comma)[k] = text[x + k - 1]
    BY <2>1, UpToIsText
  <2>4. Len(token(x)) \in Nat \ {0}
    <3>1. UpTo(text, x, Comma) \in Seq(Tokens) /\ UpTo(text, x, Comma) # <<>>
      BY <2>3 DEF Text
    <3> QED BY <3>1, EmptySeq, LenProperties
  <2>5. x \in 1..Len(text) /\ token(x)[1] = text[x]
    <3>1. 1 \in 1..Len(token(x)) /\ x + 1 - 1 = x /\ x \in 1..Len(text)
      BY <1>1, <2>1, <2>3, <2>4
    <3> QED BY <2>3, <3>1
  <2>6. token(x)[1] = key
    <3> DEFINE t == token(x)
               one == 1
    <3>1. t \in Text /\ one \in 1..Len(t) + 1
      BY <2>3, <2>4
    <3> HIDE DEF t
    <3>2. UpTo(t, one, "=") = <<key>>
      BY <1>5 DEF Key, t, one
    <3>3. \A k \in 1..Len(UpTo(t, one, "=")) : UpTo(t, one, "=")[k] = t[one + k - 1]
      <4> HIDE DEF one
      <4> QED BY <3>1, UpToIsText
    <3>4. Len(<<key>>) = 1 /\ <<key>>[1] = key
      OBVIOUS
    <3>5. <<key>>[1] = t[one + 1 - 1]
      BY <3>2, <3>3, <3>4
    <3> QED BY <3>4, <3>5 DEF t, one
  <2> QED BY <2>1, <2>5, <2>6
<1>6. {x \in entries : Key(token(x)) = <<key>>} = {p}
  BY <1>3, <1>4, <1>5
<1>7. Max({p}) = p
  BY <1>1 DEF Max
<1>8. parseMountOptions(text) =
        [k \in {Key(token(x)) : x \in entries} |->
           Value(token(Max({x \in entries : Key(token(x)) = k})))]
  BY DEF parseMountOptions
<1> HIDE DEF token, entries
<1>9. <<key>> \in {Key(token(x)) : x \in entries}
  BY <1>3, <1>4
<1>10. parseMountOptions(text)[<<key>>] = Value(token(p))
  <2> DEFINE found(k) == {x \in entries : Key(token(x)) = k}
  <2>1. found(<<key>>) = {p}
    BY <1>6
  <2> HIDE DEF found
  <2>2. parseMountOptions(text)[<<key>>] = Value(token(Max(found(<<key>>))))
    BY <1>8, <1>9 DEF found
  <2>3. Max(found(<<key>>)) = p
    BY <1>7, <2>1
  <2> QED BY <2>2, <2>3
<1>11. <<key>> \in DOMAIN parseMountOptions(text)
  BY <1>8, <1>9
<1> QED BY <1>3, <1>10, <1>11

(* The kernel's escapes move no option. *)
LEMMA MangledStarts ==
  ASSUME NEW s \in Text
  PROVE  Starts(Mangle(s)) = Starts(s)
<1>1. DOMAIN s = 1..Len(s) /\ DOMAIN Mangle(s) = 1..Len(s)
  <2>1. Mangle(s) \in Text /\ Len(Mangle(s)) = Len(s)
    BY MangleIs
  <2> QED BY <2>1, TextIs
<1>2. \A i \in 1..Len(s) : Mangle(s)[i] = Comma <=> s[i] = Comma
  BY MangleIs, CharactersDiffer
<1> QED BY <1>1, <1>2 DEF Starts

LEMMA OverlayRecognised ==
  ASSUME NEW t, NEW e, Reading(t, e), NEW i \in DOMAIN e, t[i].type = "overlay",
         NEW p \in DOMAIN t[i].super, NEW dir \in mountdir_list,
         t[i].super[p] \in OverlayKeys, p = 1 \/ t[i].super[p - 1] = Comma,
         IsPrefix(<<"=">> \o dir, SubSeq(t[i].super, p + 1, Len(t[i].super)))
  PROVE  shouldUnmount(e, e[i])
<1> DEFINE s    == t[i].super
           key  == s[p]
           text == Mangle(s)
           rest == SubSeq(s, p + 1, Len(s))
           d    == Len(dir)
<1>1. /\ e[i] = Shown(t[i]) /\ t[i] \in MountOf /\ s \in Text /\ ShownOnce(s)
      /\ e[i].type = "overlay" /\ e[i].super = parseMountOptions(text)
  <2>1. e[i] = Shown(t[i]) /\ t[i] \in MountOf /\ ShownOnce(t[i].super)
    BY DEF Reading, Namespace
  <2> QED BY <2>1, ShownIs
<1>2. /\ Len(s) \in Nat /\ DOMAIN s = 1..Len(s) /\ \A x \in 1..Len(s) : s[x] \in Tokens
      /\ dir \in Text /\ d \in Nat /\ \A k \in 1..d : dir[k] # Space
      /\ p \in 1..Len(s)
  BY <1>1, TextIs, DirIs
<1>3. /\ text \in Text /\ Len(text) = Len(s)
      /\ \A x \in 1..Len(s) : text[x] = IF s[x] = Space THEN EscapedSpace ELSE s[x]
      /\ Starts(text) = Starts(s)
  BY <1>1, MangleIs, MangledStarts
<1>4. p \in Starts(s)
  <2>1. CASE p = 1
    BY <2>1 DEF Starts
  <2>2. CASE p # 1
    <3>1. p - 1 \in DOMAIN s /\ s[p - 1] = Comma /\ p = (p - 1) + 1
      BY <1>2, <2>2
    <3> QED BY <3>1 DEF Starts
  <2> QED BY <2>1, <2>2
<1> HIDE DEF s, text
<1>5. /\ rest \in Text /\ Len(rest) = Len(s) - p
      /\ \A k \in 1..Len(s) - p : rest[k] = s[p + k]
  <2> DEFINE l == Len(s)
             q == p + 1
  <2>1. l \in Int /\ q \in Int /\ q <= l + 1 /\ \A x \in q..l : s[x] \in Tokens
    BY <1>2
  <2> HIDE DEF l, q
  <2>2. /\ SubSeq(s, q, l) \in Seq(Tokens)
        /\ Len(SubSeq(s, q, l)) = IF q <= l THEN l - q + 1 ELSE 0
        /\ \A k \in 1..l - q + 1 : SubSeq(s, q, l)[k] = s[q + k - 1]
    BY <2>1, SubSeqProperties
  <2>3. Len(SubSeq(s, q, l)) = l - q + 1
    <3>1. CASE q <= l
      BY <2>2, <3>1
    <3>2. CASE ~(q <= l)
      <4>1. l - q + 1 = 0
        BY <2>1, <3>2
      <4> QED BY <2>2, <3>2, <4>1
    <3> QED BY <3>1, <3>2
  <2>4. l - q + 1 = Len(s) - p
    BY <1>2 DEF l, q
  <2>5. \A k \in 1..Len(s) - p : s[q + k - 1] = s[p + k]
    <3>1. \A k \in 1..Len(s) - p : q + k - 1 = p + k
      BY <1>2 DEF q
    <3> QED BY <3>1
  <2> QED BY <2>2, <2>3, <2>4, <2>5 DEF Text, l, q
<1> HIDE DEF rest
<1>6. /\ d + 1 <= Len(s) - p /\ s[p + 1] = "="
      /\ \A k \in 1..d : s[p + 1 + k] = dir[k]
  <2> DEFINE eq == <<"=">>
             ed == eq \o dir
  <2>1. IsPrefix(ed, rest)
    BY DEF rest, s
  <2>2. Len(eq) = 1 /\ eq[1] = "="
    OBVIOUS
  <2> DEFINE B == Tokens \cup {"="}
  <2>3. eq \in Seq(B) /\ dir \in Seq(B) /\ rest \in Seq(B)
    <3>1. dir \in Seq(Tokens) /\ rest \in Seq(Tokens) /\ Tokens \subseteq B
      BY <1>2, <1>5 DEF Text
    <3>2. "=" \in B
      OBVIOUS
    <3> HIDE DEF B
    <3>3. <<"=">> \in Seq(B)
      BY <3>2
    <3> QED BY <3>1, <3>3, SeqMonotonic
  <2> HIDE DEF eq, B
  <2>4. /\ ed \in Seq(B) /\ Len(ed) = 1 + d
        /\ \A k \in 1..1 + d : ed[k] = IF k <= 1 THEN eq[k] ELSE dir[k - 1]
    <3> HIDE DEF d
    <3>1. /\ eq \o dir \in Seq(B) /\ Len(eq \o dir) = Len(eq) + Len(dir)
          /\ \A k \in 1..Len(eq) + Len(dir) :
               (eq \o dir)[k] = IF k <= Len(eq) THEN eq[k] ELSE dir[k - Len(eq)]
      BY <2>3, ConcatProperties
    <3>2. Len(eq) = 1 /\ Len(dir) = d
      BY <2>2 DEF d
    <3> QED BY <3>1, <3>2
  <2> HIDE DEF ed
  <2>5. Len(ed) <= Len(rest) /\ \A k \in 1..Len(ed) : ed[k] = rest[k]
    BY <2>1, <2>3, <2>4, PrefixIs
  <2>6. d + 1 <= Len(s) - p
    BY <1>2, <1>5, <2>4, <2>5
  <2>7. s[p + 1] = "="
    <3>1. 1 \in 1..1 + d /\ 1 \in 1..Len(s) - p
      BY <1>2, <2>6
    <3>2. ed[1] = "=" /\ ed[1] = rest[1] /\ rest[1] = s[p + 1]
      BY <1>5, <2>2, <2>4, <2>5, <3>1
    <3> QED BY <3>2
  <2>8. ASSUME NEW k \in 1..d PROVE s[p + 1 + k] = dir[k]
    <3> DEFINE n == k + 1
    <3>0. d \in Nat /\ Len(s) \in Nat /\ p \in Nat
      BY <1>2
    <3> HIDE DEF d
    <3>1. n \in 1..1 + d /\ n \in 1..Len(s) - p /\ ~(n <= 1)
      BY <2>6, <3>0
    <3>2. n - 1 = k /\ p + n = p + 1 + k
      <4>1. k \in Nat
        BY <3>0
      <4> QED BY <3>0, <4>1, SMTT(20)
    <3> HIDE DEF n
    <3>3. ed[n] = dir[n - 1]
      BY <2>4, <3>1
    <3>4. ed[n] = rest[n]
      BY <2>4, <2>5, <3>1
    <3>5. rest[n] = s[p + n]
      BY <1>5, <3>1
    <3> QED BY <3>2, <3>3, <3>4, <3>5
  <2> QED BY <2>6, <2>7, <2>8
<1>7. /\ p + d + 1 <= Len(s) /\ p + 1 \in 1..Len(s)
      /\ \A k \in 1..d : p + 1 + k \in 1..Len(s)
  <2> DEFINE l == Len(s)
  <2>1. d \in Nat /\ l \in Nat /\ p \in Nat /\ 1 <= p /\ d + 1 <= l - p
    BY <1>2, <1>6
  <2> HIDE DEF d, l
  <2>2. /\ p + d + 1 <= l /\ p + 1 \in 1..l
        /\ \A k \in 1..d : p + 1 + k \in 1..l
    BY <2>1, SMTT(20)
  <2> QED BY <2>2 DEF l
<1>8. key \in OverlayKeys /\ key # Space /\ key # EscapedSpace
  BY CharactersDiffer DEF OverlayKeys, s
<1>9. text[p] = key /\ text[p + 1] = "="
  <2>1. s[p] # Space /\ s[p + 1] # Space
    BY <1>6, <1>8, CharactersDiffer
  <2> QED BY <1>2, <1>3, <1>6, <1>7, <2>1, Zenon
<1>10. ASSUME NEW k \in 1..d PROVE text[p + 1 + k] = dir[k]
  <2>1. s[p + 1 + k] = dir[k] /\ s[p + 1 + k] # Space
    BY <1>2, <1>6
  <2> QED BY <1>3, <1>7, <2>1, Zenon
<1>11. ASSUME NEW x \in Starts(text) \cap 1..Len(text), text[x] = key PROVE x = p
  <2>1. x \in Starts(s) \cap DOMAIN s /\ p \in Starts(s) \cap DOMAIN s
    BY <1>2, <1>3, <1>4
  <2>2. s[x] = key
    <3>1. text[x] = IF s[x] = Space THEN EscapedSpace ELSE s[x]
      BY <1>2, <1>3, <2>1
    <3> QED BY <1>8, <1>11, <3>1, Zenon
  <2> QED BY <1>1, <1>8, <2>1, <2>2 DEF ShownOnce, OverlayKeys
<1> HIDE DEF key
<1>12. /\ <<key>> \in DOMAIN parseMountOptions(text)
       /\ IsPrefix(dir, parseMountOptions(text)[<<key>>])
  BY <1>3, <1>4, <1>2, <1>7, <1>8, <1>9, <1>10, <1>11, OptionIsParsed
<1>13. <<key>> \in {<<"lowerdir">>, <<"upperdir">>, <<"workdir">>}
  BY <1>8 DEF OverlayKeys
<1> QED BY <1>1, <1>12, <1>13 DEF shouldUnmount

-----------------------------------------------------------------------------
(* What a table of mounts keeps when mounts go with all that is on them, and *)
(* when one is put on another.                                               *)
LEMMA DetachKeeps ==
  ASSUME IInv, NEW gone,
         \A n \in gone, k \in Mounts : IsPrefix(n.at, k.at) => k \in gone
  PROVE  /\ Namespace(Without(gone))
         /\ \A i \in DOMAIN Without(gone) : ShownOnce(Without(gone)[i].super)
         /\ Range(Without(gone)) = Mounts \ gone
<1> DEFINE kept == {i \in DOMAIN table : table[i] \notin gone}
           t    == Without(gone)
<1>1. /\ IsFiniteSet(DOMAIN table) /\ DOMAIN table \subseteq Nat
      /\ \A i \in DOMAIN table : table[i] \in MountOf /\ ShownOnce(table[i].super)
      /\ \A i, j \in DOMAIN table : table[i].at = table[j].at => i = j
      /\ \A i \in DOMAIN table : \A l \in 1..Len(table[i].at) :
           \E j \in DOMAIN table : table[j].at = SubSeq(table[i].at, 1, l)
      /\ \A i, j \in DOMAIN table : IsPrefix(table[i].at, table[j].at) =>
           i <= j /\ Above(table[i].point, table[j].point)
  BY DEF IInv, TypeOK, Namespace
<1>2. DOMAIN t = kept /\ \A i \in kept : t[i] = table[i]
  BY DEF Without, Restrict
<1>3. IsFiniteSet(kept) /\ kept \subseteq DOMAIN table
  BY <1>1, FS_Subset
<1>4. ASSUME NEW i \in kept, NEW l \in 1..Len(table[i].at)
      PROVE  \E j \in kept : table[j].at = SubSeq(table[i].at, 1, l)
  <2>1. PICK j \in DOMAIN table : table[j].at = SubSeq(table[i].at, 1, l)
    BY <1>1, <1>3
  <2>2. IsPrefix(table[j].at, table[i].at)
    <3>1. table[i].at \in Seq(Nat)
      BY <1>1, <1>3 DEF MountOf
    <3> QED BY <2>1, <3>1, StartIs
  <2>3. table[i] \in Mounts
    BY <1>3 DEF Mounts, Range
  <2>4. table[j] \notin gone
    BY <2>2, <2>3
  <2> QED BY <2>1, <2>4
<1>5. Mounts = {table[i] : i \in DOMAIN table}
  BY DEF Mounts, Range
<1>6. Range(t) = {table[i] : i \in kept}
  BY <1>2 DEF Range
<1>7. Range(t) = Mounts \ gone
  BY <1>5, <1>6
<1> HIDE DEF kept, t
<1>8. Namespace(t)
  <2>1. \A i \in DOMAIN t : \A l \in 1..Len(t[i].at) :
          \E j \in DOMAIN t : t[j].at = SubSeq(t[i].at, 1, l)
    BY <1>2, <1>4
  <2>2. \A i, j \in DOMAIN t : IsPrefix(t[i].at, t[j].at) =>
          i <= j /\ Above(t[i].point, t[j].point)
    BY <1>1, <1>2, <1>3
  <2>3. /\ \A i \in DOMAIN t : t[i] \in MountOf
        /\ \A i, j \in DOMAIN t : t[i].at = t[j].at => i = j
        /\ DOMAIN t \subseteq Nat
    BY <1>1, <1>2, <1>3
  <2> QED BY <1>2, <1>3, <2>1, <2>2, <2>3 DEF Namespace
<1>9. \A i \in DOMAIN t : ShownOnce(t[i].super)
  BY <1>1, <1>2, <1>3
<1> QED BY <1>7, <1>8, <1>9 DEF t

(* What is detached has nothing left on it. *)
LEMMA DetachedIsClosed ==
  ASSUME IInv, NEW X \in SUBSET Mounts
  PROVE  \A n \in UNION {Detached(m) : m \in X}, k \in Mounts :
           IsPrefix(n.at, k.at) => k \in UNION {Detached(m) : m \in X}
<1> SUFFICES ASSUME NEW m \in X, NEW n \in Detached(m), NEW k \in Mounts, IsPrefix(n.at, k.at)
             PROVE  k \in Detached(m)
  OBVIOUS
<1>1. \A l \in Mounts : l.at \in Seq(Nat)
  BY DEF IInv, TypeOK, Namespace, Mounts, Range, MountOf
<1>2. n \in Mounts /\ m \in Mounts /\ IsPrefix(m.at, n.at)
  BY DEF Detached
<1>3. IsPrefix(m.at, k.at)
  BY <1>1, <1>2, PrefixIsTransitive
<1> QED BY <1>3 DEF Detached

LEMMA MountKeeps ==
  ASSUME IInv, NEW a \in Arrivals, NEW under \in PlacesFor(a),
         \A m \in Mounts : Last(m.at) # Last(a.at)
  PROVE  LET m == [a EXCEPT !.at = under.at \o a.at]
             t == With(m)
         IN  /\ Namespace(t) /\ \A i \in DOMAIN t : ShownOnce(t[i].super)
             /\ Range(t) = Mounts \cup {m} /\ m.point = a.point
<1> DEFINE at  == under.at \o a.at
           m   == [a EXCEPT !.at = at]
           new == Max(DOMAIN table) + 1
           t   == With(m)
<1>1. /\ IsFiniteSet(DOMAIN table) /\ DOMAIN table \in SUBSET Nat
      /\ \A i \in DOMAIN table : table[i] \in MountOf /\ ShownOnce(table[i].super)
      /\ \A i, j \in DOMAIN table : table[i].at = table[j].at => i = j
      /\ \A i \in DOMAIN table : \A l \in 1..Len(table[i].at) :
           \E j \in DOMAIN table : table[j].at = SubSeq(table[i].at, 1, l)
      /\ \A i, j \in DOMAIN table : IsPrefix(table[i].at, table[j].at) =>
           i <= j /\ Above(table[i].point, table[j].point)
  BY DEF IInv, TypeOK, Namespace
<1>2. /\ under \in Mounts /\ Above(under.point, a.point)
      /\ \E w \in DOMAIN table : under = table[w]
  BY DEF PlacesFor, Mounts, Range
<1>3. a \in MountOf /\ Len(a.at) = 1 /\ ShownOnce(a.super)
  BY UnmountAssumption
<1>4. a.at \in Seq(Nat) /\ under.at \in Seq(Nat) /\ under.at # <<>>
  BY <1>1, <1>2, <1>3 DEF MountOf
<1> HIDE DEF at
<1> DEFINE u == under.at
           n == Len(u)
<1>5. /\ at \in Seq(Nat) /\ Len(at) = n + 1 /\ n \in Nat
      /\ at[Len(at)] = a.at[1]
      /\ \A i \in 1..n : at[i] = u[i]
  <2>1. n \in Nat
    BY <1>4, LenProperties
  <2> DEFINE v == a.at
  <2>2. at = u \o v /\ u \in Seq(Nat) /\ v \in Seq(Nat) /\ n = Len(u) /\ Len(v) = 1
    BY <1>3, <1>4 DEF at
  <2> HIDE DEF u, v, n
  <2>3. /\ u \o v \in Seq(Nat) /\ Len(u \o v) = Len(u) + Len(v)
        /\ \A i \in 1..Len(u) + Len(v) :
             (u \o v)[i] = IF i <= Len(u) THEN u[i] ELSE v[i - Len(u)]
    BY <2>2, ConcatProperties
  <2>4. at \in Seq(Nat) /\ Len(at) = n + 1
        /\ \A i \in 1..n + 1 : at[i] = IF i <= n THEN u[i] ELSE v[i - n]
    BY <2>2, <2>3
  <2>5. n + 1 \in 1..n + 1 /\ ~(n + 1 <= n) /\ n + 1 - n = 1
    BY <2>1
  <2>6. at[Len(at)] = v[1]
    <3>1. ASSUME NEW i \in 1..n + 1, i = n + 1 PROVE at[i] = v[1]
      <4>1. ~(i <= n) /\ i - n = 1
        BY <2>1, <3>1
      <4> QED BY <2>4, <4>1
    <3>2. at[n + 1] = v[1]
      BY <2>5, <3>1
    <3> QED BY <2>4, <3>2
  <2>7. \A i \in 1..n : at[i] = u[i]
    BY <2>1, <2>4
  <2> QED BY <2>1, <2>4, <2>6, <2>7 DEF v
<1>6. at # <<>>
  BY <1>5
<1>7. ASSUME NEW l \in 1..n PROVE SubSeq(at, 1, l) = SubSeq(u, 1, l)
  <2>1. n \in Nat /\ l \in 1..Len(at) /\ l \in 1..Len(u)
    BY <1>5
  <2>2. /\ SubSeq(at, 1, l) \in Seq(Nat) /\ Len(SubSeq(at, 1, l)) = l
        /\ \A i \in 1..l : SubSeq(at, 1, l)[i] = at[i]
    BY <1>5, <2>1, StartIs
  <2>3. /\ SubSeq(u, 1, l) \in Seq(Nat) /\ Len(SubSeq(u, 1, l)) = l
        /\ \A i \in 1..l : SubSeq(u, 1, l)[i] = u[i]
    BY <1>4, <2>1, StartIs
  <2>4. \A i \in 1..l : at[i] = u[i]
    BY <1>5, <2>1
  <2> QED BY <2>2, <2>3, <2>4, SeqEqual
<1>8. m \in MountOf /\ m.at = at /\ m.super = a.super /\ m.point = a.point
  BY <1>3, <1>5, <1>6 DEF MountOf
<1>9. \A i \in DOMAIN table : table[i].at # at
  <2> SUFFICES ASSUME NEW i \in DOMAIN table, table[i].at = at PROVE FALSE
    OBVIOUS
  <2>1. Last(at) = Last(a.at)
    BY <1>3, <1>5 DEF Last
  <2>2. table[i] \in Mounts
    BY DEF Mounts, Range
  <2> QED BY <2>1, <2>2
<1>10. new \in Nat /\ \A i \in DOMAIN table : i < new
  <2>1. Max(DOMAIN table) \in DOMAIN table /\ \A y \in DOMAIN table : y <= Max(DOMAIN table)
    BY <1>1, <1>2, MaxIs
  <2> QED BY <1>1, <2>1
<1> HIDE DEF m, new
<1>11. /\ DOMAIN t = DOMAIN table \cup {new}
       /\ t[new] = m /\ \A i \in DOMAIN table : t[i] = table[i]
  BY <1>10 DEF With, new
<1>12. IsFiniteSet(DOMAIN table \cup {new})
  BY <1>1, FS_AddElement
<1> HIDE DEF t
<1>13. \A i, j \in DOMAIN t : t[i].at = t[j].at => i = j
  BY <1>1, <1>8, <1>9, <1>11
<1>14. ASSUME NEW i \in DOMAIN t, NEW l \in 1..Len(t[i].at)
       PROVE  \E j \in DOMAIN t : t[j].at = SubSeq(t[i].at, 1, l)
  <2>1. CASE i = new /\ l = n + 1
    <3>1. at = SubSeq(at, 1, Len(at))
      BY <1>5, SubSeqFull
    <3> QED BY <1>5, <1>8, <1>11, <2>1, <3>1
  <2>2. CASE i = new /\ l # n + 1
    <3>1. l \in 1..n /\ SubSeq(t[i].at, 1, l) = SubSeq(u, 1, l)
      BY <1>5, <1>7, <1>8, <1>11, <2>2
    <3>2. \E j \in DOMAIN table : table[j].at = SubSeq(u, 1, l)
      <4>1. PICK w \in DOMAIN table : under = table[w]
        BY <1>2
      <4>2. l \in 1..Len(table[w].at) /\ u = table[w].at
        BY <3>1, <4>1
      <4> QED BY <1>1, <4>1, <4>2
    <3> QED BY <1>11, <3>1, <3>2
  <2>3. CASE i # new
    BY <1>1, <1>11, <1>14, <2>3
  <2> QED BY <2>1, <2>2, <2>3
<1>15. ASSUME NEW i \in DOMAIN t, NEW j \in DOMAIN t, IsPrefix(t[i].at, t[j].at)
       PROVE  i <= j /\ Above(t[i].point, t[j].point)
  <2>1. CASE i = new /\ j = new
    BY <1>8, <1>10, <1>11, <2>1, AboveItself DEF MountOf
  <2>2. CASE i = new /\ j # new
    <3>1. IsPrefix(at, table[j].at) /\ table[j].at \in Seq(Nat) /\ j \in DOMAIN table
      BY <1>1, <1>8, <1>11, <1>15, <2>2 DEF MountOf
    <3>2. Len(at) \in 1..Len(table[j].at) /\ at = SubSeq(table[j].at, 1, Len(at))
      BY <1>5, <1>6, <3>1, PrefixIsStart
    <3> QED BY <1>1, <1>9, <3>1, <3>2
  <2>3. CASE i # new /\ j = new
    <3>1. i \in DOMAIN table /\ IsPrefix(table[i].at, at)
          /\ table[i].at \in Seq(Nat) /\ table[i].at # <<>>
      BY <1>1, <1>8, <1>11, <1>15, <2>3 DEF MountOf
    <3>2. IsPrefix(table[i].at, u)
      <4> DEFINE r == table[i].at
      <4>1. Len(r) \in 1..Len(at) /\ r = SubSeq(at, 1, Len(r))
        BY <1>5, <3>1, PrefixIsStart
      <4>2. Len(r) # n + 1
        <5>1. at = SubSeq(at, 1, Len(at))
          BY <1>5, SubSeqFull
        <5> QED BY <1>5, <1>9, <3>1, <4>1, <5>1
      <4>3. Len(r) \in 1..n
        BY <1>5, <4>1, <4>2
      <4>4. r = SubSeq(u, 1, Len(r))
        BY <1>7, <4>1, <4>3
      <4> QED BY <1>4, <4>3, <4>4, StartIs
    <3>3. Above(table[i].point, under.point)
      BY <1>1, <1>2, <3>1, <3>2
    <3>4. Above(table[i].point, a.point)
      <4>1. table[i].point \in Path /\ under.point \in Path /\ a.point \in Path
        BY <1>1, <1>2, <1>3, <3>1 DEF MountOf
      <4>2. Above(under.point, a.point)
        BY <1>2
      <4> QED BY <3>3, <4>1, <4>2, AboveIsTransitive, Zenon
    <3>5. i < new /\ i \in Nat
      BY <1>1, <1>10, <3>1
    <3> QED BY <1>8, <1>10, <1>11, <2>3, <3>4, <3>5
  <2>4. CASE i # new /\ j # new
    BY <1>1, <1>11, <1>15, <2>4
  <2> QED BY <2>1, <2>2, <2>3, <2>4
<1>16. Namespace(t)
  <2>1. \A i \in DOMAIN t : t[i] \in MountOf
    BY <1>1, <1>8, <1>11
  <2>2. DOMAIN t \subseteq Nat
    BY <1>1, <1>10, <1>11
  <2> QED BY <1>11, <1>12, <1>13, <1>14, <1>15, <2>1, <2>2 DEF Namespace
<1>17. Range(t) = Mounts \cup {m}
  BY <1>11 DEF Range, Mounts
<1>18. \A i \in DOMAIN t : ShownOnce(t[i].super)
  BY <1>1, <1>3, <1>8, <1>11
<1> QED BY <1>8, <1>16, <1>17, <1>18 DEF t, m, at

-----------------------------------------------------------------------------
(* The inductive invariant.                                                 *)

LEMMA InitIInv ==
  Init => IInv
<1> SUFFICES ASSUME Init PROVE IInv
  OBVIOUS
<1>1. Namespace(table) /\ \A i \in DOMAIN table : ShownOnce(table[i].super)
  BY UnmountAssumption DEF Init
<1>2. DOMAIN <<>> = {}
  OBVIOUS
<1>3. \A u \in Unmounters : infos[u] = <<>> /\ taken[u] = <<>> /\ it[u] = {}
  BY DEF Init
<1>4. IsFiniteSet({})
  BY FS_EmptySet
<1>5. \A u \in Unmounters : Reading(taken[u], infos[u])
  BY <1>2, <1>3, <1>4 DEF Reading, Namespace
<1>6. TypeOK
  BY <1>1, <1>2, <1>3, UnmountAssumption DEF Init, TypeOK
<1> QED BY <1>1, <1>5, <1>6 DEF IInv, Init

LEMMA ParseKeeps ==
  ASSUME IInv, NEW u \in Unmounters, Parse(u)
  PROVE  IInv'
<1>1. PICK read \in {table, <<>>} :
        /\ infos' = [infos EXCEPT ![u] = parseSelfMountinfo(read)]
        /\ taken' = [taken EXCEPT ![u] = table]
        /\ it' = [it EXCEPT ![u] = FromRBegin(infos'[u])]
  BY DEF Parse
<1>2. Reading(table, parseSelfMountinfo(read))
  BY ParseIs
<1>3. /\ DOMAIN infos = Unmounters /\ DOMAIN taken = Unmounters /\ DOMAIN it = Unmounters
      /\ pc \in [Unmounters -> {"before", "loop", "done", "killed"}]
      /\ pc' = [pc EXCEPT ![u] = "loop"] /\ table' = table /\ events' = events
  BY DEF IInv, TypeOK, Parse
<1>4. /\ infos'[u] = parseSelfMountinfo(read) /\ taken'[u] = table
      /\ it'[u] = DOMAIN infos'[u] /\ pc'[u] = "loop"
  BY <1>1, <1>3 DEF FromRBegin
<1>5. \A w \in Unmounters \ {u} :
        infos'[w] = infos[w] /\ taken'[w] = taken[w] /\ it'[w] = it[w] /\ pc'[w] = pc[w]
  BY <1>1, <1>3
<1>6. DOMAIN infos' = Unmounters /\ DOMAIN taken' = Unmounters /\ DOMAIN it' = Unmounters
  BY <1>1, <1>3
<1>7. ASSUME NEW w \in Unmounters
      PROVE  /\ Reading(taken'[w], infos'[w])
             /\ DOMAIN infos'[w] \subseteq DOMAIN taken'[w] /\ it'[w] \subseteq DOMAIN infos'[w]
             /\ pc'[w] = "done" => it'[w] = {}
  <2>1. CASE w = u
    BY <1>2, <1>4, <2>1 DEF Reading
  <2>2. CASE w # u
    BY <1>5, <2>2 DEF IInv, TypeOK
  <2> QED BY <2>1, <2>2
<1>8. pc' \in [Unmounters -> {"before", "loop", "done", "killed"}]
  BY <1>3
<1>9. TypeOK'
  BY <1>3, <1>7, <1>8 DEF IInv, TypeOK, Namespace
<1> QED BY <1>3, <1>6, <1>7, <1>9 DEF IInv, Reading, ShownOnce, Starts

LEMMA StepKeeps ==
  ASSUME IInv, NEW u \in Unmounters, Step(u)
  PROVE  IInv'
<1> DEFINE e    == infos[u][EntryAt(u)]
           X    == IF shouldUnmount(infos[u], e) THEN MountAt(e.point) ELSE {}
           gone == UNION {Detached(m) : m \in X}
<1>1. /\ table' = Without(gone)
      /\ it' = [it EXCEPT ![u] = @ \ {EntryAt(u)}]
      /\ UNCHANGED <<infos, taken, pc, events>> /\ pc[u] = "loop"
  BY DEF Step
<1>2. X \in SUBSET Mounts
  BY DEF MountAt
<1>3. \A n \in gone, k \in Mounts : IsPrefix(n.at, k.at) => k \in gone
  <2> HIDE DEF X
  <2> QED BY <1>2, DetachedIsClosed
<1> HIDE DEF gone, X, e
<1>4. /\ Namespace(Without(gone))
      /\ \A i \in DOMAIN Without(gone) : ShownOnce(Without(gone)[i].super)
  BY <1>3, DetachKeeps
<1>5. ASSUME NEW w \in Unmounters
      PROVE  it'[w] \subseteq it[w]
  BY <1>1 DEF IInv
<1>6. Namespace(table)' /\ \A i \in DOMAIN table' : ShownOnce(table'[i].super)
  BY <1>1, <1>4 DEF Namespace
<1>7. TypeOK'
  BY <1>1, <1>5, <1>6 DEF IInv, TypeOK
<1> QED BY <1>1, <1>6, <1>7 DEF IInv, Reading, ShownOnce, Starts

LEMMA ReturnKeeps ==
  ASSUME IInv, NEW u \in Unmounters, Return(u) \/ Killed(u)
  PROVE  IInv'
<1>1. /\ UNCHANGED <<table, infos, taken, it, events>>
      /\ \A w \in Unmounters : pc'[w] = "done" => it[w] = {}
      /\ pc' \in [Unmounters -> {"before", "loop", "done", "killed"}]
  BY DEF Return, Killed, IInv, TypeOK
<1>2. TypeOK'
  BY <1>1 DEF IInv, TypeOK, Namespace
<1> QED BY <1>1, <1>2 DEF IInv, Reading, ShownOnce, Starts

LEMMA PropagatedMountKeeps ==
  ASSUME IInv, PropagatedMount
  PROVE  IInv'
<1>1. PICK a \in Arrivals : \E under \in PlacesFor(a) :
        /\ \A m \in Mounts : Last(m.at) # Last(a.at)
        /\ table' = With([a EXCEPT !.at = under.at \o a.at])
  BY Zenon DEF PropagatedMount
<1>3. PICK under \in PlacesFor(a) :
        /\ \A m \in Mounts : Last(m.at) # Last(a.at)
        /\ table' = With([a EXCEPT !.at = under.at \o a.at])
  BY <1>1, Zenon
<1>2. events < MaxEvents /\ events' = events + 1 /\ UNCHANGED <<infos, taken, it, pc>>
  BY DEF PropagatedMount
<1>4. Namespace(table)' /\ \A i \in DOMAIN table' : ShownOnce(table'[i].super)
  <2> DEFINE t == With([a EXCEPT !.at = under.at \o a.at])
  <2>1. Namespace(t) /\ \A i \in DOMAIN t : ShownOnce(t[i].super)
    BY <1>3, MountKeeps
  <2>2. table' = t
    BY <1>3
  <2> HIDE DEF t
  <2> QED BY <2>1, <2>2 DEF Namespace
<1>5. events' \in 0..MaxEvents
  BY <1>2, UnmountAssumption DEF IInv, TypeOK
<1>6. TypeOK'
  BY <1>2, <1>4, <1>5 DEF IInv, TypeOK
<1> QED BY <1>2, <1>4, <1>6 DEF IInv, Reading, ShownOnce, Starts

LEMMA PropagatedUmountKeeps ==
  ASSUME IInv, PropagatedUmount
  PROVE  IInv'
<1>1. PICK m \in Mounts : table' = Without(Detached(m))
  BY DEF PropagatedUmount
<1>2. events < MaxEvents /\ events' = events + 1 /\ UNCHANGED <<infos, taken, it, pc>>
  BY DEF PropagatedUmount
<1> DEFINE gone == Detached(m)
<1>3. \A n \in gone, k \in Mounts : IsPrefix(n.at, k.at) => k \in gone
  <2>1. {m} \in SUBSET Mounts /\ gone = UNION {Detached(x) : x \in {m}}
    OBVIOUS
  <2> HIDE DEF gone
  <2> QED BY <2>1, DetachedIsClosed
<1> HIDE DEF gone
<1>4. /\ Namespace(Without(gone))
      /\ \A i \in DOMAIN Without(gone) : ShownOnce(Without(gone)[i].super)
  BY <1>3, DetachKeeps
<1>5. Namespace(table)' /\ \A i \in DOMAIN table' : ShownOnce(table'[i].super)
  BY <1>1, <1>4 DEF Namespace, gone
<1>6. events' \in 0..MaxEvents
  BY <1>2, UnmountAssumption DEF IInv, TypeOK
<1>7. TypeOK'
  BY <1>2, <1>5, <1>6 DEF IInv, TypeOK
<1> QED BY <1>2, <1>5, <1>7 DEF IInv, Reading, ShownOnce, Starts

(* Whoever unmounts, is killed or has mounts propagated to it: the table      *)
(* stays a table of mounts, each on another, and what doUnmount works with is *)
(* what the parser made of the table at one moment.                           *)
THEOREM UnmountInductive == Spec => []IInv
<1>1. Init => IInv
  BY InitIInv
<1>2. IInv /\ [Next]_vars => IInv'
  <2> SUFFICES ASSUME IInv, [Next]_vars PROVE IInv'
    OBVIOUS
  <2>1. ASSUME NEW u \in Unmounters, Parse(u) PROVE IInv'
    BY <2>1, ParseKeeps
  <2>2. ASSUME NEW u \in Unmounters, Step(u) PROVE IInv'
    BY <2>2, StepKeeps
  <2>3. ASSUME NEW u \in Unmounters, Return(u) \/ Killed(u) PROVE IInv'
    BY <2>3, ReturnKeeps
  <2>4. CASE PropagatedMount
    BY <2>4, PropagatedMountKeeps
  <2>5. CASE PropagatedUmount
    BY <2>5, PropagatedUmountKeeps
  <2>6. CASE Terminated \/ UNCHANGED vars
    <3>1. UNCHANGED vars
      BY <2>6 DEF Terminated
    <3>2. TypeOK'
      BY <3>1 DEF vars, IInv, TypeOK, Namespace
    <3> QED BY <3>1, <3>2 DEF vars, IInv, Reading, ShownOnce, Starts
  <2> QED BY <2>1, <2>2, <2>3, <2>4, <2>5, <2>6 DEF Next
<1> QED BY <1>1, <1>2, PTL DEF Spec

-----------------------------------------------------------------------------
(* The walk from rbegin() to rend(), over what was read and what is there.  *)

(* The flagged entries that the iterator has passed. *)
Processed(u) == FlaggedAt(u) \ it[u]

(* Why umount2 may not have found f by the path that was read. *)
Unreached(u, f) ==
  \/ Mangle(f.point) # f.point
  \/ Disturbed(u, f.point)
  \/ Covered(u, f.point)

(* The iterator takes the entries from the last to the first. *)
OrderInv(u) == \A i \in it[u], k \in DOMAIN infos[u] : k < i => k \in it[u]

(* Where nobody else was at work the table holds what was read without what  *)
(* u has detached.                                                           *)
AccountInv(u) ==
  pc[u] = "loop" =>
    /\ \A m \in Mounts : m \in Range(taken[u]) \/ m.point \in disturbed[u]
    /\ \A m \in Range(taken[u]) : m \in Mounts \/ m \in hit[u] \/ m.point \in disturbed[u]

(* What u has detached was on a mount whose turn had come. *)
HitInv(u) ==
  \A m \in hit[u] :
    \/ \E k \in Processed(u) : IsPrefix(taken[u][k].at, m.at)
    \/ Disturbed(u, m.point)
    \/ Covered(u, m.point)

(* What is left though its turn has come could not be found. *)
GoneInv(u) ==
  pc[u] = "loop" =>
    \A k \in Processed(u) : taken[u][k] \in Mounts => Unreached(u, taken[u][k])

WalkInv(u) ==
  /\ hit[u] \subseteq MountOf /\ disturbed[u] \subseteq Path
  /\ pc[u] = "before" => hit[u] = {}
  /\ OrderInv(u)
  /\ AccountInv(u)
  /\ HitInv(u)
  /\ GoneInv(u)

WInv ==
  /\ DOMAIN disturbed = Unmounters /\ DOMAIN hit = Unmounters
  /\ \A u \in Unmounters : WalkInv(u)

LEMMA TablesAre ==
  ASSUME IInv, NEW u \in Unmounters
  PROVE  /\ Mounts \subseteq MountOf /\ Range(taken[u]) \subseteq MountOf
         /\ Namespace(table) /\ Namespace(taken[u])
         /\ FlaggedAt(u) \subseteq DOMAIN infos[u] /\ DOMAIN infos[u] \subseteq DOMAIN taken[u]
         /\ \A i \in DOMAIN infos[u] : infos[u][i].point = Mangle(taken[u][i].point)
<1>1. Namespace(table) /\ Reading(taken[u], infos[u])
  BY DEF IInv, TypeOK
<1>2. /\ \A i \in DOMAIN table : table[i] \in MountOf
      /\ Namespace(taken[u]) /\ \A i \in DOMAIN taken[u] : taken[u][i] \in MountOf
      /\ DOMAIN infos[u] \subseteq DOMAIN taken[u]
      /\ \A i \in DOMAIN infos[u] : infos[u][i] = Shown(taken[u][i])
  BY <1>1 DEF Reading, Namespace
<1>3. \A i \in DOMAIN infos[u] : infos[u][i].point = Mangle(taken[u][i].point)
  BY <1>2, ShownIs
<1>4. Mounts \subseteq MountOf /\ Range(taken[u]) \subseteq MountOf
  BY <1>2 DEF Mounts, Range
<1> QED BY <1>1, <1>2, <1>3, <1>4 DEF FlaggedAt

(* What holds of a path holds below it. *)
LEMMA HoldsBelow ==
  ASSUME IInv, NEW u \in Unmounters, disturbed[u] \subseteq Path,
         NEW a \in Path, NEW b \in Path, Above(a, b)
  PROVE  /\ Disturbed(u, a) => Disturbed(u, b)
         /\ Covered(u, a) => Covered(u, b)
<1>1. \A p \in Path : Above(p, a) => Above(p, b)
  BY AboveIsTransitive
<1>2. \A j \in FlaggedAt(u) : taken[u][j].point \in Path
  BY TablesAre DEF Namespace, MountOf
<1> QED BY <1>1, <1>2 DEF Disturbed, Covered

(* A mount that hides the entry whose turn it is was there to hide it from   *)
(* the beginning, or its own turn has been.                                  *)
LEMMA HiddenAtItsTurn ==
  ASSUME IInv, NEW u \in Unmounters, NEW j \in FlaggedAt(u), \A y \in it[u] : y <= j,
         NEW c \in Range(taken[u]), Shadows(Range(taken[u]), c, taken[u][j])
  PROVE  \/ Covered(u, taken[u][j].point)
         \/ \E k \in Processed(u) : taken[u][k] = c
<1>1. PICK i \in DOMAIN taken[u] : taken[u][i] = c
  BY DEF Range
<1>2. /\ j \in DOMAIN taken[u] /\ DOMAIN taken[u] \subseteq Nat
      /\ taken[u][j].point \in Path /\ taken[u][j].at \in Seq(Nat)
  BY TablesAre DEF Namespace, MountOf
<1>3. CASE i \in FlaggedAt(u) => i < j
  <2>1. Above(taken[u][j].point, taken[u][j].point)
    BY <1>2, AboveItself
  <2> QED BY <1>1, <1>3, <2>1 DEF Covered
<1>4. CASE i \in FlaggedAt(u) /\ ~(i < j)
  <2>1. i # j
    <3>1. ASSUME i = j PROVE FALSE
      <4>1. ~IsPrefix(taken[u][j].at, taken[u][j].at)
        BY <1>1, <3>1 DEF Shadows
      <4>2. IsPrefix(taken[u][j].at, taken[u][j].at)
        BY <1>2, PrefixIs, LenProperties
      <4> QED BY <4>1, <4>2
    <3> QED BY <3>1
  <2>2. ~(i <= j)
    BY <1>1, <1>2, <1>4, <2>1
  <2> QED BY <1>1, <1>4, <2>2 DEF Processed
<1> QED BY <1>3, <1>4

(* What hides a mount now has hidden it when u read the table. *)
LEMMA HiddenBefore ==
  ASSUME IInv, NEW u \in Unmounters, AccountInv(u), pc[u] = "loop", disturbed[u] \subseteq Path,
         NEW f \in Mounts, f \in Range(taken[u]), ~Disturbed(u, f.point),
         NEW c \in Mounts, Shadows(Mounts, c, f)
  PROVE  c \in Range(taken[u]) /\ Shadows(Range(taken[u]), c, f)
<1>1. /\ Mounts \subseteq MountOf /\ Range(taken[u]) \subseteq MountOf
      /\ Namespace(table) /\ Namespace(taken[u])
  BY TablesAre
<1>2. \A m \in Mounts : Above(m.point, f.point) => m \in Range(taken[u])
  BY DEF AccountInv, Disturbed
<1>3. c \in Range(taken[u])
  BY <1>2 DEF Shadows
<1>4. ASSUME NEW n \in Range(taken[u]), IsPrefix(n.at, f.at), Len(n.at) = Len(c.at)
      PROVE  Above(c.point, n.point)
  <2>1. n.at \in Seq(Nat) /\ n.at # <<>> /\ f.at \in Seq(Nat)
    BY <1>1 DEF MountOf
  <2>2. Len(n.at) \in 1..Len(f.at) /\ n.at = SubSeq(f.at, 1, Len(n.at))
    BY <1>4, <2>1, PrefixIsStart
  <2>3. PICK i \in DOMAIN table : table[i] = f
    BY DEF Mounts, Range
  <2>4. PICK k \in DOMAIN table : table[k].at = n.at
    <3>1. \A j \in DOMAIN table : \A l \in 1..Len(table[j].at) :
            \E k \in DOMAIN table : table[k].at = SubSeq(table[j].at, 1, l)
      BY <1>1 DEF Namespace
    <3>2. \A l \in 1..Len(f.at) : \E k \in DOMAIN table : table[k].at = SubSeq(f.at, 1, l)
      BY <2>3, <3>1
    <3> QED BY <2>2, <3>2
  <2>5. Above(table[k].point, f.point)
    BY <1>1, <1>4, <2>3, <2>4 DEF Namespace
  <2>6. table[k] \in Mounts
    BY DEF Mounts, Range
  <2>7. table[k] \in Range(taken[u])
    BY <1>2, <2>5, <2>6
  <2>8. table[k] = n
    BY <1>1, <2>4, <2>7 DEF Namespace, Range
  <2> QED BY <1>4, <2>6, <2>8 DEF Shadows
<1> QED BY <1>3, <1>4 DEF Shadows

(* One pass of the loop: what is detached, ...                               *)
LEMMA StepHits ==
  ASSUME IInv, NEW u \in Unmounters, WalkInv(u), pc[u] = "loop",
         NEW j \in FlaggedAt(u), j \in it[u], \A y \in it[u] : y <= j,
         NEW g \in MountAt(infos[u][j].point), NEW m \in Detached(g)
  PROVE  \/ \E k \in Processed(u) \cup {j} : IsPrefix(taken[u][k].at, m.at)
         \/ Disturbed(u, m.point)
         \/ Covered(u, m.point)
<1> DEFINE f == taken[u][j]
<1>1. /\ Mounts \subseteq MountOf /\ Range(taken[u]) \subseteq MountOf
      /\ Namespace(table) /\ Namespace(taken[u])
      /\ j \in DOMAIN taken[u] /\ FlaggedAt(u) \subseteq DOMAIN infos[u]
      /\ DOMAIN infos[u] \subseteq DOMAIN taken[u]
      /\ infos[u][j].point = Mangle(f.point)
  BY TablesAre
<1>2. f \in Range(taken[u]) /\ f \in MountOf
  BY <1>1 DEF Range
<1>3. /\ g \in Mounts /\ g.point = Mangle(f.point) /\ Visible(g)
      /\ m \in Mounts /\ IsPrefix(g.at, m.at)
  BY <1>1 DEF MountAt, Detached
<1>4. /\ g.at \in Seq(Nat) /\ f.at \in Seq(Nat) /\ m.at \in Seq(Nat)
      /\ g.point \in Path /\ f.point \in Path /\ m.point \in Path
  BY <1>1, <1>2, <1>3 DEF MountOf
<1>5. g.point = f.point
  BY <1>3, <1>4, EscapedPath
<1> HIDE DEF f
<1>6. Above(f.point, m.point)
  <2>1. PICK x \in DOMAIN table, y \in DOMAIN table : table[x] = g /\ table[y] = m
    BY <1>3 DEF Mounts, Range
  <2> QED BY <1>1, <1>3, <1>5, <2>1 DEF Namespace
<1>7. disturbed[u] \subseteq Path /\ AccountInv(u) /\ HitInv(u) /\ OrderInv(u)
  BY DEF WalkInv
<1>8. CASE Disturbed(u, f.point)
  BY <1>4, <1>6, <1>7, <1>8, HoldsBelow
<1>9. CASE Covered(u, f.point)
  BY <1>4, <1>6, <1>7, <1>9, HoldsBelow
<1>10. CASE ~Disturbed(u, f.point) /\ ~Covered(u, f.point) /\ f \in Mounts
  <2>1. CASE IsPrefix(f.at, g.at)
    <3>1. IsPrefix(f.at, m.at)
      BY <1>3, <1>4, <2>1, PrefixIsTransitive
    <3> QED BY <3>1 DEF f
  <2>2. CASE ~IsPrefix(f.at, g.at)
    <3>1. PICK x \in DOMAIN table, y \in DOMAIN table : table[x] = f /\ table[y] = g
      BY <1>3, <1>10 DEF Mounts, Range
    <3>2. \A k \in DOMAIN table : table[k] \in Mounts
      BY DEF Mounts, Range
    <3>3. ~\E k \in DOMAIN table : Shadows(Mounts, table[k], g)
      BY <1>3, <3>2 DEF Visible
    <3>4. PICK c \in Mounts : Shadows(Mounts, c, f) /\ IsPrefix(c.at, g.at)
      <4>1. \/ \E k \in DOMAIN table : Shadows(Range(table), table[k], table[y])
            \/ \E k \in DOMAIN table :
                 Shadows(Range(table), table[k], table[x]) /\ IsPrefix(table[k].at, table[y].at)
        BY <1>1, <1>5, <2>2, <3>1, TwoAtOnePath
      <4> QED BY <3>1, <3>2, <3>3, <4>1 DEF Mounts
    <3>5. c \in Range(taken[u]) /\ Shadows(Range(taken[u]), c, f)
      BY <1>2, <1>7, <1>10, <3>4, HiddenBefore
    <3>6. PICK k \in Processed(u) : taken[u][k] = c
      BY <1>10, <3>5, HiddenAtItsTurn DEF f
    <3>7. IsPrefix(c.at, m.at)
      <4>1. c.at \in Seq(Nat)
        BY <1>1 DEF MountOf
      <4> QED BY <1>3, <1>4, <3>4, <4>1, PrefixIsTransitive
    <3> QED BY <3>6, <3>7
  <2> QED BY <2>1, <2>2
<1>11. CASE ~Disturbed(u, f.point) /\ ~Covered(u, f.point) /\ f \notin Mounts
  <2>1. f.point \notin disturbed[u]
    BY <1>4, <1>11, AboveItself DEF Disturbed
  <2>2. f \in hit[u]
    BY <1>2, <1>7, <1>11, <2>1 DEF AccountInv
  <2>3. PICK k \in Processed(u) : IsPrefix(taken[u][k].at, f.at)
    BY <1>7, <1>11, <2>2 DEF HitInv
  <2>4. k \in DOMAIN infos[u] /\ k \notin it[u] /\ k \in DOMAIN taken[u]
    BY <1>1 DEF Processed
  <2>5. k <= j
    BY <1>1, <2>3, <2>4 DEF Namespace, f
  <2>6. k \in Nat /\ j \in Nat /\ k # j
    BY <1>1, <2>4 DEF Namespace
  <2>7. k < j
    BY <2>5, <2>6
  <2> QED BY <1>7, <2>4, <2>7 DEF OrderInv
<1> QED BY <1>8, <1>9, <1>10, <1>11

(* ... and what is left of what should go.                                   *)
LEMMA StepLeaves ==
  ASSUME IInv, NEW u \in Unmounters, WalkInv(u), pc[u] = "loop",
         NEW j \in FlaggedAt(u), j \in it[u], \A y \in it[u] : y <= j,
         taken[u][j] \in Mounts,
         taken[u][j] \notin UNION {Detached(m) : m \in MountAt(infos[u][j].point)}
  PROVE  Unreached(u, taken[u][j])
<1> DEFINE f == taken[u][j]
<1>1. /\ Mounts \subseteq MountOf /\ Range(taken[u]) \subseteq MountOf
      /\ j \in DOMAIN taken[u] /\ FlaggedAt(u) \subseteq DOMAIN infos[u]
      /\ DOMAIN infos[u] \subseteq DOMAIN taken[u]
      /\ infos[u][j].point = Mangle(f.point)
  BY TablesAre
<1>2. f \in Range(taken[u]) /\ f \in Mounts /\ f.at \in Seq(Nat) /\ f.point \in Path
  BY <1>1 DEF Range, MountOf
<1>3. f \notin UNION {Detached(m) : m \in MountAt(infos[u][j].point)}
  OBVIOUS
<1> HIDE DEF f
<1>4. disturbed[u] \subseteq Path /\ AccountInv(u) /\ GoneInv(u)
  BY DEF WalkInv
<1>5. CASE Mangle(f.point) # f.point \/ Disturbed(u, f.point)
  BY <1>5 DEF Unreached, f
<1>6. CASE Mangle(f.point) = f.point /\ ~Disturbed(u, f.point)
  <2>1. ~Visible(f)
    <3>1. ASSUME Visible(f) PROVE FALSE
      <4>1. f \in MountAt(infos[u][j].point)
        BY <1>1, <1>2, <1>6, <3>1 DEF MountAt
      <4>2. f \in Detached(f)
        <5>1. IsPrefix(f.at, f.at)
          BY <1>2, PrefixIs, LenProperties
        <5> QED BY <1>2, <5>1 DEF Detached
      <4> QED BY <1>3, <4>1, <4>2
    <3> QED BY <3>1
  <2>2. PICK c \in Mounts : Shadows(Mounts, c, f)
    BY <2>1 DEF Visible
  <2>3. c \in Range(taken[u]) /\ Shadows(Range(taken[u]), c, f)
    BY <1>2, <1>4, <1>6, <2>2, HiddenBefore
  <2>4. CASE Covered(u, f.point)
    BY <2>4 DEF Unreached, f
  <2>5. CASE ~Covered(u, f.point)
    <3>1. PICK k \in Processed(u) : taken[u][k] = c
      BY <2>3, <2>5, HiddenAtItsTurn DEF f
    <3>2. Unreached(u, c)
      BY <1>4, <3>1 DEF GoneInv
    <3>3. c.point \in Path /\ Above(c.point, f.point)
      BY <1>1, <2>2 DEF MountOf, Shadows
    <3>4. Mangle(c.point) = c.point
      BY <1>2, <1>6, <3>3, UnescapedAbove
    <3>5. Disturbed(u, f.point) \/ Covered(u, f.point)
      BY <1>2, <1>4, <3>2, <3>3, <3>4, HoldsBelow DEF Unreached
    <3> QED BY <3>5 DEF Unreached, f
  <2> QED BY <2>4, <2>5
<1> QED BY <1>5, <1>6

(* What others do to the table disturbs the places where they do it. *)
LEMMA OthersKeep ==
  ASSUME IInv, NEW w \in Unmounters, WalkInv(w),
         UNCHANGED <<infos[w], taken[w], it[w], hit[w]>>,
         pc'[w] \in {pc[w], "done", "killed"},
         disturbed[w] \subseteq disturbed'[w], disturbed'[w] \subseteq Path,
         pc[w] = "loop" =>
           /\ \A m \in Mounts' : m \in Mounts \/ m.point \in disturbed'[w]
           /\ \A m \in Mounts : m \in Mounts' \/ m.point \in disturbed'[w]
  PROVE  WalkInv(w)'
<1>1. FlaggedAt(w)' = FlaggedAt(w) /\ Processed(w)' = Processed(w)
  BY DEF FlaggedAt, Processed
<1>2. \A p : Covered(w, p) <=> Covered(w, p)'
  BY <1>1 DEF Covered
<1>3. \A p : Disturbed(w, p) => Disturbed(w, p)'
  BY DEF Disturbed
<1>4. /\ (hit[w] \subseteq MountOf)' /\ (disturbed[w] \subseteq Path)'
      /\ (pc[w] = "before" => hit[w] = {})' /\ OrderInv(w)'
  BY DEF WalkInv, OrderInv
<1>5. AccountInv(w)'
  BY DEF WalkInv, AccountInv
<1>6. HitInv(w)'
  <2>1. ASSUME NEW m \in hit[w]
        PROVE  \/ \E k \in Processed(w) : IsPrefix(taken[w][k].at, m.at)
               \/ Disturbed(w, m.point)'
               \/ Covered(w, m.point)'
    BY <1>2, <1>3 DEF WalkInv, HitInv
  <2> QED BY <1>1, <2>1 DEF HitInv, Disturbed, Covered
<1>7. GoneInv(w)'
  <2> SUFFICES ASSUME pc[w] = "loop", NEW k \in Processed(w), taken[w][k] \in Mounts'
               PROVE  \/ Mangle(taken[w][k].point) # taken[w][k].point
                      \/ Disturbed(w, taken[w][k].point)'
                      \/ Covered(w, taken[w][k].point)'
    BY <1>1 DEF GoneInv, Unreached, Disturbed, Covered
  <2>1. CASE taken[w][k] \in Mounts
    <3>1. Unreached(w, taken[w][k])
      BY <2>1 DEF WalkInv, GoneInv
    <3> QED BY <1>2, <1>3, <3>1 DEF Unreached
  <2>2. CASE taken[w][k] \notin Mounts
    <3>1. taken[w][k].point \in disturbed'[w]
      BY <2>2
    <3>2. Above(taken[w][k].point, taken[w][k].point)
      BY <3>1, AboveItself
    <3> QED BY <3>1, <3>2 DEF Disturbed
  <2> QED BY <2>1, <2>2
<1> QED BY <1>4, <1>5, <1>6, <1>7 DEF WalkInv

LEMMA ParseWalks ==
  ASSUME IInv, WInv, NEW u \in Unmounters, Parse(u)
  PROVE  WInv'
<1>1. PICK read \in {table, <<>>} :
        /\ infos' = [infos EXCEPT ![u] = parseSelfMountinfo(read)]
        /\ it' = [it EXCEPT ![u] = FromRBegin(infos'[u])]
  BY Zenon DEF Parse
<1>2. /\ taken' = [taken EXCEPT ![u] = table] /\ pc[u] = "before"
      /\ pc' = [pc EXCEPT ![u] = "loop"] /\ UNCHANGED <<table, disturbed, hit, events>>
  BY DEF Parse
<1>3. /\ DOMAIN infos = Unmounters /\ DOMAIN taken = Unmounters /\ DOMAIN it = Unmounters
      /\ DOMAIN pc = Unmounters
  BY DEF IInv, TypeOK
<1>4. WalkInv(u)'
  <2>1. it'[u] = DOMAIN infos'[u] /\ taken'[u] = table /\ hit'[u] = {}
        /\ table' = table /\ disturbed'[u] = disturbed[u]
    BY <1>1, <1>2, <1>3 DEF FromRBegin, WInv, WalkInv
  <2>2. Processed(u)' = {}
    BY <2>1 DEF Processed, FlaggedAt
  <2>3. AccountInv(u)'
    BY <2>1 DEF AccountInv, Mounts
  <2>4. HitInv(u)' /\ GoneInv(u)' /\ OrderInv(u)'
    BY <2>1, <2>2 DEF HitInv, GoneInv, OrderInv
  <2>5. (hit[u] \subseteq MountOf)' /\ (disturbed[u] \subseteq Path)'
    BY <2>1 DEF WInv, WalkInv
  <2> QED BY <2>1, <2>3, <2>4, <2>5 DEF WalkInv
<1>5. ASSUME NEW w \in Unmounters \ {u} PROVE WalkInv(w)'
  <2>1. /\ UNCHANGED <<infos[w], taken[w], it[w], hit[w], disturbed[w]>>
        /\ pc'[w] = pc[w] /\ Mounts' = Mounts
    BY <1>1, <1>2, <1>3 DEF Mounts
  <2> QED BY <2>1, OthersKeep DEF WInv, WalkInv
<1> QED BY <1>2, <1>4, <1>5 DEF WInv

LEMMA StepWalks ==
  ASSUME IInv, WInv, NEW u \in Unmounters, Step(u)
  PROVE  WInv'
<1> DEFINE j    == EntryAt(u)
           e    == infos[u][j]
           gone == IF shouldUnmount(infos[u], e)
                     THEN UNION {Detached(m) : m \in MountAt(e.point)} ELSE {}
<1>1. /\ pc[u] = "loop" /\ it[u] # {}
      /\ table' = Without(gone)
      /\ hit' = [hit EXCEPT ![u] = @ \cup gone]
      /\ it' = [it EXCEPT ![u] = @ \ {j}]
      /\ Disturb(Unmounters \ {u}, gone)
      /\ UNCHANGED <<infos, taken, pc, events>>
  BY DEF Step
<1>2. /\ it[u] \subseteq DOMAIN infos[u] /\ IsFiniteSet(it[u]) /\ it[u] \in SUBSET Nat
      /\ DOMAIN it = Unmounters
  <2>1. it[u] \subseteq DOMAIN infos[u] /\ DOMAIN it = Unmounters
    BY DEF IInv, TypeOK
  <2>2. IsFiniteSet(DOMAIN taken[u]) /\ DOMAIN taken[u] \subseteq Nat
        /\ DOMAIN infos[u] \subseteq DOMAIN taken[u]
    BY TablesAre DEF Namespace
  <2> QED BY <2>1, <2>2, FS_Subset
<1>3. j \in it[u] /\ \A y \in it[u] : y <= j
  BY <1>1, <1>2, MaxIs DEF EntryAt
<1>4. /\ gone \subseteq Mounts
      /\ \A n \in gone, k \in Mounts : IsPrefix(n.at, k.at) => k \in gone
  <2> DEFINE X == IF shouldUnmount(infos[u], e) THEN MountAt(e.point) ELSE {}
  <2>1. X \in SUBSET Mounts /\ gone = UNION {Detached(m) : m \in X}
    BY DEF MountAt
  <2> HIDE DEF X, gone
  <2>2. gone \subseteq Mounts
    BY <2>1 DEF Detached
  <2> QED BY <2>1, <2>2, DetachedIsClosed
<1>5. gone # {} => j \in FlaggedAt(u)
  BY <1>2, <1>3 DEF FlaggedAt
<1>6. \A m \in gone : \E g \in MountAt(infos[u][j].point) : m \in Detached(g)
  OBVIOUS
<1>7. j \in FlaggedAt(u) => gone = UNION {Detached(m) : m \in MountAt(infos[u][j].point)}
  BY DEF FlaggedAt
<1> HIDE DEF gone, e, j
<1>8. Mounts' = Mounts \ gone
  <2>1. Range(Without(gone)) = Mounts \ gone
    BY <1>4, DetachKeeps
  <2> QED BY <1>1, <2>1 DEF Mounts
<1>9. DOMAIN hit = Unmounters /\ DOMAIN disturbed = Unmounters /\ WalkInv(u)
  BY DEF WInv
<1>10. WalkInv(u)'
  <2>1. /\ UNCHANGED <<infos[u], taken[u], disturbed[u]>> /\ pc'[u] = "loop"
        /\ hit'[u] = hit[u] \cup gone /\ it'[u] = it[u] \ {j}
    BY <1>1, <1>2, <1>9 DEF Disturb
  <2>2. FlaggedAt(u)' = FlaggedAt(u)
    BY <2>1 DEF FlaggedAt
  <2>3. Processed(u)' = Processed(u) \cup ({j} \cap FlaggedAt(u))
    BY <1>3, <2>1, <2>2 DEF Processed
  <2>4. \A p : (Covered(u, p)' <=> Covered(u, p)) /\ (Disturbed(u, p)' <=> Disturbed(u, p))
    BY <2>1, <2>2 DEF Covered, Disturbed
  <2>5. OrderInv(u)'
    <3>1. OrderInv(u)
      BY <1>9 DEF WalkInv
    <3>2. ASSUME NEW i \in it[u] \ {j}, NEW k \in DOMAIN infos[u], k < i
          PROVE  k \in it[u] \ {j}
      <4>1. k \in it[u]
        BY <3>1, <3>2 DEF OrderInv
      <4>2. k # j
        BY <1>2, <1>3, <3>2, <4>1
      <4> QED BY <4>1, <4>2
    <3> QED BY <2>1, <3>2 DEF OrderInv
  <2>6. AccountInv(u)'
    BY <1>1, <1>4, <1>8, <1>9, <2>1 DEF WalkInv, AccountInv
  <2>7. HitInv(u)'
    <3> SUFFICES ASSUME NEW m \in hit[u] \cup gone
                 PROVE  \/ \E k \in Processed(u)' : IsPrefix(taken[u][k].at, m.at)
                        \/ Disturbed(u, m.point)
                        \/ Covered(u, m.point)
      BY <2>1, <2>4 DEF HitInv
    <3>1. CASE m \in hit[u]
      BY <1>9, <2>3, <3>1 DEF WalkInv, HitInv
    <3>2. CASE m \in gone
      <4>1. j \in FlaggedAt(u)
        BY <1>5, <3>2
      <4>2. PICK g \in MountAt(infos[u][j].point) : m \in Detached(g)
        BY <1>6, <3>2
      <4>3. \/ \E k \in Processed(u) \cup {j} : IsPrefix(taken[u][k].at, m.at)
            \/ Disturbed(u, m.point)
            \/ Covered(u, m.point)
        BY <1>1, <1>3, <1>9, <4>1, <4>2, StepHits
      <4> QED BY <2>3, <4>1, <4>3
    <3> QED BY <3>1, <3>2
  <2>8. GoneInv(u)'
    <3> SUFFICES ASSUME NEW k \in Processed(u)', taken[u][k] \in Mounts \ gone
                 PROVE  Unreached(u, taken[u][k])
      BY <1>8, <2>1, <2>4 DEF GoneInv, Unreached
    <3>1. CASE k \in Processed(u)
      BY <1>1, <1>9, <3>1 DEF WalkInv, GoneInv
    <3>2. CASE k = j /\ j \in FlaggedAt(u)
      BY <1>1, <1>3, <1>7, <1>9, <3>2, StepLeaves
    <3> QED BY <2>3, <3>1, <3>2
  <2>9. (hit[u] \subseteq MountOf)' /\ (disturbed[u] \subseteq Path)'
        /\ (pc[u] = "before" => hit[u] = {})'
    <3>1. Mounts \subseteq MountOf
      BY TablesAre
    <3> QED BY <1>4, <1>9, <2>1, <3>1 DEF WalkInv
  <2> QED BY <2>5, <2>6, <2>7, <2>8, <2>9 DEF WalkInv
<1>11. ASSUME NEW w \in Unmounters \ {u} PROVE WalkInv(w)'
  <2>1. WalkInv(w) /\ disturbed[w] \subseteq Path
    BY DEF WInv, WalkInv
  <2>2. UNCHANGED <<infos[w], taken[w], it[w], hit[w]>> /\ pc'[w] = pc[w]
    BY <1>1, <1>2, <1>9
  <2>3. disturbed'[w] = disturbed[w] \cup (IF pc[w] = "loop" THEN Points(gone) ELSE {})
    BY <1>1 DEF Disturb
  <2>4. Points(gone) \subseteq Path /\ \A m \in gone : m.point \in Points(gone)
    BY <1>4, TablesAre DEF Points, MountOf
  <2>5. disturbed[w] \subseteq disturbed'[w] /\ disturbed'[w] \subseteq Path
    BY <2>1, <2>3, <2>4
  <2>6. pc[w] = "loop" =>
          /\ \A m \in Mounts' : m \in Mounts \/ m.point \in disturbed'[w]
          /\ \A m \in Mounts : m \in Mounts' \/ m.point \in disturbed'[w]
    BY <1>8, <2>3, <2>4
  <2> QED BY <2>1, <2>2, <2>5, <2>6, OthersKeep
<1>12. DOMAIN disturbed' = Unmounters /\ DOMAIN hit' = Unmounters
  BY <1>1, <1>9 DEF Disturb
<1> QED BY <1>10, <1>11, <1>12 DEF WInv

LEMMA ReturnWalks ==
  ASSUME IInv, WInv, NEW u \in Unmounters, Return(u) \/ Killed(u)
  PROVE  WInv'
<1>1. /\ UNCHANGED <<table, infos, taken, it, disturbed, hit, events>>
      /\ \A w \in Unmounters : pc'[w] \in {pc[w], "done", "killed"}
  BY DEF Return, Killed, IInv, TypeOK
<1>2. ASSUME NEW w \in Unmounters PROVE WalkInv(w)'
  <2>1. /\ UNCHANGED <<infos[w], taken[w], it[w], hit[w], disturbed[w]>>
        /\ Mounts' = Mounts
    BY <1>1 DEF Mounts
  <2> QED BY <1>1, <2>1, OthersKeep DEF WInv, WalkInv
<1> QED BY <1>1, <1>2 DEF WInv

LEMMA PropagatedWalks ==
  ASSUME IInv, WInv, PropagatedMount \/ PropagatedUmount
  PROVE  WInv'
<1>1. PICK ms \in SUBSET MountOf :
        /\ Disturb(Unmounters, ms)
        /\ \A m \in Mounts' : m \in Mounts \/ m.point \in Points(ms)
        /\ \A m \in Mounts : m \in Mounts' \/ m.point \in Points(ms)
  <2>1. CASE PropagatedMount
    <3>1. PICK a \in Arrivals :
            /\ \E under \in PlacesFor(a) :
                 /\ \A m \in Mounts : Last(m.at) # Last(a.at)
                 /\ table' = With([a EXCEPT !.at = under.at \o a.at])
            /\ Disturb(Unmounters, {a})
      BY <2>1, Zenon DEF PropagatedMount
    <3>2. PICK under \in PlacesFor(a) :
            /\ \A m \in Mounts : Last(m.at) # Last(a.at)
            /\ table' = With([a EXCEPT !.at = under.at \o a.at])
      BY <3>1, Zenon
    <3> DEFINE m == [a EXCEPT !.at = under.at \o a.at]
    <3>3. Range(With(m)) = Mounts \cup {m} /\ m.point = a.point
      BY <3>2, MountKeeps
    <3>4. table' = With(m)
      BY <3>2
    <3> HIDE DEF m
    <3>5. Mounts' = Mounts \cup {m}
      BY <3>3, <3>4 DEF Mounts
    <3>6. {a} \in SUBSET MountOf /\ m.point \in Points({a})
      BY <3>3, UnmountAssumption DEF Points
    <3> QED BY <3>1, <3>5, <3>6
  <2>2. CASE PropagatedUmount
    <3>1. PICK m \in Mounts : table' = Without(Detached(m)) /\ Disturb(Unmounters, Detached(m))
      BY <2>2 DEF PropagatedUmount
    <3> DEFINE gone == Detached(m)
    <3>2. gone \subseteq Mounts /\ \A n \in gone, k \in Mounts : IsPrefix(n.at, k.at) => k \in gone
      <4>1. {m} \in SUBSET Mounts /\ gone = UNION {Detached(x) : x \in {m}}
        OBVIOUS
      <4>2. gone \subseteq Mounts
        BY DEF Detached
      <4> HIDE DEF gone
      <4> QED BY <4>1, <4>2, DetachedIsClosed
    <3>3. table' = Without(gone) /\ Disturb(Unmounters, gone)
      BY <3>1
    <3> HIDE DEF gone
    <3>4. Mounts' = Mounts \ gone
      <4>1. Range(Without(gone)) = Mounts \ gone
        BY <3>2, DetachKeeps
      <4> QED BY <3>3, <4>1 DEF Mounts
    <3>5. gone \in SUBSET MountOf /\ \A n \in gone : n.point \in Points(gone)
      <4>1. Mounts \subseteq MountOf
        BY DEF IInv, TypeOK, Namespace, Mounts, Range
      <4> QED BY <3>2, <4>1 DEF Points
    <3> QED BY <3>3, <3>4, <3>5
  <2> QED BY <2>1, <2>2
<1>2. UNCHANGED <<infos, taken, it, pc, hit>>
  BY DEF PropagatedMount, PropagatedUmount
<1>3. Points(ms) \subseteq Path
  BY DEF Points, MountOf
<1>4. ASSUME NEW w \in Unmounters PROVE WalkInv(w)'
  <2>1. WalkInv(w) /\ disturbed[w] \subseteq Path
    BY DEF WInv, WalkInv
  <2>2. UNCHANGED <<infos[w], taken[w], it[w], hit[w]>> /\ pc'[w] = pc[w]
    BY <1>2
  <2>3. disturbed'[w] = disturbed[w] \cup (IF pc[w] = "loop" THEN Points(ms) ELSE {})
    BY <1>1 DEF Disturb
  <2>4. disturbed[w] \subseteq disturbed'[w] /\ disturbed'[w] \subseteq Path
    BY <1>3, <2>1, <2>3
  <2>5. pc[w] = "loop" =>
          /\ \A m \in Mounts' : m \in Mounts \/ m.point \in disturbed'[w]
          /\ \A m \in Mounts : m \in Mounts' \/ m.point \in disturbed'[w]
    BY <1>1, <2>3
  <2> QED BY <2>1, <2>2, <2>4, <2>5, OthersKeep
<1>5. DOMAIN disturbed' = Unmounters /\ DOMAIN hit' = Unmounters
  BY <1>1, <1>2 DEF Disturb, WInv
<1> QED BY <1>4, <1>5 DEF WInv

(* Whoever else is at work: doUnmount detaches what was read, unless it was   *)
(* hidden or the way to it has changed, and what it leaves it could not find. *)
THEOREM WalkInductive == Spec => [](IInv /\ WInv)
<1>1. Init => WInv
  <2> SUFFICES ASSUME Init, NEW u \in Unmounters PROVE WalkInv(u)
    BY DEF Init, WInv
  <2>1. /\ infos[u] = <<>> /\ it[u] = {} /\ pc[u] = "before"
        /\ hit[u] = {} /\ disturbed[u] = {}
    BY DEF Init
  <2> QED BY <2>1 DEF WalkInv, OrderInv, AccountInv, HitInv, GoneInv
<1>2. IInv /\ WInv /\ [Next]_vars => WInv'
  <2> SUFFICES ASSUME IInv, WInv, [Next]_vars PROVE WInv'
    OBVIOUS
  <2>1. ASSUME NEW u \in Unmounters, Parse(u) PROVE WInv'
    BY <2>1, ParseWalks
  <2>2. ASSUME NEW u \in Unmounters, Step(u) PROVE WInv'
    BY <2>2, StepWalks
  <2>3. ASSUME NEW u \in Unmounters, Return(u) \/ Killed(u) PROVE WInv'
    BY <2>3, ReturnWalks
  <2>4. CASE PropagatedMount \/ PropagatedUmount
    BY <2>4, PropagatedWalks
  <2>5. CASE Terminated \/ UNCHANGED vars
    <3>1. UNCHANGED vars
      BY <2>5 DEF Terminated
    <3>2. ASSUME NEW w \in Unmounters PROVE WalkInv(w)'
      <4>1. /\ UNCHANGED <<infos[w], taken[w], it[w], hit[w], disturbed[w]>>
            /\ pc'[w] = pc[w] /\ Mounts' = Mounts
        BY <3>1 DEF vars, Mounts
      <4> QED BY <4>1, OthersKeep DEF WInv, WalkInv
    <3> QED BY <3>1, <3>2 DEF WInv, vars
  <2> QED BY <2>1, <2>2, <2>3, <2>4, <2>5 DEF Next
<1> QED BY <1>1, <1>2, UnmountInductive, PTL DEF Spec

(* doUnmount takes no mount of the system's own, nor an app's, from its      *)
(* place but with the module's mount it is on, for every table, whatever     *)
(* propagates in and however many processes unmount: but where the path read *)
(* leads to another mount because the way has changed since, or because what *)
(* was read was hidden already.                                              *)
THEOREM BystandersKept == Spec => []BystandersStay
<1>1. IInv /\ WInv => BystandersStay
  <2> SUFFICES ASSUME WInv, NEW u \in Unmounters, NEW m \in hit[u]
               PROVE  \/ \E f \in Flagged(u) : IsPrefix(f.at, m.at)
                      \/ Disturbed(u, m.point)
                      \/ Covered(u, m.point)
    BY DEF BystandersStay
  <2>1. \/ \E k \in Processed(u) : IsPrefix(taken[u][k].at, m.at)
        \/ Disturbed(u, m.point)
        \/ Covered(u, m.point)
    BY DEF WInv, WalkInv, HitInv
  <2>2. \A k \in Processed(u) : taken[u][k] \in Flagged(u)
    BY DEF Processed, Flagged
  <2> QED BY <2>1, <2>2
<1> QED BY <1>1, WalkInductive, PTL

(* At rend() doUnmount has unmounted all it set out to, but for what umount2 *)
(* could not find by the path that was read.                                 *)
THEOREM ModulesGone == Spec => []ModuleMountsGone
<1>1. IInv /\ WInv => ModuleMountsGone
  <2> SUFFICES ASSUME WInv, NEW u \in Unmounters, pc[u] = "loop", it[u] = {},
                      NEW k \in FlaggedAt(u), taken[u][k] \in Mounts
               PROVE  Unreached(u, taken[u][k])
    BY DEF ModuleMountsGone, Flagged, Unreached
  <2>1. k \in Processed(u)
    BY DEF Processed
  <2> QED BY <2>1 DEF WInv, WalkInv, GoneInv
<1> QED BY <1>1, WalkInductive, PTL

(* The type invariant of doUnmount's module: a mount table stays one, the    *)
(* iterator never leaves the vector it runs over, and doUnmount returns only *)
(* when it has come to rend().                                               *)
THEOREM UnmountTyped == Spec => []TypeOK
<1>1. IInv => TypeOK
  BY DEF IInv
<1> QED BY <1>1, UnmountInductive, PTL

(* shouldUnmount with mountinfo_root_resolver: a mount from a directory of   *)
(* mountdir_list is recognised wherever it is mounted and whatever else the  *)
(* table holds, if its device is mounted as a whole in one place only.       *)
THEOREM ModulesRecognised == Spec => []ModuleMountsRecognised
<1>1. IInv => ModuleMountsRecognised
  <2> SUFFICES ASSUME IInv, NEW u \in Unmounters,
                      NEW i \in DOMAIN infos[u], NEW j \in DOMAIN infos[u],
                      NEW dir \in mountdir_list,
                      Above(dir, taken[u][j].point \o taken[u][i].root),
                      {h \in {taken[u][k] : k \in DOMAIN infos[u]} :
                         h.dev = taken[u][i].dev /\ h.root = Root} = {taken[u][j]}
               PROVE  taken[u][i] \in Flagged(u)
    BY DEF ModuleMountsRecognised, Entries
  <2>1. Reading(taken[u], infos[u])
    BY DEF IInv
  <2>2. shouldUnmount(infos[u], infos[u][i])
    BY <2>1, ModuleRecognised
  <2> QED BY <2>2 DEF Flagged, FlaggedAt
<1> QED BY <1>1, UnmountInductive, PTL

(* parseMountOptions and shouldUnmount: an overlay with one of its three     *)
(* directories in mountdir_list is recognised, whatever other options, in    *)
(* whatever order, its text holds.                                           *)
THEOREM OverlaysFound == Spec => []OverlaysRecognised
<1>1. IInv => OverlaysRecognised
  <2> SUFFICES ASSUME IInv, NEW u \in Unmounters, NEW i \in DOMAIN infos[u],
                      taken[u][i].type = "overlay",
                      NEW p \in DOMAIN taken[u][i].super, NEW dir \in mountdir_list,
                      taken[u][i].super[p] \in OverlayKeys,
                      p = 1 \/ taken[u][i].super[p - 1] = Comma,
                      IsPrefix(<<"=">> \o dir,
                               SubSeq(taken[u][i].super, p + 1, Len(taken[u][i].super)))
               PROVE  taken[u][i] \in Flagged(u)
    BY DEF OverlaysRecognised, Entries, OverlayKeys
  <2>1. Reading(taken[u], infos[u])
    BY DEF IInv
  <2>2. shouldUnmount(infos[u], infos[u][i])
    BY <2>1, OverlayRecognised
  <2> QED BY <2>2 DEF Flagged, FlaggedAt
<1> QED BY <1>1, UnmountInductive, PTL
============================================================================
