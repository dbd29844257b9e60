---------------------------- MODULE MrPropProofs ----------------------------
(***************************************************************************)
(* Proofs about StringCopy, MrProp and BootScripts: for any number of       *)
(* children, of properties, of sets, any values and any size of a value.    *)
(***************************************************************************)
EXTENDS BootScripts, SequenceTheorems, WellFoundedInduction, TLAPS

-----------------------------------------------------------------------------
(* Strings in buffers.                                                      *)

(* A nonempty set of naturals has a least element, which is Min's.  (By      *)
(* WFMin: the least-number theorem takes an operator.)                       *)
LEMMA NatMin ==
  ASSUME NEW S \in SUBSET Nat, S # {}
  PROVE  Min(S) \in S /\ \A y \in S : Min(S) <= y
<1> DEFINE R == {ss \in Nat \X Nat : ss[1] < ss[2]}
<1>1. IsWellFoundedOn(R, Nat)
  BY NatLessThanWellFounded DEF OpToRel
<1> HIDE DEF R
<1>2. PICK x \in S : \A y \in S : ~(<<y, x>> \in R)
  BY <1>1, WFMin
<1>3. \A y \in S : x <= y
  <2> SUFFICES ASSUME NEW y \in S, ~(x <= y) PROVE FALSE
    OBVIOUS
  <2>1. <<y, x>> \in Nat \X Nat /\ y < x
    OBVIOUS
  <2>2. <<y, x>> \in R
    BY <2>1 DEF R
  <2> QED BY <1>2, <2>2
<1> QED BY <1>3 DEF Min

(* The string in s has k bytes. *)
EndsAt(s, k) ==
  /\ k \in 0..Len(s)
  /\ \A i \in 1..k : s[i] # NUL
  /\ k < Len(s) => s[k + 1] = NUL

(* strnlen returns the length of the string, the only one that it has. *)
LEMMA StrNLenIs ==
  ASSUME NEW B, NEW s \in Seq(B)
  PROVE  EndsAt(s, StrNLen(s)) /\ \A k : EndsAt(s, k) => k = StrNLen(s)
<1> DEFINE ends == {i \in DOMAIN s : s[i] = NUL}
<1>1. Len(s) \in Nat /\ DOMAIN s = 1..Len(s)
  BY LenProperties
<1>2. CASE ends = {}
  <2>1. StrNLen(s) = Len(s) /\ \A i \in 1..Len(s) : s[i] # NUL
    BY <1>1, <1>2 DEF StrNLen
  <2> QED BY <1>1, <2>1 DEF EndsAt
<1>3. CASE ends # {}
  <2>0. ends \in SUBSET Nat
    BY <1>1
  <2>1. Min(ends) \in ends /\ \A y \in ends : Min(ends) <= y
    <3> HIDE DEF ends
    <3> QED BY <2>0, <1>3, NatMin
  <2>2. StrNLen(s) = Min(ends) - 1
    BY <1>3 DEF StrNLen
  <2>3. Min(ends) \in 1..Len(s) /\ s[Min(ends)] = NUL
    BY <1>1, <2>1
  <2>4. \A i \in 1..Len(s) : i < Min(ends) => s[i] # NUL
    <3> SUFFICES ASSUME NEW i \in 1..Len(s), i < Min(ends), s[i] = NUL PROVE FALSE
      OBVIOUS
    <3>1. i \in ends
      BY <1>1
    <3> HIDE DEF ends
    <3> QED BY <1>1, <2>1, <2>3, <3>1
  <2> HIDE DEF ends
  <2>5. EndsAt(s, StrNLen(s))
    BY <1>1, <2>2, <2>3, <2>4 DEF EndsAt
  <2>6. ASSUME NEW k, EndsAt(s, k) PROVE k = Min(ends) - 1
    <3>1. k \in 0..Len(s)
      BY <2>6 DEF EndsAt
    <3>2. ~(k >= Min(ends))
      BY <1>1, <2>3, <2>6, <3>1 DEF EndsAt
    <3>3. ~(k + 1 < Min(ends))
      BY <1>1, <2>3, <2>4, <2>6, <3>1 DEF EndsAt
    <3> QED BY <1>1, <2>3, <3>1, <3>2, <3>3
  <2> QED BY <2>2, <2>5, <2>6
<1> QED BY <1>2, <1>3

(* A prefix of a sequence. *)
LEMMA PrefixIs ==
  ASSUME NEW B, NEW s \in Seq(B), NEW k \in 0..Len(s)
  PROVE  /\ SubSeq(s, 1, k) \in Seq(B) /\ Len(SubSeq(s, 1, k)) = k
         /\ \A i \in 1..k : SubSeq(s, 1, k)[i] = s[i]
<1>1. Len(s) \in Nat /\ k \in Int
  BY LenProperties
<1>2. \A i \in 1..k : s[i] \in B
  BY <1>1, ElementOfSeq
<1> QED BY <1>1, <1>2, SubSeqProperties

(* The bytes of a string: no NUL among them. *)
Text(B) == {t \in Seq(B) : \A i \in 1..Len(t) : t[i] # NUL}

LEMMA CStringIs ==
  ASSUME NEW B, NEW s \in Seq(B)
  PROVE  /\ CString(s) \in Text(B)
         /\ Len(CString(s)) = StrNLen(s)
         /\ \A i \in 1..StrNLen(s) : CString(s)[i] = s[i]
<1>1. EndsAt(s, StrNLen(s))
  BY StrNLenIs
<1> QED BY <1>1, PrefixIs DEF CString, EndsAt, Text

(* Two buffers with the same bytes up to a NUL hold the same string. *)
LEMMA SameString ==
  ASSUME NEW B, NEW s \in Seq(B), NEW t \in Text(B),
         Len(t) < Len(s), \A i \in 1..Len(t) : s[i] = t[i], s[Len(t) + 1] = NUL
  PROVE  CString(s) = t /\ StrNLen(s) = Len(t)
<1>1. Len(t) \in Nat /\ t \in Seq(B) /\ Len(s) \in Nat
  BY LenProperties DEF Text
<1>2. EndsAt(s, Len(t))
  BY <1>1 DEF EndsAt, Text
<1>3. StrNLen(s) = Len(t)
  BY <1>2, StrNLenIs
<1>4. CString(s) \in Seq(B) /\ Len(CString(s)) = Len(t)
      /\ \A i \in 1..Len(t) : CString(s)[i] = t[i]
  BY <1>3, CStringIs DEF Text
<1> QED BY <1>1, <1>3, <1>4, SeqEqual

(* How far strncat reads. *)
LEMMA ReadsIs ==
  ASSUME NEW B, NEW mem \in Seq(B), NEW n \in Nat
  PROVE  /\ StrNLen(mem) \in Nat
         /\ Reads(mem, n) = IF StrNLen(mem) < n THEN StrNLen(mem) + 1 ELSE n
<1> DEFINE k == StrNLen(mem) + 1
<1>1. StrNLen(mem) \in Nat
  BY StrNLenIs, LenProperties DEF EndsAt
<1>2. {n, k} \in SUBSET Nat
  BY <1>1
<1>3. Min({n, k}) \in {n, k} /\ \A y \in {n, k} : Min({n, k}) <= y
  BY <1>2, NatMin
<1>4. Reads(mem, n) = Min({n, k})
  BY DEF Reads
<1> QED BY <1>1, <1>2, <1>3, <1>4

(* safeStringCopy reads fewer bytes than dest_size. *)
LEMMA ReadsAtMost ==
  ASSUME NEW B, NEW mem \in Seq(B), NEW dest_size \in Nat
  PROVE  SourceRead(mem, dest_size) \in Nat /\ SourceRead(mem, dest_size) <= dest_size
<1>1. CASE dest_size = 0
  BY <1>1 DEF SourceRead
<1>2. CASE dest_size > 0
  <2>1. SourceRead(mem, dest_size) = Reads(mem, dest_size - 1) /\ dest_size - 1 \in Nat
    BY <1>2 DEF SourceRead, CatBound
  <2> QED BY <1>2, <2>1, ReadsIs
<1> QED BY <1>1, <1>2

(* What it appends, if the memory holds what it reads: the string, or the    *)
(* first n bytes of it.                                                      *)
LEMMA AppendedIs ==
  ASSUME NEW B, NEW mem \in Seq(B), NEW n \in Nat, Reads(mem, n) <= Len(mem)
  PROVE  LET kept == IF StrNLen(mem) < n THEN StrNLen(mem) ELSE n
         IN  /\ kept \in 0..Len(mem)
             /\ Appended(mem, n) = SubSeq(mem, 1, kept)
             /\ Appended(mem, n) \in Text(B)
<1> DEFINE kept == IF StrNLen(mem) < n THEN StrNLen(mem) ELSE n
           r    == Reads(mem, n)
           read == SubSeq(mem, 1, r)
<1>1. EndsAt(mem, StrNLen(mem)) /\ Len(mem) \in Nat
  BY StrNLenIs, LenProperties
<1>2. r = (IF StrNLen(mem) < n THEN StrNLen(mem) + 1 ELSE n) /\ r \in 0..Len(mem)
  BY <1>1, ReadsIs
<1>3. kept \in 0..r /\ kept \in 0..Len(mem) /\ kept <= StrNLen(mem)
  BY <1>1, <1>2, ReadsIs
<1>4. kept < r => r = kept + 1 /\ kept = StrNLen(mem)
  BY <1>1, <1>2, ReadsIs
<1> HIDE DEF kept, r
<1>5. read \in Seq(B) /\ Len(read) = r /\ \A i \in 1..r : read[i] = mem[i]
  BY <1>2, PrefixIs
<1>6. EndsAt(read, kept)
  <2> HIDE DEF read
  <2>1. \A i \in 1..kept : read[i] # NUL
    BY <1>1, <1>2, <1>3, <1>5 DEF EndsAt
  <2>2. ASSUME kept < r PROVE read[kept + 1] = NUL
    <3>1. r = kept + 1 /\ kept = StrNLen(mem) /\ kept < Len(mem)
      BY <1>1, <1>2, <1>3, <1>4, <2>2
    <3> QED BY <1>1, <1>2, <1>3, <1>5, <3>1 DEF EndsAt
  <2> QED BY <1>3, <1>5, <2>1, <2>2 DEF EndsAt
<1>7. Appended(mem, n) = SubSeq(read, 1, kept)
  BY <1>5, <1>6, StrNLenIs DEF Appended, CString, r
<1>8. Appended(mem, n) \in Text(B)
  BY <1>5, CStringIs DEF Appended, r
<1>9. SubSeq(read, 1, kept) = SubSeq(mem, 1, kept)
  <2>1. /\ SubSeq(read, 1, kept) \in Seq(B) /\ Len(SubSeq(read, 1, kept)) = kept
        /\ \A i \in 1..kept : SubSeq(read, 1, kept)[i] = read[i]
    BY <1>3, <1>5, PrefixIs
  <2>2. /\ SubSeq(mem, 1, kept) \in Seq(B) /\ Len(SubSeq(mem, 1, kept)) = kept
        /\ \A i \in 1..kept : SubSeq(mem, 1, kept)[i] = mem[i]
    BY <1>3, PrefixIs
  <2>3. \A i \in 1..kept : read[i] = mem[i]
    BY <1>2, <1>3, <1>5
  <2> HIDE DEF read
  <2> QED BY <2>1, <2>2, <2>3, SeqEqual
<1> QED BY <1>3, <1>7, <1>8, <1>9 DEF kept

(* What safeStringCopy does, if the memory holds what it reads: the longest  *)
(* prefix of the string that fits, and a NUL.                                *)
LEMMA SafeCopyIs ==
  ASSUME NEW B, NUL \in B, NEW mem \in Seq(B), NEW dest_size \in Nat, dest_size > 0,
         SourceRead(mem, dest_size) <= Len(mem)
  PROVE  LET kept == IF StrNLen(mem) < dest_size THEN StrNLen(mem) ELSE dest_size - 1
             dest == safeStringCopy(mem, dest_size)
         IN  /\ dest \in Seq(B) /\ Len(dest) = kept + 1
             /\ StrNLen(dest) = kept /\ CString(dest) = SubSeq(mem, 1, kept)
             /\ kept \in 0..Len(mem)
             /\ \A i \in 1..kept : dest[i] # NUL /\ dest[i] = mem[i]
             /\ dest[kept + 1] = NUL
<1> DEFINE kept == IF StrNLen(mem) < dest_size THEN StrNLen(mem) ELSE dest_size - 1
           t    == SubSeq(mem, 1, kept)
           dest == safeStringCopy(mem, dest_size)
<1>1. CatBound(dest_size) = dest_size - 1 /\ dest_size - 1 \in Nat
  BY DEF CatBound
<1>2. Reads(mem, dest_size - 1) <= Len(mem)
  BY <1>1 DEF SourceRead
<1>3. StrNLen(mem) \in Nat /\ Len(mem) \in Nat
  BY ReadsIs, LenProperties
<1>4. kept = IF StrNLen(mem) < dest_size - 1 THEN StrNLen(mem) ELSE dest_size - 1
  BY <1>3
<1>5. /\ kept \in 0..Len(mem) /\ kept \in Nat
      /\ Appended(mem, dest_size - 1) = t /\ t \in Text(B)
  BY <1>1, <1>2, <1>3, <1>4, AppendedIs
<1>6. dest = Append(t, NUL)
  BY <1>1, <1>5 DEF safeStringCopy
<1> HIDE DEF kept
<1>7. t \in Seq(B) /\ Len(t) = kept /\ \A i \in 1..kept : t[i] = mem[i]
  BY <1>5, PrefixIs
<1> HIDE DEF t
<1>8. /\ dest \in Seq(B) /\ Len(dest) = kept + 1
      /\ \A i \in 1..kept : dest[i] = t[i]
      /\ dest[kept + 1] = NUL
  BY <1>5, <1>6, <1>7, AppendProperties
<1>9. CString(dest) = t /\ StrNLen(dest) = kept
  BY <1>5, <1>7, <1>8, SameString
<1>10. \A i \in 1..kept : dest[i] # NUL
  BY <1>5, <1>7, <1>8 DEF Text
<1> QED BY <1>5, <1>7, <1>8, <1>9, <1>10 DEF kept, t

(* safeStringCopy keeps its documented contract for every size and every     *)
(* source of which the memory holds what is read.                            *)
THEOREM SafeCopyKeepsContract ==
  ASSUME NEW B, NUL \in B, NEW mem \in Seq(B), NEW dest_size \in Nat,
         SourceRead(mem, dest_size) <= Len(mem)
  PROVE  KeepsContract(mem, dest_size)
<1>1. CASE dest_size = 0
  BY <1>1, EmptySeq DEF KeepsContract, safeStringCopy, SourceRead, Returned
<1>2. CASE dest_size > 0
  <2> DEFINE kept == IF StrNLen(mem) < dest_size THEN StrNLen(mem) ELSE dest_size - 1
             dest == safeStringCopy(mem, dest_size)
  <2>1. EndsAt(mem, StrNLen(mem)) /\ StrNLen(mem) \in Nat /\ Len(mem) \in Nat
    BY StrNLenIs, ReadsIs, LenProperties
  <2>2. /\ dest \in Seq(B) /\ Len(dest) = kept + 1
        /\ StrNLen(dest) = kept /\ kept \in 0..Len(mem)
        /\ \A i \in 1..kept : dest[i] # NUL /\ dest[i] = mem[i]
        /\ dest[kept + 1] = NUL
    BY <1>2, SafeCopyIs
  <2>3. /\ CatBound(dest_size) = dest_size - 1 /\ dest_size - 1 \in Nat
        /\ SourceRead(mem, dest_size) = Reads(mem, dest_size - 1)
    BY <1>2 DEF CatBound, SourceRead
  <2>4. Reads(mem, dest_size - 1) <= dest_size - 1
    BY <2>1, <2>3, ReadsIs
  <2>5. kept = dest_size - 1 \/ mem[kept + 1] = NUL
    <3>1. ASSUME kept # dest_size - 1 PROVE kept = StrNLen(mem) /\ kept < dest_size - 1
      BY <1>2, <2>1, <3>1
    <3>2. ASSUME kept # dest_size - 1 PROVE kept < Len(mem)
      <4>1. Reads(mem, dest_size - 1) = kept + 1
        BY <2>1, <2>3, <3>1, <3>2, ReadsIs
      <4> QED BY <2>1, <2>2, <2>3, <4>1
    <3> QED BY <2>1, <3>1, <3>2 DEF EndsAt
  <2>6. Returned(mem, dest_size) = kept
    BY <1>2, <2>2 DEF Returned
  <2>7. kept \in Nat /\ kept + 1 <= dest_size /\ kept + 1 \in DOMAIN dest
    <3> HIDE DEF dest
    <3> QED BY <1>2, <2>1, <2>2, LenProperties
  <2> HIDE DEF kept
  <2>8. Len(dest) <= dest_size /\ SourceRead(mem, dest_size) <= dest_size
    <3> HIDE DEF dest
    <3>1. Reads(mem, dest_size - 1) \in Nat
      BY <2>1, <2>3, ReadsIs
    <3> QED BY <2>2, <2>3, <2>4, <2>7, <3>1
  <2> QED BY <1>2, <2>2, <2>5, <2>6, <2>7, <2>8 DEF KeepsContract
<1> QED BY <1>1, <1>2

-----------------------------------------------------------------------------
(* Values.                                                                  *)

Values    == [1..PropValueMax -> Bytes]
ShortText == {t \in Text(Bytes) : Len(t) < PropValueMax}

LEMMA ValueIsSeq ==
  ASSUME NEW v \in Values
  PROVE  v \in Seq(Bytes) /\ Len(v) = PropValueMax
<1>1. PropValueMax \in Nat
  BY MrPropAssumption
<1>2. v \in Seq(Bytes)
  BY <1>1, SeqDef DEF Values
<1>3. Len(v) \in Nat /\ 1..Len(v) = 1..PropValueMax
  BY <1>2, LenProperties DEF Values
<1> QED BY <1>1, <1>2, <1>3

LEMMA StringsAreTexts == Strings \subseteq ShortText
<1> SUFFICES ASSUME NEW s \in Strings PROVE s \in ShortText
  OBVIOUS
<1>1. s \in Seq(Nat) /\ Len(s) < PropValueMax /\ CString(s) = s
  BY MrPropAssumption
<1>2. s \in [1..Len(s) -> Nat] /\ Len(s) \in Nat /\ DOMAIN s = 1..Len(s)
  BY <1>1, LenProperties
<1>3. \A i \in 1..Len(s) : s[i] \in Bytes
  BY <1>2 DEF Bytes, Range
<1>4. s \in Seq(Bytes)
  BY <1>2, <1>3, SeqDef
<1> QED BY <1>1, <1>4, CStringIs DEF ShortText

(* What is written to a value is the string that is read of it, whatever was *)
(* there before.                                                             *)
LEMMA WrittenIs ==
  ASSUME NEW t \in ShortText, NEW old \in Values
  PROVE  /\ Written(t, old) \in Values
         /\ CString(Written(t, old)) = t /\ StrNLen(Written(t, old)) = Len(t)
         /\ old[PropValueMax] = NUL => Written(t, old)[PropValueMax] = NUL
<1> DEFINE v == Written(t, old)
<1>1. /\ PropValueMax \in Nat \ {0} /\ Len(t) \in Nat /\ Len(t) < PropValueMax
      /\ t \in Text(Bytes) /\ t \in Seq(Bytes) /\ NUL \in Bytes
      /\ \A i \in 1..Len(t) : t[i] \in Bytes
  BY MrPropAssumption, LenProperties, ElementOfSeq DEF ShortText, Text, Bytes
<1>2. v \in Values
  BY <1>1 DEF Written, Values
<1>3. /\ \A i \in 1..Len(t) : v[i] = t[i]
      /\ v[Len(t) + 1] = NUL
      /\ old[PropValueMax] = NUL => v[PropValueMax] = NUL
  BY <1>1 DEF Written
<1> HIDE DEF v
<1>4. v \in Seq(Bytes) /\ Len(v) = PropValueMax
  BY <1>2, ValueIsSeq
<1>5. CString(v) = t /\ StrNLen(v) = Len(t)
  BY <1>1, <1>3, <1>4, SameString
<1> QED BY <1>2, <1>3, <1>5 DEF v

LEMMA ZerosAreAValue == Zeros \in Values /\ Zeros[PropValueMax] = NUL
  BY MrPropAssumption DEF Zeros, Values, Bytes

(* A value that ends with a NUL holds a string, and safeStringCopy to a      *)
(* buffer of PROP_VALUE_MAX bytes copies all of it.                          *)
LEMMA ValueCopied ==
  ASSUME NEW v \in Values, v[PropValueMax] = NUL
  PROVE  /\ CString(v) \in ShortText
         /\ LET b == safeStringCopy(v, PropValueMax)
            IN  /\ b \in Seq(Bytes) /\ Len(b) <= PropValueMax
                /\ NUL \in Range(b)
                /\ CString(b) = CString(v)
<1> DEFINE b == safeStringCopy(v, PropValueMax)
<1>1. /\ v \in Seq(Bytes) /\ Len(v) = PropValueMax
      /\ PropValueMax \in Nat /\ PropValueMax > 0
  BY ValueIsSeq, MrPropAssumption
<1>0. NUL \in Bytes
  BY DEF Bytes
<1>2. EndsAt(v, StrNLen(v))
  BY <1>1, StrNLenIs
<1>3. StrNLen(v) \in Nat /\ StrNLen(v) < PropValueMax
  <2>1. StrNLen(v) \in 0..PropValueMax
    BY <1>1, <1>2 DEF EndsAt
  <2>2. StrNLen(v) # PropValueMax
    BY <1>1, <1>2 DEF EndsAt
  <2> QED BY <1>1, <2>1, <2>2
<1>4. CString(v) \in Text(Bytes) /\ Len(CString(v)) = StrNLen(v)
  BY <1>1, CStringIs
<1>5. /\ b \in Seq(Bytes) /\ Len(b) = StrNLen(v) + 1
      /\ StrNLen(b) = StrNLen(v) /\ CString(b) = SubSeq(v, 1, StrNLen(v))
  <2>1. SourceRead(v, PropValueMax) <= Len(v)
    BY <1>1, ReadsAtMost
  <2> QED BY <1>0, <1>1, <1>3, <2>1, SafeCopyIs
<1> HIDE DEF b
<1>6. b[StrNLen(v) + 1] = NUL
  <2>1. EndsAt(b, StrNLen(b))
    BY <1>5, StrNLenIs
  <2> QED BY <1>3, <1>5, <2>1 DEF EndsAt
<1>7. NUL \in Range(b)
  <2>1. StrNLen(v) + 1 \in DOMAIN b
    BY <1>3, <1>5, LenProperties
  <2> QED BY <1>6, <2>1 DEF Range
<1> QED BY <1>1, <1>3, <1>4, <1>5, <1>7 DEF b, CString, ShortText

(* Nothing but NULs behind the string. *)
Tailless(v) == v = Written(CString(v), Zeros)

LEMMA WrittenIsTailless ==
  ASSUME NEW t \in ShortText
  PROVE  Tailless(Written(t, Zeros))
  BY WrittenIs, ZerosAreAValue DEF Tailless

(* shouldResetProperty's test finds every byte behind the string. *)
LEMMA NoTailIsTailless ==
  ASSUME NEW v \in Values, v[PropValueMax] = NUL, ~HasTail(v)
  PROVE  Tailless(v)
<1> DEFINE t == CString(v)
           w == Written(t, Zeros)
<1>1. v \in Seq(Bytes) /\ Len(v) = PropValueMax /\ PropValueMax \in Nat
  BY ValueIsSeq, MrPropAssumption
<1>2. t \in ShortText /\ Len(t) = StrNLen(v) /\ \A i \in 1..StrNLen(v) : t[i] = v[i]
  BY <1>1, ValueCopied, CStringIs
<1>3. StrNLen(v) \in 0..PropValueMax
  BY <1>1, StrNLenIs DEF EndsAt
<1>4. \A i \in 1..PropValueMax : i > StrNLen(v) => v[i] = NUL
  BY <1>1, <1>3 DEF HasTail
<1> HIDE DEF t
<1>5. \A i \in 1..PropValueMax : w[i] = v[i]
  BY <1>1, <1>2, <1>3, <1>4 DEF Written, Zeros
<1>6. w \in Values
  BY <1>2, WrittenIs, ZerosAreAValue
<1> HIDE DEF w
<1>7. w = v
  <2>1. w = [i \in 1..PropValueMax |-> w[i]] /\ v = [i \in 1..PropValueMax |-> v[i]]
    BY <1>6 DEF Values
  <2> QED BY <1>5, <2>1
<1> QED BY <1>7 DEF Tailless, w, t

(* And nothing else. *)
LEMMA TaillessHasNoTail ==
  ASSUME NEW v \in Values, v[PropValueMax] = NUL, Tailless(v)
  PROVE  ~HasTail(v)
<1> DEFINE t == CString(v)
<1>1. /\ v \in Seq(Bytes) /\ PropValueMax \in Nat
      /\ t \in ShortText /\ Len(t) = StrNLen(v)
  BY ValueIsSeq, ValueCopied, CStringIs, MrPropAssumption
<1>2. Len(t) \in Nat
  BY <1>1, LenProperties DEF ShortText, Text
<1>3. v = Written(t, Zeros)
  BY DEF Tailless
<1> HIDE DEF t
<1>4. \A i \in 1..PropValueMax : i > Len(t) => Written(t, Zeros)[i] = NUL
  BY <1>1, <1>2 DEF Written, Zeros
<1> QED BY <1>1, <1>2, <1>3, <1>4 DEF HasTail

-----------------------------------------------------------------------------
(* MrProp's inductive invariant.                                            *)

Setting(p) == setting # <<>> /\ setting[1] = p
AtProperty(w) == pc[w] \in {"copy", "update", "store"}
InUpdate(w) == pc[w] \in {"update", "store"}

(* The types of what the runs need none for. *)
MoreTypes ==
  /\ set \in [Names -> Strings]
  /\ setting = <<>> \/ setting \in Names \X Strings
  /\ raced \subseteq Names
  /\ touched \in [Workers -> SUBSET Names]
  /\ buffer \in [Workers -> Seq(Bytes)]
  /\ \A w \in Workers : AtProperty(w) => it[w] <= Len(Props)

(* A value always ends: setting a property writes its first byte first, and  *)
(* its terminator where the old one may not be. *)
Ended(p) == value[p][PropValueMax] = NUL

Kept(p) == CString(value[p]) = set[p] \/ Setting(p) \/ p \in raced

(* A worker in its window holds the string that was set last, and nobody is  *)
(* setting the property, unless the two raced.                               *)
Held(w) ==
  InUpdate(w) =>
    /\ CString(buffer[w]) \in ShortText
    /\ Current(w) \notin raced
         => ~Setting(Current(w)) /\ CString(buffer[w]) = set[Current(w)]

(* Only short read-only properties are ever worked on. *)
Picked(w) == AtProperty(w) => Resettable(Current(w))

Clean(p) == serial[p] = 0 /\ Tailless(value[p])

(* What w has gone past is clean unless it was written to since. *)
Passed(w) ==
  /\ pc[w] = "init" => it[w] = 1
  /\ pc[w] = "done" => it[w] > Len(Props)
  /\ pc[w] \notin {"init", "failed", "killed"} =>
       \A i \in 1..Len(Props) :
         i < it[w] /\ Resettable(Props[i]) /\ Props[i] \notin touched[w]
           => Clean(Props[i]) /\ (AtProperty(w) => Props[i] # Current(w))

PInv ==
  /\ TypeOK /\ MoreTypes
  /\ \A p \in Names : Ended(p) /\ Kept(p)
  /\ \A w \in Workers : Held(w) /\ Picked(w) /\ Passed(w)

LEMMA PropsAre ==
  /\ Len(Props) \in Nat /\ DOMAIN Props = 1..Len(Props)
  /\ \A i \in 1..Len(Props) : Props[i] \in Names
  /\ \A p \in Names : \E i \in 1..Len(Props) : Props[i] = p
<1>1. Props \in Seq(Names)
  BY MrPropAssumption DEF Names
<1>2. Len(Props) \in Nat /\ DOMAIN Props = 1..Len(Props)
      /\ \A i \in 1..Len(Props) : Props[i] \in Names
  BY <1>1, LenProperties, ElementOfSeq
<1>3. \A p \in Names : \E i \in 1..Len(Props) : Props[i] = p
  BY <1>2 DEF Names, Range
<1> QED BY <1>2, <1>3

LEMMA InitPInv == Init => PInv
<1> SUFFICES ASSUME Init PROVE PInv
  OBVIOUS
<1>1. \A p \in Names : /\ value[p] = Written(set[p], Zeros) /\ set[p] \in Strings
                       /\ value[p] \in Values /\ Ended(p) /\ CString(value[p]) = set[p]
  BY StringsAreTexts, WrittenIs, ZerosAreAValue DEF Init, Ended
<1>2. TypeOK
  <2>1. value \in [Names -> Values]
    BY <1>1 DEF Init
  <2>2. \A w \in Workers : Len(buffer[w]) = 0
    BY EmptySeq DEF Init
  <2> QED BY <2>1, <2>2, MrPropAssumption, PropsAre DEF Init, TypeOK, Values
<1>3. MoreTypes
  BY EmptySeq DEF Init, MoreTypes, AtProperty
<1>4. \A p \in Names : Ended(p) /\ Kept(p)
  BY <1>1 DEF Kept
<1>5. \A w \in Workers : Held(w) /\ Picked(w) /\ Passed(w)
  BY DEF Init, Held, Picked, Passed, InUpdate, AtProperty
<1> QED BY <1>2, <1>3, <1>4, <1>5 DEF PInv

-----------------------------------------------------------------------------
(* The steps of a worker.                                                   *)

(* What holds of v goes on holding as long as v is not moved, the property   *)
(* it works on neither set nor in a race, and everything that becomes        *)
(* unclean is touched.                                                       *)
LEMMA Bystander ==
  ASSUME NEW v \in Workers, Held(v), Picked(v), Passed(v),
         UNCHANGED <<pc[v], it[v], buffer[v], set>>,
         raced \subseteq raced', setting' = setting,
         touched[v] \subseteq touched'[v],
         \A p \in Names : Clean(p) => Clean(p)' \/ p \in touched'[v]
                                                \/ pc[v] \in {"init", "failed", "killed"}
  PROVE  Held(v)' /\ Picked(v)' /\ Passed(v)'
<1>1. Current(v)' = Current(v) /\ AtProperty(v)' = AtProperty(v) /\ InUpdate(v)' = InUpdate(v)
  BY DEF Current, AtProperty, InUpdate
<1>2. Held(v)' /\ Picked(v)'
  BY <1>1 DEF Held, Picked, Setting
<1>3. Passed(v)'
  BY <1>1, PropsAre DEF Passed
<1> QED BY <1>2, <1>3

(* A step of w that changes neither properties nor what the others know. *)
LEMMA QuietStep ==
  ASSUME PInv, NEW w \in Workers,
         Initialize(w) \/ Visit(w) \/ Finish(w) \/ Killed(w)
  PROVE  PInv'
<1> USE DEF propVars, setVars
<1>0. /\ TypeOK /\ MoreTypes /\ Held(w) /\ Picked(w) /\ Passed(w)
      /\ Len(Props) \in Nat
  BY PropsAre DEF PInv
<1>1. /\ UNCHANGED <<serial, value, setting, sets, set, raced>>
      /\ \A v \in Workers \ {w} : UNCHANGED <<pc[v], it[v], buffer[v], touched[v]>>
  BY <1>0 DEF TypeOK, MoreTypes, Initialize, Visit, Finish, Killed
<1>2. \A p \in Names : Ended(p)' /\ Kept(p)' /\ (Clean(p)' <=> Clean(p))
  BY <1>1 DEF PInv, Ended, Kept, Setting, Clean
<1>3. \A v \in Workers \ {w} : Held(v)' /\ Picked(v)' /\ Passed(v)'
  BY <1>1, <1>2, Bystander DEF PInv
<1>4. ASSUME TypeOK', MoreTypes', Held(w)', Picked(w)', Passed(w)'
      PROVE  PInv'
  BY <1>2, <1>3, <1>4 DEF PInv
<1>5. CASE Initialize(w)
  <2>1. TypeOK' /\ MoreTypes'
    BY <1>0, <1>5 DEF Initialize, TypeOK, MoreTypes, AtProperty
  <2>2. /\ pc'[w] \in {"foreach", "failed"} /\ it'[w] = 1
        /\ UNCHANGED touched
    BY <1>0, <1>5 DEF Initialize, TypeOK, Passed
  <2> QED BY <1>4, <2>1, <2>2 DEF Held, Picked, Passed, InUpdate, AtProperty
<1>6. CASE Visit(w) /\ shouldResetProperty(Current(w))
  <2>1. /\ pc' = [pc EXCEPT ![w] = "copy"] /\ UNCHANGED <<it, touched, buffer>>
        /\ it[w] <= Len(Props) /\ pc[w] = "foreach" /\ it[w] \in 1..Len(Props)
    BY <1>0, <1>6 DEF Visit, TypeOK
  <2>2. TypeOK' /\ MoreTypes'
    BY <1>0, <1>1, <2>1 DEF TypeOK, MoreTypes, AtProperty
  <2>3. pc'[w] = "copy" /\ Current(w)' = Current(w) /\ Current(w) \in Names
    BY <1>0, <2>1, PropsAre DEF TypeOK, Current
  <2>4. Resettable(Current(w)) /\ ~Clean(Current(w))
    <3>1. value[Current(w)] \in Values /\ Ended(Current(w))
      BY <1>0, <2>3 DEF TypeOK, Values, PInv
    <3>2. ASSUME Tailless(value[Current(w)]) PROVE ~HasTail(value[Current(w)])
      BY <3>1, <3>2, TaillessHasNoTail DEF Ended
    <3> QED BY <1>6, <3>2 DEF shouldResetProperty, Clean
  <2>5. Held(w)' /\ Picked(w)'
    BY <2>3, <2>4 DEF Held, Picked, InUpdate
  <2>6. Passed(w)'
    BY <1>0, <1>2, <2>1, <2>3, <2>4, PropsAre DEF Passed
  <2> QED BY <1>4, <2>2, <2>5, <2>6
<1>7. CASE Visit(w) /\ ~shouldResetProperty(Current(w))
  <2>1. /\ it' = [it EXCEPT ![w] = @ + 1] /\ UNCHANGED <<pc, touched, buffer>>
        /\ pc[w] = "foreach" /\ it[w] \in 1..Len(Props) /\ it'[w] = it[w] + 1
    BY <1>0, <1>7 DEF Visit, TypeOK
  <2>2. TypeOK' /\ MoreTypes'
    BY <1>0, <1>1, <2>1 DEF TypeOK, MoreTypes, AtProperty
  <2>3. Current(w) \in Names
    BY <2>1, PropsAre DEF Current
  <2>4. Resettable(Current(w)) => Clean(Current(w))
    <3>1. value[Current(w)] \in Values /\ Ended(Current(w))
      BY <1>0, <2>3 DEF TypeOK, Values, PInv
    <3> QED BY <1>7, <3>1, NoTailIsTailless DEF shouldResetProperty, Clean, Ended
  <2>5. Held(w)' /\ Picked(w)'
    BY <2>1 DEF Held, Picked, InUpdate, AtProperty
  <2>6. Passed(w)'
    <3> SUFFICES ASSUME NEW i \in 1..Len(Props), i < it'[w],
                        Resettable(Props[i]), Props[i] \notin touched[w]
                 PROVE  Clean(Props[i])
      BY <1>2, <2>1, PropsAre DEF Passed, AtProperty
    <3>1. i < it[w] \/ i = it[w]
      BY <2>1
    <3> QED BY <1>0, <2>1, <2>4, <3>1 DEF Passed, Current
  <2> QED BY <1>4, <2>2, <2>5, <2>6
<1>8. CASE Finish(w)
  <2>1. TypeOK' /\ MoreTypes'
    BY <1>0, <1>1, <1>8 DEF Finish, TypeOK, MoreTypes, AtProperty
  <2>2. /\ pc'[w] = "done" /\ it'[w] = it[w] /\ it[w] > Len(Props)
        /\ UNCHANGED touched /\ pc[w] = "foreach"
    BY <1>0, <1>8 DEF Finish, TypeOK
  <2>3. Passed(w)'
    BY <1>0, <1>2, <2>2, PropsAre DEF Passed, AtProperty
  <2> QED BY <1>4, <2>1, <2>2, <2>3 DEF Held, Picked, InUpdate, AtProperty
<1>9. CASE Killed(w)
  <2>1. TypeOK' /\ MoreTypes'
    <3>1. Len(<<>>) = 0 /\ <<>> \in Seq(Bytes)
      BY EmptySeq
    <3>2. buffer' = [buffer EXCEPT ![w] = <<>>]
      BY <1>9 DEF Killed
    <3>3. \A v \in Workers : Len(buffer'[v]) <= PropValueMax
      BY <1>0, <3>1, <3>2, MrPropAssumption DEF TypeOK, MoreTypes
    <3>4. /\ pc' = [pc EXCEPT ![w] = "killed"] /\ it' = [it EXCEPT ![w] = 1]
          /\ touched' = [touched EXCEPT ![w] = {}]
      BY <1>9 DEF Killed
    <3>5. \A v \in Workers : pc'[v] # "killed" => v # w
      BY <1>0, <3>4 DEF TypeOK
    <3>6. TypeOK'
      BY <1>0, <1>1, <3>3, <3>4, <3>5 DEF TypeOK
    <3>7. MoreTypes'
      BY <1>0, <1>1, <3>1, <3>2, <3>4, <3>5 DEF TypeOK, MoreTypes, AtProperty
    <3> QED BY <3>6, <3>7
  <2>2. pc'[w] = "killed"
    BY <1>0, <1>9 DEF Killed, TypeOK
  <2> QED BY <1>4, <2>1, <2>2 DEF Held, Picked, Passed, InUpdate, AtProperty
<1> QED BY <1>5, <1>6, <1>7, <1>8, <1>9

LEMMA CopyPInv ==
  ASSUME PInv, NEW w \in Workers, Copy(w)
  PROVE  PInv'
<1> USE DEF propVars, setVars
<1> DEFINE p == Current(w)
<1>0. /\ TypeOK /\ MoreTypes /\ Held(w) /\ Picked(w) /\ Passed(w)
      /\ Len(Props) \in Nat
  BY PropsAre DEF PInv
<1>1. pc[w] = "copy" /\ it[w] \in 1..Len(Props) /\ p \in Names
  BY <1>0, PropsAre DEF Copy, TypeOK, MoreTypes, AtProperty, Current
<1>2. value[p] \in Values /\ Ended(p) /\ Kept(p)
  BY <1>0, <1>1 DEF TypeOK, Values, PInv
<1>3. LET b == safeStringCopy(value[p], PropValueMax)
      IN  /\ CString(value[p]) \in ShortText
          /\ b \in Seq(Bytes) /\ Len(b) <= PropValueMax
          /\ NUL \in Range(b) /\ CString(b) = CString(value[p])
  BY <1>2, ValueCopied DEF Ended
<1>4. /\ UNCHANGED <<serial, value, setting, sets, set, touched, it>>
      /\ pc' = [pc EXCEPT ![w] = "update"]
      /\ buffer' = [buffer EXCEPT ![w] = safeStringCopy(value[p], PropValueMax)]
      /\ raced' = IF Setting(p) THEN raced \cup {p} ELSE raced
  BY DEF Copy, Setting
<1> HIDE DEF p
<1>5. /\ pc'[w] = "update" /\ buffer'[w] = safeStringCopy(value[p], PropValueMax)
      /\ \A v \in Workers \ {w} : UNCHANGED <<pc[v], it[v], buffer[v], touched[v]>>
  BY <1>0, <1>4 DEF TypeOK, MoreTypes
<1>6. TypeOK'
  <2>1. \A v \in Workers : /\ Len(buffer'[v]) <= PropValueMax
                           /\ pc'[v] \in {"update", "store"} => NUL \in Range(buffer'[v])
    BY <1>0, <1>3, <1>5 DEF TypeOK
  <2> QED BY <1>0, <1>4, <2>1 DEF TypeOK
<1>7. MoreTypes'
  <2>1. buffer' \in [Workers -> Seq(Bytes)]
    BY <1>0, <1>3, <1>4 DEF MoreTypes
  <2>2. \A v \in Workers : AtProperty(v)' => AtProperty(v)
    BY <1>1, <1>5 DEF AtProperty
  <2> QED BY <1>0, <1>1, <1>4, <2>1, <2>2 DEF MoreTypes
<1>8. \A q \in Names : Ended(q)' /\ Kept(q)' /\ (Clean(q)' <=> Clean(q))
  BY <1>4 DEF PInv, Ended, Kept, Setting, Clean
<1>9. \A v \in Workers \ {w} : Held(v)' /\ Picked(v)' /\ Passed(v)'
  BY <1>4, <1>5, <1>8, Bystander DEF PInv
<1>10. Current(w)' = p /\ Current(w) = p
  BY <1>4 DEF Current, p
<1>11. Held(w)'
  <2> SUFFICES ASSUME p \notin raced'
               PROVE  ~(setting' # <<>> /\ setting'[1] = p) /\ CString(buffer'[w]) = set'[p]
    BY <1>3, <1>5, <1>10 DEF Held, Setting
  <2>1. ~Setting(p) /\ p \notin raced
    BY <1>4
  <2>2. CString(value[p]) = set[p]
    BY <1>2, <2>1 DEF Kept
  <2> QED BY <1>3, <1>4, <1>5, <2>1, <2>2 DEF Setting
<1>12. Picked(w)'
  BY <1>0, <1>1, <1>10 DEF Picked, AtProperty
<1>13. Passed(w)'
  BY <1>0, <1>1, <1>4, <1>5, <1>8, <1>10, PropsAre DEF Passed, AtProperty
<1> QED BY <1>6, <1>7, <1>8, <1>9, <1>11, <1>12, <1>13 DEF PInv

LEMMA UpdateBeginsPInv ==
  ASSUME PInv, NEW w \in Workers, UpdateBegins(w)
  PROVE  PInv'
<1> USE DEF propVars, setVars
<1> DEFINE p == Current(w)
<1>0. /\ TypeOK /\ MoreTypes /\ Held(w) /\ Picked(w) /\ Passed(w)
      /\ Len(Props) \in Nat
  BY PropsAre DEF PInv
<1>1. pc[w] = "update" /\ it[w] \in 1..Len(Props) /\ p \in Names
  BY <1>0, PropsAre DEF UpdateBegins, TypeOK, MoreTypes, AtProperty, Current
<1>2. /\ UNCHANGED <<value, setting, sets, set, raced, it, buffer>>
      /\ pc' = [pc EXCEPT ![w] = "store"]
      /\ serial' = [serial EXCEPT ![p] = Dirty(@)]
      /\ Touch(p, Workers \ {w})
  BY DEF UpdateBegins
<1> HIDE DEF p
<1>3. Dirty(serial[p]) \in Nat
  BY <1>0, <1>1 DEF TypeOK, Dirty
<1>4. /\ pc'[w] = "store" /\ touched'[w] = touched[w]
      /\ \A v \in Workers \ {w} :
           /\ UNCHANGED <<pc[v], it[v], buffer[v]>>
           /\ touched[v] \subseteq touched'[v]
           /\ pc[v] \notin {"init", "failed", "killed"} => p \in touched'[v]
      /\ touched' \in [Workers -> SUBSET Names]
  BY <1>0, <1>1, <1>2 DEF TypeOK, MoreTypes, Touch
<1>5. TypeOK' /\ MoreTypes'
  <2>1. serial' \in [Names -> Nat]
    BY <1>0, <1>2, <1>3 DEF TypeOK
  <2>2. pc' \in [Workers -> {"init", "foreach", "copy", "update", "store", "done", "failed", "killed"}]
    BY <1>0, <1>2 DEF TypeOK
  <2>3. TypeOK'
    BY <1>0, <1>1, <1>2, <1>4, <2>1, <2>2 DEF TypeOK
  <2>4. \A v \in Workers : AtProperty(v)' => AtProperty(v)
    BY <1>1, <1>4 DEF AtProperty
  <2>5. MoreTypes'
    BY <1>0, <1>2, <1>4, <2>4 DEF MoreTypes
  <2> QED BY <2>3, <2>5
<1>6. \A q \in Names : Ended(q)' /\ Kept(q)' /\ (Clean(q) => Clean(q)' \/ q = p)
  BY <1>0, <1>2 DEF PInv, Ended, Kept, Setting, Clean, TypeOK
<1>7. \A v \in Workers \ {w} : Held(v)' /\ Picked(v)' /\ Passed(v)'
  <2> TAKE v \in Workers \ {w}
  <2>1. \A q \in Names : Clean(q) => Clean(q)' \/ q \in touched'[v]
                                               \/ pc[v] \in {"init", "failed", "killed"}
    BY <1>4, <1>6
  <2> QED BY <1>2, <1>4, <2>1, Bystander DEF PInv
<1>8. Current(w)' = p /\ Current(w) = p
  BY <1>2 DEF Current, p
<1>9. Held(w)' /\ Picked(w)'
  BY <1>0, <1>1, <1>2, <1>4, <1>8 DEF Held, Picked, Setting, InUpdate, AtProperty
<1>10. Passed(w)'
  BY <1>0, <1>1, <1>2, <1>4, <1>6, <1>8, PropsAre DEF Passed, AtProperty
<1> QED BY <1>5, <1>6, <1>7, <1>9, <1>10 DEF PInv

LEMMA UpdateEndsPInv ==
  ASSUME PInv, NEW w \in Workers, UpdateEnds(w)
  PROVE  /\ PInv'
         /\ \A p \in Names : CString(value'[p]) = CString(value[p]) \/ p \in raced \/ Setting(p)
<1> USE DEF propVars, setVars
<1> DEFINE p == Current(w)
           t == CString(buffer[w])
<1>0. /\ TypeOK /\ MoreTypes /\ Held(w) /\ Picked(w) /\ Passed(w)
      /\ Len(Props) \in Nat
  BY PropsAre DEF PInv
<1>1. pc[w] = "store" /\ it[w] \in 1..Len(Props) /\ p \in Names
  BY <1>0, PropsAre DEF UpdateEnds, TypeOK, MoreTypes, AtProperty, Current
<1>2. /\ UNCHANGED <<setting, sets, set, raced, touched>>
      /\ pc' = [pc EXCEPT ![w] = "foreach"]
      /\ it' = [it EXCEPT ![w] = @ + 1]
      /\ buffer' = [buffer EXCEPT ![w] = <<>>]
      /\ serial' = [serial EXCEPT ![p] = 0]
      /\ value' = [value EXCEPT ![p] = Written(t, Zeros)]
  BY DEF UpdateEnds, UpdateLength, CString
<1>3. t \in ShortText /\ (p \notin raced => ~Setting(p) /\ t = set[p])
  BY <1>0, <1>1 DEF Held, InUpdate
<1> HIDE DEF t
<1>4. /\ Written(t, Zeros) \in Values /\ CString(Written(t, Zeros)) = t
      /\ Tailless(Written(t, Zeros)) /\ Written(t, Zeros)[PropValueMax] = NUL
  BY <1>3, WrittenIs, WrittenIsTailless, ZerosAreAValue
<1> HIDE DEF p
<1>5. /\ value'[p] = Written(t, Zeros) /\ serial'[p] = 0
      /\ \A q \in Names \ {p} : value'[q] = value[q] /\ serial'[q] = serial[q]
  BY <1>0, <1>1, <1>2 DEF TypeOK
<1>6. /\ pc'[w] = "foreach" /\ it'[w] = it[w] + 1
      /\ \A v \in Workers \ {w} : UNCHANGED <<pc[v], it[v], buffer[v], touched[v]>>
  BY <1>0, <1>2 DEF TypeOK, MoreTypes
<1>7. TypeOK' /\ MoreTypes'
  <2>1. Len(<<>>) = 0 /\ <<>> \in Seq(Bytes)
    BY EmptySeq
  <2>2. \A v \in Workers : /\ Len(buffer'[v]) <= PropValueMax
                           /\ pc'[v] \in {"update", "store"} => NUL \in Range(buffer'[v])
    BY <1>0, <1>2, <1>6, <2>1, MrPropAssumption DEF TypeOK, MoreTypes
  <2>3. serial' \in [Names -> Nat] /\ value' \in [Names -> Values]
    BY <1>0, <1>2, <1>4 DEF TypeOK, Values
  <2>4. it' \in [Workers -> 1..(Len(Props) + 1)]
    BY <1>0, <1>1, <1>2 DEF TypeOK
  <2>5. pc' \in [Workers -> {"init", "foreach", "copy", "update", "store", "done", "failed", "killed"}]
    BY <1>0, <1>2 DEF TypeOK
  <2>6. TypeOK'
    BY <1>0, <1>2, <2>2, <2>3, <2>4, <2>5 DEF TypeOK, Values
  <2>7. \A v \in Workers : AtProperty(v)' => v # w
    BY <1>6 DEF AtProperty
  <2>8. \A v \in Workers : AtProperty(v)' => AtProperty(v) /\ it'[v] = it[v]
    BY <1>6, <2>7 DEF AtProperty
  <2>9. MoreTypes'
    BY <1>0, <1>2, <2>1, <2>8 DEF MoreTypes
  <2> QED BY <2>6, <2>9
<1>8. \A q \in Names : /\ Ended(q)' /\ Kept(q)' /\ (Clean(q) => Clean(q)')
                       /\ CString(value'[q]) = CString(value[q]) \/ q \in raced \/ Setting(q)
  <2> TAKE q \in Names
  <2>1. Ended(q) /\ Kept(q)
    BY DEF PInv
  <2>2. CASE q = p
    <3>1. Ended(q)' /\ Clean(q)'
      BY <1>4, <1>5, <2>2 DEF Ended, Clean
    <3>2. CString(value'[q]) = t
      BY <1>4, <1>5, <2>2
    <3>3. Kept(q)'
      BY <1>2, <1>3, <2>2, <3>2 DEF Kept
    <3>4. CString(value'[q]) = CString(value[q]) \/ q \in raced \/ Setting(q)
      BY <1>3, <2>1, <2>2, <3>2 DEF Kept
    <3> QED BY <3>1, <3>3, <3>4
  <2>3. CASE q # p
    BY <1>2, <1>5, <2>1, <2>3 DEF Ended, Kept, Setting, Clean
  <2> QED BY <2>2, <2>3
<1>9. \A v \in Workers \ {w} : Held(v)' /\ Picked(v)' /\ Passed(v)'
  BY <1>2, <1>6, <1>8, Bystander DEF PInv
<1>10. Held(w)' /\ Picked(w)'
  BY <1>6 DEF Held, Picked, InUpdate, AtProperty
<1>11. Passed(w)'
  <2> SUFFICES ASSUME NEW i \in 1..Len(Props), i < it'[w],
                      Resettable(Props[i]), Props[i] \notin touched[w]
               PROVE  Clean(Props[i])'
    BY <1>2, <1>6 DEF Passed, AtProperty
  <2>1. i < it[w] \/ i = it[w]
    BY <1>1, <1>6
  <2>2. CASE i = it[w]
    BY <1>4, <1>5, <2>2 DEF Clean, Current, p
  <2>3. CASE i < it[w]
    <3>1. Clean(Props[i])
      BY <1>0, <1>1, <2>3 DEF Passed
    <3> QED BY <1>8, <3>1, PropsAre
  <2> QED BY <2>1, <2>2, <2>3
<1> QED BY <1>7, <1>8, <1>9, <1>10, <1>11 DEF PInv

-----------------------------------------------------------------------------
(* The steps of others.                                                     *)

(* Who sets p takes it out of what the workers hold and have gone past. *)
LEMMA Setter ==
  ASSUME PInv, NEW p \in Names, NEW v \in Workers,
         UNCHANGED <<pc, it, buffer>>, Touch(p, Workers),
         \A q \in Names \ {p} : /\ serial'[q] = serial[q] /\ value'[q] = value[q] /\ set'[q] = set[q]
                                /\ q \in raced' <=> q \in raced
                                /\ ~Setting(q)',
         InWindow(p) => p \in raced'
  PROVE  Held(v)' /\ Picked(v)' /\ Passed(v)'
<1>0. TypeOK /\ MoreTypes /\ Held(v) /\ Picked(v) /\ Passed(v)
  BY DEF PInv
<1>1. Current(v)' = Current(v) /\ pc'[v] = pc[v] /\ it'[v] = it[v]
  BY DEF Current
<1>2. InUpdate(v) => Current(v) \in Names
  BY <1>0, PropsAre DEF TypeOK, MoreTypes, Current, AtProperty, InUpdate
<1>3. Held(v)'
  <2> SUFFICES ASSUME InUpdate(v)
               PROVE  /\ CString(buffer'[v]) \in ShortText
                      /\ Current(v) \notin raced'
                           => /\ ~(setting' # <<>> /\ setting'[1] = Current(v))
                              /\ CString(buffer'[v]) = set'[Current(v)]
    BY <1>1 DEF Held, Setting, InUpdate
  <2>1. CASE Current(v) = p
    BY <1>0, <2>1 DEF Held, InUpdate, InWindow
  <2>2. CASE Current(v) \in Names \ {p}
    BY <1>0, <2>2 DEF Held, Setting
  <2> QED BY <1>2, <2>1, <2>2
<1>4. Picked(v)'
  BY <1>0, <1>1 DEF Picked, AtProperty
<1>5. Passed(v)'
  <2>1. /\ touched[v] \subseteq touched'[v]
        /\ pc[v] \notin {"init", "failed", "killed"} => p \in touched'[v]
    BY <1>0 DEF Touch, MoreTypes
  <2>2. \A q \in Names : Clean(q) => Clean(q)' \/ q = p
    BY DEF Clean
  <2> QED BY <1>0, <1>1, <2>1, <2>2, PropsAre DEF Passed, AtProperty
<1> QED BY <1>3, <1>4, <1>5

LEMMA SetBeginsPInv ==
  ASSUME PInv, NEW p \in Names, NEW s \in Strings, SetBegins(p, s)
  PROVE  PInv'
<1>0. TypeOK /\ MoreTypes
  BY DEF PInv
<1>1. /\ setting = <<>> /\ setting' = <<p, s>> /\ sets' = sets + 1 /\ sets < MaxSets
      /\ serial' = [serial EXCEPT ![p] = Dirty(@)]
      /\ value' = [value EXCEPT ![p][1] = IF s = <<>> THEN NUL ELSE s[1]]
      /\ raced' = IF InWindow(p) THEN raced \cup {p} ELSE raced \ {p}
      /\ Touch(p, Workers)
      /\ UNCHANGED <<set, pc, it, buffer>>
  BY DEF SetBegins
<1>2. /\ s \in Seq(Bytes) /\ Len(s) \in Nat /\ Len(s) < PropValueMax
      /\ PropValueMax \in Nat \ {0} /\ NUL \in Bytes
  <2>1. s \in Text(Bytes) /\ Len(s) < PropValueMax
    BY StringsAreTexts DEF ShortText
  <2> QED BY <2>1, LenProperties, MrPropAssumption DEF Text, Bytes
<1>3. (IF s = <<>> THEN NUL ELSE s[1]) \in Bytes /\ (PropValueMax = 1 => s = <<>>)
  BY <1>2, EmptySeq, ElementOfSeq
<1>4. value[p] \in Values /\ Ended(p)
  BY <1>0 DEF PInv, TypeOK, Values
<1>5. value'[p] \in Values /\ Ended(p)'
  <2>1. value'[p] = [value[p] EXCEPT ![1] = IF s = <<>> THEN NUL ELSE s[1]]
    BY <1>0, <1>1 DEF TypeOK
  <2>2. value'[p] \in Values
    BY <1>2, <1>3, <1>4, <2>1 DEF Values
  <2>3. value'[p][PropValueMax] = IF PropValueMax = 1 THEN NUL ELSE value[p][PropValueMax]
    BY <1>2, <1>3, <1>4, <2>1 DEF Values
  <2> QED BY <1>4, <2>2, <2>3 DEF Ended
<1>6. /\ \A q \in Names \ {p} : /\ serial'[q] = serial[q] /\ value'[q] = value[q] /\ set'[q] = set[q]
                                /\ q \in raced' <=> q \in raced
                                /\ ~Setting(q)'
      /\ Setting(p)'
  BY <1>0, <1>1 DEF TypeOK, Setting
<1>7. TypeOK' /\ MoreTypes'
  <2>1. Dirty(serial[p]) \in Nat
    BY <1>0 DEF TypeOK, Dirty
  <2>2. serial' \in [Names -> Nat]
    BY <1>0, <1>1, <2>1 DEF TypeOK
  <2>3. value' \in [Names -> Values]
    <3>1. \A q \in Names : value'[q] \in Values
      <4> TAKE q \in Names
      <4>1. value[q] \in Values
        BY <1>0 DEF TypeOK, Values
      <4> QED BY <1>5, <1>6, <4>1
    <3>2. value' = [q \in Names |-> value'[q]]
      BY <1>0, <1>1 DEF TypeOK
    <3> QED BY <3>1, <3>2
  <2>4. sets' \in 0..MaxSets
    BY <1>0, <1>1, MrPropAssumption DEF TypeOK
  <2>5. TypeOK'
    BY <1>0, <1>1, <2>2, <2>3, <2>4 DEF TypeOK, Values
  <2>6. touched' \in [Workers -> SUBSET Names] /\ raced' \subseteq Names
    BY <1>0, <1>1 DEF MoreTypes, Touch
  <2>7. MoreTypes'
    BY <1>0, <1>1, <2>6 DEF MoreTypes, AtProperty
  <2> QED BY <2>5, <2>7
<1>8. \A q \in Names : Ended(q)' /\ Kept(q)'
  <2> TAKE q \in Names
  <2>1. CASE q = p
    BY <1>5, <1>6, <2>1 DEF Kept
  <2>2. CASE q # p
    <3>1. Ended(q) /\ Kept(q) /\ ~Setting(q)
      BY <1>1 DEF PInv, Setting
    <3>2. /\ value'[q] = value[q] /\ set'[q] = set[q]
          /\ q \in raced' <=> q \in raced
      BY <1>6, <2>2
    <3> QED BY <3>1, <3>2 DEF Ended, Kept
  <2> QED BY <2>1, <2>2
<1>9. \A v \in Workers : Held(v)' /\ Picked(v)' /\ Passed(v)'
  <2> TAKE v \in Workers
  <2>1. UNCHANGED <<pc, it, buffer>> /\ Touch(p, Workers) /\ (InWindow(p) => p \in raced')
    BY <1>1
  <2> QED BY <1>6, <2>1, Setter
<1> QED BY <1>7, <1>8, <1>9 DEF PInv

LEMMA SetEndsPInv ==
  ASSUME PInv, SetEnds
  PROVE  /\ PInv'
         /\ setting[1] \in Names /\ setting[2] \in Strings
         /\ CString(value'[setting[1]]) = setting[2]
         /\ \A q \in Names \ {setting[1]} : value'[q] = value[q]
         /\ raced \subseteq raced' /\ setting' = <<>>
<1>0. TypeOK /\ MoreTypes
  BY DEF PInv
<1> DEFINE p == setting[1]
           s == setting[2]
<1>1. PICK n \in {Dirty(serial[p]) + 1} \cup (IF p \in ReadOnly THEN {0} ELSE {}) :
        /\ setting # <<>> /\ setting' = <<>>
        /\ set' = [set EXCEPT ![p] = s]
        /\ value' = [value EXCEPT ![p] = Written(s, @)]
        /\ serial' = [serial EXCEPT ![p] = n]
        /\ raced' = IF InWindow(p) THEN raced \cup {p} ELSE raced
        /\ Touch(p, Workers)
        /\ UNCHANGED <<sets, pc, it, buffer>>
  BY DEF SetEnds
<1>2. p \in Names /\ s \in Strings
  BY <1>0, <1>1 DEF MoreTypes
<1> HIDE DEF p, s
<1>3. value[p] \in Values /\ Ended(p) /\ s \in ShortText
  BY <1>0, <1>2, StringsAreTexts DEF PInv, TypeOK, Values
<1>4. /\ Written(s, value[p]) \in Values
      /\ CString(Written(s, value[p])) = s
      /\ Written(s, value[p])[PropValueMax] = NUL
  BY <1>3, WrittenIs DEF Ended
<1>5. /\ value'[p] = Written(s, value[p]) /\ set'[p] = s
      /\ \A q \in Names \ {p} : /\ serial'[q] = serial[q] /\ value'[q] = value[q] /\ set'[q] = set[q]
                                /\ q \in raced' <=> q \in raced
                                /\ ~Setting(q)'
  BY <1>0, <1>1, <1>2 DEF TypeOK, MoreTypes, Setting
<1>6. TypeOK' /\ MoreTypes'
  <2>1. n \in Nat
    BY <1>0, <1>2 DEF TypeOK, Dirty
  <2>2. serial' \in [Names -> Nat] /\ value' \in [Names -> Values]
    BY <1>0, <1>1, <1>4, <2>1 DEF TypeOK, Values
  <2>3. TypeOK'
    BY <1>0, <1>1, <2>2 DEF TypeOK, Values
  <2>4. touched' \in [Workers -> SUBSET Names] /\ raced' \subseteq Names
    BY <1>0, <1>1, <1>2 DEF MoreTypes, Touch
  <2>5. set' \in [Names -> Strings]
    BY <1>0, <1>1, <1>2 DEF MoreTypes
  <2>6. MoreTypes'
    BY <1>0, <1>1, <2>4, <2>5 DEF MoreTypes, AtProperty
  <2> QED BY <2>3, <2>6
<1>7. \A q \in Names : Ended(q)' /\ Kept(q)'
  <2> TAKE q \in Names
  <2>1. CASE q = p
    BY <1>4, <1>5, <2>1 DEF Ended, Kept
  <2>2. CASE q # p
    <3>1. Ended(q) /\ Kept(q) /\ ~Setting(q)
      BY <2>2 DEF PInv, Setting, p
    <3>2. /\ value'[q] = value[q] /\ set'[q] = set[q]
          /\ q \in raced' <=> q \in raced
      BY <1>5, <2>2
    <3> QED BY <3>1, <3>2 DEF Ended, Kept
  <2> QED BY <2>1, <2>2
<1>8. \A v \in Workers : Held(v)' /\ Picked(v)' /\ Passed(v)'
  <2> TAKE v \in Workers
  <2>1. UNCHANGED <<pc, it, buffer>> /\ Touch(p, Workers) /\ (InWindow(p) => p \in raced')
    BY <1>1
  <2> QED BY <1>2, <1>5, <2>1, Setter
<1> QED BY <1>1, <1>2, <1>4, <1>5, <1>6, <1>7, <1>8 DEF PInv, p, s

LEMMA NextPInv == PInv /\ [Next]_vars => PInv'
<1> SUFFICES ASSUME PInv, [Next]_vars PROVE PInv'
  OBVIOUS
<1>1. CASE WorkerNext
  BY <1>1, QuietStep, CopyPInv, UpdateBeginsPInv, UpdateEndsPInv DEF WorkerNext
<1>2. CASE \E p \in Names, s \in Strings : SetBegins(p, s)
  BY <1>2, SetBeginsPInv
<1>3. CASE SetEnds
  BY <1>3, SetEndsPInv
<1>4. CASE UNCHANGED vars
  BY <1>4 DEF vars, propVars, setVars, PInv, TypeOK, MoreTypes, Ended, Kept, Held, Picked,
              Passed, Clean, Setting, AtProperty, InUpdate, Current, Tailless
<1> QED BY <1>1, <1>2, <1>3, <1>4 DEF Next, Terminated

(* The inductive invariant, for whatever is set, in however many children.   *)
THEOREM PropInductive == Spec => []PInv
<1> QED BY InitPInv, NextPInv, PTL DEF Spec

(* doMrProp loses no value, however many children are at it and wherever     *)
(* they are killed: only a set between a copy and its update can be lost.    *)
THEOREM ValuesSurvive == Spec => []ValuesKept
<1>1. PInv => ValuesKept
  BY DEF PInv, Kept, Setting, ValuesKept
<1> QED BY <1>1, PropInductive, PTL

(* When doMrProp has returned the short read-only properties show no change  *)
(* that was made before it began.                                            *)
THEOREM NoTraceIsLeft == Spec => []TracesGone
<1>1. PInv => TracesGone
  <2> SUFFICES ASSUME PInv, NEW w \in Workers, pc[w] = "done",
                      NEW p \in ReadOnly \ (Long \cup touched[w])
               PROVE  serial[p] = 0 /\ value[p] = Written(CString(value[p]), Zeros)
    BY DEF TracesGone
  <2>1. p \in Names /\ Resettable(p)
    BY MrPropAssumption DEF Names, Resettable
  <2>2. PICK i \in 1..Len(Props) : Props[i] = p
    BY <2>1, PropsAre
  <2>3. i < it[w]
    BY <2>2, PropsAre DEF PInv, Passed, TypeOK
  <2> QED BY <2>1, <2>2, <2>3 DEF PInv, Passed, Clean, Tailless
<1> QED BY <1>1, PropInductive, PTL

(* safeStringCopy keeps its documented contract on every part of every value *)
(* that is copied, with anything behind it, and doMrProp's copy stays inside *)
(* the value.                                                                *)
THEOREM CopyKeepsContract == Spec => []CopyContract
<1>1. PInv => CopyContract
  <2> SUFFICES ASSUME PInv, NEW w \in Workers, pc[w] = "copy"
               PROVE  /\ \A n \in 0..PropValueMax, behind \in Bytes,
                            dest_size \in 0..(PropValueMax + 1) :
                           KeepsContract(SubSeq(value[Current(w)], 1, n)
                             \o [i \in 1..dest_size |-> behind], dest_size)
                      /\ SourceRead(value[Current(w)], PropValueMax) <= PropValueMax
    BY DEF CopyContract
  <2>1. Current(w) \in Names
    BY PropsAre DEF PInv, TypeOK, MoreTypes, AtProperty, Current
  <2>2. value[Current(w)] \in Seq(Bytes) /\ Len(value[Current(w)]) = PropValueMax
    BY <2>1, ValueIsSeq DEF PInv, TypeOK, Values
  <2>3. ASSUME NEW n \in 0..PropValueMax, NEW behind \in Bytes,
               NEW dest_size \in 0..(PropValueMax + 1)
        PROVE  KeepsContract(SubSeq(value[Current(w)], 1, n)
                               \o [i \in 1..dest_size |-> behind], dest_size)
    <3> DEFINE piece == SubSeq(value[Current(w)], 1, n)
               rest  == [i \in 1..dest_size |-> behind]
    <3>1. PropValueMax \in Nat /\ n \in Nat /\ dest_size \in Nat /\ NUL \in Bytes
      BY MrPropAssumption DEF Bytes
    <3>2. piece \in Seq(Bytes) /\ Len(piece) = n
      BY <2>2, PrefixIs
    <3>3. rest \in Seq(Bytes)
      BY <3>1, SeqDef
    <3>4. Len(rest) = dest_size
      BY <3>1, <3>3, LenProperties
    <3> HIDE DEF piece, rest
    <3> DEFINE mem == piece \o rest
    <3>5. mem \in Seq(Bytes) /\ Len(mem) = n + dest_size
      BY <3>2, <3>3, <3>4, ConcatProperties
    <3> HIDE DEF mem
    <3>6. SourceRead(mem, dest_size) <= Len(mem)
      BY <3>1, <3>5, ReadsAtMost
    <3>7. KeepsContract(mem, dest_size)
      BY <3>1, <3>5, <3>6, SafeCopyKeepsContract
    <3> QED BY <3>7 DEF piece, rest, mem
  <2>4. SourceRead(value[Current(w)], PropValueMax) <= PropValueMax
    BY <2>2, MrPropAssumption, ReadsAtMost
  <2> QED BY <2>3, <2>4
<1> QED BY <1>1, PropInductive, PTL

(* Read-write and long properties are not written to: shouldResetProperty    *)
(* has excluded the one a child works on, whatever came between.             *)
THEOREM OthersAreUntouched == Spec => OthersUntouched
<1> DEFINE Untouched(p) ==
      (p \notin ReadOnly \/ p \in Long) /\ setting' = setting
        => serial'[p] = serial[p] /\ value'[p] = value[p]
<1>1. ASSUME PInv, [Next]_vars, NEW p \in Names, ~Resettable(p), setting' = setting
      PROVE  serial'[p] = serial[p] /\ value'[p] = value[p]
  <2>1. CASE WorkerNext
    <3> PICK w \in Workers : \/ Initialize(w) \/ Visit(w) \/ Copy(w) \/ UpdateBegins(w)
                             \/ UpdateEnds(w) \/ Finish(w) \/ Killed(w)
      BY <2>1 DEF WorkerNext
    <3>1. CASE Initialize(w) \/ Visit(w) \/ Copy(w) \/ Finish(w) \/ Killed(w)
      BY <3>1 DEF Initialize, Visit, Copy, Finish, Killed, propVars
    <3>2. CASE UpdateBegins(w) \/ UpdateEnds(w)
      <4>1. Current(w) # p
        BY <1>1, <3>2 DEF UpdateBegins, UpdateEnds, PInv, Picked, AtProperty
      <4> QED BY <1>1, <3>2, <4>1 DEF UpdateBegins, UpdateEnds, PInv, TypeOK
    <3> QED BY <3>1, <3>2
  <2>2. CASE \E q \in Names, s \in Strings : SetBegins(q, s)
    <3>1. setting = <<>> /\ \E q, s : setting' = <<q, s>>
      BY <2>2 DEF SetBegins
    <3> QED BY <1>1, <3>1
  <2>3. CASE SetEnds
    BY <1>1, <2>3 DEF SetEnds
  <2> QED BY <1>1, <2>1, <2>2, <2>3 DEF Next, Terminated, vars
<1>2. PInv /\ [Next]_vars => [\A p \in Names : Untouched(p)]_vars
  BY <1>1 DEF Resettable
<1> QED BY <1>2, PropInductive, PTL DEF Spec, OthersUntouched

-----------------------------------------------------------------------------
(* BootScripts.                                                             *)

(* v is a value that command c leaves behind or leaves alone. *)
Fulfils(c, v) ==
  IF c.test = "diff" THEN v \in {<<>>, c.new} ELSE ~HasText(v, c.arg)

Excused(p) == Setting(p) \/ p \in raced \cup overtaken

(* The commands that were gone past are fulfilled. *)
PassedCommands ==
  \A i \in 1..(line - 1) :
    Fulfils(script[i], CString(value[script[i].name])) \/ Excused(script[i].name)

(* What the shell has read is still there when it tests it. *)
StillRead ==
  CURRENT # <<>> => \/ CString(value[script[line].name]) = CURRENT[1]
                    \/ Excused(script[line].name)

(* A set under way that is not another's is that of a command gone past. *)
OwnSet ==
  setting # <<>> /\ setting[1] \notin overtaken
    => \E i \in 1..(line - 1) : script[i].name = setting[1] /\ script[i].new = setting[2]

ShellTypeOK ==
  /\ script \in Scripts /\ line \in 1..(Len(script) + 1)
  /\ CURRENT # <<>> => (\E x : CURRENT = <<x>>) /\ line <= Len(script)
  /\ booted \in BOOLEAN /\ overtaken \subseteq Names

BInv == PInv /\ ShellTypeOK /\ PassedCommands /\ StillRead /\ OwnSet

(* What the scripts have in common. *)
LEMMA ScriptIs ==
  ASSUME NEW s \in Scripts
  PROVE  /\ Len(s) \in Nat
         /\ \A i \in 1..Len(s) : /\ s[i].name \in Names /\ s[i].new \in Strings
                                 /\ Fulfils(s[i], s[i].new)
                                 /\ \A v : ~Applies(s[i], v) => Fulfils(s[i], v)
         /\ \A i, j \in 1..Len(s) : s[i].name = s[j].name => i = j
<1>1. /\ s \in Seq(Commands) /\ Len(s) \in Nat /\ DOMAIN s = 1..Len(s)
      /\ \A i \in 1..Len(s) : s[i] \in Commands
  BY ScriptsAssumption, LenProperties, ElementOfSeq
<1>2. ASSUME NEW i \in 1..Len(s)
      PROVE  /\ s[i].name \in Names /\ s[i].new \in Strings
             /\ IF s[i].test = "diff" THEN s[i].arg = s[i].new
                ELSE ~HasText(s[i].new, s[i].arg)
  BY <1>1, ScriptsAssumption DEF Commands
<1>3. \A i, j \in 1..Len(s) : s[i].name = s[j].name => i = j
  BY <1>1, ScriptsAssumption
<1>4. ASSUME NEW i \in 1..Len(s)
      PROVE  /\ Fulfils(s[i], s[i].new)
             /\ \A v : ~Applies(s[i], v) => Fulfils(s[i], v)
  BY <1>2 DEF Fulfils, Applies
<1> QED BY <1>1, <1>2, <1>3, <1>4

LEMMA InitBInv == BootInit => BInv
<1> SUFFICES ASSUME BootInit PROVE BInv
  OBVIOUS
<1>1. PInv
  BY InitPInv DEF BootInit
<1>2. ShellTypeOK
  <2>1. /\ script \in Scripts /\ line = 1 /\ CURRENT = <<>> /\ booted = FALSE
        /\ overtaken = {}
    BY DEF BootInit
  <2>2. Len(script) \in Nat
    BY <2>1, ScriptIs
  <2>3. line \in 1..(Len(script) + 1)
    BY <2>1, <2>2
  <2>4. overtaken \subseteq Names /\ booted \in BOOLEAN
    BY <2>1
  <2> QED BY <2>1, <2>3, <2>4, Zenon DEF ShellTypeOK
<1>3. PassedCommands /\ StillRead /\ OwnSet
  BY DEF BootInit, Init, PassedCommands, StillRead, OwnSet
<1> QED BY <1>1, <1>2, <1>3 DEF BInv

(* Every step beside the scripts is one of MrProp's. *)
LEMMA BootStepIsNext ==
  ASSUME ShellTypeOK, [BootNext]_bootVars
  PROVE  [Next]_vars
<1>1. CASE TestAndSet
  <2>1. Command.name \in Names /\ Command.new \in Strings
    BY <1>1, ScriptIs DEF ShellTypeOK, Command, TestAndSet
  <2> QED BY <1>1, <2>1 DEF TestAndSet, Next
<1>2. CASE SetByOther
  BY <1>2 DEF SetByOther, Next
<1>3. CASE Read \/ BootCompletes \/ UNCHANGED bootVars
  BY <1>3 DEF Read, BootCompletes, bootVars
<1> QED BY <1>1, <1>2, <1>3 DEF BootNext, Next

(* A child's step leaves the string of every property as it is, unless a set *)
(* is under way or raced with it.                                            *)
LEMMA WorkerEffect ==
  ASSUME PInv, WorkerNext
  PROVE  /\ \A p \in Names : CString(value'[p]) = CString(value[p]) \/ p \in raced \/ Setting(p)
         /\ raced \subseteq raced' /\ setting' = setting
<1> USE DEF propVars, setVars
<1> PICK w \in Workers : \/ Initialize(w) \/ Visit(w) \/ Copy(w) \/ UpdateBegins(w)
                         \/ UpdateEnds(w) \/ Finish(w) \/ Killed(w)
  BY DEF WorkerNext
<1>1. CASE UpdateEnds(w)
  BY <1>1, UpdateEndsPInv DEF UpdateEnds
<1>2. CASE Copy(w)
  BY <1>2 DEF Copy
<1>3. CASE Initialize(w) \/ Visit(w) \/ UpdateBegins(w) \/ Finish(w) \/ Killed(w)
  BY <1>3 DEF Initialize, Visit, UpdateBegins, Finish, Killed
<1> QED BY <1>1, <1>2, <1>3

LEMMA NextBInv == BInv /\ [BootNext]_bootVars => BInv'
<1> SUFFICES ASSUME BInv, [BootNext]_bootVars PROVE BInv'
  OBVIOUS
<1>0. /\ PInv /\ ShellTypeOK /\ PassedCommands /\ StillRead /\ OwnSet
      /\ line \in Nat /\ Len(script) \in Nat
      /\ MoreTypes
      /\ \A i \in 1..Len(script) : script[i].name \in Names
  BY ScriptIs DEF BInv, ShellTypeOK, PInv
<1>1. PInv'
  BY <1>0, BootStepIsNext, NextPInv
<1>2. CASE Read
  <2>1. /\ CURRENT' = <<CString(value[script[line].name])>> /\ line <= Len(script)
        /\ UNCHANGED <<vars, script, line, booted>>
        /\ overtaken' = IF Setting(script[line].name) THEN overtaken
                        ELSE overtaken \ {script[line].name}
    BY <1>2 DEF Read, AtCommand, Command, Setting
  <2>2. UNCHANGED <<value, setting, raced>>
    BY <2>1 DEF vars
  <2>3. ShellTypeOK' /\ StillRead'
    BY <1>0, <2>1, <2>2 DEF ShellTypeOK, StillRead
  <2>4. \A i \in 1..(line - 1) : script[i].name # script[line].name
    BY <1>0, <2>1, ScriptIs DEF ShellTypeOK
  <2>5. PassedCommands'
    BY <1>0, <2>1, <2>2, <2>4 DEF PassedCommands, Excused, Setting
  <2>6. OwnSet'
    BY <1>0, <2>1, <2>2 DEF OwnSet, Setting
  <2> QED BY <1>1, <2>3, <2>5, <2>6 DEF BInv
<1>3. CASE TestAndSet
  <2>1. /\ line <= Len(script) /\ line' = line + 1 /\ CURRENT' = <<>>
        /\ UNCHANGED <<script, booted, overtaken>>
    BY <1>0, <1>3 DEF TestAndSet, ShellTypeOK
  <2>2. ShellTypeOK' /\ StillRead'
    <3>1. line' \in 1..(Len(script) + 1)
      BY <1>0, <2>1
    <3> QED BY <1>0, <2>1, <3>1 DEF ShellTypeOK, StillRead
  <2>3. CASE Applies(Command, CURRENT[1])
    <3>1. /\ setting = <<>> /\ setting' = <<script[line].name, script[line].new>>
          /\ \A q \in Names : q # script[line].name =>
                value'[q] = value[q] /\ (q \in raced' <=> q \in raced)
      BY <1>0, <1>3, <2>3 DEF TestAndSet, Command, SetBegins, PInv, TypeOK
    <3>2. PassedCommands'
      <4> SUFFICES ASSUME NEW i \in 1..(line' - 1), script[i].name # script[line].name
                   PROVE  \/ Fulfils(script[i], CString(value'[script[i].name]))
                          \/ script[i].name \in raced' \cup overtaken
        BY <2>1, <3>1 DEF PassedCommands, Excused, Setting
      <4>1. i \in 1..(line - 1) /\ i \in 1..Len(script)
        BY <1>0, <2>1
      <4> QED BY <1>0, <3>1, <4>1 DEF PassedCommands, Excused, Setting
    <3>3. OwnSet'
      BY <1>0, <2>1, <3>1 DEF OwnSet, ShellTypeOK
    <3> QED BY <1>1, <2>2, <3>2, <3>3 DEF BInv
  <2>4. CASE ~Applies(Command, CURRENT[1])
    <3>1. UNCHANGED <<value, setting, raced>>
      BY <1>3, <2>4 DEF TestAndSet, vars
    <3>2. Fulfils(script[line], CString(value[script[line].name])) \/ Excused(script[line].name)
      <4>1. Fulfils(script[line], CURRENT[1])
        BY <1>0, <2>1, <2>4, ScriptIs DEF ShellTypeOK, Command
      <4> QED BY <1>0, <1>3, <4>1 DEF StillRead, TestAndSet
    <3>3. PassedCommands'
      <4> SUFFICES ASSUME NEW i \in 1..line
                   PROVE  Fulfils(script[i], CString(value[script[i].name])) \/ Excused(script[i].name)
        BY <1>0, <2>1, <3>1 DEF PassedCommands, Excused, Setting
      <4> QED BY <1>0, <3>2 DEF PassedCommands
    <3>4. OwnSet'
      BY <1>0, <2>1, <3>1 DEF OwnSet
    <3> QED BY <1>1, <2>2, <3>3, <3>4 DEF BInv
  <2> QED BY <2>3, <2>4
(* The steps that move only properties. *)
<1>4. ASSUME UNCHANGED <<script, line, CURRENT>>, overtaken \subseteq overtaken',
             overtaken' \subseteq Names, booted' \in BOOLEAN, OwnSet',
             \A p \in Names :
               \/ Excused(p)'
               \/ ~Excused(p) /\ CString(value'[p]) = CString(value[p])
               \/ \E i \in 1..(line - 1) : script[i].name = p
                                         /\ script[i].new = CString(value'[p])
      PROVE  BInv'
  <2>1. ShellTypeOK'
    BY <1>0, <1>4 DEF ShellTypeOK
  <2>2. PassedCommands'
    <3> SUFFICES ASSUME NEW i \in 1..(line - 1), ~Excused(script[i].name)'
                 PROVE  Fulfils(script[i], CString(value'[script[i].name]))
      BY <1>4 DEF PassedCommands
    <3>1. i \in 1..Len(script) /\ script[i].name \in Names
      BY <1>0 DEF ShellTypeOK
    <3>2. CASE ~Excused(script[i].name) /\ CString(value'[script[i].name]) = CString(value[script[i].name])
      BY <1>0, <3>2 DEF PassedCommands
    <3>3. CASE \E j \in 1..(line - 1) : script[j].name = script[i].name
                                       /\ script[j].new = CString(value'[script[i].name])
      <4> PICK j \in 1..(line - 1) : script[j].name = script[i].name
                                    /\ script[j].new = CString(value'[script[i].name])
        BY <3>3
      <4>1. j \in 1..Len(script) /\ j = i
        BY <1>0, <3>1, ScriptIs DEF ShellTypeOK
      <4> QED BY <3>1, <4>1, ScriptIs, <1>0 DEF ShellTypeOK
    <3> QED BY <1>4, <3>1, <3>2, <3>3
  <2>3. StillRead'
    <3> SUFFICES ASSUME CURRENT # <<>>, ~Excused(script[line].name)'
                 PROVE  CString(value'[script[line].name]) = CURRENT[1]
      BY <1>4 DEF StillRead
    <3>1. line \in 1..Len(script) /\ script[line].name \in Names
      BY <1>0 DEF ShellTypeOK
    <3>2. ~\E i \in 1..(line - 1) : script[i].name = script[line].name
      BY <1>0, <3>1, ScriptIs DEF ShellTypeOK
    <3> QED BY <1>0, <1>4, <3>1, <3>2 DEF StillRead
  <2> QED BY <1>1, <1>4, <2>1, <2>2, <2>3 DEF BInv
<1>5. CASE BootCompletes \/ UNCHANGED bootVars \/ (Terminated /\ UNCHANGED scriptVars)
  <2>1. /\ UNCHANGED <<vars, script, line, CURRENT, overtaken>>
        /\ booted' \in BOOLEAN
    BY <1>0, <1>5 DEF BootCompletes, bootVars, scriptVars, Terminated, ShellTypeOK
  <2>2. UNCHANGED <<value, setting, raced>>
    BY <2>1 DEF vars
  <2>3. OwnSet' /\ \A p : Excused(p)' <=> Excused(p)
    BY <1>0, <2>1, <2>2 DEF OwnSet, Excused, Setting
  <2> QED BY <1>0, <1>4, <2>1, <2>2, <2>3 DEF ShellTypeOK
<1>6. CASE WorkerNext /\ UNCHANGED scriptVars
  <2>1. UNCHANGED <<script, line, CURRENT, overtaken, booted>>
    BY <1>6 DEF scriptVars
  <2>2. /\ \A p \in Names : CString(value'[p]) = CString(value[p]) \/ p \in raced \/ Setting(p)
        /\ raced \subseteq raced' /\ setting' = setting
    BY <1>0, <1>6, WorkerEffect
  <2>3. OwnSet'
    BY <1>0, <2>1, <2>2 DEF OwnSet
  <2>4. \A p : Excused(p) => Excused(p)'
    BY <2>1, <2>2 DEF Excused, Setting
  <2>5. \A p \in Names : Excused(p)' \/ (~Excused(p) /\ CString(value'[p]) = CString(value[p]))
    BY <2>2, <2>4 DEF Excused
  <2> QED BY <1>0, <1>4, <2>1, <2>3, <2>5 DEF ShellTypeOK
<1>7. CASE SetByOther
  <2>1. PICK p \in Names, s \in Strings : SetBegins(p, s)
    BY <1>7 DEF SetByOther
  <2>2. /\ UNCHANGED <<script, line, CURRENT, booted>>
        /\ setting = <<>> /\ setting' = <<p, s>> /\ overtaken' = overtaken \cup {p}
        /\ \A q \in Names : q # p => value'[q] = value[q] /\ (q \in raced' <=> q \in raced)
    BY <1>0, <1>7, <2>1 DEF SetByOther, SetBegins, PInv, TypeOK
  <2>3. OwnSet'
    BY <2>2 DEF OwnSet
  <2>4. \A q \in Names : Excused(q)' \/ (~Excused(q) /\ value'[q] = value[q])
    BY <2>2 DEF Excused, Setting
  <2> QED BY <1>0, <1>4, <2>2, <2>3, <2>4 DEF ShellTypeOK
<1>8. CASE SetEnds /\ UNCHANGED scriptVars
  <2>1. UNCHANGED <<script, line, CURRENT, overtaken, booted>>
    BY <1>8 DEF scriptVars
  <2>2. /\ setting[1] \in Names /\ CString(value'[setting[1]]) = setting[2]
        /\ \A q \in Names \ {setting[1]} : value'[q] = value[q]
        /\ raced \subseteq raced' /\ setting' = <<>> /\ setting # <<>>
    BY <1>0, <1>8, SetEndsPInv DEF SetEnds
  <2>3. OwnSet'
    BY <2>2 DEF OwnSet
  <2>4. \A q \in Names : \/ Excused(q)'
                         \/ ~Excused(q) /\ CString(value'[q]) = CString(value[q])
                         \/ \E i \in 1..(line - 1) : script[i].name = q
                                                   /\ script[i].new = CString(value'[q])
    <3> TAKE q \in Names
    <3>1. CASE q = setting[1] /\ q \in overtaken
      <4>1. Excused(q)'
        BY <2>1, <3>1 DEF Excused
      <4> QED BY <4>1
    <3>3. CASE q = setting[1] /\ q \notin overtaken
      <4>1. PICK i \in 1..(line - 1) : script[i].name = q /\ script[i].new = setting[2]
        BY <1>0, <2>2, <3>3 DEF OwnSet
      <4>2. script[i].new = CString(value'[q])
        BY <2>2, <3>3, <4>1
      <4> QED BY <4>1, <4>2
    <3>2. CASE q # setting[1]
      BY <2>1, <2>2, <3>2 DEF Excused, Setting
    <3> QED BY <3>1, <3>2, <3>3
  <2> QED BY <1>0, <1>4, <2>1, <2>3, <2>4 DEF ShellTypeOK
<1> QED BY <1>2, <1>3, <1>5, <1>6, <1>7, <1>8 DEF BootNext

(* The inductive invariant of the scripts beside the children. *)
THEOREM BootInductive == BootSpec => []BInv
<1> QED BY InitBInv, NextBInv, PTL DEF BootSpec

(* post-fs-data.sh and service.sh are one more of those who set properties:  *)
(* what holds of doMrProp beside any setter holds beside them.               *)
THEOREM BootIsMrProp == BootSpec => Spec
<1>1. BootInit => Init
  BY DEF BootInit
<1>2. BInv /\ [BootNext]_bootVars => [Next]_vars
  BY BootStepIsNext DEF BInv
<1> QED BY <1>1, <1>2, BootInductive, PTL DEF BootSpec, Spec

(* The state of the scripts and of the children is what is declared, whatever *)
(* is set: no worker's buffer overflows or lacks its NUL.                    *)
THEOREM BootTyped == BootSpec => []BootTypeOK
<1>1. BInv => BootTypeOK
  <2> SUFFICES ASSUME BInv PROVE BootTypeOK
    OBVIOUS
  <2>1. Len(<<>>) = 0 /\ \A x : Len(<<x>>) = 1
    BY EmptySeq
  <2>2. Len(CURRENT) <= 1
    <3>1. CASE CURRENT = <<>>
      BY <2>1, <3>1
    <3>2. CASE CURRENT # <<>>
      <4>1. PICK x : CURRENT = <<x>>
        BY <3>2 DEF BInv, ShellTypeOK
      <4>2. Len(<<x>>) = 1
        BY <2>1
      <4> QED BY <4>1, <4>2
    <3> QED BY <3>1, <3>2
  <2> QED BY <2>2 DEF BInv, PInv, ShellTypeOK, BootTypeOK
<1> QED BY <1>1, BootInductive, PTL

(* A property the scripts have gone past has the value they ask for, unless  *)
(* others set it since or a set fell between a child's copy and its update.  *)
THEOREM ScriptsSanitise == BootSpec => []Sanitised
<1>1. BInv => Sanitised
  BY DEF BInv, PassedCommands, Fulfils, Excused, Setting, Sanitised
<1> QED BY <1>1, BootInductive, PTL

(* doMrProp's promises hold beside the scripts. *)
THEOREM PromisesBesideScripts ==
  BootSpec => [](ValuesKept /\ TracesGone /\ CopyContract) /\ OthersUntouched
<1> QED BY BootIsMrProp, ValuesSurvive, NoTraceIsLeft, CopyKeepsContract,
           OthersAreUntouched, PTL DEF OthersUntouched
=============================================================================
