------------------------------- MODULE MrProp -------------------------------
(***************************************************************************)
(* doMrProp and shouldResetProperty of src/module/jni/modules.cpp.  The     *)
(* companion's children run doMrProp on property memory that they share     *)
(* with each other and with whoever sets properties (init, resetprop).      *)
(* Nothing is locked: a property is tested, copied and written back in      *)
(* steps of their own.                                                      *)
(*                                                                          *)
(* __system_property_update and the other setters are external.  A serial's *)
(* low 24 bits are odd while a value is being written and count the changes; *)
(* the submodule's update leaves them 0 and fills the rest of the value with *)
(* NULs, which is what doMrProp calls it for.                               *)
(***************************************************************************)
EXTENDS StringCopy, SequencesExt

CONSTANTS
  Workers,       \* children that call doMrProp
  Props,         \* properties in the order __system_property_foreach has
  ReadOnly,      \* those whose name starts with "ro."
  Long,          \* those with is_long()
  Strings,       \* values that may be set
  PropValueMax,  \* PROP_VALUE_MAX
  MaxSets        \* bound on the values that are set

ASSUME MrPropAssumption ==
  /\ Props \in Seq(Range(Props))
  /\ ReadOnly \subseteq Range(Props) /\ Long \subseteq Range(Props)
  /\ PropValueMax \in Nat \ {0} /\ MaxSets \in Nat
  /\ Strings \subseteq Seq(Nat)
  /\ \A s \in Strings : Len(s) < PropValueMax /\ CString(s) = s

VARIABLES
  serial,   \* serial[p]: the low 24 bits
  value,    \* value[p]: PropValueMax bytes
  setting,  \* the set under way, <<p, s>>, or <<>>
  sets,
  set,      \* set[p]: the string that was set last (for the properties)
  raced,    \* properties with a set between some worker's copy and update
  touched,  \* touched[w]: properties set or half updated since w began
  pc, it, buffer

vars == <<serial, value, setting, sets, set, raced, touched, pc, it, buffer>>
propVars == <<serial, value>>
setVars  == <<setting, sets, set>>

Names == Range(Props)
Bytes == {NUL} \cup UNION {Range(s) : s \in Strings}

TypeOK ==
  /\ serial \in [Names -> Nat]
  /\ value \in [Names -> [1..PropValueMax -> Bytes]]
  /\ sets \in 0..MaxSets
  /\ pc \in [Workers -> {"init", "foreach", "copy", "update", "store", "done", "failed", "killed"}]
  /\ it \in [Workers -> 1..(Len(Props) + 1)]
  /\ \A w \in Workers : /\ Len(buffer[w]) <= PropValueMax
                        /\ pc[w] \in {"update", "store"} => NUL \in Range(buffer[w])

(* s in a value of PropValueMax bytes, the others as in old. *)
Written(s, old) ==
  [i \in 1..PropValueMax |->
     IF i <= Len(s) THEN s[i] ELSE IF i = Len(s) + 1 THEN NUL ELSE old[i]]

Zeros == [i \in 1..PropValueMax |-> NUL]

(* What init has set at boot, never changed since. *)
Init ==
  /\ set \in [Names -> Strings]
  /\ serial = [p \in Names |-> 0]
  /\ value = [p \in Names |-> Written(set[p], Zeros)]
  /\ setting = <<>> /\ sets = 0 /\ raced = {}
  /\ touched = [w \in Workers |-> {}]
  /\ pc = [w \in Workers |-> "init"]
  /\ it = [w \in Workers |-> 1]
  /\ buffer = [w \in Workers |-> <<>>]

Dirty(n) == IF n % 2 = 0 THEN n + 1 ELSE n

(* p is written to: what the other workers have seen of it may be out of     *)
(* date.                                                                     *)
Touch(p, others) ==
  touched' = [w \in Workers |->
                IF w \in others /\ pc[w] \notin {"init", "failed", "killed"}
                  THEN touched[w] \cup {p} ELSE touched[w]]

-----------------------------------------------------------------------------
(* doMrProp.                                                                *)

(* A mutant: the bytes behind the string are not looked at. *)
HasTailNever(v) == FALSE

(* Characters beyond the null-terminated string. *)
HasTail(v) == \E i \in (StrNLen(v) + 1)..PropValueMax : v[i] # NUL

(* A mutant: the name is not looked at. *)
ResettableAny(p) == p \notin Long

(* Read-write properties and those with long values are left alone. *)
Resettable(p) == p \in ReadOnly /\ p \notin Long

shouldResetProperty(p) == Resettable(p) /\ (serial[p] # 0 \/ HasTail(value[p]))

Current(w) == Props[it[w]]

(* __system_properties_init, which may fail; isInitialized is still false    *)
(* in a child that was just forked.                                          *)
Initialize(w) ==
  /\ pc[w] = "init"
  /\ \E ok \in BOOLEAN : pc' = [pc EXCEPT ![w] = IF ok THEN "foreach" ELSE "failed"]
  /\ UNCHANGED <<propVars, setVars, raced, touched, it, buffer>>

(* The callback of __system_property_foreach for the next property. *)
Visit(w) ==
  /\ pc[w] = "foreach"
  /\ it[w] <= Len(Props)
  /\ IF shouldResetProperty(Current(w))
       THEN pc' = [pc EXCEPT ![w] = "copy"] /\ UNCHANGED it
       ELSE it' = [it EXCEPT ![w] = @ + 1] /\ UNCHANGED pc
  /\ UNCHANGED <<propVars, setVars, raced, touched, buffer>>

(* The value is copied to the stack, whatever its serial says. *)
Copy(w) ==
  /\ pc[w] = "copy"
  /\ buffer' = [buffer EXCEPT ![w] = safeStringCopy(value[Current(w)], PropValueMax)]
  /\ raced' = IF setting # <<>> /\ setting[1] = Current(w)
                THEN raced \cup {Current(w)} ELSE raced
  /\ pc' = [pc EXCEPT ![w] = "update"]
  /\ UNCHANGED <<propVars, setVars, touched, it>>

(* __system_property_update marks the property ... *)
UpdateBegins(w) ==
  /\ pc[w] = "update"
  /\ serial' = [serial EXCEPT ![Current(w)] = Dirty(@)]
  /\ Touch(Current(w), Workers \ {w})
  /\ pc' = [pc EXCEPT ![w] = "store"]
  /\ UNCHANGED <<value, setVars, raced, it, buffer>>

(* A mutant: the length is one short. *)
UpdateLengthShort(b) == IF StrNLen(b) = 0 THEN 0 ELSE StrNLen(b) - 1

(* safeStringCopy's result, passed on as the length. *)
UpdateLength(b) == StrNLen(b)

(* ... and stores the string, with the serial of a value never changed. *)
UpdateEnds(w) ==
  LET p == Current(w)
      s == SubSeq(buffer[w], 1, UpdateLength(buffer[w]))
  IN  /\ pc[w] = "store"
      /\ value' = [value EXCEPT ![p] = Written(s, Zeros)]
      /\ serial' = [serial EXCEPT ![p] = 0]
      /\ pc' = [pc EXCEPT ![w] = "foreach"]
      /\ it' = [it EXCEPT ![w] = @ + 1]
      /\ buffer' = [buffer EXCEPT ![w] = <<>>]
      /\ UNCHANGED <<setVars, raced, touched>>

Finish(w) ==
  /\ pc[w] = "foreach"
  /\ it[w] > Len(Props)
  /\ pc' = [pc EXCEPT ![w] = "done"]
  /\ UNCHANGED <<propVars, setVars, raced, touched, it, buffer>>

(* A signal ends the child, and its memory is gone. *)
Killed(w) ==
  /\ pc[w] \notin {"done", "failed", "killed"}
  /\ pc' = [pc EXCEPT ![w] = "killed"]
  /\ it' = [it EXCEPT ![w] = 1]
  /\ buffer' = [buffer EXCEPT ![w] = <<>>]
  /\ touched' = [touched EXCEPT ![w] = {}]
  /\ UNCHANGED <<propVars, setVars, raced>>

-----------------------------------------------------------------------------
(* Somebody sets a property.                                                *)

InWindow(p) ==
  \E w \in Workers : pc[w] \in {"update", "store"} /\ Current(w) = p

(* The property is marked and the first byte written. *)
SetBegins(p, s) ==
  /\ setting = <<>>
  /\ sets < MaxSets
  /\ setting' = <<p, s>>
  /\ sets' = sets + 1
  /\ serial' = [serial EXCEPT ![p] = Dirty(@)]
  /\ value' = [value EXCEPT ![p][1] = IF s = <<>> THEN NUL ELSE s[1]]
  /\ raced' = IF InWindow(p) THEN raced \cup {p} ELSE raced \ {p}
  /\ Touch(p, Workers)
  /\ UNCHANGED <<set, pc, it, buffer>>

(* The rest of the string; the bytes behind it stay.  resetprop leaves the   *)
(* serial of a read-only property as if it had never been changed.           *)
SetEnds ==
  LET p == setting[1]
  IN  /\ setting # <<>>
      /\ setting' = <<>>
      /\ set' = [set EXCEPT ![p] = setting[2]]
      /\ value' = [value EXCEPT ![p] = Written(setting[2], @)]
      /\ \E n \in {Dirty(serial[p]) + 1} \cup (IF p \in ReadOnly THEN {0} ELSE {}) :
           serial' = [serial EXCEPT ![p] = n]
      /\ raced' = IF InWindow(p) THEN raced \cup {p} ELSE raced
      /\ Touch(p, Workers)
      /\ UNCHANGED <<sets, pc, it, buffer>>

Terminated ==
  /\ \A w \in Workers : pc[w] \in {"done", "failed", "killed"}
  /\ setting = <<>>
  /\ UNCHANGED vars

WorkerNext ==
  \E w \in Workers :
    \/ Initialize(w) \/ Visit(w) \/ Copy(w) \/ UpdateBegins(w)
    \/ UpdateEnds(w) \/ Finish(w) \/ Killed(w)

Next ==
  \/ WorkerNext
  \/ \E p \in Names, s \in Strings : SetBegins(p, s)
  \/ SetEnds
  \/ Terminated

Spec == Init /\ [][Next]_vars

-----------------------------------------------------------------------------
(* doMrProp, in however many children and wherever they are killed, leaves   *)
(* every property with the string that was set last: unless a set came       *)
(* between a worker's copy and its update of that property, whose value is   *)
(* then lost or mixed.                                                       *)
ValuesKept ==
  \A p \in Names :
    \/ CString(value[p]) = set[p]
    \/ setting # <<>> /\ setting[1] = p
    \/ p \in raced

(* safeStringCopy keeps its documented contract (KeepsContract) for every    *)
(* value that a worker copies, every piece of it, whatever lies behind the   *)
(* piece, and every size; and doMrProp's own copy reads nothing behind the   *)
(* value.                                                                    *)
CopyContract ==
  \A w \in {v \in Workers : pc[v] = "copy"} :
    /\ \A n \in 0..PropValueMax, behind \in Bytes,
          dest_size \in 0..(PropValueMax + 1) :
         KeepsContract(SubSeq(value[Current(w)], 1, n)
                         \o [i \in 1..dest_size |-> behind], dest_size)
    /\ SourceRead(value[Current(w)], PropValueMax) <= PropValueMax

(* Once doMrProp has returned, no short read-only property shows a trace of  *)
(* a change that was made before it began: neither a serial that counts nor  *)
(* bytes behind the string.                                                  *)
TracesGone ==
  \A w \in Workers : pc[w] = "done" =>
    \A p \in ReadOnly \ (Long \cup touched[w]) :
      serial[p] = 0 /\ value[p] = Written(CString(value[p]), Zeros)

(* Read-write properties, whose serial their readers wait on, and long ones, *)
(* whose value is not in place, change only when they are set.               *)
OthersUntouched ==
  [][\A p \in Names :
       (p \notin ReadOnly \/ p \in Long) /\ setting' = setting
         => serial'[p] = serial[p] /\ value'[p] = value[p]]_vars
=============================================================================
