----------------------------- MODULE MountInfo -----------------------------
(***************************************************************************)
(* src/module/jni/mountinfo_parser.cpp and shouldUnmount of modules.cpp:    *)
(* what the library reads from /proc/self/mountinfo, and which of the       *)
(* mounts it takes for a root solution's.                                   *)
(*                                                                          *)
(* A string is a sequence of tokens, a path has the token "/" before every  *)
(* name: operator+ is \o and starts_with is IsPrefix, so that /data/adb2,   *)
(* <<"/", "data", "/", "adb", "2">>, starts with /data/adb as it does in C++. *)
(***************************************************************************)
EXTENDS Naturals, Sequences, SequencesExt, FiniteSetsExt

CONSTANT Tokens   \* those that strings are made of

(* A comma, a space, and the escape the kernel writes for one. *)
Comma        == ","
Space        == " "
EscapedSpace == "\\040"

ASSUME TokensAssumption ==
  {"/", "data", "adb", "debug_ramdisk", Space, EscapedSpace} \subseteq Tokens

Root == <<"/">>

(* A mount.  at is the chain of mount ids from the namespace's root mount to *)
(* this one, each mounted on the one before; source is "" if it has none;    *)
(* super is the text of its super options.                                   *)
Mount(at, dev, root, point, type, source, super) ==
  [at |-> at, dev |-> dev, root |-> root, point |-> point,
   type |-> type, source |-> source, super |-> super]

(* Names with a backslash, which the kernel escapes too, are left out. *)
Text    == Seq(Tokens)
Path    == {s \in Text : /\ s # <<>> /\ s[1] = "/"
                         /\ \A i \in DOMAIN s : s[i] # EscapedSpace}
MountOf == [at : Seq(Nat) \ {<<>>}, dev : STRING, root : Path, point : Path,
            type : STRING, source : STRING, super : Text]

-----------------------------------------------------------------------------
(* parseMountOptions.                                                       *)

(* What std::getline reads of s from index i on, up to a delimiter. *)
UpTo(s, i, delimiter) ==
  SubSeq(s, i, Min({j \in i..Len(s) : s[j] = delimiter} \cup {Len(s) + 1}) - 1)

(* A mutant: the key goes up to the last '='. *)
KeyAtLast(token) ==
  SubSeq(token, 1, Max({j \in DOMAIN token : token[j] = "="} \cup {1}) - 1)

(* A token's key goes up to its first '=', its value is all that follows. *)
Key(token)   == UpTo(token, 1, "=")
Value(token) == SubSeq(token, Len(Key(token)) + 2, Len(token))

(* Where the tokens of a text start. *)
Starts(text) == {1} \cup {i + 1 : i \in {j \in DOMAIN text : text[j] = Comma}}

(* The map from keys to values; the last of several values of a key stays,   *)
(* and an empty token adds nothing.                                          *)
parseMountOptions(text) ==
  LET token(i) == UpTo(text, i, Comma)
      entries  == {i \in Starts(text) : token(i) # <<>>}
  IN  [k \in {Key(token(i)) : i \in entries} |->
         Value(token(Max({i \in entries : Key(token(i)) = k})))]

-----------------------------------------------------------------------------
(* show_mountinfo of the kernel writes a space in a path as \040. *)
Mangle(s) == [i \in DOMAIN s |-> IF s[i] = Space THEN EscapedSpace ELSE s[i]]

(* A table is a function from numbers that ascend in the file's order.       *)

(* The mounts whose lines parse.  Words are read across any white space: the *)
(* line of a mount without a source has one word too few and is skipped.     *)
Parsed(table) == Restrict(table, {i \in DOMAIN table : table[i].source # ""})

(* parseSelfMountinfo(false): the entries in the file's order, with every    *)
(* path as it is written there.                                              *)
parseSelfMountinfo(table) ==
  [i \in DOMAIN Parsed(table) |->
     [table[i] EXCEPT !.root = Mangle(@), !.point = Mangle(@),
                      !.super = parseMountOptions(Mangle(@))]]

(* A mutant: the test for root "/" is left out. *)
DeviceMountAny(infos, dev) ==
  LET any == {i \in DOMAIN infos : infos[i].dev = dev}
  IN  IF any = {} THEN <<>> ELSE infos[Max(any)].point

(* mountinfo_root_resolver: where the root of a device is mounted, <<>> if   *)
(* nowhere; the last such mount in the file overwrites the others.           *)
DeviceMount(infos, dev) ==
  LET full == {i \in DOMAIN infos : infos[i].dev = dev /\ infos[i].root = Root}
  IN  IF full = {} THEN <<>> ELSE infos[Max(full)].point

resolveRootOf(infos, m) ==
  LET mounted == DeviceMount(infos, m.dev)
  IN  IF mounted \in {<<>>, Root} THEN m.root ELSE mounted \o m.root

-----------------------------------------------------------------------------
mountdir_list == {<<"/", "data", "/", "adb">>, <<"/", "debug_ramdisk">>}
fsname_list   == {"KSU", "APatch", "magisk", "worker"}

shouldUnmount(infos, m) ==
  \/ \E dir \in mountdir_list :
       \/ IsPrefix(dir, resolveRootOf(infos, m))
       \/ IsPrefix(dir, m.point)
       \/ /\ m.type = "overlay"
          /\ \E k \in DOMAIN m.super \cap {<<"lowerdir">>, <<"upperdir">>, <<"workdir">>} :
               IsPrefix(dir, m.super[k])
  \/ m.type \in {"overlay", "tmpfs"} /\ m.source \in fsname_list
=============================================================================
