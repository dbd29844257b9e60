---------------------------- MODULE BootScripts ----------------------------
(***************************************************************************)
(* post-fs-data.sh and service.sh of src/module/template: a shell that goes *)
(* through a list of commands on system properties, over the properties of  *)
(* MrProp, whose children begin to rewrite them as soon as the first apps   *)
(* start.  A command reads a property and sets it later: nothing is locked. *)
(*                                                                          *)
(* With the file skipdelprop in place, so that no property is deleted.      *)
(***************************************************************************)
EXTENDS MrProp

CONSTANT Scripts   \* the lists of commands the shell may have to go through

Commands ==
  [phase : {"post-fs-data", "service", "late"},
   test  : {"diff", "match"}, name : Names, arg : Seq(Bytes), new : Strings]

(* grep -q: the text is somewhere in the string. *)
HasText(string, text) ==
  \E i \in DOMAIN string : IsPrefix(text, SubSeq(string, i, Len(string)))

(* What the two scripts have in common: resetprop_if_diff sets what it       *)
(* expects, no new value contains the text its resetprop_if_match looks for, *)
(* and no script has two commands about a property.                          *)
ASSUME ScriptsAssumption ==
  \A s \in Scripts :
    /\ s \in Seq(Commands)
    /\ \A i \in DOMAIN s : IF s[i].test = "diff" THEN s[i].arg = s[i].new
                                                ELSE ~HasText(s[i].new, s[i].arg)
    /\ \A i, j \in DOMAIN s : s[i].name = s[j].name => i = j

VARIABLES
  script,     \* the commands
  line,       \* the next one
  CURRENT,    \* what it has read, <<>> or <<the string>>
  booted,     \* service.sh has seen sys.boot_completed = 1
  overtaken   \* names that others set after the script (for the properties)

scriptVars == <<script, line, CURRENT, booted, overtaken>>
bootVars   == <<vars, scriptVars>>

BootTypeOK ==
  /\ TypeOK
  /\ script \in Scripts /\ line \in 1..(Len(script) + 1)
  /\ Len(CURRENT) <= 1
  /\ booted \in BOOLEAN /\ overtaken \subseteq Names

BootInit ==
  /\ Init
  /\ script \in Scripts /\ line = 1
  /\ CURRENT = <<>> /\ booted = FALSE /\ overtaken = {}

Command == script[line]
AtCommand == line <= Len(script)

(* Zygote, and with it the children, start when post-fs-data.sh has ended. *)
ZygoteRuns == AtCommand => Command.phase # "post-fs-data"

(* A mutant: the test of resetprop_if_diff the other way round. *)
AppliesIfSame(c, current) == current = c.arg

(* resetprop_if_diff sets a property that has a value and another than       *)
(* expected; resetprop_if_match sets one that contains a text.               *)
Applies(c, current) ==
  IF c.test = "diff" THEN current # <<>> /\ current # c.arg
  ELSE HasText(current, c.arg)

(* CURRENT="$(resetprop "$NAME")".  The part of service.sh in the background *)
(* waits for boot_completed.  The value of a read-only property is read as   *)
(* it is, that of another once it is not being written.  A set under way now *)
(* ends after the read.                                                      *)
Read ==
  /\ AtCommand
  /\ CURRENT = <<>>
  /\ Command.phase = "late" => booted
  /\ Command.name \in ReadOnly \/ serial[Command.name] % 2 = 0
  /\ CURRENT' = <<CString(value[Command.name])>>
  /\ overtaken' = IF setting # <<>> /\ setting[1] = Command.name
                    THEN overtaken ELSE overtaken \ {Command.name}
  /\ UNCHANGED <<vars, script, line, booted>>

(* The test, and resetprop -n where it says so. *)
TestAndSet ==
  /\ CURRENT # <<>>
  /\ IF Applies(Command, CURRENT[1])
       THEN SetBegins(Command.name, Command.new)
       ELSE UNCHANGED vars
  /\ CURRENT' = <<>>
  /\ line' = line + 1
  /\ UNCHANGED <<script, booted, overtaken>>

(* until [ "$(getprop sys.boot_completed)" = "1" ]: the loop ends, sooner or  *)
(* later.                                                                    *)
BootCompletes ==
  /\ AtCommand /\ Command.phase = "late" /\ ~booted
  /\ booted' = TRUE
  /\ UNCHANGED <<vars, script, line, CURRENT, overtaken>>

(* The bound MaxSets leaves room for what the script has still to set. *)
SetByOther ==
  /\ sets + Len(script) + 1 - line < MaxSets
  /\ \E p \in Names, s \in Strings : SetBegins(p, s)
  /\ overtaken' = overtaken \cup {setting'[1]}
  /\ UNCHANGED <<script, line, CURRENT, booted>>

BootNext ==
  \/ Read
  \/ TestAndSet
  \/ BootCompletes
  \/ SetByOther
  \/ SetEnds /\ UNCHANGED scriptVars
  \/ ZygoteRuns /\ WorkerNext /\ UNCHANGED scriptVars
  \/ Terminated /\ ~AtCommand /\ UNCHANGED scriptVars

BootSpec == BootInit /\ [][BootNext]_bootVars

-----------------------------------------------------------------------------
(* A property the script has gone past has the value it asks for, or one it  *)
(* leaves alone, though children of the companion rewrite properties at the  *)
(* same time: unless somebody else has set it since, or the script's own set *)
(* came between a child's copy and its update and is lost.                   *)
Sanitised ==
  \A i \in 1..(line - 1) :
    LET c == script[i]
        v == CString(value[c.name])
    IN  \/ IF c.test = "diff" THEN v \in {<<>>, c.new} ELSE ~HasText(v, c.arg)
        \/ setting # <<>> /\ setting[1] = c.name
        \/ c.name \in raced \cup overtaken
=============================================================================
