------------------------------ MODULE MCMrProp ------------------------------
(* An instance of BootScripts, and with it of MrProp, for TLC: a read-only   *)
(* property, one with a long value, a read-write one, and strings that leave *)
(* bytes behind one another.                                                 *)
EXTENDS BootScripts, TLC

MCProps   == <<"ro.a", "ro.b", "rw">>
MCStrings == {<<>>, <<1>>, <<2, 1>>}

Do(phase, test, name, arg, new) ==
  [phase |-> phase, test |-> test, name |-> name, arg |-> arg, new |-> new]

(* A property that is put right before Zygote starts, or one while it runs   *)
(* and another once the system has booted.                                   *)
MCScripts ==
  {<<Do("post-fs-data", "diff", "ro.a", <<1>>, <<1>>)>>,
   <<Do("service", "match", "rw", <<2>>, <<1>>),
     Do("late", "diff", "ro.a", <<1>>, <<1>>)>>}

(* The children run the same code. *)
WorkerSymmetry == Permutations(Workers)
=============================================================================
