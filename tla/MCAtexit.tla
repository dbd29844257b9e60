------------------------------ MODULE MCAtexit ------------------------------
(* Instances of Atexit for TLC: MCAtexit.cfg starts with room for one entry, *)
(* so that six registrations make the array move three times, and lets       *)
(* functions call __cxa_finalize again, three deep; MCAtexitRecursive.cfg is  *)
(* the smallest instance in which they do.                                   *)
EXTENDS Atexit
=============================================================================
