----------------------------- MODULE AtexitOrder -----------------------------
(***************************************************************************)
(* What the C++ ABI asks of __cxa_atexit and __cxa_finalize: functions run  *)
(* once each, the one registered last first, functions registered meanwhile *)
(* included, and all of them have run when the library is gone.             *)
(***************************************************************************)
EXTENDS Naturals

VARIABLES
  registered,  \* how many functions were registered; they are numbered from 1
  pending,     \* those that have not been called
  gone         \* the library is unmapped

Init == registered = 0 /\ pending = {} /\ gone = FALSE

Register ==
  /\ ~gone
  /\ registered' = registered + 1
  /\ pending' = pending \cup {registered + 1}
  /\ UNCHANGED gone

(* The function registered last among the pending ones is called. *)
Run ==
  /\ ~gone
  /\ \E f \in pending :
       /\ \A g \in pending : g <= f
       /\ pending' = pending \ {f}
  /\ UNCHANGED <<registered, gone>>

Finish ==
  /\ ~gone
  /\ pending = {}
  /\ gone' = TRUE
  /\ UNCHANGED <<registered, pending>>

Next == Register \/ Run \/ Finish

Spec == Init /\ [][Next]_<<registered, pending, gone>>
=============================================================================
