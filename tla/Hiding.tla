------------------------------- MODULE Hiding -------------------------------
(***************************************************************************)
(* What the library promises for the processes it is asked to hide from,    *)
(* without saying how: such a process gets a mount namespace that nothing   *)
(* leaks out of, then that namespace is emptied of root's mounts, and only  *)
(* then does it become an app.  A process may be excused: the library gave  *)
(* up on it, or it was misled about what had been done.                     *)
(***************************************************************************)
CONSTANT Processes

VARIABLES
  phase,   \* phase[p]: how far p has come
  wanted,  \* the processes that are to be hidden from
  excused

Phases == {"zygote", "isolated", "emptied", "app"}

Init ==
  /\ phase = [p \in Processes |-> "zygote"]
  /\ wanted = {} /\ excused = {}

Moves(p, from, to) ==
  /\ phase[p] = from
  /\ phase' = [phase EXCEPT ![p] = to]

(* p is chosen, and may be given up in the same breath. *)
Choose(p) ==
  /\ phase[p] = "zygote"
  /\ wanted' = wanted \cup {p}
  /\ excused' \in {excused, excused \cup {p}}
  /\ UNCHANGED phase

Isolate(p) == p \in wanted /\ Moves(p, "zygote", "isolated") /\ UNCHANGED <<wanted, excused>>

Empty(p) == Moves(p, "isolated", "emptied") /\ UNCHANGED <<wanted, excused>>

Excuse(p) == excused' = excused \cup {p} /\ UNCHANGED <<phase, wanted>>

Launch(p) ==
  /\ \/ phase[p] = "emptied"
     \/ phase[p] # "app" /\ p \in (Processes \ wanted) \cup excused
  /\ phase' = [phase EXCEPT ![p] = "app"]
  /\ UNCHANGED <<wanted, excused>>

Next ==
  \E p \in Processes : Choose(p) \/ Isolate(p) \/ Empty(p) \/ Excuse(p) \/ Launch(p)

vars == <<phase, wanted, excused>>

Spec == Init /\ [][Next]_vars
=============================================================================
