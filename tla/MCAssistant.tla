----------------------------- MODULE MCAssistant -----------------------------
(* Instances of Assistant for TLC. *)
EXTENDS Assistant, TLC

(* Just below, at and just above the edges of the two ranges that            *)
(* isUserAppUID accepts, a second user's app and a negative uid.             *)
MCUids == {-1, 1000, 9999, 10000, 19999, 20000, 89999, 90000, 99999, 1010057}

(* One app uid is enough where the uid is not the question. *)
OneUid == {10057}

(* One process, every call may fail; a pid is not given twice. *)
AllFaults == FaultNames \ {"pidreuse"}

(* Two processes: the first may be killed and leave its pid to the second. *)
PidFaults == {"kill", "pidreuse", "daemon", "waitpid"}

(* The processes are interchangeable: no definition names one of them. *)
ProcSymmetry == Permutations(Procs)
=============================================================================
