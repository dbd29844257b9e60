----------------------------- MODULE MCRemount -----------------------------
(* An instance of Remount for TLC. *)
EXTENDS Remount, TLC

(* The children run the same code. *)
WorkerSymmetry == Permutations(Workers)
=============================================================================
