--------------------------- MODULE MCScheduler ---------------------------
(* Instances of Scheduler for TLC. *)
EXTENDS Scheduler, TLC

FredSymmetry == Permutations(Freds)
==========================================================================
