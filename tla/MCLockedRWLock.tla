-------------------------- MODULE MCLockedRWLock --------------------------
(* Instances of LockedRWLock for TLC. *)
EXTENDS LockedRWLock, TLC

FredSymmetry == Permutations(Freds)
===========================================================================
