-------------------------- MODULE MCFibreSpecific --------------------------
(* Instances of FibreSpecific for TLC. *)
EXTENDS FibreSpecific, TLC

FibreSymmetry == Permutations(Fibres)
===========================================================================
