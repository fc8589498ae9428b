------------------------------ MODULE MCEventIO ------------------------------
(* EventIO on a small instance.                                             *)
EXTENDS EventIO, TLC

IOSymmetry == Permutations(Freds)
===============================================================================
