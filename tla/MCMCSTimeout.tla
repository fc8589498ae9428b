--------------------------- MODULE MCMCSTimeout ---------------------------
(* MCSTimeout for TLC.                                                     *)
EXTENDS MCSTimeout, TLC

WaiterSymmetry == Permutations(Waiters)
===========================================================================
