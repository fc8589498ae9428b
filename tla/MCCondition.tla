---------------------------- MODULE MCCondition ----------------------------
(* Instances of Condition for TLC. *)
EXTENDS Condition, TLC

FredSymmetry == Permutations(Freds)

\* Everybody acquires the mutex with and without a timeout.
AllTimeouts == [f \in Freds |-> {MaxTime, Never}]
===========================================================================
