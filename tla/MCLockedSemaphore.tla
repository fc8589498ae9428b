------------------------- MODULE MCLockedSemaphore -------------------------
(* Instances of LockedSemaphore for TLC. *)
EXTENDS LockedSemaphore, FiniteSets, TLC

FredSymmetry == Permutations(Freds)

\* No permit is lost or duplicated when timeouts race with V: what went into
\* the semaphore is in the counter, with a fred that has been handed it, or
\* has been returned by P.  The binary form forgets permits but makes none up.
PermitsConserved ==
  LET out == counter + taken + Cardinality(Granted) IN
  IF Binary THEN out <= InitCount + posted ELSE out = InitCount + posted
===========================================================================
