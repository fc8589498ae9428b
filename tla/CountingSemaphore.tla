------------------------- MODULE CountingSemaphore -------------------------
(***************************************************************************)
(* What a counting semaphore with timeouts promises: permits are neither    *)
(* made up nor lost, nobody waits while a permit is there, a permit handed  *)
(* to a waiting fred stays with it, and a fred that gives up takes nothing. *)
(***************************************************************************)
EXTENDS Integers

CONSTANTS Freds, InitCount

VARIABLES permits,   \* permits nobody holds
          waiting,   \* freds that wait and have not been handed a permit
          granted    \* freds with a permit that have not returned from P yet

vars == <<permits, waiting, granted>>

Init == permits = InitCount /\ waiting = {} /\ granted = {}

\* P finds a permit.
Take == permits > 0 /\ permits' = permits - 1 /\ UNCHANGED <<waiting, granted>>

\* P finds none and waits.
Wait(f) ==
  /\ permits = 0
  /\ f \notin waiting \cup granted
  /\ waiting' = waiting \cup {f}
  /\ UNCHANGED <<permits, granted>>

\* The timeout of f passes before a permit comes.
GiveUp(f) == f \in waiting /\ waiting' = waiting \ {f} /\ UNCHANGED <<permits, granted>>

\* V hands its permit over, and keeps it for later only if nobody waits.
Grant(f) ==
  /\ f \in waiting
  /\ waiting' = waiting \ {f}
  /\ granted' = granted \cup {f}
  /\ UNCHANGED permits

Post == waiting = {} /\ permits' = permits + 1 /\ UNCHANGED <<waiting, granted>>

\* P returns with the permit it has been handed.
Return(f) == f \in granted /\ granted' = granted \ {f} /\ UNCHANGED <<permits, waiting>>

Next ==
  \/ Take
  \/ Post
  \/ \E f \in Freds : Wait(f) \/ GiveUp(f) \/ Grant(f) \/ Return(f)

SafeSpec == Init /\ [][Next]_vars

Spec == SafeSpec /\ \A f \in Freds : WF_vars(Return(f))
===========================================================================
