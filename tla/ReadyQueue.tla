----------------------------- MODULE ReadyQueue -----------------------------
(***************************************************************************)
(* The ready queue of a processor (ReadyQueue in runtime/BaseProcessor.h):  *)
(* a lock-free Nemesis queue (runtime/LockFreeQueues.h) that any thread     *)
(* pushes to, and a lock that serialises the threads that pop.              *)
(*                                                                          *)
(* A push is two steps.  The exchange of the tail fixes the position of the *)
(* fred; the store to head, or to the link of the fred before it, makes it  *)
(* reachable.  That store is not an atomic read-modify-write: with TSO it   *)
(* may stay in the store buffer of its thread, where only that thread sees  *)
(* it, until the buffer drains or the thread executes an atomic operation.  *)
(* Freds of all priorities are treated as freds of one.                     *)
(***************************************************************************)
EXTENDS Integers, Sequences

CONSTANTS NumProcs,   \* how many processors the scheduler has
          Outside,    \* threads that resume freds and are not its processors:
                      \* pollers, and the processors of other clusters
          Freds, Null,
          TSO         \* whether stores are buffered

Procs == 1 .. NumProcs     \* in ring order

ASSUME ReadyQueueAssumption ==
  /\ NumProcs \in Nat \ {0}
  /\ Outside \cap Procs = {}
  /\ Null \notin Freds \cup Procs \cup Outside
  /\ TSO \in BOOLEAN

VARIABLES
  rq,         \* processor -> the freds in its queue, in the order of the tail
  linked,     \* freds that every thread can reach
  buffer,     \* thread -> the fred whose link is in its store buffer, or Null
  readyLock   \* processor -> the thread that holds the lock, or Null

readyVars == <<rq, linked, buffer, readyLock>>

Threads == Procs \cup Outside

ReadyInit ==
  /\ rq = [p \in Procs |-> <<>>]
  /\ linked = {}
  /\ buffer = [t \in Threads |-> Null]
  /\ readyLock = [p \in Procs |-> Null]

\* An atomic read-modify-write of t, or an operation on a lock or a semaphore,
\* waits until the store buffer of t is empty.
Fenced(t) == buffer[t] = Null

Drain(t) ==
  /\ buffer[t] # Null
  /\ linked' = linked \cup {buffer[t]}
  /\ buffer' = [buffer EXCEPT ![t] = Null]
  /\ UNCHANGED <<rq, readyLock>>

\* push(): the exchange of the tail.
PushTail(t, p, f) ==
  /\ Fenced(t)
  /\ rq' = [rq EXCEPT ![p] = Append(@, f)]
  /\ UNCHANGED <<linked, buffer, readyLock>>

\* push(): the store to head or to the predecessor's link.
PushLink(t, f) ==
  /\ \/ TSO /\ buffer' = [buffer EXCEPT ![t] = f] /\ UNCHANGED linked
     \/ ~TSO /\ linked' = linked \cup {f} /\ UNCHANGED buffer
  /\ UNCHANGED <<rq, readyLock>>

\* acquire(), or a tryAcquire() that succeeds.
LockQueue(t, p) ==
  /\ Fenced(t)
  /\ readyLock[p] = Null
  /\ readyLock' = [readyLock EXCEPT ![p] = t]
  /\ UNCHANGED <<rq, linked, buffer>>

\* pop() reads head as null: the queue is empty, or its first fred is still
\* being pushed.
NoHead(p) == \A i \in DOMAIN rq[p] : i = 1 => rq[p][i] \notin linked

\* pop() takes the first fred once the link to its successor, if there is
\* one, has been stored (until then it spins with the lock held); the lock is
\* released.
PopQueue(p, f) ==
  /\ ~NoHead(p)
  /\ f = Head(rq[p])
  /\ Len(rq[p]) > 1 => rq[p][2] \in linked
  /\ rq' = [rq EXCEPT ![p] = Tail(@)]
  /\ linked' = linked \ {f}
  /\ readyLock' = [readyLock EXCEPT ![p] = Null]
  /\ UNCHANGED buffer

\* Mutant of PopNothing: the early return forgets the lock.
PopNothingKeepsLock(p) == NoHead(p) /\ UNCHANGED readyVars

\* pop() returns nullptr; the lock is released.
PopNothing(p) ==
  /\ NoHead(p)
  /\ readyLock' = [readyLock EXCEPT ![p] = Null]
  /\ UNCHANGED <<rq, linked, buffer>>
=============================================================================
