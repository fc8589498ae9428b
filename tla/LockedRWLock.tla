--------------------------- MODULE LockedRWLock ---------------------------
(***************************************************************************)
(* LockedRWLock (runtime/BlockingSync.h), the FredRWLock of the API: a      *)
(* reader/writer lock over two BlockingQueues, with timeouts.  release()    *)
(* hands the lock to a waiting fred; a reader that has been handed it hands *)
(* it on to the next waiting reader.                                        *)
(***************************************************************************)
EXTENDS BlockingQueue, FiniteSets

CONSTANTS Rd, Wr,      \* the queues of waiting readers and writers
          Timeouts     \* the timeouts callers use, Never for none

ASSUME RWAssumption ==
  /\ {Rd, Wr} \subseteq Queues
  /\ Rd # Wr
  /\ IsFiniteSet(Freds)
  /\ Timeouts \subseteq 0 .. Never

VARIABLES
  state,     \* -1 writer, 0 open, > 0 readers
  holds      \* fred -> what it has acquired: Rd, Wr, or Null

rwVars == <<state, holds>>
rwAll == <<fredVars, timerVars, bqVars, rwVars>>

RWInit ==
  /\ FredInit
  /\ TimerInit
  /\ BlockingInit
  /\ state = 0
  /\ holds = [f \in Freds |-> Null]

---------------------------------------------------------------------------

\* Take the lock without blocking.
Take(f, q, s) ==
  /\ state' = s
  /\ holds' = [holds EXCEPT ![f] = q]
  /\ UNCHANGED <<fredVars, timerVars, bqVars>>

\* block() on q, or return false at once; a try has a timeout in the past.
BlockOn(f, q, t) ==
  /\ \/ Block(f, q, t)
     \/ TimeoutPassed(t) /\ UNCHANGED <<fredVars, timerVars, bqVars>>
  /\ UNCHANGED rwVars

\* internalAR() up to block().
AcquireRead(f, t) ==
  /\ pc[f] = "idle" /\ holds[f] = Null
  /\ \/ state >= 0 /\ Empty(Wr) /\ Take(f, Rd, state + 1)
     \/ (state < 0 \/ ~Empty(Wr)) /\ BlockOn(f, Rd, t)

\* internalAW().
AcquireWrite(f, t) ==
  /\ pc[f] = "idle" /\ holds[f] = Null
  /\ \/ state = 0 /\ Take(f, Wr, -1)
     \/ state # 0 /\ BlockOn(f, Wr, t)

\* unblock() on q hands the lock over: the new state is s.
HandTo(f, q, s) ==
  /\ \E i \in DOMAIN bq[q] : Unblock(f, q, i)
  /\ pc' = [pc EXCEPT ![f] = "wake"]
  /\ state' = s

Nobody(q) == \A i \in DOMAIN bq[q] : ~CanWin(bq[q][i])

\* Nobody is woken: the new state is s.
HandToNobody(f, s) ==
  /\ pc' = [pc EXCEPT ![f] = "idle"]
  /\ state' = s
  /\ UNCHANGED <<runState, resumeInfo, readyLinks, pending, timerVars, bqVars>>

\* Mutant of ReadGranted: the next reader is woken and not counted.
ReadGrantedNoCount(f) ==
  /\ pc[f] = "unblocked" /\ blockedOn[f] = Rd
  /\ holds' = [holds EXCEPT ![f] = Rd]
  /\ \/ HandTo(f, Rd, state)
     \/ Nobody(Rd) /\ HandToNobody(f, state)

\* internalAR() after block(): the next waiting reader comes along.
ReadGranted(f) ==
  /\ pc[f] = "unblocked" /\ blockedOn[f] = Rd
  /\ holds' = [holds EXCEPT ![f] = Rd]
  /\ \/ HandTo(f, Rd, state + 1)
     \/ Nobody(Rd) /\ HandToNobody(f, state)

WriteGranted(f) ==
  /\ pc[f] = "unblocked" /\ blockedOn[f] = Wr
  /\ holds' = [holds EXCEPT ![f] = Wr]
  /\ HandToNobody(f, state)

AcquireTimeout(f) ==
  /\ pc[f] = "timedout"
  /\ HandToNobody(f, state)
  /\ UNCHANGED holds

\* Mutant of ReleaseRead: readers are preferred.
ReleaseReadBarge(f) ==
  \/ state > 1 /\ HandToNobody(f, state - 1)
  \/ /\ state = 1
     /\ \/ HandTo(f, Rd, 1)
        \/ Nobody(Rd) /\ HandTo(f, Wr, -1)
        \/ Nobody(Wr) /\ Nobody(Rd) /\ HandToNobody(f, 0)

\* release() by a reader: the last one hands over to a writer, or a reader.
ReleaseRead(f) ==
  \/ state > 1 /\ HandToNobody(f, state - 1)
  \/ /\ state = 1
     /\ \/ HandTo(f, Wr, -1)
        \/ Nobody(Wr) /\ HandTo(f, Rd, 1)
        \/ Nobody(Wr) /\ Nobody(Rd) /\ HandToNobody(f, 0)

\* release() by a writer: readers next.
ReleaseWrite(f) ==
  /\ state = -1
  /\ \/ HandTo(f, Rd, 1)
     \/ Nobody(Rd) /\ HandTo(f, Wr, -1)
     \/ Nobody(Rd) /\ Nobody(Wr) /\ HandToNobody(f, 0)

Release(f) ==
  /\ pc[f] = "idle" /\ holds[f] # Null
  /\ ReleaseRead(f) \/ ReleaseWrite(f)
  /\ holds' = [holds EXCEPT ![f] = Null]

ReleaseResume(f) ==
  /\ pc[f] = "wake"
  /\ Resume(f)
  /\ pc' = [pc EXCEPT ![f] = "idle"]
  /\ UNCHANGED <<timerVars, bqVars, rwVars>>

---------------------------------------------------------------------------

Call(f) == \E t \in Timeouts : AcquireRead(f, t) \/ AcquireWrite(f, t)

Continue(f) ==
  \/ BlockStep(f) /\ UNCHANGED rwVars
  \/ ReadGranted(f)
  \/ WriteGranted(f)
  \/ AcquireTimeout(f)
  \/ ReleaseResume(f)

RWNext ==
  \/ \E f \in Freds : Call(f) \/ Continue(f) \/ Release(f)
  \/ Tick /\ UNCHANGED <<bqVars, rwVars>>
  \/ TimerStep /\ UNCHANGED <<bqVars, rwVars>>

RWSpec == RWInit /\ [][RWNext]_rwAll

---------------------------------------------------------------------------

\* The freds that have the lock through q: acquired, or handed to them while
\* they are on their way out of block().
Holders(q) ==
  {f \in Freds : \/ holds[f] = q
                 \/ /\ pc[f] \in InWait \cup {"unblocked"}
                    /\ resumeInfo[f] = q}

\* Readers and writers exclude each other, and state counts them, whatever
\* hand-over races with whatever timeout.
StateCounts ==
  /\ state = IF Holders(Wr) # {} THEN -1 ELSE Cardinality(Holders(Rd))
  /\ Cardinality(Holders(Wr)) <= 1
  /\ Holders(Wr) # {} => Holders(Rd) = {}

\* "release alternates": a release never leaves a waiting writer behind for
\* another reader, nor, by a writer, a waiting reader for another writer.
Alternates ==
  \A f \in Freds :
    /\ holds[f] = Rd /\ holds'[f] = Null /\ Waiting(Wr) # {} /\ state = 1 => state' = -1
    /\ holds[f] = Wr /\ holds'[f] = Null /\ Waiting(Rd) # {} => state' = 1

\* Nobody sleeps on an open lock.
NobodyWaitsOnOpenLock == state = 0 => Waiting(Rd) \cup Waiting(Wr) = {}
===========================================================================
