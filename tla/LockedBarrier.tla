--------------------------- MODULE LockedBarrier ---------------------------
(***************************************************************************)
(* LockedBarrier (runtime/BlockingSync.h), the FredBarrier of the API.  The *)
(* fred that completes a group wakes the others with the lock held.         *)
(***************************************************************************)
EXTENDS BlockingQueue, FiniteSets

CONSTANTS Bar,          \* the queue of the barrier
          GroupSizes,   \* the sizes of group to choose from
          MaxRounds     \* bound: how often a fred calls wait()

ASSUME BarAssumption == Bar \in Queues /\ GroupSizes \subseteq Nat \ {0} /\ MaxRounds \in Nat

VARIABLES
  group,        \* the target
  arrived,      \* the counter
  rounds,       \* fred -> its calls of wait()
  entered,      \* all calls of wait() ...
  done,         \* ... its returns ...
  serials       \* ... and its returns of true

barVars == <<group, arrived, rounds, entered, done, serials>>
lockedBarrierVars == <<fredVars, timerVars, bqVars, barVars>>

LockedBarrierInit ==
  /\ FredInit
  /\ TimerInit
  /\ BlockingInit
  /\ group \in GroupSizes
  /\ arrived = 0 /\ entered = 0 /\ done = 0 /\ serials = 0
  /\ rounds = [f \in Freds |-> 0]

BarWait(f) ==
  /\ pc[f] = "idle" /\ rounds[f] < MaxRounds
  /\ arrived + 1 # group
  /\ arrived' = arrived + 1
  /\ rounds' = [rounds EXCEPT ![f] = @ + 1]
  /\ entered' = entered + 1
  /\ Block(f, Bar, Never)
  /\ UNCHANGED <<group, done, serials>>

\* The loop counts the counter down, the own arrival included.
WakeCount == arrived + 1

\* wait() that completes the group: unblock<true>() from the front.
BarComplete(f) ==
  LET woken == {bq[Bar][i] : i \in {j \in DOMAIN bq[Bar] : j <= WakeCount}} IN
  /\ pc[f] = "idle" /\ rounds[f] < MaxRounds
  /\ arrived + 1 = group
  /\ arrived' = 0
  /\ bq' = [bq EXCEPT ![Bar] = SubSeq(@, Cardinality(woken) + 1, Len(@))]
  /\ resumeInfo' = [g \in Freds |-> IF g \in woken THEN Bar ELSE resumeInfo[g]]
  /\ runState' = [g \in Freds |-> IF g \in woken THEN runState[g] + 1 ELSE runState[g]]
  /\ readyLinks' = [g \in Freds |-> IF g \in woken /\ runState[g] = Parked
                                    THEN readyLinks[g] + 1 ELSE readyLinks[g]]
  /\ rounds' = [rounds EXCEPT ![f] = @ + 1]
  /\ entered' = entered + 1
  /\ done' = done + 1
  /\ serials' = serials + 1
  /\ UNCHANGED <<pc, pending, timerVars, blockedOn, group>>

BarReturn(f) ==
  /\ pc[f] = "unblocked"
  /\ pc' = [pc EXCEPT ![f] = "idle"]
  /\ done' = done + 1
  /\ UNCHANGED <<raceVars, timerVars, bqVars, group, arrived, rounds, entered, serials>>

LockedBarrierNext ==
  \E f \in Freds : \/ BarWait(f) \/ BarComplete(f) \/ BarReturn(f)
                   \/ BlockStep(f) /\ UNCHANGED barVars

LockedBarrierSpec == LockedBarrierInit /\ [][LockedBarrierNext]_lockedBarrierVars

\* Nobody passes before the group is complete, and nobody stays behind: the
\* freds of a complete group leave or are on their way out, even if some of
\* them come back for the next round first.
BarrierGroups ==
  /\ done <= group * serials
  /\ entered = group * serials + arrived
  /\ Cardinality(Waiting(Bar)) = arrived
===========================================================================
