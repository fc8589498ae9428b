---------------------- MODULE SemaphoreConditionProofs ----------------------
(***************************************************************************)
(* Proofs about LockedSemaphore, about SpinCondMutex and about the          *)
(* Condition that is used with it, for every set of freds, every timeout    *)
(* and every bound of the clock.  The semaphore: the inductive invariant,   *)
(* that the counting form implements CountingSemaphore, and that no form    *)
(* loses or makes up a permit.  The mutex: mutual exclusion, the owner      *)
(* field, and that no waiter is overlooked.  The condition: no signal is    *)
(* lost, and the mutex is acquired when wait() needs it.                    *)
(***************************************************************************)
EXTENDS MCLockedSemaphore, Condition, BlockingQueueProofs, FiniteSetTheorems

---------------------------------------------------------------------------
(* LockedSemaphore.                                                         *)

\* Who waits, told without looking into the queue.
LEMMA WaitingIs ==
  ASSUME BlockInv, NEW f \in Freds
  PROVE  f \in Waiting(Sem)
           <=> pc[f] \in InWait /\ blockedOn[f] = Sem /\ resumeInfo[f] = Null
BY SemAssumption, WaitingOn

LEMMA InitIInv == Init => IInv
<1> SUFFICES ASSUME Init PROVE IInv
  OBVIOUS
<1>1. BlockInv
  BY BlockInitInv DEF Init
<1>2. TypeOK
  BY <1>1, SemAssumption DEF Init, TypeOK, BlockInv
<1>3. ResultInv
  BY DEF Init, FredInit, ResultInv
<1>4. Waiting(Sem) = {}
  BY <1>1, WaitingIs DEF Init, FredInit, InWait, Suspending, Waiting
<1>. QED BY <1>1, <1>2, <1>3, <1>4 DEF IInv, NoSleeperWithPermit

---------------------------------------------------------------------------
(* The library part of the invariant, one step per operation.               *)

LEMMA CallBlockInv ==
  ASSUME IInv, NEW f \in Freds, Call(f)
  PROVE  BlockInv'
<1>0. BlockInv /\ Sem \in Queues
  BY SemAssumption DEF IInv
<1>a. pc[f] = "idle" /\ pc[f] \notin InWait /\ pc[f] # "wake"
  BY DEF Call, P, tryP, wait, V, tryV, SleepFred, InWait, Suspending
<1>1. ASSUME UNCHANGED <<fredVars, timerVars, bqVars>>
      PROVE  BlockInv'
  <2>1. /\ pc' = [pc EXCEPT ![f] = "idle"]
        /\ UNCHANGED <<runState, resumeInfo, readyLinks, pending, timerVars, bqVars>>
    BY <1>0, <1>a, <1>1 DEF fredVars, BlockInv, BlockTypeOK
  <2>. QED BY <1>0, <1>a, <2>1, LabelInv DEF Labels, InWait, Suspending
<1>2. ASSUME NEW t \in 0 .. Never, Block(f, Sem, t)
      PROVE  BlockInv'
  BY <1>0, <1>a, <1>2, BlockEntryInv
<1>3. ASSUME NEW i \in DOMAIN bq[Sem], Unblock(f, Sem, i), pc' = [pc EXCEPT ![f] = "wake"]
      PROVE  BlockInv'
  BY <1>0, <1>a, <1>3, UnblockInv
<1>4. ASSUME NEW t \in 0 .. Never, P(f, t) PROVE BlockInv'
  BY <1>1, <1>2, <1>4 DEF P, TakePermit, vars
<1>5. ASSUME NEW t \in 0 .. Never, wait(f, t) PROVE BlockInv'
  BY <1>1, <1>2, <1>5 DEF wait
<1>6. ASSUME tryP(f) PROVE BlockInv'
  BY <1>1, <1>6 DEF tryP, TakePermit
<1>7. ASSUME V(f) \/ tryV(f) PROVE BlockInv'
  BY <1>1, <1>3, <1>7 DEF V, tryV
<1>8. ASSUME NEW t \in Times, SleepFred(f, t) PROVE BlockInv'
  BY <1>0, <1>8, SleepFredInv
<1>. QED BY <1>4, <1>5, <1>6, <1>7, <1>8 DEF Call

LEMMA ContinueBlockInv ==
  ASSUME IInv, NEW f \in Freds, Continue(f)
  PROVE  BlockInv'
<1>0. BlockInv /\ "idle" \in Labels \ InWait
  BY DEF IInv, Labels, InWait, Suspending
<1>1. CASE BlockStep(f)
  BY <1>0, <1>1, BlockStepInv
<1>2. CASE PReturn(f)
  <2>1. pc[f] \in {"unblocked", "timedout"} /\ pc' = [pc EXCEPT ![f] = "idle"]
        /\ UNCHANGED <<runState, resumeInfo, readyLinks, pending, timerVars, bqVars>>
    BY <1>2 DEF PReturn
  <2>2. pc[f] \notin InWait /\ pc[f] # "wake"
    BY <2>1 DEF InWait, Suspending
  <2>. QED BY <1>0, <2>1, <2>2, LabelInv
<1>3. CASE VResume(f)
  BY <1>0, <1>3, WakeInv DEF VResume
<1>. QED BY <1>1, <1>2, <1>3 DEF Continue

LEMMA NextBlockInv ==
  ASSUME IInv, [Next]_vars
  PROVE  BlockInv'
<1>1. CASE UNCHANGED vars
  BY <1>1 DEF IInv, vars, fredVars, timerVars, bqVars, BlockInv, BlockTypeOK, RaceInv, RaceRunning,
     RaceOff, OwedInv, NodeInv, TimerInv, TimerNodes, TimerArmed, Owed, InQueue, CanWin, Timed
<1>2. CASE Tick /\ UNCHANGED <<bqVars, semVars>>
  BY <1>2, TickInv DEF IInv
<1>3. CASE TimerStep /\ UNCHANGED <<bqVars, semVars>>
  BY <1>3, TimerStepInv DEF IInv
<1>. QED BY <1>1, <1>2, <1>3, CallBlockInv, ContinueBlockInv DEF Next

---------------------------------------------------------------------------
(* The semaphore's part.                                                    *)

\* Whatever happens outside the semaphore's own operations: nobody starts to
\* wait on it, and the freds that return do so with the winner they had.
LEMMA LibraryStep ==
  ASSUME IInv, BlockInv',
         \/ \E f \in Freds : BlockStep(f)
         \/ (Tick \/ TimerStep) /\ UNCHANGED bqVars
  PROVE  /\ ResultInv'
         /\ Waiting(Sem)' \subseteq Waiting(Sem)
<1>0. BlockInv /\ BlockTypeOK /\ ResultInv /\ BlockTypeOK'
  BY DEF IInv, BlockInv
<1> SUFFICES ASSUME NEW g \in Freds
             PROVE  /\ pc'[g] = "unblocked" => resumeInfo'[g] = Sem
                    /\ pc'[g] = "timedout" => resumeInfo'[g] = Timer
                    /\ g \in Waiting(Sem)' => g \in Waiting(Sem)
  BY DEF ResultInv, Waiting
<1>1. g \in Waiting(Sem)' <=> pc'[g] \in InWait /\ blockedOn'[g] = Sem /\ resumeInfo'[g] = Null
  BY SemAssumption DEF BlockInv, NodeInv, Waiting, CanWin, InWait, Suspending
<1>2. g \in Waiting(Sem) <=> pc[g] \in InWait /\ blockedOn[g] = Sem /\ resumeInfo[g] = Null
  BY <1>0, WaitingIs
<1>3. CASE (Tick \/ TimerStep) /\ UNCHANGED bqVars
  <2>1. /\ UNCHANGED <<pc, blockedOn>>
        /\ \/ UNCHANGED resumeInfo
           \/ \E f \in Freds : CanWin(f) /\ resumeInfo' = [resumeInfo EXCEPT ![f] = Timer]
    BY <1>3, TimerMoves
  <2>. QED BY <1>0, <1>1, <1>2, <2>1, FredAssumption, QueueAssumption, SemAssumption
              DEF ResultInv, BlockTypeOK, CanWin
<1>4. ASSUME NEW f \in Freds, BlockStep(f)
      PROVE  /\ pc'[g] = "unblocked" => resumeInfo'[g] = Sem
             /\ pc'[g] = "timedout" => resumeInfo'[g] = Timer
             /\ g \in Waiting(Sem)' => g \in Waiting(Sem)
  <2>1. /\ UNCHANGED <<resumeInfo, blockedOn>>
        /\ \E l \in Labels :
             /\ pc' = [pc EXCEPT ![f] = l]
             /\ l = "unblocked" => resumeInfo[f] = Sem
             /\ l = "timedout" => resumeInfo[f] = Timer
             /\ l \in InWait => pc[f] \in InWait
    <3>1. \A l : l \in {"unblocked", "timedout"} => l \notin InWait
      BY DEF InWait, Suspending
    <3>. QED BY <1>0, <1>4, <3>1, BlockStepMoves, QueueAssumption, SemAssumption
  <2>. QED BY <1>0, <1>1, <1>2, <2>1 DEF ResultInv, BlockTypeOK
<1>. QED BY <1>3, <1>4

\* A fred that is not in a wait is on nobody's list of waiting freds.
LEMMA WaitingAfter ==
  ASSUME BlockInv', NEW g \in Freds
  PROVE  g \in Waiting(Sem)'
           <=> pc'[g] \in InWait /\ blockedOn'[g] = Sem /\ resumeInfo'[g] = Null
BY SemAssumption, WaitingOnAfter

\* The scan of V finds nobody exactly when nobody waits.
LEMMA NobodyToUnblock ==
  ASSUME BlockInv
  PROVE  (\A i \in DOMAIN bq[Sem] : ~CanWin(bq[Sem][i])) <=> Waiting(Sem) = {}
BY SemAssumption, NobodyWaits

\* block() on the semaphore: only possible while it has no permit.
LEMMA BlockStepSem ==
  ASSUME IInv, BlockInv', NEW f \in Freds, pc[f] = "idle",
         NEW t \in 0 .. Never, Block(f, Sem, t)
  PROVE  ResultInv'
<1>1. BlockTypeOK
  BY DEF IInv, BlockInv
<1>2. \E l \in {"suspend", "arm"} : pc' = [pc EXCEPT ![f] = l]
  BY DEF Block
<1>. QED BY <1>1, <1>2 DEF IInv, ResultInv, Block, PrepareResumeRace, BlockTypeOK

\* unblock() takes one fred out of those that wait, and touches no result.
LEMMA UnblockStepSem ==
  ASSUME IInv, BlockInv', NEW f \in Freds, pc[f] = "idle", NEW i \in DOMAIN bq[Sem],
         Unblock(f, Sem, i), pc' = [pc EXCEPT ![f] = "wake"]
  PROVE  /\ ResultInv'
         /\ bq[Sem][i] \in Waiting(Sem)
         /\ Waiting(Sem)' = Waiting(Sem) \ {bq[Sem][i]}
<1>0. BlockInv /\ BlockTypeOK /\ Sem \notin {Null, Timer}
  BY SemAssumption, QueueAssumption DEF IInv, BlockInv
<1>1. bq[Sem][i] \in Freds /\ CanWin(bq[Sem][i]) /\ bq[Sem][i] \in Waiting(Sem)
  <2>1. bq[Sem] \in Seq(Freds) /\ DOMAIN bq[Sem] = 1 .. Len(bq[Sem])
    BY <1>0, SemAssumption, LenProperties DEF BlockTypeOK
  <2>2. bq[Sem][i] \in Freds
    BY <2>1, ElementOfSeq
  <2>. QED BY <2>1, <2>2 DEF Unblock, FirstWaiting, Waiting, InQueue, Contains
<1>2. PICK h \in Freds : h = bq[Sem][i]
  BY <1>1
<1>3. /\ resumeInfo[h] = Null /\ resumeInfo' = [resumeInfo EXCEPT ![h] = Sem]
      /\ blockedOn' = blockedOn /\ pc' = [pc EXCEPT ![f] = "wake"]
  BY <1>1, <1>2 DEF Unblock, RaceResume, CanWin
<1>4. ResultInv'
  BY <1>0, <1>3, FredAssumption DEF IInv, ResultInv, BlockTypeOK
<1>5. ASSUME NEW g \in Freds
      PROVE  g \in Waiting(Sem)' <=> g \in Waiting(Sem) /\ g # h
  <2>1. h \in Waiting(Sem)
    BY <1>1, <1>2
  <2>2. pc[f] \notin InWait /\ "wake" \notin InWait
    BY DEF InWait, Suspending
  <2>. QED BY <1>0, <1>3, <2>1, <2>2, WaitingIs, WaitingAfter DEF BlockTypeOK
<1>. QED BY <1>1, <1>2, <1>4, <1>5 DEF Waiting

LEMMA NextIInv ==
  ASSUME IInv, [Next]_vars
  PROVE  IInv'
<1>0. /\ BlockInv /\ BlockInv' /\ BlockTypeOK /\ BlockTypeOK' /\ ResultInv
      /\ counter \in Nat /\ posted \in Nat /\ taken \in Nat
      /\ counter > 0 => Waiting(Sem) = {}
      /\ Sem \in Queues
  BY NextBlockInv, SemAssumption DEF IInv, BlockInv, TypeOK, NoSleeperWithPermit
<1> SUFFICES /\ counter' \in Nat /\ posted' \in Nat /\ taken' \in Nat
             /\ ResultInv'
             /\ counter' > 0 => Waiting(Sem)' = {}
  BY <1>0 DEF IInv, TypeOK, NoSleeperWithPermit
<1>1. CASE UNCHANGED vars
  BY <1>0, <1>1 DEF vars, semVars, fredVars, bqVars, ResultInv, Waiting, InQueue, CanWin
<1>2. CASE /\ UNCHANGED semVars
           /\ \/ \E f \in Freds : BlockStep(f)
              \/ (Tick \/ TimerStep) /\ UNCHANGED bqVars
  BY <1>0, <1>2, LibraryStep DEF semVars
<1>3. ASSUME NEW f \in Freds, pc[f] = "idle", TakePermit, counter >= 1
      PROVE  /\ counter' \in Nat /\ posted' \in Nat /\ taken' \in Nat
             /\ ResultInv' /\ Waiting(Sem)' = {}
  BY <1>0, <1>3 DEF TakePermit, fredVars, bqVars, ResultInv, Waiting, InQueue, CanWin
<1>4. ASSUME NEW f \in Freds, NEW t \in 0 .. Never, P(f, t)
      PROVE  /\ counter' \in Nat /\ posted' \in Nat /\ taken' \in Nat
             /\ ResultInv' /\ (counter' > 0 => Waiting(Sem)' = {})
  <2>1. CASE counter < 1 /\ Block(f, Sem, t) /\ UNCHANGED semVars
    BY <1>0, <1>4, <2>1, BlockStepSem DEF semVars, P
  <2>2. CASE UNCHANGED vars
    BY <1>0, <2>2 DEF vars, semVars, fredVars, bqVars, ResultInv, Waiting, InQueue, CanWin
  <2>. QED BY <1>3, <1>4, <2>1, <2>2 DEF P
<1>5. ASSUME NEW f \in Freds, NEW t \in 0 .. Never, wait(f, t)
      PROVE  /\ counter' \in Nat /\ posted' \in Nat /\ taken' \in Nat
             /\ ResultInv' /\ ~(counter' > 0)
  <2>1. CASE Block(f, Sem, t)
    BY <1>0, <1>5, <2>1, BlockStepSem DEF wait
  <2>2. CASE UNCHANGED <<fredVars, timerVars, bqVars>>
    BY <1>0, <1>5, <2>2 DEF wait, fredVars, ResultInv
  <2>. QED BY <1>5, <2>1, <2>2 DEF wait
<1>6. ASSUME NEW f \in Freds, tryP(f)
      PROVE  /\ counter' \in Nat /\ posted' \in Nat /\ taken' \in Nat
             /\ ResultInv' /\ (counter' > 0 => Waiting(Sem)' = {})
  BY <1>3, <1>6 DEF tryP
<1>7. ASSUME NEW f \in Freds, V(f) \/ tryV(f)
      PROVE  /\ counter' \in Nat /\ posted' \in Nat /\ taken' \in Nat
             /\ ResultInv' /\ (counter' > 0 => Waiting(Sem)' = {})
  <2>0. pc[f] = "idle" /\ posted' = posted + 1 /\ taken' = taken
    BY <1>7 DEF V, tryV
  <2>1. CASE /\ \E i \in DOMAIN bq[Sem] : Unblock(f, Sem, i)
             /\ pc' = [pc EXCEPT ![f] = "wake"]
             /\ UNCHANGED counter
    <3>1. PICK i \in DOMAIN bq[Sem] : Unblock(f, Sem, i)
      BY <2>1
    <3>2. ResultInv' /\ Waiting(Sem)' = Waiting(Sem) \ {bq[Sem][i]}
      BY <1>0, <2>0, <2>1, <3>1, UnblockStepSem
    <3>3. posted' \in Nat /\ taken' \in Nat /\ counter' = counter
      BY <1>0, <2>0, <2>1
    <3>. QED BY <1>0, <3>2, <3>3
  <2>2. CASE /\ \A i \in DOMAIN bq[Sem] : ~CanWin(bq[Sem][i])
             /\ counter' = IF Binary THEN 1 ELSE counter + 1
             /\ UNCHANGED <<fredVars, timerVars, bqVars>>
    <3>1. Waiting(Sem) = {}
      BY <1>0, <2>2, NobodyToUnblock
    <3>. QED BY <1>0, <2>0, <2>2, <3>1 DEF fredVars, bqVars, ResultInv, Waiting, InQueue, CanWin
  <2>. QED BY <1>7, <2>1, <2>2 DEF V, tryV
<1>8. ASSUME NEW f \in Freds, NEW t \in Times, SleepFred(f, t), UNCHANGED semVars
      PROVE  /\ counter' \in Nat /\ posted' \in Nat /\ taken' \in Nat
             /\ ResultInv' /\ (counter' > 0 => Waiting(Sem)' = {})
  <2>1. pc' = [pc EXCEPT ![f] = "arm"] /\ resumeInfo' = [resumeInfo EXCEPT ![f] = Null]
        /\ blockedOn' = [blockedOn EXCEPT ![f] = Null] /\ UNCHANGED semVars
    BY <1>8 DEF SleepFred, PrepareResumeRace
  <2>2. ResultInv'
    BY <1>0, <2>1 DEF BlockTypeOK, ResultInv
  <2>3. \A g \in Freds : g \in Waiting(Sem)' => g \in Waiting(Sem)
    BY <1>0, <2>1, WaitingIs, WaitingAfter, QueueAssumption, SemAssumption DEF BlockTypeOK
  <2>4. Waiting(Sem) = {} => Waiting(Sem)' = {}
    BY <2>3 DEF Waiting
  <2>. QED BY <1>0, <2>1, <2>2, <2>4 DEF semVars
<1>9. ASSUME NEW f \in Freds, PReturn(f) \/ VResume(f)
      PROVE  /\ counter' \in Nat /\ posted' \in Nat /\ taken' \in Nat
             /\ ResultInv' /\ (counter' > 0 => Waiting(Sem)' = {})
  <2>1. /\ pc' = [pc EXCEPT ![f] = "idle"]
        /\ UNCHANGED <<resumeInfo, bqVars, counter, posted>>
        /\ taken' \in Nat
    BY <1>0, <1>9 DEF PReturn, VResume, Resume, semVars
  <2>2. ResultInv'
    BY <1>0, <2>1 DEF BlockTypeOK, ResultInv
  <2>3. Waiting(Sem)' = Waiting(Sem)
    BY <2>1 DEF Waiting, InQueue, CanWin, bqVars
  <2>. QED BY <1>0, <2>1, <2>2, <2>3
<1>. QED BY <1>1, <1>2, <1>4, <1>5, <1>6, <1>7, <1>8, <1>9 DEF Next, Call, Continue, semVars

---------------------------------------------------------------------------
(* The theorems.                                                            *)

\* For every number of freds and every interleaving of P, tryP, wait, V, tryV,
\* sleepFred, the processors and the timer: the invariant holds throughout.
THEOREM Invariance == SafeSpec => []IInv
<1>1. Init => IInv
  BY InitIInv
<1>2. IInv /\ [Next]_vars => IInv'
  BY NextIInv
<1>. QED BY <1>1, <1>2, PTL DEF SafeSpec

\* The assertions of resume(), postSuspend() and prepareResumeRace() never
\* fail: no resume() meets a fred that has been resumed already.
THEOREM SafeRunState == SafeSpec => []RunStateProtocol
<1>1. IInv => RunStateProtocol
  BY BlockInvImplies DEF IInv
<1>. QED BY <1>1, Invariance, PTL

\* A fred is never linked into two ready queues, or while it runs.
THEOREM SafeLinks == SafeSpec => []LinkedOnce
<1>1. IInv => LinkedOnce
  BY BlockInvImplies DEF IInv
<1>. QED BY <1>1, Invariance, PTL

\* No unblock() and no timer reaches a fred through the node of an old wait.
THEOREM SafeNodes == SafeSpec => [](BlockNodes /\ TimerNodes)
<1>1. IInv => BlockNodes /\ TimerNodes
  BY BlockInvImplies DEF IInv, BlockInv, TimerInv
<1>. QED BY <1>1, Invariance, PTL

\* Every fred that sleeps can still be woken, or its wake-up is on the way.
THEOREM SafeWaits == SafeSpec => []NobodyForgotten
<1>1. IInv => NobodyForgotten
  BY BlockInvImplies DEF IInv
<1>. QED BY <1>1, Invariance, PTL

\* The timerfd is armed whenever a timeout is queued that checkExpiry is not
\* about to visit, however timeouts are cancelled and set.
THEOREM SafeTimer == SafeSpec => []TimerArmed
<1>1. IInv => TimerArmed
  BY DEF IInv, BlockInv, TimerInv
<1>. QED BY <1>1, Invariance, PTL

\* The baton is passed on: nobody sleeps while the semaphore has a permit.
THEOREM SafeBaton == SafeSpec => []NoSleeperWithPermit
<1>1. IInv => NoSleeperWithPermit
  BY DEF IInv
<1>. QED BY <1>1, Invariance, PTL

---------------------------------------------------------------------------
(* The counting form implements CountingSemaphore.                          *)

LEMMA GrantedIs ==
  ASSUME NEW f \in Freds
  PROVE  f \in Granted <=> pc[f] \in InWait \cup {"unblocked", "timedout"} /\ resumeInfo[f] = Sem
BY DEF Granted, Waits

LEMMA GrantedAfter ==
  ASSUME NEW f \in Freds
  PROVE  f \in Granted' <=> pc'[f] \in InWait \cup {"unblocked", "timedout"} /\ resumeInfo'[f] = Sem
BY DEF Granted, Waits, InWait, Suspending

\* What the abstract semaphore sees is made of these two sets.
LEMMA SameSets ==
  ASSUME \A g \in Freds : g \in Waiting(Sem)' <=> g \in Waiting(Sem),
         \A g \in Freds : g \in Granted' <=> g \in Granted
  PROVE  UNCHANGED <<Waiting(Sem), Granted>>
BY DEF Waiting, Granted

\* A fred's own steps in the library change nothing the semaphore promises.
LEMMA BlockStepStutters ==
  ASSUME IInv, BlockInv', NEW f \in Freds, BlockStep(f)
  PROVE  UNCHANGED <<Waiting(Sem), Granted>>
<1>0. BlockInv /\ BlockTypeOK /\ Sem \notin {Null, Timer}
  BY SemAssumption, QueueAssumption DEF IInv, BlockInv
<1>1. /\ UNCHANGED <<resumeInfo, blockedOn>>
      /\ pc[f] \in InWait
      /\ \E l \in Labels :
           /\ pc' = [pc EXCEPT ![f] = l]
           /\ \/ l \in InWait
              \/ resumeInfo[f] # Null /\ l \in {"unblocked", "timedout"}
              \/ resumeInfo[f] = Timer /\ l = "idle"
  BY <1>0, BlockStepMoves, FredAssumption, QueueAssumption
<1>2. "idle" \notin InWait /\ "unblocked" \notin InWait /\ "timedout" \notin InWait
  BY DEF InWait, Suspending
<1>3. ASSUME NEW g \in Freds PROVE g \in Waiting(Sem)' <=> g \in Waiting(Sem)
  BY <1>0, <1>1, <1>2, FredAssumption, WaitingIs, WaitingAfter DEF BlockTypeOK
<1>4. ASSUME NEW g \in Freds PROVE g \in Granted' <=> g \in Granted
  BY <1>0, <1>1, <1>2, GrantedIs, GrantedAfter DEF BlockTypeOK
<1>. QED BY <1>3, <1>4, SameSets

\* The timer may make one waiting fred give up.
LEMMA TimerStepImplements ==
  ASSUME IInv, BlockInv', Tick \/ TimerStep, UNCHANGED <<bqVars, semVars>>
  PROVE  [Abs!Next]_(Abs!vars)
<1>0. BlockInv /\ BlockTypeOK /\ Sem \notin {Null, Timer} /\ counter' = counter
  BY SemAssumption, QueueAssumption DEF IInv, BlockInv, semVars
<1>1. CASE UNCHANGED <<pc, resumeInfo>>
  BY <1>0, <1>1 DEF Abs!vars, Waiting, Granted, Waits, InWait, Suspending, InQueue, CanWin, bqVars
<1>2. ASSUME NEW f \in Freds, CheckExpiryNode(f), CanWin(f)
      PROVE  [Abs!Next]_(Abs!vars)
  <2>1. /\ pc' = pc /\ blockedOn' = blockedOn
        /\ resumeInfo[f] = Null /\ resumeInfo' = [resumeInfo EXCEPT ![f] = Timer]
        /\ pc[f] \in InWait
    BY <1>0, <1>2 DEF CheckExpiryNode, RaceResume, CanWin, First, BlockInv, TimerInv, TimerNodes,
       InWait, Suspending, bqVars
  <2>2. ASSUME NEW g \in Freds PROVE g \in Granted' <=> g \in Granted
    BY <1>0, <2>1, GrantedIs, GrantedAfter DEF BlockTypeOK
  <2>3. ASSUME NEW g \in Freds PROVE g \in Waiting(Sem)' <=> g \in Waiting(Sem) /\ g # f
    BY <1>0, <2>1, FredAssumption, WaitingIs, WaitingAfter DEF BlockTypeOK
  <2>4. Granted' = Granted /\ Waiting(Sem)' = Waiting(Sem) \ {f}
    BY <2>2, <2>3 DEF Granted, Waiting
  <2>5. CASE f \in Waiting(Sem)
    <3>1. Abs!GiveUp(f)
      BY <1>0, <2>4, <2>5 DEF Abs!GiveUp
    <3>. QED BY <3>1 DEF Abs!Next
  <2>6. CASE f \notin Waiting(Sem)
    BY <1>0, <2>4, <2>6 DEF Abs!vars
  <2>. QED BY <2>5, <2>6
<1>3. \/ UNCHANGED <<pc, resumeInfo>>
      \/ \E f \in Freds : CheckExpiryNode(f) /\ CanWin(f)
  BY DEF Tick, TimerStep, TimerPoll, TimerRead, CheckExpiryLock, CheckExpiryNode,
     CheckExpiryResume, CheckExpiryDone, Resume, fredVars
<1>. QED BY <1>1, <1>2, <1>3

LEMMA CallImplements ==
  ASSUME IInv, BlockInv', ~Binary, NEW f \in Freds, Call(f)
  PROVE  [Abs!Next]_(Abs!vars)
<1>0. /\ BlockInv /\ BlockTypeOK /\ Sem \notin {Null, Timer} /\ pc[f] = "idle"
      /\ pc[f] \notin InWait \cup {"unblocked", "timedout"}
      /\ counter \in Nat
  BY SemAssumption, QueueAssumption
     DEF IInv, BlockInv, TypeOK, Call, P, tryP, wait, V, tryV, SleepFred, InWait, Suspending
<1>1. ASSUME counter >= 1, TakePermit PROVE [Abs!Next]_(Abs!vars)
  <2>1. UNCHANGED <<Waiting(Sem), Granted>>
    BY <1>1 DEF TakePermit, Waiting, Granted, Waits, InWait, Suspending, InQueue, CanWin, bqVars, fredVars
  <2>2. Abs!Take
    BY <1>0, <1>1, <2>1 DEF Abs!Take, TakePermit
  <2>. QED BY <2>2 DEF Abs!Next
<1>2. ASSUME UNCHANGED vars PROVE [Abs!Next]_(Abs!vars)
  BY <1>2 DEF vars, fredVars, bqVars, semVars, Abs!vars, Waiting, Granted, Waits, InWait, Suspending,
     InQueue, CanWin
<1>3. ASSUME NEW t \in 0 .. Never, counter < 1, Block(f, Sem, t), UNCHANGED semVars
      PROVE  [Abs!Next]_(Abs!vars)
  <2>1. /\ \E l \in InWait : pc' = [pc EXCEPT ![f] = l]
        /\ resumeInfo' = [resumeInfo EXCEPT ![f] = Null]
        /\ blockedOn' = [blockedOn EXCEPT ![f] = Sem]
    BY <1>3 DEF Block, PrepareResumeRace, InWait, Suspending
  <2>2. ASSUME NEW g \in Freds PROVE g \in Granted' <=> g \in Granted
    BY <1>0, <2>1, GrantedIs, GrantedAfter DEF BlockTypeOK
  <2>3. ASSUME NEW g \in Freds PROVE g \in Waiting(Sem)' <=> g \in Waiting(Sem) \/ g = f
    BY <1>0, <2>1, WaitingIs, WaitingAfter DEF BlockTypeOK
  <2>4. Granted' = Granted /\ Waiting(Sem)' = Waiting(Sem) \cup {f}
    BY <2>2, <2>3 DEF Granted, Waiting
  <2>5. f \notin Waiting(Sem) \cup Granted
    BY <1>0, WaitingIs, GrantedIs
  <2>6. Abs!Wait(f)
    BY <1>0, <1>3, <2>4, <2>5 DEF Abs!Wait, semVars
  <2>. QED BY <2>6 DEF Abs!Next
<1>4. ASSUME NEW i \in DOMAIN bq[Sem], Unblock(f, Sem, i), pc' = [pc EXCEPT ![f] = "wake"],
             UNCHANGED counter
      PROVE  [Abs!Next]_(Abs!vars)
  <2>1. PICK h \in Freds : h = bq[Sem][i] /\ h \in Waiting(Sem)
    BY <1>0, <1>4, UnblockStepSem DEF Waiting
  <2>2. Waiting(Sem)' = Waiting(Sem) \ {h}
    BY <1>0, <1>4, <2>1, UnblockStepSem
  <2>3. resumeInfo' = [resumeInfo EXCEPT ![h] = Sem] /\ pc[h] \in InWait
    BY <1>0, <1>4, <2>1, WaitingIs DEF Unblock, RaceResume
  <2>4. "wake" \notin InWait \cup {"unblocked", "timedout"}
    BY DEF InWait, Suspending
  <2>5. ASSUME NEW g \in Freds PROVE g \in Granted' <=> g \in Granted \/ g = h
    BY <1>0, <1>4, <2>3, <2>4, GrantedIs, GrantedAfter DEF BlockTypeOK
  <2>6. Granted' = Granted \cup {h}
    BY <2>5 DEF Granted
  <2>7. Abs!Grant(h)
    BY <1>4, <2>1, <2>2, <2>6 DEF Abs!Grant
  <2>. QED BY <2>7 DEF Abs!Next
<1>5. ASSUME \A i \in DOMAIN bq[Sem] : ~CanWin(bq[Sem][i]), counter' = counter + 1,
             UNCHANGED <<fredVars, timerVars, bqVars>>
      PROVE  [Abs!Next]_(Abs!vars)
  <2>1. UNCHANGED <<Waiting(Sem), Granted>>
    BY <1>5 DEF Waiting, Granted, Waits, InWait, Suspending, InQueue, CanWin, bqVars, fredVars
  <2>2. Waiting(Sem) = {}
    BY <1>0, <1>5, NobodyToUnblock
  <2>3. Abs!Post
    BY <1>5, <2>1, <2>2 DEF Abs!Post
  <2>. QED BY <2>3 DEF Abs!Next
<1>6. ASSUME NEW t \in Times, SleepFred(f, t), UNCHANGED semVars
      PROVE  [Abs!Next]_(Abs!vars)
  <2>1. /\ pc' = [pc EXCEPT ![f] = "arm"] /\ resumeInfo' = [resumeInfo EXCEPT ![f] = Null]
        /\ blockedOn' = [blockedOn EXCEPT ![f] = Null]
    BY <1>6 DEF SleepFred, PrepareResumeRace
  <2>2. ASSUME NEW g \in Freds PROVE g \in Granted' <=> g \in Granted
    BY <1>0, <2>1, GrantedIs, GrantedAfter DEF BlockTypeOK
  <2>3. ASSUME NEW g \in Freds PROVE g \in Waiting(Sem)' <=> g \in Waiting(Sem)
    BY <1>0, <2>1, WaitingIs, WaitingAfter DEF BlockTypeOK
  <2>4. UNCHANGED <<Waiting(Sem), Granted>>
    BY <2>2, <2>3, SameSets
  <2>. QED BY <1>6, <2>4 DEF Abs!vars, semVars
<1>7. ASSUME NEW t \in 0 .. Never, P(f, t) PROVE [Abs!Next]_(Abs!vars)
  BY <1>1, <1>2, <1>3, <1>7 DEF P
<1>8. ASSUME V(f) \/ tryV(f) PROVE [Abs!Next]_(Abs!vars)
  BY <1>4, <1>5, <1>8 DEF V, tryV
<1>. QED BY <1>1, <1>6, <1>7, <1>8 DEF Call, wait, tryP

LEMMA ContinueImplements ==
  ASSUME IInv, BlockInv', NEW f \in Freds, Continue(f)
  PROVE  [Abs!Next]_(Abs!vars)
<1>0. BlockInv /\ BlockTypeOK /\ Sem \notin {Null, Timer}
  BY SemAssumption, QueueAssumption DEF IInv, BlockInv
<1>1. CASE BlockStep(f) /\ UNCHANGED semVars
  BY <1>1, BlockStepStutters DEF Abs!vars, semVars
<1>2. CASE VResume(f) \/ PReturn(f)
  <2>1. /\ pc' = [pc EXCEPT ![f] = "idle"] /\ UNCHANGED <<resumeInfo, blockedOn, counter>>
        /\ pc[f] \in {"wake", "unblocked", "timedout"}
    BY <1>2 DEF VResume, PReturn, Resume, bqVars, semVars
  <2>2. pc[f] \notin InWait /\ "idle" \notin InWait /\ "wake" \notin InWait
    BY <2>1 DEF InWait, Suspending
  <2>3. ASSUME NEW g \in Freds PROVE g \in Waiting(Sem)' <=> g \in Waiting(Sem)
    BY <1>0, <2>1, <2>2, WaitingIs, WaitingAfter DEF BlockTypeOK
  <2>4. CASE pc[f] = "unblocked"
    <3>1. f \in Granted
      BY <2>4, GrantedIs DEF IInv, ResultInv
    <3>2. ASSUME NEW g \in Freds PROVE g \in Granted' <=> g \in Granted /\ g # f
      BY <1>0, <2>1, <2>2, GrantedIs, GrantedAfter DEF BlockTypeOK
    <3>3. Granted' = Granted \ {f} /\ Waiting(Sem)' = Waiting(Sem)
      BY <2>3, <3>2 DEF Granted, Waiting
    <3>4. Abs!Return(f)
      BY <2>1, <3>1, <3>3 DEF Abs!Return
    <3>. QED BY <3>4 DEF Abs!Next
  <2>5. CASE pc[f] # "unblocked"
    <3>1. pc[f] = "timedout" => resumeInfo[f] # Sem
      BY <1>0 DEF IInv, ResultInv
    <3>2. ASSUME NEW g \in Freds PROVE g \in Granted' <=> g \in Granted
      BY <1>0, <2>1, <2>2, <2>5, <3>1, GrantedIs, GrantedAfter DEF BlockTypeOK
    <3>3. UNCHANGED <<Waiting(Sem), Granted>>
      BY <2>3, <3>2, SameSets
    <3>. QED BY <2>1, <3>3 DEF Abs!vars
  <2>. QED BY <2>4, <2>5
<1>. QED BY <1>1, <1>2 DEF Continue

\* The counting LockedSemaphore implements the abstract semaphore (the safety
\* part): V hands its permit to exactly one waiting fred or keeps it, and a
\* timeout gives up exactly one waiting fred and no permit.
THEOREM Implements ==
  ASSUME ~Binary
  PROVE  SafeSpec => Abs!SafeSpec
<1>1. Init => Abs!Init
  <2> SUFFICES ASSUME Init PROVE Abs!Init
    OBVIOUS
  <2>1. IInv /\ BlockInv
    BY InitIInv DEF IInv
  <2>2. Waiting(Sem) = {} /\ Granted = {}
    BY <2>1, WaitingIs, GrantedIs DEF Init, FredInit, InWait, Suspending, Waiting, Granted
  <2>. QED BY <2>2 DEF Init, Abs!Init
<1>2. IInv /\ [Next]_vars => [Abs!Next]_(Abs!vars)
  <2> SUFFICES ASSUME IInv, [Next]_vars PROVE [Abs!Next]_(Abs!vars)
    OBVIOUS
  <2>1. BlockInv'
    BY NextBlockInv
  <2>2. CASE UNCHANGED vars
    BY <2>2 DEF vars, fredVars, bqVars, semVars, Abs!vars, Waiting, Granted, Waits, InWait, Suspending,
       InQueue, CanWin
  <2>. QED BY <2>1, <2>2, CallImplements, ContinueImplements, TimerStepImplements DEF Next
<1>. QED BY <1>1, <1>2, Invariance, PTL DEF SafeSpec, Abs!SafeSpec

---------------------------------------------------------------------------
(* The permits are accounted for, in the counting and in the binary form.   *)

\* The steps of the accounts: nothing happens to a permit (or the binary wait
\* forgets it), P takes one from the counter, V leaves one in the counter, V
\* hands one to a fred that has none, and that fred returns with it.
Kept == /\ UNCHANGED <<Granted, posted, taken>>
        /\ counter' = counter \/ (Binary /\ counter' = 0)
Took == /\ UNCHANGED <<Granted, posted>>
        /\ counter >= 1 /\ counter' = counter - 1 /\ taken' = taken + 1
Left == /\ UNCHANGED <<Granted, taken>>
        /\ posted' = posted + 1 /\ counter' = IF Binary THEN 1 ELSE counter + 1
Handed(h) == /\ UNCHANGED <<counter, taken>>
             /\ posted' = posted + 1 /\ h \notin Granted /\ Granted' = Granted \cup {h}
Returned(f) == /\ UNCHANGED <<counter, posted>>
               /\ taken' = taken + 1 /\ f \in Granted /\ Granted' = Granted \ {f}

Booked == \/ Kept \/ Took \/ Left
          \/ \E h \in Freds : Handed(h) \/ Returned(h)

\* Granted is a set of freds: it is known by its members.
LEMMA SameGranted ==
  ASSUME \A g \in Freds : g \in Granted' <=> g \in Granted
  PROVE  Granted' = Granted
BY DEF Granted

LEMMA QuietGranted ==
  ASSUME UNCHANGED <<pc, resumeInfo>>
  PROVE  Granted' = Granted
BY DEF Granted, Waits, InWait, Suspending

\* The timer hands no permit to anybody: it wins the race for itself.
LEMMA TimerBooked ==
  ASSUME IInv, Tick \/ TimerStep, UNCHANGED <<bqVars, semVars>>
  PROVE  Booked
<1>0. BlockTypeOK /\ Sem \notin {Null, Timer}
  BY SemAssumption, QueueAssumption DEF IInv, BlockInv
<1>1. /\ UNCHANGED pc
      /\ \/ UNCHANGED resumeInfo
         \/ \E f \in Freds : CanWin(f) /\ resumeInfo' = [resumeInfo EXCEPT ![f] = Timer]
  BY TimerMoves DEF IInv
<1>2. ASSUME NEW g \in Freds PROVE g \in Granted' <=> g \in Granted
  BY <1>0, <1>1, GrantedIs, GrantedAfter DEF BlockTypeOK, CanWin
<1>3. Granted' = Granted
  BY <1>2, SameGranted
<1>. QED BY <1>3 DEF Booked, Kept, semVars

LEMMA CallBooked ==
  ASSUME IInv, BlockInv', NEW f \in Freds, Call(f)
  PROVE  Booked
<1>0. /\ BlockInv /\ BlockTypeOK /\ Sem \notin {Null, Timer} /\ pc[f] = "idle"
      /\ pc[f] \notin InWait \cup {"unblocked", "timedout"}
  BY SemAssumption, QueueAssumption
     DEF IInv, BlockInv, TypeOK, Call, P, tryP, wait, V, tryV, SleepFred, InWait, Suspending
<1>1. ASSUME counter >= 1, TakePermit PROVE Booked
  <2>1. Granted' = Granted
    BY <1>1, QuietGranted DEF TakePermit, fredVars
  <2>. QED BY <1>1, <2>1 DEF Booked, Took, TakePermit
<1>2. ASSUME NEW t \in 0 .. Never, Block(f, Sem, t) PROVE Granted' = Granted
  <2>1. /\ \E l \in InWait : pc' = [pc EXCEPT ![f] = l]
        /\ resumeInfo' = [resumeInfo EXCEPT ![f] = Null]
    BY <1>2 DEF Block, PrepareResumeRace, InWait, Suspending
  <2>2. ASSUME NEW g \in Freds PROVE g \in Granted' <=> g \in Granted
    BY <1>0, <2>1, GrantedIs, GrantedAfter DEF BlockTypeOK
  <2>. QED BY <2>2, SameGranted
<1>3. ASSUME NEW t \in 0 .. Never, P(f, t) PROVE Booked
  <2>1. CASE counter < 1 /\ Block(f, Sem, t) /\ UNCHANGED semVars
    BY <1>2, <2>1 DEF Booked, Kept, semVars
  <2>2. CASE UNCHANGED vars
    BY <2>2, QuietGranted DEF vars, fredVars, semVars, Booked, Kept
  <2>. QED BY <1>1, <1>3, <2>1, <2>2 DEF P
<1>4. ASSUME NEW t \in 0 .. Never, wait(f, t) PROVE Booked
  <2>1. Granted' = Granted
    BY <1>2, <1>4, QuietGranted DEF wait, fredVars
  <2>. QED BY <1>4, <2>1 DEF wait, Booked, Kept
<1>5. ASSUME V(f) \/ tryV(f) PROVE Booked
  <2>0. posted' = posted + 1 /\ UNCHANGED taken
    BY <1>5 DEF V, tryV
  <2>1. CASE /\ \A i \in DOMAIN bq[Sem] : ~CanWin(bq[Sem][i])
             /\ counter' = IF Binary THEN 1 ELSE counter + 1
             /\ UNCHANGED <<fredVars, timerVars, bqVars>>
    BY <2>0, <2>1, QuietGranted DEF fredVars, Booked, Left
  <2>2. ASSUME NEW i \in DOMAIN bq[Sem], Unblock(f, Sem, i), pc' = [pc EXCEPT ![f] = "wake"],
               UNCHANGED counter
        PROVE  Booked
    <3>1. PICK h \in Freds : h = bq[Sem][i] /\ h \in Waiting(Sem)
      BY <1>0, <2>2, UnblockStepSem DEF Waiting
    <3>2. /\ resumeInfo' = [resumeInfo EXCEPT ![h] = Sem] /\ pc[h] \in InWait
          /\ resumeInfo[h] = Null
      BY <1>0, <2>2, <3>1, WaitingIs DEF Unblock, RaceResume
    <3>3. "wake" \notin InWait \cup {"unblocked", "timedout"}
      BY DEF InWait, Suspending
    <3>4. ASSUME NEW g \in Freds PROVE g \in Granted' <=> g \in Granted \/ g = h
      BY <1>0, <2>2, <3>2, <3>3, GrantedIs, GrantedAfter DEF BlockTypeOK
    <3>5. Granted' = Granted \cup {h}
      BY <3>4 DEF Granted
    <3>6. h \notin Granted
      BY <1>0, <3>2, GrantedIs
    <3>. QED BY <2>0, <2>2, <3>5, <3>6 DEF Booked, Handed
  <2>. QED BY <1>5, <2>1, <2>2 DEF V, tryV
<1>6. ASSUME NEW t \in Times, SleepFred(f, t), UNCHANGED semVars PROVE Booked
  <2>1. pc' = [pc EXCEPT ![f] = "arm"] /\ resumeInfo' = [resumeInfo EXCEPT ![f] = Null]
    BY <1>6 DEF SleepFred, PrepareResumeRace
  <2>2. ASSUME NEW g \in Freds PROVE g \in Granted' <=> g \in Granted
    BY <1>0, <2>1, GrantedIs, GrantedAfter DEF BlockTypeOK
  <2>. QED BY <1>6, <2>2, SameGranted DEF Booked, Kept, semVars
<1>. QED BY <1>1, <1>3, <1>4, <1>5, <1>6 DEF Call, tryP

LEMMA ContinueBooked ==
  ASSUME IInv, BlockInv', NEW f \in Freds, Continue(f)
  PROVE  Booked
<1>0. BlockTypeOK /\ Sem \notin {Null, Timer}
  BY SemAssumption, QueueAssumption DEF IInv, BlockInv
<1>1. CASE BlockStep(f) /\ UNCHANGED semVars
  BY <1>1, BlockStepStutters DEF Booked, Kept, semVars
<1>2. CASE PReturn(f) /\ pc[f] = "unblocked"
  <2>1. /\ pc' = [pc EXCEPT ![f] = "idle"] /\ UNCHANGED <<resumeInfo, counter, posted>>
        /\ taken' = taken + 1
    BY <1>2 DEF PReturn
  <2>2. f \in Granted
    BY <1>2, GrantedIs DEF IInv, ResultInv
  <2>3. "idle" \notin InWait
    BY DEF InWait, Suspending
  <2>4. ASSUME NEW g \in Freds PROVE g \in Granted' <=> g \in Granted /\ g # f
    BY <1>0, <2>1, <2>3, GrantedIs, GrantedAfter DEF BlockTypeOK
  <2>5. Granted' = Granted \ {f}
    BY <2>4 DEF Granted
  <2>. QED BY <2>1, <2>2, <2>5 DEF Booked, Returned
<1>3. CASE VResume(f) \/ (PReturn(f) /\ pc[f] # "unblocked")
  <2>1. /\ pc' = [pc EXCEPT ![f] = "idle"] /\ UNCHANGED <<resumeInfo, counter, posted, taken>>
        /\ pc[f] \in {"wake", "timedout"}
    BY <1>3 DEF VResume, PReturn, Resume, semVars
  <2>2. pc[f] \notin InWait /\ "idle" \notin InWait
    BY <2>1 DEF InWait, Suspending
  <2>3. pc[f] = "timedout" => resumeInfo[f] # Sem
    BY <1>0 DEF IInv, ResultInv
  <2>4. ASSUME NEW g \in Freds PROVE g \in Granted' <=> g \in Granted
    BY <1>0, <2>1, <2>2, <2>3, GrantedIs, GrantedAfter DEF BlockTypeOK
  <2>. QED BY <2>1, <2>4, SameGranted DEF Booked, Kept
<1>. QED BY <1>1, <1>2, <1>3 DEF Continue, PReturn

LEMMA NextBooked ==
  ASSUME IInv, [Next]_vars
  PROVE  Booked
<1>1. BlockInv'
  BY NextBlockInv
<1>2. CASE UNCHANGED vars
  BY <1>2, QuietGranted DEF vars, fredVars, semVars, Booked, Kept
<1>. QED BY <1>1, <1>2, CallBooked, ContinueBooked, TimerBooked DEF Next

\* Granted is finite whatever Freds is: it grows by one fred per permit.
PermitInv == IsFiniteSet(Granted) /\ PermitsConserved

LEMMA BookedInv ==
  ASSUME IInv, PermitInv, Booked, IInv'
  PROVE  PermitInv'
<1>0. /\ counter \in Nat /\ posted \in Nat /\ taken \in Nat
      /\ IsFiniteSet(Granted) /\ Cardinality(Granted) \in Nat
      /\ InitCount \in Nat /\ Binary \in BOOLEAN
      /\ Binary => counter + taken + Cardinality(Granted) <= InitCount + posted
      /\ ~Binary => counter + taken + Cardinality(Granted) = InitCount + posted
  BY SemAssumption, FS_CardinalityType DEF IInv, TypeOK, PermitInv, PermitsConserved
<1> SUFFICES /\ IsFiniteSet(Granted')
             /\ Binary => counter' + taken' + Cardinality(Granted') <= InitCount + posted'
             /\ ~Binary => counter' + taken' + Cardinality(Granted') = InitCount + posted'
  BY DEF PermitInv, PermitsConserved
<1>1. CASE Kept \/ Took \/ Left
  <2>1. Granted' = Granted
    BY <1>1 DEF Kept, Took, Left
  <2>2. PICK n \in Nat : n = Cardinality(Granted)
    BY <1>0
  <2>3. /\ Binary => counter' + taken' + n <= InitCount + posted'
        /\ ~Binary => counter' + taken' + n = InitCount + posted'
    <3>1. CASE Kept
      BY <1>0, <2>2, <3>1 DEF Kept
    <3>2. CASE Took
      BY <1>0, <2>2, <3>2 DEF Took
    <3>3. CASE Left
      BY <1>0, <2>2, <3>3 DEF Left
    <3>. QED BY <1>1, <3>1, <3>2, <3>3
  <2>. QED BY <1>0, <2>1, <2>2, <2>3
<1>2. ASSUME NEW h \in Freds, Handed(h)
      PROVE  /\ IsFiniteSet(Granted')
             /\ Binary => counter' + taken' + Cardinality(Granted') <= InitCount + posted'
             /\ ~Binary => counter' + taken' + Cardinality(Granted') = InitCount + posted'
  <2>1. IsFiniteSet(Granted') /\ Cardinality(Granted') = Cardinality(Granted) + 1
    BY <1>0, <1>2, FS_AddElement DEF Handed
  <2>. QED BY <1>0, <1>2, <2>1 DEF Handed
<1>3. ASSUME NEW h \in Freds, Returned(h)
      PROVE  /\ IsFiniteSet(Granted')
             /\ Binary => counter' + taken' + Cardinality(Granted') <= InitCount + posted'
             /\ ~Binary => counter' + taken' + Cardinality(Granted') = InitCount + posted'
  <2>1. IsFiniteSet(Granted') /\ Cardinality(Granted') = Cardinality(Granted) - 1
    BY <1>0, <1>3, FS_RemoveElement DEF Returned
  <2>. QED BY <1>0, <1>3, <2>1 DEF Returned
<1>. QED BY <1>1, <1>2, <1>3 DEF Booked

\* No permit is lost or made up, for every number of freds and however
\* timeouts race with V: InitCount and the permits V added are in the counter,
\* with a fred that has been handed one, or returned by P.
THEOREM PermitsAreConserved == SafeSpec => []PermitsConserved
<1>1. Init => PermitInv
  <2> SUFFICES ASSUME Init PROVE PermitInv
    OBVIOUS
  <2>1. Granted = {}
    BY GrantedIs DEF Init, FredInit, InWait, Suspending, Granted
  <2>2. IsFiniteSet(Granted) /\ Cardinality(Granted) = 0
    BY <2>1, FS_EmptySet
  <2>3. counter + taken + Cardinality(Granted) = InitCount + posted
    BY <2>2, SemAssumption DEF Init
  <2>. QED BY <2>2, <2>3, SemAssumption DEF PermitInv, PermitsConserved, Init
<1>2. IInv /\ IInv' /\ PermitInv /\ [Next]_vars => PermitInv'
  BY NextBooked, BookedInv
<1>3. PermitInv => PermitsConserved
  BY DEF PermitInv
<1>. QED BY <1>1, <1>2, <1>3, Invariance, PTL DEF SafeSpec

---------------------------------------------------------------------------
(* SpinCondMutex.                                                           *)

LEMMA SpinCondMutexInitInv == SpinCondMutexInit => SpinCondMutexInv
<1> SUFFICES ASSUME SpinCondMutexInit PROVE SpinCondMutexInv
  OBVIOUS
<1>1. BlockInv
  BY BlockInitInv DEF SpinCondMutexInit
<1>2. MutexTypeOK
  BY TimeAssumption DEF SpinCondMutexInit, MutexTypeOK, Stages, Never
<1>3. StageInv
  BY DEF SpinCondMutexInit, FredInit, StageInv, InWait, Suspending
<1>4. MutualExclusion /\ OwnerExact
  BY FredAssumption DEF SpinCondMutexInit, MutualExclusion, OwnerExact, Holding
<1>5. \A f \in Freds : f \notin Waiting(Mx)
  BY <1>1, MutexAssumption, WaitingOn DEF SpinCondMutexInit, FredInit, InWait, Suspending
<1>. QED BY <1>1, <1>2, <1>3, <1>4, <1>5 DEF SpinCondMutexInv, WaiterNoticed, Waiting

---------------------------------------------------------------------------
(* value, owner and stage.                                                  *)

\* Mutual exclusion and the owner field rest on nothing but themselves.
LEMMA DataStep ==
  ASSUME MutexTypeOK, MutualExclusion, OwnerExact, [SpinCondMutexNext]_spinCondMutexVars
  PROVE  MutexTypeOK' /\ MutualExclusion' /\ OwnerExact'
<1> USE DEF MutexTypeOK, Stages, At, Goto
<1>1. CASE UNCHANGED mutexVars
  BY <1>1 DEF mutexVars, MutualExclusion, OwnerExact, Holding
<1>2. ASSUME NEW f \in Freds, NEW t \in Timeouts[f], Acquire(f, t)
      PROVE  MutexTypeOK' /\ MutualExclusion' /\ OwnerExact'
  BY <1>2, MutexAssumption DEF Acquire, MutualExclusion, OwnerExact, Holding
<1>3. ASSUME NEW f \in Freds, tryAcquire(f) \/ TryLock1(f)
      PROVE  MutexTypeOK' /\ MutualExclusion' /\ OwnerExact'
  BY <1>3 DEF tryAcquire, TryLock1, MutualExclusion, OwnerExact, Holding
<1>4. ASSUME NEW f \in Freds, TryLock2(f)
      PROVE  MutexTypeOK' /\ MutualExclusion' /\ OwnerExact'
  BY <1>4 DEF TryLock2, MutualExclusion, OwnerExact, Holding
<1>5. ASSUME NEW f \in Freds, SetOwner(f)
      PROVE  MutexTypeOK' /\ MutualExclusion' /\ OwnerExact'
  BY <1>5, TimeAssumption DEF SetOwner, MutualExclusion, OwnerExact, Holding, Never
<1>6. ASSUME NEW f \in Freds, QueueBlock(f) \/ BlockReturn(f)
      PROVE  MutexTypeOK' /\ MutualExclusion' /\ OwnerExact'
  BY <1>6 DEF QueueBlock, BlockReturn, MutualExclusion, OwnerExact, Holding
<1>7. ASSUME NEW f \in Freds, Release(f)
      PROVE  MutexTypeOK' /\ MutualExclusion' /\ OwnerExact'
  BY <1>7, FredAssumption DEF Release, MutualExclusion, OwnerExact, Holding
<1>8. ASSUME NEW f \in Freds, ReleaseSwap(f)
      PROVE  MutexTypeOK' /\ MutualExclusion' /\ OwnerExact'
  BY <1>8 DEF ReleaseSwap, MutualExclusion, OwnerExact, Holding
<1>9. ASSUME NEW f \in Freds, ReleaseUnblock(f) \/ ReleaseResume(f)
      PROVE  MutexTypeOK' /\ MutualExclusion' /\ OwnerExact'
  BY <1>9 DEF ReleaseUnblock, ReleaseResume, MutualExclusion, OwnerExact, Holding
<1>. QED BY <1>1, <1>2, <1>3, <1>4, <1>5, <1>6, <1>7, <1>8, <1>9 DEF SpinCondMutexNext, MutexStep, spinCondMutexVars, mutexVars

---------------------------------------------------------------------------
(* The library part, one step per kind of action.                           *)

LEMMA ElsewhereInv ==
  ASSUME BlockInv, Elsewhere
  PROVE  BlockInv'
BY DEF Elsewhere, fredVars, timerVars, bqVars, BlockInv, BlockTypeOK, RaceInv, RaceRunning,
   RaceOff, OwedInv, NodeInv, TimerInv, TimerNodes, TimerArmed, Owed, InQueue, CanWin, Timed

LEMMA MutexBlockInv ==
  ASSUME SpinCondMutexInv, [SpinCondMutexNext]_spinCondMutexVars
  PROVE  BlockInv'
<1>0. BlockInv /\ Mx \in Queues /\ "idle" \in Labels \ InWait
      /\ \A f \in Freds : until[f] \in 0 .. Never
  BY MutexAssumption DEF SpinCondMutexInv, MutexTypeOK, Labels, InWait, Suspending
<1>1. CASE UNCHANGED spinCondMutexVars
  BY <1>0, <1>1, ElsewhereInv DEF spinCondMutexVars, Elsewhere
<1>2. CASE Tick /\ UNCHANGED <<bqVars, mutexVars>>
  BY <1>0, <1>2, TickInv
<1>3. CASE TimerStep /\ UNCHANGED <<bqVars, mutexVars>>
  BY <1>0, <1>3, TimerStepInv
<1>4. ASSUME NEW f \in Freds,
             \/ \E t \in Timeouts[f] : Acquire(f, t)
             \/ tryAcquire(f) \/ TryLock1(f) \/ TryLock2(f) \/ SetOwner(f)
             \/ Release(f) \/ ReleaseSwap(f)
      PROVE  BlockInv'
  BY <1>0, <1>4, ElsewhereInv DEF Acquire, tryAcquire, TryLock1, TryLock2, SetOwner, Release, ReleaseSwap
<1>5. ASSUME NEW f \in Freds, BlockStep(f)
      PROVE  BlockInv'
  BY <1>0, <1>5, BlockStepInv
<1>6. ASSUME NEW f \in Freds, QueueBlock(f)
      PROVE  BlockInv'
  BY <1>0, <1>6, ElsewhereInv, BlockEntryInv DEF QueueBlock, At
<1>7. ASSUME NEW f \in Freds, BlockReturn(f)
      PROVE  BlockInv'
  <2>1. pc[f] \in {"unblocked", "timedout"} /\ pc' = [pc EXCEPT ![f] = "idle"]
        /\ UNCHANGED <<runState, resumeInfo, readyLinks, pending, timerVars, bqVars>>
    BY <1>7 DEF BlockReturn
  <2>2. pc[f] \notin InWait /\ pc[f] # "wake"
    BY <2>1 DEF InWait, Suspending
  <2>. QED BY <1>0, <2>1, <2>2, LabelInv
<1>8. ASSUME NEW f \in Freds, ReleaseUnblock(f)
      PROVE  BlockInv'
  <2>1. pc[f] = "idle" /\ pc[f] \notin InWait /\ pc[f] # "wake"
    BY <1>8 DEF ReleaseUnblock, At, InWait, Suspending
  <2>. QED BY <1>0, <1>8, <2>1, UnblockInv, ElsewhereInv DEF ReleaseUnblock
<1>9. ASSUME NEW f \in Freds, ReleaseResume(f)
      PROVE  BlockInv'
  BY <1>0, <1>9, WakeInv DEF ReleaseResume
<1>. QED BY <1>1, <1>2, <1>3, <1>4, <1>5, <1>6, <1>7, <1>8, <1>9 DEF SpinCondMutexNext, MutexStep
---------------------------------------------------------------------------
(* Where the freds are.                                                     *)

LEMMA NextStageInv ==
  ASSUME SpinCondMutexInv, [SpinCondMutexNext]_spinCondMutexVars
  PROVE  StageInv'
<1> USE DEF At, Goto, InWait, Suspending
<1>0. /\ BlockInv /\ StageInv /\ MutexTypeOK /\ Mx \in Queues /\ Mx # Null /\ Mx # Timer
      /\ stage \in [Freds -> Stages] /\ pc \in [Freds -> Labels]
      /\ resumeInfo \in [Freds -> Queues \cup {Null, Timer}]
      /\ blockedOn \in [Freds -> Queues \cup {Null}]
  BY MutexAssumption, QueueAssumption DEF SpinCondMutexInv, BlockInv, BlockTypeOK, MutexTypeOK
<1>1. CASE UNCHANGED spinCondMutexVars
  BY <1>0, <1>1 DEF spinCondMutexVars, mutexVars, fredVars, bqVars, StageInv
<1>2. CASE (Tick \/ TimerStep) /\ UNCHANGED <<bqVars, mutexVars>>
  BY <1>0, <1>2, TimerMoves DEF StageInv, CanWin, mutexVars
<1>4. ASSUME NEW f \in Freds,
             \/ \E t \in Timeouts[f] : Acquire(f, t)
             \/ tryAcquire(f) \/ TryLock1(f) \/ TryLock2(f) \/ SetOwner(f)
             \/ Release(f) \/ ReleaseSwap(f)
      PROVE  StageInv'
  <2>1. /\ pc[f] = "idle" /\ stage[f] # "resume"
        /\ UNCHANGED <<pc, resumeInfo, blockedOn>>
        /\ \E s \in Stages \ {"resume"} : stage' = [stage EXCEPT ![f] = s]
    BY <1>0, <1>4 DEF Acquire, tryAcquire, TryLock1, TryLock2, SetOwner, Release, ReleaseSwap,
       Elsewhere, fredVars, bqVars, Stages
  <2>. QED BY <1>0, <2>1 DEF StageInv
<1>5. ASSUME NEW f \in Freds, BlockStep(f), UNCHANGED mutexVars
      PROVE  StageInv'
  BY <1>0, <1>5, BlockStepMoves DEF StageInv, mutexVars
<1>6. ASSUME NEW f \in Freds, QueueBlock(f)
      PROVE  StageInv'
  <2>1. CASE Block(f, Mx, until[f]) /\ UNCHANGED stage
    BY <1>0, <1>6, <2>1 DEF QueueBlock, Block, PrepareResumeRace, StageInv
  <2>2. CASE Elsewhere /\ (Goto(f, "out") \/ Goto(f, "retry"))
    BY <1>0, <1>6, <2>2 DEF QueueBlock, Elsewhere, fredVars, bqVars, StageInv
  <2>. QED BY <1>6, <2>1, <2>2 DEF QueueBlock
<1>7. ASSUME NEW f \in Freds, BlockReturn(f)
      PROVE  StageInv'
  BY <1>0, <1>7 DEF BlockReturn, bqVars, StageInv
<1>8. ASSUME NEW f \in Freds, ReleaseUnblock(f)
      PROVE  StageInv'
  <2>1. ASSUME NEW i \in DOMAIN bq[Mx], Unblock(f, Mx, i), pc' = [pc EXCEPT ![f] = "wake"],
               Goto(f, "resume")
        PROVE  StageInv'
    BY <1>0, <1>8, <2>1, UnblockMoves DEF ReleaseUnblock, StageInv
  <2>2. CASE Goto(f, "out") /\ Elsewhere
    BY <1>0, <1>8, <2>2 DEF ReleaseUnblock, Elsewhere, fredVars, bqVars, StageInv
  <2>. QED BY <1>8, <2>1, <2>2 DEF ReleaseUnblock
<1>9. ASSUME NEW f \in Freds, ReleaseResume(f)
      PROVE  StageInv'
  BY <1>0, <1>9 DEF ReleaseResume, Resume, bqVars, StageInv
<1>. QED BY <1>1, <1>2, <1>4, <1>5, <1>6, <1>7, <1>8, <1>9 DEF SpinCondMutexNext, MutexStep

---------------------------------------------------------------------------
(* No waiter is overlooked.                                                 *)

LEMMA NextWaiterNoticed ==
  ASSUME SpinCondMutexInv, [SpinCondMutexNext]_spinCondMutexVars, BlockInv', StageInv'
  PROVE  WaiterNoticed'
<1> USE DEF At, Goto
<1>0. /\ BlockInv /\ StageInv /\ WaiterNoticed /\ Mx \in Queues /\ Mx # Null /\ Mx # Timer
      /\ stage \in [Freds -> Stages] /\ pc \in [Freds -> Labels]
      /\ resumeInfo \in [Freds -> Queues \cup {Null, Timer}]
      /\ blockedOn \in [Freds -> Queues \cup {Null}]
      /\ value \in 0 .. 2
  BY MutexAssumption, QueueAssumption DEF SpinCondMutexInv, BlockInv, BlockTypeOK, MutexTypeOK
<1>a. SUFFICES ASSUME NEW g \in Freds, g \in Waiting(Mx)'
               PROVE  value' = 2 \/ \E h \in Freds : stage'[h] = "unblock" \/ Woken(h)'
  BY DEF WaiterNoticed, Waiting
<1>b. pc'[g] \in InWait /\ blockedOn'[g] = Mx /\ resumeInfo'[g] = Null
  BY <1>0, <1>a, WaitingOnAfter
\* It waited before, so that there was a witness: it is one still.
<1>c. ASSUME g \in Waiting(Mx)
      PROVE  value = 2 \/ \E h \in Freds : stage[h] = "unblock" \/ Woken(h)
  BY <1>0, <1>c DEF WaiterNoticed
<1>1. CASE UNCHANGED spinCondMutexVars
  BY <1>0, <1>1, <1>b, <1>c, WaitingOn DEF spinCondMutexVars, mutexVars, fredVars, bqVars, Woken, InWait, Suspending
<1>2. CASE (Tick \/ TimerStep) /\ UNCHANGED <<bqVars, mutexVars>>
  <2>1. g \in Waiting(Mx)
    BY <1>0, <1>2, <1>b, TimerMoves, WaitingOn DEF CanWin
  <2>. QED BY <1>0, <1>2, <1>c, <2>1, TimerMoves DEF Woken, CanWin, mutexVars, InWait, Suspending
\* Steps that leave value and the freds alone, and drop no witness.
<1>3. ASSUME NEW f \in Freds, NEW s \in Stages \ {"resume"}, stage' = [stage EXCEPT ![f] = s],
             pc[f] = "idle", stage[f] \notin {"unblock", "retry"}, value' = value \/ value = 0,
             UNCHANGED <<pc, resumeInfo, blockedOn>>
      PROVE  value' = 2 \/ \E h \in Freds : stage'[h] = "unblock" \/ Woken(h)'
  BY <1>0, <1>3, <1>b, <1>c, WaitingOn DEF Woken, InWait, Suspending
<1>4. ASSUME NEW f \in Freds,
             \/ \E t \in Timeouts[f] : Acquire(f, t)
             \/ tryAcquire(f) \/ TryLock1(f) \/ SetOwner(f) \/ Release(f)
      PROVE  value' = 2 \/ \E h \in Freds : stage'[h] = "unblock" \/ Woken(h)'
  <2>1. /\ pc[f] = "idle" /\ stage[f] \notin {"unblock", "retry"}
        /\ value' = value \/ value = 0
        /\ UNCHANGED <<pc, resumeInfo, blockedOn>>
        /\ \E s \in Stages \ {"resume"} : stage' = [stage EXCEPT ![f] = s]
    BY <1>4 DEF Acquire, tryAcquire, TryLock1, SetOwner, Release, Elsewhere, fredVars, bqVars, Stages
  <2>. QED BY <1>3, <2>1
\* tryLock2() leaves 2 behind; the exchange of release() notices a 2.
<1>5. ASSUME NEW f \in Freds, TryLock2(f)
      PROVE  value' = 2
  BY <1>5 DEF TryLock2
<1>6. ASSUME NEW f \in Freds, ReleaseSwap(f)
      PROVE  \E h \in Freds : stage'[h] = "unblock" \/ Woken(h)'
  <2>1. CASE value = 1
    <3>1. g \in Waiting(Mx)
      BY <1>0, <1>6, <1>b, WaitingOn DEF ReleaseSwap, Elsewhere, fredVars, bqVars
    <3>2. PICK h \in Freds : stage[h] = "unblock" \/ Woken(h)
      BY <2>1, <3>1, <1>c
    <3>. QED BY <1>0, <1>6, <3>2 DEF ReleaseSwap, Elsewhere, fredVars, bqVars, Woken, InWait, Suspending
  <2>2. CASE value # 1
    BY <1>0, <1>6, <2>2 DEF ReleaseSwap, Stages
  <2>. QED BY <2>1, <2>2
\* block() decides no race.
<1>7. ASSUME NEW f \in Freds, BlockStep(f), UNCHANGED mutexVars
      PROVE  value' = 2 \/ \E h \in Freds : stage'[h] = "unblock" \/ Woken(h)'
  <2>1. g \in Waiting(Mx)
    BY <1>0, <1>7, <1>b, BlockStepMoves, WaitingOn DEF InWait, Suspending
  <2>. QED BY <1>0, <1>7, <1>c, <2>1, BlockStepMoves DEF Woken, mutexVars, StageInv, InWait, Suspending
\* A fred blocks only while value is 2.
<1>8. ASSUME NEW f \in Freds, QueueBlock(f)
      PROVE  value' = 2 \/ \E h \in Freds : stage'[h] = "unblock" \/ Woken(h)'
  <2>1. CASE value = 2
    BY <1>8, <2>1 DEF QueueBlock
  <2>2. CASE value # 2
    <3>1. stage'[f] = "retry"
      BY <1>0, <1>8, <2>2 DEF QueueBlock
    <3>. QED BY <3>1 DEF Woken
  <2>. QED BY <2>1, <2>2
\* A woken fred competes again.
<1>9. ASSUME NEW f \in Freds, BlockReturn(f)
      PROVE  value' = 2 \/ \E h \in Freds : stage'[h] = "unblock" \/ Woken(h)'
  <2>1. g \in Waiting(Mx)
    BY <1>0, <1>9, <1>b, WaitingOn DEF BlockReturn, bqVars, InWait, Suspending
  <2>2. CASE pc[f] = "unblocked"
    BY <1>0, <1>9, <2>2 DEF BlockReturn, Woken
  <2>3. CASE pc[f] = "timedout"
    BY <1>0, <1>9, <1>c, <2>1, <2>3 DEF BlockReturn, bqVars, Woken, InWait, Suspending
  <2>. QED BY <1>9, <2>2, <2>3 DEF BlockReturn
\* release() wakes one, or nobody waits.
<1>10. ASSUME NEW f \in Freds, ReleaseUnblock(f)
       PROVE  \E h \in Freds : stage'[h] = "unblock" \/ Woken(h)'
  <2>1. ASSUME NEW i \in DOMAIN bq[Mx], Unblock(f, Mx, i), pc' = [pc EXCEPT ![f] = "wake"],
               Goto(f, "resume")
        PROVE  \E h \in Freds : Woken(h)'
    <3>1. PICK h \in Freds : /\ h \in Waiting(Mx)
                             /\ resumeInfo' = [resumeInfo EXCEPT ![h] = Mx]
      BY <1>0, <2>1, UnblockMoves
    <3>2. pc[h] \in InWait /\ stage[h] = "block"
      BY <1>0, <3>1, WaitingOn DEF StageInv
    <3>3. h # f /\ pc'[h] = pc[h] /\ stage'[h] = stage[h]
      BY <1>0, <1>10, <2>1, <3>2 DEF ReleaseUnblock
    <3>. QED BY <1>0, <3>1, <3>2, <3>3 DEF Woken, InWait, Suspending
  <2>2. CASE Elsewhere /\ \A i \in DOMAIN bq[Mx] : ~CanWin(bq[Mx][i])
    <3>1. g \in Waiting(Mx)
      BY <1>0, <2>2, <1>b, WaitingOn DEF Elsewhere, fredVars, bqVars
    <3>. QED BY <1>0, <2>2, <3>1, NobodyWaits
  <2>. QED BY <1>10, <2>1, <2>2 DEF ReleaseUnblock
<1>11. ASSUME NEW f \in Freds, ReleaseResume(f)
       PROVE  value' = 2 \/ \E h \in Freds : stage'[h] = "unblock" \/ Woken(h)'
  <2>1. g \in Waiting(Mx)
    BY <1>0, <1>11, <1>b, WaitingOn DEF ReleaseResume, Resume, bqVars, InWait, Suspending
  <2>. QED BY <1>0, <1>11, <1>c, <2>1 DEF ReleaseResume, Resume, bqVars, Woken, InWait, Suspending
<1>. QED BY <1>1, <1>2, <1>4, <1>5, <1>6, <1>7, <1>8, <1>9, <1>10, <1>11 DEF SpinCondMutexNext, MutexStep

---------------------------------------------------------------------------

\* Together: every step preserves the inductive invariant.
LEMMA SpinCondMutexNextInv == SpinCondMutexInv /\ [SpinCondMutexNext]_spinCondMutexVars => SpinCondMutexInv'
<1> SUFFICES ASSUME SpinCondMutexInv, [SpinCondMutexNext]_spinCondMutexVars PROVE SpinCondMutexInv'
  OBVIOUS
<1>1. MutexTypeOK' /\ MutualExclusion' /\ OwnerExact'
  BY DataStep DEF SpinCondMutexInv
<1>2. BlockInv'
  BY MutexBlockInv
<1>3. StageInv'
  BY NextStageInv
<1>4. WaiterNoticed'
  BY <1>2, <1>3, NextWaiterNoticed
<1>. QED BY <1>1, <1>2, <1>3, <1>4 DEF SpinCondMutexInv

\* The inductive invariant of SpinCondMutex::acquire() and release() holds in
\* every reachable state.
THEOREM SpinCondMutexInvariance == SpinCondMutexSpec => []SpinCondMutexInv
<1>1. SpinCondMutexInit => SpinCondMutexInv
  BY SpinCondMutexInitInv
<1>2. SpinCondMutexInv /\ [SpinCondMutexNext]_spinCondMutexVars => SpinCondMutexInv'
  BY SpinCondMutexNextInv
<1>. QED BY <1>1, <1>2, PTL DEF SpinCondMutexSpec

\* At most one fred is between the exchange in acquire() that takes the mutex
\* and the one in release() that gives it back, and value is 0 exactly while
\* there is none.
THEOREM SafeExclusion == SpinCondMutexSpec => []MutualExclusion
<1>1. SpinCondMutexInv => MutualExclusion
  BY DEF SpinCondMutexInv
<1>. QED BY <1>1, SpinCondMutexInvariance, PTL

\* The field owner, written by acquire() and release() with plain stores,
\* names exactly the fred that owns the mutex.
THEOREM SafeOwner == SpinCondMutexSpec => []OwnerExact
<1>1. SpinCondMutexInv => OwnerExact
  BY DEF SpinCondMutexInv
<1>. QED BY <1>1, SpinCondMutexInvariance, PTL

\* No wake-up is lost between tryLock2(), ConditionalQueue::block() and
\* release(): a fred that waits is noticed by the holder of the mutex, or
\* somebody is waking one, or somebody woken is about to compete again.
THEOREM SafeWaiters == SpinCondMutexSpec => []WaiterNoticed
<1>1. SpinCondMutexInv => WaiterNoticed
  BY DEF SpinCondMutexInv
<1>. QED BY <1>1, SpinCondMutexInvariance, PTL

\* Suspended freds of the mutex follow the protocol of Fred and BlockingQueue:
\* resumed once per suspension, queued only while they wait, never forgotten.
THEOREM SafeBlocking == SpinCondMutexSpec => [](RunStateProtocol /\ LinkedOnce /\ BlockNodes /\ NobodyForgotten)
<1>1. SpinCondMutexInv => RunStateProtocol /\ LinkedOnce /\ BlockNodes /\ NobodyForgotten
  BY BlockInvImplies DEF SpinCondMutexInv
<1>. QED BY <1>1, SpinCondMutexInvariance, PTL

---------------------------------------------------------------------------
(* Condition.                                                               *)

\* The race of f is open from the queueing of its node: also while it still
\* releases the mutex.
CondRace ==
  \A f \in Freds :
    /\ pc[f] \in {"arm", "suspend", "switch"} \/ step[f] = "release" => RaceRunning(f)
    /\ pc[f] = "off" => RaceOff(f)
    /\ pc[f] \notin Suspending /\ step[f] # "release" =>
         runState[f] = Running /\ readyLinks[f] = 0 /\ ~Owed(f)
    /\ pc[f] = "resumed" => ~CanWin(f)

\* Which node is where: a timed wait leaves its node in the queue of the
\* condition until it has the mutex again.
CondNodes ==
  /\ \A q \in Queues : IsInjective(bq[q])
  /\ \A f \in Freds :
       /\ InQueue(f, Mx) <=> /\ pc[f] \in InWait /\ blockedOn[f] = Mx
                             /\ resumeInfo[f] \in {Null, Timer}
       /\ InQueue(f, Cd) <=> \/ step[f] \in {"release", "sleep"} /\ resumeInfo[f] \in {Null, Timer}
                             \/ step[f] = "lock"
       /\ pc[f] \in InWait => resumeInfo[f] \in {Null, Timer, blockedOn[f]}
       /\ step[f] = "release" => resumeInfo[f] \in {Null, Cd}

CondBlockInv == BlockTypeOK /\ CondRace /\ OwedInv /\ CondNodes /\ TimerInv

Entering == {"low", "high", "block", "retry", "claim", "own"}
Leaving  == {"own", "swap", "unblock", "out"}

\* Where a fred is in wait() and signal(), and in the mutex.
CondPlaces ==
  \A f \in Freds :
    /\ step[f] \in {"signal", "broadcast"} => pc[f] = "wake" /\ stage[f] = "own"
    /\ step[f] = "again" => pc[f] = "idle" /\ stage[f] = "own"
    /\ step[f] \in {"release", "unlock"} => \/ pc[f] = "idle" /\ stage[f] \in Leaving
                                            \/ pc[f] = "wake" /\ stage[f] = "resume"
    /\ step[f] \in {"lock", "relock"} =>
         /\ stage[f] \in Entering /\ until[f] = Never
         /\ pc[f] = "idle" \/ (pc[f] \in InWait \cup {"unblocked"} /\ stage[f] = "block")
    /\ step[f] = "sleep" <=> pc[f] \in InWait /\ blockedOn[f] = Cd
    /\ step[f] = "sleep" => stage[f] = "out"
    /\ pc[f] \in InWait /\ step[f] # "sleep" =>
         stage[f] = "block" /\ blockedOn[f] = Mx /\ deadline[f] \in {until[f], Never}
    /\ pc[f] = "unblocked" => stage[f] = "block"
    /\ pc[f] = "timedout" => stage[f] = "block" /\ until[f] # Never
    /\ pc[f] = "wake" => stage[f] = "resume" \/ step[f] \in {"signal", "broadcast"}

CondSteps == {"none", "release", "sleep", "lock", "unlock", "relock", "signal", "broadcast", "again"}

\* No application has both signals and timed waits.
SignalOrTimed == \A u \in Uses : ~({"signal", "timed"} \subseteq u)

CondUse ==
  /\ step \in [Freds -> CondSteps]
  /\ use \in Uses /\ ~({"signal", "timed"} \subseteq use)
  /\ "signal" \in use => \A f \in Freds :
       /\ step[f] # "lock"
       /\ step[f] \in {"release", "sleep"} => until[f] = Never /\ ~Timed(f)
  /\ "signal" \notin use => \A f \in Freds :
       /\ step[f] \notin {"signal", "broadcast", "again"}
       /\ step[f] \in {"release", "sleep"} => resumeInfo[f] # Cd

CondInv == CondBlockInv /\ CondPlaces /\ CondUse /\ MutexTypeOK /\ MutualExclusion /\ OwnerExact
---------------------------------------------------------------------------
(* Steps that leave races, nodes and timers alone.                          *)

LEMMA CondConstants ==
  /\ Mx \in Queues /\ Cd \in Queues /\ Mx # Cd /\ Null \notin Queues /\ Timer \notin Queues
  /\ Null # Timer /\ Null \notin Freds /\ Timer \notin Freds
  /\ Never \in Nat /\ Never = MaxTime + 1 /\ MaxTime \in Nat
  BY MutexAssumption, ConditionAssumption, QueueAssumption, FredAssumption, TimeAssumption DEF Never

\* A fred goes on in its program, outside any wait.
LEMMA QuietInv ==
  ASSUME CondBlockInv, pc' \in [Freds -> Labels],
         UNCHANGED <<runState, resumeInfo, readyLinks, pending, timerVars, bqVars>>,
         \A g \in Freds :
           /\ pc'[g] = pc[g] \/ (pc[g] \notin InWait \cup {"wake"} /\ pc'[g] \notin InWait \cup {"wake"})
           /\ \A s \in {"release", "sleep", "lock"} : step'[g] = s <=> step[g] = s
  PROVE  CondBlockInv'
<1> USE DEF CondBlockInv, timerVars, bqVars
<1>0. /\ \A g \in Freds : Owed(g)' <=> Owed(g)
      /\ \A g \in Freds, q \in Queues : InQueue(g, q)' <=> InQueue(g, q)
  BY OwedSame, InQueueSame
<1>1. BlockTypeOK'
  BY DEF BlockTypeOK
<1>2. CondRace'
  BY <1>0 DEF CondRace, RaceRunning, RaceOff, CanWin, InWait, Suspending
<1>3. OwedInv'
  BY DEF OwedInv
<1>4. CondNodes'
  BY <1>0, CondConstants DEF CondNodes, InWait, Suspending
<1>5. TimerInv'
  BY DEF BlockTypeOK, TimerInv, TimerNodes, TimerArmed, Timed, CanWin, InWait, Suspending
<1> QED BY <1>1, <1>2, <1>3, <1>4, <1>5
---------------------------------------------------------------------------
(* Races.                                                                   *)

LEMMA CondFredStepInv ==
  ASSUME CondBlockInv, CondPlaces, NEW f \in Freds, FredStep(f), UNCHANGED <<timerVars, bqVars, step>>
  PROVE  CondBlockInv'
<1> USE DEF CondBlockInv, timerVars, bqVars, Parked, Running, ResumedEarly
<1>0. /\ pending' = pending /\ resumeInfo' = resumeInfo /\ bq' = bq
      /\ \A g \in Freds : Owed(g)' <=> Owed(g)
      /\ \A g \in Freds, q \in Queues : InQueue(g, q)' <=> InQueue(g, q)
  BY OwedSame, InQueueSame DEF FredStep, SuspendSkip, SuspendInternal, PostSuspend, Dispatch
<1>a. /\ pc[f] \in {"suspend", "switch", "off"} /\ step[f] # "release"
      /\ \E l \in {"switch", "off", "resumed"} : pc' = [pc EXCEPT ![f] = l]
  BY DEF FredStep, SuspendSkip, SuspendInternal, PostSuspend, Dispatch, CondPlaces
<1>b. BlockTypeOK /\ CondRace
  OBVIOUS
<1>1. BlockTypeOK'
  <2>1. CASE SuspendSkip(f)
    BY <2>1, <1>0, <1>b DEF SuspendSkip, BlockTypeOK, Labels
  <2>2. CASE SuspendInternal(f)
    BY <2>2, <1>0, <1>b DEF SuspendInternal, BlockTypeOK, Labels
  <2>3. CASE PostSuspend(f)
    BY <2>3, <1>0, <1>b DEF PostSuspend, ResumeInternal, BlockTypeOK, Labels, CondRace, RaceRunning
  <2>4. CASE Dispatch(f)
    BY <2>4, <1>0, <1>b DEF Dispatch, BlockTypeOK, Labels
  <2> QED BY <2>1, <2>2, <2>3, <2>4 DEF FredStep
<1>2. CondRace'
  <2> SUFFICES ASSUME NEW g \in Freds
               PROVE  /\ pc'[g] \in {"arm", "suspend", "switch"} \/ step'[g] = "release" => RaceRunning(g)'
                      /\ pc'[g] = "off" => RaceOff(g)'
                      /\ pc'[g] \notin Suspending /\ step'[g] # "release" =>
                           runState'[g] = Running /\ readyLinks'[g] = 0 /\ ~Owed(g)'
                      /\ pc'[g] = "resumed" => ~CanWin(g)'
    BY DEF CondRace
  <2>1. CASE SuspendSkip(f)
    BY <2>1, <1>0, <1>a, <1>b DEF SuspendSkip, BlockTypeOK, CondRace, RaceRunning, RaceOff, Suspending, CanWin
  <2>2. CASE SuspendInternal(f)
    BY <2>2, <1>0, <1>a, <1>b DEF SuspendInternal, BlockTypeOK, CondRace, RaceRunning, RaceOff, Suspending, CanWin
  <2>3. CASE PostSuspend(f)
    BY <2>3, <1>0, <1>a, <1>b DEF PostSuspend, ResumeInternal, BlockTypeOK, CondRace, RaceRunning, RaceOff,
       Suspending, CanWin
  <2>4. CASE Dispatch(f)
    BY <2>4, <1>0, <1>a, <1>b DEF Dispatch, BlockTypeOK, CondRace, RaceRunning, RaceOff, Suspending, CanWin
  <2> QED BY <2>1, <2>2, <2>3, <2>4 DEF FredStep
<1>3. OwedInv'
  BY <1>0, <1>a DEF OwedInv, BlockTypeOK
<1>4. CondNodes'
  BY <1>0, <1>a, CondConstants DEF CondNodes, BlockTypeOK, InWait, Suspending
<1>5. TimerInv'
  BY <1>0, <1>a DEF TimerInv, TimerNodes, TimerArmed, BlockTypeOK, InWait, Suspending, Timed, CanWin
<1> QED BY <1>1, <1>2, <1>3, <1>4, <1>5

\* resume() by r, which goes on at l; or by the timer.
LEMMA CondResumeInv ==
  ASSUME CondBlockInv, NEW r \in Resumers, Resume(r), UNCHANGED bqVars,
         UNCHANGED <<now, deadline, tq, expired, timerfd, tnow>>,
         r \in Freds => pc[r] = "wake" /\ pc' = [pc EXCEPT ![r] = "idle"] /\ tpc' = tpc,
         r = Timer => pc' = pc /\ tpc = "resume" /\ tpc' = "scan",
         \A g \in Freds : \A s \in {"release", "sleep", "lock"} : step'[g] = s <=> step[g] = s
  PROVE  CondBlockInv'
<1> USE DEF CondBlockInv, bqVars, Parked, Running, ResumedEarly
<1>1. PICK f \in Freds : f = pending[r]
  BY FredAssumption DEF Resume, BlockTypeOK
<1>2. /\ pending' = [pending EXCEPT ![r] = Null] /\ resumeInfo' = resumeInfo /\ Owed(f)
      /\ runState' = [runState EXCEPT ![f] = @ + 1]
      /\ readyLinks' = IF runState[f] = Parked THEN [readyLinks EXCEPT ![f] = @ + 1] ELSE readyLinks
  BY <1>1 DEF Resume, ResumeInternal, Owed
<1>3. \A g \in Freds : Owed(g)' <=> Owed(g) /\ g # f
  BY <1>1, <1>2, OwedAfterResume DEF BlockTypeOK
<1>4. \A g \in Freds, q \in Queues : InQueue(g, q)' <=> InQueue(g, q)
  BY InQueueSame
<1>5. BlockTypeOK /\ CondRace /\ (pc[f] \in Suspending \/ step[f] = "release")
  BY <1>2 DEF CondRace
<1>6. /\ pc' \in [Freds -> Labels]
      /\ \A g \in Freds : pc'[g] = pc[g] \/ (pc[g] = "wake" /\ pc'[g] = "idle")
  BY <1>5, CondConstants DEF BlockTypeOK, Resumers, Labels
<1>7. ASSUME NEW g \in Freds
      PROVE  /\ runState'[g] \in 0 .. 2 /\ readyLinks'[g] \in 0 .. 1
             /\ pc'[g] \in {"arm", "suspend", "switch"} \/ step'[g] = "release" => RaceRunning(g)'
             /\ pc'[g] = "off" => RaceOff(g)'
             /\ pc'[g] \notin Suspending /\ step'[g] # "release" =>
                  runState'[g] = Running /\ readyLinks'[g] = 0 /\ ~Owed(g)'
             /\ pc'[g] = "resumed" => ~CanWin(g)'
  <2>1. CASE g = f
    <3>1. /\ runState'[f] = runState[f] + 1 /\ ~Owed(f)' /\ (CanWin(f)' <=> CanWin(f))
          /\ readyLinks'[f] = IF runState[f] = 0 THEN readyLinks[f] + 1 ELSE readyLinks[f]
          /\ runState[f] \in 0 .. 2 /\ readyLinks[f] \in 0 .. 1
      BY <1>1, <1>2, <1>3, <1>5, <1>6 DEF BlockTypeOK, CanWin, Suspending
    <3>2. CASE pc[f] = "off"
      BY <2>1, <3>1, <3>2, <1>2, <1>5, <1>6 DEF CondRace, RaceRunning, RaceOff, Suspending
    <3>3. CASE pc[f] # "off"
      BY <2>1, <3>1, <3>3, <1>2, <1>5, <1>6 DEF CondRace, RaceRunning, RaceOff, Suspending
    <3> QED BY <3>2, <3>3
  <2>2. CASE g # f
    <3>1. /\ runState'[g] = runState[g] /\ readyLinks'[g] = readyLinks[g] /\ (Owed(g)' <=> Owed(g))
          /\ (CanWin(g)' <=> CanWin(g)) /\ runState[g] \in 0 .. 2 /\ readyLinks[g] \in 0 .. 1
      BY <2>2, <1>1, <1>2, <1>3, <1>5 DEF BlockTypeOK, CanWin
    <3> QED BY <3>1, <1>5, <1>6 DEF CondRace, RaceRunning, RaceOff, Suspending
  <2> QED BY <2>1, <2>2
<1>8. BlockTypeOK'
  <2>1. runState' \in [Freds -> 0 .. 2] /\ readyLinks' \in [Freds -> 0 .. 1]
        /\ pending' \in [Resumers -> Freds \cup {Null}]
    BY <1>2, <1>5, <1>7 DEF BlockTypeOK
  <2> QED BY <1>2, <1>5, <1>6, <2>1, CondConstants DEF BlockTypeOK, Resumers
<1>9. CondRace'
  BY <1>7 DEF CondRace
<1>10. OwedInv'
  BY <1>2, <1>5, <1>6, CondConstants DEF BlockTypeOK, OwedInv, Resumers
<1>11. CondNodes'
  BY <1>2, <1>4, <1>6, CondConstants DEF CondNodes, InWait, Suspending
<1>12. TimerInv'
  BY <1>2, <1>5, <1>6, CondConstants
     DEF BlockTypeOK, TimerInv, TimerNodes, TimerArmed, Timed, CanWin, InWait, Suspending, Resumers
<1> QED BY <1>8, <1>9, <1>10, <1>11, <1>12

\* unblock() of the mutex or of the condition.
LEMMA CondUnblockInv ==
  ASSUME CondBlockInv, CondPlaces, NEW r \in Freds, NEW q \in {Mx, Cd}, NEW i \in DOMAIN bq[q],
         pc[r] = "idle", Unblock(r, q, i), pc' = [pc EXCEPT ![r] = "wake"],
         q = Cd => \A g \in Freds : step[g] # "lock",
         \A g \in Freds : \A s \in {"release", "sleep", "lock"} : step'[g] = s <=> step[g] = s
  PROVE  CondBlockInv'
<1> USE DEF CondBlockInv
<1>1. PICK f : f = bq[q][i]
  OBVIOUS
<1>0. /\ CanWin(f) /\ f \in Freds /\ InQueue(f, q)
      /\ resumeInfo' = [resumeInfo EXCEPT ![f] = q]
      /\ pending' = [pending EXCEPT ![r] = f]
      /\ bq' = [bq EXCEPT ![q] = RemoveAt(@, i)]
      /\ UNCHANGED <<runState, readyLinks, timerVars, blockedOn>>
      /\ pending[r] = Null /\ q \in Queues /\ q # Null /\ q # Timer /\ r \in Resumers
  <2>1. q \in Queues /\ bq[q] \in Seq(Freds) /\ DOMAIN bq[q] = 1 .. Len(bq[q])
    BY LenProperties, CondConstants DEF BlockTypeOK
  <2> QED BY <1>1, <2>1, ElementOfSeq, CondConstants
             DEF Unblock, FirstWaiting, RaceResume, InQueue, Contains, OwedInv, Resumers
<1>2. /\ q = Mx => pc[f] \in InWait /\ blockedOn[f] = Mx /\ step[f] \notin {"release", "sleep"}
      /\ q = Cd => (step[f] = "release" /\ pc[f] \notin InWait)
                   \/ (step[f] = "sleep" /\ pc[f] \in InWait /\ blockedOn[f] = Cd)
  BY <1>0, CondConstants DEF CondNodes, CondPlaces, InWait, Suspending
<1>3. pc[f] # "resumed" /\ ~Owed(f) /\ (pc[f] \in Suspending \/ step[f] = "release")
  BY <1>0, <1>2 DEF CondRace, RaceRunning, RaceOff, InWait, Suspending
<1>4. /\ bq' \in [Queues -> Seq(Freds)]
      /\ \A p \in Queues : IsInjective(bq'[p])
      /\ \A g \in Freds, p \in Queues : InQueue(g, p)' <=> InQueue(g, p) /\ ~(g = f /\ p = q)
  <2>1. BlockTypeOK /\ \A p \in Queues : IsInjective(bq[p])
    BY DEF CondNodes
  <2>2. /\ bq' \in [Queues -> Seq(Freds)]
        /\ IsInjective(bq'[q])
        /\ \A g : InQueue(g, q)' <=> InQueue(g, q) /\ g # bq[q][i]
        /\ \A p \in Queues \ {q} : /\ bq'[p] = bq[p]
                                  /\ \A g : InQueue(g, p)' <=> InQueue(g, p)
    BY <1>0, <2>1, InQueueAfterRemove
  <2> QED BY <1>1, <2>1, <2>2
<1>5. \A g \in Freds : Owed(g)' <=> Owed(g) \/ g = f
  BY <1>0, OwedAfterWin DEF BlockTypeOK
<1>6. BlockTypeOK'
  BY <1>0, <1>4 DEF BlockTypeOK, timerVars, Labels
<1>7. CondRace'
  <2>1. /\ ~CanWin(f)' /\ Owed(f)' /\ CanWin(f) /\ UNCHANGED <<runState, readyLinks>>
        /\ \A g \in Freds \ {f} : (CanWin(g)' <=> CanWin(g)) /\ (Owed(g)' <=> Owed(g))
        /\ \A g \in Freds : pc'[g] = pc[g] \/ (pc[g] = "idle" /\ pc'[g] = "wake")
    BY <1>0, <1>5 DEF BlockTypeOK, CanWin
  <2> QED BY <1>0, <1>3, <2>1 DEF CondRace, RaceRunning, RaceOff, Suspending
<1>8. OwedInv'
  BY <1>0, <1>3, FredAssumption DEF BlockTypeOK, OwedInv, Owed, timerVars
<1>9. CondNodes'
  <2>1. \A g \in Freds : g # f => resumeInfo'[g] = resumeInfo[g]
    BY <1>0
  <2>2. resumeInfo'[f] = q /\ q \notin {Null, Timer} /\ Mx # Cd
    BY <1>0, CondConstants DEF BlockTypeOK
  <2>3. \A g \in Freds : (pc'[g] \in InWait <=> pc[g] \in InWait) /\ blockedOn'[g] = blockedOn[g]
    BY <1>0 DEF BlockTypeOK, InWait, Suspending
  <2>4. CASE q = Mx
    BY <1>0, <1>2, <1>4, <2>1, <2>2, <2>3, <2>4, CondConstants DEF CondNodes, InWait, Suspending
  <2>5. CASE q = Cd
    BY <1>0, <1>2, <1>4, <2>1, <2>2, <2>3, <2>5, CondConstants DEF CondNodes
  <2> QED BY <2>4, <2>5
<1>10. TimerInv'
  BY <1>0, <1>3
     DEF BlockTypeOK, TimerInv, TimerNodes, TimerArmed, Timed, CanWin, InWait, Suspending, timerVars
<1> QED BY <1>6, <1>7, <1>8, <1>9, <1>10
---------------------------------------------------------------------------
(* Timeouts.                                                                *)

LEMMA CondEnqueueInv ==
  ASSUME CondBlockInv, CondPlaces, NEW f \in Freds, Enqueue(f), UNCHANGED <<bqVars, step>>
  PROVE  CondBlockInv'
<1> USE DEF CondBlockInv, bqVars
<1>0. /\ \A g \in Freds : Owed(g)' <=> Owed(g)
      /\ \A g \in Freds, q \in Queues : InQueue(g, q)' <=> InQueue(g, q)
      /\ pc[f] = "arm" /\ pc' = [pc EXCEPT ![f] = "suspend"] /\ step[f] # "release"
  BY OwedSame, InQueueSame DEF Enqueue, CondPlaces
<1>1. BlockTypeOK'
  BY CondConstants DEF BlockTypeOK, Enqueue, Labels
<1>2. CondRace'
  BY <1>0 DEF BlockTypeOK, Enqueue, CondRace, RaceRunning, RaceOff, Suspending, CanWin
<1>3. OwedInv'
  BY DEF BlockTypeOK, Enqueue, OwedInv
<1>4. CondNodes'
  BY <1>0, CondConstants DEF BlockTypeOK, Enqueue, CondNodes, InWait, Suspending
<1>5. TimerInv'
  <2>1. TimerNodes'
    BY DEF BlockTypeOK, Enqueue, TimerInv, TimerNodes, Timed
  <2>2. TimerArmed'
    BY CondConstants DEF BlockTypeOK, Enqueue, TimerInv, TimerArmed
  <2> QED BY <2>1, <2>2 DEF BlockTypeOK, Enqueue, TimerInv, InWait, Suspending, Timed, CanWin
<1> QED BY <1>1, <1>2, <1>3, <1>4, <1>5

LEMMA CondEraseInv ==
  ASSUME CondBlockInv, CondPlaces, NEW f \in Freds, BlockErase(f), UNCHANGED <<bqVars, step>>
  PROVE  CondBlockInv'
<1> USE DEF CondBlockInv, bqVars, fredVars, BlockErase
<1>0. /\ \A g \in Freds : Owed(g)' <=> Owed(g)
      /\ \A g \in Freds, q \in Queues : InQueue(g, q)' <=> InQueue(g, q)
  BY OwedSame, InQueueSame
<1>1. BlockTypeOK'
  BY CondConstants DEF BlockTypeOK, Erase
<1>2. CondRace'
  BY <1>0 DEF CondRace, RaceRunning, RaceOff, CanWin
<1>3. OwedInv'
  BY DEF OwedInv, Erase
<1>4. CondNodes'
  BY <1>0, CondConstants DEF CondNodes
<1>5. TimerInv'
  <2>0. f \notin tq'
    BY DEF Erase, TimerInv, TimerNodes
  <2>1. TimerNodes'
    BY <2>0 DEF BlockTypeOK, Erase, TimerInv, TimerNodes, Timed
  <2>2. TimerArmed'
    BY <2>0 DEF BlockTypeOK, Erase, TimerInv, TimerArmed
  <2>3. ~CanWin(f) /\ blockedOn[f] # Null
    BY CondConstants DEF Erase, CondRace, CondPlaces, InWait, CanWin
  <2> QED BY <2>0, <2>1, <2>2, <2>3 DEF BlockTypeOK, Erase, TimerInv, InWait, Suspending, Timed, CanWin
<1> QED BY <1>1, <1>2, <1>3, <1>4, <1>5

LEMMA CondTickInv ==
  ASSUME CondBlockInv, Tick, UNCHANGED <<bqVars, step>>
  PROVE  CondBlockInv'
<1> USE DEF CondBlockInv, bqVars, fredVars
<1>0. /\ \A g \in Freds : Owed(g)' <=> Owed(g)
      /\ \A g \in Freds, q \in Queues : InQueue(g, q)' <=> InQueue(g, q)
  BY OwedSame, InQueueSame DEF Tick
<1>1. BlockTypeOK'
  BY CondConstants DEF BlockTypeOK, Tick, Times
<1>2. CondRace' /\ OwedInv'
  BY <1>0 DEF Tick, CondRace, RaceRunning, RaceOff, CanWin, OwedInv
<1>3. CondNodes'
  BY <1>0, CondConstants DEF Tick, CondNodes
<1>4. TimerInv'
  BY DEF Tick, TimerInv, TimerNodes, TimerArmed, Timed, CanWin
<1> QED BY <1>1, <1>2, <1>3, <1>4

LEMMA CondPollerInv ==
  ASSUME CondBlockInv, UNCHANGED <<bqVars, step>>,
         TimerPoll \/ TimerRead \/ CheckExpiryLock \/ CheckExpiryDone
  PROVE  CondBlockInv'
<1> USE DEF CondBlockInv, bqVars, fredVars
<1>0. /\ UNCHANGED <<fredVars, deadline, tq, expired>>
      /\ \A g \in Freds : Owed(g)' <=> Owed(g)
      /\ \A g \in Freds, q \in Queues : InQueue(g, q)' <=> InQueue(g, q)
  BY OwedSame, InQueueSame DEF TimerPoll, TimerRead, CheckExpiryLock, CheckExpiryDone
<1>1. BlockTypeOK'
  BY CondConstants DEF BlockTypeOK, TimerPoll, TimerRead, CheckExpiryLock, CheckExpiryDone
<1>2. CondRace'
  BY <1>0 DEF CondRace, RaceRunning, RaceOff, CanWin
<1>3. CondNodes'
  BY <1>0, CondConstants DEF CondNodes
<1>4. OwedInv'
  BY <1>0 DEF OwedInv, TimerPoll, TimerRead, CheckExpiryLock, CheckExpiryDone
<1>5. TimerArmed'
  BY <1>0, CondConstants DEF BlockTypeOK, TimerInv, TimerArmed, First, Times,
       TimerPoll, TimerRead, CheckExpiryLock, CheckExpiryDone, Readable
<1>6. TimerInv'
  BY <1>0, <1>5 DEF TimerInv, TimerNodes, Timed, CanWin
<1> QED BY <1>1, <1>2, <1>3, <1>4, <1>6

LEMMA CondExpiryInv ==
  ASSUME CondBlockInv, CondPlaces, NEW f \in Freds, CheckExpiryNode(f), UNCHANGED <<bqVars, step>>
  PROVE  CondBlockInv'
<1> USE DEF CondBlockInv, bqVars
<1>0. /\ \A g \in Freds, q \in Queues : InQueue(g, q)' <=> InQueue(g, q)
      /\ f \in tq /\ pc[f] \in InWait \ {"arm"} /\ Timed(f) /\ resumeInfo[f] # Timer
      /\ pending[Timer] = Null /\ step[f] # "release"
      /\ tq' = tq \ {f}
      /\ UNCHANGED <<pc, runState, readyLinks, now, deadline, timerfd, tnow, blockedOn, bq>>
  BY InQueueSame DEF CheckExpiryNode, First, TimerInv, TimerNodes, InWait, Suspending, OwedInv, CondPlaces
<1>1. CASE CanWin(f)
  <2>0. /\ resumeInfo' = [resumeInfo EXCEPT ![f] = Timer]
        /\ pending' = [pending EXCEPT ![Timer] = f]
        /\ tpc = "scan" /\ tpc' = "resume" /\ Timer \in Resumers
        /\ UNCHANGED expired
    BY <1>1 DEF CheckExpiryNode, RaceResume, Resumers
  <2>1. \A g \in Freds : Owed(g)' <=> Owed(g) \/ g = f
    BY <2>0, <1>0, OwedAfterWin DEF BlockTypeOK
  <2>2. BlockTypeOK'
    BY <2>0, <1>0 DEF BlockTypeOK
  <2>3. ~Owed(f) /\ pc[f] \in {"suspend", "switch", "off"}
    BY <1>1, <1>0 DEF CondRace, RaceRunning, RaceOff, InWait, Suspending
  <2>4. CondRace'
    BY <2>0, <2>1, <2>3, <1>0, <1>1, FredAssumption
       DEF BlockTypeOK, CondRace, RaceRunning, RaceOff, Suspending, CanWin
  <2>5. OwedInv'
    BY <2>0, <2>3, <1>0, FredAssumption DEF BlockTypeOK, OwedInv, Owed
  <2>6. CondNodes'
    BY <2>0, <1>0, <1>1, CondConstants DEF BlockTypeOK, CondNodes, CanWin
  <2>7. TimerInv'
    BY <2>0, <2>3, <1>0, <1>1, FredAssumption
       DEF BlockTypeOK, TimerInv, TimerNodes, TimerArmed, Timed, CanWin, InWait, Suspending
  <2> QED BY <2>2, <2>4, <2>5, <2>6, <2>7
<1>2. CASE ~CanWin(f)
  <2>0. /\ expired' = [expired EXCEPT ![f] = TRUE]
        /\ UNCHANGED <<resumeInfo, pending, tpc>>
        /\ tpc = "scan"
    BY <1>2 DEF CheckExpiryNode
  <2>1. \A g \in Freds : Owed(g)' <=> Owed(g)
    BY <2>0, OwedSame
  <2>2. BlockTypeOK'
    BY <2>0, <1>0 DEF BlockTypeOK
  <2>3. CondRace' /\ OwedInv'
    BY <2>0, <2>1, <1>0 DEF CondRace, RaceRunning, RaceOff, CanWin, OwedInv
  <2>4. CondNodes'
    BY <2>0, <1>0, CondConstants DEF CondNodes
  <2>5. TimerInv'
    BY <2>0, <1>0, <1>2
       DEF BlockTypeOK, TimerInv, TimerNodes, TimerArmed, Timed, CanWin
  <2> QED BY <2>2, <2>3, <2>4, <2>5
<1> QED BY <1>1, <1>2

LEMMA CondTimerInv ==
  ASSUME CondBlockInv, CondPlaces, Tick \/ TimerStep, UNCHANGED <<bqVars, step>>
  PROVE  CondBlockInv'
<1>1. CASE CheckExpiryResume
  <2>1. /\ Resume(Timer) /\ pc' = pc /\ tpc = "resume" /\ tpc' = "scan" /\ Timer \in Resumers
        /\ UNCHANGED <<now, deadline, tq, expired, timerfd, tnow, bqVars>>
        /\ \A g \in Freds : \A s \in {"release", "sleep", "lock"} : step'[g] = s <=> step[g] = s
    BY <1>1 DEF CheckExpiryResume, Resumers
  <2> QED BY <2>1, CondResumeInv, CondConstants
<1> QED BY <1>1, CondTickInv, CondPollerInv, CondExpiryInv DEF TimerStep

---------------------------------------------------------------------------
(* Waits on the mutex.                                                      *)

LEMMA CondBlockEntryInv ==
  ASSUME CondBlockInv, CondPlaces, NEW f \in Freds, NEW t \in 0 .. Never,
         pc[f] = "idle", stage[f] = "block", Block(f, Mx, t), UNCHANGED step
  PROVE  CondBlockInv'
<1> USE DEF CondBlockInv
<1>0. /\ resumeInfo' = [resumeInfo EXCEPT ![f] = Null]
      /\ bq' = [bq EXCEPT ![Mx] = Append(@, f)]
      /\ blockedOn' = [blockedOn EXCEPT ![f] = Mx]
      /\ deadline' = [deadline EXCEPT ![f] = t]
      /\ pc' = [pc EXCEPT ![f] = IF t = Never THEN "suspend" ELSE "arm"]
      /\ UNCHANGED <<runState, readyLinks, pending>>
      /\ UNCHANGED <<now, tq, expired, timerfd, tpc, tnow>>
      /\ \A g \in Freds : Owed(g)' <=> Owed(g)
      /\ step[f] \notin {"release", "sleep"}
  BY OwedSame DEF Block, PrepareResumeRace, CondPlaces, InWait, Suspending, Leaving
<1>1. /\ bq' \in [Queues -> Seq(Freds)]
      /\ \A p \in Queues : IsInjective(bq'[p])
      /\ \A g \in Freds, p \in Queues : InQueue(g, p)' <=> InQueue(g, p) \/ (g = f /\ p = Mx)
  <2>1. BlockTypeOK /\ ~InQueue(f, Mx) /\ \A p \in Queues : IsInjective(bq[p])
    BY DEF CondNodes, InWait, Suspending
  <2>2. /\ bq' \in [Queues -> Seq(Freds)]
        /\ IsInjective(bq'[Mx])
        /\ \A g : InQueue(g, Mx)' <=> InQueue(g, Mx) \/ g = f
        /\ \A p \in Queues \ {Mx} : /\ bq'[p] = bq[p]
                                   /\ \A g : InQueue(g, p)' <=> InQueue(g, p)
    BY <1>0, <2>1, InQueueAfterAppend, CondConstants
  <2> QED BY <2>1, <2>2
<1>2. BlockTypeOK'
  BY <1>0, <1>1, CondConstants DEF BlockTypeOK, Labels
<1>3. CondRace' /\ OwedInv'
  BY <1>0 DEF BlockTypeOK, CondRace, RaceRunning, RaceOff, CanWin, OwedInv, InWait, Suspending
<1>4. CondNodes'
  BY <1>0, <1>1, CondConstants DEF BlockTypeOK, CondNodes, InWait, Suspending
<1>5. f \notin tq
  BY DEF TimerInv, TimerNodes, InWait, Suspending
<1>6. TimerInv'
  BY <1>0, <1>5, CondConstants
     DEF BlockTypeOK, TimerInv, TimerNodes, TimerArmed, Timed, CanWin, InWait, Suspending
<1> QED BY <1>2, <1>3, <1>4, <1>6

LEMMA CondBlockTrueInv ==
  ASSUME CondBlockInv, CondPlaces, NEW f \in Freds, step[f] # "sleep", BlockTrue(f), UNCHANGED step
  PROVE  CondBlockInv'
<1> USE DEF CondBlockInv, bqVars, timerVars, BlockTrue
<1>0. /\ \A g \in Freds : Owed(g)' <=> Owed(g)
      /\ \A g \in Freds, q \in Queues : InQueue(g, q)' <=> InQueue(g, q)
      /\ blockedOn[f] = Mx /\ resumeInfo[f] = Mx /\ step[f] # "release"
  BY OwedSame, InQueueSame DEF CondPlaces, InWait
<1>1. BlockTypeOK'
  BY DEF BlockTypeOK, Labels
<1>2. CondRace' /\ OwedInv'
  BY <1>0 DEF BlockTypeOK, CondRace, RaceRunning, RaceOff, CanWin, OwedInv, Suspending
<1>3. CondNodes'
  BY <1>0, CondConstants DEF BlockTypeOK, CondNodes, InWait, Suspending
<1>4. TimerInv'
  BY DEF BlockTypeOK, TimerInv, TimerNodes, TimerArmed, Timed, CanWin, InWait, Suspending
<1> QED BY <1>1, <1>2, <1>3, <1>4

\* The mutex is given up on by the timer only.
LEMMA CondBlockFalseInv ==
  ASSUME CondBlockInv, CondPlaces, NEW f \in Freds, step[f] # "sleep", BlockFalse(f), UNCHANGED step
  PROVE  CondBlockInv' /\ resumeInfo[f] = Timer /\ until[f] # Never /\ blockedOn[f] = Mx
<1> USE DEF CondBlockInv
<1>0. /\ pc[f] = "resumed" /\ resumeInfo[f] = Timer /\ blockedOn[f] = Mx
      /\ pc' = [pc EXCEPT ![f] = "timedout"]
      /\ deadline' = [deadline EXCEPT ![f] = Never]
      /\ UNCHANGED <<runState, resumeInfo, readyLinks, pending, blockedOn>>
      /\ UNCHANGED <<now, tq, expired, timerfd, tpc, tnow>>
      /\ \A g \in Freds : Owed(g)' <=> Owed(g)
      /\ step[f] # "release"
  <2>1. resumeInfo[f] \in {Null, Timer, blockedOn[f]} /\ resumeInfo[f] # Null
        /\ resumeInfo[f] # blockedOn[f]
    BY DEF BlockFalse, CondNodes, CondRace, CanWin, InWait
  <2> QED BY <2>1, OwedSame DEF BlockFalse, CondPlaces, InWait
<1>a. until[f] # Never
  BY <1>0 DEF TimerInv, Timed, CondPlaces, InWait
<1> PICK i \in DOMAIN bq[Mx] : bq[Mx][i] = f /\ bq' = [bq EXCEPT ![Mx] = RemoveAt(@, i)]
  BY <1>0 DEF BlockFalse
<1>1. /\ bq' \in [Queues -> Seq(Freds)]
      /\ \A p \in Queues : IsInjective(bq'[p])
      /\ \A g \in Freds, p \in Queues : InQueue(g, p)' <=> InQueue(g, p) /\ ~(g = f /\ p = Mx)
  <2>1. BlockTypeOK /\ IsInjective(bq[Mx]) /\ \A p \in Queues : IsInjective(bq[p])
    BY CondConstants DEF CondNodes
  <2>2. /\ bq' \in [Queues -> Seq(Freds)]
        /\ IsInjective(bq'[Mx])
        /\ \A g : InQueue(g, Mx)' <=> InQueue(g, Mx) /\ g # bq[Mx][i]
        /\ \A p \in Queues \ {Mx} : /\ bq'[p] = bq[p]
                                   /\ \A g : InQueue(g, p)' <=> InQueue(g, p)
    BY <2>1, InQueueAfterRemove, CondConstants
  <2> QED BY <2>1, <2>2
<1>2. BlockTypeOK'
  BY <1>0, <1>1, CondConstants DEF BlockTypeOK, Labels
<1>3. CondRace' /\ OwedInv'
  BY <1>0 DEF BlockTypeOK, CondRace, RaceRunning, RaceOff, CanWin, OwedInv, Suspending
<1>4. CondNodes'
  BY <1>0, <1>1, CondConstants DEF BlockTypeOK, CondNodes, InWait, Suspending
<1>5. TimerInv'
  BY <1>0 DEF BlockTypeOK, TimerInv, TimerNodes, TimerArmed, Timed, CanWin, InWait, Suspending
<1> QED BY <1>0, <1>a, <1>2, <1>3, <1>4, <1>5
---------------------------------------------------------------------------
(* Waits on the condition.                                                  *)

\* The node is queued, the race open, and the mutex still held.
LEMMA CondWaitInv ==
  ASSUME CondBlockInv, CondPlaces, NEW f \in Freds, pc[f] = "idle", step[f] = "none",
         step' = [step EXCEPT ![f] = "release"], step \in [Freds -> CondSteps],
         resumeInfo' = [resumeInfo EXCEPT ![f] = Null],
         bq' = [bq EXCEPT ![Cd] = Append(@, f)],
         UNCHANGED <<pc, runState, readyLinks, pending, timerVars, blockedOn>>
  PROVE  CondBlockInv'
<1> USE DEF CondBlockInv, timerVars
<1>0. /\ \A g \in Freds : Owed(g)' <=> Owed(g)
      /\ step'[f] = "release" /\ \A g \in Freds \ {f} : step'[g] = step[g]
  BY OwedSame
<1>1. /\ bq' \in [Queues -> Seq(Freds)]
      /\ \A p \in Queues : IsInjective(bq'[p])
      /\ \A g \in Freds, p \in Queues : InQueue(g, p)' <=> InQueue(g, p) \/ (g = f /\ p = Cd)
  <2>1. BlockTypeOK /\ ~InQueue(f, Cd) /\ \A p \in Queues : IsInjective(bq[p])
    BY DEF CondNodes
  <2>2. /\ bq' \in [Queues -> Seq(Freds)]
        /\ IsInjective(bq'[Cd])
        /\ \A g : InQueue(g, Cd)' <=> InQueue(g, Cd) \/ g = f
        /\ \A p \in Queues \ {Cd} : /\ bq'[p] = bq[p]
                                   /\ \A g : InQueue(g, p)' <=> InQueue(g, p)
    BY <2>1, InQueueAfterAppend, CondConstants
  <2> QED BY <2>1, <2>2
<1>2. BlockTypeOK'
  BY <1>1 DEF BlockTypeOK
<1>3. CondRace' /\ OwedInv'
  BY <1>0 DEF BlockTypeOK, CondRace, RaceRunning, RaceOff, CanWin, OwedInv, Suspending
<1>4. CondNodes'
  BY <1>0, <1>1, CondConstants DEF BlockTypeOK, CondNodes, InWait, Suspending
<1>5. f \notin tq
  BY DEF TimerInv, TimerNodes
<1>6. TimerInv'
  BY <1>5 DEF BlockTypeOK, TimerInv, TimerNodes, TimerArmed, Timed, CanWin, InWait, Suspending
<1> QED BY <1>2, <1>3, <1>4, <1>6

LEMMA CondSuspendInv ==
  ASSUME CondBlockInv, CondPlaces, NEW f \in Freds, CondSuspend(f), step \in [Freds -> CondSteps],
         until[f] \in 0 .. Never
  PROVE  CondBlockInv'
<1> USE DEF CondBlockInv
<1>0. /\ pc[f] = "idle" /\ step[f] = "release" /\ step' = [step EXCEPT ![f] = "sleep"]
      /\ pc' = [pc EXCEPT ![f] = IF until[f] = Never THEN "suspend" ELSE "arm"]
      /\ deadline' = [deadline EXCEPT ![f] = until[f]]
      /\ blockedOn' = [blockedOn EXCEPT ![f] = Cd]
      /\ UNCHANGED <<runState, resumeInfo, readyLinks, pending, bq>>
      /\ UNCHANGED <<now, tq, expired, timerfd, tpc, tnow>>
      /\ \A g \in Freds : Owed(g)' <=> Owed(g)
      /\ \A g \in Freds, q \in Queues : InQueue(g, q)' <=> InQueue(g, q)
  BY OwedSame, InQueueSame DEF CondSuspend, Step, At
<1>1. BlockTypeOK'
  BY <1>0, CondConstants DEF BlockTypeOK, Labels
<1>2. CondRace' /\ OwedInv'
  BY <1>0 DEF BlockTypeOK, CondRace, RaceRunning, RaceOff, CanWin, OwedInv, Suspending
<1>3. CondNodes'
  BY <1>0, CondConstants DEF BlockTypeOK, CondNodes, InWait, Suspending
<1>4. f \notin tq /\ resumeInfo[f] \in {Null, Cd}
  BY <1>0 DEF TimerInv, TimerNodes, CondNodes
<1>5. TimerInv'
  BY <1>0, <1>4, CondConstants
     DEF BlockTypeOK, TimerInv, TimerNodes, TimerArmed, Timed, CanWin, InWait, Suspending
<1> QED BY <1>1, <1>2, <1>3, <1>5

\* The wait is over, by a signal or by the timer.
LEMMA CondWokenInv ==
  ASSUME CondBlockInv, CondPlaces, NEW f \in Freds, CondSignalled(f) \/ CondTimeout(f),
         step \in [Freds -> CondSteps]
  PROVE  CondBlockInv'
<1> USE DEF CondBlockInv
<1>0. /\ pc[f] = "resumed" /\ step[f] = "sleep" /\ blockedOn[f] = Cd
      /\ pc' = [pc EXCEPT ![f] = "idle"]
      /\ \E s \in {"relock", "lock"} :
           /\ step' = [step EXCEPT ![f] = s]
           /\ s = "relock" => resumeInfo[f] = Cd
           /\ s = "lock" => resumeInfo[f] = Timer
      /\ deadline' = [deadline EXCEPT ![f] = Never]
      /\ UNCHANGED <<runState, resumeInfo, readyLinks, pending, bqVars>>
      /\ UNCHANGED <<now, tq, expired, timerfd, tpc, tnow>>
      /\ \A g \in Freds : Owed(g)' <=> Owed(g)
      /\ \A g \in Freds, q \in Queues : InQueue(g, q)' <=> InQueue(g, q)
    <2>1. CASE CondSignalled(f)
      <3>1. /\ deadline' = deadline /\ deadline[f] = Never
            /\ UNCHANGED <<runState, resumeInfo, readyLinks, pending, bqVars>>
            /\ UNCHANGED <<now, tq, expired, timerfd, tpc, tnow>>
            /\ pc[f] = "resumed" /\ step[f] = "sleep" /\ pc' = [pc EXCEPT ![f] = "idle"]
            /\ step' = [step EXCEPT ![f] = "relock"] /\ resumeInfo[f] = Cd
        BY <2>1 DEF CondSignalled, EnterAcquire, Step, Timed, timerVars
      <3>2. deadline' = [deadline EXCEPT ![f] = Never]
        BY <3>1 DEF BlockTypeOK
      <3> QED BY <3>1, <3>2, OwedSame, InQueueSame DEF CondPlaces, bqVars
    <2>2. CASE CondTimeout(f)
      BY <2>2, OwedSame, InQueueSame DEF CondTimeout, EnterAcquire, Step, CondPlaces, bqVars
    <2> QED BY <2>1, <2>2
<1>1. BlockTypeOK'
  BY <1>0, CondConstants DEF BlockTypeOK, Labels, bqVars
<1>2. CondRace' /\ OwedInv'
  BY <1>0 DEF BlockTypeOK, CondRace, RaceRunning, RaceOff, CanWin, OwedInv, Suspending
<1>3. CondNodes'
  BY <1>0, CondConstants DEF BlockTypeOK, CondNodes, InWait, Suspending, bqVars
<1>4. f \notin tq
  <2>1. resumeInfo[f] = Timer \/ deadline[f] = Never
    BY DEF CondSignalled, CondTimeout, Timed
  <2> QED BY <2>1 DEF TimerInv, TimerNodes, Timed
<1>5. TimerInv'
  BY <1>0, <1>4, CondConstants
     DEF BlockTypeOK, TimerInv, TimerNodes, TimerArmed, Timed, CanWin, InWait, Suspending, bqVars
<1> QED BY <1>1, <1>2, <1>3, <1>5

\* The node that a timed wait has left is removed.
LEMMA CondRemoveInv ==
  ASSUME CondBlockInv, CondPlaces, NEW f \in Freds, CondRemove(f), step \in [Freds -> CondSteps]
  PROVE  CondBlockInv'
<1> USE DEF CondBlockInv, fredVars, timerVars
<1>0. /\ pc[f] = "idle" /\ step[f] = "lock" /\ step' = [step EXCEPT ![f] = "unlock"]
      /\ UNCHANGED <<fredVars, timerVars, blockedOn>>
      /\ \A g \in Freds : Owed(g)' <=> Owed(g)
      /\ InQueue(f, Cd)
  BY OwedSame DEF CondRemove, Step, CondNodes
<1> PICK i \in DOMAIN bq[Cd] : bq[Cd][i] = f /\ bq' = [bq EXCEPT ![Cd] = RemoveAt(@, i)]
  BY <1>0 DEF CondRemove
<1>1. /\ bq' \in [Queues -> Seq(Freds)]
      /\ \A p \in Queues : IsInjective(bq'[p])
      /\ \A g \in Freds, p \in Queues : InQueue(g, p)' <=> InQueue(g, p) /\ ~(g = f /\ p = Cd)
  <2>1. BlockTypeOK /\ IsInjective(bq[Cd]) /\ \A p \in Queues : IsInjective(bq[p])
    BY CondConstants DEF CondNodes
  <2>2. /\ bq' \in [Queues -> Seq(Freds)]
        /\ IsInjective(bq'[Cd])
        /\ \A g : InQueue(g, Cd)' <=> InQueue(g, Cd) /\ g # bq[Cd][i]
        /\ \A p \in Queues \ {Cd} : /\ bq'[p] = bq[p]
                                   /\ \A g : InQueue(g, p)' <=> InQueue(g, p)
    BY <2>1, InQueueAfterRemove, CondConstants
  <2> QED BY <2>1, <2>2
<1>2. BlockTypeOK'
  BY <1>0, <1>1 DEF BlockTypeOK
<1>3. CondRace' /\ OwedInv'
  BY <1>0 DEF BlockTypeOK, CondRace, RaceRunning, RaceOff, CanWin, OwedInv, Suspending
<1>4. CondNodes'
  BY <1>0, <1>1, CondConstants DEF BlockTypeOK, CondNodes, InWait, Suspending
<1>5. TimerInv'
  BY <1>0 DEF BlockTypeOK, TimerInv, TimerNodes, TimerArmed, Timed, CanWin, InWait, Suspending
<1> QED BY <1>2, <1>3, <1>4, <1>5

LEMMA CondInitInv ==
  ASSUME CondInit, SignalOrTimed
  PROVE  CondInv
<1>1. BlockInv
  BY BlockInitInv DEF CondInit, SpinCondMutexInit
<1>2. /\ \A f \in Freds : /\ pc[f] = "idle" /\ step[f] = "none" /\ stage[f] = "out" /\ until[f] = Never
                          /\ bq[Cd] = <<>> /\ bq[Mx] = <<>>
  BY CondConstants DEF CondInit, SpinCondMutexInit, FredInit, BlockingInit
<1>3. CondBlockInv
  <2>1. CondRace
    BY <1>1, <1>2 DEF CondRace, BlockInv, RaceInv, Suspending
  <2>2. CondNodes
    BY <1>1, <1>2, CondConstants DEF CondNodes, BlockInv, NodeInv, InWait, Suspending
  <2> QED BY <1>1, <2>1, <2>2 DEF CondBlockInv, BlockInv
<1>4. CondPlaces
  BY <1>2 DEF CondPlaces, InWait, Suspending
<1>5. CondUse
  BY <1>2, ConditionAssumption DEF CondUse, CondSteps, CondInit, SignalOrTimed
<1>6. MutexTypeOK /\ MutualExclusion /\ OwnerExact
  BY CondConstants DEF CondInit, SpinCondMutexInit, MutexTypeOK, Stages, MutualExclusion, OwnerExact, Holding
<1> QED BY <1>3, <1>4, <1>5, <1>6 DEF CondInv
---------------------------------------------------------------------------
LEMMA CondTypes ==
  ASSUME CondInv
  PROVE  /\ pc \in [Freds -> Labels] /\ step \in [Freds -> CondSteps] /\ stage \in [Freds -> Stages]
         /\ until \in [Freds -> 0 .. Never] /\ deadline \in [Freds -> 0 .. Never]
         /\ blockedOn \in [Freds -> Queues \cup {Null}]
         /\ resumeInfo \in [Freds -> Queues \cup {Null, Timer}]
         /\ now \in 0 .. MaxTime /\ Never \in Nat /\ MaxTime < Never
  BY CondConstants DEF CondInv, CondUse, MutexTypeOK, CondBlockInv, BlockTypeOK, Times

\* Steps of wait().
LEMMA CondWaitStep ==
  ASSUME CondInv, NEW f \in Freds, NEW t \in WaitTimeouts, TimeoutUsed(t), CondWait(f, t)
  PROVE  CondInv'
<1>0. /\ CondBlockInv /\ CondPlaces /\ CondUse /\ pc[f] = "idle" /\ stage[f] = "own" /\ step[f] = "none"
      /\ UNCHANGED <<pc, runState, readyLinks, pending, timerVars, blockedOn, value, owner, stage, use>>
      /\ until' = [until EXCEPT ![f] = t] /\ t \in 0 .. Never
      /\ \E s \in {"release", "unlock"} : step' = [step EXCEPT ![f] = s]
  BY ConditionAssumption DEF CondInv, CondWait, At, Step
<1>1. CondBlockInv'
  <2>1. CASE ~TimeoutPassed(t)
    <3>1. /\ step' = [step EXCEPT ![f] = "release"]
          /\ resumeInfo' = [resumeInfo EXCEPT ![f] = Null]
          /\ bq' = [bq EXCEPT ![Cd] = Append(@, f)]
      BY <2>1 DEF CondWait, Step, PrepareResumeRace
    <3> QED BY <1>0, <3>1, CondTypes, CondWaitInv
  <2>2. CASE TimeoutPassed(t)
    <3>1. /\ step' = [step EXCEPT ![f] = "unlock"]
          /\ UNCHANGED <<runState, resumeInfo, readyLinks, pending, timerVars, bqVars>>
      BY <2>2 DEF CondWait, Step, bqVars
    <3>2. /\ pc' \in [Freds -> Labels] /\ pc' = pc
          /\ \A g \in Freds : \A s \in {"release", "sleep", "lock"} : step'[g] = s <=> step[g] = s
      BY <1>0, <3>1, CondTypes
    <3> QED BY <1>0, <3>1, <3>2, QuietInv
  <2> QED BY <2>1, <2>2
<1>2. CondPlaces'
  BY <1>0, CondTypes DEF CondPlaces, Leaving, Entering, timerVars, InWait, Suspending
<1>3. CondUse'
  <2>0. now \in 0 .. MaxTime /\ MaxTime < Never /\ step \in [Freds -> CondSteps] /\ until \in [Freds -> 0 .. Never]
        /\ resumeInfo \in [Freds -> Queues \cup {Null, Timer}] /\ Null # Cd
    BY CondTypes, CondConstants
  <2>1. /\ step'[f] = "release" => ~TimeoutPassed(t) /\ resumeInfo'[f] = Null
        /\ step'[f] \in {"release", "unlock"}
        /\ \A g \in Freds \ {f} : /\ step'[g] = step[g] /\ until'[g] = until[g]
                                  /\ resumeInfo'[g] = resumeInfo[g]
    BY <1>0, <2>0 DEF CondWait, Step, PrepareResumeRace
  <2>2. "signal" \in use /\ step'[f] = "release" => t = Never /\ ~Timed(f)
    <3>1. ~Timed(f)
      BY <1>0 DEF CondBlockInv, TimerInv, InWait, Suspending
    <3>2. "signal" \in use => "timed" \notin use
      BY <1>0, ConditionAssumption DEF CondUse
    <3> QED BY <3>1, <3>2, <2>0, <2>1 DEF TimeoutUsed, TimeoutPassed
  <2>3. deadline' = deadline /\ until'[f] = t /\ use' = use
    BY <1>0, <2>0 DEF timerVars
  <2>4. step' \in [Freds -> CondSteps]
    BY <1>0, <2>0 DEF CondSteps
  <2> QED BY <1>0, <2>0, <2>1, <2>2, <2>3, <2>4 DEF CondUse, Timed
<1>4. MutexTypeOK' /\ MutualExclusion' /\ OwnerExact'
  BY <1>0 DEF CondInv, MutexTypeOK, MutualExclusion, OwnerExact, Holding
<1> QED BY <1>1, <1>2, <1>3, <1>4 DEF CondInv

LEMMA CondSuspendStep ==
  ASSUME CondInv, NEW f \in Freds, CondSuspend(f)
  PROVE  CondInv'
<1>0. /\ CondBlockInv /\ CondPlaces /\ CondUse /\ pc[f] = "idle" /\ stage[f] = "out" /\ step[f] = "release"
      /\ pc' = [pc EXCEPT ![f] = IF until[f] = Never THEN "suspend" ELSE "arm"]
      /\ UNCHANGED <<resumeInfo, value, owner, stage, until, use>>
      /\ blockedOn' = [blockedOn EXCEPT ![f] = Cd]
      /\ deadline' = [deadline EXCEPT ![f] = until[f]]
      /\ step' = [step EXCEPT ![f] = "sleep"]
  BY DEF CondInv, CondSuspend, At, Step, mutexVars
<1>1. CondBlockInv'
  BY <1>0, CondTypes, CondSuspendInv
<1>2. CondPlaces'
  BY <1>0, CondTypes DEF CondPlaces, Leaving, Entering, InWait, Suspending
<1>3. CondUse'
  BY <1>0, CondTypes DEF CondUse, CondSteps, Timed
<1>4. MutexTypeOK' /\ MutualExclusion' /\ OwnerExact'
  BY <1>0 DEF CondInv, MutexTypeOK, MutualExclusion, OwnerExact, Holding
<1> QED BY <1>1, <1>2, <1>3, <1>4 DEF CondInv

\* wait() acquires the mutex: after a signal, after a timeout, or because its
\* timeout had passed before.
LEMMA CondAcquireStep ==
  ASSUME CondInv, NEW f \in Freds, CondSignalled(f) \/ CondTimeout(f) \/ CondUnlocked(f)
  PROVE  CondInv'
<1>0. /\ CondBlockInv /\ CondPlaces /\ CondUse /\ stage[f] = "out"
      /\ \/ pc[f] = "resumed" /\ step[f] = "sleep"
         \/ pc[f] = "idle" /\ step[f] = "unlock"
      /\ pc' = [pc EXCEPT ![f] = "idle"]
      /\ stage' = [stage EXCEPT ![f] = "low"]
      /\ until' = [until EXCEPT ![f] = Never]
      /\ UNCHANGED <<runState, resumeInfo, readyLinks, pending, bqVars, value, owner, use>>
      /\ deadline' = deadline \/ deadline' = [deadline EXCEPT ![f] = Never]
      /\ \E s \in {"lock", "relock"} : step' = [step EXCEPT ![f] = s] /\ (s = "lock" => CondTimeout(f))
  BY DEF CondInv, CondSignalled, CondTimeout, CondUnlocked, EnterAcquire, At, Goto, Step, timerVars, CondPlaces
<1>1. CondBlockInv'
  <2>1. CASE CondSignalled(f) \/ CondTimeout(f)
    BY <2>1, <1>0, CondTypes, CondWokenInv
  <2>2. CASE CondUnlocked(f)
    <3>1. /\ step' = [step EXCEPT ![f] = "relock"] /\ pc[f] = "idle" /\ step[f] = "unlock"
          /\ UNCHANGED timerVars
      BY <2>2 DEF CondUnlocked, At, Step
    <3>2. /\ pc' \in [Freds -> Labels] /\ pc' = pc
          /\ \A g \in Freds : \A s \in {"release", "sleep", "lock"} : step'[g] = s <=> step[g] = s
      BY <1>0, <3>1, CondTypes
    <3> QED BY <1>0, <3>1, <3>2, QuietInv
  <2> QED BY <2>1, <2>2
<1>2. CondPlaces'
  BY <1>0, CondTypes DEF CondPlaces, Leaving, Entering, InWait, Suspending, bqVars
<1>3. CondUse'
  <2>1. CondTimeout(f) => "signal" \notin use
    BY <1>0 DEF CondTimeout, Step, CondUse, CondBlockInv, TimerInv, InWait
  <2> QED BY <1>0, <2>1, CondTypes DEF CondUse, CondSteps, Timed
<1>4. MutexTypeOK' /\ MutualExclusion' /\ OwnerExact'
  BY <1>0, CondTypes DEF CondInv, MutexTypeOK, Stages, MutualExclusion, OwnerExact, Holding
<1> QED BY <1>1, <1>2, <1>3, <1>4 DEF CondInv

\* wait() has acquired the mutex, to remove the node or to return.
LEMMA CondAcquiredStep ==
  ASSUME CondInv, NEW f \in Freds, CondRemove(f) \/ CondReturn(f)
  PROVE  CondInv'
<1>0. /\ CondBlockInv /\ CondPlaces /\ CondUse /\ stage[f] = "own" /\ pc[f] = "idle"
      /\ step[f] \in {"lock", "relock"}
      /\ stage' = [stage EXCEPT ![f] = "own"]
      /\ UNCHANGED <<fredVars, timerVars, blockedOn, value, owner, until, use>>
      /\ \E s \in {"unlock", "none"} : step' = [step EXCEPT ![f] = s]
  BY DEF CondInv, CondRemove, CondReturn, Goto, Step, CondPlaces, Entering, bqVars
<1>1. CondBlockInv'
  <2>1. CASE CondRemove(f)
    BY <2>1, <1>0, CondTypes, CondRemoveInv
  <2>2. CASE CondReturn(f)
    <3>1. /\ step' = [step EXCEPT ![f] = "none"] /\ pc[f] = "idle" /\ step[f] = "relock"
          /\ UNCHANGED <<fredVars, timerVars, bqVars>>
      BY <2>2 DEF CondReturn, Step
    <3>2. /\ pc' \in [Freds -> Labels] /\ pc' = pc
          /\ UNCHANGED <<runState, resumeInfo, readyLinks, pending, timerVars, bqVars>>
          /\ \A g \in Freds : \A s \in {"release", "sleep", "lock"} : step'[g] = s <=> step[g] = s
      BY <1>0, <3>1, CondTypes DEF fredVars
    <3> QED BY <1>0, <3>2, QuietInv
  <2> QED BY <2>1, <2>2
<1>2. CondPlaces'
  BY <1>0, CondTypes DEF CondPlaces, Leaving, Entering, InWait, Suspending, fredVars, timerVars
<1>3. CondUse'
  BY <1>0, CondTypes DEF CondUse, CondSteps, Timed, fredVars, timerVars
<1>4. MutexTypeOK' /\ MutualExclusion' /\ OwnerExact'
  BY <1>0, CondTypes DEF CondInv, MutexTypeOK, Stages, MutualExclusion, OwnerExact, Holding
<1> QED BY <1>1, <1>2, <1>3, <1>4 DEF CondInv
---------------------------------------------------------------------------
(* Steps of signal() and broadcast().                                       *)

LEMMA SignalUnblockStep ==
  ASSUME CondInv, NEW f \in Freds, At(f, "own"), step[f] \in {"none", "again"}, "signal" \in use,
         NEW to \in {"signal", "broadcast"}, SignalUnblock(f, to)
  PROVE  CondInv'
<1>0. /\ CondBlockInv /\ CondPlaces /\ CondUse /\ stage[f] = "own" /\ pc[f] = "idle"
      /\ pc' = [pc EXCEPT ![f] = "wake"] /\ step' = [step EXCEPT ![f] = to]
      /\ UNCHANGED <<timerVars, blockedOn, value, owner, stage, until, use>>
  BY DEF CondInv, SignalUnblock, Unblock, At, mutexVars
<1> PICK i \in DOMAIN bq[Cd] : Unblock(f, Cd, i)
  BY DEF SignalUnblock
<1>1. CondBlockInv'
  <2>1. /\ \A g \in Freds : step[g] # "lock"
        /\ \A g \in Freds : \A s \in {"release", "sleep", "lock"} : step'[g] = s <=> step[g] = s
    BY <1>0, CondTypes DEF CondUse
  <2> QED BY <1>0, <2>1, CondUnblockInv
<1>2. CondPlaces'
  BY <1>0, CondTypes DEF CondPlaces, Leaving, Entering, InWait, Suspending, timerVars
<1>3. CondUse'
  BY <1>0, CondTypes DEF CondUse, CondSteps, Timed, timerVars
<1>4. MutexTypeOK' /\ MutualExclusion' /\ OwnerExact'
  BY <1>0 DEF CondInv, MutexTypeOK, MutualExclusion, OwnerExact, Holding
<1> QED BY <1>1, <1>2, <1>3, <1>4 DEF CondInv

LEMMA SignalStep ==
  ASSUME CondInv, NEW f \in Freds, Signal(f) \/ SignalResume(f) \/ SignalAgain(f)
  PROVE  CondInv'
<1>0. CondBlockInv /\ CondPlaces /\ CondUse
  BY DEF CondInv
<1>1. CASE Signal(f)
  BY <1>1, SignalUnblockStep DEF Signal
<1>2. CASE SignalResume(f)
  <2>0. /\ pc[f] = "wake" /\ stage[f] = "own" /\ Resume(f) /\ pc' = [pc EXCEPT ![f] = "idle"]
        /\ UNCHANGED <<timerVars, bqVars, value, owner, stage, until, use, resumeInfo>>
        /\ \/ step[f] = "signal" /\ step' = [step EXCEPT ![f] = "none"]
           \/ step[f] = "broadcast" /\ step' = [step EXCEPT ![f] = "again"]
    BY <1>2 DEF SignalResume, Step, mutexVars, Resume
  <2>1. CondBlockInv'
    <3>1. \A g \in Freds : \A s \in {"release", "sleep", "lock"} : step'[g] = s <=> step[g] = s
      BY <2>0, CondTypes
    <3>2. UNCHANGED <<now, deadline, tq, expired, timerfd, tnow>> /\ tpc' = tpc /\ f \in Resumers /\ f # Timer
      BY <2>0, CondConstants DEF timerVars, Resumers
    <3> QED BY <1>0, <2>0, <3>1, <3>2, CondResumeInv
  <2>2. CondPlaces'
    BY <1>0, <2>0, CondTypes DEF CondPlaces, Leaving, Entering, InWait, Suspending, timerVars, bqVars
  <2>3. CondUse'
    BY <1>0, <2>0, CondTypes DEF CondUse, CondSteps, Timed, timerVars
  <2>4. MutexTypeOK' /\ MutualExclusion' /\ OwnerExact'
    BY <2>0 DEF CondInv, MutexTypeOK, MutualExclusion, OwnerExact, Holding
  <2> QED BY <2>1, <2>2, <2>3, <2>4 DEF CondInv
<1>3. CASE SignalAgain(f)
  <2>1. CASE SignalUnblock(f, "broadcast")
    BY <1>0, <1>3, <2>1, SignalUnblockStep DEF SignalAgain, CondUse
  <2>2. CASE Step(f, "again", "none") /\ UNCHANGED spinCondMutexVars
    <3>0. /\ step[f] = "again" /\ step' = [step EXCEPT ![f] = "none"] /\ use' = use
          /\ UNCHANGED <<pc, runState, resumeInfo, readyLinks, pending, timerVars, bqVars, deadline, blockedOn>>
          /\ UNCHANGED <<value, owner, stage, until>>
      BY <2>2 DEF Step, spinCondMutexVars, fredVars, mutexVars, bqVars, timerVars
    <3>1. CondBlockInv'
      <4>1. /\ pc' \in [Freds -> Labels]
            /\ \A g \in Freds : \A s \in {"release", "sleep", "lock"} : step'[g] = s <=> step[g] = s
        BY <3>0, CondTypes
      <4> QED BY <1>0, <3>0, <4>1, QuietInv
    <3>2. CondPlaces'
      BY <1>0, <3>0, CondTypes DEF CondPlaces, InWait, Suspending
    <3>3. CondUse'
      BY <1>0, <3>0, CondTypes DEF CondUse, CondSteps, Timed
    <3>4. MutexTypeOK' /\ MutualExclusion' /\ OwnerExact'
      BY <3>0 DEF CondInv, MutexTypeOK, MutualExclusion, OwnerExact, Holding
    <3> QED BY <3>1, <3>2, <3>3, <3>4 DEF CondInv
  <2> QED BY <1>3, <2>1, <2>2 DEF SignalAgain
<1> QED BY <1>1, <1>2, <1>3
---------------------------------------------------------------------------
(* Steps of the mutex, of freds that sleep, and of the timer.               *)

\* f goes on in acquire() or release(), outside any wait.
LEMMA CondIdleStep ==
  ASSUME CondInv, NEW f \in Freds, pc[f] = "idle",
         NEW s \in Stages, stage' = [stage EXCEPT ![f] = s],
         step[f] \in {"none", "release", "unlock"} => step[f] = "none" \/ s \in Leaving,
         step[f] \in {"lock", "relock"} => s \in Entering /\ until' = until,
         step[f] \notin {"signal", "broadcast", "again"},
         until' = until \/ (step[f] = "none" /\ \E t \in 0 .. Never : until' = [until EXCEPT ![f] = t]),
         UNCHANGED <<fredVars, timerVars, bqVars, step, use>>
  PROVE  CondBlockInv' /\ CondPlaces' /\ CondUse'
<1>0. /\ CondBlockInv /\ CondPlaces /\ CondUse
      /\ UNCHANGED <<pc, runState, resumeInfo, readyLinks, pending, deadline, blockedOn>>
  BY DEF CondInv, fredVars, timerVars, bqVars
<1>1. CondBlockInv'
  <2>1. /\ pc' \in [Freds -> Labels]
        /\ \A g \in Freds : \A l \in {"release", "sleep", "lock"} : step'[g] = l <=> step[g] = l
    BY <1>0, CondTypes
  <2> QED BY <1>0, <2>1, QuietInv
<1>2. CondPlaces'
  BY <1>0, CondTypes DEF CondPlaces, InWait, Suspending
<1>3. CondUse'
  BY <1>0, CondTypes DEF CondUse, Timed
<1> QED BY <1>1, <1>2, <1>3

LEMMA CondBlockStep ==
  ASSUME CondInv, NEW f \in Freds, step[f] # "sleep", BlockStep(f),
         UNCHANGED <<value, owner, stage, until, step, use>>
  PROVE  CondBlockInv' /\ CondPlaces' /\ CondUse'
<1>0. CondBlockInv /\ CondPlaces /\ CondUse
  BY DEF CondInv
<1>1. CASE TimerQueueStep(f) /\ UNCHANGED bqVars
  <2>1. CondBlockInv'
    BY <1>0, <1>1, CondEnqueueInv, CondEraseInv DEF TimerQueueStep
  <2>2. /\ pc[f] \in InWait /\ UNCHANGED <<resumeInfo, blockedOn>>
        /\ \E l \in InWait : pc' = [pc EXCEPT ![f] = l]
        /\ deadline' = deadline \/ deadline' = [deadline EXCEPT ![f] = Never]
    <3>1. CASE Enqueue(f)
      BY <1>1, <3>1 DEF Enqueue, InWait, Suspending, bqVars
    <3>2. CASE BlockErase(f)
      <4>1. pc' = [pc EXCEPT ![f] = "resumed"]
        BY <3>2, CondTypes DEF BlockErase, Erase, fredVars
      <4> QED BY <1>1, <3>2, <4>1 DEF BlockErase, Erase, InWait, fredVars, bqVars
    <3> QED BY <1>1, <3>1, <3>2 DEF TimerQueueStep
  <2>3. CondPlaces'
    BY <1>0, <2>2, CondTypes DEF CondPlaces, InWait, Suspending
  <2>4. CondUse'
    BY <1>0, <2>2, CondTypes DEF CondUse, Timed
  <2> QED BY <2>1, <2>3, <2>4
<1>2. CASE FredStep(f) /\ UNCHANGED <<timerVars, bqVars>>
  <2>1. CondBlockInv'
    BY <1>0, <1>2, CondFredStepInv
  <2>2. /\ pc[f] \in InWait /\ UNCHANGED <<resumeInfo, blockedOn, deadline>>
        /\ \E l \in InWait : pc' = [pc EXCEPT ![f] = l]
    BY <1>2 DEF FredStep, SuspendSkip, SuspendInternal, PostSuspend, Dispatch, InWait, Suspending,
       timerVars, bqVars
  <2>3. CondPlaces'
    BY <1>0, <2>2, CondTypes DEF CondPlaces, InWait, Suspending
  <2>4. CondUse'
    BY <1>0, <2>2, CondTypes DEF CondUse, Timed
  <2> QED BY <2>1, <2>3, <2>4
<1>3. CASE BlockTrue(f)
  <2>1. CondBlockInv'
    BY <1>0, <1>3, CondBlockTrueInv
  <2>2. /\ pc[f] = "resumed" /\ pc' = [pc EXCEPT ![f] = "unblocked"]
        /\ UNCHANGED <<resumeInfo, blockedOn, deadline>>
    BY <1>3 DEF BlockTrue, timerVars, bqVars
  <2>3. CondPlaces'
    BY <1>0, <2>2, CondTypes DEF CondPlaces, InWait, Suspending
  <2>4. CondUse'
    BY <1>0, <2>2, CondTypes DEF CondUse, Timed
  <2> QED BY <2>1, <2>3, <2>4
<1>4. CASE BlockFalse(f)
  <2>1. CondBlockInv' /\ until[f] # Never
    BY <1>0, <1>4, CondBlockFalseInv
  <2>2. /\ pc[f] = "resumed" /\ pc' = [pc EXCEPT ![f] = "timedout"]
        /\ deadline' = [deadline EXCEPT ![f] = Never]
        /\ UNCHANGED <<resumeInfo, blockedOn>>
    BY <1>4 DEF BlockFalse
  <2>3. CondPlaces'
    BY <1>0, <2>1, <2>2, CondTypes DEF CondPlaces, InWait, Suspending, Entering
  <2>4. CondUse'
    BY <1>0, <2>2, CondTypes DEF CondUse, Timed
  <2> QED BY <2>1, <2>3, <2>4
<1>5. CASE SleepDone(f)
  BY <1>0, <1>5, CondConstants DEF SleepDone, CondPlaces, InWait
<1> QED BY <1>1, <1>2, <1>3, <1>4, <1>5 DEF BlockStep

LEMMA CondQueueStep ==
  ASSUME CondInv, NEW f \in Freds, QueueBlock(f) \/ BlockReturn(f), UNCHANGED <<step, use>>
  PROVE  CondBlockInv' /\ CondPlaces' /\ CondUse'
<1>0. /\ CondBlockInv /\ CondPlaces /\ CondUse /\ stage[f] = "block" /\ UNCHANGED <<value, owner, until>>
      /\ step[f] \notin {"signal", "broadcast", "again", "release", "unlock", "sleep"}
  BY DEF CondInv, QueueBlock, BlockReturn, At, CondPlaces, Leaving, InWait
<1>1. CASE Block(f, Mx, until[f]) /\ UNCHANGED stage
  <2>0. /\ pc[f] = "idle"
        /\ pc' = [pc EXCEPT ![f] = IF until[f] = Never THEN "suspend" ELSE "arm"]
        /\ resumeInfo' = [resumeInfo EXCEPT ![f] = Null]
        /\ blockedOn' = [blockedOn EXCEPT ![f] = Mx]
        /\ deadline' = [deadline EXCEPT ![f] = until[f]]
        /\ until[f] \in 0 .. Never
    <3>1. pc[f] = "idle"
      BY <1>0, <1>1, CondTypes DEF QueueBlock, BlockReturn, At, Goto
    <3> QED BY <1>1, <3>1, CondTypes DEF Block, PrepareResumeRace
  <2>1. CondBlockInv'
    BY <1>0, <1>1, <2>0, CondBlockEntryInv
  <2>2. CondPlaces'
    BY <1>0, <1>1, <2>0, CondTypes, CondConstants DEF CondPlaces, InWait, Suspending
  <2>3. CondUse'
    BY <1>0, <2>0, CondTypes, CondConstants DEF CondUse, Timed
  <2> QED BY <2>1, <2>2, <2>3
<1>2. ASSUME At(f, "block"), NEW s \in {"out", "retry"}, Goto(f, s), Elsewhere,
             s = "out" => TimeoutPassed(until[f])
      PROVE  CondBlockInv' /\ CondPlaces' /\ CondUse'
  <2>1. /\ pc[f] = "idle" /\ s \in Stages /\ stage' = [stage EXCEPT ![f] = s]
        /\ UNCHANGED <<fredVars, timerVars, bqVars, step, use>> /\ until' = until
    BY <1>0, <1>2 DEF At, Goto, Elsewhere, Stages
  <2>2. /\ step[f] \in {"none", "release", "unlock"} => step[f] = "none" \/ s \in Leaving
        /\ step[f] \in {"lock", "relock"} => s \in Entering /\ until' = until
    <3>1. TimeoutPassed(until[f]) => until[f] # Never
      BY CondTypes, CondConstants DEF TimeoutPassed
    <3> QED BY <1>0, <1>2, <2>1, <3>1 DEF CondPlaces, Entering
  <2> QED BY <1>0, <2>1, <2>2, CondIdleStep
<1>3. CASE BlockReturn(f)
  <2>0. /\ pc[f] \in {"unblocked", "timedout"} /\ pc' = [pc EXCEPT ![f] = "idle"]
        /\ \E s \in {"retry", "out"} : /\ stage' = [stage EXCEPT ![f] = s]
                                       /\ s = "out" => pc[f] = "timedout"
        /\ UNCHANGED <<runState, resumeInfo, readyLinks, pending, timerVars, bqVars, deadline, blockedOn>>
    BY <1>3 DEF BlockReturn, Goto, timerVars, bqVars
  <2>1. CondBlockInv'
    <3>1. /\ pc' \in [Freds -> Labels]
          /\ \A g \in Freds :
               /\ pc'[g] = pc[g] \/ (pc[g] \notin InWait \cup {"wake"} /\ pc'[g] \notin InWait \cup {"wake"})
               /\ \A l \in {"release", "sleep", "lock"} : step'[g] = l <=> step[g] = l
      BY <1>0, <2>0, CondTypes DEF Labels, InWait, Suspending
    <3> QED BY <1>0, <2>0, <3>1, QuietInv
  <2>2. CondPlaces'
    BY <1>0, <2>0, CondTypes DEF CondPlaces, InWait, Suspending, Entering
  <2>3. CondUse'
    BY <1>0, <2>0, CondTypes DEF CondUse, Timed
  <2> QED BY <2>1, <2>2, <2>3
<1> QED BY <1>1, <1>2, <1>3 DEF QueueBlock

LEMMA CondReleaseStep ==
  ASSUME CondInv, NEW f \in Freds, ReleaseUnblock(f) \/ ReleaseResume(f), UNCHANGED <<step, use>>
  PROVE  CondBlockInv' /\ CondPlaces' /\ CondUse'
<1>0. /\ CondBlockInv /\ CondPlaces /\ CondUse /\ UNCHANGED <<value, owner, until>>
      /\ step[f] \in {"none", "release", "unlock"}
  BY CondTypes DEF CondInv, ReleaseUnblock, ReleaseResume, At, CondPlaces, Entering, InWait, Suspending, CondSteps
<1>1. ASSUME NEW i \in DOMAIN bq[Mx], Unblock(f, Mx, i), pc' = [pc EXCEPT ![f] = "wake"],
             Goto(f, "resume"), At(f, "unblock")
      PROVE  CondBlockInv' /\ CondPlaces' /\ CondUse'
  <2>1. CondBlockInv'
    <3>1. /\ pc[f] = "idle" /\ Mx # Cd
          /\ \A g \in Freds : \A s \in {"release", "sleep", "lock"} : step'[g] = s <=> step[g] = s
      BY <1>1, CondConstants DEF At
    <3> QED BY <1>0, <1>1, <3>1, CondUnblockInv
  <2>2. /\ pc[f] = "idle" /\ stage[f] = "unblock" /\ stage' = [stage EXCEPT ![f] = "resume"]
        /\ UNCHANGED <<blockedOn, deadline>>
        /\ \E g : resumeInfo' = [resumeInfo EXCEPT ![g] = Mx]
    BY <1>1 DEF At, Goto, Unblock, RaceResume, timerVars
  <2>3. CondPlaces'
    BY <1>0, <1>1, <2>2, CondTypes DEF CondPlaces, InWait, Suspending, Entering, Leaving
  <2>4. CondUse'
    BY <1>0, <2>2, CondTypes, CondConstants DEF CondUse, Timed
  <2> QED BY <2>1, <2>3, <2>4
<1>2. CASE At(f, "unblock") /\ Goto(f, "out") /\ Elsewhere
  <2>1. /\ pc[f] = "idle" /\ "out" \in Stages /\ stage' = [stage EXCEPT ![f] = "out"]
        /\ UNCHANGED <<fredVars, timerVars, bqVars, step, use>> /\ until' = until
        /\ "out" \in Leaving /\ step[f] \notin {"lock", "relock", "signal", "broadcast", "again"}
    BY <1>0, <1>2 DEF At, Goto, Elsewhere, Stages, Leaving
  <2> QED BY <2>1, CondIdleStep
<1>3. CASE ReleaseResume(f)
  <2>0. /\ pc[f] = "wake" /\ stage[f] = "resume" /\ Resume(f) /\ pc' = [pc EXCEPT ![f] = "idle"]
        /\ stage' = [stage EXCEPT ![f] = "out"]
        /\ UNCHANGED <<timerVars, bqVars, resumeInfo, deadline, blockedOn>>
    BY <1>3 DEF ReleaseResume, Resume, Goto, timerVars, bqVars
  <2>1. CondBlockInv'
    <3>1. /\ UNCHANGED <<now, deadline, tq, expired, timerfd, tnow>> /\ tpc' = tpc /\ f \in Resumers /\ f # Timer
          /\ \A g \in Freds : \A s \in {"release", "sleep", "lock"} : step'[g] = s <=> step[g] = s
      BY <1>0, <2>0, CondConstants DEF timerVars, Resumers
    <3> QED BY <1>0, <2>0, <3>1, CondResumeInv
  <2>2. CondPlaces'
    BY <1>0, <2>0, CondTypes DEF CondPlaces, InWait, Suspending, Entering, Leaving
  <2>3. CondUse'
    BY <1>0, <2>0, CondTypes DEF CondUse, Timed
  <2> QED BY <2>1, <2>2, <2>3
<1> QED BY <1>1, <1>2, <1>3 DEF ReleaseUnblock

LEMMA CondMutexStep ==
  ASSUME CondInv, NEW f \in Freds, CondMutex(f)
  PROVE  CondInv'
<1>0. CondBlockInv /\ CondPlaces /\ CondUse /\ UNCHANGED <<step, use>>
  BY DEF CondInv, CondMutex
<1>1. MutexTypeOK' /\ MutualExclusion' /\ OwnerExact'
  BY DataStep DEF CondInv, CondMutex, SpinCondMutexNext
<1>2. ASSUME TryLock1(f) \/ TryLock2(f) \/ SetOwner(f) \/ ReleaseSwap(f) \/ Release(f)
             \/ tryAcquire(f) \/ \E t \in Timeouts[f] : Acquire(f, t),
             Release(f) => step[f] \in {"none", "release", "unlock"},
             step[f] # "none" => ~tryAcquire(f) /\ ~\E t \in Timeouts[f] : Acquire(f, t)
      PROVE  CondBlockInv' /\ CondPlaces' /\ CondUse'
  <2>1. PICK s \in Stages :
          /\ stage' = [stage EXCEPT ![f] = s]
          /\ step[f] \in {"none", "release", "unlock"} => step[f] = "none" \/ s \in Leaving
          /\ step[f] \in {"lock", "relock"} => s \in Entering
    BY <1>0, <1>2, CondTypes DEF TryLock1, TryLock2, SetOwner, ReleaseSwap, Release, Acquire, tryAcquire, At, Goto, Stages,
       CondPlaces, Entering, Leaving
  <2>2. /\ pc[f] = "idle" /\ UNCHANGED <<fredVars, timerVars, bqVars, step, use>>
        /\ until' = until \/ (step[f] = "none" /\ \E t \in 0 .. Never : until' = [until EXCEPT ![f] = t])
    <3>1. CASE SetOwner(f)
      <4>1. /\ pc[f] = "idle" /\ stage[f] = "claim" /\ UNCHANGED <<fredVars, timerVars, bqVars>>
            /\ until' = [until EXCEPT ![f] = Never]
        BY <3>1 DEF SetOwner, At, Elsewhere
      <4>2. step[f] \in {"none", "lock", "relock"}
        BY <1>0, <4>1, CondTypes DEF CondPlaces, CondSteps, Leaving
      <4>3. step[f] \in {"lock", "relock"} => until[f] = Never
        BY <1>0 DEF CondPlaces
      <4>4. step[f] \in {"lock", "relock"} => until' = until
        BY <4>1, <4>3, CondTypes
      <4>5. Never \in 0 .. Never
        BY CondTypes
      <4>6. UNCHANGED <<step, use>>
        BY <1>0
      <4>. QED BY <4>1, <4>2, <4>4, <4>5, <4>6
    <3>2. CASE ~SetOwner(f)
      BY <1>0, <1>2, <3>2, MutexAssumption
         DEF TryLock1, TryLock2, ReleaseSwap, Release, Acquire, tryAcquire, At, Elsewhere
    <3>. QED BY <3>1, <3>2
  <2>3. step[f] \notin {"signal", "broadcast", "again"}
    BY <1>0, <1>2, <2>2 DEF TryLock1, TryLock2, SetOwner, ReleaseSwap, Release, Acquire, tryAcquire, At, CondPlaces
  <2>4. step[f] \in {"lock", "relock"} => until' = until
    BY <2>2
  <2> QED BY <2>1, <2>2, <2>3, <2>4, CondIdleStep
<1>3. ASSUME step[f] # "sleep", BlockStep(f), UNCHANGED mutexVars
      PROVE  CondBlockInv' /\ CondPlaces' /\ CondUse'
  BY <1>0, <1>3, CondBlockStep DEF mutexVars
<1>4. CondBlockInv' /\ CondPlaces' /\ CondUse'
  <2>1. CASE step[f] # "sleep" /\ MutexStep(f)
    <3>1. CASE TryLock1(f) \/ TryLock2(f) \/ SetOwner(f) \/ ReleaseSwap(f)
      <4>1. ~Release(f) /\ ~tryAcquire(f) /\ ~\E t \in Timeouts[f] : Acquire(f, t)
        BY <3>1 DEF TryLock1, TryLock2, SetOwner, ReleaseSwap, Release, Acquire, tryAcquire, At
      <4> QED BY <3>1, <4>1, <1>2
    <3> QED BY <1>0, <1>3, <2>1, <3>1, CondQueueStep, CondReleaseStep DEF MutexStep
  <2>2. CASE step[f] \in {"none", "release", "unlock"} /\ Release(f)
    <3>1. ~tryAcquire(f) /\ ~\E t \in Timeouts[f] : Acquire(f, t)
      BY <2>2 DEF Release, Acquire, tryAcquire, At
    <3> QED BY <2>2, <3>1, <1>2
  <2>3. CASE step[f] = "none" /\ (tryAcquire(f) \/ \E t \in Timeouts[f] : Acquire(f, t))
    <3>1. ~Release(f)
      BY <2>3 DEF Release, Acquire, tryAcquire, At
    <3> QED BY <2>3, <3>1, <1>2
  <2> QED BY <2>1, <2>2, <2>3 DEF CondMutex
<1> QED BY <1>1, <1>4 DEF CondInv

LEMMA CondSleepStep ==
  ASSUME CondInv, NEW f \in Freds, CondSleep(f)
  PROVE  CondInv'
<1>0. /\ CondBlockInv /\ CondPlaces /\ CondUse /\ step[f] = "sleep"
      /\ UNCHANGED <<value, owner, stage, until, step, use>>
  BY DEF CondInv, CondSleep, mutexVars
<1>1. CondBlockInv'
  BY <1>0, CondEnqueueInv, CondEraseInv, CondFredStepInv DEF CondSleep, TimerQueueStep
<1>2. /\ pc[f] \in InWait /\ UNCHANGED <<resumeInfo, blockedOn>>
      /\ \E l \in InWait : pc' = [pc EXCEPT ![f] = l]
      /\ deadline' = deadline \/ deadline' = [deadline EXCEPT ![f] = Never]
  <2>1. CASE Enqueue(f) /\ UNCHANGED bqVars
    BY <2>1 DEF Enqueue, InWait, Suspending, bqVars
  <2>2. CASE BlockErase(f) /\ UNCHANGED bqVars
    <3>1. pc' = [pc EXCEPT ![f] = "resumed"]
      BY <2>2, CondTypes DEF BlockErase, Erase, fredVars
    <3> QED BY <2>2, <3>1 DEF BlockErase, Erase, InWait, fredVars, bqVars
  <2>3. CASE FredStep(f) /\ UNCHANGED <<timerVars, bqVars>>
    BY <2>3 DEF FredStep, SuspendSkip, SuspendInternal, PostSuspend, Dispatch, InWait, Suspending,
       timerVars, bqVars
  <2> QED BY <2>1, <2>2, <2>3 DEF CondSleep, TimerQueueStep
<1>3. CondPlaces'
  BY <1>0, <1>2, CondTypes DEF CondPlaces, InWait, Suspending
<1>4. CondUse'
  BY <1>0, <1>2, CondTypes DEF CondUse, Timed
<1>5. MutexTypeOK' /\ MutualExclusion' /\ OwnerExact'
  BY <1>0 DEF CondInv, MutexTypeOK, MutualExclusion, OwnerExact, Holding
<1> QED BY <1>1, <1>3, <1>4, <1>5 DEF CondInv

LEMMA CondClockStep ==
  ASSUME CondInv, Tick \/ TimerStep, UNCHANGED <<bqVars, mutexVars, step, use>>
  PROVE  CondInv'
<1>0. /\ CondBlockInv /\ CondPlaces /\ CondUse
      /\ UNCHANGED <<pc, blockedOn, value, owner, stage, until, step, use, deadline>>
      /\ resumeInfo' = resumeInfo \/ \E f \in Freds : resumeInfo' = [resumeInfo EXCEPT ![f] = Timer]
  <2>1. UNCHANGED deadline
    BY DEF Tick, TimerStep, TimerPoll, TimerRead, CheckExpiryLock, CheckExpiryNode, CheckExpiryResume,
       CheckExpiryDone
  <2> QED BY <2>1, TimerMoves DEF CondInv, mutexVars
<1>1. CondBlockInv'
  BY <1>0, CondTimerInv
<1>2. CondPlaces'
  BY <1>0 DEF CondPlaces
<1>3. CondUse'
  BY <1>0, CondTypes, CondConstants DEF CondUse, Timed
<1>4. MutexTypeOK' /\ MutualExclusion' /\ OwnerExact'
  BY <1>0 DEF CondInv, MutexTypeOK, MutualExclusion, OwnerExact, Holding
<1> QED BY <1>1, <1>2, <1>3, <1>4 DEF CondInv

LEMMA CondStutter ==
  ASSUME CondInv, UNCHANGED condVars
  PROVE  CondInv'
<1>0. /\ CondBlockInv /\ CondPlaces /\ CondUse
      /\ UNCHANGED <<pc, runState, resumeInfo, readyLinks, pending, timerVars, bqVars, deadline, blockedOn>>
      /\ UNCHANGED <<value, owner, stage, until, step, use>>
  BY DEF CondInv, condVars, spinCondMutexVars, fredVars, timerVars, bqVars, mutexVars
<1>1. CondBlockInv'
  <2>1. /\ pc' \in [Freds -> Labels]
        /\ \A g \in Freds : \A l \in {"release", "sleep", "lock"} : step'[g] = l <=> step[g] = l
    BY <1>0, CondTypes
  <2> QED BY <1>0, <2>1, QuietInv
<1>2. CondPlaces' /\ CondUse'
  BY <1>0 DEF CondPlaces, CondUse, Timed
<1>3. MutexTypeOK' /\ MutualExclusion' /\ OwnerExact'
  BY <1>0 DEF CondInv, MutexTypeOK, MutualExclusion, OwnerExact, Holding
<1> QED BY <1>1, <1>2, <1>3 DEF CondInv

LEMMA CondNextInv == CondInv /\ [CondNext]_condVars => CondInv'
<1> SUFFICES ASSUME CondInv, [CondNext]_condVars PROVE CondInv'
  OBVIOUS
<1> QED BY CondWaitStep, CondSuspendStep, CondAcquireStep, CondAcquiredStep, SignalStep, CondSleepStep,
           CondMutexStep, CondClockStep, CondStutter DEF CondNext

LEMMA CondInvImplies == CondInv => CondWaiters /\ MutualExclusion /\ OwnerExact
<1> SUFFICES ASSUME CondInv PROVE CondWaiters
  BY DEF CondInv
<1>0. CondBlockInv /\ CondPlaces
  BY DEF CondInv
<1> QED
  BY <1>0 DEF CondWaiters, CondBlockInv, CondNodes, CondRace, CondPlaces, RaceRunning, RaceOff, CanWin,
     InWait, Suspending

LEMMA CondInvariance == SignalOrTimed /\ CondSpec => []CondInv
<1>1. SignalOrTimed /\ CondInit => CondInv
  BY CondInitInv
<1> QED BY <1>1, CondNextInv, PTL DEF CondSpec
\* acquire() gives up for its timeout only.
LEMMA GivesUp ==
  ASSUME CondInv, CondNext, NEW f \in Freds, stage[f] = "block", stage'[f] = "out"
  PROVE  until[f] # Never
<1>0. /\ CondPlaces /\ stage \in [Freds -> Stages] /\ until[f] \in 0 .. Never
      /\ now \in 0 .. MaxTime /\ MaxTime < Never /\ MaxTime \in Nat
  BY CondTypes, CondConstants DEF CondInv
<1>1. ASSUME UNCHANGED mutexVars
      PROVE  FALSE
  BY <1>0, <1>1 DEF mutexVars
<1>2. ASSUME NEW g \in Freds, CondMutex(g)
      PROVE  until[f] # Never
  <2>1. QueueBlock(f) \/ BlockReturn(f)
    BY <1>0, <1>1, <1>2
       DEF CondMutex, MutexStep, TryLock1, TryLock2, SetOwner, QueueBlock, BlockReturn, ReleaseSwap,
           ReleaseUnblock, ReleaseResume, Release, Acquire, tryAcquire, At, Goto
  <2>2. CASE QueueBlock(f)
    BY <1>0, <2>2 DEF QueueBlock, TimeoutPassed, Goto
  <2>3. CASE BlockReturn(f)
    BY <1>0, <2>3 DEF BlockReturn, Goto, CondPlaces
  <2> QED BY <2>1, <2>2, <2>3
<1>3. ASSUME NEW g \in Freds, \/ \E t \in WaitTimeouts : CondWait(g, t)
                              \/ CondSuspend(g) \/ CondSleep(g)
                              \/ Signal(g) \/ SignalResume(g) \/ SignalAgain(g)
      PROVE  FALSE
  <2>1. stage' = stage
    BY <1>3 DEF CondWait, CondSuspend, CondSleep, Signal, SignalResume, SignalAgain, SignalUnblock,
       mutexVars, spinCondMutexVars
  <2> QED BY <1>0, <2>1
<1>4. ASSUME NEW g \in Freds, \/ CondSignalled(g) \/ CondTimeout(g) \/ CondUnlocked(g)
                              \/ CondRemove(g) \/ CondReturn(g)
      PROVE  FALSE
  <2>1. stage' = [stage EXCEPT ![g] = "low"] \/ stage' = [stage EXCEPT ![g] = "own"]
    BY <1>4 DEF CondSignalled, CondTimeout, CondUnlocked, CondRemove, CondReturn, EnterAcquire, Goto
  <2> QED BY <1>0, <2>1
<1> QED BY <1>1, <1>2, <1>3, <1>4 DEF CondNext

\* With signals, or with timed waits: a fred that waits on the condition is
\* queued until it is won and then owed its resume(), from the moment it holds
\* the mutex still to the moment it runs again.  No signal() is lost on it.
THEOREM SafeCondWaiters == SignalOrTimed /\ CondSpec => []CondWaiters
<1>1. CondInv => CondWaiters
  BY CondInvImplies
<1> QED BY <1>1, CondInvariance, PTL

\* wait() ignores what acquire() returns, and may: without a timeout acquire()
\* does not return without the mutex, be it with a wait inside a wait.
THEOREM SafeAcquire == SignalOrTimed /\ CondSpec => AcquireSucceeds
<1>1. CondInv /\ [CondNext]_condVars
        => [\A f \in Freds : stage[f] = "block" /\ stage'[f] = "out" => until[f] # Never]_condVars
  BY GivesUp
<1> QED BY <1>1, CondInvariance, PTL DEF CondSpec, AcquireSucceeds

\* The mutex excludes, and knows its owner, also while freds wait on the
\* condition, hand it back to them and remove their nodes.
THEOREM SafeCondMutex ==
  SignalOrTimed /\ CondSpec => [](MutualExclusion /\ OwnerExact)
<1>1. CondInv => MutualExclusion /\ OwnerExact
  BY CondInvImplies
<1> QED BY <1>1, CondInvariance, PTL
---------------------------------------------------------------------------
(* A mutex that no condition is used with.                                  *)

NoCondition == use \cap {"wait", "signal"} = {}

\* Nobody begins a wait() or a signal() then, so that the steps of the
\* composition are those of the mutex.
LEMMA AloneStep ==
  ASSUME NoCondition, \A f \in Freds : step[f] = "none", CondNext
  PROVE  SpinCondMutexNext /\ UNCHANGED <<step, use>>
<1>1. ASSUME NEW f \in Freds
      PROVE  /\ ~\E t \in WaitTimeouts : TimeoutUsed(t) /\ CondWait(f, t)
             /\ ~CondSuspend(f) /\ ~CondSignalled(f) /\ ~CondTimeout(f) /\ ~CondRemove(f)
             /\ ~CondUnlocked(f) /\ ~CondReturn(f)
             /\ ~Signal(f) /\ ~SignalResume(f) /\ ~SignalAgain(f) /\ ~CondSleep(f)
  BY DEF NoCondition, TimeoutUsed, CondSuspend, CondSignalled, CondTimeout, CondRemove, CondUnlocked,
     CondReturn, Signal, SignalResume, SignalAgain, CondSleep, Step
<1>2. ASSUME NEW f \in Freds, CondMutex(f)
      PROVE  SpinCondMutexNext /\ UNCHANGED <<step, use>>
  BY <1>2 DEF CondMutex, SpinCondMutexNext
<1>3. ASSUME Tick \/ TimerStep, UNCHANGED <<bqVars, mutexVars, step, use>>
      PROVE  SpinCondMutexNext /\ UNCHANGED <<step, use>>
  BY <1>3 DEF SpinCondMutexNext
<1> QED BY <1>1, <1>2, <1>3 DEF CondNext

\* An application does not begin to use something else.
LEMMA UseStays == [CondNext]_condVars => use' = use
<1>1. CASE UNCHANGED condVars
  BY <1>1 DEF condVars
<1>2. ASSUME NEW f \in Freds, \/ Signal(f) \/ SignalResume(f) \/ SignalAgain(f)
                              \/ CondSleep(f) \/ CondMutex(f)
      PROVE  use' = use
  BY <1>2 DEF Signal, SignalResume, SignalAgain, SignalUnblock, CondSleep, CondMutex, Step
<1>3. ASSUME NEW f \in Freds, \/ \E t \in WaitTimeouts : CondWait(f, t)
                              \/ CondSuspend(f) \/ CondSignalled(f) \/ CondTimeout(f)
                              \/ CondRemove(f) \/ CondUnlocked(f) \/ CondReturn(f)
      PROVE  use' = use
  BY <1>3 DEF CondWait, CondSuspend, CondSignalled, CondTimeout, CondRemove, CondUnlocked, CondReturn, Step
<1> QED BY <1>1, <1>2, <1>3 DEF CondNext

\* The inductive invariant of the mutex also holds in the composition that is
\* checked, as long as nobody waits on the condition.
THEOREM MutexAloneInvariance == CondSpec => []MutexAlone
<1> DEFINE Alone == NoCondition => SpinCondMutexInv /\ \A f \in Freds : step[f] = "none"
<1>1. CondInit => Alone
  BY SpinCondMutexInitInv DEF CondInit
<1>2. Alone /\ [CondNext]_condVars => Alone'
  <2> SUFFICES ASSUME Alone, [CondNext]_condVars, NoCondition'
               PROVE  SpinCondMutexInv' /\ \A f \in Freds : step'[f] = "none"
    OBVIOUS
  <2>1. NoCondition
    BY UseStays DEF NoCondition
  <2>2. [SpinCondMutexNext]_spinCondMutexVars /\ step' = step
    BY <2>1, AloneStep DEF condVars
  <2> QED BY <2>1, <2>2, SpinCondMutexNextInv
<1>3. Alone => MutexAlone
  BY DEF NoCondition, MutexAlone
<1> QED BY <1>1, <1>2, <1>3, PTL DEF CondSpec
===========================================================================
