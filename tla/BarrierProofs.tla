---------------------------- MODULE BarrierProofs ----------------------------
(***************************************************************************)
(* Proofs about LockedBarrier and FastBarrier, in the composition that TLC  *)
(* checks: the groups are exact, by equations between the calls that have   *)
(* begun, the freds that are inside and the calls that have returned.       *)
(***************************************************************************)
EXTENDS MCPrimitives, BlockingQueueProofs, FiniteSetTheorems, TLAPS

\* A queue without repetition has as many freds as places.
LEMMA DistinctCount ==
  ASSUME NEW Elem, NEW s \in Seq(Elem), IsInjective(s)
  PROVE  /\ IsFiniteSet({s[i] : i \in DOMAIN s}) /\ Cardinality({s[i] : i \in DOMAIN s}) = Len(s)
<1>1. Len(s) \in Nat /\ DOMAIN s = 1 .. Len(s)
  BY LenProperties
<1>2. PICK n \in Nat : n = Len(s) /\ DOMAIN s = 1 .. n
  BY <1>1
<1>3. IsFiniteSet(1 .. n) /\ Cardinality(1 .. n) = n
  <2>1. 1 \in Int /\ n \in Int
    BY <1>2
  <2>2. IsFiniteSet(1 .. n) /\ Cardinality(1 .. n) = IF 1 > n THEN 0 ELSE n - 1 + 1
    BY <2>1, FS_Interval
  <2> QED BY <1>2, <2>2
<1>4. PICK Who : Who = {s[i] : i \in DOMAIN s}
  OBVIOUS
<1>5. s \in Surjection(1 .. n, Who)
  <2>1. s = [i \in 1 .. n |-> s[i]]
    BY <1>2
  <2>2. \A i \in 1 .. n : s[i] \in Who
    BY <1>2, <1>4
  <2>3. s \in [1 .. n -> Who]
    BY <2>1, <2>2
  <2> QED BY <1>2, <1>4, <2>3 DEF Surjection
<1>6. s \in Injection(1 .. n, Who)
  BY <1>2, <1>5 DEF Injection, IsInjective, Surjection
<1> QED BY <1>2, <1>3, <1>4, <1>5, <1>6, FS_Surjection

---------------------------------------------------------------------------
(* LockedBarrier.                                                           *)

InBarrier == {f \in Freds : pc[f] # "idle"}

BarTypes ==
  /\ pc \in [Freds -> {"idle", "suspend", "switch", "off", "resumed", "unblocked"}]
  /\ runState \in [Freds -> 0 .. 2] /\ readyLinks \in [Freds -> 0 .. 1]
  /\ resumeInfo \in [Freds -> {Null, Bar}] /\ blockedOn \in [Freds -> {Null, Bar}]
  /\ pending = [r \in Resumers |-> Null] /\ deadline = [f \in Freds |-> Never]
  /\ bq \in [Queues -> Seq(Freds)]
  /\ group \in Nat \ {0} /\ arrived \in Nat /\ entered \in Nat /\ done \in Nat /\ serials \in Nat

\* Each fred is in the queue, or resumed by the last of its group, or outside.
BarFreds ==
  \A f \in Freds :
    /\ pc[f] \in {"idle", "resumed", "unblocked"} =>
         runState[f] = Running /\ readyLinks[f] = 0 /\ ~InQueue(f, Bar)
    /\ pc[f] \in {"suspend", "switch"} =>
         readyLinks[f] = 0 /\ runState[f] = IF InQueue(f, Bar) THEN Running ELSE ResumedEarly
    /\ pc[f] = "off" =>
         IF InQueue(f, Bar) THEN runState[f] = Parked /\ readyLinks[f] = 0
                            ELSE runState[f] = Running /\ readyLinks[f] = 1
    /\ pc[f] # "idle" => blockedOn[f] = Bar /\ resumeInfo[f] = IF InQueue(f, Bar) THEN Null ELSE Bar

BarCounts ==
  /\ IsInjective(bq[Bar]) /\ Len(bq[Bar]) = arrived /\ arrived < group
  /\ IsFiniteSet(InBarrier) /\ entered = done + Cardinality(InBarrier)
  /\ entered = group * serials + arrived

BarInv == BarTypes /\ BarFreds /\ BarCounts

LEMMA BarFacts ==
  /\ Bar \in Queues /\ Bar # Null /\ Bar # Timer /\ Null \notin Freds
  BY FredAssumption, QueueAssumption, BarAssumption

LEMMA BarInitInv == LockedBarrierInit => BarInv
<1> SUFFICES ASSUME LockedBarrierInit PROVE BarInv
  OBVIOUS
<1>1. /\ pc = [f \in Freds |-> "idle"] /\ runState = [f \in Freds |-> 1] /\ resumeInfo = [f \in Freds |-> Null]
      /\ readyLinks = [f \in Freds |-> 0] /\ pending = [r \in Resumers |-> Null]
      /\ deadline = [f \in Freds |-> Never]
      /\ bq = [q \in Queues |-> <<>>] /\ blockedOn = [f \in Freds |-> Null]
      /\ group \in GroupSizes /\ arrived = 0 /\ entered = 0 /\ done = 0 /\ serials = 0
  BY DEF LockedBarrierInit, FredInit, TimerInit, BlockingInit, Running
<1>2. group \in Nat \ {0}
  BY <1>1, BarAssumption
<1>3. BarTypes
  BY <1>1, <1>2 DEF BarTypes
<1>4. bq[Bar] = <<>> /\ \A f : ~InQueue(f, Bar)
  BY <1>1, BarFacts DEF InQueue, Contains
<1>5. BarFreds
  BY <1>1, <1>4 DEF BarFreds, Running
<1>6. InBarrier = {}
  BY <1>1 DEF InBarrier
<1>7. BarCounts
  <2>1. IsInjective(bq[Bar]) /\ Len(bq[Bar]) = 0
    BY <1>4 DEF IsInjective
  <2>2. group * 0 + 0 = 0
    BY <1>2
  <2> QED BY <1>1, <1>2, <1>6, <2>1, <2>2, FS_EmptySet DEF BarCounts
<1> QED BY <1>3, <1>5, <1>7 DEF BarInv

\* A step of a fred that is inside and stays inside.
LEMMA InsideSame ==
  ASSUME \A g \in Freds : pc'[g] # "idle" <=> pc[g] # "idle"
  PROVE  InBarrier' = InBarrier
BY DEF InBarrier

LEMMA BarStepInv ==
  ASSUME BarInv, NEW f \in Freds, BlockStep(f), UNCHANGED barVars
  PROVE  BarInv'
<1>0. deadline[f] = Never /\ pc[f] \in {"idle", "suspend", "switch", "off", "resumed", "unblocked"}
  BY DEF BarInv, BarTypes
<1>1. ~TimerQueueStep(f) /\ ~SleepDone(f) /\ ~BlockFalse(f)
  <2>1. ~TimerQueueStep(f)
    BY <1>0 DEF TimerQueueStep, Enqueue, BlockErase, Erase, Timed
  <2>2. pc[f] = "resumed" => blockedOn[f] = Bar /\ resumeInfo[f] = Bar
    BY DEF BarInv, BarFreds
  <2> QED BY <2>1, <2>2, BarFacts DEF SleepDone, BlockFalse
<1>2. /\ UNCHANGED <<resumeInfo, pending, deadline, bq, blockedOn>>
      /\ UNCHANGED <<group, arrived, entered, done, serials>>
      /\ \/ /\ pc[f] = "suspend" /\ runState[f] = 2 /\ runState' = [runState EXCEPT ![f] = 1]
            /\ pc' = [pc EXCEPT ![f] = "resumed"] /\ readyLinks' = readyLinks
         \/ /\ pc[f] = "suspend" /\ runState[f] # 2 /\ pc' = [pc EXCEPT ![f] = "switch"]
            /\ UNCHANGED <<runState, readyLinks>>
         \/ /\ pc[f] = "switch" /\ pc' = [pc EXCEPT ![f] = "off"]
            /\ runState' = [runState EXCEPT ![f] = @ - 1]
            /\ readyLinks' = IF runState[f] = 2 THEN [readyLinks EXCEPT ![f] = @ + 1] ELSE readyLinks
         \/ /\ pc[f] = "off" /\ readyLinks[f] > 0 /\ pc' = [pc EXCEPT ![f] = "resumed"]
            /\ readyLinks' = [readyLinks EXCEPT ![f] = @ - 1] /\ runState' = runState
         \/ /\ pc[f] = "resumed" /\ pc' = [pc EXCEPT ![f] = "unblocked"]
            /\ UNCHANGED <<runState, readyLinks>>
  BY <1>1 DEF BlockStep, FredStep, SuspendSkip, SuspendInternal, PostSuspend, Dispatch, BlockTrue,
     ResumeInternal, timerVars, bqVars, barVars, ResumedEarly, Running
<1>3. \A g : InQueue(g, Bar)' <=> InQueue(g, Bar)
  BY <1>2 DEF InQueue
<1>4. BarTypes'
  <2>1. pc[f] = "switch" => runState[f] - 1 \in 0 .. 2 /\ readyLinks[f] + 1 \in 0 .. 1
    BY DEF BarInv, BarFreds, Running, ResumedEarly
  <2>2. readyLinks[f] > 0 => readyLinks[f] - 1 \in 0 .. 1
    BY DEF BarInv, BarTypes
  <2>0. /\ pc \in [Freds -> {"idle", "suspend", "switch", "off", "resumed", "unblocked"}]
        /\ runState \in [Freds -> 0 .. 2] /\ readyLinks \in [Freds -> 0 .. 1]
    BY DEF BarInv, BarTypes
  <2>3. pc' \in [Freds -> {"idle", "suspend", "switch", "off", "resumed", "unblocked"}]
    BY <1>2, <2>0
  <2>4. runState' \in [Freds -> 0 .. 2]
    <3>1. \/ runState' = runState \/ runState' = [runState EXCEPT ![f] = 1]
          \/ pc[f] = "switch" /\ runState' = [runState EXCEPT ![f] = runState[f] - 1]
      BY <1>2
    <3>2. 1 \in 0 .. 2
      OBVIOUS
    <3> QED BY <2>0, <2>1, <3>1, <3>2
  <2>5. readyLinks' \in [Freds -> 0 .. 1]
    <3>1. \/ readyLinks' = readyLinks
          \/ pc[f] = "switch" /\ readyLinks' = [readyLinks EXCEPT ![f] = readyLinks[f] + 1]
          \/ readyLinks[f] > 0 /\ readyLinks' = [readyLinks EXCEPT ![f] = readyLinks[f] - 1]
      BY <1>2
    <3> QED BY <2>0, <2>1, <2>2, <3>1
  <2> QED BY <1>2, <2>3, <2>4, <2>5 DEF BarInv, BarTypes
<1>5. BarFreds'
  BY <1>2, <1>3 DEF BarInv, BarTypes, BarFreds, Running, ResumedEarly, Parked
<1>6. InBarrier' = InBarrier
  <2>1. \A g \in Freds : pc'[g] # "idle" <=> pc[g] # "idle"
    BY <1>2 DEF BarInv, BarTypes
  <2> QED BY <2>1, InsideSame
<1>7. BarCounts'
  BY <1>2, <1>6 DEF BarInv, BarCounts
<1> QED BY <1>4, <1>5, <1>7 DEF BarInv

LEMMA BarWaitInv ==
  ASSUME BarInv, NEW f \in Freds, BarWait(f)
  PROVE  BarInv'
<1>0. /\ pc[f] = "idle" /\ arrived + 1 # group /\ arrived' = arrived + 1 /\ entered' = entered + 1
      /\ UNCHANGED <<runState, readyLinks, pending, group, done, serials>>
      /\ resumeInfo' = [resumeInfo EXCEPT ![f] = Null]
      /\ bq' = [bq EXCEPT ![Bar] = Append(@, f)]
      /\ blockedOn' = [blockedOn EXCEPT ![f] = Bar]
      /\ deadline' = [deadline EXCEPT ![f] = Never]
      /\ pc' = [pc EXCEPT ![f] = "suspend"]
  BY DEF BarWait, Block, PrepareResumeRace
<1>1. bq[Bar] \in Seq(Freds) /\ ~InQueue(f, Bar) /\ bq'[Bar] = Append(bq[Bar], f)
  BY <1>0, BarFacts DEF BarInv, BarTypes, BarFreds
<1>2. /\ bq'[Bar] \in Seq(Freds) /\ IsInjective(bq'[Bar]) /\ Len(bq'[Bar]) = Len(bq[Bar]) + 1
      /\ \A g : InQueue(g, Bar)' <=> InQueue(g, Bar) \/ g = f
  <2>1. IsInjective(bq[Bar])
    BY DEF BarInv, BarCounts
  <2>2. /\ Append(bq[Bar], f) \in Seq(Freds) /\ IsInjective(Append(bq[Bar], f))
        /\ \A d : Contains(Append(bq[Bar], f), d) <=> Contains(bq[Bar], d) \/ d = f
    BY <1>1, <2>1, AppendDistinct DEF InQueue
  <2>3. Len(Append(bq[Bar], f)) = Len(bq[Bar]) + 1
    BY <1>1, AppendProperties
  <2> QED BY <1>1, <2>2, <2>3 DEF InQueue
<1>3. BarTypes'
  <2>1. bq' \in [Queues -> Seq(Freds)]
    BY <1>0, <1>1, <1>2, BarFacts DEF BarInv, BarTypes
  <2>2. deadline' = deadline
    BY <1>0 DEF BarInv, BarTypes
  <2> QED BY <1>0, <2>1, <2>2 DEF BarInv, BarTypes
<1>4. BarFreds'
  BY <1>0, <1>2 DEF BarInv, BarTypes, BarFreds, Running, ResumedEarly, Parked
<1>5. BarCounts'
  <2>1. InBarrier' = InBarrier \cup {f} /\ f \notin InBarrier
    BY <1>0 DEF InBarrier, BarInv, BarTypes
  <2>2. IsFiniteSet(InBarrier') /\ Cardinality(InBarrier') = Cardinality(InBarrier) + 1
    BY <2>1, FS_AddElement DEF BarInv, BarCounts
  <2>3. Cardinality(InBarrier) \in Nat
    BY FS_CardinalityType DEF BarInv, BarCounts
  <2>4. /\ entered = done + Cardinality(InBarrier) /\ entered = group * serials + arrived
        /\ Len(bq[Bar]) = arrived /\ arrived < group /\ group * serials \in Nat
    BY DEF BarInv, BarCounts, BarTypes
  <2>5. entered' = done' + Cardinality(InBarrier')
    BY <1>0, <2>2, <2>3, <2>4 DEF BarInv, BarTypes
  <2>6. entered' = group' * serials' + arrived'
    BY <1>0, <2>4 DEF BarInv, BarTypes
  <2>7. Len(bq'[Bar]) = arrived' /\ arrived' < group'
    BY <1>0, <1>2, <2>4 DEF BarInv, BarTypes
  <2> QED BY <1>2, <2>2, <2>5, <2>6, <2>7 DEF BarCounts
<1> QED BY <1>3, <1>4, <1>5 DEF BarInv

LEMMA BarReturnInv ==
  ASSUME BarInv, NEW f \in Freds, BarReturn(f)
  PROVE  BarInv'
<1>0. /\ pc[f] = "unblocked" /\ pc' = [pc EXCEPT ![f] = "idle"] /\ done' = done + 1
      /\ UNCHANGED <<runState, resumeInfo, readyLinks, pending, deadline, bq, blockedOn>>
      /\ UNCHANGED <<group, arrived, entered, serials>>
  BY DEF BarReturn, raceVars, timerVars, bqVars
<1>1. \A g : InQueue(g, Bar)' <=> InQueue(g, Bar)
  BY <1>0 DEF InQueue
<1>2. BarTypes' /\ BarFreds'
  BY <1>0, <1>1 DEF BarInv, BarTypes, BarFreds, Running, ResumedEarly, Parked
<1>3. BarCounts'
  <2>1. InBarrier' = InBarrier \ {f} /\ f \in InBarrier
    BY <1>0 DEF InBarrier, BarInv, BarTypes
  <2>2. IsFiniteSet(InBarrier') /\ Cardinality(InBarrier') = Cardinality(InBarrier) - 1
    BY <2>1, FS_RemoveElement DEF BarInv, BarCounts
  <2>3. Cardinality(InBarrier) \in Nat
    BY FS_CardinalityType DEF BarInv, BarCounts
  <2>4. entered' = done' + Cardinality(InBarrier')
    <3>1. entered = done + Cardinality(InBarrier) /\ done \in Nat
      BY DEF BarInv, BarTypes, BarCounts
    <3> QED BY <1>0, <2>2, <2>3, <3>1
  <2> QED BY <1>0, <2>2, <2>4 DEF BarInv, BarCounts
<1> QED BY <1>2, <1>3 DEF BarInv

\* Who is in the queue of the barrier.
BarQueued == {bq[Bar][i] : i \in DOMAIN bq[Bar]}

LEMMA BarQueuedAre ==
  ASSUME BarInv
  PROVE  /\ IsFiniteSet(BarQueued) /\ Cardinality(BarQueued) = arrived
         /\ \A g : g \in BarQueued <=> InQueue(g, Bar)
         /\ \A g \in BarQueued : g \in Freds /\ pc[g] # "idle"
<1>1. bq[Bar] \in Seq(Freds) /\ IsInjective(bq[Bar]) /\ Len(bq[Bar]) = arrived
  BY BarFacts DEF BarInv, BarTypes, BarCounts
<1>2. IsFiniteSet(BarQueued) /\ Cardinality(BarQueued) = arrived
  BY <1>1, DistinctCount DEF BarQueued
<1>3. \A g : g \in BarQueued <=> InQueue(g, Bar)
  BY DEF BarQueued, InQueue, Contains
<1>4. \A g \in BarQueued : g \in Freds
  BY <1>1 DEF BarQueued
<1>5. \A g \in Freds : InQueue(g, Bar) => pc[g] # "idle"
  BY DEF BarInv, BarFreds
<1> QED BY <1>2, <1>3, <1>4, <1>5

LEMMA BarCompleteInv ==
  ASSUME BarInv, NEW f \in Freds, BarComplete(f)
  PROVE  BarInv'
<1>0. arrived \in Nat /\ bq[Bar] \in Seq(Freds) /\ Len(bq[Bar]) = arrived /\ DOMAIN bq[Bar] = 1 .. arrived
  <2>1. arrived \in Nat /\ bq[Bar] \in Seq(Freds) /\ Len(bq[Bar]) = arrived
    BY BarFacts DEF BarInv, BarTypes, BarCounts
  <2> QED BY <2>1, LenProperties
<1>1. {bq[Bar][i] : i \in {j \in DOMAIN bq[Bar] : j <= WakeCount}} = BarQueued
  <2>1. {j \in DOMAIN bq[Bar] : j <= WakeCount} = DOMAIN bq[Bar]
    BY <1>0 DEF WakeCount
  <2> QED BY <2>1 DEF BarQueued
<1>2. /\ pc[f] = "idle" /\ arrived + 1 = group /\ arrived' = 0
      /\ bq' = [bq EXCEPT ![Bar] = SubSeq(@, Cardinality(BarQueued) + 1, Len(@))]
      /\ resumeInfo' = [g \in Freds |-> IF g \in BarQueued THEN Bar ELSE resumeInfo[g]]
      /\ runState' = [g \in Freds |-> IF g \in BarQueued THEN runState[g] + 1 ELSE runState[g]]
      /\ readyLinks' = [g \in Freds |-> IF g \in BarQueued /\ runState[g] = Parked
                                        THEN readyLinks[g] + 1 ELSE readyLinks[g]]
      /\ entered' = entered + 1 /\ done' = done + 1 /\ serials' = serials + 1
      /\ UNCHANGED <<pc, pending, deadline, blockedOn, group>>
  BY <1>1 DEF BarComplete, timerVars
<1>3. bq'[Bar] = <<>> /\ bq' \in [Queues -> Seq(Freds)] /\ \A g : ~InQueue(g, Bar)'
  <2>1. SubSeq(bq[Bar], arrived + 1, arrived) = <<>>
    BY <1>0
  <2>2. Cardinality(BarQueued) = arrived /\ Len(bq[Bar]) = arrived /\ bq \in [Queues -> Seq(Freds)]
    BY <1>0, BarQueuedAre DEF BarInv, BarTypes
  <2>3. bq' = [bq EXCEPT ![Bar] = <<>>]
    BY <1>2, <2>1, <2>2
  <2>4. PICK none : none = <<>> /\ none \in Seq(Freds)
    <3>1. <<>> \in Seq(Freds)
      OBVIOUS
    <3> QED BY ONLY <3>1, Zenon
  <2>5. bq' = [bq EXCEPT ![Bar] = none]
    BY <2>3, <2>4
  <2>6. bq'[Bar] = none /\ bq' \in [Queues -> Seq(Freds)]
    BY <2>2, <2>4, <2>5, BarFacts
  <2> QED BY <2>4, <2>6 DEF InQueue, Contains
<1>4. \A g \in BarQueued : /\ g \in Freds /\ InQueue(g, Bar) /\ pc[g] \in {"suspend", "switch", "off"}
                           /\ pc[g] \in {"suspend", "switch"} => runState[g] = 1 /\ readyLinks[g] = 0
                           /\ pc[g] = "off" => runState[g] = 0 /\ readyLinks[g] = 0
  BY BarQueuedAre DEF BarInv, BarTypes, BarFreds, Running, Parked
<1>5. BarTypes'
  <2>1. /\ runState' \in [Freds -> 0 .. 2] /\ readyLinks' \in [Freds -> 0 .. 1]
        /\ resumeInfo' \in [Freds -> {Null, Bar}]
    BY <1>2, <1>4 DEF BarInv, BarTypes, Parked
  <2> QED BY <1>2, <1>3, <2>1 DEF BarInv, BarTypes
<1>6. BarFreds'
  <2>1. ASSUME NEW g \in Freds, g \in BarQueued
        PROVE  /\ pc'[g] \in {"suspend", "switch", "off"} /\ blockedOn'[g] = Bar /\ resumeInfo'[g] = Bar
               /\ pc'[g] \in {"suspend", "switch"} => runState'[g] = 2 /\ readyLinks'[g] = 0
               /\ pc'[g] = "off" => runState'[g] = 1 /\ readyLinks'[g] = 1
    BY <1>2, <1>4, <2>1 DEF BarInv, BarFreds, Parked
  <2>2. ASSUME NEW g \in Freds, g \notin BarQueued
        PROVE  /\ pc'[g] = pc[g] /\ runState'[g] = runState[g] /\ readyLinks'[g] = readyLinks[g]
               /\ resumeInfo'[g] = resumeInfo[g] /\ blockedOn'[g] = blockedOn[g] /\ ~InQueue(g, Bar)
    BY <1>2, <2>2, BarQueuedAre
  <2> QED BY <1>3, <2>1, <2>2 DEF BarInv, BarFreds, Running, ResumedEarly, Parked
<1>7. BarCounts'
  <2>1. InBarrier' = InBarrier
    BY <1>2, InsideSame
  <2>2. group \in Nat /\ serials \in Nat /\ entered = group * serials + arrived
    BY DEF BarInv, BarTypes, BarCounts
  <2>3. group * (serials + 1) = group * serials + group /\ group * serials \in Nat
    BY <2>2
  <2>4. entered' = group' * serials' + arrived'
    BY <1>0, <1>2, <2>2, <2>3
  <2>5. IsInjective(bq'[Bar]) /\ Len(bq'[Bar]) = 0
    BY <1>3 DEF IsInjective
  <2>6. entered' = done' + Cardinality(InBarrier')
    <3>1. Cardinality(InBarrier) \in Nat
      BY FS_CardinalityType DEF BarInv, BarCounts
    <3>2. entered = done + Cardinality(InBarrier) /\ done \in Nat
      BY DEF BarInv, BarTypes, BarCounts
    <3> QED BY <1>2, <2>1, <3>1, <3>2
  <2>7. IsFiniteSet(InBarrier') /\ arrived' = 0 /\ 0 < group'
    BY <1>0, <1>2, <2>1 DEF BarInv, BarCounts
  <2> QED BY <2>4, <2>5, <2>6, <2>7 DEF BarCounts
<1> QED BY <1>5, <1>6, <1>7 DEF BarInv

LEMMA BarNextInv == BarInv /\ LockedBarrierNext => BarInv'
  BY BarWaitInv, BarCompleteInv, BarReturnInv, BarStepInv DEF LockedBarrierNext

LEMMA BarInvGroups == BarInv => BarrierGroups
<1> SUFFICES ASSUME BarInv PROVE BarrierGroups
  OBVIOUS
<1>1. BarQueued \subseteq InBarrier
  BY BarQueuedAre DEF InBarrier
<1>2. /\ IsFiniteSet(InBarrier) /\ Cardinality(BarQueued) <= Cardinality(InBarrier)
      /\ Cardinality(BarQueued) = arrived
  BY <1>1, FS_Subset, BarQueuedAre DEF BarInv, BarCounts
<1>3. Waiting(Bar) = BarQueued
  <2>1. \A g \in Freds : InQueue(g, Bar) => CanWin(g)
    BY DEF BarInv, BarFreds, CanWin
  <2> QED BY <2>1, BarQueuedAre DEF Waiting
<1>4. done <= group * serials
  <2>1. Cardinality(InBarrier) \in Nat /\ group * serials \in Nat /\ arrived \in Nat /\ done \in Nat
    BY <1>2, FS_CardinalityType DEF BarInv, BarTypes
  <2> QED BY <1>2, <2>1 DEF BarInv, BarCounts
<1> QED BY <1>2, <1>3, <1>4 DEF BarrierGroups, BarInv, BarCounts

---------------------------------------------------------------------------
(* FastBarrier.                                                             *)

\* The rest of a queue without repetition.
LEMMA TailDistinct ==
  ASSUME NEW Elem, NEW s \in Seq(Elem), IsInjective(s), s # <<>>
  PROVE  /\ Head(s) \in Elem /\ Tail(s) \in Seq(Elem) /\ IsInjective(Tail(s)) /\ Contains(s, Head(s))
         /\ \A d : Contains(Tail(s), d) <=> Contains(s, d) /\ d # Head(s)
<1>0. Len(s) \in Nat /\ DOMAIN s = 1 .. Len(s)
  BY LenProperties
<1>1. /\ Len(s) \in Nat \ {0} /\ DOMAIN s = 1 .. Len(s) /\ Head(s) = s[1] /\ Tail(s) \in Seq(Elem)
      /\ Len(Tail(s)) = Len(s) - 1 /\ \A i \in 1 .. Len(s) - 1 : Tail(s)[i] = s[i + 1]
  BY <1>0, HeadTailProperties, EmptySeq, SMTT(40)
<1>2. PICK n \in Nat \ {0}, t \in Seq(Elem) : n = Len(s) /\ t = Tail(s)
  BY <1>1
<1>3. DOMAIN t = 1 .. n - 1 /\ Len(t) = n - 1 /\ \A i \in 1 .. n - 1 : t[i] = s[i + 1]
  BY <1>1, <1>2, LenProperties
<1>4. \A i, j \in 1 .. n : s[i] = s[j] => i = j
  BY <1>1, <1>2 DEF IsInjective
<1>5. IsInjective(t)
  BY <1>3, <1>4 DEF IsInjective
<1>6. \A d : Contains(t, d) <=> \E i \in 1 .. n - 1 : s[i + 1] = d
  BY <1>3 DEF Contains
<1>7. \A d : Contains(s, d) <=> \E i \in 1 .. n : s[i] = d
  BY <1>1, <1>2 DEF Contains
<1>8. ASSUME NEW d PROVE Contains(t, d) <=> Contains(s, d) /\ d # s[1]
  <2>1. ASSUME NEW i \in 1 .. n - 1, s[i + 1] = d PROVE Contains(s, d) /\ d # s[1]
    BY <1>4, <1>7, <2>1
  <2>2. ASSUME NEW i \in 1 .. n, s[i] = d, d # s[1] PROVE Contains(t, d)
    <3>1. i - 1 \in 1 .. n - 1 /\ s[(i - 1) + 1] = d
      BY <2>2
    <3> QED BY <1>6, <3>1
  <2> QED BY <1>6, <1>7, <2>1, <2>2
<1> QED BY <1>1, <1>2, <1>5, <1>7, <1>8

\* Freds at some label of wait().
FredsAt(labels) == {f \in Freds : pc[f] \in labels}

FastLabels == {"idle", "count", "subtract", "lock", "loop", "wake", "suspend", "switch", "off", "resumed"}
Notifying  == {"subtract", "lock", "loop", "wake"}
InFast     == {f \in Freds : pc[f] # "idle"}

\* The freds that are inside and not in the queue any more, and those that
\* have been told to be special.
Popped == {f \in InFast : ~Contains(queue, f)}
Told   == {f \in InFast : resumeInfo[f] # Null}

\* Somebody is going to resume f, or f has found itself.
Promised(f) ==
  \/ Contains(queue, f)
  \/ \E r \in Freds : pc[r] = "wake" /\ pending[r] = f
  \/ pc[f] \in {"loop", "wake"} /\ ~park[f]

FastTypes ==
  /\ pc \in [Freds -> FastLabels]
  /\ runState \in [Freds -> 0 .. 2] /\ readyLinks \in [Freds -> 0 .. 1]
  /\ resumeInfo \in [Freds -> Freds \cup {Null}]
  /\ pending \in [Resumers -> Freds \cup {Null}] /\ park \in [Freds -> BOOLEAN]
  /\ queue \in Seq(Freds) /\ IsInjective(queue)
  /\ target \in Nat \ {0} /\ counter \in Nat /\ woken \in Nat
  /\ entries \in Nat /\ returns \in Nat /\ specials \in Nat

FastNotifier ==
  /\ notifier \in Freds \cup {Null}
  /\ \A f \in Freds : pc[f] \in {"loop", "wake"} <=> notifier = f
  /\ woken <= target /\ (notifier = Null => woken = 0)
  /\ \A f \in Freds : /\ pc[f] \in {"subtract", "lock"} => park[f]
                      /\ pc[f] = "wake" <=> pending[f] # Null
                      /\ pending[f] # f

FastFreds ==
  \A f \in Freds :
    /\ pc[f] \in {"idle", "resumed"} => runState[f] = 1 /\ readyLinks[f] = 0 /\ ~Promised(f)
    /\ pc[f] \in {"count", "subtract", "lock", "loop", "wake", "suspend", "switch"}
         => readyLinks[f] = 0 /\ runState[f] = IF Promised(f) THEN 1 ELSE 2
    /\ pc[f] = "off" => IF Promised(f) THEN runState[f] = 0 /\ readyLinks[f] = 0
                                       ELSE runState[f] = 1 /\ readyLinks[f] = 1
    /\ Contains(queue, f) => /\ resumeInfo[f] = Null
                             /\ \A r \in Freds : pc[r] = "wake" => pending[r] # f
    /\ pc[f] \in {"loop", "wake"} /\ ~park[f] => ~Contains(queue, f) /\ resumeInfo[f] = Null

\* The round of the notifier has its special fred already.
RoundTold == IF notifier # Null /\ woken = target /\ park[notifier] THEN 1 ELSE 0

\* After d rounds of notifying: the counter has started further rounds for
\* the freds that are Notifying, and rest freds count for the next one.
FastSums(d, rest) ==
  /\ rest < target
  /\ entries = target * (d + Cardinality(FredsAt(Notifying))) + rest + Cardinality(FredsAt({"count"}))
  /\ counter = target * Cardinality(FredsAt({"subtract"})) + rest
  /\ returns + Cardinality(Popped) = target * d + woken
  /\ specials + Cardinality(Told) = d + RoundTold

FastCounts == IsFiniteSet(InFast) /\ \E d, rest \in Nat : FastSums(d, rest)

FastInv == FastTypes /\ FastNotifier /\ FastFreds /\ FastCounts

LEMMA FastInitInv == FastBarrierInit => FastInv
<1> SUFFICES ASSUME FastBarrierInit PROVE FastInv
  OBVIOUS
<1>1. /\ pc = [f \in Freds |-> "idle"] /\ runState = [f \in Freds |-> 1] /\ resumeInfo = [f \in Freds |-> Null]
      /\ readyLinks = [f \in Freds |-> 0] /\ pending = [r \in Resumers |-> Null]
      /\ target \in Targets /\ counter = 0 /\ queue = <<>> /\ notifier = Null /\ woken = 0
      /\ park = [f \in Freds |-> FALSE] /\ entries = 0 /\ returns = 0 /\ specials = 0
  BY DEF FastBarrierInit, FredInit, Running
<1>2. target \in Nat \ {0}
  BY <1>1, TargetsAssumption
<1>3. <<>> \in Seq(Freds) /\ IsInjective(<<>>) /\ \A f : ~Contains(queue, f)
  BY <1>1 DEF IsInjective, Contains
<1>4. FastTypes
  BY <1>1, <1>2, <1>3 DEF FastTypes, FastLabels
<1>5. FastNotifier
  BY <1>1, <1>2, FredAssumption DEF FastNotifier, Resumers
<1>6. FastFreds
  <2>1. \A f \in Freds : ~Promised(f)
    BY <1>1, <1>3 DEF Promised
  <2> QED BY <1>1, <1>3, <2>1 DEF FastFreds
<1>7. FastCounts
  <2>1. /\ InFast = {} /\ Popped = {} /\ Told = {} /\ FredsAt(Notifying) = {} /\ FredsAt({"count"}) = {}
        /\ FredsAt({"subtract"}) = {}
    BY <1>1 DEF InFast, Popped, Told, FredsAt, Notifying
  <2>2. RoundTold = 0
    BY <1>1 DEF RoundTold
  <2>3. FastSums(0, 0)
    <3>1. target * (0 + 0) + 0 + 0 = 0 /\ target * 0 + 0 = 0 /\ 0 < target
      BY <1>2
    <3>2. Cardinality({}) = 0
      BY FS_EmptySet
    <3>3. /\ Cardinality(FredsAt(Notifying)) = 0 /\ Cardinality(FredsAt({"count"})) = 0
          /\ Cardinality(FredsAt({"subtract"})) = 0 /\ Cardinality(Popped) = 0 /\ Cardinality(Told) = 0
      BY <2>1, <3>2
    <3>4. entries = target * (0 + 0) + 0 + 0 /\ counter = target * 0 + 0
          /\ returns + 0 = target * 0 + woken /\ specials + 0 = 0 + RoundTold
      BY <1>1, <2>2, <3>1, Z3
    <3> QED BY <3>1, <3>3, <3>4 DEF FastSums
  <2> QED BY <2>1, <2>3, FS_EmptySet DEF FastCounts
<1> QED BY <1>4, <1>5, <1>6, <1>7 DEF FastInv

\* An element more, or one less, in a set within a finite one.
Has(x, X) == IF x \in X THEN 1 ELSE 0

LEMMA SetMoves ==
  ASSUME NEW X, NEW Y, NEW x, IsFiniteSet(X), \A y : y # x => (y \in X <=> y \in Y)
  PROVE  /\ Cardinality(X) \in Nat /\ Cardinality(Y) \in Nat
         /\ Cardinality(Y) = Cardinality(X) + Has(x, Y) - Has(x, X)
<1>1. Cardinality(X) \in Nat
  BY FS_CardinalityType
<1>2. CASE x \in X /\ x \notin Y
  <2>1. Y = X \ {x}
    BY <1>2
  <2>2. Cardinality(Y) = Cardinality(X) - 1 /\ IsFiniteSet(Y)
    BY <1>2, <2>1, FS_RemoveElement
  <2> QED BY <1>1, <1>2, <2>2, FS_CardinalityType DEF Has
<1>3. CASE x \notin X /\ x \in Y
  <2>1. Y = X \cup {x}
    BY <1>3
  <2>2. Cardinality(Y) = Cardinality(X) + 1 /\ IsFiniteSet(Y)
    BY <1>3, <2>1, FS_AddElement
  <2> QED BY <1>1, <1>3, <2>2, FS_CardinalityType DEF Has
<1>4. CASE x \in X <=> x \in Y
  <2>1. X = Y
    BY <1>4
  <2> QED BY <1>1, <1>4, <2>1 DEF Has
<1> QED BY <1>2, <1>3, <1>4

One(l, labels) == IF l \in labels THEN 1 ELSE 0

\* What the sums are made of.
LEMMA FastNumbers ==
  ASSUME FastInv
  PROVE  \E d, rest, n, c, s, o, u \in Nat :
           /\ n = Cardinality(FredsAt(Notifying)) /\ c = Cardinality(FredsAt({"count"}))
           /\ s = Cardinality(FredsAt({"subtract"})) /\ o = Cardinality(Popped) /\ u = Cardinality(Told)
           /\ rest < target /\ entries = target * (d + n) + rest + c /\ counter = target * s + rest
           /\ returns + o = target * d + woken /\ specials + u = d + RoundTold
<1>1. IsFiniteSet(InFast)
  BY DEF FastInv, FastCounts
<1>2. /\ FredsAt(Notifying) \subseteq InFast /\ FredsAt({"count"}) \subseteq InFast
      /\ FredsAt({"subtract"}) \subseteq InFast /\ Popped \subseteq InFast /\ Told \subseteq InFast
  BY DEF FredsAt, InFast, Notifying, Popped, Told
<1>3. \A X : X \subseteq InFast => Cardinality(X) \in Nat
  BY <1>1, FS_Subset, FS_CardinalityType
<1>4. PICK n, c, s, o, u \in Nat :
         /\ n = Cardinality(FredsAt(Notifying)) /\ c = Cardinality(FredsAt({"count"}))
         /\ s = Cardinality(FredsAt({"subtract"})) /\ o = Cardinality(Popped) /\ u = Cardinality(Told)
  BY <1>2, <1>3
<1>5. PICK d \in Nat, rest \in Nat : FastSums(d, rest)
  BY DEF FastInv, FastCounts
<1>6. /\ rest < target /\ entries = target * (d + n) + rest + c /\ counter = target * s + rest
      /\ returns + o = target * d + woken /\ specials + u = d + RoundTold
  BY <1>4, <1>5 DEF FastSums
<1> QED BY <1>4, <1>6

\* A fred goes to another place of wait().
LEMMA FredsMove ==
  ASSUME FastInv, NEW f \in Freds, NEW l, pc' = [pc EXCEPT ![f] = l], NEW labels, "idle" \notin labels
  PROVE  Cardinality(FredsAt(labels)') = Cardinality(FredsAt(labels)) + One(l, labels) - One(pc[f], labels)
<1>1. IsFiniteSet(FredsAt(labels))
  <2>1. FredsAt(labels) \subseteq InFast
    BY DEF FredsAt, InFast
  <2> QED BY <2>1, FS_Subset DEF FastInv, FastCounts
<1>2. pc'[f] = l /\ \A g \in Freds : g # f => pc'[g] = pc[g]
  BY DEF FastInv, FastTypes
<1>3. PICK X, Y : X = FredsAt(labels) /\ Y = FredsAt(labels)'
  OBVIOUS
<1>4. \A g : g # f => (g \in X <=> g \in Y)
  BY <1>2, <1>3 DEF FredsAt
<1>5. Has(f, X) = One(pc[f], labels) /\ Has(f, Y) = One(l, labels)
  BY <1>2, <1>3 DEF Has, One, FredsAt
<1>6. Cardinality(Y) = Cardinality(X) + Has(f, Y) - Has(f, X)
  BY <1>1, <1>3, <1>4, SetMoves
<1> QED BY <1>3, <1>5, <1>6

LEMMA PlacesMove ==
  ASSUME FastInv, NEW f \in Freds, NEW l, pc' = [pc EXCEPT ![f] = l]
  PROVE  /\ Cardinality(FredsAt(Notifying)')
              = Cardinality(FredsAt(Notifying)) + One(l, Notifying) - One(pc[f], Notifying)
         /\ Cardinality(FredsAt({"count"})')
              = Cardinality(FredsAt({"count"})) + One(l, {"count"}) - One(pc[f], {"count"})
         /\ Cardinality(FredsAt({"subtract"})')
              = Cardinality(FredsAt({"subtract"})) + One(l, {"subtract"}) - One(pc[f], {"subtract"})
<1>1. "idle" \notin Notifying /\ "idle" \notin {"count"} /\ "idle" \notin {"subtract"}
  BY DEF Notifying
<1> QED BY <1>1, FredsMove

LEMMA Products == \A a, b \in Nat : a * b \in Nat /\ a * (b + 1) = a * b + a
  OBVIOUS

LEMMA InFastFinite ==
  ASSUME FastInv, NEW f \in Freds, NEW l, pc' = [pc EXCEPT ![f] = l]
  PROVE  IsFiniteSet(InFast') /\ \A X : X \subseteq InFast => IsFiniteSet(X)
<1>1. InFast' \subseteq InFast \cup {f} /\ IsFiniteSet(InFast)
  BY DEF InFast, FastInv, FastTypes, FastCounts
<1>2. IsFiniteSet(InFast \cup {f})
  BY <1>1, FS_AddElement
<1> QED BY <1>1, <1>2, FS_Subset

\* A step that only changes where freds are in suspend() or the notifier's loop.
LEMMA FastCountsSame ==
  ASSUME FastInv, NEW f \in Freds, NEW l, pc' = [pc EXCEPT ![f] = l],
         pc[f] # "idle", l # "idle", \A labels \in {Notifying, {"count"}, {"subtract"}} : l \in labels <=> pc[f] \in labels,
         UNCHANGED <<target, counter, queue, woken, entries, returns, specials, resumeInfo>>,
         RoundTold' = RoundTold
  PROVE  FastCounts'
<1>1. pc'[f] = l /\ \A g \in Freds : g # f => pc'[g] = pc[g]
  BY DEF FastInv, FastTypes
<1>2. InFast' = InFast
  BY <1>1 DEF InFast
<1>3. Popped' = Popped /\ Told' = Told
  BY <1>2 DEF Popped, Told
<1>4. ASSUME NEW labels \in {Notifying, {"count"}, {"subtract"}} PROVE FredsAt(labels)' = FredsAt(labels)
  BY <1>1 DEF FredsAt
<1>5. /\ FredsAt(Notifying)' = FredsAt(Notifying) /\ FredsAt({"count"})' = FredsAt({"count"})
      /\ FredsAt({"subtract"})' = FredsAt({"subtract"})
  BY <1>4
<1>6. PICK d \in Nat, rest \in Nat : FastSums(d, rest)
  BY DEF FastInv, FastCounts
<1>7. FastSums(d, rest)'
  BY <1>3, <1>5, <1>6 DEF FastSums
<1>8. IsFiniteSet(InFast')
  BY <1>2 DEF FastInv, FastCounts
<1> QED BY <1>7, <1>8 DEF FastCounts

LEMMA FastStepInv ==
  ASSUME FastInv, NEW f \in Freds, FredStep(f), UNCHANGED barrierVars
  PROVE  FastInv'
<1>1. /\ UNCHANGED <<resumeInfo, pending>>
      /\ UNCHANGED <<target, counter, queue, notifier, woken, park, entries, returns, specials>>
      /\ \/ /\ pc[f] = "suspend" /\ runState[f] = 2 /\ runState' = [runState EXCEPT ![f] = 1]
            /\ pc' = [pc EXCEPT ![f] = "resumed"] /\ readyLinks' = readyLinks
         \/ /\ pc[f] = "suspend" /\ runState[f] # 2 /\ pc' = [pc EXCEPT ![f] = "switch"]
            /\ UNCHANGED <<runState, readyLinks>>
         \/ /\ pc[f] = "switch" /\ pc' = [pc EXCEPT ![f] = "off"]
            /\ runState' = [runState EXCEPT ![f] = @ - 1]
            /\ readyLinks' = IF runState[f] = 2 THEN [readyLinks EXCEPT ![f] = @ + 1] ELSE readyLinks
         \/ /\ pc[f] = "off" /\ readyLinks[f] > 0 /\ pc' = [pc EXCEPT ![f] = "resumed"]
            /\ readyLinks' = [readyLinks EXCEPT ![f] = @ - 1] /\ runState' = runState
  BY DEF FredStep, SuspendSkip, SuspendInternal, PostSuspend, Dispatch, ResumeInternal, barrierVars,
     ResumedEarly, Running
<1>2. PICK l \in {"switch", "off", "resumed"} : pc' = [pc EXCEPT ![f] = l]
  BY <1>1
<1>3. pc[f] \in {"suspend", "switch", "off"}
  BY <1>1
<1>4. pc'[f] = l /\ \A g \in Freds : g # f => pc'[g] = pc[g]
  BY <1>2 DEF FastInv, FastTypes
<1>5. \A g \in Freds : Promised(g)' <=> Promised(g)
  BY <1>1, <1>3, <1>4 DEF Promised
<1>6. FastTypes'
  <2>0. /\ pc \in [Freds -> FastLabels]
        /\ runState \in [Freds -> 0 .. 2] /\ readyLinks \in [Freds -> 0 .. 1]
    BY DEF FastInv, FastTypes
  <2>1. pc[f] = "switch" => runState[f] - 1 \in 0 .. 2 /\ readyLinks[f] + 1 \in 0 .. 1
    BY DEF FastInv, FastFreds
  <2>2. readyLinks[f] > 0 => readyLinks[f] - 1 \in 0 .. 1
    BY <2>0
  <2>3. pc' \in [Freds -> FastLabels]
    BY <1>2, <2>0 DEF FastLabels
  <2>4. runState' \in [Freds -> 0 .. 2]
    <3>1. \/ runState' = runState \/ runState' = [runState EXCEPT ![f] = 1]
          \/ pc[f] = "switch" /\ runState' = [runState EXCEPT ![f] = runState[f] - 1]
      BY <1>1
    <3>2. 1 \in 0 .. 2
      OBVIOUS
    <3> QED BY <2>0, <2>1, <3>1, <3>2
  <2>5. readyLinks' \in [Freds -> 0 .. 1]
    <3>1. \/ readyLinks' = readyLinks
          \/ pc[f] = "switch" /\ readyLinks' = [readyLinks EXCEPT ![f] = readyLinks[f] + 1]
          \/ readyLinks[f] > 0 /\ readyLinks' = [readyLinks EXCEPT ![f] = readyLinks[f] - 1]
      BY <1>1
    <3> QED BY <2>0, <2>1, <2>2, <3>1
  <2> QED BY <1>1, <2>3, <2>4, <2>5 DEF FastInv, FastTypes
<1>7. FastNotifier'
  BY <1>1, <1>3, <1>4 DEF FastInv, FastNotifier
<1>8. FastFreds'
  <2>1. ASSUME NEW g \in Freds, g # f
        PROVE  /\ pc'[g] = pc[g] /\ runState'[g] = runState[g] /\ readyLinks'[g] = readyLinks[g]
    BY <1>1, <1>4, <2>1 DEF FastInv, FastTypes
  <2>2. /\ pc'[f] \in {"resumed"} => runState'[f] = 1 /\ readyLinks'[f] = 0 /\ ~Promised(f)
        /\ pc'[f] = "switch" => readyLinks'[f] = 0 /\ runState'[f] = IF Promised(f) THEN 1 ELSE 2
        /\ pc'[f] = "off" => IF Promised(f) THEN runState'[f] = 0 /\ readyLinks'[f] = 0
                                            ELSE runState'[f] = 1 /\ readyLinks'[f] = 1
    BY <1>1 DEF FastInv, FastTypes, FastFreds
  <2>3. \A g \in Freds : Contains(queue, g)' <=> Contains(queue, g)
    BY <1>1
  <2>4. \A r \in Freds : pc'[r] = "wake" <=> pc[r] = "wake"
    BY <1>3, <1>4
  <2>5. \A g \in Freds : pc'[g] \in {"loop", "wake"} <=> pc[g] \in {"loop", "wake"}
    BY <1>3, <1>4
  <2>6. FastFreds
    BY DEF FastInv
  <2> QED BY <1>1, <1>4, <1>5, <2>1, <2>2, <2>3, <2>4, <2>5, <2>6 DEF FastFreds
<1>9. FastCounts'
  <2>1. RoundTold' = RoundTold
    BY <1>1 DEF RoundTold
  <2>2. \A labels \in {Notifying, {"count"}, {"subtract"}} : l \in labels <=> pc[f] \in labels
    BY <1>3 DEF Notifying
  <2> QED BY <1>1, <1>2, <1>3, <2>1, <2>2, FastCountsSame
<1> QED BY <1>6, <1>7, <1>8, <1>9 DEF FastInv

LEMMA WaitResumeInv ==
  ASSUME FastInv, NEW f \in Freds, WaitResume(f)
  PROVE  FastInv'
<1>0. PICK g : g = pending[f]
  OBVIOUS
<1>1. /\ g # Null /\ pc[f] = "wake" /\ pc' = [pc EXCEPT ![f] = "loop"]
      /\ runState' = [runState EXCEPT ![g] = @ + 1]
      /\ readyLinks' = IF runState[g] = 0 THEN [readyLinks EXCEPT ![g] = @ + 1] ELSE readyLinks
      /\ pending' = [pending EXCEPT ![f] = Null]
      /\ UNCHANGED <<resumeInfo, target, counter, queue, notifier, woken, park, entries, returns, specials>>
  BY <1>0 DEF WaitResume, Resume, Go, ResumeInternal, barrierVars, Parked
<1>2. g \in Freds /\ g # f /\ notifier = f /\ pc[g] \notin {"loop", "wake"}
  BY <1>0, <1>1 DEF FastInv, FastTypes, FastNotifier, Resumers
<1>3. pc'[f] = "loop" /\ \A h \in Freds : h # f => pc'[h] = pc[h] /\ pc[h] \notin {"loop", "wake"}
  BY <1>1, <1>2 DEF FastInv, FastTypes, FastNotifier
<1>4. pending'[f] = Null /\ \A h \in Freds : h # f => pending'[h] = pending[h]
  BY <1>1 DEF FastInv, FastTypes, Resumers
<1>5. Promised(g) /\ ~Contains(queue, g)
  BY <1>0, <1>1, <1>2 DEF Promised, FastInv, FastFreds
<1>6. ~Promised(g)' /\ \A h \in Freds : h # g => (Promised(h)' <=> Promised(h))
  <2>1. \A h : Contains(queue, h)' <=> Contains(queue, h)
    BY <1>1
  <2>2. ~Promised(g)'
    BY <1>2, <1>3, <1>5, <2>1 DEF Promised
  <2>3. ASSUME NEW h \in Freds, h # g PROVE Promised(h)' <=> Promised(h)
    <3>1. /\ ~ \E r \in Freds : pc[r] = "wake" /\ pending[r] = h
          /\ ~ \E r \in Freds : pc'[r] = "wake" /\ pending'[r] = h
      BY <1>0, <1>3, <2>3
    <3>2. pc'[h] \in {"loop", "wake"} <=> pc[h] \in {"loop", "wake"}
      BY <1>1, <1>3
    <3> QED BY <1>1, <2>1, <3>1, <3>2 DEF Promised
  <2> QED BY <2>2, <2>3
<1>7. \/ pc[g] \in {"count", "subtract", "lock", "suspend", "switch"} /\ runState[g] = 1 /\ readyLinks[g] = 0
      \/ pc[g] = "off" /\ runState[g] = 0 /\ readyLinks[g] = 0
  <2>1. pc[g] \in FastLabels /\ FastFreds
    BY <1>2 DEF FastInv, FastTypes
  <2>2. pc[g] \notin {"idle", "resumed"}
    BY <1>2, <1>5, <2>1 DEF FastFreds
  <2>3. pc[g] \in {"count", "subtract", "lock", "suspend", "switch", "off"}
    BY <1>2, <2>1, <2>2 DEF FastLabels
  <2>4. CASE pc[g] = "off"
    BY <1>2, <1>5, <2>1, <2>4 DEF FastFreds
  <2>5. CASE pc[g] # "off"
    <3>1. pc[g] \in {"count", "subtract", "lock", "suspend", "switch"}
      BY <2>3, <2>5
    <3>2. readyLinks[g] = 0 /\ runState[g] = IF Promised(g) THEN 1 ELSE 2
      BY <1>2, <2>1, <3>1 DEF FastFreds
    <3> QED BY <1>5, <3>1, <3>2
  <2> QED BY <2>4, <2>5
<1>8. /\ runState'[g] = runState[g] + 1 /\ readyLinks'[g] = (IF runState[g] = 0 THEN 1 ELSE 0)
      /\ \A h \in Freds : h # g => runState'[h] = runState[h] /\ readyLinks'[h] = readyLinks[h]
  BY <1>1, <1>2, <1>7 DEF FastInv, FastTypes
<1>9. FastTypes'
  <2>1. runState' \in [Freds -> 0 .. 2] /\ readyLinks' \in [Freds -> 0 .. 1]
    BY <1>1, <1>2, <1>7 DEF FastInv, FastTypes
  <2>2. pc' \in [Freds -> FastLabels] /\ pending' \in [Resumers -> Freds \cup {Null}]
    BY <1>1 DEF FastInv, FastTypes, FastLabels
  <2> QED BY <1>1, <2>1, <2>2 DEF FastInv, FastTypes
<1>10. FastNotifier'
  <2>1. FastNotifier
    BY DEF FastInv
  <2>2. \A h \in Freds : pc'[h] \in {"loop", "wake"} <=> notifier' = h
    BY <1>1, <1>2, <1>3
  <2>3. \A h \in Freds : /\ pc'[h] \in {"subtract", "lock"} => park'[h]
                         /\ pc'[h] = "wake" <=> pending'[h] # Null
                         /\ pending'[h] # h
    BY <1>1, <1>3, <1>4, <2>1, FredAssumption DEF FastNotifier
  <2> QED BY <1>1, <2>1, <2>2, <2>3 DEF FastNotifier
<1>11. FastFreds'
  <2>1. \A h : Contains(queue, h)' <=> Contains(queue, h)
    BY <1>1
  <2>2. FastFreds
    BY DEF FastInv
  <2>3. ASSUME NEW h \in Freds, h # g, h # f
        PROVE  /\ pc'[h] = pc[h] /\ runState'[h] = runState[h] /\ readyLinks'[h] = readyLinks[h]
               /\ Promised(h)' <=> Promised(h)
    BY <1>3, <1>6, <1>8, <2>3
  <2>4. pc'[f] = "loop" /\ runState'[f] = runState[f] /\ readyLinks'[f] = 0 /\ (Promised(f)' <=> Promised(f))
        /\ runState[f] = IF Promised(f) THEN 1 ELSE 2
    BY <1>1, <1>2, <1>3, <1>6, <1>8, <2>2 DEF FastFreds
  <2>5. /\ pc'[g] = pc[g] /\ pc'[g] \in {"count", "subtract", "lock", "suspend", "switch"} => runState'[g] = 2 /\ readyLinks'[g] = 0
        /\ pc'[g] = "off" => runState'[g] = 1 /\ readyLinks'[g] = 1
        /\ pc'[g] \in {"count", "subtract", "lock", "suspend", "switch", "off"}
    BY <1>2, <1>3, <1>7, <1>8
  <2>6. \A r \in Freds : pc'[r] # "wake"
    BY <1>3
  <2> QED BY <1>1, <1>5, <1>6, <2>1, <2>2, <2>3, <2>4, <2>5, <2>6 DEF FastFreds
<1>12. FastCounts'
  <2>1. RoundTold' = RoundTold
    BY <1>1 DEF RoundTold
  <2>2. \A labels \in {Notifying, {"count"}, {"subtract"}} : "loop" \in labels <=> pc[f] \in labels
    BY <1>1 DEF Notifying
  <2> QED BY <1>1, <2>1, <2>2, FastCountsSame
<1> QED BY <1>9, <1>10, <1>11, <1>12 DEF FastInv

LEMMA WaitPushInv ==
  ASSUME FastInv, NEW f \in Freds, WaitPush(f)
  PROVE  FastInv'
<1>1. /\ pc[f] = "idle" /\ pc' = [pc EXCEPT ![f] = "count"] /\ resumeInfo' = [resumeInfo EXCEPT ![f] = Null]
      /\ queue' = Append(queue, f) /\ entries' = entries + 1
      /\ UNCHANGED <<runState, readyLinks, pending, target, counter, notifier, woken, park, returns, specials>>
  BY DEF WaitPush, Go, PrepareResumeRace
<1>2. runState[f] = 1 /\ readyLinks[f] = 0 /\ ~Promised(f) /\ ~Contains(queue, f)
  BY <1>1 DEF FastInv, FastFreds, Promised
<1>3. pc'[f] = "count" /\ \A g \in Freds : g # f => pc'[g] = pc[g]
  BY <1>1 DEF FastInv, FastTypes
<1>4. /\ queue' \in Seq(Freds) /\ IsInjective(queue')
      /\ \A g : Contains(queue, g)' <=> Contains(queue, g) \/ g = f
  <2>1. queue \in Seq(Freds) /\ IsInjective(queue)
    BY DEF FastInv, FastTypes
  <2> QED BY <1>1, <1>2, <2>1, AppendDistinct
<1>5. resumeInfo'[f] = Null /\ \A g \in Freds : g # f => resumeInfo'[g] = resumeInfo[g]
  BY <1>1 DEF FastInv, FastTypes
<1>6. Promised(f)' /\ \A g \in Freds : g # f => (Promised(g)' <=> Promised(g))
  <2>1. \A r \in Freds : pc'[r] = "wake" <=> pc[r] = "wake"
    BY <1>1, <1>3
  <2> QED BY <1>1, <1>3, <1>4, <2>1 DEF Promised
<1>7. FastTypes'
  BY <1>1, <1>4 DEF FastInv, FastTypes, FastLabels
<1>8. FastNotifier'
  BY <1>1, <1>3 DEF FastInv, FastNotifier
<1>9. FastFreds'
  <2>1. FastFreds
    BY DEF FastInv
  <2>2. \A r \in Freds : pc'[r] = "wake" => pc[r] = "wake" /\ pending[r] # f
    BY <1>1, <1>2, <1>3 DEF Promised
  <2> QED BY <1>1, <1>2, <1>3, <1>4, <1>5, <1>6, <2>1, <2>2 DEF FastFreds
<1>10. FastCounts'
  <2>1. PICK d \in Nat, rest \in Nat, n \in Nat, c \in Nat, s \in Nat, o \in Nat, u \in Nat :
           /\ n = Cardinality(FredsAt(Notifying)) /\ c = Cardinality(FredsAt({"count"}))
           /\ s = Cardinality(FredsAt({"subtract"})) /\ o = Cardinality(Popped) /\ u = Cardinality(Told)
           /\ rest < target /\ entries = target * (d + n) + rest + c /\ counter = target * s + rest
           /\ returns + o = target * d + woken /\ specials + u = d + RoundTold
    BY FastNumbers
  <2>2. /\ Cardinality(FredsAt(Notifying)') = n /\ Cardinality(FredsAt({"count"})') = c + 1
        /\ Cardinality(FredsAt({"subtract"})') = s
    <3>1. /\ Cardinality(FredsAt(Notifying)') = n + One("count", Notifying) - One("idle", Notifying)
          /\ Cardinality(FredsAt({"count"})') = c + One("count", {"count"}) - One("idle", {"count"})
          /\ Cardinality(FredsAt({"subtract"})') = s + One("count", {"subtract"}) - One("idle", {"subtract"})
      BY <1>1, <2>1, PlacesMove
    <3> QED BY <2>1, <3>1 DEF One, Notifying
  <2>3. Popped' = Popped
    BY <1>1, <1>3, <1>4 DEF Popped, InFast
  <2>4. Told' = Told
    BY <1>1, <1>3, <1>5 DEF Told, InFast
  <2>5. RoundTold' = RoundTold
    BY <1>1 DEF RoundTold
  <2>6. target * (d + n) + rest + (c + 1) = entries'
    <3>1. PICK p \in Nat : p = target * (d + n)
      <4>1. target \in Nat /\ d + n \in Nat
        BY DEF FastInv, FastTypes
      <4> QED BY <4>1, Products
    <3>2. entries = p + rest + c /\ entries' = entries + 1
      BY <1>1, <2>1, <3>1
    <3>3. p + rest + (c + 1) = entries'
      BY <3>2
    <3> QED BY <3>1, <3>3
  <2>7. FastSums(d, rest)'
    BY <1>1, <2>1, <2>2, <2>3, <2>4, <2>5, <2>6 DEF FastSums
  <2> QED BY <1>1, <2>7, InFastFinite DEF FastCounts
<1> QED BY <1>7, <1>8, <1>9, <1>10 DEF FastInv

\* A step that moves one fred, not into the loop or out of it, and leaves the
\* queue, the races and the run states alone.
LEMMA FastMoves ==
  ASSUME FastInv, NEW f \in Freds, NEW l \in {"suspend", "subtract", "lock"}, pc' = [pc EXCEPT ![f] = l],
         pc[f] \in {"count", "subtract"}, UNCHANGED <<runState, readyLinks, resumeInfo, pending, queue>>
  PROVE  /\ pc'[f] = l /\ \A g \in Freds : g # f => pc'[g] = pc[g]
         /\ Popped' = Popped /\ Told' = Told
         /\ (\A g \in Freds : g # f => park'[g] = park[g]) => FastFreds'
<1>1. pc'[f] = l /\ \A g \in Freds : g # f => pc'[g] = pc[g]
  BY DEF FastInv, FastTypes
<1>2. InFast' = InFast
  BY <1>1 DEF InFast
<1>3. Popped' = Popped /\ Told' = Told
  BY <1>2 DEF Popped, Told
<1>4. ASSUME \A g \in Freds : g # f => park'[g] = park[g] PROVE FastFreds'
  <2>1. \A g \in Freds : Promised(g)' <=> Promised(g)
    <3>1. \A r \in Freds : pc'[r] = "wake" <=> pc[r] = "wake"
      BY <1>1
    <3>2. \A g \in Freds : pc'[g] \in {"loop", "wake"} /\ ~park'[g] <=> pc[g] \in {"loop", "wake"} /\ ~park[g]
      BY <1>1, <1>4
    <3> QED BY <3>1, <3>2 DEF Promised
  <2>2. FastFreds
    BY DEF FastInv
  <2>3. \A g \in Freds : Contains(queue, g)' <=> Contains(queue, g)
    OBVIOUS
  <2>4. ASSUME NEW g \in Freds, g # f
        PROVE  pc'[g] = pc[g] /\ park'[g] = park[g] /\ (Promised(g)' <=> Promised(g))
    BY <1>1, <1>4, <2>1, <2>4
  <2>5. readyLinks[f] = 0 /\ runState[f] = IF Promised(f) THEN 1 ELSE 2
    BY <2>2 DEF FastFreds
  <2>6. \A r \in Freds : pc'[r] = "wake" => pc[r] = "wake"
    BY <1>1
  <2> QED BY <1>1, <2>1, <2>2, <2>3, <2>4, <2>5, <2>6 DEF FastFreds
<1> QED BY <1>1, <1>3, <1>4

\* The count of a fred completes a group exactly when the rest does.
LEMMA Completes ==
  ASSUME NEW t \in Nat \ {0}, NEW s \in Nat, NEW r \in Nat, r < t
  PROVE  (t * s + r + 1) % t = 0 <=> r + 1 = t
<1>1. CASE r + 1 = t
  <2>1. t * s + r + 1 = t * (s + 1) + 0 /\ s + 1 \in Nat
    BY <1>1, Products
  <2>2. (t * (s + 1) + 0) % t = 0
    BY <2>1
  <2> QED BY <1>1, <2>1, <2>2
<1>2. CASE r + 1 < t
  <2>1. r + 1 \in 0 .. t - 1 /\ t * s + r + 1 = t * s + (r + 1)
    BY <1>2, Products
  <2>2. (t * s + (r + 1)) % t = r + 1
    BY <2>1
  <2> QED BY <1>2, <2>1, <2>2
<1> QED BY <1>1, <1>2

LEMMA WaitCountInv ==
  ASSUME FastInv, NEW f \in Freds, WaitCount(f)
  PROVE  FastInv'
<1>1. /\ pc[f] = "count" /\ counter' = counter + 1 /\ park' = [park EXCEPT ![f] = TRUE]
      /\ \/ (counter + 1) % target # 0 /\ pc' = [pc EXCEPT ![f] = "suspend"]
         \/ (counter + 1) % target = 0 /\ pc' = [pc EXCEPT ![f] = "subtract"]
      /\ UNCHANGED <<runState, resumeInfo, readyLinks, pending>>
      /\ UNCHANGED <<target, queue, notifier, woken, entries, returns, specials>>
  BY DEF WaitCount, Go, raceVars
<1>2. PICK l \in {"suspend", "subtract", "lock"} : pc' = [pc EXCEPT ![f] = l]
  BY <1>1
<1>3. park'[f] /\ \A g \in Freds : g # f => park'[g] = park[g]
  BY <1>1 DEF FastInv, FastTypes
<1>4. pc'[f] = l /\ (\A g \in Freds : g # f => pc'[g] = pc[g]) /\ Popped' = Popped /\ Told' = Told /\ FastFreds'
  BY <1>1, <1>2, <1>3, FastMoves
<1>5. FastTypes'
  BY <1>1 DEF FastInv, FastTypes, FastLabels
<1>6. FastNotifier'
  BY <1>1, <1>2, <1>3, <1>4 DEF FastInv, FastNotifier
<1>7. FastCounts'
  <2>1. PICK d \in Nat, rest \in Nat, n \in Nat, c \in Nat, s \in Nat, o \in Nat, u \in Nat :
           /\ n = Cardinality(FredsAt(Notifying)) /\ c = Cardinality(FredsAt({"count"}))
           /\ s = Cardinality(FredsAt({"subtract"})) /\ o = Cardinality(Popped) /\ u = Cardinality(Told)
           /\ rest < target /\ entries = target * (d + n) + rest + c /\ counter = target * s + rest
           /\ returns + o = target * d + woken /\ specials + u = d + RoundTold
    BY FastNumbers
  <2>2. RoundTold' = RoundTold
    <3>1. notifier # f
      BY <1>1 DEF FastInv, FastNotifier
    <3>2. notifier \in Freds => park'[notifier] = park[notifier]
      BY <1>3, <3>1
    <3>3. notifier # Null => notifier \in Freds
      BY DEF FastInv, FastNotifier
    <3> QED BY <1>1, <3>2, <3>3 DEF RoundTold
  <2>3. target \in Nat \ {0}
    BY DEF FastInv, FastTypes
  <2>4. PICK p \in Nat, q \in Nat : p = target * (d + n) /\ q = target * s
    BY <2>3, Products
  <2>5. entries = p + rest + c /\ counter = q + rest
    BY <2>1, <2>4
  <2>6. (counter + 1) % target = 0 <=> rest + 1 = target
    <3>1. counter + 1 = target * s + rest + 1
      BY <2>1
    <3> QED BY <2>1, <2>3, <3>1, Completes
  <2>7. CASE rest + 1 # target
    <3>1. pc' = [pc EXCEPT ![f] = "suspend"]
      BY <1>1, <2>6, <2>7
    <3>2. /\ Cardinality(FredsAt(Notifying)') = n + One("suspend", Notifying) - One("count", Notifying)
          /\ Cardinality(FredsAt({"count"})') = c + One("suspend", {"count"}) - One("count", {"count"})
          /\ Cardinality(FredsAt({"subtract"})') = s + One("suspend", {"subtract"}) - One("count", {"subtract"})
      BY <1>1, <2>1, <3>1, PlacesMove
    <3>3. /\ Cardinality(FredsAt(Notifying)') = n /\ Cardinality(FredsAt({"count"})') = c - 1
          /\ Cardinality(FredsAt({"subtract"})') = s
      BY <2>1, <3>2 DEF One, Notifying
    <3>4. /\ rest + 1 < target' /\ entries' = target' * (d + n) + (rest + 1) + (c - 1)
          /\ counter' = target' * s + (rest + 1)
      <4>1. /\ rest + 1 < target /\ entries = p + (rest + 1) + (c - 1)
            /\ counter + 1 = q + (rest + 1)
        BY <2>1, <2>3, <2>5, <2>7
      <4> QED BY <1>1, <2>4, <4>1
    <3>5. rest + 1 \in Nat /\ FastSums(d, rest + 1)'
      BY <1>1, <1>4, <2>1, <2>2, <3>3, <3>4 DEF FastSums
    <3> QED BY <2>1, <1>2, <3>5, InFastFinite DEF FastCounts
  <2>8. CASE rest + 1 = target
    <3>1. pc' = [pc EXCEPT ![f] = "subtract"]
      BY <1>1, <2>6, <2>8
    <3>2. /\ Cardinality(FredsAt(Notifying)') = n + One("subtract", Notifying) - One("count", Notifying)
          /\ Cardinality(FredsAt({"count"})') = c + One("subtract", {"count"}) - One("count", {"count"})
          /\ Cardinality(FredsAt({"subtract"})') = s + One("subtract", {"subtract"}) - One("count", {"subtract"})
      BY <1>1, <2>1, <3>1, PlacesMove
    <3>3. /\ Cardinality(FredsAt(Notifying)') = n + 1 /\ Cardinality(FredsAt({"count"})') = c - 1
          /\ Cardinality(FredsAt({"subtract"})') = s + 1
      BY <2>1, <3>2 DEF One, Notifying
    <3>4. /\ 0 < target' /\ entries' = target' * (d + (n + 1)) + 0 + (c - 1)
          /\ counter' = target' * (s + 1) + 0
      <4>1. target * ((d + n) + 1) = p + target /\ target * (s + 1) = q + target
        BY <2>3, <2>4, Products
      <4>2. d + (n + 1) = (d + n) + 1
        OBVIOUS
      <4>3. entries = (p + target) + 0 + (c - 1) /\ counter + 1 = (q + target) + 0 /\ 0 < target
        BY <2>3, <2>5, <2>8
      <4> QED BY <1>1, <4>1, <4>2, <4>3
    <3>5. PICK none \in Nat : none = 0
      OBVIOUS
    <3>6. FastSums(d, none)'
      BY <1>1, <1>4, <2>1, <2>2, <3>3, <3>4, <3>5 DEF FastSums
    <3> QED BY <2>1, <1>2, <3>6, InFastFinite DEF FastCounts
  <2> QED BY <2>7, <2>8
<1> QED BY <1>4, <1>5, <1>6, <1>7 DEF FastInv

LEMMA WaitSubtractInv ==
  ASSUME FastInv, NEW f \in Freds, WaitSubtract(f)
  PROVE  FastInv'
<1>1. /\ pc[f] = "subtract" /\ counter' = counter - target /\ pc' = [pc EXCEPT ![f] = "lock"]
      /\ UNCHANGED <<runState, resumeInfo, readyLinks, pending>>
      /\ UNCHANGED <<target, queue, notifier, woken, park, entries, returns, specials>>
  BY DEF WaitSubtract, Go, raceVars
<1>2. pc'[f] = "lock" /\ (\A g \in Freds : g # f => pc'[g] = pc[g]) /\ Popped' = Popped /\ Told' = Told /\ FastFreds'
  BY <1>1, FastMoves
<1>3. FastNotifier'
  BY <1>1, <1>2 DEF FastInv, FastNotifier
<1>4. PICK d \in Nat, rest \in Nat, n \in Nat, c \in Nat, s \in Nat, o \in Nat, u \in Nat :
         /\ n = Cardinality(FredsAt(Notifying)) /\ c = Cardinality(FredsAt({"count"}))
         /\ s = Cardinality(FredsAt({"subtract"})) /\ o = Cardinality(Popped) /\ u = Cardinality(Told)
         /\ rest < target /\ entries = target * (d + n) + rest + c /\ counter = target * s + rest
         /\ returns + o = target * d + woken /\ specials + u = d + RoundTold
  BY FastNumbers
<1>5. /\ Cardinality(FredsAt(Notifying)') = n + One("lock", Notifying) - One("subtract", Notifying)
      /\ Cardinality(FredsAt({"count"})') = c + One("lock", {"count"}) - One("subtract", {"count"})
      /\ Cardinality(FredsAt({"subtract"})') = s + One("lock", {"subtract"}) - One("subtract", {"subtract"})
  BY <1>1, <1>4, PlacesMove
<1>6. /\ Cardinality(FredsAt(Notifying)') = n /\ Cardinality(FredsAt({"count"})') = c
      /\ Cardinality(FredsAt({"subtract"})') = s - 1
  BY <1>4, <1>5 DEF One, Notifying
<1>7. target \in Nat \ {0} /\ s - 1 \in Nat
  <2>1. IsFiniteSet(FredsAt({"subtract"})')
    <3>1. FredsAt({"subtract"})' \subseteq InFast'
      BY <1>1, <1>2 DEF FredsAt, InFast
    <3> QED BY <1>1, <3>1, InFastFinite, FS_Subset
  <2> QED BY <1>6, <2>1, FS_CardinalityType DEF FastInv, FastTypes
<1>8. counter' = target * (s - 1) + rest /\ counter' \in Nat
  <2>1. PICK r \in Nat, q \in Nat : r = s - 1 /\ q = target * r
    BY <1>7, Products
  <2>2. target * (r + 1) = q + target /\ s = r + 1
    BY <1>7, <2>1, Products
  <2>3. counter = q + target + rest
    BY <1>4, <2>2
  <2>4. counter - target = q + rest
    BY <1>7, <2>3
  <2> QED BY <1>1, <2>1, <2>4
<1>9. FastTypes'
  BY <1>1, <1>8 DEF FastInv, FastTypes, FastLabels
<1>10. FastCounts'
  <2>1. RoundTold' = RoundTold
    BY <1>1 DEF RoundTold
  <2>2. FastSums(d, rest)'
    BY <1>1, <1>2, <1>4, <1>6, <1>8, <2>1 DEF FastSums
  <2> QED BY <1>1, <2>2, InFastFinite DEF FastCounts
<1> QED BY <1>2, <1>3, <1>9, <1>10 DEF FastInv

LEMMA WaitLockInv ==
  ASSUME FastInv, NEW f \in Freds, WaitLock(f)
  PROVE  FastInv'
<1>1. /\ notifier = Null /\ pc[f] = "lock" /\ pc' = [pc EXCEPT ![f] = "loop"] /\ notifier' = f /\ woken' = 0
      /\ UNCHANGED <<runState, resumeInfo, readyLinks, pending>>
      /\ UNCHANGED <<target, counter, queue, park, entries, returns, specials>>
  BY DEF WaitLock, Go, raceVars
<1>2. /\ woken = 0 /\ target \in Nat \ {0} /\ park[f] /\ f # Null
      /\ \A g \in Freds : pc[g] \notin {"loop", "wake"}
  BY <1>1, FredAssumption DEF FastInv, FastTypes, FastNotifier
<1>3. pc'[f] = "loop" /\ \A g \in Freds : g # f => pc'[g] = pc[g]
  BY <1>1 DEF FastInv, FastTypes
<1>4. FastTypes'
  BY <1>1 DEF FastInv, FastTypes, FastLabels
<1>5. FastNotifier'
  <2>1. FastNotifier
    BY DEF FastInv
  <2>2. \A g \in Freds : pc'[g] \in {"loop", "wake"} <=> notifier' = g
    BY <1>1, <1>2, <1>3
  <2>3. \A g \in Freds : /\ pc'[g] \in {"subtract", "lock"} => park'[g]
                         /\ pc'[g] = "wake" <=> pending'[g] # Null
                         /\ pending'[g] # g
    BY <1>1, <1>3, <2>1 DEF FastNotifier
  <2>4. woken' <= target'
    BY <1>1, <1>2
  <2> QED BY <1>1, <1>2, <2>2, <2>3, <2>4 DEF FastNotifier
<1>6. FastFreds'
  <2>1. \A g \in Freds : pc'[g] # "wake" /\ pc[g] # "wake"
    BY <1>2, <1>3
  <2>2. \A g \in Freds : ~(pc'[g] \in {"loop", "wake"} /\ ~park'[g]) /\ ~(pc[g] \in {"loop", "wake"} /\ ~park[g])
    BY <1>1, <1>2, <1>3
  <2>3. \A g \in Freds : Promised(g)' <=> Promised(g)
    BY <1>1, <2>1, <2>2 DEF Promised
  <2>4. FastFreds
    BY DEF FastInv
  <2>5. readyLinks[f] = 0 /\ runState[f] = IF Promised(f) THEN 1 ELSE 2
    BY <1>1, <2>4 DEF FastFreds
  <2> QED BY <1>1, <1>3, <2>1, <2>2, <2>3, <2>4, <2>5 DEF FastFreds
<1>7. FastCounts'
  <2>1. RoundTold' = RoundTold
    BY <1>1, <1>2 DEF RoundTold
  <2>2. \A labels \in {Notifying, {"count"}, {"subtract"}} : "loop" \in labels <=> pc[f] \in labels
    BY <1>1 DEF Notifying
  <2> QED BY <1>1, <1>2, <2>1, <2>2, FastCountsSame
<1> QED BY <1>4, <1>5, <1>6, <1>7 DEF FastInv

LEMMA WaitUnlockInv ==
  ASSUME FastInv, NEW f \in Freds, pc[f] = "loop", WaitUnlock(f)
  PROVE  FastInv'
<1>0. notifier = f /\ f # Null /\ target \in Nat \ {0}
      /\ \A g \in Freds : g # f => pc[g] \notin {"loop", "wake"}
  BY FredAssumption DEF FastInv, FastTypes, FastNotifier
<1>1. /\ woken = target /\ notifier' = Null /\ woken' = 0
      /\ \/ park[f] /\ pc' = [pc EXCEPT ![f] = "suspend"] /\ UNCHANGED <<returns, specials>>
         \/ ~park[f] /\ pc' = [pc EXCEPT ![f] = "idle"] /\ returns' = returns + 1 /\ specials' = specials + 1
      /\ UNCHANGED <<runState, resumeInfo, readyLinks, pending>>
      /\ UNCHANGED <<target, counter, queue, park, entries>>
  BY DEF WaitUnlock, Go, raceVars
<1>2. PICK l \in {"suspend", "idle"} : pc' = [pc EXCEPT ![f] = l] /\ (l = "suspend" <=> park[f])
  BY <1>1
<1>3. pc'[f] = l /\ \A g \in Freds : g # f => pc'[g] = pc[g]
  BY <1>2 DEF FastInv, FastTypes
<1>4. FastTypes'
  BY <1>1 DEF FastInv, FastTypes, FastLabels
<1>5. FastNotifier'
  <2>1. FastNotifier
    BY DEF FastInv
  <2>2. \A g \in Freds : pc'[g] \notin {"loop", "wake"} /\ notifier' # g
    BY <1>0, <1>1, <1>3, FredAssumption
  <2>3. \A g \in Freds : /\ pc'[g] \in {"subtract", "lock"} => park'[g]
                         /\ pc'[g] = "wake" <=> pending'[g] # Null
                         /\ pending'[g] # g
    BY <1>1, <1>3, <2>1 DEF FastNotifier
  <2>4. woken' <= target'
    BY <1>0, <1>1
  <2> QED BY <1>1, <2>2, <2>3, <2>4 DEF FastNotifier
<1>6. \A r \in Freds : pc'[r] # "wake" /\ pc[r] # "wake"
  BY <1>0, <1>3
<1>7. \A g \in Freds : (Promised(g)' <=> Contains(queue, g)) /\ (Promised(g) <=> Contains(queue, g) \/ (g = f /\ ~park[f]))
  BY <1>0, <1>1, <1>3, <1>6 DEF Promised
<1>8. FastFreds
  BY DEF FastInv
<1>9. /\ readyLinks[f] = 0 /\ runState[f] = (IF Promised(f) THEN 1 ELSE 2)
      /\ ~park[f] => ~Contains(queue, f) /\ resumeInfo[f] = Null
  BY <1>8 DEF FastFreds
<1>10. FastFreds'
  <2>1. \A g \in Freds : ~(pc'[g] \in {"loop", "wake"} /\ ~park'[g])
    BY <1>0, <1>2, <1>3
  <2>2. pc'[f] = "idle" => runState'[f] = 1 /\ readyLinks'[f] = 0 /\ ~Promised(f)'
    BY <1>1, <1>2, <1>3, <1>7, <1>9
  <2>3. pc'[f] = "suspend" => readyLinks'[f] = 0 /\ runState'[f] = IF Promised(f)' THEN 1 ELSE 2
    BY <1>1, <1>2, <1>3, <1>7, <1>9
  <2>4. pc'[f] = "idle" \/ pc'[f] = "suspend"
    BY <1>3
  <2>5. \A g \in Freds : g # f => pc'[g] = pc[g] /\ (Promised(g)' <=> Promised(g))
    BY <1>3, <1>7
  <2> QED BY <1>1, <1>6, <1>8, <2>1, <2>2, <2>3, <2>4, <2>5 DEF FastFreds
<1>11. FastCounts'
  <2>1. PICK d \in Nat, rest \in Nat, n \in Nat, c \in Nat, s \in Nat, o \in Nat, u \in Nat :
           /\ n = Cardinality(FredsAt(Notifying)) /\ c = Cardinality(FredsAt({"count"}))
           /\ s = Cardinality(FredsAt({"subtract"})) /\ o = Cardinality(Popped) /\ u = Cardinality(Told)
           /\ rest < target /\ entries = target * (d + n) + rest + c /\ counter = target * s + rest
           /\ returns + o = target * d + woken /\ specials + u = d + RoundTold
    BY FastNumbers
  <2>2. /\ Cardinality(FredsAt(Notifying)') = n + One(l, Notifying) - One("loop", Notifying)
        /\ Cardinality(FredsAt({"count"})') = c + One(l, {"count"}) - One("loop", {"count"})
        /\ Cardinality(FredsAt({"subtract"})') = s + One(l, {"subtract"}) - One("loop", {"subtract"})
    BY <1>2, <2>1, PlacesMove
  <2>3. /\ Cardinality(FredsAt(Notifying)') = n - 1 /\ Cardinality(FredsAt({"count"})') = c
        /\ Cardinality(FredsAt({"subtract"})') = s
    BY <2>1, <2>2 DEF One, Notifying
  <2>4. RoundTold' = 0 /\ RoundTold = IF park[f] THEN 1 ELSE 0
    BY <1>0, <1>1 DEF RoundTold
  <2>5. \A g : /\ g # f => (g \in Popped <=> g \in Popped') /\ (g \in Told <=> g \in Told')
               /\ Has(f, Told') = (IF park[f] THEN Has(f, Told) ELSE 0) /\ (~park[f] => Has(f, Told) = 0)
               /\ Has(f, Popped') = (IF park[f] THEN Has(f, Popped) ELSE 0) /\ (~park[f] => Has(f, Popped) = 1)
    BY <1>1, <1>2, <1>3, <1>9 DEF Popped, Told, InFast, Has
  <2>6. IsFiniteSet(Popped) /\ IsFiniteSet(Told)
    <3>1. Popped \subseteq InFast /\ Told \subseteq InFast
      BY DEF Popped, Told
    <3> QED BY <1>2, <3>1, InFastFinite
  <2>7. /\ Cardinality(Popped') = Cardinality(Popped) + Has(f, Popped') - Has(f, Popped)
        /\ Cardinality(Told') = Cardinality(Told) + Has(f, Told') - Has(f, Told)
    <3>1. PICK X, Y, Z, V : X = Popped /\ Y = Popped' /\ Z = Told /\ V = Told'
      OBVIOUS
    <3>2. Cardinality(Y) = Cardinality(X) + Has(f, Y) - Has(f, X)
      BY <2>5, <2>6, <3>1, SetMoves
    <3>3. Cardinality(V) = Cardinality(Z) + Has(f, V) - Has(f, Z)
      BY <2>5, <2>6, <3>1, SetMoves
    <3> QED BY <3>1, <3>2, <3>3
  <2>8. Has(f, Popped) \in 0 .. 1 /\ Has(f, Told) \in 0 .. 1
    BY DEF Has
  <2>9. /\ Cardinality(Popped') = (IF park[f] THEN o ELSE o - 1) /\ Cardinality(Told') = u
    BY <2>1, <2>5, <2>7, <2>8
  <2>10. target * (d + 1) = target * d + target /\ target * d \in Nat /\ (d + 1) + (n - 1) = d + n
    BY <1>0, Products
  <2>11. /\ returns' + Cardinality(Popped') = target' * (d + 1) + woken'
         /\ specials' + Cardinality(Told') = (d + 1) + RoundTold'
    <3>1. returns \in Nat /\ specials \in Nat
      BY DEF FastInv, FastTypes
    <3>2. PICK m \in Nat : m = target * d
      BY <2>10
    <3>3. target * (d + 1) = m + target /\ returns + o = m + target
      BY <1>1, <2>1, <2>10, <3>2
    <3>4. returns' + Cardinality(Popped') = m + target
      BY <1>0, <1>1, <2>1, <2>9, <3>1, <3>3
    <3>5. specials' + Cardinality(Told') = d + 1
      BY <1>1, <2>1, <2>4, <2>9, <3>1
    <3> QED BY <1>0, <1>1, <2>1, <2>4, <3>2, <3>3, <3>4, <3>5
  <2>12. d + 1 \in Nat /\ FastSums(d + 1, rest)'
    BY <1>1, <2>1, <2>3, <2>10, <2>11 DEF FastSums
  <2> QED BY <1>2, <2>1, <2>12, InFastFinite DEF FastCounts
<1> QED BY <1>4, <1>5, <1>10, <1>11 DEF FastInv

LEMMA WaitReturnInv ==
  ASSUME FastInv, NEW f \in Freds, WaitReturn(f)
  PROVE  FastInv'
<1>1. /\ pc[f] = "resumed" /\ pc' = [pc EXCEPT ![f] = "idle"] /\ returns' = returns + 1
      /\ specials' = IF resumeInfo[f] # Null THEN specials + 1 ELSE specials
      /\ UNCHANGED <<runState, resumeInfo, readyLinks, pending>>
      /\ UNCHANGED <<target, counter, queue, notifier, woken, park, entries>>
  BY DEF WaitReturn, Go, raceVars
<1>2. pc'[f] = "idle" /\ \A g \in Freds : g # f => pc'[g] = pc[g]
  BY <1>1 DEF FastInv, FastTypes
<1>3. FastFreds
  BY DEF FastInv
<1>4. runState[f] = 1 /\ readyLinks[f] = 0 /\ ~Promised(f) /\ ~Contains(queue, f)
  BY <1>1, <1>3 DEF FastFreds, Promised
<1>5. FastTypes'
  BY <1>1 DEF FastInv, FastTypes, FastLabels
<1>6. FastNotifier'
  BY <1>1, <1>2 DEF FastInv, FastNotifier
<1>7. FastFreds'
  <2>1. \A r \in Freds : pc'[r] = "wake" <=> pc[r] = "wake"
    BY <1>1, <1>2
  <2>2. \A g \in Freds : pc'[g] \in {"loop", "wake"} <=> pc[g] \in {"loop", "wake"}
    BY <1>1, <1>2
  <2>3. \A g \in Freds : Promised(g)' <=> Promised(g)
    BY <1>1, <2>1, <2>2 DEF Promised
  <2> QED BY <1>1, <1>2, <1>3, <1>4, <2>1, <2>2, <2>3 DEF FastFreds
<1>8. FastCounts'
  <2>1. PICK d \in Nat, rest \in Nat, n \in Nat, c \in Nat, s \in Nat, o \in Nat, u \in Nat :
           /\ n = Cardinality(FredsAt(Notifying)) /\ c = Cardinality(FredsAt({"count"}))
           /\ s = Cardinality(FredsAt({"subtract"})) /\ o = Cardinality(Popped) /\ u = Cardinality(Told)
           /\ rest < target /\ entries = target * (d + n) + rest + c /\ counter = target * s + rest
           /\ returns + o = target * d + woken /\ specials + u = d + RoundTold
    BY FastNumbers
  <2>2. /\ Cardinality(FredsAt(Notifying)') = n + One("idle", Notifying) - One("resumed", Notifying)
        /\ Cardinality(FredsAt({"count"})') = c + One("idle", {"count"}) - One("resumed", {"count"})
        /\ Cardinality(FredsAt({"subtract"})') = s + One("idle", {"subtract"}) - One("resumed", {"subtract"})
    BY <1>1, <2>1, PlacesMove
  <2>3. /\ Cardinality(FredsAt(Notifying)') = n /\ Cardinality(FredsAt({"count"})') = c
        /\ Cardinality(FredsAt({"subtract"})') = s
    BY <2>1, <2>2 DEF One, Notifying
  <2>4. RoundTold' = RoundTold
    BY <1>1 DEF RoundTold
  <2>5. PICK X, Y, Z, V : X = Popped /\ Y = Popped' /\ Z = Told /\ V = Told'
    OBVIOUS
  <2>6. /\ \A g : g # f => (g \in X <=> g \in Y) /\ (g \in Z <=> g \in V)
        /\ Has(f, X) = 1 /\ Has(f, Y) = 0 /\ Has(f, V) = 0 /\ Has(f, Z) = IF resumeInfo[f] # Null THEN 1 ELSE 0
    BY <1>1, <1>2, <1>4, <2>5 DEF Popped, Told, InFast, Has
  <2>7. IsFiniteSet(X) /\ IsFiniteSet(Z)
    <3>1. Popped \subseteq InFast /\ Told \subseteq InFast
      BY DEF Popped, Told
    <3> QED BY <1>1, <2>5, <3>1, InFastFinite
  <2>8. Cardinality(Y) = Cardinality(X) + Has(f, Y) - Has(f, X) /\ Cardinality(V) = Cardinality(Z) + Has(f, V) - Has(f, Z)
    BY <2>6, <2>7, SetMoves
  <2>9. Cardinality(Popped') = o - 1 /\ Cardinality(Told') = IF resumeInfo[f] # Null THEN u - 1 ELSE u
    BY <2>1, <2>5, <2>6, <2>8
  <2>10. returns' + Cardinality(Popped') = returns + o /\ specials' + Cardinality(Told') = specials + u
    <3>1. returns \in Nat /\ specials \in Nat
      BY DEF FastInv, FastTypes
    <3> QED BY <1>1, <2>1, <2>9, <3>1
  <2>11. FastSums(d, rest)'
    BY <1>1, <2>1, <2>3, <2>4, <2>10 DEF FastSums
  <2> QED BY <1>1, <2>1, <2>11, InFastFinite DEF FastCounts
<1> QED BY <1>5, <1>6, <1>7, <1>8 DEF FastInv

\* What a pop leaves in the queue.
LEMMA PopLeaves ==
  ASSUME FastInv, NEW f \in Freds, WaitPop(f)
  PROVE  /\ Head(queue) \in Freds /\ Contains(queue, Head(queue)) /\ pc[Head(queue)] # "idle"
         /\ queue' \in Seq(Freds) /\ IsInjective(queue')
         /\ \A g : Contains(queue, g)' <=> Contains(queue, g) /\ g # Head(queue)
<1>1. queue \in Seq(Freds) /\ IsInjective(queue) /\ queue # <<>> /\ queue' = Tail(queue)
  BY DEF FastInv, FastTypes, WaitPop
<1>2. /\ Head(queue) \in Freds /\ Contains(queue, Head(queue))
      /\ queue' \in Seq(Freds) /\ IsInjective(queue')
      /\ \A g : Contains(queue, g)' <=> Contains(queue, g) /\ g # Head(queue)
  BY <1>1, TailDistinct
<1>3. \A g \in Freds : Contains(queue, g) => pc[g] # "idle"
  BY DEF FastInv, FastFreds, Promised
<1> QED BY <1>2, <1>3

\* The sums after a pop: one more fred is out of the queue, and the last one
\* of a round is told to be special, or is the notifier.
LEMMA PopCounts ==
  ASSUME FastInv, NEW f \in Freds, WaitPop(f), NEW l, l = "loop" \/ l = "wake", pc' = [pc EXCEPT ![f] = l],
         NEW special \in 0 .. 1, pc[f] = "loop",
         Cardinality(Told') = Cardinality(Told) + special, RoundTold' = RoundTold + special
  PROVE  FastCounts'
<1>1. /\ woken' = woken + 1 /\ UNCHANGED <<target, counter, entries, returns, specials>>
  BY DEF WaitPop
<1>2. PICK d \in Nat, rest \in Nat, n \in Nat, c \in Nat, s \in Nat, o \in Nat, u \in Nat :
         /\ n = Cardinality(FredsAt(Notifying)) /\ c = Cardinality(FredsAt({"count"}))
         /\ s = Cardinality(FredsAt({"subtract"})) /\ o = Cardinality(Popped) /\ u = Cardinality(Told)
         /\ rest < target /\ entries = target * (d + n) + rest + c /\ counter = target * s + rest
         /\ returns + o = target * d + woken /\ specials + u = d + RoundTold
  BY FastNumbers
<1>3. /\ Cardinality(FredsAt(Notifying)') = n + One(l, Notifying) - One("loop", Notifying)
      /\ Cardinality(FredsAt({"count"})') = c + One(l, {"count"}) - One("loop", {"count"})
      /\ Cardinality(FredsAt({"subtract"})') = s + One(l, {"subtract"}) - One("loop", {"subtract"})
  BY <1>2, PlacesMove
<1>4. /\ Cardinality(FredsAt(Notifying)') = n /\ Cardinality(FredsAt({"count"})') = c
      /\ Cardinality(FredsAt({"subtract"})') = s
  BY <1>2, <1>3 DEF One, Notifying
<1>5. PICK X, Y, h : X = Popped /\ Y = Popped' /\ h = Head(queue)
  OBVIOUS
<1>6. (\A g : g # h => (g \in X <=> g \in Y)) /\ Has(h, X) = 0 /\ Has(h, Y) = 1
  <2>1. pc'[f] = l /\ \A g \in Freds : g # f => pc'[g] = pc[g]
    BY DEF FastInv, FastTypes
  <2>2. InFast' = InFast
    BY <2>1 DEF InFast
  <2>3. h \in InFast /\ Contains(queue, h) /\ \A g : Contains(queue, g)' <=> Contains(queue, g) /\ g # h
    BY <1>5, PopLeaves DEF InFast
  <2> QED BY <1>5, <2>2, <2>3 DEF Popped, Has
<1>7. Cardinality(Y) = Cardinality(X) + 1
  <2>1. IsFiniteSet(X)
    <3>1. Popped \subseteq InFast
      BY DEF Popped
    <3> QED BY <1>5, <3>1, InFastFinite
  <2>2. Cardinality(X) \in Nat /\ Cardinality(Y) = Cardinality(X) + Has(h, Y) - Has(h, X)
    BY <1>6, <2>1, SetMoves
  <2> QED BY <1>6, <2>2
<1>8. returns' + Cardinality(Popped') = target' * d + woken'
  <2>1. PICK m \in Nat : m = target * d
    BY Products DEF FastInv, FastTypes
  <2>2. returns \in Nat /\ woken \in Nat /\ returns + o = m + woken /\ Cardinality(Popped') = o + 1
    BY <1>2, <1>5, <1>7, <2>1 DEF FastInv, FastTypes
  <2>3. returns + (o + 1) = m + (woken + 1)
    BY <2>2
  <2> QED BY <1>1, <2>1, <2>2, <2>3
<1>9. specials' + Cardinality(Told') = d + RoundTold'
  <2>1. specials \in Nat /\ RoundTold \in Nat
    BY DEF FastInv, FastTypes, RoundTold
  <2> QED BY <1>1, <1>2, <2>1
<1>10. FastSums(d, rest)'
  BY <1>1, <1>2, <1>4, <1>8, <1>9 DEF FastSums
<1> QED BY <1>2, <1>10, InFastFinite DEF FastCounts

LEMMA PopSelfInv ==
  ASSUME FastInv, NEW f \in Freds, WaitPop(f), Head(queue) = f
  PROVE  FastInv'
<1>1. /\ pc[f] = "loop" /\ woken < target /\ woken' = woken + 1 /\ park' = [park EXCEPT ![f] = FALSE]
      /\ UNCHANGED <<pc, runState, resumeInfo, readyLinks, pending>>
      /\ UNCHANGED <<target, counter, notifier, entries, returns, specials>>
  BY DEF WaitPop, fredVars
<1>2. /\ queue' \in Seq(Freds) /\ IsInjective(queue') /\ Contains(queue, f)
      /\ \A g : Contains(queue, g)' <=> Contains(queue, g) /\ g # f
  BY PopLeaves
<1>3. ~park'[f] /\ \A g \in Freds : g # f => park'[g] = park[g]
  BY <1>1 DEF FastInv, FastTypes
<1>4. FastFreds /\ FastTypes /\ FastNotifier /\ notifier = f /\ f # Null
  BY <1>1, FredAssumption DEF FastInv, FastNotifier
<1>5. Promised(f) /\ Promised(f)' /\ \A g \in Freds : g # f => (Promised(g)' <=> Promised(g))
  BY <1>1, <1>2, <1>3 DEF Promised
<1>6. FastTypes'
  <2>1. woken \in Nat /\ woken + 1 \in Nat
    BY <1>4 DEF FastTypes
  <2> QED BY <1>1, <1>2, <1>4, <2>1 DEF FastTypes
<1>7. FastNotifier'
  <2>1. woken' <= target'
    BY <1>1, <1>4 DEF FastTypes
  <2>2. \A g \in Freds : pc'[g] \in {"subtract", "lock"} => park'[g]
    BY <1>1, <1>3, <1>4 DEF FastNotifier
  <2> QED BY <1>1, <1>4, <2>1, <2>2 DEF FastNotifier
<1>8. FastFreds'
  <2>1. resumeInfo[f] = Null
    BY <1>2, <1>4 DEF FastFreds
  <2> QED BY <1>1, <1>2, <1>3, <1>4, <1>5, <2>1 DEF FastFreds
<1>9. FastCounts'
  <2>1. pc' = [pc EXCEPT ![f] = "loop"]
    BY <1>1, <1>4 DEF FastTypes
  <2>2. Told' = Told
    BY <1>1 DEF Told, InFast
  <2>3. RoundTold' = 0 /\ RoundTold = 0
    BY <1>1, <1>3, <1>4 DEF RoundTold, FastTypes
  <2>4. Cardinality(Told) \in Nat
    BY FastNumbers
  <2>5. Cardinality(Told') = Cardinality(Told) + 0 /\ RoundTold' = RoundTold + 0 /\ 0 \in 0 .. 1
    BY <2>2, <2>3, <2>4
  <2> QED BY <1>1, <2>1, <2>5, PopCounts
<1> QED BY <1>6, <1>7, <1>8, <1>9 DEF FastInv

LEMMA PopOtherInv ==
  ASSUME FastInv, NEW f \in Freds, WaitPop(f), NEW g, g = Head(queue), g # f
  PROVE  FastInv'
<1>1. /\ pc[f] = "loop" /\ woken < target /\ woken' = woken + 1 /\ pc' = [pc EXCEPT ![f] = "wake"]
      /\ pending' = [pending EXCEPT ![f] = g]
      /\ \/ Special(f, g) /\ CanWin(g) /\ resumeInfo' = [resumeInfo EXCEPT ![g] = f]
         \/ ~(Special(f, g) /\ CanWin(g)) /\ UNCHANGED resumeInfo
      /\ UNCHANGED <<runState, readyLinks, park>>
      /\ UNCHANGED <<target, counter, notifier, entries, returns, specials>>
  BY DEF WaitPop, RaceResume
<1>2. /\ g \in Freds /\ queue' \in Seq(Freds) /\ IsInjective(queue') /\ Contains(queue, g) /\ pc[g] # "idle"
      /\ \A h : Contains(queue, h)' <=> Contains(queue, h) /\ h # g
  BY PopLeaves
<1>3. pc'[f] = "wake" /\ \A h \in Freds : h # f => pc'[h] = pc[h]
  BY <1>1 DEF FastInv, FastTypes
<1>4. FastFreds /\ FastTypes /\ FastNotifier /\ notifier = f /\ f # Null /\ g # Null
      /\ \A h \in Freds : h # f => pc[h] \notin {"loop", "wake"}
  BY <1>1, <1>2, FredAssumption DEF FastInv, FastNotifier
<1>5. pending'[f] = g /\ \A h \in Freds : h # f => pending'[h] = pending[h]
  BY <1>1, <1>4 DEF FastTypes, Resumers
<1>6. Promised(g) /\ Promised(g)' /\ \A h \in Freds : h # g => (Promised(h)' <=> Promised(h))
  <2>1. Promised(g) /\ Promised(g)'
    BY <1>2, <1>3, <1>5 DEF Promised
  <2>2. ASSUME NEW h \in Freds, h # g PROVE Promised(h)' <=> Promised(h)
    <3>1. /\ ~ \E r \in Freds : pc[r] = "wake" /\ pending[r] = h
          /\ ~ \E r \in Freds : pc'[r] = "wake" /\ pending'[r] = h
      BY <1>1, <1>3, <1>4, <1>5, <2>2
    <3>2. pc'[h] \in {"loop", "wake"} <=> pc[h] \in {"loop", "wake"}
      BY <1>1, <1>3
    <3> QED BY <1>1, <1>2, <2>2, <3>1, <3>2 DEF Promised
  <2> QED BY <2>1, <2>2
<1>7. resumeInfo[g] = Null
  BY <1>2, <1>4 DEF FastFreds
<1>8. /\ resumeInfo'[g] = (IF woken = target - 1 /\ park[f] THEN f ELSE Null)
      /\ \A h \in Freds : h # g => resumeInfo'[h] = resumeInfo[h]
      /\ resumeInfo' \in [Freds -> Freds \cup {Null}]
  BY <1>1, <1>2, <1>4, <1>7 DEF FastTypes, Special, CanWin
<1>9. FastTypes'
  <2>1. woken \in Nat /\ woken + 1 \in Nat
    BY <1>4 DEF FastTypes
  <2>2. pc' \in [Freds -> FastLabels] /\ pending' \in [Resumers -> Freds \cup {Null}]
    BY <1>1, <1>2, <1>4 DEF FastTypes, FastLabels
  <2> QED BY <1>1, <1>2, <1>4, <1>8, <2>1, <2>2 DEF FastTypes
<1>10. FastNotifier'
  <2>1. woken' <= target'
    BY <1>1, <1>4 DEF FastTypes
  <2>2. \A h \in Freds : pc'[h] \in {"loop", "wake"} <=> notifier' = h
    BY <1>1, <1>3, <1>4
  <2>3. \A h \in Freds : /\ pc'[h] \in {"subtract", "lock"} => park'[h]
                         /\ pc'[h] = "wake" <=> pending'[h] # Null
                         /\ pending'[h] # h
    BY <1>1, <1>3, <1>4, <1>5 DEF FastNotifier
  <2> QED BY <1>1, <1>4, <2>1, <2>2, <2>3 DEF FastNotifier
<1>11. FastFreds'
  <2>1. /\ pc'[f] = "wake" /\ readyLinks[f] = 0 /\ runState[f] = (IF Promised(f) THEN 1 ELSE 2)
        /\ ~park[f] => ~Contains(queue, f) /\ resumeInfo[f] = Null
    BY <1>1, <1>3, <1>4 DEF FastFreds
  <2>2. ASSUME NEW h \in Freds, Contains(queue, h)'
        PROVE  resumeInfo'[h] = Null /\ \A r \in Freds : pc'[r] = "wake" => pending'[r] # h
    <3>1. Contains(queue, h) /\ h # g
      BY <1>2, <2>2
    <3>2. resumeInfo'[h] = Null
      BY <1>4, <1>8, <3>1 DEF FastFreds
    <3>3. \A r \in Freds : pc'[r] = "wake" => r = f
      BY <1>3, <1>4
    <3> QED BY <1>5, <3>1, <3>2, <3>3
  <2>3. ASSUME NEW h \in Freds, pc'[h] \in {"loop", "wake"}, ~park'[h]
        PROVE  ~Contains(queue, h)' /\ resumeInfo'[h] = Null
    <3>1. h = f /\ ~park[f]
      BY <1>1, <1>3, <1>4, <2>3
    <3> QED BY <1>2, <1>8, <2>1, <3>1
  <2>4. \A h \in Freds : Promised(h)' <=> Promised(h)
    BY <1>6
  <2>5. ASSUME NEW h \in Freds
        PROVE  /\ pc'[h] \in {"idle", "resumed"} => runState'[h] = 1 /\ readyLinks'[h] = 0 /\ ~Promised(h)'
               /\ pc'[h] \in {"count", "subtract", "lock", "loop", "wake", "suspend", "switch"}
                    => readyLinks'[h] = 0 /\ runState'[h] = IF Promised(h)' THEN 1 ELSE 2
               /\ pc'[h] = "off" => IF Promised(h)' THEN runState'[h] = 0 /\ readyLinks'[h] = 0
                                                   ELSE runState'[h] = 1 /\ readyLinks'[h] = 1
    <3>1. CASE h = f
      BY <1>1, <2>1, <2>4, <3>1
    <3>2. CASE h # f
      <4>1. pc'[h] = pc[h]
        BY <1>3, <3>2
      <4> QED BY <1>1, <1>4, <2>4, <4>1 DEF FastFreds
    <3> QED BY <3>1, <3>2
  <2> QED BY <2>2, <2>3, <2>5 DEF FastFreds
<1>12. FastCounts'
  <2>1. PICK special \in 0 .. 1 : special = IF woken = target - 1 /\ park[f] THEN 1 ELSE 0
    OBVIOUS
  <2>2. RoundTold = 0 /\ RoundTold' = special
    BY <1>1, <1>4, <2>1 DEF RoundTold, FastTypes
  <2>3. PICK X, Y : X = Told /\ Y = Told'
    OBVIOUS
  <2>4. InFast' = InFast
    BY <1>1, <1>3 DEF InFast
  <2>5. (\A h : h # g => (h \in X <=> h \in Y)) /\ Has(g, X) = 0 /\ Has(g, Y) = special
    BY <1>2, <1>4, <1>7, <1>8, <2>1, <2>3, <2>4 DEF Told, InFast, Has
  <2>6. IsFiniteSet(X)
    <3>1. Told \subseteq InFast
      BY DEF Told
    <3> QED BY <1>1, <2>3, <3>1, InFastFinite
  <2>7. Cardinality(X) \in Nat /\ Cardinality(Y) = Cardinality(X) + Has(g, Y) - Has(g, X)
    BY <2>5, <2>6, SetMoves
  <2>8. Cardinality(Told') = Cardinality(Told) + special /\ RoundTold' = RoundTold + special
    BY <2>1, <2>2, <2>3, <2>5, <2>7
  <2> QED BY <1>1, <2>8, PopCounts
<1> QED BY <1>9, <1>10, <1>11, <1>12 DEF FastInv

LEMMA FastNextInv == FastInv /\ FastBarrierNext => FastInv'
<1> SUFFICES ASSUME FastInv, NEW f \in Freds,
                    \/ WaitPush(f) \/ WaitCount(f) \/ WaitSubtract(f) \/ WaitLock(f)
                    \/ WaitPop(f) \/ WaitResume(f) \/ WaitUnlock(f) \/ WaitReturn(f)
                    \/ FredStep(f) /\ UNCHANGED barrierVars
             PROVE  FastInv'
  BY DEF FastBarrierNext
<1>1. WaitPop(f) => FastInv'
  BY PopSelfInv, PopOtherInv
<1>2. WaitUnlock(f) => FastInv'
  BY WaitUnlockInv DEF WaitUnlock, Go
<1> QED BY <1>1, <1>2, WaitPushInv, WaitCountInv, WaitSubtractInv, WaitLockInv, WaitResumeInv, WaitReturnInv, FastStepInv

LEMMA FastInvGroups == FastInv => FastBarrierGroups
<1> SUFFICES ASSUME FastInv PROVE FastBarrierGroups
  OBVIOUS
<1>1. PICK d \in Nat, rest \in Nat, n \in Nat, c \in Nat, s \in Nat, o \in Nat, u \in Nat :
         /\ n = Cardinality(FredsAt(Notifying)) /\ c = Cardinality(FredsAt({"count"}))
         /\ s = Cardinality(FredsAt({"subtract"})) /\ o = Cardinality(Popped) /\ u = Cardinality(Told)
         /\ rest < target /\ entries = target * (d + n) + rest + c /\ counter = target * s + rest
         /\ returns + o = target * d + woken /\ specials + u = d + RoundTold
  BY FastNumbers
<1>2. target \in Nat \ {0} /\ woken \in Nat /\ returns \in Nat /\ specials \in Nat /\ entries \in Nat
  BY DEF FastInv, FastTypes
<1>3. PICK groups \in Nat : groups = entries \div target
  BY <1>2
<1>4. groups >= d + n
  <2>1. PICK x \in Nat, k \in Nat : x = rest + c /\ k = d + n
    BY <1>1
  <2>2. entries = target * k + x
    BY <1>1, <1>2, <2>1, Products
  <2>3. (target * k + x) \div target >= k
    BY <1>2, <2>1
  <2> QED BY <1>3, <2>1, <2>2, <2>3
<1>5. notifier # Null => n >= 1
  <2>1. SUFFICES ASSUME notifier # Null PROVE n >= 1
    OBVIOUS
  <2>2. notifier \in FredsAt(Notifying)
    BY <2>1 DEF FastInv, FastNotifier, FredsAt, Notifying
  <2>3. IsFiniteSet(FredsAt(Notifying))
    <3>1. FredsAt(Notifying) \subseteq InFast
      BY DEF FredsAt, InFast, Notifying
    <3> QED BY <3>1, FS_Subset DEF FastInv, FastCounts
  <2>4. n # 0
    BY <1>1, <2>2, <2>3, FS_EmptySet
  <2> QED BY <2>4
<1>6. PICK m \in Nat, k \in Nat : m = target * d /\ k = target * groups
  BY <1>2, Products
<1>7. woken <= target /\ (notifier = Null => woken = 0) /\ RoundTold \in {0, 1} /\ (notifier = Null => RoundTold = 0)
  BY DEF FastInv, FastNotifier, RoundTold
<1>8. returns <= groups * target /\ specials <= groups
  <2>1. groups * target = k
    BY <1>2, <1>6
  <2>2. CASE notifier = Null
    <3>1. groups >= d
      BY <1>4
    <3>2. PICK e \in Nat : groups = d + e
      <4>1. groups - d \in Nat /\ groups = d + (groups - d)
        BY <3>1
      <4> QED BY <4>1
    <3>3. k = m + target * e /\ target * e \in Nat
      BY <1>2, <1>6, <3>2
    <3> QED BY <1>1, <1>2, <1>6, <1>7, <2>1, <2>2, <3>1, <3>3
  <2>3. CASE notifier # Null
    <3>1. groups >= d + 1
      BY <1>4, <1>5, <2>3
    <3>2. PICK e \in Nat : groups = d + 1 + e
      <4>1. groups - d - 1 \in Nat /\ groups = d + 1 + (groups - d - 1)
        BY <3>1
      <4> QED BY <4>1
    <3>3. k = m + target + target * e /\ target * e \in Nat
      BY <1>2, <1>6, <3>2
    <3>4. specials <= groups
      BY <1>1, <1>2, <1>7, <3>1
    <3>5. returns <= m + target
      BY <1>1, <1>2, <1>6, <1>7
    <3> QED BY <1>2, <1>6, <2>1, <3>3, <3>4, <3>5
  <2> QED BY <2>2, <2>3
<1>9. ASSUME \A f \in Freds : pc[f] = "idle" \/ (pc[f] = "off" /\ readyLinks[f] = 0)
      PROVE  returns = groups * target /\ specials = groups
  <2>1. notifier = Null /\ \A f \in Freds : pc[f] # "wake"
    <3>1. notifier \in Freds => pc[notifier] \in {"loop", "wake"}
      BY DEF FastInv, FastNotifier
    <3> QED BY <1>9, <3>1 DEF FastInv, FastNotifier
  <2>2. FredsAt(Notifying) = {} /\ FredsAt({"count"}) = {}
    BY <1>9 DEF FredsAt, Notifying
  <2>3. \A f \in InFast : Contains(queue, f) /\ resumeInfo[f] = Null
    <3>1. SUFFICES ASSUME NEW f \in Freds, pc[f] # "idle" PROVE Contains(queue, f) /\ resumeInfo[f] = Null
      BY DEF InFast
    <3>2. pc[f] = "off" /\ readyLinks[f] = 0
      BY <1>9, <3>1
    <3>3. Promised(f)
      BY <3>2 DEF FastInv, FastFreds
    <3>4. Contains(queue, f)
      BY <2>1, <3>2, <3>3 DEF Promised
    <3> QED BY <3>4 DEF FastInv, FastFreds
  <2>4. Popped = {} /\ Told = {}
    BY <2>3 DEF Popped, Told
  <2>5. n = 0 /\ c = 0 /\ o = 0 /\ u = 0 /\ woken = 0 /\ RoundTold = 0
    BY <1>1, <1>7, <2>1, <2>2, <2>4, FS_EmptySet
  <2>6. groups = d
    <3>1. entries = target * d + rest /\ rest \in 0 .. target - 1
      <4>1. d + n = d /\ target * d \in Nat
        BY <1>2, <2>5, Products
      <4> QED BY <1>1, <1>2, <2>5, <4>1
    <3>2. (target * d + rest) \div target = d
      BY <1>2, <3>1
    <3> QED BY <1>3, <3>1, <3>2
  <2>7. returns = m /\ specials = d
    BY <1>1, <1>2, <1>6, <2>5
  <2> QED BY <1>2, <1>6, <2>6, <2>7
<1> QED BY <1>3, <1>8, <1>9 DEF FastBarrierGroups

LEMMA BarStutter == BarInv /\ UNCHANGED lockedBarrierVars => BarInv'
<1> SUFFICES ASSUME BarInv, UNCHANGED lockedBarrierVars PROVE BarInv'
  OBVIOUS
<1>1. /\ UNCHANGED <<pc, runState, resumeInfo, readyLinks, pending, deadline, bq, blockedOn>>
      /\ UNCHANGED <<group, arrived, entered, done, serials>>
  BY DEF lockedBarrierVars, fredVars, timerVars, bqVars, barVars
<1>2. (\A f : InQueue(f, Bar)' <=> InQueue(f, Bar)) /\ InBarrier' = InBarrier
  BY <1>1 DEF InQueue, InBarrier
<1> QED BY <1>1, <1>2 DEF BarInv, BarTypes, BarFreds, BarCounts

LEMMA FastStutter == FastInv /\ UNCHANGED fredVars /\ UNCHANGED barrierVars => FastInv'
<1> SUFFICES ASSUME FastInv, UNCHANGED fredVars, UNCHANGED barrierVars PROVE FastInv'
  OBVIOUS
<1>1. /\ UNCHANGED <<pc, runState, resumeInfo, readyLinks, pending>>
      /\ UNCHANGED <<target, counter, queue, notifier, woken, park, entries, returns, specials>>
  BY DEF fredVars, barrierVars
<1>2. InFast' = InFast /\ RoundTold' = RoundTold /\ \A f \in Freds : Promised(f)' <=> Promised(f)
  BY <1>1 DEF InFast, RoundTold, Promised
<1>3. Popped' = Popped /\ Told' = Told
  BY <1>1, <1>2 DEF Popped, Told
<1>4. FredsAt(Notifying)' = FredsAt(Notifying) /\ FredsAt({"count"})' = FredsAt({"count"})
      /\ FredsAt({"subtract"})' = FredsAt({"subtract"})
  BY <1>1 DEF FredsAt
<1>5. PICK d \in Nat, rest \in Nat : FastSums(d, rest)
  BY DEF FastInv, FastCounts
<1>6. FastSums(d, rest)'
  BY <1>1, <1>2, <1>3, <1>4, <1>5 DEF FastSums
<1>7. FastCounts'
  BY <1>2, <1>6 DEF FastInv, FastCounts
<1>8. FastTypes' /\ FastNotifier' /\ FastFreds'
  BY <1>1, <1>2 DEF FastInv, FastTypes, FastNotifier, FastFreds
<1> QED BY <1>7, <1>8 DEF FastInv

\* LockedBarrier and FastBarrier, for groups of any size and any number of
\* freds: nobody passes before the group is complete, no group has two serial
\* freds, and nobody of a complete group stays behind, also when a fred comes
\* back for the next round before the last one has left, and when the fred
\* that completes a group and the freds that it wakes are of different groups.
THEOREM BarriersAreGroups == PrimitivesSpec => []BarriersInGroups
<1>1. PrimitivesInit => (part = "barrier" => BarInv) /\ (part = "fast" => FastInv)
  BY BarInitInv, FastInitInv DEF PrimitivesInit
<1>2. PrimitivesNext => /\ part' = part /\ (part = "barrier" => LockedBarrierNext)
                        /\ (part = "fast" => FastBarrierNext)
  BY DEF PrimitivesNext
<1>3. UNCHANGED primitivesVars => part' = part /\ UNCHANGED lockedBarrierVars /\ UNCHANGED barrierVars
  BY DEF primitivesVars, lockedBarrierVars
<1>4. BarInv /\ UNCHANGED lockedBarrierVars => BarInv'
  BY BarStutter
<1>5. FastInv /\ UNCHANGED fredVars /\ UNCHANGED barrierVars => FastInv'
  BY FastStutter
<1>6. UNCHANGED lockedBarrierVars => UNCHANGED fredVars
  BY DEF lockedBarrierVars
<1>7. (part = "barrier" => BarInv) /\ [PrimitivesNext]_primitivesVars => (part = "barrier" => BarInv)'
  BY <1>2, <1>3, <1>4, BarNextInv
<1>8. (part = "fast" => FastInv) /\ [PrimitivesNext]_primitivesVars => (part = "fast" => FastInv)'
  BY <1>2, <1>3, <1>5, <1>6, FastNextInv
<1>9. (part = "barrier" => BarInv) /\ (part = "fast" => FastInv) => BarriersInGroups
  BY BarInvGroups, FastInvGroups DEF BarriersInGroups
<1> QED BY <1>1, <1>7, <1>8, <1>9, PTL DEF PrimitivesSpec
===========================================================================
