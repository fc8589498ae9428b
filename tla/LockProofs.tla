----------------------------- MODULE LockProofs -----------------------------
(***************************************************************************)
(* Proofs about LockedRWLock, LockedMutex, SpinLocks and FibreApi in the    *)
(* composition that TLC checks: one of them per behaviour.  Each has its    *)
(* own inductive invariant; the steps of the others cannot happen.          *)
(***************************************************************************)
EXTENDS MCPrimitives, BlockingQueueProofs, FiniteSetTheorems, TLAPS

---------------------------------------------------------------------------
(* A read/write lock and its counter.                                       *)

\* The lock in one of its two forms: open or read by R, written by one of W.
Counted(s, rs, ws) ==
  \/ ws = {} /\ IsFiniteSet(rs) /\ s = Cardinality(rs)
  \/ rs = {} /\ s = -1 /\ \E w : ws = {w}

\* What the two forms say, with the arithmetic done.
LEMMA CountedFacts ==
  ASSUME NEW s, NEW rs, NEW ws, Counted(s, rs, ws)
  PROVE  /\ s \in Int /\ s >= -1
         /\ s = -1 => rs = {} /\ \E w : ws = {w}
         /\ s = 0 => rs = {} /\ ws = {}
         /\ s >= 0 => ws = {} /\ IsFiniteSet(rs) /\ s = Cardinality(rs)
         /\ s = 1 => \E r : rs = {r}
<1>1. CASE ws = {} /\ IsFiniteSet(rs) /\ s = Cardinality(rs)
  <2>1. s \in Nat /\ (s = 0 <=> rs = {}) /\ (s = 1 <=> \E r : rs = {r})
    BY <1>1, FS_CardinalityType, FS_EmptySet, FS_Singleton
  <2> QED BY <1>1, <2>1
<1>2. CASE rs = {} /\ s = -1 /\ \E w : ws = {w}
  BY <1>2
<1> QED BY <1>1, <1>2 DEF Counted

\* One more reader.
LEMMA CountedRead ==
  ASSUME NEW s, NEW rs, NEW ws, Counted(s, rs, ws), s >= 0, NEW f, f \notin rs
  PROVE  Counted(s + 1, rs \cup {f}, ws)
  BY CountedFacts, FS_AddElement DEF Counted

\* A reader leaves.
LEMMA CountedLeave ==
  ASSUME NEW s, NEW rs, NEW ws, Counted(s, rs, ws), NEW f, f \in rs
  PROVE  s >= 1 /\ Counted(s - 1, rs \ {f}, ws)
<1>1. ws = {} /\ IsFiniteSet(rs) /\ s = Cardinality(rs)
  BY DEF Counted
<1>2. s \in Nat /\ s # 0
  BY <1>1, FS_CardinalityType, FS_EmptySet
<1> QED BY <1>1, <1>2, FS_RemoveElement DEF Counted

---------------------------------------------------------------------------
(* LockedRWLock.                                                            *)

\* A fred that has the lock is outside block(), and one that comes back from
\* it has been handed the lock through the queue it waited in.
RWInv ==
  /\ BlockInv
  /\ holds \in [Freds -> {Rd, Wr, Null}]
  /\ \A f \in Freds :
       pc[f] = "unblocked" => resumeInfo[f] = blockedOn[f] /\ blockedOn[f] \in Queues
  /\ \A f \in Freds : holds[f] # Null => pc[f] \in {"idle", "wake"}
  /\ Counted(state, Holders(Rd), Holders(Wr))

\* The two queues of the lock are queues, and not each other.
LEMMA RWFacts ==
  /\ Rd \in Queues /\ Wr \in Queues /\ Rd # Wr
  /\ Null \notin Queues /\ Timer \notin Queues /\ Null # Timer
  BY RWAssumption, QueueAssumption, FredAssumption

\* The two forms give what the run checks of state.
LEMMA CountedStateCounts ==
  RWInv => StateCounts
<1> SUFFICES ASSUME RWInv PROVE StateCounts
  OBVIOUS
<1>1. CASE Holders(Wr) = {} /\ IsFiniteSet(Holders(Rd)) /\ state = Cardinality(Holders(Rd))
  BY <1>1, FS_EmptySet DEF StateCounts
<1>2. CASE Holders(Rd) = {} /\ state = -1 /\ \E w : Holders(Wr) = {w}
  <2>1. PICK w : Holders(Wr) = {w}
    BY <1>2
  <2>2. Cardinality(Holders(Wr)) = 1
    BY <2>1, FS_Singleton
  <2> QED BY <1>2, <2>1, <2>2 DEF StateCounts
<1> QED BY <1>1, <1>2 DEF RWInv, Counted

\* The lock starts open.
LEMMA RWInitInv == RWInit => RWInv
<1> SUFFICES ASSUME RWInit PROVE RWInv
  OBVIOUS
<1>1. BlockInv
  BY BlockInitInv DEF RWInit
<1>2. Holders(Rd) = {} /\ Holders(Wr) = {}
  BY RWFacts DEF RWInit, FredInit, Holders, InWait, Suspending
<1>3. Counted(state, Holders(Rd), Holders(Wr))
  BY <1>2, FS_EmptySet DEF RWInit, Counted
<1> QED BY <1>1, <1>3 DEF RWInit, FredInit, RWInv

\* The steps of the library hand nobody the lock.
LEMMA RWLibrary ==
  ASSUME RWInv, UNCHANGED rwVars,
         \/ \E f \in Freds : BlockStep(f)
         \/ (Tick \/ TimerStep) /\ UNCHANGED bqVars
  PROVE  RWInv'
<1>0. BlockInv /\ BlockTypeOK /\ UNCHANGED <<state, holds>>
  BY DEF RWInv, BlockInv, rwVars
<1>1. BlockInv'
  BY <1>0, BlockStepInv, TickInv, TimerStepInv
<1>2. ASSUME NEW f \in Freds, BlockStep(f)
      PROVE  RWInv'
  <2>1. PICK l \in Labels :
          /\ UNCHANGED <<resumeInfo, blockedOn>> /\ pc[f] \in InWait
          /\ pc' = [pc EXCEPT ![f] = l]
          /\ \/ l \in InWait
             \/ resumeInfo[f] = blockedOn[f] /\ blockedOn[f] \in Queues /\ l = "unblocked"
             \/ resumeInfo[f] = Timer /\ l = "timedout"
             \/ resumeInfo[f] = Timer /\ blockedOn[f] = Null /\ l = "idle"
    BY <1>0, <1>2, BlockStepMoves
  <2>2. ASSUME NEW q \in {Rd, Wr} PROVE Holders(q)' = Holders(q)
    BY <1>0, <2>1, RWFacts DEF BlockTypeOK, Holders
  <2>3. \A g \in Freds : pc'[g] = "unblocked" => resumeInfo'[g] = blockedOn'[g] /\ blockedOn'[g] \in Queues
    BY <1>0, <2>1 DEF RWInv, BlockTypeOK, InWait, Suspending
  <2>4. \A g \in Freds : holds'[g] # Null => pc'[g] \in {"idle", "wake"}
    BY <1>0, <2>1 DEF RWInv, BlockTypeOK, InWait, Suspending
  <2> QED BY <1>0, <1>1, <2>2, <2>3, <2>4 DEF RWInv
<1>3. CASE (Tick \/ TimerStep) /\ UNCHANGED bqVars
  <2>1. /\ UNCHANGED <<pc, blockedOn>>
        /\ \/ UNCHANGED resumeInfo
           \/ \E f \in Freds : CanWin(f) /\ resumeInfo' = [resumeInfo EXCEPT ![f] = Timer]
    BY <1>3, TimerMoves
  <2>2. \A g \in Freds : resumeInfo'[g] = resumeInfo[g] \/ (resumeInfo[g] = Null /\ resumeInfo'[g] = Timer)
    BY <1>0, <2>1 DEF BlockTypeOK, CanWin
  <2>3. ASSUME NEW q \in {Rd, Wr} PROVE Holders(q)' = Holders(q)
    <3>1. q # Null /\ q # Timer
      BY RWFacts
    <3>2. \A g \in Freds : resumeInfo'[g] = q <=> resumeInfo[g] = q
      BY <2>2, <3>1
    <3> QED BY <1>0, <2>1, <3>2 DEF Holders
  <2>4. \A g \in Freds : pc[g] = "unblocked" => resumeInfo[g] # Null
    BY <1>0, RWFacts DEF RWInv
  <2>5. \A g \in Freds : pc'[g] = "unblocked" => resumeInfo'[g] = blockedOn'[g] /\ blockedOn'[g] \in Queues
    BY <2>1, <2>2, <2>4 DEF RWInv
  <2> QED BY <1>0, <1>1, <2>1, <2>3, <2>5 DEF RWInv
<1> QED BY <1>2, <1>3

\* Who has the lock, for a fred outside block().
LEMMA RWHas ==
  ASSUME RWInv, NEW f \in Freds, NEW x \in {Rd, Wr}
  PROVE  /\ pc[f] \in {"idle", "wake"} => (f \in Holders(x) <=> holds[f] = x)
         /\ pc[f] = "unblocked" => (f \in Holders(x) <=> blockedOn[f] = x)
         /\ pc[f] = "timedout" => f \notin Holders(x)
         /\ pc[f] \in InWait /\ resumeInfo[f] = Null => f \notin Holders(x)
<1>1. x # Null
  BY RWFacts
<1> QED BY <1>1 DEF RWInv, Holders, InWait, Suspending

\* unblock() hands the lock to a fred that waits.
LEMMA HandToMoves ==
  ASSUME RWInv, NEW f \in Freds, NEW q \in {Rd, Wr}, NEW s, NEW k \in {Rd, Wr, Null},
         pc[f] \in {"idle", "unblocked"}, HandTo(f, q, s), holds' = [holds EXCEPT ![f] = k]
  PROVE  /\ BlockInv' /\ state' = s /\ UNCHANGED blockedOn
         /\ pc' = [pc EXCEPT ![f] = "wake"]
         /\ \E h \in Freds \ {f} :
              /\ pc[h] \in InWait /\ resumeInfo[h] = Null
              /\ resumeInfo' = [resumeInfo EXCEPT ![h] = q]
              /\ \A x \in {Rd, Wr} :
                   /\ h \notin Holders(x)
                   /\ Holders(x)' = (Holders(x) \ {f}) \cup (IF k = x THEN {f} ELSE {})
                                      \cup (IF q = x THEN {h} ELSE {})
<1>0. /\ BlockInv /\ BlockTypeOK /\ q \in Queues /\ q # Null /\ Rd # Null /\ Wr # Null
      /\ pc[f] \notin InWait /\ pc[f] # "wake"
  BY RWFacts DEF RWInv, BlockInv, InWait, Suspending
<1>1. PICK i \in DOMAIN bq[q] : Unblock(f, q, i)
  BY DEF HandTo
<1>2. pc' = [pc EXCEPT ![f] = "wake"] /\ state' = s
  BY DEF HandTo
<1>3. BlockInv'
  BY <1>0, <1>1, <1>2, UnblockInv
<1>4. PICK h \in Freds : /\ h \in Waiting(q) /\ resumeInfo[h] = Null
                         /\ resumeInfo' = [resumeInfo EXCEPT ![h] = q] /\ blockedOn' = blockedOn
  BY <1>0, <1>1, UnblockMoves
<1>5. pc[h] \in InWait /\ blockedOn[h] = q /\ h # f /\ holds[h] = Null
  BY <1>0, <1>4, WaitingOn DEF RWInv, InWait, Suspending
<1>6. ASSUME NEW x \in {Rd, Wr}
      PROVE  /\ h \notin Holders(x)
             /\ Holders(x)' = (Holders(x) \ {f}) \cup (IF k = x THEN {f} ELSE {})
                                \cup (IF q = x THEN {h} ELSE {})
  <2>1. h \notin Holders(x)
    BY <1>0, <1>4, <1>5 DEF Holders, InWait, Suspending
  <2>2. ASSUME NEW g \in Freds
        PROVE  g \in Holders(x)' <=> \/ g \in Holders(x) /\ g # f
                                     \/ k = x /\ g = f
                                     \/ q = x /\ g = h
    <3>1. g \in Holders(x)' <=> \/ holds'[g] = x
                                \/ pc'[g] \in InWait \cup {"unblocked"} /\ resumeInfo'[g] = x
      BY DEF Holders
    <3>2. g \in Holders(x) <=> \/ holds[g] = x
                               \/ pc[g] \in InWait \cup {"unblocked"} /\ resumeInfo[g] = x
      BY DEF Holders
    <3>3. CASE g = f
      BY <1>0, <1>2, <1>5, <3>1, <3>3 DEF RWInv, BlockTypeOK, InWait, Suspending
    <3>4. CASE g = h
      BY <1>0, <1>2, <1>4, <1>5, <2>1, <3>1, <3>4 DEF RWInv, BlockTypeOK
    <3>5. CASE g # f /\ g # h
      BY <1>0, <1>2, <1>4, <3>1, <3>2, <3>5 DEF RWInv, BlockTypeOK
    <3> QED BY <3>3, <3>4, <3>5
  <2>3. Holders(x)' \subseteq Freds /\ Holders(x) \subseteq Freds
    BY DEF Holders
  <2> QED BY <2>1, <2>2, <2>3
<1> QED BY <1>2, <1>3, <1>4, <1>5, <1>6

\* A fred goes on and wakes nobody.
LEMMA NobodyMoves ==
  ASSUME RWInv, NEW f \in Freds, NEW s, NEW k \in {Rd, Wr, Null},
         pc[f] \in {"idle", "unblocked", "timedout"}, HandToNobody(f, s),
         holds' = [holds EXCEPT ![f] = k]
  PROVE  /\ BlockInv' /\ state' = s /\ UNCHANGED <<resumeInfo, blockedOn>>
         /\ pc' = [pc EXCEPT ![f] = "idle"]
         /\ \A x \in {Rd, Wr} :
              Holders(x)' = (Holders(x) \ {f}) \cup (IF k = x THEN {f} ELSE {})
<1>0. /\ BlockInv /\ BlockTypeOK /\ pc[f] \notin InWait /\ pc[f] # "wake"
      /\ "idle" \in Labels \ InWait
  BY DEF RWInv, BlockInv, Labels, InWait, Suspending
<1>1. /\ pc' = [pc EXCEPT ![f] = "idle"] /\ state' = s
      /\ UNCHANGED <<runState, resumeInfo, readyLinks, pending, timerVars, bqVars>>
  BY DEF HandToNobody
<1>2. BlockInv'
  BY <1>0, <1>1, LabelInv
<1>3. ASSUME NEW x \in {Rd, Wr}
      PROVE  Holders(x)' = (Holders(x) \ {f}) \cup (IF k = x THEN {f} ELSE {})
  <2>1. ASSUME NEW g \in Freds
        PROVE  g \in Holders(x)' <=> (g \in Holders(x) /\ g # f) \/ (k = x /\ g = f)
    <3>1. g \in Holders(x)' <=> \/ holds'[g] = x
                                \/ pc'[g] \in InWait \cup {"unblocked"} /\ resumeInfo'[g] = x
      BY DEF Holders
    <3>2. g \in Holders(x) <=> \/ holds[g] = x
                               \/ pc[g] \in InWait \cup {"unblocked"} /\ resumeInfo[g] = x
      BY DEF Holders
    <3>3. CASE g = f
      BY <1>0, <1>1, <3>1, <3>3 DEF RWInv, BlockTypeOK, InWait, Suspending
    <3>4. CASE g # f
      BY <1>0, <1>1, <3>1, <3>2, <3>4 DEF RWInv, BlockTypeOK
    <3> QED BY <3>3, <3>4
  <2>2. Holders(x)' \subseteq Freds /\ Holders(x) \subseteq Freds
    BY DEF Holders
  <2>3. CASE k = x
    BY <2>1, <2>2, <2>3
  <2>4. CASE k # x
    BY <2>1, <2>2, <2>4
  <2> QED BY <2>3, <2>4
<1> QED BY <1>1, <1>2, <1>3 DEF bqVars

\* What is left to show for a step of the lock: the count.
LEMMA RWMoved ==
  ASSUME RWInv, BlockInv', NEW f \in Freds, NEW l \in {"idle", "wake"},
  NEW k \in {Rd, Wr, Null},
         pc' = [pc EXCEPT ![f] = l], holds' = [holds EXCEPT ![f] = k], UNCHANGED blockedOn,
         \A g \in Freds : pc[g] = "unblocked" => resumeInfo'[g] = resumeInfo[g],
         Counted(state, Holders(Rd), Holders(Wr))'
  PROVE  RWInv'
<1>1. holds' \in [Freds -> {Rd, Wr, Null}]
  BY DEF RWInv
<1>2. \A g \in Freds : pc'[g] = "unblocked" => resumeInfo'[g] = blockedOn'[g] /\ blockedOn'[g] \in Queues
  BY DEF RWInv, BlockInv, BlockTypeOK
<1>3. \A g \in Freds : holds'[g] # Null => pc'[g] \in {"idle", "wake"}
  BY DEF RWInv, BlockInv, BlockTypeOK
<1> QED BY <1>1, <1>2, <1>3 DEF RWInv

\* Nothing of the lock and of the library changes.
LEMMA RWStutter ==
  ASSUME RWInv, UNCHANGED rwAll
  PROVE  RWInv'
<1>1. BlockInv'
  BY DEF RWInv, rwAll, fredVars, timerVars, bqVars, BlockInv, BlockTypeOK, RaceInv,
     RaceRunning,
     RaceOff, OwedInv, NodeInv, TimerInv, TimerNodes, TimerArmed, Owed, InQueue,
     CanWin, Timed
<1>2. Holders(Rd)' = Holders(Rd) /\ Holders(Wr)' = Holders(Wr)
  BY DEF rwAll, fredVars, rwVars, Holders
<1> QED BY <1>1, <1>2 DEF RWInv, rwAll, fredVars, rwVars, bqVars

\* block(): the fred waits, and has nothing.
LEMMA RWBlocks ==
  ASSUME RWInv, NEW f \in Freds, pc[f] = "idle", holds[f] = Null, NEW q \in {Rd, Wr},
         NEW t \in Timeouts, BlockOn(f, q, t)
  PROVE  RWInv'
<1>1. CASE TimeoutPassed(t) /\ UNCHANGED <<fredVars, timerVars, bqVars>>
  BY <1>1, RWStutter DEF BlockOn, rwAll
<1>2. CASE Block(f, q, t)
  <2>0. /\ BlockInv /\ BlockTypeOK /\ q \in Queues /\ t \in 0 .. Never
        /\ pc[f] \notin InWait /\ pc[f] # "wake" /\ Rd # Null /\ Wr # Null
    BY RWFacts, RWAssumption DEF RWInv, BlockInv, InWait, Suspending
  <2>1. BlockInv'
    BY <1>2, <2>0, BlockEntryInv
  <2>2. /\ UNCHANGED <<state, holds>> /\ resumeInfo' = [resumeInfo EXCEPT ![f] = Null]
        /\ blockedOn' = [blockedOn EXCEPT ![f] = q]
        /\ \E l \in InWait : pc' = [pc EXCEPT ![f] = l]
    BY <1>2 DEF Block, BlockOn, PrepareResumeRace, rwVars, InWait, Suspending
  <2>3. ASSUME NEW x \in {Rd, Wr} PROVE Holders(x)' = Holders(x)
    <3>1. ASSUME NEW g \in Freds PROVE g \in Holders(x)' <=> g \in Holders(x)
      <4>1. CASE g = f
        BY <2>0, <2>2, <4>1 DEF Holders, BlockTypeOK
      <4>2. CASE g # f
        BY <2>0, <2>2, <4>2 DEF Holders, BlockTypeOK
      <4> QED BY <4>1, <4>2
    <3>2. Holders(x)' \subseteq Freds /\ Holders(x) \subseteq Freds
      BY DEF Holders
    <3> QED BY <3>1, <3>2
  <2>4. \A g \in Freds : pc'[g] = "unblocked" => resumeInfo'[g] = blockedOn'[g] /\ blockedOn'[g] \in Queues
    BY <2>0, <2>2 DEF RWInv, BlockTypeOK, InWait, Suspending
  <2>5. \A g \in Freds : holds'[g] # Null => pc'[g] \in {"idle", "wake"}
    BY <2>0, <2>2 DEF RWInv, BlockTypeOK
  <2> QED BY <2>1, <2>2, <2>3, <2>4, <2>5 DEF RWInv
<1> QED BY <1>1, <1>2 DEF BlockOn

\* acquireRead() gets the lock, or blocks.
LEMMA AcquireReadInv ==
  ASSUME RWInv, NEW f \in Freds, NEW t \in Timeouts, AcquireRead(f, t)
  PROVE  RWInv'
<1>0. pc[f] = "idle" /\ holds[f] = Null /\ Rd # Null /\ Wr # Null /\ Rd # Wr
  BY RWFacts DEF AcquireRead
<1>1. CASE state >= 0 /\ Take(f, Rd, state + 1)
  <2>1. HandToNobody(f, state + 1) /\ holds' = [holds EXCEPT ![f] = Rd]
    BY <1>0, <1>1 DEF Take, HandToNobody, fredVars, RWInv, BlockInv, BlockTypeOK
  <2>2. /\ BlockInv' /\ state' = state + 1 /\ UNCHANGED <<resumeInfo, blockedOn>>
        /\ pc' = [pc EXCEPT ![f] = "idle"]
        /\ Holders(Rd)' = (Holders(Rd) \ {f}) \cup {f}
        /\ Holders(Wr)' = Holders(Wr) \ {f}
    BY <1>0, <2>1, NobodyMoves
  <2>3. f \notin Holders(Rd) /\ f \notin Holders(Wr)
    BY <1>0, RWHas
  <2>4. Holders(Rd)' = Holders(Rd) \cup {f} /\ Holders(Wr)' = Holders(Wr)
    BY <2>2, <2>3
  <2>5. Counted(state + 1, Holders(Rd) \cup {f}, Holders(Wr))
    BY <1>1, <2>3, CountedRead DEF RWInv
  <2> QED BY <2>1, <2>2, <2>4, <2>5, RWMoved
<1> QED BY <1>0, <1>1, RWBlocks DEF AcquireRead

\* acquireWrite() gets the lock, or blocks.
LEMMA AcquireWriteInv ==
  ASSUME RWInv, NEW f \in Freds, NEW t \in Timeouts, AcquireWrite(f, t)
  PROVE  RWInv'
<1>0. pc[f] = "idle" /\ holds[f] = Null /\ Rd # Null /\ Wr # Null /\ Rd # Wr
  BY RWFacts DEF AcquireWrite
<1>1. CASE state = 0 /\ Take(f, Wr, -1)
  <2>1. HandToNobody(f, -1) /\ holds' = [holds EXCEPT ![f] = Wr]
    BY <1>0, <1>1 DEF Take, HandToNobody, fredVars, RWInv, BlockInv, BlockTypeOK
  <2>2. /\ BlockInv' /\ state' = -1 /\ UNCHANGED <<resumeInfo, blockedOn>>
        /\ pc' = [pc EXCEPT ![f] = "idle"]
        /\ Holders(Rd)' = Holders(Rd) \ {f}
        /\ Holders(Wr)' = (Holders(Wr) \ {f}) \cup {f}
    BY <1>0, <2>1, NobodyMoves
  <2>3. Holders(Rd) = {} /\ Holders(Wr) = {}
    BY <1>1, CountedFacts DEF RWInv
  <2>4. Holders(Rd)' = {} /\ Holders(Wr)' = {f}
    BY <2>2, <2>3
  <2>5. Counted(-1, {}, {f})
    BY DEF Counted
  <2> QED BY <2>1, <2>2, <2>4, <2>5, RWMoved
<1> QED BY <1>0, <1>1, RWBlocks DEF AcquireWrite

\* A reader that has been handed the lock passes it on to the next.
LEMMA ReadGrantedInv ==
  ASSUME RWInv, NEW f \in Freds, ReadGranted(f)
  PROVE  RWInv'
<1>0. /\ pc[f] = "unblocked" /\ Rd # Null /\ Wr # Null /\ Rd # Wr /\ f \in Holders(Rd)
      /\ f \notin Holders(Wr)
      /\ holds' = [holds EXCEPT ![f] = Rd]
  BY RWFacts, RWHas DEF ReadGranted
<1>1. CASE HandTo(f, Rd, state + 1)
  <2>1. /\ BlockInv' /\ state' = state + 1 /\ UNCHANGED blockedOn
        /\ pc' = [pc EXCEPT ![f] = "wake"]
        /\ \E h \in Freds \ {f} :
             /\ pc[h] \in InWait /\ resumeInfo' = [resumeInfo EXCEPT ![h] = Rd]
             /\ h \notin Holders(Rd)
             /\ Holders(Rd)' = (Holders(Rd) \ {f}) \cup {f} \cup {h}
             /\ Holders(Wr)' = Holders(Wr) \ {f}
    BY <1>0, <1>1, HandToMoves
  <2>2. PICK h \in Freds \ {f} :
          /\ pc[h] \in InWait /\ resumeInfo' = [resumeInfo EXCEPT ![h] = Rd]
          /\ h \notin Holders(Rd)
          /\ Holders(Rd)' = Holders(Rd) \cup {h} /\ Holders(Wr)' = Holders(Wr)
    BY <1>0, <2>1
  <2>3. state >= 0
    BY <1>0, CountedFacts DEF RWInv
  <2>4. Counted(state + 1, Holders(Rd) \cup {h}, Holders(Wr))
    BY <2>2, <2>3, CountedRead DEF RWInv
  <2>5. \A g \in Freds : pc[g] = "unblocked" => resumeInfo'[g] = resumeInfo[g]
    BY <2>2 DEF RWInv, BlockInv, BlockTypeOK, InWait, Suspending
  <2> QED BY <1>0, <2>1, <2>2, <2>4, <2>5, RWMoved
<1>2. CASE HandToNobody(f, state)
  <2>1. /\ BlockInv' /\ state' = state /\ UNCHANGED <<resumeInfo, blockedOn>>
        /\ pc' = [pc EXCEPT ![f] = "idle"]
        /\ Holders(Rd)' = (Holders(Rd) \ {f}) \cup {f} /\ Holders(Wr)' = Holders(Wr) \ {f}
    BY <1>0, <1>2, NobodyMoves
  <2>2. Holders(Rd)' = Holders(Rd) /\ Holders(Wr)' = Holders(Wr)
    BY <1>0, <2>1
  <2> QED BY <1>0, <2>1, <2>2, RWMoved DEF RWInv
<1> QED BY <1>1, <1>2 DEF ReadGranted

\* A writer comes back from block() with the lock that was handed to it.
LEMMA WriteGrantedInv ==
  ASSUME RWInv, NEW f \in Freds, WriteGranted(f)
  PROVE  RWInv'
<1>0. /\ pc[f] = "unblocked" /\ Rd # Null /\ Wr # Null /\ Rd # Wr /\ f \in Holders(Wr)
      /\ f \notin Holders(Rd)
      /\ holds' = [holds EXCEPT ![f] = Wr]
  BY RWFacts, RWHas DEF WriteGranted
<1>1. /\ BlockInv' /\ state' = state /\ UNCHANGED <<resumeInfo, blockedOn>>
      /\ pc' = [pc EXCEPT ![f] = "idle"]
      /\ Holders(Wr)' = (Holders(Wr) \ {f}) \cup {f} /\ Holders(Rd)' = Holders(Rd) \ {f}
  BY <1>0, NobodyMoves DEF WriteGranted
<1>2. Holders(Rd)' = Holders(Rd) /\ Holders(Wr)' = Holders(Wr)
  BY <1>0, <1>1
<1> QED BY <1>0, <1>1, <1>2, RWMoved DEF RWInv

\* An acquire that has timed out leaves state alone.
LEMMA AcquireTimeoutInv ==
  ASSUME RWInv, NEW f \in Freds, AcquireTimeout(f)
  PROVE  RWInv'
<1>0. /\ pc[f] = "timedout" /\ Rd # Null /\ Wr # Null /\ holds[f] = Null
      /\ f \notin Holders(Wr) /\ f \notin Holders(Rd) /\ holds' = [holds EXCEPT ![f] = Null]
  BY RWFacts, RWHas DEF AcquireTimeout, RWInv
<1>1. /\ BlockInv' /\ state' = state /\ UNCHANGED <<resumeInfo, blockedOn>>
      /\ pc' = [pc EXCEPT ![f] = "idle"]
      /\ Holders(Wr)' = Holders(Wr) \ {f} /\ Holders(Rd)' = Holders(Rd) \ {f}
  BY <1>0, NobodyMoves DEF AcquireTimeout
<1>2. Holders(Rd)' = Holders(Rd) /\ Holders(Wr)' = Holders(Wr)
  BY <1>0, <1>1
<1> QED BY <1>0, <1>1, <1>2, RWMoved DEF RWInv

\* release(): the lock becomes open, or the next fred has it.
LEMMA ReleaseInv ==
  ASSUME RWInv, NEW f \in Freds, Release(f)
  PROVE  RWInv'
<1>0. /\ pc[f] = "idle" /\ Rd # Null /\ Wr # Null /\ Rd # Wr /\ holds[f] \in {Rd, Wr}
      /\ holds' = [holds EXCEPT ![f] = Null]
      /\ f \in Holders(Rd) <=> holds[f] = Rd
      /\ f \in Holders(Wr) <=> holds[f] = Wr
      /\ Counted(state, Holders(Rd), Holders(Wr))
  BY RWFacts, RWHas DEF Release, RWInv
<1>a. /\ pc[f] \in {"idle", "unblocked"} /\ Null \in {Rd, Wr, Null}
      /\ holds' = [holds EXCEPT ![f] = Null]
  BY <1>0
<1>1. ASSUME state > 1, HandToNobody(f, state - 1)
      PROVE  RWInv'
  <2>1. f \in Holders(Rd) /\ Holders(Wr) = {}
    BY <1>0, <1>1, CountedFacts
  <2>2. /\ BlockInv' /\ state' = state - 1 /\ UNCHANGED <<resumeInfo, blockedOn>>
        /\ pc' = [pc EXCEPT ![f] = "idle"]
        /\ Holders(Wr)' = Holders(Wr) \ {f} /\ Holders(Rd)' = Holders(Rd) \ {f}
    BY <1>0, <1>1, NobodyMoves
  <2>3. Counted(state - 1, Holders(Rd) \ {f}, Holders(Wr))
    BY <1>0, <2>1, CountedLeave
  <2>4. Holders(Wr)' = Holders(Wr)
    BY <2>1, <2>2
  <2> QED BY <1>0, <2>2, <2>3, <2>4, RWMoved
<1>2. ASSUME state \in {1, -1} PROVE Holders(Rd) \ {f} = {} /\ Holders(Wr) \ {f} = {}
  BY <1>0, <1>2, CountedFacts
<1>3. ASSUME state \in {1, -1}, HandToNobody(f, 0)
      PROVE  RWInv'
  <2>1. /\ BlockInv' /\ state' = 0 /\ UNCHANGED <<resumeInfo, blockedOn>>
        /\ pc' = [pc EXCEPT ![f] = "idle"]
        /\ Holders(Wr)' = Holders(Wr) \ {f} /\ Holders(Rd)' = Holders(Rd) \ {f}
    BY <1>0, <1>3, NobodyMoves
  <2>2. Counted(0, {}, {})
    BY FS_EmptySet DEF Counted
  <2> QED BY <1>0, <1>2, <1>3, <2>1, <2>2, RWMoved
<1>4. ASSUME state \in {1, -1}, HandTo(f, Rd, 1)
      PROVE  RWInv'
  <2>1. /\ BlockInv' /\ state' = 1 /\ UNCHANGED blockedOn /\ pc' = [pc EXCEPT ![f] = "wake"]
        /\ \E h \in Freds \ {f} :
             /\ pc[h] \in InWait /\ resumeInfo' = [resumeInfo EXCEPT ![h] = Rd]
             /\ Holders(Rd)' = (Holders(Rd) \ {f}) \cup (IF Null = Rd THEN {f} ELSE {})
                                 \cup (IF Rd = Rd THEN {h} ELSE {})
             /\ Holders(Wr)' = (Holders(Wr) \ {f}) \cup (IF Null = Wr THEN {f} ELSE {})
                                 \cup (IF Rd = Wr THEN {h} ELSE {})
    BY <1>a, <1>4, HandToMoves
  <2>2. PICK h \in Freds \ {f} : /\ pc[h] \in InWait /\ resumeInfo' = [resumeInfo EXCEPT ![h] = Rd]
                                 /\ Holders(Rd)' = {h} /\ Holders(Wr)' = {}
    BY <1>0, <1>2, <1>4, <2>1
  <2>3. Counted(1, {h}, {})
    BY FS_Singleton, FS_EmptySet DEF Counted
  <2>4. \A g \in Freds : pc[g] = "unblocked" => resumeInfo'[g] = resumeInfo[g]
    BY <2>2 DEF RWInv, BlockInv, BlockTypeOK, InWait, Suspending
  <2> QED BY <1>0, <2>1, <2>2, <2>3, <2>4, RWMoved
<1>5. ASSUME state \in {1, -1}, HandTo(f, Wr, -1)
      PROVE  RWInv'
  <2>1. /\ BlockInv' /\ state' = -1 /\ UNCHANGED blockedOn
        /\ pc' = [pc EXCEPT ![f] = "wake"]
        /\ \E h \in Freds \ {f} :
             /\ pc[h] \in InWait /\ resumeInfo' = [resumeInfo EXCEPT ![h] = Wr]
             /\ Holders(Rd)' = (Holders(Rd) \ {f}) \cup (IF Null = Rd THEN {f} ELSE {})
                                 \cup (IF Wr = Rd THEN {h} ELSE {})
             /\ Holders(Wr)' = (Holders(Wr) \ {f}) \cup (IF Null = Wr THEN {f} ELSE {})
                                 \cup (IF Wr = Wr THEN {h} ELSE {})
    BY <1>a, <1>5, HandToMoves
  <2>2. PICK h \in Freds \ {f} : /\ pc[h] \in InWait /\ resumeInfo' = [resumeInfo EXCEPT ![h] = Wr]
                                 /\ Holders(Rd)' = {} /\ Holders(Wr)' = {h}
    BY <1>0, <1>2, <1>5, <2>1
  <2>3. Counted(-1, {}, {h})
    BY FS_Singleton, FS_EmptySet DEF Counted
  <2>4. \A g \in Freds : pc[g] = "unblocked" => resumeInfo'[g] = resumeInfo[g]
    BY <2>2 DEF RWInv, BlockInv, BlockTypeOK, InWait, Suspending
  <2> QED BY <1>0, <2>1, <2>2, <2>3, <2>4, RWMoved
<1> QED BY <1>0, <1>1, <1>3, <1>4, <1>5 DEF Release, ReleaseRead, ReleaseWrite

\* release() resumes the fred that it has handed the lock to.
LEMMA ReleaseResumeInv ==
  ASSUME RWInv, NEW f \in Freds, ReleaseResume(f)
  PROVE  RWInv'
<1>0. BlockInv /\ BlockTypeOK /\ "idle" \in Labels \ InWait
  BY DEF RWInv, BlockInv, Labels, InWait, Suspending
<1>1. BlockInv'
  BY <1>0, WakeInv DEF ReleaseResume
<1>2. /\ pc[f] = "wake" /\ pc' = [pc EXCEPT ![f] = "idle"]
      /\ UNCHANGED <<resumeInfo, blockedOn, state, holds>>
  BY DEF ReleaseResume, Resume, bqVars, rwVars
<1>3. ASSUME NEW x \in {Rd, Wr} PROVE Holders(x)' = Holders(x)
  BY <1>0, <1>2 DEF Holders, BlockTypeOK, InWait, Suspending
<1>4. holds' = [holds EXCEPT ![f] = holds[f]] /\ holds[f] \in {Rd, Wr, Null}
  BY <1>2 DEF RWInv
<1> QED BY <1>1, <1>2, <1>3, <1>4, RWMoved DEF RWInv

\* Every step of the lock keeps its invariant.
LEMMA RWNextInv == RWInv /\ [RWNext]_rwAll => RWInv'
<1> SUFFICES ASSUME RWInv, [RWNext]_rwAll PROVE RWInv'
  OBVIOUS
<1>1. CASE UNCHANGED rwAll
  BY <1>1, RWStutter
<1>2. ASSUME NEW f \in Freds, Call(f) PROVE RWInv'
  BY <1>2, AcquireReadInv, AcquireWriteInv DEF Call
<1>3. ASSUME NEW f \in Freds, Continue(f) PROVE RWInv'
  BY <1>3, RWLibrary, ReadGrantedInv, WriteGrantedInv, AcquireTimeoutInv, ReleaseResumeInv
     DEF Continue
<1>4. ASSUME NEW f \in Freds, Release(f) PROVE RWInv'
  BY <1>4, ReleaseInv
<1>5. CASE (Tick \/ TimerStep) /\ UNCHANGED <<bqVars, rwVars>>
  BY <1>5, RWLibrary
<1> QED BY <1>1, <1>2, <1>3, <1>4, <1>5 DEF RWNext

\* In the composition only the lock takes steps while it is the part in use.
LEMMA RWPart ==
  /\ PrimitivesInit => (part = "rw" => RWInit)
  /\ [PrimitivesNext]_primitivesVars => part' = part /\ (part = "rw" => [RWNext]_rwAll)
<1>1. PrimitivesInit => (part = "rw" => RWInit)
  BY DEF PrimitivesInit
<1>2. PrimitivesNext => part' = part /\ (part = "rw" => RWNext)
  BY DEF PrimitivesNext
<1>3. UNCHANGED primitivesVars => part' = part /\ UNCHANGED rwAll
  BY DEF primitivesVars, rwAll
<1> QED BY <1>1, <1>2, <1>3

\* So does every step of the composition.
LEMMA RWInvariant == PrimitivesSpec => [](part = "rw" => RWInv)
<1>1. PrimitivesInit => (part = "rw" => RWInv)
  BY RWPart, RWInitInv
<1>2. (part = "rw" => RWInv) /\ [PrimitivesNext]_primitivesVars => (part = "rw" => RWInv)'
  BY RWPart, RWNextInv
<1> QED BY <1>1, <1>2, PTL DEF PrimitivesSpec

\* LockedRWLock: state counts the freds that have the lock, or have been
\* handed it by release() or by a reader in internalAR(), and readers and
\* writers exclude each other, whatever hand-over races with whatever timeout.
THEOREM RWCountIsExact == PrimitivesSpec => []RWStateCounts
<1>1. (part = "rw" => RWInv) => RWStateCounts
  BY CountedStateCounts DEF RWStateCounts
<1> QED BY <1>1, RWInvariant, PTL

\* A release() hands the lock to the other side, if anybody waits there.
LEMMA AlternatesStep ==
  ASSUME RWInv, [RWNext]_rwAll
  PROVE  Alternates
<1> SUFFICES ASSUME NEW f \in Freds, holds[f] \in {Rd, Wr}, holds'[f] = Null
             PROVE  /\ holds[f] = Rd /\ Waiting(Wr) # {} /\ state = 1 => state' = -1
                    /\ holds[f] = Wr /\ Waiting(Rd) # {} => state' = 1
  BY RWFacts DEF Alternates
<1>0. /\ Rd # Null /\ Wr # Null /\ Rd # Wr /\ holds[f] # Null /\ holds'[f] # holds[f]
      /\ BlockInv
  BY RWFacts DEF RWInv
<1>1. ASSUME NEW g \in Freds, Call(g) \/ Continue(g) PROVE FALSE
  <2>1. CASE UNCHANGED holds
    BY <1>0, <2>1
  <2>2. ASSUME NEW q \in {Rd, Wr}, holds' = [holds EXCEPT ![g] = q] PROVE FALSE
    BY <1>0, <2>2 DEF RWInv
  <2> QED BY <1>1, <2>1, <2>2 DEF Call, Continue, AcquireRead, AcquireWrite, Take,
     BlockOn, rwVars,
            ReadGranted, WriteGranted, AcquireTimeout, ReleaseResume
<1>2. ASSUME NEW g \in Freds, Release(g)
      PROVE  /\ holds[f] = Rd /\ Waiting(Wr) # {} /\ state = 1 => state' = -1
             /\ holds[f] = Wr /\ Waiting(Rd) # {} => state' = 1
  <2>1. g = f /\ pc[f] = "idle"
    BY <1>0, <1>2 DEF Release, RWInv
  <2>2. holds[f] = Wr => state = -1
    <3>1. holds[f] = Wr => f \in Holders(Wr)
      BY <2>1, RWHas
    <3> QED BY <3>1, CountedFacts DEF RWInv, Counted
  <2>3. (Nobody(Rd) <=> Waiting(Rd) = {}) /\ (Nobody(Wr) <=> Waiting(Wr) = {})
    BY <1>0, NobodyWaits, RWFacts DEF Nobody
  <2> QED BY <1>2, <2>2, <2>3 DEF Release, ReleaseRead, ReleaseWrite, HandTo, HandToNobody
<1>3. CASE UNCHANGED holds
  BY <1>0, <1>3
<1> QED BY <1>1, <1>2, <1>3 DEF RWNext, rwAll, rwVars

\* LockedRWLock: release() by the last reader never leaves a waiting writer
\* behind for another reader, nor release() by a writer a waiting reader for
\* another writer.
THEOREM RWReleaseAlternates == PrimitivesSpec => ReleaseAlternates
<1>1. (part = "rw" => RWInv) /\ [PrimitivesNext]_primitivesVars => (part = "rw" => Alternates)
  BY RWPart, AlternatesStep
<1>2. (part = "rw" => RWInv) /\ [PrimitivesNext]_primitivesVars
        => [part = "rw" => Alternates]_primitivesVars
  BY <1>1
<1> QED BY <1>2, RWInvariant, PTL DEF PrimitivesSpec, ReleaseAlternates

---------------------------------------------------------------------------
(* LockedMutex and OwnerMutex.                                              *)

\* What the library does to a fred between two steps of the mutex.
LEMMA LibraryMoves ==
  ASSUME BlockInv, BlockInv',
         \/ \E f \in Freds : BlockStep(f)
         \/ (Tick \/ TimerStep) /\ UNCHANGED bqVars,
         NEW g \in Freds
  PROVE  /\ blockedOn'[g] = blockedOn[g]
         /\ resumeInfo'[g] = resumeInfo[g] \/ (resumeInfo[g] = Null /\ resumeInfo'[g] = Timer)
         /\ \/ pc'[g] = pc[g]
            \/ /\ pc[g] \in InWait /\ resumeInfo'[g] = resumeInfo[g]
               /\ \/ pc'[g] \in InWait
                  \/ pc'[g] = "unblocked" /\ resumeInfo[g] = blockedOn[g]
                  \/ pc'[g] = "timedout" /\ resumeInfo[g] = Timer
                  \/ pc'[g] = "idle" /\ resumeInfo[g] = Timer /\ blockedOn[g] = Null
<1>0. BlockTypeOK
  BY DEF BlockInv
<1>1. ASSUME NEW f \in Freds, BlockStep(f)
      PROVE  \E l \in Labels :
               /\ UNCHANGED <<resumeInfo, blockedOn>> /\ pc[f] \in InWait
               /\ pc' = [pc EXCEPT ![f] = l]
               /\ \/ l \in InWait
                  \/ l = "unblocked" /\ resumeInfo[f] = blockedOn[f]
                  \/ l = "timedout" /\ resumeInfo[f] = Timer
                  \/ l = "idle" /\ resumeInfo[f] = Timer /\ blockedOn[f] = Null
  BY <1>1, BlockStepMoves
<1>2. CASE \E f \in Freds : BlockStep(f)
  <2>1. PICK f \in Freds : BlockStep(f)
    BY <1>2
  <2>2. PICK l \in Labels :
               /\ UNCHANGED <<resumeInfo, blockedOn>> /\ pc[f] \in InWait
               /\ pc' = [pc EXCEPT ![f] = l]
               /\ \/ l \in InWait
                  \/ l = "unblocked" /\ resumeInfo[f] = blockedOn[f]
                  \/ l = "timedout" /\ resumeInfo[f] = Timer
                  \/ l = "idle" /\ resumeInfo[f] = Timer /\ blockedOn[f] = Null
    BY <1>1, <2>1
  <2>3. pc'[g] = pc[g] \/ (g = f /\ pc'[g] = l)
    BY <1>0, <2>2 DEF BlockTypeOK
  <2> QED BY <2>2, <2>3
<1>3. CASE (Tick \/ TimerStep) /\ UNCHANGED bqVars
  BY <1>0, <1>3, TimerMoves DEF BlockTypeOK, CanWin
<1> QED BY <1>2, <1>3

\* A fred in block() waits for the mutex, and one that comes back from it has
\* been woken by release().  The owner is outside, or under Fifo woken; what
\* MutexHandover says about the nesting count and about the sleepers.
MtxInv ==
  /\ BlockInv
  /\ fifo \in BOOLEAN /\ mutexOwner \in Freds \cup {Null} /\ nesting \in Nat
  /\ limit \in [Freds -> 0 .. Never]
  /\ \A f \in Freds : pc[f] \in InWait => blockedOn[f] = Mtx
  /\ \A f \in Freds : pc[f] = "unblocked" => resumeInfo[f] = Mtx
  /\ mutexOwner # Null => pc[mutexOwner] = "idle" \/ (fifo /\ WokenByRelease(mutexOwner))
  /\ MutexHandover

\* The queue of the mutex is a queue.
LEMMA MtxFacts == Mtx \in Queues /\ Mtx # Null /\ Mtx # Timer /\ Null \notin Freds
                    /\ "idle" \in Labels \ InWait /\ "idle" \notin InWait \cup {"unblocked"}
                    /\ "wake" \notin InWait \cup {"unblocked"}
  BY MtxAssumption, QueueAssumption, FredAssumption DEF Labels, InWait, Suspending

\* The mutex starts without an owner.
LEMMA MtxInitInv == LockedMutexInit => MtxInv
<1> SUFFICES ASSUME LockedMutexInit PROVE MtxInv
  OBVIOUS
<1>1. BlockInv
  BY BlockInitInv DEF LockedMutexInit
<1>2. \A f \in Freds : pc[f] = "idle"
  BY DEF LockedMutexInit, FredInit
<1>3. Waiting(Mtx) = {}
  BY <1>1, <1>2, WaitingOn, MtxFacts DEF Waiting
<1>4. \A f \in Freds : ~WokenByRelease(f)
  BY <1>2, MtxFacts DEF WokenByRelease
<1>5. Never \in 0 .. Never
  BY TimeAssumption DEF Never
<1> QED BY <1>1, <1>2, <1>3, <1>4, <1>5, MtxFacts DEF LockedMutexInit, MtxInv, MutexHandover

\* Who sleeps and who has been woken, told without looking into the queue.
LEMMA MtxWho ==
  ASSUME MtxInv, NEW f \in Freds
  PROVE  f \in Waiting(Mtx) <=> pc[f] \in InWait /\ resumeInfo[f] = Null
  BY WaitingOn, MtxFacts DEF MtxInv

\* Who waits for the mutex, after a step that keeps the library invariant.
LEMMA MtxWhoAfter ==
  ASSUME BlockInv', NEW f \in Freds
  PROVE  f \in Waiting(Mtx)' <=> pc'[f] \in InWait /\ blockedOn'[f] = Mtx /\ resumeInfo'[f] = Null
  BY WaitingOnAfter, MtxFacts

\* The steps of block() and of the timer keep the mutex invariant.
LEMMA MtxLibrary ==
  ASSUME MtxInv, UNCHANGED mtxVars,
         \/ \E f \in Freds : BlockStep(f)
         \/ (Tick \/ TimerStep) /\ UNCHANGED bqVars
  PROVE  MtxInv'
<1>0. BlockInv /\ UNCHANGED <<fifo, mutexOwner, nesting, limit>>
  BY DEF MtxInv, mtxVars
<1>1. BlockInv'
  BY <1>0, BlockStepInv, TickInv, TimerStepInv
<1>2. ASSUME NEW g \in Freds
      PROVE  /\ blockedOn'[g] = blockedOn[g]
             /\ resumeInfo'[g] = resumeInfo[g] \/ (resumeInfo[g] = Null /\ resumeInfo'[g] = Timer)
             /\ \/ pc'[g] = pc[g]
                \/ /\ pc[g] \in InWait /\ resumeInfo'[g] = resumeInfo[g]
                   /\ \/ pc'[g] \in InWait
                      \/ pc'[g] = "unblocked" /\ resumeInfo[g] = Mtx
                      \/ pc'[g] = "timedout" /\ resumeInfo[g] = Timer
  BY <1>0, <1>1, LibraryMoves, MtxFacts DEF MtxInv
<1>3. ASSUME NEW g \in Freds
      PROVE  /\ pc'[g] \in InWait => blockedOn'[g] = Mtx
             /\ pc'[g] = "unblocked" => resumeInfo'[g] = Mtx
             /\ WokenByRelease(g)' <=> WokenByRelease(g)
             /\ g \in Waiting(Mtx)' => g \in Waiting(Mtx)
             /\ pc[g] = "idle" => pc'[g] = "idle"
  BY <1>1, <1>2, MtxFacts, MtxWho, MtxWhoAfter DEF MtxInv, WokenByRelease, InWait,
     Suspending
<1>4. Waiting(Mtx)' \subseteq Waiting(Mtx)
  BY <1>3 DEF Waiting
<1>5. MutexHandover'
  BY <1>0, <1>3, <1>4 DEF MtxInv, MutexHandover
<1> QED BY <1>0, <1>1, <1>3, <1>5 DEF MtxInv

\* A step that changes nothing keeps it as well.
LEMMA MtxStutter ==
  ASSUME MtxInv, UNCHANGED lockedMutexVars
  PROVE  MtxInv'
<1>1. BlockInv'
  BY DEF MtxInv, lockedMutexVars, fredVars, timerVars, bqVars, BlockInv, BlockTypeOK,
     RaceInv,
     RaceRunning, RaceOff, OwedInv, NodeInv, TimerInv, TimerNodes, TimerArmed, Owed,
     InQueue, CanWin,
     Timed
<1>2. Waiting(Mtx)' = Waiting(Mtx) /\ \A f : WokenByRelease(f)' <=> WokenByRelease(f)
  BY DEF lockedMutexVars, fredVars, bqVars, Waiting, WokenByRelease, InQueue, CanWin
<1>3. UNCHANGED <<fifo, mutexOwner, nesting, limit, pc, resumeInfo, blockedOn>>
  BY DEF lockedMutexVars, fredVars, bqVars, mtxVars
<1>4. MutexHandover'
  BY <1>2, <1>3 DEF MtxInv, MutexHandover
<1> QED BY <1>1, <1>2, <1>3, <1>4 DEF MtxInv

\* A fred outside block() goes on, and nobody else is touched.
LEMMA MtxMoved ==
  ASSUME MtxInv, BlockInv', NEW f \in Freds, NEW l, l \notin InWait \cup {"unblocked"},
         pc[f] \notin InWait, pc' = [pc EXCEPT ![f] = l],
         UNCHANGED <<resumeInfo, blockedOn>>
  PROVE  /\ \A g \in Freds : WokenByRelease(g)' <=> WokenByRelease(g) /\ g # f
         /\ Waiting(Mtx)' = Waiting(Mtx)
         /\ pc'[f] = l /\ \A g \in Freds \ {f} : pc'[g] = pc[g]
         /\ \A g \in Freds : pc'[g] \in InWait => blockedOn'[g] = Mtx
         /\ \A g \in Freds : pc'[g] = "unblocked" => resumeInfo'[g] = Mtx
<1>1. pc'[f] = l /\ \A g \in Freds \ {f} : pc'[g] = pc[g]
  BY DEF MtxInv, BlockInv, BlockTypeOK
<1>2. ASSUME NEW g \in Freds
      PROVE  /\ WokenByRelease(g)' <=> WokenByRelease(g) /\ g # f
             /\ g \in Waiting(Mtx)' <=> g \in Waiting(Mtx)
             /\ pc'[g] \in InWait => blockedOn'[g] = Mtx
             /\ pc'[g] = "unblocked" => resumeInfo'[g] = Mtx
  <2>1. CASE g = f
    BY <1>1, <2>1, MtxWho, MtxWhoAfter DEF WokenByRelease
  <2>2. CASE g # f
    BY <1>1, <2>2, MtxWho, MtxWhoAfter DEF WokenByRelease, MtxInv
  <2> QED BY <2>1, <2>2
<1>3. Waiting(Mtx)' \subseteq Freds /\ Waiting(Mtx) \subseteq Freds
  BY DEF Waiting
<1>4. Waiting(Mtx)' = Waiting(Mtx)
  BY <1>2, <1>3
<1> QED BY <1>1, <1>2, <1>4

\* acquire() has the mutex: a new owner, or the old one.
LEMMA AcquiredInv ==
  ASSUME MtxInv, NEW f \in Freds, Acquired(f), mutexOwner' = f,
         pc[f] \in {"idle", "unblocked"}, mutexOwner \in {f, Null},
         mutexOwner = Null => ~fifo \/ ~WokenByRelease(f)
  PROVE  MtxInv'
<1>0. /\ BlockInv /\ BlockTypeOK /\ pc[f] \notin InWait /\ pc[f] # "wake"
      /\ Never \in 0 .. Never
  BY TimeAssumption DEF MtxInv, BlockInv, InWait, Suspending, Never
<1>1. /\ pc' = [pc EXCEPT ![f] = "idle"] /\ nesting' = nesting + 1 /\ fifo' = fifo
      /\ limit' = [limit EXCEPT ![f] = Never]
      /\ UNCHANGED <<runState, resumeInfo, readyLinks, pending, timerVars, bqVars>>
  BY DEF Acquired, MtxGoto, raceVars
<1>2. BlockInv'
  BY <1>0, <1>1, LabelInv, MtxFacts
<1>3. /\ \A g \in Freds : WokenByRelease(g)' <=> WokenByRelease(g) /\ g # f
      /\ pc'[f] = "idle"
      /\ \A g \in Freds : pc'[g] \in InWait => blockedOn'[g] = Mtx
      /\ \A g \in Freds : pc'[g] = "unblocked" => resumeInfo'[g] = Mtx
  BY <1>0, <1>1, <1>2, MtxMoved, MtxFacts DEF bqVars
<1>4. nesting' > 0 /\ nesting' \in Nat /\ limit' \in [Freds -> 0 .. Never]
  BY <1>0, <1>1 DEF MtxInv
<1>5. fifo => \A g \in Freds : ~WokenByRelease(g)'
  BY <1>3, MtxFacts DEF MtxInv, MutexHandover
<1>6. MutexHandover'
  BY <1>1, <1>3, <1>4, <1>5, MtxFacts DEF MutexHandover
<1> QED BY <1>1, <1>2, <1>3, <1>4, <1>6 DEF MtxInv

\* A fred that gives up, with the mutex not its own.
LEMMA GivesUpInv ==
  ASSUME MtxInv, NEW f \in Freds, pc[f] \in {"idle", "unblocked", "timedout"}, 
         pc[f] = "unblocked" => ~fifo /\ mutexOwner # Null,
         pc' = [pc EXCEPT ![f] = "idle"], limit' = [limit EXCEPT ![f] = Never],
         UNCHANGED <<raceVars, timerVars, bqVars, fifo, mutexOwner, nesting>>
  PROVE  MtxInv'
<1>0. /\ BlockInv /\ BlockTypeOK /\ pc[f] \notin InWait /\ pc[f] # "wake"
      /\ Never \in 0 .. Never
  BY TimeAssumption DEF MtxInv, BlockInv, InWait, Suspending, Never
<1>2. BlockInv' /\ UNCHANGED <<resumeInfo, blockedOn>>
  BY <1>0, LabelInv, MtxFacts DEF raceVars, bqVars
<1>3. /\ \A g \in Freds : WokenByRelease(g)' <=> WokenByRelease(g) /\ g # f
      /\ Waiting(Mtx)' = Waiting(Mtx)
      /\ pc'[f] = "idle" /\ \A g \in Freds \ {f} : pc'[g] = pc[g]
      /\ \A g \in Freds : pc'[g] \in InWait => blockedOn'[g] = Mtx
      /\ \A g \in Freds : pc'[g] = "unblocked" => resumeInfo'[g] = Mtx
  BY <1>0, <1>2, MtxMoved, MtxFacts
<1>4. limit' \in [Freds -> 0 .. Never]
  BY <1>0 DEF MtxInv
<1>5. WokenByRelease(f) => ~fifo /\ mutexOwner # Null
  BY <1>0 DEF WokenByRelease, InWait, Suspending
<1>6. MutexHandover'
  <2>1. mutexOwner' = Null /\ Waiting(Mtx)' # {} => ~fifo' /\ \E g \in Freds : WokenByRelease(g)'
    BY <1>3, <1>5 DEF MtxInv, MutexHandover
  <2>2. fifo' => \A g \in Freds : WokenByRelease(g)' => mutexOwner' = g
    BY <1>3 DEF MtxInv, MutexHandover
  <2>3. nesting' > 0 <=> mutexOwner' # Null /\ ~(fifo' /\ WokenByRelease(mutexOwner)')
    BY <1>3, <1>5, MtxFacts DEF MtxInv, MutexHandover
  <2> QED BY <2>1, <2>2, <2>3 DEF MutexHandover
<1>7. mutexOwner' # Null => pc'[mutexOwner'] = "idle" \/ (fifo' /\ WokenByRelease(mutexOwner)')
  BY <1>3, <1>5, MtxFacts DEF MtxInv
<1> QED BY <1>2, <1>3, <1>4, <1>6, <1>7 DEF MtxInv

\* block() on a mutex that somebody has.
LEMMA MtxBlocksInv ==
  ASSUME MtxInv, NEW f \in Freds, NEW t \in 0 .. Never, pc[f] \in {"idle", "unblocked"},
         pc[f] = "unblocked" => ~fifo,
         mutexOwner # Null, mutexOwner # f, Block(f, Mtx, t),
         limit' = [limit EXCEPT ![f] = t], UNCHANGED <<fifo, mutexOwner, nesting>>
  PROVE  MtxInv'
<1>0. /\ BlockInv /\ BlockTypeOK /\ pc[f] \notin InWait /\ pc[f] # "wake"
      /\ mutexOwner \in Freds
  BY DEF MtxInv, BlockInv, InWait, Suspending
<1>1. BlockInv'
  BY <1>0, BlockEntryInv, MtxFacts
<1>2. /\ resumeInfo' = [resumeInfo EXCEPT ![f] = Null]
      /\ blockedOn' = [blockedOn EXCEPT ![f] = Mtx]
      /\ \E l \in InWait : pc' = [pc EXCEPT ![f] = l]
  BY DEF Block, PrepareResumeRace, InWait, Suspending
<1>3. /\ resumeInfo'[f] = Null /\ blockedOn'[f] = Mtx /\ pc'[f] \in InWait
      /\ \A g \in Freds \ {f} : /\ resumeInfo'[g] = resumeInfo[g] /\ blockedOn'[g] = blockedOn[g]
                                /\ pc'[g] = pc[g]
  BY <1>0, <1>2 DEF BlockTypeOK
<1>4. \A g \in Freds : /\ pc'[g] \in InWait => blockedOn'[g] = Mtx
                       /\ pc'[g] = "unblocked" => resumeInfo'[g] = Mtx
                       /\ WokenByRelease(g)' <=> WokenByRelease(g) /\ g # f
  BY <1>3, MtxFacts DEF MtxInv, WokenByRelease, InWait, Suspending
<1>5. MutexHandover'
  BY <1>0, <1>4, MtxFacts DEF MtxInv, MutexHandover
<1>6. limit' \in [Freds -> 0 .. Never]
  BY DEF MtxInv
<1> QED BY <1>0, <1>1, <1>3, <1>4, <1>5, <1>6 DEF MtxInv

\* One round of the acquire loop: the free mutex is taken, or the fred blocks.
LEMMA AcquireRoundInv ==
  ASSUME MtxInv, NEW f \in Freds, NEW t \in 0 .. Never, AcquireRound(f, t), mutexOwner # f,
         pc[f] = "idle" \/ (pc[f] = "unblocked" /\ ~fifo)
  PROVE  MtxInv'
<1>0. pc[f] = "idle" => ~WokenByRelease(f)
  BY MtxFacts DEF WokenByRelease
<1>1. CASE mutexOwner = Null /\ mutexOwner' = f /\ Acquired(f)
  BY <1>0, <1>1, AcquiredInv
<1>2. CASE /\ mutexOwner # Null /\ Block(f, Mtx, t)
           /\ limit' = [limit EXCEPT ![f] = t]
           /\ UNCHANGED <<fifo, mutexOwner, nesting>>
  BY <1>2, MtxBlocksInv
<1>3. CASE /\ mutexOwner # Null /\ TimeoutPassed(t)
           /\ limit' = [limit EXCEPT ![f] = Never]
           /\ MtxGoto(f, "idle")
           /\ UNCHANGED <<raceVars, timerVars, bqVars, fifo, mutexOwner, nesting>>
  BY <1>3, GivesUpInv DEF MtxGoto
<1> QED BY <1>1, <1>2, <1>3 DEF AcquireRound

\* acquire() by the owner counts, by another fred it is a round of the loop.
LEMMA MtxAcquireInv ==
  ASSUME MtxInv, NEW f \in Freds, NEW t \in MtxTimeouts, MtxAcquire(f, t)
  PROVE  MtxInv'
<1>1. pc[f] = "idle" /\ t \in 0 .. Never
  BY MtxAssumption DEF MtxAcquire
<1> QED BY <1>1, AcquiredInv, AcquireRoundInv, MtxFacts DEF MtxAcquire

\* A fred comes back from block() as the owner.
LEMMA MtxUnblockedInv ==
  ASSUME MtxInv, NEW f \in Freds, MtxUnblocked(f)
  PROVE  MtxInv'
<1>1. pc[f] = "unblocked" /\ WokenByRelease(f) /\ limit[f] \in 0 .. Never
  BY DEF MtxUnblocked, MtxInv, WokenByRelease
<1>2. CASE fifo /\ Acquired(f) /\ UNCHANGED mutexOwner
  <2>1. mutexOwner = f
    BY <1>1, <1>2 DEF MtxInv, MutexHandover
  <2> QED BY <1>1, <1>2, <2>1, AcquiredInv, MtxFacts
<1>3. CASE ~fifo /\ AcquireRound(f, limit[f])
  <2>1. mutexOwner # f
    BY <1>1, <1>3, MtxFacts DEF MtxInv
  <2> QED BY <1>1, <1>3, <2>1, AcquireRoundInv
<1> QED BY <1>2, <1>3 DEF MtxUnblocked

\* An acquire() that has timed out is not the owner.
LEMMA MtxTimedOutInv ==
  ASSUME MtxInv, NEW f \in Freds, MtxTimedOut(f)
  PROVE  MtxInv'
  BY GivesUpInv DEF MtxTimedOut, MtxGoto

\* unblock() wins the fred at i, and leaves all others as they are.
LEMMA UnblockWins ==
  ASSUME BlockInv, NEW q \in Queues, NEW r \in Freds, NEW i \in DOMAIN bq[q],
  Unblock(r, q, i)
  PROVE  \E h \in Freds :
           /\ h = bq[q][i] /\ h \in Waiting(q)
           /\ resumeInfo' = [resumeInfo EXCEPT ![h] = q]
           /\ blockedOn' = blockedOn
<1>1. bq[q] \in Seq(Freds) /\ DOMAIN bq[q] = 1 .. Len(bq[q])
  BY LenProperties DEF BlockInv, BlockTypeOK
<1>2. bq[q][i] \in Freds
  BY <1>1, ElementOfSeq
<1>3. bq[q][i] \in Waiting(q)
  BY <1>1, <1>2 DEF Unblock, FirstWaiting, Waiting, InQueue, Contains
<1> QED BY <1>2, <1>3 DEF Unblock, RaceResume

\* release() hands the mutex to a waiter, or wakes it to compete.
LEMMA MtxHandsOverInv ==
  ASSUME MtxInv, NEW f \in Freds, pc[f] = "idle", mutexOwner = f, nesting' = nesting - 1,
         nesting = 1, NEW i \in DOMAIN bq[Mtx], Unblock(f, Mtx, i),
         mutexOwner' = Handover(bq[Mtx][i]), MtxGoto(f, "wake"), UNCHANGED <<fifo, limit>>
  PROVE  MtxInv'
<1>0. BlockInv /\ BlockTypeOK /\ pc[f] \notin InWait /\ pc[f] # "wake" /\ nesting' = 0
  BY DEF MtxInv, BlockInv, InWait, Suspending
<1>1. pc' = [pc EXCEPT ![f] = "wake"]
  BY DEF MtxGoto
<1>2. BlockInv'
  BY <1>0, <1>1, UnblockInv, MtxFacts
<1>3. PICK h \in Freds : /\ h = bq[Mtx][i] /\ h \in Waiting(Mtx)
                         /\ resumeInfo' = [resumeInfo EXCEPT ![h] = Mtx]
                         /\ blockedOn' = blockedOn
  BY <1>0, UnblockWins, MtxFacts
<1>4. pc[h] \in InWait /\ resumeInfo[h] = Null /\ h # f
  BY <1>0, <1>3, MtxWho
<1>5. /\ pc'[f] = "wake" /\ pc'[h] = pc[h] /\ resumeInfo'[h] = Mtx
      /\ \A g \in Freds \ {f} : pc'[g] = pc[g]
      /\ \A g \in Freds \ {h} : resumeInfo'[g] = resumeInfo[g]
  BY <1>0, <1>1, <1>3, <1>4 DEF BlockTypeOK
<1>6. \A g \in Freds : /\ pc'[g] \in InWait => blockedOn'[g] = Mtx
                       /\ pc'[g] = "unblocked" => resumeInfo'[g] = Mtx
                       /\ WokenByRelease(g)' <=> WokenByRelease(g) \/ g = h
  <2>1. ~WokenByRelease(f)
    BY MtxFacts DEF WokenByRelease
  <2> QED BY <1>3, <1>4, <1>5, <2>1, MtxFacts DEF MtxInv, WokenByRelease
<1>7. mutexOwner' = (IF fifo THEN h ELSE Null) /\ fifo' = fifo
  BY <1>3 DEF Handover
<1>8. fifo => \A g \in Freds : ~WokenByRelease(g)
  <2>1. ~WokenByRelease(f)
    BY MtxFacts DEF WokenByRelease
  <2> QED BY <2>1 DEF MtxInv, MutexHandover
<1>9. MutexHandover'
  BY <1>0, <1>6, <1>7, <1>8, MtxFacts DEF MutexHandover
<1>10. /\ mutexOwner' \in Freds \cup {Null}
       /\ mutexOwner' # Null => fifo' /\ WokenByRelease(mutexOwner)'
  BY <1>6, <1>7
<1> QED BY <1>0, <1>2, <1>6, <1>7, <1>9, <1>10 DEF MtxInv

\* release() hands over, or leaves the mutex free.
LEMMA MtxReleaseInv ==
  ASSUME MtxInv, NEW f \in Freds, MtxRelease(f)
  PROVE  MtxInv'
<1>0. /\ pc[f] = "idle" /\ mutexOwner = f /\ nesting' = nesting - 1
      /\ UNCHANGED <<fifo, limit>>
  BY DEF MtxRelease
<1>a. ASSUME UNCHANGED <<fredVars, timerVars, bqVars>>
      PROVE  /\ BlockInv' /\ Waiting(Mtx)' = Waiting(Mtx)
             /\ \A g : WokenByRelease(g)' <=> WokenByRelease(g)
             /\ UNCHANGED <<pc, resumeInfo, blockedOn>>
  <2>1. BlockInv'
    BY <1>a DEF MtxInv, fredVars, timerVars, bqVars, BlockInv, BlockTypeOK, RaceInv,
       RaceRunning, RaceOff, OwedInv, NodeInv, TimerInv, TimerNodes, TimerArmed, Owed,
       InQueue, CanWin,
       Timed
  <2> QED BY <1>a, <2>1 DEF fredVars, bqVars, Waiting, WokenByRelease, InQueue, CanWin
<1>b. ~WokenByRelease(f)
  BY <1>0, MtxFacts DEF WokenByRelease
<1>1. CASE nesting > 1 /\ UNCHANGED <<fredVars, timerVars, bqVars, mutexOwner>>
  <2>1. UNCHANGED <<fredVars, timerVars, bqVars>> /\ mutexOwner' = f /\ fifo' = fifo
    BY <1>0, <1>1
  <2>2. nesting' > 0 /\ nesting' \in Nat
    BY <1>0, <1>1 DEF MtxInv
  <2>3. MutexHandover'
    BY <1>0, <1>a, <1>b, <2>1, <2>2, MtxFacts DEF MtxInv, MutexHandover
  <2>4. pc'[mutexOwner'] = "idle"
    BY <1>0, <1>a, <2>1
  <2> QED BY <1>0, <1>a, <2>1, <2>2, <2>3, <2>4 DEF MtxInv
<1>2. CASE /\ nesting = 1
           /\ \E i \in DOMAIN bq[Mtx] : Unblock(f, Mtx, i) /\ mutexOwner' = Handover(bq[Mtx][i])
           /\ MtxGoto(f, "wake")
  BY <1>0, <1>2, MtxHandsOverInv
<1>3. CASE /\ nesting = 1 /\ Waiting(Mtx) = {} /\ mutexOwner' = Null
           /\ UNCHANGED <<fredVars, timerVars, bqVars>>
  <2>1. nesting' = 0
    BY <1>0, <1>3
  <2>2. MutexHandover'
    BY <1>0, <1>3, <1>a, <1>b, <2>1, MtxFacts DEF MtxInv, MutexHandover
  <2> QED BY <1>0, <1>3, <1>a, <2>1, <2>2 DEF MtxInv
<1> QED BY <1>1, <1>2, <1>3 DEF MtxRelease

\* The new owner is resumed.
LEMMA MtxResumeInv ==
  ASSUME MtxInv, NEW f \in Freds, MtxResume(f)
  PROVE  MtxInv'
<1>0. BlockInv /\ pc[f] = "wake" /\ pc[f] \notin InWait
  BY DEF MtxInv, MtxResume, InWait, Suspending
<1>1. /\ pc' = [pc EXCEPT ![f] = "idle"]
      /\ UNCHANGED <<resumeInfo, blockedOn, fifo, mutexOwner, nesting, limit>>
  BY DEF MtxResume, MtxGoto, Resume, bqVars, mtxVars
<1>2. BlockInv'
  BY <1>0, WakeInv, MtxFacts DEF MtxResume, MtxGoto
<1>3. /\ \A g \in Freds : WokenByRelease(g)' <=> WokenByRelease(g) /\ g # f
      /\ Waiting(Mtx)' = Waiting(Mtx)
      /\ pc'[f] = "idle" /\ \A g \in Freds \ {f} : pc'[g] = pc[g]
      /\ \A g \in Freds : pc'[g] \in InWait => blockedOn'[g] = Mtx
      /\ \A g \in Freds : pc'[g] = "unblocked" => resumeInfo'[g] = Mtx
  BY <1>0, <1>1, <1>2, MtxMoved, MtxFacts
<1>4. ~WokenByRelease(f)
  BY <1>0, MtxFacts DEF WokenByRelease
<1>5. MutexHandover'
  BY <1>1, <1>3, <1>4 DEF MtxInv, MutexHandover
<1> QED BY <1>1, <1>2, <1>3, <1>4, <1>5 DEF MtxInv

\* Every step of the mutex keeps its invariant.
LEMMA MtxNextInv == MtxInv /\ [LockedMutexNext]_lockedMutexVars => MtxInv'
<1> SUFFICES ASSUME MtxInv, [LockedMutexNext]_lockedMutexVars PROVE MtxInv'
  OBVIOUS
<1>1. CASE UNCHANGED lockedMutexVars
  BY <1>1, MtxStutter
<1>2. ASSUME NEW f \in Freds, \/ \E t \in MtxTimeouts : MtxAcquire(f, t)
                              \/ MtxUnblocked(f) \/ MtxTimedOut(f) \/ MtxRelease(f) \/ MtxResume(f)
      PROVE  MtxInv'
  BY <1>2, MtxAcquireInv, MtxUnblockedInv, MtxTimedOutInv, MtxReleaseInv, MtxResumeInv
<1>3. ASSUME NEW f \in Freds, BlockStep(f), UNCHANGED mtxVars PROVE MtxInv'
  BY <1>3, MtxLibrary
<1>4. CASE (Tick \/ TimerStep) /\ UNCHANGED <<bqVars, mtxVars>>
  BY <1>4, MtxLibrary
<1> QED BY <1>1, <1>2, <1>3, <1>4 DEF LockedMutexNext

\* The steps of the composition are those of the mutex.
LEMMA MtxPart ==
  /\ PrimitivesInit => (part = "mutex" => LockedMutexInit)
  /\ [PrimitivesNext]_primitivesVars
       => part' = part /\ (part = "mutex" => [LockedMutexNext]_lockedMutexVars)
<1>1. PrimitivesInit => (part = "mutex" => LockedMutexInit)
  BY DEF PrimitivesInit
<1>2. PrimitivesNext => part' = part /\ (part = "mutex" => LockedMutexNext)
  BY DEF PrimitivesNext
<1>3. UNCHANGED primitivesVars => part' = part /\ UNCHANGED lockedMutexVars
  BY DEF primitivesVars, lockedMutexVars
<1> QED BY <1>1, <1>2, <1>3

\* LockedMutex and OwnerMutex: no release that meets a timeout leaves a
\* sleeper behind on a free mutex; under Fifo the woken fred is the owner
\* before it runs; and the nesting count, kept outside the lock, is the
\* owner's.
THEOREM MutexIsHandedOver == PrimitivesSpec => []MutexHandedOver
<1>1. PrimitivesInit => (part = "mutex" => MtxInv)
  BY MtxPart, MtxInitInv
<1>2. (part = "mutex" => MtxInv) /\ [PrimitivesNext]_primitivesVars => (part = "mutex" => MtxInv)'
  BY MtxPart, MtxNextInv
<1>3. (part = "mutex" => MtxInv) => MutexHandedOver
  BY DEF MutexHandedOver, MtxInv
<1> QED BY <1>1, <1>2, <1>3, PTL DEF PrimitivesSpec
---------------------------------------------------------------------------
(* The spin locks.                                                          *)

\* The set counts of the instance are those of this module.
LEMMA SpinCardinality ==
  ASSUME NEW X
  PROVE  L!Cardinality(X) = Cardinality(X)
  BY DEF L!Cardinality, Cardinality

SpinningAt(places) == {t \in Freds : spinAt[t] \in places}

\* A set of threads that cannot be told apart has at most one element.
LEMMA AtMostOne ==
  ASSUME NEW X, X \subseteq Freds, \A t, u \in X : t = u
  PROVE  Cardinality(X) <= 1
<1>1. X = {} \/ \E t : X = {t}
  OBVIOUS
<1>2. CASE X = {}
  BY <1>2, FS_EmptySet
<1>3. ASSUME NEW t, X = {t} PROVE Cardinality(X) <= 1
  <2>1. Cardinality(X) = 1
    BY <1>3, FS_Singleton
  <2> QED BY <2>1
<1> QED BY <1>1, <1>2, <1>3

\* BinaryLock: whoever is in has set the word.
BinaryInv ==
  /\ spinAt \in [Freds -> {"out", "enter", "set", "spin", "in"}]
  /\ word \in {0, 1}
  /\ \A t, u \in Freds : spinAt[t] = "in" /\ spinAt[u] = "in" => t = u
  /\ \A t \in Freds : spinAt[t] = "in" => word = 1

\* BinaryOwnerLock: whoever is in, or on the way, is the owner.
OwnerInv ==
  /\ spinAt \in [Freds -> {"out", "enter", "count", "in", "open"}]
  /\ local \in [Freds -> Int] /\ serving \in Int
  /\ \A t \in Freds : /\ spinAt[t] \in {"count", "in", "open"} => whose = t
                      /\ spinAt[t] = "in" => serving = local[t]

\* TicketLock: the tickets between serving and ticket are those of the threads
\* that have one, and a tryAcquire() that has read serving has an old value.
TicketInv ==
  /\ spinAt \in [Freds -> {"out", "enter", "queue", "in", "read", "cas"}]
  /\ local \in [Freds -> Int] /\ serving \in Int /\ word \in Int
  /\ \A t \in Freds : /\ spinAt[t] = "queue" => serving <= local[t] /\ local[t] < word
                      /\ spinAt[t] = "in" => local[t] = serving /\ serving < word
                      /\ spinAt[t] = "cas" => local[t] <= serving
  /\ \A t, u \in Freds :
       spinAt[t] \in {"queue", "in"} /\ spinAt[u] \in {"queue", "in"} /\ local[t] = local[u] => t = u
  /\ word - serving = Cardinality(SpinningAt({"queue", "in"}))

\* SpinLockRW: like LockedRWLock, with the value a CAS expects.
RWSpinInv ==
  /\ spinAt \in [Freds -> {"out", "enter", "read", "write", "in", "inread"}]
  /\ local \in [Freds -> Int]
  /\ \A t \in Freds : /\ spinAt[t] = "read" => local[t] >= 0
                      /\ spinAt[t] = "write" => local[t] = 0
  /\ Counted(word, SpinningAt({"inread"}), SpinningAt({"in"}))

\* The exchange that finds 0 is the only way in.
LEMMA BinaryStep ==
  ASSUME spinKind = "binary", BinaryInv, [L!SpinNext]_spinVars
  PROVE  BinaryInv'
<1>1. CASE UNCHANGED spinVars
  BY <1>1 DEF spinVars, BinaryInv
<1>2. ASSUME NEW t \in Freds, NEW tries \in BOOLEAN, L!Enter(t, tries) PROVE BinaryInv'
  BY <1>2 DEF L!Enter, L!Go, BinaryInv
<1>3. ASSUME NEW t \in Freds, L!BinaryTest(t) \/ L!BinarySpin(t) PROVE BinaryInv'
  BY <1>3 DEF L!BinaryTest, L!BinarySpin, L!Is, L!Go, BinaryInv
<1>4. ASSUME NEW t \in Freds, L!BinarySet(t) PROVE BinaryInv'
  BY <1>4 DEF L!BinarySet, L!Is, L!Go, L!Again, BinaryInv
<1>5. ASSUME NEW t \in Freds, L!BinaryRelease(t) PROVE BinaryInv'
  BY <1>5 DEF L!BinaryRelease, L!Is, L!Go, BinaryInv
<1> QED BY <1>1, <1>2, <1>3, <1>4, <1>5
     DEF L!SpinNext, L!SimpleStep, L!MCSStep, L!OwnerCAS, L!OwnerCount, L!OwnerOpen,
     L!OwnerRelease,
         L!TicketDraw, L!TicketServed, L!TicketTest, L!TicketRead, L!TicketCAS,
         L!TicketRelease,
         L!RWLoad, L!RWSwap, L!RWRelease, L!MCSEnter, L!MCSMark, L!MCSLink, L!MCSSpin,
         L!MCSRelease,
         L!MCSTell, L!BarrierArrive, L!BarrierPass, L!Is

\* The CAS on owner is the only way in, and only the owner counts.
LEMMA OwnerStep ==
  ASSUME spinKind = "owner", OwnerInv, [L!SpinNext]_spinVars
  PROVE  OwnerInv'
<1>1. CASE UNCHANGED spinVars
  BY <1>1 DEF spinVars, OwnerInv
<1>2. ASSUME NEW t \in Freds, NEW tries \in BOOLEAN, L!Enter(t, tries) PROVE OwnerInv'
  BY <1>2 DEF L!Enter, L!Go, OwnerInv
<1>3. ASSUME NEW t \in Freds, L!OwnerCAS(t) PROVE OwnerInv'
  BY <1>3, FredAssumption DEF L!OwnerCAS, L!Is, L!Go, L!Again, OwnerInv
<1>4. ASSUME NEW t \in Freds, L!OwnerCount(t) PROVE OwnerInv'
  BY <1>4 DEF L!OwnerCount, L!Is, L!Go, L!Load, OwnerInv
<1>5. ASSUME NEW t \in Freds, NEW full \in BOOLEAN, L!OwnerRelease(t, full) PROVE OwnerInv'
  BY <1>5 DEF L!OwnerRelease, L!Is, L!Go, L!Load, OwnerInv
<1>6. ASSUME NEW t \in Freds, L!OwnerOpen(t) PROVE OwnerInv'
  BY <1>6 DEF L!OwnerOpen, L!Is, L!Go, OwnerInv
<1> QED BY <1>1, <1>2, <1>3, <1>4, <1>5, <1>6
     DEF L!SpinNext, L!SimpleStep, L!MCSStep, L!BinaryTest, L!BinarySet, L!BinarySpin,
     L!BinaryRelease,
         L!TicketDraw, L!TicketServed, L!TicketTest, L!TicketRead, L!TicketCAS,
         L!TicketRelease,
         L!RWLoad, L!RWSwap, L!RWRelease, L!MCSEnter, L!MCSMark, L!MCSLink, L!MCSSpin,
         L!MCSRelease,
         L!MCSTell, L!BarrierArrive, L!BarrierPass, L!Is

\* A thread goes to another place: the sets of threads at given places.
LEMMA SpinMoves ==
  ASSUME NEW places, NEW t \in Freds, NEW l, spinAt' = [spinAt EXCEPT ![t] = l],
  DOMAIN spinAt = Freds
  PROVE  SpinningAt(places)' = (SpinningAt(places) \ {t}) \cup (IF l \in places THEN {t} ELSE {})
<1>1. spinAt'[t] = l /\ \A u \in Freds \ {t} : spinAt'[u] = spinAt[u]
  OBVIOUS
<1> QED BY <1>1 DEF SpinningAt

\* A ticket is drawn once; tryAcquire() draws one only if nobody has any.
LEMMA TicketStep ==
  ASSUME spinKind = "ticket", TicketInv, [L!SpinNext]_spinVars
  PROVE  TicketInv'
<1> DEFINE Drawn == SpinningAt({"queue", "in"})
<1>0. /\ IsFiniteSet(Drawn) /\ Cardinality(Drawn) \in Nat /\ DOMAIN spinAt = Freds
      /\ Cardinality(Drawn) = 0 <=> Drawn = {}
  BY RWAssumption, FS_Subset, FS_CardinalityType, FS_EmptySet DEF SpinningAt, TicketInv
<1>1. CASE UNCHANGED spinVars
  BY <1>1 DEF spinVars, TicketInv, SpinningAt
<1>2. ASSUME NEW t \in Freds,
             \/ \E tries \in BOOLEAN : L!Enter(t, tries)
             \/ L!TicketServed(t) \/ L!TicketTest(t) \/ L!TicketRead(t)
      PROVE  TicketInv'
  <2>1. PICK l \in {"enter", "in", "out", "read", "cas"} : spinAt' = [spinAt EXCEPT ![t] = l]
    BY <1>2 DEF L!Enter, L!TicketServed, L!TicketTest, L!TicketRead, L!Go
  <2>2. l = "in" <=> spinAt[t] \in {"queue", "in"}
    BY <1>2, <2>1 DEF L!Enter, L!TicketServed, L!TicketTest, L!TicketRead, L!Go, L!Is,
       TicketInv
  <2>3. Drawn' = (Drawn \ {t}) \cup (IF l \in {"queue", "in"} THEN {t} ELSE {})
    BY <1>0, <2>1, SpinMoves
  <2>4. Drawn' = Drawn
    BY <2>2, <2>3 DEF SpinningAt
  <2> QED BY <1>2, <2>4 DEF L!Enter, L!TicketServed, L!TicketTest, L!TicketRead, L!Go,
     L!Is, L!Load,
               TicketInv
<1>3. ASSUME NEW t \in Freds, L!TicketDraw(t) PROVE TicketInv'
  <2>1. /\ spinAt' = [spinAt EXCEPT ![t] = "queue"] /\ spinAt[t] = "enter"
        /\ word' = word + 1
        /\ serving' = serving /\ local' = [local EXCEPT ![t] = word]
    BY <1>3 DEF L!TicketDraw, L!Is, L!Go, L!Load
  <2>2. Drawn' = (Drawn \ {t}) \cup {t} /\ t \notin Drawn
    BY <1>0, <2>1, SpinMoves DEF SpinningAt
  <2>3. Cardinality(Drawn') = Cardinality(Drawn) + 1 /\ word >= serving
    BY <1>0, <2>2, FS_AddElement DEF TicketInv
  <2> QED BY <1>0, <2>1, <2>3 DEF TicketInv
<1>4. ASSUME NEW t \in Freds, L!TicketCAS(t) PROVE TicketInv'
  <2>1. CASE word = local[t]
    <3>1. /\ spinAt' = [spinAt EXCEPT ![t] = "in"] /\ spinAt[t] = "cas" /\ word' = word + 1
          /\ serving' = serving /\ local' = local
      BY <1>4, <2>1 DEF L!TicketCAS, L!Is, L!Go, L!Load
    <3>2. serving = word /\ Drawn = {}
      BY <1>0, <2>1, <3>1 DEF TicketInv
    <3>a. Drawn' = (Drawn \ {t}) \cup (IF "in" \in {"queue", "in"} THEN {t} ELSE {})
      BY <1>0, <3>1, SpinMoves
    <3>3. Drawn' = {t}
      BY <3>2, <3>a
    <3>4. Cardinality(Drawn') = 1 /\ \A u \in Freds : spinAt[u] \notin {"queue", "in"}
      BY <3>2, <3>3, FS_Singleton DEF SpinningAt
    <3> QED BY <2>1, <3>1, <3>2, <3>4 DEF TicketInv
  <2>2. CASE word # local[t]
    <3>1. /\ spinAt' = [spinAt EXCEPT ![t] = "out"] /\ spinAt[t] = "cas" /\ word' = word
          /\ serving' = serving /\ local' = local
      BY <1>4, <2>2 DEF L!TicketCAS, L!Is, L!Go, L!Load
    <3>2. Drawn' = Drawn \ {t} /\ t \notin Drawn
      BY <1>0, <3>1, SpinMoves DEF SpinningAt
    <3>3. Drawn' = Drawn
      BY <3>2
    <3> QED BY <3>1, <3>3 DEF TicketInv
  <2> QED BY <2>1, <2>2
<1>5. ASSUME NEW t \in Freds, L!TicketRelease(t) PROVE TicketInv'
  <2>1. /\ spinAt' = [spinAt EXCEPT ![t] = "out"] /\ spinAt[t] = "in"
        /\ serving' = serving + 1
        /\ word' = word /\ local' = local
    BY <1>5 DEF L!TicketRelease, L!Is, L!Go, L!Load
  <2>2. Drawn' = Drawn \ {t} /\ t \in Drawn
    BY <1>0, <2>1, SpinMoves DEF SpinningAt
  <2>3. Cardinality(Drawn') = Cardinality(Drawn) - 1
    BY <1>0, <2>2, FS_RemoveElement
  <2>4. \A u \in Freds \ {t} : /\ spinAt[u] # "in"
                               /\ spinAt[u] = "queue" => local[u] # serving
    BY <2>1 DEF TicketInv
  <2> QED BY <1>0, <2>1, <2>3, <2>4 DEF TicketInv
<1> QED BY <1>1, <1>2, <1>3, <1>4, <1>5
     DEF L!SpinNext, L!SimpleStep, L!MCSStep, L!BinaryTest, L!BinarySet, L!BinarySpin,
     L!BinaryRelease,
         L!OwnerCAS, L!OwnerCount, L!OwnerOpen, L!OwnerRelease,
         L!RWLoad, L!RWSwap, L!RWRelease, L!MCSEnter, L!MCSMark, L!MCSLink, L!MCSSpin,
         L!MCSRelease,
         L!MCSTell, L!BarrierArrive, L!BarrierPass, L!Is

\* A CAS succeeds only on the value it was computed from.
LEMMA RWSpinStep ==
  ASSUME spinKind = "rw", RWSpinInv, [L!SpinNext]_spinVars
  PROVE  RWSpinInv'
<1> DEFINE rs == SpinningAt({"inread"})
           ws == SpinningAt({"in"})
<1>0. DOMAIN spinAt = Freds /\ Counted(word, rs, ws)
  BY DEF RWSpinInv
<1>1. CASE UNCHANGED spinVars
  BY <1>1 DEF spinVars, RWSpinInv, SpinningAt
<1>2. ASSUME NEW t \in Freds, NEW l \in {"out", "enter", "read", "write"},
             spinAt' = [spinAt EXCEPT ![t] = l], spinAt[t] \notin {"in", "inread"},
             local' \in [Freds -> Int], word' = word,
             \A u \in Freds \ {t} : local'[u] = local[u],
             l = "read" => local'[t] >= 0, l = "write" => local'[t] = 0
      PROVE  RWSpinInv'
  <2>1. /\ rs' = (rs \ {t}) \cup (IF l \in {"inread"} THEN {t} ELSE {})
        /\ ws' = (ws \ {t}) \cup (IF l \in {"in"} THEN {t} ELSE {})
    BY <1>0, <1>2, SpinMoves
  <2>2. rs' = rs /\ ws' = ws
    BY <1>2, <2>1 DEF SpinningAt
  <2> QED BY <1>2, <2>2 DEF RWSpinInv
<1>3. ASSUME NEW t \in Freds, NEW tries \in BOOLEAN, L!Enter(t, tries) PROVE RWSpinInv'
  BY <1>2, <1>3 DEF L!Enter, L!Go, RWSpinInv
<1>4. ASSUME NEW t \in Freds, NEW side \in {"read", "write"}, L!RWLoad(t, side)
      PROVE  RWSpinInv'
  <2>1. word \in Int
    BY <1>0, CountedFacts
  <2>2. /\ spinAt[t] = "enter" /\ local' = [local EXCEPT ![t] = word] /\ word' = word
        /\ \E l \in {"out", "enter", "read", "write"} :
             /\ spinAt' = [spinAt EXCEPT ![t] = l]
             /\ l = "read" => word >= 0
             /\ l = "write" => word = 0
    BY <1>4, <2>1 DEF L!RWLoad, L!Is, L!Load, L!Go, L!Again
  <2> QED BY <1>2, <2>1, <2>2 DEF RWSpinInv
<1>5. ASSUME NEW t \in Freds, NEW side \in {"read", "write"}, L!RWSwap(t, side),
             word # local[t]
      PROVE  RWSpinInv'
  <2>1. /\ spinAt[t] = side /\ local' = local /\ word' = word
        /\ \E l \in {"out", "enter"} : spinAt' = [spinAt EXCEPT ![t] = l]
    BY <1>5 DEF L!RWSwap, L!Is, L!Go, L!Again
  <2> QED BY <1>2, <2>1 DEF RWSpinInv
<1>6. ASSUME NEW t \in Freds, L!RWSwap(t, "read"), word = local[t]
      PROVE  RWSpinInv'
  <2>1. /\ spinAt[t] = "read" /\ spinAt' = [spinAt EXCEPT ![t] = "inread"]
        /\ local' = local /\ word' = word + 1 /\ word >= 0
    BY <1>6 DEF L!RWSwap, L!Is, L!Go, RWSpinInv
  <2>2. /\ rs' = (rs \ {t}) \cup (IF "inread" \in {"inread"} THEN {t} ELSE {})
        /\ ws' = (ws \ {t}) \cup (IF "inread" \in {"in"} THEN {t} ELSE {})
    BY <1>0, <2>1, SpinMoves
  <2>3. rs' = rs \cup {t} /\ ws' = ws /\ t \notin rs
    BY <2>1, <2>2 DEF SpinningAt
  <2>4. Counted(word + 1, rs \cup {t}, ws)
    BY <1>0, <2>1, <2>3, CountedRead
  <2> QED BY <2>1, <2>3, <2>4 DEF RWSpinInv
<1>7. ASSUME NEW t \in Freds, L!RWSwap(t, "write"), word = local[t]
      PROVE  RWSpinInv'
  <2>1. /\ spinAt[t] = "write" /\ spinAt' = [spinAt EXCEPT ![t] = "in"]
        /\ local' = local /\ word' = -1 /\ word = 0
    BY <1>7 DEF L!RWSwap, L!Is, L!Go, RWSpinInv
  <2>2. /\ rs' = (rs \ {t}) \cup (IF "in" \in {"inread"} THEN {t} ELSE {})
        /\ ws' = (ws \ {t}) \cup (IF "in" \in {"in"} THEN {t} ELSE {})
    BY <1>0, <2>1, SpinMoves
  <2>3. rs' = {} /\ ws' = {t}
    BY <1>0, <2>1, <2>2, CountedFacts
  <2>4. Counted(-1, {}, {t})
    BY DEF Counted
  <2> QED BY <2>1, <2>3, <2>4 DEF RWSpinInv
<1>8. ASSUME NEW t \in Freds, L!RWRelease(t) PROVE RWSpinInv'
  <2>1. /\ spinAt[t] \in {"in", "inread"} /\ spinAt' = [spinAt EXCEPT ![t] = "out"]
        /\ local' = local /\ word' = IF word < 0 THEN word + 1 ELSE word - 1
    BY <1>8 DEF L!RWRelease, L!Go
  <2>2. /\ rs' = (rs \ {t}) \cup (IF "out" \in {"inread"} THEN {t} ELSE {})
        /\ ws' = (ws \ {t}) \cup (IF "out" \in {"in"} THEN {t} ELSE {})
    BY <1>0, <2>1, SpinMoves
  <2>3. rs' = rs \ {t} /\ ws' = ws \ {t}
    BY <2>2
  <2>4. CASE spinAt[t] = "in"
    <3>1. t \in ws
      BY <2>4 DEF SpinningAt
    <3>2. word = -1 /\ rs = {} /\ ws = {t}
      BY <1>0, <3>1 DEF Counted
    <3>3. word' = 0 /\ rs' = {} /\ ws' = {}
      BY <2>1, <2>3, <3>2
    <3>4. Counted(0, {}, {})
      BY FS_EmptySet DEF Counted
    <3> QED BY <2>1, <3>3, <3>4 DEF RWSpinInv
  <2>5. CASE spinAt[t] = "inread"
    <3>1. t \in rs /\ t \notin ws
      BY <2>5 DEF SpinningAt
    <3>2. word >= 1 /\ Counted(word - 1, rs \ {t}, ws) /\ word \in Int
      BY <1>0, <3>1, CountedLeave, CountedFacts
    <3>3. word' = word - 1
      BY <2>1, <3>2
    <3>4. ws' = ws
      BY <2>3, <3>1
    <3> QED BY <2>1, <2>3, <3>2, <3>3, <3>4 DEF RWSpinInv
  <2> QED BY <2>1, <2>4, <2>5
<1> QED BY <1>1, <1>3, <1>4, <1>5, <1>6, <1>7, <1>8
     DEF L!SpinNext, L!SimpleStep, L!MCSStep, L!BinaryTest, L!BinarySet, L!BinarySpin,
     L!BinaryRelease,
         L!OwnerCAS, L!OwnerCount, L!OwnerOpen, L!OwnerRelease,
         L!TicketDraw, L!TicketServed, L!TicketTest, L!TicketRead, L!TicketCAS,
         L!TicketRelease,
         L!MCSEnter, L!MCSMark, L!MCSLink, L!MCSSpin, L!MCSRelease,
         L!MCSTell, L!BarrierArrive, L!BarrierPass, L!Is

\* SpinBarrier: a thread outside has passed a group that is complete.
BarrierInv ==
  /\ spinAt \in [Freds -> {"out", "pass"}]
  /\ local \in [Freds -> Int] /\ word \in Nat
  /\ serialCount = word \div Target
  /\ \A t \in Freds : spinAt[t] = "out" => local[t] <= word

\* The quotient goes up exactly with the last arrival of a group.
LEMMA GroupCount ==
  ASSUME NEW w \in Nat
  PROVE  /\ L!GroupEnd(w) \in Int
         /\ (w + 1) \div Target
              = IF w = L!GroupEnd(w) - 1 THEN (w \div Target) + 1 ELSE w \div Target
<1> DEFINE d == w \div Target
           r == w % Target
<1>1. Target \in Nat \ {0}
  BY TargetAssumption
<1>2. d \in Nat /\ r \in 0 .. Target - 1 /\ w = Target * d + r
  BY <1>1
<1>3. /\ w + Target - (w % Target) \in Int
      /\ (w + 1) \div Target
           = IF w = (w + Target - (w % Target)) - 1 THEN (w \div Target) + 1 ELSE w \div Target
  BY <1>1, <1>2
<1> QED BY <1>3 DEF L!GroupEnd

\* The last arrival of a group counts it, and lets it pass.
LEMMA BarrierStep ==
  ASSUME spinKind = "barrier", BarrierInv, [L!SpinNext]_spinVars
  PROVE  BarrierInv'
<1>1. CASE UNCHANGED spinVars
  BY <1>1 DEF spinVars, BarrierInv
<1>2. ASSUME NEW t \in Freds, L!BarrierArrive(t) PROVE BarrierInv'
  <2>1. /\ spinAt' = [spinAt EXCEPT ![t] = "pass"] /\ word' = word + 1
        /\ local' = [local EXCEPT ![t] = L!GroupEnd(word)]
        /\ serialCount' = IF word = L!GroupEnd(word) - 1 THEN serialCount + 1 ELSE serialCount
    BY <1>2 DEF L!BarrierArrive, L!Load, L!Go
  <2>2. word \in Nat /\ serialCount = word \div Target
    BY DEF BarrierInv
  <2>3. serialCount' = word' \div Target
    BY <2>1, <2>2, GroupCount
  <2>4. local' \in [Freds -> Int]
    BY <2>1, <2>2, GroupCount DEF BarrierInv
  <2>5. \A u \in Freds : spinAt'[u] = "out" => local'[u] <= word'
    <3> SUFFICES ASSUME NEW u \in Freds, spinAt'[u] = "out" PROVE local'[u] <= word'
      OBVIOUS
    <3>1. u # t /\ spinAt[u] = "out"
      BY <2>1 DEF BarrierInv
    <3>2. local'[u] = local[u] /\ local[u] <= word /\ local[u] \in Int
      BY <2>1, <3>1 DEF BarrierInv
    <3> QED BY <2>1, <2>2, <3>2
  <2> QED BY <2>1, <2>2, <2>3, <2>4, <2>5 DEF BarrierInv
<1>3. ASSUME NEW t \in Freds, L!BarrierPass(t) PROVE BarrierInv'
  BY <1>3 DEF L!BarrierPass, L!Is, L!Go, BarrierInv
<1> QED BY <1>1, <1>2, <1>3
     DEF L!SpinNext, L!SimpleStep, L!MCSStep, L!Enter, L!BinaryTest, L!BinarySet,
     L!BinarySpin,
         L!BinaryRelease, L!OwnerCAS, L!OwnerCount, L!OwnerOpen, L!OwnerRelease,
         L!TicketDraw, L!TicketServed, L!TicketTest, L!TicketRead, L!TicketCAS,
         L!TicketRelease,
         L!RWLoad, L!RWSwap, L!RWRelease, L!MCSEnter, L!MCSMark, L!MCSLink, L!MCSSpin,
         L!MCSRelease,
         L!MCSTell, L!Is

\* MCSLock: the threads that have put their node into the queue, and the one
\* of them that has the lock, or was told that it has.
InLine(t) == spinAt[t] \in {"mark", "link", "spin", "in", "tell"}
Chosen(t) == spinAt[t] \in {"in", "tell"} \/ (spinAt[t] = "spin" /\ wait[t] = FALSE)

\* q is the line of n threads from the one that has the lock to tail: each
\* one knows the one before it, and is its next as soon as it spins.
MCSLine(n, q) ==
  /\ \A i, j \in 1 .. n : q[i] = q[j] => i = j
  /\ \A t \in Freds : InLine(t) <=> \E i \in 1 .. n : q[i] = t
  /\ n = 0 => whose = Null
  /\ n > 0 => whose = q[n] /\ Chosen(q[1]) /\ link[q[n]] = Null
  /\ \A i \in 2 .. n : /\ ~Chosen(q[i]) /\ before[q[i]] = q[i - 1]
                       /\ spinAt[q[i]] = "link" => wait[q[i]] = TRUE
                       /\ link[q[i - 1]] = IF spinAt[q[i]] = "spin" THEN q[i] ELSE Null

MCSInv ==
  /\ spinAt \in [Freds -> {"out", "enter", "mark", "link", "spin", "in", "tell"}]
  /\ wait \in [Freds -> BOOLEAN] /\ before \in [Freds -> Freds \cup {Null}]
  /\ link \in [Freds -> Freds \cup {Null}] /\ whose \in Freds \cup {Null}
  /\ \E n \in Nat : \E q \in [1 .. n -> Freds] : MCSLine(n, q)

\* The line grows at tail and is told from its front.
LEMMA MCSStepInv ==
  ASSUME spinKind = "mcs", MCSInv, [L!SpinNext]_spinVars
  PROVE  MCSInv'
<1>0. PICK n \in Nat : \E q \in [1 .. n -> Freds] : MCSLine(n, q)
  BY DEF MCSInv
<1>q. PICK q \in [1 .. n -> Freds] : MCSLine(n, q)
  BY <1>0
<1> HIDE DEF InLine, Chosen
<1>1. CASE UNCHANGED spinVars
  <2>1. UNCHANGED <<spinAt, whose, link, wait, before>>
    BY <1>1 DEF spinVars
  <2>2. MCSLine(n, q)'
    BY <1>q, <2>1 DEF MCSLine, InLine, Chosen
  <2> QED BY <2>1, <2>2 DEF MCSInv
<1>2. ASSUME NEW t \in Freds, NEW tries \in BOOLEAN, L!Enter(t, tries) PROVE MCSInv'
  <2>1. /\ spinAt' = [spinAt EXCEPT ![t] = "enter"] /\ spinAt[t] = "out"
        /\ UNCHANGED <<whose, link, wait, before>>
    BY <1>2 DEF L!Enter, L!Go
  <2>2. MCSLine(n, q)'
    BY <1>q, <2>1 DEF MCSLine, MCSInv, InLine, Chosen
  <2> QED BY <2>1, <2>2 DEF MCSInv
<1>3. ASSUME NEW t \in Freds, L!MCSEnter(t) PROVE MCSInv'
  <2>0. spinAt[t] = "enter" /\ link' = [link EXCEPT ![t] = Null] /\ wait' = wait
        /\ before' = [before EXCEPT ![t] = whose]
    BY <1>3 DEF L!MCSEnter, L!Is
  <2>i. \A i \in 1 .. n : q[i] # t /\ q[i] \in Freds
    BY <1>q, <2>0 DEF MCSLine, InLine
  <2>1. CASE whose = Null
    <3>1. n = 0
      BY <1>q, <2>1, FredAssumption DEF MCSLine
    <3>2. spinAt' = [spinAt EXCEPT ![t] = "in"] /\ whose' = t
      BY <1>3, <2>1 DEF L!MCSEnter, L!Go
    <3>3. \A u \in Freds : ~InLine(u)
      BY <1>q, <3>1 DEF MCSLine
    <3> DEFINE p == [i \in 1 .. 1 |-> t]
    <3>4. MCSLine(1, p)'
      BY <2>0, <3>2, <3>3 DEF MCSLine, MCSInv, InLine, Chosen
    <3>5. p \in [1 .. 1 -> Freds]
      OBVIOUS
    <3> HIDE DEF p
    <3> QED BY <2>0, <3>2, <3>4, <3>5 DEF MCSInv
  <2>2. CASE whose # Null /\ try[t]
    <3>1. spinAt' = [spinAt EXCEPT ![t] = "out"] /\ whose' = whose
      BY <1>3, <2>2 DEF L!MCSEnter, L!Go, L!Again
    <3>2. MCSLine(n, q)'
      BY <1>q, <2>0, <2>i, <3>1 DEF MCSLine, MCSInv, InLine, Chosen
    <3> QED BY <2>0, <3>1, <3>2 DEF MCSInv
  <2>3. CASE whose # Null /\ ~try[t]
    <3>1. spinAt' = [spinAt EXCEPT ![t] = "mark"] /\ whose' = t
      BY <1>3, <2>3 DEF L!MCSEnter, L!Go, L!Again
    <3>2. n > 0 /\ whose = q[n]
      BY <1>q, <2>3 DEF MCSLine
    <3> DEFINE p == [i \in 1 .. n + 1 |-> IF i = n + 1 THEN t ELSE q[i]]
    <3>3. p \in [1 .. n + 1 -> Freds] /\ p[n + 1] = t /\ \A i \in 1 .. n : p[i] = q[i]
      OBVIOUS
    <3> HIDE DEF p
    <3>4. \A i, j \in 1 .. n + 1 : p[i] = p[j] => i = j
      <4> SUFFICES ASSUME NEW i \in 1 .. n + 1, NEW j \in 1 .. n + 1, p[i] = p[j] PROVE i = j
        OBVIOUS
      <4>1. CASE i = n + 1 \/ j = n + 1
        BY <2>i, <3>3, <4>1
      <4>2. CASE i # n + 1 /\ j # n + 1
        <5>1. i \in 1 .. n /\ j \in 1 .. n
          BY <4>2
        <5>2. q[i] = q[j]
          BY <3>3, <5>1
        <5> QED BY <1>q, <5>1, <5>2 DEF MCSLine
      <4> QED BY <4>1, <4>2
    <3>5. \A u \in Freds : InLine(u)' <=> \E i \in 1 .. n + 1 : p[i] = u
      <4>1. \A u \in Freds : InLine(u)' <=> u = t \/ InLine(u)
        BY <3>1 DEF InLine, MCSInv
      <4>2. \A u \in Freds : (\E i \in 1 .. n + 1 : p[i] = u) <=> u = t \/ \E i \in 1 .. n : q[i] = u
        BY <3>3
      <4> QED BY <1>q, <4>1, <4>2 DEF MCSLine
    <3>6. Chosen(p[1])' /\ link'[p[n + 1]] = Null /\ whose' = p[n + 1]
      <4>1. p[1] = q[1] /\ q[1] # t /\ q[1] \in Freds /\ Chosen(q[1])
        BY <1>q, <2>i, <3>2, <3>3 DEF MCSLine
      <4>2. spinAt'[p[1]] = spinAt[q[1]] /\ wait'[p[1]] = wait[q[1]]
        BY <2>0, <3>1, <4>1 DEF MCSInv
      <4>3. Chosen(p[1])'
        BY <4>1, <4>2 DEF Chosen
      <4> QED BY <2>0, <3>1, <3>3, <4>3 DEF MCSInv
    <3>7. ASSUME NEW i \in 2 .. n + 1
          PROVE  /\ ~Chosen(p[i])' /\ before'[p[i]] = p[i - 1]
                 /\ spinAt'[p[i]] = "link" => wait'[p[i]] = TRUE
                 /\ link'[p[i - 1]] = IF spinAt'[p[i]] = "spin" THEN p[i] ELSE Null
      <4>1. CASE i = n + 1
        <5>1. p[i] = t /\ p[i - 1] = q[n] /\ q[n] # t /\ q[n] \in Freds /\ link[q[n]] = Null
          BY <1>q, <2>i, <3>2, <3>3, <4>1 DEF MCSLine
        <5>2. /\ spinAt'[t] = "mark" /\ before'[t] = whose /\ link'[q[n]] = link[q[n]]
          BY <2>0, <3>1, <5>1 DEF MCSInv
        <5> QED BY <3>2, <5>1, <5>2 DEF Chosen
      <4>2. CASE i # n + 1
        <5>1. i \in 2 .. n /\ i - 1 \in 1 .. n /\ i \in 1 .. n
          BY <4>2
        <5>2. p[i] = q[i] /\ p[i - 1] = q[i - 1] /\ q[i] # t /\ q[i - 1] # t
              /\ q[i] \in Freds /\ q[i - 1] \in Freds
          BY <2>i, <3>3, <5>1
        <5>3. /\ spinAt'[q[i]] = spinAt[q[i]] /\ before'[q[i]] = before[q[i]]
              /\ link'[q[i - 1]] = link[q[i - 1]] /\ wait' = wait
          BY <2>0, <3>1, <5>2 DEF MCSInv
        <5>4. /\ ~Chosen(q[i]) /\ before[q[i]] = q[i - 1]
              /\ spinAt[q[i]] = "link" => wait[q[i]] = TRUE
              /\ link[q[i - 1]] = IF spinAt[q[i]] = "spin" THEN q[i] ELSE Null
          BY <1>q, <5>1 DEF MCSLine
        <5> QED BY <5>2, <5>3, <5>4 DEF Chosen
      <4> QED BY <4>1, <4>2
    <3>8. MCSLine(n + 1, p)'
      <4>1. n + 1 > 0 /\ n + 1 # 0
        OBVIOUS
      <4> QED BY <3>4, <3>5, <3>6, <3>7, <4>1 DEF MCSLine
    <3> QED BY <2>0, <3>1, <3>3, <3>8 DEF MCSInv
  <2> QED BY <2>1, <2>2, <2>3
<1>4. ASSUME NEW t \in Freds, L!MCSMark(t) PROVE MCSInv'
  <2>1. /\ spinAt' = [spinAt EXCEPT ![t] = "link"] /\ spinAt[t] = "mark"
        /\ wait' = [wait EXCEPT ![t] = TRUE] /\ UNCHANGED <<whose, link, before>>
    BY <1>4 DEF L!MCSMark, L!Is, L!Go
  <2>2. MCSLine(n, q)'
    BY <1>q, <2>1 DEF MCSLine, MCSInv, InLine, Chosen
  <2> QED BY <2>1, <2>2 DEF MCSInv
<1>5. ASSUME NEW t \in Freds, L!MCSLink(t) PROVE MCSInv'
  <2>1. /\ spinAt' = [spinAt EXCEPT ![t] = "spin"] /\ spinAt[t] = "link"
        /\ link' = [link EXCEPT ![before[t]] = t] /\ UNCHANGED <<whose, wait, before>>
    BY <1>5 DEF L!MCSLink, L!Is, L!Go
  <2>2. PICK k \in 1 .. n : q[k] = t
    BY <1>q, <2>1 DEF MCSLine, InLine
  <2>3. k \in 2 .. n /\ before[t] = q[k - 1] /\ wait[t] = TRUE /\ k - 1 \in 1 .. n
    BY <1>q, <2>1, <2>2 DEF MCSLine, Chosen
  <2>4. q[n] # q[k - 1] /\ q[n] \in Freds /\ q[k - 1] \in Freds
    BY <1>q, <2>3 DEF MCSLine
  <2>5. \A i \in 2 .. n : q[i - 1] = q[k - 1] => i = k
    BY <1>q, <2>3 DEF MCSLine
  <2>6. link'[q[k - 1]] = t /\ \A u \in Freds \ {q[k - 1]} : link'[u] = link[u]
    BY <2>1, <2>3, <2>4 DEF MCSInv
  <2>7. spinAt'[t] = "spin" /\ \A u \in Freds \ {t} : spinAt'[u] = spinAt[u]
    BY <2>1 DEF MCSInv
  <2>8. \A u \in Freds : (InLine(u)' <=> InLine(u)) /\ (Chosen(u)' <=> Chosen(u))
    BY <2>1, <2>3, <2>7 DEF InLine, Chosen
  <2>9. ASSUME NEW i \in 2 .. n
        PROVE  /\ ~Chosen(q[i])' /\ before'[q[i]] = q[i - 1]
               /\ spinAt'[q[i]] = "link" => wait'[q[i]] = TRUE
               /\ link'[q[i - 1]] = IF spinAt'[q[i]] = "spin" THEN q[i] ELSE Null
    <3>1. q[i] \in Freds /\ q[i - 1] \in Freds /\ i \in 1 .. n /\ i - 1 \in 1 .. n
      OBVIOUS
    <3>2. /\ ~Chosen(q[i]) /\ before[q[i]] = q[i - 1]
          /\ spinAt[q[i]] = "link" => wait[q[i]] = TRUE
          /\ link[q[i - 1]] = IF spinAt[q[i]] = "spin" THEN q[i] ELSE Null
      BY <1>q DEF MCSLine
    <3>3. CASE i = k
      BY <2>1, <2>2, <2>6, <2>7, <2>8, <3>1, <3>2, <3>3
    <3>4. CASE i # k
      <4>1. q[i] # t /\ q[i - 1] # q[k - 1]
        BY <1>q, <2>2, <2>5, <3>1, <3>4 DEF MCSLine
      <4> QED BY <2>1, <2>6, <2>7, <2>8, <3>1, <3>2, <4>1
    <3> QED BY <3>3, <3>4
  <2>10. whose' = q[n] /\ link'[q[n]] = Null /\ Chosen(q[1])' /\ n > 0
    <3>1. n > 0 /\ whose = q[n] /\ link[q[n]] = Null /\ Chosen(q[1]) /\ q[1] \in Freds
      BY <1>q, <2>2 DEF MCSLine
    <3> QED BY <2>1, <2>4, <2>6, <2>8, <3>1
  <2>11. MCSLine(n, q)'
    BY <1>q, <2>8, <2>9, <2>10 DEF MCSLine
  <2> QED BY <2>1, <2>3, <2>4, <2>11 DEF MCSInv
<1>6. ASSUME NEW t \in Freds, L!MCSSpin(t) \/ (L!MCSRelease(t) /\ whose # t) PROVE MCSInv'
  <2>1. /\ spinAt' = [spinAt EXCEPT ![t] = "in"] \/ spinAt' = [spinAt EXCEPT ![t] = "tell"]
        /\ Chosen(t) /\ InLine(t)
        /\ UNCHANGED <<whose, link, wait, before>>
    BY <1>6 DEF L!MCSSpin, L!MCSRelease, L!Is, L!Go, Chosen, InLine
  <2>2. \A u \in Freds : /\ InLine(u)' <=> InLine(u)
                         /\ Chosen(u)' <=> Chosen(u)
                         /\ u # t => spinAt'[u] = spinAt[u]
    BY <2>1 DEF Chosen, InLine, MCSInv
  <2>3. \A i \in 2 .. n : q[i] # t
    BY <1>q, <2>1 DEF MCSLine
  <2>4. MCSLine(n, q)'
    BY <1>q, <2>1, <2>2, <2>3 DEF MCSLine
  <2> QED BY <2>1, <2>4 DEF MCSInv
<1>7. ASSUME NEW t \in Freds, L!MCSRelease(t), whose = t PROVE MCSInv'
  <2>1. /\ spinAt' = [spinAt EXCEPT ![t] = "out"] /\ spinAt[t] = "in" /\ whose' = Null
        /\ UNCHANGED <<link, wait, before>>
    BY <1>7 DEF L!MCSRelease, L!Is, L!Go
  <2>2. PICK k \in 1 .. n : q[k] = t
    BY <1>q, <2>1 DEF MCSLine, InLine
  <2>3. k = 1 /\ q[n] = t /\ n = 1
    BY <1>q, <1>7, <2>1, <2>2 DEF MCSLine, Chosen
  <2>4. \A u \in Freds : ~InLine(u)'
    BY <1>q, <2>1, <2>3 DEF MCSLine, InLine, MCSInv
  <2> DEFINE p == [i \in 1 .. 0 |-> t]
  <2>5. MCSLine(0, p)'
    BY <2>1, <2>4 DEF MCSLine
  <2>6. p \in [1 .. 0 -> Freds]
    OBVIOUS
  <2> HIDE DEF p
  <2> QED BY <2>1, <2>5, <2>6 DEF MCSInv
<1>8. ASSUME NEW t \in Freds, L!MCSTell(t) PROVE MCSInv'
  <2>1. /\ spinAt' = [spinAt EXCEPT ![t] = "out"] /\ spinAt[t] = "tell" /\ link[t] # Null
        /\ wait' = [wait EXCEPT ![link[t]] = FALSE] /\ UNCHANGED <<whose, link, before>>
    BY <1>8 DEF L!MCSTell, L!Is, L!Go
  <2>2. PICK k \in 1 .. n : q[k] = t
    BY <1>q, <2>1 DEF MCSLine, InLine
  <2>3. k = 1 /\ n > 1
    BY <1>q, <2>1, <2>2 DEF MCSLine, Chosen
  <2>4. link[t] = q[2] /\ spinAt[q[2]] = "spin" /\ q[2] \in Freds /\ q[2] # t
    <3>1. 2 \in 2 .. n /\ 2 \in 1 .. n /\ 1 \in 1 .. n /\ 2 - 1 = 1
      BY <2>3
    <3>2. link[q[1]] = IF spinAt[q[2]] = "spin" THEN q[2] ELSE Null
      BY <1>q, <3>1 DEF MCSLine
    <3>3. q[2] # q[1]
      BY <1>q, <3>1 DEF MCSLine
    <3> QED BY <2>1, <2>2, <2>3, <3>1, <3>2, <3>3
  <2>5. /\ spinAt'[t] = "out" /\ \A u \in Freds \ {t} : spinAt'[u] = spinAt[u]
        /\ wait'[q[2]] = FALSE /\ \A u \in Freds \ {q[2]} : wait'[u] = wait[u]
    BY <2>1, <2>4 DEF MCSInv
  <2> DEFINE p == [i \in 1 .. n - 1 |-> q[i + 1]]
  <2>6. p \in [1 .. n - 1 -> Freds] /\ n - 1 \in Nat
    BY <2>3
  <2>7. \A i \in 1 .. n - 1 : p[i] = q[i + 1] /\ i + 1 \in 1 .. n
    OBVIOUS
  <2> HIDE DEF p
  <2>8. \A i, j \in 1 .. n - 1 : p[i] = p[j] => i = j
    BY <1>q, <2>7 DEF MCSLine
  <2>9. \A u \in Freds : InLine(u)' <=> \E i \in 1 .. n - 1 : p[i] = u
    <3>1. \A u \in Freds : InLine(u)' <=> InLine(u) /\ u # t
      BY <2>5 DEF InLine
    <3>2. ASSUME NEW u \in Freds
          PROVE  (\E i \in 1 .. n - 1 : p[i] = u) <=> (\E i \in 1 .. n : q[i] = u) /\ u # t
      <4>1. ASSUME NEW i \in 1 .. n - 1, p[i] = u
            PROVE  (\E j \in 1 .. n : q[j] = u) /\ u # t
        <5>1. q[i + 1] = u /\ i + 1 \in 1 .. n /\ i + 1 # 1 /\ 1 \in 1 .. n /\ q[1] = t
          BY <2>2, <2>3, <2>7, <4>1
        <5> QED BY <1>q, <5>1 DEF MCSLine
      <4>2. ASSUME NEW i \in 1 .. n, q[i] = u, u # t PROVE \E j \in 1 .. n - 1 : p[j] = u
        <5>1. i - 1 \in 1 .. n - 1 /\ (i - 1) + 1 = i
          BY <2>2, <2>3, <4>2
        <5> QED BY <2>7, <4>2, <5>1
      <4> QED BY <4>1, <4>2
    <3> QED BY <1>q, <3>1, <3>2 DEF MCSLine
  <2>10. p[1] = q[2] /\ p[n - 1] = q[n] /\ n - 1 > 0
    <3>1. 1 \in 1 .. n - 1 /\ n - 1 \in 1 .. n - 1 /\ 1 + 1 = 2 /\ (n - 1) + 1 = n
      BY <2>3
    <3>2. p[1] = q[1 + 1] /\ p[n - 1] = q[(n - 1) + 1]
      BY <2>7, <3>1
    <3> QED BY <2>3, <3>1, <3>2
  <2>11. Chosen(p[1])' /\ whose' = p[n - 1] /\ link'[p[n - 1]] = Null
    <3>1. whose = q[n] /\ link[q[n]] = Null
      BY <1>q, <2>3 DEF MCSLine
    <3>2. spinAt'[q[2]] = "spin" /\ wait'[q[2]] = FALSE
      BY <2>4, <2>5
    <3> QED BY <2>1, <2>10, <3>1, <3>2 DEF Chosen
  <2>12. ASSUME NEW i \in 2 .. n - 1
         PROVE  /\ ~Chosen(p[i])' /\ before'[p[i]] = p[i - 1]
                /\ spinAt'[p[i]] = "link" => wait'[p[i]] = TRUE
                /\ link'[p[i - 1]] = IF spinAt'[p[i]] = "spin" THEN p[i] ELSE Null
    <3>1. /\ i + 1 \in 2 .. n /\ i + 1 \in 1 .. n /\ i \in 1 .. n /\ (i + 1) - 1 = i
          /\ i \in 1 .. n - 1 /\ i - 1 \in 1 .. n - 1 /\ (i - 1) + 1 = i
          /\ i + 1 # 1 /\ i + 1 # 2 /\ 2 \in 1 .. n /\ 1 \in 1 .. n
      BY <2>3
    <3>2. p[i] = q[i + 1] /\ p[i - 1] = q[i]
      BY <2>7, <3>1
    <3>3. q[i + 1] # q[1] /\ q[i + 1] # q[2] /\ q[i + 1] \in Freds
      BY <1>q, <3>1 DEF MCSLine
    <3>4. /\ ~Chosen(q[i + 1]) /\ before[q[i + 1]] = q[i]
          /\ spinAt[q[i + 1]] = "link" => wait[q[i + 1]] = TRUE
          /\ link[q[i]] = IF spinAt[q[i + 1]] = "spin" THEN q[i + 1] ELSE Null
      BY <1>q, <3>1 DEF MCSLine
    <3>5. spinAt'[q[i + 1]] = spinAt[q[i + 1]] /\ wait'[q[i + 1]] = wait[q[i + 1]]
      BY <2>2, <2>3, <2>5, <3>3
    <3> QED BY <2>1, <3>2, <3>4, <3>5 DEF Chosen
  <2>13. MCSLine(n - 1, p)'
    <3>1. n - 1 > 0 /\ n - 1 # 0
      BY <2>3
    <3> QED BY <2>8, <2>9, <2>11, <2>12, <3>1 DEF MCSLine
  <2> QED BY <2>1, <2>6, <2>13 DEF MCSInv
<1> QED BY <1>1, <1>2, <1>3, <1>4, <1>5, <1>6, <1>7, <1>8
     DEF L!SpinNext, L!SimpleStep, L!MCSStep, L!BinaryTest, L!BinarySet, L!BinarySpin,
         L!BinaryRelease, L!OwnerCAS, L!OwnerCount, L!OwnerOpen, L!OwnerRelease,
         L!TicketDraw, L!TicketServed, L!TicketTest, L!TicketRead, L!TicketCAS,
         L!TicketRelease,
         L!RWLoad, L!RWSwap, L!RWRelease, L!BarrierArrive, L!BarrierPass, L!Is

\* The lock of the instance keeps its invariant.
SpinInv ==
  /\ spinKind \in {"binary", "owner", "ticket", "mcs", "rw", "barrier"}
  /\ spinKind = "binary" => BinaryInv
  /\ spinKind = "owner" => OwnerInv
  /\ spinKind = "ticket" => TicketInv
  /\ spinKind = "mcs" => MCSInv
  /\ spinKind = "rw" => RWSpinInv
  /\ spinKind = "barrier" => BarrierInv

\* The locks start open.
LEMMA SpinInitInv == L!SpinInit => SpinInv
<1> SUFFICES ASSUME L!SpinInit PROVE SpinInv
  OBVIOUS
<1>1. /\ spinAt = [t \in Freds |-> "out"] /\ local = [t \in Freds |-> 0]
      /\ word = 0 /\ serving = 0 /\ whose = Null /\ serialCount = 0
      /\ link = [t \in Freds |-> Null] /\ wait = [t \in Freds |-> FALSE]
      /\ before = [t \in Freds |-> Null]
      /\ spinKind \in {"binary", "owner", "ticket", "mcs", "rw", "barrier"}
  BY DEF L!SpinInit
<1>2. \A places : "out" \notin places => SpinningAt(places) = {}
  BY <1>1 DEF SpinningAt
<1>3. BinaryInv /\ OwnerInv
  BY <1>1 DEF BinaryInv, OwnerInv
<1>4. TicketInv
  <2>1. SpinningAt({"queue", "in"}) = {} /\ Cardinality({}) = 0
    BY <1>2, FS_EmptySet
  <2> QED BY <1>1, <2>1 DEF TicketInv
<1>5. RWSpinInv
  <2>1. SpinningAt({"inread"}) = {} /\ SpinningAt({"in"}) = {}
    BY <1>2
  <2>2. Counted(0, {}, {})
    BY FS_EmptySet DEF Counted
  <2> QED BY <1>1, <2>1, <2>2 DEF RWSpinInv
<1>6. BarrierInv
  <2>1. 0 \div Target = 0
    BY TargetAssumption
  <2> QED BY <1>1, <2>1 DEF BarrierInv
<1>7. MCSInv
  <2> DEFINE p == [i \in 1 .. 0 |-> Null]
  <2>1. p \in [1 .. 0 -> Freds]
    OBVIOUS
  <2>2. MCSLine(0, p)
    BY <1>1 DEF MCSLine, InLine
  <2> HIDE DEF p
  <2> QED BY <1>1, <2>1, <2>2 DEF MCSInv
<1> QED BY <1>1, <1>3, <1>4, <1>5, <1>6, <1>7 DEF SpinInv

\* Every step of a spin lock keeps its invariant.
LEMMA SpinNextInv == SpinInv /\ [L!SpinNext]_spinVars => SpinInv'
<1> SUFFICES ASSUME SpinInv, [L!SpinNext]_spinVars PROVE SpinInv'
  OBVIOUS
<1>1. spinKind' = spinKind
  <2>1. CASE UNCHANGED spinVars
    BY <2>1 DEF spinVars
  <2>2. CASE L!SpinNext
    BY <2>2 DEF L!SpinNext, L!SimpleStep, L!MCSStep, L!Enter, L!BinaryTest, L!BinarySet,
       L!BinarySpin,
         L!BinaryRelease, L!OwnerCAS, L!OwnerCount, L!OwnerOpen, L!OwnerRelease,
         L!TicketDraw, L!TicketServed, L!TicketTest, L!TicketRead, L!TicketCAS,
         L!TicketRelease,
         L!RWLoad, L!RWSwap, L!RWRelease, L!MCSEnter, L!MCSMark, L!MCSLink, L!MCSSpin,
         L!MCSRelease,
         L!MCSTell, L!BarrierArrive, L!BarrierPass, L!Go, L!Again
  <2> QED BY <2>1, <2>2
<1> QED BY <1>1, BinaryStep, OwnerStep, TicketStep, MCSStepInv, RWSpinStep, BarrierStep
   DEF SpinInv

\* The invariants give what the run checks.
LEMMA SpinInvSound == SpinInv => L!SpinSound
<1> SUFFICES ASSUME SpinInv PROVE L!SpinSound
  OBVIOUS
<1> DEFINE Having == {t \in Freds : spinAt[t] \in {"in", "count", "open"}}
<1>2. (\A t, u \in Having : t = u) => L!Cardinality(Having) <= 1
  <2>1. Having \subseteq Freds
    OBVIOUS
  <2> QED BY <2>1, AtMostOne, SpinCardinality
<1>3. CASE spinKind = "binary"
  <2>1. BinaryInv
    BY <1>3 DEF SpinInv
  <2>2. \A t \in Freds : spinAt[t] \in {"out", "enter", "set", "spin", "in"}
    BY <2>1 DEF BinaryInv
  <2>3. \A t, u \in Having : t = u
    BY <2>1, <2>2 DEF BinaryInv
  <2> QED BY <1>2, <1>3, <2>2, <2>3 DEF L!SpinSound, L!Holders
<1>4. CASE spinKind = "owner"
  <2>1. OwnerInv
    BY <1>4 DEF SpinInv
  <2>2. \A t \in Freds : spinAt[t] \in {"out", "enter", "count", "in", "open"}
    BY <2>1 DEF OwnerInv
  <2>3. \A t, u \in Having : t = u
    BY <2>1, <2>2 DEF OwnerInv
  <2>4. \A t \in L!Holders : whose = t /\ (spinAt[t] = "in" => serving = local[t])
    BY <2>1, <2>2 DEF OwnerInv, L!Holders
  <2> QED BY <1>2, <1>4, <2>2, <2>3, <2>4 DEF L!SpinSound
<1>5. CASE spinKind = "ticket"
  <2>1. TicketInv
    BY <1>5 DEF SpinInv
  <2>2. \A t \in Freds : spinAt[t] \in {"out", "enter", "queue", "in", "read", "cas"}
    BY <2>1 DEF TicketInv
  <2>3. \A t, u \in Having : t = u
    BY <2>1, <2>2 DEF TicketInv
  <2>4. word - serving = L!Cardinality({t \in Freds : spinAt[t] \in {"queue", "in"}})
    BY <2>1, SpinCardinality DEF TicketInv, SpinningAt
  <2> QED BY <1>2, <1>5, <2>2, <2>3, <2>4 DEF L!SpinSound
<1>6. CASE spinKind = "mcs"
  <2>1. MCSInv
    BY <1>6 DEF SpinInv
  <2>2. \A t \in Freds : spinAt[t] \in {"out", "enter", "mark", "link", "spin", "in", "tell"}
    BY <2>1 DEF MCSInv
  <2>3. PICK n \in Nat : \E q \in [1 .. n -> Freds] : MCSLine(n, q)
    BY <2>1 DEF MCSInv
  <2>4. PICK q \in [1 .. n -> Freds] : MCSLine(n, q)
    BY <2>3
  <2>5. \A t \in Freds : InLine(t) => n > 0 /\ q[1] \in Freds /\ Chosen(q[1])
    BY <2>4 DEF MCSLine
  <2>6. \A t \in Freds : InLine(t) /\ Chosen(t) => t = q[1]
    BY <2>4 DEF MCSLine
  <2>7. \A t, u \in Having : t = u
    BY <2>2, <2>6 DEF InLine, Chosen
  <2>8. \A t \in Freds : spinAt[t] = "spin" /\ wait[t] =>
          L!Holders # {} \/ \E u \in Freds : spinAt[u] = "spin" /\ ~wait[u]
    <3> SUFFICES ASSUME NEW t \in Freds, spinAt[t] = "spin", wait[t]
                 PROVE  L!Holders # {} \/ \E u \in Freds : spinAt[u] = "spin" /\ ~wait[u]
      OBVIOUS
    <3>1. n > 0 /\ q[1] \in Freds /\ Chosen(q[1])
      BY <2>5 DEF InLine
    <3> QED BY <3>1 DEF Chosen, L!Holders
  <2> QED BY <1>2, <1>6, <2>2, <2>7, <2>8 DEF L!SpinSound
<1>7. CASE spinKind = "rw"
  <2>1. RWSpinInv
    BY <1>7 DEF SpinInv
  <2>2. \A t \in Freds : spinAt[t] \in {"out", "enter", "read", "write", "in", "inread"}
    BY <2>1 DEF RWSpinInv
  <2>3. Counted(word, SpinningAt({"inread"}), SpinningAt({"in"}))
    BY <2>1 DEF RWSpinInv
  <2>4. Having = SpinningAt({"in"}) /\ L!Holders = SpinningAt({"in"})
        /\ {t \in Freds : spinAt[t] = "inread"} = SpinningAt({"inread"})
    BY <2>2 DEF L!Holders, SpinningAt
  <2>5. \A t, u \in Having : t = u
    BY <2>3, <2>4 DEF Counted
  <2>6. \A t \in L!Holders : \A u \in Freds : spinAt[u] # "inread"
    <3>1. SpinningAt({"in"}) = {} \/ SpinningAt({"inread"}) = {}
      BY <2>3 DEF Counted
    <3> QED BY <2>4, <3>1
  <2>7. word = Cardinality(SpinningAt({"inread"})) - Cardinality(SpinningAt({"in"}))
    <3>1. CASE /\ SpinningAt({"in"}) = {}
               /\ IsFiniteSet(SpinningAt({"inread"})) /\ word = Cardinality(SpinningAt({"inread"}))
      <4>1. /\ Cardinality(SpinningAt({"in"})) = 0
            /\ Cardinality(SpinningAt({"inread"})) \in Nat
        BY <3>1, FS_EmptySet, FS_CardinalityType
      <4> QED BY <3>1, <4>1
    <3>2. CASE SpinningAt({"inread"}) = {} /\ word = -1 /\ \E w : SpinningAt({"in"}) = {w}
      <4>1. Cardinality(SpinningAt({"in"})) = 1 /\ Cardinality(SpinningAt({"inread"})) = 0
        BY <3>2, FS_EmptySet, FS_Singleton
      <4> QED BY <3>2, <4>1
    <3> QED BY <2>3, <3>1, <3>2 DEF Counted
  <2>8. word = L!Cardinality({t \in Freds : spinAt[t] = "inread"}) - L!Cardinality(L!Holders)
    BY <2>4, <2>7, SpinCardinality
  <2> QED BY <1>2, <1>7, <2>5, <2>6, <2>8 DEF L!SpinSound
<1>8. CASE spinKind = "barrier"
  <2>1. BarrierInv
    BY <1>8 DEF SpinInv
  <2>2. \A t \in Freds : spinAt[t] \in {"out", "pass"}
    BY <2>1 DEF BarrierInv
  <2>3. \A t, u \in Having : t = u
    BY <2>2
  <2> QED BY <1>2, <1>8, <2>1, <2>2, <2>3 DEF L!SpinSound, L!Holders, BarrierInv
<1> QED BY <1>3, <1>4, <1>5, <1>6, <1>7, <1>8 DEF SpinInv

\* SpinLocks.h: no two threads have a spin lock, whatever a tryAcquire() has
\* read before it swaps; the words of the read/write and ticket locks count
\* the threads that are in or have a ticket; an MCS waiter always has somebody
\* in front of it that will tell it; and a group passes the spin barrier only
\* when it is complete, with exactly one serial thread.
THEOREM SpinLocksAreSound == PrimitivesSpec => []SpinSound
<1>1. PrimitivesInit => (part = "spin" => SpinInv)
  BY SpinInitInv DEF PrimitivesInit
<1>2. PrimitivesNext => part' = part /\ (part = "spin" => L!SpinNext)
  BY DEF PrimitivesNext
<1>3. UNCHANGED primitivesVars => part' = part /\ UNCHANGED spinVars
  BY DEF primitivesVars, spinVars
<1>4. (part = "spin" => SpinInv) /\ [PrimitivesNext]_primitivesVars => (part = "spin" => SpinInv)'
  BY <1>2, <1>3, SpinNextInv
<1>5. (part = "spin" => SpinInv) => SpinSound
  BY SpinInvSound DEF SpinSound
<1> QED BY <1>1, <1>4, <1>5, PTL DEF PrimitivesSpec
---------------------------------------------------------------------------
(* The interfaces.                                                          *)

\* Every object of the heap is behind one handle, and a handle is in use
\* exactly while its primitive is constructed.
ApiHandles ==
  /\ handle \in [A!Handles -> Nat] /\ made \in Nat
  /\ heap = {handle[h] : h \in A!Handles} \ {0}
  /\ \A h \in A!Handles : handle[h] <= made
  /\ \A h, k \in A!Handles : handle[h] = handle[k] => h = k \/ handle[h] = 0
  /\ A!Bound => \A h \in A!Handles : h \in ready <=> handle[h] # 0

ApiProgram ==
  /\ api \in {"fibre", "cfibre", "gthr"} /\ active \in BOOLEAN /\ (api # "gthr" => active)
  /\ ready \subseteq A!Handles
  /\ "cond" \in ready => what \in A!Locks

\* Who has been told what, and who is in which call.
ApiUsers ==
  /\ told \in [Freds -> {"none", "read", "write"}]
  /\ doing \in [Freds -> {"none", "cond", "timedcond", "relock", "barrier"}]
  /\ \A f \in Freds : told[f] = "read" => what = "rwlock" /\ doing[f] = "none"
  /\ \A f \in Freds : doing[f] \in {"cond", "timedcond", "relock"} => told[f] = "write" /\ what \in A!Locks
  /\ \A f \in Freds : doing[f] = "barrier" => what = "barrier"
  /\ what = "barrier" => \A f \in Freds : told[f] = "none"
  /\ sleepers \subseteq Freds
  /\ \A f \in sleepers : doing[f] \in {"cond", "timedcond", "barrier"}

\* The lock, while the calls reach it.
ApiLock ==
  /\ taker \in Freds \cup {Null}
  /\ \A f \in Freds : taker = f <=> told[f] = "write" /\ doing[f] = "none"
  /\ \A f \in Freds : f \in readers <=> told[f] = "read"
  /\ readers \subseteq Freds
  /\ taker # Null => readers = {}
  /\ "object" \notin ready => A!Quiet

\* Without fibres, one thread uses the mutex.
ApiOneThread ==
  /\ \A f \in Freds : doing[f] = "none"
  /\ \A f, g \in Freds : f # g /\ told[f] = "write" => told[g] = "none"

ApiCounts ==
  /\ permits \in Int /\ tally \in [gained : Int, posted : Int, serials : Int, passes : Int]
  /\ permits + tally.gained = tally.posted
  /\ tally.passes = Group * tally.serials

ApiInv ==
  /\ ApiHandles /\ ApiProgram /\ ApiUsers /\ ApiCounts
  /\ IF active THEN ApiLock ELSE ApiOneThread

LEMMA ApiInitInv == A!FibreApiInit => ApiInv
<1> SUFFICES ASSUME A!FibreApiInit PROVE ApiInv
  OBVIOUS
<1>0. A!Handles = {"object", "cond", "attr"}
  BY DEF A!Handles
<1>1. ApiHandles
  BY <1>0 DEF ApiHandles, A!FibreApiInit
<1>2. ApiProgram
  BY DEF ApiProgram, A!FibreApiInit
<1>3. ApiUsers /\ ApiLock /\ ApiOneThread
  BY FredAssumption DEF ApiUsers, ApiLock, ApiOneThread, A!FibreApiInit, A!Quiet, A!HasNothing, A!Calls
<1>4. ApiCounts
  BY ApiAssumption DEF ApiCounts, A!FibreApiInit
<1> QED BY <1>1, <1>2, <1>3, <1>4 DEF ApiInv

---------------------------------------------------------------------------
(* Handles.                                                                 *)

LEMMA HandleMade ==
  ASSUME ApiHandles, NEW h \in A!Handles, h \notin ready, ready' = ready \cup {h}, A!Create(h),
         UNCHANGED <<api, active>>
  PROVE  ApiHandles'
<1>1. CASE ~A!Bound
  BY <1>1 DEF ApiHandles, A!Create, A!Bound, A!cVars
<1>2. CASE A!Bound
  <2>0. /\ handle[h] = 0 /\ made' = made + 1 /\ made \in Nat
        /\ heap' = heap \cup {made + 1} /\ handle' = [handle EXCEPT ![h] = made + 1]
        /\ handle \in [A!Handles -> Nat]
    BY <1>2 DEF ApiHandles, A!Create, A!CNew
  <2>1. /\ handle' \in [A!Handles -> Nat] /\ made' \in Nat /\ handle'[h] = made + 1
        /\ \A k \in A!Handles \ {h} : handle'[k] = handle[k] /\ handle[k] # made + 1
    BY <2>0 DEF ApiHandles
  <2>2. heap' = {handle'[k] : k \in A!Handles} \ {0}
    <3>1. \A x : x \in heap' <=> x \in heap \/ x = made + 1
      BY <2>0
    <3>2. \A x : x \in heap <=> x # 0 /\ \E k \in A!Handles : handle[k] = x
      BY DEF ApiHandles
    <3>3. \A x : x # 0 => ((\E k \in A!Handles : handle'[k] = x)
                           <=> x = made + 1 \/ \E k \in A!Handles : handle[k] = x)
      BY <2>0, <2>1
    <3>4. made + 1 # 0
      BY <2>0
    <3> QED BY <3>1, <3>2, <3>3, <3>4
  <2>3. \A k \in A!Handles : handle'[k] <= made'
    BY <2>0, <2>1 DEF ApiHandles
  <2>4. \A j, k \in A!Handles : handle'[j] = handle'[k] => j = k \/ handle'[j] = 0
    BY <2>1 DEF ApiHandles
  <2>5. \A k \in A!Handles : k \in ready' <=> handle'[k] # 0
    <3>1. made + 1 # 0
      BY <2>0
    <3> QED BY <1>2, <2>1, <3>1 DEF ApiHandles
  <2> QED BY <2>1, <2>2, <2>3, <2>4, <2>5 DEF ApiHandles
<1> QED BY <1>1, <1>2

LEMMA HandleDeleted ==
  ASSUME ApiHandles, NEW h \in A!Handles, ready' = ready \ {h}, A!Release(h), UNCHANGED <<api, active>>
  PROVE  ApiHandles'
<1>1. CASE ~A!Bound
  BY <1>1 DEF ApiHandles, A!Release, A!Bound, A!cVars
<1>2. CASE A!Bound
  <2>0. /\ made' = made /\ heap' = heap \ {handle[h]} /\ handle' = [handle EXCEPT ![h] = 0]
        /\ handle \in [A!Handles -> Nat]
    BY <1>2 DEF ApiHandles, A!Release, A!CDelete
  <2>1. /\ handle' \in [A!Handles -> Nat] /\ made' \in Nat /\ handle'[h] = 0
        /\ \A k \in A!Handles \ {h} : handle'[k] = handle[k]
    BY <2>0 DEF ApiHandles
  <2>2. heap' = {handle'[k] : k \in A!Handles} \ {0}
    <3>1. \A x : x \in heap' <=> x # 0 /\ x # handle[h] /\ \E k \in A!Handles : handle[k] = x
      BY <2>0 DEF ApiHandles
    <3>2. ASSUME NEW x, x # 0
          PROVE  (\E k \in A!Handles : handle'[k] = x)
                   <=> x # handle[h] /\ \E k \in A!Handles : handle[k] = x
      BY <2>1, <3>2 DEF ApiHandles
    <3> QED BY <3>1, <3>2
  <2>3. \A k \in A!Handles : handle'[k] <= made'
    BY <2>0, <2>1 DEF ApiHandles
  <2>4. \A j, k \in A!Handles : handle'[j] = handle'[k] => j = k \/ handle'[j] = 0
    BY <2>1 DEF ApiHandles
  <2>5. \A k \in A!Handles : k \in ready' <=> handle'[k] # 0
    BY <1>2, <2>1 DEF ApiHandles
  <2> QED BY <2>1, <2>2, <2>3, <2>4, <2>5 DEF ApiHandles, A!Bound
<1> QED BY <1>1, <1>2

LEMMA HandlesQuiet ==
  ASSUME ApiHandles, UNCHANGED <<api, active, ready, handle, heap, made>>
  PROVE  ApiHandles'
BY DEF ApiHandles, A!Bound

---------------------------------------------------------------------------
(* The calls.                                                               *)

LEMMA ApiNames ==
  /\ A!Handles = {"object", "cond", "attr"} /\ A!Locks = {"mutex", "fastmutex"}
  /\ Null \notin Freds
BY FredAssumption DEF A!Handles, A!Locks

LEMMA AttrInv ==
  ASSUME ApiInv,
         \/ A!fibre_mutexattr_init \/ A!fibre_mutexattr_settype \/ A!fibre_attr_destroy
         \/ A!fibre_attr_init \/ (\E field \in A!Fields : A!cfibre_attr_set(field))
         \/ \E given \in BOOLEAN : A!cfibre_create(given)
  PROVE  ApiInv'
<1>1. /\ UNCHANGED <<api, active, what>> /\ UNCHANGED <<taker, readers, permits, sleepers, doing, told, tally>>
      /\ \/ UNCHANGED <<ready, handle, heap, made>>
         \/ "attr" \notin ready /\ ready' = ready \cup {"attr"} /\ A!Create("attr")
         \/ ready' = ready \ {"attr"} /\ A!Release("attr")
  BY DEF A!fibre_mutexattr_init, A!fibre_mutexattr_settype, A!fibre_attr_destroy, A!fibre_attr_init,
     A!cfibre_attr_set, A!fibre_attr_set, A!cfibre_create, A!fibre_create, A!progVars, A!cVars, A!objVars,
     A!lockVars, A!userVars
<1>2. ApiHandles'
  BY <1>1, ApiNames, HandleMade, HandleDeleted, HandlesQuiet DEF ApiInv
<1>3. ApiProgram' /\ ("object" \in ready' <=> "object" \in ready)
  BY <1>1, ApiNames DEF ApiInv, ApiProgram
<1>4. ApiUsers' /\ ApiCounts'
  BY <1>1 DEF ApiInv, ApiUsers, ApiCounts
<1>5. IF active' THEN ApiLock' ELSE ApiOneThread'
  BY <1>1, <1>3 DEF ApiInv, ApiLock, ApiOneThread, A!Quiet, A!HasNothing, A!Calls
<1> QED BY <1>2, <1>3, <1>4, <1>5 DEF ApiInv

LEMMA ConstructInv ==
  ASSUME ApiInv, NEW value \in 0 .. 1, NEW code, A!Construct(code, value), A!Bound => code = A!Success
  PROVE  ApiInv'
<1>1. /\ UNCHANGED <<api, active, what>> /\ UNCHANGED <<sleepers, doing, told>>
      /\ "object" \notin ready /\ ready' = (IF code = A!Success THEN ready \cup {"object"} ELSE ready)
      /\ taker' = Null /\ readers' = {} /\ permits' = value
      /\ tally' = [gained |-> 0, posted |-> value, serials |-> 0, passes |-> 0]
      /\ A!Create("object")
  BY DEF A!Construct, A!progVars, A!lockVars, A!userVars
<1>2. ApiHandles'
  <2>1. CASE code = A!Success
    BY <1>1, <2>1, ApiNames, HandleMade DEF ApiInv
  <2>2. CASE code # A!Success
    <3>1. ~A!Bound
      BY <2>2
    <3>2. UNCHANGED <<handle, heap, made>> /\ ready' = ready
      BY <1>1, <2>2, <3>1 DEF A!Create, A!cVars
    <3> QED BY <1>1, <3>2, HandlesQuiet DEF ApiInv
  <2> QED BY <2>1, <2>2
<1>3. ApiProgram'
  BY <1>1, ApiNames DEF ApiInv, ApiProgram
<1>4. ApiUsers'
  BY <1>1 DEF ApiInv, ApiUsers
<1>5. ApiCounts'
  BY <1>1, ApiAssumption DEF ApiCounts
<1>6. IF active' THEN ApiLock' ELSE ApiOneThread'
  BY <1>1, ApiNames DEF ApiInv, ApiLock, ApiOneThread, A!Quiet, A!HasNothing, A!Calls
<1> QED BY <1>2, <1>3, <1>4, <1>5, <1>6 DEF ApiInv

LEMMA MadeInv ==
  ASSUME ApiInv,
         \/ \E value \in 0 .. 1 : A!fibre_sem_init(value)
         \/ A!fibre_mutex_init \/ A!fibre_fastmutex_init \/ A!fibre_rwlock_init \/ A!fibre_barrier_init
  PROVE  ApiInv'
<1>1. PICK value, code : value \in 0 .. 1 /\ A!Construct(code, value) /\ (A!Bound => code = A!Success)
  <2>1. A!Bound => A!TypeGiven # "recursive"
    BY DEF A!TypeGiven
  <2>2. 0 \in 0 .. 1
    OBVIOUS
  <2>3. CASE \E value \in 0 .. 1 : A!fibre_sem_init(value)
    BY <2>3 DEF A!fibre_sem_init
  <2>4. CASE A!fibre_rwlock_init \/ A!fibre_barrier_init
    BY <2>2, <2>4 DEF A!fibre_rwlock_init, A!fibre_barrier_init
  <2>5. CASE A!fibre_mutex_init \/ A!fibre_fastmutex_init
    BY <2>1, <2>2, <2>5 DEF A!fibre_mutex_init, A!fibre_fastmutex_init
  <2> QED BY <2>3, <2>4, <2>5
<1> QED BY <1>1, ConstructInv

LEMMA RecursiveMadeInv == ASSUME ApiInv, A!gthread_recursive_mutex_init PROVE ApiInv'
<1>1. /\ UNCHANGED <<api, active, what>> /\ UNCHANGED <<readers, permits, sleepers, doing, told, tally>>
      /\ active /\ "object" \notin ready /\ ready' = ready \cup {"object"} /\ taker' = Null
      /\ made' = made + 2 /\ heap' = heap \cup {made + 2}
      /\ handle' = [handle EXCEPT !["object"] = made + 2]
      /\ A!Bound
  BY DEF A!gthread_recursive_mutex_init, A!progVars, A!userVars, A!Bound
<1>2. ApiHandles'
  <2>0. handle["object"] = 0 /\ made \in Nat /\ handle \in [A!Handles -> Nat] /\ "object" \in A!Handles
    BY <1>1, ApiNames DEF ApiInv, ApiHandles
  <2>1. /\ handle' \in [A!Handles -> Nat] /\ made' \in Nat /\ handle'["object"] = made + 2
        /\ \A k \in A!Handles \ {"object"} : handle'[k] = handle[k] /\ handle[k] # made + 2
    BY <1>1, <2>0 DEF ApiInv, ApiHandles
  <2>2. heap' = {handle'[k] : k \in A!Handles} \ {0}
    <3>1. \A x : x \in heap' <=> x \in heap \/ x = made + 2
      BY <1>1
    <3>2. \A x : x \in heap <=> x # 0 /\ \E k \in A!Handles : handle[k] = x
      BY DEF ApiInv, ApiHandles
    <3>3. \A x : x # 0 => ((\E k \in A!Handles : handle'[k] = x)
                           <=> x = made + 2 \/ \E k \in A!Handles : handle[k] = x)
      BY <2>0, <2>1
    <3>4. made + 2 # 0
      BY <2>0
    <3> QED BY <3>1, <3>2, <3>3, <3>4
  <2>3. \A k \in A!Handles : handle'[k] <= made'
    BY <1>1, <2>0, <2>1 DEF ApiInv, ApiHandles
  <2>4. \A j, k \in A!Handles : handle'[j] = handle'[k] => j = k \/ handle'[j] = 0
    BY <2>1 DEF ApiInv, ApiHandles
  <2>5. \A k \in A!Handles : k \in ready' <=> handle'[k] # 0
    <3>1. made + 2 # 0
      BY <2>0
    <3> QED BY <1>1, <2>1, <3>1 DEF ApiInv, ApiHandles
  <2> QED BY <2>1, <2>2, <2>3, <2>4, <2>5 DEF ApiHandles
<1>3. ApiProgram' /\ ApiUsers' /\ ApiCounts'
  BY <1>1, ApiNames DEF ApiInv, ApiProgram, ApiUsers, ApiCounts
<1>4. ApiLock'
  BY <1>1, ApiNames DEF ApiInv, ApiLock, A!Quiet, A!HasNothing, A!Calls
<1> QED BY <1>1, <1>2, <1>3, <1>4 DEF ApiInv

LEMMA CondMadeInv == ASSUME ApiInv, A!fibre_cond_init PROVE ApiInv'
<1>1. /\ UNCHANGED <<api, active, what>> /\ UNCHANGED <<taker, readers, permits, doing, told, tally>>
      /\ what \in A!Locks /\ "cond" \notin ready /\ ready' = ready \cup {"cond"} /\ sleepers' = {}
      /\ A!Create("cond")
  BY DEF A!fibre_cond_init, A!progVars, A!userVars, A!lockVars
<1>2. ApiHandles'
  BY <1>1, ApiNames, HandleMade DEF ApiInv
<1>3. ApiProgram' /\ ApiUsers' /\ ApiCounts'
  BY <1>1, ApiNames DEF ApiInv, ApiProgram, ApiUsers, ApiCounts
<1>4. IF active' THEN ApiLock' ELSE ApiOneThread'
  BY <1>1, ApiNames DEF ApiInv, ApiLock, ApiOneThread, A!Quiet, A!HasNothing, A!Calls
<1> QED BY <1>2, <1>3, <1>4 DEF ApiInv

LEMMA DestroyInv ==
  ASSUME ApiInv, NEW h \in {"object", "cond"}, A!fibre_destroy(h)
  PROVE  ApiInv'
<1>1. /\ UNCHANGED <<api, active, what>> /\ UNCHANGED <<taker, readers, sleepers, doing, told>>
      /\ h \in A!Handles /\ A!Quiet /\ ready' = ready \ {h} /\ permits' = 0
      /\ tally' = [tally EXCEPT !.gained = 0, !.posted = 0]
      /\ A!Release(h)
  BY ApiNames DEF A!fibre_destroy, A!progVars, A!userVars, A!lockVars
<1>2. ApiHandles'
  BY <1>1, HandleDeleted DEF ApiInv
<1>3. ApiProgram' /\ ApiUsers'
  BY <1>1, ApiNames DEF ApiInv, ApiProgram, ApiUsers
<1>5. ApiCounts'
  <2>1. /\ tally' \in [gained : Int, posted : Int, serials : Int, passes : Int]
        /\ tally'.gained = 0 /\ tally'.posted = 0
        /\ tally'.serials = tally.serials /\ tally'.passes = tally.passes
    <3>1. PICK t : t = [tally EXCEPT !.gained = 0]
      OBVIOUS
    <3>2. tally' = [t EXCEPT !.posted = 0]
      BY <1>1, <3>1
    <3>3. /\ t \in [gained : Int, posted : Int, serials : Int, passes : Int] /\ t.gained = 0
          /\ t.serials = tally.serials /\ t.passes = tally.passes
      BY <3>1 DEF ApiInv, ApiCounts
    <3> QED BY <3>2, <3>3
  <2> QED BY <1>1, <2>1 DEF ApiInv, ApiCounts
<1>4. IF active' THEN ApiLock' ELSE ApiOneThread'
  BY <1>1, ApiNames DEF ApiInv, ApiLock, ApiOneThread, A!Quiet, A!HasNothing, A!Calls
<1> QED BY <1>2, <1>3, <1>4, <1>5 DEF ApiInv

LEMMA SemInv ==
  ASSUME ApiUsers, ApiCounts, NEW f \in Freds, A!cfibre_sem(f)
  PROVE  ApiCounts' /\ UNCHANGED <<taker, readers, sleepers, doing, told>>
<1>1. CASE A!fibre_sem_post(f)
  <2>1. /\ permits' = permits + 1 /\ tally' = [tally EXCEPT !.posted = @ + 1]
        /\ UNCHANGED <<taker, readers, sleepers, doing, told>>
    BY <1>1 DEF A!fibre_sem_post, A!lockVars
  <2>2. /\ tally' \in [gained : Int, posted : Int, serials : Int, passes : Int]
        /\ tally'.gained = tally.gained /\ tally'.posted = tally.posted + 1
        /\ tally'.serials = tally.serials /\ tally'.passes = tally.passes
    BY <2>1 DEF ApiCounts
  <2> QED BY <2>1, <2>2 DEF ApiCounts
<1>2. ASSUME NEW how, A!fibre_sem_wait(f, how)
      PROVE  ApiCounts' /\ UNCHANGED <<taker, readers, sleepers, doing, told>>
  <2>1. /\ UNCHANGED <<taker, readers, sleepers, doing, told>>
        /\ \/ permits' = permits - 1 /\ tally' = [tally EXCEPT !.gained = @ + 1]
           \/ permits' = permits /\ tally' = tally
    <3>1. CASE permits > 0
      BY <1>2, <3>1 DEF A!fibre_sem_wait, A!lockVars
    <3>2. CASE ~(permits > 0) /\ how = "try"
      BY <1>2, <3>2 DEF A!fibre_sem_wait, A!lockVars, A!Success, A!EAGAIN
    <3>3. CASE ~(permits > 0) /\ how # "try"
      BY <1>2, <3>3 DEF A!fibre_sem_wait, A!lockVars, A!Success, A!ETIMEDOUT
    <3> QED BY <3>1, <3>2, <3>3
  <2>2. CASE permits' = permits - 1 /\ tally' = [tally EXCEPT !.gained = @ + 1]
    <3>1. /\ tally' \in [gained : Int, posted : Int, serials : Int, passes : Int]
          /\ tally'.gained = tally.gained + 1 /\ tally'.posted = tally.posted
          /\ tally'.serials = tally.serials /\ tally'.passes = tally.passes
      BY <2>2 DEF ApiCounts
    <3> QED BY <2>1, <2>2, <3>1 DEF ApiCounts
  <2> QED BY <2>1, <2>2 DEF ApiCounts
<1> QED BY <1>1, <1>2 DEF A!cfibre_sem

\* A return code of 0 says that the call has what it was for.
LEMMA CodeOfLock ==
  ASSUME NEW how, NEW ok \in BOOLEAN
  PROVE  A!LockCode(how, ok) = A!Success <=> ok
<1>1. CASE ok
  BY <1>1 DEF A!LockCode
<1>2. CASE ~ok /\ how = "try"
  BY <1>2 DEF A!LockCode, A!Success, A!EBUSY
<1>3. CASE ~ok /\ how # "try"
  BY <1>3 DEF A!LockCode, A!Success, A!ETIMEDOUT
<1> QED BY <1>1, <1>2, <1>3

\* Calls on a lock, on a condition: what changes is one fred's part.
LEMMA MutexInv ==
  ASSUME ApiUsers, ApiLock, what \in A!Locks, UNCHANGED <<api, active, what, ready>>,
         "object" \in ready, NEW f \in Freds,
         A!fibre_mutex_unlock(f) \/ \E how \in A!Hows : A!fibre_mutex_lock(f, how)
  PROVE  ApiUsers' /\ ApiLock' /\ UNCHANGED <<permits, tally>>
<1>1. CASE A!fibre_mutex_unlock(f)
  <2>1. /\ told[f] = "write" /\ doing[f] = "none" /\ taker' = Null /\ told' = [told EXCEPT ![f] = "none"]
        /\ UNCHANGED <<readers, permits, sleepers, doing, tally>>
    BY <1>1 DEF A!fibre_mutex_unlock, A!Calls
  <2>2. taker = f
    BY <2>1 DEF ApiLock
  <2>3. ApiUsers'
    BY <2>1 DEF ApiUsers
  <2>4. ApiLock'
    BY <2>1, <2>2, ApiNames DEF ApiLock, ApiUsers
  <2> QED BY <2>1, <2>3, <2>4
<1>2. ASSUME NEW how, A!fibre_mutex_lock(f, how)
      PROVE  ApiUsers' /\ ApiLock' /\ UNCHANGED <<permits, tally>>
  <2>1. /\ UNCHANGED <<readers, permits, sleepers, doing, tally>> /\ told[f] = "none" /\ doing[f] = "none"
        /\ \/ taker = Null /\ taker' = f /\ told' = [told EXCEPT ![f] = "write"]
           \/ taker' = taker /\ told' = told
    BY <1>2, CodeOfLock DEF A!fibre_mutex_lock, A!HasNothing, A!Calls, A!Tell
  <2>2. ApiUsers'
    BY <2>1, ApiNames DEF ApiUsers
  <2>3. readers = {}
    BY ApiNames DEF ApiUsers, ApiLock
  <2>4. ApiLock'
    BY <2>1, <2>3, ApiNames DEF ApiLock, ApiUsers
  <2> QED BY <2>1, <2>2, <2>4
<1> QED BY <1>1, <1>2

LEMMA CondInv ==
  ASSUME ApiUsers, ApiLock, UNCHANGED <<api, active, what, ready>>, "cond" \in ready => what \in A!Locks,
         NEW f \in Freds, A!cfibre_cond(f)
  PROVE  ApiUsers' /\ ApiLock' /\ UNCHANGED <<permits, tally>>
<1>0. "object" \in ready /\ what \in A!Locks /\ what # "barrier"
  BY ApiNames DEF A!cfibre_cond, A!Deref
<1>9. readers = {}
  BY <1>0, ApiNames DEF ApiUsers, ApiLock
<1>1. ASSUME NEW how \in {"cond", "timedcond"}, A!fibre_cond_wait(f, how)
      PROVE  ApiUsers' /\ ApiLock' /\ UNCHANGED <<permits, tally>>
  <2>1. /\ told[f] = "write" /\ doing[f] = "none" /\ taker' = Null /\ sleepers' = sleepers \cup {f}
        /\ doing' = [doing EXCEPT ![f] = how] /\ UNCHANGED <<readers, permits, told, tally>>
    BY <1>1 DEF A!fibre_cond_wait, A!Calls
  <2>2. taker = f
    BY <2>1 DEF ApiLock
  <2>3. ApiUsers'
    BY <1>0, <2>1, ApiNames DEF ApiUsers
  <2>4. ApiLock'
    BY <1>0, <1>9, <2>1, <2>2, ApiNames DEF ApiLock, ApiUsers
  <2> QED BY <2>1, <2>3, <2>4
<1>2. CASE A!fibre_cond_timeout(f)
  <2>1. /\ doing[f] = "timedcond" /\ sleepers' = sleepers \ {f} /\ doing' = [doing EXCEPT ![f] = "relock"]
        /\ UNCHANGED <<taker, readers, permits, told, tally>>
    BY <1>2 DEF A!fibre_cond_timeout, A!lockVars
  <2>2. ApiUsers'
    BY <1>0, <2>1 DEF ApiUsers
  <2>3. ApiLock'
    BY <1>0, <1>9, <2>1, ApiNames DEF ApiLock, ApiUsers
  <2> QED BY <2>1, <2>2, <2>3
<1>3. CASE A!fibre_cond_relock(f)
  <2>1. /\ doing[f] = "relock" /\ taker = Null /\ taker' = f /\ doing' = [doing EXCEPT ![f] = "none"]
        /\ UNCHANGED <<readers, permits, sleepers, told, tally>>
    BY <1>3 DEF A!fibre_cond_relock
  <2>2. told[f] = "write" /\ f \notin sleepers
    BY <2>1 DEF ApiUsers
  <2>3. ApiUsers'
    BY <1>0, <2>1, <2>2 DEF ApiUsers
  <2>4. ApiLock'
    BY <1>0, <1>9, <2>1, <2>2, ApiNames DEF ApiLock, ApiUsers
  <2> QED BY <2>1, <2>3, <2>4
<1>4. ASSUME NEW called \in SUBSET sleepers, A!fibre_cond_signal(f, called)
      PROVE  ApiUsers' /\ ApiLock' /\ UNCHANGED <<permits, tally>>
  <2>1. /\ sleepers' = sleepers \ called
        /\ doing' = [g \in Freds |-> IF g \in called THEN "relock" ELSE doing[g]]
        /\ UNCHANGED <<taker, readers, permits, told, tally>>
    BY <1>4 DEF A!fibre_cond_signal, A!lockVars
  <2>2. \A g \in called : g \in Freds /\ doing[g] \in {"cond", "timedcond"} /\ told[g] = "write"
    BY <1>0 DEF ApiUsers
  <2>3. ApiUsers'
    BY <1>0, <2>1, <2>2 DEF ApiUsers
  <2>4. ApiLock'
    BY <1>0, <1>9, <2>1, <2>2, ApiNames DEF ApiLock, ApiUsers
  <2> QED BY <2>1, <2>3, <2>4
<1> QED BY <1>1, <1>2, <1>3, <1>4 DEF A!cfibre_cond

LEMMA RWLockInv ==
  ASSUME ApiUsers, ApiLock, UNCHANGED <<api, active, what, ready>>, NEW f \in Freds, A!cfibre_rwlock(f)
  PROVE  ApiUsers' /\ ApiLock' /\ UNCHANGED <<permits, tally>>
<1>0. what = "rwlock" /\ "object" \in ready /\ what \notin A!Locks /\ what # "barrier"
  BY ApiNames DEF A!cfibre_rwlock, A!Deref
<1>1. CASE A!fibre_rwlock_unlock(f)
  <2>1. /\ told[f] # "none" /\ doing[f] = "none" /\ told' = [told EXCEPT ![f] = "none"]
        /\ \/ taker # Null /\ taker' = Null /\ readers' = readers
           \/ taker = Null /\ taker' = taker /\ readers' = readers \ {f}
        /\ UNCHANGED <<permits, sleepers, doing, tally>>
    BY <1>1 DEF A!fibre_rwlock_unlock, A!Calls
  <2>2. taker # Null => taker = f /\ told[f] = "write"
    BY <2>1 DEF ApiUsers, ApiLock
  <2>3. ApiUsers'
    BY <1>0, <2>1 DEF ApiUsers
  <2>4. ApiLock'
    BY <1>0, <2>1, <2>2, ApiNames DEF ApiLock, ApiUsers
  <2> QED BY <2>1, <2>3, <2>4
<1>2. ASSUME NEW how, A!fibre_rwlock_rdlock(f, how)
      PROVE  ApiUsers' /\ ApiLock' /\ UNCHANGED <<permits, tally>>
  <2>1. /\ UNCHANGED <<taker, permits, sleepers, doing, tally>> /\ told[f] = "none" /\ doing[f] = "none"
        /\ \/ taker = Null /\ readers' = readers \cup {f} /\ told' = [told EXCEPT ![f] = "read"]
           \/ readers' = readers /\ told' = told
    BY <1>2, CodeOfLock DEF A!fibre_rwlock_rdlock, A!HasNothing, A!Calls, A!Tell
  <2>2. ApiUsers'
    BY <1>0, <2>1 DEF ApiUsers
  <2>3. ApiLock'
    BY <1>0, <2>1, ApiNames DEF ApiLock, ApiUsers
  <2> QED BY <2>1, <2>2, <2>3
<1>3. ASSUME NEW how, A!fibre_rwlock_wrlock(f, how)
      PROVE  ApiUsers' /\ ApiLock' /\ UNCHANGED <<permits, tally>>
  <2>1. /\ UNCHANGED <<readers, permits, sleepers, doing, tally>> /\ told[f] = "none" /\ doing[f] = "none"
        /\ \/ taker = Null /\ readers = {} /\ taker' = f /\ told' = [told EXCEPT ![f] = "write"]
           \/ taker' = taker /\ told' = told
    BY <1>3, CodeOfLock DEF A!fibre_rwlock_wrlock, A!HasNothing, A!Calls, A!Tell
  <2>2. ApiUsers'
    BY <1>0, <2>1 DEF ApiUsers
  <2>3. ApiLock'
    BY <1>0, <2>1, ApiNames DEF ApiLock, ApiUsers
  <2> QED BY <2>1, <2>2, <2>3
<1> QED BY <1>1, <1>2, <1>3 DEF A!cfibre_rwlock

LEMMA ApiBarrierInv ==
  ASSUME ApiUsers, ApiLock, ApiCounts, UNCHANGED <<api, active, what, ready>>, NEW f \in Freds, A!cfibre_barrier(f)
  PROVE  ApiUsers' /\ ApiLock' /\ ApiCounts'
<1>0. what = "barrier" /\ "object" \in ready /\ what \notin A!Locks /\ what # "rwlock"
  BY ApiNames DEF A!cfibre_barrier, A!Deref
<1>1. /\ UNCHANGED <<taker, readers, permits, told>> /\ doing[f] = "none"
      /\ \/ /\ sleepers' = sleepers \cup {f} /\ doing' = [doing EXCEPT ![f] = "barrier"] /\ tally' = tally
         \/ /\ sleepers' = {} /\ doing' = [g \in Freds |-> IF g \in sleepers THEN "none" ELSE doing[g]]
            /\ tally' = [tally EXCEPT !.serials = @ + 1, !.passes = (@ + Group)]
  BY DEF A!cfibre_barrier, A!fibre_barrier_wait, A!Calls, A!lockVars
<1>2. (\A g \in Freds : told[g] = "none") /\ readers = {} /\ taker = Null
  BY <1>0 DEF ApiUsers, ApiLock
<1>3. ApiUsers'
  BY <1>0, <1>1, <1>2 DEF ApiUsers
<1>4. ApiLock'
  BY <1>0, <1>1, <1>2, ApiNames DEF ApiLock
<1>5. ApiCounts'
  <2>1. CASE tally' = tally
    BY <1>1, <2>1 DEF ApiCounts
  <2>2. CASE tally' = [tally EXCEPT !.serials = @ + 1, !.passes = (@ + Group)]
    <3>1. /\ tally' \in [gained : Int, posted : Int, serials : Int, passes : Int]
          /\ tally'.gained = tally.gained /\ tally'.posted = tally.posted
          /\ tally'.serials = tally.serials + 1 /\ tally'.passes = tally.passes + Group
      <4>1. PICK t : t = [tally EXCEPT !.serials = tally.serials + 1]
        OBVIOUS
      <4>2. tally' = [t EXCEPT !.passes = tally.passes + Group]
        BY <2>2, <4>1
      <4>3. /\ t \in [gained : Int, posted : Int, serials : Int, passes : Int]
            /\ t.gained = tally.gained /\ t.posted = tally.posted /\ t.serials = tally.serials + 1
        BY <4>1 DEF ApiCounts
      <4>4. tally.passes + Group \in Int
        BY ApiAssumption DEF ApiCounts
      <4> QED BY <4>2, <4>3, <4>4
    <3>2. ASSUME NEW n \in Int PROVE Group * (n + 1) = Group * n + Group
      BY ApiAssumption
    <3>3. tally'.passes = Group * tally'.serials
      BY <3>1, <3>2 DEF ApiCounts
    <3> QED BY <1>1, <3>1, <3>3 DEF ApiCounts
  <2> QED BY <1>1, <2>1, <2>2
<1> QED BY <1>3, <1>4, <1>5

LEMMA UseInv ==
  ASSUME ApiInv, NEW f \in Freds, A!Use(f), UNCHANGED <<A!progVars, ready, A!attrVars, A!cVars>>
  PROVE  ApiInv'
<1>0. UNCHANGED <<api, active, what, ready>> /\ UNCHANGED <<handle, heap, made>>
  BY DEF A!progVars, A!cVars
<1>1. ApiHandles' /\ ApiProgram'
  BY <1>0, HandlesQuiet DEF ApiInv, ApiProgram
<1>2. CASE ~active
  <2>0. api = "gthr"
    BY <1>2 DEF ApiInv, ApiProgram
  <2>1. A!gthread_mutex_inactive(f)
    BY <1>2, <2>0 DEF A!Use, A!gthread_mutex, A!gthread_recursive_mutex, A!gthread_cond
  <2>2. /\ what = "mutex" /\ \A g \in Freds \ {f} : told[g] = "none"
        /\ told' = [told EXCEPT ![f] = IF @ = "none" THEN "write" ELSE "none"]
        /\ UNCHANGED <<taker, readers, permits, sleepers, doing, tally>>
    BY <2>1 DEF A!gthread_mutex_inactive, A!HasNothing, A!objVars, A!lockVars
  <2>3. ApiOneThread'
    BY <1>2, <2>2 DEF ApiOneThread, ApiInv, ApiUsers
  <2>4. ApiCounts'
    BY <2>2 DEF ApiInv, ApiCounts
  <2>5. ApiUsers'
    <3>1. \A g \in Freds : told'[g] \in {"none", "write"} /\ told' \in [Freds -> {"none", "read", "write"}]
      BY <2>2 DEF ApiInv, ApiUsers
    <3>2. \A g \in Freds : doing[g] \notin {"cond", "timedcond", "relock"} \/ told'[g] = "write"
      BY <1>2 DEF ApiInv, ApiOneThread
    <3> QED BY <1>0, <2>2, <3>1, <3>2, ApiNames DEF ApiInv, ApiUsers
  <2> QED BY <1>0, <1>1, <1>2, <2>3, <2>4, <2>5 DEF ApiInv
<1>3. CASE active
  <2>0. ApiUsers /\ ApiLock /\ ApiCounts /\ ApiProgram
    BY <1>3 DEF ApiInv
  <2>1. \/ A!cfibre_sem(f) \/ A!cfibre_mutex(f) \/ A!cfibre_fastmutex(f) \/ A!cfibre_cond(f)
        \/ A!cfibre_rwlock(f) \/ A!cfibre_barrier(f)
    BY <1>3 DEF A!Use, A!gthread_mutex, A!gthread_recursive_mutex, A!gthread_cond
  <2>2. ApiUsers' /\ ApiLock' /\ ApiCounts'
    <3>1. CASE A!cfibre_sem(f)
      <4>1. ApiCounts' /\ UNCHANGED <<taker, readers, sleepers, doing, told>>
        BY <2>0, <3>1, SemInv
      <4>2. ApiUsers'
        BY <1>0, <2>0, <4>1 DEF ApiUsers
      <4>3. ApiLock'
        BY <1>0, <2>0, <4>1 DEF ApiLock, A!Quiet, A!HasNothing, A!Calls
      <4> QED BY <4>1, <4>2, <4>3
    <3>2. CASE A!cfibre_mutex(f) \/ A!cfibre_fastmutex(f)
      <4>1. /\ what \in A!Locks /\ "object" \in ready
            /\ A!fibre_mutex_unlock(f) \/ \E how \in A!Hows : A!fibre_mutex_lock(f, how)
        BY <3>2, ApiNames DEF A!cfibre_mutex, A!cfibre_fastmutex, A!fibre_fastmutex_lock, A!Deref
      <4>2. ApiUsers' /\ ApiLock' /\ UNCHANGED <<permits, tally>>
        BY <1>0, <2>0, <4>1, MutexInv
      <4> QED BY <2>0, <4>2 DEF ApiCounts
    <3>3. CASE A!cfibre_cond(f)
      <4>1. ApiUsers' /\ ApiLock' /\ UNCHANGED <<permits, tally>>
        BY <1>0, <2>0, <3>3, CondInv DEF ApiProgram
      <4> QED BY <2>0, <4>1 DEF ApiCounts
    <3>4. CASE A!cfibre_rwlock(f)
      <4>1. ApiUsers' /\ ApiLock' /\ UNCHANGED <<permits, tally>>
        BY <1>0, <2>0, <3>4, RWLockInv
      <4> QED BY <2>0, <4>1 DEF ApiCounts
    <3>5. CASE A!cfibre_barrier(f)
      BY <1>0, <2>0, <3>5, ApiBarrierInv
    <3> QED BY <2>1, <3>1, <3>2, <3>3, <3>4, <3>5
  <2> QED BY <1>0, <1>1, <1>3, <2>2 DEF ApiInv
<1> QED BY <1>2, <1>3 DEF ApiInv, ApiProgram

LEMMA ApiNextInv == ApiInv /\ A!FibreApiNext => ApiInv'
<1> SUFFICES ASSUME ApiInv, A!FibreApiNext PROVE ApiInv'
  OBVIOUS
<1>1. ASSUME NEW f \in Freds, A!Use(f), UNCHANGED <<A!progVars, ready, A!attrVars, A!cVars>>
      PROVE  ApiInv'
  BY <1>1, UseInv
<1>2. ASSUME NEW h \in {"object", "cond"}, A!fibre_destroy(h) PROVE ApiInv'
  BY <1>2, DestroyInv
<1> QED BY <1>1, <1>2, AttrInv, MadeInv, RecursiveMadeInv, CondMadeInv DEF A!FibreApiNext

LEMMA ApiInvSound == ApiInv => A!ApiTruthful /\ A!HandlesExact
<1> SUFFICES ASSUME ApiInv PROVE A!ApiTruthful /\ A!HandlesExact
  OBVIOUS
<1>1. \A f, g \in Freds : f # g /\ told[f] = "write" => told[g] = "none" \/ doing[f] # "none" \/ doing[g] # "none"
  <2>1. CASE active
    BY <2>1, ApiNames DEF ApiInv, ApiLock, ApiUsers
  <2>2. CASE ~active
    BY <2>2 DEF ApiInv, ApiOneThread
  <2> QED BY <2>1, <2>2
<1>2. active => \A f \in Freds :
        doing[f] = "none" => (told[f] = "write" <=> taker = f) /\ (told[f] = "read" <=> f \in readers)
  BY DEF ApiInv, ApiLock
<1>3. permits + tally.gained = tally.posted /\ tally.passes = Group * tally.serials
  BY DEF ApiInv, ApiCounts
<1>4. heap = {handle[h] : h \in A!Handles} \ {0} /\ \A h \in ready : A!Bound => handle[h] \in heap
  BY DEF ApiInv, ApiHandles, ApiProgram
<1> QED BY <1>1, <1>2, <1>3, <1>4 DEF A!ApiTruthful, A!HandlesExact

\* Through every layer of the interface, for any number of freds: whoever a
\* return code told that it has the lock has it, also after a condition wait
\* that ended late and with a handle that is used again; a semaphore grants
\* what was posted; one fred of each group that passes a barrier is told; and
\* handles and heap objects match one to one.
THEOREM InterfacesAreSound == PrimitivesSpec => []ApiSound
<1>1. PrimitivesInit => (part = "api" => ApiInv)
  BY ApiInitInv DEF PrimitivesInit
<1>2. PrimitivesNext => part' = part /\ (part = "api" => A!FibreApiNext)
  BY DEF PrimitivesNext
<1>3. UNCHANGED primitivesVars => part' = part /\ UNCHANGED apiVars
  BY DEF primitivesVars
<1>4. ApiInv /\ UNCHANGED apiVars => ApiInv'
  BY DEF apiVars, ApiInv, ApiHandles, ApiProgram, ApiUsers, ApiLock, ApiOneThread, ApiCounts, A!Bound,
     A!Quiet, A!HasNothing, A!Calls
<1>5. (part = "api" => ApiInv) /\ [PrimitivesNext]_primitivesVars => (part = "api" => ApiInv)'
  BY <1>2, <1>3, <1>4, ApiNextInv
<1>6. (part = "api" => ApiInv) => ApiSound
  BY ApiInvSound DEF ApiSound
<1> QED BY <1>1, <1>5, <1>6, PTL DEF PrimitivesSpec
===========================================================================
