------------------------ MODULE BlockingQueueProofs ------------------------
(***************************************************************************)
(* Every step that the primitives take through Fred, TimerQueue and         *)
(* BlockingQueue preserves BlockInv.  The proofs of the primitives cite one *)
(* lemma per kind of step.                                                  *)
(***************************************************************************)
EXTENDS BlockingQueue, SequenceTheorems, TLAPS

(* Sequences without repetition. *)

\* Removing the element at i keeps a sequence free of repetition and takes
\* exactly that element out of it.
LEMMA RemoveAtDistinct ==
  ASSUME NEW S, NEW s \in Seq(S), IsInjective(s), NEW i \in DOMAIN s
  PROVE  /\ RemoveAt(s, i) \in Seq(S)
         /\ IsInjective(RemoveAt(s, i))
         /\ \A e : Contains(RemoveAt(s, i), e) <=> Contains(s, e) /\ e # s[i]
<1> DEFINE a == SubSeq(s, 1, i - 1)
           b == SubSeq(s, i + 1, Len(s))
           r == a \o b
<1>0. i \in 1 .. Len(s) /\ Len(s) \in Nat /\ DOMAIN s = 1 .. Len(s)
  BY LenProperties
<1>1. /\ a \in Seq(S) /\ Len(a) = i - 1
      /\ \A j \in 1 .. i - 1 : a[j] = s[j]
  <2>1. \A j \in 1 .. i - 1 : s[j] \in S
    BY <1>0, ElementOfSeq
  <2>. QED BY <1>0, <2>1, SubSeqProperties
<1>2. /\ b \in Seq(S) /\ Len(b) = Len(s) - i
      /\ \A j \in 1 .. Len(s) - i : b[j] = s[i + j]
  <2>1. \A j \in i + 1 .. Len(s) : s[j] \in S
    BY <1>0, ElementOfSeq
  <2>2. /\ b \in Seq(S)
        /\ Len(b) = IF i + 1 <= Len(s) THEN Len(s) - (i + 1) + 1 ELSE 0
        /\ \A j \in 1 .. Len(s) - (i + 1) + 1 : b[j] = s[(i + 1) + j - 1]
    BY <1>0, <2>1, SubSeqProperties
  <2>. QED BY <1>0, <2>2
<1>3. /\ r \in Seq(S) /\ Len(r) = Len(s) - 1
      /\ \A j \in 1 .. Len(s) - 1 : r[j] = IF j < i THEN s[j] ELSE s[j + 1]
  <2> HIDE DEF a, b
  <2>1. /\ r \in Seq(S) /\ Len(r) = Len(a) + Len(b)
        /\ \A j \in 1 .. Len(a) + Len(b) :
             r[j] = IF j <= Len(a) THEN a[j] ELSE b[j - Len(a)]
    BY <1>1, <1>2, ConcatProperties, Zenon
  <2> HIDE DEF r
  <2>2. Len(r) = Len(s) - 1
    BY <1>0, <1>1, <1>2, <2>1
  <2>3. ASSUME NEW j \in 1 .. Len(s) - 1
        PROVE  r[j] = IF j < i THEN s[j] ELSE s[j + 1]
    <3>1. CASE j < i
      BY <3>1, <1>0, <1>1, <1>2, <2>1
    <3>2. CASE j >= i
      <4>1. r[j] = b[j - Len(a)]
        BY <3>2, <1>0, <1>1, <1>2, <2>1
      <4>2. j - Len(a) \in 1 .. Len(s) - i /\ i + (j - Len(a)) = j + 1
        BY <3>2, <1>0, <1>1
      <4>3. b[j - Len(a)] = s[i + (j - Len(a))]
        BY <4>2, <1>2
      <4>. QED BY <3>2, <4>1, <4>2, <4>3, <1>0
    <3>. QED BY <3>1, <3>2, <1>0
  <2>. QED BY <2>1, <2>2, <2>3
<1>4. RemoveAt(s, i) = r
  BY DEF RemoveAt
<1> HIDE DEF r
<1>5. DOMAIN r = 1 .. Len(s) - 1
  BY <1>3, LenProperties
<1>6. IsInjective(r)
  <2>1. SUFFICES ASSUME NEW j \in 1 .. Len(s) - 1, NEW k \in 1 .. Len(s) - 1, r[j] = r[k]
                 PROVE  j = k
    BY <1>5 DEF IsInjective
  <2>2. \A m, n \in 1 .. Len(s) : s[m] = s[n] => m = n
    BY <1>0 DEF IsInjective
  <2>. QED BY <1>0, <1>3, <2>1, <2>2
<1>7. ASSUME NEW e
      PROVE  (\E j \in DOMAIN r : r[j] = e) <=> (\E j \in DOMAIN s : s[j] = e) /\ e # s[i]
  <2>1. ASSUME NEW j \in DOMAIN r, r[j] = e
        PROVE  (\E k \in DOMAIN s : s[k] = e) /\ e # s[i]
    BY <2>1, <1>0, <1>3, <1>5 DEF IsInjective
  <2>2. ASSUME NEW j \in DOMAIN s, s[j] = e, e # s[i]
        PROVE  \E k \in DOMAIN r : r[k] = e
    <3>1. CASE j < i
      BY <3>1, <2>2, <1>0, <1>3, <1>5
    <3>2. CASE j > i
      <4>1. j - 1 \in DOMAIN r /\ r[j - 1] = e
        BY <3>2, <2>2, <1>0, <1>3, <1>5
      <4>. QED BY <4>1
    <3>. QED BY <3>1, <3>2, <2>2, <1>0
  <2>. QED BY <2>1, <2>2
<1>. QED BY <1>0, <1>3, <1>4, <1>5, <1>6, <1>7 DEF Contains

\* Appending a new element keeps a sequence free of repetition.
LEMMA AppendDistinct ==
  ASSUME NEW S, NEW s \in Seq(S), IsInjective(s), NEW e \in S,
         ~Contains(s, e)
  PROVE  /\ Append(s, e) \in Seq(S)
         /\ IsInjective(Append(s, e))
         /\ \A d : Contains(Append(s, e), d) <=> Contains(s, d) \/ d = e
<1> DEFINE r == Append(s, e)
<1>1. /\ r \in Seq(S) /\ Len(r) = Len(s) + 1
      /\ \A j \in 1 .. Len(s) : r[j] = s[j]
      /\ r[Len(s) + 1] = e
  BY AppendProperties
<1>2. DOMAIN s = 1 .. Len(s) /\ DOMAIN r = 1 .. Len(s) + 1 /\ Len(s) \in Nat
  BY <1>1, LenProperties
<1> HIDE DEF r
<1>3. IsInjective(r)
  BY <1>1, <1>2 DEF IsInjective, Contains
<1>4. \A d : Contains(r, d) <=> Contains(s, d) \/ d = e
  BY <1>1, <1>2 DEF Contains
<1>. QED BY <1>1, <1>3, <1>4 DEF r

---------------------------------------------------------------------------
(* How a step changes who is owed a resume() and who is in a queue.         *)

LEMMA OwedSame ==
  ASSUME pending' = pending, NEW g
  PROVE  Owed(g)' <=> Owed(g)
BY DEF Owed

\* r wins f: the resume() of f is now owed, all others stay as they are.
LEMMA OwedAfterWin ==
  ASSUME NEW r \in Resumers, NEW f \in Freds, pending[r] = Null,
         pending \in [Resumers -> Freds \cup {Null}],
         pending' = [pending EXCEPT ![r] = f], NEW g \in Freds
  PROVE  Owed(g)' <=> Owed(g) \/ g = f
BY FredAssumption DEF Owed, Resumers

\* r calls resume(): only it owed it, so it is not owed any more.
LEMMA OwedAfterResume ==
  ASSUME NEW r \in Resumers, pending[r] \in Freds, OwedInv,
         pending \in [Resumers -> Freds \cup {Null}],
         pending' = [pending EXCEPT ![r] = Null], NEW g \in Freds
  PROVE  Owed(g)' <=> Owed(g) /\ g # pending[r]
BY FredAssumption DEF Owed, OwedInv, Resumers

LEMMA InQueueSame ==
  ASSUME bq' = bq, NEW g, NEW q
  PROVE  InQueue(g, q)' <=> InQueue(g, q)
BY DEF InQueue

\* A node is appended to q.
LEMMA InQueueAfterAppend ==
  ASSUME BlockTypeOK, NEW q \in Queues, NEW f \in Freds,
         IsInjective(bq[q]), ~InQueue(f, q),
         bq' = [bq EXCEPT ![q] = Append(@, f)]
  PROVE  /\ bq' \in [Queues -> Seq(Freds)]
         /\ IsInjective(bq'[q])
         /\ \A g : InQueue(g, q)' <=> InQueue(g, q) \/ g = f
         /\ \A p \in Queues \ {q} : /\ bq'[p] = bq[p]
                                   /\ \A g : InQueue(g, p)' <=> InQueue(g, p)
<1>1. bq[q] \in Seq(Freds) /\ bq \in [Queues -> Seq(Freds)]
  BY DEF BlockTypeOK
<1>2. bq'[q] = Append(bq[q], f) /\ \A p \in Queues \ {q} : bq'[p] = bq[p]
  BY <1>1
<1>3. /\ bq'[q] \in Seq(Freds)
      /\ IsInjective(bq'[q])
      /\ \A g : Contains(bq'[q], g) <=> Contains(bq[q], g) \/ g = f
  BY <1>1, <1>2, AppendDistinct DEF InQueue
<1>4. bq' \in [Queues -> Seq(Freds)]
  BY <1>1, <1>2, <1>3
<1>. QED BY <1>2, <1>3, <1>4 DEF InQueue

\* The node at i is taken out of q.
LEMMA InQueueAfterRemove ==
  ASSUME BlockTypeOK, NEW q \in Queues, NEW i \in DOMAIN bq[q],
         IsInjective(bq[q]),
         bq' = [bq EXCEPT ![q] = RemoveAt(@, i)]
  PROVE  /\ bq' \in [Queues -> Seq(Freds)]
         /\ IsInjective(bq'[q])
         /\ \A g : InQueue(g, q)' <=> InQueue(g, q) /\ g # bq[q][i]
         /\ \A p \in Queues \ {q} : /\ bq'[p] = bq[p]
                                   /\ \A g : InQueue(g, p)' <=> InQueue(g, p)
<1>1. bq[q] \in Seq(Freds) /\ bq \in [Queues -> Seq(Freds)]
  BY DEF BlockTypeOK
<1>2. bq'[q] = RemoveAt(bq[q], i) /\ \A p \in Queues \ {q} : bq'[p] = bq[p]
  BY <1>1
<1>3. /\ bq'[q] \in Seq(Freds)
      /\ IsInjective(bq'[q])
      /\ \A g : Contains(bq'[q], g) <=> Contains(bq[q], g) /\ g # bq[q][i]
  BY <1>1, <1>2, RemoveAtDistinct
<1>4. bq' \in [Queues -> Seq(Freds)]
  BY <1>1, <1>2, <1>3
<1>. QED BY <1>2, <1>3, <1>4 DEF InQueue

---------------------------------------------------------------------------
(* Steps of a suspending fred.                                              *)

LEMMA FredStepInv ==
  ASSUME BlockInv, NEW f \in Freds, FredStep(f), UNCHANGED <<timerVars, bqVars>>
  PROVE  BlockInv'
<1> USE DEF BlockInv, timerVars, bqVars, Parked, Running, ResumedEarly, Times, Never, Resumers, Labels
<1>0. /\ pending' = pending /\ resumeInfo' = resumeInfo /\ bq' = bq
      /\ \A g \in Freds : Owed(g)' <=> Owed(g)
      /\ \A g \in Freds, q \in Queues : InQueue(g, q)' <=> InQueue(g, q)
  BY OwedSame, InQueueSame DEF FredStep, SuspendSkip, SuspendInternal, PostSuspend, Dispatch
<1>a. /\ pc[f] \in {"suspend", "switch", "off"}
      /\ \E l \in {"switch", "off", "resumed"} : pc' = [pc EXCEPT ![f] = l]
  BY DEF FredStep, SuspendSkip, SuspendInternal, PostSuspend, Dispatch
<1>b. BlockTypeOK /\ RaceInv
  OBVIOUS
<1>1. BlockTypeOK'
  <2>1. CASE SuspendSkip(f)
    BY <2>1, <1>0, <1>b DEF SuspendSkip, BlockTypeOK, RaceInv, RaceRunning, RaceOff
  <2>2. CASE SuspendInternal(f)
    BY <2>2, <1>0, <1>b DEF SuspendInternal, BlockTypeOK, RaceInv, RaceRunning, RaceOff
  <2>3. CASE PostSuspend(f)
    BY <2>3, <1>0, <1>b DEF PostSuspend, ResumeInternal, BlockTypeOK, RaceInv, RaceRunning, RaceOff
  <2>4. CASE Dispatch(f)
    BY <2>4, <1>0, <1>b DEF Dispatch, BlockTypeOK, RaceInv, RaceRunning, RaceOff
  <2>. QED BY <2>1, <2>2, <2>3, <2>4 DEF FredStep
<1>5. RaceInv'
  <2> SUFFICES ASSUME NEW g \in Freds
               PROVE  /\ pc'[g] \in {"arm", "suspend", "switch"} => RaceRunning(g)'
                      /\ pc'[g] = "off" => RaceOff(g)'
                      /\ pc'[g] \notin Suspending =>
                           runState'[g] = Running /\ readyLinks'[g] = 0 /\ ~Owed(g)'
                      /\ pc'[g] = "resumed" => ~CanWin(g)'
    BY DEF RaceInv
  <2>1. CASE SuspendSkip(f)
    BY <2>1, <1>0, <1>b DEF SuspendSkip, BlockTypeOK, RaceInv, RaceRunning, RaceOff, Suspending, CanWin
  <2>2. CASE SuspendInternal(f)
    BY <2>2, <1>0, <1>b DEF SuspendInternal, BlockTypeOK, RaceInv, RaceRunning, RaceOff, Suspending, CanWin
  <2>3. CASE PostSuspend(f)
    BY <2>3, <1>0, <1>b DEF PostSuspend, ResumeInternal, BlockTypeOK, RaceInv, RaceRunning, RaceOff, Suspending, CanWin
  <2>4. CASE Dispatch(f)
    BY <2>4, <1>0, <1>b DEF Dispatch, BlockTypeOK, RaceInv, RaceRunning, RaceOff, Suspending, CanWin
  <2>. QED BY <2>1, <2>2, <2>3, <2>4 DEF FredStep
<1>2. OwedInv'
  BY <1>0, <1>a DEF OwedInv, BlockTypeOK, Resumers
<1>3. NodeInv'
  BY <1>0, <1>a DEF NodeInv, BlockTypeOK, InWait, Suspending
<1>4. TimerInv'
  BY <1>0, <1>a DEF TimerInv, TimerNodes, TimerArmed, BlockTypeOK, InWait, Suspending, Timed, CanWin
<1>. QED BY <1>1, <1>2, <1>3, <1>4, <1>5

\* A fred that has won another one resumes it.
LEMMA ResumeRace ==
  ASSUME BlockInv, NEW r \in Resumers, Resume(r)
  PROVE  /\ pending[r] \in Freds
         /\ pc[pending[r]] \in Suspending
         /\ runState' \in [Freds -> 0 .. 2]
         /\ readyLinks' \in [Freds -> 0 .. 1]
         /\ pending' \in [Resumers -> Freds \cup {Null}]
         /\ \A g \in Freds : Owed(g)' <=> Owed(g) /\ g # pending[r]
         /\ \A g \in Freds :
              /\ pc[g] \in {"arm", "suspend", "switch"} => RaceRunning(g)'
              /\ pc[g] = "off" => RaceOff(g)'
              /\ pc[g] \notin Suspending => runState'[g] = Running /\ readyLinks'[g] = 0 /\ ~Owed(g)'
<1> USE DEF BlockInv, Parked, Running, ResumedEarly
<1> DEFINE f == pending[r]
<1>1. f \in Freds /\ Owed(f) /\ pc[f] \in Suspending
  BY FredAssumption DEF Resume, BlockTypeOK, Owed, RaceInv
<1>2. pending' = [pending EXCEPT ![r] = Null]
  BY DEF Resume
<1>3. \A g \in Freds : Owed(g)' <=> Owed(g) /\ g # f
  BY <1>1, <1>2, OwedAfterResume DEF BlockTypeOK
<1>4. RaceInv /\ BlockTypeOK /\ resumeInfo' = resumeInfo
  BY DEF Resume
<1> HIDE DEF f
<1>5. /\ runState' = [runState EXCEPT ![f] = @ + 1]
      /\ readyLinks' = IF runState[f] = Parked THEN [readyLinks EXCEPT ![f] = @ + 1] ELSE readyLinks
  BY DEF Resume, ResumeInternal, f
<1>6. ASSUME NEW g \in Freds
      PROVE  /\ runState'[g] \in 0 .. 2 /\ readyLinks'[g] \in 0 .. 1
             /\ pc[g] \in {"arm", "suspend", "switch"} => RaceRunning(g)'
             /\ pc[g] = "off" => RaceOff(g)'
             /\ pc[g] \notin Suspending => runState'[g] = Running /\ readyLinks'[g] = 0 /\ ~Owed(g)'
  BY <1>1, <1>3, <1>4, <1>5 DEF RaceInv, BlockTypeOK, RaceRunning, RaceOff, Suspending, CanWin
<1>7. pending' \in [Resumers -> Freds \cup {Null}]
  BY <1>2 DEF BlockTypeOK
<1>8. runState' \in [Freds -> 0 .. 2] /\ readyLinks' \in [Freds -> 0 .. 1]
  BY <1>4, <1>5, <1>6 DEF BlockTypeOK
<1>. QED BY <1>1, <1>3, <1>6, <1>7, <1>8 DEF f

---------------------------------------------------------------------------
(* The timer queue.                                                         *)

LEMMA EnqueueInv ==
  ASSUME BlockInv, NEW f \in Freds, Enqueue(f), UNCHANGED bqVars
  PROVE  BlockInv'
<1> USE DEF BlockInv, bqVars, Times, Never, Resumers, Labels
<1>0. /\ \A g \in Freds : Owed(g)' <=> Owed(g)
      /\ \A g \in Freds, q \in Queues : InQueue(g, q)' <=> InQueue(g, q)
  BY OwedSame, InQueueSame DEF Enqueue
<1>1. BlockTypeOK'
  BY DEF BlockTypeOK, Enqueue
<1>2. RaceInv'
  BY <1>0 DEF BlockTypeOK, Enqueue, RaceInv, RaceRunning, RaceOff, Suspending, CanWin
<1>3. OwedInv'
  BY DEF BlockTypeOK, Enqueue, OwedInv
<1>4. NodeInv'
  BY <1>0 DEF BlockTypeOK, Enqueue, NodeInv, InWait, Suspending
<1>5. TimerInv'
  <2>1. TimerNodes'
    BY DEF BlockTypeOK, Enqueue, TimerInv, TimerNodes, Timed
  <2>2. TimerArmed'
    BY TimeAssumption DEF BlockTypeOK, Enqueue, TimerInv, TimerArmed
  <2>. QED BY <2>1, <2>2 DEF BlockTypeOK, Enqueue, TimerInv, InWait, Suspending, Timed, CanWin
<1>. QED BY <1>1, <1>2, <1>3, <1>4, <1>5

LEMMA EraseInv ==
  ASSUME BlockInv, NEW f \in Freds, BlockErase(f), UNCHANGED bqVars
  PROVE  BlockInv'
<1> USE DEF BlockInv, bqVars, fredVars, BlockErase, Times, Never, Resumers, Labels
<1>0. /\ \A g \in Freds : Owed(g)' <=> Owed(g)
      /\ \A g \in Freds, q \in Queues : InQueue(g, q)' <=> InQueue(g, q)
  BY OwedSame, InQueueSame
<1>1. BlockTypeOK'
  BY TimeAssumption DEF BlockTypeOK, Erase
<1>2. RaceInv'
  BY <1>0 DEF RaceInv, RaceRunning, RaceOff, CanWin
<1>3. OwedInv'
  BY DEF OwedInv, Erase
<1>4. NodeInv'
  BY <1>0 DEF NodeInv
<1>5. TimerInv'
  <2>0. f \notin tq'
    BY DEF Erase, TimerInv, TimerNodes
  <2>1. TimerNodes'
    BY <2>0 DEF BlockTypeOK, Erase, TimerInv, TimerNodes, Timed
  <2>2. TimerArmed'
    BY <2>0 DEF BlockTypeOK, Erase, TimerInv, TimerArmed
  <2>3. ~CanWin(f) /\ blockedOn[f] # Null
    BY FredAssumption DEF Erase, RaceInv, NodeInv, BlockTypeOK, InWait, CanWin
  <2>. QED BY <2>0, <2>1, <2>2, <2>3 DEF BlockTypeOK, Erase, TimerInv, InWait, Suspending, Timed, CanWin
<1>. QED BY <1>1, <1>2, <1>3, <1>4, <1>5

LEMMA TickInv ==
  ASSUME BlockInv, Tick, UNCHANGED bqVars
  PROVE  BlockInv'
<1> USE DEF BlockInv, bqVars, fredVars, Times, Never, Resumers, Labels
<1>0. /\ \A g \in Freds : Owed(g)' <=> Owed(g)
      /\ \A g \in Freds, q \in Queues : InQueue(g, q)' <=> InQueue(g, q)
  BY OwedSame, InQueueSame DEF Tick
<1>1. BlockTypeOK'
  BY TimeAssumption DEF BlockTypeOK, Tick
<1>2. RaceInv' /\ OwedInv' /\ NodeInv'
  BY <1>0 DEF Tick, RaceInv, RaceRunning, RaceOff, CanWin, OwedInv, NodeInv
<1>3. TimerInv'
  BY DEF Tick, TimerInv, TimerNodes, TimerArmed, Timed, CanWin
<1>. QED BY <1>1, <1>2, <1>3

\* The master poller's steps that do not touch a fred.
LEMMA PollerInv ==
  ASSUME BlockInv, UNCHANGED bqVars,
         TimerPoll \/ TimerRead \/ CheckExpiryLock \/ CheckExpiryDone
  PROVE  BlockInv'
<1> USE DEF BlockInv, bqVars, fredVars, Times, Never, Resumers, Labels
<1>0. /\ UNCHANGED <<fredVars, deadline, tq, expired>>
      /\ \A g \in Freds : Owed(g)' <=> Owed(g)
      /\ \A g \in Freds, q \in Queues : InQueue(g, q)' <=> InQueue(g, q)
  BY OwedSame, InQueueSame DEF TimerPoll, TimerRead, CheckExpiryLock, CheckExpiryDone
<1>1. BlockTypeOK'
  BY TimeAssumption DEF BlockTypeOK, TimerPoll, TimerRead, CheckExpiryLock, CheckExpiryDone
<1>2. RaceInv' /\ NodeInv'
  BY <1>0 DEF RaceInv, RaceRunning, RaceOff, CanWin, NodeInv
<1>3. OwedInv'
  BY <1>0 DEF OwedInv, TimerPoll, TimerRead, CheckExpiryLock, CheckExpiryDone
<1>4. TimerArmed'
  BY <1>0 DEF BlockTypeOK, TimerInv, TimerArmed, First,
       TimerPoll, TimerRead, CheckExpiryLock, CheckExpiryDone, Readable
<1>5. TimerInv'
  BY <1>0, <1>4 DEF TimerInv, TimerNodes, Timed, CanWin
<1>. QED BY <1>1, <1>2, <1>3, <1>5

\* checkExpiry visits a node: it wins the fred, or marks the node.
LEMMA CheckExpiryNodeInv ==
  ASSUME BlockInv, NEW f \in Freds, CheckExpiryNode(f), UNCHANGED bqVars
  PROVE  BlockInv'
<1> USE DEF BlockInv, bqVars, Times, Never, Resumers, Labels
<1>0. /\ \A g \in Freds, q \in Queues : InQueue(g, q)' <=> InQueue(g, q)
      /\ f \in tq /\ pc[f] \in InWait \ {"arm"} /\ Timed(f) /\ resumeInfo[f] # Timer
      /\ pending[Timer] = Null
      /\ tq' = tq \ {f}
      /\ UNCHANGED <<pc, runState, readyLinks, now, deadline, timerfd, tnow, blockedOn, bq>>
  BY InQueueSame DEF CheckExpiryNode, First, TimerInv, TimerNodes, InWait, Suspending, OwedInv
<1>1. CASE CanWin(f)
  <2>0. /\ resumeInfo' = [resumeInfo EXCEPT ![f] = Timer]
        /\ pending' = [pending EXCEPT ![Timer] = f]
        /\ tpc = "scan" /\ tpc' = "resume"
        /\ UNCHANGED expired
    BY <1>1 DEF CheckExpiryNode, RaceResume
  <2>1. \A g \in Freds : Owed(g)' <=> Owed(g) \/ g = f
    BY <2>0, <1>0, OwedAfterWin DEF BlockTypeOK
  <2>2. BlockTypeOK'
    BY <2>0, <1>0 DEF BlockTypeOK
  <2>3. ~Owed(f) /\ pc[f] \in {"suspend", "switch", "off"}
    BY <1>1, <1>0 DEF RaceInv, RaceRunning, RaceOff, InWait, Suspending
  <2>4. RaceInv'
    BY <2>0, <2>1, <2>3, <1>0, <1>1, FredAssumption
       DEF BlockTypeOK, RaceInv, RaceRunning, RaceOff, Suspending, CanWin
  <2>5. OwedInv'
    BY <2>0, <2>3, <1>0, FredAssumption DEF BlockTypeOK, OwedInv, Owed
  <2>6. NodeInv'
    BY <2>0, <1>0, <1>1 DEF BlockTypeOK, NodeInv, CanWin
  <2>7. TimerInv'
    BY <2>0, <2>3, <1>0, <1>1, FredAssumption
       DEF BlockTypeOK, TimerInv, TimerNodes, TimerArmed, Timed, CanWin, InWait, Suspending
  <2>. QED BY <2>2, <2>4, <2>5, <2>6, <2>7
<1>2. CASE ~CanWin(f)
  <2>0. /\ expired' = [expired EXCEPT ![f] = TRUE]
        /\ UNCHANGED <<resumeInfo, pending, tpc>>
        /\ tpc = "scan"
    BY <1>2 DEF CheckExpiryNode
  <2>1. \A g \in Freds : Owed(g)' <=> Owed(g)
    BY <2>0, OwedSame
  <2>2. BlockTypeOK'
    BY <2>0, <1>0 DEF BlockTypeOK
  <2>3. RaceInv' /\ OwedInv' /\ NodeInv'
    BY <2>0, <2>1, <1>0 DEF RaceInv, RaceRunning, RaceOff, CanWin, OwedInv, NodeInv
  <2>4. TimerInv'
    BY <2>0, <1>0, <1>2
       DEF BlockTypeOK, TimerInv, TimerNodes, TimerArmed, Timed, CanWin
  <2>. QED BY <2>2, <2>3, <2>4
<1>. QED BY <1>1, <1>2

LEMMA CheckExpiryResumeInv ==
  ASSUME BlockInv, CheckExpiryResume, UNCHANGED bqVars
  PROVE  BlockInv'
<1> USE DEF BlockInv, bqVars, Times, Never, Resumers, Labels
<1>0. /\ \A g \in Freds, q \in Queues : InQueue(g, q)' <=> InQueue(g, q)
      /\ UNCHANGED <<pc, resumeInfo, now, deadline, tq, expired, timerfd, tnow, bqVars>>
      /\ tpc = "resume" /\ tpc' = "scan" /\ pending' = [pending EXCEPT ![Timer] = Null]
      /\ Resume(Timer)
  BY InQueueSame DEF CheckExpiryResume, Resume
<1>1. BlockTypeOK'
  BY <1>0, ResumeRace DEF BlockTypeOK
<1>2. RaceInv'
  BY <1>0, ResumeRace DEF RaceInv, CanWin, Suspending
<1>3. OwedInv'
  BY <1>0, FredAssumption DEF BlockTypeOK, OwedInv
<1>4. NodeInv' /\ TimerInv'
  BY <1>0 DEF NodeInv, TimerInv, TimerNodes, TimerArmed, Timed, CanWin
<1>. QED BY <1>1, <1>2, <1>3, <1>4

---------------------------------------------------------------------------
(* The blocking queue.                                                      *)

\* A fred moves on between two places outside a wait.
LEMMA LabelInv ==
  ASSUME BlockInv, NEW f \in Freds, NEW l \in Labels \ InWait,
         pc[f] \notin InWait, pc[f] # "wake",
         pc' = [pc EXCEPT ![f] = l],
         UNCHANGED <<runState, resumeInfo, readyLinks, pending, timerVars, bqVars>>
  PROVE  BlockInv'
<1> USE DEF BlockInv, bqVars, timerVars, Times, Never, Resumers, Labels
<1>0. /\ \A g \in Freds : Owed(g)' <=> Owed(g)
      /\ \A g \in Freds, q \in Queues : InQueue(g, q)' <=> InQueue(g, q)
  BY OwedSame, InQueueSame
<1>1. BlockTypeOK'
  BY DEF BlockTypeOK
<1>2. RaceInv' /\ OwedInv' /\ NodeInv'
  BY <1>0 DEF BlockTypeOK, RaceInv, RaceRunning, RaceOff, CanWin, OwedInv, NodeInv, InWait, Suspending
<1>3. TimerInv'
  BY DEF BlockTypeOK, TimerInv, TimerNodes, TimerArmed, Timed, CanWin, InWait, Suspending
<1>. QED BY <1>1, <1>2, <1>3

LEMMA BlockTrueInv ==
  ASSUME BlockInv, NEW f \in Freds, BlockTrue(f)
  PROVE  BlockInv'
<1> USE DEF BlockInv, bqVars, timerVars, BlockTrue, Times, Never, Resumers, Labels
<1>0. /\ \A g \in Freds : Owed(g)' <=> Owed(g)
      /\ \A g \in Freds, q \in Queues : InQueue(g, q)' <=> InQueue(g, q)
  BY OwedSame, InQueueSame
<1>1. BlockTypeOK'
  BY DEF BlockTypeOK
<1>2. RaceInv' /\ OwedInv'
  BY <1>0 DEF BlockTypeOK, RaceInv, RaceRunning, RaceOff, CanWin, OwedInv, Suspending
<1>3. NodeInv'
  <2>1. resumeInfo[f] \notin {Null, Timer}
    BY QueueAssumption DEF BlockTypeOK, RaceInv, CanWin, TimerInv, InWait, Suspending
  <2>. QED BY <2>1, <1>0 DEF BlockTypeOK, NodeInv, InWait, Suspending
<1>4. TimerInv'
  BY DEF BlockTypeOK, TimerInv, TimerNodes, TimerArmed, Timed, CanWin, InWait, Suspending
<1>. QED BY <1>1, <1>2, <1>3, <1>4

\* The only other winner of a wait is the timer.
LEMMA BlockFalseTimer ==
  ASSUME BlockInv, NEW f \in Freds, BlockFalse(f)
  PROVE  resumeInfo[f] = Timer
BY DEF BlockInv, BlockFalse, RaceInv, CanWin, NodeInv, InWait

LEMMA BlockFalseInv ==
  ASSUME BlockInv, NEW f \in Freds, BlockFalse(f)
  PROVE  BlockInv'
<1> USE DEF BlockInv, Times, Never, Resumers, Labels
<1> PICK q \in Queues : q = blockedOn[f]
  BY DEF BlockFalse, BlockTypeOK
<1>0. /\ pc[f] = "resumed" /\ resumeInfo[f] = Timer
      /\ pc' = [pc EXCEPT ![f] = "timedout"]
      /\ deadline' = [deadline EXCEPT ![f] = Never]
      /\ UNCHANGED <<runState, resumeInfo, readyLinks, pending, blockedOn>>
      /\ UNCHANGED <<now, tq, expired, timerfd, tpc, tnow>>
      /\ \A g \in Freds : Owed(g)' <=> Owed(g)
  BY OwedSame, BlockFalseTimer DEF BlockFalse, BlockTypeOK
<1> PICK i \in DOMAIN bq[q] : bq[q][i] = f /\ bq' = [bq EXCEPT ![q] = RemoveAt(@, i)]
  BY DEF BlockFalse
<1>1. /\ bq' \in [Queues -> Seq(Freds)]
      /\ \A p \in Queues : IsInjective(bq'[p])
      /\ \A g \in Freds, p \in Queues : InQueue(g, p)' <=> InQueue(g, p) /\ ~(g = f /\ p = q)
  <2>1. BlockTypeOK /\ IsInjective(bq[q]) /\ \A p \in Queues : IsInjective(bq[p])
    BY <1>0 DEF NodeInv
  <2>2. \A p \in Queues \ {q} : ~InQueue(f, p)
    BY DEF NodeInv
  <2>3. /\ bq' \in [Queues -> Seq(Freds)]
        /\ IsInjective(bq'[q])
        /\ \A g : InQueue(g, q)' <=> InQueue(g, q) /\ g # f
        /\ \A p \in Queues \ {q} : /\ bq'[p] = bq[p]
                                  /\ \A g : InQueue(g, p)' <=> InQueue(g, p)
    <3>1. bq[q][i] = f /\ bq' = [bq EXCEPT ![q] = RemoveAt(bq[q], i)]
      OBVIOUS
    <3>2. /\ bq' \in [Queues -> Seq(Freds)]
          /\ IsInjective(bq'[q])
          /\ \A g : InQueue(g, q)' <=> InQueue(g, q) /\ g # bq[q][i]
          /\ \A p \in Queues \ {q} : /\ bq'[p] = bq[p]
                                    /\ \A g : InQueue(g, p)' <=> InQueue(g, p)
      BY <2>1, InQueueAfterRemove
    <3>. QED BY <3>1, <3>2
  <2>. QED BY <1>0, <2>1, <2>2, <2>3
<1>2. BlockTypeOK'
  BY <1>0, <1>1, TimeAssumption DEF BlockTypeOK
<1>3. RaceInv' /\ OwedInv'
  BY <1>0 DEF BlockTypeOK, RaceInv, RaceRunning, RaceOff, CanWin, OwedInv, Suspending
<1>4. NodeInv'
  BY <1>0, <1>1 DEF BlockTypeOK, NodeInv, InWait, Suspending
<1>5. TimerInv'
  BY <1>0 DEF BlockTypeOK, TimerInv, TimerNodes, TimerArmed, Timed, CanWin, InWait, Suspending
<1>. QED BY <1>2, <1>3, <1>4, <1>5

LEMMA SleepDoneInv ==
  ASSUME BlockInv, NEW f \in Freds, SleepDone(f)
  PROVE  BlockInv'
<1> USE DEF BlockInv, bqVars, SleepDone, Times, Never, Resumers, Labels
<1>0. /\ \A g \in Freds : Owed(g)' <=> Owed(g)
      /\ \A g \in Freds, q \in Queues : InQueue(g, q)' <=> InQueue(g, q)
  BY OwedSame, InQueueSame
<1>1. BlockTypeOK'
  BY TimeAssumption DEF BlockTypeOK
<1>2. RaceInv' /\ OwedInv'
  BY <1>0 DEF BlockTypeOK, RaceInv, RaceRunning, RaceOff, CanWin, OwedInv, Suspending
<1>3. NodeInv'
  BY <1>0, QueueAssumption DEF BlockTypeOK, NodeInv, InWait, Suspending
<1>4. TimerInv'
  BY DEF BlockTypeOK, TimerInv, TimerNodes, TimerArmed, Timed, CanWin, InWait, Suspending
<1>. QED BY <1>1, <1>2, <1>3, <1>4

LEMMA SleepFredInv ==
  ASSUME BlockInv, NEW f \in Freds, NEW t \in Times, SleepFred(f, t)
  PROVE  BlockInv'
<1> USE DEF BlockInv, bqVars, SleepFred, PrepareResumeRace, Times, Never, Resumers, Labels
<1>0. /\ \A g \in Freds : Owed(g)' <=> Owed(g)
      /\ \A g \in Freds, q \in Queues : InQueue(g, q)' <=> InQueue(g, q)
      /\ t # Never
  BY OwedSame, InQueueSame, TimeAssumption
<1>1. BlockTypeOK'
  BY TimeAssumption DEF BlockTypeOK
<1>2. RaceInv' /\ OwedInv'
  BY <1>0 DEF BlockTypeOK, RaceInv, RaceRunning, RaceOff, CanWin, OwedInv, Suspending
<1>3. NodeInv'
  BY <1>0, QueueAssumption DEF BlockTypeOK, NodeInv, InWait, Suspending
<1>4. f \notin tq
  BY DEF TimerInv, TimerNodes
<1>5. TimerInv'
  BY <1>0, <1>4, FredAssumption
     DEF BlockTypeOK, TimerInv, TimerNodes, TimerArmed, Timed, CanWin, InWait, Suspending
<1>. QED BY <1>1, <1>2, <1>3, <1>5

LEMMA BlockStepInv ==
  ASSUME BlockInv, NEW f \in Freds, BlockStep(f)
  PROVE  BlockInv'
<1>1. CASE TimerQueueStep(f) /\ UNCHANGED bqVars
  BY <1>1, EnqueueInv, EraseInv DEF TimerQueueStep
<1>2. CASE FredStep(f) /\ UNCHANGED <<timerVars, bqVars>>
  BY <1>2, FredStepInv
<1>. QED BY <1>1, <1>2, BlockTrueInv, BlockFalseInv, SleepDoneInv DEF BlockStep

LEMMA TimerStepInv ==
  ASSUME BlockInv, TimerStep, UNCHANGED bqVars
  PROVE  BlockInv'
BY PollerInv, CheckExpiryNodeInv, CheckExpiryResumeInv DEF TimerStep

\* block(): the fred enters a wait.
LEMMA BlockEntryInv ==
  ASSUME BlockInv, NEW f \in Freds, NEW q \in Queues, NEW t \in 0 .. Never,
         pc[f] \notin InWait, pc[f] # "wake", Block(f, q, t)
  PROVE  BlockInv'
<1> USE DEF BlockInv, Times, Never, Resumers, Labels
<1>0. /\ resumeInfo' = [resumeInfo EXCEPT ![f] = Null]
      /\ bq' = [bq EXCEPT ![q] = Append(@, f)]
      /\ blockedOn' = [blockedOn EXCEPT ![f] = q]
      /\ deadline' = [deadline EXCEPT ![f] = t]
      /\ pc' = [pc EXCEPT ![f] = IF t = Never THEN "suspend" ELSE "arm"]
      /\ UNCHANGED <<runState, readyLinks, pending>>
      /\ UNCHANGED <<now, tq, expired, timerfd, tpc, tnow>>
      /\ \A g \in Freds : Owed(g)' <=> Owed(g)
      /\ q # Null
  BY OwedSame, QueueAssumption DEF Block, PrepareResumeRace
<1>1. /\ bq' \in [Queues -> Seq(Freds)]
      /\ \A p \in Queues : IsInjective(bq'[p])
      /\ \A g \in Freds, p \in Queues : InQueue(g, p)' <=> InQueue(g, p) \/ (g = f /\ p = q)
  <2>1. BlockTypeOK /\ ~InQueue(f, q) /\ \A p \in Queues : IsInjective(bq[p])
    BY DEF NodeInv
  <2>2. /\ bq' \in [Queues -> Seq(Freds)]
        /\ IsInjective(bq'[q])
        /\ \A g : InQueue(g, q)' <=> InQueue(g, q) \/ g = f
        /\ \A p \in Queues \ {q} : /\ bq'[p] = bq[p]
                                  /\ \A g : InQueue(g, p)' <=> InQueue(g, p)
    BY <1>0, <2>1, InQueueAfterAppend
  <2>. QED BY <2>1, <2>2
<1>2. BlockTypeOK'
  BY <1>0, <1>1 DEF BlockTypeOK
<1>3. RaceInv' /\ OwedInv'
  BY <1>0 DEF BlockTypeOK, RaceInv, RaceRunning, RaceOff, CanWin, OwedInv, InWait, Suspending
<1>4. NodeInv'
  BY <1>0, <1>1 DEF BlockTypeOK, NodeInv, InWait, Suspending
<1>5. f \notin tq
  BY DEF TimerInv, TimerNodes, InWait, Suspending
<1>6. TimerInv'
  BY <1>0, <1>5, FredAssumption
     DEF BlockTypeOK, TimerInv, TimerNodes, TimerArmed, Timed, CanWin, InWait, Suspending
<1>. QED BY <1>2, <1>3, <1>4, <1>6

\* unblock(): the caller wins the first fred that can be won.
LEMMA UnblockInv ==
  ASSUME BlockInv, NEW r \in Freds, NEW q \in Queues, NEW i \in DOMAIN bq[q],
         pc[r] \notin InWait, pc[r] # "wake", Unblock(r, q, i),
         pc' = [pc EXCEPT ![r] = "wake"]
  PROVE  BlockInv'
<1> USE DEF BlockInv, Times, Never, Resumers, Labels
<1> DEFINE f == bq[q][i]
<1>0. /\ CanWin(f) /\ f \in Freds /\ InQueue(f, q)
      /\ resumeInfo' = [resumeInfo EXCEPT ![f] = q]
      /\ pending' = [pending EXCEPT ![r] = f]
      /\ bq' = [bq EXCEPT ![q] = RemoveAt(@, i)]
      /\ UNCHANGED <<runState, readyLinks, timerVars, blockedOn>>
      /\ pending[r] = Null /\ q # Null /\ q # Timer /\ r \in Resumers
  <2>1. bq[q] \in Seq(Freds) /\ DOMAIN bq[q] = 1 .. Len(bq[q])
    BY LenProperties DEF BlockTypeOK
  <2>. QED BY <2>1, ElementOfSeq, QueueAssumption
             DEF Unblock, FirstWaiting, RaceResume, InQueue, Contains, OwedInv
<1>1. /\ pc[f] \in InWait \ {"resumed"} /\ blockedOn[f] = q /\ ~Owed(f) /\ f # r
  BY <1>0 DEF NodeInv, RaceInv, RaceRunning, RaceOff, InWait, Suspending
<1>2. /\ bq' \in [Queues -> Seq(Freds)]
      /\ \A p \in Queues : IsInjective(bq'[p])
      /\ \A g \in Freds, p \in Queues : InQueue(g, p)' <=> InQueue(g, p) /\ ~(g = f /\ p = q)
  <2>1. BlockTypeOK /\ \A p \in Queues : IsInjective(bq[p])
    BY DEF NodeInv
  <2>2. /\ bq' \in [Queues -> Seq(Freds)]
        /\ IsInjective(bq'[q])
        /\ \A g : InQueue(g, q)' <=> InQueue(g, q) /\ g # f
        /\ \A p \in Queues \ {q} : /\ bq'[p] = bq[p]
                                  /\ \A g : InQueue(g, p)' <=> InQueue(g, p)
    BY <1>0, <2>1, InQueueAfterRemove
  <2>. HIDE DEF f
  <2>. QED BY <2>1, <2>2
<1> HIDE DEF f
<1>3. \A g \in Freds : Owed(g)' <=> Owed(g) \/ g = f
  BY <1>0, OwedAfterWin DEF BlockTypeOK
<1>4. BlockTypeOK'
  BY <1>0, <1>2 DEF BlockTypeOK, timerVars
<1>5. RaceInv'
  BY <1>0, <1>1, <1>3 DEF BlockTypeOK, RaceInv, RaceRunning, RaceOff, CanWin, InWait, Suspending
<1>6. OwedInv'
  BY <1>0, <1>1, FredAssumption DEF BlockTypeOK, OwedInv, Owed, timerVars
<1>7. NodeInv'
  BY <1>0, <1>1, <1>2 DEF BlockTypeOK, NodeInv, InWait, Suspending
<1>8. TimerInv'
  BY <1>0, <1>1
     DEF BlockTypeOK, TimerInv, TimerNodes, TimerArmed, Timed, CanWin, InWait, Suspending, timerVars
<1>. QED BY <1>4, <1>5, <1>6, <1>7, <1>8

\* The winner resumes the fred, after it has released the lock.
LEMMA WakeInv ==
  ASSUME BlockInv, NEW r \in Freds, NEW l \in Labels \ InWait,
         pc[r] = "wake", Resume(r), pc' = [pc EXCEPT ![r] = l],
         UNCHANGED <<timerVars, bqVars>>
  PROVE  BlockInv'
<1> USE DEF BlockInv, timerVars, bqVars, Times, Never, Resumers, Labels
<1>0. /\ \A g \in Freds, q \in Queues : InQueue(g, q)' <=> InQueue(g, q)
      /\ resumeInfo' = resumeInfo /\ pending' = [pending EXCEPT ![r] = Null]
      /\ r \in Resumers
  BY InQueueSame DEF Resume
<1>1. BlockTypeOK'
  BY <1>0, ResumeRace DEF BlockTypeOK
<1>2. RaceInv'
  BY <1>0, ResumeRace DEF BlockTypeOK, RaceInv, CanWin, InWait, Suspending
<1>3. OwedInv'
  BY <1>0, FredAssumption DEF BlockTypeOK, OwedInv
<1>4. NodeInv'
  BY <1>0 DEF BlockTypeOK, NodeInv, InWait, Suspending
<1>5. TimerInv'
  BY <1>0 DEF BlockTypeOK, TimerInv, TimerNodes, TimerArmed, Timed, CanWin, InWait, Suspending
<1>. QED BY <1>1, <1>2, <1>3, <1>4, <1>5

\* The initial states of the library.
LEMMA BlockInitInv ==
  ASSUME FredInit, TimerInit, BlockingInit
  PROVE  BlockInv
<1>1. BlockTypeOK
  BY TimeAssumption
     DEF FredInit, TimerInit, BlockingInit, BlockTypeOK, Times, Never, Labels, Running, Resumers
<1>2. RaceInv /\ OwedInv
  BY FredAssumption
     DEF FredInit, TimerInit, RaceInv, OwedInv, Owed, Suspending, Running, Resumers
<1>3. NodeInv
  BY DEF FredInit, BlockingInit, NodeInv, IsInjective, InQueue, Contains, InWait, Suspending
<1>4. TimerInv
  BY DEF FredInit, TimerInit, TimerInv, TimerNodes, TimerArmed, InWait, Suspending, Timed
<1>. QED BY <1>1, <1>2, <1>3, <1>4 DEF BlockInv

\* What the inductive invariant says about the protocol: the properties of
\* Fred, TimerQueue and BlockingQueue that the runs check.
LEMMA BlockInvImplies ==
  ASSUME BlockInv
  PROVE  RunStateProtocol /\ LinkedOnce /\ BlockNodes /\ NobodyForgotten
<1> USE DEF BlockInv, Parked, Running, ResumedEarly
<1>1. RunStateProtocol
  <2>1. SUFFICES ASSUME NEW f \in Freds
                 PROVE  /\ runState[f] \in {0, 1, 2}
                        /\ Owed(f) => runState[f] # 2
                        /\ \A r, s \in Resumers : pending[r] = f /\ pending[s] = f => r = s
                        /\ pc[f] \notin {"arm", "suspend", "switch", "off"}
                             => runState[f] = 1 /\ ~Owed(f)
    BY DEF RunStateProtocol
  <2>2. runState[f] \in {0, 1, 2}
    BY DEF BlockTypeOK
  <2>3. Owed(f) => runState[f] # 2
    BY DEF RaceInv, RaceRunning, RaceOff, Suspending
  <2>4. \A r, s \in Resumers : pending[r] = f /\ pending[s] = f => r = s
    BY FredAssumption DEF OwedInv
  <2>5. pc[f] \notin {"arm", "suspend", "switch", "off"} => runState[f] = 1 /\ ~Owed(f)
    BY DEF RaceInv, Suspending
  <2>. QED BY <2>2, <2>3, <2>4, <2>5
<1>2. LinkedOnce
  <2>1. SUFFICES ASSUME NEW f \in Freds
                 PROVE  readyLinks[f] <= 1 /\ (readyLinks[f] = 1 => pc[f] = "off" /\ runState[f] = 1)
    BY DEF LinkedOnce
  <2>2. readyLinks[f] <= 1
    <3>1. readyLinks[f] \in 0 .. 1
      BY DEF BlockTypeOK
    <3>. QED BY <3>1
  <2>3. readyLinks[f] = 1 => pc[f] = "off" /\ runState[f] = 1
    BY DEF RaceInv, RaceRunning, RaceOff, Suspending
  <2>. QED BY <2>2, <2>3
<1>3. BlockNodes
  BY DEF BlockNodes, NodeInv, InWait, Suspending
<1>4. NobodyForgotten
  <2>1. SUFFICES ASSUME NEW f \in Freds, pc[f] \in {"arm", "suspend", "switch", "off"}
                 PROVE  /\ CanWin(f) /\ blockedOn[f] = Null => pc[f] = "arm" \/ f \in tq
                        /\ CanWin(f) /\ blockedOn[f] # Null => InQueue(f, blockedOn[f])
                        /\ ~CanWin(f) => Owed(f) \/ readyLinks[f] = 1 \/ runState[f] = 2
    BY DEF NobodyForgotten
  <2>2. CanWin(f) /\ blockedOn[f] = Null => pc[f] = "arm" \/ f \in tq
    BY <2>1 DEF TimerInv, InWait, Suspending, CanWin
  <2>3. CanWin(f) /\ blockedOn[f] # Null => InQueue(f, blockedOn[f])
    BY <2>1 DEF NodeInv, BlockTypeOK, InWait, Suspending, CanWin
  <2>4. ~CanWin(f) => Owed(f) \/ readyLinks[f] = 1 \/ runState[f] = 2
    BY <2>1 DEF RaceInv, RaceRunning, RaceOff
  <2>. QED BY <2>2, <2>3, <2>4
<1>. QED BY <1>1, <1>2, <1>3, <1>4
---------------------------------------------------------------------------
(* What the steps of the library do to those who wait on a queue.           *)

\* Who waits, told without looking into the queue: now ...
LEMMA WaitingOn ==
  ASSUME BlockInv, NEW q \in Queues, NEW f \in Freds
  PROVE  f \in Waiting(q)
           <=> pc[f] \in InWait /\ blockedOn[f] = q /\ resumeInfo[f] = Null
BY FredAssumption DEF BlockInv, NodeInv, Waiting, CanWin

\* ... and after a step.
LEMMA WaitingOnAfter ==
  ASSUME BlockInv', NEW q \in Queues, NEW f \in Freds
  PROVE  f \in Waiting(q)'
           <=> pc'[f] \in InWait /\ blockedOn'[f] = q /\ resumeInfo'[f] = Null
BY DEF BlockInv, NodeInv, Waiting, CanWin, InWait, Suspending

\* unblock() finds nobody exactly when nobody waits.
LEMMA NobodyWaits ==
  ASSUME BlockInv, NEW q \in Queues
  PROVE  (\A i \in DOMAIN bq[q] : ~CanWin(bq[q][i])) <=> Waiting(q) = {}
<1>1. bq[q] \in Seq(Freds) /\ DOMAIN bq[q] = 1 .. Len(bq[q])
  BY LenProperties DEF BlockInv, BlockTypeOK
<1>2. \A i \in DOMAIN bq[q] : bq[q][i] \in Freds
  BY <1>1, ElementOfSeq
<1>. QED BY <1>1, <1>2 DEF Waiting, InQueue, Contains

\* A step of block() moves its own fred along and decides no race.
LEMMA BlockStepMoves ==
  ASSUME BlockInv, NEW f \in Freds, BlockStep(f)
  PROVE  /\ UNCHANGED <<resumeInfo, blockedOn>>
         /\ pc[f] \in InWait
         /\ \E l \in Labels :
              /\ pc' = [pc EXCEPT ![f] = l]
              /\ \/ l \in InWait
                 \/ /\ resumeInfo[f] = blockedOn[f] /\ blockedOn[f] \in Queues
                    /\ l = "unblocked"
                 \/ resumeInfo[f] = Timer /\ l = "timedout"
                 \/ resumeInfo[f] = Timer /\ blockedOn[f] = Null /\ l = "idle"
<1>0. BlockTypeOK
  BY DEF BlockInv
<1>1. CASE TimerQueueStep(f) /\ UNCHANGED bqVars
  <2>1. CASE Enqueue(f)
    BY <2>1, <1>1 DEF Enqueue, bqVars, Labels, InWait, Suspending
  <2>2. CASE BlockErase(f)
    BY <2>2, <1>1, <1>0 DEF BlockErase, Erase, fredVars, bqVars, Labels, InWait, BlockTypeOK
  <2>. QED BY <1>1, <2>1, <2>2 DEF TimerQueueStep
<1>2. CASE FredStep(f) /\ UNCHANGED <<timerVars, bqVars>>
  BY <1>2 DEF FredStep, SuspendSkip, SuspendInternal, PostSuspend, Dispatch, bqVars,
     Labels, InWait, Suspending
<1>3. CASE BlockTrue(f)
  BY <1>3, <1>0 DEF BlockTrue, bqVars, Labels, InWait, BlockInv, BlockTypeOK, RaceInv, CanWin, Suspending
<1>4. CASE BlockFalse(f)
  BY <1>4, BlockFalseTimer DEF BlockFalse, Labels, InWait
<1>5. CASE SleepDone(f)
  BY <1>5 DEF SleepDone, bqVars, Labels, InWait
<1>. QED BY <1>1, <1>2, <1>3, <1>4, <1>5 DEF BlockStep

\* The clock and the timer move no fred; the timer may win one that waits.
LEMMA TimerMoves ==
  ASSUME Tick \/ TimerStep, UNCHANGED bqVars
  PROVE  /\ UNCHANGED <<pc, blockedOn>>
         /\ \/ UNCHANGED resumeInfo
            \/ \E f \in Freds : CanWin(f) /\ resumeInfo' = [resumeInfo EXCEPT ![f] = Timer]
BY DEF Tick, TimerStep, TimerPoll, TimerRead, CheckExpiryLock, CheckExpiryNode,
   CheckExpiryResume, CheckExpiryDone, Resume, RaceResume, fredVars, bqVars

\* unblock() wins one fred that waits.
LEMMA UnblockMoves ==
  ASSUME BlockInv, NEW q \in Queues, NEW r \in Freds, NEW i \in DOMAIN bq[q], Unblock(r, q, i)
  PROVE  \E h \in Freds :
           /\ h \in Waiting(q)
           /\ resumeInfo[h] = Null
           /\ resumeInfo' = [resumeInfo EXCEPT ![h] = q]
           /\ blockedOn' = blockedOn
<1>1. bq[q] \in Seq(Freds) /\ DOMAIN bq[q] = 1 .. Len(bq[q])
  BY LenProperties DEF BlockInv, BlockTypeOK
<1>2. bq[q][i] \in Freds
  BY <1>1, ElementOfSeq
<1>3. bq[q][i] \in Waiting(q)
  BY <1>1, <1>2 DEF Unblock, FirstWaiting, Waiting, InQueue, Contains
<1>4. PICK h \in Freds : h = bq[q][i]
  BY <1>2
<1>. QED BY <1>3, <1>4 DEF Unblock, FirstWaiting, RaceResume, CanWin
===========================================================================
