--------------------------- MODULE RuntimeProofs ---------------------------
(***************************************************************************)
(* Proofs about the parts of the runtime that have a state of their own, in *)
(* the composition that TLC checks: one of them per behaviour.              *)
(***************************************************************************)
EXTENDS MCPrimitives, BlockingQueueProofs, FiniteSetTheorems, TLAPS

---------------------------------------------------------------------------
(* The life of a fibre.                                                     *)

Parking == {"suspend", "switch", "off"}

LifeTypeOK ==
  /\ pc \in [Freds -> {"idle", "detached", "wait", "suspend", "switch", "off", "resumed",
                       "terminate", "freed", "posted", "fault"}]
  /\ runState \in [Freds -> 0 .. 2]
  /\ readyLinks \in [Freds -> 0 .. 1]
  /\ pending \in [Resumers -> Freds \cup {Null}]
  /\ stage \in [Freds -> {"none", "started", "live", "ended", "deleted"}]
  /\ stacks \subseteq Freds
  /\ result \in [Freds -> {Null, "returned", "exited"}]
  /\ flag \in [Freds -> {FlagRunning, Posted, Detached} \cup Freds]
  /\ flagLock \in [Freds -> Freds \cup {Null}]
  /\ joining \in [Freds -> Freds \cup {Null}]
  /\ deletes \in [Freds -> BOOLEAN]

\* The stage of a fibre and the place its fred is at.
LifeStage(f) ==
  /\ stage[f] = "none" => pc[f] = "idle" /\ flag[f] = FlagRunning /\ f \notin stacks
  /\ stage[f] = "started" => pc[f] \in {"off", "resumed"}
  /\ stage[f] = "live" => pc[f] \in {"idle", "detached", "wait", "resumed", "fault"} \cup Parking
  /\ stage[f] \in {"ended", "deleted"} => pc[f] \in {"terminate", "freed", "posted"}
  /\ joining[f] # Null <=> stage[f] = "live" /\ pc[f] \in {"wait", "resumed"} \cup Parking
  /\ pc[f] \in {"freed", "posted"} => f \notin stacks
  /\ pc[f] \in {"terminate", "freed", "posted"} => result[f] # Null
  /\ stage[f] = "deleted" => pc[f] = "posted" /\ flagLock[f] = Null

\* The flag of a fibre, the waiter it names or has just named, and the fred
\* that resumes this waiter with the lock.
LifeFlag(g) ==
  /\ flag[g] = Posted => pc[g] = "posted"
  /\ pc[g] = "posted" => flag[g] \in {Posted, Detached}
  /\ flag[g] \in Freds => joining[flag[g]] = g /\ pc[flag[g]] \in Parking
  /\ flagLock[g] # Null => /\ flag[g] \in {Posted, Detached} /\ pending[flagLock[g]] # Null
                           /\ joining[pending[flagLock[g]]] = g
                           /\ pc[pending[flagLock[g]]] \in Parking
  /\ pending[g] # Null => /\ pc[g] \in {"posted", "detached"}
                          /\ joining[pending[g]] # Null /\ flagLock[joining[pending[g]]] = g

\* A fibre has one joiner, which does not outlive it.
LifeJoin(f) ==
  joining[f] # Null =>
    /\ stage[joining[f]] \in {"started", "live", "ended"}
    /\ deletes[f] => flag[joining[f]] # Detached
    /\ \A h \in Freds : joining[h] = joining[f] => h = f
    /\ pc[f] # "wait" => flag[joining[f]] \in {f, Posted, Detached}

\* Nobody has decided to resume f, or resume() is still to be called.
Sleeps(f) == joining[f] # Null /\ (flag[joining[f]] = f \/ FlagLocked(joining[f]))

LifeRace(f) ==
  /\ pc[f] \notin Parking => runState[f] = Running /\ readyLinks[f] = 0
  /\ pc[f] \in {"suspend", "switch"} =>
       readyLinks[f] = 0 /\ runState[f] = (IF Sleeps(f) THEN Running ELSE ResumedEarly)
  /\ pc[f] = "off" => IF Sleeps(f) THEN runState[f] = Parked /\ readyLinks[f] = 0
                                   ELSE runState[f] = Running /\ readyLinks[f] = 1

LifeInv ==
  /\ LifeTypeOK
  /\ pending[Timer] = Null
  /\ \A f \in Freds : LifeStage(f) /\ LifeFlag(f) /\ LifeJoin(f) /\ LifeRace(f)

\* The flag values are not freds.
LEMMA LifeFacts ==
  /\ Null \notin Freds /\ Timer \notin Freds /\ Timer # Null
  /\ Timer \in Resumers /\ Freds \subseteq Resumers
  /\ \A f \in Freds : f # FlagRunning /\ f # Posted /\ f # Detached
  /\ Null # "returned" /\ Null # "exited"
  BY FredAssumption, FibreAssumption DEF Resumers, FlagRunning, Posted, Detached

\* The invariant gives what the run checks.
LEMMA LifeJoinSafe == LifeInv => JoinSafe
<1> SUFFICES ASSUME LifeInv, NEW f \in Freds
             PROVE  /\ stage[f] = "deleted" => pc[f] = "posted" /\ ~FlagLocked(f) /\ runState[f] = Running
                    /\ stage[f] = "deleted" \/ flag[f] = Posted => f \notin stacks /\ result[f] # Null
                    /\ pc[f] # "abort"
                    /\ pc[f] = "off" /\ runState[f] = Parked /\ ~Owed(f) => flag[joining[f]] = f
  BY DEF JoinSafe
<1>1. LifeTypeOK /\ LifeStage(f) /\ LifeFlag(f) /\ LifeRace(f)
  BY DEF LifeInv
<1>2. stage[f] = "deleted" => pc[f] = "posted" /\ ~FlagLocked(f) /\ runState[f] = Running
  BY <1>1 DEF LifeStage, LifeRace, FlagLocked, Parking
<1>3. stage[f] = "deleted" \/ flag[f] = Posted => f \notin stacks /\ result[f] # Null
  BY <1>1 DEF LifeStage, LifeFlag
<1>4. pc[f] # "abort"
  BY <1>1 DEF LifeTypeOK
<1>5. ASSUME pc[f] = "off", runState[f] = Parked, ~Owed(f), flag[joining[f]] # f PROVE FALSE
  <2>1. joining[f] \in Freds /\ flagLock[joining[f]] \in Freds
    BY <1>1, <1>5, LifeFacts DEF LifeTypeOK, LifeRace, Sleeps, FlagLocked, Parked, Running
  <2>2. /\ pending[flagLock[joining[f]]] \in Freds
        /\ joining[pending[flagLock[joining[f]]]] = joining[f]
    BY <1>1, <2>1, LifeFacts DEF LifeInv, LifeFlag, LifeTypeOK
  <2>3. pending[flagLock[joining[f]]] = f
    BY <2>1, <2>2, LifeFacts DEF LifeInv, LifeJoin
  <2> QED BY <1>5, <2>1, <2>3, LifeFacts DEF Owed
<1> QED BY <1>2, <1>3, <1>4, <1>5

\* Before any fibre is created.
LEMMA LifeInitInv == FibreLifeInit => LifeInv
<1> SUFFICES ASSUME FibreLifeInit PROVE LifeInv
  OBVIOUS
<1>1. LifeTypeOK /\ pending[Timer] = Null
  BY LifeFacts DEF FibreLifeInit, FredInit, LifeTypeOK, Running
<1>2. ASSUME NEW f \in Freds PROVE LifeStage(f) /\ LifeFlag(f) /\ LifeJoin(f) /\ LifeRace(f)
  BY LifeFacts DEF FibreLifeInit, FredInit, LifeStage, LifeFlag, LifeJoin, LifeRace,
     Parking,
     FlagRunning, Posted, Detached
<1> QED BY <1>1, <1>2 DEF LifeInv

\* fibre_create(): nobody joins a fibre that is not there yet.
LEMMA FibreCreateInv ==
  ASSUME LifeInv, NEW f \in Freds, NEW g \in Freds, NEW b \in BOOLEAN, FibreCreate(f, g, b)
  PROVE  LifeInv'
<1>0. /\ LifeTypeOK /\ pending[Timer] = Null /\ stage[g] = "none"
      /\ LifeStage(g) /\ LifeFlag(g) /\ LifeJoin(g) /\ LifeRace(g)
      /\ stage' = [stage EXCEPT ![g] = "started"] /\ stacks' = stacks \cup {g}
      /\ flag' = [flag EXCEPT ![g] = IF b THEN Detached ELSE FlagRunning]
      /\ pc' = [pc EXCEPT ![g] = "off"] /\ readyLinks' = [readyLinks EXCEPT ![g] = @ + 1]
      /\ UNCHANGED <<runState, resumeInfo, pending, flagLock, result, joining, deletes>>
  BY DEF LifeInv, FibreCreate, ResumeInternal
<1>1. /\ pc[g] = "idle" /\ flag[g] = FlagRunning /\ readyLinks[g] = 0 /\ joining[g] = Null
      /\ runState[g] = Running /\ pending[g] = Null /\ flagLock[g] = Null
  BY <1>0 DEF LifeStage, LifeRace, LifeFlag, Parking, LifeTypeOK, FlagRunning, Posted, Detached
<1>2. LifeTypeOK'
  BY <1>0, <1>1 DEF LifeTypeOK
<1>3. \A h \in Freds : joining[h] # g /\ flag[h] # g /\ (h # g => pending[h] # g)
  BY <1>0, <1>1, LifeFacts DEF LifeInv, LifeJoin, LifeFlag, Parking
<1>4. ASSUME NEW h \in Freds PROVE LifeStage(h)'
  BY <1>0, <1>1 DEF LifeInv, LifeStage, LifeTypeOK, Parking
<1>5. ASSUME NEW h \in Freds PROVE LifeFlag(h)'
  BY <1>0, <1>1, <1>3, LifeFacts DEF LifeInv, LifeFlag, LifeTypeOK, FlagRunning, Posted,
     Detached, Parking
<1>6. ASSUME NEW h \in Freds PROVE LifeJoin(h)'
  BY <1>0, <1>1, <1>3 DEF LifeInv, LifeJoin, LifeTypeOK
<1>7. ASSUME NEW h \in Freds PROVE LifeRace(h)'
  BY <1>0, <1>1, <1>3 DEF LifeInv, LifeRace, LifeTypeOK, Sleeps, FlagLocked, Parking
<1> QED BY <1>0, <1>2, <1>4, <1>5, <1>6, <1>7 DEF LifeInv

\* invokeFred(): the fibre runs.
LEMMA InvokeFredInv ==
  ASSUME LifeInv, NEW g \in Freds, InvokeFred(g)
  PROVE  LifeInv'
<1>0. /\ LifeTypeOK /\ pending[Timer] = Null
      /\ \A h \in Freds : LifeStage(h) /\ LifeFlag(h) /\ LifeJoin(h) /\ LifeRace(h)
      /\ stage[g] = "started" /\ pc[g] = "resumed" /\ stage' = [stage EXCEPT ![g] = "live"]
      /\ pc' = [pc EXCEPT ![g] = "idle"]
      /\ UNCHANGED <<runState, resumeInfo, readyLinks, pending, stacks, flag, flagLock, result, joining, deletes>>
  BY DEF LifeInv, InvokeFred, raceVars
<1>1. joining[g] = Null /\ \A h \in Freds : flag[h] # g /\ pending[h] # g
  BY <1>0, LifeFacts DEF LifeStage, LifeFlag, LifeTypeOK, Parking
<1>2. LifeTypeOK'
  BY <1>0, <1>1, LifeFacts DEF LifeTypeOK
<1>4. ASSUME NEW h \in Freds PROVE LifeStage(h)'
  BY <1>0, <1>1, LifeFacts DEF LifeStage, LifeTypeOK, Parking
<1>5. ASSUME NEW h \in Freds PROVE LifeFlag(h)'
  BY <1>0, <1>1, LifeFacts DEF LifeFlag, LifeTypeOK, FlagRunning, Posted, Detached, Parking
<1>6. ASSUME NEW h \in Freds PROVE LifeJoin(h)'
  BY <1>0, <1>1, LifeFacts DEF LifeJoin, LifeTypeOK, FlagRunning, Posted, Detached
<1>7. ASSUME NEW h \in Freds PROVE LifeRace(h)'
  BY <1>0, <1>1, LifeFacts DEF LifeRace, LifeTypeOK, Sleeps, FlagLocked, Parking
<1> QED BY <1>0, <1>2, <1>4, <1>5, <1>6, <1>7 DEF LifeInv

\* The routine returns or exits.
LEMMA FinalizeInv ==
  ASSUME LifeInv, NEW g \in Freds, NEW r \in {"returned", "exited"}, Finalize(g, r)
  PROVE  LifeInv'
<1>0. /\ LifeTypeOK /\ pending[Timer] = Null
      /\ \A h \in Freds : LifeStage(h) /\ LifeFlag(h) /\ LifeJoin(h) /\ LifeRace(h)
      /\ stage[g] = "live" /\ pc[g] = "idle" /\ result' = [result EXCEPT ![g] = r]
      /\ stage' = [stage EXCEPT ![g] = "ended"] /\ pc' = [pc EXCEPT ![g] = "terminate"]
      /\ UNCHANGED <<runState, resumeInfo, readyLinks, pending, stacks, flag, flagLock, joining, deletes>>
  BY DEF LifeInv, Finalize, InProgram, raceVars
<1>1. joining[g] = Null /\ \A h \in Freds : flag[h] # g /\ pending[h] # g
  BY <1>0, LifeFacts DEF LifeStage, LifeFlag, LifeTypeOK, Parking
<1>2. LifeTypeOK'
  BY <1>0, <1>1, LifeFacts DEF LifeTypeOK
<1>4. ASSUME NEW h \in Freds PROVE LifeStage(h)'
  BY <1>0, <1>1, LifeFacts DEF LifeStage, LifeTypeOK, Parking
<1>5. ASSUME NEW h \in Freds PROVE LifeFlag(h)'
  BY <1>0, <1>1, LifeFacts DEF LifeFlag, LifeTypeOK, FlagRunning, Posted, Detached, Parking
<1>6. ASSUME NEW h \in Freds PROVE LifeJoin(h)'
  BY <1>0, <1>1, LifeFacts DEF LifeJoin, LifeTypeOK, FlagRunning, Posted, Detached
<1>7. ASSUME NEW h \in Freds PROVE LifeRace(h)'
  BY <1>0, <1>1, LifeFacts DEF LifeRace, LifeTypeOK, Sleeps, FlagLocked, Parking
<1> QED BY <1>0, <1>2, <1>4, <1>5, <1>6, <1>7 DEF LifeInv

\* The stack is unmapped.
LEMMA StackFreeInv ==
  ASSUME LifeInv, NEW g \in Freds, StackFree(g)
  PROVE  LifeInv'
<1>0. /\ LifeTypeOK /\ pending[Timer] = Null
      /\ \A h \in Freds : LifeStage(h) /\ LifeFlag(h) /\ LifeJoin(h) /\ LifeRace(h)
      /\ pc[g] = "terminate" /\ stacks' = stacks \ {g} /\ pc' = [pc EXCEPT ![g] = "freed"]
      /\ UNCHANGED <<runState, resumeInfo, readyLinks, pending, stage, flag, flagLock, result, joining, deletes>>
  BY DEF LifeInv, StackFree, raceVars
<1>1. joining[g] = Null /\ \A h \in Freds : flag[h] # g /\ pending[h] # g
  BY <1>0, LifeFacts DEF LifeStage, LifeFlag, LifeTypeOK, Parking
<1>2. LifeTypeOK'
  BY <1>0, <1>1, LifeFacts DEF LifeTypeOK
<1>4. ASSUME NEW h \in Freds PROVE LifeStage(h)'
  BY <1>0, <1>1, LifeFacts DEF LifeStage, LifeTypeOK, Parking
<1>5. ASSUME NEW h \in Freds PROVE LifeFlag(h)'
  BY <1>0, <1>1, LifeFacts DEF LifeFlag, LifeTypeOK, FlagRunning, Posted, Detached, Parking
<1>6. ASSUME NEW h \in Freds PROVE LifeJoin(h)'
  BY <1>0, <1>1, LifeFacts DEF LifeJoin, LifeTypeOK, FlagRunning, Posted, Detached
<1>7. ASSUME NEW h \in Freds PROVE LifeRace(h)'
  BY <1>0, <1>1, LifeFacts DEF LifeRace, LifeTypeOK, Sleeps, FlagLocked, Parking
<1> QED BY <1>0, <1>2, <1>4, <1>5, <1>6, <1>7 DEF LifeInv

\* post(): the waiter, if there is one, is owed its resume().
LEMMA DestroyPostInv ==
  ASSUME LifeInv, NEW g \in Freds, DestroyPost(g)
  PROVE  LifeInv'
<1>0. /\ LifeTypeOK /\ pending[Timer] = Null
      /\ \A h \in Freds : LifeStage(h) /\ LifeFlag(h) /\ LifeJoin(h) /\ LifeRace(h)
      /\ pc[g] = "freed" /\ flagLock[g] = Null /\ pc' = [pc EXCEPT ![g] = "posted"]
      /\ flag' = [flag EXCEPT ![g] = IF flag[g] = Detached THEN Detached ELSE Posted]
      /\ pending' = [pending EXCEPT ![g] = IF flag[g] \in Freds THEN flag[g] ELSE pending[g]]
      /\ flagLock' = [flagLock EXCEPT ![g] = IF flag[g] \in Freds THEN g ELSE Null]
      /\ UNCHANGED <<runState, resumeInfo, readyLinks, stage, stacks, result, joining, deletes>>
  <2>1. LifeTypeOK /\ (Waiter(g) <=> flag[g] \in Freds) /\ flagLock[g] = Null
    BY LifeFacts DEF LifeInv, LifeTypeOK, Waiter, DestroyPost, Post, Settle, FlagLocked
  <2> QED BY <2>1, LifeFacts DEF LifeInv, LifeTypeOK, DestroyPost, Post, Settle, FlagRunning,
     Posted, Detached
<1>1. /\ joining[g] = Null /\ pending[g] = Null /\ stage[g] # "deleted"
      /\ \A h \in Freds : flag[h] # g /\ pending[h] # g /\ flagLock[h] # g
  BY <1>0, LifeFacts DEF LifeStage, LifeFlag, LifeTypeOK, Parking
<1>2. LifeTypeOK'
  BY <1>0, <1>1, LifeFacts DEF LifeTypeOK
<1>4. ASSUME NEW h \in Freds PROVE LifeStage(h)'
  BY <1>0, <1>1, LifeFacts DEF LifeStage, LifeTypeOK, Parking
<1>5. ASSUME NEW h \in Freds PROVE LifeFlag(h)'
  BY <1>0, <1>1, LifeFacts DEF LifeFlag, LifeTypeOK, FlagRunning, Posted, Detached, Parking
<1>6. ASSUME NEW h \in Freds PROVE LifeJoin(h)'
  BY <1>0, <1>1, LifeFacts DEF LifeJoin, LifeTypeOK, FlagRunning, Posted, Detached
<1>7. ASSUME NEW h \in Freds PROVE LifeRace(h)'
  BY <1>0, <1>1, LifeFacts DEF LifeRace, LifeTypeOK, LifeFlag, LifeJoin, Sleeps, FlagLocked, Parking
<1>8. pending'[Timer] = Null
  BY <1>0, LifeFacts DEF LifeTypeOK
<1> QED BY <1>2, <1>4, <1>5, <1>6, <1>7, <1>8 DEF LifeInv

\* detach() of a flag that is neither posted nor detached, by anybody: the
\* waiter, if there is one, is owed its resume().
LEMMA DetachFlagInv ==
  ASSUME LifeInv, NEW f \in Freds, NEW g \in Freds, Detach(f, g), Settle(f, g, Detached),
         pc' = [pc EXCEPT ![f] = IF Waiter(g) THEN "detached" ELSE "idle"]
  PROVE  LifeInv'
<1>0. /\ LifeTypeOK /\ pending[Timer] = Null
      /\ \A h \in Freds : LifeStage(h) /\ LifeFlag(h) /\ LifeJoin(h) /\ LifeRace(h)
      /\ stage[f] = "live" /\ pc[f] = "idle" /\ Created(g) /\ flagLock[g] = Null
      /\ flag[g] \notin {Posted, Detached}
      /\ \A h \in Freds : joining[h] = g => ~deletes[h]
      /\ flag' = [flag EXCEPT ![g] = Detached]
      /\ pc' = [pc EXCEPT ![f] = IF flag[g] \in Freds THEN "detached" ELSE "idle"]
      /\ pending' = [pending EXCEPT ![f] = IF flag[g] \in Freds THEN flag[g] ELSE pending[f]]
      /\ flagLock' = [flagLock EXCEPT ![g] = IF flag[g] \in Freds THEN f ELSE Null]
      /\ UNCHANGED <<runState, resumeInfo, readyLinks, stage, stacks, result, joining, deletes>>
  <2>1. /\ LifeTypeOK /\ (Waiter(g) <=> flag[g] \in Freds) /\ flagLock[g] = Null
        /\ flag[g] \notin {Posted, Detached}
    BY LifeFacts DEF LifeInv, LifeTypeOK, Waiter, Settle, FlagLocked, FlagRunning, Posted, Detached
  <2>2. LifeInv /\ Detach(f, g) /\ flagLock[g] = Null /\ flag' = [flag EXCEPT ![g] = Detached]
    BY <2>1 DEF Settle
  <2>3. /\ pc' = [pc EXCEPT ![f] = IF flag[g] \in Freds THEN "detached" ELSE "idle"]
        /\ pending' = [pending EXCEPT ![f] = IF flag[g] \in Freds THEN flag[g] ELSE pending[f]]
        /\ flagLock' = [flagLock EXCEPT ![g] = IF flag[g] \in Freds THEN f ELSE Null]
    BY <2>1, LifeFacts DEF LifeTypeOK, Settle
  <2> QED BY <2>1, <2>2, <2>3 DEF LifeInv, Detach, InProgram
<1>1. /\ joining[f] = Null /\ pending[f] = Null /\ stage[g] \notin {"none", "deleted"}
      /\ \A h \in Freds : flag[h] # f /\ pending[h] # f /\ flagLock[h] # f
  <2>1. stage[g] # "deleted"
    BY <1>0 DEF LifeStage, Created
  <2>2. stage[g] # "none"
    BY <1>0 DEF LifeStage, Created
  <2> QED BY <1>0, <2>1, <2>2, LifeFacts DEF LifeStage, LifeFlag, LifeTypeOK, Parking
<1>2. LifeTypeOK'
  BY <1>0, <1>1, LifeFacts DEF LifeTypeOK
<1>4. ASSUME NEW h \in Freds PROVE LifeStage(h)'
  BY <1>0, <1>1, LifeFacts DEF LifeStage, LifeTypeOK, Parking
<1>5. ASSUME NEW h \in Freds PROVE LifeFlag(h)'
  BY <1>0, <1>1, LifeFacts DEF LifeFlag, LifeTypeOK, FlagRunning, Posted, Detached, Parking
<1>6. ASSUME NEW h \in Freds PROVE LifeJoin(h)'
  BY <1>0, <1>1, LifeFacts DEF LifeJoin, LifeTypeOK, FlagRunning, Posted, Detached
<1>7. ASSUME NEW h \in Freds PROVE LifeRace(h)'
  BY <1>0, <1>1, LifeFacts DEF LifeRace, LifeTypeOK, LifeFlag, LifeJoin, Sleeps, FlagLocked, Parking
<1>8. pending'[Timer] = Null
  BY <1>0, LifeFacts DEF LifeTypeOK
<1> QED BY <1>2, <1>4, <1>5, <1>6, <1>7, <1>8 DEF LifeInv

\* detach() of a posted flag touches nothing but its caller, which faults.
LEMMA DetachInv ==
  ASSUME LifeInv, NEW f \in Freds, NEW g \in Freds, Detach(f, g)
  PROVE  LifeInv'
<1>1. CASE Settle(f, g, Detached) /\ pc' = [pc EXCEPT ![f] = IF Waiter(g) THEN "detached" ELSE "idle"]
  BY <1>1, DetachFlagInv
<1>2. CASE pc' = [pc EXCEPT ![f] = "fault"] /\ UNCHANGED <<pending, flag, flagLock>>
  <2>0. /\ LifeTypeOK /\ pending[Timer] = Null
        /\ \A h \in Freds : LifeStage(h) /\ LifeFlag(h) /\ LifeJoin(h) /\ LifeRace(h)
        /\ stage[f] = "live" /\ pc[f] = "idle"
        /\ UNCHANGED <<runState, resumeInfo, readyLinks, pending, lifeVars>>
    BY <1>2 DEF LifeInv, Detach, InProgram, lifeVars
  <2>1. /\ joining[f] = Null /\ pending[f] = Null
        /\ \A h \in Freds : flag[h] # f /\ pending[h] # f
    BY <2>0, LifeFacts DEF LifeStage, LifeFlag, LifeTypeOK, Parking
  <2>2. LifeTypeOK'
    BY <1>2, <2>0 DEF LifeTypeOK, lifeVars
  <2>3. ASSUME NEW h \in Freds PROVE LifeStage(h)' /\ LifeJoin(h)'
    BY <1>2, <2>0, <2>1 DEF LifeStage, LifeJoin, LifeTypeOK, lifeVars, Parking
  <2>4. ASSUME NEW h \in Freds PROVE LifeFlag(h)'
    BY <1>2, <2>0, <2>1, LifeFacts DEF LifeFlag, LifeTypeOK, lifeVars, Parking
  <2>5. ASSUME NEW h \in Freds PROVE LifeRace(h)'
    BY <1>2, <2>0, <2>1 DEF LifeRace, LifeTypeOK, Sleeps, FlagLocked, lifeVars, Parking
  <2> QED BY <2>0, <2>2, <2>3, <2>4, <2>5 DEF LifeInv
<1> QED BY <1>1, <1>2 DEF Detach

\* join() up to the lock of the flag.
LEMMA JoinInv ==
  ASSUME LifeInv, NEW f \in Freds, NEW g \in Freds, NEW b \in BOOLEAN, Join(f, g, b)
  PROVE  LifeInv'
<1>0. /\ LifeTypeOK /\ pending[Timer] = Null
      /\ \A h \in Freds : LifeStage(h) /\ LifeFlag(h) /\ LifeJoin(h) /\ LifeRace(h)
      /\ stage[f] = "live" /\ pc[f] = "idle" /\ f # g /\ stage[g] \in {"started", "live", "ended"}
      /\ (\A h \in Freds : joining[h] # g) /\ flag[g] # Detached
      /\ joining' = [joining EXCEPT ![f] = g] /\ deletes' = [deletes EXCEPT ![f] = b]
      /\ pc' = [pc EXCEPT ![f] = "wait"]
      /\ UNCHANGED <<runState, resumeInfo, readyLinks, pending, stage, stacks, flag, flagLock, result>>
  BY DEF LifeInv, Join, InProgram, raceVars
<1>1. joining[f] = Null /\ \A h \in Freds : flag[h] # f /\ pending[h] # f
  BY <1>0, LifeFacts DEF LifeStage, LifeFlag, LifeTypeOK, Parking
<1>2. LifeTypeOK'
  BY <1>0, <1>1, LifeFacts DEF LifeTypeOK
<1>4. ASSUME NEW h \in Freds PROVE LifeStage(h)'
  BY <1>0, <1>1, LifeFacts DEF LifeStage, LifeTypeOK, Parking
<1>5. ASSUME NEW h \in Freds PROVE LifeFlag(h)'
  BY <1>0, <1>1, LifeFacts DEF LifeFlag, LifeTypeOK, FlagRunning, Posted, Detached, Parking
<1>6. ASSUME NEW h \in Freds PROVE LifeJoin(h)'
  BY <1>0, <1>1, LifeFacts DEF LifeJoin, LifeTypeOK, FlagRunning, Posted, Detached
<1>7. ASSUME NEW h \in Freds PROVE LifeRace(h)'
  BY <1>0, <1>1, LifeFacts DEF LifeRace, LifeTypeOK, Sleeps, FlagLocked, Parking
<1> QED BY <1>0, <1>2, <1>4, <1>5, <1>6, <1>7 DEF LifeInv

\* wait(): the joiner becomes the waiter of the flag.
LEMMA FlagWaitInv ==
  ASSUME LifeInv, NEW f \in Freds, FlagWait(f)
  PROVE  LifeInv'
<1>0. /\ LifeTypeOK /\ pending[Timer] = Null
      /\ \A h \in Freds : LifeStage(h) /\ LifeFlag(h) /\ LifeJoin(h) /\ LifeRace(h)
      /\ pc[f] = "wait" /\ flagLock[joining[f]] = Null /\ flag[joining[f]] = FlagRunning
      /\ flag' = [flag EXCEPT ![joining[f]] = f] /\ pc' = [pc EXCEPT ![f] = "suspend"]
      /\ UNCHANGED <<runState, resumeInfo, readyLinks, pending, stage, stacks, flagLock, result, joining, deletes>>
  BY DEF LifeInv, FlagWait, FlagLocked, raceVars
<1>1. /\ joining[f] \in Freds /\ stage[joining[f]] # "none"
      /\ stage[f] = "live" /\ runState[f] = Running /\ readyLinks[f] = 0
      /\ \A h \in Freds : flag[h] # f /\ pending[h] # f /\ (joining[h] = joining[f] => h = f)
  BY <1>0, LifeFacts DEF LifeStage, LifeFlag, LifeTypeOK, LifeJoin, LifeRace, Parking
<1>2. LifeTypeOK'
  BY <1>0, <1>1, LifeFacts DEF LifeTypeOK
<1>4. ASSUME NEW h \in Freds PROVE LifeStage(h)'
  BY <1>0, <1>1, LifeFacts DEF LifeStage, LifeTypeOK, Parking
<1>5. ASSUME NEW h \in Freds PROVE LifeFlag(h)'
  BY <1>0, <1>1, LifeFacts DEF LifeFlag, LifeTypeOK, FlagRunning, Posted, Detached, Parking
<1>6. ASSUME NEW h \in Freds PROVE LifeJoin(h)'
  BY <1>0, <1>1, LifeFacts DEF LifeJoin, LifeTypeOK, FlagRunning, Posted, Detached
<1>7. ASSUME NEW h \in Freds PROVE LifeRace(h)'
  BY <1>0, <1>1, LifeFacts DEF LifeRace, LifeTypeOK, Sleeps, FlagLocked, Parking
<1> QED BY <1>0, <1>2, <1>4, <1>5, <1>6, <1>7 DEF LifeInv
\* Nobody else is the joiner of the fibre that f joins.
LEMMA LifeJoined ==
  ASSUME LifeInv, NEW f \in Freds, joining[f] # Null
  PROVE  /\ joining[f] \in Freds /\ stage[f] = "live"
         /\ flag[joining[f]] \in Freds => flag[joining[f]] = f
         /\ \A h \in Freds \ {f} : joining[h] # joining[f] 
  BY LifeFacts DEF LifeInv, LifeTypeOK, LifeStage, LifeJoin, LifeFlag

\* The joiner is back with the lock: it has not found itself the waiter, and
\* what it deletes has posted its end.
LEMMA FlagDoneInv ==
  ASSUME LifeInv, NEW f \in Freds, FlagDone(f)
  PROVE  LifeInv'
<1> DEFINE g == joining[f]
<1>0. /\ LifeTypeOK /\ pending[Timer] = Null
      /\ \A h \in Freds : LifeStage(h) /\ LifeFlag(h) /\ LifeJoin(h) /\ LifeRace(h)
  BY DEF LifeInv
<1>1. /\ g \in Freds /\ stage[f] = "live" /\ g # Null /\ pc[f] \in {"wait", "resumed"}
      /\ flagLock[g] = Null /\ flag[g] # f
  BY <1>0, LifeFacts DEF FlagDone, FlagLocked, LifeStage, LifeTypeOK, LifeFlag, Parking
<1>2. flag[g] \in {Posted, Detached} /\ \A h \in Freds \ {f} : joining[h] # g
  BY <1>0, <1>1, LifeJoined DEF FlagDone, LifeTypeOK, LifeJoin
<1>3. deletes[f] => pc[g] = "posted"
  BY <1>0, <1>1, <1>2 DEF LifeJoin, LifeFlag
<1>4. /\ pc' = [pc EXCEPT ![f] = "idle"] /\ joining' = [joining EXCEPT ![f] = Null]
      /\ stage' = IF deletes[f] THEN [stage EXCEPT ![g] = "deleted"] ELSE stage
      /\ UNCHANGED <<runState, resumeInfo, readyLinks, pending, stacks, flag, flagLock, result, deletes>>
  BY <1>2 DEF FlagDone, Waiter, raceVars
<1>5. /\ \A h \in Freds : flag[h] # f /\ pending[h] # f
      /\ deletes[f] => f # g
  BY <1>0, <1>1, <1>3, LifeFacts DEF LifeFlag, LifeTypeOK, Parking
<1>6. LifeTypeOK' /\ pending'[Timer] = Null
  BY <1>0, <1>1, <1>4 DEF LifeTypeOK
<1>7. ASSUME NEW h \in Freds PROVE LifeStage(h)'
  BY <1>0, <1>1, <1>3, <1>4, <1>5 DEF LifeStage, LifeTypeOK, LifeRace, Parking
<1>8. ASSUME NEW h \in Freds PROVE LifeFlag(h)'
  BY <1>0, <1>1, <1>4, <1>5 DEF LifeFlag, LifeTypeOK, Parking
<1>9. ASSUME NEW h \in Freds PROVE LifeJoin(h)'
  BY <1>0, <1>1, <1>2, <1>4 DEF LifeJoin, LifeTypeOK
<1>10. ASSUME NEW h \in Freds PROVE LifeRace(h)'
  BY <1>0, <1>1, <1>4, <1>5 DEF LifeRace, LifeTypeOK, Sleeps, FlagLocked, Parking
<1> QED BY <1>6, <1>7, <1>8, <1>9, <1>10 DEF LifeInv

\* The resume() of post() and detach(): once, for the joiner it is owed to.
LEMMA FlagResumeInv ==
  ASSUME LifeInv, NEW h \in Freds, FlagResume(h)
  PROVE  LifeInv'
<1>0. /\ LifeTypeOK /\ pending[Timer] = Null
      /\ \A e \in Freds : LifeStage(e) /\ LifeFlag(e) /\ LifeJoin(e) /\ LifeRace(e)
  BY DEF LifeInv
<1>1. PICK f \in Freds : f = pending[h]
  BY <1>0, LifeFacts DEF FlagResume, Resume, LifeTypeOK
<1>2. PICK g \in Freds : flagLock[g] = h /\ flagLock' = [flagLock EXCEPT ![g] = Null]
  BY DEF FlagResume
<1>3. /\ h # Null /\ f # Null /\ g # Null /\ joining[f] = g /\ pc[f] \in Parking /\ Sleeps(f) /\ f # h
      /\ pc[h] \in {"posted", "detached"} /\ flag[g] \in {Posted, Detached}
      /\ runState[f] = IF pc[f] = "off" THEN Parked ELSE Running
      /\ readyLinks[f] = 0
  BY <1>0, <1>1, <1>2, LifeFacts DEF LifeFlag, LifeRace, Sleeps, FlagLocked, Parking
<1>4. /\ pc' = [pc EXCEPT ![h] = IF pc[h] = "detached" THEN "idle" ELSE pc[h]]
      /\ runState' = [runState EXCEPT ![f] = IF pc[f] = "off" THEN Running ELSE ResumedEarly]
      /\ readyLinks' = [readyLinks EXCEPT ![f] = IF pc[f] = "off" THEN 1 ELSE 0]
      /\ pending' = [pending EXCEPT ![h] = Null]
      /\ UNCHANGED <<resumeInfo, stage, stacks, flag, result, joining, deletes>>
  BY <1>0, <1>1, <1>3 DEF FlagResume, Resume, ResumeInternal, LifeTypeOK, Parked,
     Running, ResumedEarly
<1>5. LifeTypeOK' /\ pending'[Timer] = Null
  BY <1>0, <1>2, <1>3, <1>4, LifeFacts DEF LifeTypeOK, Running, ResumedEarly
<1>6. /\ \A e \in Freds : flag[e] # h /\ pending[e] # h
      /\ \A e \in Freds \ {g} : flagLock[e] # h
  <2>1. pc[h] \notin Parking
    BY <1>3 DEF Parking
  <2>2. joining[h] = Null
    BY <1>0, <1>3 DEF LifeStage, Parking
  <2>3. ASSUME NEW e \in Freds PROVE flag[e] # h
    BY <1>0, <2>1 DEF LifeFlag
  <2>4. ASSUME NEW e \in Freds PROVE pending[e] # h
    BY <1>0, <1>3, <2>2 DEF LifeFlag
  <2>5. \A e \in Freds : flag[e] # h /\ pending[e] # h
    BY <2>3, <2>4
  <2>6. \A e \in Freds : flagLock[e] = h => e = g
    BY <1>0, <1>1, <1>3 DEF LifeFlag
  <2> QED BY <2>5, <2>6
<1>7. ASSUME NEW e \in Freds PROVE LifeStage(e)'
  BY <1>0, <1>2, <1>3, <1>4, LifeFacts DEF LifeStage, LifeTypeOK, Parking
<1>8. ASSUME NEW e \in Freds PROVE LifeFlag(e)'
  BY <1>0, <1>1, <1>2, <1>3, <1>4, <1>6, LifeFacts DEF LifeFlag, LifeTypeOK, Parking, Posted, Detached
<1>9. ASSUME NEW e \in Freds PROVE LifeJoin(e)'
  BY <1>0, <1>3, <1>4 DEF LifeJoin, LifeTypeOK
<1>10. ASSUME NEW e \in Freds PROVE LifeRace(e)'
  <2>1. CASE e = f
    BY <1>0, <1>2, <1>3, <1>4, <2>1, LifeFacts DEF LifeRace, LifeTypeOK, Sleeps, FlagLocked, Parking,
       Posted, Detached
  <2>2. CASE e # f
    <3>1. joining[e] = Null \/ joining[e] # g
      BY <1>0, <1>3, <2>2 DEF LifeJoin
    <3> QED BY <1>0, <1>2, <1>3, <1>4, <2>2, <3>1, LifeFacts DEF LifeRace, LifeTypeOK, Sleeps,
       FlagLocked, Parking
  <2> QED BY <2>1, <2>2
<1> QED BY <1>5, <1>7, <1>8, <1>9, <1>10 DEF LifeInv

\* suspend(), postSuspend() and the dispatch of a fred.
LEMMA LifeFredStepInv ==
  ASSUME LifeInv, NEW f \in Freds, FredStep(f), UNCHANGED lifeVars
  PROVE  LifeInv'
<1>0. /\ LifeTypeOK /\ pending[Timer] = Null
      /\ \A h \in Freds : LifeStage(h) /\ LifeFlag(h) /\ LifeJoin(h) /\ LifeRace(h)
      /\ UNCHANGED <<resumeInfo, pending, stage, stacks, flag, flagLock, result, joining, deletes>>
  BY DEF LifeInv, lifeVars, FredStep, SuspendSkip, SuspendInternal, PostSuspend, Dispatch
<1>1. /\ pc[f] \in Parking
      /\ \E l \in {"switch", "off", "resumed"} : pc' = [pc EXCEPT ![f] = l]
  BY DEF FredStep, SuspendSkip, SuspendInternal, PostSuspend, Dispatch, Parking
<1>2. pc'[f] = "resumed" => ~Sleeps(f)
  BY <1>0 DEF FredStep, SuspendSkip, SuspendInternal, PostSuspend, Dispatch, LifeRace,
     LifeTypeOK,
     Running, ResumedEarly
<1>3. LifeTypeOK' /\ LifeRace(f)'
  BY <1>0, <1>1, <1>2 DEF FredStep, SuspendSkip, SuspendInternal, PostSuspend, Dispatch,
     LifeRace,
     LifeTypeOK, Sleeps, FlagLocked, ResumeInternal, Parking, Parked, Running, ResumedEarly
<1>4. \A h \in Freds \ {f} : pc'[h] = pc[h] /\ runState'[h] = runState[h] /\ readyLinks'[h] = readyLinks[h]
  BY <1>0 DEF FredStep, SuspendSkip, SuspendInternal, PostSuspend, Dispatch,
     ResumeInternal, LifeTypeOK
<1>5. ASSUME NEW h \in Freds PROVE LifeStage(h)'
  BY <1>0, <1>1 DEF LifeStage, LifeTypeOK, Parking, FredStep, SuspendSkip,
     SuspendInternal, PostSuspend,
     Dispatch
<1>6. ASSUME NEW h \in Freds PROVE LifeFlag(h)'
  BY <1>0, <1>1, <1>2, LifeFacts DEF LifeFlag, LifeTypeOK, Parking, Sleeps, FlagLocked
<1>7. ASSUME NEW h \in Freds PROVE LifeJoin(h)'
  BY <1>0, <1>1 DEF LifeJoin, LifeTypeOK, Parking
<1>8. ASSUME NEW h \in Freds PROVE LifeRace(h)'
  BY <1>0, <1>3, <1>4 DEF LifeRace, Sleeps, FlagLocked
<1> QED BY <1>0, <1>3, <1>5, <1>6, <1>7, <1>8 DEF LifeInv

\* Every step of the life of a fibre keeps the invariant.
LEMMA LifeNextInv == LifeInv /\ [FibreLifeNext]_fibreLifeVars => LifeInv'
<1> SUFFICES ASSUME LifeInv, [FibreLifeNext]_fibreLifeVars PROVE LifeInv'
  OBVIOUS
<1>1. CASE UNCHANGED fibreLifeVars
  BY <1>1 DEF fibreLifeVars, fredVars, lifeVars, LifeInv, LifeTypeOK, LifeStage,
     LifeFlag, LifeJoin,
     LifeRace, Sleeps, FlagLocked
<1>2. ASSUME NEW f \in Freds,
             \/ \E g \in Freds, b \in BOOLEAN : FibreCreate(f, g, b) \/ Join(f, g, b)
             \/ \E g \in Freds : Detach(f, g)
             \/ \E r \in {"returned", "exited"} : Finalize(f, r)
      PROVE  LifeInv'
  BY <1>2, FibreCreateInv, JoinInv, DetachInv, FinalizeInv
<1>3. ASSUME NEW f \in Freds,
             \/ InvokeFred(f) \/ StackFree(f) \/ DestroyPost(f) \/ FlagResume(f)
             \/ FlagWait(f) \/ FlagDone(f)
             \/ FredStep(f) /\ UNCHANGED lifeVars
      PROVE  LifeInv'
  BY <1>3, InvokeFredInv, StackFreeInv, DestroyPostInv, FlagResumeInv, FlagWaitInv,
     FlagDoneInv, LifeFredStepInv
<1> QED BY <1>1, <1>2, <1>3 DEF FibreLifeNext

\* The end of a fibre that any fred may detach at any time: its object is
\* deleted only after its stack has been unmapped and its end posted, when
\* nobody has the flag's lock; a posted flag comes with the result; wait()
\* never finds itself still the waiter; and a joiner that sleeps is known to
\* its fibre.
THEOREM FibresEndSafely == PrimitivesSpec => []FibreJoinSafe
<1>1. PrimitivesInit => (part = "life" => LifeInv)
  BY LifeInitInv DEF PrimitivesInit
<1>2. PrimitivesNext => part' = part /\ (part = "life" => FibreLifeNext)
  BY DEF PrimitivesNext
<1>3. UNCHANGED primitivesVars => part' = part /\ UNCHANGED fibreLifeVars
  BY DEF primitivesVars, fibreLifeVars
<1>4. (part = "life" => LifeInv) /\ [PrimitivesNext]_primitivesVars => (part = "life" => LifeInv)'
  BY <1>2, <1>3, LifeNextInv
<1>5. (part = "life" => LifeInv) => FibreJoinSafe
  BY LifeJoinSafe DEF FibreJoinSafe
<1> QED BY <1>1, <1>4, <1>5, PTL DEF PrimitivesSpec
---------------------------------------------------------------------------
(* pause() and resume() of a cluster.                                       *)

Spot(s) == {q \in Freds : spot[q] = s}

\* A processor outside the ring does nothing, the caller of pause() keeps its
\* processor, and a pause fibre is in a ready queue or has its processor.
PauseTyped ==
  /\ ring \subseteq Freds /\ startable \subseteq Freds /\ todo \subseteq ring
  /\ spot \in [Freds -> {"absent", "starting", "fred", "place", "add", "pause",
                         "pauser", "confirm", "held"}]
  /\ pauseConfirmSem \in Nat /\ pauseSem \in Nat /\ left \in Nat
  /\ phase \in {"none", "creating", "confirming", "paused", "posting", "joining"}
  /\ ringLock <=> phase # "none"
  /\ \A q \in Freds : spot[q] # "absent" => q \in ring
  /\ pauseFibres = startable \cup Spot("confirm") \cup Spot("held")
  /\ \A q \in startable : spot[q] \notin {"confirm", "held"}
  /\ phase \in {"creating", "confirming", "paused", "posting"}
       => caller \in ring /\ spot[caller] = "pauser"

\* What has become of the pause fibres, by the place of pause() or resume().
PausePhase ==
  /\ phase = "creating" => /\ pauseFibres = (ring \ {caller}) \ todo
                           /\ pauseSem = 0 /\ pauseConfirmSem = Cardinality(Spot("held"))
  /\ phase = "confirming" => /\ pauseFibres = ring \ {caller} /\ pauseSem = 0
                             /\ left = pauseConfirmSem + Cardinality(startable \cup Spot("confirm"))
  /\ phase = "paused" => /\ Spot("held") = ring \ {caller} /\ startable = {} /\ Spot("confirm") = {}
                         /\ pauseConfirmSem = 0 /\ pauseSem = 0
  /\ phase \in {"posting", "joining"} => /\ startable = {} /\ Spot("confirm") = {}
                                         /\ pauseConfirmSem = 0
                                         /\ Cardinality(Spot("held")) = pauseSem + left
  /\ phase = "joining" => left = 0
  /\ phase = "none" => pauseFibres = {} /\ pauseConfirmSem = 0 /\ pauseSem = 0

PauseInv == PauseTyped /\ PausePhase

\* The sets of processors are finite.
LEMMA PauseFinite ==
  ASSUME NEW X, X \subseteq Freds
  PROVE  IsFiniteSet(X) /\ Cardinality(X) \in Nat /\ (Cardinality(X) = 0 <=> X = {})
  BY RWAssumption, FS_Subset, FS_CardinalityType, FS_EmptySet

\* Processors at different places are counted separately.
LEMMA PauseDisjoint ==
  ASSUME NEW X, NEW Y, X \subseteq Freds, Y \subseteq Freds, X \cap Y = {}
  PROVE  Cardinality(X \cup Y) = Cardinality(X) + Cardinality(Y)
<1>1. /\ IsFiniteSet(X) /\ IsFiniteSet(Y) /\ Cardinality(X) \in Nat
      /\ Cardinality(Y) \in Nat
      /\ Cardinality(X \cap Y) = 0
  BY PauseFinite, FS_EmptySet
<1>2. Cardinality(X \cup Y) = Cardinality(X) + Cardinality(Y) - Cardinality(X \cap Y)
  BY <1>1, FS_Union
<1> QED BY <1>1, <1>2

\* The set counts of the instance are those of this module.
LEMMA ClusterCardinality ==
  ASSUME NEW X
  PROVE  C!Cardinality(X) = Cardinality(X)
  BY DEF C!Cardinality, Cardinality

\* The invariant gives what the run checks.
LEMMA PauseInvStops == PauseInv => C!PauseStops
<1> SUFFICES ASSUME PauseInv PROVE C!PauseStops
  OBVIOUS
<1>1. phase \in {"paused", "posting"} => \A q \in ring \ {caller} :
        spot[q] = "held" \/ (phase = "posting" /\ q \notin pauseFibres)
  BY DEF PauseInv, PauseTyped, PausePhase, Spot
<1>2. phase = "confirming"
        => left = pauseConfirmSem + Cardinality(startable \cup {q \in Freds : spot[q] = "confirm"})
  BY DEF PauseInv, PausePhase, Spot
<1>3. phase \in {"posting", "joining"}
        => Cardinality({q \in Freds : spot[q] = "held"}) = pauseSem + left
  BY DEF PauseInv, PausePhase, Spot
<1>4. phase = "none" => /\ pauseConfirmSem = 0 /\ pauseSem = 0 /\ startable = {}
                        /\ {q \in Freds : spot[q] = "confirm"} \cup {q \in Freds : spot[q] = "held"} = {}
  BY DEF PauseInv, PauseTyped, PausePhase, Spot
<1> QED BY <1>1, <1>2, <1>3, <1>4, ClusterCardinality DEF C!PauseStops

\* The cluster starts outside a pause.
LEMMA PauseInitInv == C!ClusterInit => PauseInv
<1> SUFFICES ASSUME C!ClusterInit PROVE PauseInv
  OBVIOUS
<1>1. Spot("confirm") = {} /\ Spot("held") = {}
  BY DEF C!ClusterInit, Spot
<1> QED BY <1>1 DEF C!ClusterInit, PauseInv, PauseTyped, PausePhase

\* A fred that is none of the pause fibres goes on.
LEMMA SpotMoved ==
  ASSUME PauseTyped, NEW p \in Freds, NEW s, s \notin {"confirm", "held"},
         spot[p] \notin {"confirm", "held"}, spot' = [spot EXCEPT ![p] = s]
  PROVE  /\ Spot("confirm")' = Spot("confirm") /\ Spot("held")' = Spot("held")
         /\ spot'[p] = s /\ \A q \in Freds \ {p} : spot'[q] = spot[q]
<1>1. spot'[p] = s /\ \A q \in Freds \ {p} : spot'[q] = spot[q]
  BY DEF PauseTyped
<1>2. \A q \in Freds : \A x \in {"confirm", "held"} : spot'[q] = x <=> spot[q] = x
  BY <1>1
<1> QED BY <1>1, <1>2 DEF Spot

\* The freds of the program, and the threads that start.
LEMMA RingMovesInv ==
  ASSUME PauseInv, NEW p \in Freds,
         \/ \E wish \in {"place", "add", "pause"} : C!Want(p, wish)
         \/ C!placement(p) \/ C!registerIdleWorker(p)
  PROVE  PauseInv'
<1>1. /\ spot[p] \in {"fred", "place", "starting"}
      /\ \E s \in {"place", "add", "pause", "fred"} : spot' = [spot EXCEPT ![p] = s]
      /\ UNCHANGED <<ring, ringLock, startable, pauseFibres, pauseConfirmSem, pauseSem, phase,
                     caller, todo, left, pauses>>
  BY DEF C!Want, C!placement, C!registerIdleWorker, C!Move, C!ringVars, C!fibreVars,
     C!pauseVars
<1>2. PICK s \in {"place", "add", "pause", "fred"} : spot' = [spot EXCEPT ![p] = s]
  BY <1>1
<1>3. /\ Spot("confirm")' = Spot("confirm") /\ Spot("held")' = Spot("held")
      /\ spot'[p] = s /\ \A q \in Freds \ {p} : spot'[q] = spot[q]
  BY <1>1, <1>2, SpotMoved DEF PauseInv
<1>4. PauseTyped'
  BY <1>1, <1>2, <1>3 DEF PauseInv, PauseTyped
<1>5. PausePhase'
  BY <1>1, <1>3 DEF PauseInv, PausePhase
<1> QED BY <1>4, <1>5 DEF PauseInv

\* A worker is added only outside a pause.
LEMMA AddWorkerInv ==
  ASSUME PauseInv, NEW p \in Freds, NEW q \in Freds, C!addWorker(p, q)
  PROVE  PauseInv'
<1>1. /\ phase = "none" /\ spot[p] = "add" /\ spot[q] = "absent"
      /\ spot' = [spot EXCEPT ![p] = "fred", ![q] = "starting"] /\ ring' = ring \cup {q}
      /\ UNCHANGED <<ringLock, startable, pauseFibres, pauseConfirmSem, pauseSem, phase, caller,
                     todo, left, pauses>>
  BY DEF C!addWorker, C!fibreVars, C!pauseVars, PauseInv, PauseTyped
<1>2. /\ spot'[p] = "fred" /\ spot'[q] = "starting"
      /\ \A r \in Freds \ {p, q} : spot'[r] = spot[r]
  BY <1>1 DEF PauseInv, PauseTyped
<1>3. \A r \in Freds : \A x \in {"confirm", "held"} : spot'[r] = x <=> spot[r] = x
  BY <1>1, <1>2
<1>4. Spot("confirm")' = Spot("confirm") /\ Spot("held")' = Spot("held")
  BY <1>3 DEF Spot
<1>5. PauseTyped'
  BY <1>1, <1>2, <1>4 DEF PauseInv, PauseTyped
<1> QED BY <1>1, <1>4, <1>5 DEF PauseInv, PausePhase

\* pause() takes the lock of the ring.
LEMMA PauseLockInv ==
  ASSUME PauseInv, NEW p \in Freds, C!PauseLock(p)
  PROVE  PauseInv'
<1>1. /\ phase = "none" /\ spot[p] = "pause" /\ spot' = [spot EXCEPT ![p] = "pauser"]
      /\ ringLock' = TRUE /\ phase' = "creating" /\ caller' = p /\ todo' = ring
      /\ UNCHANGED <<ring, startable, pauseFibres, pauseConfirmSem, pauseSem, left>>
  BY DEF C!PauseLock, C!Move, C!ringVars, C!fibreVars, PauseInv, PauseTyped
<1>2. /\ Spot("confirm")' = Spot("confirm") /\ Spot("held")' = Spot("held")
      /\ spot'[p] = "pauser" /\ \A q \in Freds \ {p} : spot'[q] = spot[q]
  BY <1>1, SpotMoved DEF PauseInv
<1>3. PauseTyped'
  BY <1>1, <1>2 DEF PauseInv, PauseTyped
<1>4. Spot("held") = {} /\ pauseFibres' = (ring' \ {caller'}) \ todo'
  BY <1>1 DEF PauseInv, PauseTyped, PausePhase
<1> QED BY <1>1, <1>2, <1>3, <1>4, PauseFinite DEF PauseInv, PausePhase

\* One pause fibre per processor but the caller's.
LEMMA PauseCreateInv ==
  ASSUME PauseInv, NEW q \in Freds, C!PauseCreate(q)
  PROVE  PauseInv'
<1>1. /\ phase = "creating" /\ q \in todo /\ todo' = todo \ {q}
      /\ startable' = startable \cup ({q} \ {caller}) /\ pauseFibres' = pauseFibres \cup ({q} \ {caller})
      /\ phase' = (IF todo' = {} THEN "confirming" ELSE "creating")
      /\ left' = Cardinality(ring) - 1
      /\ UNCHANGED <<ring, ringLock, spot, pauseConfirmSem, pauseSem, caller>>
  <2>1. /\ q # caller => startable' = startable \cup {q} /\ pauseFibres' = pauseFibres \cup {q}
        /\ q = caller => startable' = startable /\ pauseFibres' = pauseFibres
    BY DEF C!PauseCreate
  <2>2. /\ startable' = startable \cup ({q} \ {caller})
        /\ pauseFibres' = pauseFibres \cup ({q} \ {caller})
    BY <2>1
  <2> QED BY <2>2, ClusterCardinality DEF C!PauseCreate, C!ringVars
<1>2. Spot("confirm")' = Spot("confirm") /\ Spot("held")' = Spot("held")
  BY <1>1 DEF Spot
<1>3. /\ PauseTyped /\ caller \in ring /\ spot[caller] = "pauser" /\ ring \subseteq Freds
      /\ todo \subseteq ring
      /\ pauseFibres = (ring \ {caller}) \ todo /\ pauseSem = 0
      /\ pauseConfirmSem = Cardinality(Spot("held"))
  BY <1>1 DEF PauseInv, PauseTyped, PausePhase
<1>4. Cardinality(ring) - 1 = Cardinality(ring \ {caller}) /\ Cardinality(ring) - 1 \in Nat
  <2>1. /\ IsFiniteSet(ring) /\ Cardinality(ring) \in Nat
        /\ Cardinality(ring \ {caller}) \in Nat
    BY <1>3, PauseFinite
  <2>2. Cardinality(ring \ {caller}) = Cardinality(ring) - 1
    BY <1>3, <2>1, FS_RemoveElement
  <2> QED BY <2>1, <2>2
<1>5. q # caller => spot[q] \notin {"confirm", "held"}
  BY <1>1, <1>3 DEF PauseTyped, Spot
<1>6. PauseTyped'
  BY <1>1, <1>2, <1>3, <1>4, <1>5 DEF PauseTyped
<1>7. pauseFibres' = (ring' \ {caller'}) \ todo'
  BY <1>1, <1>3
<1>8. ASSUME phase' = "confirming"
      PROVE  /\ pauseFibres' = ring' \ {caller'}
             /\ left' = pauseConfirmSem' + Cardinality(startable' \cup Spot("confirm")')
  <2>1. pauseFibres' = ring \ {caller}
    BY <1>1, <1>7, <1>8
  <2>2. /\ startable' \cup Spot("confirm") \subseteq Freds /\ Spot("held") \subseteq Freds
        /\ (startable' \cup Spot("confirm")) \cap Spot("held") = {}
        /\ ring \ {caller} = (startable' \cup Spot("confirm")) \cup Spot("held")
    BY <1>2, <1>6, <2>1 DEF PauseTyped, Spot
  <2>3. Cardinality(ring \ {caller})
          = Cardinality(startable' \cup Spot("confirm")) + Cardinality(Spot("held"))
    BY <2>2, PauseDisjoint
  <2>4. startable' \cup Spot("confirm")' = startable' \cup Spot("confirm")
    BY <1>2
  <2>5. PICK a \in Nat, b \in Nat : /\ a = Cardinality(startable' \cup Spot("confirm"))
                                   /\ b = Cardinality(Spot("held"))
    BY <2>2, PauseFinite
  <2>6. left' = a + b /\ pauseConfirmSem' = b
    BY <1>1, <1>3, <1>4, <2>3, <2>5
  <2>7. left' = pauseConfirmSem' + Cardinality(startable' \cup Spot("confirm")')
    <3>1. Cardinality(startable' \cup Spot("confirm")') = a
      BY <2>4, <2>5
    <3>2. left' = pauseConfirmSem' + a
      BY <2>6
    <3> QED BY <3>1, <3>2
  <2> QED BY <1>1, <2>1, <2>7
<1>9. PausePhase'
  BY <1>1, <1>2, <1>3, <1>7, <1>8 DEF PausePhase
<1> QED BY <1>6, <1>9 DEF PauseInv
\* pause() takes one confirmation.
LEMMA PausePInv ==
  ASSUME PauseInv, C!PauseP \/ C!PauseReturn
  PROVE  PauseInv'
<1>1. /\ phase = "confirming" /\ Spot("confirm") \subseteq Freds
      /\ startable \subseteq Freds
      /\ UNCHANGED <<ring, ringLock, spot, startable, pauseFibres, pauseSem, caller, todo>>
      /\ \/ phase' = phase /\ left > 0 /\ pauseConfirmSem > 0
            /\ pauseConfirmSem' = pauseConfirmSem - 1 /\ left' = left - 1
         \/ phase' = "paused" /\ left = 0 /\ UNCHANGED <<pauseConfirmSem, left>>
  BY DEF C!PauseP, C!PauseReturn, C!ringVars, C!fibreVars, PauseInv, PauseTyped, Spot
<1>2. Spot("confirm")' = Spot("confirm") /\ Spot("held")' = Spot("held")
  BY <1>1 DEF Spot
<1>3. PauseTyped'
  BY <1>1, <1>2 DEF PauseInv, PauseTyped
<1>4. PICK n \in Nat : n = Cardinality(startable \cup Spot("confirm")) /\ (n = 0 <=> startable \cup Spot("confirm") = {})
  BY <1>1, PauseFinite
<1>5. /\ left = pauseConfirmSem + n /\ pauseFibres = ring \ {caller} /\ pauseSem = 0
      /\ left \in Nat /\ pauseConfirmSem \in Nat
      /\ pauseFibres = startable \cup Spot("confirm") \cup Spot("held")
  BY <1>1, <1>4 DEF PauseInv, PausePhase, PauseTyped
<1>6. CASE phase' = phase
  BY <1>1, <1>2, <1>3, <1>4, <1>5, <1>6 DEF PauseInv, PausePhase
<1>7. CASE phase' = "paused"
  <2>1. left = 0 /\ pauseConfirmSem' = pauseConfirmSem
    BY <1>1, <1>7
  <2>a. pauseConfirmSem = 0 /\ n = 0
    BY <1>4, <1>5, <2>1
  <2>b. startable \cup Spot("confirm") = {}
    BY <1>4, <2>a
  <2>2. /\ pauseConfirmSem = 0 /\ startable = {} /\ Spot("confirm") = {}
        /\ Spot("held") = ring \ {caller}
    BY <1>5, <2>a, <2>b
  <2> QED BY <1>1, <1>2, <1>3, <1>5, <1>7, <2>1, <2>2 DEF PauseInv, PausePhase
<1> QED BY <1>1, <1>6, <1>7

\* A pause fibre gets its processor, as soon as its fred blocks or yields.
LEMMA PauseRunInv ==
  ASSUME PauseInv, NEW q \in Freds, C!PauseRun(q)
  PROVE  PauseInv'
<1>1. /\ q \in startable /\ spot[q] = "fred" /\ spot' = [spot EXCEPT ![q] = "confirm"]
      /\ startable' = startable \ {q}
      /\ UNCHANGED <<ring, ringLock, pauseFibres, pauseConfirmSem, pauseSem, phase, caller, todo, left>>
  BY DEF C!PauseRun, C!Move, C!ringVars, C!pauseVars
<1>2. /\ spot'[q] = "confirm" /\ \A r \in Freds \ {q} : spot'[r] = spot[r]
  BY <1>1 DEF PauseInv, PauseTyped
<1>3. Spot("confirm")' = Spot("confirm") \cup {q} /\ Spot("held")' = Spot("held")
  BY <1>1, <1>2 DEF Spot
<1>4. startable' \cup Spot("confirm")' = startable \cup Spot("confirm")
  BY <1>1, <1>3
<1>5. PauseTyped'
  BY <1>1, <1>2, <1>3, <1>4 DEF PauseInv, PauseTyped
<1>6. phase \in {"creating", "confirming"}
  BY <1>1 DEF PauseInv, PauseTyped, PausePhase
<1> QED BY <1>1, <1>3, <1>4, <1>5, <1>6 DEF PauseInv, PausePhase

\* A pause fibre confirms and holds its processor.
LEMMA PauseConfirmInv ==
  ASSUME PauseInv, NEW q \in Freds, C!PauseConfirm(q)
  PROVE  PauseInv'
<1>1. /\ spot[q] = "confirm" /\ spot' = [spot EXCEPT ![q] = "held"]
      /\ pauseConfirmSem' = pauseConfirmSem + 1
      /\ UNCHANGED <<ring, ringLock, startable, pauseFibres, pauseSem, phase, caller, todo, left>>
  BY DEF C!PauseConfirm, C!Move, C!ringVars, C!pauseVars
<1>2. /\ spot'[q] = "held" /\ \A r \in Freds \ {q} : spot'[r] = spot[r]
  BY <1>1 DEF PauseInv, PauseTyped
<1>3. Spot("confirm")' = Spot("confirm") \ {q} /\ Spot("held")' = Spot("held") \cup {q}
  BY <1>1, <1>2 DEF Spot
<1>4. /\ q \in Spot("confirm") /\ q \notin Spot("held") /\ q \notin startable
      /\ startable \subseteq Freds /\ Spot("confirm") \subseteq Freds /\ Spot("held") \subseteq Freds
  BY <1>1 DEF Spot, PauseInv, PauseTyped
<1>5. startable' \cup Spot("confirm")' = (startable \cup Spot("confirm")) \ {q}
  BY <1>1, <1>3, <1>4
<1>6. Cardinality(Spot("held")') = Cardinality(Spot("held")) + 1
  BY <1>3, <1>4, PauseFinite, FS_AddElement
<1>7. /\ Cardinality(startable \cup Spot("confirm")) \in Nat
      /\ Cardinality(startable' \cup Spot("confirm")') = Cardinality(startable \cup Spot("confirm")) - 1
  <2>1. IsFiniteSet(startable \cup Spot("confirm")) /\ q \in startable \cup Spot("confirm")
        /\ Cardinality(startable \cup Spot("confirm")) \in Nat
    BY <1>4, PauseFinite
  <2> QED BY <1>5, <2>1, FS_RemoveElement
<1>8. PauseTyped'
  BY <1>1, <1>2, <1>3, <1>4 DEF PauseInv, PauseTyped
<1>9. phase \in {"creating", "confirming"}
  BY <1>4 DEF PauseInv, PauseTyped, PausePhase
<1>10. pauseConfirmSem \in Nat
  BY DEF PauseInv, PauseTyped
<1>11. PausePhase'
  BY <1>1, <1>6, <1>7, <1>9, <1>10 DEF PauseInv, PausePhase
<1> QED BY <1>8, <1>11 DEF PauseInv

\* A pause fibre takes a permit of resume() and ends.
LEMMA PauseEndInv ==
  ASSUME PauseInv, NEW q \in Freds, C!PauseEnd(q)
  PROVE  PauseInv'
<1>1. /\ pauseSem > 0 /\ spot[q] = "held" /\ spot' = [spot EXCEPT ![q] = "fred"]
      /\ pauseSem' = pauseSem - 1 /\ pauseFibres' = pauseFibres \ {q}
      /\ UNCHANGED <<ring, ringLock, startable, pauseConfirmSem, phase, caller, todo, left>>
  BY DEF C!PauseEnd, C!Move, C!ringVars, C!pauseVars
<1>2. spot'[q] = "fred" /\ \A r \in Freds \ {q} : spot'[r] = spot[r]
  BY <1>1 DEF PauseInv, PauseTyped
<1>3. Spot("confirm")' = Spot("confirm") /\ Spot("held")' = Spot("held") \ {q}
  BY <1>1, <1>2 DEF Spot
<1>4. /\ phase \in {"posting", "joining"} /\ startable = {} /\ Spot("confirm") = {}
      /\ pauseSem \in Nat /\ left \in Nat /\ Cardinality(Spot("held")) = pauseSem + left
  BY <1>1 DEF PauseInv, PauseTyped, PausePhase
<1>5. PauseTyped'
  BY <1>1, <1>2, <1>3, <1>4 DEF PauseInv, PauseTyped
<1>6. Cardinality(Spot("held")') = pauseSem' + left'
  <2>1. Spot("held") \subseteq Freds /\ q \in Spot("held")
    BY <1>1 DEF Spot
  <2>2. Cardinality(Spot("held") \ {q}) = Cardinality(Spot("held")) - 1
    BY <2>1, PauseFinite, FS_RemoveElement
  <2>3. Cardinality(Spot("held") \ {q}) = pauseSem' + left'
    BY <1>1, <1>4, <2>2
  <2> QED BY <1>3, <2>3
<1> QED BY <1>1, <1>3, <1>4, <1>5, <1>6 DEF PauseInv, PausePhase

\* resume() starts.
LEMMA ResumeStartInv ==
  ASSUME PauseInv, C!ResumeStart \/ C!ResumeV
  PROVE  PauseInv'
<1>1. /\ UNCHANGED <<ring, ringLock, spot, startable, pauseFibres, pauseConfirmSem, caller, todo>>
      /\ phase \in {"paused", "posting"} /\ phase' = "posting"
      /\ phase = "paused" => UNCHANGED pauseSem /\ left' = Cardinality(ring) - 1
      /\ phase = "posting" => pauseSem' = pauseSem + 1 /\ left > 0 /\ left' = left - 1
  BY ClusterCardinality DEF C!ResumeStart, C!ResumeV, C!ringVars, C!fibreVars
<1>2. Spot("confirm")' = Spot("confirm") /\ Spot("held")' = Spot("held")
  BY <1>1 DEF Spot
<1>3. caller \in ring /\ ring \subseteq Freds /\ left \in Nat /\ pauseSem \in Nat
  BY <1>1 DEF PauseInv, PauseTyped
<1>4. /\ Cardinality(ring \ {caller}) = Cardinality(ring) - 1
      /\ Cardinality(ring \ {caller}) \in Nat
  <2>1. IsFiniteSet(ring) /\ Cardinality(ring \ {caller}) \in Nat
    BY <1>3, PauseFinite
  <2> QED BY <1>3, <2>1, FS_RemoveElement
<1>5. PauseTyped'
  BY <1>1, <1>2, <1>3, <1>4 DEF PauseInv, PauseTyped
<1>6. Cardinality(Spot("held")') = pauseSem' + left'
  <2>1. CASE phase = "paused"
    <3>1. Spot("held") = ring \ {caller} /\ pauseSem = 0
      BY <2>1 DEF PauseInv, PausePhase
    <3> QED BY <1>1, <1>2, <1>4, <2>1, <3>1
  <2>2. CASE phase = "posting"
    <3>1. Cardinality(Spot("held")) = pauseSem + left
      BY <2>2 DEF PauseInv, PausePhase
    <3>2. Cardinality(Spot("held")) = pauseSem' + left'
      BY <1>1, <1>3, <2>2, <3>1
    <3> QED BY <1>2, <3>2
  <2> QED BY <1>1, <2>1, <2>2
<1> QED BY <1>1, <1>2, <1>5, <1>6 DEF PauseInv, PausePhase

\* resume() deletes the pause fibres.
LEMMA ResumeJoinInv ==
  ASSUME PauseInv, C!ResumeJoin
  PROVE  PauseInv'
<1>1. /\ phase = "posting" /\ left = 0 /\ spot' = [spot EXCEPT ![caller] = "fred"]
      /\ spot[caller] = "pauser"
      /\ phase' = "joining" /\ caller \in Freds
      /\ UNCHANGED <<ring, ringLock, startable, pauseFibres, pauseConfirmSem, pauseSem, caller, todo, left>>
  BY DEF C!ResumeJoin, C!Move, C!ringVars, C!fibreVars, PauseInv, PauseTyped
<1>2. /\ Spot("confirm")' = Spot("confirm") /\ Spot("held")' = Spot("held")
      /\ spot'[caller] = "fred" /\ \A q \in Freds \ {caller} : spot'[q] = spot[q]
  BY <1>1, SpotMoved DEF PauseInv
<1>3. PauseTyped'
  BY <1>1, <1>2 DEF PauseInv, PauseTyped
<1> QED BY <1>1, <1>2, <1>3 DEF PauseInv, PausePhase

\* resume() gives the lock of the ring back.
LEMMA ResumeEndInv ==
  ASSUME PauseInv, NEW p \in Freds, C!ResumeEnd(p)
  PROVE  PauseInv'
<1>1. /\ phase = "joining" /\ pauseFibres = {} /\ phase' = "none" /\ ringLock' = FALSE
      /\ UNCHANGED <<ring, spot, startable, pauseFibres, pauseConfirmSem, pauseSem, todo, left>>
  BY DEF C!ResumeEnd, C!ringVars, C!fibreVars
<1>2. Spot("confirm")' = Spot("confirm") /\ Spot("held")' = Spot("held")
  BY <1>1 DEF Spot
<1>3. PauseTyped'
  BY <1>1, <1>2 DEF PauseInv, PauseTyped
<1>4. pauseSem = 0 /\ pauseConfirmSem = 0
  <2>1. Spot("held") = {} /\ pauseSem \in Nat /\ left = 0
    BY <1>1 DEF PauseInv, PauseTyped, PausePhase
  <2> QED BY <1>1, <2>1, FS_EmptySet DEF PauseInv, PausePhase
<1> QED BY <1>1, <1>2, <1>3, <1>4 DEF PauseInv, PausePhase

\* Every step of the cluster keeps the invariant.
LEMMA PauseNextInv == PauseInv /\ [C!ClusterNext]_clusterVars => PauseInv'
<1> SUFFICES ASSUME PauseInv, [C!ClusterNext]_clusterVars PROVE PauseInv'
  OBVIOUS
<1>1. CASE UNCHANGED clusterVars
  BY <1>1 DEF clusterVars, PauseInv, PauseTyped, PausePhase, Spot
<1>2. ASSUME NEW p \in Freds,
             \/ \E wish \in {"place", "add", "pause"} : C!Want(p, wish)
             \/ C!placement(p) \/ C!registerIdleWorker(p) \/ \E q \in Freds : C!addWorker(p, q)
      PROVE  PauseInv'
  BY <1>2, RingMovesInv, AddWorkerInv
<1>3. ASSUME NEW p \in Freds,
             \/ C!PauseLock(p) \/ C!PauseCreate(p) \/ C!PauseRun(p) \/ C!PauseConfirm(p) \/ C!PauseEnd(p)
             \/ C!ResumeEnd(p)
      PROVE  PauseInv'
  BY <1>3, PauseLockInv, PauseCreateInv, PauseRunInv, PauseConfirmInv, PauseEndInv,
     ResumeEndInv
<1>4. CASE C!PauseP \/ C!PauseReturn \/ C!ResumeStart \/ C!ResumeV \/ C!ResumeJoin
  BY <1>4, PausePInv, ResumeStartInv, ResumeJoinInv
<1> QED BY <1>1, <1>2, <1>3, <1>4 DEF C!ClusterNext

\* Cluster::pause(): when it returns every other processor of the ring is held
\* by its pause fibre, whatever was added or placed before; the confirmations
\* and the permits of resume() match the fibres that are still to give or take
\* them; and nothing of a pause is left for the next.
THEOREM PauseStopsTheWorld == PrimitivesSpec => []PauseStops
<1>1. PrimitivesInit => (part = "cluster" => PauseInv)
  BY PauseInitInv DEF PrimitivesInit
<1>2. PrimitivesNext => part' = part /\ (part = "cluster" => C!ClusterNext)
  BY DEF PrimitivesNext
<1>3. UNCHANGED primitivesVars => part' = part /\ UNCHANGED clusterVars
  BY DEF primitivesVars, clusterVars
<1>4. (part = "cluster" => PauseInv) /\ [PrimitivesNext]_primitivesVars => (part = "cluster" => PauseInv)'
  BY <1>2, <1>3, PauseNextInv
<1>5. (part = "cluster" => PauseInv) => PauseStops
  BY PauseInvStops DEF PauseStops
<1> QED BY <1>1, <1>4, <1>5, PTL DEF PrimitivesSpec

---------------------------------------------------------------------------
(* The mutexes over a benaphore.                                            *)

\* In the queue of the semaphore.
Queued(f) == Contains(semQueue, f)
\* The labels of a wait.
SemWait == {"suspend", "switch", "off", "resumed"}
\* Taken off the queue by a V(), and not back from P() yet.
Popped(f) == pc[f] \in SemWait /\ ~Queued(f)
\* Queued, and nobody has decided to wake it.
Undecided(f) == Queued(f) /\ CanWin(f)

SemTypeOK ==
  /\ pc \in [Freds -> {"idle", "P", "semP", "suspend", "switch", "off", "resumed", "undo", "retry",
                       "held", "V", "semV", "wake"}]
  /\ runState \in [Freds -> 0 .. 2]
  /\ readyLinks \in [Freds -> 0 .. 1]
  /\ resumeInfo \in [Freds -> Freds \cup {Null, Timer}]
  /\ pending \in [Resumers -> Freds \cup {Null}]
  /\ kind \in {"fast", "locked", "simple"}
  /\ ben \in Int /\ ben <= 1
  /\ semCount \in Nat
  /\ semQueue \in Seq(Freds)
  /\ owner \in Freds \cup {Null}
  /\ timed \in [Freds -> BOOLEAN]

\* Who is queued, and what the race says of it; a permit is left only when
\* nobody waits undecided.
SemNodes ==
  /\ IsInjective(semQueue)
  /\ \A f \in Freds :
       /\ Queued(f) => pc[f] \in SemWait /\ resumeInfo[f] \in {Null, Timer}
       /\ Popped(f) => resumeInfo[f] # Timer
       /\ kind # "locked" => ~timed[f] /\ resumeInfo[f] = Null
  /\ kind # "locked" => semCount = 0
  /\ semCount > 0 => \A f \in Freds : ~Undecided(f)

\* The race of a fred that is going to sleep, and of one that is off its
\* processor: undecided, or owed one resume(), or resumed.
SemRaceRunning(f) ==
  /\ readyLinks[f] = 0
  /\ \/ runState[f] = Running /\ (Undecided(f) <=> ~Owed(f))
     \/ runState[f] = ResumedEarly /\ ~Undecided(f) /\ ~Owed(f)

SemRaceOff(f) ==
  \/ runState[f] = Parked /\ readyLinks[f] = 0 /\ (Undecided(f) <=> ~Owed(f))
  \/ runState[f] = Running /\ readyLinks[f] = 1 /\ ~Undecided(f) /\ ~Owed(f)

SemRace ==
  /\ \A f \in Freds :
       /\ pc[f] \in {"suspend", "switch"} => SemRaceRunning(f)
       /\ pc[f] = "off" => SemRaceOff(f)
       /\ pc[f] \notin {"suspend", "switch", "off"}
            => runState[f] = Running /\ readyLinks[f] = 0 /\ ~Owed(f)
       /\ pc[f] = "resumed" => ~Undecided(f)
       /\ pending[f] # Null => pc[f] = "wake"
  /\ \A r, s \in Resumers : pending[r] = pending[s] => r = s \/ pending[r] = Null

\* SimpleMutex0: the benaphore counts the freds inside, and one of them, or
\* the V() that is about to pick one, has the permit.
Inside == {f \in Freds : pc[f] \in {"semP", "held", "V"} \cup SemWait}
Permit == {f \in Freds : pc[f] \in {"semV", "held", "V"} \/ Popped(f)}
SimpleInv ==
  /\ \A f \in Freds : pc[f] \notin {"retry", "undo"}
  /\ ben = 1 - Cardinality(Inside)
  /\ \A f, g \in Permit : f = g
  /\ Permit = {} <=> Inside = {}
  /\ \A f \in Freds : pc[f] = "held" => owner = f

\* SpinSemMutex: whoever waits is covered by a permit, by a V() on its way or
\* by the benaphore; while the benaphore is taken, somebody is about to find
\* out that it must release it, or there is a permit to take.
SemWaiters == {f \in Freds : pc[f] \in {"semP", "undo"} \/ Queued(f)}
SemPosts == {f \in Freds : pc[f] = "semV"}
Active(f) == pc[f] \in {"retry", "held", "V", "semV"} \/ Popped(f)
SpinSemInv ==
  /\ Cardinality(SemWaiters) <= Cardinality(SemPosts) + semCount + (IF ben < 0 THEN -ben ELSE 0)
  /\ ben <= 0 => semCount > 0 \/ \E f \in Freds : Active(f)
  /\ \A f \in Freds : owner = f <=> pc[f] = "held"

SemInv ==
  /\ SemTypeOK
  /\ SemNodes
  /\ SemRace
  /\ kind = "simple" => SimpleInv
  /\ kind # "simple" => SpinSemInv

\* What the three mutexes have in common.
SemLib == SemTypeOK /\ SemNodes /\ SemRace

\* What the invariant says of the sets of freds in use.
LEMMA SemFacts ==
  /\ Null \notin Freds /\ Timer \notin Freds /\ Timer # Null
  /\ IsFiniteSet(Freds)
  BY FredAssumption, RWAssumption

\* A fred leaves or joins a finite set of freds.
LEMMA SemCount ==
  ASSUME NEW X, X \subseteq Freds
  PROVE  /\ IsFiniteSet(X) /\ Cardinality(X) \in Nat
         /\ Cardinality(X) = 0 <=> X = {}
         /\ \A x : x \notin X => Cardinality(X \cup {x}) = Cardinality(X) + 1
         /\ \A x \in X : Cardinality(X \ {x}) = Cardinality(X) - 1
<1>1. IsFiniteSet(X)
  BY SemFacts, FS_Subset
<1> QED BY <1>1, FS_CardinalityType, FS_EmptySet, FS_AddElement, FS_RemoveElement

\* A fred outside the wait goes on: nothing changes for the others.
LEMMA SemMoves ==
  ASSUME SemLib, NEW f \in Freds,
         NEW to \in {"idle", "P", "semP", "undo", "retry", "held", "V", "semV"},
         pc[f] \notin {"suspend", "switch", "off", "wake"}, ~Queued(f),
         pc' = [pc EXCEPT ![f] = to],
         UNCHANGED <<raceVars, kind, semQueue>>,
         ben' \in Int, ben' <= 1, semCount' \in Nat,
         kind # "locked" => semCount' = 0,
         semCount' > 0 => \A g \in Freds : ~Undecided(g),
         owner' \in Freds \cup {Null},
         timed' \in [Freds -> BOOLEAN],
         kind # "locked" => \A g \in Freds : ~timed'[g]
  PROVE  /\ SemLib'
         /\ \A g \in Freds : (Queued(g)' <=> Queued(g)) /\ pc'[g] = IF g = f THEN to ELSE pc[g]
<1> USE DEF raceVars
<1>1. /\ \A g \in Freds : (Queued(g)' <=> Queued(g)) /\ (Undecided(g)' <=> Undecided(g))
      /\ \A g \in Freds : Owed(g)' <=> Owed(g)
  BY DEF Queued, Undecided, CanWin, Owed
<1>2. /\ \A g \in Freds : pc'[g] = IF g = f THEN to ELSE pc[g]
      /\ pc[f] \in {"idle", "P", "semP", "undo", "retry", "held", "V", "semV", "resumed"}
  BY DEF SemLib, SemTypeOK
<1>3. SemTypeOK'
  BY DEF SemLib, SemTypeOK
<1>4. SemNodes'
  <2>1. \A g \in Freds : Popped(g)' => Popped(g)
    BY <1>1, <1>2 DEF Popped, SemWait
  <2> QED BY <1>1, <1>2, <2>1 DEF SemLib, SemNodes, SemWait
<1>5. SemRace'
  <2>1. pending[f] = Null
    BY DEF SemLib, SemRace
  <2>2. \A g \in Freds :
          /\ SemRaceRunning(g)' <=> SemRaceRunning(g)
          /\ SemRaceOff(g)' <=> SemRaceOff(g)
    BY <1>1 DEF SemRaceRunning, SemRaceOff
  <2> QED BY <1>1, <1>2, <2>1, <2>2 DEF SemLib, SemRace
<1> QED BY <1>1, <1>2, <1>3, <1>4, <1>5 DEF SemLib

\* Only a fred that waits is in the queue.
LEMMA SemNotQueued ==
  ASSUME SemLib, NEW f \in Freds, pc[f] \notin SemWait
  PROVE  ~Queued(f)
  BY DEF SemLib, SemNodes

\* P() of the semaphore queues the fred.
LEMMA SemQueues ==
  ASSUME SemLib, NEW f \in Freds, pc[f] = "semP", semCount = 0,
         semQueue' = Append(semQueue, f), PrepareResumeRace(f),
         pc' = [pc EXCEPT ![f] = "suspend"],
         UNCHANGED <<runState, readyLinks, pending, semCount, kind, ben, owner, timed>>
  PROVE  /\ SemLib'
         /\ \A g \in Freds : /\ Queued(g)' <=> Queued(g) \/ g = f
                             /\ pc'[g] = IF g = f THEN "suspend" ELSE pc[g]
<1> USE DEF PrepareResumeRace
<1>0. ~Queued(f)
  BY SemNotQueued DEF SemWait
<1>1. /\ semQueue' \in Seq(Freds) /\ IsInjective(semQueue')
      /\ \A g \in Freds : Queued(g)' <=> Queued(g) \/ g = f
  BY <1>0, AppendDistinct DEF SemLib, SemTypeOK, SemNodes, Queued
<1>2. \A g \in Freds : /\ pc'[g] = IF g = f THEN "suspend" ELSE pc[g]
                       /\ resumeInfo'[g] = IF g = f THEN Null ELSE resumeInfo[g]
                       /\ Owed(g)' <=> Owed(g)
  BY DEF SemLib, SemTypeOK, Owed
<1>3. \A g \in Freds : Undecided(g)' <=> Undecided(g) \/ g = f
  BY <1>0, <1>1, <1>2 DEF Undecided, CanWin
<1>4. SemTypeOK'
  BY <1>1 DEF SemLib, SemTypeOK
<1>5. SemNodes'
  <2>1. \A g \in Freds : Popped(g)' => Popped(g)
    BY <1>1, <1>2 DEF Popped, SemWait
  <2>2. \A g \in Freds : Queued(g)' => pc'[g] \in SemWait /\ resumeInfo'[g] \in {Null, Timer}
    BY <1>1, <1>2 DEF SemLib, SemNodes, SemWait
  <2>3. \A g \in Freds : Popped(g)' => resumeInfo'[g] # Timer
    BY <1>2, <2>1, SemFacts DEF SemLib, SemNodes
  <2> QED BY <1>1, <1>2, <2>2, <2>3 DEF SemLib, SemTypeOK, SemNodes
<1>6. SemRace'
  <2>1. \A g \in Freds \ {f} :
          /\ SemRaceRunning(g)' <=> SemRaceRunning(g)
          /\ SemRaceOff(g)' <=> SemRaceOff(g)
    BY <1>2, <1>3 DEF SemRaceRunning, SemRaceOff
  <2>2. pending[f] = Null
    BY DEF SemLib, SemRace
  <2>3. runState[f] = Running /\ readyLinks[f] = 0 /\ ~Owed(f)
    BY DEF SemLib, SemRace
  <2>4. SemRaceRunning(f)'
    BY <1>2, <1>3, <2>3 DEF SemRaceRunning
  <2> QED BY <1>2, <1>3, <2>1, <2>2, <2>3, <2>4 DEF SemLib, SemRace
<1> QED BY <1>1, <1>2, <1>4, <1>5, <1>6 DEF SemLib

\* The timer wins a timed waiter.
LEMMA SemExpireLib ==
  ASSUME SemLib, NEW f \in Freds, SemExpire(f)
  PROVE  /\ SemLib' /\ pc' = pc /\ semQueue' = semQueue
         /\ UNCHANGED <<kind, ben, semCount, owner>> /\ kind = "locked"
<1> USE DEF SemExpire, RaceResume, semVars
<1>1. /\ \A g \in Freds : Queued(g)' <=> Queued(g)
      /\ \A g \in Freds : resumeInfo'[g] = IF g = f THEN Timer ELSE resumeInfo[g]
      /\ Undecided(f)
  BY DEF SemLib, SemTypeOK, Queued, Undecided
<1>2. \A g \in Freds : Undecided(g)' <=> Undecided(g) /\ g # f
  BY <1>1, SemFacts DEF Undecided, CanWin
<1>3. \A g \in Freds : Owed(g)' <=> Owed(g) \/ g = f
  BY OwedAfterWin DEF SemLib, SemTypeOK, Resumers
<1>4. SemTypeOK'
  BY DEF SemLib, SemTypeOK, Resumers
<1>5. kind = "locked"
  BY DEF SemLib, SemNodes
<1>6. SemNodes'
  <2>1. \A g \in Freds : Popped(g)' <=> Popped(g)
    BY <1>1 DEF Popped
  <2>2. ~Popped(f)
    BY <1>1 DEF Popped, Undecided
  <2> QED BY <1>1, <1>2, <1>5, <2>1, <2>2 DEF SemLib, SemNodes
<1>7. SemRace'
  <2>1. pc[f] \in SemWait /\ pc[f] # "resumed"
    BY <1>1 DEF SemLib, SemNodes, SemRace, Undecided
  <2>2. ~Owed(f)
    <3>1. CASE pc[f] = "off"
      BY <1>1, <3>1 DEF SemLib, SemRace, SemRaceOff
    <3>2. CASE pc[f] # "off"
      BY <1>1, <2>1, <3>2 DEF SemLib, SemRace, SemRaceRunning, SemWait
    <3> QED BY <3>1, <3>2
  <2>3. \A g \in Freds : /\ SemRaceRunning(g) => SemRaceRunning(g)'
                         /\ SemRaceOff(g) => SemRaceOff(g)'
    BY <1>1, <1>2, <1>3, <2>2 DEF SemRaceRunning, SemRaceOff
  <2>4. \A g \in Freds : pending'[g] = pending[g]
    BY SemFacts DEF SemLib, SemTypeOK, Resumers
  <2>5. \A g \in Freds : pc[g] \notin {"suspend", "switch", "off"} => ~Owed(g)'
    BY <1>3, <2>1 DEF SemLib, SemRace, SemWait
  <2>6. \A r, s \in Resumers : pending'[r] = pending'[s] => r = s \/ pending'[r] = Null
    <3>1. \A r \in Resumers : pending[r] # f
      BY <2>2 DEF Owed
    <3>2. \A r \in Resumers : pending'[r] = IF r = Timer THEN f ELSE pending[r]
      BY DEF SemLib, SemTypeOK, Resumers
    <3> QED BY <3>1, <3>2 DEF SemLib, SemRace
  <2>7. \A g \in Freds : pc[g] = "resumed" => ~Undecided(g)'
    BY <1>2 DEF SemLib, SemRace
  <2> QED BY <2>3, <2>4, <2>5, <2>6, <2>7 DEF SemLib, SemRace
<1> QED BY <1>4, <1>5, <1>6, <1>7 DEF SemLib

\* resume() of the fred that r has won, by the timer or by V().
LEMMA SemResumes ==
  ASSUME SemLib, NEW r \in Resumers, Resume(r), UNCHANGED semVars,
         \/ r = Timer /\ pc' = pc
         \/ r \in Freds /\ pc[r] = "wake" /\ pc' = [pc EXCEPT ![r] = "idle"]
  PROVE  /\ SemLib' /\ semQueue' = semQueue
         /\ \A g \in Freds : pc'[g] = pc[g] \/ (pc[g] = "wake" /\ pc'[g] = "idle")
<1> USE DEF Resume, semVars
<1>a. PICK f \in Freds : f = pending[r]
  BY DEF SemLib, SemTypeOK
<1>0. f = pending[r] /\ resumeInfo' = resumeInfo /\ Owed(f)
  BY <1>a DEF Owed
<1>1. /\ \A g \in Freds : pc'[g] = pc[g] \/ (g = r /\ pc[g] = "wake" /\ pc'[g] = "idle")
      /\ \A g \in Freds : (Queued(g)' <=> Queued(g)) /\ (Undecided(g)' <=> Undecided(g))
      /\ pc' \in [Freds -> {"idle", "P", "semP", "suspend", "switch", "off", "resumed", "undo",
                            "retry", "held", "V", "semV", "wake"}]
  BY <1>0 DEF SemLib, SemTypeOK, Queued, Undecided, CanWin
<1>2. \A s \in Resumers : pending'[s] = IF s = r THEN Null ELSE pending[s]
  BY DEF SemLib, SemTypeOK
<1>3. \A g \in Freds : Owed(g)' <=> Owed(g) /\ g # f
  <2>1. \A s \in Resumers : pending[s] = f => s = r
    BY <1>0, SemFacts DEF SemLib, SemRace
  <2> QED BY <1>0, <1>2, <2>1, SemFacts DEF Owed
<1>4. pc[f] \in {"suspend", "switch", "off"} /\ pc'[f] = pc[f] /\ ~Undecided(f)
  <2>1. pc[f] \in {"suspend", "switch", "off"}
    BY <1>0 DEF SemLib, SemRace
  <2>2. pc[f] = "off" => ~Undecided(f)
    BY <1>0 DEF SemLib, SemRace, SemRaceOff
  <2>3. pc[f] # "off" => ~Undecided(f)
    BY <1>0, <2>1 DEF SemLib, SemRace, SemRaceRunning
  <2> QED BY <1>0, <1>1, <2>1, <2>2, <2>3
<1>5. /\ runState[f] \in {Parked, Running} /\ readyLinks[f] = 0
      /\ pc[f] # "off" => runState[f] = Running
      /\ pc[f] = "off" => runState[f] = Parked
  <2>1. CASE pc[f] = "off"
    BY <1>0, <2>1 DEF SemLib, SemRace, SemRaceOff
  <2>2. CASE pc[f] # "off"
    BY <1>0, <1>4, <2>2 DEF SemLib, SemRace, SemRaceRunning
  <2> QED BY <2>1, <2>2
<1>6. /\ runState' \in [Freds -> 0 .. 2] /\ readyLinks' \in [Freds -> 0 .. 1]
      /\ \A g \in Freds \ {f} : runState'[g] = runState[g] /\ readyLinks'[g] = readyLinks[g]
      /\ runState'[f] = runState[f] + 1
      /\ readyLinks'[f] = IF pc[f] = "off" THEN 1 ELSE 0
  BY <1>0, <1>5 DEF SemLib, SemTypeOK, ResumeInternal, Parked, Running
<1>7. SemTypeOK'
  BY <1>0, <1>1, <1>6 DEF SemLib, SemTypeOK
<1>8. SemNodes'
  <2>1. \A g \in Freds : (Popped(g)' <=> Popped(g)) /\ (pc[g] \in SemWait <=> pc'[g] \in SemWait)
    BY <1>1 DEF Popped, SemWait
  <2> QED BY <1>0, <1>1, <2>1 DEF SemLib, SemNodes
<1>9. SemRace'
  <2>1. \A g \in Freds \ {f} : /\ SemRaceRunning(g)' <=> SemRaceRunning(g)
                               /\ SemRaceOff(g)' <=> SemRaceOff(g)
    BY <1>1, <1>3, <1>6 DEF SemRaceRunning, SemRaceOff
  <2>2. /\ pc[f] # "off" => SemRaceRunning(f)'
        /\ pc[f] = "off" => SemRaceOff(f)'
    BY <1>0, <1>1, <1>3, <1>4, <1>5, <1>6
       DEF SemRaceRunning, SemRaceOff, Parked, Running, ResumedEarly
  <2>3. \A g \in Freds :
          /\ pc'[g] \in {"suspend", "switch"} => SemRaceRunning(g)'
          /\ pc'[g] = "off" => SemRaceOff(g)'
    BY <1>0, <1>1, <1>4, <2>1, <2>2 DEF SemLib, SemRace
  <2>4. \A g \in Freds :
          pc'[g] \notin {"suspend", "switch", "off"}
            => runState'[g] = Running /\ readyLinks'[g] = 0 /\ ~Owed(g)'
    BY <1>1, <1>3, <1>4, <1>6 DEF SemLib, SemRace
  <2>5. \A g \in Freds : /\ pc'[g] = "resumed" => ~Undecided(g)'
                         /\ pending'[g] # Null => pc'[g] = "wake"
    BY <1>1, <1>2 DEF SemLib, SemRace, Resumers
  <2>6. \A p, s \in Resumers : pending'[p] = pending'[s] => p = s \/ pending'[p] = Null
    BY <1>2 DEF SemLib, SemRace
  <2> QED BY <2>3, <2>4, <2>5, <2>6 DEF SemRace
<1> QED BY <1>1, <1>7, <1>8, <1>9 DEF SemLib

\* A fred takes a step of the suspend/resume protocol.
LEMMA SemFredStep ==
  ASSUME SemLib, NEW f \in Freds, FredStep(f), UNCHANGED semVars
  PROVE  /\ SemLib' /\ semQueue' = semQueue
         /\ \A g \in Freds : pc'[g] = pc[g] \/ (pc[g] \in SemWait /\ pc'[g] \in SemWait)
<1> USE DEF semVars
<1>0. /\ pending' = pending /\ resumeInfo' = resumeInfo
      /\ pc[f] \in {"suspend", "switch", "off"}
      /\ \E l \in {"switch", "off", "resumed"} : pc' = [pc EXCEPT ![f] = l]
  BY DEF FredStep, SuspendSkip, SuspendInternal, PostSuspend, Dispatch
<1>1. /\ \A g \in Freds : (Queued(g)' <=> Queued(g)) /\ (Undecided(g)' <=> Undecided(g))
      /\ \A g \in Freds : Owed(g)' <=> Owed(g)
      /\ \A g \in Freds \ {f} : pc'[g] = pc[g]
      /\ pc'[f] \in {"switch", "off", "resumed"}
      /\ pc' \in [Freds -> {"idle", "P", "semP", "suspend", "switch", "off", "resumed", "undo",
                            "retry", "held", "V", "semV", "wake"}]
  BY <1>0 DEF SemLib, SemTypeOK, Queued, Undecided, CanWin, Owed
<1>2. /\ runState' \in [Freds -> 0 .. 2] /\ readyLinks' \in [Freds -> 0 .. 1]
      /\ \A g \in Freds \ {f} : runState'[g] = runState[g] /\ readyLinks'[g] = readyLinks[g]
      /\ pc'[f] = "switch" => SemRaceRunning(f)'
      /\ pc'[f] = "off" => SemRaceOff(f)'
      /\ pc'[f] = "resumed"
           => runState'[f] = Running /\ readyLinks'[f] = 0 /\ ~Owed(f)' /\ ~Undecided(f)'
  <2>0. /\ runState \in [Freds -> 0 .. 2] /\ readyLinks \in [Freds -> 0 .. 1]
        /\ pc \in [Freds -> {"idle", "P", "semP", "suspend", "switch", "off", "resumed", "undo",
                             "retry", "held", "V", "semV", "wake"}]
        /\ pc[f] \in {"suspend", "switch"} => SemRaceRunning(f)
        /\ pc[f] = "off" => SemRaceOff(f)
    BY DEF SemLib, SemTypeOK, SemRace
  <2> USE DEF Parked, Running, ResumedEarly
  <2>1. CASE SuspendSkip(f)
    BY <1>1, <2>0, <2>1 DEF SuspendSkip, SemRaceRunning
  <2>2. CASE SuspendInternal(f)
    BY <1>1, <2>0, <2>2 DEF SuspendInternal, SemRaceRunning
  <2>3. CASE PostSuspend(f)
    BY <1>1, <2>0, <2>3 DEF PostSuspend, ResumeInternal, SemRaceRunning, SemRaceOff
  <2>4. CASE Dispatch(f)
    BY <1>1, <2>0, <2>4 DEF Dispatch, SemRaceOff
  <2> QED BY <2>1, <2>2, <2>3, <2>4 DEF FredStep
<1>3. SemTypeOK'
  BY <1>0, <1>1, <1>2 DEF SemLib, SemTypeOK
<1>4. SemNodes'
  <2>1. \A g \in Freds : (Popped(g)' <=> Popped(g)) /\ (pc[g] \in SemWait <=> pc'[g] \in SemWait)
    BY <1>0, <1>1 DEF Popped, SemWait
  <2> QED BY <1>0, <1>1, <2>1 DEF SemLib, SemNodes
<1>5. SemRace'
  <2>1. \A g \in Freds \ {f} : /\ SemRaceRunning(g)' <=> SemRaceRunning(g)
                               /\ SemRaceOff(g)' <=> SemRaceOff(g)
    BY <1>1, <1>2 DEF SemRaceRunning, SemRaceOff
  <2>2. pending[f] = Null
    BY <1>0 DEF SemLib, SemRace
  <2> QED BY <1>0, <1>1, <1>2, <2>1, <2>2 DEF SemLib, SemRace
<1>6. \A g \in Freds : pc'[g] = pc[g] \/ (pc[g] \in SemWait /\ pc'[g] \in SemWait)
  BY <1>0, <1>1 DEF SemWait
<1> QED BY <1>3, <1>4, <1>5, <1>6 DEF SemLib

\* A waiter that the timer has woken takes its node out of the queue.
LEMMA SemLeaves ==
  ASSUME SemLib, NEW f \in Freds, pc[f] = "resumed", resumeInfo[f] = Timer,
         pc' = [pc EXCEPT ![f] = "undo"],
         NEW i \in DOMAIN semQueue, semQueue[i] = f, semQueue' = RemoveAt(semQueue, i),
         UNCHANGED <<raceVars, kind, ben, semCount, owner, timed>>
  PROVE  /\ SemLib' /\ Queued(f)
         /\ \A g \in Freds : /\ Queued(g)' <=> Queued(g) /\ g # f
                             /\ pc'[g] = IF g = f THEN "undo" ELSE pc[g]
<1> USE DEF raceVars
<1>1. /\ semQueue' \in Seq(Freds) /\ IsInjective(semQueue')
      /\ \A g \in Freds : Queued(g)' <=> Queued(g) /\ g # f
  BY RemoveAtDistinct DEF SemLib, SemTypeOK, SemNodes, Queued
<1>2. Queued(f)
  BY SemFacts DEF SemLib, SemNodes, Popped, SemWait
<1>3. \A g \in Freds : /\ pc'[g] = IF g = f THEN "undo" ELSE pc[g]
                       /\ Owed(g)' <=> Owed(g)
  BY DEF SemLib, SemTypeOK, Owed
<1>4. \A g \in Freds : Undecided(g)' <=> Undecided(g)
  BY <1>1, SemFacts DEF Undecided, CanWin
<1>5. SemTypeOK'
  BY <1>1 DEF SemLib, SemTypeOK
<1>6. SemNodes'
  <2>1. \A g \in Freds : Popped(g)' => Popped(g)
    BY <1>1, <1>3 DEF Popped, SemWait
  <2> QED BY <1>1, <1>3, <1>4, <2>1 DEF SemLib, SemNodes
<1>7. SemRace'
  <2>1. \A g \in Freds :
          /\ SemRaceRunning(g)' <=> SemRaceRunning(g)
          /\ SemRaceOff(g)' <=> SemRaceOff(g)
    BY <1>3, <1>4 DEF SemRaceRunning, SemRaceOff
  <2>2. pending[f] = Null
    BY DEF SemLib, SemRace
  <2> QED BY <1>3, <1>4, <2>1, <2>2 DEF SemLib, SemRace
<1> QED BY <1>1, <1>2, <1>3, <1>5, <1>6, <1>7 DEF SemLib

\* V() of the semaphore takes the first waiter that it can win.
LEMMA SemPops ==
  ASSUME SemLib, NEW f \in Freds, pc[f] = "semV",
         NEW i \in DOMAIN semQueue, CanWin(semQueue[i]),
         IF kind = "locked" THEN RaceResume(semQueue[i], f) ELSE UNCHANGED resumeInfo,
         pending' = [pending EXCEPT ![f] = semQueue[i]],
         semQueue' = RemoveAt(semQueue, i),
         pc' = [pc EXCEPT ![f] = "wake"],
         UNCHANGED <<runState, readyLinks, kind, ben, semCount, owner, timed>>
  PROVE  /\ SemLib'
         /\ \E h \in Freds \ {f} :
              /\ Queued(h) /\ pc[h] \in SemWait
              /\ \A g \in Freds : /\ Queued(g)' <=> Queued(g) /\ g # h
                                  /\ pc'[g] = IF g = f THEN "wake" ELSE pc[g]
<1> DEFINE h == semQueue[i]
<1>1. /\ semQueue' \in Seq(Freds) /\ IsInjective(semQueue')
      /\ \A g \in Freds : Queued(g)' <=> Queued(g) /\ g # h
  BY RemoveAtDistinct DEF SemLib, SemTypeOK, SemNodes, Queued
<1>2. h \in Freds /\ Queued(h)
  BY ElementOfSeq, LenProperties DEF SemLib, SemTypeOK, Queued, Contains
<1>3. Undecided(h) /\ pc[h] \in {"suspend", "switch", "off"} /\ h # f
  BY <1>2 DEF Undecided, SemLib, SemNodes, SemRace, SemWait
<1> HIDE DEF h
<1>4. /\ \A g \in Freds : pc'[g] = IF g = f THEN "wake" ELSE pc[g]
      /\ \A g \in Freds \ {h} : resumeInfo'[g] = resumeInfo[g]
      /\ resumeInfo'[h] # Timer /\ resumeInfo' \in [Freds -> Freds \cup {Null, Timer}]
      /\ kind # "locked" => resumeInfo' = resumeInfo
  BY <1>2, <1>3, SemFacts DEF SemLib, SemTypeOK, RaceResume, Undecided, CanWin, h
<1>5. \A g \in Freds : Undecided(g)' <=> Undecided(g) /\ g # h
  BY <1>1, <1>4 DEF Undecided, CanWin
<1>6. pending[f] = Null /\ \A g \in Freds : Owed(g)' <=> Owed(g) \/ g = h
  <2>1. pending[f] = Null
    BY DEF SemLib, SemRace
  <2> QED BY <1>2, <2>1, OwedAfterWin DEF SemLib, SemTypeOK, Resumers, h
<1>7. SemTypeOK'
  BY <1>1, <1>2, <1>4 DEF SemLib, SemTypeOK, h
<1>8. SemNodes'
  <2>1. \A g \in Freds : Popped(g)' => Popped(g) \/ g = h
    BY <1>1, <1>4 DEF Popped, SemWait
  <2>2. \A g \in Freds : Popped(g)' => resumeInfo'[g] # Timer
    BY <1>4, <2>1 DEF SemLib, SemNodes
  <2>3. \A g \in Freds : Queued(g)' => pc'[g] \in SemWait /\ resumeInfo'[g] \in {Null, Timer}
    BY <1>1, <1>4 DEF SemLib, SemNodes, SemWait
  <2>4. \A g \in Freds : kind' # "locked" => ~timed'[g] /\ resumeInfo'[g] = Null
    BY <1>4 DEF SemLib, SemNodes
  <2>5. /\ kind' # "locked" => semCount' = 0
        /\ semCount' > 0 => \A g \in Freds : ~Undecided(g)'
    BY <1>5 DEF SemLib, SemNodes
  <2> QED BY <1>1, <2>2, <2>3, <2>4, <2>5 DEF SemNodes
<1>9. SemRace'
  <2>1. ~Owed(h)
    <3>1. CASE pc[h] = "off"
      BY <1>2, <1>3, <3>1 DEF SemLib, SemRace, SemRaceOff
    <3>2. CASE pc[h] # "off"
      BY <1>2, <1>3, <3>2 DEF SemLib, SemRace, SemRaceRunning
    <3> QED BY <3>1, <3>2
  <2>2. \A g \in Freds : /\ SemRaceRunning(g) => SemRaceRunning(g)'
                         /\ SemRaceOff(g) => SemRaceOff(g)'
    BY <1>3, <1>5, <1>6, <2>1 DEF SemRaceRunning, SemRaceOff
  <2>3. \A s \in Resumers : pending'[s] = IF s = f THEN h ELSE pending[s]
    BY DEF SemLib, SemTypeOK, Resumers, h
  <2>4. \A r, s \in Resumers : pending'[r] = pending'[s] => r = s \/ pending'[r] = Null
    <3>1. \A r \in Resumers : pending[r] # h
      BY <2>1 DEF Owed
    <3> QED BY <2>3, <3>1 DEF SemLib, SemRace
  <2>5. \A g \in Freds : pc'[g] \notin {"suspend", "switch", "off"} => ~Owed(g)'
    BY <1>3, <1>4, <1>6 DEF SemLib, SemRace
  <2>6. \A g \in Freds : pending'[g] # Null => pc'[g] = "wake"
    BY <1>4, <2>3 DEF SemLib, SemRace, Resumers
  <2>7. \A g \in Freds : pc'[g] = "resumed" => ~Undecided(g)'
    BY <1>4, <1>5 DEF SemLib, SemRace
  <2> QED BY <1>4, <2>2, <2>4, <2>5, <2>6, <2>7 DEF SemLib, SemRace
<1>10. pc[h] \in SemWait
  BY <1>3 DEF SemWait
<1> QED BY <1>1, <1>2, <1>3, <1>4, <1>7, <1>8, <1>9, <1>10 DEF SemLib

\* A step that leaves the counters, the queue and the callers where they are.
LEMMA SemQuiet ==
  ASSUME UNCHANGED <<ben, semCount, owner>>,
         \A g \in Freds : Queued(g)' <=> Queued(g),
         \A g \in Freds : \/ pc'[g] = pc[g]
                          \/ pc[g] \in SemWait /\ pc'[g] \in SemWait
                          \/ pc[g] = "wake" /\ pc'[g] = "idle"
  PROVE  (SimpleInv => SimpleInv') /\ (SpinSemInv => SpinSemInv')
<1>1. \A g \in Freds :
        /\ Popped(g)' <=> Popped(g)
        /\ pc[g] \notin SemWait \cup {"wake", "idle"} => pc'[g] = pc[g]
        /\ pc'[g] \notin SemWait \cup {"idle"} => pc'[g] = pc[g]
        /\ pc'[g] \in SemWait <=> pc[g] \in SemWait
  BY DEF Popped, SemWait
<1>2. Inside' = Inside /\ Permit' = Permit
  BY <1>1 DEF Inside, Permit, SemWait
<1>3. SemWaiters' = SemWaiters /\ SemPosts' = SemPosts /\ \A g \in Freds : Active(g)' <=> Active(g)
  BY <1>1 DEF SemWaiters, SemPosts, Active, SemWait
<1>4. \A g \in Freds : /\ pc'[g] \in {"retry", "undo"} => pc[g] \in {"retry", "undo"}
                       /\ pc'[g] = "held" <=> pc[g] = "held"
  BY <1>1 DEF SemWait
<1>5. SimpleInv => SimpleInv'
  BY <1>2, <1>4 DEF SimpleInv
<1>6. SpinSemInv => SpinSemInv'
  BY <1>3, <1>4 DEF SpinSemInv
<1> QED BY <1>5, <1>6

\* The sets are sets of freds, and their sizes are numbers.
LEMMA SemSizes ==
  /\ Cardinality(SemWaiters) \in Nat /\ Cardinality(SemPosts) \in Nat /\ Cardinality(Inside) \in Nat
  /\ SemWaiters \subseteq Freds /\ SemPosts \subseteq Freds /\ Inside \subseteq Freds
  /\ Permit \subseteq Freds
<1>1. /\ SemWaiters \subseteq Freds /\ SemPosts \subseteq Freds /\ Inside \subseteq Freds
      /\ Permit \subseteq Freds
  BY DEF SemWaiters, SemPosts, Inside, Permit
<1> QED BY <1>1, SemCount

\* What the counts are worth when a fred moves from one set to another.
LEMMA SpinSemCounts ==
  ASSUME SemTypeOK, SpinSemInv, ben' \in Int, semCount' \in Nat,
         NEW dw \in -1 .. 1, NEW dp \in -1 .. 1,
         Cardinality(SemWaiters)' = Cardinality(SemWaiters) + dw,
         Cardinality(SemPosts)' = Cardinality(SemPosts) + dp,
         dw + semCount + (IF ben < 0 THEN -ben ELSE 0)
           <= dp + semCount' + (IF ben' < 0 THEN -ben' ELSE 0),
         ben' <= 0 => semCount' > 0 \/ \E f \in Freds : Active(f)',
         \A f \in Freds : owner' = f <=> pc'[f] = "held"
  PROVE  SpinSemInv'
<1>1. /\ Cardinality(SemWaiters)' \in Nat /\ Cardinality(SemPosts)' \in Nat
      /\ Cardinality(SemWaiters) \in Nat /\ Cardinality(SemPosts) \in Nat
      /\ ben \in Int /\ semCount \in Nat
  <2>1. Cardinality(SemWaiters) \in Nat /\ Cardinality(SemPosts) \in Nat
    BY SemSizes
  <2>2. SemWaiters' \subseteq Freds /\ SemPosts' \subseteq Freds
    BY DEF SemWaiters, SemPosts
  <2> QED BY <2>1, <2>2, SemCount DEF SemTypeOK
<1> DEFINE n == IF ben < 0 THEN -ben ELSE 0
           m == IF ben' < 0 THEN -ben' ELSE 0
           w == Cardinality(SemWaiters)
           p == Cardinality(SemPosts)
<1>2. n \in Int /\ m \in Int /\ w \in Int /\ p \in Int /\ dw \in Int /\ dp \in Int
  <2>1. n \in Int /\ m \in Int
    BY <1>1
  <2>2. w \in Int /\ p \in Int
    BY <1>1
  <2>3. dw \in Int /\ dp \in Int
    OBVIOUS
  <2> QED BY <2>1, <2>2, <2>3
<1>3. w <= p + semCount + n
  BY DEF SpinSemInv
<1>4. dw + semCount + n <= dp + semCount' + m
  OBVIOUS
<1> HIDE DEF n, m, w, p
<1>5. w + dw <= (p + dp) + semCount' + m
  <2> DEFINE c == semCount
             k == semCount'
  <2>1. c \in Int /\ k \in Int
    BY <1>1
  <2>2. w <= p + c + n /\ dw + c + n <= dp + k + m
    BY <1>3, <1>4
  <2> HIDE DEF c, k
  <2>3. w + dw <= (p + dp) + k + m
    BY <1>2, <2>1, <2>2
  <2> QED BY <2>3 DEF k
<1>6. Cardinality(SemWaiters)' <= Cardinality(SemPosts)' + semCount' + m
  BY <1>5 DEF w, p
<1> QED BY <1>6 DEF SpinSemInv, m

\* The set of the places that fred f moves between.
LEMMA SemSetMoves ==
  ASSUME NEW X, X \subseteq Freds, NEW Y, NEW f \in Freds, NEW d \in -1 .. 1,
         \/ d = 0 /\ Y = X
         \/ d = 1 /\ f \notin X /\ Y = X \cup {f}
         \/ d = -1 /\ f \in X /\ Y = X \ {f}
  PROVE  Cardinality(Y) = Cardinality(X) + d
<1>1. /\ Cardinality(X) \in Nat
      /\ \A x : x \notin X => Cardinality(X \cup {x}) = Cardinality(X) + 1
      /\ \A x \in X : Cardinality(X \ {x}) = Cardinality(X) - 1
  BY SemCount
<1>2. CASE d = 0 /\ Y = X
  BY <1>1, <1>2
<1>3. CASE d = 1 /\ f \notin X /\ Y = X \cup {f}
  BY <1>1, <1>3
<1>4. CASE d = -1 /\ f \in X /\ Y = X \ {f}
  BY <1>1, <1>4
<1> QED BY <1>2, <1>3, <1>4

\* What a label counts for among the waiters and the posts.
WaitsAt(l) == IF l \in {"semP", "undo"} THEN 1 ELSE 0
PostsAt(l) == IF l = "semV" THEN 1 ELSE 0

\* A fred outside the queue goes on, in a mutex that is no SimpleMutex0.
LEMMA SpinSemMoves ==
  ASSUME SemTypeOK, SpinSemInv, NEW f \in Freds, NEW to, ~Queued(f),
         \A g \in Freds : (Queued(g)' <=> Queued(g)) /\ pc'[g] = IF g = f THEN to ELSE pc[g],
         ben' \in Int, semCount' \in Nat,
         (WaitsAt(to) - WaitsAt(pc[f])) + semCount + (IF ben < 0 THEN -ben ELSE 0)
           <= (PostsAt(to) - PostsAt(pc[f])) + semCount' + (IF ben' < 0 THEN -ben' ELSE 0),
         ben' <= 0 => semCount' > 0 \/ \E g \in Freds : Active(g)',
         \A g \in Freds : owner' = g <=> pc'[g] = "held"
  PROVE  SpinSemInv'
<1> DEFINE dw == WaitsAt(to) - WaitsAt(pc[f])
           dp == PostsAt(to) - PostsAt(pc[f])
<1>1. dw \in -1 .. 1 /\ dp \in -1 .. 1
  BY DEF WaitsAt, PostsAt
<1>2. Cardinality(SemWaiters') = Cardinality(SemWaiters) + dw
  <2>1. \/ dw = 0 /\ SemWaiters' = SemWaiters
        \/ dw = 1 /\ f \notin SemWaiters /\ SemWaiters' = SemWaiters \cup {f}
        \/ dw = -1 /\ f \in SemWaiters /\ SemWaiters' = SemWaiters \ {f}
    BY DEF SemWaiters, WaitsAt
  <2> HIDE DEF dw, dp
  <2> QED BY <1>1, <2>1, SemSizes, SemSetMoves
<1>3. Cardinality(SemPosts') = Cardinality(SemPosts) + dp
  <2>1. \/ dp = 0 /\ SemPosts' = SemPosts
        \/ dp = 1 /\ f \notin SemPosts /\ SemPosts' = SemPosts \cup {f}
        \/ dp = -1 /\ f \in SemPosts /\ SemPosts' = SemPosts \ {f}
    BY DEF SemPosts, PostsAt
  <2> HIDE DEF dw, dp
  <2> QED BY <1>1, <2>1, SemSizes, SemSetMoves
<1>4. /\ dw + semCount + (IF ben < 0 THEN -ben ELSE 0)
           <= dp + semCount' + (IF ben' < 0 THEN -ben' ELSE 0)
  OBVIOUS
<1> HIDE DEF dw, dp
<1>5. /\ Cardinality(SemWaiters)' = Cardinality(SemWaiters) + dw
      /\ Cardinality(SemPosts)' = Cardinality(SemPosts) + dp
  BY <1>2, <1>3 DEF Cardinality
<1> QED BY <1>1, <1>4, <1>5, SpinSemCounts

\* The same, for a SimpleMutex0: the places count for its two sets.
InsideAt(l) == l \in {"semP", "held", "V"}
PermitAt(l) == l \in {"semV", "held", "V"}

LEMMA SimpleMoves ==
  ASSUME NEW f \in Freds, NEW to, ~Queued(f), to \notin SemWait,
         pc[f] # "resumed" => pc[f] \notin SemWait,
         \A g \in Freds : (Queued(g)' <=> Queued(g)) /\ pc'[g] = IF g = f THEN to ELSE pc[g]
  PROVE  /\ f \in Inside <=> InsideAt(pc[f]) \/ pc[f] = "resumed"
         /\ f \in Permit <=> PermitAt(pc[f]) \/ pc[f] = "resumed"
         /\ Inside' = IF InsideAt(to) THEN Inside \cup {f} ELSE Inside \ {f}
         /\ Permit' = IF PermitAt(to) THEN Permit \cup {f} ELSE Permit \ {f}
<1>1. f \in Inside <=> InsideAt(pc[f]) \/ pc[f] = "resumed"
  BY DEF Inside, InsideAt, SemWait
<1>2. \A g \in Freds \ {f} : Popped(g)' <=> Popped(g)
  BY DEF Popped
<1>3. /\ ~Popped(f)'
      /\ Popped(f) <=> pc[f] = "resumed"
  BY DEF Popped, SemWait
<1>4. f \in Permit <=> PermitAt(pc[f]) \/ pc[f] = "resumed"
  BY <1>3 DEF Permit, PermitAt
<1>5. Inside' = IF InsideAt(to) THEN Inside \cup {f} ELSE Inside \ {f}
  BY DEF Inside, InsideAt, SemWait
<1>6. Permit' = IF PermitAt(to) THEN Permit \cup {f} ELSE Permit \ {f}
  BY <1>2, <1>3 DEF Permit, PermitAt
<1> QED BY <1>1, <1>4, <1>5, <1>6

\* The invariant from its parts.
LEMMA SemInvParts ==
  ASSUME SemLib', kind' = kind, kind = "simple" => SimpleInv', kind # "simple" => SpinSemInv'
  PROVE  SemInv'
  BY DEF SemInv, SemLib

\* What an action on fred f at a label outside the wait starts from.
LEMMA SemFrom ==
  ASSUME SemInv, NEW f \in Freds,
         pc[f] \in {"idle", "P", "semP", "undo", "retry", "held", "V", "semV", "wake"}
  PROVE  /\ SemLib /\ ~Queued(f) /\ ~Popped(f)
         /\ ben \in Int /\ ben <= 1 /\ semCount \in Nat
         /\ owner \in Freds \cup {Null} /\ timed \in [Freds -> BOOLEAN]
<1>1. SemLib
  BY DEF SemInv, SemLib
<1>2. ~Queued(f) /\ ~Popped(f)
  BY <1>1, SemNotQueued DEF SemWait, Popped
<1> QED BY <1>1, <1>2 DEF SemLib, SemTypeOK

\* internalAcquire() up to the first P.
LEMMA SemAcquireInv ==
  ASSUME SemInv, NEW f \in Freds, NEW t \in BOOLEAN, SemAcquire(f, t)
  PROVE  SemInv'
<1>0. pc[f] = "idle" /\ UNCHANGED <<raceVars, kind, ben, semCount, semQueue>>
  BY DEF SemAcquire, At
<1>1. /\ SemLib /\ ~Queued(f) /\ ben \in Int /\ ben <= 1 /\ semCount \in Nat
      /\ owner \in Freds \cup {Null} /\ timed \in [Freds -> BOOLEAN]
  BY <1>0, SemFrom
<1>2. PICK to \in {"held", "P"} :
        /\ pc' = [pc EXCEPT ![f] = to]
        /\ to = "held" => kind # "simple" /\ owner = Null /\ owner' = f
        /\ to = "P" => owner' = owner
  BY DEF SemAcquire, At, TryLock
<1>3. /\ timed' \in [Freds -> BOOLEAN]
      /\ kind # "locked" => \A g \in Freds : ~timed'[g]
  BY <1>1 DEF SemAcquire, SemLib, SemNodes
<1>4. /\ SemLib'
      /\ \A g \in Freds : (Queued(g)' <=> Queued(g)) /\ pc'[g] = IF g = f THEN to ELSE pc[g]
  <2>1. /\ kind # "locked" => semCount' = 0
        /\ semCount' > 0 => \A g \in Freds : ~Undecided(g)
    BY <1>0, <1>1 DEF SemLib, SemNodes
  <2>2. /\ UNCHANGED <<raceVars, kind, semQueue>> /\ owner' \in Freds \cup {Null}
        /\ ben' \in Int /\ ben' <= 1 /\ semCount' \in Nat
        /\ pc[f] \notin {"suspend", "switch", "off", "wake"}
        /\ to \in {"idle", "P", "semP", "undo", "retry", "held", "V", "semV"}
    BY <1>0, <1>1, <1>2
  <2> QED BY <1>1, <1>2, <1>3, <2>1, <2>2, SemMoves
<1>5. CASE kind = "simple"
  <2>1. to = "P"
    BY <1>2, <1>5
  <2>2. Inside' = Inside /\ Permit' = Permit
    BY <1>0, <1>1, <1>4, <2>1, SimpleMoves DEF InsideAt, PermitAt, SemWait
  <2>3. SimpleInv'
    BY <1>0, <1>2, <1>4, <1>5, <2>1, <2>2 DEF SemInv, SimpleInv
  <2> QED BY <1>0, <1>4, <1>5, <2>3, SemInvParts
<1>6. CASE kind # "simple"
  <2>0. SemTypeOK /\ SpinSemInv
    BY <1>6 DEF SemInv
  <2>1. \A g \in Freds : owner' = g <=> pc'[g] = "held"
    BY <1>0, <1>2, <1>4, <2>0, SemFacts DEF SpinSemInv
  <2>2. ben' <= 0 => semCount' > 0 \/ \E g \in Freds : Active(g)'
    <3>1. \A g \in Freds : Active(g) => Active(g)'
      BY <1>0, <1>4 DEF Active, Popped, SemWait
    <3> QED BY <1>0, <2>0, <3>1 DEF SpinSemInv
  <2>3. WaitsAt(to) = 0 /\ WaitsAt(pc[f]) = 0 /\ PostsAt(to) = 0 /\ PostsAt(pc[f]) = 0
    BY <1>0 DEF WaitsAt, PostsAt
  <2>4. SpinSemInv'
    BY <1>0, <1>1, <1>4, <2>0, <2>1, <2>2, <2>3, SpinSemMoves
  <2> QED BY <1>0, <1>4, <1>6, <2>4, SemInvParts
<1> QED BY <1>5, <1>6

\* A SimpleMutex0 is taken while nobody is inside.
LEMMA SimpleTakes ==
  ASSUME SimpleInv, ben \in Int, ben > 0, NEW f \in Freds,
         ben' = ben - 1, owner' = f,
         Inside' = Inside \cup {f}, Permit' = Permit \cup {f}, f \notin Inside,
         \A g \in Freds : pc'[g] = IF g = f THEN "held" ELSE pc[g]
  PROVE  SimpleInv'
<1>0. Cardinality(Inside) \in Nat /\ ben = 1 - Cardinality(Inside)
  BY SemSizes DEF SimpleInv
<1>1. Inside = {} /\ Permit = {}
  <2>1. Cardinality(Inside) = 0
    BY <1>0
  <2> QED BY <2>1, SemSizes, SemCount DEF SimpleInv
<1>2. Cardinality(Inside') = 1 /\ Inside' = {f} /\ Permit' = {f}
  BY <1>1, FS_Singleton
<1>3. ben' = 1 - Cardinality(Inside')
  BY <1>0, <1>1, <1>2, FS_EmptySet
<1>4. \A g \in Freds : pc'[g] = "held" => g = f
  BY <1>1 DEF Inside
<1>5. \A g \in Freds : pc'[g] \notin {"retry", "undo"}
  BY DEF SimpleInv
<1>6. Cardinality(Inside)' = Cardinality(Inside')
  BY DEF Cardinality
<1> QED BY <1>2, <1>3, <1>4, <1>5, <1>6 DEF SimpleInv

\* tryAcquire() of a SimpleMutex0.
LEMMA SimpleTryAcquireInv ==
  ASSUME SemInv, NEW f \in Freds, SimpleTryAcquire(f)
  PROVE  SemInv'
<1>0. /\ pc[f] = "idle" /\ pc' = [pc EXCEPT ![f] = "held"] /\ kind = "simple"
      /\ UNCHANGED <<raceVars, kind, semCount, semQueue, timed>>
      /\ ben >= 1 /\ ben' = ben - 1 /\ owner' = f
  BY DEF SimpleTryAcquire, At
<1>1. /\ SemLib /\ ~Queued(f) /\ ben \in Int /\ ben <= 1 /\ semCount \in Nat
      /\ owner \in Freds \cup {Null} /\ timed \in [Freds -> BOOLEAN]
  BY <1>0, SemFrom
<1>2. /\ kind # "locked" => semCount' = 0
      /\ semCount' > 0 => \A g \in Freds : ~Undecided(g)
      /\ kind # "locked" => \A g \in Freds : ~timed'[g]
  BY <1>0, <1>1 DEF SemLib, SemNodes
<1>3. /\ SemLib'
      /\ \A g \in Freds : (Queued(g)' <=> Queued(g)) /\ pc'[g] = IF g = f THEN "held" ELSE pc[g]
  <2>2. /\ UNCHANGED <<raceVars, kind, semQueue>> /\ owner' \in Freds \cup {Null}
        /\ ben' \in Int /\ ben' <= 1 /\ semCount' \in Nat
        /\ pc[f] \notin {"suspend", "switch", "off", "wake"}
    BY <1>0, <1>1, <1>2
  <2> QED BY <1>0, <1>1, <1>2, <2>2, SemMoves
<1>4. Inside' = Inside \cup {f} /\ Permit' = Permit \cup {f} /\ f \notin Inside
  BY <1>0, <1>1, <1>3, SimpleMoves DEF InsideAt, PermitAt, SemWait
<1>5. SimpleInv'
  BY <1>0, <1>1, <1>3, <1>4, SimpleTakes DEF SemInv
<1> QED BY <1>0, <1>3, <1>5, SemInvParts

\* Benaphore::P().
LEMMA BenPInv ==
  ASSUME SemInv, NEW f \in Freds, BenP(f)
  PROVE  SemInv'
<1>0. /\ pc[f] = "P" /\ ben' = ben - 1
      /\ UNCHANGED <<raceVars, kind, semCount, semQueue, timed>>
  BY DEF BenP, At
<1>1. /\ SemLib /\ ~Queued(f) /\ ben \in Int /\ ben <= 1 /\ semCount \in Nat
      /\ owner \in Freds \cup {Null} /\ timed \in [Freds -> BOOLEAN]
  BY <1>0, SemFrom
<1>2. PICK to \in {"retry", "held", "semP"} :
        /\ pc' = [pc EXCEPT ![f] = to]
        /\ to = "retry" => ben > 0 /\ kind # "simple" /\ owner' = owner
        /\ to = "held" => ben > 0 /\ kind = "simple" /\ owner' = f
        /\ to = "semP" => ben <= 0 /\ owner' = owner
  BY DEF BenP, At
<1>3. /\ kind # "locked" => semCount' = 0
      /\ semCount' > 0 => \A g \in Freds : ~Undecided(g)
      /\ kind # "locked" => \A g \in Freds : ~timed'[g]
  BY <1>0, <1>1 DEF SemLib, SemNodes
<1>4. /\ SemLib'
      /\ \A g \in Freds : (Queued(g)' <=> Queued(g)) /\ pc'[g] = IF g = f THEN to ELSE pc[g]
  <2>2. /\ UNCHANGED <<raceVars, kind, semQueue>> /\ owner' \in Freds \cup {Null}
        /\ ben' \in Int /\ ben' <= 1 /\ semCount' \in Nat
        /\ pc[f] \notin {"suspend", "switch", "off", "wake"}
        /\ to \in {"idle", "P", "semP", "undo", "retry", "held", "V", "semV"}
    BY <1>0, <1>1, <1>2
  <2> QED BY <1>0, <1>1, <1>2, <1>3, <2>2, SemMoves
<1>5. CASE kind = "simple"
  <2>0. SimpleInv
    BY <1>5 DEF SemInv
  <2>1. /\ f \notin Inside /\ f \notin Permit
        /\ Inside' = Inside \cup {f}
        /\ to = "held" => Permit' = Permit \cup {f}
        /\ to = "semP" => Permit' = Permit
    BY <1>0, <1>1, <1>2, <1>4, <1>5, SimpleMoves DEF InsideAt, PermitAt, SemWait
  <2>2. CASE to = "held"
    <3>1. SimpleInv'
      BY <1>0, <1>1, <1>2, <1>4, <2>0, <2>1, <2>2, SimpleTakes
    <3> QED BY <1>0, <1>4, <1>5, <3>1, SemInvParts
  <2>3. CASE to = "semP"
    <3>1. Cardinality(Inside') = Cardinality(Inside) + 1 /\ Cardinality(Inside) \in Nat
      BY <2>1, SemSizes, SemCount
    <3>2. ben' = 1 - Cardinality(Inside')
      BY <1>0, <2>0, <3>1 DEF SimpleInv
    <3>3. Permit # {} /\ Inside' # {}
      <4>1. Cardinality(Inside) # 0
        BY <1>2, <2>0, <2>3, <3>1 DEF SimpleInv
      <4> QED BY <2>0, <2>1, <4>1, SemSizes, SemCount DEF SimpleInv
    <3>4. Cardinality(Inside)' = Cardinality(Inside')
      BY DEF Cardinality
    <3>5. SimpleInv'
      BY <1>2, <1>4, <2>0, <2>1, <2>3, <3>2, <3>3, <3>4 DEF SimpleInv
    <3> QED BY <1>0, <1>4, <1>5, <3>5, SemInvParts
  <2> QED BY <1>2, <1>5, <2>2, <2>3
<1>6. CASE kind # "simple"
  <2>0. SemTypeOK /\ SpinSemInv /\ to \in {"retry", "semP"} /\ owner' = owner
    BY <1>2, <1>6 DEF SemInv
  <2>1. \A g \in Freds : owner' = g <=> pc'[g] = "held"
    BY <1>0, <1>4, <2>0 DEF SpinSemInv
  <2>2. ben' <= 0 => semCount' > 0 \/ \E g \in Freds : Active(g)'
    <3>1. \A g \in Freds : Active(g) => Active(g)'
      BY <1>0, <1>4 DEF Active, Popped, SemWait
    <3>2. to = "retry" => Active(f)'
      BY <1>4 DEF Active
    <3> QED BY <1>0, <1>2, <2>0, <3>1, <3>2 DEF SpinSemInv
  <2>3. (WaitsAt(to) - WaitsAt(pc[f])) + semCount + (IF ben < 0 THEN -ben ELSE 0)
           <= (PostsAt(to) - PostsAt(pc[f])) + semCount' + (IF ben' < 0 THEN -ben' ELSE 0)
    <3>1. CASE to = "retry"
      BY <1>0, <1>1, <1>2, <3>1 DEF WaitsAt, PostsAt
    <3>2. CASE to = "semP"
      BY <1>0, <1>1, <1>2, <3>2 DEF WaitsAt, PostsAt
    <3> QED BY <2>0, <3>1, <3>2
  <2>4. SpinSemInv'
    BY <1>0, <1>1, <1>4, <2>0, <2>1, <2>2, <2>3, SpinSemMoves
  <2> QED BY <1>0, <1>4, <1>6, <2>4, SemInvParts
<1> QED BY <1>5, <1>6

\* The step of a fred that leaves timed and, but for a permit taken, the
\* semaphore alone.
LEMMA SemGoes ==
  ASSUME SemInv, NEW f \in Freds, ~Queued(f),
         NEW to \in {"idle", "P", "semP", "undo", "retry", "held", "V", "semV"},
         pc[f] \notin {"suspend", "switch", "off", "wake"},
         pc' = [pc EXCEPT ![f] = to],
         runState' = runState, resumeInfo' = resumeInfo, readyLinks' = readyLinks,
         pending' = pending, kind' = kind, semQueue' = semQueue, timed' = timed,
         ben' \in Int, ben' <= 1, semCount' \in Nat, semCount' <= semCount,
         owner' \in Freds \cup {Null}
  PROVE  /\ SemLib'
         /\ \A g \in Freds : (Queued(g)' <=> Queued(g)) /\ pc'[g] = IF g = f THEN to ELSE pc[g]
<1>1. SemLib /\ timed \in [Freds -> BOOLEAN] /\ semCount \in Nat
  BY DEF SemInv, SemLib, SemTypeOK
<1>2. /\ kind # "locked" => semCount' = 0
      /\ semCount' > 0 => \A g \in Freds : ~Undecided(g)
      /\ kind # "locked" => \A g \in Freds : ~timed'[g]
  BY <1>1 DEF SemLib, SemNodes
<1>3. UNCHANGED <<raceVars, kind, semQueue>>
  BY DEF raceVars
<1> QED BY <1>1, <1>2, <1>3, SemMoves

\* P() of the semaphore.
LEMMA SemPInv ==
  ASSUME SemInv, NEW f \in Freds, SemP(f)
  PROVE  SemInv'
<1>0. /\ pc[f] = "semP" /\ semCount \in Nat
      /\ UNCHANGED <<runState, readyLinks, pending, kind, ben, owner, timed>>
  BY DEF SemP, At, SemInv, SemTypeOK
<1>1. /\ SemLib /\ ~Queued(f) /\ ben \in Int /\ ben <= 1 /\ semCount \in Nat
      /\ owner \in Freds \cup {Null}
  BY <1>0, SemFrom
<1>2. ASSUME semCount = 0, UNCHANGED semCount, semQueue' = Append(semQueue, f),
             PrepareResumeRace(f), At(f, "semP", "suspend")
      PROVE  SemInv'
  <2>1. /\ SemLib'
        /\ \A g \in Freds : /\ Queued(g)' <=> Queued(g) \/ g = f
                            /\ pc'[g] = IF g = f THEN "suspend" ELSE pc[g]
    BY <1>0, <1>1, <1>2, SemQueues DEF At
  <2>2. /\ \A g \in Freds \ {f} : Popped(g)' <=> Popped(g)
        /\ ~Popped(f) /\ ~Popped(f)'
    BY <1>0, <2>1 DEF Popped, SemWait
  <2>3. Inside' = Inside /\ Permit' = Permit
    BY <1>0, <2>1, <2>2 DEF Inside, Permit, SemWait
  <2>4. /\ SemWaiters' = SemWaiters /\ SemPosts' = SemPosts
        /\ \A g \in Freds : Active(g)' <=> Active(g)
    BY <1>0, <2>1, <2>2 DEF SemWaiters, SemPosts, Active
  <2>5. SimpleInv => SimpleInv'
    BY <1>0, <2>1, <2>3 DEF SimpleInv
  <2>6. SpinSemInv => SpinSemInv'
    BY <1>0, <1>2, <2>1, <2>4 DEF SpinSemInv
  <2> QED BY <1>0, <2>1, <2>5, <2>6, SemInvParts DEF SemInv
<1>3. ASSUME NEW to \in {"retry", "undo"}, At(f, "semP", to), UNCHANGED <<resumeInfo, semQueue>>,
             to = "retry" => semCount > 0 /\ semCount' = semCount - 1,
             to = "undo" => timed[f] /\ semCount' = semCount
      PROVE  SemInv'
  <2>1. /\ SemLib'
        /\ \A g \in Freds : (Queued(g)' <=> Queued(g)) /\ pc'[g] = IF g = f THEN to ELSE pc[g]
    <3>1. semCount' \in Nat /\ semCount' <= semCount
      BY <1>0, <1>3
    <3>2. /\ runState' = runState /\ resumeInfo' = resumeInfo /\ readyLinks' = readyLinks
          /\ pending' = pending /\ kind' = kind /\ semQueue' = semQueue /\ timed' = timed
          /\ ben' \in Int /\ ben' <= 1 /\ owner' \in Freds \cup {Null}
          /\ pc' = [pc EXCEPT ![f] = to] /\ pc[f] \notin {"suspend", "switch", "off", "wake"}
          /\ to \in {"idle", "P", "semP", "undo", "retry", "held", "V", "semV"}
      BY <1>0, <1>1, <1>3 DEF At
    <3> QED BY <1>1, <3>1, <3>2, SemGoes
  <2>2. kind # "simple"
    BY <1>0, <1>1, <1>3 DEF SemLib, SemNodes
  <2>3. SemTypeOK /\ SpinSemInv
    BY <2>2 DEF SemInv
  <2>4. \A g \in Freds : owner' = g <=> pc'[g] = "held"
    BY <1>0, <2>1, <2>3 DEF SpinSemInv
  <2>5. ben' <= 0 => semCount' > 0 \/ \E g \in Freds : Active(g)'
    <3>1. \A g \in Freds : Active(g) => Active(g)'
      BY <1>0, <2>1 DEF Active, Popped, SemWait
    <3>2. to = "retry" => Active(f)'
      BY <2>1 DEF Active
    <3> QED BY <1>0, <1>3, <2>3, <3>1, <3>2 DEF SpinSemInv
  <2>6. (WaitsAt(to) - WaitsAt(pc[f])) + semCount + (IF ben < 0 THEN -ben ELSE 0)
           <= (PostsAt(to) - PostsAt(pc[f])) + semCount' + (IF ben' < 0 THEN -ben' ELSE 0)
    <3>1. CASE to = "retry"
      BY <1>0, <1>1, <1>3, <3>1 DEF WaitsAt, PostsAt
    <3>2. CASE to = "undo"
      BY <1>0, <1>1, <1>3, <3>2 DEF WaitsAt, PostsAt
    <3> QED BY <1>3, <3>1, <3>2
  <2>7. ben' \in Int /\ semCount' \in Nat
    BY <1>0, <1>1, <1>3
  <2>8. SpinSemInv'
    BY <1>1, <2>1, <2>3, <2>4, <2>5, <2>6, <2>7, SpinSemMoves
  <2> QED BY <1>0, <2>1, <2>2, <2>8, SemInvParts
<1> QED BY <1>2, <1>3 DEF SemP

\* The steps of the timer, of resume() and of the protocol.
LEMMA SemQuietInv ==
  ASSUME SemInv,
         \/ \E f \in Freds : SemExpire(f) \/ SemResume(f) \/ (FredStep(f) /\ UNCHANGED semVars)
         \/ SemTimer
  PROVE  SemInv'
<1>0. SemLib /\ SemTypeOK
  BY DEF SemInv, SemLib
<1>a. /\ SemLib' /\ semQueue' = semQueue /\ UNCHANGED <<kind, ben, semCount, owner>>
      /\ \A g \in Freds : \/ pc'[g] = pc[g]
                          \/ pc[g] \in SemWait /\ pc'[g] \in SemWait
                          \/ pc[g] = "wake" /\ pc'[g] = "idle"
  <2>1. CASE \E f \in Freds : SemExpire(f)
    BY <1>0, <2>1, SemExpireLib
  <2>2. CASE \E f \in Freds : SemResume(f)
    BY <1>0, <2>2, SemResumes DEF SemResume, At, semVars, Resumers
  <2>3. CASE \E f \in Freds : FredStep(f) /\ UNCHANGED semVars
    BY <1>0, <2>3, SemFredStep DEF semVars
  <2>4. CASE SemTimer
    BY <1>0, <2>4, SemResumes DEF SemTimer, semVars, Resumers
  <2> QED BY <2>1, <2>2, <2>3, <2>4
<1>b. \A g \in Freds : Queued(g)' <=> Queued(g)
  BY <1>a DEF Queued
<1>c. (SimpleInv => SimpleInv') /\ (SpinSemInv => SpinSemInv')
  BY <1>a, <1>b, SemQuiet
<1> QED BY <1>a, <1>c, SemInvParts DEF SemInv

\* Back from P() of the semaphore.
LEMMA SemWokenInv ==
  ASSUME SemInv, NEW f \in Freds, SemWoken(f)
  PROVE  SemInv'
<1>0. /\ pc[f] = "resumed" /\ SemLib /\ SemTypeOK
      /\ UNCHANGED <<raceVars, kind, ben, semCount, timed>>
  BY DEF SemWoken, At, SemInv, SemLib
<1>1. ASSUME resumeInfo[f] = Timer, At(f, "resumed", "undo"), UNCHANGED owner,
             NEW i \in DOMAIN semQueue, semQueue[i] = f, semQueue' = RemoveAt(semQueue, i)
      PROVE  SemInv'
  <2>1. /\ SemLib' /\ Queued(f)
        /\ \A g \in Freds : /\ Queued(g)' <=> Queued(g) /\ g # f
                            /\ pc'[g] = IF g = f THEN "undo" ELSE pc[g]
    BY <1>0, <1>1, SemLeaves DEF At
  <2>2. kind # "simple"
    BY <1>0, <1>1, SemFacts DEF SemLib, SemNodes
  <2>3. SpinSemInv
    BY <2>2 DEF SemInv
  <2>4. \A g \in Freds : Popped(g)' <=> Popped(g)
    BY <1>0, <2>1 DEF Popped, SemWait
  <2>5. /\ SemWaiters' = SemWaiters /\ SemPosts' = SemPosts
        /\ \A g \in Freds : Active(g)' <=> Active(g)
    BY <1>0, <2>1, <2>4 DEF SemWaiters, SemPosts, Active
  <2>6. SpinSemInv'
    BY <1>0, <1>1, <2>1, <2>3, <2>5 DEF SpinSemInv
  <2> QED BY <1>0, <2>1, <2>2, <2>6, SemInvParts
<1>2. ASSUME resumeInfo[f] # Timer, NEW to \in {"held", "retry"}, At(f, "resumed", to),
             UNCHANGED semQueue, to = "held" <=> kind = "simple",
             owner' = IF to = "held" THEN f ELSE owner
      PROVE  SemInv'
  <2>0. ~Queued(f)
    <3>1. ~Undecided(f)
      BY <1>0 DEF SemLib, SemRace
    <3> QED BY <1>0, <1>2, <3>1 DEF Undecided, CanWin, SemLib, SemNodes
  <2>1. /\ SemLib'
        /\ \A g \in Freds : (Queued(g)' <=> Queued(g)) /\ pc'[g] = IF g = f THEN to ELSE pc[g]
    <3>1. /\ semCount' \in Nat /\ semCount' <= semCount /\ ben' \in Int /\ ben' <= 1
          /\ owner' \in Freds \cup {Null}
      BY <1>0, <1>2 DEF SemTypeOK
    <3>2. /\ runState' = runState /\ resumeInfo' = resumeInfo /\ readyLinks' = readyLinks
          /\ pending' = pending /\ kind' = kind /\ semQueue' = semQueue /\ timed' = timed
          /\ pc' = [pc EXCEPT ![f] = to] /\ pc[f] \notin {"suspend", "switch", "off", "wake"}
          /\ to \in {"idle", "P", "semP", "undo", "retry", "held", "V", "semV"}
      BY <1>0, <1>2 DEF At, raceVars
    <3> QED BY <2>0, <3>1, <3>2, SemGoes
  <2>2. CASE kind = "simple"
    <3>1. Inside' = Inside /\ Permit' = Permit /\ f \in Permit
      BY <1>0, <1>2, <2>0, <2>1, <2>2, SimpleMoves DEF InsideAt, PermitAt, SemWait
    <3>2. SimpleInv /\ \A g \in Freds : pc[g] = "held" => g = f
      BY <2>2, <3>1 DEF SemInv, SimpleInv, Permit
    <3>3. SimpleInv'
      BY <1>0, <1>2, <2>1, <2>2, <3>1, <3>2 DEF SimpleInv
    <3> QED BY <1>0, <2>1, <2>2, <3>3, SemInvParts
  <2>3. CASE kind # "simple"
    <3>0. SpinSemInv /\ to = "retry"
      BY <1>2, <2>3 DEF SemInv
    <3>1. /\ SemWaiters' = SemWaiters /\ SemPosts' = SemPosts
          /\ \A g \in Freds : Active(g) => Active(g)'
      BY <1>0, <2>0, <2>1, <3>0 DEF SemWaiters, SemPosts, Active, Popped, SemWait
    <3>2. SpinSemInv'
      BY <1>0, <1>2, <2>1, <3>0, <3>1 DEF SpinSemInv
    <3> QED BY <1>0, <2>1, <2>3, <3>2, SemInvParts
  <2> QED BY <2>2, <2>3
<1> QED BY <1>1, <1>2 DEF SemWoken

\* A fred inside a mutex that is no SimpleMutex0 goes on.
LEMMA SpinSemGoes ==
  ASSUME SemInv, kind # "simple", NEW f \in Freds,
         pc[f] \in {"idle", "P", "semP", "undo", "retry", "held", "V", "semV"},
         NEW to \in {"idle", "P", "semP", "undo", "retry", "held", "V", "semV"},
         At(f, pc[f], to), UNCHANGED <<raceVars, kind, semCount, semQueue, timed>>,
         owner' \in Freds \cup {Null}, ben' \in Int, ben' <= 1,
         (WaitsAt(to) - WaitsAt(pc[f])) + (IF ben < 0 THEN -ben ELSE 0)
           <= (PostsAt(to) - PostsAt(pc[f])) + (IF ben' < 0 THEN -ben' ELSE 0),
         ben' <= 0 => \/ semCount > 0
                      \/ to \in {"retry", "held", "V", "semV"}
                      \/ \E g \in Freds \ {f} : Active(g),
         \A g \in Freds \ {f} : owner' = g <=> pc[g] = "held",
         owner' = f <=> to = "held"
  PROVE  SemInv'
<1>1. /\ SemLib /\ ~Queued(f) /\ ben \in Int /\ ben <= 1 /\ semCount \in Nat
      /\ SemTypeOK /\ SpinSemInv
  BY SemFrom DEF SemInv
<1>2. /\ SemLib'
      /\ \A g \in Freds : (Queued(g)' <=> Queued(g)) /\ pc'[g] = IF g = f THEN to ELSE pc[g]
  <2>1. /\ runState' = runState /\ resumeInfo' = resumeInfo /\ readyLinks' = readyLinks
        /\ pending' = pending /\ kind' = kind /\ semQueue' = semQueue /\ timed' = timed
        /\ pc' = [pc EXCEPT ![f] = to] /\ pc[f] \notin {"suspend", "switch", "off", "wake"}
        /\ semCount' \in Nat /\ semCount' <= semCount
    BY <1>1 DEF At, raceVars
  <2> QED BY <1>1, <2>1, SemGoes
<1>3. \A g \in Freds : owner' = g <=> pc'[g] = "held"
  BY <1>2
<1>4. ben' <= 0 => semCount' > 0 \/ \E g \in Freds : Active(g)'
  <2>1. \A g \in Freds \ {f} : Active(g) => Active(g)'
    BY <1>2 DEF Active, Popped
  <2>2. to \in {"retry", "held", "V", "semV"} => Active(f)'
    BY <1>2 DEF Active
  <2> QED BY <2>1, <2>2
<1>5. /\ (WaitsAt(to) - WaitsAt(pc[f])) + semCount + (IF ben < 0 THEN -ben ELSE 0)
           <= (PostsAt(to) - PostsAt(pc[f])) + semCount' + (IF ben' < 0 THEN -ben' ELSE 0)
      /\ semCount' \in Nat
  <2> DEFINE n == IF ben < 0 THEN -ben ELSE 0
             m == IF ben' < 0 THEN -ben' ELSE 0
             w == WaitsAt(to) - WaitsAt(pc[f])
             p == PostsAt(to) - PostsAt(pc[f])
  <2>1. n \in Int /\ m \in Int
    BY <1>1
  <2>2. w \in Int /\ p \in Int
    BY DEF WaitsAt, PostsAt
  <2>3. w + n <= p + m /\ semCount' = semCount
    OBVIOUS
  <2> HIDE DEF n, m, w, p
  <2>4. w + semCount + n <= p + semCount' + m
    BY <1>1, <2>1, <2>2, <2>3
  <2> QED BY <1>1, <2>3, <2>4 DEF n, m, w, p
<1>6. SpinSemInv'
  BY <1>1, <1>2, <1>3, <1>4, <1>5, SpinSemMoves
<1> QED BY <1>2, <1>6, SemInvParts

\* The loop of internalAcquire() after a P(): whoever has the mutex will V().
LEMMA SemRetryInv ==
  ASSUME SemInv, NEW f \in Freds, SemRetry(f)
  PROVE  SemInv'
<1>0. /\ pc[f] = "retry" /\ SemTypeOK /\ ben' = ben /\ ben \in Int /\ ben <= 1
      /\ UNCHANGED <<raceVars, kind, ben, semCount, semQueue, timed>>
  BY DEF SemRetry, At, SemInv, SemTypeOK
<1>1. kind # "simple" /\ SpinSemInv
  BY <1>0 DEF SemInv, SimpleInv
<1>2. CASE TryLock(f) /\ At(f, "retry", "held")
  <2>1. \A g \in Freds \ {f} : owner' = g <=> pc[g] = "held"
    BY <1>1, <1>2, SemFacts DEF TryLock, SpinSemInv
  <2>2. (WaitsAt("held") - WaitsAt(pc[f])) + (IF ben < 0 THEN -ben ELSE 0)
           <= (PostsAt("held") - PostsAt(pc[f])) + (IF ben' < 0 THEN -ben' ELSE 0)
    BY <1>0 DEF WaitsAt, PostsAt
  <2> QED BY <1>0, <1>1, <1>2, <2>1, <2>2, SpinSemGoes DEF TryLock
<1>3. CASE owner # Null /\ At(f, "retry", "P") /\ UNCHANGED owner
  <2>1. /\ owner \in Freds \ {f} /\ Active(owner)
        /\ \A g \in Freds \ {f} : owner' = g <=> pc[g] = "held"
        /\ owner' # f
    BY <1>0, <1>1, <1>3 DEF SemTypeOK, SpinSemInv, Active
  <2>2. (WaitsAt("P") - WaitsAt(pc[f])) + (IF ben < 0 THEN -ben ELSE 0)
           <= (PostsAt("P") - PostsAt(pc[f])) + (IF ben' < 0 THEN -ben' ELSE 0)
    BY <1>0 DEF WaitsAt, PostsAt
  <2> QED BY <1>0, <1>1, <1>3, <2>1, <2>2, SpinSemGoes
<1> QED BY <1>2, <1>3 DEF SemRetry

\* release() up to V().
LEMMA SemReleaseInv ==
  ASSUME SemInv, NEW f \in Freds, SemRelease(f)
  PROVE  SemInv'
<1>0. /\ pc[f] = "held" /\ SemTypeOK /\ ben' = ben /\ ben \in Int /\ ben <= 1
      /\ UNCHANGED <<raceVars, kind, semCount, semQueue, timed>> /\ owner' = Null
      /\ At(f, "held", "V") /\ semCount \in Nat
  BY DEF SemRelease, At, SemInv, SemTypeOK
<1>1. CASE kind # "simple"
  <2>1. \A g \in Freds \ {f} : owner' = g <=> pc[g] = "held"
    BY <1>0, <1>1, SemFacts DEF SemInv, SpinSemInv
  <2>2. (WaitsAt("V") - WaitsAt(pc[f])) + (IF ben < 0 THEN -ben ELSE 0)
           <= (PostsAt("V") - PostsAt(pc[f])) + (IF ben' < 0 THEN -ben' ELSE 0)
    BY <1>0 DEF WaitsAt, PostsAt
  <2> QED BY <1>0, <1>1, <2>1, <2>2, SpinSemGoes, SemFacts
<1>2. CASE kind = "simple"
  <2>0. ~Queued(f)
    BY <1>0, SemFrom
  <2>1. /\ SemLib'
        /\ \A g \in Freds : (Queued(g)' <=> Queued(g)) /\ pc'[g] = IF g = f THEN "V" ELSE pc[g]
    <3>1. /\ runState' = runState /\ resumeInfo' = resumeInfo /\ readyLinks' = readyLinks
          /\ pending' = pending /\ kind' = kind /\ semQueue' = semQueue /\ timed' = timed
          /\ pc' = [pc EXCEPT ![f] = "V"] /\ pc[f] \notin {"suspend", "switch", "off", "wake"}
          /\ semCount' \in Nat /\ semCount' <= semCount
      BY <1>0 DEF At, raceVars
    <3> QED BY <1>0, <2>0, <3>1, SemGoes
  <2>2. Inside' = Inside /\ Permit' = Permit /\ f \in Permit
    BY <1>0, <2>0, <2>1, SimpleMoves DEF InsideAt, PermitAt, SemWait
  <2>3. SimpleInv /\ \A g \in Freds : pc[g] = "held" => g = f
    BY <1>2, <2>2 DEF SemInv, SimpleInv, Permit
  <2>4. SimpleInv'
    BY <1>0, <2>1, <2>2, <2>3 DEF SimpleInv
  <2> QED BY <1>0, <1>2, <2>1, <2>4, SemInvParts
<1> QED BY <1>1, <1>2

\* V() of the benaphore.
LEMMA BenVInv ==
  ASSUME SemInv, NEW f \in Freds, BenV(f)
  PROVE  SemInv'
<1>0. /\ pc[f] = "V" /\ SemTypeOK /\ ben \in Int /\ ben <= 1 /\ semCount \in Nat
      /\ owner' = owner /\ owner \in Freds \cup {Null}
      /\ UNCHANGED <<raceVars, kind, semCount, semQueue, timed>> /\ ben' = BenValue
  BY DEF BenV, At, SemInv, SemTypeOK
<1>1. PICK to \in {"idle", "semV"} : At(f, "V", to) /\ (to = "idle" <=> ben >= 0)
  BY <1>0 DEF BenV
<1>2. CASE kind # "simple"
  <2>0. ben' \in Int /\ ben' <= 1 /\ (to = "idle" => ben' > 0) /\ (to = "semV" => ben' = ben + 1)
    BY <1>0, <1>1, <1>2 DEF BenValue
  <2>1. (\A g \in Freds \ {f} : owner' = g <=> pc[g] = "held") /\ owner' # f
    BY <1>0, <1>2 DEF SemInv, SpinSemInv
  <2>2. (WaitsAt(to) - WaitsAt(pc[f])) + (IF ben < 0 THEN -ben ELSE 0)
           <= (PostsAt(to) - PostsAt(pc[f])) + (IF ben' < 0 THEN -ben' ELSE 0)
    <3>1. CASE to = "idle"
      BY <1>0, <1>1, <2>0, <3>1 DEF WaitsAt, PostsAt
    <3>2. CASE to = "semV"
      BY <1>0, <1>1, <2>0, <3>2 DEF WaitsAt, PostsAt
    <3> QED BY <1>1, <3>1, <3>2
  <2>3. ben' <= 0 => to \in {"retry", "held", "V", "semV"}
    BY <1>1, <2>0
  <2> QED BY <1>0, <1>1, <1>2, <2>0, <2>1, <2>2, <2>3, SpinSemGoes
<1>3. CASE kind = "simple"
  <2>a. SimpleInv /\ ben' = ben + 1 /\ Cardinality(Inside) \in Nat
    BY <1>0, <1>3, SemSizes DEF SemInv, BenValue
  <2>0. ~Queued(f) /\ f \in Inside /\ f \in Permit
    BY <1>0, SemFrom DEF Inside, Permit
  <2>b. ben' \in Int /\ ben' <= 1
    <3>1. Cardinality(Inside) # 0
      BY <2>0, SemSizes, SemCount
    <3> QED BY <1>0, <2>a, <3>1 DEF SimpleInv
  <2>1. /\ SemLib'
        /\ \A g \in Freds : (Queued(g)' <=> Queued(g)) /\ pc'[g] = IF g = f THEN to ELSE pc[g]
    <3>1. /\ runState' = runState /\ resumeInfo' = resumeInfo /\ readyLinks' = readyLinks
          /\ pending' = pending /\ kind' = kind /\ semQueue' = semQueue /\ timed' = timed
          /\ pc' = [pc EXCEPT ![f] = to] /\ pc[f] \notin {"suspend", "switch", "off", "wake"}
          /\ semCount' \in Nat /\ semCount' <= semCount
          /\ to \in {"idle", "P", "semP", "undo", "retry", "held", "V", "semV"}
          /\ owner' \in Freds \cup {Null}
      BY <1>0, <1>1 DEF At, raceVars
    <3> QED BY <2>0, <2>b, <3>1, SemGoes
  <2>2. /\ Inside' = Inside \ {f}
        /\ to = "semV" => Permit' = Permit
        /\ to = "idle" => Permit' = Permit \ {f}
    BY <1>0, <1>1, <2>0, <2>1, SimpleMoves DEF InsideAt, PermitAt, SemWait
  <2>3. Cardinality(Inside)' = Cardinality(Inside) - 1
    <3>1. Cardinality(Inside') = Cardinality(Inside) - 1
      BY <2>0, <2>2, SemSizes, SemCount
    <3> QED BY <3>1 DEF Cardinality
  <2>4. Cardinality(Inside)' = 0 <=> Inside' = {}
    <3>1. Inside' \subseteq Freds
      BY DEF Inside
    <3>2. Cardinality(Inside') = 0 <=> Inside' = {}
      BY <3>1, SemCount
    <3> QED BY <3>2 DEF Cardinality
  <2>5. ben' = 1 - Cardinality(Inside)'
    BY <2>3, <2>a DEF SimpleInv
  <2>6. Permit' = {} <=> Inside' = {}
    <3>1. CASE to = "idle"
      <4>1. Permit' = {}
        BY <2>0, <2>2, <2>a, <3>1 DEF SimpleInv
      <4>2. Cardinality(Inside)' = 0
        <5>1. Cardinality(Inside) = 1 - ben /\ ben >= 0 /\ Cardinality(Inside) # 0
          BY <1>0, <1>1, <2>0, <2>a, <3>1, SemSizes, SemCount DEF SimpleInv
        <5> QED BY <1>0, <2>3, <2>a, <5>1
      <4> QED BY <2>4, <4>1, <4>2
    <3>2. CASE to = "semV"
      <4>1. Cardinality(Inside)' # 0
        BY <1>0, <1>1, <2>3, <2>a, <3>2 DEF SimpleInv
      <4> QED BY <2>0, <2>2, <2>4, <3>2, <4>1
    <3> QED BY <1>1, <3>1, <3>2
  <2>7. \A g, h \in Permit' : g = h
    BY <1>1, <2>2, <2>a DEF SimpleInv
  <2>8. SimpleInv'
    BY <1>0, <1>1, <2>1, <2>5, <2>6, <2>7, <2>a DEF SimpleInv
  <2> QED BY <1>0, <1>3, <2>1, <2>8, SemInvParts
<1> QED BY <1>2, <1>3

\* The undo of a timed P().
LEMMA BenUndoInv ==
  ASSUME SemInv, NEW f \in Freds, BenUndo(f)
  PROVE  SemInv'
<1>0. /\ pc[f] = "undo" /\ SemTypeOK /\ ben \in Int /\ ben <= 1 /\ semCount \in Nat
      /\ owner' = owner /\ owner \in Freds \cup {Null} /\ At(f, "undo", "idle")
      /\ UNCHANGED <<raceVars, kind, semCount, semQueue, timed>> /\ ben' = BenValue
  BY DEF BenUndo, At, SemInv, SemTypeOK
<1>1. kind # "simple" /\ SpinSemInv
  BY <1>0 DEF SemInv, SimpleInv
<1>2. ben' = (IF ben = 1 THEN 1 ELSE ben + 1)
  BY <1>0, <1>1 DEF BenValue
<1>3. ben' \in Int /\ ben' <= 1 /\ (ben' <= 0 => ben <= 0)
  BY <1>0, <1>2
<1>4. (\A g \in Freds \ {f} : owner' = g <=> pc[g] = "held") /\ owner' # f
  BY <1>0, <1>1 DEF SpinSemInv
<1>5. (WaitsAt("idle") - WaitsAt(pc[f])) + (IF ben < 0 THEN -ben ELSE 0)
        <= (PostsAt("idle") - PostsAt(pc[f])) + (IF ben' < 0 THEN -ben' ELSE 0)
  BY <1>0, <1>2 DEF WaitsAt, PostsAt
<1>6. ben' <= 0 => semCount > 0 \/ \E g \in Freds \ {f} : Active(g)
  <2>1. ~Active(f)
    BY <1>0 DEF Active, Popped, SemWait
  <2> QED BY <1>1, <1>3, <2>1 DEF SpinSemInv
<1> QED BY <1>0, <1>1, <1>3, <1>4, <1>5, <1>6, SpinSemGoes

\* V() of the semaphore.
LEMMA SemVInv ==
  ASSUME SemInv, NEW f \in Freds, SemV(f)
  PROVE  SemInv'
<1>0. /\ pc[f] = "semV" /\ SemTypeOK /\ SemLib /\ ben \in Int /\ ben <= 1 /\ semCount \in Nat
      /\ UNCHANGED <<runState, readyLinks, kind, ben, owner, timed>> /\ owner \in Freds \cup {Null}
  BY DEF SemV, At, SemInv, SemTypeOK, SemLib, raceVars
<1>1. ~Queued(f) /\ ~Popped(f)
  BY <1>0, SemFrom
<1>2. ASSUME NEW i \in DOMAIN semQueue, CanWin(semQueue[i]),
             IF kind = "locked" THEN RaceResume(semQueue[i], f) ELSE UNCHANGED resumeInfo,
             pending' = [pending EXCEPT ![f] = semQueue[i]],
             semQueue' = RemoveAt(semQueue, i),
             At(f, "semV", "wake"), UNCHANGED semCount
      PROVE  SemInv'
  <2>1. SemLib' /\ \E h \in Freds \ {f} :
          /\ Queued(h) /\ pc[h] \in SemWait
          /\ \A g \in Freds : /\ Queued(g)' <=> Queued(g) /\ g # h
                              /\ pc'[g] = IF g = f THEN "wake" ELSE pc[g]
    BY <1>0, <1>2, SemPops DEF At
  <2>2. PICK h \in Freds \ {f} :
          /\ Queued(h) /\ pc[h] \in SemWait
          /\ \A g \in Freds : /\ Queued(g)' <=> Queued(g) /\ g # h
                              /\ pc'[g] = IF g = f THEN "wake" ELSE pc[g]
    BY <2>1
  <2>3. /\ \A g \in Freds \ {f, h} : Popped(g)' <=> Popped(g)
        /\ ~Popped(f)' /\ Popped(h)' /\ ~Popped(h)
    BY <2>2 DEF Popped, SemWait
  <2>4. CASE kind = "simple"
    <3>0. SimpleInv
      BY <2>4 DEF SemInv
    <3>1. Inside' = Inside
      BY <1>0, <2>2 DEF Inside, SemWait
    <3>2. f \in Permit /\ Permit' = (Permit \ {f}) \cup {h}
      BY <1>0, <2>2, <2>3 DEF Permit, SemWait
    <3>3. (\A g, k \in Permit' : g = k) /\ Permit' # {} /\ Inside' # {}
      BY <3>0, <3>1, <3>2 DEF SimpleInv
    <3>4. SimpleInv'
      BY <1>0, <2>2, <3>0, <3>1, <3>3 DEF SimpleInv
    <3> QED BY <1>0, <2>1, <2>4, <3>4, SemInvParts
  <2>5. CASE kind # "simple"
    <3>0. SpinSemInv
      BY <2>5 DEF SemInv
    <3>1. SemWaiters' = SemWaiters \ {h} /\ h \in SemWaiters
      BY <1>0, <1>1, <2>2 DEF SemWaiters, SemWait
    <3>2. SemPosts' = SemPosts \ {f} /\ f \in SemPosts
      BY <1>0, <2>2 DEF SemPosts
    <3>3. /\ Cardinality(SemWaiters') = Cardinality(SemWaiters) + (-1)
          /\ Cardinality(SemPosts') = Cardinality(SemPosts) + (-1)
      BY <2>2, <3>1, <3>2, SemSizes, SemSetMoves
    <3>4. /\ Cardinality(SemWaiters)' = Cardinality(SemWaiters) + (-1)
          /\ Cardinality(SemPosts)' = Cardinality(SemPosts) + (-1)
      BY <3>3 DEF Cardinality
    <3>5. \E g \in Freds : Active(g)'
      BY <2>2, <2>3 DEF Active
    <3>6. \A g \in Freds : owner' = g <=> pc'[g] = "held"
      BY <1>0, <2>2, <3>0 DEF SpinSemInv
    <3>7. /\ -1 + semCount + (IF ben < 0 THEN -ben ELSE 0)
               <= -1 + semCount' + (IF ben' < 0 THEN -ben' ELSE 0)
          /\ ben' \in Int /\ semCount' \in Nat
      BY <1>0, <1>2
    <3>8. SpinSemInv'
      <4> DEFINE d == -1
      <4>1. /\ d \in -1 .. 1
            /\ Cardinality(SemWaiters)' = Cardinality(SemWaiters) + d
            /\ Cardinality(SemPosts)' = Cardinality(SemPosts) + d
            /\ d + semCount + (IF ben < 0 THEN -ben ELSE 0)
                 <= d + semCount' + (IF ben' < 0 THEN -ben' ELSE 0)
        BY <3>4, <3>7
      <4> HIDE DEF d
      <4> QED BY <1>0, <3>0, <3>5, <3>6, <3>7, <4>1, SpinSemCounts
    <3> QED BY <1>0, <2>1, <2>5, <3>8, SemInvParts
  <2> QED BY <2>4, <2>5
<1>3. ASSUME kind = "locked", \A i \in DOMAIN semQueue : ~CanWin(semQueue[i]),
             semCount' = semCount + 1, At(f, "semV", "idle"),
             UNCHANGED <<raceVars, kind, ben, semQueue, owner, timed, timeouts>>
      PROVE  SemInv'
  <2>0. SpinSemInv
    BY <1>3 DEF SemInv
  <2>1. \A g \in Freds : ~Undecided(g)
    BY <1>3 DEF Undecided, Queued, Contains
  <2>2. /\ SemLib'
        /\ \A g \in Freds : (Queued(g)' <=> Queued(g)) /\ pc'[g] = IF g = f THEN "idle" ELSE pc[g]
    <3>1. /\ UNCHANGED <<raceVars, kind, semQueue>> /\ owner' \in Freds \cup {Null}
          /\ ben' \in Int /\ ben' <= 1 /\ semCount' \in Nat
          /\ pc[f] \notin {"suspend", "switch", "off", "wake"}
          /\ pc' = [pc EXCEPT ![f] = "idle"] /\ timed' \in [Freds -> BOOLEAN]
      BY <1>0, <1>3 DEF At, SemTypeOK
    <3> QED BY <1>0, <1>1, <1>3, <2>1, <3>1, SemMoves
  <2>3. \A g \in Freds : owner' = g <=> pc'[g] = "held"
    BY <1>0, <2>0, <2>2 DEF SpinSemInv
  <2>4. /\ (WaitsAt("idle") - WaitsAt(pc[f])) + semCount + (IF ben < 0 THEN -ben ELSE 0)
             <= (PostsAt("idle") - PostsAt(pc[f])) + semCount' + (IF ben' < 0 THEN -ben' ELSE 0)
        /\ ben' \in Int /\ semCount' \in Nat /\ semCount' > 0
    BY <1>0, <1>3 DEF WaitsAt, PostsAt
  <2>5. SpinSemInv'
    BY <1>0, <1>1, <2>0, <2>2, <2>3, <2>4, SpinSemMoves
  <2> QED BY <1>3, <2>2, <2>5, SemInvParts
<1>4. CASE \E i \in DOMAIN semQueue :
             /\ CanWin(semQueue[i]) /\ \A j \in 1 .. i - 1 : ~CanWin(semQueue[j])
             /\ IF kind = "locked" THEN RaceResume(semQueue[i], f) ELSE UNCHANGED resumeInfo
             /\ pending' = [pending EXCEPT ![f] = semQueue[i]]
             /\ semQueue' = RemoveAt(semQueue, i)
             /\ At(f, "semV", "wake")
             /\ UNCHANGED <<runState, readyLinks, kind, ben, semCount, owner, timed, timeouts>>
  BY <1>2, <1>4
<1> QED BY <1>3, <1>4 DEF SemV

\* The initial states.
LEMMA SemInitInv == SemMutexInit => SemInv
<1> SUFFICES ASSUME SemMutexInit PROVE SemInv
  OBVIOUS
<1> USE DEF SemMutexInit, FredInit
<1>1. \A f \in Freds : ~Queued(f) /\ ~Popped(f) /\ ~Undecided(f) /\ ~Owed(f)
  <2>0. Len(<<>>) = 0 /\ 1 .. 0 = {}
    OBVIOUS
  <2>1. \A f : ~Contains(<<>>, f)
    BY <2>0 DEF Contains
  <2>2. \A f \in Freds : ~Owed(f)
    BY SemFacts DEF Owed
  <2> QED BY <2>1, <2>2 DEF Queued, Popped, Undecided, SemWait
<1>2. SemTypeOK
  BY DEF SemTypeOK, Running
<1>3. SemNodes
  BY <1>1 DEF SemNodes, IsInjective
<1>4. SemRace
  BY <1>1, SemFacts DEF SemRace, SemRaceRunning, SemRaceOff, Running, Resumers
<1>5. Inside = {} /\ Permit = {} /\ SemWaiters = {} /\ SemPosts = {}
  BY <1>1 DEF Inside, Permit, SemWaiters, SemPosts, SemWait
<1>6. SimpleInv
  BY <1>5, FS_EmptySet DEF SimpleInv
<1>7. SpinSemInv
  BY <1>5, FS_EmptySet, SemFacts DEF SpinSemInv
<1> QED BY <1>2, <1>3, <1>4, <1>6, <1>7 DEF SemInv

\* Every step of the mutexes keeps the invariant.
LEMMA SemNextInv == SemInv /\ [SemMutexNext]_semMutexVars => SemInv'
<1> SUFFICES ASSUME SemInv, [SemMutexNext]_semMutexVars PROVE SemInv'
  OBVIOUS
<1>1. ASSUME NEW f \in Freds,
             \/ \E t \in BOOLEAN : SemAcquire(f, t)
             \/ SimpleTryAcquire(f)
             \/ BenP(f) \/ SemP(f) \/ SemExpire(f) \/ SemWoken(f) \/ SemRetry(f)
             \/ SemRelease(f) \/ BenV(f) \/ BenUndo(f) \/ SemV(f) \/ SemResume(f)
             \/ FredStep(f) /\ UNCHANGED semVars
      PROVE  SemInv'
  BY <1>1, SemAcquireInv, SimpleTryAcquireInv, BenPInv, SemPInv, SemQuietInv, SemWokenInv,
     SemRetryInv, SemReleaseInv, BenVInv, BenUndoInv, SemVInv
<1>2. CASE SemTimer
  BY <1>2, SemQuietInv
<1>3. CASE UNCHANGED semMutexVars
  <2>1. /\ \A g \in Freds : Queued(g)' <=> Queued(g)
        /\ \A g \in Freds : (Popped(g)' <=> Popped(g)) /\ (Undecided(g)' <=> Undecided(g))
                            /\ (Owed(g)' <=> Owed(g))
    BY <1>3 DEF semMutexVars, semVars, fredVars, Queued, Popped, Undecided, CanWin, Owed
  <2>2. SemLib'
    BY <1>3, <2>1 DEF semMutexVars, semVars, fredVars, SemInv, SemLib, SemTypeOK, SemNodes, SemRace,
       SemRaceRunning, SemRaceOff
  <2>3. (SimpleInv => SimpleInv') /\ (SpinSemInv => SpinSemInv')
    BY <1>3, <2>1, SemQuiet DEF semMutexVars, semVars, fredVars
  <2> QED BY <1>3, <2>2, <2>3, SemInvParts DEF SemInv, semMutexVars, semVars
<1> QED BY <1>1, <1>2, <1>3 DEF SemMutexNext

\* What the run checks follows from the invariant.
LEMMA SemInvSound == SemInv => SemMutexExcludes /\ SemMutexWakes
<1> SUFFICES ASSUME SemInv PROVE SemMutexExcludes /\ SemMutexWakes
  OBVIOUS
<1>1. SemMutexExcludes
  BY DEF SemInv, SimpleInv, SpinSemInv, SemMutexExcludes
<1>2. SemMutexWakes
  <2> SUFFICES ASSUME \A g \in Freds : pc[g] = "idle" \/ Asleep(g), NEW f \in Freds, Asleep(f)
               PROVE  FALSE
    BY DEF SemMutexWakes
  <2>1. \A g \in Freds : /\ Asleep(g) => Queued(g) /\ Undecided(g) /\ ~Popped(g)
                         /\ pc[g] = "idle" => ~Popped(g)
    BY DEF Asleep, Queued, Undecided, Popped, SemWait
  <2>2. \A g \in Freds : ~Popped(g) /\ pc[g] \notin {"semV", "held", "V", "retry"}
    BY <2>1 DEF Asleep
  <2>3. CASE kind = "simple"
    <3>1. Permit = {}
      BY <2>2 DEF Permit
    <3>2. f \in Inside
      BY DEF Inside, Asleep, SemWait
    <3> QED BY <2>3, <3>1, <3>2 DEF SemInv, SimpleInv
  <2>4. CASE kind # "simple"
    <3>0. SpinSemInv /\ ben \in Int /\ semCount \in Nat
      BY <2>4 DEF SemInv, SemTypeOK
    <3>1. SemPosts = {} /\ f \in SemWaiters
      BY <2>1, <2>2 DEF SemPosts, SemWaiters
    <3>2. \A g \in Freds : ~Active(g)
      BY <2>2 DEF Active
    <3>3. semCount = 0
      BY <2>1, <3>0 DEF SemInv, SemNodes
    <3>4. /\ Cardinality(SemWaiters) \in Nat /\ Cardinality(SemWaiters) # 0
          /\ Cardinality(SemPosts) = 0
      BY <3>1, SemSizes, SemCount, FS_EmptySet
    <3>5. ben > 0
      BY <3>0, <3>2, <3>3 DEF SpinSemInv
    <3> QED BY <3>0, <3>3, <3>4, <3>5 DEF SpinSemInv
  <2> QED BY <2>3, <2>4
<1> QED BY <1>1, <1>2

\* The part of the composition.
LEMMA SemPart ==
  /\ PrimitivesInit => (part = "sem" => SemMutexInit)
  /\ [PrimitivesNext]_primitivesVars
       => part' = part /\ (part = "sem" => [SemMutexNext]_semMutexVars)
<1>1. PrimitivesInit => (part = "sem" => SemMutexInit)
  BY DEF PrimitivesInit
<1>2. PrimitivesNext => part' = part /\ (part = "sem" => SemMutexNext)
  BY DEF PrimitivesNext
<1>3. UNCHANGED primitivesVars => part' = part /\ UNCHANGED semMutexVars
  BY DEF primitivesVars, semMutexVars
<1> QED BY <1>1, <1>2, <1>3

\* FastMutex, the mutex over a benaphore with a LockedSemaphore, and
\* SimpleMutex0: the fred that has the mutex is its owner, and no fred is left
\* asleep in the semaphore of a free mutex, whatever timed P() undoes its
\* decrement of the benaphore while a V() counts on it.
THEOREM SemMutexesAreSound == PrimitivesSpec => []SemMutexSound
<1>1. PrimitivesInit => (part = "sem" => SemInv)
  BY SemPart, SemInitInv
<1>2. (part = "sem" => SemInv) /\ [PrimitivesNext]_primitivesVars => (part = "sem" => SemInv)'
  BY SemPart, SemNextInv
<1>3. (part = "sem" => SemInv) => SemMutexSound
  BY SemInvSound DEF SemMutexSound
<1> QED BY <1>1, <1>2, <1>3, PTL DEF PrimitivesSpec
=============================================================================
