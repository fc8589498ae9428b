--------------------------- MODULE SchedulerProofs ---------------------------
(***************************************************************************)
(* Proofs about Scheduler, for any number of processors, other threads and  *)
(* freds: every fred is in one place, and every halt of a processor is      *)
(* matched by one wake-up, with and without store buffers; no wake-up is    *)
(* lost without them.                                                       *)
(***************************************************************************)
EXTENDS Scheduler, FiniteSetTheorems, TLAPS

\* What a search is for, and the labels of a thread.
BusySearch == {"full", "resume", "yield", "migrate"}
IdleSearch == {"spin", "last"}
Searches   == {"local", "localpop", "steal", "stealpop"}
Enqueues   == {"tail", "yieldtail", "link", "yieldlink"}
Labels     == BusySearch \cup IdleSearch \cup Searches \cup Enqueues
                \cup {"run", "unblock", "dec", "wake", "post", "idle", "wait", "halt"}

SchedTypeOK ==
  /\ pc \in [Threads -> Labels]
  /\ search \in [Procs -> BusySearch \cup IdleSearch]
  /\ victim \in [Procs -> Procs]
  /\ cur \in [Procs -> Freds \cup {Null}]
  /\ arg \in [Threads -> Freds \cup {Null}]
  /\ next \in [Procs -> Freds \cup {Null}]
  /\ parked \subseteq Freds
  /\ home \in [Freds -> Procs]
  /\ rq \in [Procs -> Seq(Freds)]

\* A thread holds a fred to enqueue or to park from the switch to the push,
\* and a processor a fred it has found from the search to the switch.
HandsMatch ==
  /\ \A t \in Threads : arg[t] # Null <=> pc[t] \in Enqueues \cup {"post"}
  /\ \A p \in Procs : next[p] # Null => pc[p] \in BusySearch \cup IdleSearch
  /\ \A t \in Outside : pc[t] \in {"run", "tail", "link", "unblock", "dec", "wake"}

\* A processor in its idle loop runs no fred; one that has to switch does.
\* A search ends where it was started for.
CurMatches ==
  \A p \in Procs :
    LET why == IF pc[p] \in Searches THEN search[p] ELSE pc[p]
    IN /\ why \in BusySearch \cup {"run"} => cur[p] # Null
       /\ why \in IdleSearch \cup {"idle", "wait", "halt"} => cur[p] = Null
       /\ pc[p] \in BusySearch \cup IdleSearch => search[p] = pc[p]

\* x is a place of f.
In(f, x) ==
  \/ \E p \in Procs : cur[p] = f /\ x = <<"cur", p>>
  \/ \E p \in Procs : next[p] = f /\ x = <<"next", p>>
  \/ \E t \in Threads : /\ arg[t] = f /\ pc[t] \notin {"link", "yieldlink"}
                        /\ x = <<"arg", t>>
  \/ f \in parked /\ x = <<"parked", Null>>
  \/ \E p \in Procs : \E i \in DOMAIN rq[p] : rq[p][i] = f /\ x = <<"rq", p, i>>

\* f has one place.
Single(f) == \E x : \A y : In(f, y) <=> y = x

OnePlace == \A f \in Freds : Single(f)

SchedInv == SchedTypeOK /\ HandsMatch /\ CurMatches /\ OnePlace
---------------------------------------------------------------------------
(* Places                                                                  *)

\* Places collects what In describes.
LEMMA PlacesIn == \A f \in Freds : \A x : x \in Places(f) <=> In(f, x)
  BY DEF Places, In

\* A fred whose places do not change keeps its one place.
LEMMA SingleKept ==
  ASSUME NEW f, Single(f), \A y : In(f, y)' <=> In(f, y)
  PROVE  Single(f)'
<1>1. PICK x : \A y : In(f, y) <=> y = x
  BY DEF Single
<1>2. \A y : In(f, y)' <=> y = x
  BY <1>1
<1> QED BY <1>2 DEF Single

\* A fred that leaves its place a for b has one place.
LEMMA SingleMoved ==
  ASSUME NEW f, Single(f), NEW a, NEW b, In(f, a),
         \A y : In(f, y)' <=> (In(f, y) /\ y # a) \/ y = b
  PROVE  Single(f)'
<1>1. PICK x : \A y : In(f, y) <=> y = x
  BY DEF Single
<1>2. \A y : In(f, y)' <=> y = b
  BY <1>1
<1> QED BY <1>2 DEF Single

\* A step that leaves alone what places are made of.
LEMMA PlacesKept ==
  ASSUME OnePlace, UNCHANGED <<cur, next, parked, rq>>,
         \A f \in Freds, t \in Threads :
           arg'[t] = f /\ pc'[t] \notin {"link", "yieldlink"}
             <=> arg[t] = f /\ pc[t] \notin {"link", "yieldlink"}
  PROVE  OnePlace'
<1>1. SUFFICES ASSUME NEW f \in Freds PROVE Single(f)'
  BY DEF OnePlace
<1>2. Single(f)
  BY DEF OnePlace
<1>3. ASSUME NEW y PROVE In(f, y)' <=> In(f, y)
  BY DEF In
<1> QED BY <1>2, <1>3, SingleKept

\* Processors are threads, and the ring is made of processors.
LEMMA ThreadFacts ==
  /\ Procs \subseteq Threads /\ Outside \subseteq Threads /\ Procs \cap Outside = {}
  /\ Threads = Procs \cup Outside /\ Null \notin Freds
  /\ \A p \in Procs : RingNext(p) \in Procs
  BY ReadyQueueAssumption DEF Threads, Procs, RingNext

\* pop() moves the others up by one.
LEMMA PopFacts ==
  ASSUME SchedTypeOK, NEW p \in Procs, NEW f, PopQueue(p, f)
  PROVE  /\ f = rq[p][1] /\ f \in Freds /\ Len(rq[p]) >= 1
         /\ rq' = [rq EXCEPT ![p] = Tail(rq[p])]
         /\ rq' \in [Procs -> Seq(Freds)]
         /\ DOMAIN rq[p] = 1 .. Len(rq[p])
         /\ DOMAIN rq'[p] = 1 .. (Len(rq[p]) - 1)
         /\ \A i \in DOMAIN rq'[p] : rq'[p][i] = rq[p][i + 1]
<1>1. rq[p] \in Seq(Freds) /\ rq' = [rq EXCEPT ![p] = Tail(rq[p])]
  BY DEF SchedTypeOK, PopQueue
<1>2. rq[p] # <<>>
  BY <1>1 DEF PopQueue, NoHead
<1>3. Tail(rq[p]) \in Seq(Freds) /\ Len(Tail(rq[p])) = Len(rq[p]) - 1 /\ Len(rq[p]) >= 1
  BY <1>1, <1>2
<1>4. \A i \in 1 .. (Len(rq[p]) - 1) : Tail(rq[p])[i] = rq[p][i + 1]
  BY <1>1, <1>2
<1>5. rq'[p] = Tail(rq[p])
  BY <1>1 DEF SchedTypeOK
<1>6. f = rq[p][1] /\ f \in Freds
  BY <1>1, <1>2, <1>3 DEF PopQueue
<1>7. rq' \in [Procs -> Seq(Freds)]
  BY <1>1, <1>3 DEF SchedTypeOK
<1> QED BY <1>1, <1>3, <1>4, <1>5, <1>6, <1>7

\* A fred that moves to b and was at a alone.
LEMMA SingleAt ==
  ASSUME NEW f, NEW b, In(f, b)', \A y : In(f, y)' => y = b
  PROVE  Single(f)'
  BY DEF Single

\* A fred with one place has no second one.
LEMMA SingleIs ==
  ASSUME NEW f, Single(f), NEW a, In(f, a), NEW y, In(f, y)
  PROVE  y = a
  BY DEF Single

\* What a push or a pop does to a thread that is not at a link.
LEMMA ResumePlace ==
  ASSUME SchedInv, NEW t \in Threads, NEW f \in Freds, Resume(t, f)
  PROVE  OnePlace'
<1>1. /\ f \in parked /\ parked' = parked \ {f} /\ arg[t] = Null
      /\ arg' = [arg EXCEPT ![t] = f] /\ pc' = [pc EXCEPT ![t] = "tail"]
      /\ UNCHANGED <<cur, next, rq>>
  BY DEF SchedInv, HandsMatch, Enqueues, Resume, Goto, readyVars
<1>2. SUFFICES ASSUME NEW g \in Freds PROVE Single(g)'
  BY DEF OnePlace
<1>3. Single(g)
  BY DEF SchedInv, OnePlace
<1>t. /\ arg \in [Threads -> Freds \cup {Null}] /\ pc \in [Threads -> Labels]
      /\ Null \notin Freds
  BY ThreadFacts DEF SchedInv, SchedTypeOK
<1>4. CASE g # f
  <2>1. ASSUME NEW y PROVE In(g, y)' <=> In(g, y)
    BY <1>1, <1>4, <1>t DEF In
  <2> QED BY <1>3, <2>1, SingleKept
<1>5. CASE g = f
  <2>1. In(f, <<"parked", Null>>)
    BY <1>1 DEF In
  <2>2. In(f, <<"arg", t>>)'
    BY <1>1, <1>t DEF In
  <2>3. ASSUME NEW y, In(f, y)', y # <<"arg", t>> PROVE In(f, y) /\ y # <<"parked", Null>>
    BY <2>3, <1>1, <1>t DEF In
  <2> QED BY <1>3, <1>5, <2>1, <2>2, <2>3, SingleAt, SingleIs
<1> QED BY <1>4, <1>5

\* push(): the exchange of the tail puts the fred into its queue.
LEMMA EnqueueTailPlace ==
  ASSUME SchedInv, NEW t \in Threads, EnqueueTail(t)
  PROVE  OnePlace'
<1>t. /\ arg \in [Threads -> Freds \cup {Null}] /\ pc \in [Threads -> Labels]
      /\ Null \notin Freds
      /\ rq \in [Procs -> Seq(Freds)]
  BY ThreadFacts DEF SchedInv, SchedTypeOK
<1>0. arg[t] \in Freds /\ home[arg[t]] \in Procs /\ pc[t] \notin {"link", "yieldlink"}
  BY <1>t DEF SchedInv, SchedTypeOK, HandsMatch, EnqueueTail, Enqueues
<1>a. PICK f \in Freds, p \in Procs : f = arg[t] /\ p = home[arg[t]]
  BY <1>0
<1>b. PICK k : k = Len(rq[p]) + 1
  OBVIOUS
<1>1. f = arg[t] /\ p = home[arg[t]] /\ k = Len(rq[p]) + 1
  BY <1>a, <1>b
<1>2. /\ rq' = [rq EXCEPT ![p] = Append(rq[p], f)] /\ pc'[t] \in {"link", "yieldlink"}
      /\ \A u \in Threads : u # t => pc'[u] = pc[u]
      /\ UNCHANGED <<cur, next, parked, arg>>
  BY <1>t, <1>1 DEF EnqueueTail, PushTail, Goto
<1>3. /\ k \in Nat \ {0} /\ DOMAIN rq[p] = 1 .. (k - 1) /\ DOMAIN rq'[p] = 1 .. k
      /\ rq'[p][k] = f
      /\ \A i \in 1 .. (k - 1) : rq'[p][i] = rq[p][i]
      /\ \A q \in Procs : q # p => rq'[q] = rq[q]
  BY <1>t, <1>1, <1>2
<1>4. SUFFICES ASSUME NEW g \in Freds PROVE Single(g)'
  BY DEF OnePlace
<1>5. Single(g)
  BY DEF SchedInv, OnePlace
<1>6. ASSUME NEW y, NEW h \in Freds, In(h, y)', y # <<"rq", p, k>>
      PROVE  In(h, y) /\ y # <<"arg", t>>
  BY <1>6, <1>2, <1>3, <1>t, <1>0, <1>1 DEF In
<1>7. ASSUME NEW y, NEW h \in Freds, h # f, In(h, y) PROVE In(h, y)'
  BY <1>7, <1>2, <1>3, <1>t, <1>0, <1>1 DEF In
<1>8. ASSUME NEW h \in Freds, In(h, <<"rq", p, k>>)' PROVE h = f
  BY <1>8, <1>3, <1>1 DEF In
<1>9. CASE g # f
  <2>1. ASSUME NEW y PROVE In(g, y)' <=> In(g, y)
    BY <1>6, <1>7, <1>8, <1>9
  <2> QED BY <1>5, <2>1, SingleKept
<1>10. CASE g = f
  <2>1. In(f, <<"arg", t>>)
    BY <1>0, <1>1 DEF In
  <2>2. In(f, <<"rq", p, k>>)'
    BY <1>1, <1>3 DEF In
  <2> QED BY <1>5, <1>6, <1>10, <2>1, <2>2, SingleAt, SingleIs
<1> QED BY <1>9, <1>10

\* pop(): the fred moves to the processor that has popped it.
LEMMA PopPlace ==
  ASSUME SchedInv, NEW p \in Procs, NEW v \in Procs, NEW f, PopQueue(v, f),
         next[p] = Null, next' = [next EXCEPT ![p] = f], UNCHANGED <<cur, arg, parked>>,
         \A t \in Threads : pc'[t] \in {"link", "yieldlink"} <=> pc[t] \in {"link", "yieldlink"}
  PROVE  OnePlace'
<1>t. /\ next \in [Procs -> Freds \cup {Null}] /\ Null \notin Freds
      /\ rq \in [Procs -> Seq(Freds)]
  BY ThreadFacts DEF SchedInv, SchedTypeOK
<1>1. PICK n \in Nat : n = Len(rq[v])
  BY <1>t
<1>2. /\ f = rq[v][1] /\ f \in Freds /\ n >= 1 /\ DOMAIN rq[v] = 1 .. n
      /\ DOMAIN rq'[v] = 1 .. (n - 1)
      /\ \A i \in 1 .. (n - 1) : rq'[v][i] = rq[v][i + 1]
      /\ \A q \in Procs : q # v => rq'[q] = rq[q]
  BY PopFacts, <1>1, <1>t DEF SchedInv
<1>3. SUFFICES ASSUME NEW g \in Freds PROVE Single(g)'
  BY DEF OnePlace
<1>4. Single(g)
  BY DEF SchedInv, OnePlace
<1>5. ASSUME NEW y, \A i \in 1 .. n : y # <<"rq", v, i>>, y # <<"next", p>>
      PROVE  In(g, y)' <=> In(g, y)
  <2>1. (\E q \in Procs : \E i \in DOMAIN rq'[q] : rq'[q][i] = g /\ y = <<"rq", q, i>>)
          <=> \E q \in Procs : \E i \in DOMAIN rq[q] : rq[q][i] = g /\ y = <<"rq", q, i>>
    <3>1. ASSUME NEW q \in Procs
          PROVE  (\E i \in DOMAIN rq'[q] : rq'[q][i] = g /\ y = <<"rq", q, i>>)
                   <=> \E i \in DOMAIN rq[q] : rq[q][i] = g /\ y = <<"rq", q, i>>
      <4>1. CASE q = v
        BY <1>2, <1>5, <4>1
      <4> QED BY <1>2, <4>1
    <3> QED BY <3>1
  <2>2. (\E q \in Procs : next'[q] = g /\ y = <<"next", q>>)
          <=> \E q \in Procs : next[q] = g /\ y = <<"next", q>>
    BY <1>5, <1>t
  <2> QED BY <2>1, <2>2 DEF In
<1>6. ASSUME NEW i \in 1 .. n PROVE In(g, <<"rq", v, i>>) <=> rq[v][i] = g
  BY <1>2 DEF In
<1>7. ASSUME NEW i \in 1 .. n PROVE In(g, <<"rq", v, i>>)' <=> i < n /\ rq[v][i + 1] = g
  BY <1>2 DEF In
<1>8. In(g, <<"next", p>>)' <=> g = f
  BY <1>t DEF In
<1>9. CASE g = f
  <2>1. In(g, <<"rq", v, 1>>)
    BY <1>2, <1>6, <1>9
  <2>2. ASSUME NEW y, In(g, y)' PROVE y = <<"next", p>>
    <3>1. CASE \A i \in 1 .. n : y # <<"rq", v, i>>
      <4>1. y # <<"rq", v, 1>>
        BY <1>2, <3>1
      <4> QED BY <1>4, <1>5, <2>1, <2>2, <3>1, <4>1, SingleIs
    <3>2. CASE \E i \in 1 .. n : y = <<"rq", v, i>>
      <4>1. PICK i \in 1 .. n : y = <<"rq", v, i>>
        BY <3>2
      <4>2. i + 1 \in 1 .. n /\ rq[v][i + 1] = g
        BY <1>7, <2>2, <4>1
      <4>3. In(g, <<"rq", v, i + 1>>)
        BY <1>6, <4>2
      <4>4. <<"rq", v, i + 1>> = <<"rq", v, 1>>
        BY <1>4, <2>1, <4>3, SingleIs
      <4> QED BY <4>4
    <3> QED BY <3>1, <3>2
  <2> QED BY <1>8, <1>9, <2>2, SingleAt
<1>10. CASE g # f /\ \E i \in 1 .. n : rq[v][i] = g
  <2>1. PICK i \in 1 .. n : rq[v][i] = g
    BY <1>10
  <2>2. i - 1 \in 1 .. n /\ (i - 1) + 1 = i /\ i - 1 < n
    BY <1>2, <1>10, <2>1
  <2>3. In(g, <<"rq", v, i>>) /\ In(g, <<"rq", v, i - 1>>)'
    BY <1>6, <1>7, <2>1, <2>2
  <2>4. ASSUME NEW y, In(g, y)' PROVE y = <<"rq", v, i - 1>>
    <3>1. CASE \A j \in 1 .. n : y # <<"rq", v, j>>
      BY <1>4, <1>5, <1>8, <1>10, <2>3, <2>4, <3>1, SingleIs
    <3>2. CASE \E j \in 1 .. n : y = <<"rq", v, j>>
      <4>1. PICK j \in 1 .. n : y = <<"rq", v, j>>
        BY <3>2
      <4>2. j + 1 \in 1 .. n /\ rq[v][j + 1] = g
        BY <1>7, <2>4, <4>1
      <4>3. <<"rq", v, j + 1>> = <<"rq", v, i>>
        BY <1>4, <1>6, <2>3, <4>2, SingleIs
      <4>4. j = i - 1
        BY <4>3
      <4> QED BY <4>1, <4>4
    <3> QED BY <3>1, <3>2
  <2> QED BY <2>3, <2>4, SingleAt
<1>11. CASE g # f /\ \A i \in 1 .. n : rq[v][i] # g
  <2>1. ~In(g, <<"next", p>>)
    BY <1>t DEF In
  <2>2. ASSUME NEW y PROVE In(g, y)' <=> In(g, y)
    <3>1. CASE y = <<"next", p>>
      BY <1>8, <1>11, <2>1, <3>1
    <3>2. CASE \E i \in 1 .. n : y = <<"rq", v, i>>
      <4>1. PICK i \in 1 .. n : y = <<"rq", v, i>>
        BY <3>2
      <4>2. i < n => i + 1 \in 1 .. n
        OBVIOUS
      <4> QED BY <1>6, <1>7, <1>11, <4>1, <4>2
    <3> QED BY <1>5, <3>1, <3>2
  <2> QED BY <1>4, <2>2, SingleKept
<1> QED BY <1>9, <1>10, <1>11

\* Switch: the fred that was running moves to the hands of the code after the
\* switch, the one that was found, if any, runs.
LEMMA SwitchPlace ==
  ASSUME SchedInv, NEW p \in Procs, cur[p] # Null, arg[p] = Null,
         cur' = [cur EXCEPT ![p] = next[p]], arg' = [arg EXCEPT ![p] = cur[p]],
         next' = [next EXCEPT ![p] = Null], UNCHANGED <<rq, parked>>,
         \A t \in Threads : t # p => pc'[t] = pc[t], pc'[p] \notin {"link", "yieldlink"}
  PROVE  OnePlace'
<1>t. /\ cur \in [Procs -> Freds \cup {Null}] /\ next \in [Procs -> Freds \cup {Null}]
      /\ arg \in [Threads -> Freds \cup {Null}] /\ Null \notin Freds /\ p \in Threads
  BY ThreadFacts DEF SchedInv, SchedTypeOK
<1>1. SUFFICES ASSUME NEW g \in Freds PROVE Single(g)'
  BY DEF OnePlace
<1>2. Single(g)
  BY DEF SchedInv, OnePlace
<1>3. ASSUME NEW y, y # <<"cur", p>>, y # <<"arg", p>>, y # <<"next", p>>
      PROVE  In(g, y)' <=> In(g, y)
  BY <1>3, <1>t DEF In
<1>4. /\ In(g, <<"cur", p>>) <=> cur[p] = g
      /\ In(g, <<"next", p>>) <=> next[p] = g
      /\ ~In(g, <<"arg", p>>)
  BY <1>t DEF In
<1>5. /\ In(g, <<"cur", p>>)' <=> next[p] = g
      /\ In(g, <<"arg", p>>)' <=> cur[p] = g
      /\ ~In(g, <<"next", p>>)'
  BY <1>t DEF In
<1>6. CASE cur[p] = g
  <2>1. ASSUME NEW y, In(g, y)' PROVE y = <<"arg", p>>
    <3>1. <<"next", p>> # <<"cur", p>>
      OBVIOUS
    <3> QED BY <1>2, <1>3, <1>4, <1>5, <1>6, <2>1, <3>1, SingleIs
  <2> QED BY <1>5, <1>6, <2>1, SingleAt
<1>7. CASE next[p] = g /\ cur[p] # g
  <2>1. ASSUME NEW y, In(g, y)' PROVE y = <<"cur", p>>
    BY <1>2, <1>3, <1>4, <1>5, <1>7, <2>1, SingleIs
  <2> QED BY <1>5, <1>7, <2>1, SingleAt
<1>8. CASE next[p] # g /\ cur[p] # g
  BY <1>2, <1>3, <1>4, <1>5, <1>8, SingleKept
<1> QED BY <1>6, <1>7, <1>8

\* A processor leaves its idle loop with the fred it has found.
LEMMA TakePlace ==
  ASSUME SchedInv, NEW p \in Procs, cur[p] = Null,
         cur' = [cur EXCEPT ![p] = next[p]], next' = [next EXCEPT ![p] = Null],
         UNCHANGED <<arg, rq, parked>>,
         \A t \in Threads : pc'[t] \in {"link", "yieldlink"} <=> pc[t] \in {"link", "yieldlink"}
  PROVE  OnePlace'
<1>t. /\ cur \in [Procs -> Freds \cup {Null}] /\ next \in [Procs -> Freds \cup {Null}]
      /\ Null \notin Freds
  BY ThreadFacts DEF SchedInv, SchedTypeOK
<1>1. SUFFICES ASSUME NEW g \in Freds PROVE Single(g)'
  BY DEF OnePlace
<1>2. Single(g)
  BY DEF SchedInv, OnePlace
<1>3. ASSUME NEW y, y # <<"cur", p>>, y # <<"next", p>>
      PROVE  In(g, y)' <=> In(g, y)
  BY <1>3, <1>t DEF In
<1>4. /\ ~In(g, <<"cur", p>>) /\ ~In(g, <<"next", p>>)'
      /\ In(g, <<"next", p>>) <=> next[p] = g
      /\ In(g, <<"cur", p>>)' <=> next[p] = g
  BY <1>t DEF In
<1>5. CASE next[p] = g
  <2>1. ASSUME NEW y, In(g, y)' PROVE y = <<"cur", p>>
    BY <1>2, <1>3, <1>4, <1>5, <2>1, SingleIs
  <2> QED BY <1>4, <1>5, <2>1, SingleAt
<1>6. CASE next[p] # g
  BY <1>2, <1>3, <1>4, <1>6, SingleKept
<1> QED BY <1>5, <1>6

\* postSuspend() parks the fred it was handed.
LEMMA ParkPlace ==
  ASSUME SchedInv, NEW p \in Procs, arg[p] # Null, pc[p] \notin {"link", "yieldlink"},
         parked' = parked \cup {arg[p]}, arg' = [arg EXCEPT ![p] = Null],
         UNCHANGED <<cur, next, rq>>, \A t \in Threads : t # p => pc'[t] = pc[t]
  PROVE  OnePlace'
<1>t. arg \in [Threads -> Freds \cup {Null}] /\ Null \notin Freds /\ p \in Threads
  BY ThreadFacts DEF SchedInv, SchedTypeOK
<1>1. SUFFICES ASSUME NEW g \in Freds PROVE Single(g)'
  BY DEF OnePlace
<1>2. Single(g)
  BY DEF SchedInv, OnePlace
<1>3. ASSUME NEW y, y # <<"arg", p>>, y # <<"parked", Null>>
      PROVE  In(g, y)' <=> In(g, y)
  BY <1>3, <1>t DEF In
<1>4. /\ In(g, <<"arg", p>>) <=> arg[p] = g
      /\ ~In(g, <<"arg", p>>)'
      /\ In(g, <<"parked", Null>>) <=> g \in parked
      /\ In(g, <<"parked", Null>>)' <=> g \in parked \/ g = arg[p]
  BY <1>t DEF In
<1>5. CASE arg[p] = g
  <2>1. ASSUME NEW y, In(g, y)' PROVE y = <<"parked", Null>>
    BY <1>2, <1>3, <1>4, <1>5, <2>1, SingleIs
  <2> QED BY <1>4, <1>5, <2>1, SingleAt
<1>6. CASE arg[p] # g
  BY <1>2, <1>3, <1>4, <1>6, SingleKept
<1> QED BY <1>5, <1>6

---------------------------------------------------------------------------
(* The invariant is kept by every step.                                     *)

\* push(): the link; the fred is in the queue already.
LEMMA EnqueueLinkInv ==
  ASSUME SchedInv, NEW t \in Threads, EnqueueLink(t)
  PROVE  SchedInv'
<1>1. SchedTypeOK'
  BY ThreadFacts DEF SchedInv, SchedTypeOK, BusySearch, IdleSearch, Searches,
     Enqueues, Labels, EnqueueLink, PushLink, Proceed, Goto
<1>2. HandsMatch'
  BY ThreadFacts DEF SchedInv, SchedTypeOK, HandsMatch, BusySearch, IdleSearch,
     Enqueues, EnqueueLink, PushLink, Proceed, Goto
<1>3. CurMatches'
  BY ThreadFacts DEF SchedInv, SchedTypeOK, CurMatches, BusySearch, IdleSearch,
     Searches, EnqueueLink, PushLink, Proceed, Goto
<1>4. OnePlace'
  BY PlacesKept, ThreadFacts DEF SchedInv, SchedTypeOK, HandsMatch, Enqueues,
     EnqueueLink, PushLink, Proceed, Goto
<1> QED BY <1>1, <1>2, <1>3, <1>4 DEF SchedInv

\* unblock() finds nobody waiting.
LEMMA UnblockNoneInv ==
  ASSUME SchedInv, NEW t \in Threads, UnblockNone(t)
  PROVE  SchedInv'
<1>1. SchedTypeOK'
  BY ThreadFacts DEF SchedInv, SchedTypeOK, BusySearch, IdleSearch, Searches,
     Enqueues, Labels, UnblockNone, Proceed, Goto, readyVars
<1>2. HandsMatch'
  BY ThreadFacts DEF SchedInv, SchedTypeOK, HandsMatch, BusySearch, IdleSearch,
     Enqueues, UnblockNone, Proceed, Goto, readyVars
<1>3. CurMatches'
  BY ThreadFacts DEF SchedInv, SchedTypeOK, CurMatches, BusySearch, IdleSearch,
     Searches, UnblockNone, Proceed, Goto, readyVars
<1>4. OnePlace'
  BY PlacesKept, ThreadFacts DEF SchedInv, SchedTypeOK, HandsMatch, Enqueues,
     UnblockNone, Proceed, Goto, readyVars
<1> QED BY <1>1, <1>2, <1>3, <1>4 DEF SchedInv

\* unblock() takes a processor off the list.
LEMMA UnblockPopInv ==
  ASSUME SchedInv, NEW t \in Threads, UnblockPop(t)
  PROVE  SchedInv'
<1>1. SchedTypeOK'
  BY ThreadFacts DEF SchedInv, SchedTypeOK, BusySearch, IdleSearch, Searches,
     Enqueues, Labels, UnblockPop, Goto, readyVars
<1>2. HandsMatch'
  BY ThreadFacts DEF SchedInv, SchedTypeOK, HandsMatch, BusySearch, IdleSearch,
     Enqueues, UnblockPop, Goto, readyVars
<1>3. CurMatches'
  BY ThreadFacts DEF SchedInv, SchedTypeOK, CurMatches, BusySearch, IdleSearch,
     Searches, UnblockPop, Goto, readyVars
<1>4. OnePlace'
  BY PlacesKept, ThreadFacts DEF SchedInv, SchedTypeOK, HandsMatch, Enqueues,
     UnblockPop, Goto, readyVars
<1> QED BY <1>1, <1>2, <1>3, <1>4 DEF SchedInv

\* unblock() has taken a processor off and counts down.
LEMMA UnblockDecInv ==
  ASSUME SchedInv, NEW t \in Threads, UnblockDec(t)
  PROVE  SchedInv'
<1>1. SchedTypeOK'
  BY ThreadFacts DEF SchedInv, SchedTypeOK, BusySearch, IdleSearch, Searches,
     Enqueues, Labels, UnblockDec, Goto, readyVars
<1>2. HandsMatch'
  BY ThreadFacts DEF SchedInv, SchedTypeOK, HandsMatch, BusySearch, IdleSearch,
     Enqueues, UnblockDec, Goto, readyVars
<1>3. CurMatches'
  BY ThreadFacts DEF SchedInv, SchedTypeOK, CurMatches, BusySearch, IdleSearch,
     Searches, UnblockDec, Goto, readyVars
<1>4. OnePlace'
  BY PlacesKept, ThreadFacts DEF SchedInv, SchedTypeOK, HandsMatch, Enqueues,
     UnblockDec, Goto, readyVars
<1> QED BY <1>1, <1>2, <1>3, <1>4 DEF SchedInv

\* wake().
LEMMA WakeInv ==
  ASSUME SchedInv, NEW t \in Threads, Wake(t)
  PROVE  SchedInv'
<1>1. SchedTypeOK'
  BY ThreadFacts DEF SchedInv, SchedTypeOK, BusySearch, IdleSearch, Searches,
     Enqueues, Labels, Wake, Proceed, Goto, readyVars
<1>2. HandsMatch'
  BY ThreadFacts DEF SchedInv, SchedTypeOK, HandsMatch, BusySearch, IdleSearch,
     Enqueues, Wake, Proceed, Goto, readyVars
<1>3. CurMatches'
  BY ThreadFacts DEF SchedInv, SchedTypeOK, CurMatches, BusySearch, IdleSearch,
     Searches, Wake, Proceed, Goto, readyVars
<1>4. OnePlace'
  BY PlacesKept, ThreadFacts DEF SchedInv, SchedTypeOK, HandsMatch, Enqueues, Wake,
     Proceed, Goto, readyVars
<1> QED BY <1>1, <1>2, <1>3, <1>4 DEF SchedInv

\* searchLocal() takes the lock of the queue.
LEMMA SearchLocalInv ==
  ASSUME SchedInv, NEW p \in Procs, SearchLocal(p)
  PROVE  SchedInv'
<1>1. SchedTypeOK'
  BY ThreadFacts DEF SchedInv, SchedTypeOK, BusySearch, IdleSearch, Searches,
     Enqueues, Labels, SearchLocal, LockQueue, Goto
<1>2. HandsMatch'
  BY ThreadFacts DEF SchedInv, SchedTypeOK, HandsMatch, BusySearch, IdleSearch,
     Enqueues, SearchLocal, LockQueue, Goto
<1>3. CurMatches'
  BY ThreadFacts DEF SchedInv, SchedTypeOK, CurMatches, BusySearch, IdleSearch,
     Searches, SearchLocal, LockQueue, Goto
<1>4. OnePlace'
  BY PlacesKept, ThreadFacts DEF SchedInv, SchedTypeOK, HandsMatch, Enqueues,
     SearchLocal, LockQueue, Goto
<1> QED BY <1>1, <1>2, <1>3, <1>4 DEF SchedInv

\* tryDequeue() takes the lock of another queue, or gives up.
LEMMA TryDequeueInv ==
  ASSUME SchedInv, NEW p \in Procs, TryDequeue(p)
  PROVE  SchedInv'
<1>1. SchedTypeOK'
  <2>1. CASE pc' = [pc EXCEPT ![p] = "stealpop"] /\ UNCHANGED <<victim, rq>>
    BY <2>1, ThreadFacts DEF SchedInv, SchedTypeOK, BusySearch, IdleSearch, Searches,
       Enqueues, Labels, TryDequeue, LockQueue, Goto, readyVars
  <2>2. CASE victim' = [victim EXCEPT ![p] = RingNext(@)] /\ UNCHANGED <<pc, rq>>
    BY <2>2, ThreadFacts DEF SchedInv, SchedTypeOK, BusySearch, IdleSearch, Searches,
       Enqueues, Labels, TryDequeue, LockQueue, Goto, readyVars
  <2> QED BY <2>1, <2>2 DEF TryDequeue, LockQueue, Goto, readyVars
<1>2. HandsMatch'
  <2>1. CASE pc' = [pc EXCEPT ![p] = "stealpop"] /\ UNCHANGED <<victim, rq>>
    BY <2>1, ThreadFacts DEF SchedInv, SchedTypeOK, HandsMatch, BusySearch,
       IdleSearch, Enqueues, TryDequeue, LockQueue, Goto, readyVars
  <2>2. CASE victim' = [victim EXCEPT ![p] = RingNext(@)] /\ UNCHANGED <<pc, rq>>
    BY <2>2, ThreadFacts DEF SchedInv, SchedTypeOK, HandsMatch, Enqueues, TryDequeue,
       LockQueue, Goto, readyVars
  <2> QED BY <2>1, <2>2 DEF TryDequeue, LockQueue, Goto, readyVars
<1>3. CurMatches'
  BY ThreadFacts DEF SchedInv, SchedTypeOK, CurMatches, BusySearch, IdleSearch,
     Searches, TryDequeue, LockQueue, Goto, readyVars
<1>4. OnePlace'
  BY PlacesKept, ThreadFacts DEF SchedInv, SchedTypeOK, HandsMatch, Enqueues,
     TryDequeue, LockQueue, Goto, readyVars
<1> QED BY <1>1, <1>2, <1>3, <1>4 DEF SchedInv

\* searchSteal() is through with the ring.
LEMMA StealNothingInv ==
  ASSUME SchedInv, NEW p \in Procs, StealNothing(p)
  PROVE  SchedInv'
<1>1. SchedTypeOK'
  BY ThreadFacts DEF SchedInv, SchedTypeOK, BusySearch, IdleSearch, Searches,
     Enqueues, Labels, StealNothing, Goto, readyVars
<1>2. HandsMatch'
  BY ThreadFacts DEF SchedInv, SchedTypeOK, HandsMatch, BusySearch, IdleSearch,
     Enqueues, StealNothing, Goto, readyVars
<1>3. CurMatches'
  BY ThreadFacts DEF SchedInv, SchedTypeOK, CurMatches, BusySearch, IdleSearch,
     Searches, StealNothing, Goto, readyVars
<1>4. OnePlace'
  BY PlacesKept, ThreadFacts DEF SchedInv, SchedTypeOK, HandsMatch, Enqueues,
     StealNothing, Goto, readyVars
<1> QED BY <1>1, <1>2, <1>3, <1>4 DEF SchedInv

\* suspend() starts to search.
LEMMA SuspendInv ==
  ASSUME SchedInv, NEW p \in Procs, Suspend(p)
  PROVE  SchedInv'
<1>1. SchedTypeOK'
  BY ThreadFacts DEF SchedInv, SchedTypeOK, BusySearch, IdleSearch, Searches,
     Enqueues, Labels, Suspend, Goto, readyVars
<1>2. HandsMatch'
  BY ThreadFacts DEF SchedInv, SchedTypeOK, HandsMatch, BusySearch, IdleSearch,
     Enqueues, Suspend, Goto, readyVars
<1>3. CurMatches'
  BY ThreadFacts DEF SchedInv, SchedTypeOK, CurMatches, BusySearch, IdleSearch,
     Searches, Suspend, Goto, readyVars
<1>4. OnePlace'
  BY PlacesKept, ThreadFacts DEF SchedInv, SchedTypeOK, HandsMatch, Enqueues, Suspend,
     Goto, readyVars
<1> QED BY <1>1, <1>2, <1>3, <1>4 DEF SchedInv

\* yield() starts to search.
LEMMA YieldInv ==
  ASSUME SchedInv, NEW p \in Procs, Yield(p)
  PROVE  SchedInv'
<1>1. SchedTypeOK'
  BY ThreadFacts DEF SchedInv, SchedTypeOK, BusySearch, IdleSearch, Searches,
     Enqueues, Labels, Yield, Goto, readyVars
<1>2. HandsMatch'
  BY ThreadFacts DEF SchedInv, SchedTypeOK, HandsMatch, BusySearch, IdleSearch,
     Enqueues, Yield, Goto, readyVars
<1>3. CurMatches'
  BY ThreadFacts DEF SchedInv, SchedTypeOK, CurMatches, BusySearch, IdleSearch,
     Searches, Yield, Goto, readyVars
<1>4. OnePlace'
  BY PlacesKept, ThreadFacts DEF SchedInv, SchedTypeOK, HandsMatch, Enqueues, Yield,
     Goto, readyVars
<1> QED BY <1>1, <1>2, <1>3, <1>4 DEF SchedInv

\* migrate() starts to search.
LEMMA MigrateInv ==
  ASSUME SchedInv, NEW p \in Procs, NEW q \in Procs, Migrate(p, q)
  PROVE  SchedInv'
<1>1. SchedTypeOK'
  BY ThreadFacts DEF SchedInv, SchedTypeOK, BusySearch, IdleSearch, Searches,
     Enqueues, Labels, Migrate, Goto, readyVars
<1>2. HandsMatch'
  BY ThreadFacts DEF SchedInv, SchedTypeOK, HandsMatch, BusySearch, IdleSearch,
     Enqueues, Migrate, Goto, readyVars
<1>3. CurMatches'
  BY ThreadFacts DEF SchedInv, SchedTypeOK, CurMatches, BusySearch, IdleSearch,
     Searches, Migrate, Goto, readyVars
<1>4. OnePlace'
  BY PlacesKept, ThreadFacts DEF SchedInv, SchedTypeOK, HandsMatch, Enqueues, Migrate,
     Goto, readyVars
<1> QED BY <1>1, <1>2, <1>3, <1>4 DEF SchedInv

\* The idle loop starts to spin.
LEMMA SpinStartInv ==
  ASSUME SchedInv, NEW p \in Procs, SpinStart(p)
  PROVE  SchedInv'
<1>1. SchedTypeOK'
  BY ThreadFacts DEF SchedInv, SchedTypeOK, BusySearch, IdleSearch, Searches,
     Enqueues, Labels, SpinStart, Goto, readyVars
<1>2. HandsMatch'
  BY ThreadFacts DEF SchedInv, SchedTypeOK, HandsMatch, BusySearch, IdleSearch,
     Enqueues, SpinStart, Goto, readyVars
<1>3. CurMatches'
  BY ThreadFacts DEF SchedInv, SchedTypeOK, CurMatches, BusySearch, IdleSearch,
     Searches, SpinStart, Goto, readyVars
<1>4. OnePlace'
  BY PlacesKept, ThreadFacts DEF SchedInv, SchedTypeOK, HandsMatch, Enqueues,
     SpinStart, Goto, readyVars
<1> QED BY <1>1, <1>2, <1>3, <1>4 DEF SchedInv

\* The idle loop spins on, or stops.
LEMMA SpinNothingInv ==
  ASSUME SchedInv, NEW p \in Procs, SpinNothing(p)
  PROVE  SchedInv'
<1>1. SchedTypeOK'
  BY ThreadFacts DEF SchedInv, SchedTypeOK, BusySearch, IdleSearch, Searches,
     Enqueues, Labels, SpinNothing, Goto, readyVars
<1>2. HandsMatch'
  BY ThreadFacts DEF SchedInv, SchedTypeOK, HandsMatch, Enqueues, SpinNothing, Goto,
     readyVars
<1>3. CurMatches'
  <2>1. CASE pc' = [pc EXCEPT ![p] = "local"]
    BY <2>1, ThreadFacts DEF SchedInv, SchedTypeOK, HandsMatch, CurMatches,
       BusySearch, IdleSearch, Searches, SpinNothing, Goto, readyVars
  <2>2. CASE pc' = [pc EXCEPT ![p] = "wait"]
    BY <2>2, ThreadFacts DEF SchedInv, SchedTypeOK, HandsMatch, CurMatches,
       BusySearch, IdleSearch, Searches, SpinNothing, Goto, readyVars
  <2> QED BY <2>1, <2>2 DEF SpinNothing, Goto, readyVars
<1>4. OnePlace'
  BY PlacesKept, ThreadFacts DEF SchedInv, SchedTypeOK, HandsMatch, Enqueues,
     SpinNothing, Goto, readyVars
<1> QED BY <1>1, <1>2, <1>3, <1>4 DEF SchedInv

\* incWaiting().
LEMMA WaitStartInv ==
  ASSUME SchedInv, NEW p \in Procs, WaitStart(p)
  PROVE  SchedInv'
<1>1. SchedTypeOK'
  BY ThreadFacts DEF SchedInv, SchedTypeOK, BusySearch, IdleSearch, Searches,
     Enqueues, Labels, WaitStart, Goto, readyVars
<1>2. HandsMatch'
  BY ThreadFacts DEF SchedInv, SchedTypeOK, HandsMatch, BusySearch, IdleSearch,
     Enqueues, WaitStart, Goto, readyVars
<1>3. CurMatches'
  BY ThreadFacts DEF SchedInv, SchedTypeOK, CurMatches, BusySearch, IdleSearch,
     Searches, WaitStart, Goto, readyVars
<1>4. OnePlace'
  BY PlacesKept, ThreadFacts DEF SchedInv, SchedTypeOK, HandsMatch, Enqueues,
     WaitStart, Goto, readyVars
<1> QED BY <1>1, <1>2, <1>3, <1>4 DEF SchedInv

\* block().
LEMMA BlockInv ==
  ASSUME SchedInv, NEW p \in Procs, Block(p)
  PROVE  SchedInv'
<1>1. SchedTypeOK'
  BY ThreadFacts DEF SchedInv, SchedTypeOK, BusySearch, IdleSearch, Searches,
     Enqueues, Labels, Block, Goto, readyVars
<1>2. HandsMatch'
  BY ThreadFacts DEF SchedInv, SchedTypeOK, HandsMatch, Enqueues, Block, Goto,
     readyVars
<1>3. CurMatches'
  BY ThreadFacts DEF SchedInv, SchedTypeOK, CurMatches, BusySearch, IdleSearch,
     Searches, Block, Goto, readyVars
<1>4. OnePlace'
  BY PlacesKept, ThreadFacts DEF SchedInv, SchedTypeOK, HandsMatch, Enqueues, Block,
     Goto, readyVars
<1> QED BY <1>1, <1>2, <1>3, <1>4 DEF SchedInv

\* halt().
LEMMA HaltInv ==
  ASSUME SchedInv, NEW p \in Procs, Halt(p)
  PROVE  SchedInv'
<1>1. SchedTypeOK'
  BY ThreadFacts DEF SchedInv, SchedTypeOK, BusySearch, IdleSearch, Searches,
     Enqueues, Labels, Halt, Goto, readyVars
<1>2. HandsMatch'
  BY ThreadFacts DEF SchedInv, SchedTypeOK, HandsMatch, BusySearch, IdleSearch,
     Enqueues, Halt, Goto, readyVars
<1>3. CurMatches'
  BY ThreadFacts DEF SchedInv, SchedTypeOK, CurMatches, BusySearch, IdleSearch,
     Searches, Halt, Goto, readyVars
<1>4. OnePlace'
  BY PlacesKept, ThreadFacts DEF SchedInv, SchedTypeOK, HandsMatch, Enqueues, Halt,
     Goto, readyVars
<1> QED BY <1>1, <1>2, <1>3, <1>4 DEF SchedInv

\* resume().
LEMMA ResumeInv ==
  ASSUME SchedInv, NEW t \in Threads, NEW f \in Freds, Resume(t, f)
  PROVE  SchedInv'
<1>1. SchedTypeOK'
  BY ThreadFacts DEF SchedInv, SchedTypeOK, BusySearch, IdleSearch, Searches,
     Enqueues, Labels, Resume, Goto, readyVars
<1>2. HandsMatch'
  BY ThreadFacts DEF SchedInv, SchedTypeOK, HandsMatch, BusySearch, IdleSearch,
     Enqueues, Resume, Goto, readyVars
<1>3. CurMatches'
  BY ThreadFacts DEF SchedInv, SchedTypeOK, CurMatches, BusySearch, IdleSearch,
     Searches, Resume, Goto, readyVars
<1>4. OnePlace'
  BY ResumePlace
<1> QED BY <1>1, <1>2, <1>3, <1>4 DEF SchedInv

\* push(): the exchange of the tail.
LEMMA EnqueueTailInv ==
  ASSUME SchedInv, NEW t \in Threads, EnqueueTail(t)
  PROVE  SchedInv'
<1>1. SchedTypeOK'
  BY ThreadFacts DEF SchedInv, SchedTypeOK, HandsMatch, BusySearch, IdleSearch,
     Searches, Enqueues, Labels, EnqueueTail, PushTail, Goto
<1>2. HandsMatch'
  BY ThreadFacts DEF SchedInv, SchedTypeOK, HandsMatch, BusySearch, IdleSearch,
     Enqueues, EnqueueTail, PushTail, Goto
<1>3. CurMatches'
  BY ThreadFacts DEF SchedInv, SchedTypeOK, CurMatches, BusySearch, IdleSearch,
     Searches, EnqueueTail, PushTail, Goto
<1>4. OnePlace'
  BY EnqueueTailPlace
<1> QED BY <1>1, <1>2, <1>3, <1>4 DEF SchedInv

\* searchLocal(): pop() of the own queue.
LEMMA LocalPopInv ==
  ASSUME SchedInv, NEW p \in Procs, LocalPop(p)
  PROVE  SchedInv'
<1>a. /\ pc[p] = "localpop" /\ pc[p] \in Searches /\ pc[p] \notin Enqueues \cup {"post"}
      /\ pc[p] \notin BusySearch \cup IdleSearch
      /\ search[p] \in BusySearch \cup IdleSearch /\ search[p] \notin Enqueues \cup {"post"}
      /\ p \in Procs
  BY DEF SchedInv, SchedTypeOK, LocalPop, Searches, Enqueues, BusySearch, IdleSearch
<1>b. \/ \E f \in Freds : /\ PopQueue(p, f) /\ next' = [next EXCEPT ![p] = f]
                          /\ pc' = [pc EXCEPT ![p] = search[p]]
                          /\ victim' \in [Procs -> Procs] /\ home' \in [Freds -> Procs]
      \/ /\ UNCHANGED <<rq, next, home>> /\ victim' \in [Procs -> Procs]
         /\ \/ pc' = [pc EXCEPT ![p] = "steal"]
            \/ pc' = [pc EXCEPT ![p] = "yield"] /\ search[p] = "yield"
  <2>1. ASSUME NEW f \in Freds, PopQueue(p, f), next' = [next EXCEPT ![p] = f],
               Goto(p, search[p]), UNCHANGED <<victim, home>>
        PROVE  <1>b!1
    BY <2>1 DEF SchedInv, SchedTypeOK, Goto
  <2>2. ASSUME PopNothing(p), UNCHANGED <<next, home>>,
               \/ Goto(p, "steal") /\ victim' = [victim EXCEPT ![p] = RingNext(p)]
               \/ search[p] = "yield" /\ Goto(p, "yield") /\ UNCHANGED victim
        PROVE  <1>b!2
    <3>1. UNCHANGED rq
      BY <2>2 DEF PopNothing
    <3>2. CASE Goto(p, "steal") /\ victim' = [victim EXCEPT ![p] = RingNext(p)]
      <4>1. victim' \in [Procs -> Procs]
        BY <3>2, ThreadFacts DEF SchedInv, SchedTypeOK
      <4> QED BY <2>2, <3>1, <3>2, <4>1 DEF Goto
    <3>3. CASE search[p] = "yield" /\ Goto(p, "yield") /\ UNCHANGED victim
      <4>1. victim' \in [Procs -> Procs]
        BY <3>3 DEF SchedInv, SchedTypeOK
      <4> QED BY <2>2, <3>1, <3>3, <4>1 DEF Goto
    <3> QED BY <2>2, <3>2, <3>3
  <2> QED
    BY <2>1, <2>2 DEF LocalPop
<1>c. UNCHANGED <<search, cur, arg, parked>>
  BY DEF LocalPop
<1>1. SchedTypeOK'
  <2>1. ASSUME NEW f \in Freds, PopQueue(p, f), next' = [next EXCEPT ![p] = f],
               pc' = [pc EXCEPT ![p] = search[p]], victim' \in [Procs -> Procs],
               home' \in [Freds -> Procs]
        PROVE  SchedTypeOK'
    <3>1. rq' \in [Procs -> Seq(Freds)]
      BY <2>1, <1>a, PopFacts DEF SchedInv
    <3> QED
      BY <2>1, <3>1, <1>a, <1>c, ThreadFacts DEF SchedInv, SchedTypeOK, Labels
  <2>2. ASSUME UNCHANGED <<rq, next, home>>, victim' \in [Procs -> Procs],
               \/ pc' = [pc EXCEPT ![p] = "steal"]
               \/ pc' = [pc EXCEPT ![p] = "yield"] /\ search[p] = "yield"
        PROVE  SchedTypeOK'
    BY <2>2, <1>a, <1>c, ThreadFacts DEF SchedInv, SchedTypeOK, Searches, BusySearch,
       Labels
  <2> QED BY <1>b, <2>1, <2>2
<1>2. HandsMatch'
  <2>1. ASSUME NEW f \in Freds, PopQueue(p, f), next' = [next EXCEPT ![p] = f],
               pc' = [pc EXCEPT ![p] = search[p]], victim' \in [Procs -> Procs],
               home' \in [Freds -> Procs]
        PROVE  HandsMatch'
    BY <2>1, <1>a, <1>c, ThreadFacts DEF SchedInv, SchedTypeOK, HandsMatch
  <2>2. ASSUME UNCHANGED <<rq, next, home>>, victim' \in [Procs -> Procs],
               \/ pc' = [pc EXCEPT ![p] = "steal"]
               \/ pc' = [pc EXCEPT ![p] = "yield"] /\ search[p] = "yield"
        PROVE  HandsMatch'
    <3>1. pc'[p] \in {"steal", "yield"} /\ next[p] = Null /\ arg[p] = Null
      BY <2>2, <1>a, ThreadFacts DEF SchedInv, SchedTypeOK, HandsMatch
    <3>2. pc'[p] \notin Enqueues \cup {"post"}
      BY <3>1 DEF Enqueues
    <3>3. \A u \in Threads : u # p => pc'[u] = pc[u]
      BY <2>2, ThreadFacts DEF SchedInv, SchedTypeOK
    <3> QED
      BY <2>2, <3>1, <3>2, <3>3, <1>c, ThreadFacts DEF SchedInv, HandsMatch
  <2> QED BY <1>b, <2>1, <2>2
<1>3. CurMatches'
  <2>1. ASSUME NEW f \in Freds, PopQueue(p, f), next' = [next EXCEPT ![p] = f],
               pc' = [pc EXCEPT ![p] = search[p]], victim' \in [Procs -> Procs],
               home' \in [Freds -> Procs]
        PROVE  CurMatches'
    <3>1. SUFFICES ASSUME NEW q \in Procs, q = p PROVE
              LET why == IF pc'[q] \in Searches THEN search[q] ELSE pc'[q]
              IN /\ why \in BusySearch \cup {"run"} => cur[q] # Null
                 /\ why \in IdleSearch \cup {"idle", "wait", "halt"} => cur[q] = Null
                 /\ pc'[q] \in BusySearch \cup IdleSearch => search[q] = pc'[q]
      BY <2>1, <1>c, ThreadFacts DEF SchedInv, SchedTypeOK, CurMatches
    <3>2. pc'[p] \in {search[p], "steal"}
      BY <2>1, ThreadFacts DEF SchedInv, SchedTypeOK
    <3>3. /\ search[p] \in BusySearch => cur[p] # Null
          /\ search[p] \in IdleSearch => cur[p] = Null
      BY <1>a DEF SchedInv, CurMatches
    <3>4. CASE pc'[p] = search[p]
      <4>1. search[p] \notin Searches \cup {"run", "idle", "wait", "halt"}
        BY <1>a DEF Searches, BusySearch, IdleSearch
      <4> QED BY <3>1, <3>3, <3>4, <4>1
    <3>5. CASE pc'[p] = "steal"
      <4>1. /\ pc'[p] \in Searches /\ pc'[p] \notin BusySearch \cup IdleSearch
            /\ search[p] \notin {"run", "idle", "wait", "halt"}
        BY <1>a, <3>5 DEF Searches, BusySearch, IdleSearch
      <4> QED BY <3>1, <3>3, <3>5, <4>1
    <3> QED BY <3>2, <3>4, <3>5
  <2>2. ASSUME UNCHANGED <<rq, next, home>>, victim' \in [Procs -> Procs],
               \/ pc' = [pc EXCEPT ![p] = "steal"]
               \/ pc' = [pc EXCEPT ![p] = "yield"] /\ search[p] = "yield"
        PROVE  CurMatches'
    <3>1. SUFFICES ASSUME NEW q \in Procs, q = p PROVE
              LET why == IF pc'[q] \in Searches THEN search[q] ELSE pc'[q]
              IN /\ why \in BusySearch \cup {"run"} => cur[q] # Null
                 /\ why \in IdleSearch \cup {"idle", "wait", "halt"} => cur[q] = Null
                 /\ pc'[q] \in BusySearch \cup IdleSearch => search[q] = pc'[q]
      BY <2>2, <1>c, ThreadFacts DEF SchedInv, SchedTypeOK, CurMatches
    <3>2. pc'[p] \in {search[p], "steal"}
      BY <2>2, ThreadFacts DEF SchedInv, SchedTypeOK
    <3>3. /\ search[p] \in BusySearch => cur[p] # Null
          /\ search[p] \in IdleSearch => cur[p] = Null
      BY <1>a DEF SchedInv, CurMatches
    <3>4. CASE pc'[p] = search[p]
      <4>1. search[p] \notin Searches \cup {"run", "idle", "wait", "halt"}
        BY <1>a DEF Searches, BusySearch, IdleSearch
      <4> QED BY <3>1, <3>3, <3>4, <4>1
    <3>5. CASE pc'[p] = "steal"
      <4>1. /\ pc'[p] \in Searches /\ pc'[p] \notin BusySearch \cup IdleSearch
            /\ search[p] \notin {"run", "idle", "wait", "halt"}
        BY <1>a, <3>5 DEF Searches, BusySearch, IdleSearch
      <4> QED BY <3>1, <3>3, <3>5, <4>1
    <3> QED BY <3>2, <3>4, <3>5
  <2> QED BY <1>b, <2>1, <2>2
<1>4. OnePlace'
  <2>1. ASSUME NEW f \in Freds, PopQueue(p, f), next' = [next EXCEPT ![p] = f],
               pc' = [pc EXCEPT ![p] = search[p]], victim' \in [Procs -> Procs],
               home' \in [Freds -> Procs]
        PROVE  OnePlace'
    <3>1. next[p] = Null
      BY <1>a, ThreadFacts DEF SchedInv, SchedTypeOK, HandsMatch
    <3>2. \A t \in Threads : pc'[t] \in {"link", "yieldlink"} <=> pc[t] \in {"link", "yieldlink"}
      BY <2>1, <1>a, ThreadFacts DEF SchedInv, SchedTypeOK, Enqueues
    <3>3. PICK v \in Procs : v = p
      BY <1>a
    <3> QED BY <2>1, <1>c, <3>1, <3>2, <3>3, PopPlace
  <2>2. ASSUME UNCHANGED <<rq, next, home>>, victim' \in [Procs -> Procs],
               \/ pc' = [pc EXCEPT ![p] = "steal"]
               \/ pc' = [pc EXCEPT ![p] = "yield"] /\ search[p] = "yield"
        PROVE  OnePlace'
    <3>1. \A t \in Threads : pc'[t] \in {"link", "yieldlink"} <=> pc[t] \in {"link", "yieldlink"}
      BY <2>2, <1>a, ThreadFacts DEF SchedInv, SchedTypeOK, Enqueues
    <3> QED BY <2>2, <1>c, <3>1, PlacesKept DEF SchedInv
  <2> QED BY <1>b, <2>1, <2>2
<1> QED BY <1>1, <1>2, <1>3, <1>4 DEF SchedInv

\* searchSteal(): pop() of another queue.
LEMMA StealPopInv ==
  ASSUME SchedInv, NEW p \in Procs, StealPop(p)
  PROVE  SchedInv'
<1>a. /\ pc[p] = "stealpop" /\ pc[p] \in Searches /\ pc[p] \notin Enqueues \cup {"post"}
      /\ pc[p] \notin BusySearch \cup IdleSearch
      /\ search[p] \in BusySearch \cup IdleSearch /\ search[p] \notin Enqueues \cup {"post"}
      /\ victim[p] \in Procs
  BY DEF SchedInv, SchedTypeOK, StealPop, Searches, Enqueues, BusySearch, IdleSearch
<1>b. \/ \E f \in Freds : /\ PopQueue(victim[p], f) /\ next' = [next EXCEPT ![p] = f]
                          /\ pc' = [pc EXCEPT ![p] = search[p]]
                          /\ victim' \in [Procs -> Procs] /\ home' \in [Freds -> Procs]
      \/ /\ UNCHANGED <<rq, next, home>> /\ victim' \in [Procs -> Procs]
         /\ \/ pc' = [pc EXCEPT ![p] = "steal"]
            \/ pc' = [pc EXCEPT ![p] = "yield"] /\ search[p] = "yield"
  <2>1. ASSUME NEW f \in Freds, PopQueue(victim[p], f), next' = [next EXCEPT ![p] = f],
               home' = [home EXCEPT ![f] = p], victim' = [victim EXCEPT ![p] = p],
               Goto(p, search[p])
        PROVE  <1>b!1
    BY <2>1 DEF SchedInv, SchedTypeOK, Goto
  <2>2. ASSUME PopNothing(victim[p]), victim' = [victim EXCEPT ![p] = RingNext(@)],
               Goto(p, "steal"), UNCHANGED <<next, home>>
        PROVE  <1>b!2
    BY <2>2, ThreadFacts DEF SchedInv, SchedTypeOK, PopNothing, Goto
  <2> QED
    BY <2>1, <2>2 DEF StealPop
<1>c. UNCHANGED <<search, cur, arg, parked>>
  BY DEF StealPop
<1>1. SchedTypeOK'
  <2>1. ASSUME NEW f \in Freds, PopQueue(victim[p], f), next' = [next EXCEPT ![p] = f],
               pc' = [pc EXCEPT ![p] = search[p]], victim' \in [Procs -> Procs],
               home' \in [Freds -> Procs]
        PROVE  SchedTypeOK'
    <3>1. rq' \in [Procs -> Seq(Freds)]
      BY <2>1, <1>a, PopFacts DEF SchedInv
    <3> QED
      BY <2>1, <3>1, <1>a, <1>c, ThreadFacts DEF SchedInv, SchedTypeOK, Labels
  <2>2. ASSUME UNCHANGED <<rq, next, home>>, victim' \in [Procs -> Procs],
               \/ pc' = [pc EXCEPT ![p] = "steal"]
               \/ pc' = [pc EXCEPT ![p] = "yield"] /\ search[p] = "yield"
        PROVE  SchedTypeOK'
    BY <2>2, <1>a, <1>c, ThreadFacts DEF SchedInv, SchedTypeOK, Searches, BusySearch,
       Labels
  <2> QED BY <1>b, <2>1, <2>2
<1>2. HandsMatch'
  <2>1. ASSUME NEW f \in Freds, PopQueue(victim[p], f), next' = [next EXCEPT ![p] = f],
               pc' = [pc EXCEPT ![p] = search[p]], victim' \in [Procs -> Procs],
               home' \in [Freds -> Procs]
        PROVE  HandsMatch'
    BY <2>1, <1>a, <1>c, ThreadFacts DEF SchedInv, SchedTypeOK, HandsMatch
  <2>2. ASSUME UNCHANGED <<rq, next, home>>, victim' \in [Procs -> Procs],
               \/ pc' = [pc EXCEPT ![p] = "steal"]
               \/ pc' = [pc EXCEPT ![p] = "yield"] /\ search[p] = "yield"
        PROVE  HandsMatch'
    <3>1. pc'[p] \in {"steal", "yield"} /\ next[p] = Null /\ arg[p] = Null
      BY <2>2, <1>a, ThreadFacts DEF SchedInv, SchedTypeOK, HandsMatch
    <3>2. pc'[p] \notin Enqueues \cup {"post"}
      BY <3>1 DEF Enqueues
    <3>3. \A u \in Threads : u # p => pc'[u] = pc[u]
      BY <2>2, ThreadFacts DEF SchedInv, SchedTypeOK
    <3> QED
      BY <2>2, <3>1, <3>2, <3>3, <1>c, ThreadFacts DEF SchedInv, HandsMatch
  <2> QED BY <1>b, <2>1, <2>2
<1>3. CurMatches'
  <2>1. ASSUME NEW f \in Freds, PopQueue(victim[p], f), next' = [next EXCEPT ![p] = f],
               pc' = [pc EXCEPT ![p] = search[p]], victim' \in [Procs -> Procs],
               home' \in [Freds -> Procs]
        PROVE  CurMatches'
    <3>1. SUFFICES ASSUME NEW q \in Procs, q = p PROVE
              LET why == IF pc'[q] \in Searches THEN search[q] ELSE pc'[q]
              IN /\ why \in BusySearch \cup {"run"} => cur[q] # Null
                 /\ why \in IdleSearch \cup {"idle", "wait", "halt"} => cur[q] = Null
                 /\ pc'[q] \in BusySearch \cup IdleSearch => search[q] = pc'[q]
      BY <2>1, <1>c, ThreadFacts DEF SchedInv, SchedTypeOK, CurMatches
    <3>2. pc'[p] \in {search[p], "steal"}
      BY <2>1, ThreadFacts DEF SchedInv, SchedTypeOK
    <3>3. /\ search[p] \in BusySearch => cur[p] # Null
          /\ search[p] \in IdleSearch => cur[p] = Null
      BY <1>a DEF SchedInv, CurMatches
    <3>4. CASE pc'[p] = search[p]
      <4>1. search[p] \notin Searches \cup {"run", "idle", "wait", "halt"}
        BY <1>a DEF Searches, BusySearch, IdleSearch
      <4> QED BY <3>1, <3>3, <3>4, <4>1
    <3>5. CASE pc'[p] = "steal"
      <4>1. /\ pc'[p] \in Searches /\ pc'[p] \notin BusySearch \cup IdleSearch
            /\ search[p] \notin {"run", "idle", "wait", "halt"}
        BY <1>a, <3>5 DEF Searches, BusySearch, IdleSearch
      <4> QED BY <3>1, <3>3, <3>5, <4>1
    <3> QED BY <3>2, <3>4, <3>5
  <2>2. ASSUME UNCHANGED <<rq, next, home>>, victim' \in [Procs -> Procs],
               \/ pc' = [pc EXCEPT ![p] = "steal"]
               \/ pc' = [pc EXCEPT ![p] = "yield"] /\ search[p] = "yield"
        PROVE  CurMatches'
    <3>1. SUFFICES ASSUME NEW q \in Procs, q = p PROVE
              LET why == IF pc'[q] \in Searches THEN search[q] ELSE pc'[q]
              IN /\ why \in BusySearch \cup {"run"} => cur[q] # Null
                 /\ why \in IdleSearch \cup {"idle", "wait", "halt"} => cur[q] = Null
                 /\ pc'[q] \in BusySearch \cup IdleSearch => search[q] = pc'[q]
      BY <2>2, <1>c, ThreadFacts DEF SchedInv, SchedTypeOK, CurMatches
    <3>2. pc'[p] \in {search[p], "steal"}
      BY <2>2, ThreadFacts DEF SchedInv, SchedTypeOK
    <3>3. /\ search[p] \in BusySearch => cur[p] # Null
          /\ search[p] \in IdleSearch => cur[p] = Null
      BY <1>a DEF SchedInv, CurMatches
    <3>4. CASE pc'[p] = search[p]
      <4>1. search[p] \notin Searches \cup {"run", "idle", "wait", "halt"}
        BY <1>a DEF Searches, BusySearch, IdleSearch
      <4> QED BY <3>1, <3>3, <3>4, <4>1
    <3>5. CASE pc'[p] = "steal"
      <4>1. /\ pc'[p] \in Searches /\ pc'[p] \notin BusySearch \cup IdleSearch
            /\ search[p] \notin {"run", "idle", "wait", "halt"}
        BY <1>a, <3>5 DEF Searches, BusySearch, IdleSearch
      <4> QED BY <3>1, <3>3, <3>5, <4>1
    <3> QED BY <3>2, <3>4, <3>5
  <2> QED BY <1>b, <2>1, <2>2
<1>4. OnePlace'
  <2>1. ASSUME NEW f \in Freds, PopQueue(victim[p], f), next' = [next EXCEPT ![p] = f],
               pc' = [pc EXCEPT ![p] = search[p]], victim' \in [Procs -> Procs],
               home' \in [Freds -> Procs]
        PROVE  OnePlace'
    <3>1. next[p] = Null
      BY <1>a, ThreadFacts DEF SchedInv, SchedTypeOK, HandsMatch
    <3>2. \A t \in Threads : pc'[t] \in {"link", "yieldlink"} <=> pc[t] \in {"link", "yieldlink"}
      BY <2>1, <1>a, ThreadFacts DEF SchedInv, SchedTypeOK, Enqueues
    <3>3. PICK v \in Procs : v = victim[p]
      BY <1>a
    <3> QED BY <2>1, <1>c, <3>1, <3>2, <3>3, PopPlace
  <2>2. ASSUME UNCHANGED <<rq, next, home>>, victim' \in [Procs -> Procs],
               \/ pc' = [pc EXCEPT ![p] = "steal"]
               \/ pc' = [pc EXCEPT ![p] = "yield"] /\ search[p] = "yield"
        PROVE  OnePlace'
    <3>1. \A t \in Threads : pc'[t] \in {"link", "yieldlink"} <=> pc[t] \in {"link", "yieldlink"}
      BY <2>2, <1>a, ThreadFacts DEF SchedInv, SchedTypeOK, Enqueues
    <3> QED BY <2>2, <1>c, <3>1, PlacesKept DEF SchedInv
  <2> QED BY <1>b, <2>1, <2>2
<1> QED BY <1>1, <1>2, <1>3, <1>4 DEF SchedInv

\* scheduleFull() switches, also for yieldResume().
LEMMA SwitchFullInv ==
  ASSUME SchedInv, NEW p \in Procs, SwitchFull(p)
  PROVE  SchedInv'
<1>1. SchedTypeOK'
  BY ThreadFacts DEF SchedInv, SchedTypeOK, BusySearch, IdleSearch, Searches,
     Enqueues, Labels, SwitchFull, Goto, readyVars
<1>2. HandsMatch'
  BY ThreadFacts DEF SchedInv, SchedTypeOK, HandsMatch, CurMatches, BusySearch,
     IdleSearch, Searches, Enqueues, SwitchFull, Goto, readyVars
<1>3. CurMatches'
  BY ThreadFacts DEF SchedInv, SchedTypeOK, CurMatches, BusySearch, IdleSearch,
     Searches, SwitchFull, Goto, readyVars
<1>4. OnePlace'
  <2>1. arg[p] = Null /\ cur[p] # Null /\ pc'[p] \notin {"link", "yieldlink"}
    BY ThreadFacts DEF SchedInv, SchedTypeOK, HandsMatch, CurMatches, BusySearch,
       Searches, Enqueues, SwitchFull, Goto
  <2> QED BY <2>1, SwitchPlace, ThreadFacts DEF SchedInv, SchedTypeOK, SwitchFull, Goto,
     readyVars
<1> QED BY <1>1, <1>2, <1>3, <1>4 DEF SchedInv

\* postSuspend() parks the fred, or enqueues it.
LEMMA PostSuspendInv ==
  ASSUME SchedInv, NEW p \in Procs, PostSuspend(p)
  PROVE  SchedInv'
<1>1. SchedTypeOK'
  <2>1. CASE pc' = [pc EXCEPT ![p] = "tail"] /\ UNCHANGED <<parked, arg>>
    <3>1. pc[p] = "post" /\ UNCHANGED <<search, victim, cur, next, home, rq>>
      BY <2>1 DEF PostSuspend, Goto, readyVars, Proceed
    <3> QED
      BY <2>1, <3>1, ThreadFacts DEF SchedInv, SchedTypeOK, HandsMatch, BusySearch,
         IdleSearch, Searches, Enqueues, Labels
  <2>2. CASE /\ parked' = parked \cup {arg[p]} /\ arg' = [arg EXCEPT ![p] = Null]
             /\ pc' = [pc EXCEPT ![p] = Proceed(p)]
    <3>1. /\ pc[p] = "post" /\ Proceed(p) \in {"idle", "run"}
          /\ UNCHANGED <<search, victim, cur, next, home, rq>>
      BY <2>2 DEF PostSuspend, Goto, readyVars, Proceed
    <3> QED
      BY <2>2, <3>1, ThreadFacts DEF SchedInv, SchedTypeOK, HandsMatch, BusySearch,
         IdleSearch, Searches, Enqueues, Labels
  <2> QED BY <2>1, <2>2 DEF PostSuspend, Goto, readyVars, Proceed
<1>2. HandsMatch'
  <2>1. CASE pc' = [pc EXCEPT ![p] = "tail"] /\ UNCHANGED <<parked, arg>>
    <3>1. pc[p] = "post" /\ UNCHANGED <<search, victim, cur, next, home, rq>>
      BY <2>1 DEF PostSuspend, Goto, readyVars, Proceed
    <3> QED
      BY <2>1, <3>1, ThreadFacts DEF SchedInv, SchedTypeOK, HandsMatch, BusySearch,
         IdleSearch, Enqueues
  <2>2. CASE /\ parked' = parked \cup {arg[p]} /\ arg' = [arg EXCEPT ![p] = Null]
             /\ pc' = [pc EXCEPT ![p] = Proceed(p)]
    <3>1. /\ pc[p] = "post" /\ Proceed(p) \in {"idle", "run"}
          /\ UNCHANGED <<search, victim, cur, next, home, rq>>
      BY <2>2 DEF PostSuspend, Goto, readyVars, Proceed
    <3> QED
      BY <2>2, <3>1, ThreadFacts DEF SchedInv, SchedTypeOK, HandsMatch, BusySearch,
         IdleSearch, Enqueues
  <2> QED BY <2>1, <2>2 DEF PostSuspend, Goto, readyVars, Proceed
<1>3. CurMatches'
  <2>1. CASE pc' = [pc EXCEPT ![p] = "tail"] /\ UNCHANGED <<parked, arg>>
    <3>1. pc[p] = "post" /\ UNCHANGED <<search, victim, cur, next, home, rq>>
      BY <2>1 DEF PostSuspend, Goto, readyVars, Proceed
    <3> QED
      BY <2>1, <3>1, ThreadFacts DEF SchedInv, SchedTypeOK, CurMatches, BusySearch,
         IdleSearch, Searches, Proceed
  <2>2. CASE /\ parked' = parked \cup {arg[p]} /\ arg' = [arg EXCEPT ![p] = Null]
             /\ pc' = [pc EXCEPT ![p] = Proceed(p)]
    <3>1. /\ pc[p] = "post" /\ Proceed(p) \in {"idle", "run"}
          /\ UNCHANGED <<search, victim, cur, next, home, rq>>
      BY <2>2 DEF PostSuspend, Goto, readyVars, Proceed
    <3> QED
      BY <2>2, <3>1, ThreadFacts DEF SchedInv, SchedTypeOK, CurMatches, BusySearch,
         IdleSearch, Searches, Proceed
  <2> QED BY <2>1, <2>2 DEF PostSuspend, Goto, readyVars, Proceed
<1>4. OnePlace'
  <2>1. /\ arg[p] # Null /\ pc[p] = "post" /\ UNCHANGED <<cur, next, rq>>
        /\ pc \in [Threads -> Labels]
    BY ThreadFacts DEF SchedInv, SchedTypeOK, HandsMatch, PostSuspend, readyVars
  <2>2. CASE /\ parked' = parked \cup {arg[p]} /\ arg' = [arg EXCEPT ![p] = Null]
             /\ Goto(p, Proceed(p))
    BY <2>1, <2>2, ParkPlace DEF Goto
  <2>3. CASE Goto(p, "tail") /\ UNCHANGED <<parked, arg>>
    <3>1. \A t \in Threads : pc'[t] \in {"link", "yieldlink"} <=> pc[t] \in {"link", "yieldlink"}
      BY <2>1, <2>3 DEF Goto
    <3> QED BY <2>1, <2>3, <3>1, PlacesKept DEF SchedInv
  <2> QED BY <2>2, <2>3 DEF PostSuspend
<1> QED BY <1>1, <1>2, <1>3, <1>4 DEF SchedInv

\* yieldTo() switches, or there is nothing to switch to.
LEMMA SwitchYieldInv ==
  ASSUME SchedInv, NEW p \in Procs, SwitchYield(p)
  PROVE  SchedInv'
<1>1. SchedTypeOK'
  <2>1. CASE next[p] # Null
    <3>1. /\ pc' = [pc EXCEPT ![p] = "yieldtail"] /\ cur' = [cur EXCEPT ![p] = next[p]]
          /\ arg' = [arg EXCEPT ![p] = cur[p]] /\ next' = [next EXCEPT ![p] = Null]
          /\ UNCHANGED <<search, victim, home, rq, parked>>
      BY <2>1 DEF SwitchYield, Goto, readyVars
    <3> QED
      BY <2>1, <3>1, ThreadFacts DEF SchedInv, SchedTypeOK, HandsMatch, BusySearch,
         IdleSearch, Searches, Enqueues, Labels
  <2>2. CASE next[p] = Null /\ pc[p] = "yield"
    <3>1. /\ pc' = [pc EXCEPT ![p] = "run"]
          /\ UNCHANGED <<search, cur, arg, next, victim, home, rq, parked>>
      BY <2>2 DEF SwitchYield, Goto, readyVars
    <3> QED
      BY <2>2, <3>1, ThreadFacts DEF SchedInv, SchedTypeOK, HandsMatch, BusySearch,
         IdleSearch, Searches, Enqueues, Labels
  <2>3. CASE next[p] = Null /\ pc[p] = "migrate"
    <3>1. /\ pc' = [pc EXCEPT ![p] = "local"]
          /\ search' = [search EXCEPT ![p] = "resume"]
          /\ UNCHANGED <<cur, arg, next, victim, home, rq, parked>>
      BY <2>3 DEF SwitchYield, Goto, readyVars
    <3> QED
      BY <2>3, <3>1, ThreadFacts DEF SchedInv, SchedTypeOK, HandsMatch, BusySearch,
         IdleSearch, Searches, Enqueues, Labels
  <2> QED BY <2>1, <2>2, <2>3 DEF SwitchYield, Goto, readyVars
<1>2. HandsMatch'
  <2>1. CASE next[p] # Null
    <3>1. /\ pc[p] \in {"yield", "migrate"} /\ cur[p] # Null
          /\ pc' = [pc EXCEPT ![p] = "yieldtail"] /\ cur' = [cur EXCEPT ![p] = next[p]]
          /\ arg' = [arg EXCEPT ![p] = cur[p]] /\ next' = [next EXCEPT ![p] = Null]
          /\ UNCHANGED <<search, victim, home, rq, parked>>
      BY <2>1 DEF SwitchYield, Goto, readyVars, SchedInv, CurMatches, BusySearch,
         Searches
    <3> QED
      BY <2>1, <3>1, ThreadFacts DEF SchedInv, SchedTypeOK, HandsMatch, Enqueues
  <2>2. CASE next[p] = Null /\ pc[p] = "yield"
    <3>1. /\ pc[p] \in {"yield", "migrate"} /\ pc' = [pc EXCEPT ![p] = "run"]
          /\ UNCHANGED <<search, cur, arg, next, victim, home, rq, parked>>
      BY <2>2 DEF SwitchYield, Goto, readyVars, SchedInv, CurMatches, BusySearch,
         Searches
    <3> QED
      BY <2>2, <3>1, ThreadFacts DEF SchedInv, SchedTypeOK, HandsMatch, Enqueues
  <2>3. CASE next[p] = Null /\ pc[p] = "migrate"
    <3>1. /\ pc[p] \in {"yield", "migrate"} /\ pc' = [pc EXCEPT ![p] = "local"]
          /\ search' = [search EXCEPT ![p] = "resume"]
          /\ UNCHANGED <<cur, arg, next, victim, home, rq, parked>>
      BY <2>3 DEF SwitchYield, Goto, readyVars, SchedInv, CurMatches, BusySearch,
         Searches
    <3> QED
      BY <2>3, <3>1, ThreadFacts DEF SchedInv, SchedTypeOK, HandsMatch, Enqueues
  <2> QED BY <2>1, <2>2, <2>3 DEF SwitchYield, Goto, readyVars, SchedInv, CurMatches,
     BusySearch, Searches
<1>3. CurMatches'
  BY ThreadFacts DEF SchedInv, SchedTypeOK, HandsMatch, CurMatches, BusySearch,
     IdleSearch, Searches, Enqueues, SwitchYield, Goto, readyVars
<1>4. OnePlace'
  <2>1. /\ arg[p] = Null /\ cur[p] # Null /\ pc[p] \in {"yield", "migrate"}
        /\ pc \in [Threads -> Labels]
        /\ UNCHANGED <<rq, parked>> /\ p \in Threads
    BY ThreadFacts DEF SchedInv, SchedTypeOK, HandsMatch, CurMatches, BusySearch,
       Searches, Enqueues, SwitchYield, readyVars
  <2>2. CASE next[p] # Null
    <3>1. /\ cur' = [cur EXCEPT ![p] = next[p]] /\ arg' = [arg EXCEPT ![p] = cur[p]]
          /\ next' = [next EXCEPT ![p] = Null] /\ pc' = [pc EXCEPT ![p] = "yieldtail"]
      BY <2>2 DEF SwitchYield, Goto
    <3> QED BY <2>1, <3>1, SwitchPlace
  <2>3. CASE next[p] = Null
    <3>1. /\ UNCHANGED <<cur, arg, next>>
          /\ (pc' = [pc EXCEPT ![p] = "run"] \/ pc' = [pc EXCEPT ![p] = "local"])
      BY <2>3 DEF SwitchYield, Goto
    <3>2. \A t \in Threads : pc'[t] \in {"link", "yieldlink"} <=> pc[t] \in {"link", "yieldlink"}
      BY <2>1, <3>1
    <3> QED BY <2>1, <3>1, <3>2, PlacesKept DEF SchedInv
  <2> QED BY <2>2, <2>3
<1> QED BY <1>1, <1>2, <1>3, <1>4 DEF SchedInv

\* A spinning processor has found a fred.
LEMMA SpinFoundInv ==
  ASSUME SchedInv, NEW p \in Procs, SpinFound(p)
  PROVE  SchedInv'
<1>1. SchedTypeOK'
  BY ThreadFacts DEF SchedInv, SchedTypeOK, BusySearch, IdleSearch, Searches,
     Enqueues, Labels, SpinFound, Goto, readyVars
<1>2. HandsMatch'
  BY ThreadFacts DEF SchedInv, SchedTypeOK, HandsMatch, Enqueues, SpinFound, Goto,
     readyVars
<1>3. CurMatches'
  BY ThreadFacts DEF SchedInv, SchedTypeOK, CurMatches, BusySearch, IdleSearch,
     Searches, SpinFound, Goto, readyVars
<1>4. OnePlace'
  <2>1. /\ cur[p] = Null /\ pc[p] \notin {"link", "yieldlink"}
        /\ pc'[p] \notin {"link", "yieldlink"}
    BY ThreadFacts DEF SchedInv, SchedTypeOK, CurMatches, IdleSearch, Searches,
       SpinFound, Goto
  <2>2. \A t \in Threads : t # p => pc'[t] = pc[t]
    BY ThreadFacts DEF SchedInv, SchedTypeOK, SpinFound, Goto
  <2> QED BY <2>1, <2>2, TakePlace DEF SpinFound, readyVars
<1> QED BY <1>1, <1>2, <1>3, <1>4 DEF SchedInv

\* The last search has found a fred.
LEMMA LastFoundInv ==
  ASSUME SchedInv, NEW p \in Procs, LastFound(p)
  PROVE  SchedInv'
<1>1. SchedTypeOK'
  BY ThreadFacts DEF SchedInv, SchedTypeOK, BusySearch, IdleSearch, Searches,
     Enqueues, Labels, LastFound, Goto, readyVars
<1>2. HandsMatch'
  BY ThreadFacts DEF SchedInv, SchedTypeOK, HandsMatch, Enqueues, LastFound, Goto,
     readyVars
<1>3. CurMatches'
  BY ThreadFacts DEF SchedInv, SchedTypeOK, CurMatches, BusySearch, IdleSearch,
     Searches, LastFound, Goto, readyVars
<1>4. OnePlace'
  <2>1. /\ cur[p] = Null /\ pc[p] \notin {"link", "yieldlink"}
        /\ pc'[p] \notin {"link", "yieldlink"}
    BY ThreadFacts DEF SchedInv, SchedTypeOK, CurMatches, IdleSearch, Searches,
       LastFound, Goto
  <2>2. \A t \in Threads : t # p => pc'[t] = pc[t]
    BY ThreadFacts DEF SchedInv, SchedTypeOK, LastFound, Goto
  <2> QED BY <2>1, <2>2, TakePlace DEF LastFound, readyVars
<1> QED BY <1>1, <1>2, <1>3, <1>4 DEF SchedInv

\* A store buffer drains.
LEMMA BufferDrainInv ==
  ASSUME SchedInv, NEW t \in Threads, BufferDrain(t)
  PROVE  SchedInv'
<1>1. SchedTypeOK' /\ HandsMatch' /\ CurMatches'
  BY DEF SchedInv, SchedTypeOK, HandsMatch, CurMatches, BufferDrain, Drain, procVars
<1>2. OnePlace'
  BY PlacesKept DEF SchedInv, BufferDrain, Drain, procVars
<1> QED BY <1>1, <1>2 DEF SchedInv

\* The first state.
LEMMA SchedInitInv == Init => SchedInv
<1> SUFFICES ASSUME Init PROVE SchedInv
  OBVIOUS
<1>1. PICK f \in Freds : /\ cur = [p \in Procs |-> IF p = 1 THEN f ELSE Null]
                         /\ parked = Freds \ {f}
  BY DEF Init
<1>2. 1 \in Procs
  BY ReadyQueueAssumption DEF Procs
<1>3. SchedTypeOK
  BY <1>1, <1>2, ThreadFacts DEF Init, ReadyInit, SchedTypeOK, Labels, BusySearch
<1>4. HandsMatch
  BY ThreadFacts DEF Init, HandsMatch, Enqueues
<1>5. CurMatches
  BY <1>1, ThreadFacts DEF Init, CurMatches, BusySearch, IdleSearch, Searches
<1>6. ASSUME NEW g \in Freds PROVE Single(g)
  <2>1. ASSUME NEW y
        PROVE  In(g, y) <=> IF g = f THEN y = <<"cur", 1>> ELSE y = <<"parked", Null>>
    BY <1>1, <1>2, ThreadFacts DEF Init, ReadyInit, In
  <2>2. PICK x : x = IF g = f THEN <<"cur", 1>> ELSE <<"parked", Null>>
    OBVIOUS
  <2>3. \A y : In(g, y) <=> y = x
    BY <2>1, <2>2
  <2> QED BY <2>3 DEF Single
<1> QED BY <1>3, <1>4, <1>5, <1>6 DEF SchedInv, OnePlace

\* Every step.
LEMMA SchedNextInv == SchedInv /\ [Next]_vars => SchedInv'
<1> SUFFICES ASSUME SchedInv, [Next]_vars PROVE SchedInv'
  OBVIOUS
<1>1. CASE UNCHANGED vars
  <2>1. SchedTypeOK' /\ HandsMatch' /\ CurMatches'
    BY <1>1 DEF SchedInv, SchedTypeOK, HandsMatch, CurMatches, vars, procVars, readyVars
  <2>2. OnePlace'
    BY <1>1, PlacesKept DEF SchedInv, vars, procVars, readyVars
  <2> QED BY <2>1, <2>2 DEF SchedInv
<1>2. ASSUME NEW t \in Threads, NEW f \in Freds, Resume(t, f) PROVE SchedInv'
  BY <1>2, ResumeInv
<1>3. ASSUME NEW t \in Threads, EnqueueStep(t) PROVE SchedInv'
  BY <1>3, EnqueueTailInv, EnqueueLinkInv, UnblockNoneInv, UnblockPopInv, UnblockDecInv,
     WakeInv DEF EnqueueStep
<1>4. ASSUME NEW t \in Threads, BufferDrain(t) PROVE SchedInv'
  BY <1>4, BufferDrainInv
<1>5. ASSUME NEW p \in Procs, Suspend(p) \/ Yield(p) \/ \E q \in Procs : Migrate(p, q)
      PROVE  SchedInv'
  BY <1>5, SuspendInv, YieldInv, MigrateInv
<1>6. ASSUME NEW p \in Procs, Step(p) PROVE SchedInv'
  <2>1. CASE SearchStep(p)
    BY <2>1, SearchLocalInv, LocalPopInv, TryDequeueInv, StealPopInv, StealNothingInv
       DEF SearchStep
  <2>2. CASE SwitchFull(p) \/ PostSuspend(p) \/ SwitchYield(p)
    BY <2>2, SwitchFullInv, PostSuspendInv, SwitchYieldInv
  <2>3. CASE IdleStep(p)
    BY <2>3, SpinStartInv, SpinFoundInv, SpinNothingInv, WaitStartInv, LastFoundInv,
       BlockInv, HaltInv DEF IdleStep
  <2> QED BY <1>6, <2>1, <2>2, <2>3 DEF Step
<1> QED BY <1>1, <1>2, <1>3, <1>4, <1>5, <1>6 DEF Next

---------------------------------------------------------------------------

\* The inductive invariant holds always.
LEMMA SchedInvariant == SafeSpec => []SchedInv
  BY SchedInitInv, SchedNextInv, PTL DEF SafeSpec

\* Every fred is in one place - running, found by a search, with a thread
\* that enqueues or parks it, parked, or in one slot of one ready queue -
\* whatever the processors, the resumers and the store buffers do (resume(),
\* push(), pop(), searchSteal(), the switches and postSuspend()).
THEOREM FredsAreInOnePlace == SafeSpec => []FredOnce
<1>1. SchedInv => FredOnce
  <2> SUFFICES ASSUME SchedInv, NEW f \in Freds PROVE Cardinality(Places(f)) = 1
    BY DEF FredOnce
  <2>1. PICK x : \A y : In(f, y) <=> y = x
    BY DEF SchedInv, OnePlace, Single
  <2>2. Places(f) = {x}
    BY <2>1, PlacesIn
  <2> QED BY <2>2, FS_Singleton
<1> QED BY <1>1, SchedInvariant, PTL
---------------------------------------------------------------------------
(* Waking processors                                                       *)

\* p is in the idle manager's list; somebody is on the way to wake p.
InList(p) == \E i \in DOMAIN waitingProcs : waitingProcs[i] = p
Coming(p) == \E t \in Threads : target[t] = p

Spinning == {p \in Procs : Searching(p, "spin")}
Waiting  == {p \in Procs : Announced(p)}

WakeTypeOK ==
  /\ target \in [Threads -> Procs \cup {Null}]
  /\ haltSem \in [Procs -> 0 .. 1]
  /\ waitingProcs \in Seq(Procs)

\* One token or one waker for a processor that halts and is off the list.
Wakes ==
  /\ \A t \in Threads : target[t] # Null <=> pc[t] \in {"dec", "wake"}
  /\ \A t, u \in Threads : target[t] = target[u] => t = u \/ target[t] = Null
  /\ \A i, j \in DOMAIN waitingProcs : waitingProcs[i] = waitingProcs[j] => i = j
  /\ \A p \in Procs : InList(p) => pc[p] = "halt"
  /\ \A p \in Procs : IF pc[p] = "halt" /\ ~InList(p) THEN haltSem[p] = 1 <=> ~Coming(p)
                                                      ELSE haltSem[p] = 0 /\ ~Coming(p)

WakeUpInv == WakeTypeOK /\ Wakes /\ CountersExact

\* p will look into a ready queue, whatever it does next: it runs a fred, has
\* found one, or has its last search before it.
Up(p) ==
  /\ ~(search[p] = "last" /\ pc[p] \in Searches)
  /\ ~(pc[p] = "last" /\ next[p] = Null)
  /\ ~Asleep(p)

\* p is in its last search and has the queue of q before it.
Ahead(p, q) ==
  /\ search[p] = "last"
  /\ \/ pc[p] \in {"local", "localpop"}
     \/ /\ pc[p] \in {"steal", "stealpop"}
        /\ IF victim[p] > p THEN q >= victim[p] \/ q < p ELSE victim[p] <= q /\ q < p

\* t has made a fred reachable, or is about to, and will look for a processor
\* to wake, or has one.
Waking(t) == pc[t] \in {"link", "unblock", "dec", "wake"}

Noticed ==
  \A q \in Procs : rq[q] # <<>> =>
    \/ \E p \in Procs : Up(p) \/ Ahead(p, q)
    \/ \E t \in Threads : Waking(t)

\* Who holds the lock of a queue is about to pop from it.
LockHeld ==
  /\ readyLock \in [Procs -> Procs \cup {Null}]
  /\ \A q \in Procs : readyLock[q] # Null =>
       \E u \in Procs : /\ readyLock[q] = u
                        /\ \/ pc[u] = "localpop" /\ u = q
                           \/ pc[u] = "stealpop" /\ victim[u] = q
  /\ \A p \in Procs : pc[p] = "stealpop" => victim[p] # p

\* A fred in a queue is reachable, or its thread has still to link it.
Linked ==
  \A q \in Procs : \A i \in DOMAIN rq[q] :
    \/ rq[q][i] \in linked
    \/ \E t \in Threads : pc[t] \in {"link", "yieldlink"} /\ arg[t] = rq[q][i]

NoBuffer == \A t \in Threads : buffer[t] = Null

NoticeInv == NoBuffer /\ LockHeld /\ Linked /\ Noticed
---------------------------------------------------------------------------
(* The idle manager's list, tokens and counters.                            *)

LEMMA ProcsFinite == IsFiniteSet(Procs)
  BY FS_Interval, ReadyQueueAssumption DEF Procs

LEMMA CountUp ==
  ASSUME NEW S \in SUBSET Procs, NEW p \in Procs, p \notin S, NEW n, n = Cardinality(S)
  PROVE  n + 1 = Cardinality(S \cup {p})
<1>1. IsFiniteSet(S) /\ Cardinality(S) \in Nat
  BY ProcsFinite, FS_Subset, FS_CardinalityType
<1> QED BY <1>1, FS_AddElement

LEMMA CountDown ==
  ASSUME NEW S \in SUBSET Procs, NEW p \in S, NEW n, n = Cardinality(S)
  PROVE  n - 1 = Cardinality(S \ {p})
<1>1. IsFiniteSet(S) /\ Cardinality(S) \in Nat
  BY ProcsFinite, FS_Subset, FS_CardinalityType
<1> QED BY <1>1, FS_RemoveElement

\* The thread t goes on, outside the idle manager.
LEMMA QuietWakes ==
  ASSUME SchedInv, WakeUpInv, NEW t \in Threads, NEW l \in Labels,
         pc' = [pc EXCEPT ![t] = l], pc[t] \notin {"dec", "wake", "halt"}, l \notin {"dec", "wake", "halt"},
         UNCHANGED <<waitingProcs, haltSem, target>>
  PROVE  /\ WakeTypeOK' /\ Wakes'
         /\ \A p \in Procs : Coming(p)' <=> Coming(p)
         /\ \A p \in Procs : InList(p)' <=> InList(p)
<1>0. pc \in [Threads -> Labels] /\ Procs \subseteq Threads
  BY ThreadFacts DEF SchedInv, SchedTypeOK
<1>1. WakeTypeOK' /\ (\A p \in Procs : Coming(p)' <=> Coming(p)) /\ (\A p \in Procs : InList(p)' <=> InList(p))
  BY DEF WakeUpInv, WakeTypeOK, Coming, InList
<1>2. Wakes'
  BY <1>0, <1>1 DEF WakeUpInv, Wakes
<1> QED BY <1>1, <1>2

LEMMA QuietCounts ==
  ASSUME SchedInv, WakeUpInv, NEW t \in Threads, NEW l \in Labels,
         pc' = [pc EXCEPT ![t] = l], pc[t] \notin {"dec", "wake", "halt"}, l \notin {"dec", "wake", "halt"},
         UNCHANGED idleVars, target' = target,
         \A p \in Procs : p # t => search'[p] = search[p],
         t \in Procs => \A why \in {"spin", "last"} : Searching(t, why)' <=> Searching(t, why)
  PROVE  WakeUpInv'
<1>0. pc \in [Threads -> Labels] /\ Procs \subseteq Threads
  BY ThreadFacts DEF SchedInv, SchedTypeOK
<1>1. WakeTypeOK' /\ Wakes'
  BY QuietWakes DEF idleVars
<1>2. \A p \in Procs : \A why \in {"spin", "last"} : Searching(p, why)' <=> Searching(p, why)
  BY <1>0 DEF Searching
<1>3. \A p \in Procs : Announced(p)' <=> Announced(p)
  BY <1>0, <1>2 DEF Announced, idleVars
<1>4. CountersExact'
  <2>1. {p \in Procs : Searching(p, "spin")}' = {p \in Procs : Searching(p, "spin")}
    BY <1>2
  <2>2. {p \in Procs : Announced(p)}' = {p \in Procs : Announced(p)}
    BY <1>3
  <2> QED BY <2>1, <2>2 DEF WakeUpInv, CountersExact, idleVars
<1> QED BY <1>1, <1>4 DEF WakeUpInv

\* Steps that the idle manager does not see.
LEMMA QuietThreadWake ==
  ASSUME SchedInv, WakeUpInv, NEW t \in Threads,
         (\E f \in Freds : Resume(t, f)) \/ EnqueueTail(t) \/ EnqueueLink(t) \/ UnblockNone(t)
  PROVE  WakeUpInv'
<1>1. /\ UNCHANGED idleVars /\ target' = target /\ search' = search
      /\ pc[t] \in {"run", "unblock"} \cup Enqueues
      /\ \E l \in Enqueues \cup {"unblock", "run", "idle"} : pc' = [pc EXCEPT ![t] = l]
  BY DEF Resume, EnqueueTail, EnqueueLink, UnblockNone, Goto, Proceed, Enqueues
<1>2. PICK l \in Enqueues \cup {"unblock", "run", "idle"} : pc' = [pc EXCEPT ![t] = l]
  BY <1>1
<1>3. /\ l \in Labels /\ l \notin {"dec", "wake", "halt"} /\ pc[t] \notin {"dec", "wake", "halt"}
      /\ \A why \in {"spin", "last"} : t \in Procs => (Searching(t, why)' <=> Searching(t, why))
  BY <1>1, <1>2 DEF Labels, Enqueues, Searching, SchedInv, SchedTypeOK
<1> QED BY <1>1, <1>2, <1>3, QuietCounts

LEMMA QuietSearchWake ==
  ASSUME SchedInv, WakeUpInv, NEW p \in Procs, SearchStep(p)
  PROVE  WakeUpInv'
<1>0. /\ p \in Threads /\ pc \in [Threads -> Labels] /\ search[p] \in BusySearch \cup IdleSearch
  BY ThreadFacts DEF SchedInv, SchedTypeOK
<1>1. /\ UNCHANGED idleVars /\ target' = target /\ search' = search
      /\ pc[p] \in Searches
      /\ \E l \in Searches \cup {search[p]} : pc' = [pc EXCEPT ![p] = l]
  <2>1. CASE TryDequeue(p)
    <3>1. pc' = [pc EXCEPT ![p] = "stealpop"] \/ pc' = [pc EXCEPT ![p] = pc[p]]
      BY <1>0, <2>1 DEF TryDequeue, Goto
    <3> QED BY <2>1, <3>1 DEF TryDequeue, Searches
  <2> QED BY <2>1 DEF SearchStep, SearchLocal, LocalPop, StealPop, StealNothing, Goto, Searches
<1>2. PICK l \in Searches \cup {search[p]} : pc' = [pc EXCEPT ![p] = l]
  BY <1>1
<1>3. /\ l \in Labels /\ l \notin {"dec", "wake", "halt"} /\ pc[p] \notin {"dec", "wake", "halt"}
      /\ \A why \in {"spin", "last"} : Searching(p, why)' <=> Searching(p, why)
  BY <1>0, <1>1, <1>2 DEF Labels, Searches, BusySearch, IdleSearch, Searching
<1> QED BY <1>0, <1>1, <1>2, <1>3, QuietCounts

LEMMA QuietSwitchWake ==
  ASSUME SchedInv, WakeUpInv, NEW p \in Procs,
         \/ Suspend(p) \/ Yield(p) \/ \E q \in Procs : Migrate(p, q)
         \/ SwitchFull(p) \/ PostSuspend(p) \/ SwitchYield(p)
  PROVE  WakeUpInv'
<1>0. /\ p \in Threads /\ pc \in [Threads -> Labels] /\ search \in [Procs -> BusySearch \cup IdleSearch]
  BY ThreadFacts DEF SchedInv, SchedTypeOK
<1>1. /\ UNCHANGED idleVars /\ target' = target
      /\ pc[p] \in BusySearch \cup {"run", "post"}
      /\ \E l \in {"local", "post", "tail", "yieldtail", "run", "idle"} :
           /\ pc' = [pc EXCEPT ![p] = l]
           /\ l = "local" => search'[p] \in BusySearch
      /\ \A q \in Procs : q # p => search'[q] = search[q]
  BY <1>0 DEF Suspend, Yield, Migrate, SwitchFull, PostSuspend, SwitchYield, Goto, Proceed, BusySearch
<1>2. PICK l \in {"local", "post", "tail", "yieldtail", "run", "idle"} :
           /\ pc' = [pc EXCEPT ![p] = l]
           /\ l = "local" => search'[p] \in BusySearch
  BY <1>1
<1>3. /\ l \in Labels /\ l \notin {"dec", "wake", "halt"} /\ pc[p] \notin {"dec", "wake", "halt"}
      /\ \A why \in {"spin", "last"} : Searching(p, why)' <=> Searching(p, why)
  BY <1>0, <1>1, <1>2 DEF Labels, Searches, BusySearch, IdleSearch, Searching, Enqueues
<1> QED BY <1>0, <1>1, <1>2, <1>3, QuietCounts

\* Steps of the idle loop.
LEMMA SpinStartWake ==
  ASSUME SchedInv, WakeUpInv, NEW p \in Procs, SpinStart(p)
  PROVE  WakeUpInv'
<1>0. /\ p \in Threads /\ pc \in [Threads -> Labels] /\ search \in [Procs -> BusySearch \cup IdleSearch]
      /\ pc[p] = "idle" /\ pc' = [pc EXCEPT ![p] = "local"] /\ search' = [search EXCEPT ![p] = "spin"]
      /\ UNCHANGED <<waitCounter, waitingProcs, haltSem, target>> /\ spinCounter' = spinCounter + 1
      /\ "local" \in Labels
  BY ThreadFacts DEF SchedInv, SchedTypeOK, SpinStart, Goto, Labels, Searches
<1>1. WakeTypeOK' /\ Wakes' /\ \A q \in Procs : (Coming(q)' <=> Coming(q)) /\ (InList(q)' <=> InList(q))
  BY <1>0, QuietWakes
<1>2. \A q \in Procs : Announced(q)' <=> Announced(q)
  BY <1>0 DEF Announced, Searching
<1>3. Spinning' = Spinning \cup {p} /\ p \notin Spinning
  <2>1. \A q \in Procs : Searching(q, "spin")' <=> Searching(q, "spin") \/ q = p
    BY <1>0 DEF Searching
  <2>2. ~Searching(p, "spin")
    BY <1>0 DEF Searching
  <2> QED BY <2>1, <2>2 DEF Spinning
<1>4. spinCounter' = Cardinality(Spinning')
  <2>1. Spinning \in SUBSET Procs /\ spinCounter = Cardinality(Spinning)
    BY DEF Spinning, WakeUpInv, CountersExact
  <2> QED BY <1>0, <1>3, <2>1, CountUp
<1>5. waitCounter' = Cardinality({q \in Procs : Announced(q)}')
  <2>1. {q \in Procs : Announced(q)}' = {q \in Procs : Announced(q)}
    BY <1>2
  <2> QED BY <1>0, <2>1 DEF WakeUpInv, CountersExact
<1> QED BY <1>1, <1>4, <1>5 DEF WakeUpInv, CountersExact, Spinning

\* The processor stops spinning, for a fred or for a last search.
LEMMA SpinDoneWake ==
  ASSUME SchedInv, WakeUpInv, NEW p \in Procs, pc[p] = "spin", NEW l \in {"unblock", "run", "wait"},
         pc' = [pc EXCEPT ![p] = l], spinCounter' = spinCounter - 1,
         UNCHANGED <<search, waitCounter, waitingProcs, haltSem, target>>
  PROVE  WakeUpInv'
<1>0. /\ p \in Threads /\ pc \in [Threads -> Labels] /\ l \in Labels
  BY ThreadFacts DEF SchedInv, SchedTypeOK, Labels
<1>1. WakeTypeOK' /\ Wakes' /\ \A q \in Procs : (Coming(q)' <=> Coming(q)) /\ (InList(q)' <=> InList(q))
  BY <1>0, QuietWakes
<1>2. \A q \in Procs : Announced(q)' <=> Announced(q)
  BY <1>0 DEF Announced, Searching
<1>3. Spinning' = Spinning \ {p} /\ p \in Spinning
  <2>1. \A q \in Procs : Searching(q, "spin")' <=> Searching(q, "spin") /\ q # p
    BY <1>0 DEF Searching
  <2>2. Searching(p, "spin")
    BY <1>0 DEF Searching
  <2> QED BY <2>1, <2>2 DEF Spinning
<1>4. spinCounter' = Cardinality(Spinning')
  <2>1. Spinning \in SUBSET Procs /\ spinCounter = Cardinality(Spinning)
    BY DEF Spinning, WakeUpInv, CountersExact
  <2> QED BY <1>3, <2>1, CountDown
<1>5. waitCounter' = Cardinality({q \in Procs : Announced(q)}')
  <2>1. {q \in Procs : Announced(q)}' = {q \in Procs : Announced(q)}
    BY <1>2
  <2> QED BY <2>1 DEF WakeUpInv, CountersExact
<1> QED BY <1>1, <1>4, <1>5 DEF WakeUpInv, CountersExact, Spinning

LEMMA SpinWake ==
  ASSUME SchedInv, WakeUpInv, NEW p \in Procs, SpinFound(p) \/ SpinNothing(p)
  PROVE  WakeUpInv'
<1>0. /\ p \in Threads /\ pc[p] = "spin" /\ search[p] = "spin" /\ search \in [Procs -> BusySearch \cup IdleSearch]
  BY ThreadFacts DEF SchedInv, SchedTypeOK, CurMatches, SpinFound, SpinNothing, IdleSearch
<1>1. CASE SpinFound(p)
  <2>1. PICK l \in {"unblock", "run"} : pc' = [pc EXCEPT ![p] = l]
    BY <1>1 DEF SpinFound, Goto
  <2> QED BY <1>0, <1>1, <2>1, SpinDoneWake DEF SpinFound
<1>2. CASE SpinNothing(p) /\ spins[p] = MaxSpin /\ Goto(p, "wait") /\ spinCounter' = spinCounter - 1
  BY <1>0, <1>2, SpinDoneWake DEF SpinNothing, Goto
<1>3. CASE SpinNothing(p) /\ Goto(p, "local") /\ UNCHANGED spinCounter
  <2>1. /\ pc' = [pc EXCEPT ![p] = "local"] /\ search' = search /\ target' = target /\ UNCHANGED idleVars
        /\ "local" \in Labels \ {"dec", "wake", "halt"}
    BY <1>3 DEF SpinNothing, Goto, idleVars, Labels, Searches
  <2>2. \A why \in {"spin", "last"} : Searching(p, why)' <=> Searching(p, why)
    BY <1>0, <2>1, ThreadFacts DEF SchedInv, SchedTypeOK, Searching
  <2> QED BY <1>0, <2>1, <2>2, QuietCounts
<1> QED BY <1>1, <1>2, <1>3 DEF SpinNothing

LEMMA WaitStartWake ==
  ASSUME SchedInv, WakeUpInv, NEW p \in Procs, WaitStart(p)
  PROVE  WakeUpInv'
<1>0. /\ p \in Threads /\ pc \in [Threads -> Labels] /\ search \in [Procs -> BusySearch \cup IdleSearch]
      /\ pc[p] = "wait" /\ pc' = [pc EXCEPT ![p] = "local"] /\ search' = [search EXCEPT ![p] = "last"]
      /\ UNCHANGED <<spinCounter, waitingProcs, haltSem, target>> /\ waitCounter' = waitCounter + 1
      /\ "local" \in Labels
  BY ThreadFacts DEF SchedInv, SchedTypeOK, WaitStart, Goto, Labels, Searches
<1>1. WakeTypeOK' /\ Wakes' /\ \A q \in Procs : (Coming(q)' <=> Coming(q)) /\ (InList(q)' <=> InList(q))
  BY <1>0, QuietWakes
<1>2. \A q \in Procs : Searching(q, "spin")' <=> Searching(q, "spin")
  BY <1>0 DEF Searching
<1>3. Waiting' = Waiting \cup {p} /\ p \notin Waiting
  <2>1. \A q \in Procs : Announced(q)' <=> Announced(q) \/ q = p
    BY <1>0 DEF Announced, Searching
  <2>2. ~Announced(p)
    BY <1>0, ThreadFacts, ReadyQueueAssumption DEF Announced, Searching, Searches, WakeUpInv, Wakes, Coming
  <2> QED BY <2>1, <2>2 DEF Waiting
<1>4. waitCounter' = Cardinality(Waiting')
  <2>1. Waiting \in SUBSET Procs /\ waitCounter = Cardinality(Waiting)
    BY DEF Waiting, WakeUpInv, CountersExact
  <2> QED BY <1>0, <1>3, <2>1, CountUp
<1>5. spinCounter' = Cardinality({q \in Procs : Searching(q, "spin")}')
  <2>1. {q \in Procs : Searching(q, "spin")}' = {q \in Procs : Searching(q, "spin")}
    BY <1>2
  <2> QED BY <1>0, <2>1 DEF WakeUpInv, CountersExact
<1> QED BY <1>1, <1>4, <1>5 DEF WakeUpInv, CountersExact, Waiting

LEMMA LastFoundWake ==
  ASSUME SchedInv, WakeUpInv, NEW p \in Procs, LastFound(p)
  PROVE  WakeUpInv'
<1>0. /\ p \in Threads /\ pc \in [Threads -> Labels]
      /\ pc[p] = "last" /\ pc' = [pc EXCEPT ![p] = "run"] /\ search' = search /\ search[p] = "last"
      /\ UNCHANGED <<spinCounter, waitingProcs, haltSem, target>> /\ waitCounter' = waitCounter - 1
      /\ "run" \in Labels
  BY ThreadFacts DEF SchedInv, SchedTypeOK, CurMatches, LastFound, Goto, Labels, IdleSearch
<1>1. WakeTypeOK' /\ Wakes' /\ \A q \in Procs : (Coming(q)' <=> Coming(q)) /\ (InList(q)' <=> InList(q))
  BY <1>0, QuietWakes
<1>2. \A q \in Procs : Searching(q, "spin")' <=> Searching(q, "spin")
  BY <1>0 DEF Searching
<1>3. Waiting' = Waiting \ {p} /\ p \in Waiting
  <2>1. ~Coming(p)
    BY <1>0 DEF WakeUpInv, Wakes
  <2>2. \A q \in Procs : Announced(q)' <=> Announced(q) /\ q # p
    BY <1>0, <2>1 DEF Announced, Searching, Coming
  <2>3. Announced(p)
    BY <1>0 DEF Announced, Searching
  <2> QED BY <2>2, <2>3 DEF Waiting
<1>4. waitCounter' = Cardinality(Waiting')
  <2>1. Waiting \in SUBSET Procs /\ waitCounter = Cardinality(Waiting)
    BY DEF Waiting, WakeUpInv, CountersExact
  <2> QED BY <1>0, <1>3, <2>1, CountDown
<1>5. spinCounter' = Cardinality({q \in Procs : Searching(q, "spin")}')
  <2>1. {q \in Procs : Searching(q, "spin")}' = {q \in Procs : Searching(q, "spin")}
    BY <1>2
  <2> QED BY <1>0, <2>1 DEF WakeUpInv, CountersExact
<1> QED BY <1>1, <1>4, <1>5 DEF WakeUpInv, CountersExact, Waiting

\* Steps that leave both counters and what they count alone.
LEMMA CountsSame ==
  ASSUME CountersExact, UNCHANGED <<spinCounter, waitCounter>>,
         \A q \in Procs : (Searching(q, "spin")' <=> Searching(q, "spin")) /\ (Announced(q)' <=> Announced(q))
  PROVE  CountersExact'
<1>1. {q \in Procs : Searching(q, "spin")}' = {q \in Procs : Searching(q, "spin")}
  OBVIOUS
<1>2. {q \in Procs : Announced(q)}' = {q \in Procs : Announced(q)}
  OBVIOUS
<1> QED BY <1>1, <1>2 DEF CountersExact

LEMMA BlockWake ==
  ASSUME SchedInv, WakeUpInv, NEW p \in Procs, Block(p)
  PROVE  WakeUpInv'
<1>0. /\ p \in Threads /\ pc \in [Threads -> Labels]
      /\ pc[p] = "last" /\ pc' = [pc EXCEPT ![p] = "halt"] /\ search' = search /\ search[p] = "last"
      /\ UNCHANGED <<spinCounter, waitCounter, haltSem, target>> /\ waitingProcs' = <<p>> \o waitingProcs
      /\ waitingProcs \in Seq(Procs)
  BY ThreadFacts DEF SchedInv, SchedTypeOK, CurMatches, Block, Goto, IdleSearch, WakeUpInv, WakeTypeOK
<1>1. PICK n \in Nat : n = Len(waitingProcs)
  BY <1>0
<1>2. /\ waitingProcs' \in Seq(Procs) /\ DOMAIN waitingProcs = 1 .. n /\ DOMAIN waitingProcs' = 1 .. n + 1
      /\ waitingProcs'[1] = p /\ \A i \in 1 .. n : waitingProcs'[i + 1] = waitingProcs[i]
      /\ \A i \in 2 .. n + 1 : waitingProcs'[i] = waitingProcs[i - 1]
  BY <1>0, <1>1
<1>3. ~InList(p) /\ ~Coming(p) /\ haltSem[p] = 0
  BY <1>0 DEF WakeUpInv, Wakes
<1>4. \A q \in Procs : (InList(q)' <=> InList(q) \/ q = p) /\ (Coming(q)' <=> Coming(q))
  <2>1. \A q \in Procs : InList(q)' => InList(q) \/ q = p
    <3>1. ASSUME NEW q \in Procs, NEW i \in 1 .. n + 1, waitingProcs'[i] = q, q # p
          PROVE  i - 1 \in 1 .. n /\ waitingProcs[i - 1] = q
      BY <1>1, <1>2, <3>1
    <3> QED BY <1>2, <3>1 DEF InList
  <2>2. \A q \in Procs : InList(q) \/ q = p => InList(q)'
    <3>1. \A i \in 1 .. n : i + 1 \in 1 .. n + 1
      BY <1>1
    <3> QED BY <1>1, <1>2, <3>1 DEF InList
  <2> QED BY <1>0, <2>1, <2>2 DEF Coming
<1>5. \A i, j \in DOMAIN waitingProcs' : waitingProcs'[i] = waitingProcs'[j] => i = j
  <2>1. \A i \in 2 .. n + 1 : i - 1 \in DOMAIN waitingProcs /\ waitingProcs'[i] # p
    BY <1>1, <1>2, <1>3 DEF InList
  <2>2. \A i, j \in DOMAIN waitingProcs : waitingProcs[i] = waitingProcs[j] => i = j
    BY DEF WakeUpInv, Wakes
  <2>3. ASSUME NEW i \in 2 .. n + 1, NEW j \in 2 .. n + 1, waitingProcs'[i] = waitingProcs'[j] PROVE i = j
    <3>1. waitingProcs[i - 1] = waitingProcs[j - 1] /\ i - 1 \in DOMAIN waitingProcs /\ j - 1 \in DOMAIN waitingProcs
      BY <1>2, <2>1, <2>3
    <3>2. i - 1 = j - 1
      BY <2>2, <3>1
    <3> QED BY <1>1, <3>2
  <2>4. \A i \in 1 .. n + 1 : i = 1 \/ i \in 2 .. n + 1
    BY <1>1
  <2> QED BY <1>2, <2>1, <2>3, <2>4
<1>6. WakeTypeOK' /\ Wakes'
  <2>1. \A t \in Threads : target'[t] # Null <=> pc'[t] \in {"dec", "wake"}
    BY <1>0 DEF WakeUpInv, Wakes
  <2>2. ASSUME NEW q \in Procs
        PROVE  /\ InList(q)' => pc'[q] = "halt"
               /\ IF pc'[q] = "halt" /\ ~InList(q)' THEN haltSem'[q] = 1 <=> ~Coming(q)'
                                                    ELSE haltSem'[q] = 0 /\ ~Coming(q)'
    <3>1. CASE q = p
      BY <1>0, <1>3, <1>4, <3>1
    <3>2. CASE q # p
      BY <1>0, <1>4, <3>2, ThreadFacts DEF WakeUpInv, Wakes
    <3> QED BY <3>1, <3>2
  <2> QED BY <1>0, <1>2, <1>5, <2>1, <2>2 DEF WakeUpInv, WakeTypeOK, Wakes
<1>7. CountersExact'
  <2>1. \A q \in Procs : Searching(q, "spin")' <=> Searching(q, "spin")
    BY <1>0, ThreadFacts DEF Searching
  <2>2. ASSUME NEW q \in Procs PROVE Announced(q)' <=> Announced(q)
    <3>1. CASE q = p
      BY <1>0, <1>4, <3>1, ThreadFacts DEF Announced, Searching, InList
    <3>2. CASE q # p
      <4>1. pc'[q] = pc[q]
        BY <1>0, <3>2, ThreadFacts
      <4>2. \A t \in Threads : pc'[t] = "dec" <=> pc[t] = "dec"
        BY <1>0
      <4> QED BY <1>0, <1>4, <3>2, <4>1, <4>2 DEF Announced, Searching, InList
    <3> QED BY <3>1, <3>2
  <2> QED BY <1>0, <2>1, <2>2, CountsSame DEF WakeUpInv
<1> QED BY <1>6, <1>7 DEF WakeUpInv

LEMMA HaltWake ==
  ASSUME SchedInv, WakeUpInv, NEW p \in Procs, Halt(p)
  PROVE  WakeUpInv'
<1>0. /\ p \in Threads /\ pc \in [Threads -> Labels] /\ haltSem \in [Procs -> 0 .. 1] /\ haltSem[p] = 1
      /\ pc[p] = "halt" /\ pc' = [pc EXCEPT ![p] = "idle"] /\ search' = search
      /\ UNCHANGED <<spinCounter, waitCounter, waitingProcs, target>>
      /\ haltSem' = [haltSem EXCEPT ![p] = 0]
  <2>1. p \in Threads /\ pc \in [Threads -> Labels] /\ haltSem \in [Procs -> 0 .. 1]
    BY ThreadFacts DEF SchedInv, SchedTypeOK, WakeUpInv, WakeTypeOK
  <2>2. haltSem[p] = 1
    BY <2>1 DEF Halt
  <2> QED BY <2>1, <2>2 DEF Halt, Goto
<1>1. ~InList(p) /\ ~Coming(p)
  BY <1>0 DEF WakeUpInv, Wakes
<1>2. \A q \in Procs : (InList(q)' <=> InList(q)) /\ (Coming(q)' <=> Coming(q))
  BY <1>0 DEF InList, Coming
<1>3. WakeTypeOK'
  BY <1>0 DEF WakeUpInv, WakeTypeOK
<1>4. Wakes'
  <2>1. /\ \A t \in Threads : target'[t] # Null <=> pc'[t] \in {"dec", "wake"}
        /\ \A t, u \in Threads : target'[t] = target'[u] => t = u \/ target'[t] = Null
        /\ \A i, j \in DOMAIN waitingProcs' : waitingProcs'[i] = waitingProcs'[j] => i = j
    BY <1>0 DEF WakeUpInv, Wakes
  <2>2. ASSUME NEW q \in Procs
        PROVE  /\ InList(q)' => pc'[q] = "halt"
               /\ IF pc'[q] = "halt" /\ ~InList(q)' THEN haltSem'[q] = 1 <=> ~Coming(q)'
                                                    ELSE haltSem'[q] = 0 /\ ~Coming(q)'
    <3>1. CASE q = p
      BY <1>0, <1>1, <1>2, <3>1
    <3>2. CASE q # p
      BY <1>0, <1>2, <3>2, ThreadFacts DEF WakeUpInv, Wakes
    <3> QED BY <3>1, <3>2
  <2> QED BY <2>1, <2>2 DEF Wakes
<1>5. CountersExact'
  <2>1. \A q \in Procs : Searching(q, "spin")' <=> Searching(q, "spin")
    BY <1>0, ThreadFacts DEF Searching
  <2>2. \A q \in Procs : Announced(q)' <=> Announced(q)
    BY <1>0, <1>1, ThreadFacts DEF Announced, Searching, InList
  <2> QED BY <1>0, <2>1, <2>2, CountsSame DEF WakeUpInv
<1> QED BY <1>3, <1>4, <1>5 DEF WakeUpInv
\* Steps of unblock().
LEMMA UnblockPopWake ==
  ASSUME SchedInv, WakeUpInv, NEW t \in Threads, UnblockPop(t)
  PROVE  WakeUpInv'
<1>0. /\ pc \in [Threads -> Labels] /\ target \in [Threads -> Procs \cup {Null}] /\ waitingProcs \in Seq(Procs)
      /\ pc[t] = "unblock" /\ pc' = [pc EXCEPT ![t] = "dec"] /\ search' = search
      /\ UNCHANGED <<spinCounter, waitCounter, haltSem>>
      /\ waitingProcs # <<>> /\ waitingProcs' = Tail(waitingProcs)
      /\ target' = [target EXCEPT ![t] = Head(waitingProcs)] /\ target[t] = Null
  BY DEF SchedInv, SchedTypeOK, UnblockPop, Goto, WakeUpInv, WakeTypeOK, Wakes
<1>1. PICK n \in Nat : n = Len(waitingProcs)
  BY <1>0
<1>2. /\ n >= 1 /\ waitingProcs' \in Seq(Procs) /\ DOMAIN waitingProcs = 1 .. n
      /\ DOMAIN waitingProcs' = 1 .. n - 1
      /\ Head(waitingProcs) = waitingProcs[1] /\ \A i \in 1 .. n - 1 : waitingProcs'[i] = waitingProcs[i + 1]
  BY <1>0, <1>1
<1>3. PICK p \in Procs : p = waitingProcs[1]
  BY <1>0, <1>1, <1>2
<1>4. \A i, j \in 1 .. n : waitingProcs[i] = waitingProcs[j] => i = j
  BY <1>2 DEF WakeUpInv, Wakes
<1>5. InList(p) /\ pc[p] = "halt" /\ ~Coming(p) /\ haltSem[p] = 0
  <2>1. InList(p)
    BY <1>1, <1>2, <1>3 DEF InList
  <2> QED BY <2>1 DEF WakeUpInv, Wakes
<1>6. \A q \in Procs : InList(q)' <=> InList(q) /\ q # p
  <2>1. ASSUME NEW i \in 1 .. n - 1 PROVE waitingProcs'[i] # p
    <3>1. i + 1 \in 1 .. n /\ i + 1 # 1 /\ 1 \in 1 .. n
      BY <1>1, <1>2
    <3> QED BY <1>2, <1>3, <1>4, <3>1
  <2>2. ASSUME NEW q \in Procs, InList(q)' PROVE InList(q) /\ q # p
    <3>1. \A i \in 1 .. n - 1 : i + 1 \in 1 .. n
      BY <1>1
    <3> QED BY <1>2, <2>1, <2>2, <3>1 DEF InList
  <2>3. ASSUME NEW q \in Procs, InList(q), q # p PROVE InList(q)'
    <3>1. PICK i \in 1 .. n : waitingProcs[i] = q
      BY <1>2, <2>3 DEF InList
    <3>2. i # 1
      BY <1>3, <2>3, <3>1
    <3>3. i - 1 \in 1 .. n - 1 /\ (i - 1) + 1 = i
      BY <1>1, <1>2, <3>2
    <3>4. waitingProcs'[i - 1] = q
      BY <1>2, <3>1, <3>3
    <3> QED BY <1>2, <3>3, <3>4 DEF InList
  <2> QED BY <2>2, <2>3
<1>7. \A q \in Procs : Coming(q)' <=> Coming(q) \/ q = p
  BY <1>0, <1>2, <1>3, ReadyQueueAssumption DEF Coming
<1>8. WakeTypeOK' /\ Wakes'
  <2>1. /\ target' \in [Threads -> Procs \cup {Null}] /\ waitingProcs' \in Seq(Procs)
        /\ \A u \in Threads : target'[u] # Null <=> pc'[u] \in {"dec", "wake"}
    BY <1>0, <1>2, <1>3, ReadyQueueAssumption DEF WakeUpInv, Wakes
  <2>2. \A u, v \in Threads : target'[u] = target'[v] => u = v \/ target'[u] = Null
    BY <1>0, <1>2, <1>3, <1>5 DEF WakeUpInv, Wakes, Coming
  <2>3. \A i, j \in 1 .. n - 1 : waitingProcs'[i] = waitingProcs'[j] => i = j
    <3>1. \A i, j \in 1 .. n - 1 : waitingProcs'[i] = waitingProcs'[j] => i + 1 = j + 1
      <4>1. \A i \in 1 .. n - 1 : i + 1 \in 1 .. n
        BY <1>1
      <4> QED BY <1>2, <1>4, <4>1
    <3> QED BY <3>1, <1>1
  <2>4. ASSUME NEW q \in Procs
        PROVE  /\ InList(q)' => pc'[q] = "halt"
               /\ IF pc'[q] = "halt" /\ ~InList(q)' THEN haltSem'[q] = 1 <=> ~Coming(q)'
                                                    ELSE haltSem'[q] = 0 /\ ~Coming(q)'
    <3>1. pc'[q] = "halt" <=> pc[q] = "halt"
      BY <1>0, ThreadFacts
    <3> QED BY <1>0, <1>5, <1>6, <1>7, <3>1 DEF WakeUpInv, Wakes
  <2> QED BY <1>0, <1>2, <2>1, <2>2, <2>3, <2>4 DEF WakeUpInv, WakeTypeOK, Wakes
<1>9. CountersExact'
  <2>1. \A q \in Procs : \A why \in {"spin", "last"} : Searching(q, why)' <=> Searching(q, why)
    BY <1>0, ThreadFacts DEF Searching
  <2>2. ASSUME NEW q \in Procs PROVE Announced(q)' <=> Announced(q)
    <3>1. CASE q = p
      BY <1>0, <1>2, <1>3, <1>5, <3>1 DEF Announced, InList
    <3>2. CASE q # p
      <4>1. pc'[q] = "halt" <=> pc[q] = "halt"
        BY <1>0, ThreadFacts
      <4>2. \A u \in Threads : pc'[u] = "dec" /\ target'[u] = q <=> pc[u] = "dec" /\ target[u] = q
        BY <1>0, <1>2, <1>3, <3>2
      <4>3. InList(q)' <=> InList(q)
        BY <1>6, <3>2
      <4> QED BY <2>1, <4>1, <4>2, <4>3 DEF Announced, InList
    <3> QED BY <3>1, <3>2
  <2> QED BY <1>0, <2>1, <2>2, CountsSame DEF WakeUpInv
<1> QED BY <1>8, <1>9 DEF WakeUpInv

LEMMA UnblockDecWake ==
  ASSUME SchedInv, WakeUpInv, NEW t \in Threads, UnblockDec(t)
  PROVE  WakeUpInv'
<1>0. /\ pc \in [Threads -> Labels] /\ target \in [Threads -> Procs \cup {Null}]
      /\ pc[t] = "dec" /\ pc' = [pc EXCEPT ![t] = "wake"] /\ search' = search
      /\ UNCHANGED <<spinCounter, waitingProcs, haltSem, target>> /\ waitCounter' = waitCounter - 1
  BY DEF SchedInv, SchedTypeOK, UnblockDec, Goto, WakeUpInv, WakeTypeOK
<1>1. \A q \in Procs : (InList(q)' <=> InList(q)) /\ (Coming(q)' <=> Coming(q)) /\ (pc'[q] = "halt" <=> pc[q] = "halt")
  BY <1>0, ThreadFacts DEF InList, Coming
<1>2. WakeTypeOK' /\ Wakes'
  <2>1. \A q \in Procs :
          /\ InList(q)' => pc'[q] = "halt"
          /\ IF pc'[q] = "halt" /\ ~InList(q)' THEN haltSem'[q] = 1 <=> ~Coming(q)'
                                               ELSE haltSem'[q] = 0 /\ ~Coming(q)'
    BY <1>0, <1>1 DEF WakeUpInv, Wakes
  <2> QED BY <1>0, <2>1 DEF WakeUpInv, WakeTypeOK, Wakes
<1>3. PICK p \in Procs : p = target[t]
  BY <1>0 DEF WakeUpInv, Wakes
<1>4. pc[p] = "halt" /\ ~InList(p)
  BY <1>3 DEF WakeUpInv, Wakes, Coming
<1>5. \A q \in Procs : \A why \in {"spin", "last"} : Searching(q, why)' <=> Searching(q, why)
  BY <1>0, ThreadFacts DEF Searching
<1>6. Waiting' = Waiting \ {p} /\ p \in Waiting
  <2>1. Announced(p)
    BY <1>0, <1>3 DEF Announced
  <2>2. ~Announced(p)'
    <3>1. \A u \in Threads : u # t => target[u] # p
      BY <1>3, ReadyQueueAssumption DEF WakeUpInv, Wakes
    <3> QED BY <1>0, <1>1, <1>4, <3>1, ThreadFacts DEF Announced, Searching, Searches, InList
  <2>3. ASSUME NEW q \in Procs, q # p PROVE Announced(q)' <=> Announced(q)
    <3>1. \A u \in Threads : pc'[u] = "dec" /\ target'[u] = q <=> pc[u] = "dec" /\ target[u] = q
      BY <1>0, <1>3, <2>3
    <3> QED BY <1>0, <1>1, <1>5, <3>1 DEF Announced, InList
  <2> QED BY <2>1, <2>2, <2>3 DEF Waiting
<1>7. waitCounter' = Cardinality(Waiting')
  <2>1. Waiting \in SUBSET Procs /\ waitCounter = Cardinality(Waiting)
    BY DEF Waiting, WakeUpInv, CountersExact
  <2> QED BY <1>0, <1>6, <2>1, CountDown
<1>8. spinCounter' = Cardinality({q \in Procs : Searching(q, "spin")}')
  <2>1. {q \in Procs : Searching(q, "spin")}' = {q \in Procs : Searching(q, "spin")}
    BY <1>5
  <2> QED BY <1>0, <2>1 DEF WakeUpInv, CountersExact
<1> QED BY <1>2, <1>7, <1>8 DEF WakeUpInv, CountersExact, Waiting

LEMMA WakeWake ==
  ASSUME SchedInv, WakeUpInv, NEW t \in Threads, Wake(t)
  PROVE  WakeUpInv'
<1>1. PICK p \in Procs : p = target[t]
  BY DEF WakeUpInv, WakeTypeOK, Wakes, Wake
<1>2. pc[p] = "halt" /\ ~InList(p) /\ haltSem[p] = 0 /\ \A u \in Threads : u # t => target[u] # p
  <2>1. Coming(p) /\ haltSem[p] \in 0 .. 1
    BY <1>1 DEF Coming, WakeUpInv, WakeTypeOK
  <2> QED BY <1>1, <2>1, ReadyQueueAssumption DEF WakeUpInv, Wakes
<1>0. /\ pc \in [Threads -> Labels] /\ target \in [Threads -> Procs \cup {Null}] /\ haltSem \in [Procs -> 0 .. 1]
      /\ pc[t] = "wake" /\ (pc' = [pc EXCEPT ![t] = "idle"] \/ pc' = [pc EXCEPT ![t] = "run"]) /\ search' = search
      /\ UNCHANGED <<spinCounter, waitCounter, waitingProcs>>
      /\ target' = [target EXCEPT ![t] = Null]
      /\ haltSem' = [haltSem EXCEPT ![p] = 1]
  <2>1. pc \in [Threads -> Labels] /\ target \in [Threads -> Procs \cup {Null}] /\ haltSem \in [Procs -> 0 .. 1]
    BY DEF SchedInv, SchedTypeOK, WakeUpInv, WakeTypeOK
  <2>2. haltSem' = [haltSem EXCEPT ![p] = haltSem[p] + 1]
    BY <1>1 DEF Wake
  <2>3. haltSem[p] + 1 = 1
    BY <1>2
  <2>4. pc[t] = "wake" /\ pc' = [pc EXCEPT ![t] = Proceed(t)] /\ search' = search
        /\ target' = [target EXCEPT ![t] = Null]
    BY DEF Wake, Goto
  <2>5. Proceed(t) = "idle" \/ Proceed(t) = "run"
    BY DEF Proceed
  <2>6. UNCHANGED <<spinCounter, waitCounter, waitingProcs>>
    BY DEF Wake
  <2> QED BY <2>1, <2>2, <2>3, <2>4, <2>5, <2>6
<1>3. \A q \in Procs : /\ InList(q)' <=> InList(q)
                       /\ Coming(q)' <=> Coming(q) /\ q # p
                       /\ pc'[q] = "halt" <=> pc[q] = "halt"
  <2>1. \A u \in Threads : u # t => target'[u] = target[u]
    BY <1>0
  <2>2. target'[t] = Null /\ Null \notin Procs
    BY <1>0, ReadyQueueAssumption
  <2>3. \A q \in Procs : Coming(q)' <=> Coming(q) /\ q # p
    BY <1>1, <1>2, <2>1, <2>2 DEF Coming
  <2> QED BY <1>0, <2>3, ThreadFacts DEF InList
<1>4. WakeTypeOK' /\ Wakes'
  <2>1. ASSUME NEW q \in Procs
        PROVE  /\ InList(q)' => pc'[q] = "halt"
               /\ IF pc'[q] = "halt" /\ ~InList(q)' THEN haltSem'[q] = 1 <=> ~Coming(q)'
                                                    ELSE haltSem'[q] = 0 /\ ~Coming(q)'
    BY <1>0, <1>2, <1>3 DEF WakeUpInv, Wakes
  <2>2. /\ \A u \in Threads : target'[u] # Null <=> pc'[u] \in {"dec", "wake"}
        /\ \A u, v \in Threads : target'[u] = target'[v] => u = v \/ target'[u] = Null
    BY <1>0 DEF WakeUpInv, Wakes
  <2>3. target' \in [Threads -> Procs \cup {Null}] /\ haltSem' \in [Procs -> 0 .. 1]
    BY <1>0
  <2> QED BY <1>0, <2>1, <2>2, <2>3 DEF WakeUpInv, WakeTypeOK, Wakes
<1>5. CountersExact'
  <2>1. \A q \in Procs : \A why \in {"spin", "last"} : Searching(q, why)' <=> Searching(q, why)
    BY <1>0, ThreadFacts DEF Searching
  <2>2. \A u \in Threads : pc'[u] = "dec" <=> pc[u] = "dec"
    BY <1>0
  <2>3. \A u \in Threads : pc[u] = "dec" => target'[u] = target[u]
    BY <1>0
  <2>4. ASSUME NEW q \in Procs PROVE Announced(q)' <=> Announced(q)
    BY <1>0, <1>3, <2>1, <2>2, <2>3 DEF Announced, InList
  <2> QED BY <1>0, <2>1, <2>4, CountsSame DEF WakeUpInv
<1> QED BY <1>4, <1>5 DEF WakeUpInv

LEMMA WakeInitInv == Init => WakeUpInv
<1> SUFFICES ASSUME Init PROVE WakeUpInv
  OBVIOUS
<1>0. /\ pc \in [Threads -> {"idle", "run"}] /\ search = [p \in Procs |-> "full"]
      /\ target = [t \in Threads |-> Null] /\ haltSem = [p \in Procs |-> 0] /\ waitingProcs = <<>>
      /\ spinCounter = 0 /\ waitCounter = 0
  BY DEF Init
<1>1. \A p \in Procs : ~InList(p) /\ ~Coming(p) /\ pc[p] \in {"idle", "run"}
  BY <1>0, ReadyQueueAssumption, ThreadFacts DEF InList, Coming
<1>2. WakeTypeOK
  BY <1>0 DEF WakeTypeOK
<1>3. Wakes
  BY <1>0, <1>1 DEF Wakes
<1>4. CountersExact
  <2>1. \A p \in Procs : ~Searching(p, "spin") /\ ~Announced(p)
    BY <1>0, <1>1 DEF Searching, Announced, Searches
  <2>2. {p \in Procs : Searching(p, "spin")} = {} /\ {p \in Procs : Announced(p)} = {}
    BY <2>1
  <2> QED BY <1>0, <2>2, FS_EmptySet DEF CountersExact
<1> QED BY <1>2, <1>3, <1>4 DEF WakeUpInv

LEMMA WakeNextInv == SchedInv /\ WakeUpInv /\ [Next]_vars => WakeUpInv'
<1> SUFFICES ASSUME SchedInv, WakeUpInv, [Next]_vars PROVE WakeUpInv'
  OBVIOUS
<1>1. ASSUME UNCHANGED <<pc, search, target, waitingProcs, haltSem, spinCounter, waitCounter>>
      PROVE  WakeUpInv'
  <2>1. \A q \in Procs : /\ Searching(q, "spin")' <=> Searching(q, "spin")
                         /\ Announced(q)' <=> Announced(q)
                         /\ (InList(q)' <=> InList(q)) /\ (Coming(q)' <=> Coming(q))
    BY <1>1 DEF Searching, Announced, InList, Coming
  <2>2. CountersExact'
    BY <1>1, <2>1, CountsSame DEF WakeUpInv
  <2> QED BY <1>1, <2>1, <2>2 DEF WakeUpInv, WakeTypeOK, Wakes
<1>2. CASE UNCHANGED vars
  BY <1>1, <1>2 DEF vars, procVars, idleVars
<1>3. ASSUME NEW t \in Threads, BufferDrain(t) PROVE WakeUpInv'
  BY <1>1, <1>3 DEF BufferDrain, procVars, idleVars
<1>4. ASSUME NEW t \in Threads, (\E f \in Freds : Resume(t, f)) \/ EnqueueStep(t) PROVE WakeUpInv'
  BY <1>4, QuietThreadWake, UnblockPopWake, UnblockDecWake, WakeWake DEF EnqueueStep
<1>5. ASSUME NEW p \in Procs, Suspend(p) \/ Yield(p) \/ \E q \in Procs : Migrate(p, q)
      PROVE  WakeUpInv'
  BY <1>5, QuietSwitchWake
<1>6. ASSUME NEW p \in Procs, Step(p) PROVE WakeUpInv'
  <2>1. CASE SearchStep(p)
    BY <2>1, QuietSearchWake
  <2>2. CASE SwitchFull(p) \/ PostSuspend(p) \/ SwitchYield(p)
    BY <2>2, QuietSwitchWake
  <2>3. CASE IdleStep(p)
    BY <2>3, SpinStartWake, SpinWake, WaitStartWake, LastFoundWake, BlockWake, HaltWake DEF IdleStep
  <2> QED BY <1>6, <2>1, <2>2, <2>3 DEF Step
<1> QED BY <1>2, <1>3, <1>4, <1>5, <1>6 DEF Next

LEMMA WakeInvariant == SafeSpec => [](SchedInv /\ WakeUpInv)
  BY SchedInitInv, SchedNextInv, WakeInitInv, WakeNextInv, PTL DEF SafeSpec

LEMMA WakesOnce == WakeUpInv => WakeOnce
<1> SUFFICES ASSUME WakeUpInv PROVE WakeOnce
  OBVIOUS
<1>1. IsInjective(waitingProcs)
  BY DEF WakeUpInv, Wakes, IsInjective
<1>2. ASSUME NEW p \in Procs
      PROVE  Tokens(p) = IF pc[p] = "halt" /\ \A i \in DOMAIN waitingProcs : waitingProcs[i] # p THEN 1 ELSE 0
  <2>1. haltSem[p] \in 0 .. 1
    BY DEF WakeUpInv, WakeTypeOK
  <2>2. CASE Coming(p)
    <3>1. PICK t \in Threads : target[t] = p
      BY <2>2 DEF Coming
    <3>2. {u \in Threads : target[u] = p} = {t}
      BY <3>1, ReadyQueueAssumption DEF WakeUpInv, Wakes
    <3>3. Cardinality({u \in Threads : target[u] = p}) = 1
      BY <3>2, FS_Singleton
    <3>4. haltSem[p] = 0 /\ pc[p] = "halt" /\ ~InList(p)
      BY <2>1, <2>2 DEF WakeUpInv, Wakes
    <3> QED BY <3>3, <3>4 DEF Tokens, InList
  <2>3. CASE ~Coming(p)
    <3>1. {u \in Threads : target[u] = p} = {}
      BY <2>3 DEF Coming
    <3>2. Cardinality({u \in Threads : target[u] = p}) = 0
      BY <3>1, FS_EmptySet
    <3>3. haltSem[p] = IF pc[p] = "halt" /\ ~InList(p) THEN 1 ELSE 0
      BY <2>1, <2>3 DEF WakeUpInv, Wakes
    <3> QED BY <3>2, <3>3 DEF Tokens, InList
  <2> QED BY <2>2, <2>3
<1> QED BY <1>1, <1>2 DEF WakeOnce

\* Every halt of a processor is matched by one wake-up, and the idle manager's
\* counters are exact, whatever the store buffers hold.
THEOREM WakeUpsAreExact == SafeSpec => [](CountersExact /\ WakeOnce)
<1>1. SchedInv /\ WakeUpInv => CountersExact /\ WakeOnce
  BY WakesOnce DEF WakeUpInv
<1> QED BY <1>1, WakeInvariant, PTL
---------------------------------------------------------------------------
(* No lost wake-up, without store buffers.                                  *)

\* The queues a thief p that looks at v has before it.
Before(p, v, q) == IF v > p THEN q >= v \/ q < p ELSE v <= q /\ q < p

LEMMA RingBefore ==
  ASSUME NEW p \in Procs, NEW v \in Procs, NEW q \in Procs, q # v, v # p
  PROVE  Before(p, v, q) => Before(p, RingNext(v), q)
  BY ReadyQueueAssumption DEF Before, RingNext, Procs

\* A thief that starts has all queues but its own before it.
LEMMA RingStart ==
  ASSUME NEW p \in Procs, NEW q \in Procs, q # p
  PROVE  Before(p, RingNext(p), q)
  BY ReadyQueueAssumption DEF Before, RingNext, Procs

LEMMA RingHere ==
  ASSUME NEW p \in Procs, NEW v \in Procs, v # p
  PROVE  Before(p, v, v)
  BY DEF Before, Procs

\* The thread t goes on and leaves queues, locks and links alone.
LEMMA QuietNotice ==
  ASSUME SchedInv, NoticeInv, NEW t \in Threads, NEW l \in Labels,
         pc' = [pc EXCEPT ![t] = l], UNCHANGED readyVars,
         {pc[t], l} \cap {"localpop", "stealpop", "link", "yieldlink"} = {},
         \A u \in Threads : u # t => arg'[u] = arg[u],
         \A u \in Procs : u # t => victim'[u] = victim[u]
  PROVE  NoBuffer' /\ LockHeld' /\ Linked'
<1>0. pc \in [Threads -> Labels] /\ Procs \subseteq Threads
  BY ThreadFacts DEF SchedInv, SchedTypeOK
<1>1. NoBuffer'
  BY DEF NoticeInv, NoBuffer, readyVars
<1>2. LockHeld'
  <2>1. /\ \A u \in Procs : pc[u] = "localpop" => pc'[u] = "localpop"
        /\ \A u \in Procs : pc[u] = "stealpop" => pc'[u] = "stealpop" /\ victim'[u] = victim[u]
        /\ \A u \in Procs : pc'[u] = "stealpop" => pc[u] = "stealpop" /\ victim'[u] = victim[u]
    <3>1. \A u \in Procs : u # t => pc'[u] = pc[u] /\ victim'[u] = victim[u]
      BY <1>0
    <3>2. pc[t] \notin {"localpop", "stealpop"} /\ pc'[t] \notin {"localpop", "stealpop"}
      BY <1>0
    <3> QED BY <3>1, <3>2
  <2>2. readyLock' = readyLock
    BY DEF readyVars
  <2> QED BY <2>1, <2>2 DEF NoticeInv, LockHeld
<1>3. Linked'
  <2>1. UNCHANGED <<rq, linked>>
    BY DEF readyVars
  <2>2. \A u \in Threads : pc[u] \in {"link", "yieldlink"} => u # t
    OBVIOUS
  <2>3. \A u \in Threads : pc[u] \in {"link", "yieldlink"} => pc'[u] = pc[u] /\ arg'[u] = arg[u]
    BY <1>0, <2>2
  <2> QED BY <2>1, <2>3 DEF NoticeInv, Linked
<1> QED BY <1>1, <1>2, <1>3

\* The thread t goes on: what the others see to does not change.
LEMMA OthersNotice ==
  ASSUME SchedInv, NEW t \in Threads, NEW l \in Labels, pc' = [pc EXCEPT ![t] = l],
         UNCHANGED <<haltSem, target>>,
         \A u \in Procs : u # t => search'[u] = search[u] /\ victim'[u] = victim[u] /\ next'[u] = next[u]
  PROVE  /\ \A u \in Procs : u # t => (Up(u)' <=> Up(u))
         /\ \A u, q \in Procs : u # t => (Ahead(u, q)' <=> Ahead(u, q))
         /\ \A u \in Threads : u # t => (Waking(u)' <=> Waking(u))
<1>0. pc \in [Threads -> Labels] /\ Procs \subseteq Threads
  BY ThreadFacts DEF SchedInv, SchedTypeOK
<1>1. \A u \in Threads : u # t => pc'[u] = pc[u]
  BY <1>0
<1>2. \A u \in Procs : u # t => (Up(u)' <=> Up(u))
  BY <1>0, <1>1 DEF Up, Asleep
<1>3. \A u, q \in Procs : u # t => (Ahead(u, q)' <=> Ahead(u, q))
  BY <1>0, <1>1 DEF Ahead
<1>4. \A u \in Threads : u # t => (Waking(u)' <=> Waking(u))
  BY <1>1 DEF Waking
<1> QED BY <1>2, <1>3, <1>4

LEMMA UpNotices ==
  ASSUME NEW p \in Procs, Up(p)'
  PROVE  Noticed'
  BY DEF Noticed

LEMMA WakingNotices ==
  ASSUME NEW t \in Threads, Waking(t)'
  PROVE  Noticed'
  BY DEF Noticed

\* A processor that is neither in its last search nor halted is up.
LEMMA UpWhen ==
  ASSUME NEW p \in Procs, pc'[p] \notin {"last", "halt"}, pc'[p] \in Searches => search'[p] # "last"
  PROVE  Up(p)'
  BY DEF Up, Asleep

\* Steps outside the queues.
LEMMA ThreadNotice ==
  ASSUME SchedInv, WakeUpInv, NoticeInv, NEW t \in Threads,
         \/ \E f \in Freds : Resume(t, f)
         \/ UnblockNone(t) \/ UnblockPop(t) \/ UnblockDec(t) \/ Wake(t)
  PROVE  NoticeInv'
<1>0. pc \in [Threads -> Labels] /\ Procs \subseteq Threads
  BY ThreadFacts DEF SchedInv, SchedTypeOK
<1>1. /\ UNCHANGED <<readyVars, search, victim, next>>
      /\ \A u \in Threads : u # t => arg'[u] = arg[u]
      /\ pc[t] \in {"run", "unblock", "dec", "wake"}
      /\ \E l \in {"tail", "dec", "wake", "run", "idle"} : pc' = [pc EXCEPT ![t] = l]
  <2>1. CASE \E f \in Freds : Resume(t, f)
    <3>1. arg \in [Threads -> Freds \cup {Null}]
      BY DEF SchedInv, SchedTypeOK
    <3> QED BY <2>1, <3>1 DEF Resume, Goto
  <2>2. CASE UnblockNone(t) \/ UnblockPop(t) \/ UnblockDec(t) \/ Wake(t)
    BY <2>2 DEF UnblockNone, UnblockPop, UnblockDec, Wake, Goto, Proceed
  <2> QED BY <2>1, <2>2
<1>2. PICK l \in {"tail", "dec", "wake", "run", "idle"} : pc' = [pc EXCEPT ![t] = l]
  BY <1>1
<1>3. l \in Labels
  BY DEF Labels, Enqueues
<1>4. NoBuffer' /\ LockHeld' /\ Linked'
  <2>1. {pc[t], l} \cap {"localpop", "stealpop", "link", "yieldlink"} = {}
    BY <1>1, <1>2
  <2>2. /\ UNCHANGED readyVars
        /\ \A u \in Threads : u # t => arg'[u] = arg[u]
        /\ \A u \in Procs : u # t => victim'[u] = victim[u]
    BY <1>1
  <2> QED BY <1>2, <1>3, <2>1, <2>2, QuietNotice
<1>5. Noticed'
  <2>1. CASE t \in Procs
    <3>1. pc'[t] \notin {"last", "halt"} \cup Searches
      BY <1>0, <1>2 DEF Searches
    <3> QED BY <2>1, <3>1, UpWhen, UpNotices
  <2>2. CASE UnblockPop(t) \/ UnblockDec(t)
    <3>1. Waking(t)'
      BY <1>0, <2>2 DEF UnblockPop, UnblockDec, Goto, Waking
    <3> QED BY <3>1, WakingNotices
  <2>3. CASE Wake(t) /\ t \notin Procs
    <3>1. PICK p \in Procs : p = target[t]
      BY <2>3 DEF WakeUpInv, WakeTypeOK, Wakes, Wake
    <3>2. pc[p] = "halt" /\ haltSem[p] = 0
      <4>1. Coming(p) /\ haltSem[p] \in 0 .. 1
        BY <3>1 DEF Coming, WakeUpInv, WakeTypeOK
      <4> QED BY <4>1 DEF WakeUpInv, Wakes
    <3>3. haltSem \in [Procs -> 0 .. 1] /\ haltSem' = [haltSem EXCEPT ![p] = haltSem[p] + 1]
      BY <2>3, <3>1 DEF WakeUpInv, WakeTypeOK, Wake
    <3>4. haltSem'[p] = 1 /\ pc'[p] = "halt"
      BY <1>0, <1>2, <2>3, <3>2, <3>3
    <3>5. Up(p)'
      BY <3>4 DEF Up, Asleep, Searches
    <3> QED BY <3>5, UpNotices
  <2>4. CASE UnblockNone(t) /\ t \notin Procs
    <3>1. Waiting = {}
      <4>1. Waiting \in SUBSET Procs /\ Cardinality(Waiting) = 0
        BY <2>4 DEF Waiting, WakeUpInv, CountersExact, UnblockNone
      <4> QED BY <4>1, ProcsFinite, FS_Subset, FS_EmptySet
    <3>2. 1 \in Procs /\ ~Announced(1)
      BY <3>1, ReadyQueueAssumption DEF Waiting, Procs
    <3>3. Up(1)
      <4>1. ~Searching(1, "last")
        BY <3>2 DEF Announced
      <4>2. ~Asleep(1)
        BY <3>2 DEF Announced, Asleep, WakeUpInv, Wakes, InList, Coming
      <4> QED BY <4>1, <4>2 DEF Up, Searching, Searches
    <3>4. UNCHANGED <<haltSem, target>> /\ 1 # t
      BY <2>4, <3>2 DEF UnblockNone, idleVars
    <3>5. Up(1)'
      BY <1>1, <1>2, <1>3, <3>2, <3>3, <3>4, OthersNotice
    <3> QED BY <3>2, <3>5, UpNotices
  <2>5. CASE (\E f \in Freds : Resume(t, f)) /\ t \notin Procs
    <3>1. UNCHANGED <<haltSem, target, rq>> /\ pc[t] = "run"
      BY <2>5 DEF Resume, idleVars, readyVars
    <3>2. /\ \A u \in Procs : u # t => (Up(u)' <=> Up(u))
          /\ \A u, q \in Procs : u # t => (Ahead(u, q)' <=> Ahead(u, q))
          /\ \A u \in Threads : u # t => (Waking(u)' <=> Waking(u))
      BY <1>1, <1>2, <1>3, <3>1, OthersNotice
    <3>3. ~Waking(t)
      BY <3>1 DEF Waking
    <3> QED BY <2>5, <3>1, <3>2, <3>3 DEF NoticeInv, Noticed
  <2> QED BY <2>1, <2>2, <2>3, <2>4, <2>5
<1> QED BY <1>4, <1>5 DEF NoticeInv

LEMMA SwitchNotice ==
  ASSUME SchedInv, WakeUpInv, NoticeInv, NEW p \in Procs,
         \/ Suspend(p) \/ Yield(p) \/ \E q \in Procs : Migrate(p, q)
         \/ SwitchFull(p) \/ PostSuspend(p) \/ SwitchYield(p)
  PROVE  NoticeInv'
<1>0. /\ p \in Threads /\ pc \in [Threads -> Labels] /\ search \in [Procs -> BusySearch \cup IdleSearch]
      /\ arg \in [Threads -> Freds \cup {Null}]
  BY ThreadFacts DEF SchedInv, SchedTypeOK
<1>1. /\ UNCHANGED <<readyVars, victim>>
      /\ pc[p] \in BusySearch \cup {"run", "post"}
      /\ \E l \in {"local", "post", "tail", "yieldtail", "run", "idle"} :
           /\ pc' = [pc EXCEPT ![p] = l]
           /\ l = "local" => search'[p] \in BusySearch
      /\ \A u \in Threads : u # p => arg'[u] = arg[u]
  BY <1>0 DEF Suspend, Yield, Migrate, SwitchFull, PostSuspend, SwitchYield, Goto, Proceed, BusySearch
<1>2. PICK l \in {"local", "post", "tail", "yieldtail", "run", "idle"} :
           /\ pc' = [pc EXCEPT ![p] = l]
           /\ l = "local" => search'[p] \in BusySearch
  BY <1>1
<1>3. NoBuffer' /\ LockHeld' /\ Linked'
  <2>1. l \in Labels
    BY DEF Labels, Enqueues, Searches
  <2>2. {pc[p], l} \cap {"localpop", "stealpop", "link", "yieldlink"} = {}
    BY <1>1, <1>2 DEF BusySearch
  <2> QED BY <1>0, <1>1, <1>2, <2>1, <2>2, QuietNotice
<1>4. Noticed'
  <2>1. pc'[p] \notin {"last", "halt"} /\ (pc'[p] \in Searches => search'[p] # "last")
    BY <1>0, <1>2 DEF Searches, BusySearch
  <2> QED BY <2>1, UpWhen, UpNotices
<1> QED BY <1>3, <1>4 DEF NoticeInv

LEMMA IdleNotice ==
  ASSUME SchedInv, WakeUpInv, NoticeInv, NEW p \in Procs, IdleStep(p)
  PROVE  NoticeInv'
<1>0. /\ p \in Threads /\ pc \in [Threads -> Labels] /\ search \in [Procs -> BusySearch \cup IdleSearch]
      /\ pc[p] = "spin" => search[p] = "spin"
  BY ThreadFacts DEF SchedInv, SchedTypeOK, CurMatches, IdleSearch
<1>1. /\ UNCHANGED <<readyVars, victim, arg, target>>
      /\ pc[p] \in {"idle", "spin", "wait", "last", "halt"}
      /\ \E l \in {"local", "unblock", "run", "wait", "halt", "idle"} : pc' = [pc EXCEPT ![p] = l]
  BY DEF IdleStep, SpinStart, SpinFound, SpinNothing, WaitStart, LastFound, Block, Halt, Goto
<1>2. PICK l \in {"local", "unblock", "run", "wait", "halt", "idle"} : pc' = [pc EXCEPT ![p] = l]
  BY <1>1
<1>3. l \in Labels
  BY DEF Labels, Searches
<1>4. NoBuffer' /\ LockHeld' /\ Linked'
  <2>1. {pc[p], l} \cap {"localpop", "stealpop", "link", "yieldlink"} = {}
    BY <1>1, <1>2
  <2> QED BY <1>0, <1>1, <1>2, <1>3, <2>1, QuietNotice
<1>5. CASE WaitStart(p)
  <2>1. pc'[p] = "local" /\ search'[p] = "last"
    BY <1>0, <1>5 DEF WaitStart, Goto
  <2>2. \A q \in Procs : Ahead(p, q)'
    BY <2>1 DEF Ahead
  <2>3. Noticed'
    BY <2>2 DEF Noticed
  <2> QED BY <1>4, <2>3 DEF NoticeInv
<1>6. CASE Block(p)
  <2>1. UNCHANGED <<haltSem, target, rq, search, next, victim>> /\ pc[p] = "last" /\ next[p] = Null
    BY <1>6 DEF Block, readyVars
  <2>2. ~Up(p) /\ ~Waking(p) /\ \A q \in Procs : ~Ahead(p, q)
    BY <2>1 DEF Up, Ahead, Waking
  <2>3. /\ \A u \in Procs : u # p => (Up(u)' <=> Up(u))
        /\ \A u, q \in Procs : u # p => (Ahead(u, q)' <=> Ahead(u, q))
        /\ \A u \in Threads : u # p => (Waking(u)' <=> Waking(u))
    BY <1>0, <1>2, <1>3, <2>1, OthersNotice
  <2>4. Noticed'
    BY <2>1, <2>2, <2>3 DEF NoticeInv, Noticed
  <2> QED BY <1>4, <2>4 DEF NoticeInv
<1>7. CASE SpinStart(p) \/ SpinFound(p) \/ SpinNothing(p) \/ LastFound(p) \/ Halt(p)
  <2>1. pc'[p] \notin {"last", "halt"}
    BY <1>0, <1>7 DEF SpinStart, SpinFound, SpinNothing, LastFound, Halt, Goto
  <2>2. pc'[p] \in Searches => search'[p] # "last"
    BY <1>0, <1>7 DEF SpinStart, SpinFound, SpinNothing, LastFound, Halt, Goto, Searches
  <2> QED BY <1>4, <2>1, <2>2, UpWhen, UpNotices DEF NoticeInv
<1> QED BY <1>5, <1>6, <1>7 DEF IdleStep

\* A push: its first half, and its second half without a store buffer.
LEMMA EnqueueTailNotice ==
  ASSUME SchedInv, NoticeInv, NEW t \in Threads, EnqueueTail(t)
  PROVE  NoticeInv'
<1>0. /\ pc \in [Threads -> Labels] /\ Procs \subseteq Threads /\ rq \in [Procs -> Seq(Freds)]
      /\ arg[t] \in Freds /\ home[arg[t]] \in Procs
  BY ThreadFacts DEF SchedInv, SchedTypeOK, HandsMatch, EnqueueTail, Enqueues
<1>1. PICK p \in Procs : p = home[arg[t]]
  BY <1>0
<1>2. /\ pc[t] \in {"tail", "yieldtail"}
      /\ pc' = [pc EXCEPT ![t] = IF pc[t] = "tail" THEN "link" ELSE "yieldlink"]
      /\ rq' = [rq EXCEPT ![p] = Append(rq[p], arg[t])]
      /\ UNCHANGED <<linked, buffer, readyLock, arg, victim>>
  BY <1>1 DEF EnqueueTail, Goto, PushTail
<1>3. pc'[t] \in {"link", "yieldlink"} /\ \A u \in Threads : u # t => pc'[u] = pc[u]
  BY <1>0, <1>2
<1>4. NoBuffer'
  BY <1>2 DEF NoticeInv, NoBuffer
<1>5. LockHeld'
  <2>1. /\ \A u \in Procs : pc[u] = "localpop" => pc'[u] = "localpop"
        /\ \A u \in Procs : pc[u] = "stealpop" <=> pc'[u] = "stealpop"
    BY <1>0, <1>2, <1>3
  <2> QED BY <1>2, <2>1 DEF NoticeInv, LockHeld
<1>6. Linked'
  <2>1. SUFFICES ASSUME NEW q \in Procs, NEW i \in DOMAIN rq'[q]
                 PROVE  \/ rq'[q][i] \in linked
                        \/ \E u \in Threads : pc'[u] \in {"link", "yieldlink"} /\ arg[u] = rq'[q][i]
    BY <1>2 DEF Linked
  <2>2. CASE q = p /\ i = Len(rq[p]) + 1
    <3>1. rq'[q][i] = arg[t]
      BY <1>0, <1>2, <2>2
    <3> QED BY <1>3, <3>1
  <2>3. CASE ~(q = p /\ i = Len(rq[p]) + 1)
    <3>1. i \in DOMAIN rq[q] /\ rq'[q][i] = rq[q][i]
      <4>1. CASE q = p
        <5>1. rq[p] \in Seq(Freds) /\ rq'[p] = Append(rq[p], arg[t])
          BY <1>0, <1>2
        <5> QED BY <1>0, <2>3, <4>1, <5>1
      <4>2. CASE q # p
        BY <1>0, <1>2, <4>2
      <4> QED BY <4>1, <4>2
    <3>2. \A u \in Threads : pc[u] \in {"link", "yieldlink"} => pc'[u] \in {"link", "yieldlink"}
      BY <1>2, <1>3
    <3> QED BY <3>1, <3>2 DEF NoticeInv, Linked
  <2> QED BY <2>2, <2>3
<1>7. Noticed'
  <2>1. CASE pc[t] = "tail"
    <3>1. Waking(t)'
      BY <1>0, <1>2, <2>1 DEF Waking
    <3> QED BY <3>1, WakingNotices
  <2>2. CASE pc[t] = "yieldtail"
    <3>1. t \in Procs
      BY <2>2, ThreadFacts DEF SchedInv, HandsMatch
    <3>2. pc'[t] \notin {"last", "halt"} \cup Searches
      BY <1>3 DEF Searches
    <3> QED BY <3>1, <3>2, UpWhen, UpNotices
  <2> QED BY <1>2, <2>1, <2>2
<1> QED BY <1>4, <1>5, <1>6, <1>7 DEF NoticeInv

LEMMA EnqueueLinkNotice ==
  ASSUME ~TSO, SchedInv, NoticeInv, NEW t \in Threads, EnqueueLink(t)
  PROVE  NoticeInv'
<1>0. pc \in [Threads -> Labels] /\ Procs \subseteq Threads /\ arg \in [Threads -> Freds \cup {Null}]
  BY ThreadFacts DEF SchedInv, SchedTypeOK
<1>1. /\ pc[t] \in {"link", "yieldlink"}
      /\ pc' = [pc EXCEPT ![t] = IF pc[t] = "link" THEN "unblock" ELSE Proceed(t)]
      /\ linked' = linked \cup {arg[t]} /\ arg' = [arg EXCEPT ![t] = Null]
      /\ UNCHANGED <<rq, buffer, readyLock, victim>>
  BY DEF EnqueueLink, Goto, PushLink
<1>2. pc'[t] \in {"unblock", "run", "idle"} /\ \A u \in Threads : u # t => pc'[u] = pc[u] /\ arg'[u] = arg[u]
  BY <1>0, <1>1 DEF Proceed
<1>3. NoBuffer'
  BY <1>1 DEF NoticeInv, NoBuffer
<1>4. LockHeld'
  <2>1. /\ \A u \in Procs : pc[u] = "localpop" => pc'[u] = "localpop"
        /\ \A u \in Procs : pc[u] = "stealpop" <=> pc'[u] = "stealpop"
    BY <1>0, <1>1, <1>2
  <2> QED BY <1>1, <2>1 DEF NoticeInv, LockHeld
<1>5. Linked'
  <2>1. SUFFICES ASSUME NEW q \in Procs, NEW i \in DOMAIN rq[q]
                 PROVE  \/ rq[q][i] \in linked'
                        \/ \E u \in Threads : pc'[u] \in {"link", "yieldlink"} /\ arg'[u] = rq[q][i]
    BY <1>1 DEF Linked
  <2>2. CASE rq[q][i] \in linked
    BY <1>1, <2>2
  <2>3. CASE \E u \in Threads : pc[u] \in {"link", "yieldlink"} /\ arg[u] = rq[q][i]
    <3>1. PICK u \in Threads : pc[u] \in {"link", "yieldlink"} /\ arg[u] = rq[q][i]
      BY <2>3
    <3>2. CASE u = t
      BY <1>1, <3>1, <3>2
    <3>3. CASE u # t
      BY <1>2, <3>1, <3>3
    <3> QED BY <3>2, <3>3
  <2> QED BY <2>2, <2>3 DEF NoticeInv, Linked
<1>6. Noticed'
  <2>1. CASE pc[t] = "link"
    <3>1. Waking(t)'
      BY <1>0, <1>1, <2>1 DEF Waking
    <3> QED BY <3>1, WakingNotices
  <2>2. CASE pc[t] = "yieldlink"
    <3>1. t \in Procs
      BY <2>2, ThreadFacts DEF SchedInv, HandsMatch
    <3>2. pc'[t] \notin {"last", "halt"} \cup Searches
      BY <1>2 DEF Searches
    <3> QED BY <3>1, <3>2, UpWhen, UpNotices
  <2> QED BY <1>1, <2>1, <2>2
<1> QED BY <1>3, <1>4, <1>5, <1>6 DEF NoticeInv

\* A processor p that has the lock of the queue of v pops from it.
LEMMA PopNotice ==
  ASSUME SchedInv, NoticeInv, NEW p \in Procs, NEW v \in Procs, NEW f \in Freds, PopQueue(v, f),
         \/ pc[p] = "localpop" /\ v = p
         \/ pc[p] = "stealpop" /\ v = victim[p],
         pc' = [pc EXCEPT ![p] = search[p]], search' = search, arg' = arg, next' = [next EXCEPT ![p] = f],
         \A u \in Procs : u # p => victim'[u] = victim[u]
  PROVE  NoticeInv'
<1>0. /\ pc \in [Threads -> Labels] /\ Procs \subseteq Threads /\ next \in [Procs -> Freds \cup {Null}]
      /\ search \in [Procs -> BusySearch \cup IdleSearch] /\ Null \notin Freds
  BY ThreadFacts DEF SchedInv, SchedTypeOK
<1>1. /\ f = rq[v][1] /\ rq' = [rq EXCEPT ![v] = Tail(rq[v])] /\ Len(rq[v]) >= 1
      /\ DOMAIN rq[v] = 1 .. Len(rq[v]) /\ DOMAIN rq'[v] = 1 .. (Len(rq[v]) - 1)
      /\ \A i \in DOMAIN rq'[v] : rq'[v][i] = rq[v][i + 1]
  BY PopFacts DEF SchedInv
<1>2. linked' = linked \ {f} /\ readyLock' = [readyLock EXCEPT ![v] = Null] /\ buffer' = buffer
  BY DEF PopQueue
<1>3. /\ \A u \in Threads : u # p => pc'[u] = pc[u]
      /\ pc'[p] \in BusySearch \cup IdleSearch
  BY <1>0
<1>4. NoBuffer'
  BY <1>2 DEF NoticeInv, NoBuffer
<1>5. LockHeld'
  <2>1. ASSUME NEW q \in Procs, readyLock'[q] # Null
        PROVE  \E u \in Procs : /\ readyLock'[q] = u
                                /\ \/ pc'[u] = "localpop" /\ u = q
                                   \/ pc'[u] = "stealpop" /\ victim'[u] = q
    <3>1. q # v /\ readyLock'[q] = readyLock[q]
      BY <1>2, <2>1 DEF NoticeInv, LockHeld
    <3>2. PICK u \in Procs : /\ readyLock[q] = u
                             /\ \/ pc[u] = "localpop" /\ u = q
                                \/ pc[u] = "stealpop" /\ victim[u] = q
      BY <2>1, <3>1 DEF NoticeInv, LockHeld
    <3>3. u # p
      BY <3>1, <3>2
    <3> QED BY <1>0, <1>3, <3>1, <3>2, <3>3
  <2>2. ASSUME NEW u \in Procs, pc'[u] = "stealpop" PROVE victim'[u] # u
    <3>1. u # p
      BY <1>3, <2>2 DEF BusySearch, IdleSearch
    <3>2. pc[u] = "stealpop" /\ victim'[u] = victim[u]
      BY <1>0, <1>3, <2>2, <3>1
    <3> QED BY <3>2 DEF NoticeInv, LockHeld
  <2>3. readyLock' \in [Procs -> Procs \cup {Null}]
    BY <1>2 DEF NoticeInv, LockHeld
  <2> QED BY <2>1, <2>2, <2>3 DEF LockHeld
<1>6. Linked'
  <2>1. SUFFICES ASSUME NEW q \in Procs, NEW i \in DOMAIN rq'[q]
                 PROVE  \/ rq'[q][i] \in linked'
                        \/ \E u \in Threads : pc'[u] \in {"link", "yieldlink"} /\ arg'[u] = rq'[q][i]
    BY DEF Linked
  <2>2. PICK j \in DOMAIN rq[q] : rq'[q][i] = rq[q][j] /\ ~(q = v /\ j = 1)
    <3>1. CASE q = v
      <4>1. i + 1 \in DOMAIN rq[v] /\ i + 1 # 1 /\ rq'[v][i] = rq[v][i + 1]
        BY <1>1, <3>1
      <4> QED BY <3>1, <4>1
    <3>2. CASE q # v
      BY <1>1, <3>2 DEF SchedInv, SchedTypeOK
    <3> QED BY <3>1, <3>2
  <2>3. rq[q][j] # f
    <3>1. SUFFICES ASSUME rq[q][j] = f PROVE FALSE
      OBVIOUS
    <3>2. In(f, <<"rq", v, 1>>) /\ In(f, <<"rq", q, j>>)
      BY <1>1, <3>1 DEF In
    <3>3. Single(f)
      BY DEF SchedInv, OnePlace
    <3>4. <<"rq", v, 1>> = <<"rq", q, j>>
      BY <3>2, <3>3 DEF Single
    <3> QED BY <2>2, <3>4
  <2>4. CASE rq[q][j] \in linked
    BY <1>2, <2>2, <2>3, <2>4
  <2>5. CASE \E u \in Threads : pc[u] \in {"link", "yieldlink"} /\ arg[u] = rq[q][j]
    <3>1. PICK u \in Threads : pc[u] \in {"link", "yieldlink"} /\ arg[u] = rq[q][j]
      BY <2>5
    <3>2. u # p
      BY <3>1
    <3>3. pc'[u] = pc[u] /\ arg'[u] = arg[u]
      BY <1>3, <3>2
    <3> QED BY <2>2, <3>1, <3>3
  <2> QED BY <2>4, <2>5 DEF NoticeInv, Linked
<1>7. Noticed'
  <2>1. pc'[p] \in BusySearch \cup IdleSearch /\ next'[p] # Null
    BY <1>0, <1>3
  <2>2. Up(p)'
    BY <2>1 DEF Up, Asleep, BusySearch, IdleSearch, Searches
  <2> QED BY <2>2, UpNotices
<1> QED BY <1>4, <1>5, <1>6, <1>7 DEF NoticeInv

\* pop() that finds no head: another processor or thread will see to the queue.
LEMMA NoHeadNotice ==
  ASSUME SchedInv, NoticeInv, NEW p \in Procs, pc[p] \in Searches, NEW v \in Procs, NoHead(v), rq[v] # <<>>
  PROVE  \/ \E u \in Procs : u # p /\ (Up(u) \/ Ahead(u, v))
         \/ \E t \in Threads : t # p /\ Waking(t)
<1>1. rq[v] \in Seq(Freds)
  BY DEF SchedInv, SchedTypeOK
<1>2. 1 \in DOMAIN rq[v]
  BY <1>1
<1>3. PICK t \in Threads : pc[t] \in {"link", "yieldlink"} /\ arg[t] = rq[v][1]
  BY <1>2 DEF NoHead, NoticeInv, Linked
<1>4. t # p
  BY <1>3 DEF Searches
<1>5. CASE pc[t] = "link"
  BY <1>4, <1>5 DEF Waking
<1>6. CASE pc[t] = "yieldlink"
  <2>1. t \in Procs
    BY <1>6, ThreadFacts DEF SchedInv, HandsMatch
  <2>2. Up(t)
    BY <1>6 DEF Up, Asleep, Searches
  <2> QED BY <1>4, <2>1, <2>2
<1> QED BY <1>3, <1>5, <1>6

\* The same when the lock of the queue is taken.
LEMMA LockedNotice ==
  ASSUME NoticeInv, NEW p \in Procs, pc[p] = "steal", NEW v \in Procs, readyLock[v] # Null
  PROVE  \E u \in Procs : u # p /\ (Up(u) \/ Ahead(u, v))
<1>1. PICK u \in Procs : \/ pc[u] = "localpop" /\ u = v
                         \/ pc[u] = "stealpop" /\ victim[u] = v /\ v # u
  BY DEF NoticeInv, LockHeld
<1>2. u # p
  BY <1>1
<1>3. CASE search[u] # "last"
  BY <1>1, <1>2, <1>3 DEF Up, Asleep
<1>4. CASE search[u] = "last"
  <2>1. Ahead(u, v)
    BY <1>1, <1>4 DEF Ahead, Procs
  <2> QED BY <1>2, <2>1
<1> QED BY <1>3, <1>4

\* A search goes on: whatever it no longer has before it is empty or seen to
\* by somebody else.
LEMMA SearchNotice ==
  ASSUME SchedInv, NoticeInv, NEW p \in Procs, NEW l \in Labels, pc[p] \in Searches, l \in Searches \cup {search[p]},
         pc' = [pc EXCEPT ![p] = l], UNCHANGED <<haltSem, target, search, rq>>,
         \A u \in Procs : u # p => victim'[u] = victim[u] /\ next'[u] = next[u],
         \A q \in Procs :
           \/ search[p] = "last" /\ Ahead(p, q) => Ahead(p, q)'
           \/ rq[q] = <<>>
           \/ \E u \in Procs : u # p /\ (Up(u) \/ Ahead(u, q))
           \/ \E t \in Threads : t # p /\ Waking(t)
  PROVE  Noticed'
<1>0. p \in Threads /\ pc \in [Threads -> Labels] /\ search[p] \in BusySearch \cup IdleSearch
  BY ThreadFacts DEF SchedInv, SchedTypeOK
<1>1. CASE search[p] # "last"
  <2>1. pc'[p] \notin {"last", "halt"} /\ search'[p] # "last"
    BY <1>0, <1>1 DEF Searches, BusySearch, IdleSearch
  <2> QED BY <2>1, UpWhen, UpNotices
<1>2. CASE search[p] = "last"
  <2>1. /\ \A u \in Procs : u # p => (Up(u)' <=> Up(u))
        /\ \A u, q \in Procs : u # p => (Ahead(u, q)' <=> Ahead(u, q))
        /\ \A u \in Threads : u # p => (Waking(u)' <=> Waking(u))
    BY <1>0, OthersNotice
  <2>2. ~Up(p) /\ ~Waking(p)
    BY <1>2 DEF Up, Waking, Searches
  <2>3. ASSUME NEW q \in Procs, rq[q] # <<>>
        PROVE  \/ \E u \in Procs : Up(u)' \/ Ahead(u, q)'
               \/ \E u \in Threads : Waking(u)'
    <3>1. CASE \E u \in Procs : u # p /\ (Up(u) \/ Ahead(u, q))
      BY <2>1, <3>1
    <3>2. CASE \E t \in Threads : t # p /\ Waking(t)
      BY <2>1, <3>2
    <3>3. CASE Ahead(p, q)
      BY <1>2, <2>1, <2>3, <3>3
    <3> QED BY <2>2, <2>3, <3>1, <3>2, <3>3 DEF NoticeInv, Noticed
  <2> QED BY <2>3 DEF Noticed
<1> QED BY <1>1, <1>2

LEMMA SearchLocalNotice ==
  ASSUME SchedInv, NoticeInv, NEW p \in Procs, SearchLocal(p)
  PROVE  NoticeInv'
<1>0. /\ p \in Threads /\ pc \in [Threads -> Labels] /\ pc[p] = "local"
      /\ pc' = [pc EXCEPT ![p] = "localpop"] /\ readyLock' = [readyLock EXCEPT ![p] = p]
      /\ UNCHANGED <<rq, linked, buffer, search, victim, arg, next, haltSem, target>>
  BY ThreadFacts DEF SchedInv, SchedTypeOK, SearchLocal, LockQueue, Goto, idleVars
<1>1. pc'[p] = "localpop" /\ \A u \in Threads : u # p => pc'[u] = pc[u]
  BY <1>0
<1>2. NoBuffer'
  BY <1>0 DEF NoticeInv, NoBuffer
<1>3. LockHeld'
  <2>1. \A u \in Procs : /\ pc[u] = "localpop" => pc'[u] = "localpop"
                         /\ pc[u] = "stealpop" <=> pc'[u] = "stealpop"
    BY <1>0, <1>1, ThreadFacts
  <2>2. readyLock' \in [Procs -> Procs \cup {Null}]
    BY <1>0 DEF NoticeInv, LockHeld
  <2>3. \A q \in Procs : q # p => readyLock'[q] = readyLock[q]
    BY <1>0 DEF NoticeInv, LockHeld
  <2>4. readyLock'[p] = p
    BY <1>0 DEF NoticeInv, LockHeld
  <2> QED BY <1>0, <1>1, <2>1, <2>2, <2>3, <2>4 DEF NoticeInv, LockHeld
<1>4. Linked'
  <2>1. \A u \in Threads : pc[u] \in {"link", "yieldlink"} => pc'[u] = pc[u]
    BY <1>0, <1>1
  <2> QED BY <1>0, <2>1 DEF NoticeInv, Linked
<1>5. Noticed'
  <2>1. \A q \in Procs : search[p] = "last" /\ Ahead(p, q) => Ahead(p, q)'
    BY <1>0, <1>1 DEF Ahead
  <2>2. "localpop" \in Labels /\ "localpop" \in Searches /\ pc[p] \in Searches
    BY <1>0 DEF Labels, Searches
  <2> QED BY <1>0, <2>1, <2>2, SearchNotice
<1> QED BY <1>2, <1>3, <1>4, <1>5 DEF NoticeInv

LEMMA StealNothingNotice ==
  ASSUME SchedInv, NoticeInv, NEW p \in Procs, StealNothing(p)
  PROVE  NoticeInv'
<1>0. /\ p \in Threads /\ pc \in [Threads -> Labels] /\ pc[p] = "steal" /\ victim[p] = p
      /\ pc' = [pc EXCEPT ![p] = search[p]]
      /\ UNCHANGED <<readyVars, search, victim, arg, next, haltSem, target>>
      /\ search[p] \in BusySearch \cup IdleSearch
  BY ThreadFacts DEF SchedInv, SchedTypeOK, StealNothing, Goto, idleVars
<1>1. NoBuffer' /\ LockHeld' /\ Linked'
  <2>1. search[p] \in Labels /\ {pc[p], search[p]} \cap {"localpop", "stealpop", "link", "yieldlink"} = {}
    BY <1>0 DEF Labels, BusySearch, IdleSearch
  <2> QED BY <1>0, <2>1, QuietNotice
<1>2. Noticed'
  <2>1. \A q \in Procs : ~Ahead(p, q)
    BY <1>0 DEF Ahead, Procs
  <2>2. search[p] \in Labels /\ pc[p] \in Searches
    BY <1>0 DEF Labels, Searches
  <2>3. rq' = rq
    BY <1>0 DEF readyVars
  <2> QED BY <1>0, <2>1, <2>2, <2>3, SearchNotice
<1> QED BY <1>1, <1>2 DEF NoticeInv

LEMMA TryDequeueNotice ==
  ASSUME SchedInv, NoticeInv, NEW p \in Procs, TryDequeue(p)
  PROVE  NoticeInv'
<1>0. /\ p \in Threads /\ pc \in [Threads -> Labels] /\ pc[p] = "steal" /\ pc[p] \in Searches
      /\ victim \in [Procs -> Procs] /\ victim[p] \in Procs /\ victim[p] # p
      /\ UNCHANGED <<rq, linked, buffer, search, arg, next, haltSem, target>>
      /\ "steal" \in Labels \cap Searches /\ "stealpop" \in Labels \cap Searches
  BY ThreadFacts DEF SchedInv, SchedTypeOK, TryDequeue, LockQueue, idleVars, readyVars, Labels, Searches
<1>1. PICK v \in Procs : v = victim[p]
  BY <1>0
<1>2. CASE LockQueue(p, v) /\ Goto(p, "stealpop") /\ UNCHANGED victim
  <2>0. pc' = [pc EXCEPT ![p] = "stealpop"] /\ readyLock' = [readyLock EXCEPT ![v] = p] /\ victim' = victim
    BY <1>2 DEF LockQueue, Goto
  <2>1. pc'[p] = "stealpop" /\ \A u \in Threads : u # p => pc'[u] = pc[u]
    BY <1>0, <2>0
  <2>2. NoBuffer'
    BY <1>0 DEF NoticeInv, NoBuffer
  <2>3. LockHeld'
    <3>1. \A u \in Procs : /\ pc[u] = "localpop" => pc'[u] = "localpop"
                           /\ pc[u] = "stealpop" => pc'[u] = "stealpop"
                           /\ pc'[u] = "stealpop" => u = p \/ pc[u] = "stealpop"
      BY <1>0, <2>1, ThreadFacts
    <3>2. /\ readyLock' \in [Procs -> Procs \cup {Null}] /\ readyLock'[v] = p
          /\ \A q \in Procs : q # v => readyLock'[q] = readyLock[q]
      BY <2>0 DEF NoticeInv, LockHeld
    <3> QED BY <1>0, <1>1, <2>0, <2>1, <3>1, <3>2 DEF NoticeInv, LockHeld
  <2>4. Linked'
    <3>1. \A u \in Threads : pc[u] \in {"link", "yieldlink"} => pc'[u] = pc[u]
      BY <1>0, <2>1
    <3> QED BY <1>0, <3>1 DEF NoticeInv, Linked
  <2>5. Noticed'
    <3>1. \A q \in Procs : search[p] = "last" /\ Ahead(p, q) => Ahead(p, q)'
      BY <1>0, <2>0, <2>1 DEF Ahead
    <3> QED BY <1>0, <2>0, <3>1, SearchNotice
  <2> QED BY <2>2, <2>3, <2>4, <2>5 DEF NoticeInv
<1>3. CASE /\ rq[v] = <<>> \/ readyLock[v] # Null
           /\ victim' = [victim EXCEPT ![p] = RingNext(v)] /\ UNCHANGED <<pc, readyVars>>
  <2>0. pc' = [pc EXCEPT ![p] = "steal"] /\ \A u \in Procs : u # p => victim'[u] = victim[u]
    BY <1>0, <1>3
  <2>1. NoBuffer' /\ LockHeld' /\ Linked'
    <3>1. {pc[p], "steal"} \cap {"localpop", "stealpop", "link", "yieldlink"} = {}
      BY <1>0
    <3> QED BY <1>0, <1>3, <2>0, <3>1, QuietNotice
  <2>2. Noticed'
    <3>1. ASSUME NEW q \in Procs, q # v, search[p] = "last", Ahead(p, q) PROVE Ahead(p, q)'
      <4>1. Before(p, v, q)
        BY <1>0, <1>1, <3>1 DEF Ahead, Before
      <4>2. Before(p, RingNext(v), q)
        BY <1>0, <1>1, <3>1, <4>1, RingBefore
      <4>3. victim'[p] = RingNext(v) /\ pc'[p] = "steal" /\ search'[p] = "last"
        BY <1>0, <1>3, <2>0, <3>1
      <4> QED BY <4>2, <4>3 DEF Ahead, Before
    <3>2. rq[v] = <<>> \/ \E u \in Procs : u # p /\ (Up(u) \/ Ahead(u, v))
      BY <1>0, <1>3, LockedNotice
    <3> QED BY <1>0, <2>0, <3>1, <3>2, SearchNotice
  <2> QED BY <2>1, <2>2 DEF NoticeInv
<1> QED BY <1>1, <1>2, <1>3 DEF TryDequeue

\* pop() that finds no head: the thief, or a processor at its own queue, goes
\* on with the next one.
LEMMA NothingNotice ==
  ASSUME SchedInv, NoticeInv, NEW p \in Procs, NEW v \in Procs, PopNothing(v),
         \/ pc[p] = "localpop" /\ v = p
         \/ pc[p] = "stealpop" /\ v = victim[p],
         pc' = [pc EXCEPT ![p] = "steal"], victim' = [victim EXCEPT ![p] = RingNext(v)],
         UNCHANGED <<search, arg, next, haltSem, target>>
  PROVE  NoticeInv'
<1>0. /\ p \in Threads /\ pc \in [Threads -> Labels] /\ pc[p] \in Searches /\ victim \in [Procs -> Procs]
      /\ NoHead(v) /\ readyLock' = [readyLock EXCEPT ![v] = Null] /\ UNCHANGED <<rq, linked, buffer>>
      /\ "steal" \in Labels \cap Searches /\ RingNext(v) \in Procs
  BY ThreadFacts DEF SchedInv, SchedTypeOK, PopNothing, Labels, Searches
<1>1. pc'[p] = "steal" /\ victim'[p] = RingNext(v)
      /\ \A u \in Threads : u # p => pc'[u] = pc[u]
  BY <1>0
<1>2. \A u \in Procs : u # p => victim'[u] = victim[u]
  BY <1>0
<1>3. NoBuffer'
  BY <1>0 DEF NoticeInv, NoBuffer
<1>4. LockHeld'
  <2>1. /\ readyLock' \in [Procs -> Procs \cup {Null}] /\ readyLock'[v] = Null
        /\ \A q \in Procs : q # v => readyLock'[q] = readyLock[q]
    BY <1>0 DEF NoticeInv, LockHeld
  <2>2. ASSUME NEW q \in Procs, readyLock'[q] # Null
        PROVE  \E u \in Procs : /\ readyLock'[q] = u
                                /\ \/ pc'[u] = "localpop" /\ u = q
                                   \/ pc'[u] = "stealpop" /\ victim'[u] = q
    <3>1. q # v /\ readyLock'[q] = readyLock[q]
      BY <2>1, <2>2
    <3>2. PICK u \in Procs : /\ readyLock[q] = u
                             /\ \/ pc[u] = "localpop" /\ u = q
                                \/ pc[u] = "stealpop" /\ victim[u] = q
      BY <2>2, <3>1 DEF NoticeInv, LockHeld
    <3>3. u # p /\ u \in Threads
      BY <3>1, <3>2, ThreadFacts
    <3> QED BY <1>1, <1>2, <3>1, <3>2, <3>3
  <2>3. ASSUME NEW u \in Procs, pc'[u] = "stealpop" PROVE victim'[u] # u
    <3>1. u # p /\ u \in Threads
      BY <1>1, <2>3, ThreadFacts
    <3>2. pc[u] = "stealpop" /\ victim'[u] = victim[u]
      BY <1>1, <1>2, <2>3, <3>1
    <3> QED BY <3>2 DEF NoticeInv, LockHeld
  <2> QED BY <2>1, <2>2, <2>3 DEF LockHeld
<1>5. Linked'
  <2>1. \A u \in Threads : pc[u] \in {"link", "yieldlink"} => pc'[u] = pc[u]
    BY <1>0, <1>1 DEF Searches
  <2> QED BY <1>0, <2>1 DEF NoticeInv, Linked
<1>6. Noticed'
  <2>1. ASSUME NEW q \in Procs, q # v, search[p] = "last", Ahead(p, q) PROVE Ahead(p, q)'
    <3>1. Before(p, RingNext(v), q)
      <4>1. CASE v = p
        BY <2>1, <4>1, RingStart
      <4>2. CASE v # p
        <5>1. Before(p, v, q)
          BY <2>1, <4>2 DEF Ahead, Before
        <5> QED BY <2>1, <4>2, <5>1, RingBefore
      <4> QED BY <4>1, <4>2
    <3> QED BY <1>1, <2>1, <3>1 DEF Ahead, Before
  <2>2. \/ rq[v] = <<>>
        \/ \E u \in Procs : u # p /\ (Up(u) \/ Ahead(u, v))
        \/ \E t \in Threads : t # p /\ Waking(t)
    BY <1>0, NoHeadNotice
  <2>3. \A q \in Procs :
           \/ search[p] = "last" /\ Ahead(p, q) => Ahead(p, q)'
           \/ rq[q] = <<>>
           \/ \E u \in Procs : u # p /\ (Up(u) \/ Ahead(u, q))
           \/ \E t \in Threads : t # p /\ Waking(t)
    BY <2>1, <2>2
  <2>4. "steal" \in Labels /\ "steal" \in Searches \cup {search[p]}
    BY <1>0
  <2> QED BY <1>0, <1>2, <2>3, <2>4, SearchNotice
<1> QED BY <1>3, <1>4, <1>5, <1>6 DEF NoticeInv

LEMMA LocalPopNotice ==
  ASSUME SchedInv, NoticeInv, NEW p \in Procs, LocalPop(p)
  PROVE  NoticeInv'
<1>0. /\ p \in Threads /\ pc \in [Threads -> Labels] /\ pc[p] = "localpop"
      /\ search' = search /\ arg' = arg /\ target' = target /\ haltSem' = haltSem
      /\ pc[p] \in Searches
  BY ThreadFacts DEF SchedInv, SchedTypeOK, LocalPop, idleVars, Searches
<1>1. ASSUME NEW f \in Freds, PopQueue(p, f), next' = [next EXCEPT ![p] = f], Goto(p, search[p]), UNCHANGED victim
      PROVE  NoticeInv'
  BY <1>0, <1>1, PopNotice DEF Goto
<1>2. CASE PopNothing(p) /\ Goto(p, "steal") /\ victim' = [victim EXCEPT ![p] = RingNext(p)] /\ UNCHANGED next
  BY <1>0, <1>2, NothingNotice DEF Goto
<1>3. CASE PopNothing(p) /\ search[p] = "yield" /\ Goto(p, "yield") /\ UNCHANGED victim
  <2>0. /\ pc' = [pc EXCEPT ![p] = "yield"] /\ readyLock' = [readyLock EXCEPT ![p] = Null] /\ victim' = victim
        /\ UNCHANGED <<rq, linked, buffer>>
    BY <1>3 DEF Goto, PopNothing
  <2>1. pc'[p] = "yield" /\ \A u \in Threads : u # p => pc'[u] = pc[u]
    BY <1>0, <2>0
  <2>2. NoBuffer'
    BY <2>0 DEF NoticeInv, NoBuffer
  <2>3. LockHeld'
    <3>1. /\ readyLock' \in [Procs -> Procs \cup {Null}] /\ readyLock'[p] = Null
          /\ \A q \in Procs : q # p => readyLock'[q] = readyLock[q]
      BY <2>0 DEF NoticeInv, LockHeld
    <3>2. \A u \in Procs : /\ pc[u] = "localpop" /\ u # p => pc'[u] = "localpop"
                           /\ pc[u] = "stealpop" <=> pc'[u] = "stealpop"
      BY <1>0, <2>1, ThreadFacts
    <3> QED BY <2>0, <3>1, <3>2 DEF NoticeInv, LockHeld
  <2>4. Linked'
    <3>1. \A u \in Threads : pc[u] \in {"link", "yieldlink"} => pc'[u] = pc[u]
      BY <1>0, <2>1
    <3> QED BY <1>0, <2>0, <3>1 DEF NoticeInv, Linked
  <2>5. Noticed'
    <3>1. pc'[p] \notin {"last", "halt"} \cup Searches
      BY <2>1 DEF Searches
    <3> QED BY <3>1, UpWhen, UpNotices
  <2> QED BY <2>2, <2>3, <2>4, <2>5 DEF NoticeInv
<1> QED BY <1>1, <1>2, <1>3 DEF LocalPop

LEMMA StealPopNotice ==
  ASSUME SchedInv, NoticeInv, NEW p \in Procs, StealPop(p)
  PROVE  NoticeInv'
<1>0. /\ pc[p] = "stealpop" /\ search' = search /\ arg' = arg /\ target' = target /\ haltSem' = haltSem
      /\ victim \in [Procs -> Procs] /\ pc[p] \in Searches
  BY DEF SchedInv, SchedTypeOK, StealPop, idleVars, Searches
<1>1. PICK v \in Procs : v = victim[p]
  BY <1>0
<1>2. ASSUME NEW f \in Freds, PopQueue(v, f), next' = [next EXCEPT ![p] = f],
             victim' = [victim EXCEPT ![p] = p], Goto(p, search[p])
      PROVE  NoticeInv'
  <2>1. \A u \in Procs : u # p => victim'[u] = victim[u]
    BY <1>0, <1>2
  <2> QED BY <1>0, <1>1, <1>2, <2>1, PopNotice DEF Goto
<1>3. CASE PopNothing(v) /\ victim' = [victim EXCEPT ![p] = RingNext(v)] /\ Goto(p, "steal") /\ UNCHANGED next
  BY <1>0, <1>1, <1>3, NothingNotice DEF Goto
<1> QED BY <1>1, <1>2, <1>3 DEF StealPop

LEMMA NoticeInitInv == Init => NoticeInv
<1> SUFFICES ASSUME Init PROVE NoticeInv
  OBVIOUS
<1>1. /\ rq = [p \in Procs |-> <<>>] /\ buffer = [t \in Threads |-> Null] /\ readyLock = [p \in Procs |-> Null]
      /\ pc = [t \in Threads |-> IF t \in Procs \ {1} THEN "idle" ELSE "run"]
  BY DEF Init, ReadyInit
<1>2. \A p \in Procs : pc[p] # "stealpop"
  BY <1>1, ThreadFacts
<1> QED BY <1>1, <1>2 DEF NoticeInv, NoBuffer, LockHeld, Linked, Noticed

LEMMA NoticeNextInv == ~TSO /\ SchedInv /\ WakeUpInv /\ NoticeInv /\ [Next]_vars => NoticeInv'
<1> SUFFICES ASSUME ~TSO, SchedInv, WakeUpInv, NoticeInv, [Next]_vars PROVE NoticeInv'
  OBVIOUS
<1>1. CASE UNCHANGED vars
  BY <1>1 DEF vars, readyVars, procVars, idleVars, NoticeInv, NoBuffer, LockHeld, Linked, Noticed,
              Up, Ahead, Waking, Asleep
<1>2. ASSUME NEW t \in Threads, BufferDrain(t) PROVE NoticeInv'
  BY <1>2 DEF BufferDrain, Drain, NoticeInv, NoBuffer
<1>3. ASSUME NEW t \in Threads, (\E f \in Freds : Resume(t, f)) \/ EnqueueStep(t) PROVE NoticeInv'
  BY <1>3, ThreadNotice, EnqueueTailNotice, EnqueueLinkNotice DEF EnqueueStep
<1>4. ASSUME NEW p \in Procs, Suspend(p) \/ Yield(p) \/ \E q \in Procs : Migrate(p, q)
      PROVE  NoticeInv'
  BY <1>4, SwitchNotice
<1>5. ASSUME NEW p \in Procs, Step(p) PROVE NoticeInv'
  <2>1. CASE SearchStep(p)
    BY <2>1, SearchLocalNotice, LocalPopNotice, TryDequeueNotice, StealPopNotice, StealNothingNotice DEF SearchStep
  <2>2. CASE SwitchFull(p) \/ PostSuspend(p) \/ SwitchYield(p)
    BY <2>2, SwitchNotice
  <2>3. CASE IdleStep(p)
    BY <2>3, IdleNotice
  <2> QED BY <1>5, <2>1, <2>2, <2>3 DEF Step
<1> QED BY <1>1, <1>2, <1>3, <1>4, <1>5 DEF Next

LEMMA NoticedNotStranded == SchedInv /\ Noticed => NoFredStranded
<1> SUFFICES ASSUME SchedInv, Noticed, \A p \in Procs : Asleep(p),
                    \A t \in Outside : pc[t] = "run" /\ Fenced(t)
             PROVE  Ready = {}
  BY DEF NoFredStranded
<1>1. \A p, q \in Procs : ~Up(p) /\ ~Ahead(p, q)
  BY DEF Up, Ahead, Asleep
<1>2. \A t \in Threads : ~Waking(t)
  BY ThreadFacts DEF Waking, Asleep
<1>3. \A q \in Procs : rq[q] = <<>>
  BY <1>1, <1>2 DEF Noticed
<1> QED BY <1>3 DEF Ready

\* No lost wake-up: without store buffers, no fred is left in a ready queue
\* while all processors sleep.  The search after incWaiting() and the read of
\* waitCounter in unblock() do not miss each other, and a processor gives up
\* on a lock only while its holder sees to the queue.  With store buffers the
\* property does not hold.
THEOREM NoFredIsStranded == ~TSO /\ SafeSpec => []NoFredStranded
<1>1. ~TSO /\ Init => NoticeInv
  BY NoticeInitInv
<1>2. ~TSO /\ SchedInv /\ WakeUpInv /\ NoticeInv /\ [Next]_vars => NoticeInv'
  BY NoticeNextInv
<1>3. SchedInv /\ NoticeInv => NoFredStranded
  BY NoticedNotStranded DEF NoticeInv
<1>4. CASE ~TSO
  <2>1. Init => NoticeInv
    BY <1>1, <1>4
  <2>2. (SchedInv /\ WakeUpInv) /\ NoticeInv /\ [Next]_vars => NoticeInv'
    BY <1>2, <1>4
  <2>3. SafeSpec => [](SchedInv /\ WakeUpInv)
    BY WakeInvariant
  <2>4. SafeSpec => []NoFredStranded
    BY <2>1, <2>2, <2>3, <1>3, PTL DEF SafeSpec
  <2> QED BY <2>4
<1> QED BY <1>4
===========================================================================
