-------------------------- MODULE ProcessorProofs --------------------------
(***************************************************************************)
(* Proofs about processors that look for work and halt, in the composition  *)
(* that TLC checks: the counting idle manager, the scheduler, whose proofs  *)
(* are in SchedulerProofs, and the poller that a worker halts in.           *)
(***************************************************************************)
EXTENDS MCPrimitives, FiniteSetTheorems, TLAPS

---------------------------------------------------------------------------
(* The counting idle manager.                                               *)

IdleThreads == Consumers \cup Outside

\* Where a thread can be that carries a fred: with one for the ready queues,
\* or with one for a processor that waits.
Bringing == {"enqueue", "yielded"}
Handing  == {"unblock", "wake"}

\* Where a processor is that has no fred.
Fredless == {"spin", "cas", "get", "search", "block", "halt"}

ThreadsAt(labels) == {t \in IdleThreads : step[t] \in labels}

\* The types; only processors look for freds.
IdleTypes ==
  /\ fredCounter \in Int
  /\ hProcs \in Seq(Consumers) /\ hFreds \in Seq(Freds)
  /\ hReady \subseteq Freds /\ IsFiniteSet(hReady) /\ hParked \subseteq Freds
  /\ running \in [Consumers -> Freds \cup {Null}]
  /\ step \in [IdleThreads -> {"run"} \cup Bringing \cup Handing \cup Fredless]
  /\ \A t \in IdleThreads : step[t] \in Fredless \cup {"yielded"} => t \in Consumers
  /\ seenCount \in [Consumers -> Int]
  /\ carried \in [IdleThreads -> Freds \cup {Null}]
  /\ chosen \in [IdleThreads -> Consumers \cup {Null}]
  /\ handoverFred \in [Consumers -> Freds \cup {Null}]
  /\ haltTokens \in [Consumers -> {0, 1}]

\* At which places a thread has a fred, and a processor to wake.
IdleHands ==
  /\ \A t \in IdleThreads : carried[t] # Null <=> step[t] \in Bringing \cup Handing
  /\ \A t \in IdleThreads : chosen[t] # Null <=> step[t] = "wake"
  /\ \A p \in Consumers : running[p] = Null <=> step[p] \in Fredless
  /\ \A p \in Consumers : haltTokens[p] = 1 => handoverFred[p] # Null

Listing(s) == {s[i] : i \in 1 .. Len(s)}

Distinct(s) == \A i, j \in 1 .. Len(s) : s[i] = s[j] => i = j

\* A processor that halts is listed, or about to be woken by one thread, or
\* has its token.
IdleWakes ==
  /\ Distinct(hProcs)
  /\ \A p \in Listing(hProcs) : step[p] = "halt" /\ haltTokens[p] = 0
  /\ \A t \in IdleThreads : chosen[t] # Null =>
       /\ step[chosen[t]] = "halt" /\ haltTokens[chosen[t]] = 0
       /\ chosen[t] \notin Listing(hProcs)
       /\ \A u \in IdleThreads : chosen[u] = chosen[t] => u = t
  /\ \A p \in Consumers : haltTokens[p] = 1 => step[p] = "halt"
  /\ \A p \in Consumers :
       step[p] = "halt" => \/ p \in Listing(hProcs) \/ haltTokens[p] = 1
                           \/ \E t \in IdleThreads : chosen[t] = p

Above(c) == IF c > 0 THEN c ELSE 0
Below(c) == IF c < 0 THEN c ELSE 0

\* The counter above zero counts freds that are or come to the ready queues
\* and that no processor has been promised; below zero it counts processors
\* that wait and that no fred is on its way to.  A fred waits in the list only
\* while no processor does.
IdleCounts ==
  /\ Cardinality(hReady) + Cardinality(ThreadsAt(Bringing)) - Cardinality(ThreadsAt({"search"}))
       = Above(fredCounter)
  /\ Cardinality(ThreadsAt(Handing)) + Len(hFreds) + Cardinality(H!HandedOver)
         - Cardinality(ThreadsAt({"block", "halt"}))
       = Below(fredCounter)
  /\ hFreds # <<>> => hProcs = <<>>

\* The places where a fred can be.
FredIn(f, x) ==
  \/ \E p \in Consumers : x = <<"running", p>> /\ running[p] = f
  \/ \E t \in IdleThreads : x = <<"carried", t>> /\ carried[t] = f
  \/ x = <<"ready", Null>> /\ f \in hReady
  \/ x = <<"parked", Null>> /\ f \in hParked
  \/ x = <<"left", Null>> /\ f \in Listing(hFreds)
  \/ \E p \in Consumers : x = <<"handed", p>> /\ haltTokens[p] = 1 /\ handoverFred[p] = f

FredOnePlace(f) == \E x : \A y : FredIn(f, y) <=> y = x

IdlePlaces == Distinct(hFreds) /\ \A f \in Freds : FredOnePlace(f)

IdleInv == IdleTypes /\ IdleHands /\ IdleWakes /\ IdleCounts /\ IdlePlaces

---------------------------------------------------------------------------

\* The set counts of the instance are those of this module.
LEMMA IdleCardinality ==
  ASSUME NEW X
  PROVE  H!Cardinality(X) = Cardinality(X)
  BY DEF H!Cardinality, Cardinality

LEMMA IdleFacts ==
  /\ IsFiniteSet(IdleThreads) /\ Consumers \subseteq IdleThreads
  /\ IsFiniteSet(Consumers) /\ Consumers # {}
  /\ Null \notin Freds /\ Null \notin Consumers
<1>1. IsFiniteSet(Consumers \cup Outside)
  BY IdleAssumption, FS_Union
<1> QED BY <1>1, IdleAssumption, FredAssumption DEF IdleThreads

(* Lists without repetition.                                               *)

LEMMA ListingAppend ==
  ASSUME NEW X, NEW s \in Seq(X), Distinct(s), NEW e \in X, e \notin Listing(s)
  PROVE  /\ Append(s, e) \in Seq(X) /\ Len(Append(s, e)) = Len(s) + 1
         /\ Distinct(Append(s, e))
         /\ Listing(Append(s, e)) = Listing(s) \cup {e}
<1>1. PICK n \in Nat : n = Len(s)
  OBVIOUS
<1>2. PICK r : r = Append(s, e)
  OBVIOUS
<1>3. /\ r \in Seq(X) /\ Len(r) = n + 1 /\ r[n + 1] = e
      /\ \A i \in 1 .. n : r[i] = s[i]
  BY <1>1, <1>2
<1>4. \A i \in 1 .. n : s[i] # e
  BY <1>1 DEF Listing
<1>5. Distinct(r)
  <2> SUFFICES ASSUME NEW i \in 1 .. n + 1, NEW j \in 1 .. n + 1, r[i] = r[j] PROVE i = j
    BY <1>3 DEF Distinct
  <2>1. CASE i \in 1 .. n /\ j \in 1 .. n
    BY <2>1, <1>1, <1>3 DEF Distinct
  <2>2. CASE i = n + 1 \/ j = n + 1
    BY <2>2, <1>3, <1>4
  <2> QED BY <2>1, <2>2
<1>6. ASSUME NEW x PROVE x \in Listing(r) <=> x \in Listing(s) \/ x = e
  <2>1. x \in Listing(r) <=> \E i \in 1 .. n + 1 : r[i] = x
    BY <1>3 DEF Listing
  <2>2. x \in Listing(s) <=> \E i \in 1 .. n : s[i] = x
    BY <1>1 DEF Listing
  <2>3. \A i : i \in 1 .. n + 1 <=> i \in 1 .. n \/ i = n + 1
    OBVIOUS
  <2> QED BY <2>1, <2>2, <2>3, <1>3
<1> QED BY <1>1, <1>2, <1>3, <1>5, <1>6

LEMMA ListingTail ==
  ASSUME NEW X, NEW s \in Seq(X), Distinct(s), s # <<>>
  PROVE  /\ Head(s) \in X /\ Head(s) \in Listing(s)
         /\ Tail(s) \in Seq(X) /\ Len(s) > 0 /\ Len(Tail(s)) = Len(s) - 1
         /\ Distinct(Tail(s))
         /\ Listing(Tail(s)) = Listing(s) \ {Head(s)}
<1>1. PICK n \in Nat : n = Len(s)
  OBVIOUS
<1>2. PICK r, h : r = Tail(s) /\ h = Head(s)
  OBVIOUS
<1>3. /\ n > 0 /\ r \in Seq(X) /\ Len(r) = n - 1 /\ h = s[1] /\ h \in X
      /\ \A i \in 1 .. n - 1 : r[i] = s[i + 1]
  BY <1>1, <1>2
<1>4. Distinct(r)
  BY <1>1, <1>3 DEF Distinct
<1>5. h \in Listing(s)
  BY <1>1, <1>3 DEF Listing
<1>6. ASSUME NEW x PROVE x \in Listing(r) <=> x \in Listing(s) /\ x # h
  <2>1. x \in Listing(r) <=> \E i \in 1 .. n - 1 : s[i + 1] = x
    BY <1>3 DEF Listing
  <2>2. x \in Listing(s) <=> \E i \in 1 .. n : s[i] = x
    BY <1>1 DEF Listing
  <2>3. ASSUME NEW i \in 1 .. n, s[i] = x, x # h PROVE i - 1 \in 1 .. n - 1 /\ s[(i - 1) + 1] = x
    BY <2>3, <1>3
  <2>4. ASSUME NEW i \in 1 .. n - 1, s[i + 1] = x PROVE i + 1 \in 1 .. n /\ x # h
    BY <2>4, <1>1, <1>3 DEF Distinct
  <2> QED BY <2>1, <2>2, <2>3, <2>4
<1> QED BY <1>1, <1>2, <1>3, <1>4, <1>5, <1>6

LEMMA ListingPush ==
  ASSUME NEW X, NEW s \in Seq(X), Distinct(s), NEW e \in X, e \notin Listing(s)
  PROVE  /\ <<e>> \o s \in Seq(X)
         /\ Distinct(<<e>> \o s)
         /\ Listing(<<e>> \o s) = Listing(s) \cup {e}
<1>1. PICK n \in Nat : n = Len(s)
  OBVIOUS
<1>2. PICK r : r = <<e>> \o s
  OBVIOUS
<1>3. /\ r \in Seq(X) /\ Len(r) = n + 1 /\ r[1] = e
      /\ \A i \in 1 .. n : r[i + 1] = s[i]
  BY <1>1, <1>2
<1>4. \A i \in 1 .. n : s[i] # e
  BY <1>1 DEF Listing
<1>a. ASSUME NEW i \in 1 .. n + 1, i # 1 PROVE i - 1 \in 1 .. n /\ r[i] = s[i - 1]
  <2>1. i - 1 \in 1 .. n /\ (i - 1) + 1 = i
    BY <1>a
  <2> QED BY <2>1, <1>3
<1>5. Distinct(r)
  <2> SUFFICES ASSUME NEW i \in 1 .. n + 1, NEW j \in 1 .. n + 1, r[i] = r[j] PROVE i = j
    BY <1>3 DEF Distinct
  <2>1. CASE i # 1 /\ j # 1
    <3>1. i - 1 = j - 1
      BY <2>1, <1>1, <1>a DEF Distinct
    <3> QED BY <3>1
  <2>2. CASE i = 1 \/ j = 1
    BY <2>2, <1>3, <1>4, <1>a
  <2> QED BY <2>1, <2>2
<1>6. ASSUME NEW x PROVE x \in Listing(r) <=> x \in Listing(s) \/ x = e
  <2>1. x \in Listing(r) <=> \E i \in 1 .. n + 1 : r[i] = x
    BY <1>3 DEF Listing
  <2>2. x \in Listing(s) <=> \E i \in 1 .. n : s[i] = x
    BY <1>1 DEF Listing
  <2>3. \A i \in 1 .. n : i + 1 \in 1 .. n + 1
    OBVIOUS
  <2>4. 1 \in 1 .. n + 1
    OBVIOUS
  <2> QED BY <2>1, <2>2, <2>3, <2>4, <1>3, <1>a
<1> QED BY <1>1, <1>2, <1>3, <1>5, <1>6

(* Counting threads and places.                                            *)

One(l, labels) == IF l \in labels THEN 1 ELSE 0

\* One thread goes from one label to another.
LEMMA ThreadsMove ==
  ASSUME IdleTypes, NEW t \in IdleThreads, NEW l, step' = [step EXCEPT ![t] = l], NEW labels
  PROVE  /\ Cardinality(ThreadsAt(labels)) \in Nat
         /\ Cardinality(ThreadsAt(labels)')
              = Cardinality(ThreadsAt(labels)) + One(l, labels) - One(step[t], labels)
<1>1. IsFiniteSet(ThreadsAt(labels))
  BY IdleFacts, FS_Subset DEF ThreadsAt
<1>2. Cardinality(ThreadsAt(labels)) \in Nat
  BY <1>1, FS_CardinalityType
<1>3. /\ step'[t] = l /\ \A u \in IdleThreads : u # t => step'[u] = step[u]
  BY DEF IdleTypes
<1>4. CASE l \in labels /\ step[t] \notin labels
  <2>1. ThreadsAt(labels)' = ThreadsAt(labels) \cup {t} /\ t \notin ThreadsAt(labels)
    BY <1>3, <1>4 DEF ThreadsAt
  <2>2. Cardinality(ThreadsAt(labels)') = Cardinality(ThreadsAt(labels)) + 1
    BY <1>1, <2>1, FS_AddElement
  <2> QED BY <1>2, <1>4, <2>2 DEF One
<1>5. CASE l \notin labels /\ step[t] \in labels
  <2>1. ThreadsAt(labels)' = ThreadsAt(labels) \ {t} /\ t \in ThreadsAt(labels)
    BY <1>3, <1>5 DEF ThreadsAt
  <2>2. Cardinality(ThreadsAt(labels)') = Cardinality(ThreadsAt(labels)) - 1
    BY <1>1, <2>1, FS_RemoveElement
  <2> QED BY <1>2, <1>5, <2>2 DEF One
<1>6. CASE l \in labels <=> step[t] \in labels
  <2>1. ThreadsAt(labels)' = ThreadsAt(labels)
    BY <1>3, <1>6 DEF ThreadsAt
  <2> QED BY <1>2, <1>6, <2>1 DEF One
<1> QED BY <1>4, <1>5, <1>6

\* What the two equations of IdleCounts are made of.
LEMMA CountsAre ==
  ASSUME IdleInv
  PROVE  /\ Cardinality(hReady) \in Nat /\ Cardinality(H!HandedOver) \in Nat
         /\ Len(hFreds) \in Nat /\ fredCounter \in Int
         /\ IsFiniteSet(hReady) /\ IsFiniteSet(H!HandedOver)
<1>1. IsFiniteSet(H!HandedOver)
  BY IdleFacts, FS_Subset DEF H!HandedOver
<1> QED BY <1>1, FS_CardinalityType DEF IdleInv, IdleTypes

\* A thread goes to label l, and the ready queues, the list of freds, the
\* tokens and the counter change by so much: it balances the two equations.
CountsStep(t, l, dr, df, dh, dc) ==
  /\ Cardinality(hReady') = Cardinality(hReady) + dr
  /\ Len(hFreds') = Len(hFreds) + df
  /\ Cardinality(H!HandedOver') = Cardinality(H!HandedOver) + dh
  /\ fredCounter' = fredCounter + dc
  /\ dr + (One(l, Bringing) - One(step[t], Bringing)) - (One(l, {"search"}) - One(step[t], {"search"}))
       = Above(fredCounter + dc) - Above(fredCounter)
  /\ (One(l, Handing) - One(step[t], Handing)) + df + dh
       - (One(l, {"block", "halt"}) - One(step[t], {"block", "halt"}))
       = Below(fredCounter + dc) - Below(fredCounter)
  /\ hFreds' # <<>> => hProcs' = <<>>

LEMMA SmallInts == 0 \in Int /\ 1 \in Int /\ -1 \in Int
  OBVIOUS

LEMMA CountsMove ==
  ASSUME IdleInv, NEW t \in IdleThreads, NEW l, step' = [step EXCEPT ![t] = l],
         NEW dr \in Int, NEW df \in Int, NEW dh \in Int, NEW dc \in Int,
         CountsStep(t, l, dr, df, dh, dc)
  PROVE  IdleCounts'
<1>1. PICK b, s, h, w, b2, s2, h2, w2 :
        /\ b = Cardinality(ThreadsAt(Bringing)) /\ b2 = Cardinality(ThreadsAt(Bringing)')
        /\ s = Cardinality(ThreadsAt({"search"})) /\ s2 = Cardinality(ThreadsAt({"search"})')
        /\ h = Cardinality(ThreadsAt(Handing)) /\ h2 = Cardinality(ThreadsAt(Handing)')
        /\ w = Cardinality(ThreadsAt({"block", "halt"})) /\ w2 = Cardinality(ThreadsAt({"block", "halt"})')
  OBVIOUS
<1>0. IdleTypes
  BY DEF IdleInv
<1>a. One(l, Bringing) \in Int /\ One(step[t], Bringing) \in Int
      /\ One(l, {"search"}) \in Int /\ One(step[t], {"search"}) \in Int
      /\ One(l, Handing) \in Int /\ One(step[t], Handing) \in Int
      /\ One(l, {"block", "halt"}) \in Int /\ One(step[t], {"block", "halt"}) \in Int
  BY DEF One
<1>2. b \in Nat /\ b2 = b + One(l, Bringing) - One(step[t], Bringing)
  BY <1>0, <1>1, ThreadsMove
<1>3. s \in Nat /\ s2 = s + One(l, {"search"}) - One(step[t], {"search"})
  BY <1>0, <1>1, ThreadsMove
<1>4. h \in Nat /\ h2 = h + One(l, Handing) - One(step[t], Handing)
  BY <1>0, <1>1, ThreadsMove
<1>5. w \in Nat /\ w2 = w + One(l, {"block", "halt"}) - One(step[t], {"block", "halt"})
  BY <1>0, <1>1, ThreadsMove
<1>6. PICK r \in Nat, o \in Nat, m \in Nat, c \in Int :
        r = Cardinality(hReady) /\ o = Cardinality(H!HandedOver) /\ m = Len(hFreds) /\ c = fredCounter
  BY CountsAre
<1>7. r + b - s = Above(c) /\ h + m + o - w = Below(c)
  BY <1>1, <1>6 DEF IdleInv, IdleCounts
<1>b. Above(c) \in Int /\ Above(c + dc) \in Int /\ Below(c) \in Int /\ Below(c + dc) \in Int
  BY <1>6 DEF Above, Below
<1>c. PICK b0 \in Int, b1 \in Int, s0 \in Int, s1 \in Int, h0 \in Int, h1 \in Int, w0 \in Int, w1 \in Int :
        /\ b0 = One(step[t], Bringing) /\ b1 = One(l, Bringing)
        /\ s0 = One(step[t], {"search"}) /\ s1 = One(l, {"search"})
        /\ h0 = One(step[t], Handing) /\ h1 = One(l, Handing)
        /\ w0 = One(step[t], {"block", "halt"}) /\ w1 = One(l, {"block", "halt"})
  BY <1>a
<1>d. PICK u0 \in Int, u1 \in Int, d0 \in Int, d1 \in Int :
        u0 = Above(c) /\ u1 = Above(c + dc) /\ d0 = Below(c) /\ d1 = Below(c + dc)
  BY <1>b
<1>e. /\ dr + (b1 - b0) - (s1 - s0) = u1 - u0
      /\ (h1 - h0) + df + dh - (w1 - w0) = d1 - d0
  BY <1>6, <1>c, <1>d DEF CountsStep
<1>f. /\ b2 = b + b1 - b0 /\ s2 = s + s1 - s0 /\ h2 = h + h1 - h0 /\ w2 = w + w1 - w0
      /\ r + b - s = u0 /\ h + m + o - w = d0
  BY <1>2, <1>3, <1>4, <1>5, <1>7, <1>c, <1>d
<1>g. b \in Nat /\ s \in Nat /\ h \in Nat /\ w \in Nat
  BY <1>2, <1>3, <1>4, <1>5
<1>8. (r + dr) + b2 - s2 = Above(c + dc)
  <2>1. (r + dr) + (b + b1 - b0) - (s + s1 - s0) = u1
    BY <1>e, <1>f, <1>g
  <2> QED BY <2>1, <1>d, <1>f
<1>9. h2 + (m + df) + (o + dh) - w2 = Below(c + dc)
  <2>1. (h + h1 - h0) + (m + df) + (o + dh) - (w + w1 - w0) = d1
    BY <1>e, <1>f, <1>g
  <2> QED BY <2>1, <1>d, <1>f
<1> QED BY <1>1, <1>6, <1>8, <1>9 DEF IdleCounts, CountsStep

LEMMA PlaceKept ==
  ASSUME NEW f, FredOnePlace(f), \A y : FredIn(f, y)' <=> FredIn(f, y)
  PROVE  FredOnePlace(f)'
<1>1. PICK x : \A y : FredIn(f, y) <=> y = x
  BY DEF FredOnePlace
<1>2. \A y : FredIn(f, y)' <=> y = x
  BY <1>1
<1> QED BY <1>2 DEF FredOnePlace

LEMMA PlaceMoved ==
  ASSUME NEW f, FredOnePlace(f), NEW x, FredIn(f, x), NEW z, FredIn(f, z)',
         \A y : FredIn(f, y)' /\ y # z => FredIn(f, y) /\ y # x
  PROVE  FredOnePlace(f)'
<1>1. \A y : FredIn(f, y) => y = x
  BY DEF FredOnePlace
<1>2. \A y : FredIn(f, y)' <=> y = z
  BY <1>1
<1> QED BY <1>2 DEF FredOnePlace

\* A fred is in no two places.
LEMMA OnePlaceOnly ==
  ASSUME IdleInv, NEW f \in Freds, NEW x, NEW y, FredIn(f, x), FredIn(f, y)
  PROVE  x = y
  BY DEF IdleInv, IdlePlaces, FredOnePlace

\* Steps that move no fred.
LEMMA PlacesQuiet ==
  ASSUME IdleInv,
         UNCHANGED <<running, carried, hReady, hParked, hFreds, haltTokens, handoverFred>>
  PROVE  IdlePlaces'
<1>1. ASSUME NEW f \in Freds, NEW y PROVE FredIn(f, y)' <=> FredIn(f, y)
  BY DEF FredIn
<1>2. \A f \in Freds : FredOnePlace(f)'
  BY <1>1, PlaceKept DEF IdleInv, IdlePlaces
<1> QED BY <1>2 DEF IdleInv, IdlePlaces

\* Steps of a thread outside halt() that touch no list and no token.
LEMMA WakesQuiet ==
  ASSUME IdleInv, NEW t \in IdleThreads, NEW l, step' = [step EXCEPT ![t] = l],
         step[t] # "halt", l # "halt", UNCHANGED <<hProcs, chosen, haltTokens>>
  PROVE  IdleWakes'
<1>1. \A p \in IdleThreads : step'[p] = "halt" <=> step[p] = "halt"
  BY DEF IdleInv, IdleTypes
<1>2. Consumers \subseteq IdleThreads /\ Listing(hProcs) \subseteq Consumers
  BY IdleFacts DEF IdleInv, IdleTypes, Listing
<1>3. \A u \in IdleThreads : chosen[u] # Null => chosen[u] \in Consumers
  BY DEF IdleInv, IdleTypes
<1> QED BY <1>1, <1>2, <1>3 DEF IdleInv, IdleWakes

(* One lemma per action.                                                    *)

LEMMA AddReadyFredInv ==
  ASSUME IdleInv, NEW t \in IdleThreads, NEW f \in Freds, H!AddReadyFred(t, f)
  PROVE  IdleInv'
<1>0. IdleTypes /\ IdleHands /\ IdleWakes /\ IdlePlaces
  BY DEF IdleInv
<1>1. /\ step[t] = "run" /\ f \in hParked /\ hParked' = hParked \ {f}
      /\ carried' = [carried EXCEPT ![t] = f] /\ fredCounter' = fredCounter + 1
      /\ step' = [step EXCEPT ![t] = IF fredCounter + 1 > 0 THEN "enqueue" ELSE "unblock"]
      /\ UNCHANGED <<hProcs, hFreds, hReady, running, seenCount, chosen, handoverFred, haltTokens>>
  BY DEF H!AddReadyFred, H!Goto, H!listVars, H!wakeVars
<1>2. PICK l \in {"enqueue", "unblock"} :
        /\ step' = [step EXCEPT ![t] = l]
        /\ l = IF fredCounter + 1 > 0 THEN "enqueue" ELSE "unblock"
  BY <1>1
<1>3. IdleTypes'
  BY <1>0, <1>1, <1>2 DEF IdleTypes, Bringing, Handing, Fredless
<1>4. IdleHands'
  BY <1>0, <1>1, <1>2, IdleFacts DEF IdleTypes, IdleHands, Bringing, Handing, Fredless
<1>5. IdleWakes'
  BY <1>1, <1>2, WakesQuiet
<1>6. IdleCounts'
  <2>1. /\ Cardinality(hReady') = Cardinality(hReady) + 0
        /\ Len(hFreds') = Len(hFreds) + 0
        /\ Cardinality(H!HandedOver') = Cardinality(H!HandedOver) + 0
        /\ fredCounter' = fredCounter + 1
        /\ hFreds' # <<>> => hProcs' = <<>>
    BY <1>1, CountsAre DEF H!HandedOver, IdleInv, IdleCounts
  <2>2. CountsStep(t, l, 0, 0, 0, 1)
    BY <2>1, <1>0, <1>1, <1>2 DEF CountsStep, IdleTypes, One, Above, Below, Bringing, Handing
  <2> QED BY <1>2, <2>2, SmallInts, CountsMove, ZenonT(40)
<1>7. IdlePlaces'
  <2>1. ASSUME NEW g \in Freds, g # f, NEW y PROVE FredIn(g, y)' <=> FredIn(g, y)
    BY <1>0, <1>1, <2>1, IdleFacts DEF FredIn, IdleTypes, IdleHands, Bringing, Handing
  <2>2. FredIn(f, <<"parked", Null>>) /\ FredIn(f, <<"carried", t>>)'
    BY <1>0, <1>1 DEF FredIn, IdleTypes
  <2>3. ASSUME NEW y, FredIn(f, y)', y # <<"carried", t>>
        PROVE  FredIn(f, y) /\ y # <<"parked", Null>>
    BY <1>0, <1>1, <2>3 DEF FredIn, IdleTypes
  <2>4. \A g \in Freds : FredOnePlace(g)'
    BY <1>0, <2>1, <2>2, <2>3, PlaceKept, PlaceMoved DEF IdlePlaces
  <2> QED BY <1>0, <1>1, <2>4 DEF IdlePlaces
<1> QED BY <1>3, <1>4, <1>5, <1>6, <1>7 DEF IdleInv

\* EnqueueFred() and EnqueueYield(): what a thread carries becomes ready.
LEMMA BroughtInv ==
  ASSUME IdleInv, NEW t \in IdleThreads, step[t] \in Bringing,
         hReady' = hReady \cup {carried[t]}, carried' = [carried EXCEPT ![t] = Null],
         step' = [step EXCEPT ![t] = "run"],
         UNCHANGED <<fredCounter, hProcs, hFreds, hParked, running, seenCount, chosen,
                     handoverFred, haltTokens>>
  PROVE  IdleInv'
<1>0. IdleTypes /\ IdleHands /\ IdleWakes /\ IdlePlaces
  BY DEF IdleInv
<1>1. PICK f \in Freds : f = carried[t]
  BY <1>0 DEF IdleTypes, IdleHands
<1>2. f \notin hReady
  <2>1. FredIn(f, <<"carried", t>>) /\ (f \in hReady => FredIn(f, <<"ready", Null>>))
    BY <1>1 DEF FredIn
  <2> QED BY <2>1, OnePlaceOnly
<1>a. hReady' = hReady \cup {f} /\ IsFiniteSet(hReady')
      /\ Cardinality(hReady') = Cardinality(hReady) + 1
  BY <1>0, <1>1, <1>2, FS_AddElement DEF IdleTypes
<1>3. IdleTypes'
  BY <1>0, <1>1, <1>a DEF IdleTypes, Bringing, Handing, Fredless
<1>4. IdleHands'
  BY <1>0, IdleFacts DEF IdleTypes, IdleHands, Bringing, Handing, Fredless
<1>5. IdleWakes'
  BY WakesQuiet DEF Bringing
<1>6. IdleCounts'
  <2>1. /\ Cardinality(hReady') = Cardinality(hReady) + 1
        /\ Len(hFreds') = Len(hFreds) + 0
        /\ Cardinality(H!HandedOver') = Cardinality(H!HandedOver) + 0
        /\ fredCounter' = fredCounter + 0
        /\ hFreds' # <<>> => hProcs' = <<>>
    BY <1>a, CountsAre DEF H!HandedOver, IdleInv, IdleCounts
  <2>2. CountsStep(t, "run", 1, 0, 0, 0)
    BY <2>1, <1>0 DEF CountsStep, IdleTypes, One, Above, Below, Bringing, Handing
  <2> QED BY <2>2, SmallInts, CountsMove, Zenon
<1>7. IdlePlaces'
  <2>0. carried \in [IdleThreads -> Freds \cup {Null}] /\ Null \notin Freds
    BY <1>0, IdleFacts DEF IdleTypes
  <2>1. ASSUME NEW g \in Freds, g # f, NEW y PROVE FredIn(g, y)' <=> FredIn(g, y)
    BY <1>1, <1>a, <2>0, <2>1 DEF FredIn
  <2>2. FredIn(f, <<"carried", t>>) /\ FredIn(f, <<"ready", Null>>)'
    BY <1>1, <1>a DEF FredIn
  <2>3. ASSUME NEW y, FredIn(f, y)', y # <<"ready", Null>>
        PROVE  FredIn(f, y) /\ y # <<"carried", t>>
    BY <1>1, <1>a, <2>0, <2>3 DEF FredIn
  <2>4. \A g \in Freds : FredOnePlace(g)'
    BY <1>0, <2>1, <2>2, <2>3, PlaceKept, PlaceMoved DEF IdlePlaces
  <2> QED BY <1>0, <2>4 DEF IdlePlaces
<1> QED BY <1>3, <1>4, <1>5, <1>6, <1>7 DEF IdleInv

LEMMA UnblockInvIdle ==
  ASSUME IdleInv, NEW t \in IdleThreads, H!Unblock(t)
  PROVE  IdleInv'
<1>0. IdleTypes /\ IdleHands /\ IdleWakes /\ IdlePlaces /\ step[t] = "unblock"
  BY DEF IdleInv, H!Unblock
<1>1. CASE hProcs = <<>>
  <2>1. /\ hFreds' = Append(hFreds, carried[t]) /\ carried' = [carried EXCEPT ![t] = Null]
        /\ step' = [step EXCEPT ![t] = "run"]
        /\ UNCHANGED <<hProcs, chosen, fredCounter, hReady, hParked, running, seenCount,
                       handoverFred, haltTokens>>
    BY <1>1 DEF H!Unblock, H!Goto
  <2>2. PICK f \in Freds : f = carried[t]
    BY <1>0 DEF IdleTypes, IdleHands, Handing
  <2>3. f \notin Listing(hFreds)
    <3>1. FredIn(f, <<"carried", t>>) /\ (f \in Listing(hFreds) => FredIn(f, <<"left", Null>>))
      BY <2>2 DEF FredIn
    <3> QED BY <3>1, OnePlaceOnly
  <2>4. /\ hFreds' \in Seq(Freds) /\ Len(hFreds') = Len(hFreds) + 1 /\ Distinct(hFreds')
        /\ Listing(hFreds') = Listing(hFreds) \cup {f}
    BY <1>0, <2>1, <2>2, <2>3, ListingAppend DEF IdleTypes, IdlePlaces
  <2>5. IdleTypes'
    BY <1>0, <2>1, <2>4 DEF IdleTypes, Bringing, Handing, Fredless
  <2>6. IdleHands'
    BY <1>0, <2>1, IdleFacts DEF IdleTypes, IdleHands, Bringing, Handing, Fredless
  <2>7. IdleWakes'
    BY <1>0, <2>1, WakesQuiet
  <2>8. IdleCounts'
    <3>1. /\ Cardinality(hReady') = Cardinality(hReady) + 0
          /\ Len(hFreds') = Len(hFreds) + 1
          /\ Cardinality(H!HandedOver') = Cardinality(H!HandedOver) + 0
          /\ fredCounter' = fredCounter + 0
          /\ hFreds' # <<>> => hProcs' = <<>>
      BY <1>1, <2>1, <2>4, CountsAre DEF H!HandedOver
    <3>2. CountsStep(t, "run", 0, 1, 0, 0)
      BY <3>1, <1>0 DEF CountsStep, IdleTypes, One, Above, Below, Bringing, Handing
    <3> QED BY <2>1, <3>2, SmallInts, CountsMove, Zenon
  <2>9. IdlePlaces'
    <3>0. carried \in [IdleThreads -> Freds \cup {Null}] /\ Null \notin Freds
      BY <1>0, IdleFacts DEF IdleTypes
    <3>1. ASSUME NEW g \in Freds, g # f, NEW y PROVE FredIn(g, y)' <=> FredIn(g, y)
      BY <2>1, <2>2, <2>4, <3>0, <3>1 DEF FredIn
    <3>2. FredIn(f, <<"carried", t>>) /\ FredIn(f, <<"left", Null>>)'
      BY <2>2, <2>4 DEF FredIn
    <3>3. ASSUME NEW y, FredIn(f, y)', y # <<"left", Null>>
          PROVE  FredIn(f, y) /\ y # <<"carried", t>>
      BY <2>1, <2>2, <2>4, <3>0, <3>3 DEF FredIn
    <3>4. \A g \in Freds : FredOnePlace(g)'
      BY <1>0, <3>1, <3>2, <3>3, PlaceKept, PlaceMoved DEF IdlePlaces
    <3> QED BY <2>4, <3>4 DEF IdlePlaces
  <2> QED BY <2>5, <2>6, <2>7, <2>8, <2>9 DEF IdleInv
<1>2. CASE hProcs # <<>>
  <2>1. /\ chosen' = [chosen EXCEPT ![t] = Head(hProcs)] /\ hProcs' = Tail(hProcs)
        /\ step' = [step EXCEPT ![t] = "wake"]
        /\ UNCHANGED <<hFreds, carried, fredCounter, hReady, hParked, running, seenCount,
                       handoverFred, haltTokens>>
    BY <1>2 DEF H!Unblock, H!Goto
  <2>2. PICK p \in Consumers : p = Head(hProcs) /\ p \in Listing(hProcs)
    BY <1>0, <1>2, ListingTail DEF IdleTypes, IdleWakes
  <2>3. /\ hProcs' \in Seq(Consumers) /\ Distinct(hProcs')
        /\ Listing(hProcs') = Listing(hProcs) \ {p}
    BY <1>0, <1>2, <2>1, <2>2, ListingTail DEF IdleTypes, IdleWakes
  <2>a. chosen' = [chosen EXCEPT ![t] = p] /\ p \in IdleThreads /\ p # Null /\ chosen[t] = Null
    BY <1>0, <2>1, <2>2, IdleFacts DEF IdleHands
  <2>5. IdleTypes'
    BY <1>0, <2>1, <2>2, <2>3, <2>a DEF IdleTypes, Bringing, Handing, Fredless
  <2>6. IdleHands'
    BY <1>0, <2>1, <2>a, IdleFacts DEF IdleTypes, IdleHands, Bringing, Handing, Fredless
  <2>7. IdleWakes'
    <3>1. \A u \in IdleThreads : step'[u] = "halt" <=> step[u] = "halt"
      BY <1>0, <2>1 DEF IdleTypes
    <3>2. \A u \in IdleThreads : chosen'[u] = IF u = t THEN p ELSE chosen[u]
      BY <1>0, <2>a DEF IdleTypes
    <3>3. /\ Consumers \subseteq IdleThreads /\ Listing(hProcs) \subseteq Consumers
          /\ \A u \in IdleThreads : chosen[u] # Null => chosen[u] \in Consumers
      BY <1>0, IdleFacts DEF IdleTypes, Listing
    <3>4. step[p] = "halt" /\ haltTokens[p] = 0 /\ \A u \in IdleThreads : chosen[u] # p
      BY <1>0, <2>2, <2>a DEF IdleWakes
    <3>5. \A q \in Listing(hProcs') : step'[q] = "halt" /\ haltTokens'[q] = 0
      BY <1>0, <2>1, <2>3, <3>1, <3>3 DEF IdleWakes
    <3>6. ASSUME NEW u \in IdleThreads, chosen'[u] # Null
          PROVE  /\ step'[chosen'[u]] = "halt" /\ haltTokens'[chosen'[u]] = 0
                 /\ chosen'[u] \notin Listing(hProcs')
                 /\ \A v \in IdleThreads : chosen'[v] = chosen'[u] => v = u
      <4>1. CASE u = t
        BY <2>1, <2>3, <2>a, <3>1, <3>2, <3>4, <4>1
      <4>2. CASE u # t
        BY <1>0, <2>1, <2>3, <2>a, <3>1, <3>2, <3>3, <3>4, <3>6, <4>2 DEF IdleWakes
      <4> QED BY <4>1, <4>2
    <3>7. \A q \in Consumers : haltTokens'[q] = 1 => step'[q] = "halt"
      BY <1>0, <2>1, <3>1, <3>3 DEF IdleWakes
    <3>8. ASSUME NEW q \in Consumers, step'[q] = "halt"
          PROVE  \/ q \in Listing(hProcs') \/ haltTokens'[q] = 1
                 \/ \E u \in IdleThreads : chosen'[u] = q
      <4>1. CASE q = p
        BY <3>2, <4>1
      <4>2. CASE q # p
        <5>1. \/ q \in Listing(hProcs) \/ haltTokens[q] = 1
              \/ \E u \in IdleThreads : chosen[u] = q
          BY <1>0, <3>1, <3>3, <3>8 DEF IdleWakes
        <5>2. chosen[t] # q
          BY <2>a, IdleFacts
        <5> QED BY <2>1, <2>3, <3>2, <4>2, <5>1, <5>2
      <4> QED BY <4>1, <4>2
    <3> QED BY <2>3, <3>5, <3>6, <3>7, <3>8 DEF IdleWakes
  <2>8. IdleCounts'
    <3>1. /\ Cardinality(hReady') = Cardinality(hReady) + 0
          /\ Len(hFreds') = Len(hFreds) + 0
          /\ Cardinality(H!HandedOver') = Cardinality(H!HandedOver) + 0
          /\ fredCounter' = fredCounter + 0
          /\ hFreds' # <<>> => hProcs' = <<>>
      BY <1>2, <2>1, CountsAre DEF H!HandedOver, IdleInv, IdleCounts
    <3>2. CountsStep(t, "wake", 0, 0, 0, 0)
      BY <3>1, <1>0 DEF CountsStep, IdleTypes, One, Above, Below, Bringing, Handing
    <3> QED BY <2>1, <3>2, SmallInts, CountsMove, Zenon
  <2>9. IdlePlaces'
    BY <2>1, PlacesQuiet
  <2> QED BY <2>5, <2>6, <2>7, <2>8, <2>9 DEF IdleInv
<1> QED BY <1>1, <1>2

LEMMA WakeInvIdle ==
  ASSUME IdleInv, NEW t \in IdleThreads, H!Wake(t)
  PROVE  IdleInv'
<1>0. IdleTypes /\ IdleHands /\ IdleWakes /\ IdlePlaces /\ step[t] = "wake"
  BY DEF IdleInv, H!Wake
<1>1. PICK f \in Freds, p \in Consumers : f = carried[t] /\ p = chosen[t] /\ p \in IdleThreads
  BY <1>0, IdleFacts DEF IdleTypes, IdleHands, Handing
<1>2. /\ handoverFred' = [handoverFred EXCEPT ![p] = f]
      /\ haltTokens' = [haltTokens EXCEPT ![p] = haltTokens[p] + 1]
      /\ carried' = [carried EXCEPT ![t] = Null] /\ chosen' = [chosen EXCEPT ![t] = Null]
      /\ step' = [step EXCEPT ![t] = "run"]
      /\ UNCHANGED <<fredCounter, hProcs, hFreds, hReady, hParked, running, seenCount>>
  BY <1>1 DEF H!Wake, H!Goto, H!listVars
<1>3. /\ step[p] = "halt" /\ haltTokens[p] = 0 /\ p \notin Listing(hProcs)
      /\ \A u \in IdleThreads : chosen[u] = p => u = t
      /\ p # Null /\ p # t
  BY <1>0, <1>1, IdleFacts DEF IdleWakes
<1>4. haltTokens' = [haltTokens EXCEPT ![p] = 1]
  BY <1>2, <1>3
<1>5. IdleTypes'
  BY <1>0, <1>1, <1>2, <1>4 DEF IdleTypes, Bringing, Handing, Fredless
<1>6. IdleHands'
  BY <1>0, <1>1, <1>2, <1>4, IdleFacts DEF IdleTypes, IdleHands, Bringing, Handing, Fredless
<1>7. IdleWakes'
  <2>1. \A u \in IdleThreads : step'[u] = "halt" <=> step[u] = "halt"
    BY <1>0, <1>2 DEF IdleTypes
  <2>2. \A u \in IdleThreads : chosen'[u] = IF u = t THEN Null ELSE chosen[u]
    BY <1>0, <1>2 DEF IdleTypes
  <2>3. \A q \in Consumers : haltTokens'[q] = IF q = p THEN 1 ELSE haltTokens[q]
    BY <1>0, <1>4 DEF IdleTypes
  <2>4. /\ Consumers \subseteq IdleThreads /\ Listing(hProcs) \subseteq Consumers
        /\ \A u \in IdleThreads : chosen[u] # Null => chosen[u] \in Consumers
    BY <1>0, IdleFacts DEF IdleTypes, Listing
  <2>5. Distinct(hProcs') /\ \A q \in Listing(hProcs') : step'[q] = "halt" /\ haltTokens'[q] = 0
    BY <1>0, <1>2, <1>3, <2>1, <2>3, <2>4 DEF IdleWakes
  <2>6. ASSUME NEW u \in IdleThreads, chosen'[u] # Null
        PROVE  /\ step'[chosen'[u]] = "halt" /\ haltTokens'[chosen'[u]] = 0
               /\ chosen'[u] \notin Listing(hProcs')
               /\ \A v \in IdleThreads : chosen'[v] = chosen'[u] => v = u
    <3>1. u # t /\ chosen'[u] = chosen[u] /\ chosen[u] # Null /\ chosen[u] # p
      BY <1>3, <2>2, <2>6
    <3>2. step[chosen[u]] = "halt" /\ haltTokens[chosen[u]] = 0 /\ chosen[u] \notin Listing(hProcs)
          /\ \A v \in IdleThreads : chosen[v] = chosen[u] => v = u
      BY <1>0, <3>1 DEF IdleWakes
    <3> QED BY <1>2, <2>1, <2>2, <2>3, <2>4, <3>1, <3>2
  <2>7. \A q \in Consumers : haltTokens'[q] = 1 => step'[q] = "halt"
    BY <1>0, <1>3, <2>1, <2>3, <2>4 DEF IdleWakes
  <2>8. ASSUME NEW q \in Consumers, step'[q] = "halt"
        PROVE  \/ q \in Listing(hProcs') \/ haltTokens'[q] = 1
               \/ \E u \in IdleThreads : chosen'[u] = q
    <3>1. \/ q \in Listing(hProcs) \/ haltTokens[q] = 1
          \/ \E u \in IdleThreads : chosen[u] = q
      BY <1>0, <2>1, <2>4, <2>8 DEF IdleWakes
    <3> QED BY <1>1, <1>2, <2>2, <2>3, <3>1
  <2> QED BY <2>5, <2>6, <2>7, <2>8 DEF IdleWakes
<1>8. IdleCounts'
  <2>0. H!HandedOver' = H!HandedOver \cup {p} /\ p \notin H!HandedOver
    BY <1>0, <1>3, <1>4 DEF H!HandedOver, IdleTypes
  <2>1. Cardinality(H!HandedOver') = Cardinality(H!HandedOver) + 1
    BY <2>0, CountsAre, FS_AddElement
  <2>2. /\ Cardinality(hReady') = Cardinality(hReady) + 0
        /\ Len(hFreds') = Len(hFreds) + 0
        /\ fredCounter' = fredCounter + 0
        /\ hFreds' # <<>> => hProcs' = <<>>
    BY <1>2, CountsAre DEF IdleInv, IdleCounts
  <2>3. CountsStep(t, "run", 0, 0, 1, 0)
    BY <1>0, <2>1, <2>2 DEF CountsStep, IdleTypes, One, Above, Below, Bringing, Handing
  <2> QED BY <1>2, <2>3, SmallInts, CountsMove, Zenon
<1>9. IdlePlaces'
  <2>0. /\ carried \in [IdleThreads -> Freds \cup {Null}] /\ Null \notin Freds
        /\ handoverFred \in [Consumers -> Freds \cup {Null}]
        /\ haltTokens \in [Consumers -> {0, 1}]
    BY <1>0, IdleFacts DEF IdleTypes
  <2>1. ASSUME NEW g \in Freds, g # f, NEW y PROVE FredIn(g, y)' <=> FredIn(g, y)
    BY <1>1, <1>2, <1>3, <1>4, <2>0, <2>1 DEF FredIn
  <2>2. FredIn(f, <<"carried", t>>) /\ FredIn(f, <<"handed", p>>)'
    BY <1>1, <1>2, <1>4, <2>0 DEF FredIn
  <2>3. ASSUME NEW y, FredIn(f, y)', y # <<"handed", p>>
        PROVE  FredIn(f, y) /\ y # <<"carried", t>>
    BY <1>1, <1>2, <1>3, <1>4, <2>0, <2>3 DEF FredIn
  <2>4. \A g \in Freds : FredOnePlace(g)'
    BY <1>0, <2>1, <2>2, <2>3, PlaceKept, PlaceMoved DEF IdlePlaces
  <2> QED BY <1>0, <1>2, <2>4 DEF IdlePlaces
<1> QED BY <1>5, <1>6, <1>7, <1>8, <1>9 DEF IdleInv

LEMMA SuspendInvIdle ==
  ASSUME IdleInv, NEW p \in Consumers, H!Suspend(p)
  PROVE  IdleInv'
<1>0. IdleTypes /\ IdleHands /\ IdleWakes /\ IdlePlaces /\ p \in IdleThreads
  BY IdleFacts DEF IdleInv
<1>1. /\ step[p] = "run" /\ running[p] # Null /\ hParked' = hParked \cup {running[p]}
      /\ running' = [running EXCEPT ![p] = Null] /\ step' = [step EXCEPT ![p] = "spin"]
      /\ UNCHANGED <<fredCounter, hProcs, hFreds, hReady, seenCount, carried, chosen,
                     handoverFred, haltTokens>>
  BY DEF H!Suspend, H!Goto, H!listVars, H!wakeVars
<1>2. PICK f \in Freds : f = running[p]
  BY <1>0, <1>1 DEF IdleTypes
<1>3. IdleTypes'
  BY <1>0, <1>1, <1>2 DEF IdleTypes, Bringing, Handing, Fredless
<1>4. IdleHands'
  BY <1>0, <1>1, IdleFacts DEF IdleTypes, IdleHands, Bringing, Handing, Fredless
<1>5. IdleWakes'
  BY <1>0, <1>1, WakesQuiet
<1>6. IdleCounts'
  <2>1. /\ Cardinality(hReady') = Cardinality(hReady) + 0
        /\ Len(hFreds') = Len(hFreds) + 0
        /\ Cardinality(H!HandedOver') = Cardinality(H!HandedOver) + 0
        /\ fredCounter' = fredCounter + 0
        /\ hFreds' # <<>> => hProcs' = <<>>
    BY <1>1, CountsAre DEF H!HandedOver, IdleInv, IdleCounts
  <2>2. CountsStep(p, "spin", 0, 0, 0, 0)
    BY <1>0, <1>1, <2>1 DEF CountsStep, IdleTypes, One, Above, Below, Bringing, Handing
  <2> QED BY <1>0, <1>1, <2>2, SmallInts, CountsMove, Zenon
<1>7. IdlePlaces'
  <2>0. running \in [Consumers -> Freds \cup {Null}] /\ Null \notin Freds
    BY <1>0, IdleFacts DEF IdleTypes
  <2>1. ASSUME NEW g \in Freds, g # f, NEW y PROVE FredIn(g, y)' <=> FredIn(g, y)
    BY <1>1, <1>2, <2>0, <2>1 DEF FredIn
  <2>2. FredIn(f, <<"running", p>>) /\ FredIn(f, <<"parked", Null>>)'
    BY <1>1, <1>2 DEF FredIn
  <2>3. ASSUME NEW y, FredIn(f, y)', y # <<"parked", Null>>
        PROVE  FredIn(f, y) /\ y # <<"running", p>>
    BY <1>1, <1>2, <2>0, <2>3 DEF FredIn
  <2>4. \A g \in Freds : FredOnePlace(g)'
    BY <1>0, <2>1, <2>2, <2>3, PlaceKept, PlaceMoved DEF IdlePlaces
  <2> QED BY <1>0, <1>1, <2>4 DEF IdlePlaces
<1> QED BY <1>3, <1>4, <1>5, <1>6, <1>7 DEF IdleInv

\* tryGetReadyFred() and getReadyFred(): a processor without a fred looks at
\* the counter, and takes one off it or not.
LEMMA LookInv ==
  ASSUME IdleInv, NEW p \in Consumers, H!TryRead(p) \/ H!TryGetReadyFred(p) \/ H!GetReadyFred(p)
  PROVE  IdleInv'
<1>0. IdleTypes /\ IdleHands /\ IdleWakes /\ IdlePlaces /\ p \in IdleThreads
  BY IdleFacts DEF IdleInv
<1>1. /\ seenCount' \in [Consumers -> Int]
      /\ UNCHANGED <<hProcs, hFreds, hReady, hParked, running, carried, chosen, handoverFred,
                     haltTokens>>
      /\ step[p] \in {"spin", "cas", "get"}
  BY <1>0 DEF H!TryRead, H!TryGetReadyFred, H!GetReadyFred, H!listVars, H!wakeVars, IdleTypes
<1>2. PICK l \in {"spin", "cas", "get", "search", "block"} :
        /\ step' = [step EXCEPT ![p] = l]
        /\ \/ l \in {"spin", "cas", "get"} /\ fredCounter' = fredCounter + 0
           \/ l = "search" /\ fredCounter > 0 /\ fredCounter' = fredCounter + (-1)
           \/ l = "block" /\ ~(fredCounter > 0) /\ fredCounter' = fredCounter + (-1)
  <2>0. fredCounter \in Int /\ seenCount[p] \in Int
    BY <1>0 DEF IdleTypes
  <2>1. CASE H!TryRead(p)
    BY <2>0, <2>1 DEF H!TryRead, H!Goto
  <2>2. CASE H!TryGetReadyFred(p)
    <3>1. CASE seenCount[p] > 0 /\ seenCount[p] = fredCounter
               /\ fredCounter' = fredCounter - 1 /\ H!Goto(p, "search")
      BY <2>0, <3>1 DEF H!Goto
    <3>2. CASE (H!Goto(p, "spin") \/ H!Goto(p, "get")) /\ UNCHANGED fredCounter
      BY <2>0, <3>2 DEF H!Goto
    <3> QED BY <2>2, <3>1, <3>2 DEF H!TryGetReadyFred
  <2>3. CASE H!GetReadyFred(p)
    BY <2>0, <2>3 DEF H!GetReadyFred, H!Goto
  <2> QED BY <2>1, <2>2, <2>3
<1>3. IdleTypes'
  <2>1. fredCounter' \in Int
    BY <1>0, <1>2 DEF IdleTypes
  <2> QED BY <1>0, <1>1, <1>2, <2>1 DEF IdleTypes, Bringing, Handing, Fredless
<1>4. IdleHands'
  BY <1>0, <1>1, <1>2, IdleFacts DEF IdleTypes, IdleHands, Bringing, Handing, Fredless
<1>5. IdleWakes'
  BY <1>0, <1>1, <1>2, WakesQuiet
<1>6. IdleCounts'
  <2>1. /\ Cardinality(hReady') = Cardinality(hReady) + 0
        /\ Len(hFreds') = Len(hFreds) + 0
        /\ Cardinality(H!HandedOver') = Cardinality(H!HandedOver) + 0
        /\ hFreds' # <<>> => hProcs' = <<>>
        /\ fredCounter \in Int
    BY <1>1, CountsAre DEF H!HandedOver, IdleInv, IdleCounts
  <2>2. CASE l \in {"spin", "cas", "get"} /\ fredCounter' = fredCounter + 0
    <3>1. CountsStep(p, l, 0, 0, 0, 0)
      BY <1>1, <2>1, <2>2 DEF CountsStep, One, Above, Below, Bringing, Handing
    <3> QED BY <1>0, <1>2, <3>1, SmallInts, CountsMove, Zenon
  <2>3. CASE l = "search" /\ fredCounter > 0 /\ fredCounter' = fredCounter + (-1)
    <3>1. CountsStep(p, l, 0, 0, 0, -1)
      BY <1>1, <2>1, <2>3 DEF CountsStep, One, Above, Below, Bringing, Handing
    <3> QED BY <1>0, <1>2, <3>1, SmallInts, CountsMove, Zenon
  <2>4. CASE l = "block" /\ ~(fredCounter > 0) /\ fredCounter' = fredCounter + (-1)
    <3>1. CountsStep(p, l, 0, 0, 0, -1)
      BY <1>1, <2>1, <2>4 DEF CountsStep, One, Above, Below, Bringing, Handing
    <3> QED BY <1>0, <1>2, <3>1, SmallInts, CountsMove, Zenon
  <2> QED BY <1>2, <2>2, <2>3, <2>4
<1>7. IdlePlaces'
  BY <1>1, PlacesQuiet
<1> QED BY <1>3, <1>4, <1>5, <1>6, <1>7 DEF IdleInv

LEMMA ScheduleBlockingInv ==
  ASSUME IdleInv, NEW p \in Consumers, H!ScheduleBlocking(p)
  PROVE  IdleInv'
<1>0. IdleTypes /\ IdleHands /\ IdleWakes /\ IdlePlaces /\ p \in IdleThreads
  BY IdleFacts DEF IdleInv
<1>1. PICK f \in hReady :
        /\ step[p] = "search" /\ running' = [running EXCEPT ![p] = f]
        /\ step' = [step EXCEPT ![p] = "run"] /\ hReady' = hReady \ {f}
        /\ UNCHANGED <<fredCounter, hProcs, hFreds, hParked, seenCount, carried, chosen,
                       handoverFred, haltTokens>>
  BY DEF H!ScheduleBlocking, H!Run, H!Goto, H!listVars, H!wakeVars
<1>2. /\ f \in Freds /\ running[p] = Null /\ IsFiniteSet(hReady')
      /\ Cardinality(hReady') = Cardinality(hReady) - 1 /\ Cardinality(hReady) \in Nat
  BY <1>0, <1>1, FS_RemoveElement, FS_CardinalityType DEF IdleTypes, IdleHands, Fredless
<1>3. IdleTypes'
  BY <1>0, <1>1, <1>2 DEF IdleTypes, Bringing, Handing, Fredless
<1>4. IdleHands'
  BY <1>0, <1>1, <1>2, IdleFacts DEF IdleTypes, IdleHands, Bringing, Handing, Fredless
<1>5. IdleWakes'
  BY <1>0, <1>1, WakesQuiet
<1>6. IdleCounts'
  <2>1. /\ Cardinality(hReady') = Cardinality(hReady) + (-1)
        /\ Len(hFreds') = Len(hFreds) + 0
        /\ Cardinality(H!HandedOver') = Cardinality(H!HandedOver) + 0
        /\ fredCounter' = fredCounter + 0
        /\ hFreds' # <<>> => hProcs' = <<>>
    BY <1>1, <1>2, CountsAre DEF H!HandedOver, IdleInv, IdleCounts
  <2>2. CountsStep(p, "run", -1, 0, 0, 0)
    BY <1>0, <1>1, <2>1 DEF CountsStep, IdleTypes, One, Above, Below, Bringing, Handing
  <2> QED BY <1>0, <1>1, <2>2, SmallInts, CountsMove, Zenon
<1>7. IdlePlaces'
  <2>0. running \in [Consumers -> Freds \cup {Null}] /\ Null \notin Freds
    BY <1>0, IdleFacts DEF IdleTypes
  <2>1. ASSUME NEW g \in Freds, g # f, NEW y PROVE FredIn(g, y)' <=> FredIn(g, y)
    BY <1>1, <1>2, <2>0, <2>1 DEF FredIn
  <2>2. FredIn(f, <<"ready", Null>>) /\ FredIn(f, <<"running", p>>)'
    BY <1>1, <1>2, <2>0 DEF FredIn
  <2>3. ASSUME NEW y, FredIn(f, y)', y # <<"running", p>>
        PROVE  FredIn(f, y) /\ y # <<"ready", Null>>
    BY <1>1, <1>2, <2>0, <2>3 DEF FredIn
  <2>4. \A g \in Freds : FredOnePlace(g)'
    BY <1>0, <1>2, <2>1, <2>2, <2>3, PlaceKept, PlaceMoved DEF IdlePlaces
  <2> QED BY <1>0, <1>1, <2>4 DEF IdlePlaces
<1> QED BY <1>3, <1>4, <1>5, <1>6, <1>7 DEF IdleInv

LEMMA BlockInvIdle ==
  ASSUME IdleInv, NEW p \in Consumers, H!Block(p)
  PROVE  IdleInv'
<1>0. IdleTypes /\ IdleHands /\ IdleWakes /\ IdlePlaces /\ p \in IdleThreads /\ step[p] = "block"
  BY IdleFacts DEF IdleInv, H!Block
<1>1. CASE hFreds = <<>>
  <2>1. /\ hProcs' = <<p>> \o hProcs /\ step' = [step EXCEPT ![p] = "halt"]
        /\ UNCHANGED <<hFreds, running, fredCounter, hReady, hParked, seenCount, carried, chosen,
                       handoverFred, haltTokens>>
    BY <1>1 DEF H!Block, H!Goto, H!Run, H!wakeVars
  <2>2. p \notin Listing(hProcs)
    BY <1>0 DEF IdleWakes
  <2>3. /\ hProcs' \in Seq(Consumers) /\ Distinct(hProcs')
        /\ Listing(hProcs') = Listing(hProcs) \cup {p}
    BY <1>0, <2>1, <2>2, ListingPush DEF IdleTypes, IdleWakes
  <2>4. IdleTypes'
    BY <1>0, <2>1, <2>3 DEF IdleTypes, Bringing, Handing, Fredless
  <2>5. IdleHands'
    BY <1>0, <2>1, IdleFacts DEF IdleTypes, IdleHands, Bringing, Handing, Fredless
  <2>6. IdleWakes'
    <3>1. \A u \in IdleThreads : step'[u] = IF u = p THEN "halt" ELSE step[u]
      BY <1>0, <2>1 DEF IdleTypes
    <3>2. /\ Consumers \subseteq IdleThreads /\ Listing(hProcs) \subseteq Consumers
          /\ \A u \in IdleThreads : chosen[u] # Null => chosen[u] \in Consumers
      BY <1>0, IdleFacts DEF IdleTypes, Listing
    <3>3. haltTokens[p] = 0 /\ \A u \in IdleThreads : chosen[u] # p
      <4>1. haltTokens[p] \in {0, 1} /\ haltTokens[p] # 1
        BY <1>0 DEF IdleTypes, IdleWakes
      <4> QED BY <1>0, <4>1, IdleFacts DEF IdleWakes
    <3>4. \A q \in Listing(hProcs') : step'[q] = "halt" /\ haltTokens'[q] = 0
      BY <1>0, <2>1, <2>3, <3>1, <3>2, <3>3 DEF IdleWakes
    <3>5. ASSUME NEW u \in IdleThreads, chosen'[u] # Null
          PROVE  /\ step'[chosen'[u]] = "halt" /\ haltTokens'[chosen'[u]] = 0
                 /\ chosen'[u] \notin Listing(hProcs')
                 /\ \A v \in IdleThreads : chosen'[v] = chosen'[u] => v = u
      BY <1>0, <2>1, <2>3, <3>1, <3>2, <3>3, <3>5 DEF IdleWakes
    <3>6. \A q \in Consumers : haltTokens'[q] = 1 => step'[q] = "halt"
      BY <1>0, <2>1, <3>1, <3>2 DEF IdleWakes
    <3>7. ASSUME NEW q \in Consumers, step'[q] = "halt"
          PROVE  \/ q \in Listing(hProcs') \/ haltTokens'[q] = 1
                 \/ \E u \in IdleThreads : chosen'[u] = q
      BY <1>0, <2>1, <2>3, <3>1, <3>2, <3>7 DEF IdleWakes
    <3> QED BY <2>3, <3>4, <3>5, <3>6, <3>7 DEF IdleWakes
  <2>7. IdleCounts'
    <3>1. /\ Cardinality(hReady') = Cardinality(hReady) + 0
          /\ Len(hFreds') = Len(hFreds) + 0
          /\ Cardinality(H!HandedOver') = Cardinality(H!HandedOver) + 0
          /\ fredCounter' = fredCounter + 0
          /\ hFreds' # <<>> => hProcs' = <<>>
      BY <1>1, <2>1, CountsAre DEF H!HandedOver
    <3>2. CountsStep(p, "halt", 0, 0, 0, 0)
      BY <1>0, <3>1 DEF CountsStep, IdleTypes, One, Above, Below, Bringing, Handing
    <3> QED BY <1>0, <2>1, <3>2, SmallInts, CountsMove, Zenon
  <2>8. IdlePlaces'
    BY <2>1, PlacesQuiet
  <2> QED BY <2>4, <2>5, <2>6, <2>7, <2>8 DEF IdleInv
<1>2. CASE hFreds # <<>>
  <2>1. /\ hFreds' = Tail(hFreds) /\ running' = [running EXCEPT ![p] = Head(hFreds)]
        /\ step' = [step EXCEPT ![p] = "run"]
        /\ UNCHANGED <<hProcs, fredCounter, hReady, hParked, seenCount, carried, chosen,
                       handoverFred, haltTokens>>
    BY <1>2 DEF H!Block, H!Goto, H!Run, H!wakeVars
  <2>2. PICK f \in Freds : f = Head(hFreds) /\ f \in Listing(hFreds)
    BY <1>0, <1>2, ListingTail DEF IdleTypes, IdlePlaces
  <2>3. /\ hFreds' \in Seq(Freds) /\ Distinct(hFreds') /\ Len(hFreds') = Len(hFreds) - 1
        /\ Listing(hFreds') = Listing(hFreds) \ {f}
    BY <1>0, <1>2, <2>1, <2>2, ListingTail DEF IdleTypes, IdlePlaces
  <2>a. running' = [running EXCEPT ![p] = f] /\ running[p] = Null /\ f # Null
    BY <1>0, <2>1, <2>2, IdleFacts DEF IdleHands, Fredless
  <2>4. IdleTypes'
    BY <1>0, <2>1, <2>3, <2>a DEF IdleTypes, Bringing, Handing, Fredless
  <2>5. IdleHands'
    BY <1>0, <2>1, <2>a, IdleFacts DEF IdleTypes, IdleHands, Bringing, Handing, Fredless
  <2>6. IdleWakes'
    BY <1>0, <2>1, WakesQuiet
  <2>7. IdleCounts'
    <3>1. /\ Cardinality(hReady') = Cardinality(hReady) + 0
          /\ Len(hFreds') = Len(hFreds) + (-1)
          /\ Cardinality(H!HandedOver') = Cardinality(H!HandedOver) + 0
          /\ fredCounter' = fredCounter + 0
          /\ hFreds' # <<>> => hProcs' = <<>>
      BY <1>2, <2>1, <2>3, CountsAre DEF H!HandedOver, IdleInv, IdleCounts
    <3>a. /\ One("run", Bringing) = 0 /\ One(step[p], Bringing) = 0
          /\ One("run", Handing) = 0 /\ One(step[p], Handing) = 0
          /\ One("run", {"search"}) = 0 /\ One(step[p], {"search"}) = 0
          /\ One("run", {"block", "halt"}) = 0 /\ One(step[p], {"block", "halt"}) = 1
      BY <1>0 DEF One, Bringing, Handing
    <3>b. /\ Above(fredCounter + 0) = Above(fredCounter) /\ Above(fredCounter) \in Int
          /\ Below(fredCounter + 0) = Below(fredCounter) /\ Below(fredCounter) \in Int
      BY CountsAre DEF Above, Below
    <3>2. CountsStep(p, "run", 0, -1, 0, 0)
      BY <3>1, <3>a, <3>b DEF CountsStep
    <3> QED BY <1>0, <2>1, <3>2, SmallInts, CountsMove, Zenon
  <2>8. IdlePlaces'
    <3>0. running \in [Consumers -> Freds \cup {Null}] /\ Null \notin Freds
      BY <1>0, IdleFacts DEF IdleTypes
    <3>1. ASSUME NEW g \in Freds, g # f, NEW y PROVE FredIn(g, y)' <=> FredIn(g, y)
      BY <2>1, <2>2, <2>3, <2>a, <3>0, <3>1 DEF FredIn
    <3>2. FredIn(f, <<"left", Null>>) /\ FredIn(f, <<"running", p>>)'
      BY <2>2, <2>a, <3>0 DEF FredIn
    <3>3. ASSUME NEW y, FredIn(f, y)', y # <<"running", p>>
          PROVE  FredIn(f, y) /\ y # <<"left", Null>>
      BY <2>1, <2>2, <2>3, <2>a, <3>0, <3>3 DEF FredIn
    <3>4. \A g \in Freds : FredOnePlace(g)'
      BY <1>0, <3>1, <3>2, <3>3, PlaceKept, PlaceMoved DEF IdlePlaces
    <3> QED BY <2>3, <3>4 DEF IdlePlaces
  <2> QED BY <2>4, <2>5, <2>6, <2>7, <2>8 DEF IdleInv
<1> QED BY <1>1, <1>2

LEMMA HaltInvIdle ==
  ASSUME IdleInv, NEW p \in Consumers, H!Halt(p)
  PROVE  IdleInv'
<1>0. IdleTypes /\ IdleHands /\ IdleWakes /\ IdlePlaces /\ p \in IdleThreads
  BY IdleFacts DEF IdleInv
<1>1. /\ step[p] = "halt" /\ haltTokens[p] > 0
      /\ haltTokens' = [haltTokens EXCEPT ![p] = haltTokens[p] - 1]
      /\ running' = [running EXCEPT ![p] = handoverFred[p]]
      /\ step' = [step EXCEPT ![p] = "run"]
      /\ UNCHANGED <<fredCounter, hProcs, hFreds, hReady, hParked, seenCount, carried, chosen,
                     handoverFred>>
  BY DEF H!Halt, H!Run, H!Goto, H!listVars
<1>2. haltTokens[p] = 1
  <2>1. haltTokens[p] \in {0, 1}
    BY <1>0 DEF IdleTypes
  <2> QED BY <1>1, <2>1
<1>3. haltTokens' = [haltTokens EXCEPT ![p] = 0]
  BY <1>1, <1>2
<1>4. PICK f \in Freds : f = handoverFred[p]
  BY <1>0, <1>2 DEF IdleTypes, IdleHands
<1>a. running' = [running EXCEPT ![p] = f] /\ running[p] = Null /\ f # Null
  BY <1>0, <1>1, <1>4, IdleFacts DEF IdleHands, Fredless
<1>5. IdleTypes'
  BY <1>0, <1>1, <1>3, <1>a DEF IdleTypes, Bringing, Handing, Fredless
<1>6. IdleHands'
  BY <1>0, <1>1, <1>3, <1>a, IdleFacts DEF IdleTypes, IdleHands, Bringing, Handing, Fredless
<1>7. IdleWakes'
  <2>1. \A u \in IdleThreads : step'[u] = IF u = p THEN "run" ELSE step[u]
    BY <1>0, <1>1 DEF IdleTypes
  <2>2. \A q \in Consumers : haltTokens'[q] = IF q = p THEN 0 ELSE haltTokens[q]
    BY <1>0, <1>3 DEF IdleTypes
  <2>3. /\ Consumers \subseteq IdleThreads /\ Listing(hProcs) \subseteq Consumers
        /\ \A u \in IdleThreads : chosen[u] # Null => chosen[u] \in Consumers
    BY <1>0, IdleFacts DEF IdleTypes, Listing
  <2>4. p \notin Listing(hProcs) /\ p # Null /\ \A u \in IdleThreads : chosen[u] # p
    BY <1>0, <1>2, IdleFacts DEF IdleWakes
  <2>5. Distinct(hProcs') /\ \A q \in Listing(hProcs') : step'[q] = "halt" /\ haltTokens'[q] = 0
    BY <1>0, <1>1, <2>1, <2>2, <2>3, <2>4 DEF IdleWakes
  <2>6. ASSUME NEW u \in IdleThreads, chosen'[u] # Null
        PROVE  /\ step'[chosen'[u]] = "halt" /\ haltTokens'[chosen'[u]] = 0
               /\ chosen'[u] \notin Listing(hProcs')
               /\ \A v \in IdleThreads : chosen'[v] = chosen'[u] => v = u
    BY <1>0, <1>1, <2>1, <2>2, <2>3, <2>4, <2>6 DEF IdleWakes
  <2>7. \A q \in Consumers : haltTokens'[q] = 1 => step'[q] = "halt"
    BY <1>0, <2>1, <2>2, <2>3 DEF IdleWakes
  <2>8. ASSUME NEW q \in Consumers, step'[q] = "halt"
        PROVE  \/ q \in Listing(hProcs') \/ haltTokens'[q] = 1
               \/ \E u \in IdleThreads : chosen'[u] = q
    BY <1>0, <1>1, <2>1, <2>2, <2>3, <2>8 DEF IdleWakes
  <2> QED BY <2>5, <2>6, <2>7, <2>8 DEF IdleWakes
<1>8. IdleCounts'
  <2>0. H!HandedOver' = H!HandedOver \ {p} /\ p \in H!HandedOver
    BY <1>0, <1>1, <1>3 DEF H!HandedOver, IdleTypes
  <2>1. Cardinality(H!HandedOver') = Cardinality(H!HandedOver) + (-1)
    BY <2>0, CountsAre, FS_RemoveElement
  <2>2. /\ Cardinality(hReady') = Cardinality(hReady) + 0
        /\ Len(hFreds') = Len(hFreds) + 0
        /\ fredCounter' = fredCounter + 0
        /\ hFreds' # <<>> => hProcs' = <<>>
    BY <1>1, CountsAre DEF IdleInv, IdleCounts
  <2>3. CountsStep(p, "run", 0, 0, -1, 0)
    BY <1>0, <1>1, <2>1, <2>2 DEF CountsStep, IdleTypes, One, Above, Below, Bringing, Handing
  <2> QED BY <1>0, <1>1, <2>3, SmallInts, CountsMove, Zenon
<1>9. IdlePlaces'
  <2>0. /\ running \in [Consumers -> Freds \cup {Null}] /\ Null \notin Freds
        /\ haltTokens \in [Consumers -> {0, 1}]
    BY <1>0, IdleFacts DEF IdleTypes
  <2>1. ASSUME NEW g \in Freds, g # f, NEW y PROVE FredIn(g, y)' <=> FredIn(g, y)
    BY <1>1, <1>2, <1>3, <1>4, <1>a, <2>0, <2>1 DEF FredIn
  <2>2. FredIn(f, <<"handed", p>>) /\ FredIn(f, <<"running", p>>)'
    BY <1>2, <1>4, <1>a, <2>0 DEF FredIn
  <2>3. ASSUME NEW y, FredIn(f, y)', y # <<"running", p>>
        PROVE  FredIn(f, y) /\ y # <<"handed", p>>
    BY <1>1, <1>2, <1>3, <1>4, <1>a, <2>0, <2>3 DEF FredIn
  <2>4. \A g \in Freds : FredOnePlace(g)'
    BY <1>0, <2>1, <2>2, <2>3, PlaceKept, PlaceMoved DEF IdlePlaces
  <2> QED BY <1>0, <1>1, <2>4 DEF IdlePlaces
<1> QED BY <1>5, <1>6, <1>7, <1>8, <1>9 DEF IdleInv

\* yield() moves two freds at once.
LEMMA YieldInvIdle ==
  ASSUME IdleInv, NEW p \in Consumers, H!Yield(p)
  PROVE  IdleInv'
<1>0. IdleTypes /\ IdleHands /\ IdleWakes /\ IdlePlaces /\ p \in IdleThreads
  BY IdleFacts DEF IdleInv
<1>1. PICK f \in hReady :
        /\ step[p] = "run" /\ running[p] # Null
        /\ carried' = [carried EXCEPT ![p] = running[p]]
        /\ running' = [running EXCEPT ![p] = f] /\ hReady' = hReady \ {f}
        /\ step' = [step EXCEPT ![p] = "yielded"]
        /\ UNCHANGED <<fredCounter, hProcs, hFreds, hParked, seenCount, chosen, handoverFred,
                       haltTokens>>
  BY DEF H!Yield, H!Goto, H!listVars, H!wakeVars
<1>2. PICK e \in Freds : e = running[p]
  BY <1>0, <1>1 DEF IdleTypes
<1>3. e # f /\ f \in Freds
  <2>1. FredIn(e, <<"running", p>>) /\ (e \in hReady => FredIn(e, <<"ready", Null>>))
    BY <1>2 DEF FredIn
  <2>2. <<"running", p>> # <<"ready", Null>>
    OBVIOUS
  <2>3. e \notin hReady
    BY <2>1, <2>2, OnePlaceOnly
  <2> QED BY <1>0, <1>1, <2>3 DEF IdleTypes
<1>a. /\ IsFiniteSet(hReady') /\ Cardinality(hReady') = Cardinality(hReady) + (-1)
      /\ carried' = [carried EXCEPT ![p] = e] /\ carried[p] = Null /\ e # Null /\ f # Null
  BY <1>0, <1>1, <1>2, <1>3, IdleFacts, FS_RemoveElement DEF IdleTypes, IdleHands, Bringing, Handing
<1>4. IdleTypes'
  BY <1>0, <1>1, <1>3, <1>a DEF IdleTypes, Bringing, Handing, Fredless
<1>5. IdleHands'
  BY <1>0, <1>1, <1>3, <1>a, IdleFacts DEF IdleTypes, IdleHands, Bringing, Handing, Fredless
<1>6. IdleWakes'
  BY <1>0, <1>1, WakesQuiet
<1>7. IdleCounts'
  <2>1. /\ Len(hFreds') = Len(hFreds) + 0
        /\ Cardinality(H!HandedOver') = Cardinality(H!HandedOver) + 0
        /\ fredCounter' = fredCounter + 0
        /\ hFreds' # <<>> => hProcs' = <<>>
    BY <1>1, CountsAre DEF H!HandedOver, IdleInv, IdleCounts
  <2>2. CountsStep(p, "yielded", -1, 0, 0, 0)
    BY <1>0, <1>1, <1>a, <2>1 DEF CountsStep, IdleTypes, One, Above, Below, Bringing, Handing
  <2> QED BY <1>0, <1>1, <2>2, SmallInts, CountsMove, Zenon
<1>8. IdlePlaces'
  <2>0. /\ running \in [Consumers -> Freds \cup {Null}] /\ Null \notin Freds
        /\ carried \in [IdleThreads -> Freds \cup {Null}]
    BY <1>0, IdleFacts DEF IdleTypes
  <2>1. ASSUME NEW g \in Freds, g # f, g # e, NEW y PROVE FredIn(g, y)' <=> FredIn(g, y)
    BY <1>1, <1>2, <1>a, <2>0, <2>1 DEF FredIn
  <2>2. FredIn(f, <<"ready", Null>>) /\ FredIn(f, <<"running", p>>)'
    BY <1>1, <1>3, <2>0 DEF FredIn
  <2>3. ASSUME NEW y, FredIn(f, y)', y # <<"running", p>>
        PROVE  FredIn(f, y) /\ y # <<"ready", Null>>
    BY <1>1, <1>2, <1>3, <1>a, <2>0, <2>3 DEF FredIn
  <2>4. FredIn(e, <<"running", p>>) /\ FredIn(e, <<"carried", p>>)'
    BY <1>0, <1>1, <1>2, <1>a, <2>0 DEF FredIn
  <2>5. ASSUME NEW y, FredIn(e, y)', y # <<"carried", p>>
        PROVE  FredIn(e, y) /\ y # <<"running", p>>
    BY <1>1, <1>2, <1>3, <1>a, <2>0, <2>5 DEF FredIn
  <2>6. FredOnePlace(f)' /\ FredOnePlace(e)'
    BY <1>0, <1>2, <1>3, <2>2, <2>3, <2>4, <2>5, PlaceMoved DEF IdlePlaces
  <2>7. \A g \in Freds : FredOnePlace(g)'
    BY <1>0, <2>1, <2>6, PlaceKept DEF IdlePlaces
  <2> QED BY <1>0, <1>1, <2>7 DEF IdlePlaces
<1> QED BY <1>4, <1>5, <1>6, <1>7, <1>8 DEF IdleInv

LEMMA IdleInitInv == H!IdleInit => IdleInv
<1> SUFFICES ASSUME H!IdleInit PROVE IdleInv
  OBVIOUS
<1>1. /\ fredCounter = 0 /\ hProcs = <<>> /\ hFreds = <<>> /\ hReady = {} /\ hParked = Freds
      /\ running = [p \in Consumers |-> Null]
      /\ step = [t \in IdleThreads |-> IF t \in Consumers THEN "spin" ELSE "run"]
      /\ seenCount = [p \in Consumers |-> 0]
      /\ carried = [t \in IdleThreads |-> Null] /\ chosen = [t \in IdleThreads |-> Null]
      /\ handoverFred = [p \in Consumers |-> Null] /\ haltTokens = [p \in Consumers |-> 0]
  BY DEF H!IdleInit, H!Threads, IdleThreads
<1>2. IdleTypes
  <2>1. IsFiniteSet(hReady)
    BY <1>1, FS_EmptySet
  <2> QED BY <1>1, <2>1 DEF IdleTypes, Bringing, Handing, Fredless
<1>3. IdleHands
  BY <1>1, IdleFacts DEF IdleHands, Bringing, Handing, Fredless
<1>4. Listing(hProcs) = {} /\ Listing(hFreds) = {} /\ Distinct(hProcs) /\ Distinct(hFreds)
  BY <1>1 DEF Listing, Distinct
<1>5. IdleWakes
  BY <1>1, <1>4, IdleFacts DEF IdleWakes
<1>6. IdleCounts
  <2>1. /\ ThreadsAt(Bringing) = {} /\ ThreadsAt(Handing) = {} /\ ThreadsAt({"search"}) = {}
        /\ ThreadsAt({"block", "halt"}) = {} /\ H!HandedOver = {}
    BY <1>1 DEF ThreadsAt, Bringing, Handing, H!HandedOver
  <2>2. /\ Cardinality(ThreadsAt(Bringing)) = 0 /\ Cardinality(ThreadsAt(Handing)) = 0
        /\ Cardinality(ThreadsAt({"search"})) = 0 /\ Cardinality(ThreadsAt({"block", "halt"})) = 0
        /\ Cardinality(H!HandedOver) = 0 /\ Cardinality(hReady) = 0
    BY <1>1, <2>1, FS_EmptySet
  <2>3. Len(hFreds) = 0 /\ Above(fredCounter) = 0 /\ Below(fredCounter) = 0
    BY <1>1 DEF Above, Below
  <2> QED BY <1>1, <2>2, <2>3 DEF IdleCounts
<1>7. IdlePlaces
  <2>1. ASSUME NEW f \in Freds, NEW y PROVE FredIn(f, y) <=> y = <<"parked", Null>>
    BY <1>1, <1>4, IdleFacts DEF FredIn
  <2> QED BY <1>4, <2>1 DEF IdlePlaces, FredOnePlace
<1> QED BY <1>2, <1>3, <1>5, <1>6, <1>7 DEF IdleInv

LEMMA IdleNextInv ==
  ASSUME IdleInv, H!IdleNext
  PROVE  IdleInv'
<1>0. Consumers \subseteq IdleThreads /\ H!Threads = IdleThreads
  BY IdleFacts DEF IdleThreads, H!Threads
<1>1. ASSUME NEW t \in IdleThreads, H!EnqueueFred(t) \/ H!EnqueueYield(t)
      PROVE  IdleInv'
  <2>1. /\ step[t] \in Bringing
        /\ hReady' = hReady \cup {carried[t]} /\ carried' = [carried EXCEPT ![t] = Null]
        /\ step' = [step EXCEPT ![t] = "run"]
        /\ UNCHANGED <<fredCounter, hProcs, hFreds, hParked, running, seenCount, chosen,
                       handoverFred, haltTokens>>
    BY <1>1 DEF H!EnqueueFred, H!EnqueueYield, H!Goto, H!listVars, H!wakeVars, Bringing
  <2> QED BY <2>1, BroughtInv
<1>2. CASE \E t \in IdleThreads :
             \/ \E f \in Freds : H!AddReadyFred(t, f)
             \/ H!EnqueueFred(t) \/ H!Unblock(t) \/ H!Wake(t)
  BY <1>1, <1>2, AddReadyFredInv, UnblockInvIdle, WakeInvIdle
<1>3. CASE \E p \in Consumers :
             \/ H!Suspend(p) \/ H!TryRead(p) \/ H!TryGetReadyFred(p) \/ H!GetReadyFred(p)
             \/ H!ScheduleBlocking(p) \/ H!Block(p) \/ H!Halt(p) \/ H!Yield(p) \/ H!EnqueueYield(p)
  BY <1>0, <1>1, <1>3, SuspendInvIdle, LookInv, ScheduleBlockingInv, BlockInvIdle, HaltInvIdle,
     YieldInvIdle
<1> QED BY <1>0, <1>2, <1>3 DEF H!IdleNext

---------------------------------------------------------------------------
(* What the invariant says.                                                 *)

LEMMA DisjointUnion ==
  ASSUME NEW X, NEW Y, IsFiniteSet(X), IsFiniteSet(Y), X \cap Y = {}
  PROVE  Cardinality(X \cup Y) = Cardinality(X) + Cardinality(Y)
<1>1. Cardinality(X \cup Y) = Cardinality(X) + Cardinality(Y) - 0
  BY FS_Union, FS_EmptySet
<1> QED BY <1>1, FS_CardinalityType

\* The counter, put together from its two sides.
LEMMA CounterExact ==
  ASSUME IdleInv
  PROVE  fredCounter = Cardinality(hReady) + Len(hFreds) + Cardinality(H!Carrying)
                         + Cardinality(H!HandedOver) - Cardinality(H!Committed)
<1>0. /\ IdleTypes /\ IdleHands /\ IdleCounts
      /\ Consumers \subseteq IdleThreads /\ H!Threads = IdleThreads
  BY IdleFacts DEF IdleInv, IdleThreads, H!Threads
<1>1. ASSUME NEW labels PROVE IsFiniteSet(ThreadsAt(labels)) /\ Cardinality(ThreadsAt(labels)) \in Nat
  <2>1. IsFiniteSet(ThreadsAt(labels))
    BY IdleFacts, FS_Subset DEF ThreadsAt
  <2> QED BY <2>1, FS_CardinalityType
<1>2. Cardinality(H!Carrying) = Cardinality(ThreadsAt(Bringing)) + Cardinality(ThreadsAt(Handing))
  <2>1. H!Carrying = ThreadsAt(Bringing) \cup ThreadsAt(Handing)
        /\ ThreadsAt(Bringing) \cap ThreadsAt(Handing) = {}
    BY <1>0 DEF H!Carrying, ThreadsAt, IdleHands, Bringing, Handing
  <2> QED BY <1>1, <2>1, DisjointUnion
<1>3. Cardinality(H!Committed)
        = Cardinality(ThreadsAt({"search"})) + Cardinality(ThreadsAt({"block", "halt"}))
  <2>1. H!Committed = ThreadsAt({"search"}) \cup ThreadsAt({"block", "halt"})
        /\ ThreadsAt({"search"}) \cap ThreadsAt({"block", "halt"}) = {}
    BY <1>0 DEF H!Committed, ThreadsAt, IdleTypes, Fredless
  <2> QED BY <1>1, <2>1, DisjointUnion
<1>4. PICK r \in Nat, o \in Nat, m \in Nat, c \in Int :
        r = Cardinality(hReady) /\ o = Cardinality(H!HandedOver) /\ m = Len(hFreds) /\ c = fredCounter
  BY CountsAre
<1>5. PICK b \in Nat, s \in Nat, h \in Nat, w \in Nat :
        /\ b = Cardinality(ThreadsAt(Bringing)) /\ s = Cardinality(ThreadsAt({"search"}))
        /\ h = Cardinality(ThreadsAt(Handing)) /\ w = Cardinality(ThreadsAt({"block", "halt"}))
  BY <1>1
<1>6. r + b - s = Above(c) /\ h + m + o - w = Below(c)
  BY <1>0, <1>4, <1>5 DEF IdleCounts
<1>7. Above(c) \in Int /\ Below(c) \in Int /\ Above(c) + Below(c) = c
  BY DEF Above, Below
<1>8. PICK u \in Int, d \in Int : u = Above(c) /\ d = Below(c) /\ u + d = c
  BY <1>7
<1>9. c = r + m + (b + h) + o - (s + w)
  BY <1>6, <1>8
<1> QED BY <1>2, <1>3, <1>4, <1>5, <1>9

\* A set that holds nothing, or what is at one place.
LEMMA CountsNone ==
  ASSUME NEW X, \A a : a \notin X
  PROVE  Cardinality(X) = 0
<1>1. X = {}
  OBVIOUS
<1> QED BY <1>1, FS_EmptySet

LEMMA CountsOne ==
  ASSUME NEW X, NEW e, \A a : a \in X <=> a = e
  PROVE  Cardinality(X) = 1
<1>1. X = {e}
  OBVIOUS
<1> QED BY <1>1, FS_Singleton

\* Each of the sets that HandoverExact counts.
RunningFred(f) == {p \in Consumers : running[p] = f}
CarriedFred(f) == {t \in IdleThreads : carried[t] = f}
LeftAt(f)  == {i \in 1 .. Len(hFreds) : hFreds[i] = f}
HandedFred(f)  == {p \in H!HandedOver : handoverFred[p] = f}

LEMMA FredCounted ==
  ASSUME IdleInv, NEW f \in Freds
  PROVE  Cardinality(RunningFred(f)) + Cardinality(CarriedFred(f)) + Cardinality(hReady \cap {f})
           + Cardinality(hParked \cap {f}) + Cardinality(LeftAt(f)) + Cardinality(HandedFred(f)) = 1
<1>0. IdleTypes /\ IdlePlaces
  BY DEF IdleInv
<1>1. PICK x : \A y : FredIn(f, y) <=> y = x
  BY <1>0 DEF IdlePlaces, FredOnePlace
<1>2. /\ \A a : a \in RunningFred(f) <=> a \in Consumers /\ x = <<"running", a>>
      /\ \A a : a \in CarriedFred(f) <=> a \in IdleThreads /\ x = <<"carried", a>>
      /\ \A a : a \in hReady \cap {f} <=> a = f /\ x = <<"ready", Null>>
      /\ \A a : a \in hParked \cap {f} <=> a = f /\ x = <<"parked", Null>>
  <2>1. ASSUME NEW a PROVE a \in RunningFred(f) <=> a \in Consumers /\ x = <<"running", a>>
    <3>1. FredIn(f, <<"running", a>>) <=> a \in Consumers /\ running[a] = f
      BY DEF FredIn
    <3> QED BY <1>1, <3>1 DEF RunningFred
  <2>2. ASSUME NEW a PROVE a \in CarriedFred(f) <=> a \in IdleThreads /\ x = <<"carried", a>>
    <3>1. FredIn(f, <<"carried", a>>) <=> a \in IdleThreads /\ carried[a] = f
      BY DEF FredIn
    <3> QED BY <1>1, <3>1 DEF CarriedFred
  <2>3. FredIn(f, <<"ready", Null>>) <=> f \in hReady
    BY DEF FredIn
  <2>4. FredIn(f, <<"parked", Null>>) <=> f \in hParked
    BY DEF FredIn
  <2> QED BY <1>1, <2>1, <2>2, <2>3, <2>4
<1>3. /\ x # <<"left", Null>> => \A i : i \notin LeftAt(f)
      /\ x = <<"left", Null>> => \E e : \A i : i \in LeftAt(f) <=> i = e
  <2>1. FredIn(f, <<"left", Null>>) <=> f \in Listing(hFreds)
    BY DEF FredIn
  <2>2. f \in Listing(hFreds) <=> \E i \in 1 .. Len(hFreds) : hFreds[i] = f
    BY DEF Listing
  <2>3. \A i, j \in LeftAt(f) : i = j
    BY <1>0 DEF LeftAt, IdlePlaces, Distinct
  <2> QED BY <1>1, <2>1, <2>2, <2>3 DEF LeftAt
<1>4. \A a : a \in HandedFred(f) <=> a \in Consumers /\ x = <<"handed", a>>
  <2>1. ASSUME NEW a PROVE a \in HandedFred(f) <=> a \in Consumers /\ x = <<"handed", a>>
    <3>1. FredIn(f, <<"handed", a>>) <=> a \in Consumers /\ haltTokens[a] = 1 /\ handoverFred[a] = f
      BY DEF FredIn
    <3>2. a \in Consumers => (haltTokens[a] > 0 <=> haltTokens[a] = 1)
      <4>1. a \in Consumers => haltTokens[a] \in {0, 1}
        BY <1>0 DEF IdleTypes
      <4> QED BY <4>1
    <3> QED BY <1>1, <3>1, <3>2 DEF HandedFred, H!HandedOver
  <2> QED BY <2>1
<1>5. \/ \E a \in Consumers : x = <<"running", a>>
      \/ \E a \in IdleThreads : x = <<"carried", a>>
      \/ x = <<"ready", Null>> \/ x = <<"parked", Null>> \/ x = <<"left", Null>>
      \/ \E a \in Consumers : x = <<"handed", a>>
  <2>1. FredIn(f, x)
    BY <1>1
  <2> QED BY <2>1 DEF FredIn
<1>6. ASSUME NEW a \in Consumers, x = <<"running", a>>
      PROVE  /\ Cardinality(RunningFred(f)) = 1 /\ Cardinality(CarriedFred(f)) = 0
             /\ Cardinality(hReady \cap {f}) = 0 /\ Cardinality(hParked \cap {f}) = 0
             /\ Cardinality(LeftAt(f)) = 0 /\ Cardinality(HandedFred(f)) = 0
  <2>1. /\ \A e : e \in RunningFred(f) <=> e = a
        /\ \A e : e \notin CarriedFred(f) /\ e \notin hReady \cap {f} /\ e \notin hParked \cap {f}
        /\ \A e : e \notin LeftAt(f) /\ e \notin HandedFred(f)
    BY <1>2, <1>3, <1>4, <1>6
  <2>2. Cardinality(RunningFred(f)) = 1
    BY <2>1, CountsOne
  <2>3. /\ Cardinality(CarriedFred(f)) = 0
        /\ Cardinality(hReady \cap {f}) = 0
        /\ Cardinality(hParked \cap {f}) = 0
        /\ Cardinality(LeftAt(f)) = 0
        /\ Cardinality(HandedFred(f)) = 0
    BY <2>1, CountsNone
  <2> QED BY <2>2, <2>3
<1>7. ASSUME NEW a \in IdleThreads, x = <<"carried", a>>
      PROVE  /\ Cardinality(RunningFred(f)) = 0 /\ Cardinality(CarriedFred(f)) = 1
             /\ Cardinality(hReady \cap {f}) = 0 /\ Cardinality(hParked \cap {f}) = 0
             /\ Cardinality(LeftAt(f)) = 0 /\ Cardinality(HandedFred(f)) = 0
  <2>1. /\ \A e : e \in CarriedFred(f) <=> e = a
        /\ \A e : e \notin RunningFred(f) /\ e \notin hReady \cap {f} /\ e \notin hParked \cap {f}
        /\ \A e : e \notin LeftAt(f) /\ e \notin HandedFred(f)
    BY <1>2, <1>3, <1>4, <1>7
  <2>2. Cardinality(CarriedFred(f)) = 1
    BY <2>1, CountsOne
  <2>3. /\ Cardinality(RunningFred(f)) = 0
        /\ Cardinality(hReady \cap {f}) = 0
        /\ Cardinality(hParked \cap {f}) = 0
        /\ Cardinality(LeftAt(f)) = 0
        /\ Cardinality(HandedFred(f)) = 0
    BY <2>1, CountsNone
  <2> QED BY <2>2, <2>3
<1>8. ASSUME x = <<"ready", Null>>
      PROVE  /\ Cardinality(RunningFred(f)) = 0 /\ Cardinality(CarriedFred(f)) = 0
             /\ Cardinality(hReady \cap {f}) = 1 /\ Cardinality(hParked \cap {f}) = 0
             /\ Cardinality(LeftAt(f)) = 0 /\ Cardinality(HandedFred(f)) = 0
  <2>1. /\ \A e : e \in hReady \cap {f} <=> e = f
        /\ \A e : e \notin RunningFred(f) /\ e \notin CarriedFred(f) /\ e \notin hParked \cap {f}
        /\ \A e : e \notin LeftAt(f) /\ e \notin HandedFred(f)
    BY <1>2, <1>3, <1>4, <1>8
  <2>2. Cardinality(hReady \cap {f}) = 1
    BY <2>1, CountsOne
  <2>3. /\ Cardinality(RunningFred(f)) = 0
        /\ Cardinality(CarriedFred(f)) = 0
        /\ Cardinality(hParked \cap {f}) = 0
        /\ Cardinality(LeftAt(f)) = 0
        /\ Cardinality(HandedFred(f)) = 0
    BY <2>1, CountsNone
  <2> QED BY <2>2, <2>3
<1>9. ASSUME x = <<"parked", Null>>
      PROVE  /\ Cardinality(RunningFred(f)) = 0 /\ Cardinality(CarriedFred(f)) = 0
             /\ Cardinality(hReady \cap {f}) = 0 /\ Cardinality(hParked \cap {f}) = 1
             /\ Cardinality(LeftAt(f)) = 0 /\ Cardinality(HandedFred(f)) = 0
  <2>1. /\ \A e : e \in hParked \cap {f} <=> e = f
        /\ \A e : e \notin RunningFred(f) /\ e \notin CarriedFred(f) /\ e \notin hReady \cap {f}
        /\ \A e : e \notin LeftAt(f) /\ e \notin HandedFred(f)
    BY <1>2, <1>3, <1>4, <1>9
  <2>2. Cardinality(hParked \cap {f}) = 1
    BY <2>1, CountsOne
  <2>3. /\ Cardinality(RunningFred(f)) = 0
        /\ Cardinality(CarriedFred(f)) = 0
        /\ Cardinality(hReady \cap {f}) = 0
        /\ Cardinality(LeftAt(f)) = 0
        /\ Cardinality(HandedFred(f)) = 0
    BY <2>1, CountsNone
  <2> QED BY <2>2, <2>3
<1>10. ASSUME x = <<"left", Null>>
       PROVE  /\ Cardinality(RunningFred(f)) = 0 /\ Cardinality(CarriedFred(f)) = 0
              /\ Cardinality(hReady \cap {f}) = 0 /\ Cardinality(hParked \cap {f}) = 0
              /\ Cardinality(LeftAt(f)) = 1 /\ Cardinality(HandedFred(f)) = 0
  <2>1. /\ \E i : \A e : e \in LeftAt(f) <=> e = i
        /\ \A e : e \notin RunningFred(f) /\ e \notin CarriedFred(f) /\ e \notin hReady \cap {f}
        /\ \A e : e \notin hParked \cap {f} /\ e \notin HandedFred(f)
    BY <1>2, <1>3, <1>4, <1>10
  <2>2. Cardinality(LeftAt(f)) = 1
    BY <2>1, CountsOne
  <2>3. /\ Cardinality(RunningFred(f)) = 0
        /\ Cardinality(CarriedFred(f)) = 0
        /\ Cardinality(hReady \cap {f}) = 0
        /\ Cardinality(hParked \cap {f}) = 0
        /\ Cardinality(HandedFred(f)) = 0
    BY <2>1, CountsNone
  <2> QED BY <2>2, <2>3
<1>11. ASSUME NEW a \in Consumers, x = <<"handed", a>>
       PROVE  /\ Cardinality(RunningFred(f)) = 0 /\ Cardinality(CarriedFred(f)) = 0
              /\ Cardinality(hReady \cap {f}) = 0 /\ Cardinality(hParked \cap {f}) = 0
              /\ Cardinality(LeftAt(f)) = 0 /\ Cardinality(HandedFred(f)) = 1
  <2>1. /\ \A e : e \in HandedFred(f) <=> e = a
        /\ \A e : e \notin RunningFred(f) /\ e \notin CarriedFred(f) /\ e \notin hReady \cap {f}
        /\ \A e : e \notin hParked \cap {f} /\ e \notin LeftAt(f)
    BY <1>2, <1>3, <1>4, <1>11
  <2>2. Cardinality(HandedFred(f)) = 1
    BY <2>1, CountsOne
  <2>3. /\ Cardinality(RunningFred(f)) = 0
        /\ Cardinality(CarriedFred(f)) = 0
        /\ Cardinality(hReady \cap {f}) = 0
        /\ Cardinality(hParked \cap {f}) = 0
        /\ Cardinality(LeftAt(f)) = 0
    BY <2>1, CountsNone
  <2> QED BY <2>2, <2>3
<1> QED BY <1>5, <1>6, <1>7, <1>8, <1>9, <1>10, <1>11

\* One token or one waker for a processor that halts off the list.
LEMMA TokensCounted ==
  ASSUME IdleInv, NEW p \in Consumers
  PROVE  haltTokens[p] + Cardinality({t \in IdleThreads : chosen[t] = p})
           = IF step[p] = "halt" /\ p \notin Listing(hProcs) THEN 1 ELSE 0
<1>0. /\ IdleWakes /\ haltTokens[p] \in {0, 1} /\ p # Null /\ p \in IdleThreads
  BY IdleFacts DEF IdleInv, IdleTypes
<1>1. PICK X : X = {t \in IdleThreads : chosen[t] = p}
  OBVIOUS
<1>2. CASE \E t \in IdleThreads : chosen[t] = p
  <2>1. PICK t \in IdleThreads : chosen[t] = p
    BY <1>2
  <2>2. /\ step[p] = "halt" /\ haltTokens[p] = 0 /\ p \notin Listing(hProcs)
        /\ \A u \in IdleThreads : chosen[u] = p => u = t
    BY <1>0, <2>1 DEF IdleWakes
  <2>3. X = {t}
    BY <1>1, <2>1, <2>2
  <2>4. Cardinality(X) = 1
    BY <2>3, FS_Singleton
  <2> QED BY <1>1, <2>2, <2>4
<1>3. CASE ~ \E t \in IdleThreads : chosen[t] = p
  <2>1. Cardinality(X) = 0
    BY <1>1, <1>3, CountsNone
  <2>2. haltTokens[p] = 1 <=> step[p] = "halt" /\ p \notin Listing(hProcs)
    BY <1>0, <1>3 DEF IdleWakes
  <2> QED BY <1>0, <1>1, <2>1, <2>2
<1> QED BY <1>2, <1>3

\* A fred waits in the list only for a processor that is about to block.
LEMMA LeftForBlocker ==
  ASSUME IdleInv, hFreds # <<>>
  PROVE  hProcs = <<>> /\ \E p \in Consumers : step[p] = "block"
<1>0. /\ IdleTypes /\ IdleHands /\ IdleWakes /\ IdleCounts /\ hProcs = <<>>
      /\ Listing(hProcs) = {}
  BY DEF IdleInv, IdleCounts, Listing
<1> SUFFICES ASSUME \A p \in Consumers : step[p] # "block" PROVE FALSE
  BY <1>0
<1>1. /\ IsFiniteSet(ThreadsAt({"wake"})) /\ IsFiniteSet(ThreadsAt({"block", "halt"}))
      /\ IsFiniteSet(ThreadsAt(Handing))
  BY IdleFacts, FS_Subset DEF ThreadsAt
<1>2. PICK Woken : Woken = {chosen[t] : t \in ThreadsAt({"wake"})}
  OBVIOUS
<1>3. IsFiniteSet(Woken) /\ Cardinality(Woken) <= Cardinality(ThreadsAt({"wake"}))
  <2>1. PICK w : w = [t \in ThreadsAt({"wake"}) |-> chosen[t]]
    OBVIOUS
  <2>2. w \in Surjection(ThreadsAt({"wake"}), Woken)
    BY <1>2, <2>1 DEF Surjection
  <2> QED BY <1>1, <2>2, FS_Surjection
<1>4. ThreadsAt({"block", "halt"}) \subseteq H!HandedOver \cup Woken
  <2> SUFFICES ASSUME NEW p \in ThreadsAt({"block", "halt"}) PROVE p \in H!HandedOver \cup Woken
    OBVIOUS
  <2>1. p \in Consumers /\ step[p] = "halt"
    BY <1>0 DEF ThreadsAt, IdleTypes, Fredless
  <2>2. haltTokens[p] = 1 \/ \E t \in IdleThreads : chosen[t] = p
    BY <1>0, <2>1 DEF IdleWakes
  <2>3. CASE haltTokens[p] = 1
    BY <2>1, <2>3 DEF H!HandedOver
  <2>4. ASSUME NEW t \in IdleThreads, chosen[t] = p PROVE p \in Woken
    <3>1. step[t] = "wake"
      BY <1>0, <2>1, <2>4, IdleFacts DEF IdleHands
    <3> QED BY <1>2, <2>4, <3>1 DEF ThreadsAt
  <2> QED BY <2>2, <2>3, <2>4
<1>5. IsFiniteSet(H!HandedOver \cup Woken)
      /\ Cardinality(H!HandedOver \cup Woken)
           = Cardinality(H!HandedOver) + Cardinality(Woken) - Cardinality(H!HandedOver \cap Woken)
      /\ IsFiniteSet(H!HandedOver \cap Woken)
  BY <1>3, CountsAre, FS_Union, FS_Intersection
<1>6. Cardinality(ThreadsAt({"block", "halt"})) <= Cardinality(H!HandedOver \cup Woken)
  BY <1>4, <1>5, FS_Subset
<1>7. Cardinality(ThreadsAt({"wake"})) <= Cardinality(ThreadsAt(Handing))
  <2>1. ThreadsAt({"wake"}) \subseteq ThreadsAt(Handing)
    BY DEF ThreadsAt, Handing
  <2> QED BY <1>1, <2>1, FS_Subset
<1>8. PICK w \in Nat, o \in Nat, k \in Nat, i \in Nat, v \in Nat, h \in Nat, m \in Nat :
        /\ w = Cardinality(ThreadsAt({"block", "halt"})) /\ o = Cardinality(H!HandedOver)
        /\ k = Cardinality(Woken) /\ i = Cardinality(H!HandedOver \cap Woken)
        /\ v = Cardinality(ThreadsAt({"wake"})) /\ h = Cardinality(ThreadsAt(Handing))
        /\ m = Len(hFreds)
  <2>1. /\ Cardinality(ThreadsAt({"block", "halt"})) \in Nat /\ Cardinality(H!HandedOver) \in Nat
        /\ Cardinality(Woken) \in Nat /\ Cardinality(H!HandedOver \cap Woken) \in Nat
        /\ Cardinality(ThreadsAt({"wake"})) \in Nat /\ Cardinality(ThreadsAt(Handing)) \in Nat
        /\ Len(hFreds) \in Nat
    BY <1>1, <1>3, <1>5, CountsAre, FS_CardinalityType
  <2> QED BY <2>1
<1>9. m > 0
  BY <1>0, <1>8 DEF IdleTypes
<1>10. h + m + o - w = Below(fredCounter) /\ Below(fredCounter) \in Int /\ Below(fredCounter) <= 0
  BY <1>0, <1>8 DEF IdleCounts, IdleTypes, Below
<1>11. w <= o + k - i /\ k <= v /\ v <= h
  BY <1>3, <1>5, <1>6, <1>7, <1>8
<1>12. h + m + o - w <= 0
  BY <1>10
<1> QED BY <1>9, <1>11, <1>12

LEMMA IdleInvExact ==
  ASSUME IdleInv
  PROVE  H!HandoverExact
<1>0. H!Threads = IdleThreads /\ \A s : H!Listed(s) = Listing(s)
  BY DEF IdleThreads, H!Threads, H!Listed, Listing
<1>1. fredCounter = H!Cardinality(hReady) + Len(hFreds) + H!Cardinality(H!Carrying)
                      + H!Cardinality(H!HandedOver) - H!Cardinality(H!Committed)
  BY CounterExact, IdleCardinality
<1>2. ASSUME NEW f \in Freds
      PROVE  H!Cardinality({p \in Consumers : running[p] = f})
               + H!Cardinality({t \in H!Threads : carried[t] = f})
               + H!Cardinality(hReady \cap {f}) + H!Cardinality(hParked \cap {f})
               + H!Cardinality({i \in 1 .. Len(hFreds) : hFreds[i] = f})
               + H!Cardinality({p \in H!HandedOver : handoverFred[p] = f}) = 1
  BY <1>0, FredCounted, IdleCardinality DEF RunningFred, CarriedFred, LeftAt, HandedFred
<1>3. ASSUME NEW p \in Consumers
      PROVE  haltTokens[p] + H!Cardinality({t \in H!Threads : chosen[t] = p})
               = IF step[p] = "halt" /\ p \notin H!Listed(hProcs) THEN 1 ELSE 0
  BY <1>0, TokensCounted, IdleCardinality
<1>4. hFreds # <<>> => hProcs = <<>> /\ \E p \in Consumers : step[p] = "block"
  BY LeftForBlocker
<1> QED BY <1>1, <1>2, <1>3, <1>4 DEF H!HandoverExact

\* When all processors sleep in the list the counter is below zero, so that
\* its upper side is empty, and nobody is left to block.
LEMMA IdleInvNoFredLeft ==
  ASSUME IdleInv
  PROVE  H!NoFredLeft
<1> SUFFICES ASSUME Consumers \subseteq Listing(hProcs), H!Carrying = {}
             PROVE  hReady = {} /\ hFreds = <<>>
  BY DEF H!NoFredLeft, H!Listed, Listing
<1>0. IdleTypes /\ IdleHands /\ IdleWakes /\ IdleCounts /\ Consumers \subseteq IdleThreads
  BY IdleFacts DEF IdleInv
<1>1. \A p \in Consumers : step[p] = "halt" /\ haltTokens[p] = 0
  BY <1>0 DEF IdleWakes
<1>2. hFreds = <<>>
  BY <1>1, LeftForBlocker
<1>3. /\ ThreadsAt(Bringing) = {} /\ ThreadsAt(Handing) = {} /\ H!HandedOver = {}
      /\ ThreadsAt({"search"}) = {}
  <2>1. \A t \in IdleThreads : carried[t] = Null
    BY DEF H!Carrying, H!Threads, IdleThreads
  <2>2. \A t \in IdleThreads : step[t] \notin Bringing \cup Handing
    BY <1>0, <2>1 DEF IdleHands
  <2>3. \A t \in IdleThreads : step[t] # "search"
    BY <1>0, <1>1 DEF IdleTypes, Fredless
  <2> QED BY <1>1, <2>2, <2>3 DEF ThreadsAt, H!HandedOver
<1>4. /\ Cardinality(ThreadsAt(Bringing)) = 0 /\ Cardinality(ThreadsAt(Handing)) = 0
      /\ Cardinality(H!HandedOver) = 0 /\ Cardinality(ThreadsAt({"search"})) = 0
  BY <1>3, FS_EmptySet
<1>5. Cardinality(ThreadsAt({"block", "halt"})) \in Nat \ {0}
  <2>1. ThreadsAt({"block", "halt"}) # {}
    BY <1>0, <1>1, IdleFacts DEF ThreadsAt
  <2>2. IsFiniteSet(ThreadsAt({"block", "halt"}))
    BY IdleFacts, FS_Subset DEF ThreadsAt
  <2> QED BY <2>1, <2>2, FS_CardinalityType, FS_EmptySet
<1>6. fredCounter < 0
  <2>1. Len(hFreds) = 0 /\ fredCounter \in Int
    BY <1>0, <1>2 DEF IdleTypes
  <2>2. 0 + 0 + 0 - Cardinality(ThreadsAt({"block", "halt"})) = Below(fredCounter)
    BY <1>0, <1>4, <2>1 DEF IdleCounts
  <2> QED BY <1>5, <2>1, <2>2 DEF Below
<1>7. Cardinality(hReady) = 0
  <2>1. Cardinality(hReady) \in Nat /\ fredCounter \in Int
    BY CountsAre
  <2>2. Cardinality(hReady) + 0 - 0 = Above(fredCounter)
    BY <1>0, <1>4 DEF IdleCounts
  <2> QED BY <1>6, <2>1, <2>2 DEF Above
<1>8. hReady = {}
  BY <1>7, CountsAre, FS_EmptySet
<1> QED BY <1>2, <1>8

---------------------------------------------------------------------------
(* A worker that halts in its own poller.                                   *)

Blocks == Freds \cup {Null}

\* A request is in one place of the ring: prepared, with the kernel, or
\* completed.
RingOnce ==
  /\ sq \in Seq(Blocks) /\ cq \in Seq(Blocks) /\ flight \subseteq Blocks
  /\ \A i, j \in DOMAIN sq : sq[i] = sq[j] => i = j
  /\ \A i, j \in DOMAIN cq : cq[i] = cq[j] => i = j
  /\ \A i \in DOMAIN sq : sq[i] \notin flight /\ \A j \in DOMAIN cq : sq[i] # cq[j]
  /\ \A j \in DOMAIN cq : cq[j] \notin flight

Prepared(b)  == \E i \in DOMAIN sq : sq[i] = b
Completed(b) == \E i \in DOMAIN cq : cq[i] = b
InRing(b)    == Prepared(b) \/ Completed(b) \/ b \in flight

WorkerTypes ==
  /\ haltKind \in {"uring", "epoll"}
  /\ pollType \in {"Poll", "Check", "Try", "Suspend"}
  /\ retcode \in [Freds -> {"none", "unset", "ok", "error"}]
  /\ waiting \subseteq Freds /\ submitter \in Blocks
  /\ listed \in BOOLEAN
  /\ haltFD \in {0, 1} /\ count \in {0, 1} /\ uWoken \in {0, 1} /\ haltSync \in {0, 1}

WorkerPlaces ==
  /\ haltKind = "uring" => uAt \in {"sched", "halt", "ring", "wait", "peek", "done", "rearm", "flush"}
  /\ haltKind = "epoll" => uAt \in {"sched", "halt", "epoll", "tryblock"}
  /\ uAt \in {"ring", "epoll"} => pollType # "Check"
  /\ uAt = "wait" => pollType = "Suspend"
  /\ uAt = "tryblock" => pollType \in {"Try", "Suspend"}

\* The worker runs submit() and has a full batch.
Flushing == uAt = "flush" \/ (uAt \in {"peek", "done"} /\ pollType = "Check")

\* Who has a request in the ring, and how many are prepared.
WorkerRequests ==
  /\ \A f \in Freds : InRing(f) <=> f \in waiting \/ f = submitter
  /\ \A f \in Freds : retcode[f] = "unset" <=> f \in waiting \/ f = submitter
  /\ InRing(Null) <=> haltKind = "uring" /\ uWoken = 0
  /\ submitter \notin waiting
  /\ submitter # Null => Flushing /\ Prepared(submitter)
  /\ Len(sq) <= Batch /\ (~Flushing => Len(sq) < Batch)

\* The one wake-up of a halt: the idle manager has yet to send it, or it is in
\* the eventfd, among the completions, or counted.
WorkerTokens ==
  /\ haltFD + uWoken + (IF Completed(Null) THEN 1 ELSE 0) = IF W!Halting /\ ~listed THEN 1 ELSE 0
  /\ listed => W!Halting
  /\ uWoken = 1 \/ Completed(Null) => count = 1
  /\ uAt = "rearm" => uWoken = 1
  /\ haltSync = 1 => haltFD = 1
  /\ haltKind = "uring" => haltSync = 0
  /\ haltKind = "epoll" => uWoken = 0

WorkerInv == RingOnce /\ WorkerTypes /\ WorkerPlaces /\ WorkerRequests /\ WorkerTokens
---------------------------------------------------------------------------
(* The ring.                                                               *)

\* submitRing() moves requests from the queue to the kernel.
LEMMA RingSubmits ==
  ASSUME RingOnce, NEW n, W!submitRing(n), cq' = cq
  PROVE  /\ RingOnce'
         /\ \A b : InRing(b)' <=> InRing(b)
         /\ \A b : Completed(b)' <=> Completed(b)
         /\ Len(sq') < Len(sq)
<1>0. /\ sq \in Seq(Blocks) /\ n \in 1 .. Len(sq) /\ DOMAIN sq = 1 .. Len(sq)
      /\ sq' = SubSeq(sq, n + 1, Len(sq)) /\ flight' = flight \cup {sq[i] : i \in 1 .. n}
  BY DEF RingOnce, W!submitRing
<1>1. /\ sq' \in Seq(Blocks) /\ Len(sq') = Len(sq) - n /\ DOMAIN sq' = 1 .. (Len(sq) - n)
      /\ \A i \in DOMAIN sq' : sq'[i] = sq[i + n]
  BY <1>0, SMTT(40)
<1>9. PICK m \in Nat : m = Len(sq) /\ n \in 1 .. m /\ DOMAIN sq = 1 .. m /\ DOMAIN sq' = 1 .. (m - n)
                       /\ Len(sq') = m - n
  <2>1. Len(sq) \in Nat
    BY <1>0, SMTT(40)
  <2>2. /\ n \in 1 .. Len(sq) /\ DOMAIN sq = 1 .. Len(sq) /\ DOMAIN sq' = 1 .. (Len(sq) - n)
        /\ Len(sq') = Len(sq) - n
    BY <1>0, <1>1, ZenonT(40)
  <2> QED BY ONLY <2>1, <2>2, ZenonT(40)
<1>2. \A i \in DOMAIN sq' : i + n \in DOMAIN sq /\ i + n \notin 1 .. n
  <2>1. \A i \in 1 .. (m - n) : i + n \in 1 .. m /\ i + n \notin 1 .. n
    BY <1>9
  <2> QED BY <1>9, <2>1
<1>3. \A b : Prepared(b) <=> Prepared(b)' \/ \E i \in 1 .. n : sq[i] = b
  <2>1. \A b : Prepared(b)' => Prepared(b)
    BY <1>1, <1>2 DEF Prepared
  <2>2. \A b : (\E i \in 1 .. n : sq[i] = b) => Prepared(b)
    BY <1>0 DEF Prepared
  <2>3. ASSUME NEW b, Prepared(b) PROVE Prepared(b)' \/ \E j \in 1 .. n : sq[j] = b
    <3>0. PICK i \in DOMAIN sq : sq[i] = b
      BY <2>3 DEF Prepared
    <3>1. CASE i \in 1 .. n
      BY <3>0, <3>1
    <3>2. CASE i \notin 1 .. n
      <4>1. i - n \in 1 .. (m - n) /\ (i - n) + n = i
        BY <1>9, <3>2
      <4>2. sq'[i - n] = sq[i]
        BY <1>1, <1>9, <4>1
      <4> QED BY <1>9, <3>0, <4>1, <4>2 DEF Prepared
    <3> QED BY <3>1, <3>2
  <2> QED BY <2>1, <2>2, <2>3
<1>4. \A b : b \in flight' <=> b \in flight \/ \E i \in 1 .. n : sq[i] = b
  BY <1>0
<1>5. \A b : (Completed(b)' <=> Completed(b)) /\ (InRing(b)' <=> InRing(b))
  BY <1>3, <1>4 DEF Completed, InRing
<1>6. RingOnce'
  <2>1. flight' \subseteq Blocks
    <3>1. \A i \in 1 .. n : sq[i] \in Blocks
      BY <1>0
    <3> QED BY <1>4, <3>1 DEF RingOnce
  <2>2. \A i, j \in DOMAIN sq' : sq'[i] = sq'[j] => i = j
    <3>1. \A i, j \in DOMAIN sq' : sq'[i] = sq'[j] => i + n = j + n
      BY <1>1, <1>2 DEF RingOnce
    <3>2. \A i, j \in 1 .. (m - n) : i + n = j + n => i = j
      BY <1>9
    <3> QED BY <1>9, <3>1, <3>2
  <2>3. ASSUME NEW i \in DOMAIN sq' PROVE sq'[i] \notin flight' /\ \A j \in DOMAIN cq : sq'[i] # cq[j]
    <3>1. i + n \in DOMAIN sq /\ sq'[i] = sq[i + n]
      BY <1>1, <1>2
    <3>2. \A j \in 1 .. n : sq[j] # sq[i + n]
      <4>1. \A j \in 1 .. n : j \in DOMAIN sq /\ j # i + n
        BY <1>2, <1>9
      <4> QED BY <3>1, <4>1 DEF RingOnce
    <3> QED BY <1>4, <3>1, <3>2 DEF RingOnce
  <2>4. ASSUME NEW j \in DOMAIN cq PROVE cq[j] \notin flight'
    <3>1. \A i \in 1 .. n : i \in DOMAIN sq
      BY <1>9
    <3>2. cq[j] \notin flight /\ \A i \in DOMAIN sq : sq[i] # cq[j]
      BY DEF RingOnce
    <3> QED BY <1>4, <3>1, <3>2
  <2>5. cq' \in Seq(Blocks) /\ \A i, j \in DOMAIN cq' : cq'[i] = cq'[j] => i = j
    BY DEF RingOnce
  <2>6. /\ \A i \in DOMAIN sq' : sq'[i] \notin flight' /\ \A j \in DOMAIN cq' : sq'[i] # cq'[j]
        /\ \A j \in DOMAIN cq' : cq'[j] \notin flight'
    BY <2>3, <2>4
  <2>7. sq' \in Seq(Blocks)
    BY ONLY <1>1
  <2> QED BY ONLY <2>1, <2>2, <2>5, <2>6, <2>7 DEF RingOnce
<1>7. Len(sq') < Len(sq)
  BY ONLY <1>9
<1> QED BY <1>5, <1>6, <1>7

\* A request that is not in the ring is prepared.
LEMMA RingPrepares ==
  ASSUME RingOnce, NEW b \in Blocks, ~InRing(b), sq' = Append(sq, b), UNCHANGED <<flight, cq>>
  PROVE  /\ RingOnce' /\ Len(sq') = Len(sq) + 1
         /\ Prepared(b)'
         /\ \A c : InRing(c)' <=> InRing(c) \/ c = b
         /\ \A c : Completed(c)' <=> Completed(c)
<1>0. sq \in Seq(Blocks) /\ DOMAIN sq = 1 .. Len(sq) /\ Len(sq) \in Nat
  BY DEF RingOnce
<1>1. /\ sq' \in Seq(Blocks) /\ Len(sq') = Len(sq) + 1 /\ DOMAIN sq' = 1 .. (Len(sq) + 1)
      /\ sq'[Len(sq) + 1] = b /\ \A i \in DOMAIN sq : sq'[i] = sq[i]
  BY <1>0
<1>2. \A i \in DOMAIN sq' : i \in DOMAIN sq \/ i = Len(sq) + 1
  BY <1>0, <1>1
<1>3. \A i \in DOMAIN sq : i \in DOMAIN sq' /\ i # Len(sq) + 1
  BY <1>0, <1>1
<1>4. Len(sq) + 1 \in DOMAIN sq'
  BY <1>0, <1>1
<1>5. \A c : Prepared(c)' <=> Prepared(c) \/ c = b
  BY <1>1, <1>2, <1>3, <1>4 DEF Prepared
<1>6. RingOnce'
  BY <1>1, <1>2, <1>3 DEF RingOnce, InRing, Prepared, Completed
<1> QED BY <1>1, <1>5, <1>6 DEF InRing, Completed

\* Completions that are processed leave the ring.
LEMMA RingReaps ==
  ASSUME RingOnce, UNCHANGED <<sq, flight>>, cq' = <<>> \/ (cq # <<>> /\ cq' = Tail(cq)),
         NEW gone, gone = {b \in Blocks : Completed(b) /\ ~Completed(b)'}
  PROVE  /\ RingOnce'
         /\ \A b : Completed(b)' => Completed(b)
         /\ \A b : InRing(b)' <=> InRing(b) /\ b \notin gone
<1>0. cq \in Seq(Blocks)
  BY DEF RingOnce
<1>1. cq' \in Seq(Blocks) /\ (\A b : Completed(b)' => Completed(b)) /\ \A i, j \in DOMAIN cq' : cq'[i] = cq'[j] => i = j
  <2>1. CASE cq' = <<>>
    BY <2>1 DEF Completed
  <2>2. CASE cq # <<>> /\ cq' = Tail(cq)
    <3>1. PICK m \in Nat : m = Len(cq) /\ DOMAIN cq = 1 .. m /\ m >= 1
      BY <1>0, <2>2
    <3>2. cq' \in Seq(Blocks) /\ DOMAIN cq' = 1 .. (m - 1) /\ \A i \in 1 .. (m - 1) : cq'[i] = cq[i + 1]
      BY <1>0, <2>2, <3>1, SMTT(40)
    <3>3. \A i \in 1 .. (m - 1) : i + 1 \in 1 .. m
      BY <3>1
    <3>4. \A i, j \in 1 .. (m - 1) : i + 1 = j + 1 => i = j
      BY <3>1
    <3>5. \A b : Completed(b)' => Completed(b)
      BY <3>1, <3>2, <3>3 DEF Completed
    <3>6. \A i, j \in 1 .. (m - 1) : cq'[i] = cq'[j] => i + 1 = j + 1
      BY <3>1, <3>2, <3>3 DEF RingOnce
    <3> QED BY <3>2, <3>4, <3>5, <3>6, SMTT(40)
  <2> QED BY <2>1, <2>2
<1>2. \A b : Completed(b) => b \in Blocks
  BY <1>0 DEF Completed
<1>3. \A b : Completed(b) => ~Prepared(b) /\ b \notin flight
  BY DEF RingOnce, Completed, Prepared
<1>4. \A b : InRing(b)' <=> InRing(b) /\ b \notin gone
  BY <1>1, <1>2, <1>3 DEF InRing, Prepared
<1>5. RingOnce'
  <2>1. \A i \in DOMAIN cq' : ~Prepared(cq'[i]) /\ cq'[i] \notin flight
    <3>1. \A i \in DOMAIN cq' : \E j \in DOMAIN cq : cq[j] = cq'[i]
      BY <1>1 DEF Completed
    <3> QED BY <3>1 DEF RingOnce, Prepared
  <2> QED BY <1>1, <2>1 DEF RingOnce, Prepared
<1> QED BY <1>1, <1>4, <1>5

\* The kernel completes a request.
LEMMA RingCompletes ==
  ASSUME RingOnce, NEW b \in flight, flight' = flight \ {b}, cq' = Append(cq, b), sq' = sq
  PROVE  /\ RingOnce' /\ ~Completed(b)
         /\ \A c : Completed(c)' <=> Completed(c) \/ c = b
         /\ \A c : InRing(c)' <=> InRing(c)
         /\ \A c : Prepared(c)' <=> Prepared(c)
<1>0. cq \in Seq(Blocks) /\ DOMAIN cq = 1 .. Len(cq) /\ Len(cq) \in Nat /\ b \in Blocks
  BY DEF RingOnce
<1>1. /\ cq' \in Seq(Blocks) /\ DOMAIN cq' = 1 .. (Len(cq) + 1)
      /\ cq'[Len(cq) + 1] = b /\ \A i \in DOMAIN cq : cq'[i] = cq[i]
  BY <1>0
<1>2. \A i \in DOMAIN cq' : i \in DOMAIN cq \/ i = Len(cq) + 1
  BY <1>0, <1>1
<1>3. \A i \in DOMAIN cq : i \in DOMAIN cq' /\ i # Len(cq) + 1
  BY <1>0, <1>1
<1>4. Len(cq) + 1 \in DOMAIN cq'
  BY <1>0, <1>1
<1>5. \A c : Completed(c)' <=> Completed(c) \/ c = b
  BY <1>1, <1>2, <1>3, <1>4 DEF Completed
<1>6. ~Completed(b) /\ ~Prepared(b)
  BY DEF RingOnce, Completed, Prepared
<1>7. RingOnce'
  BY <1>1, <1>2, <1>3, <1>6 DEF RingOnce, Prepared, Completed
<1> QED BY <1>5, <1>6, <1>7 DEF InRing, Prepared
---------------------------------------------------------------------------
(* The steps of the worker, of the kernel, and of the wakers.               *)

LEMMA RingSame ==
  ASSUME RingOnce, UNCHANGED <<sq, flight, cq>>
  PROVE  /\ RingOnce'
         /\ \A b : (InRing(b)' <=> InRing(b)) /\ (Completed(b)' <=> Completed(b)) /\ (Prepared(b)' <=> Prepared(b))
  BY DEF RingOnce, InRing, Completed, Prepared

\* V(), and the steps that only move the worker on.
LEMMA QuietWorker ==
  ASSUME WorkerInv,
         \/ W!resume \/ W!poll \/ W!Halt \/ W!FlushCheck \/ W!RingReturn
         \/ W!EpollEvents \/ W!EpollHalted \/ W!EpollAgain
         \/ \E type \in {"Try", "Suspend"} : W!Suspend(type)
  PROVE  WorkerInv'
<1>0. UNCHANGED <<sq, flight, cq, retcode, waiting, submitter, haltKind>>
  BY DEF W!resume, W!poll, W!Halt, W!FlushCheck, W!RingReturn, W!EpollEvents, W!EpollHalted, W!EpollAgain,
     W!Suspend, W!ringVars, W!fibreVars, W!haltVars
<1>1. /\ RingOnce'
      /\ \A b : (InRing(b)' <=> InRing(b)) /\ (Completed(b)' <=> Completed(b)) /\ (Prepared(b)' <=> Prepared(b))
  BY <1>0, RingSame DEF WorkerInv
<1>2. /\ haltKind \in {"uring", "epoll"}
      /\ pollType \in {"Poll", "Check", "Try", "Suspend"}
      /\ retcode \in [Freds -> {"none", "unset", "ok", "error"}]
      /\ listed \in BOOLEAN
      /\ haltFD \in {0, 1} /\ count \in {0, 1} /\ uWoken \in {0, 1} /\ haltSync \in {0, 1}
  BY DEF WorkerInv, WorkerTypes
<1>3. CASE W!resume
  <2>1. /\ listed /\ listed' = FALSE /\ haltFD' = haltFD + 1
        /\ UNCHANGED <<uAt, pollType, count, uWoken, haltSync>>
    BY <1>3 DEF W!resume
  <2>2. W!Halting /\ (W!Halting' <=> W!Halting) /\ haltFD = 0 /\ uWoken = 0 /\ ~Completed(Null)
    BY <1>2, <2>1 DEF WorkerInv, WorkerTokens, W!Halting
  <2>3. WorkerTypes'
    <3>1. listed' = FALSE /\ haltFD' = 1
      BY <2>1, <2>2
    <3> QED BY <1>0, <2>1, <3>1 DEF WorkerInv, WorkerTypes
  <2>5. WorkerPlaces' /\ WorkerRequests'
    BY <1>0, <1>1, <2>1 DEF WorkerInv, WorkerPlaces, WorkerRequests, Flushing
  <2>4. WorkerTokens'
    BY <1>0, <1>1, <2>1, <2>2 DEF WorkerInv, WorkerTokens
  <2> QED BY <1>1, <2>3, <2>4, <2>5 DEF WorkerInv
<1>4. CASE W!poll
  <2>1. /\ uAt = "sched" /\ uAt' = IF haltKind = "uring" THEN "ring" ELSE "epoll"
        /\ pollType' = "Poll" /\ UNCHANGED <<listed, haltFD, count, uWoken, haltSync>>
    BY <1>4 DEF W!poll, W!Goto, W!PollStart, W!haltVars
  <2>2. ~W!Halting /\ ~W!Halting'
    BY <2>1 DEF W!Halting
  <2>3. WorkerTypes' /\ WorkerPlaces' /\ WorkerRequests'
    BY <1>0, <1>1, <1>2, <2>1 DEF WorkerInv, WorkerTypes, WorkerPlaces, WorkerRequests, Flushing
  <2>4. WorkerTokens'
    BY <1>0, <1>1, <2>1, <2>2 DEF WorkerInv, WorkerTokens
  <2> QED BY <1>1, <2>3, <2>4 DEF WorkerInv
<1>5. CASE W!Halt
  <2>1. /\ uAt = "sched" /\ uAt' = "halt" /\ listed' = TRUE
        /\ UNCHANGED <<pollType, haltFD, count, uWoken, haltSync>>
    BY <1>5 DEF W!Halt, W!Goto
  <2>2. ~W!Halting /\ W!Halting'
    BY <2>1 DEF W!Halting
  <2>3. WorkerTypes' /\ WorkerPlaces' /\ WorkerRequests'
    BY <1>0, <1>1, <2>1 DEF WorkerInv, WorkerTypes, WorkerPlaces, WorkerRequests, Flushing
  <2>4. WorkerTokens'
    BY <1>0, <1>1, <2>1, <2>2 DEF WorkerInv, WorkerTokens
  <2> QED BY <1>1, <2>3, <2>4 DEF WorkerInv
<1>6. CASE W!FlushCheck
  <2>1. /\ uAt = "flush" /\ uAt' = "peek" /\ pollType' = "Check"
        /\ UNCHANGED <<listed, haltFD, count, uWoken, haltSync>>
    BY <1>6 DEF W!FlushCheck, W!Goto, W!haltVars
  <2>2. ~W!Halting /\ ~W!Halting'
    BY <2>1 DEF W!Halting
  <2>3. WorkerTypes' /\ WorkerPlaces' /\ WorkerRequests'
    BY <1>0, <1>1, <2>1 DEF WorkerInv, WorkerTypes, WorkerPlaces, WorkerRequests, Flushing
  <2>4. WorkerTokens'
    BY <1>0, <1>1, <2>1, <2>2 DEF WorkerInv, WorkerTokens
  <2> QED BY <1>1, <2>3, <2>4 DEF WorkerInv
<1>7. CASE W!RingReturn
  <2>1. /\ uAt = "done"
        /\ pollType = "Poll" => uAt' = "sched"
        /\ pollType = "Check" => uAt' = "flush"
        /\ pollType \in {"Try", "Suspend"} => uAt' = IF uWoken = 1 THEN "rearm" ELSE IF pollType = "Try" THEN "halt" ELSE "ring"
        /\ uWoken' = IF pollType \in {"Poll", "Check"} THEN 0 ELSE uWoken
        /\ UNCHANGED <<pollType, listed, haltFD, count, haltSync>>
    BY <1>2, <1>7 DEF W!RingReturn, W!Goto
  <2>2. uWoken' = uWoken
    <3>1. CASE pollType \in {"Poll", "Check"}
      <4>1. ~W!Halting
        BY <2>1, <3>1 DEF W!Halting
      <4> QED BY <1>2, <2>1, <3>1, <4>1 DEF WorkerInv, WorkerTokens
    <3> QED BY <2>1, <3>1
  <2>3. W!Halting' <=> W!Halting
    <3>1. CASE pollType = "Poll"
      <4>1. uAt' = "sched" /\ pollType' = "Poll"
        BY <2>1, <3>1
      <4> QED BY <2>1, <3>1, <4>1 DEF W!Halting
    <3>2. CASE pollType = "Check"
      <4>1. uAt' = "flush" /\ pollType' = "Check"
        BY <2>1, <3>2
      <4> QED BY <2>1, <3>2, <4>1 DEF W!Halting
    <3>3. CASE pollType = "Try"
      BY <2>1, <3>3 DEF W!Halting
    <3>4. CASE pollType = "Suspend"
      BY <2>1, <3>4 DEF W!Halting
    <3> QED BY <1>2, <3>1, <3>2, <3>3, <3>4
  <2>4. WorkerTypes' /\ WorkerPlaces' /\ WorkerRequests'
    BY <1>0, <1>1, <1>2, <2>1, <2>2 DEF WorkerInv, WorkerTypes, WorkerPlaces, WorkerRequests, Flushing
  <2>5. WorkerTokens'
    BY <1>0, <1>1, <1>2, <2>1, <2>2, <2>3 DEF WorkerInv, WorkerTokens
  <2> QED BY <1>1, <2>4, <2>5 DEF WorkerInv
<1>8. CASE W!EpollEvents
  <2>1. /\ uAt = "epoll" /\ uAt' = IF pollType = "Poll" THEN "sched" ELSE "tryblock"
        /\ haltSync' = IF haltFD > 0 THEN 1 ELSE haltSync
        /\ UNCHANGED <<pollType, listed, haltFD, count, uWoken>>
    BY <1>8 DEF W!EpollEvents
  <2>2. W!Halting' <=> W!Halting
    BY <1>2, <2>1 DEF W!Halting, WorkerInv, WorkerPlaces
  <2>3. WorkerTypes' /\ WorkerPlaces' /\ WorkerRequests'
    BY <1>0, <1>1, <1>2, <2>1 DEF WorkerInv, WorkerTypes, WorkerPlaces, WorkerRequests, Flushing
  <2>4. WorkerTokens'
    BY <1>0, <1>1, <1>2, <2>1, <2>2 DEF WorkerInv, WorkerTokens, WorkerPlaces
  <2> QED BY <1>1, <2>3, <2>4 DEF WorkerInv
<1>9. CASE W!EpollHalted
  <2>1. /\ uAt = "tryblock" /\ uAt' = "sched" /\ haltSync = 1 /\ haltSync' = 0
        /\ count' = haltFD /\ haltFD' = 0 /\ UNCHANGED <<pollType, listed, uWoken>>
    BY <1>9 DEF W!EpollHalted, W!Goto
  <2>2. W!Halting /\ ~W!Halting'
    BY <2>1 DEF W!Halting
  <2>3. haltFD = 1 /\ uWoken = 0 /\ ~Completed(Null) /\ ~listed
    BY <1>2, <2>1, <2>2 DEF WorkerInv, WorkerTokens
  <2>4. WorkerTypes' /\ WorkerPlaces' /\ WorkerRequests'
    BY <1>0, <1>1, <1>2, <2>1 DEF WorkerInv, WorkerTypes, WorkerPlaces, WorkerRequests, Flushing
  <2>5. WorkerTokens'
    BY <1>0, <1>1, <2>1, <2>2, <2>3 DEF WorkerInv, WorkerTokens
  <2> QED BY <1>1, <2>4, <2>5 DEF WorkerInv
<1>10. CASE W!EpollAgain
  <2>1. /\ uAt = "tryblock" /\ uAt' = IF pollType = "Try" THEN "halt" ELSE "epoll"
        /\ UNCHANGED <<pollType, listed, haltFD, count, uWoken, haltSync>>
    BY <1>10 DEF W!EpollAgain, W!Goto, W!haltVars
  <2>2. W!Halting /\ W!Halting'
    BY <1>2, <2>1 DEF W!Halting, WorkerInv, WorkerPlaces
  <2>3. WorkerTypes' /\ WorkerPlaces' /\ WorkerRequests'
    BY <1>0, <1>1, <1>2, <2>1 DEF WorkerInv, WorkerTypes, WorkerPlaces, WorkerRequests, Flushing
  <2>4. WorkerTokens'
    BY <1>0, <1>1, <2>1, <2>2 DEF WorkerInv, WorkerTokens
  <2> QED BY <1>1, <2>3, <2>4 DEF WorkerInv
<1>11. ASSUME NEW type \in {"Try", "Suspend"}, W!Suspend(type) PROVE WorkerInv'
  <2>1. /\ uAt = "halt" /\ uAt' = IF haltKind = "uring" THEN "ring" ELSE "epoll"
        /\ pollType' = type /\ UNCHANGED <<listed, haltFD, count, uWoken, haltSync>>
    BY <1>11 DEF W!Suspend, W!Goto, W!PollStart, W!haltVars
  <2>2. W!Halting /\ W!Halting'
    BY <1>2, <2>1 DEF W!Halting
  <2>3. WorkerTypes' /\ WorkerPlaces' /\ WorkerRequests'
    BY <1>0, <1>1, <1>2, <2>1 DEF WorkerInv, WorkerTypes, WorkerPlaces, WorkerRequests, Flushing
  <2>4. WorkerTokens'
    BY <1>0, <1>1, <2>1, <2>2 DEF WorkerInv, WorkerTokens
  <2> QED BY <1>1, <2>3, <2>4 DEF WorkerInv
<1> QED BY <1>3, <1>4, <1>5, <1>6, <1>7, <1>8, <1>9, <1>10, <1>11

\* The kernel.
LEMMA CompleteWorker ==
  ASSUME WorkerInv, NEW b \in Freds \cup {Null}, W!Complete(b)
  PROVE  WorkerInv'
<1>0. /\ b \in flight /\ flight' = flight \ {b} /\ cq' = Append(cq, b)
      /\ UNCHANGED <<haltKind, uAt, pollType, sq, retcode, waiting, submitter, listed, uWoken, haltSync>>
      /\ IF b = Null THEN haltFD > 0 /\ count' = haltFD /\ haltFD' = 0 ELSE UNCHANGED <<count, haltFD>>
  BY DEF W!Complete, W!fibreVars
<1>1. /\ RingOnce' /\ ~Completed(b)
      /\ \A c : Completed(c)' <=> Completed(c) \/ c = b
      /\ \A c : InRing(c)' <=> InRing(c)
      /\ \A c : Prepared(c)' <=> Prepared(c)
  BY <1>0, RingCompletes DEF WorkerInv
<1>2. (W!Halting' <=> W!Halting) /\ (Flushing' <=> Flushing)
  BY <1>0 DEF W!Halting, Flushing
<1>3. haltFD \in {0, 1} /\ uWoken \in {0, 1} /\ count \in {0, 1} /\ haltKind \in {"uring", "epoll"}
  BY DEF WorkerInv, WorkerTypes
<1>4. WorkerTypes' /\ WorkerPlaces'
  BY <1>0, <1>3 DEF WorkerInv, WorkerTypes, WorkerPlaces
<1>5. WorkerRequests'
  BY <1>0, <1>1, <1>2 DEF WorkerInv, WorkerRequests
<1>6. CASE b = Null
  <2>1. InRing(Null)
    BY <1>0, <1>6 DEF InRing
  <2>2. haltKind = "uring" /\ haltSync = 0
    BY <2>1 DEF WorkerInv, WorkerRequests, WorkerTokens
  <2>3. haltFD = 1 /\ haltFD' = 0 /\ count' = 1 /\ ~Completed(Null) /\ Completed(Null)'
    BY <1>0, <1>1, <1>3, <1>6
  <2>4. WorkerTokens'
    BY <1>0, <1>2, <1>3, <2>2, <2>3 DEF WorkerInv, WorkerTokens
  <2> QED BY <1>1, <1>4, <1>5, <2>4 DEF WorkerInv
<1>7. CASE b # Null
  <2>1. UNCHANGED <<count, haltFD>> /\ (Completed(Null)' <=> Completed(Null))
    BY <1>0, <1>1, <1>7
  <2>2. WorkerTokens'
    BY <1>0, <1>2, <2>1 DEF WorkerInv, WorkerTokens
  <2> QED BY <1>1, <1>4, <1>5, <2>2 DEF WorkerInv
<1> QED BY <1>6, <1>7

\* Requests that are submitted.
LEMMA SubmitWorker ==
  ASSUME WorkerInv, W!RingSubmit \/ W!Flush
  PROVE  WorkerInv'
<1>0. UNCHANGED <<haltKind, pollType, cq, retcode, listed, haltFD, count, uWoken, haltSync>>
  BY DEF W!RingSubmit, W!Flush, W!fibreVars, W!haltVars
<1>1. (\E n \in 1 .. Len(sq) : W!submitRing(n)) \/ (W!RingSubmit /\ UNCHANGED <<sq, flight>>)
  BY DEF W!RingSubmit, W!Flush
<1>2. /\ RingOnce'
      /\ \A b : (InRing(b)' <=> InRing(b)) /\ (Completed(b)' <=> Completed(b))
      /\ Len(sq') < Len(sq) \/ sq' = sq
  <2>1. CASE \E n \in 1 .. Len(sq) : W!submitRing(n)
    BY <1>0, <2>1, RingSubmits DEF WorkerInv
  <2>2. CASE UNCHANGED <<sq, flight>>
    BY <1>0, <2>2, RingSame DEF WorkerInv
  <2> QED BY <1>1, <2>1, <2>2
<1>3. Len(sq) \in Nat /\ Len(sq') \in Nat /\ Batch \in Nat
  BY <1>2, BatchAssumption DEF WorkerInv, RingOnce
<1>4. /\ pollType \in {"Poll", "Check", "Try", "Suspend"} /\ haltKind \in {"uring", "epoll"}
      /\ submitter \in Blocks /\ waiting \subseteq Freds
  BY DEF WorkerInv, WorkerTypes
<1>5. CASE W!RingSubmit
  <2>1. /\ uAt = "ring" /\ uAt' = (IF pollType = "Suspend" THEN "wait" ELSE "peek") /\ pollType # "Check"
        /\ UNCHANGED <<waiting, submitter>>
    BY <1>5 DEF W!RingSubmit, W!Goto, W!fibreVars, WorkerInv, WorkerPlaces
  <2>2. W!Halting' <=> W!Halting
    BY <1>0, <1>4, <2>1 DEF W!Halting
  <2>3. ~Flushing /\ submitter = Null
    BY <2>1 DEF Flushing, WorkerInv, WorkerRequests
  <2>4. WorkerTypes' /\ WorkerPlaces'
    BY <1>0, <1>4, <2>1 DEF WorkerInv, WorkerTypes, WorkerPlaces
  <2>5. Len(sq') < Batch
    BY <1>2, <1>3, <2>3 DEF WorkerInv, WorkerRequests
  <2>6. WorkerRequests'
    BY <1>0, <1>2, <1>3, <2>1, <2>3, <2>5 DEF WorkerInv, WorkerRequests
  <2>7. WorkerTokens'
    BY <1>0, <1>2, <2>1, <2>2 DEF WorkerInv, WorkerTokens
  <2> QED BY <1>2, <2>4, <2>6, <2>7 DEF WorkerInv
<1>6. CASE W!Flush
  <2>1. /\ uAt = "flush" /\ uAt' = "sched"
        /\ waiting' = waiting \cup ({submitter} \cap Freds) /\ submitter' = Null
        /\ \E n \in 1 .. Len(sq) : W!submitRing(n)
    BY <1>6 DEF W!Flush, W!Goto
  <2>2. ~W!Halting' /\ ~W!Halting
    BY <2>1 DEF W!Halting
  <2>3. WorkerTypes' /\ WorkerPlaces'
    BY <1>0, <1>4, <2>1 DEF WorkerInv, WorkerTypes, WorkerPlaces, Blocks
  <2>4. Len(sq') < Len(sq)
    BY <1>0, <2>1, RingSubmits DEF WorkerInv
  <2>5. Len(sq') < Batch
    BY <1>3, <2>4 DEF WorkerInv, WorkerRequests
  <2>6. \A f \in Freds : f \in waiting' \/ f = submitter' <=> f \in waiting \/ f = submitter
    BY <2>1, FredAssumption
  <2>7. Null \notin waiting'
    BY <1>4, <2>1, FredAssumption
  <2>8. WorkerRequests'
    BY <1>0, <1>2, <1>3, <2>1, <2>5, <2>6, <2>7 DEF WorkerInv, WorkerRequests
  <2>9. WorkerTokens'
    BY <1>0, <1>2, <2>1, <2>2 DEF WorkerInv, WorkerTokens
  <2> QED BY <1>2, <2>3, <2>8, <2>9 DEF WorkerInv
<1> QED BY <1>5, <1>6

\* Requests that are prepared.
LEMMA PrepareWorker ==
  ASSUME WorkerInv, NEW b \in Blocks, W!Prepare(b), ~InRing(b), ~Flushing, uAt \in {"sched", "rearm"},
         UNCHANGED <<haltKind, pollType, flight, cq, listed, haltFD, count, haltSync>>,
         haltKind = "uring",
         \/ b \in Freds /\ retcode' = [retcode EXCEPT ![b] = "unset"] /\ uWoken' = uWoken /\ uAt = "sched"
         \/ b = Null /\ retcode' = retcode /\ uWoken' = 0 /\ uAt = "rearm"
  PROVE  WorkerInv'
<1>0. /\ sq' = Append(sq, b)
      /\ uAt' = IF Len(sq) + 1 < Batch THEN "sched" ELSE "flush"
      /\ waiting' = IF b \in Freds /\ Len(sq) + 1 < Batch THEN waiting \cup {b} ELSE waiting
      /\ submitter' = IF Len(sq) + 1 < Batch THEN Null ELSE b
  BY DEF W!Prepare
<1>1. /\ RingOnce' /\ Len(sq') = Len(sq) + 1
      /\ Prepared(b)'
      /\ \A c : InRing(c)' <=> InRing(c) \/ c = b
      /\ \A c : Completed(c)' <=> Completed(c)
  BY <1>0, RingPrepares DEF WorkerInv
<1>2. Len(sq) \in Nat /\ Batch \in Nat /\ Len(sq) < Batch
  BY BatchAssumption DEF WorkerInv, RingOnce, WorkerRequests
<1>3. b \notin waiting
  BY FredAssumption DEF WorkerInv, WorkerRequests, WorkerTypes
<1>4. submitter = Null /\ waiting \subseteq Freds /\ Null \notin Freds /\ uWoken \in {0, 1} /\ haltFD \in {0, 1}
  BY FredAssumption DEF WorkerInv, WorkerRequests, WorkerTypes
<1>5. WorkerTypes'
  BY <1>0, <1>4 DEF WorkerInv, WorkerTypes, Blocks
<1>6. WorkerPlaces'
  BY <1>0 DEF WorkerInv, WorkerPlaces
<1>7. WorkerRequests'
  <2>1. \A f \in Freds : f \in waiting' \/ f = submitter' <=> f \in waiting \/ f = submitter \/ f = b
    BY <1>0, <1>4
  <2>2. submitter' \notin waiting'
    BY <1>0, <1>3, <1>4
  <2>3. submitter' # Null => Flushing' /\ Prepared(submitter)'
    <3>1. CASE Len(sq) + 1 < Batch
      BY <1>0, <3>1
    <3>2. CASE ~(Len(sq) + 1 < Batch)
      <4>1. uAt' = "flush" /\ submitter' = b
        BY <1>0, <3>2
      <4> QED BY <1>1, <4>1 DEF Flushing, Prepared
    <3> QED BY <3>1, <3>2
  <2>4. Len(sq') <= Batch
    BY <1>1, <1>2
  <2>5. ~Flushing' => Len(sq') < Batch
    BY <1>0, <1>1 DEF Flushing
  <2>6. \A f \in Freds : retcode'[f] = "unset" <=> f \in waiting' \/ f = submitter'
    <3>1. retcode \in [Freds -> {"none", "unset", "ok", "error"}]
      BY DEF WorkerInv, WorkerTypes
    <3>2. \A f \in Freds : retcode'[f] = "unset" <=> retcode[f] = "unset" \/ f = b
      BY <1>4, <3>1
    <3> QED BY <2>1, <3>2 DEF WorkerInv, WorkerRequests
  <2>7. \A f \in Freds : InRing(f)' <=> f \in waiting' \/ f = submitter'
    BY <1>1, <2>1 DEF WorkerInv, WorkerRequests
  <2>8. InRing(Null)' <=> haltKind' = "uring" /\ uWoken' = 0
    BY <1>1, <1>4 DEF WorkerInv, WorkerRequests
  <2> QED BY <2>2, <2>3, <2>4, <2>5, <2>6, <2>7, <2>8 DEF WorkerRequests
<1>8. WorkerTokens'
  <2>1. ~W!Halting'
    BY <1>0 DEF W!Halting
  <2>2. CASE uAt = "sched"
    <3>1. ~W!Halting /\ uWoken' = uWoken
      BY <2>2 DEF W!Halting
    <3> QED BY <1>0, <1>1, <2>1, <2>2, <3>1 DEF WorkerInv, WorkerTokens
  <2>3. CASE uAt = "rearm"
    <3>1. W!Halting /\ uWoken = 1 /\ uWoken' = 0
      BY <2>3 DEF W!Halting, WorkerInv, WorkerTokens
    <3>2. haltFD = 0 /\ ~Completed(Null) /\ ~listed
      BY <1>4, <3>1 DEF WorkerInv, WorkerTokens
    <3> QED BY <1>0, <1>1, <2>1, <3>1, <3>2 DEF WorkerInv, WorkerTokens
  <2> QED BY <2>2, <2>3
<1> QED BY <1>1, <1>5, <1>6, <1>7, <1>8 DEF WorkerInv

LEMMA SyncWorker ==
  ASSUME WorkerInv, W!Rearm \/ \E f \in Freds : W!syncIO(f) \/ W!syncIOReturn(f)
  PROVE  WorkerInv'
<1>1. CASE W!Rearm
  <2>1. /\ uAt = "rearm" /\ W!Prepare(Null) /\ uWoken' = 0
        /\ UNCHANGED <<haltKind, pollType, flight, cq, retcode, listed, haltFD, count, haltSync>>
    BY <1>1 DEF W!Rearm
  <2>2. uWoken = 1 /\ haltKind = "uring" /\ ~Flushing
    BY <2>1 DEF WorkerInv, WorkerTokens, WorkerPlaces, WorkerTypes, Flushing
  <2>3. ~InRing(Null) /\ Null \in Blocks
    BY <2>2 DEF WorkerInv, WorkerRequests, Blocks
  <2> QED BY <2>1, <2>2, <2>3, PrepareWorker
<1>2. ASSUME NEW f \in Freds, W!syncIO(f) PROVE WorkerInv'
  <2>1. /\ uAt = "sched" /\ haltKind = "uring" /\ W!Prepare(f) /\ retcode' = [retcode EXCEPT ![f] = "unset"]
        /\ f \notin waiting
        /\ UNCHANGED <<haltKind, pollType, flight, cq, listed, haltFD, count, uWoken, haltSync>>
    BY <1>2 DEF W!syncIO, W!haltVars
  <2>2. ~Flushing /\ f \in Blocks /\ submitter = Null
    BY <2>1 DEF Flushing, Blocks, WorkerInv, WorkerRequests
  <2>3. ~InRing(f)
    BY <2>1, <2>2, FredAssumption DEF WorkerInv, WorkerRequests
  <2> QED BY <2>1, <2>2, <2>3, PrepareWorker
<1>3. ASSUME NEW f \in Freds, W!syncIOReturn(f) PROVE WorkerInv'
  <2>1. /\ uAt = "sched" /\ f \notin waiting /\ retcode' = [retcode EXCEPT ![f] = "none"]
        /\ UNCHANGED <<haltKind, uAt, pollType, sq, flight, cq, waiting, submitter, listed, haltFD, count, uWoken,
                       haltSync>>
    BY <1>3 DEF W!syncIOReturn, W!ringVars, W!haltVars
  <2>2. /\ RingOnce'
        /\ \A b : (InRing(b)' <=> InRing(b)) /\ (Completed(b)' <=> Completed(b)) /\ (Prepared(b)' <=> Prepared(b))
    BY <2>1, RingSame DEF WorkerInv
  <2>3. submitter # f
    BY <2>1, FredAssumption DEF WorkerInv, WorkerRequests, Flushing
  <2>4. retcode' \in [Freds -> {"none", "unset", "ok", "error"}]
        /\ \A g \in Freds : retcode'[g] = "unset" <=> retcode[g] = "unset" /\ g # f
    BY <2>1 DEF WorkerInv, WorkerTypes
  <2>5. WorkerTypes' /\ WorkerPlaces'
    BY <2>1, <2>4 DEF WorkerInv, WorkerTypes, WorkerPlaces
  <2>6. WorkerRequests'
    BY <2>1, <2>2, <2>3, <2>4 DEF WorkerInv, WorkerRequests, Flushing
  <2>7. WorkerTokens'
    BY <2>1, <2>2 DEF WorkerInv, WorkerTokens, W!Halting
  <2> QED BY <2>2, <2>5, <2>6, <2>7 DEF WorkerInv
<1> QED BY <1>1, <1>2, <1>3

\* Completions that are processed: what leaves the ring is accounted for.
LEMMA ReapWorker ==
  ASSUME WorkerInv, NEW reaped, W!processCQE(reaped), cq' = <<>> \/ (cq # <<>> /\ cq' = Tail(cq)),
         \A b \in Blocks : b \in W!ToSet(reaped) <=> Completed(b) /\ ~Completed(b)',
         (uAt = "wait" /\ uAt' = "peek") \/ (uAt = "peek" /\ uAt' = "done"),
         UNCHANGED <<haltKind, pollType, sq, flight, submitter, listed, haltFD, count, haltSync>>
  PROVE  WorkerInv'
<1>0. /\ Null \notin Freds /\ Null \in Blocks /\ Freds \subseteq Blocks
      /\ haltKind = "uring" /\ uWoken \in {0, 1} /\ haltFD \in {0, 1}
      /\ retcode \in [Freds -> {"none", "unset", "ok", "error"}]
  BY FredAssumption DEF Blocks, WorkerInv, WorkerTypes, WorkerPlaces
<1>1. PICK gone \in SUBSET Blocks : gone = {b \in Blocks : Completed(b) /\ ~Completed(b)'}
  OBVIOUS
<1>2. /\ RingOnce'
      /\ \A b : Completed(b)' => Completed(b)
      /\ \A b : InRing(b)' <=> InRing(b) /\ b \notin gone
  BY <1>1, RingReaps DEF WorkerInv
<1>3. /\ waiting' = waiting \ (gone \cap Freds)
      /\ uWoken' = IF Null \in gone THEN uWoken + 1 ELSE uWoken
      /\ \E res \in [gone \cap Freds -> {"ok", "error"}] :
           retcode' = [f \in Freds |-> IF f \in gone \cap Freds THEN res[f] ELSE retcode[f]]
  <2>1. W!ToSet(reaped) \cap Freds = gone \cap Freds /\ (Null \in W!ToSet(reaped) <=> Null \in gone)
    BY <1>0, <1>1
  <2> QED BY <2>1 DEF W!processCQE
<1>4. \A f \in Freds : f \in gone => f \in waiting
  <2>1. ASSUME NEW f \in Freds, f \in gone PROVE f \in waiting
    <3>1. Completed(f) /\ ~Prepared(f)
      BY <1>1, <2>1 DEF WorkerInv, RingOnce, Completed, Prepared
    <3>2. InRing(f)
      BY <3>1 DEF InRing
    <3> QED BY <1>0, <3>1, <3>2 DEF WorkerInv, WorkerRequests
  <2> QED BY <2>1
<1>5. \A f \in Freds : f \in waiting' \/ f = submitter <=> (f \in waiting \/ f = submitter) /\ f \notin gone
  BY <1>3, <1>4 DEF WorkerInv, WorkerRequests
<1>6. /\ retcode' \in [Freds -> {"none", "unset", "ok", "error"}]
      /\ \A f \in Freds : retcode'[f] = "unset" <=> retcode[f] = "unset" /\ f \notin gone
  BY <1>0, <1>3
<1>7. (Null \in gone => uWoken = 0 /\ uWoken' = 1 /\ count = 1 /\ haltFD = 0)
  <2>1. Null \in gone => Completed(Null)
    BY <1>1
  <2> QED BY <1>0, <1>3, <2>1 DEF WorkerInv, WorkerTokens
<1>8. (W!Halting' <=> W!Halting) /\ (Flushing' <=> Flushing)
  BY DEF W!Halting, Flushing, WorkerInv, WorkerPlaces
<1>9. Null \notin gone => uWoken' = uWoken /\ (Completed(Null)' <=> Completed(Null))
  BY <1>0, <1>1, <1>2, <1>3
<1>10. Null \in gone => Completed(Null) /\ ~Completed(Null)'
  BY <1>1
<1>11. WorkerTypes' /\ WorkerPlaces'
  <2>1. uWoken' \in {0, 1} /\ waiting' \subseteq Freds
    BY <1>0, <1>3, <1>7, <1>9 DEF WorkerInv, WorkerTypes
  <2> QED BY <1>6, <2>1 DEF WorkerInv, WorkerTypes, WorkerPlaces
<1>12. WorkerRequests'
  <2>1. \A f \in Freds : InRing(f)' <=> f \in waiting' \/ f = submitter
    BY <1>2, <1>5 DEF WorkerInv, WorkerRequests
  <2>2. \A f \in Freds : retcode'[f] = "unset" <=> f \in waiting' \/ f = submitter
    BY <1>5, <1>6 DEF WorkerInv, WorkerRequests
  <2>3. InRing(Null)' <=> haltKind = "uring" /\ uWoken' = 0
    BY <1>0, <1>2, <1>7, <1>9 DEF WorkerInv, WorkerRequests
  <2>4. submitter \notin waiting'
    BY <1>3 DEF WorkerInv, WorkerRequests
  <2>5. Prepared(submitter)' <=> Prepared(submitter)
    BY DEF Prepared
  <2> QED BY <1>8, <2>1, <2>2, <2>3, <2>4, <2>5 DEF WorkerInv, WorkerRequests
<1>13. WorkerTokens'
  <2>1. CASE Null \in gone
    BY <1>0, <1>7, <1>8, <1>10, <2>1 DEF WorkerInv, WorkerTokens
  <2>2. CASE Null \notin gone
    BY <1>0, <1>8, <1>9, <2>2 DEF WorkerInv, WorkerTokens
  <2> QED BY <2>1, <2>2
<1> QED BY <1>2, <1>11, <1>12, <1>13 DEF WorkerInv

LEMMA PollWorker ==
  ASSUME WorkerInv, W!RingWait \/ W!RingPeek
  PROVE  WorkerInv'
<1>0. cq \in Seq(Blocks)
  BY DEF WorkerInv, RingOnce
<1>1. CASE W!RingPeek
  <2>1. /\ uAt = "peek" /\ uAt' = "done" /\ W!processCQE(cq) /\ cq' = <<>>
        /\ UNCHANGED <<haltKind, pollType, sq, flight, submitter, listed, haltFD, count, haltSync>>
    BY <1>1 DEF W!RingPeek, W!Goto
  <2>2. \A b \in Blocks : b \in W!ToSet(cq) <=> Completed(b) /\ ~Completed(b)'
    BY <2>1 DEF W!ToSet, Completed
  <2> QED BY <2>1, <2>2, ReapWorker
<1>2. CASE W!RingWait
  <2>1. /\ uAt = "wait" /\ uAt' = "peek" /\ cq # <<>> /\ W!processCQE(<<Head(cq)>>) /\ cq' = Tail(cq)
        /\ UNCHANGED <<haltKind, pollType, sq, flight, submitter, listed, haltFD, count, haltSync>>
    BY <1>2 DEF W!RingWait, W!Goto
  <2>2. PICK m \in Nat : m = Len(cq) /\ DOMAIN cq = 1 .. m /\ m >= 1
    BY <1>0, <2>1
  <2>3. /\ cq' \in Seq(Blocks) /\ DOMAIN cq' = 1 .. (m - 1) /\ \A i \in 1 .. (m - 1) : cq'[i] = cq[i + 1]
        /\ Head(cq) = cq[1]
    BY <1>0, <2>1, <2>2
  <2>4. \A b : b \in W!ToSet(<<Head(cq)>>) <=> b = cq[1]
    BY <2>3 DEF W!ToSet
  <2>5. ASSUME NEW b \in Blocks PROVE b = cq[1] <=> Completed(b) /\ ~Completed(b)'
    <3>1. CASE b = cq[1]
      <4>1. 1 \in DOMAIN cq
        BY <2>2
      <4>2. \A i \in 1 .. (m - 1) : i + 1 \in DOMAIN cq /\ i + 1 # 1
        BY <2>2
      <4>3. \A i \in 1 .. (m - 1) : cq'[i] # b
        BY <2>3, <3>1, <4>1, <4>2 DEF WorkerInv, RingOnce
      <4> QED BY <2>3, <3>1, <4>1, <4>3 DEF Completed
    <3>2. CASE b # cq[1] /\ Completed(b)
      <4>1. PICK i \in DOMAIN cq : cq[i] = b
        BY <3>2 DEF Completed
      <4>2. i - 1 \in 1 .. (m - 1) /\ (i - 1) + 1 = i
        BY <2>2, <3>2, <4>1
      <4>3. cq'[i - 1] = b
        BY <2>3, <4>1, <4>2
      <4> QED BY <2>3, <3>2, <4>2, <4>3 DEF Completed
    <3> QED BY <3>1, <3>2
  <2>6. \A b \in Blocks : b \in W!ToSet(<<Head(cq)>>) <=> Completed(b) /\ ~Completed(b)'
    BY <2>4, <2>5
  <2> QED BY <2>1, <2>6, ReapWorker
<1> QED BY <1>1, <1>2

LEMMA WorkerInitInv == W!WorkerInit => WorkerInv
<1> SUFFICES ASSUME W!WorkerInit PROVE WorkerInv
  OBVIOUS
<1>1. /\ haltKind \in {"uring", "epoll"} /\ uAt = "sched" /\ pollType = "Poll"
      /\ sq = (IF haltKind = "uring" THEN <<Null>> ELSE <<>>) /\ flight = {} /\ cq = <<>>
      /\ retcode = [f \in Freds |-> "none"] /\ waiting = {} /\ submitter = Null
      /\ listed = FALSE /\ haltFD = 0 /\ count = 0 /\ uWoken = 0 /\ haltSync = 0
  BY DEF W!WorkerInit
<1>2. Null \in Blocks /\ Null \notin Freds
  BY FredAssumption DEF Blocks
<1>3. /\ sq \in Seq(Blocks) /\ (Len(sq) = 0 \/ Len(sq) = 1) /\ (\A i \in DOMAIN sq : i = 1 /\ sq[i] = Null)
      /\ haltKind = "uring" <=> \E i \in DOMAIN sq : sq[i] = Null
  BY <1>1, <1>2
<1>4. RingOnce
  BY <1>1, <1>3 DEF RingOnce
<1>5. WorkerTypes /\ WorkerPlaces
  BY <1>1, <1>2 DEF WorkerTypes, WorkerPlaces
<1>6. (\A b : ~Completed(b)) /\ (\A f \in Freds : ~InRing(f)) /\ (InRing(Null) <=> haltKind = "uring")
  BY <1>1, <1>2, <1>3 DEF Completed, InRing, Prepared
<1>7. Len(sq) <= Batch /\ Len(sq) < Batch
  BY <1>3, BatchAssumption
<1>8. WorkerRequests
  BY <1>1, <1>2, <1>6, <1>7 DEF WorkerRequests, Flushing
<1>9. WorkerTokens
  BY <1>1, <1>6 DEF WorkerTokens, W!Halting
<1> QED BY <1>4, <1>5, <1>8, <1>9 DEF WorkerInv

LEMMA WorkerNextInv == WorkerInv /\ W!WorkerNext => WorkerInv'
  BY QuietWorker, CompleteWorker, SubmitWorker, SyncWorker, PollWorker DEF W!WorkerNext

\* What the run checks, from the invariant.
LEMMA OutstandingExact ==
  ASSUME RingOnce, NEW b
  PROVE  W!Outstanding(b) = IF InRing(b) THEN 1 ELSE 0
<1>0. \A X : W!Cardinality(X) = Cardinality(X)
  BY DEF W!Cardinality, Cardinality
<1>1. Cardinality({i \in DOMAIN sq : sq[i] = b}) = IF Prepared(b) THEN 1 ELSE 0
  <2>1. CASE Prepared(b)
    <3>1. PICK i \in DOMAIN sq : {j \in DOMAIN sq : sq[j] = b} = {i}
      BY <2>1 DEF Prepared, RingOnce
    <3> QED BY <2>1, <3>1, FS_Singleton
  <2>2. CASE ~Prepared(b)
    <3>1. {j \in DOMAIN sq : sq[j] = b} = {}
      BY <2>2 DEF Prepared
    <3> QED BY <2>2, <3>1, FS_EmptySet
  <2> QED BY <2>1, <2>2
<1>2. Cardinality({i \in DOMAIN cq : cq[i] = b}) = IF Completed(b) THEN 1 ELSE 0
  <2>1. CASE Completed(b)
    <3>1. PICK i \in DOMAIN cq : {j \in DOMAIN cq : cq[j] = b} = {i}
      BY <2>1 DEF Completed, RingOnce
    <3> QED BY <2>1, <3>1, FS_Singleton
  <2>2. CASE ~Completed(b)
    <3>1. {j \in DOMAIN cq : cq[j] = b} = {}
      BY <2>2 DEF Completed
    <3> QED BY <2>2, <3>1, FS_EmptySet
  <2> QED BY <2>1, <2>2
<1>3. /\ Prepared(b) => ~Completed(b) /\ b \notin flight
      /\ Completed(b) => b \notin flight
  BY DEF RingOnce, Prepared, Completed
<1> QED BY <1>0, <1>1, <1>2, <1>3 DEF W!Outstanding, InRing

LEMMA WorkerInvExact == WorkerInv => W!WakeupKept /\ W!RequestsExact
<1> SUFFICES ASSUME WorkerInv PROVE W!WakeupKept /\ W!RequestsExact
  OBVIOUS
<1>1. \A b : W!Outstanding(b) = IF InRing(b) THEN 1 ELSE 0
  BY OutstandingExact DEF WorkerInv
<1>2. Null \in W!ToSet(cq) <=> Completed(Null)
  BY DEF W!ToSet, Completed
<1>3. W!WakeupKept
  <2>1. W!Tokens = IF W!Halting /\ ~listed THEN 1 ELSE 0
    BY <1>2 DEF W!Tokens, WorkerInv, WorkerTokens
  <2>2. count \in {0, 1} /\ (uAt = "rearm" => count = 1) /\ (haltSync = 1 => haltFD = 1)
    BY DEF WorkerInv, WorkerTypes, WorkerTokens
  <2>3. haltKind = "uring" => W!Outstanding(Null) + uWoken = 1
    BY <1>1 DEF WorkerInv, WorkerTypes, WorkerRequests
  <2> QED BY <2>1, <2>2, <2>3 DEF W!WakeupKept
<1>4. W!RequestsExact
  BY <1>1 DEF W!RequestsExact, WorkerInv, WorkerRequests
<1> QED BY <1>3, <1>4

---------------------------------------------------------------------------
(* The scheduler: its proofs hold of the scheduler in the composition.       *)

SP == INSTANCE SchedulerProofs WITH pc <- sPc, next <- sNext, target <- sTarget

LEMMA SameScheduler ==
  /\ S!Procs = SP!Procs /\ S!Threads = SP!Threads
  /\ (S!Init <=> SP!Init)
  /\ (S!NoFredStranded <=> SP!NoFredStranded)
  /\ (S!CountersExact /\ S!WakeOnce <=> SP!CountersExact /\ SP!WakeOnce)
<1>1. S!Procs = SP!Procs /\ S!Threads = SP!Threads
  BY DEF S!Procs, SP!Procs, S!Threads, SP!Threads
<1>2. S!Init <=> SP!Init
  BY <1>1 DEF S!Init, SP!Init, S!ReadyInit, SP!ReadyInit
<1>3. S!NoFredStranded <=> SP!NoFredStranded
  BY <1>1 DEF S!NoFredStranded, SP!NoFredStranded, S!Asleep, SP!Asleep, S!Fenced, SP!Fenced, S!Ready, SP!Ready
<1>4. \A X : S!Cardinality(X) = SP!Cardinality(X)
  BY DEF S!Cardinality, SP!Cardinality
<1>5. \A p, why : S!Searching(p, why) <=> SP!Searching(p, why)
  BY DEF S!Searching, SP!Searching
<1>6. S!CountersExact <=> SP!CountersExact
  BY <1>1, <1>4, <1>5 DEF S!CountersExact, SP!CountersExact, S!Announced, SP!Announced
<1>7. S!IsInjective(waitingProcs) <=> SP!IsInjective(waitingProcs)
  BY DEF S!IsInjective, SP!IsInjective
<1>8. S!WakeOnce <=> SP!WakeOnce
  BY <1>1, <1>4, <1>7 DEF S!WakeOnce, SP!WakeOnce, S!Tokens, SP!Tokens
<1> QED BY <1>1, <1>2, <1>3, <1>6, <1>8

LEMMA SameSteps ==
  ASSUME NEW t, NEW f
  PROVE
    /\ S!Resume(t, f) <=> SP!Resume(t, f)
    /\ S!EnqueueTail(t) <=> SP!EnqueueTail(t)
    /\ S!EnqueueLink(t) <=> SP!EnqueueLink(t)
    /\ S!UnblockNone(t) <=> SP!UnblockNone(t)
    /\ S!UnblockPop(t) <=> SP!UnblockPop(t)
    /\ S!UnblockDec(t) <=> SP!UnblockDec(t)
    /\ S!Wake(t) <=> SP!Wake(t)
    /\ S!SearchLocal(t) <=> SP!SearchLocal(t)
    /\ S!LocalPop(t) <=> SP!LocalPop(t)
    /\ S!TryDequeue(t) <=> SP!TryDequeue(t)
    /\ S!StealPop(t) <=> SP!StealPop(t)
    /\ S!StealNothing(t) <=> SP!StealNothing(t)
    /\ S!Suspend(t) <=> SP!Suspend(t)
    /\ S!SwitchFull(t) <=> SP!SwitchFull(t)
    /\ S!PostSuspend(t) <=> SP!PostSuspend(t)
    /\ S!Yield(t) <=> SP!Yield(t)
    /\ S!Migrate(t, f) <=> SP!Migrate(t, f)
    /\ S!SwitchYield(t) <=> SP!SwitchYield(t)
    /\ S!SpinStart(t) <=> SP!SpinStart(t)
    /\ S!SpinFound(t) <=> SP!SpinFound(t)
    /\ S!SpinNothing(t) <=> SP!SpinNothing(t)
    /\ S!WaitStart(t) <=> SP!WaitStart(t)
    /\ S!LastFound(t) <=> SP!LastFound(t)
    /\ S!Block(t) <=> SP!Block(t)
    /\ S!Halt(t) <=> SP!Halt(t)
    /\ S!BufferDrain(t) <=> SP!BufferDrain(t)
<1>1. S!Resume(t, f) <=> SP!Resume(t, f)
  BY DEF S!Resume, SP!Resume, S!Goto, SP!Goto, S!readyVars, SP!readyVars, S!idleVars, SP!idleVars
<1>2. S!EnqueueTail(t) <=> SP!EnqueueTail(t)
  BY DEF S!EnqueueTail, SP!EnqueueTail, S!Goto, SP!Goto, S!idleVars, SP!idleVars, S!PushTail,
     SP!PushTail, S!Fenced, SP!Fenced
<1>3. S!EnqueueLink(t) <=> SP!EnqueueLink(t)
  BY DEF S!EnqueueLink, SP!EnqueueLink, S!Goto, SP!Goto, S!Proceed, SP!Proceed, S!idleVars,
     SP!idleVars, S!PushLink, SP!PushLink, S!Procs, SP!Procs
<1>4. S!UnblockNone(t) <=> SP!UnblockNone(t)
  BY DEF S!UnblockNone, SP!UnblockNone, S!Goto, SP!Goto, S!Proceed, SP!Proceed, S!readyVars,
     SP!readyVars, S!idleVars, SP!idleVars, S!Procs, SP!Procs
<1>5. S!UnblockPop(t) <=> SP!UnblockPop(t)
  BY DEF S!UnblockPop, SP!UnblockPop, S!Goto, SP!Goto, S!readyVars, SP!readyVars, S!Fenced,
     SP!Fenced
<1>6. S!UnblockDec(t) <=> SP!UnblockDec(t)
  BY DEF S!UnblockDec, SP!UnblockDec, S!Goto, SP!Goto, S!readyVars, SP!readyVars
<1>7. S!Wake(t) <=> SP!Wake(t)
  BY DEF S!Wake, SP!Wake, S!Goto, SP!Goto, S!Proceed, SP!Proceed, S!readyVars, SP!readyVars, S!Procs,
     SP!Procs
<1>8. S!SearchLocal(t) <=> SP!SearchLocal(t)
  BY DEF S!SearchLocal, SP!SearchLocal, S!Goto, SP!Goto, S!idleVars, SP!idleVars, S!LockQueue,
     SP!LockQueue, S!Fenced, SP!Fenced
<1>9. S!LocalPop(t) <=> SP!LocalPop(t)
  BY DEF S!LocalPop, SP!LocalPop, S!Goto, SP!Goto, S!RingNext, SP!RingNext, S!idleVars, SP!idleVars,
     S!PopQueue, SP!PopQueue, S!PopNothing, SP!PopNothing, S!NoHead, SP!NoHead, S!Procs, SP!Procs
<1>10. S!TryDequeue(t) <=> SP!TryDequeue(t)
  BY DEF S!TryDequeue, SP!TryDequeue, S!Goto, SP!Goto, S!RingNext, SP!RingNext, S!readyVars,
     SP!readyVars, S!idleVars, SP!idleVars, S!LockQueue, SP!LockQueue, S!Fenced, SP!Fenced, S!Procs,
     SP!Procs
<1>11. S!StealPop(t) <=> SP!StealPop(t)
  BY DEF S!StealPop, SP!StealPop, S!Goto, SP!Goto, S!RingNext, SP!RingNext, S!idleVars, SP!idleVars,
     S!PopQueue, SP!PopQueue, S!PopNothing, SP!PopNothing, S!NoHead, SP!NoHead, S!Procs, SP!Procs
<1>12. S!StealNothing(t) <=> SP!StealNothing(t)
  BY DEF S!StealNothing, SP!StealNothing, S!Goto, SP!Goto, S!readyVars, SP!readyVars, S!idleVars,
     SP!idleVars
<1>13. S!Suspend(t) <=> SP!Suspend(t)
  BY DEF S!Suspend, SP!Suspend, S!Goto, SP!Goto, S!readyVars, SP!readyVars, S!idleVars, SP!idleVars
<1>14. S!SwitchFull(t) <=> SP!SwitchFull(t)
  BY DEF S!SwitchFull, SP!SwitchFull, S!Goto, SP!Goto, S!readyVars, SP!readyVars, S!idleVars,
     SP!idleVars
<1>15. S!PostSuspend(t) <=> SP!PostSuspend(t)
  BY DEF S!PostSuspend, SP!PostSuspend, S!Goto, SP!Goto, S!Proceed, SP!Proceed, S!readyVars,
     SP!readyVars, S!idleVars, SP!idleVars, S!Procs, SP!Procs
<1>16. S!Yield(t) <=> SP!Yield(t)
  BY DEF S!Yield, SP!Yield, S!Goto, SP!Goto, S!readyVars, SP!readyVars, S!idleVars, SP!idleVars
<1>17. S!Migrate(t, f) <=> SP!Migrate(t, f)
  BY DEF S!Migrate, SP!Migrate, S!Goto, SP!Goto, S!readyVars, SP!readyVars, S!idleVars, SP!idleVars
<1>18. S!SwitchYield(t) <=> SP!SwitchYield(t)
  BY DEF S!SwitchYield, SP!SwitchYield, S!Goto, SP!Goto, S!readyVars, SP!readyVars, S!idleVars,
     SP!idleVars
<1>19. S!SpinStart(t) <=> SP!SpinStart(t)
  BY DEF S!SpinStart, SP!SpinStart, S!Goto, SP!Goto, S!readyVars, SP!readyVars, S!Fenced, SP!Fenced
<1>20. S!SpinFound(t) <=> SP!SpinFound(t)
  BY DEF S!SpinFound, SP!SpinFound, S!Goto, SP!Goto, S!readyVars, SP!readyVars
<1>21. S!SpinNothing(t) <=> SP!SpinNothing(t)
  BY DEF S!SpinNothing, SP!SpinNothing, S!Goto, SP!Goto, S!readyVars, SP!readyVars
<1>22. S!WaitStart(t) <=> SP!WaitStart(t)
  BY DEF S!WaitStart, SP!WaitStart, S!Goto, SP!Goto, S!readyVars, SP!readyVars
<1>23. S!LastFound(t) <=> SP!LastFound(t)
  BY DEF S!LastFound, SP!LastFound, S!Goto, SP!Goto, S!readyVars, SP!readyVars
<1>24. S!Block(t) <=> SP!Block(t)
  BY DEF S!Block, SP!Block, S!Goto, SP!Goto, S!readyVars, SP!readyVars
<1>25. S!Halt(t) <=> SP!Halt(t)
  BY DEF S!Halt, SP!Halt, S!Goto, SP!Goto, S!readyVars, SP!readyVars
<1>26. S!BufferDrain(t) <=> SP!BufferDrain(t)
  BY DEF S!BufferDrain, SP!BufferDrain, S!procVars, SP!procVars, S!idleVars, SP!idleVars, S!Drain,
     SP!Drain
<1> QED BY <1>1, <1>2, <1>3, <1>4, <1>5, <1>6, <1>7, <1>8, <1>9, <1>10, <1>11, <1>12, <1>13, <1>14, <1>15, <1>16, <1>17, <1>18, <1>19, <1>20, <1>21, <1>22, <1>23, <1>24, <1>25, <1>26

LEMMA SameNext == S!Next <=> SP!Next
<1>1. \A t : S!EnqueueStep(t) <=> SP!EnqueueStep(t)
  BY SameSteps DEF S!EnqueueStep, SP!EnqueueStep
<1>2. \A p : S!SearchStep(p) <=> SP!SearchStep(p)
  BY SameSteps DEF S!SearchStep, SP!SearchStep
<1>3. \A p : S!IdleStep(p) <=> SP!IdleStep(p)
  BY SameSteps DEF S!IdleStep, SP!IdleStep
<1>4. \A p : S!Step(p) <=> SP!Step(p)
  BY <1>2, <1>3, SameSteps DEF S!Step, SP!Step
<1>5. \A t : (\E f \in Freds : S!Resume(t, f)) <=> \E f \in Freds : SP!Resume(t, f)
  BY SameSteps
<1>6. \A p : (\E q \in S!Procs : S!Migrate(p, q)) <=> \E q \in SP!Procs : SP!Migrate(p, q)
  BY SameSteps, SameScheduler
<1>7. \A t : S!BufferDrain(t) <=> SP!BufferDrain(t)
  BY SameSteps
<1>8. \A p : (S!Suspend(p) <=> SP!Suspend(p)) /\ (S!Yield(p) <=> SP!Yield(p))
  BY SameSteps
<1> QED BY <1>1, <1>4, <1>5, <1>6, <1>7, <1>8, SameScheduler DEF S!Next, SP!Next

SchedulerInv == SP!SchedInv /\ SP!WakeUpInv

LEMMA SchedulerInitInv == S!Init => SchedulerInv /\ SP!NoticeInv
<1>1. SP!Init => SP!SchedInv
  BY SP!SchedInitInv, SchedulerAssumption DEF SP!Procs
<1>2. SP!Init => SP!WakeUpInv
  BY SP!WakeInitInv, SchedulerAssumption DEF SP!Procs
<1>3. SP!Init => SP!NoticeInv
  BY SP!NoticeInitInv, SchedulerAssumption DEF SP!Procs
<1> QED BY <1>1, <1>2, <1>3, SameScheduler DEF SchedulerInv

LEMMA SchedulerNextInv ==
  ASSUME SchedulerInv, S!Next \/ UNCHANGED schedVars
  PROVE  SchedulerInv' /\ (~TSO /\ SP!NoticeInv => SP!NoticeInv')
<1>1. SP!Next \/ UNCHANGED SP!vars
  BY SameNext DEF schedVars, SP!vars, SP!readyVars, SP!procVars, SP!idleVars
<1>2. SP!SchedInv /\ (SP!Next \/ UNCHANGED SP!vars) => SP!SchedInv'
  BY SP!SchedNextInv, SchedulerAssumption DEF SP!Procs
<1>3. SP!SchedInv /\ SP!WakeUpInv /\ (SP!Next \/ UNCHANGED SP!vars) => SP!WakeUpInv'
  BY SP!WakeNextInv, SchedulerAssumption DEF SP!Procs
<1>4. ~TSO /\ SP!SchedInv /\ SP!WakeUpInv /\ SP!NoticeInv /\ (SP!Next \/ UNCHANGED SP!vars) => SP!NoticeInv'
  BY SP!NoticeNextInv, SchedulerAssumption DEF SP!Procs
<1> QED BY <1>1, <1>2, <1>3, <1>4 DEF SchedulerInv

LEMMA SchedulerInvExact ==
  /\ SchedulerInv => S!CountersExact /\ S!WakeOnce
  /\ SchedulerInv /\ SP!NoticeInv => S!NoFredStranded
<1>1. SP!WakeUpInv => SP!CountersExact /\ SP!WakeOnce
  BY SP!WakesOnce, SchedulerAssumption DEF SP!Procs, SP!WakeUpInv
<1>2. SP!SchedInv /\ SP!NoticeInv => SP!NoFredStranded
  BY SP!NoticedNotStranded, SchedulerAssumption DEF SP!Procs, SP!NoticeInv
<1> QED BY <1>1, <1>2, SameScheduler DEF SchedulerInv

LEMMA WorkerStutters == WorkerInv /\ UNCHANGED workerVars => WorkerInv'
  BY DEF workerVars, WorkerInv, RingOnce, WorkerTypes, WorkerPlaces, WorkerRequests, WorkerTokens,
     Flushing, InRing, Prepared, Completed, W!Halting

---------------------------------------------------------------------------
(* The processors of the composition, in each of its parts.                 *)

LEMMA IdleStutters == IdleInv /\ UNCHANGED idleVars => IdleInv'
  BY DEF idleVars, IdleInv, IdleTypes, IdleHands, IdleWakes, IdleCounts, IdlePlaces, FredOnePlace,
     FredIn, ThreadsAt, H!HandedOver

ProcessorInv ==
  /\ part = "sched" => SchedulerInv
  /\ part = "idle" => IdleInv
  /\ part = "worker" => WorkerInv

LEMMA PartSteps ==
  /\ PrimitivesNext => /\ part' = part
                       /\ part = "sched" => S!Next
                       /\ part = "idle" => H!IdleNext
                       /\ part = "worker" => W!WorkerNext
  /\ UNCHANGED primitivesVars =>
       part' = part /\ UNCHANGED schedVars /\ UNCHANGED idleVars /\ UNCHANGED workerVars
<1>1. PrimitivesNext => /\ part' = part
                        /\ part = "sched" => S!Next
                        /\ part = "idle" => H!IdleNext
                        /\ part = "worker" => W!WorkerNext
  BY DEF PrimitivesNext
<1>2. UNCHANGED primitivesVars =>
        part' = part /\ UNCHANGED schedVars /\ UNCHANGED idleVars /\ UNCHANGED workerVars
  BY DEF primitivesVars
<1> QED BY <1>1, <1>2

LEMMA ProcessorInitInv ==
  PrimitivesInit => ProcessorInv /\ (part = "sched" => SP!NoticeInv)
<1>1. PrimitivesInit => /\ part = "sched" => S!Init
                        /\ part = "idle" => H!IdleInit
                        /\ part = "worker" => W!WorkerInit
  BY DEF PrimitivesInit
<1> QED BY <1>1, SchedulerInitInv, IdleInitInv, WorkerInitInv DEF ProcessorInv

LEMMA ProcessorNextInv ==
  ASSUME ProcessorInv, [PrimitivesNext]_primitivesVars
  PROVE  ProcessorInv' /\ (~TSO /\ (part = "sched" => SP!NoticeInv) => (part = "sched" => SP!NoticeInv)')
<1>1. /\ part' = part
      /\ part = "sched" => S!Next \/ UNCHANGED schedVars
      /\ part = "idle" => H!IdleNext \/ UNCHANGED idleVars
      /\ part = "worker" => W!WorkerNext \/ UNCHANGED workerVars
  BY PartSteps
<1>2. part = "idle" => IdleInv'
  BY <1>1, IdleNextInv, IdleStutters DEF ProcessorInv
<1>3. part = "worker" => WorkerInv'
  BY <1>1, WorkerNextInv, WorkerStutters DEF ProcessorInv
<1>4. CASE part = "sched"
  <2>1. SchedulerInv /\ (S!Next \/ UNCHANGED schedVars)
    BY <1>1, <1>4 DEF ProcessorInv
  <2>2. SchedulerInv' /\ (~TSO /\ SP!NoticeInv => SP!NoticeInv')
    BY <2>1, SchedulerNextInv
  <2> QED BY <1>1, <1>4, <2>2 DEF ProcessorInv
<1>5. CASE part # "sched"
  BY <1>1, <1>2, <1>3, <1>5 DEF ProcessorInv
<1> QED BY <1>4, <1>5

LEMMA ProcessorInvariant == PrimitivesSpec => []ProcessorInv
<1>1. PrimitivesInit => ProcessorInv
  BY ProcessorInitInv
<1>2. ProcessorInv /\ [PrimitivesNext]_primitivesVars => ProcessorInv'
  BY ProcessorNextInv
<1> QED BY <1>1, <1>2, PTL DEF PrimitivesSpec

\* The counting IdleManager, for every number of processors, outside threads
\* and freds: its counter is exact, a fred is in one place only, a halt is
\* matched by one wake-up, and no fred is left ready when all processors sleep
\* and nobody is on the way to wake one.
THEOREM HandoversAreExact ==
  PrimitivesSpec => [](part = "idle" => H!HandoverExact /\ H!NoFredLeft)
<1>1. ProcessorInv => (part = "idle" => H!HandoverExact /\ H!NoFredLeft)
  BY IdleInvExact, IdleInvNoFredLeft DEF ProcessorInv
<1> QED BY <1>1, ProcessorInvariant, PTL

\* Every halt of a processor is matched by one wake-up, and the counters that
\* the idle managers decide by are exact: spinCounter and waitCounter of the
\* spinning manager, with store buffers or without, fredCounter of the
\* counting one, and for a worker that halts in its io_uring or epoll poller
\* its haltFD, its place in the waiting list and the requests in its ring.
THEOREM CountersAreExact == PrimitivesSpec => []CountersExact
<1>1. ProcessorInv => CountersExact
  BY SchedulerInvExact, IdleInvExact, WorkerInvExact DEF ProcessorInv, CountersExact
<1> QED BY <1>1, ProcessorInvariant, PTL

\* Under both idle managers no fred is left ready while all processors sleep
\* and nobody is on the way to wake one.  The spinning manager keeps this only
\* without store buffers: with them it is false.
THEOREM NoFredIsLeft == ~TSO /\ PrimitivesSpec => []NoFredStranded
<1>1. PrimitivesInit => (part = "sched" => SP!NoticeInv)
  BY ProcessorInitInv
<1>2. ~TSO /\ ProcessorInv /\ (part = "sched" => SP!NoticeInv) /\ [PrimitivesNext]_primitivesVars
        => (part = "sched" => SP!NoticeInv)'
  BY ProcessorNextInv
<1>3. ProcessorInv /\ (part = "sched" => SP!NoticeInv) => NoFredStranded
  BY SchedulerInvExact, IdleInvNoFredLeft DEF ProcessorInv, NoFredStranded
<1>4. CASE ~TSO
  <2>1. ProcessorInv /\ (part = "sched" => SP!NoticeInv) /\ [PrimitivesNext]_primitivesVars
          => (part = "sched" => SP!NoticeInv)'
    BY <1>2, <1>4
  <2>2. PrimitivesSpec => []NoFredStranded
    BY <1>1, <1>3, <2>1, ProcessorInvariant, PTL DEF PrimitivesSpec
  <2> QED BY <2>2
<1> QED BY <1>4
===========================================================================
