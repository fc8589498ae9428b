--------------------------- MODULE FibreSpecific ---------------------------
(***************************************************************************)
(* Fibre-specific storage (libfibre/Fibre.h, runtime/Bitmap.h): a process-  *)
(* wide bitmap of keys with their destructors under a mutex, a vector of    *)
(* values per fibre, and clearSpecific() at the end of a fibre, which scans *)
(* the bitmap without the mutex.  Keys come and go while a fibre scans;     *)
(* that `destructors` may move in memory meanwhile is not modelled.         *)
(***************************************************************************)
EXTENDS Integers, Sequences

CONSTANTS Fibres,
          KeysMax     \* FIBRE_KEYS_MAX, the bits of a word

VARIABLES
  bitmap,       \* the keys in use
  destructors,  \* the keys with a destructor
  values,       \* fibre -> its vector of values: null (FALSE) or not
  scan,         \* fibre -> idx of clearSpecific(); Live before it, Ended after
  start,        \* fibre -> the first key of the scan
  destructed,   \* fibre -> key -> calls of its destructor (history, at most 2)
  stored,       \* fibre -> key -> {what it stored last under this key}, {} before (history)
  disturbed     \* the fibres during whose scan a key was deleted (history)

specificVars == <<bitmap, destructors, values, scan, start, destructed, stored, disturbed>>

Keys  == 0 .. KeysMax - 1
Live  == -1
Ended == -2

SpecificInit ==
  /\ bitmap = {} /\ destructors = {} /\ disturbed = {}
  /\ values = [f \in Fibres |-> <<>>]
  /\ scan = [f \in Fibres |-> Live]
  /\ start = [f \in Fibres |-> KeysMax]
  /\ destructed = [f \in Fibres |-> [k \in Keys |-> 0]]
  /\ stored = [f \in Fibres |-> [k \in Keys |-> {}]]

\* lsb(): the lowest bit set, the word size when there is none.
Lsb(bits) == IF bits = {} THEN KeysMax ELSE CHOOSE k \in bits : \A j \in bits : k <= j

\* find(findset), and findnext(idx), which masks the bits below idx only.
Find(findset) == Lsb(IF findset THEN bitmap ELSE Keys \ bitmap)
FindNext(idx) == Lsb({k \in bitmap : k >= idx})

\* Mutant of Grown: the size is compared with > for >=.
GrownLess(n, idx) ==
  IF idx <= n THEN n ELSE CHOOSE m \in {2^i : i \in 0 .. KeysMax} : m \div 2 <= idx /\ idx < m

\* A vector of size n grows from 1 by doubling until idx fits.
Grown(n, idx) ==
  IF idx < n THEN n ELSE CHOOSE m \in {2^i : i \in 0 .. KeysMax} : m \div 2 <= idx /\ idx < m

---------------------------------------------------------------------------

\* key_create(), which asserts that a key is free.  Nobody has stored anything
\* under the new key.
KeyCreate(hasDestructor) ==
  LET idx == Find(FALSE) IN
  /\ idx < KeysMax
  /\ bitmap' = bitmap \cup {idx}
  /\ destructors' = IF hasDestructor THEN destructors \cup {idx} ELSE destructors
  /\ stored' = [f \in Fibres |-> [stored[f] EXCEPT ![idx] = {}]]
  /\ UNCHANGED <<values, scan, start, destructed, disturbed>>

\* key_delete(): no destructor is called and the values stay where they are.
KeyDelete(idx) ==
  /\ idx \in bitmap
  /\ bitmap' = bitmap \ {idx}
  /\ destructors' = destructors \ {idx}
  /\ disturbed' = disturbed \cup {f \in Fibres : scan[f] # Live}
  /\ UNCHANGED <<values, scan, start, destructed, stored>>

\* setspecific() of the running fibre.
SetSpecific(f, idx, nonNull) ==
  LET old == values[f] IN
  /\ scan[f] = Live /\ idx \in bitmap
  /\ values' = [values EXCEPT ![f] =
       [i \in 1 .. Grown(Len(old), idx) |->
          IF i = idx + 1 THEN nonNull ELSE i <= Len(old) /\ old[i]]]
  /\ stored' = [stored EXCEPT ![f][idx] = {nonNull}]
  /\ UNCHANGED <<bitmap, destructors, scan, start, destructed, disturbed>>

\* getspecific(): a key that was deleted and created again shows the value
\* stored under the deleted one.
GetSpecific(f, idx) == idx < Len(values[f]) /\ values[f][idx + 1]

\* finalize() -> clearSpecific(): the first find() ...
ClearStart(f) ==
  /\ scan[f] = Live
  /\ start' = [start EXCEPT ![f] = Find(TRUE)]
  /\ scan' = [scan EXCEPT ![f] = IF Find(TRUE) >= KeysMax THEN Ended ELSE Find(TRUE)]
  /\ UNCHANGED <<bitmap, destructors, values, destructed, stored, disturbed>>

\* ... and one iteration of the loop.  When the key it is at was deleted, it
\* goes on to the next one, or past the last one, and stays there for good.
ClearStep(f) ==
  LET idx  == scan[f]
      next == FindNext(idx) IN
  /\ idx \in 0 .. KeysMax
  /\ destructed' = IF idx \in destructors /\ GetSpecific(f, idx)
                     THEN [destructed EXCEPT ![f][idx] = IF @ < 2 THEN @ + 1 ELSE @]
                     ELSE destructed
  /\ scan' = [scan EXCEPT ![f] = IF next > start[f] THEN next ELSE Ended]
  /\ UNCHANGED <<bitmap, destructors, values, start, stored, disturbed>>

\* The calls of fibre.h, which the C calls forward to, and those of the
\* compiler's thread support to them.
fibre_key(f) ==
  \/ \E b \in BOOLEAN : KeyCreate(b)
  \/ \E k \in Keys : KeyDelete(k) \/ \E b \in BOOLEAN : SetSpecific(f, k, b)

cfibre_key(f)  == fibre_key(f)
gthread_key(f) == cfibre_key(f)

SpecificNext == \E f \in Fibres : gthread_key(f) \/ ClearStart(f) \/ ClearStep(f)

SpecificSpec == SpecificInit /\ [][SpecificNext]_specificVars

---------------------------------------------------------------------------

\* What a fibre stored under a key is what it gets back, however the vector
\* has grown in between; and clearSpecific() calls no destructor twice unless a
\* key is deleted while it scans.
KeysKept ==
  \A f \in Fibres, k \in Keys :
    /\ \A v \in stored[f][k] : GetSpecific(f, k) = v
    /\ f \notin disturbed => destructed[f][k] <= 1

\* The contract of pthread_key_create, which fibre.h:248 names: at the end of a
\* fibre the destructor of every key is called once if the fibre has stored a
\* value under it, and never again, also when others delete keys meanwhile.
DestructorsCalled ==
  \A f \in Fibres, k \in Keys :
    /\ destructed[f][k] <= 1
    /\ scan[f] = Ended /\ k \in destructors /\ TRUE \in stored[f][k] => destructed[f][k] = 1
===========================================================================
