----------------------------- MODULE FibreApi -----------------------------
(***************************************************************************)
(* The interfaces that programs use, layer over layer: the functions of     *)
(* fibre.h, their C bindings with heap objects behind handles (cfibre.cc),  *)
(* and the thread interface of the GCC runtime on top (gcc/gthr-fibre.h).   *)
(* A program picks a layer and a primitive, creates it, uses it and         *)
(* destroys it.                                                             *)
(*                                                                          *)
(* The primitives are abstract here: a lock is free or taken, a semaphore   *)
(* has permits, a condition has sleepers (see the modules of each).  What   *)
(* this module is about is what a program is told by return codes, and what *)
(* happens to objects and handles.  A blocking call is an action that is    *)
(* disabled until it can return, or two.                                    *)
(***************************************************************************)
EXTENDS Integers, FiniteSets

CONSTANTS Users,       \* the freds of the program
          NoUser,      \* no fred
          Group,       \* the count of barriers
          MaxObjects,  \* bound: objects created
          MaxPosts     \* bound: semaphore posts

VARIABLES
  api,        \* the layer: "fibre", "cfibre" or "gthr"
  active,     \* __gthread_active_p(), of the gthr layer
  what,       \* "sem", "mutex", "fastmutex", "rwlock", "barrier", or "fibre"
  ready,      \* the primitives constructed: "object", "cond"
  attr,       \* the type in the attributes of the next mutex, "none" without
  fields,     \* the fibre attributes that were set since fibre_attr_init()
  fibres,     \* of each fibre created: the attributes that were set for it
  handle,     \* the C handles: an object's number, 0 for nullptr
  heap,       \* the objects that new has created and delete has not deleted
  made,       \* how many objects were created
  taker, readers,   \* who has the lock
  permits,    \* the counter of the semaphore
  sleepers,   \* who waits on the condition, or in the barrier
  doing,      \* fred -> the call that it is in: "cond", "timedcond", ...
  told,       \* fred -> what return codes have told it that it has
  tally       \* what they have told all: permits gained and posted, serials, passes

progVars == <<api, active, what>>
attrVars == <<attr, fields, fibres>>
cVars    == <<handle, heap, made>>
lockVars == <<taker, readers>>
userVars == <<doing, told, tally>>
objVars  == <<lockVars, permits, sleepers>>
apiVars  == <<progVars, ready, attrVars, cVars, objVars, userVars>>

Handles == {"object", "cond", "attr"}

\* The return codes that matter.
Success == 0
Failure == -1
EAGAIN    == 11
EBUSY     == 16
ETIMEDOUT == 110

FibreApiInit ==
  /\ api \in {"fibre", "cfibre", "gthr"}
  /\ active \in BOOLEAN /\ (api # "gthr" => active)
  /\ what \in {"sem", "mutex", "fastmutex", "rwlock", "barrier", "fibre"}
  /\ api = "gthr" => what \in {"mutex", "fibre"}
  /\ ready = {} /\ attr = "none" /\ fields = {} /\ fibres = {}
  /\ handle = [h \in Handles |-> 0] /\ heap = {} /\ made = 0
  /\ taker = NoUser /\ readers = {} /\ permits = 0 /\ sleepers = {}
  /\ doing = [f \in Users |-> "none"] /\ told = [f \in Users |-> "none"]
  /\ tally = [gained |-> 0, posted |-> 0, serials |-> 0, passes |-> 0]

Calls(f) == doing[f] = "none"

\* f has no part in the primitive: it is free to take it, or to destroy it.
HasNothing(f) == Calls(f) /\ told[f] = "none"

\* What a program concludes from the return code of a call that acquires.
Tell(f, side, code) ==
  /\ told' = IF code = Success THEN [told EXCEPT ![f] = side] ELSE told
  /\ UNCHANGED <<doing, tally>>

---------------------------------------------------------------------------
(* The C handles.                                                           *)

\* new, behind a handle.
CNew(h) ==
  /\ made < MaxObjects
  /\ made' = made + 1
  /\ heap' = heap \cup {made + 1}
  /\ handle' = [handle EXCEPT ![h] = made + 1]

\* delete, and nullptr.
CDelete(h) ==
  /\ heap' = heap \ {handle[h]}
  /\ handle' = [handle EXCEPT ![h] = 0]
  /\ UNCHANGED made

Bound == api # "fibre" /\ active        \* calls go through the C handles
Create(h)  == IF Bound THEN CNew(h) ELSE UNCHANGED cVars
Release(h) == IF Bound THEN CDelete(h) ELSE UNCHANGED cVars

---------------------------------------------------------------------------
(* Attributes.                                                              *)

Locks == {"mutex", "fastmutex"}

\* fibre_mutexattr_init() and the same of the fast mutex.
fibre_mutexattr_init ==
  /\ what \in Locks /\ api # "gthr"
  /\ "attr" \notin ready /\ "object" \notin ready
  /\ ready' = ready \cup {"attr"} /\ attr' = "default"
  /\ Create("attr")
  /\ UNCHANGED <<progVars, fields, fibres, objVars, userVars>>

fibre_mutexattr_settype ==
  /\ what \in Locks /\ "attr" \in ready
  /\ attr' = "recursive"
  /\ UNCHANGED <<progVars, ready, fields, fibres, cVars, objVars, userVars>>

\* fibre_mutexattr_destroy(), fibre_attr_destroy().
fibre_attr_destroy ==
  /\ "attr" \in ready
  /\ ready' = ready \ {"attr"} /\ attr' = "none" /\ fields' = {}
  /\ Release("attr")
  /\ UNCHANGED <<progVars, fibres, objVars, userVars>>

\* The attributes of a fibre: init() sets the defaults.
fibre_attr_init ==
  /\ what = "fibre" /\ api # "gthr" /\ "attr" \notin ready
  /\ ready' = ready \cup {"attr"} /\ fields' = {}
  /\ Create("attr")
  /\ UNCHANGED <<progVars, attr, fibres, objVars, userVars>>

Fields == {"cluster", "stackSize", "guardSize", "priority", "affinity", "detached"}

\* fibre_attr_setcluster() ... fibre_attr_setdetachstate(); getters read back.
fibre_attr_set(field) ==
  /\ what = "fibre" /\ "attr" \in ready
  /\ fields' = fields \cup {field}
  /\ UNCHANGED <<progVars, ready, attr, fibres, cVars, objVars, userVars>>

\* fibre_create(): with no attributes all defaults, detached included.
fibre_create(given) ==
  /\ what = "fibre" /\ active /\ fibres = {}
  /\ given => "attr" \in ready
  /\ fibres' = fibres \cup {IF given THEN fields ELSE {}}
  /\ UNCHANGED <<progVars, ready, attr, fields, cVars, objVars, userVars>>

---------------------------------------------------------------------------
(* Construction and destruction.                                            *)

\* What fibre_mutex_init() finds in the attributes: the C binding passes the
\* handle for the object, so that it finds half a pointer there.
TypeGiven == IF attr # "none" /\ Bound THEN "pointer" ELSE attr

\* Construction through any layer: a program gives up on an object whose
\* initialisation failed.
Construct(code, value) ==
  /\ "object" \notin ready
  /\ ready' = IF code = Success THEN ready \cup {"object"} ELSE ready
  /\ taker' = NoUser /\ readers' = {} /\ permits' = value
  /\ tally' = [gained |-> 0, posted |-> value, serials |-> 0, passes |-> 0]
  /\ Create("object")
  /\ UNCHANGED <<progVars, attrVars, sleepers, doing, told>>

fibre_sem_init(value) == what = "sem" /\ Construct(Success, value)

\* A recursive mutex is refused.
fibre_mutex_init ==
  what = "mutex" /\ Construct(IF TypeGiven = "recursive" THEN Failure ELSE Success, 0)
fibre_fastmutex_init ==
  what = "fastmutex" /\ Construct(IF TypeGiven = "recursive" THEN Failure ELSE Success, 0)

fibre_rwlock_init  == what = "rwlock" /\ Construct(Success, 0)
fibre_barrier_init == what = "barrier" /\ Construct(Success, 0)

\* __gthread_recursive_mutex_init_function(): the attributes are created, the
\* mutex is, and the attributes are deleted.
gthread_recursive_mutex_init ==
  /\ api = "gthr" /\ active /\ "object" \notin ready
  /\ made + 2 <= MaxObjects
  /\ made' = made + 2 /\ heap' = heap \cup {made + 2}
  /\ handle' = [handle EXCEPT !["object"] = made + 2]
  /\ ready' = ready \cup {"object"} /\ taker' = NoUser
  /\ UNCHANGED <<progVars, attrVars, readers, permits, sleepers, userVars>>

fibre_cond_init ==
  /\ what \in Locks /\ "cond" \notin ready /\ active
  /\ ready' = ready \cup {"cond"} /\ sleepers' = {}
  /\ Create("cond")
  /\ UNCHANGED <<progVars, attrVars, lockVars, permits, userVars>>

\* Nobody uses the primitive that is destroyed.
Quiet == \A f \in Users : HasNothing(f)

\* The destroy functions: reset() and, through a handle, delete.
fibre_destroy(h) ==
  /\ h \in ready \ {"attr"} /\ Quiet
  /\ ready' = ready \ {h} /\ permits' = 0
  /\ tally' = [tally EXCEPT !.gained = 0, !.posted = 0]
  /\ Release(h)
  /\ UNCHANGED <<progVars, attrVars, lockVars, sleepers, doing, told>>

---------------------------------------------------------------------------
(* fibre.h: the primitives.                                                 *)

\* The wait functions of a semaphore.
fibre_sem_wait(f, how) ==
  LET ok   == permits > 0
      code == CASE ok -> Success [] ~ok /\ how = "try" -> EAGAIN [] OTHER -> ETIMEDOUT IN
  /\ Calls(f)
  /\ how = "wait" => ok
  /\ permits' = IF ok THEN permits - 1 ELSE permits
  /\ tally' = IF code = Success THEN [tally EXCEPT !.gained = @ + 1] ELSE tally
  /\ UNCHANGED <<lockVars, sleepers, doing, told>>

fibre_sem_post(f) ==
  /\ Calls(f) /\ tally.posted < MaxPosts
  /\ permits' = permits + 1
  /\ tally' = [tally EXCEPT !.posted = @ + 1]
  /\ UNCHANGED <<lockVars, sleepers, doing, told>>

\* A bool as a return code: a failed try is busy, a failed timed call late.
LockCode(how, ok) == CASE ok -> Success [] ~ok /\ how = "try" -> EBUSY [] OTHER -> ETIMEDOUT

\* fibre_mutex_lock(), _trylock(), _timedlock().
fibre_mutex_lock(f, how) ==
  LET ok == taker = NoUser IN
  /\ HasNothing(f)
  /\ how = "lock" => ok
  /\ taker' = IF ok THEN f ELSE taker
  /\ Tell(f, "write", LockCode(how, ok))
  /\ UNCHANGED <<readers, permits, sleepers>>

fibre_mutex_unlock(f) ==
  /\ Calls(f) /\ told[f] = "write"
  /\ taker' = NoUser
  /\ told' = [told EXCEPT ![f] = "none"]
  /\ UNCHANGED <<readers, permits, sleepers, doing, tally>>

\* fibre_fastmutex_lock(), _trylock(): there is no timed form.
fibre_fastmutex_lock(f, how) == how # "timed" /\ fibre_mutex_lock(f, how)

\* fibre_cond_wait(), _timedwait(): the condition's wait() releases the mutex ...
fibre_cond_wait(f, how) ==
  /\ Calls(f) /\ told[f] = "write"
  /\ taker' = NoUser
  /\ sleepers' = sleepers \cup {f}
  /\ doing' = [doing EXCEPT ![f] = how]
  /\ UNCHANGED <<readers, permits, told, tally>>

\* ... it returns when it is signalled, or late ...
fibre_cond_timeout(f) ==
  /\ doing[f] = "timedcond" /\ f \in sleepers
  /\ sleepers' = sleepers \ {f}
  /\ doing' = [doing EXCEPT ![f] = "relock"]
  /\ UNCHANGED <<lockVars, permits, told, tally>>

\* Mutant of fibre_cond_relock: a late wait returns without the mutex.
fibre_cond_noRelock(f) ==
  /\ doing[f] = "relock"
  /\ doing' = [doing EXCEPT ![f] = "none"]
  /\ UNCHANGED <<lockVars, permits, sleepers, told, tally>>

\* ... and the mutex is acquired again, whatever the code (with a condition
\* that keeps to its contract; Condition shows where FredCondition does not).
fibre_cond_relock(f) ==
  /\ doing[f] = "relock" /\ taker = NoUser
  /\ taker' = f
  /\ doing' = [doing EXCEPT ![f] = "none"]
  /\ UNCHANGED <<readers, permits, sleepers, told, tally>>

\* fibre_cond_signal() and _broadcast().
fibre_cond_signal(f, woken) ==
  /\ Calls(f) /\ woken \subseteq sleepers
  /\ sleepers' = sleepers \ woken
  /\ doing' = [g \in Users |-> IF g \in woken THEN "relock" ELSE doing[g]]
  /\ UNCHANGED <<lockVars, permits, told, tally>>

\* fibre_rwlock_rdlock(), _tryrdlock(), _timedrdlock().
fibre_rwlock_rdlock(f, how) ==
  LET ok == taker = NoUser IN
  /\ HasNothing(f)
  /\ how = "lock" => ok
  /\ readers' = IF ok THEN readers \cup {f} ELSE readers
  /\ Tell(f, "read", LockCode(how, ok))
  /\ UNCHANGED <<taker, permits, sleepers>>

\* fibre_rwlock_wrlock(), _trywrlock(), _timedwrlock().
fibre_rwlock_wrlock(f, how) ==
  LET ok == taker = NoUser /\ readers = {} IN
  /\ HasNothing(f)
  /\ how = "lock" => ok
  /\ taker' = IF ok THEN f ELSE taker
  /\ Tell(f, "write", LockCode(how, ok))
  /\ UNCHANGED <<readers, permits, sleepers>>

\* fibre_rwlock_unlock(): release() finds out by itself what is released.
fibre_rwlock_unlock(f) ==
  /\ Calls(f) /\ told[f] # "none"
  /\ IF taker # NoUser THEN taker' = NoUser /\ UNCHANGED readers
     ELSE readers' = readers \ {f} /\ UNCHANGED taker
  /\ told' = [told EXCEPT ![f] = "none"]
  /\ UNCHANGED <<permits, sleepers, doing, tally>>

\* fibre_barrier_wait(), spin_ and fast_barrier_wait(): the last of a group
\* finds the others waiting; wait() is true for one of them.
fibre_barrier_wait(f) ==
  /\ Calls(f)
  /\ IF Cardinality(sleepers) + 1 < Group
       THEN /\ sleepers' = sleepers \cup {f}
            /\ doing' = [doing EXCEPT ![f] = "barrier"]
            /\ UNCHANGED tally
       ELSE /\ sleepers' = {}
            /\ doing' = [g \in Users |-> IF g \in sleepers THEN "none" ELSE doing[g]]
            /\ tally' = [tally EXCEPT !.serials = @ + 1, !.passes = (@ + Group)]
  /\ UNCHANGED <<lockVars, permits, told>>

---------------------------------------------------------------------------
(* The C bindings dereference the handle and call the functions above.      *)

Deref(h) == h \in ready /\ (Bound => handle[h] \in heap)

Hows == {"lock", "try", "timed"}

cfibre_attr_set(field) == Deref("attr") /\ fibre_attr_set(field)

cfibre_create(given) == (given => Deref("attr")) /\ fibre_create(given)

cfibre_sem(f) ==
  /\ what = "sem" /\ Deref("object")
  /\ fibre_sem_post(f) \/ \E how \in {"wait", "try", "timed"} : fibre_sem_wait(f, how)

cfibre_mutex(f) ==
  /\ what = "mutex" /\ active /\ Deref("object")
  /\ fibre_mutex_unlock(f) \/ \E how \in Hows : fibre_mutex_lock(f, how)

cfibre_fastmutex(f) ==
  /\ what = "fastmutex" /\ Deref("object")
  /\ fibre_mutex_unlock(f) \/ \E how \in Hows : fibre_fastmutex_lock(f, how)

\* The calls on a condition, with a mutex or (fastcond) a fast mutex.
cfibre_cond(f) ==
  /\ Deref("object") /\ Deref("cond")
  /\ \/ \E how \in {"cond", "timedcond"} : fibre_cond_wait(f, how)
     \/ fibre_cond_timeout(f) \/ fibre_cond_relock(f)
     \/ \E woken \in SUBSET sleepers :
          (Cardinality(woken) = 1 \/ woken = sleepers) /\ fibre_cond_signal(f, woken)

cfibre_rwlock(f) ==
  /\ what = "rwlock" /\ Deref("object")
  /\ \/ \E how \in Hows : fibre_rwlock_rdlock(f, how) \/ fibre_rwlock_wrlock(f, how)
     \/ fibre_rwlock_unlock(f)

cfibre_barrier(f) ==
  /\ what = "barrier" /\ Deref("object") /\ tally.passes < 2 * Group
  /\ fibre_barrier_wait(f)

---------------------------------------------------------------------------
(* gthr-fibre.h calls the C bindings, the mutex functions only in a program *)
(* with fibres: otherwise they return 0 and do nothing, for the one thread  *)
(* there is.                                                                *)

gthread_mutex_inactive(f) ==
  /\ what = "mutex" /\ ~active
  /\ \A g \in Users \ {f} : HasNothing(g)
  /\ told' = [told EXCEPT ![f] = IF @ = "none" THEN "write" ELSE "none"]
  /\ UNCHANGED <<objVars, doing, tally>>

gthread_mutex(f) == IF active THEN cfibre_mutex(f) ELSE gthread_mutex_inactive(f)

\* The recursive functions are the same: a second lock by the owner blocks.
gthread_recursive_mutex(f) == gthread_mutex(f)

gthread_cond(f) == active /\ cfibre_cond(f)

Use(f) ==
  IF api = "gthr"
    THEN gthread_mutex(f) \/ gthread_recursive_mutex(f) \/ gthread_cond(f)
    ELSE \/ cfibre_sem(f) \/ cfibre_mutex(f) \/ cfibre_fastmutex(f) \/ cfibre_cond(f)
         \/ cfibre_rwlock(f) \/ cfibre_barrier(f)

FibreApiNext ==
  \/ fibre_mutexattr_init \/ fibre_mutexattr_settype \/ fibre_attr_destroy \/ fibre_attr_init
  \/ \E field \in Fields : cfibre_attr_set(field)
  \/ \E given \in BOOLEAN : cfibre_create(given)
  \/ \E value \in 0 .. 1 : fibre_sem_init(value)
  \/ fibre_mutex_init \/ fibre_fastmutex_init \/ fibre_rwlock_init \/ fibre_barrier_init
  \/ gthread_recursive_mutex_init \/ fibre_cond_init
  \/ \E h \in {"object", "cond"} : fibre_destroy(h)
  \/ \E f \in Users : Use(f) /\ UNCHANGED <<progVars, ready, attrVars, cVars>>

FibreApiSpec == FibreApiInit /\ [][FibreApiNext]_apiVars

---------------------------------------------------------------------------

\* What return codes tell a program is true, in every layer: who was told that
\* it has the lock has it, through condition waits that end late and handles
\* that are reused; a semaphore grants what was posted; and one fred of each
\* group that passes a barrier is the serial one.
ApiTruthful ==
  /\ \A f, g \in Users : f # g /\ told[f] = "write" => told[g] = "none" \/ doing[f] # "none" \/ doing[g] # "none"
  /\ active => \A f \in Users :
       doing[f] = "none" => (told[f] = "write" <=> taker = f) /\ (told[f] = "read" <=> f \in readers)
  /\ permits + tally.gained = tally.posted
  /\ tally.passes = Group * tally.serials

\* No object leaks or is used after its deletion: the objects of the heap are
\* those behind handles, and what is in use has one.
HandlesExact ==
  /\ heap = {handle[h] : h \in Handles} \ {0}
  /\ \A h \in ready : Bound => handle[h] \in heap
===========================================================================
