----------------------------- MODULE SpinLocks -----------------------------
(***************************************************************************)
(* The spin locks (runtime/SpinLocks.h): binary lock, owner lock, ticket    *)
(* lock, MCS lock, read/write lock and the spin barrier.  A step is one     *)
(* atomic instruction, or one load or store that others can see.  How long  *)
(* an attempt spins is left out: a spin that sees no change stutters.       *)
(***************************************************************************)
EXTENDS Integers, FiniteSets

CONSTANTS Threads, NoOwner,
          Target,      \* the target of the barrier
          MaxTickets   \* bound: tickets drawn, and arrivals at the barrier

VARIABLES
  spinKind,   \* "binary", "owner", "ticket", "mcs", "rw" or "barrier"
  word,       \* locked, state, ticket or counter
  serving,    \* serving of the ticket lock, counter of the owner lock
  whose,      \* owner of the owner lock, tail of the MCS lock
  link,       \* thread -> next of its MCS node
  wait,       \* thread -> wait of its MCS node
  spinAt,     \* thread -> where it is; "in" and "inread" have the lock
  local,      \* thread -> the value it has loaded
  before,     \* thread -> prev of the MCS lock
  try,        \* thread -> it is in tryAcquire()
  serialCount \* how often wait() of the barrier was true

spinVars == <<spinKind, word, serving, whose, link, wait, spinAt, local, before, try, serialCount>>

SpinInit ==
  /\ spinKind \in {"binary", "owner", "ticket", "mcs", "rw", "barrier"}
  /\ word = 0 /\ serving = 0 /\ whose = NoOwner /\ serialCount = 0
  /\ link = [t \in Threads |-> NoOwner] /\ wait = [t \in Threads |-> FALSE]
  /\ spinAt = [t \in Threads |-> "out"] /\ local = [t \in Threads |-> 0]
  /\ before = [t \in Threads |-> NoOwner] /\ try = [t \in Threads |-> FALSE]

Is(kind, t, here) == spinKind = kind /\ spinAt[t] = here
Go(t, there) == spinAt' = [spinAt EXCEPT ![t] = there] /\ UNCHANGED spinKind
Load(t, v) == local' = [local EXCEPT ![t] = v]
\* An attempt has failed: tryAcquire() returns false, acquire() goes back.
Again(t, there) == Go(t, IF try[t] THEN "out" ELSE there)

Enter(t, tries) ==
  /\ spinAt[t] = "out" /\ spinKind # "barrier"
  /\ try' = [try EXCEPT ![t] = tries]
  /\ Go(t, "enter")
  /\ UNCHANGED <<word, serving, whose, link, wait, local, before, serialCount>>

---------------------------------------------------------------------------
(* BinaryLock: word is locked.                                              *)

BinaryTest(t) ==
  /\ Is("binary", t, "enter")
  /\ IF try[t] /\ word = 1 THEN Go(t, "out") ELSE Go(t, "set")
  /\ UNCHANGED <<word, serving, whose, local>>

BinarySet(t) ==
  /\ Is("binary", t, "set")
  /\ word' = 1
  /\ IF word = 0 THEN Go(t, "in") ELSE Again(t, "spin")
  /\ UNCHANGED <<serving, whose, local>>

BinarySpin(t) ==
  /\ Is("binary", t, "spin") /\ word = 0
  /\ Go(t, "set") /\ UNCHANGED <<word, serving, whose, local>>

BinaryRelease(t) ==
  /\ Is("binary", t, "in")
  /\ word' = 0 /\ Go(t, "out") /\ UNCHANGED <<serving, whose, local>>

---------------------------------------------------------------------------
(* BinaryOwnerLock: whose is owner, serving its counter.                    *)

OwnerCAS(t) ==
  /\ Is("owner", t, "enter")
  /\ IF whose = NoOwner THEN whose' = t /\ Go(t, "count") ELSE Again(t, "enter") /\ UNCHANGED whose
  /\ UNCHANGED <<word, serving, local>>

\* The counter is only touched by the owner.
OwnerCount(t) ==
  /\ Is("owner", t, "count") \/ (Is("owner", t, "in") /\ whose = t /\ serving < 2)
  /\ serving' = serving + 1 /\ Load(t, serving + 1)
  /\ Go(t, "in") /\ UNCHANGED <<word, whose>>

\* release(), full or not.
OwnerRelease(t, full) ==
  /\ Is("owner", t, "in")
  /\ serving' = IF full THEN 0 ELSE serving - 1
  /\ Load(t, serving')
  /\ Go(t, IF serving' = 0 THEN "open" ELSE "in")
  /\ UNCHANGED <<word, whose>>

OwnerOpen(t) ==
  /\ Is("owner", t, "open")
  /\ whose' = NoOwner /\ Go(t, "out") /\ UNCHANGED <<word, serving, local>>

---------------------------------------------------------------------------
(* TicketLock: word is ticket.                                              *)

TicketDraw(t) ==
  /\ Is("ticket", t, "enter") /\ ~try[t] /\ word < MaxTickets
  /\ word' = word + 1 /\ Load(t, word)
  /\ Go(t, "queue") /\ UNCHANGED <<serving, whose>>

TicketServed(t) ==
  /\ Is("ticket", t, "queue") /\ local[t] = serving
  /\ Go(t, "in") /\ UNCHANGED <<word, serving, whose, local>>

\* tryAcquire(): serving is read twice, ticket is checked by the CAS.
TicketTest(t) ==
  /\ Is("ticket", t, "enter") /\ try[t]
  /\ Go(t, IF serving # word THEN "out" ELSE "read") /\ UNCHANGED <<word, serving, whose, local>>

TicketRead(t) ==
  /\ Is("ticket", t, "read")
  /\ Load(t, serving) /\ Go(t, "cas") /\ UNCHANGED <<word, serving, whose>>

TicketCAS(t) ==
  /\ Is("ticket", t, "cas") /\ word < MaxTickets
  /\ IF word = local[t] THEN word' = word + 1 /\ Go(t, "in") ELSE Go(t, "out") /\ UNCHANGED word
  /\ UNCHANGED <<serving, whose, local>>

TicketRelease(t) ==
  /\ Is("ticket", t, "in")
  /\ serving' = serving + 1 /\ Go(t, "out") /\ UNCHANGED <<word, whose, local>>

---------------------------------------------------------------------------
(* MCSLock: whose is tail.                                                  *)

\* The node is reset and exchanged for tail; tryAcquire() wants tail empty.
MCSEnter(t) ==
  /\ Is("mcs", t, "enter")
  /\ link' = [link EXCEPT ![t] = NoOwner]
  /\ before' = [before EXCEPT ![t] = whose]
  /\ whose' = IF try[t] /\ whose # NoOwner THEN whose ELSE t
  /\ IF whose = NoOwner THEN Go(t, "in") ELSE Again(t, "mark")
  /\ UNCHANGED <<wait, serving>>

MCSMark(t) ==
  /\ Is("mcs", t, "mark")
  /\ wait' = [wait EXCEPT ![t] = TRUE]
  /\ Go(t, "link") /\ UNCHANGED <<link, whose, before, serving>>

MCSLink(t) ==
  /\ Is("mcs", t, "link")
  /\ link' = [link EXCEPT ![before[t]] = t]
  /\ Go(t, "spin") /\ UNCHANGED <<wait, whose, before, serving>>

MCSSpin(t) ==
  /\ Is("mcs", t, "spin") /\ ~wait[t]
  /\ Go(t, "in") /\ UNCHANGED <<wait, link, whose, before, serving>>

\* Mutant of MCSRelease: next is looked at instead of the CAS on tail.
MCSReleaseNext(t) ==
  /\ Is("mcs", t, "in")
  /\ IF link[t] = NoOwner THEN whose' = NoOwner /\ Go(t, "out") ELSE Go(t, "tell") /\ UNCHANGED whose
  /\ UNCHANGED <<wait, link, before, serving>>

\* release(): the CAS on tail, then the successor is awaited and told.
MCSRelease(t) ==
  /\ Is("mcs", t, "in")
  /\ IF whose = t THEN whose' = NoOwner /\ Go(t, "out") ELSE Go(t, "tell") /\ UNCHANGED whose
  /\ UNCHANGED <<wait, link, before, serving>>

MCSTell(t) ==
  /\ Is("mcs", t, "tell") /\ link[t] # NoOwner
  /\ wait' = [wait EXCEPT ![link[t]] = FALSE]
  /\ Go(t, "out") /\ UNCHANGED <<link, whose, before, serving>>

---------------------------------------------------------------------------
(* SpinLockRW: word is state.                                               *)

RWLoad(t, side) ==
  /\ Is("rw", t, "enter")
  /\ Load(t, word)
  /\ IF (side = "read" /\ word >= 0) \/ word = 0 THEN Go(t, side) ELSE Again(t, "enter")
  /\ UNCHANGED <<word, serving, whose>>

RWSwap(t, side) ==
  /\ Is("rw", t, side)
  /\ IF word = local[t]
       THEN /\ word' = IF side = "read" THEN word + 1 ELSE word - 1
            /\ Go(t, IF side = "read" THEN "inread" ELSE "in")
       ELSE Again(t, "enter") /\ UNCHANGED word
  /\ UNCHANGED <<serving, whose, local>>

RWRelease(t) ==
  /\ spinKind = "rw" /\ spinAt[t] \in {"in", "inread"}
  /\ word' = IF word < 0 THEN word + 1 ELSE word - 1
  /\ Go(t, "out") /\ UNCHANGED <<serving, whose, local>>

---------------------------------------------------------------------------
(* SpinBarrier: word is counter, local the target of the group.             *)

GroupEnd(cnt) == cnt + Target - (cnt % Target)

BarrierArrive(t) ==
  /\ Is("barrier", t, "out") /\ word < MaxTickets
  /\ word' = word + 1 /\ Load(t, GroupEnd(word))
  /\ serialCount' = IF word = GroupEnd(word) - 1 THEN serialCount + 1 ELSE serialCount
  /\ Go(t, "pass") /\ UNCHANGED <<serving, whose>>

BarrierPass(t) ==
  /\ Is("barrier", t, "pass") /\ local[t] - word <= 0
  /\ Go(t, "out") /\ UNCHANGED <<word, serving, whose, local, serialCount>>

---------------------------------------------------------------------------

SimpleStep(t) ==
  \/ BinaryTest(t) \/ BinarySet(t) \/ BinarySpin(t) \/ BinaryRelease(t)
  \/ OwnerCAS(t) \/ OwnerCount(t) \/ OwnerOpen(t) \/ \E full \in BOOLEAN : OwnerRelease(t, full)
  \/ TicketDraw(t) \/ TicketServed(t) \/ TicketTest(t) \/ TicketRead(t) \/ TicketCAS(t) \/ TicketRelease(t)
  \/ \E side \in {"read", "write"} : RWLoad(t, side) \/ RWSwap(t, side)
  \/ RWRelease(t)

MCSStep(t) ==
  MCSEnter(t) \/ MCSMark(t) \/ MCSLink(t) \/ MCSSpin(t) \/ MCSRelease(t) \/ MCSTell(t)

SpinNext ==
  \E t \in Threads :
    \/ \E tries \in BOOLEAN : Enter(t, tries)
    \/ SimpleStep(t) /\ UNCHANGED <<link, wait, before, try, serialCount>>
    \/ MCSStep(t) /\ UNCHANGED <<word, local, try, serialCount>>
    \/ (BarrierArrive(t) \/ BarrierPass(t)) /\ UNCHANGED <<link, wait, before, try>>

SpinSpec == SpinInit /\ [][SpinNext]_spinVars

---------------------------------------------------------------------------

Holders == {t \in Threads : spinAt[t] \in {"in", "tell", "count", "open"}}

\* The spin locks exclude, across tryAcquire() that reads before it swaps;
\* an MCS waiter that spins has somebody who tells it; a group passes the
\* spin barrier only when it is complete, with one serial thread.
SpinSound ==
  /\ Cardinality({t \in Threads : spinAt[t] \in {"in", "count", "open"}}) <= 1
  /\ \A t \in Holders : \A u \in Threads : spinAt[u] # "inread"
  /\ spinKind = "owner" => \A t \in Holders : whose = t /\ (spinAt[t] = "in" => serving = local[t])
  /\ spinKind = "rw" => word = Cardinality({t \in Threads : spinAt[t] = "inread"}) - Cardinality(Holders)
  /\ spinKind = "ticket" => word - serving = Cardinality({t \in Threads : spinAt[t] \in {"queue", "in"}})
  /\ spinKind = "mcs" => \A t \in Threads : spinAt[t] = "spin" /\ wait[t] =>
       Holders # {} \/ \E u \in Threads : spinAt[u] = "spin" /\ ~wait[u]
  /\ spinKind = "barrier" =>
       /\ serialCount = word \div Target
       /\ \A t \in Threads : spinAt[t] = "out" => local[t] <= word
============================================================================
