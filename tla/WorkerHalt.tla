---------------------------- MODULE WorkerHalt ----------------------------
(***************************************************************************)
(* A worker that halts in its own poller instead of on a semaphore: the     *)
(* builds TESTING_WORKER_IO_URING (libfibre/IOUring.h) and                  *)
(* TESTING_WORKER_POLLER (libfibre/Poller.h, Poller.cc).  HaltSemaphore.h   *)
(* then maps tryP, P and V to trySuspend, suspend and resume of that        *)
(* poller, and V writes to an eventfd.                                      *)
(*                                                                          *)
(* With a ring, a read of the eventfd is always in flight, and its          *)
(* completion is the wake-up; a poll that is not part of P or tryP drops    *)
(* the completion, and only P and tryP ask for the next one.  With epoll    *)
(* the eventfd is registered level-triggered and read by P or tryP.  A      *)
(* fibre's request holds a Block on its stack.                              *)
(*                                                                          *)
(* Only the worker touches its poller, but for the eventfd; the kernel and  *)
(* the wakers run in between.  External: the kernel may take any number of  *)
(* the requests that are submitted, or refuse them (EBUSY, EAGAIN).  The    *)
(* idle manager lists a processor before it halts and calls V once when it  *)
(* takes it from the list (Scheduler!WakeOnce).                             *)
(***************************************************************************)
EXTENDS Integers, FiniteSets, Sequences, SequencesExt

CONSTANTS Fibres, NoBlock,   \* NoBlock: the null data of the eventfd's read
          Batch              \* BatchSize

VARIABLES
  haltKind,  \* "uring" or "epoll"
  uAt,       \* where the worker is; "sched" outside of its poller
  pollType,  \* template parameter of internalPoll()
  sq,        \* requests that are prepared, not yet submitted; sqe_count of them
  flight,    \* requests the kernel has
  cq,        \* completions, of fibres or NoBlock
  retcode,   \* fibre -> its Block, "none" outside of syncIO()
  waiting,   \* fibres that are suspended in syncIO()
  submitter, \* the fibre that runs submit()
  listed,    \* the idle manager has the worker in its list
  haltFD,    \* the value of the eventfd
  count,     \* what was read from it last
  woken,     \* resume, of internalPoll()
  haltSync   \* the binary semaphore of the eventfd in fdSyncVector

ringVars  == <<sq, flight, cq>>
fibreVars == <<retcode, waiting, submitter>>
haltVars  == <<listed, haltFD, count, woken, haltSync>>
workerVars == <<haltKind, uAt, pollType, ringVars, fibreVars, haltVars>>

\* The constructors: the ring starts with the read of the eventfd prepared.
WorkerInit ==
  /\ haltKind \in {"uring", "epoll"}
  /\ uAt = "sched" /\ pollType = "Poll"
  /\ sq = IF haltKind = "uring" THEN <<NoBlock>> ELSE <<>>
  /\ flight = {} /\ cq = <<>>
  /\ retcode = [f \in Fibres |-> "none"] /\ waiting = {} /\ submitter = NoBlock
  /\ listed = FALSE /\ haltFD = 0 /\ count = 0 /\ woken = 0 /\ haltSync = 0

Goto(from, to) == uAt = from /\ uAt' = to

PollStart == IF haltKind = "uring" THEN "ring" ELSE "epoll"

---------------------------------------------------------------------------
(* The wakers and the kernel.                                               *)

\* V(): resume() writes to the eventfd.
resume ==
  /\ listed
  /\ listed' = FALSE /\ haltFD' = haltFD + 1
  /\ UNCHANGED <<haltKind, uAt, pollType, ringVars, fibreVars, count, woken, haltSync>>

\* A request completes; the read of the eventfd once it is not zero.
Complete(b) ==
  /\ b \in flight
  /\ flight' = flight \ {b} /\ cq' = Append(cq, b)
  /\ IF b = NoBlock
       THEN haltFD > 0 /\ count' = haltFD /\ haltFD' = 0
       ELSE UNCHANGED <<count, haltFD>>
  /\ UNCHANGED <<haltKind, uAt, pollType, sq, fibreVars, listed, woken, haltSync>>

---------------------------------------------------------------------------
(* IOUring: submission.                                                     *)

\* submitRing() that succeeds; FALSE leaves the queue as it is.
submitRing(n) ==
  /\ n \in 1..Len(sq)
  /\ flight' = flight \cup {sq[i] : i \in 1..n}
  /\ sq' = SubSeq(sq, n + 1, Len(sq))

\* submit(): there is a free entry, since a full batch is flushed.  Below a
\* batch it returns, to a fibre to suspend and to suspend() to return.
Prepare(b) ==
  /\ sq' = Append(sq, b)
  /\ uAt' = IF Len(sq) + 1 < Batch THEN "sched" ELSE "flush"
  /\ waiting' = IF b \in Fibres /\ Len(sq) + 1 < Batch THEN waiting \cup {b} ELSE waiting
  /\ submitter' = IF Len(sq) + 1 < Batch THEN NoBlock ELSE b

\* syncIO() up to the suspension.
syncIO(f) ==
  /\ haltKind = "uring" /\ uAt = "sched"
  /\ f \notin waiting /\ retcode[f] = "none"
  /\ retcode' = [retcode EXCEPT ![f] = "unset"]
  /\ Prepare(f)
  /\ UNCHANGED <<haltKind, pollType, flight, cq, haltVars>>

\* The resumed fibre reads its Block and returns.
syncIOReturn(f) ==
  /\ uAt = "sched" /\ f \notin waiting /\ retcode[f] # "none"
  /\ retcode' = [retcode EXCEPT ![f] = "none"]
  /\ UNCHANGED <<haltKind, uAt, pollType, ringVars, waiting, submitter, haltVars>>

\* while (!submitRing()) internalPoll<Check>();
Flush ==
  /\ Goto("flush", "sched")
  /\ \E n \in 1..Len(sq) : submitRing(n)
  /\ waiting' = waiting \cup ({submitter} \cap Fibres) /\ submitter' = NoBlock
  /\ UNCHANGED <<haltKind, pollType, cq, retcode, haltVars>>

FlushCheck ==
  /\ Goto("flush", "peek")
  /\ pollType' = "Check"
  /\ UNCHANGED <<haltKind, ringVars, fibreVars, haltVars>>

---------------------------------------------------------------------------
(* internalPoll().                                                          *)

\* poll(), from searchAll().
poll ==
  /\ Goto("sched", PollStart)
  /\ pollType' = "Poll"
  /\ UNCHANGED <<haltKind, ringVars, fibreVars, haltVars>>

\* The idle manager lists the worker, which halts.
Halt ==
  /\ Goto("sched", "halt")
  /\ listed' = TRUE
  /\ UNCHANGED <<haltKind, pollType, ringVars, fibreVars, haltFD, count, woken, haltSync>>

\* halt(): trySuspend() a number of times, then suspend().
Suspend(type) ==
  /\ Goto("halt", PollStart)
  /\ type \in {"Try", "Suspend"} /\ pollType' = type
  /\ UNCHANGED <<haltKind, ringVars, fibreVars, haltVars>>

\* What internalPoll() submits first, and whether it could is ignored.
RingSubmit ==
  /\ Goto("ring", IF pollType = "Suspend" THEN "wait" ELSE "peek")
  /\ UNCHANGED cq
  /\ \/ \E n \in 1..Len(sq) : submitRing(n)
     \/ UNCHANGED <<sq, flight>>
  /\ UNCHANGED <<haltKind, pollType, fibreVars, haltVars>>

\* processCQE() of some completions: the fibres get a return code and are
\* resumed, the eventfd's read is counted.
processCQE(done) ==
  LET fibres == ToSet(done) \cap Fibres IN
  /\ \E res \in [fibres -> {"ok", "error"}] :
       retcode' = [f \in Fibres |-> IF f \in fibres THEN res[f] ELSE retcode[f]]
  /\ waiting' = waiting \ fibres
  /\ woken' = IF NoBlock \in ToSet(done) THEN woken + 1 ELSE woken

\* io_uring_wait_cqe(), one completion.
RingWait ==
  /\ Goto("wait", "peek")
  /\ cq # <<>>
  /\ processCQE(<<Head(cq)>>) /\ cq' = Tail(cq)
  /\ UNCHANGED <<haltKind, pollType, sq, flight, submitter, listed, haltFD, count, haltSync>>

\* io_uring_peek_batch_cqe(): all that are there.
RingPeek ==
  /\ Goto("peek", "done")
  /\ processCQE(cq) /\ cq' = <<>>
  /\ UNCHANGED <<haltKind, pollType, sq, flight, submitter, listed, haltFD, count, haltSync>>

\* The result: poll() and submit() ignore woken.
RingReturn ==
  /\ Goto("done", CASE pollType = "Poll"                              -> "sched"
                    [] pollType = "Check"                             -> "flush"
                    [] pollType \in {"Try", "Suspend"} /\ woken > 0   -> "rearm"
                    [] pollType = "Try" /\ woken = 0                  -> "halt"
                    [] pollType = "Suspend" /\ woken = 0              -> "ring")
  /\ woken' = IF pollType \in {"Poll", "Check"} THEN 0 ELSE woken
  /\ UNCHANGED <<haltKind, pollType, ringVars, fibreVars, listed, haltFD, count, haltSync>>

\* suspend() and trySuspend() ask for the next wake-up.
Rearm ==
  /\ uAt = "rearm"
  /\ Prepare(NoBlock)
  /\ woken' = 0
  /\ UNCHANGED <<haltKind, pollType, flight, cq, retcode, listed, haltFD, count, haltSync>>

\* WorkerPoller: doPoll() and notifyAll(); other descriptors have events too.
EpollEvents ==
  /\ uAt = "epoll"
  /\ uAt' = IF pollType = "Poll" THEN "sched" ELSE "tryblock"
  /\ haltSync' = IF haltFD > 0 THEN 1 ELSE haltSync
  /\ UNCHANGED <<haltKind, pollType, ringVars, fibreVars, listed, haltFD, count, woken>>

\* tryblock() on the eventfd's semaphore, and the read after it.
EpollHalted ==
  /\ Goto("tryblock", "sched")
  /\ haltSync = 1
  /\ haltSync' = 0 /\ count' = haltFD /\ haltFD' = 0
  /\ UNCHANGED <<haltKind, pollType, ringVars, fibreVars, listed, woken>>

EpollAgain ==
  /\ Goto("tryblock", IF pollType = "Try" THEN "halt" ELSE "epoll")
  /\ haltSync = 0
  /\ UNCHANGED <<haltKind, pollType, ringVars, fibreVars, haltVars>>

WorkerNext ==
  \/ resume \/ poll \/ Halt \/ Flush \/ FlushCheck
  \/ \E b \in Fibres \cup {NoBlock} : Complete(b)
  \/ \E f \in Fibres : syncIO(f) \/ syncIOReturn(f)
  \/ \E type \in {"Try", "Suspend"} : Suspend(type)
  \/ RingSubmit \/ RingWait \/ RingPeek \/ RingReturn \/ Rearm
  \/ EpollEvents \/ EpollHalted \/ EpollAgain

WorkerSpec == WorkerInit /\ [][WorkerNext]_workerVars

---------------------------------------------------------------------------

\* How often a request is in the hands of the ring.
Outstanding(b) ==
  Cardinality({i \in DOMAIN sq : sq[i] = b}) + Cardinality({i \in DOMAIN cq : cq[i] = b})
    + (IF b \in flight THEN 1 ELSE 0)

\* The worker is in P() or tryP().
Halting ==
  \/ uAt \in {"halt", "wait", "rearm", "tryblock"}
  \/ uAt \in {"ring", "peek", "done", "epoll"} /\ pollType \in {"Try", "Suspend"}

\* Where a V() is until P() or tryP() has returned.
Tokens == haltFD + woken + (IF NoBlock \in ToSet(cq) THEN 1 ELSE 0)

\* A V() is never lost in the poller nor counted twice: none outside of a
\* halt, one from the moment the idle manager has picked the worker, and 1 is
\* what the eventfd then reads, as both pollers assert.  While it is on its
\* way the read of the eventfd is outstanding, also after a poll that found
\* nothing, and the epoll worker never reads an empty eventfd.
WakeupKept ==
  /\ Tokens = IF Halting /\ ~listed THEN 1 ELSE 0
  /\ count \in {0, 1} /\ (uAt = "rearm" => count = 1)
  /\ haltKind = "uring" => Outstanding(NoBlock) + woken = 1
  /\ haltSync = 1 => haltFD = 1

\* A fibre in syncIO() has one request and any other fibre none, since the
\* request points into its stack; it returns with the code of its own request;
\* and the queue of requests never runs over.
RequestsExact ==
  /\ \A f \in Fibres : Outstanding(f) = IF f \in waiting \cup {submitter} THEN 1 ELSE 0
  /\ \A f \in Fibres : (retcode[f] = "unset") = (f \in waiting \cup {submitter})
  /\ submitter \notin waiting
  /\ Len(sq) <= Batch
===========================================================================
