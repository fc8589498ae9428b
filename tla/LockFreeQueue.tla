--------------------------- MODULE LockFreeQueue ---------------------------
(***************************************************************************)
(* The intrusive queues with a lock-free push (runtime/LockFreeQueues.h,    *)
(* ConditionalNemesisQueue.h), one load, store or atomic update per step:   *)
(*   "nemesis"  QueueNemesis over QueueMCS, the default ready queue;        *)
(*   "stub"     QueueStub, and "blocking" its variant that marks the tail   *)
(*              of an empty queue;                                          *)
(*   "double"   NemesisDoubleQueue, which can also remove an element.       *)
(* A node is pushed by its own thread; the consumers share a spin lock,     *)
(* which the node's thread also takes to remove the node.  Whether a node   *)
(* is popped or removed is decided by raceResume() before it is unlinked.   *)
(***************************************************************************)
EXTENDS SequencesExt

CONSTANTS Nodes, Consumers, Nil, Stub

VARIABLES
  queueKind,
  head, tail,
  mark,        \* the tail pointer is marked: the queue is empty
  nextOf,      \* node -> Next(node)
  prevOf,      \* node -> Prev(node)
  lockHolder,  \* who holds the spin lock
  at,          \* thread -> its step; a node's thread is named by the node
  elem,        \* thread -> the node it unlinks
  seen,        \* thread -> the pointer it has read: prev in push, next in pop
  fifo         \* the elements, in the order of the swings of tail

lfqVars == <<queueKind, head, tail, mark, nextOf, prevOf, lockHolder, at, elem, seen, fifo>>

Links == Nodes \cup {Stub}

LockFreeQueueInit ==
  /\ queueKind \in {"nemesis", "stub", "blocking", "double"}
  /\ LET s == IF queueKind \in {"stub", "blocking"} THEN Stub ELSE Nil IN
     head = s /\ tail = s
  /\ mark = (queueKind = "blocking")
  /\ nextOf = [n \in Links |-> Nil] /\ prevOf = [n \in Links |-> Nil]
  /\ lockHolder = Nil
  /\ at = [t \in Nodes \cup Consumers |-> "out"]
  /\ elem = [t \in Nodes \cup Consumers |-> Nil]
  /\ seen = [t \in Nodes \cup Consumers |-> Nil]
  /\ fifo = <<>>

Hop(t, from, to) == at[t] = from /\ at' = [at EXCEPT ![t] = to]
HasStub == queueKind \in {"stub", "blocking"}

---------------------------------------------------------------------------
(* push() of a single element.                                              *)

\* Swing tail to the new element.
PushSwing(n) ==
  /\ Hop(n, "out", "swung")
  /\ tail' = n /\ mark' = FALSE
  /\ seen' = [seen EXCEPT ![n] = tail]
  /\ fifo' = Append(fifo, n)
  /\ UNCHANGED <<queueKind, head, nextOf, prevOf, lockHolder, elem>>

\* Mutant of PushLink: an element pushed behind another also becomes head.
PushLinkHead(n) ==
  /\ Hop(n, "swung", "in")
  /\ head' = n
  /\ nextOf' = IF seen[n] = Nil THEN nextOf ELSE [nextOf EXCEPT ![seen[n]] = n]
  /\ UNCHANGED <<queueKind, tail, mark, prevOf, lockHolder, elem, seen, fifo>>

\* Link the element behind the previous one, or make it the head.
PushLink(n) ==
  /\ Hop(n, "swung", "in")
  /\ \/ seen[n] = Nil /\ head' = n /\ UNCHANGED <<nextOf, prevOf>>
     \/ /\ seen[n] # Nil
        /\ nextOf' = [nextOf EXCEPT ![seen[n]] = n]
        /\ prevOf' = IF queueKind = "double" THEN [prevOf EXCEPT ![n] = seen[n]] ELSE prevOf
        /\ UNCHANGED head
  /\ seen' = [seen EXCEPT ![n] = Nil]
  /\ UNCHANGED <<queueKind, tail, mark, lockHolder, elem, fifo>>

---------------------------------------------------------------------------
(* pop(): the lock, and what each kind does with it.  A pop that finds the  *)
(* queue empty changes nothing, except that a blocking queue is marked.     *)

PopLock(c) ==
  /\ lockHolder = Nil
  /\ head # Nil
  /\ ~HasStub => at[head] # "removing"
  /\ Hop(c, "out", IF HasStub THEN "check" ELSE "next")
  /\ lockHolder' = c
  /\ elem' = [elem EXCEPT ![c] = head]
  /\ UNCHANGED <<queueKind, head, tail, mark, nextOf, prevOf, seen, fifo>>

\* Nemesis and double: read the link of the head.
PopNext(t) ==
  /\ Hop(t, "next", "head")
  /\ seen' = [seen EXCEPT ![t] = nextOf[elem[t]]]
  /\ UNCHANGED <<queueKind, head, tail, mark, nextOf, prevOf, lockHolder, elem, fifo>>

\* Store it as head.  Nemesis gives the lock back here.
PopHead(t) ==
  /\ Hop(t, "head", IF seen[t] = Nil THEN "swingback"
                    ELSE IF queueKind = "nemesis" THEN "clear" ELSE "release")
  /\ head' = seen[t]
  /\ lockHolder' = IF queueKind = "nemesis" THEN Nil ELSE lockHolder
  /\ fifo' = SelectSeq(fifo, LAMBDA n : n # elem[t])
  /\ UNCHANGED <<queueKind, tail, mark, nextOf, prevOf, elem, seen>>

\* Mutant of SwingBack: the tail is reset whoever else has swung it.
SwingBackBlind(t) ==
  /\ Hop(t, "swingback", IF queueKind = "nemesis" THEN "clear" ELSE "release")
  /\ tail' = Nil
  /\ UNCHANGED <<queueKind, head, mark, nextOf, prevOf, lockHolder, elem, seen, fifo>>

\* The head had no link: it was the last element, or a push is on its way.
SwingBack(t) ==
  /\ \/ tail = elem[t] /\ tail' = Nil
        /\ Hop(t, "swingback", IF queueKind = "nemesis" THEN "clear" ELSE "release")
     \/ tail # elem[t] /\ UNCHANGED tail
        /\ Hop(t, "swingback", "await")
  /\ UNCHANGED <<queueKind, head, mark, nextOf, prevOf, lockHolder, elem, seen, fifo>>

\* Wait for the push, then store its element as head.
PopAwait(t) ==
  /\ Hop(t, "await", IF queueKind = "nemesis" THEN "clear" ELSE "release")
  /\ nextOf[elem[t]] # Nil
  /\ head' = nextOf[elem[t]]
  /\ UNCHANGED <<queueKind, tail, mark, nextOf, prevOf, lockHolder, elem, seen, fifo>>

Release(t) ==
  /\ Hop(t, "release", "clear")
  /\ lockHolder' = Nil
  /\ UNCHANGED <<queueKind, head, tail, mark, nextOf, prevOf, elem, seen, fifo>>

\* Invalidate the link of the element; its thread may push it again.
PopClear(t) ==
  /\ at[t] = "clear"
  /\ nextOf' = [nextOf EXCEPT ![elem[t]] = Nil]
  /\ at' = [at EXCEPT ![t] = "out", ![elem[t]] = "out"]
  /\ elem' = [elem EXCEPT ![t] = Nil] /\ seen' = [seen EXCEPT ![t] = Nil]
  /\ UNCHANGED <<queueKind, head, tail, mark, prevOf, lockHolder, fifo>>

---------------------------------------------------------------------------
(* QueueStub.                                                               *)

\* checkStub() up to the test for the empty queue.
CheckStub(c) ==
  /\ \/ head # Stub /\ Hop(c, "check", "take") /\ UNCHANGED <<mark, lockHolder>>
     \/ head = Stub /\ tail = Stub /\ Hop(c, "check", "out")
        /\ mark' = (queueKind = "blocking") /\ lockHolder' = Nil
     \/ head = Stub /\ tail # Stub /\ Hop(c, "check", "skip")
        /\ UNCHANGED <<mark, lockHolder>>
  /\ UNCHANGED <<queueKind, head, tail, nextOf, prevOf, elem, seen, fifo>>

\* Take the stub out of the front ...
SkipStub(c) ==
  /\ nextOf[Stub] # Nil
  /\ Hop(c, "skip", "reswing")
  /\ head' = nextOf[Stub]
  /\ nextOf' = [nextOf EXCEPT ![Stub] = Nil]
  /\ UNCHANGED <<queueKind, tail, mark, prevOf, lockHolder, elem, seen, fifo>>

\* ... and push it to the end, with the two steps of push().
ReswingStub(c) ==
  /\ Hop(c, "reswing", "relink")
  /\ tail' = Stub /\ mark' = FALSE
  /\ seen' = [seen EXCEPT ![c] = tail]
  /\ UNCHANGED <<queueKind, head, nextOf, prevOf, lockHolder, elem, fifo>>

RelinkStub(c) ==
  /\ Hop(c, "relink", "take")
  /\ nextOf' = [nextOf EXCEPT ![seen[c]] = Stub]
  /\ UNCHANGED <<queueKind, head, tail, mark, prevOf, lockHolder, elem, seen, fifo>>

\* The head, once it has a link.
TakeHead(c) ==
  /\ Hop(c, "take", "clear")
  /\ nextOf[head] # Nil
  /\ elem' = [elem EXCEPT ![c] = head]
  /\ head' = nextOf[head]
  /\ lockHolder' = Nil
  /\ fifo' = SelectSeq(fifo, LAMBDA n : n # head)
  /\ UNCHANGED <<queueKind, tail, mark, nextOf, prevOf, seen>>

---------------------------------------------------------------------------
(* remove() of NemesisDoubleQueue.                                          *)

\* raceResume(): nobody will pop the element any more.
RemoveDecide(n) ==
  /\ queueKind = "double"
  /\ \A c \in Consumers : at[c] # "out" => elem[c] # n
  /\ Hop(n, "in", "removing")
  /\ UNCHANGED <<queueKind, head, tail, mark, nextOf, prevOf, lockHolder, elem, seen, fifo>>

RemoveLock(n) ==
  /\ lockHolder = Nil
  /\ Hop(n, "removing", IF head = n THEN "next" ELSE "unlink")
  /\ lockHolder' = n
  /\ elem' = [elem EXCEPT ![n] = n]
  /\ seen' = [seen EXCEPT ![n] = nextOf[n]]
  /\ UNCHANGED <<queueKind, head, tail, mark, nextOf, prevOf, fifo>>

\* removeInternal(): link the predecessor and the successor to each other.
Unlink(n) ==
  /\ Hop(n, "unlink", IF seen[n] = Nil THEN "shorten" ELSE "release")
  /\ nextOf' = [nextOf EXCEPT ![prevOf[n]] = seen[n]]
  /\ prevOf' = IF seen[n] = Nil THEN prevOf ELSE [prevOf EXCEPT ![seen[n]] = prevOf[n]]
  /\ fifo' = SelectSeq(fifo, LAMBDA m : m # n)
  /\ UNCHANGED <<queueKind, head, tail, mark, lockHolder, elem, seen>>

\* There was no successor: move tail back, unless a push is on its way.
Shorten(n) ==
  /\ \/ tail = n /\ tail' = prevOf[n] /\ Hop(n, "shorten", "release")
     \/ tail # n /\ UNCHANGED tail /\ Hop(n, "shorten", "successor")
  /\ UNCHANGED <<queueKind, head, mark, nextOf, prevOf, lockHolder, elem, seen, fifo>>

AwaitSuccessor(n) ==
  /\ nextOf[n] # Nil
  /\ Hop(n, "successor", "release")
  /\ prevOf' = [prevOf EXCEPT ![nextOf[n]] = prevOf[n]]
  /\ nextOf' = [nextOf EXCEPT ![prevOf[n]] = nextOf[n]]
  /\ UNCHANGED <<queueKind, head, tail, mark, lockHolder, elem, seen, fifo>>

LockFreeQueueNext ==
  \/ \E c \in Consumers : PopLock(c) \/ CheckStub(c) \/ SkipStub(c)
                          \/ ReswingStub(c) \/ RelinkStub(c) \/ TakeHead(c)
  \/ \E n \in Nodes : PushSwing(n) \/ PushLink(n) \/ RemoveDecide(n) \/ RemoveLock(n)
                      \/ Unlink(n) \/ Shorten(n) \/ AwaitSuccessor(n)
  \/ \E t \in Nodes \cup Consumers : PopNext(t) \/ PopHead(t) \/ SwingBack(t)
                                     \/ PopAwait(t) \/ Release(t) \/ PopClear(t)

LockFreeQueueSpec == LockFreeQueueInit /\ [][LockFreeQueueNext]_lfqVars

---------------------------------------------------------------------------

\* The nodes from n on, following the links.
Chain[n \in Nodes \cup {Stub, Nil}] == IF n = Nil THEN <<>> ELSE <<n>> \o Chain[nextOf[n]]

\* Elements leave from the front, in the order in which the pushes have swung
\* tail, except those that are removed.
PoppedInOrder ==
  Len(fifo') < Len(fifo)
    => \/ fifo' = Tail(fifo)
       \/ \E n \in Nodes :
            at[n] = "unlink" \/ (at[n] = "head" /\ fifo' = SelectSeq(fifo, LAMBDA m : m # n))

\* No element is lost and none is left over: whenever no operation is under
\* way, the links lead from head through exactly the elements pushed and not
\* yet popped or removed, to tail.
QueueExact ==
  (\A t \in Nodes \cup Consumers : at[t] \in {"out", "in"})
    => LET links == SelectSeq(Chain[head], LAMBDA n : n # Stub) IN
       /\ links = fifo
       /\ tail = (IF head = Nil THEN Nil ELSE Last(Chain[head]))
       /\ \A n \in Nodes : at[n] = "in" <=> Contains(fifo, n)
       /\ mark => fifo = <<>>
===========================================================================
