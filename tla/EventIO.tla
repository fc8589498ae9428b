------------------------------- MODULE EventIO -------------------------------
(***************************************************************************)
(* Blocking I/O of libfibre/EventScope.h and libfibre/Poller.*: a fred     *)
(* tries its call, registers the descriptor with the cluster's input or    *)
(* output poller for one event, and sleeps on the descriptor's binary      *)
(* semaphore; poller fibres turn events into V operations, and themselves  *)
(* sleep on the semaphore of their epoll descriptor, which the master      *)
(* poller thread watches.                                                  *)
(*                                                                         *)
(* P and V are single steps here: LockedSemaphore is their model.  The     *)
(* kernel is modelled as far as the code uses it: which descriptors are    *)
(* ready, and the interest lists of the three epoll instances, in which    *)
(* every registration is a oneshot one.                                    *)
(***************************************************************************)
CONSTANTS
  Freds,
  Fds,        \* the numbers of file descriptors
  Input,      \* the input poller fibre, and its epoll descriptor
  Output,     \* the output poller fibre, and its epoll descriptor
  Master,     \* the master poller thread
  Null

ASSUME EventAssumption ==
  /\ Input # Output
  /\ Master \notin {Input, Output}
  /\ Null \notin {Input, Output, Master}
  /\ {Input, Output, Master, Null} \cap (Freds \cup Fds) = {}
  /\ Null \notin {"open", "close", "read", "write", "epoll_wait", "connect"}

Fibres  == {Input, Output}
Pollers == Fibres \cup {Master}
Dirs    == {"in", "out"}

VARIABLES
  \* the kernel's view of a descriptor
  fdState,     \* "free", "fresh" (a socket not connected), "connecting", "connected"
  readable,    \* the descriptors with something to read (or accept)
  writable,    \* the descriptors with room to write
  failed,      \* the descriptors with a pending error
  closing,     \* the descriptors that are in close()
  registered,  \* <<poller, fd>> in the poller's interest list
  armed,       \* ... and not disabled by EPOLLONESHOT
  \* fdSyncVector
  poller,      \* <<fd, direction>> with poller[direction] set
  sync,        \* <<fd, direction>> whose semaphore has counter 1
  blocking,    \* the descriptors with blocking set
  \* freds
  pc,
  op,          \* the call a fred is in
  fdOf,        \* and its descriptor
  \* pollers
  ppc,
  events       \* fetched by epoll_wait and not yet notified: <<fd, flags>>

kernelVars == <<fdState, readable, writable, failed, closing>>
epollVars  == <<registered, armed>>
fdVars     == <<poller, sync, blocking>>
fredVars   == <<pc, op, fdOf>>
pollVars   == <<ppc, events>>
vars       == <<kernelVars, epollVars, fdVars, fredVars, pollVars>>

\* The poller fibres have registered with the master poller (pollLoopSetup).
Init ==
  /\ fdState = [d \in Fds |-> "free"]
  /\ readable = {} /\ writable = {} /\ failed = {} /\ closing = {}
  /\ registered = {Master} \X Fibres /\ armed = registered
  /\ poller = {} /\ sync = {} /\ blocking = {}
  /\ pc = [f \in Freds |-> "idle"]
  /\ op = [f \in Freds |-> Null]
  /\ fdOf = [f \in Freds |-> Null]
  /\ ppc = [p \in Pollers |-> "poll"]
  /\ events = [p \in Pollers |-> {}]

\* Calls that wait for input, and calls that wait for output.
Dir(o) == IF o \in {"read", "epoll_wait"} THEN "in" ELSE "out"

PollerFor(dir) == IF dir = "in" THEN Input ELSE Output

\* A call of this direction does not return EAGAIN.
Ready(d, dir) ==
  \/ d \in failed
  \/ dir = "in" /\ d \in readable
  \/ dir = "out" /\ d \in writable /\ fdState[d] = "connected"

---------------------------------------------------------------------------
(* epoll                                                                   *)

\* The flags epoll reports of d: the ones asked for, and errors always.
Flags(p, d) ==
  {fl \in {"IN", "OUT", "ERR"} :
     \/ fl = "IN" /\ p = Input /\ Ready(d, "in")
     \/ fl = "OUT" /\ p = Output /\ Ready(d, "out")
     \/ fl = "ERR" /\ d \in failed}

\* What epoll_wait returns for a poller fibre.
Reported(p) ==
  {<<d, Flags(p, d)>> : d \in {e \in Fds : <<p, e>> \in armed /\ Flags(p, e) # {}}}

\* An epoll descriptor is itself readable while it has something to report.
MasterReported ==
  {<<p, {"IN"}>> : p \in {q \in Fibres : <<Master, q>> \in armed /\ Reported(q) # {}}}

\* epoll_ctl with EPOLLONESHOT; a call that fails changes nothing.
Create(p, d) ==
  IF <<p, d>> \in registered
    THEN UNCHANGED epollVars
    ELSE /\ registered' = registered \cup {<<p, d>>}
         /\ armed' = armed \cup {<<p, d>>}

Modify(p, d) ==
  /\ armed' = IF <<p, d>> \in registered THEN armed \cup {<<p, d>>} ELSE armed
  /\ UNCHANGED registered

\* Events of the outside world.
Arrive(d) ==
  /\ fdState[d] = "connected" /\ d \notin readable
  /\ readable' = readable \cup {d}
  /\ UNCHANGED <<fdState, writable, failed, closing>>

Drain(d) ==
  /\ fdState[d] = "connected" /\ d \notin writable
  /\ writable' = writable \cup {d}
  /\ UNCHANGED <<fdState, readable, failed, closing>>

Established(d) ==
  /\ fdState[d] = "connecting" /\ d \notin failed
  /\ fdState' = [fdState EXCEPT ![d] = "connected"]
  /\ writable' = writable \cup {d}
  /\ UNCHANGED <<readable, failed, closing>>

Fail(d) ==
  /\ fdState[d] \in {"connecting", "connected"} /\ d \notin failed
  /\ failed' = failed \cup {d}
  /\ UNCHANGED <<fdState, readable, writable, closing>>

---------------------------------------------------------------------------
(* Semaphores                                                              *)

\* The freds and poller fibres that sleep on the semaphore of d.
Sleepers(d, dir) == {f \in Freds : pc[f] = "asleep" /\ fdOf[f] = d /\ Dir(op[f]) = dir}

\* V: hand the permit to a sleeper, or leave it for the next P.  A binary
\* semaphore drops what does not fit.
V(d, dir) ==
  \/ /\ \E f \in Sleepers(d, dir) : pc' = [pc EXCEPT ![f] = "retry"]
     /\ UNCHANGED <<sync, ppc>>
  \/ /\ Sleepers(d, dir) = {} /\ d \in Fds
     /\ sync' = sync \cup {<<d, dir>>}
     /\ UNCHANGED <<pc, ppc>>
  \/ /\ d \in Fibres /\ ppc[d] = "asleep"
     /\ ppc' = [ppc EXCEPT ![d] = "poll"]
     /\ UNCHANGED <<pc, sync>>
  \/ /\ d \in Fibres /\ ppc[d] # "asleep"
     /\ sync' = sync \cup {<<d, dir>>}
     /\ UNCHANGED <<pc, ppc>>

---------------------------------------------------------------------------
(* Descriptors                                                             *)

Using(d) == {f \in Freds : pc[f] # "idle" /\ fdOf[f] = d}

\* The application's part: one fred per direction of a descriptor, and
\* nobody uses a descriptor that is being opened or closed.
MayCall(f, d, o) ==
  /\ pc[f] = "idle" /\ d \notin closing
  /\ \A g \in Using(d) : op[g] # "open" /\ (op[g] = "close" \/ Dir(op[g]) # Dir(o))

Start(f, o, d, label) ==
  /\ pc' = [pc EXCEPT ![f] = label]
  /\ op' = [op EXCEPT ![f] = o]
  /\ fdOf' = [fdOf EXCEPT ![f] = d]

Finish(f) ==
  /\ pc' = [pc EXCEPT ![f] = "idle"]
  /\ op' = [op EXCEPT ![f] = Null]
  /\ fdOf' = [fdOf EXCEPT ![f] = Null]

At(f, label) == pc' = [pc EXCEPT ![f] = label] /\ UNCHANGED <<op, fdOf>>

\* socket() makes a fresh descriptor; accept4(), pipe2() and dup() a connected
\* one.  The number is in use before blocking is set.
Open(f, d) ==
  /\ pc[f] = "idle" /\ fdState[d] = "free"
  /\ \/ /\ fdState' = [fdState EXCEPT ![d] = "fresh"]
        /\ UNCHANGED writable
     \/ /\ fdState' = [fdState EXCEPT ![d] = "connected"]
        /\ writable' = writable \cup {d}
  /\ Start(f, "open", d, "opened")
  /\ UNCHANGED <<readable, failed, closing, epollVars, fdVars, pollVars>>

SetBlocking(f) ==
  /\ pc[f] = "opened"
  /\ blocking' \in {blocking \cup {fdOf[f]}, blocking \ {fdOf[f]}}
  /\ Finish(f)
  /\ UNCHANGED <<kernelVars, epollVars, poller, sync, pollVars>>

Fcntl(f, d) ==
  /\ pc[f] = "idle" /\ fdState[d] # "free" /\ d \notin closing
  /\ \A g \in Using(d) : op[g] # "open"
  /\ blocking' \in {blocking \cup {d}, blocking \ {d}}
  /\ UNCHANGED <<kernelVars, epollVars, poller, sync, fredVars, pollVars>>

\* close() clears the entry of the descriptor and then gives up its number,
\* which takes it off every interest list.
Close(f, d) ==
  /\ pc[f] = "idle" /\ fdState[d] # "free" /\ Using(d) = {}
  /\ Start(f, "close", d, "cleanup")
  /\ closing' = closing \cup {d}
  /\ UNCHANGED <<fdState, readable, writable, failed, epollVars, fdVars, pollVars>>

CleanupFD(d) ==
  /\ sync' = sync \ ({d} \X Dirs)
  /\ poller' = poller \ ({d} \X Dirs)
  /\ blocking' = blocking \ {d}
  /\ UNCHANGED <<kernelVars, epollVars>>

CloseSys(d) ==
  /\ fdState' = [fdState EXCEPT ![d] = "free"]
  /\ readable' = readable \ {d}
  /\ writable' = writable \ {d}
  /\ failed' = failed \ {d}
  /\ closing' = closing \ {d}
  /\ registered' = registered \ (Pollers \X {d})
  /\ armed' = armed \ (Pollers \X {d})
  /\ UNCHANGED fdVars

CloseStepSwapped(f) ==
  /\ \/ pc[f] = "cleanup" /\ CloseSys(fdOf[f]) /\ At(f, "close")
     \/ pc[f] = "close" /\ CleanupFD(fdOf[f]) /\ Finish(f)
  /\ UNCHANGED pollVars

CloseStep(f) ==
  /\ \/ pc[f] = "cleanup" /\ CleanupFD(fdOf[f]) /\ At(f, "close")
     \/ pc[f] = "close" /\ CloseSys(fdOf[f]) /\ Finish(f)
  /\ UNCHANGED pollVars

---------------------------------------------------------------------------
(* Calls                                                                   *)

\* A call that succeeds: what is left to read or to write to is up to the
\* sizes involved; epoll_wait takes nothing.
Transfer(o, d) ==
  /\ IF o = "read" THEN readable' \in {readable, readable \ {d}} ELSE UNCHANGED readable
  /\ IF o = "write" THEN writable' \in {writable, writable \ {d}} ELSE UNCHANGED writable
  /\ UNCHANGED <<fdState, failed, closing>>

\* The first tryIO() of syncIO(), or epoll_wait() with timeout 0; a descriptor
\* that is not blocking is left to the kernel.
Call(f, o, d) ==
  /\ o \in {"read", "write", "epoll_wait"}
  /\ MayCall(f, d, o) /\ fdState[d] = "connected"
  /\ \/ Ready(d, Dir(o)) /\ Transfer(o, d) /\ UNCHANGED fredVars
     \/ /\ ~Ready(d, Dir(o)) /\ (d \in blocking \/ o = "epoll_wait")
        /\ Start(f, o, d, "setup") /\ UNCHANGED kernelVars
  /\ UNCHANGED <<epollVars, fdVars, pollVars>>

\* syncIO() and epoll_wait(): the first wait registers, later ones re-arm.
SetupFDOnce(f) ==
  LET d == fdOf[f]
      dir == Dir(op[f])
  IN /\ pc[f] = "setup" /\ op[f] # "connect"
     /\ IF <<d, dir>> \in poller THEN UNCHANGED epollVars ELSE Create(PollerFor(dir), d)
     /\ poller' = poller \cup {<<d, dir>>}
     /\ At(f, "P")
     /\ UNCHANGED <<kernelVars, sync, blocking, pollVars>>

SetupFD(f) ==
  LET d == fdOf[f]
      dir == Dir(op[f])
  IN /\ pc[f] = "setup" /\ op[f] # "connect"
     /\ \/ /\ <<d, dir>> \notin poller
           /\ poller' = poller \cup {<<d, dir>>}
           /\ Create(PollerFor(dir), d)
        \/ /\ <<d, dir>> \in poller
           /\ Modify(PollerFor(dir), d)
           /\ UNCHANGED poller
     /\ At(f, "P")
     /\ UNCHANGED <<kernelVars, sync, blocking, pollVars>>

P(f) ==
  LET s == <<fdOf[f], Dir(op[f])>>
  IN /\ pc[f] = "P"
     /\ \/ s \in sync /\ sync' = sync \ {s} /\ At(f, "retry")
        \/ s \notin sync /\ At(f, "asleep") /\ UNCHANGED sync
     /\ UNCHANGED <<kernelVars, epollVars, poller, blocking, pollVars>>

\* The timeout of epoll_wait(): the registration stays armed.
TimedOut(f) ==
  /\ pc[f] = "asleep" /\ op[f] = "epoll_wait"
  /\ Finish(f)
  /\ UNCHANGED <<kernelVars, epollVars, fdVars, pollVars>>

\* tryIO() after P(): return, or arm the registration once more.
Retry(f) ==
  LET d == fdOf[f]
      dir == Dir(op[f])
  IN /\ pc[f] = "retry" /\ op[f] # "connect"
     /\ \/ Ready(d, dir) /\ Transfer(op[f], d) /\ Finish(f)
        \/ ~Ready(d, dir) /\ At(f, "setup") /\ UNCHANGED kernelVars
     /\ UNCHANGED <<epollVars, fdVars, pollVars>>

\* connect() succeeds or fails at once, or goes on in the background.
Connect(f, d) ==
  /\ MayCall(f, d, "connect") /\ fdState[d] = "fresh"
  /\ \/ /\ fdState' = [fdState EXCEPT ![d] = "connected"]
        /\ writable' = writable \cup {d}
        /\ UNCHANGED fredVars
     \/ /\ fdState' = [fdState EXCEPT ![d] = "connecting"]
        /\ IF d \in blocking THEN Start(f, "connect", d, "setup") ELSE UNCHANGED fredVars
        /\ UNCHANGED writable
  /\ UNCHANGED <<readable, failed, closing, epollVars, fdVars, pollVars>>

\* checkAsyncCompletion() registers without looking, waits once, and takes
\* the result from the socket.
SetupConnect(f) ==
  LET d == fdOf[f]
  IN /\ pc[f] = "setup" /\ op[f] = "connect"
     /\ poller' = poller \cup {<<d, "out">>}
     /\ Create(Output, d)
     /\ At(f, "P")
     /\ UNCHANGED <<kernelVars, sync, blocking, pollVars>>

ConnectReturn(f) ==
  /\ pc[f] = "retry" /\ op[f] = "connect"
  /\ Finish(f)
  /\ UNCHANGED <<kernelVars, epollVars, fdVars, pollVars>>

---------------------------------------------------------------------------
(* Pollers                                                                 *)

\* doPoll(): a reported oneshot registration is disabled.
DoPoll(p) ==
  LET evs == IF p = Master THEN MasterReported ELSE Reported(p)
  IN /\ ppc[p] = "poll" /\ events[p] = {} /\ evs # {}
     /\ events' = [events EXCEPT ![p] = evs]
     /\ armed' = armed \ {<<p, ev[1]>> : ev \in evs}
     /\ UNCHANGED <<kernelVars, registered, fdVars, fredVars, ppc>>

\* notifyOne() looks for input and for errors first, and then returns.
NotifyDirOutFirst(flags) == IF flags \cap {"OUT", "ERR"} # {} THEN "out" ELSE "in"

NotifyDir(flags) == IF flags \cap {"IN", "ERR"} # {} THEN "in" ELSE "out"

\* notifyAll(); the loop goes on after the last event.
NotifyOne(p) ==
  /\ \E ev \in events[p] :
       /\ V(ev[1], NotifyDir(ev[2]))
       /\ events' = [events EXCEPT ![p] = @ \ {ev}]
  /\ UNCHANGED <<kernelVars, epollVars, poller, blocking, op, fdOf>>

\* A poller fibre that finds nothing watches its epoll descriptor through the
\* master poller (which itself waits in the kernel).
PollNothing(p) ==
  /\ p \in Fibres /\ ppc[p] = "poll" /\ events[p] = {} /\ Reported(p) = {}
  /\ ppc' = [ppc EXCEPT ![p] = "block"]
  /\ UNCHANGED <<kernelVars, epollVars, fdVars, fredVars, events>>

BlockPollFDOnce(p) ==
  /\ ppc[p] = "block"
  /\ ppc' = [ppc EXCEPT ![p] = "P"]
  /\ UNCHANGED <<kernelVars, epollVars, fdVars, fredVars, events>>

BlockPollFD(p) ==
  /\ ppc[p] = "block"
  /\ Modify(Master, p)
  /\ ppc' = [ppc EXCEPT ![p] = "P"]
  /\ UNCHANGED <<kernelVars, fdVars, fredVars, events>>

BlockPollP(p) ==
  /\ ppc[p] = "P"
  /\ \/ /\ <<p, "in">> \in sync
        /\ sync' = sync \ {<<p, "in">>}
        /\ ppc' = [ppc EXCEPT ![p] = "poll"]
     \/ /\ <<p, "in">> \notin sync
        /\ ppc' = [ppc EXCEPT ![p] = "asleep"]
        /\ UNCHANGED sync
  /\ UNCHANGED <<kernelVars, epollVars, poller, blocking, fredVars, events>>

---------------------------------------------------------------------------

World(d) ==
  /\ Arrive(d) \/ Drain(d) \/ Established(d) \/ Fail(d)
  /\ UNCHANGED <<epollVars, fdVars, fredVars, pollVars>>

\* The lf* calls on a descriptor, and those that move data (and the wrappers
\* lfInput and lfOutput, which look at blocking in the same way).
lfDescriptor(f, d) ==
  \/ Open(f, d)
  \/ Close(f, d)
  \/ Fcntl(f, d)
  \/ Connect(f, d)
  \/ Call(f, "epoll_wait", d)

lfTransfer(f, d) == Call(f, "read", d) \/ Call(f, "write", d)

\* The C calls forward to them.
cfibre_descriptor(f, d) == lfDescriptor(f, d)
cfibre_transfer(f, d)   == lfTransfer(f, d)

Begin(f, d) == cfibre_descriptor(f, d) \/ cfibre_transfer(f, d)

Continue(f) ==
  \/ SetBlocking(f)
  \/ CloseStep(f)
  \/ SetupFD(f)
  \/ SetupConnect(f)
  \/ P(f)
  \/ Retry(f)
  \/ ConnectReturn(f)

PollStep(p) ==
  \/ DoPoll(p)
  \/ NotifyOne(p)
  \/ PollNothing(p)
  \/ BlockPollFD(p)
  \/ BlockPollP(p)

Next ==
  \/ \E f \in Freds, d \in Fds : Begin(f, d)
  \/ \E f \in Freds : Continue(f) \/ TimedOut(f)
  \/ \E p \in Pollers : PollStep(p)
  \/ \E d \in Fds : World(d)

SafeSpec == Init /\ [][Next]_vars

---------------------------------------------------------------------------

\* An event about d is on its way from poller p.
Coming(p, d) == <<p, d>> \in armed \/ d \in {ev[1] : ev \in events[p]}

\* No event is lost between the failed call and the wait, nor at the end of a
\* wait: whoever sleeps on a descriptor that is ready will be woken, by a
\* registration that is armed or an event that has been fetched.  Errors count
\* for input only; see OutputErrorKept.
EventKept ==
  \A f \in Freds :
    LET d == fdOf[f]
        dir == Dir(op[f])
    IN pc[f] = "asleep" /\ Ready(d, dir) /\ (dir = "out" => d \notin failed)
         => Coming(PollerFor(dir), d)

\* A poller fibre sleeps only while it has nothing to report, or while the
\* master poller is about to wake it.
PollerFibreKept ==
  \A p \in Fibres :
    ppc[p] = "asleep" /\ Reported(p) # {} => Coming(Master, p)

\* fdSyncVector and the interest lists agree, so that no epoll_ctl fails: a
\* descriptor is registered exactly when its poller is set, from open to close,
\* whoever is reusing the number of a closed one.
RegistrationExact ==
  \A d \in Fds \ closing, dir \in Dirs :
    <<d, dir>> \in poller <=> <<PollerFor(dir), d>> \in registered

\* connect() waits once and does not look again: it must not be let through
\* by a V that is meant for an earlier use of the descriptor.
ConnectWaits ==
  \A f \in Freds :
    pc[f] = "retry" /\ op[f] = "connect"
      => fdState[fdOf[f]] = "connected" \/ fdOf[f] \in failed

\* "User-level-block if file descriptor not ready for writing": nobody sleeps
\* for output on a descriptor that has failed, unless the event is coming.
OutputErrorKept ==
  \A f \in Freds :
    pc[f] = "asleep" /\ Dir(op[f]) = "out" /\ fdOf[f] \in failed
      => Coming(Output, fdOf[f])

=============================================================================
