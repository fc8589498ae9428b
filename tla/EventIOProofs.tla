---------------------------- MODULE EventIOProofs ----------------------------
(***************************************************************************)
(* Proofs about EventIO: the safety properties of the run io_events, for   *)
(* any number of freds and descriptors.                                    *)
(***************************************************************************)
EXTENDS EventIO, TLAPS

\* Where a fred is in its call, and which calls pass there.
InCall == {"setup", "P", "asleep", "retry"}
Calls  == {"read", "write", "epoll_wait", "connect"}
EvFlags == {"IN", "OUT", "ERR"}

IOTypeOK ==
  /\ fdState \in [Fds -> {"free", "fresh", "connecting", "connected"}]
  /\ readable \subseteq Fds /\ writable \subseteq Fds
  /\ failed \subseteq Fds /\ closing \subseteq Fds
  /\ registered \subseteq ({Master} \X Fibres) \cup (Fibres \X Fds)
  /\ armed \subseteq registered
  /\ poller \subseteq Fds \X Dirs
  /\ sync \subseteq (Fds \X Dirs) \cup (Fibres \X {"in"})
  /\ blocking \subseteq Fds
  /\ pc \in [Freds -> InCall \cup {"idle", "opened", "cleanup", "close"}]
  /\ op \in [Freds -> Calls \cup {"open", "close", Null}]
  /\ fdOf \in [Freds -> Fds \cup {Null}]
  /\ ppc \in [Pollers -> {"poll", "block", "P", "asleep"}]
  /\ events \in [Pollers -> SUBSET ((Fds \cup Fibres) \X SUBSET EvFlags)]

\* What poller p has fetched: from a poller fibre, descriptors with the flags
\* of its direction or an error; from the master, poller fibres.
EventsTyped ==
  /\ \A ev \in events[Master] : ev[1] \in Fibres /\ ev[2] = {"IN"}
  /\ \A ev \in events[Input] : ev[1] \in Fds /\ ev[2] \cap {"IN", "ERR"} # {}
  /\ \A ev \in events[Output] :
       /\ ev[1] \in Fds /\ ev[2] # {} /\ "IN" \notin ev[2]
       /\ "ERR" \in ev[2] => ev[1] \in failed

\* The label of a fred fits its call, and its descriptor is in use
\* (and past connect()).
CallsTyped ==
  \A f \in Freds :
    /\ pc[f] # "idle" => fdOf[f] \in Fds /\ fdState[fdOf[f]] # "free"
    /\ pc[f] = "opened" <=> op[f] = "open"
    /\ pc[f] \in {"cleanup", "close"} <=> op[f] = "close"
    /\ pc[f] \in InCall <=> op[f] \in Calls
    /\ pc[f] \in InCall => fdState[fdOf[f]] # "fresh"

\* Two freds use a descriptor only in opposite directions.
OnePerDirection ==
  \A f, g \in Freds :
    f # g /\ pc[f] # "idle" /\ pc[g] # "idle" /\ fdOf[f] = fdOf[g]
      => /\ op[f] \in Calls /\ op[g] \in Calls
         /\ Dir(op[f]) # Dir(op[g])

\* closing is the set of the descriptors that some fred closes.
ClosingExact ==
  /\ \A d \in closing : \E f \in Freds : op[f] = "close" /\ fdOf[f] = d
  /\ \A f \in Freds : op[f] = "close" => fdOf[f] \in closing

\* The entry of a descriptor is clear from cleanupFD() of close() to the first
\* wait of its next use; connect() relies on that.
EntriesCleared ==
  /\ \A d \in Fds, dir \in Dirs :
       fdState[d] \in {"free", "fresh"} => <<d, dir>> \notin poller
  /\ \A f \in Freds, dir \in Dirs : pc[f] = "close" => <<fdOf[f], dir>> \notin poller
  /\ \A f \in Freds :
       pc[f] = "setup" /\ op[f] = "connect" => <<fdOf[f], "out">> \notin poller

\* The poller fibres stay registered with the master poller.
FibresRegistered == {Master} \X Fibres \subseteq registered

HasEvent(p, d) == \E ev \in events[p] : ev[1] = d

\* The output side of descriptor d owes a wake-up: an armed registration, a
\* fetched event or a permit.
OutputOwed(d) ==
  \/ <<Output, d>> \in armed
  \/ HasEvent(Output, d)
  \/ <<d, "out">> \in sync

\* Fred f is the one that it is owed to.
OutputWaits(f, d) ==
  /\ fdOf[f] = d /\ op[f] \in Calls /\ Dir(op[f]) = "out"
  /\ pc[f] \in {"P", "asleep"}
  /\ <<d, "out">> \in sync => pc[f] = "P"

\* The output side of a descriptor is at rest unless a fred waits there, ...
OutputAwaited ==
  \A d \in Fds : OutputOwed(d) => \E f \in Freds : OutputWaits(f, d)

\* ... owes one wake-up at a time, ...
OutputOnce ==
  \A d \in Fds :
    /\ HasEvent(Output, d) => <<Output, d>> \notin armed
    /\ <<d, "out">> \in sync => <<Output, d>> \notin armed /\ ~HasEvent(Output, d)
    /\ \A ev1, ev2 \in events[Output] : ev1[1] = ev2[1] => ev1 = ev2

\* ... and an event or a permit says that the call can be tried again.
OutputReady ==
  \A d \in Fds :
    HasEvent(Output, d) \/ <<d, "out">> \in sync
      => fdState[d] = "connected" \/ d \in failed

\* A fred that waits is owed its wake-up by an armed registration, a fetched
\* event, or a permit it has not taken yet.
WaitersAwaited ==
  \A f \in Freds :
    LET d == fdOf[f]
        dir == Dir(op[f])
    IN pc[f] \in {"P", "asleep"}
         => \/ <<PollerFor(dir), d>> \in armed
            \/ HasEvent(PollerFor(dir), d)
            \/ pc[f] = "P" /\ <<d, dir>> \in sync
            \/ dir = "out" /\ d \in failed

\* The same for a poller fibre and the master poller.
FibresAwaited ==
  \A p \in Fibres :
    ppc[p] \in {"P", "asleep"}
      => \/ <<Master, p>> \in armed
         \/ HasEvent(Master, p)
         \/ ppc[p] = "P" /\ <<p, "in">> \in sync

IOInv ==
  /\ IOTypeOK
  /\ EventsTyped
  /\ CallsTyped
  /\ OnePerDirection
  /\ ClosingExact
  /\ RegistrationExact
  /\ EntriesCleared
  /\ FibresRegistered
  /\ OutputAwaited
  /\ OutputOnce
  /\ OutputReady
  /\ WaitersAwaited
  /\ FibresAwaited
  /\ ConnectWaits

---------------------------------------------------------------------------
(* What a step may rely on.                                                *)

\* A call is used between setup and its return, by one fred per direction.
LEMMA InUse ==
  ASSUME IOInv, NEW f \in Freds, pc[f] # "idle"
  PROVE  /\ fdOf[f] \in Fds /\ fdState[fdOf[f]] # "free"
         /\ pc[f] \in InCall => op[f] \in Calls /\ fdOf[f] \notin closing
<1>1. fdOf[f] \in Fds /\ fdState[fdOf[f]] # "free"
  BY DEF IOInv, CallsTyped
<1>2. ASSUME pc[f] \in InCall PROVE op[f] \in Calls
  BY <1>2 DEF IOInv, CallsTyped
<1>3. ASSUME pc[f] \in InCall, fdOf[f] \in closing PROVE FALSE
  <2>1. PICK g \in Freds : op[g] = "close" /\ fdOf[g] = fdOf[f]
    BY <1>3 DEF IOInv, ClosingExact
  <2>2. pc[g] \in {"cleanup", "close"}
    BY <2>1 DEF IOInv, CallsTyped
  <2>3. g # f /\ pc[g] # "idle"
    BY <2>2, <1>3 DEF InCall
  <2>4. op[g] \in Calls
    BY <2>1, <2>3 DEF IOInv, OnePerDirection
  <2> QED BY <2>1, <2>4 DEF Calls
<1> QED BY <1>1, <1>2, <1>3

\* Nothing is owed to the output side of a descriptor whose fred does not wait.
LEMMA NothingOwed ==
  ASSUME IOInv, NEW f \in Freds, pc[f] \notin {"idle", "P", "asleep"},
         op[f] \in Calls => Dir(op[f]) = "out"
  PROVE  ~OutputOwed(fdOf[f])
<1>1. fdOf[f] \in Fds
  BY InUse
<1>2. SUFFICES ASSUME OutputOwed(fdOf[f]) PROVE FALSE
  OBVIOUS
<1>3. PICK g \in Freds : OutputWaits(g, fdOf[f])
  BY <1>1, <1>2 DEF IOInv, OutputAwaited
<1>4. g # f /\ pc[g] # "idle" /\ fdOf[g] = fdOf[f] /\ Dir(op[g]) = "out"
  BY <1>3 DEF OutputWaits
<1>5. op[f] \in Calls /\ Dir(op[f]) # Dir(op[g])
  BY <1>4 DEF IOInv, OnePerDirection
<1> QED BY <1>4, <1>5

\* Who waits for output goes on waiting when another fred f takes a step that
\* gives nothing to the output side.
LEMMA OutputKept ==
  ASSUME IOInv, NEW f \in Freds, pc[f] \notin {"P", "asleep"},
         \A g \in Freds \ {f} : pc'[g] = pc[g] /\ op'[g] = op[g] /\ fdOf'[g] = fdOf[g],
         armed' \subseteq armed, sync' \subseteq sync, events' = events
  PROVE  OutputAwaited'
<1>1. SUFFICES ASSUME NEW e \in Fds, OutputOwed(e)'
               PROVE  \E g \in Freds : OutputWaits(g, e)'
  BY DEF OutputAwaited
<1>2. OutputOwed(e)
  BY <1>1 DEF OutputOwed, HasEvent
<1>3. PICK g \in Freds : OutputWaits(g, e)
  BY <1>2 DEF IOInv, OutputAwaited
<1>4. g # f
  BY <1>3 DEF OutputWaits
<1>5. OutputWaits(g, e)'
  BY <1>3, <1>4 DEF OutputWaits
<1> QED BY <1>5

---------------------------------------------------------------------------
(* The invariant is kept by every step.                                    *)

\* Arrivals, drains, connections and errors in the kernel.
LEMMA WorldInv ==
  ASSUME IOInv, NEW d \in Fds, World(d)
  PROVE  IOInv'
<1>1. IOTypeOK' /\ EventsTyped' /\ OnePerDirection' /\ ClosingExact' /\
   RegistrationExact' /\ FibresRegistered' /\ OutputAwaited' /\ OutputOnce' /\
   WaitersAwaited' /\ FibresAwaited'
  BY DEF IOInv, IOTypeOK, EventsTyped, OnePerDirection, ClosingExact,
     RegistrationExact, FibresRegistered, OutputAwaited, OutputOnce, WaitersAwaited,
     FibresAwaited, World, Arrive, Drain, Established, Fail, epollVars, fdVars,
     fredVars, pollVars, OutputOwed, OutputWaits, HasEvent
<1>2. CallsTyped'
  BY EventAssumption DEF IOInv, CallsTyped, IOTypeOK, InCall, Calls, World, Arrive,
     Drain, Established, Fail, fredVars
<1>3. EntriesCleared'
  BY EventAssumption DEF IOInv, EntriesCleared, IOTypeOK, CallsTyped, InCall, Calls,
     World, Arrive, Drain, Established, Fail, fdVars, fredVars
<1>4. OutputReady'
  BY EventAssumption DEF IOInv, OutputReady, IOTypeOK, CallsTyped, InCall, Calls,
     HasEvent, World, Arrive, Drain, Established, Fail, fdVars, pollVars
<1>5. ConnectWaits'
  BY EventAssumption DEF IOInv, ConnectWaits, IOTypeOK, CallsTyped, InCall, Calls,
     World, Arrive, Drain, Established, Fail, fredVars
<1> QED BY <1>1, <1>2, <1>3, <1>4, <1>5 DEF IOInv

\* socket(), accept4(), pipe2() and dup().
LEMMA OpenInv ==
  ASSUME IOInv, NEW f \in Freds, NEW d \in Fds, Open(f, d)
  PROVE  IOInv'
<1>1. IOTypeOK' /\ EventsTyped' /\ RegistrationExact' /\ FibresRegistered' /\
   OutputOnce' /\ WaitersAwaited' /\ FibresAwaited'
  BY DEF IOInv, IOTypeOK, EventsTyped, RegistrationExact, FibresRegistered,
     OutputOnce, WaitersAwaited, FibresAwaited, Open, Start, epollVars, fdVars,
     pollVars, HasEvent
<1>2. CallsTyped'
  BY EventAssumption DEF IOInv, CallsTyped, IOTypeOK, InCall, Calls, Open, Start
<1>3. OnePerDirection'
  BY EventAssumption DEF IOInv, OnePerDirection, IOTypeOK, CallsTyped, InCall, Calls,
     Open, Start
<1>4. ClosingExact'
  BY EventAssumption DEF IOInv, ClosingExact, IOTypeOK, CallsTyped, InCall, Calls,
     Open, Start
<1>5. EntriesCleared'
  BY EventAssumption DEF IOInv, EntriesCleared, IOTypeOK, CallsTyped, InCall, Calls,
     Open, Start, fdVars
<1>6. OutputAwaited'
  BY EventAssumption DEF IOInv, OutputAwaited, IOTypeOK, CallsTyped, InCall, Calls,
     OutputOwed, OutputWaits, HasEvent, Open, Start, epollVars, fdVars, pollVars
<1>7. OutputReady'
  BY EventAssumption DEF IOInv, OutputReady, IOTypeOK, CallsTyped, InCall, Calls,
     HasEvent, Open, Start, fdVars, pollVars
<1>8. ConnectWaits'
  BY EventAssumption DEF IOInv, ConnectWaits, IOTypeOK, CallsTyped, InCall, Calls,
     Open, Start
<1> QED BY <1>1, <1>2, <1>3, <1>4, <1>5, <1>6, <1>7, <1>8 DEF IOInv

\* The new descriptor gets its blocking flag.
LEMMA SetBlockingInv ==
  ASSUME IOInv, NEW f \in Freds, SetBlocking(f)
  PROVE  IOInv'
<1>1. EventsTyped' /\ RegistrationExact' /\ EntriesCleared' /\ FibresRegistered' /\
   OutputOnce' /\ OutputReady' /\ WaitersAwaited' /\ FibresAwaited' /\ ConnectWaits'
  BY DEF IOInv, EventsTyped, RegistrationExact, EntriesCleared, FibresRegistered,
     OutputOnce, OutputReady, WaitersAwaited, FibresAwaited, ConnectWaits,
     SetBlocking, Finish, kernelVars, pollVars, epollVars, HasEvent
<1>2. IOTypeOK'
  BY EventAssumption DEF IOInv, IOTypeOK, CallsTyped, InCall, Calls, SetBlocking,
     Finish, kernelVars, epollVars, pollVars
<1>3. CallsTyped'
  BY EventAssumption DEF IOInv, CallsTyped, IOTypeOK, InCall, Calls, SetBlocking,
     Finish, kernelVars
<1>4. OnePerDirection'
  BY EventAssumption DEF IOInv, OnePerDirection, IOTypeOK, CallsTyped, InCall, Calls,
     SetBlocking, Finish
<1>5. ClosingExact'
  BY EventAssumption DEF IOInv, ClosingExact, IOTypeOK, CallsTyped, InCall, Calls,
     SetBlocking, Finish, kernelVars
<1>6. OutputAwaited'
  BY EventAssumption DEF IOInv, OutputAwaited, IOTypeOK, CallsTyped, InCall, Calls,
     OutputOwed, OutputWaits, HasEvent, SetBlocking, Finish, epollVars, pollVars
<1> QED BY <1>1, <1>2, <1>3, <1>4, <1>5, <1>6 DEF IOInv

\* fcntl() on a descriptor that is open.
LEMMA FcntlInv ==
  ASSUME IOInv, NEW f \in Freds, NEW d \in Fds, Fcntl(f, d)
  PROVE  IOInv'
<1>1. IOTypeOK' /\ EventsTyped' /\ CallsTyped' /\ OnePerDirection' /\ ClosingExact' /\
   RegistrationExact' /\ EntriesCleared' /\ FibresRegistered' /\ OutputAwaited' /\
   OutputOnce' /\ OutputReady' /\ WaitersAwaited' /\ FibresAwaited' /\ ConnectWaits'
  BY DEF IOInv, IOTypeOK, EventsTyped, CallsTyped, OnePerDirection, ClosingExact,
     RegistrationExact, EntriesCleared, FibresRegistered, OutputAwaited, OutputOnce,
     OutputReady, WaitersAwaited, FibresAwaited, ConnectWaits, Fcntl, kernelVars,
     epollVars, fredVars, pollVars, OutputOwed, OutputWaits, HasEvent
<1> QED BY <1>1 DEF IOInv

\* close() starts.
LEMMA CloseInv ==
  ASSUME IOInv, NEW f \in Freds, NEW d \in Fds, Close(f, d)
  PROVE  IOInv'
<1>1. IOTypeOK' /\ EventsTyped' /\ RegistrationExact' /\ EntriesCleared' /\
   FibresRegistered' /\ OutputOnce' /\ OutputReady' /\ WaitersAwaited' /\
   FibresAwaited' /\ ConnectWaits'
  BY DEF IOInv, IOTypeOK, EventsTyped, RegistrationExact, EntriesCleared,
     FibresRegistered, OutputOnce, OutputReady, WaitersAwaited, FibresAwaited,
     ConnectWaits, Close, Start, epollVars, fdVars, pollVars, HasEvent
<1>2. CallsTyped'
  BY EventAssumption DEF IOInv, CallsTyped, IOTypeOK, InCall, Calls, Close, Start
<1>3. OnePerDirection'
  BY EventAssumption DEF IOInv, OnePerDirection, IOTypeOK, CallsTyped, ClosingExact,
     InCall, Calls, Using, Dir, Close, Start
<1>4. ClosingExact'
  BY EventAssumption DEF IOInv, ClosingExact, IOTypeOK, CallsTyped, InCall, Calls,
     Close, Start
<1>5. OutputAwaited'
  BY EventAssumption DEF IOInv, OutputAwaited, IOTypeOK, CallsTyped, InCall, Calls,
     OutputOwed, OutputWaits, HasEvent, Close, Start, epollVars, fdVars, pollVars
<1> QED BY <1>1, <1>2, <1>3, <1>4, <1>5 DEF IOInv

\* close(): cleanupFD(), and then the system call.
LEMMA CloseStepInv ==
ASSUME IOInv, NEW f \in Freds, CloseStep(f)
  PROVE  IOInv'
<1>0. fdOf[f] \in Fds /\ op[f] = "close" /\ ~OutputOwed(fdOf[f])
  <2>1. pc[f] \in {"cleanup", "close"}
    BY DEF CloseStep
  <2>2. op[f] = "close"
    BY <2>1 DEF IOInv, CallsTyped
  <2> QED BY <2>1, <2>2, InUse, NothingOwed DEF Calls
<1>alone. \A g \in Freds : g # f /\ pc[g] # "idle" => fdOf[g] # fdOf[f]
  BY <1>0 DEF IOInv, OnePerDirection, CallsTyped, Calls
<1>9. OutputAwaited'
  BY OutputKept DEF CloseStep, CleanupFD, CloseSys, Finish, At, epollVars, fdVars, fredVars, pollVars, IOInv, IOTypeOK
<1>2. EventsTyped'
  <2>1. \A ev \in events[Output] : ev[1] # fdOf[f]
    BY <1>0 DEF OutputOwed, HasEvent
  <2> QED BY <2>1 DEF IOInv, EventsTyped, CloseStep, CleanupFD, CloseSys, kernelVars, pollVars
<1>6. RegistrationExact'
  <2>1. CASE pc[f] = "cleanup"
    <3>1. /\ fdOf[f] \in closing /\ UNCHANGED <<closing, registered>>
          /\ \A x \in Fds \ closing, dir \in Dirs : <<x, dir>> \in poller' <=> <<x, dir>> \in poller
      BY <1>0, <2>1 DEF CloseStep, CleanupFD, kernelVars, epollVars, IOInv, ClosingExact
    <3> QED BY <3>1 DEF IOInv, RegistrationExact
  <2>2. CASE pc[f] = "close"
    <3>1. /\ closing' = closing \ {fdOf[f]} /\ UNCHANGED poller
          /\ registered' = registered \ (Pollers \X {fdOf[f]})
      BY <2>2 DEF CloseStep, CloseSys, fdVars
    <3>2. \A dir \in Dirs : <<fdOf[f], dir>> \notin poller
      BY <2>2 DEF IOInv, EntriesCleared
    <3>3. \A dir \in Dirs : PollerFor(dir) \in Pollers
      BY DEF PollerFor, Pollers, Fibres
    <3> QED BY <3>1, <3>2, <3>3 DEF IOInv, RegistrationExact
  <2> QED BY <2>1, <2>2 DEF CloseStep
<1>12. FibresAwaited'
  <2>1. \A q \in Fibres : /\ <<Master, q>> \in armed => <<Master, q>> \in armed'
                          /\ <<q, "in">> \in sync => <<q, "in">> \in sync'
    BY <1>0, EventAssumption DEF CloseStep, CleanupFD, CloseSys, epollVars, fdVars, Fibres
  <2> QED BY <2>1 DEF IOInv, FibresAwaited, HasEvent, CloseStep, pollVars
<1>11. OutputReady'
  BY <1>0 DEF IOInv, OutputReady, OutputOwed, HasEvent, IOTypeOK, CloseStep, CleanupFD, CloseSys, kernelVars, pollVars, fdVars
<1>10. OutputOnce'
  BY DEF IOInv, OutputOnce, HasEvent, CloseStep, CleanupFD, CloseSys, epollVars, pollVars, fdVars
<1>1. IOTypeOK'
  BY EventAssumption DEF IOInv, IOTypeOK, InCall, CloseStep, CleanupFD, CloseSys, At, Finish, kernelVars, epollVars, fdVars, pollVars
<1>3. CallsTyped'
  BY <1>0, <1>alone, EventAssumption DEF IOInv, IOTypeOK, CallsTyped, InCall, Calls, CloseStep, CleanupFD, CloseSys, At, Finish, kernelVars
<1>4. OnePerDirection'
  BY <1>0, <1>alone DEF IOInv, IOTypeOK, OnePerDirection, CloseStep, At, Finish
<1>5. ClosingExact'
  BY <1>0, <1>alone, EventAssumption DEF IOInv, IOTypeOK, ClosingExact, CallsTyped, CloseStep, CleanupFD, CloseSys, At, Finish, kernelVars
<1>7. EntriesCleared'
  BY <1>0, <1>alone DEF IOInv, IOTypeOK, EntriesCleared, CallsTyped, CloseStep, CleanupFD, CloseSys, At, Finish, kernelVars, fdVars
<1>8. FibresRegistered'
  BY <1>0, EventAssumption DEF IOInv, FibresRegistered, Fibres, CloseStep, CleanupFD, CloseSys, epollVars
<1>13. WaitersAwaited'
  BY <1>0, <1>alone DEF IOInv, IOTypeOK, WaitersAwaited, HasEvent, CloseStep, CleanupFD, CloseSys, At, Finish, kernelVars, epollVars, fdVars, pollVars
<1>14. ConnectWaits'
  BY <1>0, <1>alone DEF IOInv, IOTypeOK, ConnectWaits, CallsTyped, InCall, CloseStep, CleanupFD, CloseSys, At, Finish, kernelVars
<1> QED BY <1>1, <1>2, <1>3, <1>4, <1>5, <1>6, <1>7, <1>8, <1>9, <1>10, <1>11, <1>12, <1>13, <1>14 DEF IOInv

\* connect(), at once or in the background.
LEMMA ConnectInv ==
  ASSUME IOInv, NEW f \in Freds, NEW d \in Fds, Connect(f, d)
  PROVE  IOInv'
<1>1. EventsTyped' /\ RegistrationExact' /\ FibresRegistered' /\ OutputOnce' /\
   FibresAwaited'
  BY DEF IOInv, EventsTyped, RegistrationExact, FibresRegistered, OutputOnce,
     FibresAwaited, Connect, MayCall, Start, pollVars, epollVars, fdVars, HasEvent
<1>2. IOTypeOK'
  BY EventAssumption DEF IOInv, IOTypeOK, CallsTyped, InCall, Calls, Connect, MayCall,
     Start, epollVars, fdVars, fredVars, pollVars
<1>3. CallsTyped'
  BY EventAssumption DEF IOInv, CallsTyped, IOTypeOK, InCall, Calls, Connect, MayCall,
     Start, fredVars
<1>4. OnePerDirection'
  BY EventAssumption DEF IOInv, OnePerDirection, IOTypeOK, CallsTyped, ClosingExact,
     InCall, Calls, Using, Dir, Connect, MayCall, Start, fredVars
<1>5. ClosingExact'
  BY EventAssumption DEF IOInv, ClosingExact, IOTypeOK, CallsTyped, InCall, Calls,
     Connect, MayCall, Start, fredVars
<1>6. EntriesCleared'
  BY EventAssumption DEF IOInv, EntriesCleared, IOTypeOK, CallsTyped, InCall, Calls,
     Connect, MayCall, Start, fdVars, fredVars
<1>7. OutputAwaited'
  BY OutputKept DEF IOInv, IOTypeOK, Connect, MayCall, Start, epollVars, fdVars,
     fredVars, pollVars
<1>8. OutputReady'
  BY EventAssumption DEF IOInv, OutputReady, IOTypeOK, CallsTyped, InCall, Calls,
     HasEvent, Connect, MayCall, Start, fdVars, pollVars
<1>9. WaitersAwaited'
  BY EventAssumption DEF IOInv, WaitersAwaited, IOTypeOK, CallsTyped, InCall, Calls,
     HasEvent, Connect, MayCall, Start, epollVars, fdVars, fredVars, pollVars
<1>10. ConnectWaits'
  BY EventAssumption DEF IOInv, ConnectWaits, IOTypeOK, CallsTyped, InCall, Calls,
     Connect, MayCall, Start, fredVars
<1> QED BY <1>1, <1>2, <1>3, <1>4, <1>5, <1>6, <1>7, <1>8, <1>9, <1>10 DEF IOInv

\* The first attempt of a call.
LEMMA CallInv ==
  ASSUME IOInv, NEW f \in Freds, NEW d \in Fds, NEW o, Call(f, o, d)
  PROVE  IOInv'
<1>1. EventsTyped' /\ RegistrationExact' /\ FibresRegistered' /\ OutputOnce' /\
   OutputReady' /\ FibresAwaited'
  BY DEF IOInv, EventsTyped, RegistrationExact, FibresRegistered, OutputOnce,
     OutputReady, FibresAwaited, Call, MayCall, Start, Transfer, kernelVars, pollVars,
     epollVars, fdVars, HasEvent
<1>2. IOTypeOK'
  BY EventAssumption DEF IOInv, IOTypeOK, CallsTyped, InCall, Calls, Call, MayCall,
     Start, Transfer, kernelVars, epollVars, fdVars, fredVars, pollVars
<1>3. CallsTyped'
  BY EventAssumption DEF IOInv, CallsTyped, IOTypeOK, InCall, Calls, Call, MayCall,
     Start, Transfer, kernelVars, fredVars
<1>4. OnePerDirection'
  BY EventAssumption DEF IOInv, OnePerDirection, IOTypeOK, CallsTyped, ClosingExact,
     InCall, Calls, Using, Dir, Call, MayCall, Start, Transfer, fredVars
<1>5. ClosingExact'
  BY EventAssumption DEF IOInv, ClosingExact, IOTypeOK, CallsTyped, InCall, Calls,
     Call, MayCall, Start, Transfer, kernelVars, fredVars
<1>6. EntriesCleared'
  BY EventAssumption DEF IOInv, EntriesCleared, IOTypeOK, CallsTyped, InCall, Calls,
     Call, MayCall, Start, Transfer, kernelVars, fdVars, fredVars
<1>7. OutputAwaited'
  BY OutputKept DEF IOInv, IOTypeOK, Call, MayCall, Start, epollVars, fdVars,
     fredVars, pollVars
<1>8. WaitersAwaited'
  BY EventAssumption DEF IOInv, WaitersAwaited, IOTypeOK, CallsTyped, InCall, Calls,
     HasEvent, Call, MayCall, Start, Transfer, kernelVars, epollVars, fdVars,
     fredVars, pollVars
<1>9. ConnectWaits'
  BY EventAssumption DEF IOInv, ConnectWaits, IOTypeOK, CallsTyped, InCall, Calls,
     Call, MayCall, Start, Transfer, kernelVars, fredVars
<1> QED BY <1>1, <1>2, <1>3, <1>4, <1>5, <1>6, <1>7, <1>8, <1>9 DEF IOInv

\* Both ways to register lead to an armed registration.
LEMMA SetupArms ==
  ASSUME IOInv, NEW f \in Freds, SetupFD(f) \/ SetupConnect(f)
  PROVE  /\ pc[f] = "setup" /\ op[f] \in Calls /\ fdOf[f] \in Fds \ closing
         /\ registered' = registered \cup {<<PollerFor(Dir(op[f])), fdOf[f]>>}
         /\ armed' = armed \cup {<<PollerFor(Dir(op[f])), fdOf[f]>>}
         /\ poller' = poller \cup {<<fdOf[f], Dir(op[f])>>}
         /\ pc' = [pc EXCEPT ![f] = "P"]
         /\ UNCHANGED <<kernelVars, sync, blocking, op, fdOf, pollVars>>
<1>1. pc[f] = "setup" /\ op[f] \in Calls /\ fdOf[f] \in Fds \ closing
  BY InUse DEF SetupFD, SetupConnect, InCall
<1>2. Dir(op[f]) \in Dirs
  BY DEF Dir, Dirs
<1>3. <<fdOf[f], Dir(op[f])>> \in poller <=> <<PollerFor(Dir(op[f])), fdOf[f]>> \in registered
  BY <1>1, <1>2 DEF IOInv, RegistrationExact
<1>4. CASE SetupFD(f)
  <2>1. CASE <<fdOf[f], Dir(op[f])>> \notin poller
    BY <2>1, <1>1, <1>3, <1>4 DEF SetupFD, Create, At
  <2>2. CASE <<fdOf[f], Dir(op[f])>> \in poller
    BY <2>2, <1>1, <1>3, <1>4 DEF SetupFD, Modify, At
  <2> QED BY <2>1, <2>2
<1>5. CASE SetupConnect(f)
  <2>1. Dir(op[f]) = "out" /\ PollerFor("out") = Output
    BY <1>5 DEF SetupConnect, Dir, PollerFor
  <2>2. <<fdOf[f], "out">> \notin poller
    BY <1>5 DEF SetupConnect, IOInv, EntriesCleared
  <2> QED BY <1>1, <1>3, <1>5, <2>1, <2>2 DEF SetupConnect, Create, At
<1> QED BY <1>4, <1>5

\* The registration for one event, of either kind.
LEMMA SetupInv ==
  ASSUME IOInv, NEW f \in Freds, SetupFD(f) \/ SetupConnect(f)
  PROVE  IOInv'
<1> DEFINE d == fdOf[f]
           dir == Dir(op[f])
           p == PollerFor(dir)
<1>0. /\ pc[f] = "setup" /\ op[f] \in Calls /\ d \in Fds \ closing
      /\ registered' = registered \cup {<<p, d>>}
      /\ armed' = armed \cup {<<p, d>>}
      /\ poller' = poller \cup {<<d, dir>>}
      /\ pc' = [pc EXCEPT ![f] = "P"]
      /\ UNCHANGED <<kernelVars, sync, blocking, op, fdOf, pollVars>>
  BY SetupArms
<1>00. dir \in Dirs /\ p \in Fibres /\ \A x \in Dirs : PollerFor(x) = p <=> x = dir
  BY EventAssumption DEF Dir, Dirs, PollerFor, Fibres
<1> HIDE DEF dir, p
<1>1. IOTypeOK'
  BY <1>0, <1>00 DEF IOInv, IOTypeOK, kernelVars, pollVars, InCall
<1>2. EventsTyped'
  BY <1>0 DEF IOInv, EventsTyped, kernelVars, pollVars
<1>3. CallsTyped'
  BY <1>0 DEF IOInv, CallsTyped, IOTypeOK, InCall, kernelVars
<1>4. OnePerDirection'
  BY <1>0 DEF IOInv, IOTypeOK, OnePerDirection
<1>5. ClosingExact'
  BY <1>0 DEF IOInv, ClosingExact, kernelVars
<1>6. RegistrationExact'
  BY <1>0, <1>00 DEF IOInv, RegistrationExact, kernelVars
<1>7. EntriesCleared'
  <2>1. fdState[d] \notin {"free", "fresh"}
    BY <1>0 DEF IOInv, CallsTyped, InCall
  <2>2. \A g \in Freds : pc[g] = "close" => fdOf[g] # d
    BY <1>0 DEF IOInv, ClosingExact, CallsTyped
  <2>3. \A g \in Freds : g # f /\ pc[g] = "setup" /\ op[g] = "connect" /\ fdOf[g] = d => dir # "out"
    BY <1>0 DEF IOInv, OnePerDirection, dir, Dir
  <2> QED BY <1>0, <2>1, <2>2, <2>3 DEF IOInv, EntriesCleared, IOTypeOK, kernelVars
<1>8. FibresRegistered'
  BY <1>0 DEF IOInv, FibresRegistered
<1>9. OutputAwaited'
  <2>2. SUFFICES ASSUME NEW e \in Fds, OutputOwed(e)'
                 PROVE  \E g \in Freds : OutputWaits(g, e)'
    BY DEF OutputAwaited
  <2>3. CASE OutputOwed(e)
    <3>1. PICK g \in Freds : OutputWaits(g, e)
      BY <2>3 DEF IOInv, OutputAwaited
    <3>2. g # f
      BY <3>1, <1>0 DEF OutputWaits
    <3>3. OutputWaits(g, e)'
      BY <3>1, <3>2, <1>0 DEF OutputWaits, IOInv, IOTypeOK
    <3> QED BY <3>3
  <2>4. CASE ~OutputOwed(e)
    <3>1. <<Output, e>> = <<p, d>>
      BY <2>2, <2>4, <1>0 DEF OutputOwed, HasEvent, pollVars
    <3>2. e = d /\ dir = "out"
      BY <3>1, <1>00, EventAssumption DEF p, PollerFor, Dirs
    <3>3. OutputWaits(f, e)'
      BY <3>2, <2>4, <1>0 DEF OutputOwed, OutputWaits, dir, IOInv, IOTypeOK
    <3> QED BY <3>3
  <2> QED BY <2>3, <2>4
<1>10. OutputOnce'
  <2>1. dir = "out" => ~OutputOwed(d)
    BY NothingOwed, <1>0 DEF dir
  <2>2. p = Output => dir = "out"
    BY <1>00, EventAssumption DEF p, PollerFor, Dirs
  <2> QED BY <1>0, <2>1, <2>2 DEF IOInv, OutputOnce, OutputOwed, HasEvent, pollVars
<1>11. OutputReady'
  BY <1>0 DEF IOInv, OutputReady, HasEvent, kernelVars, pollVars
<1>12. WaitersAwaited'
  <2>1. SUFFICES ASSUME NEW g \in Freds, pc'[g] \in {"P", "asleep"}
                 PROVE  \/ <<PollerFor(Dir(op[g])), fdOf[g]>> \in armed'
                        \/ HasEvent(PollerFor(Dir(op[g])), fdOf[g])
                        \/ pc'[g] = "P" /\ <<fdOf[g], Dir(op[g])>> \in sync
                        \/ Dir(op[g]) = "out" /\ fdOf[g] \in failed
    BY <1>0 DEF WaitersAwaited, HasEvent, kernelVars, pollVars
  <2>2. CASE g = f
    BY <2>2, <1>0 DEF p, dir
  <2>3. CASE g # f
    BY <2>1, <2>3, <1>0 DEF IOInv, IOTypeOK, WaitersAwaited
  <2> QED BY <2>2, <2>3
<1>13. FibresAwaited'
  BY <1>0 DEF IOInv, FibresAwaited, HasEvent, pollVars
<1>14. ConnectWaits'
  BY <1>0 DEF IOInv, IOTypeOK, ConnectWaits, kernelVars
<1> QED BY <1>1, <1>2, <1>3, <1>4, <1>5, <1>6, <1>7, <1>8, <1>9, <1>10, <1>11, <1>12, <1>13, <1>14 DEF IOInv

\* What P() does to the wake-ups that are owed.
LEMMA PAwaited ==
  ASSUME IOInv, NEW f \in Freds, P(f)
  PROVE  OutputAwaited' /\ FibresAwaited' /\ ConnectWaits'
<1> DEFINE s == <<fdOf[f], Dir(op[f])>>
<1>0. /\ pc[f] = "P" /\ fdOf[f] \in Fds
      /\ UNCHANGED <<kernelVars, epollVars, op, fdOf, pollVars>>
      /\ \/ s \in sync /\ sync' = sync \ {s} /\ pc' = [pc EXCEPT ![f] = "retry"]
         \/ s \notin sync /\ UNCHANGED sync /\ pc' = [pc EXCEPT ![f] = "asleep"]
  BY InUse DEF P, At
<1>1. OutputAwaited'
  <2>1. SUFFICES ASSUME NEW e \in Fds, OutputOwed(e)'
                 PROVE  \E g \in Freds : OutputWaits(g, e)'
    BY DEF OutputAwaited
  <2>2. OutputOwed(e)
    BY <2>1, <1>0 DEF OutputOwed, HasEvent, epollVars, pollVars
  <2>3. PICK g \in Freds : OutputWaits(g, e)
    BY <2>2 DEF IOInv, OutputAwaited
  <2>4. CASE g # f
    BY <2>3, <2>4, <1>0 DEF OutputWaits, IOInv, IOTypeOK
  <2>5. CASE g = f
    <3>1. s = <<e, "out">>
      BY <2>3, <2>5 DEF OutputWaits
    <3>2. s \notin sync
      BY <3>1, <2>1, <1>0 DEF OutputOwed, HasEvent, epollVars, pollVars, IOInv, OutputOnce
    <3>3. OutputWaits(f, e)'
      BY <3>1, <3>2, <2>3, <2>5, <1>0 DEF OutputWaits, IOInv, IOTypeOK
    <3> QED BY <3>3
  <2> QED BY <2>4, <2>5
<1>2. FibresAwaited'
  <2>1. \A q \in Fibres : <<q, "in">> \in sync => <<q, "in">> \in sync'
    BY <1>0, EventAssumption DEF Fibres
  <2> QED BY <2>1, <1>0 DEF IOInv, FibresAwaited, HasEvent, epollVars, pollVars
<1>3. ConnectWaits'
  <2>1. SUFFICES ASSUME op[f] = "connect", pc'[f] = "retry"
                 PROVE  fdState[fdOf[f]] = "connected" \/ fdOf[f] \in failed
    BY <1>0 DEF IOInv, IOTypeOK, ConnectWaits, kernelVars
  <2>2. s \in sync /\ s = <<fdOf[f], "out">>
    BY <2>1, <1>0 DEF IOInv, IOTypeOK, Dir
  <2> QED BY <2>2, <1>0 DEF IOInv, OutputReady
<1> QED BY <1>1, <1>2, <1>3

\* P() on the semaphore of the descriptor.
LEMMA PInv ==
  ASSUME IOInv, NEW f \in Freds, P(f)
  PROVE  IOInv'
<1>1. EventsTyped' /\ ClosingExact' /\ RegistrationExact' /\ FibresRegistered' /\
   OutputOnce' /\ OutputReady'
  BY DEF IOInv, EventsTyped, ClosingExact, RegistrationExact, FibresRegistered,
     OutputOnce, OutputReady, P, At, kernelVars, pollVars, epollVars, HasEvent
<1>2. IOTypeOK'
  BY EventAssumption DEF IOInv, IOTypeOK, CallsTyped, InCall, Calls, P, At,
     kernelVars, epollVars, pollVars
<1>3. CallsTyped'
  BY EventAssumption DEF IOInv, CallsTyped, IOTypeOK, InCall, Calls, P, At, kernelVars
<1>4. OnePerDirection'
  BY EventAssumption DEF IOInv, OnePerDirection, IOTypeOK, CallsTyped, InCall, Calls,
     P, At
<1>5. EntriesCleared'
  BY EventAssumption DEF IOInv, EntriesCleared, IOTypeOK, CallsTyped, InCall, Calls,
     P, At, kernelVars
<1>6. OutputAwaited'
  BY PAwaited
<1>7. WaitersAwaited'
  BY EventAssumption DEF IOInv, WaitersAwaited, IOTypeOK, CallsTyped, OnePerDirection,
     ClosingExact, InCall, Calls, Using, Dir, HasEvent, P, At, kernelVars, epollVars,
     pollVars
<1>8. FibresAwaited'
  BY PAwaited
<1>9. ConnectWaits'
  BY PAwaited
<1> QED BY <1>1, <1>2, <1>3, <1>4, <1>5, <1>6, <1>7, <1>8, <1>9 DEF IOInv

\* The timeout of epoll_wait().
LEMMA TimedOutInv ==
  ASSUME IOInv, NEW f \in Freds, TimedOut(f)
  PROVE  IOInv'
<1>1. IOTypeOK' /\ EventsTyped' /\ RegistrationExact' /\ EntriesCleared' /\
   FibresRegistered' /\ OutputOnce' /\ OutputReady' /\ FibresAwaited' /\ ConnectWaits'
  BY DEF IOInv, IOTypeOK, EventsTyped, RegistrationExact, EntriesCleared,
     FibresRegistered, OutputOnce, OutputReady, FibresAwaited, ConnectWaits, TimedOut,
     Finish, kernelVars, epollVars, fdVars, pollVars, HasEvent
<1>2. CallsTyped'
  BY EventAssumption DEF IOInv, CallsTyped, IOTypeOK, InCall, Calls, TimedOut, Finish,
     kernelVars
<1>3. OnePerDirection'
  BY EventAssumption DEF IOInv, OnePerDirection, IOTypeOK, CallsTyped, InCall, Calls,
     TimedOut, Finish
<1>4. ClosingExact'
  BY EventAssumption DEF IOInv, ClosingExact, IOTypeOK, CallsTyped, InCall, Calls,
     TimedOut, Finish, kernelVars
<1>5. OutputAwaited'
  BY EventAssumption DEF IOInv, OutputAwaited, IOTypeOK, CallsTyped, OnePerDirection,
     ClosingExact, InCall, Calls, Using, Dir, OutputOwed, OutputWaits, HasEvent,
     TimedOut, Finish, epollVars, fdVars, pollVars
<1>6. WaitersAwaited'
  BY EventAssumption DEF IOInv, WaitersAwaited, IOTypeOK, CallsTyped, InCall, Calls,
     HasEvent, TimedOut, Finish, kernelVars, epollVars, fdVars, pollVars
<1> QED BY <1>1, <1>2, <1>3, <1>4, <1>5, <1>6 DEF IOInv

\* The call is tried again.
LEMMA RetryInv ==
  ASSUME IOInv, NEW f \in Freds, Retry(f)
  PROVE  IOInv'
<1>1. EventsTyped' /\ RegistrationExact' /\ FibresRegistered' /\ OutputOnce' /\
   OutputReady' /\ FibresAwaited'
  BY DEF IOInv, EventsTyped, RegistrationExact, FibresRegistered, OutputOnce,
     OutputReady, FibresAwaited, Retry, Transfer, At, Finish, kernelVars, pollVars,
     epollVars, fdVars, HasEvent
<1>2. IOTypeOK'
  BY EventAssumption DEF IOInv, IOTypeOK, CallsTyped, InCall, Calls, Retry, Transfer,
     At, Finish, kernelVars, epollVars, fdVars, pollVars
<1>3. CallsTyped'
  BY EventAssumption DEF IOInv, CallsTyped, IOTypeOK, InCall, Calls, Retry, Transfer,
     At, Finish, kernelVars
<1>4. OnePerDirection'
  BY EventAssumption DEF IOInv, OnePerDirection, IOTypeOK, CallsTyped, InCall, Calls,
     Retry, Transfer, At, Finish
<1>5. ClosingExact'
  BY EventAssumption DEF IOInv, ClosingExact, IOTypeOK, CallsTyped, InCall, Calls,
     Retry, Transfer, At, Finish, kernelVars
<1>6. EntriesCleared'
  BY EventAssumption DEF IOInv, EntriesCleared, IOTypeOK, CallsTyped, InCall, Calls,
     Retry, Transfer, At, Finish, kernelVars, fdVars
<1>7. OutputAwaited'
  BY OutputKept DEF IOInv, IOTypeOK, Retry, Finish, At, epollVars, fdVars, fredVars,
     pollVars
<1>8. WaitersAwaited'
  BY EventAssumption DEF IOInv, WaitersAwaited, IOTypeOK, CallsTyped, InCall, Calls,
     HasEvent, Retry, Transfer, At, Finish, kernelVars, epollVars, fdVars, pollVars
<1>9. ConnectWaits'
  BY EventAssumption DEF IOInv, ConnectWaits, IOTypeOK, CallsTyped, InCall, Calls,
     Retry, Transfer, At, Finish, kernelVars
<1> QED BY <1>1, <1>2, <1>3, <1>4, <1>5, <1>6, <1>7, <1>8, <1>9 DEF IOInv

\* The wait of connect() is over.
LEMMA ConnectReturnInv ==
  ASSUME IOInv, NEW f \in Freds, ConnectReturn(f)
  PROVE  IOInv'
<1>1. IOTypeOK' /\ EventsTyped' /\ RegistrationExact' /\ EntriesCleared' /\
   FibresRegistered'
  BY DEF IOInv, IOTypeOK, EventsTyped, RegistrationExact, EntriesCleared,
     FibresRegistered, ConnectReturn, Finish, kernelVars, epollVars, fdVars, pollVars
<1>2. OutputOnce' /\ OutputReady' /\ WaitersAwaited' /\ FibresAwaited'
  BY DEF IOInv, OutputOnce, OutputReady, WaitersAwaited, FibresAwaited, HasEvent,
     ConnectReturn, Finish, epollVars, fdVars, pollVars, kernelVars
<1>3. CallsTyped'
  BY EventAssumption DEF IOInv, CallsTyped, IOTypeOK, InCall, Calls, ConnectReturn,
     Finish, kernelVars
<1>4. OnePerDirection'
  BY EventAssumption DEF IOInv, OnePerDirection, IOTypeOK, CallsTyped, InCall, Calls,
     ConnectReturn, Finish
<1>5. ClosingExact'
  BY EventAssumption DEF IOInv, ClosingExact, IOTypeOK, CallsTyped, InCall, Calls,
     ConnectReturn, Finish, kernelVars
<1>6. OutputAwaited'
  BY EventAssumption DEF IOInv, OutputAwaited, IOTypeOK, CallsTyped, InCall, Calls,
     OutputOwed, OutputWaits, HasEvent, ConnectReturn, Finish, epollVars, fdVars,
     pollVars
<1>7. ConnectWaits'
  BY EventAssumption DEF IOInv, ConnectWaits, IOTypeOK, CallsTyped, InCall, Calls,
     ConnectReturn, Finish, kernelVars
<1> QED BY <1>1, <1>2, <1>3, <1>4, <1>5, <1>6, <1>7 DEF IOInv

\* What a poller that polls has fetched afterwards, and what it has disarmed.
LEMMA PollFetches ==
  ASSUME IOInv, NEW p \in Pollers, DoPoll(p)
  PROVE  /\ \A q \in Pollers \ {p} : events'[q] = events[q]
         /\ \A ev \in events'[p] :
              /\ ev = <<ev[1], ev[2]>> /\ <<p, ev[1]>> \in armed
              /\ p = Master => ev[1] \in Fibres /\ ev[2] = {"IN"}
              /\ p # Master => ev[1] \in Fds /\ ev[2] = Flags(p, ev[1]) /\ ev[2] # {}
         /\ armed' = armed \ {<<p, ev[1]>> : ev \in events'[p]}
         /\ events \in [Pollers -> SUBSET ((Fds \cup Fibres) \X SUBSET EvFlags)]
         /\ events' \in [Pollers -> SUBSET ((Fds \cup Fibres) \X SUBSET EvFlags)]
         /\ UNCHANGED <<kernelVars, registered, fdVars, fredVars, ppc>>
<1> DEFINE evs == IF p = Master THEN MasterReported ELSE Reported(p)
<1>1. events' = [events EXCEPT ![p] = evs] /\ events \in [Pollers -> SUBSET ((Fds \cup Fibres) \X SUBSET EvFlags)]
  BY DEF DoPoll, IOInv, IOTypeOK
<1> HIDE DEF evs
<1>2. events'[p] = evs /\ \A q \in Pollers \ {p} : events'[q] = events[q]
  BY <1>1
<1>3. \A ev \in evs :
        /\ ev = <<ev[1], ev[2]>> /\ <<p, ev[1]>> \in armed
        /\ p = Master => ev[1] \in Fibres /\ ev[2] = {"IN"}
        /\ p # Master => ev[1] \in Fds /\ ev[2] = Flags(p, ev[1]) /\ ev[2] # {}
  <2>1. CASE p = Master
    <3>1. evs = MasterReported
      BY <2>1 DEF evs
    <3>2. SUFFICES ASSUME NEW ev \in MasterReported
                   PROVE  /\ ev = <<ev[1], ev[2]>> /\ <<p, ev[1]>> \in armed
                          /\ ev[1] \in Fibres /\ ev[2] = {"IN"}
      BY <3>1, <2>1
    <3>3. PICK q \in Fibres : <<Master, q>> \in armed /\ ev = <<q, {"IN"}>>
      BY DEF MasterReported
    <3> QED BY <3>3, <2>1
  <2>2. CASE p # Master
    <3>1. evs = Reported(p)
      BY <2>2 DEF evs
    <3>2. SUFFICES ASSUME NEW ev \in Reported(p)
                   PROVE  /\ ev = <<ev[1], ev[2]>> /\ <<p, ev[1]>> \in armed
                          /\ ev[1] \in Fds /\ ev[2] = Flags(p, ev[1]) /\ ev[2] # {}
      BY <3>1, <2>2
    <3>3. PICK e \in Fds : <<p, e>> \in armed /\ Flags(p, e) # {} /\ ev = <<e, Flags(p, e)>>
      BY DEF Reported
    <3> QED BY <3>3
  <2> QED BY <2>1, <2>2
<1>4. \A e : Flags(p, e) \in SUBSET EvFlags
  BY DEF Flags, EvFlags
<1>5. evs \in SUBSET ((Fds \cup Fibres) \X SUBSET EvFlags)
  <2>1. SUFFICES ASSUME NEW ev \in evs
                 PROVE  ev \in (Fds \cup Fibres) \X SUBSET EvFlags
    OBVIOUS
  <2>2. ev = <<ev[1], ev[2]>>
    BY <1>3
  <2>3. ev[1] \in Fds \cup Fibres /\ ev[2] \in SUBSET EvFlags
    BY <1>3, <1>4 DEF EvFlags
  <2> QED BY <2>2, <2>3
<1>6. events' \in [Pollers -> SUBSET ((Fds \cup Fibres) \X SUBSET EvFlags)]
  BY <1>1, <1>5
<1>7. armed' = armed \ {<<p, ev[1]>> : ev \in evs}
  BY DEF DoPoll, evs
<1> QED BY <1>1, <1>2, <1>3, <1>6, <1>7 DEF DoPoll

\* doPoll().
LEMMA DoPollInv ==
  ASSUME IOInv, NEW p \in Pollers, DoPoll(p)
  PROVE  IOInv'
<1>0. /\ \A q \in Pollers \ {p} : events'[q] = events[q]
      /\ \A ev \in events'[p] :
           /\ ev = <<ev[1], ev[2]>> /\ <<p, ev[1]>> \in armed
           /\ p = Master => ev[1] \in Fibres /\ ev[2] = {"IN"}
           /\ p # Master => ev[1] \in Fds /\ ev[2] = Flags(p, ev[1]) /\ ev[2] # {}
      /\ armed' = armed \ {<<p, ev[1]>> : ev \in events'[p]}
      /\ events' \in [Pollers -> SUBSET ((Fds \cup Fibres) \X SUBSET EvFlags)]
      /\ UNCHANGED <<kernelVars, registered, fdVars, fredVars, ppc>>
  BY PollFetches
<1>disarmed. \A q, e : <<q, e>> \in armed' <=> <<q, e>> \in armed /\ ~(q = p /\ HasEvent(p, e)')
  BY <1>0 DEF HasEvent
<1>fetched. \A q \in Pollers : \A e : HasEvent(q, e)' => HasEvent(q, e) \/ <<q, e>> \in armed
  BY <1>0 DEF HasEvent
<1>none. events[p] = {}
  BY DEF DoPoll
<1>kept. \A q \in Pollers : \A e : HasEvent(q, e) => HasEvent(q, e)'
  BY <1>0, <1>none DEF HasEvent
<1>ps. Input \in Pollers /\ Output \in Pollers /\ Master \in Pollers /\ Fibres \subseteq Pollers
  BY DEF Pollers, Fibres
<1>1. IOTypeOK'
  BY <1>0 DEF IOInv, IOTypeOK, kernelVars, fdVars, fredVars
<1>2. EventsTyped'
  <2>1. CASE p = Master
    BY <2>1, <1>0, <1>ps, EventAssumption DEF IOInv, EventsTyped, kernelVars
  <2>2. CASE p = Input
    <3>1. \A ev \in events'[p] : ev[1] \in Fds /\ ev[2] \cap {"IN", "ERR"} # {}
      <4>1. SUFFICES ASSUME NEW ev \in events'[p] PROVE ev[1] \in Fds /\ ev[2] \cap {"IN", "ERR"} # {}
        OBVIOUS
      <4>2. ev[1] \in Fds /\ ev[2] = Flags(p, ev[1]) /\ ev[2] # {}
        BY <4>1, <1>0, <2>2, EventAssumption
      <4> QED BY <4>2, <2>2, EventAssumption DEF Flags
    <3> QED BY <3>1, <2>2, <1>0, <1>ps, EventAssumption DEF IOInv, EventsTyped, kernelVars
  <2>3. CASE p = Output
    <3>1. ASSUME NEW ev \in events'[p]
          PROVE /\ ev[1] \in Fds /\ ev[2] # {} /\ "IN" \notin ev[2]
                /\ "ERR" \in ev[2] => ev[1] \in failed
      <4>2. ev[1] \in Fds /\ ev[2] = Flags(p, ev[1]) /\ ev[2] # {}
        BY <3>1, <1>0, <2>3, EventAssumption
      <4> QED BY <4>2, <2>3, EventAssumption DEF Flags
    <3> QED BY <3>1, <2>3, <1>0, <1>ps, EventAssumption DEF IOInv, EventsTyped, kernelVars
  <2> QED BY <2>1, <2>2, <2>3 DEF Pollers, Fibres
<1>3. CallsTyped'
  BY <1>0 DEF IOInv, CallsTyped, kernelVars, fredVars
<1>4. OnePerDirection'
  BY <1>0 DEF IOInv, OnePerDirection, fredVars
<1>5. ClosingExact'
  BY <1>0 DEF IOInv, ClosingExact, kernelVars, fredVars
<1>6. RegistrationExact'
  BY <1>0 DEF IOInv, RegistrationExact, kernelVars, fdVars
<1>7. EntriesCleared'
  BY <1>0 DEF IOInv, EntriesCleared, kernelVars, fdVars, fredVars
<1>8. FibresRegistered'
  BY <1>0 DEF IOInv, FibresRegistered
<1>9. OutputAwaited'
  <2>1. \A e \in Fds : OutputOwed(e)' => OutputOwed(e)
    BY <1>0, <1>disarmed, <1>fetched, <1>ps DEF OutputOwed, fdVars
  <2> QED BY <2>1, <1>0 DEF IOInv, OutputAwaited, OutputWaits, fdVars, fredVars
<1>10. OutputOnce'
  <2>1. ASSUME NEW e \in Fds, HasEvent(Output, e)' PROVE <<Output, e>> \notin armed'
    BY <2>1, <1>0, <1>disarmed, <1>ps DEF IOInv, OutputOnce, HasEvent
  <2>2. ASSUME NEW e \in Fds, <<e, "out">> \in sync PROVE <<Output, e>> \notin armed' /\ ~HasEvent(Output, e)'
    BY <2>2, <1>disarmed, <1>fetched, <1>ps DEF IOInv, OutputOnce
  <2>3. ASSUME NEW ev1 \in events'[Output], NEW ev2 \in events'[Output], ev1[1] = ev2[1]
        PROVE  ev1 = ev2
    <3>1. CASE p = Output
      <4>1. ev1[2] = Flags(p, ev1[1]) /\ ev2[2] = Flags(p, ev2[1])
        BY <3>1, <1>0, EventAssumption
      <4>2. ev1 = <<ev1[1], ev1[2]>> /\ ev2 = <<ev2[1], ev2[2]>>
        BY <3>1, <1>0
      <4>3. ev1[2] = ev2[2]
        BY <4>1, <2>3
      <4> QED BY <4>2, <4>3, <2>3
    <3>2. CASE p # Output
      <4>1. events'[Output] = events[Output] /\ ev1[1] \in Fds
        BY <3>2, <1>0, <1>ps DEF IOInv, EventsTyped
      <4> QED BY <4>1, <2>3 DEF IOInv, OutputOnce
    <3> QED BY <3>1, <3>2
  <2> QED BY <2>1, <2>2, <2>3, <1>0 DEF OutputOnce, fdVars
<1>11. OutputReady'
  <2>1. ASSUME NEW e \in Fds, HasEvent(Output, e)', ~HasEvent(Output, e)
        PROVE  fdState[e] = "connected" \/ e \in failed
    <3>1. p = Output
      BY <2>1, <1>0, <1>ps DEF HasEvent
    <3>2. Flags(Output, e) # {}
      <4>1. PICK ev \in events'[Output] : ev[1] = e
        BY <2>1 DEF HasEvent
      <4>2. ev[2] = Flags(p, ev[1]) /\ ev[2] # {}
        BY <4>1, <3>1, <1>0, EventAssumption
      <4> QED BY <4>1, <4>2, <3>1
    <3> QED BY <3>2, EventAssumption DEF Flags, Ready
  <2> QED BY <2>1, <1>0 DEF IOInv, OutputReady, kernelVars, fdVars
<1>12. WaitersAwaited'
  <2>1. \A x : PollerFor(x) \in Pollers
    BY DEF PollerFor, Pollers, Fibres
  <2>2. \A q \in Pollers : \A e : <<q, e>> \in armed => <<q, e>> \in armed' \/ HasEvent(q, e)'
    BY <1>disarmed
  <2> QED BY <2>1, <2>2, <1>kept, <1>0 DEF IOInv, WaitersAwaited, kernelVars, fdVars, fredVars
<1>13. FibresAwaited'
  BY <1>disarmed, <1>kept, <1>ps, <1>0 DEF IOInv, FibresAwaited, fdVars
<1>14. ConnectWaits'
  BY <1>0 DEF IOInv, ConnectWaits, kernelVars, fredVars
<1> QED BY <1>1, <1>2, <1>3, <1>4, <1>5, <1>6, <1>7, <1>8, <1>9, <1>10, <1>11, <1>12, <1>13, <1>14 DEF IOInv

\* What the event of a poller stands for: the master's wakes a poller fibre,
\* the others go to a descriptor.
LEMMA NotifyCases ==
  ASSUME IOInv, NEW p \in Pollers, NotifyOne(p)
  PROVE  \E ev \in events[p], dir \in Dirs :
           /\ events' = [events EXCEPT ![p] = @ \ {ev}]
           /\ UNCHANGED <<kernelVars, epollVars, poller, blocking, op, fdOf>>
           /\ \/ /\ p = Master /\ ev[1] \in Fibres /\ dir = "in"
                 /\ UNCHANGED pc
                 /\ \/ /\ ppc[ev[1]] = "asleep"
                       /\ ppc' = [ppc EXCEPT ![ev[1]] = "poll"]
                       /\ UNCHANGED sync
                    \/ /\ ppc[ev[1]] # "asleep"
                       /\ sync' = sync \cup {<<ev[1], "in">>}
                       /\ UNCHANGED ppc
              \/ /\ p # Master /\ ev[1] \in Fds /\ UNCHANGED ppc
                 /\ dir = "out" => p = Output
                 /\ p = Output /\ dir = "in" => ev[1] \in failed
                 /\ \/ /\ \E f \in Sleepers(ev[1], dir) : pc' = [pc EXCEPT ![f] = "retry"]
                       /\ UNCHANGED sync
                    \/ /\ Sleepers(ev[1], dir) = {}
                       /\ sync' = sync \cup {<<ev[1], dir>>}
                       /\ UNCHANGED pc
<1>1. PICK ev \in events[p] : /\ V(ev[1], NotifyDir(ev[2]))
                              /\ events' = [events EXCEPT ![p] = @ \ {ev}]
  BY DEF NotifyOne
<1>2. UNCHANGED <<kernelVars, epollVars, poller, blocking, op, fdOf>>
  BY DEF NotifyOne
<1>3. NotifyDir(ev[2]) \in Dirs
  BY DEF NotifyDir, Dirs
<1>4. CASE p = Master
  <2>1. ev[1] \in Fibres /\ NotifyDir(ev[2]) = "in"
    BY <1>4 DEF IOInv, EventsTyped, NotifyDir
  <2>2. Sleepers(ev[1], "in") = {} /\ ev[1] \notin Fds
    BY <2>1, EventAssumption DEF Sleepers, Fibres, IOInv, IOTypeOK
  <2>3. V(ev[1], "in")
    BY <1>1, <2>1
  <2>4. /\ UNCHANGED pc
        /\ \/ /\ ppc[ev[1]] = "asleep"
              /\ ppc' = [ppc EXCEPT ![ev[1]] = "poll"]
              /\ UNCHANGED sync
           \/ /\ ppc[ev[1]] # "asleep"
              /\ sync' = sync \cup {<<ev[1], "in">>}
              /\ UNCHANGED ppc
    BY <2>2, <2>3 DEF V
  <2> QED BY <1>1, <1>2, <1>4, <2>1, <2>4 DEF Dirs
<1>5. CASE p # Master
  <2>1. ev[1] \in Fds /\ ev[1] \notin Fibres
    BY <1>5, EventAssumption DEF IOInv, EventsTyped, Pollers, Fibres
  <2>2. /\ NotifyDir(ev[2]) = "out" => p = Output
        /\ p = Output /\ NotifyDir(ev[2]) = "in" => ev[1] \in failed
    BY <1>5 DEF IOInv, EventsTyped, Pollers, Fibres, NotifyDir
  <2>3. /\ UNCHANGED ppc
        /\ \/ /\ \E f \in Sleepers(ev[1], NotifyDir(ev[2])) : pc' = [pc EXCEPT ![f] = "retry"]
              /\ UNCHANGED sync
           \/ /\ Sleepers(ev[1], NotifyDir(ev[2])) = {}
              /\ sync' = sync \cup {<<ev[1], NotifyDir(ev[2])>>}
              /\ UNCHANGED pc
    BY <1>1, <2>1 DEF V
  <2> QED BY <1>1, <1>2, <1>3, <1>5, <2>1, <2>2, <2>3
<1> QED BY <1>4, <1>5

\* notifyOne().
LEMMA NotifyOneInv ==
  ASSUME IOInv, NEW p \in Pollers, NotifyOne(p)
  PROVE  IOInv'
<1>0. PICK ev \in events[p], dir \in Dirs :
           /\ events' = [events EXCEPT ![p] = @ \ {ev}]
           /\ UNCHANGED <<kernelVars, epollVars, poller, blocking, op, fdOf>>
           /\ \/ /\ p = Master /\ ev[1] \in Fibres /\ dir = "in"
                 /\ UNCHANGED pc
                 /\ \/ /\ ppc[ev[1]] = "asleep"
                       /\ ppc' = [ppc EXCEPT ![ev[1]] = "poll"]
                       /\ UNCHANGED sync
                    \/ /\ ppc[ev[1]] # "asleep"
                       /\ sync' = sync \cup {<<ev[1], "in">>}
                       /\ UNCHANGED ppc
              \/ /\ p # Master /\ ev[1] \in Fds /\ UNCHANGED ppc
                 /\ dir = "out" => p = Output
                 /\ p = Output /\ dir = "in" => ev[1] \in failed
                 /\ \/ /\ \E f \in Sleepers(ev[1], dir) : pc' = [pc EXCEPT ![f] = "retry"]
                       /\ UNCHANGED sync
                    \/ /\ Sleepers(ev[1], dir) = {}
                       /\ sync' = sync \cup {<<ev[1], dir>>}
                       /\ UNCHANGED pc
  BY NotifyCases
<1> DEFINE d == ev[1]
<1>ps. Input \in Pollers /\ Output \in Pollers /\ Master \in Pollers /\ Fibres \subseteq Pollers
  BY DEF Pollers, Fibres
<1>ev. events' \in [Pollers -> SUBSET ((Fds \cup Fibres) \X SUBSET EvFlags)]
       /\ \A q \in Pollers : events'[q] = IF q = p THEN events[q] \ {ev} ELSE events[q]
  BY <1>0 DEF IOInv, IOTypeOK
<1>less. \A q \in Pollers : events'[q] \subseteq events[q]
  BY <1>ev
<1>gone. \A q \in Pollers : \A e : HasEvent(q, e) => HasEvent(q, e)' \/ (q = p /\ e = d)
  BY <1>ev DEF HasEvent
<1>had. HasEvent(p, d)
  BY DEF HasEvent
<1>out. p = Output /\ d \in Fds => ~HasEvent(Output, d)' /\ <<d, "out">> \notin sync /\ <<Output, d>> \notin armed
  BY <1>had, <1>ev, <1>ps DEF IOInv, OutputOnce, HasEvent
<1>master. CASE p = Master
  <2>0. /\ d \in Fibres /\ d \notin Fds /\ UNCHANGED pc
        /\ sync' \in {sync, sync \cup {<<d, "in">>}}
        /\ \A q \in Fibres : ppc'[q] \in {"P", "asleep"} => ppc'[q] = ppc[q]
        /\ ppc'[d] \in {"P", "asleep"} => ppc[d] = "P" /\ <<d, "in">> \in sync'
        /\ ppc' \in [Pollers -> {"poll", "block", "P", "asleep"}]
    BY <1>0, <1>master, <1>ps, EventAssumption DEF IOInv, IOTypeOK, Fibres
  <2>1. IOTypeOK'
    BY <2>0, <1>0, <1>ev DEF IOInv, IOTypeOK, kernelVars, epollVars
  <2>2. EventsTyped'
    BY <1>0, <1>less, <1>ps DEF IOInv, EventsTyped, kernelVars
  <2>3. CallsTyped' /\ OnePerDirection' /\ ClosingExact'
    BY <2>0, <1>0 DEF IOInv, CallsTyped, OnePerDirection, ClosingExact, kernelVars
  <2>4. RegistrationExact' /\ EntriesCleared' /\ FibresRegistered'
    BY <2>0, <1>0 DEF IOInv, RegistrationExact, EntriesCleared, FibresRegistered, kernelVars, epollVars
  <2>5. \A e \in Fds : /\ HasEvent(Output, e)' <=> HasEvent(Output, e)
                       /\ \A x \in Dirs : <<e, x>> \in sync' <=> <<e, x>> \in sync
    BY <2>0, <1>ev, <1>master, <1>ps, EventAssumption DEF HasEvent
  <2>6. OutputAwaited'
    <3>1. \A e \in Fds : OutputOwed(e)' => OutputOwed(e)
      BY <2>5, <1>0 DEF OutputOwed, epollVars, Dirs
    <3>2. \A e \in Fds, g \in Freds : OutputWaits(g, e) => OutputWaits(g, e)'
      BY <2>0, <2>5, <1>0 DEF OutputWaits, Dirs
    <3> QED BY <3>1, <3>2 DEF IOInv, OutputAwaited
  <2>7. OutputOnce' /\ OutputReady'
    BY <2>5, <1>0, <1>less, <1>ps DEF IOInv, OutputOnce, OutputReady, epollVars, kernelVars, Dirs
  <2>8. WaitersAwaited'
    <3>1. \A x : PollerFor(x) \in Pollers \ {Master} /\ \A f \in Freds : Dir(op[f]) \in Dirs
      BY EventAssumption DEF PollerFor, Pollers, Fibres, Dir, Dirs
    <3> QED BY <3>1, <2>0, <1>gone, <1>master, <1>0 DEF IOInv, WaitersAwaited, epollVars, kernelVars
  <2>9. FibresAwaited'
    BY <2>0, <1>gone, <1>0, <1>ps DEF IOInv, FibresAwaited, epollVars
  <2>10. ConnectWaits'
    BY <2>0, <1>0 DEF IOInv, ConnectWaits, kernelVars
  <2> QED BY <2>1, <2>2, <2>3, <2>4, <2>6, <2>7, <2>8, <2>9, <2>10 DEF IOInv
<1>fd. CASE p # Master
  <2>0. /\ d \in Fds /\ UNCHANGED ppc
        /\ dir = "out" => p = Output
        /\ p = Output /\ dir = "in" => d \in failed
    BY <1>0, <1>fd
  <2>1. FibresAwaited'
    <3>1. sync \subseteq sync'
      BY <1>0
    <3> QED BY <3>1, <2>0, <1>gone, <1>fd, <1>0, <1>ps DEF IOInv, FibresAwaited, epollVars
  <2>2. EventsTyped'
    BY <1>0, <1>less, <1>ps DEF IOInv, EventsTyped, kernelVars
  <2>3. ClosingExact' /\ RegistrationExact' /\ FibresRegistered'
    BY <1>0 DEF IOInv, ClosingExact, RegistrationExact, FibresRegistered, kernelVars, epollVars
  <2>4. ASSUME NEW g \in Freds, pc[g] \in {"P", "asleep"}, ~(fdOf[g] = d /\ Dir(op[g]) = dir)
        PROVE  \/ <<PollerFor(Dir(op[g])), fdOf[g]>> \in armed
               \/ HasEvent(PollerFor(Dir(op[g])), fdOf[g])'
               \/ pc[g] = "P" /\ <<fdOf[g], Dir(op[g])>> \in sync
               \/ Dir(op[g]) = "out" /\ fdOf[g] \in failed
    <3>1. Dir(op[g]) \in Dirs /\ PollerFor(Dir(op[g])) \in Pollers
      BY DEF Dir, Dirs, PollerFor, Pollers, Fibres
    <3>2. PollerFor(Dir(op[g])) = p /\ fdOf[g] = d => Dir(op[g]) = "out" /\ d \in failed
      BY <3>1, <2>0, <2>4, EventAssumption DEF PollerFor, Dirs
    <3>3. \/ <<PollerFor(Dir(op[g])), fdOf[g]>> \in armed
          \/ HasEvent(PollerFor(Dir(op[g])), fdOf[g])
          \/ pc[g] = "P" /\ <<fdOf[g], Dir(op[g])>> \in sync
          \/ Dir(op[g]) = "out" /\ fdOf[g] \in failed
      BY <2>4 DEF IOInv, WaitersAwaited
    <3> QED BY <3>1, <3>2, <3>3, <1>gone, <1>0
  <2>5. CASE \E f \in Sleepers(d, dir) : pc' = [pc EXCEPT ![f] = "retry"] /\ UNCHANGED sync
    <3>0. PICK f \in Sleepers(d, dir) : pc' = [pc EXCEPT ![f] = "retry"] /\ UNCHANGED sync
      BY <2>5
    <3>1. f \in Freds /\ pc[f] = "asleep" /\ fdOf[f] = d /\ Dir(op[f]) = dir
      BY DEF Sleepers
    <3>alone. \A g \in Freds : g # f /\ pc[g] # "idle" /\ fdOf[g] = d => Dir(op[g]) # dir
      BY <3>1 DEF IOInv, OnePerDirection
    <3>2. IOTypeOK'
      BY <3>0, <3>1, <2>0, <1>0, <1>ev DEF IOInv, IOTypeOK, InCall, kernelVars, epollVars
    <3>3. CallsTyped' /\ OnePerDirection' /\ EntriesCleared'
      BY <3>0, <3>1, <1>0 DEF IOInv, IOTypeOK, CallsTyped, InCall, OnePerDirection, EntriesCleared, kernelVars
    <3>4. OutputAwaited'
      <4>1. SUFFICES ASSUME NEW e \in Fds, OutputOwed(e)'
                     PROVE  \E g \in Freds : OutputWaits(g, e)'
        BY DEF OutputAwaited
      <4>2. OutputOwed(e)
        BY <4>1, <3>0, <1>0, <1>less, <1>ps DEF OutputOwed, HasEvent, epollVars
      <4>3. PICK g \in Freds : OutputWaits(g, e)
        BY <4>2 DEF IOInv, OutputAwaited
      <4>4. g # f
        <5>1. SUFFICES ASSUME g = f PROVE FALSE
          OBVIOUS
        <5>2. e = d /\ p = Output
          BY <5>1, <4>3, <3>1, <2>0 DEF OutputWaits
        <5> QED BY <5>2, <4>1, <3>0, <1>0, <1>out DEF OutputOwed, epollVars
      <4>5. OutputWaits(g, e)'
        BY <4>3, <4>4, <3>0, <3>1, <1>0 DEF OutputWaits, IOInv, IOTypeOK
      <4> QED BY <4>5
    <3>5. OutputOnce' /\ OutputReady'
      BY <3>0, <1>0, <1>less, <1>ps DEF IOInv, OutputOnce, OutputReady, HasEvent, epollVars, kernelVars
    <3>6. WaitersAwaited'
      <4>1. SUFFICES ASSUME NEW g \in Freds, pc'[g] \in {"P", "asleep"}
                     PROVE  \/ <<PollerFor(Dir(op[g])), fdOf[g]>> \in armed
                            \/ HasEvent(PollerFor(Dir(op[g])), fdOf[g])'
                            \/ pc'[g] = "P" /\ <<fdOf[g], Dir(op[g])>> \in sync'
                            \/ Dir(op[g]) = "out" /\ fdOf[g] \in failed
        BY <1>0 DEF WaitersAwaited, HasEvent, kernelVars, epollVars
      <4>2. g # f /\ pc'[g] = pc[g] /\ pc[g] # "idle"
        BY <4>1, <3>0, <3>1 DEF IOInv, IOTypeOK
      <4> QED BY <4>1, <4>2, <3>alone, <3>0, <2>4
    <3>7. ConnectWaits'
      <4>1. op[f] = "connect" => fdState[d] = "connected" \/ d \in failed
        BY <3>1, <2>0, <1>had DEF IOInv, OutputReady, Dir
      <4> QED BY <4>1, <3>0, <3>1, <1>0 DEF IOInv, IOTypeOK, ConnectWaits, kernelVars
    <3> QED BY <3>2, <3>3, <3>4, <3>5, <3>6, <3>7, <2>1, <2>2, <2>3 DEF IOInv
  <2>6. CASE Sleepers(d, dir) = {} /\ sync' = sync \cup {<<d, dir>>} /\ UNCHANGED pc
    <3>1. \A g \in Freds : fdOf[g] = d /\ Dir(op[g]) = dir => pc[g] # "asleep"
      BY <2>6 DEF Sleepers
    <3>2. IOTypeOK'
      BY <2>6, <2>0, <1>0, <1>ev DEF IOInv, IOTypeOK, kernelVars, epollVars
    <3>3. CallsTyped' /\ OnePerDirection' /\ EntriesCleared' /\ ConnectWaits'
      BY <2>6, <1>0 DEF IOInv, CallsTyped, OnePerDirection, EntriesCleared, ConnectWaits, kernelVars
    <3>4. \A e \in Fds : <<e, "out">> \in sync' => <<e, "out">> \in sync \/ (e = d /\ dir = "out")
      BY <2>6
    <3>5. OutputAwaited'
      <4>1. SUFFICES ASSUME NEW e \in Fds, OutputOwed(e)'
                     PROVE  \E g \in Freds : OutputWaits(g, e)'
        BY DEF OutputAwaited
      <4>2. OutputOwed(e)
        BY <4>1, <3>4, <2>0, <1>0, <1>had, <1>less, <1>ps DEF OutputOwed, HasEvent, epollVars
      <4>3. PICK g \in Freds : OutputWaits(g, e)
        BY <4>2 DEF IOInv, OutputAwaited
      <4>4. OutputWaits(g, e)'
        BY <4>3, <3>1, <3>4, <2>6, <1>0 DEF OutputWaits
      <4> QED BY <4>4
    <3>6. OutputOnce'
      BY <3>4, <2>0, <1>0, <1>less, <1>ps, <1>out DEF IOInv, OutputOnce, HasEvent, epollVars
    <3>7. OutputReady'
      BY <3>4, <2>0, <1>0, <1>had, <1>less, <1>ps DEF IOInv, OutputReady, HasEvent, kernelVars
    <3>8. WaitersAwaited'
      <4>1. SUFFICES ASSUME NEW g \in Freds, pc[g] \in {"P", "asleep"}
                     PROVE  \/ <<PollerFor(Dir(op[g])), fdOf[g]>> \in armed
                            \/ HasEvent(PollerFor(Dir(op[g])), fdOf[g])'
                            \/ pc[g] = "P" /\ <<fdOf[g], Dir(op[g])>> \in sync'
                            \/ Dir(op[g]) = "out" /\ fdOf[g] \in failed
        BY <2>6, <1>0 DEF WaitersAwaited, HasEvent, kernelVars, epollVars
      <4>2. CASE fdOf[g] = d /\ Dir(op[g]) = dir
        BY <4>1, <4>2, <3>1, <2>6
      <4>3. CASE ~(fdOf[g] = d /\ Dir(op[g]) = dir)
        BY <4>1, <4>3, <2>4, <2>6
      <4> QED BY <4>2, <4>3
    <3> QED BY <3>2, <3>3, <3>5, <3>6, <3>7, <3>8, <2>1, <2>2, <2>3 DEF IOInv
  <2> QED BY <2>5, <2>6, <1>0, <1>fd
<1> QED BY <1>master, <1>fd

\* A poller fibre finds nothing.
LEMMA PollNothingInv ==
  ASSUME IOInv, NEW p \in Pollers, PollNothing(p)
  PROVE  IOInv'
<1>1. IOTypeOK' /\ EventsTyped' /\ CallsTyped' /\ OnePerDirection' /\ ClosingExact' /\
   RegistrationExact' /\ EntriesCleared' /\ FibresRegistered' /\ OutputAwaited' /\
   OutputOnce' /\ OutputReady' /\ WaitersAwaited' /\ FibresAwaited' /\ ConnectWaits'
  BY DEF IOInv, IOTypeOK, EventsTyped, CallsTyped, OnePerDirection, ClosingExact,
     RegistrationExact, EntriesCleared, FibresRegistered, OutputAwaited, OutputOnce,
     OutputReady, WaitersAwaited, FibresAwaited, ConnectWaits, PollNothing,
     kernelVars, epollVars, fdVars, fredVars, OutputOwed, OutputWaits, HasEvent
<1> QED BY <1>1 DEF IOInv

\* Its new registration is armed, and nothing changes for output.
LEMMA BlockPollFDAwaited ==
  ASSUME IOInv, NEW p \in Pollers, BlockPollFD(p)
  PROVE  OutputAwaited' /\ FibresAwaited'
<1>0. /\ UNCHANGED <<fdVars, fredVars, events, registered>>
      /\ ppc' = [ppc EXCEPT ![p] = "P"]
      /\ armed' = IF <<Master, p>> \in registered THEN armed \cup {<<Master, p>>} ELSE armed
  BY DEF BlockPollFD, Modify
<1>1. OutputAwaited'
  <2>1. \A e \in Fds : OutputOwed(e)' => OutputOwed(e)
    BY <1>0, EventAssumption DEF OutputOwed, HasEvent, fdVars
  <2> QED BY <2>1, <1>0 DEF IOInv, OutputAwaited, OutputWaits, fdVars, fredVars
<1>2. FibresAwaited'
  <2>1. p \in Fibres => <<Master, p>> \in armed'
    BY <1>0 DEF IOInv, FibresRegistered
  <2> QED BY <2>1, <1>0 DEF IOInv, IOTypeOK, FibresAwaited, HasEvent, fdVars
<1> QED BY <1>1, <1>2

\* A poller fibre has its epoll descriptor watched.
LEMMA BlockPollFDInv ==
  ASSUME IOInv, NEW p \in Pollers, BlockPollFD(p)
  PROVE  IOInv'
<1>1. IOTypeOK' /\ EventsTyped' /\ CallsTyped' /\ OnePerDirection' /\ ClosingExact' /\
   RegistrationExact' /\ EntriesCleared' /\ FibresRegistered' /\ OutputReady' /\
   WaitersAwaited' /\ ConnectWaits'
  BY DEF IOInv, IOTypeOK, EventsTyped, CallsTyped, OnePerDirection, ClosingExact,
     RegistrationExact, EntriesCleared, FibresRegistered, OutputReady, WaitersAwaited,
     ConnectWaits, BlockPollFD, Modify, kernelVars, fdVars, fredVars, HasEvent
<1>2. OutputAwaited'
  BY BlockPollFDAwaited
<1>3. OutputOnce'
  BY EventAssumption DEF IOInv, OutputOnce, IOTypeOK, CallsTyped, InCall, Calls,
     HasEvent, BlockPollFD, Modify, fdVars
<1>4. FibresAwaited'
  BY BlockPollFDAwaited
<1> QED BY <1>1, <1>2, <1>3, <1>4 DEF IOInv

\* It is owed its wake-up before it sleeps.
LEMMA BlockPollPAwaited ==
  ASSUME IOInv, NEW p \in Pollers, BlockPollP(p)
  PROVE  FibresAwaited'
<1>1. SUFFICES ASSUME NEW q \in Fibres, ppc'[q] \in {"P", "asleep"}
               PROVE  \/ <<Master, q>> \in armed
                      \/ HasEvent(Master, q)
                      \/ ppc'[q] = "P" /\ <<q, "in">> \in sync'
  BY DEF BlockPollP, FibresAwaited, HasEvent, epollVars
<1>2. q \in Pollers
  BY DEF Pollers
<1>3. CASE q = p
  BY <1>1, <1>2, <1>3 DEF BlockPollP, IOInv, IOTypeOK, FibresAwaited
<1>4. CASE q # p
  BY <1>1, <1>2, <1>4 DEF BlockPollP, IOInv, IOTypeOK, FibresAwaited
<1> QED BY <1>3, <1>4

\* A poller fibre sleeps on its semaphore.
LEMMA BlockPollPInv ==
  ASSUME IOInv, NEW p \in Pollers, BlockPollP(p)
  PROVE  IOInv'
<1>1. IOTypeOK' /\ EventsTyped' /\ CallsTyped' /\ OnePerDirection' /\ ClosingExact' /\
   RegistrationExact' /\ EntriesCleared' /\ FibresRegistered' /\ OutputAwaited' /\
   OutputOnce' /\ OutputReady' /\ ConnectWaits'
  BY DEF IOInv, IOTypeOK, EventsTyped, CallsTyped, OnePerDirection, ClosingExact,
     RegistrationExact, EntriesCleared, FibresRegistered, OutputAwaited, OutputOnce,
     OutputReady, ConnectWaits, BlockPollP, kernelVars, epollVars, fredVars,
     OutputOwed, OutputWaits, HasEvent
<1>2. WaitersAwaited'
  BY EventAssumption DEF IOInv, WaitersAwaited, IOTypeOK, EventsTyped, CallsTyped,
     OnePerDirection, ClosingExact, RegistrationExact, EntriesCleared,
     FibresRegistered, OutputAwaited, OutputOnce, OutputReady, FibresAwaited,
     ConnectWaits, InCall, Calls, Dirs, Fibres, Pollers, Dir, PollerFor, Using,
     EvFlags, Ready, OutputOwed, OutputWaits, HasEvent, BlockPollP, kernelVars,
     epollVars, fredVars
<1>3. FibresAwaited'
  BY BlockPollPAwaited
<1> QED BY <1>1, <1>2, <1>3 DEF IOInv

---------------------------------------------------------------------------

LEMMA IOInitInv == Init => IOInv
<1> SUFFICES ASSUME Init PROVE IOInv
  OBVIOUS
<1> USE EventAssumption DEF Init
<1>1. IOTypeOK
  BY DEF IOTypeOK, InCall, Pollers
<1>2. EventsTyped /\ \A p \in Pollers : \A d : ~HasEvent(p, d)
  BY DEF EventsTyped, HasEvent, Pollers, Fibres
<1>3. CallsTyped /\ OnePerDirection /\ ClosingExact /\ ConnectWaits
  BY DEF CallsTyped, OnePerDirection, ClosingExact, ConnectWaits, InCall, Calls
<1>4. RegistrationExact
  BY DEF RegistrationExact, PollerFor, Fibres
<1>5. EntriesCleared /\ FibresRegistered
  BY DEF EntriesCleared, FibresRegistered
<1>6. OutputAwaited /\ OutputOnce /\ OutputReady
  BY <1>2 DEF OutputAwaited, OutputOnce, OutputReady, OutputOwed, Pollers, Fibres
<1>7. WaitersAwaited /\ FibresAwaited
  BY DEF WaitersAwaited, FibresAwaited, Pollers
<1> QED BY <1>1, <1>2, <1>3, <1>4, <1>5, <1>6, <1>7 DEF IOInv

LEMMA IONextInv == IOInv /\ [Next]_vars => IOInv'
<1> SUFFICES ASSUME IOInv, [Next]_vars PROVE IOInv'
  OBVIOUS
<1>1. ASSUME NEW f \in Freds, NEW d \in Fds, Begin(f, d) PROVE IOInv'
  BY <1>1, OpenInv, CloseInv, FcntlInv, ConnectInv, CallInv
     DEF Begin, cfibre_descriptor, cfibre_transfer, lfDescriptor, lfTransfer
<1>2. ASSUME NEW f \in Freds, Continue(f) \/ TimedOut(f) PROVE IOInv'
  BY <1>2, SetBlockingInv, CloseStepInv, SetupInv, PInv, RetryInv, ConnectReturnInv, TimedOutInv
     DEF Continue
<1>3. ASSUME NEW p \in Pollers, PollStep(p) PROVE IOInv'
  BY <1>3, DoPollInv, NotifyOneInv, PollNothingInv, BlockPollFDInv, BlockPollPInv DEF PollStep
<1>4. ASSUME NEW d \in Fds, World(d) PROVE IOInv'
  BY <1>4, WorldInv
<1>5. CASE UNCHANGED vars
  BY <1>5 DEF vars, kernelVars, epollVars, fdVars, fredVars, pollVars, IOInv, IOTypeOK,
     EventsTyped, CallsTyped, OnePerDirection, ClosingExact, RegistrationExact,
     EntriesCleared, FibresRegistered, OutputAwaited, OutputOnce, OutputReady, OutputOwed,
     OutputWaits, WaitersAwaited, FibresAwaited, ConnectWaits, HasEvent
<1> QED BY <1>1, <1>2, <1>3, <1>4, <1>5 DEF Next

LEMMA IOInvariant == SafeSpec => []IOInv
  BY IOInitInv, IONextInv, PTL DEF SafeSpec

---------------------------------------------------------------------------

\* No input or output event is lost: between the attempt that fails and the
\* wait, and at the end of every wait, a fred that sleeps in syncIO() on a
\* descriptor that is ready has an armed registration or a fetched event.
THEOREM EventsAreKept == SafeSpec => []EventKept
<1>1. IOInv => EventKept
  <2>1. SUFFICES ASSUME IOInv, NEW f \in Freds, pc[f] = "asleep", Ready(fdOf[f], Dir(op[f])),
                        Dir(op[f]) = "out" => fdOf[f] \notin failed
                 PROVE  Coming(PollerFor(Dir(op[f])), fdOf[f])
    BY DEF EventKept
  <2>2. \/ <<PollerFor(Dir(op[f])), fdOf[f]>> \in armed
        \/ HasEvent(PollerFor(Dir(op[f])), fdOf[f])
    BY <2>1 DEF IOInv, WaitersAwaited
  <2> QED BY <2>2 DEF Coming, HasEvent
<1> QED BY <1>1, IOInvariant, PTL

\* A poller fibre that has slept in blockPollFD() while its epoll descriptor
\* has something to report is woken by the master poller.
THEOREM PollerFibresAreKept == SafeSpec => []PollerFibreKept
<1>1. IOInv => PollerFibreKept
  BY DEF IOInv, FibresAwaited, PollerFibreKept, Coming, HasEvent
<1> QED BY <1>1, IOInvariant, PTL

\* fdSyncVector and the interest lists agree outside close(): no epoll_ctl
\* of setupFD() or of checkAsyncCompletion() fails.
THEOREM RegistrationsAreExact == SafeSpec => []RegistrationExact
<1>1. IOInv => RegistrationExact
  BY DEF IOInv
<1> QED BY <1>1, IOInvariant, PTL

\* connect() comes back from its only wait with the connection or an error:
\* no permit of an earlier use of the descriptor lets it through.
THEOREM ConnectsWait == SafeSpec => []ConnectWaits
<1>1. IOInv => ConnectWaits
  BY DEF IOInv
<1> QED BY <1>1, IOInvariant, PTL
=============================================================================
