------------------------------- MODULE Fred -------------------------------
(***************************************************************************)
(* The suspend/resume protocol of a Fred, the execution context that every  *)
(* blocking operation of the runtime is built on (runtime/Fred.h, Fred.cc). *)
(*                                                                          *)
(* A fred that blocks clears resumeInfo (prepareResumeRace), publishes      *)
(* itself in one or two queues and calls suspend().  Whoever wants to wake  *)
(* it first wins the race on resumeInfo (raceResume), then calls resume(),  *)
(* one atomic addition to runState.  A resume that comes before the stack   *)
(* of the fred has been saved is recorded as ResumedEarly and is honoured   *)
(* by suspend() or by postSuspend().                                        *)
(*                                                                          *)
(* This module is the shared part of the specifications of the blocking     *)
(* primitives: they EXTEND it and call its actions.                         *)
(***************************************************************************)
EXTENDS Integers

CONSTANTS Freds,     \* the user-level threads
          Null,      \* the null pointer
          Timer      \* the timer: a resumer, and the winner value it leaves

ASSUME FredAssumption ==
  /\ Null \notin Freds
  /\ Timer \notin Freds
  /\ Timer # Null

VARIABLES
  pc,          \* fred -> where its program is; "switch"/"off" while suspending
  runState,    \* fred -> Parked, Running or ResumedEarly
  resumeInfo,  \* fred -> who won the race to resume it, Null while undecided
  readyLinks,  \* fred -> how often it is linked into ready queues
  pending      \* resumer -> the fred it won and is about to resume(), or Null

raceVars == <<runState, resumeInfo, readyLinks, pending>>
fredVars == <<pc, runState, resumeInfo, readyLinks, pending>>

Parked       == 0
Running      == 1
ResumedEarly == 2

\* The places in a fred's program that the primitives tell apart: outside any
\* of them ("idle"), in a wait, after it, and about to resume() another fred.
Labels == {"idle", "arm", "suspend", "switch", "off", "resumed",
           "unblocked", "timedout", "wake"}

\* Freds wake each other; the master poller's thread wakes expired ones.
Resumers == Freds \cup {Timer}

FredInit ==
  /\ pc = [f \in Freds |-> "idle"]
  /\ runState = [f \in Freds |-> Running]
  /\ resumeInfo = [f \in Freds |-> Null]
  /\ readyLinks = [f \in Freds |-> 0]
  /\ pending = [r \in Resumers |-> Null]

---------------------------------------------------------------------------
(* Steps of the protocol, used by the actions of the primitives.            *)

\* prepareResumeRace(): the fred opens a new race for itself.
PrepareResumeRace(f) == resumeInfo' = [resumeInfo EXCEPT ![f] = Null]

\* raceResume(ri) succeeds only while the race is undecided.
CanWin(f) == resumeInfo[f] = Null

RaceResume(f, ri) == resumeInfo' = [resumeInfo EXCEPT ![f] = ri]

\* resumeInternal(): link the fred into a ready queue.
ResumeInternal(f) == readyLinks' = [readyLinks EXCEPT ![f] = @ + 1]

\* Mutant of Resume: link the fred whatever its state was.
ResumeLinksAlways(r) ==
  /\ pending[r] # Null
  /\ runState' = [runState EXCEPT ![pending[r]] = @ + 1]
  /\ ResumeInternal(pending[r])
  /\ pending' = [pending EXCEPT ![r] = Null]
  /\ UNCHANGED resumeInfo

\* resume() of the fred that r has won.
Resume(r) ==
  LET f == pending[r] IN
  /\ f # Null
  /\ runState' = [runState EXCEPT ![f] = @ + 1]
  /\ \/ runState[f] = Parked /\ ResumeInternal(f)
     \/ runState[f] # Parked /\ UNCHANGED readyLinks
  /\ pending' = [pending EXCEPT ![r] = Null]
  /\ UNCHANGED resumeInfo

---------------------------------------------------------------------------
(* Actions of a suspending fred.                                            *)

\* suspend(): skip the switch when the resume has come already.
SuspendSkip(f) ==
  /\ pc[f] = "suspend"
  /\ runState[f] = ResumedEarly
  /\ runState' = [runState EXCEPT ![f] = Running]
  /\ pc' = [pc EXCEPT ![f] = "resumed"]
  /\ UNCHANGED <<resumeInfo, readyLinks, pending>>

\* suspendInternal(): leave for the next fred; the stack is saved, but the
\* processor has not yet executed postSuspend.
SuspendInternal(f) ==
  /\ pc[f] = "suspend"
  /\ runState[f] # ResumedEarly
  /\ pc' = [pc EXCEPT ![f] = "switch"]
  /\ UNCHANGED <<runState, resumeInfo, readyLinks, pending>>

\* Mutant of PostSuspend: an early resume is not honoured.
PostSuspendForgets(f) ==
  /\ pc[f] = "switch"
  /\ pc' = [pc EXCEPT ![f] = "off"]
  /\ runState' = [runState EXCEPT ![f] = @ - 1]
  /\ UNCHANGED <<resumeInfo, readyLinks, pending>>

\* postSuspend(), on the stack of the next fred: park, or honour the resume
\* that came in the meantime.
PostSuspend(f) ==
  /\ pc[f] = "switch"
  /\ pc' = [pc EXCEPT ![f] = "off"]
  /\ runState' = [runState EXCEPT ![f] = @ - 1]
  /\ \/ runState[f] = ResumedEarly /\ ResumeInternal(f)
     \/ runState[f] # ResumedEarly /\ UNCHANGED readyLinks
  /\ UNCHANGED <<resumeInfo, pending>>

\* A processor takes the fred from a ready queue and switches to it.
Dispatch(f) ==
  /\ pc[f] = "off"
  /\ readyLinks[f] > 0
  /\ readyLinks' = [readyLinks EXCEPT ![f] = @ - 1]
  /\ pc' = [pc EXCEPT ![f] = "resumed"]
  /\ UNCHANGED <<runState, resumeInfo, pending>>

FredStep(f) == SuspendSkip(f) \/ SuspendInternal(f) \/ PostSuspend(f) \/ Dispatch(f)

---------------------------------------------------------------------------
(* Properties of the protocol, for every primitive built on it.             *)

\* Some resumer has won f and still owes it the resume().
Owed(f) == \E r \in Resumers : pending[r] = f

\* The assertions of resume(), postSuspend() and prepareResumeRace(): a fred
\* is resumed at most once per suspension, so a resume() never meets
\* ResumedEarly, and a fred that runs outside a suspension is Running.
RunStateProtocol ==
  \A f \in Freds :
    /\ runState[f] \in {Parked, Running, ResumedEarly}
    /\ Owed(f) => runState[f] # ResumedEarly
    /\ \A r, s \in Resumers : pending[r] = f /\ pending[s] = f => r = s
    /\ pc[f] \notin {"arm", "suspend", "switch", "off"}
         => runState[f] = Running /\ ~Owed(f)

\* A fred is linked into at most one ready queue (the link is intrusive), and
\* only after its stack has been saved and before it runs again.
LinkedOnce ==
  \A f \in Freds :
    /\ readyLinks[f] <= 1
    /\ readyLinks[f] = 1 => pc[f] = "off" /\ runState[f] = Running
===========================================================================
