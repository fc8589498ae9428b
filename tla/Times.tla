------------------------------- MODULE Times -------------------------------
(***************************************************************************)
(* Time of runtime/Basics.h: seconds and nanoseconds, on which deadlines    *)
(* are computed and compared.  Times are not negative, as the clock and the *)
(* timeouts the runtime adds to it; seconds are bounded by MaxSec.          *)
(***************************************************************************)
EXTENDS Integers

CONSTANTS NSEC, USEC, MSEC,   \* parts of a second, each a multiple of the next
          MaxSec

VARIABLES
  tv,     \* a Time: its tv_sec and tv_nsec
  exact   \* what it should be, in nanoseconds (history)

timeVars == <<tv, exact>>

FromMS(ms) == [sec |-> ms \div MSEC, nsec |-> (ms % MSEC) * (NSEC \div MSEC)]
FromUS(us) == [sec |-> us \div USEC, nsec |-> (us % USEC) * (NSEC \div USEC)]
FromNS(ns) == [sec |-> ns \div NSEC, nsec |-> ns % NSEC]

ToMS(t) == MSEC * t.sec + t.nsec \div (NSEC \div MSEC)
ToUS(t) == USEC * t.sec + t.nsec \div (NSEC \div USEC)
ToNS(t) == NSEC * t.sec + t.nsec

\* operator+ and +=: exactly one second of nanoseconds is not carried.
Plus(t, u) ==
  LET n == t.nsec + u.nsec IN
  IF n > NSEC THEN [sec |-> t.sec + u.sec + 1, nsec |-> n - NSEC]
              ELSE [sec |-> t.sec + u.sec, nsec |-> n]

\* operator- and -=.
Minus(t, u) ==
  LET n == t.nsec - u.nsec IN
  IF n < 0 THEN [sec |-> t.sec - u.sec - 1, nsec |-> n + NSEC]
           ELSE [sec |-> t.sec - u.sec, nsec |-> n]

Less(t, u) == IF t.sec = u.sec THEN t.nsec < u.nsec ELSE t.sec < u.sec

---------------------------------------------------------------------------

Operands == {FromNS(n) : n \in 0 .. 2 * NSEC - 1}

TimesInit == exact \in 0 .. NSEC - 1 /\ tv = FromNS(exact)

Add(u) ==
  /\ tv.sec + u.sec < MaxSec
  /\ tv' = Plus(tv, u) /\ exact' = exact + ToNS(u)

Subtract(u) ==
  /\ ToNS(u) <= exact
  /\ tv' = Minus(tv, u) /\ exact' = exact - ToNS(u)

\* usleep() and sleep() of Fibre; the timeout of epoll_wait in milliseconds.
Sleep ==
  \/ \E us \in 0 .. 2 * USEC : tv' = FromUS(us) /\ exact' = us * (NSEC \div USEC)
  \/ \E secs \in 0 .. 2 : tv' = [sec |-> secs, nsec |-> 0] /\ exact' = secs * NSEC

EpollTimeout == \E ms \in 0 .. 2 * MSEC : tv' = FromMS(ms) /\ exact' = ms * (NSEC \div MSEC)

\* The C calls forward to Fibre.
cfibre_sleep == Sleep

TimesNext == cfibre_sleep \/ EpollTimeout \/ \E u \in Operands : Add(u) \/ Subtract(u)

TimesSpec == TimesInit /\ [][TimesNext]_timeVars

---------------------------------------------------------------------------

\* However deadlines are added up, no nanosecond is lost or made, what is left
\* after whole seconds is at most one second, and two times that are both
\* normalised are ordered as they should be.
TimesExact ==
  /\ ToNS(tv) = exact
  /\ tv.nsec \in 0 .. NSEC
  /\ ToMS(tv) = exact \div (NSEC \div MSEC) /\ ToUS(tv) = exact \div (NSEC \div USEC)
  /\ tv.nsec < NSEC => \A u \in Operands : Less(tv, u) <=> exact < ToNS(u)
============================================================================
