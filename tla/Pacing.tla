-------------------------------- MODULE Pacing --------------------------------
(***************************************************************************)
(* The arithmetic of send times: what Take of src/worker/rate_limiter.go   *)
(* computes from a rate, the clock and the last reservation, and the       *)
(* catch-up that SetRateLimit of src/worker/workerpool.go stores.          *)
(***************************************************************************)
EXTENDS Integers

CONSTANTS
    Second,         \* time.Second, in clock units
    JitLookahead,   \* jitLookahead
    JitSleepCap     \* jitSleepCap

Interval(r) == Second \div r

\* max(burst, 1) / rps seconds.
Catchup(r, b) == ((IF b > 1 THEN b ELSE 1) * Second) \div r

\* RequestScheduler.last after Reset(t).
AfterReset(t) == -t

\* Mutant of NextSend: forgets that a negative last is a Reset.
NextSendIgnoringReset(seen, interval) == seen + interval

NextSend(seen, interval) == IF seen < 0 THEN -seen ELSE seen + interval

\* Mutant of TooFarAhead: off by one.
TooFarAheadOneLate(next, clock) == next - 1 > clock + JitLookahead

TooFarAhead(next, clock) == next > clock + JitLookahead

\* Mutant of RetryDelay: sleeps until the send time may be reserved, whatever
\* the rate becomes before.
DelayUncapped(next, clock) == next - clock - JitLookahead + 1

RetryDelay(next, clock) ==
    LET needed == next - clock - JitLookahead + 1
    IN  IF needed < JitSleepCap THEN needed ELSE JitSleepCap

\* Mutant of TooFarBehind: the catch-up is never bounded.
NeverTooFarBehind(next, clock, catchup) == FALSE

TooFarBehind(next, clock, catchup) == catchup > 0 /\ next < clock - catchup

\* Mutant of SkippedRequests: counts the catch-up window as skipped too.
SkippedUpToNow(next, clock, catchup, interval) == (clock - next) \div interval

SkippedRequests(next, clock, catchup, interval) ==
    (clock - catchup - next) \div interval

=============================================================================
