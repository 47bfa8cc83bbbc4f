----------------------------- MODULE PacedTraffic -----------------------------
(***************************************************************************)
(* The runner of TrafficProfile, the scheduler and the workers together,   *)
(* over time: what a rate, a ramp, a pause and a slow server do to the     *)
(* requests that are sent.                                                 *)
(*                                                                         *)
(* The interleavings of the accesses to shared fields are in               *)
(* RequestScheduler and WorkerPool: here an attempt to reserve a send time *)
(* is one action, and time passes only when no worker has anything to do.  *)
(* A call takes as long as the server likes.                               *)
(***************************************************************************)
EXTENDS TrafficProfile, FiniteSetsExt

CONSTANTS
    Worker,      \* slots for workers, reused when one ends
    MaxCalls     \* bound: the counters of calls and skips saturate here

ASSUME WorkerAssumption == IsFiniteSet(Worker) /\ MaxCalls \in Nat

ASSUME TimeAssumption ==
    Second \in Nat \ {0} /\ JitLookahead \in Nat /\ JitSleepCap \in Nat \ {0}

VARIABLES
    worker,      \* per worker: where it is in its loop, and until when
    last,        \* RequestScheduler.last
    skipped,     \* scheduler_skipped_requests_total
    \* History variables.
    calls,       \* calls begun while repetitions are limited
    stepCalls,   \* paced calls begun since the step began
    carried,     \* workers that held a send time when the step began
    slow,        \* time has passed in a call since the step began
    settled      \* time since the rate changed, saturating beyond Grace

historyVars == <<calls, stepCalls, carried, slow, settled>>
pacedVars == <<worker, last, skipped, historyVars>>
trafficVars == <<profileVars, pacedVars>>

\* A worker is free at the top of its loop, takes at the next try of Take, waits
\* for the send time it has reserved, or calls the worker function.
None == [at |-> "none", until |-> 0]
Free == [at |-> "free", until |-> 0]
Calling == [at |-> "call", until |-> 0]

Active == {w \in Worker : worker[w] # None}
At(place) == {w \in Worker : worker[w].at = place}

Larger(a, b) == IF a > b THEN a ELSE b

\* How long a worker may not look at the rate: it waits for a send time it has
\* reserved, or for its next try.
Grace == Larger(JitLookahead, JitSleepCap)

SaturatingAdd(n, k) == IF n + k < MaxCalls THEN n + k ELSE MaxCalls

InitTraffic(p) ==
    /\ InitProfile(p)
    /\ worker = [w \in Worker |-> None]
    /\ last = AfterReset(clock)
    /\ skipped = 0
    /\ calls = 0 /\ stepCalls = 0 /\ carried = 0
    /\ slow = FALSE /\ settled = 0

----------------------------------------------------------------------------
(* The runner. *)

\* SetConcurrency(n): spawns the workers that are missing.
Spawn(n) ==
    LET missing == Larger(n - Cardinality(Active), 0)
    IN  \E new \in kSubset(missing, Worker \ Active) :
            worker' = [w \in Worker |-> IF w \in new THEN Free ELSE worker[w]]

\* Mutant of LastAtBegin: the schedule of the previous step goes on.
NotReset == last

LastAtBegin == AfterReset(clock)

RunnerBegins ==
    /\ BeginStep
    /\ last' = LastAtBegin
    /\ Spawn(target')
    /\ stepCalls' = 0 /\ carried' = Cardinality(At("wait"))
    /\ slow' = FALSE /\ settled' = 0
    /\ UNCHANGED <<skipped, calls>>

RunnerAdjusts ==
    /\ TickAdjusts
    /\ Spawn(target')
    /\ settled' = IF rate' = rate THEN settled ELSE 0
    /\ UNCHANGED <<last, skipped, calls, stepCalls, carried, slow>>

RunnerMovesOn ==
    /\ \/ BeginPause \/ EndPause
       \/ TickEnds(Cardinality(Active)) \/ TickWaits(Cardinality(Active))
    /\ UNCHANGED pacedVars

----------------------------------------------------------------------------
(* The workers. *)

Goto(w, place) == worker' = [worker EXCEPT ![w] = place]

\* No worker function is called before Launch or after Stop.
Running == phase \in {"begin", "run", "pause"}

TooMany == Cardinality(Active) > target

\* tryScaleDown, before a pause holds the worker, or no repetition left.
Leave(w) ==
    /\ Running
    /\ worker[w] = Free
    /\ TooMany \/ (phase # "pause" /\ ~MayCall)
    /\ Goto(w, None)
    /\ UNCHANGED <<profileVars, last, skipped, historyVars>>

Claim(w) ==
    /\ Running /\ phase # "pause"
    /\ worker[w] = Free
    /\ ~TooMany
    /\ ClaimRep
    /\ Goto(w, [at |-> "take", until |-> clock])
    /\ UNCHANGED <<last, skipped, historyVars>>

BeginCall(w) ==
    /\ Goto(w, Calling)
    /\ calls' = IF isUnlimited THEN calls ELSE calls + 1
    /\ stepCalls' = IF rate > 0 THEN SaturatingAdd(stepCalls, 1) ELSE stepCalls
    /\ UNCHANGED <<carried, slow, settled>>

Tries(w) == Running /\ worker[w].at = "take" /\ worker[w].until <= clock

TakeUnlimited(w) ==
    /\ Tries(w)
    /\ rate = 0
    /\ BeginCall(w)
    /\ UNCHANGED <<profileVars, last, skipped>>

NextSendTime == NextSend(last, Interval(rate))

TryLater(w) ==
    /\ Tries(w)
    /\ rate > 0
    /\ TooFarAhead(NextSendTime, clock)
    /\ Goto(w, [at |-> "take",
                until |-> clock + RetryDelay(NextSendTime, clock)])
    /\ UNCHANGED <<profileVars, last, skipped, historyVars>>

Reserve(w) ==
    /\ Tries(w)
    /\ rate > 0
    /\ ~TooFarAhead(NextSendTime, clock)
    /\ IF TooFarBehind(NextSendTime, clock, maxCatchup)
       THEN /\ last' = clock - maxCatchup
            /\ skipped' = SaturatingAdd(skipped,
                             SkippedRequests(NextSendTime, clock, maxCatchup,
                                             Interval(rate)))
       ELSE last' = NextSendTime /\ UNCHANGED skipped
    /\ IF last' > clock
       THEN /\ Goto(w, [at |-> "wait", until |-> last'])
            /\ UNCHANGED historyVars
       ELSE BeginCall(w)
    /\ UNCHANGED profileVars

SendTimeCame(w) == worker[w].at = "wait" /\ worker[w].until <= clock

Send(w) ==
    /\ Running
    /\ SendTimeCame(w)
    /\ BeginCall(w)
    /\ UNCHANGED <<profileVars, last, skipped>>

EndCall(w) ==
    /\ Running
    /\ worker[w] = Calling
    /\ Goto(w, Free)
    /\ UNCHANGED <<profileVars, last, skipped, historyVars>>

WorkerStep(w) ==
    \/ Leave(w) \/ Claim(w)
    \/ TakeUnlimited(w) \/ TryLater(w) \/ Reserve(w)
    \/ Send(w) \/ EndCall(w)

HasToAct(w) ==
    \/ worker[w] = Free /\ (phase # "pause" \/ TooMany)
    \/ Tries(w)
    \/ SendTimeCame(w)

TimePasses ==
    /\ \A w \in Worker : ~HasToAct(w)
    /\ StepTime
    /\ slow' = (slow \/ At("call") # {})
    /\ settled' = IF settled > Grace THEN settled ELSE settled + 1
    /\ UNCHANGED <<worker, last, skipped, calls, stepCalls, carried>>

\* The run is over, Launch refused it, or the clock has stopped.
Ended ==
    /\ phase \in {"over", "refused"} \/ clock = MaxTime
    /\ UNCHANGED trafficVars

TrafficNext ==
    \/ RunnerBegins \/ RunnerAdjusts \/ RunnerMovesOn
    \/ \E w \in Worker : WorkerStep(w)
    \/ TimePasses
    \/ Ended

----------------------------------------------------------------------------
(* Properties. *)

\* Every variable has its type: in particular no rate or concurrency ever gets
\* negative between two non-negative ones (workerpool.go:466-478), and a
\* repetition is only taken while one is left (workerpool.go:345).
TypeOK ==
    /\ ProfileTypeOK
    /\ worker \in [Worker -> [at : {"none", "free", "take", "wait", "call"},
                              until : Nat]]
    /\ last \in Int
    /\ skipped \in 0 .. MaxCalls
    /\ calls \in Nat /\ stepCalls \in 0 .. MaxCalls
    /\ carried \in 0 .. Cardinality(Worker)
    /\ slow \in BOOLEAN
    /\ settled \in 0 .. Grace + 1

\* Against a fast server the rate is kept, however it was eased there: once a
\* rate has been set for longer than jitLookahead, no send time stays without a
\* worker for longer than jitSleepCap after it has come, although workers sleep
\* until send times they reserved or retries they timed at an older and slower
\* rate (rate_limiter.go:12-19, 118-128).
PaceKept ==
    (phase = "run" /\ rate > 0 /\ ~slow /\ MayCall /\ settled > Grace) =>
        clock <= NextSendTime + JitSleepCap

HighestRate == Larger(startRate, Step.rps)

\* A step sends no more requests than it has had time for at its rate, however
\* far the step before it had fallen behind: the workers that already held a
\* send time send one each, and what a slow server or a pause has delayed is
\* dropped (rate_limiter.go:72-76, workerpool.go:407-408).
BacklogDropped ==
    (phase = "run" /\ Step.rps > 0) =>
        stepCalls <= carried + 1 + elapsed \div Interval(HighestRate)

\* "Number of requests that were never sent because the server was too slow"
\* (prometheus.go:102): requests are counted as skipped only after a call that
\* took time.
SkippedMeansSlow == [][skipped' > skipped => slow]_trafficVars

=============================================================================
