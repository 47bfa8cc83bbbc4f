---------------------------- MODULE TrafficProfile ----------------------------
(***************************************************************************)
(* The traffic profile of src/worker/workerpool.go: the steps that the     *)
(* runner executes, the rate and concurrency it sets on its ticks, and the *)
(* easing functions of src/worker/options.go.                              *)
(*                                                                         *)
(* Times are integers.  A progress is elapsed / duration, an exact         *)
(* fraction where the code has a float64.  The interleavings of the runner *)
(* with the workers, hooks and Stop are in WorkerPool: here a step begins, *)
(* and a tick is handled, in one action that takes no time.                *)
(***************************************************************************)
EXTENDS Pacing, Sequences

CONSTANTS
    TickPeriod,   \* ticks of the runner are at most this far apart
    MaxTime       \* bound: the clock stops here

ASSUME ProfileAssumption == TickPeriod \in Nat \ {0} /\ MaxTime \in Nat

Easings == {"none", "linear", "in", "out", "inOut"}
Steps == [rps : Int, burst : Int, rpsEasing : Easings,
          concurrency : Int, concurrencyEasing : Easings,
          duration : Nat, repetitions : Nat, pause : BOOLEAN]

VARIABLES
    profile,          \* WorkerPool.profile
    step,             \* index of the current step
    phase,            \* where the runner is
    elapsed,          \* time since the step began
    sinceTick,        \* time since the last tick of the step, or its begin
    startRate,        \* the rate the step starts from
    startConcurrency, \* the concurrency the step starts from
    rate,             \* WorkerPool.rpsAtom
    maxCatchup,       \* RequestScheduler.maxCatchupNano
    target,           \* WorkerPool.targetConcurrency
    isUnlimited,      \* WorkerPool.isUnlimited
    remaining,        \* WorkerPool.remainingReps, 0 when it is below
    clock             \* time since Launch

timeVars == <<elapsed, sinceTick, clock>>
rateVars == <<rate, maxCatchup, target>>
repVars == <<isUnlimited, remaining>>
startVars == <<startRate, startConcurrency>>
profileVars == <<profile, step, phase, timeVars, rateVars, repVars, startVars>>

Step == profile[step]

----------------------------------------------------------------------------
(* calculateEasedValue. *)

\* Mutant of EasedParts: the second half of EasingInOut from the start.
LateHalfOnly(easing, n, d) ==
    IF easing = "inOut" THEN (4 * d - 2 * n) * n - d * d ELSE n * d

\* The easing functions at n / d, in parts of d * d.
EasedParts(easing, n, d) ==
    CASE easing = "linear" -> n * d
      [] easing = "in"     -> n * n
      [] easing = "out"    -> n * (2 * d - n)
      [] easing = "inOut"  -> IF 2 * n < d THEN 2 * n * n
                              ELSE (4 * d - 2 * n) * n - d * d

\* Mutant of AtLeastOne: zero, an unlimited rate, is not kept out.
AsComputed(value, from, to) == value

AtLeastOne(value, from, to) ==
    IF value < 1 /\ (to > 0 \/ from > 0) THEN 1 ELSE value

\* The value at n / d of the way.
EasedValue(from, to, n, d, easing) ==
    IF easing = "none" THEN to
    ELSE AtLeastOne(
            (from * d * d + EasedParts(easing, n, d) * (to - from)) \div (d * d),
            from, to)

----------------------------------------------------------------------------
\* The checks of LaunchWithContext.
ValidStep(st) ==
    /\ (st.rpsEasing # "none" \/ st.concurrencyEasing # "none") =>
          st.duration # 0
    /\ st.pause \/ st.concurrency > 0
    /\ st.rps >= 0

ValidProfile(p) == p # <<>> /\ \A i \in 1 .. Len(p) : ValidStep(p[i])

\* A run of profile p.
InitProfile(p) ==
    /\ profile = p
    /\ step = 1
    /\ phase = IF ValidProfile(p) THEN "begin" ELSE "refused"
    /\ elapsed = 0 /\ sinceTick = 0 /\ clock = 1
    /\ startRate = 1 /\ startConcurrency = 1
    /\ rate = 0 /\ maxCatchup = 0 /\ target = 0
    /\ isUnlimited = TRUE /\ remaining = 0

SetRateLimit(r, burst) ==
    /\ rate' = r
    /\ maxCatchup' = IF r > 0 THEN Catchup(r, burst) ELSE maxCatchup

\* executeStep, and the values runStep sets before its first tick.
BeginStep ==
    /\ phase = "begin"
    /\ ~Step.pause
    /\ isUnlimited' = (Step.repetitions = 0)
    /\ remaining' = IF Step.repetitions > 0 THEN Step.repetitions ELSE remaining
    /\ SetRateLimit(EasedValue(startRate, Step.rps, 0, 1, Step.rpsEasing),
                    Step.burst)
    /\ target' = EasedValue(startConcurrency, Step.concurrency, 0, 1,
                            Step.concurrencyEasing)
    /\ elapsed' = 0 /\ sinceTick' = 0
    /\ phase' = "run"
    /\ UNCHANGED <<profile, step, startVars, clock>>

\* The next step, which starts from the final values given; Stop after the
\* last one.
NextStep(finalRate, finalConcurrency) ==
    /\ startRate' = finalRate
    /\ startConcurrency' = finalConcurrency
    /\ IF step < Len(profile)
       THEN step' = step + 1 /\ phase' = "begin"
       ELSE step' = step /\ phase' = "over"
    /\ UNCHANGED <<profile, timeVars, rateVars, repVars>>

BeginPause ==
    /\ phase = "begin"
    /\ Step.pause
    /\ elapsed' = 0
    /\ phase' = "pause"
    /\ UNCHANGED <<profile, step, sinceTick, clock, rateVars, repVars,
                   startVars>>

EndPause ==
    /\ phase = "pause"
    /\ elapsed = Step.duration
    /\ NextStep(startRate, startConcurrency)

(* A tick: elapsed time, then repetitions, then the eased values.  A tick that
   was due earlier arrives at once. *)

DurationPassed == Step.duration > 0 /\ elapsed >= Step.duration

RepsUsed == Step.repetitions > 0 /\ remaining <= 0

\* The step ends with its final values.
TickEnds(active) ==
    /\ phase = "run"
    /\ DurationPassed \/ (RepsUsed /\ active = 0)
    /\ NextStep(EasedValue(startRate, Step.rps, 1, 1, Step.rpsEasing),
                EasedValue(startConcurrency, Step.concurrency, 1, 1,
                           Step.concurrencyEasing))

\* Workers in a call delay the end of a step whose repetitions are used.
TickWaits(active) ==
    /\ phase = "run"
    /\ ~DurationPassed /\ RepsUsed /\ active > 0
    /\ sinceTick' = 0
    /\ UNCHANGED <<profile, step, phase, elapsed, clock, rateVars, repVars,
                   startVars>>

\* Mutant of EasedSince: the time is read before the wait for the tick.
EasedSinceLastTick == elapsed - sinceTick

\* The time from which a tick computes the progress of the easing.
EasedSince == elapsed

TickAdjusts ==
    /\ phase = "run"
    /\ ~DurationPassed /\ ~RepsUsed
    /\ sinceTick' = 0
    /\ IF Step.rpsEasing = "none" THEN UNCHANGED <<rate, maxCatchup>>
       ELSE SetRateLimit(EasedValue(startRate, Step.rps, EasedSince,
                                    Step.duration, Step.rpsEasing), Step.burst)
    /\ target' = IF Step.concurrencyEasing = "none" THEN target
                 ELSE EasedValue(startConcurrency, Step.concurrency,
                                 EasedSince, Step.duration,
                                 Step.concurrencyEasing)
    /\ UNCHANGED <<profile, step, phase, elapsed, clock, repVars, startVars>>

\* A unit of time passes in a step or a pause.
StepTime ==
    /\ clock < MaxTime
    /\ \/ phase = "run" /\ sinceTick < TickPeriod /\ sinceTick' = sinceTick + 1
       \/ phase = "pause" /\ elapsed < Step.duration /\ UNCHANGED sinceTick
    /\ clock' = clock + 1
    /\ elapsed' = elapsed + 1
    /\ UNCHANGED <<profile, step, phase, rateVars, repVars, startVars>>

\* Mutant of MayCall: off by one.
MayCallOnceMore == isUnlimited \/ remaining >= 0

\* shouldContinue, by a worker that goes on and claims a repetition.
MayCall == isUnlimited \/ remaining > 0

ClaimRep ==
    /\ MayCall
    /\ remaining' = IF isUnlimited THEN remaining ELSE remaining - 1
    /\ UNCHANGED <<profile, step, phase, timeVars, rateVars, isUnlimited,
                   startVars>>

----------------------------------------------------------------------------
(* Properties. *)

\* Every variable has its type: in particular no rate or concurrency ever gets
\* negative between two non-negative ones (workerpool.go:466-478).
ProfileTypeOK ==
    /\ profile \in Seq(Steps)
    /\ step \in Nat \ {0}
    /\ phase \in {"begin", "run", "pause", "over", "refused"}
    /\ elapsed \in Nat /\ sinceTick \in Nat /\ clock \in Nat \ {0}
    /\ startRate \in Nat /\ startConcurrency \in Nat \ {0}
    /\ rate \in Nat /\ maxCatchup \in Nat /\ target \in Nat
    /\ isUnlimited \in BOOLEAN /\ remaining \in Nat

IsEasing == phase = "run" /\ Step.rpsEasing # "none"

\* A rate that is eased from or to a positive one is never 0 on the way, which
\* would send requests without any limit (workerpool.go:472-476), also not in
\* the step after one that eased to 0 or was unlimited.
NeverUnlimited == (IsEasing /\ (Step.rps > 0 \/ startRate > 0)) => rate >= 1

Limited(a) == IF a > 0 THEN a ELSE 1

Towards(a, b, to) == IF a <= to THEN a <= b /\ b <= to ELSE b <= a /\ to <= b

\* While a rate is eased it only ever moves from the rate the step starts with
\* towards the rate of the step, whichever ticks come late or at once, and
\* never beyond it; 0 counts as 1 (options.go:13-36, workerpool.go:466-478).
MovesTowardsTarget ==
    [][(/\ IsEasing' /\ step' = step
        /\ Step.rps > 0 \/ startRate > 0) =>
          Towards(IF phase = "begin" THEN Limited(startRate) ELSE rate,
                  rate', Limited(Step.rps))]_profileVars

Distance(a, b) == IF a <= b THEN b - a ELSE a - b

\* A step that eases over its duration, the last one too, has come to its rate,
\* but for twice the linear change of one tick period and the rounding, when its
\* duration has passed (workerpool.go:449-456).
ArrivesAtTarget ==
    [][(IsEasing /\ phase' # "run" /\ ~RepsUsed /\ Step.duration >= TickPeriod) =>
          (Distance(rate, Step.rps) - 1) * Step.duration
             <= 2 * TickPeriod * Distance(startRate, Step.rps)]_profileVars

=============================================================================
