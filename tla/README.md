# Models of echoclient

echoclient is a Go library and command that sends HTTP traffic: a pool of worker
goroutines calls a worker function, paced by a request scheduler, along a traffic
profile of steps. These modules model the parts of it that are hard to test,
check them with TLC on small instances and prove many of the properties with
TLAPS for every instance.

## The system

| Part | State | Operations | Used by |
|---|---|---|---|
| Request scheduler, `worker/rate_limiter.go` | `last`, `maxCatchupNano` (atomics), the pool's `rpsAtom` | `Take`, `Reset`, `SetMaxCatchup` | every worker, before each call |
| Worker pool, `worker/workerpool.go` | `targetConcurrency`, `activeWorkers`, `isUnlimited`, `remainingReps` (atomics), `wg`, `ctx`, `finished`/`result`, `resume` | `Launch`, `Wait`, `Stop`, `Abort`, `SetConcurrency`, `SetRateLimit`, `SetWorker`, the hooks of workers, the runner `runProfileSteps`, the worker loop `runWorker` | the commands, programs, worker functions |
| Traffic profile, `worker/options.go` | none; `Step` values with their hooks | options, easing functions | the runner |
| Mix, `worker/compose.go` | none | `Mix` | programs |
| Commands, `cmd/echoclient` | flags, signal channel, ticker | `runGet`, `runUpload`, `runSubcommand` | the user |
| Metrics report, `metrics/formatter.go` | `prevMetricValues`, `prevMetricsDumpTime` (no lock) | `DumpMetrics`, `DumpMetricsJSON` | ticker, signal and main goroutine |
| Metrics registry and server, `metrics/prometheus.go` | counters, histograms | declarations, `StartPrometheusServer` | all |
| Measuring client, `client/http.go` | per response: `once` | `RoundTrip`, `Read`, `Close` | worker functions |
| Data generator, `generator/reader.go` | `sizeRemaining`, `asciiPatternIndex` | `Read` | upload |

The runner is a goroutine that sets rate and concurrency for each step and on
every 100 ms tick. `SetConcurrency` spawns workers; a worker leaves its loop when
the context is done, when there are more workers than the target, or when the
repetitions are used. Users, worker functions and hooks may call
`SetConcurrency`, `SetRateLimit`, `SetWorker`, `Stop` and `Abort` at any time. Everything is
coordinated by single atomic accesses, one wait group and two small mutexes, so
the hard behaviour is in their interleavings:

- **scheduler**: the race for a send time, with clock, rate, `last` and catch-up
  read one by one before the compare-and-swap; `Reset` and rate changes in
  between; stalls and the burst after them; cancellation of every sleep.
  Correct when the rate is never exceeded, no request is early or far ahead, and
  skipped requests are counted honestly.
- **pool**: stale loads in `SetConcurrency` and `tryScaleDown`; workers that race
  for the last repetition; pauses and step changes under workers that have passed
  the checks already; Stop, Abort, the end of the profile and the parent context
  racing; a worker spawned after cancellation; an exit hook that still runs when
  its worker is no longer counted; a worker function that is set after the
  repetitions it belongs to. Correct when the two counters
  count, each step makes its calls, the pool comes to its target, and it ends.
- **profile and commands**: ticks that are late or come at once, rounding, 0 as
  "unlimited"; workers that sleep by an old rate; a backlog when a step begins.
  Correct when rates go where the easing says and a run takes as long
  and makes as many calls as the flags say.
- **report**: three goroutines share the state of the rates. Correct when the
  rates add up to the calls, the percentiles fit the samples, and the process ends.
- **client**: read, close and cancellation of one body in any order. Correct when
  each request is recorded once and as what it was.

PROJECT.json lists each hazard with its line and the properties for it, or the
reason why no property covers it.

## Modules

| Module | Models | Notes |
|---|---|---|
| `Pacing` | the arithmetic of `Take` and of the catch-up | operators, used by the next and by `PacedTraffic` |
| `RequestScheduler` | `rate_limiter.go`, `SetRateLimit` | each worker is at a label of `Take`; one action per atomic access, clock read or select |
| `PacedSends` | what the scheduler promises | abstract: send times are granted, apart and near, and used when they have come |
| `WorkerPool` | `workerpool.go` | runner, workers and `SetConcurrency` calls each have a program counter; one action per atomic access |
| `PoolLife` | what the pool promises | abstract: workers arrive, get ready, call and depart; a run ends and `Wait` answers |
| `TrafficProfile` | `runProfileSteps`, `runStep`, `calculateEasedValue`, the easing functions, the repetitions | the runner over time |
| `PacedTraffic` | the runner, the scheduler and the workers together | over time; one try of `Take`, one claim, one call is an action |
| `Commands` | profiles of `get.go` and `upload.go`, over `PacedTraffic` | also profiles of programs |
| `MetricsReport` | `runSubcommand` and `synthetizeRateMetrics` | one action per access to the shared variables |
| `Percentiles` | `percentileFromHistogram`, `classicBuckets`, `nativeBuckets` | operators |
| `CallContents` | `Mix`, the generator's `Read` and its options | operators |
| `HttpCalls` | `client/http.go` and the worker functions, over `CallContents` and `Percentiles` | the transport is external |
| `MC...` | instances for TLC | |
| `Numbers` | lemmas on induction, sums, products and quotients | used by the proofs |
| `RequestSchedulerProofs`, `WorkerPoolProofs`, `PoolStepsProofs`, `TrafficProofs`, `PercentilesProofs`, `HttpCallsProofs`, `ReportProofs` | theorems | |

State and actions keep the names of the code where they have one; other variables
are program counters and the locals that a goroutine keeps between two actions.
Variables marked as history exist only for properties and no guard of the code
reads them. A definition that a comment calls a mutant is a plausible bug: put in
place of the definition it is named after, it must break the property that
PROJECT.json lists for it. They show that the properties can fail.

How the pieces meet:

- `RequestScheduler` takes rates, Resets and cancellation from an environment that
  may do each at any time, which includes what the pool does. `WorkerPool` in turn
  abstracts `Take` to a wait of any length that notices the cancelled context,
  which is what `RequestScheduler` shows about it (`CancelledTakesReturn`).
- `PacedTraffic` puts both together over time: the rates, Resets and targets are
  the runner's, and what a worker claims, takes and calls uses up repetitions, moves
  `last` and sleeps by `Pacing`. It shows what neither part shows alone: that the
  pace is kept while the rate eases, and what a pause or a slow server leaves behind.
  Time passes only when no worker can act, so a worker is never preempted here; the
  interleavings of single accesses are those of the two modules before.
- `MetricsReport` relies on `LivesAsPromised` of the pool: no call after `runGet`
  has returned.

Refinements:

- `RequestScheduler` implements `PacedSends` (`SendsArePaced`): a worker holds the
  send time it has reserved until it returns, `earliest` is the next send time at
  the highest rate, and everything else stutters.
- `WorkerPool` implements `PoolLife` (`LivesAsPromised`) when its API is used from
  inside the run, by step hooks, worker hooks and worker functions (`Caller = {}`).
  A worker is alive while its exit hook has still to run, or until its goroutine
  returns when there are no worker hooks; it is ready from the check of the context
  to the call. With an outside goroutine it would not hold: `wg.Add` of a
  `SetConcurrency` may come after `Wait` has returned.

Abstractions that matter:

- Integers for time. `RequestScheduler` has a second of `Second` clock units; in the
  instances of `Commands` a unit is 50 ms. `TrafficProfile` computes easing with
  exact fractions where the code has floats, so rounding to an integer is modelled
  and a float that falls just below an integer is not.
- `WorkerPool` keeps every negative value of `remainingReps` as -1, `TrafficProfile`
  as 0: a claim below zero fails in either case.
- Worker goroutines are a finite set of slots that are used again. `Spawn` waits
  for a free slot, which the code never does: safety runs lose some behaviours with
  more workers than slots, and liveness runs have as many slots as their profiles
  and users can ask for, so that no spawn waits for good.
- A worker function is told apart by who set it: the pool, a step, or a user.
  Exit hooks, step hooks and functions may use the API while they run.
- In `MetricsReport` one counter stands for the three that get a rate, and a
  rate is kept as a difference and a time. The dump on a signal is an action like the
  others, but what it and the dumps it overlaps print is left open: their rates may be
  negative, and `RatesAddUp` and `RatesNotNegative` speak of runs without a signal.
- In `HttpCalls` an answer ends the reading of the request body, and the server
  may answer at any time. The transport does not read into an empty buffer, for
  which `Read` would end the data early (reader.go:98). The commands choose data, size and chunk; the two other
  programs differ in who closes the response body, and upload ASCII data in the
  default chunks.

## Runs

| Run | Shows | Bounds |
|---|---|---|
| `SchedulerRace` | `Spacing`, `NeverEarly`, `LookaheadBound`, `SkippedAccounted`, `SendsArePaced`, `TypeOK` under racing workers, two-store rate changes and a Reset | two workers, one setter, rates with intervals 1 and 2, three clock values, one Reset |
| `SchedulerStall` | `BurstBound`, `CancelledTakesReturn` with workers stalled at every point | two workers, a catch-up window of one or two units, five clock values |
| `PoolSteps` | `RepetitionsExact`, `PauseBoundsCalls`, `RepsOverrunBound`, `NeverUndershoots`, `RepsUseStepFunction` | three workers, four profiles of up to four steps, one call of `SetConcurrency` or `SetWorker` by a worker function, failing start hooks |
| `PoolUsers` | `ActiveAccounting`, `WgAccounting`, `WaitReturnsFirst`, `OverspawnBound`, `TypeOK` with an outside goroutine | two workers, three profiles, one user call of `SetConcurrency` or `SetWorker`, Stop, Abort, parent cancel, step and worker hooks |
| `PoolEnds` | `RunEnds`, `LivesAsPromised` | two workers with hooks, profiles with pauses, both limits, and an endless one |
| `PoolConverges` | `ConcurrencyConverges` | three workers, one `SetConcurrency` by a worker function |
| `PoolTickOverwrites` | violated: a tick undoes a user's `SetConcurrency` | |
| `CommandsRun` | `NeverUnlimited`, `MovesTowardsTarget`, `ArrivesAtTarget`, `GetTakesDuration`, `MakesRepetitions`, `PaceKept`, `BacklogDropped`, `TypeOK` | three workers, 72 combinations of flags and 25 profiles, among them all pairs of easings; ticks 0 to 2 units late; 19 units of time, which is nearly a second |
| `CommandsDuration` | violated: `-duration` not above `-ramp-up-period` runs without end | |
| `SkippedMeansSlow` | violated: the end of a pause counts the requests of the pause as skipped | |
| `Report` | `RatesAddUp`, `RatesNotNegative`, `InterruptEnds`, `EndedRunEnds` | two ticks, two calls, a signal at any time |
| `HttpCalls` | `EndsOnce`, `CloseIsNoError`, `FailuresCounted`, `UploadIsExact`, `MixIsProportional`, `PercentilesFit` | two workers, two requests, four mixes, two sizes, two chunks, two buffers, four buckets |

Why the bounds are enough: a lost compare-and-swap, a stale load and a step
between two stores need two goroutines and one change. Three workers give
`tryScaleDown` a second leaver. In `SchedulerRace` the look-ahead is one unit and the
clock runs for two, no more than the longest interval: long enough that a send time
is reserved ahead of the clock and slept for, that the next one is too far ahead and
retried, and that one is missed by two units, which is more than the catch-up window of
the higher rate, and skipped. In `SchedulerStall` the look-ahead is two units and the
clock runs for four, exactly the look-ahead and the longest interval: a stall may
last twice the longest catch-up window. A profile of four steps has two pauses in a
row between two other steps. In `CommandsRun` a rate of 20 has an interval of one unit and a rate of 4 one of
five, on both sides of the look-ahead of two. Two ticks of the report and the last
dump give three dumps. Two requests fill two spans, or a gap between two buckets of
one, and the zero bucket; a size of 4 is neither a multiple of the chunk nor of the
longer buffer.

What each violated run shows is in PROJECT.json under findings. In four more places
the code does less than a comment says. There the property states the weaker claim
that holds:

- options.go:130 says of a pause that workers "do not call the worker function until
  the pause ends"; each worker may still make the call it was about to make
  (`PauseBoundsCalls`).
- options.go:115 says "WithRepetitions sets the total number of repetitions (worker
  function invocations) for the step."; when the step before had no repetitions,
  each worker that was past the check by then may make one call more
  (`RepsOverrunBound`).
- rate_limiter.go:46-51 and 79 say that at most d x rps requests fire at once after a
  stall. `BurstBound` allows d x rps + 1, for both ends of the window count, and one
  more for each worker: a worker that read the clock before the stall reserves a send
  time by that old value, and fires it besides those of the window.
- rate_limiter.go:37 says "Reserved send times are never given out again."; across a
  Reset they are. It overwrites a reservation whose worker still sleeps, and the same
  time may be reserved by another worker. `Spacing` and `SendsArePaced` therefore
  speak of the sends between two Resets; `BacklogDropped` counts the requests of the
  workers that slept as carried over.

README.md:47 says the example ramps down to zero; the rate ends at 1, as the code's
own comment says (workerpool.go:422).

### Fairness

- Goroutines that can run do (`WF` of each worker's, the runner's and each
  `SetConcurrency`'s steps, and of `Wait`): the Go scheduler is preemptive. For a
  worker this includes that a worker function or a hook returns.
- `Launch` is called (`WF_vars(Launch)`) in the liveness runs of the pool: a pool
  that is never launched has nothing to end.
- Time passes (`WF_vars(TimePasses)`) in the same runs: ticks come and durations
  end. The scheduler's liveness needs no clock.
- `SF_vars(EndOnCancel)`: a select with both the tick and the context ready takes
  each choice with the same probability, so it takes the context after finitely
  many ticks. The model may choose the tick as often as it likes before.
- Nothing is assumed of users, signals, the parent context, the end of a run of
  `MetricsReport` or its clock. Start hooks do not fail in the liveness runs: a
  hook that fails for ever keeps a pool from its target.

`PoolLife` states its liveness, `Ends`, as a formula rather than as fairness of its
actions: a run that is ending does end, whatever the pool does for it.

## Proofs

All theorems hold for every value of the constants that the ASSUMEs of the modules
allow, and TLC evaluates those for each run. Each rests on an invariant that is
inductive where the property alone is not.

`RequestSchedulerProofs`, for any workers and setters, any rates up to one per
clock unit, any look-ahead and any clock:

- `TypeCorrect`: `TypeOK`, strengthened by `RateKnown` (a worker past the load of
  the rate holds a positive rate) because an interval of rate 0 has no type.
- `NeverEarlyHolds`, `LookaheadHolds`: from `TimeInv`. It adds, per worker, that
  its clock is not ahead of the real one, that a send time it is about to reserve
  is at most the look-ahead ahead, and that its timer fires no earlier than the
  send time.
- `SpacingHolds`, `NotOvercountedHolds`: from `OrderInv`. It ties the history of
  send times to `last`: the last send is `last` unless a Reset intervened, and
  what a worker is about to reserve, from the `last` it has seen, is at least an
  interval above that. The compare-and-swap then makes the seen value the current
  one.
- `SkippedAccountedHolds`: its other half from `RoundingInv`, by which each send
  loses less than the longest interval to the rounding of what it skips.
- `BurstBoundHolds`: from `BurstInv`. The workers that have not used an old clock
  value yet and the places of the catch-up window that are still free bound
  what can be fired at one instant. Its hypothesis `OneRate` (no setter, no Reset)
  is the one under which the bound is meant: a lower rate or a Reset moves the
  window under workers that hold its times already. `SchedulerStall` checks it so.
- `SendsArePacedHolds`: the refinement of `PacedSends`, from the invariants before.
  One lemma per kind of step says which abstract step it is: the compare-and-swap
  that succeeds is `Grant`, the return of a worker whose time has come is `Send`, a
  cancelled one is `GiveUp`, and all loads stutter.

`WorkerPoolProofs`, for any workers, callers, profiles and targets:

- `TypeCorrect`, `ActiveAccountingHolds`, `WgAccountingHolds`: from `PoolInv`, the
  types together with the accounting. The types of the counters follow from the
  accounting (a cardinality is not negative), and the accounting needs the
  program counters to be typed, so the two are proved together. `TypeInv` adds
  that a launched pool is inside a valid profile, that a thread that spawns has
  workers left to spawn, and that the runner never sets a concurrency in a pause.
- `WaitReturnsFirstHolds`: from `EndInv`, that `result` is the error of the first
  call as long as nothing resets it, and that there is no first call before.
- `PauseBoundsCallsHolds`: from `PauseInv`, that a worker that has made its call in
  a pause is not past the check of the pause.
- `LivesSafely`: the steps of `PoolLife` for `Caller = {}`, any workers, profiles,
  targets and hooks. `LifeInv` adds that a thread uses the API only
  while the wait group counts it (so the wait group never rises from zero), which
  workers have a deferred exit hook, and that the runner leaves only a cancelled
  run. With `WgAccounting` it follows that nobody is alive when `Wait` returns.

`PoolStepsProofs`, over `PoolInv`:

- `RepsOverrunHolds`: from `OverrunInv`. The calls of a step, the workers about to
  begin one and the repetitions left are at most the repetitions of the step and
  one for each worker. It holds when the repetitions are stored, since only as
  many workers can be past the claim, and every claim then costs a repetition.
- `RepetitionsExactHolds`: from `RepsInv`. In a profile of repetitions alone, the calls
  completed, those begun or claimed and the repetitions left are together the
  repetitions of all steps that have been stored; the runner goes on when nothing
  is left and nobody holds one. It has two hypotheses. `CountsSuffice`: the bound
  `MaxCount` on the counter is not reached. `UsedFromWithin`: only worker
  functions and worker hooks change the concurrency, for a goroutine outside or the start
  hook of the first step may spawn workers that find `isUnlimited` still set and
  make calls that no step counts (the hazard at workerpool.go:397).
- `OverspawnHolds`: from `OverspawnInv`. The threads with a `SetConcurrency` in
  progress are the runner and at most as many users as calls have been made, and each has
  at most the largest target left to spawn.
- `RepsUseStepFunctionHolds`: from `FuncInv`. While users adjust nothing only the
  runner calls `SetConcurrency`, and in no other place than its wait; a pool that
  has drained therefore stays empty until the next step has stored its
  concurrency, and by then its function is set.
- `NeverUndershootsHolds`: from `ShrinkInv`. There are workers only once a target is
  set; from then on no step to come has a higher one, so that a worker that found
  more workers than the target is right however old its loads are, and the
  compare-and-swap lets only one such worker go for each count.

`TrafficProofs`, about `Commands` for any flags, profiles, workers and tick period:

- `NeverUnlimitedHolds`: from `RunnerInv`, the types of the runner's state and that
  a launched profile is valid, by lemmas on the rounding of an eased value.
- `GetTakesDurationHolds`: from `TimedInv`. Per step, it bounds the time it began
  at between the time it was due and a tick period for each step before it, and its
  elapsed time by the clock.
- `MakesRepetitionsHolds`: from `CountedInv`: the calls made, the repetitions left
  and the repetitions that workers have claimed and not yet begun add up to those
  of the step, and the step ends only when nobody holds one.

- `TypesHold`: from `RatesInv`, under `RatesFit`: no flag and no step asks for more than
  one request per clock unit, or `Take` would divide by an interval of 0 (the hazard
  at rate_limiter.go:111).
- `PaceKeptHolds`: from `PaceInv`. Every worker that sleeps wakes by one of three
  bounds: the retry cap after the next send time, the look-ahead, or what is left of the time
  for which a worker may still sleep by an older rate. There is a worker
  as long as calls may be made, so the first to wake takes the send time in time.
- `MovesTowardsTargetHolds`, `ArrivesAtTargetHolds`: from `EaseInv`, that the rate is
  the eased value of a moment of the step that is not ahead, and that of the last
  tick while repetitions are left. The rest is arithmetic of the easings: each
  lies between 0 and 1, rises, and is near its end at the end.
- `BacklogDroppedHolds`: from `BacklogInv`, under `RatesFit`. The workers that wait
  for a send time split into those that had it when the step began and those that
  reserved it in the step; the latter times, with those sent, are intervals
  apart, and the first is not before the step.

`HttpCallsProofs`, for any workers, mixes, programs and data:

- `EndsOnceHolds`: from `CallInv`, which ties the times a request was recorded to
  where its worker is, to the `once` of its body and to the goroutine that closes it.
- `CloseIsNoErrorHolds`, `FailuresCountedHolds`: from `Balanced`, which compares the
  error counter with the failures, less those bodies whose failed read has still to
  return: at most as many errors, and as many unless another goroutine may close.
- `UploadIsExactHolds`: from `UploadInv`. What a body has delivered and what its
  reader has left are its size, and the index into the pattern is what was
  delivered modulo the pattern's length; two lemmas on remainders carry it over a read.
- `MixIsProportionalHolds`: the sum that `Mix` compares with its random number grows by the
  weight of each choice, whichever order a sum over a set is taken in, so that the
  numbers that choose a function are the ones from the sum before it to its own.
- `PercentilesFitHolds`: the counts of the durations are natural numbers, and for each
  such histogram `ClassicPercentile` and `NativePercentile` in `PercentilesProofs` say
  that the interpolation is in the right bucket. Their lemmas: `SumOver` of a finite set does
  not depend on the order of the sum; `LoopFindsIndexes`, the loop over the
  spans arrives at the indexes that the library put into them, whatever the gaps;
  `NativeFits` and `ClassicFits`, the counts before and up to a bucket are those of
  the samples, zero bucket and samples above the highest bound included; and
  `BucketWithin`, only one bucket has the rank between the two.

`ReportProofs`, for any tick period and number of calls, without a signal:

- `RatesAddUpHolds`, `RatesNotNegativeHolds`: from `ReportInv`. The goroutines of
  main and of the ticker dump in turn, each dump holds a value and a time that are
  not behind the previous ones, and what is stored is what was reported.

`Numbers` has the inductions: a set of numbers with 0 and each successor has every
number, a set of numbers has a least and a bounded one a greatest element, and the
equation of a function of sums has a solution. The theorems of the library
that say so take an operator, which the provers cannot instantiate; with a set of
numbers in its place they can, and recursive functions and sums are within reach.

The assumptions on constants are types and sizes: times and rates are numbers, the
sets of workers and of targets are finite, profiles are sequences of steps. TLC
evaluates each.

Only model-checked: all liveness (`RunEnds`, `ConcurrencyConverges`,
`CancelledTakesReturn`, `InterruptEnds`, `EndedRunEnds`, and `Ends` within
`LivesAsPromised`), which is out of the prover's reach. Every invariant and every
action property of the passing runs is a theorem.

## Not modelled

- Calls that race with `Launch` itself (`ctx` and `cancel` are written without a
  lock), and `Launch` called twice: the documentation neither allows nor forbids
  them, and their outcome is a data race.
- A wall clock that is set back; rates above one per nanosecond, for which
  `Take` divides by zero (rate_limiter.go:133).
- Two dumps at the same instant, which divide by zero (formatter.go:283), and a
  counter that is missing from one gathering (formatter.go:253-260).
- A start hook that returns a context which ends before the run does
  (workerpool.go:269).
- Random data, labels, units, sorting and layout of metrics, flag parsing, the
  transport's settings: they change no state that others read.
- The registry and the Prometheus server (declarations and a library's server) and
  the examples, which use the packages and add no behaviour.

## Plan

What is left, in the order of what it would add:

1. Time and pacing in `PoolLife`, so that `PacedTraffic` too is shown to implement it.
