----------------------------- MODULE TrafficProofs -----------------------------
(***************************************************************************)
(* Proofs about Commands, and with it PacedTraffic and TrafficProfile, for *)
(* every set of workers, flags, profiles and tick period.                  *)
(***************************************************************************)
EXTENDS Commands, Numbers, FiniteSetTheorems, TLAPS

\* The types that the runner's steps rest on, with the checks of Launch.
RunnerInv ==
    /\ profile \in Seq(Steps)
    /\ phase \in {"begin", "run", "pause", "over", "refused"}
    /\ elapsed \in Nat /\ sinceTick \in Nat /\ clock \in Nat \ {0}
    /\ startRate \in Nat /\ startConcurrency \in Nat \ {0}
    /\ rate \in Nat /\ target \in Nat
    /\ isUnlimited \in BOOLEAN /\ remaining \in Nat
    /\ phase # "refused" =>
          /\ step \in 1 .. Len(profile)
          /\ \A i \in 1 .. Len(profile) : ValidStep(profile[i])
    /\ phase = "run" => ~Step.pause

IInv == RunnerInv /\ NeverUnlimited

\* An eased value is a number, and it is positive when it ends, or is eased,
\* from or to a positive one.
LEMMA EasedValueIsPositive ==
    ASSUME NEW from \in Nat, NEW to \in Nat, NEW n \in Nat, NEW d \in Nat \ {0},
           NEW easing \in Easings
    PROVE  /\ EasedValue(from, to, n, d, easing) \in Nat
           /\ to > 0 => EasedValue(from, to, n, d, easing) >= 1
           /\ (easing # "none" /\ from > 0) =>
                 EasedValue(from, to, n, d, easing) >= 1
<1>1. CASE easing = "none"
  BY <1>1 DEF EasedValue
<1>2. CASE easing # "none"
  <2> DEFINE parts == EasedParts(easing, n, d)
             whole == from * d * d + parts * (to - from)
             value == whole \div (d * d)
  <2>1. parts \in Int
    BY <1>2 DEF EasedParts, Easings
  <2>2. d * d \in Nat \ {0} /\ whole \in Int
    BY <2>1
  <2>3. value \in Int
    BY <2>2
  <2>4. EasedValue(from, to, n, d, easing) = AtLeastOne(value, from, to)
    BY <1>2 DEF EasedValue
  <2>5. CASE to > 0 \/ from > 0
    BY <2>3, <2>4, <2>5 DEF AtLeastOne
  <2>6. CASE to = 0 /\ from = 0
    <3>1. whole = 0
      BY <2>1, <2>6
    <3>2. value = 0
      BY <2>2, <3>1
    <3> QED
      BY <2>4, <2>6, <3>2 DEF AtLeastOne
  <2> QED
    BY <2>5, <2>6
<1> QED
  BY <1>1, <1>2

\* At the begin and at the end of a step.
LEMMA EasedEndIsPositive ==
    ASSUME NEW from \in Nat, NEW to \in Nat, NEW n \in {0, 1},
           NEW easing \in Easings
    PROVE  /\ EasedValue(from, to, n, 1, easing) \in Nat
           /\ to > 0 => EasedValue(from, to, n, 1, easing) >= 1
           /\ (easing # "none" /\ from > 0) =>
                 EasedValue(from, to, n, 1, easing) >= 1
<1> n \in Nat /\ 1 \in Nat \ {0}
  OBVIOUS
<1> QED
  BY EasedValueIsPositive

\* The step the runner is in.
LEMMA StepIsValid ==
    ASSUME RunnerInv, phase # "refused"
    PROVE  /\ Step \in Steps /\ ValidStep(Step)
           /\ Step.rps \in Nat
           /\ ~Step.pause => Step.concurrency \in Nat \ {0}
           /\ (Step.rpsEasing # "none" \/ Step.concurrencyEasing # "none") =>
                 Step.duration \in Nat \ {0}
<1>1. Step \in Steps /\ ValidStep(Step)
  BY DEF RunnerInv, Step
<1> QED
  BY <1>1 DEF Steps, ValidStep

\* A step sets the rate and the concurrency of its easing at its begin.
LEMMA BeginStepKeeps ==
    ASSUME IInv, BeginStep
    PROVE  IInv'
<1> USE DEF IInv
<1>1. /\ Step.rps \in Nat /\ Step.rpsEasing \in Easings
      /\ Step.concurrency \in Nat \ {0} /\ Step.concurrencyEasing \in Easings
      /\ Step.repetitions \in Nat
  BY StepIsValid DEF BeginStep, Steps
<1>2. Step' = Step
  BY DEF BeginStep, Step
<1> DEFINE r == EasedValue(startRate, Step.rps, 0, 1, Step.rpsEasing)
           c == EasedValue(startConcurrency, Step.concurrency, 0, 1,
                           Step.concurrencyEasing)
<1>3. r \in Nat /\ c \in Nat
  BY <1>1, EasedEndIsPositive DEF RunnerInv
<1>4. (Step.rpsEasing # "none" /\ (Step.rps > 0 \/ startRate > 0)) => r >= 1
  BY <1>1, EasedEndIsPositive DEF RunnerInv
<1>5. rate' = r /\ target' = c
  BY DEF BeginStep, SetRateLimit
<1>6. RunnerInv'
  BY <1>1, <1>2, <1>3, <1>5 DEF RunnerInv, BeginStep, startVars
<1>7. NeverUnlimited'
  BY <1>2, <1>4, <1>5 DEF NeverUnlimited, IsEasing, BeginStep, startVars
<1> QED
  BY <1>6, <1>7

\* A tick sets the rate and the concurrency that are eased.
LEMMA TickAdjustsKeeps ==
    ASSUME IInv, TickAdjusts
    PROVE  IInv'
<1> USE DEF IInv
<1>1. /\ Step.rps \in Nat /\ Step.rpsEasing \in Easings
      /\ Step.concurrency \in Nat \ {0} /\ Step.concurrencyEasing \in Easings
      /\ (Step.rpsEasing # "none" \/ Step.concurrencyEasing # "none") =>
            Step.duration \in Nat \ {0}
  BY StepIsValid DEF TickAdjusts, Steps, RunnerInv
<1>2. Step' = Step
  BY DEF TickAdjusts, Step
<1> DEFINE r == EasedValue(startRate, Step.rps, elapsed, Step.duration,
                           Step.rpsEasing)
           c == EasedValue(startConcurrency, Step.concurrency, elapsed,
                           Step.duration, Step.concurrencyEasing)
<1>3. Step.rpsEasing # "none" =>
          r \in Nat /\ ((Step.rps > 0 \/ startRate > 0) => r >= 1)
  BY <1>1, EasedValueIsPositive DEF RunnerInv
<1>4. Step.concurrencyEasing # "none" => c \in Nat
  BY <1>1, EasedValueIsPositive DEF RunnerInv
<1>5. /\ rate' = IF Step.rpsEasing = "none" THEN rate ELSE r
      /\ target' = IF Step.concurrencyEasing = "none" THEN target ELSE c
  BY DEF TickAdjusts, SetRateLimit, EasedSince
<1>6. RunnerInv'
  BY <1>2, <1>3, <1>4, <1>5 DEF RunnerInv, TickAdjusts, repVars, startVars
<1>7. NeverUnlimited'
  BY <1>2, <1>3, <1>5 DEF NeverUnlimited, IsEasing, TickAdjusts, startVars
<1> QED
  BY <1>6, <1>7

\* A step that has ended leaves final values behind from which the next starts.
LEMMA NextStepKeeps ==
    ASSUME IInv, phase # "refused",
           NEW finalRate \in Nat, NEW finalConcurrency \in Nat \ {0},
           NextStep(finalRate, finalConcurrency)
    PROVE  IInv'
<1> USE DEF IInv
<1>1. step \in 1 .. Len(profile) /\ Len(profile) \in Nat
  BY DEF RunnerInv
<1>2. phase' \in {"begin", "over"} /\ step' \in 1 .. Len(profile)
  BY <1>1 DEF NextStep
<1>3. RunnerInv'
  BY <1>2 DEF RunnerInv, NextStep, timeVars, rateVars, repVars
<1>4. NeverUnlimited'
  BY <1>2 DEF NeverUnlimited, IsEasing
<1> QED
  BY <1>3, <1>4

LEMMA TickEndsKeeps ==
    ASSUME IInv, NEW active, TickEnds(active)
    PROVE  IInv'
<1>1. /\ Step.rps \in Nat /\ Step.rpsEasing \in Easings
      /\ Step.concurrency \in Nat \ {0} /\ Step.concurrencyEasing \in Easings
  BY StepIsValid DEF TickEnds, Steps, RunnerInv, IInv
<1> DEFINE r == EasedValue(startRate, Step.rps, 1, 1, Step.rpsEasing)
           c == EasedValue(startConcurrency, Step.concurrency, 1, 1,
                           Step.concurrencyEasing)
<1>2. r \in Nat /\ c \in Nat \ {0}
  <2>1. startRate \in Nat /\ startConcurrency \in Nat
    BY DEF RunnerInv, IInv
  <2>2. r \in Nat
    BY <1>1, <2>1, EasedEndIsPositive
  <2>3. c \in Nat /\ (Step.concurrency > 0 => c >= 1)
    BY <1>1, <2>1, EasedEndIsPositive
  <2> QED
    BY <1>1, <2>2, <2>3
<1>3. phase # "refused" /\ NextStep(r, c)
  BY DEF TickEnds
<1> HIDE DEF r, c
<1> QED
  BY <1>2, <1>3, NextStepKeeps

\* The runner waits in a pause, or for the workers of a step.
LEMMA RunnerWaitsKeeps ==
    ASSUME IInv, NEW active, BeginPause \/ EndPause \/ TickWaits(active)
    PROVE  IInv'
<1>1. CASE BeginPause
  BY <1>1 DEF IInv, RunnerInv, BeginPause, Step, NeverUnlimited, IsEasing,
              rateVars, repVars, startVars
<1>2. CASE EndPause
  BY <1>2, NextStepKeeps DEF IInv, RunnerInv, EndPause
<1>3. CASE TickWaits(active)
  BY <1>3 DEF IInv, RunnerInv, TickWaits, Step, NeverUnlimited, IsEasing,
              rateVars, repVars, startVars
<1> QED
  BY <1>1, <1>2, <1>3

LEMMA StepTimeKeeps ==
    ASSUME IInv, StepTime
    PROVE  IInv'
BY DEF IInv, RunnerInv, StepTime, Step, NeverUnlimited, IsEasing, rateVars,
       repVars, startVars

LEMMA ClaimRepKeeps ==
    ASSUME IInv, ClaimRep
    PROVE  IInv'
BY DEF IInv, RunnerInv, ClaimRep, MayCall, Step, NeverUnlimited, IsEasing,
       timeVars, rateVars, startVars

LEMMA ProfileUnchanged ==
    ASSUME IInv, UNCHANGED profileVars
    PROVE  IInv'
BY DEF IInv, RunnerInv, profileVars, Step, NeverUnlimited, IsEasing, timeVars,
       rateVars, repVars, startVars, ValidStep

----------------------------------------------------------------------------
(* The profiles that the commands build. *)

FlagValues == [concurrency : Nat \ {0}, repetitions : Nat, duration : Nat,
               rps : Nat, rampUp : Nat]

LEMMA PlainIsStep == Plain \in Steps
BY DEF Plain, Steps, Easings

\* Steps of a command differ from Plain in numbers and the easing of the rate.
WithRate(a, b, c) ==
    [Plain EXCEPT !.rps = a, !.concurrency = b, !.burst = c]

WithLimits(f) ==
    [Plain EXCEPT !.concurrency = f.concurrency, !.duration = f.duration,
                  !.repetitions = f.repetitions]

LEMMA WithRateIsStep ==
    ASSUME NEW a \in Int, NEW b \in Int, NEW c \in Int
    PROVE  /\ WithRate(a, b, c) \in Steps
           /\ WithRate(a, b, c).repetitions = 0
           /\ WithRate(a, b, c).pause = FALSE
<1>1. WithRate(a, b, c) \in Steps
  BY PlainIsStep DEF Steps, WithRate
<1>2. WithRate(a, b, c).repetitions = 0
  BY DEF Plain, WithRate
<1>3. WithRate(a, b, c).pause = FALSE
  BY DEF Plain, WithRate
<1> QED
  BY <1>1, <1>2, <1>3

LEMMA FlagsOf ==
    ASSUME NEW f \in FlagValues
    PROVE  /\ f.rps \in Nat /\ f.concurrency \in Nat \ {0}
           /\ f.duration \in Nat /\ f.repetitions \in Nat
           /\ f.rps \div f.concurrency \in Int
           /\ RampUp(f) \in Nat /\ SteadyDuration(f) \in Nat
BY DEF FlagValues, RampUp, SteadyDuration

LEMMA WithLimitsIsStep ==
    ASSUME NEW f \in FlagValues
    PROVE  /\ WithLimits(f) \in Steps
           /\ WithLimits(f).pause = FALSE
           /\ WithLimits(f).duration = f.duration
           /\ WithLimits(f).repetitions = f.repetitions
<1>1. WithLimits(f) \in Steps
  <2>1. f.concurrency \in Int /\ f.duration \in Nat /\ f.repetitions \in Nat
    BY FlagsOf
  <2> QED
    BY <2>1, PlainIsStep DEF Steps, WithLimits
<1>2. WithLimits(f).duration = f.duration
  BY DEF Plain, WithLimits
<1>3. WithLimits(f).repetitions = f.repetitions
  BY DEF Plain, WithLimits
<1>4. WithLimits(f).pause = FALSE
  BY DEF Plain, WithLimits
<1> QED
  BY <1>1, <1>2, <1>3, <1>4

LEMMA GetProfileShape ==
    ASSUME NEW f \in FlagValues
    PROVE  /\ GetProfile(f) \in Seq(Steps)
           /\ Len(GetProfile(f)) = IF RampUp(f) > 0 THEN 2 ELSE 1
           /\ \A i \in 1 .. Len(GetProfile(f)) :
                 LET st == GetProfile(f)[i]
                 IN  /\ st.pause = FALSE
                     /\ st.duration = IF i < Len(GetProfile(f)) THEN RampUp(f)
                                      ELSE SteadyDuration(f)
                     /\ st.repetitions = IF i < Len(GetProfile(f)) THEN 0
                                         ELSE f.repetitions
<1> DEFINE common == WithRate(f.rps, f.concurrency, f.rps \div f.concurrency)
           ramp == [common EXCEPT !.duration = RampUp(f), !.rpsEasing = "linear"]
           steady == [common EXCEPT !.duration = SteadyDuration(f),
                                    !.repetitions = f.repetitions]
<1>1. common \in Steps /\ common.repetitions = 0 /\ common.pause = FALSE
  <2>1. /\ f.rps \in Int /\ f.concurrency \in Int
        /\ f.rps \div f.concurrency \in Int
    BY FlagsOf
  <2> QED
    BY <2>1, WithRateIsStep
<1> HIDE DEF common
<1>2. /\ ramp \in Steps /\ ramp.duration = RampUp(f)
      /\ ramp.repetitions = 0 /\ ramp.pause = FALSE
  BY <1>1, FlagsOf DEF Steps, Easings
<1>3. /\ steady \in Steps /\ steady.duration = SteadyDuration(f)
      /\ steady.repetitions = f.repetitions /\ steady.pause = FALSE
  BY <1>1, FlagsOf DEF Steps
<1>4. GetProfile(f) = IF RampUp(f) > 0 THEN <<ramp, steady>> ELSE <<steady>>
  BY DEF GetProfile, WithRate, common
<1> HIDE DEF ramp, steady
<1>5. CASE RampUp(f) > 0
  BY <1>2, <1>3, <1>4, <1>5
<1>6. CASE ~(RampUp(f) > 0)
  BY <1>3, <1>4, <1>6
<1> QED
  BY <1>5, <1>6

LEMMA UploadProfileShape ==
    ASSUME NEW f \in FlagValues
    PROVE  /\ UploadProfile(f) \in Seq(Steps)
           /\ Len(UploadProfile(f)) = 1
           /\ UploadProfile(f)[1].pause = FALSE
           /\ UploadProfile(f)[1].duration = f.duration
           /\ UploadProfile(f)[1].repetitions = f.repetitions
<1>1. UploadProfile(f) = <<WithLimits(f)>>
  BY DEF UploadProfile, WithLimits
<1>2. WithLimits(f) \in Steps
  BY WithLimitsIsStep
<1>3. /\ UploadProfile(f) \in Seq(Steps) /\ Len(UploadProfile(f)) = 1
      /\ UploadProfile(f)[1] = WithLimits(f)
  BY <1>1, <1>2
<1> QED
  BY <1>3, WithLimitsIsStep

LEMMA FlagsTyped == Flags \subseteq FlagValues
BY FlagsAssumption DEF FlagValues

----------------------------------------------------------------------------
(* NeverUnlimited. *)

LEMMA InitIsTyped ==
    ASSUME NEW p \in Seq(Steps), InitProfile(p)
    PROVE  IInv
<1>1. Len(p) \in Nat /\ (p # <<>> => 1 \in 1 .. Len(p))
  OBVIOUS
<1>2. RunnerInv
  BY <1>1 DEF InitProfile, RunnerInv, ValidProfile
<1> QED
  BY <1>2 DEF IInv, NeverUnlimited, IsEasing, InitProfile

\* The steps of the runner, of a worker that claims a repetition, of time, and
\* those that the profile does not see.
LEMMA NextOfProfile ==
    ASSUME Next
    PROVE  \/ BeginStep \/ TickAdjusts \/ BeginPause \/ EndPause
           \/ \E active : TickEnds(active) \/ TickWaits(active)
           \/ StepTime \/ ClaimRep
           \/ UNCHANGED profileVars
<1>1. CASE RunnerBegins \/ RunnerAdjusts \/ RunnerMovesOn
  BY <1>1 DEF RunnerBegins, RunnerAdjusts, RunnerMovesOn
<1>2. CASE \E w \in Worker : WorkerStep(w)
  BY <1>2 DEF WorkerStep, Leave, Claim, TakeUnlimited, TryLater, Reserve, Send,
              EndCall
<1>3. CASE TimePasses \/ Ended
  BY <1>3 DEF TimePasses, Ended, trafficVars
<1> QED
  BY <1>1, <1>2, <1>3 DEF Next, TrafficNext

LEMMA IInvIsInductive ==
    ASSUME IInv, [Next]_vars
    PROVE  IInv'
<1>1. CASE UNCHANGED vars
  BY <1>1, ProfileUnchanged DEF vars, trafficVars
<1>2. CASE Next
  BY <1>2, NextOfProfile, BeginStepKeeps, TickAdjustsKeeps, TickEndsKeeps,
     RunnerWaitsKeeps, StepTimeKeeps, ClaimRepKeeps, ProfileUnchanged
<1> QED
  BY <1>1, <1>2

LEMMA InitIInv ==
    ASSUME Init
    PROVE  IInv
<1>1. \E p \in Seq(Steps) : InitProfile(p)
  BY FlagsTyped, GetProfileShape, UploadProfileShape, FlagsAssumption
     DEF Init, InitTraffic
<1> QED
  BY <1>1, InitIsTyped

LEMMA IInvHolds == Spec => []IInv
<1>1. Init => IInv
  BY InitIInv
<1>2. IInv /\ [Next]_vars => IInv'
  BY IInvIsInductive
<1> QED
  BY <1>1, <1>2, PTL DEF Spec

\* A rate that is eased from or to a positive one is never 0, which would send
\* requests without any limit, whatever the profile, the flags and the ticks
\* (calculateEasedValue, workerpool.go:466-478).
THEOREM NeverUnlimitedHolds == Spec => []NeverUnlimited
<1>1. IInv => NeverUnlimited
  BY DEF IInv
<1> QED
  BY <1>1, IInvHolds, PTL

----------------------------------------------------------------------------
(* GetTakesDuration: the runner of a get command with a duration. *)

Timed == command = "get" /\ flags.duration > RampUp(flags)

\* When step i of the command should begin, and how late it may.
Due(i) == IF i = 1 THEN 0 ELSE RampUp(flags)
Late(i) == IF i = 1 THEN 0 ELSE TickPeriod

\* How long after Launch the current step began.
Began == IF phase = "run" THEN clock - 1 - elapsed ELSE clock - 1

Started ==
    phase \in {"begin", "run"} =>
        Due(step) <= Began /\ Began <= Due(step) + Late(step)

\* A tick is at most a tick period old, and found the step not yet over.
Ticking ==
    phase = "run" =>
        sinceTick <= TickPeriod /\ elapsed <= Step.duration + sinceTick

TookDuration ==
    phase = "over" =>
        /\ clock - 1 <= flags.duration + Len(profile) * TickPeriod
        /\ flags.repetitions = 0 => clock - 1 >= flags.duration

TimedInv ==
    Timed => /\ flags \in FlagValues
             /\ profile = GetProfile(flags)
             /\ phase # "pause"
             /\ phase = "refused" => clock = 1
             /\ Started /\ Ticking /\ TookDuration

\* The steps of the command have a duration, one begins when the one before is
\* due to end, and only the last one has repetitions.
LEMMA TimedStep ==
    ASSUME IInv, TimedInv, Timed, phase # "refused"
    PROVE  /\ Step.duration \in Nat \ {0} /\ Step.pause = FALSE
           /\ step \in {1, 2} /\ Len(profile) \in {1, 2} /\ step <= Len(profile)
           /\ step < Len(profile) => /\ Step.repetitions = 0
                                     /\ step = 1 /\ Len(profile) = 2
           /\ Due(step) + Step.duration = IF step < Len(profile) THEN Due(step + 1)
                                          ELSE flags.duration
           /\ step = Len(profile) => Step.repetitions = flags.repetitions
<1>1. flags \in FlagValues /\ profile = GetProfile(flags)
  BY DEF TimedInv
<1>2. step \in 1 .. Len(profile)
  BY DEF IInv, RunnerInv
<1>3. RampUp(flags) \in Nat /\ flags.duration \in Nat
  BY <1>1, FlagsOf
<1>4. Len(profile) = IF RampUp(flags) > 0 THEN 2 ELSE 1
  BY <1>1, GetProfileShape
<1>5. /\ Step.pause = FALSE
      /\ Step.duration = IF step < Len(profile) THEN RampUp(flags)
                         ELSE SteadyDuration(flags)
      /\ Step.repetitions = IF step < Len(profile) THEN 0 ELSE flags.repetitions
  BY <1>1, <1>2, GetProfileShape DEF Step
<1>6. SteadyDuration(flags) = flags.duration - RampUp(flags)
  BY DEF SteadyDuration, Timed
<1> QED
  BY <1>2, <1>3, <1>4, <1>5, <1>6 DEF Due, Timed

LEMMA TimedBegins ==
    ASSUME IInv, TimedInv, Timed, BeginStep, UNCHANGED <<command, flags>>
    PROVE  TimedInv'
<1>1. Step' = Step /\ phase' = "run" /\ elapsed' = 0 /\ sinceTick' = 0
  BY DEF BeginStep, Step
<1>2. Step.duration \in Nat
  BY TimedStep DEF BeginStep
<1>3. clock \in Nat /\ Began' = Began
  BY <1>1 DEF Began, BeginStep, IInv, RunnerInv
<1>4. Started' /\ Ticking' /\ TookDuration'
  BY <1>1, <1>2, <1>3, ProfileAssumption
     DEF Started, Ticking, TookDuration, TimedInv, Due, Late, BeginStep
<1> QED
  BY <1>1, <1>4 DEF TimedInv, BeginStep

\* A tick that finds the step not over.
LEMMA TimedTicks ==
    ASSUME IInv, TimedInv, Timed, NEW active,
           TickAdjusts \/ TickWaits(active), UNCHANGED <<command, flags>>
    PROVE  TimedInv'
<1>1. /\ Step' = Step /\ phase = "run" /\ sinceTick' = 0 /\ ~DurationPassed
      /\ UNCHANGED <<profile, step, phase, elapsed, clock>>
  BY DEF TickAdjusts, TickWaits, Step
<1>2. Step.duration \in Nat \ {0} /\ elapsed \in Nat
  BY <1>1, TimedStep DEF IInv, RunnerInv
<1>3. elapsed < Step.duration
  BY <1>1, <1>2 DEF DurationPassed
<1>4. Started' /\ Ticking' /\ TookDuration'
  BY <1>1, <1>2, <1>3, ProfileAssumption
     DEF Started, Ticking, TookDuration, TimedInv, Due, Late, Began
<1> QED
  BY <1>1, <1>4 DEF TimedInv

LEMMA TimedStepEnds ==
    ASSUME IInv, TimedInv, Timed, NEW active, TickEnds(active),
           UNCHANGED <<command, flags>>
    PROVE  TimedInv'
<1>1. /\ phase = "run" /\ (DurationPassed \/ RepsUsed)
      /\ UNCHANGED <<profile, elapsed, sinceTick, clock>>
      /\ IF step < Len(profile) THEN step' = step + 1 /\ phase' = "begin"
         ELSE step' = step /\ phase' = "over"
  BY DEF TickEnds, NextStep, timeVars
<1>2. /\ Step.duration \in Nat \ {0} /\ step \in {1, 2} /\ Len(profile) \in {1, 2}
      /\ step <= Len(profile)
      /\ step < Len(profile) => /\ Step.repetitions = 0
                                /\ step = 1 /\ Len(profile) = 2
      /\ Due(step) + Step.duration = IF step < Len(profile) THEN Due(step + 1)
                                     ELSE flags.duration
      /\ step = Len(profile) => Step.repetitions = flags.repetitions
  BY <1>1, TimedStep
<1>3. elapsed \in Nat /\ clock \in Nat /\ sinceTick \in Nat /\ TickPeriod \in Nat
  BY ProfileAssumption DEF IInv, RunnerInv
<1>4. RampUp(flags) \in Nat /\ flags.duration \in Nat /\ Due(step) \in Nat
  BY FlagsOf DEF TimedInv, Due
<1>5. /\ Due(step) <= clock - 1 - elapsed
      /\ clock - 1 - elapsed <= Due(step) + Late(step)
      /\ elapsed <= Step.duration + TickPeriod
  BY <1>1, <1>2, <1>3 DEF TimedInv, Started, Ticking, Began
<1>6. Step.repetitions = 0 => elapsed >= Step.duration
  BY <1>1, <1>2 DEF DurationPassed, RepsUsed
<1>7. CASE step < Len(profile)
  <2>1. Due(step') <= clock - 1 /\ clock - 1 <= Due(step') + Late(step')
    BY <1>1, <1>2, <1>3, <1>4, <1>5, <1>6, <1>7 DEF Late
  <2>2. Started' /\ Ticking' /\ TookDuration'
    BY <1>1, <1>7, <2>1 DEF Started, Ticking, TookDuration, Began, Due, Late
  <2> QED
    BY <1>1, <1>7, <2>2 DEF TimedInv
<1>8. CASE ~(step < Len(profile))
  <2>1. step = Len(profile) /\ Len(profile) * TickPeriod = Late(step) + TickPeriod
    BY <1>2, <1>3, <1>8 DEF Late
  <2>2. clock - 1 <= flags.duration + Late(step) + TickPeriod
    BY <1>2, <1>3, <1>4, <1>5, <1>8 DEF Late
  <2>3. flags.repetitions = 0 => clock - 1 >= flags.duration
    BY <1>2, <1>3, <1>4, <1>5, <1>6, <2>1
  <2>4. clock - 1 <= flags.duration + Len(profile) * TickPeriod
    BY <1>3, <1>4, <2>1, <2>2 DEF Late
  <2>5. Started' /\ Ticking' /\ TookDuration'
    BY <1>1, <1>8, <2>3, <2>4 DEF Started, Ticking, TookDuration
  <2> QED
    BY <1>1, <1>8, <2>5 DEF TimedInv
<1> QED
  BY <1>7, <1>8

LEMMA TimedTimePasses ==
    ASSUME IInv, TimedInv, Timed, StepTime, UNCHANGED <<command, flags>>
    PROVE  TimedInv'
<1>1. /\ phase = "run" /\ sinceTick < TickPeriod /\ sinceTick' = sinceTick + 1
      /\ clock' = clock + 1 /\ elapsed' = elapsed + 1
      /\ UNCHANGED <<profile, step, phase>> /\ Step' = Step
  BY DEF StepTime, TimedInv, Step
<1>2. Step.duration \in Nat
  BY <1>1, TimedStep
<1>3. /\ elapsed \in Nat /\ clock \in Nat /\ sinceTick \in Nat
      /\ TickPeriod \in Nat
  BY ProfileAssumption DEF IInv, RunnerInv
<1>4. Began' = Began
  BY <1>1, <1>3 DEF Began
<1>5. Started' /\ Ticking' /\ TookDuration'
  BY <1>1, <1>2, <1>3, <1>4
     DEF Started, Ticking, TookDuration, TimedInv, Due, Late
<1> QED
  BY <1>1, <1>5 DEF TimedInv

\* Steps that the runner's time does not see.
LEMMA TimedUnchanged ==
    ASSUME TimedInv, UNCHANGED <<profile, step, phase, timeVars, command, flags>>
    PROVE  TimedInv'
BY DEF TimedInv, Timed, Started, Ticking, TookDuration, Began, Due, Late, Step,
       timeVars

LEMMA TimedInvIsInductive ==
    ASSUME IInv, TimedInv, [Next]_vars
    PROVE  TimedInv'
<1>1. CASE ~Timed
  <2>1. ~Timed'
    BY <1>1 DEF Next, vars, Timed
  <2> QED
    BY <2>1 DEF TimedInv
<1>2. CASE Timed /\ UNCHANGED vars
  BY <1>2, TimedUnchanged DEF vars, trafficVars, profileVars
<1>3. CASE Timed /\ Next
  <2>1. UNCHANGED <<command, flags>>
    BY <1>3 DEF Next
  <2>2. CASE BeginStep
    BY <1>3, <2>1, <2>2, TimedBegins
  <2>3. CASE TickAdjusts \/ \E active : TickWaits(active)
    BY <1>3, <2>1, <2>3, TimedTicks
  <2>4. CASE \E active : TickEnds(active)
    BY <1>3, <2>1, <2>4, TimedStepEnds
  <2>5. CASE StepTime
    BY <1>3, <2>1, <2>5, TimedTimePasses
  <2>6. ~BeginPause /\ ~EndPause
    BY <1>3, TimedStep DEF BeginPause, EndPause, TimedInv
  <2>7. CASE ClaimRep \/ UNCHANGED profileVars
    BY <2>1, <2>7, TimedUnchanged DEF ClaimRep, profileVars
  <2> QED
    BY <1>3, <2>2, <2>3, <2>4, <2>5, <2>6, <2>7, NextOfProfile
<1> QED
  BY <1>1, <1>2, <1>3

LEMMA InitTimedInv ==
    ASSUME Init
    PROVE  TimedInv
<1> SUFFICES ASSUME Timed PROVE TimedInv
  BY DEF TimedInv
<1>1. PICK f \in Flags : flags = f /\ InitProfile(GetProfile(f))
  BY DEF Init, InitTraffic, Timed
<1>2. flags \in FlagValues /\ profile = GetProfile(flags)
  BY <1>1, FlagsTyped DEF InitProfile
<1>3. /\ step = 1 /\ clock = 1 /\ phase \in {"begin", "refused"}
  BY <1>1 DEF InitProfile
<1> QED
  BY <1>2, <1>3 DEF TimedInv, Started, Ticking, TookDuration, Began, Due, Late

\* A get command whose duration exceeds its ramp-up takes at least its duration
\* when no repetitions end it, and at most a tick period more for each step,
\* whatever its flags and however its workers fare (get.go:81-92).
THEOREM GetTakesDurationHolds == Spec => []GetTakesDuration
<1>1. Init => IInv /\ TimedInv
  BY InitIInv, InitTimedInv
<1>2. IInv /\ TimedInv /\ [Next]_vars => IInv' /\ TimedInv'
  BY IInvIsInductive, TimedInvIsInductive
<1>3. IInv /\ TimedInv => GetTakesDuration
  <2> SUFFICES ASSUME IInv, TimedInv, Timed
               PROVE  /\ clock - 1 <= flags.duration + Len(profile) * TickPeriod
                      /\ (phase = "over" /\ flags.repetitions = 0) =>
                            clock - 1 >= flags.duration
    BY DEF GetTakesDuration, Timed
  <2>1. CASE phase = "over"
    BY <2>1 DEF TimedInv, TookDuration
  <2>2. CASE phase = "refused"
    <3>1. /\ flags.duration \in Nat /\ Len(profile) * TickPeriod \in Nat
      BY FlagsOf, ProfileAssumption DEF TimedInv, IInv, RunnerInv
    <3> QED
      BY <2>2, <3>1 DEF TimedInv
  <2>3. CASE phase \in {"begin", "run"}
    <3>1. /\ Step.duration \in Nat \ {0} /\ step \in {1, 2}
          /\ Len(profile) \in {1, 2} /\ step <= Len(profile)
          /\ Due(step) + Step.duration = IF step < Len(profile)
                                         THEN Due(step + 1) ELSE flags.duration
      BY <2>3, TimedStep
    <3>2. /\ elapsed \in Nat /\ clock \in Nat /\ sinceTick \in Nat
          /\ TickPeriod \in Nat
      BY ProfileAssumption DEF IInv, RunnerInv
    <3>3. /\ RampUp(flags) \in Nat /\ flags.duration \in Nat
          /\ Due(step) \in Nat /\ Due(step + 1) <= flags.duration
      BY FlagsOf, <3>1 DEF TimedInv, Due, Timed
    <3>4. /\ Late(step) + TickPeriod <= Len(profile) * TickPeriod
      BY <3>1, <3>2 DEF Late
    <3>5. Began <= Due(step) + Late(step)
      BY <2>3 DEF TimedInv, Started
    <3>6. clock - 1 <= Began + Step.duration + TickPeriod
      BY <2>3, <3>1, <3>2 DEF TimedInv, Ticking, Began
    <3>7. /\ Began \in Int /\ Late(step) \in Nat
          /\ Len(profile) * TickPeriod \in Nat
      BY <3>1, <3>2 DEF Began, Late
    <3>8. Due(step) + Step.duration <= flags.duration
      BY <3>1, <3>3
    <3>9. clock - 1 <= flags.duration + Len(profile) * TickPeriod
      <4> DEFINE slack == Len(profile) * TickPeriod
      <4>1. slack \in Nat /\ Late(step) + TickPeriod <= slack
        BY <3>4, <3>7
      <4> HIDE DEF slack
      <4>2. /\ Step.duration \in Nat /\ Due(step) \in Nat
            /\ flags.duration \in Nat /\ Began \in Int /\ Late(step) \in Nat
        BY <3>1, <3>3, <3>7
      <4>3. Began + Step.duration <= flags.duration + Late(step)
        BY <3>5, <3>8, <4>2
      <4>4. clock - 1 <= flags.duration + Late(step) + TickPeriod
        BY <3>2, <3>6, <4>2, <4>3
      <4>5. clock - 1 <= flags.duration + slack
        BY <3>2, <4>1, <4>2, <4>4
      <4> QED
        BY <4>5 DEF slack
    <3> QED
      BY <2>3, <3>9
  <2> QED
    BY <2>1, <2>2, <2>3 DEF TimedInv, IInv, RunnerInv
<1> QED
  BY <1>1, <1>2, <1>3, PTL DEF Spec

----------------------------------------------------------------------------
(* MakesRepetitions: each repetition is left, or held, or a call.  A worker *)
(* holds one from its claim to its call. *)

Counted ==
    /\ command \in {"get", "upload"}
    /\ flags.repetitions > 0 /\ flags.duration = 0
    /\ Len(profile) = 1

Holding == {w \in Worker : worker[w].at \in {"take", "wait"}}

RepsAddUp ==
    /\ phase # "pause"
    /\ phase = "begin" => calls = 0 /\ Active = {}
    /\ phase = "run" => /\ ~isUnlimited
                        /\ calls + Cardinality(Holding) + remaining
                              = flags.repetitions
    /\ phase = "over" => calls = flags.repetitions

CountedInv ==
    /\ calls \in Nat
    /\ DOMAIN worker = Worker
    /\ Counted => /\ flags \in FlagValues
                  /\ profile[1].duration = 0 /\ profile[1].pause = FALSE
                  /\ profile[1].repetitions = flags.repetitions
                  /\ RepsAddUp

LEMMA HoldingIsFinite ==
    ASSUME NEW S \in SUBSET Worker
    PROVE  IsFiniteSet(S) /\ Cardinality(S) \in Nat
BY WorkerAssumption, FS_Subset, FS_CardinalityType

\* A worker that comes to hold a repetition, or no longer holds one.
LEMMA OneMore ==
    ASSUME NEW S \in SUBSET Worker, NEW w \in Worker, w \notin S
    PROVE  Cardinality(S \cup {w}) = Cardinality(S) + 1
BY HoldingIsFinite, FS_AddElement

LEMMA OneLess ==
    ASSUME NEW S \in SUBSET Worker, NEW w \in S
    PROVE  Cardinality(S \ {w}) = Cardinality(S) - 1
BY HoldingIsFinite, FS_RemoveElement

LEMMA CountedStep ==
    ASSUME IInv, CountedInv, Counted, phase # "refused"
    PROVE  /\ step = 1 /\ flags.repetitions \in Nat \ {0}
           /\ Step.duration = 0 /\ Step.pause = FALSE
           /\ Step.repetitions = flags.repetitions
<1>1. flags.repetitions \in Nat \ {0}
  BY FlagsOf DEF CountedInv, Counted
<1>2. step = 1
  BY DEF IInv, RunnerInv, Counted
<1> QED
  BY <1>1, <1>2 DEF CountedInv, Step

\* New workers hold nothing, and those that run stay where they are.
LEMMA SpawnedHoldNothing ==
    ASSUME DOMAIN worker = Worker, NEW n, Spawn(n)
    PROVE  DOMAIN worker' = Worker /\ Holding' = Holding
<1>1. PICK new \in SUBSET (Worker \ Active) :
         worker' = [w \in Worker |-> IF w \in new THEN Free ELSE worker[w]]
  BY DEF Spawn, kSubset
<1>2. ASSUME NEW w \in new PROVE worker[w].at = "none" /\ worker'[w].at = "free"
  BY <1>1 DEF Active, None, Free
<1> QED
  BY <1>1, <1>2 DEF Holding

\* A worker that goes to a place takes its repetition along, or not.
LEMMA GotoHolding ==
    ASSUME DOMAIN worker = Worker, NEW w \in Worker, NEW place, Goto(w, place)
    PROVE  /\ DOMAIN worker' = Worker
           /\ Holding' = IF place.at \in {"take", "wait"} THEN Holding \cup {w}
                         ELSE Holding \ {w}
BY DEF Goto, Holding

LEMMA RunnerCounts ==
    ASSUME IInv, CountedInv, RunnerBegins \/ RunnerAdjusts \/ RunnerMovesOn,
           UNCHANGED <<command, flags>>
    PROVE  CountedInv'
<1>1. CASE RunnerBegins
  <2>1. DOMAIN worker' = Worker /\ Holding' = Holding /\ calls' = calls
    BY <1>1, SpawnedHoldNothing DEF RunnerBegins, CountedInv
  <2>2. UNCHANGED <<profile, command, flags>>
    BY <1>1 DEF RunnerBegins, BeginStep
  <2>3. ASSUME Counted PROVE RepsAddUp'
    <3>1. Step.repetitions = flags.repetitions /\ flags.repetitions \in Nat \ {0}
      BY <1>1, <2>3, CountedStep DEF RunnerBegins, BeginStep
    <3>2. /\ phase = "begin" /\ phase' = "run"
          /\ isUnlimited' = (Step.repetitions = 0)
          /\ Step.repetitions > 0 => remaining' = Step.repetitions
      BY <1>1 DEF RunnerBegins, BeginStep
    <3>3. ~isUnlimited' /\ remaining' = flags.repetitions
      <4>1. Step.repetitions # 0 /\ Step.repetitions > 0
        BY <3>1
      <4>2. ~isUnlimited'
        BY <3>2, <4>1, Zenon
      <4> QED
        BY <3>1, <3>2, <4>1, <4>2, Zenon
    <3>4. calls = 0 /\ Holding = {}
      BY <2>3, <3>2 DEF CountedInv, RepsAddUp, Holding, Active, None
    <3>5. calls' = 0 /\ Cardinality(Holding') = 0
      BY <2>1, <3>4, FS_EmptySet
    <3>6. flags'.repetitions = flags.repetitions
      BY <2>2
    <3>7. calls' + Cardinality(Holding') + remaining' = flags'.repetitions
      BY <3>1, <3>3, <3>5, <3>6
    <3> QED
      BY <3>2, <3>3, <3>7 DEF RepsAddUp
  <2> QED
    BY <2>1, <2>2, <2>3 DEF CountedInv, Counted
<1>2. CASE RunnerAdjusts
  <2>1. DOMAIN worker' = Worker /\ Holding' = Holding /\ calls' = calls
    BY <1>2, SpawnedHoldNothing DEF RunnerAdjusts, CountedInv
  <2>2. UNCHANGED <<profile, phase, repVars, command, flags>> /\ phase = "run"
    BY <1>2 DEF RunnerAdjusts, TickAdjusts
  <2> QED
    BY <2>1, <2>2 DEF CountedInv, Counted, RepsAddUp, repVars
<1>3. CASE RunnerMovesOn
  <2>1. /\ UNCHANGED <<profile, repVars, command, flags>> /\ UNCHANGED pacedVars
    BY <1>3 DEF RunnerMovesOn, BeginPause, EndPause, TickEnds, TickWaits, NextStep
  <2>2. /\ DOMAIN worker' = Worker /\ Holding' = Holding /\ Active' = Active
        /\ calls' = calls
    BY <2>1 DEF pacedVars, historyVars, CountedInv, Holding, Active
  <2>3. ASSUME Counted PROVE RepsAddUp'
    <3>1. CASE phase' = phase
      BY <2>1, <2>2, <2>3, <3>1 DEF RepsAddUp, CountedInv, repVars
    <3>2. CASE phase' # phase
      <4>1. phase # "refused"
        BY <1>3 DEF RunnerMovesOn, BeginPause, EndPause, TickEnds, TickWaits
      <4>2. /\ step = 1 /\ flags.repetitions \in Nat \ {0}
            /\ Step.duration = 0 /\ Step.pause = FALSE
        BY <2>3, <4>1, CountedStep
      <4>3. /\ phase = "run" /\ RepsUsed /\ Cardinality(Active) = 0
            /\ phase' = "over"
        BY <1>3, <2>3, <3>2, <4>2
           DEF RunnerMovesOn, BeginPause, EndPause, TickEnds, TickWaits, NextStep,
               DurationPassed, Counted, CountedInv, RepsAddUp
      <4>4. Active \in SUBSET Worker /\ Holding \subseteq Active
        BY DEF Active, Holding, None
      <4>5. Holding = {}
        BY <4>3, <4>4, HoldingIsFinite, FS_EmptySet
      <4>6. remaining = 0
        BY <4>3 DEF RepsUsed, IInv, RunnerInv
      <4>7. calls + 0 + 0 = flags.repetitions
        BY <2>3, <4>3, <4>5, <4>6, FS_EmptySet DEF CountedInv, RepsAddUp
      <4>8. calls' = flags'.repetitions
        BY <2>1, <2>2, <4>7 DEF CountedInv
      <4> QED
        BY <4>3, <4>8 DEF RepsAddUp
    <3> QED
      BY <3>1, <3>2
  <2> QED
    BY <2>1, <2>2, <2>3 DEF CountedInv, Counted
<1> QED
  BY <1>1, <1>2, <1>3

\* What the steps of a worker add to the sum of RepsAddUp.
KeepsSum(w) ==
    /\ worker[w] # None
    /\ DOMAIN worker' = Worker /\ calls' \in Nat
    /\ ~isUnlimited => calls' + Cardinality(Holding') + remaining'
                          = calls + Cardinality(Holding) + remaining

\* A worker that holds no repetition before and after its step.
LEMMA HoldsNoneKeepsSum ==
    ASSUME IInv, CountedInv, NEW w \in Worker, Leave(w) \/ EndCall(w)
    PROVE  KeepsSum(w)
<1>1. PICK place \in {None, Free} : Goto(w, place)
  BY DEF Leave, EndCall
<1>2. worker[w] \in {Free, Calling}
  BY DEF Leave, EndCall
<1>3. DOMAIN worker' = Worker /\ Holding' = Holding \ {w} /\ w \notin Holding
  BY <1>1, <1>2, GotoHolding DEF CountedInv, Holding, None, Free, Calling
<1>4. calls' = calls /\ remaining' = remaining /\ Holding' = Holding
  BY <1>3 DEF Leave, EndCall, historyVars, profileVars, repVars
<1> QED
  BY <1>2, <1>3, <1>4 DEF KeepsSum, CountedInv, None, Free, Calling

LEMMA ClaimKeepsSum ==
    ASSUME IInv, CountedInv, NEW w \in Worker, Claim(w)
    PROVE  KeepsSum(w)
<1> DEFINE n == Cardinality(Holding)
<1>1. worker[w] = Free /\ calls' = calls /\ calls \in Nat
  BY DEF Claim, historyVars, CountedInv
<1>2. /\ DOMAIN worker' = Worker /\ Holding' = Holding \cup {w}
      /\ w \notin Holding /\ Holding \in SUBSET Worker
  BY <1>1, GotoHolding DEF Claim, CountedInv, Holding, Free
<1>3. Cardinality(Holding') = n + 1 /\ n \in Nat
  BY <1>2, OneMore, HoldingIsFinite
<1>4. ~isUnlimited => remaining' = remaining - 1
  BY DEF Claim, ClaimRep
<1>5. remaining \in Nat
  BY DEF IInv, RunnerInv
<1>6. ~isUnlimited => calls' + Cardinality(Holding') + remaining'
                         = calls + n + remaining
  BY <1>1, <1>3, <1>4, <1>5
<1> QED
  BY <1>1, <1>2, <1>6 DEF KeepsSum, None, Free

\* A worker that holds its repetition, and waits for its next try or its time.
LEMMA WaitKeepsSum ==
    ASSUME IInv, CountedInv, NEW w \in Worker, worker[w].at \in {"take", "wait"},
           NEW place, place.at \in {"take", "wait"}, Goto(w, place),
           UNCHANGED <<profileVars, calls>>
    PROVE  KeepsSum(w)
<1>1. DOMAIN worker' = Worker /\ Holding' = Holding
  BY GotoHolding DEF CountedInv, Holding
<1> QED
  BY <1>1 DEF KeepsSum, CountedInv, None, profileVars, repVars

\* A worker that holds a repetition calls the worker function.
LEMMA CallKeepsSum ==
    ASSUME IInv, CountedInv, NEW w \in Worker, worker[w].at \in {"take", "wait"},
           BeginCall(w), UNCHANGED profileVars
    PROVE  KeepsSum(w)
<1> DEFINE n == Cardinality(Holding)
<1>1. w \in Holding /\ Holding \in SUBSET Worker
  BY DEF Holding
<1>2. DOMAIN worker' = Worker /\ Holding' = Holding \ {w}
  BY GotoHolding DEF BeginCall, CountedInv, Calling
<1>3. Cardinality(Holding') = n - 1 /\ n \in Nat
  BY <1>1, <1>2, OneLess, HoldingIsFinite
<1>4. calls \in Nat /\ calls' \in Nat /\ (~isUnlimited => calls' = calls + 1)
  BY DEF BeginCall, CountedInv
<1>5. remaining \in Nat /\ remaining' = remaining
  BY DEF IInv, RunnerInv, profileVars, repVars
<1>6. ~isUnlimited => calls' + Cardinality(Holding') + remaining'
                         = calls + n + remaining
  BY <1>3, <1>4, <1>5
<1> QED
  BY <1>2, <1>4, <1>6 DEF KeepsSum, None

LEMMA WorkerKeepsSum ==
    ASSUME IInv, CountedInv, NEW w \in Worker, WorkerStep(w)
    PROVE  KeepsSum(w)
<1>1. CASE Leave(w) \/ EndCall(w)
  BY <1>1, HoldsNoneKeepsSum
<1>2. CASE Claim(w)
  BY <1>2, ClaimKeepsSum
<1>3. CASE TakeUnlimited(w)
  BY <1>3, CallKeepsSum DEF TakeUnlimited, Tries
<1>4. CASE TryLater(w)
  <2> DEFINE place == [at |-> "take",
                       until |-> clock + RetryDelay(NextSendTime, clock)]
  <2>1. /\ worker[w].at = "take" /\ Goto(w, place)
        /\ UNCHANGED <<profileVars, calls>>
    BY <1>4 DEF TryLater, Tries, historyVars
  <2>2. place.at = "take"
    OBVIOUS
  <2> HIDE DEF place
  <2> QED
    BY <2>1, <2>2, WaitKeepsSum
<1>5. CASE Reserve(w)
  <2> DEFINE place == [at |-> "wait", until |-> last']
  <2>1. worker[w].at = "take" /\ UNCHANGED profileVars
    BY <1>5 DEF Reserve, Tries
  <2>2. BeginCall(w) \/ (Goto(w, place) /\ UNCHANGED calls)
    BY <1>5 DEF Reserve, historyVars
  <2>3. place.at = "wait"
    OBVIOUS
  <2> HIDE DEF place
  <2> QED
    BY <2>1, <2>2, <2>3, WaitKeepsSum, CallKeepsSum
<1>6. CASE Send(w)
  BY <1>6, CallKeepsSum DEF Send, SendTimeCame
<1> QED
  BY <1>1, <1>2, <1>3, <1>4, <1>5, <1>6 DEF WorkerStep

LEMMA WorkerCounts ==
    ASSUME IInv, CountedInv, NEW w \in Worker, WorkerStep(w),
           UNCHANGED <<command, flags>>
    PROVE  CountedInv'
<1>1. KeepsSum(w)
  BY WorkerKeepsSum
<1>2. UNCHANGED <<profile, phase, isUnlimited, command, flags>> /\ Running
  BY DEF WorkerStep, Leave, Claim, ClaimRep, TakeUnlimited, TryLater, Reserve,
         Send, EndCall, Running, Tries, profileVars, repVars
<1>3. ASSUME Counted PROVE RepsAddUp'
  <2>1. w \in Active
    BY <1>1 DEF KeepsSum, Active
  <2>2. phase = "run"
    BY <1>2, <1>3, <2>1 DEF Running, CountedInv, RepsAddUp
  <2> QED
    BY <1>1, <1>2, <1>3, <2>2 DEF KeepsSum, CountedInv, RepsAddUp
<1> QED
  BY <1>1, <1>2, <1>3 DEF CountedInv, Counted, KeepsSum

LEMMA CountedUnchanged ==
    ASSUME CountedInv,
           UNCHANGED <<profile, phase, repVars, worker, calls, command, flags>>
    PROVE  CountedInv'
BY DEF CountedInv, Counted, RepsAddUp, Holding, Active, repVars

LEMMA CountedInvIsInductive ==
    ASSUME IInv, CountedInv, [Next]_vars
    PROVE  CountedInv'
<1>1. CASE UNCHANGED vars
  BY <1>1, CountedUnchanged
     DEF vars, trafficVars, profileVars, pacedVars, historyVars
<1>2. CASE Next
  <2>1. UNCHANGED <<command, flags>>
    BY <1>2 DEF Next
  <2>2. CASE TimePasses
    BY <2>1, <2>2, CountedUnchanged DEF TimePasses, StepTime
  <2>3. CASE Ended
    BY <2>1, <2>3, CountedUnchanged
       DEF Ended, trafficVars, profileVars, pacedVars, historyVars
  <2> QED
    BY <1>2, <2>1, <2>2, <2>3, RunnerCounts, WorkerCounts DEF Next, TrafficNext
<1> QED
  BY <1>1, <1>2

LEMMA InitCountedInv ==
    ASSUME Init
    PROVE  CountedInv
<1>1. PICK p \in Seq(Steps) : InitTraffic(p)
  BY FlagsTyped, GetProfileShape, UploadProfileShape, FlagsAssumption DEF Init
<1>2. /\ calls = 0 /\ DOMAIN worker = Worker /\ Active = {}
      /\ phase \in {"begin", "refused"}
  BY <1>1 DEF InitTraffic, InitProfile, Active
<1>3. ASSUME Counted
      PROVE  /\ flags \in FlagValues
             /\ profile[1].duration = 0 /\ profile[1].pause = FALSE
             /\ profile[1].repetitions = flags.repetitions
  <2>1. CASE command = "get"
    <3>1. flags \in FlagValues /\ profile = GetProfile(flags)
      BY <2>1, FlagsTyped DEF Init, InitTraffic, InitProfile
    <3>2. Len(GetProfile(flags)) = 1
      BY <1>3, <3>1 DEF Counted
    <3>3. SteadyDuration(flags) = 0
      BY <1>3, <3>1, FlagsOf DEF SteadyDuration, Counted
    <3>4. 1 \in 1 .. Len(GetProfile(flags)) /\ ~(1 < Len(GetProfile(flags)))
      BY <3>2
    <3> QED
      BY <3>1, <3>3, <3>4, GetProfileShape
  <2>2. CASE command = "upload"
    <3>1. flags \in FlagValues /\ profile = UploadProfile(flags)
      BY <2>2, FlagsTyped DEF Init, InitTraffic, InitProfile
    <3> QED
      BY <1>3, <3>1, UploadProfileShape DEF Counted
  <2> QED
    BY <1>3, <2>1, <2>2 DEF Counted
<1> QED
  BY <1>2, <1>3 DEF CountedInv, RepsAddUp

\* A command with repetitions and neither duration nor ramp-up makes exactly as
\* many calls, however many workers compete for the last one, wait for their
\* send times or are replaced by ticks (get.go:81-92, upload.go:93-99).
THEOREM MakesRepetitionsHolds == Spec => []MakesRepetitions
<1>1. Init => IInv /\ CountedInv
  BY InitIInv, InitCountedInv
<1>2. IInv /\ CountedInv /\ [Next]_vars => IInv' /\ CountedInv'
  BY IInvIsInductive, CountedInvIsInductive
<1>3. CountedInv => MakesRepetitions
  BY DEF CountedInv, Counted, RepsAddUp, MakesRepetitions
<1> QED
  BY <1>1, <1>2, <1>3, PTL DEF Spec

----------------------------------------------------------------------------
(* The types of PacedTraffic. *)

Places == {None, Free, Calling} \cup [at : {"take", "wait"}, until : Nat]

PacedTypes ==
    /\ step \in Nat \ {0} /\ maxCatchup \in Nat
    /\ worker \in [Worker -> Places]
    /\ last \in Int
    /\ calls \in Nat /\ stepCalls \in 0 .. MaxCalls
    /\ carried \in 0 .. Cardinality(Worker)
    /\ slow \in BOOLEAN
    /\ settled \in 0 .. Grace + 1

LEMMA GraceBounds ==
    Grace \in Nat /\ Grace >= JitLookahead /\ Grace >= JitSleepCap
BY TimeAssumption DEF Grace, Larger

LEMMA IntervalNat ==
    ASSUME NEW r \in Nat \ {0}
    PROVE  Interval(r) \in Nat
BY TimeAssumption DEF Interval

\* A send time to try next, which lies after the last one.
LEMMA NextSendNat ==
    ASSUME last \in Int, rate \in Nat \ {0}
    PROVE  NextSendTime \in Nat /\ NextSendTime >= last
BY IntervalNat DEF NextSendTime, NextSend

LEMMA RetryDelayNat ==
    ASSUME NEW next \in Int, clock \in Nat, TooFarAhead(next, clock)
    PROVE  RetryDelay(next, clock) \in Nat /\ RetryDelay(next, clock) <= JitSleepCap
BY TimeAssumption DEF TooFarAhead, RetryDelay

LEMMA SetRateTyped ==
    ASSUME maxCatchup \in Nat, NEW r \in Nat, NEW b \in Int, SetRateLimit(r, b)
    PROVE  maxCatchup' \in Nat
<1> DEFINE m == IF b > 1 THEN b ELSE 1
           p == m * Second
<1>1. m \in Nat /\ p \in Nat
  BY TimeAssumption
<1> HIDE DEF p
<1>2. r > 0 => p \div r \in Nat
  BY <1>1
<1> QED
  BY <1>2 DEF SetRateLimit, Catchup, p, m

LEMMA SpawnTyped ==
    ASSUME worker \in [Worker -> Places], NEW n, Spawn(n)
    PROVE  worker' \in [Worker -> Places]
<1>1. PICK new \in SUBSET (Worker \ Active) :
         worker' = [w \in Worker |-> IF w \in new THEN Free ELSE worker[w]]
  BY DEF Spawn, kSubset
<1>2. Free \in Places
  BY DEF Free, Places
<1> QED
  BY <1>1, <1>2

LEMMA GotoTyped ==
    ASSUME worker \in [Worker -> Places], NEW w \in Worker, NEW place \in Places,
           Goto(w, place)
    PROVE  worker' \in [Worker -> Places]
BY DEF Goto

LEMMA PlacesOf ==
    /\ None \in Places /\ Free \in Places /\ Calling \in Places
    /\ \A u \in Nat : /\ [at |-> "take", until |-> u] \in Places
                      /\ [at |-> "wait", until |-> u] \in Places
BY DEF None, Free, Calling, Places

LEMMA AddTyped ==
    ASSUME NEW n \in 0 .. MaxCalls, NEW k \in Nat
    PROVE  /\ SaturatingAdd(n, k) \in 0 .. MaxCalls
           /\ SaturatingAdd(n, k) <= n + k
BY WorkerAssumption DEF SaturatingAdd

LEMMA CallTyped ==
    ASSUME PacedTypes, NEW w \in Worker, BeginCall(w)
    PROVE  /\ worker' \in [Worker -> Places]
           /\ calls' \in Nat /\ stepCalls' \in 0 .. MaxCalls
           /\ UNCHANGED <<carried, slow, settled>>
<1>1. worker' \in [Worker -> Places]
  BY PlacesOf, GotoTyped DEF BeginCall, PacedTypes
<1>2. calls' \in Nat /\ UNCHANGED <<carried, slow, settled>>
  BY DEF BeginCall, PacedTypes
<1>3. stepCalls' \in 0 .. MaxCalls
  BY AddTyped DEF BeginCall, PacedTypes
<1> QED
  BY <1>1, <1>2, <1>3

LEMMA RunnerPacedTypes ==
    ASSUME IInv, IInv', PacedTypes, RunnerBegins \/ RunnerAdjusts \/ RunnerMovesOn
    PROVE  PacedTypes'
<1>1. CASE RunnerBegins
  <2>1. worker' \in [Worker -> Places]
    BY <1>1, SpawnTyped DEF RunnerBegins, PacedTypes
  <2>2. maxCatchup' \in Nat
    <3>1. PICK r : SetRateLimit(r, Step.burst)
      BY <1>1 DEF RunnerBegins, BeginStep
    <3>2. r \in Nat
      BY <3>1 DEF SetRateLimit, IInv, RunnerInv
    <3>3. Step.burst \in Int
      BY <1>1, StepIsValid DEF RunnerBegins, BeginStep, IInv, Steps
    <3> QED
      BY <3>1, <3>2, <3>3, SetRateTyped DEF PacedTypes
  <2>3. At("wait") \subseteq Worker
    BY DEF At
  <2>4. carried' \in 0 .. Cardinality(Worker)
    <3>1. /\ Cardinality(At("wait")) \in Nat /\ Cardinality(Worker) \in Nat
          /\ Cardinality(At("wait")) <= Cardinality(Worker)
      BY <2>3, WorkerAssumption, FS_Subset, FS_CardinalityType
    <3> QED
      BY <1>1, <3>1 DEF RunnerBegins
  <2>5. last' \in Int /\ step' = step /\ calls' = calls
    BY <1>1 DEF RunnerBegins, BeginStep, LastAtBegin, AfterReset, IInv, RunnerInv
  <2>6. stepCalls' = 0 /\ settled' = 0 /\ slow' \in BOOLEAN
    BY <1>1 DEF RunnerBegins
  <2> QED
    BY <2>1, <2>2, <2>4, <2>5, <2>6, GraceBounds, WorkerAssumption
       DEF PacedTypes, Grace
<1>2. CASE RunnerAdjusts
  <2>1. worker' \in [Worker -> Places]
    BY <1>2, SpawnTyped DEF RunnerAdjusts, PacedTypes
  <2>2. maxCatchup' \in Nat
    <3>1. CASE UNCHANGED <<rate, maxCatchup>>
      BY <3>1 DEF PacedTypes
    <3>2. CASE \E r : SetRateLimit(r, Step.burst)
      <4>1. PICK r : SetRateLimit(r, Step.burst)
        BY <3>2
      <4>2. r \in Nat
        BY <4>1 DEF SetRateLimit, IInv, RunnerInv
      <4>3. Step.burst \in Int
        BY <1>2, StepIsValid DEF RunnerAdjusts, TickAdjusts, IInv, Steps
      <4> QED
        BY <4>1, <4>2, <4>3, SetRateTyped DEF PacedTypes
    <3> QED
      BY <1>2, <3>1, <3>2 DEF RunnerAdjusts, TickAdjusts
  <2>3. settled' \in 0 .. Grace + 1
    BY <1>2, GraceBounds DEF RunnerAdjusts, PacedTypes
  <2>4. UNCHANGED <<step, last, calls, stepCalls, carried, slow>>
    BY <1>2 DEF RunnerAdjusts, TickAdjusts
  <2> QED
    BY <2>1, <2>2, <2>3, <2>4 DEF PacedTypes, Grace
<1>3. CASE RunnerMovesOn
  <2>1. UNCHANGED <<maxCatchup, worker, last, calls, stepCalls, carried, slow,
                    settled>>
    BY <1>3 DEF RunnerMovesOn, BeginPause, EndPause, TickEnds, TickWaits, NextStep,
                pacedVars, historyVars, rateVars
  <2>2. step' \in Nat \ {0}
    BY <1>3 DEF RunnerMovesOn, BeginPause, EndPause, TickEnds, TickWaits, NextStep,
                PacedTypes
  <2> QED
    BY <2>1, <2>2 DEF PacedTypes, Grace
<1> QED
  BY <1>1, <1>2, <1>3

LEMMA WorkerPacedTypes ==
    ASSUME IInv, PacedTypes, NEW w \in Worker, WorkerStep(w)
    PROVE  PacedTypes'
<1>0. /\ UNCHANGED <<step, maxCatchup, clock>> /\ clock \in Nat /\ rate \in Nat
      /\ worker \in [Worker -> Places] /\ last \in Int /\ maxCatchup \in Nat
  BY DEF WorkerStep, Leave, Claim, ClaimRep, TakeUnlimited, TryLater, Reserve,
         Send, EndCall, profileVars, rateVars, timeVars, IInv, RunnerInv,
         PacedTypes
<1>1. ASSUME worker' \in [Worker -> Places], last' = last, UNCHANGED historyVars
      PROVE  PacedTypes'
  BY <1>0, <1>1 DEF PacedTypes, historyVars, Grace
<1>2. ASSUME last' \in Int, BeginCall(w)
      PROVE  PacedTypes'
  BY <1>0, <1>2, CallTyped DEF PacedTypes, Grace
<1>3. CASE Leave(w) \/ EndCall(w)
  BY <1>0, <1>1, <1>3, PlacesOf, GotoTyped DEF Leave, EndCall
<1>4. CASE Claim(w)
  BY <1>0, <1>1, <1>4, PlacesOf, GotoTyped DEF Claim
<1>5. CASE TakeUnlimited(w) \/ Send(w)
  BY <1>0, <1>2, <1>5 DEF TakeUnlimited, Send
<1>6. CASE TryLater(w)
  <2> DEFINE u == clock + RetryDelay(NextSendTime, clock)
  <2>1. u \in Nat
    <3>1. NextSendTime \in Int
      BY <1>0, <1>6, NextSendNat DEF TryLater
    <3> QED
      BY <1>0, <1>6, <3>1, RetryDelayNat DEF TryLater
  <2>2. Goto(w, [at |-> "take", until |-> u]) /\ last' = last
        /\ UNCHANGED historyVars
    BY <1>6 DEF TryLater
  <2> HIDE DEF u
  <2> QED
    BY <1>0, <1>1, <2>1, <2>2, PlacesOf, GotoTyped
<1>7. CASE Reserve(w)
  <2>1. NextSendTime \in Int
    BY <1>0, <1>7, NextSendNat DEF Reserve
  <2>2. last' \in Int
    BY <1>0, <1>7, <2>1 DEF Reserve
  <2>3. CASE last' > clock
    <3>1. last' \in Nat
      BY <1>0, <2>2, <2>3
    <3>2. worker' \in [Worker -> Places] /\ UNCHANGED historyVars
      BY <1>0, <1>7, <2>3, <3>1, PlacesOf, GotoTyped DEF Reserve
    <3> QED
      BY <1>0, <2>2, <3>2 DEF PacedTypes, historyVars, Grace
  <2>4. CASE ~(last' > clock)
    BY <1>2, <1>7, <2>2, <2>4 DEF Reserve
  <2> QED
    BY <2>3, <2>4
<1> QED
  BY <1>3, <1>4, <1>5, <1>6, <1>7 DEF WorkerStep

LEMMA PacedTypesInductive ==
    ASSUME IInv, IInv', PacedTypes, [Next]_vars
    PROVE  PacedTypes'
<1>1. CASE UNCHANGED trafficVars
  BY <1>1 DEF PacedTypes, trafficVars, profileVars, pacedVars, historyVars,
              rateVars, Grace
<1>2. CASE RunnerBegins \/ RunnerAdjusts \/ RunnerMovesOn
  BY <1>2, RunnerPacedTypes
<1>3. ASSUME NEW w \in Worker, WorkerStep(w) PROVE PacedTypes'
  BY <1>3, WorkerPacedTypes
<1>4. CASE TimePasses
  <2>1. UNCHANGED <<step, maxCatchup, worker, last, calls, stepCalls, carried>>
    BY <1>4 DEF TimePasses, StepTime, rateVars
  <2>2. slow' \in BOOLEAN /\ settled' \in 0 .. Grace + 1
    BY <1>4, GraceBounds DEF TimePasses, PacedTypes
  <2> QED
    BY <2>1, <2>2 DEF PacedTypes, Grace
<1> QED
  BY <1>1, <1>2, <1>3, <1>4 DEF Next, TrafficNext, Ended, vars

LEMMA InitPacedTypes == Init => PacedTypes
<1> SUFFICES ASSUME Init PROVE PacedTypes
  OBVIOUS
<1>1. PICK p : InitTraffic(p)
  BY DEF Init
<1>2. Cardinality(Worker) \in Nat
  BY WorkerAssumption, FS_CardinalityType
<1>3. step \in Nat \ {0} /\ maxCatchup \in Nat /\ last \in Int
  BY <1>1 DEF InitTraffic, InitProfile, AfterReset
<1>4. worker \in [Worker -> Places]
  BY <1>1, PlacesOf DEF InitTraffic
<1>5. calls = 0 /\ stepCalls = 0 /\ carried = 0 /\ settled = 0 /\ slow \in BOOLEAN
  BY <1>1 DEF InitTraffic
<1> QED
  BY <1>2, <1>3, <1>4, <1>5, GraceBounds, WorkerAssumption DEF PacedTypes

LEMMA PacedTypesHold == Spec => []PacedTypes
<1>1. Init => IInv /\ PacedTypes
  BY InitIInv, InitPacedTypes
<1>2. IInv /\ PacedTypes /\ [Next]_vars => IInv' /\ PacedTypes'
  BY IInvIsInductive, PacedTypesInductive
<1> QED
  BY <1>1, <1>2, PTL DEF Spec

----------------------------------------------------------------------------
(* PaceKept: while there are repetitions left there are enough workers, and *)
(* none of them sleeps past the time at which the next send time is late.   *)

TargetPositive == phase = "run" => target >= 1

EnoughWorkers == (phase = "run" /\ MayCall) => target <= Cardinality(Active)

\* A worker sleeps no longer than Grace, and from what it saw at the current
\* rate no longer than jitSleepCap after the next send time; what it saw at an
\* older rate is no longer of account Grace after the rate changed.
WakesSoon(w) ==
    worker[w].at \in {"take", "wait"} =>
        /\ worker[w].until <= clock + Grace
        /\ rate > 0 => \/ worker[w].until <= clock
                       \/ worker[w].until <= NextSendTime + JitSleepCap
                       \/ worker[w].until + settled <= clock + Grace

PaceInv ==
    /\ TargetPositive /\ EnoughWorkers
    /\ \A w \in Worker : WakesSoon(w)
    /\ PaceKept

LEMMA ActiveIsFinite == IsFiniteSet(Active) /\ Cardinality(Active) \in Nat
<1>1. Active \subseteq Worker
  BY DEF Active
<1> QED
  BY <1>1, WorkerAssumption, FS_Subset, FS_CardinalityType

\* The workers there are after Spawn, which leaves those that run alone.
LEMMA SpawnsEnough ==
    ASSUME worker \in [Worker -> Places], NEW n \in Nat, Spawn(n)
    PROVE  /\ Cardinality(Active') >= n
           /\ \A w \in Worker : worker'[w] = worker[w] \/ worker'[w] = Free
<1> DEFINE missing == Larger(n - Cardinality(Active), 0)
<1>1. PICK new \in SUBSET (Worker \ Active) :
         /\ Cardinality(new) = missing
         /\ worker' = [w \in Worker |-> IF w \in new THEN Free ELSE worker[w]]
  BY DEF Spawn, kSubset
<1>2. Active' = Active \cup new /\ Active \cap new = {}
  BY <1>1 DEF Active, None, Free
<1>3. IsFiniteSet(new)
  BY <1>1, WorkerAssumption, FS_Subset
<1>4. Cardinality(Active') = Cardinality(Active) + missing
  <2>1. /\ Cardinality(Active') = Cardinality(Active) + Cardinality(new)
                                     - Cardinality(Active \cap new)
        /\ Cardinality(Active \cap new) = 0
    BY <1>2, <1>3, ActiveIsFinite, FS_Union, FS_EmptySet
  <2>2. Cardinality(Active) \in Nat /\ Cardinality(new) \in Nat
    BY <1>3, ActiveIsFinite, FS_CardinalityType
  <2> QED
    BY <1>1, <2>1, <2>2
<1>5. Cardinality(Active') >= n
  BY <1>4, ActiveIsFinite DEF Larger
<1> QED
  BY <1>1, <1>5

\* A reservation moves the next send time on.
LEMMA ReserveMovesOn ==
    ASSUME last \in Int, rate \in Nat \ {0}, clock \in Int, maxCatchup \in Nat,
           rate' = rate,
           \/ last' = NextSendTime
           \/ /\ TooFarBehind(NextSendTime, clock, maxCatchup)
              /\ last' = clock - maxCatchup
    PROVE  /\ last' \in Nat /\ last' >= NextSendTime
           /\ NextSendTime' = last' + Interval(rate)
           /\ NextSendTime' >= last'
<1>1. NextSendTime \in Nat
  BY NextSendNat
<1>2. last' \in Nat /\ last' >= NextSendTime
  BY <1>1 DEF TooFarBehind
<1>3. Interval(rate) \in Nat
  BY IntervalNat
<1>4. NextSendTime' = NextSend(last', Interval(rate))
  BY DEF NextSendTime
<1>5. NextSendTime' = last' + Interval(rate)
  BY <1>2, <1>3, <1>4 DEF NextSend
<1> QED
  BY <1>2, <1>3, <1>5

\* What a worker's step does to the pace.
PacedMove(w) ==
    /\ UNCHANGED <<phase, clock, rate, target, slow, settled>>
    /\ MayCall' => MayCall
    /\ rate > 0 => NextSendTime' >= NextSendTime
    /\ \A v \in Worker \ {w} : worker'[v] = worker[v]
    /\ WakesSoon(w)'
    /\ \/ Active' = Active
       \/ Active' = Active \ {w} /\ w \in Active /\ (TooMany \/ ~MayCall \/ phase # "run")

LEMMA GotoMoves ==
    ASSUME PacedTypes, NEW w \in Worker, NEW place, Goto(w, place)
    PROVE  /\ \A v \in Worker \ {w} : worker'[v] = worker[v]
           /\ worker'[w] = place
           /\ (worker[w] # None /\ place # None) => Active' = Active
           /\ (worker[w] # None /\ place = None) =>
                 Active' = Active \ {w} /\ w \in Active
BY DEF Goto, PacedTypes, Active

LEMMA CallMoves ==
    ASSUME IInv, PacedTypes, NEW w \in Worker, worker[w].at \in {"take", "wait"},
           BeginCall(w), UNCHANGED profileVars,
           rate > 0 => NextSendTime' >= NextSendTime
    PROVE  PacedMove(w)
<1>1. /\ \A v \in Worker \ {w} : worker'[v] = worker[v]
      /\ worker'[w] = Calling /\ Active' = Active
  BY GotoMoves DEF BeginCall, None, Calling
<1>2. UNCHANGED <<phase, clock, rate, target, slow, settled, isUnlimited, remaining>>
  BY DEF BeginCall, profileVars, rateVars, timeVars, repVars
<1> QED
  BY <1>1, <1>2 DEF PacedMove, MayCall, WakesSoon, Calling

LEMMA WorkerMoves ==
    ASSUME IInv, PacedTypes, NEW w \in Worker, WorkerStep(w)
    PROVE  PacedMove(w)
<1>0. /\ clock \in Nat /\ rate \in Nat /\ remaining \in Nat
      /\ last \in Int /\ maxCatchup \in Nat /\ isUnlimited \in BOOLEAN
  BY DEF IInv, RunnerInv, PacedTypes
<1>1. ASSUME UNCHANGED <<last, rate>>
      PROVE  rate > 0 => NextSendTime' >= NextSendTime
  BY <1>0, <1>1, NextSendNat DEF NextSendTime
<1>2. CASE Leave(w) \/ EndCall(w)
  <2>1. UNCHANGED <<phase, clock, rate, target, slow, settled, isUnlimited,
                    remaining, last>>
    BY <1>2 DEF Leave, EndCall, profileVars, rateVars, timeVars, repVars, historyVars
  <2>2. \A v \in Worker \ {w} : worker'[v] = worker[v]
    BY <1>2, GotoMoves DEF Leave, EndCall
  <2>3. worker'[w] \in {None, Free}
    BY <1>2, GotoMoves DEF Leave, EndCall
  <2>4. \/ Active' = Active
        \/ Active' = Active \ {w} /\ w \in Active
              /\ (TooMany \/ ~MayCall \/ phase # "run")
    BY <1>2, GotoMoves DEF Leave, EndCall, None, Free, Calling
  <2> QED
    BY <1>1, <2>1, <2>2, <2>3, <2>4 DEF PacedMove, MayCall, WakesSoon, None, Free
<1>3. CASE Claim(w)
  <2>1. UNCHANGED <<phase, clock, rate, target, slow, settled, last>>
    BY <1>3 DEF Claim, ClaimRep, rateVars, timeVars, historyVars
  <2>2. MayCall
    BY <1>3 DEF Claim, ClaimRep
  <2> DEFINE place == [at |-> "take", until |-> clock]
  <2>3. place # None /\ place.at = "take" /\ place.until = clock
    BY DEF None
  <2>4. Goto(w, place) /\ worker[w] # None
    BY <1>3 DEF Claim, Free, None
  <2> HIDE DEF place
  <2>5. /\ \A v \in Worker \ {w} : worker'[v] = worker[v]
        /\ worker'[w] = place /\ Active' = Active
    BY <2>3, <2>4, GotoMoves
  <2>6. WakesSoon(w)'
    BY <1>0, <2>1, <2>3, <2>5, GraceBounds DEF WakesSoon, Grace
  <2> QED
    BY <1>1, <2>1, <2>2, <2>5, <2>6 DEF PacedMove
<1>4. CASE TakeUnlimited(w)
  BY <1>1, <1>4, CallMoves DEF TakeUnlimited, Tries, profileVars, rateVars
<1>5. CASE Send(w)
  BY <1>1, <1>5, CallMoves DEF Send, SendTimeCame, profileVars, rateVars
<1>6. CASE TryLater(w)
  <2> DEFINE d == RetryDelay(NextSendTime, clock)
             place == [at |-> "take", until |-> clock + d]
  <2>1. UNCHANGED <<phase, clock, rate, target, slow, settled, isUnlimited,
                    remaining, last>>
    BY <1>6 DEF TryLater, profileVars, rateVars, timeVars, repVars, historyVars
  <2>2. /\ Goto(w, place) /\ worker[w] # None /\ rate > 0
        /\ TooFarAhead(NextSendTime, clock)
    BY <1>6 DEF TryLater, Tries, None
  <2>3. NextSendTime \in Nat /\ d \in Nat /\ d <= JitSleepCap
    BY <1>0, <2>2, NextSendNat, RetryDelayNat
  <2>4. place # None /\ place.at = "take" /\ place.until = clock + d
    BY DEF None
  <2> HIDE DEF place, d
  <2>5. /\ \A v \in Worker \ {w} : worker'[v] = worker[v]
        /\ worker'[w] = place /\ Active' = Active
    BY <2>2, <2>4, GotoMoves
  <2>6. NextSendTime' = NextSendTime
    BY <2>1 DEF NextSendTime
  <2>7. clock + d <= clock + Grace /\ clock + d <= NextSendTime + JitSleepCap
    BY <1>0, <2>2, <2>3, GraceBounds, TimeAssumption DEF TooFarAhead
  <2>8. WakesSoon(w)'
    BY <2>1, <2>4, <2>5, <2>6, <2>7 DEF WakesSoon, Grace
  <2> QED
    BY <1>1, <2>1, <2>5, <2>8 DEF PacedMove, MayCall
<1>7. CASE Reserve(w)
  <2>1. /\ rate > 0 /\ worker[w].at = "take"
        /\ ~TooFarAhead(NextSendTime, clock) /\ UNCHANGED profileVars
        /\ \/ last' = NextSendTime
           \/ /\ TooFarBehind(NextSendTime, clock, maxCatchup)
              /\ last' = clock - maxCatchup
    BY <1>7 DEF Reserve, Tries
  <2>2. UNCHANGED <<phase, clock, rate, target, isUnlimited, remaining>>
    BY <2>1 DEF profileVars, rateVars, timeVars, repVars
  <2>3. /\ last' \in Nat /\ last' >= NextSendTime /\ NextSendTime' >= last'
        /\ NextSendTime \in Nat
    BY <1>0, <2>1, <2>2, ReserveMovesOn, NextSendNat
  <2>4. NextSendTime' \in Int
    <3>1. Interval(rate) \in Nat /\ NextSendTime' = last' + Interval(rate)
      BY <1>0, <2>1, <2>2, ReserveMovesOn, IntervalNat
    <3> QED
      BY <2>3, <3>1
  <2>5. NextSendTime' >= NextSendTime
    BY <2>3, <2>4
  <2>6. CASE last' > clock
    <3> DEFINE place == [at |-> "wait", until |-> last']
    <3>1. Goto(w, place) /\ UNCHANGED historyVars
      BY <1>7, <2>6 DEF Reserve
    <3>2. place # None /\ place.at = "wait" /\ place.until = last'
      BY DEF None
    <3>3. worker[w] # None
      BY <2>1 DEF None
    <3> HIDE DEF place
    <3>4. /\ \A v \in Worker \ {w} : worker'[v] = worker[v]
          /\ worker'[w] = place /\ Active' = Active
      BY <3>1, <3>2, <3>3, GotoMoves
    <3>5. last' <= clock + JitLookahead
      BY <1>0, <2>1, <2>3, <2>6, TimeAssumption DEF TooFarAhead
    <3>6. last' <= clock + Grace
      BY <1>0, <2>3, <3>5, GraceBounds, TimeAssumption
    <3>7. last' <= NextSendTime' + JitSleepCap
      <4>1. PICK n \in Int : NextSendTime' = n
        BY <2>4
      <4>2. JitSleepCap \in Nat
        BY TimeAssumption
      <4>3. last' <= n + JitSleepCap
        BY <2>3, <4>1, <4>2
      <4> QED
        BY <4>1, <4>3
    <3>8. WakesSoon(w)'
      BY <2>2, <3>2, <3>4, <3>6, <3>7 DEF WakesSoon, Grace
    <3> QED
      BY <2>2, <2>5, <3>1, <3>4, <3>8 DEF PacedMove, MayCall, historyVars
  <2>7. CASE ~(last' > clock)
    BY <1>7, <2>1, <2>5, <2>7, CallMoves DEF Reserve
  <2> QED
    BY <2>6, <2>7
<1> QED
  BY <1>2, <1>3, <1>4, <1>5, <1>6, <1>7 DEF WorkerStep

LEMMA WorkerKeepsPace ==
    ASSUME IInv, PacedTypes, PaceInv, NEW w \in Worker, WorkerStep(w)
    PROVE  PaceInv'
<1>0. /\ clock \in Nat /\ rate \in Nat /\ last \in Int /\ target \in Nat
      /\ settled \in Nat /\ JitSleepCap \in Nat
      /\ worker \in [Worker -> Places]
  BY TimeAssumption, GraceBounds DEF IInv, RunnerInv, PacedTypes
<1>1. PacedMove(w)
  BY WorkerMoves
<1>2. PICK n \in Int : rate > 0 => n = NextSendTime
  BY <1>0, NextSendNat
<1>3. PICK m \in Int : rate > 0 => m = NextSendTime' /\ m >= n
  <2>1. rate > 0 => NextSendTime' \in Int
    <3>1. last' \in Int /\ rate' = rate
      BY <1>1, WorkerPacedTypes DEF PacedMove, PacedTypes
    <3>2. rate > 0 => NextSend(last', Interval(rate)) \in Int
      BY <1>0, <3>1, IntervalNat DEF NextSend
    <3> QED
      BY <3>1, <3>2 DEF NextSendTime
  <2> QED
    BY <1>1, <1>2, <2>1 DEF PacedMove
<1>4. TargetPositive'
  BY <1>1 DEF PacedMove, PaceInv, TargetPositive
<1>5. EnoughWorkers'
  <2> SUFFICES ASSUME phase' = "run", MayCall' PROVE target' <= Cardinality(Active')
    BY DEF EnoughWorkers
  <2>1. phase = "run" /\ MayCall /\ target' = target /\ target <= Cardinality(Active)
    BY <1>1 DEF PacedMove, PaceInv, EnoughWorkers
  <2>2. CASE Active' = Active
    BY <2>1, <2>2
  <2>3. CASE Active' = Active \ {w} /\ w \in Active /\ TooMany
    <3>1. Cardinality(Active') = Cardinality(Active) - 1
      BY <2>3, ActiveIsFinite, FS_RemoveElement
    <3> QED
      BY <1>0, <2>1, <2>3, <3>1, ActiveIsFinite DEF TooMany
  <2> QED
    BY <1>1, <2>1, <2>2, <2>3 DEF PacedMove
<1>6. ASSUME NEW v \in Worker PROVE WakesSoon(v)'
  <2>1. CASE v = w
    BY <1>1, <2>1 DEF PacedMove
  <2>2. CASE v # w
    <3> SUFFICES ASSUME worker[v].at \in {"take", "wait"}
                 PROVE  /\ worker[v].until <= clock + Grace
                        /\ rate > 0 => \/ worker[v].until <= clock
                                       \/ worker[v].until <= m + JitSleepCap
                                       \/ worker[v].until + settled <= clock + Grace
      BY <1>1, <1>3, <2>2 DEF PacedMove, WakesSoon, Grace
    <3>1. worker[v].until \in Nat
      BY <1>0 DEF Places, None, Free, Calling
    <3>2. /\ worker[v].until <= clock + Grace
          /\ rate > 0 => \/ worker[v].until <= clock
                         \/ worker[v].until <= n + JitSleepCap
                         \/ worker[v].until + settled <= clock + Grace
      BY <1>2 DEF PaceInv, WakesSoon
    <3> QED
      BY <1>0, <1>3, <3>1, <3>2
  <2> QED
    BY <2>1, <2>2
<1>7. PaceKept'
  <2> SUFFICES ASSUME phase' = "run", rate' > 0, ~slow', MayCall', settled' > Grace'
               PROVE  clock' <= NextSendTime' + JitSleepCap
    BY DEF PaceKept
  <2>1. /\ phase = "run" /\ rate > 0 /\ ~slow /\ MayCall /\ settled > Grace
        /\ clock' = clock
    BY <1>1 DEF PacedMove, Grace
  <2>2. clock <= n + JitSleepCap
    BY <1>2, <2>1 DEF PaceInv, PaceKept
  <2>3. clock <= m + JitSleepCap
    BY <1>0, <1>3, <2>1, <2>2
  <2> QED
    BY <1>3, <2>1, <2>3
<1> QED
  BY <1>4, <1>5, <1>6, <1>7 DEF PaceInv

\* When time passes each worker that is needed sleeps, and wakes in time.
LEMMA TimeKeepsPace ==
    ASSUME IInv, PacedTypes, PaceInv, TimePasses
    PROVE  PaceInv'
<1>0. /\ clock \in Nat /\ rate \in Nat /\ last \in Int /\ target \in Nat
      /\ settled \in 0 .. Grace + 1 /\ JitSleepCap \in Nat /\ Grace \in Nat
      /\ worker \in [Worker -> Places]
  BY TimeAssumption, GraceBounds DEF IInv, RunnerInv, PacedTypes
<1>1. /\ UNCHANGED <<phase, rate, target, isUnlimited, remaining, worker, last>>
      /\ clock' = clock + 1
      /\ settled' = IF settled > Grace THEN settled ELSE settled + 1
      /\ slow' = (slow \/ At("call") # {})
  BY DEF TimePasses, StepTime, rateVars, repVars
<1>2. /\ NextSendTime' = NextSendTime /\ Active' = Active
      /\ MayCall' = MayCall /\ Grace' = Grace
  BY <1>1 DEF NextSendTime, Active, MayCall, Grace
<1>3. TargetPositive' /\ EnoughWorkers'
  BY <1>1, <1>2 DEF PaceInv, TargetPositive, EnoughWorkers
<1>4. ASSUME NEW v \in Worker PROVE WakesSoon(v)'
  <2> SUFFICES ASSUME worker[v].at \in {"take", "wait"}
               PROVE  /\ worker[v].until <= clock' + Grace
                      /\ rate > 0 =>
                            \/ worker[v].until <= clock'
                            \/ worker[v].until <= NextSendTime + JitSleepCap
                            \/ worker[v].until + settled' <= clock' + Grace
    BY <1>1, <1>2 DEF WakesSoon
  <2>1. worker[v].until \in Nat
    BY <1>0 DEF Places, None, Free, Calling
  <2>2. WakesSoon(v)
    BY DEF PaceInv
  <2> QED
    BY <1>0, <1>1, <2>1, <2>2 DEF WakesSoon
<1>5. PaceKept'
  <2> SUFFICES ASSUME phase = "run", rate > 0, ~slow', MayCall, settled' > Grace
               PROVE  clock + 1 <= NextSendTime + JitSleepCap
    BY <1>1, <1>2 DEF PaceKept
  <2>1. PICK w \in Active : TRUE
    <3>1. Cardinality(Active) >= 1
      BY <1>0, ActiveIsFinite DEF PaceInv, EnoughWorkers, TargetPositive
    <3> QED
      BY <3>1, FS_EmptySet
  <2>2. w \in Worker /\ ~HasToAct(w) /\ worker[w] # None
    BY <2>1 DEF TimePasses, Active
  <2>3. worker[w] # Free
    BY <2>2 DEF HasToAct
  <2>4. worker[w] # Calling
    <3>1. At("call") = {}
      BY <1>1
    <3> QED
      BY <2>2, <3>1 DEF At, Calling
  <2>5. worker[w].at \in {"take", "wait"} /\ worker[w].until \in Nat
    BY <1>0, <2>2, <2>3, <2>4 DEF Places
  <2>6. worker[w].until > clock
    BY <1>0, <2>2, <2>5 DEF HasToAct, Tries, SendTimeCame, Running
  <2>7. \/ worker[w].until <= clock
        \/ worker[w].until <= NextSendTime + JitSleepCap
        \/ worker[w].until + settled <= clock + Grace
    BY <2>2, <2>5 DEF PaceInv, WakesSoon
  <2>8. settled >= Grace
    BY <1>0, <1>1
  <2>9. worker[w].until <= NextSendTime + JitSleepCap
    BY <1>0, <2>5, <2>6, <2>7, <2>8
  <2>10. NextSendTime \in Nat
    BY <1>0, NextSendNat
  <2> QED
    BY <1>0, <2>5, <2>6, <2>9, <2>10
<1> QED
  BY <1>3, <1>4, <1>5 DEF PaceInv

\* What workers saw is of no account for long after a change of the rate.
LEMMA NewRateKeepsWakes ==
    ASSUME PacedTypes, PaceInv, clock' = clock, settled' = 0,
           NEW w \in Worker, worker'[w] = worker[w] \/ worker'[w] = Free
    PROVE  WakesSoon(w)'
<1>1. /\ worker[w] \in Places /\ Grace' = Grace
      /\ worker[w].at \in {"take", "wait"} => worker[w].until <= clock + Grace
  BY DEF PacedTypes, PaceInv, WakesSoon, Grace
<1>2. worker[w].at \in {"take", "wait"} => worker[w].until \in Nat
  BY <1>1 DEF Places, None, Free, Calling
<1>3. CASE worker'[w] = Free
  BY <1>3 DEF WakesSoon, Free
<1>4. CASE worker'[w] = worker[w]
  BY <1>1, <1>2, <1>4 DEF WakesSoon
<1> QED
  BY <1>3, <1>4

\* A change of the concurrency alone.
LEMMA SameRateKeepsWakes ==
    ASSUME PacedTypes, PaceInv, UNCHANGED <<clock, rate, last, settled>>,
           NEW w \in Worker, worker'[w] = worker[w] \/ worker'[w] = Free
    PROVE  WakesSoon(w)'
<1>1. NextSendTime' = NextSendTime /\ Grace' = Grace
  BY DEF NextSendTime, Grace
<1>2. CASE worker'[w] = Free
  BY <1>2 DEF WakesSoon, Free
<1>3. CASE worker'[w] = worker[w]
  BY <1>1, <1>3 DEF PaceInv, WakesSoon
<1> QED
  BY <1>2, <1>3

LEMMA RunnerKeepsPace ==
    ASSUME IInv, PacedTypes, PaceInv, RunnerBegins \/ RunnerAdjusts \/ RunnerMovesOn
    PROVE  PaceInv'
<1>0. Grace' = Grace /\ Grace \in Nat /\ worker \in [Worker -> Places]
  BY GraceBounds DEF Grace, PacedTypes
<1>1. CASE RunnerBegins
  <2>1. /\ Spawn(target') /\ settled' = 0 /\ clock' = clock
        /\ target' = EasedValue(startConcurrency, Step.concurrency, 0, 1,
                                Step.concurrencyEasing)
    BY <1>1 DEF RunnerBegins, BeginStep
  <2>2. target' \in Nat /\ target' >= 1
    <3>1. /\ startConcurrency \in Nat /\ Step.concurrency \in Nat
          /\ Step.concurrency > 0 /\ Step.concurrencyEasing \in Easings
      BY <1>1, StepIsValid DEF RunnerBegins, BeginStep, IInv, RunnerInv, Steps
    <3> QED
      BY <2>1, <3>1, EasedEndIsPositive
  <2>3. /\ target' <= Cardinality(Active')
        /\ \A w \in Worker : worker'[w] = worker[w] \/ worker'[w] = Free
    <3>1. Cardinality(Active') \in Nat
      <4>1. Active' \subseteq Worker
        BY DEF Active
      <4> QED
        BY <4>1, WorkerAssumption, FS_Subset, FS_CardinalityType
    <3> QED
      BY <1>0, <2>1, <2>2, <3>1, SpawnsEnough
  <2>4. \A w \in Worker : WakesSoon(w)'
    BY <2>1, <2>3, NewRateKeepsWakes
  <2>5. PaceKept'
    BY <1>0, <2>1 DEF PaceKept
  <2> QED
    BY <2>2, <2>3, <2>4, <2>5 DEF PaceInv, TargetPositive, EnoughWorkers
<1>2. CASE RunnerAdjusts
  <2>1. /\ Spawn(target') /\ clock' = clock /\ last' = last /\ slow' = slow
        /\ settled' = IF rate' = rate THEN settled ELSE 0
        /\ phase = "run" /\ phase' = "run" /\ UNCHANGED repVars
        /\ target' = IF Step.concurrencyEasing = "none" THEN target
                     ELSE EasedValue(startConcurrency, Step.concurrency, elapsed,
                                     Step.duration, Step.concurrencyEasing)
    BY <1>2 DEF RunnerAdjusts, TickAdjusts, EasedSince
  <2>2. target' \in Nat /\ target' >= 1
    <3>1. /\ startConcurrency \in Nat /\ Step.concurrency \in Nat
          /\ Step.concurrency > 0 /\ Step.concurrencyEasing \in Easings
          /\ elapsed \in Nat
          /\ Step.concurrencyEasing # "none" => Step.duration \in Nat \ {0}
      <4>1. RunnerInv /\ phase # "refused" /\ ~Step.pause
        BY <2>1 DEF IInv, RunnerInv
      <4>2. /\ Step.concurrency \in Nat \ {0} /\ Step.concurrencyEasing \in Easings
            /\ Step.concurrencyEasing # "none" => Step.duration \in Nat \ {0}
        BY <4>1, StepIsValid DEF Steps
      <4> QED
        BY <4>1, <4>2 DEF RunnerInv
    <3>2. target \in Nat /\ target >= 1
      BY <2>1 DEF IInv, RunnerInv, PaceInv, TargetPositive
    <3> QED
      BY <2>1, <3>1, <3>2, EasedValueIsPositive
  <2>3. /\ target' <= Cardinality(Active')
        /\ \A w \in Worker : worker'[w] = worker[w] \/ worker'[w] = Free
    <3>1. Cardinality(Active') \in Nat
      <4>1. Active' \subseteq Worker
        BY DEF Active
      <4> QED
        BY <4>1, WorkerAssumption, FS_Subset, FS_CardinalityType
    <3> QED
      BY <1>0, <2>1, <2>2, <3>1, SpawnsEnough
  <2>4. ASSUME NEW w \in Worker PROVE WakesSoon(w)'
    BY <2>1, <2>3, NewRateKeepsWakes, SameRateKeepsWakes
  <2>5. PaceKept'
    <3>1. CASE rate' = rate
      <4>1. NextSendTime' = NextSendTime /\ MayCall' = MayCall
        BY <2>1, <3>1 DEF NextSendTime, MayCall, repVars
      <4> QED
        BY <1>0, <2>1, <3>1, <4>1 DEF PaceInv, PaceKept
    <3>2. CASE rate' # rate
      BY <1>0, <2>1, <3>2 DEF PaceKept
    <3> QED
      BY <3>1, <3>2
  <2> QED
    BY <2>2, <2>3, <2>4, <2>5 DEF PaceInv, TargetPositive, EnoughWorkers
<1>3. CASE RunnerMovesOn
  <2>1. /\ UNCHANGED <<worker, last, settled, slow, clock, rate, target, isUnlimited,
                       remaining>>
        /\ phase' = "run" => phase = "run"
    BY <1>3 DEF RunnerMovesOn, BeginPause, EndPause, TickEnds, TickWaits, NextStep,
                pacedVars, historyVars, rateVars, repVars, timeVars
  <2>2. /\ NextSendTime' = NextSendTime /\ Active' = Active /\ MayCall' = MayCall
    BY <2>1 DEF NextSendTime, Active, MayCall
  <2> QED
    BY <1>0, <2>1, <2>2
    DEF PaceInv, TargetPositive, EnoughWorkers, WakesSoon, PaceKept
<1> QED
  BY <1>1, <1>2, <1>3

LEMMA PaceInvInductive ==
    ASSUME IInv, PacedTypes, PaceInv, [Next]_vars
    PROVE  PaceInv'
<1>1. CASE UNCHANGED trafficVars
  <2>1. /\ UNCHANGED <<worker, last, settled, slow, clock, rate, target, isUnlimited,
                       remaining, phase>>
    BY <1>1 DEF trafficVars, profileVars, pacedVars, historyVars, rateVars, repVars,
                timeVars
  <2>2. /\ NextSendTime' = NextSendTime /\ Active' = Active /\ MayCall' = MayCall
        /\ Grace' = Grace
    BY <2>1 DEF NextSendTime, Active, MayCall, Grace
  <2> QED
    BY <2>1, <2>2 DEF PaceInv, TargetPositive, EnoughWorkers, WakesSoon, PaceKept
<1>2. CASE RunnerBegins \/ RunnerAdjusts \/ RunnerMovesOn
  BY <1>2, RunnerKeepsPace
<1>3. ASSUME NEW w \in Worker, WorkerStep(w) PROVE PaceInv'
  BY <1>3, WorkerKeepsPace
<1>4. CASE TimePasses
  BY <1>4, TimeKeepsPace
<1> QED
  BY <1>1, <1>2, <1>3, <1>4 DEF Next, TrafficNext, Ended, vars

LEMMA InitPaceInv == Init => PaceInv
<1> SUFFICES ASSUME Init PROVE PaceInv
  OBVIOUS
<1>1. PICK p : InitTraffic(p)
  BY DEF Init
<1>2. phase # "run" /\ \A w \in Worker : worker[w] = None
  BY <1>1 DEF InitTraffic, InitProfile
<1> QED
  BY <1>2 DEF PaceInv, TargetPositive, EnoughWorkers, WakesSoon, PaceKept, None

\* Against a server that answers at once the rate is kept, for every profile,
\* every number of workers and every tick period: no send time waits for a worker
\* longer than jitSleepCap, once the last change of the rate is longer ago than a
\* worker may sleep (rate_limiter.go:12-19, 118-128).
THEOREM PaceKeptHolds == Spec => []PaceKept
<1>1. PaceInv => PaceKept
  BY DEF PaceInv
<1>2. IInv /\ PacedTypes /\ PaceInv /\ [Next]_vars => PaceInv'
  BY PaceInvInductive
<1> QED
  BY <1>1, <1>2, InitPaceInv, IInvHolds, PacedTypesHold, PTL DEF Spec

----------------------------------------------------------------------------
(* The easing functions, from 0 to 1 without a step back. *)

LEMMA ProductNat ==
    ASSUME NEW x \in Int, NEW y \in Int, x >= 0, y >= 0
    PROVE  x * y >= 0
OBVIOUS

LEMMA PartsGrow ==
    ASSUME NEW d \in Nat \ {0}, NEW m \in 0 .. d, NEW n \in 0 .. m,
           NEW easing \in Easings \ {"none"}
    PROVE  /\ EasedParts(easing, n, d) \in Int /\ EasedParts(easing, m, d) \in Int
           /\ EasedParts(easing, n, d) <= EasedParts(easing, m, d)
<1>1. CASE easing = "linear"
  <2>1. (m - n) * d >= 0
    BY ProductNat
  <2> QED
    BY <1>1, <2>1 DEF EasedParts
<1>2. CASE easing = "in"
  <2>1. (m - n) * (m + n) >= 0
    BY ProductNat
  <2> QED
    BY <1>2, <2>1 DEF EasedParts
<1>3. CASE easing = "out"
  <2>1. (m - n) * (2 * d - (m + n)) >= 0
    BY ProductNat
  <2> QED
    BY <1>3, <2>1 DEF EasedParts
<1>4. CASE easing = "inOut"
  <2> DEFINE p(k) == IF 2 * k < d THEN 2 * k * k ELSE (4 * d - 2 * k) * k - d * d
  <2>1. \A k \in Nat : EasedParts(easing, k, d) = p(k)
    BY <1>4 DEF EasedParts
  <2>2. p(n) \in Int /\ p(m) \in Int
    OBVIOUS
  <2>3. CASE 2 * m < d
    <3>1. (m - n) * (m + n) >= 0
      BY ProductNat
    <3>2. p(n) = 2 * n * n /\ p(m) = 2 * m * m
      BY <2>3
    <3>3. p(n) <= p(m)
      BY <3>1, <3>2
    <3> QED
      BY <2>1, <2>2, <3>3
  <2>4. CASE 2 * n >= d
    <3>1. (m - n) * (2 * d - (m + n)) >= 0
      BY ProductNat
    <3>2. p(n) = (4 * d - 2 * n) * n - d * d /\ p(m) = (4 * d - 2 * m) * m - d * d
      BY <2>4
    <3>3. p(n) <= p(m)
      BY <3>1, <3>2
    <3> QED
      BY <2>1, <2>2, <3>3
  <2>5. CASE 2 * n < d /\ 2 * m >= d
    <3>1. (d - 2 * n) * (d + 2 * n) >= 0 /\ (2 * m - d) * (3 * d - 2 * m) >= 0
      BY <2>5, ProductNat
    <3>2. p(n) = 2 * n * n /\ p(m) = (4 * d - 2 * m) * m - d * d
      BY <2>5
    <3>3. p(n) <= p(m)
      BY <3>1, <3>2
    <3> QED
      BY <2>1, <2>2, <3>3
  <2> QED
    BY <2>3, <2>4, <2>5
<1> QED
  BY <1>1, <1>2, <1>3, <1>4 DEF Easings

LEMMA PartsEnd ==
    ASSUME NEW d \in Nat \ {0}, NEW easing \in Easings \ {"none"}
    PROVE  EasedParts(easing, 0, d) = 0 /\ EasedParts(easing, d, d) = d * d
BY DEF EasedParts, Easings

\* The value x / whole of the way, rounded down.
Blend(from, to, x, whole) == (from * whole + x * (to - from)) \div whole

LEMMA DivGrows ==
    ASSUME NEW a \in Int, NEW b \in Int, NEW i \in Nat, i > 0, a <= b
    PROVE  a \div i \in Int /\ b \div i \in Int /\ a \div i <= b \div i
<1> DEFINE q == a \div i
<1>1. q \in Int /\ q * i <= a
  OBVIOUS
<1> HIDE DEF q
<1>2. q * i <= b
  BY <1>1
<1> QED
  BY <1>1, <1>2, QuotientAtLeast DEF q

LEMMA BlendMoves ==
    ASSUME NEW from \in Nat, NEW to \in Nat, NEW whole \in Nat \ {0},
           NEW y \in 0 .. whole, NEW x \in 0 .. y
    PROVE  /\ Blend(from, to, x, whole) \in Int /\ Blend(from, to, y, whole) \in Int
           /\ from <= to => /\ from <= Blend(from, to, x, whole)
                            /\ Blend(from, to, x, whole) <= Blend(from, to, y, whole)
                            /\ Blend(from, to, y, whole) <= to
           /\ to <= from => /\ to <= Blend(from, to, y, whole)
                            /\ Blend(from, to, y, whole) <= Blend(from, to, x, whole)
                            /\ Blend(from, to, x, whole) <= from
<1> DEFINE a == from * whole + x * (to - from)
           b == from * whole + y * (to - from)
<1>1. a \in Int /\ b \in Int
  OBVIOUS
<1>2. CASE from <= to
  <2>1. /\ x * (to - from) >= 0 /\ (y - x) * (to - from) >= 0
        /\ (whole - y) * (to - from) >= 0
    BY <1>2, ProductNat
  <2>2. from * whole <= a /\ a <= b /\ b <= to * whole
    BY <2>1
  <2>3. b < to * whole + whole
    BY <2>2
  <2> HIDE DEF a, b
  <2>4. from <= a \div whole
    BY <1>1, <2>2, QuotientAtLeast
  <2>5. b \div whole <= to
    BY <1>1, <2>3, QuotientAtMost
  <2>6. /\ a \div whole \in Int /\ b \div whole \in Int
        /\ a \div whole <= b \div whole
    BY <1>1, <2>2, DivGrows
  <2>7. from = to => a \div whole = from /\ b \div whole = from
    BY <2>4, <2>5, <2>6
  <2> QED
    BY <1>2, <2>4, <2>5, <2>6, <2>7 DEF Blend, a, b
<1>3. CASE to < from
  <2>1. /\ x * (from - to) >= 0 /\ (y - x) * (from - to) >= 0
        /\ (whole - y) * (from - to) >= 0
    BY <1>3, ProductNat
  <2>2. to * whole <= b /\ b <= a /\ a <= from * whole
    BY <2>1
  <2>3. a < from * whole + whole
    BY <2>2
  <2> HIDE DEF a, b
  <2>4. to <= b \div whole
    BY <1>1, <2>2, QuotientAtLeast
  <2>5. a \div whole <= from
    BY <1>1, <2>3, QuotientAtMost
  <2>6. /\ a \div whole \in Int /\ b \div whole \in Int
        /\ b \div whole <= a \div whole
    BY <1>1, <2>2, DivGrows
  <2> QED
    BY <1>3, <2>4, <2>5, <2>6 DEF Blend, a, b
<1> QED
  BY <1>2, <1>3

LEMMA EasedIsBlend ==
    ASSUME NEW from \in Nat, NEW to \in Nat, NEW d \in Nat \ {0}, NEW n \in 0 .. d,
           NEW easing \in Easings \ {"none"}
    PROVE  EasedValue(from, to, n, d, easing)
              = AtLeastOne(Blend(from, to, EasedParts(easing, n, d), d * d), from, to)
<1>1. EasedParts(easing, n, d) \in Int
  BY PartsGrow
<1> DEFINE p == EasedParts(easing, n, d)
<1>2. from * d * d = from * (d * d)
  OBVIOUS
<1> QED
  BY <1>1, <1>2 DEF EasedValue, Blend

\* An eased value moves from the value it starts from to the one it ends at and
\* never beyond either; 0 counts as 1.
LEMMA EasedMoves ==
    ASSUME NEW from \in Nat, NEW to \in Nat, NEW d \in Nat \ {0},
           NEW m \in 0 .. d, NEW n \in 0 .. m, NEW easing \in Easings \ {"none"},
           to > 0 \/ from > 0
    PROVE  LET a == EasedValue(from, to, n, d, easing)
               b == EasedValue(from, to, m, d, easing)
           IN  /\ a \in Nat /\ b \in Nat
               /\ from <= to => Limited(from) <= a /\ a <= b /\ b <= Limited(to)
               /\ to <= from => Limited(to) <= b /\ b <= a /\ a <= Limited(from)
<1> DEFINE x == EasedParts(easing, n, d)
           y == EasedParts(easing, m, d)
           D == d * d
<1>1. D \in Nat \ {0}
  OBVIOUS
<1>2. y \in 0 .. D /\ x \in 0 .. y
  BY PartsGrow, PartsEnd
<1> DEFINE u == Blend(from, to, x, D)
           v == Blend(from, to, y, D)
<1>3. /\ EasedValue(from, to, n, d, easing) = AtLeastOne(u, from, to)
      /\ EasedValue(from, to, m, d, easing) = AtLeastOne(v, from, to)
  BY EasedIsBlend
<1> HIDE DEF x, y, D
<1>4. /\ u \in Int /\ v \in Int
      /\ from <= to => from <= u /\ u <= v /\ v <= to
      /\ to <= from => to <= v /\ v <= u /\ u <= from
  BY <1>1, <1>2, BlendMoves
<1> HIDE DEF u, v
<1>5. /\ AtLeastOne(u, from, to) = IF u < 1 THEN 1 ELSE u
      /\ AtLeastOne(v, from, to) = IF v < 1 THEN 1 ELSE v
  BY DEF AtLeastOne
<1> QED
  BY <1>3, <1>4, <1>5 DEF Limited

LEMMA EasedAtMost ==
    ASSUME NEW from \in Nat, NEW to \in Nat, NEW d \in Nat \ {0}, NEW n \in 0 .. d,
           NEW easing \in Easings, NEW most \in Nat \ {0}, from <= most, to <= most
    PROVE  EasedValue(from, to, n, d, easing) <= most
<1>1. CASE easing = "none"
  BY <1>1 DEF EasedValue
<1>2. CASE easing # "none"
  <2> DEFINE x == EasedParts(easing, n, d)
             D == d * d
             u == Blend(from, to, x, D)
  <2>1. D \in Nat \ {0} /\ x \in 0 .. D
    BY <1>2, PartsGrow, PartsEnd
  <2>2. u \in Int /\ u <= most
    <3> HIDE DEF x, D
    <3>1. x \in 0 .. x
      BY <2>1
    <3>2. /\ u \in Int
          /\ from <= to => u <= to
          /\ to <= from => u <= from
      BY <2>1, <3>1, BlendMoves
    <3> HIDE DEF u
    <3> QED
      BY <3>2
  <2>3. EasedValue(from, to, n, d, easing) = AtLeastOne(u, from, to)
    BY <1>2, EasedIsBlend
  <2> HIDE DEF u
  <2> QED
    BY <2>2, <2>3 DEF AtLeastOne
<1> QED
  BY <1>1, <1>2

----------------------------------------------------------------------------
(* TypeOK, for rates that have an interval of at least one unit of time. *)

\* Rates of more than one request per unit of time have an interval of 0, by
\* which Take divides (rate_limiter.go:111, 133).
RatesFit ==
    /\ \A f \in Flags : f.rps <= Second
    /\ \A p \in Profiles : \A i \in 1 .. Len(p) : p[i].rps <= Second

RatesInv ==
    /\ \A i \in 1 .. Len(profile) : profile[i].rps <= Second
    /\ startRate <= Second /\ rate <= Second
    /\ skipped \in 0 .. MaxCalls

LEMMA IntervalPositive ==
    ASSUME NEW r \in Nat \ {0}, r <= Second
    PROVE  Interval(r) \in Nat \ {0}
<1>1. Second \in Nat \ {0} /\ 1 * r <= Second
  BY TimeAssumption
<1>2. Second \div r \in Int /\ 1 <= Second \div r
  BY <1>1, QuotientAtLeast
<1> QED
  BY <1>2 DEF Interval

LEMMA ProfileRates ==
    ASSUME NEW f \in FlagValues
    PROVE  /\ \A i \in 1 .. Len(GetProfile(f)) : GetProfile(f)[i].rps = f.rps
           /\ \A i \in 1 .. Len(UploadProfile(f)) : UploadProfile(f)[i].rps = 0
<1> DEFINE common == WithRate(f.rps, f.concurrency, f.rps \div f.concurrency)
           ramp == [common EXCEPT !.duration = RampUp(f), !.rpsEasing = "linear"]
           steady == [common EXCEPT !.duration = SteadyDuration(f),
                                    !.repetitions = f.repetitions]
<1>1. common \in Steps /\ common.rps = f.rps
  <2>1. /\ f.rps \in Int /\ f.concurrency \in Int
        /\ f.rps \div f.concurrency \in Int
    BY FlagsOf
  <2>2. common.rps = f.rps
    BY DEF WithRate, Plain
  <2> QED
    BY <2>1, <2>2, WithRateIsStep
<1> HIDE DEF common
<1>2. ramp.rps = f.rps /\ steady.rps = f.rps
  BY <1>1 DEF Steps
<1>3. GetProfile(f) = IF RampUp(f) > 0 THEN <<ramp, steady>> ELSE <<steady>>
  BY DEF GetProfile, WithRate, common
<1> HIDE DEF ramp, steady
<1>4. \A i \in 1 .. Len(GetProfile(f)) : GetProfile(f)[i].rps = f.rps
  <2>1. CASE RampUp(f) > 0
    BY <1>2, <1>3, <2>1
  <2>2. CASE ~(RampUp(f) > 0)
    BY <1>2, <1>3, <2>2
  <2> QED
    BY <2>1, <2>2
<1>5. UploadProfile(f) = <<WithLimits(f)>> /\ WithLimits(f).rps = 0
  BY DEF UploadProfile, WithLimits, Plain
<1> QED
  BY <1>4, <1>5

LEMMA InitRatesInv ==
    ASSUME RatesFit, Init
    PROVE  RatesInv
<1>1. PICK p : /\ InitTraffic(p)
               /\ \/ \E f \in Flags : p = GetProfile(f) \/ p = UploadProfile(f)
                  \/ p \in Profiles
  BY DEF Init
<1>2. ASSUME NEW i \in 1 .. Len(p) PROVE p[i].rps <= Second
  BY <1>1, FlagsTyped, ProfileRates, TimeAssumption DEF RatesFit
<1> QED
  BY <1>1, <1>2, TimeAssumption, WorkerAssumption
     DEF InitTraffic, InitProfile, RatesInv

LEMMA StepRates ==
    ASSUME IInv, RatesInv, phase # "refused"
    PROVE  /\ Step.rps \in Nat /\ Step.rps <= Second /\ Step.rpsEasing \in Easings
           /\ Step.rpsEasing # "none" => Step.duration \in Nat \ {0}
           /\ startRate \in Nat /\ startRate <= Second
<1>1. Step.rps <= Second
  BY DEF IInv, RunnerInv, RatesInv, Step
<1>2. RunnerInv
  BY DEF IInv
<1>3. startRate \in Nat /\ startRate <= Second
  BY DEF IInv, RunnerInv, RatesInv
<1> QED
  BY <1>1, <1>2, <1>3, StepIsValid DEF Steps

LEMMA RunnerKeepsRates ==
    ASSUME IInv, RatesInv, RunnerBegins \/ RunnerAdjusts \/ RunnerMovesOn
    PROVE  RatesInv'
<1>0. profile' = profile /\ skipped' = skipped /\ phase # "refused"
  BY DEF RunnerBegins, RunnerAdjusts, RunnerMovesOn, BeginStep, TickAdjusts,
         BeginPause, EndPause, TickEnds, TickWaits, NextStep, pacedVars
<1>1. /\ Step.rps \in Nat /\ Step.rps <= Second /\ Step.rpsEasing \in Easings
      /\ Step.rpsEasing # "none" => Step.duration \in Nat \ {0}
      /\ startRate \in Nat /\ startRate <= Second
      /\ Second \in Nat \ {0} /\ elapsed \in Nat
  BY <1>0, StepRates, TimeAssumption DEF IInv, RunnerInv
<1>2. ASSUME NEW n \in {0, 1}
      PROVE  EasedValue(startRate, Step.rps, n, 1, Step.rpsEasing) <= Second
  <2>1. n \in 0 .. 1 /\ 1 \in Nat \ {0}
    BY <1>2
  <2> QED
    BY <1>1, <2>1, EasedAtMost
<1>3. CASE RunnerBegins
  BY <1>0, <1>2, <1>3 DEF RunnerBegins, BeginStep, SetRateLimit, RatesInv, startVars
<1>4. CASE RunnerAdjusts
  <2>1. /\ startRate' = startRate
        /\ rate' = IF Step.rpsEasing = "none" THEN rate
                   ELSE EasedValue(startRate, Step.rps, elapsed, Step.duration,
                                   Step.rpsEasing)
        /\ ~DurationPassed
    BY <1>4 DEF RunnerAdjusts, TickAdjusts, SetRateLimit, EasedSince, startVars
  <2>2. CASE Step.rpsEasing = "none"
    BY <1>0, <2>1, <2>2 DEF RatesInv
  <2>3. CASE Step.rpsEasing # "none"
    <3>1. elapsed \in 0 .. Step.duration /\ Step.duration \in Nat \ {0}
      BY <1>1, <2>1, <2>3 DEF DurationPassed
    <3>2. rate' <= Second
      BY <1>1, <2>1, <2>3, <3>1, EasedAtMost
    <3> QED
      BY <1>0, <2>1, <3>2 DEF RatesInv
  <2> QED
    BY <2>2, <2>3
<1>5. CASE RunnerMovesOn
  <2>1. rate' = rate
    BY <1>5 DEF RunnerMovesOn, BeginPause, EndPause, TickEnds, TickWaits, NextStep,
                rateVars
  <2>2. startRate' <= Second
    BY <1>1, <1>2, <1>5 DEF RunnerMovesOn, BeginPause, EndPause, TickEnds, TickWaits,
                            NextStep, startVars
  <2> QED
    BY <1>0, <2>1, <2>2 DEF RatesInv
<1> QED
  BY <1>3, <1>4, <1>5

\* A worker that is too far behind skips a number of requests.
LEMMA WorkerKeepsRates ==
    ASSUME IInv, PacedTypes, RatesInv, NEW w \in Worker, WorkerStep(w)
    PROVE  RatesInv'
<1>1. UNCHANGED <<profile, startRate, rate>>
  BY DEF WorkerStep, Leave, Claim, ClaimRep, TakeUnlimited, TryLater, Reserve,
         Send, EndCall, profileVars, rateVars, startVars
<1>2. CASE skipped' = skipped
  BY <1>1, <1>2 DEF RatesInv
<1>3. CASE Reserve(w) /\ skipped' # skipped
  <2> DEFINE i == Interval(rate)
             x == clock - maxCatchup - NextSendTime
  <2>1. /\ rate \in Nat \ {0} /\ TooFarBehind(NextSendTime, clock, maxCatchup)
        /\ skipped' = SaturatingAdd(skipped, x \div i)
        /\ last \in Int /\ maxCatchup \in Nat /\ clock \in Nat /\ rate <= Second
    BY <1>3 DEF Reserve, SkippedRequests, IInv, RunnerInv, PacedTypes, RatesInv
  <2>2. i \in Nat \ {0} /\ NextSendTime \in Nat
    BY <2>1, IntervalPositive, NextSendNat
  <2>3. x \in Nat
    BY <2>1, <2>2 DEF TooFarBehind
  <2> HIDE DEF i, x
  <2>4. x \div i \in Nat
    BY <2>2, <2>3
  <2>5. skipped' \in 0 .. MaxCalls
    BY <2>1, <2>4, AddTyped DEF RatesInv
  <2> QED
    BY <1>1, <2>5 DEF RatesInv
<1> QED
  BY <1>2, <1>3 DEF WorkerStep, Leave, Claim, TakeUnlimited, TryLater, Send, EndCall

LEMMA RatesInvInductive ==
    ASSUME IInv, PacedTypes, RatesInv, [Next]_vars
    PROVE  RatesInv'
<1>1. CASE UNCHANGED trafficVars
  BY <1>1 DEF RatesInv, trafficVars, profileVars, rateVars, startVars, pacedVars
<1>2. CASE RunnerBegins \/ RunnerAdjusts \/ RunnerMovesOn
  BY <1>2, RunnerKeepsRates
<1>3. ASSUME NEW w \in Worker, WorkerStep(w) PROVE RatesInv'
  BY <1>3, WorkerKeepsRates
<1>4. CASE TimePasses
  BY <1>4 DEF RatesInv, TimePasses, StepTime, rateVars, startVars
<1> QED
  BY <1>1, <1>2, <1>3, <1>4 DEF Next, TrafficNext, Ended, vars

LEMMA TypesFollow ==
    ASSUME IInv, PacedTypes, RatesInv
    PROVE  TypeOK
<1>1. Places \subseteq [at : {"none", "free", "take", "wait", "call"}, until : Nat]
  BY DEF Places, None, Free, Calling
<1>2. ProfileTypeOK
  BY DEF IInv, RunnerInv, PacedTypes, ProfileTypeOK
<1>3. worker \in [Worker -> [at : {"none", "free", "take", "wait", "call"},
                             until : Nat]]
  BY <1>1 DEF PacedTypes
<1> QED
  BY <1>2, <1>3 DEF TypeOK, PacedTypes, RatesInv

\* Every variable has its type as long as no rate is above one request per unit
\* of time: rates and concurrencies stay non-negative on the way between any two
\* (workerpool.go:466-478), and a number of skipped requests is never negative
\* (rate_limiter.go:130-137).
THEOREM TypesHold == RatesFit => (Spec => []TypeOK)
<1> SUFFICES ASSUME RatesFit PROVE Spec => []TypeOK
  OBVIOUS
<1>1. Init => RatesInv
  BY InitRatesInv
<1>2. IInv /\ PacedTypes /\ RatesInv /\ [Next]_vars => RatesInv'
  BY RatesInvInductive
<1>3. IInv /\ PacedTypes /\ RatesInv => TypeOK
  BY TypesFollow
<1> QED
  BY <1>1, <1>2, <1>3, IInvHolds, PacedTypesHold, PTL DEF Spec

----------------------------------------------------------------------------
(* MovesTowardsTarget and ArrivesAtTarget: the rate of a step that eases is  *)
(* that of a moment of the step, the last tick while repetitions are left.   *)

EasedAt(n) == EasedValue(startRate, Step.rps, n, Step.duration, Step.rpsEasing)

EaseInv ==
    IsEasing =>
        /\ sinceTick <= elapsed /\ sinceTick <= TickPeriod
        /\ \E n \in 0 .. Step.duration :
              /\ n <= elapsed /\ rate = EasedAt(n)
              /\ ~RepsUsed => n = elapsed - sinceTick

\* What is known of a step that eases.
LEMMA EasingStep ==
    ASSUME IInv, phase \in {"begin", "run"}, Step.rpsEasing # "none"
    PROVE  /\ Step.rps \in Nat /\ Step.rpsEasing \in Easings \ {"none"}
           /\ Step.duration \in Nat \ {0} /\ startRate \in Nat
           /\ elapsed \in Nat /\ sinceTick \in Nat
<1>1. RunnerInv
  BY DEF IInv
<1>2. elapsed \in Nat /\ sinceTick \in Nat /\ startRate \in Nat
  BY <1>1 DEF RunnerInv
<1> QED
  BY <1>1, <1>2, StepIsValid DEF Steps

\* The values at the begin of a step do not depend on its duration.
LEMMA EasedBegin ==
    ASSUME NEW from \in Nat, NEW to \in Nat, NEW d \in Nat \ {0},
           NEW easing \in Easings \ {"none"}
    PROVE  EasedValue(from, to, 0, d, easing) = AtLeastOne(from, from, to)
<1> DEFINE D == d * d
<1>1. D \in Nat \ {0} /\ EasedParts(easing, 0, d) = 0
  BY PartsEnd
<1>2. EasedValue(from, to, 0, d, easing)
         = AtLeastOne(Blend(from, to, EasedParts(easing, 0, d), D), from, to)
  BY EasedIsBlend
<1> HIDE DEF D
<1>3. Blend(from, to, 0, D) = from
  <2>1. from * D + 0 * (to - from) = from * D
    BY <1>1
  <2>2. (from * D) \div D = from
    <3>1. from * D < from * D + D /\ from * D <= from * D /\ from * D \in Int
      BY <1>1
    <3> HIDE DEF Blend
    <3>2. (from * D) \div D <= from /\ from <= (from * D) \div D
      BY <1>1, <3>1, QuotientAtLeast, QuotientAtMost
    <3> QED
      BY <1>1, <3>1, <3>2
  <2> QED
    BY <2>1, <2>2 DEF Blend
<1> QED
  BY <1>1, <1>2, <1>3

LEMMA EaseInvInductive ==
    ASSUME IInv, EaseInv, [Next]_vars
    PROVE  EaseInv'
<1> SUFFICES ASSUME IsEasing' PROVE EaseInv'
  BY DEF EaseInv
<1>1. CASE UNCHANGED profileVars
  BY <1>1 DEF EaseInv, IsEasing, EasedAt, RepsUsed, Step, profileVars, timeVars,
              rateVars, repVars, startVars
<1>2. CASE BeginStep
  <2>1. /\ Step' = Step /\ phase = "begin" /\ elapsed' = 0 /\ sinceTick' = 0
        /\ startRate' = startRate
        /\ rate' = EasedValue(startRate, Step.rps, 0, 1, Step.rpsEasing)
    BY <1>2 DEF BeginStep, Step, SetRateLimit, startVars
  <2>2. /\ Step.rps \in Nat /\ Step.rpsEasing \in Easings \ {"none"}
        /\ Step.duration \in Nat \ {0} /\ startRate \in Nat
    BY <2>1, EasingStep DEF IsEasing
  <2>3. rate' = EasedAt(0)'
    BY <2>1, <2>2, EasedBegin DEF EasedAt
  <2> QED
    BY <2>1, <2>2, <2>3, ProfileAssumption DEF EaseInv
<1>3. CASE TickAdjusts
  <2>1. /\ Step' = Step /\ phase = "run" /\ elapsed' = elapsed /\ sinceTick' = 0
        /\ startRate' = startRate /\ ~DurationPassed /\ IsEasing
        /\ rate' = EasedAt(elapsed)
    BY <1>3 DEF TickAdjusts, Step, SetRateLimit, startVars, EasedSince, EasedAt,
                IsEasing
  <2>2. /\ Step.duration \in Nat \ {0} /\ elapsed \in Nat
    BY <2>1, EasingStep DEF IsEasing
  <2>3. \A n : EasedAt(n)' = EasedAt(n)
    BY <2>1 DEF EasedAt
  <2>4. elapsed \in 0 .. Step'.duration /\ rate' = EasedAt(elapsed)
    BY <2>1, <2>2 DEF DurationPassed
  <2>5. PICK n \in 0 .. Step'.duration : n = elapsed
    BY <2>4
  <2>6. rate' = EasedAt(n)' /\ n <= elapsed' /\ n = elapsed' - sinceTick'
    BY <2>1, <2>2, <2>3, <2>4, <2>5
  <2> QED
    BY <2>1, <2>2, <2>5, <2>6, ProfileAssumption DEF EaseInv
<1>4. CASE (\E active : TickWaits(active)) \/ StepTime \/ ClaimRep
  <2>1. /\ Step' = Step /\ startRate' = startRate /\ rate' = rate
        /\ phase = "run"
    BY <1>4 DEF TickWaits, StepTime, ClaimRep, Step, startVars, rateVars, IsEasing
  <2>2. /\ Step.duration \in Nat \ {0} /\ elapsed \in Nat /\ sinceTick \in Nat
        /\ IsEasing
    BY <2>1, EasingStep DEF IsEasing
  <2>3. /\ sinceTick' <= elapsed' /\ sinceTick' <= TickPeriod
        /\ elapsed' >= elapsed
    BY <1>4, <2>1, <2>2, ProfileAssumption
       DEF EaseInv, TickWaits, StepTime, ClaimRep, timeVars
  <2>4. ~RepsUsed' =>
            /\ ~RepsUsed /\ elapsed' - sinceTick' = elapsed - sinceTick
    <3>1. CASE \E active : TickWaits(active)
      BY <2>1, <3>1 DEF RepsUsed, TickWaits, repVars
    <3>2. CASE StepTime
      BY <2>1, <2>2, <3>2 DEF RepsUsed, StepTime, repVars
    <3>3. CASE ClaimRep
      BY <2>1, <3>3 DEF RepsUsed, ClaimRep, timeVars, IInv, RunnerInv
    <3> QED
      BY <1>4, <3>1, <3>2, <3>3
  <2>5. PICK n \in 0 .. Step.duration :
           /\ n <= elapsed /\ rate = EasedAt(n)
           /\ ~RepsUsed => n = elapsed - sinceTick
    BY <2>2 DEF EaseInv
  <2>6. rate' = EasedAt(n)' /\ n <= elapsed'
    <3>1. elapsed' \in Int
      BY <1>4, <2>2 DEF TickWaits, StepTime, ClaimRep, timeVars
    <3> QED
      BY <2>1, <2>2, <2>3, <2>5, <3>1 DEF EasedAt
  <2> QED
    BY <2>1, <2>3, <2>4, <2>5, <2>6 DEF EaseInv
<1>5. CASE BeginPause \/ EndPause \/ \E active : TickEnds(active)
  BY <1>5 DEF BeginPause, EndPause, TickEnds, NextStep, IsEasing
<1> QED
  BY <1>1, <1>2, <1>3, <1>4, <1>5, NextOfProfile DEF vars, trafficVars

LEMMA EaseInvHolds == Spec => [](IInv /\ EaseInv)
<1>1. Init => EaseInv
  BY DEF Init, InitTraffic, InitProfile, EaseInv, IsEasing
<1>2. IInv /\ EaseInv /\ [Next]_vars => EaseInv'
  BY EaseInvInductive
<1> QED
  BY <1>1, <1>2, IInvHolds, PTL DEF Spec

\* While a rate is eased it only moves from the rate its step starts with towards
\* the rate of the step and never beyond, for every profile, every easing and
\* whichever ticks come late or at once (options.go:13-36, workerpool.go:466-478).
THEOREM MovesTowardsTargetHolds == Spec => MovesTowardsTarget
<1> DEFINE Eases == IsEasing' /\ step' = step /\ (Step.rps > 0 \/ startRate > 0)
           Moves == Towards(IF phase = "begin" THEN Limited(startRate) ELSE rate,
                            rate', Limited(Step.rps))
<1>1. ASSUME IInv, EaseInv, [Next]_vars
      PROVE  [Eases => Moves]_profileVars
  <2> SUFFICES ASSUME Eases, profileVars' # profileVars PROVE Moves
    OBVIOUS
  <2>1. CASE BeginStep
    <3>1. /\ phase = "begin" /\ Step' = Step
          /\ rate' = EasedValue(startRate, Step.rps, 0, 1, Step.rpsEasing)
      BY <2>1 DEF BeginStep, Step, SetRateLimit
    <3>2. /\ Step.rps \in Nat /\ Step.rpsEasing \in Easings \ {"none"}
          /\ startRate \in Nat
      BY <1>1, <3>1, EasingStep DEF IsEasing
    <3>3. 0 \in 0 .. 1 /\ 0 \in 0 .. 0 /\ 1 \in Nat \ {0}
      OBVIOUS
    <3>4. /\ rate' \in Nat
          /\ startRate <= Step.rps => /\ Limited(startRate) <= rate'
                                      /\ rate' <= Limited(Step.rps)
          /\ Step.rps <= startRate => /\ Limited(Step.rps) <= rate'
                                      /\ rate' <= Limited(startRate)
      BY <3>1, <3>2, <3>3, EasedMoves
    <3> QED
      BY <3>1, <3>2, <3>4 DEF Towards, Limited
  <2>2. CASE TickAdjusts
    <3>1. /\ phase = "run" /\ Step' = Step /\ ~DurationPassed /\ IsEasing
          /\ rate' = EasedAt(elapsed)
      BY <2>2 DEF TickAdjusts, Step, SetRateLimit, EasedSince, EasedAt, IsEasing
    <3>2. /\ Step.rps \in Nat /\ Step.rpsEasing \in Easings \ {"none"}
          /\ startRate \in Nat /\ Step.duration \in Nat \ {0} /\ elapsed \in Nat
      BY <1>1, <3>1, EasingStep DEF IsEasing
    <3>3. PICK n \in 0 .. Step.duration : n <= elapsed /\ rate = EasedAt(n)
      BY <1>1, <3>1 DEF EaseInv
    <3>4. elapsed \in 0 .. Step.duration /\ n \in 0 .. elapsed
      BY <3>1, <3>2, <3>3 DEF DurationPassed
    <3>5. /\ rate \in Nat /\ rate' \in Nat
          /\ startRate <= Step.rps => rate <= rate' /\ rate' <= Limited(Step.rps)
          /\ Step.rps <= startRate => Limited(Step.rps) <= rate' /\ rate' <= rate
      BY <3>1, <3>2, <3>3, <3>4, EasedMoves DEF EasedAt
    <3> QED
      BY <3>1, <3>2, <3>5 DEF Towards, Limited
  <2>3. CASE (\E active : TickWaits(active)) \/ StepTime \/ ClaimRep
    <3>1. /\ rate' = rate /\ phase' = phase /\ rate \in Nat /\ Step' = Step
      BY <1>1, <2>3 DEF TickWaits, StepTime, ClaimRep, rateVars, IInv, RunnerInv, Step
    <3>2. phase = "run" /\ Step.rps \in Nat
      BY <1>1, <3>1, EasingStep DEF IsEasing
    <3> QED
      BY <3>1, <3>2 DEF Towards, Limited
  <2>4. CASE BeginPause \/ EndPause \/ \E active : TickEnds(active)
    BY <2>4 DEF BeginPause, EndPause, TickEnds, NextStep, IsEasing
  <2> QED
    BY <1>1, <2>1, <2>2, <2>3, <2>4, NextOfProfile DEF vars, trafficVars
<1> QED
  BY <1>1, EaseInvHolds, PTL DEF Spec, MovesTowardsTarget

LEMMA CancelFactor ==
    ASSUME NEW a \in Int, NEW b \in Int, NEW i \in Nat \ {0}, i * a <= i * b
    PROVE  a <= b
<1> SUFFICES ASSUME a - b - 1 >= 0 PROVE FALSE
  OBVIOUS
<1>1. i * (a - b - 1) >= 0
  BY ProductNat
<1> QED
  BY <1>1

\* What is missing at a tick period before the end is at most twice the linear
\* part of it.
LEMMA PartsLate ==
    ASSUME NEW d \in Nat \ {0}, NEW t \in 0 .. d, NEW n \in (d - t) .. d,
           NEW easing \in Easings \ {"none"}
    PROVE  /\ EasedParts(easing, n, d) \in 0 .. d * d
           /\ d * d - EasedParts(easing, n, d) <= 2 * t * d
<1> DEFINE k == d - t
<1>1. k \in 0 .. n /\ n \in 0 .. d /\ 0 \in 0 .. n /\ d \in 0 .. d
  OBVIOUS
<1>2. /\ EasedParts(easing, k, d) <= EasedParts(easing, n, d)
      /\ EasedParts(easing, n, d) \in 0 .. d * d
      /\ EasedParts(easing, k, d) \in Int
  BY <1>1, PartsGrow, PartsEnd
<1>3. d * d - EasedParts(easing, k, d) <= 2 * t * d
  <2>1. /\ t * d >= 0 /\ t * t >= 0 /\ t * (d - t) >= 0 /\ (d - t) * (d - t) >= 0
    BY ProductNat
  <2>2. CASE easing = "linear"
    BY <2>1, <2>2 DEF EasedParts
  <2>3. CASE easing = "in"
    BY <2>1, <2>3 DEF EasedParts
  <2>4. CASE easing = "out"
    BY <2>1, <2>4 DEF EasedParts
  <2>5. CASE easing = "inOut" /\ 2 * k < d
    <3>1. EasedParts(easing, k, d) = 2 * (d - t) * (d - t)
      BY <2>5 DEF EasedParts
    <3> QED
      BY <2>1, <3>1
  <2>6. CASE easing = "inOut" /\ ~(2 * k < d)
    <3>1. EasedParts(easing, k, d) = (4 * d - 2 * (d - t)) * (d - t) - d * d
      BY <2>6 DEF EasedParts
    <3> QED
      BY <2>1, <3>1
  <2> QED
    BY <2>2, <2>3, <2>4, <2>5, <2>6 DEF Easings
<1> HIDE DEF k
<1> QED
  BY <1>2, <1>3

LEMMA BlendArrives ==
    ASSUME NEW from \in Nat, NEW to \in Nat, NEW d \in Nat \ {0}, NEW t \in Nat,
           NEW p \in 0 .. d * d, d * d - p <= 2 * t * d
    PROVE  LET b == Blend(from, to, p, d * d)
           IN  /\ b \in Int
               /\ from <= to => b <= to /\ d * (to - b - 1) <= 2 * t * (to - from)
               /\ to <= from => to <= b /\ d * (b - to) <= 2 * t * (from - to)
<1> DEFINE D == d * d
           x == from * D + p * (to - from)
           b == x \div D
<1>1. D \in Nat \ {0} /\ x \in Int
  OBVIOUS
<1>2. Blend(from, to, p, d * d) = b
  BY DEF Blend
<1>3. b \in Int /\ D * b <= x /\ x < D * b + D
  <2> HIDE DEF x, D
  <2> QED
    BY <1>1
<1>4. /\ from <= to => b <= to
      /\ to <= from => to <= b
  <2>1. p \in 0 .. p /\ p \in 0 .. D
    BY <1>1
  <2> HIDE DEF D, b, x
  <2> QED
    BY <1>1, <2>1, BlendMoves DEF Blend, b, x
<1> HIDE DEF b
<1>5. ASSUME from <= to PROVE d * (to - b - 1) <= 2 * t * (to - from)
  <2>1. (2 * t * d - (D - p)) * (to - from) >= 0
    BY <1>5, ProductNat
  <2>2. D * (to - b - 1) <= 2 * t * d * (to - from)
    BY <1>3, <2>1
  <2>3. d * (d * (to - b - 1)) <= d * (2 * t * (to - from))
    BY <1>3, <2>2
  <2> DEFINE l == d * (to - b - 1)
             r == 2 * t * (to - from)
  <2>4. l \in Int /\ r \in Int
    BY <1>3
  <2> QED
    BY <2>3, <2>4, CancelFactor
<1>6. ASSUME to <= from PROVE d * (b - to) <= 2 * t * (from - to)
  <2>1. (2 * t * d - (D - p)) * (from - to) >= 0
    BY <1>6, ProductNat
  <2>2. D * (b - to) <= 2 * t * d * (from - to)
    BY <1>3, <2>1
  <2>3. d * (d * (b - to)) <= d * (2 * t * (from - to))
    BY <1>3, <2>2
  <2> DEFINE l == d * (b - to)
             r == 2 * t * (from - to)
  <2>4. l \in Int /\ r \in Int
    BY <1>3
  <2> QED
    BY <2>3, <2>4, CancelFactor
<1> QED
  BY <1>2, <1>3, <1>4, <1>5, <1>6

LEMMA EasedArrives ==
    ASSUME NEW from \in Nat, NEW to \in Nat, NEW d \in Nat \ {0}, NEW t \in 0 .. d,
           NEW n \in (d - t) .. d, NEW easing \in Easings \ {"none"}
    PROVE  (Distance(EasedValue(from, to, n, d, easing), to) - 1) * d
              <= 2 * t * Distance(from, to)
<1> DEFINE p == EasedParts(easing, n, d)
           b == Blend(from, to, p, d * d)
           v == EasedValue(from, to, n, d, easing)
<1>1. p \in 0 .. d * d /\ d * d - p <= 2 * t * d
  BY PartsLate
<1>2. v = AtLeastOne(b, from, to)
  <2>1. n \in 0 .. d
    OBVIOUS
  <2> QED
    BY <2>1, EasedIsBlend
<1>3. /\ b \in Int
      /\ from <= to => b <= to /\ d * (to - b - 1) <= 2 * t * (to - from)
      /\ to <= from => to <= b /\ d * (b - to) <= 2 * t * (from - to)
  <2> HIDE DEF p
  <2>1. t \in Nat
    OBVIOUS
  <2> QED
    BY <1>1, <2>1, BlendArrives
<1> SUFFICES (Distance(v, to) - 1) * d <= 2 * t * Distance(from, to)
  OBVIOUS
<1> HIDE DEF b, v
<1>4. v = IF b < 1 /\ (to > 0 \/ from > 0) THEN 1 ELSE b
  BY <1>2 DEF AtLeastOne
<1>5. CASE v = b /\ from <= to
  <2>1. Distance(v, to) = to - b /\ Distance(from, to) = to - from
    BY <1>3, <1>5 DEF Distance
  <2>2. (to - b - 1) * d <= 2 * t * (to - from)
    BY <1>3, <1>5
  <2> QED
    BY <2>1, <2>2
<1>6. CASE v = b /\ to < from
  <2>1. Distance(v, to) = b - to /\ Distance(from, to) = from - to
    BY <1>3, <1>6 DEF Distance
  <2>2. (b - to - 1) * d <= 2 * t * (from - to)
    BY <1>3, <1>6
  <2> QED
    BY <2>1, <2>2
<1>7. CASE v # b
  <2>1. v = 1 /\ b < 1 /\ (to > 0 \/ from > 0)
    BY <1>4, <1>7
  <2>2. CASE from <= to
    <3>1. Distance(v, to) = to - 1 /\ Distance(from, to) = to - from
      BY <2>1, <2>2 DEF Distance
    <3>2. (to - b - 1) - (to - 2) >= 0
      BY <1>3, <2>1
    <3>3. d * ((to - b - 1) - (to - 2)) >= 0
      BY <1>3, <3>2, ProductNat
    <3>4. (to - 1 - 1) * d <= 2 * t * (to - from)
      BY <1>3, <2>2, <3>3
    <3> QED
      BY <3>1, <3>4
  <2>3. CASE to < from
    <3>1. to = 0 /\ Distance(v, to) = 1 /\ Distance(from, to) = from - to
      BY <1>3, <2>1, <2>3 DEF Distance
    <3>2. (1 - 1) * d <= 2 * t * (from - to)
      BY <2>3, ProductNat
    <3> QED
      BY <3>1, <3>2
  <2> QED
    BY <2>2, <2>3
<1> QED
  BY <1>3, <1>5, <1>6, <1>7

\* A step that eases over its duration ends at its rate, but for twice the linear
\* change of a tick period and the rounding, for every easing, every duration and
\* every tick period within it (workerpool.go:449-456).
THEOREM ArrivesAtTargetHolds == Spec => ArrivesAtTarget
<1> DEFINE Ends == /\ IsEasing /\ phase' # "run" /\ ~RepsUsed
                   /\ Step.duration >= TickPeriod
           Arrives == (Distance(rate, Step.rps) - 1) * Step.duration
                         <= 2 * TickPeriod * Distance(startRate, Step.rps)
<1>1. ASSUME IInv, EaseInv, [Next]_vars
      PROVE  [Ends => Arrives]_profileVars
  <2> SUFFICES ASSUME Ends, profileVars' # profileVars PROVE Arrives
    OBVIOUS
  <2>1. DurationPassed
    BY <1>1, NextOfProfile
       DEF vars, trafficVars, profileVars, IsEasing, BeginStep, TickAdjusts, BeginPause,
           EndPause, TickEnds, TickWaits, StepTime, ClaimRep
  <2>2. /\ Step.rps \in Nat /\ Step.rpsEasing \in Easings \ {"none"}
        /\ startRate \in Nat /\ Step.duration \in Nat \ {0}
        /\ elapsed \in Nat /\ sinceTick \in Nat
    BY <1>1, EasingStep DEF IsEasing
  <2>3. PICK n \in 0 .. Step.duration : n = elapsed - sinceTick /\ rate = EasedAt(n)
    BY <1>1 DEF EaseInv
  <2>4. TickPeriod \in 0 .. Step.duration
    BY <2>2, ProfileAssumption
  <2>5. n \in (Step.duration - TickPeriod) .. Step.duration
    BY <1>1, <2>1, <2>2, <2>3, <2>4 DEF EaseInv, DurationPassed
  <2> QED
    BY <2>2, <2>3, <2>4, <2>5, EasedArrives DEF EasedAt
<1> QED
  BY <1>1, EaseInvHolds, PTL DEF Spec, ArrivesAtTarget

----------------------------------------------------------------------------
(* BacklogDropped: the send times that were reserved since the step began are *)
(* at least the interval of its highest rate apart, and the first is not      *)
(* before the step began.                                                     *)

Gap == Interval(HighestRate)

BeganAt == clock - elapsed

DueBy(N, t) == {w \in N : worker[w].until <= t}

\* The last of K calls and of the send times of N lies so far into the step.
LastReserved(N, K) ==
    IF last < 0 THEN last = -BeganAt /\ K = 0 /\ N = {}
    ELSE (K + Cardinality(N) - 1) * Gap <= last - BeganAt

\* Calls, with the send times that come until t, have had time for since.
HadTime(N, K) ==
    \A t \in Int : t >= clock =>
        (K + Cardinality(DueBy(N, t)) - 1) * Gap <= t - BeganAt

\* C are the waiting workers with a send time from before the step, N those with
\* one of the step; K workers have begun their calls at other times of the step.
Backlog(C, N, K) ==
    /\ C \cap N = {} /\ C \cup N = At("wait")
    /\ stepCalls + Cardinality(C) <= carried + K
    /\ LastReserved(N, K)
    /\ HadTime(N, K)

InLimitedStep == phase = "run" /\ Step.rps > 0

BacklogInv ==
    InLimitedStep =>
        /\ rate >= 1 /\ rate <= HighestRate
        /\ \E C, N \in SUBSET Worker, K \in Nat : Backlog(C, N, K)

LEMMA SomeWorkers ==
    ASSUME NEW N, N \subseteq Worker
    PROVE  IsFiniteSet(N) /\ Cardinality(N) \in Nat
BY WorkerAssumption, FS_Subset, FS_CardinalityType

LEMMA DueAreSome ==
    ASSUME NEW N, N \subseteq Worker, NEW t
    PROVE  /\ DueBy(N, t) \subseteq N /\ Cardinality(DueBy(N, t)) \in Nat
           /\ Cardinality(DueBy(N, t)) <= Cardinality(N)
<1>1. DueBy(N, t) \subseteq N
  BY DEF DueBy
<1> QED
  BY <1>1, SomeWorkers, FS_Subset

LEMMA GapOfRate ==
    ASSUME RatesFit, IInv, RatesInv, phase # "refused", rate >= 1, rate <= HighestRate
    PROVE  /\ Gap \in Nat \ {0} /\ Interval(rate) \in Nat \ {0}
           /\ Gap <= Interval(rate)
<1>1. /\ rate \in Nat \ {0} /\ rate <= Second
      /\ HighestRate \in Nat \ {0} /\ HighestRate <= Second
  BY StepRates DEF HighestRate, Larger, IInv, RunnerInv, RatesInv
<1>2. Gap \in Nat \ {0} /\ Interval(rate) \in Nat \ {0}
  BY <1>1, IntervalPositive DEF Gap
<1>3. HighestRate * Gap <= Second
  BY <1>1, TimeAssumption, DivRoundsDown DEF Gap, Interval
<1>4. Gap * (HighestRate - rate) >= 0
  BY <1>1, <1>2, ProductNat
<1>5. Gap * rate <= Second
  BY <1>1, <1>2, <1>3, <1>4, TimeAssumption
<1>6. Gap <= Interval(rate)
  BY <1>1, <1>2, <1>5, TimeAssumption, QuotientAtLeast DEF Interval
<1> QED
  BY <1>2, <1>6

\* A reservation is at least the gap after the one before.
LEMMA ReservesLater ==
    ASSUME RatesFit, IInv, PacedTypes, RatesInv, InLimitedStep, BacklogInv,
           NEW w \in Worker, Reserve(w)
    PROVE  /\ last' \in Nat
           /\ last < 0 => last' >= -last
           /\ last >= 0 => last' >= last + Gap
<1>1. /\ last \in Int /\ clock \in Nat /\ rate \in Nat \ {0}
      /\ UNCHANGED <<clock, rate, maxCatchup>> /\ maxCatchup \in Nat
  BY DEF Reserve, profileVars, rateVars, timeVars, IInv, RunnerInv, PacedTypes
<1>2. Gap \in Nat /\ Interval(rate) \in Nat /\ Gap <= Interval(rate)
  BY GapOfRate DEF BacklogInv, InLimitedStep
<1>3. last' \in Nat /\ last' >= NextSendTime /\ NextSendTime \in Nat
  <2>1. \/ last' = NextSendTime
        \/ /\ TooFarBehind(NextSendTime, clock, maxCatchup)
           /\ last' = clock - maxCatchup
    BY DEF Reserve
  <2> QED
    BY <1>1, <2>1, ReserveMovesOn, NextSendNat
<1>4. NextSendTime = IF last < 0 THEN -last ELSE last + Interval(rate)
  BY DEF NextSendTime, NextSend
<1> QED
  BY <1>1, <1>2, <1>3, <1>4

\* Who waits for a send time after a worker has gone on.
LEMMA GotoWaits ==
    ASSUME PacedTypes, NEW w \in Worker, NEW place, Goto(w, place)
    PROVE  /\ \A v \in Worker \ {w} : worker'[v] = worker[v]
           /\ worker'[w] = place
           /\ place.at = "wait" => At("wait")' = At("wait") \cup {w}
           /\ place.at # "wait" => At("wait")' = At("wait") \ {w}
BY DEF Goto, PacedTypes, At

\* The workers that are due, when one of them changes.
LEMMA DueUnchanged ==
    ASSUME NEW N, NEW t, \A v \in N : worker'[v] = worker[v]
    PROVE  DueBy(N, t)' = DueBy(N, t)
BY DEF DueBy

\* Workers that do not wait for a send time are of no account.
LEMMA BacklogUnchanged ==
    ASSUME UNCHANGED <<carried, last, clock, elapsed>>, Gap' = Gap,
           At("wait")' = At("wait"), stepCalls' = stepCalls,
           \A v \in At("wait") : worker'[v] = worker[v],
           NEW C, NEW N, NEW K, Backlog(C, N, K)
    PROVE  Backlog(C, N, K)'
<1>1. N \subseteq At("wait") /\ BeganAt' = BeganAt
  BY DEF Backlog, BeganAt
<1>2. \A t \in Int : DueBy(N, t)' = DueBy(N, t)
  BY <1>1, DueUnchanged
<1> QED
  BY <1>1, <1>2 DEF Backlog, LastReserved, HadTime

\* A worker with a send time from before the step begins its call.
LEMMA OldSendCounts ==
    ASSUME PacedTypes, NEW C \in SUBSET Worker, NEW N \in SUBSET Worker,
           NEW K \in Nat, Backlog(C, N, K),
           UNCHANGED <<carried, last, clock, elapsed>>, Gap' = Gap,
           NEW w \in C, stepCalls' \in Int, stepCalls' <= stepCalls + 1,
           \A v \in Worker \ {w} : worker'[v] = worker[v],
           At("wait")' = At("wait") \ {w}
    PROVE  Backlog(C \ {w}, N, K)'
<1>1. Cardinality(C \ {w}) = Cardinality(C) - 1 /\ Cardinality(C) \in Nat
  BY SomeWorkers, FS_RemoveElement
<1>2. w \notin N /\ BeganAt' = BeganAt
  BY DEF Backlog, BeganAt
<1>3. \A t \in Int : DueBy(N, t)' = DueBy(N, t)
  BY <1>2, DueUnchanged
<1>4. (C \ {w}) \cap N = {} /\ (C \ {w}) \cup N = At("wait")'
  BY <1>2 DEF Backlog
<1>5. stepCalls' + Cardinality(C \ {w}) <= carried' + K
  BY <1>1 DEF Backlog, PacedTypes
<1>6. LastReserved(N, K)' /\ HadTime(N, K)'
  BY <1>2, <1>3 DEF Backlog, LastReserved, HadTime
<1> QED
  BY <1>4, <1>5, <1>6 DEF Backlog

\* A worker with a send time of the step begins its call when that has come.
LEMMA NewSendCounts ==
    ASSUME PacedTypes, clock \in Int, NEW C \in SUBSET Worker, NEW N \in SUBSET Worker,
           NEW K \in Nat, Backlog(C, N, K),
           UNCHANGED <<carried, last, clock, elapsed>>, Gap' = Gap,
           NEW w \in N, worker[w].until <= clock, worker[w].until \in Int,
           stepCalls' \in Int, stepCalls' <= stepCalls + 1,
           \A v \in Worker \ {w} : worker'[v] = worker[v],
           At("wait")' = At("wait") \ {w}
    PROVE  Backlog(C, N \ {w}, K + 1)'
<1>1. Cardinality(N \ {w}) = Cardinality(N) - 1 /\ Cardinality(N) \in Nat
  BY SomeWorkers, FS_RemoveElement
<1>2. w \notin C /\ BeganAt' = BeganAt /\ Cardinality(C) \in Nat
  BY SomeWorkers DEF Backlog, BeganAt
<1>3. C \cap (N \ {w}) = {} /\ C \cup (N \ {w}) = At("wait")'
  BY <1>2 DEF Backlog
<1>4. stepCalls' + Cardinality(C) <= carried' + (K + 1)
  BY <1>2 DEF Backlog, PacedTypes
<1>5. ~(last < 0) /\ (K + Cardinality(N) - 1) * Gap <= last - BeganAt
  BY DEF Backlog, LastReserved
<1>6. ASSUME NEW t \in Int, t >= clock
      PROVE  ((K + 1) + Cardinality(DueBy(N \ {w}, t)') - 1) * Gap <= t - BeganAt
  <2>1. DueBy(N \ {w}, t)' = DueBy(N, t) \ {w} /\ w \in DueBy(N, t)
    BY <1>6 DEF DueBy
  <2>2. DueBy(N, t) \subseteq Worker
    BY DEF DueBy
  <2>3. /\ Cardinality(DueBy(N, t) \ {w}) = Cardinality(DueBy(N, t)) - 1
        /\ Cardinality(DueBy(N, t)) \in Nat
    BY <2>1, <2>2, SomeWorkers, FS_RemoveElement
  <2>4. PICK c \in Nat : c = Cardinality(DueBy(N, t))
    BY <2>3
  <2>5. Cardinality(DueBy(N \ {w}, t)') = c - 1
    BY <2>1, <2>3, <2>4
  <2>6. (K + 1) + (c - 1) - 1 = K + c - 1
    BY <2>4
  <2>7. (K + c - 1) * Gap <= t - BeganAt
    BY <1>6, <2>4 DEF Backlog, HadTime
  <2> QED
    BY <2>5, <2>6, <2>7
<1>7. (K + 1) + Cardinality(N \ {w}) - 1 = K + Cardinality(N) - 1
  BY <1>1
<1>8. LastReserved(N \ {w}, K + 1)'
  BY <1>2, <1>5, <1>7 DEF LastReserved
<1>9. HadTime(N \ {w}, K + 1)'
  BY <1>2, <1>6 DEF HadTime
<1> QED
  BY <1>3, <1>4, <1>8, <1>9 DEF Backlog

\* A reservation has room for all those before it.
LEMMA ReservationFits ==
    ASSUME last \in Int, last' \in Int, Gap \in Nat, BeganAt \in Int,
           last < 0 => last' >= -last, last >= 0 => last' >= last + Gap,
           NEW C, NEW N \in SUBSET Worker, NEW K \in Nat, Backlog(C, N, K)
    PROVE  (K + Cardinality(N)) * Gap <= last' - BeganAt
<1>1. CASE last < 0
  <2>1. K = 0 /\ N = {} /\ last = -BeganAt
    BY <1>1 DEF Backlog, LastReserved
  <2>2. K + Cardinality(N) = 0
    BY <2>1, FS_EmptySet
  <2>3. last' - BeganAt >= 0
    <3>1. PICK b \in Int : BeganAt = b
      OBVIOUS
    <3>2. PICK k \in Int : last' = k
      OBVIOUS
    <3>3. last = -b /\ last' >= -last
      BY <1>1, <2>1, <3>1
    <3>4. k >= -(-b)
      BY <3>2, <3>3
    <3>5. k - b >= 0
      BY <3>1, <3>2, <3>4
    <3> QED
      BY <3>1, <3>2, <3>5
  <2>4. 0 * Gap = 0
    OBVIOUS
  <2> QED
    BY <2>2, <2>3, <2>4
<1>2. CASE last >= 0
  <2>1. PICK c \in Nat : c = Cardinality(N)
    BY SomeWorkers
  <2>2. (K + c - 1) * Gap <= last - BeganAt
    BY <1>2, <2>1 DEF Backlog, LastReserved
  <2>3. (K + c) * Gap <= last' - BeganAt
    BY <1>2, <2>1, <2>2
  <2> QED
    BY <2>1, <2>3
<1> QED
  BY <1>1, <1>2

LEMMA ReserveWaitCounts ==
    ASSUME PacedTypes, clock \in Int, elapsed \in Int, Gap \in Nat \ {0},
           NEW C \in SUBSET Worker, NEW N \in SUBSET Worker,
           NEW K \in Nat, Backlog(C, N, K),
           UNCHANGED <<carried, clock, elapsed>>, Gap' = Gap, stepCalls' = stepCalls,
           last' \in Nat, last < 0 => last' >= -last, last >= 0 => last' >= last + Gap,
           NEW w \in Worker, w \notin At("wait"), worker'[w].until = last',
           \A v \in Worker \ {w} : worker'[v] = worker[v],
           At("wait")' = At("wait") \cup {w}
    PROVE  Backlog(C, N \cup {w}, K)'
<1>1. w \notin N /\ w \notin C /\ BeganAt' = BeganAt /\ BeganAt \in Int
  BY DEF Backlog, BeganAt
<1>2. C \cap (N \cup {w}) = {} /\ C \cup (N \cup {w}) = At("wait")'
  BY <1>1 DEF Backlog
<1>3. (K + Cardinality(N)) * Gap <= last' - BeganAt
  BY <1>1, ReservationFits DEF PacedTypes
<1>4. PICK c \in Nat : c = Cardinality(N)
  BY SomeWorkers
<1>5. Cardinality(N \cup {w}) = c + 1
  BY <1>1, <1>4, SomeWorkers, FS_AddElement
<1>6. (K + Cardinality(N \cup {w}) - 1) * Gap <= last' - BeganAt
  <2>1. K + (c + 1) - 1 = K + c
    BY <1>4
  <2> QED
    BY <1>3, <1>4, <1>5, <2>1
<1>7. ASSUME NEW t \in Int, t >= clock
      PROVE  (K + Cardinality(DueBy(N \cup {w}, t)') - 1) * Gap <= t - BeganAt
  <2>1. CASE t < last'
    <3>1. DueBy(N \cup {w}, t)' = DueBy(N, t)
      BY <1>1, <2>1 DEF DueBy
    <3> QED
      BY <1>7, <3>1 DEF Backlog, HadTime
  <2>2. CASE t >= last'
    <3>1. DueBy(N \cup {w}, t)' \subseteq N \cup {w}
      BY DEF DueBy
    <3> DEFINE D == DueBy(N \cup {w}, t)'
    <3>0. /\ IsFiniteSet(N \cup {w}) /\ D \subseteq Worker
          /\ Cardinality(N \cup {w}) \in Nat /\ Cardinality(D) \in Nat
      <4>1. N \cup {w} \subseteq Worker /\ D \subseteq Worker
        BY <3>1
      <4> QED
        BY <4>1, SomeWorkers
    <3>2. PICK e \in Nat : e = Cardinality(D) /\ e <= c + 1
      <4>1. Cardinality(D) <= Cardinality(N \cup {w})
        BY <3>0, <3>1, FS_Subset
      <4> QED
        BY <1>5, <3>0, <4>1
    <3>3. ((c + 1) - e) * Gap >= 0
      BY <1>4, <3>2, ProductNat
    <3>4. (K + c) * Gap <= t - BeganAt
      BY <1>1, <1>3, <1>4, <2>2
    <3>5. (K + e - 1) * Gap <= t - BeganAt
      BY <1>1, <1>4, <3>2, <3>3, <3>4
    <3> QED
      BY <3>2, <3>5
  <2> QED
    BY <2>1, <2>2
<1>8. stepCalls' + Cardinality(C) <= carried' + K
  <2>1. stepCalls + Cardinality(C) <= carried + K
    BY DEF Backlog
  <2>2. stepCalls' = stepCalls /\ carried' = carried
    OBVIOUS
  <2> QED
    BY <2>1, <2>2
<1>9. LastReserved(N \cup {w}, K)'
  BY <1>1, <1>6 DEF LastReserved
<1>10. HadTime(N \cup {w}, K)'
  BY <1>1, <1>7 DEF HadTime
<1> QED
  BY <1>2, <1>8, <1>9, <1>10 DEF Backlog

LEMMA ReserveCallCounts ==
    ASSUME PacedTypes, clock \in Int, elapsed \in Int, Gap \in Nat \ {0},
           NEW C \in SUBSET Worker, NEW N \in SUBSET Worker,
           NEW K \in Nat, Backlog(C, N, K),
           UNCHANGED <<carried, clock, elapsed>>, Gap' = Gap,
           stepCalls' \in Int, stepCalls' <= stepCalls + 1,
           last' \in Nat, last < 0 => last' >= -last, last >= 0 => last' >= last + Gap,
           last' <= clock, At("wait")' = At("wait"),
           \A v \in At("wait") : worker'[v] = worker[v]
    PROVE  Backlog(C, N, K + 1)'
<1>1. BeganAt' = BeganAt /\ BeganAt \in Int /\ N \subseteq At("wait")
  BY DEF Backlog, BeganAt
<1>2. (K + Cardinality(N)) * Gap <= last' - BeganAt
  BY <1>1, ReservationFits DEF PacedTypes
<1>3. PICK c \in Nat : c = Cardinality(N)
  BY SomeWorkers
<1>4. (K + 1) + Cardinality(N) - 1 = K + Cardinality(N)
  BY <1>3
<1>5. ASSUME NEW t \in Int, t >= clock
      PROVE  ((K + 1) + Cardinality(DueBy(N, t)') - 1) * Gap <= t - BeganAt
  <2>1. DueBy(N, t)' = DueBy(N, t)
    BY <1>1, DueUnchanged
  <2>2. PICK e \in Nat : e = Cardinality(DueBy(N, t)) /\ e <= c
    BY <1>3, DueAreSome
  <2>3. (c - e) * Gap >= 0
    BY <1>3, <2>2, ProductNat
  <2>4. (K + c) * Gap <= t - BeganAt
    BY <1>1, <1>2, <1>3, <1>5
  <2>5. ((K + 1) + e - 1) * Gap <= t - BeganAt
    BY <1>1, <1>3, <2>2, <2>3, <2>4
  <2> QED
    BY <2>1, <2>2, <2>5
<1>6. stepCalls' + Cardinality(C) <= carried' + (K + 1)
  <2>1. Cardinality(C) \in Nat /\ carried \in Int /\ stepCalls \in Int
    BY SomeWorkers, WorkerAssumption, FS_CardinalityType DEF PacedTypes
  <2> QED
    BY <2>1 DEF Backlog
<1>7. LastReserved(N, K + 1)'
  BY <1>1, <1>2, <1>4 DEF LastReserved
<1>8. HadTime(N, K + 1)'
  BY <1>1, <1>5 DEF HadTime
<1>9. C \cap N = {} /\ C \cup N = At("wait")'
  BY DEF Backlog
<1> QED
  BY <1>6, <1>7, <1>8, <1>9 DEF Backlog

LEMMA CallCounts ==
    ASSUME PacedTypes, NEW w \in Worker, BeginCall(w)
    PROVE  /\ stepCalls' \in Int /\ stepCalls' <= stepCalls + 1
           /\ \A v \in Worker \ {w} : worker'[v] = worker[v]
           /\ At("wait")' = At("wait") \ {w}
           /\ carried' = carried
<1>1. /\ \A v \in Worker \ {w} : worker'[v] = worker[v]
      /\ At("wait")' = At("wait") \ {w} /\ carried' = carried
  BY GotoWaits DEF BeginCall, Calling
<1>2. stepCalls' = stepCalls \/ stepCalls' = SaturatingAdd(stepCalls, 1)
  BY DEF BeginCall
<1>3. stepCalls \in 0 .. MaxCalls
  BY DEF PacedTypes
<1>4. stepCalls' \in Int /\ stepCalls' <= stepCalls + 1
  <2>1. PICK n \in 0 .. MaxCalls : n = stepCalls
    BY <1>3
  <2>2. 1 \in Nat /\ MaxCalls \in Nat
    BY WorkerAssumption
  <2>3. SaturatingAdd(n, 1) \in 0 .. MaxCalls /\ SaturatingAdd(n, 1) <= n + 1
    BY <2>2, AddTyped
  <2> QED
    BY <1>2, <2>1, <2>2, <2>3
<1> QED
  BY <1>1, <1>4

LEMMA WorkerKeepsBacklog ==
    ASSUME RatesFit, IInv, PacedTypes, RatesInv, BacklogInv,
           NEW w \in Worker, WorkerStep(w)
    PROVE  BacklogInv'
<1> SUFFICES ASSUME InLimitedStep' PROVE BacklogInv'
  BY DEF BacklogInv
<1>1. /\ UNCHANGED <<phase, profile, step, startRate, rate, clock, elapsed>>
      /\ carried' = carried
  BY DEF WorkerStep, Leave, Claim, ClaimRep, TakeUnlimited, TryLater, Reserve,
         Send, EndCall, profileVars, rateVars, timeVars, startVars, historyVars,
         BeginCall
<1>2. /\ InLimitedStep /\ HighestRate' = HighestRate /\ Gap' = Gap /\ Step' = Step
      /\ phase # "refused"
  BY <1>1 DEF InLimitedStep, Step, HighestRate, Gap
<1>3. /\ clock \in Int /\ elapsed \in Int /\ last \in Int
      /\ worker \in [Worker -> Places]
  BY DEF IInv, RunnerInv, PacedTypes
<1>4. Gap \in Nat \ {0} /\ rate >= 1
  BY <1>2, GapOfRate DEF BacklogInv
<1>5. PICK C \in SUBSET Worker, N \in SUBSET Worker, K \in Nat : Backlog(C, N, K)
  BY <1>2 DEF BacklogInv
<1>6. SUFFICES \E D, M \in SUBSET Worker, L \in Nat : Backlog(D, M, L)'
  BY <1>1, <1>2 DEF BacklogInv
<1>7. CASE \/ Leave(w) \/ Claim(w) \/ TryLater(w) \/ EndCall(w)
  <2>1. /\ worker[w].at # "wait" /\ last' = last /\ stepCalls' = stepCalls
        /\ \E place : Goto(w, place) /\ place.at # "wait"
    BY <1>7 DEF Leave, Claim, TryLater, EndCall, Tries, None, Free, Calling,
                historyVars
  <2>2. /\ \A v \in Worker \ {w} : worker'[v] = worker[v]
        /\ At("wait")' = At("wait")
    BY <2>1, GotoWaits DEF At
  <2>3. \A v \in At("wait") : worker'[v] = worker[v]
    BY <2>1, <2>2 DEF At
  <2>4. Backlog(C, N, K)'
    BY <1>1, <1>2, <1>5, <2>1, <2>2, <2>3, BacklogUnchanged
  <2> QED
    BY <1>5, <2>4
<1>8. CASE TakeUnlimited(w)
  BY <1>4, <1>8 DEF TakeUnlimited
<1>9. CASE Send(w)
  <2>1. /\ last' = last /\ w \in At("wait") /\ worker[w].until <= clock
        /\ BeginCall(w)
    BY <1>9 DEF Send, SendTimeCame, At
  <2>2. /\ stepCalls' \in Int /\ stepCalls' <= stepCalls + 1
        /\ \A v \in Worker \ {w} : worker'[v] = worker[v]
        /\ At("wait")' = At("wait") \ {w}
    BY <2>1, CallCounts
  <2>3. worker[w].until \in Int
    BY <1>3, <2>1 DEF Places, None, Free, Calling, At
  <2>4. CASE w \in C
    <3>1. Backlog(C \ {w}, N, K)'
      BY <1>1, <1>2, <1>5, <2>1, <2>2, <2>4, OldSendCounts
    <3> QED
      BY <1>5, <3>1
  <2>5. CASE w \in N
    <3>1. Backlog(C, N \ {w}, K + 1)'
      BY <1>1, <1>2, <1>3, <1>5, <2>1, <2>2, <2>3, <2>5, NewSendCounts
    <3>2. N \ {w} \in SUBSET Worker /\ K + 1 \in Nat
      BY <1>5
    <3> QED
      BY <1>5, <3>1, <3>2
  <2>6. w \in C \cup N
    BY <1>5, <2>1 DEF Backlog
  <2> QED
    BY <2>4, <2>5, <2>6
<1>10. CASE Reserve(w)
  <2>1. /\ last' \in Nat
        /\ last < 0 => last' >= -last
        /\ last >= 0 => last' >= last + Gap
    BY <1>2, <1>10, ReservesLater
  <2>2. w \notin At("wait")
    BY <1>10 DEF Reserve, Tries, At
  <2>3. CASE last' > clock
    <3> DEFINE place == [at |-> "wait", until |-> last']
    <3>1. Goto(w, place) /\ stepCalls' = stepCalls
      BY <1>10, <2>3 DEF Reserve, historyVars
    <3>2. place.at = "wait" /\ place.until = last'
      OBVIOUS
    <3> HIDE DEF place
    <3>3. /\ \A v \in Worker \ {w} : worker'[v] = worker[v]
          /\ worker'[w].until = last' /\ At("wait")' = At("wait") \cup {w}
      BY <3>1, <3>2, GotoWaits
    <3>4. Backlog(C, N \cup {w}, K)'
      BY <1>1, <1>2, <1>3, <1>4, <1>5, <2>1, <2>2, <3>1, <3>3, ReserveWaitCounts
    <3>5. N \cup {w} \in SUBSET Worker
      BY <1>5
    <3> QED
      BY <1>5, <3>4, <3>5
  <2>4. CASE ~(last' > clock)
    <3>1. BeginCall(w) /\ last' <= clock
      BY <1>3, <1>10, <2>1, <2>4 DEF Reserve
    <3>2. /\ stepCalls' \in Int /\ stepCalls' <= stepCalls + 1
          /\ At("wait")' = At("wait")
          /\ \A v \in At("wait") : worker'[v] = worker[v]
      BY <2>2, <3>1, CallCounts DEF At
    <3>3. Backlog(C, N, K + 1)'
      BY <1>1, <1>2, <1>3, <1>4, <1>5, <2>1, <3>1, <3>2, ReserveCallCounts
    <3>4. K + 1 \in Nat
      BY <1>5
    <3> QED
      BY <1>5, <3>3, <3>4
  <2> QED
    BY <2>3, <2>4
<1> QED
  BY <1>7, <1>8, <1>9, <1>10 DEF WorkerStep

LEMMA SpawnWaits ==
    ASSUME worker \in [Worker -> Places], NEW n, Spawn(n)
    PROVE  /\ At("wait")' = At("wait")
           /\ \A v \in At("wait") : worker'[v] = worker[v]
<1>1. PICK new \in SUBSET (Worker \ Active) :
         worker' = [w \in Worker |-> IF w \in new THEN Free ELSE worker[w]]
  BY DEF Spawn, kSubset
<1>2. new \cap At("wait") = {}
  BY <1>1 DEF Active, At, None
<1> QED
  BY <1>1, <1>2 DEF At, Free

\* The rates of a step lie within those it starts from and ends at.
LEMMA RateWithinStep ==
    ASSUME IInv, phase # "refused", Step.rps > 0,
           NEW d \in Nat \ {0}, NEW n \in 0 .. d
    PROVE  LET r == EasedValue(startRate, Step.rps, n, d, Step.rpsEasing)
           IN  r >= 1 /\ r <= HighestRate
<1>1. /\ Step.rps \in Nat \ {0} /\ Step.rpsEasing \in Easings /\ startRate \in Nat
  <2>1. RunnerInv
    BY DEF IInv
  <2>2. startRate \in Nat
    BY <2>1 DEF RunnerInv
  <2> QED
    BY <2>1, <2>2, StepIsValid DEF Steps
<1>2. /\ HighestRate \in Nat \ {0} /\ startRate <= HighestRate
      /\ Step.rps <= HighestRate
  BY <1>1 DEF HighestRate, Larger
<1>3. n \in Nat
  OBVIOUS
<1>4. EasedValue(startRate, Step.rps, n, d, Step.rpsEasing) >= 1
  BY <1>1, <1>3, EasedValueIsPositive
<1>5. EasedValue(startRate, Step.rps, n, d, Step.rpsEasing) <= HighestRate
  BY <1>1, <1>2, EasedAtMost
<1> QED
  BY <1>4, <1>5

LEMMA BeginKeepsBacklog ==
    ASSUME RatesFit, IInv, PacedTypes, RatesInv, RunnerBegins, InLimitedStep'
    PROVE  BacklogInv'
<1>1. /\ Step' = Step /\ startRate' = startRate /\ clock' = clock /\ elapsed' = 0
      /\ phase # "refused" /\ last' = -clock /\ stepCalls' = 0
      /\ rate' = EasedValue(startRate, Step.rps, 0, 1, Step.rpsEasing)
      /\ carried' = Cardinality(At("wait")) /\ \E n : Spawn(n)
  BY DEF RunnerBegins, BeginStep, Step, startVars, SetRateLimit, LastAtBegin,
         AfterReset
<1>2. Step.rps > 0 /\ HighestRate' = HighestRate /\ Gap' = Gap
  BY <1>1 DEF InLimitedStep, HighestRate, Gap
<1>3. rate' >= 1 /\ rate' <= HighestRate
  <2>1. 0 \in 0 .. 1 /\ 1 \in Nat \ {0}
    OBVIOUS
  <2> QED
    BY <1>1, <1>2, <2>1, RateWithinStep
<1>4. At("wait")' = At("wait") /\ At("wait") \in SUBSET Worker
  BY <1>1, SpawnWaits DEF PacedTypes, At
<1>5. PICK C \in SUBSET Worker : C = At("wait")
  BY <1>4
<1>6. Cardinality(C) \in Nat
  BY SomeWorkers
<1>7. clock \in Nat \ {0}
  BY DEF IInv, RunnerInv
<1>8. Gap \in Nat
  <2>1. HighestRate \in Nat \ {0} /\ HighestRate <= Second
    BY <1>1, <1>2, StepRates DEF HighestRate, Larger
  <2> QED
    BY <2>1, IntervalPositive DEF Gap
<1>9. BeganAt' = clock
  BY <1>1, <1>7 DEF BeganAt
<1>10. LastReserved({}, 0)'
  BY <1>1, <1>7, <1>9 DEF LastReserved
<1>11. ASSUME NEW t \in Int, t >= clock
       PROVE  (0 + Cardinality(DueBy({}, t)') - 1) * Gap <= t - clock
  <2>1. DueBy({}, t)' = {}
    BY DEF DueBy
  <2>2. (0 + 0 - 1) * Gap <= t - clock
    BY <1>7, <1>8, <1>11
  <2> QED
    BY <2>1, <2>2, FS_EmptySet
<1>12. HadTime({}, 0)'
  BY <1>1, <1>2, <1>9, <1>11 DEF HadTime
<1>13. stepCalls' + Cardinality(C) <= carried' + 0
  BY <1>1, <1>5, <1>6
<1>14. Backlog(C, {}, 0)'
  BY <1>4, <1>5, <1>10, <1>12, <1>13 DEF Backlog
<1>15. {} \in SUBSET Worker /\ 0 \in Nat
  OBVIOUS
<1> QED
  BY <1>2, <1>3, <1>5, <1>14, <1>15 DEF BacklogInv

LEMMA AdjustKeepsBacklog ==
    ASSUME IInv, PacedTypes, BacklogInv, RunnerAdjusts, InLimitedStep'
    PROVE  BacklogInv'
<1>1. /\ Step' = Step /\ startRate' = startRate /\ phase = "run"
      /\ UNCHANGED <<carried, last, clock, elapsed, stepCalls>>
      /\ rate' = IF Step.rpsEasing = "none" THEN rate
                 ELSE EasedValue(startRate, Step.rps, elapsed, Step.duration,
                                 Step.rpsEasing)
      /\ ~DurationPassed /\ \E n : Spawn(n)
  BY DEF RunnerAdjusts, TickAdjusts, Step, startVars, SetRateLimit, EasedSince
<1>2. /\ InLimitedStep /\ Step.rps > 0 /\ HighestRate' = HighestRate /\ Gap' = Gap
  BY <1>1 DEF InLimitedStep, HighestRate, Gap
<1>3. rate' >= 1 /\ rate' <= HighestRate
  <2>1. CASE Step.rpsEasing = "none"
    BY <1>1, <1>2, <2>1 DEF BacklogInv
  <2>2. CASE Step.rpsEasing # "none"
    <3>1. Step.duration \in Nat \ {0} /\ elapsed \in Nat
      BY <1>1, <2>2, EasingStep
    <3>2. elapsed \in 0 .. Step.duration
      BY <1>1, <3>1 DEF DurationPassed
    <3> QED
      BY <1>1, <1>2, <2>2, <3>1, <3>2, RateWithinStep
  <2> QED
    BY <2>1, <2>2
<1>4. /\ At("wait")' = At("wait")
      /\ \A v \in At("wait") : worker'[v] = worker[v]
  BY <1>1, SpawnWaits DEF PacedTypes
<1>5. PICK C \in SUBSET Worker, N \in SUBSET Worker, K \in Nat : Backlog(C, N, K)
  BY <1>2 DEF BacklogInv
<1>6. Backlog(C, N, K)'
  BY <1>1, <1>2, <1>4, <1>5, BacklogUnchanged
<1> QED
  BY <1>2, <1>3, <1>5, <1>6 DEF BacklogInv

LEMMA TimeKeepsBacklog ==
    ASSUME IInv, BacklogInv, TimePasses, InLimitedStep'
    PROVE  BacklogInv'
<1>1. /\ Step' = Step /\ UNCHANGED <<startRate, rate, phase, worker, carried, last,
                                      stepCalls>>
      /\ clock' = clock + 1 /\ elapsed' = elapsed + 1
      /\ clock \in Int /\ elapsed \in Int
  BY DEF TimePasses, StepTime, Step, startVars, rateVars, IInv, RunnerInv
<1>2. /\ InLimitedStep /\ HighestRate' = HighestRate /\ Gap' = Gap
      /\ BeganAt' = BeganAt /\ At("wait")' = At("wait")
  BY <1>1 DEF InLimitedStep, HighestRate, Gap, BeganAt, At
<1>3. PICK C \in SUBSET Worker, N \in SUBSET Worker, K \in Nat : Backlog(C, N, K)
  BY <1>2 DEF BacklogInv
<1>4. LastReserved(N, K)'
  BY <1>1, <1>2, <1>3 DEF Backlog, LastReserved
<1>5. HadTime(N, K)'
  <2>1. \A t \in Int : DueBy(N, t)' = DueBy(N, t)
    BY <1>1 DEF DueBy
  <2>2. \A t \in Int : t >= clock' => t >= clock
    BY <1>1
  <2> QED
    BY <1>2, <1>3, <2>1, <2>2 DEF Backlog, HadTime
<1>6. Backlog(C, N, K)'
  BY <1>1, <1>2, <1>3, <1>4, <1>5 DEF Backlog
<1> QED
  BY <1>1, <1>2, <1>3, <1>6 DEF BacklogInv

LEMMA BacklogInvInductive ==
    ASSUME RatesFit, IInv, PacedTypes, RatesInv, BacklogInv, [Next]_vars
    PROVE  BacklogInv'
<1> SUFFICES ASSUME InLimitedStep' PROVE BacklogInv'
  BY DEF BacklogInv
<1>1. ASSUME UNCHANGED <<phase, profile, step, startRate, rate, clock, elapsed, worker,
                          last, stepCalls, carried>>
      PROVE  BacklogInv'
  <2>1. /\ InLimitedStep /\ HighestRate' = HighestRate /\ Gap' = Gap
        /\ At("wait")' = At("wait")
    BY <1>1 DEF InLimitedStep, Step, HighestRate, Gap, At
  <2>2. PICK C \in SUBSET Worker, N \in SUBSET Worker, K \in Nat : Backlog(C, N, K)
    BY <2>1 DEF BacklogInv
  <2>3. Backlog(C, N, K)'
    BY <1>1, <2>1, <2>2, BacklogUnchanged
  <2> QED
    BY <1>1, <2>1, <2>2, <2>3 DEF BacklogInv
<1>2. CASE UNCHANGED trafficVars
  BY <1>1, <1>2 DEF trafficVars, profileVars, rateVars, timeVars, startVars,
                    pacedVars, historyVars
<1>3. CASE RunnerMovesOn
  BY <1>1, <1>3 DEF RunnerMovesOn, BeginPause, EndPause, TickEnds, TickWaits, NextStep,
                    InLimitedStep, rateVars, startVars, pacedVars, historyVars
<1>4. CASE RunnerBegins
  BY <1>4, BeginKeepsBacklog
<1>5. CASE RunnerAdjusts
  BY <1>5, AdjustKeepsBacklog
<1>6. ASSUME NEW w \in Worker, WorkerStep(w) PROVE BacklogInv'
  BY <1>6, WorkerKeepsBacklog
<1>7. CASE TimePasses
  BY <1>7, TimeKeepsBacklog
<1> QED
  BY <1>2, <1>3, <1>4, <1>5, <1>6, <1>7 DEF Next, TrafficNext, Ended, vars

\* As long as no rate is above one request per unit of time, a step sends no more
\* requests than it has had time for at its rate, for every profile, every number
\* of workers, and however far the step before it had fallen behind
\* (rate_limiter.go:72-76, workerpool.go:407-408).
THEOREM BacklogDroppedHolds == RatesFit => (Spec => []BacklogDropped)
<1> SUFFICES ASSUME RatesFit PROVE Spec => []BacklogDropped
  OBVIOUS
<1>1. Init => RatesInv /\ BacklogInv
  <2>1. Init => BacklogInv
    BY DEF Init, InitTraffic, InitProfile, BacklogInv, InLimitedStep
  <2> QED
    BY <2>1, InitRatesInv
<1>2. IInv /\ PacedTypes /\ RatesInv /\ BacklogInv /\ [Next]_vars
         => RatesInv' /\ BacklogInv'
  BY RatesInvInductive, BacklogInvInductive
<1>3. IInv /\ PacedTypes /\ RatesInv /\ BacklogInv => BacklogDropped
  <2> SUFFICES ASSUME IInv, PacedTypes, RatesInv, BacklogInv, InLimitedStep
               PROVE  stepCalls <= carried + 1 + elapsed \div Gap
    BY DEF BacklogDropped, InLimitedStep, Gap
  <2>1. PICK C \in SUBSET Worker, N \in SUBSET Worker, K \in Nat : Backlog(C, N, K)
    BY DEF BacklogInv
  <2>2. PICK g \in Nat \ {0} : g = Gap
    BY GapOfRate DEF BacklogInv, InLimitedStep
  <2>3. /\ clock \in Int /\ elapsed \in Int /\ carried \in Int /\ stepCalls \in Int
        /\ Cardinality(C) \in Nat
    BY SomeWorkers DEF IInv, RunnerInv, PacedTypes
  <2>4. PICK e \in Nat : e = Cardinality(DueBy(N, clock))
    BY DueAreSome
  <2>5. (K + e - 1) * g <= elapsed
    <3>1. (K + e - 1) * g <= clock - BeganAt
      BY <2>1, <2>2, <2>3, <2>4 DEF Backlog, HadTime
    <3> QED
      BY <2>3, <3>1 DEF BeganAt
  <2>6. (K - 1) * g <= elapsed
    <3>1. e * g >= 0
      BY ProductNat
    <3> QED
      BY <2>3, <2>5, <3>1
  <2>7. elapsed \div g \in Int /\ K - 1 <= elapsed \div g
    BY <2>3, <2>6, QuotientAtLeast
  <2>8. stepCalls + Cardinality(C) <= carried + K
    BY <2>1 DEF Backlog
  <2>9. stepCalls <= carried + 1 + elapsed \div g
    BY <2>3, <2>7, <2>8
  <2> QED
    BY <2>2, <2>9
<1> QED
  BY <1>1, <1>2, <1>3, IInvHolds, PacedTypesHold, PTL DEF Spec

=============================================================================
