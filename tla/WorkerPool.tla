------------------------------ MODULE WorkerPool ------------------------------
(***************************************************************************)
(* The worker pool of src/worker/workerpool.go: the goroutine that runs    *)
(* the traffic profile (the runner), the worker goroutines, the API used   *)
(* by step hooks, worker hooks, worker functions and other goroutines      *)
(* (SetConcurrency, SetWorker, Stop, Abort), cancellation of the parent    *)
(* context, pauses, and Wait.                                              *)
(* Every atomic access to a shared field is an action.                     *)
(*                                                                         *)
(* Rates and pacing are in RequestScheduler: here Take is a wait of any    *)
(* length that notices the cancelled context.                              *)
(***************************************************************************)
EXTENDS Integers, Sequences, FiniteSets

CONSTANTS
    Worker,       \* slots for worker goroutines, reused when one ends
    Runner,       \* the goroutine of runProfileSteps
    Caller,       \* goroutines outside the pool that use its API
    Profiles,     \* the traffic profiles to run
    Targets,      \* values users pass to SetConcurrency
    Errs,         \* errors users pass to Abort
    Nil,          \* the nil error
    UserStops,    \* whether users call Stop and Abort
    UserCancels,  \* whether the parent context may be cancelled
    StartFails,   \* whether there is a worker start hook that may fail
    WorkerHooks,  \* whether there are worker hooks that use the API
    StepHooks,    \* whether steps have hooks
    MaxAdjusts,   \* bound: SetConcurrency and SetWorker calls made by users
    MaxCount      \* bound: the counters of calls saturate here

\* A step: its concurrency, whether that is eased, its repetitions (0 when
\* unlimited), whether it has a duration, whether it is a pause, and whether it
\* has a worker function of its own.
Steps == [concurrency : Int, eased : BOOLEAN, reps : Nat, timed : BOOLEAN,
          pause : BOOLEAN, own : BOOLEAN]

Adjuster == {Runner} \cup Caller \cup Worker

ASSUME ThreadAssumption ==
    /\ Runner \notin Worker /\ Runner \notin Caller
    /\ Worker \cap Caller = {}
    /\ IsFiniteSet(Worker)

ASSUME DomainAssumption ==
    /\ Profiles \subseteq Seq(Steps)
    /\ Targets \subseteq Int /\ IsFiniteSet(Targets)
    /\ Nil \notin Errs
    /\ UserStops \in BOOLEAN
    /\ UserCancels \in BOOLEAN
    /\ StartFails \in BOOLEAN
    /\ WorkerHooks \in BOOLEAN
    /\ StepHooks \in BOOLEAN
    /\ MaxAdjusts \in Nat
    /\ MaxCount \in Nat

VARIABLES
    profile,       \* WorkerPool.profile
    runner,        \* where the runner is
    step,          \* index of the runner's current step
    start,         \* startConcurrency of the current step
    expired,       \* the duration of the current step has passed
    target,        \* WorkerPool.targetConcurrency
    active,        \* WorkerPool.activeWorkers
    wg,            \* the counter of WorkerPool.wg
    isUnlimited,   \* WorkerPool.isUnlimited
    remaining,     \* WorkerPool.remainingReps, -1 for every negative value
    func,          \* WorkerPool.worker: the number of the step it is from
    resume,        \* WorkerPool.resume: the number of a channel, 0 for nil
    pauses,        \* how many resume channels have been made
    pc,            \* where each worker is in runWorker
    hooked,        \* per worker: its deferred exit hook has still to run
    seen,          \* the active of tryScaleDown, per worker
    waitsOn,       \* the channel of waitWhilePaused, per worker
    adj,           \* the SetConcurrency call of each thread
    cancelled,     \* WorkerPool.ctx is done
    finished,      \* WorkerPool.finished
    result,        \* WorkerPool.result
    waiter,        \* the goroutine in Wait
    waitResult,    \* what Wait returned
    \* History variables.
    adjusts,       \* SetConcurrency and SetWorker calls made by users
    userTarget,    \* the last target stored by a user in this step, or NoTarget
    first,         \* the first finish: its error, and whether the run was live
    completed,     \* worker_calls_total
    stepCalls,     \* worker function calls begun since the step was set up
    pauseCalls     \* per worker: calls begun in the current pause

runnerVars == <<profile, runner, step, start, expired>>
countVars == <<target, active, wg>>
repVars == <<isUnlimited, remaining, func>>
pauseVars == <<resume, pauses>>
workerVars == <<pc, hooked, seen, waitsOn>>
endVars == <<cancelled, finished, result, first>>
waitVars == <<waiter, waitResult>>
userVars == <<adjusts, userTarget>>
callVars == <<completed, stepCalls, pauseCalls>>
vars == <<profile, runner, step, start, expired, target, active, wg,
          isUnlimited, remaining, func, resume, pauses, pc, hooked, seen,
          waitsOn, adj, cancelled, finished, result, waiter, waitResult, adjusts,
          userTarget, first, completed, stepCalls, pauseCalls>>

NoTarget == -1

\* The worker functions: the one given to NewWorkerPool, and one set by a user.
PoolFunc == 0
UserFunc == -1

NoAdjust == [at |-> "none", n |-> 0, left |-> 0]

RunnerPC == {"unlaunched", "begin", "pausing", "reps", "func", "apply", "wait",
             "tick", "drain", "target", "load", "end", "stop", "exit", "over"}
WorkerPC == {"idle", "start", "loop", "scale", "compare", "cas", "pause",
             "paused", "claim", "claimRep", "take", "call", "exit", "wgDone"}

Step == profile[step]

Idle == {w \in Worker : pc[w] = "idle"}
Launched == runner # "unlaunched"

SaturatingInc(n) == IF n < MaxCount THEN n + 1 ELSE n

----------------------------------------------------------------------------
Init ==
    /\ profile \in Profiles
    /\ runner = "unlaunched" /\ step = 1 /\ start = 1 /\ expired = FALSE
    /\ target = 0 /\ active = 0 /\ wg = 0
    /\ isUnlimited = TRUE /\ remaining = 0 /\ func = PoolFunc
    /\ resume = 0 /\ pauses = 0
    /\ pc = [w \in Worker |-> "idle"]
    /\ hooked = [w \in Worker |-> FALSE]
    /\ seen = [w \in Worker |-> 0]
    /\ waitsOn = [w \in Worker |-> 0]
    /\ adj = [t \in Adjuster |-> NoAdjust]
    /\ cancelled = FALSE /\ finished = FALSE /\ result = Nil
    /\ waiter = "waiting" /\ waitResult = Nil
    /\ adjusts = 0 /\ userTarget = NoTarget
    /\ first = [err |-> Nil, live |-> FALSE]
    /\ completed = 0 /\ stepCalls = 0
    /\ pauseCalls = [w \in Worker |-> 0]

\* The checks of LaunchWithContext.
ValidStep(st) ==
    /\ st.eased => st.timed
    /\ st.pause \/ st.concurrency > 0

Launch ==
    /\ runner = "unlaunched"
    /\ profile # <<>>
    /\ \A i \in 1 .. Len(profile) : ValidStep(profile[i])
    /\ runner' = "begin"
    /\ wg' = wg + 1
    /\ UNCHANGED <<profile, step, start, expired, target, active, repVars,
                   pauseVars, workerVars, adj, endVars, waitVars, userVars,
                   callVars>>

----------------------------------------------------------------------------
(* SetConcurrency, by thread t. *)

\* Store the target; a pool that was not launched spawns nothing.
StoreTarget(t, n) ==
    /\ target' = n
    /\ adj' = IF Launched
              THEN [adj EXCEPT ![t] = [at |-> "load", n |-> n, left |-> 0]]
              ELSE adj

\* Mutant of WorkersToSpawn: forgets the workers that run already.
SpawnAll(n, current) == n

WorkersToSpawn(n, current) == IF n > current THEN n - current ELSE 0

LoadActive(t) ==
    /\ adj[t].at = "load"
    /\ LET toSpawn == WorkersToSpawn(adj[t].n, active)
       IN  adj' = [adj EXCEPT ![t] =
                      IF toSpawn = 0 THEN NoAdjust
                      ELSE [at |-> "spawn", n |-> 0, left |-> toSpawn]]
    /\ UNCHANGED <<runnerVars, countVars, repVars, pauseVars, workerVars,
                   endVars, waitVars, userVars, callVars>>

\* One round of the loop.  The two counters are incremented one after the
\* other: a worker that is counted in the first alone acts as one that is not
\* yet scheduled, at "start".  Only Wait reads the second, and cannot return in
\* between unless the call comes from outside the pool, where it may as well
\* return before this step.
Spawn(t) ==
    /\ adj[t].at = "spawn"
    /\ \E w \in Idle : pc' = [pc EXCEPT ![w] = "start"]
    /\ active' = active + 1
    /\ wg' = wg + 1
    /\ adj' = [adj EXCEPT ![t] =
                  IF adj[t].left = 1 THEN NoAdjust
                  ELSE [at |-> "spawn", n |-> 0, left |-> adj[t].left - 1]]
    /\ UNCHANGED <<runnerVars, target, repVars, pauseVars, hooked, seen, waitsOn,
                   endVars, waitVars, userVars, callVars>>

AdjustStep(t) == LoadActive(t) \/ Spawn(t)

----------------------------------------------------------------------------
(* The runner: runProfileSteps, executeStep and runStep. *)

\* The runner's SetConcurrency call has returned, be it its own or a hook's.
RunnerIsFree == adj[Runner].at = "none"

\* calculateEasedValue at any progress: between the two ends.
Between(a, b) == IF a <= b THEN a .. b ELSE b .. a

\* The start hook of the step has returned.
BeginPause ==
    /\ runner = "begin" /\ RunnerIsFree
    /\ Step.pause
    /\ resume' = IF resume = 0 THEN pauses + 1 ELSE resume
    /\ pauses' = IF resume = 0 THEN pauses + 1 ELSE pauses
    /\ runner' = "pausing"
    /\ expired' = FALSE
    /\ pauseCalls' = [w \in Worker |-> 0]
    /\ UNCHANGED <<profile, step, start, countVars, repVars, workerVars, adj,
                   endVars, waitVars, userVars, completed, stepCalls>>

\* Mutant of ResumeAfterPause: the deferred call is missing.
ResumeForgotten == resume

ResumeAfterPause == 0

\* The timer or the context ends the pause, and the deferred call closes the
\* channel.
EndPause ==
    /\ runner = "pausing"
    /\ expired \/ cancelled
    /\ resume' = ResumeAfterPause
    /\ runner' = "end"
    /\ UNCHANGED <<profile, step, start, expired, countVars, repVars, pauses,
                   workerVars, adj, endVars, waitVars, userVars, callVars>>

\* Mutant of StepIsUnlimited: only ever switches to unlimited.
NeverSwitchesBack == isUnlimited \/ Step.reps = 0

StepIsUnlimited == Step.reps = 0

AfterReps == IF Step.own THEN "func" ELSE "apply"

\* The first of the two stores that set the repetitions of a step.
BeginStep ==
    /\ runner = "begin" /\ RunnerIsFree
    /\ ~Step.pause
    /\ isUnlimited' = StepIsUnlimited
    /\ runner' = IF Step.reps > 0 THEN "reps" ELSE AfterReps
    /\ expired' = FALSE
    /\ UNCHANGED <<profile, step, start, countVars, remaining, func, pauseVars,
                   workerVars, adj, endVars, waitVars, userVars, callVars>>

StoreReps ==
    /\ runner = "reps"
    /\ remaining' = Step.reps
    /\ stepCalls' = 0
    /\ runner' = AfterReps
    /\ UNCHANGED <<profile, step, start, expired, countVars, isUnlimited, func,
                   pauseVars, workerVars, adj, endVars, waitVars, userVars,
                   completed, pauseCalls>>

SetStepWorker ==
    /\ runner = "func"
    /\ func' = step
    /\ runner' = "apply"
    /\ UNCHANGED <<profile, step, start, expired, countVars, isUnlimited,
                   remaining, pauseVars, workerVars, adj, endVars, waitVars,
                   userVars, callVars>>

ApplyConcurrency ==
    /\ runner = "apply"
    /\ StoreTarget(Runner, IF Step.eased THEN start ELSE Step.concurrency)
    /\ userTarget' = NoTarget
    /\ runner' = "wait"
    /\ UNCHANGED <<profile, step, start, expired, active, wg, repVars,
                   pauseVars, workerVars, endVars, waitVars, adjusts, callVars>>

\* A select with both channels ready takes either.
TickArrives ==
    /\ runner = "wait" /\ RunnerIsFree
    /\ runner' = "tick"
    /\ UNCHANGED <<profile, step, start, expired, countVars, repVars, pauseVars,
                   workerVars, adj, endVars, waitVars, userVars, callVars>>

\* Mutant of SeesCancel: only steps with a duration watch the context.
SeesCancelWhenTimed == cancelled /\ Step.timed

SeesCancel == cancelled

EndOnCancel ==
    /\ runner = "wait" /\ RunnerIsFree
    /\ SeesCancel
    /\ runner' = "end"
    /\ UNCHANGED <<profile, step, start, expired, countVars, repVars, pauseVars,
                   workerVars, adj, endVars, waitVars, userVars, callVars>>

\* Mutant of RepsUsed: the runner never stops replacing workers.
RepsNeverUsed == FALSE

RepsUsed == Step.reps > 0 /\ remaining <= 0

\* Mutant of Replacing: only eased steps adjust the concurrency on a tick.
ReplacingWhenEased == IF Step.eased THEN "target" ELSE "wait"

Replacing == "target"

\* Elapsed time, then repetitions, then the concurrency.
CheckTick ==
    /\ runner = "tick"
    /\ runner' = IF Step.timed /\ expired THEN "end"
                 ELSE IF RepsUsed THEN "drain"
                 ELSE Replacing
    /\ UNCHANGED <<profile, step, start, expired, countVars, repVars, pauseVars,
                   workerVars, adj, endVars, waitVars, userVars, callVars>>

\* Mutant of AllWorkersExited: the step ends when its repetitions are used.
NotAwaited == TRUE

AllWorkersExited == active = 0

CheckDrained ==
    /\ runner = "drain"
    /\ runner' = IF AllWorkersExited THEN "end" ELSE "wait"
    /\ UNCHANGED <<profile, step, start, expired, countVars, repVars, pauseVars,
                   workerVars, adj, endVars, waitVars, userVars, callVars>>

\* Load the target that the tick stores again.  The value is kept in the
\* runner's own SetConcurrency call.
LoadTarget ==
    /\ runner = "target"
    /\ \E n \in IF Step.eased THEN Between(start, Step.concurrency)
                              ELSE {target} :
          adj' = [adj EXCEPT ![Runner].n = n]
    /\ runner' = "load"
    /\ UNCHANGED <<profile, step, start, expired, countVars, repVars, pauseVars,
                   workerVars, endVars, waitVars, userVars, callVars>>

StoreLoadedTarget ==
    /\ runner = "load"
    /\ StoreTarget(Runner, adj[Runner].n)
    /\ runner' = "wait"
    /\ UNCHANGED <<profile, step, start, expired, active, wg, repVars,
                   pauseVars, workerVars, endVars, waitVars, userVars, callVars>>

\* The end hook of the step has returned.
EndStep ==
    /\ runner = "end" /\ RunnerIsFree
    /\ start' = IF Step.pause THEN start ELSE Step.concurrency
    /\ IF cancelled
       THEN runner' = "exit" /\ UNCHANGED step
       ELSE IF step < Len(profile)
            THEN runner' = "begin" /\ step' = step + 1
            ELSE runner' = "stop" /\ UNCHANGED step
    /\ UNCHANGED <<profile, expired, countVars, repVars, pauseVars, workerVars,
                   adj, endVars, waitVars, userVars, callVars>>

\* Mutant of FirstFinish: the last call decides.
EveryFinish == TRUE

\* Stop (e is Nil) and Abort.
FirstFinish == ~finished

Finish(e) ==
    IF FirstFinish
    THEN /\ finished' = TRUE
         /\ result' = e
         /\ cancelled' = TRUE
         /\ first' = IF finished THEN first
                     ELSE [err |-> e, live |-> wg > 0 /\ waiter = "waiting"]
    ELSE UNCHANGED endVars

StopAtEnd ==
    /\ runner = "stop"
    /\ Finish(Nil)
    /\ runner' = "exit"
    /\ UNCHANGED <<profile, step, start, expired, countVars, repVars, pauseVars,
                   workerVars, adj, waitVars, userVars, callVars>>

RunnerExit ==
    /\ runner = "exit"
    /\ runner' = "over"
    /\ wg' = wg - 1
    /\ UNCHANGED <<profile, step, start, expired, target, active, repVars,
                   pauseVars, workerVars, adj, endVars, waitVars, userVars,
                   callVars>>

RunnerStep ==
    \/ BeginPause \/ EndPause
    \/ BeginStep \/ StoreReps \/ SetStepWorker \/ ApplyConcurrency
    \/ TickArrives \/ EndOnCancel \/ CheckTick \/ CheckDrained
    \/ LoadTarget \/ StoreLoadedTarget
    \/ EndStep \/ StopAtEnd \/ RunnerExit

----------------------------------------------------------------------------
(* A worker: runWorker and what it calls. *)

Goto(w, l) == pc' = [pc EXCEPT ![w] = l]

\* Mutant of AfterFailedStart: returns before activeWorkers is decremented.
SkipsDecrement == "wgDone"

\* Mutant of AfterFailedStart: returns before wg.Done is deferred.
ReturnsWithoutDone == "idle"

AfterFailedStart == "exit"

\* A worker's own SetConcurrency call, made in its function or a hook, has
\* returned.
IsFree(w) == adj[w].at = "none"

\* The start hook returns, and the exit hook is deferred.  When it failed the
\* worker exits without the exit hook.
StartHook(w) ==
    /\ pc[w] = "start" /\ IsFree(w)
    /\ \/ Goto(w, "loop") /\ hooked' = [hooked EXCEPT ![w] = WorkerHooks]
       \/ StartFails /\ Goto(w, AfterFailedStart) /\ UNCHANGED hooked
    /\ UNCHANGED <<runnerVars, countVars, repVars, pauseVars, seen, waitsOn, adj,
                   endVars, waitVars, userVars, callVars>>

CheckContext(w) ==
    /\ pc[w] = "loop"
    /\ Goto(w, IF cancelled THEN "exit" ELSE "scale")
    /\ UNCHANGED <<runnerVars, countVars, repVars, pauseVars, hooked, seen,
                   waitsOn, adj, endVars, waitVars, userVars, callVars>>

(* tryScaleDown. *)

ScaleLoadActive(w) ==
    /\ pc[w] = "scale"
    /\ seen' = [seen EXCEPT ![w] = active]
    /\ Goto(w, "compare")
    /\ UNCHANGED <<runnerVars, countVars, repVars, pauseVars, hooked, waitsOn,
                   adj, endVars, waitVars, userVars, callVars>>

ScaleCompare(w) ==
    /\ pc[w] = "compare"
    /\ IF seen[w] <= target
       THEN Goto(w, "pause") /\ seen' = [seen EXCEPT ![w] = 0]
       ELSE Goto(w, "cas") /\ UNCHANGED seen
    /\ UNCHANGED <<runnerVars, countVars, repVars, pauseVars, hooked, waitsOn,
                   adj, endVars, waitVars, userVars, callVars>>

\* Mutant of ExitSlotIsFree: a plain decrement instead of a compare-and-swap.
AlwaysFree(w) == TRUE

ExitSlotIsFree(w) == active = seen[w]

\* Mutant of AfterScaleDown: decrementedActive is not set.
DecrementsTwice == "exit"

AfterScaleDown == "wgDone"

ClaimExitSlot(w) ==
    /\ pc[w] = "cas"
    /\ ExitSlotIsFree(w)
    /\ active' = active - 1
    /\ seen' = [seen EXCEPT ![w] = 0]
    /\ Goto(w, AfterScaleDown)
    /\ UNCHANGED <<runnerVars, target, wg, repVars, pauseVars, hooked, waitsOn,
                   adj, endVars, waitVars, userVars, callVars>>

RetryExitSlot(w) ==
    /\ pc[w] = "cas"
    /\ ~ExitSlotIsFree(w)
    /\ seen' = [seen EXCEPT ![w] = 0]
    /\ Goto(w, "scale")
    /\ UNCHANGED <<runnerVars, countVars, repVars, pauseVars, hooked, waitsOn,
                   adj, endVars, waitVars, userVars, callVars>>

(* waitWhilePaused. *)

CheckPause(w) ==
    /\ pc[w] = "pause"
    /\ IF resume = 0
       THEN Goto(w, "claim") /\ UNCHANGED waitsOn
       ELSE Goto(w, "paused") /\ waitsOn' = [waitsOn EXCEPT ![w] = resume]
    /\ UNCHANGED <<runnerVars, countVars, repVars, pauseVars, hooked, seen,
                   adj, endVars, waitVars, userVars, callVars>>

\* A channel is closed when it is no longer the resume channel.
IsClosed(channel) == channel # resume

LeavePause(w) ==
    /\ pc[w] = "paused"
    /\ IsClosed(waitsOn[w]) \/ cancelled
    /\ waitsOn' = [waitsOn EXCEPT ![w] = 0]
    /\ Goto(w, "loop")
    /\ UNCHANGED <<runnerVars, countVars, repVars, pauseVars, hooked, seen,
                   adj, endVars, waitVars, userVars, callVars>>

(* shouldContinue. *)

LoadUnlimited(w) ==
    /\ pc[w] = "claim"
    /\ Goto(w, IF isUnlimited THEN "take" ELSE "claimRep")
    /\ UNCHANGED <<runnerVars, countVars, repVars, pauseVars, hooked, seen,
                   waitsOn, adj, endVars, waitVars, userVars, callVars>>

\* Mutant of NoRepLeft: off by one.
LastRepRefused(r) == r <= 0

NoRepLeft(r) == r < 0

ClaimRep(w) ==
    /\ pc[w] = "claimRep"
    /\ remaining' = IF remaining > 0 THEN remaining - 1 ELSE -1
    /\ Goto(w, IF NoRepLeft(remaining') THEN "exit" ELSE "take")
    /\ UNCHANGED <<runnerVars, countVars, isUnlimited, func, pauseVars, hooked,
                   seen, waitsOn, adj, endVars, waitVars, userVars, callVars>>

(* Take and the worker function. *)

\* Take returned a send time: the worker function is loaded and called.
BeginCall(w) ==
    /\ pc[w] = "take"
    /\ Goto(w, "call")
    /\ stepCalls' = SaturatingInc(stepCalls)
    /\ pauseCalls' = IF resume # 0
                     THEN [pauseCalls EXCEPT ![w] = SaturatingInc(@)]
                     ELSE pauseCalls
    /\ UNCHANGED <<runnerVars, countVars, repVars, pauseVars, hooked, seen,
                   waitsOn, adj, endVars, waitVars, userVars, completed>>

TakeCancelled(w) ==
    /\ pc[w] = "take"
    /\ cancelled
    /\ Goto(w, "exit")
    /\ UNCHANGED <<runnerVars, countVars, repVars, pauseVars, hooked, seen,
                   waitsOn, adj, endVars, waitVars, userVars, callVars>>

\* Mutant of AfterCall: an inner loop that claims the next repetition at once.
ClaimsAtOnce == "claim"

AfterCall == "loop"

\* A call that the end of the run interrupted is not counted.
EndCall(w) ==
    /\ pc[w] = "call" /\ IsFree(w)
    /\ IF cancelled
       THEN Goto(w, "exit") /\ UNCHANGED completed
       ELSE Goto(w, AfterCall) /\ completed' = SaturatingInc(completed)
    /\ UNCHANGED <<runnerVars, countVars, repVars, pauseVars, hooked, seen,
                   waitsOn, adj, endVars, waitVars, userVars, stepCalls,
                   pauseCalls>>

(* The deferred calls: the exit hook, then activeWorkers, then wg.  A worker
   that scaled down has given up its place before its exit hook. *)

ExitHook(w) ==
    /\ pc[w] \in {"exit", "wgDone"}
    /\ hooked[w]
    /\ IsFree(w)
    /\ hooked' = [hooked EXCEPT ![w] = FALSE]
    /\ UNCHANGED <<runnerVars, countVars, repVars, pauseVars, pc, seen, waitsOn,
                   adj, endVars, waitVars, userVars, callVars>>

LeaveActive(w) ==
    /\ pc[w] = "exit" /\ ~hooked[w]
    /\ active' = active - 1
    /\ Goto(w, "wgDone")
    /\ UNCHANGED <<runnerVars, target, wg, repVars, pauseVars, hooked, seen,
                   waitsOn, adj, endVars, waitVars, userVars, callVars>>

WorkerDone(w) ==
    /\ pc[w] = "wgDone" /\ ~hooked[w]
    /\ wg' = wg - 1
    /\ Goto(w, "idle")
    /\ UNCHANGED <<runnerVars, target, active, repVars, pauseVars, hooked,
                   seen, waitsOn, adj, endVars, waitVars, userVars, callVars>>

WorkerStep(w) ==
    \/ StartHook(w) \/ CheckContext(w)
    \/ ScaleLoadActive(w) \/ ScaleCompare(w)
    \/ ClaimExitSlot(w) \/ RetryExitSlot(w)
    \/ CheckPause(w) \/ LeavePause(w)
    \/ LoadUnlimited(w) \/ ClaimRep(w)
    \/ BeginCall(w) \/ TakeCancelled(w) \/ EndCall(w)
    \/ ExitHook(w) \/ LeaveActive(w) \/ WorkerDone(w)

----------------------------------------------------------------------------
(* Users: step hooks, worker hooks and worker functions, while they run, and
   other goroutines. *)

InWorkerHook(w) ==
    WorkerHooks /\ (pc[w] = "start" \/ (pc[w] \in {"exit", "wgDone"} /\ hooked[w]))

MayUseApi(t) ==
    \/ t \in Caller
    \/ t \in Worker /\ (pc[t] = "call" \/ InWorkerHook(t))
    \/ t = Runner /\ StepHooks /\ runner \in {"begin", "end"}

\* A negative n is ignored.
UserSetConcurrency(t, n) ==
    /\ MayUseApi(t)
    /\ adj[t].at = "none"
    /\ adjusts < MaxAdjusts
    /\ n >= 0
    /\ adjusts' = adjusts + 1
    /\ StoreTarget(t, n)
    /\ userTarget' = n
    /\ UNCHANGED <<runnerVars, active, wg, repVars, pauseVars, workerVars,
                   endVars, waitVars, callVars>>

UserSetWorker(t) ==
    /\ MayUseApi(t)
    /\ adj[t].at = "none"
    /\ adjusts < MaxAdjusts
    /\ adjusts' = adjusts + 1
    /\ func' = UserFunc
    /\ UNCHANGED <<runnerVars, countVars, isUnlimited, remaining, pauseVars,
                   workerVars, adj, endVars, waitVars, userTarget, callVars>>

\* Before Launch there is no cancel function and nothing happens.
UserFinish(t, e) ==
    /\ UserStops
    /\ MayUseApi(t)
    /\ Launched
    /\ Finish(e)
    /\ UNCHANGED <<runnerVars, countVars, repVars, pauseVars, workerVars, adj,
                   waitVars, userVars, callVars>>

CancelParent ==
    /\ UserCancels
    /\ Launched
    /\ ~cancelled
    /\ cancelled' = TRUE
    /\ UNCHANGED <<runnerVars, countVars, repVars, pauseVars, workerVars, adj,
                   finished, result, first, waitVars, userVars, callVars>>

(* Wait, called after Launch. *)

\* Mutant of GroupIsDone: waits for activeWorkers instead of the wait group.
NoActiveWorker == active = 0 /\ runner = "over"

GroupIsDone == wg = 0

WaitGroupIsZero ==
    /\ waiter = "waiting"
    /\ Launched
    /\ GroupIsDone
    /\ waiter' = "woken"
    /\ UNCHANGED <<runnerVars, countVars, repVars, pauseVars, workerVars, adj,
                   endVars, waitResult, userVars, callVars>>

ReadResult ==
    /\ waiter = "woken"
    /\ waitResult' = result
    /\ waiter' = "returned"
    /\ UNCHANGED <<runnerVars, countVars, repVars, pauseVars, workerVars, adj,
                   endVars, userVars, callVars>>

\* The duration of the current step passes.
TimePasses ==
    /\ ~expired
    /\ runner \in {"pausing", "apply", "wait", "tick", "drain", "target", "load"}
    /\ Step.timed \/ Step.pause
    /\ expired' = TRUE
    /\ UNCHANGED <<profile, runner, step, start, countVars, repVars, pauseVars,
                   workerVars, adj, endVars, waitVars, userVars, callVars>>

\* Nothing runs any more, or Launch was refused.
Ended ==
    /\ waiter = "returned" \/ runner = "unlaunched"
    /\ UNCHANGED vars

Next ==
    \/ Launch
    \/ RunnerStep
    \/ TimePasses
    \/ \E t \in Adjuster : AdjustStep(t)
    \/ \E w \in Worker : WorkerStep(w)
    \/ \E t \in Adjuster :
          \/ \E n \in Targets : UserSetConcurrency(t, n)
          \/ UserSetWorker(t)
          \/ \E e \in Errs \cup {Nil} : UserFinish(t, e)
    \/ CancelParent
    \/ WaitGroupIsZero \/ ReadResult
    \/ Ended

Spec == Init /\ [][Next]_vars

\* Goroutines are scheduled, the ticker ticks, durations pass, worker functions
\* and hooks return.  Nothing makes users call the API.  The runner's select
\* picks at random when it finds both a tick and the done context, and finds the
\* done context alone between two ticks: it does not take ticks for ever.
Fairness ==
    /\ WF_vars(RunnerStep)
    /\ SF_vars(EndOnCancel)
    /\ WF_vars(TimePasses)
    /\ \A t \in Adjuster : WF_vars(AdjustStep(t))
    /\ \A w \in Worker : WF_vars(WorkerStep(w))
    /\ WF_vars(WaitGroupIsZero \/ ReadResult)

FairSpec == Spec /\ WF_vars(Launch) /\ Fairness

----------------------------------------------------------------------------
(* Properties. *)

\* Every variable has its type: in particular activeWorkers and the wait group
\* are never negative, although goroutines decrement them without a lock, and
\* no step sets a negative target.
TypeOK ==
    /\ profile \in Profiles
    /\ runner \in RunnerPC
    /\ step \in Nat \ {0}
    /\ start \in Nat \ {0}
    /\ expired \in BOOLEAN
    /\ target \in Nat
    /\ active \in Nat
    /\ wg \in Nat
    /\ isUnlimited \in BOOLEAN
    /\ remaining \in Nat \cup {-1}
    /\ func \in Nat \cup {UserFunc}
    /\ resume \in Nat /\ pauses \in Nat
    /\ pc \in [Worker -> WorkerPC]
    /\ hooked \in [Worker -> BOOLEAN]
    /\ seen \in [Worker -> Nat]
    /\ waitsOn \in [Worker -> Nat]
    /\ adj \in [Adjuster -> [at : {"none", "load", "spawn"}, n : Nat, left : Nat]]
    /\ cancelled \in BOOLEAN /\ finished \in BOOLEAN
    /\ result \in Errs \cup {Nil} /\ waitResult \in Errs \cup {Nil}
    /\ waiter \in {"waiting", "woken", "returned"}
    /\ adjusts \in Nat
    /\ userTarget \in Targets \cup {NoTarget}
    /\ first \in [err : Errs \cup {Nil}, live : BOOLEAN]
    /\ completed \in Nat /\ stepCalls \in Nat
    /\ pauseCalls \in [Worker -> Nat]

InRun(w) == pc[w] \notin {"idle", "wgDone"}

\* activeWorkers is the number of workers that have not begun to exit, whatever
\* the order of spawning, scaling down, failing start hooks and cancellation:
\* each worker is counted once and given back once (workerpool.go:177-182,
\* 212-219, 320-337).
ActiveAccounting == active = Cardinality({w \in Worker : InRun(w)})

RunnerIsLive == runner \notin {"unlaunched", "over"}

\* The wait group counts the runner and every worker goroutine that has not
\* returned (workerpool.go:107, 180, 210).
WgAccounting ==
    wg = Cardinality({w \in Worker : pc[w] # "idle"})
            + (IF RunnerIsLive THEN 1 ELSE 0)

SetMax(S) == CHOOSE m \in S : \A n \in S : n <= m

\* The repetitions of the steps of profile p up to the i-th.
RepsUpTo(p) ==
    LET sum[i \in 0 .. Len(p)] ==
            IF i = 0 THEN 0
            ELSE sum[i - 1] + (IF p[i].pause THEN 0 ELSE p[i].reps)
    IN  sum

LimitedOnly ==
    \A i \in 1 .. Len(profile) :
        profile[i].pause \/ (profile[i].reps > 0 /\ ~profile[i].timed)

\* When all steps are limited by repetitions alone, each step makes exactly its
\* number of calls before the next one begins, however workers are spawned,
\* scaled down, replaced, paused or compete for the last repetition
\* (workerpool.go:340-350, 396-401, 441-447).
RepetitionsExact ==
    (LimitedOnly /\ Launched /\ ~cancelled) =>
        /\ completed <= RepsUpTo(profile)[step]
        /\ runner = "begin" => completed = RepsUpTo(profile)[step - 1]
        /\ runner = "stop" => completed = RepsUpTo(profile)[step]

\* The function that step i runs: its own, that of the last step before it that
\* has one, or that of the pool.
FunctionOf(i) ==
    LET own == {k \in 1 .. i : ~profile[k].pause /\ profile[k].own}
    IN  IF own = {} THEN PoolFunc ELSE SetMax(own)

\* When all steps are limited by repetitions alone, a step's repetitions run the
\* step's function, although a repetition can be claimed before the function is
\* set: no worker of an earlier step is left to claim one
\* (workerpool.go:396-405, 413-414, 441-447).
RepsUseStepFunction ==
    [][(LimitedOnly /\ adjusts = 0) =>
          \A w \in Worker :
              (pc[w] = "take" /\ pc'[w] = "call") => func = FunctionOf(step)]_vars

\* A pause lets each worker finish at most the one call it was about to make
\* (workerpool.go:255-258, 384-392).
PauseBoundsCalls == \A w \in Worker : pauseCalls[w] <= 1

\* A step with repetitions that follows one without makes at most one call more
\* per worker, the one each worker had begun to wait for
\* (workerpool.go:340-343, 396-398).
RepsOverrunBound ==
    (/\ Step.reps > 0 /\ ~Step.pause
     /\ runner \notin {"unlaunched", "begin", "reps"}) =>
        stepCalls <= Step.reps + Cardinality(Worker)

\* Wait returns the error of the first Stop or Abort made while the run was
\* live, against later calls from worker functions, other goroutines and the
\* end of the profile (workerpool.go:114-146, 369).
WaitReturnsFirst ==
    (waiter = "returned" /\ first.live) => waitResult = first.err

ScalesDownOnly ==
    /\ adjusts = 0
    /\ \A i \in 1 .. Len(profile) : ~profile[i].eased
    /\ \A i, j \in 1 .. Len(profile) :
          (i < j /\ ~profile[i].pause /\ ~profile[j].pause) =>
              profile[i].concurrency >= profile[j].concurrency

\* While the target only ever goes down, workers that leave because there are
\* too many never leave too few, although each decides from a load of
\* activeWorkers and of targetConcurrency that may be stale
\* (workerpool.go:320-337).
NeverUndershoots ==
    [][ScalesDownOnly =>
          \A w \in Worker :
              (pc[w] = "cas" /\ pc'[w] = "wgDone") => active' >= target]_vars

MaxTarget ==
    SetMax({profile[i].concurrency : i \in 1 .. Len(profile)} \cup Targets
              \cup {1})

\* The workers that SetConcurrency calls in progress have still to spawn.
ToSpawn == UNION {{t} \X (1 .. adj[t].left) : t \in Adjuster}

\* Concurrent SetConcurrency calls may each see the workers missing and spawn
\* them, but together never more than one full target per call that can be in
\* progress (workerpool.go:175-182).
OverspawnBound ==
    active + Cardinality(ToSpawn) <= MaxTarget * (1 + MaxAdjusts)

EveryStepEnds ==
    \A i \in 1 .. Len(profile) :
        ValidStep(profile[i]) /\ (\/ profile[i].timed \/ profile[i].pause
                                  \/ profile[i].reps > 0)

\* A profile whose steps all have a duration or repetitions ends by itself, and
\* Wait returns: no repetition is lost, and no worker, no pause and no
\* scale-down is waited for in vain (workerpool.go:354-370, 436-447).
RunEnds == EveryStepEnds => <>(waiter = "returned")

NeverEnds ==
    \E i \in 1 .. Len(profile) :
        ~profile[i].timed /\ ~profile[i].pause /\ profile[i].reps = 0

\* Stale loads of activeWorkers and targetConcurrency may spawn too many or too
\* few workers, but a step without end settles at its target for good
\* (workerpool.go:320-337, 417-418, 457-461).
ConcurrencyConverges == NeverEnds => <>[](cancelled \/ active = target)

(* What the documentation says. *)

\* "Values without easing are set once, so SetRateLimit and SetConcurrency can
\* change them" (workerpool.go:418): the target a user stored in a step without
\* easing stays.
UserTargetKept ==
    (runner = "wait" /\ RunnerIsFree /\ userTarget # NoTarget /\ ~Step.eased) =>
        target = userTarget

----------------------------------------------------------------------------
(* The pool implements PoolLife, when its API is used from inside the run. *)

LifePhase ==
    IF ~Launched THEN "new"
    ELSE IF waiter # "waiting" THEN "over"
    ELSE IF cancelled THEN "ending"
    ELSE "running"

\* Without worker hooks a worker is there until its goroutine returns.
IsAlive(w) == IF WorkerHooks THEN hooked[w] ELSE pc[w] \notin {"idle", "start"}

IsReady(w) ==
    pc[w] \in {"scale", "compare", "cas", "pause", "claim", "claimRep", "take"}

Alive == {w \in Worker : IsAlive(w)}
Ready == {w \in Worker : IsReady(w)}
InCall == {w \in Worker : pc[w] = "call"}

Answer == IF waiter = "returned" THEN <<waitResult>> ELSE <<>>

Life == INSTANCE PoolLife WITH
    phase <- LifePhase, alive <- Alive, ready <- Ready, calling <- InCall,
    decided <- finished, outcome <- result, answer <- Answer

\* Whatever the profile, the counters and the pauses do, a run lives as PoolLife
\* says: after Stop, Abort or cancellation no worker begins more than the call
\* it was about to make, every exit hook has run and no worker is left when Wait
\* returns, Wait returns the first result, and it does return: no pause, no
\* scale-down and no late worker keeps a run that is ending alive
\* (workerpool.go:114-146, 209-288).
LivesAsPromised == Life!Spec

=============================================================================
