--------------------------- MODULE PoolStepsProofs ---------------------------
(***************************************************************************)
(* Proofs about the steps of a profile in WorkerPool, for every set of     *)
(* workers and every profile: how many calls a step makes, with which      *)
(* worker function, how many workers a scale-down leaves, and how many     *)
(* workers calls of SetConcurrency spawn that overlap.                     *)
(***************************************************************************)
EXTENDS WorkerPoolProofs, Numbers

\* A worker moves itself and nothing of the runner.
LEMMA WorkerEffect ==
    ASSUME TypeInv, NEW w \in Worker, WorkerStep(w)
    PROVE  /\ UNCHANGED <<runnerVars, target, isUnlimited, func, pauseVars, adj,
                          endVars, waitVars, userVars>>
           /\ pc' \in [Worker -> WorkerPC]
           /\ \A v \in Worker \ {w} : pc'[v] = pc[v]
<1>0. pc \in [Worker -> WorkerPC]
  BY DEF TypeInv, WorkerTypes
<1> USE <1>0 DEF Goto, WorkerPC
<1>1. CASE StartHook(w) \/ CheckContext(w) \/ ScaleLoadActive(w)
           \/ ScaleCompare(w)
  BY <1>1 DEF StartHook, CheckContext, ScaleLoadActive, ScaleCompare,
              AfterFailedStart, countVars, repVars
<1>2. CASE ClaimExitSlot(w) \/ RetryExitSlot(w) \/ CheckPause(w) \/ LeavePause(w)
  BY <1>2 DEF ClaimExitSlot, RetryExitSlot, CheckPause, LeavePause,
              AfterScaleDown, countVars, repVars
<1>3. CASE LoadUnlimited(w) \/ ClaimRep(w) \/ BeginCall(w) \/ TakeCancelled(w)
  BY <1>3 DEF LoadUnlimited, ClaimRep, BeginCall, TakeCancelled, countVars,
              repVars
<1>4. CASE EndCall(w) \/ ExitHook(w) \/ LeaveActive(w) \/ WorkerDone(w)
  BY <1>4 DEF EndCall, ExitHook, LeaveActive, WorkerDone, AfterCall, countVars,
              repVars
<1> QED
  BY <1>1, <1>2, <1>3, <1>4 DEF WorkerStep

\* A thread that spawns turns an idle worker into one that starts.
LEMMA SpawnEffect ==
    ASSUME TypeInv, NEW t \in Adjuster, Spawn(t)
    PROVE  /\ UNCHANGED <<runnerVars, target, repVars, pauseVars, seen, endVars,
                          userVars, callVars>>
           /\ pc' \in [Worker -> WorkerPC]
           /\ \E w \in Worker :
                 /\ pc[w] = "idle" /\ pc'[w] = "start"
                 /\ \A v \in Worker \ {w} : pc'[v] = pc[v]
<1>1. PICK w \in Worker : pc[w] = "idle" /\ pc' = [pc EXCEPT ![w] = "start"]
  BY DEF Spawn, Idle
<1> QED
  BY <1>1 DEF Spawn, TypeInv, WorkerTypes, WorkerPC

----------------------------------------------------------------------------
(* RepsOverrunBound. *)

Taking == {w \in Worker : pc[w] = "take"}

Left == IF remaining > 0 THEN remaining ELSE 0

Counting ==
    /\ Step.reps > 0 /\ ~Step.pause
    /\ runner \notin {"unlaunched", "begin", "reps"}

\* The calls of a step, those that workers are about to make, and the
\* repetitions left are no more than its repetitions and a call for each worker
\* that was about to make one when they were stored.
OverrunInv ==
    /\ runner = "pausing" => Step.pause
    /\ runner = "reps" => ~isUnlimited
    /\ Counting =>
          /\ ~isUnlimited
          /\ stepCalls + Cardinality(Taking) + Left
                <= Step.reps + Cardinality(Worker)

LEMMA TakingIsFinite ==
    /\ IsFiniteSet(Taking) /\ Cardinality(Taking) \in Nat
    /\ Cardinality(Worker) \in Nat /\ Cardinality(Taking) <= Cardinality(Worker)
BY ThreadAssumption, FS_Subset, FS_CardinalityType DEF Taking

\* A step of one worker adds it to Taking, takes it out, or does neither.
LEMMA TakingChange ==
    ASSUME NEW w \in Worker, \A v \in Worker \ {w} : pc'[v] = pc[v]
    PROVE  /\ (pc[w] # "take" /\ pc'[w] = "take") =>
                 Cardinality(Taking)' = Cardinality(Taking) + 1
           /\ (pc[w] = "take" /\ pc'[w] # "take") =>
                 Cardinality(Taking)' = Cardinality(Taking) - 1
           /\ (pc[w] = "take" <=> pc'[w] = "take") =>
                 Cardinality(Taking)' = Cardinality(Taking)
<1>0. Cardinality(Taking)' = Cardinality(Taking')
  OBVIOUS
<1>1. ASSUME pc[w] # "take", pc'[w] = "take"
      PROVE  Cardinality(Taking)' = Cardinality(Taking) + 1
  <2>1. w \notin Taking /\ Taking' = Taking \cup {w}
    BY <1>1 DEF Taking
  <2> QED
    BY <1>0, <2>1, TakingIsFinite, AddOne
<1>2. ASSUME pc[w] = "take", pc'[w] # "take"
      PROVE  Cardinality(Taking)' = Cardinality(Taking) - 1
  <2>1. w \in Taking /\ Taking' = Taking \ {w}
    BY <1>2 DEF Taking
  <2> QED
    BY <1>0, <2>1, TakingIsFinite, RemoveOne
<1>3. ASSUME pc[w] = "take" <=> pc'[w] = "take"
      PROVE  Cardinality(Taking)' = Cardinality(Taking)
  <2>1. Taking' = Taking
    BY <1>3 DEF Taking
  <2> QED
    BY <1>0, <2>1
<1> QED
  BY <1>1, <1>2, <1>3

LEMMA StillCounting ==
    ASSUME OverrunInv,
           UNCHANGED <<profile, step, isUnlimited, remaining, stepCalls, pc>>,
           Counting' => Counting, runner' = "pausing" => Step.pause,
           runner' = "reps" => ~isUnlimited
    PROVE  OverrunInv'
<1>1. Step' = Step /\ Taking' = Taking /\ Left' = Left
  BY DEF Step, Taking, Left
<1> QED
  BY <1>1 DEF OverrunInv

LEMMA RunnerKeepsOverrun ==
    ASSUME TypeInv, OverrunInv, RunnerStep
    PROVE  OverrunInv'
<1>1. CASE BeginStep
  <2>1. /\ profile' = profile /\ step' = step
        /\ isUnlimited' = (Step.reps = 0)
        /\ runner' = IF Step.reps > 0 THEN "reps" ELSE AfterReps
    BY <1>1 DEF BeginStep, StepIsUnlimited
  <2>2. Step' = Step /\ AfterReps # "pausing" /\ AfterReps # "reps"
    BY <2>1 DEF Step, AfterReps
  <2>3. CASE Step.reps > 0
    <3>1. runner' = "reps" /\ ~(Step.reps = 0)
      BY <2>1, <2>3
    <3>2. ~isUnlimited'
      BY <2>1, <3>1
    <3> QED
      BY <3>1, <3>2 DEF OverrunInv, Counting
  <2>4. CASE ~(Step.reps > 0)
    BY <2>1, <2>2, <2>4 DEF OverrunInv, Counting
  <2> QED
    BY <2>3, <2>4
<1>2. CASE StoreReps
  <2>1. /\ profile' = profile /\ step' = step /\ isUnlimited' = isUnlimited
        /\ remaining' = Step.reps /\ stepCalls' = 0 /\ pc' = pc
        /\ runner' \notin {"pausing", "reps"} /\ runner = "reps"
    BY <1>2 DEF StoreReps, AfterReps, workerVars
  <2>2. Step' = Step /\ Taking' = Taking
    BY <2>1 DEF Step, Taking
  <2>3. Launched /\ Step.reps \in Nat
    BY <2>1, StepTyped DEF TypeInv, Launched
  <2>4. Left' = Step.reps
    BY <2>1, <2>3 DEF Left
  <2>5. stepCalls' + Cardinality(Taking') + Left' <= Step.reps + Cardinality(Worker)
    BY <2>1, <2>2, <2>3, <2>4, TakingIsFinite
  <2> QED
    BY <2>1, <2>2, <2>5 DEF OverrunInv
<1>3. CASE EndStep
  <2>1. CASE runner' = "begin"
    BY <2>1 DEF OverrunInv, Counting
  <2>2. CASE runner' # "begin"
    <3>1. /\ UNCHANGED <<profile, step, isUnlimited, remaining, stepCalls, pc>>
          /\ runner' \in {"exit", "stop"} /\ runner = "end"
      BY <1>3, <2>2 DEF EndStep, repVars, callVars, workerVars
    <3>2. Counting' => Counting
      BY <3>1 DEF Counting, Step
    <3> QED
      BY <3>1, <3>2, StillCounting
  <2> QED
    BY <2>1, <2>2
<1>4. CASE BeginPause
  <2>1. /\ UNCHANGED <<profile, step, isUnlimited, remaining, stepCalls, pc>>
        /\ Step.pause /\ runner' = "pausing"
    BY <1>4 DEF BeginPause, repVars, workerVars
  <2>2. ~Counting'
    BY <2>1 DEF Counting, Step
  <2> QED
    BY <2>1, <2>2, StillCounting
<1>5. CASE RunnerStep /\ ~BeginStep /\ ~StoreReps /\ ~EndStep /\ ~BeginPause
  <2>1. /\ UNCHANGED <<profile, step, isUnlimited, remaining, stepCalls, pc>>
        /\ runner' \notin {"pausing", "reps"}
        /\ runner \notin {"unlaunched", "begin", "reps"}
    <3>1. CASE EndPause \/ SetStepWorker \/ ApplyConcurrency \/ TickArrives
               \/ EndOnCancel
      BY <3>1 DEF EndPause, SetStepWorker, ApplyConcurrency, TickArrives,
                  EndOnCancel, repVars, callVars, workerVars
    <3>2. CASE CheckTick \/ CheckDrained \/ LoadTarget \/ StoreLoadedTarget
               \/ StopAtEnd \/ RunnerExit
      BY <3>2 DEF CheckTick, CheckDrained, LoadTarget, StoreLoadedTarget,
                  StopAtEnd, RunnerExit, Replacing, repVars, callVars, workerVars
    <3> QED
      BY <1>5, <3>1, <3>2 DEF RunnerStep
  <2>2. Counting' => Counting
    BY <2>1 DEF Counting, Step
  <2> QED
    BY <2>1, <2>2, StillCounting
<1> QED
  BY <1>1, <1>2, <1>3, <1>4, <1>5

LEMMA WorkerKeepsOverrun ==
    ASSUME TypeInv, OverrunInv, NEW w \in Worker, WorkerStep(w)
    PROVE  OverrunInv'
<1>1. /\ UNCHANGED <<profile, step, runner, isUnlimited>>
      /\ \A v \in Worker \ {w} : pc'[v] = pc[v]
      /\ pc \in [Worker -> WorkerPC]
  BY WorkerEffect DEF runnerVars, TypeInv, WorkerTypes
<1>2. Step' = Step /\ (Counting' <=> Counting)
  BY <1>1 DEF Step, Counting
<1>3. /\ stepCalls \in Nat /\ remaining \in Nat \cup {-1} /\ MaxCount \in Nat
      /\ Counting => Step.reps \in Nat
  <2>1. Counting => Launched
    BY DEF Counting, Launched
  <2> QED
    BY <2>1, DomainAssumption, StepTyped DEF TypeInv, StepTypes, CallTypes
<1> SUFFICES ASSUME Counting
             PROVE  stepCalls' + Cardinality(Taking)' + Left'
                       <= Step.reps + Cardinality(Worker)
  BY <1>1, <1>2 DEF OverrunInv
<1> DEFINE k == Cardinality(Taking)
           m == Cardinality(Worker)
           n == Cardinality(Taking)'
<1>4. /\ k \in Nat /\ m \in Nat /\ ~isUnlimited
      /\ stepCalls + k + Left <= Step.reps + m
  BY TakingIsFinite DEF OverrunInv
<1>5. /\ (pc[w] # "take" /\ pc'[w] = "take") => n = k + 1
      /\ (pc[w] = "take" /\ pc'[w] # "take") => n = k - 1
      /\ (pc[w] = "take" <=> pc'[w] = "take") => n = k
  BY <1>1, TakingChange
<1> HIDE DEF k, m, n
<1> SUFFICES stepCalls' + n + Left' <= Step.reps + m
  BY DEF n, m
<1>6. CASE ClaimRep(w)
  <2>1. /\ pc[w] = "claimRep" /\ stepCalls' = stepCalls
        /\ remaining' = IF remaining > 0 THEN remaining - 1 ELSE -1
        /\ pc'[w] = IF remaining' < 0 THEN "exit" ELSE "take"
    BY <1>1, <1>6 DEF ClaimRep, Goto, NoRepLeft, callVars
  <2>2. CASE remaining > 0
    <3>1. remaining' = remaining - 1 /\ pc'[w] = "take"
      BY <1>3, <2>1, <2>2
    <3>2. Left' = Left - 1 /\ Left \in Nat
      BY <1>3, <2>2, <3>1 DEF Left
    <3> QED
      BY <1>3, <1>4, <1>5, <2>1, <3>1, <3>2
  <2>3. CASE ~(remaining > 0)
    <3>1. remaining' = -1 /\ pc'[w] = "exit"
      BY <2>1, <2>3
    <3>2. Left' = 0 /\ Left = 0
      BY <2>3, <3>1 DEF Left
    <3> QED
      BY <1>3, <1>4, <1>5, <2>1, <3>1, <3>2
  <2> QED
    BY <2>2, <2>3
<1>7. CASE BeginCall(w)
  <2>1. /\ pc[w] = "take" /\ pc'[w] = "call" /\ remaining' = remaining
        /\ stepCalls' = SaturatingInc(stepCalls)
    BY <1>1, <1>7 DEF BeginCall, Goto, repVars
  <2>2. stepCalls' \in Nat /\ stepCalls' <= stepCalls + 1
    BY <1>3, <2>1 DEF SaturatingInc
  <2>3. Left' = Left /\ Left \in Nat
    BY <1>3, <2>1 DEF Left
  <2> QED
    BY <1>3, <1>4, <1>5, <2>1, <2>2, <2>3
<1>8. CASE ~ClaimRep(w) /\ ~BeginCall(w)
  <2>1. /\ remaining' = remaining /\ stepCalls' = stepCalls
        /\ pc'[w] = "take" => pc[w] = "take"
    <3>1. CASE StartHook(w) \/ CheckContext(w) \/ ScaleLoadActive(w)
               \/ ScaleCompare(w)
      BY <1>1, <3>1 DEF StartHook, CheckContext, ScaleLoadActive, ScaleCompare,
                        AfterFailedStart, repVars, callVars, Goto
    <3>2. CASE ClaimExitSlot(w) \/ RetryExitSlot(w) \/ CheckPause(w)
               \/ LeavePause(w)
      BY <1>1, <3>2 DEF ClaimExitSlot, RetryExitSlot, CheckPause, LeavePause,
                        AfterScaleDown, repVars, callVars, Goto
    <3>3. CASE LoadUnlimited(w) \/ TakeCancelled(w)
      BY <1>1, <1>4, <3>3 DEF LoadUnlimited, TakeCancelled, repVars, callVars,
                              Goto
    <3>4. CASE EndCall(w) \/ ExitHook(w) \/ LeaveActive(w) \/ WorkerDone(w)
      BY <1>1, <3>4 DEF EndCall, ExitHook, LeaveActive, WorkerDone, AfterCall,
                        repVars, callVars, Goto
    <3> QED
      BY <1>8, <3>1, <3>2, <3>3, <3>4 DEF WorkerStep
  <2>2. Left' = Left /\ Left \in Nat
    BY <1>3, <2>1 DEF Left
  <2> QED
    BY <1>3, <1>4, <1>5, <2>1, <2>2
<1> QED
  BY <1>6, <1>7, <1>8

LEMMA OverrunInvInductive ==
    ASSUME TypeInv, OverrunInv, [Next]_vars
    PROVE  OverrunInv'
<1>k. ASSUME UNCHANGED <<profile, runner, step, isUnlimited, remaining,
                         stepCalls, pc>>
      PROVE  OverrunInv'
  <2>1. Counting' => Counting
    BY <1>k DEF Counting, Step
  <2> QED
    BY <1>k, <2>1, StillCounting DEF OverrunInv
<1>1. CASE RunnerStep
  BY <1>1, RunnerKeepsOverrun
<1>2. ASSUME NEW w \in Worker, WorkerStep(w) PROVE OverrunInv'
  BY <1>2, WorkerKeepsOverrun
<1>3. ASSUME NEW t \in Adjuster, AdjustStep(t) PROVE OverrunInv'
  <2>1. CASE LoadActive(t)
    BY <2>1, <1>k DEF LoadActive, runnerVars, repVars, workerVars, callVars
  <2>2. CASE Spawn(t)
    <3>1. PICK w \in Worker : /\ pc[w] = "idle" /\ pc'[w] = "start"
                              /\ \A v \in Worker \ {w} : pc'[v] = pc[v]
      BY <2>2, SpawnEffect
    <3>2. Cardinality(Taking)' = Cardinality(Taking)
      BY <3>1, TakingChange
    <3>3. UNCHANGED <<profile, runner, step, isUnlimited, remaining, stepCalls>>
      BY <2>2, SpawnEffect DEF runnerVars, repVars, callVars
    <3>4. Step' = Step /\ Left' = Left /\ (Counting' <=> Counting)
      BY <3>3 DEF Step, Left, Counting
    <3> QED
      BY <3>2, <3>3, <3>4 DEF OverrunInv
  <2> QED
    BY <1>3, <2>1, <2>2 DEF AdjustStep
<1>4. CASE Launch
  <2>1. Counting' = FALSE /\ runner' = "begin"
    BY <1>4 DEF Launch, Counting
  <2> QED
    BY <2>1 DEF OverrunInv
<1>5. ASSUME NEW t \in Adjuster,
             \/ \E n \in Targets : UserSetConcurrency(t, n)
             \/ UserSetWorker(t)
             \/ \E e \in Errs \cup {Nil} : UserFinish(t, e)
      PROVE  OverrunInv'
  BY <1>5, <1>k DEF UserSetConcurrency, UserSetWorker, UserFinish, runnerVars,
                    repVars, workerVars, callVars
<1>6. CASE TimePasses \/ CancelParent \/ WaitGroupIsZero \/ ReadResult \/ Ended
           \/ UNCHANGED vars
  BY <1>6, <1>k DEF TimePasses, CancelParent, WaitGroupIsZero, ReadResult, Ended,
                    vars, runnerVars, repVars, workerVars, callVars
<1> QED
  BY <1>1, <1>2, <1>3, <1>4, <1>5, <1>6 DEF Next

\* However many workers are about to call the worker function when a step
\* begins to count, and however they compete afterwards, it makes at most a call
\* more for each of them (workerpool.go:340-350, 396-398).
THEOREM RepsOverrunHolds == Spec => []RepsOverrunBound
<1>1. Init => OverrunInv
  BY DEF Init, OverrunInv, Counting
<1>2. PoolInv /\ OverrunInv /\ [Next]_vars => OverrunInv'
  BY OverrunInvInductive DEF PoolInv
<1>3. PoolInv /\ OverrunInv => RepsOverrunBound
  <2> SUFFICES ASSUME PoolInv, OverrunInv, Counting
               PROVE  stepCalls <= Step.reps + Cardinality(Worker)
    BY DEF RepsOverrunBound, Counting
  <2>1. /\ stepCalls \in Nat /\ remaining \in Nat \cup {-1} /\ Launched
    BY DEF PoolInv, TypeInv, StepTypes, CallTypes, Counting, Launched
  <2>2. Left \in Nat /\ Step.reps \in Nat
    BY <2>1, StepTyped DEF Left, PoolInv, TypeInv
  <2> QED
    BY <2>1, <2>2, TakingIsFinite DEF OverrunInv
<1> QED
  BY <1>1, <1>2, <1>3, PoolInvHolds, PTL DEF Spec

----------------------------------------------------------------------------
(* RepsUseStepFunction. *)

OwnUpTo(i) == {k \in 1 .. i : ~profile[k].pause /\ profile[k].own}

\* The steps that have still to set their worker function.
FuncToSet == {"unlaunched", "begin", "pausing", "reps", "func"}

\* While users change nothing, only the runner adjusts, and only when it waits.
OnlyRunnerAdjusts ==
    \A t \in Adjuster : adj[t].at # "none" => t = Runner /\ runner = "wait"

\* Where all steps are limited by repetitions, no worker of one step is left when
\* the next one begins.
NobodyBetween ==
    (\/ runner \in {"unlaunched", "begin", "pausing", "reps", "func", "apply"}
     \/ runner = "end" /\ ~cancelled) => active = 0

FuncInv ==
    /\ runner = "pausing" => Step.pause
    /\ runner = "func" => Step.own
    /\ adjusts = 0 =>
          /\ OnlyRunnerAdjusts
          /\ func = FunctionOf(IF runner \in FuncToSet THEN step - 1 ELSE step)
          /\ LimitedOnly => NobodyBetween

LEMMA FunctionOfStep ==
    ASSUME NEW i \in Nat \ {0}
    PROVE  /\ ~profile[i].pause /\ profile[i].own => FunctionOf(i) = i
           /\ profile[i].pause \/ ~profile[i].own =>
                 FunctionOf(i) = FunctionOf(i - 1)
<1>1. \A k \in 1 .. i : k \in 1 .. i - 1 \/ k = i
  OBVIOUS
<1>2. i \in 1 .. i /\ 1 .. i - 1 \subseteq 1 .. i /\ i \notin 1 .. i - 1
  OBVIOUS
<1>3. ASSUME ~profile[i].pause, profile[i].own PROVE FunctionOf(i) = i
  <2>1. i \in OwnUpTo(i)
    BY <1>2, <1>3 DEF OwnUpTo
  <2>2. \A k \in OwnUpTo(i) : k \in Int /\ k <= i
    BY DEF OwnUpTo
  <2>3. SetMax(OwnUpTo(i)) \in OwnUpTo(i)
        /\ \A k \in OwnUpTo(i) : k <= SetMax(OwnUpTo(i))
    BY <2>1, <2>2 DEF SetMax
  <2>4. SetMax(OwnUpTo(i)) = i
    BY <2>1, <2>2, <2>3
  <2> QED
    BY <2>1, <2>4 DEF FunctionOf, OwnUpTo
<1>4. ASSUME profile[i].pause \/ ~profile[i].own
      PROVE  FunctionOf(i) = FunctionOf(i - 1)
  <2>1. OwnUpTo(i) = OwnUpTo(i - 1)
    BY <1>1, <1>2, <1>4 DEF OwnUpTo
  <2>2. \A j : FunctionOf(j) = IF OwnUpTo(j) = {} THEN PoolFunc
                               ELSE SetMax(OwnUpTo(j))
    BY DEF FunctionOf, OwnUpTo
  <2> HIDE DEF OwnUpTo
  <2> QED
    BY <2>1, <2>2
<1> QED
  BY <1>3, <1>4

\* Nobody enters or leaves a pool that is empty by itself.
LEMMA EmptyStaysEmpty ==
    ASSUME PoolInv, active = 0, NEW w \in Worker, WorkerStep(w)
    PROVE  active' = 0 /\ pc[w] \in {"idle", "wgDone"}
<1>1. RunSet = {}
  BY AccountingDef, SetsAreFinite, FS_EmptySet DEF PoolInv
<1>2. ~InRun(w)
  BY <1>1 DEF RunSet
<1>3. pc[w] \in {"idle", "wgDone"}
  BY <1>2 DEF InRun
<1>4. ExitHook(w) \/ WorkerDone(w)
  BY <1>3 DEF WorkerStep, StartHook, CheckContext, ScaleLoadActive, ScaleCompare,
              ClaimExitSlot, RetryExitSlot, CheckPause, LeavePause, LoadUnlimited,
              ClaimRep, BeginCall, TakeCancelled, EndCall, LeaveActive
<1> QED
  BY <1>3, <1>4 DEF ExitHook, WorkerDone, countVars

LEMMA FuncKept ==
    ASSUME FuncInv, UNCHANGED <<profile, runner, step, func, active, adj, adjusts>>,
           cancelled => cancelled'
    PROVE  FuncInv'
<1>1. Step' = Step /\ LimitedOnly' = LimitedOnly
      /\ FunctionOf(step)' = FunctionOf(step)
      /\ FunctionOf(step - 1)' = FunctionOf(step - 1)
  BY DEF Step, LimitedOnly, FunctionOf
<1> QED
  BY <1>1 DEF FuncInv, OnlyRunnerAdjusts, NobodyBetween

\* The runner moves on within a step, and no user has changed anything.
LEMMA RunnerKeepsFunc ==
    ASSUME PoolInv, FuncInv, RunnerStep
    PROVE  FuncInv'
<1>0. /\ Launched /\ step \in Nat \ {0} /\ step \in 1 .. Len(profile)
      /\ runner \in {"reps", "func", "apply", "wait", "tick", "drain", "target",
                    "load"} => ~Step.pause
      /\ adj \in [Adjuster -> Adjusts] /\ Runner \in Adjuster
  BY DEF PoolInv, TypeInv, RunnerTypes, InProfile, AdjTypes, Adjuster, Launched,
         RunnerStep, BeginPause, EndPause, BeginStep, StoreReps, SetStepWorker,
         ApplyConcurrency, TickArrives, EndOnCancel, CheckTick, CheckDrained,
         LoadTarget, StoreLoadedTarget, EndStep, StopAtEnd, RunnerExit
<1>1. UNCHANGED <<profile, adjusts, active>> /\ (cancelled => cancelled')
  BY DEF RunnerStep, BeginPause, EndPause, BeginStep, StoreReps, SetStepWorker,
         ApplyConcurrency, TickArrives, EndOnCancel, CheckTick, CheckDrained,
         LoadTarget, StoreLoadedTarget, EndStep, StopAtEnd, RunnerExit, Finish,
         countVars, endVars, userVars
<1>2. /\ LimitedOnly' = LimitedOnly
      /\ \A i : FunctionOf(i)' = FunctionOf(i)
  BY <1>1 DEF LimitedOnly, FunctionOf
<1>3. /\ ~Step.pause /\ Step.own => FunctionOf(step) = step
      /\ Step.pause \/ ~Step.own => FunctionOf(step) = FunctionOf(step - 1)
  BY <1>0, FunctionOfStep DEF Step
<1>4. /\ runner' = "pausing" => Step'.pause
      /\ runner' = "func" => Step'.own
  <2>1. CASE BeginPause \/ BeginStep \/ StoreReps
    <3>1. step' = step /\ Step' = Step
      BY <1>1, <2>1 DEF BeginPause, BeginStep, StoreReps, Step
    <3> QED
      BY <2>1, <3>1 DEF BeginPause, BeginStep, StoreReps, AfterReps
  <2>2. CASE ~BeginPause /\ ~BeginStep /\ ~StoreReps
    BY <2>2
    DEF RunnerStep, EndPause, SetStepWorker, ApplyConcurrency, TickArrives,
        EndOnCancel, CheckTick, CheckDrained, LoadTarget, StoreLoadedTarget,
        EndStep, StopAtEnd, RunnerExit, Replacing
  <2> QED
    BY <2>1, <2>2
<1>5. SUFFICES ASSUME adjusts = 0
               PROVE  /\ OnlyRunnerAdjusts'
                      /\ func' = FunctionOf(IF runner' \in FuncToSet
                                            THEN step' - 1 ELSE step')
                      /\ LimitedOnly => NobodyBetween'
  BY <1>1, <1>2, <1>4 DEF FuncInv
<1>6. /\ OnlyRunnerAdjusts
      /\ func = FunctionOf(IF runner \in FuncToSet THEN step - 1 ELSE step)
      /\ LimitedOnly => NobodyBetween
      /\ runner = "pausing" => Step.pause
      /\ runner = "func" => Step.own
  BY <1>5 DEF FuncInv
<1>7. OnlyRunnerAdjusts'
  <2>1. CASE ApplyConcurrency \/ StoreLoadedTarget
    <3>1. runner' = "wait" /\ \A t \in Adjuster \ {Runner} : adj'[t] = adj[t]
      BY <1>0, <2>1 DEF ApplyConcurrency, StoreLoadedTarget, StoreTarget
    <3> QED
      BY <1>6, <3>1 DEF OnlyRunnerAdjusts
  <2>2. CASE LoadTarget
    <3>1. /\ \A t \in Adjuster : adj'[t].at = adj[t].at
          /\ runner = "target"
      BY <1>0, <2>2 DEF LoadTarget, Adjusts
    <3> QED
      BY <1>6, <3>1 DEF OnlyRunnerAdjusts
  <2>3. CASE ~ApplyConcurrency /\ ~StoreLoadedTarget /\ ~LoadTarget
    <3>1. adj' = adj /\ (runner = "wait" => RunnerIsFree)
      BY <2>3
      DEF RunnerStep, BeginPause, EndPause, BeginStep, StoreReps, SetStepWorker,
          TickArrives, EndOnCancel, CheckTick, CheckDrained, EndStep, StopAtEnd,
          RunnerExit
    <3> QED
      BY <1>6, <3>1 DEF OnlyRunnerAdjusts, RunnerIsFree
  <2> QED
    BY <2>1, <2>2, <2>3
<1>8. func' = FunctionOf(IF runner' \in FuncToSet THEN step' - 1 ELSE step')
  <2>1. CASE BeginPause \/ EndPause
    <3>1. /\ func' = func /\ step' = step
          /\ runner \in {"begin", "pausing"} /\ runner' \in {"pausing", "end"}
          /\ Step.pause
      BY <1>6, <2>1 DEF BeginPause, EndPause, repVars
    <3> QED
      BY <1>3, <1>6, <3>1 DEF FuncToSet
  <2>2. CASE BeginStep \/ StoreReps
    <3>1. /\ func' = func /\ step' = step
          /\ runner \in {"begin", "reps"} /\ runner' \in {"reps", AfterReps}
      BY <2>2 DEF BeginStep, StoreReps
    <3>2. AfterReps = "func" \/ (AfterReps = "apply" /\ ~Step.own)
      BY DEF AfterReps
    <3>3. func = FunctionOf(step - 1)
      BY <1>6, <3>1 DEF FuncToSet
    <3>4. CASE runner' \in {"reps", "func"}
      <4>1. runner' \in FuncToSet
        BY <3>4 DEF FuncToSet
      <4> QED
        BY <3>1, <3>3, <4>1
    <3>5. CASE runner' = "apply" /\ ~Step.own
      <4>1. runner' \notin FuncToSet
        BY <3>5 DEF FuncToSet
      <4> QED
        BY <1>3, <3>1, <3>3, <3>5, <4>1
    <3> QED
      BY <3>1, <3>2, <3>4, <3>5
  <2>3. CASE SetStepWorker
    <3>1. /\ func' = step /\ step' = step /\ runner = "func" /\ runner' = "apply"
      BY <2>3 DEF SetStepWorker
    <3> QED
      BY <1>0, <1>3, <1>6, <3>1 DEF FuncToSet
  <2>4. CASE EndStep
    <3>1. /\ func' = func /\ runner = "end"
          /\ \/ runner' = "begin" /\ step' = step + 1
             \/ runner' \in {"exit", "stop"} /\ step' = step
      BY <2>4 DEF EndStep, repVars
    <3>2. func = FunctionOf(step)
      BY <1>6, <3>1 DEF FuncToSet
    <3>3. CASE runner' = "begin" /\ step' = step + 1
      <4>1. runner' \in FuncToSet /\ step' - 1 = step
        BY <1>0, <3>3 DEF FuncToSet
      <4> QED
        BY <3>1, <3>2, <4>1
    <3>4. CASE runner' \in {"exit", "stop"} /\ step' = step
      <4>1. runner' \notin FuncToSet
        BY <3>4 DEF FuncToSet
      <4> QED
        BY <3>1, <3>2, <3>4, <4>1
    <3> QED
      BY <3>1, <3>3, <3>4
  <2>5. CASE ~BeginPause /\ ~EndPause /\ ~BeginStep /\ ~StoreReps
             /\ ~SetStepWorker /\ ~EndStep
    <3>1. /\ func' = func /\ step' = step
          /\ runner \notin FuncToSet /\ runner' \notin FuncToSet
      BY <2>5
      DEF RunnerStep, ApplyConcurrency, TickArrives, EndOnCancel, CheckTick,
          CheckDrained, LoadTarget, StoreLoadedTarget, StopAtEnd, RunnerExit,
          Replacing, repVars, FuncToSet
    <3> QED
      BY <1>6, <3>1
  <2> QED
    BY <2>1, <2>2, <2>3, <2>4, <2>5
<1>9. ASSUME LimitedOnly PROVE NobodyBetween'
  <2>1. CASE BeginPause \/ EndPause \/ BeginStep \/ StoreReps \/ SetStepWorker
    BY <1>1, <1>6, <1>9, <2>1
    DEF NobodyBetween, BeginPause, EndPause, BeginStep, StoreReps, SetStepWorker
  <2>2. CASE EndStep
    <3>1. runner = "end" /\ (runner' = "begin" => ~cancelled)
          /\ runner' \in {"begin", "stop", "exit"}
      BY <2>2 DEF EndStep
    <3> QED
      BY <1>1, <1>6, <1>9, <3>1 DEF NobodyBetween
  <2>3. CASE CheckTick
    <3>1. ~Step.timed
      BY <1>0, <1>9, <2>3 DEF LimitedOnly, Step, CheckTick
    <3>2. runner' \in {"drain", "target"}
      BY <2>3, <3>1 DEF CheckTick, Replacing
    <3> QED
      BY <3>2 DEF NobodyBetween
  <2>4. CASE CheckDrained
    <3>1. runner' = "wait" \/ active = 0
      BY <2>4 DEF CheckDrained, AllWorkersExited
    <3> QED
      BY <1>1, <3>1 DEF NobodyBetween
  <2>5. CASE EndOnCancel
    BY <1>1, <2>5 DEF EndOnCancel, SeesCancel, NobodyBetween
  <2>6. CASE ApplyConcurrency \/ TickArrives \/ LoadTarget \/ StoreLoadedTarget
             \/ StopAtEnd \/ RunnerExit
    BY <2>6 DEF ApplyConcurrency, TickArrives, LoadTarget, StoreLoadedTarget,
                StopAtEnd, RunnerExit, NobodyBetween
  <2> QED
    BY <2>1, <2>2, <2>3, <2>4, <2>5, <2>6 DEF RunnerStep
<1> QED
  BY <1>7, <1>8, <1>9

LEMMA InitFuncInv == Init => FuncInv
<1> SUFFICES ASSUME Init PROVE FuncInv
  OBVIOUS
<1>1. OwnUpTo(0) = {}
  BY DEF OwnUpTo
<1>2. FunctionOf(0) = PoolFunc
  BY <1>1 DEF FunctionOf, OwnUpTo
<1> QED
  BY <1>2 DEF Init, FuncInv, FuncToSet, OnlyRunnerAdjusts, NobodyBetween,
              NoAdjust

LEMMA FuncInvInductive ==
    ASSUME PoolInv, FuncInv, [Next]_vars
    PROVE  FuncInv'
<1>0. adjusts \in Nat /\ step \in Nat \ {0} /\ (~Launched => step = 1)
  BY DEF PoolInv, TypeInv, UserTypes, RunnerTypes, BeforeLaunch
<1>1. CASE RunnerStep
  BY <1>1, RunnerKeepsFunc
<1>2. ASSUME NEW w \in Worker, WorkerStep(w) PROVE FuncInv'
  <2>1. UNCHANGED <<profile, runner, step, func, adj, adjusts, cancelled>>
    BY <1>2, WorkerEffect DEF PoolInv, runnerVars, userVars, endVars
  <2>2. active = 0 => active' = 0
    BY <1>2, EmptyStaysEmpty
  <2>3. Step' = Step /\ LimitedOnly' = LimitedOnly
        /\ \A i : FunctionOf(i)' = FunctionOf(i)
    BY <2>1 DEF Step, LimitedOnly, FunctionOf
  <2> QED
    BY <2>1, <2>2, <2>3 DEF FuncInv, OnlyRunnerAdjusts, NobodyBetween
<1>3. ASSUME NEW t \in Adjuster, AdjustStep(t) PROVE FuncInv'
  <2>1. /\ UNCHANGED <<profile, runner, step, func, adjusts, cancelled>>
        /\ adj[t].at # "none"
        /\ \A u \in Adjuster \ {t} : adj'[u] = adj[u]
    BY <1>3 DEF AdjustStep, LoadActive, Spawn, runnerVars, repVars, userVars,
                endVars, PoolInv, TypeInv, AdjTypes
  <2>2. Step' = Step /\ LimitedOnly' = LimitedOnly
        /\ \A i : FunctionOf(i)' = FunctionOf(i)
    BY <2>1 DEF Step, LimitedOnly, FunctionOf
  <2>3. CASE adjusts = 0
    <3>1. t = Runner /\ runner = "wait"
      BY <2>1, <2>3 DEF FuncInv, OnlyRunnerAdjusts
    <3> QED
      BY <2>1, <2>2, <3>1 DEF FuncInv, OnlyRunnerAdjusts, NobodyBetween
  <2>4. CASE adjusts # 0
    BY <2>1, <2>2, <2>4 DEF FuncInv
  <2> QED
    BY <2>3, <2>4
<1>4. CASE Launch
  <2>1. /\ UNCHANGED <<profile, step, func, active, adj, adjusts, cancelled>>
        /\ runner = "unlaunched" /\ runner' = "begin"
    BY <1>4 DEF Launch, repVars, userVars, endVars
  <2>2. LimitedOnly' = LimitedOnly /\ \A i : FunctionOf(i)' = FunctionOf(i)
    BY <2>1 DEF LimitedOnly, FunctionOf
  <2> QED
    BY <2>1, <2>2 DEF FuncInv, OnlyRunnerAdjusts, NobodyBetween, FuncToSet
<1>5. ASSUME NEW t \in Adjuster,
             (\E n \in Targets : UserSetConcurrency(t, n)) \/ UserSetWorker(t)
      PROVE  FuncInv'
  <2>1. adjusts' # 0 /\ UNCHANGED <<profile, runner, step>>
    BY <1>0, <1>5 DEF UserSetConcurrency, UserSetWorker, runnerVars
  <2> QED
    BY <2>1 DEF FuncInv, Step
<1>6. ASSUME NEW t \in Adjuster, NEW e, UserFinish(t, e) PROVE FuncInv'
  BY <1>6, FuncKept DEF UserFinish, Finish, runnerVars, repVars, countVars,
                        userVars, endVars
<1>7. CASE TimePasses \/ CancelParent \/ WaitGroupIsZero \/ ReadResult \/ Ended
           \/ UNCHANGED vars
  BY <1>7, FuncKept
  DEF TimePasses, CancelParent, WaitGroupIsZero, ReadResult, Ended, vars,
      runnerVars, repVars, countVars, userVars, endVars
<1> QED
  BY <1>1, <1>2, <1>3, <1>4, <1>5, <1>6, <1>7 DEF Next

\* A step limited by repetitions runs its own worker function, or the last one
\* before it, from its first call to its last one (workerpool.go:396-405).
THEOREM RepsUseStepFunctionHolds == Spec => RepsUseStepFunction
<1>1. Init => FuncInv
  BY InitFuncInv
<1>2. PoolInv /\ FuncInv /\ [Next]_vars => FuncInv'
  BY FuncInvInductive
<1>3. PoolInv /\ FuncInv /\ [Next]_vars =>
          [(LimitedOnly /\ adjusts = 0) =>
              \A w \in Worker : (pc[w] = "take" /\ pc'[w] = "call") =>
                  func = FunctionOf(step)]_vars
  <2> SUFFICES ASSUME PoolInv, FuncInv, LimitedOnly, adjusts = 0,
                      NEW w \in Worker, pc[w] = "take"
               PROVE  func = FunctionOf(step)
    OBVIOUS
  <2>1. w \in RunSet
    BY DEF RunSet, InRun
  <2>2. active # 0
    BY <2>1, AccountingDef, SetsAreFinite, FS_EmptySet DEF PoolInv
  <2>3. runner \notin FuncToSet
    BY <2>2 DEF FuncInv, NobodyBetween, FuncToSet
  <2> QED
    BY <2>3 DEF FuncInv
<1> QED
  BY <1>1, <1>2, <1>3, PoolInvHolds, PTL DEF Spec, RepsUseStepFunction

----------------------------------------------------------------------------
(* RepetitionsExact. *)

\* The counters saturate above the repetitions of every profile.
CountsSuffice ==
    \A p \in Profiles : \A i \in 0 .. Len(p) : RepsUpTo(p)[i] <= MaxCount

\* Only worker functions and worker hooks use the API.  Anybody else may, before
\* the first step, spawn workers that still find isUnlimited set.
UsedFromWithin == Caller = {} /\ ~StepHooks

LEMMA RepsOfStep ==
    ASSUME NEW p \in Seq(Steps)
    PROVE  /\ RepsUpTo(p)[0] = 0
           /\ \A i \in 1 .. Len(p) :
                 RepsUpTo(p)[i] = RepsUpTo(p)[i - 1]
                                     + (IF p[i].pause THEN 0 ELSE p[i].reps)
<1> DEFINE n == Len(p)
           g == [i \in 1 .. n |-> IF p[i].pause THEN 0 ELSE p[i].reps]
           Solves(f) ==
               f = [i \in 0 .. n |-> IF i = 0 THEN 0
                                     ELSE f[i - 1] + (IF p[i].pause THEN 0
                                                      ELSE p[i].reps)]
           r == RepsUpTo(p)
<1>1. r = CHOOSE f : Solves(f)
  BY DEF RepsUpTo
<1>2. n \in Nat
  OBVIOUS
<1>3. \E f : Solves(f)
  <2>1. PICK f : f = [i \in 0 .. n |-> IF i = 0 THEN 0 ELSE f[i - 1] + g[i]]
    <3> HIDE DEF n, g
    <3> QED
      BY <1>2, SumsExist
  <2>2. \A i \in 0 .. n : i # 0 => i \in 1 .. n
    BY <1>2
  <2>3. \A i \in 0 .. n :
           f[i] = IF i = 0 THEN 0
                  ELSE f[i - 1] + (IF p[i].pause THEN 0 ELSE p[i].reps)
    BY <2>1, <2>2
  <2>4. f = [i \in 0 .. n |-> f[i]]
    BY <2>1
  <2>5. Solves(f)
    BY <2>3, <2>4
  <2> QED
    BY <2>5
<1>4. Solves(r)
  <2> HIDE DEF Solves, r
  <2> QED
    BY <1>1, <1>3
<1>5. \A i \in 0 .. n : r[i] = IF i = 0 THEN 0
                               ELSE r[i - 1] + (IF p[i].pause THEN 0
                                                ELSE p[i].reps)
  <2> HIDE DEF r
  <2> QED
    BY <1>4
<1>6. 0 \in 0 .. n /\ \A i \in 1 .. n : i \in 0 .. n /\ i # 0
  BY <1>2
<1> QED
  BY <1>5, <1>6

\* The workers that have claimed a repetition and not yet counted the call.
Holding == {w \in Worker : pc[w] \in {"take", "call"}}

\* Nobody claims or holds a repetition between two steps.
BetweenSteps == {"unlaunched", "begin", "pausing", "reps", "end", "stop"}

\* No step but pauses has begun.
Untouched ==
    /\ runner \in BetweenSteps \ {"reps"}
    /\ \A w \in Worker : pc[w] = "idle"
    /\ \A t \in Adjuster : adj[t].at = "none"

RepsTo(i) == RepsUpTo(profile)[i]

\* The calls to make by the steps whose repetitions have been stored.
Due == IF runner \in {"unlaunched", "begin", "reps"} THEN RepsTo(step - 1)
                                                    ELSE RepsTo(step)

\* Every repetition is left to claim, held by one worker, or completed.
RepsInv ==
    (LimitedOnly /\ ~cancelled) =>
        /\ ~finished /\ runner \notin {"exit", "over"}
        /\ isUnlimited => Untouched
        /\ runner = "pausing" => Step.pause
        /\ runner = "drain" => Left = 0
        /\ runner \in BetweenSteps => Left = 0 /\ Cardinality(Holding) = 0
        /\ completed + Cardinality(Holding) + Left = Due

LEMMA HoldingIsFinite == IsFiniteSet(Holding) /\ Cardinality(Holding) \in Nat
BY ThreadAssumption, FS_Subset, FS_CardinalityType DEF Holding

\* A step of one worker adds it to Holding, takes it out, or does neither.
LEMMA HoldingChange ==
    ASSUME NEW w \in Worker, \A v \in Worker \ {w} : pc'[v] = pc[v]
    PROVE  /\ (w \notin Holding /\ w \in Holding') =>
                 Cardinality(Holding)' = Cardinality(Holding) + 1
           /\ (w \in Holding /\ w \notin Holding') =>
                 Cardinality(Holding)' = Cardinality(Holding) - 1
           /\ (w \in Holding <=> w \in Holding') =>
                 Cardinality(Holding)' = Cardinality(Holding)
<1>0. Cardinality(Holding)' = Cardinality(Holding')
  OBVIOUS
<1>1. ASSUME w \notin Holding, w \in Holding'
      PROVE  Cardinality(Holding)' = Cardinality(Holding) + 1
  <2>1. Holding' = Holding \cup {w}
    BY <1>1 DEF Holding
  <2> QED
    BY <1>0, <1>1, <2>1, HoldingIsFinite, AddOne
<1>2. ASSUME w \in Holding, w \notin Holding'
      PROVE  Cardinality(Holding)' = Cardinality(Holding) - 1
  <2>1. Holding' = Holding \ {w}
    BY <1>2 DEF Holding
  <2> QED
    BY <1>0, <1>2, <2>1, HoldingIsFinite, RemoveOne
<1>3. ASSUME w \in Holding <=> w \in Holding'
      PROVE  Cardinality(Holding)' = Cardinality(Holding)
  <2>1. Holding' = Holding
    BY <1>3 DEF Holding
  <2> QED
    BY <1>0, <2>1
<1> QED
  BY <1>1, <1>2, <1>3

LEMMA RepsKept ==
    ASSUME RepsInv, cancelled => cancelled', isUnlimited => adj' = adj,
           UNCHANGED <<profile, step, runner, isUnlimited, remaining, completed,
                       pc, finished>>
    PROVE  RepsInv'
<1>1. /\ Holding' = Holding /\ Left' = Left /\ Due' = Due /\ Step' = Step
      /\ LimitedOnly' = LimitedOnly
  BY DEF Holding, Left, Due, RepsTo, Step, LimitedOnly
<1>2. isUnlimited => Untouched' = Untouched
  BY DEF Untouched
<1> QED
  BY <1>1, <1>2 DEF RepsInv

LEMMA RunnerKeepsReps ==
    ASSUME PoolInv, RepsInv, RunnerStep
    PROVE  RepsInv'
<1> SUFFICES ASSUME LimitedOnly', ~cancelled' PROVE RepsInv'
  BY DEF RepsInv
<1>1. UNCHANGED <<profile, completed, pc>> /\ (cancelled => cancelled')
  BY DEF RunnerStep, BeginPause, EndPause, BeginStep, StoreReps, SetStepWorker,
         ApplyConcurrency, TickArrives, EndOnCancel, CheckTick, CheckDrained,
         LoadTarget, StoreLoadedTarget, EndStep, StopAtEnd, RunnerExit, Finish,
         workerVars, endVars, callVars
<1> DEFINE k == Cardinality(Holding)
<1>2. LimitedOnly /\ ~cancelled /\ Holding' = Holding /\ k \in Nat
  BY <1>1, HoldingIsFinite DEF LimitedOnly, Holding
<1>3. /\ ~finished /\ runner \notin {"exit", "over"}
      /\ isUnlimited => Untouched
      /\ runner = "pausing" => Step.pause
      /\ runner = "drain" => Left = 0
      /\ runner \in BetweenSteps => Left = 0 /\ k = 0
      /\ completed + k + Left = Due
  BY <1>2 DEF RepsInv
<1>4. /\ Launched /\ step \in 1 .. Len(profile) /\ profile \in Seq(Steps)
      /\ Step.reps \in Nat /\ completed \in Nat /\ step \in Nat \ {0}
      /\ runner \in {"reps", "func", "apply", "wait", "tick", "drain", "target",
                    "load"} => ~Step.pause
  <2>1. Launched
    BY DEF RunnerStep, BeginPause, EndPause, BeginStep, StoreReps, SetStepWorker,
           ApplyConcurrency, TickArrives, EndOnCancel, CheckTick, CheckDrained,
           LoadTarget, StoreLoadedTarget, EndStep, StopAtEnd, RunnerExit, Launched
  <2> QED
    BY <2>1, StepTyped, DomainAssumption
    DEF PoolInv, TypeInv, RunnerTypes, InProfile, CallTypes
<1>5. ~Step.pause => Step.reps > 0 /\ ~Step.timed
  BY <1>2, <1>4 DEF LimitedOnly, Step
<1>r. /\ RepsTo(step) = RepsTo(step - 1) + (IF Step.pause THEN 0 ELSE Step.reps)
      /\ \A i : RepsTo(i)' = RepsTo(i)
  BY <1>1, <1>4, RepsOfStep DEF RepsTo, Step
<1>d. k = 0 /\ Left = 0 => completed = Due
  <2> HIDE DEF k
  <2> QED
    BY <1>3, <1>4
<1>6. CASE BeginPause
  <2>1. /\ runner = "begin" /\ runner' = "pausing" /\ Step' = Step /\ Step.pause
        /\ UNCHANGED <<step, isUnlimited, remaining, adj, finished>>
    BY <1>1, <1>6 DEF BeginPause, repVars, endVars, Step
  <2>2. Left' = Left /\ Due = RepsTo(step - 1) /\ Due' = RepsTo(step)
    BY <1>r, <2>1 DEF Left, Due
  <2>3. Due' = Due
    <3>1. k = 0 /\ Left = 0
      BY <1>3, <2>1 DEF BetweenSteps
    <3>2. RepsTo(step - 1) \in Nat
      BY <1>d, <1>4, <2>2, <3>1
    <3> QED
      BY <1>r, <2>1, <2>2, <3>2
  <2>4. isUnlimited => Untouched'
    BY <1>1, <1>3, <2>1 DEF Untouched, BetweenSteps
  <2> QED
    BY <1>1, <1>2, <1>3, <2>1, <2>2, <2>3, <2>4 DEF RepsInv, BetweenSteps
<1>7. CASE BeginStep
  <2>1. /\ runner = "begin" /\ runner' = "reps" /\ ~isUnlimited'
        /\ UNCHANGED <<step, remaining, finished>>
    <3>1. ~Step.pause /\ Step.reps > 0 /\ Step.reps # 0
      BY <1>4, <1>5, <1>7 DEF BeginStep
    <3> QED
      BY <1>7, <3>1 DEF BeginStep, StepIsUnlimited, endVars, repVars
  <2>2. Left' = Left /\ Due' = Due
    BY <1>r, <2>1 DEF Left, Due
  <2> QED
    BY <1>1, <1>2, <1>3, <2>1, <2>2 DEF RepsInv, BetweenSteps
<1>8. CASE StoreReps
  <2>1. /\ runner = "reps" /\ runner' \in {"func", "apply"} /\ ~isUnlimited'
        /\ UNCHANGED <<step, finished>> /\ remaining' = Step.reps
        /\ ~Step.pause
    <3>1. runner = "reps" /\ ~isUnlimited
      BY <1>3, <1>8 DEF StoreReps, Untouched
    <3> QED
      BY <1>4, <1>8, <3>1 DEF StoreReps, AfterReps, endVars
  <2>2. k = 0 /\ Left = 0
    BY <1>3, <2>1 DEF BetweenSteps
  <2>3. Left' = Step.reps /\ Due = RepsTo(step - 1) /\ Due' = RepsTo(step)
    BY <1>r, <1>4, <2>1 DEF Left, Due
  <2>4. completed = RepsTo(step - 1)
    BY <1>d, <2>2, <2>3
  <2>5. completed + k + Left' = Due'
    <3> HIDE DEF k
    <3> QED
      BY <1>4, <1>r, <2>1, <2>2, <2>3, <2>4
  <2> QED
    BY <1>1, <1>2, <1>3, <2>1, <2>2, <2>3, <2>5 DEF RepsInv, BetweenSteps
<1>9. CASE EndStep
  <2>1. /\ runner = "end" /\ UNCHANGED <<isUnlimited, remaining, adj, finished>>
        /\ \/ runner' = "begin" /\ step' = step + 1
           \/ runner' = "stop" /\ step' = step
    BY <1>2, <1>9 DEF EndStep, repVars, endVars
  <2>2. Left' = Left /\ Due' = Due
    <3>1. Due' = RepsTo(step)
      <4>1. CASE runner' = "begin" /\ step' = step + 1
        <5>1. Due' = RepsTo(step - 1)'
          BY <4>1 DEF Due
        <5>2. RepsTo(step - 1)' = RepsUpTo(profile')[step' - 1]
          BY DEF RepsTo
        <5>3. step' - 1 = step
          BY <1>4, <4>1
        <5> QED
          BY <1>1, <5>1, <5>2, <5>3 DEF RepsTo
      <4>2. CASE runner' = "stop" /\ step' = step
        BY <1>1, <4>2 DEF Due, RepsTo
      <4> QED
        BY <2>1, <4>1, <4>2
    <3> QED
      BY <2>1, <3>1 DEF Left, Due
  <2>3. isUnlimited => Untouched'
    BY <1>1, <1>3, <2>1 DEF Untouched, BetweenSteps
  <2> QED
    BY <1>1, <1>2, <1>3, <2>1, <2>2, <2>3 DEF RepsInv, BetweenSteps
<1>10. CASE EndPause
  <2>1. /\ runner = "pausing" /\ runner' = "end"
        /\ UNCHANGED <<step, isUnlimited, remaining, adj, finished>>
    BY <1>10 DEF EndPause, repVars, endVars
  <2>2. Left' = Left /\ Due' = Due
    BY <1>r, <2>1 DEF Left, Due
  <2>3. isUnlimited => Untouched'
    BY <1>1, <1>3, <2>1 DEF Untouched, BetweenSteps
  <2> QED
    BY <1>1, <1>2, <1>3, <2>1, <2>2, <2>3 DEF RepsInv, BetweenSteps
<1>11. CASE StopAtEnd \/ EndOnCancel \/ RunnerExit
  <2>1. FALSE
    BY <1>2, <1>3, <1>11 DEF StopAtEnd, Finish, FirstFinish, EndOnCancel,
                             SeesCancel, RunnerExit
  <2> QED
    BY <2>1
<1>12. CASE CheckDrained
  <2>1. /\ runner = "drain" /\ UNCHANGED <<step, isUnlimited, remaining, finished>>
        /\ runner' = "wait" \/ (runner' = "end" /\ active = 0)
    BY <1>12 DEF CheckDrained, AllWorkersExited, repVars, endVars
  <2>2. Left' = Left /\ Due' = Due /\ Left = 0 /\ ~isUnlimited
    BY <1>r, <1>3, <2>1 DEF Left, Due, Untouched, BetweenSteps
  <2>3. active = 0 => k = 0
    <3>1. Holding \subseteq RunSet
      BY DEF Holding, RunSet, InRun
    <3>2. active = 0 => RunSet = {}
      BY AccountingDef, SetsAreFinite, FS_EmptySet DEF PoolInv
    <3> QED
      BY <3>1, <3>2, FS_EmptySet
  <2> QED
    BY <1>1, <1>2, <1>3, <2>1, <2>2, <2>3 DEF RepsInv, BetweenSteps
<1>13. CASE CheckTick
  <2>1. /\ runner = "tick" /\ UNCHANGED <<step, isUnlimited, remaining, finished>>
        /\ runner' = "target" \/ (runner' = "drain" /\ remaining <= 0)
    <3>1. ~Step.timed
      BY <1>4, <1>5, <1>13 DEF CheckTick
    <3> QED
      BY <1>13, <3>1 DEF CheckTick, RepsUsed, Replacing, repVars, endVars
  <2>2. Left' = Left /\ Due' = Due /\ ~isUnlimited
    BY <1>r, <1>3, <2>1 DEF Left, Due, Untouched, BetweenSteps
  <2>3. runner' = "drain" => Left' = 0
    BY <2>1, <2>2 DEF Left, PoolInv, TypeInv, StepTypes
  <2> QED
    BY <1>1, <1>2, <1>3, <2>1, <2>2, <2>3 DEF RepsInv, BetweenSteps
<1>14. CASE SetStepWorker \/ ApplyConcurrency \/ TickArrives \/ LoadTarget
            \/ StoreLoadedTarget
  <2>1. /\ runner \in {"func", "apply", "wait", "target", "load"}
        /\ runner' \in {"apply", "wait", "tick", "load"}
        /\ UNCHANGED <<step, isUnlimited, remaining, finished>>
    BY <1>14 DEF SetStepWorker, ApplyConcurrency, TickArrives, LoadTarget,
                 StoreLoadedTarget, repVars, endVars
  <2>2. Left' = Left /\ Due' = Due /\ ~isUnlimited
    BY <1>r, <1>3, <2>1 DEF Left, Due, Untouched, BetweenSteps
  <2> QED
    BY <1>1, <1>2, <1>3, <2>1, <2>2 DEF RepsInv, BetweenSteps
<1> QED
  BY <1>6, <1>7, <1>8, <1>9, <1>10, <1>11, <1>12, <1>13, <1>14 DEF RunnerStep

LEMMA WorkerKeepsReps ==
    ASSUME PoolInv, CountsSuffice, RepsInv, NEW w \in Worker, WorkerStep(w)
    PROVE  RepsInv'
<1>1. /\ UNCHANGED <<profile, step, runner, isUnlimited, adj, finished, cancelled>>
      /\ \A v \in Worker \ {w} : pc'[v] = pc[v]
      /\ pc \in [Worker -> WorkerPC]
  BY WorkerEffect DEF runnerVars, endVars, PoolInv, TypeInv, WorkerTypes
<1>2. Step' = Step /\ Due' = Due /\ LimitedOnly' = LimitedOnly
  BY <1>1 DEF Step, Due, RepsTo, LimitedOnly
<1> SUFFICES ASSUME LimitedOnly, ~cancelled PROVE RepsInv'
  BY <1>1, <1>2 DEF RepsInv
<1> DEFINE k == Cardinality(Holding)
           n == Cardinality(Holding)'
<1>3. /\ runner = "drain" => Left = 0
      /\ runner \in BetweenSteps => Left = 0 /\ k = 0
      /\ completed + k + Left = Due /\ k \in Nat
      /\ isUnlimited => Untouched
  BY HoldingIsFinite DEF RepsInv
<1>4. completed \in Nat /\ remaining \in Nat \cup {-1} /\ Left \in Nat
  BY DEF PoolInv, TypeInv, CallTypes, StepTypes, Left
<1>5. ~isUnlimited
  <2>1. pc[w] # "idle"
    BY DEF WorkerStep, StartHook, CheckContext, ScaleLoadActive, ScaleCompare,
           ClaimExitSlot, RetryExitSlot, CheckPause, LeavePause, LoadUnlimited,
           ClaimRep, BeginCall, TakeCancelled, EndCall, ExitHook, LeaveActive,
           WorkerDone
  <2> QED
    BY <1>3, <2>1 DEF Untouched
<1>6. SUFFICES /\ completed' + n + Left' = Due
               /\ Left = 0 => Left' = 0
               /\ Left = 0 /\ k = 0 => n = 0
  <2> HIDE DEF k, n
  <2>1. /\ runner' = "drain" => Left' = 0
        /\ runner' \in BetweenSteps => Left' = 0 /\ n = 0
    BY <1>1, <1>3, <1>6
  <2> QED
    BY <1>1, <1>2, <1>5, <1>6, <2>1 DEF RepsInv, n
<1>7. /\ (w \notin Holding /\ w \in Holding') => n = k + 1
      /\ (w \in Holding /\ w \notin Holding') => n = k - 1
      /\ (w \in Holding <=> w \in Holding') => n = k
  BY <1>1, HoldingChange
<1>8. /\ w \in Holding <=> pc[w] \in {"take", "call"}
      /\ w \in Holding' <=> pc'[w] \in {"take", "call"}
      /\ w \in Holding => k # 0
  BY HoldingIsFinite, FS_EmptySet DEF Holding
<1> HIDE DEF k, n
<1>9. CASE ClaimRep(w)
  <2>1. /\ pc[w] = "claimRep" /\ completed' = completed
        /\ remaining' = IF remaining > 0 THEN remaining - 1 ELSE -1
        /\ pc'[w] = IF remaining' < 0 THEN "exit" ELSE "take"
    BY <1>1, <1>9 DEF ClaimRep, Goto, NoRepLeft, callVars
  <2>2. CASE remaining > 0
    <3>1. remaining' = remaining - 1 /\ pc'[w] = "take"
      BY <1>4, <2>1, <2>2
    <3>2. Left' = Left - 1 /\ Left > 0
      BY <1>4, <2>2, <3>1 DEF Left
    <3>3. n = k + 1
      BY <1>7, <1>8, <2>1, <3>1
    <3> QED
      BY <1>3, <1>4, <2>1, <3>2, <3>3
  <2>3. CASE ~(remaining > 0)
    <3>1. remaining' = -1 /\ pc'[w] = "exit"
      BY <2>1, <2>3
    <3>2. Left' = 0 /\ Left = 0
      BY <2>3, <3>1 DEF Left
    <3>3. n = k
      BY <1>7, <1>8, <2>1, <3>1
    <3> QED
      BY <1>3, <1>4, <2>1, <3>2, <3>3
  <2> QED
    BY <2>2, <2>3
<1>10. CASE EndCall(w)
  <2>1. /\ pc[w] = "call" /\ pc'[w] = "loop" /\ remaining' = remaining
        /\ completed' = SaturatingInc(completed)
    BY <1>1, <1>10 DEF EndCall, Goto, AfterCall, repVars
  <2>2. Left' = Left /\ n = k - 1 /\ k > 0
    BY <1>3, <1>7, <1>8, <2>1 DEF Left
  <2>3. Due <= MaxCount
    <3>1. runner # "unlaunched"
      BY <1>3, <2>2 DEF BetweenSteps
    <3>2. profile \in Profiles /\ step \in 1 .. Len(profile)
          /\ profile \in Seq(Steps)
      BY <3>1, DomainAssumption
      DEF PoolInv, TypeInv, RunnerTypes, InProfile, Launched
    <3>3. step \in 0 .. Len(profile) /\ step - 1 \in 0 .. Len(profile)
      BY <3>2
    <3> QED
      BY <3>2, <3>3 DEF CountsSuffice, Due, RepsTo
  <2>4. completed' = completed + 1
    BY <1>3, <1>4, <2>1, <2>2, <2>3, DomainAssumption DEF SaturatingInc
  <2> QED
    BY <1>3, <1>4, <2>2, <2>4
<1>11. CASE ~ClaimRep(w) /\ ~EndCall(w)
  <2>1. /\ remaining' = remaining /\ completed' = completed
        /\ pc'[w] \in {"take", "call"} <=> pc[w] \in {"take", "call"}
    <3>1. CASE StartHook(w) \/ CheckContext(w) \/ ScaleLoadActive(w)
               \/ ScaleCompare(w)
      BY <1>1, <3>1 DEF StartHook, CheckContext, ScaleLoadActive, ScaleCompare,
                        AfterFailedStart, repVars, callVars, Goto
    <3>2. CASE ClaimExitSlot(w) \/ RetryExitSlot(w) \/ CheckPause(w)
               \/ LeavePause(w)
      BY <1>1, <3>2 DEF ClaimExitSlot, RetryExitSlot, CheckPause, LeavePause,
                        AfterScaleDown, repVars, callVars, Goto
    <3>3. CASE LoadUnlimited(w) \/ TakeCancelled(w) \/ BeginCall(w)
      BY <1>1, <1>5, <3>3 DEF LoadUnlimited, TakeCancelled, BeginCall, repVars,
                              callVars, Goto
    <3>4. CASE ExitHook(w) \/ LeaveActive(w) \/ WorkerDone(w)
      BY <1>1, <3>4 DEF ExitHook, LeaveActive, WorkerDone, repVars, callVars,
                        Goto
    <3> QED
      BY <1>11, <3>1, <3>2, <3>3, <3>4 DEF WorkerStep
  <2>2. Left' = Left /\ n = k
    BY <1>7, <1>8, <2>1 DEF Left
  <2> QED
    BY <1>3, <2>1, <2>2
<1> QED
  BY <1>9, <1>10, <1>11

LEMMA RepsInvInductive ==
    ASSUME CountsSuffice, UsedFromWithin, PoolInv, RepsInv, [Next]_vars
    PROVE  RepsInv'
<1>c. ASSUME cancelled' PROVE RepsInv'
  BY <1>c DEF RepsInv
<1>1. CASE RunnerStep
  BY <1>1, RunnerKeepsReps
<1>2. ASSUME NEW w \in Worker, WorkerStep(w) PROVE RepsInv'
  BY <1>2, WorkerKeepsReps
<1>3. ASSUME NEW t \in Adjuster, AdjustStep(t) PROVE RepsInv'
  <2>1. CASE LimitedOnly /\ ~cancelled /\ isUnlimited
    <3>1. adj[t].at = "none"
      BY <2>1 DEF RepsInv, Untouched
    <3> QED
      BY <1>3, <3>1 DEF AdjustStep, LoadActive, Spawn
  <2>2. CASE ~(LimitedOnly /\ ~cancelled /\ isUnlimited)
    <3>1. UNCHANGED <<profile, step, runner, isUnlimited, remaining, completed,
                      finished, cancelled>>
      BY <1>3 DEF AdjustStep, LoadActive, Spawn, runnerVars, repVars, endVars,
                  callVars
    <3>2. Holding' = Holding
      <4>1. CASE LoadActive(t)
        BY <4>1 DEF LoadActive, workerVars, Holding
      <4>2. CASE Spawn(t)
        BY <4>2, SpawnEffect DEF Holding, PoolInv
      <4> QED
        BY <1>3, <4>1, <4>2 DEF AdjustStep
    <3>3. /\ Left' = Left /\ Due' = Due /\ Step' = Step
          /\ LimitedOnly' = LimitedOnly
      BY <3>1 DEF Left, Due, RepsTo, Step, LimitedOnly
    <3> QED
      BY <2>2, <3>1, <3>2, <3>3 DEF RepsInv
  <2> QED
    BY <2>1, <2>2
<1>4. CASE Launch
  <2>1. /\ UNCHANGED <<profile, step, isUnlimited, remaining, completed, pc, adj,
                       finished, cancelled>>
        /\ runner = "unlaunched" /\ runner' = "begin"
    BY <1>4 DEF Launch, repVars, workerVars, endVars, callVars
  <2>2. /\ Holding' = Holding /\ Left' = Left /\ Due' = Due
        /\ LimitedOnly' = LimitedOnly /\ (isUnlimited /\ Untouched => Untouched')
    BY <2>1 DEF Holding, Left, Due, RepsTo, LimitedOnly, Untouched, BetweenSteps
  <2> QED
    BY <2>1, <2>2 DEF RepsInv, BetweenSteps
<1>5. ASSUME NEW t \in Adjuster, NEW n \in Targets, UserSetConcurrency(t, n)
      PROVE  RepsInv'
  <2>1. CASE LimitedOnly /\ ~cancelled /\ isUnlimited
    <3>1. \A w \in Worker : pc[w] = "idle"
      BY <2>1 DEF RepsInv, Untouched
    <3>2. ~MayUseApi(t)
      BY <3>1, ThreadAssumption
      DEF MayUseApi, InWorkerHook, UsedFromWithin, Adjuster
    <3> QED
      BY <1>5, <3>2 DEF UserSetConcurrency
  <2>2. CASE ~(LimitedOnly /\ ~cancelled /\ isUnlimited)
    <3>1. UNCHANGED <<profile, step, runner, isUnlimited, remaining, completed, pc,
                      finished, cancelled>>
      BY <1>5 DEF UserSetConcurrency, runnerVars, repVars, workerVars, endVars,
                  callVars
    <3>2. /\ Holding' = Holding /\ Left' = Left /\ Due' = Due /\ Step' = Step
          /\ LimitedOnly' = LimitedOnly
      BY <3>1 DEF Holding, Left, Due, RepsTo, Step, LimitedOnly
    <3> QED
      BY <2>2, <3>1, <3>2 DEF RepsInv
  <2> QED
    BY <2>1, <2>2
<1>6. ASSUME NEW t \in Adjuster, UserSetWorker(t) PROVE RepsInv'
  BY <1>6, RepsKept DEF UserSetWorker, runnerVars, workerVars, endVars, callVars
<1>7. ASSUME NEW t \in Adjuster, NEW e \in Errs \cup {Nil}, UserFinish(t, e)
      PROVE  RepsInv'
  <2>1. CASE ~finished
    BY <1>7, <1>c, <2>1 DEF UserFinish, Finish, FirstFinish
  <2>2. CASE finished
    BY <1>7, <2>2, RepsKept DEF UserFinish, Finish, FirstFinish, runnerVars,
                                repVars, workerVars, endVars, callVars
  <2> QED
    BY <2>1, <2>2
<1>8. CASE CancelParent
  BY <1>8, <1>c DEF CancelParent
<1>9. CASE TimePasses \/ WaitGroupIsZero \/ ReadResult \/ Ended \/ UNCHANGED vars
  BY <1>9, RepsKept
  DEF TimePasses, WaitGroupIsZero, ReadResult, Ended, vars, runnerVars, repVars,
      workerVars, endVars, callVars
<1> QED
  BY <1>1, <1>2, <1>3, <1>4, <1>5, <1>6, <1>7, <1>8, <1>9 DEF Next

LEMMA InitRepsInv == Init => RepsInv
<1> SUFFICES ASSUME Init PROVE RepsInv
  OBVIOUS
<1>1. Holding = {} /\ Left = 0 /\ Untouched
  BY DEF Init, Holding, Left, Untouched, BetweenSteps, NoAdjust
<1>2. Due = 0
  <2>1. profile \in Seq(Steps) /\ step - 1 = 0 /\ runner = "unlaunched"
    BY DomainAssumption DEF Init
  <2> QED
    BY <2>1, RepsOfStep DEF Due, RepsTo
<1> QED
  BY <1>1, <1>2, FS_EmptySet DEF Init, RepsInv, BetweenSteps

\* Every step that is limited by its repetitions makes exactly as many calls,
\* all of them before the next step begins, for every number of workers and
\* every profile, as long as the counters of the model do not saturate and
\* nobody uses the pool before its first step (workerpool.go:340-350, 396-401,
\* 441-447).
THEOREM RepetitionsExactHolds ==
    (CountsSuffice /\ UsedFromWithin) => (Spec => []RepetitionsExact)
<1>1. PoolInv /\ RepsInv => RepetitionsExact
  <2> SUFFICES ASSUME PoolInv, RepsInv, LimitedOnly, Launched, ~cancelled
               PROVE  /\ completed <= RepsTo(step)
                      /\ runner = "begin" => completed = RepsTo(step - 1)
                      /\ runner = "stop" => completed = RepsTo(step)
    BY DEF RepetitionsExact, RepsTo
  <2> DEFINE k == Cardinality(Holding)
  <2>1. /\ runner \in BetweenSteps => Left = 0 /\ k = 0
        /\ completed + k + Left = Due
    BY DEF RepsInv
  <2>2. /\ completed \in Nat /\ k \in Nat /\ Left \in Nat
        /\ profile \in Seq(Steps) /\ step \in 1 .. Len(profile)
        /\ Step.reps \in Nat
    BY HoldingIsFinite, StepTyped, DomainAssumption
    DEF PoolInv, TypeInv, CallTypes, StepTypes, RunnerTypes, InProfile, Left
  <2>3. RepsTo(step) = RepsTo(step - 1) + (IF Step.pause THEN 0 ELSE Step.reps)
    BY <2>2, RepsOfStep DEF RepsTo, Step
  <2> HIDE DEF k
  <2>4. CASE runner \in {"unlaunched", "begin", "reps"}
    <3>1. completed = RepsTo(step - 1)
      BY <2>1, <2>2, <2>4 DEF BetweenSteps, Due
    <3>2. RepsTo(step) >= completed
      BY <2>2, <2>3, <3>1
    <3> QED
      BY <2>2, <2>4, <3>1, <3>2
  <2>5. CASE runner \notin {"unlaunched", "begin", "reps"}
    <3>1. completed + k + Left = RepsTo(step)
      BY <2>1, <2>5 DEF Due
    <3>2. runner = "stop" => k = 0 /\ Left = 0
      BY <2>1 DEF BetweenSteps
    <3> QED
      BY <2>2, <2>5, <3>1, <3>2
  <2> QED
    BY <2>4, <2>5
<1> SUFFICES ASSUME CountsSuffice, UsedFromWithin
             PROVE  Spec => []RepetitionsExact
  OBVIOUS
<1>2. PoolInv /\ RepsInv /\ [Next]_vars => RepsInv'
  BY RepsInvInductive
<1> QED
  BY <1>1, <1>2, InitRepsInv, PoolInvHolds, PTL DEF Spec

----------------------------------------------------------------------------
(* NeverUndershoots. *)

\* Until the first step sets a target there is no worker; then no step still to
\* come has a higher one, and a worker that found too many is right for good.
Shrinking ==
    /\ runner = "load" => adj[Runner].n = target
    /\ runner \in {"wait", "tick", "drain", "target", "load"} => target # 0
    /\ target = 0 => \A w \in Worker : pc[w] = "idle"
    /\ target # 0 => \A j \in step .. Len(profile) :
                         ~profile[j].pause => profile[j].concurrency <= target
    /\ \A w \in Worker : pc[w] = "cas" => seen[w] > target

ShrinkInv == ScalesDownOnly => Shrinking

LEMMA ShrinkKept ==
    ASSUME ShrinkInv, UNCHANGED <<profile, step, target, adj, adjusts, pc, seen>>,
           \/ runner' = runner
           \/ runner' \in {"tick", "drain", "target", "wait"}
              /\ runner \in {"wait", "tick", "drain"}
           \/ runner' \in {"begin", "pausing", "reps", "func", "apply", "end",
                           "stop", "exit", "over"}
    PROVE  ShrinkInv'
<1>1. ScalesDownOnly' = ScalesDownOnly
  BY DEF ScalesDownOnly
<1> QED
  BY <1>1 DEF ShrinkInv, Shrinking

LEMMA RunnerKeepsShrink ==
    ASSUME PoolInv, ShrinkInv, RunnerStep
    PROVE  ShrinkInv'
<1>0. /\ Launched /\ step \in 1 .. Len(profile) /\ profile \in Seq(Steps)
      /\ runner = "apply" => ~Step.pause /\ Step.concurrency \in Nat \ {0}
      /\ adj \in [Adjuster -> Adjusts] /\ Runner \in Adjuster
      /\ target \in Nat /\ seen \in [Worker -> Nat]
      /\ step \in Nat
  <2>1. Launched /\ step \in Nat
    BY DEF PoolInv, TypeInv, RunnerTypes, Launched, RunnerStep, BeginPause,
           EndPause, BeginStep, StoreReps, SetStepWorker, ApplyConcurrency,
           TickArrives, EndOnCancel, CheckTick, CheckDrained, LoadTarget,
           StoreLoadedTarget, EndStep, StopAtEnd, RunnerExit
  <2> QED
    BY <2>1, StepTyped, DomainAssumption
    DEF PoolInv, TypeInv, RunnerTypes, InProfile, StepTypes, WorkerTypes,
        AdjTypes, Adjuster
<1>1. CASE BeginPause \/ EndPause \/ BeginStep \/ StoreReps \/ SetStepWorker
  BY <1>1, ShrinkKept
  DEF BeginPause, EndPause, BeginStep, StoreReps, SetStepWorker, AfterReps,
      countVars, workerVars, userVars
<1>2. CASE TickArrives \/ EndOnCancel \/ CheckTick \/ CheckDrained
  BY <1>2, ShrinkKept
  DEF TickArrives, EndOnCancel, CheckTick, CheckDrained, Replacing, countVars,
      workerVars, userVars
<1>3. CASE StopAtEnd \/ RunnerExit
  BY <1>3, ShrinkKept DEF StopAtEnd, RunnerExit, countVars, workerVars, userVars
<1>4. CASE ApplyConcurrency
  <2>1. /\ UNCHANGED <<profile, step, pc, seen, adjusts>>
        /\ runner = "apply" /\ runner' = "wait"
        /\ target' = IF Step.eased THEN start ELSE Step.concurrency
    BY <1>4 DEF ApplyConcurrency, StoreTarget, workerVars
  <2> SUFFICES ASSUME ScalesDownOnly PROVE Shrinking'
    BY <2>1 DEF ShrinkInv, ScalesDownOnly
  <2>2. target' = profile[step].concurrency /\ ~profile[step].pause
    BY <1>0, <2>1 DEF ScalesDownOnly, Step
  <2>3. target' \in Nat \ {0}
    BY <1>0, <2>1, <2>2 DEF Step
  <2>4. ASSUME NEW j \in step .. Len(profile), ~profile[j].pause
        PROVE  profile[j].concurrency <= target'
    <3>1. CASE j = step
      BY <2>2, <2>3, <3>1
    <3>2. CASE j # step
      <4>1. step < j /\ j \in 1 .. Len(profile)
        BY <1>0, <3>2
      <4>2. profile[step].concurrency >= profile[j].concurrency
        BY <1>0, <2>2, <2>4, <4>1 DEF ScalesDownOnly
      <4>3. profile[j].concurrency \in Int
        <5>1. profile[j] \in Steps
          BY <1>0, <4>1
        <5> QED
          BY <5>1 DEF Steps
      <4> QED
        BY <2>2, <2>3, <4>2, <4>3
    <3> QED
      BY <3>1, <3>2
  <2>5. ASSUME NEW w \in Worker, pc[w] = "cas" PROVE seen[w] > target'
    <3>1. target # 0 /\ seen[w] > target
      BY <2>5 DEF ShrinkInv, Shrinking
    <3>2. profile[step].concurrency <= target
      BY <1>0, <2>2, <3>1 DEF ShrinkInv, Shrinking
    <3> QED
      BY <1>0, <2>2, <2>3, <3>1, <3>2
  <2> QED
    BY <2>1, <2>3, <2>4, <2>5 DEF Shrinking
<1>5. CASE LoadTarget
  <2>1. /\ UNCHANGED <<profile, step, target, pc, seen, adjusts>>
        /\ runner = "target" /\ runner' = "load"
        /\ ~Step.eased => adj'[Runner].n = target
    BY <1>0, <1>5 DEF LoadTarget, countVars, workerVars, userVars, Adjusts
  <2> SUFFICES ASSUME ScalesDownOnly PROVE Shrinking'
    BY <2>1 DEF ShrinkInv, ScalesDownOnly
  <2>2. ~Step.eased
    BY <1>0 DEF ScalesDownOnly, Step
  <2> QED
    BY <2>1, <2>2 DEF ShrinkInv, Shrinking
<1>6. CASE StoreLoadedTarget
  <2>1. /\ UNCHANGED <<profile, step, pc, seen, adjusts>>
        /\ runner = "load" /\ runner' = "wait" /\ target' = adj[Runner].n
    BY <1>6 DEF StoreLoadedTarget, StoreTarget, workerVars, userVars
  <2> SUFFICES ASSUME ScalesDownOnly PROVE Shrinking'
    BY <2>1 DEF ShrinkInv, ScalesDownOnly
  <2>2. target' = target
    BY <2>1 DEF ShrinkInv, Shrinking
  <2> QED
    BY <2>1, <2>2 DEF ShrinkInv, Shrinking
<1>7. CASE EndStep
  <2>1. /\ UNCHANGED <<profile, target, adj, pc, seen, adjusts>>
        /\ runner' \in {"exit", "begin", "stop"}
        /\ step' \in {step, step + 1}
    BY <1>7 DEF EndStep, countVars, workerVars, userVars
  <2> SUFFICES ASSUME ScalesDownOnly PROVE Shrinking'
    BY <2>1 DEF ShrinkInv, ScalesDownOnly
  <2>2. step' .. Len(profile) \subseteq step .. Len(profile)
    BY <1>0, <2>1
  <2> QED
    BY <2>1, <2>2 DEF ShrinkInv, Shrinking
<1> QED
  BY <1>1, <1>2, <1>3, <1>4, <1>5, <1>6, <1>7 DEF RunnerStep

\* What tryScaleDown has seen changes with the worker alone, and a worker that
\* decides to leave has seen more than the target.
LEMMA WorkerKeepsShrink ==
    ASSUME PoolInv, ShrinkInv, NEW w \in Worker, WorkerStep(w)
    PROVE  ShrinkInv'
<1>0. /\ pc \in [Worker -> WorkerPC] /\ seen \in [Worker -> Nat]
      /\ target \in Nat
  BY DEF PoolInv, TypeInv, WorkerTypes, StepTypes
<1>1. /\ UNCHANGED <<profile, runner, step, target, adj, adjusts>>
      /\ \A v \in Worker \ {w} : pc'[v] = pc[v]
  BY WorkerEffect DEF PoolInv, runnerVars, userVars
<1>2. \A v \in Worker \ {w} : seen'[v] = seen[v]
  BY <1>0 DEF WorkerStep, StartHook, CheckContext, ScaleLoadActive, ScaleCompare,
              ClaimExitSlot, RetryExitSlot, CheckPause, LeavePause,
              LoadUnlimited, ClaimRep, BeginCall, TakeCancelled, EndCall,
              ExitHook, LeaveActive, WorkerDone, workerVars
<1>3. pc[w] # "idle"
  BY DEF WorkerStep, StartHook, CheckContext, ScaleLoadActive, ScaleCompare,
         ClaimExitSlot, RetryExitSlot, CheckPause, LeavePause, LoadUnlimited,
         ClaimRep, BeginCall, TakeCancelled, EndCall, ExitHook, LeaveActive,
         WorkerDone
<1>4. pc'[w] = "cas" => seen'[w] > target
  <2>1. CASE ScaleCompare(w)
    BY <1>0, <2>1 DEF ScaleCompare, Goto
  <2>2. CASE ~ScaleCompare(w)
    BY <1>0, <2>2
    DEF WorkerStep, StartHook, CheckContext, ScaleLoadActive, ClaimExitSlot,
        RetryExitSlot, CheckPause, LeavePause, LoadUnlimited, ClaimRep, BeginCall,
        TakeCancelled, EndCall, ExitHook, LeaveActive, WorkerDone, Goto,
        AfterFailedStart, AfterScaleDown, AfterCall
  <2> QED
    BY <2>1, <2>2
<1> SUFFICES ASSUME ScalesDownOnly PROVE Shrinking'
  BY <1>1 DEF ShrinkInv, ScalesDownOnly
<1>5. target # 0
  BY <1>3 DEF ShrinkInv, Shrinking
<1> QED
  BY <1>1, <1>2, <1>4, <1>5 DEF ShrinkInv, Shrinking

LEMMA ShrinkInvInductive ==
    ASSUME PoolInv, FuncInv, ShrinkInv, [Next]_vars
    PROVE  ShrinkInv'
<1>0. adjusts \in Nat
  BY DEF PoolInv, TypeInv, UserTypes
<1>1. CASE RunnerStep
  BY <1>1, RunnerKeepsShrink
<1>2. ASSUME NEW w \in Worker, WorkerStep(w) PROVE ShrinkInv'
  BY <1>2, WorkerKeepsShrink
<1>3. ASSUME NEW t \in Adjuster, AdjustStep(t) PROVE ShrinkInv'
  <2>1. /\ UNCHANGED <<profile, runner, step, target, adjusts, seen>>
        /\ adj[t].at # "none"
    BY <1>3 DEF AdjustStep, LoadActive, Spawn, runnerVars, countVars, userVars,
                workerVars
  <2> SUFFICES ASSUME ScalesDownOnly PROVE Shrinking'
    BY <2>1 DEF ShrinkInv, ScalesDownOnly
  <2>2. runner = "wait" /\ target # 0
    BY <2>1 DEF ScalesDownOnly, FuncInv, OnlyRunnerAdjusts, ShrinkInv, Shrinking
  <2>3. \A w \in Worker : pc'[w] = "cas" => pc[w] = "cas"
    <3>1. CASE LoadActive(t)
      BY <3>1 DEF LoadActive, workerVars
    <3>2. CASE Spawn(t)
      BY <3>2, SpawnEffect DEF PoolInv
    <3> QED
      BY <1>3, <3>1, <3>2 DEF AdjustStep
  <2> QED
    BY <2>1, <2>2, <2>3 DEF ShrinkInv, Shrinking
<1>4. CASE Launch
  BY <1>4, ShrinkKept DEF Launch, workerVars, userVars
<1>5. ASSUME NEW t \in Adjuster,
             (\E n \in Targets : UserSetConcurrency(t, n)) \/ UserSetWorker(t)
      PROVE  ShrinkInv'
  <2>1. adjusts' # 0
    BY <1>0, <1>5 DEF UserSetConcurrency, UserSetWorker
  <2> QED
    BY <2>1 DEF ShrinkInv, ScalesDownOnly
<1>6. ASSUME NEW t \in Adjuster, NEW e, UserFinish(t, e) PROVE ShrinkInv'
  BY <1>6, ShrinkKept DEF UserFinish, runnerVars, countVars, workerVars, userVars
<1>7. CASE TimePasses \/ CancelParent \/ WaitGroupIsZero \/ ReadResult \/ Ended
           \/ UNCHANGED vars
  BY <1>7, ShrinkKept
  DEF TimePasses, CancelParent, WaitGroupIsZero, ReadResult, Ended, vars,
      runnerVars, countVars, workerVars, userVars
<1> QED
  BY <1>1, <1>2, <1>3, <1>4, <1>5, <1>6, <1>7 DEF Next

\* Only a worker that wins the compare-and-swap goes from there to its deferred
\* calls, and it has seen the count that it decrements.
LEMMA LeavesByClaim ==
    ASSUME PoolInv, [Next]_vars, NEW w \in Worker,
           pc[w] = "cas", pc'[w] = "wgDone"
    PROVE  active = seen[w] /\ active' = active - 1
<1>0. pc \in [Worker -> WorkerPC]
  BY DEF PoolInv, TypeInv, WorkerTypes
<1>1. ASSUME NEW v \in Worker, WorkerStep(v)
      PROVE  active = seen[w] /\ active' = active - 1
  <2>1. v = w
    BY <1>1, WorkerEffect DEF PoolInv
  <2>2. ClaimExitSlot(w) \/ RetryExitSlot(w)
    BY <1>1, <2>1
    DEF WorkerStep, StartHook, CheckContext, ScaleLoadActive, ScaleCompare,
        CheckPause, LeavePause, LoadUnlimited, ClaimRep, BeginCall,
        TakeCancelled, EndCall, ExitHook, LeaveActive, WorkerDone
  <2> QED
    BY <1>0, <2>2 DEF ClaimExitSlot, RetryExitSlot, ExitSlotIsFree, Goto
<1>2. ASSUME NEW t \in Adjuster, AdjustStep(t) PROVE pc'[w] = pc[w]
  BY <1>2, SpawnEffect DEF AdjustStep, LoadActive, workerVars, PoolInv
<1>3. CASE RunnerStep
  BY <1>3
  DEF RunnerStep, BeginPause, EndPause, BeginStep, StoreReps, SetStepWorker,
      ApplyConcurrency, TickArrives, EndOnCancel, CheckTick, CheckDrained,
      LoadTarget, StoreLoadedTarget, EndStep, StopAtEnd, RunnerExit, workerVars
<1>4. ASSUME NEW t \in Adjuster,
             \/ \E n \in Targets : UserSetConcurrency(t, n)
             \/ UserSetWorker(t)
             \/ \E e \in Errs \cup {Nil} : UserFinish(t, e)
      PROVE  pc' = pc
  BY <1>4 DEF UserSetConcurrency, UserSetWorker, UserFinish, workerVars
<1>5. CASE Launch \/ TimePasses \/ CancelParent \/ WaitGroupIsZero \/ ReadResult
           \/ Ended \/ UNCHANGED vars
  BY <1>5 DEF Launch, TimePasses, CancelParent, WaitGroupIsZero, ReadResult,
              Ended, vars, workerVars
<1> QED
  BY <1>1, <1>2, <1>3, <1>4, <1>5 DEF Next

\* While the target only goes down, scaling down leaves at least the target,
\* although a worker decides from loads that may be stale
\* (workerpool.go:320-337).
THEOREM NeverUndershootsHolds == Spec => NeverUndershoots
<1>1. Init => FuncInv /\ ShrinkInv
  <2>1. Init => ShrinkInv
    BY DEF Init, ShrinkInv, Shrinking
  <2> QED
    BY <2>1, InitFuncInv
<1>2. PoolInv /\ FuncInv /\ ShrinkInv /\ [Next]_vars => FuncInv' /\ ShrinkInv'
  BY FuncInvInductive, ShrinkInvInductive
<1>3. PoolInv /\ ShrinkInv /\ [Next]_vars =>
          [ScalesDownOnly =>
              \A w \in Worker :
                  (pc[w] = "cas" /\ pc'[w] = "wgDone") => active' >= target]_vars
  <2> SUFFICES ASSUME PoolInv, ShrinkInv, [Next]_vars, ScalesDownOnly,
                      NEW w \in Worker, pc[w] = "cas", pc'[w] = "wgDone"
               PROVE  active' >= target
    OBVIOUS
  <2>1. active = seen[w] /\ active' = active - 1
    BY LeavesByClaim
  <2>2. seen[w] > target /\ target \in Nat /\ seen[w] \in Nat
    BY DEF ShrinkInv, Shrinking, PoolInv, TypeInv, StepTypes, WorkerTypes
  <2> QED
    BY <2>1, <2>2
<1> QED
  BY <1>1, <1>2, <1>3, PoolInvHolds, PTL DEF Spec, NeverUndershoots

----------------------------------------------------------------------------
(* OverspawnBound. *)

LEMMA MaxTargetBounds ==
    ASSUME profile \in Seq(Steps)
    PROVE  /\ MaxTarget \in Nat /\ MaxTarget > 0
           /\ \A i \in 1 .. Len(profile) : profile[i].concurrency <= MaxTarget
           /\ \A n \in Targets : n <= MaxTarget
<1> DEFINE f == [i \in 1 .. Len(profile) |-> profile[i].concurrency]
           S == {profile[i].concurrency : i \in 1 .. Len(profile)}
                    \cup Targets \cup {1}
<1>1. Len(profile) \in Nat /\ \A i \in 1 .. Len(profile) : f[i] \in Int
  <2>1. Len(profile) \in Nat /\ \A i \in 1 .. Len(profile) : profile[i] \in Steps
    OBVIOUS
  <2> QED
    BY <2>1 DEF Steps
<1>2. PICK a \in Nat : \A i \in 1 .. Len(profile) : f[i] <= a
  <2> HIDE DEF f
  <2> QED
    BY <1>1, BoundOfMany
<1>3. PICK b \in Nat : \A n \in Targets : n <= b
  <2>1. PICK s \in Seq(Targets) : \A n \in Targets : \E i \in 1 .. Len(s) : s[i] = n
    BY DomainAssumption DEF IsFiniteSet
  <2>2. Len(s) \in Nat /\ \A i \in 1 .. Len(s) : s[i] \in Targets
    BY <2>1
  <2>3. \A i \in 1 .. Len(s) : s[i] \in Int
    BY <2>2, DomainAssumption
  <2>4. PICK b \in Nat : \A i \in 1 .. Len(s) : s[i] <= b
    BY <2>2, <2>3, BoundOfMany
  <2> QED
    BY <2>1, <2>4
<1>4. \A n \in S : \/ \E i \in 1 .. Len(profile) : n = f[i]
                   \/ n \in Targets
                   \/ n = 1
  OBVIOUS
<1>5. 1 \in S /\ Targets \subseteq S
      /\ \A i \in 1 .. Len(profile) : profile[i].concurrency \in S
  OBVIOUS
<1>6. MaxTarget = SetMax(S)
  BY DEF MaxTarget
<1> HIDE DEF f, S
<1> DEFINE c == a + b + 1
           T == S \cap (0 .. c)
<1>7. \A n \in S : n \in Int /\ n <= c
  <2> SUFFICES ASSUME NEW n \in S
               PROVE  n \in Int /\ n <= c
    OBVIOUS
  <2>1. CASE \E i \in 1 .. Len(profile) : n = f[i]
    BY <2>1, <1>1, <1>2, <1>3
  <2>2. CASE n \in Targets
    BY <2>2, <1>2, <1>3, DomainAssumption
  <2>3. CASE n = 1
    BY <2>3, <1>2, <1>3
  <2> QED
    BY <2>1, <2>2, <2>3, <1>4
<1>8. 1 \in T /\ c \in Nat /\ T \subseteq 0 .. c
  BY <1>2, <1>3, <1>5
<1>9. PICK m \in T : \A n \in T : m >= n
  <2> HIDE DEF T, c
  <2> QED
    BY <1>8, GreatestNumber
<1>10. m \in S /\ \A n \in S : n <= m
  <2>1. m \in Nat
    BY <1>8, <1>9
  <2>2. \A n \in S : n \in T \/ n < 0
    BY <1>7, <1>8
  <2> HIDE DEF c
  <2> QED
    BY <1>7, <1>9, <2>1, <2>2
<1>11. MaxTarget \in S /\ \A n \in S : n <= MaxTarget
  BY <1>6, <1>10 DEF SetMax
<1> QED
  <2>1. MaxTarget \in Int /\ 1 <= MaxTarget
    BY <1>5, <1>7, <1>11
  <2>2. \A i \in 1 .. Len(profile) : profile[i].concurrency <= MaxTarget
    BY <1>5, <1>11
  <2>3. \A n \in Targets : n <= MaxTarget
    BY <1>5, <1>11
  <2> QED
    BY <2>1, <2>2, <2>3

\* The threads with a SetConcurrency call in progress, and the users' among them.
Busy == {t \in Adjuster : adj[t].at # "none"}
Users == Busy \ {Runner}

\* At most one call of the runner and one for each call made by a user are in
\* progress, and each has at most a full target to spawn.
OverspawnInv ==
    /\ target <= MaxTarget /\ start <= MaxTarget
    /\ \A t \in Adjuster : /\ adj[t].n <= MaxTarget /\ adj[t].left <= MaxTarget
                           /\ adj[t].at # "spawn" => adj[t].left = 0
    /\ IsFiniteSet(Users) /\ Cardinality(Users) <= adjusts
    /\ adjusts <= MaxAdjusts
    /\ OverspawnBound

\* What is left to spawn, when every call has at most m left.
LEMMA ToSpawnBound ==
    ASSUME NEW S, IsFiniteSet(S), NEW m \in Nat,
           \A t \in Adjuster \ S : adj[t].left = 0,
           \A t \in Adjuster : adj[t].left \in Nat /\ adj[t].left <= m
    PROVE  IsFiniteSet(ToSpawn) /\ Cardinality(ToSpawn) \in Nat
           /\ Cardinality(ToSpawn) <= Cardinality(S) * m
<1>1. ToSpawn \subseteq S \X (1 .. m)
  <2> SUFFICES ASSUME NEW t \in Adjuster, NEW k \in 1 .. adj[t].left
               PROVE  t \in S /\ k \in 1 .. m
    BY DEF ToSpawn
  <2> QED
    OBVIOUS
<1>2. IsFiniteSet(1 .. m) /\ Cardinality(1 .. m) = m
  BY FS_Interval
<1>3. IsFiniteSet(S \X (1 .. m)) /\ Cardinality(S \X (1 .. m)) = Cardinality(S) * m
  BY <1>2, FS_Product
<1> QED
  BY <1>1, <1>3, FS_Subset, FS_CardinalityType

LEMMA ToSpawnFinite ==
    ASSUME PoolInv, OverspawnInv
    PROVE  IsFiniteSet(ToSpawn) /\ Cardinality(ToSpawn) \in Nat
<1>1. IsFiniteSet(Users \cup {Runner})
  BY FS_AddElement DEF OverspawnInv
<1>2. MaxTarget \in Nat
  BY MaxTargetBounds, DomainAssumption DEF PoolInv, TypeInv, RunnerTypes
<1>3. \A t \in Adjuster : /\ adj[t].left \in Nat /\ adj[t].left <= MaxTarget
                          /\ t \notin Users \cup {Runner} => adj[t].left = 0
  BY DEF OverspawnInv, PoolInv, TypeInv, AdjTypes, Adjusts, Users, Busy
<1> QED
  BY <1>1, <1>2, <1>3, ToSpawnBound

\* Calls that have no more to spawn than before.
LEMMA ToSpawnSubset ==
    ASSUME AdjTypes,
           \A t \in Adjuster : adj'[t].left \in Nat /\ adj'[t].left <= adj[t].left
    PROVE  ToSpawn' \subseteq ToSpawn
<1> SUFFICES ASSUME NEW t \in Adjuster, NEW k \in 1 .. adj'[t].left
             PROVE  k \in 1 .. adj[t].left
  BY DEF ToSpawn
<1> QED
  BY DEF AdjTypes, Adjusts

\* Nothing more to spawn and no more workers than before preserve the bound.
LEMMA ToSpawnShrinks ==
    ASSUME PoolInv, OverspawnInv, profile' = profile,
           active' \in Int, active' <= active, ToSpawn' \subseteq ToSpawn
    PROVE  OverspawnBound'
<1>1. /\ Cardinality(ToSpawn) \in Nat /\ Cardinality(ToSpawn') \in Nat
      /\ Cardinality(ToSpawn') <= Cardinality(ToSpawn)
  BY ToSpawnFinite, FS_Subset, FS_CardinalityType
<1>2. MaxTarget' = MaxTarget /\ MaxTarget \in Nat /\ MaxAdjusts \in Nat
  BY MaxTargetBounds, DomainAssumption DEF PoolInv, TypeInv, RunnerTypes, MaxTarget
<1>3. active \in Nat /\ active' \in Int /\ active' <= active
  BY AccountingDef, SetsAreFinite DEF PoolInv
<1>4. active + Cardinality(ToSpawn) <= MaxTarget * (1 + MaxAdjusts)
  BY DEF OverspawnInv, OverspawnBound
<1>5. active' + Cardinality(ToSpawn') <= active + Cardinality(ToSpawn)
  BY <1>1, <1>3
<1>6. active' + Cardinality(ToSpawn') <= MaxTarget * (1 + MaxAdjusts)
  <2> DEFINE z == MaxTarget * (1 + MaxAdjusts)
  <2>1. z \in Int
    BY <1>2
  <2> HIDE DEF z
  <2>2. active + Cardinality(ToSpawn) <= z
    BY <1>4 DEF z
  <2>3. active' + Cardinality(ToSpawn') <= z
    BY <1>1, <1>3, <1>5, <2>1, <2>2
  <2> QED
    BY <2>3 DEF z
<1> QED
  BY <1>2, <1>6 DEF OverspawnBound

\* A step that spawns nothing, stores no target and makes no call.
LEMMA OverspawnKept ==
    ASSUME PoolInv, OverspawnInv,
           UNCHANGED <<profile, target>>, start' <= MaxTarget,
           active' \in Int, active' <= active,
           adjusts' = adjusts \/ (adjusts' = adjusts + 1 /\ adjusts < MaxAdjusts),
           \A t \in Adjuster : /\ adj'[t].at = adj[t].at
                               /\ adj'[t].left = adj[t].left
                               /\ adj'[t].n <= MaxTarget
    PROVE  OverspawnInv'
<1>1. adj \in [Adjuster -> Adjusts] /\ adjusts \in Nat /\ MaxAdjusts \in Nat
  BY DomainAssumption DEF PoolInv, TypeInv, AdjTypes, UserTypes
<1>2. \A t \in Adjuster : adj'[t].left \in Nat /\ adj'[t].left <= adj[t].left
  BY <1>1 DEF Adjusts
<1>3. OverspawnBound'
  BY <1>2, ToSpawnSubset, ToSpawnShrinks DEF PoolInv, TypeInv
<1>4. MaxTarget' = MaxTarget /\ Users' = Users
  BY DEF MaxTarget, Users, Busy
<1>5. Cardinality(Users') <= adjusts' /\ adjusts' <= MaxAdjusts
  <2>1. Cardinality(Users) \in Nat /\ Cardinality(Users) <= adjusts
        /\ adjusts <= MaxAdjusts
    BY FS_CardinalityType DEF OverspawnInv
  <2> QED
    BY <1>1, <1>4, <2>1
<1> QED
  BY <1>3, <1>4, <1>5 DEF OverspawnInv

\* A new call has nothing to spawn yet, and its target is none above the bound.
LEMMA StoreTargetKeeps ==
    ASSUME PoolInv, OverspawnInv, NEW t \in Adjuster, NEW n \in Nat,
           n <= MaxTarget, StoreTarget(t, n), UNCHANGED <<profile, start, active>>,
           \/ t = Runner /\ adjusts' = adjusts
           \/ adj[t].at = "none" /\ adjusts' = adjusts + 1 /\ adjusts < MaxAdjusts
    PROVE  OverspawnInv'
<1> DEFINE r == [at |-> "load", n |-> n, left |-> 0]
<1>0. adj \in [Adjuster -> Adjusts] /\ adjusts \in Nat /\ MaxAdjusts \in Nat
  BY DomainAssumption DEF PoolInv, TypeInv, AdjTypes, UserTypes
<1>1. /\ target' = n
      /\ \A u \in Adjuster : adj'[u] = adj[u] \/ (u = t /\ adj'[u] = r)
  BY <1>0 DEF StoreTarget
<1>2. \A u \in Adjuster : /\ adj'[u].n <= MaxTarget /\ adj'[u].left <= MaxTarget
                          /\ adj'[u].left \in Nat /\ adj'[u].left <= adj[u].left
                          /\ adj'[u].at # "spawn" => adj'[u].left = 0
  <2>1. MaxTarget \in Nat
    BY MaxTargetBounds, DomainAssumption DEF PoolInv, TypeInv, RunnerTypes
  <2>2. r.n = n /\ r.left = 0
    OBVIOUS
  <2> HIDE DEF r
  <2>3. SUFFICES ASSUME NEW u \in Adjuster
                 PROVE  /\ adj'[u].n <= MaxTarget /\ adj'[u].left <= MaxTarget
                        /\ adj'[u].left \in Nat /\ adj'[u].left <= adj[u].left
                        /\ adj'[u].at # "spawn" => adj'[u].left = 0
    OBVIOUS
  <2>4. /\ adj[u].n <= MaxTarget /\ adj[u].left <= MaxTarget
        /\ adj[u].left \in Nat /\ (adj[u].at # "spawn" => adj[u].left = 0)
    BY <1>0 DEF OverspawnInv, Adjusts
  <2> QED
    BY <1>1, <2>1, <2>2, <2>4
<1>3. OverspawnBound'
  <2>1. ToSpawn' \subseteq ToSpawn
    BY <1>2, ToSpawnSubset DEF PoolInv, TypeInv
  <2>2. active' \in Int /\ active' <= active
    BY AccountingDef, SetsAreFinite DEF PoolInv
  <2> QED
    BY <2>1, <2>2, ToSpawnShrinks
<1>4. MaxTarget' = MaxTarget
  BY DEF MaxTarget
<1>5. /\ IsFiniteSet(Users') /\ Cardinality(Users') <= adjusts'
      /\ adjusts' <= MaxAdjusts
  <2>1. IsFiniteSet(Users) /\ Cardinality(Users) <= adjusts /\ adjusts <= MaxAdjusts
    BY DEF OverspawnInv
  <2>2. Users' = Users \/ Users' = Users \cup {t}
    <3>1. \A u \in Adjuster \ {t} : adj'[u] = adj[u]
      BY <1>1
    <3>2. adj'[t].at = adj[t].at \/ adj'[t].at = "load"
      BY <1>1
    <3> QED
      BY <3>1, <3>2 DEF Users, Busy
  <2>3. CASE t = Runner /\ adjusts' = adjusts
    <3>1. Users' = Users
      BY <2>2, <2>3 DEF Users
    <3> QED
      BY <2>1, <2>3, <3>1
  <2>4. CASE adjusts' = adjusts + 1 /\ adjusts < MaxAdjusts
    <3>1. Cardinality(Users) \in Nat
      BY <2>1, FS_CardinalityType
    <3>2. CASE Users' = Users
      BY <1>0, <2>1, <2>4, <3>1, <3>2
    <3>3. CASE Users' = Users \cup {t}
      <4>1. /\ IsFiniteSet(Users \cup {t})
            /\ \/ Cardinality(Users \cup {t}) = Cardinality(Users)
               \/ Cardinality(Users \cup {t}) = Cardinality(Users) + 1
        BY <2>1, FS_AddElement
      <4> QED
        BY <1>0, <2>1, <2>4, <3>1, <3>3, <4>1
    <3> QED
      BY <2>2, <3>2, <3>3
  <2> QED
    BY <2>3, <2>4
<1>6. start' = start
  OBVIOUS
<1> QED
  BY <1>1, <1>2, <1>3, <1>4, <1>5, <1>6 DEF OverspawnInv

\* A call that finds workers missing spawns no more than a full target, counted
\* with those it finds: the other calls have a full target each at most.
LEMMA LoadActiveKeeps ==
    ASSUME PoolInv, OverspawnInv, NEW t \in Adjuster, LoadActive(t)
    PROVE  OverspawnInv'
<1> DEFINE k == WorkersToSpawn(adj[t].n, active)
           Others == Busy \ {t}
           Rest == UNION {{u} \X (1 .. adj[u].left) : u \in Adjuster \ {t}}
<1>0. /\ adj \in [Adjuster -> Adjusts] /\ adjusts \in Nat /\ MaxAdjusts \in Nat
      /\ active \in Nat /\ MaxTarget \in Nat /\ adj[t].n \in Nat
      /\ adj[t].at = "load" /\ adj[t].left = 0 /\ adj[t].n <= MaxTarget
  <2>1. active \in Nat
    BY AccountingDef, SetsAreFinite DEF PoolInv
  <2>2. MaxTarget \in Nat
    BY MaxTargetBounds, DomainAssumption DEF PoolInv, TypeInv, RunnerTypes
  <2>3. adj \in [Adjuster -> Adjusts] /\ adjusts \in Nat /\ MaxAdjusts \in Nat
    BY DomainAssumption DEF PoolInv, TypeInv, AdjTypes, UserTypes
  <2>4. adj[t].at = "load"
    BY DEF LoadActive
  <2> QED
    BY <2>1, <2>2, <2>3, <2>4 DEF OverspawnInv, Adjusts
<1>1. k \in Nat /\ k <= MaxTarget /\ (k = 0 \/ active + k <= MaxTarget)
  BY <1>0 DEF WorkersToSpawn
<1>2. /\ \A u \in Adjuster \ {t} : adj'[u] = adj[u]
      /\ adj'[t].at = IF k = 0 THEN "none" ELSE "spawn"
      /\ adj'[t].n = 0 /\ adj'[t].left = k
  BY <1>0, <1>1 DEF LoadActive, NoAdjust
<1>3. UNCHANGED <<profile, start, target, active, adjusts>>
  BY DEF LoadActive, runnerVars, countVars, userVars
<1>4. MaxTarget' = MaxTarget
  BY <1>3 DEF MaxTarget
<1> HIDE DEF k
<1>5. \A u \in Adjuster : /\ adj'[u].n <= MaxTarget /\ adj'[u].left <= MaxTarget
                          /\ adj'[u].at # "spawn" => adj'[u].left = 0
  <2>1. \A u \in Adjuster : /\ adj[u].n <= MaxTarget /\ adj[u].left <= MaxTarget
                            /\ adj[u].at # "spawn" => adj[u].left = 0
    BY DEF OverspawnInv
  <2> QED
    BY <1>0, <1>1, <1>2, <2>1
<1>6. IsFiniteSet(Users) /\ Cardinality(Users) \in Nat
      /\ Cardinality(Users) <= adjusts /\ adjusts <= MaxAdjusts
  BY FS_CardinalityType DEF OverspawnInv
<1>7. IsFiniteSet(Users') /\ Cardinality(Users') <= adjusts'
  <2>1. Users' \subseteq Users
    BY <1>0, <1>2 DEF Users, Busy
  <2>2. IsFiniteSet(Users') /\ Cardinality(Users') <= Cardinality(Users)
        /\ Cardinality(Users') \in Nat
    BY <1>6, <2>1, FS_Subset, FS_CardinalityType
  <2> QED
    BY <1>0, <1>3, <1>6, <2>2
<1>8. IsFiniteSet(Others) /\ Cardinality(Others) \in Nat
      /\ Cardinality(Others) <= MaxAdjusts
  <2>1. CASE t = Runner
    <3>1. Others = Users
      BY <2>1 DEF Users
    <3> QED
      BY <1>0, <1>6, <3>1
  <2>2. CASE t # Runner
    <3>1. t \in Users /\ Others \subseteq (Users \ {t}) \cup {Runner}
      BY <1>0, <2>2 DEF Users, Busy
    <3>2. /\ IsFiniteSet(Users \ {t})
          /\ Cardinality(Users \ {t}) = Cardinality(Users) - 1
      BY <1>6, <3>1, FS_RemoveElement
    <3>3. /\ IsFiniteSet((Users \ {t}) \cup {Runner})
          /\ Cardinality((Users \ {t}) \cup {Runner}) = Cardinality(Users)
      <4>1. Runner \notin Users \ {t}
        BY DEF Users
      <4>2. Cardinality((Users \ {t}) \cup {Runner})
                = Cardinality(Users \ {t}) + 1
        BY <3>2, <4>1, AddOne
      <4> QED
        BY <1>6, <3>2, <4>2, FS_AddElement
    <3>4. /\ IsFiniteSet(Others) /\ Cardinality(Others) \in Nat
          /\ Cardinality(Others) <= Cardinality(Users)
      BY <3>1, <3>3, FS_Subset, FS_CardinalityType
    <3> QED
      BY <1>0, <1>6, <3>4
  <2> QED
    BY <2>1, <2>2
<1>9. /\ IsFiniteSet(Rest) /\ Cardinality(Rest) \in Nat
      /\ Cardinality(Rest) <= MaxAdjusts * MaxTarget
  <2> DEFINE I == 1 .. MaxTarget
             c == Cardinality(Others)
  <2>1. Rest \subseteq Others \X I
    <3> SUFFICES ASSUME NEW u \in Adjuster \ {t}, NEW i \in 1 .. adj[u].left
                 PROVE  u \in Others /\ i \in I
      OBVIOUS
    <3>1. adj[u].left \in Nat /\ adj[u].left <= MaxTarget
      BY <1>0 DEF Adjusts, OverspawnInv
    <3>2. adj[u].at = "spawn"
      BY <3>1 DEF OverspawnInv
    <3> QED
      BY <1>0, <3>1, <3>2 DEF Busy
  <2>2. IsFiniteSet(I) /\ Cardinality(I) = MaxTarget
    BY <1>0, FS_Interval
  <2>3. IsFiniteSet(Others \X I) /\ Cardinality(Others \X I) = c * MaxTarget
    BY <1>8, <2>2, FS_Product
  <2>4. IsFiniteSet(Rest) /\ Cardinality(Rest) \in Nat
        /\ Cardinality(Rest) <= c * MaxTarget
    BY <2>1, <2>3, FS_Subset, FS_CardinalityType
  <2>5. c * MaxTarget <= MaxAdjusts * MaxTarget
    <3>1. c \in Nat /\ c <= MaxAdjusts
      BY <1>8
    <3> HIDE DEF c
    <3> QED
      BY <1>0, <3>1
  <2>6. c * MaxTarget \in Nat /\ MaxAdjusts * MaxTarget \in Nat
    BY <1>0, <1>8
  <2> HIDE DEF Rest, c
  <2> DEFINE a == c * MaxTarget
             b == MaxAdjusts * MaxTarget
  <2>7. a <= b /\ a \in Nat /\ b \in Nat /\ Cardinality(Rest) <= a
    BY <2>4, <2>5, <2>6
  <2> HIDE DEF a, b
  <2>8. Cardinality(Rest) <= b
    BY <2>4, <2>7
  <2> QED
    BY <2>4, <2>8 DEF b
<1>10. ToSpawn = Rest
  <2>1. {t} \X (1 .. adj[t].left) = {}
    BY <1>0
  <2> QED
    BY <2>1 DEF ToSpawn
<1>11. ToSpawn' = Rest \cup ({t} \X (1 .. k))
  <2>1. \A p : p \in ToSpawn' <=>
                  \E u \in Adjuster : \E i \in 1 .. adj'[u].left : p = <<u, i>>
    BY DEF ToSpawn
  <2>2. \A p : p \in Rest <=>
                  \E u \in Adjuster \ {t} :
                      \E i \in 1 .. adj[u].left : p = <<u, i>>
    OBVIOUS
  <2>3. \A p : p \in {t} \X (1 .. k) <=> \E i \in 1 .. k : p = <<t, i>>
    OBVIOUS
  <2>4. /\ \A u \in Adjuster \ {t} : adj'[u].left = adj[u].left
        /\ adj'[t].left = k
    BY <1>2
  <2> HIDE DEF Rest
  <2>5. \A p : p \in ToSpawn' <=> p \in Rest \/ p \in {t} \X (1 .. k)
    BY <2>1, <2>2, <2>3, <2>4
  <2> QED
    BY <2>5
<1>12. /\ IsFiniteSet({t} \X (1 .. k))
       /\ Cardinality({t} \X (1 .. k)) = k
  <2>1. IsFiniteSet({t}) /\ Cardinality({t}) = 1
    BY FS_Singleton
  <2>2. IsFiniteSet(1 .. k) /\ Cardinality(1 .. k) = k
    BY <1>1, FS_Interval
  <2>3. /\ IsFiniteSet({t} \X (1 .. k))
        /\ Cardinality({t} \X (1 .. k)) = Cardinality({t}) * Cardinality(1 .. k)
    BY <2>1, <2>2, FS_Product
  <2> QED
    BY <1>1, <2>1, <2>2, <2>3
<1>13. /\ Cardinality(ToSpawn') \in Nat
       /\ Cardinality(ToSpawn') <= Cardinality(Rest) + k
  <2> HIDE DEF Rest
  <2> DEFINE New == {t} \X (1 .. k)
  <2>1. IsFiniteSet(New) /\ Cardinality(New) = k /\ ToSpawn' = Rest \cup New
    BY <1>11, <1>12
  <2> HIDE DEF New
  <2>2. /\ IsFiniteSet(Rest \cup New)
        /\ Cardinality(Rest \cup New)
              = Cardinality(Rest) + Cardinality(New) - Cardinality(Rest \cap New)
    BY <1>9, <2>1, FS_Union
  <2>3. Cardinality(Rest \cap New) \in Nat /\ Cardinality(Rest \cup New) \in Nat
    BY <1>9, <2>2, FS_Intersection, FS_CardinalityType
  <2> QED
    BY <1>1, <1>9, <2>1, <2>2, <2>3
<1>14. active + Cardinality(ToSpawn') <= MaxTarget * (1 + MaxAdjusts)
  <2> DEFINE b == MaxAdjusts * MaxTarget
             z == MaxTarget * (1 + MaxAdjusts)
             x == Cardinality(Rest)
             y == Cardinality(ToSpawn')
  <2>1. z = MaxTarget + b /\ b \in Nat
    BY <1>0
  <2>2. x <= b /\ x \in Nat /\ y \in Nat /\ y <= x + k
    BY <1>9, <1>13
  <2>3. k = 0 => y = x
    <3>1. k = 0 => {t} \X (1 .. k) = {}
      OBVIOUS
    <3> QED
      BY <1>11, <3>1
  <2>4. k = 0 => active + x <= z
    BY <1>10 DEF OverspawnInv, OverspawnBound
  <2> HIDE DEF b, z, x, y
  <2>5. active + y <= z
    BY <1>0, <1>1, <2>1, <2>2, <2>3, <2>4
  <2> QED
    BY <2>5 DEF y, z
<1>15. OverspawnBound'
  BY <1>3, <1>4, <1>14 DEF OverspawnBound
<1>16. target' <= MaxTarget' /\ start' <= MaxTarget' /\ adjusts' <= MaxAdjusts
  BY <1>3, <1>4, <1>6 DEF OverspawnInv
<1> QED
  BY <1>4, <1>5, <1>7, <1>15, <1>16 DEF OverspawnInv

\* A worker that is spawned is no longer to be spawned.
LEMMA SpawnKeeps ==
    ASSUME PoolInv, OverspawnInv, NEW t \in Adjuster, Spawn(t)
    PROVE  OverspawnInv'
<1> DEFINE l == adj[t].left
<1>0. /\ adj \in [Adjuster -> Adjusts] /\ adj[t].at = "spawn"
      /\ l \in Nat \ {0} /\ l <= MaxTarget /\ MaxTarget \in Nat
  <2>1. MaxTarget \in Nat
    BY MaxTargetBounds, DomainAssumption DEF PoolInv, TypeInv, RunnerTypes
  <2>2. adj[t].at = "spawn"
    BY DEF Spawn
  <2> QED
    BY <2>1, <2>2 DEF PoolInv, TypeInv, AdjTypes, Adjusts, OverspawnInv
<1>1. /\ \A u \in Adjuster \ {t} : adj'[u] = adj[u]
      /\ adj'[t].at \in {"none", "spawn"}
      /\ adj'[t].at = "none" => l = 1
      /\ adj'[t].n = 0 /\ adj'[t].left = l - 1
  BY <1>0 DEF Spawn, NoAdjust
<1>2. UNCHANGED <<profile, start, target, adjusts>> /\ active' = active + 1
  BY DEF Spawn, runnerVars, userVars
<1>3. MaxTarget' = MaxTarget
  BY <1>2 DEF MaxTarget
<1> HIDE DEF l
<1>4. \A u \in Adjuster : /\ adj'[u].n <= MaxTarget /\ adj'[u].left <= MaxTarget
                          /\ adj'[u].at # "spawn" => adj'[u].left = 0
  <2>1. \A u \in Adjuster : /\ adj[u].n <= MaxTarget /\ adj[u].left <= MaxTarget
                            /\ adj[u].at # "spawn" => adj[u].left = 0
    BY DEF OverspawnInv
  <2> QED
    BY <1>0, <1>1, <2>1
<1>5. IsFiniteSet(Users') /\ Cardinality(Users') <= adjusts'
      /\ adjusts' <= MaxAdjusts
  <2>1. Users' \subseteq Users
    BY <1>0, <1>1 DEF Users, Busy
  <2>2. IsFiniteSet(Users) /\ Cardinality(Users) \in Nat
        /\ Cardinality(Users) <= adjusts /\ adjusts <= MaxAdjusts
    BY FS_CardinalityType DEF OverspawnInv
  <2>3. IsFiniteSet(Users') /\ Cardinality(Users') <= Cardinality(Users)
        /\ Cardinality(Users') \in Nat
    BY <2>1, <2>2, FS_Subset, FS_CardinalityType
  <2>4. adjusts \in Nat
    BY DEF PoolInv, TypeInv, UserTypes
  <2> QED
    BY <1>2, <2>2, <2>3, <2>4
<1>6. ToSpawn' = ToSpawn \ {<<t, l>>}
  <2>1. \A p : p \in ToSpawn <=>
                  \E u \in Adjuster : \E i \in 1 .. adj[u].left : p = <<u, i>>
    BY DEF ToSpawn
  <2>2. \A p : p \in ToSpawn' <=>
                  \E u \in Adjuster : \E i \in 1 .. adj'[u].left : p = <<u, i>>
    BY DEF ToSpawn
  <2>3. \A u \in Adjuster : \A i :
            i \in 1 .. adj'[u].left <=> i \in 1 .. adj[u].left /\ (u # t \/ i # l)
    BY <1>0, <1>1 DEF l
  <2> QED
    BY <2>1, <2>2, <2>3
<1>7. <<t, l>> \in ToSpawn
  BY <1>0 DEF ToSpawn, l
<1>8. /\ Cardinality(ToSpawn) \in Nat
      /\ Cardinality(ToSpawn') = Cardinality(ToSpawn) - 1
  BY <1>6, <1>7, ToSpawnFinite, FS_RemoveElement
<1>9. OverspawnBound'
  <2> DEFINE z == MaxTarget * (1 + MaxAdjusts)
  <2>1. active + Cardinality(ToSpawn) <= z /\ active \in Nat
    BY AccountingDef, SetsAreFinite DEF OverspawnInv, OverspawnBound, PoolInv
  <2>2. active' + Cardinality(ToSpawn') = active + Cardinality(ToSpawn)
    BY <1>2, <1>8, <2>1
  <2> QED
    BY <1>3, <2>1, <2>2 DEF OverspawnBound
<1>10. target' <= MaxTarget' /\ start' <= MaxTarget'
  BY <1>2, <1>3 DEF OverspawnInv
<1> QED
  BY <1>3, <1>4, <1>5, <1>9, <1>10 DEF OverspawnInv

\* The runner's steps: it stores the concurrency of a step or a value between
\* two of them.
LEMMA RunnerKeepsOverspawn ==
    ASSUME PoolInv, OverspawnInv, RunnerStep
    PROVE  OverspawnInv'
<1>0. /\ Launched /\ start \in Nat /\ target \in Nat
      /\ Step.concurrency <= MaxTarget /\ MaxTarget \in Nat
      /\ runner \in {"apply", "target"} => Step.concurrency \in Nat
      /\ adj \in [Adjuster -> Adjusts] /\ Runner \in Adjuster
      /\ ~Step.pause => Step.concurrency \in Nat
  <2>1. Launched
    BY DEF PoolInv, TypeInv, RunnerTypes, Launched, RunnerStep, BeginPause,
           EndPause, BeginStep, StoreReps, SetStepWorker, ApplyConcurrency,
           TickArrives, EndOnCancel, CheckTick, CheckDrained, LoadTarget,
           StoreLoadedTarget, EndStep, StopAtEnd, RunnerExit
  <2>2. /\ profile \in Seq(Steps) /\ step \in 1 .. Len(profile)
        /\ start \in Nat /\ target \in Nat
        /\ adj \in [Adjuster -> Adjusts] /\ Runner \in Adjuster
    BY <2>1, DomainAssumption
    DEF PoolInv, TypeInv, RunnerTypes, InProfile, StepTypes, AdjTypes, Adjuster
  <2>3. Step.concurrency <= MaxTarget /\ MaxTarget \in Nat
    BY <2>2, MaxTargetBounds DEF Step
  <2>4. ~Step.pause => Step.concurrency \in Nat
    BY <2>1, StepTyped DEF PoolInv, TypeInv
  <2>5. runner \in {"apply", "target"} => ~Step.pause
    BY <2>1 DEF PoolInv, TypeInv, RunnerTypes, InProfile
  <2> QED
    BY <2>1, <2>2, <2>3, <2>4, <2>5
<1>a. active \in Int /\ start <= MaxTarget /\ target <= MaxTarget
      /\ \A t \in Adjuster : adj[t].n <= MaxTarget
  BY AccountingDef, SetsAreFinite DEF PoolInv, OverspawnInv
<1>1. CASE BeginPause \/ EndPause \/ BeginStep \/ StoreReps \/ SetStepWorker
  BY <1>1, <1>a, OverspawnKept
  DEF BeginPause, EndPause, BeginStep, StoreReps, SetStepWorker, countVars,
      userVars
<1>2. CASE TickArrives \/ EndOnCancel \/ CheckTick \/ CheckDrained \/ StopAtEnd
           \/ RunnerExit
  BY <1>2, <1>a, OverspawnKept
  DEF TickArrives, EndOnCancel, CheckTick, CheckDrained, StopAtEnd, RunnerExit,
      countVars, userVars
<1>3. CASE ApplyConcurrency
  <2> DEFINE n == IF Step.eased THEN start ELSE Step.concurrency
  <2>1. n \in Nat /\ n <= MaxTarget
    BY <1>0, <1>a, <1>3 DEF ApplyConcurrency
  <2>2. StoreTarget(Runner, n) /\ UNCHANGED <<profile, start, active, adjusts>>
    BY <1>3 DEF ApplyConcurrency
  <2> HIDE DEF n
  <2> QED
    BY <1>0, <2>1, <2>2, StoreTargetKeeps
<1>4. CASE StoreLoadedTarget
  <2>1. adj[Runner].n \in Nat /\ adj[Runner].n <= MaxTarget
    BY <1>0, <1>a DEF Adjusts
  <2>2. /\ StoreTarget(Runner, adj[Runner].n)
        /\ UNCHANGED <<profile, start, active, adjusts>>
    BY <1>4 DEF StoreLoadedTarget, userVars
  <2> QED
    BY <1>0, <2>1, <2>2, StoreTargetKeeps
<1>5. CASE LoadTarget
  <2>1. PICK n \in IF Step.eased THEN Between(start, Step.concurrency)
                                 ELSE {target} :
            adj' = [adj EXCEPT ![Runner].n = n]
    BY <1>5 DEF LoadTarget
  <2>2. n <= MaxTarget
    BY <1>0, <1>5, <1>a, <2>1 DEF Between, LoadTarget
  <2>3. \A t \in Adjuster : /\ adj'[t].at = adj[t].at
                            /\ adj'[t].left = adj[t].left
                            /\ adj'[t].n <= MaxTarget
    BY <1>0, <1>a, <2>1, <2>2 DEF Adjusts
  <2>4. UNCHANGED <<profile, target, start, active, adjusts>>
    BY <1>5 DEF LoadTarget, countVars, userVars
  <2> QED
    BY <1>a, <2>3, <2>4, OverspawnKept
<1>6. CASE EndStep
  <2>1. UNCHANGED <<profile, target, active, adjusts, adj>>
        /\ start' = IF Step.pause THEN start ELSE Step.concurrency
    BY <1>6 DEF EndStep, countVars, userVars
  <2>2. start' <= MaxTarget
    BY <1>0, <1>a, <2>1
  <2> QED
    BY <1>a, <2>1, <2>2, OverspawnKept
<1> QED
  BY <1>1, <1>2, <1>3, <1>4, <1>5, <1>6 DEF RunnerStep

\* A worker only ever leaves.
LEMMA WorkerKeepsOverspawn ==
    ASSUME PoolInv, OverspawnInv, NEW w \in Worker, WorkerStep(w)
    PROVE  OverspawnInv'
<1>1. active \in Int /\ start <= MaxTarget
      /\ \A t \in Adjuster : adj[t].n <= MaxTarget
  BY AccountingDef, SetsAreFinite DEF PoolInv, OverspawnInv
<1>2. UNCHANGED <<profile, start, target, adj, adjusts>>
  BY WorkerEffect DEF PoolInv, runnerVars, userVars
<1>3. active' = active \/ active' = active - 1
  <2>1. CASE ClaimExitSlot(w) \/ LeaveActive(w)
    BY <2>1 DEF ClaimExitSlot, LeaveActive
  <2>2. CASE ~(ClaimExitSlot(w) \/ LeaveActive(w))
    BY <2>2
    DEF WorkerStep, StartHook, CheckContext, ScaleLoadActive, ScaleCompare,
        RetryExitSlot, CheckPause, LeavePause, LoadUnlimited, ClaimRep, BeginCall,
        TakeCancelled, EndCall, ExitHook, WorkerDone, countVars
  <2> QED
    BY <2>1, <2>2
<1> QED
  BY <1>1, <1>2, <1>3, OverspawnKept

LEMMA OverspawnInvInductive ==
    ASSUME PoolInv, OverspawnInv, [Next]_vars
    PROVE  OverspawnInv'
<1>0. active \in Int /\ start <= MaxTarget
      /\ \A t \in Adjuster : adj[t].n <= MaxTarget
  BY AccountingDef, SetsAreFinite DEF PoolInv, OverspawnInv
<1>1. CASE RunnerStep
  BY <1>1, RunnerKeepsOverspawn
<1>2. ASSUME NEW w \in Worker, WorkerStep(w) PROVE OverspawnInv'
  BY <1>2, WorkerKeepsOverspawn
<1>3. ASSUME NEW t \in Adjuster, AdjustStep(t) PROVE OverspawnInv'
  BY <1>3, LoadActiveKeeps, SpawnKeeps DEF AdjustStep
<1>4. ASSUME NEW t \in Adjuster, NEW n \in Targets, UserSetConcurrency(t, n)
      PROVE  OverspawnInv'
  <2>1. n \in Nat /\ n <= MaxTarget
    BY <1>4, MaxTargetBounds, DomainAssumption
    DEF UserSetConcurrency, PoolInv, TypeInv, RunnerTypes
  <2>2. /\ StoreTarget(t, n) /\ UNCHANGED <<profile, start, active>>
        /\ adj[t].at = "none" /\ adjusts' = adjusts + 1 /\ adjusts < MaxAdjusts
    BY <1>4 DEF UserSetConcurrency, runnerVars
  <2> QED
    BY <2>1, <2>2, StoreTargetKeeps
<1>5. ASSUME NEW t \in Adjuster, UserSetWorker(t) PROVE OverspawnInv'
  BY <1>0, <1>5, OverspawnKept DEF UserSetWorker, runnerVars, countVars
<1>6. ASSUME NEW t \in Adjuster, NEW e \in Errs \cup {Nil}, UserFinish(t, e)
      PROVE  OverspawnInv'
  BY <1>0, <1>6, OverspawnKept DEF UserFinish, runnerVars, countVars, userVars
<1>7. CASE Launch \/ TimePasses \/ CancelParent \/ WaitGroupIsZero \/ ReadResult
           \/ Ended \/ UNCHANGED vars
  BY <1>0, <1>7, OverspawnKept
  DEF Launch, TimePasses, CancelParent, WaitGroupIsZero, ReadResult, Ended, vars,
      runnerVars, countVars, userVars
<1> QED
  BY <1>1, <1>2, <1>3, <1>4, <1>5, <1>6, <1>7 DEF Next

LEMMA InitOverspawnInv == Init => OverspawnInv
<1> SUFFICES ASSUME Init PROVE OverspawnInv
  OBVIOUS
<1>1. MaxTarget \in Nat /\ MaxTarget > 0 /\ MaxAdjusts \in Nat
  BY MaxTargetBounds, DomainAssumption DEF Init
<1>2. \A t \in Adjuster : adj[t] = NoAdjust
  BY DEF Init
<1>3. Users = {} /\ ToSpawn = {}
  BY <1>2 DEF Users, Busy, ToSpawn, NoAdjust
<1>4. MaxTarget * (1 + MaxAdjusts) \in Nat
  BY <1>1
<1>5. OverspawnBound
  BY <1>3, <1>4, FS_EmptySet DEF OverspawnBound, Init
<1> QED
  BY <1>1, <1>2, <1>3, <1>5, FS_EmptySet DEF OverspawnInv, Init, NoAdjust

\* Whatever calls of SetConcurrency see the same workers missing, and whatever
\* of it they have spawned already, the workers there are and the workers still
\* to be spawned are no more than one full target for the runner and one for
\* each call a user has made (workerpool.go:175-182).
THEOREM OverspawnHolds == Spec => []OverspawnBound
<1>1. PoolInv /\ OverspawnInv /\ [Next]_vars => OverspawnInv'
  BY OverspawnInvInductive
<1>2. OverspawnInv => OverspawnBound
  BY DEF OverspawnInv
<1> QED
  BY <1>1, <1>2, InitOverspawnInv, PoolInvHolds, PTL DEF Spec

=============================================================================
