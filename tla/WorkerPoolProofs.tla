--------------------------- MODULE WorkerPoolProofs ---------------------------
(***************************************************************************)
(* Proofs about WorkerPool, for every set of workers, callers, profiles    *)
(* and targets.                                                            *)
(***************************************************************************)
EXTENDS WorkerPool, FiniteSetTheorems, TLAPS

(***************************************************************************)
(* TypeOK but for the two counters, whose types follow from the            *)
(* accounting, in groups of variables that change together, with what the  *)
(* types rest on: a launched pool is within a valid profile, the runner    *)
(* sets a concurrency only in a step that is no pause, and a thread that   *)
(* spawns has workers left to spawn.                                       *)
(***************************************************************************)
InProfile ==
    Launched => /\ step \in 1 .. Len(profile)
                /\ \A i \in 1 .. Len(profile) : ValidStep(profile[i])
                /\ runner \in {"reps", "func", "apply", "wait", "tick",
                               "drain", "target", "load"} => ~Step.pause

BeforeLaunch == ~Launched => step = 1

RunnerTypes ==
    /\ profile \in Profiles /\ runner \in RunnerPC
    /\ step \in Nat \ {0} /\ start \in Nat \ {0} /\ expired \in BOOLEAN
    /\ InProfile /\ BeforeLaunch

StepTypes ==
    /\ target \in Nat /\ isUnlimited \in BOOLEAN
    /\ remaining \in Nat \cup {-1} /\ func \in Nat \cup {UserFunc}
    /\ resume \in Nat /\ pauses \in Nat

WorkerTypes ==
    /\ pc \in [Worker -> WorkerPC] /\ hooked \in [Worker -> BOOLEAN]
    /\ seen \in [Worker -> Nat] /\ waitsOn \in [Worker -> Nat]

Adjusts == [at : {"none", "load", "spawn"}, n : Nat, left : Nat]
AdjTypes ==
    /\ adj \in [Adjuster -> Adjusts]
    /\ \A t \in Adjuster : adj[t].at = "spawn" => adj[t].left > 0

EndTypes ==
    /\ cancelled \in BOOLEAN /\ finished \in BOOLEAN
    /\ result \in Errs \cup {Nil}
    /\ first \in [err : Errs \cup {Nil}, live : BOOLEAN]

WaitTypes ==
    /\ waitResult \in Errs \cup {Nil}
    /\ waiter \in {"waiting", "woken", "returned"}

UserTypes == adjusts \in Nat /\ userTarget \in Targets \cup {NoTarget}

CallTypes ==
    /\ completed \in Nat /\ stepCalls \in Nat
    /\ pauseCalls \in [Worker -> Nat]

TypeInv ==
    /\ RunnerTypes /\ StepTypes /\ WorkerTypes /\ AdjTypes
    /\ EndTypes /\ WaitTypes /\ UserTypes /\ CallTypes

----------------------------------------------------------------------------
(* The accounting. *)

RunSet == {w \in Worker : InRun(w)}
LiveSet == {w \in Worker : pc[w] # "idle"}

\* The counters are cardinalities of finite sets.
LEMMA SetsAreFinite ==
    /\ IsFiniteSet(RunSet) /\ Cardinality(RunSet) \in Nat
    /\ IsFiniteSet(LiveSet) /\ Cardinality(LiveSet) \in Nat
<1>1. RunSet \subseteq Worker /\ LiveSet \subseteq Worker
  BY DEF RunSet, LiveSet
<1> QED
  BY <1>1, ThreadAssumption, FS_Subset, FS_CardinalityType

\* Adding an element that is not in a finite set.
LEMMA AddOne ==
    ASSUME NEW S, NEW T, IsFiniteSet(S), NEW x, x \notin S, T = S \cup {x}
    PROVE  Cardinality(T) = Cardinality(S) + 1
BY FS_AddElement

\* Removing an element of a finite set.
LEMMA RemoveOne ==
    ASSUME NEW S, NEW T, IsFiniteSet(S), NEW x, x \in S, T = S \ {x}
    PROVE  Cardinality(T) = Cardinality(S) - 1
BY FS_RemoveElement

\* A worker that moves within its loop stays in both sets.
LEMMA MoveInRun ==
    ASSUME NEW w \in Worker, pc \in [Worker -> WorkerPC], NEW l,
           InRun(w), l \notin {"idle", "wgDone"}, Goto(w, l)
    PROVE  RunSet' = RunSet /\ LiveSet' = LiveSet
BY DEF Goto, RunSet, LiveSet, InRun

\* A worker that gives up its place leaves RunSet.
LEMMA LeaveRun ==
    ASSUME NEW w \in Worker, pc \in [Worker -> WorkerPC],
           InRun(w), Goto(w, "wgDone")
    PROVE  /\ Cardinality(RunSet)' = Cardinality(RunSet) - 1
           /\ LiveSet' = LiveSet
<1>1. w \in RunSet /\ RunSet' = RunSet \ {w} /\ LiveSet' = LiveSet
  BY DEF Goto, RunSet, LiveSet, InRun
<1> QED
  BY <1>1, SetsAreFinite, RemoveOne

\* A goroutine that returns leaves LiveSet.
LEMMA LeaveLive ==
    ASSUME NEW w \in Worker, pc \in [Worker -> WorkerPC],
           pc[w] = "wgDone", Goto(w, "idle")
    PROVE  /\ RunSet' = RunSet
           /\ Cardinality(LiveSet)' = Cardinality(LiveSet) - 1
<1>1. w \in LiveSet /\ LiveSet' = LiveSet \ {w} /\ RunSet' = RunSet
  BY DEF Goto, RunSet, LiveSet, InRun
<1> QED
  BY <1>1, SetsAreFinite, RemoveOne

\* A new goroutine joins both sets.
LEMMA JoinBoth ==
    ASSUME NEW w \in Worker, pc \in [Worker -> WorkerPC],
           pc[w] = "idle", Goto(w, "start")
    PROVE  /\ Cardinality(RunSet)' = Cardinality(RunSet) + 1
           /\ Cardinality(LiveSet)' = Cardinality(LiveSet) + 1
<1>1. /\ w \notin RunSet /\ RunSet' = RunSet \cup {w}
      /\ w \notin LiveSet /\ LiveSet' = LiveSet \cup {w}
  BY DEF Goto, RunSet, LiveSet, InRun
<1> QED
  BY <1>1, SetsAreFinite, AddOne

Accounting == ActiveAccounting /\ WgAccounting

LEMMA AccountingDef ==
    Accounting <=> /\ active = Cardinality(RunSet)
                   /\ wg = Cardinality(LiveSet) + (IF RunnerIsLive THEN 1 ELSE 0)
BY DEF Accounting, ActiveAccounting, WgAccounting, RunSet, LiveSet

\* A step that moves no worker in or out and keeps the counters.
LEMMA KeepAccounting ==
    ASSUME Accounting, RunSet' = RunSet, LiveSet' = LiveSet,
           UNCHANGED <<active, wg>>, RunnerIsLive' = RunnerIsLive
    PROVE  Accounting'
<1>1. /\ active' = Cardinality(RunSet')
      /\ wg' = Cardinality(LiveSet') + (IF RunnerIsLive' THEN 1 ELSE 0)
  BY AccountingDef
<1> QED
  BY <1>1, AccountingDef DEF Accounting, ActiveAccounting, WgAccounting, RunSet,
                             LiveSet

LEMMA InitAccounting == Init => Accounting
<1> SUFFICES ASSUME Init PROVE Accounting
  OBVIOUS
<1>1. RunSet = {} /\ LiveSet = {} /\ ~RunnerIsLive
  BY DEF Init, RunSet, LiveSet, InRun, RunnerIsLive
<1>2. Cardinality({}) = 0
  BY FS_EmptySet
<1> QED
  BY <1>1, <1>2, AccountingDef DEF Init

\* Every step keeps the accounting.
LEMMA NextAccounting ==
    ASSUME TypeInv, Accounting, [Next]_vars
    PROVE  Accounting'
<1>0. pc \in [Worker -> WorkerPC] /\ runner \in RunnerPC
  BY DEF TypeInv, WorkerTypes, RunnerTypes
<1>k. ASSUME UNCHANGED <<active, wg, pc>>, RunnerIsLive' = RunnerIsLive
      PROVE  Accounting'
  <2>1. RunSet' = RunSet /\ LiveSet' = LiveSet
    BY <1>k DEF RunSet, LiveSet, InRun
  <2> QED
    BY <1>k, <2>1, KeepAccounting
<1>1. CASE Launch
  <2>1. /\ UNCHANGED <<active, pc>> /\ wg' = wg + 1
        /\ ~RunnerIsLive /\ RunnerIsLive'
    BY <1>1 DEF Launch, RunnerIsLive, workerVars
  <2>2. RunSet' = RunSet /\ LiveSet' = LiveSet
    BY <2>1 DEF RunSet, LiveSet, InRun
  <2>3. /\ active' = Cardinality(RunSet)' /\ wg' = Cardinality(LiveSet)' + 1
    BY <2>1, <2>2, AccountingDef, SetsAreFinite
  <2> QED
    BY <2>1, <2>3 DEF Accounting, ActiveAccounting, WgAccounting, RunSet, LiveSet
<1>2. CASE RunnerExit
  <2>1. /\ UNCHANGED <<active, pc>> /\ wg' = wg - 1
        /\ RunnerIsLive /\ ~RunnerIsLive'
    BY <1>2 DEF RunnerExit, RunnerIsLive, workerVars
  <2>2. RunSet' = RunSet /\ LiveSet' = LiveSet
    BY <2>1 DEF RunSet, LiveSet, InRun
  <2>3. /\ active' = Cardinality(RunSet)' /\ wg' = Cardinality(LiveSet)' + 0
    BY <2>1, <2>2, AccountingDef, SetsAreFinite
  <2> QED
    BY <2>1, <2>3 DEF Accounting, ActiveAccounting, WgAccounting, RunSet, LiveSet
<1>3. CASE RunnerStep /\ ~RunnerExit
  <2>1. UNCHANGED <<active, wg, pc>>
    BY <1>3 DEF RunnerStep, BeginPause, EndPause, BeginStep, StoreReps,
         SetStepWorker, ApplyConcurrency, TickArrives, EndOnCancel, CheckTick, CheckDrained,
         LoadTarget, StoreLoadedTarget, EndStep, StopAtEnd, StoreTarget,
         countVars, workerVars
  <2>2. RunnerIsLive' = RunnerIsLive
    BY <1>3 DEF RunnerStep, BeginPause, EndPause, BeginStep, StoreReps,
         SetStepWorker, ApplyConcurrency, TickArrives, EndOnCancel, CheckTick, CheckDrained,
         LoadTarget, StoreLoadedTarget, EndStep, StopAtEnd, RunnerIsLive,
         Replacing, AfterReps
  <2> QED
    BY <1>k, <2>1, <2>2
<1>4. ASSUME NEW t \in Adjuster, LoadActive(t) PROVE Accounting'
  BY <1>k, <1>4 DEF LoadActive, countVars, workerVars, runnerVars, RunnerIsLive
<1>5. ASSUME NEW t \in Adjuster, Spawn(t) PROVE Accounting'
  <2>1. PICK w \in Worker : pc[w] = "idle" /\ Goto(w, "start")
    BY <1>5 DEF Spawn, Idle, Goto
  <2>2. active' = active + 1 /\ wg' = wg + 1 /\ RunnerIsLive' = RunnerIsLive
    BY <1>5 DEF Spawn, runnerVars, RunnerIsLive
  <2>3. /\ active' = Cardinality(RunSet)'
        /\ wg' = Cardinality(LiveSet)' + (IF RunnerIsLive' THEN 1 ELSE 0)
    BY <1>0, <2>1, <2>2, JoinBoth, AccountingDef, SetsAreFinite
  <2> QED
    BY <2>3 DEF Accounting, ActiveAccounting, WgAccounting, RunSet, LiveSet
<1>6. ASSUME NEW w \in Worker,
             \/ StartHook(w) \/ CheckContext(w)
             \/ ScaleLoadActive(w) \/ ScaleCompare(w) \/ RetryExitSlot(w)
             \/ CheckPause(w) \/ LeavePause(w) \/ LoadUnlimited(w)
             \/ ClaimRep(w) \/ BeginCall(w) \/ TakeCancelled(w) \/ EndCall(w)
      PROVE  Accounting'
  <2>1. /\ InRun(w) /\ UNCHANGED <<active, wg, runner>>
        /\ \E l \in WorkerPC \ {"idle", "wgDone"} : Goto(w, l)
    <3>1. CASE StartHook(w) \/ CheckContext(w) \/ ScaleLoadActive(w)
      BY <3>1 DEF StartHook, CheckContext, ScaleLoadActive, InRun, countVars,
                  runnerVars, AfterFailedStart, WorkerPC, IsFree
    <3>2. CASE ScaleCompare(w) \/ RetryExitSlot(w) \/ CheckPause(w)
      BY <3>2 DEF ScaleCompare, RetryExitSlot, CheckPause, InRun, countVars,
                  runnerVars, WorkerPC
    <3>3. CASE LeavePause(w) \/ LoadUnlimited(w) \/ ClaimRep(w)
      BY <3>3 DEF LeavePause, LoadUnlimited, ClaimRep, InRun, countVars,
                  runnerVars, WorkerPC
    <3>4. CASE BeginCall(w) \/ TakeCancelled(w) \/ EndCall(w)
      BY <3>4 DEF BeginCall, TakeCancelled, EndCall, InRun, countVars,
                  runnerVars, WorkerPC, AfterCall
    <3> QED
      BY <1>6, <3>1, <3>2, <3>3, <3>4
  <2>2. RunSet' = RunSet /\ LiveSet' = LiveSet
    BY <1>0, <2>1, MoveInRun
  <2> QED
    BY <2>1, <2>2, KeepAccounting DEF RunnerIsLive
<1>7. ASSUME NEW w \in Worker, ClaimExitSlot(w) \/ LeaveActive(w)
      PROVE  Accounting'
  <2>1. /\ InRun(w) /\ Goto(w, "wgDone") /\ active' = active - 1
        /\ UNCHANGED wg /\ RunnerIsLive' = RunnerIsLive
    BY <1>7 DEF ClaimExitSlot, LeaveActive, InRun, AfterScaleDown, runnerVars,
                RunnerIsLive
  <2>2. /\ active' = Cardinality(RunSet)'
        /\ wg' = Cardinality(LiveSet)' + (IF RunnerIsLive' THEN 1 ELSE 0)
    BY <1>0, <2>1, LeaveRun, AccountingDef
  <2> QED
    BY <2>2 DEF Accounting, ActiveAccounting, WgAccounting, RunSet, LiveSet
<1>8. ASSUME NEW w \in Worker, WorkerDone(w) PROVE Accounting'
  <2>1. /\ pc[w] = "wgDone" /\ Goto(w, "idle") /\ wg' = wg - 1
        /\ UNCHANGED active /\ RunnerIsLive' = RunnerIsLive
    BY <1>8 DEF WorkerDone, runnerVars, RunnerIsLive
  <2>2. /\ active' = Cardinality(RunSet)'
        /\ wg' = Cardinality(LiveSet)' + (IF RunnerIsLive' THEN 1 ELSE 0)
    BY <1>0, <2>1, LeaveLive, AccountingDef, SetsAreFinite
  <2> QED
    BY <2>2 DEF Accounting, ActiveAccounting, WgAccounting, RunSet, LiveSet
<1>9. ASSUME NEW t \in Adjuster, NEW n \in Targets,
             UserSetConcurrency(t, n)
      PROVE  Accounting'
  BY <1>k, <1>9 DEF UserSetConcurrency, StoreTarget, workerVars, runnerVars,
                    RunnerIsLive
<1>10. ASSUME NEW t \in Adjuster, NEW e \in Errs \cup {Nil}, UserFinish(t, e)
       PROVE  Accounting'
  BY <1>k, <1>10 DEF UserFinish, countVars, workerVars, runnerVars, RunnerIsLive
<1>11. CASE TimePasses \/ CancelParent \/ WaitGroupIsZero \/ ReadResult
            \/ Ended \/ UNCHANGED vars
  BY <1>k, <1>11 DEF TimePasses, CancelParent, WaitGroupIsZero, ReadResult,
       Ended, vars, countVars, workerVars, runnerVars, RunnerIsLive
<1>12. ASSUME NEW t \in Adjuster, UserSetWorker(t) PROVE Accounting'
  BY <1>k, <1>12 DEF UserSetWorker, countVars, workerVars, runnerVars,
                     RunnerIsLive
<1>13. ASSUME NEW w \in Worker, ExitHook(w) PROVE Accounting'
  BY <1>k, <1>13 DEF ExitHook, countVars, runnerVars, RunnerIsLive
<1> QED
  BY <1>1, <1>2, <1>3, <1>4, <1>5, <1>6, <1>7, <1>8, <1>9, <1>10, <1>11,
     <1>12, <1>13
  DEF Next, AdjustStep, WorkerStep

----------------------------------------------------------------------------
(* The types. *)

\* A group of variables that a step leaves alone keeps its types.
LEMMA Frame ==
    /\ RunnerTypes /\ UNCHANGED runnerVars => RunnerTypes'
    /\ StepTypes /\ UNCHANGED <<target, repVars, pauseVars>> => StepTypes'
    /\ WorkerTypes /\ UNCHANGED workerVars => WorkerTypes'
    /\ AdjTypes /\ UNCHANGED adj => AdjTypes'
    /\ EndTypes /\ UNCHANGED endVars => EndTypes'
    /\ WaitTypes /\ UNCHANGED waitVars => WaitTypes'
    /\ UserTypes /\ UNCHANGED userVars => UserTypes'
    /\ CallTypes /\ UNCHANGED callVars => CallTypes'
<1>1. RunnerTypes /\ UNCHANGED runnerVars => RunnerTypes'
  BY DEF RunnerTypes, runnerVars, InProfile, BeforeLaunch, Launched, Step
<1>2. StepTypes /\ UNCHANGED <<target, repVars, pauseVars>> => StepTypes'
  BY DEF StepTypes, repVars, pauseVars
<1>3. WorkerTypes /\ UNCHANGED workerVars => WorkerTypes'
  BY DEF WorkerTypes, workerVars
<1>4. AdjTypes /\ UNCHANGED adj => AdjTypes'
  BY DEF AdjTypes
<1>5. EndTypes /\ UNCHANGED endVars => EndTypes'
  BY DEF EndTypes, endVars
<1>6. WaitTypes /\ UNCHANGED waitVars => WaitTypes'
  BY DEF WaitTypes, waitVars
<1>7. UserTypes /\ UNCHANGED userVars => UserTypes'
  BY DEF UserTypes, userVars
<1>8. CallTypes /\ UNCHANGED callVars => CallTypes'
  BY DEF CallTypes, callVars
<1> QED
  BY <1>1, <1>2, <1>3, <1>4, <1>5, <1>6, <1>7, <1>8

\* The step the runner is in is one of the profile.
LEMMA StepTyped ==
    ASSUME RunnerTypes, Launched
    PROVE  /\ Step \in Steps /\ Step.reps \in Nat
           /\ ~Step.pause => Step.concurrency \in Nat \ {0}
<1>1. profile \in Seq(Steps) /\ step \in 1 .. Len(profile)
  BY DomainAssumption DEF RunnerTypes, InProfile
<1>2. Step \in Steps /\ ValidStep(Step)
  BY <1>1 DEF Step, InProfile, RunnerTypes
<1> QED
  BY <1>2 DEF Steps, ValidStep

\* A step of the runner within the current step of the profile.
LEMMA RunnerMoves ==
    ASSUME RunnerTypes, UNCHANGED <<profile, step>>, Launched, Launched',
           runner' \in RunnerPC, start' \in Nat \ {0}, expired' \in BOOLEAN,
           runner' \in {"reps", "func", "apply", "wait", "tick", "drain",
                       "target", "load"} => ~Step.pause
    PROVE  RunnerTypes'
BY DEF RunnerTypes, InProfile, BeforeLaunch, Step

\* Changing one thread's call.
LEMMA AdjUpdate ==
    ASSUME AdjTypes, NEW t, NEW r \in Adjusts, r.at = "spawn" => r.left > 0,
           adj' = [adj EXCEPT ![t] = r]
    PROVE  AdjTypes'
BY DEF AdjTypes

\* Storing a target makes the thread load activeWorkers next.
LEMMA StoreTargetTyped ==
    ASSUME AdjTypes, NEW t, NEW n \in Nat, StoreTarget(t, n)
    PROVE  AdjTypes' /\ target' = n
<1> DEFINE r == [at |-> "load", n |-> n, left |-> 0]
<1>1. r \in Adjusts /\ (r.at = "spawn" => r.left > 0)
  BY DEF Adjusts
<1>2. target' = n /\ (adj' = adj \/ adj' = [adj EXCEPT ![t] = r])
  BY DEF StoreTarget
<1> HIDE DEF r
<1>3. CASE adj' = adj
  BY <1>2, <1>3, Frame
<1>4. CASE adj' = [adj EXCEPT ![t] = r]
  BY <1>1, <1>2, <1>4, AdjUpdate
<1> QED
  BY <1>2, <1>3, <1>4

LEMMA FinishTyped ==
    ASSUME EndTypes, NEW e \in Errs \cup {Nil}, Finish(e)
    PROVE  EndTypes'
<1>1. CASE FirstFinish
  <2> DEFINE live == wg > 0 /\ waiter = "waiting"
  <2>1. live \in BOOLEAN
    OBVIOUS
  <2>2. /\ finished' = TRUE /\ result' = e /\ cancelled' = TRUE
        /\ first' = first \/ first' = [err |-> e, live |-> live]
    BY <1>1 DEF Finish
  <2> HIDE DEF live
  <2>3. first' \in [err : Errs \cup {Nil}, live : BOOLEAN]
    BY <2>1, <2>2 DEF EndTypes
  <2> QED
    BY <2>2, <2>3 DEF EndTypes
<1>2. CASE ~FirstFinish
  BY <1>2 DEF Finish, endVars, EndTypes
<1> QED
  BY <1>1, <1>2

LEMMA InitTypeInv == Init => TypeInv
<1> SUFFICES ASSUME Init PROVE TypeInv
  OBVIOUS
<1> DEFINE r == NoAdjust
<1>1. r \in Adjusts /\ r.at = "none"
  BY DEF NoAdjust, Adjusts
<1> HIDE DEF r
<1>2. adj = [t \in Adjuster |-> r]
  BY DEF Init, r
<1>3. AdjTypes
  BY <1>1, <1>2 DEF AdjTypes
<1>4. first \in [err : Errs \cup {Nil}, live : BOOLEAN]
  BY DEF Init
<1>5. EndTypes
  BY <1>4 DEF Init, EndTypes
<1>6. WorkerTypes
  <2>1. pc \in [Worker -> WorkerPC]
    BY DEF Init, WorkerPC
  <2>2. hooked \in [Worker -> BOOLEAN]
    BY Zenon DEF Init
  <2>3. seen \in [Worker -> Nat] /\ waitsOn \in [Worker -> Nat]
    BY DEF Init
  <2> QED
    BY <2>1, <2>2, <2>3 DEF WorkerTypes
<1>9. CallTypes
  BY DEF Init, CallTypes
<1>7. RunnerTypes /\ StepTypes
  <2>1. ~Launched /\ InProfile /\ BeforeLaunch
    BY DEF Init, InProfile, BeforeLaunch, Launched
  <2>4. /\ profile \in Profiles /\ runner = "unlaunched"
        /\ step = 1 /\ start = 1
    BY DEF Init
  <2>5. expired \in BOOLEAN
    BY Zenon DEF Init
  <2>2. RunnerTypes
    BY <2>1, <2>4, <2>5 DEF RunnerTypes, RunnerPC
  <2>3. StepTypes
    BY DEF Init, StepTypes, UserFunc, PoolFunc
  <2> QED
    BY <2>2, <2>3
<1>8. WaitTypes /\ UserTypes
  BY DEF Init, WaitTypes, UserTypes
<1> QED
  BY <1>3, <1>5, <1>6, <1>7, <1>8, <1>9 DEF TypeInv

\* The runner's steps keep the types.
LEMMA RunnerTyped ==
    ASSUME TypeInv, RunnerStep
    PROVE  TypeInv'
<1> USE DEF TypeInv
<1>0. Launched
  BY DEF RunnerStep, BeginPause, EndPause, BeginStep, StoreReps,
         SetStepWorker, ApplyConcurrency, TickArrives, EndOnCancel, CheckTick, CheckDrained,
         LoadTarget, StoreLoadedTarget, EndStep, StopAtEnd, RunnerExit,
         Launched
<1>s. /\ Step \in Steps /\ Step.reps \in Nat
      /\ ~Step.pause => Step.concurrency \in Nat \ {0}
      /\ start \in Nat \ {0} /\ expired \in BOOLEAN
      /\ runner \in {"reps", "func", "apply", "wait", "tick", "drain",
                    "target", "load"} => ~Step.pause
  BY <1>0, StepTyped DEF RunnerTypes, InProfile
<1>1. CASE BeginPause
  <2>1. RunnerTypes'
    BY <1>0, <1>1, <1>s, RunnerMoves DEF BeginPause, RunnerPC, Launched
  <2>2. StepTypes'
    BY <1>1 DEF BeginPause, StepTypes, countVars, repVars
  <2>3. CallTypes'
    BY <1>1 DEF BeginPause, CallTypes
  <2> QED
    BY <1>1, <2>1, <2>2, <2>3, Frame DEF BeginPause
<1>2. CASE EndPause
  <2>1. RunnerTypes'
    BY <1>0, <1>2, <1>s, RunnerMoves DEF EndPause, RunnerPC, Launched
  <2>2. StepTypes'
    BY <1>2 DEF EndPause, StepTypes, countVars, repVars, ResumeAfterPause
  <2> QED
    BY <1>2, <2>1, <2>2, Frame DEF EndPause
<1>3. CASE BeginStep
  <2>1. RunnerTypes'
    BY <1>0, <1>3, <1>s, RunnerMoves DEF BeginStep, AfterReps, RunnerPC, Launched
  <2>2. isUnlimited' \in BOOLEAN
    BY <1>3 DEF BeginStep, StepIsUnlimited
  <2>3. StepTypes'
    BY <1>3, <2>2 DEF BeginStep, StepTypes, countVars, pauseVars
  <2> QED
    BY <1>3, <2>1, <2>3, Frame DEF BeginStep
<1>4. CASE StoreReps
  <2>1. RunnerTypes'
    BY <1>0, <1>4, <1>s, RunnerMoves DEF StoreReps, AfterReps, RunnerPC, Launched
  <2>2. StepTypes'
    BY <1>4, <1>s DEF StoreReps, StepTypes, countVars, pauseVars
  <2>3. CallTypes'
    BY <1>4 DEF StoreReps, CallTypes
  <2> QED
    BY <1>4, <2>1, <2>2, <2>3, Frame DEF StoreReps
<1>5. CASE ApplyConcurrency
  <2> DEFINE n == IF Step.eased THEN start ELSE Step.concurrency
  <2>1. runner = "apply" /\ StoreTarget(Runner, n)
    BY <1>5 DEF ApplyConcurrency
  <2>2. n \in Nat
    BY <1>s, <2>1
  <2> HIDE DEF n
  <2>3. AdjTypes' /\ target' \in Nat
    BY <2>1, <2>2, StoreTargetTyped
  <2>4. RunnerTypes'
    BY <1>0, <1>5, <1>s, RunnerMoves DEF ApplyConcurrency, RunnerPC, Launched
  <2>5. StepTypes'
    BY <1>5, <2>3 DEF ApplyConcurrency, StepTypes, repVars, pauseVars
  <2>6. UserTypes'
    BY <1>5 DEF ApplyConcurrency, UserTypes
  <2> QED
    BY <1>5, <2>3, <2>4, <2>5, <2>6, Frame DEF ApplyConcurrency
<1>6. CASE TickArrives \/ EndOnCancel
  <2>1. RunnerTypes'
    BY <1>0, <1>6, <1>s, RunnerMoves
    DEF TickArrives, EndOnCancel, RunnerPC, Launched
  <2> QED
    BY <1>6, <2>1, Frame DEF TickArrives, EndOnCancel, countVars
<1>7. CASE CheckTick
  <2>1. runner' \in {"end", "drain", "target"} /\ runner = "tick"
    BY <1>7 DEF CheckTick, Replacing
  <2>2. UNCHANGED <<profile, step, start, expired>>
    BY <1>7 DEF CheckTick
  <2>3. RunnerTypes'
    BY <1>0, <1>s, <2>1, <2>2, RunnerMoves DEF RunnerPC, Launched
  <2> QED
    BY <1>7, <2>3, Frame DEF CheckTick, countVars
<1>8. CASE CheckDrained
  <2>1. RunnerTypes'
    BY <1>0, <1>8, <1>s, RunnerMoves DEF CheckDrained, RunnerPC, Launched
  <2> QED
    BY <1>8, <2>1, Frame DEF CheckDrained, countVars
<1>9. CASE LoadTarget
  <2>1. RunnerTypes'
    BY <1>0, <1>9, <1>s, RunnerMoves DEF LoadTarget, RunnerPC, Launched
  <2>2. PICK n \in IF Step.eased THEN Between(start, Step.concurrency)
                                 ELSE {target} :
          adj' = [adj EXCEPT ![Runner].n = n]
    BY <1>9 DEF LoadTarget
  <2>3. n \in Nat
    <3>1. runner = "target"
      BY <1>9 DEF LoadTarget
    <3> QED
      BY <1>s, <2>2, <3>1 DEF Between, StepTypes
  <2>4. AdjTypes'
    <3> DEFINE r == [adj[Runner] EXCEPT !.n = n]
    <3>1. adj[Runner] \in Adjusts /\ (adj[Runner].at = "spawn" => adj[Runner].left > 0)
      BY DEF AdjTypes, Adjuster
    <3>2. r \in Adjusts /\ (r.at = "spawn" => r.left > 0)
      BY <2>3, <3>1 DEF Adjusts
    <3>3. adj' = [adj EXCEPT ![Runner] = r]
      BY <2>2
    <3> HIDE DEF r
    <3> QED
      BY <3>2, <3>3, AdjUpdate
  <2> QED
    BY <1>9, <2>1, <2>4, Frame DEF LoadTarget, countVars
<1>10. CASE StoreLoadedTarget
  <2>1. RunnerTypes'
    BY <1>0, <1>10, <1>s, RunnerMoves DEF StoreLoadedTarget, RunnerPC, Launched
  <2>2. adj[Runner].n \in Nat
    BY DEF AdjTypes, Adjuster, Adjusts
  <2>3. AdjTypes' /\ target' \in Nat
    BY <1>10, <2>2, StoreTargetTyped DEF StoreLoadedTarget
  <2>4. StepTypes'
    BY <1>10, <2>3 DEF StoreLoadedTarget, StepTypes, repVars, pauseVars
  <2> QED
    BY <1>10, <2>1, <2>3, <2>4, Frame DEF StoreLoadedTarget
<1>11. CASE EndStep
  <2>1. /\ UNCHANGED <<profile, expired>> /\ start' \in Nat \ {0}
        /\ runner' \in {"exit", "begin", "stop"}
        /\ \/ step' = step
           \/ step' = step + 1 /\ step < Len(profile)
    BY <1>11, <1>s DEF EndStep
  <2>2. step' \in 1 .. Len(profile)
    BY <1>0, <2>1, DomainAssumption DEF RunnerTypes, InProfile
  <2>3. RunnerTypes'
    BY <1>0, <1>s, <2>1, <2>2 DEF RunnerTypes, RunnerPC, InProfile, BeforeLaunch,
                               Launched
  <2> QED
    BY <1>11, <2>3, Frame DEF EndStep, countVars
<1>12. CASE StopAtEnd
  <2>1. RunnerTypes'
    BY <1>0, <1>12, <1>s, RunnerMoves DEF StopAtEnd, RunnerPC, Launched
  <2>2. EndTypes'
    BY <1>12, FinishTyped DEF StopAtEnd
  <2> QED
    BY <1>12, <2>1, <2>2, Frame DEF StopAtEnd, countVars
<1>13. CASE RunnerExit
  <2>1. RunnerTypes'
    BY <1>0, <1>13, <1>s, RunnerMoves DEF RunnerExit, RunnerPC, Launched
  <2> QED
    BY <1>13, <2>1, Frame DEF RunnerExit
<1>14. CASE SetStepWorker
  <2>1. RunnerTypes'
    BY <1>0, <1>14, <1>s, RunnerMoves DEF SetStepWorker, RunnerPC, Launched
  <2>2. step \in Nat
    BY DEF RunnerTypes
  <2>3. StepTypes'
    BY <1>14, <2>2 DEF SetStepWorker, StepTypes, countVars, pauseVars
  <2> QED
    BY <1>14, <2>1, <2>3, Frame DEF SetStepWorker
<1> QED
  BY <1>1, <1>2, <1>3, <1>4, <1>5, <1>6, <1>7, <1>8, <1>9, <1>10, <1>11,
     <1>12, <1>13, <1>14
  DEF RunnerStep

\* A worker that moves and changes no other worker's variables.
LEMMA GotoTyped ==
    ASSUME pc \in [Worker -> WorkerPC], NEW w, NEW l \in WorkerPC, Goto(w, l)
    PROVE  pc' \in [Worker -> WorkerPC]
BY DEF Goto

\* The workers' steps keep the types.
LEMMA WorkerTyped ==
    ASSUME TypeInv, Accounting, NEW w \in Worker, WorkerStep(w)
    PROVE  TypeInv'
<1> USE DEF TypeInv
<1>0. /\ pc \in [Worker -> WorkerPC] /\ hooked \in [Worker -> BOOLEAN]
      /\ seen \in [Worker -> Nat] /\ waitsOn \in [Worker -> Nat]
  BY DEF WorkerTypes
<1>a. active \in Nat
  BY AccountingDef, SetsAreFinite
<1>1. pc' = pc \/ \E l \in WorkerPC : Goto(w, l)
  <2>1. CASE StartHook(w) \/ CheckContext(w) \/ ScaleLoadActive(w)
    BY <2>1 DEF StartHook, CheckContext, ScaleLoadActive, AfterFailedStart,
                WorkerPC
  <2>2. CASE ScaleCompare(w) \/ RetryExitSlot(w) \/ CheckPause(w)
    BY <2>2 DEF ScaleCompare, RetryExitSlot, CheckPause, WorkerPC
  <2>3. CASE LeavePause(w) \/ LoadUnlimited(w) \/ ClaimRep(w)
    BY <2>3 DEF LeavePause, LoadUnlimited, ClaimRep, WorkerPC
  <2>4. CASE BeginCall(w) \/ TakeCancelled(w) \/ EndCall(w)
    BY <2>4 DEF BeginCall, TakeCancelled, EndCall, WorkerPC, AfterCall
  <2>5. CASE ClaimExitSlot(w) \/ LeaveActive(w) \/ WorkerDone(w)
    BY <2>5 DEF ClaimExitSlot, LeaveActive, WorkerDone, WorkerPC,
                AfterScaleDown
  <2>6. CASE ExitHook(w)
    BY <2>6 DEF ExitHook
  <2> QED
    BY <2>1, <2>2, <2>3, <2>4, <2>5, <2>6 DEF WorkerStep
<1>2. pc' \in [Worker -> WorkerPC]
  BY <1>0, <1>1, GotoTyped
<1>3. hooked' \in [Worker -> BOOLEAN]
  <2>1. \/ hooked' = hooked \/ hooked' = [hooked EXCEPT ![w] = FALSE]
        \/ hooked' = [hooked EXCEPT ![w] = WorkerHooks]
    BY DEF WorkerStep, StartHook, CheckContext, ScaleLoadActive, ScaleCompare,
       RetryExitSlot, CheckPause, LeavePause, LoadUnlimited, ClaimRep,
       BeginCall, TakeCancelled, EndCall, ClaimExitSlot, LeaveActive,
       WorkerDone, ExitHook
  <2> QED
    BY <1>0, <2>1, DomainAssumption, Zenon
<1>4. seen' \in [Worker -> Nat]
  <2>1. \E n \in Nat : seen' = seen \/ seen' = [seen EXCEPT ![w] = n]
    BY <1>a DEF WorkerStep, StartHook, CheckContext, ScaleLoadActive,
       ScaleCompare, RetryExitSlot, CheckPause, LeavePause, LoadUnlimited,
       ClaimRep, BeginCall, TakeCancelled, EndCall, ClaimExitSlot,
       LeaveActive, WorkerDone, ExitHook
  <2> QED
    BY <1>0, <2>1
<1>5. waitsOn' \in [Worker -> Nat]
  <2>1. resume \in Nat
    BY DEF StepTypes
  <2>2. \E n \in Nat : waitsOn' = waitsOn \/ waitsOn' = [waitsOn EXCEPT ![w] = n]
    BY <2>1 DEF WorkerStep, StartHook, CheckContext, ScaleLoadActive,
       ScaleCompare, RetryExitSlot, CheckPause, LeavePause, LoadUnlimited,
       ClaimRep, BeginCall, TakeCancelled, EndCall, ClaimExitSlot,
       LeaveActive, WorkerDone, ExitHook
  <2> QED
    BY <1>0, <2>2
<1>6. WorkerTypes'
  BY <1>2, <1>3, <1>4, <1>5 DEF WorkerTypes
<1>7. StepTypes'
  <2>1. /\ UNCHANGED <<target, isUnlimited, func, pauseVars>>
        /\ \/ remaining' = remaining
           \/ remaining' = IF remaining > 0 THEN remaining - 1 ELSE -1
    BY DEF WorkerStep, StartHook, CheckContext, ScaleLoadActive, ScaleCompare,
       RetryExitSlot, CheckPause, LeavePause, LoadUnlimited, ClaimRep,
       BeginCall, TakeCancelled, EndCall, ClaimExitSlot, LeaveActive,
       WorkerDone, ExitHook, countVars, repVars
  <2>2. remaining' \in Nat \cup {-1}
    BY <2>1 DEF StepTypes
  <2> QED
    BY <2>1, <2>2 DEF StepTypes, pauseVars
<1>8. CallTypes'
  <2>0. /\ completed \in Nat /\ stepCalls \in Nat /\ MaxCount \in Nat
        /\ pauseCalls \in [Worker -> Nat]
    BY DomainAssumption DEF CallTypes
  <2>1. CASE BeginCall(w)
    BY <2>0, <2>1 DEF BeginCall, SaturatingInc, CallTypes
  <2>2. CASE EndCall(w)
    BY <2>0, <2>2 DEF EndCall, SaturatingInc, CallTypes
  <2>3. CASE ~BeginCall(w) /\ ~EndCall(w)
    <3>1. UNCHANGED callVars
      BY <2>3 DEF WorkerStep, StartHook, CheckContext, ScaleLoadActive,
         ScaleCompare, RetryExitSlot, CheckPause, LeavePause, LoadUnlimited,
         ClaimRep, TakeCancelled, ClaimExitSlot, LeaveActive, WorkerDone,
         ExitHook
    <3> QED
      BY <3>1, Frame
  <2> QED
    BY <2>1, <2>2, <2>3
<1>9. UNCHANGED <<runnerVars, adj, endVars, waitVars, userVars>>
  BY DEF WorkerStep, StartHook, CheckContext, ScaleLoadActive, ScaleCompare,
     RetryExitSlot, CheckPause, LeavePause, LoadUnlimited, ClaimRep,
     BeginCall, TakeCancelled, EndCall, ClaimExitSlot, LeaveActive, WorkerDone,
     ExitHook
<1> QED
  BY <1>6, <1>7, <1>8, <1>9, Frame

\* A thread that spawns keeps the types: it stops when none is left to spawn.
LEMMA AdjustTyped ==
    ASSUME TypeInv, Accounting, NEW t \in Adjuster, AdjustStep(t)
    PROVE  TypeInv'
<1> USE DEF TypeInv
<1>1. NoAdjust \in Adjusts /\ NoAdjust.at = "none"
  BY DEF NoAdjust, Adjusts
<1>2. /\ adj[t].at \in {"none", "load", "spawn"}
      /\ adj[t].n \in Nat /\ adj[t].left \in Nat
      /\ adj[t].at = "spawn" => adj[t].left > 0
  BY DEF AdjTypes, Adjusts
<1>3. CASE LoadActive(t)
  <2> DEFINE n == WorkersToSpawn(adj[t].n, active)
             r == IF n = 0 THEN NoAdjust
                  ELSE [at |-> "spawn", n |-> 0, left |-> n]
  <2>1. n \in Nat
    BY <1>2, AccountingDef, SetsAreFinite DEF WorkersToSpawn
  <2> HIDE DEF n
  <2>2. r \in Adjusts /\ (r.at = "spawn" => r.left > 0)
    BY <1>1, <2>1 DEF Adjusts
  <2>3. adj' = [adj EXCEPT ![t] = r]
    BY <1>3 DEF LoadActive, n
  <2> HIDE DEF r
  <2>4. AdjTypes'
    BY <2>2, <2>3, AdjUpdate
  <2> QED
    BY <1>3, <2>4, Frame DEF LoadActive, countVars
<1>4. CASE Spawn(t)
  <2> DEFINE n == adj[t].left
             r == IF n = 1 THEN NoAdjust
                  ELSE [at |-> "spawn", n |-> 0, left |-> n - 1]
  <2>1. n \in Nat /\ n > 0
    BY <1>2, <1>4 DEF Spawn
  <2>2. adj' = [adj EXCEPT ![t] = r]
    BY <1>4 DEF Spawn
  <2> HIDE DEF n
  <2>3. r \in Adjusts /\ (r.at = "spawn" => r.left > 0)
    BY <1>1, <2>1 DEF Adjusts
  <2> HIDE DEF r
  <2>4. AdjTypes'
    BY <2>2, <2>3, AdjUpdate
  <2>5. PICK w \in Worker : pc' = [pc EXCEPT ![w] = "start"]
    BY <1>4 DEF Spawn, Idle
  <2>6. pc' \in [Worker -> WorkerPC]
    BY <2>5 DEF WorkerTypes, WorkerPC
  <2>8. WorkerTypes'
    BY <1>4, <2>6 DEF Spawn, WorkerTypes
  <2> QED
    BY <1>4, <2>4, <2>8, Frame DEF Spawn
<1> QED
  BY <1>3, <1>4 DEF AdjustStep

\* Launch puts the runner at the first step of a valid profile.
LEMMA LaunchTyped ==
    ASSUME TypeInv, Launch
    PROVE  TypeInv'
<1> USE DEF TypeInv
<1>1. /\ profile \in Seq(Steps) /\ profile # <<>>
      /\ ~Launched /\ step = 1
      /\ \A i \in 1 .. Len(profile) : ValidStep(profile[i])
      /\ runner' = "begin" /\ UNCHANGED <<profile, step, start, expired>>
  BY DomainAssumption DEF Launch, RunnerTypes, BeforeLaunch, Launched
<1>2. step \in 1 .. Len(profile)
  BY <1>1
<1>3. RunnerTypes'
  BY <1>1, <1>2 DEF RunnerTypes, RunnerPC, InProfile, BeforeLaunch, Launched
<1> QED
  BY <1>3, Frame DEF Launch

\* What users, time and Wait do keeps the types.
LEMMA UsersTyped ==
    ASSUME TypeInv,
           \/ \E t \in Adjuster :
                 \/ \E n \in Targets : UserSetConcurrency(t, n)
                 \/ UserSetWorker(t)
                 \/ \E e \in Errs \cup {Nil} : UserFinish(t, e)
           \/ TimePasses \/ CancelParent \/ WaitGroupIsZero \/ ReadResult
           \/ UNCHANGED vars
    PROVE  TypeInv'
<1> USE DEF TypeInv
<1>1. ASSUME NEW t, NEW n \in Targets, UserSetConcurrency(t, n)
      PROVE  TypeInv'
  <2>1. n \in Nat
    BY <1>1, DomainAssumption DEF UserSetConcurrency
  <2>2. AdjTypes' /\ target' = n
    BY <1>1, <2>1, StoreTargetTyped DEF UserSetConcurrency
  <2>3. StepTypes'
    BY <1>1, <2>1, <2>2
    DEF UserSetConcurrency, StepTypes, repVars, pauseVars
  <2>4. UserTypes'
    BY <1>1 DEF UserSetConcurrency, UserTypes
  <2> QED
    BY <1>1, <2>2, <2>3, <2>4, Frame DEF UserSetConcurrency
<1>2. ASSUME NEW t, NEW e \in Errs \cup {Nil}, UserFinish(t, e)
      PROVE  TypeInv'
  <2>1. EndTypes'
    BY <1>2, FinishTyped DEF UserFinish
  <2> QED
    BY <1>2, <2>1, Frame DEF UserFinish, countVars
<1>3. CASE TimePasses
  <2>1. RunnerTypes'
    BY <1>3 DEF TimePasses, RunnerTypes, InProfile, BeforeLaunch, Launched, Step
  <2> QED
    BY <1>3, <2>1, Frame DEF TimePasses, countVars
<1>4. CASE CancelParent
  <2>1. EndTypes'
    BY <1>4 DEF CancelParent, EndTypes
  <2> QED
    BY <1>4, <2>1, Frame DEF CancelParent, countVars
<1>5. CASE WaitGroupIsZero
  <2>1. WaitTypes'
    BY <1>5 DEF WaitGroupIsZero, WaitTypes
  <2> QED
    BY <1>5, <2>1, Frame DEF WaitGroupIsZero, countVars
<1>6. CASE ReadResult
  <2>1. WaitTypes'
    BY <1>6 DEF ReadResult, WaitTypes, EndTypes
  <2> QED
    BY <1>6, <2>1, Frame DEF ReadResult, countVars
<1>7. CASE UNCHANGED vars
  BY <1>7, Frame
  DEF vars, runnerVars, countVars, repVars, pauseVars, workerVars, endVars,
      waitVars, userVars, callVars
<1>8. ASSUME NEW t, UserSetWorker(t) PROVE TypeInv'
  <2>1. StepTypes'
    BY <1>8 DEF UserSetWorker, StepTypes, countVars, pauseVars
  <2>2. UserTypes'
    BY <1>8 DEF UserSetWorker, UserTypes
  <2> QED
    BY <1>8, <2>1, <2>2, Frame DEF UserSetWorker
<1> QED
  BY <1>1, <1>2, <1>3, <1>4, <1>5, <1>6, <1>7, <1>8

----------------------------------------------------------------------------
(* The inductive invariant and the theorems. *)

PoolInv == TypeInv /\ Accounting

LEMMA PoolInvInductive ==
    ASSUME PoolInv, [Next]_vars
    PROVE  PoolInv'
<1>1. Accounting'
  BY NextAccounting DEF PoolInv
<1>2. TypeInv'
  BY LaunchTyped, RunnerTyped, AdjustTyped, WorkerTyped, UsersTyped
  DEF PoolInv, Next, Ended
<1> QED
  BY <1>1, <1>2 DEF PoolInv

LEMMA PoolInvHolds == Spec => []PoolInv
<1>1. Init => PoolInv
  BY InitTypeInv, InitAccounting DEF PoolInv
<1>2. PoolInv /\ [Next]_vars => PoolInv'
  BY PoolInvInductive
<1> QED
  BY <1>1, <1>2, PTL DEF Spec

\* Every variable always has its type: activeWorkers and the wait group never
\* go below zero, and no SetConcurrency of the pool stores a negative target,
\* for every profile, number of workers, and number of users.
THEOREM TypeCorrect == Spec => []TypeOK
<1>1. PoolInv => TypeOK
  <2> SUFFICES ASSUME PoolInv PROVE TypeOK
    OBVIOUS
  <2>1. active \in Nat /\ wg \in Nat
    BY AccountingDef, SetsAreFinite DEF PoolInv
  <2> QED
    BY <2>1 DEF PoolInv, TypeInv, RunnerTypes, StepTypes, WorkerTypes, AdjTypes,
                Adjusts, EndTypes, WaitTypes, UserTypes, CallTypes, TypeOK
<1> QED
  BY <1>1, PoolInvHolds, PTL

\* activeWorkers counts the workers that have not begun to exit, each once, on
\* every path out of runWorker.
THEOREM ActiveAccountingHolds == Spec => []ActiveAccounting
<1>1. PoolInv => ActiveAccounting
  BY DEF PoolInv, Accounting
<1> QED
  BY <1>1, PoolInvHolds, PTL

\* The wait group counts the runner and the goroutines of the workers.
THEOREM WgAccountingHolds == Spec => []WgAccounting
<1>1. PoolInv => WgAccounting
  BY DEF PoolInv, Accounting
<1> QED
  BY <1>1, PoolInvHolds, PTL

----------------------------------------------------------------------------
(* What Wait returns. *)

\* The first Stop or Abort decides the result, and Wait reads it after.
EndInv ==
    /\ finished => result = first.err
    /\ ~finished => ~first.live
    /\ (waiter = "returned" /\ first.live) => waitResult = first.err

LEMMA FinishKeepsEnd ==
    ASSUME EndInv, NEW e, Finish(e), UNCHANGED waitVars
    PROVE  EndInv'
<1>1. CASE FirstFinish
  <2> DEFINE live == wg > 0 /\ waiter = "waiting"
  <2>1. /\ ~finished /\ finished' = TRUE /\ result' = e
        /\ first' = [err |-> e, live |-> live]
    BY <1>1 DEF Finish, FirstFinish
  <2>2. first'.err = e /\ first'.live = live
    BY <2>1
  <2> QED
    BY <2>1, <2>2 DEF EndInv, waitVars
<1>2. CASE ~FirstFinish
  BY <1>2 DEF Finish, endVars, waitVars, EndInv
<1> QED
  BY <1>1, <1>2

LEMMA EndInvInductive ==
    ASSUME TypeInv, EndInv, [Next]_vars
    PROVE  EndInv'
<1>k. ASSUME UNCHANGED <<finished, result, first, waiter, waitResult>>
      PROVE  EndInv'
  BY <1>k DEF EndInv
<1>1. CASE Launch \/ TimePasses \/ CancelParent \/ Ended \/ UNCHANGED vars
  BY <1>1, <1>k DEF Launch, TimePasses, CancelParent, Ended, vars, endVars,
                    waitVars
<1>2. CASE RunnerStep
  <2>1. CASE StopAtEnd
    BY <2>1, FinishKeepsEnd DEF StopAtEnd
  <2>2. CASE ~StopAtEnd
    BY <1>2, <2>2, <1>k
    DEF RunnerStep, BeginPause, EndPause, BeginStep, StoreReps, SetStepWorker,
        ApplyConcurrency, TickArrives, EndOnCancel, CheckTick, CheckDrained,
        LoadTarget, StoreLoadedTarget, EndStep, RunnerExit, endVars, waitVars
  <2> QED
    BY <2>1, <2>2
<1>3. ASSUME NEW t \in Adjuster, AdjustStep(t) PROVE EndInv'
  BY <1>3, <1>k DEF AdjustStep, LoadActive, Spawn, endVars, waitVars
<1>4. ASSUME NEW w \in Worker, WorkerStep(w) PROVE EndInv'
  BY <1>4, <1>k
  DEF WorkerStep, StartHook, CheckContext, ScaleLoadActive, ScaleCompare,
      RetryExitSlot, CheckPause, LeavePause, LoadUnlimited, ClaimRep,
      BeginCall, TakeCancelled, EndCall, ClaimExitSlot, LeaveActive, WorkerDone,
      ExitHook, endVars, waitVars
<1>5. ASSUME NEW t \in Adjuster,
             \/ \E n \in Targets : UserSetConcurrency(t, n)
             \/ UserSetWorker(t)
      PROVE  EndInv'
  BY <1>5, <1>k DEF UserSetConcurrency, UserSetWorker, endVars, waitVars
<1>6. ASSUME NEW t \in Adjuster, NEW e, UserFinish(t, e) PROVE EndInv'
  BY <1>6, FinishKeepsEnd DEF UserFinish
<1>7. CASE WaitGroupIsZero
  BY <1>7 DEF WaitGroupIsZero, EndInv, endVars
<1>8. CASE ReadResult
  <2>1. /\ UNCHANGED <<finished, result, first>> /\ waitResult' = result
    BY <1>8 DEF ReadResult, endVars
  <2> QED
    BY <2>1 DEF EndInv, TypeInv, EndTypes
<1> QED
  BY <1>1, <1>2, <1>3, <1>4, <1>5, <1>6, <1>7, <1>8 DEF Next

\* Wait returns the error of the first Stop or Abort of a live run, whatever
\* finishes the run again and whenever Wait wakes up.
THEOREM WaitReturnsFirstHolds == Spec => []WaitReturnsFirst
<1>1. Init => EndInv
  BY DEF Init, EndInv
<1>2. PoolInv /\ EndInv /\ [Next]_vars => EndInv'
  BY EndInvInductive DEF PoolInv
<1>3. EndInv => WaitReturnsFirst
  BY DEF EndInv, WaitReturnsFirst
<1> QED
  BY <1>1, <1>2, <1>3, PoolInvHolds, PTL DEF Spec

----------------------------------------------------------------------------
(* Pauses. *)

\* A worker that has made its call in a pause is not about to make another.
PauseInv ==
    \A w \in Worker :
        /\ pauseCalls[w] <= 1
        /\ (resume # 0 /\ pauseCalls[w] = 1) =>
              pc[w] \notin {"claim", "claimRep", "take"}

\* A step of a worker, by which only that worker may begin a call.
LEMMA WorkerKeepsPause ==
    ASSUME TypeInv, PauseInv, NEW w \in Worker, WorkerStep(w)
    PROVE  PauseInv'
<1>0. /\ pc \in [Worker -> WorkerPC] /\ pauseCalls \in [Worker -> Nat]
      /\ MaxCount \in Nat
  BY DomainAssumption DEF TypeInv, WorkerTypes, CallTypes
<1>1. CASE BeginCall(w)
  <2>1. pc[w] = "take" /\ pc' = [pc EXCEPT ![w] = "call"] /\ resume' = resume
    BY <1>1 DEF BeginCall, Goto, pauseVars
  <2>2. CASE resume = 0
    BY <1>0, <1>1, <2>1, <2>2 DEF BeginCall, PauseInv
  <2>3. CASE resume # 0
    <3>1. pauseCalls[w] = 0
      BY <1>0, <2>1, <2>3 DEF PauseInv
    <3>2. pauseCalls' = [pauseCalls EXCEPT ![w] = SaturatingInc(@)]
      BY <1>1, <2>3 DEF BeginCall
    <3>3. SaturatingInc(pauseCalls[w]) <= 1
      BY <1>0, <3>1 DEF SaturatingInc
    <3> QED
      BY <1>0, <2>1, <3>2, <3>3 DEF PauseInv
  <2> QED
    BY <2>2, <2>3
<1>2. CASE CheckPause(w)
  BY <1>0, <1>2 DEF CheckPause, Goto, PauseInv, pauseVars, callVars
<1>3. CASE LoadUnlimited(w) \/ ClaimRep(w)
  BY <1>0, <1>3 DEF LoadUnlimited, ClaimRep, Goto, PauseInv, pauseVars, callVars
<1>4. CASE ~BeginCall(w) /\ ~CheckPause(w) /\ ~LoadUnlimited(w) /\ ~ClaimRep(w)
  <2>1. /\ resume' = resume /\ pauseCalls' = pauseCalls
        /\ \/ pc' = pc
           \/ \E l : l \notin {"claim", "claimRep", "take"} /\ Goto(w, l)
    <3>1. CASE StartHook(w) \/ CheckContext(w) \/ ScaleLoadActive(w)
               \/ ScaleCompare(w) \/ RetryExitSlot(w) \/ LeavePause(w)
      BY <3>1 DEF StartHook, CheckContext, ScaleLoadActive, ScaleCompare,
                  RetryExitSlot, LeavePause, AfterFailedStart, pauseVars,
                  callVars
    <3>2. CASE TakeCancelled(w) \/ EndCall(w) \/ ClaimExitSlot(w)
               \/ LeaveActive(w) \/ WorkerDone(w) \/ ExitHook(w)
      BY <3>2 DEF TakeCancelled, EndCall, ClaimExitSlot, LeaveActive,
                  WorkerDone, ExitHook, AfterCall, AfterScaleDown, pauseVars,
                  callVars
    <3> QED
      BY <1>4, <3>1, <3>2 DEF WorkerStep
  <2> QED
    BY <1>0, <2>1 DEF PauseInv, Goto
<1> QED
  BY <1>1, <1>2, <1>3, <1>4

LEMMA PauseInvInductive ==
    ASSUME TypeInv, PauseInv, [Next]_vars
    PROVE  PauseInv'
<1>k. ASSUME UNCHANGED <<resume, pc, pauseCalls>> PROVE PauseInv'
  BY <1>k DEF PauseInv
<1>1. CASE BeginPause
  BY <1>1 DEF BeginPause, PauseInv
<1>2. CASE EndPause
  BY <1>2 DEF EndPause, ResumeAfterPause, PauseInv, callVars, workerVars
<1>3. CASE RunnerStep /\ ~BeginPause /\ ~EndPause
  BY <1>3, <1>k
  DEF RunnerStep, BeginStep, StoreReps, SetStepWorker, ApplyConcurrency,
      TickArrives, EndOnCancel, CheckTick, CheckDrained, LoadTarget,
      StoreLoadedTarget, EndStep, StopAtEnd, RunnerExit, pauseVars, workerVars,
      callVars
<1>4. ASSUME NEW t \in Adjuster, AdjustStep(t) PROVE PauseInv'
  <2>1. CASE LoadActive(t)
    BY <2>1, <1>k DEF LoadActive, pauseVars, workerVars, callVars
  <2>2. CASE Spawn(t)
    <3>1. PICK w \in Worker : pc' = [pc EXCEPT ![w] = "start"]
      BY <2>2 DEF Spawn, Idle
    <3>2. resume' = resume /\ pauseCalls' = pauseCalls
      BY <2>2 DEF Spawn, pauseVars, callVars
    <3> QED
      BY <3>1, <3>2 DEF PauseInv, TypeInv, WorkerTypes
  <2> QED
    BY <1>4, <2>1, <2>2 DEF AdjustStep
<1>5. ASSUME NEW w \in Worker, WorkerStep(w) PROVE PauseInv'
  BY <1>5, WorkerKeepsPause
<1>6. ASSUME NEW t \in Adjuster,
             \/ \E n \in Targets : UserSetConcurrency(t, n)
             \/ UserSetWorker(t)
             \/ \E e \in Errs \cup {Nil} : UserFinish(t, e)
      PROVE  PauseInv'
  BY <1>6, <1>k DEF UserSetConcurrency, UserSetWorker, UserFinish, pauseVars,
                    workerVars, callVars
<1>7. CASE Launch \/ TimePasses \/ CancelParent \/ WaitGroupIsZero
           \/ ReadResult \/ Ended \/ UNCHANGED vars
  BY <1>7, <1>k DEF Launch, TimePasses, CancelParent, WaitGroupIsZero,
                    ReadResult, Ended, vars, pauseVars, workerVars, callVars
<1> QED
  BY <1>1, <1>2, <1>3, <1>4, <1>5, <1>6, <1>7 DEF Next

\* However many workers have passed the check of a pause when it begins, and
\* however long they wait for their send times, none makes a second call in it.
THEOREM PauseBoundsCallsHolds == Spec => []PauseBoundsCalls
<1>1. Init => PauseInv
  BY DEF Init, PauseInv
<1>2. PoolInv /\ PauseInv /\ [Next]_vars => PauseInv'
  BY PauseInvInductive DEF PoolInv
<1>3. PauseInv => PauseBoundsCalls
  BY DEF PauseInv, PauseBoundsCalls
<1> QED
  BY <1>1, <1>2, <1>3, PoolInvHolds, PTL DEF Spec

----------------------------------------------------------------------------
(***************************************************************************)
(* WorkerPool implements the steps of PoolLife when its API is used from   *)
(* inside the run alone: by step hooks, worker hooks and worker functions. *)
(* That a run which is ending does end is left to TLC.                     *)
(***************************************************************************)

\* A thread may use the API only while the wait group counts it.
AdjustsInRun ==
    /\ adj[Runner].at # "none" => runner \in {"begin", "wait", "end"}
    /\ \A w \in Worker :
          adj[w].at # "none" =>
             \/ pc[w] \in {"start", "call"}
             \/ pc[w] \in {"exit", "wgDone"} /\ hooked[w]

\* The exit hook is deferred when the start hook has succeeded.
HooksDeferred ==
    \A w \in Worker :
        /\ pc[w] \in {"idle", "start"} => ~hooked[w]
        /\ pc[w] \notin {"idle", "start", "exit", "wgDone"} =>
              hooked[w] = WorkerHooks
        /\ hooked[w] => WorkerHooks

\* When the wait group has come to zero the run is over for good.
RunIsOver ==
    /\ finished => cancelled
    /\ cancelled => Launched
    /\ runner \in {"exit", "over"} => cancelled
    /\ ~Launched => wg = 0
    /\ waiter # "waiting" => wg = 0 /\ Launched

LifeInv == AdjustsInRun /\ HooksDeferred /\ RunIsOver

\* While the wait group counts somebody, Wait waits.
LEMMA SomebodyRuns ==
    ASSUME TypeInv, Accounting, LifeInv
    PROVE  /\ RunnerIsLive => Launched /\ wg > 0 /\ waiter = "waiting"
           /\ \A w \in Worker :
                 pc[w] # "idle" => Launched /\ wg > 0 /\ waiter = "waiting"
<1>1. wg = Cardinality(LiveSet) + (IF RunnerIsLive THEN 1 ELSE 0)
  BY AccountingDef
<1>2. Cardinality(LiveSet) \in Nat /\ IsFiniteSet(LiveSet)
  BY SetsAreFinite
<1>3. RunnerIsLive => wg > 0
  BY <1>1, <1>2
<1>4. ASSUME NEW w \in Worker, pc[w] # "idle" PROVE wg > 0
  <2>1. LiveSet # {}
    BY <1>4 DEF LiveSet
  <2>2. Cardinality(LiveSet) # 0
    BY <1>2, <2>1, FS_EmptySet
  <2> QED
    BY <1>1, <1>2, <2>2
<1> QED
  BY <1>3, <1>4 DEF LifeInv, RunIsOver

\* No thread of a run without outside callers is in a SetConcurrency call, or
\* may begin one or finish the run, when the wait group is zero.
LEMMA NobodyOutside ==
    ASSUME Caller = {}, TypeInv, Accounting, LifeInv, NEW t \in Adjuster,
           adj[t].at # "none" \/ MayUseApi(t)
    PROVE  Launched /\ wg > 0 /\ waiter = "waiting"
<1>1. CASE t = Runner
  <2>1. RunnerIsLive
    BY <1>1, ThreadAssumption
    DEF MayUseApi, LifeInv, AdjustsInRun, RunnerIsLive
  <2> QED
    BY <2>1, SomebodyRuns
<1>2. CASE t \in Worker
  <2>1. pc[t] # "idle"
    BY <1>2, ThreadAssumption
    DEF MayUseApi, InWorkerHook, LifeInv, AdjustsInRun
  <2> QED
    BY <1>2, <2>1, SomebodyRuns
<1> QED
  BY <1>1, <1>2 DEF Adjuster

----------------------------------------------------------------------------
(* LifeInv is inductive. *)

\* What LifeInv speaks of besides the workers.
Quiet == UNCHANGED <<adj, cancelled, finished, waiter, runner, wg>>

\* The runner sets a concurrency only where it then waits for it to return.
LEMMA RunnerKeepsLife ==
    ASSUME TypeInv, Accounting, LifeInv, RunnerStep
    PROVE  LifeInv'
<1>0. Launched /\ adj \in [Adjuster -> Adjusts] /\ Runner \in Adjuster
  BY DEF RunnerStep, BeginPause, EndPause, BeginStep, StoreReps,
         SetStepWorker, ApplyConcurrency, TickArrives, EndOnCancel, CheckTick,
         CheckDrained, LoadTarget, StoreLoadedTarget, EndStep, StopAtEnd,
         RunnerExit, Launched, TypeInv, AdjTypes, Adjuster
<1>1. UNCHANGED <<pc, hooked, waiter>>
  BY DEF RunnerStep, BeginPause, EndPause, BeginStep, StoreReps,
         SetStepWorker, ApplyConcurrency, TickArrives, EndOnCancel, CheckTick,
         CheckDrained, LoadTarget, StoreLoadedTarget, EndStep, StopAtEnd,
         RunnerExit, workerVars, waitVars
<1>2. HooksDeferred'
  BY <1>1 DEF LifeInv, HooksDeferred
<1>3. ASSUME NEW w \in Worker PROVE w # Runner /\ w \in Adjuster
  BY ThreadAssumption DEF Adjuster
<1>4. CASE ApplyConcurrency \/ StoreLoadedTarget
  <2>1. /\ runner \in {"apply", "load"} /\ runner' = "wait"
        /\ UNCHANGED <<wg, cancelled, finished>>
    BY <1>4 DEF ApplyConcurrency, StoreLoadedTarget, endVars
  <2>2. \A w \in Worker : adj'[w] = adj[w]
    BY <1>0, <1>3, <1>4 DEF ApplyConcurrency, StoreLoadedTarget, StoreTarget
  <2>3. AdjustsInRun'
    BY <1>1, <2>1, <2>2 DEF LifeInv, AdjustsInRun
  <2>4. RunIsOver'
    BY <1>0, <1>1, <2>1 DEF LifeInv, RunIsOver, Launched
  <2> QED
    BY <1>2, <2>3, <2>4 DEF LifeInv
<1>5. CASE LoadTarget
  <2>1. /\ runner = "target" /\ runner' = "load"
        /\ UNCHANGED <<wg, cancelled, finished>>
    BY <1>5 DEF LoadTarget, countVars, endVars
  <2>2. PICK n : adj' = [adj EXCEPT ![Runner].n = n]
    BY <1>5 DEF LoadTarget
  <2>3. /\ \A w \in Worker : adj'[w] = adj[w]
        /\ adj'[Runner].at = adj[Runner].at
    BY <1>0, <1>3, <2>2 DEF Adjusts
  <2>4. AdjustsInRun'
    BY <1>1, <2>1, <2>3 DEF LifeInv, AdjustsInRun
  <2>5. RunIsOver'
    BY <1>0, <1>1, <2>1 DEF LifeInv, RunIsOver, Launched
  <2> QED
    BY <1>2, <2>4, <2>5 DEF LifeInv
<1>6. CASE StopAtEnd
  <2>1. /\ runner = "stop" /\ runner' = "exit" /\ UNCHANGED <<wg, adj>>
        /\ Finish(Nil)
    BY <1>6 DEF StopAtEnd, countVars
  <2>2. cancelled' /\ finished'
    BY <2>1 DEF Finish, FirstFinish, endVars, LifeInv, RunIsOver
  <2>3. AdjustsInRun'
    BY <1>1, <2>1 DEF LifeInv, AdjustsInRun
  <2>4. RunIsOver'
    BY <1>0, <1>1, <2>1, <2>2 DEF LifeInv, RunIsOver, Launched
  <2> QED
    BY <1>2, <2>3, <2>4 DEF LifeInv
<1>7. CASE RunnerExit
  <2>1. /\ runner = "exit" /\ runner' = "over"
        /\ UNCHANGED <<adj, cancelled, finished>>
    BY <1>7 DEF RunnerExit, endVars
  <2>2. waiter = "waiting"
    BY <2>1, SomebodyRuns DEF RunnerIsLive
  <2>3. AdjustsInRun'
    BY <1>1, <2>1 DEF LifeInv, AdjustsInRun
  <2>4. RunIsOver'
    BY <1>1, <2>1, <2>2 DEF LifeInv, RunIsOver, Launched
  <2> QED
    BY <1>2, <2>3, <2>4 DEF LifeInv
<1>8. CASE EndStep
  <2>1. /\ runner = "end" /\ adj[Runner].at = "none"
        /\ runner' \in {"exit", "begin", "stop"}
        /\ runner' = "exit" => cancelled
        /\ UNCHANGED <<adj, wg, cancelled, finished>>
    BY <1>8 DEF EndStep, RunnerIsFree, countVars, endVars
  <2>2. AdjustsInRun'
    BY <1>1, <2>1 DEF LifeInv, AdjustsInRun
  <2>3. RunIsOver'
    BY <1>0, <1>1, <2>1 DEF LifeInv, RunIsOver, Launched
  <2> QED
    BY <1>2, <2>2, <2>3 DEF LifeInv
<1>9. CASE \/ BeginPause \/ EndPause \/ BeginStep \/ StoreReps
           \/ SetStepWorker \/ TickArrives \/ EndOnCancel \/ CheckTick
           \/ CheckDrained
  <2>1. /\ UNCHANGED <<adj, wg, cancelled, finished>>
        /\ runner' \notin {"unlaunched", "exit", "over"}
    BY <1>9 DEF BeginPause, EndPause, BeginStep, StoreReps, SetStepWorker,
       TickArrives, EndOnCancel, CheckTick, CheckDrained, AfterReps, Replacing,
       countVars, endVars
  <2>2. \/ adj[Runner].at = "none"
        \/ runner \notin {"begin", "wait", "end"}
    BY <1>9 DEF BeginPause, EndPause, BeginStep, StoreReps, SetStepWorker,
       TickArrives, EndOnCancel, CheckTick, CheckDrained, RunnerIsFree
  <2>3. AdjustsInRun'
    BY <1>1, <2>1, <2>2 DEF LifeInv, AdjustsInRun
  <2>4. RunIsOver'
    BY <1>0, <1>1, <2>1 DEF LifeInv, RunIsOver, Launched
  <2> QED
    BY <1>2, <2>3, <2>4 DEF LifeInv
<1> QED
  BY <1>4, <1>5, <1>6, <1>7, <1>8, <1>9 DEF RunnerStep

\* A worker is in its function or a hook until its call has returned.
LEMMA WorkerKeepsLife ==
    ASSUME TypeInv, Accounting, LifeInv, NEW w \in Worker, WorkerStep(w)
    PROVE  LifeInv'
<1>0. /\ pc \in [Worker -> WorkerPC] /\ hooked \in [Worker -> BOOLEAN]
  BY DEF TypeInv, WorkerTypes
<1>1. UNCHANGED <<adj, runner, cancelled, finished, waiter>>
  BY DEF WorkerStep, StartHook, CheckContext, ScaleLoadActive, ScaleCompare,
     RetryExitSlot, CheckPause, LeavePause, LoadUnlimited, ClaimRep, BeginCall,
     TakeCancelled, EndCall, ClaimExitSlot, LeaveActive, WorkerDone, ExitHook,
     runnerVars, endVars, waitVars
<1>2. RunIsOver'
  <2>1. pc[w] # "idle"
    BY DEF WorkerStep, StartHook, CheckContext, ScaleLoadActive, ScaleCompare,
       RetryExitSlot, CheckPause, LeavePause, LoadUnlimited, ClaimRep,
       BeginCall, TakeCancelled, EndCall, ClaimExitSlot, LeaveActive,
       WorkerDone, ExitHook
  <2>2. waiter = "waiting" /\ Launched
    BY <2>1, SomebodyRuns
  <2> QED
    BY <1>1, <2>2 DEF LifeInv, RunIsOver, Launched
<1>3. AdjustsInRun' /\ HooksDeferred'
  <2> USE DEF LifeInv, AdjustsInRun, HooksDeferred
  <2>1. CASE StartHook(w)
    <3>1. pc[w] = "start" /\ adj[w].at = "none"
      BY <2>1 DEF StartHook, IsFree
    <3>2. CASE Goto(w, "loop") /\ hooked' = [hooked EXCEPT ![w] = WorkerHooks]
      BY <1>0, <1>1, <3>1, <3>2, DomainAssumption DEF Goto
    <3>3. CASE Goto(w, "exit") /\ UNCHANGED hooked
      BY <1>0, <1>1, <3>1, <3>3 DEF Goto
    <3> QED
      BY <2>1, <3>2, <3>3 DEF StartHook, AfterFailedStart
  <2>2. CASE CheckContext(w) \/ ScaleLoadActive(w) \/ ScaleCompare(w)
             \/ ClaimExitSlot(w) \/ RetryExitSlot(w) \/ CheckPause(w)
             \/ LeavePause(w) \/ LoadUnlimited(w) \/ ClaimRep(w)
             \/ BeginCall(w) \/ TakeCancelled(w)
    <3>1. /\ pc[w] \notin {"idle", "start", "call", "exit", "wgDone"}
          /\ \E l \in WorkerPC \ {"idle", "start"} : Goto(w, l)
          /\ UNCHANGED hooked
      <4>1. CASE CheckContext(w) \/ ScaleLoadActive(w) \/ ScaleCompare(w)
                 \/ ClaimExitSlot(w) \/ RetryExitSlot(w)
        BY <4>1 DEF CheckContext, ScaleLoadActive, ScaleCompare,
           ClaimExitSlot, RetryExitSlot, AfterScaleDown, WorkerPC
      <4>2. CASE CheckPause(w) \/ LeavePause(w) \/ LoadUnlimited(w)
                 \/ ClaimRep(w) \/ BeginCall(w) \/ TakeCancelled(w)
        BY <4>2 DEF CheckPause, LeavePause, LoadUnlimited, ClaimRep,
           BeginCall, TakeCancelled, WorkerPC
      <4> QED
        BY <2>2, <4>1, <4>2
    <3>2. adj[w].at = "none"
      BY <3>1
    <3> QED
      BY <1>0, <1>1, <3>1, <3>2 DEF Goto
  <2>3. CASE EndCall(w)
    <3>1. /\ pc[w] = "call" /\ adj[w].at = "none" /\ UNCHANGED hooked
          /\ Goto(w, "exit") \/ Goto(w, "loop")
      BY <2>3 DEF EndCall, IsFree, AfterCall
    <3> QED
      BY <1>0, <1>1, <3>1 DEF Goto
  <2>4. CASE ExitHook(w)
    <3>1. /\ pc[w] \in {"exit", "wgDone"} /\ adj[w].at = "none"
          /\ UNCHANGED pc /\ hooked' = [hooked EXCEPT ![w] = FALSE]
      BY <2>4 DEF ExitHook, IsFree
    <3> QED
      BY <1>0, <1>1, <3>1
  <2>5. CASE LeaveActive(w) \/ WorkerDone(w)
    <3>1. /\ pc[w] \in {"exit", "wgDone"} /\ ~hooked[w] /\ UNCHANGED hooked
          /\ Goto(w, "wgDone") \/ Goto(w, "idle")
      BY <2>5 DEF LeaveActive, WorkerDone
    <3>2. adj[w].at = "none"
      BY <3>1
    <3> QED
      BY <1>0, <1>1, <3>1, <3>2 DEF Goto
  <2> QED
    BY <2>1, <2>2, <2>3, <2>4, <2>5 DEF WorkerStep
<1> QED
  BY <1>2, <1>3 DEF LifeInv

LEMMA LifeInvInductive ==
    ASSUME Caller = {}, TypeInv, Accounting, LifeInv, [Next]_vars
    PROVE  LifeInv'
<1>0. /\ adj \in [Adjuster -> Adjusts] /\ pc \in [Worker -> WorkerPC]
      /\ \A w \in Worker : w \in Adjuster /\ w # Runner
      /\ Runner \in Adjuster
  BY ThreadAssumption DEF TypeInv, WorkerTypes, AdjTypes, Adjuster
<1>k. ASSUME Quiet, UNCHANGED <<pc, hooked>> PROVE LifeInv'
  BY <1>k DEF Quiet, LifeInv, AdjustsInRun, HooksDeferred, RunIsOver, Launched
<1>1. CASE Launch
  <2>1. /\ ~Launched /\ runner' = "begin"
        /\ UNCHANGED <<adj, cancelled, finished, waiter, pc, hooked>>
    BY <1>1 DEF Launch, Launched, workerVars, endVars, waitVars
  <2> QED
    BY <2>1 DEF LifeInv, AdjustsInRun, HooksDeferred, RunIsOver, Launched
<1>2. CASE RunnerStep
  BY <1>2, RunnerKeepsLife
<1>3. ASSUME NEW t \in Adjuster, LoadActive(t) PROVE LifeInv'
  <2>1. /\ adj[t].at = "load" /\ \E r : adj' = [adj EXCEPT ![t] = r]
        /\ UNCHANGED <<cancelled, finished, waiter, runner, wg, pc, hooked>>
    BY <1>3 DEF LoadActive, runnerVars, countVars, workerVars, endVars, waitVars
  <2>2. \A s \in Adjuster : adj'[s].at # "none" => adj[s].at # "none"
    BY <1>0, <2>1
  <2> QED
    BY <1>0, <2>1, <2>2
    DEF LifeInv, AdjustsInRun, HooksDeferred, RunIsOver, Launched
<1>4. ASSUME NEW t \in Adjuster, Spawn(t) PROVE LifeInv'
  <2>1. /\ adj[t].at = "spawn" /\ \E r : adj' = [adj EXCEPT ![t] = r]
        /\ UNCHANGED <<cancelled, finished, waiter, runner, hooked>>
    BY <1>4 DEF Spawn, runnerVars, endVars, waitVars
  <2>2. \A s \in Adjuster : adj'[s].at # "none" => adj[s].at # "none"
    BY <1>0, <2>1
  <2>3. PICK w \in Worker : pc[w] = "idle" /\ pc' = [pc EXCEPT ![w] = "start"]
    BY <1>4 DEF Spawn, Idle
  <2>4. waiter = "waiting" /\ Launched
    BY <2>1, NobodyOutside
  <2> QED
    BY <1>0, <2>1, <2>2, <2>3, <2>4
    DEF LifeInv, AdjustsInRun, HooksDeferred, RunIsOver, Launched
<1>5. ASSUME NEW w \in Worker, WorkerStep(w) PROVE LifeInv'
  BY <1>5, WorkerKeepsLife
<1>6. ASSUME NEW t \in Adjuster, NEW n \in Targets, UserSetConcurrency(t, n)
      PROVE  LifeInv'
  <2>1. /\ MayUseApi(t) /\ StoreTarget(t, n)
        /\ UNCHANGED <<cancelled, finished, waiter, runner, wg, pc, hooked>>
    BY <1>6 DEF UserSetConcurrency, runnerVars, workerVars, endVars, waitVars
  <2>2. \A s \in Adjuster : s # t => adj'[s] = adj[s]
    BY <1>0, <2>1 DEF StoreTarget
  <2>3. /\ t = Runner => runner \in {"begin", "end"}
        /\ t \in Worker => \/ pc[t] \in {"start", "call"}
                           \/ pc[t] \in {"exit", "wgDone"} /\ hooked[t]
    BY <1>0, <2>1 DEF MayUseApi, InWorkerHook
  <2> QED
    BY <1>0, <2>1, <2>2, <2>3
    DEF LifeInv, AdjustsInRun, HooksDeferred, RunIsOver, Launched
<1>7. ASSUME NEW t \in Adjuster, NEW e \in Errs \cup {Nil}, UserFinish(t, e)
      PROVE  LifeInv'
  <2>1. /\ Launched /\ Finish(e) /\ UNCHANGED <<adj, waiter, runner, wg, pc, hooked>>
    BY <1>7 DEF UserFinish, runnerVars, countVars, workerVars, waitVars
  <2>2. cancelled' /\ finished'
    BY <2>1 DEF Finish, FirstFinish, endVars, LifeInv, RunIsOver
  <2> QED
    BY <2>1, <2>2
    DEF LifeInv, AdjustsInRun, HooksDeferred, RunIsOver, Launched
<1>8. CASE CancelParent
  <2>1. /\ Launched /\ cancelled'
        /\ UNCHANGED <<adj, finished, waiter, runner, wg, pc, hooked>>
    BY <1>8 DEF CancelParent, runnerVars, countVars, workerVars, waitVars
  <2> QED
    BY <2>1 DEF LifeInv, AdjustsInRun, HooksDeferred, RunIsOver, Launched
<1>9. CASE WaitGroupIsZero
  <2>1. /\ Launched /\ wg = 0
        /\ UNCHANGED <<adj, cancelled, finished, runner, wg, pc, hooked>>
    BY <1>9 DEF WaitGroupIsZero, GroupIsDone, runnerVars, countVars, workerVars,
                endVars
  <2> QED
    BY <2>1 DEF LifeInv, AdjustsInRun, HooksDeferred, RunIsOver, Launched
<1>10. CASE ReadResult
  <2>1. /\ waiter = "woken"
        /\ UNCHANGED <<adj, cancelled, finished, runner, wg, pc, hooked>>
    BY <1>10 DEF ReadResult, runnerVars, countVars, workerVars, endVars
  <2> QED
    BY <2>1 DEF LifeInv, AdjustsInRun, HooksDeferred, RunIsOver, Launched
<1>11. ASSUME NEW t \in Adjuster, UserSetWorker(t) PROVE LifeInv'
  BY <1>11, <1>k DEF UserSetWorker, Quiet, runnerVars, countVars, workerVars,
                     endVars, waitVars
<1>12. CASE TimePasses \/ Ended \/ UNCHANGED vars
  BY <1>12, <1>k DEF TimePasses, Ended, vars, Quiet, countVars, workerVars,
                     endVars, waitVars
<1> QED
  BY <1>1, <1>2, <1>3, <1>4, <1>5, <1>6, <1>7, <1>8, <1>9, <1>10, <1>11, <1>12
  DEF Next, AdjustStep

LEMMA InitLifeInv == Init => LifeInv
<1> SUFFICES ASSUME Init PROVE LifeInv
  OBVIOUS
<1>1. \A t \in Adjuster : adj[t].at = "none"
  BY DEF Init, NoAdjust
<1>2. \A w \in Worker : w \in Adjuster /\ pc[w] = "idle" /\ ~hooked[w]
  BY DEF Init, Adjuster
<1>3. Runner \in Adjuster
  BY DEF Adjuster
<1> QED
  BY <1>1, <1>2, <1>3
  DEF Init, LifeInv, AdjustsInRun, HooksDeferred, RunIsOver, Launched

----------------------------------------------------------------------------
(* Every step is one of PoolLife, or none. *)

OthersKeep(w) ==
    \A v \in Worker \ {w} : pc'[v] = pc[v] /\ hooked'[v] = hooked[v]

\* A step of one worker moves at most that worker in or out of the three sets.
LEMMA OneWorkerMoves ==
    ASSUME NEW w \in Worker, OthersKeep(w)
    PROVE  /\ Alive' = IF IsAlive(w)' THEN Alive \cup {w} ELSE Alive \ {w}
           /\ Ready' = IF IsReady(w)' THEN Ready \cup {w} ELSE Ready \ {w}
           /\ InCall' = IF pc'[w] = "call" THEN InCall \cup {w}
                        ELSE InCall \ {w}
<1>1. ASSUME NEW v \in Worker \ {w}
      PROVE  /\ IsAlive(v)' <=> IsAlive(v)
             /\ IsReady(v)' <=> IsReady(v)
             /\ pc'[v] = "call" <=> pc[v] = "call"
  BY DEF OthersKeep, IsAlive, IsReady
<1> QED
  BY <1>1 DEF Alive, Ready, InCall

\* What PoolLife sees of a pool besides its workers.
FrameKept == UNCHANGED <<runner, cancelled, finished, result, waitVars>>

LEMMA FrameIsKept ==
    ASSUME FrameKept
    PROVE  /\ LifePhase' = LifePhase /\ Answer' = Answer
           /\ finished' = finished /\ result' = result
BY DEF FrameKept, LifePhase, Launched, Answer, waitVars

\* A step that leaves the workers where they are.
LEMMA NobodyMoves ==
    ASSUME UNCHANGED <<pc, hooked>>
    PROVE  Alive' = Alive /\ Ready' = Ready /\ InCall' = InCall
BY DEF Alive, Ready, InCall, IsAlive, IsReady

\* A step of a worker that PoolLife does not see.
LEMMA WorkerStutters ==
    ASSUME NEW w \in Worker, OthersKeep(w), FrameKept,
           IsAlive(w)' <=> IsAlive(w), IsReady(w)' <=> IsReady(w),
           pc'[w] = "call" <=> pc[w] = "call"
    PROVE  UNCHANGED Life!vars
<1>1. Alive' = Alive /\ Ready' = Ready /\ InCall' = InCall
  BY OneWorkerMoves DEF Alive, Ready, InCall
<1> QED
  BY <1>1, FrameIsKept DEF Life!vars

\* A worker that was about to call and does not.
LEMMA WorkerStandsDown ==
    ASSUME NEW w \in Worker, OthersKeep(w), FrameKept,
           IsAlive(w)' <=> IsAlive(w), IsReady(w), ~IsReady(w)',
           pc'[w] # "call", pc[w] # "call"
    PROVE  Life!StandDown(w)
<1>1. /\ w \in Ready /\ Ready' = Ready \ {w}
      /\ Alive' = Alive /\ InCall' = InCall
  BY OneWorkerMoves DEF Alive, Ready, InCall
<1> QED
  BY <1>1, FrameIsKept DEF Life!StandDown

\* A worker's steps move no other, and a run with workers is live.
LEMMA WorkerFrame ==
    ASSUME TypeInv, Accounting, LifeInv, NEW w \in Worker, WorkerStep(w)
    PROVE  /\ OthersKeep(w) /\ FrameKept
           /\ LifePhase = IF cancelled THEN "ending" ELSE "running"
<1>0. /\ pc \in [Worker -> WorkerPC] /\ hooked \in [Worker -> BOOLEAN]
  BY DEF TypeInv, WorkerTypes
<1>1. /\ FrameKept
      /\ pc' = pc \/ \E l : Goto(w, l)
      /\ hooked' = hooked \/ \E b : hooked' = [hooked EXCEPT ![w] = b]
      /\ pc[w] # "idle"
  <2>1. CASE StartHook(w) \/ CheckContext(w) \/ ScaleLoadActive(w)
             \/ ScaleCompare(w) \/ ClaimExitSlot(w) \/ RetryExitSlot(w)
    BY <2>1 DEF StartHook, CheckContext, ScaleLoadActive, ScaleCompare,
       ClaimExitSlot, RetryExitSlot, FrameKept, runnerVars, endVars
  <2>2. CASE CheckPause(w) \/ LeavePause(w) \/ LoadUnlimited(w)
             \/ ClaimRep(w) \/ BeginCall(w) \/ TakeCancelled(w)
    BY <2>2 DEF CheckPause, LeavePause, LoadUnlimited, ClaimRep, BeginCall,
       TakeCancelled, FrameKept, runnerVars, endVars
  <2>3. CASE EndCall(w) \/ ExitHook(w) \/ LeaveActive(w) \/ WorkerDone(w)
    BY <2>3 DEF EndCall, ExitHook, LeaveActive, WorkerDone, FrameKept,
       runnerVars, endVars
  <2> QED
    BY <2>1, <2>2, <2>3 DEF WorkerStep
<1>2. OthersKeep(w)
  BY <1>0, <1>1 DEF OthersKeep, Goto
<1>3. LifePhase = IF cancelled THEN "ending" ELSE "running"
  BY <1>1, SomebodyRuns DEF LifePhase
<1> QED
  BY <1>1, <1>2, <1>3

LEMMA WorkerRefines ==
    ASSUME TypeInv, Accounting, LifeInv, NEW w \in Worker, WorkerStep(w)
    PROVE  [Life!Next]_Life!vars
<1>0. /\ pc \in [Worker -> WorkerPC] /\ hooked \in [Worker -> BOOLEAN]
      /\ OthersKeep(w) /\ FrameKept
      /\ LifePhase = IF cancelled THEN "ending" ELSE "running"
  BY WorkerFrame DEF TypeInv, WorkerTypes
<1>h. /\ pc[w] \in {"idle", "start"} => ~hooked[w]
      /\ pc[w] \notin {"idle", "start", "exit", "wgDone"} =>
            hooked[w] = WorkerHooks
      /\ hooked[w] => WorkerHooks
      /\ WorkerHooks \in BOOLEAN
  BY DomainAssumption DEF LifeInv, HooksDeferred
<1>1. CASE StartHook(w)
  <2>1. /\ pc[w] = "start" /\ pc'[w] \in {"loop", "exit"}
        /\ \/ pc'[w] = "loop" /\ hooked'[w] = WorkerHooks
           \/ hooked'[w] = hooked[w]
    BY <1>0, <1>1 DEF StartHook, Goto, AfterFailedStart
  <2>2. /\ ~IsAlive(w) /\ ~IsReady(w) /\ ~IsReady(w)'
        /\ pc[w] # "call" /\ pc'[w] # "call"
    BY <1>h, <2>1 DEF IsAlive, IsReady
  <2>3. CASE IsAlive(w)'
    <3>1. /\ w \notin Alive /\ Alive' = Alive \cup {w}
          /\ Ready' = Ready /\ InCall' = InCall
      BY <1>0, <2>2, <2>3, OneWorkerMoves DEF Alive, Ready, InCall
    <3>2. Life!Arrive(w)
      BY <1>0, <3>1, FrameIsKept DEF Life!Arrive, Life!Live
    <3> QED
      BY <3>2 DEF Life!Next
  <2>4. CASE ~IsAlive(w)'
    BY <1>0, <2>2, <2>4, WorkerStutters
  <2> QED
    BY <2>3, <2>4
<1>2. CASE CheckContext(w)
  <2>1. /\ pc[w] = "loop" /\ hooked' = hooked
        /\ pc'[w] = IF cancelled THEN "exit" ELSE "scale"
    BY <1>0, <1>2 DEF CheckContext, Goto
  <2>2. /\ IsAlive(w) /\ IsAlive(w)' /\ ~IsReady(w)
        /\ pc[w] # "call" /\ pc'[w] # "call"
        /\ IsReady(w)' <=> ~cancelled
    BY <1>h, <2>1 DEF IsAlive, IsReady
  <2>3. CASE cancelled
    BY <1>0, <2>2, <2>3, WorkerStutters
  <2>4. CASE ~cancelled
    <3>1. /\ w \in Alive \ (Ready \cup InCall) /\ Ready' = Ready \cup {w}
          /\ Alive' = Alive /\ InCall' = InCall
      BY <1>0, <2>2, <2>4, OneWorkerMoves DEF Alive, Ready, InCall
    <3>2. Life!GetReady(w)
      BY <1>0, <2>4, <3>1, FrameIsKept DEF Life!GetReady
    <3> QED
      BY <3>2 DEF Life!Next
  <2> QED
    BY <2>3, <2>4
<1>3. CASE ScaleLoadActive(w) \/ ScaleCompare(w) \/ RetryExitSlot(w)
           \/ ClaimExitSlot(w)
  <2>1. /\ pc[w] \in {"scale", "compare", "cas"} /\ hooked' = hooked
        /\ pc'[w] \in {"compare", "pause", "cas", "scale", "wgDone"}
    BY <1>0, <1>3 DEF ScaleLoadActive, ScaleCompare, RetryExitSlot,
       ClaimExitSlot, AfterScaleDown, Goto
  <2>2. /\ IsAlive(w)' <=> IsAlive(w)
        /\ IsReady(w) /\ pc[w] # "call" /\ pc'[w] # "call"
    BY <2>1 DEF IsAlive, IsReady
  <2>3. CASE IsReady(w)'
    BY <1>0, <2>2, <2>3, WorkerStutters
  <2>4. CASE ~IsReady(w)'
    BY <1>0, <2>2, <2>4, WorkerStandsDown DEF Life!Next
  <2> QED
    BY <2>3, <2>4
<1>4. CASE CheckPause(w) \/ LoadUnlimited(w) \/ ClaimRep(w)
           \/ TakeCancelled(w)
  <2>1. /\ pc[w] \in {"pause", "claim", "claimRep", "take"}
        /\ hooked' = hooked
        /\ pc'[w] \in {"claim", "paused", "take", "claimRep", "exit"}
    BY <1>0, <1>4 DEF CheckPause, LoadUnlimited, ClaimRep, TakeCancelled, Goto
  <2>2. /\ IsAlive(w)' <=> IsAlive(w)
        /\ IsReady(w) /\ pc[w] # "call" /\ pc'[w] # "call"
    BY <2>1 DEF IsAlive, IsReady
  <2>3. CASE IsReady(w)'
    BY <1>0, <2>2, <2>3, WorkerStutters
  <2>4. CASE ~IsReady(w)'
    BY <1>0, <2>2, <2>4, WorkerStandsDown DEF Life!Next
  <2> QED
    BY <2>3, <2>4
<1>5. CASE LeavePause(w) \/ LeaveActive(w)
  <2>1. /\ pc[w] \in {"paused", "exit"} /\ hooked' = hooked
        /\ pc'[w] \in {"loop", "wgDone"}
    BY <1>0, <1>5 DEF LeavePause, LeaveActive, Goto
  <2> QED
    BY <1>0, <2>1, WorkerStutters DEF IsAlive, IsReady
<1>6. CASE BeginCall(w)
  <2>1. pc[w] = "take" /\ hooked' = hooked /\ pc'[w] = "call"
    BY <1>0, <1>6 DEF BeginCall, Goto
  <2>2. /\ IsAlive(w) /\ IsAlive(w)' /\ IsReady(w) /\ ~IsReady(w)'
    BY <1>h, <2>1 DEF IsAlive, IsReady
  <2>3. /\ w \in Ready /\ Ready' = Ready \ {w}
        /\ InCall' = InCall \cup {w} /\ Alive' = Alive
    BY <1>0, <2>1, <2>2, OneWorkerMoves DEF Alive, Ready
  <2>4. Life!Call(w)
    BY <2>3, <1>0, FrameIsKept DEF Life!Call
  <2> QED
    BY <2>4 DEF Life!Next
<1>7. CASE EndCall(w)
  <2>1. pc[w] = "call" /\ hooked' = hooked /\ pc'[w] \in {"exit", "loop"}
    BY <1>0, <1>7 DEF EndCall, Goto, AfterCall
  <2>2. /\ IsAlive(w) /\ IsAlive(w)' /\ ~IsReady(w) /\ ~IsReady(w)'
    BY <1>h, <2>1 DEF IsAlive, IsReady
  <2>3. /\ w \in InCall /\ InCall' = InCall \ {w}
        /\ Ready' = Ready /\ Alive' = Alive
    BY <1>0, <2>1, <2>2, OneWorkerMoves DEF Alive, Ready, InCall
  <2>4. Life!Return(w)
    BY <2>3, <1>0, FrameIsKept DEF Life!Return
  <2> QED
    BY <2>4 DEF Life!Next
<1>8. CASE ExitHook(w) \/ WorkerDone(w)
  <2>1. /\ pc[w] \in {"exit", "wgDone"}
        /\ \/ pc'[w] = pc[w] /\ hooked[w] /\ ~hooked'[w]
           \/ pc'[w] = "idle" /\ ~hooked[w] /\ ~hooked'[w]
    BY <1>0, <1>8 DEF ExitHook, WorkerDone, Goto
  <2>2. /\ ~IsReady(w) /\ ~IsReady(w)' /\ ~IsAlive(w)'
        /\ pc[w] # "call" /\ pc'[w] # "call"
    BY <1>h, <2>1 DEF IsAlive, IsReady
  <2>3. CASE IsAlive(w)
    <3>1. /\ w \in Alive \ (Ready \cup InCall) /\ Alive' = Alive \ {w}
          /\ Ready' = Ready /\ InCall' = InCall
      BY <1>0, <2>2, <2>3, OneWorkerMoves DEF Alive, Ready, InCall
    <3>2. Life!Depart(w)
      BY <1>0, <3>1, FrameIsKept DEF Life!Depart
    <3> QED
      BY <3>2 DEF Life!Next
  <2>4. CASE ~IsAlive(w)
    BY <1>0, <2>2, <2>4, WorkerStutters
  <2> QED
    BY <2>3, <2>4
<1> QED
  BY <1>1, <1>2, <1>3, <1>4, <1>5, <1>6, <1>7, <1>8 DEF WorkerStep

\* Stop or Abort of a live run decides it, unless it is decided already.
LEMMA FinishRefines ==
    ASSUME TypeInv, LifeInv, Launched, Launched', waiter = "waiting",
           NEW e \in Errs \cup {Nil}, Finish(e),
           UNCHANGED <<pc, hooked, waitVars>>
    PROVE  [Life!Next]_Life!vars
<1>1. Alive' = Alive /\ Ready' = Ready /\ InCall' = InCall /\ Answer' = Answer
  BY NobodyMoves DEF Answer, waitVars
<1>2. CASE FirstFinish
  <2>1. /\ ~finished /\ finished' = TRUE /\ result' = e
        /\ LifePhase \in {"running", "ending"} /\ LifePhase' = "ending"
    BY <1>2 DEF Finish, FirstFinish, LifePhase, waitVars
  <2>2. Life!Decide(e)
    BY <1>1, <2>1 DEF Life!Decide, Life!Live, TypeInv, EndTypes
  <2> QED
    BY <2>2 DEF Life!Next
<1>3. CASE ~FirstFinish
  BY <1>1, <1>3 DEF Finish, endVars, LifePhase, waitVars, Life!vars
<1> QED
  BY <1>2, <1>3

LEMMA RunnerRefines ==
    ASSUME TypeInv, Accounting, LifeInv, RunnerStep
    PROVE  [Life!Next]_Life!vars
<1>1. /\ Launched /\ Launched' /\ UNCHANGED <<pc, hooked, waitVars>>
  BY DEF RunnerStep, BeginPause, EndPause, BeginStep, StoreReps,
         SetStepWorker, ApplyConcurrency, TickArrives, EndOnCancel, CheckTick,
         CheckDrained, LoadTarget, StoreLoadedTarget, EndStep, StopAtEnd,
         RunnerExit, Launched, AfterReps, Replacing, workerVars
<1>2. CASE StopAtEnd
  <2>1. runner = "stop" /\ Finish(Nil)
    BY <1>2 DEF StopAtEnd
  <2>2. waiter = "waiting"
    BY <2>1, SomebodyRuns DEF RunnerIsLive
  <2> QED
    BY <1>1, <2>1, <2>2, FinishRefines
<1>3. CASE ~StopAtEnd
  <2>1. UNCHANGED <<cancelled, finished, result>>
    BY <1>3 DEF RunnerStep, BeginPause, EndPause, BeginStep, StoreReps,
       SetStepWorker, ApplyConcurrency, TickArrives, EndOnCancel, CheckTick,
       CheckDrained, LoadTarget, StoreLoadedTarget, EndStep, RunnerExit,
       endVars
  <2>2. LifePhase' = LifePhase /\ Answer' = Answer
    BY <1>1, <2>1 DEF LifePhase, Answer, waitVars
  <2> QED
    BY <1>1, <2>1, <2>2, NobodyMoves DEF Life!vars
<1> QED
  BY <1>2, <1>3

\* When the wait group is zero, no worker is left and the run was ending.
LEMMA OverMeansOver ==
    ASSUME TypeInv, Accounting, LifeInv, Launched, wg = 0
    PROVE  cancelled /\ Alive = {} /\ Ready = {} /\ InCall = {}
<1>1. ~RunnerIsLive /\ \A w \in Worker : pc[w] = "idle"
  BY SomebodyRuns
<1>2. cancelled
  BY <1>1 DEF LifeInv, RunIsOver, RunnerIsLive, Launched
<1>3. \A w \in Worker : ~IsAlive(w) /\ ~IsReady(w) /\ pc[w] # "call"
  BY <1>1 DEF LifeInv, HooksDeferred, IsAlive, IsReady
<1> QED
  BY <1>2, <1>3 DEF Alive, Ready, InCall

LEMMA StepRefines ==
    ASSUME Caller = {}, TypeInv, Accounting, LifeInv, [Next]_vars
    PROVE  [Life!Next]_Life!vars
<1>k. ASSUME FrameKept, UNCHANGED <<pc, hooked>>
      PROVE  [Life!Next]_Life!vars
  BY <1>k, FrameIsKept, NobodyMoves DEF Life!vars
<1>1. CASE Launch
  <2>1. /\ ~Launched /\ Launched'
        /\ UNCHANGED <<pc, hooked, cancelled, finished, result, waitVars>>
    BY <1>1 DEF Launch, Launched, workerVars, endVars
  <2>2. LifePhase = "new" /\ LifePhase' = "running" /\ Answer' = Answer
    BY <2>1 DEF LifeInv, RunIsOver, LifePhase, Answer, waitVars, TypeInv,
                EndTypes
  <2>3. Life!Launch
    BY <2>1, <2>2, NobodyMoves DEF Life!Launch
  <2> QED
    BY <2>3 DEF Life!Next
<1>2. CASE RunnerStep
  BY <1>2, RunnerRefines
<1>3. ASSUME NEW t \in Adjuster, LoadActive(t) PROVE [Life!Next]_Life!vars
  BY <1>3, <1>k DEF LoadActive, FrameKept, runnerVars, workerVars, endVars
<1>4. ASSUME NEW t \in Adjuster, Spawn(t) PROVE [Life!Next]_Life!vars
  <2>1. PICK w \in Worker : pc[w] = "idle" /\ pc' = [pc EXCEPT ![w] = "start"]
    BY <1>4 DEF Spawn, Idle
  <2>2. FrameKept /\ hooked' = hooked
    BY <1>4 DEF Spawn, FrameKept, runnerVars, endVars
  <2>3. pc'[w] = "start" /\ OthersKeep(w)
    BY <2>1, <2>2 DEF TypeInv, WorkerTypes, OthersKeep
  <2>4. /\ ~IsAlive(w) /\ ~IsAlive(w)' /\ ~IsReady(w) /\ ~IsReady(w)'
    BY <2>1, <2>2, <2>3 DEF LifeInv, HooksDeferred, IsAlive, IsReady
  <2> QED
    BY <2>1, <2>2, <2>3, <2>4, WorkerStutters
<1>5. ASSUME NEW w \in Worker, WorkerStep(w) PROVE [Life!Next]_Life!vars
  BY <1>5, WorkerRefines
<1>6. ASSUME NEW t \in Adjuster,
             \/ \E n \in Targets : UserSetConcurrency(t, n)
             \/ UserSetWorker(t)
      PROVE  [Life!Next]_Life!vars
  BY <1>6, <1>k DEF UserSetConcurrency, UserSetWorker, FrameKept, runnerVars,
                    workerVars, endVars
<1>7. ASSUME NEW t \in Adjuster, NEW e \in Errs \cup {Nil}, UserFinish(t, e)
      PROVE  [Life!Next]_Life!vars
  <2>1. /\ MayUseApi(t) /\ Finish(e) /\ UNCHANGED <<runner, pc, hooked, waitVars>>
    BY <1>7 DEF UserFinish, runnerVars, workerVars
  <2>2. Launched /\ Launched' /\ waiter = "waiting"
    BY <2>1, NobodyOutside DEF Launched
  <2> QED
    BY <2>1, <2>2, FinishRefines
<1>8. CASE CancelParent
  <2>1. /\ Launched /\ ~cancelled /\ cancelled'
        /\ UNCHANGED <<runner, pc, hooked, finished, result, waitVars>>
    BY <1>8 DEF CancelParent, runnerVars, workerVars
  <2>2. waiter = "waiting"
    BY <2>1, OverMeansOver DEF LifeInv, RunIsOver
  <2>3. LifePhase = "running" /\ LifePhase' = "ending" /\ Answer' = Answer
    BY <2>1, <2>2 DEF LifePhase, Launched, Answer, waitVars
  <2>4. Life!Cancel
    BY <2>1, <2>3, NobodyMoves DEF Life!Cancel
  <2> QED
    BY <2>4 DEF Life!Next
<1>9. CASE WaitGroupIsZero
  <2>1. /\ waiter = "waiting" /\ waiter' = "woken" /\ Launched /\ wg = 0
        /\ UNCHANGED <<runner, pc, hooked, cancelled, finished, result>>
    BY <1>9 DEF WaitGroupIsZero, GroupIsDone, runnerVars, workerVars, endVars
  <2>2. cancelled /\ Alive = {} /\ Ready = {} /\ InCall = {}
    BY <2>1, OverMeansOver
  <2>3. LifePhase = "ending" /\ LifePhase' = "over" /\ Answer' = Answer
    BY <2>1, <2>2 DEF LifePhase, Launched, Answer
  <2>4. Life!Over
    BY <2>1, <2>2, <2>3, NobodyMoves DEF Life!Over
  <2> QED
    BY <2>4 DEF Life!Next
<1>10. CASE ReadResult
  <2>1. /\ waiter = "woken" /\ waiter' = "returned" /\ waitResult' = result
        /\ UNCHANGED <<runner, pc, hooked, cancelled, finished, result>>
    BY <1>10 DEF ReadResult, runnerVars, workerVars, endVars
  <2>2. LifePhase = "over" /\ LifePhase' = "over"
    BY <2>1 DEF LifePhase, Launched, LifeInv, RunIsOver
  <2>3. Answer = <<>> /\ Answer' = <<result>>
    BY <2>1 DEF Answer
  <2>4. Life!WaitReturns
    BY <2>1, <2>2, <2>3, NobodyMoves DEF Life!WaitReturns, Life!NoAnswer
  <2> QED
    BY <2>4 DEF Life!Next
<1>11. CASE TimePasses \/ Ended \/ UNCHANGED vars
  <2>1. FrameKept /\ UNCHANGED <<pc, hooked>>
    BY <1>11 DEF TimePasses, Ended, vars, FrameKept, workerVars, endVars,
                 waitVars
  <2> QED
    BY <2>1, <1>k
<1> QED
  BY <1>1, <1>2, <1>3, <1>4, <1>5, <1>6, <1>7, <1>8, <1>9, <1>10, <1>11
  DEF Next, AdjustStep

LEMMA InitRefines == Init => Life!Init
<1> SUFFICES ASSUME Init PROVE Life!Init
  OBVIOUS
<1>1. \A w \in Worker : ~IsAlive(w) /\ ~IsReady(w) /\ pc[w] # "call"
  BY DEF Init, IsAlive, IsReady
<1>2. Alive = {} /\ Ready = {} /\ InCall = {}
  BY <1>1 DEF Alive, Ready, InCall
<1> QED
  BY <1>2 DEF Init, Life!Init, Life!NoAnswer, LifePhase, Launched, Answer

\* A pool that is used from inside its run alone takes no step that PoolLife
\* does not allow: the part of LivesAsPromised that is not about liveness.
THEOREM LivesSafely ==
    ASSUME Caller = {}
    PROVE  Spec => Life!Safety
<1> DEFINE Inv == PoolInv /\ LifeInv
<1>1. Init => Inv
  BY InitTypeInv, InitAccounting, InitLifeInv DEF PoolInv
<1>2. Inv /\ [Next]_vars => Inv'
  BY PoolInvInductive, LifeInvInductive DEF PoolInv
<1>3. Inv /\ [Next]_vars => [Life!Next]_Life!vars
  BY StepRefines DEF PoolInv
<1> QED
  BY <1>1, <1>2, <1>3, InitRefines, PTL DEF Spec, Life!Safety

=============================================================================
