----------------------------- MODULE MCWorkerPool -----------------------------
(***************************************************************************)
(* Small instances of WorkerPool for TLC: the traffic profiles of the runs.*)
(***************************************************************************)
EXTENDS WorkerPool, TLC

CONSTANTS w1, w2, w3, c1, e1

WorkerSymmetry == Permutations(Worker)

Limited(n, k) == [concurrency |-> n, eased |-> FALSE, reps |-> k,
                  timed |-> FALSE, pause |-> FALSE, own |-> FALSE]
Timed(n) == [concurrency |-> n, eased |-> FALSE, reps |-> 0, timed |-> TRUE,
             pause |-> FALSE, own |-> FALSE]
Eased(n) == [Timed(n) EXCEPT !.eased = TRUE]
TimedReps(n, k) == [Timed(n) EXCEPT !.reps = k]
Endless(n) == [Timed(n) EXCEPT !.timed = FALSE]
Pause == [Timed(1) EXCEPT !.pause = TRUE]
Own(st) == [st EXCEPT !.own = TRUE]

\* Limited by repetitions: more workers than repetitions, fewer, a pause in
\* between, and functions of their own; scaling down; consecutive pauses; from
\* unlimited to limited.
StepProfiles == {<<Own(Limited(3, 2)), Limited(1, 2)>>,
                 <<Limited(2, 2), Pause, Own(Limited(1, 1))>>,
                 <<Timed(3), Timed(2), Limited(1, 1)>>,
                 <<Timed(2), Pause, Pause, Timed(1)>>}
\* Every kind of step, and a profile that Launch refuses.
MixedProfiles == {<<Eased(2), Own(TimedReps(1, 1))>>,
                  <<Timed(1), Pause, Endless(1)>>, <<Limited(0, 1)>>}
\* Two pauses in a row, between a step with a duration and one with
\* repetitions; easing; both limits; a step that only Stop or a cancelled
\* context ends.
EndingProfiles == {<<Timed(2), Pause, Pause, Limited(2, 1)>>,
                   <<Eased(2), TimedReps(1, 1)>>, <<Endless(1)>>}
EndlessProfiles == {<<Timed(2), Endless(1)>>, <<Timed(1), Endless(2)>>}
OneEndlessProfile == {<<Endless(1)>>}

\* Too few workers, none, and a value that SetConcurrency ignores.
UserTargets == {-1, 0, 1}

=============================================================================
