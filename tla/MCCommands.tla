------------------------------ MODULE MCCommands ------------------------------
(***************************************************************************)
(* Small instances of Commands for TLC.  A unit of time is 50 ms: ticks    *)
(* and the look-ahead are two units, the cap of a retry is one, and a      *)
(* second is twenty.                                                       *)
(***************************************************************************)
EXTENDS Commands, TLC

CONSTANTS w1, w2, w3

WorkerSymmetry == Permutations(Worker)

SomeFlags == [concurrency : {2, 3}, repetitions : {0, 2}, duration : {0, 3, 8},
              rps : {0, 4, 20}, rampUp : {0, 3}]

Ease(n, easing) == [Plain EXCEPT !.rps = n, !.rpsEasing = easing,
                                 !.duration = 4]
PauseStep == [Plain EXCEPT !.pause = TRUE, !.duration = 1]

\* Up and down, from and to zero, through a pause, ended early by repetitions,
\* with a burst after a stall, and refused by Launch.
SomeProfiles ==
    {<<Ease(9, e), Ease(2, f)>> : e \in Easings \ {"none"},
                                  f \in Easings \ {"none"}}
    \cup {<<Ease(5, "inOut"), PauseStep, Ease(0, "out"), Ease(3, "in")>>,
          <<Plain>>,
          <<[Plain EXCEPT !.duration = 1], Ease(6, "out")>>,
          <<[Ease(9, "in") EXCEPT !.repetitions = 2], Ease(9, "linear")>>,
          <<[Ease(3, "linear") EXCEPT !.concurrency = 3,
                                      !.concurrencyEasing = "inOut"],
            [Ease(1, "in") EXCEPT !.concurrencyEasing = "out"]>>,
          <<[Plain EXCEPT !.rps = 10, !.burst = 3, !.duration = 8],
            [Plain EXCEPT !.rps = 4, !.duration = 3]>>,
          <<[Ease(20, "in") EXCEPT !.duration = 10, !.concurrency = 2],
            PauseStep, [Ease(1, "out") EXCEPT !.duration = 6]>>,
          <<[Ease(3, "in") EXCEPT !.duration = 0]>>,
          <<[Plain EXCEPT !.concurrency = 0]>>}

\* A pause between two steps at the same rate.
PausedProfile ==
    LET steady == [Plain EXCEPT !.rps = 10, !.duration = 2]
    IN  {<<steady, [PauseStep EXCEPT !.duration = 6], steady>>}

NoFlags == [concurrency : {1}, repetitions : {1}, duration : {0}, rps : {0},
            rampUp : {0}]

=============================================================================
