------------------------------- MODULE Commands -------------------------------
(***************************************************************************)
(* The get and upload commands of src/cmd/echoclient: the traffic profile  *)
(* they build from their flags, run as PacedTraffic.  Programs that use    *)
(* the package run profiles of their own.                                  *)
(***************************************************************************)
EXTENDS PacedTraffic

CONSTANTS
    Flags,       \* flags the commands are called with
    Profiles     \* profiles of programs that use the package

ASSUME FlagsAssumption ==
    /\ Flags \subseteq [concurrency : Nat \ {0}, repetitions : Nat,
                        duration : Nat, rps : Nat, rampUp : Nat]
    /\ Profiles \subseteq Seq(Steps)

VARIABLES
    command,     \* what runs the profile
    flags        \* its flags

vars == <<trafficVars, command, flags>>

Plain == [rps |-> 0, burst |-> 0, rpsEasing |-> "none", concurrency |-> 1,
          concurrencyEasing |-> "none", duration |-> 0, repetitions |-> 0,
          pause |-> FALSE]

\* A ramp-up without a target rate is ignored.
RampUp(f) == IF f.rps = 0 THEN 0 ELSE f.rampUp

\* Mutant of SteadyDuration: forgets the time the ramp-up takes.
WholeDuration(f) == f.duration

\* Zero, no limit, when nothing is left of the duration.
SteadyDuration(f) ==
    IF f.duration > RampUp(f) THEN f.duration - RampUp(f) ELSE 0

GetProfile(f) ==
    LET common == [Plain EXCEPT !.rps = f.rps, !.concurrency = f.concurrency,
                                !.burst = f.rps \div f.concurrency]
        ramp == [common EXCEPT !.duration = RampUp(f), !.rpsEasing = "linear"]
        steady == [common EXCEPT !.duration = SteadyDuration(f),
                                 !.repetitions = f.repetitions]
    IN  IF RampUp(f) > 0 THEN <<ramp, steady>> ELSE <<steady>>

UploadProfile(f) ==
    <<[Plain EXCEPT !.concurrency = f.concurrency, !.duration = f.duration,
                    !.repetitions = f.repetitions]>>

Init ==
    \/ \E f \in Flags :
          \/ /\ command = "get" /\ flags = f
             /\ InitTraffic(GetProfile(f))
          \/ /\ command = "upload" /\ flags = f
             /\ InitTraffic(UploadProfile(f))
    \/ /\ command = "library" /\ flags = CHOOSE f \in Flags : TRUE
       /\ \E p \in Profiles : InitTraffic(p)

Next == TrafficNext /\ UNCHANGED <<command, flags>>

Spec == Init /\ [][Next]_vars

----------------------------------------------------------------------------
(* Properties. *)

\* A ramp-up and the steady traffic after it end together at -duration, each
\* at its first tick after the time it was given, and not before unless the
\* repetitions are used (get.go:81-92).
GetTakesDuration ==
    (command = "get" /\ flags.duration > RampUp(flags)) =>
        /\ clock - 1 <= flags.duration + Len(profile) * TickPeriod
        /\ (phase = "over" /\ flags.repetitions = 0) =>
              clock - 1 >= flags.duration

\* A command limited by repetitions alone makes exactly that many calls.
MakesRepetitions ==
    (/\ phase = "over" /\ command \in {"get", "upload"}
     /\ flags.repetitions > 0 /\ flags.duration = 0
     /\ Len(profile) = 1) =>
        calls = flags.repetitions

\* "Duration of the load test" (get.go:22): a get command with a duration ends
\* within a tick period of it for each step.
EndsAfterDuration ==
    (command = "get" /\ flags.duration > 0) =>
        clock - 1 <= flags.duration + Len(profile) * TickPeriod

=============================================================================
