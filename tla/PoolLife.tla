------------------------------- MODULE PoolLife -------------------------------
(***************************************************************************)
(* The life of a run as a user of the worker pool may rely on it.  Workers *)
(* come, are about to call the worker function, call it and go.  Once the  *)
(* run is ending, every worker makes at most the one call it was about to  *)
(* make; Wait returns when all of it is over, with the result of the first *)
(* Stop or Abort.  There is no profile, no target, no counter, no pause    *)
(* and no repetition here.                                                 *)
(***************************************************************************)
CONSTANTS
    Worker,   \* who may be a worker
    Errs,     \* errors given to Abort
    Nil       \* no error

VARIABLES
    phase,      \* of the run
    alive,      \* workers whose exit hook has still to run
    ready,      \* workers about to call the worker function
    calling,    \* workers in the worker function
    decided,    \* Stop or Abort was called
    outcome,    \* the error given to it
    answer      \* what Wait returned, or NoAnswer

vars == <<phase, alive, ready, calling, decided, outcome, answer>>

NoAnswer == <<>>

Init ==
    /\ phase = "new"
    /\ alive = {} /\ ready = {} /\ calling = {}
    /\ decided = FALSE /\ outcome = Nil /\ answer = NoAnswer

Launch ==
    /\ phase = "new"
    /\ phase' = "running"
    /\ UNCHANGED <<alive, ready, calling, decided, outcome, answer>>

Live == phase \in {"running", "ending"}

\* A worker is there once its start hook has succeeded.
Arrive(w) ==
    /\ Live
    /\ w \notin alive
    /\ alive' = alive \cup {w}
    /\ UNCHANGED <<phase, ready, calling, decided, outcome, answer>>

\* No worker gets ready for another call when the run is ending.
GetReady(w) ==
    /\ phase = "running"
    /\ w \in alive \ (ready \cup calling)
    /\ ready' = ready \cup {w}
    /\ UNCHANGED <<phase, alive, calling, decided, outcome, answer>>

\* It need not call after all: a pause, a scale-down, no repetition left, or a
\* cancelled wait for its send time.
StandDown(w) ==
    /\ w \in ready
    /\ ready' = ready \ {w}
    /\ UNCHANGED <<phase, alive, calling, decided, outcome, answer>>

Call(w) ==
    /\ w \in ready
    /\ ready' = ready \ {w}
    /\ calling' = calling \cup {w}
    /\ UNCHANGED <<phase, alive, decided, outcome, answer>>

Return(w) ==
    /\ w \in calling
    /\ calling' = calling \ {w}
    /\ UNCHANGED <<phase, alive, ready, decided, outcome, answer>>

\* The exit hook runs once for each worker, which makes no call after it.
Depart(w) ==
    /\ w \in alive \ (ready \cup calling)
    /\ alive' = alive \ {w}
    /\ UNCHANGED <<phase, ready, calling, decided, outcome, answer>>

\* The first Stop or Abort decides.  It also ends a run that goes on.
Decide(e) ==
    /\ Live
    /\ ~decided
    /\ decided' = TRUE /\ outcome' = e
    /\ phase' = "ending"
    /\ UNCHANGED <<alive, ready, calling, answer>>

Cancel ==
    /\ phase = "running"
    /\ phase' = "ending"
    /\ UNCHANGED <<alive, ready, calling, decided, outcome, answer>>

Over ==
    /\ phase = "ending"
    /\ alive = {} /\ ready = {} /\ calling = {}
    /\ phase' = "over"
    /\ UNCHANGED <<alive, ready, calling, decided, outcome, answer>>

WaitReturns ==
    /\ phase = "over"
    /\ answer = NoAnswer
    /\ answer' = <<outcome>>
    /\ UNCHANGED <<phase, alive, ready, calling, decided, outcome>>

Next ==
    \/ Launch
    \/ \E w \in Worker : \/ Arrive(w) \/ GetReady(w) \/ StandDown(w)
                         \/ Call(w) \/ Return(w) \/ Depart(w)
    \/ \E e \in Errs \cup {Nil} : Decide(e)
    \/ Cancel
    \/ Over
    \/ WaitReturns

\* A run that is ending does end, and Wait returns.
Ends == phase = "ending" ~> answer # NoAnswer

Safety == Init /\ [][Next]_vars
Spec == Safety /\ Ends

=============================================================================
