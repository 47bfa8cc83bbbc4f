------------------------------ MODULE PacedSends ------------------------------
(***************************************************************************)
(* What the request scheduler promises, without saying how: send times are *)
(* granted one at a time, apart from each other and not far ahead of now;  *)
(* a worker that was granted one uses it when it has come, never before,   *)
(* and gives it up only when the run is cancelled.  There is no shared     *)
(* value, no compare-and-swap, no rate and no timer here.                  *)
(***************************************************************************)
EXTENDS Integers

CONSTANTS
    Worker,         \* who asks for send times
    JitLookahead,   \* how far ahead of now a send time may be granted
    MinInterval     \* how far apart two send times are at least

VARIABLES
    now,        \* the clock
    earliest,   \* no send time before this one can be granted any more
    granted,    \* the send time each worker holds, or NoGrant
    done        \* the run is cancelled

vars == <<now, earliest, granted, done>>

NoGrant == 0

Init ==
    /\ now \in Nat
    /\ earliest = now
    /\ granted = [w \in Worker |-> NoGrant]
    /\ done = FALSE

\* A worker gets a send time that no other worker gets, until the schedule
\* starts again.
Grant(w) ==
    /\ granted[w] = NoGrant
    /\ \E t \in earliest .. now + JitLookahead :
            /\ granted' = [granted EXCEPT ![w] = t]
            /\ earliest' = t + MinInterval
    /\ UNCHANGED <<now, done>>

\* It sends its request: the send time has come.
Send(w) ==
    /\ granted[w] # NoGrant
    /\ granted[w] <= now
    /\ granted' = [granted EXCEPT ![w] = NoGrant]
    /\ UNCHANGED <<now, earliest, done>>

\* Only a cancelled run loses a send time.
GiveUp(w) ==
    /\ granted[w] # NoGrant
    /\ done
    /\ granted' = [granted EXCEPT ![w] = NoGrant]
    /\ UNCHANGED <<now, earliest, done>>

\* The schedule starts again, at a time that has come.
Restart ==
    /\ earliest' \in 0 .. now
    /\ UNCHANGED <<now, granted, done>>

Cancel ==
    /\ done' = TRUE
    /\ UNCHANGED <<now, earliest, granted>>

Tick ==
    /\ now' = now + 1
    /\ UNCHANGED <<earliest, granted, done>>

Next ==
    \/ \E w \in Worker : Grant(w) \/ Send(w) \/ GiveUp(w)
    \/ Restart
    \/ Cancel
    \/ Tick

Spec == Init /\ [][Next]_vars

=============================================================================
