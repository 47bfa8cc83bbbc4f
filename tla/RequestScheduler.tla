--------------------------- MODULE RequestScheduler ---------------------------
(***************************************************************************)
(* The request scheduler of src/worker/rate_limiter.go.  Workers share one *)
(* atomic value, the send time of the last reserved request, and reserve   *)
(* the next one with a compare-and-swap.  Each atomic access of Take is an *)
(* action, so that workers, SetRateLimit, Reset, the clock and the         *)
(* cancellation of the context interleave between any two of them.         *)
(*                                                                         *)
(* Time is an integer.  One worker holds one Take call at a time; its      *)
(* local variables are the record take[w].  The arithmetic is in Pacing.   *)
(***************************************************************************)
EXTENDS Pacing, Sequences, FiniteSets

CONSTANTS
    Worker,         \* goroutines that call Take
    Setter,         \* goroutines that call SetRateLimit
    Rates,          \* positive values passed to SetRateLimit as rps
    Bursts,         \* values passed to SetRateLimit as burst
    MinInterval,    \* lower bound on the interval of every rate
    StartTime,      \* clock value at the first Reset
    MaxTime,        \* bound: the clock stops here
    MaxResets       \* bound: number of Resets after the first one

\* A rate above one request per clock unit has interval zero, by which
\* Take divides (rate_limiter.go:133): rates stay at or below Second.
ASSUME RateAssumption ==
    /\ Second \in Nat \ {0}
    /\ MinInterval \in Nat \ {0}
    /\ Rates \subseteq 1 .. Second
    /\ Bursts \subseteq Nat
    /\ \A r \in Rates : Second \div r >= MinInterval

ASSUME WorkerAssumption == IsFiniteSet(Worker)

ASSUME TimeAssumption ==
    /\ JitLookahead \in Nat
    /\ JitSleepCap \in Nat \ {0}
    /\ StartTime \in Nat \ {0}
    /\ MaxTime \in Nat
    /\ StartTime <= MaxTime
    /\ MaxResets \in Nat

VARIABLES
    now,         \* the clock
    last,        \* RequestScheduler.last: -t after Reset(t)
    maxCatchup,  \* RequestScheduler.maxCatchupNano
    rps,         \* WorkerPool.rpsAtom, 0 when unlimited
    done,        \* the context is cancelled
    pc,          \* where each worker is in Take
    take,        \* the locals of Take, per worker
    pending,     \* per setter: the catch-up it has still to store, or NoStore
    \* History variables.
    base,        \* the time given to the last Reset
    sends,       \* send times reserved since the last Reset, in order
    owed,        \* schedule time accounted for by sends and skipped requests
    fired,       \* paced Takes that returned at this clock instant
    resets       \* Resets done after the first one

sharedVars == <<last, maxCatchup, rps>>
historyVars == <<base, sends, owed, fired, resets>>
vars == <<now, last, maxCatchup, rps, done, pc, take, pending,
          base, sends, owed, fired, resets>>

NoStore == -1

\* Take's locals.  next is also the scheduled time in the returned context;
\* it is 0 when the context carries none.
Locals == [rate : Nat, clock : Nat, seen : Int, next : Nat, skipped : Nat,
           wake : Nat]
NoLocals == [rate |-> 0, clock |-> 0, seen |-> 0, next |-> 0, skipped |-> 0,
             wake |-> 0]

PC == {"idle", "check", "rate", "clock", "last", "jit", "lag", "cas", "sleep",
       "returned", "cancelled"}

----------------------------------------------------------------------------
Init ==
    /\ now = StartTime
    /\ last = -StartTime
    /\ \/ rps = 0 /\ maxCatchup = 0
       \/ \E r \in Rates, b \in Bursts : rps = r /\ maxCatchup = Catchup(r, b)
    /\ done = FALSE
    /\ pc = [w \in Worker |-> "idle"]
    /\ take = [w \in Worker |-> NoLocals]
    /\ pending = [s \in Setter |-> NoStore]
    /\ base = StartTime
    /\ sends = <<>>
    /\ owed = 0
    /\ fired = 0
    /\ resets = 0

Goto(w, l) == pc' = [pc EXCEPT ![w] = l]

(* Take, one action per access to shared state. *)

Call(w) ==
    /\ pc[w] = "idle"
    /\ Goto(w, "check")
    /\ UNCHANGED <<now, sharedVars, done, take, pending, historyVars>>

\* The default branch of the select at the top of the loop.
CheckContext(w) ==
    /\ pc[w] = "check"
    /\ ~done
    /\ Goto(w, "rate")
    /\ UNCHANGED <<now, sharedVars, done, take, pending, historyVars>>

LoadRate(w) ==
    /\ pc[w] = "rate"
    /\ rps > 0
    /\ take' = [take EXCEPT ![w].rate = rps]
    /\ Goto(w, "clock")
    /\ UNCHANGED <<now, sharedVars, done, pending, historyVars>>

\* An unlimited rate: no send time, no pacing.
ReturnUnpaced(w) ==
    /\ pc[w] = "rate"
    /\ rps = 0
    /\ take' = [take EXCEPT ![w] = NoLocals]
    /\ Goto(w, "returned")
    /\ UNCHANGED <<now, sharedVars, done, pending, historyVars>>

ReadClock(w) ==
    /\ pc[w] = "clock"
    /\ take' = [take EXCEPT ![w].clock = now]
    /\ Goto(w, "last")
    /\ UNCHANGED <<now, sharedVars, done, pending, historyVars>>

\* Load last, compute the next send time, and wait when it is too far ahead.
\* The timer starts now, which may be later than the clock value read.
LoadLast(w) ==
    /\ pc[w] = "last"
    /\ LET t == take[w]
           next == NextSend(last, Interval(t.rate))
       IN  \/ /\ TooFarAhead(next, t.clock)
              /\ take' = [take EXCEPT
                    ![w].wake = now + RetryDelay(next, t.clock)]
              /\ Goto(w, "jit")
           \/ /\ ~TooFarAhead(next, t.clock)
              /\ take' = [take EXCEPT
                    ![w] = [@ EXCEPT !.seen = last, !.next = next]]
              /\ Goto(w, "lag")
    /\ UNCHANGED <<now, sharedVars, done, pending, historyVars>>

\* resetOrNewTimer has drained the timer: only the sleep just begun can end.
TimerFired(w) == now >= take[w].wake

JitTimer(w) ==
    /\ pc[w] = "jit"
    /\ TimerFired(w)
    /\ take' = [take EXCEPT ![w] = NoLocals]
    /\ Goto(w, "check")
    /\ UNCHANGED <<now, sharedVars, done, pending, historyVars>>

\* Load maxCatchup and skip the send times further behind than that.
LoadCatchup(w) ==
    /\ pc[w] = "lag"
    /\ LET t == take[w]
       IN  IF TooFarBehind(t.next, t.clock, maxCatchup)
           THEN take' = [take EXCEPT
                   ![w] = [@ EXCEPT
                       !.skipped = SkippedRequests(t.next, t.clock, maxCatchup,
                                                   Interval(t.rate)),
                       !.next = t.clock - maxCatchup]]
           ELSE UNCHANGED take
    /\ Goto(w, "cas")
    /\ UNCHANGED <<now, sharedVars, done, pending, historyVars>>

\* Mutant of CasSucceeds: a plain store instead of a compare-and-swap.
StoreSucceeds(w) == TRUE

CasSucceeds(w) == last = take[w].seen

\* Mutant of SendIsAhead: a send time within the look-ahead is not waited for.
SendIsFarAhead(w) == TooFarAhead(take[w].next, take[w].clock)

SendIsAhead(w) == take[w].next > take[w].clock

\* The compare-and-swap succeeds.  A send time that is not later than the
\* clock value read fires at once, any other starts a timer.
Reserve(w) ==
    /\ pc[w] = "cas"
    /\ CasSucceeds(w)
    /\ LET t == take[w]
           interval == Interval(t.rate)
       IN  /\ last' = t.next
           /\ sends' = Append(sends, t.next)
           /\ owed' = owed + interval * t.skipped
                           + (IF t.seen < 0 THEN 0 ELSE interval)
           /\ IF SendIsAhead(w)
              THEN /\ take' = [take EXCEPT ![w].wake = now + t.next - t.clock]
                   /\ Goto(w, "sleep")
                   /\ UNCHANGED fired
              ELSE /\ Goto(w, "returned")
                   /\ fired' = fired + 1
                   /\ UNCHANGED take
    /\ UNCHANGED <<now, maxCatchup, rps, done, pending, base, resets>>

RetryReserve(w) ==
    /\ pc[w] = "cas"
    /\ ~CasSucceeds(w)
    /\ take' = [take EXCEPT ![w] = NoLocals]
    /\ Goto(w, "check")
    /\ UNCHANGED <<now, sharedVars, done, pending, historyVars>>

SendTimer(w) ==
    /\ pc[w] = "sleep"
    /\ TimerFired(w)
    /\ Goto(w, "returned")
    /\ fired' = fired + 1
    /\ UNCHANGED <<now, sharedVars, done, take, pending, base, sends, owed,
                   resets>>

\* Mutant of WatchesContext: the wait for a retry does not watch the context.
WatchesContextUnlessJit(w) == pc[w] \in {"check", "sleep"}

\* The three selects that notice a cancelled context.
WatchesContext(w) == pc[w] \in {"check", "jit", "sleep"}

ReturnCancelled(w) ==
    /\ WatchesContext(w)
    /\ done
    /\ take' = [take EXCEPT ![w] = NoLocals]
    /\ Goto(w, "cancelled")
    /\ UNCHANGED <<now, sharedVars, done, pending, historyVars>>

\* The caller goes on after Take returned a context.
Leave(w) ==
    /\ pc[w] = "returned"
    /\ take' = [take EXCEPT ![w] = NoLocals]
    /\ Goto(w, "idle")
    /\ UNCHANGED <<now, sharedVars, done, pending, historyVars>>

(* The other callers. *)

\* WorkerPool.SetRateLimit stores the rate first and the catch-up after it.
StoreRate(s, r, b) ==
    /\ pending[s] = NoStore
    /\ rps' = r
    /\ pending' = [pending EXCEPT ![s] = IF r > 0 THEN Catchup(r, b)
                                                  ELSE NoStore]
    /\ UNCHANGED <<now, last, maxCatchup, done, pc, take, historyVars>>

StoreCatchup(s) ==
    /\ pending[s] # NoStore
    /\ maxCatchup' = pending[s]
    /\ pending' = [pending EXCEPT ![s] = NoStore]
    /\ UNCHANGED <<now, last, rps, done, pc, take, historyVars>>

\* Reset(t).  The callers pass time.Now(), read before the store.
Reset(t) ==
    /\ resets < MaxResets
    /\ last' = AfterReset(t)
    /\ base' = t
    /\ sends' = <<>>
    /\ owed' = 0
    /\ resets' = resets + 1
    /\ UNCHANGED <<now, maxCatchup, rps, done, pc, take, pending, fired>>

Cancel ==
    /\ ~done
    /\ done' = TRUE
    /\ UNCHANGED <<now, sharedVars, pc, take, pending, historyVars>>

Tick ==
    /\ now < MaxTime
    /\ now' = now + 1
    /\ fired' = 0
    /\ UNCHANGED <<sharedVars, done, pc, take, pending, base, sends, owed,
                   resets>>

\* Every worker has left its loop: the run is over.
Ended ==
    /\ \A w \in Worker : pc[w] = "cancelled"
    /\ UNCHANGED vars

TakeStep(w) ==
    \/ CheckContext(w)
    \/ LoadRate(w)
    \/ ReturnUnpaced(w)
    \/ ReadClock(w)
    \/ LoadLast(w)
    \/ JitTimer(w)
    \/ LoadCatchup(w)
    \/ Reserve(w)
    \/ RetryReserve(w)
    \/ SendTimer(w)
    \/ ReturnCancelled(w)

Next ==
    \/ \E w \in Worker : Call(w) \/ TakeStep(w) \/ Leave(w)
    \/ \E s \in Setter : \/ \E r \in Rates \cup {0}, b \in Bursts :
                                StoreRate(s, r, b)
                         \/ StoreCatchup(s)
    \/ \E t \in StartTime .. now : Reset(t)
    \/ Cancel
    \/ Tick
    \/ Ended

Spec == Init /\ [][Next]_vars

\* Goroutines inside Take are scheduled; nobody has to call it.
FairSpec == Spec /\ \A w \in Worker : WF_vars(TakeStep(w))

----------------------------------------------------------------------------
(* Properties. *)

\* Every variable has its type: in particular a computed send time is never
\* negative, although last is negative after a Reset (rate_limiter.go:114).
TypeOK ==
    /\ now \in Nat
    /\ last \in Int
    /\ maxCatchup \in Nat
    /\ rps \in Rates \cup {0}
    /\ done \in BOOLEAN
    /\ pc \in [Worker -> PC]
    /\ take \in [Worker -> Locals]
    /\ pending \in [Setter -> Nat \cup {NoStore}]
    /\ base \in Nat
    /\ sends \in Seq(Nat)
    /\ owed \in Nat
    /\ fired \in Nat
    /\ resets \in Nat

\* The rate is never exceeded: between two Resets, any n consecutive send
\* times span at least n - 1 intervals of the highest rate, whatever workers
\* race for the reservation and whichever stale clock, rate or catch-up they
\* computed it from (rate_limiter.go:105-140).
Spacing ==
    \A i, j \in 1 .. Len(sends) :
        i < j => sends[j] - sends[i] >= (j - i) * MinInterval

\* No request is sent before its scheduled time: a Take that was preempted
\* anywhere, or that lost the reservation and tried again, does not return
\* while its send time is still ahead (rate_limiter.go:145-155).
NeverEarly ==
    \A w \in Worker : pc[w] = "returned" => take[w].next <= now

\* Just-in-time waiting: no send time further than jitLookahead ahead of now
\* is ever reserved, so that a new rate takes effect within that time
\* (rate_limiter.go:12-15, 118-128).
LookaheadBound == last <= now + JitLookahead

MaxInterval ==
    CHOOSE i \in {Interval(r) : r \in Rates} : \A r \in Rates : i >= Interval(r)

\* The skipped-requests counter never counts a request twice: sends and
\* skipped requests together cover no more than the time from the Reset to the
\* last send (rate_limiter.go:130-143).
NotOvercounted == sends # <<>> => base + owed <= last

\* The skipped-requests counter is honest: it does not overcount, and what it
\* leaves out is less than an interval per send, lost to rounding
\* (rate_limiter.go:130-143).
SkippedAccounted ==
    /\ NotOvercounted
    /\ sends # <<>> =>
          last - base - owed <= Len(sends) * (MaxInterval - 1)

\* A stall ends in a bounded burst.  At one rate, the requests fired at one
\* instant are those of the catch-up window, the one due now, and at most
\* one per worker that reserved with a clock value read before
\* (rate_limiter.go:46-51, 130-135).
BurstBound ==
    rps > 0 => fired <= maxCatchup \div Interval(rps) + 1 + Cardinality(Worker)

InTake(w) == pc[w] \notin {"idle", "returned", "cancelled"}

\* After cancellation every Take returns, also one that sleeps until a send
\* time or for a retry, however often it loses the compare-and-swap, and
\* without the clock having to advance (rate_limiter.go:99-103, 124, 150).
CancelledTakesReturn == \A w \in Worker : done ~> ~InTake(w)

----------------------------------------------------------------------------
(* The scheduler implements PacedSends. *)

\* The send time a worker holds: reserved, and its request not yet sent.
Held(w) == IF pc[w] \in {"sleep", "returned"} THEN take[w].next ELSE 0

Paced == INSTANCE PacedSends WITH
            earliest <- NextSend(last, MinInterval),
            granted <- [w \in Worker |-> Held(w)]

\* Whatever the workers read and however they race, the scheduler does what
\* the abstract scheduler does: reservations are apart by the interval of the
\* highest rate and within jitLookahead of now, a reserved send time is used
\* only once it has come, and only a cancelled context loses one
\* (rate_limiter.go:33-37, 97-157).
SendsArePaced == Paced!Spec

=============================================================================
