------------------------ MODULE RequestSchedulerProofs ------------------------
(***************************************************************************)
(* Proofs about RequestScheduler, for every set of workers and setters,    *)
(* every set of rates whose interval is at least MinInterval, and every    *)
(* burst, lookahead and clock range.                                       *)
(***************************************************************************)
EXTENDS RequestScheduler, Numbers, FiniteSetTheorems

\* The points of Take at which the locals hold a rate that was loaded.
HoldsRate(w) == pc[w] \in {"clock", "last", "lag", "cas", "sleep"}

RateKnown == \A w \in Worker : HoldsRate(w) => take[w].rate \in Rates

TypeInv == TypeOK /\ RateKnown

----------------------------------------------------------------------------
\* A rate is a positive number.
LEMMA RatePositive ==
    ASSUME NEW r \in Rates
    PROVE  r \in Nat /\ r > 0
BY RateAssumption

\* An interval is a positive number, at least MinInterval.
LEMMA IntervalBound ==
    ASSUME NEW r \in Rates
    PROVE  Interval(r) \in Nat /\ Interval(r) > 0 /\ Interval(r) >= MinInterval
BY RateAssumption DEF Interval

\* The catch-up that SetRateLimit stores is a natural number.
LEMMA CatchupNat ==
    ASSUME NEW r \in Rates, NEW b \in Bursts
    PROVE  Catchup(r, b) \in Nat
<1> DEFINE m == IF b > 1 THEN b ELSE 1
<1>1. m \in Nat /\ m * Second \in Nat
  BY RateAssumption
<1>2. r \in Nat /\ r > 0
  BY RateAssumption
<1> HIDE DEF m
<1>3. (m * Second) \div r \in Nat
  <2> DEFINE p == m * Second
  <2>1. p \in Nat
    BY <1>1
  <2> HIDE DEF p
  <2>2. p \div r \in Nat
    BY <2>1, <1>2
  <2> QED
    BY <2>2 DEF p
<1> QED
  BY <1>3 DEF Catchup, m

\* A computed send time is a natural number.
LEMMA NextSendNat ==
    ASSUME NEW seen \in Int, NEW r \in Rates
    PROVE  NextSend(seen, Interval(r)) \in Nat
BY IntervalBound DEF NextSend

\* The number of skipped requests is a natural number.
LEMMA SkippedNat ==
    ASSUME NEW next \in Nat, NEW clock \in Nat, NEW c \in Nat, NEW r \in Rates,
           TooFarBehind(next, clock, c)
    PROVE  /\ SkippedRequests(next, clock, c, Interval(r)) \in Nat
           /\ clock - c \in Nat
           /\ clock - c > next
<1> DEFINE lag == clock - c - next
           i == Interval(r)
<1>1. lag \in Nat /\ clock - c \in Nat /\ clock - c > next
  BY DEF TooFarBehind
<1>2. i \in Nat /\ i > 0
  BY IntervalBound
<1> HIDE DEF lag, i
<1>3. lag \div i \in Nat
  BY <1>1, <1>2
<1> QED
  BY <1>1, <1>3 DEF SkippedRequests, lag, i

\* A timer is never set to a time before the clock's zero.
LEMMA RetryDelayNat ==
    ASSUME NEW next \in Nat, NEW clock \in Nat, TooFarAhead(next, clock)
    PROVE  RetryDelay(next, clock) \in Nat
BY TimeAssumption DEF TooFarAhead, RetryDelay

\* The initial states are well typed.
LEMMA InitTypeInv == Init => TypeInv
<1> SUFFICES ASSUME Init PROVE TypeInv
  OBVIOUS
<1>1. rps \in Rates \cup {0} /\ maxCatchup \in Nat
  BY CatchupNat DEF Init
<1>2. now \in Nat /\ last \in Int /\ base \in Nat
  BY TimeAssumption DEF Init
<1>3. NoLocals \in Locals
  BY DEF NoLocals, Locals
<1>4. /\ take \in [Worker -> Locals] /\ pc \in [Worker -> PC]
      /\ \A w \in Worker : pc[w] = "idle"
  BY <1>3 DEF Init, PC
<1>5. pending \in [Setter -> Nat \cup {NoStore}]
  BY DEF Init
<1>6. owed \in Nat /\ fired \in Nat /\ resets \in Nat
  BY DEF Init
<1>7. done \in BOOLEAN
  BY DEF Init
<1>8. sends \in Seq(Nat)
  BY DEF Init
<1> QED
  BY <1>1, <1>2, <1>4, <1>5, <1>6, <1>7, <1>8
  DEF TypeInv, TypeOK, RateKnown, HoldsRate

\* Every step keeps the types.
LEMMA NextTypeInv == TypeInv /\ [Next]_vars => TypeInv'
<1> SUFFICES ASSUME TypeInv, [Next]_vars PROVE TypeInv'
  OBVIOUS
<1> USE DEF TypeInv, TypeOK, RateKnown, HoldsRate, Locals, PC, Goto
<1>1. ASSUME NEW w \in Worker, Call(w) PROVE TypeInv'
  BY <1>1 DEF Call, sharedVars, historyVars
<1>2. ASSUME NEW w \in Worker, CheckContext(w) PROVE TypeInv'
  BY <1>2 DEF CheckContext, sharedVars, historyVars
<1>3. ASSUME NEW w \in Worker, LoadRate(w) PROVE TypeInv'
  <2>1. rps \in Rates /\ rps \in Nat
    BY <1>3, RatePositive DEF LoadRate
  <2>2. UNCHANGED <<now, last, maxCatchup, rps, done, pending, base, sends,
                    owed, fired, resets>>
    BY <1>3 DEF LoadRate, sharedVars, historyVars
  <2>3. /\ take' \in [Worker -> Locals] /\ pc' \in [Worker -> PC]
        /\ take'[w].rate = rps
        /\ \A v \in Worker \ {w} : take'[v] = take[v] /\ pc'[v] = pc[v]
    BY <1>3, <2>1 DEF LoadRate
  <2>4. RateKnown'
    BY <2>1, <2>2, <2>3
  <2> QED
    BY <2>2, <2>3, <2>4
<1>4. ASSUME NEW w \in Worker, ReturnUnpaced(w) PROVE TypeInv'
  BY <1>4 DEF ReturnUnpaced, sharedVars, historyVars, NoLocals
<1>5. ASSUME NEW w \in Worker, ReadClock(w) PROVE TypeInv'
  BY <1>5 DEF ReadClock, sharedVars, historyVars
<1>6. ASSUME NEW w \in Worker, LoadLast(w) PROVE TypeInv'
  <2> DEFINE next == NextSend(last, Interval(take[w].rate))
  <2>0. UNCHANGED <<now, last, maxCatchup, rps, done, pending, base, sends,
                    owed, fired, resets>>
    BY <1>6 DEF LoadLast, sharedVars, historyVars
  <2>1. pc[w] = "last" /\ take[w].rate \in Rates /\ take[w].clock \in Nat
    BY <1>6 DEF LoadLast
  <2>2. next \in Nat
    BY <2>1, NextSendNat
  <2> HIDE DEF next
  <2>3. CASE /\ TooFarAhead(next, take[w].clock)
             /\ take' = [take EXCEPT ![w].wake =
                             now + RetryDelay(next, take[w].clock)]
             /\ Goto(w, "jit")
    <3>1. now + RetryDelay(next, take[w].clock) \in Nat
      BY <2>1, <2>2, <2>3, RetryDelayNat
    <3> QED
      BY <2>0, <2>1, <2>3, <3>1
  <2>4. CASE /\ take' = [take EXCEPT
                   ![w] = [@ EXCEPT !.seen = last, !.next = next]]
             /\ Goto(w, "lag")
    <3> DEFINE t == [take[w] EXCEPT !.seen = last, !.next = next]
    <3>1. t \in Locals /\ t.rate = take[w].rate
      BY <2>2
    <3>2. take' = [take EXCEPT ![w] = t]
      BY <2>4
    <3> HIDE DEF t
    <3> QED
      BY <2>0, <2>1, <2>4, <3>1, <3>2
  <2> QED
    BY <1>6, <2>3, <2>4 DEF LoadLast, next
<1>7. ASSUME NEW w \in Worker, JitTimer(w) PROVE TypeInv'
  BY <1>7 DEF JitTimer, sharedVars, historyVars, NoLocals
<1>8. ASSUME NEW w \in Worker, LoadCatchup(w) PROVE TypeInv'
  <2> DEFINE t == take[w]
             skipped == SkippedRequests(t.next, t.clock, maxCatchup,
                                        Interval(t.rate))
  <2>0. /\ UNCHANGED <<now, last, maxCatchup, rps, done, pending, base, sends,
                       owed, fired, resets>>
        /\ Goto(w, "cas")
    BY <1>8 DEF LoadCatchup, sharedVars, historyVars
  <2>1. /\ pc[w] = "lag" /\ t.rate \in Rates
        /\ t.next \in Nat /\ t.clock \in Nat /\ maxCatchup \in Nat
    BY <1>8 DEF LoadCatchup
  <2>2. CASE TooFarBehind(t.next, t.clock, maxCatchup)
    <3>1. skipped \in Nat /\ t.clock - maxCatchup \in Nat
      BY <2>1, <2>2, SkippedNat
    <3> DEFINE u == [t EXCEPT !.skipped = skipped,
                              !.next = t.clock - maxCatchup]
    <3>2. take' = [take EXCEPT ![w] = u]
      BY <1>8, <2>2 DEF LoadCatchup
    <3> HIDE DEF skipped
    <3>3. u \in Locals /\ u.rate = t.rate
      BY <2>1, <3>1
    <3> HIDE DEF u
    <3> QED
      BY <2>0, <2>1, <3>2, <3>3
  <2>3. CASE ~TooFarBehind(t.next, t.clock, maxCatchup)
    <3>1. UNCHANGED take
      BY <1>8, <2>3 DEF LoadCatchup
    <3> QED
      BY <2>0, <2>1, <3>1
  <2> QED
    BY <2>2, <2>3
<1>9. ASSUME NEW w \in Worker, Reserve(w) PROVE TypeInv'
  <2> DEFINE t == take[w]
             i == Interval(t.rate)
             gain == i * t.skipped
  <2>0. UNCHANGED <<now, maxCatchup, rps, done, pending, base, resets>>
    BY <1>9 DEF Reserve
  <2>1. pc[w] = "cas" /\ t.rate \in Rates /\ t \in Locals
    BY <1>9 DEF Reserve
  <2>2. i \in Nat
    BY <2>1, IntervalBound
  <2>3. gain \in Nat
    BY <2>1, <2>2
  <2>4. owed' = owed + gain + (IF t.seen < 0 THEN 0 ELSE i)
    BY <1>9 DEF Reserve
  <2> HIDE DEF gain, i
  <2>5. owed' \in Nat
    BY <2>2, <2>3, <2>4
  <2>6. last' \in Int /\ sends' \in Seq(Nat)
    BY <1>9, <2>1 DEF Reserve
  <2>7. CASE t.next > t.clock
    <3>1. /\ take' = [take EXCEPT ![w].wake = now + t.next - t.clock]
          /\ Goto(w, "sleep") /\ UNCHANGED fired
      BY <1>9, <2>7 DEF Reserve, SendIsAhead
    <3>2. now + t.next - t.clock \in Nat
      BY <2>1, <2>7
    <3> QED
      BY <2>0, <2>1, <2>5, <2>6, <3>1, <3>2
  <2>8. CASE ~(t.next > t.clock)
    <3>1. UNCHANGED take /\ Goto(w, "returned") /\ fired' = fired + 1
      BY <1>9, <2>8 DEF Reserve, SendIsAhead
    <3> QED
      BY <2>0, <2>1, <2>5, <2>6, <3>1
  <2> QED
    BY <2>7, <2>8
<1>10. ASSUME NEW w \in Worker, RetryReserve(w) PROVE TypeInv'
  BY <1>10 DEF RetryReserve, sharedVars, historyVars, NoLocals
<1>11. ASSUME NEW w \in Worker, SendTimer(w) PROVE TypeInv'
  BY <1>11 DEF SendTimer, sharedVars
<1>12. ASSUME NEW w \in Worker, ReturnCancelled(w) PROVE TypeInv'
  BY <1>12 DEF ReturnCancelled, sharedVars, historyVars, NoLocals
<1>13. ASSUME NEW w \in Worker, Leave(w) PROVE TypeInv'
  BY <1>13 DEF Leave, sharedVars, historyVars, NoLocals
<1>14. ASSUME NEW s \in Setter, NEW r \in Rates \cup {0}, NEW b \in Bursts,
              StoreRate(s, r, b)
       PROVE  TypeInv'
  <2>1. (IF r > 0 THEN Catchup(r, b) ELSE NoStore) \in Nat \cup {NoStore}
    BY CatchupNat
  <2> QED
    BY <1>14, <2>1 DEF StoreRate, historyVars
<1>15. ASSUME NEW s \in Setter, StoreCatchup(s) PROVE TypeInv'
  BY <1>15 DEF StoreCatchup, historyVars, NoStore
<1>16. ASSUME NEW t \in StartTime .. now, Reset(t) PROVE TypeInv'
  BY <1>16, TimeAssumption DEF Reset, AfterReset
<1>17. CASE Cancel
  BY <1>17 DEF Cancel, sharedVars, historyVars
<1>18. CASE Tick
  BY <1>18 DEF Tick, sharedVars
<1>19. CASE Ended \/ UNCHANGED vars
  BY <1>19 DEF Ended, vars
<1> QED
  BY <1>1, <1>2, <1>3, <1>4, <1>5, <1>6, <1>7, <1>8, <1>9, <1>10, <1>11,
     <1>12, <1>13, <1>14, <1>15, <1>16, <1>17, <1>18, <1>19
  DEF Next, TakeStep

\* In every reachable state the variables have their types and a worker that
\* divides by an interval has loaded a positive rate (rate_limiter.go:90-157).
THEOREM TypeCorrect == Spec => []TypeOK
<1>1. TypeInv => TypeOK
  BY DEF TypeInv
<1> QED
  BY <1>1, InitTypeInv, NextTypeInv, PTL DEF Spec

----------------------------------------------------------------------------
(***************************************************************************)
(* Send times and the clock.                                               *)
(***************************************************************************)

\* What a step of worker w leaves alone in the other workers.
OthersKeep(w) ==
    \A v \in Worker \ {w} : take'[v] = take[v] /\ pc'[v] = pc[v]

\* What LoadLast changes, besides the wake time of a worker that waits.
LEMMA LoadLastEffect ==
    ASSUME TypeInv, NEW w \in Worker, LoadLast(w)
    PROVE  /\ pc[w] = "last" /\ OthersKeep(w)
           /\ UNCHANGED <<now, last, base, sends, owed>>
           /\ \/ pc'[w] = "jit"
              \/ /\ pc'[w] = "lag"
                 /\ take'[w].next = NextSend(last, Interval(take[w].rate))
                 /\ ~TooFarAhead(take'[w].next, take[w].clock)
                 /\ take'[w].seen = last
                 /\ take'[w].skipped = take[w].skipped
                 /\ take'[w].rate = take[w].rate
                 /\ take'[w].clock = take[w].clock
<1> DEFINE next == NextSend(last, Interval(take[w].rate))
<1>1. /\ pc[w] = "last" /\ UNCHANGED <<now, last, base, sends, owed>>
      /\ take \in [Worker -> Locals] /\ pc \in [Worker -> PC]
  BY DEF LoadLast, TypeInv, TypeOK, sharedVars, historyVars
<1>2. CASE /\ TooFarAhead(next, take[w].clock)
           /\ take' = [take EXCEPT ![w].wake =
                           now + RetryDelay(next, take[w].clock)]
           /\ Goto(w, "jit")
  <2> HIDE DEF next
  <2> QED
    BY <1>1, <1>2 DEF OthersKeep, Goto
<1>3. CASE /\ ~TooFarAhead(next, take[w].clock)
           /\ take' = [take EXCEPT
                 ![w] = [@ EXCEPT !.seen = last, !.next = next]]
           /\ Goto(w, "lag")
  <2> DEFINE t == [take[w] EXCEPT !.seen = last, !.next = next]
  <2>1. take' = [take EXCEPT ![w] = t]
    BY <1>3
  <2>2. /\ t.next = next /\ t.seen = last /\ t.skipped = take[w].skipped
        /\ t.rate = take[w].rate /\ t.clock = take[w].clock
    BY <1>1 DEF Locals
  <2>3. take'[w] = t /\ OthersKeep(w) /\ pc'[w] = "lag"
    BY <1>1, <1>3, <2>1 DEF OthersKeep, Goto
  <2> QED
    BY <1>1, <1>3, <2>2, <2>3
<1> QED
  BY <1>2, <1>3 DEF LoadLast

\* What LoadCatchup changes.
LEMMA LoadCatchupEffect ==
    ASSUME TypeInv, NEW w \in Worker, LoadCatchup(w)
    PROVE  /\ pc[w] = "lag" /\ pc'[w] = "cas" /\ OthersKeep(w)
           /\ UNCHANGED <<now, last, base, sends, owed>>
           /\ take'[w].clock = take[w].clock
           /\ take'[w].rate = take[w].rate
           /\ take'[w].seen = take[w].seen
           /\ \/ /\ ~TooFarBehind(take[w].next, take[w].clock, maxCatchup)
                 /\ take'[w].next = take[w].next
                 /\ take'[w].skipped = take[w].skipped
              \/ /\ TooFarBehind(take[w].next, take[w].clock, maxCatchup)
                 /\ take'[w].next = take[w].clock - maxCatchup
                 /\ take'[w].skipped =
                       SkippedRequests(take[w].next, take[w].clock, maxCatchup,
                                       Interval(take[w].rate))
<1> DEFINE t == take[w]
           skipped == SkippedRequests(t.next, t.clock, maxCatchup,
                                      Interval(t.rate))
<1>1. /\ pc[w] = "lag" /\ Goto(w, "cas")
      /\ UNCHANGED <<now, last, base, sends, owed>>
      /\ take \in [Worker -> Locals] /\ pc \in [Worker -> PC]
  BY DEF LoadCatchup, TypeInv, TypeOK, sharedVars, historyVars
<1>2. CASE TooFarBehind(t.next, t.clock, maxCatchup)
  <2> DEFINE u == [t EXCEPT !.skipped = skipped,
                            !.next = t.clock - maxCatchup]
  <2>1. take' = [take EXCEPT ![w] = u]
    BY <1>2 DEF LoadCatchup
  <2> HIDE DEF skipped
  <2>2. /\ u.next = t.clock - maxCatchup /\ u.skipped = skipped
        /\ u.clock = t.clock /\ u.rate = t.rate /\ u.seen = t.seen
    BY <1>1 DEF Locals
  <2> HIDE DEF u
  <2>3. take'[w] = u /\ OthersKeep(w) /\ pc'[w] = "cas"
    BY <1>1, <2>1 DEF OthersKeep, Goto
  <2> QED
    BY <1>1, <1>2, <2>2, <2>3 DEF skipped
<1>3. CASE ~TooFarBehind(t.next, t.clock, maxCatchup)
  <2>1. UNCHANGED take
    BY <1>3 DEF LoadCatchup
  <2> QED
    BY <1>1, <1>3, <2>1 DEF OthersKeep, Goto
<1> QED
  BY <1>2, <1>3

\* What a successful reservation changes.
LEMMA ReserveEffect ==
    ASSUME TypeInv, NEW w \in Worker, Reserve(w)
    PROVE  /\ pc[w] = "cas" /\ OthersKeep(w) /\ UNCHANGED <<now, base>>
           /\ last = take[w].seen
           /\ last' = take[w].next
           /\ sends' = Append(sends, take[w].next)
           /\ owed' = owed + Interval(take[w].rate) * take[w].skipped
                         + (IF take[w].seen < 0 THEN 0
                                                ELSE Interval(take[w].rate))
           /\ take'[w].next = take[w].next
           /\ take'[w].clock = take[w].clock
           /\ \/ /\ pc'[w] = "sleep"
                 /\ take'[w].wake = now + take[w].next - take[w].clock
              \/ /\ pc'[w] = "returned"
                 /\ take[w].next <= take[w].clock
<1>1. /\ take \in [Worker -> Locals] /\ pc \in [Worker -> PC]
      /\ take[w].next \in Nat /\ take[w].clock \in Nat
  BY DEF TypeInv, TypeOK, Locals
<1>2. /\ pc[w] = "cas" /\ UNCHANGED <<now, base>> /\ last = take[w].seen
      /\ last' = take[w].next /\ sends' = Append(sends, take[w].next)
      /\ owed' = owed + Interval(take[w].rate) * take[w].skipped
                    + (IF take[w].seen < 0 THEN 0 ELSE Interval(take[w].rate))
  BY DEF Reserve, CasSucceeds
<1>3. CASE take[w].next > take[w].clock
  <2> DEFINE wake == now + take[w].next - take[w].clock
  <2>1. take' = [take EXCEPT ![w].wake = wake] /\ Goto(w, "sleep")
    BY <1>3 DEF Reserve, SendIsAhead
  <2> HIDE DEF wake
  <2>2. /\ take'[w].next = take[w].next /\ take'[w].clock = take[w].clock
        /\ take'[w].wake = wake /\ pc'[w] = "sleep" /\ OthersKeep(w)
    BY <1>1, <2>1 DEF Locals, OthersKeep, Goto
  <2> QED
    BY <1>2, <2>2 DEF wake
<1>4. CASE ~(take[w].next > take[w].clock)
  <2>1. UNCHANGED take /\ Goto(w, "returned")
    BY <1>4 DEF Reserve, SendIsAhead
  <2> QED
    BY <1>1, <1>2, <1>4, <2>1 DEF OthersKeep, Goto
<1> QED
  BY <1>3, <1>4

\* A worker's clock value is not from the future, its candidate send time is
\* not far ahead of that value, and it sleeps and returns no earlier than its
\* send time.
WorkerTime(w) ==
    /\ pc[w] \in {"last", "lag", "cas", "sleep"} => take[w].clock <= now
    /\ pc[w] \in {"lag", "cas"} =>
          take[w].next <= take[w].clock + JitLookahead
    /\ pc[w] = "sleep" => take[w].next <= take[w].wake
    /\ pc[w] = "returned" => take[w].next <= now

TimeInv ==
    /\ LookaheadBound
    /\ \A w \in Worker : WorkerTime(w)

\* The fields of a worker's locals are numbers.
LEMMA FieldTypes ==
    ASSUME TypeInv, NEW w \in Worker
    PROVE  /\ take[w].next \in Nat /\ take[w].clock \in Nat
           /\ take[w].seen \in Int /\ take[w].skipped \in Nat
           /\ take[w].wake \in Nat /\ now \in Nat /\ last \in Int
           /\ maxCatchup \in Nat /\ base \in Nat /\ owed \in Nat
           /\ sends \in Seq(Nat)
BY DEF TypeInv, TypeOK, Locals

\* A step of one worker need only be checked for that worker.
LEMMA OneWorkerTime ==
    ASSUME TimeInv, NEW w \in Worker, OthersKeep(w), UNCHANGED now,
           WorkerTime(w)', LookaheadBound'
    PROVE  TimeInv'
<1>1. ASSUME NEW v \in Worker \ {w} PROVE WorkerTime(v)'
  BY DEF TimeInv, WorkerTime, OthersKeep
<1> QED
  BY <1>1 DEF TimeInv

LEMMA InitTimeInv == Init => TimeInv
BY TimeAssumption DEF Init, TimeInv, WorkerTime, LookaheadBound

LEMMA NextTimeInv == TypeInv /\ TypeInv' /\ TimeInv /\ [Next]_vars => TimeInv'
<1> SUFFICES ASSUME TypeInv, TypeInv', TimeInv, [Next]_vars PROVE TimeInv'
  OBVIOUS
<1>0. ASSUME NEW w \in Worker PROVE WorkerTime(w) /\ LookaheadBound
  BY DEF TimeInv
<1>1. ASSUME NEW w \in Worker,
             \/ Call(w) \/ CheckContext(w) \/ LoadRate(w) \/ JitTimer(w)
             \/ RetryReserve(w) \/ ReturnCancelled(w) \/ Leave(w)
      PROVE  TimeInv'
  <2>1. /\ pc'[w] \in {"check", "rate", "clock", "cancelled", "idle"}
        /\ OthersKeep(w) /\ UNCHANGED <<now, last>>
    BY <1>1 DEF Call, CheckContext, LoadRate, JitTimer, RetryReserve,
                ReturnCancelled, Leave, OthersKeep, Goto, TypeInv, TypeOK,
                sharedVars
  <2>2. WorkerTime(w)' /\ LookaheadBound'
    BY <1>0, <2>1 DEF WorkerTime, LookaheadBound
  <2> QED
    BY <2>1, <2>2, OneWorkerTime
<1>4. ASSUME NEW w \in Worker, ReturnUnpaced(w) PROVE TimeInv'
  <2>1. /\ pc'[w] = "returned" /\ take'[w].next = 0
        /\ OthersKeep(w) /\ UNCHANGED <<now, last>>
    BY <1>4 DEF ReturnUnpaced, OthersKeep, Goto, TypeInv, TypeOK, NoLocals,
                sharedVars
  <2>2. WorkerTime(w)' /\ LookaheadBound'
    BY <1>0, <2>1, FieldTypes DEF WorkerTime, LookaheadBound
  <2> QED
    BY <2>1, <2>2, OneWorkerTime
<1>5. ASSUME NEW w \in Worker, ReadClock(w) PROVE TimeInv'
  <2>1. /\ pc'[w] = "last" /\ take'[w].clock = now
        /\ OthersKeep(w) /\ UNCHANGED <<now, last>>
    BY <1>5 DEF ReadClock, OthersKeep, Goto, TypeInv, TypeOK, Locals,
                sharedVars
  <2>2. WorkerTime(w)' /\ LookaheadBound'
    BY <1>0, <2>1, FieldTypes DEF WorkerTime, LookaheadBound
  <2> QED
    BY <2>1, <2>2, OneWorkerTime
<1>6. ASSUME NEW w \in Worker, LoadLast(w) PROVE TimeInv'
  <2>1. OthersKeep(w) /\ UNCHANGED <<now, last>> /\ take'[w].next \in Nat
    BY <1>6, LoadLastEffect DEF TypeInv, TypeOK, Locals
  <2>2. CASE pc'[w] = "jit"
    BY <1>0, <2>1, <2>2, OneWorkerTime DEF WorkerTime, LookaheadBound
  <2>3. CASE /\ pc'[w] = "lag"
             /\ ~TooFarAhead(take'[w].next, take[w].clock)
             /\ take'[w].clock = take[w].clock
    <3>1. take'[w].next <= take'[w].clock + JitLookahead
      BY <2>1, <2>3, FieldTypes, TimeAssumption DEF TooFarAhead
    <3>2. take'[w].clock <= now
      BY <1>0, <1>6, <2>3, LoadLastEffect DEF WorkerTime
    <3> QED
      BY <1>0, <2>1, <2>3, <3>1, <3>2, OneWorkerTime
      DEF WorkerTime, LookaheadBound
  <2> QED
    BY <1>6, <2>2, <2>3, LoadLastEffect
<1>8. ASSUME NEW w \in Worker, LoadCatchup(w) PROVE TimeInv'
  <2>1. /\ pc[w] = "lag" /\ pc'[w] = "cas" /\ OthersKeep(w)
        /\ UNCHANGED <<now, last>> /\ take'[w].clock = take[w].clock
        /\ \/ take'[w].next = take[w].next
           \/ take'[w].next = take[w].clock - maxCatchup
    BY <1>8, LoadCatchupEffect
  <2>2. take'[w].next <= take'[w].clock + JitLookahead
    BY <1>0, <2>1, FieldTypes, TimeAssumption DEF WorkerTime
  <2> QED
    BY <1>0, <2>1, <2>2, OneWorkerTime DEF WorkerTime, LookaheadBound
<1>9. ASSUME NEW w \in Worker, Reserve(w) PROVE TimeInv'
  <2>1. /\ pc[w] = "cas" /\ OthersKeep(w) /\ UNCHANGED now
        /\ last' = take[w].next
        /\ take'[w].next = take[w].next /\ take'[w].clock = take[w].clock
        /\ \/ /\ pc'[w] = "sleep"
              /\ take'[w].wake = now + take[w].next - take[w].clock
           \/ /\ pc'[w] = "returned"
              /\ take[w].next <= take[w].clock
    BY <1>9, ReserveEffect
  <2>2. /\ take[w].clock <= now
        /\ take[w].next <= take[w].clock + JitLookahead
    BY <1>0, <2>1 DEF WorkerTime
  <2>3. WorkerTime(w)' /\ LookaheadBound'
    BY <2>1, <2>2, FieldTypes, TimeAssumption DEF WorkerTime, LookaheadBound
  <2> QED
    BY <2>1, <2>3, OneWorkerTime
<1>11. ASSUME NEW w \in Worker, SendTimer(w) PROVE TimeInv'
  <2>1. /\ pc[w] = "sleep" /\ pc'[w] = "returned" /\ take'[w] = take[w]
        /\ now >= take[w].wake /\ OthersKeep(w) /\ UNCHANGED <<now, last>>
    BY <1>11 DEF SendTimer, TimerFired, OthersKeep, Goto, TypeInv, TypeOK,
                 sharedVars
  <2>2. WorkerTime(w)' /\ LookaheadBound'
    BY <1>0, <2>1, FieldTypes DEF WorkerTime, LookaheadBound
  <2> QED
    BY <2>1, <2>2, OneWorkerTime
<1>14. ASSUME UNCHANGED <<now, last, pc, take>> PROVE TimeInv'
  BY <1>0, <1>14 DEF TimeInv, WorkerTime, LookaheadBound
<1>15. ASSUME NEW s \in Setter, NEW r \in Rates \cup {0}, NEW b \in Bursts,
              StoreRate(s, r, b) \/ StoreCatchup(s)
       PROVE  TimeInv'
  BY <1>14, <1>15 DEF StoreRate, StoreCatchup
<1>16. ASSUME NEW t \in StartTime .. now, Reset(t) PROVE TimeInv'
  <2>1. UNCHANGED <<now, pc, take>> /\ last' = -t
    BY <1>16 DEF Reset, AfterReset
  <2>2. -t <= now + JitLookahead
    BY FieldTypes, TimeAssumption DEF TypeInv, TypeOK
  <2> QED
    BY <1>0, <2>1, <2>2 DEF TimeInv, WorkerTime, LookaheadBound
<1>17. CASE Cancel \/ Ended \/ UNCHANGED vars
  BY <1>14, <1>17 DEF Cancel, Ended, vars, sharedVars
<1>18. CASE Tick
  <2>1. UNCHANGED <<last, pc, take>> /\ now' = now + 1
    BY <1>18 DEF Tick, sharedVars
  <2>2. LookaheadBound'
    BY <2>1, TimeAssumption DEF TimeInv, LookaheadBound, TypeInv, TypeOK
  <2>3. ASSUME NEW w \in Worker PROVE WorkerTime(w)'
    BY <1>0, <2>1, FieldTypes DEF WorkerTime
  <2> QED
    BY <2>2, <2>3 DEF TimeInv
<1>19. ASSUME NEW s \in Setter, StoreCatchup(s) PROVE TimeInv'
  BY <1>14, <1>19 DEF StoreCatchup
<1> QED
  BY <1>1, <1>4, <1>5, <1>6, <1>8, <1>9, <1>11, <1>15, <1>16, <1>17, <1>18,
     <1>19
  DEF Next, TakeStep

\* A request is never sent before its scheduled time, however workers,
\* SetRateLimit, Reset and the clock interleave (rate_limiter.go:145-155).
THEOREM NeverEarlyHolds == Spec => []NeverEarly
<1>1. TimeInv => NeverEarly
  BY DEF TimeInv, WorkerTime, NeverEarly
<1> QED
  BY <1>1, InitTypeInv, NextTypeInv, InitTimeInv, NextTimeInv, PTL DEF Spec

\* No send time is reserved further than jitLookahead ahead of the clock, also
\* by a worker whose clock value is old (rate_limiter.go:118-140).
THEOREM LookaheadHolds == Spec => []LookaheadBound
<1>1. TimeInv => LookaheadBound
  BY DEF TimeInv
<1> QED
  BY <1>1, InitTypeInv, NextTypeInv, InitTimeInv, NextTimeInv, PTL DEF Spec

----------------------------------------------------------------------------
(***************************************************************************)
(* The order of send times and the account of the skipped requests.        *)
(***************************************************************************)

\* The time that a reservation by worker w accounts for.
Gain(w) ==
    Interval(take[w].rate) * take[w].skipped
        + (IF take[w].seen < 0 THEN 0 ELSE Interval(take[w].rate))

\* The candidate of a worker that is about to reserve lies ahead of the value
\* of last it saw, by what the reservation accounts for.
WorkerOrder(w) ==
    /\ pc[w] \in {"idle", "check", "rate", "clock", "last", "lag"} =>
          take[w].skipped = 0
    /\ pc[w] = "lag" =>
          take[w].next = NextSend(take[w].seen, Interval(take[w].rate))
    /\ pc[w] = "cas" =>
          take[w].next >= (IF take[w].seen < 0 THEN -take[w].seen
                                               ELSE take[w].seen) + Gain(w)

\* last is the newest send time, and no time is accounted for twice.
Newest ==
    /\ base > 0
    /\ sends = <<>> => last = -base /\ owed = 0
    /\ sends # <<>> => last = sends[Len(sends)] /\ base + owed <= last

OrderInv ==
    /\ Spacing
    /\ Newest
    /\ \A w \in Worker : WorkerOrder(w)

\* A send time at least MinInterval after the last one keeps the spacing.
LEMMA AppendSpacing ==
    ASSUME NEW s \in Seq(Nat), NEW t \in Nat,
           \A i, j \in 1 .. Len(s) :
               i < j => s[j] - s[i] >= (j - i) * MinInterval,
           s # <<>> => t >= s[Len(s)] + MinInterval
    PROVE  LET u == Append(s, t)
           IN  \A i, j \in 1 .. Len(u) :
                   i < j => u[j] - u[i] >= (j - i) * MinInterval
<1> DEFINE u == Append(s, t)
           n == Len(s)
<1>1. /\ n \in Nat /\ Len(u) = n + 1 /\ u[n + 1] = t
      /\ \A i \in 1 .. n : u[i] = s[i] /\ s[i] \in Nat
  OBVIOUS
<1>2. SUFFICES ASSUME NEW i \in 1 .. n + 1, NEW j \in 1 .. n + 1, i < j
               PROVE  u[j] - u[i] >= (j - i) * MinInterval
  BY <1>1
<1>3. CASE j <= n
  <2>1. i \in 1 .. n /\ j \in 1 .. n
    BY <1>1, <1>2, <1>3
  <2>2. s[j] - s[i] >= (j - i) * MinInterval
    BY <1>2, <2>1
  <2>3. u[i] = s[i] /\ u[j] = s[j]
    BY <1>1, <2>1
  <2> QED
    BY <2>2, <2>3
<1>4. CASE j = n + 1
  <2> DEFINE d == n - i
  <2>1. i \in 1 .. n /\ n \in 1 .. n /\ d \in Nat /\ j - i = d + 1
    BY <1>1, <1>2, <1>4
  <2>2. t >= s[n] + MinInterval
    BY <2>1
  <2>3. s[n] - s[i] >= d * MinInterval
    <3>1. CASE i < n
      BY <2>1, <3>1
    <3>2. CASE i = n
      <4>1. d = 0
        BY <2>1, <3>2
      <4>2. s[n] - s[i] = 0
        BY <1>1, <2>1, <3>2
      <4>3. 0 * MinInterval = 0
        BY RateAssumption
      <4> QED
        BY <4>1, <4>2, <4>3
    <3> QED
      BY <2>1, <3>1, <3>2
  <2>4. (d + 1) * MinInterval = d * MinInterval + MinInterval
    BY <2>1, TimesSuccessor, RateAssumption
  <2>5. /\ d * MinInterval \in Nat /\ MinInterval \in Nat
        /\ s[n] \in Nat /\ s[i] \in Nat
    BY <1>1, <2>1, TimesNat, RateAssumption
  <2> HIDE DEF d
  <2>6. t - s[i] >= (d + 1) * MinInterval
    BY <2>2, <2>3, <2>4, <2>5
  <2>7. u[j] = t /\ u[i] = s[i]
    BY <1>1, <1>4, <2>1
  <2> QED
    BY <2>1, <2>6, <2>7
<1> QED
  BY <1>1, <1>2, <1>3, <1>4

\* A step of one worker that reserves nothing need only be checked for that
\* worker.
LEMMA OneWorkerOrder ==
    ASSUME OrderInv, NEW w \in Worker, OthersKeep(w),
           UNCHANGED <<last, base, sends, owed>>, WorkerOrder(w)'
    PROVE  OrderInv'
<1>1. ASSUME NEW v \in Worker \ {w} PROVE WorkerOrder(v)'
  BY DEF OrderInv, WorkerOrder, OthersKeep, Gain
<1>2. Spacing' /\ Newest'
  BY DEF OrderInv, Spacing, Newest
<1> QED
  BY <1>1, <1>2 DEF OrderInv

LEMMA InitOrderInv == Init => OrderInv
BY TimeAssumption
DEF Init, OrderInv, Spacing, Newest, WorkerOrder, NoLocals

LEMMA NextOrderInv == TypeInv /\ OrderInv /\ [Next]_vars => OrderInv'
<1> SUFFICES ASSUME TypeInv, OrderInv, [Next]_vars PROVE OrderInv'
  OBVIOUS
<1>0. ASSUME NEW w \in Worker PROVE WorkerOrder(w)
  BY DEF OrderInv
<1>1. ASSUME NEW w \in Worker,
             \/ JitTimer(w) \/ RetryReserve(w) \/ ReturnCancelled(w) \/ Leave(w)
             \/ ReturnUnpaced(w)
      PROVE  OrderInv'
  <2>1. /\ pc'[w] \in {"check", "cancelled", "idle", "returned"}
        /\ take'[w].skipped = 0
        /\ OthersKeep(w) /\ UNCHANGED <<last, base, sends, owed>>
    BY <1>1 DEF JitTimer, RetryReserve, ReturnCancelled, Leave, ReturnUnpaced,
                OthersKeep, Goto, TypeInv, TypeOK, NoLocals, sharedVars,
                historyVars
  <2>2. WorkerOrder(w)'
    BY <2>1 DEF WorkerOrder
  <2> QED
    BY <2>1, <2>2, OneWorkerOrder
<1>2. ASSUME NEW w \in Worker,
             \/ Call(w) \/ CheckContext(w) \/ LoadRate(w) \/ ReadClock(w)
      PROVE  OrderInv'
  <2>1. /\ pc[w] \in {"idle", "check", "rate", "clock"}
        /\ pc'[w] \in {"check", "rate", "clock", "last"}
        /\ take'[w].skipped = take[w].skipped
        /\ OthersKeep(w) /\ UNCHANGED <<last, base, sends, owed>>
    <3> USE DEF OthersKeep, Goto, TypeInv, TypeOK, sharedVars, historyVars
    <3>1. CASE Call(w) \/ CheckContext(w)
      BY <3>1 DEF Call, CheckContext
    <3>2. CASE LoadRate(w)
      BY <3>2 DEF LoadRate, Locals
    <3>3. CASE ReadClock(w)
      BY <3>3 DEF ReadClock, Locals
    <3> QED
      BY <1>2, <3>1, <3>2, <3>3
  <2>2. WorkerOrder(w)'
    BY <1>0, <2>1 DEF WorkerOrder
  <2> QED
    BY <2>1, <2>2, OneWorkerOrder
<1>3. ASSUME NEW w \in Worker, LoadLast(w) PROVE OrderInv'
  <2>1. CASE pc'[w] = "jit"
    <3>1. WorkerOrder(w)'
      BY <2>1 DEF WorkerOrder
    <3> QED
      BY <1>3, <3>1, LoadLastEffect, OneWorkerOrder
  <2>2. CASE pc'[w] = "lag"
    <3>1. WorkerOrder(w)'
      BY <1>0, <1>3, <2>2, LoadLastEffect DEF WorkerOrder
    <3> QED
      BY <1>3, <3>1, LoadLastEffect, OneWorkerOrder
  <2> QED
    BY <1>3, <2>1, <2>2, LoadLastEffect
<1>4. ASSUME NEW w \in Worker, LoadCatchup(w) PROVE OrderInv'
  <2> DEFINE i == Interval(take[w].rate)
             k == take'[w].skipped
             m == IF take[w].seen < 0 THEN -take[w].seen ELSE take[w].seen
             step == IF take[w].seen < 0 THEN 0 ELSE i
  <2>1. /\ pc[w] = "lag" /\ take[w].rate \in Rates /\ take[w].skipped = 0
        /\ take[w].next = m + step /\ i \in Nat /\ i > 0 /\ m \in Nat
    BY <1>0, <1>4, LoadCatchupEffect, IntervalBound, FieldTypes
    DEF WorkerOrder, TypeInv, RateKnown, HoldsRate, NextSend
  <2>2. take'[w].next >= m + i * k + step
    <3>1. CASE take'[w].next = take[w].next /\ k = take[w].skipped
      <4>1. i * k = 0
        BY <2>1, <3>1
      <4> HIDE DEF i, k
      <4> QED
        BY <2>1, <3>1, <4>1
    <3>2. CASE /\ TooFarBehind(take[w].next, take[w].clock, maxCatchup)
               /\ take'[w].next = take[w].clock - maxCatchup
               /\ k = SkippedRequests(take[w].next, take[w].clock, maxCatchup,
                                      i)
      <4> DEFINE lag == take[w].clock - maxCatchup - take[w].next
      <4>1. lag \in Nat /\ k = lag \div i
        BY <3>2, FieldTypes DEF TooFarBehind, SkippedRequests
      <4>2. i * k <= lag /\ i * k \in Nat
        <5> HIDE DEF lag, i, k
        <5>1. i * (lag \div i) <= lag /\ lag \div i \in Nat
          BY <2>1, <4>1, DivRoundsDown
        <5>2. i * k = i * (lag \div i) /\ k \in Nat
          BY <4>1, <5>1
        <5>3. i * k \in Nat
          BY <2>1, <5>2, TimesNat
        <5> QED
          BY <5>1, <5>2, <5>3
      <4> DEFINE p == i * k
      <4>3. p <= lag /\ p \in Nat /\ step \in Nat /\ m \in Nat
        BY <2>1, <4>2
      <4>4. /\ take[w].next = m + step
            /\ take'[w].next = take[w].clock - maxCatchup
        BY <2>1, <3>2
      <4> HIDE DEF p, step, m
      <4>5. take'[w].next >= m + p + step
        BY <4>3, <4>4, FieldTypes
      <4> QED
        BY <4>5 DEF p
    <3> QED
      BY <1>4, <3>1, <3>2, LoadCatchupEffect
  <2>3. /\ pc'[w] = "cas" /\ OthersKeep(w)
        /\ UNCHANGED <<last, base, sends, owed>>
        /\ take'[w].rate = take[w].rate /\ take'[w].seen = take[w].seen
    BY <1>4, LoadCatchupEffect
  <2>4. WorkerOrder(w)'
    <3>1. Gain(w)' = i * k + step
      <4>1. Gain(w)' = Interval(take'[w].rate) * take'[w].skipped
               + (IF take'[w].seen < 0 THEN 0 ELSE Interval(take'[w].rate))
        BY DEF Gain
      <4>2. Interval(take'[w].rate) = i
        BY <2>3
      <4> QED
        BY <2>3, <4>1, <4>2
    <3>2. i * k \in Nat /\ step \in Nat /\ k \in Nat
      <4>1. k \in Nat
        <5>1. take[w].rate \in Rates /\ take[w].skipped \in Nat
          BY <2>1
        <5>2. ASSUME TooFarBehind(take[w].next, take[w].clock, maxCatchup)
              PROVE  SkippedRequests(take[w].next, take[w].clock, maxCatchup,
                                     Interval(take[w].rate)) \in Nat
          BY <5>1, <5>2, SkippedNat, FieldTypes
        <5> QED
          BY <1>4, <5>1, <5>2, LoadCatchupEffect
      <4> HIDE DEF k
      <4> QED
        BY <2>1, <4>1, TimesNat
    <3> DEFINE p == i * k
    <3> HIDE DEF p
    <3>3. m + p + step = m + (p + step)
      BY <2>1, <3>2 DEF p
    <3>4. take'[w].next >= m + (i * k + step)
      BY <2>2, <3>3 DEF p
    <3> QED
      BY <2>3, <3>1, <3>4 DEF WorkerOrder
  <2> QED
    BY <2>3, <2>4, OneWorkerOrder
<1>5. ASSUME NEW w \in Worker, Reserve(w) PROVE OrderInv'
  <2> DEFINE t == take[w].next
             g == Gain(w)
  <2>1. /\ pc[w] = "cas" /\ OthersKeep(w) /\ UNCHANGED base
        /\ last = take[w].seen /\ last' = t /\ sends' = Append(sends, t)
        /\ owed' = owed + g /\ pc'[w] \in {"sleep", "returned"}
    <3> DEFINE p == Interval(take[w].rate) * take[w].skipped
               q == IF take[w].seen < 0 THEN 0 ELSE Interval(take[w].rate)
    <3>1. p \in Nat /\ q \in Nat /\ owed \in Nat
      BY <1>5, ReserveEffect, IntervalBound, FieldTypes, TimesNat
      DEF TypeInv, RateKnown, HoldsRate
    <3>2. owed' = owed + p + q
      BY <1>5, ReserveEffect
    <3> HIDE DEF p, q
    <3>3. owed' = owed + (p + q)
      BY <3>1, <3>2
    <3> QED
      BY <1>5, <3>3, ReserveEffect DEF Gain, p, q
  <2>2. /\ t >= (IF last < 0 THEN -last ELSE last) + g
        /\ g \in Nat
        /\ last >= 0 => g >= MinInterval
    <3>1. take[w].rate \in Rates
      BY <1>5, ReserveEffect DEF TypeInv, RateKnown, HoldsRate
    <3> DEFINE i == Interval(take[w].rate)
               p == i * take[w].skipped
    <3>2. i \in Nat /\ i >= MinInterval /\ p \in Nat
      BY <3>1, IntervalBound, FieldTypes, TimesNat
    <3>3. g = p + (IF last < 0 THEN 0 ELSE i)
      BY <2>1 DEF Gain
    <3>4. t >= (IF last < 0 THEN -last ELSE last) + g
      BY <1>0, <2>1 DEF WorkerOrder
    <3> HIDE DEF i, p, g
    <3>5. g \in Nat /\ (last >= 0 => g >= MinInterval)
      BY <3>2, <3>3, FieldTypes, RateAssumption
    <3> QED
      BY <3>4, <3>5
  <2> HIDE DEF g
  <2>3. t \in Nat /\ sends \in Seq(Nat) /\ last \in Int /\ base \in Nat
        /\ owed \in Nat /\ MinInterval \in Nat
    BY FieldTypes, RateAssumption
  <2>4. sends # <<>> => last = sends[Len(sends)] /\ last \in Nat
    <3>1. sends # <<>> => sends[Len(sends)] \in Nat
      BY <2>3
    <3> QED
      BY <3>1 DEF OrderInv, Newest
  <2> HIDE DEF t
  <2>5. Spacing'
    <3>1. sends # <<>> => t >= sends[Len(sends)] + MinInterval
      BY <2>2, <2>3, <2>4
    <3>2. \A i, j \in 1 .. Len(sends) :
             i < j => sends[j] - sends[i] >= (j - i) * MinInterval
      BY DEF OrderInv, Spacing
    <3> QED
      BY <2>1, <2>3, <3>1, <3>2, AppendSpacing DEF Spacing
  <2>6. Newest'
    <3>1. /\ sends' # <<>> /\ sends'[Len(sends')] = t
      BY <2>1, <2>3
    <3>2. base + owed' <= t
      <4>1. CASE sends = <<>>
        BY <2>1, <2>2, <2>3, <4>1 DEF OrderInv, Newest
      <4>2. CASE sends # <<>>
        BY <2>1, <2>2, <2>3, <2>4, <4>2 DEF OrderInv, Newest
      <4> QED
        BY <4>1, <4>2
    <3> QED
      BY <2>1, <3>1, <3>2 DEF OrderInv, Newest
  <2>7. ASSUME NEW v \in Worker PROVE WorkerOrder(v)'
    <3>1. CASE v = w
      BY <2>1, <3>1 DEF WorkerOrder
    <3>2. CASE v # w
      BY <1>0, <2>1, <3>2 DEF WorkerOrder, OthersKeep, Gain
    <3> QED
      BY <3>1, <3>2
  <2> QED
    BY <2>5, <2>6, <2>7 DEF OrderInv
<1>6. ASSUME NEW w \in Worker, SendTimer(w) PROVE OrderInv'
  <2>1. /\ pc'[w] = "returned"
        /\ OthersKeep(w) /\ UNCHANGED <<last, base, sends, owed>>
    BY <1>6 DEF SendTimer, OthersKeep, Goto, TypeInv, TypeOK, sharedVars
  <2>2. WorkerOrder(w)'
    BY <2>1 DEF WorkerOrder
  <2> QED
    BY <2>1, <2>2, OneWorkerOrder
<1>7. ASSUME UNCHANGED <<last, pc, take, base, sends, owed>> PROVE OrderInv'
  BY <1>7 DEF OrderInv, Spacing, Newest, WorkerOrder, Gain
<1>8. ASSUME NEW s \in Setter, NEW r \in Rates \cup {0}, NEW b \in Bursts,
             StoreRate(s, r, b)
      PROVE  OrderInv'
  BY <1>7, <1>8 DEF StoreRate, historyVars
<1>9. ASSUME NEW s \in Setter, StoreCatchup(s) PROVE OrderInv'
  BY <1>7, <1>9 DEF StoreCatchup, historyVars
<1>10. ASSUME NEW t \in StartTime .. now, Reset(t) PROVE OrderInv'
  <2>1. /\ UNCHANGED <<pc, take>> /\ sends' = <<>> /\ last' = -t /\ base' = t
        /\ owed' = 0 /\ t > 0
    BY <1>10, TimeAssumption DEF Reset, AfterReset, TypeInv, TypeOK
  <2>2. Spacing' /\ Newest'
    BY <2>1 DEF Spacing, Newest
  <2>3. ASSUME NEW w \in Worker PROVE WorkerOrder(w)'
    BY <1>0, <2>1 DEF WorkerOrder, Gain
  <2> QED
    BY <2>2, <2>3 DEF OrderInv
<1>11. CASE Cancel \/ Tick \/ Ended \/ UNCHANGED vars
  BY <1>7, <1>11 DEF Cancel, Tick, Ended, vars, sharedVars, historyVars
<1> QED
  BY <1>1, <1>2, <1>3, <1>4, <1>5, <1>6, <1>8, <1>9, <1>10, <1>11
  DEF Next, TakeStep

\* The rate is never exceeded: between two Resets, n consecutive send times
\* span at least n - 1 times MinInterval, for every interleaving of workers
\* and rate changes (rate_limiter.go:105-140).
THEOREM SpacingHolds == Spec => []Spacing
<1>1. OrderInv => Spacing
  BY DEF OrderInv
<1> QED
  BY <1>1, InitTypeInv, NextTypeInv, InitOrderInv, NextOrderInv, PTL DEF Spec

\* The counter of skipped requests never counts a request twice
\* (rate_limiter.go:130-143).
THEOREM NotOvercountedHolds == Spec => []NotOvercounted
<1>1. OrderInv => NotOvercounted
  BY DEF OrderInv, Newest, NotOvercounted
<1> QED
  BY <1>1, InitTypeInv, NextTypeInv, InitOrderInv, NextOrderInv, PTL DEF Spec

----------------------------------------------------------------------------
(***************************************************************************)
(* The account of the skipped requests leaves out less than an interval    *)
(* per send.                                                               *)
(***************************************************************************)

LEMMA MaxIntervalBound ==
    ASSUME NEW r \in Rates
    PROVE  MaxInterval \in Nat /\ Interval(r) <= MaxInterval
<1> DEFINE S == {Interval(q) : q \in Rates}
<1>1. \A q \in Rates : Interval(q) \in 0 .. Second
  BY RateAssumption DEF Interval
<1>2. S # {} /\ S \subseteq 0 .. Second /\ Second \in Nat
  BY <1>1, RateAssumption
<1> HIDE DEF S
<1>3. \E i \in S : \A k \in S : i >= k
  BY <1>2, GreatestNumber
<1> USE DEF S
<1>4. \E i \in S : \A q \in Rates : i >= Interval(q)
  BY <1>3
<1>5. MaxInterval \in S /\ \A q \in Rates : MaxInterval >= Interval(q)
  BY <1>4 DEF MaxInterval
<1> QED
  BY <1>1, <1>5

\* The candidate of a worker lies ahead of the value of last it saw by no more
\* than an interval over what the reservation accounts for.
WorkerRounding(w) ==
    pc[w] = "cas" =>
        take[w].next <= (IF take[w].seen < 0 THEN -take[w].seen
                                             ELSE take[w].seen)
                           + Gain(w) + (MaxInterval - 1)

RoundingInv ==
    /\ sends # <<>> => last - base - owed <= Len(sends) * (MaxInterval - 1)
    /\ \A w \in Worker : WorkerRounding(w)

\* A worker gets to its compare-and-swap from LoadCatchup alone, and only the
\* compare-and-swap and Reset change the schedule.
LEMMA ScheduleSteps ==
    ASSUME TypeInv, [Next]_vars
    PROVE  \/ \E w \in Worker : Reserve(w)
           \/ \E t \in StartTime .. now : Reset(t)
           \/ /\ UNCHANGED <<last, base, sends, owed>>
              /\ \A w \in Worker :
                    pc'[w] = "cas" => \/ pc[w] = "cas" /\ take'[w] = take[w]
                                      \/ LoadCatchup(w)
<1> USE DEF TypeInv, TypeOK, Goto
<1>1. ASSUME NEW w \in Worker,
             \/ Call(w) \/ CheckContext(w) \/ LoadRate(w) \/ ReturnUnpaced(w)
             \/ ReadClock(w) \/ JitTimer(w) \/ RetryReserve(w)
             \/ SendTimer(w) \/ ReturnCancelled(w) \/ Leave(w)
      PROVE  /\ UNCHANGED <<last, base, sends, owed>>
             /\ pc'[w] # "cas" /\ OthersKeep(w)
  <2>1. CASE Call(w) \/ CheckContext(w) \/ LoadRate(w) \/ ReturnUnpaced(w)
             \/ ReadClock(w)
    BY <2>1 DEF Call, CheckContext, LoadRate, ReturnUnpaced, ReadClock,
                OthersKeep, sharedVars, historyVars
  <2>2. CASE JitTimer(w) \/ RetryReserve(w) \/ SendTimer(w)
             \/ ReturnCancelled(w) \/ Leave(w)
    BY <2>2 DEF JitTimer, RetryReserve, SendTimer, ReturnCancelled, Leave,
                OthersKeep, sharedVars, historyVars
  <2> QED
    BY <1>1, <2>1, <2>2
<1>2. ASSUME NEW w \in Worker, LoadLast(w)
      PROVE  /\ UNCHANGED <<last, base, sends, owed>>
             /\ pc'[w] # "cas" /\ OthersKeep(w)
  BY <1>2, LoadLastEffect
<1>3. ASSUME NEW w \in Worker, LoadCatchup(w)
      PROVE  UNCHANGED <<last, base, sends, owed>> /\ OthersKeep(w)
  BY <1>3, LoadCatchupEffect
<1>4. ASSUME NEW s \in Setter,
             \/ \E r \in Rates \cup {0}, b \in Bursts : StoreRate(s, r, b)
             \/ StoreCatchup(s)
      PROVE  UNCHANGED <<last, base, sends, owed, pc, take>>
  BY <1>4 DEF StoreRate, StoreCatchup, historyVars
<1>5. CASE Cancel \/ Tick \/ Ended \/ UNCHANGED vars
  BY <1>5 DEF Cancel, Tick, Ended, vars, sharedVars, historyVars
<1> QED
  BY <1>1, <1>2, <1>3, <1>4, <1>5 DEF Next, TakeStep, OthersKeep

LEMMA CatchupRounds ==
    ASSUME TypeInv, OrderInv, NEW w \in Worker, LoadCatchup(w)
    PROVE  WorkerRounding(w)'
<1> DEFINE i == Interval(take[w].rate)
           k == take'[w].skipped
           m == IF take[w].seen < 0 THEN -take[w].seen ELSE take[w].seen
           step == IF take[w].seen < 0 THEN 0 ELSE i
<1>1. /\ take[w].rate \in Rates /\ take[w].skipped = 0
      /\ take[w].next = m + step /\ i \in Nat /\ i > 0 /\ m \in Nat
      /\ i <= MaxInterval /\ MaxInterval \in Nat
  BY LoadCatchupEffect, IntervalBound, FieldTypes, MaxIntervalBound
  DEF OrderInv, WorkerOrder, TypeInv, RateKnown, HoldsRate, NextSend
<1>2. /\ pc'[w] = "cas" /\ take'[w].rate = take[w].rate
      /\ take'[w].seen = take[w].seen
  BY LoadCatchupEffect
<1>3. Gain(w)' = i * k + step
  <2>1. Gain(w)' = Interval(take'[w].rate) * take'[w].skipped
           + (IF take'[w].seen < 0 THEN 0 ELSE Interval(take'[w].rate))
    BY DEF Gain
  <2>2. Interval(take'[w].rate) = i
    BY <1>2
  <2> QED
    BY <1>2, <2>1, <2>2
<1>4. take'[w].next <= m + (i * k + step) + (MaxInterval - 1)
  <2>1. CASE take'[w].next = take[w].next /\ k = take[w].skipped
    <3>1. i * k = 0
      BY <1>1, <2>1
    <3> HIDE DEF i, k
    <3> QED
      BY <1>1, <2>1, <3>1
  <2>2. CASE /\ TooFarBehind(take[w].next, take[w].clock, maxCatchup)
             /\ take'[w].next = take[w].clock - maxCatchup
             /\ k = SkippedRequests(take[w].next, take[w].clock, maxCatchup, i)
    <3> DEFINE lag == take[w].clock - maxCatchup - take[w].next
               p == i * k
    <3>1. lag \in Nat /\ k = lag \div i
      BY <2>2, FieldTypes DEF TooFarBehind, SkippedRequests
    <3>2. lag <= p + i - 1 /\ p \in Nat
      <4> HIDE DEF lag, i, k
      <4>1. lag <= i * (lag \div i) + i - 1 /\ lag \div i \in Nat
        BY <1>1, <3>1, DivRemainder
      <4>2. i * k = i * (lag \div i) /\ k \in Nat
        BY <3>1, <4>1
      <4>3. i * k \in Nat
        BY <1>1, <4>2, TimesNat
      <4> QED
        BY <4>1, <4>2, <4>3
    <3>3. take[w].next = m + step /\ step \in Nat
      BY <1>1
    <3> HIDE DEF p, step, m, i
    <3>4. take'[w].next = lag + (m + step)
      BY <1>1, <2>2, <3>3, FieldTypes
    <3>5. lag <= p + (MaxInterval - 1)
      <4> HIDE DEF lag
      <4> QED
        BY <1>1, <3>1, <3>2
    <3> HIDE DEF lag
    <3>6. lag + (m + step) <= m + (p + step) + (MaxInterval - 1)
      BY <1>1, <3>1, <3>2, <3>3, <3>5
    <3> QED
      BY <3>4, <3>6 DEF p
  <2> QED
    BY <2>1, <2>2, LoadCatchupEffect
<1> QED
  BY <1>2, <1>3, <1>4 DEF WorkerRounding

LEMMA ReserveRounds ==
    ASSUME TypeInv, OrderInv, RoundingInv, NEW w \in Worker, Reserve(w)
    PROVE  last' - base' - owed' <= Len(sends') * (MaxInterval - 1)
<1> DEFINE t == take[w].next
           g == Gain(w)
           k == MaxInterval - 1
<1>1. /\ pc[w] = "cas" /\ base' = base /\ last = take[w].seen /\ last' = t
      /\ sends' = Append(sends, t) /\ owed' = owed + g /\ g \in Nat
  <2> DEFINE p == Interval(take[w].rate) * take[w].skipped
             q == IF take[w].seen < 0 THEN 0 ELSE Interval(take[w].rate)
  <2>1. p \in Nat /\ q \in Nat /\ owed \in Nat
    BY ReserveEffect, IntervalBound, FieldTypes, TimesNat
    DEF TypeInv, RateKnown, HoldsRate
  <2>2. owed' = owed + p + q
    BY ReserveEffect
  <2>3. g = p + q
    BY DEF Gain
  <2> HIDE DEF p, q, g
  <2>4. owed' = owed + g /\ g \in Nat
    BY <2>1, <2>2, <2>3
  <2> QED
    BY <2>4, ReserveEffect
<1>2. k \in Nat
  <2>1. take[w].rate \in Rates
    BY <1>1 DEF TypeInv, RateKnown, HoldsRate
  <2> QED
    BY <2>1, MaxIntervalBound, IntervalBound
<1>3. t <= (IF last < 0 THEN -last ELSE last) + g + k
  BY <1>1 DEF RoundingInv, WorkerRounding
<1> HIDE DEF g, k
<1>4. /\ t \in Nat /\ sends \in Seq(Nat) /\ last \in Int /\ base \in Nat
      /\ owed \in Nat
  BY FieldTypes
<1> HIDE DEF t
<1>5. Len(sends') = Len(sends) + 1 /\ Len(sends) \in Nat
  BY <1>1, <1>4
<1>6. (Len(sends) + 1) * k = Len(sends) * k + k /\ Len(sends) * k \in Nat
  BY <1>2, <1>5, TimesSuccessor, TimesNat
<1>7. last' - base' - owed' <= Len(sends) * k + k
  <2>1. CASE sends = <<>>
    <3>1. last = -base /\ owed = 0 /\ base > 0
      BY <2>1 DEF OrderInv, Newest
    <3> QED
      BY <1>1, <1>2, <1>3, <1>4, <1>6, <3>1
  <2>2. CASE sends # <<>>
    <3>1. last >= 0
      BY <1>4, <2>2 DEF OrderInv, Newest
    <3>2. last - base - owed <= Len(sends) * k
      BY <2>2 DEF RoundingInv, k
    <3> DEFINE p == Len(sends) * k
    <3> HIDE DEF p
    <3>3. last - base - owed <= p /\ p \in Nat
      BY <1>6, <3>2 DEF p
    <3>4. t <= last + g + k
      BY <1>3, <1>4, <3>1
    <3>5. t - base - (owed + g) <= p + k
      <4>1. g \in Nat
        BY <1>1
      <4>2. t \in Int /\ last \in Int /\ base \in Int /\ owed \in Int
        BY <1>4
      <4> QED
        BY <1>2, <3>3, <3>4, <4>1, <4>2
    <3>6. last' - base' - owed' <= p + k
      BY <1>1, <3>5
    <3> QED
      BY <3>6 DEF p
  <2> QED
    BY <2>1, <2>2
<1> QED
  BY <1>5, <1>6, <1>7 DEF k

LEMMA NextRoundingInv ==
    TypeInv /\ OrderInv /\ RoundingInv /\ [Next]_vars => RoundingInv'
<1> SUFFICES ASSUME TypeInv, OrderInv, RoundingInv, [Next]_vars
             PROVE  RoundingInv'
  OBVIOUS
<1>1. ASSUME NEW w \in Worker, Reserve(w) PROVE RoundingInv'
  <2>1. last' - base' - owed' <= Len(sends') * (MaxInterval - 1)
    BY <1>1, ReserveRounds
  <2>2. ASSUME NEW v \in Worker PROVE WorkerRounding(v)'
    <3>1. CASE v = w
      BY <1>1, <3>1, ReserveEffect DEF WorkerRounding
    <3>2. CASE v # w
      BY <1>1, <3>2, ReserveEffect
      DEF RoundingInv, WorkerRounding, OthersKeep, Gain
    <3> QED
      BY <3>1, <3>2
  <2> QED
    BY <2>1, <2>2 DEF RoundingInv
<1>2. ASSUME NEW t \in StartTime .. now, Reset(t) PROVE RoundingInv'
  BY <1>2 DEF Reset, RoundingInv, WorkerRounding, Gain
<1>3. CASE /\ UNCHANGED <<last, base, sends, owed>>
           /\ \A w \in Worker :
                 pc'[w] = "cas" => \/ pc[w] = "cas" /\ take'[w] = take[w]
                                   \/ LoadCatchup(w)
  <2>1. ASSUME NEW w \in Worker PROVE WorkerRounding(w)'
    <3>1. CASE LoadCatchup(w)
      BY <3>1, CatchupRounds
    <3>2. CASE pc[w] = "cas" /\ take'[w] = take[w]
      BY <3>2 DEF RoundingInv, WorkerRounding, Gain
    <3>3. CASE pc'[w] # "cas"
      BY <3>3 DEF WorkerRounding
    <3> QED
      BY <1>3, <3>1, <3>2, <3>3
  <2> QED
    BY <1>3, <2>1 DEF RoundingInv
<1> QED
  BY <1>1, <1>2, <1>3, ScheduleSteps

\* The counter of skipped requests is honest: it counts no request twice, and
\* what it leaves out is less than an interval per send, lost to rounding
\* (rate_limiter.go:130-143).
THEOREM SkippedAccountedHolds == Spec => []SkippedAccounted
<1>1. Init => RoundingInv
  BY DEF Init, RoundingInv, WorkerRounding
<1>2. OrderInv /\ RoundingInv => SkippedAccounted
  BY DEF OrderInv, RoundingInv, Newest, NotOvercounted, SkippedAccounted
<1> QED
  BY <1>1, <1>2, InitTypeInv, NextTypeInv, InitOrderInv, NextOrderInv,
     NextRoundingInv, PTL DEF Spec

----------------------------------------------------------------------------
(***************************************************************************)
(* The burst after a stall, at one rate.                                   *)
(***************************************************************************)

\* Nobody changes the rate or starts the schedule again.
OneRate == Setter = {} /\ MaxResets = 0

\* The sends that fit between the begin of the catch-up window and the newest
\* send time l, when that is not ahead of now.
Window(l, t, c, i) ==
    LET newest == IF l < t THEN l ELSE t
    IN  IF l >= 0 /\ newest >= t - c THEN (newest - (t - c)) \div i + 1 ELSE 0

LEMMA WindowBounds ==
    ASSUME NEW l \in Int, NEW t \in Nat, NEW c \in Nat, NEW i \in Nat, i > 0
    PROVE  Window(l, t, c, i) \in Nat /\ Window(l, t, c, i) <= c \div i + 1
<1> DEFINE newest == IF l < t THEN l ELSE t
           d == newest - (t - c)
<1>1. c \div i \in Nat
  BY DivMonotone
<1>2. CASE l >= 0 /\ newest >= t - c
  <2>1. d \in Nat /\ d <= c
    BY <1>2
  <2> HIDE DEF d
  <2>2. d \div i \in Nat /\ d \div i <= c \div i
    BY <2>1, DivMonotone
  <2>3. Window(l, t, c, i) = d \div i + 1
    BY <1>2 DEF Window, d
  <2> QED
    BY <1>1, <2>2, <2>3
<1>3. CASE ~(l >= 0 /\ newest >= t - c)
  BY <1>1, <1>3 DEF Window
<1> QED
  BY <1>2, <1>3

LEMMA WindowMonotone ==
    ASSUME NEW l \in Int, NEW m \in Int, NEW t \in Nat, NEW c \in Nat,
           NEW i \in Nat, i > 0, l <= m
    PROVE  Window(l, t, c, i) <= Window(m, t, c, i)
<1> DEFINE New(n) == IF n < t THEN n ELSE t
           D(n) == New(n) - (t - c)
<1>1. Window(m, t, c, i) \in Nat
  BY WindowBounds
<1>2. CASE l >= 0 /\ New(l) >= t - c
  <2>1. /\ D(l) \in Nat /\ D(m) \in Nat /\ D(l) <= D(m)
        /\ m >= 0 /\ New(m) >= t - c
    BY <1>2
  <2> DEFINE x == D(l)
             y == D(m)
  <2>2. Window(l, t, c, i) = x \div i + 1 /\ Window(m, t, c, i) = y \div i + 1
    BY <1>2, <2>1 DEF Window
  <2>3. x \in Nat /\ y \in Nat /\ x <= y
    BY <2>1
  <2> HIDE DEF x, y
  <2>4. x \div i \in Nat /\ y \div i \in Nat /\ x \div i <= y \div i
    BY <2>3, DivMonotone
  <2> QED
    BY <2>2, <2>4
<1>3. CASE ~(l >= 0 /\ New(l) >= t - c)
  BY <1>1, <1>3 DEF Window
<1> QED
  BY <1>2, <1>3

\* The send time that follows l, or the begin of the window when it is later.
Following(l, t, c, i) ==
    IF TooFarBehind(NextSend(l, i), t, c) THEN t - c ELSE NextSend(l, i)

LEMMA FollowingFillsWindow ==
    ASSUME NEW l \in Int, NEW t \in Nat, NEW c \in Nat, NEW i \in Nat, i > 0,
           c > 0, Following(l, t, c, i) <= t
    PROVE  Window(Following(l, t, c, i), t, c, i) >= Window(l, t, c, i) + 1
<1> DEFINE m == Following(l, t, c, i)
           n == NextSend(l, i)
           d == m - (t - c)
           before == Window(l, t, c, i)
           after == Window(m, t, c, i)
<1> SUFFICES after >= before + 1
  OBVIOUS
<1>1. n \in Nat /\ (l >= 0 => n = l + i) /\ (TooFarBehind(n, t, c) <=> n < t - c)
  BY DEF NextSend, TooFarBehind
<1>2. /\ m \in Nat /\ m >= t - c /\ m <= t /\ m >= n /\ d \in Nat
      /\ n >= t - c => m = n
  BY <1>1 DEF Following
<1>3. after = d \div i + 1
  <2>1. (IF m < t THEN m ELSE t) = m
    BY <1>2
  <2> HIDE DEF m
  <2> QED
    BY <1>2, <2>1 DEF Window
<1>4. d \div i \in Nat
  <2> HIDE DEF d
  <2> QED
    BY <1>2, DivMonotone
<1>5. CASE l >= 0 /\ l >= t - c
  <2> DEFINE x == l - (t - c)
  <2>1. n >= t - c /\ x \in Nat /\ d = x + i /\ l < t
    BY <1>1, <1>2, <1>5
  <2>2. before = x \div i + 1
    BY <1>5, <2>1 DEF Window
  <2> HIDE DEF x, d
  <2>3. d \div i = x \div i + 1 /\ x \div i \in Nat
    BY <2>1, DivOfNextMultiple, DivMonotone
  <2> HIDE DEF before, after
  <2> QED
    BY <1>3, <2>2, <2>3
<1>6. CASE ~(l >= 0 /\ l >= t - c)
  <2>1. before = 0
    BY <1>6 DEF Window
  <2> DEFINE k == d \div i
  <2>2. k \in Nat /\ after = k + 1
    BY <1>3, <1>4
  <2> HIDE DEF before, after, k
  <2> QED
    BY <2>1, <2>2
<1> QED
  BY <1>5, <1>6

\* Workers that go by a clock value of an earlier instant.
Stale == {w \in Worker : /\ pc[w] \in {"last", "lag", "cas", "sleep"}
                         /\ take[w].clock < now}

\* At the one rate, what a worker has loaded and computed, and that a worker
\* sleeps only until a time later than its clock value.
WorkerBurst(w) ==
    /\ HoldsRate(w) => take[w].rate = rps
    /\ pc[w] = "cas" =>
          take[w].next = Following(take[w].seen, take[w].clock, maxCatchup,
                                   Interval(rps))
    /\ pc[w] = "sleep" => take[w].clock < take[w].next

\* A worker fires once by a clock value of an earlier instant; those that fire
\* by the present one fill the catch-up window.
BurstInv ==
    rps > 0 =>
        /\ maxCatchup > 0
        /\ \A w \in Worker : WorkerBurst(w)
        /\ fired <= Cardinality(Worker \ Stale)
                       + Window(last, now, maxCatchup, Interval(rps))

LEMMA NotStaleIsFinite ==
    ASSUME NEW S
    PROVE  Cardinality(Worker \ S) \in Nat /\ Cardinality(Worker) \in Nat
           /\ Cardinality(Worker \ S) <= Cardinality(Worker)
BY WorkerAssumption, FS_Subset, FS_CardinalityType

\* Fewer stale workers are no fewer others.
LEMMA LessStale ==
    ASSUME NEW S, NEW T, S \subseteq T
    PROVE  Cardinality(Worker \ T) <= Cardinality(Worker \ S)
<1>1. Worker \ T \subseteq Worker \ S /\ IsFiniteSet(Worker \ S)
  BY WorkerAssumption, FS_Subset
<1> QED
  BY <1>1, FS_Subset

LEMMA OneLessStale ==
    ASSUME NEW S, NEW T, S \subseteq T, NEW w \in Worker, w \in T, w \notin S
    PROVE  Cardinality(Worker \ T) + 1 <= Cardinality(Worker \ S)
<1> DEFINE U == Worker \ T
<1>1. IsFiniteSet(U) /\ IsFiniteSet(Worker \ S) /\ w \notin U
      /\ U \cup {w} \subseteq Worker \ S
  BY WorkerAssumption, FS_Subset
<1>2. Cardinality(U \cup {w}) = Cardinality(U) + 1
  BY <1>1, FS_AddElement
<1> QED
  BY <1>1, <1>2, FS_Subset

LEMMA CatchupPositive ==
    ASSUME NEW r \in Rates, NEW b \in Bursts
    PROVE  Catchup(r, b) > 0
<1> DEFINE m == IF b > 1 THEN b ELSE 1
           p == m * Second
<1>1. m \in Nat /\ m >= 1 /\ r \in Nat /\ r > 0 /\ r <= Second /\ Second \in Nat
      /\ b \in Nat
  BY RateAssumption
<1>2. p \in Nat /\ p >= Second
  <2> HIDE DEF m
  <2> QED
    BY <1>1
<1> HIDE DEF p
<1>3. r \div r = 1 /\ r \div r <= p \div r
  <2>1. r <= p
    BY <1>1, <1>2
  <2>2. r \div r <= p \div r
    BY <1>1, <1>2, <2>1, DivMonotone
  <2>3. r \div r = 1
    BY <1>1
  <2> QED
    BY <2>2, <2>3
<1>4. p \div r \in Nat
  BY <1>1, <1>2, DivMonotone
<1> QED
  BY <1>3, <1>4 DEF Catchup, p

LEMMA BurstTypes ==
    ASSUME TypeInv, rps > 0, NEW l \in Int
    PROVE  /\ rps \in Rates /\ Interval(rps) \in Nat /\ Interval(rps) > 0
           /\ now \in Nat /\ maxCatchup \in Nat /\ fired \in Nat
           /\ Window(l, now, maxCatchup, Interval(rps)) \in Nat
<1>1. /\ rps \in Rates /\ now \in Nat /\ maxCatchup \in Nat /\ fired \in Nat
  BY DEF TypeInv, TypeOK
<1>2. Interval(rps) \in Nat /\ Interval(rps) > 0
  BY <1>1, IntervalBound
<1> QED
  BY <1>1, <1>2, WindowBounds

\* A step by which nobody fires preserves the account when nobody gets stale.
LEMMA QuietBurst ==
    ASSUME TypeInv, BurstInv, last' \in Int, last' >= last,
           UNCHANGED <<now, rps, maxCatchup, fired>>,
           rps > 0 => (\A w \in Worker : WorkerBurst(w)') /\ Stale' \subseteq Stale
    PROVE  BurstInv'
<1> SUFFICES ASSUME rps > 0 PROVE BurstInv'
  BY DEF BurstInv
<1> DEFINE before == Window(last, now, maxCatchup, Interval(rps))
           after == Window(last', now, maxCatchup, Interval(rps))
           n == Cardinality(Worker \ Stale)
           m == Cardinality(Worker \ Stale')
<1>1. fired <= n + before /\ fired \in Nat /\ maxCatchup > 0
  BY BurstTypes DEF BurstInv, TypeInv, TypeOK
<1>2. n <= m /\ n \in Nat /\ m \in Nat
  BY LessStale, NotStaleIsFinite
<1>3. before <= after /\ before \in Nat /\ after \in Nat
  <2> DEFINE i == Interval(rps)
  <2>1. /\ last \in Int /\ now \in Nat /\ maxCatchup \in Nat /\ i \in Nat /\ i > 0
    BY BurstTypes DEF TypeInv, TypeOK
  <2> HIDE DEF i
  <2>2. /\ Window(last, now, maxCatchup, i) \in Nat
        /\ Window(last', now, maxCatchup, i) \in Nat
    BY <2>1, WindowBounds
  <2>3. Window(last, now, maxCatchup, i) <= Window(last', now, maxCatchup, i)
    BY <2>1, WindowMonotone
  <2> QED
    BY <2>2, <2>3 DEF i
<1> HIDE DEF before, after, n, m
<1>4. fired <= m + after
  BY <1>1, <1>2, <1>3
<1>5. fired' <= Cardinality(Worker \ Stale')
                   + Window(last', now', maxCatchup', Interval(rps)')
  BY <1>4 DEF after, m, Interval
<1> QED
  BY <1>1, <1>5 DEF BurstInv

\* A step of one worker need only be checked for that worker.
LEMMA OneWorkerBurst ==
    ASSUME BurstInv, rps > 0, NEW w \in Worker, OthersKeep(w),
           UNCHANGED <<now, rps, maxCatchup>>,
           WorkerBurst(w)', w \in Stale' => w \in Stale
    PROVE  (\A v \in Worker : WorkerBurst(v)') /\ Stale' \subseteq Stale
<1>1. ASSUME NEW v \in Worker \ {w}
      PROVE  WorkerBurst(v)' /\ (v \in Stale' => v \in Stale)
  BY <1>1 DEF BurstInv, WorkerBurst, OthersKeep, Stale, HoldsRate, Interval,
              Following
<1> QED
  BY <1>1 DEF Stale

\* Each request fired by a stale clock value makes one worker less stale; each
\* request fired by the present one takes a place in the window.
LEMMA ReserveBurst ==
    ASSUME TypeInv, OrderInv, TimeInv, BurstInv, NEW w \in Worker, Reserve(w)
    PROVE  BurstInv'
<1> SUFFICES ASSUME rps > 0 PROVE BurstInv'
  BY DEF BurstInv, Reserve
<1> DEFINE t == take[w]
           i == Interval(rps)
           before == Window(last, now, maxCatchup, i)
           after == Window(t.next, now, maxCatchup, i)
           n == Cardinality(Worker \ Stale)
           m == Cardinality(Worker \ Stale')
<1>1. /\ pc[w] = "cas" /\ OthersKeep(w) /\ last = t.seen /\ last' = t.next
      /\ take'[w].next = t.next /\ take'[w].clock = t.clock
      /\ UNCHANGED <<now, rps, maxCatchup>>
      /\ \/ pc'[w] = "sleep" /\ t.next > t.clock /\ fired' = fired
         \/ pc'[w] = "returned" /\ t.next <= t.clock /\ fired' = fired + 1
  <2>1. pc \in [Worker -> PC] /\ take[w].next \in Nat /\ take[w].clock \in Nat
    BY FieldTypes DEF TypeInv, TypeOK
  <2> QED
    BY <2>1, ReserveEffect DEF Reserve, SendIsAhead, Goto
<1>2. /\ t.next \in Nat /\ t.clock \in Nat /\ t.clock <= now /\ last \in Int
      /\ t.next >= last
  <2> DEFINE g == Gain(w)
  <2>1. t.next >= (IF last < 0 THEN -last ELSE last) + g
    BY <1>1 DEF OrderInv, WorkerOrder
  <2>2. g \in Nat
    <3> DEFINE p == Interval(t.rate) * t.skipped
               q == IF t.seen < 0 THEN 0 ELSE Interval(t.rate)
    <3>1. t.rate \in Rates
      BY <1>1 DEF TypeInv, RateKnown, HoldsRate
    <3>2. p \in Nat /\ q \in Nat
      BY <3>1, IntervalBound, FieldTypes, TimesNat
    <3>3. g = p + q
      BY DEF Gain
    <3> HIDE DEF p, q, g
    <3> QED
      BY <3>2, <3>3
  <2>3. t.clock <= now
    BY <1>1 DEF TimeInv, WorkerTime
  <2> HIDE DEF g
  <2> QED
    BY <2>1, <2>2, <2>3, FieldTypes
<1>3. /\ fired <= n + before /\ maxCatchup > 0 /\ WorkerBurst(w)
      /\ fired \in Nat /\ before \in Nat /\ after \in Nat /\ before <= after
      /\ n \in Nat /\ m \in Nat
  <2>1. /\ now \in Nat /\ maxCatchup \in Nat /\ i \in Nat /\ i > 0 /\ fired \in Nat
    BY BurstTypes DEF TypeInv, TypeOK
  <2>2. fired <= n + before /\ maxCatchup > 0 /\ WorkerBurst(w)
    BY DEF BurstInv
  <2>3. n \in Nat /\ m \in Nat
    BY NotStaleIsFinite
  <2> HIDE DEF i, n, m
  <2> DEFINE x == t.next
  <2>4. x \in Int /\ last <= x /\ last \in Int
    BY <1>2
  <2> HIDE DEF x
  <2>5. before \in Nat /\ Window(x, now, maxCatchup, i) \in Nat
    BY <2>1, <2>4, WindowBounds
  <2>6. before <= Window(x, now, maxCatchup, i)
    BY <2>1, <2>4, WindowMonotone
  <2>7. after = Window(x, now, maxCatchup, i)
    BY DEF x
  <2> HIDE DEF before, after
  <2> QED
    BY <2>1, <2>2, <2>3, <2>5, <2>6, <2>7
<1>4. WorkerBurst(w)'
  <2>1. HoldsRate(w)' => take'[w].rate = take[w].rate
    <3>1. take \in [Worker -> Locals]
      BY DEF TypeInv, TypeOK
    <3>2. CASE t.next > t.clock
      BY <3>1, <3>2 DEF Reserve, SendIsAhead, Locals
    <3>3. CASE ~(t.next > t.clock)
      BY <3>1, <3>3 DEF Reserve, SendIsAhead
    <3> QED
      BY <3>2, <3>3
  <2> QED
    BY <1>1, <1>3, <2>1 DEF WorkerBurst, HoldsRate
<1>5. w \in Stale' => w \in Stale
  BY <1>1 DEF Stale
<1>6. (\A v \in Worker : WorkerBurst(v)') /\ Stale' \subseteq Stale
  BY <1>1, <1>4, <1>5, OneWorkerBurst
<1>7. CASE pc'[w] = "sleep"
  <2>1. UNCHANGED <<now, rps, maxCatchup, fired>> /\ last' >= last /\ last' \in Int
    BY <1>1, <1>2, <1>7
  <2> QED
    BY <1>6, <2>1, QuietBurst
<1>8. CASE pc'[w] = "returned"
  <2>1. fired' = fired + 1 /\ t.next <= t.clock /\ w \notin Stale'
    BY <1>1, <1>8 DEF Stale
  <2>2. n <= m
    BY <1>6, LessStale
  <2>3. ASSUME t.clock < now PROVE fired' <= m + after
    <3>1. w \in Stale
      BY <1>1, <2>3 DEF Stale
    <3>2. n + 1 <= m
      BY <1>6, <2>1, <3>1, OneLessStale
    <3> HIDE DEF before, after, n, m
    <3> QED
      BY <1>3, <2>1, <3>2
  <2>4. ASSUME t.clock = now PROVE fired' <= m + after
    <3>1. t.next = Following(last, now, maxCatchup, i)
      BY <1>1, <1>3, <2>4 DEF WorkerBurst
    <3>2. after >= before + 1
      BY <1>2, <1>3, <2>1, <2>4, <3>1, BurstTypes, FollowingFillsWindow
    <3> HIDE DEF before, after, n, m
    <3> QED
      BY <1>3, <2>1, <2>2, <3>2
  <2>5. fired' <= m + after
    BY <1>2, <2>3, <2>4, FieldTypes
  <2>6. fired' <= Cardinality(Worker \ Stale')
                     + Window(last', now', maxCatchup', Interval(rps)')
    BY <1>1, <2>5 DEF Interval
  <2> QED
    BY <1>1, <1>3, <1>6, <2>6 DEF BurstInv
<1> QED
  BY <1>1, <1>7, <1>8

LEMMA InitBurstInv == Init => BurstInv
<1> SUFFICES ASSUME Init, rps > 0 PROVE BurstInv
  BY DEF BurstInv
<1>1. /\ fired = 0 /\ pc = [w \in Worker |-> "idle"] /\ last \in Int
      /\ TypeInv
  BY InitTypeInv, FieldTypes DEF Init
<1>2. maxCatchup > 0
  BY CatchupPositive DEF Init
<1>3. \A w \in Worker : WorkerBurst(w)
  BY <1>1 DEF WorkerBurst, HoldsRate
<1> DEFINE n == Cardinality(Worker \ Stale)
           k == Window(last, now, maxCatchup, Interval(rps))
<1>4. n \in Nat /\ k \in Nat
  BY <1>1, NotStaleIsFinite, BurstTypes
<1>5. 0 <= n + k
  <2> HIDE DEF n, k
  <2> QED
    BY <1>4
<1> QED
  BY <1>1, <1>2, <1>3, <1>5 DEF BurstInv

LEMMA NextBurstInv ==
    ASSUME OneRate, TypeInv, TypeInv', TimeInv, OrderInv, BurstInv, [Next]_vars
    PROVE  BurstInv'
<1> SUFFICES ASSUME rps > 0, UNCHANGED rps PROVE BurstInv'
  <2>1. UNCHANGED rps
    BY DEF OneRate, Next, TakeStep, Call, CheckContext, LoadRate, ReturnUnpaced,
           ReadClock, LoadLast, JitTimer, LoadCatchup, Reserve, RetryReserve,
           SendTimer, ReturnCancelled, Leave, Reset, Cancel, Tick, Ended, vars,
           sharedVars
  <2> QED
    BY <2>1 DEF BurstInv
<1>0. /\ take \in [Worker -> Locals] /\ pc \in [Worker -> PC] /\ last \in Int
      /\ rps \in Nat
      /\ \A w \in Worker : WorkerBurst(w)
  <2>1. /\ take \in [Worker -> Locals] /\ pc \in [Worker -> PC] /\ last \in Int
        /\ rps \in Rates \cup {0}
    BY DEF TypeInv, TypeOK
  <2>2. rps \in Nat
    BY <2>1, RateAssumption
  <2>3. \A w \in Worker : WorkerBurst(w)
    BY DEF BurstInv
  <2> QED
    BY <2>1, <2>2, <2>3
<1>q. ASSUME NEW w \in Worker, OthersKeep(w),
             UNCHANGED <<now, last, maxCatchup, fired>>,
             WorkerBurst(w)', w \in Stale' => w \in Stale
      PROVE  BurstInv'
  <2>1. (\A v \in Worker : WorkerBurst(v)') /\ Stale' \subseteq Stale
    BY <1>q, OneWorkerBurst
  <2>2. last' \in Int /\ last' >= last
    BY <1>0, <1>q
  <2> QED
    BY <1>q, <2>1, <2>2, QuietBurst
<1>1. ASSUME NEW w \in Worker,
             \/ Call(w) \/ CheckContext(w) \/ ReturnUnpaced(w) \/ JitTimer(w)
             \/ RetryReserve(w) \/ ReturnCancelled(w) \/ Leave(w)
      PROVE  BurstInv'
  <2>1. /\ OthersKeep(w) /\ UNCHANGED <<now, last, maxCatchup, fired>>
        /\ pc'[w] \in {"check", "rate", "returned", "cancelled", "idle"}
    BY <1>0, <1>1 DEF Call, CheckContext, ReturnUnpaced, JitTimer, RetryReserve,
                      ReturnCancelled, Leave, OthersKeep, Goto, sharedVars,
                      historyVars
  <2>2. WorkerBurst(w)' /\ w \notin Stale'
    BY <2>1 DEF WorkerBurst, HoldsRate, Stale
  <2> QED
    BY <1>q, <2>1, <2>2
<1>2. ASSUME NEW w \in Worker, LoadRate(w) PROVE BurstInv'
  <2>1. /\ OthersKeep(w) /\ UNCHANGED <<now, last, maxCatchup, fired>>
        /\ pc'[w] = "clock" /\ take'[w].rate = rps
    BY <1>0, <1>2 DEF LoadRate, OthersKeep, Goto, sharedVars, historyVars, Locals
  <2>2. WorkerBurst(w)' /\ w \notin Stale'
    BY <2>1 DEF WorkerBurst, HoldsRate, Stale
  <2> QED
    BY <1>q, <2>1, <2>2
<1>3. ASSUME NEW w \in Worker, ReadClock(w) PROVE BurstInv'
  <2>1. /\ OthersKeep(w) /\ UNCHANGED <<now, last, maxCatchup, fired>>
        /\ pc[w] = "clock" /\ pc'[w] = "last"
        /\ take'[w].rate = take[w].rate /\ take'[w].clock = now
    BY <1>0, <1>3 DEF ReadClock, OthersKeep, Goto, sharedVars, historyVars, Locals
  <2>2. now \in Nat
    BY FieldTypes
  <2>3. WorkerBurst(w)' /\ w \notin Stale'
    BY <1>0, <2>1, <2>2 DEF WorkerBurst, HoldsRate, Stale
  <2> QED
    BY <1>q, <2>1, <2>3
<1>4. ASSUME NEW w \in Worker, LoadLast(w) PROVE BurstInv'
  <2>1. /\ OthersKeep(w) /\ UNCHANGED <<now, last, maxCatchup, fired>>
        /\ pc[w] = "last"
        /\ \/ pc'[w] = "jit"
           \/ /\ pc'[w] = "lag" /\ take'[w].rate = take[w].rate
              /\ take'[w].clock = take[w].clock
    BY <1>4, LoadLastEffect DEF LoadLast, sharedVars, historyVars
  <2>2. WorkerBurst(w)' /\ (w \in Stale' => w \in Stale)
    BY <1>0, <2>1 DEF WorkerBurst, HoldsRate, Stale
  <2> QED
    BY <1>q, <2>1, <2>2
<1>5. ASSUME NEW w \in Worker, LoadCatchup(w) PROVE BurstInv'
  <2>1. /\ OthersKeep(w) /\ UNCHANGED <<now, last, maxCatchup, fired>>
        /\ pc[w] = "lag" /\ pc'[w] = "cas"
        /\ take'[w].rate = take[w].rate /\ take'[w].clock = take[w].clock
        /\ take'[w].seen = take[w].seen
    BY <1>5, LoadCatchupEffect DEF LoadCatchup, sharedVars, historyVars
  <2>2. /\ take[w].rate = rps
        /\ take[w].next = NextSend(take[w].seen, Interval(rps))
    BY <1>0, <2>1 DEF WorkerBurst, HoldsRate, OrderInv, WorkerOrder
  <2>3. take'[w].next = Following(take[w].seen, take[w].clock, maxCatchup,
                                  Interval(rps))
    BY <1>5, <2>2, LoadCatchupEffect DEF Following
  <2>4. WorkerBurst(w)' /\ (w \in Stale' => w \in Stale)
    BY <2>1, <2>2, <2>3 DEF WorkerBurst, HoldsRate, Stale, Interval, Following
  <2> QED
    BY <1>q, <2>1, <2>4
<1>6. ASSUME NEW w \in Worker, SendTimer(w) PROVE BurstInv'
  <2> DEFINE n == Cardinality(Worker \ Stale)
             m == Cardinality(Worker \ Stale')
             k == Window(last, now, maxCatchup, Interval(rps))
  <2>1. /\ OthersKeep(w) /\ UNCHANGED <<now, last, maxCatchup>>
        /\ pc[w] = "sleep" /\ pc'[w] = "returned" /\ fired' = fired + 1
        /\ now >= take[w].wake
    BY <1>0, <1>6 DEF SendTimer, TimerFired, OthersKeep, Goto, sharedVars
  <2>2. w \in Stale
    <3>1. take[w].clock < take[w].next /\ take[w].next <= take[w].wake
      BY <1>0, <2>1 DEF WorkerBurst, TimeInv, WorkerTime
    <3> QED
      BY <2>1, <3>1, FieldTypes DEF Stale
  <2>3. WorkerBurst(w)' /\ w \notin Stale'
    BY <2>1 DEF WorkerBurst, HoldsRate, Stale
  <2>4. (\A v \in Worker : WorkerBurst(v)') /\ Stale' \subseteq Stale
    BY <2>1, <2>3, OneWorkerBurst
  <2>5. n + 1 <= m /\ n \in Nat /\ m \in Nat
    BY <2>2, <2>3, <2>4, OneLessStale, NotStaleIsFinite
  <2>6. fired <= n + k /\ fired \in Nat /\ k \in Nat /\ maxCatchup > 0
    BY <1>0, BurstTypes DEF BurstInv
  <2> HIDE DEF n, m, k
  <2>7. fired' <= m + k
    BY <2>1, <2>5, <2>6
  <2>8. fired' <= Cardinality(Worker \ Stale')
                     + Window(last', now', maxCatchup', Interval(rps)')
    BY <2>1, <2>7 DEF m, k, Interval
  <2> QED
    BY <2>1, <2>4, <2>6, <2>8 DEF BurstInv
<1>7. CASE Tick
  <2>1. /\ UNCHANGED <<last, maxCatchup, pc, take>> /\ fired' = 0
        /\ maxCatchup > 0
    BY <1>7 DEF Tick, sharedVars, BurstInv
  <2>2. \A w \in Worker : WorkerBurst(w)'
    BY <1>0, <2>1 DEF WorkerBurst, HoldsRate, Interval, Following
  <2> DEFINE n == Cardinality(Worker \ Stale')
             k == Window(last, now', maxCatchup, Interval(rps))
  <2>3. n \in Nat /\ k \in Nat
    <3>1. now' \in Nat /\ last \in Int /\ maxCatchup \in Nat
      BY <1>7 DEF Tick, TypeInv, TypeOK
    <3>2. Interval(rps) \in Nat /\ Interval(rps) > 0
      BY <1>0, BurstTypes
    <3> QED
      BY <3>1, <3>2, NotStaleIsFinite, WindowBounds
  <2>4. 0 <= n + k
    <3> HIDE DEF n, k
    <3> QED
      BY <2>3
  <2>5. fired' <= Cardinality(Worker \ Stale')
                     + Window(last', now', maxCatchup', Interval(rps)')
    BY <2>1, <2>4 DEF Interval
  <2> QED
    BY <2>1, <2>2, <2>5 DEF BurstInv
<1>8. ASSUME UNCHANGED <<now, last, maxCatchup, fired, pc, take>>
      PROVE  BurstInv'
  <2>1. (\A w \in Worker : WorkerBurst(w)') /\ Stale' = Stale
    BY <1>0, <1>8 DEF WorkerBurst, HoldsRate, Interval, Following, Stale
  <2> QED
    BY <1>0, <1>8, <2>1, QuietBurst
<1>9. CASE Cancel \/ Ended \/ UNCHANGED vars
  BY <1>8, <1>9 DEF Cancel, Ended, vars, sharedVars, historyVars
<1>10. ASSUME NEW t \in StartTime .. now, Reset(t) PROVE FALSE
  BY <1>10 DEF Reset, OneRate, TypeInv, TypeOK
<1> QED
  BY <1>1, <1>2, <1>3, <1>4, <1>5, <1>6, <1>7, <1>9, <1>10, ReserveBurst
  DEF Next, TakeStep, OneRate

\* A stall ends in a bounded burst: as long as nobody changes the rate or
\* resets the schedule, the requests fired at one instant are those of the
\* catch-up window, the one due now, and at most one per worker with an older
\* clock value (rate_limiter.go:46-51, 130-135).
THEOREM BurstBoundHolds == OneRate => (Spec => []BurstBound)
<1>1. TypeInv /\ BurstInv => BurstBound
  <2> SUFFICES ASSUME TypeInv, BurstInv, rps > 0
               PROVE  fired <= maxCatchup \div Interval(rps) + 1
                                   + Cardinality(Worker)
    BY DEF BurstBound
  <2> DEFINE i == Interval(rps)
             n == Cardinality(Worker \ Stale)
             m == Cardinality(Worker)
             k == Window(last, now, maxCatchup, i)
             c == maxCatchup \div i
  <2>1. /\ last \in Int /\ now \in Nat /\ maxCatchup \in Nat /\ i \in Nat /\ i > 0
        /\ fired \in Nat
    BY BurstTypes DEF TypeInv, TypeOK
  <2>2. k \in Nat /\ k <= c + 1 /\ c \in Nat
    <3> HIDE DEF i
    <3>1. k \in Nat /\ k <= c + 1
      BY <2>1, WindowBounds
    <3>2. c \in Nat
      BY <2>1, DivMonotone
    <3> QED
      BY <3>1, <3>2
  <2>3. n \in Nat /\ m \in Nat /\ n <= m
    BY NotStaleIsFinite
  <2>4. fired <= n + k
    BY DEF BurstInv
  <2> HIDE DEF n, m, k, c
  <2>5. fired <= c + 1 + m
    BY <2>1, <2>2, <2>3, <2>4
  <2> QED
    BY <2>5 DEF c, m
<1> SUFFICES ASSUME OneRate PROVE Spec => []BurstBound
  OBVIOUS
<1>2. TypeInv /\ TypeInv' /\ TimeInv /\ OrderInv /\ BurstInv /\ [Next]_vars
          => BurstInv'
  BY NextBurstInv
<1> QED
  BY <1>1, <1>2, InitTypeInv, NextTypeInv, InitTimeInv, NextTimeInv,
     InitOrderInv, NextOrderInv, InitBurstInv, PTL DEF Spec

----------------------------------------------------------------------------
(* The refinement of PacedSends: it rests on the invariants above. *)

PacedInv == TypeInv /\ TimeInv /\ OrderInv

Earliest == NextSend(last, MinInterval)

\* The functions that the mapping gives agree when every worker holds the same.
LEMMA SameHeld ==
    ASSUME \A w \in Worker : Held(w)' = Held(w)
    PROVE  [w \in Worker |-> Held(w)]' = [w \in Worker |-> Held(w)]
OBVIOUS

\* A step of one worker changes at most what that worker holds.
LEMMA OneWorkerHeld ==
    ASSUME NEW w \in Worker, OthersKeep(w)
    PROVE  [v \in Worker |-> Held(v)]'
               = [[v \in Worker |-> Held(v)] EXCEPT ![w] = Held(w)']
<1>1. ASSUME NEW v \in Worker \ {w} PROVE Held(v)' = Held(v)
  BY DEF Held, OthersKeep
<1> DEFINE h == [v \in Worker |-> Held(v)]
<1>2. h' = [v \in Worker |-> Held(v)']
  OBVIOUS
<1>3. ASSUME NEW v \in Worker PROVE h'[v] = [h EXCEPT ![w] = Held(w)'][v]
  BY <1>1, <1>2
<1>4. [h EXCEPT ![w] = Held(w)'] = [v \in Worker |-> IF v = w THEN Held(w)' ELSE h[v]]
  OBVIOUS
<1> QED
  BY <1>1, <1>2, <1>4

\* The steps of Take that neither reserve a send time nor leave Take.
QuietStep(w) ==
    \/ Call(w) \/ CheckContext(w) \/ LoadRate(w) \/ ReturnUnpaced(w)
    \/ ReadClock(w) \/ LoadLast(w) \/ JitTimer(w) \/ LoadCatchup(w)
    \/ RetryReserve(w) \/ SendTimer(w)

\* A quiet step changes nothing that PacedSends speaks of.
LEMMA QuietStepStutters ==
    ASSUME PacedInv, NEW w \in Worker, QuietStep(w)
    PROVE  UNCHANGED Paced!vars
<1> USE DEF PacedInv
<1>1. take \in [Worker -> Locals] /\ pc \in [Worker -> PC]
  BY DEF TypeInv, TypeOK
<1>2. UNCHANGED <<now, last, done>>
  BY DEF QuietStep, Call, CheckContext, LoadRate, ReturnUnpaced, ReadClock,
         LoadLast, JitTimer, LoadCatchup, RetryReserve, SendTimer, sharedVars
<1>3. OthersKeep(w) /\ Held(w)' = Held(w)
  <2>1. CASE Call(w) \/ CheckContext(w)
    BY <1>1, <2>1 DEF Call, CheckContext, OthersKeep, Held, Goto
  <2>2. CASE LoadRate(w) \/ ReadClock(w)
    BY <1>1, <2>2 DEF LoadRate, ReadClock, OthersKeep, Held, Goto
  <2>3. CASE ReturnUnpaced(w)
    BY <1>1, <2>3 DEF ReturnUnpaced, OthersKeep, Held, Goto, NoLocals
  <2>4. CASE LoadLast(w)
    BY <2>4, LoadLastEffect DEF Held
  <2>5. CASE JitTimer(w) \/ RetryReserve(w)
    BY <1>1, <2>5 DEF JitTimer, RetryReserve, OthersKeep, Held, Goto
  <2>6. CASE LoadCatchup(w)
    BY <2>6, LoadCatchupEffect DEF Held
  <2>7. CASE SendTimer(w)
    BY <1>1, <2>7 DEF SendTimer, OthersKeep, Held, Goto
  <2> QED
    BY <2>1, <2>2, <2>3, <2>4, <2>5, <2>6, <2>7 DEF QuietStep
<1>4. \A v \in Worker : Held(v)' = Held(v)
  BY <1>3 DEF OthersKeep, Held
<1> QED
  BY <1>2, <1>4, SameHeld DEF Paced!vars

\* A reservation grants a send time.
LEMMA ReserveGrants ==
    ASSUME PacedInv, NEW w \in Worker, Reserve(w)
    PROVE  Paced!Grant(w)
<1> USE DEF PacedInv
<1> DEFINE t == take[w].next
<1>1. /\ pc[w] = "cas" /\ OthersKeep(w) /\ UNCHANGED <<now, done>>
      /\ last = take[w].seen /\ last' = t /\ take'[w].next = t
      /\ pc'[w] \in {"sleep", "returned"}
  BY ReserveEffect DEF Reserve
<1>2. Held(w) = 0 /\ Held(w)' = t
  BY <1>1 DEF Held
<1>3. /\ t \in Nat /\ now \in Nat /\ last \in Int /\ JitLookahead \in Nat
      /\ MinInterval \in Nat
  BY FieldTypes, TimeAssumption, RateAssumption
<1>4. t <= now + JitLookahead
  <2>1. take[w].clock <= now /\ t <= take[w].clock + JitLookahead
    BY <1>1 DEF TimeInv, WorkerTime
  <2> QED
    BY <1>3, <2>1, FieldTypes
<1>5. t >= Earliest
  <2> DEFINE g == Gain(w)
             i == Interval(take[w].rate)
             p == i * take[w].skipped
  <2>1. t >= (IF last < 0 THEN -last ELSE last) + g
    BY <1>1 DEF OrderInv, WorkerOrder
  <2>2. take[w].rate \in Rates
    BY <1>1 DEF TypeInv, RateKnown, HoldsRate
  <2>3. i \in Nat /\ i >= MinInterval /\ p \in Nat
    BY <2>2, IntervalBound, FieldTypes, TimesNat
  <2>4. g = p + (IF last < 0 THEN 0 ELSE i)
    BY <1>1 DEF Gain
  <2> HIDE DEF g, i, p
  <2>5. g >= (IF last < 0 THEN 0 ELSE MinInterval) /\ g \in Nat
    BY <1>3, <2>3, <2>4
  <2> HIDE DEF t
  <2> QED
    BY <1>3, <2>1, <2>5 DEF Earliest, NextSend
<1>6. Earliest' = t + MinInterval
  BY <1>1, <1>3 DEF Earliest, NextSend
<1>7. Earliest \in Int /\ t \in Earliest .. now + JitLookahead
  BY <1>3, <1>4, <1>5 DEF Earliest, NextSend
<1> HIDE DEF t
<1> DEFINE h == [v \in Worker |-> Held(v)]
<1>8. h[w] = 0 /\ h' = [h EXCEPT ![w] = t]
  BY <1>1, <1>2, OneWorkerHeld
<1> QED
  BY <1>1, <1>6, <1>7, <1>8 DEF Paced!Grant, Paced!NoGrant, Earliest

\* A worker that leaves Take sends the request it holds a send time for.
LEMMA LeaveSends ==
    ASSUME PacedInv, NEW w \in Worker, Leave(w)
    PROVE  Paced!Send(w) \/ UNCHANGED Paced!vars
<1> USE DEF PacedInv
<1>1. /\ pc[w] = "returned" /\ OthersKeep(w) /\ UNCHANGED <<now, last, done>>
      /\ pc'[w] = "idle"
  BY DEF Leave, TypeInv, TypeOK, OthersKeep, Goto, sharedVars
<1>2. Held(w) = take[w].next /\ Held(w)' = 0 /\ Held(w) <= now
  BY <1>1 DEF Held, TimeInv, WorkerTime
<1> DEFINE h == [v \in Worker |-> Held(v)]
<1>3. h' = [h EXCEPT ![w] = 0] /\ h[w] = Held(w)
  BY <1>1, <1>2, OneWorkerHeld
<1>4. CASE Held(w) = 0
  <2>1. h' = h
    BY <1>3, <1>4
  <2> QED
    BY <1>1, <2>1 DEF Paced!vars
<1>5. CASE Held(w) # 0
  BY <1>1, <1>2, <1>3, <1>5 DEF Paced!Send, Paced!NoGrant
<1> QED
  BY <1>4, <1>5

\* A worker that notices the cancellation gives up its send time, if it has one.
LEMMA CancelGivesUp ==
    ASSUME PacedInv, NEW w \in Worker, ReturnCancelled(w)
    PROVE  Paced!GiveUp(w) \/ UNCHANGED Paced!vars
<1> USE DEF PacedInv
<1>1. /\ OthersKeep(w) /\ UNCHANGED <<now, last, done>> /\ done
      /\ pc'[w] = "cancelled"
  BY DEF ReturnCancelled, TypeInv, TypeOK, OthersKeep, Goto, sharedVars
<1>2. Held(w)' = 0
  BY <1>1 DEF Held
<1> DEFINE h == [v \in Worker |-> Held(v)]
<1>3. h' = [h EXCEPT ![w] = 0] /\ h[w] = Held(w)
  BY <1>1, <1>2, OneWorkerHeld
<1>4. CASE Held(w) = 0
  <2>1. h' = h
    BY <1>3, <1>4
  <2> QED
    BY <1>1, <2>1 DEF Paced!vars
<1>5. CASE Held(w) # 0
  BY <1>1, <1>3, <1>5 DEF Paced!GiveUp, Paced!NoGrant
<1> QED
  BY <1>4, <1>5

\* Every step of the scheduler is a step of PacedSends, or changes nothing there.
LEMMA StepRefines == PacedInv /\ [Next]_vars => [Paced!Next]_(Paced!vars)
<1> SUFFICES ASSUME PacedInv, [Next]_vars
             PROVE  Paced!Next \/ UNCHANGED Paced!vars
  OBVIOUS
<1>1. ASSUME NEW w \in Worker, QuietStep(w) PROVE UNCHANGED Paced!vars
  BY <1>1, QuietStepStutters
<1>2. ASSUME NEW w \in Worker, Reserve(w) PROVE Paced!Next
  BY <1>2, ReserveGrants DEF Paced!Next
<1>3. ASSUME NEW w \in Worker, Leave(w)
      PROVE  Paced!Next \/ UNCHANGED Paced!vars
  BY <1>3, LeaveSends DEF Paced!Next
<1>4. ASSUME NEW w \in Worker, ReturnCancelled(w)
      PROVE  Paced!Next \/ UNCHANGED Paced!vars
  BY <1>4, CancelGivesUp DEF Paced!Next
<1>5. ASSUME UNCHANGED <<now, last, pc, take, done>>
      PROVE  UNCHANGED Paced!vars
  BY <1>5, SameHeld DEF Paced!vars, Held
<1>6. ASSUME NEW s \in Setter, NEW r \in Rates \cup {0}, NEW b \in Bursts,
             StoreRate(s, r, b)
      PROVE  UNCHANGED Paced!vars
  BY <1>5, <1>6 DEF StoreRate
<1>7. ASSUME NEW s \in Setter, StoreCatchup(s) PROVE UNCHANGED Paced!vars
  BY <1>5, <1>7 DEF StoreCatchup
<1>8. ASSUME NEW t \in StartTime .. now, Reset(t) PROVE Paced!Next
  <2>1. t > 0 /\ t \in 0 .. now /\ last' = -t /\ UNCHANGED <<now, pc, take, done>>
    BY <1>8, TimeAssumption DEF Reset, AfterReset, PacedInv, TypeInv, TypeOK
  <2>2. Earliest' = t
    BY <2>1 DEF Earliest, NextSend
  <2>3. UNCHANGED [w \in Worker |-> Held(w)]
    BY <2>1, SameHeld DEF Held
  <2> QED
    BY <2>1, <2>2, <2>3 DEF Paced!Next, Paced!Restart, Earliest
<1>9. CASE Cancel
  <2>1. UNCHANGED [w \in Worker |-> Held(w)]
    BY <1>9, SameHeld DEF Cancel, Held
  <2> QED
    BY <1>9, <2>1 DEF Cancel, Paced!Next, Paced!Cancel, sharedVars
<1>10. CASE Tick
  <2>1. UNCHANGED [w \in Worker |-> Held(w)]
    BY <1>10, SameHeld DEF Tick, Held
  <2> QED
    BY <1>10, <2>1 DEF Tick, Paced!Next, Paced!Tick, sharedVars
<1>11. CASE Ended \/ UNCHANGED vars
  BY <1>5, <1>11 DEF Ended, vars
<1> QED
  BY <1>1, <1>2, <1>3, <1>4, <1>6, <1>7, <1>8, <1>9, <1>10, <1>11
  DEF Next, TakeStep, QuietStep

\* The scheduler starts as PacedSends does.
LEMMA InitRefines == Init => Paced!Init
<1> SUFFICES ASSUME Init PROVE Paced!Init
  OBVIOUS
<1>1. now \in Nat /\ Earliest = now
  BY TimeAssumption DEF Init, Earliest, NextSend
<1>2. [w \in Worker |-> Held(w)] = [w \in Worker |-> 0]
  BY DEF Init, Held
<1> QED
  BY <1>1, <1>2 DEF Paced!Init, Paced!NoGrant, Earliest, Init

\* The scheduler implements PacedSends: whatever workers, rate changes, Resets
\* and the clock do, reservations are spaced and near, a send time is used only
\* when it has come, and only a cancelled context loses one
\* (rate_limiter.go:33-37, 97-157).
THEOREM SendsArePacedHolds == Spec => SendsArePaced
<1>2. PacedInv /\ [Next]_vars => PacedInv'
  BY NextTypeInv, NextTimeInv, NextOrderInv DEF PacedInv
<1>3. Init => PacedInv
  BY InitTypeInv, InitTimeInv, InitOrderInv DEF PacedInv
<1> QED
  BY <1>2, <1>3, InitRefines, StepRefines, PTL DEF Spec, SendsArePaced, Paced!Spec

=============================================================================
