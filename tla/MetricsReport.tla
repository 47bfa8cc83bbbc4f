----------------------------- MODULE MetricsReport -----------------------------
(***************************************************************************)
(* A subcommand of src/cmd/echoclient/main.go with its three goroutines:   *)
(* main, the periodic dump and the dump on a signal.  Each one dumps the   *)
(* metrics with src/metrics/formatter.go, whose rates are computed from    *)
(* two unsynchronised package variables.                                   *)
(*                                                                         *)
(* One counter, worker_calls_total, stands for the three that get a rate.  *)
(* Calls are those of the worker pool, which runGet and runUpload wait     *)
(* for.  The clock is in ticks of the unit time.Now tells apart.           *)
(***************************************************************************)
EXTENDS Integers

CONSTANTS
    Main, Ticker, Signal,  \* the goroutines
    TickPeriod,            \* of the periodic dump
    MaxTime,               \* bound: the clock stops here
    MaxCalls               \* bound: calls

Dumper == {Main, Ticker, Signal}

ASSUME ReportAssumption ==
    /\ Main # Ticker /\ Main # Signal /\ Ticker # Signal
    /\ TickPeriod \in Nat \ {0} /\ MaxTime \in Nat /\ MaxCalls \in Nat

VARIABLES
    clock,
    calls,        \* worker_calls_total
    prevValue,    \* prevMetricValues
    prevTime,     \* prevMetricsDumpTime
    pc,           \* where each goroutine is
    local,        \* variables of the dump of each goroutine
    runErr,       \* runGet or runUpload returned an error
    tickDue,      \* ticker.C has a tick
    tickerOn,     \* ticker.Stop has not been called
    cancelled,    \* ctx
    sigs,         \* a signal is in the channel
    exit,         \* exit status, or NotExited
    interrupted,  \* history: a signal has arrived
    reported,     \* history: calls in the rates that were printed
    reportedTime  \* history: time in the rates that were printed

run == <<runErr, tickDue, tickerOn, cancelled, sigs, exit, interrupted>>
shared == <<prevValue, prevTime, reported, reportedTime>>
vars == <<clock, calls, pc, local, run, shared>>

NotExited == -1
Crashed == 2

Running == exit = NotExited

NoLocals == [value |-> 0, now |-> 0, elapsed |-> 0, base |-> 0]

Goto(d, at) == pc' = [pc EXCEPT ![d] = at]

Init ==
    /\ clock = 0
    /\ calls = 0
    /\ prevValue = 0 /\ prevTime = 0
    /\ pc = [d \in Dumper |-> IF d = Main THEN "run"
                              ELSE IF d = Ticker THEN "wait" ELSE "start"]
    /\ local = [d \in Dumper |-> NoLocals]
    /\ runErr = FALSE
    /\ tickDue = FALSE /\ tickerOn = TRUE /\ cancelled = FALSE
    /\ sigs = FALSE /\ exit = NotExited
    /\ interrupted = FALSE /\ reported = 0 /\ reportedTime = 0

----------------------------------------------------------------------------
(* DumpMetrics. *)

\* The registry gathers the counter.
Gather(d) ==
    /\ pc[d] = "gather"
    /\ local' = [local EXCEPT ![d].value = calls]
    /\ Goto(d, "clock")
    /\ UNCHANGED <<clock, calls, run, shared>>

ReadClock(d) ==
    /\ pc[d] = "clock"
    /\ local' = [local EXCEPT ![d].now = clock]
    /\ Goto(d, "elapsed")
    /\ UNCHANGED <<clock, calls, run, shared>>

ReadPrevTime(d) ==
    /\ pc[d] = "elapsed"
    /\ local' = [local EXCEPT ![d].elapsed = local[d].now - prevTime]
    /\ Goto(d, "base")
    /\ UNCHANGED <<clock, calls, run, shared>>

\* buildRateMetricFamily reads prevMetricValues and then writes it.
ReadPrevValue(d) ==
    /\ pc[d] = "base"
    /\ local' = [local EXCEPT ![d].base = prevValue]
    /\ Goto(d, "store")
    /\ UNCHANGED <<clock, calls, run, shared>>

StorePrevValue(d) ==
    /\ pc[d] = "store"
    /\ prevValue' = local[d].value
    /\ Goto(d, "time")
    /\ UNCHANGED <<clock, calls, local, run, prevTime, reported,
                   reportedTime>>

\* Go ends the process when it notices that a map is written while another
\* goroutine uses it.
MapRace(d) ==
    /\ pc[d] = "store"
    /\ \E e \in Dumper \ {d} : pc[e] \in {"base", "store"}
    /\ exit' = Crashed
    /\ UNCHANGED <<clock, calls, pc, local, shared, runErr, tickDue,
                   tickerOn, cancelled, sigs, interrupted>>

\* Mutant of DumpTime: reads the clock again.
DumpTimeAtEnd(d) == clock

DumpTime(d) == local[d].now

StorePrevTime(d) ==
    /\ pc[d] = "time"
    /\ prevTime' = DumpTime(d)
    /\ Goto(d, "print")
    /\ UNCHANGED <<clock, calls, local, run, prevValue, reported,
                   reportedTime>>

\* Where a goroutine goes on after its dump.
AfterDump(d) == IF d = Ticker THEN "wait" ELSE "exit"

Output(d) ==
    /\ pc[d] = "print"
    /\ reported' = reported + local[d].value - local[d].base
    /\ reportedTime' = reportedTime + local[d].elapsed
    /\ Goto(d, AfterDump(d))
    /\ local' = [local EXCEPT ![d] = NoLocals]
    /\ UNCHANGED <<clock, calls, run, prevValue, prevTime>>

DumpMetrics(d) ==
    \/ Gather(d) \/ ReadClock(d) \/ ReadPrevTime(d)
    \/ ReadPrevValue(d) \/ StorePrevValue(d) \/ MapRace(d)
    \/ StorePrevTime(d) \/ Output(d)

----------------------------------------------------------------------------
(* runSubcommand. *)

\* The goroutine of the signal starts to receive.
ReceiveSignal ==
    /\ \/ pc[Signal] = "start" /\ Goto(Signal, "receive") /\ sigs' = sigs
       \/ /\ pc[Signal] = "receive"
          /\ sigs
          /\ sigs' = FALSE
          /\ Goto(Signal, "gather")
    /\ UNCHANGED <<clock, calls, local, shared, runErr, tickDue,
                   tickerOn, cancelled, exit, interrupted>>

\* Mutant of HasRoom: sigs is made without a buffer.
OnlyWhenReceiving == pc[Signal] = "receive"

\* Notify does not block: a signal that the channel has no room for is dropped.
HasRoom == ~sigs

SignalArrives ==
    /\ Running
    /\ sigs' = (sigs \/ HasRoom)
    /\ interrupted' = TRUE
    /\ UNCHANGED <<clock, calls, pc, local, shared, runErr, tickDue,
                   tickerOn, cancelled, exit>>

\* A tick, or the end of the context.
TakeTick ==
    /\ pc[Ticker] = "wait"
    /\ tickDue
    /\ tickDue' = FALSE
    /\ Goto(Ticker, "gather")
    /\ UNCHANGED <<clock, calls, local, shared, runErr, tickerOn,
                   cancelled, sigs, exit, interrupted>>

\* Mutant of SeesEnd: looks only between ticks.
SeesEndWhileTicking == cancelled /\ tickerOn

SeesEnd == cancelled

EndTicker ==
    /\ pc[Ticker] = "wait"
    /\ SeesEnd
    /\ Goto(Ticker, "ended")
    /\ UNCHANGED <<clock, calls, local, run, shared>>

\* Launch refuses the profile.
LaunchFails ==
    /\ pc[Main] = "run"
    /\ calls = 0
    /\ exit' = 1
    /\ UNCHANGED <<clock, calls, pc, local, shared, runErr, tickDue,
                   tickerOn, cancelled, sigs, interrupted>>

\* The worker function is called.
Call ==
    /\ Running
    /\ pc[Main] = "run"
    /\ calls < MaxCalls
    /\ calls' = calls + 1
    /\ UNCHANGED <<clock, pc, local, run, shared>>

\* runGet or runUpload returns.
RunReturns ==
    /\ Running
    /\ pc[Main] = "run"
    /\ runErr' \in BOOLEAN
    /\ Goto(Main, "stop")
    /\ UNCHANGED <<clock, calls, local, shared, tickDue, tickerOn,
                   cancelled, sigs, exit, interrupted>>

StopTicker ==
    /\ pc[Main] = "stop"
    /\ tickerOn' = FALSE
    /\ tickDue' = FALSE
    /\ Goto(Main, "cancel")
    /\ UNCHANGED <<clock, calls, local, shared, runErr, cancelled,
                   sigs, exit, interrupted>>

CancelTicker ==
    /\ pc[Main] = "cancel"
    /\ cancelled' = TRUE
    /\ Goto(Main, "wg")
    /\ UNCHANGED <<clock, calls, local, shared, runErr, tickDue,
                   tickerOn, sigs, exit, interrupted>>

\* Mutant of TickerEnded: no wg.Wait.
DoesNotWait == TRUE

TickerEnded == pc[Ticker] = "ended"

WaitTicker ==
    /\ pc[Main] = "wg"
    /\ TickerEnded
    /\ Goto(Main, "gather")
    /\ UNCHANGED <<clock, calls, local, run, shared>>

\* The signal's goroutine exits with 1, main with 1 after an error.
Exit(d) ==
    /\ pc[d] = "exit"
    /\ exit' = IF d = Signal \/ runErr THEN 1 ELSE 0
    /\ UNCHANGED <<clock, calls, pc, local, shared, runErr, tickDue,
                   tickerOn, cancelled, sigs, interrupted>>

\* A tick that nobody has taken is kept, once.
TimePasses ==
    /\ Running
    /\ clock < MaxTime
    /\ clock' = clock + 1
    /\ tickDue' = (tickDue \/ (tickerOn /\ (clock + 1) % TickPeriod = 0))
    /\ UNCHANGED <<calls, pc, local, shared, runErr, tickerOn,
                   cancelled, sigs, exit, interrupted>>

MainStep == Running /\ (StopTicker \/ CancelTicker \/ WaitTicker
                        \/ DumpMetrics(Main) \/ Exit(Main))
TickerStep == Running /\ (TakeTick \/ EndTicker \/ DumpMetrics(Ticker))
SignalStep == Running /\ (ReceiveSignal \/ DumpMetrics(Signal) \/ Exit(Signal))

Exited == ~Running /\ UNCHANGED vars

Next ==
    \/ Call \/ RunReturns \/ (Running /\ LaunchFails)
    \/ MainStep \/ TickerStep \/ SignalStep
    \/ SignalArrives \/ TimePasses \/ Exited

Spec == Init /\ [][Next]_vars

\* The goroutines run.  The run itself, the clock and the user need not.
FairSpec ==
    Spec /\ WF_vars(MainStep) /\ WF_vars(TickerStep) /\ WF_vars(SignalStep)

----------------------------------------------------------------------------
(* Properties. *)

Dumping(d) ==
    pc[d] \in {"gather", "clock", "elapsed", "base", "store", "time", "print"}

\* Unless a signal interrupts them, the dumps of the ticker and of main follow
\* each other: between dumps the rates printed so far, each times its period,
\* add up to the calls of the last dump, and the periods to the time of it.  A
\* process that ends by itself has printed all of its calls, and never crashes
\* on the map (main.go:25-51, formatter.go:239-295).
RatesAddUp ==
    ~interrupted =>
        /\ (\A d \in Dumper : ~Dumping(d)) =>
               reported = prevValue /\ reportedTime = prevTime
        /\ pc[Main] = "exit" => reported = calls
        /\ exit # Crashed

\* In a process that no signal interrupts, no rate is negative
\* (formatter.go:281-283).
RatesNotNegative ==
    ~interrupted => \A d \in Dumper :
        /\ pc[d] \in {"base", "store", "time", "print"} => local[d].elapsed >= 0
        /\ pc[d] \in {"store", "time", "print"} =>
               local[d].base <= local[d].value

\* A signal ends the process, also one that arrives before the goroutine
\* receives and one during a dump (main.go:18-26).
InterruptEnds == interrupted ~> ~Running

\* When the run has returned the process ends, whatever the ticker was doing
\* (main.go:46-57).
EndedRunEnds == (pc[Main] = "stop") ~> ~Running

=============================================================================
