----------------------------- MODULE ReportProofs -----------------------------
(***************************************************************************)
(* Proofs about MetricsReport, for every period of the ticker, and any     *)
(* number of calls and ticks: what the dumps of a process that no signal   *)
(* interrupts add up to.                                                   *)
(***************************************************************************)
EXTENDS MetricsReport, TLAPS

Dumps == {"gather", "clock", "elapsed", "base", "store", "time", "print"}
MainPC == {"run", "stop", "cancel", "wg", "exit"} \cup Dumps
TickerPC == {"wait", "ended"} \cup Dumps
SignalPC == {"start", "receive", "exit"} \cup Dumps

Locals == [value : Int, now : Int, elapsed : Int, base : Int]

Types ==
    /\ clock \in Nat /\ calls \in Nat
    /\ prevValue \in Int /\ prevTime \in Int
    /\ reported \in Int /\ reportedTime \in Int
    /\ pc \in [Dumper -> MainPC \cup TickerPC \cup SignalPC]
    /\ pc[Main] \in MainPC /\ pc[Ticker] \in TickerPC
    /\ pc[Signal] \in SignalPC
    /\ local \in [Dumper -> Locals]

\* The last dump begins when the ticker's goroutine has ended, and that of the
\* signal does not begin without one.
InTurn ==
    /\ ~sigs /\ pc[Signal] \in {"start", "receive"}
    /\ pc[Main] \in Dumps \cup {"exit"} => pc[Ticker] = "ended"
    /\ exit # Crashed

\* What the dump of d knows and what it has stored, at each of its steps.
DumpOf(d) ==
    LET v == local[d]
    IN  /\ pc[d] \in {"clock", "elapsed", "base", "store"} =>
              prevValue <= v.value /\ v.value <= calls
        /\ pc[d] = "store" => v.base = prevValue
        /\ pc[d] \in {"time", "print"} =>
              v.value = prevValue /\ v.base = reported /\ v.base <= v.value
        /\ pc[d] \in {"elapsed", "base", "store", "time"} =>
              prevTime <= v.now /\ v.now <= clock
        /\ pc[d] \in {"base", "store", "time"} => v.elapsed = v.now - prevTime
        /\ pc[d] = "print" =>
              v.elapsed = prevTime - reportedTime /\ v.elapsed >= 0
        /\ (d = Main /\ pc[d] \in Dumps \ {"gather"}) => v.value = calls

\* Between two dumps what was printed is what was stored.
Stored ==
    /\ (\A d \in Dumper : pc[d] \notin {"time", "print"}) =>
          reported = prevValue
    /\ (\A d \in Dumper : pc[d] # "print") => reportedTime = prevTime
    /\ prevValue <= calls /\ prevTime <= clock
    /\ pc[Main] = "exit" => prevValue = calls

InOrder == InTurn /\ Stored /\ \A d \in Dumper : DumpOf(d)

ReportInv == Types /\ (~interrupted => InOrder)

----------------------------------------------------------------------------

\* Only one goroutine dumps at a time.
LEMMA OneDump ==
    ASSUME ReportInv, ~interrupted, NEW d \in Dumper, Dumping(d)
    PROVE  /\ d \in {Main, Ticker}
           /\ \A e \in Dumper \ {d} : pc[e] \notin Dumps
           /\ d = Ticker => pc[Main] # "exit"
<1>1. /\ pc[Signal] \notin Dumps
      /\ pc[Main] \in Dumps \cup {"exit"} => pc[Ticker] \notin Dumps
  BY DEF ReportInv, InOrder, InTurn, Dumps
<1> QED
  BY <1>1 DEF Dumping, Dumper, Dumps

\* A step of the dump of one goroutine.
LEMMA DumpKeeps ==
    ASSUME ReportInv, NEW d \in Dumper, DumpMetrics(d)
    PROVE  ReportInv'
<1>0. Main # Ticker /\ Main # Signal /\ Ticker # Signal
  BY ReportAssumption
<1>1. Types'
  <2> USE DEF ReportInv, Types
  <2>0. /\ local[d].value \in Int /\ local[d].now \in Int
        /\ local[d].elapsed \in Int /\ local[d].base \in Int
    BY DEF Locals
  <2>1. /\ UNCHANGED <<clock, calls>>
        /\ prevValue' \in Int /\ prevTime' \in Int
        /\ reported' \in Int /\ reportedTime' \in Int
    BY <2>0 DEF DumpMetrics, Gather, ReadClock, ReadPrevTime, ReadPrevValue,
       StorePrevValue, MapRace, StorePrevTime, Output, DumpTime, shared
  <2>2. \/ pc' = pc
        \/ \E p \in Dumps : pc' = [pc EXCEPT ![d] = p]
        \/ pc' = [pc EXCEPT ![d] = AfterDump(d)]
    BY DEF DumpMetrics, Gather, ReadClock, ReadPrevTime, ReadPrevValue,
       StorePrevValue, MapRace, StorePrevTime, Output, Goto, Dumps
  <2>3. /\ pc' \in [Dumper -> MainPC \cup TickerPC \cup SignalPC]
        /\ pc'[Main] \in MainPC /\ pc'[Ticker] \in TickerPC
        /\ pc'[Signal] \in SignalPC
    BY <1>0, <2>2 DEF MainPC, TickerPC, SignalPC, AfterDump, Dumper
  <2>4. local' \in [Dumper -> Locals]
    <3>1. CASE Gather(d)
      BY <3>1 DEF Gather, Locals
    <3>2. CASE ReadClock(d)
      BY <3>2 DEF ReadClock, Locals
    <3>3. CASE ReadPrevTime(d)
      BY <2>0, <3>3 DEF ReadPrevTime, Locals
    <3>4. CASE ReadPrevValue(d)
      BY <3>4 DEF ReadPrevValue, Locals
    <3>5. CASE StorePrevValue(d) \/ MapRace(d) \/ StorePrevTime(d)
      BY <3>5 DEF StorePrevValue, MapRace, StorePrevTime
    <3>6. CASE Output(d)
      BY <3>6 DEF Output, Locals, NoLocals
    <3> QED
      BY <3>1, <3>2, <3>3, <3>4, <3>5, <3>6 DEF DumpMetrics
  <2> QED
    BY <2>1, <2>3, <2>4
<1>2. ASSUME ~interrupted'
      PROVE  InOrder'
  <2>1. ~interrupted
    BY <1>2 DEF DumpMetrics, Gather, ReadClock, ReadPrevTime, ReadPrevValue,
       StorePrevValue, MapRace, StorePrevTime, Output, run
  <2>2. Dumping(d) /\ pc[d] \in Dumps
    BY DEF DumpMetrics, Gather, ReadClock, ReadPrevTime, ReadPrevValue,
       StorePrevValue, MapRace, StorePrevTime, Output, Dumping, Dumps
  <2>3. /\ d \in {Main, Ticker} /\ d # Signal
        /\ \A e \in Dumper \ {d} : pc[e] \notin Dumps
        /\ d = Ticker => pc[Main] # "exit"
    BY <1>0, <2>1, <2>2, OneDump
  <2>4. ~MapRace(d)
    BY <2>3 DEF MapRace, Dumps
  <2>5. /\ Types /\ InTurn /\ Stored /\ DumpOf(d)
    BY <2>1 DEF ReportInv, InOrder
  <2>6. pc \in [Dumper -> MainPC \cup TickerPC \cup SignalPC]
        /\ local \in [Dumper -> Locals]
    BY <2>5 DEF Types
  <2>7. UNCHANGED <<clock, calls, sigs, exit>>
    BY <2>4 DEF DumpMetrics, Gather, ReadClock, ReadPrevTime, ReadPrevValue,
       StorePrevValue, StorePrevTime, Output, run
  <2>8. /\ \A e \in Dumper \ {d} : pc'[e] = pc[e]
        /\ pc'[d] \in Dumps \cup {AfterDump(d)}
    BY <2>4, <2>6 DEF DumpMetrics, Gather, ReadClock, ReadPrevTime,
       ReadPrevValue, StorePrevValue, StorePrevTime, Output, Goto, Dumps
  <2>9. \A e \in Dumper \ {d} : pc'[e] \notin Dumps /\ DumpOf(e)'
    BY <2>3, <2>8 DEF DumpOf, Dumps
  <2>10. InTurn'
    BY <1>0, <2>2, <2>3, <2>5, <2>7, <2>8
    DEF InTurn, Dumper, AfterDump, Dumps
  <2>11. Stored' /\ DumpOf(d)'
    <3> DEFINE v == local[d]
    <3>0. /\ v \in Locals /\ v.value \in Int /\ v.now \in Int
          /\ v.elapsed \in Int /\ v.base \in Int
          /\ clock \in Nat /\ calls \in Nat
          /\ prevValue \in Int /\ prevTime \in Int
          /\ reported \in Int /\ reportedTime \in Int
      BY <2>5, <2>6 DEF Types, Locals
    <3>a. pc[d] \notin {"time", "print"} => reported = prevValue
      BY <2>3, <2>5 DEF Stored, Dumps
    <3>b. pc[d] # "print" => reportedTime = prevTime
      BY <2>3, <2>5 DEF Stored, Dumps
    <3>c. prevValue <= calls /\ prevTime <= clock
      BY <2>5 DEF Stored
    <3>d. d # Main => pc'[Main] # "exit"
      BY <2>3, <2>8 DEF Dumper
    <3>e. \A e \in Dumper \ {d} : pc'[e] \notin {"time", "print"}
      BY <2>9 DEF Dumps
    <3>f. Main \in Dumper
      BY DEF Dumper
    <3>1. CASE Gather(d)
      <4>1. /\ pc'[d] = "clock" /\ local'[d].value = calls
            /\ pc[d] = "gather" /\ UNCHANGED shared
        BY <2>6, <3>1 DEF Gather, Goto, Locals
      <4> QED
        BY <2>7, <3>0, <3>a, <3>b, <3>c, <3>d, <4>1
        DEF Stored, DumpOf, shared
    <3>2. CASE ReadClock(d)
      <4>1. /\ pc'[d] = "elapsed" /\ local'[d].now = clock
            /\ local'[d].value = v.value
            /\ pc[d] = "clock" /\ UNCHANGED shared
        BY <2>6, <3>2 DEF ReadClock, Goto, Locals
      <4> QED
        BY <2>5, <2>7, <3>0, <3>a, <3>b, <3>c, <3>d, <4>1
        DEF Stored, DumpOf, shared, Dumps
    <3>3. CASE ReadPrevTime(d)
      <4>1. /\ pc'[d] = "base" /\ local'[d].elapsed = v.now - prevTime
            /\ local'[d].value = v.value /\ local'[d].now = v.now
            /\ pc[d] = "elapsed" /\ UNCHANGED shared
        BY <2>6, <3>3 DEF ReadPrevTime, Goto, Locals
      <4> QED
        BY <2>5, <2>7, <3>0, <3>a, <3>b, <3>c, <3>d, <4>1
        DEF Stored, DumpOf, shared, Dumps
    <3>4. CASE ReadPrevValue(d)
      <4>1. /\ pc'[d] = "store" /\ local'[d].base = prevValue
            /\ local'[d].value = v.value /\ local'[d].now = v.now
            /\ local'[d].elapsed = v.elapsed
            /\ pc[d] = "base" /\ UNCHANGED shared
        BY <2>6, <3>4 DEF ReadPrevValue, Goto, Locals
      <4> QED
        BY <2>5, <2>7, <3>0, <3>a, <3>b, <3>c, <3>d, <4>1
        DEF Stored, DumpOf, shared, Dumps
    <3>5. CASE StorePrevValue(d)
      <4>1. /\ pc'[d] = "time" /\ prevValue' = v.value /\ local' = local
            /\ pc[d] = "store"
            /\ UNCHANGED <<prevTime, reported, reportedTime>>
        BY <2>6, <3>5 DEF StorePrevValue, Goto
      <4> QED
        BY <2>5, <2>7, <3>0, <3>a, <3>b, <3>c, <3>d, <4>1
        DEF Stored, DumpOf, Dumps
    <3>6. CASE StorePrevTime(d)
      <4>1. /\ pc'[d] = "print" /\ prevTime' = v.now /\ local' = local
            /\ pc[d] = "time"
            /\ UNCHANGED <<prevValue, reported, reportedTime>>
        BY <2>6, <3>6 DEF StorePrevTime, Goto, DumpTime
      <4> QED
        BY <2>5, <2>7, <3>0, <3>a, <3>b, <3>c, <3>d, <4>1
        DEF Stored, DumpOf, Dumps
    <3>7. CASE Output(d)
      <4>1. /\ pc'[d] = AfterDump(d) /\ pc[d] = "print"
            /\ reported' = reported + v.value - v.base
            /\ reportedTime' = reportedTime + v.elapsed
            /\ UNCHANGED <<prevValue, prevTime>>
        BY <2>6, <3>7 DEF Output, Goto
      <4>2. pc'[d] \in {"wait", "exit"}
        BY <4>1 DEF AfterDump
      <4>3. reported' = prevValue' /\ reportedTime' = prevTime'
        BY <2>5, <3>0, <4>1 DEF DumpOf
      <4>4. d = Main => prevValue' = calls
        BY <2>5, <4>1 DEF DumpOf, Dumps
      <4> QED
        BY <2>7, <3>c, <3>d, <4>1, <4>2, <4>3, <4>4
        DEF Stored, DumpOf, Dumps
    <3> QED
      BY <2>4, <3>1, <3>2, <3>3, <3>4, <3>5, <3>6, <3>7 DEF DumpMetrics
  <2> QED
    BY <2>9, <2>10, <2>11 DEF InOrder
<1> QED
  BY <1>1, <1>2 DEF ReportInv

\* The steps besides those of a dump.  None changes what is stored or printed.
LEMMA OthersKeepReport ==
    ASSUME ReportInv,
           \/ Call \/ RunReturns \/ LaunchFails
           \/ StopTicker \/ CancelTicker \/ WaitTicker
           \/ TakeTick \/ EndTicker \/ ReceiveSignal
           \/ \E d \in {Main, Signal} : Exit(d)
           \/ SignalArrives \/ TimePasses \/ UNCHANGED vars
    PROVE  ReportInv'
<1>0. Main # Ticker /\ Main # Signal /\ Ticker # Signal
      /\ Main \in Dumper /\ Ticker \in Dumper /\ Signal \in Dumper
  BY ReportAssumption DEF Dumper
<1>1. UNCHANGED <<local, shared>>
  BY DEF Call, RunReturns, LaunchFails, StopTicker, CancelTicker, WaitTicker,
     TakeTick, EndTicker, ReceiveSignal, Exit, SignalArrives, TimePasses, vars
<1>2. /\ pc \in [Dumper -> MainPC \cup TickerPC \cup SignalPC]
      /\ clock \in Nat /\ calls \in Nat /\ prevValue \in Int /\ prevTime \in Int
      /\ local \in [Dumper -> Locals]
      /\ pc[Main] \in MainPC /\ pc[Ticker] \in TickerPC
      /\ pc[Signal] \in SignalPC
  BY DEF ReportInv, Types
<1>3. \A d \in Dumper : /\ local[d].value \in Int /\ local[d].now \in Int
                        /\ local[d].base \in Int /\ local[d].elapsed \in Int
  BY <1>2 DEF Locals
<1>4. CASE Call
  <2>1. /\ calls' = calls + 1 /\ pc[Main] = "run"
        /\ UNCHANGED <<clock, pc, sigs, exit, interrupted>>
    BY <1>4 DEF Call, run
  <2>2. Types'
    BY <1>1, <1>2, <2>1 DEF ReportInv, Types, shared
  <2>3. ASSUME ~interrupted PROVE InOrder'
    <3>1. \A d \in Dumper : DumpOf(d)'
      BY <1>1, <1>2, <1>3, <2>1, <2>3
      DEF ReportInv, InOrder, DumpOf, shared, Dumps
    <3>2. InTurn' /\ Stored'
      BY <1>1, <1>2, <2>1, <2>3
      DEF ReportInv, InOrder, InTurn, Stored, shared, Dumps
    <3> QED
      BY <3>1, <3>2 DEF InOrder
  <2> QED
    BY <2>1, <2>2, <2>3 DEF ReportInv
<1>5. CASE TimePasses
  <2>1. /\ clock' = clock + 1
        /\ UNCHANGED <<calls, pc, sigs, exit, interrupted>>
    BY <1>5 DEF TimePasses
  <2>2. Types'
    BY <1>1, <1>2, <2>1 DEF ReportInv, Types, shared
  <2>3. ASSUME ~interrupted PROVE InOrder'
    <3>1. \A d \in Dumper : DumpOf(d)'
      BY <1>1, <1>2, <1>3, <2>1, <2>3
      DEF ReportInv, InOrder, DumpOf, shared
    <3>2. InTurn' /\ Stored'
      BY <1>1, <1>2, <2>1, <2>3
      DEF ReportInv, InOrder, InTurn, Stored, shared
    <3> QED
      BY <3>1, <3>2 DEF InOrder
  <2> QED
    BY <2>1, <2>2, <2>3 DEF ReportInv
<1>6. CASE SignalArrives
  <2>1. interrupted' /\ UNCHANGED <<clock, calls, pc>>
    BY <1>6 DEF SignalArrives
  <2> QED
    BY <1>1, <1>2, <2>1 DEF ReportInv, Types, shared
<1>7. CASE \/ RunReturns \/ LaunchFails
           \/ StopTicker \/ CancelTicker \/ WaitTicker
           \/ TakeTick \/ EndTicker \/ ReceiveSignal
           \/ (\E d \in {Main, Signal} : Exit(d)) \/ UNCHANGED vars
  <2>1. UNCHANGED <<clock, calls, interrupted>>
    BY <1>7 DEF RunReturns, LaunchFails, StopTicker, CancelTicker, WaitTicker,
       TakeTick, EndTicker, ReceiveSignal, Exit, vars, run
  <2>2. \/ UNCHANGED <<pc, sigs>> /\ (exit' = exit \/ exit' \in {0, 1})
        \/ /\ pc[Main] = "run" /\ pc' = [pc EXCEPT ![Main] = "stop"]
           /\ UNCHANGED <<sigs, exit>>
        \/ /\ pc[Main] = "stop" /\ pc' = [pc EXCEPT ![Main] = "cancel"]
           /\ UNCHANGED <<sigs, exit>>
        \/ /\ pc[Main] = "cancel" /\ pc' = [pc EXCEPT ![Main] = "wg"]
           /\ UNCHANGED <<sigs, exit>>
        \/ /\ pc[Main] = "wg" /\ pc[Ticker] = "ended"
           /\ pc' = [pc EXCEPT ![Main] = "gather"] /\ UNCHANGED <<sigs, exit>>
        \/ /\ pc[Ticker] = "wait" /\ pc' = [pc EXCEPT ![Ticker] = "gather"]
           /\ UNCHANGED <<sigs, exit>>
        \/ /\ pc[Ticker] = "wait" /\ pc' = [pc EXCEPT ![Ticker] = "ended"]
           /\ UNCHANGED <<sigs, exit>>
        \/ /\ pc[Signal] = "start" /\ pc' = [pc EXCEPT ![Signal] = "receive"]
           /\ UNCHANGED <<sigs, exit>>
        \/ sigs /\ pc' = [pc EXCEPT ![Signal] = "gather"]
    <3>1. CASE RunReturns \/ LaunchFails \/ StopTicker \/ CancelTicker
               \/ WaitTicker
      BY <3>1 DEF RunReturns, LaunchFails, StopTicker, CancelTicker,
         WaitTicker, TickerEnded, Goto, run
    <3>2. CASE TakeTick \/ EndTicker \/ ReceiveSignal
               \/ (\E d \in {Main, Signal} : Exit(d)) \/ UNCHANGED vars
      BY <3>2 DEF TakeTick, EndTicker, ReceiveSignal, Exit, vars, Goto, run
    <3> QED
      BY <1>7, <3>1, <3>2
  <2>3. Types'
    <3>1. /\ pc' \in [Dumper -> MainPC \cup TickerPC \cup SignalPC]
          /\ pc'[Main] \in MainPC /\ pc'[Ticker] \in TickerPC
          /\ pc'[Signal] \in SignalPC
      BY <1>0, <1>2, <2>2 DEF MainPC, TickerPC, SignalPC, Dumps
    <3> QED
      BY <1>1, <2>1, <3>1 DEF ReportInv, Types, shared
  <2>4. ASSUME ~interrupted PROVE InOrder'
    <3>0. InTurn /\ Stored /\ \A d \in Dumper : DumpOf(d)
      BY <2>4 DEF ReportInv, InOrder
    <3>1. InTurn'
      BY <1>0, <1>2, <2>2, <3>0 DEF InTurn, Dumps, Crashed
    <3>2. \A d \in Dumper :
             pc'[d] = pc[d] \/ (/\ pc'[d] \notin Dumps \ {"gather"}
                                /\ pc[d] \notin Dumps
                                /\ pc'[d] # "exit")
      BY <1>0, <1>2, <2>2, <3>0 DEF InTurn, Dumps
    <3>3. \A d \in Dumper : DumpOf(d)'
      BY <1>1, <2>1, <3>0, <3>2 DEF DumpOf, Dumps, shared
    <3>4. Stored'
      BY <1>0, <1>1, <2>1, <3>0, <3>2 DEF Stored, Dumps, shared
    <3> QED
      BY <3>1, <3>3, <3>4 DEF InOrder
  <2> QED
    BY <2>1, <2>3, <2>4 DEF ReportInv
<1> QED
  BY <1>4, <1>5, <1>6, <1>7

LEMMA ReportInvHolds == Spec => []ReportInv
<1>1. Init => ReportInv
  <2> SUFFICES ASSUME Init PROVE ReportInv
    OBVIOUS
  <2>0. Main # Ticker /\ Main # Signal /\ Ticker # Signal
        /\ Main \in Dumper /\ Ticker \in Dumper /\ Signal \in Dumper
    BY ReportAssumption DEF Dumper
  <2>1. /\ pc[Main] = "run" /\ pc[Ticker] = "wait" /\ pc[Signal] = "start"
        /\ pc \in [Dumper -> MainPC \cup TickerPC \cup SignalPC]
    BY <2>0 DEF Init, MainPC, TickerPC, SignalPC
  <2>2. \A d \in Dumper : pc[d] \notin Dumps
    BY <2>1 DEF Dumper, Dumps
  <2>3. Types
    BY <2>1 DEF Init, Types, MainPC, TickerPC, SignalPC, Locals, NoLocals
  <2>4. InOrder
    BY <2>1, <2>2 DEF Init, InOrder, InTurn, Stored, DumpOf, Dumps, NotExited,
                      Crashed
  <2> QED
    BY <2>3, <2>4 DEF ReportInv
<1>2. ReportInv /\ [Next]_vars => ReportInv'
  BY DumpKeeps, OthersKeepReport
  DEF Next, MainStep, TickerStep, SignalStep, Exited, Dumper
<1> QED
  BY <1>1, <1>2, PTL DEF Spec

\* The rates that are printed until a process ends by itself add up to its
\* calls, each taken over the time that it is divided by.
THEOREM RatesAddUpHolds == Spec => []RatesAddUp
<1>1. ReportInv => RatesAddUp
  <2> SUFFICES ASSUME ReportInv, ~interrupted
               PROVE  /\ (\A d \in Dumper : ~Dumping(d)) =>
                            reported = prevValue /\ reportedTime = prevTime
                      /\ pc[Main] = "exit" => reported = calls
                      /\ exit # Crashed
    BY DEF RatesAddUp
  <2>1. InTurn /\ Stored /\ Types
    BY DEF ReportInv, InOrder
  <2>2. (\A d \in Dumper : ~Dumping(d)) =>
            reported = prevValue /\ reportedTime = prevTime
    BY <2>1 DEF Stored, Dumping
  <2>3. pc[Main] = "exit" => reported = calls
    <3>1. pc[Main] = "exit" => \A d \in Dumper : ~Dumping(d)
      BY <2>1, ReportAssumption DEF InTurn, Dumping, Dumper
    <3> QED
      BY <2>1, <2>2, <3>1 DEF Stored
  <2> QED
    BY <2>1, <2>2, <2>3 DEF InTurn
<1> QED
  BY <1>1, ReportInvHolds, PTL

\* No rate of such a process is negative, and none is taken over negative time.
THEOREM RatesNotNegativeHolds == Spec => []RatesNotNegative
<1>1. ReportInv => RatesNotNegative
  <2> SUFFICES ASSUME ReportInv, ~interrupted, NEW d \in Dumper
               PROVE  /\ pc[d] \in {"base", "store", "time", "print"} =>
                            local[d].elapsed >= 0
                      /\ pc[d] \in {"store", "time", "print"} =>
                            local[d].base <= local[d].value
    BY DEF RatesNotNegative
  <2>1. DumpOf(d) /\ local[d] \in Locals /\ prevTime \in Int /\ prevValue \in Int
    BY DEF ReportInv, InOrder, Types
  <2> QED
    BY <2>1 DEF DumpOf, Locals
<1> QED
  BY <1>1, ReportInvHolds, PTL

=============================================================================
