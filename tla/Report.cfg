SPECIFICATION FairSpec
CONSTANTS
    Main = Main
    Ticker = Ticker
    Signal = Signal
    TickPeriod = 1
    MaxTime = 2
    MaxCalls = 2
INVARIANTS
    RatesAddUp
    RatesNotNegative
PROPERTIES
    InterruptEnds
    EndedRunEnds
