CONSTANTS
    Callers = {main}
    Main = main
    Programs <- Ordinary
    Stdins = {0, 2}
    NoStdin = NoStdin
    MaxOutput = 1
    PipeCap = 1
    MaxWrites = 2
    PollMayFail = TRUE
SPECIFICATION FairSpec
INVARIANTS
    NoDoubleClose
    LeakOnlyAfterBreak
PROPERTIES
    OutputIsComplete
    KilledIsReported
    CallReturns
    TimedCallLeavesLoop
