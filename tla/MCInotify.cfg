CONSTANTS
    MaxQueue = 2
    BufEvents = 2
    MaxEvents = 5
    MaxWatches = 2
SPECIFICATION FairSpec
INVARIANTS
    NoSilentLoss
PROPERTIES
    TimedReadReturns
