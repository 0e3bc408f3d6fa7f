CONSTANTS
    Threads = {main, worker}
    Fds = {3, 4}
    Addresses = 2
    Timeout = 1
    MaxSocks = 2
SPECIFICATION SetupFairSpec
INVARIANTS
    EverythingHasOneOwner
    ContextReadyWhenUsed
PROPERTIES
    TimedSetupReturns
