\* Three threads; b is a producer and a consumer, so that both sides compete.
CONSTANTS
    Producers = {a, b}
    Consumers = {b, c}
    Msgs = {m1, m2}
    Capacity = 2
SPECIFICATION FairSpec
INVARIANTS
    NoLostWakeup
    ClosedMeansAwake
PROPERTIES
    CloseReleasesWaiters
    TimedCallsReturn
    ImplementsChannel
