CONSTANTS
    Msgs = {m1}
    InCapacity = 1
    OutCapacity = 1
    Timeouts <- EachMode
    InitMayFail = TRUE
SPECIFICATION FairSpec
INVARIANTS
    JoinedExactlyOnce
    FreedAfterUse
    AnswerIsTruthful
    ClosedIsFinal
    ExitReleasesParent
PROPERTIES
    GcTerminates
    JoinWaitsOnlyForQueues
