CONSTANTS
    Stream <- const_Stream
    RecordEnds <- const_RecordEnds
    MaxLine = 1
    MaxRecv = 2
    Msgs = {m1, m2}
    Addrs = {a1, a2}
    MsgLen = 2
    SndRoom = 1
    MaxOut = 3
    Renegotiate = TRUE
SPECIFICATION FairSpec
INVARIANTS
    StreamIntact
PROPERTIES
    
    AvailableLineIsRead
    TimedCallReturns
