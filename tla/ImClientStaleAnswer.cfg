\* An interface change overwritten by a lost connection.
CONSTANTS
    Scenarios <- LostChange
    TcpSockMax = 2
    LongPenalty = 2
    ShortPenalty = 1
SPECIFICATION Spec
INVARIANT
    AckedIsReceived
