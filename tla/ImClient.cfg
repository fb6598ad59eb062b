\* Safety of the client: links and Wi-Fi come and go, the broker is changed, the
\* initialisation fails, everything is initialised again; and with the status
\* messages alone, the broker is slow.
CONSTANTS
    Scenarios <- Safety
    TcpSockMax = 3
    LongPenalty = 2
    ShortPenalty = 1
SPECIFICATION Spec
INVARIANTS
    TypeOK
    AckedIsReceived
    SubscribedWhileServing
PROPERTY
    KeepsThePromise
