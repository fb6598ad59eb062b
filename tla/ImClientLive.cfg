\* Links that die, changes of the broker, one loss of Wi-Fi, a long outage, with
\* as many sockets as the driver has.
CONSTANTS
    Scenarios <- Liveness
    TcpSockMax = 7
    LongPenalty = 2
    ShortPenalty = 1
SPECIFICATION FairSpec
PROPERTIES
    EventuallySent
    Reconnects
