\* The choice of interface, with a cellular module that works.  The long penalty
\* outlasts the short one, so that each can expire while the other is running.
CONSTANTS
    LongPenalty = 4
    ShortPenalty = 2
SPECIFICATION FairSpec
INVARIANTS
    TypeOK
    ToldIsSelected
PROPERTIES
    ErrorIsServed
    WifiWins
