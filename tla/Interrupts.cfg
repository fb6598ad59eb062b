\* The interrupt between any two steps of the main loop: the bus with the clock, and a
\* software timer with the clock.
SPECIFICATION FairSpec
CONSTANTS
    Word = 16
    Reach = 5
    Intervals = {1, 4, 7}
    T1 = 2
    T2 = 5
    T3 = 3
    T4 = 2
    Kinds = {"17", "16"}
    Data = {"a", "b"}
    MaxSent = 2
    KindOrder <- Order
    Scenarios <- Parts
INVARIANTS TypeOK SecondsKept TimerSound Faithful
PROPERTY EveryMessageLeaves
