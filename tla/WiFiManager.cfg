SPECIFICATION FairSpec
CONSTANTS
    MaxSockets = 2
    LateEvents = FALSE
    MaxButtons = 3
    MaxFaults = 3
    MaxPhones = 2
    MaxEvents = 2
INVARIANTS TypeOK ApOnlyWhileListening WpsOnlyInModoWps EntriesExplained
PROPERTIES Truthful Recovers
