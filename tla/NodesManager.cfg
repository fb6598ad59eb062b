SPECIFICATION FairNodesSpec
CONSTANTS
    Units = {"u1", "u2"}
    Messages <- Lists
    UnitsPerPart = 1
    Settings = {"s1"}
    SaveQueueLength = 7
    UnitsPerMessage = 2
    StrayReads = {0, 1}
    Landings = {{}, {"flag"}}
    MaxSettings = 2
    MaxCuts = 1
    Fallas = {"critico"}
INVARIANTS NodesTypeOK QueueHoldsPending SavedOrPending
PROPERTIES EventuallyStored ToldIsStored NodesServed
CHECK_DEADLOCK FALSE
