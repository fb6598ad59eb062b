\* Two partitions and commands that hold a flag until their keys are out.
CONSTANTS
    Layers = {0, 1}
    Pedidos <- ConFlag
    Tramas = {"estado", "replay", "zona", "finReplay", "U", "fyh"}
    MaxPedidos = 2
    MaxTramas = 2
    CodeLen = 2
    FyhNibbles = 2
    ReplayZones = 2
    EventBytes = 3
    OldLogBytes = 2
    Timeout = 2
SPECIFICATION FairSpec
INVARIANTS
    BusNotBlocked
    KeysGoToTheirPartition
PROPERTIES
    KeysSentBeforeRelease
    EveryMessageServed
