\* One partition, every message and every frame, the programming mode too.
CONSTANTS
    Layers = {0}
    Pedidos <- Todos
    Tramas = {"estado", "modo", "replay", "zona", "finReplay", "T", "U", "fyh", "wcom", "salir"}
    MaxPedidos = 2
    MaxTramas = 3
    CodeLen = 2
    FyhNibbles = 1
    ReplayZones = 2
    EventBytes = 3
    OldLogBytes = 2
    Timeout = 2
SPECIFICATION FairSpec
INVARIANTS
    TypeOK
    BusNotBlocked
PROPERTY
    PanicSent
