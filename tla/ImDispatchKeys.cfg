\* The end of a command, with a change of mode going on.
CONSTANTS
    Layers = {0}
    Pedidos <- ModoYActivar
    Tramas = {"modo"}
    MaxPedidos = 2
    MaxTramas = 2
    CodeLen = 2
    FyhNibbles = 1
    ReplayZones = 2
    EventBytes = 3
    OldLogBytes = 2
    Timeout = 2
SPECIFICATION Spec
PROPERTY
    KeysSentBeforeRelease
