SPECIFICATION Spec
CONSTANTS
    old = old  new = new
    get = get  sock = sock
    Servers = {old, new}
    Latest <- MCLatest
    Requests = {get, sock}
    Sockets = {sock}
    Home <- MCHome
    MaxFaults = 2
INVARIANTS
    TypeOK
    SchemaInOrder
    TriesOnce
    ServesComplete
    CleanDrain
    SocketsEnd
    GaugeAccounts
PROPERTIES
    AllServe
    SignalEnds
CHECK_DEADLOCK FALSE
