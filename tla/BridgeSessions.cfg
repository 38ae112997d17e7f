SPECIFICATION WorldsSpec
CONSTANTS
    p1 = p1
    p2 = p2
    r1 = r1
    r2 = r2
    Procs <- TwoProcs
    Slots <- TwoSlots
    Requests <- AllRequests
    Tick = tick
    Session = session
    NoBackend = NoBackend
    MaxConn = 2
    MaxFails = 0
    MaxDepth = 5
    MaxRequests = 3
    MaxSpent = 4
    MaxKeys = 2
    MaxRevoked = 1
    MaxDrops = 1
    MaxCrashes = 1
    MaxClients = 6
SYMMETRY Symmetry
INVARIANTS TypeOK OnePairing ClientsInTurns
