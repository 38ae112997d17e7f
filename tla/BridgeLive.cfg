SPECIFICATION LiveSpec
CONSTANTS
    p1 = p1
    p2 = p2
    r1 = r1
    r2 = r2
    Procs <- OneProc
    Slots <- OneSlot
    Requests <- AllRequests
    Tick = tick
    Session = session
    NoBackend = NoBackend
    MaxConn = 2
    MaxFails = 0
    MaxDepth = 5
    MaxRequests = 2
    MaxSpent = 4
    MaxKeys = 1
    MaxRevoked = 0
    MaxDrops = 1
    MaxCrashes = 1
    MaxClients = 6
PROPERTIES Served PairingEnds
