SPECIFICATION OneWorld
CONSTANTS
    p1 = p1
    p2 = p2
    r1 = r1
    r2 = r2
    Procs <- OneProc
    Slots <- OneSlot
    Requests <- AllRequests
    Tick = tick
    Session = session
    NoBackend = NoBackend
    MaxConn = 1
    MaxFails = 0
    MaxDepth = 2
    MaxRequests = 2
    MaxSpent = 4
    MaxKeys = 1
    MaxRevoked = 0
    MaxDrops = 0
    MaxCrashes = 0
    MaxClients = 3
INVARIANTS OneClientPerKey
