SPECIFICATION MCSpec
CONSTANTS
    Parts = {"pools", "groups", "mail"}
    MailWorlds <- CalmMail
    Callers = {"c1", "c2"}
    PoolWorlds <- MCPoolWorlds
    MaxPools = 1
    Replicas = {"p1", "p2"}
    MaxVersion = 2
    MaxFaults = 1
    Mailers = {"p1", "p2"}
    Chunk = 1
    Limit = 2
INVARIANTS TypeOK HandlesAreKept OneScan 
PROPERTIES NamesStay 
CHECK_DEADLOCK FALSE
