SPECIFICATION MCSpec
CONSTANTS
    Parts = {"mail"}
    MailWorlds <- PatchedMail
    Callers = {"c1", "c2"}
    PoolWorlds <- MCPoolWorlds
    MaxPools = 1
    Replicas = {"p1", "p2"}
    MaxVersion = 2
    MaxFaults = 1
    Mailers = {"p1", "p2"}
    Chunk = 1
    Limit = 2
INVARIANTS OneMailbox
CHECK_DEADLOCK FALSE
