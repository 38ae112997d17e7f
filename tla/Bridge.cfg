SPECIFICATION MCSpec
CONSTANTS
    Parts = {"locks", "sync"}
    p1 = p1
    p2 = p2
    t1 = t1
    t2 = t2
    Procs <- MCProcs
    Tasks <- MCTasks
    Sessions = {"s1"}
    NoBackend = NoBackend
    MaxConn = 2
    MaxFails = 1
    MaxDepth = 3
    Channels <- QuietOrRough
    Overlap = FALSE
    MaxEvents = 4
    MaxGens = 2
    MaxWipes = 1
    PageSize = 1
    MaxForward = 2
    MaxRounds = 3
    MaxPerChat = 3
SYMMETRY Symmetry
CHECK_DEADLOCK FALSE
INVARIANTS BothInv HeldIsLocked MutualExclusion NothingIsForgotten
PROPERTIES TrueMeansLocked TombstonesStay
