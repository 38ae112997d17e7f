SPECIFICATION MCSpec
CONSTANTS
    Users = {"u1", "u2"}
    Known = {"u1"}
    Configured = {{}, {"billing"}, {"crm"}}
    InOrder = TRUE
    Batch = 2
    MaxEvents = 3
    MaxFaults = 1
    SqlCallers = {"c1", "c2"}
    SqlWorlds <- MCSqlWorlds
INVARIANTS AllTypeOK DeletedIsCancelled NothingIsMisread UnsubscribeStays
PROPERTIES Consumed
CHECK_DEADLOCK FALSE
