SPECIFICATION MCSpec
CONSTANTS
    Procs = {"p1", "p2"}
    Crews <- MCCrews
    Alone = TRUE
    MaxFaults = 1
    MaxCrashes = 1
    MaxScans = 1
    MaxChanges = 2
    AlertWorlds <- MCWorlds
    Lids = {"l", "m"}
    Phones = {"p", "q"}
    Callers = {1, 2}
    Accounts <- MCAccounts
    MaxRows = 3
INVARIANTS AllTypeOK ReapsRightly  MailedOnce ScopeIsKept
PROPERTIES  ToldInTheEnd
CHECK_DEADLOCK FALSE
