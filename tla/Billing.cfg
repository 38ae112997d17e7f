SPECIFICATION FairSpec
CONSTANTS
    Syncers = {"s1", "s2"}
    Checkouts = {"a", "b"}
    Included = 1
    MaxMembers = 2
    MaxSubs = 2
    MaxCustomers = 2
    MaxChanges = 2
CHECK_DEADLOCK FALSE
INVARIANTS TypeOK SubscriptionsAreSeen DeletedIsNotCharged
PROPERTIES BillSettles
