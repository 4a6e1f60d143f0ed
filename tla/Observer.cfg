\* Two pairs, one of them possibly twice, and two changes of the page.
SPECIFICATION FairSpec
CONSTANTS
    Pairs = 2
    Row = {1, 2, 3}
    Orders <- MCOrders
    Text <- MCText
    Valid <- MCValid
    None = None
    InitialPages <- MCPages
    MaxChanges = 2
    MaxPosted = 1
INVARIANTS ObserverTypeOK HeartbeatTruth Isolated
PROPERTIES EmitsOnlyItsOwnChanges Reacquired
CHECK_DEADLOCK FALSE
