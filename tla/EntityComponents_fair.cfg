SPECIFICATION FairSpec
CONSTANTS
    c1 = c1
    c2 = c2
    n1 = n1
    Conns = {c1, c2}
    Names = {n1}
    MaxEntities = 1
    NumData = 2
INVARIANT NoStaleSubscription
INVARIANT SubscribersAreCurrent
INVARIANT OrphansWereLate
PROPERTY TypeIDsAreStable
PROPERTY RequestCompletes
CHECK_DEADLOCK FALSE
