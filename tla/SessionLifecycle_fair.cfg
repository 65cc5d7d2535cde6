SPECIFICATION FairSpec
CONSTANTS
    c1 = c1
    c2 = c2
    Conns = {c1, c2}
    MaxSessions = 3
INVARIANT TypeOK
INVARIANT StoredSessionIsOpen
INVARIANT NoAbandonedSession
INVARIANT HandlersAreMembers
INVARIANT NoLeakedID
PROPERTY RequestCompletes
PROPERTY ImplementsMembership
PROPERTY ClosedDispatcherExits
