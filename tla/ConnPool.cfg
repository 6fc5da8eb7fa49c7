SPECIFICATION FairSpec
CONSTANTS
    c1 = c1  c2 = c2  c3 = c3  t1 = t1  u1 = u1  u2 = u2  id1 = id1  id2 = id2  id3 = id3
    Conns = {c1, c2, c3}
    Tenants = {t1}
    Users = {u1, u2}
    Observers = {o1}
    Dispatcher = dispatcher
    Nil = Nil
    TenantOf <- MCTenantOf
    UserOf <- MCUserOf
    ConnIDOf <- MCSharedIDs
INVARIANTS TypeOK NoSendOnClosed ReclaimedAtRest
PROPERTIES LeavesByOwnHand Contract EndedLeaves VisitEnds
