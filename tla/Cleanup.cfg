SPECIFICATION CleanupSpec
CONSTANTS
    n1 = n1  n2 = n2  n3 = n3  u1 = u1
    Notifies = {n1, n2, n3}
    Reqs = {r1, r2}
    Users = {u1}
    Online = {u1}
    SenderOf <- MCMixed
    TargetsOf <- MCTargets
    Broadcasts = {n2}
    NumericIDs = {u1}
    Kinds = {"read", "delete", "userRead", "userDelete", "tenantRead", "tenantDelete"}
    Serial = TRUE
    MaxLosses = 0
    MaxErrors = 0
    MaxPageSize = 2
    Expiring = {n1, n2}
    BatchSize = 1
    MaxInterrupts = 1
INVARIANTS BroadcastUnreadExact ShownPersonalIsCached PagesPartition UnreadAsListed NoOrphanRows RunCompletes
PROPERTIES  ReadStaysRead 
CHECK_DEADLOCK FALSE
