SPECIFICATION Spec
CONSTANTS
    n1 = n1  n2 = n2  n3 = n3  u1 = u1  u2 = u2
    Notifies = {n2, n3}
    Reqs = {}
    Users = {u1}
    Online = {u1}
    SenderOf <- MCTenant
    TargetsOf <- MCToNone
    Broadcasts = {n2, n3}
    NumericIDs = {u1}
    Kinds = {}
    Serial = FALSE
    MaxLosses = 0
    MaxErrors = 0
CHECK_DEADLOCK FALSE
INVARIANT
    BroadcastsCounted
