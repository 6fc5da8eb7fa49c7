SPECIFICATION Spec
CONSTANTS
    n1 = n1  n2 = n2  n3 = n3  u1 = u1  u2 = u2
    Notifies = {n1, n2}
    Reqs = {r1}
    Users = {u1}
    Online = {u1}
    SenderOf <- MCMixed
    TargetsOf <- MCToAll
    Broadcasts = {}
    NumericIDs = {u1}
    Kinds = {"tenantDelete"}
    Serial = TRUE
    MaxLosses = 0
    MaxErrors = 0
CHECK_DEADLOCK FALSE
INVARIANT
    PersonalDeletedByUser
