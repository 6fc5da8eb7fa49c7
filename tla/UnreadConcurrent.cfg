SPECIFICATION Spec
CONSTANTS
    n1 = n1  n2 = n2  n3 = n3  u1 = u1  u2 = u2
    Notifies = {n1, n2, n3}
    Reqs = {r1}
    Users = {u1, u2}
    Online = {}
    SenderOf <- MCMixed
    TargetsOf <- MCToU1
    Broadcasts = {n2, n3}
    NumericIDs = {u2}
    Kinds = {"read", "tenantRead", "userDelete"}
    Serial = FALSE
    MaxLosses = 1
    MaxErrors = 1
SYMMETRY MCSymmetry
CHECK_DEADLOCK FALSE
INVARIANTS TypeOK RowsAddressed CacheNeverAhead OperatedNotCounted
