SPECIFICATION Spec
CONSTANTS
    n1 = n1  n2 = n2
    Notifies = {n1, n2}
    SenderOf <- MCSenders
    UserTTL = 1
    TenantTTL = 2
    MaxTTL = 1
    MaxTime = 4
    Never = Never
    Unset = Unset
INVARIANT
    RemovedAfterExpiry
CHECK_DEADLOCK FALSE
