SPECIFICATION ServerSpec
CONSTANTS
    c1 = c1  c2 = c2  c3 = c3  n1 = n1  n2 = n2  u1 = u1  u2 = u2  a = a  b = b
    Nodes = {a}
    Cluster = FALSE
    Conns = {c1, c2, c3}
    Notifies = {n1, n2}
    Users = {u1, u2}
    HomeOf <- MCOneNode
    TenantOf <- MCTwoTenants
    UserOf <- MCUsers
    TargetsOf <- MCToBoth
    QueueCap = 2
    ChanCap = 1
    MaxErrors = 1
CHECK_DEADLOCK FALSE
INVARIANTS TypeOK OnlyAddressed UnreadFirst
PROPERTIES LostOnlyAtLimits QueueDrains
