SPECIFICATION FairSpec
CONSTANTS
    c1 = c1  c2 = c2  c3 = c3  n1 = n1  n2 = n2  u1 = u1  u2 = u2  a = a  b = b
    Nodes = {a, b}
    Cluster = TRUE
    Conns = {c1, c2, c3}
    Notifies = {n1}
    Users = {u1, u2}
    HomeOf <- MCTwoNodes
    TenantOf <- MCOneTenant
    UserOf <- MCUsers
    TargetsOf <- MCBroadcastAndOne
    QueueCap = 4
    ChanCap = 4
    MaxErrors = 1
CHECK_DEADLOCK FALSE
  
PROPERTY Delivered
