SPECIFICATION Spec
CONSTANTS
    q1 = q1
    q2 = q2
    q3 = q3
    Requests = {q1, q2, q3}
    AsksOf <- MCAsksOf
    Sessions = {s1}
    Tickets = {t1}
    HasKey = TRUE
    ServiceTag = "svc"
    TTL = 2
    ExpireSeconds = 2
    MaxTime = 2
    MaxRestarts = 0
    None = None
INVARIANT
    ErrorCategoryKept
CHECK_DEADLOCK FALSE
