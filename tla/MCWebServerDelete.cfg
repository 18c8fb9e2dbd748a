SPECIFICATION Spec
CONSTANTS
    Workers = {w1, w2}
    Passwords = {"p", "q"}
    Conns = {c1, c2}
    Limit = 2
    MaxRequests = 7
    MaxTasks = 1
CHECK_DEADLOCK FALSE
PROPERTY InUseIsKept
