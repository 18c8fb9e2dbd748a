SPECIFICATION Spec
CONSTANTS
    t1 = t1
    t2 = t2
    c1 = c1
    i1 = i1
    r1 = r1
    r2 = r2
    q1 = q1
    q2 = q2
    NoTask = NoTask
    Free = Free
    Tasks <- TwoTasks
    Conns <- OneConn
    Instances <- OneInstance
    Target <- MCTarget
    Leads <- MCLeads
    Runs <- TwoRuns
    Requests <- OneRequest
    MaxActive = 2
    Editable <- NoConns
    Deletable <- NoTasks
INVARIANTS OneProcessPerTask
CHECK_DEADLOCK FALSE
