SPECIFICATION FairSpec
CONSTANTS
    t1 = t1
    t2 = t2
    c1 = c1
    i1 = i1
    r1 = r1
    r2 = r2
    q1 = q1
    q2 = q2
    NoTask = NoTask
    Free = Free
    Tasks <- TwoTasks
    Conns <- OneConn
    Instances <- OneInstance
    Target <- MCTarget
    Leads <- MCLeads
    Runs <- TwoRuns
    Requests <- TwoRequests
    MaxActive = 1
    Editable <- OneConn
    Deletable <- OneTask
INVARIANTS EndedIsDead ConcurrencyLimit
PROPERTIES ImplementsRunHistory StopEndsProcess EndIsRecorded
CHECK_DEADLOCK FALSE
