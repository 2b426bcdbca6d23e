SPECIFICATION Spec
CONSTANTS
    t1 = t1
    t2 = t2
    c1 = c1
    c2 = c2
    d1 = d1
    d2 = d2
    NoThread = NoThread
    Threads <- MCThreads
    Conns <- MCConns
    Deployments <- Both
    Docs = {d1, d2}
    Published = {d1}
    Ops = {"fork", "touch"}
    MaxRevisions = 1
    MaxCalls = 2
PROPERTY ForkSeeded
CHECK_DEADLOCK FALSE
