SPECIFICATION Spec
CONSTANTS
    t1 = t1
    t2 = t2
    alice = alice
    visitor = visitor
    home = home
    doc = doc
    nobody = nobody
    Handlers <- MCHandlers
    Nobody = nobody
    MaxTime = 3
    Callers <- MCCallers
    Capacity <- MCCapacity
    Period = 2
    MaxKeys = 1
    Hosts <- MCHosts
    Limit = 1
    Window = 1
    PruneEvery = 2
    Principals <- MCPrincipals
    Documents <- MCDocuments
    TTL = 1
    Ids <- MCIds
    Asked <- MCAsked
    Cap = 2
    HostOf <- MCHostOf
    MaxCalls <- MCMaxCalls
INVARIANTS
    TypeOK
    RateKept
    WindowKept
    HeartbeatKept
    PageWalk
PROPERTY ExpiredSwept
CHECK_DEADLOCK FALSE
