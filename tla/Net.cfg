\* Both threading models: two clients and two requests, the pool with a thread it may add.
CONSTANTS
    Clients = {1, 2}
    Threads = {11, 12, 13}
    CoreSize = 2
    MaxSize = 3
    MaxRequests = 2
    MaxGone = 1
    Params <- Servers
    EarlyThreads = FALSE
SPECIFICATION Spec
INVARIANT OneUser
INVARIANT PoolStopsClean
PROPERTY Served
PROPERTY Stops
CHECK_DEADLOCK FALSE
