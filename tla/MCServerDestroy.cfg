\* The server as it is: does the deleter of a pool only meet connections?
SPECIFICATION Spec
CONSTANTS
    Acceptors = {a1}
    PoolSize = 2
    Clients = 2
    MaxPools = 2
    Failures = TRUE
    Fitting = {"accept", "write", "read"}
CHECK_DEADLOCK FALSE
PROPERTIES OnlyConnectionsAreDestroyed
