\* The server as it is: is a connection that was shut down ever let go?
SPECIFICATION FairSpec
CONSTANTS
    Acceptors = {a1}
    PoolSize = 2
    Clients = 2
    MaxPools = 2
    Failures = FALSE
    Fitting = {"accept", "write", "read"}
CHECK_DEADLOCK FALSE
PROPERTIES StoppedIsReleased
