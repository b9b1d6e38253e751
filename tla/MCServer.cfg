\* The server as it is: two chains that may fail, pools of two.  It may stop (no
\* client left, or the services stopped), so deadlock is not an error.
SPECIFICATION FairSpec
CONSTANTS
    Acceptors = {a1, a2}
    PoolSize = 2
    Clients = 4
    MaxPools = 4
    Failures = TRUE
    Fitting = {"accept", "write"}
CHECK_DEADLOCK FALSE
INVARIANTS TypeOK OneChainPerSlot HandlersHaveObjects HandlersUseBlock
PROPERTIES ChainsFillPools SlotsAreFresh ClientsAreAccepted IsAcceptService
