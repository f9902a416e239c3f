SPECIFICATION Spec
CONSTANTS
    FailureThreshold = 2
    RemovalThreshold = 3
    MaxLevel = 2
    NoProxy = NoProxy
    Proxy = {p1}
    Worker = {w1}
    QueueMax = 1
    BatchMax = 2
    Initial = TRUE
    Environment = {"outage", "error", "refill_error", "crash", "stop", "slow", "collect", "touch", "resync"}
    MaxFailures = 4
INVARIANTS TypeOK RowsCoherent CheckOwnsRow
PROPERTIES RemovalEarned InconclusiveRestores
