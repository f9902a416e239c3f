SPECIFICATION FairSpec
CONSTANTS
    FailureThreshold = 1
    RemovalThreshold = 1
    MaxLevel = 1
    NoProxy = NoProxy
    Proxy = {p1, p2}
    Worker = {w1}
    QueueMax = 1
    BatchMax = 2
    Initial = FALSE
    Environment = {"outage", "error", "refill_error", "slow", "crash", "stop", "collect"}
    MaxFailures = 0
PROPERTIES CheckEnds ReservationEnds OutageNoticed
