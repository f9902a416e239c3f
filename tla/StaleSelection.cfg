SPECIFICATION Spec
CONSTANTS
    FailureThreshold = 1
    RemovalThreshold = 2
    MaxLevel = 1
    NoProxy = NoProxy
    Proxy = {p1}
    Worker = {w1}
    QueueMax = 1
    BatchMax = 2
    Initial = TRUE
    Environment = {}
    MaxFailures = 2
PROPERTIES ChecksOnlyEligible
