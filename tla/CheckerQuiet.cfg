SPECIFICATION Spec
CONSTANTS
    FailureThreshold = 2
    RemovalThreshold = 2
    MaxLevel = 2
    NoProxy = NoProxy
    Proxy = {p1, p2}
    Worker = {w1, w2}
    QueueMax = 1
    BatchMax = 2
    Initial = FALSE
    Environment = {"outage", "resync"}
    MaxFailures = 3
SYMMETRY Symmetry
INVARIANTS ServedBelowThreshold CheckingHasOwner
PROPERTIES DisabledStays ChecksOnlyEligible
