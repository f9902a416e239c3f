SPECIFICATION Spec
CONSTANTS
    FailureThreshold = 1
    RemovalThreshold = 1
    MaxLevel = 1
    NoProxy = NoProxy
    Proxy = {p1, p2}
    Worker = {w1, w2}
    QueueMax = 1
    BatchMax = 2
    Initial = TRUE
    Environment = {"error", "refill_error", "crash", "stop", "slow", "collect"}
    MaxFailures = 0
SYMMETRY Symmetry
INVARIANTS ReservationsExact OneCheckPerProxy QueueBounded
PROPERTIES AdmissionKept
