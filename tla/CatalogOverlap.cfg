SPECIFICATION CatalogSpec
CONSTANTS
    Source = {"s1"}
    Order <- SingleOrder
    Endpoint = {"e1"}
    Listed <- OverlapListed
    MaxListing = 2
    Collector = {"initial", "loop"}
    BatchSize = 2
    MaxGaps = 0
    Environment = {"remove", "crash", "open_error", "stale"}
INVARIANTS RowsLinked LockOnlyInBatch
