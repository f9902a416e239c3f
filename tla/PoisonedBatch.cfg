SPECIFICATION CatalogSpec
CONSTANTS
    Source = {"s1"}
    Order <- SingleOrder
    Endpoint = {"e1"}
    Listed <- OverlapListed
    MaxListing = 2
    Collector = {"loop"}
    BatchSize = 2
    MaxGaps = 0
    Environment = {}
INVARIANTS BothLabelsKept
