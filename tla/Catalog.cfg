SPECIFICATION CatalogFairSpec
CONSTANTS
    Source = {"s1", "s2"}
    Order <- OneOrder
    Endpoint = {"e1", "e2"}
    Listed <- CatalogListed
    MaxListing = 3
    Collector = {"loop"}
    BatchSize = 2
    MaxGaps = 1
    Environment = {"error", "crash", "remove", "disabled"}
INVARIANTS CatalogTypeOK OneRowPerEndpoint LinksTruthful
PROPERTIES HttpsKept CycleEnds
