SPECIFICATION ReadersFairSpec
CONSTANTS
    MaxId = 3
    Tables <- MCTables
    MaxQuality = 2
    MaxWrites = 2
    BatchSize = 2
    PageSize = 2
    Filters <- MCFilters
    Adapter = {"geonode", "litport", "nodemaven", "proxydb", "proxyscrape", "proxycompass", "text_list"}
    Item <- MCItem
    SiteListings <- MCListings
    PageRows = 2
    RowsServed = {1, 2}
    MaxPages = 5
    MaxChanges = 2
    Supported = {"http", "https", "socks4", "socks5"}
    ListProtocol = "socks4"
    Endpoint = {"A", "a", "c"}
    Normal <- MCNormal
    Source = {1, 2}
    OldTables <- MCOldTables
INVARIANTS WalkComplete CountsAddUp ListingDriftOnly VisitDriftOnly UpgradeMerges
PROPERTIES ScoreSettles PagingEnds
