SPECIFICATION Spec
CONSTANTS
    Rows = 5
    Tiers <- TwoTiers
    Source = {s1, s2}
    PoolSize = 4
    MaxLimit = 5
SYMMETRY Symmetry
INVARIANTS ImplementsFetch TierQuotaKept ProvidersBalanced SlotsReused TiersInterleaved
