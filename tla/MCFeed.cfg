SPECIFICATION FeedSpec
CONSTANTS
    None = None
    Chains = {"base", "arbitrum"}
    Metrics <- MCMetrics
    Ratios = {20, 40}
    TailLen = 2
    TickSecs = 40
    MaxAge = 101
INVARIANTS
    GreenNeedsMeasurement
PROPERTY
    PriceFollowsFeed
