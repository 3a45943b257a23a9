SPECIFICATION FairFeedSpec
CONSTANTS
    Symbols = {"id1", "BTC_ETH", "id2", "BTC_LTC"}
    Resolutions = {"1"}
    Times <- TwoTimes
    MaxBatchSize = 3
    MaxCharts = 4
    marketsMap <- TwoMarkets
    Updates <- TwoUpdates
    MaxFailures = 1
    MaxNilHandlers = 1
INVARIANTS
    PointsInOrder
    ChannelsExist
PROPERTIES
    ImplementsPublications
    TakenIsSettled
    FeedEnds
