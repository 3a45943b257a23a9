SPECIFICATION FairSpec
CONSTANTS
    Markets = {"btc"}
    Resolutions = {"1", "60"}
    Duration <- MinuteAndHour
    Prices <- UniformPrices
    Amounts = {1}
    Instants <- WholeMinutes
    MinuteTicks = 2
    StreamCap = 1
    MaxDeals = 2
    MaxSkew = 0
    Stored <- MCStored
INVARIANTS
    TypeOK
    CandleMatchesTally
    PricesInEnvelope
    UpdatesReflectCandles
    NestedVolumes
PROPERTIES
    UpdatesGoForward
    ImplementsLiveTotals
    CallsReturn
    ExpiredAreReplaced
