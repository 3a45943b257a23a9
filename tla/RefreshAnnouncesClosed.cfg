SPECIFICATION Spec
CONSTANTS
    Markets = {"btc"}
    Resolutions = {"60"}
    Duration <- MinuteAndHour
    Prices <- UniformPrices
    Amounts = {1}
    Instants <- WholeMinutes
    MinuteTicks = 2
    StreamCap = 2
    MaxDeals = 2
    MaxSkew = 0
    Stored <- MCStored
INVARIANT RefreshAnnouncesClosed
