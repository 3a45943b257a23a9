SPECIFICATION Spec
CONSTANTS
    Markets = {btc, eth}
    Minute = "1"
    Hour = "60"
    Resolutions = {"1", "60"}
    Duration <- MinuteAndHour
    Prices <- TwoDecimals
    Amounts = {1, 3}
    MaxLen = 3
    LimitNumbers <- AroundLimits
SYMMETRY Symmetry
INVARIANTS CandleSummarises ChartsTellLiveCandles AggregationKeepsTotals MinutePipelinesAgree
    StatisticsSumUpKlines NewestTradesFirst
CHECK_DEADLOCK FALSE
