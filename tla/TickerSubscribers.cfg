SPECIFICATION FairSpec
CONSTANTS
    Markets = {btc, eth}
    Workers = {w1, w2}
    ChannelCap = 1
    MaxDeals = 2
PROPERTY EveryMarketIsSubscribed
