SPECIFICATION FairSpec
CONSTANTS
    Markets = {"btc", "eth"}
    Workers = {w1, w2}
    MaxMessages = 2
    MaxFaults = 2
    MaxRetries = 1
INVARIANTS
    LiveCoversStored
    LiveMatchesStored
    SettledIsStored
    DuplicatesNeedFaults
PROPERTIES
    DealsEndUpStored
