SPECIFICATION FairSpec
CONSTANTS
    Streams = {s1, s2}
    DealCap = 1
    ClientCap = 1
    MaxDeals = 2
INVARIANTS TypeOK StreamsAscend GapsNeedAFullChannel
PROPERTIES EveryDealIsTaken ReadersAreServed StopsOnceClientsLeave
