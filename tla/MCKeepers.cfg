\* Each of the three keepers, with one failure of the network.
SPECIFICATION FairSpec
CONSTANTS
    Parts = {"liquidations", "prices", "funding"}
    Traders = {1, 2}
    MaxSize = 2
    Chunk = 2
    MaxBatchSize = 2
    MinReward = 1
    MaxEvents = 3
    MaxFailures = 1
    MarketIds <- MCMarketIds
    Prices = {100, 101, 150}
    BasisPoints = 10000
    MaxPriceChangeBps = 1000
    MaxDeviationBps = 200
    RequiredGoodPrices = 1
    MaxMoves = 2
    MaxLost = 1
    FundedMarkets <- MCMarketIds
    Interval = 1
    MaxClock = 5
    MaxTxFailures = 1
PROPERTIES
    LiquidatedInTheEnd
    MarksMoveInSteps
    PricesArrive
    FundingCatchesUp
CHECK_DEADLOCK FALSE
