\* Two traders with batches of two trades, and three who trade in both directions.
SPECIFICATION SceneSpec
CONSTANTS
    N = 6
    MarketCount = 1
    BPS = 100
    SIZE_PRECISION = 1
    FUNDING_PRECISION = 4
    Traders = {4, 5, 6}
    Keepers = {}
    Engine = 1
    InsuranceFund = 2
    FundingPool = 3
    FeeRecipient = 2
    InitialBalances <- MCBalances
    InitialCredits <- MCCredits
    Config <- MCConfig
    MaxFundingRate = 1
    BadDebtRewardBps = 50
    MaxRewardBps = 50
    MaxTierVersions = 1
    PriceAges = {0, 1, 2}
    BreakerTimes = {0, 1}
    MarginModes = {"ISOLATED"}
    Prices = {30, 37}
    IndexPrices = {30}
    SizeDeltas = {}
    Amounts = {1}
    TierLists = {}
    InitialParams <- MCInitialParams
    ParamSets <- MCNoParams
    MarketParamSets <- MCNoParams
    Withdrawals = {}
    Statuses = {}
    BreakerParams = {}
    MaxTime = 1
    MaxCalls = 5
    Orders <- MCOrders
    CommitBatches <- MCCommitBatches
    ExecutionSizes = {1, 2}
    MaxTrades = 2
    Fees <- MCFees
    MaxFeeBps = 2
    LongestDelay = 2
    Delays <- MCDelays
    SpreadTiers <- MCSpreadTiers
    InitialSettings <- MCInitialSettings
    InitialMaxDelay = 1
INVARIANTS
    NoOverfill
    LegsBalance
PROPERTIES
    CommittedTermsFixed
    PoolBacksPositions
