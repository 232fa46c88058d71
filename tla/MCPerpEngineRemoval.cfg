\* One market with margin tiers: what taking margin out leaves.
SPECIFICATION SceneSpec
CONSTANTS
    N = 5
    MarketCount = 2
    BPS = 10
    SIZE_PRECISION = 1
    FUNDING_PRECISION = 4
    Traders = {4}
    Keepers = {5}
    Engine = 1
    InsuranceFund = 2
    FundingPool = 3
    FeeRecipient = 2
    InitialBalances <- MCBalances
    InitialCredits <- MCCredits
    Config <- MCConfig
    MaxFundingRate = 1
    BadDebtRewardBps = 5
    MaxRewardBps = 5
    MaxTierVersions = 1
    PriceAges = {0, 1, 2}
    BreakerTimes = {0, 1}
    MarginModes = {"ISOLATED"}
    Prices = {3, 4}
    IndexPrices = {3, 4}
    SizeDeltas <- MCSizeDeltas
    Amounts = {3}
    TierLists <- MCTiers
    InitialParams <- MCInitialParams
    ParamSets <- MCNoParams
    MarketParamSets <- MCNoParams
    Withdrawals = {}
    Statuses = {}
    BreakerParams = {}
    MaxTime = 1
    MaxCalls = 2
PROPERTY RemovalKeepsMaintenance
