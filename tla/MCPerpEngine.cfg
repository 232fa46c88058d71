\* Two traders with isolated margin in one market, and one trader over two markets.
SPECIFICATION SceneSpec
CONSTANTS
    N = 5
    MarketCount = 2
    BPS = 10
    SIZE_PRECISION = 1
    FUNDING_PRECISION = 4
    Traders = {4, 5}
    Keepers = {5}
    Engine = 1
    InsuranceFund = 2
    FundingPool = 3
    FeeRecipient = 2
    InitialBalances <- MCBalances
    InitialCredits <- MCCredits
    Config <- MCConfig
    MaxFundingRate = 1
    BadDebtRewardBps = 5
    MaxRewardBps = 5
    MaxTierVersions = 1
    PriceAges = {0, 1, 2}
    BreakerTimes = {0, 1}
    MarginModes = {"ISOLATED", "CROSS"}
    Prices = {3, 4}
    IndexPrices = {3, 4}
    SizeDeltas <- MCSizeDeltas
    Amounts = {1}
    TierLists <- MCTiers
    InitialParams <- MCInitialParams
    ParamSets <- MCParamSets
    MarketParamSets <- MCMarketParamSets
    Withdrawals = {4}
    Statuses = {FALSE}
    BreakerParams <- MCBreakerParams
    MaxTime = 1
    MaxCalls = 4
INVARIANTS
    OpenInterestConsistent
    ActiveListsExact
PROPERTIES
    ExposureGrowsOnlyWhenOpen
    BystandersUntouched
    ParametersProspective
    ModeFixedWhileOpen
