\* Both engines, three positions, paper or live, one restart.
SPECIFICATION Spec
CONSTANTS
    Engines = {"TREND_RIDER", "BREAKOUT_RETEST", "SNIPER", "SWING", "GRID", "REVERSAL"}
    DayLength = 2
    MaxConsecSL = 1
    SlWindow = 2
    PauseDuration = 2
    MaxTradesPerDay = 2
    MaxTradesPerEngine = 2
    MaxDailyLoss = 1
    StartingCapital = 0
    Fee = 0
    StopAt <- MCStopAt
    TakeAt <- MCTakeAt
    LiquidateAt <- MCLiquidateAt
    TrailAfter = 1
    TrailBack = 1
    MinProfit = 0
    MinHold = 1
    ExecutorDay = 2
    MaxDailyLossPaper = 5
    MinConfidenceSwing = 65
    Prices = {1, 3}
    MemoryWindow = 2
    MinTrades = 1
    MinSample = 1
    MinWinPct = 35
    Modes = {TRUE, FALSE}
    CandlesPer5m = 2
    MaxTime <- MCMaxTime
    MaxOpens = 3
    MaxFlights <- MCMaxFlights
    MaxPending = 2
    MaxRestarts <- MCMaxRestarts
    Limit <- MCLimit
    Cooldown <- MCCooldown
    MaxTotalPositions = 2
    MinConfidenceSniper = 70
    MaxConfidenceGrid = 35
    MinConfidenceReversal = 55
    ToxicTimes = {}
    RegimePause = 2
    StopsWindow = 2
    AnalysisInterval = 1
    AdaptiveInterval = 1
    Hour = 2
    RidesPerHour = 2
    RetestMin = 2
    RetestMax = 3
    BreakoutForgotten = 4
    Reports <- MCReports
    Macros <- MCMacros
    WarmupCandles = 2
    MaxCandles = 2
    MacroMinCandles = 3
    Setups <- MCSetups
    Signals <- MCSignals
    EngineTypes = {"scalp", "swing"}
INVARIANTS
    EngineLimits
    SwingGuarded
PROPERTIES
    DisabledForGood
    PausesHold
