SPECIFICATION FairSpec
CONSTANTS
    Trades <- MCTrades
    MaxBatchSize = 2
    SubmitTries = 2
    ReceiptTries = 2
    MaxRequeue = 1
    MaxSent = 2
    MaxRestarts = 1
    Traders = {"ana", "bob"}
    Tiers <- MCTiers
    Links <- MCLinks
    MaxStreakDays = 7
    MaxDay = 1
    Clients = {1, 2, 3}
    Accounts = {"ana", "bob"}
    Requests <- MCRequests
    MinSize = 1
    LotSize = 1
    TickSize = 1
    Depth = 100
    SnapshotDepth = 1
    MaxConnections = 2
    MaxMessages = 2
    MaxLapses = 1
    MaxReceived = 4
    NoTrader = "nobody"
INVARIANTS
    TradesAccounted
    NeverOvercounted
    PointsExplained
    OrdersProven
    SubscribersSeeTheBook
PROPERTY TradesLeave
CHECK_DEADLOCK FALSE
