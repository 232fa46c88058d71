\* Four acts of the user in paper mode; four sockets and five messages live.
SPECIFICATION Spec
CONSTANTS
    Markets = {"BTC", "ETH"}
    Tiers <- MCTiers
    FeePart = 12
    Dust = 1
    InitialWallet = 12
    InitialBalance = 60
    Prices = {12, 24}
    Tickets <- MCAllTickets
    Pairs <- MCPairs
    Amounts = {72}
    MaxOps = 4
    MaxRetries = 2
    MaxPerWindow = 3
    MaxSockets = 4
    MaxGiven = 5
INVARIANTS
    PaperFundsAccounted
    SentInOrder
PROPERTIES
    GroupsLeaveTogether
    ReloadKeepsPositions
CHECK_DEADLOCK FALSE
