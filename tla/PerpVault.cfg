\* PerpVault with two accounts and two units of USDC each.
SPECIFICATION Spec
CONSTANTS
    N = 2
    Supply = 2
    Amounts = {1, 2}
    TransferFees = {0, 1}
    DepositCaps = {0, 3}
    WithdrawalLimits = {0, 1}
    TransferLimits = {0, 1}
    MaxLegs = 2
    MaxCredits = 2
INVARIANTS
    BooksBalance
    Solvent
PROPERTIES
    FrozenWhilePaused
    ImplementsCustody
