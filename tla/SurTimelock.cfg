\* A timelock with two accounts and one target.
SPECIFICATION Spec
CONSTANTS
    Accounts = {"safe", "hot"}
    Targets = {"vault"}
    MinDelay = 1
    MaxDelay = 2
    GracePeriod = 1
    Delays = {0, 1, 2}
    StartTime = 1
    MaxTime = 4
    MaxTransactions = 2
INVARIANTS
    NeverTwice
PROPERTIES
    ChangesAreAnnounced
    GuardianOnlyPauses
