SPECIFICATION FairSpec
CONSTANTS
    Channels = {1, 2, 3}
    Senders = {1}
    MaxBackoff = 2
    Budgets <- MCBudgets
INVARIANTS
    NobodyWaitsInVain
PROPERTIES
    SignalsAreFresh
    Reconnects
CHECK_DEADLOCK FALSE
