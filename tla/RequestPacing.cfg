SPECIFICATION FairSpec
CONSTANTS
    Caller = {c1, c2}
    Client = {w1, w2}
    Delay <- MCDelays
    FirstDelay = 1
    Timeout = 1
    MaxAttempts = 2
    Hints <- MCHints
    MaxLate = 1
    MaxEvents = 8
    None = None
CHECK_DEADLOCK FALSE
INVARIANTS
    RateHeld
    BudgetKept
    SavedIsLive
PROPERTY EveryGetReturns
