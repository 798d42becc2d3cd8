SPECIFICATION FairSpec
CONSTANTS
    r1 = r1
    r2 = r2
    x = x
    y = y
    Record = {r1, r2}
    Path = {x, y}
    Intent <- PathIntents
    MaxAttempts = 3
    MaxFaults = 1
CHECK_DEADLOCK FALSE
PROPERTY AttemptsSettle
