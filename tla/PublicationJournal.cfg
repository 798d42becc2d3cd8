SPECIFICATION Spec
CONSTANTS
    r1 = r1
    r2 = r2
    x = x
    y = y
    Record = {r1, r2}
    Path = {x, y}
    Intent <- MixedIntents
    MaxAttempts = 3
    MaxFaults = 2
CHECK_DEADLOCK FALSE
INVARIANTS
    PublishedContentSafe
    PreparedOutputExists
    ExposedOwnsPath
    SupersededRemoved
