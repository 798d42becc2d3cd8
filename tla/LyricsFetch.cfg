SPECIFICATION FairSpec
CONSTANTS
    Stem = {"a", "b"}
    Input <- MCInputs
    DurationOf <- MCDurations
    Identity = {"i1", "i2"}
    Config = {"c1", "c2"}
    FirstIdentity = "i1"
    FirstConfig = "c1"
    Lines <- MCLines
    MaxTries = 2
    MaxEvents = 4
    MaxFaults = 2
    None = None
CHECK_DEADLOCK FALSE
INVARIANTS
    PendingHasFetch
    SyncedMatchesFile
    LyricsOfCurrent
    EvidenceAnswers
PROPERTY PendingSettles
