SPECIFICATION Spec
CONSTANTS
    w1 = w1
    w2 = w2
    c1 = c1
    c2 = c2
    Worker <- MCWorker
    Client <- MCClients
    Key <- PublishKeys
    Guarded <- PublishGuarded
    Handled <- PublishGuarded
    Identity = {}
    Provider = {}
    Requeuable = {}
    Serves <- MCServesAll
    Follow <- PublishFollow
    RevOf <- PublishRevs
    Leased = {1}
    MaxJobs = 3
    MaxAttempts = 2
    MaxLog = 3
    MaxCrashes = 0
SYMMETRY SessionSymmetry
CHECK_DEADLOCK FALSE
INVARIANTS
    JobMatchesLastAttempt
    AttemptBudget
    OneActivePerGuardedKey

