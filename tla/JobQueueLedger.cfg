SPECIFICATION FairSpec
CONSTANTS
    w1 = w1
    w2 = w2
    c1 = c1
    c2 = c2
    Worker <- MCWorker
    Client <- MCOneClient
    Key <- IdentityKeys
    Guarded <- IdentityKeys
    Handled <- IdentityOnly
    Identity <- IdentityOnly
    Provider <- IdentityOnly
    Requeuable <- IdentityOnly
    Serves <- MCServesAll
    Follow <- IdentityFollow
    RevOf <- IdentityRevs
    Leased = {1}
    MaxJobs = 2
    MaxAttempts = 2
    MaxLog = 2
    MaxCrashes = 1
CHECK_DEADLOCK FALSE
INVARIANT IndInv
PROPERTIES
    ImplementsLedger
    JobsSettle
