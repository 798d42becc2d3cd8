SPECIFICATION Spec
CONSTANTS
    r1 = r1
    w1 = w1
    w2 = w2
    Record = {r1}
    Worker = {w1, w2}
    Root = {"media", "other"}
    Home = "media"
    Job = {"publish", "lyrics", "sweep"}
    Losable = {}
    MaxVersion = 2
    MaxMoves = 2
    MaxFaults = 1
SYMMETRY WorkerSymmetry
CHECK_DEADLOCK FALSE
INVARIANTS
    PublishedServed
    OldOutputGone
PROPERTY SidecarsKept
