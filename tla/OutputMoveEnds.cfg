SPECIFICATION FairSpec
CONSTANTS
    r1 = r1
    w1 = w1
    w2 = w2
    Record = {r1}
    Worker = {w1, w2}
    Root = {"media", "other"}
    Home = "media"
    Job = {"publish", "sweep"}
    Losable = {r1}
    MaxVersion = 1
    MaxMoves = 1
    MaxFaults = 1
CHECK_DEADLOCK FALSE
PROPERTIES
    MoveEnds
    MissingMadeAgain
