SPECIFICATION FairSpec
CONSTANTS
    File = {f1, f2}
    NumPaths = 2
    Root = {"r1", "r2"}
    RootOf <- TwoRoots
    Generation = 3
    MaxEvents = 3
    None = None
CHECK_DEADLOCK FALSE
PROPERTIES
    ScanIsExact
    ScanKeepsOtherRoots
    ScanKeepsSteadyFiles
    NobodyForgotten
    RecordContinues
    FilesSettle
