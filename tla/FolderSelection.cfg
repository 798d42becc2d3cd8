SPECIFICATION Spec
CONSTANTS
    Member = {m1, m2}
    Release = {A, B}
    Provider = {"acoustid", "musicbrainz"}
    MayGiveUp = TRUE
    MaxRequests = 2
SYMMETRY FolderSymmetry
CHECK_DEADLOCK FALSE
INVARIANTS
    OneRelease
    LostOnlyByJoining
