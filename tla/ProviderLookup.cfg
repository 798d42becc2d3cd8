SPECIFICATION LookupFairSpec
CONSTANTS
  RecordingId <- MCRecording
  ReleaseId <- MCRelease
  Lists <- MCLists
  Unofficial <- MCUnofficial
  Tracks <- MCTracks
  DataTracks <- MCDataTracks
  Agreement <- MCAgreement
  Known <- MCKnown
  Heard <- MCHeard
  Found <- MCFound
  Threshold = 70
  PageSize = 2
  Concurrency = 2
  MaxEvents = 2
CHECK_DEADLOCK FALSE
INVARIANTS
  ResultInOrder
  AllIsFound
PROPERTIES
  RefreshWritesConfirmed
  LookupsEnd
