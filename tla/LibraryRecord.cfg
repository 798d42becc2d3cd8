SPECIFICATION Spec
CONSTANTS
  Record = {r1, r2}
  Path = {p1, p2}
  r1 = r1
  r2 = r2
  p1 = p1
  p2 = p2
  Source <- MCSource
  Media <- MCMedia
  InitialRecord <- MCInitialRecord
  InitialPath <- MCInitialPath
  EditPaths = {p2}
  ProviderRecord <- MCProviderRecord
  Fits <- MCFits
  Published = {r1}
  NoSource = 0
  SetKey <- MCSetKey
  NoRecord = NoRecord
  Nothing = Nothing
  MaxRevisions = 3
  MaxAttempts = 3
  MaxChanges = 3
CHECK_DEADLOCK FALSE
INVARIANTS QuietServed AttemptsOwnTheirRevision
PROPERTIES EligibleKept
