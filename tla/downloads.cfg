SPECIFICATION FairDownloads
CONSTANTS
  f1 = f1
  f2 = f2
  d1 = d1
  d2 = d2
  Files = {f1, f2}
  Downloads = {d1, d2}
  FileOf <- MCFileOf
  Listeners = {l1}
  None = None
  Cap = 2
  MaxStarts = 2
INVARIANTS
  PartialHasCause
  ViewReachesStatus
PROPERTIES
  VerifiedStart
  EveryDownloadEnds
CHECK_DEADLOCK FALSE
