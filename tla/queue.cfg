SPECIFICATION FairSpec
CONSTANTS
  r1 = r1
  r2 = r2
  r3 = r3
  ka = ka
  kb = kb
  NoRequest = NoRequest
  Requests <- MCRequests
  Keys <- MCKeys
  OwnerKey <- MCOwnerKey
  MaxQueueSize = 2
  MaxPerKey = 1
  Selects = {s1}
INVARIANTS
  NoStrandedWaiter
  ShutdownReleasesAll
  FairShare
  AnswerMatchesRecord
PROPERTIES
  ImplementsService
  DrainIsQuiet
  EveryWaiterReleased
  StopCompletes
CHECK_DEADLOCK FALSE
