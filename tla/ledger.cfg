SPECIFICATION LedgerSpec
CONSTANTS
  n1 = n1
  n2 = n2
  Nodes = {n1, n2}
  Untracked = Untracked
  MaxPeak <- MCMaxPeak
  MaxTotal <- MCMaxTotal
VIEW MCView
INVARIANTS
  CacheFollowsRows
PROPERTIES
  ShownNeverFalls
CHECK_DEADLOCK FALSE
