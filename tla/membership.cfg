SPECIFICATION FairMembership
CONSTANTS
  n1 = n1
  a = a
  Nodes = {n1}
  NoName = NoName
  Models = {a}
  Verdicts = {"pass", "refuse"}
  Pools <- MCPools
  Late <- MCLate
  MaxTries = 2
  MaxInFlight = 2
INVARIANTS
  NothingListedWhenGone
  TokensAgree
PROPERTIES
  ListingConverges
  DepartureNoticed
CHECK_DEADLOCK FALSE
