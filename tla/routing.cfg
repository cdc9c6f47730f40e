SPECIFICATION RoutingSpec
CONSTANTS
  r1 = r1
  r2 = r2
  r3 = r3
  r4 = r4
  ka = ka
  small = small
  large = large
  mute = mute
  m1 = m1
  m2 = m2
  p1 = p1
  None = None
  Requests = {r1, r2, r3, r4}
  Keys = {ka}
  Nodes = {small, large, mute}
  Models = {m1, m2}
  Prefixes = {p1}
  KeyOf <- MCKeyOf
  Cost <- MCCost
  MaxCost = 2
  Streaming = {r1}
  MaxConcurrent = 2
  Budget = 3
  MaxHour = 2
  ModelOf <- MCModelOf
  PrefixOf <- MCPrefixOf
  Need <- MCNeed
  Window <- MCWindow
  Offers <- MCOffers
  Tokens <- MCTokens
  MaxTokens = 1
  DailyBudget = 1
INVARIANTS
  SlotsAreCounted
  OverdraftBound
  DailyOverdraftBound
PROPERTIES
  FitsIfAnyDoes
  StaysHome
CHECK_DEADLOCK FALSE
