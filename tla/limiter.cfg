SPECIFICATION LimiterSpec
CONSTANTS
  all = all
  ip = ip
  ka = ka
  kb = kb
  ra = ra
  rb = rb
  Buckets = {all, ip, ka, kb}
  Global = all
  Requests = {ra, rb}
  Path <- MCPath
  Full <- MCFull
  Rate <- MCRate
  Cost <- MCCost
  Stale = 3
  Interval = 2
  MaxTime = 6
INVARIANTS
  WindowBound
  RetryAfterHolds
PROPERTY ImplementsBuckets
CHECK_DEADLOCK FALSE
