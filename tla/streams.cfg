SPECIFICATION FairStreams
CONSTANTS
  c1 = c1
  c2 = c2
  c3 = c3
  here = here
  there = there
  Streams = {c1, c2, c3}
  Ips = {here, there}
  IpOf <- MCIpOf
  MaxStreams = 2
  MaxPerIp = 2
  Cap = 1
  None = None
  MaxEvents = 3
  Broadcasts = {b1, b2}
INVARIANTS
  SlotsAreStreams
  GaplessAtGateway
PROPERTIES
  CompleteReaches
  EveryBroadcastEnds
CHECK_DEADLOCK FALSE
