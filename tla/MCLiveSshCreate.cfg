SPECIFICATION FairSpec

CONSTANTS
  r1 = r1  r2 = r2  r3 = r3  r4 = r4
  Reqs <- FourReqs
  HostOf <- TwoHosts
  Reusing <- Thrifty
  NoReq = NoReq
  MaxLive = 2
  MaxBoots = 1

INVARIANTS
  TypeOK
  OneAtATime
  LimitHolds

PROPERTIES
  EveryRequestEnds
  ServedInOrder

\* Every request served and every session over: the instance simply stops.
CHECK_DEADLOCK FALSE
