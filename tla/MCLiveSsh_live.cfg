SPECIFICATION FairSpec

CONSTANTS
  c1 = c1  c2 = c2  t1 = t1  t2 = t2
  Conns = {c1, c2}
  Tickets = {t1, t2}
  NoConn = NoConn
  NoTicket = NoTicket
  TicketTtl = 1
  IdleTtl = 2
  MaxTime = 0
  MaxBoots = 0
  SharedManager = FALSE

PROPERTIES
  SocketClosesSettle
  EndsReachTheRow

\* Every upgrade used and every ticket spent: the instance simply stops.
CHECK_DEADLOCK FALSE
