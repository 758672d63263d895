SPECIFICATION Spec

CONSTANTS
  c1 = c1  c2 = c2  t1 = t1  t2 = t2
  Conns = {c1, c2}
  Tickets = {t1, t2}
  NoConn = NoConn
  NoTicket = NoTicket
  TicketTtl = 1
  IdleTtl = 2
  MaxTime = 2
  MaxBoots = 1
  SharedManager = FALSE

SYMMETRY Interchangeable

INVARIANTS
  TypeOK
  SocketsAreServed
  AdmittedOnce
  NoRevivalAfterRestart
  UnattachedRowsExpire
  SettledRowTellsEnd
  NeverStuck

PROPERTY
  FollowsLifecycle

\* Every upgrade used and every ticket spent: the instance simply stops.
CHECK_DEADLOCK FALSE
