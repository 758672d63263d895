SPECIFICATION Spec

CONSTANTS
  Tickets = {t1}
  Tcp = {telnet}
  Opens = {c1, c2}
  Keyed = {ssh}
  Bare = telnet
  Logins = {l1, l2}
  Gone = Gone
  MaxEdits = 2
  MaxBoots = 1

SYMMETRY Interchangeable

INVARIANTS
  AcceptedOnce
  TargetWasCurrent
  SecretIsMinted
  RowTellsFirstEnd
  OnlyEarlyCloseOrphans

PROPERTY RowsFollowLifecycle

\* Every ticket and upgrade used: the instance simply stops.
CHECK_DEADLOCK FALSE
