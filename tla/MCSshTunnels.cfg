SPECIFICATION Spec

CONSTANTS
  s1 = s1
  s2 = s2
  s3 = s3
  u1 = u1
  u2 = u2
  Tunnels <- Alone
  Users <- Members
  Owner <- AloneOwner
  Lists = {l1}
  Proxies = {p1, p2}
  NoTunnel = NoTunnel
  MaxOpen = 1
  IdleAfter = 1
  MaxTime = 2

SYMMETRY Interchangeable

INVARIANTS
  TypeOK
  LimitHolds
  IdleEndsLate
  OnlyRacesRevive

\* Every request served and the clock at its bound: the instance simply stops.
CHECK_DEADLOCK FALSE
