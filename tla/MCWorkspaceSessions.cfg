SPECIFICATION Spec

CONSTANTS
  Sessions = {s1, s2}
  Panes = {1, 2}
  MaxAsks = 2

SYMMETRY Interchangeable

INVARIANTS
  LaunchPaneWaits
  ClosedIsNotShown
  HiddenIsClosed

\* Every session closed: the instance simply stops.
CHECK_DEADLOCK FALSE
