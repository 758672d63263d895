SPECIFICATION Spec

CONSTANTS
  Sessions = {s1, s2}
  Launches = {l1, l2}
  Panes = {l1}
  MaxOpen = 1
  MaxAttempts = 2
  NoSession = NoSession

SYMMETRY Interchangeable

INVARIANTS
  LimitPassedOnlyByRaces
  PaneShowsNewest
  
  ClosedPaneSettlesRow


  

\* Every launch used: the instance simply stops.
CHECK_DEADLOCK FALSE
