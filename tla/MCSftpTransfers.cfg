SPECIFICATION Spec

CONSTANTS
  Runs = {r1, r2}
  Opens = {o1}
  Dirs = {d1, d2}
  N = 2

SYMMETRY Interchangeable

INVARIANTS
  
  BarIsTrue

\* Every transfer ended: the instance simply stops.
CHECK_DEADLOCK FALSE
