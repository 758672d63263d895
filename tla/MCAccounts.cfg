SPECIFICATION Spec

CONSTANTS
  Names = {a, b}
  Configured = {a}
  Forms = {f1, f2}
  SignIns = {m1, m2}
  Commands = {c1, c2}
  NoOne = NoOne

SYMMETRY Interchangeable

INVARIANTS
  FoundedOnce
  AdminRemains
  AccountsMatchInvitations
  DisabledAreLoggedOut
  OnlyInvitedSignIn

\* Every request is answered: the instance simply stops.
CHECK_DEADLOCK FALSE
