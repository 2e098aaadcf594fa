SPECIFICATION Spec
CONSTANTS
  P = P
  Q = Q
  R = R
  d1 = d1
  d2 = d2
  IoError = IoError
  Absent = Absent
  Module = {P, Q, R}
  Doc = {d1, d2}
  NumSources = 2
  Worlds <- MCWorlds
  Requests <- MCRequests
  BaseModules <- MCBaseModules
INVARIANTS ClosureOwed
PROPERTIES ImplementsSelection
CHECK_DEADLOCK FALSE
