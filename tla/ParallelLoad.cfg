SPECIFICATION Spec
CONSTANTS
  A = A
  B1 = B1
  d1 = d1
  d2 = d2
  t1 = t1
  t2 = t2
  IoError = IoError
  Absent = Absent
  Module = {A, B1}
  Doc = {d1, d2}
  Thread = {t1, t2}
  NumSources = 2
  Worlds <- MCWorlds
INVARIANTS Precedence
PROPERTIES DecodedForGood ImplementsBulkLoad
CHECK_DEADLOCK FALSE
