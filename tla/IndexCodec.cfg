SPECIFICATION Spec
CONSTANTS
  OctetMax = 1
  IntMin <- MCIntMin
  IntMax = 1
  UIntMax = 2
  UInt64Max = 3
  SizeMax = 2
  None = None
  Clauses <- MCClauses
  Limits <- MCLimits
  Suffixes <- MCSuffixes
  Rows <- MCRows
INVARIANTS RoundTrip WithinWidth PrefixRecoverable
CHECK_DEADLOCK FALSE
