SPECIFICATION Spec
CONSTANTS
  NoNode = NoNode
  NoType = NoType
  NoNames = NoNames
  Spelling <- MCSpelling
  IntMin <- MCIntMin
  IntMax = 3
  UIntMax = 4
  UInt64Max = 6
  SizeMax = 5
  MaxSubIds = 7
  U32Max = 99
  UsizeMax = 999
  LargePosition = 9
  MaxNesting = 3
  Now <- MCNow
  Numerals <- MCNumerals
  Samples <- MCSamples
  Requests <- MCRequests
INVARIANTS AcceptedInOrder AcceptedIsUsable DefaultsAllowed LastUpdateIsFirst FailureNotHidden
CHECK_DEADLOCK FALSE
