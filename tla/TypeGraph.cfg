SPECIFICATION Spec
CONSTANTS
  SMI = SMI
  TC = TC
  RFC1155 = RFC1155
  RFC1213 = RFC1213
  User = User
  Foundation = {SMI, TC, RFC1155}
  NoName = NoName
  Pending = Pending
  Module <- MCModule
  Name <- MCName
  LinkedNames = {"DisplayString"}
  NamedBase <- MCNamedBase
  FoundationBase <- MCNamedBase
  DepthLimit = 12
  IntMin <- MCIntMin
  IntMax = 3
  UInt64Max = 9
  UIntMax = 4
  SizeMax = 5
  Worlds <- MCWorlds
INVARIANTS OnlyLinksCloseCycles UnknownIsReported ConstraintsAreIntersections
CHECK_DEADLOCK FALSE
