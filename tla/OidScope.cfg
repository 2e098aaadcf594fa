SPECIFICATION Spec
CONSTANTS
  S = S
  V1Base = V1Base
  U = U
  V = V
  iso = iso
  ent = ent
  a = a
  b = b
  c = c
  t = t
  NoModule = NoModule
  NoName = NoName
  NoPath = NoPath
  Module = {S, V1Base, U, V}
  Name = {iso, ent, a, b, c, t}
  NameOrder <- MCNameOrder
  RootArc <- MCRootArc
  MaxArc = 4
  SnmpTraps <- MCSnmpTraps
  Smi = S
  Rfc = V1Base
  Worlds <- ScopeWorlds
INVARIANT LocalDefsFirst
CHECK_DEADLOCK FALSE
