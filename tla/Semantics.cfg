SPECIFICATION Spec
CONSTANTS
  U = U
  V = V
  T = T
  E = E
  C = C
  F = F
  N = N
  G = G
  S = S
  INTEGER = INTEGER
  root = root
  tab = tab
  row = row
  col = col
  row2 = row2
  col2 = col2
  note = note
  grp = grp
  Module = {U, V}
  NoModule = NoModule
  NameOrder <- MCNameOrder
  Name = {T, E, C, F, N, G, S, INTEGER}
  NoName = NoName
  Node <- MCNode
  NoNode = NoNode
  Parent <- MCParent
  BareTypes = {INTEGER}
  Order <- MCOrder
  Worlds <- MCWorlds
INVARIANTS KindOfOwner AugmentsInverse UnlinkedIsReported DeclaredWhole TraceAgrees
CHECK_DEADLOCK FALSE
