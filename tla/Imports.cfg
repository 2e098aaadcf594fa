SPECIFICATION Spec
CONSTANTS
  A = A
  B = B
  C = C
  Old = Old
  Gone = Gone
  x = x
  y = y
  macro = macro
  NoName = NoName
  NoMod = NoMod
  ModName = {A, B, C, Old, Gone}
  Symbol = {x, y, macro}
  MacroNames = {macro}
  AliasOf <- MCAliasOf
  Worlds <- MCWorlds
INVARIANTS AtDefiner PathSound NoFalseMissing Accounted
PROPERTY Terminates
CHECK_DEADLOCK FALSE
