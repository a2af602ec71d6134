SPECIFICATION Spec
CONSTANTS
  k1 = k1
  k2 = k2
  Keys = {k1, k2}
  NoKey = NoKey
  None = None
  light = 16
  text = 83
  press = 58
  Layouts <- MCLayouts
  OldRows <- MCOldRows
  Caps = {1, 2}
  Default = 2
  Stride = 2
  MaxCommands = 2
  MaxChanges = 2
INVARIANTS KeysWereProved
CHECK_DEADLOCK FALSE
