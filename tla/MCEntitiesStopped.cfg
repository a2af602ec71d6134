SPECIFICATION Spec
CONSTANTS
  on = on
  off = off
  press = press
  light = light
  text = text
  button = button
  Commands = {on, off, press}
  EntryOf <- MCEntryOf
  ControlOf <- MCControlOf
  FirstLayout <- MCFirstLayout
  Layouts <- MCLayouts
  MaxLayouts = 1
  Events = {press}
  Flush = Flush
  None = None
  FlushMayBeCancelled = FALSE
INVARIANTS NobodyIsToldItStopped
CHECK_DEADLOCK FALSE
