SPECIFICATION Spec
CONSTANTS
  NSensors = 2
  NReadable = 1
  Values = {v1, v2}
  Revisions = 2
  Intervals = {1, 3}
  FastInterval = 1
SYMMETRY Interchangeable
INVARIANTS ReadTimerIsArmed NoStrayTimer FastRateEnds RateIsOnAir
  AirTellsTheLastReading ReadsAreCurrent
