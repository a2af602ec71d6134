SPECIFICATION FairSpec
CONSTANTS
  MeasTypes <- MCMeasTypes
  Sensors <- MCSensors
  Layouts <- MCLayouts
  Alphabet = {0, 1, 2, 30, 58, 83, 255}
  Vocabulary <- MCVocabulary
  Budget = 24
  k1 = k1
  k2 = k2
  Keys <- MCKeys
  Devices <- MCDevices
  NoKey = NoKey
  None = None
  Streams <- MCStreams
  SensorsOnly <- MCSensorsOnly
  Ring = 6
  Ceiling = 2
  Window = 2
  MaxChanges = 1
INVARIANTS ARestartForgetsNothing BothSidesParseAlike BytesMeanTheSame FixturesAreUnderstood
PROPERTIES OldPacketsAreNoNews TheDeviceIsUnderstood
