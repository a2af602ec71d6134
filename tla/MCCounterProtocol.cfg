SPECIFICATION Spec
CONSTANTS
  Space = 64
  Window = 32
  WriteStride = 2
  HighestCounter = 6
  Stride = 2
  Jump = 3
  FirstClock = 2
  LastClock = 4
  LastCounter = 8
  NoWrite = NoWrite
INVARIANTS AnsweredWritesAreAccepted InStepUntilOneForgets NoMeansNo NoCounterIsDrawnTwice
