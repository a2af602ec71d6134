\* Writes below half the space: every one this receiver sends until 2038.  The
\* sealing counter goes through the whole space, and over its end.
SPECIFICATION CountersSpec
CONSTANTS
  Space = 16
  Window = 8
  WriteStride = 2
  HighestCounter = 5
  AdvStride = 3
INVARIANTS NeverBehindWhatWasAccepted NextNonceIsFresh
