SPECIFICATION FairSpec
CONSTANTS
  Last = 3
  MaxStamp = 4
  MaxFaults = 1
  WriteOnly = {3}
  Events = {3}
  Kept = {2}
  NoTask = NoTask
INVARIANTS ReadMeansKnown
PROPERTIES RevisionIsReadInTheEnd
