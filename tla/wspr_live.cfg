SPECIFICATION Spec
CONSTANTS
  SlotLength = 2
  Transmission = 1
  Offset = 1
  Grace = 3
  Interval = 1
  RowLimit = 1
  s1 = s1
  s2 = s2
  Sessions = {s1, s2}
  First = s1
  Formats = {"v2", "v6"}
  Intents = 2
  Rows <- SomeRows
  CensusRows <- TwoReporters
  MaxTime = 8
  Saved = {3, 8}
  MaxFaults = 2
INVARIANTS SpotsOnce CapturedAgainOnlyForEvidence EndedOnEvidence
CHECK_DEADLOCK FALSE
