SPECIFICATION Spec
CONSTANTS
  None = None
  Retract = Retract
  BadNumber = BadNumber
  BadMode = BadMode
  Local = Local
  Days <- AllDays
INVARIANTS
  EvidenceMatchesTheConductor
  PairsAreSound
  SpotsOfCoveredCyclesCount
  UpgradeInventsNothing
CHECK_DEADLOCK FALSE
