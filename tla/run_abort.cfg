SPECIFICATION FairSpec
CONSTANTS
  Plan <- OneSwitch
  Automatic = TRUE
  Review = FALSE
  Verifies = TRUE
  Workers = {w1, w2}
  Menu <- AbortMenu
  TokenLimit = 1
  MaxCommands = 4
  MaxDecodes = 0
  MaxFaults = 1
INVARIANTS
  SettledMeansRecorded
  AbortHearsItsAttempt
  OneWorkerPerAssociation
PROPERTIES
  CommandsReturn
  WorkersEnd
CHECK_DEADLOCK FALSE
