SPECIFICATION FairSpec
CONSTANTS
  Plan <- OneSwitch
  Automatic = TRUE
  Review = TRUE
  Verifies = TRUE
  Workers = {w1, w2}
  Menu <- ReviewMenu
  TokenLimit = 1
  MaxCommands = 3
  MaxDecodes = 0
  MaxFaults = 0
PROPERTIES
  ReadyAdvances
CHECK_DEADLOCK FALSE
