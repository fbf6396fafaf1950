SPECIFICATION Spec
CONSTANTS
  Plan <- OneSwitch
  Automatic = TRUE
  Review = FALSE
  Verifies = TRUE
  Workers = {w1, w2}
  Menu <- AbortMenu
  TokenLimit = 1
  MaxCommands = 4
  MaxDecodes = 0
  MaxFaults = 0
INVARIANTS
  AbortRefusedForOthersOnly
CHECK_DEADLOCK FALSE
