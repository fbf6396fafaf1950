\* An automatic run with a second association while the first one works.
SPECIFICATION Spec
CONSTANTS
  Plan <- OneSwitch
  Automatic = TRUE
  Review = FALSE
  Verifies = TRUE
  Workers = {w1, w2}
  Menu <- AbortMenu
  TokenLimit = 1
  MaxCommands = 5
  MaxDecodes = 0
  MaxFaults = 0
INVARIANT AbortIsTold
CHECK_DEADLOCK FALSE
