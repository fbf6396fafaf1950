SPECIFICATION Spec
CONSTANTS
  Plan <- OneSwitch
  Automatic = FALSE
  Review = FALSE
  Verifies = TRUE
  Workers = {w1}
  Menu <- ManualMenu
  TokenLimit = 1
  MaxCommands = 3
  MaxDecodes = 1
  MaxFaults = 0
INVARIANTS
  EvidenceRetained
CHECK_DEADLOCK FALSE
