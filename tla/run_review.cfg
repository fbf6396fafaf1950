\* A reviewed automatic run, manual runs, another session, a restart and one decode.
SPECIFICATION Spec
CONSTANTS
  Plan <- SwitchThenStay
  Automatic = TRUE
  Review = TRUE
  Verifies = TRUE
  Workers = {w1, w2, w3}
  Menu <- ReviewMenu
  TokenLimit = 1
  MaxCommands = 4
  MaxDecodes = 1
  MaxFaults = 0
INVARIANTS
  LaterIntentionsWait
  OneControllerProcess
  LiveProcessesHaveAuthority
PROPERTIES
  AuthorityEndsWithTheSession
  ReplacedSessionLeftAlone
CHECK_DEADLOCK FALSE
