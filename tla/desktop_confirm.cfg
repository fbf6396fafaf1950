SPECIFICATION Spec
CONSTANTS
  None = None
  s1 = s1
  s2 = s2
  Made = Made
  Saved = {s1, s2}
  Flows <- Few
  Scenes <- Stage
  MaxRevision = 3
  MaxPresentation = 4
PROPERTY
  PollsKeepConfirmations
CHECK_DEADLOCK FALSE
