SPECIFICATION FairSpec
CONSTANTS
  Left = Left
  Right = Right
  Settings <- MCSettings
  NvmWord0F <- MCNvmWord0F
  Scenarios <- MCScenarios
INVARIANTS
  LinkTypeOK
  PauseAgrees
  SetupIsComplete
PROPERTY
  LinkConverges
CHECK_DEADLOCK FALSE
