CONSTANTS
  l1 = l1
  l2 = l2
  l3 = l3
  Nbls = {l1, l2}
  NbCount <- MCNbCount
  NumTcb = 2
  NIC_MAX_PHYS_BUF_COUNT = 1
  Env = {"mapfail", "copyfail", "empty", "pause", "cancel", "reset"}
  NULL = NULL
SPECIFICATION Spec
INVARIANTS
  NoListLost
  CompletedOnce
CHECK_DEADLOCK FALSE
CONSTRAINT DefinedSoFar
VIEW ButWire
