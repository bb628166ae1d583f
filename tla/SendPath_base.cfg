CONSTANTS
  l1 = l1
  l2 = l2
  l3 = l3
  Nbls = {l1, l2}
  NbCount <- MCNbCount
  NumTcb = 2
  NIC_MAX_PHYS_BUF_COUNT = 2
  Env = {"link", "empty"}
  NULL = NULL
SPECIFICATION Spec
INVARIANTS
  TypeOK
  TbdsApart
  NicOwnsBusyFrames
  RefsCounted
  BusyNblsOwed
CHECK_DEADLOCK TRUE
VIEW ButWire
