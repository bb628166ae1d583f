CONSTANTS
  l1 = l1
  l2 = l2
  l3 = l3
  Nbls = {l1, l2}
  NbCount <- MCLongList
  NumTcb = 2
  NIC_MAX_PHYS_BUF_COUNT = 1
  Env = {"other"}
  NULL = NULL
SPECIFICATION FairSpec
PROPERTIES
  SentIsCompleted
CHECK_DEADLOCK TRUE
