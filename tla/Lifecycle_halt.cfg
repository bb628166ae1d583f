CONSTANTS
  NumTcb = 2
  NIC_SEND_HANG_THRESHOLD = 1
  NIC_MIN_RECV_BUFFERS = 1
  MaxNumRecvBuffer = 3
  GrowthFaults = {"memory"}
SPECIFICATION FairSpec
INVARIANTS
  LifecycleTypeOK
  EverythingReturned
  UsedWhileThere
  CountIsOfThisFrame
  NeverLeftMasked
PROPERTIES
  HaltEnds
  StuckIsReset
CHECK_DEADLOCK TRUE
