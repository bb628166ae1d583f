CONSTANTS
  NumHwRecvBuffers = 3
  NIC_MIN_RECV_BUFFERS = 1
  Rbds = {b1, b2, b3, b4}
  NULL = NULL
  NIC_DEF_RECV_BUFFERS = 2
  LoopCount = 2
  MIN_NUM_RECV_BUFFER = 1
  MaxNumRecvBuffer = 3
SYMMETRY RbdSymmetry
SPECIFICATION PathSpec
INVARIANTS
  PathTypeOK
  NicOwnsOnlyReady
  RbdsAccountedFor
  PausedIsQuiet
  FramesInOrder
PROPERTY OperSpec
CHECK_DEADLOCK TRUE
