CONSTANTS
  NumHwRecvBuffers = 3
  NIC_MIN_RECV_BUFFERS = 1
  Rbds = {b1, b2}
  NULL = NULL
  NIC_DEF_RECV_BUFFERS = 2
  LoopCount = 2
  MIN_NUM_RECV_BUFFER = 1
  MaxNumRecvBuffer = 3
SPECIFICATION FairPathSpec
PROPERTIES
  PauseCompletes
  EveryFrameHandled
CHECK_DEADLOCK TRUE
