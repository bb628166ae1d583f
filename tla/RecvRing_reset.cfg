CONSTANTS
  NumHwRecvBuffers = 4
  NIC_MIN_RECV_BUFFERS = 1
  Rbds = {b1, b2, b3, b4}
  NULL = NULL
SYMMETRY RbdSymmetry
SPECIFICATION Spec
INVARIANTS
  TypeOK
  RingShape
CHECK_DEADLOCK TRUE
