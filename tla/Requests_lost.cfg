CONSTANTS
  Reqs = {r1}
  Filters <- MCFilters
  Lengths = {0, 2, 4, 6, 8, 12, 18}
  MaxLookAhead = 1
  NIC_MAX_MCAST_LIST = 2
  CUSTOM_DRIVER_SET_MAX = 5
  Envs <- MCEnvs
  NULL = NULL
SPECIFICATION Spec
INVARIANT PendingIsCompleted
CHECK_DEADLOCK FALSE
