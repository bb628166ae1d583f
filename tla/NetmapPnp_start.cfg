SPECIFICATION Spec
CONSTANTS
  Functions = {Lan0, Lan1}
  Lan1 = Lan1
  Clients = {Lan0}
  AddressBits = 3
  WordBits = 2
  MaxTimeouts <- MCMaxTimeouts
  CHECKSUM_REG = 3
  SUM = 2
  Contents <- MCContents
  Rewrites <- MCRewrites
  Adapters <- MCAdapters
INVARIANTS
  PnpTypeOK
  TransfersAreTrue
  ChecksumKept
  StartedIsSound
  MappingsReturned
CHECK_DEADLOCK FALSE
