SPECIFICATION Spec
CONSTANTS
  NRegs = 3
  NBits = 4
  BITS = 3
  MAX_READ_REGS = 2
  MAX_READ_BITS = 4
  MAX_WRITE_REGS = 2
  MAX_WRITE_BITS = 3
  COIL_ON = 56
  Requests <- MCRequests
  Seeds <- MCSeeds
  SeedAddrs = {1}
  Ids <- MCIds
  Drops = {1, 2}
  Codes = {4}
PROPERTY ImplementsDevice
VIEW View
