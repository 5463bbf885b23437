SPECIFICATION FairSpec
CONSTANTS
  NRegs = 1
  NBits = 2
  BITS = 2
  MAX_READ_REGS = 1
  MAX_READ_BITS = 2
  MAX_WRITE_REGS = 1
  MAX_WRITE_BITS = 2
  COIL_ON = 12
  Asks <- MCAsks
  Commands <- MCCommands
  MAX_PENDING = 2
  GAP = 1
  STALL = 1
  TIMEOUT = 9
  ZeroEnded = {2}
  MaxRequests = 2
  MaxNoise = 1
INVARIANTS AnswerIsGenuine ServedOnce BusSurvives EofLosesNothing
PROPERTY BridgeEnds
CHECK_DEADLOCK FALSE
