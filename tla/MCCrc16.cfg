SPECIFICATION Spec
CONSTANTS
  Addresses = {1, 17}
  Starts = {127}
  Counts = {1, 125}
  MaxBurst = 16
  MaxLength = 16
INVARIANTS NoiseIsRejected CrcIsRemainder
CHECK_DEADLOCK FALSE
