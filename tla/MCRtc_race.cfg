SPECIFICATION Spec
CONSTANTS
  Times <- MCTimes
  Alarms <- MCAlarms
  Counts <- MCCounts
  MaxCalls = 1
  MaxTicks = 0
  MaxUpsets = 0
INVARIANTS SetTimeRestarts
CHECK_DEADLOCK FALSE
