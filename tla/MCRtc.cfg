SPECIFICATION Spec
CONSTANTS
  Times <- MCTimes
  Alarms <- MCAlarms
  Counts <- MCCounts
  MaxCalls = 2
  MaxTicks = 1
  MaxUpsets = 1
INVARIANTS ReadBack ClockRuns EnabledIsProgrammed CompensationFits AlarmIsNotLost TrimNeverGated
CHECK_DEADLOCK FALSE
