SPECIFICATION FairSpec
CONSTANTS
  HEARTBEAT_TIMEOUT_S = 3
  BOOT_GRACE_S = 6
  PollPeriod = 1
  BeatPeriod = 2
  BootTime = 4
  CounterMod = 3
  SramSurvives = FALSE
  MaxTime = 14
  MaxBoots = 2
INVARIANTS
  FiredMeansDead
  DisarmStandsDown
  DeadIsDetected
  NewBootGrace
PROPERTY DeadEndsInCountedReset
CHECK_DEADLOCK FALSE
