SPECIFICATION CruSpec
CONSTANTS
  Torr = {0, 1}
  BootPokes = {"loader", "maskrom"}
  PollPeriod = 2
  MaxTime = 7
  MaxResets = 2
  MASK = 7
  CpuLength = 2
  Rates = {50, 64, 66, 70, 82, 120}
  Target = 64
  Drift = 12
  MAX_TRIES = 3
INVARIANTS
  WatchdogBites
  BootModeWasAsked
  RingNotShortened
  CloseIsFound
PROPERTIES
  PetHoldsOff
  CalibrationEnds
CHECK_DEADLOCK FALSE
