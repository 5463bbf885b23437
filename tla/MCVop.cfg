SPECIFICATION FairSpec
CONSTANTS
  Fbs = {a, b}
  Logo = logo
  NoFb = nofb
  MaxQueued = 1
  MaxStranded = 0
  Upsets = {}
INVARIANTS
  ScansLiveBuffer
  TornOnlyWithGamma
PROPERTIES
  FlipIsOnScreen
  CommitCompletes
CHECK_DEADLOCK FALSE
