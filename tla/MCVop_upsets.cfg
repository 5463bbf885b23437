SPECIFICATION Spec
CONSTANTS
  Fbs = {a}
  Logo = logo
  NoFb = nofb
  MaxQueued = 1
  MaxStranded = 1
  Upsets = {"enable", "timeout", "dclk"}
INVARIANTS
  BusIsSafe
  ReferencesBalance
  LogoIsKept
CHECK_DEADLOCK FALSE
