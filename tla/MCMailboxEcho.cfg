SPECIFICATION Spec
CONSTANTS
  Chans = {0, 2}
  Msgs = {m, n}
  None = none
  MaxReloads = 1
  Patient = TRUE
INVARIANT ReplyIsWhole
PROPERTY MessageIsAnswered
